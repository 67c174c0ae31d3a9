CONSTANTS
  NInodes = 19
  NFile = 9
  NOFile = 6
  NPipe = 2
  NProc = 9
  MaxPid = 10
  PipeSize = 1
  MaxFile = 6
  MaxChunk = 2
  MaxArgs = 8
  MAXARGS = 8
  NLines = 2
  FileUnits = 6
  Slots = 7
  LongNames <- MCLongNames
  Image <- MCImage
  Boot <- MCBoot
  Exec <- exec
  ParseCmd <- MCparsecmd
SPECIFICATION Spec
INVARIANTS TestsPass TablesAgree
PROPERTIES ProgramsEnd
