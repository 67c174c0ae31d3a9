\* Two processes have a file open, which one of them unlinks.
SPECIFICATION Spec
CONSTANTS
  Procs = {p1, p2}
  p1 = p1
  p2 = p2
  NoProc = NoProc
  Names = {"a", "b"}
  NInodes = 3
  NInode = 9
  Calls <- OpenUnlink
INVARIANT FreedAtLast
CHECK_DEADLOCK FALSE
