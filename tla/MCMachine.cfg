CONSTANTS
  NProc = 2
  NPages = 14
  PGSIZE = 2
  KERNBASE = 8
  PerTable = 2
  Amounts <- MCAmounts
  ImageSize = 1
  Values = {"a"}
  Readers = {"p", "q"}
  INPUT_BUF = 3
  IndexWrap = 6
  Letters = {"a"}
  MaxRead = 2
  NCpu = 2
  NThread = 2
  TickWrap = 3
  Sleeps = {1}
  Killable = {1}
  Contenders = {"p", "q", "s", "t"}
  Nobody = "none"
  Apics = {1, 2, 3}
  NCPU = 3
  Low = 4
  High = 1
  NPROC = 3
  MemEnd = 13
  MinCore = 4
  Requests = {1, 2, 4}
  MaxLen = 3
  Players = {"u", "v", "x", "y", "z"}
  MAXARGS = 3
  Width = 4
  BSIZE = 4
  NDIRECT = 2
  NINDIRECT = 2
  NMeta = 5
  DirSize = 2
  SECTSIZE = 2
  Limit = 12
  MemLines = {0, 1, 2, 4}
  Sets = 2
  Ways = 2
  NUMSLOTS = 3
  MatchWidth = 3
SPECIFICATION Spec
INVARIANTS PagesHaveOneOwner NeverStuck NoLostWakeup InterruptsRestored SleepIsExact
  CpusKeepApart HeapIsWhole  
PROPERTIES ImplementsMutex OnlyForkLoses MemoryIsPrivate ImplementsLineQueue
