\* Concurrent create, link and unlink, as in linkunlink of usertests.c.
SPECIFICATION Spec
CONSTANTS
  Procs = {p1, p2}
  p1 = p1
  p2 = p2
  NoProc = NoProc
  Names = {"a", "b"}
  NInodes = 3
  NInode = 9
  Calls <- LinkUnlink
INVARIANT NoDeadlock
CHECK_DEADLOCK FALSE
