\* One process makes and links names that the other one removes.
SPECIFICATION Spec
CONSTANTS
  Procs = {p1, p2}
  p1 = p1
  p2 = p2
  NoProc = NoProc
  Names = {"a", "b"}
  NInodes = 3
  NInode = 9
  Calls <- AllCalls
INVARIANTS RefsAreCounted OpenInodesLive LinksAreCounted
CHECK_DEADLOCK FALSE
