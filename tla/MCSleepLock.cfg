\* No symmetry, which TLC may not use for liveness.
SPECIFICATION FairSpec
CONSTANTS
  Procs = {p1, p2, p3, p4}
  NoProc = NoProc
PROPERTIES
  SleeperWakes
