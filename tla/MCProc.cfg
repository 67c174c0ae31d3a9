\* Four slots: init, a grandparent, a parent and a child that becomes a zombie
\* which init inherits while the grandparent lives.
SPECIFICATION Spec
CONSTANTS
  NProc = 4
  Cpus = {c1, c2}
  NoCpu = NoCpu
  Channels = {}
  MaxPid = 4
  KillArgs = {2}
  MayFail = TRUE
SYMMETRY Symmetry
INVARIANTS OneStackOneCpu NoOrphans WaiterSeesZombie
