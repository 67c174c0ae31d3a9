\* More blocks than buffers; a buffer for each process beyond the pinned one.
SPECIFICATION Spec
CONSTANTS
  Procs = {p1, p2}
  Blocks = {k1, k2, k3, k4}
  Vals = {v1, v2}
  NBuf = 3
  MaxPinned = 1
  NoProc = NoProc
  NoBlock = NoBlock
SYMMETRY Symmetry
INVARIANTS RefcntCounts QueueIsServed
PROPERTY ImplementsBlockStore
