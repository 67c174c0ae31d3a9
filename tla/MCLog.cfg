\* Two callers with room for one more than the other needs: group commits, calls
\* that wait for room, crashes anywhere. No symmetry, because of the fairness.
SPECIFICATION FairSpec
CONSTANTS
  Procs = {p1, p2}
  Blocks = {b1, b2, b3}
  Vals = {v1, v2}
  LogSize = 4
  NLog = 4
  MaxOpBlocks = 2
  OpMax = 1
  NoVal = NoVal
  NoBlock = NoBlock
INVARIANTS
  CommitAlone
  RoomIsReserved
PROPERTIES
  ImplementsAtomicDisk
  SleeperWakes
