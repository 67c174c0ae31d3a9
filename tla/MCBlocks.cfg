CONSTANTS
  Procs = {1, 2}
  Files = {1, 2}
  Shared = {}
  NBlocks = 4
  BSIZE = 2
  NDIRECT = 1
  MAXOPBLOCKS = 6
  Sizes = {3}
  ReadSizes = {6}
  MaxGroup = 2
SPECIFICATION Spec
INVARIANTS BlocksAreAccounted
PROPERTY ImplementsFileStore
