SPECIFICATION Spec
CONSTANTS
  block_size = 3
  NDIRECT = 2
  WORD = 16
  EXT2_ROOT_INODE = 2
  Tasks = {A, B}
  VFS_POOL_SIZE = 3
  MAX_FD = 5
  Images <- MCImages
  Paths <- MCPaths
  Counts = {0, 1, 4}
INVARIANTS
  TypeOK
  NodesNotShared
  NoNodeLeak
  ReadsAreSequential
  LsShowsOpenable
