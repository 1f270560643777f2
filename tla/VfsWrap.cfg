SPECIFICATION Spec
CONSTANTS
  block_size = 3
  NDIRECT = 2
  WORD = 16
  EXT2_ROOT_INODE = 2
  Tasks = {A}
  VFS_POOL_SIZE = 2
  MAX_FD = 5
  Images <- MCImages
  Paths <- MCPaths
  Counts = {1, 15}
INVARIANT ReadWithinFile
