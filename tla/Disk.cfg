SPECIFICATION Spec
CONSTANTS
  WORDS = 2
  Lbas <- DiskLbas
  Writes <- DiskWrites
  Images <- DiskImages
  Inodes = {1, 3, 9, 16, 17}
  SpareLbas <- Spare
  MaxInodes = 2
  MaxSpare = 2
CHECK_DEADLOCK FALSE
INVARIANTS
  TypeOK
  InodeLocated
PROPERTIES
  RefinesSectors
  CallsEnd
