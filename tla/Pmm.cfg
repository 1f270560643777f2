SPECIFICATION Spec
CONSTANTS
  PMM_MAX_PAGES = 9
  PMM_RESERVED = 3
  MemSizes = {1, 3, 7, 12}
INVARIANTS
  TypeOK
  OwnedExact
  FreeCountExact
PROPERTY AllocExclusive
