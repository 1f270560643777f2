SPECIFICATION Spec
CONSTANTS
  PMM_MAX_PAGES = 40
  PMM_RESERVED = 18
  N = 10
  MemSize = 44
  KTables = 3
  KERNEL_PD = 1
  KERNEL_PT = 2
  KERNEL_VIRTUAL = 7
  Layout <- MCLayout
  TASK_CODE_VIRT = 30
  TASK_STACK_VIRT = 31
  USER_STACK_VIRT = 34
  MAX_ELF_SIZE = 40
  DirectBytes = 30
  EHDR = 2
  Files <- MCFiles
  Junk = 75
  NExec = 2
INVARIANTS
  TypeOK
  KernelMapped
  UserHalvesDisjoint
  ImageLoaded
CHECK_DEADLOCK FALSE
