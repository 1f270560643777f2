SPECIFICATION FairSpec
CONSTANTS
  MAX_TASKS = 3
  NLaunch = 2
  NElf = 1
  NSIG = 4
  SIGINT = 2
  SigTasks = {2}
  Handlers <- MCHandlers
  Val = {0}
  EntryEip = 2
  EntryEsp = 6
  UserCtx <- OneCtx
INVARIANT RingIsFifo
PROPERTIES
  RoundRobin
  EveryTaskRuns
  DeliveryNotPostponed
CHECK_DEADLOCK FALSE
