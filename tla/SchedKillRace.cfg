SPECIFICATION Spec
CONSTANTS
  MAX_TASKS = 2
  NLaunch = 1
  NElf = 1
  NSIG = 3
  SIGINT = 2
  SigTasks = {0, 1}
  Handlers <- MCHandlers
  Val = {0}
  EntryEip = 2
  EntryEsp = 6
  UserCtx <- OneCtx
INVARIANT NoSignalLost
CHECK_DEADLOCK FALSE
