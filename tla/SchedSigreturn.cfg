SPECIFICATION Spec
CONSTANTS
  MAX_TASKS = 2
  NLaunch = 1
  NElf = 1
  NSIG = 2
  SIGINT = 1
  SigTasks = {0, 1}
  Handlers <- MCHandlers
  Val = {0, 1}
  EntryEip = 2
  EntryEsp = 6
  UserCtx <- RegCtx
PROPERTY SigreturnRestoresContext
CHECK_DEADLOCK FALSE
