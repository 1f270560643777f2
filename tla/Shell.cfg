SPECIFICATION ShSpec
CONSTANTS
  KB_BUF_SIZE = 3
  Chars = {2, 3, 10, 32}
  CharC = 2
  MaxKeys = 6
  LINE_SIZE = 5
  NL = 10
  SP = 32
  ZERO = 0
  CAT <- CatWord
  RAISE <- RaiseWord
  INT_MAX = 7
  NSIG = 7
  SIGINT = 2
  SIGUSR1 = 3
  SIGTERM = 6
INVARIANTS
  ReadStable
  ShTypeOK
  LinesAsTyped
  NoUnaskedSignal
PROPERTIES
  RefinesKeyQueue
  EnterExecuted
  CtrlCHeard
CHECK_DEADLOCK FALSE
