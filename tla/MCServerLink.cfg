SPECIFICATION MCSpec
CONSTANTS
  NUsers = 2
  Fds = {1, 2}
  MaxServer = 2
  RetryDelay = 1
  Delays = {0, 1}
  SocTimeout = 0
  StoneCheck = 1
  StoneTime = 1
  SyncFailures = TRUE
INVARIANTS Consistent QuitStaysOff
PROPERTIES AttemptsSpaced NextServerTried
