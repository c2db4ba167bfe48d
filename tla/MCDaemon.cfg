SPECIFICATION DaemonSpec
CONSTANTS
  Lines = 2
  MaxVersion = 1
  Inodes = {i1, i2, i3, i4}
  Entries = {0, 1, 2}
  a = a
  b = b
  Address <- MCAddress
  Signals = {"TERM", "HUP", "USR2"}
  MaxFailed = 3
INVARIANTS Consistent FilesSafe
PROPERTIES FixRestores FailedListenersGo
CHECK_DEADLOCK FALSE
