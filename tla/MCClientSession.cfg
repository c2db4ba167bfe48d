SPECIFICATION MCSpec
CONSTANTS
  ann = ann
  bob = bob
  p1 = p1
  p2 = p2
  h1 = h1
  h2 = h2
  NUsers = 3
  Parent <- MCParent
  Fds = {1, 2, 3}
  MaxPeer = 2
  MaxPerHost = 1
  MaxLines = 3
  Hosts = {h1, h2, h3}
  HostAllows = {h1, h2}
  Names = {ann, bob}
  Passes = {p1, p2}
  Accounts <- MCAccounts
  MaxPenalty = 1
  LockTime = 1
  LockRand = 2
  ForeignBquit = {3}
INVARIANTS Consistent  
PROPERTY LockoutHolds
SYMMETRY Symmetry
