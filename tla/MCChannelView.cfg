SPECIFICATION MCSpec
CONSTANTS
  Nicks = {"me", "_me", "x"}
  Othernick = "_me"
  Askops = {"x"}
  Chans = {"#a", "#b"}
  Wantnick = "me"
  Banned = {"x"}
  Friends = {"_me"}
  StoredChans <- OneChan
  ModeLines <- BanAndOp
  MaxWire = 4
  MaxEvents = 4
INVARIANTS Consistent ViewMatches ClientMatches
CHECK_DEADLOCK FALSE
