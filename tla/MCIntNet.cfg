SPECIFICATION MCSpec
CONSTANTS
  Bouncers = {"a", "b"}
  Links <- OneLink
  Behind <- OneBehind
  Users = {"u", "v"}
  Home <- OneHome
  Nicks = {"m", "n", "g"}
  Guests = {"g"}
  Chans = {"c"}
  Letters = {"o","v","i","b"}
  MAXINTOPS = 2
  MaxLines = 0
  MaxEvents = 5
INVARIANTS Consistent 
CHECK_DEADLOCK FALSE
