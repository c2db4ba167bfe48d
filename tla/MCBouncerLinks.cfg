SPECIFICATION Spec
CONSTANTS
  Bouncers = {"a", "b", "c"}
  Links <- Ring
  Setups <- Beginnings
  Users = {"u", "v"}
  Home <- TwoHomes
INVARIANTS Consistent TopologyExact PartyExact
CHECK_DEADLOCK FALSE
