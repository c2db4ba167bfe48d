CONSTANTS
    ann = ann
    bob = bob
    ef = ef
    dal = dal
    MaxUser = 4
    Fds = {1, 2}
    Logins = {ann, bob}
    Nets = {ef, dal}
    NewValues = {1}
    MaxSets = 1
    DeleteSwitched = FALSE
    Nicks = {"mynick", "mainnick", "x"}
    Chans = {"#c"}
    Server = "irc.server"
SPECIFICATION Spec
SYMMETRY Symmetry
INVARIANTS Consistent SavedMatches  TokensRouteBack
PROPERTY OwnerKept
CHECK_DEADLOCK FALSE
