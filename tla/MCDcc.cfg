SPECIFICATION Spec
CONSTANTS
  Fds = {3, 4}
  Bots = {a, b}
  Nicks = {"n", "m"}
  DELAY = 1
  LOADED = 2
  Size <- WholeAndBroken
  MaxDccs = 2
SYMMETRY BotSymmetry
INVARIANTS Consistent BlocksAcknowledged FilesWhole
