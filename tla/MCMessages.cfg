SPECIFICATION Spec
CONSTANTS
  slt1 <- Salt1
  slt2 <- Salt2
  CODE1 = 23
  CODE2 = 79
  SA1 = 3
  SA2 = 5
  Kinds = {"OP", "IGN", "LGI", "ENC", "TRA"}
  Hosts = {a, b}
  Passwords <- FitsAndNot
  LOADED = 1
  KEPT = 31
  MAXITEML = 3
  Setups <- Cases
  MAXSYNTRANS = 0
  TIMEOUT = 2
SYMMETRY HostSymmetry
INVARIANTS Consistent LogsExact SecretKept JobsOwnSockets
