SPECIFICATION Spec
CONSTANTS
  Keys <- MCKeys
  Fixed <- MCFixed
  Values = {"a", "b"}
  InitialConfs <- MCInitialConfs
INVARIANT Consistent
PROPERTY ImplementsMap
