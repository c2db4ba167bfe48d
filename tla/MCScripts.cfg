SPECIFICATION Spec
CONSTANTS
  Users = {"u", "n"}
  Parent <- Family
  Files <- SmallScripts
  MAXFORKS = 1
  Pids = {1, 2, 3}
INVARIANTS Consistent EntriesOwnTasks
