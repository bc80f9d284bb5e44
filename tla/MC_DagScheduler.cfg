\* Every plan of four steps, two workers.
CONSTANTS
  N = 4
  Steps = 4
  Parallel = 2
  Outcomes = {"success", "failed"}
  Graphs <- MCGraphs
SPECIFICATION Spec
CHECK_DEADLOCK FALSE
INVARIANTS
  TypeOK
  IInv
  NothingLost
PROPERTIES
  ImplementsDagRun
  Terminates
