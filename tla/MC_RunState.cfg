\* Four steps, two of them anonymous, a cleanup step, two lives.
CONSTANTS
  Nodes <- MCNodes
  Needs <- MCNeeds
  Cleanup <- MCCleanup
  Keys = {"fetch", "build", ""}
  Key <- MCKey
  MaxLives = 2
SPECIFICATION Spec
CHECK_DEADLOCK FALSE
INVARIANTS
  TypeOK
  RecordedIsTrue
  VerdictIsFinal
PROPERTIES
  Completes
