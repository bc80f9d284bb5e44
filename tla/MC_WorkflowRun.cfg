\* Fragments nested two deep, every status success or failure.
CONSTANTS
  MaxIncludeDepth = 2
  Outcomes = {"success", "failed"}
  Libraries <- MCUsed
SPECIFICATION Spec
CHECK_DEADLOCK FALSE
INVARIANTS
  SourceOrder
  TeardownReadsOutcome
  OneNeedPerTeardown
  NothingStalls
  RefusedForAReason
  LoadsAsWritten
