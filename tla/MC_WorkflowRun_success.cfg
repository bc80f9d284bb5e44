\* Steps that succeed or are skipped by their if:.
CONSTANTS
  MaxIncludeDepth = 2
  Outcomes = {"success", "skipped"}
  Libraries <- MCUsed
SPECIFICATION Spec
CHECK_DEADLOCK FALSE
INVARIANT SuccessUnlessFailed
