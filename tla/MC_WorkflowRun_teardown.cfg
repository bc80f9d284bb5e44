\* A fragment whose steps branch.
CONSTANTS
  MaxIncludeDepth = 2
  Outcomes = {"success", "failed"}
  Libraries <- MCUsed
SPECIFICATION Spec
CHECK_DEADLOCK FALSE
INVARIANT TeardownAfterBody
