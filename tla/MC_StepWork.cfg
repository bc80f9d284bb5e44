SPECIFICATION Spec
CONSTANTS
  Steps = {"build", "test"}
  Condition <- MCCondition
  ScopeOf <- MCScopeOf
  TopLevel = ""
  Worker = "test"
  Processes = {"sh", "helper", "daemon"}
  Shell = "sh"
  Group = {"sh", "helper"}
  Streams = {"stdout", "stderr"}
  Scripts <- MCScripts
  LineEnd = "nl"
  OutputFiles <- MCOutputFiles
  MaxProbes = 2
  Prompts <- MCPrompts
  TypedLines = {"", "y", "2", "3"}
  Eof = "eof"
INVARIANT SuccessIsWhole
PROPERTY AnswersThisCall
PROPERTY BodyReturns
CHECK_DEADLOCK FALSE
