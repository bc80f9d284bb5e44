\* Every kind of step, loops of up to two elements, three attempts.
CONSTANTS
  Configs <- MCConfigs
  MaxItems = 2
SPECIFICATION Spec
CHECK_DEADLOCK FALSE
INVARIANTS
  TypeOK
  ReturnAgrees
  RetriesAddUp
  
PROPERTIES
  Returned
