\* Every declaration against every supplied value, preset and environment.
CONSTANTS
  Ints <- MCInts
  Floats <- MCFloats
  Durations <- MCDurations
  Json <- MCJson
  PartsOf <- MCPartsOf
  Opens <- MCOpens
  LengthOf <- MCLengthOf
  TextOf <- MCTextOf
  JsonTextOf <- MCJsonTextOf
  Workflows <- MCWorkflows
  Supplied <- MCSupplied
  PresetArgs <- MCPresetArgs
  Environments <- MCEnvironments
  Includes <- MCIncludes
  Canonical <- MCCanonical
  Inside <- MCInside
  Existing = {"/ws/x"}
  NaN = NaN
SPECIFICATION Spec
CHECK_DEADLOCK FALSE
INVARIANTS
  AdmissibleAsDeclared
  ErrorsAreTheCallers
  DefaultsReadSettled
  RejectedForCause
  EnvRoundTrips
  BlankOnlyByCaller
