SPECIFICATION Spec
CONSTANTS
  Fns <- mcFns
  Class <- mcClass
  Exposes <- mcExposes
  Strict = {"cx4"}
  Profiles <- mcProfiles
  MaxFaults = 1
  FaultSets = {{"tool"}}
INVARIANT SetIsBooted
