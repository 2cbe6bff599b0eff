SPECIFICATION FairSpec
CONSTANTS
  Fns <- mcFns
  Class <- mcClass
  Exposes <- mcExposes
  Strict = {"cx4"}
  Profiles <- mcProfiles
  MaxFaults = 4
  FaultSets <- mcFaultSets
INVARIANTS TypeOK VerdictIsTrue RememberedSetIsBooted
PROPERTIES FirmwareConverges
