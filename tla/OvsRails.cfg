SPECIFICATION FairSpec
CONSTANTS
  Rails = {0, 1}
  MaxFaults = 4
  FaultSets <- mcFaultSets
INVARIANTS TypeOK DoneIsDurable
PROPERTIES OvsConverges
