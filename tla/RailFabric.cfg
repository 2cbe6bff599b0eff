SPECIFICATION FairSpec
CONSTANTS
  VFs = {0, 1}
  Profiles <- mcProfiles
  MaxFaults = 4
  FaultSets <- mcFaultSets
INVARIANTS TypeOK FabricServes
PROPERTIES ConvergedLeftAlone FabricConverges
