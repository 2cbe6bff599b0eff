SPECIFICATION FairSpec
CONSTANTS
  p0 = p0
  p1 = p1
  PFs <- ports
  Firmware <- mixedFirmware
  Demands <- mcDemands
  Clamp = 1
  MaxFaults = 2
  FaultSets <- mcFaultSets
INVARIANTS TypeOK OneWarmLoad VFsFitCeiling
PROPERTIES StagesConverge
CHECK_DEADLOCK FALSE
