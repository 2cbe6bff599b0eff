SPECIFICATION FairSpec
CONSTANTS
  c1 = c1
  c2 = c2
  c3 = c3
  Nodes <- pair
  ControlPlanes <- pair
  Imports <- freshPair
  Expected = 2
  MaxFlash = 1
  Strategy = "serial"
  MaxFaults = 1
  Faults = {"listFail", "fail", "resume", "cold", "edit"}
PROPERTIES QueuedNodeProceeds
