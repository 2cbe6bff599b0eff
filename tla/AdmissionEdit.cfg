SPECIFICATION Spec
CONSTANTS
  c1 = c1
  c2 = c2
  c3 = c3
  Nodes <- pair
  ControlPlanes <- pair
  Imports <- freshPair
  Expected = 2
  MaxFlash = 0
  Strategy = "serial"
  MaxFaults = 1
  Faults = {"edit"}
INVARIANTS ControlPlaneWindow
