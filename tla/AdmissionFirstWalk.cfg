SPECIFICATION Spec
CONSTANTS
  c1 = c1
  c2 = c2
  c3 = c3
  Nodes <- trio
  ControlPlanes <- trio
  Imports <- freshTrio
  Expected = 3
  MaxFlash = 0
  Strategy = "serial"
  MaxFaults = 2
  Faults = {"hold", "boot", "patch"}
SYMMETRY trioSymmetry
INVARIANTS TypeOK ControlPlaneWindow
PROPERTIES GrantStands
