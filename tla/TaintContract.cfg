SPECIFICATION FairSpec
CONSTANTS
  TaintsOn = TRUE
  LabelPolicy = "manage"
  MaxFaults = 2
  Faults = {"boot", "span", "restart", "drift", "nodeWrite", "walkFail", "resume", "edit", "deselect", "lostUpdate"}
INVARIANTS TypeOK VerifiedIsThisBoot
PROPERTIES  MachineReleased OfferWithdrawn ContractSettles
