SPECIFICATION FairSpec
CONSTANTS
  TaintsOn = TRUE
  LabelPolicy = "manage"
  MaxFaults = 3
  Faults = {"boot", "lostUpdate"}
PROPERTIES WalkResumes
