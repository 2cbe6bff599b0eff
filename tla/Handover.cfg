SPECIFICATION FairSpec
CONSTANTS
  Profiles <- mcProfiles
  Mode <- mcMode
  Prep <- mcPrep
  Edited <- mcEdited
  MaxFaults = 2
  FaultSets <- mcFaultSets
INVARIANTS TypeOK NoStageSkipped ReadyServesProfile
PROPERTIES ImportSaysWhatIsDone CompleteOpens ClaimedNodeOpens UnclaimedMachineFreed
CHECK_DEADLOCK FALSE
