SPECIFICATION FairSpec
CONSTANTS
  Steps <- mcSteps
  StageOf <- mcStageOf
  Kind <- mcKind
  Order <- mcOrder
  Critical <- mcCritical
  Want <- mcWant
  MaxAttempts = 2
  MaxGen = 2
  MaxFaults = 3
  FaultSets <- mcFaultSets
INVARIANTS TypeOK VerifiedMeansThisBoot RebootIsOwed ReadyConverged
PROPERTIES NoWorkOnHaltedHost HonoursContract Settles ResumeHonoured
CHECK_DEADLOCK FALSE
