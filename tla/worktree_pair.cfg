SPECIFICATION FairSpec
CONSTANTS
  r1 = r1
  r2 = r2
  alpha = alpha
  beta = beta
  NoRun = NoRun
  None = None
  Runs = {r1, r2}
  PlanOf <- ApartPlans
  NamesOf <- ApartNames
  ConfigsOf <- MixedConfigs
  MaxHead = 1
  MaxSuffix = 1
  FaultMax = 1
  UserMax = 0
  MayConflict = TRUE
INVARIANTS
  TypeOK
  ReceiptsHold
PROPERTIES
  LandsAudited
  ImplementsLanding
  RunsFinish
CHECK_DEADLOCK FALSE
