SPECIFICATION FairSpec
CONSTANTS
  r1 = r1
  r2 = r2
  alpha = alpha
  beta = beta
  NoRun = NoRun
  None = None
  Runs = {r1}
  PlanOf <- SoloPlan
  NamesOf <- SoloNames
  ConfigsOf <- SoloConfigs
  MaxHead = 2
  MaxSuffix = 1
  FaultMax = 3
  UserMax = 2
  MayConflict = TRUE
INVARIANTS
  NoWorkLost
PROPERTIES
  RunsFinish
  StuckForGood
CHECK_DEADLOCK FALSE
