SPECIFICATION FairSpec
CONSTANTS
  b1 = b1
  b2 = b2
  repo = repo
  Order <- MCOrder
  Secrets <- MCSecrets
  Repos <- MCRepos
  Backups = {b1}
  UploadMax = 2
  PruneMax = 1
  FaultMax = 1
  StopMax = 1
  LossMax = 1
INVARIANTS
  TypeOK
  TargetsAreWhole
  OkMeansRestored
  SecretsReadable
PROPERTIES
  RestoreConverges
CHECK_DEADLOCK FALSE
