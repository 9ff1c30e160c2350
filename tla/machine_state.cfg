SPECIFICATION Spec
CONSTANTS
  system = system
  wsl = wsl
  Collectors <- MCCollectors
  Snapshot = Snapshot
  RunMax = 3
  FaultMax = 2
  LossMax = 1
INVARIANTS
  TypeOK
  SnapshotIsTrue
PROPERTIES
  DeselectedGoes
  FailedKeepsBackup
CHECK_DEADLOCK FALSE
