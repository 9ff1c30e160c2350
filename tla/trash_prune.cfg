SPECIFICATION FairSpec
CONSTANTS
  Order <- MCOrder
  Keys <- MCKeys
  Fold <- Fold12
  Kinds <- MCKinds
  Foreign <- MCForeign
  Copies <- MCCopies
  Workers = 2
  FaultMax = 1
  StopMax = 1
INVARIANTS
  TypeOK
  KeptStays
  DroppedIsTrashed
  TargetsAreSettled
PROPERTIES
  PruneEnds
CHECK_DEADLOCK FALSE
