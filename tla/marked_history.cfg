SPECIFICATION FairSpec
CONSTANTS
  Order <- HistoryOrder
  Keys <- HistoryKeys
  Fold <- Fold12
  Kinds <- HistoryKinds
  Foreign <- MCForeign
  Copies <- HistoryCopies
  Workers = 2
  FaultMax = 1
  StopMax = 1
INVARIANT HistoryStays
CHECK_DEADLOCK FALSE
