SPECIFICATION FairSpec
CONSTANTS
  f1 = f1  f2 = f2  f3 = f3
  a = a  b = b  c = c
  Files = {f1, f2, f3}
  Secrets = {}
  Names <- MCNames
  NameOf <- MCNameOf
  Contents = {a, b, c}
  Size <- MCSize
  Absent = Absent
  FirstContents = {a}
  Writes <- Forward
  WritesDuringRun = TRUE
  UploadWorkers = 1
  Options <- PlainRuns
  Budget <- BoundBudget
  NoEntry = NoEntry  Missing = Missing  NoFile = NoFile
INVARIANTS InFlightBound InterruptLosesAtMostOne
PROPERTIES RunEnds
CHECK_DEADLOCK FALSE
