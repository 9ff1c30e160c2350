SPECIFICATION Spec
CONSTANTS
  f1 = f1  f2 = f2  f3 = f3
  a = a  b = b  c = c
  Files = {f1, f2}
  Secrets = {}
  Names <- MCNames
  NameOf <- MCNameOf
  Contents = {a, b, c}
  Size <- MCSize
  Absent = Absent
  FirstContents = {a}
  Writes <- Forward
  WritesDuringRun = FALSE
  UploadWorkers = 1
  Options <- PruneRuns
  Budget <- PruneBudget
  NoEntry = NoEntry  Missing = Missing  NoFile = NoFile
PROPERTIES NeverForgetsLiveCopy
CHECK_DEADLOCK FALSE
