SPECIFICATION Spec
CONSTANTS
  f1 = f1  f2 = f2  f3 = f3
  a = a  b = b  c = c
  Files = {f1}
  Secrets = {f1}
  Names <- MCNames
  NameOf <- MCNameOf
  Contents = {a, b, c}
  Size <- MCSize
  Absent = Absent
  FirstContents = {a, Absent}
  Writes <- Forward
  WritesDuringRun = FALSE
  UploadWorkers = 2
  Options <- FlagAndFullRuns
  Budget <- QuietBudget
  NoEntry = NoEntry  Missing = Missing  NoFile = NoFile
INVARIANTS OkRunIsComplete
CHECK_DEADLOCK FALSE
