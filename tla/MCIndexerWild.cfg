SPECIFICATION Spec
CONSTANTS
  p1 = p1
  p2 = p2
  f1 = f1
  f2 = f2
  f3 = f3
  Absent = Absent
  NoProc = NoProc
  NoMeta = NoMeta
  Procs = {p1}
  BinVer <- SameVersion
  Files = {f1, f2, f3}
  Scanned = {f1, f2, f3}
  Importers <- OneImport
  InitTree <- OneEditable
  BatchSize = 2
  EditDuringRun = TRUE
  Reverts = TRUE
  Creates = TRUE
  Deletes = {f1, f2}
  Forces = TRUE
  Rewrites = TRUE
  MaxContent = 2
  MaxCommits = 1
  MaxAborts = 1
PROPERTY ForceRepairs
CHECK_DEADLOCK FALSE
