SPECIFICATION Spec
CONSTANTS
  p1 = p1
  p2 = p2
  f1 = f1
  f2 = f2
  f3 = f3
  Absent = Absent
  NoProc = NoProc
  NoMeta = NoMeta
  Procs = {p1, p2}
  BinVer <- SameVersion
  Files = {f1, f2, f3}
  Scanned = {f1, f2, f3}
  Importers <- OneImport
  InitTree <- AllCommitted
  BatchSize = 2
  EditDuringRun = TRUE
  Reverts = FALSE
  Creates = FALSE
  Deletes = {}
  Forces = FALSE
  Rewrites = FALSE
  MaxContent = 2
  MaxCommits = 1
  MaxAborts = 0
INVARIANT SingleWriter
PROPERTY RunReflectsTree
CHECK_DEADLOCK FALSE
