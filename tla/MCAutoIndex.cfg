SPECIFICATION FairSpec
CONSTANTS
  f1 = f1
  f2 = f2
  NoCommit = NoCommit
  Files = {f1, f2}
  EditDuringRun = TRUE
  EditBeforeWatch = TRUE
  MaxEdits = 3
  MaxCommits = 1
  MaxFailures = 1
  MaxForeign = 1
INVARIANT StaleIsQueued
PROPERTY UndisturbedConverges
 
PROPERTY VersionConverges
CHECK_DEADLOCK FALSE
