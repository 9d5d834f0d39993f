SPECIFICATION FairSpec
CONSTANTS
  f1 = f1
  f2 = f2
  NoCommit = NoCommit
  Files = {f1, f2}
  EditDuringRun = FALSE
  EditBeforeWatch = FALSE
  MaxEdits = 1
  MaxCommits = 0
  MaxFailures = 1
  MaxForeign = 0
PROPERTY QueuedConverges
CHECK_DEADLOCK FALSE
