SPECIFICATION SortedSpec
CONSTANTS
  p1 = p1
  p2 = p2
  p3 = p3
  NoPid = NoPid
  Procs = {p1, p2, p3}
  MaxFiles = 3
  Probes = TRUE
  Shutdowns = TRUE
  Crashes = FALSE
INVARIANT OneDaemon
CHECK_DEADLOCK FALSE
