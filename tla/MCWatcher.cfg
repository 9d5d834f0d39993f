SPECIFICATION FairSpec
CONSTANTS
  f1 = f1
  f2 = f2
  root = root
  sub = sub
  t1 = t1
  t2 = t2
  Overflow = Overflow
  Files = {f1, f2}
  Dirs = {root, sub}
  Root = root
  DirOf <- OneInSub
  Skipped = {}
  Flushers = {t1, t2}
  QueueSize = 1
  KernelSize = 1
  Debounce = 2
  MinDebounce = 2
  MaxWait = 2
  MaxPendingFlush = 3
  MaxChanges = 4
INVARIANT TypeOK
INVARIANT NoStrandedPaths
INVARIANT QuietAfterShutdown
INVARIANT NothingMissed
INVARIANT BurstCeiling
PROPERTY NeverSendOnClosed
PROPERTY FeedRefinement
PROPERTY EveryPathDelivered
PROPERTY RootWriteDelivered
CHECK_DEADLOCK FALSE
