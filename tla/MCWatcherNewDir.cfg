SPECIFICATION FairSpec
CONSTANTS
  f1 = f1
  f2 = f2
  root = root
  sub = sub
  t1 = t1
  t2 = t2
  Overflow = Overflow
  Files = {f1, f2}
  Dirs = {root, sub}
  Root = root
  DirOf <- OneInSub
  Skipped = {}
  Flushers = {t1, t2}
  QueueSize = 1
  KernelSize = 1
  Debounce = 2
  MinDebounce = 1
  MaxWait = 3
  MaxPendingFlush = 3
  MaxChanges = 2
PROPERTY EveryWriteDelivered
CHECK_DEADLOCK FALSE
