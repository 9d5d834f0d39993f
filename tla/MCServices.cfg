SPECIFICATION HostSpec
CONSTANTS
  Calls = {t1, t2}
  Files = {f1, f2}
  Contents = {a, b}
  NoContent = NoContent
  Occurs = {a}
  MaxSaves = 1
  EditCrashes = TRUE
  Repos = {r1, r2}
  Groups = {g1}
  Sessions = {s1}
  Commands = {k1}
  Daemons = {d1}
  RepoOf <- MCRepoOf
  LastHead <- MCLastHead
  Absent = Absent
  Writers = {w1, w2, w3}
  Docs = {short, long}
  Length <- MCLength
  NoDoc = NoDoc
  SaveCrashes = TRUE
  NTodos = 2
  MaxTries = 2
  PlanTries = {1}
  MaxPlans = 2
  Requests = {q1, q2}
  MaxRequests = 3
  UserStatus = {"approved", "complete"}
  PipeSize = 1
  MaxNoise = 1
  Callers = {c1, c2}
  MaxHandles = 3
  MaxFiles = 2
  MaxTokens = 3
  RetireDelay = 1
  SourceFiles <- CodeFiles
  Variants <- CodeVariants
  Methods = {"B"}
  PreferredFile <- CodePreferred
  f1 = f1
  t1 = t1
  t2 = t2
  r1 = r1
  r2 = r2
  s1 = s1
  k1 = k1
  d1 = d1
  q1 = q1
  q2 = q2
  short = short
  long = long
INVARIANT EveryWriteUndoable
INVARIANT TokensMatchWrites
INVARIANT MarkedWasRestored
INVARIANT GroupIDsAreMembers
INVARIANT AloneIsAtomic
INVARIANT CompleteWasVerified
INVARIANT NoUnapprovedRun
INVARIANT OneAtATimeIfQuiet
INVARIANT DebugBounded
INVARIANT AnswerIsToThisCall
INVARIANT OpenForRetireDelay
INVARIANT NeverOlderThanSeen
INVARIANT NoHandleLeaks
INVARIANT NoDanglingEdges
INVARIANT CallsKept
INVARIANT IncrementalEqualsFull
PROPERTY RegistrationHeals
PROPERTY QueryEnds
CHECK_DEADLOCK FALSE
