---------------------------- MODULE WatcherProofs ----------------------------
(***************************************************************************)
(* Theorems about Watcher for every tree, every set of timer goroutines    *)
(* and every value of the options.                                         *)
(***************************************************************************)
EXTENDS Watcher, FiniteSetTheorems, TLAPS

\* The delay of the re-armed timer is a natural number: it is never negative.
LEMMA DelayType ==
  ASSUME NEW P, NEW e \in Nat
  PROVE  FlushDelay(P, e) \in Nat
  BY OptionsAssumption DEF FlushDelay

\* The initial states are well typed.
LEMMA TypeInitially == Init => TypeOK
  <1> SUFFICES ASSUME Init
               PROVE  TypeOK
    OBVIOUS
  <1>1. flushing \in [Flushers -> [at : {"idle", "fired", "holding"},
                                  paths : SUBSET Paths]]
    <2>1. Idle \in [at : {"idle", "fired", "holding"}, paths : SUBSET Paths]
      BY DEF Idle
    <2> QED
      BY <2>1 DEF Init
  <1>2. kernel \in Seq(Items) /\ out \in Seq(SUBSET Paths)
    BY DEF Init
  <1> QED
    BY <1>1, <1>2 DEF Init, TypeOK

\* The kernel queue keeps its type when an event or an overflow is raised.
LEMMA RaiseType ==
  ASSUME TypeOK, NEW x \in Items, Raise(x)
  PROVE  kernel' \in Seq(Items)
  <1>1. Overflow \in Items
    BY DEF Items
  <1> QED
    BY <1>1 DEF TypeOK, Raise

\* Every step keeps every variable in its type; one named step per action.
LEMMA TypeStep == TypeOK /\ [Next]_vars => TypeOK'
  <1> SUFFICES ASSUME TypeOK, [Next]_vars
               PROVE  TypeOK'
    OBVIOUS
  <1> USE DEF TypeOK, treeVars, loopVars
  <1>1. ASSUME NEW f \in Files, FileChange(f)
        PROVE  TypeOK'
    <2>1. kernel' \in Seq(Items)
      BY <1>1, RaiseType DEF FileChange, Items
    <2> QED
      BY <1>1, <2>1 DEF FileChange
  <1>2. ASSUME NEW d \in Dirs, MakeDir(d)
        PROVE  TypeOK'
    <2>1. kernel' \in Seq(Items)
      BY <1>2, RaiseType DEF MakeDir, Items
    <2> QED
      BY <1>2, <2>1 DEF MakeDir
  <1>3. CASE HandleEvent
    <2>1. firstSeen' \in Nat \cup {-1}
      BY <1>3 DEF HandleEvent, StampFirst
    <2>2. timer' \in Nat \cup {-1}
      <3>1. CASE firstSeen' \in Nat
        BY <3>1, <1>3, DelayType DEF HandleEvent
      <3>2. CASE firstSeen' = -1
        BY <3>2, <1>3, OptionsAssumption DEF HandleEvent, FlushDelay
      <3> QED
        BY <2>1, <3>1, <3>2
    <2>3. kernel' \in Seq(Items) /\ pending' \in SUBSET Paths
      BY <1>3 DEF HandleEvent, LoopReady, Paths
    <2> QED
      BY <1>3, <2>1, <2>2, <2>3 DEF HandleEvent
  <1>4. CASE HandleSkipped
    BY <1>4 DEF HandleSkipped, LoopReady
  <1>5. CASE HandleOverflow
    BY <1>5 DEF HandleOverflow, LoopReady, StampFirst, Paths
  <1>6. CASE Reregister
    BY <1>6 DEF Reregister
  <1>7. CASE Shutdown
    BY <1>7 DEF Shutdown
  <1>8. ASSUME NEW f \in Flushers, TimerFires(f)
        PROVE  TypeOK'
    BY <1>8 DEF TimerFires, Fired
  <1>9. ASSUME NEW f \in Flushers, FlushTake(f)
        PROVE  TypeOK'
    <2>1. Idle \in [at : {"idle", "fired", "holding"}, paths : SUBSET Paths]
      BY DEF Idle
    <2>2. Holding(pending) \in [at : {"idle", "fired", "holding"},
                               paths : SUBSET Paths]
      BY DEF Holding
    <2> QED
      BY <1>9, <2>1, <2>2 DEF FlushTake
  <1>10. ASSUME NEW f \in Flushers, FlushSend(f)
         PROVE  TypeOK'
    <2>1. Idle \in [at : {"idle", "fired", "holding"}, paths : SUBSET Paths]
      BY DEF Idle
    <2>2. flushing[f].paths \in SUBSET Paths
      OBVIOUS
    <2>3. flushing' \in [Flushers -> [at : {"idle", "fired", "holding"},
                                     paths : SUBSET Paths]]
      BY <1>10, <2>1 DEF FlushSend
    <2>4. out' \in Seq(SUBSET Paths)
      <3>1. out' = out \/ out' = Append(out, flushing[f].paths)
        BY <1>10 DEF FlushSend
      <3>2. out \in Seq(SUBSET Paths)
        OBVIOUS
      <3> QED
        BY <2>2, <3>1, <3>2 DEF FlushSend
    <2>5. /\ pending' \in SUBSET Paths
          /\ firstSeen' \in Nat \cup {-1}
          /\ timer' \in Nat \cup {-1}
      BY <1>10, <2>2, OptionsAssumption DEF FlushSend, Requeue
    <2> QED
      BY <1>10, <2>3, <2>4, <2>5 DEF FlushSend
  <1>11. CASE Receive
    BY <1>11 DEF Receive
  <1>12. CASE Tick
    BY <1>12 DEF Tick
  <1>13. CASE UNCHANGED vars
    BY <1>13 DEF vars
  <1> QED
    BY <1>1, <1>2, <1>3, <1>4, <1>5, <1>6, <1>7, <1>8, <1>9, <1>10, <1>11,
       <1>12, <1>13 DEF Next, Environment, EventLoop, Flush

\* Every variable keeps its type.
THEOREM Typing == Spec => []TypeOK
  BY TypeInitially, TypeStep, PTL DEF Spec

------------------------------------------------------------------------------
(* A pending path always has a flush on its way, and none after shutdown.  *)
(* Each needs the other: requeueLocked arms the timer, and only outClosed  *)
(* keeps it from doing so after run() has stopped it.                      *)

FlushInv == TypeOK /\ NoStrandedPaths /\ QuietAfterShutdown

\* scheduleFlushLocked leaves the timer armed.
LEMMA DelayArms ==
  ASSUME TypeOK, HandleEvent
  PROVE  timer' >= 0
  <1>1. CASE firstSeen' \in Nat
    BY <1>1, DelayType DEF HandleEvent
  <1>2. CASE firstSeen' = -1
    BY <1>2, OptionsAssumption DEF HandleEvent, FlushDelay
  <1> QED
    BY <1>1, <1>2 DEF HandleEvent, StampFirst, TypeOK

\* Every step keeps pending paths scheduled and the timer quiet after shutdown.
LEMMA FlushStep == FlushInv /\ [Next]_vars => FlushInv'
  <1> SUFFICES ASSUME FlushInv, [Next]_vars
               PROVE  NoStrandedPaths' /\ QuietAfterShutdown'
    BY TypeStep DEF FlushInv
  <1> USE DEF FlushInv, NoStrandedPaths, QuietAfterShutdown, treeVars, loopVars
  <1>1. ASSUME NEW f \in Files, FileChange(f)
        PROVE  NoStrandedPaths' /\ QuietAfterShutdown'
    BY <1>1 DEF FileChange
  <1>2. ASSUME NEW d \in Dirs, MakeDir(d)
        PROVE  NoStrandedPaths' /\ QuietAfterShutdown'
    BY <1>2 DEF MakeDir
  <1>3. CASE HandleEvent
    BY <1>3, DelayArms DEF HandleEvent, LoopReady
  <1>4. CASE HandleSkipped
    BY <1>4 DEF HandleSkipped
  <1>5. CASE HandleOverflow
    BY <1>5 DEF HandleOverflow, LoopReady
  <1>6. CASE Reregister
    BY <1>6 DEF Reregister
  <1>7. CASE Shutdown
    BY <1>7 DEF Shutdown
  <1>8. ASSUME NEW f \in Flushers, TimerFires(f)
        PROVE  NoStrandedPaths' /\ QuietAfterShutdown'
    <2>1. flushing'[f] = Fired /\ timer' = -1
      BY <1>8 DEF TimerFires, TypeOK
    <2> QED
      BY <1>8, <2>1 DEF TimerFires
  <1>9. ASSUME NEW f \in Flushers, FlushTake(f)
        PROVE  NoStrandedPaths' /\ QuietAfterShutdown'
    <2>1. pending' = {} /\ UNCHANGED <<timer, outClosed>>
      BY <1>9 DEF FlushTake
    <2> QED
      BY <2>1
  <1>10. ASSUME NEW f \in Flushers, FlushSend(f)
         PROVE  NoStrandedPaths' /\ QuietAfterShutdown'
    <2>1. ASSUME NEW g \in Flushers, flushing[g] = Fired
          PROVE  flushing'[g] = Fired
      <3>1. f # g
        BY <1>10, <2>1 DEF FlushSend, Fired
      <3> QED
        BY <1>10, <2>1, <3>1 DEF FlushSend, TypeOK
    <2>2. \/ timer' = timer /\ pending' = pending
          \/ ~outClosed /\ timer' = Debounce
      BY <1>10 DEF FlushSend, Requeue
    <2> QED
      BY <1>10, <2>1, <2>2, OptionsAssumption DEF FlushSend
  <1>11. CASE Receive
    BY <1>11 DEF Receive
  <1>12. CASE Tick
    BY <1>12 DEF Tick, TypeOK
  <1>13. CASE UNCHANGED vars
    BY <1>13 DEF vars
  <1> QED
    BY <1>1, <1>2, <1>3, <1>4, <1>5, <1>6, <1>7, <1>8, <1>9, <1>10, <1>11,
       <1>12, <1>13 DEF Next, Environment, EventLoop, Flush

\* The flush discipline holds in every reachable state.
LEMMA FlushInvariant == Spec => []FlushInv
  <1>1. Init => FlushInv
    BY TypeInitially DEF Init, FlushInv, NoStrandedPaths, QuietAfterShutdown
  <1> QED
    BY <1>1, FlushStep, PTL DEF Spec

\* No accepted path is left behind without a flush scheduled for it.
THEOREM NeverStranded == Spec => []NoStrandedPaths
  BY FlushInvariant, PTL DEF FlushInv

\* No timer is armed once run() has returned, so no new flush starts.
THEOREM ShutdownIsQuiet == Spec => []QuietAfterShutdown
  BY FlushInvariant, PTL DEF FlushInv

\* No flush sends on the closed channel, whatever its position at shutdown.
THEOREM ClosedChannelUnused == Spec => NeverSendOnClosed
  <1>1. TypeOK /\ [Next]_vars => [outClosed => Len(out') <= Len(out)]_vars
    <2> SUFFICES ASSUME TypeOK, Next, outClosed
                 PROVE  Len(out') <= Len(out)
      OBVIOUS
    <2>1. out' = out \/ (out # <<>> /\ out' = Tail(out))
      BY DEF Next, Environment, EventLoop, Flush, FileChange, MakeDir, HandleEvent,
             HandleSkipped, HandleOverflow, Reregister, Shutdown, TimerFires,
             FlushTake, FlushSend, Receive, Tick, LoopReady, treeVars, loopVars
    <2> QED
      BY <2>1 DEF TypeOK
  <1> QED
    BY <1>1, Typing, PTL DEF Spec, NeverSendOnClosed

------------------------------------------------------------------------------
(* The ceiling of a burst.  Each flush that finds the channel full adds a  *)
(* Debounce to the age a batch may reach, and each goroutine between the   *)
(* sections of flush is one that may still do so: the bound that steps     *)
(* preserve gives MaxWait plus a Debounce for every goroutine that is NOT  *)
(* there.                                                                  *)

\* The goroutines that hold a batch, and so may still requeue it.
Holders == {f \in Flushers : flushing[f].at = "holding"}

\* The age the batch has when the armed timer fires, the backoff of the
\* goroutines that may still requeue included, is within the ceiling.
BurstInv ==
  firstSeen >= 0 =>
    firstSeen + (IF timer >= 0 THEN timer ELSE 0) + Cardinality(Holders) * Debounce
      <= MaxWait + Cardinality(Flushers) * Debounce

\* The holders are finitely many, and at most all the goroutines.
LEMMA HoldersCount ==
  /\ IsFiniteSet(Holders)
  /\ Cardinality(Holders) \in Nat
  /\ Cardinality(Flushers) \in Nat
  /\ Cardinality(Holders) <= Cardinality(Flushers)
  <1>1. Holders \subseteq Flushers
    BY DEF Holders
  <1> QED
    BY <1>1, FlushersAssumption, FS_Subset, FS_CardinalityType

\* Backoff grows with the number of goroutines that may still ask for it.
LEMMA BackoffGrows ==
  ASSUME NEW a \in Nat, NEW b \in Nat, a <= b, NEW d \in Nat
  PROVE  /\ a * d \in Nat /\ b * d \in Nat
         /\ a * d <= b * d
  <1>1. b * d = a * d + (b - a) * d
    OBVIOUS
  <1>2. (b - a) \in Nat /\ (b - a) * d \in Nat /\ a * d \in Nat /\ b * d \in Nat
    OBVIOUS
  <1> QED
    BY <1>1, <1>2

\* A flush re-armed by handleEvent comes by MaxWait, or at once when the
\* batch is older than that.
LEMMA DelayCeiling ==
  ASSUME NEW P, NEW e \in Nat
  PROVE  e + FlushDelay(P, e) <= MaxWait \/ FlushDelay(P, e) = 0
  BY OptionsAssumption DEF FlushDelay

\* No step lets a batch outlive the ceiling.
LEMMA BurstStep == TypeOK /\ BurstInv /\ [Next]_vars => BurstInv'
  <1> SUFFICES ASSUME TypeOK, BurstInv, [Next]_vars
               PROVE  BurstInv'
    OBVIOUS
  <1> DEFINE H == Cardinality(Holders) * Debounce
             N == Cardinality(Flushers) * Debounce
  <1>1. H \in Nat /\ N \in Nat /\ H <= N
    BY HoldersCount, BackoffGrows, OptionsAssumption
  <1>2. /\ firstSeen \in Nat \cup {-1} /\ timer \in Nat \cup {-1}
        /\ Debounce \in Nat /\ MaxWait \in Nat
    BY OptionsAssumption DEF TypeOK
  <1>3. firstSeen >= 0 =>
          firstSeen + (IF timer >= 0 THEN timer ELSE 0) + H <= MaxWait + N
    BY DEF BurstInv
  <1>4. ASSUME firstSeen' >= 0 =>
                 firstSeen' + (IF timer' >= 0 THEN timer' ELSE 0) + H' <= MaxWait + N
        PROVE  BurstInv'
    BY <1>4 DEF BurstInv
  <1>5. CASE UNCHANGED <<firstSeen, timer, flushing>>
    BY <1>5 DEF BurstInv, Holders
  <1>6. CASE HandleEvent \/ HandleOverflow
    <2>1. H' = H
      BY <1>6 DEF HandleEvent, HandleOverflow, Holders
    <2>2. firstSeen' = 0 \/ firstSeen' = firstSeen
      BY <1>6 DEF HandleEvent, HandleOverflow, StampFirst
    <2>3. ASSUME firstSeen' \in Nat
          PROVE  timer' \in Nat /\ (firstSeen' + timer' <= MaxWait \/ timer' = 0)
      BY <1>6, <2>3, DelayType, DelayCeiling DEF HandleEvent, HandleOverflow
    <2> QED
      BY <1>1, <1>2, <1>3, <1>4, <2>1, <2>2, <2>3
  <1>7. CASE Shutdown
    <2>1. H' = H
      BY <1>7 DEF Shutdown, Holders
    <2> QED
      BY <1>1, <1>2, <1>3, <1>4, <1>7, <2>1 DEF Shutdown
  <1>8. ASSUME NEW f \in Flushers, TimerFires(f)
        PROVE  BurstInv'
    <2>1. Holders' = Holders
      BY <1>8 DEF TimerFires, Holders, Idle, Fired, TypeOK
    <2> QED
      BY <1>1, <1>2, <1>3, <1>4, <1>8, <2>1 DEF TimerFires
  <1>9. ASSUME NEW f \in Flushers, FlushTake(f)
        PROVE  BurstInv'
    <2>1. CASE pending = {}
      <3>1. Holders' = Holders
        BY <1>9, <2>1 DEF FlushTake, Holders, Idle, Fired, TypeOK
      <3> QED
        BY <1>1, <1>2, <1>3, <1>4, <1>9, <2>1, <3>1 DEF FlushTake
    <2>2. CASE pending # {}
      BY <1>4, <1>9, <2>2 DEF FlushTake
    <2> QED
      BY <2>1, <2>2
  <1>10. ASSUME NEW f \in Flushers, FlushSend(f)
         PROVE  BurstInv'
    <2>1. H = H' + Debounce /\ H' \in Nat
      <3>1. Holders' = Holders \ {f} /\ f \in Holders
        BY <1>10 DEF FlushSend, Holders, Idle, TypeOK
      <3>2. /\ Cardinality(Holders') = Cardinality(Holders) - 1
            /\ Cardinality(Holders') \in Nat
        BY <3>1, HoldersCount, FS_RemoveElement, FS_CardinalityType
      <3> HIDE DEF Holders
      <3>3. \A k \in Nat : k * Debounce \in Nat /\ (k + 1) * Debounce = k * Debounce + Debounce
        BY <1>2
      <3> QED
        BY <3>2, <3>3, HoldersCount
    <2>2. CASE UNCHANGED <<firstSeen, timer>>
      BY <1>1, <1>2, <1>3, <1>4, <2>1, <2>2
    <2>3. CASE Requeue(flushing[f].paths)
      BY <1>1, <1>2, <1>3, <1>4, <2>1, <2>3 DEF Requeue
    <2> QED
      BY <1>10, <2>2, <2>3 DEF FlushSend, loopVars
  <1>11. CASE Tick
    <2>1. H' = H
      BY <1>11 DEF Tick, Holders
    <2> QED
      BY <1>1, <1>2, <1>3, <1>4, <1>11, <2>1 DEF Tick
  <1> QED
    BY <1>5, <1>6, <1>7, <1>8, <1>9, <1>10, <1>11
       DEF Next, Environment, EventLoop, Flush, FileChange, MakeDir, HandleSkipped,
           Reregister, Receive, treeVars, loopVars, vars

\* A burst cannot defer a batch for ever, however many events keep arriving
\* and whatever the channel does.
THEOREM BurstsEnd == Spec => []BurstCeiling
  <1>1. Init => BurstInv
    BY DEF Init, BurstInv
  <1>2. TypeOK /\ BurstInv => BurstCeiling
    <2> SUFFICES ASSUME TypeOK, BurstInv
                 PROVE  BurstCeiling
      OBVIOUS
    <2> DEFINE H == Cardinality(Holders) * Debounce
               N == Cardinality(Flushers) * Debounce
    <2>1. H \in Nat /\ N \in Nat
      BY HoldersCount, BackoffGrows, OptionsAssumption
    <2>2. firstSeen >= 0 =>
            firstSeen + (IF timer >= 0 THEN timer ELSE 0) + H <= MaxWait + N
      BY DEF BurstInv
    <2>3. firstSeen >= 0 /\ timer >= 0 => firstSeen + timer <= MaxWait + N
      BY <2>1, <2>2, OptionsAssumption DEF TypeOK
    <2> QED
      BY <2>3 DEF BurstCeiling
  <1> QED
    BY <1>1, <1>2, Typing, BurstStep, PTL DEF Spec

------------------------------------------------------------------------------
(* The refinement.  Only the contents of the buffers matter to it: what a  *)
(* step does to Owed is the union of what it does to the pending set, to   *)
(* the flushes in flight and to the channel.                               *)

\* Sending a batch adds exactly its paths to what the channel buffers.
LEMMA AppendBuffered ==
  ASSUME NEW T, NEW s \in Seq(T), NEW x \in T
  PROVE  UNION {Append(s, x)[i] : i \in DOMAIN Append(s, x)}
           = x \cup UNION {s[i] : i \in DOMAIN s}
  <1>1. DOMAIN Append(s, x) = 1..Len(s) + 1 /\ DOMAIN s = 1..Len(s)
    OBVIOUS
  <1>2. \A i \in 1..Len(s) : Append(s, x)[i] = s[i]
    OBVIOUS
  <1>3. Append(s, x)[Len(s) + 1] = x
    OBVIOUS
  <1>4. 1..Len(s) + 1 = 1..Len(s) \cup {Len(s) + 1}
    OBVIOUS
  <1> QED
    BY <1>1, <1>2, <1>3, <1>4

\* Receiving a batch removes nothing but its paths from what the channel buffers.
LEMMA TailBuffered ==
  ASSUME NEW T, NEW s \in Seq(T), s # <<>>
  PROVE  UNION {s[i] : i \in DOMAIN s}
           = Head(s) \cup UNION {Tail(s)[i] : i \in DOMAIN Tail(s)}
  <1>1. DOMAIN s = 1..Len(s) /\ DOMAIN Tail(s) = 1..Len(s) - 1 /\ Head(s) = s[1]
    OBVIOUS
  <1>2. \A i \in 1..Len(s) - 1 : Tail(s)[i] = s[i + 1]
    OBVIOUS
  <1>3. \A i \in 1..Len(s) : i = 1 \/ i - 1 \in 1..Len(s) - 1
    OBVIOUS
  <1>4. \A i \in 1..Len(s) - 1 : i + 1 \in 1..Len(s)
    OBVIOUS
  <1>5. 1 \in 1..Len(s)
    OBVIOUS
  <1>6. ASSUME NEW i \in 1..Len(s)
        PROVE  s[i] \subseteq Head(s) \cup UNION {Tail(s)[j] : j \in 1..Len(s) - 1}
    <2>1. CASE i = 1
      BY <2>1, <1>1
    <2>2. CASE i # 1
      <3>1. i - 1 \in 1..Len(s) - 1 /\ Tail(s)[i - 1] = s[i]
        BY <2>2, <1>2, <1>3
      <3> QED
        BY <3>1
    <2> QED
      BY <2>1, <2>2
  <1>7. ASSUME NEW j \in 1..Len(s) - 1
        PROVE  Tail(s)[j] \subseteq UNION {s[i] : i \in 1..Len(s)}
    BY <1>2, <1>4
  <1> QED
    BY <1>1, <1>5, <1>6, <1>7

\* Changing the entry of f in flushing only changes f's share of InFlight.
LEMMA InFlightUpdate ==
  ASSUME TypeOK, NEW f \in Flushers, NEW r,
         flushing' = [flushing EXCEPT ![f] = r]
  PROVE  /\ InFlight' \subseteq InFlight \cup r.paths
         /\ InFlight \subseteq InFlight' \cup flushing[f].paths
         /\ r.paths \subseteq InFlight'
         /\ flushing[f].paths \subseteq InFlight
  BY DEF InFlight, TypeOK

\* What the watcher owes is a set of paths.
LEMMA OwedType == TypeOK => Owed \in SUBSET Paths
  <1> SUFFICES ASSUME TypeOK
               PROVE  Owed \in SUBSET Paths
    OBVIOUS
  <1>1. InFlight \subseteq Paths
    BY DEF InFlight, TypeOK
  <1>2. \A i \in DOMAIN out : out[i] \subseteq Paths
    BY DEF TypeOK
  <1> QED
    BY <1>1, <1>2 DEF Owed, Buffered, TypeOK

\* The initial states of the watcher map to those of the feed.
LEMMA FeedInitially == Init => Feed!FeedInit
  <1> SUFFICES ASSUME Init
               PROVE  Feed!FeedInit
    OBVIOUS
  <1>1. InFlight = {} /\ Buffered = {}
    BY DEF Init, InFlight, Buffered, Idle
  <1> QED
    BY <1>1 DEF Init, Feed!FeedInit, Owed

\* No batch taken by a flush is empty, in flight or in the channel.
BatchesNonEmpty ==
  /\ \A f \in Flushers : flushing[f].at = "holding" => flushing[f].paths # {}
  /\ \A i \in DOMAIN out : out[i] # {}

\* No step holds or buffers an empty batch: flush returns early on one.
LEMMA NonEmptyStep == TypeOK /\ BatchesNonEmpty /\ [Next]_vars => BatchesNonEmpty'
  <1> SUFFICES ASSUME TypeOK, BatchesNonEmpty, [Next]_vars
               PROVE  BatchesNonEmpty'
    OBVIOUS
  <1> USE DEF BatchesNonEmpty, treeVars, loopVars
  <1>1. CASE UNCHANGED <<flushing, out>>
    BY <1>1
  <1>2. ASSUME NEW f \in Flushers, TimerFires(f)
        PROVE  BatchesNonEmpty'
    BY <1>2 DEF TimerFires, Fired, TypeOK
  <1>3. ASSUME NEW f \in Flushers, FlushTake(f)
        PROVE  BatchesNonEmpty'
    BY <1>3 DEF FlushTake, Idle, Holding, TypeOK
  <1>4. ASSUME NEW f \in Flushers, FlushSend(f)
        PROVE  BatchesNonEmpty'
    <2>1. \A g \in Flushers : flushing'[g].at = "holding" => flushing'[g].paths # {}
      BY <1>4 DEF FlushSend, Idle, TypeOK
    <2>2. out' = out \/ out' = Append(out, flushing[f].paths)
      BY <1>4 DEF FlushSend
    <2>3. flushing[f].paths # {}
      BY <1>4 DEF FlushSend
    <2>4. out \in Seq(SUBSET Paths)
      BY DEF TypeOK
    <2>5. \A i \in DOMAIN out' : out'[i] # {}
      BY <2>2, <2>3, <2>4
    <2> QED
      BY <2>1, <2>5
  <1>5. CASE Receive
    <2>1. out \in Seq(SUBSET Paths) /\ out # <<>> /\ out' = Tail(out)
      BY <1>5 DEF Receive, TypeOK
    <2> QED
      BY <1>5, <2>1 DEF Receive
  <1> QED
    BY <1>1, <1>2, <1>3, <1>4, <1>5
       DEF Next, Environment, EventLoop, Flush, FileChange, MakeDir, HandleEvent,
           HandleSkipped, HandleOverflow, Reregister, Shutdown, Tick, vars

\* Firing the timer and taking the pending set move paths, and lose none.
LEMMA TakeKeepsOwed ==
  ASSUME TypeOK, NEW f \in Flushers, TimerFires(f) \/ FlushTake(f)
  PROVE  Owed' = Owed
  <1> USE DEF treeVars, loopVars
  <1>1. CASE TimerFires(f)
    <2>1. InFlight' = InFlight
      <3>1. flushing' = [flushing EXCEPT ![f] = Fired]
        BY <1>1 DEF TimerFires
      <3>2. flushing[f].paths = {} /\ Fired.paths = {}
        BY <1>1 DEF TimerFires, Fired, Idle
      <3> QED
        BY <3>1, <3>2, InFlightUpdate
    <2> QED
      BY <1>1, <2>1 DEF TimerFires, Owed, Buffered
  <1>2. CASE FlushTake(f) /\ pending = {}
    <2>1. InFlight' = InFlight
      <3>1. flushing' = [flushing EXCEPT ![f] = Idle]
        BY <1>2 DEF FlushTake
      <3>2. flushing[f].paths = {} /\ Idle.paths = {}
        BY <1>2 DEF FlushTake, Fired, Idle
      <3> QED
        BY <3>1, <3>2, InFlightUpdate
    <2> QED
      BY <1>2, <2>1 DEF FlushTake, Owed, Buffered
  <1>3. CASE FlushTake(f) /\ pending # {}
    <2>1. /\ InFlight' \subseteq InFlight \cup pending
          /\ InFlight \subseteq InFlight'
          /\ pending \subseteq InFlight'
      <3>1. flushing' = [flushing EXCEPT ![f] = Holding(pending)]
        BY <1>3 DEF FlushTake
      <3>2. flushing[f].paths = {} /\ Holding(pending).paths = pending
        BY <1>3 DEF FlushTake, Fired, Holding
      <3> QED
        BY <3>1, <3>2, InFlightUpdate
    <2> QED
      BY <1>3, <2>1 DEF FlushTake, Owed, Buffered
  <1> QED
    BY <1>1, <1>2, <1>3

\* Until shutdown, the second section of flush sends its batch or puts it
\* back: it loses no path.
LEMMA SendKeepsOwed ==
  ASSUME TypeOK, NEW f \in Flushers, FlushSend(f), ~outClosed
  PROVE  Owed' = Owed
  <1> DEFINE S == flushing[f].paths
  <1>1. /\ InFlight' \subseteq InFlight
        /\ InFlight \subseteq InFlight' \cup S
        /\ S \subseteq InFlight
    <2>1. flushing' = [flushing EXCEPT ![f] = Idle] /\ Idle.paths = {}
      BY DEF FlushSend, Idle
    <2> QED
      BY <2>1, InFlightUpdate
  <1>2. out \in Seq(SUBSET Paths) /\ S \in SUBSET Paths
    BY DEF TypeOK
  <1>3. CASE Len(out) < QueueSize
    <2>1. out' = Append(out, S) /\ pending' = pending
      BY <1>3, OptionsAssumption DEF FlushSend, loopVars
    <2>2. Buffered' = S \cup Buffered
      BY <1>2, <2>1, AppendBuffered DEF Buffered
    <2> QED
      BY <1>1, <2>1, <2>2 DEF Owed
  <1>4. CASE ~(Len(out) < QueueSize)
    <2>1. pending' = pending \cup S /\ Buffered' = Buffered
      BY <1>4 DEF FlushSend, Requeue, Buffered
    <2> QED
      BY <1>1, <2>1 DEF Owed
  <1> QED
    BY <1>3, <1>4

\* Every step of the watcher is a step of the feed or a stutter.
LEMMA FeedStep ==
  TypeOK /\ BatchesNonEmpty /\ [Next]_vars => [Feed!FeedNext]_(Feed!feedVars)
  <1> SUFFICES ASSUME TypeOK, BatchesNonEmpty, [Next]_vars
               PROVE  [Feed!FeedNext]_(Feed!feedVars)
    OBVIOUS
  <1> USE DEF treeVars, loopVars
  <1>1. CASE UNCHANGED <<pending, flushing, out, outClosed, got>>
    BY <1>1 DEF Owed, InFlight, Buffered, Feed!feedVars
  <1>2. ASSUME NEW p \in Paths, ~outClosed, pending' = pending \cup {p},
               UNCHANGED <<flushing, out, outClosed, got>>
        PROVE  Feed!FeedNext
    <2>1. Owed' = Owed \cup {p}
      BY <1>2 DEF Owed, InFlight, Buffered
    <2>2. Feed!Accept(p)
      BY <1>2, <2>1 DEF Feed!Accept
    <2> QED
      BY <2>2 DEF Feed!FeedNext
  <1>3. CASE HandleEvent
    BY <1>2, <1>3 DEF HandleEvent, LoopReady, Paths
  <1>4. CASE HandleOverflow
    BY <1>2, <1>4 DEF HandleOverflow, LoopReady, Paths
  <1>5. CASE Shutdown
    <2>1. Owed' = Owed
      BY <1>5 DEF Shutdown, Owed, InFlight, Buffered
    <2> QED
      BY <1>5, <2>1 DEF Shutdown, Feed!FeedNext, Feed!ShutDown
  <1>6. ASSUME NEW f \in Flushers, TimerFires(f)
        PROVE  UNCHANGED Feed!feedVars
    BY <1>6, TakeKeepsOwed DEF TimerFires, Feed!feedVars
  <1>7. ASSUME NEW f \in Flushers, FlushTake(f)
        PROVE  UNCHANGED Feed!feedVars
    BY <1>7, TakeKeepsOwed DEF FlushTake, Feed!feedVars
  <1>8. ASSUME NEW f \in Flushers, FlushSend(f)
        PROVE  [Feed!FeedNext]_(Feed!feedVars)
    <2>1. CASE outClosed
      <3>1. InFlight' \subseteq InFlight
        <4>1. flushing' = [flushing EXCEPT ![f] = Idle] /\ Idle.paths = {}
          BY <1>8 DEF FlushSend, Idle
        <4> QED
          BY <4>1, InFlightUpdate
      <3>2. Owed' \in SUBSET Owed
        BY <1>8, <2>1, <3>1 DEF FlushSend, Owed, Buffered
      <3> QED
        BY <1>8, <2>1, <3>2 DEF FlushSend, Feed!FeedNext, Feed!Abandon
    <2>2. CASE ~outClosed
      BY <1>8, <2>2, SendKeepsOwed DEF FlushSend, Feed!feedVars
    <2> QED
      BY <2>1, <2>2
  <1>9. CASE Receive
    <2> DEFINE S == Head(out)
    <2>1. out \in Seq(SUBSET Paths) /\ out # <<>> /\ S \in SUBSET Paths /\ S # {}
      BY <1>9 DEF Receive, TypeOK, BatchesNonEmpty
    <2>2. Buffered = S \cup Buffered'
      BY <1>9, <2>1, TailBuffered DEF Receive, Buffered
    <2>3. InFlight' = InFlight
      BY <1>9 DEF Receive, InFlight
    <2>4. Feed!Deliver(S)
      BY <1>9, <2>1, <2>2, <2>3 DEF Receive, Feed!Deliver, Owed
    <2> QED
      BY <2>1, <2>4 DEF Feed!FeedNext
  <1> QED
    BY <1>1, <1>3, <1>4, <1>5, <1>6, <1>7, <1>8, <1>9
       DEF Next, Environment, EventLoop, Flush, FileChange, MakeDir,
           HandleSkipped, Reregister, Tick, vars

\* Coalescing, backpressure and overlapping flushes lose no accepted path:
\* the watcher implements the change feed.
THEOREM WatcherImplementsFeed == Spec => FeedRefinement
  <1>1. Init => BatchesNonEmpty
    BY DEF Init, BatchesNonEmpty, Idle
  <1>2. Spec => [](TypeOK /\ BatchesNonEmpty)
    BY <1>1, TypeInitially, TypeStep, NonEmptyStep, PTL DEF Spec
  <1> QED
    BY <1>2, FeedInitially, FeedStep, PTL DEF Spec, FeedRefinement, Feed!FeedSpec

------------------------------------------------------------------------------
(* No change is missed.  The kernel drops events, the event loop drops     *)
(* paths and the timer goroutines move them about; what a change to a file *)
(* of the root leaves behind is, in every state, either the file's own     *)
(* name or the overflow path somewhere on the way to the consumer.         *)

\* The root stays present and registered, and shouldSkip's files owe nothing.
MissInv ==
  /\ NothingMissed
  /\ Root \in exists /\ Root \in watched
  /\ dirty \cap Skipped = {}

\* An event that finds room is noticed, one that does not leaves an overflow.
LEMMA RaiseNotices ==
  ASSUME TypeOK, NEW x \in Items, Raise(x)
  PROVE  /\ Noticed \subseteq Noticed'
         /\ x \in Noticed' \/ Overflow \in Noticed'
  <1>1. kernel \in Seq(Items) /\ Overflow \in Items
    BY DEF TypeOK, Items
  <1>2. ASSUME NEW y \in Items, kernel' = Append(kernel, y)
        PROVE  Noticed \subseteq Noticed' /\ y \in Noticed'
    <2>1. DOMAIN kernel' = 1..Len(kernel) + 1 /\ DOMAIN kernel = 1..Len(kernel)
      BY <1>1, <1>2
    <2>2. \A i \in 1..Len(kernel) : kernel'[i] = kernel[i] /\ i \in DOMAIN kernel'
      BY <1>1, <1>2
    <2>3. kernel'[Len(kernel) + 1] = y /\ Len(kernel) + 1 \in DOMAIN kernel'
      BY <1>1, <1>2
    <2> QED
      BY <2>1, <2>2, <2>3 DEF Noticed
  <1>3. CASE Len(kernel) < KernelSize
    BY <1>2, <1>3 DEF Raise
  <1>4. CASE ~(Len(kernel) < KernelSize) /\ kernel[Len(kernel)] = Overflow
    <2>1. Len(kernel) \in DOMAIN kernel
      BY <1>1, <1>4, TreeAssumption
    <2> QED
      BY <1>4, <2>1 DEF Raise, Noticed
  <1>5. CASE ~(Len(kernel) < KernelSize) /\ kernel[Len(kernel)] # Overflow
    BY <1>1, <1>2, <1>5 DEF Raise
  <1> QED
    BY <1>3, <1>4, <1>5

\* Reading an event forgets that event and no other.
LEMMA ReadNotices ==
  ASSUME TypeOK, kernel # <<>>, kernel' = Tail(kernel)
  PROVE  Noticed \subseteq {Head(kernel)} \cup Noticed'
  <1>1. kernel \in Seq(Items)
    BY DEF TypeOK
  <1>2. /\ DOMAIN kernel = 1..Len(kernel) /\ DOMAIN kernel' = 1..Len(kernel) - 1
        /\ Head(kernel) = kernel[1]
    BY <1>1
  <1>3. \A i \in 1..Len(kernel) - 1 : kernel'[i] = kernel[i + 1]
    BY <1>1
  <1>4. ASSUME NEW i \in 1..Len(kernel), i # 1
        PROVE  kernel[i] \in Noticed'
    <2>1. i - 1 \in DOMAIN kernel' /\ kernel'[i - 1] = kernel[i]
      BY <1>1, <1>2, <1>3, <1>4
    <2> QED
      BY <2>1 DEF Noticed
  <1> QED
    BY <1>2, <1>4 DEF Noticed

\* Every step keeps every change in sight; one named step per action.
LEMMA MissStep == TypeOK /\ MissInv /\ [Next]_vars => MissInv'
  <1> SUFFICES ASSUME TypeOK, MissInv, [Next]_vars
               PROVE  MissInv'
    OBVIOUS
  <1> USE DEF MissInv, NothingMissed, treeVars, loopVars
  <1>1. CASE Reregister \/ Shutdown \/ Tick \/ UNCHANGED vars
    <2>1. Noticed' = Noticed /\ Owed' = Owed
      BY <1>1 DEF Reregister, Shutdown, Tick, vars, Noticed, Owed, InFlight, Buffered
    <2> QED
      BY <1>1, <2>1 DEF Reregister, Shutdown, Tick, vars
  <1>2. ASSUME NEW f \in Files, FileChange(f)
        PROVE  MissInv'
    <2>1. Owed' = Owed
      BY <1>2 DEF FileChange, Owed, InFlight, Buffered
    <2>2. CASE DirOf[f] \in watched
      <3>1. Noticed \subseteq Noticed' /\ (f \in Noticed' \/ Overflow \in Noticed')
        BY <1>2, <2>2, RaiseNotices DEF FileChange, Items
      <3> QED
        BY <1>2, <2>1, <3>1 DEF FileChange
    <2>3. CASE DirOf[f] \notin watched
      <3>1. Noticed' = Noticed
        BY <1>2, <2>3 DEF FileChange, Noticed
      <3> QED
        BY <1>2, <2>1, <2>3, <3>1 DEF FileChange, InRoot
    <2> QED
      BY <2>2, <2>3
  <1>3. ASSUME NEW d \in Dirs, MakeDir(d)
        PROVE  MissInv'
    <2>1. Owed' = Owed
      BY <1>3 DEF MakeDir, Owed, InFlight, Buffered
    <2>2. Noticed \subseteq Noticed'
      BY <1>3, RaiseNotices DEF MakeDir, Items
    <2> QED
      BY <1>3, <2>1, <2>2 DEF MakeDir
  <1>4. CASE HandleEvent \/ HandleOverflow
    <2>1. Owed' = Owed \cup {Head(kernel)}
      BY <1>4 DEF HandleEvent, HandleOverflow, Owed, InFlight, Buffered
    <2>2. Noticed \subseteq {Head(kernel)} \cup Noticed'
      BY <1>4, ReadNotices DEF HandleEvent, HandleOverflow, LoopReady
    <2> QED
      BY <1>4, <2>1, <2>2 DEF HandleEvent, HandleOverflow
  <1>5. CASE HandleSkipped
    <2>1. Owed' = Owed
      BY <1>5 DEF HandleSkipped, Owed, InFlight, Buffered
    <2>2. Noticed \subseteq {Head(kernel)} \cup Noticed'
      BY <1>5, ReadNotices DEF HandleSkipped, LoopReady
    <2>3. Head(kernel) \notin dirty /\ Head(kernel) # Overflow
      BY <1>5, TreeAssumption DEF HandleSkipped, TypeOK
    <2> QED
      BY <1>5, <2>1, <2>2, <2>3 DEF HandleSkipped
  <1>6. ASSUME NEW f \in Flushers, TimerFires(f) \/ FlushTake(f) \/ FlushSend(f)
        PROVE  MissInv'
    <2>1. Noticed' = Noticed
      BY <1>6 DEF TimerFires, FlushTake, FlushSend, Noticed
    <2>2. ~outClosed => Owed' = Owed
      BY <1>6, TakeKeepsOwed, SendKeepsOwed
    <2> QED
      BY <1>6, <2>1, <2>2 DEF TimerFires, FlushTake, FlushSend
  <1>7. CASE Receive
    <2>1. out \in Seq(SUBSET Paths) /\ out # <<>>
      BY <1>7 DEF Receive, TypeOK
    <2>2. Buffered = Head(out) \cup Buffered'
      BY <1>7, <2>1, TailBuffered DEF Receive, Buffered
    <2>3. Owed \subseteq Head(out) \cup Owed' /\ Noticed' = Noticed
      BY <1>7, <2>2 DEF Receive, Owed, InFlight, Noticed
    <2> QED
      BY <1>7, <2>3 DEF Receive
  <1> QED
    BY <1>1, <1>2, <1>3, <1>4, <1>5, <1>6, <1>7
       DEF Next, Environment, EventLoop, Flush

\* A change to a file of the root is never forgotten: until the consumer has
\* it, its name or a resync is on the way, whatever the kernel queue drops.
THEOREM NoChangeMissed == Spec => []NothingMissed
  <1>1. Init => MissInv
    BY DEF Init, MissInv, NothingMissed
  <1> QED
    BY <1>1, Typing, MissStep, PTL DEF Spec, MissInv
=============================================================================
