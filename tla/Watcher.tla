------------------------------- MODULE Watcher -------------------------------
(***************************************************************************)
(* internal/watcher/watcher.go: the debounced, recursive file watcher.     *)
(*                                                                         *)
(* Goroutines: the event loop run(), which handles one fsnotify event at a *)
(* time; the timer goroutines, each executing flush(), which has TWO       *)
(* critical sections (take the pending set; later try to send it) and of   *)
(* which several can be alive because Reset may re-arm the timer while an  *)
(* earlier flush is between its sections; and the consumer of Events().    *)
(* Time passes in ticks; firstSeen is kept as the number of ticks since,   *)
(* and the timer as the number of ticks left.                              *)
(***************************************************************************)
EXTENDS Integers, Sequences, FiniteSets

CONSTANTS
  Files,            \* files that can change
  Dirs,             \* directories they live in
  Root,             \* the watched root, a member of Dirs
  DirOf,            \* the directory of each file
  Skipped,          \* files shouldSkip drops (ignored, not Included, editor temp)
  Overflow,         \* the ".watcher_overflow" path
  Flushers,         \* timer goroutines that can be alive at once (bound)
  QueueSize,        \* Options.QueueSize, capacity of the out channel
  KernelSize,       \* capacity of the backend's event queue
  Debounce, MinDebounce, MaxWait, MaxPendingFlush,   \* Options, in ticks
  MaxChanges        \* bound on the file changes of a behaviour

Paths == Files \cup {Overflow}
Items == Files \cup Dirs \cup {Overflow}

\* New replaces non-positive options by defaults and clamps MinDebounce.
ASSUME OptionsAssumption ==
  /\ QueueSize \in Nat \ {0}
  /\ Debounce \in Nat \ {0}
  /\ MinDebounce \in 1..Debounce
  /\ MaxWait \in Nat \ {0}
  /\ MaxPendingFlush \in Nat \ {0}

ASSUME TreeAssumption ==
  /\ Root \in Dirs
  /\ DirOf \in [Files -> Dirs]
  /\ Skipped \subseteq Files
  /\ Overflow \notin Files \cup Dirs
  /\ Files \cap Dirs = {}
  /\ KernelSize \in Nat \ {0}
  /\ MaxChanges \in Nat

\* Goroutines are started one at a time: finitely many are alive at once.
ASSUME FlushersAssumption == IsFiniteSet(Flushers)

VARIABLES
  exists,     \* directories present on disk
  watched,    \* directories registered with fsnotify
  rescan,     \* TRUE while handleWatcherError is about to run addRecursive
  kernel,     \* backend queue: names with an event not yet read
  dirty,      \* ghost: relevant files changed and not delivered since
  changes,    \* file changes so far (bound)
  pending,    \* Watcher.pending
  firstSeen,  \* ticks since Watcher.firstSeen, -1 when it is zero
  timer,      \* ticks until Watcher.timer fires, -1 when it is not armed
  flushing,   \* the timer goroutines: where in flush(), and the local paths
  out,        \* Watcher.out
  outClosed,  \* Watcher.outClosed
  got         \* the batch the consumer received last

treeVars == <<exists, watched, rescan, kernel, changes>>
loopVars == <<pending, firstSeen, timer>>
vars == <<exists, watched, rescan, kernel, dirty, changes, pending, firstSeen,
          timer, flushing, out, outClosed, got>>

Idle == [at |-> "idle", paths |-> {}]
Fired == [at |-> "fired", paths |-> {}]
Holding(S) == [at |-> "holding", paths |-> S]

TypeOK ==
  /\ exists \in SUBSET Dirs /\ watched \in SUBSET Dirs /\ rescan \in BOOLEAN
  /\ kernel \in Seq(Items)
  /\ dirty \in SUBSET Files
  /\ changes \in Nat
  /\ pending \in SUBSET Paths
  /\ firstSeen \in Nat \cup {-1}
  /\ timer \in Nat \cup {-1}
  /\ flushing \in [Flushers -> [at : {"idle", "fired", "holding"},
                                paths : SUBSET Paths]]
  /\ out \in Seq(SUBSET Paths)
  /\ outClosed \in BOOLEAN
  /\ got \in SUBSET Paths

\* New: addRecursive registers every directory present, then run starts.
Init ==
  /\ exists \in {D \in SUBSET Dirs : Root \in D}
  /\ watched = exists /\ rescan = FALSE
  /\ kernel = <<>> /\ dirty = {} /\ changes = 0
  /\ pending = {} /\ firstSeen = -1 /\ timer = -1
  /\ flushing = [f \in Flushers |-> Idle]
  /\ out = <<>> /\ outClosed = FALSE
  /\ got = {}

------------------------------------------------------------------------------
(* The operating system: it appends to a bounded queue and, when that is   *)
(* full, drops the event and leaves one overflow marker at the end.        *)

Raise(x) ==
  kernel' = IF Len(kernel) < KernelSize THEN Append(kernel, x)
            ELSE IF kernel[Len(kernel)] = Overflow THEN kernel
            ELSE Append(kernel, Overflow)

FileChange(f) ==
  /\ changes < MaxChanges
  /\ DirOf[f] \in exists
  /\ changes' = changes + 1
  /\ dirty' = IF f \in Skipped THEN dirty ELSE dirty \cup {f}
  /\ IF DirOf[f] \in watched THEN Raise(f) ELSE UNCHANGED kernel
  /\ UNCHANGED <<exists, watched, rescan, loopVars, flushing, out, outClosed, got>>

\* mkdir under the root: the parent's watch raises Create for the directory.
MakeDir(d) ==
  /\ d \notin exists
  /\ exists' = exists \cup {d}
  /\ Raise(d)
  /\ UNCHANGED <<watched, rescan, dirty, changes, loopVars, flushing, out,
                 outClosed, got>>

------------------------------------------------------------------------------
(* The event loop. *)

\* Mutant: a batch older than MaxWait gets a negative delay.
FlushDelayUnclamped(P, elapsed) ==
  LET delay == IF Cardinality(P) <= 2 THEN MinDebounce ELSE Debounce
  IN  IF Cardinality(P) >= MaxPendingFlush THEN 0
      ELSE IF elapsed + delay > MaxWait THEN MaxWait - elapsed ELSE delay

\* Mutant: every event defers the batch by a full delay.
FlushDelayUncapped(P, elapsed) ==
  IF Cardinality(P) >= MaxPendingFlush THEN 0
  ELSE IF Cardinality(P) <= 2 THEN MinDebounce ELSE Debounce

\* scheduleFlushLocked: the delay of the re-armed timer.
FlushDelay(P, elapsed) ==
  LET delay == IF Cardinality(P) <= 2 THEN MinDebounce ELSE Debounce
  IN  IF Cardinality(P) >= MaxPendingFlush THEN 0
      ELSE IF elapsed + delay > MaxWait
           THEN IF elapsed < MaxWait THEN MaxWait - elapsed ELSE 0
           ELSE delay

\* The stamp of the first path of a batch (handleEvent, handleWatcherError).
StampFirst == IF pending = {} THEN 0 ELSE firstSeen

\* The select of run() with an event to read.
LoopReady == ~outClosed /\ ~rescan /\ kernel # <<>>

\* handleEvent for a file that survives shouldSkip.
HandleEvent ==
  /\ LoopReady
  /\ Head(kernel) \in Files \ Skipped
  /\ kernel' = Tail(kernel)
  /\ pending' = pending \cup {Head(kernel)}
  /\ firstSeen' = StampFirst
  /\ timer' = FlushDelay(pending', firstSeen')
  /\ UNCHANGED <<exists, watched, rescan, dirty, changes, flushing, out,
                 outClosed, got>>

\* handleEvent returning early: shouldSkip drops the path, and registers a
\* directory that was just created.
HandleSkipped ==
  /\ LoopReady
  /\ Head(kernel) \in Skipped \cup Dirs
  /\ kernel' = Tail(kernel)
  /\ watched' = IF Head(kernel) \in Dirs THEN watched \cup {Head(kernel)}
                ELSE watched
  /\ UNCHANGED <<exists, rescan, dirty, changes, loopVars, flushing, out,
                 outClosed, got>>

\* handleWatcherError(ErrEventOverflow): a synthetic path and an immediate
\* flush; then, the lock released, a new registration of the whole tree.
HandleOverflow ==
  /\ LoopReady
  /\ Head(kernel) = Overflow
  /\ kernel' = Tail(kernel)
  /\ pending' = pending \cup {Overflow}
  /\ firstSeen' = StampFirst
  /\ timer' = 0
  /\ rescan' = TRUE
  /\ UNCHANGED <<exists, watched, dirty, changes, flushing, out, outClosed, got>>

Reregister ==
  /\ rescan
  /\ rescan' = FALSE
  /\ watched' = exists
  /\ UNCHANGED <<exists, kernel, dirty, changes, loopVars, flushing, out,
                 outClosed, got>>

\* Mutant: the deferred function does not stop the timer.
ShutdownTimerLeft ==
  /\ ~outClosed /\ ~rescan
  /\ outClosed' = TRUE
  /\ UNCHANGED <<treeVars, dirty, loopVars, flushing, out, got>>

\* run() returns (context cancelled, root gone, backend closed): its deferred
\* function stops the timer, sets outClosed and closes the channel.
Shutdown ==
  /\ ~outClosed /\ ~rescan
  /\ outClosed' = TRUE
  /\ timer' = -1
  /\ UNCHANGED <<treeVars, dirty, pending, firstSeen, flushing, out, got>>

------------------------------------------------------------------------------
(* The timer goroutines. *)

TimerFires(f) ==
  /\ timer = 0
  /\ flushing[f] = Idle
  /\ timer' = -1
  /\ flushing' = [flushing EXCEPT ![f] = Fired]
  /\ UNCHANGED <<treeVars, dirty, pending, firstSeen, out, outClosed, got>>

\* flush, first critical section.
FlushTake(f) ==
  /\ flushing[f] = Fired
  /\ IF pending = {}
     THEN /\ flushing' = [flushing EXCEPT ![f] = Idle]
          /\ UNCHANGED <<pending, firstSeen>>
     ELSE /\ flushing' = [flushing EXCEPT ![f] = Holding(pending)]
          /\ pending' = {}
          /\ firstSeen' = -1
  /\ UNCHANGED <<treeVars, dirty, timer, out, outClosed, got>>

\* Mutant: the requeued batch waits for the next event to be scheduled.
RequeueUnarmed(S) ==
  /\ firstSeen' = IF firstSeen = -1 THEN 0 ELSE firstSeen
  /\ pending' = pending \cup S
  /\ UNCHANGED timer

\* Mutant: the batch replaces what arrived while it was in flight.
RequeueOverwriting(S) ==
  /\ firstSeen' = IF firstSeen = -1 THEN 0 ELSE firstSeen
  /\ pending' = S
  /\ timer' = Debounce

\* requeueLocked
Requeue(S) ==
  /\ firstSeen' = IF firstSeen = -1 THEN 0 ELSE firstSeen
  /\ pending' = pending \cup S
  /\ timer' = Debounce

\* Mutant: the second critical section does not look at outClosed.
FlushSendBlindly(f) ==
  /\ flushing[f].at = "holding"
  /\ flushing' = [flushing EXCEPT ![f] = Idle]
  /\ IF Len(out) < QueueSize
     THEN /\ out' = Append(out, flushing[f].paths)
          /\ UNCHANGED loopVars
     ELSE /\ Requeue(flushing[f].paths)
          /\ UNCHANGED out
  /\ UNCHANGED <<treeVars, dirty, outClosed, got>>

\* Mutant: a batch that finds the channel full is dropped.
FlushSendOrDrop(f) ==
  /\ flushing[f].at = "holding"
  /\ flushing' = [flushing EXCEPT ![f] = Idle]
  /\ out' = IF ~outClosed /\ Len(out) < QueueSize
            THEN Append(out, flushing[f].paths) ELSE out
  /\ UNCHANGED <<treeVars, loopVars, dirty, outClosed, got>>

\* flush, second critical section: send without blocking, or requeue.
FlushSend(f) ==
  /\ flushing[f].at = "holding"
  /\ flushing' = [flushing EXCEPT ![f] = Idle]
  /\ \/ /\ outClosed
        /\ UNCHANGED <<loopVars, out>>
     \/ /\ ~outClosed
        /\ Len(out) < QueueSize
        /\ out' = Append(out, flushing[f].paths)
        /\ UNCHANGED loopVars
     \/ /\ ~outClosed
        /\ Len(out) >= QueueSize
        /\ Requeue(flushing[f].paths)
        /\ UNCHANGED out
  /\ UNCHANGED <<treeVars, dirty, outClosed, got>>

------------------------------------------------------------------------------
(* The consumer, and time. *)

\* A receive from Events(); a closed channel still yields what it buffers.
\* The overflow batch stands for every file (a resync).
Receive ==
  /\ out # <<>>
  /\ got' = Head(out)
  /\ out' = Tail(out)
  /\ dirty' = IF Overflow \in Head(out) THEN {} ELSE dirty \ Head(out)
  /\ UNCHANGED <<treeVars, loopVars, flushing, outClosed>>

\* A due timer fires before time passes, and the goroutine it starts takes
\* the lock; the way from there to the second section may take any time.
Tick ==
  /\ timer > 0
  /\ \A f \in Flushers : flushing[f] # Fired
  /\ timer' = timer - 1
  /\ firstSeen' = IF firstSeen = -1 THEN -1 ELSE firstSeen + 1
  /\ UNCHANGED <<treeVars, dirty, pending, flushing, out, outClosed, got>>

Environment ==
  \/ \E f \in Files : FileChange(f)
  \/ \E d \in Dirs : MakeDir(d)

EventLoop == HandleEvent \/ HandleSkipped \/ HandleOverflow \/ Reregister

Flush(f) == TimerFires(f) \/ FlushTake(f) \/ FlushSend(f)

Next ==
  \/ Environment
  \/ EventLoop
  \/ Shutdown
  \/ \E f \in Flushers : Flush(f)
  \/ Receive
  \/ Tick

Spec == Init /\ [][Next]_vars

(* Fairness: the runtime keeps running goroutines and timers, and the      *)
(* consumer keeps receiving (the engine's select loop).  Nothing is        *)
(* assumed of the file system or of a shutdown.                            *)
Fairness ==
  /\ WF_vars(EventLoop)
  /\ WF_vars(Tick)
  /\ WF_vars(Receive)
  /\ \A f \in Flushers : WF_vars(TimerFires(f)) /\ WF_vars(FlushTake(f))
                         /\ WF_vars(FlushSend(f))

FairSpec == Spec /\ Fairness

------------------------------------------------------------------------------
(* Properties. *)

InFlight == UNION {flushing[f].paths : f \in Flushers}
Buffered == UNION {out[i] : i \in DOMAIN out}
Owed == pending \cup InFlight \cup Buffered
Noticed == {kernel[i] : i \in DOMAIN kernel}

\* While the watcher is open, a pending path always has a flush on its way:
\* the timer is armed or a timer goroutine has yet to take the set.  Reset,
\* the early return of flush and requeueLocked keep this between them
\* (scheduleFlushLocked, flush, requeueLocked).
NoStrandedPaths ==
  pending # {} /\ ~outClosed =>
    timer >= 0 \/ \E f \in Flushers : flushing[f] = Fired

\* "Stop any pending timer so no flush fires after shutdown" (run's defer),
\* although flushes already started may still be between their sections.
QuietAfterShutdown == outClosed => timer = -1

\* flush never sends on a channel run() has closed.
NeverSendOnClosed == [][outClosed => Len(out') <= Len(out)]_vars

\* A burst cannot defer a batch for ever: each flush is scheduled within
\* MaxWait of the first path of the batch, plus one Debounce of backoff for
\* each flush that found the channel full.
BurstCeiling ==
  firstSeen >= 0 /\ timer >= 0 =>
    firstSeen + timer <= MaxWait + Cardinality(Flushers) * Debounce

\* The files of the directory that is registered from the start.
InRoot == {f \in Files : DirOf[f] = Root}

\* Every file that changed since the consumer last received it is still
\* named somewhere between the kernel and the consumer, or a resync is.
NothingMissed ==
  ~outClosed =>
    dirty \cap InRoot \subseteq Noticed \cup Owed \/ Overflow \in Noticed \cup Owed

\* The watcher implements the feed it promises: nothing accepted is lost to
\* coalescing, a full channel or overlapping flushes.
Feed == INSTANCE ChangeFeed WITH owed <- Owed, open <- ~outClosed
FeedRefinement == Feed!FeedSpec

\* Every accepted path is delivered unless the watcher is shut down.
EveryPathDelivered ==
  \A p \in Paths : p \in Owed ~> p \notin Owed \/ outClosed

\* A file written once and never touched again still reaches the consumer
\* (package comment and the comment in flush), in a directory that is
\* registered from the start ...
RootWriteDelivered ==
  \A f \in InRoot : f \in dirty ~> f \notin dirty \/ outClosed

\* ... and, as the comments say, in every directory.
EveryWriteDelivered ==
  \A f \in Files : f \in dirty ~> f \notin dirty \/ outClosed
=============================================================================
