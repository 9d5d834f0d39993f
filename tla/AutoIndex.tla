----------------------------- MODULE AutoIndex -----------------------------
(***************************************************************************)
(* internal/autoindex: Engine.Run, the loop of the watch daemon, composed  *)
(* with the watcher it consumes (as ChangeFeed promises it, which Watcher  *)
(* is proved to implement) and with indexer.Run (what Indexer shows of it: *)
(* the early return, one read per file, meta stamped at the end).          *)
(*                                                                         *)
(* The loop is one goroutine: while it executes drain and runIndex it does *)
(* not receive, so batches wait in the feed.  Another process may run      *)
(* `codehelper analyze` on the same root; the lock of the hash cache keeps *)
(* the two runs apart.  What either writes to the registry when its run is *)
(* done is in Registry: nothing here reads it.                             *)
(***************************************************************************)
EXTENDS Naturals

CONSTANTS
  Files,
  NoCommit,
  EditDuringRun,    \* files change while indexer.Run is executing
  EditBeforeWatch,  \* files change before watcher.New has registered
  MaxEdits, MaxCommits, MaxFailures, MaxForeign   \* bounds

ASSUME EngineAssumption ==
  /\ {EditDuringRun, EditBeforeWatch} \subseteq BOOLEAN
  /\ {MaxEdits, MaxCommits, MaxFailures, MaxForeign} \subseteq Nat
  /\ NoCommit \notin Nat

VARIABLES
  owed, got, open,  \* the watcher, see ChangeFeed
  stale,       \* files whose content the graph does not hold
  newer,       \* files whose mtime is after meta.IndexedAt
  head,        \* HEAD
  indexed,     \* meta.LastCommit, NoCommit without meta.json
  mismatch,    \* meta's parser version is not this process's
  phase,       \* where Engine.Run is
  pending,     \* Engine.pending
  run,         \* the indexer.Run in progress
  foreign,     \* the indexer.Run of another process, if it has the lock
  budget,      \* edits, failures and foreign runs left (bounds)
  disturbances \* history: runs that failed or were locked out, and changes
               \* while a run was active or before the watcher was registered

Feed == INSTANCE ChangeFeed WITH Paths <- Files

feedVars == <<owed, got, open>>
indexVars == <<stale, newer, indexed, mismatch>>
vars == <<feedVars, indexVars, head, phase, pending, run, foreign, budget,
          disturbances>>

Commits == 0..MaxCommits
NotRunning == [active |-> FALSE, commit |-> 0, todo |-> {}, read |-> {}]
NoForeign == [active |-> FALSE, commit |-> 0, other |-> FALSE, saved |-> {}]

\* An edit can be missed and its drain be locked out; the first run as well.
MaxDisturbances == 2 * MaxEdits + MaxFailures + 1

TypeOK ==
  /\ Feed!FeedTypeOK
  /\ stale \in SUBSET Files /\ newer \in SUBSET Files
  /\ head \in Commits
  /\ indexed \in Commits \cup {NoCommit}
  /\ mismatch \in BOOLEAN
  /\ phase \in {"new", "initial", "opening", "loop", "stopped"}
  /\ pending \in SUBSET Files
  /\ run \in [active : BOOLEAN, commit : Commits, todo : SUBSET Files,
             read : SUBSET Files]
  /\ foreign \in [active : BOOLEAN, commit : Commits, other : BOOLEAN,
                 saved : SUBSET Files]
  /\ budget \in [edits : 0..MaxEdits, failures : 0..MaxFailures,
                 foreign : 0..MaxForeign]
  /\ disturbances \in Nat

\* The daemon starts with no index, or with one some of whose files have
\* changed since, perhaps built by another version.
Init ==
  /\ Feed!FeedInit
  /\ \/ /\ indexed = NoCommit /\ stale = Files /\ newer = Files
        /\ mismatch = FALSE
     \/ /\ indexed = 0 /\ stale \in SUBSET Files /\ newer = stale
        /\ mismatch \in BOOLEAN
  /\ head = 0
  /\ phase = "new"
  /\ pending = {}
  /\ run = NotRunning
  /\ foreign = NoForeign
  /\ budget = [edits |-> MaxEdits, failures |-> MaxFailures, foreign |-> MaxForeign]
  /\ disturbances = 0
------------------------------------------------------------------------------
(* The surroundings *)

Watching == phase = "loop"

\* No run is active, and the watcher reports what changes.
Undisturbed ==
  ~run.active /\ ~foreign.active /\ phase \notin {"initial", "opening"}

\* An edit the watcher does not skip; what a run in progress has read of the
\* file is no longer its content.
Save(f) ==
  /\ budget.edits > 0
  /\ run.active \/ foreign.active => EditDuringRun
  /\ phase \in {"initial", "opening"} => EditBeforeWatch
  /\ budget' = [budget EXCEPT !.edits = @ - 1]
  /\ stale' = stale \cup {f}
  /\ newer' = newer \cup {f}
  /\ run' = [run EXCEPT !.read = @ \ {f}]
  /\ foreign' = IF foreign.active THEN [foreign EXCEPT !.saved = @ \cup {f}]
                ELSE foreign
  /\ disturbances' = IF Undisturbed THEN disturbances ELSE disturbances + 1
  /\ IF Watching THEN Feed!Accept(f) ELSE UNCHANGED feedVars
  /\ UNCHANGED <<head, indexed, mismatch, phase, pending>>

\* git commit writes below .git, which the watcher skips.
Commit ==
  /\ head < MaxCommits
  /\ head' = head + 1
  /\ UNCHANGED <<feedVars, indexVars, phase, pending, run, foreign, budget,
                 disturbances>>
------------------------------------------------------------------------------
(* indexer.Run as runIndex calls it, and as another process does *)

\* Mutant: uncommitted edits do not count.
UpToDateByCommit == indexed = head /\ ~mismatch

\* Mutant: the parser version does not count.
UpToDateAnyVersion == indexed = head /\ newer = {}

\* "index already up to date": Run returns nil at once.
UpToDate == indexed = head /\ ~mismatch /\ newer = {}

\* `codehelper analyze` by a binary of this or of another version, once it
\* has read HEAD and the lock is its own.
ForeignStarts(other) ==
  /\ budget.foreign > 0
  /\ ~run.active /\ ~foreign.active
  /\ other \/ ~UpToDate
  /\ budget' = [budget EXCEPT !.foreign = @ - 1]
  /\ foreign' = [active |-> TRUE, commit |-> head, other |-> other, saved |-> {}]
  /\ UNCHANGED <<feedVars, indexVars, head, phase, pending, run, disturbances>>

\* A file saved meanwhile was read before or after; meta is stamped with the
\* commit of the start and the time of the end.
ForeignSucceeds ==
  /\ foreign.active
  /\ foreign' = NoForeign
  /\ stale' \in SUBSET (stale \cap foreign.saved)
  /\ newer' = {}
  /\ indexed' = foreign.commit
  /\ mismatch' = foreign.other
  /\ UNCHANGED <<feedVars, head, phase, pending, run, budget, disturbances>>

ForeignFails ==
  /\ foreign.active
  /\ budget.failures > 0
  /\ budget' = [budget EXCEPT !.failures = @ - 1]
  /\ foreign' = NoForeign
  /\ stale' \in SUBSET Files
  /\ stale \cap foreign.saved \subseteq stale'
  /\ disturbances' = disturbances + 1
  /\ UNCHANGED <<feedVars, newer, indexed, mismatch, head, phase, pending, run>>

\* Where Engine.Run is during and after runIndex.
During == IF phase = "new" THEN "initial" ELSE phase
After == IF phase \in {"new", "initial"} THEN "opening" ELSE phase

\* OpenFileCache fails while the other process runs.
LockedOut == ~UpToDate /\ foreign.active

\* runIndex up to the end of Run's early return, or the failure to get the
\* lock, after which the loop goes on.
runIndex ==
  IF UpToDate \/ LockedOut
  THEN run' = run /\ phase' = After
  ELSE /\ run' = [active |-> TRUE, commit |-> head, todo |-> Files, read |-> {}]
       /\ phase' = During

\* The run reads a file, or finds that it need not.
RunReads(f) ==
  /\ run.active
  /\ f \in run.todo
  /\ run' = [run EXCEPT !.todo = @ \ {f}, !.read = @ \cup {f}]
  /\ UNCHANGED <<feedVars, indexVars, head, phase, pending, foreign, budget,
                 disturbances>>

\* Every file was read, perhaps before its last edit; meta is stamped with
\* the commit of the start and the time of the end.
RunSucceeds ==
  /\ run.active
  /\ run.todo = {}
  /\ run' = NotRunning
  /\ stale' = stale \ run.read
  /\ newer' = {}
  /\ indexed' = run.commit
  /\ mismatch' = FALSE
  /\ phase' = After
  /\ UNCHANGED <<feedVars, head, pending, foreign, budget, disturbances>>

\* A run that fails leaves meta and some files out of the graph.
RunFails ==
  /\ run.active
  /\ budget.failures > 0
  /\ budget' = [budget EXCEPT !.failures = @ - 1]
  /\ run' = NotRunning
  /\ stale' \in {S \in SUBSET Files : stale \ run.read \subseteq S}
  /\ phase' = After
  /\ disturbances' = disturbances + 1
  /\ UNCHANGED <<feedVars, newer, indexed, mismatch, head, pending, foreign>>
------------------------------------------------------------------------------
(* Engine.Run *)

\* What a run that is locked out should have read is not read again.
Disturbs ==
  disturbances' = IF LockedOut THEN disturbances + 1 ELSE disturbances

\* InitialAnalyze
Begin ==
  /\ phase = "new"
  /\ runIndex
  /\ Disturbs
  /\ UNCHANGED <<feedVars, indexVars, head, pending, foreign, budget>>

\* watcher.New
OpenWatcher ==
  /\ phase = "opening"
  /\ phase' = "loop"
  /\ UNCHANGED <<feedVars, indexVars, head, pending, run, foreign, budget,
                 disturbances>>

\* Its error ends Engine.Run.
OpenWatcherFails ==
  /\ phase = "opening"
  /\ phase' = "stopped"
  /\ Feed!ShutDown
  /\ UNCHANGED <<indexVars, head, pending, run, foreign, budget, disturbances>>

Looping == phase = "loop" /\ ~run.active

\* Mutant: the batch replaces the pending paths.
QueueOverwriting(S) ==
  /\ Looping
  /\ Feed!Deliver(S)
  /\ owed' = owed \ S
  /\ pending' = S
  /\ UNCHANGED <<indexVars, head, phase, run, foreign, budget, disturbances>>

\* case batch := <-w.Events(): queue
Queue(S) ==
  /\ Looping
  /\ Feed!Deliver(S)
  /\ owed' = owed \ S
  /\ pending' = pending \cup S
  /\ UNCHANGED <<indexVars, head, phase, run, foreign, budget, disturbances>>


\* case <-cooldown.C with pending paths: drain forgets them, then runs.
Drain ==
  /\ Looping
  /\ pending # {}
  /\ pending' = {}
  /\ runIndex
  /\ Disturbs
  /\ UNCHANGED <<feedVars, indexVars, head, foreign, budget>>

\* case <-cooldown.C with nothing pending: needsVersionReindex.  Locked out,
\* it comes back at the next tick.
VersionTick ==
  /\ Looping
  /\ pending = {}
  /\ mismatch
  /\ runIndex
  /\ UNCHANGED <<feedVars, indexVars, head, pending, foreign, budget, disturbances>>

\* ctx cancelled, or the watcher closed its channel (root gone).
Stop ==
  /\ Looping
  /\ phase' = "stopped"
  /\ Feed!ShutDown
  /\ UNCHANGED <<indexVars, head, pending, run, foreign, budget, disturbances>>

Running == (\E f \in Files : RunReads(f)) \/ RunSucceeds \/ RunFails

Next ==
  \/ \E f \in Files : Save(f)
  \/ Commit
  \/ (\E other \in BOOLEAN : ForeignStarts(other)) \/ ForeignSucceeds \/ ForeignFails
  \/ Begin \/ OpenWatcher \/ OpenWatcherFails
  \/ \E S \in SUBSET Files : Queue(S)
  \/ Drain \/ VersionTick \/ Stop
  \/ Running

Spec == Init /\ [][Next]_vars

(* The loop's goroutine runs, its select does not starve a ready case for  *)
(* ever, a run that neither fails nor is cancelled ends, in this process   *)
(* and in the other.  No run is begun but by the steps above.              *)
Fairness ==
  /\ WF_vars(Begin) /\ WF_vars(OpenWatcher)
  /\ WF_vars(owed # {} /\ Queue(owed))
  /\ WF_vars(Drain) /\ WF_vars(VersionTick)
  /\ WF_vars(Running) /\ WF_vars(ForeignSucceeds)

FairSpec == Spec /\ Fairness
------------------------------------------------------------------------------
(* Properties *)

\* While the loop is at its select, every stale file is both on its way to
\* a run (queued, or owed by the watcher) and newer than the index, so that
\* the run will not take Run's early return; unless a run that failed or was
\* locked out, or an edit that a run missed, left it behind.
StaleIsQueued ==
  Looping /\ disturbances = 0 =>
    stale \subseteq newer /\ stale \subseteq owed \cup pending

\* Left alone by failures and by edits it cannot see, the daemon ends with an
\* index of the working tree.
UndisturbedConverges ==
  stale # {} ~> stale = {} \/ disturbances > 0 \/ phase = "stopped"


\* A change that was queued reaches the index in any case: "it reindexes on
\* change and converges" (freshness.Inspect).
QueuedConverges == pending # {} ~> stale = {} \/ phase = "stopped"

\* An index of another parser version is replaced although no file changes,
\* and although runs fail.
VersionConverges == mismatch ~> ~mismatch \/ phase = "stopped"
=============================================================================
