-------------------------- MODULE AutoIndexProofs --------------------------
(***************************************************************************)
(* Proofs about AutoIndex, for any set of files and any bounds.            *)
(*                                                                         *)
(* StaleIsQueued speaks of the select only.  The inductive invariant       *)
(* follows a stale file through the rest of the engine: before the loop,   *)
(* during a run, and after one, it says where the file is accounted for.   *)
(***************************************************************************)
EXTENDS AutoIndex, TLAPS

\* Every stale file is newer than the index; a run accounts for all files,
\* and nothing was saved while another process's was active; none is stale
\* between the first run and the watcher; and at the select the stale ones
\* are owed or pending.
Accounted ==
  disturbances = 0 =>
    /\ stale \subseteq newer
    /\ run.active => Files \subseteq run.todo \cup run.read
    /\ foreign.active => foreign.saved = {}
    /\ phase = "initial" => run.active
    /\ phase = "opening" => stale = {}
    /\ Looping => stale \subseteq owed \cup pending

EngineInv == TypeOK /\ Accounted
------------------------------------------------------------------------------
\* The initial states satisfy the invariant.
LEMMA InvInitially == Init => EngineInv
<1> SUFFICES ASSUME Init PROVE EngineInv
  OBVIOUS
<1>1. TypeOK
  <2>1. 0 \in Commits
    BY EngineAssumption DEF Commits
  <2>2. run \in [active : BOOLEAN, commit : Commits, todo : SUBSET Files,
                 read : SUBSET Files]
    BY <2>1 DEF Init, NotRunning
  <2>4. foreign \in [active : BOOLEAN, commit : Commits, other : BOOLEAN,
                     saved : SUBSET Files]
    BY <2>1 DEF Init, NoForeign
  <2>3. budget \in [edits : 0..MaxEdits, failures : 0..MaxFailures,
                    foreign : 0..MaxForeign]
    BY EngineAssumption DEF Init
  <2> QED
    BY <2>1, <2>2, <2>3, <2>4 DEF Init, TypeOK, Feed!FeedInit, Feed!FeedTypeOK
<1>2. Accounted
  BY DEF Init, Accounted, Looping, NotRunning, NoForeign
<1> QED
  BY <1>1, <1>2 DEF EngineInv

\* Deciding whether to run, and starting, keeps the types.
LEMMA RunIndexType ==
  ASSUME TypeOK, runIndex
  PROVE  /\ phase' \in {"new", "initial", "opening", "loop", "stopped"}
         /\ run' \in [active : BOOLEAN, commit : Commits, todo : SUBSET Files,
                      read : SUBSET Files]
<1>1. CASE UpToDate \/ LockedOut
  BY <1>1 DEF runIndex, TypeOK, After
<1>2. CASE ~(UpToDate \/ LockedOut)
  <2>1. run' = [active |-> TRUE, commit |-> head, todo |-> Files, read |-> {}]
    BY <1>2 DEF runIndex
  <2>2. run' \in [active : BOOLEAN, commit : Commits, todo : SUBSET Files,
                  read : SUBSET Files]
    BY <2>1 DEF TypeOK
  <2> QED
    BY <1>2, <2>2 DEF runIndex, TypeOK, During
<1> QED
  BY <1>1, <1>2

\* Every step preserves the type invariant.
LEMMA TypeStep == TypeOK /\ [Next]_vars => TypeOK'
<1> SUFFICES ASSUME TypeOK, [Next]_vars PROVE TypeOK'
  OBVIOUS
<1> USE DEF feedVars, indexVars
<1>1. CASE UNCHANGED vars
  BY <1>1 DEF vars, TypeOK, Feed!FeedTypeOK
<1>2. ASSUME NEW f \in Files, Save(f) PROVE TypeOK'
  <2>1. budget' \in [edits : 0..MaxEdits, failures : 0..MaxFailures,
                     foreign : 0..MaxForeign]
    BY <1>2, EngineAssumption DEF Save, TypeOK
  <2>2. run' \in [active : BOOLEAN, commit : Commits, todo : SUBSET Files,
                  read : SUBSET Files]
    BY <1>2 DEF Save, TypeOK
  <2>3. Feed!FeedTypeOK'
    BY <1>2 DEF Save, TypeOK, Feed!FeedTypeOK, Feed!Accept
  <2>4. disturbances' \in Nat
    BY <1>2 DEF Save, TypeOK
  <2>5. foreign' \in [active : BOOLEAN, commit : Commits, other : BOOLEAN,
                      saved : SUBSET Files]
    BY <1>2 DEF Save, TypeOK
  <2> QED
    BY <1>2, <2>1, <2>2, <2>3, <2>4, <2>5 DEF Save, TypeOK
<1>3. CASE Commit
  BY <1>3, EngineAssumption DEF Commit, TypeOK, Commits, Feed!FeedTypeOK
<1>4. ASSUME NEW other \in BOOLEAN, ForeignStarts(other) PROVE TypeOK'
  <2>1. budget' \in [edits : 0..MaxEdits, failures : 0..MaxFailures,
                     foreign : 0..MaxForeign]
    BY <1>4, EngineAssumption DEF ForeignStarts, TypeOK
  <2>2. foreign' \in [active : BOOLEAN, commit : Commits, other : BOOLEAN,
                      saved : SUBSET Files]
    BY <1>4 DEF ForeignStarts, TypeOK
  <2> QED
    BY <1>4, <2>1, <2>2 DEF ForeignStarts, TypeOK, Feed!FeedTypeOK
<1>5. NoForeign \in [active : BOOLEAN, commit : Commits, other : BOOLEAN,
                     saved : SUBSET Files]
  BY EngineAssumption DEF NoForeign, Commits
<1>6. CASE ForeignSucceeds
  BY <1>5, <1>6 DEF ForeignSucceeds, TypeOK, Feed!FeedTypeOK
<1>7. CASE ForeignFails
  <2>1. budget' \in [edits : 0..MaxEdits, failures : 0..MaxFailures,
                     foreign : 0..MaxForeign]
    BY <1>7, EngineAssumption DEF ForeignFails, TypeOK
  <2> QED
    BY <1>5, <1>7, <2>1 DEF ForeignFails, TypeOK, Feed!FeedTypeOK
<1>8. CASE Begin
  BY <1>8, RunIndexType DEF Begin, Disturbs, TypeOK, Feed!FeedTypeOK
<1>9. CASE OpenWatcher
  BY <1>9 DEF OpenWatcher, TypeOK, Feed!FeedTypeOK
<1>10. CASE OpenWatcherFails
  BY <1>10 DEF OpenWatcherFails, TypeOK, Feed!ShutDown, Feed!FeedTypeOK
<1>11. ASSUME NEW S \in SUBSET Files, Queue(S) PROVE TypeOK'
  BY <1>11 DEF Queue, TypeOK, Feed!Deliver, Feed!FeedTypeOK
<1>12. CASE Drain
  BY <1>12, RunIndexType DEF Drain, Disturbs, TypeOK, Feed!FeedTypeOK
<1>13. CASE VersionTick
  BY <1>13, RunIndexType DEF VersionTick, TypeOK, Feed!FeedTypeOK
<1>14. CASE Stop
  BY <1>14 DEF Stop, TypeOK, Feed!ShutDown, Feed!FeedTypeOK
<1>15. ASSUME NEW f \in Files, RunReads(f) PROVE TypeOK'
  BY <1>15 DEF RunReads, TypeOK, Feed!FeedTypeOK
<1>16. NotRunning \in [active : BOOLEAN, commit : Commits, todo : SUBSET Files,
                       read : SUBSET Files]
  BY EngineAssumption DEF NotRunning, Commits
<1>17. CASE RunSucceeds
  BY <1>16, <1>17 DEF RunSucceeds, TypeOK, After, Feed!FeedTypeOK
<1>18. CASE RunFails
  <2>1. budget' \in [edits : 0..MaxEdits, failures : 0..MaxFailures,
                     foreign : 0..MaxForeign]
    BY <1>18, EngineAssumption DEF RunFails, TypeOK
  <2> QED
    BY <1>16, <1>18, <2>1 DEF RunFails, TypeOK, After, Feed!FeedTypeOK
<1> QED
  BY <1>1, <1>2, <1>3, <1>4, <1>6, <1>7, <1>8, <1>9, <1>10, <1>11, <1>12, <1>13,
     <1>14, <1>15, <1>17, <1>18 DEF Next, Running

\* A run begins with every file to do, and is not begun only if no file is
\* newer than the index, or if it is locked out.
LEMMA RunIndexAccounts ==
  ASSUME TypeOK, Accounted, disturbances = 0, runIndex, ~LockedOut
  PROVE  /\ run'.active => Files \subseteq run'.todo \cup run'.read
         /\ phase' = "initial" => phase = "initial" \/ run'.active
         /\ ~run.active /\ ~run'.active => stale = {}
<1>1. CASE UpToDate
  <2>1. run' = run /\ newer = {} /\ phase' # "initial"
    BY <1>1 DEF runIndex, UpToDate, After, TypeOK
  <2> QED
    BY <2>1 DEF Accounted
<1>2. CASE ~UpToDate
  BY <1>2 DEF runIndex, During
<1> QED
  BY <1>1, <1>2

\* Every step keeps stale files accounted for.
LEMMA AccountedStep == TypeOK /\ Accounted /\ [Next]_vars => Accounted'
<1> DEFINE Goal == /\ stale' \subseteq newer'
                   /\ run'.active => Files \subseteq run'.todo \cup run'.read
                   /\ foreign'.active => foreign'.saved = {}
                   /\ phase' = "initial" => run'.active
                   /\ phase' = "opening" => stale' = {}
                   /\ Looping' => stale' \subseteq owed' \cup pending'
<1> SUFFICES ASSUME TypeOK, Accounted, [Next]_vars, disturbances' = 0 PROVE Goal
  BY DEF Accounted
<1> USE DEF feedVars, indexVars, Looping
<1>1. CASE UNCHANGED vars
  BY <1>1 DEF vars, Accounted
<1>2. ASSUME NEW f \in Files, Save(f) PROVE Goal
  <2>1. disturbances = 0 /\ Undisturbed
    BY <1>2 DEF Save, TypeOK
  <2>2. ~run'.active /\ ~foreign'.active
    BY <1>2, <2>1 DEF Save, TypeOK, Undisturbed
  <2>3. stale' \subseteq newer' /\ phase' = phase
    BY <1>2, <2>1 DEF Save, Accounted
  <2>4. phase = "loop" => stale' \subseteq owed' \cup pending'
    BY <1>2, <2>1 DEF Save, Accounted, Undisturbed, Watching, Feed!Accept
  <2> QED
    BY <2>1, <2>2, <2>3, <2>4 DEF Undisturbed
<1>3. CASE Commit
  BY <1>3 DEF Commit, Accounted
<1>4. ASSUME NEW other \in BOOLEAN, ForeignStarts(other) PROVE Goal
  BY <1>4 DEF ForeignStarts, Accounted
<1>5. CASE ForeignSucceeds
  BY <1>5 DEF ForeignSucceeds, NoForeign, Accounted
<1>6. CASE ForeignFails
  BY <1>6 DEF ForeignFails, TypeOK
<1>7. CASE Begin
  <2>1. disturbances = 0 /\ ~LockedOut
    BY <1>7 DEF Begin, Disturbs, TypeOK
  <2>2. phase' \in {"initial", "opening"}
    BY <1>7 DEF Begin, runIndex, During, After
  <2>3. phase' = "opening" => UpToDate
    BY <1>7, <2>1 DEF Begin, runIndex, During, After
  <2> QED
    BY <1>7, <2>1, <2>2, <2>3, RunIndexAccounts DEF Begin, Accounted, UpToDate
<1>8. CASE OpenWatcher \/ OpenWatcherFails
  BY <1>8 DEF OpenWatcher, OpenWatcherFails, Accounted
<1>9. ASSUME NEW S \in SUBSET Files, Queue(S) PROVE Goal
  BY <1>9 DEF Queue, Accounted
<1>10. CASE Drain
  <2>1. disturbances = 0 /\ ~LockedOut
    BY <1>10 DEF Drain, Disturbs, TypeOK
  <2>2. phase' = "loop" /\ runIndex /\ ~run.active
    BY <1>10 DEF Drain, runIndex, During, After
  <2>3. /\ run'.active => Files \subseteq run'.todo \cup run'.read
        /\ ~run'.active => stale = {}
    BY <2>1, <2>2, RunIndexAccounts
  <2> QED
    BY <1>10, <2>1, <2>2, <2>3 DEF Drain, Accounted
<1>11. CASE VersionTick
  <2>1. disturbances = 0 /\ runIndex /\ phase' = "loop" /\ ~run.active
    BY <1>11 DEF VersionTick, runIndex, During, After
  <2>2. CASE LockedOut
    BY <1>11, <2>1, <2>2 DEF VersionTick, runIndex, Accounted
  <2>3. CASE ~LockedOut
    <3>1. /\ run'.active => Files \subseteq run'.todo \cup run'.read
          /\ ~run'.active => stale = {}
      BY <2>1, <2>3, RunIndexAccounts
    <3> QED
      BY <1>11, <2>1, <3>1 DEF VersionTick, Accounted
  <2> QED
    BY <2>2, <2>3
<1>12. CASE Stop
  BY <1>12 DEF Stop, Accounted
<1>13. ASSUME NEW f \in Files, RunReads(f) PROVE Goal
  <2>1. disturbances = 0 /\ run'.active /\ phase' = phase
    BY <1>13 DEF RunReads, TypeOK
  <2>2. Files \subseteq run'.todo \cup run'.read
    BY <1>13, <2>1 DEF RunReads, Accounted, TypeOK
  <2> QED
    BY <1>13, <2>1, <2>2 DEF RunReads, Accounted
<1>14. CASE RunSucceeds
  <2>1. stale' = {}
    BY <1>14 DEF RunSucceeds, Accounted, TypeOK
  <2>2. ~run'.active /\ phase' # "initial" /\ foreign' = foreign
    BY <1>14 DEF RunSucceeds, NotRunning, After
  <2> QED
    BY <1>14, <2>1, <2>2 DEF RunSucceeds, Accounted
<1>15. CASE RunFails
  BY <1>15 DEF RunFails, TypeOK
<1> QED
  BY <1>1, <1>2, <1>3, <1>4, <1>5, <1>6, <1>7, <1>8, <1>9, <1>10, <1>11, <1>12,
     <1>13, <1>14, <1>15 DEF Next, Running

\* The invariant holds in every reachable state.
LEMMA EngineInvariant == Spec => []EngineInv
<1>1. EngineInv /\ [Next]_vars => EngineInv'
  BY TypeStep, AccountedStep DEF EngineInv
<1> QED
  BY <1>1, InvInitially, PTL DEF Spec

\* The variables of the engine, the runs and the feed keep their types.
THEOREM Typing == Spec => []TypeOK
<1>1. EngineInv => TypeOK
  BY DEF EngineInv
<1> QED
  BY <1>1, EngineInvariant, PTL

\* At the select of Engine.Run an undisturbed daemon has queued, or will be
\* sent, every stale file, and the next run will see that it is newer.
THEOREM NothingForgotten == Spec => []StaleIsQueued
<1>1. EngineInv => StaleIsQueued
  BY DEF EngineInv, Accounted, StaleIsQueued
<1> QED
  BY <1>1, EngineInvariant, PTL
=============================================================================
