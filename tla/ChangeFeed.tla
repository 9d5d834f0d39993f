----------------------------- MODULE ChangeFeed -----------------------------
(***************************************************************************)
(* What the watcher package promises its consumer, without timers, locks   *)
(* or buffers (internal/watcher/watcher.go:8-14): a path the event loop    *)
(* has accepted stays owed to the consumer until the consumer receives a   *)
(* batch naming it, or until the watcher is shut down.  Batches may        *)
(* coalesce paths and may be late; they may not lose a path.               *)
(***************************************************************************)
CONSTANT Paths

VARIABLES
  owed,   \* paths accepted by the event loop and not yet delivered
  got,    \* the batch the consumer received last
  open    \* FALSE once run() has returned

feedVars == <<owed, got, open>>

FeedTypeOK ==
  /\ owed \in SUBSET Paths
  /\ got \in SUBSET Paths
  /\ open \in BOOLEAN

FeedInit ==
  /\ owed = {}
  /\ got = {}
  /\ open = TRUE

\* The event loop accepts a change of p.
Accept(p) ==
  /\ open
  /\ owed' = owed \cup {p}
  /\ UNCHANGED <<got, open>>

\* The consumer receives the batch S.  A path of S that changed again in the
\* meantime stays owed, so only a subset of S is discharged.
Deliver(S) ==
  /\ S # {}
  /\ S \subseteq owed
  /\ got' = S
  /\ owed' \in SUBSET owed
  /\ owed \ owed' \subseteq S
  /\ UNCHANGED open

ShutDown ==
  /\ open
  /\ open' = FALSE
  /\ UNCHANGED <<owed, got>>

\* After shutdown batches that were never sent are abandoned.
Abandon ==
  /\ ~open
  /\ owed' \in SUBSET owed
  /\ UNCHANGED <<got, open>>

FeedNext ==
  \/ \E p \in Paths : Accept(p)
  \/ \E S \in SUBSET Paths : Deliver(S)
  \/ ShutDown
  \/ Abandon

FeedSpec == FeedInit /\ [][FeedNext]_feedVars
=============================================================================
