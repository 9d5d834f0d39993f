----------------------------- MODULE DaemonLock -----------------------------
(***************************************************************************)
(* internal/daemon: the flock on .codehelper/watch.lock that makes the     *)
(* watch daemon single, and .codehelper/watch.state.json that reports it;  *)
(* with their users in cmd/codehelper: runAsDaemon, autoEnsureWatchDaemon  *)
(* (which probes the lock before it spawns a daemon) and stopDaemon.       *)
(*                                                                         *)
(* A lock file is an inode: flock holds the inode a process opened, while  *)
(* readPID and os.Remove go through the name.  Every process has a PID of  *)
(* its own that is not used again.                                         *)
(***************************************************************************)
EXTENDS Integers, FiniteSets

CONSTANTS
  Procs,       \* processes, each of which plays one role once
  MaxFiles,    \* lock files ever created (bound; one for each process is all)
  NoPid,
  Probes,      \* some processes are CLI commands that probe or stop
  Shutdowns,   \* daemons are cancelled (signal, watched root gone)
  Crashes      \* processes are killed

ASSUME LockAssumption ==
  /\ NoPid \notin Procs
  /\ MaxFiles \in Nat \ {0}
  /\ {Probes, Shutdowns, Crashes} \subseteq BOOLEAN

Inodes == 1..MaxFiles
NoFile == 0
Pids == Procs \cup {NoPid}

VARIABLES
  name,      \* inode watch.lock names, NoFile if it does not exist
  created,   \* inodes created so far
  holder,    \* process whose flock an inode carries
  content,   \* PID written in an inode, NoPid when empty
  state,     \* PID in watch.state.json, NoPid if it does not exist
  tmp,       \* PID in watch.state.json.tmp
  proc,      \* each process: its role, where it is, the inode it opened
  beat,      \* daemons whose heartbeat is between WriteFile and Rename
  target     \* PID a stopDaemon has decided to signal

fileVars == <<name, created, holder, content>>
stateVars == <<state, tmp>>
vars == <<fileVars, stateVars, proc, beat, target>>

Roles == {"daemon", "ensure", "stop"}
Steps == {"new", "opened", "refused", "locked", "truncated", "held", "running",
          "unlocked", "unlinked", "removed", "gone"}

TypeOK ==
  /\ name \in Inodes \cup {NoFile}
  /\ created \in 0..MaxFiles
  /\ holder \in [Inodes -> Pids] /\ content \in [Inodes -> Pids]
  /\ state \in Pids /\ tmp \in Pids
  /\ proc \in [Procs -> [role : Roles, at : Steps, ino : Inodes \cup {NoFile}]]
  /\ \A p \in Procs : proc[p].at \notin {"new", "gone"} => proc[p].ino \in Inodes
  /\ beat \in SUBSET Procs
  /\ target \in [Procs -> Pids]

Init ==
  /\ name = NoFile /\ created = 0
  /\ holder = [i \in Inodes |-> NoPid] /\ content = [i \in Inodes |-> NoPid]
  /\ state = NoPid /\ tmp = NoPid
  /\ proc \in [Procs -> [role : IF Probes THEN Roles ELSE {"daemon"},
                         at : {"new"}, ino : {NoFile}]]
  /\ beat = {}
  /\ target = [p \in Procs |-> NoPid]

At(p, s) == proc[p].at = s
Go(p, s) == proc' = [proc EXCEPT ![p].at = s]
processAlive(q) == q # NoPid /\ proc[q].at # "gone"
Daemons == {p \in Procs : proc[p].role = "daemon"}
Running == {p \in Daemons : proc[p].at = "running"}
------------------------------------------------------------------------------
(* Acquire *)

\* stopDaemon reads the state first, and gives up when there is none.
StopReadsState(p) ==
  /\ proc[p].role = "stop" /\ At(p, "new") /\ target[p] = NoPid
  /\ IF state = NoPid THEN Go(p, "gone") ELSE UNCHANGED proc
  /\ target' = [target EXCEPT ![p] = state]
  /\ UNCHANGED <<fileVars, stateVars, beat>>

\* os.OpenFile(O_CREATE)
Open(p) ==
  /\ At(p, "new")
  /\ proc[p].role = "stop" => target[p] # NoPid
  /\ IF name # NoFile
     THEN UNCHANGED <<name, created>>
     ELSE /\ created < MaxFiles
          /\ created' = created + 1
          /\ name' = created + 1
  /\ proc' = [proc EXCEPT ![p] = [@ EXCEPT !.at = "opened", !.ino = name']]
  /\ UNCHANGED <<holder, content, stateVars, beat, target>>

\* Mutant: the PID in the file decides, as in a pidfile.
FlockByPid(p) ==
  /\ At(p, "opened")
  /\ IF ~processAlive(content[proc[p].ino])
     THEN /\ holder' = [holder EXCEPT ![proc[p].ino] = p]
          /\ Go(p, "locked")
     ELSE /\ Go(p, "refused")
          /\ UNCHANGED holder
  /\ UNCHANGED <<name, created, content, stateVars, beat, target>>

\* Mutant: a PID left in the file keeps the others out.
FlockIfEmpty(p) ==
  /\ At(p, "opened")
  /\ IF holder[proc[p].ino] = NoPid /\ content[proc[p].ino] = NoPid
     THEN /\ holder' = [holder EXCEPT ![proc[p].ino] = p]
          /\ Go(p, "locked")
     ELSE /\ Go(p, "refused")
          /\ UNCHANGED holder
  /\ UNCHANGED <<name, created, content, stateVars, beat, target>>

\* flock(LOCK_EX | LOCK_NB)
Flock(p) ==
  /\ At(p, "opened")
  /\ IF holder[proc[p].ino] = NoPid
     THEN /\ holder' = [holder EXCEPT ![proc[p].ino] = p]
          /\ Go(p, "locked")
     ELSE /\ Go(p, "refused")
          /\ UNCHANGED holder
  /\ UNCHANGED <<name, created, content, stateVars, beat, target>>

Truncate(p) ==
  /\ At(p, "locked")
  /\ content' = [content EXCEPT ![proc[p].ino] = NoPid]
  /\ Go(p, "truncated")
  /\ UNCHANGED <<name, created, holder, stateVars, beat, target>>

WritePid(p) ==
  /\ At(p, "truncated")
  /\ content' = [content EXCEPT ![proc[p].ino] = p]
  /\ Go(p, "held")
  /\ UNCHANGED <<name, created, holder, stateVars, beat, target>>

\* readPID through the name; the error is ErrAlreadyRunning or flock's own.
AlreadyRunning == IF name = NoFile THEN NoPid
                  ELSE IF processAlive(content[name]) THEN content[name] ELSE NoPid

\* A refused daemon exits, a refused probe leaves things to the daemon.
GiveUp(p) ==
  /\ At(p, "refused")
  /\ proc[p].role # "stop"
  /\ Go(p, "gone")
  /\ UNCHANGED <<fileVars, stateVars, beat, target>>

\* A refused stop signals the PID of the lock, or else that of the state.
Signal(p) ==
  /\ At(p, "refused")
  /\ proc[p].role = "stop"
  /\ target' = [target EXCEPT ![p] = IF AlreadyRunning # NoPid THEN AlreadyRunning
                                     ELSE @]
  /\ Go(p, "gone")
  /\ UNCHANGED <<fileVars, stateVars, beat>>
------------------------------------------------------------------------------
(* The daemon *)

\* runAsDaemon: the "starting" state document, then Engine.Run.
StartDaemon(p) ==
  /\ At(p, "held")
  /\ p \in Daemons
  /\ state' = p /\ tmp' = NoPid
  /\ Go(p, "running")
  /\ UNCHANGED <<fileVars, beat, target>>

\* The heartbeat goroutine, WriteState: os.WriteFile of the temporary ...
\* Nothing joins the goroutine: a tick that came before the cancellation may
\* be handled while Release is under way.
BeatWrite(p) ==
  /\ p \in Daemons \ beat
  /\ proc[p].at \in {"running", "unlocked", "unlinked", "removed"}
  /\ tmp' = p
  /\ beat' = beat \cup {p}
  /\ UNCHANGED <<fileVars, state, proc, target>>

\* Mutant: the heartbeat only refreshes a document that exists.
BeatRenameExisting(p) ==
  /\ p \in beat
  /\ beat' = beat \ {p}
  /\ IF tmp # NoPid /\ state # NoPid THEN state' = tmp /\ tmp' = NoPid
     ELSE UNCHANGED stateVars
  /\ UNCHANGED <<fileVars, proc, target>>

\* ... and os.Rename, which fails when another process renamed it already.
BeatRename(p) ==
  /\ p \in beat
  /\ beat' = beat \ {p}
  /\ IF tmp # NoPid THEN state' = tmp /\ tmp' = NoPid ELSE UNCHANGED stateVars
  /\ UNCHANGED <<fileVars, proc, target>>
------------------------------------------------------------------------------
(* Release *)

\* A probe that got the lock releases it; a daemon does when it is cancelled.
MayRelease(p) == IF p \in Daemons THEN Shutdowns /\ At(p, "running") ELSE At(p, "held")

\* unflock and Close
Unlock(p) ==
  /\ MayRelease(p)
  /\ holder' = [holder EXCEPT ![proc[p].ino] = NoPid]
  /\ Go(p, "unlocked")
  /\ UNCHANGED <<name, created, content, stateVars, beat, target>>

\* os.Remove(l.path): whatever file has the name now
RemoveLock(p) ==
  /\ At(p, "unlocked")
  /\ name' = NoFile
  /\ Go(p, "unlinked")
  /\ UNCHANGED <<created, holder, content, stateVars, beat, target>>

\* os.Remove(l.state), whoever wrote it
RemoveState(p) ==
  /\ At(p, "unlinked")
  /\ state' = NoPid
  /\ Go(p, "removed")
  /\ UNCHANGED <<fileVars, tmp, beat, target>>

\* The process ends, and its heartbeat goroutine with it.
Exit(p) ==
  /\ At(p, "removed")
  /\ Go(p, "gone")
  /\ beat' = beat \ {p}
  /\ UNCHANGED <<fileVars, stateVars, target>>

\* The kernel drops the flock of a process that dies.
Crash(p) ==
  /\ Crashes
  /\ ~At(p, "new") /\ ~At(p, "gone")
  /\ holder' = [i \in Inodes |-> IF holder[i] = p THEN NoPid ELSE holder[i]]
  /\ Go(p, "gone")
  /\ beat' = beat \ {p}
  /\ UNCHANGED <<name, created, content, stateVars, target>>

Acquire(p) ==
  \/ StopReadsState(p) \/ Open(p) \/ Flock(p) \/ Truncate(p) \/ WritePid(p)
  \/ GiveUp(p) \/ Signal(p)

Release(p) == Unlock(p) \/ RemoveLock(p) \/ RemoveState(p) \/ Exit(p)

Next ==
  \E p \in Procs :
    Acquire(p) \/ StartDaemon(p) \/ BeatWrite(p) \/ BeatRename(p) \/ Release(p)
    \/ Crash(p)

Spec == Init /\ [][Next]_vars

(* Processes that exist go on; the heartbeat's ticker keeps ticking.       *)
Fairness ==
  \A p \in Procs :
    /\ WF_vars(Acquire(p) /\ ~At(p, "new"))
    /\ WF_vars(StartDaemon(p))
    /\ WF_vars(BeatWrite(p)) /\ WF_vars(BeatRename(p))
    /\ WF_vars(RemoveLock(p) \/ RemoveState(p) \/ Exit(p))

FairSpec == Spec /\ Fairness
------------------------------------------------------------------------------
(* Properties *)

\* "one daemon per repo is enforced naturally" (package comment).
OneDaemon == Cardinality(Running) <= 1

\* What the flock itself gives: two daemons that run hold different files.
\* With Release they may, since it unlocks before it removes the name.
OneDaemonPerFile ==
  \A p, q \in Running : proc[p].ino = proc[q].ino => p = q

\* A daemon that runs is reported: Release of another process may remove the
\* state document, the next heartbeat brings it back.
RunningIsReported ==
  Running # {} ~> processAlive(state) \/ Running = {}

\* Nothing but a live process keeps a daemon out: a PID left in the lock
\* file by a crash does not.
RefusedByTheLiving ==
  [][\A p \in Procs : At(p, "opened") /\ proc'[p].at = "refused" =>
       \E q \in Procs \ {p} : processAlive(q) /\ holder[proc[p].ino] = q]_vars
=============================================================================
