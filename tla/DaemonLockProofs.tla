-------------------------- MODULE DaemonLockProofs --------------------------
(***************************************************************************)
(* Proofs about DaemonLock, for any number of processes and lock files.    *)
(*                                                                         *)
(* The inductive invariant ties the three views of the lock together: an   *)
(* inode carries the flock of p exactly while p is between its successful  *)
(* flock and its unlock, on that inode.  OneDaemonPerFile says only that   *)
(* two running daemons differ in their file, and is not inductive: a step  *)
(* to "running" needs to know who holds the file.                          *)
(***************************************************************************)
EXTENDS DaemonLock, FiniteSetTheorems, TLAPS

\* Where a process holds the flock of the inode it opened.
Holding == {"locked", "truncated", "held", "running"}

HolderInv ==
  \A i \in Inodes, p \in Procs :
    holder[i] = p <=> proc[p].at \in Holding /\ proc[p].ino = i

LockInv == TypeOK /\ HolderInv
------------------------------------------------------------------------------
\* The initial states satisfy the invariant.
LEMMA InvInitially == Init => LockInv
<1> SUFFICES ASSUME Init PROVE LockInv
  OBVIOUS
<1>1. proc \in [Procs -> [role : Roles, at : Steps, ino : Inodes \cup {NoFile}]]
  BY DEF Init, Roles, Steps
<1>2. \A p \in Procs : proc[p].at = "new"
  BY DEF Init
<1>3. TypeOK
  BY <1>1, <1>2, LockAssumption DEF Init, TypeOK, Pids, Inodes, NoFile
<1>4. HolderInv
  BY <1>2, LockAssumption DEF Init, HolderInv, Holding
<1> QED
  BY <1>3, <1>4 DEF LockInv

\* Moving one process to another step keeps the type of proc.
LEMMA GoType ==
  ASSUME NEW p \in Procs, NEW s \in Steps, TypeOK, Go(p, s)
  PROVE  /\ proc' \in [Procs -> [role : Roles, at : Steps, ino : Inodes \cup {NoFile}]]
         /\ proc'[p].at = s /\ proc'[p].ino = proc[p].ino
         /\ \A q \in Procs \ {p} : proc'[q] = proc[q]
  BY DEF TypeOK, Go

\* Every step of one process preserves the type invariant.
LEMMA TypeStep == TypeOK /\ [Next]_vars => TypeOK'
<1> SUFFICES ASSUME TypeOK, [Next]_vars PROVE TypeOK'
  OBVIOUS
<1> USE DEF fileVars, stateVars
<1>1. CASE UNCHANGED vars
  BY <1>1 DEF vars, TypeOK
<1>2. ASSUME NEW p \in Procs, StopReadsState(p) PROVE TypeOK'
  <2>1. CASE state = NoPid
    BY <1>2, <2>1, GoType, p \in Procs DEF StopReadsState, TypeOK, Steps, Pids
  <2>2. CASE state # NoPid
    BY <1>2, <2>2 DEF StopReadsState, TypeOK
  <2> QED
    BY <2>1, <2>2
<1>3. ASSUME NEW p \in Procs, Open(p) PROVE TypeOK'
  <2>1. name' \in Inodes /\ created' \in 0..MaxFiles
    BY <1>3, LockAssumption DEF Open, TypeOK, Inodes, NoFile
  <2> DEFINE r == [proc[p] EXCEPT !.at = "opened", !.ino = name']
  <2>4. r \in [role : Roles, at : Steps, ino : Inodes \cup {NoFile}]
    BY <2>1 DEF TypeOK, Steps
  <2>5. proc' = [proc EXCEPT ![p] = r]
    BY <1>3 DEF Open
  <2>2. proc' \in [Procs -> [role : Roles, at : Steps, ino : Inodes \cup {NoFile}]]
    BY <2>4, <2>5 DEF TypeOK
  <2>3. \A q \in Procs : proc'[q].at \notin {"new", "gone"} => proc'[q].ino \in Inodes
    BY <1>3, <2>1 DEF Open, TypeOK
  <2> QED
    BY <1>3, <2>1, <2>2, <2>3 DEF Open, TypeOK
<1>4. ASSUME NEW p \in Procs, Flock(p) PROVE TypeOK'
  <2>1. proc[p].ino \in Inodes
    BY <1>4 DEF Flock, At, TypeOK
  <2>2. holder' \in [Inodes -> Pids]
    BY <1>4, <2>1 DEF Flock, TypeOK, Pids
  <2>3. CASE Go(p, "locked")
    BY <1>4, <2>1, <2>2, <2>3, GoType DEF Flock, TypeOK, Steps
  <2>4. CASE Go(p, "refused")
    BY <1>4, <2>1, <2>2, <2>4, GoType DEF Flock, TypeOK, Steps
  <2> QED
    BY <1>4, <2>3, <2>4 DEF Flock
<1>5. ASSUME NEW p \in Procs, Truncate(p) PROVE TypeOK'
  BY <1>5, GoType DEF Truncate, At, TypeOK, Steps, Pids
<1>6. ASSUME NEW p \in Procs, WritePid(p) PROVE TypeOK'
  BY <1>6, GoType DEF WritePid, At, TypeOK, Steps, Pids
<1>7. ASSUME NEW p \in Procs, GiveUp(p) PROVE TypeOK'
  BY <1>7, GoType DEF GiveUp, At, TypeOK, Steps
<1>8. ASSUME NEW p \in Procs, Signal(p) PROVE TypeOK'
  <2>1. AlreadyRunning \in Pids
    BY DEF AlreadyRunning, TypeOK, Pids
  <2> QED
    BY <1>8, <2>1, GoType DEF Signal, At, TypeOK, Steps
<1>9. ASSUME NEW p \in Procs, StartDaemon(p) PROVE TypeOK'
  BY <1>9, GoType DEF StartDaemon, At, TypeOK, Steps, Pids
<1>10. ASSUME NEW p \in Procs, BeatWrite(p) PROVE TypeOK'
  BY <1>10 DEF BeatWrite, TypeOK, Pids
<1>11. ASSUME NEW p \in Procs, BeatRename(p) PROVE TypeOK'
  BY <1>11 DEF BeatRename, TypeOK, Pids
<1>12. ASSUME NEW p \in Procs, Unlock(p) PROVE TypeOK'
  BY <1>12, GoType DEF Unlock, MayRelease, At, TypeOK, Steps, Pids
<1>13. ASSUME NEW p \in Procs, RemoveLock(p) PROVE TypeOK'
  BY <1>13, GoType DEF RemoveLock, At, TypeOK, Steps, Pids
<1>14. ASSUME NEW p \in Procs, RemoveState(p) PROVE TypeOK'
  BY <1>14, GoType DEF RemoveState, At, TypeOK, Steps, Pids
<1>15. ASSUME NEW p \in Procs, Exit(p) PROVE TypeOK'
  BY <1>15, GoType DEF Exit, At, TypeOK, Steps, Pids
<1>16. ASSUME NEW p \in Procs, Crash(p) PROVE TypeOK'
  BY <1>16, GoType DEF Crash, At, TypeOK, Steps, Pids
<1> QED
  BY <1>1, <1>2, <1>3, <1>4, <1>5, <1>6, <1>7, <1>8, <1>9, <1>10, <1>11, <1>12,
     <1>13, <1>14, <1>15, <1>16 DEF Next, Acquire, Release

\* Only Flock, Unlock and Crash write holder, and only they take a process
\* into Holding or out of it.
LEMMA HolderStep == LockInv /\ [Next]_vars => HolderInv'
<1> SUFFICES ASSUME LockInv, [Next]_vars PROVE HolderInv'
  OBVIOUS
<1> USE DEF LockInv, HolderInv, Holding, fileVars, stateVars
<1>1. CASE UNCHANGED vars
  BY <1>1 DEF vars
<1>2. ASSUME NEW p \in Procs, StopReadsState(p) PROVE HolderInv'
  <2>1. CASE state = NoPid
    BY <1>2, <2>1, GoType DEF StopReadsState, At, Steps
  <2>2. CASE state # NoPid
    BY <1>2, <2>2 DEF StopReadsState
  <2> QED
    BY <2>1, <2>2
<1>3. ASSUME NEW p \in Procs, Open(p) PROVE HolderInv'
  <2>1. proc'[p].at = "opened" /\ proc[p].at = "new"
    BY <1>3 DEF Open, At, TypeOK
  <2>2. \A q \in Procs \ {p} : proc'[q] = proc[q]
    BY <1>3 DEF Open, TypeOK
  <2> QED
    BY <1>3, <2>1, <2>2 DEF Open
<1>4. ASSUME NEW p \in Procs, Flock(p) PROVE HolderInv'
  <2> DEFINE i == proc[p].ino
  <2>1. i \in Inodes /\ proc[p].at = "opened"
    BY <1>4 DEF Flock, At, TypeOK
  <2>2. CASE holder[i] = NoPid
    <3>1. holder' = [holder EXCEPT ![i] = p] /\ Go(p, "locked")
      BY <1>4, <2>2 DEF Flock
    <3>2. holder'[i] = p /\ \A j \in Inodes \ {i} : holder'[j] = holder[j]
      BY <2>1, <3>1 DEF TypeOK
    <3>3. /\ proc'[p].at = "locked" /\ proc'[p].ino = i
          /\ \A q \in Procs \ {p} : proc'[q] = proc[q]
      BY <3>1, GoType DEF Steps
    <3>4. \A q \in Procs : q # NoPid
      BY LockAssumption
    <3> QED
      BY <2>1, <2>2, <3>2, <3>3, <3>4
  <2>3. CASE holder[i] # NoPid
    <3>1. holder' = holder /\ Go(p, "refused")
      BY <1>4, <2>3 DEF Flock
    <3>2. /\ proc'[p].at = "refused"
          /\ \A q \in Procs \ {p} : proc'[q] = proc[q]
      BY <3>1, GoType DEF Steps
    <3> QED
      BY <2>1, <3>1, <3>2
  <2> QED
    BY <2>2, <2>3
<1>5. ASSUME NEW p \in Procs, Truncate(p) PROVE HolderInv'
  BY <1>5, GoType DEF Truncate, At, Steps
<1>6. ASSUME NEW p \in Procs, WritePid(p) PROVE HolderInv'
  BY <1>6, GoType DEF WritePid, At, Steps
<1>7. ASSUME NEW p \in Procs, GiveUp(p) PROVE HolderInv'
  BY <1>7, GoType DEF GiveUp, At, Steps
<1>8. ASSUME NEW p \in Procs, Signal(p) PROVE HolderInv'
  BY <1>8, GoType DEF Signal, At, Steps
<1>9. ASSUME NEW p \in Procs, StartDaemon(p) PROVE HolderInv'
  BY <1>9, GoType DEF StartDaemon, At, Steps
<1>10. ASSUME NEW p \in Procs, BeatWrite(p) PROVE HolderInv'
  BY <1>10 DEF BeatWrite
<1>11. ASSUME NEW p \in Procs, BeatRename(p) PROVE HolderInv'
  BY <1>11 DEF BeatRename
<1>12. ASSUME NEW p \in Procs, Unlock(p) PROVE HolderInv'
  <2> DEFINE i == proc[p].ino
  <2>1. i \in Inodes /\ proc[p].at \in Holding
    BY <1>12 DEF Unlock, MayRelease, At, TypeOK
  <2>2. holder[i] = p
    BY <2>1
  <2>3. holder'[i] = NoPid /\ \A j \in Inodes \ {i} : holder'[j] = holder[j]
    BY <1>12, <2>1 DEF Unlock, TypeOK
  <2>4. /\ proc'[p].at = "unlocked"
        /\ \A q \in Procs \ {p} : proc'[q] = proc[q]
    BY <1>12, GoType DEF Unlock, Steps
  <2>5. \A q \in Procs : q # NoPid
    BY LockAssumption
  <2> QED
    BY <2>1, <2>2, <2>3, <2>4, <2>5
<1>13. ASSUME NEW p \in Procs, RemoveLock(p) PROVE HolderInv'
  BY <1>13, GoType DEF RemoveLock, At, Steps
<1>14. ASSUME NEW p \in Procs, RemoveState(p) PROVE HolderInv'
  BY <1>14, GoType DEF RemoveState, At, Steps
<1>15. ASSUME NEW p \in Procs, Exit(p) PROVE HolderInv'
  BY <1>15, GoType DEF Exit, At, Steps
<1>16. ASSUME NEW p \in Procs, Crash(p) PROVE HolderInv'
  <2>1. \A j \in Inodes : holder'[j] = IF holder[j] = p THEN NoPid ELSE holder[j]
    BY <1>16 DEF Crash
  <2>2. /\ proc'[p].at = "gone"
        /\ \A q \in Procs \ {p} : proc'[q] = proc[q]
    BY <1>16, GoType DEF Crash, Steps
  <2>3. \A q \in Procs : q # NoPid
    BY LockAssumption
  <2> QED
    BY <2>1, <2>2, <2>3
<1> QED
  BY <1>1, <1>2, <1>3, <1>4, <1>5, <1>6, <1>7, <1>8, <1>9, <1>10, <1>11, <1>12,
     <1>13, <1>14, <1>15, <1>16 DEF Next, Acquire, Release

\* The invariant holds in every reachable state.
LEMMA LockInvariant == Spec => []LockInv
<1>1. LockInv /\ [Next]_vars => LockInv'
  BY TypeStep, HolderStep DEF LockInv
<1> QED
  BY <1>1, InvInitially, PTL DEF Spec

\* The variables of DaemonLock keep their types, and a process that is past
\* os.OpenFile has an inode.
THEOREM Typing == Spec => []TypeOK
<1>1. LockInv => TypeOK
  BY DEF LockInv
<1> QED
  BY <1>1, LockInvariant, PTL

\* Two daemons that run hold different lock files, whatever probes, stops,
\* cancellations and crashes do (Acquire and Release of lock.go).
THEOREM DaemonsHoldTheirFiles == Spec => []OneDaemonPerFile
<1>1. LockInv => OneDaemonPerFile
  <2> SUFFICES ASSUME LockInv, NEW p \in Running, NEW q \in Running,
                      proc[p].ino = proc[q].ino
               PROVE  p = q
    BY DEF OneDaemonPerFile
  <2>1. p \in Procs /\ q \in Procs /\ proc[p].at = "running" /\ proc[q].at = "running"
    BY DEF Running, Daemons
  <2>2. proc[p].ino \in Inodes
    BY <2>1 DEF LockInv, TypeOK
  <2> QED
    BY <2>1, <2>2 DEF LockInv, HolderInv, Holding
<1> QED
  BY <1>1, LockInvariant, PTL

\* A process is refused only while another, living process has the flock: a
\* PID that a crash left in the file never keeps a daemon out.
THEOREM CrashesDoNotBlock == Spec => RefusedByTheLiving
<1> DEFINE Refused ==
      \A p \in Procs : At(p, "opened") /\ proc'[p].at = "refused" =>
        \E q \in Procs \ {p} : processAlive(q) /\ holder[proc[p].ino] = q
<1>1. LockInv /\ [Next]_vars => [Refused]_vars
  <2> SUFFICES ASSUME LockInv, Next, NEW p \in Procs, At(p, "opened"),
                      proc'[p].at = "refused"
               PROVE  \E q \in Procs \ {p} : processAlive(q) /\ holder[proc[p].ino] = q
    OBVIOUS
  <2>1. proc[p].ino \in Inodes /\ proc[p].at = "opened"
    BY DEF At, LockInv, TypeOK
  <2>2. Flock(p)
    <3>1. PICK q \in Procs : Acquire(q) \/ StartDaemon(q) \/ BeatWrite(q)
                             \/ BeatRename(q) \/ Release(q) \/ Crash(q)
      BY DEF Next
    <3>2. q = p \/ proc'[p] = proc[p]
      BY <3>1, <2>1 DEF Acquire, Release, StopReadsState, Open, Flock, Truncate, WritePid,
           GiveUp, Signal, StartDaemon, BeatWrite, BeatRename, Unlock, RemoveLock,
           RemoveState, Exit, Crash, Go, LockInv, TypeOK
    <3>3. q = p
      BY <3>2, <2>1
    <3>4. ~Crash(p)
      BY <2>1, GoType DEF Crash, Steps, LockInv
    <3> QED
      BY <3>1, <3>3, <3>4, <2>1 DEF Acquire, Release, StopReadsState, Open, Truncate,
           WritePid, GiveUp, Signal, StartDaemon, BeatWrite, BeatRename, Unlock,
           MayRelease, RemoveLock, RemoveState, Exit, At, Running, stateVars, fileVars
  <2>3. holder[proc[p].ino] # NoPid
    <3>1. SUFFICES ASSUME holder[proc[p].ino] = NoPid PROVE FALSE
      OBVIOUS
    <3>2. Go(p, "locked")
      BY <2>2, <3>1 DEF Flock
    <3> QED
      BY <3>2, GoType DEF Steps, LockInv
  <2>4. holder[proc[p].ino] \in Procs
    BY <2>1, <2>3 DEF LockInv, TypeOK, Pids
  <2>5. proc[holder[proc[p].ino]].at \in Holding
    BY <2>1, <2>4 DEF LockInv, HolderInv
  <2>6. holder[proc[p].ino] # p
    BY <2>1, <2>5 DEF Holding
  <2> QED
    BY <2>3, <2>4, <2>5, <2>6 DEF processAlive, Holding
<1>2. Spec => [][Refused]_vars
  BY <1>1, LockInvariant, PTL DEF Spec
<1> QED
  BY <1>2 DEF RefusedByTheLiving
------------------------------------------------------------------------------
(* Without Release the name of the lock file never moves. *)

\* Every process is a daemon, none is past its unlock, and whoever has
\* opened a file has opened the one the name still refers to.
NameInv ==
  /\ \A p \in Procs :
       /\ proc[p].role = "daemon"
       /\ proc[p].at \notin {"unlocked", "unlinked", "removed"}
       /\ proc[p].at \notin {"new", "gone"} => proc[p].ino = name

\* No step of a daemon that is never cancelled disturbs the name.
LEMMA NameStep ==
  ASSUME ~Probes, ~Shutdowns
  PROVE  LockInv /\ NameInv /\ [Next]_vars => NameInv'
<1> SUFFICES ASSUME LockInv, NameInv, [Next]_vars PROVE NameInv'
  OBVIOUS
<1> USE DEF fileVars, stateVars
<1>1. CASE UNCHANGED vars
  BY <1>1 DEF vars, NameInv
<1>2. ASSUME NEW p \in Procs, NEW s \in Steps, Go(p, s), UNCHANGED name,
             s \notin {"new", "unlocked", "unlinked", "removed"},
             proc[p].at # "new" \/ s = "gone",
             proc[p].at # "gone" \/ s = "gone"
      PROVE  NameInv'
  <2>1. /\ proc'[p].at = s /\ proc'[p].ino = proc[p].ino
        /\ proc'[p].role = proc[p].role
        /\ \A q \in Procs \ {p} : proc'[q] = proc[q]
    BY <1>2 DEF Go, LockInv, TypeOK
  <2> QED
    BY <1>2, <2>1 DEF NameInv
<1>3. ASSUME NEW p \in Procs, StopReadsState(p) PROVE NameInv'
  BY <1>3 DEF StopReadsState, NameInv
<1>4. ASSUME NEW p \in Procs, Open(p) PROVE NameInv'
  <2>1. proc'[p].at = "opened" /\ proc'[p].ino = name' /\ proc'[p].role = proc[p].role
    BY <1>4 DEF Open, LockInv, TypeOK
  <2>2. \A q \in Procs \ {p} : proc'[q] = proc[q]
    BY <1>4 DEF Open, LockInv, TypeOK
  <2>3. name' = name \/ name = NoFile
    BY <1>4 DEF Open
  <2>4. \A q \in Procs : proc[q].at \notin {"new", "gone"} => name # NoFile
    BY LockAssumption DEF LockInv, TypeOK, NameInv, Inodes, NoFile
  <2> QED
    BY <2>1, <2>2, <2>3, <2>4 DEF NameInv
<1>5. ASSUME NEW p \in Procs, Flock(p) PROVE NameInv'
  BY <1>5, <1>2 DEF Flock, At, Steps
<1>6. ASSUME NEW p \in Procs, Truncate(p) PROVE NameInv'
  BY <1>6, <1>2 DEF Truncate, At, Steps
<1>7. ASSUME NEW p \in Procs, WritePid(p) PROVE NameInv'
  BY <1>7, <1>2 DEF WritePid, At, Steps
<1>8. ASSUME NEW p \in Procs, GiveUp(p) PROVE NameInv'
  BY <1>8, <1>2 DEF GiveUp, At, Steps
<1>9. ASSUME NEW p \in Procs, Signal(p) PROVE NameInv'
  BY <1>9, <1>2 DEF Signal, At, Steps
<1>10. ASSUME NEW p \in Procs, StartDaemon(p) PROVE NameInv'
  BY <1>10, <1>2 DEF StartDaemon, At, Steps
<1>11. ASSUME NEW p \in Procs, BeatWrite(p) \/ BeatRename(p) PROVE NameInv'
  BY <1>11 DEF BeatWrite, BeatRename, NameInv
<1>12. ASSUME NEW p \in Procs, Release(p) PROVE NameInv'
  BY <1>12 DEF Release, Unlock, MayRelease, RemoveLock, RemoveState, Exit, At, Daemons,
     NameInv
<1>13. ASSUME NEW p \in Procs, Crash(p) PROVE NameInv'
  BY <1>13, <1>2 DEF Crash, At, Steps
<1> QED
  BY <1>1, <1>3, <1>4, <1>5, <1>6, <1>7, <1>8, <1>9, <1>10, <1>11, <1>12, <1>13
     DEF Next, Acquire

\* A set no two members of which differ has at most one.
LEMMA AtMostOne ==
  ASSUME NEW S, \A x, y \in S : x = y
  PROVE  Cardinality(S) <= 1
<1>1. CASE S = {}
  BY <1>1, FS_EmptySet
<1>2. CASE S # {}
  <2>1. PICK x \in S : TRUE
    BY <1>2
  <2>2. S = {x}
    BY <2>1
  <2> QED
    BY <2>2, FS_Singleton
<1> QED
  BY <1>1, <1>2

\* "One daemon per repo": true of daemons that start and crash, for as long
\* as nobody executes Release.
THEOREM OneDaemonWithoutRelease ==
  ASSUME ~Probes, ~Shutdowns
  PROVE  Spec => []OneDaemon
<1>1. Init => NameInv
  BY DEF Init, NameInv
<1>2. LockInv /\ NameInv => OneDaemon
  <2> SUFFICES ASSUME LockInv, NameInv, NEW p \in Running, NEW q \in Running
               PROVE  p = q
    BY AtMostOne DEF OneDaemon
  <2>1. /\ p \in Procs /\ proc[p].at = "running"
        /\ q \in Procs /\ proc[q].at = "running"
    BY DEF Running, Daemons
  <2>2. proc[p].ino = proc[q].ino /\ proc[p].ino \in Inodes
    BY <2>1 DEF NameInv, LockInv, TypeOK
  <2> QED
    BY <2>1, <2>2 DEF LockInv, HolderInv, Holding
<1>3. LockInv /\ NameInv /\ [Next]_vars => NameInv'
  BY NameStep
<1> QED
  BY <1>1, <1>2, <1>3, LockInvariant, PTL DEF Spec
=============================================================================
