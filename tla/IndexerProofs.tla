--------------------------- MODULE IndexerProofs ---------------------------
(***************************************************************************)
(* Proofs about Indexer, for any processes, files, versions and bounds,    *)
(* and whatever the surroundings may do.                                   *)
(***************************************************************************)
EXTENDS Indexer, FiniteSetTheorems, TLAPS

PCs == {"idle", "walk", "open", "decide", "hash", "remove", "parse", "record",
        "finish"}

Runs == [pc : PCs, cur : Commits, prev : Metas, force : BOOLEAN,
         all : SUBSET Files, todo : SUBSET Files, left : SUBSET Files,
         parsed : SUBSET Outputs, record : SUBSET Outputs, moved : SUBSET Files]

\* Past OpenFileCache and not yet at the deferred close.
Writing == PCs \ {"idle", "walk", "open"}
------------------------------------------------------------------------------
\* A run between two calls.
LEMMA IdleType == Idle \in Runs
<1>1. FirstCommit \in Commits
  BY IndexerAssumption DEF FirstCommit, Commits
<1> QED
  BY <1>1 DEF Idle, Runs, PCs, Metas

\* The initial states are well typed.
LEMMA TypeInitially == Init => TypeOK
<1> SUFFICES ASSUME Init PROVE TypeOK
  OBVIOUS
<1>1. run \in [Procs -> Runs]
  BY IdleType DEF Init
<1>2. latest \in [Files -> 0..MaxContent]
  BY IndexerAssumption DEF Init, Tree, Content
<1>3. head \in Commits
  BY IndexerAssumption DEF Init, FirstCommit, Commits
<1>4. aborts \in 0..MaxAborts
  BY IndexerAssumption DEF Init
<1> QED
  BY <1>1, <1>2, <1>3, <1>4, IndexerAssumption
     DEF Init, TypeOK, Runs, PCs, Metas, Entries

\* Edits note what moved in the active runs.
LEMMA MoveType ==
  ASSUME TypeOK, NEW f \in Files, Move(f)
  PROVE  /\ run' \in [Procs -> Runs]
         /\ \A p \in Procs : run'[p].pc = run[p].pc
<1>1. run \in [Procs -> Runs]
  BY DEF TypeOK, Runs, PCs
<1>2. \A p \in Procs : [run[p] EXCEPT !.moved = @ \cup {f}] \in Runs
  BY <1>1 DEF Runs
<1>3. \A p \in Procs : [run[p] EXCEPT !.moved = @ \cup {f}].pc = run[p].pc
  BY <1>1 DEF Runs
<1> QED
  BY <1>1, <1>2, <1>3 DEF Move

\* What the developer and git do keeps the types.
LEMMA SurroundingsType ==
  ASSUME TypeOK, Surroundings
  PROVE  /\ tree' \in Tree /\ latest' \in [Files -> 0..MaxContent]
         /\ head' \in Commits /\ lost' \in SUBSET (0..MaxCommits)
         /\ newer' \in SUBSET Files
         /\ run' \in [Procs -> Runs]
         /\ \A p \in Procs : run'[p].pc = run[p].pc
         /\ UNCHANGED <<meta, graph, hashes, lock, aborts>>
<1> USE DEF diskVars
<1>1. run \in [Procs -> Runs]
  BY DEF TypeOK, Runs, PCs
<1>2. ASSUME NEW f \in Files, Edit(f)
      PROVE  tree' \in Tree /\ latest' \in [Files -> 0..MaxContent]
  <2>1. latest[f] + 1 \in Content /\ latest' = [latest EXCEPT ![f] = latest[f] + 1]
    BY <1>2, IndexerAssumption DEF Edit, TypeOK, Content
  <2>2. latest'[f] \in Content
    BY <2>1 DEF TypeOK
  <2>3. tree' \in Tree
    BY <1>2, <2>2 DEF Edit, TypeOK, Tree
  <2>4. latest[f] + 1 \in 0..MaxContent
    BY <2>1, IndexerAssumption DEF Content
  <2> QED
    BY <2>1, <2>3, <2>4 DEF TypeOK
<1>3. ASSUME NEW f \in Files, Edit(f)
      PROVE  newer' \in SUBSET Files /\ UNCHANGED <<head, lost, diskVars, lock, aborts>>
  BY <1>3 DEF Edit, TypeOK
<1>4. ASSUME NEW f \in Files, Delete(f) \/ Revert(f)
      PROVE  /\ tree' \in Tree /\ newer' \in SUBSET Files
             /\ UNCHANGED <<latest, head, lost, diskVars, lock, aborts>>
  <2>1. CASE Delete(f)
    BY <1>4, <2>1 DEF Delete, TypeOK, Tree
  <2>2. CASE Revert(f)
    <3>1. head.tree[f] \in Content \cup {Absent}
      BY DEF TypeOK, Commits, Tree
    <3> QED
      BY <1>4, <2>2, <3>1 DEF Revert, TypeOK, Tree
  <2> QED
    BY <1>4, <2>1, <2>2
<1>5. ASSUME Commit
      PROVE  head' \in Commits /\ lost' \in SUBSET (0..MaxCommits)
  <2>1. head.id \in 0..MaxCommits /\ head.id + 1 \in 0..MaxCommits
    BY <1>5, IndexerAssumption DEF Commit, TypeOK, Commits
  <2>2. head' \in Commits
    BY <1>5, <2>1 DEF Commit, TypeOK, Commits
  <2> QED
    BY <1>5, <2>1, <2>2 DEF Commit, TypeOK
<1>6. CASE Commit
  BY <1>1, <1>5, <1>6 DEF Commit, TypeOK
<1>7. ASSUME NEW f \in Files, Edit(f) \/ Delete(f) \/ Revert(f)
      PROVE  run' \in [Procs -> Runs] /\ \A p \in Procs : run'[p].pc = run[p].pc
  BY <1>7, MoveType DEF Edit, Delete, Revert
<1> QED
  BY <1>2, <1>3, <1>4, <1>6, <1>7 DEF Surroundings, TypeOK

\* meta.Write, and the deferred closes, are well typed.
LEMMA WriteMetaType ==
  ASSUME TypeOK, NEW p \in Procs, WriteMeta(p)
  PROVE  /\ meta' \in Metas /\ newer' \in SUBSET Files
         /\ lock' \in Procs \cup {NoProc}
         /\ run' \in [Procs -> Runs]
<1>1. Cardinality(Indexed) \in Nat
  BY IndexerAssumption, FS_Subset, FS_CardinalityType DEF Indexed
<1>2. run[p].cur \in Commits /\ BinVer[p] \in Versions
  BY DEF TypeOK, Versions
<1>3. meta' \in Metas
  BY <1>1, <1>2 DEF WriteMeta, Metas
<1>4. run' \in [Procs -> Runs]
  BY IdleType DEF WriteMeta, TypeOK, Runs, PCs
<1> QED
  BY <1>3, <1>4 DEF WriteMeta

\* What a process does on its way through Run keeps the types.
LEMMA StepType ==
  ASSUME TypeOK, NEW p \in Procs,
         (\E b \in BOOLEAN : Start(p, b)) \/ Step(p) \/ Abort(p)
  PROVE  TypeOK'
<1> USE DEF diskVars, gitVars
<1>1. run \in [Procs -> Runs]
  BY DEF TypeOK, Runs, PCs
<1>2. SUFFICES /\ run' \in [Procs -> Runs]
               /\ meta' \in Metas /\ newer' \in SUBSET Files
               /\ graph' \in [Files -> Entries]
               /\ hashes' \in [Files -> Content \cup {Absent}]
               /\ lock' \in Procs \cup {NoProc} /\ aborts' \in 0..MaxAborts
               /\ UNCHANGED gitVars
  BY DEF TypeOK, Runs, PCs
<1>3. CASE \E b \in BOOLEAN : Start(p, b)
  <2> PICK b \in BOOLEAN : Start(p, b)
    BY <1>3
  <2>1. [Idle EXCEPT !.pc = "walk", !.force = b, !.cur = head, !.prev = meta] \in Runs
    BY IdleType DEF Runs, PCs, TypeOK
  <2> QED
    BY <1>1, <2>1 DEF Start, TypeOK, Runs, PCs
<1>4. CASE Walk(p)
  <2> DEFINE r == [run[p] EXCEPT !.pc = "open", !.all = Present(tree)]
  <2>1. r \in Runs
    BY <1>1 DEF Runs, PCs, Present
  <2>2. run' = [run EXCEPT ![p] = r]
    BY <1>1, <1>4 DEF Walk
  <2>3. run' \in [Procs -> Runs]
    BY <1>1, <2>1, <2>2
  <2> QED
    BY <1>4, <2>3 DEF Walk, TypeOK, Runs, PCs
<1>5. CASE OpenStores(p)
  <2>1. run' \in [Procs -> Runs]
    BY <1>1, <1>5, IdleType DEF OpenStores, Runs, PCs
  <2> QED
    BY <1>5, <2>1 DEF OpenStores, TypeOK, Runs, PCs
<1>6. CASE DecideFull(p)
  <2> DEFINE r == [run[p] EXCEPT !.pc = "parse", !.todo = run[p].all]
  <2>1. r \in Runs
    BY <1>1 DEF Runs, PCs
  <2>2. run' = [run EXCEPT ![p] = r]
    BY <1>1, <1>6 DEF DecideFull
  <2>3. run' \in [Procs -> Runs]
    BY <1>1, <2>1, <2>2
  <2> QED
    BY <1>6, <2>3 DEF DecideFull, TypeOK, Entries, Runs, PCs
<1>7. CASE DecideIncremental(p)
  <2>1. Expand(Incremental(p)) \cap run[p].all \in SUBSET Files
    BY <1>1 DEF Runs
  <2> DEFINE r == [run[p] EXCEPT !.pc = "hash",
                                 !.todo = Expand(Incremental(p)) \cap run[p].all]
  <2>2. r \in Runs
    BY <1>1, <2>1 DEF Runs, PCs
  <2>3. run' = [run EXCEPT ![p] = r]
    BY <1>1, <1>7 DEF DecideIncremental
  <2>4. run' \in [Procs -> Runs]
    BY <1>1, <2>2, <2>3
  <2> QED
    BY <1>7, <2>4 DEF DecideIncremental, TypeOK, Runs, PCs
<1>8. CASE CompareHashes(p)
  <2> DEFINE toReparse == {f \in run[p].todo : ~Unchanged(f)}
  <2>1. CASE toReparse = {}
    <3>1. WriteMeta(p)
      BY <1>8, <2>1 DEF CompareHashes
    <3> QED
      BY <1>8, <3>1, WriteMetaType DEF CompareHashes, TypeOK, Runs, PCs
  <2>2. CASE toReparse # {}
    <3>1. /\ run' = [run EXCEPT ![p].pc = "remove", ![p].todo = toReparse,
                                ![p].left = toReparse]
          /\ UNCHANGED <<meta, newer, lock>>
      BY <1>8, <2>2 DEF CompareHashes
    <3>2. toReparse \in SUBSET Files
      BY <1>1 DEF Runs
    <3> DEFINE r == [run[p] EXCEPT !.pc = "remove", !.todo = toReparse,
                                   !.left = toReparse]
    <3> HIDE DEF toReparse
    <3>3. r \in Runs
      BY <1>1, <3>2 DEF Runs, PCs
    <3>4. run' = [run EXCEPT ![p] = r]
      BY <1>1, <3>1
    <3>5. run' \in [Procs -> Runs]
      BY <1>1, <3>3, <3>4
    <3> QED
      BY <1>8, <3>1, <3>5 DEF CompareHashes, TypeOK, Runs, PCs
  <2> QED
    BY <2>1, <2>2
<1>9. CASE RemoveSymbols(p)
  <2>1. run' \in [Procs -> Runs]
    <3>1. [run[p] EXCEPT !.pc = "parse"] \in Runs
      BY <1>1 DEF Runs, PCs
    <3>2. \A f \in Files : [run[p] EXCEPT !.left = @ \ {f}] \in Runs
      BY <1>1 DEF Runs
    <3>3. run[p].left \subseteq Files
      BY <1>1 DEF Runs
    <3> QED
      BY <1>1, <1>9, <3>1, <3>2, <3>3 DEF RemoveSymbols
  <2>2. graph' \in [Files -> Entries]
    BY <1>9 DEF RemoveSymbols, TypeOK, Entries
  <2> QED
    BY <1>9, <2>1, <2>2 DEF RemoveSymbols, TypeOK, Runs, PCs
<1>10. CASE ParseFile(p)
  <2>1. PICK f \in run[p].todo :
          run' = [run EXCEPT
                 ![p].todo = @ \ {f},
                 ![p].parsed = IF tree[f] = Absent THEN @
                               ELSE @ \cup {[file |-> f, content |-> tree[f]]}]
    BY <1>10 DEF ParseFile
  <2>2. f \in Files /\ tree[f] \in Content \cup {Absent}
    BY <1>1 DEF Runs, TypeOK, Tree
  <2>3. tree[f] # Absent => [file |-> f, content |-> tree[f]] \in Outputs
    BY <2>2 DEF Outputs
  <2> DEFINE r == [run[p] EXCEPT
                     !.todo = @ \ {f},
                     !.parsed = IF tree[f] = Absent THEN @
                                ELSE @ \cup {[file |-> f, content |-> tree[f]]}]
  <2>4. r \in Runs
    BY <1>1, <2>3 DEF Runs
  <2>5. run' = [run EXCEPT ![p] = r]
    BY <1>1, <2>1
  <2>6. run' \in [Procs -> Runs]
    BY <1>1, <2>4, <2>5
  <2> QED
    BY <1>10, <2>6 DEF ParseFile, TypeOK, Runs, PCs
<1>11. CASE FlushBatch(p)
  <2>1. run' \in [Procs -> Runs]
    <3> DEFINE r == [run[p] EXCEPT !.pc = "record", !.record = run[p].parsed,
                                   !.parsed = {}]
    <3>1. r \in Runs
      BY <1>1 DEF Runs, PCs
    <3>2. run' = [run EXCEPT ![p] = r]
      BY <1>1, <1>11 DEF FlushBatch
    <3> QED
      BY <1>1, <3>1, <3>2
  <2>2. ASSUME NEW f \in Files PROVE graph'[f] \in Entries
    <3>1. CASE \E o \in run[p].parsed : o.file = f
      <4>1. (CHOOSE o \in run[p].parsed : o.file = f) \in Outputs
        BY <1>1, <3>1 DEF Runs
      <4>2. BinVer[p] \in Versions
        BY DEF Versions
      <4> QED
        BY <1>11, <3>1, <4>1, <4>2 DEF FlushBatch, Outputs, Entries
    <3>2. CASE ~\E o \in run[p].parsed : o.file = f
      BY <1>11, <3>2 DEF FlushBatch, TypeOK
    <3> QED
      BY <3>1, <3>2
  <2>3. graph' \in [Files -> Entries]
    BY <1>11, <2>2 DEF FlushBatch
  <2> QED
    BY <1>11, <2>1, <2>3 DEF FlushBatch, TypeOK, Runs, PCs
<1>12. CASE RecordHash(p)
  <2>1. run' \in [Procs -> Runs]
    BY <1>1, <1>12 DEF RecordHash, Runs, PCs
  <2>2. hashes' \in [Files -> Content \cup {Absent}]
    BY <1>1, <1>12 DEF RecordHash, TypeOK, Runs, Outputs
  <2> QED
    BY <1>12, <2>1, <2>2 DEF RecordHash, TypeOK, Runs, PCs
<1>13. CASE Finish(p)
  BY <1>13, WriteMetaType DEF Finish, TypeOK, Runs, PCs
<1>14. CASE Abort(p)
  <2>1. run' \in [Procs -> Runs]
    BY <1>1, <1>14, IdleType DEF Abort
  <2>2. aborts' \in 0..MaxAborts
    BY <1>14, IndexerAssumption DEF Abort, TypeOK
  <2> QED
    BY <1>14, <2>1, <2>2 DEF Abort, TypeOK, Runs, PCs
<1> QED
  BY <1>3, <1>4, <1>5, <1>6, <1>7, <1>8, <1>9, <1>10, <1>11, <1>12, <1>13, <1>14
     DEF Step, TypeOK, Runs, PCs

\* Every step preserves the type invariant.
LEMMA TypeStep == TypeOK /\ [Next]_vars => TypeOK'
<1> SUFFICES ASSUME TypeOK, [Next]_vars PROVE TypeOK'
  OBVIOUS
<1>1. CASE UNCHANGED vars
  BY <1>1 DEF vars, TypeOK
<1>2. CASE Surroundings
  BY <1>2, SurroundingsType DEF TypeOK, Runs, PCs
<1>3. CASE \E p \in Procs : Start(p, FALSE) \/ Start(p, TRUE) \/ Step(p) \/ Abort(p)
  BY <1>3, StepType
<1> QED
  BY <1>1, <1>2, <1>3 DEF Next
------------------------------------------------------------------------------
\* One process's step keeps the others where they are.
LEMMA WriterStep == TypeOK /\ SingleWriter /\ [Next]_vars => SingleWriter'
<1> SUFFICES ASSUME TypeOK, SingleWriter, [Next]_vars PROVE SingleWriter'
  OBVIOUS
<1>1. CASE UNCHANGED vars
  BY <1>1 DEF vars, SingleWriter
<1>2. CASE Surroundings
  BY <1>2, SurroundingsType DEF SingleWriter
<1>3. ASSUME NEW p \in Procs,
             Start(p, FALSE) \/ Start(p, TRUE) \/ Step(p) \/ Abort(p)
      PROVE  SingleWriter'
  <2>1. run \in [Procs -> Runs] /\ lock \in Procs \cup {NoProc} /\ NoProc \notin Procs
    BY IndexerAssumption DEF TypeOK, Runs, PCs
  <2>2. Idle.pc = "idle"
    BY DEF Idle
  <2>3. CASE Start(p, FALSE) \/ Start(p, TRUE)
    <3>1. /\ run'[p].pc = "walk" /\ run[p].pc = "idle" /\ lock' = lock
          /\ \A q \in Procs \ {p} : run'[q] = run[q]
      BY <2>1, <2>3 DEF Start, Active, Idle
    <3> QED
      BY <3>1 DEF SingleWriter
  <2>4. CASE Walk(p)
    <3>1. /\ run'[p].pc = "open" /\ run[p].pc = "walk" /\ lock' = lock
          /\ \A q \in Procs \ {p} : run'[q] = run[q]
      BY <2>1, <2>4 DEF Walk, Runs
    <3> QED
      BY <3>1 DEF SingleWriter
  <2>5. CASE OpenStores(p)
    <3>1. /\ run[p].pc = "open"
          /\ \A q \in Procs \ {p} : run'[q] = run[q]
          /\ \/ lock = NoProc /\ lock' = p /\ run'[p].pc = "decide"
             \/ lock # NoProc /\ lock' = lock /\ run'[p].pc = "idle"
      BY <2>1, <2>2, <2>5 DEF OpenStores, Runs
    <3> QED
      BY <2>1, <3>1 DEF SingleWriter
  <2>6. CASE /\ DecideFull(p) \/ DecideIncremental(p) \/ RemoveSymbols(p)
                \/ ParseFile(p) \/ FlushBatch(p) \/ RecordHash(p)
    <3>1. /\ run[p].pc \in Writing /\ run'[p].pc \in Writing /\ lock' = lock
          /\ \A q \in Procs \ {p} : run'[q] = run[q]
      <4>1. CASE DecideFull(p) \/ DecideIncremental(p)
        BY <2>1, <4>1 DEF DecideFull, DecideIncremental, Writing, PCs, Runs
      <4>2. CASE RemoveSymbols(p)
        BY <2>1, <4>2 DEF RemoveSymbols, Writing, PCs, Runs
      <4>3. CASE ParseFile(p)
        BY <2>1, <4>3 DEF ParseFile, Writing, PCs, Runs
      <4>4. CASE FlushBatch(p)
        BY <2>1, <4>4 DEF FlushBatch, Writing, PCs, Runs
      <4>5. CASE RecordHash(p)
        BY <2>1, <4>5 DEF RecordHash, Writing, PCs, Runs
      <4> QED
        BY <2>6, <4>1, <4>2, <4>3, <4>4, <4>5
    <3> QED
      BY <3>1 DEF SingleWriter, Writing
  <2>7. ASSUME run[p].pc \in Writing, WriteMeta(p) PROVE SingleWriter'
    <3>1. lock = p /\ lock' = NoProc
      BY <2>7 DEF SingleWriter, WriteMeta, Writing
    <3>2. run'[p].pc = "idle" /\ \A q \in Procs \ {p} : run'[q] = run[q]
      BY <2>1, <2>2, <2>7 DEF WriteMeta
    <3> QED
      BY <2>1, <3>1, <3>2 DEF SingleWriter
  <2>8. CASE CompareHashes(p)
    <3>1. CASE {f \in run[p].todo : ~Unchanged(f)} = {}
      BY <2>7, <2>8, <3>1 DEF CompareHashes, Writing, PCs
    <3>2. CASE {f \in run[p].todo : ~Unchanged(f)} # {}
      <4>1. /\ run[p].pc = "hash" /\ run'[p].pc = "remove" /\ lock' = lock
            /\ \A q \in Procs \ {p} : run'[q] = run[q]
        <5>1. run[p] \in Runs
          BY <2>1
        <5>2. PICK S : run' = [run EXCEPT ![p].pc = "remove", ![p].todo = S,
                                          ![p].left = S]
          BY <2>8, <3>2 DEF CompareHashes
        <5>3. run'[p].pc = "remove" /\ \A q \in Procs \ {p} : run'[q] = run[q]
          BY <2>1, <5>1, <5>2 DEF Runs
        <5> QED
          BY <2>8, <3>2, <5>3 DEF CompareHashes
      <4> QED
        BY <4>1 DEF SingleWriter
    <3> QED
      BY <3>1, <3>2
  <2>9. CASE Finish(p)
    BY <2>7, <2>9 DEF Finish, Writing, PCs
  <2>10. CASE Abort(p)
    <3>1. /\ run'[p].pc = "idle"
          /\ \A q \in Procs \ {p} : run'[q] = run[q]
          /\ lock' = IF lock = p THEN NoProc ELSE lock
      BY <2>1, <2>2, <2>10 DEF Abort
    <3> QED
      BY <2>1, <3>1 DEF SingleWriter
  <2> QED
    BY <1>3, <2>3, <2>4, <2>5, <2>6, <2>8, <2>9, <2>10 DEF Step
<1> QED
  BY <1>1, <1>2, <1>3 DEF Next

\* The stores and the local variables of Run keep their types.
THEOREM Typing == Spec => []TypeOK
  BY TypeInitially, TypeStep, PTL DEF Spec

\* Exactly the process that holds the lock of the hash cache is between
\* OpenFileCache and the deferred close: the graph, the hashes and meta.json
\* have one writer, however many processes call Run and wherever they abort.
THEOREM OneWriter == Spec => []SingleWriter
<1>1. Init => SingleWriter
  BY IndexerAssumption DEF Init, SingleWriter, Idle
<1> QED
  BY <1>1, TypeInitially, TypeStep, WriterStep, PTL DEF Spec
------------------------------------------------------------------------------
(* What a step leaves alone, for the invariants that follow one run.       *)

\* An edit, a deletion or a revert shows in the history variable of every
\* active run, and changes nothing else of it.
LEMMA SurroundingsFrame ==
  ASSUME TypeOK, Surroundings, NEW p \in Procs
  PROVE  /\ UNCHANGED <<meta, graph, hashes, lock, aborts>>
         /\ UNCHANGED <<run[p].pc, run[p].cur, run[p].prev, run[p].force, run[p].all,
                        run[p].todo, run[p].left, run[p].parsed, run[p].record>>
         /\ run[p].moved \subseteq run'[p].moved
         /\ Active(p) => \A f \in Files \ run'[p].moved : tree'[f] = tree[f]
<1> USE DEF diskVars
<1>1. run[p] \in Runs /\ tree \in Tree
  BY DEF TypeOK, Runs, PCs
<1>2. CASE Commit
  BY <1>2 DEF Commit
<1>3. ASSUME NEW f \in Files, Edit(f) \/ Delete(f) \/ Revert(f)
      PROVE  /\ UNCHANGED <<meta, graph, hashes, lock, aborts>>
             /\ Move(f) /\ \A g \in Files \ {f} : tree'[g] = tree[g]
  BY <1>1, <1>3 DEF Edit, Delete, Revert, Tree
<1>4. ASSUME NEW f \in Files, Edit(f) \/ Delete(f) \/ Revert(f)
      PROVE  /\ UNCHANGED <<run[p].pc, run[p].cur, run[p].prev, run[p].force, run[p].all,
                            run[p].todo, run[p].left, run[p].parsed, run[p].record>>
             /\ run[p].moved \subseteq run'[p].moved
             /\ Active(p) => f \in run'[p].moved
  <2>1. run'[p] = IF Active(p) THEN [run[p] EXCEPT !.moved = @ \cup {f}] ELSE run[p]
    BY <1>3, <1>4 DEF Move
  <2> QED
    BY <1>1, <2>1 DEF Runs
<1> QED
  BY <1>2, <1>3, <1>4 DEF Surroundings

\* A step of one process is none of another's, and none of the developer's.
LEMMA ProcessFrame ==
  ASSUME TypeOK, NEW p \in Procs,
         Start(p, FALSE) \/ Start(p, TRUE) \/ Step(p) \/ Abort(p)
  PROVE  /\ UNCHANGED <<tree, latest, head, lost>>
         /\ \A q \in Procs \ {p} : run'[q] = run[q]
         /\ run[p].pc \notin Writing => UNCHANGED <<meta, graph, hashes, newer>>
<1> USE DEF gitVars, diskVars, Writing, PCs, Active
<1>1. run \in [Procs -> Runs]
  BY DEF TypeOK, Runs, PCs
<1>2. CASE Start(p, FALSE) \/ Start(p, TRUE) \/ Abort(p)
  BY <1>1, <1>2 DEF Start, Abort
<1>3. CASE Walk(p) \/ OpenStores(p) \/ DecideFull(p) \/ DecideIncremental(p)
  BY <1>1, <1>3 DEF Walk, OpenStores, DecideFull, DecideIncremental
<1>4. CASE CompareHashes(p)
  BY <1>1, <1>4 DEF CompareHashes, WriteMeta
<1>5. CASE RemoveSymbols(p) \/ ParseFile(p) \/ FlushBatch(p)
  BY <1>1, <1>5 DEF RemoveSymbols, ParseFile, FlushBatch
<1>6. CASE RecordHash(p) \/ Finish(p)
  BY <1>1, <1>6 DEF RecordHash, Finish, WriteMeta
<1> QED
  BY <1>2, <1>3, <1>4, <1>5, <1>6 DEF Step

------------------------------------------------------------------------------
(* analyze --force, for any number of processes and whatever the           *)
(* surroundings do: undone edits, new, deleted and untracked files, lost   *)
(* commits, runs that abort.                                               *)

\* A forced run rebuilds the graph from nothing.  Of the files that have not
\* changed since it started, one that exists is still to be parsed, or parsed
\* as it is, or in the graph as it is; one that does not exist is in neither.
RebuildInv(p) ==
  run[p].force =>
    /\ run[p].pc \notin {"hash", "remove"}
    /\ run[p].pc \in {"open", "decide"} =>
         \A f \in Files \ run[p].moved : f \in run[p].all <=> tree[f] # Absent
    /\ run[p].pc \in {"parse", "record", "finish"} =>
         \A f \in Files \ run[p].moved :
           /\ \A o \in run[p].parsed : o.file = f => o.content = tree[f]
           /\ IF tree[f] = Absent THEN f \notin run[p].todo /\ graph[f] = Absent
              ELSE \/ f \in run[p].todo
                   \/ \E o \in run[p].parsed : o.file = f
                   \/ graph[f] = [content |-> tree[f], ver |-> BinVer[p]]
    /\ run[p].pc \in {"record", "finish"} => run[p].parsed = {}
    /\ run[p].pc = "finish" => run[p].todo = {}
    /\ run[p].pc \in {"walk", "open", "decide"} => run[p].parsed = {}

\* The steps of the forced run itself; one named step per action.
LEMMA RebuildOwnStep ==
  ASSUME TypeOK, NEW p \in Procs, RebuildInv(p),
         Start(p, FALSE) \/ Start(p, TRUE) \/ Step(p) \/ Abort(p)
  PROVE  RebuildInv(p)'
<1> USE DEF RebuildInv
<1>1. run \in [Procs -> Runs] /\ run[p] \in Runs /\ tree' = tree
  BY ProcessFrame DEF TypeOK, Runs, PCs
<1>2. CASE Start(p, FALSE) \/ Start(p, TRUE)
  <2>1. run'[p].pc = "walk" /\ run'[p].parsed = {}
    BY <1>1, <1>2 DEF Start, Idle
  <2> QED
    BY <2>1
<1>3. ASSUME run'[p] = Idle PROVE RebuildInv(p)'
  BY <1>3 DEF Idle
<1>4. CASE Abort(p)
  BY <1>1, <1>3, <1>4 DEF Abort
<1>5. CASE Walk(p)
  <2>1. /\ run[p].pc = "walk" /\ run'[p].pc = "open" /\ run'[p].all = Present(tree)
        /\ UNCHANGED <<run[p].force, run[p].parsed, run[p].moved>>
    BY <1>1, <1>5 DEF Walk, Runs
  <2> QED
    BY <1>1, <2>1 DEF Present
<1>6. CASE OpenStores(p)
  <2>1. CASE lock = NoProc
    <3>1. /\ run[p].pc = "open" /\ run'[p].pc = "decide"
          /\ UNCHANGED <<run[p].force, run[p].parsed, run[p].all, run[p].moved>>
      BY <1>1, <1>6, <2>1 DEF OpenStores, Runs
    <3> QED
      BY <1>1, <3>1
  <2>2. CASE lock # NoProc
    BY <1>1, <1>3, <1>6, <2>2 DEF OpenStores
  <2> QED
    BY <2>1, <2>2
<1>7. CASE DecideFull(p)
  <2>1. /\ run[p].pc = "decide" /\ run'[p].pc = "parse" /\ run'[p].todo = run[p].all
        /\ UNCHANGED <<run[p].force, run[p].parsed, run[p].all, run[p].moved>>
        /\ \A f \in Files : graph'[f] = Absent
    BY <1>1, <1>7 DEF DecideFull, Runs
  <2> QED
    BY <1>1, <2>1
<1>8. CASE DecideIncremental(p)
  <2>1. ~run[p].force
    BY <1>8 DEF DecideIncremental, Incremental
  <2>2. run'[p].force = run[p].force
    BY <1>1, <1>8 DEF DecideIncremental, Runs
  <2> QED
    BY <2>1, <2>2
<1>9. CASE CompareHashes(p)
  <2>1. CASE {f \in run[p].todo : ~Unchanged(f)} = {}
    BY <1>1, <1>3, <1>9, <2>1 DEF CompareHashes, WriteMeta
  <2>2. CASE {f \in run[p].todo : ~Unchanged(f)} # {}
    <3>1. PICK S : run' = [run EXCEPT ![p].pc = "remove", ![p].todo = S,
                                      ![p].left = S]
      BY <1>9, <2>2 DEF CompareHashes
    <3>2. run[p].pc = "hash" /\ run'[p].force = run[p].force
      BY <1>1, <1>9, <3>1 DEF CompareHashes, Runs
    <3> QED
      BY <3>2
  <2> QED
    BY <2>1, <2>2
<1>10. CASE RemoveSymbols(p)
  <2>1. run[p].pc = "remove" /\ run'[p].force = run[p].force
    BY <1>1, <1>10 DEF RemoveSymbols, Runs
  <2> QED
    BY <2>1
<1>11. CASE ParseFile(p)
  <2>1. PICK f \in run[p].todo :
          run' = [run EXCEPT
                 ![p].todo = @ \ {f},
                 ![p].parsed = IF tree[f] = Absent THEN @
                               ELSE @ \cup {[file |-> f, content |-> tree[f]]}]
    BY <1>11 DEF ParseFile
  <2>2. /\ run[p].pc = "parse"
        /\ UNCHANGED <<run[p].pc, run[p].force, run[p].all, run[p].moved, graph>>
        /\ run'[p].todo = run[p].todo \ {f}
        /\ run'[p].parsed = IF tree[f] = Absent THEN run[p].parsed
                            ELSE run[p].parsed \cup {[file |-> f, content |-> tree[f]]}
    BY <1>1, <1>11, <2>1 DEF ParseFile, Runs, diskVars
  <2>3. ASSUME run[p].force, NEW g \in Files \ run[p].moved
        PROVE  /\ \A o \in run'[p].parsed : o.file = g => o.content = tree[g]
               /\ IF tree[g] = Absent THEN g \notin run'[p].todo /\ graph[g] = Absent
                  ELSE \/ g \in run'[p].todo
                       \/ \E o \in run'[p].parsed : o.file = g
                       \/ graph[g] = [content |-> tree[g], ver |-> BinVer[p]]
    <3>1. /\ \A o \in run[p].parsed : o.file = g => o.content = tree[g]
          /\ IF tree[g] = Absent THEN g \notin run[p].todo /\ graph[g] = Absent
             ELSE \/ g \in run[p].todo
                  \/ \E o \in run[p].parsed : o.file = g
                  \/ graph[g] = [content |-> tree[g], ver |-> BinVer[p]]
      BY <2>2, <2>3
    <3>2. CASE tree[f] = Absent
      BY <2>2, <3>1, <3>2
    <3>3. CASE tree[f] # Absent
      <4> DEFINE new == [file |-> f, content |-> tree[f]]
      <4>1. run'[p].parsed = run[p].parsed \cup {new} /\ new.file = f /\ new.content = tree[f]
        BY <2>2, <3>3
      <4> HIDE DEF new
      <4>2. \A o \in run'[p].parsed : o.file = g => o.content = tree[g]
        BY <3>1, <4>1
      <4>3. g \in run[p].todo => g \in run'[p].todo \/ \E o \in run'[p].parsed : o.file = g
        BY <2>2, <4>1
      <4>4. (\E o \in run[p].parsed : o.file = g) => \E o \in run'[p].parsed : o.file = g
        BY <4>1
      <4>5. g \notin run[p].todo => g \notin run'[p].todo
        BY <2>2
      <4> QED
        BY <3>1, <4>2, <4>3, <4>4, <4>5
    <3> QED
      BY <3>2, <3>3
  <2> QED
    BY <1>1, <2>2, <2>3
<1>12. CASE FlushBatch(p)
  <2>1. /\ run[p].pc = "parse" /\ run'[p].pc = "record" /\ run'[p].parsed = {}
        /\ UNCHANGED <<run[p].todo, run[p].force, run[p].moved>>
    BY <1>1, <1>12 DEF FlushBatch, Runs
  <2>2. ASSUME NEW g \in Files
        PROVE  /\ (\E o \in run[p].parsed : o.file = g) =>
                    \E o \in run[p].parsed :
                      o.file = g /\ graph'[g] = [content |-> o.content, ver |-> BinVer[p]]
               /\ ~(\E o \in run[p].parsed : o.file = g) => graph'[g] = graph[g]
    BY <1>12 DEF FlushBatch
  <2>3. ASSUME run[p].force, NEW g \in Files \ run[p].moved
        PROVE  IF tree[g] = Absent THEN g \notin run[p].todo /\ graph'[g] = Absent
               ELSE \/ g \in run[p].todo
                    \/ graph'[g] = [content |-> tree[g], ver |-> BinVer[p]]
    <3>1. \A o \in run[p].parsed : o.content # Absent
      BY <1>1, IndexerAssumption DEF Runs, Outputs
    <3>2. /\ \A o \in run[p].parsed : o.file = g => o.content = tree[g]
          /\ IF tree[g] = Absent THEN g \notin run[p].todo /\ graph[g] = Absent
             ELSE \/ g \in run[p].todo
                  \/ \E o \in run[p].parsed : o.file = g
                  \/ graph[g] = [content |-> tree[g], ver |-> BinVer[p]]
      BY <2>1, <2>3
    <3>3. CASE \E o \in run[p].parsed : o.file = g
      <4>1. tree[g] # Absent
        BY <3>1, <3>2, <3>3
      <4>2. graph'[g] = [content |-> tree[g], ver |-> BinVer[p]]
        BY <2>2, <3>2, <3>3
      <4> QED
        BY <4>1, <4>2
    <3>4. CASE ~\E o \in run[p].parsed : o.file = g
      <4>1. graph'[g] = graph[g]
        BY <2>2, <3>4
      <4> QED
        BY <3>2, <3>4, <4>1
    <3> QED
      BY <3>3, <3>4
  <2> QED
    BY <1>1, <2>1, <2>3
<1>13. CASE RecordHash(p)
  <2>1. /\ run[p].pc = "record" /\ run'[p].pc \in {"record", "parse", "finish"}
        /\ run'[p].pc = "finish" => run[p].todo = {}
        /\ UNCHANGED <<run[p].todo, run[p].force, run[p].moved, run[p].parsed, graph>>
    BY <1>1, <1>13 DEF RecordHash, Runs
  <2> QED
    BY <1>1, <2>1
<1>14. CASE Finish(p)
  BY <1>1, <1>3, <1>14 DEF Finish, WriteMeta
<1> QED
  BY <1>2, <1>4, <1>5, <1>6, <1>7, <1>8, <1>9, <1>10, <1>11, <1>12, <1>13, <1>14 DEF Step

\* Every step keeps every forced run on its way.
LEMMA RebuildStep ==
  /\ TypeOK /\ SingleWriter /\ (\A p \in Procs : RebuildInv(p)) /\ [Next]_vars
  => (\A p \in Procs : RebuildInv(p))'
<1> SUFFICES ASSUME TypeOK, SingleWriter, \A p \in Procs : RebuildInv(p), [Next]_vars,
                    NEW p \in Procs
             PROVE  RebuildInv(p)'
  OBVIOUS
<1>1. CASE UNCHANGED vars
  BY <1>1 DEF vars, RebuildInv
<1>2. CASE Surroundings
  BY <1>2, SurroundingsFrame DEF RebuildInv, Active
<1>3. ASSUME NEW q \in Procs, Start(q, FALSE) \/ Start(q, TRUE) \/ Step(q) \/ Abort(q)
      PROVE  RebuildInv(p)'
  <2>1. CASE q = p
    BY <1>3, <2>1, RebuildOwnStep
  <2>2. CASE q # p
    <3>1. run'[p] = run[p] /\ tree' = tree
      BY <1>3, <2>2, ProcessFrame
    <3>2. run[p].pc \in {"parse", "record", "finish"} => graph' = graph
      <4>1. run[p].pc \in {"parse", "record", "finish"} => run[q].pc \notin Writing
        BY <2>2 DEF SingleWriter, Writing, PCs
      <4> QED
        BY <1>3, <4>1, ProcessFrame
    <3> QED
      BY <3>1, <3>2 DEF RebuildInv
  <2> QED
    BY <2>1, <2>2
<1> QED
  BY <1>1, <1>2, <1>3 DEF Next

\* A forced run that is through to meta.json has put every file that did not
\* change meanwhile into the graph as it is, and nothing else.
LEMMA RebuildCompletes ==
  TypeOK /\ (\A p \in Procs : RebuildInv(p)) /\ [Next]_vars
  => \A p \in Procs : Completes(p) /\ run[p].force =>
       \A f \in Files \ run[p].moved : UpToDate(f, BinVer[p])'
<1> SUFFICES ASSUME TypeOK, \A p \in Procs : RebuildInv(p), [Next]_vars,
                    NEW p \in Procs, Completes(p), run[p].force,
                    NEW f \in Files \ run[p].moved
             PROVE  UpToDate(f, BinVer[p])'
  OBVIOUS
<1>1. run[p].pc = "finish" /\ run[p].todo = {} /\ run[p].parsed = {}
  BY DEF Completes, RebuildInv
<1>2. UpToDate(f, BinVer[p])
  BY <1>1 DEF RebuildInv, UpToDate
<1>3. run'[p].pc = "idle" /\ aborts' = aborts
  BY DEF Completes, Active
<1>4. CASE UNCHANGED vars
  BY <1>1, <1>3, <1>4 DEF vars
<1>5. CASE Surroundings
  BY <1>1, <1>3, <1>5, SurroundingsFrame
<1>6. ASSUME NEW q \in Procs, Start(q, FALSE) \/ Start(q, TRUE) \/ Step(q) \/ Abort(q)
      PROVE  UpToDate(f, BinVer[p])'
  <2>1. q = p
    BY <1>1, <1>3, <1>6, ProcessFrame
  <2>2. ~Abort(p)
    BY <1>3 DEF Abort, TypeOK
  <2>3. UNCHANGED <<tree, graph>>
    BY <1>1, <1>3, <1>6, <2>1, <2>2
       DEF Start, Active, Step, Walk, OpenStores, DecideFull, DecideIncremental,
           CompareHashes, RemoveSymbols, ParseFile, FlushBatch, RecordHash, Finish, gitVars
  <2> QED
    BY <1>2, <2>3 DEF UpToDate
<1> QED
  BY <1>4, <1>5, <1>6 DEF Next

\* analyze --force repairs the graph whatever aborted runs of any process,
\* undone edits, deletions and lost commits left behind.
THEOREM ForcedRunRepairs == Spec => ForceRepairs
<1>1. Init => SingleWriter /\ \A p \in Procs : RebuildInv(p)
  BY IndexerAssumption DEF Init, SingleWriter, RebuildInv, Idle
<1>2. TypeOK /\ (\A p \in Procs : RebuildInv(p)) /\ [Next]_vars
      => [\A p \in Procs : Completes(p) /\ run[p].force =>
            \A f \in Files \ run[p].moved : UpToDate(f, BinVer[p])']_vars
  BY RebuildCompletes
<1> QED
  BY <1>1, <1>2, TypeInitially, TypeStep, WriterStep, RebuildStep, PTL
     DEF Spec, ForceRepairs
------------------------------------------------------------------------------
(* What an index can be trusted for.  The hash cache says what the graph   *)
(* holds only under conditions.  A full run empties the graph and leaves   *)
(* the cache; that is harmless if the next run is full too, and it is when *)
(* one process indexes and every full run was owed to meta and the tree.   *)
(* A forced run was not (MCIndexerAbort), nor was one that a second        *)
(* process decided on before the first completed.  An edit that is undone, *)
(* a new or deleted file and a lost commit change what is owed.  Without   *)
(* these, and however edits, commits and aborts fall between the steps of  *)
(* the runs, the cache can be trusted.                                     *)

\* One process indexes the repository.
Alone == \A p, q \in Procs : p = q

\* Files are edited and committed, and nothing else.
OnlyEdits == ~Reverts /\ ~Creates /\ Deletes = {} /\ ~Forces /\ ~Rewrites

\* The files there are, from beginning to end.
Sources == Present(InitTree)

\* What the hash cache says of a file is what the graph holds of it.
Settled(f) == \E p \in Procs : graph[f] = [content |-> hashes[f], ver |-> BinVer[p]]

\* A hash that is the file's is one the graph holds.
Trusted == \A f \in Sources : hashes[f] = tree[f] => Settled(f)

\* The files that differ from the commit in meta, which a run would parse.
Behind == {f \in Sources : tree[f] # meta.commit.tree[f]}

\* The next run parses everything, and goes on doing so until one completes.
FullOwed == meta = NoMeta \/ 2 * Cardinality(Behind) >= Cardinality(Sources)

\* Tree, HEAD and hash cache: the same files, contents in the order they came.
TreeInv ==
  /\ lost = {}
  /\ \A f \in Files : /\ tree[f] = Absent <=> f \notin Sources
                      /\ head.tree[f] = Absent <=> f \notin Sources
  /\ \A f \in Sources : /\ tree[f] = latest[f] /\ head.tree[f] <= tree[f]
                        /\ hashes[f] # Absent => hashes[f] <= tree[f]
  /\ \A f \in Files \ Sources : graph[f] = Absent

\* A commit that HEAD was at: HEAD has moved on in some file, or not at all.
Before(c) ==
  /\ \A f \in Files : c.tree[f] = Absent <=> f \notin Sources
  /\ \A f \in Sources : c.tree[f] <= head.tree[f]
  /\ c.id # head.id => \E f \in Sources : c.tree[f] # head.tree[f]

\* Every file that is as in meta's commit has its hash recorded.
MetaInv ==
  meta # NoMeta =>
    /\ Before(meta.commit)
    /\ meta.count <= Cardinality(Sources)
    /\ \A p \in Procs : meta.ver = BinVer[p]
    /\ newer \subseteq Behind
    /\ \A f \in Sources \ Behind : hashes[f] = tree[f]

\* What p has parsed and not yet written, or written and not yet recorded.
Outs(p) == run[p].parsed \cup run[p].record
Pending(p) == run[p].todo \cup {o.file : o \in Outs(p)}

\* A run knows meta and a commit no older, and has something to do.
ActiveInv(p) ==
  /\ ~run[p].force /\ run[p].prev = meta /\ Before(run[p].cur)
  /\ meta # NoMeta =>
       /\ \A f \in Sources : meta.commit.tree[f] <= run[p].cur.tree[f]
       /\ Behind # {} \/ Sources = {}
  /\ \A f \in run[p].moved : f \in Sources /\ run[p].cur.tree[f] < tree[f]
  /\ run[p].pc # "walk" => run[p].all = Sources
  /\ run[p].todo \subseteq Sources

\* What is parsed is, or was since the run started, the file's content; what
\* is to be recorded is in the graph.
OutputInv(p) ==
  /\ \A o \in Outs(p) : /\ o.file \in Sources /\ o.content <= tree[o.file]
                        /\ o.file \notin run[p].moved => o.content = tree[o.file]
                        /\ o.file \notin run[p].todo
  /\ \A o, r \in run[p].parsed : o.file = r.file => o = r
  /\ \A o \in run[p].record : graph[o.file] = [content |-> o.content, ver |-> BinVer[p]]
  /\ run[p].pc # "parse" => run[p].parsed = {}
  /\ run[p].pc # "record" => run[p].record = {}
  /\ run[p].pc = "finish" => run[p].todo = {}

\* A full run leaves nothing as it was, so it may distrust every hash until
\* it completes; an incremental run only touches files whose hash is not theirs.
ModeInv(p) ==
  \/ FullOwed /\ \A f \in Sources : f \in Pending(p) \/ Settled(f)
  \/ Trusted /\ \A f \in run[p].todo \cup {o.file : o \in run[p].parsed} : hashes[f] # tree[f]

\* Every file that has not changed since the run started is pending or has its
\* hash recorded.
ProgressInv(p) ==
  /\ run[p].pc \in {"hash", "remove", "parse", "record", "finish"} =>
       \A f \in Sources \ run[p].moved : f \in Pending(p) \/ hashes[f] = tree[f]
  /\ run[p].pc = "hash" => Trusted
  /\ run[p].pc = "remove" => /\ Trusted /\ run[p].left \subseteq run[p].todo
                             /\ \A f \in run[p].todo : hashes[f] # tree[f]
  /\ run[p].pc \in {"parse", "record", "finish"} => ModeInv(p)

RunInv(p) == Active(p) => ActiveInv(p) /\ OutputInv(p) /\ ProgressInv(p)

SoleInv ==
  /\ TreeInv /\ MetaInv
  /\ FullOwed \/ Trusted
  /\ \A p \in Procs : RunInv(p)

\* What the invariant compares are numbers, and what it counts is finite.
LEMMA SoleNumbers ==
  ASSUME TypeOK, SoleInv
  PROVE  /\ Sources \subseteq Files /\ Sources = Present(tree)
         /\ IsFiniteSet(Sources) /\ Cardinality(Sources) \in Nat
         /\ Behind \subseteq Sources /\ Cardinality(Behind) \in Nat
         /\ \A f \in Sources :
              /\ tree[f] \in Nat /\ latest[f] \in Nat /\ head.tree[f] \in Nat
              /\ tree[f] # Absent
              /\ hashes[f] # Absent => hashes[f] \in Nat
         /\ \A c \in Commits : Before(c) => \A f \in Sources : c.tree[f] \in Nat
         /\ \A o \in Outputs : o.content \in Nat /\ o.content # Absent
  <1> USE IndexerAssumption DEF TypeOK, Tree, Commits, Content
  <1>1. Sources \subseteq Files /\ Sources = Present(tree)
    BY DEF Sources, Present, SoleInv, TreeInv
  <1>2. IsFiniteSet(Sources) /\ Cardinality(Sources) \in Nat
    BY <1>1, FS_Subset, FS_CardinalityType
  <1>3. Behind \subseteq Sources /\ Cardinality(Behind) \in Nat
    <2>1. Behind \subseteq Sources
      BY DEF Behind
    <2> QED
      BY <1>2, <2>1, FS_Subset, FS_CardinalityType
  <1>4. ASSUME NEW f \in Sources
        PROVE  /\ tree[f] \in Nat /\ latest[f] \in Nat /\ head.tree[f] \in Nat
               /\ tree[f] # Absent
               /\ hashes[f] # Absent => hashes[f] \in Nat
    BY <1>1 DEF SoleInv, TreeInv
  <1>5. \A c \in Commits : Before(c) => \A f \in Sources : c.tree[f] \in Nat
    BY <1>1 DEF Before
  <1>6. \A o \in Outputs : o.content \in Nat /\ o.content # Absent
    BY DEF Outputs
  <1> QED
    BY <1>1, <1>2, <1>3, <1>4, <1>5, <1>6

\* More files behind the commit in meta never make a full run unnecessary.
LEMMA BehindGrows ==
  ASSUME TypeOK, SoleInv, meta' = meta, Behind \subseteq Behind', FullOwed
  PROVE  FullOwed'
  <1>1. Behind' \subseteq Sources
    BY DEF Behind
  <1>2. IsFiniteSet(Behind') /\ Cardinality(Behind') \in Nat
    BY <1>1, SoleNumbers, FS_Subset, FS_CardinalityType
  <1>3. Cardinality(Behind) <= Cardinality(Behind')
    BY <1>2, FS_Subset
  <1>4. Sources' = Sources
    BY DEF Sources, Present
  <1> QED
    BY <1>2, <1>3, <1>4, SoleNumbers DEF FullOwed

\* An edit only makes hashes, commits and parsed contents older.
LEMMA SoleEdit ==
  ASSUME OnlyEdits, TypeOK, SoleInv, NEW f \in Files, Edit(f)
  PROVE  SoleInv'
  <1> USE DEF SoleInv
  <1>1. /\ f \in Sources /\ tree'[f] > tree[f] /\ tree'[f] = latest'[f]
        /\ \A g \in Files \ {f} : tree'[g] = tree[g] /\ latest'[g] = latest[g]
        /\ tree'[f] \in Nat /\ tree'[f] # Absent
    <2>1. tree[f] # Absent /\ f \in Sources
      BY DEF Edit, OnlyEdits, TreeInv
    <2>2. latest' = [latest EXCEPT ![f] = latest[f] + 1] /\ tree' = [tree EXCEPT ![f] = latest'[f]]
      BY DEF Edit
    <2>3. latest'[f] = tree[f] + 1 /\ tree'[f] = tree[f] + 1
      BY <2>1, <2>2 DEF TreeInv, TypeOK, Tree
    <2>4. latest[f] < MaxContent /\ latest[f] \in Nat
      BY <2>1, SoleNumbers DEF Edit
    <2>5. latest[f] + 1 \in Content
      BY <2>4, IndexerAssumption DEF Content
    <2> QED
      BY <2>1, <2>2, <2>3, <2>5, SoleNumbers, IndexerAssumption DEF TypeOK, Tree, TreeInv
  <1>2. /\ newer' = newer \cup {f}
        /\ UNCHANGED <<head, lost, meta, graph, hashes>>
    BY DEF Edit, diskVars
  <1>3. \A g \in Sources : tree[g] <= tree'[g] /\ tree'[g] \in Nat
    BY <1>1, SoleNumbers
  <1>4. TreeInv'
    <2>1. head.tree[f] \in Nat /\ head.tree[f] <= tree[f] /\ tree[f] \in Nat
      BY <1>1, SoleNumbers DEF TreeInv
    <2>2. hashes[f] # Absent => hashes[f] \in Nat /\ hashes[f] <= tree[f]
      BY <1>1, SoleNumbers DEF TreeInv
    <2> QED
      BY <1>1, <1>2, <2>1, <2>2 DEF TreeInv, Sources, Present
  <1>5. \A c \in Commits : Before(c) => Before(c)' /\ c.tree[f] < tree'[f]
    <2> SUFFICES ASSUME NEW c \in Commits, Before(c)
                 PROVE  Before(c)' /\ c.tree[f] < tree'[f]
      OBVIOUS
    <2>1. c.tree[f] \in Nat /\ head.tree[f] \in Nat /\ tree[f] \in Nat
      BY <1>1, SoleNumbers
    <2>2. c.tree[f] <= head.tree[f] /\ head.tree[f] <= tree[f]
      BY <1>1 DEF Before, TreeInv
    <2> QED
      BY <1>1, <1>2, <2>1, <2>2 DEF Before, Sources, Present
  <1>6. meta # NoMeta => Before(meta.commit) /\ meta.commit \in Commits
    BY DEF MetaInv, TypeOK, Metas
  <1>7. meta # NoMeta => Behind' = Behind \cup {f}
    <2> SUFFICES ASSUME meta # NoMeta
                 PROVE  Behind' = Behind \cup {f}
      OBVIOUS
    <2>1. meta.commit.tree[f] \in Nat /\ meta.commit.tree[f] < tree'[f]
      BY <1>1, <1>5, <1>6, SoleNumbers
    <2>2. meta.commit.tree[f] # tree'[f]
      BY <2>1, <1>1
    <2> QED
      BY <1>1, <1>2, <2>2, SoleNumbers DEF Behind, Sources, Present
  <1>8. MetaInv'
    <2> SUFFICES ASSUME meta # NoMeta
                 PROVE  MetaInv'
      BY <1>2 DEF MetaInv
    <2>1. newer' \subseteq Behind'
      BY <1>2, <1>7 DEF MetaInv
    <2>2. Before(meta.commit)'
      BY <1>2, <1>5, <1>6
    <2>3. \A g \in Sources \ Behind' : hashes[g] = tree'[g]
      BY <1>1, <1>7, SoleNumbers DEF MetaInv
    <2> QED
      BY <1>2, <2>1, <2>2, <2>3 DEF MetaInv, Sources, Present
  <1>9. FullOwed => FullOwed'
    <2>1. CASE meta = NoMeta
      BY <1>2, <2>1 DEF FullOwed
    <2>2. CASE meta # NoMeta
      BY <1>2, <1>7, <2>2, BehindGrows
    <2> QED
      BY <2>1, <2>2
  <1>10. /\ \A g \in Files : Settled(g)' <=> Settled(g)
         /\ \A g \in Sources : hashes[g] = tree'[g] => hashes[g] = tree[g]
    <2>1. hashes[f] # tree'[f]
      BY <1>1, SoleNumbers DEF TreeInv
    <2>2. \A g \in Sources \ {f} : tree'[g] = tree[g]
      BY <1>1, SoleNumbers
    <2> QED
      BY <1>2, <2>1, <2>2 DEF Settled
  <1>11. Trusted => Trusted'
    BY <1>2, <1>10, SoleNumbers DEF Trusted, Sources, Present
  <1>12. ASSUME NEW p \in Procs, Active(p)'
         PROVE  ActiveInv(p)' /\ OutputInv(p)' /\ ProgressInv(p)'
    <2>1. run[p] \in Runs /\ run' [p] = IF Active(p) THEN [run[p] EXCEPT !.moved = @ \cup {f}]
                                        ELSE run[p]
      BY DEF TypeOK, Runs, PCs, Edit, Move
    <2>2. Active(p) /\ RunInv(p)
      BY <1>12, <2>1 DEF Active
    <2>3. /\ UNCHANGED <<run[p].pc, run[p].cur, run[p].prev, run[p].force, run[p].all,
                         run[p].todo, run[p].left, run[p].parsed, run[p].record>>
          /\ run'[p].moved = run[p].moved \cup {f}
      BY <2>1, <2>2 DEF Runs
    <2>4. /\ UNCHANGED <<Outs(p), Pending(p), Sources>>
          /\ run[p].cur \in Commits
      BY <2>1, <2>3 DEF Outs, Pending, Sources, Present, Runs
    <2>5. ActiveInv(p)'
      <3>1. ActiveInv(p)
        BY <2>2 DEF RunInv
      <3>2. Before(run[p].cur)' /\ run[p].cur.tree[f] < tree'[f]
        BY <1>5, <2>3, <2>4, <3>1 DEF ActiveInv
      <3>3. \A g \in run'[p].moved : g \in Sources /\ run[p].cur.tree[g] < tree'[g]
        BY <1>1, <2>1, <2>3, <3>1, <3>2, SoleNumbers DEF ActiveInv
      <3>4. meta # NoMeta => Behind' # {}
        BY <1>7
      <3> QED
        BY <1>2, <2>3, <2>4, <3>1, <3>2, <3>3, <3>4 DEF ActiveInv
    <2>6. OutputInv(p)'
      <3>1. OutputInv(p) /\ \A o \in Outs(p) : o \in Outputs
        BY <2>1, <2>2 DEF RunInv, Outs, Runs
      <3>2. ASSUME NEW o \in Outs(p)
            PROVE  /\ o.file \in Sources /\ o.content <= tree'[o.file]
                   /\ o.file \notin run'[p].moved => o.content = tree'[o.file]
                   /\ o.file \notin run[p].todo
        <4>1. o.file \in Sources /\ o.content <= tree[o.file] /\ o.content \in Nat
          BY <3>1, SoleNumbers DEF OutputInv
        <4>2. o.content <= tree'[o.file]
          BY <1>3, <4>1, SoleNumbers
        <4>3. o.file # f => tree'[o.file] = tree[o.file]
          BY <1>1, <4>1, SoleNumbers
        <4> QED
          BY <2>3, <3>1, <4>1, <4>2, <4>3 DEF OutputInv
      <3> QED
        BY <1>2, <2>3, <2>4, <3>1, <3>2 DEF OutputInv
    <2>7. ProgressInv(p)'
      <3>1. ProgressInv(p)
        BY <2>2 DEF RunInv
      <3>2. ASSUME NEW g \in Sources \ run'[p].moved, g \in Pending(p) \/ hashes[g] = tree[g]
            PROVE  g \in Pending(p) \/ hashes[g] = tree'[g]
        BY <1>1, <2>3, <3>2, SoleNumbers
      <3>3. run[p].todo \cup {o.file : o \in run[p].parsed} \subseteq Sources
        BY <2>2 DEF RunInv, ActiveInv, OutputInv, Outs
      <3>4. \A g \in run[p].todo \cup {o.file : o \in run[p].parsed} :
              hashes[g] # tree[g] => hashes[g] # tree'[g]
        BY <1>10, <3>3
      <3>5. ModeInv(p) => ModeInv(p)'
        BY <1>2, <1>9, <1>10, <1>11, <2>3, <2>4, <3>4, SoleNumbers DEF ModeInv
      <3>6. \A g \in Sources \ run'[p].moved : g \in Sources \ run[p].moved
        BY <2>3
      <3> QED
        BY <1>2, <1>11, <2>3, <2>4, <3>1, <3>2, <3>4, <3>5, <3>6 DEF ProgressInv
    <2> QED
      BY <2>5, <2>6, <2>7
  <1> QED
    BY <1>4, <1>8, <1>9, <1>11, <1>12 DEF RunInv

\* A commit takes HEAD to the tree as it is.
LEMMA SoleCommit ==
  ASSUME OnlyEdits, TypeOK, SoleInv, Commit
  PROVE  SoleInv'
  <1> USE DEF SoleInv
  <1>1. /\ head' = [id |-> head.id + 1, tree |-> tree] /\ tree # head.tree /\ lost' = lost
        /\ UNCHANGED <<tree, latest, newer, meta, graph, hashes, run>>
    BY DEF Commit, OnlyEdits, diskVars
  <1>2. PICK f \in Sources : tree[f] # head.tree[f]
    <2>1. tree \in Tree /\ head.tree \in Tree
      BY DEF TypeOK, Commits
    <2>2. PICK f \in Files : tree[f] # head.tree[f]
      BY <1>1, <2>1 DEF Tree
    <2> QED
      BY <2>2 DEF TreeInv
  <1>3. \A c \in Commits : Before(c) => Before(c)'
    <2> SUFFICES ASSUME NEW c \in Commits, Before(c)
                 PROVE  Before(c)'
      OBVIOUS
    <2>1. \A g \in Sources : /\ c.tree[g] \in Nat /\ head.tree[g] \in Nat /\ tree[g] \in Nat
                             /\ c.tree[g] <= head.tree[g] /\ head.tree[g] <= tree[g]
      BY SoleNumbers DEF Before, TreeInv
    <2>2. c.tree[f] # tree[f]
      BY <1>2, <2>1
    <2> QED
      BY <1>1, <1>2, <2>1, <2>2 DEF Before, Sources, Present
  <1>4. TreeInv'
    BY <1>1, SoleNumbers DEF TreeInv, Sources, Present
  <1>5. MetaInv'
    <2>1. meta # NoMeta => Before(meta.commit)'
      BY <1>1, <1>3 DEF MetaInv, TypeOK, Metas
    <2> QED
      BY <1>1, <2>1 DEF MetaInv, Behind, Sources, Present
  <1>6. FullOwed' <=> FullOwed
    BY <1>1 DEF FullOwed, Behind, Sources, Present
  <1>7. (Trusted' <=> Trusted) /\ \A g \in Files : Settled(g)' <=> Settled(g)
    BY <1>1 DEF Trusted, Settled, Sources, Present
  <1>8. ASSUME NEW p \in Procs
        PROVE  RunInv(p)'
    <2>1. /\ UNCHANGED <<Active(p), Outs(p), Pending(p), Sources, Behind, run[p]>>
          /\ run[p].cur \in Commits
      BY <1>1 DEF Active, Outs, Pending, Sources, Present, Behind, TypeOK
    <2>2. ActiveInv(p) => ActiveInv(p)'
      <3>1. Before(run[p].cur) => Before(run[p].cur)'
        BY <1>3, <2>1
      <3> QED
        BY <1>1, <2>1, <3>1 DEF ActiveInv
    <2>3. OutputInv(p) => OutputInv(p)'
      BY <1>1, <2>1 DEF OutputInv
    <2>4. ProgressInv(p) => ProgressInv(p)'
      BY <1>1, <1>6, <1>7, <2>1, SoleNumbers DEF ProgressInv, ModeInv
    <2> QED
      BY <2>1, <2>2, <2>3, <2>4 DEF RunInv
  <1> QED
    BY <1>4, <1>5, <1>6, <1>7, <1>8

\* A step that leaves tree, git, meta, graph and hashes leaves what is said of
\* them.
LEMMA SoleDisk ==
  ASSUME UNCHANGED <<tree, latest, head, lost, newer, meta, graph, hashes>>
  PROVE  /\ Sources' = Sources /\ Behind' = Behind
         /\ TreeInv' <=> TreeInv
         /\ MetaInv' <=> MetaInv
         /\ FullOwed' <=> FullOwed
         /\ Trusted' <=> Trusted
         /\ \A c : Before(c)' <=> Before(c)
         /\ \A f : Settled(f)' <=> Settled(f)
  <1>1. Sources' = Sources
    BY DEF Sources, Present
  <1>2. Behind' = Behind
    BY <1>1 DEF Behind
  <1>3. \A c : Before(c)' <=> Before(c)
    BY <1>1 DEF Before
  <1>4. \A f : Settled(f)' <=> Settled(f)
    BY DEF Settled
  <1>5. TreeInv' <=> TreeInv
    BY <1>1 DEF TreeInv
  <1>6. FullOwed' <=> FullOwed
    BY <1>1, <1>2 DEF FullOwed
  <1>7. Trusted' <=> Trusted
    BY <1>1, <1>4 DEF Trusted
  <1>8. MetaInv' <=> MetaInv
    BY <1>1, <1>2, <1>3 DEF MetaInv
  <1> QED
    BY <1>1, <1>2, <1>3, <1>4, <1>5, <1>6, <1>7, <1>8

\* What differs from the commit in meta is what a run would parse, and a run
\* that finds nothing parses everything.
LEMMA SoleIncremental ==
  ASSUME TypeOK, SoleInv, NEW p \in Procs, run[p].pc = "decide"
  PROVE  /\ Incremental(p) = {} => FullOwed
         /\ Incremental(p) # {} => ~FullOwed /\ Incremental(p) = Behind
  <1>1. /\ ~run[p].force /\ run[p].prev = meta /\ run[p].all = Sources
        /\ meta # NoMeta => Behind # {} \/ Sources = {}
    BY DEF SoleInv, RunInv, Active, ActiveInv
  <1>2. ASSUME meta # NoMeta
        PROVE  ChangedSince(meta.commit) \cap Sources = Behind
    <2>1. meta.commit.id \notin lost
      BY DEF SoleInv, TreeInv
    <2>2. Present(head.tree) = Sources /\ Present(meta.commit.tree) = Sources
      BY <1>2, SoleNumbers DEF SoleInv, TreeInv, MetaInv, Before, Present
    <2> QED
      BY <2>1, <2>2 DEF ChangedSince, Behind
  <1>3. ~VersionMismatch(p, meta)
    BY DEF VersionMismatch, SoleInv, MetaInv
  <1>4. Sources = {} => Cardinality(Behind) = 0 /\ Cardinality(Sources) = 0
    <2>1. Sources = {} => Behind = {}
      BY DEF Behind
    <2> QED
      BY <2>1, FS_EmptySet
  <1>5. meta = NoMeta => Incremental(p) = {}
    BY <1>1 DEF Incremental
  <1>6. meta # NoMeta => Incremental(p) = IF 2 * Cardinality(Behind) >= Cardinality(Sources)
                                          THEN {} ELSE Behind
    BY <1>1, <1>2, <1>3 DEF Incremental
  <1> QED
    BY <1>1, <1>4, <1>5, <1>6 DEF FullOwed

\* The count in meta does not contradict a graph that holds every file.
LEMMA SettledCounts ==
  ASSUME TypeOK, SoleInv, meta # NoMeta,
         \A f \in Sources : hashes[f] = tree[f] /\ Settled(f)
  PROVE  ~CountsDiverge(meta)
  <1>1. ASSUME NEW f \in Sources
        PROVE  graph[f] # Absent
    <2>1. PICK q \in Procs : graph[f] = [content |-> hashes[f], ver |-> BinVer[q]]
      BY DEF Settled
    <2>2. hashes[f] \in Content
      BY SoleNumbers DEF TypeOK, Tree
    <2> QED
      BY <2>1, <2>2, IndexerAssumption DEF Versions
  <1>2. Indexed = Sources
    BY <1>1, SoleNumbers DEF Indexed, SoleInv, TreeInv
  <1>3. meta.count \in Nat /\ meta.count <= Cardinality(Sources)
    BY DEF SoleInv, MetaInv, TypeOK, Metas
  <1>4. meta.count \div 2 <= meta.count
    BY <1>3
  <1> QED
    BY <1>2, <1>3, <1>4, SoleNumbers DEF CountsDiverge

\* Run does not return early only when there is something to do.
LEMMA StartHasWork ==
  ASSUME TypeOK, SoleInv, NEW p \in Procs, ~SkipWork(p, FALSE), meta # NoMeta
  PROVE  Behind # {} \/ Sources = {}
  <1> SUFFICES ASSUME Behind = {}, Sources # {}
               PROVE  FALSE
    OBVIOUS
  <1> USE DEF SoleInv
  <1>1. MetaInv /\ Before(meta.commit) /\ newer = {}
        /\ \A f \in Sources : tree[f] = meta.commit.tree[f] /\ hashes[f] = tree[f]
    BY DEF MetaInv, Behind
  <1>2. meta.commit.id = head.id
    <2> SUFFICES ASSUME meta.commit.id # head.id
                 PROVE  FALSE
      OBVIOUS
    <2>1. PICK f \in Sources : meta.commit.tree[f] # head.tree[f]
      BY <1>1 DEF Before
    <2>2. /\ meta.commit.tree[f] \in Nat /\ head.tree[f] \in Nat /\ tree[f] \in Nat
          /\ meta.commit.tree[f] <= head.tree[f] /\ head.tree[f] <= tree[f]
          /\ tree[f] = meta.commit.tree[f]
      BY <1>1, <2>1, SoleNumbers DEF Before, TreeInv, TypeOK, Metas
    <2> QED
      BY <2>1, <2>2
  <1>3. ~VersionMismatch(p, meta) /\ ~WorkingTreeChanged
    BY <1>1 DEF VersionMismatch, WorkingTreeChanged, MetaInv
  <1>4. ~CountsDiverge(meta)
    <2>1. Cardinality(Behind) = 0 /\ Cardinality(Sources) # 0
      BY SoleNumbers, FS_EmptySet
    <2>2. ~FullOwed
      BY <2>1, SoleNumbers DEF FullOwed
    <2> QED
      BY <1>1, <2>2, SettledCounts DEF Trusted
  <1> QED
    BY <1>2, <1>3, <1>4 DEF SkipWork

\* What a run that is alone must keep.
LEMMA SoleSuffices ==
  ASSUME Alone, NEW p \in Procs,
         TreeInv', MetaInv', FullOwed' \/ Trusted', RunInv(p)'
  PROVE  SoleInv'
  BY DEF SoleInv, Alone, RunInv, Active, ActiveInv, OutputInv, ProgressInv,
         ModeInv, Outs, Pending

\* A run that ends without a word leaves the disk as it is.
LEMMA SoleGone ==
  ASSUME Alone, TypeOK, SoleInv, NEW p \in Procs, run' = [run EXCEPT ![p] = Idle],
         UNCHANGED <<tree, latest, head, lost, newer, meta, graph, hashes>>
  PROVE  SoleInv'
  <1>1. ~Active(p)'
    BY DEF TypeOK, Active, Idle
  <1>2. RunInv(p)'
    BY <1>1 DEF RunInv
  <1> QED
    BY <1>2, SoleDisk, SoleSuffices DEF SoleInv

\* A run begins with something to do.
LEMMA SoleStart ==
  ASSUME Alone, OnlyEdits, TypeOK, SoleInv, NEW p \in Procs,
         Start(p, FALSE) \/ Start(p, TRUE)
  PROVE  SoleInv'
  <1>1. Start(p, FALSE)
    BY DEF Start, OnlyEdits
  <1>2. /\ run'[p] = [Idle EXCEPT !.pc = "walk", !.force = FALSE, !.cur = head, !.prev = meta]
        /\ ~SkipWork(p, FALSE)
        /\ UNCHANGED <<tree, latest, head, lost, newer, meta, graph, hashes>>
    BY <1>1 DEF Start, gitVars, diskVars, TypeOK
  <1>3. /\ run'[p].pc = "walk" /\ ~run'[p].force /\ run'[p].cur = head /\ run'[p].prev = meta
        /\ run'[p].todo = {} /\ run'[p].parsed = {} /\ run'[p].record = {} /\ run'[p].moved = {}
    BY <1>2 DEF Idle
  <1>4. Before(head)
    BY SoleNumbers DEF Before, SoleInv, TreeInv
  <1>5. meta # NoMeta => /\ \A f \in Sources : meta.commit.tree[f] <= head.tree[f]
                         /\ Behind # {} \/ Sources = {}
    BY <1>2, StartHasWork DEF SoleInv, MetaInv, Before
  <1>6. ActiveInv(p)'
    BY <1>2, <1>3, <1>4, <1>5, SoleDisk DEF ActiveInv
  <1>7. OutputInv(p)'
    BY <1>3 DEF OutputInv, Outs
  <1>8. ProgressInv(p)'
    BY <1>3 DEF ProgressInv
  <1>9. RunInv(p)'
    BY <1>6, <1>7, <1>8 DEF RunInv
  <1> QED
    BY <1>2, <1>9, SoleDisk, SoleSuffices DEF SoleInv

\* What Start sets for good.
Kept(p) == UNCHANGED <<run[p].force, run[p].cur, run[p].prev, run[p].moved>>

\* The walk finds every file there is.
LEMMA SoleWalk ==
  ASSUME Alone, TypeOK, SoleInv, NEW p \in Procs, Walk(p) \/ OpenStores(p)
  PROVE  SoleInv'
  <1>1. UNCHANGED <<tree, latest, head, lost, newer, meta, graph, hashes>>
    BY DEF Walk, OpenStores, gitVars, diskVars
  <1>2. CASE run' = [run EXCEPT ![p] = Idle]
    BY <1>1, <1>2, SoleGone
  <1>3. CASE run' # [run EXCEPT ![p] = Idle]
    <2>1. /\ run[p].pc \in {"walk", "open"} /\ run'[p].pc \in {"open", "decide"}
          /\ run'[p].all = Sources
          /\ Kept(p) /\ UNCHANGED <<run[p].todo, run[p].parsed, run[p].record>>
      <3>1. run[p] \in Runs
        BY DEF TypeOK, Runs, PCs
      <3>2. CASE Walk(p)
        BY <3>1, <3>2, SoleNumbers DEF Walk, Runs, Kept, TypeOK
      <3>3. CASE OpenStores(p)
        <4>1. run[p].pc = "open" /\ run' = [run EXCEPT ![p].pc = "decide"]
          BY <1>3, <3>3 DEF OpenStores
        <4>2. run[p].all = Sources
          BY <4>1 DEF SoleInv, RunInv, Active, ActiveInv
        <4> QED
          BY <3>1, <4>1, <4>2 DEF Runs, Kept, TypeOK
      <3> QED
        BY <3>2, <3>3
    <2>2. ActiveInv(p) /\ OutputInv(p)
      BY <2>1 DEF SoleInv, RunInv, Active
    <2>3. ActiveInv(p)' /\ OutputInv(p)' /\ ProgressInv(p)'
      BY <1>1, <2>1, <2>2, SoleDisk DEF ActiveInv, OutputInv, Outs, ProgressInv, Kept
    <2>4. RunInv(p)'
      BY <2>3 DEF RunInv
    <2> QED
      BY <1>1, <2>4, SoleDisk, SoleSuffices DEF SoleInv
  <1> QED
    BY <1>2, <1>3

\* A full run has every file to parse, and may do so because one is owed.
LEMMA SoleFull ==
  ASSUME Alone, TypeOK, SoleInv, NEW p \in Procs, DecideFull(p)
  PROVE  SoleInv'
  <1>1. /\ run[p].pc = "decide" /\ Incremental(p) = {} /\ FullOwed
        /\ UNCHANGED <<tree, latest, head, lost, newer, meta, hashes>>
        /\ \A f \in Files : graph'[f] = Absent
    BY SoleIncremental DEF DecideFull, gitVars
  <1>2. ActiveInv(p) /\ OutputInv(p)
    BY <1>1 DEF SoleInv, RunInv, Active
  <1>3. /\ run'[p].pc = "parse" /\ run'[p].todo = Sources /\ run'[p].all = Sources
        /\ Kept(p) /\ run'[p].parsed = {} /\ run'[p].record = {}
    <2>1. run[p] \in Runs /\ run[p].all = Sources /\ run[p].parsed = {} /\ run[p].record = {}
      BY <1>1, <1>2 DEF TypeOK, Runs, PCs, ActiveInv, OutputInv
    <2> QED
      BY <2>1 DEF DecideFull, Kept, Runs, TypeOK
  <1>4. Sources' = Sources /\ Behind' = Behind /\ \A c : Before(c)' <=> Before(c)
    BY <1>1 DEF Sources, Present, Behind, Before
  <1>5. TreeInv'
    BY <1>1, <1>4 DEF SoleInv, TreeInv
  <1>6. MetaInv'
    BY <1>1, <1>4 DEF SoleInv, MetaInv
  <1>7. FullOwed'
    BY <1>1, <1>4 DEF FullOwed
  <1>8. ActiveInv(p)' /\ OutputInv(p)'
    BY <1>1, <1>2, <1>3, <1>4 DEF ActiveInv, OutputInv, Outs, Kept
  <1>9. ProgressInv(p)'
    BY <1>3, <1>4, <1>7 DEF ProgressInv, ModeInv, Pending, Outs
  <1>10. RunInv(p)'
    BY <1>8, <1>9 DEF RunInv
  <1> QED
    BY <1>5, <1>6, <1>7, <1>10, SoleSuffices

\* An incremental run may trust the hashes, and leaves out only files that are
\* as in meta's commit.
LEMMA SoleIncrementalRun ==
  ASSUME Alone, TypeOK, SoleInv, NEW p \in Procs, DecideIncremental(p)
  PROVE  SoleInv'
  <1>1. /\ run[p].pc = "decide" /\ ~FullOwed /\ Incremental(p) = Behind
        /\ UNCHANGED <<tree, latest, head, lost, newer, meta, graph, hashes>>
    BY SoleIncremental DEF DecideIncremental, gitVars, diskVars
  <1>2. ActiveInv(p) /\ OutputInv(p)
    BY <1>1 DEF SoleInv, RunInv, Active
  <1>3. /\ run'[p].pc = "hash" /\ run'[p].all = Sources
        /\ run'[p].todo \subseteq Sources /\ Behind \subseteq run'[p].todo
        /\ Kept(p) /\ run'[p].parsed = {} /\ run'[p].record = {}
    <2>1. run[p] \in Runs /\ run[p].all = Sources /\ run[p].parsed = {} /\ run[p].record = {}
      BY <1>1, <1>2 DEF TypeOK, Runs, PCs, ActiveInv, OutputInv
    <2>2. Behind \subseteq Expand(Incremental(p)) \cap run[p].all
      BY <1>1, <2>1 DEF Expand, Behind
    <2> QED
      BY <2>1, <2>2 DEF DecideIncremental, Kept, Runs, TypeOK
  <1>4. Trusted
    BY <1>1 DEF SoleInv
  <1>5. ActiveInv(p)' /\ OutputInv(p)'
    BY <1>1, <1>2, <1>3, SoleDisk DEF ActiveInv, OutputInv, Outs, Kept
  <1>6. ProgressInv(p)'
    <2>1. meta # NoMeta /\ \A f \in Sources \ Behind : hashes[f] = tree[f]
      BY <1>1 DEF FullOwed, SoleInv, MetaInv
    <2> QED
      BY <1>1, <1>3, <1>4, <2>1, SoleDisk DEF ProgressInv, Pending, Outs
  <1>7. RunInv(p)'
    BY <1>5, <1>6 DEF RunInv
  <1> QED
    BY <1>1, <1>7, SoleDisk, SoleSuffices DEF SoleInv

\* A run that completes with trustworthy hashes, and that of every file it did
\* not see change, may vouch for the commit it started from.
LEMMA SoleWriteMeta ==
  ASSUME Alone, TypeOK, SoleInv, NEW p \in Procs, Active(p), WriteMeta(p), Trusted,
         \A f \in Sources \ run[p].moved : hashes[f] = tree[f],
         UNCHANGED <<tree, latest, head, lost, graph, hashes>>
  PROVE  SoleInv'
  <1>1. /\ meta' = [commit |-> run[p].cur, count |-> Cardinality(Indexed), ver |-> BinVer[p]]
        /\ newer' = {} /\ run' = [run EXCEPT ![p] = Idle]
    BY DEF WriteMeta
  <1>2. Before(run[p].cur) /\ run[p].cur \in Commits
        /\ \A f \in run[p].moved : f \in Sources /\ run[p].cur.tree[f] < tree[f]
    BY DEF SoleInv, RunInv, ActiveInv, TypeOK
  <1>3. Sources' = Sources
    BY DEF Sources, Present
  <1>4. TreeInv'
    BY <1>3 DEF SoleInv, TreeInv
  <1>5. Trusted'
    BY <1>3 DEF Trusted, Settled
  <1>6. MetaInv'
    <2>1. meta'.commit = run[p].cur /\ meta'.ver = BinVer[p]
          /\ meta'.count = Cardinality(Indexed)
      BY <1>1
    <2>2. Before(meta.commit)'
      BY <1>2, <1>3, <2>1 DEF Before
    <2>3. Cardinality(Indexed) <= Cardinality(Sources)
      <3>1. Indexed \subseteq Sources
        BY DEF Indexed, SoleInv, TreeInv
      <3> QED
        BY <3>1, SoleNumbers, FS_Subset
    <2>4. \A q \in Procs : meta'.ver = BinVer[q]
      BY <2>1 DEF Alone
    <2>5. ASSUME NEW f \in Sources, f \notin Behind'
          PROVE  hashes[f] = tree[f]
      <3>1. tree[f] = run[p].cur.tree[f] /\ tree[f] \in Nat
        BY <1>3, <2>1, <2>5, SoleNumbers DEF Behind
      <3> QED
        BY <1>2, <3>1
    <2> QED
      BY <1>1, <1>3, <2>1, <2>2, <2>3, <2>4, <2>5 DEF MetaInv
  <1>7. RunInv(p)'
    BY <1>1 DEF RunInv, Active, Idle, TypeOK
  <1> QED
    BY <1>4, <1>5, <1>6, <1>7, SoleSuffices

\* The incremental run drops the files whose hash is theirs, and has done all
\* there was to do when nothing is left.
LEMMA SoleCompare ==
  ASSUME Alone, TypeOK, SoleInv, NEW p \in Procs, CompareHashes(p)
  PROVE  SoleInv'
  <1> DEFINE toReparse == {f \in run[p].todo : ~Unchanged(f)}
  <1>1. /\ run[p].pc = "hash" /\ Active(p) /\ run[p] \in Runs
        /\ UNCHANGED <<tree, latest, head, lost, graph, hashes>>
    BY DEF CompareHashes, gitVars, Active, TypeOK, Runs, PCs
  <1>2. ActiveInv(p) /\ OutputInv(p) /\ ProgressInv(p)
    BY <1>1 DEF SoleInv, RunInv
  <1>3. /\ run[p].parsed = {} /\ run[p].record = {} /\ Pending(p) = run[p].todo
        /\ run[p].todo \subseteq Sources /\ Trusted
    BY <1>1, <1>2 DEF OutputInv, ActiveInv, ProgressInv, Pending, Outs
  <1>4. \A f \in Sources \ run[p].moved : f \in toReparse \/ hashes[f] = tree[f]
    BY <1>1, <1>2, <1>3 DEF ProgressInv, Unchanged
  <1>5. CASE toReparse = {}
    <2>1. WriteMeta(p)
      BY <1>5 DEF CompareHashes
    <2> QED
      BY <1>1, <1>3, <1>4, <1>5, <2>1, SoleWriteMeta
  <1>6. CASE toReparse # {}
    <2>1. /\ run' = [run EXCEPT ![p].pc = "remove", ![p].todo = toReparse,
                                ![p].left = toReparse]
          /\ UNCHANGED <<meta, newer>>
      BY <1>6 DEF CompareHashes
    <2>2. /\ run'[p].pc = "remove" /\ run'[p].todo = toReparse /\ run'[p].left = toReparse
          /\ UNCHANGED <<run[p].all, run[p].parsed, run[p].record>> /\ Kept(p)
      BY <1>1, <2>1 DEF Runs, Kept, TypeOK
    <2> HIDE DEF toReparse
    <2>3. ActiveInv(p)' /\ OutputInv(p)'
      <3>1. toReparse \subseteq run[p].todo
        BY DEF toReparse
      <3> QED
        BY <1>1, <1>2, <1>3, <2>1, <2>2, <3>1, SoleDisk
           DEF ActiveInv, OutputInv, Outs, Kept
    <2>4. \A f \in toReparse : hashes[f] # tree[f]
      BY <1>3, SoleNumbers DEF toReparse, Unchanged
    <2>5. ProgressInv(p)'
      BY <1>1, <1>3, <1>4, <2>1, <2>2, <2>4, SoleDisk DEF ProgressInv, Pending, Outs, Kept
    <2>6. RunInv(p)'
      BY <2>3, <2>5 DEF RunInv
    <2> QED
      BY <1>1, <2>1, <2>6, SoleDisk, SoleSuffices DEF SoleInv
  <1> QED
    BY <1>5, <1>6

\* Only files whose hash is not theirs lose their symbols.
LEMMA SoleRemove ==
  ASSUME Alone, TypeOK, SoleInv, NEW p \in Procs, RemoveSymbols(p)
  PROVE  SoleInv'
  <1>1. /\ run[p].pc = "remove" /\ Active(p) /\ run[p] \in Runs
        /\ UNCHANGED <<tree, latest, head, lost, newer, meta, hashes>>
    BY DEF RemoveSymbols, gitVars, Active, TypeOK, Runs, PCs
  <1>2. ActiveInv(p) /\ OutputInv(p) /\ ProgressInv(p)
    BY <1>1 DEF SoleInv, RunInv
  <1>3. /\ run[p].parsed = {} /\ run[p].record = {} /\ run[p].left \subseteq run[p].todo
        /\ \A f \in run[p].todo : hashes[f] # tree[f]
        /\ Trusted
    BY <1>1, <1>2 DEF OutputInv, ProgressInv
  <1>4. Sources' = Sources /\ Behind' = Behind /\ \A c : Before(c)' <=> Before(c)
    BY <1>1 DEF Sources, Present, Behind, Before
  <1>5. /\ run'[p].pc \in {"remove", "parse"} /\ run'[p].left \subseteq run[p].left
        /\ Kept(p) /\ UNCHANGED <<run[p].all, run[p].todo, run[p].parsed, run[p].record>>
        /\ \A f \in Files : graph'[f] = graph[f] \/ (f \in run[p].left /\ graph'[f] = Absent)
    <2>1. CASE run[p].left = {}
      <3>1. run' = [run EXCEPT ![p].pc = "parse"] /\ graph' = graph
        BY <2>1 DEF RemoveSymbols
      <3> QED
        BY <1>1, <3>1 DEF Runs, Kept, TypeOK
    <2>2. CASE run[p].left # {}
      <3>1. PICK f \in run[p].left : /\ graph' = [graph EXCEPT ![f] = Absent]
                                     /\ run' = [run EXCEPT ![p].left = @ \ {f}]
        BY <2>2 DEF RemoveSymbols
      <3>2. f \in Files
        BY <1>1 DEF Runs
      <3> QED
        BY <1>1, <3>1, <3>2 DEF Runs, Kept, TypeOK
    <2> QED
      BY <2>1, <2>2
  <1>6. TreeInv'
    BY <1>1, <1>4, <1>5 DEF SoleInv, TreeInv
  <1>7. MetaInv'
    BY <1>1, <1>4 DEF SoleInv, MetaInv
  <1>8. Trusted'
    <2>1. ASSUME NEW f \in Sources, hashes[f] = tree[f]
          PROVE  graph'[f] = graph[f] /\ Settled(f)
      BY <1>3, <1>5, <2>1, SoleNumbers DEF Trusted
    <2> QED
      BY <1>1, <1>4, <2>1 DEF Trusted, Settled
  <1>9. ActiveInv(p)' /\ OutputInv(p)'
    BY <1>1, <1>2, <1>3, <1>4, <1>5 DEF ActiveInv, OutputInv, Outs, Kept
  <1>10. ProgressInv(p)'
    <2>1. Pending(p)' = Pending(p)
      BY <1>5 DEF Pending, Outs
    <2> QED
      BY <1>1, <1>2, <1>3, <1>4, <1>5, <1>8, <2>1 DEF ProgressInv, ModeInv, Kept
  <1>11. RunInv(p)'
    BY <1>9, <1>10 DEF RunInv
  <1> QED
    BY <1>6, <1>7, <1>8, <1>11, SoleSuffices

\* What is read is the file's content, and stays to be written.
LEMMA SoleParse ==
  ASSUME Alone, TypeOK, SoleInv, NEW p \in Procs, ParseFile(p)
  PROVE  SoleInv'
  <1>1. /\ run[p].pc = "parse" /\ Active(p) /\ run[p] \in Runs
        /\ UNCHANGED <<tree, latest, head, lost, newer, meta, graph, hashes>>
    BY DEF ParseFile, gitVars, diskVars, Active, TypeOK, Runs, PCs
  <1>2. ActiveInv(p) /\ OutputInv(p) /\ ProgressInv(p)
    BY <1>1 DEF SoleInv, RunInv
  <1>3. PICK f \in run[p].todo :
          run' = [run EXCEPT ![p].todo = @ \ {f},
                             ![p].parsed = IF tree[f] = Absent THEN @
                                           ELSE @ \cup {[file |-> f, content |-> tree[f]]}]
    BY DEF ParseFile
  <1> DEFINE o == [file |-> f, content |-> tree[f]]
  <1>4. f \in Sources /\ tree[f] # Absent /\ tree[f] \in Nat
    BY <1>2, SoleNumbers DEF ActiveInv
  <1>5. /\ run'[p].pc = "parse" /\ run'[p].todo = run[p].todo \ {f}
        /\ run'[p].parsed = run[p].parsed \cup {o}
        /\ run'[p].record = {} /\ run[p].record = {}
        /\ Kept(p) /\ UNCHANGED run[p].all
    BY <1>1, <1>2, <1>3, <1>4 DEF Runs, Kept, TypeOK, OutputInv
  <1>6. o.file = f /\ o.content = tree[f]
    OBVIOUS
  <1> HIDE DEF o
  <1>7. /\ Outs(p) = run[p].parsed /\ Outs(p)' = run[p].parsed \cup {o}
        /\ Pending(p)' = Pending(p)
        /\ run'[p].todo \cup {r.file : r \in run'[p].parsed}
             = run[p].todo \cup {r.file : r \in run[p].parsed}
    BY <1>5, <1>6 DEF Outs, Pending
  <1>8. ActiveInv(p)'
    BY <1>1, <1>2, <1>5, SoleDisk DEF ActiveInv, Kept
  <1>9. OutputInv(p)'
    <2>1. \A r \in run[p].parsed : r.file # f
      BY <1>2, <1>7 DEF OutputInv
    <2>2. \A r, s \in run'[p].parsed : r.file = s.file => r = s
      BY <1>2, <1>5, <1>6, <2>1 DEF OutputInv
    <2>3. \A r \in Outs(p)' : /\ r.file \in Sources /\ r.content <= tree[r.file]
                              /\ r.file \notin run'[p].moved => r.content = tree[r.file]
                              /\ r.file \notin run'[p].todo
      BY <1>2, <1>4, <1>5, <1>6, <1>7 DEF OutputInv, Kept
    <2> QED
      BY <1>1, <1>5, <2>2, <2>3, SoleDisk DEF OutputInv
  <1>10. ProgressInv(p)'
    BY <1>1, <1>2, <1>5, <1>7, SoleDisk, SoleNumbers DEF ProgressInv, ModeInv, Kept
  <1>11. RunInv(p)'
    BY <1>8, <1>9, <1>10 DEF RunInv
  <1> QED
    BY <1>1, <1>11, SoleDisk, SoleSuffices DEF SoleInv

\* A batch in the graph holds what was parsed; its hashes are still to come.
LEMMA SoleFlush ==
  ASSUME Alone, TypeOK, SoleInv, NEW p \in Procs, FlushBatch(p)
  PROVE  SoleInv'
  <1>1. /\ run[p].pc = "parse" /\ Active(p) /\ run[p] \in Runs
        /\ UNCHANGED <<tree, latest, head, lost, newer, meta, hashes>>
    BY DEF FlushBatch, gitVars, Active, TypeOK, Runs, PCs
  <1>2. ActiveInv(p) /\ OutputInv(p) /\ ProgressInv(p) /\ ModeInv(p)
    BY <1>1 DEF SoleInv, RunInv, ProgressInv
  <1>3. /\ run'[p].pc = "record" /\ run'[p].record = run[p].parsed /\ run'[p].parsed = {}
        /\ run[p].record = {}
        /\ Kept(p) /\ UNCHANGED <<run[p].all, run[p].todo>>
    BY <1>1, <1>2 DEF FlushBatch, Runs, Kept, TypeOK, OutputInv
  <1>4. Outs(p)' = Outs(p) /\ Outs(p) = run[p].parsed /\ Pending(p)' = Pending(p)
    BY <1>3 DEF Outs, Pending
  <1>5. /\ \A o \in run[p].parsed : graph'[o.file] = [content |-> o.content, ver |-> BinVer[p]]
        /\ \A f \in Files : (\A o \in run[p].parsed : o.file # f) => graph'[f] = graph[f]
    <2>1. graph' = [f \in Files |->
                     IF \E o \in run[p].parsed : o.file = f
                     THEN [content |-> (CHOOSE o \in run[p].parsed : o.file = f).content,
                           ver |-> BinVer[p]]
                     ELSE graph[f]]
      BY DEF FlushBatch
    <2>2. ASSUME NEW o \in run[p].parsed
          PROVE  /\ o.file \in Files
                 /\ (CHOOSE r \in run[p].parsed : r.file = o.file) = o
      <3>1. o.file \in Files
        BY <1>1 DEF Runs, Outputs
      <3>2. \A r \in run[p].parsed : r.file = o.file => r = o
        BY <1>2 DEF OutputInv
      <3> QED
        BY <3>1, <3>2
    <2> QED
      BY <2>1, <2>2
  <1>6. Sources' = Sources /\ Behind' = Behind /\ \A c : Before(c)' <=> Before(c)
    BY <1>1 DEF Sources, Present, Behind, Before
  <1>7. \A o \in run[p].parsed : o.file \in Sources
    BY <1>2, <1>4 DEF OutputInv
  <1>8. TreeInv'
    BY <1>1, <1>5, <1>6, <1>7 DEF SoleInv, TreeInv
  <1>9. MetaInv'
    BY <1>1, <1>6 DEF SoleInv, MetaInv
  <1>10. ModeInv(p)'
    <2>1. \A f \in Sources : (\A o \in run[p].parsed : o.file # f) /\ Settled(f) => Settled(f)'
      BY <1>1, <1>5, SoleNumbers DEF Settled
    <2>2. CASE FullOwed /\ \A f \in Sources : f \in Pending(p) \/ Settled(f)
      <3>1. FullOwed'
        BY <1>1, <1>6, <2>2 DEF FullOwed
      <3>2. \A f \in Sources : f \in Pending(p) \/ Settled(f)'
        BY <1>4, <2>1, <2>2 DEF Pending
      <3> QED
        BY <1>4, <1>6, <3>1, <3>2 DEF ModeInv
    <2>3. CASE Trusted /\ \A f \in run[p].todo \cup {o.file : o \in run[p].parsed} :
                            hashes[f] # tree[f]
      <3>1. Trusted'
        BY <1>1, <1>6, <2>1, <2>3 DEF Trusted
      <3> QED
        BY <1>1, <1>3, <2>3, <3>1 DEF ModeInv
    <2> QED
      BY <1>2, <2>2, <2>3 DEF ModeInv
  <1>11. ActiveInv(p)' /\ OutputInv(p)'
    <2>1. ActiveInv(p)'
      BY <1>1, <1>2, <1>3, <1>6 DEF ActiveInv, Kept
    <2>2. OutputInv(p)'
      BY <1>1, <1>2, <1>3, <1>4, <1>5, <1>6 DEF OutputInv, Kept
    <2> QED
      BY <2>1, <2>2
  <1>12. ProgressInv(p)'
    BY <1>1, <1>2, <1>3, <1>4, <1>6, <1>10 DEF ProgressInv, Kept
  <1>13. RunInv(p)'
    BY <1>11, <1>12 DEF RunInv
  <1>14. FullOwed' \/ Trusted'
    BY <1>10 DEF ModeInv
  <1> QED
    BY <1>8, <1>9, <1>13, <1>14, SoleSuffices

\* A hash is recorded for what the graph holds.
LEMMA SoleRecord ==
  ASSUME Alone, TypeOK, SoleInv, NEW p \in Procs, RecordHash(p)
  PROVE  SoleInv'
  <1>1. /\ run[p].pc = "record" /\ Active(p) /\ run[p] \in Runs
        /\ UNCHANGED <<tree, latest, head, lost, newer, meta, graph>>
    BY DEF RecordHash, gitVars, Active, TypeOK, Runs, PCs
  <1>2. ActiveInv(p) /\ OutputInv(p) /\ ProgressInv(p) /\ ModeInv(p) /\ run[p].parsed = {}
    BY <1>1 DEF SoleInv, RunInv, ProgressInv, OutputInv
  <1>3. CASE run[p].record = {}
    <2>1. /\ run' = [run EXCEPT ![p].pc = IF run[p].todo = {} THEN "finish" ELSE "parse"]
          /\ hashes' = hashes
      BY <1>3 DEF RecordHash
    <2>2. /\ run'[p].pc \in {"finish", "parse"} /\ (run'[p].pc = "finish" => run[p].todo = {})
          /\ Kept(p)
          /\ UNCHANGED <<run[p].all, run[p].todo, run[p].parsed, run[p].record>>
      BY <1>1, <2>1 DEF Runs, Kept, TypeOK
    <2>3. Outs(p)' = Outs(p) /\ Pending(p)' = Pending(p)
      BY <2>2 DEF Outs, Pending
    <2>4. ActiveInv(p)' /\ OutputInv(p)'
      BY <1>1, <1>2, <1>3, <2>1, <2>2, <2>3, SoleDisk DEF ActiveInv, OutputInv, Kept
    <2>5. ProgressInv(p)'
      BY <1>1, <1>2, <2>1, <2>2, <2>3, SoleDisk, SoleNumbers DEF ProgressInv, ModeInv, Kept
    <2>6. RunInv(p)'
      BY <2>4, <2>5 DEF RunInv
    <2> QED
      BY <1>1, <2>1, <2>6, SoleDisk, SoleSuffices DEF SoleInv
  <1>4. CASE run[p].record # {}
    <2>1. PICK o \in run[p].record : /\ hashes' = [hashes EXCEPT ![o.file] = o.content]
                                     /\ run' = [run EXCEPT ![p].record = @ \ {o}]
      BY <1>4 DEF RecordHash
    <2>2. /\ o \in Outputs /\ o.file \in Sources /\ o.file \in Files
          /\ o.content <= tree[o.file]
          /\ o.file \notin run[p].moved => o.content = tree[o.file]
          /\ o.file \notin run[p].todo
          /\ graph[o.file] = [content |-> o.content, ver |-> BinVer[p]]
      BY <1>1, <1>2, SoleNumbers DEF OutputInv, Outs, Runs
    <2>3. /\ hashes'[o.file] = o.content
          /\ \A f \in Files \ {o.file} : hashes'[f] = hashes[f]
      BY <2>1, <2>2 DEF TypeOK
    <2>4. /\ run'[p].pc = "record" /\ run'[p].record = run[p].record \ {o}
          /\ run'[p].parsed = {}
          /\ Kept(p) /\ UNCHANGED <<run[p].all, run[p].todo>>
      BY <1>1, <1>2, <2>1 DEF Runs, Kept, TypeOK
    <2>5. /\ Outs(p)' \subseteq Outs(p)
          /\ \A f \in Pending(p) \ {o.file} : f \in Pending(p)'
      BY <1>2, <2>4 DEF Outs, Pending
    <2>6. Sources' = Sources /\ Behind' = Behind /\ \A c : Before(c)' <=> Before(c)
      BY <1>1 DEF Sources, Present, Behind, Before
    <2>7. TreeInv'
      BY <1>1, <2>2, <2>3, <2>6, SoleNumbers DEF SoleInv, TreeInv
    <2>8. MetaInv'
      <3>1. ASSUME meta # NoMeta, o.file \notin Behind
            PROVE  o.content = tree[o.file]
        <4>1. meta.commit.tree[o.file] = tree[o.file]
          BY <2>2, <3>1 DEF Behind
        <4>2. meta.commit.tree[o.file] <= run[p].cur.tree[o.file]
          BY <1>2, <2>2, <3>1 DEF ActiveInv
        <4>3. run[p].cur.tree[o.file] \in Nat /\ tree[o.file] \in Nat
          BY <1>1, <1>2, <2>2, SoleNumbers DEF ActiveInv, Runs
        <4>4. o.file \notin run[p].moved
          BY <1>2, <4>1, <4>2, <4>3 DEF ActiveInv
        <4> QED
          BY <2>2, <4>4
      <3>2. meta # NoMeta => \A f \in Sources \ Behind : hashes'[f] = tree[f]
        BY <2>3, <3>1, SoleNumbers DEF SoleInv, MetaInv
      <3> QED
        BY <1>1, <2>6, <3>2 DEF SoleInv, MetaInv
    <2>9. Settled(o.file)' /\ \A f \in Files \ {o.file} : Settled(f) => Settled(f)'
      BY <1>1, <2>2, <2>3 DEF Settled
    <2>10. ModeInv(p)'
      <3>1. CASE FullOwed /\ \A f \in Sources : f \in Pending(p) \/ Settled(f)
        <4>1. FullOwed'
          BY <1>1, <2>6, <3>1 DEF FullOwed
        <4>2. \A f \in Sources : f \in Pending(p)' \/ Settled(f)'
          BY <2>5, <2>9, <3>1, SoleNumbers
        <4> QED
          BY <2>6, <4>1, <4>2 DEF ModeInv
      <3>2. CASE Trusted /\ \A f \in run[p].todo \cup {r.file : r \in run[p].parsed} :
                              hashes[f] # tree[f]
        <4>1. Trusted'
          BY <1>1, <2>3, <2>6, <2>9, <3>2, SoleNumbers DEF Trusted
        <4>2. \A f \in run[p].todo : hashes'[f] # tree[f]
          <5>1. run[p].todo \subseteq Files
            BY <1>1 DEF Runs
          <5> QED
            BY <2>2, <2>3, <3>2, <5>1
        <4> QED
          BY <1>1, <2>4, <4>1, <4>2 DEF ModeInv
      <3> QED
        BY <1>2, <3>1, <3>2 DEF ModeInv
    <2>11. ActiveInv(p)'
      BY <1>1, <1>2, <2>4, <2>6 DEF ActiveInv, Kept
    <2>12. OutputInv(p)'
      BY <1>1, <1>2, <2>4, <2>5, <2>6 DEF OutputInv, Kept
    <2>13. ProgressInv(p)'
      <3>1. \A f \in Sources \ run[p].moved : f \in Pending(p)' \/ hashes'[f] = tree[f]
        BY <1>1, <1>2, <2>2, <2>3, <2>5, SoleNumbers DEF ProgressInv
      <3> QED
        BY <1>1, <2>4, <2>6, <2>10, <3>1 DEF ProgressInv, Kept
    <2>14. RunInv(p)'
      BY <2>11, <2>12, <2>13 DEF RunInv
    <2>15. FullOwed' \/ Trusted'
      BY <2>10 DEF ModeInv
    <2> QED
      BY <2>7, <2>8, <2>14, <2>15, SoleSuffices
  <1> QED
    BY <1>3, <1>4

\* A run at its end has nothing pending, so every hash is to be trusted.
LEMMA FinishSettles ==
  ASSUME TypeOK, SoleInv, NEW p \in Procs, run[p].pc = "finish"
  PROVE  Trusted /\ \A f \in Sources \ run[p].moved : hashes[f] = tree[f]
  <1>1. OutputInv(p) /\ ProgressInv(p) /\ ModeInv(p)
    BY DEF SoleInv, RunInv, Active, ProgressInv
  <1>2. Pending(p) = {}
    BY <1>1 DEF OutputInv, Pending, Outs
  <1> QED
    BY <1>1, <1>2 DEF ProgressInv, ModeInv, Trusted

\* The empty index.
LEMMA SoleInitially == Init => SoleInv
  <1> SUFFICES ASSUME Init PROVE SoleInv
    OBVIOUS
  <1>1. TreeInv
    <2>1. \A f \in Sources : InitTree[f] \in Nat
      BY IndexerAssumption DEF Sources, Present, Tree, Content
    <2> QED
      BY <2>1 DEF Init, TreeInv, Sources, Present, FirstCommit
  <1> QED
    BY <1>1 DEF Init, SoleInv, MetaInv, FullOwed, RunInv, Active, Idle

\* Every step keeps what is said of the hash cache; one named step per action.
LEMMA SoleStep ==
  ASSUME Alone, OnlyEdits
  PROVE  TypeOK /\ SoleInv /\ [Next]_vars => SoleInv'
  <1> SUFFICES ASSUME TypeOK, SoleInv, [Next]_vars
               PROVE  SoleInv'
    OBVIOUS
  <1>1. CASE UNCHANGED vars
    <2>1. /\ UNCHANGED <<tree, latest, head, lost, newer, meta, graph, hashes>>
          /\ run' = run
      BY <1>1 DEF vars
    <2>2. \A p \in Procs : RunInv(p) => RunInv(p)'
      BY <2>1, SoleDisk DEF RunInv, Active, ActiveInv, OutputInv, ProgressInv, ModeInv,
                            Outs, Pending
    <2> QED
      BY <2>1, <2>2, SoleDisk DEF SoleInv
  <1>2. CASE Surroundings
    BY <1>2, SoleEdit, SoleCommit DEF Surroundings, Delete, Revert, OnlyEdits
  <1>3. ASSUME NEW p \in Procs, Start(p, FALSE) \/ Start(p, TRUE)
        PROVE  SoleInv'
    BY <1>3, SoleStart
  <1>4. ASSUME NEW p \in Procs, Step(p)
        PROVE  SoleInv'
    <2>1. CASE Walk(p) \/ OpenStores(p)
      BY <2>1, SoleWalk
    <2>2. CASE DecideFull(p)
      BY <2>2, SoleFull
    <2>3. CASE DecideIncremental(p)
      BY <2>3, SoleIncrementalRun
    <2>4. CASE CompareHashes(p)
      BY <2>4, SoleCompare
    <2>5. CASE RemoveSymbols(p)
      BY <2>5, SoleRemove
    <2>6. CASE ParseFile(p)
      BY <2>6, SoleParse
    <2>7. CASE FlushBatch(p)
      BY <2>7, SoleFlush
    <2>8. CASE RecordHash(p)
      BY <2>8, SoleRecord
    <2>9. CASE Finish(p)
      <3>1. /\ run[p].pc = "finish" /\ WriteMeta(p)
            /\ UNCHANGED <<tree, latest, head, lost, graph, hashes>>
        BY <2>9 DEF Finish, gitVars
      <3> QED
        BY <3>1, FinishSettles, SoleWriteMeta DEF Active
    <2> QED
      BY <1>4, <2>1, <2>2, <2>3, <2>4, <2>5, <2>6, <2>7, <2>8, <2>9 DEF Step
  <1>5. ASSUME NEW p \in Procs, Abort(p)
        PROVE  SoleInv'
    BY <1>5, SoleGone DEF Abort, gitVars, diskVars
  <1> QED
    BY <1>1, <1>2, <1>3, <1>4, <1>5 DEF Next

\* What is there when a run reports success.
LEMMA CompletesSettles ==
  ASSUME Alone, TypeOK, SoleInv, [Next]_vars, NEW p \in Procs, Completes(p)
  PROVE  /\ Trusted /\ UNCHANGED <<tree, graph, hashes>>
         /\ \A f \in Sources \ run[p].moved : hashes[f] = tree[f]
  <1>1. run[p].pc \in {"hash", "finish"} /\ run'[p].pc = "idle" /\ aborts' = aborts
    BY DEF Completes, Active
  <1>2. CASE UNCHANGED vars
    BY <1>1, <1>2 DEF vars
  <1>3. CASE Surroundings
    BY <1>1, <1>3, SurroundingsFrame
  <1>4. ASSUME NEW q \in Procs, Start(q, FALSE) \/ Start(q, TRUE) \/ Step(q) \/ Abort(q)
        PROVE  /\ Trusted /\ UNCHANGED <<tree, graph, hashes>>
               /\ \A f \in Sources \ run[p].moved : hashes[f] = tree[f]
    <2>1. q = p
      BY DEF Alone
    <2>2. ~Abort(p)
      BY <1>1 DEF Abort, TypeOK
    <2>3. CASE CompareHashes(p)
      <3>1. run[p].pc = "hash" /\ run[p].parsed = {} /\ run[p].record = {}
            /\ run[p].todo \subseteq Sources /\ ProgressInv(p)
        BY <2>3 DEF CompareHashes, SoleInv, RunInv, Active, ActiveInv, OutputInv
      <3>2. {f \in run[p].todo : ~Unchanged(f)} = {}
        BY <1>1, <2>3 DEF CompareHashes, TypeOK
      <3>3. \A f \in run[p].todo : hashes[f] = tree[f]
        BY <3>2 DEF Unchanged
      <3> QED
        BY <2>3, <3>1, <3>3 DEF CompareHashes, gitVars, ProgressInv, Pending, Outs
    <2>4. CASE Finish(p)
      BY <2>4, FinishSettles DEF Finish, gitVars
    <2>5. ~Start(p, FALSE) /\ ~Start(p, TRUE) /\ ~Walk(p) /\ ~OpenStores(p)
          /\ ~DecideFull(p) /\ ~DecideIncremental(p) /\ ~RemoveSymbols(p)
          /\ ~ParseFile(p) /\ ~FlushBatch(p) /\ ~RecordHash(p)
      BY <1>1 DEF Start, Active, Walk, OpenStores, DecideFull, DecideIncremental,
                  RemoveSymbols, ParseFile, FlushBatch, RecordHash
    <2> QED
      BY <1>4, <2>1, <2>2, <2>3, <2>4, <2>5 DEF Step
  <1> QED
    BY <1>2, <1>3, <1>4 DEF Next

\* When an incremental run leaves a file out because its hash is the cached
\* one, the graph holds the symbols of exactly that content, however often
\* earlier runs were aborted: the writer records a hash after the symbols are
\* committed, and an incremental run removes only those of files whose hash is
\* not theirs.
THEOREM SkippedFilesIndexed ==
  ASSUME Alone, OnlyEdits
  PROVE  Spec => []SkippedFilesAreIndexed
<1>1. TypeOK /\ SoleInv => SkippedFilesAreIndexed
  <2> SUFFICES ASSUME TypeOK, SoleInv,
                      NEW p \in Procs, run[p].pc = "hash",
                      NEW f \in run[p].todo, Unchanged(f)
               PROVE  UpToDate(f, BinVer[p])
    BY DEF SkippedFilesAreIndexed
  <2>1. Trusted /\ f \in Sources
    BY DEF SoleInv, RunInv, Active, ActiveInv, ProgressInv
  <2>2. Settled(f)
    BY <2>1 DEF Trusted, Unchanged
  <2> QED
    BY <2>2 DEF Settled, Unchanged, UpToDate, Alone
<1> QED
  BY <1>1, TypeInitially, TypeStep, SoleInitially, SoleStep, PTL DEF Spec

\* A run that reports success leaves the graph of exactly the working tree,
\* but for the files that changed while it was active.
LEMMA SoleCompletes ==
  ASSUME Alone, OnlyEdits
  PROVE  TypeOK /\ SoleInv /\ [Next]_vars =>
           \A p \in Procs : Completes(p) =>
             \A f \in Files \ run[p].moved : UpToDate(f, BinVer[p])'
<1> SUFFICES ASSUME TypeOK, SoleInv, [Next]_vars,
                    NEW p \in Procs, Completes(p),
                    NEW f \in Files \ run[p].moved
             PROVE  UpToDate(f, BinVer[p])'
  OBVIOUS
<1>1. Trusted /\ UNCHANGED <<tree, graph>>
      /\ \A g \in Sources \ run[p].moved : hashes[g] = tree[g]
  BY CompletesSettles
<1>2. CASE f \in Sources
  <2>1. Settled(f) /\ hashes[f] = tree[f] /\ tree[f] # Absent
    BY <1>1, <1>2, SoleNumbers DEF Trusted
  <2> QED
    BY <1>1, <2>1 DEF Settled, Alone, UpToDate
<1>3. CASE f \notin Sources
  BY <1>1, <1>3 DEF SoleInv, TreeInv, UpToDate
<1> QED
  BY <1>2, <1>3

\* A run that reports success leaves the graph of exactly the working tree, but
\* for what changed meanwhile, with edits, commits and aborts anywhere.  This is
\* the promise of Run that MCIndexerAbort shows broken when --force is used and
\* interrupted; without it, one process keeps it.
THEOREM LoneRunReflectsTree ==
  ASSUME Alone, OnlyEdits
  PROVE  Spec => RunReflectsTree
<1>1. TypeOK /\ SoleInv /\ [Next]_vars
      => [\A p \in Procs : Completes(p) =>
            \A f \in Files \ run[p].moved : UpToDate(f, BinVer[p])']_vars
  BY SoleCompletes
<1> QED
  BY <1>1, TypeInitially, TypeStep, SoleInitially, SoleStep, PTL
     DEF Spec, RunReflectsTree
------------------------------------------------------------------------------
(* What a fresh verdict is worth: if, beyond the above, nothing changes    *)
(* while a run is active and every source file has an extension that the   *)
(* freshness check looks at.                                               *)

\* What meta claims, the index is; and nobody is at work on it.
CurrentInv ==
  /\ \A p \in Procs : run[p].moved = {} /\ run[p].cur.id <= head.id
  /\ meta # NoMeta => meta.commit.id <= head.id
  /\ meta # NoMeta /\ meta.commit.id = head.id /\ newer = {} =>
       Quiet /\ \A f \in Sources : hashes[f] = tree[f] /\ Settled(f)

\* Only a run that completes writes meta, and only the start of a run sets the
\* commit it vouches for.
LEMMA MetaFrame ==
  ASSUME TypeOK, NEW p \in Procs,
         Start(p, FALSE) \/ Start(p, TRUE) \/ Step(p) \/ Abort(p)
  PROVE  /\ UNCHANGED <<meta, newer>> \/ (Completes(p) /\ WriteMeta(p))
         /\ run'[p].moved \subseteq run[p].moved
         /\ run'[p].cur \in {run[p].cur, head, FirstCommit}
  <1> USE DEF gitVars, diskVars
  <1>1. run[p] \in Runs /\ run \in [Procs -> Runs]
    BY DEF TypeOK, Runs, PCs
  <1>2. ASSUME WriteMeta(p), aborts' = aborts, run[p].pc \in {"hash", "finish"}
        PROVE  /\ Completes(p) /\ run'[p].moved = {} /\ run'[p].cur = FirstCommit
    BY <1>1, <1>2 DEF WriteMeta, Completes, Active, Idle
  <1>3. CASE Start(p, FALSE) \/ Start(p, TRUE)
    <2>1. PICK force \in BOOLEAN : Start(p, force)
      BY <1>3
    <2>2. run'[p] = [Idle EXCEPT !.pc = "walk", !.force = force, !.cur = head, !.prev = meta]
      BY <1>1, <2>1 DEF Start
    <2>3. run'[p].cur = head /\ run'[p].moved = {}
      BY <2>2 DEF Idle
    <2> QED
      BY <2>1, <2>3 DEF Start
  <1>4. CASE Walk(p) \/ OpenStores(p) \/ DecideFull(p) \/ DecideIncremental(p)
    BY <1>1, <1>4 DEF Walk, OpenStores, DecideFull, DecideIncremental, Runs, Idle
  <1>5. CASE CompareHashes(p)
    <2>1. CASE WriteMeta(p)
      BY <1>2, <1>5, <2>1 DEF CompareHashes
    <2>2. CASE ~WriteMeta(p)
      <3>1. PICK S : /\ run' = [run EXCEPT ![p].pc = "remove", ![p].todo = S, ![p].left = S]
                     /\ UNCHANGED <<meta, newer>>
        BY <1>5, <2>2 DEF CompareHashes
      <3>2. UNCHANGED <<run[p].moved, run[p].cur>>
        BY <1>1, <3>1 DEF Runs
      <3> QED
        BY <3>1, <3>2
    <2> QED
      BY <2>1, <2>2
  <1>6. CASE RemoveSymbols(p) \/ ParseFile(p) \/ FlushBatch(p) \/ RecordHash(p)
    <2>1. UNCHANGED <<meta, newer>>
      BY <1>6 DEF RemoveSymbols, ParseFile, FlushBatch, RecordHash
    <2>2. UNCHANGED <<run[p].moved, run[p].cur>>
      <3>1. CASE RemoveSymbols(p)
        BY <1>1, <3>1 DEF RemoveSymbols, Runs
      <3>2. CASE ParseFile(p)
        BY <1>1, <3>2 DEF ParseFile, Runs
      <3>3. CASE FlushBatch(p)
        BY <1>1, <3>3 DEF FlushBatch, Runs
      <3>4. CASE RecordHash(p)
        BY <1>1, <3>4 DEF RecordHash, Runs
      <3> QED
        BY <1>6, <3>1, <3>2, <3>3, <3>4
    <2> QED
      BY <2>1, <2>2
  <1>7. CASE Finish(p)
    BY <1>2, <1>7 DEF Finish
  <1>8. CASE Abort(p)
    BY <1>1, <1>8 DEF Abort, Idle
  <1> QED
    BY <1>3, <1>4, <1>5, <1>6, <1>7, <1>8 DEF Step

\* An index that is what meta claims is not run again.
LEMMA CurrentIsSkipped ==
  ASSUME TypeOK, SoleInv, NEW p \in Procs,
         meta # NoMeta, meta.commit.id = head.id, newer = {},
         \A f \in Sources : hashes[f] = tree[f] /\ Settled(f)
  PROVE  SkipWork(p, FALSE)
  <1>1. ~VersionMismatch(p, meta) /\ ~WorkingTreeChanged
    BY DEF VersionMismatch, WorkingTreeChanged, SoleInv, MetaInv
  <1>2. ~CountsDiverge(meta)
    BY SettledCounts
  <1> QED
    BY <1>1, <1>2 DEF SkipWork

\* The steps of the developer: an edit makes the verdict stale by the file's
\* time, a commit by its number.
LEMMA CurrentSurroundings ==
  ASSUME OnlyEdits, ~EditDuringRun, TypeOK, SoleInv, CurrentInv, Surroundings
  PROVE  CurrentInv'
  <1>1. Quiet /\ meta' = meta
    BY SurroundingsFrame DEF Surroundings, Edit, Delete, Revert, Commit, MayEdit, diskVars
  <1>2. run' = run
    BY <1>1 DEF Surroundings, Edit, Delete, Revert, Commit, Move, Quiet, TypeOK
  <1>3. /\ head.id \in Nat /\ (meta # NoMeta => meta.commit.id \in Nat)
        /\ \A p \in Procs : run[p].cur.id \in Nat
    BY IndexerAssumption DEF TypeOK, Commits, Metas
  <1>4. CASE Commit
    <2>1. head'.id = head.id + 1
      BY <1>4 DEF Commit
    <2> QED
      BY <1>1, <1>2, <1>3, <2>1 DEF CurrentInv
  <1>5. CASE \E f \in Files : Edit(f)
    <2>1. newer' # {} /\ head' = head
      BY <1>5 DEF Edit
    <2> QED
      BY <1>1, <1>2, <2>1 DEF CurrentInv
  <1> QED
    BY <1>4, <1>5 DEF Surroundings, Delete, Revert, OnlyEdits

\* The steps of the one process: it starts only when the index is not what meta
\* claims, and nothing moved when it writes meta.
LEMMA CurrentRun ==
  ASSUME Alone, OnlyEdits, TypeOK, SoleInv, CurrentInv, NEW p \in Procs,
         Start(p, FALSE) \/ Start(p, TRUE) \/ Step(p) \/ Abort(p)
  PROVE  CurrentInv'
  <1>1. UNCHANGED <<tree, head>>
    BY ProcessFrame
  <1>2. head.id \in Nat
    BY IndexerAssumption DEF TypeOK, Commits
  <1>3. \A q \in Procs : run'[q].moved = {} /\ run'[q].cur.id <= head.id
    <2>1. run'[p].moved = {} /\ run'[p].cur.id <= head.id
      <3>1. run'[p].moved \subseteq run[p].moved
            /\ run'[p].cur \in {run[p].cur, head, FirstCommit}
        BY MetaFrame
      <3>2. run[p].moved = {} /\ run[p].cur.id <= head.id /\ FirstCommit.id = 0
        BY DEF CurrentInv, FirstCommit
      <3> QED
        BY <1>2, <3>1, <3>2
    <2> QED
      BY <2>1 DEF Alone
  <1>4. CASE UNCHANGED <<meta, newer>>
    <2>1. ~(meta # NoMeta /\ meta.commit.id = head.id /\ newer = {})
      <3> SUFFICES ASSUME meta # NoMeta, meta.commit.id = head.id, newer = {}
                   PROVE  FALSE
        OBVIOUS
      <3>1. Quiet /\ \A f \in Sources : hashes[f] = tree[f] /\ Settled(f)
        BY DEF CurrentInv
      <3>2. ~Start(p, FALSE) /\ ~Start(p, TRUE)
        BY <3>1, CurrentIsSkipped DEF Start, OnlyEdits
      <3>3. Active(p)
        BY <3>2 DEF Active, Step, Abort, Walk, OpenStores, DecideFull, DecideIncremental,
                    CompareHashes, RemoveSymbols, ParseFile, FlushBatch, RecordHash, Finish
      <3> QED
        BY <3>1, <3>3 DEF Quiet
    <2> QED
      BY <1>1, <1>3, <1>4, <2>1 DEF CurrentInv
  <1>5. CASE Completes(p) /\ WriteMeta(p)
    <2>1. /\ Trusted /\ UNCHANGED <<graph, hashes>>
          /\ \A f \in Sources : hashes[f] = tree[f]
      BY <1>5, CompletesSettles DEF CurrentInv, Next
    <2>2. \A f \in Sources : hashes[f] = tree[f] /\ Settled(f)
      BY <2>1 DEF Trusted
    <2>3. Sources' = Sources /\ \A f \in Sources : Settled(f)' <=> Settled(f)
      BY <1>1, <2>1 DEF Sources, Present, Settled
    <2>4. Quiet'
      BY <1>5 DEF Completes, Alone, Quiet, Active
    <2>5. meta'.commit.id <= head.id
      BY <1>5 DEF WriteMeta, CurrentInv
    <2> QED
      BY <1>1, <1>3, <2>1, <2>2, <2>3, <2>4, <2>5 DEF CurrentInv
  <1> QED
    BY <1>4, <1>5, MetaFrame

\* Every step keeps the verdict honest.
LEMMA CurrentStep ==
  ASSUME Alone, OnlyEdits, ~EditDuringRun
  PROVE  TypeOK /\ SoleInv /\ CurrentInv /\ [Next]_vars => CurrentInv'
  <1> SUFFICES ASSUME TypeOK, SoleInv, CurrentInv, [Next]_vars
               PROVE  CurrentInv'
    OBVIOUS
  <1>1. CASE UNCHANGED vars
    BY <1>1 DEF vars, CurrentInv, Quiet, Active, Sources, Present, Settled
  <1>2. CASE Next
    BY <1>2, CurrentSurroundings, CurrentRun DEF Next
  <1> QED
    BY <1>1, <1>2

\* A report without Stale and without IndexLag, given while no run is active,
\* is only given for an index of exactly the working tree, wherever runs were
\* aborted before.
THEOREM FreshIsCurrent ==
  ASSUME Alone, OnlyEdits, ~EditDuringRun, Sources \subseteq Scanned
  PROVE  Spec => []FreshMeansCurrent
<1>1. Init => CurrentInv
  BY DEF Init, CurrentInv, Idle, FirstCommit
<1>2. TypeOK /\ SoleInv /\ CurrentInv => FreshMeansCurrent
  <2> SUFFICES ASSUME TypeOK, SoleInv, CurrentInv,
                      NEW p \in Procs, ReportsFresh(p), NEW f \in Files
               PROVE  UpToDate(f, BinVer[p])
    BY DEF FreshMeansCurrent
  <2>1. newer = {}
    <3>1. newer \subseteq Present(tree) \cap Scanned
      BY SoleNumbers DEF ReportsFresh, SoleInv, MetaInv
    <3> QED
      BY <3>1 DEF ReportsFresh, WorkingTreeChanged
  <2>2. \A g \in Sources : hashes[g] = tree[g] /\ Settled(g)
    BY <2>1 DEF ReportsFresh, CurrentInv
  <2>3. CASE f \in Sources
    BY <2>2, <2>3, SoleNumbers DEF Settled, Alone, UpToDate
  <2>4. CASE f \notin Sources
    BY <2>4 DEF SoleInv, TreeInv, UpToDate
  <2> QED
    BY <2>3, <2>4
<1> QED
  BY <1>1, <1>2, TypeInitially, TypeStep, SoleInitially, SoleStep, CurrentStep, PTL DEF Spec
=============================================================================
