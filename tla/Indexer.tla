------------------------------- MODULE Indexer -------------------------------
(***************************************************************************)
(* internal/indexer.Run against the working tree, git, the SQLite graph,   *)
(* the file-hash cache and meta.json, and the verdict that                 *)
(* internal/freshness.Inspect derives from meta.                           *)
(*                                                                         *)
(* Content is a number: each edit gives a file content it never had.  A    *)
(* graph entry is the content and the parser version its symbols come      *)
(* from; every file has one symbol.  A modification time only matters by   *)
(* being after meta.IndexedAt or not, so the model keeps the set `newer`   *)
(* of files for which it is: an edit adds to it, meta.Write empties it.    *)
(***************************************************************************)
EXTENDS Integers, FiniteSets

CONSTANTS
  Procs,           \* processes that may call indexer.Run (CLI, watch daemon)
  BinVer,          \* parser.Version compiled into each process
  Files,
  Scanned,         \* files with an extension of worktreeSrcExt
  Importers,       \* files whose edges reach a file, transitively
  InitTree,        \* content committed at the start (Absent or 1)
  Absent, NoProc, NoMeta,
  BatchSize,       \* batchSize of parseAndIngest
  \* What the surroundings may do; each FALSE, 0 or {} is an assumption.
  EditDuringRun,   \* files change and commits happen while a run is active
  Reverts,         \* uncommitted changes are undone (git checkout -- f)
  Creates,         \* new files appear, untracked until committed
  Deletes,         \* files that may be removed
  Forces,          \* analyze --force
  Rewrites,        \* the commit in meta stops resolving (amend and gc)
  MaxContent, MaxCommits, MaxAborts   \* bounds on edits, commits and aborts

Content == 1..MaxContent
Tree == [Files -> Content \cup {Absent}]
Commits == [id : 0..MaxCommits, tree : Tree]
Versions == {BinVer[p] : p \in Procs}
Metas == [commit : Commits, count : Nat, ver : Versions] \cup {NoMeta}
Entries == [content : Content, ver : Versions] \cup {Absent}

ASSUME IndexerAssumption ==
  /\ BinVer \in [Procs -> Nat]
  /\ Scanned \subseteq Files /\ Deletes \subseteq Files
  /\ Importers \in [Files -> SUBSET Files]
  /\ InitTree \in Tree
  /\ Absent \notin Content /\ NoProc \notin Procs
  /\ NoMeta \notin [commit : Commits, count : Nat, ver : Versions]
  /\ Absent \notin [content : Content, ver : Versions]
  /\ BatchSize \in Nat \ {0}
  /\ {EditDuringRun, Reverts, Creates, Forces, Rewrites} \subseteq BOOLEAN
  /\ MaxContent \in Nat \ {0} /\ MaxCommits \in Nat /\ MaxAborts \in Nat
  /\ IsFiniteSet(Files)

VARIABLES
  tree,      \* working tree
  latest,    \* highest content each file has had
  head,      \* HEAD commit
  lost,      \* commits git can no longer resolve
  newer,     \* files whose mtime is after meta.IndexedAt
  meta,      \* meta.json
  graph,     \* symbols of each file in the SQLite store
  hashes,    \* FileCache: content last recorded for each file
  lock,      \* process holding the FileCache directory lock
  run,       \* local variables of Run in each process, and the history
             \* variable moved: the files that changed since it started
  aborts     \* runs that ended early so far (bound)

diskVars == <<meta, graph, hashes>>
gitVars == <<tree, latest, head, lost>>
vars == <<tree, latest, head, lost, newer, meta, graph, hashes, lock, run, aborts>>

FirstCommit == [id |-> 0, tree |-> InitTree]

Idle == [pc |-> "idle", cur |-> FirstCommit, prev |-> NoMeta, force |-> FALSE,
         all |-> {}, todo |-> {}, left |-> {}, parsed |-> {}, record |-> {},
         moved |-> {}]

Present(t) == {f \in Files : t[f] # Absent}
Indexed == {f \in Files : graph[f] # Absent}
Active(p) == run[p].pc # "idle"
Quiet == \A p \in Procs : ~Active(p)

\* A file parsed but not yet written, or written but its hash not recorded.
Outputs == [file : Files, content : Content]

TypeOK ==
  /\ tree \in Tree
  /\ latest \in [Files -> 0..MaxContent]
  /\ head \in Commits
  /\ lost \in SUBSET (0..MaxCommits)
  /\ newer \in SUBSET Files
  /\ meta \in Metas
  /\ graph \in [Files -> Entries]
  /\ hashes \in [Files -> Content \cup {Absent}]
  /\ lock \in Procs \cup {NoProc}
  /\ aborts \in 0..MaxAborts
  /\ run \in [Procs -> [pc : {"idle", "walk", "open", "decide", "hash", "remove",
                              "parse", "record", "finish"},
                        cur : Commits, prev : Metas, force : BOOLEAN,
                        all : SUBSET Files, todo : SUBSET Files,
                        left : SUBSET Files, parsed : SUBSET Outputs,
                        record : SUBSET Outputs, moved : SUBSET Files]]

Init ==
  /\ tree = InitTree
  /\ latest = [f \in Files |-> IF InitTree[f] = Absent THEN 0 ELSE InitTree[f]]
  /\ head = FirstCommit
  /\ lost = {} /\ newer = {}
  /\ meta = NoMeta
  /\ graph = [f \in Files |-> Absent]
  /\ hashes = [f \in Files |-> Absent]
  /\ lock = NoProc
  /\ run = [p \in Procs |-> Idle]
  /\ aborts = 0
------------------------------------------------------------------------------
(* The developer and git. *)

MayEdit == EditDuringRun \/ Quiet

Move(f) ==
  run' = [p \in Procs |-> IF Active(p) THEN [run[p] EXCEPT !.moved = @ \cup {f}]
                          ELSE run[p]]

\* Save a file with new content, or create one.
Edit(f) ==
  /\ MayEdit
  /\ latest[f] < MaxContent
  /\ tree[f] # Absent \/ Creates
  /\ latest' = [latest EXCEPT ![f] = @ + 1]
  /\ tree' = [tree EXCEPT ![f] = latest'[f]]
  /\ Move(f)
  /\ newer' = newer \cup {f}
  /\ UNCHANGED <<head, lost, diskVars, lock, aborts>>

Delete(f) ==
  /\ f \in Deletes /\ MayEdit
  /\ tree[f] # Absent
  /\ tree' = [tree EXCEPT ![f] = Absent]
  /\ Move(f)
  /\ newer' = newer \ {f}
  /\ UNCHANGED <<latest, head, lost, diskVars, lock, aborts>>

\* git checkout -- f: the committed content, with a modification time of now.
Revert(f) ==
  /\ Reverts /\ MayEdit
  /\ head.tree[f] # Absent /\ tree[f] # head.tree[f]
  /\ tree' = [tree EXCEPT ![f] = head.tree[f]]
  /\ Move(f)
  /\ newer' = newer \cup {f}
  /\ UNCHANGED <<latest, head, lost, diskVars, lock, aborts>>

\* git add -A; git commit.  With Rewrites the replaced commit may be lost.
Commit ==
  /\ MayEdit
  /\ head.id < MaxCommits
  /\ tree # head.tree
  /\ head' = [id |-> head.id + 1, tree |-> tree]
  /\ lost' \in {lost} \cup (IF Rewrites THEN {lost \cup {head.id}} ELSE {})
  /\ UNCHANGED <<tree, latest, newer, diskVars, lock, run, aborts>>

Surroundings ==
  \/ \E f \in Files : Edit(f) \/ Delete(f) \/ Revert(f)
  \/ Commit
------------------------------------------------------------------------------
(* Run *)

VersionMismatch(p, m) == m # NoMeta /\ m.ver # BinVer[p]

\* freshness.WorkingTreeChangedSince(indexRoot, meta.IndexedAt)
WorkingTreeChanged == newer \cap Present(tree) \cap Scanned # {}

\* graphSymbolCount against meta.SymbolCount.
CountsDiverge(m) ==
  /\ m.count > 0
  /\ \/ Cardinality(Indexed) = 0
     \/ Cardinality(Indexed) < m.count \div 2

\* Mutant: an index of the same commit is taken to be up to date.
SkipWorkByCommit(p, force) ==
  /\ ~force
  /\ meta # NoMeta
  /\ meta.commit.id = head.id
  /\ ~VersionMismatch(p, meta)
  /\ ~CountsDiverge(meta)

SkipWork(p, force) ==
  /\ ~force
  /\ meta # NoMeta
  /\ meta.commit.id = head.id
  /\ ~VersionMismatch(p, meta)
  /\ ~WorkingTreeChanged
  /\ ~CountsDiverge(meta)

\* Run up to the early return: HEAD and meta are read once and kept.
Start(p, force) ==
  /\ ~Active(p)
  /\ force => Forces
  /\ ~SkipWork(p, force)
  /\ run' = [run EXCEPT ![p] = [Idle EXCEPT !.pc = "walk", !.force = force,
                                            !.cur = head, !.prev = meta]]
  /\ UNCHANGED <<gitVars, newer, diskVars, lock, aborts>>

\* WalkSourceFiles
Walk(p) ==
  /\ run[p].pc = "walk"
  /\ run' = [run EXCEPT ![p].pc = "open", ![p].all = Present(tree)]
  /\ UNCHANGED <<gitVars, newer, diskVars, lock, aborts>>

\* Mutant: the cache is opened whoever holds its lock.
OpenStoresShared(p) ==
  /\ run[p].pc = "open"
  /\ lock' = p
  /\ run' = [run EXCEPT ![p].pc = "decide"]
  /\ UNCHANGED <<gitVars, newer, diskVars, aborts>>

\* OpenFileCache takes the directory lock, or fails and Run returns its error.
OpenStores(p) ==
  /\ run[p].pc = "open"
  /\ IF lock = NoProc
     THEN /\ lock' = p
          /\ run' = [run EXCEPT ![p].pc = "decide"]
     ELSE /\ run' = [run EXCEPT ![p] = Idle]
          /\ UNCHANGED lock
  /\ UNCHANGED <<gitVars, newer, diskVars, aborts>>

\* Mutant: the working tree is compared with HEAD, as git status does.
ChangedSinceHead(c) == {f \in Present(head.tree) : tree[f] # head.tree[f]}

\* gitutil.DiffAgainst: tracked files that differ from the commit, which is
\* replaced by HEAD when it no longer resolves.
ChangedSince(c) ==
  LET base == IF c.id \in lost THEN head.tree ELSE c.tree
  IN  {f \in Present(head.tree) \cup Present(base) : tree[f] # base[f]}

\* ExpandInvalidationPaths follows the edges the graph holds.
Expand(S) == S \cup UNION {Importers[f] \cap Indexed : f \in S \cap Indexed}

\* Mutant: --force only bypasses the early return.
IncrementalIfForced(p) ==
  LET m == run[p].prev
      toParse == ChangedSince(m.commit) \cap run[p].all
  IN  IF \/ m = NoMeta
         \/ VersionMismatch(p, m)
         \/ 2 * Cardinality(toParse) >= Cardinality(run[p].all)
      THEN {} ELSE toParse

\* What an incremental run would parse; {} stands for a full run.
Incremental(p) ==
  LET m == run[p].prev
      toParse == ChangedSince(m.commit) \cap run[p].all
  IN  IF \/ run[p].force
         \/ m = NoMeta
         \/ VersionMismatch(p, m)
         \/ 2 * Cardinality(toParse) >= Cardinality(run[p].all)
      THEN {} ELSE toParse

DecideFull(p) ==
  /\ run[p].pc = "decide"
  /\ Incremental(p) = {}
  /\ graph' = [f \in Files |-> Absent]
  /\ run' = [run EXCEPT ![p].pc = "parse", ![p].todo = run[p].all]
  /\ UNCHANGED <<gitVars, newer, meta, hashes, lock, aborts>>

DecideIncremental(p) ==
  /\ run[p].pc = "decide"
  /\ Incremental(p) # {}
  /\ run' = [run EXCEPT ![p].pc = "hash",
                        ![p].todo = Expand(Incremental(p)) \cap run[p].all]
  /\ UNCHANGED <<gitVars, newer, diskVars, lock, aborts>>

\* meta.Write stamps IndexedAt with the time of the write; then the deferred
\* closes release the cache.
WriteMeta(p) ==
  /\ meta' = [commit |-> run[p].cur, count |-> Cardinality(Indexed),
              ver |-> BinVer[p]]
  /\ newer' = {}
  /\ lock' = NoProc
  /\ run' = [run EXCEPT ![p] = Idle]

\* A file is skipped when its hash is the cached one; an unreadable file is not.
Unchanged(f) == tree[f] # Absent /\ hashes[f] = tree[f]

\* Mutant: the new hashes are recorded when they are computed.
CompareHashesRecording(p) ==
  /\ run[p].pc = "hash"
  /\ LET toReparse == {f \in run[p].todo : ~Unchanged(f)}
     IN  /\ hashes' = [f \in Files |-> IF f \in toReparse THEN tree[f] ELSE hashes[f]]
         /\ IF toReparse = {}
            THEN WriteMeta(p)
            ELSE /\ run' = [run EXCEPT ![p].pc = "remove", ![p].todo = toReparse,
                                       ![p].left = toReparse]
                 /\ UNCHANGED <<meta, newer, lock>>
  /\ UNCHANGED <<gitVars, graph, aborts>>

CompareHashes(p) ==
  /\ run[p].pc = "hash"
  /\ LET toReparse == {f \in run[p].todo : ~Unchanged(f)}
     IN  IF toReparse = {}
         THEN WriteMeta(p)
         ELSE /\ run' = [run EXCEPT ![p].pc = "remove", ![p].todo = toReparse,
                                    ![p].left = toReparse]
              /\ UNCHANGED <<meta, newer, lock>>
  /\ UNCHANGED <<gitVars, graph, hashes, aborts>>

\* RemoveSymbolsForPaths, one path and one autocommitted delete at a time.
RemoveSymbols(p) ==
  /\ run[p].pc = "remove"
  /\ IF run[p].left = {}
     THEN /\ run' = [run EXCEPT ![p].pc = "parse"]
          /\ UNCHANGED graph
     ELSE \E f \in run[p].left :
            /\ graph' = [graph EXCEPT ![f] = Absent]
            /\ run' = [run EXCEPT ![p].left = @ \ {f}]
  /\ UNCHANGED <<gitVars, newer, meta, hashes, lock, aborts>>

\* A parse worker reads one file: the hash is that of the buffer it parsed,
\* and a file that cannot be read is left out.  Extract has one error, that of
\* tree-sitter when the run's context is cancelled: the worker leaves the file
\* out, but every later statement and Counts fail with that context as well,
\* so the run returns without meta, which is Abort.
ParseFile(p) ==
  /\ run[p].pc = "parse"
  /\ \E f \in run[p].todo :
       run' = [run EXCEPT
                 ![p].todo = @ \ {f},
                 ![p].parsed = IF tree[f] = Absent THEN @
                               ELSE @ \cup {[file |-> f, content |-> tree[f]]}]
  /\ UNCHANGED <<gitVars, newer, diskVars, lock, aborts>>

\* Mutant: what is left of a batch when the workers are done is not flushed.
FlushBatchWhenFull(p) ==
  /\ run[p].pc = "parse"
  /\ \/ Cardinality(run[p].parsed) >= BatchSize
     \/ run[p].todo = {}
  /\ graph' = [f \in Files |->
                 IF /\ Cardinality(run[p].parsed) >= BatchSize
                    /\ \E o \in run[p].parsed : o.file = f
                 THEN [content |-> (CHOOSE o \in run[p].parsed : o.file = f).content,
                       ver |-> BinVer[p]]
                 ELSE graph[f]]
  /\ run' = [run EXCEPT ![p].pc = "record", ![p].parsed = {}]
  /\ UNCHANGED <<gitVars, newer, meta, hashes, lock, aborts>>

\* The writer flushes a batch in one transaction (IngestFiles) when it is
\* full or the workers are done; with nothing left it moves on.
FlushBatch(p) ==
  /\ run[p].pc = "parse"
  /\ \/ Cardinality(run[p].parsed) >= BatchSize
     \/ run[p].todo = {}
  /\ graph' = [f \in Files |->
                 IF \E o \in run[p].parsed : o.file = f
                 THEN [content |-> (CHOOSE o \in run[p].parsed : o.file = f).content,
                       ver |-> BinVer[p]]
                 ELSE graph[f]]
  /\ run' = [run EXCEPT ![p].pc = "record", ![p].record = run[p].parsed,
                        ![p].parsed = {}]
  /\ UNCHANGED <<gitVars, newer, meta, hashes, lock, aborts>>

\* SetHash for each file of the batch, after the commit.
RecordHash(p) ==
  /\ run[p].pc = "record"
  /\ IF run[p].record = {}
     THEN /\ run' = [run EXCEPT ![p].pc = IF run[p].todo = {} THEN "finish"
                                          ELSE "parse"]
          /\ UNCHANGED hashes
     ELSE \E o \in run[p].record :
            /\ hashes' = [hashes EXCEPT ![o.file] = o.content]
            /\ run' = [run EXCEPT ![p].record = @ \ {o}]
  /\ UNCHANGED <<gitVars, newer, meta, graph, lock, aborts>>

\* refreshMetaCounts with the commit read at the start.
Finish(p) ==
  /\ run[p].pc = "finish"
  /\ WriteMeta(p)
  /\ UNCHANGED <<gitVars, graph, hashes, aborts>>

\* An error return, a cancelled context or a crash: what is on disk stays,
\* the local variables and the lock go.
Abort(p) ==
  /\ Active(p)
  /\ aborts < MaxAborts
  /\ aborts' = aborts + 1
  /\ run' = [run EXCEPT ![p] = Idle]
  /\ lock' = IF lock = p THEN NoProc ELSE lock
  /\ UNCHANGED <<gitVars, newer, diskVars>>

Step(p) ==
  \/ Walk(p) \/ OpenStores(p)
  \/ DecideFull(p) \/ DecideIncremental(p)
  \/ CompareHashes(p) \/ RemoveSymbols(p)
  \/ ParseFile(p) \/ FlushBatch(p) \/ RecordHash(p)
  \/ Finish(p)

Next ==
  \/ Surroundings
  \/ \E p \in Procs : Start(p, FALSE) \/ Start(p, TRUE) \/ Step(p) \/ Abort(p)

Spec == Init /\ [][Next]_vars

\* A run that has started goes on.  Nothing starts one: the engine forgets a
\* run that failed, and whether a command follows is up to its user.
FairSpec == Spec /\ \A p \in Procs : WF_vars(Step(p))
------------------------------------------------------------------------------
(* Properties *)

\* freshness.Inspect, as computed by process p: neither Stale nor IndexLag.
ReportsFresh(p) ==
  /\ meta # NoMeta
  /\ meta.commit.id = head.id
  /\ ~VersionMismatch(p, meta)
  /\ ~WorkingTreeChanged

UpToDate(f, v) ==
  graph[f] = IF tree[f] = Absent THEN Absent ELSE [content |-> tree[f], ver |-> v]

\* A report without Stale and without IndexLag is only given, while no run
\* is rewriting the store, for an index of exactly the working tree.
FreshMeansCurrent ==
  Quiet => \A p \in Procs : ReportsFresh(p) => \A f \in Files : UpToDate(f, BinVer[p])

\* When the incremental run trusts a cached hash, the graph really holds the
\* symbols of that content: an aborted run may have removed them.
SkippedFilesAreIndexed ==
  \A p \in Procs : run[p].pc = "hash" =>
    \A f \in run[p].todo : Unchanged(f) => UpToDate(f, BinVer[p])

\* A run that reports success leaves the graph of exactly the working tree,
\* but for files that changed while it was active: "Reindex if any source
\* file changed since the last index so the working tree - not just the last
\* commit - is reflected" (Run).
Completes(p) ==
  run[p].pc \in {"hash", "finish"} /\ ~Active(p)' /\ aborts' = aborts

RunReflectsTree ==
  [][\A p \in Procs : Completes(p) =>
       \A f \in Files \ run[p].moved : UpToDate(f, BinVer[p])']_vars

\* analyze --force, the fix every stale report suggests, repairs the graph
\* whatever aborted runs, undone edits and deletions left behind.
ForceRepairs ==
  [][\A p \in Procs : Completes(p) /\ run[p].force =>
       \A f \in Files \ run[p].moved : UpToDate(f, BinVer[p])']_vars

\* The stores have one writer: whoever is past OpenFileCache.
SingleWriter ==
  \A p \in Procs : run[p].pc \notin {"idle", "walk", "open"} <=> lock = p

\* A run that has started, and is not aborted itself, comes to an end with
\* the graph of the working tree, wherever the runs before it were aborted.
StartedRunConverges ==
  \A p \in Procs, n \in 0..MaxAborts :
    Active(p) /\ aborts = n
      ~> (\A f \in Files : UpToDate(f, BinVer[p])) \/ aborts > n
=============================================================================
