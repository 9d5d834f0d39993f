------------------------------ MODULE CallGraph ------------------------------
(***************************************************************************)
(* The edges of the graph under incremental indexing: internal/indexer     *)
(* (analyze.go, incremental.go) with graph/resolve.go.  A run re-parses    *)
(* the files whose hash differs.  It first turns the resolved edges into   *)
(* these files back into placeholders, then removes their symbols and all  *)
(* edges at them, ingests what the parser finds now, and at the end binds  *)
(* placeholders to symbols by name.  The other files are not read again,   *)
(* so what a run loses of their edges stays lost.                          *)
(*                                                                         *)
(* Indexer models which files a run looks at; here it is any set of        *)
(* changed files.  Batches are of one file.                                *)
(***************************************************************************)
EXTENDS Integers, FiniteSets

CONSTANTS
  SourceFiles,  \* paths
  Variants,     \* the contents a file may have: its definitions and references
  Methods,      \* the names that are a method's with its type, T.Foo
  PreferredFile \* where the later rules of pickCandidate look from each file

\* A definition is a name at a line; a reference is made in a definition.
\* Lines count from 1.
EdgeKinds == {"calls", "inherits"}

ASSUME CallGraphAssumption ==
  \A f \in SourceFiles : \A c \in Variants[f] :
    /\ \A d \in c.defs : d.line \in Nat \ {0}
    /\ \A r \in c.refs : r.from \in c.defs /\ r.kind \in EdgeKinds

EmptySource == [defs |-> {}, refs |-> {}]

VARIABLES
  sourceOf,   \* the working tree: the content of each file
  indexedAs,  \* the content whose hash the cache has for each file
  symbols,    \* the table: path, line, name
  edges,      \* the table: source symbol, kind, target symbol or placeholder
  indexing,   \* the run: its step, the files still to do, the file and content at hand
  interrupted \* ghost: a run since the last ClearRepo did not come to its end

graphVars == <<sourceOf, indexedAs, symbols, edges, indexing, interrupted>>

SymbolAt(f, d) == [path |-> f, line |-> d.line, name |-> d.name]
SymbolsIn(f, c) == {SymbolAt(f, d) : d \in c.defs}
SymbolsOf(f) == {s \in symbols : s.path = f}

\* symref:repo:path:name, which has no line.
Placeholder(f, n) == [path |-> f, line |-> 0, name |-> n]
IsPlaceholder(s) == s.line = 0
Edge(s, k, t) == [src |-> s, kind |-> k, dst |-> t]

TheOne(S) == CHOOSE s \in S : TRUE

\* The parser binds a name to a symbol it has seen above in the file.
Bind(f, c, r) ==
  LET seen == {d \in c.defs : d.name = r.to /\ d.line < r.from.line}
      last == {d \in seen : \A e \in seen : e.line <= d.line}
  IN IF last = {} THEN Placeholder(f, r.to) ELSE SymbolAt(f, TheOne(last))
EdgesIn(f, c) == {Edge(SymbolAt(f, r.from), r.kind, Bind(f, c, r)) : r \in c.refs}

NoRun == [at |-> "idle", todo |-> {}, file |-> {}, read |-> EmptySource]
AtStep(step) == indexing.at = step

CallGraphTypeOK ==
  /\ \A f \in SourceFiles : /\ sourceOf[f] \in Variants[f]
                            /\ indexedAs[f] \in Variants[f] \cup {EmptySource}
  /\ \A s \in symbols : s.path \in SourceFiles /\ ~IsPlaceholder(s)
  /\ \A e \in edges : /\ e.kind \in EdgeKinds
                      /\ IsPlaceholder(e.dst) => e.dst.path = e.src.path
  /\ indexing.at \in {"idle", "revert", "remove", "parse", "hash"}
  /\ indexing.todo \subseteq SourceFiles
  /\ indexing.file = {} \/ \E f \in SourceFiles : indexing.file = {f}
  /\ AtStep("hash") => \A f \in indexing.file : indexing.read \in Variants[f]
  /\ interrupted \in BOOLEAN

\* The first run, which is full, has just cleared the tables.
CallGraphInit ==
  /\ sourceOf \in {t \in [SourceFiles -> UNION {Variants[f] : f \in SourceFiles}] :
                    \A f \in SourceFiles : t[f] \in Variants[f]}
  /\ indexedAs = [f \in SourceFiles |-> EmptySource]
  /\ symbols = {} /\ edges = {}
  /\ indexing = [NoRun EXCEPT !.at = "parse", !.todo = SourceFiles]
  /\ interrupted = FALSE
------------------------------------------------------------------------------
(* The developer *)

EditSource(f) ==
  /\ \E c \in Variants[f] \ {sourceOf[f]} : sourceOf' = [sourceOf EXCEPT ![f] = c]
  /\ UNCHANGED <<indexedAs, symbols, edges, indexing, interrupted>>
------------------------------------------------------------------------------
(* indexer.Run *)

\* ClearRepo, one transaction; the hash cache stays.
StartFull ==
  /\ AtStep("idle")
  /\ symbols' = {} /\ edges' = {}
  /\ indexing' = [NoRun EXCEPT !.at = "parse", !.todo = SourceFiles]
  /\ interrupted' = FALSE
  /\ UNCHANGED <<sourceOf, indexedAs>>

ChangedFiles == {f \in SourceFiles : sourceOf[f] # indexedAs[f]}

StartIncremental ==
  /\ AtStep("idle")
  /\ \E S \in (SUBSET ChangedFiles) \ {{}} :
       indexing' = [NoRun EXCEPT !.at = "revert", !.todo = S]
  /\ UNCHANGED <<sourceOf, indexedAs, symbols, edges, interrupted>>

RevertibleKinds == {"calls"}

\* RevertEdgesIntoPaths, one transaction.
Reverted(e) == Edge(e.src, e.kind, Placeholder(e.src.path, e.dst.name))
IntoTodo == {e \in edges : /\ ~IsPlaceholder(e.dst) /\ e.dst \in symbols
                           /\ e.dst.path \in indexing.todo /\ e.kind \in RevertibleKinds}

\* Mutant: nothing is reverted.
RevertNothing ==
  /\ AtStep("revert")
  /\ indexing' = [indexing EXCEPT !.at = "remove"]
  /\ UNCHANGED <<sourceOf, indexedAs, symbols, edges, interrupted>>

RevertEdges ==
  /\ AtStep("revert")
  /\ edges' = (edges \ IntoTodo) \cup {Reverted(e) : e \in IntoTodo}
  /\ indexing' = [indexing EXCEPT !.at = "remove"]
  /\ UNCHANGED <<sourceOf, indexedAs, symbols, interrupted>>

\* Mutant: only the edges that leave the file are deleted.
RemoveEdgesFrom(f) ==
  /\ AtStep("remove") /\ indexing.file = {} /\ SymbolsOf(f) # {}
  /\ f \in indexing.todo
  /\ edges' = {e \in edges : e.src \notin SymbolsOf(f)}
  /\ indexing' = [indexing EXCEPT !.file = {f}]
  /\ UNCHANGED <<sourceOf, indexedAs, symbols, interrupted>>

\* deleteSymbolsPath deletes the edges at the symbols of the file, of any kind
\* and either end; then the symbols.
RemoveEdges(f) ==
  /\ AtStep("remove") /\ indexing.file = {} /\ SymbolsOf(f) # {}
  /\ f \in indexing.todo
  /\ edges' = {e \in edges : e.src \notin SymbolsOf(f) /\ e.dst \notin SymbolsOf(f)}
  /\ indexing' = [indexing EXCEPT !.file = {f}]
  /\ UNCHANGED <<sourceOf, indexedAs, symbols, interrupted>>

RemoveSymbols(f) ==
  /\ AtStep("remove") /\ indexing.file = {f}
  /\ symbols' = symbols \ SymbolsOf(f)
  /\ indexing' = [indexing EXCEPT !.file = {}]
  /\ UNCHANGED <<sourceOf, indexedAs, edges, interrupted>>

RemovedAll ==
  /\ AtStep("remove") /\ indexing.file = {}
  /\ \A f \in indexing.todo : SymbolsOf(f) = {}
  /\ indexing' = [indexing EXCEPT !.at = "parse"]
  /\ UNCHANGED <<sourceOf, indexedAs, symbols, edges, interrupted>>

\* A worker reads a file and parses it; IngestFiles adds what it found, one
\* transaction, in the order in which the workers finish.
IngestFile(f) ==
  /\ AtStep("parse") /\ f \in indexing.todo
  /\ LET c == sourceOf[f]
     IN /\ symbols' = symbols \cup SymbolsIn(f, c)
        /\ edges' = edges \cup EdgesIn(f, c)
        /\ indexing' = [indexing EXCEPT !.at = "hash", !.todo = @ \ {f}, !.file = {f}, !.read = c]
  /\ UNCHANGED <<sourceOf, indexedAs, interrupted>>

\* SetHash, with the hash of what was read.
RecordHash(f) ==
  /\ AtStep("hash") /\ indexing.file = {f}
  /\ indexedAs' = [indexedAs EXCEPT ![f] = indexing.read]
  /\ indexing' = [NoRun EXCEPT !.at = "parse", !.todo = indexing.todo]
  /\ UNCHANGED <<sourceOf, symbols, edges, interrupted>>

\* A file that cannot be read or parsed is left out, with its old hash.
SkipFile(f) ==
  /\ AtStep("parse") /\ f \in indexing.todo
  /\ indexing' = [indexing EXCEPT !.todo = @ \ {f}]
  /\ interrupted' = TRUE
  /\ UNCHANGED <<sourceOf, indexedAs, symbols, edges>>
------------------------------------------------------------------------------
(* ResolveSymrefs *)

OnlyOne(S) == Cardinality(S) = 1

\* pickCandidate: a name defined once, or once in the file of the caller, or
\* once where a later rule looks; otherwise none.
Candidates(e) == {s \in symbols : s.name = e.dst.name /\ s # e.src}
pickCandidate(e) ==
  LET all == Candidates(e)
      in(f) == {s \in all : s.path = f}
  IN CASE OnlyOne(all) -> all
       [] ~OnlyOne(all) /\ OnlyOne(in(e.src.path)) -> in(e.src.path)
       [] ~OnlyOne(all) /\ ~OnlyOne(in(e.src.path)) /\ OnlyOne(in(PreferredFile[e.src.path]))
            -> in(PreferredFile[e.src.path])
       [] OTHER -> {}

Unbound == {e \in edges : IsPlaceholder(e.dst)}
\* The receiver's type has one method of the name, the caller: dropped as noise.
SelfReferences ==
  {e \in Unbound : e.dst.name \in Methods /\ {s \in symbols : s.name = e.dst.name} = {e.src}}
Bound(E) == {Edge(e.src, e.kind, TheOne(pickCandidate(e))) : e \in E}
CanBind(e) == pickCandidate(e) # {}

\* Mutant: the placeholders stay beside the edges they became.
ResolveKeeping ==
  /\ AtStep("parse") /\ indexing.todo = {}
  /\ edges' = edges \cup Bound({e \in Unbound : CanBind(e)})
  /\ indexing' = NoRun
  /\ UNCHANGED <<sourceOf, indexedAs, symbols, interrupted>>

Resolve ==
  /\ AtStep("parse") /\ indexing.todo = {}
  /\ LET done == {e \in Unbound : CanBind(e)}
     IN edges' = (edges \ (done \cup SelfReferences)) \cup Bound(done)
  /\ indexing' = NoRun
  /\ UNCHANGED <<sourceOf, indexedAs, symbols, interrupted>>

\* Its error is a warning; the run is a success.
ResolveFails ==
  /\ AtStep("parse") /\ indexing.todo = {}
  /\ indexing' = NoRun
  /\ interrupted' = TRUE
  /\ UNCHANGED <<sourceOf, indexedAs, symbols, edges>>

\* The process is killed, or a statement returns an error.
RunDies ==
  /\ ~AtStep("idle")
  /\ indexing' = NoRun
  /\ interrupted' = TRUE
  /\ UNCHANGED <<sourceOf, indexedAs, symbols, edges>>

CallGraphNext ==
  \/ \E f \in SourceFiles :
       \/ EditSource(f) \/ RemoveEdges(f) \/ RemoveSymbols(f)
       \/ IngestFile(f) \/ RecordHash(f) \/ SkipFile(f)
  \/ StartFull \/ StartIncremental \/ RevertEdges \/ RemovedAll
  \/ Resolve \/ ResolveFails \/ RunDies

CallGraphSpec == CallGraphInit /\ [][CallGraphNext]_graphVars
------------------------------------------------------------------------------
(* Properties *)

\* Both ends of every edge exist, in every state that a crash can leave.
NoDanglingEdges ==
  \A e \in edges : e.src \in symbols /\ (IsPlaceholder(e.dst) \/ e.dst \in symbols)

Complete == AtStep("idle") /\ ~interrupted

\* The reference is in the graph: as a placeholder, or as an edge to a symbol
\* of that name.
Kept(f, r) ==
  \E e \in edges : /\ e.src = SymbolAt(f, r.from) /\ e.kind = r.kind
                   /\ e.dst.name = r.to

\* A method that calls itself by its type and name.
Recursive(r) == r.to \in Methods /\ r.to = r.from.name

\* RevertEdgesIntoPaths preserves callers across the edit of the file they
\* call: after any runs that came to their end, every call of another
\* definition in every file, also those not read again, is in the graph.
CallsKept ==
  Complete => \A f \in SourceFiles : \A r \in indexedAs[f].refs :
                r.kind = "calls" /\ ~Recursive(r) => Kept(f, r)

\* The same is said of all that ResolveSymrefs resolves, inheritance among it.
ReferencesKept ==
  Complete => \A f \in SourceFiles : \A r \in indexedAs[f].refs :
                ~Recursive(r) => Kept(f, r)

\* After incremental runs the symbols are those of a full run on the same
\* contents; where each name is defined once, so are the calls, and none is one
\* of a method by itself.
FullSymbols == UNION {SymbolsIn(f, indexedAs[f]) : f \in SourceFiles}
FullTarget(f, r) ==
  LET named == {s \in FullSymbols : s.name = r.to /\ s # SymbolAt(f, r.from)}
  IN IF named = {} THEN Placeholder(f, r.to) ELSE TheOne(named)
FullCalls ==
  UNION {{Edge(SymbolAt(f, r.from), "calls", FullTarget(f, r)) :
             r \in {q \in indexedAs[f].refs : q.kind = "calls" /\ ~Recursive(q)}} :
         f \in SourceFiles}
IncrementalEqualsFull ==
  Complete =>
    /\ symbols = FullSymbols
    /\ (\A s, t \in FullSymbols : s.name = t.name => s = t)
         => {e \in edges : e.kind = "calls"} = FullCalls
=============================================================================
