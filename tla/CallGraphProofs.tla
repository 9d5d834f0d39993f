-------------------------- MODULE CallGraphProofs ---------------------------
(***************************************************************************)
(* Theorems about CallGraph, for every set of files, every set of contents *)
(* and every preference of pickCandidate.                                  *)
(***************************************************************************)
EXTENDS CallGraph, FiniteSetTheorems, TLAPS

Steps == {"idle", "revert", "remove", "parse", "hash"}
Sources == (UNION {Variants[f] : f \in SourceFiles}) \cup {EmptySource}
RunRecords == [at : Steps, todo : SUBSET SourceFiles, file : SUBSET SourceFiles, read : Sources]

TypedInv ==
  /\ sourceOf \in [SourceFiles -> Sources] /\ indexedAs \in [SourceFiles -> Sources]
  /\ indexing \in RunRecords /\ interrupted \in BOOLEAN
  /\ \A f \in SourceFiles : /\ sourceOf[f] \in Variants[f]
                            /\ indexedAs[f] \in Variants[f] \cup {EmptySource}
  /\ \A s \in symbols : s.path \in SourceFiles /\ ~IsPlaceholder(s)
  /\ \A e \in edges : /\ e.kind \in EdgeKinds
                      /\ IsPlaceholder(e.dst) => e.dst.path = e.src.path
  /\ indexing.file = {} \/ \E f \in SourceFiles : indexing.file = {f}
  /\ AtStep("hash") => \A f \in indexing.file : indexing.read \in Variants[f]

\* Nothing calls its own line: the parser looks above, the resolver elsewhere.
Sound(e) == /\ e = Edge(e.src, e.kind, e.dst) /\ e.src # e.dst
            /\ IsPlaceholder(e.dst) => e.dst = Placeholder(e.src.path, e.dst.name)
EndsInv == NoDanglingEdges /\ \A e \in edges : Sound(e)

\* What each step of a run has done for the files that are left.
StepInv ==
  /\ AtStep("idle") => indexing.todo = {}
  /\ indexing.at \in {"idle", "revert", "parse"} => indexing.file = {}
  /\ AtStep("remove") =>
       /\ indexing.file \subseteq indexing.todo
       /\ \A e \in edges : e.kind = "calls" /\ ~IsPlaceholder(e.dst)
                             => e.dst.path \notin indexing.todo
       /\ \A e \in edges : \A f \in indexing.file : e.src.path # f /\ e.dst.path # f
  /\ indexing.at \in {"parse", "hash"} => \A f \in indexing.todo : SymbolsOf(f) = {}
  /\ AtStep("hash") => indexing.file \cap indexing.todo = {}

\* The tables hold what content c says of file f: its symbols, an edge for each
\* call that is not recursive, and no other calls.
SettledAs(f, c) ==
  /\ SymbolsOf(f) = SymbolsIn(f, c)
  /\ \A r \in c.refs : r.kind = "calls" /\ ~Recursive(r) => Kept(f, r)
  /\ \A e \in edges : e.kind = "calls" /\ e.src.path = f =>
       \E r \in c.refs : r.kind = "calls" /\ e.src = SymbolAt(f, r.from) /\ e.dst.name = r.to

\* Unless a run was interrupted, every file that is not at hand is settled as
\* the cache says; the one whose hash is about to be recorded, as it was read.
AtHand(f) == AtStep("hash") /\ f \in indexing.file
SettledInv ==
  ~interrupted => \A f \in SourceFiles :
    /\ f \notin indexing.todo /\ ~AtHand(f) => SettledAs(f, indexedAs[f])
    /\ AtHand(f) => SettledAs(f, indexing.read)

\* What is left unbound after a run could not be bound, and is no reference of a
\* method to itself.
ResolvedInv ==
  Complete => \A e \in edges : IsPlaceholder(e.dst) =>
                pickCandidate(e) = {} /\ e \notin SelfReferences

GraphInv == TypedInv /\ EndsInv /\ StepInv /\ SettledInv /\ ResolvedInv
------------------------------------------------------------------------------
(* The helpers *)

LEMMA TheOneIsIn == ASSUME NEW S, S # {} PROVE TheOne(S) \in S
  BY DEF TheOne

LEMMA PickedIsCandidate == \A e : pickCandidate(e) \subseteq Candidates(e)
  <1> TAKE e
  <1> DEFINE all == Candidates(e)
             in(f) == {s \in all : s.path = f}
  <1>1. \A f : in(f) \subseteq all
    OBVIOUS
  <1> HIDE DEF all, in
  <1>2. pickCandidate(e) =
          CASE OnlyOne(all) -> all
            [] ~OnlyOne(all) /\ OnlyOne(in(e.src.path)) -> in(e.src.path)
            [] ~OnlyOne(all) /\ ~OnlyOne(in(e.src.path)) /\ OnlyOne(in(PreferredFile[e.src.path]))
                 -> in(PreferredFile[e.src.path])
            [] OTHER -> {}
    BY DEF pickCandidate, all, in
  <1>3. CASE OnlyOne(all)
    BY <1>2, <1>3 DEF all
  <1>4. CASE ~OnlyOne(all) /\ OnlyOne(in(e.src.path))
    BY <1>1, <1>2, <1>4 DEF all
  <1>5. CASE ~OnlyOne(all) /\ ~OnlyOne(in(e.src.path)) /\ OnlyOne(in(PreferredFile[e.src.path]))
    BY <1>1, <1>2, <1>5 DEF all
  <1>6. CASE /\ ~OnlyOne(all) /\ ~OnlyOne(in(e.src.path))
             /\ ~OnlyOne(in(PreferredFile[e.src.path]))
    BY <1>2, <1>6
  <1> QED
    BY <1>3, <1>4, <1>5, <1>6

\* A name with one candidate is bound.
LEMMA OnlyCandidateIsPicked ==
  ASSUME NEW e, NEW s, Candidates(e) = {s} PROVE pickCandidate(e) = {s}
  <1>1. OnlyOne(Candidates(e))
    BY FS_Singleton DEF OnlyOne
  <1> QED
    BY <1>1 DEF pickCandidate

\* What the parser says of a reference: it is made where it is made, and leads
\* to a name of the file or to a placeholder of the file.
LEMMA BindIsSound ==
  ASSUME NEW f \in SourceFiles, NEW c \in Variants[f], NEW r \in c.refs
  PROVE  /\ SymbolAt(f, r.from) \in SymbolsIn(f, c) /\ r.kind \in EdgeKinds
         /\ Bind(f, c, r).name = r.to /\ Bind(f, c, r).path = f
         /\ Bind(f, c, r) # SymbolAt(f, r.from)
         /\ ~IsPlaceholder(Bind(f, c, r)) => Bind(f, c, r) \in SymbolsIn(f, c)
         /\ IsPlaceholder(Bind(f, c, r)) => Bind(f, c, r) = Placeholder(f, r.to)
  <1> DEFINE seen == {d \in c.defs : d.name = r.to /\ d.line < r.from.line}
             last == {d \in seen : \A e \in seen : e.line <= d.line}
  <1>1. /\ r.from \in c.defs /\ r.kind \in EdgeKinds
        /\ \A d \in c.defs : d.line \in Nat \ {0}
    BY CallGraphAssumption
  <1>2. SymbolAt(f, r.from) \in SymbolsIn(f, c)
    BY <1>1 DEF SymbolsIn
  <1>3. CASE last = {}
    <2>1. Bind(f, c, r) = Placeholder(f, r.to)
      BY <1>3 DEF Bind
    <2> QED
      BY <1>1, <1>2, <2>1 DEF Placeholder, IsPlaceholder, SymbolAt
  <1>4. CASE last # {}
    <2>1. TheOne(last) \in last
      BY <1>4, TheOneIsIn
    <2> DEFINE d == TheOne(last)
    <2>2. d \in c.defs /\ d.name = r.to /\ d.line < r.from.line
      BY <2>1
    <2>3. Bind(f, c, r) = SymbolAt(f, d)
      BY <1>4 DEF Bind
    <2>4. d.line # r.from.line
      BY <1>1, <2>2
    <2> QED
      <3>1. /\ Bind(f, c, r).name = r.to /\ Bind(f, c, r).path = f
            /\ Bind(f, c, r).line # SymbolAt(f, r.from).line
            /\ ~IsPlaceholder(Bind(f, c, r))
        BY <1>1, <2>2, <2>3, <2>4 DEF SymbolAt, IsPlaceholder
      <3>2. Bind(f, c, r) \in SymbolsIn(f, c)
        BY <2>2, <2>3 DEF SymbolsIn
      <3> QED
        BY <1>1, <1>2, <3>1, <3>2
  <1> QED
    BY <1>3, <1>4

LEMMA SymbolsInAreTyped ==
  ASSUME NEW f \in SourceFiles, NEW c \in Variants[f]
  PROVE  \A s \in SymbolsIn(f, c) : s.path = f /\ ~IsPlaceholder(s)
  BY CallGraphAssumption DEF SymbolsIn, SymbolAt, IsPlaceholder

\* Placeholders come and go; who refers, how, and to what name stays, but for
\* the references of methods to themselves.
Alike(e, x) == e.src = x.src /\ e.kind = x.kind /\ e.dst.name = x.dst.name
OfItself(e) == e.dst.name \in Methods /\ e.dst.name = e.src.name

LEMMA RetargetingKeepsSettled ==
  ASSUME UNCHANGED symbols,
         \A e \in edges : OfItself(e) \/ \E x \in edges' : Alike(e, x),
         \A x \in edges' : \E e \in edges : Alike(e, x),
         NEW f, NEW c, SettledAs(f, c)
  PROVE  SettledAs(f, c)'
  <1>1. SymbolsOf(f)' = SymbolsIn(f, c)'
    BY DEF SettledAs, SymbolsOf, SymbolsIn, SymbolAt
  <1>2. ASSUME NEW r \in c.refs, r.kind = "calls", ~Recursive(r) PROVE Kept(f, r)'
    <2>1. PICK e \in edges : e.src = SymbolAt(f, r.from) /\ e.kind = r.kind /\ e.dst.name = r.to
      BY <1>2 DEF SettledAs, Kept
    <2>2. ~OfItself(e)
      BY <1>2, <2>1 DEF OfItself, Recursive, SymbolAt
    <2>3. PICK x \in edges' : Alike(e, x)
      BY <2>2
    <2> QED
      BY <2>1, <2>3 DEF Alike, Kept, SymbolAt
  <1>3. ASSUME NEW x \in edges', x.kind = "calls", x.src.path = f
        PROVE  \E r \in c.refs : r.kind = "calls" /\ x.src = SymbolAt(f, r.from)
                                                  /\ x.dst.name = r.to
    <2>1. PICK e \in edges : Alike(e, x)
      OBVIOUS
    <2>2. e.kind = "calls" /\ e.src.path = f
      BY <1>3, <2>1 DEF Alike
    <2> QED
      BY <2>1, <2>2 DEF Alike, SettledAs
  <1> QED
    BY <1>1, <1>2, <1>3 DEF SettledAs, SymbolAt, Recursive
------------------------------------------------------------------------------
LEMMA GraphInitially == CallGraphInit => GraphInv
  <1> SUFFICES ASSUME CallGraphInit PROVE GraphInv
    OBVIOUS
  <1>1. indexing.at = "parse" /\ indexing.todo = SourceFiles /\ indexing.file = {}
        /\ indexing \in RunRecords
    BY DEF CallGraphInit, NoRun, RunRecords, Steps, Sources
  <1>2. TypedInv
    <2>1. sourceOf \in [SourceFiles -> Sources] /\ \A f \in SourceFiles : sourceOf[f] \in Variants[f]
      BY DEF CallGraphInit, Sources
    <2> QED
      BY <1>1, <2>1 DEF CallGraphInit, TypedInv, Sources, AtStep
  <1>3. EndsInv
    BY DEF CallGraphInit, EndsInv, NoDanglingEdges
  <1>4. StepInv
    BY <1>1 DEF CallGraphInit, StepInv, AtStep, SymbolsOf
  <1>5. SettledInv /\ ResolvedInv
    BY <1>1 DEF SettledInv, ResolvedInv, Complete, AtStep, AtHand
  <1> QED
    BY <1>2, <1>3, <1>4, <1>5 DEF GraphInv

\* Two facts all steps use.
LEMMA RunIsTyped ==
  ASSUME GraphInv
  PROVE  /\ indexing \in RunRecords /\ indexing.todo \subseteq SourceFiles
         /\ indexing.file \subseteq SourceFiles
  BY DEF GraphInv, TypedInv, RunRecords

LEMMA EdgesAreTyped ==
  ASSUME GraphInv, NEW e \in edges
  PROVE  /\ e.src \in symbols /\ (IsPlaceholder(e.dst) \/ e.dst \in symbols) /\ e.src # e.dst
         /\ e.kind \in EdgeKinds /\ (IsPlaceholder(e.dst) => e.dst.path = e.src.path)
         /\ ~IsPlaceholder(e.src) /\ Sound(e)
  <1>1. /\ e.src \in symbols /\ (IsPlaceholder(e.dst) \/ e.dst \in symbols)
        /\ e.src # e.dst /\ Sound(e)
    BY DEF GraphInv, EndsInv, NoDanglingEdges, Sound
  <1>2. \A x \in edges : x.kind \in EdgeKinds /\ (IsPlaceholder(x.dst) => x.dst.path = x.src.path)
    BY DEF GraphInv, TypedInv
  <1>3. \A s \in symbols : ~IsPlaceholder(s)
    BY DEF GraphInv, TypedInv
  <1> QED
    BY <1>1, <1>2, <1>3

LEMMA EditSourceStep == ASSUME GraphInv, NEW f \in SourceFiles, EditSource(f) PROVE GraphInv'
  <1>1. PICK c \in Variants[f] : sourceOf' = [sourceOf EXCEPT ![f] = c]
    BY DEF EditSource
  <1>2. UNCHANGED <<indexedAs, symbols, edges, indexing, interrupted>>
    BY DEF EditSource
  <1>3. sourceOf' \in [SourceFiles -> Sources] /\ \A g \in SourceFiles : sourceOf'[g] \in Variants[g]
    BY <1>1 DEF GraphInv, TypedInv, Sources
  <1>4. TypedInv'
    BY <1>2, <1>3 DEF GraphInv, TypedInv, AtStep
  <1>5. EndsInv' /\ StepInv'
    BY <1>2 DEF GraphInv, EndsInv, NoDanglingEdges, Sound, StepInv, AtStep, SymbolsOf
  <1>6. \A g, d : SettledAs(g, d)' <=> SettledAs(g, d)
    BY <1>2 DEF SettledAs, Kept, SymbolsOf, Recursive
  <1>7. SettledInv'
    BY <1>2, <1>6 DEF GraphInv, SettledInv, AtStep, AtHand
  <1>8. ResolvedInv'
    <2>1. \A e : pickCandidate(e)' = pickCandidate(e)
      BY <1>2 DEF pickCandidate, Candidates
    <2> QED
      BY <1>2, <2>1 DEF GraphInv, ResolvedInv, Complete, AtStep, SelfReferences, Unbound
  <1> QED
    BY <1>4, <1>5, <1>7, <1>8 DEF GraphInv

LEMMA StartFullStep == GraphInv /\ StartFull => GraphInv'
  <1> SUFFICES ASSUME GraphInv, StartFull PROVE GraphInv'
    OBVIOUS
  <1>1. /\ symbols' = {} /\ edges' = {} /\ interrupted' = FALSE
        /\ indexing' = [NoRun EXCEPT !.at = "parse", !.todo = SourceFiles]
        /\ UNCHANGED <<sourceOf, indexedAs>>
    BY DEF StartFull
  <1>2. /\ indexing'.at = "parse" /\ indexing'.todo = SourceFiles /\ indexing'.file = {}
        /\ indexing' \in RunRecords
    BY <1>1 DEF NoRun, RunRecords, Steps, Sources
  <1>3. TypedInv'
    BY <1>1, <1>2 DEF GraphInv, TypedInv, AtStep
  <1>4. EndsInv'
    BY <1>1 DEF EndsInv, NoDanglingEdges
  <1>5. StepInv'
    BY <1>1, <1>2 DEF StepInv, AtStep, SymbolsOf
  <1>6. SettledInv' /\ ResolvedInv'
    BY <1>2 DEF SettledInv, ResolvedInv, Complete, AtStep, AtHand
  <1> QED
    BY <1>3, <1>4, <1>5, <1>6 DEF GraphInv

\* A step that leaves the tables alone, and settles no file.
LEMMA TablesAlone ==
  ASSUME GraphInv, UNCHANGED <<sourceOf, indexedAs, symbols, edges>>,
         TypedInv', StepInv', ~Complete',
         ~interrupted' => /\ ~interrupted /\ ~AtStep("hash")' /\ ~AtStep("hash")
                          /\ indexing.todo \subseteq indexing'.todo
  PROVE  GraphInv'
  <1>1. EndsInv'
    BY DEF GraphInv, EndsInv, NoDanglingEdges, Sound
  <1>2. ASSUME NEW f, NEW c, SettledAs(f, c) PROVE SettledAs(f, c)'
    BY <1>2 DEF SettledAs, SymbolsOf, SymbolsIn, Kept, SymbolAt, Recursive
  <1>3. SettledInv'
    <2> SUFFICES ASSUME ~interrupted', NEW f \in SourceFiles, f \notin indexing'.todo
                 PROVE  SettledAs(f, indexedAs[f])'
      BY DEF SettledInv, AtHand, AtStep
    <2>1. f \notin indexing.todo /\ ~AtHand(f) /\ ~interrupted
      BY DEF AtHand
    <2>2. SettledAs(f, indexedAs[f])
      BY <2>1 DEF GraphInv, SettledInv
    <2> QED
      BY <1>2, <2>2
  <1> QED
    BY <1>1, <1>3 DEF GraphInv, ResolvedInv

LEMMA StartIncrementalStep == GraphInv /\ StartIncremental => GraphInv'
  <1> SUFFICES ASSUME GraphInv, StartIncremental PROVE GraphInv'
    OBVIOUS
  <1>1. PICK S \in SUBSET ChangedFiles : indexing' = [NoRun EXCEPT !.at = "revert", !.todo = S]
    BY DEF StartIncremental
  <1>2. /\ UNCHANGED <<sourceOf, indexedAs, symbols, edges, interrupted>>
        /\ indexing.at = "idle" /\ indexing.todo = {}
    BY DEF StartIncremental, GraphInv, StepInv, AtStep
  <1>3. /\ indexing'.at = "revert" /\ indexing'.todo = S /\ indexing'.file = {}
        /\ indexing' \in RunRecords
    BY <1>1 DEF NoRun, RunRecords, Steps, Sources, ChangedFiles
  <1>4. TypedInv'
    BY <1>2, <1>3 DEF GraphInv, TypedInv, AtStep
  <1>5. StepInv' /\ ~Complete'
    BY <1>3 DEF StepInv, Complete, AtStep
  <1> QED
    BY <1>2, <1>3, <1>4, <1>5, TablesAlone DEF AtStep

LEMMA RemovedAllStep == GraphInv /\ RemovedAll => GraphInv'
  <1> SUFFICES ASSUME GraphInv, RemovedAll PROVE GraphInv'
    OBVIOUS
  <1>1. /\ indexing.at = "remove" /\ indexing.file = {}
        /\ \A f \in indexing.todo : SymbolsOf(f) = {}
        /\ indexing' = [indexing EXCEPT !.at = "parse"]
        /\ UNCHANGED <<sourceOf, indexedAs, symbols, edges, interrupted>>
    BY DEF RemovedAll, AtStep
  <1>2. /\ indexing'.at = "parse" /\ indexing'.todo = indexing.todo /\ indexing'.file = {}
        /\ indexing' \in RunRecords
    BY <1>1, RunIsTyped DEF RunRecords, Steps
  <1>3. TypedInv'
    BY <1>1, <1>2 DEF GraphInv, TypedInv, AtStep
  <1>4. StepInv' /\ ~Complete'
    BY <1>1, <1>2 DEF StepInv, Complete, AtStep, SymbolsOf
  <1> QED
    BY <1>1, <1>2, <1>3, <1>4, TablesAlone DEF AtStep

\* A run that ends before its end.
LEMMA InterruptedStep ==
  GraphInv /\ (RunDies \/ ResolveFails \/ \E f \in SourceFiles : SkipFile(f)) => GraphInv'
  <1> SUFFICES ASSUME GraphInv, RunDies \/ ResolveFails \/ \E f \in SourceFiles : SkipFile(f)
               PROVE  GraphInv'
    OBVIOUS
  <1>1. UNCHANGED <<sourceOf, indexedAs, symbols, edges>> /\ interrupted' = TRUE
    BY DEF RunDies, ResolveFails, SkipFile
  <1>2. CASE RunDies \/ ResolveFails
    <2>1. indexing'.at = "idle" /\ indexing'.todo = {} /\ indexing'.file = {}
          /\ indexing' \in RunRecords
      BY <1>2 DEF RunDies, ResolveFails, NoRun, RunRecords, Steps, Sources
    <2>2. TypedInv'
      BY <1>1, <2>1 DEF GraphInv, TypedInv, AtStep
    <2>3. StepInv' /\ ~Complete'
      BY <1>1, <2>1 DEF StepInv, Complete, AtStep
    <2> QED
      BY <1>1, <2>2, <2>3, TablesAlone
  <1>3. ASSUME NEW f \in SourceFiles, SkipFile(f) PROVE GraphInv'
    <2>1. indexing.at = "parse" /\ indexing' = [indexing EXCEPT !.todo = indexing.todo \ {f}]
      BY <1>3 DEF SkipFile, AtStep
    <2>2. /\ indexing'.at = "parse" /\ indexing'.file = indexing.file
          /\ indexing'.todo = indexing.todo \ {f} /\ indexing' \in RunRecords
      BY <2>1, RunIsTyped DEF RunRecords
    <2>3. TypedInv'
      BY <1>1, <2>1, <2>2 DEF GraphInv, TypedInv, AtStep
    <2>4. StepInv' /\ ~Complete'
      BY <1>1, <2>1, <2>2 DEF GraphInv, StepInv, Complete, AtStep, SymbolsOf
    <2> QED
      BY <1>1, <2>3, <2>4, TablesAlone
  <1> QED
    BY <1>2, <1>3

LEMMA RevertEdgesStep == GraphInv /\ RevertEdges => GraphInv'
  <1> SUFFICES ASSUME GraphInv, RevertEdges PROVE GraphInv'
    OBVIOUS
  <1>1. /\ indexing.at = "revert" /\ indexing.file = {}
        /\ edges' = (edges \ IntoTodo) \cup {Reverted(e) : e \in IntoTodo}
        /\ indexing' = [indexing EXCEPT !.at = "remove"]
        /\ UNCHANGED <<sourceOf, indexedAs, symbols, interrupted>>
    BY DEF RevertEdges, AtStep, GraphInv, StepInv
  <1>2. /\ indexing'.at = "remove" /\ indexing'.todo = indexing.todo /\ indexing'.file = {}
        /\ indexing' \in RunRecords
    BY <1>1, RunIsTyped DEF RunRecords, Steps
  <1>3. \A e : /\ Reverted(e).src = e.src /\ Reverted(e).kind = e.kind
               /\ Reverted(e).dst.name = e.dst.name /\ Reverted(e).dst.path = e.src.path
               /\ IsPlaceholder(Reverted(e).dst)
               /\ Reverted(e).src # Reverted(e).dst => Sound(Reverted(e))
    BY DEF Reverted, Edge, Placeholder, IsPlaceholder, Sound
  <1>4. IntoTodo \subseteq edges
    BY DEF IntoTodo
  <1>5. \A x \in edges' : (x \in edges /\ x \notin IntoTodo) \/ \E e \in IntoTodo : x = Reverted(e)
    BY <1>1
  <1>6. TypedInv'
    <2>1. \A x \in edges' : x.kind \in EdgeKinds /\ (IsPlaceholder(x.dst) => x.dst.path = x.src.path)
      <3> SUFFICES ASSUME NEW x \in edges'
                   PROVE  x.kind \in EdgeKinds /\ (IsPlaceholder(x.dst) => x.dst.path = x.src.path)
        OBVIOUS
      <3>1. CASE x \in edges
        BY <3>1, EdgesAreTyped
      <3>2. ASSUME NEW e \in IntoTodo, x = Reverted(e)
            PROVE  x.kind \in EdgeKinds /\ x.dst.path = x.src.path
        BY <1>3, <1>4, <3>2, EdgesAreTyped
      <3> QED
        BY <1>5, <3>1, <3>2
    <2> QED
      BY <1>1, <1>2, <2>1 DEF GraphInv, TypedInv, AtStep
  <1>7. EndsInv'
    <2> SUFFICES ASSUME NEW x \in edges'
                 PROVE  /\ x.src \in symbols /\ (IsPlaceholder(x.dst) \/ x.dst \in symbols)
                        /\ Sound(x)
      BY <1>1 DEF EndsInv, NoDanglingEdges, Sound
    <2>1. CASE x \in edges
      BY <2>1, EdgesAreTyped
    <2>2. ASSUME NEW e \in IntoTodo, x = Reverted(e)
          PROVE  /\ x.src \in symbols /\ IsPlaceholder(x.dst) /\ Sound(x)
      <3>1. e.src \in symbols /\ ~IsPlaceholder(e.src)
        BY <1>4, EdgesAreTyped
      <3> QED
        BY <1>3, <2>2, <3>1
    <2> QED
      BY <1>5, <2>1, <2>2
  <1>8. StepInv'
    <2> SUFFICES ASSUME NEW x \in edges', x.kind = "calls", ~IsPlaceholder(x.dst)
                 PROVE  x.dst.path \notin indexing.todo
      BY <1>2 DEF StepInv, AtStep
    <2>1. x \in edges /\ x \notin IntoTodo
      BY <1>3, <1>5
    <2>2. x.dst \in symbols
      BY <2>1 DEF GraphInv, EndsInv, NoDanglingEdges
    <2> QED
      BY <2>1, <2>2 DEF IntoTodo, RevertibleKinds
  <1>9. SettledInv'
    <2> SUFFICES ASSUME ~interrupted', NEW f \in SourceFiles, f \notin indexing'.todo
                 PROVE  SettledAs(f, indexedAs[f])'
      BY <1>2 DEF SettledInv, AtHand, AtStep
    <2>1. SettledAs(f, indexedAs[f])
      BY <1>1, <1>2 DEF GraphInv, SettledInv, AtHand, AtStep
    <2>2. \A e \in edges : \E x \in edges' : Alike(e, x)
      BY <1>1, <1>3 DEF Alike
    <2>3. \A x \in edges' : \E e \in edges : Alike(e, x)
      BY <1>3, <1>4, <1>5 DEF Alike
    <2> DEFINE c == indexedAs[f]
    <2>4. SettledAs(f, c)
      BY <2>1
    <2> HIDE DEF c
    <2>5. SettledAs(f, c)'
      BY <1>1, <2>2, <2>3, <2>4, RetargetingKeepsSettled DEF c
    <2> QED
      BY <1>1, <2>5 DEF c
  <1>10. ResolvedInv'
    BY <1>2 DEF ResolvedInv, Complete, AtStep
  <1> QED
    BY <1>6, <1>7, <1>8, <1>9, <1>10 DEF GraphInv

LEMMA RemoveEdgesStep == ASSUME GraphInv, NEW f \in SourceFiles, RemoveEdges(f) PROVE GraphInv'
  <1>1. /\ indexing.at = "remove" /\ f \in indexing.todo
        /\ edges' = {e \in edges : e.src \notin SymbolsOf(f) /\ e.dst \notin SymbolsOf(f)}
        /\ indexing' = [indexing EXCEPT !.file = {f}]
        /\ UNCHANGED <<sourceOf, indexedAs, symbols, interrupted>>
    BY DEF RemoveEdges, AtStep
  <1>2. /\ indexing'.at = "remove" /\ indexing'.todo = indexing.todo /\ indexing'.file = {f}
        /\ indexing' \in RunRecords
    BY <1>1, RunIsTyped DEF RunRecords, Steps
  <1>3. TypedInv'
    BY <1>1, <1>2 DEF GraphInv, TypedInv, AtStep
  <1>4. EndsInv'
    BY <1>1 DEF GraphInv, EndsInv, NoDanglingEdges, Sound
  <1>5. ASSUME NEW e \in edges' PROVE e.src.path # f /\ e.dst.path # f
    <2>1. e \in edges /\ e.src \in symbols /\ e.src.path # f
      BY <1>1, <1>5 DEF GraphInv, EndsInv, NoDanglingEdges, SymbolsOf
    <2>2. CASE IsPlaceholder(e.dst)
      BY <2>1, <2>2, EdgesAreTyped
    <2>3. CASE e.dst \in symbols
      BY <1>1, <1>5, <2>1, <2>3 DEF SymbolsOf
    <2> QED
      BY <2>1, <2>2, <2>3 DEF GraphInv, EndsInv, NoDanglingEdges
  <1>6. StepInv'
    BY <1>1, <1>2, <1>5 DEF GraphInv, StepInv, AtStep
  <1>7. SettledInv'
    <2> SUFFICES ASSUME ~interrupted', NEW g \in SourceFiles, g \notin indexing'.todo
                 PROVE  SettledAs(g, indexedAs[g])'
      BY <1>2 DEF SettledInv, AtHand, AtStep
    <2>1. SettledAs(g, indexedAs[g]) /\ g # f
      BY <1>1, <1>2 DEF GraphInv, SettledInv, AtHand, AtStep
    <2>2. ASSUME NEW r \in indexedAs[g].refs, r.kind = "calls", ~Recursive(r) PROVE Kept(g, r)'
      <3>1. PICK e \in edges : /\ e.src = SymbolAt(g, r.from) /\ e.kind = r.kind
                               /\ e.dst.name = r.to
        BY <2>1, <2>2 DEF SettledAs, Kept
      <3>2. e.src \notin SymbolsOf(f)
        BY <2>1, <3>1 DEF SymbolsOf, SymbolAt
      <3>3. e.dst \notin SymbolsOf(f)
        BY <1>1, <2>2, <3>1 DEF SymbolsOf, GraphInv, StepInv, TypedInv, AtStep
      <3>4. e \in edges'
        BY <1>1, <3>2, <3>3
      <3> QED
        BY <3>1, <3>4 DEF Kept, SymbolAt
    <2>3. SymbolsOf(g)' = SymbolsIn(g, indexedAs[g])'
      BY <1>1, <2>1 DEF SettledAs, SymbolsOf, SymbolsIn, SymbolAt
    <2>4. edges' \subseteq edges
      BY <1>1
    <2> QED
      BY <1>1, <2>1, <2>2, <2>3, <2>4 DEF SettledAs, SymbolAt, Recursive
  <1>8. ResolvedInv'
    BY <1>2 DEF ResolvedInv, Complete, AtStep
  <1> QED
    BY <1>3, <1>4, <1>6, <1>7, <1>8 DEF GraphInv

LEMMA RemoveSymbolsStep ==
  ASSUME GraphInv, NEW f \in SourceFiles, RemoveSymbols(f) PROVE GraphInv'
  <1>1. /\ indexing.at = "remove" /\ indexing.file = {f} /\ f \in indexing.todo
        /\ symbols' = symbols \ SymbolsOf(f)
        /\ indexing' = [indexing EXCEPT !.file = {}]
        /\ UNCHANGED <<sourceOf, indexedAs, edges, interrupted>>
    BY DEF RemoveSymbols, AtStep, GraphInv, StepInv
  <1>2. /\ indexing'.at = "remove" /\ indexing'.todo = indexing.todo /\ indexing'.file = {}
        /\ indexing' \in RunRecords
    BY <1>1, RunIsTyped DEF RunRecords, Steps
  <1>3. TypedInv'
    BY <1>1, <1>2 DEF GraphInv, TypedInv, AtStep
  <1>4. \A e \in edges : e.src.path # f /\ e.dst.path # f
    BY <1>1 DEF GraphInv, StepInv, AtStep
  <1>5. EndsInv'
    BY <1>1, <1>4 DEF GraphInv, EndsInv, NoDanglingEdges, Sound, SymbolsOf
  <1>6. StepInv'
    BY <1>1, <1>2 DEF GraphInv, StepInv, AtStep
  <1>7. SettledInv'
    <2> SUFFICES ASSUME ~interrupted', NEW g \in SourceFiles, g \notin indexing'.todo
                 PROVE  SettledAs(g, indexedAs[g])'
      BY <1>2 DEF SettledInv, AtHand, AtStep
    <2>1. SettledAs(g, indexedAs[g]) /\ g # f
      BY <1>1, <1>2 DEF GraphInv, SettledInv, AtHand, AtStep
    <2>2. SymbolsOf(g)' = SymbolsOf(g)
      BY <1>1, <2>1 DEF SymbolsOf
    <2> QED
      BY <1>1, <2>1, <2>2 DEF SettledAs, SymbolsIn, Kept, SymbolAt, Recursive
  <1>8. ResolvedInv'
    BY <1>2 DEF ResolvedInv, Complete, AtStep
  <1> QED
    BY <1>3, <1>5, <1>6, <1>7, <1>8 DEF GraphInv

LEMMA IngestFileStep == ASSUME GraphInv, NEW f \in SourceFiles, IngestFile(f) PROVE GraphInv'
  <1> PICK c : c = sourceOf[f]
    OBVIOUS
  <1>1. /\ indexing.at = "parse" /\ f \in indexing.todo
        /\ symbols' = symbols \cup SymbolsIn(f, c) /\ edges' = edges \cup EdgesIn(f, c)
        /\ indexing' = [indexing EXCEPT !.at = "hash", !.todo = indexing.todo \ {f},
                                        !.file = {f}, !.read = c]
        /\ UNCHANGED <<sourceOf, indexedAs, interrupted>>
    BY DEF IngestFile, AtStep
  <1>2. c \in Variants[f] /\ c \in Sources
    BY DEF GraphInv, TypedInv
  <1>3. /\ indexing'.at = "hash" /\ indexing'.todo = indexing.todo \ {f}
        /\ indexing'.file = {f} /\ indexing'.read = c /\ indexing' \in RunRecords
    BY <1>1, <1>2, RunIsTyped DEF RunRecords, Steps
  <1>4. ASSUME NEW e \in EdgesIn(f, c)
        PROVE  \E r \in c.refs :
                 /\ e.src = SymbolAt(f, r.from) /\ e.kind = r.kind /\ e.dst.name = r.to
                 /\ e.dst.path = f /\ e.src.path = f /\ e.src \in SymbolsIn(f, c)
                 /\ e.kind \in EdgeKinds
                 /\ Sound(e) /\ (IsPlaceholder(e.dst) \/ e.dst \in SymbolsIn(f, c))
    <2>1. PICK r \in c.refs : e = Edge(SymbolAt(f, r.from), r.kind, Bind(f, c, r))
      BY <1>4 DEF EdgesIn
    <2>2. e.src = SymbolAt(f, r.from) /\ e.kind = r.kind /\ e.dst = Bind(f, c, r)
      BY <2>1 DEF Edge
    <2>3. e.src.path = f
      BY <2>2 DEF SymbolAt
    <2>4. Sound(e)
      BY <1>2, <2>1, <2>2, <2>3, BindIsSound DEF Sound
    <2> QED
      BY <1>2, <2>2, <2>3, <2>4, BindIsSound
  <1>5. \A s \in SymbolsIn(f, c) : s.path = f /\ ~IsPlaceholder(s)
    BY <1>2, SymbolsInAreTyped
  <1>6. TypedInv'
    <2>1. \A s \in symbols' : s.path \in SourceFiles /\ ~IsPlaceholder(s)
      BY <1>1, <1>5 DEF GraphInv, TypedInv
    <2>2. \A e \in edges' : e.kind \in EdgeKinds /\ (IsPlaceholder(e.dst) => e.dst.path = e.src.path)
      BY <1>1, <1>4, EdgesAreTyped
    <2> QED
      BY <1>1, <1>2, <1>3, <2>1, <2>2 DEF GraphInv, TypedInv, AtStep
  <1>7. EndsInv'
    <2> SUFFICES ASSUME NEW e \in edges'
                 PROVE  /\ e.src \in symbols' /\ (IsPlaceholder(e.dst) \/ e.dst \in symbols')
                        /\ Sound(e)
      BY DEF EndsInv, NoDanglingEdges, Sound
    <2>1. CASE e \in edges
      BY <1>1, <2>1, EdgesAreTyped
    <2>2. CASE e \in EdgesIn(f, c)
      BY <1>1, <1>4, <2>2
    <2> QED
      BY <1>1, <2>1, <2>2
  <1>8. SymbolsOf(f) = {} /\ \A g \in indexing.todo : SymbolsOf(g) = {}
    BY <1>1 DEF GraphInv, StepInv, AtStep
  <1>9. \A g : g # f => SymbolsOf(g)' = SymbolsOf(g)
    BY <1>1, <1>5 DEF SymbolsOf
  <1>10. StepInv'
    BY <1>3, <1>8, <1>9 DEF StepInv, AtStep
  <1>11. SettledAs(f, c)'
    <2>1. SymbolsOf(f)' = SymbolsIn(f, c)
      BY <1>1, <1>5, <1>8 DEF SymbolsOf
    <2>2. ASSUME NEW r \in c.refs PROVE Kept(f, r)'
      <3> DEFINE e == Edge(SymbolAt(f, r.from), r.kind, Bind(f, c, r))
      <3>1. e \in edges'
        BY <1>1 DEF EdgesIn
      <3>2. e.src = SymbolAt(f, r.from) /\ e.kind = r.kind /\ e.dst.name = r.to
        BY <1>2, BindIsSound DEF Edge
      <3> QED
        BY <3>1, <3>2 DEF Kept, SymbolAt
    <2>3. ASSUME NEW e \in edges', e.kind = "calls", e.src.path = f
          PROVE  \E r \in c.refs : r.kind = "calls" /\ e.src = SymbolAt(f, r.from)
                                                    /\ e.dst.name = r.to
      <3>1. e \notin edges
        BY <1>8, <2>3, EdgesAreTyped DEF SymbolsOf
      <3> QED
        BY <1>1, <1>4, <2>3, <3>1
    <2> QED
      BY <2>1, <2>2, <2>3 DEF SettledAs, SymbolAt, SymbolsIn, Recursive
  <1>12. SettledInv'
    <2> SUFFICES ASSUME ~interrupted', NEW g \in SourceFiles
                 PROVE  /\ g \notin indexing'.todo /\ g # f => SettledAs(g, indexedAs[g])'
                        /\ SettledAs(f, indexing.read)'
      BY <1>3 DEF SettledInv, AtHand, AtStep
    <2>1. SettledAs(f, indexing.read)'
      BY <1>3, <1>11 DEF SettledAs
    <2>2. ASSUME g \notin indexing'.todo, g # f PROVE SettledAs(g, indexedAs[g])'
      <3>1. SettledAs(g, indexedAs[g])
        BY <1>1, <1>3, <2>2 DEF GraphInv, SettledInv, AtHand, AtStep
      <3>2. SymbolsOf(g)' = SymbolsIn(g, indexedAs[g])'
        BY <1>1, <1>9, <2>2, <3>1 DEF SettledAs, SymbolsIn
      <3>3. ASSUME NEW r \in indexedAs[g].refs, r.kind = "calls", ~Recursive(r) PROVE Kept(g, r)'
        BY <1>1, <3>1, <3>3 DEF SettledAs, Kept
      <3>4. ASSUME NEW e \in edges', e.src.path = g PROVE e \in edges
        BY <1>1, <1>4, <2>2, <3>4
      <3> QED
        BY <1>1, <3>1, <3>2, <3>3, <3>4 DEF SettledAs, Recursive
    <2> QED
      BY <2>1, <2>2
  <1>13. ResolvedInv'
    BY <1>3 DEF ResolvedInv, Complete, AtStep
  <1> QED
    BY <1>6, <1>7, <1>10, <1>12, <1>13 DEF GraphInv

LEMMA RecordHashStep == ASSUME GraphInv, NEW f \in SourceFiles, RecordHash(f) PROVE GraphInv'
  <1>1. /\ indexing.at = "hash" /\ indexing.file = {f}
        /\ indexedAs' = [indexedAs EXCEPT ![f] = indexing.read]
        /\ indexing' = [NoRun EXCEPT !.at = "parse", !.todo = indexing.todo]
        /\ UNCHANGED <<sourceOf, symbols, edges, interrupted>>
    BY DEF RecordHash, AtStep
  <1>2. /\ indexing'.at = "parse" /\ indexing'.todo = indexing.todo /\ indexing'.file = {}
        /\ indexing' \in RunRecords
    BY <1>1, RunIsTyped DEF NoRun, RunRecords, Steps, Sources
  <1>3. indexing.read \in Variants[f] /\ indexing.read \in Sources
    BY <1>1 DEF GraphInv, TypedInv, AtStep, RunRecords
  <1>4. TypedInv'
    <2>1. indexedAs' \in [SourceFiles -> Sources]
      BY <1>1, <1>3 DEF GraphInv, TypedInv
    <2>2. \A g \in SourceFiles : indexedAs'[g] \in Variants[g] \cup {EmptySource}
      BY <1>1, <1>3 DEF GraphInv, TypedInv
    <2> QED
      BY <1>1, <1>2, <2>1, <2>2 DEF GraphInv, TypedInv, AtStep
  <1>5. EndsInv'
    BY <1>1 DEF GraphInv, EndsInv, NoDanglingEdges, Sound
  <1>6. StepInv'
    BY <1>1, <1>2 DEF GraphInv, StepInv, AtStep, SymbolsOf
  <1>7. ASSUME NEW g, NEW c, SettledAs(g, c) PROVE SettledAs(g, c)'
    BY <1>1, <1>7 DEF SettledAs, SymbolsOf, SymbolsIn, Kept, SymbolAt, Recursive
  <1>8. SettledInv'
    <2> SUFFICES ASSUME ~interrupted', NEW g \in SourceFiles, g \notin indexing'.todo
                 PROVE  SettledAs(g, indexedAs[g])'
      BY <1>2 DEF SettledInv, AtHand, AtStep
    <2>1. CASE g = f
      <3>1. SettledAs(f, indexing.read) /\ indexedAs'[f] = indexing.read
        BY <1>1 DEF GraphInv, SettledInv, AtHand, AtStep, TypedInv
      <3> PICK c : c = indexing.read
        OBVIOUS
      <3>2. SettledAs(f, c)'
        BY <1>7, <3>1
      <3> QED
        BY <2>1, <3>1, <3>2 DEF SettledAs
    <2>2. CASE g # f
      <3>1. SettledAs(g, indexedAs[g]) /\ indexedAs'[g] = indexedAs[g]
        BY <1>1, <1>2, <2>2 DEF GraphInv, SettledInv, AtHand, AtStep, TypedInv
      <3> QED
        BY <1>1, <3>1 DEF SettledAs, SymbolsOf, SymbolsIn, Kept, SymbolAt, Recursive
    <2> QED
      BY <2>1, <2>2
  <1>9. ResolvedInv'
    BY <1>2 DEF ResolvedInv, Complete, AtStep
  <1> QED
    BY <1>4, <1>5, <1>6, <1>8, <1>9 DEF GraphInv

LEMMA ResolveStep == GraphInv /\ Resolve => GraphInv'
  <1> SUFFICES ASSUME GraphInv, Resolve PROVE GraphInv'
    OBVIOUS
  <1> DEFINE done == {e \in Unbound : CanBind(e)}
             to(e) == Edge(e.src, e.kind, TheOne(pickCandidate(e)))
  <1>1. /\ indexing.at = "parse" /\ indexing.todo = {}
        /\ edges' = (edges \ (done \cup SelfReferences)) \cup {to(e) : e \in done}
        /\ indexing' = NoRun
        /\ UNCHANGED <<sourceOf, indexedAs, symbols, interrupted>>
    BY DEF Resolve, AtStep, Bound
  <1>2. /\ indexing'.at = "idle" /\ indexing'.todo = {} /\ indexing'.file = {}
        /\ indexing' \in RunRecords
    BY <1>1 DEF NoRun, RunRecords, Steps, Sources
  <1>3. ASSUME NEW e \in done
        PROVE  /\ e \in edges /\ to(e).src = e.src /\ to(e).kind = e.kind
               /\ to(e).dst \in symbols /\ to(e).dst.name = e.dst.name
               /\ ~IsPlaceholder(to(e).dst) /\ Sound(to(e))
    <2>1. e \in edges /\ pickCandidate(e) # {}
      BY DEF Unbound, CanBind
    <2>2. TheOne(pickCandidate(e)) \in Candidates(e)
      BY <2>1, TheOneIsIn, PickedIsCandidate
    <2>3. \A s \in symbols : ~IsPlaceholder(s)
      BY DEF GraphInv, TypedInv
    <2> QED
      BY <2>1, <2>2, <2>3 DEF Edge, Candidates, Sound
  <1> HIDE DEF to, done
  <1>4. \A x \in edges' : \/ x \in edges /\ x \notin done /\ x \notin SelfReferences
                          \/ \E e \in done : x = to(e)
    BY <1>1
  <1>5. \A s \in symbols : s.path \in SourceFiles /\ ~IsPlaceholder(s)
    BY DEF GraphInv, TypedInv
  <1>6. ASSUME NEW x \in edges'
        PROVE  /\ x.kind \in EdgeKinds /\ (IsPlaceholder(x.dst) => x.dst.path = x.src.path)
               /\ x.src \in symbols /\ (IsPlaceholder(x.dst) \/ x.dst \in symbols)
               /\ Sound(x)
    <2>1. CASE x \in edges
      BY <2>1, EdgesAreTyped
    <2>2. ASSUME NEW e \in done, x = to(e)
          PROVE  /\ x.kind \in EdgeKinds /\ ~IsPlaceholder(x.dst) /\ x.dst \in symbols
                 /\ x.src \in symbols /\ Sound(x)
      BY <1>3, <1>5, <2>2, EdgesAreTyped
    <2> QED
      BY <1>4, <2>1, <2>2
  <1>7. TypedInv'
    BY <1>1, <1>2, <1>6 DEF GraphInv, TypedInv, AtStep
  <1>8. EndsInv'
    BY <1>1, <1>6 DEF EndsInv, NoDanglingEdges, Sound
  <1>9. StepInv'
    BY <1>2 DEF StepInv, AtStep
  <1>10. SettledInv'
    <2> SUFFICES ASSUME ~interrupted', NEW f \in SourceFiles
                 PROVE  SettledAs(f, indexedAs[f])'
      BY <1>2 DEF SettledInv, AtHand, AtStep
    <2>1. SettledAs(f, indexedAs[f])
      BY <1>1 DEF GraphInv, SettledInv, AtHand, AtStep
    <2>2. \A e \in edges : OfItself(e) \/ \E x \in edges' : Alike(e, x)
      <3> SUFFICES ASSUME NEW e \in edges, ~OfItself(e) PROVE \E x \in edges' : Alike(e, x)
        OBVIOUS
      <3>1. e \notin SelfReferences
        BY DEF SelfReferences, OfItself
      <3> QED
        BY <1>1, <1>3, <3>1 DEF Alike
    <2>3. \A x \in edges' : \E e \in edges : Alike(e, x)
      BY <1>3, <1>4 DEF Alike
    <2> DEFINE c == indexedAs[f]
    <2>4. SettledAs(f, c)
      BY <2>1
    <2> HIDE DEF c
    <2>5. SettledAs(f, c)'
      BY <1>1, <2>2, <2>3, <2>4, RetargetingKeepsSettled DEF c
    <2> QED
      BY <1>1, <2>5 DEF c
  <1>11. ResolvedInv'
    <2> SUFFICES ASSUME NEW e \in edges', IsPlaceholder(e.dst)
                 PROVE  pickCandidate(e)' = {} /\ e \notin SelfReferences'
      BY DEF ResolvedInv
    <2>1. e \in edges /\ e \notin done /\ e \notin SelfReferences
      BY <1>3, <1>4, <1>5
    <2>2. pickCandidate(e) = {}
      BY <2>1 DEF done, Unbound, CanBind
    <2>3. pickCandidate(e)' = pickCandidate(e)
      BY <1>1 DEF pickCandidate, Candidates
    <2>4. e \notin SelfReferences'
      BY <1>1, <2>1 DEF SelfReferences, Unbound
    <2> QED
      BY <2>2, <2>3, <2>4
  <1> QED
    BY <1>7, <1>8, <1>9, <1>10, <1>11 DEF GraphInv

LEMMA GraphStep == GraphInv /\ [CallGraphNext]_graphVars => GraphInv'
  <1> SUFFICES ASSUME GraphInv, [CallGraphNext]_graphVars PROVE GraphInv'
    OBVIOUS
  <1>1. ASSUME NEW f \in SourceFiles,
               EditSource(f) \/ RemoveEdges(f) \/ RemoveSymbols(f) \/ IngestFile(f) \/ RecordHash(f)
        PROVE  GraphInv'
    BY <1>1, EditSourceStep, RemoveEdgesStep, RemoveSymbolsStep, IngestFileStep, RecordHashStep
  <1>2. CASE RunDies \/ ResolveFails \/ \E f \in SourceFiles : SkipFile(f)
    BY <1>2, InterruptedStep
  <1>3. CASE StartFull \/ StartIncremental \/ RevertEdges \/ RemovedAll \/ Resolve
    BY <1>3, StartFullStep, StartIncrementalStep, RevertEdgesStep, RemovedAllStep, ResolveStep
  <1>4. CASE UNCHANGED graphVars
    <2>1. UNCHANGED <<sourceOf, indexedAs, symbols, edges, indexing, interrupted>>
      BY <1>4 DEF graphVars
    <2>2. TypedInv' /\ EndsInv' /\ StepInv'
      BY <2>1 DEF GraphInv, TypedInv, EndsInv, NoDanglingEdges, Sound, StepInv, AtStep, SymbolsOf
    <2>3. \A g, c : SettledAs(g, c)' <=> SettledAs(g, c)
      BY <2>1 DEF SettledAs, Kept, SymbolsOf, Recursive
    <2>4. SettledInv'
      BY <2>1, <2>3 DEF GraphInv, SettledInv, AtStep, AtHand
    <2>5. \A e : pickCandidate(e)' = pickCandidate(e)
      BY <2>1 DEF pickCandidate, Candidates
    <2> QED
      BY <2>1, <2>2, <2>4, <2>5
         DEF GraphInv, ResolvedInv, Complete, AtStep, SelfReferences, Unbound
  <1> QED
    BY <1>1, <1>2, <1>3, <1>4 DEF CallGraphNext
------------------------------------------------------------------------------
\* The tables and the run are well typed: a placeholder is of the file that
\* refers, and the content whose hash is recorded is one the file had.
THEOREM GraphIsTyped == CallGraphSpec => []CallGraphTypeOK
  <1>1. GraphInv => CallGraphTypeOK
    BY DEF GraphInv, TypedInv, CallGraphTypeOK, RunRecords, Steps
  <1> QED
    BY <1>1, GraphInitially, GraphStep, PTL DEF CallGraphSpec

\* In every state, also those a crash can leave between two transactions, both
\* ends of every edge exist.
THEOREM EdgesHaveEnds == CallGraphSpec => []NoDanglingEdges
  <1>1. GraphInv => NoDanglingEdges
    BY DEF GraphInv, EndsInv
  <1> QED
    BY <1>1, GraphInitially, GraphStep, PTL DEF CallGraphSpec

\* However often files are edited and in whatever sets they are indexed again,
\* no call of any file is lost.
THEOREM CallsAreKept == CallGraphSpec => []CallsKept
  <1>1. ASSUME GraphInv, Complete PROVE \A f \in SourceFiles : SettledAs(f, indexedAs[f])
    BY <1>1 DEF GraphInv, SettledInv, StepInv, Complete, AtStep, AtHand
  <1>2. GraphInv => CallsKept
    BY <1>1 DEF CallsKept, SettledAs
  <1> QED
    BY <1>2, GraphInitially, GraphStep, PTL DEF CallGraphSpec

\* An edge of a call leads where a full run would lead it, if names are unique.
LEMMA TargetIsFullTarget ==
  ASSUME GraphInv, Complete, symbols = FullSymbols,
         \A s, t \in FullSymbols : s.name = t.name => s = t,
         NEW f \in SourceFiles, NEW r \in indexedAs[f].refs, NEW e \in edges,
         e.src = SymbolAt(f, r.from), e.kind = "calls", e.dst.name = r.to
  PROVE  e = Edge(SymbolAt(f, r.from), "calls", FullTarget(f, r))
  <1> DEFINE named == {s \in FullSymbols : s.name = r.to /\ s # SymbolAt(f, r.from)}
  <1>1. Sound(e) /\ (IsPlaceholder(e.dst) \/ e.dst \in symbols) /\ e.src.path = f
    BY EdgesAreTyped DEF SymbolAt
  <1>2. Candidates(e) = named
    BY DEF Candidates
  <1>3. FullTarget(f, r) = IF named = {} THEN Placeholder(f, r.to) ELSE TheOne(named)
    BY DEF FullTarget
  <1>4. \A s, t \in named : s = t
    OBVIOUS
  <1>5. CASE IsPlaceholder(e.dst)
    <2>1. pickCandidate(e) = {}
      BY <1>5 DEF GraphInv, ResolvedInv
    <2>2. named = {}
      <3> SUFFICES ASSUME NEW s \in named PROVE FALSE
        OBVIOUS
      <3>1. Candidates(e) = {s}
        BY <1>2, <1>4
      <3>2. pickCandidate(e) = {s}
        BY <3>1, OnlyCandidateIsPicked
      <3> QED
        BY <2>1, <3>2
    <2>3. e.dst = Placeholder(f, r.to)
      BY <1>1, <1>5 DEF Sound
    <2> QED
      BY <1>1, <1>3, <2>2, <2>3 DEF Sound
  <1>6. CASE e.dst \in symbols
    <2>1. e.dst \in named
      BY <1>1, <1>6 DEF Sound
    <2>2. TheOne(named) = e.dst
      BY <1>4, <2>1, TheOneIsIn
    <2> QED
      BY <1>1, <1>3, <2>1, <2>2 DEF Sound
  <1> QED
    BY <1>1, <1>5, <1>6

\* If names are unique, no method that calls itself has an edge for it.
LEMMA NoneOfItself ==
  ASSUME GraphInv, Complete, symbols = FullSymbols,
         \A s, t \in FullSymbols : s.name = t.name => s = t,
         NEW f \in SourceFiles, NEW r \in indexedAs[f].refs, NEW e \in edges,
         e.src = SymbolAt(f, r.from), e.kind = "calls", e.dst.name = r.to
  PROVE  ~Recursive(r)
  <1> SUFFICES ASSUME Recursive(r) PROVE FALSE
    OBVIOUS
  <1>1. Sound(e) /\ (IsPlaceholder(e.dst) \/ e.dst \in symbols) /\ e.src \in symbols
    BY EdgesAreTyped
  <1>2. e.dst.name \in Methods /\ e.dst.name = e.src.name
    BY DEF Recursive, SymbolAt
  <1>3. CASE IsPlaceholder(e.dst)
    <2>1. {s \in symbols : s.name = e.dst.name} = {e.src}
      BY <1>1, <1>2
    <2> QED
      BY <1>2, <1>3, <2>1 DEF GraphInv, ResolvedInv, SelfReferences, Unbound
  <1>4. CASE e.dst \in symbols
    BY <1>1, <1>2, <1>4 DEF Sound
  <1> QED
    BY <1>1, <1>3, <1>4

\* After any history of edits and runs that came to their end, the tables are
\* those of one full run on the contents that were indexed.
THEOREM IncrementalIsFull == CallGraphSpec => []IncrementalEqualsFull
  <1>1. ASSUME GraphInv, Complete PROVE \A f \in SourceFiles : SettledAs(f, indexedAs[f])
    BY <1>1 DEF GraphInv, SettledInv, StepInv, Complete, AtStep, AtHand
  <1>2. ASSUME GraphInv, Complete PROVE symbols = FullSymbols
    <2>1. \A s \in symbols : s.path \in SourceFiles /\ s \in SymbolsOf(s.path)
      BY <1>2 DEF GraphInv, TypedInv, SymbolsOf
    <2>2. \A f \in SourceFiles : SymbolsOf(f) = SymbolsIn(f, indexedAs[f]) /\ SymbolsOf(f) \subseteq symbols
      BY <1>1, <1>2 DEF SettledAs, SymbolsOf
    <2> QED
      BY <2>1, <2>2 DEF FullSymbols
  <1>3. ASSUME GraphInv, Complete, \A s, t \in FullSymbols : s.name = t.name => s = t
        PROVE  {e \in edges : e.kind = "calls"} = FullCalls
    <2>1. ASSUME NEW e \in edges, e.kind = "calls" PROVE e \in FullCalls
      <3>1. e.src.path \in SourceFiles
        BY <1>3, EdgesAreTyped DEF GraphInv, TypedInv
      <3> DEFINE f == e.src.path
      <3>2. PICK r \in indexedAs[f].refs : r.kind = "calls" /\ e.src = SymbolAt(f, r.from)
                                                            /\ e.dst.name = r.to
        BY <1>1, <1>3, <2>1, <3>1 DEF SettledAs
      <3>3. ~Recursive(r)
        BY <1>2, <1>3, <2>1, <3>1, <3>2, NoneOfItself
      <3>4. e = Edge(SymbolAt(f, r.from), "calls", FullTarget(f, r))
        BY <1>2, <1>3, <2>1, <3>1, <3>2, TargetIsFullTarget
      <3> QED
        BY <3>1, <3>2, <3>3, <3>4 DEF FullCalls
    <2>2. ASSUME NEW f \in SourceFiles, NEW r \in indexedAs[f].refs, r.kind = "calls",
                 ~Recursive(r)
          PROVE  Edge(SymbolAt(f, r.from), "calls", FullTarget(f, r)) \in
                   {e \in edges : e.kind = "calls"}
      <3>1. PICK e \in edges : /\ e.src = SymbolAt(f, r.from) /\ e.kind = r.kind
                               /\ e.dst.name = r.to
        BY <1>1, <1>3, <2>2 DEF SettledAs, Kept
      <3> QED
        BY <1>2, <1>3, <2>2, <3>1, TargetIsFullTarget
    <2> QED
      BY <2>1, <2>2 DEF FullCalls
  <1>4. GraphInv => IncrementalEqualsFull
    BY <1>2, <1>3 DEF IncrementalEqualsFull
  <1> QED
    BY <1>4, GraphInitially, GraphStep, PTL DEF CallGraphSpec
=============================================================================
