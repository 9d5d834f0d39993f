----------------------------- MODULE MCCallGraph -----------------------------
EXTENDS CallGraph

\* A base class that moves, a class that extends it and calls it, and a file
\* that may define the same name, and a method that calls it and itself.
Def(line, name) == [line |-> line, name |-> name]
Ref(from, kind, to) == [from |-> from, kind |-> kind, to |-> to]
CodeVariants ==
  LET C == Def(1, "C")
      User == [defs |-> {C}, refs |-> {Ref(C, "calls", "A"), Ref(C, "inherits", "A")}]
  IN [base  |-> {[defs |-> {Def(1, "A")}, refs |-> {}], [defs |-> {Def(2, "A")}, refs |-> {}]},
      user  |-> {User},
      other |-> {EmptySource, [defs |-> {Def(1, "A"), Def(2, "B")},
                             refs |-> {Ref(Def(2, "B"), "calls", "A"),
                                       Ref(Def(2, "B"), "calls", "B")}]}]
CodeFiles == DOMAIN CodeVariants
CodePreferred == [f \in CodeFiles |-> "other"]
=============================================================================
