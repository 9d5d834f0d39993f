------------------------------ MODULE MCIndexer ------------------------------
(* Instances of Indexer for TLC. *)
EXTENDS Indexer

CONSTANTS p1, p2, f1, f2, f3

\* f2's symbols are called from f3.
OneImport == [f \in Files |-> IF f = f2 THEN {f3} ELSE {}]

AllCommitted == [f \in Files |-> 1]

\* With contents 1 and 2, only f1 can be edited.
OneEditable == [f \in Files |-> IF f = f1 THEN 1 ELSE 2]

SameVersion == [p \in Procs |-> 1]
=============================================================================
