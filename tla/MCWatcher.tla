------------------------------ MODULE MCWatcher ------------------------------
(* Instances of Watcher for TLC. *)
EXTENDS Watcher

CONSTANTS f1, f2, root, sub, t1, t2

\* One file lives in a directory that may be created while watching.
OneInSub == [f \in Files |-> IF f = f1 THEN sub ELSE root]
=============================================================================
