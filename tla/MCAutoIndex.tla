---------------------------- MODULE MCAutoIndex ----------------------------
(* Instances of AutoIndex for TLC. *)
EXTENDS AutoIndex

CONSTANTS f1, f2
=============================================================================
