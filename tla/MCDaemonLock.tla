---------------------------- MODULE MCDaemonLock ----------------------------
(* Instances of DaemonLock for TLC. *)
EXTENDS DaemonLock

CONSTANTS p1, p2, p3

\* The processes are interchangeable until they have roles, so only one of the
\* orders in which the roles can be given out is explored.
Rank == [r \in Roles |-> IF r = "daemon" THEN 1 ELSE IF r = "ensure" THEN 2 ELSE 3]
RankOf(p) == Rank[proc[p].role]
Sorted == RankOf(p1) <= RankOf(p2) /\ RankOf(p2) <= RankOf(p3)

SortedInit == Init /\ Sorted

SortedSpec == SortedInit /\ [][Next]_vars /\ Fairness
=============================================================================
