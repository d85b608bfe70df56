----------------------------- MODULE MCIngestion -----------------------------
(* Ingestion on small instances. *)
EXTENDS Ingestion, TLC

CONSTANTS p1, p2, t1, t2

OneProcess == [t \in Thread |-> p1]
TwoProcesses == [t \in Thread |-> IF t = t1 THEN p1 ELSE p2]
OneTurn == [t \in Thread |-> 1]
TwoTurns == [t \in Thread |-> 2]
ThreeTurns == [t \in Thread |-> 3]
TwoTurnsAndOne == [t \in Thread |-> IF t = t1 THEN 2 ELSE 1]
=============================================================================
