-------------------------------- MODULE Queues --------------------------------
(* Counting what waits in a queue.                                           *)
EXTENDS Naturals, Sequences, FiniteSets

Hit(x, S) == IF x \in S THEN 1 ELSE 0

(* How many elements of q are in S.                                          *)
Count(q, S) == Cardinality({i \in DOMAIN q : q[i] \in S})
=============================================================================
