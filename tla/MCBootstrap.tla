---------------------------- MODULE MCBootstrap ----------------------------
(* The blank id's hash lies between those of the nodes. *)
EXTENDS Bootstrap

CONSTANTS a, b, c

Hashes == [i \in AnyId |-> CASE i = a -> 1 [] i = NoId -> 2 [] i = b -> 3 [] i = c -> 4]

\* A peer is announced once; or b's twice to a, and a's three times to b.
Once == [x \in Id |-> 1]
Often == [x \in Id |-> IF x = a THEN 2 ELSE 3]
=============================================================================
