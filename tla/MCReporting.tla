---------------------------- MODULE MCReporting ----------------------------
(***************************************************************************)
(* Model values for Reporting: l leads a, b (and c); r, when present, has  *)
(* elected itself because it has not heard of l, and c then elected a peer *)
(* whose handshake it has not seen.                                        *)
(***************************************************************************)
EXTENDS Reporting, TLC

CONSTANTS l, r, a, b, c

OneLeader == [x \in Node |-> l]
Rivals == [x \in Node |-> CASE x = r -> r [] x = c -> NoId [] OTHER -> l]

RivalsSymmetry == Permutations({a, b})
=============================================================================
