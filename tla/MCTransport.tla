---------------------------- MODULE MCTransport ----------------------------
(***************************************************************************)
(* The leader b sends a an ObserveReq (req): its handler, on a's server    *)
(* loop, answers with more than one read holds (res).  Meanwhile the       *)
(* goroutine of a that greets new peers sends b a Status, and another when *)
(* b is announced a second time (status, again).  Between them they fill   *)
(* everything there is on the way to b: the window, the hand of a reader   *)
(* that has lt.mu, and msgCh.                                              *)
(***************************************************************************)
EXTENDS Transport

CONSTANTS a, b, req, res, status, again

FromMap == [m \in Message |-> IF m = req THEN b ELSE a]
ToMap == [m \in Message |-> IF m = req THEN a ELSE b]
SizeMap == [m \in Message |-> IF m = res THEN 3 ELSE 1]
NextMap == [m \in Message |-> IF m = status THEN again ELSE None]
ReplyMap == [m \in Message |-> IF m = req THEN res ELSE None]
=============================================================================
