----------------------------- MODULE LeaderRank -----------------------------
(***************************************************************************)
(* The order findLeader (ocr/leader_selection.go) compares peers in.       *)
(* hashPeer stands for the HMAC of an id in the epoch at hand; its hex     *)
(* strings are ordered like numbers of the same length, and two ids are    *)
(* taken to have different hashes.                                         *)
(***************************************************************************)
EXTENDS Naturals

CONSTANTS
    Id,        \* server ids
    NoId,      \* the empty server id of a peer without handshake
    hashPeer   \* HMAC-SHA256 of an id, secret key and epoch fixed

AnyId == Id \cup {NoId}

ASSUME NoIdAssumption == NoId \notin Id
ASSUME HashAssumption ==
    /\ hashPeer \in [AnyId -> Nat]
    /\ \A i, j \in AnyId : hashPeer[i] = hashPeer[j] => i = j

\* What findLeader promises: the id of a set with the smallest hash.
IsLeaderOf(m, S) == m \in S /\ \A i \in S : hashPeer[m] =< hashPeer[i]
=============================================================================
