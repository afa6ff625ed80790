-------------------------- MODULE LeaderSelection --------------------------
(***************************************************************************)
(* Calls of findLeader by exponentialBackoff: the scan over the AVL tree   *)
(* of peers, in the order of their network ids, and the comparison with    *)
(* the node itself.  The order of the network ids says nothing about the   *)
(* server ids, so any peer may be the next one; and the tree is read       *)
(* without peerLock while handshakes set ServerIDs, so the id of a peer is *)
(* what it is when the scan comes to it.                                   *)
(***************************************************************************)
EXTENDS LeaderRank

CONSTANTS
    Peer,      \* network ids, the keys of the tree
    running,   \* the call has not returned yet
    nil        \* no peer selected, no leader returned

ASSUME ResultAssumption == running \notin AnyId /\ nil \notin AnyId /\ nil # running

VARIABLES
    self,      \* the server id of the caller
    peers,     \* the network ids in the tree
    left,      \* the peers the scan has yet to visit
    read,      \* the ServerIDs it has read
    minHash,   \* the smallest hash so far; meaningless before the first visit
    selectedPeer,  \* the id it belongs to
    result     \* what the call returned; nil too when there is none

electionVars == <<self, peers, left, read, minHash, selectedPeer, result>>

ElectionInit ==
    /\ self \in Id
    /\ peers = {} /\ left = {} /\ read = {}
    /\ minHash = 0 /\ selectedPeer = nil /\ result = nil

\* exponentialBackoff calls findLeader, at once or after its sleep, with the tree
\* as it then is.
exponentialBackoff ==
    /\ result = nil
    /\ \E P \in SUBSET Peer : peers' = P /\ left' = P
    /\ read' = {} /\ minHash' = 0 /\ selectedPeer' = nil /\ result' = running
    /\ UNCHANGED self

\* numOracles < 1
NotEnoughPeers ==
    /\ result = running
    /\ peers = {}
    /\ result' = nil
    /\ UNCHANGED <<self, peers, left, read, minHash, selectedPeer>>

\* Mutant: the first peer is compared with the empty minHash.
SmallerNoFirst(h) == h < minHash
\* Mutant: the comparison is turned round.
SmallerReversed(h) == selectedPeer = nil \/ h > minHash

Smaller(h) == selectedPeer = nil \/ h < minHash

Visit(p, id) ==
    /\ result = running
    /\ left' = left \ {p}
    /\ read' = read \cup {id}
    /\ IF Smaller(hashPeer[id])
       THEN minHash' = hashPeer[id] /\ selectedPeer' = id
       ELSE UNCHANGED <<minHash, selectedPeer>>
    /\ UNCHANGED <<self, peers, result>>

\* The caller itself is not in the tree and is compared last.
CompareSelf ==
    /\ result = running
    /\ peers # {} /\ left = {}
    /\ result' = IF hashPeer[self] < minHash THEN self ELSE selectedPeer
    /\ UNCHANGED <<self, peers, left, read, minHash, selectedPeer>>

\* exponentialBackoff returns the leader to Start, and the call is forgotten.
ElectionReturns ==
    /\ result \in AnyId
    /\ peers' = {} /\ left' = {} /\ read' = {}
    /\ minHash' = 0 /\ selectedPeer' = nil /\ result' = nil
    /\ UNCHANGED self

Electing ==
    \/ exponentialBackoff
    \/ NotEnoughPeers
    \/ \E p \in left, id \in AnyId : Visit(p, id)
    \/ CompareSelf

ElectionNext == Electing \/ ElectionReturns

ElectionSpec == ElectionInit /\ [][ElectionNext]_electionVars

----------------------------------------------------------------------------
ElectionTypeOK ==
    /\ self \in Id
    /\ peers \subseteq Peer
    /\ left \subseteq peers
    /\ read \subseteq AnyId
    /\ minHash \in Nat
    /\ selectedPeer \in AnyId \cup {nil}
    /\ result \in AnyId \cup {running, nil}

\* findLeader returns the id with the smallest hash among those it read and the
\* caller's own, in whatever order the tree is scanned, whatever handshakes
\* arrive meanwhile and with any number of peers without ServerID.
LeaderIsMinimum == result \in AnyId => IsLeaderOf(result, read \cup {self})

\* Nobody backs off while it has a peer: the only calls without a leader are
\* those on an empty tree.
BackoffOnlyWhenAlone == result = nil => peers = {}
=============================================================================
