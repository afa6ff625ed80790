----------------------- MODULE LeaderSelectionProofs -----------------------
(***************************************************************************)
(* findLeader computes a minimum, and a minimum is unique.                 *)
(***************************************************************************)
EXTENDS LeaderSelection, TLAPS

\* The order findLeader compares in has one minimum in a set of ids: nodes that
\* read the same ids elect the same leader.
THEOREM LeaderUnique ==
    ASSUME NEW S \in SUBSET AnyId, NEW a, NEW b, IsLeaderOf(a, S), IsLeaderOf(b, S)
    PROVE  a = b
<1>1. a \in AnyId /\ b \in AnyId
  BY DEF IsLeaderOf
<1>2. hashPeer[a] =< hashPeer[b] /\ hashPeer[b] =< hashPeer[a]
  BY DEF IsLeaderOf
<1>3. hashPeer[a] \in Nat /\ hashPeer[b] \in Nat
  BY <1>1, HashAssumption
<1>4. hashPeer[a] = hashPeer[b]
  BY <1>2, <1>3
<1> QED
  BY <1>1, <1>4, HashAssumption

\* The loop invariant: minHash and selectedPeer are those of a minimum of the
\* ids read, and there is one as soon as a peer has been visited.
ScanInv ==
    /\ selectedPeer = nil => read = {} /\ left = peers
    /\ selectedPeer # nil => minHash = hashPeer[selectedPeer] /\ IsLeaderOf(selectedPeer, read)

ScanIndInv == ElectionTypeOK /\ ScanInv /\ LeaderIsMinimum /\ BackoffOnlyWhenAlone

\* Before the first call nothing is read.
LEMMA ScanInit == ElectionInit => ScanIndInv
<1> SUFFICES ASSUME ElectionInit PROVE ScanIndInv
  OBVIOUS
<1> USE DEF ElectionInit
<1>1. ElectionTypeOK
  BY DEF ElectionTypeOK
<1>2. ScanInv
  BY DEF ScanInv
<1>3. LeaderIsMinimum /\ BackoffOnlyWhenAlone
  BY ResultAssumption DEF LeaderIsMinimum, BackoffOnlyWhenAlone
<1> QED
  BY <1>1, <1>2, <1>3 DEF ScanIndInv

\* One step of the loop body keeps the minimum.
LEMMA VisitKeepsInv ==
    ASSUME ScanIndInv, NEW p \in left, NEW id \in AnyId, Visit(p, id)
    PROVE  ScanIndInv'
<1>1. /\ self \in Id /\ peers \subseteq Peer /\ left \subseteq peers /\ read \subseteq AnyId
      /\ minHash \in Nat /\ selectedPeer \in AnyId \cup {nil}
      /\ result = running
  BY DEF ScanIndInv, ElectionTypeOK, Visit
<1>2. /\ self' = self /\ peers' = peers /\ result' = running
      /\ left' = left \ {p} /\ read' = read \cup {id}
  BY DEF ScanIndInv, ElectionTypeOK, Visit
<1>3. hashPeer[id] \in Nat
  BY HashAssumption
<1>4. ScanInv
  BY DEF ScanIndInv
<1>5. CASE Smaller(hashPeer[id])
  <2>1. minHash' = hashPeer[id] /\ selectedPeer' = id
    BY <1>5 DEF Visit
  <2>2. ASSUME NEW i \in read PROVE hashPeer[id] =< hashPeer[i]
    <3>1. selectedPeer \in AnyId /\ hashPeer[id] < minHash
      BY <1>1, <1>4, <1>5, <2>2 DEF ScanInv, Smaller
    <3>2. minHash =< hashPeer[i]
      BY <3>1, <1>4, <2>2, ResultAssumption DEF ScanInv, IsLeaderOf
    <3>3. hashPeer[i] \in Nat
      BY <1>1, <2>2, HashAssumption
    <3> QED
      BY <3>1, <3>2, <3>3, <1>1, <1>3
  <2>3. IsLeaderOf(id, read \cup {id})
    BY <2>2, <1>3 DEF IsLeaderOf
  <2>4. ScanInv'
    BY <2>1, <2>3, <1>2, ResultAssumption DEF ScanInv, IsLeaderOf
  <2>5. ElectionTypeOK'
    BY <1>1, <1>2, <1>3, <2>1 DEF ElectionTypeOK
  <2> QED
    BY <2>4, <2>5, <1>2, ResultAssumption DEF ScanIndInv, LeaderIsMinimum, BackoffOnlyWhenAlone
<1>6. CASE ~Smaller(hashPeer[id])
  <2>1. minHash' = minHash /\ selectedPeer' = selectedPeer
    BY <1>6 DEF Visit
  <2>2. selectedPeer \in AnyId /\ selectedPeer # nil /\ minHash =< hashPeer[id]
    BY <1>1, <1>3, <1>6 DEF Smaller
  <2>3. IsLeaderOf(selectedPeer, read \cup {id})
    BY <1>4, <2>2 DEF ScanInv, IsLeaderOf
  <2>4. ScanInv'
    BY <1>2, <1>4, <2>1, <2>2, <2>3 DEF ScanInv, IsLeaderOf
  <2>5. ElectionTypeOK'
    BY <1>1, <1>2, <2>1 DEF ElectionTypeOK
  <2> QED
    BY <2>4, <2>5, <1>2, ResultAssumption DEF ScanIndInv, LeaderIsMinimum, BackoffOnlyWhenAlone
<1> QED
  BY <1>5, <1>6

\* The comparison with the caller extends the minimum to the caller's own id.
LEMMA CompareSelfKeepsInv ==
    ASSUME ScanIndInv, CompareSelf
    PROVE  ScanIndInv'
<1>1. /\ self \in Id /\ peers # {} /\ left = {} /\ read \subseteq AnyId
      /\ minHash \in Nat /\ selectedPeer \in AnyId \cup {nil}
      /\ UNCHANGED <<self, peers, left, read, minHash, selectedPeer>>
  BY DEF ScanIndInv, ElectionTypeOK, CompareSelf
<1>2. selectedPeer \in AnyId /\ minHash = hashPeer[selectedPeer] /\ IsLeaderOf(selectedPeer, read)
  BY <1>1 DEF ScanIndInv, ScanInv
<1>3. hashPeer[self] \in Nat /\ \A i \in read : hashPeer[i] \in Nat
  BY <1>1, HashAssumption DEF AnyId
<1>4. CASE hashPeer[self] < minHash
  <2>1. result' = self
    BY <1>4 DEF CompareSelf
  <2>2. \A i \in read : hashPeer[self] =< hashPeer[i]
    BY <1>1, <1>2, <1>3, <1>4 DEF IsLeaderOf
  <2>3. IsLeaderOf(self, read \cup {self})
    BY <1>3, <2>2 DEF IsLeaderOf
  <2> QED
    BY <1>1, <1>2, <2>1, <2>3, ResultAssumption
    DEF ScanIndInv, ElectionTypeOK, ScanInv, LeaderIsMinimum, BackoffOnlyWhenAlone, AnyId
<1>5. CASE ~(hashPeer[self] < minHash)
  <2>1. result' = selectedPeer
    BY <1>5 DEF CompareSelf
  <2>2. IsLeaderOf(selectedPeer, read \cup {self})
    BY <1>1, <1>2, <1>3, <1>5 DEF IsLeaderOf
  <2> QED
    BY <1>1, <1>2, <2>1, <2>2, ResultAssumption
    DEF ScanIndInv, ElectionTypeOK, ScanInv, LeaderIsMinimum, BackoffOnlyWhenAlone
<1> QED
  BY <1>4, <1>5

\* Every step of findLeader and of its caller keeps the loop invariant.
LEMMA ScanNext == ScanIndInv /\ [ElectionNext]_electionVars => ScanIndInv'
<1> SUFFICES ASSUME ScanIndInv, [ElectionNext]_electionVars PROVE ScanIndInv'
  OBVIOUS
<1>1. CASE NotEnoughPeers
  BY <1>1, ResultAssumption
  DEF NotEnoughPeers, ScanIndInv, ElectionTypeOK, ScanInv, LeaderIsMinimum, BackoffOnlyWhenAlone
<1>2. ASSUME NEW p \in left, NEW id \in AnyId, Visit(p, id) PROVE ScanIndInv'
  BY <1>2, VisitKeepsInv
<1>3. CASE CompareSelf
  BY <1>3, CompareSelfKeepsInv
<1>4. CASE exponentialBackoff
  BY <1>4, ResultAssumption
  DEF exponentialBackoff, ScanIndInv, ElectionTypeOK, ScanInv, LeaderIsMinimum, BackoffOnlyWhenAlone
<1>5. CASE ElectionReturns
  BY <1>5, ResultAssumption
  DEF ElectionReturns, ScanIndInv, ElectionTypeOK, ScanInv, LeaderIsMinimum, BackoffOnlyWhenAlone
<1>6. CASE UNCHANGED electionVars
  BY <1>6 DEF electionVars, ScanIndInv, ElectionTypeOK, ScanInv, LeaderIsMinimum, BackoffOnlyWhenAlone
<1> QED
  BY <1>1, <1>2, <1>3, <1>4, <1>5, <1>6 DEF ElectionNext, Electing

\* Whatever the peers, their order and their hashes, findLeader returns the
\* smallest of the ids it read and the caller's own.
THEOREM FindLeaderCorrect == ElectionSpec => []LeaderIsMinimum
<1>1. ScanIndInv => LeaderIsMinimum
  BY DEF ScanIndInv
<1> QED
  BY ScanInit, ScanNext, <1>1, PTL DEF ElectionSpec

\* exponentialBackoff retries on an empty tree only.
THEOREM NoNeedlessBackoff == ElectionSpec => []BackoffOnlyWhenAlone
<1>1. ScanIndInv => BackoffOnlyWhenAlone
  BY DEF ScanIndInv
<1> QED
  BY ScanInit, ScanNext, <1>1, PTL DEF ElectionSpec
=============================================================================
