-------------------------- MODULE BootstrapProofs --------------------------
(***************************************************************************)
(* Proofs about Bootstrap.  The argument rests on what never happens to a  *)
(* ProtcolPeer: it is never taken away, and its name, once set, is the     *)
(* name of its peer for good (Grows).                                      *)
(***************************************************************************)
EXTENDS Bootstrap, FiniteSetTheorems, SequenceTheorems, WellFoundedInduction, TLAPS

\* handleNewPeer holds peerLock for some other node.
AddingInv == \A x \in Id : peerLock[x] = "adding" => newPeer[x] \in Id

\* Until a count is received the first one in the channel is 1, and without one
\* the tree is empty or has the one peer being added.
FirstCountInv ==
    \A x \in Id : pm[x] = "peerCount" =>
        \/ peerCountChan[x] # <<>> /\ Head(peerCountChan[x]) = 1
        \/ peerCountChan[x] = <<>> /\ peerLock[x] = "adding" /\ InTree(x) = {newPeer[x]}
        \/ peerCountChan[x] = <<>> /\ peerLock[x] # "adding" /\ InTree(x) = {}

\* A ProtcolPeer has no ServerID or that of its peer, which is then in the map.
NameInv ==
    \A x, y \in Id :
        /\ x = y => peers[x][y] = <<>>
        /\ \A k \in 1..Len(peers[x][y]) :
               \/ peers[x][y][k] = NoId
               \/ peers[x][y][k] = y /\ y \in appIdToPeerId[x]

\* What a scan has read are ProtcolPeers, and their names unless it came too early.
SeenInv ==
    \A x \in Id : \A v \in seen[x] :
        /\ v[1] \in Id \ {x}
        /\ v[2] \in 1..Len(peers[x][v[1]])
        /\ v[3] \in {NoId, peers[x][v[1]][v[2]]}

\* The ProtcolPeer an election returned is one of its peer's.
PointerInv ==
    \A x \in Id : elected[x][1] # x => elected[x][2] \in 1..Len(peers[x][elected[x][1]])

\* The outcome of an election: a smallest id among those it compared and, when
\* that is a name, the leader the reporter is given.
ElectAt(x) ==
    pm[x] \in {"elected", "announced", "reporting"} =>
        \E v \in Candidates(x) :
            /\ elected[x] = <<v[1], v[2]>>
            /\ IsLeaderOf(v[3], {w[3] : w \in Candidates(x)})
            /\ pm[x] = "reporting" /\ v[3] # NoId => leader[x] = v[3]

\* The role and the leader are the caller's when the caller elected itself.
RoleAt(x) ==
    /\ pm[x] \in {"announced", "reporting"} => (state[x] = "LEADING" <=> elected[x][1] = x)
    /\ pm[x] = "reporting" => (leader[x] = x <=> elected[x][1] = x)

\* No leader is known before the reporter is started.
NoLeaderAt(x) == pm[x] # "reporting" => leader[x] = NoId

ElectInv == \A x \in Id : ElectAt(x) /\ RoleAt(x) /\ NoLeaderAt(x)

IndInv ==
    /\ TypeOK /\ AddingInv /\ FirstCountInv /\ NameInv /\ SeenInv /\ PointerInv
    /\ ElectInv /\ ElectedLeaderReachable

\* One step only adds ProtcolPeers and names.
Grows ==
    \A x, y \in Id : \A k \in 1..Len(peers[x][y]) :
        /\ k \in 1..Len(peers'[x][y])
        /\ peers[x][y][k] # NoId => peers'[x][y][k] = peers[x][y][k]

----------------------------------------------------------------------------
\* Nodes start with an empty directory and nothing elected.
LEMMA InitInd == Init => IndInv
<1> SUFFICES ASSUME Init PROVE IndInv
  OBVIOUS
<1> USE DEF Init
<1>1. TypeOK
  BY CapAssumption DEF TypeOK, OCRState, AnyId
<1>2. AddingInv
  BY DEF AddingInv
<1>3. NameInv
  BY DEF NameInv
<1>4. SeenInv
  BY DEF SeenInv
<1>5. FirstCountInv
  BY DEF FirstCountInv, InTree
<1>6. PointerInv
  BY DEF PointerInv
<1>7. ElectInv
  BY DEF ElectInv, ElectAt, RoleAt, NoLeaderAt
<1>8. ElectedLeaderReachable
  BY NoIdAssumption DEF ElectedLeaderReachable
<1> QED
  BY <1>1, <1>2, <1>3, <1>4, <1>5, <1>6, <1>7, <1>8 DEF IndInv

\* Put: the one sequence that changes gets a blank at its end.
LEMMA PutFacts ==
    ASSUME TypeOK, NEW x \in Id, NEW y \in Id, handleNewPeer(x, y)
    PROVE  /\ x # y
           /\ peers' \in [Id -> [Id -> Seq(AnyId)]]
           /\ \A a, b \in Id :
                  peers'[a][b] = IF a = x /\ b = y THEN Append(peers[a][b], NoId)
                                 ELSE peers[a][b]
<1>1. peers \in [Id -> [Id -> Seq(AnyId)]]
  BY DEF TypeOK
<1>2. peers' = [peers EXCEPT ![x][y] = Append(@, NoId)] /\ x # y
  BY DEF handleNewPeer, HandlePeerFound
<1>3. NoId \in AnyId
  BY DEF AnyId
<1>4. Append(peers[x][y], NoId) \in Seq(AnyId)
  BY <1>1, <1>3
<1> QED
  BY <1>1, <1>2, <1>4

\* The handshake: the last entry of one sequence gets its name.
LEMMA NamedFacts ==
    ASSUME TypeOK, NEW x \in Id, NEW y \in Id, HandleInfo(x, y)
    PROVE  /\ peers' \in [Id -> [Id -> Seq(AnyId)]]
           /\ peers[y][x] # <<>>
           /\ \A a, b \in Id :
                  peers'[a][b] = IF a = y /\ b = x THEN Named(peers[a][b], x)
                                 ELSE peers[a][b]
           /\ Len(Named(peers[y][x], x)) = Len(peers[y][x])
           /\ \A k \in 1..Len(peers[y][x]) :
                  Named(peers[y][x], x)[k] = IF k = Len(peers[y][x]) THEN x ELSE peers[y][x][k]
<1>1. peers \in [Id -> [Id -> Seq(AnyId)]]
  BY DEF TypeOK
<1>2. peers' = [peers EXCEPT ![y][x] = Named(@, x)]
  BY DEF HandleInfo
<1>3. peers[y][x] \in Seq(AnyId) /\ peers[y][x] # <<>>
  BY <1>1 DEF HandleInfo, InTree
<1>4. x \in AnyId
  BY DEF AnyId
<1>5. /\ Named(peers[y][x], x) \in Seq(AnyId)
      /\ Len(Named(peers[y][x], x)) = Len(peers[y][x])
      /\ \A k \in 1..Len(peers[y][x]) :
             Named(peers[y][x], x)[k] = IF k = Len(peers[y][x]) THEN x ELSE peers[y][x][k]
  BY <1>3, <1>4 DEF Named
<1>6. \A a, b \in Id :
          peers'[a][b] = IF a = y /\ b = x THEN Named(peers[a][b], x) ELSE peers[a][b]
  BY <1>1, <1>2
<1>7. peers' \in [Id -> [Id -> Seq(AnyId)]]
  BY <1>1, <1>2, <1>5
<1> QED
  BY <1>3, <1>5, <1>6, <1>7

\* What leader.ServerID can be: the caller's id if the caller elected itself, and
\* else nothing or the name, in the map, of the peer elected.
LEMMA ElectedIdFacts ==
    ASSUME TypeOK, NameInv, PointerInv, NEW x \in Id
    PROVE  /\ elected[x][1] = x => electedServerID(x) = x
           /\ elected[x][1] # x =>
                  \/ electedServerID(x) = NoId
                  \/ electedServerID(x) = elected[x][1] /\ elected[x][1] \in appIdToPeerId[x]
           /\ electedServerID(x) \in AnyId
<1>1. elected[x][1] \in Id
  BY DEF TypeOK
<1>2. CASE elected[x][1] = x
  BY <1>2 DEF electedServerID, AnyId
<1>3. CASE elected[x][1] # x
  <2> DEFINE y == elected[x][1]
             k == elected[x][2]
  <2>1. electedServerID(x) = peers[x][y][k]
    BY <1>3 DEF electedServerID
  <2>2. k \in 1..Len(peers[x][y])
    BY <1>3 DEF PointerInv
  <2>3. peers[x][y][k] = NoId \/ (peers[x][y][k] = y /\ y \in appIdToPeerId[x])
    BY <1>1, <2>2 DEF NameInv
  <2> QED
    BY <1>1, <1>3, <2>1, <2>3 DEF AnyId
<1> QED
  BY <1>2, <1>3

\* The engine's steps leave everything else alone.
LEMMA EngineFrame ==
    ASSUME NEW x \in Id, initReporter(x) \/ SetReady(x) \/ (\E y \in Id : ReporterMsg(x, y))
    PROVE  UNCHANGED <<newPeer, peers, appIdToPeerId, peerLock, peerCountChan, status, lost,
                       PeerCount, FaultyCount, pm, todo, seen, elected, state, leader>>
  BY DEF initReporter, SetReady, ReporterMsg, dirVars, netVars, ctxVars, scanVars, roleVars

\* Every step keeps the types, and handleNewPeer's peer while it has the lock.
LEMMA TypeNext ==
    ASSUME TypeOK, AddingInv, FirstCountInv, NameInv, PointerInv, [Next]_vars
    PROVE  TypeOK' /\ AddingInv'
<1> USE DEF roleVars, engVars
<1>1. ASSUME NEW x \in Id, NEW y \in Id, handleNewPeer(x, y) PROVE TypeOK' /\ AddingInv'
  <2>1. peers' \in [Id -> [Id -> Seq(AnyId)]]
    BY <1>1, PutFacts
  <2>2. newPeer' \in [Id -> AnyId] /\ peerLock' \in [Id -> {"free", "adding", "leaked"}]
    BY <1>1 DEF handleNewPeer, TypeOK, AnyId
  <2>3. todo' \in [Id -> SUBSET Id]
    BY <1>1 DEF handleNewPeer, TypeOK
  <2>4. (\A a \in Id : newPeer[a] # NoId <=> peerLock[a] = "adding")'
    BY <1>1, NoIdAssumption DEF handleNewPeer, TypeOK
  <2>5. TypeOK'
    BY <1>1, <2>1, <2>2, <2>3, <2>4 DEF handleNewPeer, TypeOK, netVars, ctxVars
  <2>6. AddingInv'
    BY <1>1 DEF handleNewPeer, TypeOK, AddingInv
  <2> QED
    BY <2>5, <2>6
<1>2. ASSUME NEW x \in Id, handleNewPeerEnds(x) PROVE TypeOK' /\ AddingInv'
  <2>1. newPeer[x] \in Id
    BY <1>2 DEF handleNewPeerEnds, AddingInv
  <2>2. Cardinality(InTree(x)) \in Nat
    <3>1. InTree(x) \subseteq Id
      BY DEF InTree
    <3> QED
      BY <3>1, IdAssumption, FS_Subset, FS_CardinalityType
  <2>3. peerCountChan' \in [Id -> Seq(Nat)]
    BY <1>2, <2>2 DEF handleNewPeerEnds, TypeOK
  <2>4. status' \in [Id -> [Id -> Nat]]
    <3>1. status' = [status EXCEPT ![x][newPeer[x]] = @ + 1]
      BY <1>2 DEF handleNewPeerEnds, sendHandshakeMsgToPeerNode
    <3>2. status \in [Id -> [Id -> Nat]]
      BY DEF TypeOK
    <3> QED
      BY <3>1, <3>2, <2>1
  <2>5. newPeer' \in [Id -> AnyId] /\ peerLock' \in [Id -> {"free", "adding", "leaked"}]
    BY <1>2 DEF handleNewPeerEnds, TypeOK, AnyId
  <2>6. (\A a \in Id : newPeer[a] # NoId <=> peerLock[a] = "adding")'
    BY <1>2 DEF handleNewPeerEnds, TypeOK
  <2>7. TypeOK'
    BY <1>2, <2>3, <2>4, <2>5, <2>6 DEF handleNewPeerEnds, TypeOK, ctxVars, scanVars
  <2>8. AddingInv'
    BY <1>2 DEF handleNewPeerEnds, TypeOK, AddingInv
  <2> QED
    BY <2>7, <2>8
<1>3. ASSUME NEW x \in Id, NEW y \in Id, HandleInfo(x, y) PROVE TypeOK' /\ AddingInv'
  <2>1. peers' \in [Id -> [Id -> Seq(AnyId)]]
    BY <1>3, NamedFacts
  <2>2. status' \in [Id -> [Id -> Nat]]
    <3>1. status' = [status EXCEPT ![x][y] = @ - 1] /\ status[x][y] > 0
      BY <1>3 DEF HandleInfo
    <3>2. status \in [Id -> [Id -> Nat]] /\ status[x][y] \in Nat
      BY DEF TypeOK
    <3>3. status[x][y] - 1 \in Nat
      BY <3>1, <3>2
    <3> QED
      BY <3>1, <3>2, <3>3
  <2>3. appIdToPeerId' \in [Id -> SUBSET Id]
    BY <1>3 DEF HandleInfo, TypeOK
  <2>4. status' \in [Id -> [Id -> Nat]] /\ appIdToPeerId' \in [Id -> SUBSET Id]
    BY <2>2, <2>3
  <2> QED
    BY <1>3, <2>1, <2>4 DEF HandleInfo, TypeOK, AddingInv, ctxVars, scanVars
<1>4. ASSUME NEW x \in Id, NEW y \in Id, HandleInfoUnknown(x, y) PROVE TypeOK' /\ AddingInv'
  <2>1. status' \in [Id -> [Id -> Nat]]
    <3>1. status' = [status EXCEPT ![x][y] = @ - 1] /\ status[x][y] > 0
      BY <1>4 DEF HandleInfoUnknown
    <3>2. status \in [Id -> [Id -> Nat]] /\ status[x][y] \in Nat
      BY DEF TypeOK
    <3>3. status[x][y] - 1 \in Nat
      BY <3>1, <3>2
    <3> QED
      BY <3>1, <3>2, <3>3
  <2>2. peerLock' \in [Id -> {"free", "adding", "leaked"}]
    BY <1>4 DEF HandleInfoUnknown, TypeOK
  <2>3. status' \in [Id -> [Id -> Nat]] /\ peerLock' \in [Id -> {"free", "adding", "leaked"}]
    BY <2>1, <2>2
  <2>4. (\A a \in Id : newPeer[a] # NoId <=> peerLock[a] = "adding")'
    BY <1>4 DEF HandleInfoUnknown, TypeOK
  <2>5. TypeOK'
    BY <1>4, <2>3, <2>4 DEF HandleInfoUnknown, TypeOK, ctxVars, scanVars
  <2>6. AddingInv'
    BY <1>4 DEF HandleInfoUnknown, TypeOK, AddingInv
  <2> QED
    BY <2>5, <2>6
<1>5. ASSUME NEW x \in Id, NEW y \in Id, Lose(x, y) PROVE TypeOK' /\ AddingInv'
  <2>1. status' \in [Id -> [Id -> Nat]]
    <3>1. status' = [status EXCEPT ![x][y] = @ - 1] /\ status[x][y] > 0
      BY <1>5 DEF Lose
    <3>2. status \in [Id -> [Id -> Nat]] /\ status[x][y] \in Nat
      BY DEF TypeOK
    <3>3. status[x][y] - 1 \in Nat
      BY <3>1, <3>2
    <3> QED
      BY <3>1, <3>2, <3>3
  <2>2. lost' \in 0..MaxLost
    BY <1>5, CapAssumption DEF Lose, TypeOK
  <2>3. status' \in [Id -> [Id -> Nat]] /\ lost' \in 0..MaxLost
    BY <2>1, <2>2
  <2> QED
    BY <1>5, <2>3 DEF Lose, TypeOK, AddingInv, dirVars, ctxVars, scanVars
<1>6. ASSUME NEW x \in Id, ReceivePeerCount(x) PROVE TypeOK' /\ AddingInv'
  <2>1. peerCountChan[x] \in Seq(Nat) /\ peerCountChan[x] # <<>>
    BY <1>6 DEF ReceivePeerCount, TypeOK
  <2>2. Head(peerCountChan[x]) \in Nat /\ Tail(peerCountChan[x]) \in Seq(Nat)
    BY <2>1
  <2>3. PeerCount' \in [Id -> Nat] /\ peerCountChan' \in [Id -> Seq(Nat)]
    BY <1>6, <2>2 DEF ReceivePeerCount, TypeOK
  <2>4. FaultyCount' \in [Id -> Nat]
    <3>1. FaultyCount' = [FaultyCount EXCEPT ![x] = (Head(peerCountChan[x]) - 1) \div 3]
      BY <1>6 DEF ReceivePeerCount
    <3>2. Head(peerCountChan[x]) = 1
      BY <1>6, <2>1 DEF ReceivePeerCount, FirstCountInv
    <3> QED
      BY <3>1, <3>2 DEF TypeOK
  <2> QED
    BY <1>6, <2>3, <2>4 DEF ReceivePeerCount, TypeOK, AddingInv, netVars, scanVars
<1>7. ASSUME NEW x \in Id, findLeader(x) PROVE TypeOK' /\ AddingInv'
  <2>1. todo' \in [Id -> SUBSET Id]
    BY <1>7 DEF findLeader, TypeOK, InTree
  <2> QED
    BY <1>7, <2>1 DEF findLeader, TypeOK, AddingInv, dirVars, netVars, ctxVars
<1>8. ASSUME NEW x \in Id, NEW y \in Id, VisitPeer(x, y) PROVE TypeOK' /\ AddingInv'
  <2>1. peers[x][y] \in Seq(AnyId) /\ peers[x][y] # <<>>
    BY <1>8 DEF VisitPeer, InTree, TypeOK
  <2>2. <<y, Len(peers[x][y]), peers[x][y][Len(peers[x][y])]>> \in Id \X Nat \X AnyId
    BY <2>1
  <2>3. seen' \in [Id -> SUBSET (Id \X Nat \X AnyId)] /\ todo' \in [Id -> SUBSET Id]
    BY <1>8, <2>2 DEF VisitPeer, TypeOK
  <2> QED
    BY <1>8, <2>3 DEF VisitPeer, TypeOK, AddingInv, dirVars, netVars, ctxVars
<1>9. ASSUME NEW x \in Id, findLeaderEnds(x) PROVE TypeOK' /\ AddingInv'
  <2>1. PICK v \in Candidates(x) : elected' = [elected EXCEPT ![x] = <<v[1], v[2]>>]
    BY <1>9 DEF findLeaderEnds
  <2>2. v \in Id \X Nat \X AnyId
    BY <2>1 DEF Candidates, TypeOK, AnyId
  <2>3. elected' \in [Id -> Id \X Nat]
    BY <2>1, <2>2 DEF TypeOK
  <2> QED
    BY <1>9, <2>3 DEF findLeaderEnds, TypeOK, AddingInv, dirVars, netVars, ctxVars
<1>10. ASSUME NEW x \in Id, upateOCRState(x) PROVE TypeOK' /\ AddingInv'
  <2>1. state' \in [Id -> OCRState]
    BY <1>10 DEF upateOCRState, readLoop, TypeOK, OCRState
  <2> QED
    BY <1>10, <2>1 DEF upateOCRState, TypeOK, AddingInv, dirVars, netVars, ctxVars, scanVars
<1>11. ASSUME NEW x \in Id, startReporter(x) PROVE TypeOK' /\ AddingInv'
  <2>1. electedServerID(x) \in AnyId
    BY ElectedIdFacts
  <2>2. leader' \in [Id -> AnyId]
    BY <1>11, <2>1 DEF startReporter, TypeOK
  <2> QED
    BY <1>11, <2>2 DEF startReporter, TypeOK, AddingInv, dirVars, netVars, ctxVars, scanVars
<1>12. CASE UNCHANGED vars
  BY <1>12 DEF vars, dirVars, netVars, ctxVars, scanVars, TypeOK, AddingInv
<1>13. ASSUME NEW x \in Id, initReporter(x) \/ SetReady(x) \/ (\E y \in Id : ReporterMsg(x, y))
       PROVE  TypeOK' /\ AddingInv'
  <2>1. /\ engine' \in [Id -> {"none", "init", "ready"}]
        /\ reMu' \in [Id -> {"free", "leaked"}]
        /\ loop' \in [Id -> {"running", "blocked"}]
    BY <1>13 DEF initReporter, SetReady, ReporterMsg, TypeOK
  <2>2. UNCHANGED <<newPeer, peers, appIdToPeerId, peerLock, peerCountChan, status, lost,
                    PeerCount, FaultyCount, pm, todo, seen, elected, state, leader>>
    BY <1>13, EngineFrame
  <2> QED
    BY <2>1, <2>2 DEF TypeOK, AddingInv
<1> QED
  BY <1>1, <1>2, <1>3, <1>4, <1>5, <1>6, <1>7, <1>8, <1>9, <1>10, <1>11, <1>12, <1>13
  DEF Next, Pacemaker, InfoLoop

\* Only two handlers write the tree and the map.
LEMMA DirectoryWriters ==
    ASSUME [Next]_vars
    PROVE  \/ \E x, y \in Id : handleNewPeer(x, y)
           \/ \E x, y \in Id : HandleInfo(x, y)
           \/ peers' = peers /\ appIdToPeerId' = appIdToPeerId
<1> USE DEF dirVars
<1>1. ASSUME NEW x \in Id, handleNewPeerEnds(x) PROVE peers' = peers /\ appIdToPeerId' = appIdToPeerId
  BY <1>1 DEF handleNewPeerEnds
<1>2. ASSUME NEW x \in Id, NEW y \in Id, HandleInfoUnknown(x, y) \/ Lose(x, y)
      PROVE  peers' = peers /\ appIdToPeerId' = appIdToPeerId
  BY <1>2 DEF HandleInfoUnknown, Lose
<1>3. ASSUME NEW x \in Id, Pacemaker(x) PROVE peers' = peers /\ appIdToPeerId' = appIdToPeerId
  BY <1>3, EngineFrame
  DEF Pacemaker, ReceivePeerCount, findLeader, VisitPeer, findLeaderEnds, upateOCRState, startReporter
<1>4. CASE UNCHANGED vars
  BY <1>4 DEF vars
<1>5. ASSUME NEW x \in Id, NEW y \in Id, ReporterMsg(x, y)
      PROVE  peers' = peers /\ appIdToPeerId' = appIdToPeerId
  BY <1>5, EngineFrame
<1> QED
  BY <1>1, <1>2, <1>3, <1>4, <1>5 DEF Next, InfoLoop

\* Every step keeps the names right, takes no ProtcolPeer away and changes no name.
LEMMA NamesNext ==
    ASSUME TypeOK, NameInv, [Next]_vars
    PROVE  NameInv' /\ Grows /\ (\A a \in Id : appIdToPeerId[a] \subseteq appIdToPeerId'[a])
<1>0. peers \in [Id -> [Id -> Seq(AnyId)]] /\ appIdToPeerId \in [Id -> SUBSET Id]
  BY DEF TypeOK
<1>1. ASSUME NEW x \in Id, NEW y \in Id, handleNewPeer(x, y)
      PROVE  NameInv' /\ Grows /\ appIdToPeerId' = appIdToPeerId
  <2>1. appIdToPeerId' = appIdToPeerId
    BY <1>1 DEF handleNewPeer
  <2>2. ASSUME NEW a \in Id, NEW b \in Id
        PROVE  /\ a = b => peers'[a][b] = <<>>
               /\ \A k \in 1..Len(peers'[a][b]) :
                      \/ peers'[a][b][k] = NoId
                      \/ peers'[a][b][k] = b /\ b \in appIdToPeerId[a]
               /\ \A k \in 1..Len(peers[a][b]) :
                      k \in 1..Len(peers'[a][b]) /\ peers'[a][b][k] = peers[a][b][k]
    <3>1. x # y /\ peers'[a][b] = IF a = x /\ b = y THEN Append(peers[a][b], NoId) ELSE peers[a][b]
      BY <1>1, PutFacts
    <3>2. peers[a][b] \in Seq(AnyId)
      BY <1>0
    <3>3. CASE a = x /\ b = y
      <4>1. peers'[a][b] = Append(peers[a][b], NoId)
        BY <3>1, <3>3
      <4>2. /\ Len(peers'[a][b]) = Len(peers[a][b]) + 1
            /\ peers'[a][b][Len(peers[a][b]) + 1] = NoId
            /\ \A k \in 1..Len(peers[a][b]) : peers'[a][b][k] = peers[a][b][k]
        BY <3>2, <4>1
      <4>3. Len(peers[a][b]) \in Nat
        BY <3>2
      <4> QED
        BY <3>1, <3>3, <4>2, <4>3 DEF NameInv
    <3>4. CASE ~(a = x /\ b = y)
      BY <3>1, <3>4 DEF NameInv
    <3> QED
      BY <3>3, <3>4
  <2> QED
    BY <2>1, <2>2 DEF NameInv, Grows
<1>2. ASSUME NEW x \in Id, NEW y \in Id, HandleInfo(x, y)
      PROVE  NameInv' /\ Grows /\ (\A a \in Id : appIdToPeerId[a] \subseteq appIdToPeerId'[a])
  <2>1. /\ \A a \in Id : appIdToPeerId[a] \subseteq appIdToPeerId'[a]
        /\ x \in appIdToPeerId'[y]
    BY <1>0, <1>2 DEF HandleInfo
  <2>2. ASSUME NEW a \in Id, NEW b \in Id
        PROVE  /\ a = b => peers'[a][b] = <<>>
               /\ \A k \in 1..Len(peers'[a][b]) :
                      \/ peers'[a][b][k] = NoId
                      \/ peers'[a][b][k] = b /\ b \in appIdToPeerId'[a]
               /\ \A k \in 1..Len(peers[a][b]) :
                      /\ k \in 1..Len(peers'[a][b])
                      /\ peers[a][b][k] # NoId => peers'[a][b][k] = peers[a][b][k]
    <3>1. CASE a = y /\ b = x
      <4>1. /\ peers[a][b] # <<>>
            /\ Len(peers'[a][b]) = Len(peers[a][b])
            /\ \A k \in 1..Len(peers[a][b]) :
                   peers'[a][b][k] = IF k = Len(peers[a][b]) THEN b ELSE peers[a][b][k]
        BY <1>2, <3>1, NamedFacts
      <4> QED
        BY <2>1, <3>1, <4>1 DEF NameInv
    <3>2. CASE ~(a = y /\ b = x)
      <4>1. peers'[a][b] = peers[a][b]
        BY <1>2, <3>2, NamedFacts
      <4> QED
        BY <2>1, <4>1 DEF NameInv
    <3> QED
      BY <3>1, <3>2
  <2> QED
    BY <2>1, <2>2 DEF NameInv, Grows
<1>3. CASE peers' = peers /\ appIdToPeerId' = appIdToPeerId
  BY <1>3 DEF NameInv, Grows
<1> QED
  BY <1>1, <1>2, <1>3, DirectoryWriters

\* Where each of the election's variables is written.
LEMMA ElectionWriters ==
    ASSUME [Next]_vars
    PROVE  /\ (\E x, y \in Id : VisitPeer(x, y)) \/ seen' = seen
           /\ (\E x \in Id : findLeaderEnds(x)) \/ elected' = elected
           /\ (\E x \in Id : upateOCRState(x)) \/ state' = state
           /\ (\E x \in Id : startReporter(x)) \/ leader' = leader
           /\ (\E x \in Id : Pacemaker(x)) \/ pm' = pm
<1> USE DEF dirVars, netVars, ctxVars, scanVars, roleVars
<1>1. ASSUME NEW x \in Id, NEW y \in Id, handleNewPeer(x, y)
      PROVE  UNCHANGED <<seen, elected, state, leader, pm>>
  BY <1>1 DEF handleNewPeer
<1>2. ASSUME NEW x \in Id, handleNewPeerEnds(x) PROVE UNCHANGED <<seen, elected, state, leader, pm>>
  BY <1>2 DEF handleNewPeerEnds
<1>3. ASSUME NEW x \in Id, NEW y \in Id, HandleInfo(x, y) \/ HandleInfoUnknown(x, y) \/ Lose(x, y)
      PROVE  UNCHANGED <<seen, elected, state, leader, pm>>
  BY <1>3 DEF HandleInfo, HandleInfoUnknown, Lose
<1>4. ASSUME NEW x \in Id, Pacemaker(x)
      PROVE  /\ (\E y \in Id : VisitPeer(x, y)) \/ seen' = seen
             /\ findLeaderEnds(x) \/ elected' = elected
             /\ upateOCRState(x) \/ state' = state
             /\ startReporter(x) \/ leader' = leader
  <2>1. ASSUME ReceivePeerCount(x) PROVE UNCHANGED <<seen, elected, state, leader>>
    BY <2>1 DEF ReceivePeerCount
  <2>2. ASSUME findLeader(x) PROVE UNCHANGED <<seen, elected, state, leader>>
    BY <2>2 DEF findLeader
  <2>3. ASSUME NEW y \in Id, VisitPeer(x, y) PROVE UNCHANGED <<elected, state, leader>>
    BY <2>3 DEF VisitPeer
  <2>4. ASSUME findLeaderEnds(x) PROVE UNCHANGED <<seen, state, leader>>
    BY <2>4 DEF findLeaderEnds
  <2>5. ASSUME upateOCRState(x) PROVE UNCHANGED <<seen, elected, leader>>
    BY <2>5 DEF upateOCRState
  <2>6. ASSUME startReporter(x) PROVE UNCHANGED <<seen, elected, state>>
    BY <2>6 DEF startReporter
  <2>7. ASSUME initReporter(x) \/ SetReady(x) PROVE UNCHANGED <<seen, elected, state, leader>>
    BY <2>7, EngineFrame
  <2> QED
    BY <1>4, <2>1, <2>2, <2>3, <2>4, <2>5, <2>6, <2>7 DEF Pacemaker
<1>5. CASE UNCHANGED vars
  BY <1>5 DEF vars
<1>6. ASSUME NEW x \in Id, NEW y \in Id, ReporterMsg(x, y)
      PROVE  UNCHANGED <<seen, elected, state, leader, pm>>
  BY <1>6, EngineFrame
<1> QED
  BY <1>1, <1>2, <1>3, <1>4, <1>5, <1>6 DEF Next, InfoLoop

\* What a scan read keeps standing for ProtcolPeers and their names.
LEMMA SeenNext ==
    ASSUME TypeOK, NameInv, SeenInv, [Next]_vars
    PROVE  SeenInv'
<1>0. peers \in [Id -> [Id -> Seq(AnyId)]] /\ seen \in [Id -> SUBSET (Id \X Nat \X AnyId)]
  BY DEF TypeOK
<1>1. Grows
  BY NamesNext
<1>2. ASSUME NEW x \in Id, NEW v \in seen[x]
      PROVE  /\ v[1] \in Id \ {x}
             /\ v[2] \in 1..Len(peers'[x][v[1]])
             /\ v[3] \in {NoId, peers'[x][v[1]][v[2]]}
  <2>1. /\ v[1] \in Id \ {x}
        /\ v[2] \in 1..Len(peers[x][v[1]])
        /\ v[3] \in {NoId, peers[x][v[1]][v[2]]}
    BY <1>2 DEF SeenInv
  <2> QED
    BY <1>1, <2>1 DEF Grows
<1>3. ASSUME NEW x \in Id, NEW y \in Id, VisitPeer(x, y) PROVE SeenInv'
  <2> DEFINE k == Len(peers[x][y])
             new == <<y, k, peers[x][y][k]>>
  <2>1. peers' = peers /\ seen' = [seen EXCEPT ![x] = @ \cup {new}]
    BY <1>3 DEF VisitPeer, dirVars
  <2>2. peers[x][y] # <<>> /\ peers[x][y] \in Seq(AnyId)
    BY <1>0, <1>3 DEF VisitPeer, InTree
  <2>3. y # x
    BY <2>2 DEF NameInv
  <2>4. k \in 1..Len(peers[x][y])
    BY <2>2
  <2>5. /\ new[1] \in Id \ {x}
        /\ new[2] \in 1..Len(peers'[x][new[1]])
        /\ new[3] \in {NoId, peers'[x][new[1]][new[2]]}
    BY <2>1, <2>3, <2>4
  <2>6. \A a \in Id : seen'[a] = IF a = x THEN seen[a] \cup {new} ELSE seen[a]
    BY <1>0, <2>1
  <2> HIDE DEF new
  <2>7. ASSUME NEW a \in Id, NEW v \in seen'[a]
        PROVE  /\ v[1] \in Id \ {a}
               /\ v[2] \in 1..Len(peers'[a][v[1]])
               /\ v[3] \in {NoId, peers'[a][v[1]][v[2]]}
    <3>1. CASE v \in seen[a]
      BY <1>2, <3>1
    <3>2. CASE a = x /\ v = new
      BY <2>5, <3>2
    <3> QED
      BY <2>6, <2>7, <3>1, <3>2
  <2> QED
    BY <2>7 DEF SeenInv
<1>4. CASE seen' = seen
  BY <1>2, <1>4 DEF SeenInv
<1> QED
  BY <1>3, <1>4, ElectionWriters

\* An election returns a ProtcolPeer of a peer, which stays one.
LEMMA PointerNext ==
    ASSUME TypeOK, NameInv, SeenInv, PointerInv, [Next]_vars
    PROVE  PointerInv'
<1>0. elected \in [Id -> Id \X Nat] /\ Grows
  BY NamesNext DEF TypeOK
<1>1. ASSUME NEW x \in Id, elected'[x] = elected[x], elected[x][1] # x
      PROVE  elected'[x][2] \in 1..Len(peers'[x][elected'[x][1]])
  <2>1. elected[x][1] \in Id
    BY <1>0
  <2>2. elected[x][2] \in 1..Len(peers[x][elected[x][1]])
    BY <1>1 DEF PointerInv
  <2> QED
    BY <1>0, <1>1, <2>1, <2>2 DEF Grows
<1>2. ASSUME NEW x \in Id, findLeaderEnds(x) PROVE PointerInv'
  <2>1. PICK v \in Candidates(x) : elected' = [elected EXCEPT ![x] = <<v[1], v[2]>>]
    BY <1>2 DEF findLeaderEnds
  <2>2. peers' = peers
    BY <1>2 DEF findLeaderEnds, dirVars
  <2>3. v[1] # x => v[2] \in 1..Len(peers[x][v[1]])
    <3>1. CASE v \in seen[x]
      BY <3>1 DEF SeenInv
    <3>2. CASE v = <<x, 0, x>>
      BY <3>2
    <3> QED
      BY <2>1, <3>1, <3>2 DEF Candidates
  <2>4. elected'[x] = <<v[1], v[2]>> /\ \A a \in Id \ {x} : elected'[a] = elected[a]
    BY <1>0, <2>1
  <2>5. elected'[x][1] = v[1] /\ elected'[x][2] = v[2]
    BY <2>4
  <2> QED
    BY <1>1, <2>2, <2>3, <2>4, <2>5 DEF PointerInv
<1>3. CASE elected' = elected
  BY <1>1, <1>3 DEF PointerInv
<1> QED
  BY <1>2, <1>3, ElectionWriters

\* The tree gains the peer that is put, and loses none.
LEMMA TreeFacts ==
    ASSUME TypeOK, [Next]_vars
    PROVE  /\ \A x, y \in Id : handleNewPeer(x, y) =>
                  \A a \in Id : InTree(a)' = IF a = x THEN InTree(a) \cup {y} ELSE InTree(a)
           /\ (\A x, y \in Id : ~handleNewPeer(x, y)) => \A a \in Id : InTree(a)' = InTree(a)
<1>0. peers \in [Id -> [Id -> Seq(AnyId)]]
  BY DEF TypeOK
<1>1. ASSUME NEW x \in Id, NEW y \in Id, handleNewPeer(x, y), NEW a \in Id
      PROVE  InTree(a)' = IF a = x THEN InTree(a) \cup {y} ELSE InTree(a)
  <2>1. \A b \in Id : peers'[a][b] = IF a = x /\ b = y THEN Append(peers[a][b], NoId)
                                    ELSE peers[a][b]
    BY <1>1, PutFacts
  <2>2. Append(peers[x][y], NoId) # <<>>
    <3>1. peers[x][y] \in Seq(AnyId) /\ NoId \in AnyId
      BY <1>0 DEF AnyId
    <3> QED
      BY <3>1, AppendProperties
  <2> QED
    BY <2>1, <2>2 DEF InTree
<1>2. ASSUME NEW x \in Id, NEW y \in Id, HandleInfo(x, y), NEW a \in Id
      PROVE  InTree(a)' = InTree(a)
  <2>1. /\ \A b \in Id : peers'[a][b] = IF a = y /\ b = x THEN Named(peers[a][b], x)
                                       ELSE peers[a][b]
        /\ peers[y][x] # <<>>
        /\ Len(Named(peers[y][x], x)) = Len(peers[y][x])
    BY <1>2, NamedFacts
  <2>2. Named(peers[y][x], x) # <<>>
    BY <1>0, <2>1
  <2> QED
    BY <2>1, <2>2 DEF InTree
<1>3. ASSUME peers' = peers, NEW a \in Id PROVE InTree(a)' = InTree(a)
  BY <1>3 DEF InTree
<1> QED
  BY <1>1, <1>2, <1>3, DirectoryWriters

\* The first count a node publishes is 1, and the one it receives is the first.
LEMMA CountNext ==
    ASSUME TypeOK, FirstCountInv, [Next]_vars
    PROVE  FirstCountInv'
<1>0. /\ pm \in [Id -> {"peerCount", "context", "scan", "elected", "announced", "reporting"}]
      /\ peerLock \in [Id -> {"free", "adding", "leaked"}]
      /\ peerCountChan \in [Id -> Seq(Nat)]
      /\ newPeer \in [Id -> AnyId]
  BY DEF TypeOK
<1>1. ASSUME NEW x \in Id, NEW y \in Id, handleNewPeer(x, y) PROVE FirstCountInv'
  <2>1. /\ peerLock[x] = "free" /\ peerLock' = [peerLock EXCEPT ![x] = "adding"]
        /\ newPeer' = [newPeer EXCEPT ![x] = y]
        /\ UNCHANGED <<pm, peerCountChan>>
    BY <1>1 DEF handleNewPeer
  <2>2. \A a \in Id : InTree(a)' = IF a = x THEN InTree(a) \cup {y} ELSE InTree(a)
    BY <1>1, TreeFacts
  <2> QED
    BY <1>0, <2>1, <2>2 DEF FirstCountInv
<1>2. ASSUME NEW x \in Id, handleNewPeerEnds(x) PROVE FirstCountInv'
  <2>1. /\ peerLock[x] = "adding" /\ peerLock' = [peerLock EXCEPT ![x] = "free"]
        /\ newPeer' = [newPeer EXCEPT ![x] = NoId]
        /\ peerCountChan' = [peerCountChan EXCEPT ![x] = Append(@, Cardinality(InTree(x)))]
        /\ UNCHANGED <<pm, peers>>
    BY <1>2 DEF handleNewPeerEnds
  <2>2. \A a \in Id : InTree(a)' = InTree(a)
    BY <2>1 DEF InTree
  <2>3. ASSUME pm[x] = "peerCount"
        PROVE  peerCountChan'[x] # <<>> /\ Head(peerCountChan'[x]) = 1
    <3>1. peerCountChan'[x] = Append(peerCountChan[x], Cardinality(InTree(x)))
      BY <1>0, <2>1
    <3>2. CASE peerCountChan[x] # <<>> /\ Head(peerCountChan[x]) = 1
      BY <1>0, <3>1, <3>2
    <3>3. CASE peerCountChan[x] = <<>> /\ InTree(x) = {newPeer[x]}
      <4>1. Cardinality(InTree(x)) = 1
        BY <3>3, FS_Singleton
      <4> QED
        BY <3>1, <3>3, <4>1
    <3> QED
      BY <2>1, <2>3, <3>2, <3>3 DEF FirstCountInv
  <2> QED
    BY <1>0, <2>1, <2>2, <2>3 DEF FirstCountInv
<1>3. ASSUME NEW x \in Id, NEW y \in Id, HandleInfo(x, y) PROVE FirstCountInv'
  <2>1. UNCHANGED <<pm, peerCountChan, peerLock, newPeer>>
    BY <1>3 DEF HandleInfo
  <2>2. \A a, b \in Id : ~handleNewPeer(a, b)
    BY <1>0, <1>3, <2>1 DEF HandleInfo, handleNewPeer
  <2>3. \A a \in Id : InTree(a)' = InTree(a)
    BY <2>2, TreeFacts
  <2> QED
    BY <2>1, <2>3 DEF FirstCountInv
<1>4. ASSUME NEW x \in Id, NEW y \in Id, HandleInfoUnknown(x, y) PROVE FirstCountInv'
  <2>1. /\ peerLock[y] = "free" /\ peerLock' = [peerLock EXCEPT ![y] = "leaked"]
        /\ UNCHANGED <<pm, peerCountChan, newPeer, peers>>
    BY <1>4 DEF HandleInfoUnknown
  <2>2. \A a \in Id : InTree(a)' = InTree(a)
    BY <2>1 DEF InTree
  <2> QED
    BY <1>0, <2>1, <2>2 DEF FirstCountInv
<1>5. ASSUME UNCHANGED <<pm, peerCountChan, peerLock, newPeer, peers>>
      PROVE  FirstCountInv'
  BY <1>5 DEF FirstCountInv, InTree
<1>6. ASSUME NEW x \in Id, ReceivePeerCount(x) PROVE FirstCountInv'
  <2>1. /\ pm[x] = "peerCount" /\ pm' = [pm EXCEPT ![x] = "context"]
        /\ peerCountChan[x] # <<>>
        /\ peerCountChan' = [peerCountChan EXCEPT ![x] = Tail(@)]
        /\ UNCHANGED <<newPeer, peerLock, peers>>
    BY <1>6 DEF ReceivePeerCount
  <2>2. \A a \in Id : InTree(a)' = InTree(a)
    BY <2>1 DEF InTree
  <2> QED
    BY <1>0, <2>1, <2>2 DEF FirstCountInv
<1>7. ASSUME NEW x \in Id,
             UNCHANGED <<peerCountChan, peerLock, newPeer, peers>>,
             pm[x] # "peerCount", pm'[x] # "peerCount", \A a \in Id \ {x} : pm'[a] = pm[a]
      PROVE  FirstCountInv'
  BY <1>7 DEF FirstCountInv, InTree
<1>8. ASSUME NEW x \in Id, Pacemaker(x) PROVE FirstCountInv'
  <2>1. ASSUME findLeader(x) \/ findLeaderEnds(x) \/ upateOCRState(x) \/ startReporter(x)
        PROVE  FirstCountInv'
    <3>1. /\ UNCHANGED <<peerCountChan, peerLock, newPeer, peers>>
          /\ pm[x] # "peerCount"
          /\ \E s \in {"scan", "elected", "announced", "reporting"} : pm' = [pm EXCEPT ![x] = s]
      BY <2>1 DEF findLeader, findLeaderEnds, upateOCRState, startReporter, dirVars
    <3> QED
      BY <1>0, <1>7, <3>1
  <2>2. ASSUME NEW y \in Id, VisitPeer(x, y) PROVE FirstCountInv'
    BY <2>2, <1>5 DEF VisitPeer, dirVars
  <2>3. ASSUME initReporter(x) \/ SetReady(x) PROVE FirstCountInv'
    BY <2>3, <1>5, EngineFrame
  <2> QED
    BY <1>6, <1>8, <2>1, <2>2, <2>3 DEF Pacemaker
<1>9. ASSUME NEW x \in Id, NEW y \in Id, Lose(x, y) \/ ReporterMsg(x, y) PROVE FirstCountInv'
  <2>1. CASE Lose(x, y)
    BY <2>1, <1>5 DEF Lose, dirVars
  <2>2. CASE ReporterMsg(x, y)
    BY <2>2, <1>5, EngineFrame
  <2> QED
    BY <1>9, <2>1, <2>2
<1>10. CASE UNCHANGED vars
  BY <1>10, <1>5 DEF vars, dirVars
<1> QED
  BY <1>1, <1>2, <1>3, <1>4, <1>8, <1>9, <1>10 DEF Next, InfoLoop

\* Every step leaves the outcome of an election as it was, or produces the next
\* part of it: the id elected, the role, the reporter's leader.
LEMMA ElectNext ==
    ASSUME TypeOK, NameInv, SeenInv, PointerInv, ElectInv, [Next]_vars
    PROVE  ElectInv'
<1> USE DEF roleVars
<1>0. /\ pm \in [Id -> {"peerCount", "context", "scan", "elected", "announced", "reporting"}]
      /\ seen \in [Id -> SUBSET (Id \X Nat \X AnyId)]
      /\ elected \in [Id -> Id \X Nat]
      /\ state \in [Id -> OCRState]
      /\ leader \in [Id -> AnyId]
  BY DEF TypeOK
<1>1. ASSUME NEW a \in Id,
             pm'[a] = pm[a], seen'[a] = seen[a], elected'[a] = elected[a],
             state'[a] = state[a], leader'[a] = leader[a]
      PROVE  ElectAt(a)' /\ RoleAt(a)' /\ NoLeaderAt(a)'
  <2>1. Candidates(a)' = Candidates(a)
    BY <1>1 DEF Candidates
  <2>2. ElectAt(a)'
    BY <1>1, <2>1 DEF ElectInv, ElectAt
  <2>3. RoleAt(a)' /\ NoLeaderAt(a)'
    BY <1>1 DEF ElectInv, RoleAt, NoLeaderAt
  <2> QED
    BY <2>2, <2>3
<1>2. ASSUME NEW x \in Id, Pacemaker(x),
             ElectAt(x)' /\ RoleAt(x)' /\ NoLeaderAt(x)',
             \A a \in Id \ {x} : /\ pm'[a] = pm[a] /\ seen'[a] = seen[a]
                                 /\ elected'[a] = elected[a] /\ state'[a] = state[a]
                                 /\ leader'[a] = leader[a]
      PROVE  ElectInv'
  BY <1>1, <1>2 DEF ElectInv
<1>3. ASSUME NEW x \in Id, ReceivePeerCount(x) \/ findLeader(x) PROVE ElectInv'
  <2>1. /\ pm[x] \in {"peerCount", "context"}
        /\ \E s \in {"context", "scan"} : pm' = [pm EXCEPT ![x] = s]
        /\ UNCHANGED <<seen, elected, state, leader>>
    BY <1>3 DEF ReceivePeerCount, findLeader, scanVars
  <2>2. ElectAt(x)' /\ RoleAt(x)' /\ NoLeaderAt(x)'
    BY <1>0, <2>1 DEF ElectInv, ElectAt, RoleAt, NoLeaderAt
  <2> QED
    BY <1>0, <1>2, <1>3, <2>1, <2>2 DEF Pacemaker
<1>4. ASSUME NEW x \in Id, NEW y \in Id, VisitPeer(x, y) PROVE ElectInv'
  <2>1. /\ pm[x] = "scan" /\ UNCHANGED <<pm, elected, state, leader>>
        /\ \A a \in Id \ {x} : seen'[a] = seen[a]
    BY <1>0, <1>4 DEF VisitPeer
  <2>2. ElectAt(x)' /\ RoleAt(x)' /\ NoLeaderAt(x)'
    BY <2>1 DEF ElectInv, ElectAt, RoleAt, NoLeaderAt
  <2> QED
    BY <1>2, <1>4, <2>1, <2>2 DEF Pacemaker
<1>5. ASSUME NEW x \in Id, findLeaderEnds(x) PROVE ElectInv'
  <2>1. PICK v \in Candidates(x) :
            /\ IsLeaderOf(v[3], {w[3] : w \in Candidates(x)})
            /\ elected' = [elected EXCEPT ![x] = <<v[1], v[2]>>]
    BY <1>5 DEF findLeaderEnds
  <2>2. /\ pm[x] = "scan" /\ pm' = [pm EXCEPT ![x] = "elected"]
        /\ UNCHANGED <<seen, state, leader>>
    BY <1>5 DEF findLeaderEnds
  <2>3. Candidates(x)' = Candidates(x)
    BY <2>2 DEF Candidates
  <2>4. pm'[x] = "elected" /\ elected'[x] = <<v[1], v[2]>>
    BY <1>0, <2>1, <2>2
  <2>5. ElectAt(x)'
    BY <2>1, <2>3, <2>4 DEF ElectAt
  <2>6. RoleAt(x)' /\ NoLeaderAt(x)'
    BY <2>2, <2>4 DEF ElectInv, RoleAt, NoLeaderAt
  <2> QED
    BY <1>0, <1>2, <1>5, <2>1, <2>2, <2>5, <2>6 DEF Pacemaker
<1>6. ASSUME NEW x \in Id
      PROVE  /\ electedServerID(x) = x <=> elected[x][1] = x
             /\ electedServerID(x) \in AnyId
  BY ElectedIdFacts, NoIdAssumption
<1>7. ASSUME NEW x \in Id, upateOCRState(x) PROVE ElectInv'
  <2>1. /\ pm[x] = "elected" /\ pm' = [pm EXCEPT ![x] = "announced"]
        /\ state' = [state EXCEPT ![x] = IF electedServerID(x) = x THEN "LEADING" ELSE "FOLLOWING"]
        /\ UNCHANGED <<seen, elected, leader>>
    BY <1>7 DEF upateOCRState, readLoop, scanVars
  <2>2. pm'[x] = "announced" /\ Candidates(x)' = Candidates(x)
    BY <1>0, <2>1 DEF Candidates
  <2>3. ElectAt(x)'
    BY <2>1, <2>2 DEF ElectInv, ElectAt
  <2>4. RoleAt(x)' /\ NoLeaderAt(x)'
    BY <1>0, <1>6, <2>1, <2>2 DEF ElectInv, RoleAt, NoLeaderAt
  <2> QED
    BY <1>0, <1>2, <1>7, <2>1, <2>3, <2>4 DEF Pacemaker
<1>8. ASSUME NEW x \in Id, startReporter(x) PROVE ElectInv'
  <2>1. /\ pm[x] = "announced" /\ pm' = [pm EXCEPT ![x] = "reporting"]
        /\ leader' = [leader EXCEPT ![x] = electedServerID(x)]
        /\ UNCHANGED <<seen, elected, state>>
    BY <1>8 DEF startReporter, scanVars
  <2>2. pm'[x] = "reporting" /\ Candidates(x)' = Candidates(x) /\ leader'[x] = electedServerID(x)
    BY <1>0, <2>1 DEF Candidates
  <2>3. PICK v \in Candidates(x) :
            /\ elected[x] = <<v[1], v[2]>>
            /\ IsLeaderOf(v[3], {w[3] : w \in Candidates(x)})
    BY <2>1 DEF ElectInv, ElectAt
  <2>4. v[3] # NoId => electedServerID(x) = v[3]
    <3>1. CASE v = <<x, 0, x>>
      BY <2>3, <3>1 DEF electedServerID
    <3>2. CASE v \in seen[x]
      <4>1. v[1] # x /\ v[3] \in {NoId, peers[x][v[1]][v[2]]}
        BY <3>2 DEF SeenInv
      <4>2. elected[x][1] = v[1] /\ elected[x][2] = v[2]
        BY <2>3
      <4> QED
        BY <4>1, <4>2 DEF electedServerID
    <3> QED
      BY <3>1, <3>2 DEF Candidates
  <2>5. ElectAt(x)'
    BY <2>1, <2>2, <2>3, <2>4 DEF ElectAt
  <2>6. RoleAt(x)' /\ NoLeaderAt(x)'
    BY <1>6, <2>1, <2>2 DEF ElectInv, RoleAt, NoLeaderAt
  <2> QED
    BY <1>0, <1>2, <1>8, <2>1, <2>5, <2>6 DEF Pacemaker
<1>9. ASSUME UNCHANGED <<pm, seen, elected, state, leader>> PROVE ElectInv'
  BY <1>1, <1>9 DEF ElectInv
<1>10. ASSUME NEW x \in Id, Pacemaker(x) PROVE ElectInv'
  <2>1. CASE initReporter(x) \/ SetReady(x)
    BY <2>1, <1>9, EngineFrame
  <2> QED
    BY <1>3, <1>4, <1>5, <1>7, <1>8, <1>10, <2>1 DEF Pacemaker
<1> QED
  BY <1>3, <1>4, <1>5, <1>7, <1>8, <1>9, <1>10, ElectionWriters

\* The map only grows, and has the leader's name when startReporter reads it.
LEMMA ReachNext ==
    ASSUME TypeOK, NameInv, PointerInv, ElectedLeaderReachable, [Next]_vars
    PROVE  ElectedLeaderReachable'
<1>1. \A a \in Id : appIdToPeerId[a] \subseteq appIdToPeerId'[a]
  BY NamesNext
<1>2. ASSUME NEW x \in Id, startReporter(x) PROVE ElectedLeaderReachable'
  <2>1. /\ leader' = [leader EXCEPT ![x] = electedServerID(x)]
        /\ leader \in [Id -> AnyId]
    BY <1>2 DEF startReporter, TypeOK
  <2>2. electedServerID(x) \in Id \ {x} => electedServerID(x) \in appIdToPeerId[x]
    BY ElectedIdFacts, NoIdAssumption
  <2> QED
    BY <1>1, <2>1, <2>2 DEF ElectedLeaderReachable
<1>3. CASE leader' = leader
  BY <1>1, <1>3 DEF ElectedLeaderReachable
<1> QED
  BY <1>2, <1>3, ElectionWriters

\* The invariant is kept by every step of every node and of the network.
LEMMA NextInd == IndInv /\ [Next]_vars => IndInv'
<1> SUFFICES ASSUME IndInv, [Next]_vars PROVE IndInv'
  OBVIOUS
<1>0. /\ TypeOK /\ AddingInv /\ FirstCountInv /\ NameInv /\ SeenInv /\ PointerInv
      /\ ElectInv /\ ElectedLeaderReachable
  BY DEF IndInv
<1>1. TypeOK' /\ AddingInv'
  BY <1>0, TypeNext
<1>2. FirstCountInv'
  BY <1>0, CountNext
<1>3. NameInv' /\ SeenInv' /\ PointerInv'
  BY <1>0, NamesNext, SeenNext, PointerNext
<1>4. ElectInv' /\ ElectedLeaderReachable'
  BY <1>0, ElectNext, ReachNext
<1> QED
  BY <1>1, <1>2, <1>3, <1>4 DEF IndInv

\* The invariant holds in every state of every behaviour.
LEMMA Inductive == Spec => []IndInv
  BY InitInd, NextInd, PTL DEF Spec

----------------------------------------------------------------------------
\* Every variable of the bootstrap keeps its type, whatever mDNS announces and
\* the network loses.
THEOREM TypeCorrect == Spec => []TypeOK
<1>1. IndInv => TypeOK
  BY DEF IndInv
<1> QED
  BY <1>1, Inductive, PTL

\* SendMsg finds the network id of every leader that has a name, although the
\* name is read again after the election and the tree may have replaced its
\* ProtcolPeer.
THEOREM LeaderReachable == Spec => []ElectedLeaderReachable
<1>1. IndInv => ElectedLeaderReachable
  BY DEF IndInv
<1> QED
  BY <1>1, Inductive, PTL

\* The two reads of leader.ServerID, around the wait of a leader for its events,
\* give the node one role.
THEOREM RoleConsistent == Spec => []RoleMatchesLeader
<1>1. IndInv => RoleMatchesLeader
  <2> SUFFICES ASSUME IndInv, NEW x \in Id, pm[x] = "reporting"
               PROVE  state[x] = "LEADING" <=> leader[x] = x
    BY DEF RoleMatchesLeader
  <2>1. RoleAt(x)
    BY DEF IndInv, ElectInv
  <2> QED
    BY <2>1 DEF RoleAt
<1> QED
  BY <1>1, Inductive, PTL

\* An election that read every name hands the reporter the smallest of all ids.
LEMMA CompleteViewElects ==
    ASSUME IndInv, NEW x \in Id, pm[x] = "reporting", CompleteView(x)
    PROVE  IsLeaderOf(leader[x], Id)
<1>1. PICK v \in Candidates(x) :
          /\ IsLeaderOf(v[3], {w[3] : w \in Candidates(x)})
          /\ v[3] # NoId => leader[x] = v[3]
  BY DEF IndInv, ElectInv, ElectAt
<1>2. {w[3] : w \in Candidates(x)} = Id
  <2> DEFINE self == <<x, 0, x>>
  <2>0. self[3] = x /\ Candidates(x) = seen[x] \cup {self}
    BY DEF Candidates
  <2> HIDE DEF self
  <2>1. {w[3] : w \in Candidates(x)} = {w[3] : w \in seen[x]} \cup {x}
    BY <2>0
  <2> QED
    BY <2>1 DEF CompleteView
<1> QED
  BY <1>1, <1>2, NoIdAssumption DEF IsLeaderOf

\* Nodes that read every name elect one leader, in a network of any size and for
\* every order of discoveries, handshakes, rediscoveries and elections.
THEOREM CompleteViewsElectOneLeader == Spec => []CompleteViewsAgree
<1>1. IndInv => CompleteViewsAgree
  <2> SUFFICES ASSUME IndInv, NEW x \in Id, NEW y \in Id,
                      pm[x] = "reporting", CompleteView(x),
                      pm[y] = "reporting", CompleteView(y)
               PROVE  leader[x] = leader[y]
    BY DEF CompleteViewsAgree
  <2>1. IsLeaderOf(leader[x], Id) /\ IsLeaderOf(leader[y], Id)
    BY CompleteViewElects
  <2> QED
    BY <2>1, HashAssumption DEF IsLeaderOf, AnyId
<1> QED
  BY <1>1, Inductive, PTL

----------------------------------------------------------------------------
(***************************************************************************)
(* The account of the handshakes.                                          *)
(***************************************************************************)

\* The account of the handshakes of x with y.
Accounted(x, y) ==
    /\ status[x][y] =< Handshakes(x, y)
    /\ x \in appIdToPeerId[y] => status[x][y] < Handshakes(x, y)
    /\ Handshakes(x, y) > 0 =>
           \/ x \in appIdToPeerId[y] \/ status[x][y] > 0
           \/ lost > 0 \/ peerLock[y] = "leaked"

\* A step that leaves the two directories and the messages alone.
LEMMA AccountFrame ==
    ASSUME NEW x \in Id, NEW y \in Id, Accounted(x, y),
           status'[x][y] = status[x][y], Handshakes(x, y)' = Handshakes(x, y),
           x \in appIdToPeerId'[y] <=> x \in appIdToPeerId[y], lost' = lost,
           peerLock[y] = "leaked" => peerLock'[y] = "leaked"
    PROVE  Accounted(x, y)'
<1>1. PICK h : h = Handshakes(x, y) /\ h = Handshakes(x, y)'
  OBVIOUS
<1> QED
  BY <1>1 DEF Accounted

\* Counts are numbers.
LEMMA HandshakesType ==
    ASSUME TypeOK, NEW x \in Id, NEW y \in Id
    PROVE  /\ status[x][y] \in Nat /\ Len(peers[x][y]) \in Nat
           /\ newPeer[x] # y => Handshakes(x, y) = Len(peers[x][y])
           /\ newPeer[x] = y => Handshakes(x, y) = Len(peers[x][y]) - 1
           /\ Handshakes(x, y) \in Int
<1>1. status[x][y] \in Nat /\ peers[x][y] \in Seq(AnyId)
  BY DEF TypeOK
<1>2. PICK k \in Nat : k = Len(peers[x][y])
  BY <1>1
<1>3. newPeer[x] # y => Handshakes(x, y) = k - 0
  BY <1>2 DEF Handshakes
<1>4. newPeer[x] = y => Handshakes(x, y) = k - 1
  BY <1>2 DEF Handshakes
<1>5. k - 0 = k /\ k - 1 \in Int /\ k \in Int
  BY <1>2
<1>6. Handshakes(x, y) \in Int
  BY <1>3, <1>4, <1>5
<1> QED
  BY <1>1, <1>2, <1>3, <1>4, <1>5, <1>6

\* The peer being added has not been sent its handshake yet, ...
LEMMA AccountPut ==
    ASSUME TypeOK, TypeOK', HandshakesAccounted,
           NEW x \in Id, NEW y \in Id, handleNewPeer(x, y)
    PROVE  HandshakesAccounted'
<1>1. ASSUME NEW a \in Id, NEW b \in Id
      PROVE  Accounted(a, b)'
  <2>1. /\ peerLock[x] = "free" /\ newPeer[x] = NoId
        /\ newPeer'[x] = y /\ \A z \in Id \ {x} : newPeer'[z] = newPeer[z]
        /\ peerLock'[x] = "adding" /\ \A z \in Id \ {x} : peerLock'[z] = peerLock[z]
        /\ UNCHANGED <<appIdToPeerId, status, lost>>
    BY DEF handleNewPeer, netVars, TypeOK
  <2>2. peers'[a][b] = IF a = x /\ b = y THEN Append(peers[a][b], NoId) ELSE peers[a][b]
    BY PutFacts
  <2>3. Handshakes(a, b)' = Handshakes(a, b)
    <3>1. CASE a = x /\ b = y
      <4>0. NoId \in AnyId
        BY DEF AnyId
      <4>1. peers[a][b] \in Seq(AnyId)
        BY DEF TypeOK
      <4>2. Len(peers'[a][b]) = Len(peers[a][b]) + 1
        BY <2>2, <3>1, <4>0, <4>1
      <4>3. newPeer[a] # b /\ newPeer'[a] = b
        BY <2>1, <3>1, NoIdAssumption
      <4> QED
        BY <4>2, <4>3, HandshakesType DEF Handshakes
    <3>2. CASE a = x /\ b # y
      BY <2>1, <2>2, <3>2, NoIdAssumption DEF Handshakes
    <3>3. CASE a # x
      BY <2>1, <2>2, <3>3 DEF Handshakes
    <3> QED
      BY <3>1, <3>2, <3>3
  <2>4. Accounted(a, b)
    BY DEF HandshakesAccounted, Accounted
  <2>5. peerLock[b] = "leaked" => peerLock'[b] = "leaked"
    BY <2>1
  <2> QED
    BY <2>1, <2>3, <2>4, <2>5, AccountFrame
<1> QED
  BY <1>1 DEF HandshakesAccounted, Accounted

\* ... but gets it before the lock is free again.
LEMMA AccountSend ==
    ASSUME TypeOK, AddingInv, HandshakesAccounted, NEW x \in Id, handleNewPeerEnds(x)
    PROVE  HandshakesAccounted'
<1>1. ASSUME NEW a \in Id, NEW b \in Id
      PROVE  Accounted(a, b)'
  <2>1. PICK y \in Id : y = newPeer[x]
    BY DEF handleNewPeerEnds, AddingInv
  <2>2. /\ newPeer'[x] = NoId /\ \A z \in Id \ {x} : newPeer'[z] = newPeer[z]
        /\ peerLock[x] = "adding"
        /\ \A z \in Id \ {x} : peerLock'[z] = peerLock[z]
        /\ UNCHANGED <<appIdToPeerId, peers, lost>>
    BY DEF handleNewPeerEnds, TypeOK
  <2>3. status'[a][b] = IF a = x /\ b = y THEN status[a][b] + 1 ELSE status[a][b]
    <3>1. status' = [status EXCEPT ![x][y] = @ + 1]
      BY <2>1 DEF handleNewPeerEnds, sendHandshakeMsgToPeerNode
    <3>2. status \in [Id -> [Id -> Nat]]
      BY DEF TypeOK
    <3> QED
      BY <3>1, <3>2
  <2>4. Accounted(a, b)
    BY DEF HandshakesAccounted, Accounted
  <2>5. CASE a = x /\ b = y
    <3>1. newPeer[a] = b /\ newPeer'[a] # b
      BY <2>1, <2>2, <2>5, NoIdAssumption
    <3>2. Handshakes(a, b)' = Len(peers[a][b]) /\ Handshakes(a, b) = Len(peers[a][b]) - 1
      BY <2>2, <3>1, HandshakesType DEF Handshakes
    <3>3. status'[a][b] = status[a][b] + 1 /\ status[a][b] \in Nat /\ Len(peers[a][b]) \in Nat
      BY <2>3, <2>5, HandshakesType
    <3>4. status[a][b] =< Len(peers[a][b]) - 1
      BY <2>4, <3>2 DEF Accounted
    <3>5. a \in appIdToPeerId[b] => status[a][b] < Len(peers[a][b]) - 1
      BY <2>4, <3>2 DEF Accounted
    <3>6. status'[a][b] > 0 /\ status'[a][b] =< Len(peers[a][b])
      BY <3>3, <3>4
    <3>7. a \in appIdToPeerId[b] => status'[a][b] < Len(peers[a][b])
      BY <3>3, <3>5
    <3> QED
      BY <2>2, <3>2, <3>6, <3>7 DEF Accounted
  <2>6. CASE ~(a = x /\ b = y)
    <3>1. Handshakes(a, b)' = Handshakes(a, b)
      BY <2>1, <2>2, <2>6, NoIdAssumption DEF Handshakes
    <3> QED
      BY <2>2, <2>3, <2>4, <2>6, <3>1, AccountFrame
  <2> QED
    BY <2>5, <2>6
<1> QED
  BY <1>1 DEF HandshakesAccounted, Accounted

\* A message leaves the network: it names its sender, is lost, or goes into the
\* leaked lock.
LEMMA AccountTaken ==
    ASSUME TypeOK, HandshakesAccounted, NEW x \in Id, NEW y \in Id,
           HandleInfo(x, y) \/ HandleInfoUnknown(x, y) \/ Lose(x, y)
    PROVE  HandshakesAccounted'
<1>1. /\ status[x][y] > 0
      /\ status' = [status EXCEPT ![x][y] = @ - 1]
      /\ newPeer' = newPeer
  BY DEF HandleInfo, HandleInfoUnknown, Lose, dirVars
<1>2. \A a, b \in Id :
        status'[a][b] = IF a = x /\ b = y THEN status[a][b] - 1 ELSE status[a][b]
  <2>1. status \in [Id -> [Id -> Nat]]
    BY DEF TypeOK
  <2> QED
    BY <1>1, <2>1
<1>3. \A a, b \in Id : Len(peers'[a][b]) = Len(peers[a][b])
  <2>1. CASE HandleInfo(x, y)
    <3>1. /\ \A a, b \in Id : ~(a = y /\ b = x) => peers'[a][b] = peers[a][b]
          /\ peers'[y][x] = Named(peers[y][x], x)
          /\ Len(Named(peers[y][x], x)) = Len(peers[y][x])
      BY <2>1, NamedFacts
    <3> QED
      BY <3>1
  <2>2. CASE ~HandleInfo(x, y)
    BY <2>2 DEF HandleInfoUnknown, Lose, dirVars
  <2> QED
    BY <2>1, <2>2
<1>4. /\ lost' = lost \/ (lost' = lost + 1 /\ lost' > 0)
      /\ \A z \in Id : peerLock[z] = "leaked" => peerLock'[z] = "leaked"
      /\ \A a, b \in Id : ~(a = x /\ b = y) =>
             (a \in appIdToPeerId'[b] <=> a \in appIdToPeerId[b])
      /\ x \in appIdToPeerId[y] => x \in appIdToPeerId'[y]
      /\ x \in appIdToPeerId'[y] \/ lost' > 0 \/ peerLock'[y] = "leaked"
  <2>1. CASE HandleInfo(x, y)
    <3>1. /\ appIdToPeerId' = [appIdToPeerId EXCEPT ![y] = @ \cup {x}]
          /\ lost' = lost /\ peerLock' = peerLock
      BY <2>1 DEF HandleInfo
    <3>2. appIdToPeerId \in [Id -> SUBSET Id]
      BY DEF TypeOK
    <3>3. \A a, b \in Id : a \in appIdToPeerId'[b] <=>
             a \in appIdToPeerId[b] \/ (a = x /\ b = y)
      BY <3>1, <3>2
    <3> QED
      BY <3>1, <3>3
  <2>2. CASE HandleInfoUnknown(x, y)
    BY <2>2 DEF HandleInfoUnknown, TypeOK
  <2>3. CASE Lose(x, y)
    <3>1. /\ lost' = lost + 1 /\ UNCHANGED <<appIdToPeerId, peerLock>>
      BY <2>3 DEF Lose, dirVars
    <3>2. lost \in Nat
      BY CapAssumption DEF TypeOK
    <3> QED
      BY <3>1, <3>2
  <2> QED
    BY <2>1, <2>2, <2>3
<1>5. ASSUME NEW a \in Id, NEW b \in Id
      PROVE  Accounted(a, b)'
  <2>1. Handshakes(a, b)' = Handshakes(a, b)
    BY <1>1, <1>3 DEF Handshakes
  <2>2. Accounted(a, b)
    BY DEF HandshakesAccounted, Accounted
  <2>3. CASE a = x /\ b = y
    <3>1. PICK h \in Int : h = Handshakes(a, b)
      BY HandshakesType
    <3>2. status'[a][b] = status[a][b] - 1 /\ status[a][b] \in Nat /\ status[a][b] =< h
      BY <1>2, <2>2, <2>3, <3>1, HandshakesType DEF Accounted
    <3>3. status'[a][b] =< h /\ status'[a][b] < h
      BY <3>2
    <3> QED
      BY <1>4, <2>1, <2>3, <3>1, <3>3 DEF Accounted
  <2>4. CASE ~(a = x /\ b = y)
    <3>1. status'[a][b] = status[a][b] /\ (a \in appIdToPeerId'[b] <=> a \in appIdToPeerId[b])
      BY <1>2, <1>4, <2>4
    <3>2. lost > 0 => lost' > 0
      BY <1>4, CapAssumption DEF TypeOK
    <3>3. PICK h : h = Handshakes(a, b) /\ h = Handshakes(a, b)'
      BY <2>1
    <3> QED
      BY <1>4, <2>2, <3>1, <3>2, <3>3 DEF Accounted
  <2> QED
    BY <2>3, <2>4
<1> QED
  BY <1>5 DEF HandshakesAccounted, Accounted

\* Only the directory's own handlers touch it, the messages and the lock.
LEMMA AccountNext ==
    ASSUME TypeOK, TypeOK', AddingInv, HandshakesAccounted, [Next]_vars
    PROVE  HandshakesAccounted'
<1>1. ASSUME UNCHANGED <<newPeer, peers, appIdToPeerId, peerLock, status, lost>>
      PROVE  HandshakesAccounted'
  BY <1>1 DEF HandshakesAccounted, Handshakes
<1>2. ASSUME NEW x \in Id, Pacemaker(x)
      PROVE  UNCHANGED <<newPeer, peers, appIdToPeerId, peerLock, status, lost>>
  BY <1>2, EngineFrame
  DEF Pacemaker, ReceivePeerCount, findLeader, VisitPeer, findLeaderEnds, upateOCRState,
      startReporter, dirVars, netVars
<1>3. ASSUME NEW x \in Id, NEW y \in Id, ReporterMsg(x, y)
      PROVE  UNCHANGED <<newPeer, peers, appIdToPeerId, peerLock, status, lost>>
  BY <1>3, EngineFrame
<1>4. CASE UNCHANGED vars
  BY <1>1, <1>4 DEF vars, dirVars, netVars
<1> QED
  BY <1>1, <1>2, <1>3, <1>4, AccountPut, AccountSend, AccountTaken DEF Next, InfoLoop

\* Every handshake is accounted for on every pair of nodes, however often they
\* discover each other, and whatever is lost or locked out.
THEOREM HandshakesKept == Spec => []HandshakesAccounted
<1>1. Init => HandshakesAccounted
  BY NoIdAssumption DEF Init, HandshakesAccounted, Handshakes
<1>2. IndInv /\ IndInv' /\ HandshakesAccounted /\ [Next]_vars => HandshakesAccounted'
  BY AccountNext DEF IndInv
<1> QED
  BY <1>1, <1>2, Inductive, PTL DEF Spec

----------------------------------------------------------------------------
(***************************************************************************)
(* What an election can wait for.                                          *)
(***************************************************************************)

Visited(x) == {v[1] : v \in seen[x]}

\* The election of x can go on: it has a count to receive, or the holder of
\* peerLock is about to send one and finds room; it sleeps for a while; its scan
\* has a peer to visit; or the scan is over and has a smallest id.
ElectionMoves(x) ==
    \/ /\ pm[x] = "peerCount"
       /\ \/ peerCountChan[x] # <<>>
          \/ peerLock[x] = "adding" /\ Len(peerCountChan[x]) < PeerCountCap
    \/ pm[x] \in {"context", "elected", "announced"}
    \/ pm[x] = "scan" /\ InTree(x) \ Visited(x) # {}
    \/ /\ pm[x] = "scan" /\ todo[x] = {} /\ seen[x] # {}
       /\ \E v \in Candidates(x) : IsLeaderOf(v[3], {w[3] : w \in Candidates(x)})

\* A node with a peer that has no reporter yet is on the way to one, with its
\* peerLock leaked or its peerCountChan full.
ElectionNeverWaits ==
    \A x \in Electing : InTree(x) # {} /\ pm[x] # "reporting" => ElectionMoves(x)

\* What is left of an election: its stages, and peers that are not visited yet.
Stage(p) ==
    CASE p = "peerCount" -> 5 [] p = "context" -> 4 [] p = "scan" -> 3
      [] p = "elected" -> 2 [] p = "announced" -> 1 [] p = "reporting" -> 0
ElectionLeft(x) == Stage(pm[x]) + (Cardinality(Id) - Cardinality(Visited(x)))

\* A step that is one of the election of x takes it forward.
ElectionAdvances ==
    \A x \in Id :
        pm'[x] # pm[x] \/ seen'[x] # seen[x] => ElectionLeft(x)' < ElectionLeft(x)

\* A scan has visited what it is not going to visit, and none before it begins.
TodoInv ==
    \A x \in Id :
        /\ todo[x] \subseteq InTree(x) \ Visited(x)
        /\ pm[x] \in {"peerCount", "context"} => seen[x] = {}

\* A set of ids that is not empty has a leader.
LEMMA LeaderExists ==
    ASSUME NEW S \in SUBSET AnyId, S # {}
    PROVE  \E m \in S : IsLeaderOf(m, S)
<1> DEFINE T == {hashPeer[i] : i \in S}
           R == OpToRel(<, Nat)
<1>1. T \subseteq Nat /\ T # {}
  BY HashAssumption
<1>2. IsWellFoundedOn(R, Nat)
  BY NatLessThanWellFounded, Zenon
<1> HIDE DEF R
<1>3. \E h \in T : \A k \in T : ~(<<k, h>> \in R)
  BY <1>1, <1>2, WFMin
<1>4. PICK h \in T : \A k \in T : ~(<<k, h>> \in R)
  BY <1>3
<1>5. ASSUME NEW k \in T PROVE h =< k
  <2>1. ~(<<k, h>> \in R) /\ k \in Nat /\ h \in Nat
    BY <1>1, <1>4
  <2>2. ~(k < h)
    BY <2>1 DEF R, OpToRel
  <2> QED
    BY <2>1, <2>2
<1>6. PICK m \in S : h = hashPeer[m]
  BY <1>4
<1>7. IsLeaderOf(m, S)
  BY <1>5, <1>6 DEF IsLeaderOf
<1> QED
  BY <1>7

\* The peers visited are finitely many.
LEMMA VisitedFinite ==
    ASSUME TypeOK, NEW x \in Id
    PROVE  /\ Visited(x) \subseteq Id /\ IsFiniteSet(Visited(x))
           /\ Cardinality(Visited(x)) \in Nat /\ Cardinality(Id) \in Nat
           /\ Cardinality(Visited(x)) =< Cardinality(Id)
<1>1. seen[x] \in SUBSET (Id \X Nat \X AnyId)
  BY DEF TypeOK
<1>2. Visited(x) \in SUBSET Id
  <2>1. \A v \in seen[x] : v[1] \in Id
    BY <1>1
  <2> QED
    BY <2>1 DEF Visited
<1> QED
  BY <1>2, IdAssumption, FS_Subset, FS_CardinalityType

\* What a visit adds.
LEMMA VisitFacts ==
    ASSUME TypeOK, NEW x \in Id, NEW y \in Id, VisitPeer(x, y)
    PROVE  /\ \A z \in Id : Visited(z)' = IF z = x THEN Visited(z) \cup {y} ELSE Visited(z)
           /\ y \in InTree(x) \ Visited(x)
           /\ todo' = [todo EXCEPT ![x] = @ \ {y}]
           /\ pm[x] = "scan" /\ pm' = pm /\ peers' = peers
           /\ \A z \in Id \ {x} : seen'[z] = seen[z]
<1> DEFINE k == Len(peers[x][y])
           new == <<y, k, peers[x][y][k]>>
<1>1. /\ seen' = [seen EXCEPT ![x] = @ \cup {new}] /\ pm[x] = "scan"
      /\ pm' = pm /\ peers' = peers /\ todo' = [todo EXCEPT ![x] = @ \ {y}]
      /\ y \in InTree(x) /\ \A v \in seen[x] : v[1] # y
  BY DEF VisitPeer, dirVars
<1>2. new[1] = y
  OBVIOUS
<1> HIDE DEF new
<1>3. \A z \in Id : seen'[z] = IF z = x THEN seen[z] \cup {new} ELSE seen[z]
  BY <1>1 DEF TypeOK
<1>4. \A z \in Id : Visited(z)' = IF z = x THEN Visited(z) \cup {y} ELSE Visited(z)
  BY <1>2, <1>3 DEF Visited
<1>5. y \notin Visited(x)
  BY <1>1 DEF Visited
<1> QED
  BY <1>1, <1>3, <1>4, <1>5

\* Discoveries and scans keep what is still to visit in the tree, unvisited.
LEMMA TodoNext ==
    ASSUME TypeOK, TodoInv, [Next]_vars
    PROVE  TodoInv'
<1>0. /\ todo \in [Id -> SUBSET Id] /\ seen \in [Id -> SUBSET (Id \X Nat \X AnyId)]
      /\ pm \in [Id -> {"peerCount", "context", "scan", "elected", "announced", "reporting"}]
  BY DEF TypeOK
<1>1. \A a \in Id : InTree(a) \subseteq InTree(a)'
  BY TreeFacts
<1>2. ASSUME seen' = seen,
             \A z \in Id : todo'[z] \subseteq todo[z],
             \A z \in Id : pm'[z] = pm[z] \/ pm'[z] \notin {"peerCount", "context"} \/ pm[z] = "peerCount"
      PROVE  TodoInv'
  <2>1. \A z \in Id : Visited(z)' = Visited(z)
    BY <1>2 DEF Visited
  <2> QED
    BY <1>1, <1>2, <2>1 DEF TodoInv
<1>3. ASSUME NEW x \in Id, NEW y \in Id, handleNewPeer(x, y) PROVE TodoInv'
  <2>1. /\ seen' = seen /\ pm' = pm
        /\ todo' = [todo EXCEPT ![x] = IF y \in InTree(x) THEN @ ELSE {}]
    BY <1>3 DEF handleNewPeer
  <2>2. \A z \in Id : todo'[z] \subseteq todo[z]
    BY <1>0, <2>1
  <2> QED
    BY <1>2, <2>1, <2>2
<1>4. ASSUME NEW x \in Id, NEW y \in Id,
             handleNewPeerEnds(x) \/ HandleInfo(x, y) \/ HandleInfoUnknown(x, y) \/ Lose(x, y)
      PROVE  TodoInv'
  <2>1. seen' = seen /\ pm' = pm /\ todo' = todo
    BY <1>4 DEF handleNewPeerEnds, HandleInfo, HandleInfoUnknown, Lose, scanVars
  <2> QED
    BY <1>2, <2>1
<1>5. ASSUME NEW x \in Id, NEW p,
             p \notin {"peerCount", "context"} \/ pm[x] = "peerCount",
             pm' = [pm EXCEPT ![x] = p], seen' = seen, todo' = todo
      PROVE  TodoInv'
  <2>1. \A z \in Id : pm'[z] = IF z = x THEN p ELSE pm[z]
    BY <1>0, <1>5
  <2> QED
    BY <1>2, <1>5, <2>1
<1>6. ASSUME NEW x \in Id, ReceivePeerCount(x) PROVE TodoInv'
  <2>1. pm[x] = "peerCount" /\ pm' = [pm EXCEPT ![x] = "context"] /\ seen' = seen /\ todo' = todo
    BY <1>6 DEF ReceivePeerCount, scanVars
  <2> QED
    BY <1>5, <2>1
<1>7. ASSUME NEW x \in Id, findLeaderEnds(x) \/ upateOCRState(x) \/ startReporter(x)
      PROVE  TodoInv'
  <2>1. /\ \E p \in {"elected", "announced", "reporting"} : pm' = [pm EXCEPT ![x] = p]
        /\ seen' = seen /\ todo' = todo
    BY <1>7 DEF findLeaderEnds, upateOCRState, startReporter, scanVars
  <2> QED
    BY <1>5, <2>1
<1>8. ASSUME NEW x \in Id, findLeader(x) PROVE TodoInv'
  <2>1. /\ pm[x] = "context" /\ pm' = [pm EXCEPT ![x] = "scan"] /\ seen' = seen
        /\ todo' = [todo EXCEPT ![x] = InTree(x)] /\ peers' = peers
    BY <1>8 DEF findLeader, dirVars
  <2>2. \A z \in Id : /\ pm'[z] = IF z = x THEN "scan" ELSE pm[z]
                      /\ todo'[z] = IF z = x THEN InTree(x) ELSE todo[z]
                      /\ InTree(z)' = InTree(z) /\ Visited(z)' = Visited(z)
    BY <1>0, <2>1 DEF InTree, Visited
  <2>3. Visited(x) = {}
    BY <2>1 DEF TodoInv, Visited
  <2> QED
    BY <2>1, <2>2, <2>3 DEF TodoInv
<1>9. ASSUME NEW x \in Id, NEW y \in Id, VisitPeer(x, y) PROVE TodoInv'
  <2>1. /\ \A z \in Id : Visited(z)' = IF z = x THEN Visited(z) \cup {y} ELSE Visited(z)
        /\ todo' = [todo EXCEPT ![x] = @ \ {y}]
        /\ pm[x] = "scan" /\ pm' = pm /\ peers' = peers
        /\ \A z \in Id \ {x} : seen'[z] = seen[z]
    BY <1>9, VisitFacts
  <2>2. \A z \in Id : /\ todo'[z] = IF z = x THEN todo[z] \ {y} ELSE todo[z]
                      /\ InTree(z)' = InTree(z)
    BY <1>0, <2>1 DEF InTree
  <2>3. ASSUME NEW z \in Id PROVE todo'[z] \subseteq InTree(z)' \ Visited(z)'
    <3>1. todo[z] \subseteq InTree(z) \ Visited(z)
      BY DEF TodoInv
    <3>2. CASE z = x
      <4>1. /\ Visited(z)' = Visited(z) \cup {y} /\ todo'[z] = todo[z] \ {y}
            /\ InTree(z)' = InTree(z)
        BY <2>1, <2>2, <3>2
      <4> QED
        BY <3>1, <4>1
    <3>3. CASE z # x
      <4>1. Visited(z)' = Visited(z) /\ todo'[z] = todo[z] /\ InTree(z)' = InTree(z)
        BY <2>1, <2>2, <3>3
      <4> QED
        BY <3>1, <4>1
    <3> QED
      BY <3>2, <3>3
  <2>4. ASSUME NEW z \in Id, pm'[z] \in {"peerCount", "context"} PROVE seen'[z] = {}
    BY <2>1, <2>4 DEF TodoInv
  <2> QED
    BY <2>3, <2>4 DEF TodoInv
<1>10. CASE UNCHANGED vars
  <2>1. seen' = seen /\ pm' = pm /\ todo' = todo
    BY <1>10 DEF vars, scanVars
  <2> QED
    BY <1>2, <2>1
<1>11. ASSUME NEW x \in Id, initReporter(x) \/ SetReady(x) \/ (\E y \in Id : ReporterMsg(x, y))
       PROVE  TodoInv'
  BY <1>11, <1>2, EngineFrame
<1> QED
  BY <1>3, <1>4, <1>6, <1>7, <1>8, <1>9, <1>10, <1>11 DEF Next, Pacemaker, InfoLoop

\* What is to visit stays so always.
LEMMA TodoInvariance == Spec => []TodoInv
<1>1. Init => TodoInv
  BY DEF Init, TodoInv, Visited
<1>2. IndInv /\ TodoInv /\ [Next]_vars => TodoInv'
  BY TodoNext DEF IndInv
<1> QED
  BY <1>1, <1>2, Inductive, PTL DEF Spec

\* In a network of any size, no lock and no channel can stop an election: leaked
\* or taken peerLocks, full peerCountChans and discoveries during the scan leave
\* it a step to take.
THEOREM ElectionsNeedNoLock == Spec => []ElectionNeverWaits
<1>1. IndInv /\ TodoInv => ElectionNeverWaits
  <2> SUFFICES ASSUME IndInv, TodoInv, NEW x \in Electing, InTree(x) # {}, pm[x] # "reporting"
               PROVE  ElectionMoves(x)
    BY DEF ElectionNeverWaits
  <2>1. x \in Id /\ TypeOK
    BY ElectingAssumption DEF IndInv
  <2>2. pm[x] \in {"peerCount", "context", "scan", "elected", "announced", "reporting"}
    BY <2>1 DEF TypeOK
  <2>3. CASE pm[x] = "peerCount"
    <3>1. \/ peerCountChan[x] # <<>>
          \/ peerCountChan[x] = <<>> /\ peerLock[x] = "adding"
      BY <2>1, <2>3 DEF IndInv, FirstCountInv
    <3>2. Len(<<>>) < PeerCountCap
      BY CapAssumption
    <3> QED
      BY <2>3, <3>1, <3>2 DEF ElectionMoves
  <2>4. CASE pm[x] = "scan" /\ InTree(x) \ Visited(x) = {}
    <3>1. todo[x] = {} /\ seen[x] # {}
      BY <2>1, <2>4 DEF TodoInv, Visited
    <3> DEFINE S == {w[3] : w \in Candidates(x)}
    <3>2. S \in SUBSET AnyId /\ S # {}
      <4>1. seen[x] \subseteq Id \X Nat \X AnyId
        BY <2>1 DEF TypeOK
      <4>2. <<x, 0, x>> \in Id \X Nat \X AnyId
        BY <2>1 DEF AnyId
      <4>3. Candidates(x) \subseteq Id \X Nat \X AnyId /\ <<x, 0, x>> \in Candidates(x)
        BY <4>1, <4>2 DEF Candidates
      <4>4. \A w \in Candidates(x) : w[3] \in AnyId
        BY <4>3
      <4> QED
        BY <4>3, <4>4
    <3>3. PICK m \in S : IsLeaderOf(m, S)
      BY <3>2, LeaderExists
    <3>4. \E v \in Candidates(x) : v[3] = m
      OBVIOUS
    <3> QED
      BY <2>4, <3>1, <3>3, <3>4 DEF ElectionMoves
  <2> QED
    BY <2>2, <2>3, <2>4 DEF ElectionMoves
<1> QED
  BY <1>1, Inductive, TodoInvariance, PTL

\* A change of stage is one of the six steps, for one node.
LEMMA StageSteps ==
    ASSUME TypeOK, [Next]_vars, NEW x \in Id, pm'[x] # pm[x]
    PROVE  /\ seen' = seen
           /\ <<pm[x], pm'[x]>> \in {<<"peerCount", "context">>, <<"context", "scan">>,
                  <<"scan", "elected">>, <<"elected", "announced">>, <<"announced", "reporting">>}
<1>0. pm \in [Id -> {"peerCount", "context", "scan", "elected", "announced", "reporting"}]
  BY DEF TypeOK
<1>1. PICK y \in Id : Pacemaker(y)
  <2>1. pm' # pm
    OBVIOUS
  <2> QED
    BY <2>1, ElectionWriters
<1>2. ASSUME NEW p, NEW q, pm[y] = p, pm' = [pm EXCEPT ![y] = q]
      PROVE  <<pm[x], pm'[x]>> = <<p, q>>
  BY <1>0, <1>2
<1>3. ASSUME NEW z \in Id, VisitPeer(y, z) PROVE FALSE
  BY <1>3 DEF VisitPeer
<1>4. CASE ReceivePeerCount(y)
  <2>1. pm[y] = "peerCount" /\ pm' = [pm EXCEPT ![y] = "context"] /\ seen' = seen
    BY <1>4 DEF ReceivePeerCount, scanVars
  <2> QED
    BY <1>2, <2>1
<1>5. CASE findLeader(y)
  <2>1. pm[y] = "context" /\ pm' = [pm EXCEPT ![y] = "scan"] /\ seen' = seen
    BY <1>5 DEF findLeader
  <2> QED
    BY <1>2, <2>1
<1>6. CASE findLeaderEnds(y)
  <2>1. pm[y] = "scan" /\ pm' = [pm EXCEPT ![y] = "elected"] /\ seen' = seen
    BY <1>6 DEF findLeaderEnds
  <2> QED
    BY <1>2, <2>1
<1>7. CASE upateOCRState(y)
  <2>1. pm[y] = "elected" /\ pm' = [pm EXCEPT ![y] = "announced"] /\ seen' = seen
    BY <1>7 DEF upateOCRState, scanVars
  <2> QED
    BY <1>2, <2>1
<1>8. CASE startReporter(y)
  <2>1. pm[y] = "announced" /\ pm' = [pm EXCEPT ![y] = "reporting"] /\ seen' = seen
    BY <1>8 DEF startReporter, scanVars
  <2> QED
    BY <1>2, <2>1
<1>9. ASSUME initReporter(y) \/ SetReady(y) PROVE FALSE
  BY <1>9, EngineFrame
<1> QED
  BY <1>1, <1>3, <1>4, <1>5, <1>6, <1>7, <1>8, <1>9 DEF Pacemaker

\* An election is a bounded number of steps, the peers there are and the stages:
\* discoveries that go on during a scan, and change the tree under it, cannot keep
\* it busy.
THEOREM ElectionsAreBounded ==
    Spec => [](\A x \in Id : ElectionLeft(x) \in Nat) /\ [][ElectionAdvances]_vars
<1>1. ASSUME TypeOK, NEW x \in Id
      PROVE  /\ Stage(pm[x]) \in Nat /\ Cardinality(Id) - Cardinality(Visited(x)) \in Nat
             /\ ElectionLeft(x) \in Nat
  <2>1. pm[x] \in {"peerCount", "context", "scan", "elected", "announced", "reporting"}
    BY <1>1 DEF TypeOK
  <2>2. Stage(pm[x]) \in Nat
    BY <2>1 DEF Stage
  <2>3. Cardinality(Id) - Cardinality(Visited(x)) \in Nat
    BY <1>1, VisitedFinite
  <2> QED
    BY <2>2, <2>3 DEF ElectionLeft
<1>2. IndInv => \A x \in Id : ElectionLeft(x) \in Nat
  BY <1>1 DEF IndInv
<1>3. ASSUME TypeOK, [Next]_vars, NEW x \in Id, pm'[x] # pm[x]
      PROVE  ElectionLeft(x)' < ElectionLeft(x)
  <2>1. seen' = seen /\ Stage(pm'[x]) = Stage(pm[x]) - 1 /\ Stage(pm[x]) \in Nat
    BY <1>3, StageSteps DEF Stage
  <2>2. Visited(x)' = Visited(x)
    BY <2>1 DEF Visited
  <2>3. ElectionLeft(x)' = Stage(pm'[x]) + (Cardinality(Id) - Cardinality(Visited(x)))
    BY <2>2 DEF ElectionLeft
  <2> QED
    BY <1>1, <1>3, <2>1, <2>3 DEF ElectionLeft
<1>4. ASSUME TypeOK, [Next]_vars, NEW x \in Id, pm'[x] = pm[x], seen'[x] # seen[x]
      PROVE  ElectionLeft(x)' < ElectionLeft(x)
  <2>1. PICK z \in Id, y \in Id : VisitPeer(z, y)
    BY <1>4, ElectionWriters
  <2>2. z = x
    BY <1>4, <2>1, VisitFacts
  <2>3. Visited(x)' = Visited(x) \cup {y} /\ y \notin Visited(x)
    BY <1>4, <2>1, <2>2, VisitFacts
  <2>4. Cardinality(Visited(x)') = Cardinality(Visited(x)) + 1
    BY <1>4, <2>3, VisitedFinite, FS_AddElement
  <2>5. /\ Stage(pm[x]) \in Nat /\ Cardinality(Id) \in Nat
        /\ Cardinality(Visited(x)) \in Nat
    BY <1>1, <1>4, VisitedFinite
  <2>6. /\ ElectionLeft(x) = Stage(pm[x]) + (Cardinality(Id) - Cardinality(Visited(x)))
        /\ ElectionLeft(x)' = Stage(pm[x]) + (Cardinality(Id) - Cardinality(Visited(x)'))
    BY <1>4 DEF ElectionLeft
  <2> QED
    BY <2>4, <2>5, <2>6
<1>5. IndInv /\ [Next]_vars => [ElectionAdvances]_vars
  BY <1>3, <1>4 DEF IndInv, ElectionAdvances
<1> QED
  BY <1>2, <1>5, Inductive, PTL DEF Spec
=============================================================================
