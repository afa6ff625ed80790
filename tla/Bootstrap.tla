----------------------------- MODULE Bootstrap -----------------------------
(***************************************************************************)
(* From the discovery of the peers to the leader each node will report to: *)
(* the server's peer directory and its Status handshake (ocr/server.go,    *)
(* ocr/server_rpc_processor.go), the context OCR.Start builds from the     *)
(* first peer count (ocr/ocr.go) and the election of Pacemaker.Start       *)
(* (ocr/pacemaker.go), on every node, with mDNS and the lossy links        *)
(* between them.  A node stands for its network id and its server id.  A   *)
(* Status comes through the server loop, which the reporting engine can    *)
(* stop: of the engine (ocr/reporter.go) only that is here.                *)
(***************************************************************************)
EXTENDS LeaderRank, Sequences, FiniteSets

CONSTANTS
    MaxFound,      \* bound: MaxFound[x], how often mDNS announces one peer to x
    PeerCountCap,  \* capacity of peerCountChan, 1000 in the code
    MaxLost,       \* bound: handshakes the network loses in a behaviour
    Electing       \* bound: the nodes that get as far as their election

ASSUME IdAssumption == IsFiniteSet(Id)
ASSUME CapAssumption == MaxFound \in [Id -> Nat] /\ PeerCountCap \in Nat \ {0} /\ MaxLost \in Nat
ASSUME ElectingAssumption == Electing \subseteq Id

VARIABLES
    newPeer,       \* the peer handleNewPeer works on, NoId when it does not
    peers,         \* peers[x][y]: ServerIDs of the ProtcolPeers x made for y;
                   \*   the last one is in the tree
    appIdToPeerId, \* the server ids the map has a network id for
    peerLock,      \* "free", "adding" (handleNewPeer has it) or "leaked"
    peerCountChan, \* tree sizes not yet received
    status,        \* status[x][y]: Status messages of x on their way to y, in
                   \*   the stream, in msgCh or in commsChWithServer
    lost,          \* how many of them the network has lost
    PeerCount,     \* ctx.PeerCount, 0 before it is set
    FaultyCount,   \* ctx.FaultyCount
    pm,            \* where OCR.Start and Pacemaker.Start are
    todo,          \* peers the running scan of findLeader is sure to visit
    seen,          \* <<peer, its ProtcolPeer, its ServerID>> as the scan read them
    elected,       \* the ProtcolPeer findLeader returned, as <<peer, which one>>
    state,         \* OCR.state
    leader,        \* the server id handed to initReporter
    engine,        \* the reporting engine: "none", "init" or "ready"
    reMu,          \* re.mu between two calls: "free", or "leaked" for good
    loop           \* the server loop: "running", or "blocked" for good

dirVars  == <<newPeer, peers, appIdToPeerId, peerLock, peerCountChan>>
netVars  == <<status, lost>>
ctxVars  == <<PeerCount, FaultyCount>>
scanVars == <<todo, seen, elected>>
roleVars == <<state, leader>>
engVars  == <<engine, reMu, loop>>
vars     == <<dirVars, netVars, ctxVars, pm, scanVars, roleVars, engVars>>

\* The tree's ProtcolPeer gets its ServerID.
Named(made, id) == [made EXCEPT ![Len(made)] = id]

InTree(x) == {y \in Id : peers[x][y] # <<>>}

Init ==
    /\ newPeer = [x \in Id |-> NoId]
    /\ peers = [x \in Id |-> [y \in Id |-> <<>>]]
    /\ appIdToPeerId = [x \in Id |-> {}]
    /\ peerLock = [x \in Id |-> "free"]
    /\ peerCountChan = [x \in Id |-> <<>>]
    /\ status = [x \in Id |-> [y \in Id |-> 0]]
    /\ lost = 0
    /\ PeerCount = [x \in Id |-> 0]
    /\ FaultyCount = [x \in Id |-> 0]
    /\ pm = [x \in Id |-> "peerCount"]
    /\ todo = [x \in Id |-> {}]
    /\ seen = [x \in Id |-> {}]
    /\ elected = [x \in Id |-> <<x, 0>>]
    /\ state = [x \in Id |-> "PREPARE"]
    /\ leader = [x \in Id |-> NoId]
    /\ engine = [x \in Id |-> "none"]
    /\ reMu = [x \in Id |-> "free"]
    /\ loop = [x \in Id |-> "running"]

(***************************************************************************)
(* The peer directory.                                                     *)
(***************************************************************************)

\* mDNS announces y, maybe again, and the connection to it succeeds.
HandlePeerFound(x, y) == x # y /\ Len(peers[x][y]) < MaxFound[x]

\* The consumer of peerCh gets to it, up to the Put: a fresh ProtcolPeer, without
\* ServerID, takes y's place in the tree.  A new key may rotate the tree under a
\* scan, which reads it without peerLock and may then miss any peer it has not
\* come to.
handleNewPeer(x, y) ==
    /\ HandlePeerFound(x, y)
    /\ peerLock[x] = "free"
    /\ peerLock' = [peerLock EXCEPT ![x] = "adding"]
    /\ newPeer' = [newPeer EXCEPT ![x] = y]
    /\ peers' = [peers EXCEPT ![x][y] = Append(@, NoId)]
    /\ todo' = [todo EXCEPT ![x] = IF y \in InTree(x) THEN @ ELSE {}]
    /\ UNCHANGED <<appIdToPeerId, peerCountChan, netVars, ctxVars, pm, seen, elected, roleVars,
                   engVars>>

sendHandshakeMsgToPeerNode(x, y) == status' = [status EXCEPT ![x][y] = @ + 1]

\* Mutant: the end of handleNewPeer forgets to unlock.
handleNewPeerEndsLocked(x) ==
    /\ peerLock[x] = "adding"
    /\ Len(peerCountChan[x]) < PeerCountCap
    /\ peerCountChan' = [peerCountChan EXCEPT ![x] = Append(@, Cardinality(InTree(x)))]
    /\ sendHandshakeMsgToPeerNode(x, newPeer[x])
    /\ newPeer' = [newPeer EXCEPT ![x] = NoId]
    /\ UNCHANGED <<peers, appIdToPeerId, peerLock, lost, ctxVars, pm, scanVars, roleVars,
                   engVars>>

\* The send on peerCountChan waits, with peerLock, while the channel is full.
handleNewPeerEnds(x) ==
    /\ peerLock[x] = "adding"
    /\ Len(peerCountChan[x]) < PeerCountCap
    /\ peerCountChan' = [peerCountChan EXCEPT ![x] = Append(@, Cardinality(InTree(x)))]
    /\ sendHandshakeMsgToPeerNode(x, newPeer[x])
    /\ newPeer' = [newPeer EXCEPT ![x] = NoId]
    /\ peerLock' = [peerLock EXCEPT ![x] = "free"]
    /\ UNCHANGED <<peers, appIdToPeerId, lost, ctxVars, pm, scanVars, roleVars, engVars>>

\* Mutant: the ServerID is set and the map forgotten.
HandleInfoUnmapped(x, y) ==
    /\ status[x][y] > 0
    /\ peerLock[y] = "free"
    /\ x \in InTree(y)
    /\ status' = [status EXCEPT ![x][y] = @ - 1]
    /\ peers' = [peers EXCEPT ![y][x] = Named(@, x)]
    /\ UNCHANGED <<newPeer, appIdToPeerId, peerLock, peerCountChan, lost, ctxVars, pm,
                   scanVars, roleVars, engVars>>

\* Mutant: the server's own id is written into the peer.
HandleInfoOwnId(x, y) ==
    /\ status[x][y] > 0
    /\ peerLock[y] = "free"
    /\ x \in InTree(y)
    /\ status' = [status EXCEPT ![x][y] = @ - 1]
    /\ appIdToPeerId' = [appIdToPeerId EXCEPT ![y] = @ \cup {x}]
    /\ peers' = [peers EXCEPT ![y][x] = Named(@, y)]
    /\ UNCHANGED <<newPeer, peerLock, peerCountChan, lost, ctxVars, pm, scanVars, roleVars,
                   engVars>>

\* The goroutine behind commsChWithServer takes the Status of a known peer.
HandleInfo(x, y) ==
    /\ status[x][y] > 0
    /\ peerLock[y] = "free"
    /\ x \in InTree(y)
    /\ status' = [status EXCEPT ![x][y] = @ - 1]
    /\ appIdToPeerId' = [appIdToPeerId EXCEPT ![y] = @ \cup {x}]
    /\ peers' = [peers EXCEPT ![y][x] = Named(@, x)]
    /\ UNCHANGED <<newPeer, peerLock, peerCountChan, lost, ctxVars, pm, scanVars, roleVars, engVars>>

\* Mutant: the lock is released, and the Status of the unknown peer dropped.
HandleInfoUnknownUnlocks(x, y) ==
    /\ status[x][y] > 0
    /\ peerLock[y] = "free"
    /\ x \notin InTree(y)
    /\ status' = [status EXCEPT ![x][y] = @ - 1]
    /\ UNCHANGED <<dirVars, lost, ctxVars, pm, scanVars, roleVars, engVars>>

\* A Status of a peer not yet in the tree: continue, without unlocking.
HandleInfoUnknown(x, y) ==
    /\ status[x][y] > 0
    /\ peerLock[y] = "free"
    /\ x \notin InTree(y)
    /\ status' = [status EXCEPT ![x][y] = @ - 1]
    /\ peerLock' = [peerLock EXCEPT ![y] = "leaked"]
    /\ UNCHANGED <<newPeer, peers, appIdToPeerId, peerCountChan, lost, ctxVars, pm,
                   scanVars, roleVars, engVars>>

\* A stream that cannot be opened or written, or bytes that do not decode.
Lose(x, y) ==
    /\ status[x][y] > 0
    /\ lost < MaxLost
    /\ lost' = lost + 1
    /\ status' = [status EXCEPT ![x][y] = @ - 1]
    /\ UNCHANGED <<dirVars, ctxVars, pm, scanVars, roleVars, engVars>>

(***************************************************************************)
(* The context and the election.                                           *)
(***************************************************************************)

\* The goroutine of OCR.Start receives one count, ever.
ReceivePeerCount(x) ==
    /\ pm[x] = "peerCount"
    /\ peerCountChan[x] # <<>>
    /\ PeerCount' = [PeerCount EXCEPT ![x] = Head(peerCountChan[x])]
    /\ FaultyCount' = [FaultyCount EXCEPT ![x] = (Head(peerCountChan[x]) - 1) \div 3]
    /\ peerCountChan' = [peerCountChan EXCEPT ![x] = Tail(@)]
    /\ pm' = [pm EXCEPT ![x] = "context"]
    /\ UNCHANGED <<newPeer, peers, appIdToPeerId, peerLock, netVars, scanVars, roleVars,
                   engVars>>


\* Five seconds later, without peerLock.
findLeader(x) ==
    /\ pm[x] = "context"
    /\ x \in Electing
    /\ pm' = [pm EXCEPT ![x] = "scan"]
    /\ todo' = [todo EXCEPT ![x] = InTree(x)]
    /\ UNCHANGED <<dirVars, netVars, ctxVars, seen, elected, roleVars, engVars>>

VisitPeer(x, y) ==
    /\ pm[x] = "scan"
    /\ y \in InTree(x) /\ \A v \in seen[x] : v[1] # y
    /\ LET k == Len(peers[x][y]) IN
           seen' = [seen EXCEPT ![x] = @ \cup {<<y, k, peers[x][y][k]>>}]
    /\ todo' = [todo EXCEPT ![x] = @ \ {y}]
    /\ UNCHANGED <<dirVars, netVars, ctxVars, pm, elected, roleVars, engVars>>

\* Mutant: the caller is not compared.
CandidatesPeers(x) == seen[x]

\* The ProtcolPeers findLeader compares: those it visited, and one for the caller.
Candidates(x) == seen[x] \cup {<<x, 0, x>>}

\* LeaderSelection shows that the scan ends with a smallest hash; of several
\* peers without ServerID any one may come first in the tree.
findLeaderEnds(x) ==
    /\ pm[x] = "scan"
    /\ todo[x] = {} /\ seen[x] # {}
    /\ \E v \in Candidates(x) :
           /\ IsLeaderOf(v[3], {w[3] : w \in Candidates(x)})
           /\ elected' = [elected EXCEPT ![x] = <<v[1], v[2]>>]
    /\ pm' = [pm EXCEPT ![x] = "elected"]
    /\ UNCHANGED <<dirVars, netVars, ctxVars, todo, seen, roleVars, engVars>>

\* leader.ServerID, as the ProtcolPeer now has it.
electedServerID(x) ==
    IF elected[x][1] = x THEN x ELSE peers[x][elected[x][1]][elected[x][2]]

\* REPORT_GEN and TRANSMIT are never sent.
OCRState == {"PREPARE", "LEADING", "FOLLOWING"}
readLoop(x, s) == state' = [state EXCEPT ![x] = s]

\* isLeader is decided and sent to OCR.readLoop.
upateOCRState(x) ==
    /\ pm[x] = "elected"
    /\ readLoop(x, IF electedServerID(x) = x THEN "LEADING" ELSE "FOLLOWING")
    /\ pm' = [pm EXCEPT ![x] = "announced"]
    /\ UNCHANGED <<dirVars, netVars, ctxVars, scanVars, leader, engVars>>

\* The call of initReporter: leader.ServerID is read a second time.  Much later
\* for a leader, which first waits for events, may panic or announce an epoch
\* (see Pacemaker), and need not come so far.
startReporter(x) ==
    /\ pm[x] = "announced"
    /\ leader' = [leader EXCEPT ![x] = electedServerID(x)]
    /\ pm' = [pm EXCEPT ![x] = "reporting"]
    /\ UNCHANGED <<dirVars, netVars, ctxVars, scanVars, state, engVars>>

(***************************************************************************)
(* The reporting engine, as far as it holds up the server loop.            *)
(***************************************************************************)

\* initReporter gets re.mu.
initReporter(x) ==
    /\ pm[x] = "reporting"
    /\ engine[x] = "none"
    /\ reMu[x] = "free"
    /\ engine' = [engine EXCEPT ![x] = "init"]
    /\ UNCHANGED <<dirVars, netVars, ctxVars, pm, scanVars, roleVars, reMu, loop>>

\* The end of ReportingEngine.Start, which needs re.mu once more.
SetReady(x) ==
    /\ engine[x] = "init"
    /\ reMu[x] = "free"
    /\ engine' = [engine EXCEPT ![x] = "ready"]
    /\ UNCHANGED <<dirVars, netVars, ctxVars, pm, scanVars, roleVars, reMu, loop>>

\* A node that leads sends a request of its round to y.  A y that is not ready
\* returns with re.mu held, and the next request waits for it on the server
\* loop.  A y that is ready can be stuck with its answer (SendReturns of
\* Transport, HandlerReturns of Observation).
ReporterMsg(x, y) ==
    /\ x # y
    /\ engine[x] # "none" /\ leader[x] = x
    /\ loop[y] = "running"
    /\ IF engine[y] # "ready" /\ reMu[y] = "free"
       THEN reMu' = [reMu EXCEPT ![y] = "leaked"] /\ UNCHANGED loop
       ELSE loop' = [loop EXCEPT ![y] = "blocked"] /\ UNCHANGED reMu
    /\ UNCHANGED <<dirVars, netVars, ctxVars, pm, scanVars, roleVars, engine>>

----------------------------------------------------------------------------
Pacemaker(x) ==
    \/ ReceivePeerCount(x)
    \/ findLeader(x)
    \/ \E y \in Id : VisitPeer(x, y)
    \/ findLeaderEnds(x)
    \/ upateOCRState(x)
    \/ startReporter(x)
    \/ initReporter(x)
    \/ SetReady(x)

\* The goroutine behind commsChWithServer on y.
InfoLoop(y) == \E x \in Id : HandleInfo(x, y) \/ HandleInfoUnknown(x, y)

Next ==
    \/ \E x \in Id : handleNewPeerEnds(x) \/ InfoLoop(x) \/ Pacemaker(x)
    \/ \E x, y \in Id :
           \/ handleNewPeer(x, y)
           \/ Lose(x, y)
           \/ ReporterMsg(x, y)

\* A leader between its announcement and the call of initReporter.
LeaderWaits(x) == pm[x] = "announced" /\ state[x] = "LEADING"

\* Goroutines that can run are run; what mDNS finds is not assumed, nor that a
\* leader comes through its wait for events, nor that a Status gets through a
\* server loop that is blocked.  The few Status messages of a node fit into its
\* streams: the write of one does not wait.
Fairness ==
    \A x \in Id :
        /\ WF_vars(handleNewPeerEnds(x))
        /\ WF_vars(loop[x] = "running" /\ InfoLoop(x))
        /\ WF_vars(~LeaderWaits(x) /\ Pacemaker(x))

Spec == Init /\ [][Next]_vars
FairSpec == Spec /\ Fairness

----------------------------------------------------------------------------
(***************************************************************************)
(* Properties                                                              *)
(***************************************************************************)

TypeOK ==
    /\ newPeer \in [Id -> AnyId]
    /\ peers \in [Id -> [Id -> Seq(AnyId)]]
    /\ appIdToPeerId \in [Id -> SUBSET Id]
    /\ peerLock \in [Id -> {"free", "adding", "leaked"}]
    /\ peerCountChan \in [Id -> Seq(Nat)]
    /\ status \in [Id -> [Id -> Nat]]
    /\ lost \in 0..MaxLost
    /\ PeerCount \in [Id -> Nat]
    /\ FaultyCount \in [Id -> Nat]
    /\ pm \in [Id -> {"peerCount", "context", "scan", "elected", "announced", "reporting"}]
    /\ todo \in [Id -> SUBSET Id]
    /\ seen \in [Id -> SUBSET (Id \X Nat \X AnyId)]
    /\ elected \in [Id -> Id \X Nat]
    /\ state \in [Id -> OCRState]
    /\ leader \in [Id -> AnyId]
    /\ engine \in [Id -> {"none", "init", "ready"}]
    /\ reMu \in [Id -> {"free", "leaked"}]
    /\ loop \in [Id -> {"running", "blocked"}]
    /\ \A x \in Id : newPeer[x] # NoId <=> peerLock[x] = "adding"

\* A leader with a name can be written to: SendMsg finds its network id, even
\* when the name was learnt, or forgotten by a second discovery, after the
\* election.
ElectedLeaderReachable ==
    \A x \in Id : leader[x] \in Id \ {x} => leader[x] \in appIdToPeerId[x]

\* leader.ServerID is read twice with handshakes in between; the role a node
\* takes and the leader its reporter is given still agree.
RoleMatchesLeader ==
    \A x \in Id : pm[x] = "reporting" => (state[x] = "LEADING" <=> leader[x] = x)

\* The scan read the name of every node but the caller.
CompleteView(x) == {v[3] : v \in seen[x]} = Id \ {x}
\* Nodes whose scans were complete elected the same leader, whatever the
\* directories were like before and after.
CompleteViewsAgree ==
    \A x, y \in Id :
        /\ pm[x] = "reporting" /\ CompleteView(x)
        /\ pm[y] = "reporting" /\ CompleteView(y)
        => leader[x] = leader[y]

\* How many Status messages x has sent to y: one for each ProtcolPeer, the one
\* handleNewPeer still works on excepted.
Handshakes(x, y) == Len(peers[x][y]) - (IF newPeer[x] = y THEN 1 ELSE 0)
\* No handshake is made up or taken twice: a name in a map was sent by its owner,
\* in a message that is no longer on its way.  And none is forgotten: what x sent
\* has named it, is on its way or lost, or went into a leaked peerLock.
HandshakesAccounted ==
    \A x, y \in Id :
        /\ status[x][y] =< Handshakes(x, y)
        /\ x \in appIdToPeerId[y] => status[x][y] < Handshakes(x, y)
        /\ Handshakes(x, y) > 0 =>
               \/ x \in appIdToPeerId[y] \/ status[x][y] > 0
               \/ lost > 0 \/ peerLock[y] = "leaked"

\* Once two nodes are in each other's trees, the name of x gets into y's map,
\* unless a handshake was lost, y's peerLock is never free again, x waits on a
\* full peerCountChan for ever or the server loop of y, through which the Status
\* comes, has been blocked by the reporting engine.
HandshakeCompletes ==
    \A x \in Id : \A y \in Id \ {x} :
        x \in InTree(y) /\ y \in InTree(x) ~>
            \/ x \in appIdToPeerId[y]
            \/ lost > 0 \/ loop[y] = "blocked"
            \/ [](peerLock[y] # "free") \/ [](peerLock[x] = "adding")


(***************************************************************************)
(* What comments in the code say, and the code does not keep.              *)
(***************************************************************************)

\* ocr/ocr.go, of the context the globals are made of: "n : no of peers in the
\* network (n >= 3f+1)".  A node that has found every other node comes to have
\* their number in PeerCount.
CountsEveryPeer ==
    \A x \in Id : InTree(x) = Id \ {x} ~> PeerCount[x] = Cardinality(Id \ {x})

\* ocr/server_rpc_processor.go: "we will only recieve status Msgs from a peer
\* from whom we have recently accepted a conn, and who must be in the
\* peerTempMap": a Status that is taken has its sender in the tree (in a network
\* that loses none).
StatusOnlyFromKnownPeer ==
    [][\A x, y \in Id : status'[x][y] < status[x][y] => x \in InTree(y)]_vars
=============================================================================
