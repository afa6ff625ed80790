----------------------------- MODULE Reporting -----------------------------
(***************************************************************************)
(* One round of the reporting engine (ocr/reporter.go, ocr/leader.go) on   *)
(* every node of the network, from the start-up of the engine to the       *)
(* collection of the followers' reports, with the server loop that feeds   *)
(* it (ocr/server.go) and the lossy links between the nodes.               *)
(*                                                                         *)
(* What is left out because it is constant in every reachable state: the   *)
(* epoch (0) and the round (INIT_ROUND), and the jobs of a round, which    *)
(* are always none: Start panics before it schedules the first one.        *)
(***************************************************************************)
EXTENDS Integers, Sequences, FiniteSets

CONSTANTS
    Node,         \* the oracles
    leader,       \* re.leader: whom each node elected (its own election)
    NoId,         \* the empty id: a peer without handshake, a blank report
    n,            \* pacemakerGlobals.n
    f,            \* pacemakerGlobals.f
    EventCounts,  \* lengths recEvents can have when a leader starts
    MaxLost       \* bound: messages the network loses in a behaviour

ASSUME NodeAssumption == IsFiniteSet(Node) /\ NoId \notin Node
ASSUME LeaderAssumption == leader \in [Node -> Node \cup {NoId}]
ASSUME GlobalsAssumption == n \in Nat \ {0} /\ f \in Nat
ASSUME BoundAssumption == EventCounts \subseteq Nat /\ MaxLost \in Nat

VARIABLES
    pc,            \* start-up: initReporter, Start, ready (pc "ready" is re.ready)
    mu,            \* re.mu: "free" or "leaked" (locked by a call that returned)
    loop,          \* the server loop: "running", or "blocked" on re.mu
    chan,          \* chan[x][y]: the stream from x to y
    lost,          \* how many messages the network has lost
    observing,     \* where the leader's handleObserve goroutine is
    Phase,         \* re.Phase
    observations,  \* re.observations: the peers whose observation is stored
    observe_n,     \* re.cacheLayer.observe_n
    tasks,         \* one handleGrace/handleReport pair per send of PhaseGrace
    reports,       \* re.reports: the senders, in order
    assembled,     \* has assembleFinalReport been called?
    follower_observations  \* re.cacheLayer.follower_observations

startVars    == <<pc, mu, loop>>
netVars      == <<chan, lost>>
leaderVars   == <<observing, Phase, observations, observe_n, tasks, reports, assembled>>
vars         == <<pc, mu, loop, chan, lost, observing, Phase, observations,
                  observe_n, tasks, reports, assembled, follower_observations>>

MAX_ROUNDS == 10

IsLeader(x) == leader[x] = x
Followers(l) == {q \in Node \ {l} : leader[q] = l}

(***************************************************************************)
(* Messages and links.  An observation map is the set of peers it has an   *)
(* entry for: with no jobs every entry is the same empty map.              *)
(***************************************************************************)
MsgType == {"ObserveReq", "ObserveResp", "BroadcastObservationMap", "ReportReq", "ReportRes"}
Msg == [type : MsgType, leader : Node \cup {NoId}, om : SUBSET Node]

Message(type, l, om) == [type |-> type, leader |-> l, om |-> om]

Pop(c, x, y) == [c EXCEPT ![x][y] = Tail(@)]
\* Server.SendMsg: an id that is no known peer's is an error nobody looks at.
SendMsg(c, x, y, m) ==
    IF y \in Node \ {x} THEN [c EXCEPT ![x][y] = Append(@, m)] ELSE c
BroadcastMsg(c, x, m) ==
    [c EXCEPT ![x] = [y \in Node |-> IF y = x THEN c[x][y] ELSE Append(c[x][y], m)]]

TaskStep == {"grace", "marshal", "sleep", "done"}
Task == [step : TaskStep, om : SUBSET Node]

PhaseValue == {"Nil", "Observe", "Grace", "Report"}

----------------------------------------------------------------------------
Init ==
    /\ pc = [x \in Node |-> "created"]
    /\ mu = [x \in Node |-> "free"]
    /\ loop = [x \in Node |-> "running"]
    /\ chan = [x \in Node |-> [y \in Node |-> <<>>]]
    /\ lost = 0
    /\ observing = [x \in Node |-> "idle"]
    /\ Phase = [x \in Node |-> "Observe"]       \* the zero LeaderPhase
    /\ observations = [x \in Node |-> {}]
    /\ observe_n = [x \in Node |-> 0]
    /\ tasks = [x \in Node |-> <<>>]
    /\ reports = [x \in Node |-> <<>>]
    /\ assembled = [x \in Node |-> FALSE]
    /\ follower_observations = [x \in Node |-> {}]

(***************************************************************************)
(* Start-up: Pacemaker.Start calls initReporter and, two seconds later,    *)
(* ReportingEngine.Start in a goroutine.                                   *)
(***************************************************************************)

\* initReporter runs under re.mu; nothing it resets has changed before it
\* except for the values that differ from Go's zero values.
initReporter(x) ==
    /\ pc[x] = "created"
    /\ mu[x] = "free"
    /\ pc' = [pc EXCEPT ![x] = "inited"]
    /\ Phase' = [Phase EXCEPT ![x] = IF IsLeader(x) THEN "Observe" ELSE "Nil"]
    /\ reports' = [reports EXCEPT ![x] = <<NoId>>]    \* make([]Report, 1)
    /\ UNCHANGED <<mu, loop, netVars, observing, observations, observe_n, tasks,
                   assembled, follower_observations>>

jobs_per_round(k) == k \div MAX_ROUNDS

\* The scheduling loop takes jobs_per_round - 1 events for each round; the
\* first one it takes is not a jobs.Job and the type assertion panics.
StartPanics(x) ==
    /\ pc[x] = "inited"
    /\ IsLeader(x)
    /\ \E k \in EventCounts : jobs_per_round(k) > 1
    /\ pc' = [pc EXCEPT ![x] = "crashed"]
    /\ UNCHANGED <<mu, loop, netVars, leaderVars, follower_observations>>

\* A leader hands PhaseObserve to orchestrateLeadership, which starts
\* handleObserve in a goroutine.
StartLeader(x) ==
    /\ pc[x] = "inited"
    /\ IsLeader(x)
    /\ \E k \in EventCounts : jobs_per_round(k) <= 1
    /\ pc' = [pc EXCEPT ![x] = "started"]
    /\ observing' = [observing EXCEPT ![x] = "send"]
    /\ UNCHANGED <<mu, loop, netVars, Phase, observations, observe_n, tasks, reports,
                   assembled, follower_observations>>

StartFollower(x) ==
    /\ pc[x] = "inited"
    /\ ~IsLeader(x)
    /\ pc' = [pc EXCEPT ![x] = "started"]
    /\ UNCHANGED <<mu, loop, netVars, leaderVars, follower_observations>>

\* The end of Start, for leader and follower alike.
SetReady(x) ==
    /\ pc[x] = "started"
    /\ mu[x] = "free"
    /\ pc' = [pc EXCEPT ![x] = "ready"]
    /\ UNCHANGED <<mu, loop, netVars, leaderVars, follower_observations>>

(***************************************************************************)
(* The leader's goroutines.                                                *)
(***************************************************************************)
handleObserve(x) ==
    /\ observing[x] = "send"
    /\ chan' = BroadcastMsg(chan, x, Message("ObserveReq", leader[x], {}))
    /\ observing' = [observing EXCEPT ![x] = "setPhase"]
    /\ UNCHANGED <<startVars, lost, Phase, observations, observe_n, tasks, reports,
                   assembled, follower_observations>>

handleObserveEnds(x) ==
    /\ observing[x] = "setPhase"
    /\ Phase' = [Phase EXCEPT ![x] = "Observe"]
    /\ observing' = [observing EXCEPT ![x] = "done"]
    /\ UNCHANGED <<startVars, netVars, observations, observe_n, tasks, reports,
                   assembled, follower_observations>>

\* time.AfterFunc(RoundGrace, ...) fires and starts handleReport.
handleGrace(x, k) ==
    /\ tasks[x][k].step = "grace"
    /\ Phase' = [Phase EXCEPT ![x] = "Report"]
    /\ tasks' = [tasks EXCEPT ![x][k].step = "marshal"]
    /\ UNCHANGED <<startVars, netVars, observing, observations, observe_n, reports,
                   assembled, follower_observations>>

\* Mutant: the map is marshalled but never sent.
broadcastObservationMapForgotten(x, k) ==
    /\ tasks[x][k].step = "marshal"
    /\ tasks' = [tasks EXCEPT ![x][k] = [step |-> "sleep", om |-> observations[x]]]
    /\ UNCHANGED <<startVars, netVars, observing, Phase, observations, observe_n, reports,
                   assembled, follower_observations>>

broadcastObservationMap(x, k) ==
    /\ tasks[x][k].step = "marshal"
    /\ tasks' = [tasks EXCEPT ![x][k] = [step |-> "sleep", om |-> observations[x]]]
    /\ chan' = BroadcastMsg(chan, x,
                   Message("BroadcastObservationMap", leader[x], observations[x]))
    /\ UNCHANGED <<startVars, lost, observing, Phase, observations, observe_n, reports,
                   assembled, follower_observations>>

\* Mutant: a ticker where the code sleeps once.
handleReportRepeats(x, k) ==
    /\ tasks[x][k].step = "sleep"
    /\ chan' = BroadcastMsg(chan, x, Message("ReportReq", leader[x], tasks[x][k].om))
    /\ UNCHANGED <<startVars, lost, leaderVars, follower_observations>>

\* handleReport after its sleep: the request carries the map marshalled before.
handleReportEnds(x, k) ==
    /\ tasks[x][k].step = "sleep"
    /\ tasks' = [tasks EXCEPT ![x][k].step = "done"]
    /\ chan' = BroadcastMsg(chan, x, Message("ReportReq", leader[x], tasks[x][k].om))
    /\ UNCHANGED <<startVars, lost, observing, Phase, observations, observe_n, reports,
                   assembled, follower_observations>>

(***************************************************************************)
(* ProcessMessage: the server loop of y takes the next message of the      *)
(* stream from x and runs it to the end.                                   *)
(***************************************************************************)
Arrives(x, y) ==
    /\ chan[x][y] # <<>>
    /\ loop[y] = "running"
    /\ pc[y] # "crashed"

\* Not ready: ProcessMessage returns an error and keeps re.mu locked.
RejectNotReady(x, y) ==
    /\ Arrives(x, y)
    /\ mu[y] = "free"
    /\ pc[y] # "ready"
    /\ mu' = [mu EXCEPT ![y] = "leaked"]
    /\ chan' = Pop(chan, x, y)
    /\ UNCHANGED <<pc, loop, lost, leaderVars, follower_observations>>

\* The next message waits for re.mu for ever, and the server loop with it.
BlockOnMutex(x, y) ==
    /\ Arrives(x, y)
    /\ mu[y] = "leaked"
    /\ loop' = [loop EXCEPT ![y] = "blocked"]
    /\ chan' = Pop(chan, x, y)
    /\ UNCHANGED <<pc, mu, lost, leaderVars, follower_observations>>

\* Mutant: the leader of the message is not compared.
rpcMsgPrechecksNoLeader(m, y) == TRUE

\* Epoch and round always agree; the elected leaders need not.
rpcMsgPrechecks(m, y) == m.leader = leader[y]

\* Mutant: the prechecks are made, and left, under re.mu.
PrecheckFailsLocked(x, y) ==
    /\ Arrives(x, y)
    /\ mu[y] = "free"
    /\ pc[y] = "ready"
    /\ ~rpcMsgPrechecks(Head(chan[x][y]), y)
    /\ mu' = [mu EXCEPT ![y] = "leaked"]
    /\ chan' = Pop(chan, x, y)
    /\ UNCHANGED <<pc, loop, lost, leaderVars, follower_observations>>

PrecheckFails(x, y) ==
    /\ Arrives(x, y)
    /\ mu[y] = "free"
    /\ pc[y] = "ready"
    /\ ~rpcMsgPrechecks(Head(chan[x][y]), y)
    /\ chan' = Pop(chan, x, y)
    /\ UNCHANGED <<startVars, lost, leaderVars, follower_observations>>

Accepts(x, y, type) ==
    /\ Arrives(x, y)
    /\ mu[y] = "free"
    /\ pc[y] = "ready"
    /\ rpcMsgPrechecks(Head(chan[x][y]), y)
    /\ Head(chan[x][y]).type = type

\* With no jobs there is nothing to run: the follower answers at once.
ObserveReq(x, y) ==
    /\ Accepts(x, y, "ObserveReq")
    /\ chan' = SendMsg(Pop(chan, x, y), y, leader[y], Message("ObserveResp", leader[y], {}))
    /\ UNCHANGED <<startVars, lost, leaderVars, follower_observations>>

\* Mutant: 2f+1 responses are enough.
ObserveQuorumAtLeast(k) == k >= 2 * f + 1

ObserveQuorum(k) == k > 2 * f + 1

\* Every response past the quorum hands PhaseGrace to the orchestrator again.
ObserveResp(x, y) ==
    /\ Accepts(x, y, "ObserveResp")
    /\ chan' = Pop(chan, x, y)
    /\ observations' = [observations EXCEPT ![y] = @ \cup {x}]
    /\ observe_n' = [observe_n EXCEPT ![y] = @ + 1]
    /\ IF ObserveQuorum(observe_n[y] + 1)
       THEN /\ Phase' = [Phase EXCEPT ![y] = "Grace"]
            /\ tasks' = [tasks EXCEPT ![y] = Append(@, [step |-> "grace", om |-> {}])]
       ELSE UNCHANGED <<Phase, tasks>>
    /\ UNCHANGED <<startVars, lost, observing, reports, assembled, follower_observations>>

BroadcastObservationMap(x, y) ==
    /\ Accepts(x, y, "BroadcastObservationMap")
    /\ chan' = Pop(chan, x, y)
    /\ follower_observations' = [follower_observations EXCEPT ![y] = Head(chan[x][y]).om]
    /\ UNCHANGED <<startVars, lost, leaderVars>>

\* Mutant: the two maps are not compared.
SameMapUnchecked(m, y) == TRUE

\* CompareHashes: the requested map is the one broadcast before.
SameMap(m, y) == m.om = follower_observations[y]

ReportReq(x, y) ==
    /\ Accepts(x, y, "ReportReq")
    /\ SameMap(Head(chan[x][y]), y)
    /\ chan' = SendMsg(Pop(chan, x, y), y, leader[y], Message("ReportRes", leader[y], {}))
    /\ UNCHANGED <<startVars, lost, leaderVars, follower_observations>>

ReportReqMismatch(x, y) ==
    /\ Accepts(x, y, "ReportReq")
    /\ ~SameMap(Head(chan[x][y]), y)
    /\ chan' = Pop(chan, x, y)
    /\ UNCHANGED <<startVars, lost, leaderVars, follower_observations>>

\* Mutant: the verdict of assembleFinalReport is ignored.
ReportResFinal(x, y) ==
    /\ Accepts(x, y, "ReportRes")
    /\ chan' = Pop(chan, x, y)
    /\ reports' = [reports EXCEPT ![y] = Append(@, x)]
    /\ assembled' = [assembled EXCEPT ![y] = @ \/ Len(reports[y]) + 1 >= n]
    /\ Phase' = IF Len(reports[y]) + 1 >= n THEN [Phase EXCEPT ![y] = "Final"] ELSE Phase
    /\ UNCHANGED <<startVars, lost, observing, observations, observe_n, tasks,
                   follower_observations>>

\* assembleFinalReport finds no job to agree on, so PhaseFinal is not reached.
ReportRes(x, y) ==
    /\ Accepts(x, y, "ReportRes")
    /\ chan' = Pop(chan, x, y)
    /\ reports' = [reports EXCEPT ![y] = Append(@, x)]
    /\ assembled' = [assembled EXCEPT ![y] = @ \/ Len(reports[y]) + 1 >= n]
    /\ UNCHANGED <<startVars, lost, observing, Phase, observations, observe_n, tasks,
                   follower_observations>>

\* A write that fails, or bytes that readLoop cannot decode: nobody notices.
Lose(x, y) ==
    /\ chan[x][y] # <<>>
    /\ lost < MaxLost
    /\ lost' = lost + 1
    /\ chan' = Pop(chan, x, y)
    /\ UNCHANGED <<startVars, leaderVars, follower_observations>>

----------------------------------------------------------------------------
StartUp(x) ==
    initReporter(x) \/ StartLeader(x) \/ StartFollower(x) \/ SetReady(x)

HandlePhase(x) ==
    \/ handleObserve(x)
    \/ handleObserveEnds(x)
    \/ \E k \in DOMAIN tasks[x] :
           handleGrace(x, k) \/ broadcastObservationMap(x, k) \/ handleReportEnds(x, k)

ProcessMessage(x, y) ==
    \/ RejectNotReady(x, y)
    \/ BlockOnMutex(x, y)
    \/ PrecheckFails(x, y)
    \/ ObserveReq(x, y)
    \/ ObserveResp(x, y)
    \/ BroadcastObservationMap(x, y)
    \/ ReportReq(x, y)
    \/ ReportReqMismatch(x, y)
    \/ ReportRes(x, y)

Next ==
    \/ \E x \in Node : StartUp(x) \/ StartPanics(x) \/ HandlePhase(x)
    \/ \E x, y \in Node : ProcessMessage(x, y) \/ Lose(x, y)

\* Goroutines that can run are run, timers fire, and each node's server loop
\* gets to every stream: the readers of the streams feed one channel.
Fairness ==
    /\ \A x \in Node : WF_vars(StartUp(x)) /\ WF_vars(HandlePhase(x))
    /\ \A x, y \in Node : WF_vars(ProcessMessage(x, y))

Spec == Init /\ [][Next]_vars
FairSpec == Spec /\ Fairness

----------------------------------------------------------------------------
(***************************************************************************)
(* Properties                                                              *)
(***************************************************************************)

\* Every variable has its type; in particular the phases Final and Transmit
\* are never reached.
TypeOK ==
    /\ pc \in [Node -> {"created", "inited", "started", "ready", "crashed"}]
    /\ mu \in [Node -> {"free", "leaked"}]
    /\ loop \in [Node -> {"running", "blocked"}]
    /\ chan \in [Node -> [Node -> Seq(Msg)]]
    /\ lost \in 0..MaxLost
    /\ observing \in [Node -> {"idle", "send", "setPhase", "done"}]
    /\ Phase \in [Node -> PhaseValue]
    /\ observations \in [Node -> SUBSET Node]
    /\ observe_n \in [Node -> Nat]
    /\ tasks \in [Node -> Seq(Task)]
    /\ reports \in [Node -> Seq(Node \cup {NoId})]
    /\ assembled \in [Node -> BOOLEAN]
    /\ follower_observations \in [Node -> SUBSET Node]

Reporters(l) == {reports[l][i] : i \in DOMAIN reports[l]} \ {NoId}

\* The leader counts OBSERVE-RES messages (observe_n), not senders, yet the
\* grace period only begins, and an observation map is only broadcast, with
\* observations of more than 2f+1 distinct followers.
DistinctObservers ==
    \A l \in Node : tasks[l] # <<>> => Cardinality(observations[l]) > 2 * f + 1

\* A report the leader counts was made by a follower whose cached map names
\* more than 2f+1 peers, each of which really answered this leader: a map the
\* follower missed, or one of another leader, never gets reported on.
ReportedOverQuorum ==
    \A l \in Node : \A q \in Reporters(l) :
        /\ Cardinality(follower_observations[q]) > 2 * f + 1
        /\ follower_observations[q] \subseteq observations[l]

\* With rival leaders elected, a leader is only served by the nodes that
\* elected it, and a node that elected someone else never caches its map.
LeadersDoNotMix ==
    \A l \in Node :
        /\ observations[l] \cup Reporters(l) \subseteq Followers(l)
        /\ \A q \in Node : follower_observations[q] # {} =>
               follower_observations[q] \subseteq Followers(leader[q])

\* The mutex that ProcessMessage leaks is leaked before the node is ready or
\* never: a node that took part in a round keeps a free mutex and a running
\* server loop.
ContributorsServe ==
    \A l \in Node : \A q \in observations[l] \cup Reporters(l) :
        pc[q] = "ready" /\ mu[q] = "free" /\ loop[q] = "running"

\* Overlapping report phases make a follower report more than once, but never
\* more often than REPORT-REQ was broadcast, which is at most once for every
\* response past the quorum.
ReportsPerRequest ==
    \A l \in Node :
        /\ \A q \in Followers(l) :
               Cardinality({i \in DOMAIN reports[l] : reports[l][i] = q})
                 =< Cardinality({k \in DOMAIN tasks[l] : tasks[l][k].step = "done"})
        /\ Len(tasks[l]) + 2 * f + 1 =< observe_n[l] \/ tasks[l] = <<>>

\* The round gets through: a leader with enough followers has the report of
\* each of them, unless a message was lost, a mutex leaked or a leader died.
Disturbed == lost > 0 \/ \E x \in Node : mu[x] = "leaked" \/ pc[x] = "crashed"
RoundReports ==
    \A l \in Node :
        IsLeader(l) /\ Cardinality(Followers(l)) > 2 * f + 1 =>
            <>(Disturbed \/ Followers(l) \subseteq Reporters(l))

\* Nothing is under way between l and those who elected it: handleObserve and
\* every report phase are over, and no message is on its way.
AtRest(l) ==
    /\ observing[l] = "done"
    /\ \A k \in DOMAIN tasks[l] : tasks[l][k].step = "done"
    /\ \A q \in Followers(l) : chan[l][q] = <<>> /\ chan[q][l] = <<>>

\* A round ends complete: report phases overlap and each REPORT-REQ carries the
\* map of its own phase, but when an undisturbed round with enough followers has
\* come to rest, none of them has been left out by a map that differed.
RestsComplete ==
    \A l \in Node :
        IsLeader(l) /\ Cardinality(Followers(l)) > 2 * f + 1 /\ AtRest(l) /\ ~Disturbed =>
            Followers(l) \subseteq Reporters(l)

(***************************************************************************)
(* What a comment in the code says, and the code does not keep.            *)
(***************************************************************************)

\* ocr/ocr.go: "reporter does nothing unitl the OCR node enters an epoch".
\* Before initReporter the reporter's state is as it was created.
InertBeforeEpoch == \A x \in Node : pc[x] = "created" => mu[x] = "free"
=============================================================================
