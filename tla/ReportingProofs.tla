-------------------------- MODULE ReportingProofs --------------------------
(***************************************************************************)
(* Theorems about Reporting, for any set of nodes, any outcome of the      *)
(* elections, any n and f and any number of lost messages.                 *)
(***************************************************************************)
EXTENDS Reporting, FiniteSetTheorems, TLAPS

(***************************************************************************)
(* Streams: what Pop, SendMsg and BroadcastMsg do to one of them.          *)
(***************************************************************************)
Streams == [Node -> [Node -> Seq(Msg)]]

\* A stream keeps its type when its first message is taken.
LEMMA PopType ==
    ASSUME NEW c \in Streams, NEW x \in Node, NEW y \in Node, c[x][y] # <<>>
    PROVE  Pop(c, x, y) \in Streams
<1>1. Tail(c[x][y]) \in Seq(Msg)
  BY DEF Streams
<1> QED
  BY <1>1 DEF Pop, Streams

\* Streams keep their types when a message is sent to one node, or to nobody.
LEMMA SendMsgType ==
    ASSUME NEW c \in Streams, NEW x \in Node, NEW y, NEW m \in Msg
    PROVE  SendMsg(c, x, y, m) \in Streams
<1>1. CASE y \in Node \ {x}
  <2>1. Append(c[x][y], m) \in Seq(Msg)
    BY <1>1 DEF Streams
  <2> QED
    BY <1>1, <2>1 DEF SendMsg, Streams
<1>2. CASE y \notin Node \ {x}
  BY <1>2 DEF SendMsg
<1> QED
  BY <1>1, <1>2

\* Streams keep their types when a message is sent to all other nodes.
LEMMA BroadcastMsgType ==
    ASSUME NEW c \in Streams, NEW x \in Node, NEW m \in Msg
    PROVE  BroadcastMsg(c, x, m) \in Streams
<1>1. \A y \in Node : Append(c[x][y], m) \in Seq(Msg)
  BY DEF Streams
<1> QED
  BY <1>1 DEF BroadcastMsg, Streams

(***************************************************************************)
(* Type correctness                                                        *)
(***************************************************************************)
\* The builders make messages.
LEMMA MessageType ==
    ASSUME NEW type \in MsgType, NEW l \in Node \cup {NoId}, NEW om \in SUBSET Node
    PROVE  Message(type, l, om) \in Msg
BY DEF Message, Msg

\* The streams of a state are streams.
LEMMA ChanType == TypeOK => chan \in Streams
BY DEF TypeOK, Streams

\* The values a node is created with have their types.
LEMMA TypeInit == Init => TypeOK
BY GlobalsAssumption, BoundAssumption DEF Init, TypeOK, PhaseValue

\* Every handler and goroutine step keeps the types.
LEMMA TypeNext == TypeOK /\ [Next]_vars => TypeOK'
<1> SUFFICES ASSUME TypeOK, [Next]_vars
             PROVE  TypeOK'
  OBVIOUS
<1> USE LeaderAssumption
<1>0. chan \in Streams
  BY ChanType
<1>1. ASSUME NEW x \in Node, StartUp(x) \/ StartPanics(x)
      PROVE  TypeOK'
  <2>1. CASE initReporter(x)
    <3>1. <<NoId>> \in Seq(Node \cup {NoId})
      OBVIOUS
    <3> QED
      BY <2>1, <3>1 DEF TypeOK, initReporter, netVars, PhaseValue
  <2>2. CASE StartLeader(x)
    BY <2>2 DEF TypeOK, StartLeader, netVars
  <2>3. CASE StartFollower(x)
    BY <2>3 DEF TypeOK, StartFollower, netVars, leaderVars
  <2>4. CASE SetReady(x)
    BY <2>4 DEF TypeOK, SetReady, netVars, leaderVars
  <2>5. CASE StartPanics(x)
    BY <2>5 DEF TypeOK, StartPanics, netVars, leaderVars
  <2> QED
    BY <1>1, <2>1, <2>2, <2>3, <2>4, <2>5 DEF StartUp
<1>2. ASSUME NEW x \in Node, HandlePhase(x)
      PROVE  TypeOK'
  <2>1. CASE handleObserve(x)
    <3>1. Message("ObserveReq", leader[x], {}) \in Msg
      BY MessageType DEF MsgType
    <3>2. chan' \in Streams
      BY <1>0, <2>1, <3>1, BroadcastMsgType DEF handleObserve
    <3> QED
      BY <2>1, <3>2 DEF TypeOK, handleObserve, startVars, Streams
  <2>2. CASE handleObserveEnds(x)
    BY <2>2 DEF TypeOK, handleObserveEnds, startVars, netVars, PhaseValue
  <2>3. ASSUME NEW k \in DOMAIN tasks[x], handleGrace(x, k)
        PROVE  TypeOK'
    <3>1. tasks[x][k] \in Task /\ k \in 1..Len(tasks[x])
      BY DEF TypeOK
    <3>2. [tasks[x][k] EXCEPT !.step = "marshal"] \in Task
      BY <3>1 DEF Task, TaskStep
    <3>3. tasks' \in [Node -> Seq(Task)]
      BY <2>3, <3>1, <3>2 DEF TypeOK, handleGrace
    <3> QED
      BY <2>3, <3>3 DEF TypeOK, handleGrace, startVars, netVars, PhaseValue
  <2>4. ASSUME NEW k \in DOMAIN tasks[x], broadcastObservationMap(x, k)
        PROVE  TypeOK'
    <3>1. Message("BroadcastObservationMap", leader[x], observations[x]) \in Msg
      BY MessageType DEF MsgType, TypeOK
    <3>2. chan' \in Streams
      BY <1>0, <2>4, <3>1, BroadcastMsgType DEF broadcastObservationMap
    <3>3. [step |-> "sleep", om |-> observations[x]] \in Task
      BY DEF Task, TaskStep, TypeOK
    <3>4. tasks' \in [Node -> Seq(Task)]
      BY <2>4, <3>3 DEF TypeOK, broadcastObservationMap, Streams
    <3> QED
      BY <2>4, <3>2, <3>4 DEF TypeOK, broadcastObservationMap, startVars, Streams
  <2>5. ASSUME NEW k \in DOMAIN tasks[x], handleReportEnds(x, k)
        PROVE  TypeOK'
    <3>1. tasks[x][k] \in Task /\ k \in 1..Len(tasks[x])
      BY DEF TypeOK
    <3>2. Message("ReportReq", leader[x], tasks[x][k].om) \in Msg
      BY <3>1, MessageType DEF MsgType, Task
    <3>3. chan' \in Streams
      BY <1>0, <2>5, <3>2, BroadcastMsgType DEF handleReportEnds
    <3>4. [tasks[x][k] EXCEPT !.step = "done"] \in Task
      BY <3>1 DEF Task, TaskStep
    <3>5. tasks' \in [Node -> Seq(Task)]
      BY <2>5, <3>1, <3>4 DEF TypeOK, handleReportEnds
    <3> QED
      BY <2>5, <3>3, <3>5 DEF TypeOK, handleReportEnds, startVars, Streams
  <2> QED
    BY <1>2, <2>1, <2>2, <2>3, <2>4, <2>5 DEF HandlePhase
<1>3. ASSUME NEW x \in Node, NEW y \in Node, ProcessMessage(x, y) \/ Lose(x, y)
      PROVE  TypeOK'
  <2>1. chan[x][y] # <<>>
    BY <1>3 DEF ProcessMessage, RejectNotReady, BlockOnMutex, PrecheckFails, ObserveReq,
       ObserveResp, BroadcastObservationMap, ReportReq, ReportReqMismatch, ReportRes,
       Accepts, Arrives, Lose
  <2>2. Pop(chan, x, y) \in Streams
    BY <1>0, <2>1, PopType
  <2>3. Head(chan[x][y]) \in Msg
    BY <2>1 DEF TypeOK
  <2>4. ASSUME NEW t \in MsgType
        PROVE  SendMsg(Pop(chan, x, y), y, leader[y], Message(t, leader[y], {}))
                 \in Streams
    BY <2>2, SendMsgType, MessageType
  <2>5. CASE RejectNotReady(x, y)
    BY <2>2, <2>5 DEF TypeOK, RejectNotReady, leaderVars, Streams
  <2>6. CASE BlockOnMutex(x, y)
    BY <2>2, <2>6 DEF TypeOK, BlockOnMutex, leaderVars, Streams
  <2>7. CASE PrecheckFails(x, y)
    BY <2>2, <2>7 DEF TypeOK, PrecheckFails, startVars, leaderVars, Streams
  <2>8. CASE ObserveReq(x, y)
    BY <2>4, <2>8 DEF TypeOK, ObserveReq, MsgType, startVars, leaderVars, Streams
  <2>9. CASE ObserveResp(x, y)
    <3>1. [step |-> "grace", om |-> {}] \in Task
      BY DEF Task, TaskStep
    <3>2. Append(tasks[y], [step |-> "grace", om |-> {}]) \in Seq(Task)
      BY <3>1 DEF TypeOK
    <3>3. tasks' \in [Node -> Seq(Task)]
      BY <2>9, <3>2 DEF TypeOK, ObserveResp
    <3>4. Phase' \in [Node -> PhaseValue]
      BY <2>9 DEF TypeOK, ObserveResp, PhaseValue
    <3>5. observations' \in [Node -> SUBSET Node] /\ observe_n' \in [Node -> Nat]
      BY <2>9 DEF TypeOK, ObserveResp
    <3> QED
      BY <2>2, <2>9, <3>3, <3>4, <3>5 DEF TypeOK, ObserveResp, startVars, Streams
  <2>10. CASE BroadcastObservationMap(x, y)
    BY <2>2, <2>3, <2>10 DEF TypeOK, BroadcastObservationMap, Msg, startVars, leaderVars, Streams
  <2>11. CASE ReportReq(x, y)
    BY <2>4, <2>11 DEF TypeOK, ReportReq, MsgType, startVars, leaderVars, Streams
  <2>12. CASE ReportReqMismatch(x, y)
    BY <2>2, <2>12 DEF TypeOK, ReportReqMismatch, startVars, leaderVars, Streams
  <2>13. CASE ReportRes(x, y)
    <3>0. Append(reports[y], x) \in Seq(Node \cup {NoId})
      BY DEF TypeOK
    <3>1. reports' \in [Node -> Seq(Node \cup {NoId})]
      BY <2>13, <3>0 DEF TypeOK, ReportRes
    <3>2. assembled' \in [Node -> BOOLEAN]
      BY <2>13 DEF TypeOK, ReportRes
    <3> QED
      BY <2>2, <2>13, <3>1, <3>2 DEF TypeOK, ReportRes, startVars, Streams
  <2>14. CASE Lose(x, y)
    <3>1. lost' \in 0..MaxLost
      BY <2>14, BoundAssumption DEF TypeOK, Lose
    <3> QED
      BY <2>2, <2>14, <3>1 DEF TypeOK, Lose, startVars, leaderVars, Streams
  <2> QED
    BY <1>3, <2>5, <2>6, <2>7, <2>8, <2>9, <2>10, <2>11, <2>12, <2>13, <2>14
       DEF ProcessMessage
<1>4. CASE UNCHANGED vars
  BY <1>4 DEF TypeOK, vars
<1> QED
  BY <1>1, <1>2, <1>3, <1>4 DEF Next

\* No step of any node takes a variable out of its type.
THEOREM TypeCorrect == Spec => []TypeOK
BY TypeInit, TypeNext, PTL DEF Spec

----------------------------------------------------------------------------
(***************************************************************************)
(* What a stream carries.                                                  *)
(***************************************************************************)
Elems(s) == {s[i] : i \in 1..Len(s)}
Carries(s, t) == \E m \in Elems(s) : m.type = t
AtMostOne(s, t) == \A i, j \in 1..Len(s) : s[i].type = t /\ s[j].type = t => i = j

\* d is s without its first message, or s with m at its end.
Shortened(s, d) ==
    /\ Elems(d) \subseteq Elems(s)
    /\ \A t \in MsgType : AtMostOne(s, t) => AtMostOne(d, t)
    /\ \A t \in MsgType : AtMostOne(s, t) /\ Head(s).type = t => ~Carries(d, t)
Extended(s, d, m) ==
    /\ Elems(d) = Elems(s) \cup {m}
    /\ \A t \in MsgType : AtMostOne(s, t) /\ (m.type = t => ~Carries(s, t)) => AtMostOne(d, t)

\* A stream that gets m carries what it carried, and m.
LEMMA CarriesExtended ==
    ASSUME NEW s, NEW d, NEW m, Extended(s, d, m), NEW t
    PROVE  Carries(d, t) <=> (Carries(s, t) \/ m.type = t)
BY DEF Extended, Carries

\* A stream that is shortened carries nothing new.
LEMMA CarriesShortened ==
    ASSUME NEW s, NEW d, Shortened(s, d), NEW t, Carries(d, t)
    PROVE  Carries(s, t)
BY DEF Shortened, Carries

\* Taking the first message of a sequence shortens it.
LEMMA TailShortens ==
    ASSUME NEW S, NEW s \in Seq(S), s # <<>>
    PROVE  Shortened(s, Tail(s)) /\ Head(s) \in Elems(s)
<1>1. /\ Len(s) \in Nat \ {0}
      /\ Len(Tail(s)) = Len(s) - 1
      /\ \A i \in 1..Len(Tail(s)) : Tail(s)[i] = s[i + 1]
      /\ Head(s) = s[1]
  OBVIOUS
<1>2. \A i \in 1..Len(Tail(s)) : i + 1 \in 1..Len(s) /\ i + 1 # 1
  BY <1>1
<1>3. Elems(Tail(s)) \subseteq Elems(s)
  BY <1>1, <1>2 DEF Elems
<1>4. Head(s) \in Elems(s)
  BY <1>1 DEF Elems
<1>5. ASSUME NEW t, AtMostOne(s, t)
      PROVE  AtMostOne(Tail(s), t)
  BY <1>1, <1>2, <1>5 DEF AtMostOne
<1>6. ASSUME NEW t, AtMostOne(s, t), Head(s).type = t
      PROVE  ~Carries(Tail(s), t)
  <2>1. 1 \in 1..Len(s)
    BY <1>1
  <2> QED
    BY <1>1, <1>2, <1>6, <2>1 DEF AtMostOne, Carries, Elems
<1> QED
  BY <1>3, <1>4, <1>5, <1>6 DEF Shortened

\* Appending a message to a sequence extends it.
LEMMA AppendExtends ==
    ASSUME NEW S, NEW s \in Seq(S), NEW m \in S
    PROVE  Extended(s, Append(s, m), m)
<1>1. /\ Len(s) \in Nat
      /\ Len(Append(s, m)) = Len(s) + 1
      /\ \A i \in 1..Len(s) : Append(s, m)[i] = s[i]
      /\ Append(s, m)[Len(s) + 1] = m
  OBVIOUS
<1>2. 1..(Len(s) + 1) = 1..Len(s) \cup {Len(s) + 1}
  BY <1>1
<1>3. Elems(Append(s, m)) = Elems(s) \cup {m}
  BY <1>1, <1>2 DEF Elems
<1>4. ASSUME NEW t, AtMostOne(s, t), m.type = t => ~Carries(s, t)
      PROVE  AtMostOne(Append(s, m), t)
  <2>1. \A i \in 1..Len(s) : m.type = t => s[i].type # t
    BY <1>4 DEF Carries, Elems
  <2> QED
    BY <1>1, <1>2, <1>4, <2>1 DEF AtMostOne
<1> QED
  BY <1>3, <1>4 DEF Extended

\* Taking the next message off the stream from x to y.
LEMMA PopStream ==
    ASSUME NEW c \in Streams, NEW x \in Node, NEW y \in Node, c[x][y] # <<>>,
           NEW d, d = Pop(c, x, y)
    PROVE  /\ Head(c[x][y]) \in Elems(c[x][y])
           /\ Shortened(c[x][y], d[x][y])
           /\ \A a, b \in Node : ~(a = x /\ b = y) => d[a][b] = c[a][b]
<1>1. c[x][y] \in Seq(Msg)
  BY DEF Streams
<1>2. d[x][y] = Tail(c[x][y])
  BY DEF Pop, Streams
<1>3. \A a, b \in Node : ~(a = x /\ b = y) => d[a][b] = c[a][b]
  BY DEF Pop, Streams
<1> QED
  BY <1>1, <1>2, <1>3, TailShortens

\* Sending m to one peer.
LEMMA SendStream ==
    ASSUME NEW c \in Streams, NEW x \in Node, NEW y \in Node \ {x}, NEW m \in Msg,
           NEW d, d = SendMsg(c, x, y, m)
    PROVE  /\ Extended(c[x][y], d[x][y], m)
           /\ \A a, b \in Node : ~(a = x /\ b = y) => d[a][b] = c[a][b]
<1>1. c[x][y] \in Seq(Msg)
  BY DEF Streams
<1>2. d[x][y] = Append(c[x][y], m)
  BY DEF SendMsg, Streams
<1>3. \A a, b \in Node : ~(a = x /\ b = y) => d[a][b] = c[a][b]
  BY DEF SendMsg, Streams
<1> QED
  BY <1>1, <1>2, <1>3, AppendExtends

\* Sending m to every other node.
LEMMA BroadcastStream ==
    ASSUME NEW c \in Streams, NEW x \in Node, NEW m \in Msg,
           NEW d, d = BroadcastMsg(c, x, m)
    PROVE  /\ \A b \in Node \ {x} : Extended(c[x][b], d[x][b], m)
           /\ \A a, b \in Node : a # x \/ b = x => d[a][b] = c[a][b]
<1>1. \A a, b \in Node : c[a][b] \in Seq(Msg)
  BY DEF Streams
<1>2. \A b \in Node \ {x} : d[x][b] = Append(c[x][b], m)
  BY DEF BroadcastMsg, Streams
<1>3. \A a, b \in Node : a # x \/ b = x => d[a][b] = c[a][b]
  BY DEF BroadcastMsg, Streams
<1> QED
  BY <1>1, <1>2, <1>3, AppendExtends

----------------------------------------------------------------------------
(***************************************************************************)
(* The inductive invariant.                                                *)
(***************************************************************************)

\* A map a leader may send out: observations of a quorum of its followers.
QuorumMap(om, l) == Cardinality(om) > 2 * f + 1 /\ om \subseteq observations[l]

\* A leader's requests name it, and its maps are quorum maps; answers go to
\* the leader of a ready node, and a report follows a map.
MessagesInv ==
    \A x, y \in Node : \A m \in Elems(chan[x][y]) :
        /\ x # y
        /\ m.type \in {"ObserveReq", "BroadcastObservationMap", "ReportReq"} =>
               m.leader = x /\ IsLeader(x)
        /\ m.type \in {"BroadcastObservationMap", "ReportReq"} => QuorumMap(m.om, x)
        /\ m.type \in {"ObserveResp", "ReportRes"} =>
               m.leader = y /\ leader[x] = y /\ pc[x] = "ready"
        /\ m.type = "ReportRes" => follower_observations[x] # {}

\* Between a leader x and a follower y there is one token: the request not
\* yet sent, the request, the response, or the stored observation.
OneAnswerInv ==
    \A x, y \in Node :
        /\ AtMostOne(chan[x][y], "ObserveReq")
        /\ AtMostOne(chan[y][x], "ObserveResp")
        /\ Carries(chan[x][y], "ObserveReq") =>
               ~Carries(chan[y][x], "ObserveResp") /\ y \notin observations[x]
        /\ Carries(chan[y][x], "ObserveResp") => y \notin observations[x]
        /\ observing[x] \in {"idle", "send"} =>
               /\ ~Carries(chan[x][y], "ObserveReq")
               /\ ~Carries(chan[y][x], "ObserveResp")
               /\ y \notin observations[x]

\* Hence counting responses is counting observers.
CountInv ==
    \A x \in Node :
        /\ observe_n[x] = Cardinality(observations[x])
        /\ tasks[x] # <<>> => observe_n[x] > 2 * f + 1

\* Only a leader collects, and only from those who elected it.
RoleInv ==
    \A x \in Node :
        /\ pc[x] \in {"created", "inited"} => observing[x] = "idle"
        /\ observing[x] # "idle" \/ tasks[x] # <<>> => IsLeader(x)
        /\ observations[x] \subseteq Followers(x)
        /\ Reporters(x) \subseteq Followers(x)

\* The map a task sleeps on, or has sent, is a quorum map.
TaskInv ==
    \A x \in Node : \A k \in 1..Len(tasks[x]) :
        tasks[x][k].step \in {"sleep", "done"} => QuorumMap(tasks[x][k].om, x)

\* What a follower has cached is a quorum map of its leader.
CacheInv ==
    \A q \in Node : follower_observations[q] # {} =>
        leader[q] \in Node /\ QuorumMap(follower_observations[q], leader[q])

\* A ready node has a free mutex, and only ready nodes contribute.
ReadyInv ==
    /\ \A q \in Node : pc[q] = "ready" => mu[q] = "free"
    /\ \A q \in Node : loop[q] = "blocked" => mu[q] = "leaked"
    /\ \A l \in Node : \A q \in observations[l] \cup Reporters(l) : pc[q] = "ready"
    /\ \A l \in Node : \A q \in Reporters(l) : follower_observations[q] # {}

IndInv ==
    TypeOK /\ MessagesInv /\ OneAnswerInv /\ CountInv /\ RoleInv /\ TaskInv
    /\ CacheInv /\ ReadyInv

\* Engines start with empty streams, maps and tasks.
LEMMA IndInit == Init => IndInv
<1> SUFFICES ASSUME Init PROVE IndInv
  OBVIOUS
<1>1. TypeOK
  BY TypeInit
<1>2. \A x, y \in Node : chan[x][y] = <<>> /\ Elems(chan[x][y]) = {}
  BY DEF Init, Elems
<1>3. MessagesInv
  BY <1>2 DEF MessagesInv
<1>4. OneAnswerInv
  BY <1>2 DEF OneAnswerInv, AtMostOne, Carries, Init
<1>5. CountInv
  BY FS_EmptySet DEF CountInv, Init
<1>6. \A x \in Node : Reporters(x) = {}
  BY DEF Reporters, Init
<1>7. RoleInv /\ TaskInv /\ CacheInv /\ ReadyInv
  BY <1>6 DEF RoleInv, TaskInv, CacheInv, ReadyInv, Init
<1> QED
  BY <1>1, <1>3, <1>4, <1>5, <1>7 DEF IndInv

\* Start-up only moves pc forward, and with it observing and reports.
LEMMA IndStartUp ==
    ASSUME IndInv, TypeOK', NEW x \in Node, StartUp(x) \/ StartPanics(x)
    PROVE  IndInv'
<1> USE DEF IndInv
<1>1. UNCHANGED <<chan, mu, loop, observations, observe_n, tasks, follower_observations>>
  BY DEF StartUp, StartPanics, initReporter, StartLeader, StartFollower, SetReady,
     netVars, leaderVars
<1>2. /\ \A q \in Node : pc[q] = "ready" => pc'[q] = "ready"
      /\ \A q \in Node : pc'[q] = "ready" => pc[q] = "ready" \/ mu[q] = "free"
  <2>1. CASE initReporter(x)
    BY <2>1 DEF initReporter, TypeOK
  <2>2. CASE StartLeader(x)
    BY <2>2 DEF StartLeader, TypeOK
  <2>3. CASE StartFollower(x)
    BY <2>3 DEF StartFollower, TypeOK
  <2>4. CASE SetReady(x)
    BY <2>4 DEF SetReady, TypeOK
  <2>5. CASE StartPanics(x)
    BY <2>5 DEF StartPanics, TypeOK
  <2> QED
    BY <2>1, <2>2, <2>3, <2>4, <2>5 DEF StartUp
<1>3. \A q \in Node :
        /\ observing'[q] = observing[q]
             \/ (observing[q] = "idle" /\ observing'[q] = "send" /\ IsLeader(q))
        /\ pc'[q] \in {"created", "inited"} => observing'[q] = "idle"
  <2>0. /\ pc \in [Node -> {"created", "inited", "started", "ready", "crashed"}]
        /\ observing \in [Node -> {"idle", "send", "setPhase", "done"}]
        /\ \A q \in Node : pc[q] \in {"created", "inited"} => observing[q] = "idle"
    BY DEF TypeOK, RoleInv
  <2>1. CASE initReporter(x)
    BY <2>0, <2>1 DEF initReporter, leaderVars
  <2>2. CASE StartLeader(x)
    BY <2>0, <2>2 DEF StartLeader, leaderVars
  <2>3. CASE StartFollower(x)
    BY <2>0, <2>3 DEF StartFollower, leaderVars
  <2>4. CASE SetReady(x)
    BY <2>0, <2>4 DEF SetReady, leaderVars
  <2>5. CASE StartPanics(x)
    BY <2>0, <2>5 DEF StartPanics, leaderVars
  <2> QED
    BY <2>1, <2>2, <2>3, <2>4, <2>5 DEF StartUp
<1>4. \A q \in Node : Reporters(q)' \subseteq Reporters(q)
  <2>1. CASE initReporter(x)
    <3>1. /\ reports'[x] = <<NoId>>
          /\ \A q \in Node \ {x} : reports'[q] = reports[q]
      BY <2>1 DEF initReporter, TypeOK
    <3> QED
      BY <3>1 DEF Reporters
  <2>2. CASE ~initReporter(x)
    <3>1. reports' = reports
      BY <2>2 DEF StartUp, StartPanics, StartLeader, StartFollower, SetReady, leaderVars
    <3> QED
      BY <3>1 DEF Reporters
  <2> QED
    BY <2>1, <2>2
<1>5. MessagesInv'
  BY <1>1, <1>2 DEF MessagesInv, QuorumMap, IsLeader
<1>6. OneAnswerInv'
  BY <1>1, <1>3 DEF OneAnswerInv
<1>7. CountInv'
  BY <1>1 DEF CountInv
<1>8. RoleInv'
  BY <1>1, <1>3, <1>4 DEF RoleInv, IsLeader, Followers
<1>9. TaskInv'
  BY <1>1 DEF TaskInv, QuorumMap
<1>10. CacheInv'
  BY <1>1 DEF CacheInv, QuorumMap
<1>11. ReadyInv'
  <2>1. \A l \in Node : Reporters(l) \subseteq Node /\ observations[l] \subseteq Node
    BY DEF RoleInv, Followers
  <2> QED
    BY <1>1, <1>2, <1>4, <2>1 DEF ReadyInv
<1> QED
  BY <1>5, <1>6, <1>7, <1>8, <1>9, <1>10, <1>11

\* A leader's goroutine writes to its own state and broadcasts at most one
\* request in the leader's name.
LEMMA IndHandleObserve ==
    ASSUME IndInv, TypeOK', NEW x \in Node, handleObserve(x) \/ handleObserveEnds(x)
    PROVE  IndInv'
<1> USE DEF IndInv
<1>1. UNCHANGED <<pc, mu, loop, observations, observe_n, tasks, reports,
                  follower_observations>>
  BY DEF handleObserve, handleObserveEnds, startVars
<1>2. /\ observing[x] # "idle" /\ observing'[x] \in {"setPhase", "done"}
      /\ \A q \in Node \ {x} : observing'[q] = observing[q]
  BY DEF handleObserve, handleObserveEnds, TypeOK
<1>3. IsLeader(x) /\ pc[x] \notin {"created", "inited"}
  BY <1>2 DEF RoleInv
<1>4. MessagesInv' /\ OneAnswerInv'
  <2>1. CASE handleObserve(x)
    <3> DEFINE m == Message("ObserveReq", leader[x], {})
    <3>1. m \in Msg
      BY LeaderAssumption, MessageType DEF MsgType
    <3>2. m.type = "ObserveReq" /\ m.leader = x
      BY <1>3 DEF Message, IsLeader
    <3>3. chan' = BroadcastMsg(chan, x, m) /\ observing[x] = "send"
      BY <2>1 DEF handleObserve
    <3> HIDE DEF m
    <3>4. /\ \A b \in Node \ {x} : Extended(chan[x][b], chan'[x][b], m)
          /\ \A a, b \in Node : a # x \/ b = x => chan'[a][b] = chan[a][b]
      BY <3>1, <3>3, ChanType, BroadcastStream
    <3>5. MessagesInv'
      <4>1. \A a, b \in Node : \A u \in Elems(chan'[a][b]) :
               u \in Elems(chan[a][b]) \/ (a = x /\ b # x /\ u = m)
        BY <3>4 DEF Extended
      <4> QED
        BY <1>1, <1>3, <3>2, <4>1 DEF MessagesInv, QuorumMap, IsLeader
    <3>6. \A a, b \in Node :
             /\ Carries(chan'[a][b], "ObserveResp") => Carries(chan[a][b], "ObserveResp")
             /\ Carries(chan'[a][b], "ObserveReq") => a = x \/ Carries(chan[a][b], "ObserveReq")
      BY <3>2, <3>4, CarriesExtended
    <3>7. \A b \in Node :
             /\ ~Carries(chan[x][b], "ObserveReq")
             /\ ~Carries(chan[b][x], "ObserveResp")
             /\ b \notin observations[x]
      BY <3>3 DEF OneAnswerInv
    <3>8. OneAnswerInv'
      <4> SUFFICES ASSUME NEW a \in Node, NEW b \in Node
                   PROVE
              /\ AtMostOne(chan'[a][b], "ObserveReq")
              /\ AtMostOne(chan'[b][a], "ObserveResp")
              /\ Carries(chan'[a][b], "ObserveReq") =>
                     ~Carries(chan'[b][a], "ObserveResp") /\ b \notin observations[a]
              /\ Carries(chan'[b][a], "ObserveResp") => b \notin observations[a]
              /\ observing'[a] \in {"idle", "send"} =>
                     /\ ~Carries(chan'[a][b], "ObserveReq")
                     /\ ~Carries(chan'[b][a], "ObserveResp")
                     /\ b \notin observations[a]
        BY <1>1 DEF OneAnswerInv
      <4>1. AtMostOne(chan'[a][b], "ObserveReq") /\ AtMostOne(chan'[b][a], "ObserveResp")
        BY <3>2, <3>4, <3>7 DEF OneAnswerInv, Extended, MsgType
      <4>2. CASE a = x
        BY <1>2, <3>6, <3>7, <4>1, <4>2
      <4>3. CASE a # x
        BY <1>2, <3>6, <4>1, <4>3 DEF OneAnswerInv
      <4> QED
        BY <4>2, <4>3
    <3> QED
      BY <3>5, <3>8
  <2>2. CASE handleObserveEnds(x)
    <3>1. chan' = chan /\ observing[x] = "setPhase"
      BY <2>2 DEF handleObserveEnds, netVars
    <3>2. MessagesInv'
      BY <1>1, <3>1 DEF MessagesInv, QuorumMap, IsLeader
    <3>3. OneAnswerInv'
      BY <1>1, <1>2, <3>1 DEF OneAnswerInv
    <3> QED
      BY <3>2, <3>3
  <2> QED
    BY <2>1, <2>2
<1>5. CountInv' /\ TaskInv' /\ CacheInv'
  BY <1>1 DEF CountInv, TaskInv, CacheInv, QuorumMap
<1>6. RoleInv'
  BY <1>1, <1>2, <1>3 DEF RoleInv, IsLeader, Followers, Reporters
<1>7. ReadyInv'
  BY <1>1 DEF ReadyInv, Reporters
<1> QED
  BY <1>4, <1>5, <1>6, <1>7

\* A task moves on: its grace period ends, it sends the map, or the request.
LEMMA IndHandleTask ==
    ASSUME IndInv, TypeOK', NEW x \in Node, NEW k \in 1..Len(tasks[x]),
           handleGrace(x, k) \/ broadcastObservationMap(x, k) \/ handleReportEnds(x, k)
    PROVE  IndInv'
<1> USE DEF IndInv
<1>1. UNCHANGED <<pc, mu, loop, observing, observations, observe_n, reports,
                  follower_observations>>
  BY DEF handleGrace, broadcastObservationMap, handleReportEnds, startVars
<1>2. tasks[x] \in Seq(Task) /\ tasks[x][k] \in Task /\ tasks[x] # <<>>
  BY DEF TypeOK
<1>3. IsLeader(x) /\ Cardinality(observations[x]) > 2 * f + 1
  BY <1>2 DEF RoleInv, CountInv
<1>4. PICK t \in Task :
        /\ tasks' = [tasks EXCEPT ![x][k] = t]
        /\ t.step \in {"sleep", "done"} => QuorumMap(t.om, x)
  <2>1. CASE handleGrace(x, k)
    <3> DEFINE t == [tasks[x][k] EXCEPT !.step = "marshal"]
    <3>1. t \in Task /\ t.step = "marshal"
      BY <1>2 DEF Task, TaskStep
    <3>2. tasks' = [tasks EXCEPT ![x][k] = t]
      BY <2>1 DEF handleGrace
    <3> QED
      BY <3>1, <3>2
  <2>2. CASE broadcastObservationMap(x, k)
    <3> DEFINE t == [step |-> "sleep", om |-> observations[x]]
    <3>1. t \in Task /\ QuorumMap(t.om, x)
      BY <1>3 DEF Task, TaskStep, TypeOK, QuorumMap
    <3>2. tasks' = [tasks EXCEPT ![x][k] = t]
      BY <2>2 DEF broadcastObservationMap
    <3> QED
      BY <3>1, <3>2
  <2>3. CASE handleReportEnds(x, k)
    <3> DEFINE t == [tasks[x][k] EXCEPT !.step = "done"]
    <3>1. t \in Task /\ t.om = tasks[x][k].om
      BY <1>2 DEF Task, TaskStep
    <3>2. tasks' = [tasks EXCEPT ![x][k] = t] /\ tasks[x][k].step = "sleep"
      BY <2>3 DEF handleReportEnds
    <3>3. QuorumMap(t.om, x)
      BY <3>1, <3>2 DEF TaskInv
    <3> QED
      BY <3>1, <3>2, <3>3
  <2> QED
    BY <2>1, <2>2, <2>3
<1>5. /\ \A q \in Node : Len(tasks'[q]) = Len(tasks[q])
      /\ \A q \in Node : tasks'[q] = <<>> <=> tasks[q] = <<>>
      /\ tasks'[x][k] = t
      /\ \A q \in Node : \A j \in 1..Len(tasks[q]) :
             ~(q = x /\ j = k) => tasks'[q][j] = tasks[q][j]
  <2>1. tasks \in [Node -> Seq(Task)]
    BY DEF TypeOK
  <2>2. /\ tasks'[x] = [tasks[x] EXCEPT ![k] = t]
        /\ \A q \in Node \ {x} : tasks'[q] = tasks[q]
    BY <1>4, <2>1
  <2>3. Len(tasks'[x]) = Len(tasks[x]) /\ tasks'[x] \in Seq(Task)
    BY <2>1, <2>2
  <2>4. tasks'[x] # <<>>
    BY <2>1, <2>3
  <2> QED
    BY <1>2, <2>1, <2>2, <2>3, <2>4
<1>6. MessagesInv' /\ OneAnswerInv'
  <2>1. CASE handleGrace(x, k)
    <3>1. chan' = chan
      BY <2>1 DEF handleGrace, netVars
    <3> QED
      BY <1>1, <3>1 DEF MessagesInv, OneAnswerInv, QuorumMap, IsLeader
  <2>2. CASE ~handleGrace(x, k)
    <3>1. PICK m \in Msg :
            /\ chan' = BroadcastMsg(chan, x, m)
            /\ m.type \in {"BroadcastObservationMap", "ReportReq"}
            /\ m.leader = x
            /\ QuorumMap(m.om, x)
      <4>1. CASE broadcastObservationMap(x, k)
        <5> DEFINE m == Message("BroadcastObservationMap", leader[x], observations[x])
        <5>1. m \in Msg
          BY LeaderAssumption, MessageType DEF MsgType, TypeOK
        <5>2. /\ m.type = "BroadcastObservationMap" /\ m.leader = x
              /\ QuorumMap(m.om, x)
          BY <1>3 DEF Message, IsLeader, QuorumMap
        <5> QED
          BY <4>1, <5>1, <5>2 DEF broadcastObservationMap
      <4>2. CASE handleReportEnds(x, k)
        <5> DEFINE m == Message("ReportReq", leader[x], tasks[x][k].om)
        <5>1. m \in Msg
          BY <1>2, LeaderAssumption, MessageType DEF MsgType, Task
        <5>2. m.type = "ReportReq" /\ m.leader = x /\ m.om = tasks[x][k].om
          BY <1>3 DEF Message, IsLeader
        <5>3. QuorumMap(m.om, x)
          BY <4>2, <5>2 DEF TaskInv, handleReportEnds
        <5> QED
          BY <4>2, <5>1, <5>2, <5>3 DEF handleReportEnds
      <4> QED
        BY <2>2, <4>1, <4>2
    <3>2. /\ \A b \in Node \ {x} : Extended(chan[x][b], chan'[x][b], m)
          /\ \A a, b \in Node : a # x \/ b = x => chan'[a][b] = chan[a][b]
      BY <3>1, ChanType, BroadcastStream
    <3>3. MessagesInv'
      <4>1. \A a, b \in Node : \A u \in Elems(chan'[a][b]) :
               u \in Elems(chan[a][b]) \/ (a = x /\ b # x /\ u = m)
        BY <3>2 DEF Extended
      <4> QED
        BY <1>1, <1>3, <3>1, <4>1 DEF MessagesInv, QuorumMap, IsLeader
    <3>4. \A a, b \in Node :
             /\ Carries(chan'[a][b], "ObserveResp") => Carries(chan[a][b], "ObserveResp")
             /\ Carries(chan'[a][b], "ObserveReq") => Carries(chan[a][b], "ObserveReq")
      BY <3>1, <3>2, CarriesExtended
    <3>5. \A a, b \in Node : \A u \in {"ObserveReq", "ObserveResp"} :
             AtMostOne(chan[a][b], u) => AtMostOne(chan'[a][b], u)
      BY <3>1, <3>2 DEF Extended, MsgType
    <3>6. OneAnswerInv'
      BY <1>1, <3>4, <3>5 DEF OneAnswerInv
    <3> QED
      BY <3>3, <3>6
  <2> QED
    BY <2>1, <2>2
<1>7. CountInv' /\ CacheInv'
  BY <1>1, <1>5 DEF CountInv, CacheInv, QuorumMap
<1>8. RoleInv'
  BY <1>1, <1>5 DEF RoleInv, IsLeader, Followers, Reporters
<1>9. TaskInv'
  BY <1>1, <1>4, <1>5 DEF TaskInv, QuorumMap
<1>10. ReadyInv'
  BY <1>1 DEF ReadyInv, Reporters
<1> QED
  BY <1>6, <1>7, <1>8, <1>9, <1>10

----------------------------------------------------------------------------
(***************************************************************************)
(* Messages taken off a stream.                                            *)
(***************************************************************************)

\* What the server loop knows of the message it has accepted.
LEMMA AcceptedMessage ==
    ASSUME IndInv, NEW x \in Node, NEW y \in Node, NEW t \in MsgType, Accepts(x, y, t)
    PROVE  /\ chan[x][y] # <<>> /\ pc[y] = "ready" /\ x # y
           /\ Carries(chan[x][y], t)
           /\ Head(chan[x][y]) \in Elems(chan[x][y])
           /\ Head(chan[x][y]).type = t /\ Head(chan[x][y]).leader = leader[y]
<1>1. chan[x][y] # <<>> /\ pc[y] = "ready"
  BY DEF Accepts, Arrives
<1>2. chan \in Streams
  BY ChanType DEF IndInv
<1>3. Head(chan[x][y]) \in Elems(chan[x][y])
  BY <1>1, <1>2, PopStream
<1>4. Head(chan[x][y]).type = t /\ Head(chan[x][y]).leader = leader[y]
  BY DEF Accepts, rpcMsgPrechecks
<1>5. x # y
  BY <1>3 DEF IndInv, MessagesInv
<1> QED
  BY <1>1, <1>3, <1>4, <1>5 DEF Carries

\* A quorum map is not empty, and stays one while observations are added.
LEMMA QuorumMapNonempty ==
    ASSUME NEW l, NEW om, QuorumMap(om, l)
    PROVE  om # {}
BY FS_EmptySet, GlobalsAssumption DEF QuorumMap

\* A message is dropped: by the network, by the missing readiness, the leaked
\* mutex or the prechecks, or because the maps differ.
LEMMA IndDropped ==
    ASSUME IndInv, TypeOK', NEW x \in Node, NEW y \in Node,
           \/ RejectNotReady(x, y) \/ BlockOnMutex(x, y) \/ PrecheckFails(x, y)
           \/ ReportReqMismatch(x, y) \/ Lose(x, y)
    PROVE  IndInv'
<1> USE DEF IndInv
<1>1. /\ UNCHANGED <<pc, observing, observations, observe_n, tasks, reports,
                     follower_observations>>
      /\ chan' = Pop(chan, x, y) /\ chan[x][y] # <<>>
  BY DEF RejectNotReady, BlockOnMutex, PrecheckFails, ReportReqMismatch, Lose, Accepts,
     Arrives, startVars, leaderVars
<1>2. /\ Shortened(chan[x][y], chan'[x][y])
      /\ \A a, b \in Node : ~(a = x /\ b = y) => chan'[a][b] = chan[a][b]
  BY <1>1, ChanType, PopStream
<1>3. MessagesInv'
  <2>1. \A a, b \in Node : Elems(chan'[a][b]) \subseteq Elems(chan[a][b])
    BY <1>2 DEF Shortened
  <2> QED
    BY <1>1, <2>1 DEF MessagesInv, QuorumMap, IsLeader
<1>4. OneAnswerInv'
  <2>1. \A a, b \in Node : \A t \in MsgType :
           /\ Carries(chan'[a][b], t) => Carries(chan[a][b], t)
           /\ AtMostOne(chan[a][b], t) => AtMostOne(chan'[a][b], t)
    BY <1>2, CarriesShortened DEF Shortened
  <2> QED
    BY <1>1, <2>1 DEF OneAnswerInv, MsgType
<1>5. CountInv' /\ TaskInv' /\ CacheInv'
  BY <1>1 DEF CountInv, TaskInv, CacheInv, QuorumMap
<1>6. RoleInv'
  BY <1>1 DEF RoleInv, IsLeader, Followers, Reporters
<1>7. ReadyInv'
  <2>1. \A q \in Node :
           /\ pc[q] = "ready" => mu'[q] = mu[q]
           /\ loop'[q] = "blocked" => mu'[q] = "leaked"
    <3>1. CASE RejectNotReady(x, y)
      <4>1. mu \in [Node -> {"free", "leaked"}]
        BY DEF TypeOK
      <4>2. \A q \in Node : loop[q] = "blocked" => mu[q] = "leaked"
        BY DEF ReadyInv
      <4> QED
        BY <3>1, <4>1, <4>2 DEF RejectNotReady
    <3>2. CASE BlockOnMutex(x, y)
      <4>1. loop \in [Node -> {"running", "blocked"}]
        BY DEF TypeOK
      <4>2. \A q \in Node : loop[q] = "blocked" => mu[q] = "leaked"
        BY DEF ReadyInv
      <4> QED
        BY <3>2, <4>1, <4>2 DEF BlockOnMutex
    <3>3. CASE PrecheckFails(x, y) \/ ReportReqMismatch(x, y) \/ Lose(x, y)
      BY <3>3 DEF PrecheckFails, ReportReqMismatch, Lose, startVars, ReadyInv
    <3> QED
      BY <3>1, <3>2, <3>3
  <2>2. \A l \in Node : Reporters(l)' = Reporters(l)
    BY <1>1 DEF Reporters
  <2>3. UNCHANGED <<pc, observations, follower_observations>>
    BY <1>1
  <2>4. \A q \in Node : pc'[q] = "ready" => mu'[q] = "free"
    BY <2>1, <2>3 DEF ReadyInv
  <2> QED
    BY <2>1, <2>2, <2>3, <2>4 DEF ReadyInv
<1> QED
  BY <1>3, <1>4, <1>5, <1>6, <1>7

\* The follower caches the map of its own leader, which is a quorum map.
LEMMA IndCacheMap ==
    ASSUME IndInv, TypeOK', NEW x \in Node, NEW y \in Node, BroadcastObservationMap(x, y)
    PROVE  IndInv'
<1> USE DEF IndInv
<1> DEFINE m == Head(chan[x][y])
<1>1. /\ UNCHANGED <<pc, mu, loop, observing, observations, observe_n, tasks, reports>>
      /\ chan' = Pop(chan, x, y)
      /\ follower_observations' = [follower_observations EXCEPT ![y] = m.om]
      /\ Accepts(x, y, "BroadcastObservationMap")
  BY DEF BroadcastObservationMap, startVars, leaderVars
<1>2. /\ chan[x][y] # <<>> /\ m \in Elems(chan[x][y])
      /\ m.type = "BroadcastObservationMap" /\ m.leader = leader[y]
  BY <1>1, AcceptedMessage DEF MsgType
<1> HIDE DEF m
<1>3. QuorumMap(m.om, x) /\ leader[y] = x
  BY <1>2 DEF MessagesInv
<1>4. m.om # {}
  BY <1>3, QuorumMapNonempty
<1>5. /\ follower_observations'[y] = m.om
      /\ \A q \in Node \ {y} : follower_observations'[q] = follower_observations[q]
  BY <1>1 DEF TypeOK
<1>6. /\ Shortened(chan[x][y], chan'[x][y])
      /\ \A a, b \in Node : ~(a = x /\ b = y) => chan'[a][b] = chan[a][b]
  BY <1>1, <1>2, ChanType, PopStream
<1>7. MessagesInv'
  <2>1. \A a, b \in Node : Elems(chan'[a][b]) \subseteq Elems(chan[a][b])
    BY <1>6 DEF Shortened
  <2> QED
    BY <1>1, <1>4, <1>5, <2>1 DEF MessagesInv, QuorumMap, IsLeader
<1>8. OneAnswerInv'
  <2>1. \A a, b \in Node : \A t \in MsgType :
           /\ Carries(chan'[a][b], t) => Carries(chan[a][b], t)
           /\ AtMostOne(chan[a][b], t) => AtMostOne(chan'[a][b], t)
    BY <1>6, CarriesShortened DEF Shortened
  <2> QED
    BY <1>1, <2>1 DEF OneAnswerInv, MsgType
<1>9. CountInv' /\ TaskInv'
  BY <1>1 DEF CountInv, TaskInv, QuorumMap
<1>10. CacheInv'
  BY <1>1, <1>3, <1>5 DEF CacheInv, QuorumMap
<1>11. RoleInv'
  BY <1>1 DEF RoleInv, IsLeader, Followers, Reporters
<1>12. ReadyInv'
  <2>1. \A l \in Node : Reporters(l) \subseteq Node
    BY DEF RoleInv, Followers
  <2> QED
    BY <1>1, <1>4, <1>5, <2>1 DEF ReadyInv, Reporters
<1> QED
  BY <1>7, <1>8, <1>9, <1>10, <1>11, <1>12

\* The request becomes the one response of y to its leader x.
LEMMA IndObserveReq ==
    ASSUME IndInv, TypeOK', NEW x \in Node, NEW y \in Node, ObserveReq(x, y)
    PROVE  IndInv'
<1> USE DEF IndInv
<1> DEFINE m == Message("ObserveResp", leader[y], {})
           c == Pop(chan, x, y)
<1>1. /\ UNCHANGED <<pc, mu, loop, observing, observations, observe_n, tasks, reports,
                     follower_observations>>
      /\ chan' = SendMsg(c, y, leader[y], m)
      /\ Accepts(x, y, "ObserveReq")
  BY DEF ObserveReq, startVars, leaderVars
<1>2. /\ chan[x][y] # <<>> /\ pc[y] = "ready" /\ x # y
      /\ Carries(chan[x][y], "ObserveReq")
      /\ Head(chan[x][y]) \in Elems(chan[x][y])
      /\ Head(chan[x][y]).type = "ObserveReq" /\ Head(chan[x][y]).leader = leader[y]
  BY <1>1, AcceptedMessage DEF MsgType
<1>3. leader[y] = x
  BY <1>2 DEF MessagesInv
<1>4. /\ m \in Msg /\ m.type = "ObserveResp" /\ m.leader = x
  BY <1>3, LeaderAssumption, MessageType DEF Message, MsgType
<1>5. /\ c \in Streams
      /\ Shortened(chan[x][y], c[x][y])
      /\ \A a, b \in Node : ~(a = x /\ b = y) => c[a][b] = chan[a][b]
  BY <1>2, ChanType, PopStream, PopType
<1> HIDE DEF m, c
<1>6. /\ Extended(c[y][x], chan'[y][x], m)
      /\ \A a, b \in Node : ~(a = y /\ b = x) => chan'[a][b] = c[a][b]
  BY <1>1, <1>2, <1>3, <1>4, <1>5, SendStream
<1>7. /\ Shortened(chan[x][y], chan'[x][y])
      /\ Extended(chan[y][x], chan'[y][x], m)
      /\ \A a, b \in Node : ~(a = x /\ b = y) /\ ~(a = y /\ b = x) => chan'[a][b] = chan[a][b]
  BY <1>2, <1>5, <1>6
<1>8. MessagesInv'
  <2>1. \A a, b \in Node : \A u \in Elems(chan'[a][b]) :
           u \in Elems(chan[a][b]) \/ (a = y /\ b = x /\ u = m)
    BY <1>7 DEF Extended, Shortened
  <2> QED
    BY <1>1, <1>2, <1>3, <1>4, <2>1 DEF MessagesInv, QuorumMap, IsLeader
<1>9. OneAnswerInv'
  <2>1. /\ ~Carries(chan[y][x], "ObserveResp") /\ y \notin observations[x]
        /\ observing[x] \notin {"idle", "send"}
    BY <1>2 DEF OneAnswerInv
  <2>2. ~Carries(chan'[x][y], "ObserveReq")
    BY <1>2, <1>7 DEF OneAnswerInv, Shortened, MsgType
  <2>3. \A a, b \in Node :
           /\ Carries(chan'[a][b], "ObserveReq") => Carries(chan[a][b], "ObserveReq")
           /\ Carries(chan'[a][b], "ObserveResp") =>
                 Carries(chan[a][b], "ObserveResp") \/ (a = y /\ b = x)
    BY <1>4, <1>7, CarriesShortened, CarriesExtended
  <2>4. \A a, b \in Node :
           /\ AtMostOne(chan'[a][b], "ObserveReq")
           /\ AtMostOne(chan'[a][b], "ObserveResp")
    BY <1>4, <1>7, <2>1 DEF OneAnswerInv, Shortened, Extended, MsgType
  <2> SUFFICES ASSUME NEW a \in Node, NEW b \in Node
               PROVE
          /\ Carries(chan'[a][b], "ObserveReq") =>
                 ~Carries(chan'[b][a], "ObserveResp") /\ b \notin observations[a]
          /\ Carries(chan'[b][a], "ObserveResp") => b \notin observations[a]
          /\ observing[a] \in {"idle", "send"} =>
                 /\ ~Carries(chan'[a][b], "ObserveReq")
                 /\ ~Carries(chan'[b][a], "ObserveResp")
                 /\ b \notin observations[a]
    BY <1>1, <2>4 DEF OneAnswerInv
  <2>5. CASE a = x /\ b = y
    BY <2>1, <2>2, <2>5
  <2>6. CASE ~(a = x /\ b = y)
    BY <2>3, <2>6 DEF OneAnswerInv
  <2> QED
    BY <2>5, <2>6
<1>10. CountInv' /\ TaskInv' /\ CacheInv'
  BY <1>1 DEF CountInv, TaskInv, CacheInv, QuorumMap
<1>11. RoleInv'
  BY <1>1 DEF RoleInv, IsLeader, Followers, Reporters
<1>12. ReadyInv'
  BY <1>1 DEF ReadyInv, Reporters
<1> QED
  BY <1>8, <1>9, <1>10, <1>11, <1>12

\* The follower reports on the map it has cached.
LEMMA IndReportReq ==
    ASSUME IndInv, TypeOK', NEW x \in Node, NEW y \in Node, ReportReq(x, y)
    PROVE  IndInv'
<1> USE DEF IndInv
<1> DEFINE m == Message("ReportRes", leader[y], {})
           c == Pop(chan, x, y)
<1>1. /\ UNCHANGED <<pc, mu, loop, observing, observations, observe_n, tasks, reports,
                     follower_observations>>
      /\ chan' = SendMsg(c, y, leader[y], m)
      /\ Accepts(x, y, "ReportReq")
      /\ Head(chan[x][y]).om = follower_observations[y]
  BY DEF ReportReq, SameMap, startVars, leaderVars
<1>2. /\ chan[x][y] # <<>> /\ pc[y] = "ready" /\ x # y
      /\ Head(chan[x][y]) \in Elems(chan[x][y])
      /\ Head(chan[x][y]).type = "ReportReq" /\ Head(chan[x][y]).leader = leader[y]
  BY <1>1, AcceptedMessage DEF MsgType
<1>3. leader[y] = x /\ QuorumMap(follower_observations[y], x)
  BY <1>1, <1>2 DEF MessagesInv
<1>4. follower_observations[y] # {}
  BY <1>3, QuorumMapNonempty
<1>5. /\ m \in Msg /\ m.type = "ReportRes" /\ m.leader = x
  BY <1>3, LeaderAssumption, MessageType DEF Message, MsgType
<1>6. /\ c \in Streams
      /\ Shortened(chan[x][y], c[x][y])
      /\ \A a, b \in Node : ~(a = x /\ b = y) => c[a][b] = chan[a][b]
  BY <1>2, ChanType, PopStream, PopType
<1> HIDE DEF m, c
<1>7. /\ Extended(c[y][x], chan'[y][x], m)
      /\ \A a, b \in Node : ~(a = y /\ b = x) => chan'[a][b] = c[a][b]
  BY <1>1, <1>2, <1>3, <1>5, <1>6, SendStream
<1>8. /\ Shortened(chan[x][y], chan'[x][y])
      /\ Extended(chan[y][x], chan'[y][x], m)
      /\ \A a, b \in Node : ~(a = x /\ b = y) /\ ~(a = y /\ b = x) => chan'[a][b] = chan[a][b]
  BY <1>2, <1>6, <1>7
<1>9. MessagesInv'
  <2>1. \A a, b \in Node : \A u \in Elems(chan'[a][b]) :
           u \in Elems(chan[a][b]) \/ (a = y /\ b = x /\ u = m)
    BY <1>8 DEF Extended, Shortened
  <2> QED
    BY <1>1, <1>2, <1>3, <1>4, <1>5, <2>1 DEF MessagesInv, QuorumMap, IsLeader
<1>10. OneAnswerInv'
  <2>1. \A a, b \in Node : \A t \in {"ObserveReq", "ObserveResp"} :
           /\ Carries(chan'[a][b], t) => Carries(chan[a][b], t)
           /\ AtMostOne(chan[a][b], t) => AtMostOne(chan'[a][b], t)
    <3>1. \A a, b \in Node : \A t \in {"ObserveReq", "ObserveResp"} :
             Carries(chan'[a][b], t) => Carries(chan[a][b], t)
      BY <1>5, <1>8, CarriesShortened, CarriesExtended
    <3>2. \A a, b \in Node : \A t \in {"ObserveReq", "ObserveResp"} :
             AtMostOne(chan[a][b], t) => AtMostOne(chan'[a][b], t)
      BY <1>5, <1>8 DEF Shortened, Extended, MsgType
    <3> QED
      BY <3>1, <3>2
  <2> QED
    BY <1>1, <2>1 DEF OneAnswerInv
<1>11. CountInv' /\ TaskInv' /\ CacheInv'
  BY <1>1 DEF CountInv, TaskInv, CacheInv, QuorumMap
<1>12. RoleInv'
  BY <1>1 DEF RoleInv, IsLeader, Followers, Reporters
<1>13. ReadyInv'
  BY <1>1 DEF ReadyInv, Reporters
<1> QED
  BY <1>9, <1>10, <1>11, <1>12, <1>13

\* The response becomes an observation: the leader had none of x, so the
\* count of responses stays the number of observers.
LEMMA IndObserveResp ==
    ASSUME IndInv, TypeOK', NEW x \in Node, NEW y \in Node, ObserveResp(x, y)
    PROVE  IndInv'
<1> USE DEF IndInv
<1>1. /\ UNCHANGED <<pc, mu, loop, observing, reports, follower_observations>>
      /\ chan' = Pop(chan, x, y)
      /\ observations' = [observations EXCEPT ![y] = @ \cup {x}]
      /\ observe_n' = [observe_n EXCEPT ![y] = @ + 1]
      /\ Accepts(x, y, "ObserveResp")
  BY DEF ObserveResp, startVars
<1>2. /\ chan[x][y] # <<>> /\ pc[y] = "ready" /\ x # y
      /\ Carries(chan[x][y], "ObserveResp")
      /\ Head(chan[x][y]) \in Elems(chan[x][y])
      /\ Head(chan[x][y]).type = "ObserveResp" /\ Head(chan[x][y]).leader = leader[y]
  BY <1>1, AcceptedMessage DEF MsgType
<1>3. IsLeader(y) /\ leader[x] = y /\ pc[x] = "ready"
  BY <1>2 DEF MessagesInv, IsLeader
<1>4. /\ observations'[y] = observations[y] \cup {x}
      /\ observe_n'[y] = observe_n[y] + 1
      /\ \A q \in Node \ {y} : observations'[q] = observations[q] /\ observe_n'[q] = observe_n[q]
  BY <1>1 DEF TypeOK
<1>5. /\ x \notin observations[y] /\ ~Carries(chan[y][x], "ObserveReq")
      /\ observing[y] \notin {"idle", "send"}
  BY <1>2 DEF OneAnswerInv
<1>6. /\ Shortened(chan[x][y], chan'[x][y])
      /\ \A a, b \in Node : ~(a = x /\ b = y) => chan'[a][b] = chan[a][b]
  BY <1>1, <1>2, ChanType, PopStream
<1>7. \A l \in Node : \A om : QuorumMap(om, l) => QuorumMap(om, l)'
  BY <1>4 DEF QuorumMap
<1>8. MessagesInv'
  <2>1. \A a, b \in Node : Elems(chan'[a][b]) \subseteq Elems(chan[a][b])
    BY <1>6 DEF Shortened
  <2> QED
    BY <1>1, <1>7, <2>1 DEF MessagesInv, IsLeader
<1>9. OneAnswerInv'
  <2>1. \A a, b \in Node : \A t \in {"ObserveReq", "ObserveResp"} :
           /\ Carries(chan'[a][b], t) => Carries(chan[a][b], t)
           /\ AtMostOne(chan[a][b], t) => AtMostOne(chan'[a][b], t)
    BY <1>6, CarriesShortened DEF Shortened, MsgType
  <2>2. ~Carries(chan'[x][y], "ObserveResp")
    BY <1>2, <1>6 DEF OneAnswerInv, Shortened, MsgType
  <2> SUFFICES ASSUME NEW a \in Node, NEW b \in Node
               PROVE
          /\ Carries(chan'[a][b], "ObserveReq") =>
                 ~Carries(chan'[b][a], "ObserveResp") /\ b \notin observations'[a]
          /\ Carries(chan'[b][a], "ObserveResp") => b \notin observations'[a]
          /\ observing[a] \in {"idle", "send"} =>
                 /\ ~Carries(chan'[a][b], "ObserveReq")
                 /\ ~Carries(chan'[b][a], "ObserveResp")
                 /\ b \notin observations'[a]
    BY <1>1, <2>1 DEF OneAnswerInv
  <2>3. CASE a = y /\ b = x
    BY <1>5, <2>1, <2>2, <2>3
  <2>4. CASE ~(a = y /\ b = x)
    <3>1. b \in observations'[a] => b \in observations[a]
      BY <1>4, <2>4
    <3> QED
      BY <2>1, <3>1 DEF OneAnswerInv
  <2> QED
    BY <2>3, <2>4
<1>10. \A q \in Node : observe_n'[q] = Cardinality(observations'[q])
  <2>1. IsFiniteSet(observations[y])
    BY FS_Subset, NodeAssumption DEF TypeOK
  <2>2. Cardinality(observations[y] \cup {x}) = Cardinality(observations[y]) + 1
    BY <1>5, <2>1, FS_AddElement
  <2> QED
    BY <1>4, <2>2 DEF CountInv
<1>11. \/ tasks' = tasks
       \/ /\ observe_n'[y] > 2 * f + 1
          /\ tasks' = [tasks EXCEPT ![y] = Append(@, [step |-> "grace", om |-> {}])]
  BY <1>4 DEF ObserveResp, ObserveQuorum
<1>12. CountInv' /\ TaskInv' /\ \A q \in Node : tasks'[q] # <<>> => IsLeader(q)
  <2>1. CASE tasks' = tasks
    <3>0. \A q \in Node : observe_n[q] > 2 * f + 1 => observe_n'[q] > 2 * f + 1
      <4>1. \A q \in Node : observe_n[q] \in Nat
        BY DEF TypeOK
      <4>2. \A q \in Node : observe_n'[q] \in {observe_n[q], observe_n[q] + 1}
        BY <1>4
      <4> QED
        BY <4>1, <4>2, GlobalsAssumption
    <3>1. CountInv'
      BY <1>10, <2>1, <3>0 DEF CountInv
    <3>2. TaskInv'
      BY <1>7, <2>1 DEF TaskInv
    <3> QED
      BY <2>1, <3>1, <3>2 DEF RoleInv
  <2>2. CASE tasks' # tasks
    <3> DEFINE t == [step |-> "grace", om |-> {}]
    <3>1. /\ tasks \in [Node -> Seq(Task)] /\ t \in Task /\ t.step = "grace"
      BY DEF TypeOK, Task, TaskStep
    <3>2. /\ observe_n'[y] > 2 * f + 1
          /\ tasks'[y] = Append(tasks[y], t)
          /\ \A q \in Node \ {y} : tasks'[q] = tasks[q]
      BY <1>11, <2>2, <3>1
    <3> HIDE DEF t
    <3>3. /\ Len(tasks'[y]) = Len(tasks[y]) + 1 /\ Len(tasks[y]) \in Nat
          /\ tasks'[y][Len(tasks[y]) + 1] = t
          /\ \A k \in 1..Len(tasks[y]) : tasks'[y][k] = tasks[y][k]
      BY <3>1, <3>2
    <3>4. \A k \in 1..Len(tasks'[y]) : k \in 1..Len(tasks[y]) \/ k = Len(tasks[y]) + 1
      BY <3>3
    <3>5. CountInv'
      BY <1>4, <1>10, <3>2, GlobalsAssumption DEF CountInv, TypeOK
    <3>6. TaskInv'
      BY <1>7, <3>1, <3>2, <3>3, <3>4 DEF TaskInv
    <3> QED
      BY <1>3, <3>2, <3>5, <3>6 DEF RoleInv
  <2> QED
    BY <2>1, <2>2
<1>13. CacheInv'
  BY <1>1, <1>7 DEF CacheInv
<1>14. RoleInv'
  BY <1>1, <1>2, <1>3, <1>4, <1>12 DEF RoleInv, IsLeader, Followers, Reporters
<1>15. ReadyInv'
  <2>1. \A l \in Node : Reporters(l)' = Reporters(l)
    BY <1>1 DEF Reporters
  <2>2. \A l \in Node : \A q \in observations'[l] : pc[q] = "ready"
    BY <1>3, <1>4 DEF ReadyInv
  <2> QED
    BY <1>1, <2>1, <2>2 DEF ReadyInv
<1> QED
  BY <1>8, <1>9, <1>12, <1>13, <1>14, <1>15

\* The leader counts the report of one of its followers.
LEMMA IndReportRes ==
    ASSUME IndInv, TypeOK', NEW x \in Node, NEW y \in Node, ReportRes(x, y)
    PROVE  IndInv'
<1> USE DEF IndInv
<1>1. /\ UNCHANGED <<pc, mu, loop, observing, observations, observe_n, tasks,
                     follower_observations>>
      /\ chan' = Pop(chan, x, y)
      /\ reports' = [reports EXCEPT ![y] = Append(@, x)]
      /\ Accepts(x, y, "ReportRes")
  BY DEF ReportRes, startVars
<1>2. /\ chan[x][y] # <<>> /\ x # y
      /\ Head(chan[x][y]) \in Elems(chan[x][y])
      /\ Head(chan[x][y]).type = "ReportRes" /\ Head(chan[x][y]).leader = leader[y]
  BY <1>1, AcceptedMessage DEF MsgType
<1>3. leader[x] = y /\ pc[x] = "ready" /\ follower_observations[x] # {}
  BY <1>2 DEF MessagesInv
<1>4. \A l \in Node : Reporters(l)' \subseteq IF l = y THEN Reporters(l) \cup {x} ELSE Reporters(l)
  <2>1. /\ reports \in [Node -> Seq(Node \cup {NoId})]
        /\ reports'[y] = Append(reports[y], x)
        /\ \A l \in Node \ {y} : reports'[l] = reports[l]
    BY <1>1 DEF TypeOK
  <2>2. \A i \in DOMAIN reports'[y] :
           (i \in DOMAIN reports[y] /\ reports'[y][i] = reports[y][i]) \/ reports'[y][i] = x
    BY <2>1
  <2> QED
    BY <2>1, <2>2 DEF Reporters
<1>5. /\ Shortened(chan[x][y], chan'[x][y])
      /\ \A a, b \in Node : ~(a = x /\ b = y) => chan'[a][b] = chan[a][b]
  BY <1>1, <1>2, ChanType, PopStream
<1>6. MessagesInv'
  <2>1. \A a, b \in Node : Elems(chan'[a][b]) \subseteq Elems(chan[a][b])
    BY <1>5 DEF Shortened
  <2> QED
    BY <1>1, <2>1 DEF MessagesInv, QuorumMap, IsLeader
<1>7. OneAnswerInv'
  <2>1. \A a, b \in Node : \A t \in MsgType :
           /\ Carries(chan'[a][b], t) => Carries(chan[a][b], t)
           /\ AtMostOne(chan[a][b], t) => AtMostOne(chan'[a][b], t)
    BY <1>5, CarriesShortened DEF Shortened
  <2> QED
    BY <1>1, <2>1 DEF OneAnswerInv, MsgType
<1>8. CountInv' /\ TaskInv' /\ CacheInv'
  BY <1>1 DEF CountInv, TaskInv, CacheInv, QuorumMap
<1>9. RoleInv'
  <2>1. \A l \in Node : Reporters(l)' \subseteq Followers(l)
    BY <1>2, <1>3, <1>4 DEF RoleInv, Followers
  <2> QED
    BY <1>1, <2>1 DEF RoleInv, IsLeader, Followers
<1>10. ReadyInv'
  BY <1>1, <1>3, <1>4 DEF ReadyInv
<1> QED
  BY <1>6, <1>7, <1>8, <1>9, <1>10

\* Every step of every node and of the network keeps the invariant.
LEMMA IndNext == IndInv /\ [Next]_vars => IndInv'
<1> SUFFICES ASSUME IndInv, [Next]_vars
             PROVE  IndInv'
  OBVIOUS
<1>1. TypeOK'
  BY TypeNext DEF IndInv
<1>2. ASSUME NEW x \in Node, StartUp(x) \/ StartPanics(x) \/ HandlePhase(x)
      PROVE  IndInv'
  <2>1. \A k \in DOMAIN tasks[x] : k \in 1..Len(tasks[x])
    BY DEF IndInv, TypeOK
  <2> QED
    BY <1>1, <1>2, <2>1, IndStartUp, IndHandleObserve, IndHandleTask DEF HandlePhase
<1>3. ASSUME NEW x \in Node, NEW y \in Node, ProcessMessage(x, y) \/ Lose(x, y)
      PROVE  IndInv'
  BY <1>1, <1>3, IndDropped, IndObserveReq, IndObserveResp, IndCacheMap, IndReportReq,
     IndReportRes DEF ProcessMessage
<1>4. CASE UNCHANGED vars
  <2>1. UNCHANGED <<pc, mu, loop, chan, observing, observations, observe_n, tasks, reports,
                    follower_observations>>
    BY <1>4 DEF vars
  <2>2. MessagesInv' /\ OneAnswerInv'
    BY <2>1 DEF IndInv, MessagesInv, OneAnswerInv, QuorumMap, IsLeader
  <2>3. CountInv' /\ TaskInv' /\ CacheInv'
    BY <2>1 DEF IndInv, CountInv, TaskInv, CacheInv, QuorumMap
  <2>4. RoleInv' /\ ReadyInv'
    BY <2>1 DEF IndInv, RoleInv, ReadyInv, IsLeader, Followers, Reporters
  <2> QED
    BY <1>1, <2>2, <2>3, <2>4 DEF IndInv
<1> QED
  BY <1>2, <1>3, <1>4 DEF Next

----------------------------------------------------------------------------
(***************************************************************************)
(* The theorems.                                                           *)
(***************************************************************************)
\* The invariant holds in every state of every behaviour.
LEMMA Invariance == Spec => []IndInv
BY IndInit, IndNext, PTL DEF Spec

\* Whatever is lost or delayed, a grace period begins with the observations
\* of more than 2f+1 distinct followers, although ProcessMessage only counts
\* OBSERVE-RES messages.
THEOREM GraceNeedsDistinctObservers == Spec => []DistinctObservers
<1>1. IndInv => DistinctObservers
  BY DEF IndInv, CountInv, DistinctObservers
<1> QED
  BY <1>1, Invariance, PTL

\* Every report in re.reports comes from a follower that holds a map of more
\* than 2f+1 observations this leader really received.
THEOREM ReportsRestOnQuorum == Spec => []ReportedOverQuorum
<1>1. IndInv => ReportedOverQuorum
  <2> SUFFICES ASSUME IndInv, NEW l \in Node, NEW q \in Reporters(l)
               PROVE  QuorumMap(follower_observations[q], l)
    BY DEF ReportedOverQuorum, QuorumMap
  <2>1. q \in Node /\ leader[q] = l
    BY DEF IndInv, RoleInv, Followers
  <2>2. follower_observations[q] # {}
    BY DEF IndInv, ReadyInv
  <2> QED
    BY <2>1, <2>2 DEF IndInv, CacheInv
<1> QED
  BY <1>1, Invariance, PTL

\* However the elections went, no leader is served by, and no follower serves,
\* the round of another leader.
THEOREM RivalRoundsAreDisjoint == Spec => []LeadersDoNotMix
<1>1. IndInv => LeadersDoNotMix
  BY DEF IndInv, RoleInv, CacheInv, QuorumMap, LeadersDoNotMix
<1> QED
  BY <1>1, Invariance, PTL

\* The mutex leak of ProcessMessage never hits a node that has contributed.
THEOREM LeakSparesContributors == Spec => []ContributorsServe
<1>1. IndInv => ContributorsServe
  <2> SUFFICES ASSUME IndInv, NEW l \in Node, NEW q \in observations[l] \cup Reporters(l)
               PROVE  pc[q] = "ready" /\ mu[q] = "free" /\ loop[q] = "running"
    BY DEF ContributorsServe
  <2>1. q \in Node
    BY DEF IndInv, RoleInv, Followers
  <2>2. pc[q] = "ready"
    BY DEF IndInv, ReadyInv
  <2>3. mu[q] = "free"
    BY <2>1, <2>2 DEF IndInv, ReadyInv
  <2>4. loop[q] = "running" \/ loop[q] = "blocked"
    BY <2>1 DEF IndInv, TypeOK
  <2> QED
    BY <2>1, <2>2, <2>3, <2>4 DEF IndInv, ReadyInv
<1> QED
  BY <1>1, Invariance, PTL

----------------------------------------------------------------------------
(***************************************************************************)
(* Reports per request: how often something occurs in a sequence.          *)
(***************************************************************************)
Places(s, V) == {i \in DOMAIN s : s[i] \in V}
Occ(s, V) == Cardinality(Places(s, V))

\* The places are finitely many.
LEMMA OccNat ==
    ASSUME NEW S, NEW s \in Seq(S), NEW V
    PROVE  IsFiniteSet(Places(s, V)) /\ Occ(s, V) \in Nat
<1>1. DOMAIN s = 1..Len(s) /\ Len(s) \in Nat
  OBVIOUS
<1>2. IsFiniteSet(1..Len(s))
  BY <1>1, FS_Interval
<1>3. IsFiniteSet(Places(s, V))
  BY <1>1, <1>2, FS_Subset DEF Places
<1> QED
  BY <1>3, FS_CardinalityType DEF Occ

\* Appending e adds an occurrence if e is one.
LEMMA OccAppend ==
    ASSUME NEW S, NEW s \in Seq(S), NEW e \in S, NEW V
    PROVE  Occ(Append(s, e), V) = Occ(s, V) + (IF e \in V THEN 1 ELSE 0)
<1>1. /\ Len(s) \in Nat
      /\ DOMAIN Append(s, e) = 1..(Len(s) + 1) /\ DOMAIN s = 1..Len(s)
      /\ \A i \in 1..Len(s) : Append(s, e)[i] = s[i]
      /\ Append(s, e)[Len(s) + 1] = e
  OBVIOUS
<1>2. 1..(Len(s) + 1) = 1..Len(s) \cup {Len(s) + 1} /\ Len(s) + 1 \notin 1..Len(s)
  BY <1>1
<1>3. Places(Append(s, e), V)
        = IF e \in V THEN Places(s, V) \cup {Len(s) + 1} ELSE Places(s, V)
  BY <1>1, <1>2 DEF Places
<1>4. Len(s) + 1 \notin Places(s, V)
  BY <1>1, <1>2 DEF Places
<1>5. IsFiniteSet(Places(s, V)) /\ Occ(s, V) \in Nat
  BY OccNat
<1>6. Cardinality(Places(s, V) \cup {Len(s) + 1}) = Cardinality(Places(s, V)) + 1
  BY <1>4, <1>5, FS_AddElement
<1> QED
  BY <1>3, <1>5, <1>6 DEF Occ

\* Taking the first element takes its occurrence, and adds none.
LEMMA OccTail ==
    ASSUME NEW S, NEW s \in Seq(S), s # <<>>, NEW V
    PROVE  /\ Occ(Tail(s), V) <= Occ(s, V)
           /\ Head(s) \in V => Occ(Tail(s), V) + 1 <= Occ(s, V)
<1> DEFINE P == Places(Tail(s), V)
           Q == Places(s, V) \ {1}
           shift == [i \in P |-> i + 1]
<1>1. /\ Len(s) \in Nat \ {0}
      /\ DOMAIN Tail(s) = 1..(Len(s) - 1) /\ DOMAIN s = 1..Len(s)
      /\ \A i \in 1..(Len(s) - 1) : Tail(s)[i] = s[i + 1]
      /\ Head(s) = s[1] /\ 1 \in 1..Len(s)
  OBVIOUS
<1>2. \A i \in P : i \in Nat /\ i + 1 \in Q
  BY <1>1 DEF Places
<1>3. shift \in Injection(P, Q)
  <2>1. shift \in [P -> Q]
    BY <1>2
  <2>2. \A i, j \in P : shift[i] = shift[j] => i = j
    BY <1>2
  <2> QED
    BY <2>1, <2>2 DEF Injection, IsInjective
<1>4. IsFiniteSet(Places(s, V)) /\ Cardinality(Places(s, V)) \in Nat
  BY OccNat DEF Occ
<1>5. /\ IsFiniteSet(Q)
      /\ Cardinality(Q) = IF 1 \in Places(s, V) THEN Cardinality(Places(s, V)) - 1
                          ELSE Cardinality(Places(s, V))
  BY <1>4, FS_RemoveElement
<1>6. Cardinality(P) <= Cardinality(Q) /\ IsFiniteSet(P)
  <2> HIDE DEF P, Q, shift
  <2> QED
    BY <1>3, <1>5, FS_Injection
<1>7. Cardinality(P) \in Nat
  BY <1>6, FS_CardinalityType
<1>8. Head(s) \in V => 1 \in Places(s, V)
  BY <1>1 DEF Places
<1> QED
  BY <1>4, <1>5, <1>6, <1>7, <1>8 DEF Occ

\* Changing an element that is no occurrence loses none, and adds one if the
\* new element is one.
LEMMA OccReplace ==
    ASSUME NEW S, NEW s \in Seq(S), NEW k \in 1..Len(s), NEW e \in S, NEW V, s[k] \notin V
    PROVE  Occ([s EXCEPT ![k] = e], V) = Occ(s, V) + (IF e \in V THEN 1 ELSE 0)
<1>1. DOMAIN s = 1..Len(s) /\ DOMAIN [s EXCEPT ![k] = e] = 1..Len(s)
  OBVIOUS
<1>2. Places([s EXCEPT ![k] = e], V)
        = IF e \in V THEN Places(s, V) \cup {k} ELSE Places(s, V)
  BY <1>1 DEF Places
<1>3. k \notin Places(s, V)
  BY DEF Places
<1>4. IsFiniteSet(Places(s, V)) /\ Occ(s, V) \in Nat
  BY OccNat
<1>5. Cardinality(Places(s, V) \cup {k}) = Cardinality(Places(s, V)) + 1
  BY <1>3, <1>4, FS_AddElement
<1> QED
  BY <1>2, <1>4, <1>5 DEF Occ

\* Occurrences in streams when the next message is taken off one of them.
LEMMA PopOcc ==
    ASSUME NEW c \in Streams, NEW x \in Node, NEW y \in Node, c[x][y] # <<>>,
           NEW d, d = Pop(c, x, y), NEW V
    PROVE  /\ \A a, b \in Node : Occ(d[a][b], V) <= Occ(c[a][b], V)
           /\ Head(c[x][y]) \in V => Occ(d[x][y], V) + 1 <= Occ(c[x][y], V)
<1>1. \A a, b \in Node : c[a][b] \in Seq(Msg)
  BY DEF Streams
<1>2. \A a, b \in Node : Occ(c[a][b], V) \in Nat
  BY <1>1, OccNat
<1>3. d[x][y] = Tail(c[x][y])
  BY DEF Pop, Streams
<1>4. \A a, b \in Node : ~(a = x /\ b = y) => d[a][b] = c[a][b]
  BY DEF Pop, Streams
<1>5. /\ Occ(d[x][y], V) <= Occ(c[x][y], V)
      /\ Head(c[x][y]) \in V => Occ(d[x][y], V) + 1 <= Occ(c[x][y], V)
  BY <1>1, <1>3, OccTail
<1>6. ASSUME NEW a \in Node, NEW b \in Node
      PROVE  Occ(d[a][b], V) <= Occ(c[a][b], V)
  BY <1>2, <1>4, <1>5
<1> QED
  BY <1>5, <1>6

\* Occurrences in streams when m is sent to y, if y is a peer.
LEMMA SendOcc ==
    ASSUME NEW c \in Streams, NEW x \in Node, NEW y, NEW m \in Msg,
           NEW d, d = SendMsg(c, x, y, m), NEW V, NEW a \in Node, NEW b \in Node
    PROVE  /\ Occ(d[a][b], V) <= Occ(c[a][b], V) + 1
           /\ m \notin V \/ a # x => Occ(d[a][b], V) <= Occ(c[a][b], V)
<1>1. c[a][b] \in Seq(Msg)
  BY DEF Streams
<1>2. Occ(c[a][b], V) \in Nat
  BY <1>1, OccNat
<1>3. d[a][b] = c[a][b] \/ (a = x /\ b = y /\ d[a][b] = Append(c[a][b], m))
  BY DEF SendMsg, Streams
<1>4. Occ(Append(c[a][b], m), V) = Occ(c[a][b], V) + (IF m \in V THEN 1 ELSE 0)
  BY <1>1, OccAppend
<1>5. CASE d[a][b] = c[a][b]
  BY <1>2, <1>5
<1>6. CASE a = x /\ b = y /\ d[a][b] = Append(c[a][b], m)
  BY <1>2, <1>4, <1>6
<1> QED
  BY <1>3, <1>5, <1>6

\* Occurrences in streams when m is sent to every other node.
LEMMA BroadcastOcc ==
    ASSUME NEW c \in Streams, NEW x \in Node, NEW m \in Msg,
           NEW d, d = BroadcastMsg(c, x, m), NEW V, NEW a \in Node, NEW b \in Node
    PROVE  Occ(d[a][b], V) <= Occ(c[a][b], V) + (IF m \in V /\ a = x THEN 1 ELSE 0)
<1>1. c[a][b] \in Seq(Msg)
  BY DEF Streams
<1>2. Occ(c[a][b], V) \in Nat
  BY <1>1, OccNat
<1>3. d[a][b] = c[a][b] \/ (a = x /\ d[a][b] = Append(c[a][b], m))
  BY DEF BroadcastMsg, Streams
<1>4. Occ(Append(c[a][b], m), V) = Occ(c[a][b], V) + (IF m \in V THEN 1 ELSE 0)
  BY <1>1, OccAppend
<1>5. CASE d[a][b] = c[a][b]
  BY <1>2, <1>5
<1>6. CASE a = x /\ d[a][b] = Append(c[a][b], m)
  BY <1>2, <1>4, <1>6
<1> QED
  BY <1>3, <1>5, <1>6

Requests == {m \in Msg : m.type = "ReportReq"}
Answers  == {m \in Msg : m.type = "ReportRes"}
By(q)    == {q}
Sent     == {t \in Task : t.step = "done"}

\* Every handleReport that is through left one token between its leader and a
\* follower at most: the request, the answer, or the report.
Tokens(c, r, t) ==
    \A l \in Node : \A q \in Followers(l) :
        Occ(c[l][q], Requests) + Occ(c[q][l], Answers) + Occ(r[l], By(q)) <= Occ(t[l], Sent)
TokensInv == Tokens(chan, reports, tasks)

NoMoreTokens(c, r, t, c1, r1, t1) ==
    \A l \in Node : \A q \in Node :
        /\ Occ(c1[l][q], Requests) <= Occ(c[l][q], Requests)
        /\ Occ(c1[q][l], Answers) <= Occ(c[q][l], Answers)
        /\ Occ(r1[l], By(q)) <= Occ(r[l], By(q))
        /\ Occ(t[l], Sent) <= Occ(t1[l], Sent)

\* There is a task for every response past the quorum at most.
TaskCountInv ==
    \A l \in Node : tasks[l] = <<>> \/ Len(tasks[l]) + 2 * f + 1 <= observe_n[l]

ReportLists == [Node -> Seq(Node \cup {NoId})]
TaskLists == [Node -> Seq(Task)]

\* What is counted are numbers.
LEMMA TokenTypes ==
    ASSUME NEW c \in Streams, NEW r \in ReportLists, NEW t \in TaskLists,
           NEW l \in Node, NEW q \in Node
    PROVE  /\ Occ(c[l][q], Requests) \in Nat /\ Occ(c[q][l], Answers) \in Nat
           /\ Occ(r[l], By(q)) \in Nat /\ Occ(t[l], Sent) \in Nat
<1>1. /\ c[l][q] \in Seq(Msg) /\ c[q][l] \in Seq(Msg)
      /\ r[l] \in Seq(Node \cup {NoId}) /\ t[l] \in Seq(Task)
  BY DEF Streams, ReportLists, TaskLists
<1> QED
  BY <1>1, OccNat

\* A step that adds no token keeps their bound.
LEMMA TokensFrame ==
    ASSUME NEW c \in Streams, NEW r \in ReportLists, NEW t \in TaskLists,
           NEW c1 \in Streams, NEW r1 \in ReportLists, NEW t1 \in TaskLists,
           Tokens(c, r, t), NoMoreTokens(c, r, t, c1, r1, t1)
    PROVE  Tokens(c1, r1, t1)
<1>1. ASSUME NEW l \in Node, NEW q \in Followers(l)
      PROVE  Occ(c1[l][q], Requests) + Occ(c1[q][l], Answers) + Occ(r1[l], By(q))
               <= Occ(t1[l], Sent)
  <2>1. q \in Node
    BY DEF Followers
  <2>2. Occ(c[l][q], Requests) + Occ(c[q][l], Answers) + Occ(r[l], By(q)) <= Occ(t[l], Sent)
    BY DEF Tokens
  <2>3. /\ Occ(c[l][q], Requests) \in Nat /\ Occ(c[q][l], Answers) \in Nat
        /\ Occ(r[l], By(q)) \in Nat /\ Occ(t[l], Sent) \in Nat
    BY <2>1, TokenTypes
  <2>4. /\ Occ(c1[l][q], Requests) \in Nat /\ Occ(c1[q][l], Answers) \in Nat
        /\ Occ(r1[l], By(q)) \in Nat /\ Occ(t1[l], Sent) \in Nat
    BY <2>1, TokenTypes
  <2>5. /\ Occ(c1[l][q], Requests) <= Occ(c[l][q], Requests)
        /\ Occ(c1[q][l], Answers) <= Occ(c[q][l], Answers)
        /\ Occ(r1[l], By(q)) <= Occ(r[l], By(q))
        /\ Occ(t[l], Sent) <= Occ(t1[l], Sent)
    BY <2>1 DEF NoMoreTokens
  <2> QED
    BY <2>2, <2>3, <2>4, <2>5
<1> QED
  BY <1>1 DEF Tokens

\* The lists of a state have their types.
LEMMA ListTypes == TypeOK => chan \in Streams /\ reports \in ReportLists /\ tasks \in TaskLists
BY DEF TypeOK, Streams, ReportLists, TaskLists

\* Nothing is sent, reported or done when the engines are created.
LEMMA TokensInit == Init => TokensInv /\ TaskCountInv
<1> SUFFICES ASSUME Init PROVE TokensInv /\ TaskCountInv
  OBVIOUS
<1>1. \A V : Occ(<<>>, V) = 0
  <2>1. \A V : Places(<<>>, V) = {}
    BY DEF Places
  <2> QED
    BY <2>1, FS_EmptySet DEF Occ
<1>2. TokensInv
  BY <1>1 DEF TokensInv, Tokens, Init, Followers
<1> QED
  BY <1>2 DEF TaskCountInv, Init

\* Start-up sends nothing; initReporter leaves a blank report.
LEMMA TokensStartUp ==
    ASSUME TypeOK, TypeOK', TokensInv, NEW x \in Node, StartUp(x) \/ StartPanics(x)
    PROVE  TokensInv'
<1>1. chan' = chan /\ tasks' = tasks
  BY DEF StartUp, StartPanics, initReporter, StartLeader, StartFollower, SetReady,
     netVars, leaderVars
<1>2. /\ chan \in Streams /\ reports \in ReportLists /\ tasks \in TaskLists
      /\ reports' \in ReportLists
  BY ListTypes DEF TypeOK, ReportLists
<1>3. \A l \in Node : reports'[l] = reports[l] \/ reports'[l] = <<NoId>>
  <2>1. CASE initReporter(x)
    BY <1>2, <2>1 DEF initReporter, ReportLists
  <2>2. CASE ~initReporter(x)
    BY <2>2 DEF StartUp, StartPanics, StartLeader, StartFollower, SetReady, leaderVars
  <2> QED
    BY <2>1, <2>2
<1>4. \A q \in Node : Occ(<<NoId>>, By(q)) = 0
  <2>1. \A q \in Node : Places(<<NoId>>, By(q)) = {}
    BY NodeAssumption DEF Places, By
  <2> QED
    BY <2>1, FS_EmptySet DEF Occ
<1>5. ASSUME NEW l \in Node, NEW q \in Node
      PROVE  /\ Occ(chan[l][q], Requests) \in Nat /\ Occ(chan[q][l], Answers) \in Nat
             /\ Occ(reports[l], By(q)) \in Nat /\ Occ(tasks[l], Sent) \in Nat
  BY <1>2, TokenTypes
<1>6. ASSUME NEW l \in Node, NEW q \in Node
      PROVE  Occ(reports'[l], By(q)) <= Occ(reports[l], By(q))
  <2>1. Occ(reports[l], By(q)) \in Nat
    BY <1>5
  <2>2. CASE reports'[l] = reports[l]
    BY <2>1, <2>2
  <2>3. CASE reports'[l] = <<NoId>>
    BY <1>4, <2>1, <2>3
  <2> QED
    BY <1>3, <2>2, <2>3
<1>7. NoMoreTokens(chan, reports, tasks, chan, reports', tasks)
  BY <1>5, <1>6 DEF NoMoreTokens
<1>8. Tokens(chan, reports', tasks)
  BY <1>2, <1>7, TokensFrame DEF TokensInv
<1> QED
  BY <1>1, <1>8 DEF TokensInv

\* The lists of a state and of the next one, and the counts of the first.
LEMMA StepTypes ==
    ASSUME TypeOK, TypeOK'
    PROVE  /\ chan \in Streams /\ reports \in ReportLists /\ tasks \in TaskLists
           /\ chan' \in Streams /\ reports' \in ReportLists /\ tasks' \in TaskLists
           /\ \A l, q \in Node :
                  /\ Occ(chan[l][q], Requests) \in Nat /\ Occ(chan[l][q], Answers) \in Nat
                  /\ Occ(reports[l], By(q)) \in Nat /\ Occ(tasks[l], Sent) \in Nat
<1>1. chan \in Streams /\ reports \in ReportLists /\ tasks \in TaskLists
  BY ListTypes
<1>2. chan' \in Streams /\ reports' \in ReportLists /\ tasks' \in TaskLists
  BY DEF TypeOK, Streams, ReportLists, TaskLists
<1>3. ASSUME NEW l \in Node, NEW q \in Node
      PROVE  /\ Occ(chan[l][q], Requests) \in Nat /\ Occ(chan[l][q], Answers) \in Nat
             /\ Occ(reports[l], By(q)) \in Nat /\ Occ(tasks[l], Sent) \in Nat
  BY <1>1, TokenTypes
<1> QED
  BY <1>1, <1>2, <1>3

\* The goroutines of a round: only the end of handleReport sends requests, one
\* to each follower, and it does so once.
LEMMA TokensHandleObserve ==
    ASSUME TypeOK, TypeOK', TokensInv, NEW x \in Node, handleObserve(x) \/ handleObserveEnds(x)
    PROVE  TokensInv'
<1>1. /\ chan \in Streams /\ reports \in ReportLists /\ tasks \in TaskLists
      /\ chan' \in Streams
  BY StepTypes
<1>0. \A l, q \in Node :
          /\ Occ(chan[l][q], Requests) \in Nat /\ Occ(chan[l][q], Answers) \in Nat
          /\ Occ(reports[l], By(q)) \in Nat /\ Occ(tasks[l], Sent) \in Nat
  BY StepTypes
<1>2. reports' = reports /\ tasks' = tasks
  BY DEF handleObserve, handleObserveEnds
<1>3. ASSUME NEW l \in Node, NEW q \in Node
      PROVE  /\ Occ(chan'[l][q], Requests) <= Occ(chan[l][q], Requests)
             /\ Occ(chan'[l][q], Answers) <= Occ(chan[l][q], Answers)
  <2>1. CASE handleObserve(x)
    <3> DEFINE m == Message("ObserveReq", leader[x], {})
    <3>1. m \in Msg
      BY LeaderAssumption, MessageType DEF MsgType
    <3>2. m \notin Requests /\ m \notin Answers
      BY DEF Message, Requests, Answers
    <3>3. chan' = BroadcastMsg(chan, x, m)
      BY <2>1 DEF handleObserve
    <3> HIDE DEF m
    <3>4. /\ Occ(chan'[l][q], Requests) <= Occ(chan[l][q], Requests) + 0
          /\ Occ(chan'[l][q], Answers) <= Occ(chan[l][q], Answers) + 0
      BY <1>1, <3>1, <3>2, <3>3, BroadcastOcc
    <3> QED
      BY <1>0, <3>4
  <2>2. CASE handleObserveEnds(x)
    <3>1. chan' = chan
      BY <2>2 DEF handleObserveEnds, netVars
    <3> QED
      BY <1>0, <3>1
  <2> QED
    BY <2>1, <2>2
<1>4. NoMoreTokens(chan, reports, tasks, chan', reports, tasks)
  BY <1>0, <1>3 DEF NoMoreTokens
<1>5. Tokens(chan', reports, tasks)
  BY <1>1, <1>4, TokensFrame DEF TokensInv
<1> QED
  BY <1>2, <1>5 DEF TokensInv

\* The grace period and the broadcast of the map.
LEMMA TokensMarshal ==
    ASSUME TypeOK, TypeOK', TokensInv, NEW x \in Node, NEW k \in 1..Len(tasks[x]),
           handleGrace(x, k) \/ broadcastObservationMap(x, k)
    PROVE  TokensInv'
<1>1. /\ chan \in Streams /\ reports \in ReportLists /\ tasks \in TaskLists
      /\ chan' \in Streams /\ tasks' \in TaskLists
  BY StepTypes
<1>0. \A l, q \in Node :
          /\ Occ(chan[l][q], Requests) \in Nat /\ Occ(chan[l][q], Answers) \in Nat
          /\ Occ(reports[l], By(q)) \in Nat /\ Occ(tasks[l], Sent) \in Nat
  BY StepTypes
<1>2. reports' = reports
  BY DEF handleGrace, broadcastObservationMap
<1>3. ASSUME NEW l \in Node, NEW q \in Node
      PROVE  /\ Occ(chan'[l][q], Requests) <= Occ(chan[l][q], Requests)
             /\ Occ(chan'[l][q], Answers) <= Occ(chan[l][q], Answers)
  <2>0. Occ(chan[l][q], Requests) \in Nat /\ Occ(chan[l][q], Answers) \in Nat
    BY <1>0
  <2>1. CASE broadcastObservationMap(x, k)
    <3> DEFINE m == Message("BroadcastObservationMap", leader[x], observations[x])
    <3>1. m \in Msg
      BY LeaderAssumption, MessageType DEF MsgType, TypeOK
    <3>2. m \notin Requests /\ m \notin Answers
      BY DEF Message, Requests, Answers
    <3>3. chan' = BroadcastMsg(chan, x, m)
      BY <2>1 DEF broadcastObservationMap
    <3> HIDE DEF m
    <3>4. /\ Occ(chan'[l][q], Requests) <= Occ(chan[l][q], Requests) + 0
          /\ Occ(chan'[l][q], Answers) <= Occ(chan[l][q], Answers) + 0
      BY <1>1, <3>1, <3>2, <3>3, BroadcastOcc
    <3> QED
      BY <2>0, <3>4
  <2>2. CASE handleGrace(x, k)
    <3>1. chan' = chan
      BY <2>2 DEF handleGrace, netVars
    <3> QED
      BY <2>0, <3>1
  <2> QED
    BY <2>1, <2>2
<1>4. ASSUME NEW l \in Node
      PROVE  Occ(tasks[l], Sent) <= Occ(tasks'[l], Sent)
  <2>1. CASE l # x
    <3>1. tasks'[l] = tasks[l]
      BY <1>1, <2>1 DEF handleGrace, broadcastObservationMap, TaskLists
    <3> QED
      BY <1>0, <3>1
  <2>2. CASE l = x
    <3>1. tasks[x] \in Seq(Task) /\ tasks[x][k] \in Task
      BY <1>1 DEF TaskLists
    <3>2. tasks[x][k] \notin Sent
      BY DEF handleGrace, broadcastObservationMap, Sent
    <3>3. PICK e \in Task : tasks'[x] = [tasks[x] EXCEPT ![k] = e]
      <4>1. [tasks[x][k] EXCEPT !.step = "marshal"] \in Task
        BY <3>1 DEF Task, TaskStep
      <4>2. [step |-> "sleep", om |-> observations[x]] \in Task
        BY DEF TypeOK, Task, TaskStep
      <4> QED
        BY <1>1, <4>1, <4>2 DEF handleGrace, broadcastObservationMap, TaskLists
    <3>4. Occ(tasks'[x], Sent) = Occ(tasks[x], Sent) + (IF e \in Sent THEN 1 ELSE 0)
      BY <3>1, <3>2, <3>3, OccReplace
    <3> QED
      BY <1>0, <2>2, <3>4
  <2> QED
    BY <2>1, <2>2
<1>5. NoMoreTokens(chan, reports, tasks, chan', reports, tasks')
  BY <1>0, <1>3, <1>4 DEF NoMoreTokens
<1>6. Tokens(chan', reports, tasks')
  BY <1>1, <1>5, TokensFrame DEF TokensInv
<1> QED
  BY <1>2, <1>6 DEF TokensInv

\* The end of handleReport: one request to each follower, for one task done.
LEMMA TokensHandleReport ==
    ASSUME TypeOK, TypeOK', TokensInv, NEW x \in Node, NEW k \in 1..Len(tasks[x]),
           handleReportEnds(x, k)
    PROVE  TokensInv'
<1> DEFINE m == Message("ReportReq", leader[x], tasks[x][k].om)
<1>1. /\ chan \in Streams /\ reports \in ReportLists /\ tasks \in TaskLists
      /\ chan' \in Streams /\ tasks' \in TaskLists
  BY StepTypes
<1>0. \A l, q \in Node :
          /\ Occ(chan[l][q], Requests) \in Nat /\ Occ(chan[l][q], Answers) \in Nat
          /\ Occ(reports[l], By(q)) \in Nat /\ Occ(tasks[l], Sent) \in Nat
  BY StepTypes
<1>2. /\ reports' = reports /\ chan' = BroadcastMsg(chan, x, m)
      /\ tasks[x][k].step = "sleep" /\ tasks' = [tasks EXCEPT ![x][k].step = "done"]
  BY DEF handleReportEnds
<1>3. tasks[x] \in Seq(Task) /\ tasks[x][k] \in Task
  BY <1>1 DEF TaskLists
<1>4. m \in Msg /\ m \notin Answers
  BY <1>3, LeaderAssumption, MessageType DEF MsgType, Task, Message, Answers
<1> HIDE DEF m
<1>5. Occ(tasks'[x], Sent) = Occ(tasks[x], Sent) + 1
  <2> DEFINE e == [tasks[x][k] EXCEPT !.step = "done"]
  <2>1. e \in Task /\ e \in Sent
    BY <1>3 DEF Task, TaskStep, Sent
  <2>2. tasks[x][k] \notin Sent
    BY <1>2 DEF Sent
  <2>3. tasks'[x] = [tasks[x] EXCEPT ![k] = e]
    BY <1>1, <1>2 DEF TaskLists
  <2> HIDE DEF e
  <2> QED
    BY <1>3, <2>1, <2>2, <2>3, OccReplace
<1>6. ASSUME NEW l \in Node, NEW q \in Followers(l)
      PROVE  Occ(chan'[l][q], Requests) + Occ(chan'[q][l], Answers) + Occ(reports[l], By(q))
               <= Occ(tasks'[l], Sent)
  <2>1. q \in Node
    BY DEF Followers
  <2>2. Occ(chan[l][q], Requests) + Occ(chan[q][l], Answers) + Occ(reports[l], By(q))
          <= Occ(tasks[l], Sent)
    BY DEF TokensInv, Tokens
  <2>3. /\ Occ(chan[l][q], Requests) \in Nat /\ Occ(chan[q][l], Answers) \in Nat
        /\ Occ(reports[l], By(q)) \in Nat /\ Occ(tasks[l], Sent) \in Nat
        /\ Occ(chan'[l][q], Requests) \in Nat /\ Occ(chan'[q][l], Answers) \in Nat
    BY <1>1, <2>1, TokenTypes
  <2>4. Occ(chan'[q][l], Answers) <= Occ(chan[q][l], Answers) + 0
    BY <1>1, <1>2, <1>4, <2>1, BroadcastOcc
  <2>5. Occ(chan'[l][q], Requests)
          <= Occ(chan[l][q], Requests) + (IF m \in Requests /\ l = x THEN 1 ELSE 0)
    BY <1>1, <1>2, <1>4, <2>1, BroadcastOcc
  <2>6. CASE l = x
    <3>1. Occ(chan'[l][q], Requests) <= Occ(chan[l][q], Requests) + 1
      BY <2>3, <2>5
    <3>2. Occ(tasks'[l], Sent) = Occ(tasks[l], Sent) + 1
      BY <1>5, <2>6
    <3> QED
      BY <2>2, <2>3, <2>4, <3>1, <3>2
  <2>7. CASE l # x
    <3>1. tasks'[l] = tasks[l]
      BY <1>1, <1>2, <2>7 DEF TaskLists
    <3>2. Occ(chan'[l][q], Requests) <= Occ(chan[l][q], Requests)
      BY <2>3, <2>5, <2>7
    <3>3. Occ(tasks'[l], Sent) = Occ(tasks[l], Sent)
      BY <3>1
    <3> QED
      BY <2>2, <2>3, <2>4, <3>2, <3>3
  <2> QED
    BY <2>6, <2>7
<1>7. Tokens(chan', reports, tasks')
  BY <1>6 DEF Tokens
<1> QED
  BY <1>2, <1>7 DEF TokensInv

\* A message that is taken and answered by nothing, whatever it was.
LEMMA TokensPop ==
    ASSUME TypeOK, TypeOK', TokensInv, NEW x \in Node, NEW y \in Node,
           chan[x][y] # <<>>, chan' = Pop(chan, x, y), reports' = reports,
           \A l \in Node : Occ(tasks[l], Sent) <= Occ(tasks'[l], Sent)
    PROVE  TokensInv'
<1>1. /\ chan \in Streams /\ reports \in ReportLists /\ tasks \in TaskLists
      /\ chan' \in Streams /\ tasks' \in TaskLists
  BY StepTypes
<1>2. /\ \A a, b \in Node : Occ(chan'[a][b], Requests) <= Occ(chan[a][b], Requests)
      /\ \A a, b \in Node : Occ(chan'[a][b], Answers) <= Occ(chan[a][b], Answers)
  BY <1>1, PopOcc
<1>3. \A l, q \in Node : Occ(reports[l], By(q)) \in Nat
  BY StepTypes
<1>4. NoMoreTokens(chan, reports, tasks, chan', reports, tasks')
  BY <1>2, <1>3 DEF NoMoreTokens
<1>5. Tokens(chan', reports, tasks')
  BY <1>1, <1>4, TokensFrame DEF TokensInv
<1> QED
  BY <1>5 DEF TokensInv

\* An observation is asked for or received: a new task is not done.
LEMMA TokensObserve ==
    ASSUME IndInv, TypeOK', TokensInv, NEW x \in Node, NEW y \in Node,
           ObserveReq(x, y) \/ ObserveResp(x, y)
    PROVE  TokensInv'
<1>0. TypeOK
  BY DEF IndInv
<1>1. /\ chan \in Streams /\ reports \in ReportLists /\ tasks \in TaskLists
      /\ chan' \in Streams /\ tasks' \in TaskLists
  BY <1>0, StepTypes
<1>2. chan[x][y] # <<>> /\ reports' = reports
  BY DEF ObserveReq, ObserveResp, Accepts, Arrives, leaderVars
<1>3. \A l, q \in Node :
          /\ Occ(chan[l][q], Requests) \in Nat /\ Occ(chan[l][q], Answers) \in Nat
          /\ Occ(reports[l], By(q)) \in Nat /\ Occ(tasks[l], Sent) \in Nat
  BY <1>0, StepTypes
<1>4. CASE ObserveResp(x, y)
  <2> DEFINE e == [step |-> "grace", om |-> {}]
  <2>1. e \in Task /\ e \notin Sent
    BY DEF Task, TaskStep, Sent
  <2>2. \A l \in Node : tasks'[l] = tasks[l] \/ tasks'[l] = Append(tasks[l], e)
    BY <1>1, <1>4 DEF ObserveResp, TaskLists
  <2> HIDE DEF e
  <2>3. ASSUME NEW l \in Node
        PROVE  Occ(tasks[l], Sent) <= Occ(tasks'[l], Sent)
    <3>1. tasks[l] \in Seq(Task) /\ Occ(tasks[l], Sent) \in Nat
      BY <1>1, <1>3 DEF TaskLists
    <3>2. Occ(Append(tasks[l], e), Sent) = Occ(tasks[l], Sent) + 0
      BY <2>1, <3>1, OccAppend
    <3>3. CASE tasks'[l] = tasks[l]
      BY <3>1, <3>3
    <3>4. CASE tasks'[l] = Append(tasks[l], e)
      BY <3>1, <3>2, <3>4
    <3> QED
      BY <2>2, <3>3, <3>4
  <2>4. chan' = Pop(chan, x, y)
    BY <1>4 DEF ObserveResp
  <2> QED
    BY <1>0, <1>2, <2>3, <2>4, TokensPop
<1>5. CASE ObserveReq(x, y)
  <2> DEFINE m == Message("ObserveResp", leader[y], {})
             c == Pop(chan, x, y)
  <2>1. m \in Msg /\ m \notin Requests /\ m \notin Answers
    BY LeaderAssumption, MessageType DEF MsgType, Message, Requests, Answers
  <2>2. chan' = SendMsg(c, y, leader[y], m) /\ tasks' = tasks
    BY <1>5 DEF ObserveReq, leaderVars
  <2>3. c \in Streams
    BY <1>1, <1>2, PopType
  <2>4. /\ \A a, b \in Node : Occ(c[a][b], Requests) <= Occ(chan[a][b], Requests)
        /\ \A a, b \in Node : Occ(c[a][b], Answers) <= Occ(chan[a][b], Answers)
    BY <1>1, <1>2, PopOcc
  <2> HIDE DEF m, c
  <2>5. ASSUME NEW a \in Node, NEW b \in Node
        PROVE  /\ Occ(chan'[a][b], Requests) <= Occ(chan[a][b], Requests)
               /\ Occ(chan'[a][b], Answers) <= Occ(chan[a][b], Answers)
    <3>1. /\ Occ(chan'[a][b], Requests) <= Occ(c[a][b], Requests)
          /\ Occ(chan'[a][b], Answers) <= Occ(c[a][b], Answers)
      BY <2>1, <2>2, <2>3, SendOcc
    <3>2. Occ(c[a][b], Requests) \in Nat /\ Occ(c[a][b], Answers) \in Nat
      BY <1>1, <2>3, TokenTypes
    <3>3. Occ(chan'[a][b], Requests) \in Nat /\ Occ(chan'[a][b], Answers) \in Nat
      BY <1>1, TokenTypes
    <3>4. Occ(chan[a][b], Requests) \in Nat /\ Occ(chan[a][b], Answers) \in Nat
      BY <1>3
    <3>5. /\ Occ(c[a][b], Requests) <= Occ(chan[a][b], Requests)
          /\ Occ(c[a][b], Answers) <= Occ(chan[a][b], Answers)
      BY <2>4
    <3> QED
      BY <3>1, <3>2, <3>3, <3>4, <3>5
  <2>6. NoMoreTokens(chan, reports, tasks, chan', reports, tasks)
    BY <1>3, <2>5 DEF NoMoreTokens
  <2>7. Tokens(chan', reports, tasks)
    BY <1>1, <2>6, TokensFrame DEF TokensInv
  <2> QED
    BY <1>2, <2>2, <2>7 DEF TokensInv
<1> QED
  BY <1>4, <1>5

\* A request becomes an answer to the leader that sent it.
LEMMA TokensReportReq ==
    ASSUME IndInv, TypeOK', TokensInv, NEW x \in Node, NEW y \in Node, ReportReq(x, y)
    PROVE  TokensInv'
<1> DEFINE m == Message("ReportRes", leader[y], {})
           c == Pop(chan, x, y)
<1>0. TypeOK
  BY DEF IndInv
<1>1. /\ chan \in Streams /\ reports \in ReportLists /\ tasks \in TaskLists
      /\ chan' \in Streams
  BY <1>0, StepTypes
<1>2. /\ reports' = reports /\ tasks' = tasks /\ chan' = SendMsg(c, y, leader[y], m)
      /\ Accepts(x, y, "ReportReq")
  BY DEF ReportReq, leaderVars
<1>3. /\ chan[x][y] # <<>> /\ Head(chan[x][y]) \in Elems(chan[x][y])
      /\ Head(chan[x][y]).type = "ReportReq" /\ Head(chan[x][y]).leader = leader[y]
  BY <1>2, AcceptedMessage DEF MsgType
<1>4. leader[y] = x
  BY <1>3 DEF IndInv, MessagesInv
<1>5. Head(chan[x][y]) \in Requests
  <2>1. chan[x][y] \in Seq(Msg)
    BY <1>1 DEF Streams
  <2> QED
    BY <1>3, <2>1 DEF Requests
<1>6. m \in Msg /\ m \notin Requests
  BY LeaderAssumption, MessageType DEF MsgType, Message, Requests
<1>7. c \in Streams
  BY <1>1, <1>3, PopType
<1>8. /\ \A a, b \in Node : Occ(c[a][b], Requests) <= Occ(chan[a][b], Requests)
      /\ \A a, b \in Node : Occ(c[a][b], Answers) <= Occ(chan[a][b], Answers)
      /\ Occ(c[x][y], Requests) + 1 <= Occ(chan[x][y], Requests)
  BY <1>1, <1>3, <1>5, PopOcc
<1> HIDE DEF m, c
<1>9. ASSUME NEW l \in Node, NEW q \in Followers(l)
      PROVE  Occ(chan'[l][q], Requests) + Occ(chan'[q][l], Answers) + Occ(reports[l], By(q))
               <= Occ(tasks[l], Sent)
  <2>1. q \in Node /\ leader[q] = l
    BY DEF Followers
  <2>2. Occ(chan[l][q], Requests) + Occ(chan[q][l], Answers) + Occ(reports[l], By(q))
          <= Occ(tasks[l], Sent)
    BY DEF TokensInv, Tokens
  <2>3. /\ Occ(chan[l][q], Requests) \in Nat /\ Occ(chan[q][l], Answers) \in Nat
        /\ Occ(reports[l], By(q)) \in Nat /\ Occ(tasks[l], Sent) \in Nat
    BY <1>1, <2>1, TokenTypes
  <2>4. /\ Occ(c[l][q], Requests) \in Nat /\ Occ(c[q][l], Answers) \in Nat
        /\ Occ(chan'[l][q], Requests) \in Nat /\ Occ(chan'[q][l], Answers) \in Nat
    BY <1>1, <1>7, <2>1, TokenTypes
  <2>5. Occ(chan'[l][q], Requests) <= Occ(c[l][q], Requests)
    BY <1>2, <1>6, <1>7, <2>1, SendOcc
  <2>6. /\ q = y => Occ(chan'[q][l], Answers) <= Occ(c[q][l], Answers) + 1
        /\ q # y => Occ(chan'[q][l], Answers) <= Occ(c[q][l], Answers)
    <3>1. Occ(chan'[q][l], Answers) <= Occ(c[q][l], Answers) + 1
      BY <1>2, <1>6, <1>7, <2>1, SendOcc
    <3>2. ASSUME q # y PROVE Occ(chan'[q][l], Answers) <= Occ(c[q][l], Answers)
      BY <1>2, <1>6, <1>7, <2>1, <3>2, SendOcc
    <3> QED
      BY <3>1, <3>2
  <2>7. /\ Occ(c[l][q], Requests) <= Occ(chan[l][q], Requests)
        /\ Occ(c[q][l], Answers) <= Occ(chan[q][l], Answers)
    BY <1>8, <2>1
  <2>8. CASE q = y
    <3>1. l = x
      BY <1>4, <2>1, <2>8
    <3>2. Occ(c[l][q], Requests) + 1 <= Occ(chan[l][q], Requests)
      BY <1>8, <2>8, <3>1
    <3>3. Occ(chan'[q][l], Answers) <= Occ(c[q][l], Answers) + 1
      BY <2>6, <2>8
    <3> QED
      BY <2>2, <2>3, <2>4, <2>5, <2>7, <3>2, <3>3
  <2>9. CASE q # y
    <3>1. Occ(chan'[q][l], Answers) <= Occ(c[q][l], Answers)
      BY <2>6, <2>9
    <3> QED
      BY <2>2, <2>3, <2>4, <2>5, <2>7, <3>1
  <2> QED
    BY <2>8, <2>9
<1>10. Tokens(chan', reports, tasks)
  BY <1>9 DEF Tokens
<1> QED
  BY <1>2, <1>10 DEF TokensInv

\* An answer becomes a report of the follower it came from.
LEMMA TokensReportRes ==
    ASSUME IndInv, TypeOK', TokensInv, NEW x \in Node, NEW y \in Node, ReportRes(x, y)
    PROVE  TokensInv'
<1>0. TypeOK
  BY DEF IndInv
<1>1. /\ chan \in Streams /\ reports \in ReportLists /\ tasks \in TaskLists
      /\ chan' \in Streams /\ reports' \in ReportLists
  BY <1>0, StepTypes
<1>2. /\ reports' = [reports EXCEPT ![y] = Append(@, x)] /\ tasks' = tasks
      /\ chan' = Pop(chan, x, y) /\ Accepts(x, y, "ReportRes")
  BY DEF ReportRes
<1>3. chan[x][y] # <<>> /\ Head(chan[x][y]).type = "ReportRes"
  BY <1>2 DEF Accepts, Arrives
<1>4. Head(chan[x][y]) \in Answers
  <2>1. chan[x][y] \in Seq(Msg)
    BY <1>1 DEF Streams
  <2> QED
    BY <1>3, <2>1 DEF Answers
<1>5. /\ \A a, b \in Node : Occ(chan'[a][b], Requests) <= Occ(chan[a][b], Requests)
      /\ \A a, b \in Node : Occ(chan'[a][b], Answers) <= Occ(chan[a][b], Answers)
      /\ Occ(chan'[x][y], Answers) + 1 <= Occ(chan[x][y], Answers)
  BY <1>1, <1>2, <1>3, <1>4, PopOcc
<1>6. ASSUME NEW l \in Node, NEW q \in Followers(l)
      PROVE  Occ(chan'[l][q], Requests) + Occ(chan'[q][l], Answers) + Occ(reports'[l], By(q))
               <= Occ(tasks[l], Sent)
  <2>1. q \in Node
    BY DEF Followers
  <2>2. Occ(chan[l][q], Requests) + Occ(chan[q][l], Answers) + Occ(reports[l], By(q))
          <= Occ(tasks[l], Sent)
    BY DEF TokensInv, Tokens
  <2>3. /\ Occ(chan[l][q], Requests) \in Nat /\ Occ(chan[q][l], Answers) \in Nat
        /\ Occ(reports[l], By(q)) \in Nat /\ Occ(tasks[l], Sent) \in Nat
    BY <1>1, <2>1, TokenTypes
  <2>4. /\ Occ(chan'[l][q], Requests) \in Nat /\ Occ(chan'[q][l], Answers) \in Nat
        /\ Occ(reports'[l], By(q)) \in Nat
    BY <1>1, <2>1, TokenTypes
  <2>5. /\ Occ(chan'[l][q], Requests) <= Occ(chan[l][q], Requests)
        /\ Occ(chan'[q][l], Answers) <= Occ(chan[q][l], Answers)
    BY <1>5, <2>1
  <2>6. reports[l] \in Seq(Node \cup {NoId}) /\ x \in Node \cup {NoId}
    BY <1>1 DEF ReportLists
  <2>7. CASE l = y
    <3>1. reports'[l] = Append(reports[l], x)
      BY <1>1, <1>2, <2>7 DEF ReportLists
    <3>2. Occ(reports'[l], By(q)) = Occ(reports[l], By(q)) + (IF x \in By(q) THEN 1 ELSE 0)
      BY <2>6, <3>1, OccAppend
    <3>3. CASE q = x
      <4>1. Occ(chan'[q][l], Answers) + 1 <= Occ(chan[q][l], Answers)
        BY <1>5, <2>7, <3>3
      <4>2. Occ(reports'[l], By(q)) <= Occ(reports[l], By(q)) + 1
        BY <2>3, <3>2
      <4> QED
        BY <2>2, <2>3, <2>4, <2>5, <4>1, <4>2
    <3>4. CASE q # x
      <4>1. Occ(reports'[l], By(q)) = Occ(reports[l], By(q))
        BY <2>3, <3>2, <3>4 DEF By
      <4> QED
        BY <2>2, <2>3, <2>4, <2>5, <4>1
    <3> QED
      BY <3>3, <3>4
  <2>8. CASE l # y
    <3>1. reports'[l] = reports[l]
      BY <1>1, <1>2, <2>8 DEF ReportLists
    <3>2. Occ(reports'[l], By(q)) = Occ(reports[l], By(q))
      BY <3>1
    <3> QED
      BY <2>2, <2>3, <2>4, <2>5, <3>2
  <2> QED
    BY <2>7, <2>8
<1>7. Tokens(chan', reports', tasks)
  BY <1>6 DEF Tokens
<1> QED
  BY <1>2, <1>7 DEF TokensInv

\* A task is added only for a response past the quorum.
LEMMA TaskCountNext ==
    ASSUME TypeOK, TypeOK', TaskCountInv, [Next]_vars
    PROVE  TaskCountInv'
<1> USE GlobalsAssumption
<1>1. /\ tasks \in TaskLists /\ observe_n \in [Node -> Nat]
      /\ \A l \in Node : tasks[l] \in Seq(Task) /\ Len(tasks[l]) \in Nat
  <2>1. tasks \in TaskLists /\ observe_n \in [Node -> Nat]
    BY DEF TypeOK, TaskLists
  <2>2. \A l \in Node : tasks[l] \in Seq(Task)
    BY <2>1 DEF TaskLists
  <2> QED
    BY <2>1, <2>2
<1>2. ASSUME UNCHANGED <<tasks, observe_n>>
      PROVE  TaskCountInv'
  BY <1>2 DEF TaskCountInv
<1>3. ASSUME NEW x \in Node, StartUp(x) \/ StartPanics(x)
      PROVE  TaskCountInv'
  BY <1>2, <1>3 DEF StartUp, StartPanics, initReporter, StartLeader, StartFollower, SetReady,
     leaderVars
<1>4. ASSUME NEW x \in Node, HandlePhase(x)
      PROVE  TaskCountInv'
  <2>1. CASE handleObserve(x) \/ handleObserveEnds(x)
    BY <1>2, <2>1 DEF handleObserve, handleObserveEnds
  <2>2. ASSUME NEW k \in DOMAIN tasks[x],
               handleGrace(x, k) \/ broadcastObservationMap(x, k) \/ handleReportEnds(x, k)
        PROVE  TaskCountInv'
    <3>1. observe_n' = observe_n /\ tasks'[x] \in Seq(Task)
      BY <2>2 DEF handleGrace, broadcastObservationMap, handleReportEnds, TypeOK
    <3>2. \A l \in Node \ {x} : tasks'[l] = tasks[l]
      BY <1>1, <2>2 DEF handleGrace, broadcastObservationMap, handleReportEnds, TaskLists
    <3>3. \E e : tasks'[x] = [tasks[x] EXCEPT ![k] = e]
      BY <1>1, <2>2 DEF handleGrace, broadcastObservationMap, handleReportEnds, TaskLists
    <3>4. DOMAIN tasks'[x] = DOMAIN tasks[x]
      BY <3>3
    <3>5. Len(tasks'[x]) = Len(tasks[x])
      BY <1>1, <3>1, <3>4
    <3>6. tasks[x] # <<>>
      BY <2>2
    <3>7. ASSUME NEW l \in Node
          PROVE  tasks'[l] = <<>> \/ Len(tasks'[l]) + 2 * f + 1 <= observe_n[l]
      BY <3>2, <3>5, <3>6 DEF TaskCountInv
    <3> QED
      BY <3>1, <3>7 DEF TaskCountInv
  <2> QED
    BY <1>4, <2>1, <2>2 DEF HandlePhase
<1>5. ASSUME NEW x \in Node, NEW y \in Node, ProcessMessage(x, y) \/ Lose(x, y)
      PROVE  TaskCountInv'
  <2>1. CASE ObserveResp(x, y)
    <3> DEFINE e == [step |-> "grace", om |-> {}]
    <3>1. /\ observe_n'[y] = observe_n[y] + 1
          /\ \A l \in Node \ {y} : observe_n'[l] = observe_n[l] /\ tasks'[l] = tasks[l]
      BY <1>1, <2>1 DEF ObserveResp, TaskLists
    <3>2. \/ tasks'[y] = tasks[y]
          \/ observe_n[y] + 1 > 2 * f + 1 /\ tasks'[y] = Append(tasks[y], e)
      BY <1>1, <2>1 DEF ObserveResp, ObserveQuorum, TaskLists
    <3>3. e \in Task
      BY DEF Task, TaskStep
    <3> HIDE DEF e
    <3>4. Len(Append(tasks[y], e)) = Len(tasks[y]) + 1 /\ Len(<<>>) = 0
      BY <1>1, <3>3
    <3>5. tasks[y] = <<>> \/ Len(tasks[y]) + 2 * f + 1 <= observe_n[y]
      BY DEF TaskCountInv
    <3>6. observe_n[y] \in Nat /\ Len(tasks[y]) \in Nat
      BY <1>1
    <3>7. tasks'[y] = <<>> \/ Len(tasks'[y]) + 2 * f + 1 <= observe_n'[y]
      <4>1. PICK i \in Nat : i = Len(tasks[y])
        BY <3>6
      <4>2. PICK j \in Nat : j = observe_n[y]
        BY <3>6
      <4>3. PICK d \in Nat : d = 2 * f
        OBVIOUS
      <4>4. tasks[y] = <<>> \/ i + d + 1 <= j
        BY <3>5, <4>1, <4>2, <4>3
      <4>5. CASE tasks'[y] = tasks[y]
        <5>1. tasks'[y] = <<>> \/ i + d + 1 <= j + 1
          BY <4>4, <4>5
        <5> QED
          BY <3>1, <4>1, <4>2, <4>3, <4>5, <5>1
      <4>6. CASE observe_n[y] + 1 > 2 * f + 1 /\ tasks'[y] = Append(tasks[y], e)
        <5>1. j + 1 > d + 1 /\ Len(tasks'[y]) = i + 1
          BY <3>4, <4>1, <4>2, <4>3, <4>6
        <5>2. i = 0 \/ i + d + 1 <= j
          BY <3>4, <4>1, <4>4
        <5>3. (i + 1) + d + 1 <= j + 1
          BY <5>1, <5>2
        <5> QED
          BY <3>1, <4>2, <4>3, <5>1, <5>3
      <4> QED
        BY <3>2, <4>5, <4>6
    <3> QED
      BY <3>1, <3>7 DEF TaskCountInv
  <2>2. CASE ~ObserveResp(x, y)
    BY <1>2, <1>5, <2>2 DEF ProcessMessage, RejectNotReady, BlockOnMutex, PrecheckFails,
       ObserveReq, BroadcastObservationMap, ReportReq, ReportReqMismatch, ReportRes, Lose,
       leaderVars
  <2> QED
    BY <2>1, <2>2
<1>6. CASE UNCHANGED vars
  BY <1>2, <1>6 DEF vars
<1> QED
  BY <1>3, <1>4, <1>5, <1>6 DEF Next

\* Every step of every node and of the network keeps the tokens bounded.
LEMMA TokensNext ==
    ASSUME IndInv, TokensInv, [Next]_vars
    PROVE  TokensInv'
<1>1. TypeOK /\ TypeOK'
  BY TypeNext DEF IndInv
<1>2. ASSUME NEW x \in Node, StartUp(x) \/ StartPanics(x) \/ HandlePhase(x)
      PROVE  TokensInv'
  <2>1. \A k \in DOMAIN tasks[x] : k \in 1..Len(tasks[x])
    BY <1>1 DEF TypeOK
  <2> QED
    BY <1>1, <1>2, <2>1, TokensStartUp, TokensHandleObserve, TokensMarshal,
       TokensHandleReport DEF HandlePhase
<1>3. ASSUME NEW x \in Node, NEW y \in Node, ProcessMessage(x, y) \/ Lose(x, y)
      PROVE  TokensInv'
  <2>1. CASE \/ RejectNotReady(x, y) \/ BlockOnMutex(x, y) \/ PrecheckFails(x, y)
             \/ BroadcastObservationMap(x, y) \/ ReportReqMismatch(x, y) \/ Lose(x, y)
    <3>1. /\ chan[x][y] # <<>> /\ chan' = Pop(chan, x, y)
          /\ reports' = reports /\ tasks' = tasks
      BY <2>1 DEF RejectNotReady, BlockOnMutex, PrecheckFails, BroadcastObservationMap,
         ReportReqMismatch, Lose, Accepts, Arrives, leaderVars
    <3>2. \A l \in Node : Occ(tasks[l], Sent) \in Nat
      BY <1>1, StepTypes
    <3>3. \A l \in Node : Occ(tasks[l], Sent) <= Occ(tasks'[l], Sent)
      BY <3>1, <3>2
    <3> QED
      BY <1>1, <3>1, <3>3, TokensPop
  <2> QED
    BY <1>1, <1>3, <2>1, TokensObserve, TokensReportReq, TokensReportRes DEF ProcessMessage
<1>4. CASE UNCHANGED vars
  BY <1>4 DEF vars, TokensInv
<1> QED
  BY <1>2, <1>3, <1>4 DEF Next

\* However often the leader broadcasts REPORT-REQ, and whatever is lost, no
\* follower is in re.reports more often than that, and there is at most one
\* handleReport for each response past the quorum.
THEOREM OneReportPerRequest == Spec => []ReportsPerRequest
<1>1. TypeOK /\ TokensInv /\ TaskCountInv => ReportsPerRequest
  <2> SUFFICES ASSUME TypeOK, TokensInv, TaskCountInv PROVE ReportsPerRequest
    OBVIOUS
  <2>1. chan \in Streams /\ reports \in ReportLists /\ tasks \in TaskLists
    BY ListTypes
  <2>2. ASSUME NEW l \in Node, NEW q \in Followers(l)
        PROVE  Cardinality({i \in DOMAIN reports[l] : reports[l][i] = q})
                 =< Cardinality({k \in DOMAIN tasks[l] : tasks[l][k].step = "done"})
    <3>1. q \in Node
      BY DEF Followers
    <3>2. Occ(chan[l][q], Requests) + Occ(chan[q][l], Answers) + Occ(reports[l], By(q))
            <= Occ(tasks[l], Sent)
      BY DEF TokensInv, Tokens
    <3>3. /\ Occ(chan[l][q], Requests) \in Nat /\ Occ(chan[q][l], Answers) \in Nat
          /\ Occ(reports[l], By(q)) \in Nat /\ Occ(tasks[l], Sent) \in Nat
      BY <2>1, <3>1, TokenTypes
    <3>4. Occ(reports[l], By(q)) <= Occ(tasks[l], Sent)
      BY <3>2, <3>3
    <3>5. Places(reports[l], By(q)) = {i \in DOMAIN reports[l] : reports[l][i] = q}
      BY DEF Places, By
    <3>6. Places(tasks[l], Sent) = {k \in DOMAIN tasks[l] : tasks[l][k].step = "done"}
      <4>1. \A k \in DOMAIN tasks[l] : tasks[l][k] \in Task
        BY <2>1 DEF TaskLists
      <4> QED
        BY <4>1 DEF Places, Sent
    <3> QED
      BY <3>4, <3>5, <3>6 DEF Occ
  <2> QED
    BY <2>2 DEF ReportsPerRequest, TaskCountInv
<1>2. IndInv /\ TokensInv /\ TaskCountInv /\ [Next]_vars => (TokensInv /\ TaskCountInv)'
  BY TypeNext, TokensNext, TaskCountNext DEF IndInv
<1>3. IndInv => TypeOK
  BY DEF IndInv
<1> QED
  BY <1>1, <1>2, <1>3, Invariance, TokensInit, PTL DEF Spec

----------------------------------------------------------------------------
(***************************************************************************)
(* A round that rests is complete: what a follower will answer.            *)
(*                                                                         *)
(* A stream is read in order, so what matters of it is its last map: with  *)
(* that one, or without any with the cached map, WillHold says which map   *)
(* the follower has after reading, and WillAsk that a request for om comes *)
(* behind it.  A report is due when the map that will be held is asked for *)
(* in the stream, or will be by a task that is still asleep.               *)
(***************************************************************************)
IsMap(m) == m.type = "BroadcastObservationMap"
NoMapAfter(c, i) == \A j \in 1..Len(c) : j > i => ~IsMap(c[j])
WillHold(c, cache, om) ==
    \/ NoMapAfter(c, 0) /\ cache = om
    \/ \E i \in 1..Len(c) : IsMap(c[i]) /\ c[i].om = om /\ NoMapAfter(c, i)
WillAsk(c, om) ==
    \E i \in 1..Len(c) : c[i].type = "ReportReq" /\ c[i].om = om /\ NoMapAfter(c, i)
Due(c, cache, S) ==
    \E om \in SUBSET Node : WillHold(c, cache, om) /\ (om \in S \/ WillAsk(c, om))

\* The places of a stream move up by one when its first message is taken.
LEMMA TailPlaces ==
    ASSUME NEW c \in Seq(Msg), c # <<>>
    PROVE  /\ Head(c) = c[1] /\ 1 \in 1..Len(c)
           /\ \A i \in 1..Len(c) : i # 1 =>
                  i - 1 \in 1..Len(Tail(c)) /\ Tail(c)[i - 1] = c[i]
           /\ \A i \in 1..Len(c) : NoMapAfter(c, i) => NoMapAfter(Tail(c), i - 1)
           /\ NoMapAfter(c, 0) => NoMapAfter(Tail(c), 0) /\ ~IsMap(c[1])
<1>1. /\ Len(c) \in Nat \ {0} /\ Len(Tail(c)) = Len(c) - 1
      /\ \A i \in 1..Len(Tail(c)) : Tail(c)[i] = c[i + 1]
      /\ Head(c) = c[1]
  OBVIOUS
<1>2. \A i \in 1..Len(Tail(c)) : i + 1 \in 1..Len(c)
  BY <1>1
<1>3. \A i \in 1..Len(c) : i # 1 => i - 1 \in 1..Len(Tail(c)) /\ (i - 1) + 1 = i
  BY <1>1
<1>4. 1 \in 1..Len(c)
  BY <1>1
<1>5. \A i \in 1..Len(c) : i # 1 => Tail(c)[i - 1] = c[i]
  BY <1>1, <1>3
<1>6. ASSUME NEW i \in 1..Len(c), NoMapAfter(c, i)
      PROVE  NoMapAfter(Tail(c), i - 1)
  BY <1>1, <1>2, <1>6 DEF NoMapAfter
<1>7. ASSUME NoMapAfter(c, 0)
      PROVE  NoMapAfter(Tail(c), 0) /\ ~IsMap(c[1])
  BY <1>1, <1>2, <1>4, <1>7 DEF NoMapAfter
<1> QED
  BY <1>1, <1>3, <1>4, <1>5, <1>6, <1>7

\* A message that is no map leaves what will be held behind it, ...
LEMMA HoldTail ==
    ASSUME NEW c \in Seq(Msg), c # <<>>, ~IsMap(Head(c)), NEW cache, NEW om,
           WillHold(c, cache, om)
    PROVE  WillHold(Tail(c), cache, om)
<1>1. CASE NoMapAfter(c, 0) /\ cache = om
  BY <1>1, TailPlaces DEF WillHold
<1>2. ASSUME NEW i \in 1..Len(c), IsMap(c[i]), c[i].om = om, NoMapAfter(c, i)
      PROVE  WillHold(Tail(c), cache, om)
  <2>1. i # 1
    BY <1>2, TailPlaces
  <2>2. /\ i - 1 \in 1..Len(Tail(c)) /\ Tail(c)[i - 1] = c[i]
        /\ NoMapAfter(Tail(c), i - 1)
    BY <1>2, <2>1, TailPlaces
  <2> QED
    BY <1>2, <2>2 DEF WillHold
<1> QED
  BY <1>1, <1>2 DEF WillHold

\* ... and a map that is taken is the one held, unless another follows it.
LEMMA HoldMap ==
    ASSUME NEW c \in Seq(Msg), c # <<>>, IsMap(Head(c)), NEW cache, NEW om,
           WillHold(c, cache, om)
    PROVE  WillHold(Tail(c), Head(c).om, om)
<1>1. PICK i \in 1..Len(c) : IsMap(c[i]) /\ c[i].om = om /\ NoMapAfter(c, i)
  BY TailPlaces DEF WillHold
<1>2. CASE i = 1
  <2>1. NoMapAfter(Tail(c), i - 1)
    BY <1>1, TailPlaces
  <2>2. i - 1 = 0
    BY <1>2
  <2>3. Head(c).om = om
    BY <1>1, <1>2, TailPlaces
  <2> QED
    BY <2>1, <2>2, <2>3 DEF WillHold
<1>3. CASE i # 1
  <2>2. /\ i - 1 \in 1..Len(Tail(c)) /\ Tail(c)[i - 1] = c[i]
        /\ NoMapAfter(Tail(c), i - 1)
    BY <1>1, <1>3, TailPlaces
  <2> QED
    BY <1>1, <2>2 DEF WillHold
<1> QED
  BY <1>2, <1>3

\* A request for om stays in the stream unless it is the one that is taken.
LEMMA AskTail ==
    ASSUME NEW c \in Seq(Msg), c # <<>>, NEW om, WillAsk(c, om)
    PROVE  \/ WillAsk(Tail(c), om)
           \/ /\ Head(c).type = "ReportReq" /\ Head(c).om = om
              /\ NoMapAfter(c, 0)
<1>1. PICK i \in 1..Len(c) : c[i].type = "ReportReq" /\ c[i].om = om /\ NoMapAfter(c, i)
  BY DEF WillAsk
<1>2. CASE i = 1
  <2>1. c[1].type = "ReportReq" /\ c[1].om = om /\ Head(c) = c[1]
    BY <1>1, <1>2, TailPlaces
  <2>2. ~IsMap(c[1])
    BY <2>1 DEF IsMap
  <2>3. NoMapAfter(c, 0)
    BY <1>1, <1>2, <2>2 DEF NoMapAfter
  <2> QED
    BY <2>1, <2>3
<1>3. CASE i # 1
  <2>2. /\ i - 1 \in 1..Len(Tail(c)) /\ Tail(c)[i - 1] = c[i]
        /\ NoMapAfter(Tail(c), i - 1)
    BY <1>1, <1>3, TailPlaces
  <2> QED
    BY <1>1, <2>2 DEF WillAsk
<1> QED
  BY <1>2, <1>3

\* A report that is due stays due when a message is taken, unless that is the
\* request for the very map the follower holds.
LEMMA DueTail ==
    ASSUME NEW c \in Seq(Msg), c # <<>>, ~IsMap(Head(c)), NEW cache, NEW S,
           Due(c, cache, S)
    PROVE  \/ Due(Tail(c), cache, S)
           \/ Head(c).type = "ReportReq" /\ Head(c).om = cache
<1>1. PICK om \in SUBSET Node : WillHold(c, cache, om) /\ (om \in S \/ WillAsk(c, om))
  BY DEF Due
<1>2. WillHold(Tail(c), cache, om)
  BY <1>1, HoldTail
<1>3. CASE om \in S \/ WillAsk(Tail(c), om)
  BY <1>2, <1>3 DEF Due
<1>4. CASE om \notin S /\ ~WillAsk(Tail(c), om)
  <2>1. Head(c).type = "ReportReq" /\ Head(c).om = om /\ NoMapAfter(c, 0)
    BY <1>1, <1>4, AskTail
  <2>2. cache = om
    <3>1. \A i \in 1..Len(c) : i > 0 /\ ~IsMap(c[i])
      BY <2>1 DEF NoMapAfter
    <3> QED
      BY <1>1, <3>1 DEF WillHold
  <2> QED
    BY <2>1, <2>2
<1> QED
  BY <1>3, <1>4

\* Taking a map caches it, and what is due stays due.
LEMMA DueMap ==
    ASSUME NEW c \in Seq(Msg), c # <<>>, IsMap(Head(c)), NEW cache, NEW S,
           Due(c, cache, S)
    PROVE  Due(Tail(c), Head(c).om, S)
<1>1. PICK om \in SUBSET Node : WillHold(c, cache, om) /\ (om \in S \/ WillAsk(c, om))
  BY DEF Due
<1>2. WillHold(Tail(c), Head(c).om, om)
  BY <1>1, HoldMap
<1>3. om \in S \/ WillAsk(Tail(c), om)
  BY <1>1, AskTail DEF IsMap
<1> QED
  BY <1>2, <1>3 DEF Due

\* The places of a stream stay when a message is appended.
LEMMA AppendPlaces ==
    ASSUME NEW c \in Seq(Msg), NEW m \in Msg
    PROVE  /\ \A i \in 1..Len(c) : i \in 1..Len(Append(c, m)) /\ Append(c, m)[i] = c[i]
           /\ Len(c) + 1 \in 1..Len(Append(c, m)) /\ Append(c, m)[Len(c) + 1] = m
           /\ NoMapAfter(Append(c, m), Len(c) + 1)
           /\ ~IsMap(m) => \A i \in 0..Len(c) :
                  NoMapAfter(c, i) => NoMapAfter(Append(c, m), i)
<1>1. /\ Len(c) \in Nat
      /\ Len(Append(c, m)) = Len(c) + 1
      /\ \A i \in 1..Len(c) : Append(c, m)[i] = c[i]
      /\ Append(c, m)[Len(c) + 1] = m
  OBVIOUS
<1>2. 1..Len(Append(c, m)) = 1..Len(c) \cup {Len(c) + 1}
  BY <1>1
<1>3. NoMapAfter(Append(c, m), Len(c) + 1)
  BY <1>1 DEF NoMapAfter
<1>4. ASSUME ~IsMap(m), NEW i \in 0..Len(c), NoMapAfter(c, i)
      PROVE  NoMapAfter(Append(c, m), i)
  BY <1>1, <1>2, <1>4 DEF NoMapAfter
<1> QED
  BY <1>1, <1>2, <1>3, <1>4

\* Sending a message that is no map changes nothing, and a task that wakes up
\* leaves a request for its map.
LEMMA DueAppend ==
    ASSUME NEW c \in Seq(Msg), NEW m \in Msg, ~IsMap(m), NEW cache, NEW S, NEW T,
           Due(c, cache, S),
           \A om \in S : om \in T \/ (m.type = "ReportReq" /\ m.om = om)
    PROVE  Due(Append(c, m), cache, T)
<1> DEFINE d == Append(c, m)
<1>0. /\ \A i \in 1..Len(c) : i \in 1..Len(d) /\ d[i] = c[i]
      /\ Len(c) + 1 \in 1..Len(d) /\ d[Len(c) + 1] = m
      /\ NoMapAfter(d, Len(c) + 1)
      /\ \A i \in 0..Len(c) : NoMapAfter(c, i) => NoMapAfter(d, i)
  BY AppendPlaces
<1> HIDE DEF d
<1>1. PICK om \in SUBSET Node : WillHold(c, cache, om) /\ (om \in S \/ WillAsk(c, om))
  BY DEF Due
<1>2. Len(c) \in Nat /\ 0 \in 0..Len(c) /\ \A i \in 1..Len(c) : i \in 0..Len(c)
  OBVIOUS
<1>3. WillHold(d, cache, om)
  BY <1>0, <1>1, <1>2 DEF WillHold
<1>4. WillAsk(c, om) => WillAsk(d, om)
  BY <1>0, <1>2 DEF WillAsk
<1>5. m.type = "ReportReq" /\ m.om = om => WillAsk(d, om)
  BY <1>0 DEF WillAsk
<1>6. Due(d, cache, T)
  BY <1>1, <1>3, <1>4, <1>5 DEF Due
<1> QED
  BY <1>6 DEF d

\* A map that is sent will be held, and its task asks for it later.
LEMMA DueBroadcast ==
    ASSUME NEW c \in Seq(Msg), NEW m \in Msg, IsMap(m), NEW cache, NEW S, m.om \in S
    PROVE  Due(Append(c, m), cache, S)
<1>1. WillHold(Append(c, m), cache, m.om)
  BY AppendPlaces DEF WillHold
<1>2. m.om \in SUBSET Node
  BY DEF Msg
<1> QED
  BY <1>1, <1>2 DEF Due

\* What is due stays due when more tasks sleep.
LEMMA DueMonotone ==
    ASSUME NEW c, NEW cache, NEW S, NEW T, S \subseteq T, Due(c, cache, S)
    PROVE  Due(c, cache, T)
BY DEF Due

\* Taking a message of another type leaves those of type t.
LEMMA CarriesTail ==
    ASSUME NEW s \in Seq(Msg), s # <<>>, NEW t, Carries(s, t), Head(s).type # t
    PROVE  Carries(Tail(s), t)
<1>1. PICK i \in 1..Len(s) : s[i].type = t
  BY DEF Carries, Elems
<1>2. i # 1
  BY <1>1, TailPlaces
<1>3. i - 1 \in 1..Len(Tail(s)) /\ Tail(s)[i - 1] = s[i]
  BY <1>2, TailPlaces
<1> QED
  BY <1>1, <1>3 DEF Carries, Elems

(***************************************************************************)
(* The maps of a leader's tasks.                                           *)
(***************************************************************************)
MapSent(ts) == \E k \in 1..Len(ts) : ts[k].step \in {"sleep", "done"}
Sleeping(ts) == {ts[k].om : k \in {j \in 1..Len(ts) : ts[j].step = "sleep"}}

\* One task moves on: the others keep their maps, and it has its own.
LEMMA TaskMoves ==
    ASSUME NEW ts \in Seq(Task), NEW k \in 1..Len(ts), NEW t \in Task,
           NEW us, us = [ts EXCEPT ![k] = t]
    PROVE  /\ \A om \in Sleeping(ts) :
                  om \in Sleeping(us) \/ (ts[k].step = "sleep" /\ ts[k].om = om)
           /\ t.step = "sleep" => t.om \in Sleeping(us)
           /\ MapSent(us) => MapSent(ts) \/ t.step \in {"sleep", "done"}
           /\ ts[k].step \in {"sleep", "done"} => MapSent(ts)
<1>1. /\ Len(us) = Len(ts) /\ us[k] = t
      /\ \A j \in 1..Len(ts) : j # k => us[j] = ts[j]
  OBVIOUS
<1>2. ASSUME NEW j \in 1..Len(ts), ts[j].step = "sleep"
      PROVE  ts[j].om \in Sleeping(us) \/ (ts[k].step = "sleep" /\ ts[k].om = ts[j].om)
  BY <1>1, <1>2 DEF Sleeping
<1>3. t.step = "sleep" => t.om \in Sleeping(us)
  BY <1>1 DEF Sleeping
<1>4. MapSent(us) => MapSent(ts) \/ t.step \in {"sleep", "done"}
  BY <1>1 DEF MapSent
<1>5. \A om \in Sleeping(ts) : \E j \in 1..Len(ts) : ts[j].step = "sleep" /\ ts[j].om = om
  BY DEF Sleeping
<1> QED
  BY <1>2, <1>3, <1>4, <1>5 DEF MapSent

\* A new task has no map yet.
LEMMA TaskStarts ==
    ASSUME NEW ts \in Seq(Task), NEW t \in Task, t.step = "grace"
    PROVE  /\ Append(ts, t) # <<>>
           /\ Sleeping(ts) \subseteq Sleeping(Append(ts, t))
           /\ MapSent(Append(ts, t)) => MapSent(ts)
<1>1. /\ Len(ts) \in Nat
      /\ Len(Append(ts, t)) = Len(ts) + 1
      /\ \A i \in 1..Len(ts) : Append(ts, t)[i] = ts[i]
      /\ Append(ts, t)[Len(ts) + 1] = t
  OBVIOUS
<1>2. 1..(Len(ts) + 1) = 1..Len(ts) \cup {Len(ts) + 1}
  BY <1>1
<1>3. Append(ts, t) # <<>>
  BY <1>1
<1>4. Sleeping(ts) \subseteq Sleeping(Append(ts, t))
  BY <1>1, <1>2 DEF Sleeping
<1>5. MapSent(Append(ts, t)) => MapSent(ts)
  BY <1>1, <1>2 DEF MapSent
<1> QED
  BY <1>3, <1>4, <1>5

(***************************************************************************)
(* The invariant of an undisturbed round.  Of every follower q of a leader *)
(* l that has asked for observations, the request, the answer or the       *)
(* observation is somewhere; and as soon as a map has been broadcast, q    *)
(* has reported, its report is on the way, or it is due.                   *)
(***************************************************************************)
Observed(o, c, d, obs, q) ==
    o \in {"setPhase", "done"} =>
        Carries(c, "ObserveReq") \/ Carries(d, "ObserveResp") \/ q \in obs
Reported(c, d, cache, ts, rs, q) ==
    MapSent(ts) => q \in rs \/ Carries(d, "ReportRes") \/ Due(c, cache, Sleeping(ts))

PairOK(l, q) ==
    /\ Observed(observing[l], chan[l][q], chan[q][l], observations[l], q)
    /\ Reported(chan[l][q], chan[q][l], follower_observations[q], tasks[l],
                Reporters(l), q)

PairInv == \A l \in Node : \A q \in Followers(l) : IsLeader(l) => PairOK(l, q)

\* A quorum of responses has begun a report phase.
GraceInv == \A l \in Node : ObserveQuorum(observe_n[l]) => tasks[l] # <<>>

RoundInv == GraceInv /\ (~Disturbed => PairInv)

\* Before anything is asked nothing is owed.
LEMMA RoundInit == Init => RoundInv
<1> SUFFICES ASSUME Init PROVE RoundInv
  OBVIOUS
<1>1. GraceInv
  BY GlobalsAssumption DEF Init, GraceInv, ObserveQuorum
<1>2. ASSUME NEW l \in Node, NEW q \in Followers(l)
      PROVE  PairOK(l, q)
  <2>1. observing[l] = "idle" /\ tasks[l] = <<>>
    BY DEF Init
  <2>2. ~MapSent(tasks[l])
    BY <2>1 DEF MapSent
  <2> QED
    BY <2>1, <2>2 DEF PairOK, Observed, Reported
<1> QED
  BY <1>1, <1>2 DEF RoundInv, PairInv

\* A pair whose streams, cache and tasks a step leaves alone.
LEMMA PairFrame ==
    ASSUME PairInv, NEW l \in Node, NEW q \in Followers(l), IsLeader(l),
           chan'[l][q] = chan[l][q], chan'[q][l] = chan[q][l],
           follower_observations'[q] = follower_observations[q],
           tasks'[l] = tasks[l],
           observing'[l] \in {"setPhase", "done"} => observing[l] \in {"setPhase", "done"},
           observations[l] \subseteq observations'[l],
           MapSent(tasks[l]) => Reporters(l) \subseteq Reporters(l)'
    PROVE  PairOK(l, q)'
<1>1. /\ Observed(observing[l], chan[l][q], chan[q][l], observations[l], q)
      /\ Reported(chan[l][q], chan[q][l], follower_observations[q], tasks[l],
                  Reporters(l), q)
  BY DEF PairInv, PairOK
<1>2. Observed(observing'[l], chan'[l][q], chan'[q][l], observations'[l], q)
  BY <1>1 DEF Observed
<1>3. Reported(chan'[l][q], chan'[q][l], follower_observations'[q], tasks'[l],
               Reporters(l)', q)
  BY <1>1 DEF Reported
<1> QED
  BY <1>2, <1>3 DEF PairOK

\* Only a leader that has asked has tasks.
LEMMA TasksStarted ==
    ASSUME IndInv, NEW x \in Node, tasks[x] # <<>>
    PROVE  observing[x] \in {"setPhase", "done"} /\ pc[x] \notin {"created", "inited"}
<1>1. observe_n[x] > 2 * f + 1 /\ observe_n[x] = Cardinality(observations[x])
  BY DEF IndInv, CountInv
<1>2. observations[x] # {}
  <2>1. f \in Nat /\ Cardinality({}) = 0 /\ ~(0 > 2 * f + 1)
    BY FS_EmptySet, GlobalsAssumption
  <2> QED
    BY <1>1, <2>1
<1>3. PICK q \in observations[x] : q \in Node
  BY <1>2 DEF IndInv, TypeOK
<1>4. observing[x] \notin {"idle", "send"}
  BY <1>3 DEF IndInv, OneAnswerInv
<1> QED
  BY <1>4 DEF IndInv, TypeOK, RoleInv

\* Start-up happens before the round.
LEMMA PairStartUp ==
    ASSUME IndInv, PairInv, NEW x \in Node, StartUp(x)
    PROVE  PairInv'
<1>1. UNCHANGED <<chan, observations, tasks, follower_observations>>
  BY DEF StartUp, initReporter, StartLeader, StartFollower, SetReady, netVars, leaderVars
<1>2. \A l \in Node : observing'[l] = observing[l] \/ observing'[l] = "send"
  BY DEF StartUp, initReporter, StartLeader, StartFollower, SetReady, leaderVars, IndInv, TypeOK
<1>3. \A l \in Node : MapSent(tasks[l]) => reports'[l] = reports[l]
  <2>1. CASE initReporter(x)
    <3>1. pc[x] = "created" /\ \A l \in Node \ {x} : reports'[l] = reports[l]
      BY <2>1 DEF initReporter, IndInv, TypeOK
    <3>2. tasks[x] = <<>>
      BY <3>1, TasksStarted
    <3>3. ~MapSent(tasks[x])
      BY <3>2 DEF MapSent
    <3> QED
      BY <3>1, <3>3
  <2>2. CASE ~initReporter(x)
    BY <2>2 DEF StartUp, StartLeader, StartFollower, SetReady, leaderVars
  <2> QED
    BY <2>1, <2>2
<1>4. ASSUME NEW l \in Node, NEW q \in Followers(l), IsLeader(l)
      PROVE  PairOK(l, q)'
  <2>1. MapSent(tasks[l]) => Reporters(l) \subseteq Reporters(l)'
    BY <1>3 DEF Reporters
  <2> QED
    BY <1>1, <1>2, <1>4, <2>1, PairFrame
<1> QED
  BY <1>4 DEF PairInv, IsLeader, Followers

\* Everything a node sends to all others, spelt out.
LEMMA BroadcastOne ==
    ASSUME NEW c \in Streams, NEW x \in Node, NEW m \in Msg,
           NEW d, d = BroadcastMsg(c, x, m)
    PROVE  /\ \A b \in Node \ {x} : d[x][b] = Append(c[x][b], m)
           /\ \A a, b \in Node : a # x \/ b = x => d[a][b] = c[a][b]
BY DEF BroadcastMsg, Streams

\* handleObserve asks every follower.
LEMMA PairHandleObserve ==
    ASSUME IndInv, PairInv, NEW x \in Node, handleObserve(x) \/ handleObserveEnds(x)
    PROVE  PairInv'
<1>1. UNCHANGED <<observations, tasks, reports, follower_observations>>
  BY DEF handleObserve, handleObserveEnds
<1>2. \A l \in Node : Reporters(l)' = Reporters(l)
  BY <1>1 DEF Reporters
<1>3. CASE handleObserveEnds(x)
  <2>1. /\ chan' = chan
        /\ \A l \in Node : observing'[l] \in {"setPhase", "done"} =>
               observing[l] \in {"setPhase", "done"}
    BY <1>3 DEF handleObserveEnds, netVars, IndInv, TypeOK
  <2>2. ASSUME NEW l \in Node, NEW q \in Followers(l), IsLeader(l)
        PROVE  PairOK(l, q)'
    BY <1>1, <1>2, <2>1, <2>2, PairFrame
  <2> QED
    BY <2>2 DEF PairInv, IsLeader, Followers
<1>4. CASE handleObserve(x)
  <2>0. PICK m \in Msg : m = Message("ObserveReq", leader[x], {})
    BY LeaderAssumption, MessageType DEF MsgType
  <2>1. m.type = "ObserveReq" /\ ~IsMap(m)
    BY <2>0 DEF Message, IsMap
  <2>2. /\ \A b \in Node \ {x} : chan'[x][b] = Append(chan[x][b], m)
        /\ \A a, b \in Node : a # x \/ b = x => chan'[a][b] = chan[a][b]
    BY <1>4, <2>0, ChanType, BroadcastOne DEF handleObserve, IndInv
  <2>3. \A l \in Node \ {x} : observing'[l] = observing[l]
    BY <1>4 DEF handleObserve, IndInv, TypeOK
  <2>4. ASSUME NEW l \in Node, NEW q \in Followers(l), IsLeader(l)
        PROVE  PairOK(l, q)'
    <3>0. q \in Node /\ q # l
      BY DEF Followers
    <3>1. CASE l # x
      <4>1. q # x \/ ~IsLeader(x)
        BY <3>1 DEF Followers, IsLeader
      <4>2. IsLeader(x)
        BY <1>4 DEF handleObserve, IndInv, RoleInv
      <4> QED
        BY <1>1, <1>2, <2>2, <2>3, <2>4, <3>0, <3>1, <4>1, <4>2, PairFrame
    <3>2. CASE l = x
      <4>1. chan'[l][q] = Append(chan[l][q], m) /\ chan'[q][l] = chan[q][l]
        BY <2>2, <3>0, <3>2
      <4>2. chan[l][q] \in Seq(Msg)
        BY <3>0 DEF IndInv, TypeOK
      <4>3. Carries(chan'[l][q], "ObserveReq")
        BY <2>1, <4>1, <4>2, AppendExtends, CarriesExtended
      <4>4. Observed(observing'[l], chan'[l][q], chan'[q][l], observations'[l], q)
        BY <4>3 DEF Observed
      <4>5. Reported(chan[l][q], chan[q][l], follower_observations[q], tasks[l],
                     Reporters(l), q)
        BY <2>4 DEF PairInv, PairOK
      <4>6. Due(chan[l][q], follower_observations[q], Sleeping(tasks[l])) =>
              Due(chan'[l][q], follower_observations[q], Sleeping(tasks[l]))
        BY <2>1, <4>1, <4>2, DueAppend
      <4>7. Reported(chan'[l][q], chan'[q][l], follower_observations'[q], tasks'[l],
                     Reporters(l)', q)
        BY <1>1, <1>2, <4>1, <4>5, <4>6 DEF Reported
      <4> QED
        BY <4>4, <4>7 DEF PairOK
    <3> QED
      BY <3>1, <3>2
  <2> QED
    BY <2>4 DEF PairInv, IsLeader, Followers
<1> QED
  BY <1>3, <1>4

\* A task moves on.  A broadcast map makes a report due, whatever the streams
\* hold; a task that wakes up leaves the request for its map behind.
LEMMA PairHandleTask ==
    ASSUME IndInv, PairInv, NEW x \in Node, NEW k \in 1..Len(tasks[x]),
           handleGrace(x, k) \/ broadcastObservationMap(x, k) \/ handleReportEnds(x, k)
    PROVE  PairInv'
<1>1. UNCHANGED <<observing, observations, reports, follower_observations>>
  BY DEF handleGrace, broadcastObservationMap, handleReportEnds
<1>2. \A l \in Node : Reporters(l)' = Reporters(l)
  BY <1>1 DEF Reporters
<1>3. /\ tasks \in [Node -> Seq(Task)] /\ tasks[x] \in Seq(Task) /\ tasks[x][k] \in Task
      /\ tasks[x] # <<>>
  BY DEF IndInv, TypeOK
<1>4. IsLeader(x)
  BY <1>3 DEF IndInv, RoleInv
<1>5. \A l \in Node \ {x} : tasks'[l] = tasks[l]
  BY <1>3 DEF handleGrace, broadcastObservationMap, handleReportEnds
<1>6. PICK t \in Task : tasks'[x] = [tasks[x] EXCEPT ![k] = t] /\
        \/ handleGrace(x, k) /\ t.step = "marshal"
        \/ broadcastObservationMap(x, k) /\ t.step = "sleep" /\ t.om = observations[x]
        \/ handleReportEnds(x, k) /\ t.step = "done"
  <2>1. CASE handleGrace(x, k)
    <3>1. PICK t \in Task : t = [tasks[x][k] EXCEPT !.step = "marshal"]
      BY <1>3 DEF Task, TaskStep
    <3>2. t.step = "marshal" /\ tasks'[x] = [tasks[x] EXCEPT ![k] = t]
      BY <1>3, <2>1, <3>1 DEF handleGrace, Task
    <3> QED
      BY <2>1, <3>2
  <2>2. CASE broadcastObservationMap(x, k)
    <3>1. PICK t \in Task : t = [step |-> "sleep", om |-> observations[x]]
      BY DEF Task, TaskStep, IndInv, TypeOK
    <3>2. /\ t.step = "sleep" /\ t.om = observations[x]
          /\ tasks'[x] = [tasks[x] EXCEPT ![k] = t]
      BY <1>3, <2>2, <3>1 DEF broadcastObservationMap
    <3> QED
      BY <2>2, <3>2
  <2>3. CASE handleReportEnds(x, k)
    <3>1. PICK t \in Task : t = [tasks[x][k] EXCEPT !.step = "done"]
      BY <1>3 DEF Task, TaskStep
    <3>2. t.step = "done" /\ tasks'[x] = [tasks[x] EXCEPT ![k] = t]
      BY <1>3, <2>3, <3>1 DEF handleReportEnds, Task
    <3> QED
      BY <2>3, <3>2
  <2> QED
    BY <2>1, <2>2, <2>3
<1>7. /\ \A om \in Sleeping(tasks[x]) :
             om \in Sleeping(tasks'[x])
               \/ (tasks[x][k].step = "sleep" /\ tasks[x][k].om = om)
      /\ t.step = "sleep" => t.om \in Sleeping(tasks'[x])
      /\ MapSent(tasks'[x]) => MapSent(tasks[x]) \/ t.step \in {"sleep", "done"}
      /\ tasks[x][k].step \in {"sleep", "done"} => MapSent(tasks[x])
  BY <1>3, <1>6, TaskMoves
<1>8. CASE handleGrace(x, k)
  <2>1. chan' = chan /\ tasks[x][k].step = "grace"
    BY <1>8 DEF handleGrace, netVars
  <2>2. t.step = "marshal"
    BY <1>6, <2>1 DEF broadcastObservationMap, handleReportEnds
  <2>3. /\ MapSent(tasks'[x]) => MapSent(tasks[x])
        /\ Sleeping(tasks[x]) \subseteq Sleeping(tasks'[x])
    BY <1>7, <2>1, <2>2
  <2>4. ASSUME NEW l \in Node, NEW q \in Followers(l), IsLeader(l)
        PROVE  PairOK(l, q)'
    <3>1. CASE l # x
      BY <1>1, <1>2, <1>5, <2>1, <2>4, <3>1, PairFrame
    <3>2. CASE l = x
      <4>1. PairOK(l, q)
        BY <2>4 DEF PairInv
      <4>2. Due(chan[l][q], follower_observations[q], Sleeping(tasks[l])) =>
              Due(chan[l][q], follower_observations[q], Sleeping(tasks'[l]))
        BY <2>3, <3>2, DueMonotone
      <4>3. Reported(chan[l][q], chan[q][l], follower_observations[q], tasks'[l],
                     Reporters(l), q)
        BY <2>3, <3>2, <4>1, <4>2 DEF PairOK, Reported
      <4> QED
        BY <1>1, <1>2, <2>1, <4>1, <4>3 DEF PairOK
    <3> QED
      BY <3>1, <3>2
  <2> QED
    BY <2>4 DEF PairInv, IsLeader, Followers
<1>9. CASE ~handleGrace(x, k)
  <2>1. PICK m \in Msg :
          /\ chan' = BroadcastMsg(chan, x, m)
          /\ \/ IsMap(m) /\ t.step = "sleep" /\ m.om = t.om
             \/ /\ m.type = "ReportReq" /\ t.step = "done"
                /\ tasks[x][k].step = "sleep" /\ tasks[x][k].om = m.om
    <3>1. CASE broadcastObservationMap(x, k)
      <4>1. PICK m \in Msg : m = Message("BroadcastObservationMap", leader[x], observations[x])
        BY LeaderAssumption, MessageType DEF MsgType, IndInv, TypeOK
      <4>2. IsMap(m) /\ m.om = observations[x]
        BY <4>1 DEF Message, IsMap
      <4>3. t.step = "sleep" /\ t.om = observations[x]
        BY <1>6, <1>9, <3>1 DEF broadcastObservationMap, handleReportEnds
      <4> QED
        BY <3>1, <4>1, <4>2, <4>3 DEF broadcastObservationMap
    <3>2. CASE handleReportEnds(x, k)
      <4>1. PICK m \in Msg : m = Message("ReportReq", leader[x], tasks[x][k].om)
        BY <1>3, LeaderAssumption, MessageType DEF MsgType, Task
      <4>2. m.type = "ReportReq" /\ m.om = tasks[x][k].om
        BY <4>1 DEF Message
      <4>3. t.step = "done" /\ tasks[x][k].step = "sleep"
        BY <1>6, <1>9, <3>2 DEF broadcastObservationMap, handleReportEnds
      <4> QED
        BY <3>2, <4>1, <4>2, <4>3 DEF handleReportEnds
    <3> QED
      BY <1>9, <3>1, <3>2
  <2>2. /\ \A b \in Node \ {x} : chan'[x][b] = Append(chan[x][b], m)
        /\ \A a, b \in Node : a # x \/ b = x => chan'[a][b] = chan[a][b]
    BY <2>1, ChanType, BroadcastOne DEF IndInv
  <2>3. ASSUME NEW l \in Node, NEW q \in Followers(l), IsLeader(l)
        PROVE  PairOK(l, q)'
    <3>0. q \in Node /\ q # l
      BY DEF Followers
    <3>1. CASE l # x
      <4>1. q # x
        BY <1>4, <3>1 DEF Followers, IsLeader
      <4> QED
        BY <1>1, <1>2, <1>5, <2>2, <2>3, <3>0, <3>1, <4>1, PairFrame
    <3>2. CASE l = x
      <4>1. chan'[l][q] = Append(chan[l][q], m) /\ chan'[q][l] = chan[q][l]
        BY <2>2, <3>0, <3>2
      <4>2. chan[l][q] \in Seq(Msg)
        BY <3>0 DEF IndInv, TypeOK
      <4>3. PairOK(l, q)
        BY <2>3 DEF PairInv
      <4>4. Carries(chan[l][q], "ObserveReq") => Carries(chan'[l][q], "ObserveReq")
        BY <4>1, <4>2, AppendExtends, CarriesExtended
      <4>5. Observed(observing'[l], chan'[l][q], chan'[q][l], observations'[l], q)
        BY <1>1, <4>1, <4>3, <4>4 DEF PairOK, Observed
      <4>6. CASE IsMap(m) /\ t.step = "sleep" /\ m.om = t.om
        <5>1. Due(chan'[l][q], follower_observations'[q], Sleeping(tasks'[l]))
          BY <1>7, <3>2, <4>1, <4>2, <4>6, DueBroadcast
        <5> QED
          BY <4>5, <5>1 DEF PairOK, Reported
      <4>7. CASE /\ m.type = "ReportReq" /\ t.step = "done"
                 /\ tasks[x][k].step = "sleep" /\ tasks[x][k].om = m.om
        <5>1. MapSent(tasks[l]) /\ ~IsMap(m)
          BY <1>7, <3>2, <4>7 DEF IsMap
        <5>2. \A om \in Sleeping(tasks[l]) :
                om \in Sleeping(tasks'[l]) \/ (m.type = "ReportReq" /\ m.om = om)
          BY <1>7, <3>2, <4>7
        <5>3. Due(chan[l][q], follower_observations[q], Sleeping(tasks[l])) =>
                Due(chan'[l][q], follower_observations[q], Sleeping(tasks'[l]))
          BY <4>1, <4>2, <5>1, <5>2, DueAppend
        <5>4. Reported(chan'[l][q], chan'[q][l], follower_observations'[q], tasks'[l],
                       Reporters(l)', q)
          BY <1>1, <1>2, <4>1, <4>3, <5>1, <5>3 DEF PairOK, Reported
        <5> QED
          BY <4>5, <5>4 DEF PairOK
      <4> QED
        BY <2>1, <4>6, <4>7
    <3> QED
      BY <3>1, <3>2
  <2> QED
    BY <2>3 DEF PairInv, IsLeader, Followers
<1> QED
  BY <1>8, <1>9

\* Taking a message, spelt out.
LEMMA PopOne ==
    ASSUME NEW c \in Streams, NEW x \in Node, NEW y \in Node, NEW d, d = Pop(c, x, y)
    PROVE  /\ d[x][y] = Tail(c[x][y])
           /\ \A a, b \in Node : ~(a = x /\ b = y) => d[a][b] = c[a][b]
BY DEF Pop, Streams

\* Taking a message and answering it.
LEMMA AnswerOne ==
    ASSUME NEW c \in Streams, NEW x \in Node, NEW y \in Node, x # y, c[x][y] # <<>>,
           NEW m \in Msg, NEW d, d = SendMsg(Pop(c, x, y), y, x, m)
    PROVE  /\ d[x][y] = Tail(c[x][y])
           /\ d[y][x] = Append(c[y][x], m)
           /\ \A a, b \in Node : ~(a = x /\ b = y) /\ ~(a = y /\ b = x) => d[a][b] = c[a][b]
<1>1. PICK e \in Streams : e = Pop(c, x, y)
  BY PopType
<1>2. /\ e[x][y] = Tail(c[x][y])
      /\ \A a, b \in Node : ~(a = x /\ b = y) => e[a][b] = c[a][b]
  BY <1>1, PopOne
<1>3. /\ d[y][x] = Append(e[y][x], m)
      /\ \A a, b \in Node : ~(a = y /\ b = x) => d[a][b] = e[a][b]
  BY <1>1 DEF SendMsg, Streams
<1>4. d[x][y] = e[x][y] /\ e[y][x] = c[y][x]
  BY <1>2, <1>3
<1>5. \A a, b \in Node : ~(a = x /\ b = y) /\ ~(a = y /\ b = x) => d[a][b] = c[a][b]
  BY <1>2, <1>3
<1> QED
  BY <1>2, <1>3, <1>4, <1>5

\* Between a leader and its follower requests go one way and answers the
\* other, all in the name of the leader.
LEMMA PairMessages ==
    ASSUME IndInv, NEW l \in Node, NEW q \in Followers(l), IsLeader(l)
    PROVE  /\ chan[l][q] # <<>> =>
                  /\ Head(chan[l][q]).type \in
                         {"ObserveReq", "BroadcastObservationMap", "ReportReq"}
                  /\ rpcMsgPrechecks(Head(chan[l][q]), q)
           /\ chan[q][l] # <<>> =>
                  /\ Head(chan[q][l]).type \in {"ObserveResp", "ReportRes"}
                  /\ rpcMsgPrechecks(Head(chan[q][l]), l)
<1>0. q \in Node /\ q # l /\ leader[q] = l /\ leader[l] = l
  BY DEF Followers, IsLeader
<1>1. \A a, b \in Node : chan[a][b] # <<>> =>
        Head(chan[a][b]) \in Elems(chan[a][b]) /\ Head(chan[a][b]).type \in MsgType
  <2>1. \A a, b \in Node : chan[a][b] \in Seq(Msg)
    BY DEF IndInv, TypeOK
  <2>2. \A a, b \in Node : chan[a][b] # <<>> => Head(chan[a][b]) \in Msg
    BY <2>1
  <2> QED
    BY <2>1, <2>2, TailShortens DEF Msg
<1>2. ASSUME chan[l][q] # <<>>
      PROVE  /\ Head(chan[l][q]).type \in
                    {"ObserveReq", "BroadcastObservationMap", "ReportReq"}
             /\ rpcMsgPrechecks(Head(chan[l][q]), q)
  BY <1>0, <1>1, <1>2 DEF IndInv, MessagesInv, MsgType, rpcMsgPrechecks
<1>3. ASSUME chan[q][l] # <<>>
      PROVE  /\ Head(chan[q][l]).type \in {"ObserveResp", "ReportRes"}
             /\ rpcMsgPrechecks(Head(chan[q][l]), l)
  BY <1>0, <1>1, <1>3 DEF IndInv, MessagesInv, MsgType, rpcMsgPrechecks, IsLeader
<1> QED
  BY <1>2, <1>3

\* What the prechecks drop is nothing between a leader and its followers.
LEMMA PairPrecheckFails ==
    ASSUME IndInv, PairInv, NEW x \in Node, NEW y \in Node, PrecheckFails(x, y)
    PROVE  PairInv'
<1>1. /\ UNCHANGED <<observing, observations, tasks, reports, follower_observations>>
      /\ chan[x][y] # <<>> /\ ~rpcMsgPrechecks(Head(chan[x][y]), y)
      /\ chan' = Pop(chan, x, y)
  BY DEF PrecheckFails, Arrives, leaderVars
<1>2. \A a, b \in Node : ~(a = x /\ b = y) => chan'[a][b] = chan[a][b]
  BY <1>1, ChanType, PopOne DEF IndInv
<1>3. ASSUME NEW l \in Node, NEW q \in Followers(l), IsLeader(l)
      PROVE  PairOK(l, q)'
  <2>1. q \in Node /\ ~(l = x /\ q = y) /\ ~(q = x /\ l = y)
    BY <1>1, <1>3, PairMessages DEF Followers
  <2>2. Reporters(l)' = Reporters(l)
    BY <1>1 DEF Reporters
  <2> QED
    BY <1>1, <1>2, <1>3, <2>1, <2>2, PairFrame
<1> QED
  BY <1>3 DEF PairInv, IsLeader, Followers

\* The follower takes a request of its leader: at most the pair of the two
\* changes, and what the follower owes afterwards decides about it.
LEMMA RequestTaken ==
    ASSUME IndInv, PairInv, NEW x \in Node, NEW y \in Node,
           NEW t \in {"ObserveReq", "BroadcastObservationMap", "ReportReq"},
           Accepts(x, y, t),
           UNCHANGED <<observing, observations, tasks, reports>>,
           \A q \in Node \ {y} : follower_observations'[q] = follower_observations[q],
           \A a, b \in Node : ~(a = x /\ b = y) /\ ~(a = y /\ b = x) =>
               chan'[a][b] = chan[a][b],
           leader[y] = x /\ leader[x] = x => PairOK(x, y)'
    PROVE  PairInv'
<1>1. Head(chan[x][y]) \in Elems(chan[x][y]) /\ Head(chan[x][y]).type = t
  BY AcceptedMessage DEF MsgType
<1>2. IsLeader(x) /\ x # y
  BY <1>1 DEF IndInv, MessagesInv
<1>3. ASSUME NEW l \in Node, NEW q \in Followers(l), IsLeader(l)
      PROVE  PairOK(l, q)'
  <2>0. q \in Node /\ q # l /\ leader[q] = l /\ leader[l] = l
    BY <1>3 DEF Followers, IsLeader
  <2>1. CASE l = x /\ q = y
    BY <2>0, <2>1
  <2>2. CASE ~(l = x /\ q = y)
    <3>1. q # x
      BY <1>2, <2>0 DEF IsLeader
    <3>2. Reporters(l)' = Reporters(l)
      BY DEF Reporters
    <3>3. chan'[l][q] = chan[l][q] /\ chan'[q][l] = chan[q][l]
      BY <2>0, <2>2, <3>1
    <3>4. follower_observations'[q] = follower_observations[q] \/ q = y
      BY <2>0
    <3>5. q # y
      <4>1. Head(chan[x][y]).leader = leader[y] /\ Head(chan[x][y]).leader = x
        BY <1>1, AcceptedMessage DEF IndInv, MessagesInv, MsgType
      <4> QED
        BY <2>0, <2>2, <4>1
    <3> QED
      BY <1>3, <3>2, <3>3, <3>4, <3>5, PairFrame
  <2> QED
    BY <2>1, <2>2
<1> QED
  BY <1>3 DEF PairInv, IsLeader, Followers

\* The follower answers OBSERVE-REQ, or caches a map.
LEMMA PairObserveReq ==
    ASSUME IndInv, PairInv, NEW x \in Node, NEW y \in Node,
           ObserveReq(x, y) \/ BroadcastObservationMap(x, y)
    PROVE  PairInv'
<1>1. CASE ObserveReq(x, y)
  <2>1. /\ UNCHANGED <<observing, observations, tasks, reports, follower_observations>>
        /\ Accepts(x, y, "ObserveReq")
        /\ chan' = SendMsg(Pop(chan, x, y), y, leader[y], Message("ObserveResp", leader[y], {}))
    BY <1>1 DEF ObserveReq, leaderVars
  <2>2. /\ chan[x][y] # <<>> /\ x # y /\ Head(chan[x][y]).type = "ObserveReq"
        /\ Head(chan[x][y]) \in Elems(chan[x][y])
        /\ Head(chan[x][y]).leader = leader[y]
    BY <2>1, AcceptedMessage DEF MsgType
  <2>3. leader[y] = x
    BY <2>2 DEF IndInv, MessagesInv
  <2>4. PICK m \in Msg : m = Message("ObserveResp", leader[y], {})
    BY LeaderAssumption, MessageType DEF MsgType
  <2>5. m.type = "ObserveResp"
    BY <2>4 DEF Message
  <2>6. /\ chan'[x][y] = Tail(chan[x][y])
        /\ chan'[y][x] = Append(chan[y][x], m)
        /\ \A a, b \in Node : ~(a = x /\ b = y) /\ ~(a = y /\ b = x) =>
               chan'[a][b] = chan[a][b]
    BY <2>1, <2>2, <2>3, <2>4, ChanType, AnswerOne DEF IndInv
  <2>7. ASSUME leader[y] = x, leader[x] = x
        PROVE  PairOK(x, y)'
    <3>1. PairOK(x, y)
      BY <2>2, <2>7 DEF PairInv, Followers, IsLeader
    <3>2. chan[x][y] \in Seq(Msg) /\ chan[y][x] \in Seq(Msg)
      BY DEF IndInv, TypeOK
    <3>3. Carries(chan'[y][x], "ObserveResp")
      BY <2>5, <2>6, <3>2, AppendExtends, CarriesExtended
    <3>4. Carries(chan[y][x], "ReportRes") => Carries(chan'[y][x], "ReportRes")
      BY <2>6, <3>2, AppendExtends, CarriesExtended
    <3>5. Due(chan[x][y], follower_observations[y], Sleeping(tasks[x])) =>
            Due(chan'[x][y], follower_observations[y], Sleeping(tasks[x]))
      BY <2>2, <2>6, <3>2, DueTail DEF IsMap
    <3>6. Reporters(x)' = Reporters(x)
      BY <2>1 DEF Reporters
    <3> QED
      BY <2>1, <3>1, <3>3, <3>4, <3>5, <3>6 DEF PairOK, Observed, Reported
  <2> QED
    BY <2>1, <2>6, <2>7, RequestTaken
<1>2. CASE BroadcastObservationMap(x, y)
  <2>1. /\ UNCHANGED <<observing, observations, tasks, reports>>
        /\ Accepts(x, y, "BroadcastObservationMap")
        /\ chan' = Pop(chan, x, y)
        /\ follower_observations' = [follower_observations EXCEPT ![y] = Head(chan[x][y]).om]
    BY <1>2 DEF BroadcastObservationMap, leaderVars
  <2>2. /\ chan[x][y] # <<>> /\ x # y
        /\ Head(chan[x][y]).type = "BroadcastObservationMap"
    BY <2>1, AcceptedMessage DEF MsgType
  <2>3. /\ follower_observations'[y] = Head(chan[x][y]).om
        /\ \A q \in Node \ {y} : follower_observations'[q] = follower_observations[q]
    BY <2>1 DEF IndInv, TypeOK
  <2>4. /\ chan'[x][y] = Tail(chan[x][y])
        /\ \A a, b \in Node : ~(a = x /\ b = y) => chan'[a][b] = chan[a][b]
    BY <2>1, ChanType, PopOne DEF IndInv
  <2>5. ASSUME leader[y] = x, leader[x] = x
        PROVE  PairOK(x, y)'
    <3>1. PairOK(x, y)
      BY <2>2, <2>5 DEF PairInv, Followers, IsLeader
    <3>2. chan[x][y] \in Seq(Msg) /\ chan'[y][x] = chan[y][x]
      BY <2>2, <2>4 DEF IndInv, TypeOK
    <3>3. Carries(chan[x][y], "ObserveReq") => Carries(chan'[x][y], "ObserveReq")
      BY <2>2, <2>4, <3>2, CarriesTail
    <3>4. Due(chan[x][y], follower_observations[y], Sleeping(tasks[x])) =>
            Due(chan'[x][y], follower_observations'[y], Sleeping(tasks[x]))
      BY <2>2, <2>3, <2>4, <3>2, DueMap DEF IsMap
    <3>5. Reporters(x)' = Reporters(x)
      BY <2>1 DEF Reporters
    <3> QED
      BY <2>1, <3>1, <3>2, <3>3, <3>4, <3>5 DEF PairOK, Observed, Reported
  <2> QED
    BY <2>1, <2>3, <2>4, <2>5, RequestTaken
<1> QED
  BY <1>1, <1>2

\* The follower reports, or refuses to because the maps differ: then the
\* request it refused was not the one that is due.
LEMMA PairReportReq ==
    ASSUME IndInv, PairInv, NEW x \in Node, NEW y \in Node,
           ReportReq(x, y) \/ ReportReqMismatch(x, y)
    PROVE  PairInv'
<1>1. /\ UNCHANGED <<observing, observations, tasks, reports, follower_observations>>
      /\ Accepts(x, y, "ReportReq")
  BY DEF ReportReq, ReportReqMismatch, leaderVars
<1>2. /\ chan[x][y] # <<>> /\ x # y /\ Head(chan[x][y]).type = "ReportReq"
      /\ Head(chan[x][y]) \in Elems(chan[x][y])
      /\ Head(chan[x][y]).leader = leader[y]
  BY <1>1, AcceptedMessage DEF MsgType
<1>3. leader[y] = x
  BY <1>2 DEF IndInv, MessagesInv
<1>4. Reporters(x)' = Reporters(x)
  BY <1>1 DEF Reporters
<1>5. CASE ReportReq(x, y)
  <2>1. PICK m \in Msg : m = Message("ReportRes", leader[y], {})
    BY LeaderAssumption, MessageType DEF MsgType
  <2>2. m.type = "ReportRes"
    BY <2>1 DEF Message
  <2>3. chan' = SendMsg(Pop(chan, x, y), y, leader[y], m)
    BY <1>5, <2>1 DEF ReportReq
  <2>4. /\ chan'[x][y] = Tail(chan[x][y])
        /\ chan'[y][x] = Append(chan[y][x], m)
        /\ \A a, b \in Node : ~(a = x /\ b = y) /\ ~(a = y /\ b = x) =>
               chan'[a][b] = chan[a][b]
    BY <1>2, <1>3, <2>3, ChanType, AnswerOne DEF IndInv
  <2>5. ASSUME leader[y] = x, leader[x] = x
        PROVE  PairOK(x, y)'
    <3>1. PairOK(x, y)
      BY <1>2, <2>5 DEF PairInv, Followers, IsLeader
    <3>2. chan[x][y] \in Seq(Msg) /\ chan[y][x] \in Seq(Msg)
      BY DEF IndInv, TypeOK
    <3>3. Carries(chan'[y][x], "ReportRes")
      BY <2>2, <2>4, <3>2, AppendExtends, CarriesExtended
    <3>4. Carries(chan[y][x], "ObserveResp") => Carries(chan'[y][x], "ObserveResp")
      BY <2>4, <3>2, AppendExtends, CarriesExtended
    <3>5. Carries(chan[x][y], "ObserveReq") => Carries(chan'[x][y], "ObserveReq")
      BY <1>2, <2>4, <3>2, CarriesTail
    <3> QED
      BY <1>1, <1>4, <3>1, <3>3, <3>4, <3>5 DEF PairOK, Observed, Reported
  <2> QED
    BY <1>1, <2>4, <2>5, RequestTaken
<1>6. CASE ReportReqMismatch(x, y)
  <2>1. chan' = Pop(chan, x, y) /\ Head(chan[x][y]).om # follower_observations[y]
    BY <1>6 DEF ReportReqMismatch, SameMap
  <2>2. /\ chan'[x][y] = Tail(chan[x][y])
        /\ \A a, b \in Node : ~(a = x /\ b = y) => chan'[a][b] = chan[a][b]
    BY <2>1, ChanType, PopOne DEF IndInv
  <2>3. ASSUME leader[y] = x, leader[x] = x
        PROVE  PairOK(x, y)'
    <3>1. PairOK(x, y)
      BY <1>2, <2>3 DEF PairInv, Followers, IsLeader
    <3>2. chan[x][y] \in Seq(Msg) /\ chan'[y][x] = chan[y][x]
      BY <1>2, <2>2 DEF IndInv, TypeOK
    <3>3. Carries(chan[x][y], "ObserveReq") => Carries(chan'[x][y], "ObserveReq")
      BY <1>2, <2>2, <3>2, CarriesTail
    <3>4. Due(chan[x][y], follower_observations[y], Sleeping(tasks[x])) =>
            Due(chan'[x][y], follower_observations[y], Sleeping(tasks[x]))
      BY <1>2, <2>1, <2>2, <3>2, DueTail DEF IsMap
    <3> QED
      BY <1>1, <1>4, <3>1, <3>2, <3>3, <3>4 DEF PairOK, Observed, Reported
  <2> QED
    BY <1>1, <2>2, <2>3, RequestTaken
<1> QED
  BY <1>5, <1>6

\* The leader stores an observation or a report.
LEMMA PairAnswers ==
    ASSUME IndInv, PairInv, NEW x \in Node, NEW y \in Node,
           ObserveResp(x, y) \/ ReportRes(x, y)
    PROVE  PairInv'
<1>1. PICK t \in {"ObserveResp", "ReportRes"} :
        /\ Accepts(x, y, t)
        /\ t = "ObserveResp" <=> ObserveResp(x, y)
        /\ t = "ReportRes" <=> ReportRes(x, y)
  BY DEF ObserveResp, ReportRes, Accepts
<1>2. UNCHANGED <<observing, follower_observations>> /\ chan' = Pop(chan, x, y)
  BY DEF ObserveResp, ReportRes
<1>3. /\ chan[x][y] # <<>> /\ x # y /\ Head(chan[x][y]).type = t
      /\ Head(chan[x][y]) \in Elems(chan[x][y])
      /\ Head(chan[x][y]).leader = leader[y]
  BY <1>1, AcceptedMessage DEF MsgType
<1>4. leader[x] = y /\ leader[y] = y
  BY <1>3 DEF IndInv, MessagesInv
<1>5. /\ chan'[x][y] = Tail(chan[x][y])
      /\ \A a, b \in Node : ~(a = x /\ b = y) => chan'[a][b] = chan[a][b]
  BY <1>2, ChanType, PopOne DEF IndInv
<1>6. /\ \A l \in Node : observations[l] \subseteq observations'[l]
      /\ t = "ObserveResp" => x \in observations'[y]
  <2>1. CASE t = "ObserveResp"
    <3>1. observations \in [Node -> SUBSET Node]
      BY DEF IndInv, TypeOK
    <3>2. observations' = [observations EXCEPT ![y] = @ \cup {x}]
      BY <1>1, <2>1 DEF ObserveResp
    <3> QED
      BY <3>1, <3>2
  <2>2. CASE t = "ReportRes"
    BY <1>1, <2>2 DEF ReportRes
  <2> QED
    BY <2>1, <2>2
<1>7. /\ \A l \in Node : Reporters(l) \subseteq Reporters(l)'
      /\ t = "ReportRes" => x \in Reporters(y)'
  <2>1. CASE t = "ObserveResp"
    <3>1. reports' = reports
      BY <1>1, <2>1 DEF ObserveResp
    <3> QED
      BY <2>1, <3>1 DEF Reporters
  <2>2. CASE t = "ReportRes"
    <3>1. reports[y] \in Seq(Node \cup {NoId})
      BY DEF IndInv, TypeOK
    <3>2. /\ reports'[y] = Append(reports[y], x)
          /\ \A l \in Node \ {y} : reports'[l] = reports[l]
      BY <1>1, <2>2 DEF ReportRes, IndInv, TypeOK
    <3>3. /\ \A i \in DOMAIN reports[y] : i \in DOMAIN reports'[y] /\ reports'[y][i] = reports[y][i]
          /\ Len(reports[y]) + 1 \in DOMAIN reports'[y]
          /\ reports'[y][Len(reports[y]) + 1] = x
      BY <3>1, <3>2
    <3>4. x # NoId
      BY NodeAssumption
    <3>5. Reporters(y) \subseteq Reporters(y)' /\ x \in Reporters(y)'
      BY <3>3, <3>4 DEF Reporters
    <3>6. \A l \in Node \ {y} : Reporters(l)' = Reporters(l)
      BY <3>2 DEF Reporters
    <3> QED
      BY <3>5, <3>6
  <2> QED
    BY <2>1, <2>2
<1>8. \A l \in Node :
        /\ MapSent(tasks'[l]) => MapSent(tasks[l])
        /\ Sleeping(tasks[l]) \subseteq Sleeping(tasks'[l])
  <2>1. CASE tasks' = tasks
    BY <2>1
  <2>2. CASE tasks' # tasks
    <3>1. PICK u \in Task : u = [step |-> "grace", om |-> {}]
      BY DEF Task, TaskStep
    <3>2. tasks' = [tasks EXCEPT ![y] = Append(@, u)]
      BY <2>2, <3>1 DEF ObserveResp, ReportRes
    <3>3. tasks \in [Node -> Seq(Task)]
      BY DEF IndInv, TypeOK
    <3>4. /\ tasks'[y] = Append(tasks[y], u)
          /\ \A l \in Node \ {y} : tasks'[l] = tasks[l]
      BY <3>2, <3>3
    <3>5. /\ Sleeping(tasks[y]) \subseteq Sleeping(tasks'[y])
          /\ MapSent(tasks'[y]) => MapSent(tasks[y])
      BY <3>1, <3>3, <3>4, TaskStarts
    <3> QED
      BY <3>4, <3>5
  <2> QED
    BY <2>1, <2>2
<1>9. ASSUME NEW l \in Node, NEW q \in Followers(l), IsLeader(l)
      PROVE  PairOK(l, q)'
  <2>0. q \in Node /\ q # l /\ leader[q] = l /\ leader[l] = l
    BY <1>9 DEF Followers, IsLeader
  <2>1. PairOK(l, q)
    BY <1>9 DEF PairInv
  <2>2. chan'[l][q] = chan[l][q]
    BY <1>4, <1>5, <2>0
  <2>3. Due(chan[l][q], follower_observations[q], Sleeping(tasks[l])) =>
          Due(chan'[l][q], follower_observations'[q], Sleeping(tasks'[l]))
    BY <1>2, <1>8, <2>2, DueMonotone
  <2>4. CASE q = x /\ l = y
    <3>1. chan[q][l] \in Seq(Msg) /\ chan[q][l] # <<>> /\ chan'[q][l] = Tail(chan[q][l])
      BY <1>3, <1>5, <2>4 DEF IndInv, TypeOK
    <3>2. \A u \in {"ObserveResp", "ReportRes"} :
            u # t /\ Carries(chan[q][l], u) => Carries(chan'[q][l], u)
      BY <1>3, <2>4, <3>1, CarriesTail
    <3>3. Observed(observing'[l], chan'[l][q], chan'[q][l], observations'[l], q)
      BY <1>2, <1>6, <2>1, <2>2, <2>4, <3>2 DEF PairOK, Observed
    <3>4. Reported(chan'[l][q], chan'[q][l], follower_observations'[q], tasks'[l],
                   Reporters(l)', q)
      BY <1>7, <1>8, <2>1, <2>3, <2>4, <3>2 DEF PairOK, Reported
    <3> QED
      BY <3>3, <3>4 DEF PairOK
  <2>5. CASE ~(q = x /\ l = y)
    <3>1. chan'[q][l] = chan[q][l]
      BY <1>5, <2>0, <2>5
    <3>2. Observed(observing'[l], chan'[l][q], chan'[q][l], observations'[l], q)
      BY <1>2, <1>6, <2>1, <2>2, <3>1 DEF PairOK, Observed
    <3>3. Reported(chan'[l][q], chan'[q][l], follower_observations'[q], tasks'[l],
                   Reporters(l)', q)
      BY <1>7, <1>8, <2>1, <2>3, <3>1 DEF PairOK, Reported
    <3> QED
      BY <3>2, <3>3 DEF PairOK
  <2> QED
    BY <2>4, <2>5
<1> QED
  BY <1>9 DEF PairInv, IsLeader, Followers

\* The quorum of responses and the first report phase come in one step.
LEMMA GraceNext ==
    ASSUME TypeOK, GraceInv, [Next]_vars
    PROVE  GraceInv'
<1>1. ASSUME NEW x \in Node, NEW y \in Node, ObserveResp(x, y)
      PROVE  GraceInv'
  <2>1. /\ observe_n'[y] = observe_n[y] + 1
        /\ \A l \in Node \ {y} : observe_n'[l] = observe_n[l] /\ tasks'[l] = tasks[l]
    BY <1>1 DEF ObserveResp, TypeOK
  <2>2. ASSUME ObserveQuorum(observe_n'[y])
        PROVE  tasks'[y] # <<>>
    <3>1. PICK u \in Task : u = [step |-> "grace", om |-> {}]
      BY DEF Task, TaskStep
    <3>2. tasks'[y] = Append(tasks[y], u)
      BY <1>1, <2>1, <2>2, <3>1 DEF ObserveResp, TypeOK
    <3>3. tasks[y] \in Seq(Task)
      BY DEF TypeOK
    <3> QED
      BY <3>2, <3>3
  <2> QED
    BY <2>1, <2>2 DEF GraceInv, ObserveQuorum
<1>2. ASSUME NEW x \in Node, NEW k \in DOMAIN tasks[x],
             handleGrace(x, k) \/ broadcastObservationMap(x, k) \/ handleReportEnds(x, k)
      PROVE  GraceInv'
  <2>1. observe_n' = observe_n
    BY <1>2 DEF handleGrace, broadcastObservationMap, handleReportEnds
  <2>2. \A l \in Node \ {x} : tasks'[l] = tasks[l]
    BY <1>2 DEF handleGrace, broadcastObservationMap, handleReportEnds, TypeOK
  <2>3. k \in DOMAIN tasks'[x]
    BY <1>2 DEF handleGrace, broadcastObservationMap, handleReportEnds, TypeOK
  <2>4. tasks'[x] # <<>>
    BY <2>3
  <2> QED
    BY <2>1, <2>2, <2>4 DEF GraceInv, ObserveQuorum
<1>3. CASE UNCHANGED <<observe_n, tasks>>
  BY <1>3 DEF GraceInv, ObserveQuorum
<1>4. ASSUME NEW x \in Node,
             StartUp(x) \/ StartPanics(x) \/ handleObserve(x) \/ handleObserveEnds(x)
      PROVE  UNCHANGED <<observe_n, tasks>>
  BY <1>4 DEF StartUp, StartPanics, initReporter, StartLeader, StartFollower, SetReady,
     handleObserve, handleObserveEnds, leaderVars
<1>5. ASSUME NEW x \in Node, NEW y \in Node, ProcessMessage(x, y) \/ Lose(x, y),
             ~ObserveResp(x, y)
      PROVE  UNCHANGED <<observe_n, tasks>>
  BY <1>5 DEF ProcessMessage, RejectNotReady, BlockOnMutex, PrecheckFails, ObserveReq,
     BroadcastObservationMap, ReportReq, ReportReqMismatch, ReportRes, Lose, leaderVars
<1>6. CASE UNCHANGED vars
  BY <1>3, <1>6 DEF vars
<1> QED
  BY <1>1, <1>2, <1>3, <1>4, <1>5, <1>6 DEF Next, HandlePhase

\* Disturbances are for ever.
LEMMA DisturbedForever ==
    ASSUME TypeOK, [Next]_vars, Disturbed
    PROVE  Disturbed'
<1>1. ASSUME NEW x \in Node, StartUp(x) \/ StartPanics(x)
      PROVE  Disturbed'
  <2>1. mu' = mu /\ lost' = lost
    BY <1>1 DEF StartUp, StartPanics, initReporter, StartLeader, StartFollower, SetReady, netVars
  <2>2. \A z \in Node : pc[z] = "crashed" => pc'[z] = "crashed"
    BY <1>1 DEF StartUp, StartPanics, initReporter, StartLeader, StartFollower, SetReady, TypeOK
  <2> QED
    BY <2>1, <2>2 DEF Disturbed
<1>2. ASSUME NEW x \in Node, HandlePhase(x)
      PROVE  Disturbed'
  <2>1. UNCHANGED <<pc, mu, lost>>
    BY <1>2 DEF HandlePhase, handleObserve, handleObserveEnds, handleGrace,
       broadcastObservationMap, handleReportEnds, startVars, netVars
  <2> QED
    BY <2>1 DEF Disturbed
<1>3. ASSUME NEW x \in Node, NEW y \in Node, ProcessMessage(x, y) \/ Lose(x, y)
      PROVE  Disturbed'
  <2>1. pc' = pc
    BY <1>3 DEF ProcessMessage, RejectNotReady, BlockOnMutex, PrecheckFails, ObserveReq,
       ObserveResp, BroadcastObservationMap, ReportReq, ReportReqMismatch, ReportRes, Lose,
       startVars
  <2>2. \A z \in Node : mu[z] = "leaked" => mu'[z] = "leaked"
    BY <1>3 DEF ProcessMessage, RejectNotReady, BlockOnMutex, PrecheckFails, ObserveReq,
       ObserveResp, BroadcastObservationMap, ReportReq, ReportReqMismatch, ReportRes, Lose,
       startVars, TypeOK
  <2>3. lost > 0 => lost' > 0
    BY <1>3, BoundAssumption DEF ProcessMessage, RejectNotReady, BlockOnMutex, PrecheckFails,
       ObserveReq, ObserveResp, BroadcastObservationMap, ReportReq, ReportReqMismatch,
       ReportRes, Lose, TypeOK
  <2> QED
    BY <2>1, <2>2, <2>3 DEF Disturbed
<1>4. CASE UNCHANGED vars
  BY <1>4 DEF vars, Disturbed
<1> QED
  BY <1>1, <1>2, <1>3, <1>4 DEF Next

\* Every step that disturbs nothing keeps the account of every follower.
LEMMA RoundNext ==
    ASSUME IndInv, RoundInv, [Next]_vars
    PROVE  RoundInv'
<1>1. TypeOK
  BY DEF IndInv
<1>2. GraceInv'
  BY <1>1, GraceNext DEF RoundInv
<1>3. ASSUME ~Disturbed'
      PROVE  PairInv'
  <2>0. PairInv
    BY <1>1, <1>3, DisturbedForever DEF RoundInv
  <2>1. ASSUME NEW x \in Node, StartUp(x) \/ StartPanics(x) \/ HandlePhase(x)
        PROVE  PairInv'
    <3>1. ~StartPanics(x)
      BY <1>1, <1>3 DEF StartPanics, Disturbed, TypeOK
    <3>2. \A k \in DOMAIN tasks[x] : k \in 1..Len(tasks[x])
      BY <1>1 DEF TypeOK
    <3> QED
      BY <2>0, <2>1, <3>1, <3>2, PairStartUp, PairHandleObserve, PairHandleTask
         DEF HandlePhase
  <2>2. ASSUME NEW x \in Node, NEW y \in Node, ProcessMessage(x, y) \/ Lose(x, y)
        PROVE  PairInv'
    <3>1. ~RejectNotReady(x, y) /\ ~BlockOnMutex(x, y)
      BY <1>1, <1>3 DEF RejectNotReady, BlockOnMutex, Disturbed, TypeOK
    <3>2. ~Lose(x, y)
      BY <1>1, <1>3, BoundAssumption DEF Lose, Disturbed, TypeOK
    <3> QED
      BY <2>0, <2>2, <3>1, <3>2, PairPrecheckFails, PairObserveReq, PairReportReq,
         PairAnswers DEF ProcessMessage
  <2>3. CASE UNCHANGED vars
    <3>1. ASSUME NEW l \in Node, NEW q \in Followers(l), IsLeader(l)
          PROVE  PairOK(l, q)'
      <4>1. Reporters(l)' = Reporters(l)
        BY <2>3 DEF vars, Reporters
      <4> QED
        BY <2>0, <2>3, <3>1, <4>1, PairFrame DEF vars
    <3> QED
      BY <3>1 DEF PairInv, IsLeader, Followers
  <2> QED
    BY <2>1, <2>2, <2>3 DEF Next
<1> QED
  BY <1>2, <1>3 DEF RoundInv

\* An undisturbed round that rests has the report of every follower: overlapping
\* phases, and requests a follower refused because their map was outdated, never
\* leave one of them out, for any nodes, f and order of events.
THEOREM QuietRoundIsComplete == Spec => []RestsComplete
<1>1. IndInv /\ RoundInv => RestsComplete
  <2> SUFFICES ASSUME IndInv, RoundInv, NEW l \in Node, IsLeader(l),
                      Cardinality(Followers(l)) > 2 * f + 1, AtRest(l), ~Disturbed,
                      NEW r \in Followers(l)
               PROVE  r \in Reporters(l)
    BY DEF RestsComplete
  <2>1. \A q \in Followers(l) : q \in Node /\ PairOK(l, q)
    BY DEF RoundInv, PairInv, Followers
  <2>2. \A q \in Followers(l) : \A t \in MsgType :
          ~Carries(chan[l][q], t) /\ ~Carries(chan[q][l], t)
    BY DEF AtRest, Carries, Elems
  <2>3. Followers(l) \subseteq observations[l]
    BY <2>1, <2>2 DEF PairOK, Observed, AtRest, MsgType
  <2>4. observations[l] = Followers(l)
    BY <2>3 DEF IndInv, RoleInv
  <2>5. ObserveQuorum(observe_n[l])
    BY <2>4 DEF IndInv, CountInv, ObserveQuorum
  <2>6. tasks[l] # <<>> /\ tasks[l] \in Seq(Task)
    BY <2>5 DEF RoundInv, GraceInv, IndInv, TypeOK
  <2>7. 1 \in 1..Len(tasks[l]) /\ DOMAIN tasks[l] = 1..Len(tasks[l])
    BY <2>6
  <2>8. MapSent(tasks[l]) /\ Sleeping(tasks[l]) = {}
    BY <2>7 DEF AtRest, MapSent, Sleeping
  <2>9. ~Due(chan[l][r], follower_observations[r], Sleeping(tasks[l]))
    BY <2>8 DEF Due, WillAsk, AtRest
  <2> QED
    BY <2>1, <2>2, <2>8, <2>9 DEF PairOK, Reported, MsgType
<1>2. IndInv /\ RoundInv /\ [Next]_vars => RoundInv'
  BY RoundNext
<1> QED
  BY <1>1, <1>2, Invariance, RoundInit, PTL DEF Spec
=============================================================================
