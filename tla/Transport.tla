----------------------------- MODULE Transport -----------------------------
(***************************************************************************)
(* The libp2p transport (network/libp2p_transport.go) of every node, from  *)
(* a call of SendMsg to the server loop that takes the message: the cache  *)
(* of streams, the bytes in a stream, the reader of each stream, the       *)
(* bounded msgCh they share, and the loop, whose handlers send as well.    *)
(*                                                                         *)
(* Each message is sent by a call of SendMsg of its own.  The calls of one *)
(* Broadcast, or of one handler, are made one after the other (next).      *)
(* A message is as many fragments long as it fills parts of a read buffer. *)
(* A stream has the name of the message whose SendMsg opened it.           *)
(***************************************************************************)
EXTENDS Integers, Sequences, FiniteSets

CONSTANTS
    Node,      \* the hosts
    Message,   \* the messages, each with one sender and one recipient
    None,      \* no message, no stream
    from,      \* from[m]: the node that sends m
    to,        \* to[m]: the node that m is for
    size,      \* size[m]: the fragments of m
    next,      \* next[m]: what the caller sends when SendMsg(m) has returned
    reply,     \* reply[m]: what the handler of m sends first
    Buffer,    \* fragments that fit into readLoop's buf, 4096 bytes
    Window,    \* fragments a stream holds before Write waits
    MsgChCap,  \* capacity of msgCh, 1024 in the code
    MaxFaults  \* bound: streams that break or cannot be opened

ASSUME NodeAssumption == None \notin Message
ASSUME MessageAssumption ==
    /\ from \in [Message -> Node]
    /\ to \in [Message -> Node]
    /\ size \in [Message -> Nat \ {0}]
    /\ next \in [Message -> Message \cup {None}]
    /\ reply \in [Message -> Message \cup {None}]
ASSUME BufferAssumption ==
    /\ Buffer \in Nat \ {0} /\ Window \in Nat \ {0}
    /\ MsgChCap \in Nat \ {0} /\ MaxFaults \in Nat

VARIABLES
    pc,        \* pc[m]: where SendMsg(m) is
    held,      \* held[m]: the local variable stream of SendMsg(m)
    written,   \* written[m]: how many fragments of m have been written
    streams,   \* streams[x][y]: lt.streams, the stream x has cached for y
    opened,    \* the streams that have been opened
    broken,    \* the streams that have been reset
    wire,      \* wire[s]: the fragments in stream s, as <<message, number>>
    inHand,    \* inHand[s]: the message the readLoop of s has decoded
    mu,        \* mu[y]: lt.mu, the stream whose readLoop has it, or None
    msgCh,     \* msgCh[y]: decoded messages, as <<message, stream>>
    loop,      \* the server loop: "running", or "halted" for good
    busy,      \* busy[y]: the message the loop's handler is sending, or None
    delivered, \* the messages the loops have taken
    faults     \* how many faults there have been

sendVars == <<pc, held, written, streams, opened>>
recvVars == <<inHand, mu, msgCh>>
vars == <<pc, held, written, streams, opened, broken, wire, inHand, mu, msgCh,
          loop, busy, delivered, faults>>

\* Nothing precedes it: the call of a goroutine, or the first of a Broadcast.
Root(m) == \A q \in Message : next[q] # m /\ reply[q] # m

Init ==
    /\ pc = [m \in Message |-> IF Root(m) THEN "called" ELSE "idle"]
    /\ held = [m \in Message |-> None]
    /\ written = [m \in Message |-> 0]
    /\ streams = [x \in Node |-> [y \in Node |-> None]]
    /\ opened = {}
    /\ broken = {}
    /\ wire = [s \in Message |-> <<>>]
    /\ inHand = [s \in Message |-> None]
    /\ mu = [y \in Node |-> None]
    /\ msgCh = [y \in Node |-> <<>>]
    /\ loop = [y \in Node |-> "running"]
    /\ busy = [y \in Node |-> None]
    /\ delivered = {}
    /\ faults = 0

(***************************************************************************)
(* SendMsg.                                                                *)
(***************************************************************************)

\* The cache is read under streamMu, which is released at once.
SendMsg(m) ==
    /\ pc[m] = "called"
    /\ LET cached == streams[from[m]][to[m]] IN
           /\ held' = [held EXCEPT ![m] = cached]
           /\ pc' = [pc EXCEPT ![m] = IF cached = None THEN "open" ELSE "write"]
    /\ UNCHANGED <<written, streams, opened, broken, wire, recvVars, loop, busy, delivered,
                   faults>>

\* The other host starts a readLoop for it (handleStream).
NewStream(m) ==
    /\ pc[m] = "open"
    /\ opened' = opened \cup {m}
    /\ held' = [held EXCEPT ![m] = m]
    /\ pc' = [pc EXCEPT ![m] = "store"]
    /\ UNCHANGED <<written, streams, broken, wire, recvVars, loop, busy, delivered, faults>>

\* Whatever another call has stored meanwhile is overwritten.
StoreStream(m) ==
    /\ pc[m] = "store"
    /\ streams' = [streams EXCEPT ![from[m]][to[m]] = held[m]]
    /\ pc' = [pc EXCEPT ![m] = "write"]
    /\ UNCHANGED <<held, written, opened, broken, wire, recvVars, loop, busy, delivered,
                   faults>>

\* SendMsg(m) returns; nobody looks at its error.  The caller goes on with the
\* next peer of its Broadcast, or has finished.
Return(m, how) ==
    /\ pc' = [q \in Message |-> IF q = m THEN how
                                ELSE IF q = next[m] THEN "called" ELSE pc[q]]
    /\ busy' = [busy EXCEPT ![from[m]] = IF @ = m THEN next[m] ELSE @]

Smaller(i, j) == IF i < j THEN i ELSE j

\* The next fragments of m, as many as the window has room for.
Chunk(m) ==
    LET room == Window - Len(wire[held[m]]) IN
    [i \in 1..Smaller(room, size[m] - written[m]) |-> <<m, written[m] + i>>]

\* stream.Write, which waits, without a deadline, while the window is full.
Write(m) ==
    /\ pc[m] = "write"
    /\ held[m] \notin broken
    /\ Len(wire[held[m]]) < Window
    /\ wire' = [wire EXCEPT ![held[m]] = @ \o Chunk(m)]
    /\ written' = [written EXCEPT ![m] = @ + Len(Chunk(m))]
    /\ IF written'[m] = size[m] THEN Return(m, "sent") ELSE UNCHANGED <<pc, busy>>
    /\ UNCHANGED <<held, streams, opened, broken, recvVars, loop, delivered, faults>>

\* Mutant: a stream that cannot be written is taken out of the cache.
WriteFailsEvicts(m) ==
    /\ pc[m] = "write"
    /\ held[m] \in broken
    /\ streams' = [streams EXCEPT ![from[m]][to[m]] = None]
    /\ Return(m, "failed")
    /\ UNCHANGED <<held, written, opened, broken, wire, recvVars, loop, delivered, faults>>

\* The broken stream stays in the cache.
WriteFails(m) ==
    /\ pc[m] = "write"
    /\ held[m] \in broken
    /\ Return(m, "failed")
    /\ UNCHANGED <<held, written, streams, opened, broken, wire, recvVars, loop, delivered,
                   faults>>

NewStreamFails(m) ==
    /\ pc[m] = "open"
    /\ faults < MaxFaults
    /\ faults' = faults + 1
    /\ Return(m, "failed")
    /\ UNCHANGED <<held, written, streams, opened, broken, wire, recvVars, loop, delivered>>

(***************************************************************************)
(* readLoop, one for each stream.                                          *)
(***************************************************************************)

\* Mutant: the decoder is content with the first bytes of a message.
DecodesPrefix(data) == data[1][2] = 1

\* The bytes of one read decode when they are one message and nothing more.
Decodes(data) ==
    \E m \in Message : data = [i \in 1..size[m] |-> <<m, i>>]

\* Mutant: bytes that do not decode are left for the next read.
readLoopKeeps(s) ==
    /\ inHand[s] = None
    /\ \E k \in 1..Smaller(Buffer, Len(wire[s])) :
           LET data == SubSeq(wire[s], 1, k) IN
           /\ Decodes(data)
           /\ wire' = [wire EXCEPT ![s] = SubSeq(@, k + 1, Len(@))]
           /\ inHand' = [inHand EXCEPT ![s] = data[1][1]]
    /\ UNCHANGED <<sendVars, broken, mu, msgCh, loop, busy, delivered, faults>>

\* Mutant: the error of Decode is not looked at, and what it left of the message
\* is pushed.
readLoopUnchecked(s) ==
    /\ inHand[s] = None
    /\ mu[to[s]] = None /\ Len(msgCh[to[s]]) < MsgChCap
    /\ \E k \in 1..Smaller(Buffer, Len(wire[s])) :
           LET data == SubSeq(wire[s], 1, k)
               rpcMsg == IF Decodes(data) THEN data[1][1] ELSE None
           IN /\ wire' = [wire EXCEPT ![s] = SubSeq(@, k + 1, Len(@))]
              /\ msgCh' = [msgCh EXCEPT ![to[s]] = Append(@, <<rpcMsg, s>>)]
    /\ UNCHANGED <<sendVars, broken, inHand, mu, loop, busy, delivered, faults>>

\* Read returns some of the bytes that are there, up to the buffer.  What does
\* not decode is dropped.
readLoop(s) ==
    /\ inHand[s] = None
    /\ \E k \in 1..Smaller(Buffer, Len(wire[s])) :
           LET data == SubSeq(wire[s], 1, k) IN
           /\ wire' = [wire EXCEPT ![s] = SubSeq(@, k + 1, Len(@))]
           /\ inHand' = [inHand EXCEPT ![s] = IF Decodes(data) THEN data[1][1] ELSE None]
    /\ UNCHANGED <<sendVars, broken, mu, msgCh, loop, busy, delivered, faults>>

\* lt.mu.Lock
LockMu(s) ==
    LET y == to[s] IN
    /\ inHand[s] # None
    /\ mu[y] = None
    /\ mu' = [mu EXCEPT ![y] = s]
    /\ UNCHANGED <<sendVars, broken, wire, inHand, msgCh, loop, busy, delivered, faults>>

\* The send on msgCh waits, with lt.mu, while the channel is full.
PushMsg(s) ==
    LET y == to[s] IN
    /\ mu[y] = s
    /\ Len(msgCh[y]) < MsgChCap
    /\ msgCh' = [msgCh EXCEPT ![y] = Append(@, <<inHand[s], s>>)]
    /\ inHand' = [inHand EXCEPT ![s] = None]
    /\ mu' = [mu EXCEPT ![y] = None]
    /\ UNCHANGED <<sendVars, broken, wire, loop, busy, delivered, faults>>

(***************************************************************************)
(* The server loop, and what goes wrong.                                   *)
(***************************************************************************)

\* Mutant: the message is looked at and not taken.
ConsumeMsgPeeks(y) ==
    /\ loop[y] = "running"
    /\ busy[y] = None
    /\ msgCh[y] # <<>>
    /\ LET m == Head(msgCh[y])[1] IN
           /\ delivered' = delivered \cup {m}
           /\ busy' = [busy EXCEPT ![y] = reply[m]]
           /\ pc' = [q \in Message |-> IF q = reply[m] THEN "called" ELSE pc[q]]
    /\ UNCHANGED <<held, written, streams, opened, broken, wire, recvVars, loop, faults>>

\* Server.Start takes a message; its handler may send, on the loop.
ConsumeMsg(y) ==
    /\ loop[y] = "running"
    /\ busy[y] = None
    /\ msgCh[y] # <<>>
    /\ LET m == Head(msgCh[y])[1] IN
           /\ delivered' = delivered \cup {m}
           /\ busy' = [busy EXCEPT ![y] = reply[m]]
           /\ pc' = [q \in Message |-> IF q = reply[m] THEN "called" ELSE pc[q]]
    /\ msgCh' = [msgCh EXCEPT ![y] = Tail(@)]
    /\ UNCHANGED <<held, written, streams, opened, broken, wire, inHand, mu, loop, faults>>

\* The handler waits for a mutex that is never released (re.mu, see Reporting).
HandlerBlocks(y) ==
    /\ loop[y] = "running"
    /\ busy[y] = None
    /\ msgCh[y] # <<>>
    /\ loop' = [loop EXCEPT ![y] = "halted"]
    /\ delivered' = delivered \cup {Head(msgCh[y])[1]}
    /\ msgCh' = [msgCh EXCEPT ![y] = Tail(@)]
    /\ UNCHANGED <<sendVars, broken, wire, inHand, mu, busy, faults>>

Break(S) ==
    /\ broken' = broken \cup S
    /\ wire' = [s \in Message |-> IF s \in S THEN <<>> ELSE wire[s]]

\* The connection under a stream is lost.
ResetStream(s) ==
    /\ s \in opened \ broken
    /\ faults < MaxFaults
    /\ faults' = faults + 1
    /\ Break({s})
    /\ UNCHANGED <<sendVars, recvVars, loop, busy, delivered>>

\* Server.Stop ends the loop, and the transport closes its connections.
Stop(y) ==
    /\ loop[y] = "running"
    /\ busy[y] = None
    /\ loop' = [loop EXCEPT ![y] = "halted"]
    /\ Break({s \in opened : y \in {from[s], to[s]}})
    /\ UNCHANGED <<sendVars, recvVars, busy, delivered, faults>>

----------------------------------------------------------------------------
Sender(m) ==
    SendMsg(m) \/ NewStream(m) \/ StoreStream(m) \/ Write(m) \/ WriteFails(m)
Reader(s) == readLoop(s) \/ LockMu(s) \/ PushMsg(s)

Next ==
    \/ \E m \in Message :
           Sender(m) \/ Reader(m) \/ NewStreamFails(m) \/ ResetStream(m)
    \/ \E y \in Node : ConsumeMsg(y) \/ HandlerBlocks(y) \/ Stop(y)

\* Goroutines that can run are run, and Go's mutexes starve nobody; no fault,
\* no blocked handler and no stop is assumed.
Fairness ==
    /\ \A m \in Message :
           /\ WF_vars(Sender(m))
           /\ WF_vars(readLoop(m)) /\ SF_vars(LockMu(m)) /\ WF_vars(PushMsg(m))
    /\ \A y \in Node : WF_vars(ConsumeMsg(y))

Spec == Init /\ [][Next]_vars
FairSpec == Spec /\ Fairness

----------------------------------------------------------------------------
(***************************************************************************)
(* Properties                                                              *)
(***************************************************************************)

SendPc == {"idle", "called", "open", "store", "write", "sent", "failed"}
Fragment == Message \X (Nat \ {0})

TypeOK ==
    /\ pc \in [Message -> SendPc]
    /\ held \in [Message -> Message \cup {None}]
    /\ written \in [Message -> Nat]
    /\ streams \in [Node -> [Node -> Message \cup {None}]]
    /\ opened \subseteq Message
    /\ broken \subseteq opened
    /\ wire \in [Message -> Seq(Fragment)]
    /\ inHand \in [Message -> Message \cup {None}]
    /\ mu \in [Node -> Message \cup {None}]
    /\ msgCh \in [Node -> Seq(Message \X Message)]
    /\ loop \in [Node -> {"running", "halted"}]
    /\ busy \in [Node -> Message \cup {None}]
    /\ delivered \subseteq Message
    /\ faults \in 0..MaxFaults

\* <<q, m>> \in R reads "q is ahead of m": how many of M are ahead of m.
Rank(M, R, m) == Cardinality({q \in M : <<q, m>> \in R})

\* The elements of M as a sequence, in the order R.
InOrder(M, R) ==
    [k \in 1..Cardinality(M) |-> CHOOSE m \in M : Rank(M, R, m) = k - 1]

\* Where a message of stream s is that can still be delivered: in msgCh, in the
\* hand of its readLoop, or in the stream with its first fragment unread.
PushedAt(s, m, i) == i \in 1..Len(msgCh[to[s]]) /\ msgCh[to[s]][i] = <<m, s>>
UnreadAt(s, m, i) == i \in 1..Len(wire[s]) /\ wire[s][i] = <<m, 1>>

Pushed(s, m) == \E i \in 1..Len(msgCh[to[s]]) : PushedAt(s, m, i)
Unread(s, m) == \E i \in 1..Len(wire[s]) : UnreadAt(s, m, i)
Pending(s) == {m \in Message : Pushed(s, m) \/ inHand[s] = m \/ Unread(s, m)}

Precedes(s, q, m) ==
    \/ \E j \in 1..Len(msgCh[to[s]]) : \E i \in 1..(j - 1) :
           PushedAt(s, q, i) /\ PushedAt(s, m, j)
    \/ Pushed(s, q) /\ (inHand[s] = m \/ Unread(s, m))
    \/ inHand[s] = q /\ Unread(s, m)
    \/ \E j \in 1..Len(wire[s]) : \E i \in 1..(j - 1) :
           UnreadAt(s, q, i) /\ UnreadAt(s, m, j)

Ahead(s) == {e \in Pending(s) \X Pending(s) : Precedes(s, e[1], e[2])}

\* The messages of stream s that can still be delivered, the oldest first.
OnStream(s) == InOrder(Pending(s), Ahead(s))

Links == INSTANCE LossyLinks WITH
             Link <- Message,
             link <- [s \in Message |-> OnStream(s)],
             sent <- {m \in Message : written[m] > 0},
             delivered <- delivered

\* Streams, reads of any length, the shared channel and the loop together keep
\* the promise of LossyLinks: nothing arrives twice or unsent, and the messages
\* of one stream arrive in the order in which they were written.
ImplementsLinks == Links!Spec

\* No server loop is handed a message a second time, whatever was reset, split
\* or dropped on the way.
HandledOnce ==
    \A y \in Node : \A i \in 1..Len(msgCh[y]) : msgCh[y][i][1] \notin delivered

\* A message longer than the 4096 bytes of readLoop's buffer never arrives,
\* although its SendMsg returns nil: no read holds all of it.
LongNeverArrives == \A m \in delivered : size[m] <= Buffer

\* Every call from x to y ends in an error: the cached stream is broken, and no
\* call is about to open another.
CutOff(x, y) ==
    /\ streams[x][y] \in broken
    /\ \A m \in Message :
           from[m] = x /\ to[m] = y =>
               /\ pc[m] \notin {"open", "store"}
               /\ pc[m] = "write" => held[m] \in broken

\* SendMsg never replaces a stream that broke: from then on x does not write a
\* byte to y, even if y is there and is reachable.
CutOffForGood ==
    [][\A x, y \in Node :
          CutOff(x, y) =>
              /\ CutOff(x, y)'
              /\ \A m \in Message :
                     from[m] = x /\ to[m] = y => written'[m] = written[m]]_vars

\* The server loop of y takes no message.
Deaf(y) == loop[y] = "halted" \/ busy[y] # None

\* A call of SendMsg that writes returns, whatever the other readers of the
\* recipient do with lt.mu and msgCh, unless the server loop at the other end
\* stays deaf: the only thing a sender can wait for for ever.
SendReturns ==
    \A m \in Message :
        pc[m] = "write" ~> pc[m] \in {"sent", "failed"} \/ []Deaf(to[m])

\* What is on a link is delivered or lost, unless the recipient stays deaf.
LinksDrain ==
    \A s \in Message :
        Pending(s) # {} ~> Pending(s) = {} \/ []Deaf(to[s])
=============================================================================
