-------------------------- MODULE TransportProofs --------------------------
(***************************************************************************)
(* Proofs about Transport, for any hosts and messages of any size, with    *)
(* any calls, buffers and capacities, and any number of faults.            *)
(***************************************************************************)
EXTENDS Transport, SequenceTheorems, TLAPS

----------------------------------------------------------------------------
(***************************************************************************)
(* The inductive invariant: the types, by part of the state; a call that   *)
(* has a stream has an open one, and a reader that has lt.mu a message;    *)
(* and what readers, channels and loops hold fitted into one read.         *)
(***************************************************************************)

SendTypes ==
    /\ pc \in [Message -> SendPc]
    /\ held \in [Message -> Message \cup {None}]
    /\ written \in [Message -> Nat]
    /\ streams \in [Node -> [Node -> Message \cup {None}]]
    /\ opened \subseteq Message
    /\ broken \subseteq opened

SendOK(m) ==
    /\ pc[m] \in {"store", "write"} => held[m] \in opened
    /\ written[m] <= size[m]

CacheOK(x, y) == streams[x][y] \in opened \cup {None}

WireTypes == wire \in [Message -> Seq(Fragment)]

RecvTypes ==
    /\ inHand \in [Message -> Message \cup {None}]
    /\ mu \in [Node -> Message \cup {None}]
    /\ msgCh \in [Node -> Seq(Message \X Message)]

MuOK(y) == mu[y] # None => inHand[mu[y]] # None /\ to[mu[y]] = y

LoopTypes ==
    /\ loop \in [Node -> {"running", "halted"}]
    /\ busy \in [Node -> Message \cup {None}]
    /\ delivered \subseteq Message
    /\ faults \in 0..MaxFaults

Fits(m) == size[m] <= Buffer
HandFits(s) == inHand[s] # None => Fits(inHand[s])
ChannelFits(y) == \A i \in DOMAIN msgCh[y] : Fits(msgCh[y][i][1])

SendInv ==
    /\ SendTypes
    /\ \A m \in Message : SendOK(m)
    /\ \A x, y \in Node : CacheOK(x, y)

RecvInv ==
    /\ RecvTypes
    /\ \A y \in Node : MuOK(y)
    /\ \A s \in Message : HandFits(s)
    /\ \A y \in Node : ChannelFits(y)

IInv ==
    /\ SendInv
    /\ WireTypes
    /\ RecvInv
    /\ LoopTypes
    /\ LongNeverArrives

\* What is known of a message and of its sender and recipient.
LEMMA MessageTypes ==
    ASSUME NEW m \in Message
    PROVE  /\ from[m] \in Node /\ to[m] \in Node
           /\ size[m] \in Nat /\ size[m] >= 1
           /\ next[m] \in Message \cup {None} /\ reply[m] \in Message \cup {None}
           /\ m # None
BY NodeAssumption, MessageAssumption

\* The invariant holds at the start.
LEMMA InitInv == Init => IInv
<1> SUFFICES ASSUME Init PROVE IInv
  OBVIOUS
<1>1. SendTypes
  BY DEF Init, SendTypes, SendPc
<1>2. \A m \in Message : SendOK(m)
  BY MessageTypes DEF Init, SendOK
<1>3. \A x, y \in Node : CacheOK(x, y)
  BY DEF Init, CacheOK
<1>4. WireTypes
  BY DEF Init, WireTypes
<1>5. RecvInv
  BY DEF Init, RecvInv, RecvTypes, MuOK, HandFits, ChannelFits
<1>6. LoopTypes /\ LongNeverArrives
  BY BufferAssumption DEF Init, LoopTypes, LongNeverArrives
<1> QED BY <1>1, <1>2, <1>3, <1>4, <1>5, <1>6 DEF IInv, SendInv

\* What a step leaves alone keeps its part of the invariant.
LEMMA SendFrame == ASSUME SendInv, UNCHANGED sendVars, UNCHANGED broken PROVE SendInv'
BY DEF SendInv, SendTypes, SendOK, CacheOK, sendVars

\* The same for the receiving side.
LEMMA RecvFrame == ASSUME RecvInv, UNCHANGED recvVars PROVE RecvInv'
BY DEF RecvInv, RecvTypes, MuOK, HandFits, ChannelFits, recvVars

----------------------------------------------------------------------------
(***************************************************************************)
(* SendMsg.                                                                *)
(***************************************************************************)

\* The end of a call keeps the sending side and the loops in order.
LEMMA ReturnInv ==
    ASSUME IInv, NEW m \in Message, NEW how \in {"sent", "failed"}, Return(m, how),
           UNCHANGED <<held, streams, opened, broken, loop, delivered>>,
           written' \in [Message -> Nat],
           \A q \in Message : written'[q] <= size[q],
           faults' \in 0..MaxFaults
    PROVE  SendInv' /\ LoopTypes' /\ LongNeverArrives'
<1>1. pc' = [q \in Message |-> IF q = m THEN how
                               ELSE IF q = next[m] THEN "called" ELSE pc[q]]
  BY DEF Return
<1>2. pc' \in [Message -> SendPc]
  BY <1>1 DEF IInv, SendInv, SendTypes, SendPc
<1>3. SendTypes'
  BY <1>2 DEF IInv, SendInv, SendTypes
<1>4. ASSUME NEW q \in Message
      PROVE  SendOK(q)'
  <2>1. pc'[q] \in {"store", "write"} => pc'[q] = pc[q]
    BY <1>1
  <2> QED BY <2>1 DEF IInv, SendInv, SendOK
<1>5. \A x, y \in Node : CacheOK(x, y)'
  BY DEF IInv, SendInv, CacheOK
<1>6. busy' \in [Node -> Message \cup {None}]
  BY MessageTypes DEF IInv, LoopTypes, Return
<1> QED BY <1>3, <1>4, <1>5, <1>6 DEF IInv, SendInv, LoopTypes, LongNeverArrives

\* The cache is read.
LEMMA SendMsgInv == ASSUME IInv, NEW m \in Message, SendMsg(m) PROVE IInv'
<1> DEFINE cached == streams[from[m]][to[m]]
<1>1. /\ held' = [held EXCEPT ![m] = cached]
      /\ pc' = [pc EXCEPT ![m] = IF cached = None THEN "open" ELSE "write"]
      /\ UNCHANGED <<written, streams, opened, broken, wire, recvVars, loop, busy>>
      /\ UNCHANGED <<delivered, faults>>
  BY DEF SendMsg
<1>2. cached \in opened \cup {None} /\ SendTypes
  BY MessageTypes DEF IInv, SendInv, CacheOK
<1> HIDE DEF cached
<1>3. SendTypes'
  BY <1>1, <1>2 DEF SendTypes, SendPc
<1>4. ASSUME NEW q \in Message
      PROVE  SendOK(q)'
  <2>1. CASE q = m
    <3>1. pc'[q] \in {"store", "write"} => cached # None
      BY <1>1, <1>2, <2>1 DEF SendTypes
    <3>2. held'[q] = cached
      BY <1>1, <1>2, <2>1 DEF SendTypes
    <3> QED BY <1>1, <1>2, <3>1, <3>2 DEF IInv, SendInv, SendOK
  <2>2. CASE q # m
    BY <1>1, <1>2, <2>2 DEF IInv, SendInv, SendOK, SendTypes
  <2> QED BY <2>1, <2>2
<1>5. \A x, y \in Node : CacheOK(x, y)'
  BY <1>1 DEF IInv, SendInv, CacheOK
<1>6. WireTypes' /\ LoopTypes' /\ LongNeverArrives'
  BY <1>1 DEF IInv, WireTypes, LoopTypes, LongNeverArrives
<1>7. RecvInv'
  BY <1>1, RecvFrame DEF IInv
<1> QED BY <1>3, <1>4, <1>5, <1>6, <1>7 DEF IInv, SendInv

\* A stream is opened.
LEMMA NewStreamInv == ASSUME IInv, NEW m \in Message, NewStream(m) PROVE IInv'
<1>1. /\ opened' = opened \cup {m}
      /\ held' = [held EXCEPT ![m] = m]
      /\ pc' = [pc EXCEPT ![m] = "store"]
      /\ UNCHANGED <<written, streams, broken, wire, recvVars, loop, busy, delivered, faults>>
  BY DEF NewStream
<1>2. SendTypes
  BY DEF IInv, SendInv
<1>3. SendTypes'
  BY <1>1, <1>2 DEF SendTypes, SendPc
<1>4. ASSUME NEW q \in Message
      PROVE  SendOK(q)'
  <2>1. CASE q = m
    BY <1>1, <1>2, <2>1 DEF IInv, SendInv, SendOK, SendTypes
  <2>2. CASE q # m
    BY <1>1, <1>2, <2>2 DEF IInv, SendInv, SendOK, SendTypes
  <2> QED BY <2>1, <2>2
<1>5. \A x, y \in Node : CacheOK(x, y)'
  BY <1>1 DEF IInv, SendInv, CacheOK
<1>6. WireTypes' /\ LoopTypes' /\ LongNeverArrives'
  BY <1>1 DEF IInv, WireTypes, LoopTypes, LongNeverArrives
<1>7. RecvInv'
  BY <1>1, RecvFrame DEF IInv
<1> QED BY <1>3, <1>4, <1>5, <1>6, <1>7 DEF IInv, SendInv

\* A stream is put into the cache.
LEMMA StoreStreamInv == ASSUME IInv, NEW m \in Message, StoreStream(m) PROVE IInv'
<1>1. /\ streams' = [streams EXCEPT ![from[m]][to[m]] = held[m]]
      /\ pc' = [pc EXCEPT ![m] = "write"]
      /\ UNCHANGED <<held, written, opened, broken, wire, recvVars, loop, busy, delivered>>
      /\ UNCHANGED faults
  BY DEF StoreStream
<1>2. SendTypes /\ held[m] \in opened /\ from[m] \in Node /\ to[m] \in Node
  BY MessageTypes DEF IInv, SendInv, SendOK, StoreStream
<1>3. /\ streams' \in [Node -> [Node -> Message \cup {None}]]
      /\ \A x, y \in Node : streams'[x][y] \in {streams[x][y], held[m]}
  BY <1>1, <1>2 DEF SendTypes
<1>4. SendTypes'
  BY <1>1, <1>2, <1>3 DEF SendTypes, SendPc
<1>5. ASSUME NEW q \in Message
      PROVE  SendOK(q)'
  <2>1. CASE q = m
    BY <1>1, <1>2, <2>1 DEF IInv, SendInv, SendOK, SendTypes
  <2>2. CASE q # m
    BY <1>1, <1>2, <2>2 DEF IInv, SendInv, SendOK, SendTypes
  <2> QED BY <2>1, <2>2
<1>6. \A x, y \in Node : CacheOK(x, y)'
  BY <1>1, <1>2, <1>3 DEF IInv, SendInv, CacheOK
<1>7. WireTypes' /\ LoopTypes' /\ LongNeverArrives'
  BY <1>1 DEF IInv, WireTypes, LoopTypes, LongNeverArrives
<1>8. RecvInv'
  BY <1>1, RecvFrame DEF IInv
<1> QED BY <1>4, <1>5, <1>6, <1>7, <1>8 DEF IInv, SendInv

\* What Write appends: some fragments, no more than the message still has.
LEMMA ChunkTypes ==
    ASSUME IInv, NEW m \in Message, held[m] \in Message, Len(wire[held[m]]) < Window
    PROVE  /\ Chunk(m) \in Seq(Fragment)
           /\ Len(Chunk(m)) = Smaller(Window - Len(wire[held[m]]), size[m] - written[m])
           /\ \A i \in 1..Len(Chunk(m)) : Chunk(m)[i] = <<m, written[m] + i>>
           /\ Len(Chunk(m)) \in Nat /\ written[m] + Len(Chunk(m)) <= size[m]
<1> DEFINE room == Window - Len(wire[held[m]])
           n == Smaller(room, size[m] - written[m])
<1>1. Len(wire[held[m]]) \in Nat /\ Window \in Nat
  BY BufferAssumption DEF IInv, WireTypes
<1>2. written[m] \in Nat /\ size[m] \in Nat /\ written[m] <= size[m]
  BY MessageTypes DEF IInv, SendInv, SendTypes, SendOK
<1>3. n \in Nat /\ written[m] + n <= size[m]
  BY <1>1, <1>2 DEF Smaller
<1>4. Chunk(m) = [i \in 1..n |-> <<m, written[m] + i>>]
  BY DEF Chunk
<1> HIDE DEF n
<1>5. Chunk(m) \in [1..n -> Fragment]
  BY <1>2, <1>3, <1>4 DEF Fragment
<1>6. Chunk(m) \in Seq(Fragment) /\ Len(Chunk(m)) = n
  BY <1>3, <1>5, <1>4
<1> QED BY <1>3, <1>4, <1>6 DEF n

\* Fragments are written.
LEMMA WriteInv == ASSUME IInv, NEW m \in Message, Write(m) PROVE IInv'
<1>1. /\ pc[m] = "write" /\ Len(wire[held[m]]) < Window
      /\ wire' = [wire EXCEPT ![held[m]] = @ \o Chunk(m)]
      /\ written' = [written EXCEPT ![m] = @ + Len(Chunk(m))]
      /\ UNCHANGED <<held, streams, opened, broken, recvVars, loop, delivered, faults>>
      /\ Return(m, "sent") \/ UNCHANGED <<pc, busy>>
  BY DEF Write
<1>2. SendTypes /\ held[m] \in Message
  BY <1>1 DEF IInv, SendInv, SendTypes, SendOK
<1>3. /\ Chunk(m) \in Seq(Fragment) /\ Len(Chunk(m)) \in Nat
      /\ written[m] + Len(Chunk(m)) <= size[m]
  BY <1>1, <1>2, ChunkTypes
<1>4. WireTypes'
  <2>1. wire[held[m]] \in Seq(Fragment)
    BY <1>2 DEF IInv, WireTypes
  <2>2. wire[held[m]] \o Chunk(m) \in Seq(Fragment)
    BY <2>1, <1>3
  <2> QED BY <1>1, <2>2 DEF IInv, WireTypes
<1>5. written' \in [Message -> Nat] /\ \A q \in Message : written'[q] <= size[q]
  BY <1>1, <1>2, <1>3 DEF IInv, SendInv, SendTypes, SendOK
<1>6. SendInv' /\ LoopTypes' /\ LongNeverArrives'
  <2>1. CASE Return(m, "sent")
    <3>1. faults' \in 0..MaxFaults
      BY <1>1 DEF IInv, LoopTypes
    <3> QED BY <1>1, <1>5, <2>1, <3>1, ReturnInv
  <2>2. CASE UNCHANGED <<pc, busy>>
    BY <1>1, <1>5, <2>2
       DEF IInv, SendInv, SendTypes, SendOK, CacheOK, LoopTypes, LongNeverArrives
  <2> QED BY <1>1, <2>1, <2>2
<1> QED BY <1>1, <1>4, <1>6, RecvFrame DEF IInv

\* A call fails, on a broken stream or because none can be opened.
LEMMA SendFailsInv ==
    ASSUME IInv, NEW m \in Message, WriteFails(m) \/ NewStreamFails(m)
    PROVE  IInv'
<1>1. /\ UNCHANGED <<held, written, streams, opened, broken, wire, recvVars, loop, delivered>>
      /\ Return(m, "failed")
      /\ faults' = faults \/ (faults < MaxFaults /\ faults' = faults + 1)
  BY DEF WriteFails, NewStreamFails
<1>2. faults' \in 0..MaxFaults
  BY <1>1, BufferAssumption DEF IInv, LoopTypes
<1>3. written' \in [Message -> Nat] /\ \A q \in Message : written'[q] <= size[q]
  BY <1>1 DEF IInv, SendInv, SendTypes, SendOK
<1>4. SendInv' /\ LoopTypes' /\ LongNeverArrives'
  BY <1>1, <1>2, <1>3, ReturnInv
<1>5. WireTypes'
  BY <1>1 DEF IInv, WireTypes
<1> QED BY <1>1, <1>4, <1>5, RecvFrame DEF IInv

----------------------------------------------------------------------------
(***************************************************************************)
(* readLoop, the server loop, and faults.                                  *)
(***************************************************************************)

\* What a read decodes is a whole message, and fits into the buffer.
LEMMA DecodedFits ==
    ASSUME NEW data \in Seq(Fragment), Decodes(data), Len(data) <= Buffer
    PROVE  data[1][1] \in Message /\ Fits(data[1][1]) /\ data[1] = <<data[1][1], 1>>
           /\ Len(data) >= 1
<1>1. PICK m \in Message : data = [i \in 1..size[m] |-> <<m, i>>]
  BY DEF Decodes
<1>2. size[m] \in Nat /\ size[m] >= 1
  BY MessageTypes
<1>3. DOMAIN data = 1..size[m] /\ DOMAIN data = 1..Len(data) /\ Len(data) \in Nat
  <2>1. DOMAIN data = 1..size[m]
    BY <1>1
  <2>2. DOMAIN data = 1..Len(data) /\ Len(data) \in Nat
    OBVIOUS
  <2> QED BY <2>1, <2>2
<1>4. Len(data) = size[m]
  BY <1>2, <1>3
<1>5. data[1] = <<m, 1>>
  BY <1>1, <1>2
<1> QED BY <1>2, <1>4, <1>5 DEF Fits

\* The first k fragments of a stream, and the rest.
LEMMA ReadTypes ==
    ASSUME NEW w \in Seq(Fragment), NEW k \in 1..Smaller(Buffer, Len(w))
    PROVE  /\ SubSeq(w, 1, k) \in Seq(Fragment) /\ Len(SubSeq(w, 1, k)) = k
           /\ \A i \in 1..k : SubSeq(w, 1, k)[i] = w[i]
           /\ SubSeq(w, k + 1, Len(w)) \in Seq(Fragment)
           /\ Len(SubSeq(w, k + 1, Len(w))) = Len(w) - k
           /\ \A i \in 1..Len(w) - k : SubSeq(w, k + 1, Len(w))[i] = w[k + i]
           /\ k \in Nat /\ k >= 1 /\ k <= Buffer /\ k <= Len(w) /\ Len(w) \in Nat
<1>1. Len(w) \in Nat /\ k \in Nat /\ k >= 1 /\ k <= Buffer /\ k <= Len(w)
  BY BufferAssumption DEF Smaller
<1>2. /\ SubSeq(w, 1, k) \in Seq(Fragment) /\ Len(SubSeq(w, 1, k)) = k
      /\ \A i \in 1..k : SubSeq(w, 1, k)[i] = w[i]
  BY <1>1
<1>3. /\ SubSeq(w, k + 1, Len(w)) \in Seq(Fragment)
      /\ Len(SubSeq(w, k + 1, Len(w))) = Len(w) - k
      /\ \A i \in 1..Len(w) - k : SubSeq(w, k + 1, Len(w))[i] = w[k + i]
  <2> DEFINE m == k + 1
             n == Len(w)
  <2>1. m \in Int /\ n \in Int /\ \A i \in m..n : w[i] \in Fragment
    BY <1>1
  <2>2. n - m + 1 = n - k /\ (m <= n \/ n - k = 0)
    BY <1>1
  <2>3. \A i \in 1..n - k : m + i - 1 = k + i
    BY <1>1
  <2> HIDE DEF m, n
  <2>4. /\ SubSeq(w, m, n) \in Seq(Fragment)
        /\ Len(SubSeq(w, m, n)) = IF m <= n THEN n - m + 1 ELSE 0
        /\ \A i \in 1..n - m + 1 : SubSeq(w, m, n)[i] = w[m + i - 1]
    BY <2>1, SubSeqProperties
  <2>5. Len(SubSeq(w, m, n)) = n - k
    BY <2>2, <2>4
  <2>6. \A i \in 1..n - k : SubSeq(w, m, n)[i] = w[k + i]
    BY <2>2, <2>3, <2>4
  <2> QED BY <2>4, <2>5, <2>6 DEF m, n
<1> QED BY <1>1, <1>2, <1>3

\* One read.
LEMMA readLoopInv == ASSUME IInv, NEW s \in Message, readLoop(s) PROVE IInv'
<1> DEFINE w == wire[s]
<1>1. /\ inHand[s] = None
      /\ UNCHANGED <<sendVars, broken, mu, msgCh, loop, busy, delivered, faults>>
  BY DEF readLoop
<1>2. PICK k \in 1..Smaller(Buffer, Len(w)) :
          /\ wire' = [wire EXCEPT ![s] = SubSeq(@, k + 1, Len(@))]
          /\ inHand' = [inHand EXCEPT ![s] = IF Decodes(SubSeq(w, 1, k))
                                             THEN SubSeq(w, 1, k)[1][1] ELSE None]
  BY DEF readLoop
<1>3. w \in Seq(Fragment)
  BY DEF IInv, WireTypes
<1>4. WireTypes'
  BY <1>2, <1>3, ReadTypes DEF IInv, WireTypes
<1>5. RecvTypes /\ (inHand'[s] # None => inHand'[s] \in Message /\ Fits(inHand'[s]))
  <2>1. RecvTypes
    BY DEF IInv, RecvInv
  <2>2. inHand'[s] = IF Decodes(SubSeq(w, 1, k)) THEN SubSeq(w, 1, k)[1][1] ELSE None
    BY <1>2, <2>1 DEF RecvTypes
  <2>3. SubSeq(w, 1, k) \in Seq(Fragment) /\ Len(SubSeq(w, 1, k)) <= Buffer
    BY <1>3, ReadTypes
  <2> QED BY <2>1, <2>2, <2>3, DecodedFits
<1>6. /\ RecvTypes'
      /\ \A q \in Message : q # s => inHand'[q] = inHand[q]
  BY <1>1, <1>2, <1>5 DEF RecvTypes
<1>7. RecvInv'
  <2>1. \A y \in Node : MuOK(y)'
    BY <1>1, <1>5, <1>6 DEF IInv, RecvInv, RecvTypes, MuOK
  <2>2. \A q \in Message : HandFits(q)'
    BY <1>5, <1>6 DEF IInv, RecvInv, HandFits, Fits
  <2>3. \A y \in Node : ChannelFits(y)'
    BY <1>1 DEF IInv, RecvInv, ChannelFits, Fits
  <2> QED BY <1>6, <2>1, <2>2, <2>3 DEF RecvInv
<1>8. LoopTypes' /\ LongNeverArrives'
  BY <1>1 DEF IInv, LoopTypes, LongNeverArrives
<1> QED BY <1>1, <1>4, <1>7, <1>8, SendFrame DEF IInv

\* A reader takes lt.mu.
LEMMA LockMuInv == ASSUME IInv, NEW s \in Message, LockMu(s) PROVE IInv'
<1>1. /\ inHand[s] # None /\ mu' = [mu EXCEPT ![to[s]] = s]
      /\ UNCHANGED <<sendVars, broken, wire, inHand, msgCh, loop, busy, delivered, faults>>
  BY DEF LockMu
<1>2. RecvInv'
  BY <1>1, MessageTypes DEF IInv, RecvInv, RecvTypes, MuOK, HandFits, ChannelFits
<1>3. WireTypes' /\ LoopTypes' /\ LongNeverArrives'
  BY <1>1 DEF IInv, WireTypes, LoopTypes, LongNeverArrives
<1> QED BY <1>1, <1>2, <1>3, SendFrame DEF IInv

\* A reader pushes its message and releases lt.mu.
LEMMA PushMsgInv == ASSUME IInv, NEW s \in Message, PushMsg(s) PROVE IInv'
<1> DEFINE y == to[s]
<1>1. /\ mu[y] = s
      /\ msgCh' = [msgCh EXCEPT ![y] = Append(@, <<inHand[s], s>>)]
      /\ inHand' = [inHand EXCEPT ![s] = None]
      /\ mu' = [mu EXCEPT ![y] = None]
      /\ UNCHANGED <<sendVars, broken, wire, loop, busy, delivered, faults>>
  BY DEF PushMsg
<1>2. RecvTypes /\ y \in Node /\ s # None
  BY MessageTypes DEF IInv, RecvInv
<1>3. inHand[s] \in Message /\ Fits(inHand[s])
  BY <1>1, <1>2 DEF IInv, RecvInv, RecvTypes, MuOK, HandFits
<1>4. /\ msgCh[y] \in Seq(Message \X Message)
      /\ Append(msgCh[y], <<inHand[s], s>>) \in Seq(Message \X Message)
      /\ DOMAIN Append(msgCh[y], <<inHand[s], s>>) = 1..Len(msgCh[y]) + 1
      /\ \A i \in 1..Len(msgCh[y]) + 1 :
             Append(msgCh[y], <<inHand[s], s>>)[i] =
                 IF i = Len(msgCh[y]) + 1 THEN <<inHand[s], s>> ELSE msgCh[y][i]
      /\ DOMAIN msgCh[y] = 1..Len(msgCh[y]) /\ Len(msgCh[y]) \in Nat
  BY <1>2, <1>3, AppendProperties DEF RecvTypes
<1>5. RecvTypes'
  BY <1>1, <1>2, <1>4 DEF RecvTypes
<1>6. ASSUME NEW z \in Node
      PROVE  MuOK(z)'
  <2>1. CASE z = y
    BY <1>1, <1>2, <2>1 DEF MuOK, RecvTypes
  <2>2. CASE z # y /\ mu[z] # s
    BY <1>1, <1>2, <2>2 DEF IInv, RecvInv, MuOK, RecvTypes
  <2>3. CASE z # y /\ mu[z] = s
    BY <1>2, <2>3 DEF IInv, RecvInv, MuOK
  <2> QED BY <2>1, <2>2, <2>3
<1>7. \A q \in Message : HandFits(q)'
  BY <1>1, <1>2 DEF IInv, RecvInv, RecvTypes, HandFits, Fits
<1>8. ASSUME NEW z \in Node
      PROVE  ChannelFits(z)'
  <2>1. CASE z # y
    BY <1>1, <1>2, <2>1 DEF IInv, RecvInv, RecvTypes, ChannelFits, Fits
  <2>2. CASE z = y
    <3>1. msgCh'[y] = Append(msgCh[y], <<inHand[s], s>>)
      BY <1>1, <1>2 DEF RecvTypes
    <3>2. ASSUME NEW i \in 1..Len(msgCh[y]) + 1
          PROVE  Fits(Append(msgCh[y], <<inHand[s], s>>)[i][1])
      BY <1>2, <1>3, <1>4 DEF IInv, RecvInv, ChannelFits
    <3> QED BY <2>2, <3>1, <3>2, <1>4 DEF ChannelFits, Fits
  <2> QED BY <2>1, <2>2
<1>9. WireTypes' /\ LoopTypes' /\ LongNeverArrives'
  BY <1>1 DEF IInv, WireTypes, LoopTypes, LongNeverArrives
<1> QED BY <1>1, <1>5, <1>6, <1>7, <1>8, <1>9, SendFrame DEF IInv, RecvInv

\* The server loop takes a message, and answers it or stays with it.
LEMMA TakeInv ==
    ASSUME IInv, NEW y \in Node, msgCh[y] # <<>>,
           msgCh' = [msgCh EXCEPT ![y] = Tail(@)],
           delivered' = delivered \cup {Head(msgCh[y])[1]},
           UNCHANGED <<inHand, mu>>
    PROVE  /\ RecvInv' /\ LongNeverArrives'
           /\ Head(msgCh[y])[1] \in Message /\ delivered' \subseteq Message
<1> DEFINE ch == msgCh[y]
<1>1. RecvTypes /\ ch \in Seq(Message \X Message) /\ ch # <<>>
  BY DEF IInv, RecvInv, RecvTypes
<1>2. /\ Head(ch) = ch[1] /\ 1 \in DOMAIN ch /\ Len(ch) \in Nat
      /\ DOMAIN ch = 1..Len(ch)
  BY <1>1
<1>3. /\ Head(ch) \in Message \X Message
      /\ Tail(ch) \in Seq(Message \X Message)
      /\ Len(Tail(ch)) = Len(ch) - 1
      /\ \A i \in 1..Len(Tail(ch)) : Tail(ch)[i] = ch[i + 1]
  BY <1>1, HeadTailProperties
<1>4. Fits(Head(ch)[1]) /\ Head(ch)[1] \in Message
  BY <1>2, <1>3 DEF IInv, RecvInv, ChannelFits
<1>5. RecvTypes'
  BY <1>1, <1>3 DEF RecvTypes
<1>6. ASSUME NEW z \in Node
      PROVE  ChannelFits(z)'
  <2>1. CASE z # y
    BY <1>1, <2>1 DEF IInv, RecvInv, RecvTypes, ChannelFits, Fits
  <2>2. CASE z = y
    <3>1. msgCh'[y] = Tail(ch)
      BY <1>1 DEF RecvTypes
    <3>2. ASSUME NEW i \in 1..Len(Tail(ch))
          PROVE  Fits(Tail(ch)[i][1])
      <4>1. Tail(ch)[i] = ch[i + 1] /\ i + 1 \in DOMAIN ch
        BY <1>2, <1>3
      <4> QED BY <4>1 DEF IInv, RecvInv, ChannelFits
    <3>3. DOMAIN Tail(ch) = 1..Len(Tail(ch))
      BY <1>3
    <3> QED BY <2>2, <3>1, <3>2, <3>3 DEF ChannelFits, Fits
  <2> QED BY <2>1, <2>2
<1>7. (\A z \in Node : MuOK(z))' /\ (\A q \in Message : HandFits(q))'
  BY DEF IInv, RecvInv, MuOK, HandFits, Fits
<1>8. LongNeverArrives' /\ delivered' \subseteq Message
  BY <1>4 DEF IInv, LongNeverArrives, LoopTypes, Fits
<1> QED BY <1>4, <1>5, <1>6, <1>7, <1>8 DEF RecvInv

\* The loop calls a handler, which may send.
LEMMA ConsumeMsgInv == ASSUME IInv, NEW y \in Node, ConsumeMsg(y) PROVE IInv'
<1> DEFINE m == Head(msgCh[y])[1]
<1>1. /\ msgCh[y] # <<>>
      /\ msgCh' = [msgCh EXCEPT ![y] = Tail(@)]
      /\ delivered' = delivered \cup {m}
      /\ busy' = [busy EXCEPT ![y] = reply[m]]
      /\ pc' = [q \in Message |-> IF q = reply[m] THEN "called" ELSE pc[q]]
      /\ UNCHANGED <<held, written, streams, opened, broken, wire, inHand, mu, loop, faults>>
  BY DEF ConsumeMsg
<1>2. RecvInv' /\ LongNeverArrives' /\ m \in Message /\ delivered' \subseteq Message
  BY <1>1, TakeInv
<1>3. reply[m] \in Message \cup {None}
  BY <1>2, MessageTypes
<1> HIDE DEF m
<1>4. LoopTypes'
  BY <1>1, <1>2, <1>3 DEF IInv, LoopTypes
<1>5. SendTypes'
  <2>1. pc' \in [Message -> SendPc]
    BY <1>1 DEF IInv, SendInv, SendTypes, SendPc
  <2> QED BY <1>1, <2>1 DEF IInv, SendInv, SendTypes
<1>6. ASSUME NEW q \in Message
      PROVE  SendOK(q)'
  <2>1. pc'[q] \in {"store", "write"} => pc'[q] = pc[q]
    BY <1>1
  <2> QED BY <1>1, <2>1 DEF IInv, SendInv, SendOK
<1>7. (\A a, b \in Node : CacheOK(a, b))' /\ WireTypes'
  BY <1>1 DEF IInv, SendInv, CacheOK, WireTypes
<1> QED BY <1>2, <1>4, <1>5, <1>6, <1>7 DEF IInv, SendInv

\* A handler never returns.
LEMMA HandlerBlocksInv == ASSUME IInv, NEW y \in Node, HandlerBlocks(y) PROVE IInv'
<1>1. /\ msgCh[y] # <<>>
      /\ loop' = [loop EXCEPT ![y] = "halted"]
      /\ msgCh' = [msgCh EXCEPT ![y] = Tail(@)]
      /\ delivered' = delivered \cup {Head(msgCh[y])[1]}
      /\ UNCHANGED <<sendVars, broken, wire, inHand, mu, busy, faults>>
  BY DEF HandlerBlocks
<1>2. RecvInv' /\ LongNeverArrives' /\ delivered' \subseteq Message
  BY <1>1, TakeInv
<1>3. LoopTypes' /\ WireTypes'
  BY <1>1, <1>2 DEF IInv, LoopTypes, WireTypes
<1> QED BY <1>1, <1>2, <1>3, SendFrame DEF IInv

\* Streams break: one of them, or all of a node that stops.
LEMMA BreakInv ==
    ASSUME IInv, NEW S \in SUBSET opened, Break(S),
           UNCHANGED <<sendVars, recvVars, busy, delivered>>,
           loop' \in [Node -> {"running", "halted"}], faults' \in 0..MaxFaults
    PROVE  IInv'
<1>1. SendInv'
  BY DEF IInv, SendInv, SendTypes, SendOK, CacheOK, Break, sendVars
<1>2. WireTypes'
  BY DEF IInv, WireTypes, Break
<1>3. LoopTypes' /\ LongNeverArrives'
  BY DEF IInv, LoopTypes, LongNeverArrives
<1> QED BY <1>1, <1>2, <1>3, RecvFrame DEF IInv

\* Every step keeps the invariant.
LEMMA NextInv == IInv /\ [Next]_vars => IInv'
<1> SUFFICES ASSUME IInv, [Next]_vars PROVE IInv'
  OBVIOUS
<1>1. ASSUME NEW m \in Message, ResetStream(m)
      PROVE  IInv'
  <2>1. /\ {m} \in SUBSET opened /\ Break({m})
        /\ UNCHANGED <<sendVars, recvVars, loop, busy, delivered>>
        /\ faults < MaxFaults /\ faults' = faults + 1
    BY <1>1 DEF ResetStream
  <2>2. loop' \in [Node -> {"running", "halted"}] /\ faults' \in 0..MaxFaults
    BY <2>1, BufferAssumption DEF IInv, LoopTypes
  <2> QED BY <2>1, <2>2, BreakInv
<1>2. ASSUME NEW y \in Node, Stop(y)
      PROVE  IInv'
  <2> DEFINE S == {s \in opened : y \in {from[s], to[s]}}
  <2>1. /\ S \in SUBSET opened /\ Break(S)
        /\ UNCHANGED <<sendVars, recvVars, busy, delivered, faults>>
        /\ loop' = [loop EXCEPT ![y] = "halted"]
    BY <1>2 DEF Stop
  <2> HIDE DEF S
  <2>2. loop' \in [Node -> {"running", "halted"}] /\ faults' \in 0..MaxFaults
    BY <2>1 DEF IInv, LoopTypes
  <2> QED BY <2>1, <2>2, BreakInv
<1>3. CASE UNCHANGED vars
  <2>1. UNCHANGED <<sendVars, broken, wire, recvVars, loop, busy, delivered, faults>>
    BY <1>3 DEF vars, sendVars, recvVars
  <2>2. WireTypes' /\ LoopTypes' /\ LongNeverArrives'
    BY <2>1 DEF IInv, WireTypes, LoopTypes, LongNeverArrives
  <2> QED BY <2>1, <2>2, SendFrame, RecvFrame DEF IInv
<1>4. CASE \E m \in Message :
              Sender(m) \/ Reader(m) \/ NewStreamFails(m) \/ ResetStream(m)
  BY <1>1, <1>4, SendMsgInv, NewStreamInv, StoreStreamInv, WriteInv, SendFailsInv,
     readLoopInv, LockMuInv, PushMsgInv DEF Sender, Reader
<1>5. CASE \E y \in Node : ConsumeMsg(y) \/ HandlerBlocks(y) \/ Stop(y)
  BY <1>2, <1>5, ConsumeMsgInv, HandlerBlocksInv
<1> QED BY <1>3, <1>4, <1>5 DEF Next

\* The invariant holds always.
LEMMA Invariance == Spec => []IInv
BY InitInv, NextInv, PTL DEF Spec

----------------------------------------------------------------------------
\* Every variable of the transport keeps its type, for any network and faults.
THEOREM TypeCorrect == Spec => []TypeOK
<1>1. IInv => TypeOK
  BY DEF IInv, SendInv, SendTypes, WireTypes, RecvInv, RecvTypes, LoopTypes, TypeOK
<1> QED BY <1>1, Invariance, PTL

\* Nothing longer than the read buffer is ever delivered, however it is split.
THEOREM LongMessagesLost == Spec => []LongNeverArrives
<1>1. IInv => LongNeverArrives
  BY DEF IInv
<1> QED BY <1>1, Invariance, PTL

\* Only a message of the pair can change what cuts it off, and none does.
LEMMA CutOffStep ==
    ASSUME IInv, Next, NEW x \in Node, NEW y \in Node, CutOff(x, y),
           NEW m \in Message, from[m] = x, to[m] = y
    PROVE  /\ pc'[m] \notin {"open", "store"}
           /\ pc'[m] = "write" => held'[m] \in broken'
           /\ written'[m] = written[m]
<1>0. /\ SendTypes /\ pc[m] \notin {"open", "store"}
      /\ pc[m] = "write" => held[m] \in broken
      /\ streams[x][y] \in broken /\ streams[x][y] # None
  BY NodeAssumption DEF IInv, SendInv, SendTypes, CutOff
<1>1. ASSUME NEW q \in Message, SendMsg(q)
      PROVE  /\ pc'[m] \notin {"open", "store"}
             /\ pc'[m] = "write" => held'[m] \in broken'
             /\ written'[m] = written[m]
  <2>1. CASE q = m
    <3>1. /\ held'[m] = streams[x][y]
          /\ pc'[m] = IF streams[x][y] = None THEN "open" ELSE "write"
          /\ broken' = broken /\ written' = written
      BY <1>0, <1>1, <2>1 DEF SendMsg, SendTypes
    <3> QED BY <1>0, <3>1
  <2>2. CASE q # m
    BY <1>0, <1>1, <2>2 DEF SendMsg, SendTypes
  <2> QED BY <2>1, <2>2
<1>2. ASSUME NEW q \in Message, NewStream(q) \/ StoreStream(q)
      PROVE  /\ pc'[m] \notin {"open", "store"}
             /\ pc'[m] = "write" => held'[m] \in broken'
             /\ written'[m] = written[m]
  <2>1. q # m
    BY <1>0, <1>2 DEF NewStream, StoreStream
  <2> QED BY <1>0, <1>2, <2>1 DEF NewStream, StoreStream, SendTypes
<1>3. ASSUME NEW q \in Message, NEW how \in {"sent", "failed"}, Return(q, how)
      PROVE  /\ pc'[m] \notin {"open", "store"}
             /\ pc'[m] = "write" => pc[m] = "write"
  BY <1>0, <1>3 DEF Return
<1>4. ASSUME NEW q \in Message, Write(q)
      PROVE  /\ pc'[m] \notin {"open", "store"}
             /\ pc'[m] = "write" => held'[m] \in broken'
             /\ written'[m] = written[m]
  <2>1. q # m
    BY <1>0, <1>4 DEF Write
  <2>2. /\ written'[m] = written[m] /\ held' = held /\ broken' = broken
        /\ Return(q, "sent") \/ pc' = pc
    BY <1>0, <1>4, <2>1 DEF Write, SendTypes
  <2> QED BY <1>0, <1>3, <2>2
<1>5. ASSUME NEW q \in Message, WriteFails(q) \/ NewStreamFails(q)
      PROVE  /\ pc'[m] \notin {"open", "store"}
             /\ pc'[m] = "write" => held'[m] \in broken'
             /\ written'[m] = written[m]
  <2>1. UNCHANGED <<written, held, broken>> /\ Return(q, "failed")
    BY <1>5 DEF WriteFails, NewStreamFails
  <2> QED BY <1>0, <1>3, <2>1
<1>6. ASSUME NEW q \in Message, Reader(q) \/ ResetStream(q)
      PROVE  UNCHANGED sendVars /\ broken \subseteq broken'
  BY <1>6 DEF Reader, readLoop, LockMu, PushMsg, ResetStream, Break
<1>7. ASSUME NEW z \in Node, HandlerBlocks(z) \/ Stop(z)
      PROVE  UNCHANGED sendVars /\ broken \subseteq broken'
  BY <1>7 DEF HandlerBlocks, Stop, Break
<1>8. ASSUME NEW z \in Node, ConsumeMsg(z)
      PROVE  /\ pc'[m] \notin {"open", "store"}
             /\ pc'[m] = "write" => pc[m] = "write"
             /\ UNCHANGED <<held, written, broken>>
  BY <1>0, <1>8 DEF ConsumeMsg
<1>9. ASSUME UNCHANGED sendVars, broken \subseteq broken'
      PROVE  /\ pc'[m] \notin {"open", "store"}
             /\ pc'[m] = "write" => held'[m] \in broken'
             /\ written'[m] = written[m]
  BY <1>0, <1>9 DEF sendVars
<1> QED
  BY <1>0, <1>1, <1>2, <1>4, <1>5, <1>6, <1>7, <1>8, <1>9 DEF Next, Sender

\* The broken stream stays in the cache.
LEMMA CacheStep ==
    ASSUME IInv, Next, NEW x \in Node, NEW y \in Node, CutOff(x, y)
    PROVE  streams'[x][y] \in broken'
<1>0. SendTypes /\ streams[x][y] \in broken
  BY DEF IInv, SendInv, CutOff
<1>1. broken \subseteq broken'
  BY DEF Next, Sender, Reader, SendMsg, NewStream, StoreStream, Write, WriteFails, readLoop,
         LockMu, PushMsg, NewStreamFails, ResetStream, ConsumeMsg, HandlerBlocks, Stop, Break
<1>2. CASE \E q \in Message : StoreStream(q)
  <2>1. PICK q \in Message : StoreStream(q)
    BY <1>2
  <2>2. ~(from[q] = x /\ to[q] = y)
    BY <2>1 DEF StoreStream, CutOff
  <2>3. from[q] \in Node /\ to[q] \in Node
    BY MessageTypes
  <2>4. streams'[x][y] = streams[x][y]
    BY <1>0, <2>1, <2>2, <2>3 DEF StoreStream, SendTypes
  <2> QED BY <1>0, <1>1, <2>4
<1>3. CASE ~\E q \in Message : StoreStream(q)
  <2>1. streams' = streams
    BY <1>3
       DEF Next, Sender, Reader, SendMsg, NewStream, Write, WriteFails, readLoop, LockMu,
           PushMsg, NewStreamFails, ResetStream, ConsumeMsg, HandlerBlocks, Stop, sendVars
  <2> QED BY <1>0, <1>1, <2>1
<1> QED BY <1>2, <1>3

\* A node that is cut off from another stays so, whatever else happens.
THEOREM CutOffIsForGood == Spec => CutOffForGood
<1> DEFINE Stays ==
      \A x, y \in Node :
          CutOff(x, y) =>
              /\ CutOff(x, y)'
              /\ \A m \in Message : from[m] = x /\ to[m] = y => written'[m] = written[m]
<1>1. ASSUME IInv, Next, NEW x \in Node, NEW y \in Node, CutOff(x, y)
      PROVE  /\ CutOff(x, y)'
             /\ \A m \in Message : from[m] = x /\ to[m] = y => written'[m] = written[m]
  <2>1. streams'[x][y] \in broken'
    BY <1>1, CacheStep
  <2>2. \A m \in Message :
            from[m] = x /\ to[m] = y =>
                /\ pc'[m] \notin {"open", "store"}
                /\ pc'[m] = "write" => held'[m] \in broken'
                /\ written'[m] = written[m]
    BY <1>1, CutOffStep
  <2>3. CutOff(x, y)'
    BY <2>1, <2>2 DEF CutOff
  <2> QED BY <2>2, <2>3
<1>2. IInv /\ [Next]_vars => [Stays]_vars
  BY <1>1
<1> QED BY <1>2, Invariance, PTL DEF Spec, CutOffForGood

----------------------------------------------------------------------------
(***************************************************************************)
(* A message is in one place: its first fragment at one position of one    *)
(* stream, or with one reader, or at one position of one channel, or       *)
(* delivered.  Before its call has written anything it is nowhere.         *)
(***************************************************************************)

OnWire(m, s, i) == i \in 1..Len(wire[s]) /\ wire[s][i] = <<m, 1>>
InHand(m) == \E s \in Message : inHand[s] = m
InChannel(m) == \E y \in Node : \E i \in 1..Len(msgCh[y]) : msgCh[y][i][1] = m

WireOnce(m) ==
    \A s, t \in Message : \A i, j \in Nat :
        OnWire(m, s, i) /\ OnWire(m, t, j) => s = t /\ i = j

HandOnce(m) == \A s, t \in Message : inHand[s] = m /\ inHand[t] = m => s = t

ChannelOnce(m) ==
    \A y, z \in Node : \A i \in 1..Len(msgCh[y]), j \in 1..Len(msgCh[z]) :
        msgCh[y][i][1] = m /\ msgCh[z][j][1] = m => y = z /\ i = j

OnePlace(m) ==
    /\ \A s \in Message : \A i \in Nat :
           OnWire(m, s, i) => ~InHand(m) /\ ~InChannel(m) /\ m \notin delivered /\ written[m] > 0
    /\ InHand(m) => ~InChannel(m) /\ m \notin delivered /\ written[m] > 0
    /\ InChannel(m) => m \notin delivered /\ written[m] > 0
    /\ m \in delivered => written[m] > 0

Once(m) == WireOnce(m) /\ HandOnce(m) /\ ChannelOnce(m) /\ OnePlace(m)
OnceInv == \A m \in Message : Once(m)

\* At the start no message is anywhere.
LEMMA InitOnce == Init => OnceInv
BY NodeAssumption
   DEF Init, OnceInv, Once, WireOnce, HandOnce, ChannelOnce, OnePlace, OnWire, InHand, InChannel

\* A step that adds no message anywhere keeps them single.
LEMMA OnceFrame ==
    ASSUME OnceInv, UNCHANGED <<inHand, msgCh, written, delivered>>,
           \A m, s \in Message : \A i \in Nat :
               i \in 1..Len(wire'[s]) /\ wire'[s][i] = <<m, 1>> => OnWire(m, s, i)
    PROVE  OnceInv'
<1> SUFFICES ASSUME NEW m \in Message PROVE Once(m)'
  BY DEF OnceInv
<1>1. Once(m)
  BY DEF OnceInv
<1>2. (InHand(m)' <=> InHand(m)) /\ (InChannel(m)' <=> InChannel(m))
  BY DEF InHand, InChannel
<1>3. \A s \in Message : \A i \in Nat : OnWire(m, s, i)' => OnWire(m, s, i)
  BY DEF OnWire
<1>4. WireOnce(m)'
  BY <1>1, <1>3 DEF Once, WireOnce
<1>5. HandOnce(m)' /\ ChannelOnce(m)'
  BY <1>1 DEF Once, HandOnce, ChannelOnce
<1>6. OnePlace(m)'
  BY <1>1, <1>2, <1>3 DEF Once, OnePlace
<1> QED BY <1>4, <1>5, <1>6 DEF Once

\* Write puts a first fragment on the wire only for a message that is nowhere.
LEMMA WriteOnce == ASSUME IInv, OnceInv, NEW q \in Message, Write(q) PROVE OnceInv'
<1> SUFFICES ASSUME NEW m \in Message PROVE Once(m)'
  BY DEF OnceInv
<1> DEFINE h == held[q]
           n == Len(wire[h])
           c == Len(Chunk(q))
<1>0. Once(m)
  BY DEF OnceInv
<1>1. /\ pc[q] = "write" /\ Len(wire[h]) < Window
      /\ wire' = [wire EXCEPT ![h] = @ \o Chunk(q)]
      /\ written' = [written EXCEPT ![q] = @ + c]
      /\ UNCHANGED <<recvVars, delivered>>
  BY DEF Write
<1>2. SendTypes /\ h \in Message
  BY <1>1 DEF IInv, SendInv, SendTypes, SendOK
<1>3. /\ Chunk(q) \in Seq(Fragment) /\ c \in Nat
      /\ \A i \in 1..c : Chunk(q)[i] = <<q, written[q] + i>>
  BY <1>1, <1>2, ChunkTypes
<1>4. wire[h] \in Seq(Fragment) /\ n \in Nat /\ wire \in [Message -> Seq(Fragment)]
  BY <1>2 DEF IInv, WireTypes
<1>5. /\ Len(wire[h] \o Chunk(q)) = n + c
      /\ \A i \in 1..n + c : (wire[h] \o Chunk(q))[i] =
             IF i <= n THEN wire[h][i] ELSE Chunk(q)[i - n]
  BY <1>3, <1>4, ConcatProperties
<1>6. /\ wire'[h] = wire[h] \o Chunk(q)
      /\ \A t \in Message : t # h => wire'[t] = wire[t]
  BY <1>1, <1>2, <1>4
<1> HIDE DEF c, n, h
<1>7. written[q] \in Nat /\ written[m] \in Nat
  BY <1>2 DEF SendTypes
<1>8. ASSUME NEW t \in Message, NEW i \in Nat, OnWire(m, t, i)'
      PROVE  \/ OnWire(m, t, i)
             \/ t = h /\ i = n + 1 /\ m = q /\ written[q] = 0 /\ c >= 1
  <2>1. CASE t # h
    BY <1>6, <1>8, <2>1 DEF OnWire
  <2>2. CASE t = h
    <3>1. i \in 1..n + c /\ (wire[h] \o Chunk(q))[i] = <<m, 1>>
      BY <1>5, <1>6, <1>8, <2>2 DEF OnWire
    <3>2. CASE i <= n
      <4>1. wire[h][i] = <<m, 1>>
        BY <1>5, <3>1, <3>2
      <4> QED BY <1>4, <2>2, <3>1, <3>2, <4>1 DEF OnWire, n
    <3>3. CASE i > n
      <4>1. i \in Nat /\ n \in Nat /\ c \in Nat /\ i \in 1..n + c /\ i > n
        BY <1>3, <1>4, <3>1, <3>3
      <4>2. i - n \in 1..c /\ ~(i <= n)
        BY <4>1
      <4>3. (wire[h] \o Chunk(q))[i] = Chunk(q)[i - n]
        BY <1>5, <4>1, <4>2
      <4>4. i - n \in 1..c /\ Chunk(q)[i - n] = <<m, 1>>
        BY <3>1, <4>2, <4>3
      <4>5. <<q, written[q] + (i - n)>> = <<m, 1>>
        BY <1>3, <4>4
      <4>6. q = m /\ written[q] + (i - n) = 1
        BY <4>5
      <4> QED BY <1>3, <1>4, <1>7, <2>2, <4>4, <4>6
    <3> QED BY <1>4, <3>2, <3>3
  <2> QED BY <2>1, <2>2
<1>9. (InHand(m)' <=> InHand(m)) /\ (InChannel(m)' <=> InChannel(m))
  BY <1>1 DEF recvVars, InHand, InChannel
<1>10. HandOnce(m)' /\ ChannelOnce(m)'
  BY <1>0, <1>1 DEF Once, HandOnce, ChannelOnce, recvVars
<1>11. /\ written'[m] >= written[m]
       /\ m = q /\ c >= 1 => written'[m] > 0
  BY <1>1, <1>2, <1>3, <1>7 DEF SendTypes
<1>12. /\ written'[m] \in Nat
       /\ written[m] > 0 => written'[m] > 0
  BY <1>1, <1>2, <1>3, <1>7, <1>11 DEF SendTypes
<1>13. WireOnce(m)'
  <2> SUFFICES ASSUME NEW s \in Message, NEW t \in Message, NEW i \in Nat, NEW j \in Nat,
                      OnWire(m, s, i)', OnWire(m, t, j)'
               PROVE  s = t /\ i = j
    BY DEF WireOnce
  <2>1. CASE m = q /\ written[q] = 0
    <3>1. ~OnWire(m, s, i) /\ ~OnWire(m, t, j)
      BY <1>0, <2>1 DEF Once, OnePlace
    <3> QED BY <1>8, <3>1
  <2>2. CASE ~(m = q /\ written[q] = 0)
    <3>1. OnWire(m, s, i) /\ OnWire(m, t, j)
      BY <1>8, <2>2
    <3> QED BY <1>0, <3>1 DEF Once, WireOnce
  <2> QED BY <2>1, <2>2
<1>14. OnePlace(m)'
  <2>1. ASSUME NEW t \in Message, NEW i \in Nat, OnWire(m, t, i)'
        PROVE  ~InHand(m)' /\ ~InChannel(m)' /\ m \notin delivered' /\ written'[m] > 0
    <3>1. CASE OnWire(m, t, i)
      BY <1>0, <1>1, <1>9, <1>12, <3>1 DEF Once, OnePlace
    <3>2. CASE m = q /\ written[q] = 0 /\ c >= 1
      <4>1. ~InHand(m) /\ ~InChannel(m) /\ m \notin delivered
        BY <1>0, <3>2 DEF Once, OnePlace
      <4> QED BY <1>1, <1>9, <1>11, <3>2, <4>1
    <3> QED BY <1>8, <2>1, <3>1, <3>2
  <2>2. /\ InHand(m)' => ~InChannel(m)' /\ m \notin delivered' /\ written'[m] > 0
        /\ InChannel(m)' => m \notin delivered' /\ written'[m] > 0
        /\ m \in delivered' => written'[m] > 0
    BY <1>0, <1>1, <1>9, <1>12 DEF Once, OnePlace
  <2> QED BY <2>1, <2>2 DEF OnePlace
<1> QED BY <1>10, <1>13, <1>14 DEF Once

\* A read takes the first fragment of what it decodes off the wire.
LEMMA readLoopOnce == ASSUME IInv, OnceInv, NEW s \in Message, readLoop(s) PROVE OnceInv'
<1> SUFFICES ASSUME NEW m \in Message PROVE Once(m)'
  BY DEF OnceInv
<1> DEFINE w == wire[s]
<1>0. Once(m) /\ m # None
  BY MessageTypes DEF OnceInv
<1>1. inHand[s] = None /\ UNCHANGED <<sendVars, mu, msgCh, delivered>>
  BY DEF readLoop
<1>2. PICK k \in 1..Smaller(Buffer, Len(w)) :
          /\ wire' = [wire EXCEPT ![s] = SubSeq(@, k + 1, Len(@))]
          /\ inHand' = [inHand EXCEPT ![s] = IF Decodes(SubSeq(w, 1, k))
                                             THEN SubSeq(w, 1, k)[1][1] ELSE None]
  BY DEF readLoop
<1>3. w \in Seq(Fragment) /\ wire \in [Message -> Seq(Fragment)] /\ RecvTypes
  BY DEF IInv, WireTypes, RecvInv
<1>4. /\ wire'[s] = SubSeq(w, k + 1, Len(w))
      /\ \A t \in Message : t # s => wire'[t] = wire[t]
  BY <1>2, <1>3
<1>5. /\ Len(wire'[s]) = Len(w) - k
      /\ \A i \in 1..Len(w) - k : wire'[s][i] = w[k + i]
      /\ k \in Nat /\ k >= 1 /\ k <= Len(w) /\ Len(w) \in Nat
  BY <1>3, <1>4, ReadTypes
<1>6. inHand'[s] = m => OnWire(m, s, 1)
  <2> SUFFICES ASSUME inHand'[s] = m PROVE OnWire(m, s, 1)
    OBVIOUS
  <2> DEFINE data == SubSeq(w, 1, k)
  <2>1. Decodes(data) /\ data[1][1] = m
    BY <1>0, <1>2, <1>3 DEF RecvTypes
  <2>2. data \in Seq(Fragment) /\ Len(data) = k /\ k <= Buffer /\ \A i \in 1..k : data[i] = w[i]
    BY <1>3, ReadTypes
  <2> HIDE DEF data
  <2>3. data[1] = <<m, 1>>
    BY <2>1, <2>2, DecodedFits
  <2>4. w[1] = <<m, 1>> /\ 1 \in 1..Len(w)
    BY <1>5, <2>2, <2>3
  <2> QED BY <2>4 DEF OnWire
<1>7. \A t \in Message : t # s => inHand'[t] = inHand[t]
  BY <1>2, <1>3 DEF RecvTypes
<1>8. ASSUME NEW i \in Nat, OnWire(m, s, i)'
      PROVE  k + i \in Nat /\ k + i # 1 /\ OnWire(m, s, k + i)
  <2>1. i \in 1..Len(w) - k /\ w[k + i] = <<m, 1>>
    BY <1>5, <1>8 DEF OnWire
  <2> QED BY <1>5, <2>1 DEF OnWire
<1>9. ASSUME NEW t \in Message, t # s, NEW i \in Nat, OnWire(m, t, i)'
      PROVE  OnWire(m, t, i)
  BY <1>4, <1>9 DEF OnWire
<1> HIDE DEF w
<1>10. ASSUME NEW t \in Message, NEW i \in Nat, OnWire(m, t, i)'
       PROVE  inHand'[s] # m /\ \E j \in Nat : OnWire(m, t, j)
  <2>1. CASE t = s
    <3>1. k + i \in Nat /\ k + i # 1 /\ OnWire(m, s, k + i)
      BY <1>8, <1>10, <2>1
    <3>2. ~OnWire(m, s, 1)
      BY <1>0, <3>1 DEF Once, WireOnce
    <3> QED BY <1>6, <2>1, <3>1, <3>2
  <2>2. CASE t # s
    <3>1. OnWire(m, t, i)
      BY <1>9, <1>10, <2>2
    <3>2. ~OnWire(m, s, 1)
      BY <1>0, <2>2, <3>1 DEF Once, WireOnce
    <3> QED BY <1>6, <3>1, <3>2
  <2> QED BY <2>1, <2>2
<1>11. WireOnce(m)'
  <2> SUFFICES ASSUME NEW t \in Message, NEW u \in Message, NEW i \in Nat, NEW j \in Nat,
                      OnWire(m, t, i)', OnWire(m, u, j)'
               PROVE  t = u /\ i = j
    BY DEF WireOnce
  <2>1. t = u
    BY <1>0, <1>10 DEF Once, WireOnce
  <2>2. CASE t = s
    <3>1. /\ k + i \in Nat /\ k + j \in Nat
          /\ OnWire(m, s, k + i) /\ OnWire(m, s, k + j)
      BY <1>8, <2>1, <2>2
    <3>2. k + i = k + j
      BY <1>0, <3>1 DEF Once, WireOnce
    <3> QED BY <1>5, <2>1, <3>2
  <2>3. CASE t # s
    BY <1>0, <1>9, <2>1, <2>3 DEF Once, WireOnce
  <2> QED BY <2>1, <2>2, <2>3
<1>12. InHand(m)' => inHand'[s] = m \/ InHand(m)
  BY <1>7 DEF InHand
<1>13. (InChannel(m)' <=> InChannel(m)) /\ delivered' = delivered /\ written' = written
  BY <1>1 DEF InChannel, sendVars
<1>14. HandOnce(m)'
  <2> SUFFICES ASSUME NEW t \in Message, NEW u \in Message, inHand'[t] = m, inHand'[u] = m
               PROVE  t = u
    BY DEF HandOnce
  <2>1. CASE inHand'[s] = m
    <3>1. ~InHand(m)
      BY <1>0, <1>6, <2>1 DEF Once, OnePlace
    <3> QED BY <1>7, <3>1 DEF InHand
  <2>2. CASE inHand'[s] # m
    BY <1>0, <1>7, <2>2 DEF Once, HandOnce
  <2> QED BY <2>1, <2>2
<1>15. ChannelOnce(m)'
  BY <1>0, <1>1 DEF Once, ChannelOnce
<1>16. OnePlace(m)'
  <2>1. ASSUME NEW t \in Message, NEW i \in Nat, OnWire(m, t, i)'
        PROVE  ~InHand(m)' /\ ~InChannel(m)' /\ m \notin delivered' /\ written'[m] > 0
    <3>1. inHand'[s] # m /\ \E j \in Nat : OnWire(m, t, j)
      BY <1>10, <2>1
    <3> QED BY <1>0, <1>12, <1>13, <3>1 DEF Once, OnePlace
  <2>2. InHand(m)' => ~InChannel(m)' /\ m \notin delivered' /\ written'[m] > 0
    BY <1>0, <1>6, <1>12, <1>13 DEF Once, OnePlace
  <2>3. /\ InChannel(m)' => m \notin delivered' /\ written'[m] > 0
        /\ m \in delivered' => written'[m] > 0
    BY <1>0, <1>13 DEF Once, OnePlace
  <2> QED BY <2>1, <2>2, <2>3 DEF OnePlace
<1> QED BY <1>11, <1>14, <1>15, <1>16 DEF Once

\* A push moves a message from its reader to the end of the channel.
LEMMA PushMsgOnce == ASSUME IInv, OnceInv, NEW s \in Message, PushMsg(s) PROVE OnceInv'
<1> SUFFICES ASSUME NEW m \in Message PROVE Once(m)'
  BY DEF OnceInv
<1> DEFINE y == to[s]
           n == Len(msgCh[y])
<1>0. Once(m) /\ m # None
  BY MessageTypes DEF OnceInv
<1>1. /\ mu[y] = s
      /\ msgCh' = [msgCh EXCEPT ![y] = Append(@, <<inHand[s], s>>)]
      /\ inHand' = [inHand EXCEPT ![s] = None]
      /\ UNCHANGED <<written, wire, delivered>>
  BY DEF PushMsg, sendVars
<1>2. RecvTypes /\ y \in Node /\ s # None
  BY MessageTypes DEF IInv, RecvInv
<1>3. inHand[s] \in Message
  BY <1>1, <1>2 DEF IInv, RecvInv, RecvTypes, MuOK
<1>4. /\ n \in Nat
      /\ Len(Append(msgCh[y], <<inHand[s], s>>)) = n + 1
      /\ \A i \in 1..n + 1 :
             Append(msgCh[y], <<inHand[s], s>>)[i] =
                 IF i = n + 1 THEN <<inHand[s], s>> ELSE msgCh[y][i]
  BY <1>2, <1>3, AppendProperties DEF RecvTypes
<1>5. /\ msgCh'[y] = Append(msgCh[y], <<inHand[s], s>>)
      /\ \A z \in Node : z # y => msgCh'[z] = msgCh[z]
  BY <1>1, <1>2 DEF RecvTypes
<1>6. inHand'[s] = None /\ \A t \in Message : t # s => inHand'[t] = inHand[t]
  BY <1>1, <1>2 DEF RecvTypes
<1> HIDE DEF n, y
<1>7. ASSUME NEW z \in Node, NEW i \in 1..Len(msgCh'[z]), msgCh'[z][i][1] = m
      PROVE  \/ i \in 1..Len(msgCh[z]) /\ msgCh[z][i][1] = m
             \/ z = y /\ i = n + 1 /\ inHand[s] = m
  <2>1. CASE z # y
    BY <1>5, <1>7, <2>1
  <2>2. CASE z = y
    <3>1. i \in 1..n + 1
      BY <1>4, <1>5, <1>7, <2>2
    <3>2. msgCh'[y][i] = IF i = n + 1 THEN <<inHand[s], s>> ELSE msgCh[y][i]
      BY <1>4, <1>5, <3>1
    <3>3. CASE i = n + 1
      BY <1>7, <2>2, <3>2, <3>3
    <3>4. CASE i # n + 1
      BY <1>4, <1>7, <2>2, <3>1, <3>2, <3>4 DEF n
    <3> QED BY <3>3, <3>4
  <2> QED BY <2>1, <2>2
<1>8. /\ InHand(m)' => InHand(m) /\ inHand[s] # m
      /\ HandOnce(m)'
  BY <1>0, <1>6 DEF InHand, Once, HandOnce
<1>9. InChannel(m)' => InChannel(m) \/ inHand[s] = m
  <2> SUFFICES ASSUME InChannel(m)' PROVE InChannel(m) \/ inHand[s] = m
    OBVIOUS
  <2>1. PICK z \in Node : \E i \in 1..Len(msgCh'[z]) : msgCh'[z][i][1] = m
    BY DEF InChannel
  <2>2. PICK i \in 1..Len(msgCh'[z]) : msgCh'[z][i][1] = m
    BY <2>1
  <2> QED BY <1>7, <2>2 DEF InChannel
<1>10. inHand[s] = m => InHand(m)
  BY DEF InHand
<1>11. \A t \in Message : \A i \in Nat : OnWire(m, t, i)' <=> OnWire(m, t, i)
  BY <1>1 DEF OnWire
<1>12. WireOnce(m)'
  BY <1>0, <1>11 DEF Once, WireOnce
<1>13. ChannelOnce(m)'
  <2> SUFFICES ASSUME NEW z \in Node, NEW u \in Node,
                      NEW i \in 1..Len(msgCh'[z]), NEW j \in 1..Len(msgCh'[u]),
                      msgCh'[z][i][1] = m, msgCh'[u][j][1] = m
               PROVE  z = u /\ i = j
    BY DEF ChannelOnce
  <2>1. CASE inHand[s] = m
    <3>1. ~InChannel(m)
      BY <1>0, <1>10, <2>1 DEF Once, OnePlace
    <3>2. /\ ~(i \in 1..Len(msgCh[z]) /\ msgCh[z][i][1] = m)
          /\ ~(j \in 1..Len(msgCh[u]) /\ msgCh[u][j][1] = m)
      BY <3>1 DEF InChannel
    <3> QED BY <1>7, <3>2
  <2>2. CASE inHand[s] # m
    <3>1. /\ i \in 1..Len(msgCh[z]) /\ msgCh[z][i][1] = m
          /\ j \in 1..Len(msgCh[u]) /\ msgCh[u][j][1] = m
      BY <1>7, <2>2
    <3> QED BY <1>0, <3>1 DEF Once, ChannelOnce
  <2> QED BY <2>1, <2>2
<1>14. OnePlace(m)'
  <2>1. delivered' = delivered /\ written' = written
    BY <1>1
  <2>2. ASSUME NEW t \in Message, NEW i \in Nat, OnWire(m, t, i)'
        PROVE  ~InHand(m)' /\ ~InChannel(m)' /\ m \notin delivered' /\ written'[m] > 0
    BY <1>0, <1>8, <1>9, <1>10, <1>11, <2>1, <2>2 DEF Once, OnePlace
  <2>3. InHand(m)' => ~InChannel(m)' /\ m \notin delivered' /\ written'[m] > 0
    BY <1>0, <1>8, <1>9, <2>1 DEF Once, OnePlace
  <2>4. /\ InChannel(m)' => m \notin delivered' /\ written'[m] > 0
        /\ m \in delivered' => written'[m] > 0
    BY <1>0, <1>9, <1>10, <2>1 DEF Once, OnePlace
  <2> QED BY <2>2, <2>3, <2>4 DEF OnePlace
<1> QED BY <1>8, <1>12, <1>13, <1>14 DEF Once

\* A message that is taken leaves its channel.
LEMMA TakeOnce ==
    ASSUME IInv, OnceInv, NEW y \in Node, msgCh[y] # <<>>,
           msgCh'[y] = Tail(msgCh[y]), \A z \in Node : z # y => msgCh'[z] = msgCh[z],
           delivered' = delivered \cup {Head(msgCh[y])[1]},
           UNCHANGED <<wire, inHand, written>>
    PROVE  OnceInv'
<1> SUFFICES ASSUME NEW m \in Message PROVE Once(m)'
  BY DEF OnceInv
<1> DEFINE ch == msgCh[y]
<1>0. Once(m)
  BY DEF OnceInv
<1>1. RecvTypes /\ ch \in Seq(Message \X Message) /\ ch # <<>>
  BY DEF IInv, RecvInv, RecvTypes
<1>2. Head(ch) = ch[1] /\ 1 \in 1..Len(ch) /\ Len(ch) \in Nat
  BY <1>1
<1>3. /\ Len(Tail(ch)) = Len(ch) - 1
      /\ \A i \in 1..Len(Tail(ch)) : Tail(ch)[i] = ch[i + 1]
  BY <1>1, HeadTailProperties
<1>4. /\ msgCh'[y] = Tail(ch)
      /\ \A z \in Node : z # y => msgCh'[z] = msgCh[z]
  OBVIOUS
<1> DEFINE old(z, i) == IF z = y THEN i + 1 ELSE i
<1>5. ASSUME NEW z \in Node, NEW i \in 1..Len(msgCh'[z]), msgCh'[z][i][1] = m
      PROVE  /\ old(z, i) \in 1..Len(msgCh[z]) /\ msgCh[z][old(z, i)][1] = m
             /\ ~(z = y /\ old(z, i) = 1)
  <2>1. CASE z # y
    BY <1>4, <1>5, <2>1
  <2>2. CASE z = y
    <3>1. i \in 1..Len(ch) - 1 /\ msgCh'[z][i] = ch[i + 1]
      BY <1>3, <1>4, <1>5, <2>2
    <3> QED BY <1>2, <1>5, <2>2, <3>1
  <2> QED BY <2>1, <2>2
<1>6. Head(ch)[1] = m => InChannel(m)
  BY <1>2 DEF InChannel
<1>7. InChannel(m)' => InChannel(m) /\ Head(ch)[1] # m
  <2> SUFFICES ASSUME InChannel(m)' PROVE InChannel(m) /\ Head(ch)[1] # m
    OBVIOUS
  <2>1. PICK z \in Node : \E i \in 1..Len(msgCh'[z]) : msgCh'[z][i][1] = m
    BY DEF InChannel
  <2>2. PICK i \in 1..Len(msgCh'[z]) : msgCh'[z][i][1] = m
    BY <2>1
  <2>3. /\ old(z, i) \in 1..Len(msgCh[z]) /\ msgCh[z][old(z, i)][1] = m
        /\ ~(z = y /\ old(z, i) = 1)
    BY <1>5, <2>2
  <2> HIDE DEF old
  <2>4. InChannel(m)
    BY <2>3 DEF InChannel
  <2>5. Head(ch)[1] # m
    BY <1>0, <1>2, <2>3 DEF Once, ChannelOnce
  <2> QED BY <2>4, <2>5
<1> HIDE DEF ch, old
<1>8. ChannelOnce(m)'
  <2> SUFFICES ASSUME NEW z \in Node, NEW u \in Node,
                      NEW i \in 1..Len(msgCh'[z]), NEW j \in 1..Len(msgCh'[u]),
                      msgCh'[z][i][1] = m, msgCh'[u][j][1] = m
               PROVE  z = u /\ i = j
    BY DEF ChannelOnce
  <2>1. /\ old(z, i) \in 1..Len(msgCh[z]) /\ msgCh[z][old(z, i)][1] = m
        /\ old(u, j) \in 1..Len(msgCh[u]) /\ msgCh[u][old(u, j)][1] = m
    BY <1>5
  <2>2. z = u /\ old(z, i) = old(u, j)
    BY <1>0, <2>1 DEF Once, ChannelOnce
  <2> QED BY <2>2 DEF old
<1>9. (InHand(m)' <=> InHand(m)) /\ HandOnce(m)'
  BY <1>0 DEF InHand, Once, HandOnce
<1>10. \A t \in Message : \A i \in Nat : OnWire(m, t, i)' <=> OnWire(m, t, i)
  BY DEF OnWire
<1>11. WireOnce(m)'
  BY <1>0, <1>10 DEF Once, WireOnce
<1>12. m \in delivered' => m \in delivered \/ Head(ch)[1] = m
  BY DEF ch
<1>13. OnePlace(m)'
  <2>1. ASSUME NEW t \in Message, NEW i \in Nat, OnWire(m, t, i)'
        PROVE  ~InHand(m)' /\ ~InChannel(m)' /\ m \notin delivered' /\ written'[m] > 0
    BY <1>0, <1>6, <1>7, <1>9, <1>10, <1>12, <2>1 DEF Once, OnePlace
  <2>2. InHand(m)' => ~InChannel(m)' /\ m \notin delivered' /\ written'[m] > 0
    BY <1>0, <1>6, <1>7, <1>9, <1>12 DEF Once, OnePlace
  <2>3. /\ InChannel(m)' => m \notin delivered' /\ written'[m] > 0
        /\ m \in delivered' => written'[m] > 0
    BY <1>0, <1>6, <1>7, <1>12 DEF Once, OnePlace
  <2> QED BY <2>1, <2>2, <2>3 DEF OnePlace
<1> QED BY <1>8, <1>9, <1>11, <1>13 DEF Once

\* Every step keeps each message in one place.
LEMMA NextOnce == IInv /\ OnceInv /\ [Next]_vars => OnceInv'
<1> SUFFICES ASSUME IInv, OnceInv, [Next]_vars PROVE OnceInv'
  OBVIOUS
<1>1. ASSUME UNCHANGED <<wire, inHand, msgCh, written, delivered>>
      PROVE  OnceInv'
  BY <1>1, OnceFrame DEF OnWire
<1>2. ASSUME NEW m \in Message,
             \/ SendMsg(m) \/ NewStream(m) \/ StoreStream(m) \/ WriteFails(m)
             \/ NewStreamFails(m)
      PROVE  OnceInv'
  BY <1>1, <1>2 DEF SendMsg, NewStream, StoreStream, WriteFails, NewStreamFails, recvVars
<1>3. ASSUME NEW m \in Message, LockMu(m)
      PROVE  OnceInv'
  BY <1>1, <1>3 DEF LockMu, sendVars
<1>4. ASSUME NEW S, Break(S), UNCHANGED <<sendVars, recvVars, delivered>>
      PROVE  OnceInv'
  <2>1. \A s \in Message : wire'[s] = <<>> \/ wire'[s] = wire[s]
    BY <1>4 DEF Break
  <2>2. \A m, s \in Message : \A i \in Nat :
            i \in 1..Len(wire'[s]) /\ wire'[s][i] = <<m, 1>> => OnWire(m, s, i)
    BY <2>1 DEF OnWire
  <2> QED BY <1>4, <2>2, OnceFrame DEF sendVars, recvVars
<1>5. ASSUME NEW m \in Message, ResetStream(m)
      PROVE  OnceInv'
  BY <1>4, <1>5 DEF ResetStream
<1>6. ASSUME NEW y \in Node, Stop(y)
      PROVE  OnceInv'
  BY <1>4, <1>6 DEF Stop
<1>7. ASSUME NEW y \in Node, ConsumeMsg(y) \/ HandlerBlocks(y)
      PROVE  OnceInv'
  <2>1. /\ msgCh[y] # <<>>
        /\ msgCh' = [msgCh EXCEPT ![y] = Tail(@)]
        /\ delivered' = delivered \cup {Head(msgCh[y])[1]}
        /\ UNCHANGED <<wire, inHand, written>>
    BY <1>7 DEF ConsumeMsg, HandlerBlocks, sendVars
  <2>2. msgCh'[y] = Tail(msgCh[y]) /\ \A z \in Node : z # y => msgCh'[z] = msgCh[z]
    BY <2>1 DEF IInv, RecvInv, RecvTypes
  <2> QED BY <2>1, <2>2, TakeOnce
<1>8. CASE UNCHANGED vars
  BY <1>1, <1>8 DEF vars
<1> QED
  BY <1>2, <1>3, <1>5, <1>6, <1>7, <1>8, WriteOnce, readLoopOnce, PushMsgOnce
     DEF Next, Sender, Reader

\* In a network of any size and with any faults, no message is handled twice.
THEOREM NothingHandledTwice == Spec => []HandledOnce
<1>1. OnceInv /\ IInv => HandledOnce
  <2> SUFFICES ASSUME OnceInv, IInv, NEW y \in Node, NEW i \in 1..Len(msgCh[y])
               PROVE  msgCh[y][i][1] \notin delivered
    BY DEF HandledOnce
  <2>1. msgCh[y] \in Seq(Message \X Message)
    BY DEF IInv, RecvInv, RecvTypes
  <2>2. msgCh[y][i] \in Message \X Message
    BY <2>1
  <2>3. msgCh[y][i][1] \in Message /\ InChannel(msgCh[y][i][1])
    BY <2>2 DEF InChannel
  <2> QED BY <2>3 DEF OnceInv, Once, OnePlace
<1>2. Spec => []OnceInv
  BY Invariance, InitOnce, NextOnce, PTL DEF Spec
<1> QED BY <1>1, <1>2, Invariance, PTL

----------------------------------------------------------------------------
(***************************************************************************)
(* What a call of SendMsg can wait for.                                    *)
(***************************************************************************)

\* SendMsg(m) is in a Write whose stream has no room.
WaitsForRoom(m) ==
    pc[m] = "write" /\ held[m] \notin broken /\ Len(wire[held[m]]) >= Window

\* Something moves at y: a readLoop can read, a reader with a message can have
\* lt.mu, the one that has it finds room in msgCh, or the loop takes a message.
Moves(y) ==
    \/ \E s \in Message :
           /\ to[s] = y
           /\ \/ inHand[s] = None /\ wire[s] # <<>>
              \/ inHand[s] # None /\ mu[y] = None
              \/ mu[y] = s /\ Len(msgCh[y]) < MsgChCap
    \/ msgCh[y] # <<>> /\ ~Deaf(y)

\* The readers, lt.mu, msgCh and the loop of a node never wait for each other in
\* a circle: while a sender waits, the recipient's side moves or its loop is deaf.
WaitsForDeafOnly == \A m \in Message : WaitsForRoom(m) => Moves(to[m]) \/ Deaf(to[m])

\* A stream, cached or in use, connects the nodes it is used for.
Connects(s, x, y) == s \in Message /\ from[s] = x /\ to[s] = y
EndsInv ==
    /\ \A x, y \in Node : streams[x][y] # None => Connects(streams[x][y], x, y)
    /\ \A m \in Message : pc[m] \in {"store", "write"} => Connects(held[m], from[m], to[m])

\* Whatever is cached or opened connects the caller with the recipient.
LEMMA EndsNext == IInv /\ EndsInv /\ [Next]_vars => EndsInv'
<1> SUFFICES ASSUME IInv, EndsInv, [Next]_vars PROVE EndsInv'
  OBVIOUS
<1>0. /\ pc \in [Message -> SendPc] /\ held \in [Message -> Message \cup {None}]
      /\ streams \in [Node -> [Node -> Message \cup {None}]]
  BY DEF IInv, SendInv, SendTypes
<1>1. ASSUME NEW m \in Message, SendMsg(m) PROVE EndsInv'
  <2>1. /\ streams' = streams
        /\ held'[m] = streams[from[m]][to[m]]
        /\ pc'[m] = "write" => held'[m] # None
        /\ pc'[m] \in {"open", "write"}
        /\ \A q \in Message \ {m} : held'[q] = held[q] /\ pc'[q] = pc[q]
    BY <1>0, <1>1 DEF SendMsg
  <2> QED
    BY <2>1, MessageTypes DEF EndsInv
<1>2. ASSUME NEW m \in Message, NewStream(m) PROVE EndsInv'
  <2>1. /\ streams' = streams /\ held'[m] = m
        /\ \A q \in Message \ {m} : held'[q] = held[q] /\ pc'[q] = pc[q]
    BY <1>0, <1>2 DEF NewStream
  <2> QED
    BY <2>1 DEF EndsInv, Connects
<1>3. ASSUME NEW m \in Message, StoreStream(m) PROVE EndsInv'
  <2>1. /\ pc[m] = "store" /\ held' = held
        /\ \A q \in Message \ {m} : pc'[q] = pc[q]
    BY <1>0, <1>3 DEF StoreStream
  <2>2. Connects(held[m], from[m], to[m])
    BY <2>1 DEF EndsInv
  <2>3. /\ streams'[from[m]][to[m]] = held[m]
        /\ \A x, y \in Node : ~(x = from[m] /\ y = to[m]) => streams'[x][y] = streams[x][y]
    BY <1>0, <1>3, MessageTypes DEF StoreStream
  <2> QED
    BY <2>1, <2>2, <2>3 DEF EndsInv
<1>4. ASSUME UNCHANGED <<streams, held>>,
             \A q \in Message : pc'[q] \in {"store", "write"} => pc'[q] = pc[q]
      PROVE  EndsInv'
  BY <1>4 DEF EndsInv
<1>5. ASSUME NEW m \in Message, Write(m) \/ WriteFails(m) \/ NewStreamFails(m)
      PROVE  EndsInv'
  <2>1. UNCHANGED <<streams, held>>
    BY <1>5 DEF Write, WriteFails, NewStreamFails
  <2>2. \A q \in Message : pc'[q] \in {"sent", "failed", "called"} \/ pc'[q] = pc[q]
    BY <1>5 DEF Write, WriteFails, NewStreamFails, Return
  <2> QED
    BY <1>4, <2>1, <2>2
<1>6. ASSUME NEW s \in Message, Reader(s) \/ ResetStream(s) PROVE EndsInv'
  BY <1>4, <1>6 DEF Reader, readLoop, LockMu, PushMsg, ResetStream, sendVars
<1>7. ASSUME NEW y \in Node, ConsumeMsg(y) \/ HandlerBlocks(y) \/ Stop(y) PROVE EndsInv'
  <2>1. UNCHANGED <<streams, held>>
    BY <1>7 DEF ConsumeMsg, HandlerBlocks, Stop, sendVars
  <2>2. \A q \in Message : pc'[q] = "called" \/ pc'[q] = pc[q]
    BY <1>7 DEF ConsumeMsg, HandlerBlocks, Stop, sendVars
  <2> QED
    BY <1>4, <2>1, <2>2
<1>8. CASE UNCHANGED vars
  BY <1>4, <1>8 DEF vars
<1> QED
  BY <1>1, <1>2, <1>3, <1>5, <1>6, <1>7, <1>8 DEF Next, Sender

\* A sender that waits for room waits, through whatever readers and locks are in
\* between, for the server loop of its recipient alone: the readers of a node do
\* not block each other, although they share lt.mu and push to msgCh under it.
THEOREM SendersWaitForLoops == Spec => []WaitsForDeafOnly
<1>1. IInv /\ EndsInv => WaitsForDeafOnly
  <2> SUFFICES ASSUME IInv, EndsInv, NEW m \in Message, WaitsForRoom(m), ~Deaf(to[m])
               PROVE  Moves(to[m])
    BY DEF WaitsForDeafOnly
  <2>1. PICK s \in Message : s = held[m] /\ to[s] = to[m]
    BY DEF WaitsForRoom, EndsInv, Connects
  <2>2. wire[s] \in Seq(Fragment) /\ Len(wire[s]) >= Window /\ Window \in Nat \ {0}
    BY <2>1, BufferAssumption DEF WaitsForRoom, IInv, WireTypes
  <2>3. wire[s] # <<>>
    BY <2>2
  <2>4. CASE inHand[s] = None \/ mu[to[m]] = None
    BY <2>1, <2>3, <2>4 DEF Moves
  <2>5. CASE mu[to[m]] # None
    <3>1. PICK t \in Message : t = mu[to[m]] /\ to[t] = to[m]
      BY <2>5, MessageTypes DEF IInv, RecvInv, RecvTypes, MuOK
    <3>2. CASE Len(msgCh[to[m]]) < MsgChCap
      BY <3>1, <3>2 DEF Moves
    <3>3. CASE ~(Len(msgCh[to[m]]) < MsgChCap)
      <4>1. msgCh[to[m]] \in Seq(Message \X Message) /\ MsgChCap \in Nat \ {0}
        BY MessageTypes, BufferAssumption DEF IInv, RecvInv, RecvTypes
      <4>2. msgCh[to[m]] # <<>>
        BY <3>3, <4>1
      <4> QED
        BY <4>2 DEF Moves
    <3> QED
      BY <3>2, <3>3
  <2> QED
    BY <2>4, <2>5
<1>2. Init => EndsInv
  BY DEF Init, EndsInv
<1> QED
  BY <1>1, <1>2, EndsNext, Invariance, PTL DEF Spec
=============================================================================
