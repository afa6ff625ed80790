------------------------ MODULE TransportRefinement ------------------------
(***************************************************************************)
(* The transport implements LossyLinks: ImplementsLinks is proved for any  *)
(* hosts, messages, calls, buffers, capacities and faults.                 *)
(***************************************************************************)
EXTENDS TransportProofs, FiniteSetTheorems

----------------------------------------------------------------------------
(***************************************************************************)
(* A finite set in a strict total order, as a sequence.                    *)
(***************************************************************************)

Orders(R, M) ==
    /\ IsFiniteSet(M)
    /\ \A m \in M : <<m, m>> \notin R
    /\ \A q, m \in M : q # m => <<q, m>> \in R \/ <<m, q>> \in R
    /\ \A p, q, m \in M : <<p, q>> \in R /\ <<q, m>> \in R => <<p, m>> \in R

\* R and Q order the elements of N alike.
Agree(R, Q, N) == \A q, m \in N : <<q, m>> \in R <=> <<q, m>> \in Q

Before(M, R, m) == {q \in M : <<q, m>> \in R}

\* The rank of an element is a number below that of the elements.
LEMMA RankType ==
    ASSUME NEW M, NEW R, Orders(R, M), NEW m \in M
    PROVE  /\ Cardinality(M) \in Nat
           /\ Rank(M, R, m) \in 0..Cardinality(M) - 1
           /\ IsFiniteSet(Before(M, R, m))
<1>1. IsFiniteSet(M) /\ Cardinality(M) \in Nat
  BY FS_CardinalityType DEF Orders
<1>2. Before(M, R, m) \in SUBSET M /\ Before(M, R, m) # M
  BY DEF Before, Orders
<1> DEFINE B == Before(M, R, m)
<1>3. Rank(M, R, m) = Cardinality(B)
  BY DEF Rank, Before
<1> HIDE DEF B
<1>4. IsFiniteSet(B) /\ Cardinality(B) <= Cardinality(M)
      /\ (Cardinality(M) = Cardinality(B) => M = B)
  BY <1>1, <1>2, FS_Subset DEF B
<1>5. Cardinality(B) \in Nat
  BY <1>4, FS_CardinalityType
<1>6. Cardinality(B) # Cardinality(M)
  BY <1>2, <1>4 DEF B
<1> QED BY <1>1, <1>3, <1>4, <1>5, <1>6 DEF B

\* Ranks grow along the order, and no two elements have the same.
LEMMA RankMonotone ==
    ASSUME NEW M, NEW R, Orders(R, M), NEW q \in M, NEW m \in M
    PROVE  /\ <<q, m>> \in R <=> Rank(M, R, q) < Rank(M, R, m)
           /\ Rank(M, R, q) = Rank(M, R, m) => q = m
<1>1. ASSUME NEW a \in M, NEW b \in M, <<a, b>> \in R
      PROVE  Rank(M, R, a) < Rank(M, R, b)
  <2> DEFINE A == Before(M, R, a)
             B == Before(M, R, b)
  <2>1. A \in SUBSET B /\ a \in B /\ a \notin A
    BY <1>1 DEF Orders, Before
  <2>2. IsFiniteSet(B) /\ Rank(M, R, a) = Cardinality(A) /\ Rank(M, R, b) = Cardinality(B)
    BY RankType DEF Rank, Before
  <2>3. Cardinality(M) \in Nat /\ Rank(M, R, a) \in Nat /\ Rank(M, R, b) \in Nat
    BY RankType
  <2> HIDE DEF A, B
  <2>4. Cardinality(A) <= Cardinality(B) /\ (Cardinality(B) = Cardinality(A) => B = A)
    BY <2>1, <2>2, FS_Subset
  <2> QED BY <2>1, <2>2, <2>3, <2>4
<1>2. Rank(M, R, q) \in Nat /\ Rank(M, R, m) \in Nat
  BY RankType
<1>3. CASE q = m
  BY <1>2, <1>3 DEF Orders
<1>4. CASE q # m
  <2>1. <<q, m>> \in R \/ <<m, q>> \in R
    BY <1>4 DEF Orders
  <2>2. ~(<<q, m>> \in R /\ <<m, q>> \in R)
    BY DEF Orders
  <2> QED BY <1>1, <1>2, <2>1, <2>2
<1> QED BY <1>3, <1>4

\* Every number below that of the elements is the rank of one of them.
LEMMA RankOnto ==
    ASSUME NEW M, NEW R, Orders(R, M), NEW k \in 1..Cardinality(M)
    PROVE  \E m \in M : Rank(M, R, m) = k - 1
<1> DEFINE n == Cardinality(M)
           f == [m \in M |-> Rank(M, R, m) + 1]
<1>1. IsFiniteSet(M) /\ n \in Nat
  BY FS_CardinalityType DEF Orders
<1>2. \A m \in M : Rank(M, R, m) \in 0..n - 1
  BY RankType
<1>3. \A m \in M : f[m] = Rank(M, R, m) + 1 /\ f[m] \in 1..n
  BY <1>1, <1>2
<1>4. f \in [M -> 1..n]
  BY <1>3
<1> HIDE DEF f, n
<1>5. ASSUME NEW q \in M, NEW m \in M, f[q] = f[m]
      PROVE  q = m
  <2>1. Rank(M, R, q) = Rank(M, R, m)
    BY <1>1, <1>2, <1>3, <1>5
  <2> QED BY <2>1, RankMonotone
<1>6. f \in Injection(M, 1..n)
  BY <1>4, <1>5 DEF Injection, IsInjective
<1>7. IsFiniteSet(1..n) /\ Cardinality(1..n) = n
  BY <1>1, FS_Interval
<1>8. f \in Surjection(M, 1..n)
  BY <1>6, <1>7, FS_Injection DEF n
<1>9. PICK m \in M : f[m] = k
  BY <1>8 DEF Surjection, n
<1> QED BY <1>1, <1>2, <1>3, <1>9 DEF n

\* What the sequence holds: at each position the element of that rank.
LEMMA InOrderIs ==
    ASSUME NEW M, NEW R, Orders(R, M)
    PROVE  /\ InOrder(M, R) \in Seq(M)
           /\ Len(InOrder(M, R)) = Cardinality(M)
           /\ Cardinality(M) \in Nat
           /\ \A k \in 1..Cardinality(M) :
                  InOrder(M, R)[k] \in M /\ Rank(M, R, InOrder(M, R)[k]) = k - 1
           /\ \A m \in M : /\ Rank(M, R, m) + 1 \in 1..Cardinality(M)
                           /\ InOrder(M, R)[Rank(M, R, m) + 1] = m
<1> DEFINE n == Cardinality(M)
           s == InOrder(M, R)
<1>1. n \in Nat
  BY FS_CardinalityType DEF Orders
<1>2. s = [k \in 1..n |-> CHOOSE m \in M : Rank(M, R, m) = k - 1]
  BY DEF InOrder
<1>3. ASSUME NEW k \in 1..n
      PROVE  s[k] \in M /\ Rank(M, R, s[k]) = k - 1
  <2>1. \E m \in M : Rank(M, R, m) = k - 1
    BY RankOnto
  <2>2. s[k] = CHOOSE m \in M : Rank(M, R, m) = k - 1
    BY <1>2
  <2> HIDE DEF s
  <2> QED BY <2>1, <2>2
<1> HIDE DEF s, n
<1>4. s \in [1..n -> M]
  BY <1>2, <1>3
<1>5. s \in Seq(M) /\ Len(s) = n
  BY <1>1, <1>4, <1>2
<1>6. ASSUME NEW m \in M
      PROVE  Rank(M, R, m) + 1 \in 1..n /\ s[Rank(M, R, m) + 1] = m
  <2>1. Rank(M, R, m) \in Nat /\ Rank(M, R, m) + 1 \in 1..n
    BY <1>1, RankType DEF n
  <2>2. s[Rank(M, R, m) + 1] \in M /\ Rank(M, R, s[Rank(M, R, m) + 1]) = Rank(M, R, m)
    BY <1>3, <2>1
  <2> QED BY <2>1, <2>2, RankMonotone
<1> QED BY <1>1, <1>3, <1>5, <1>6 DEF s, n

\* A sequence with every element at the position of its rank is the one.
LEMMA InOrderUnique ==
    ASSUME NEW M, NEW R, Orders(R, M), NEW S, NEW s \in Seq(S), Len(s) = Cardinality(M),
           \A m \in M : s[Rank(M, R, m) + 1] = m
    PROVE  s = InOrder(M, R)
<1> DEFINE t == InOrder(M, R)
           n == Cardinality(M)
<1>1. t \in Seq(M) /\ Len(t) = n /\ n \in Nat
  BY InOrderIs
<1>2. ASSUME NEW k \in 1..n
      PROVE  s[k] = t[k]
  <2>1. t[k] \in M /\ Rank(M, R, t[k]) = k - 1
    BY InOrderIs
  <2>2. s[(k - 1) + 1] = t[k]
    BY <2>1
  <2>3. (k - 1) + 1 = k
    BY <1>1
  <2> QED BY <2>2, <2>3
<1> HIDE DEF t
<1>3. s = t
  BY <1>1, <1>2, SeqEqual
<1> QED BY <1>3 DEF t

\* Orders that agree on the elements make the same sequence.
LEMMA InOrderSame ==
    ASSUME NEW M, NEW R, NEW Q, Orders(R, M), Agree(Q, R, M)
    PROVE  InOrder(M, Q) = InOrder(M, R)
<1>1. Orders(Q, M)
  BY DEF Orders, Agree
<1>2. ASSUME NEW m \in M
      PROVE  Rank(M, Q, m) = Rank(M, R, m)
  <2>1. {q \in M : <<q, m>> \in Q} = {q \in M : <<q, m>> \in R}
    BY DEF Agree
  <2> QED BY <2>1 DEF Rank
<1>3. /\ InOrder(M, Q) \in Seq(M)
      /\ Len(InOrder(M, Q)) = Cardinality(M)
      /\ \A m \in M : InOrder(M, Q)[Rank(M, Q, m) + 1] = m
  BY <1>1, InOrderIs
<1>4. \A m \in M : InOrder(M, Q)[Rank(M, R, m) + 1] = m
  BY <1>2, <1>3
<1> QED BY <1>3, <1>4, InOrderUnique

\* An element put behind all others is appended.
LEMMA InOrderAppend ==
    ASSUME NEW M, NEW R, NEW Q, NEW x, Orders(R, M), x \notin M, Agree(Q, R, M),
           Orders(Q, M \cup {x}), \A q \in M : <<q, x>> \in Q
    PROVE  InOrder(M \cup {x}, Q) = Append(InOrder(M, R), x)
<1> DEFINE N == M \cup {x}
           n == Cardinality(M)
           s == InOrder(M, R)
           t == Append(s, x)
<1>1. s \in Seq(M) /\ Len(s) = n /\ n \in Nat
  BY InOrderIs
<1>2. Cardinality(N) = n + 1 /\ IsFiniteSet(M)
  BY FS_AddElement DEF Orders
<1>3. \A m \in M : <<x, m>> \notin Q
  BY DEF Orders
<1>4. ASSUME NEW m \in M
      PROVE  Rank(N, Q, m) = Rank(M, R, m)
  <2>1. {q \in N : <<q, m>> \in Q} = {q \in M : <<q, m>> \in R}
    BY <1>3 DEF Agree
  <2> QED BY <2>1 DEF Rank
<1>5. Rank(N, Q, x) = n
  <2>1. {q \in N : <<q, x>> \in Q} = M
    BY DEF Orders
  <2> QED BY <2>1 DEF Rank
<1> HIDE DEF s
<1>6. /\ t \in Seq(N) /\ Len(t) = n + 1
      /\ \A k \in 1..n : t[k] = s[k]
      /\ t[n + 1] = x
  <2>1. s \in Seq(N) /\ x \in N
    BY <1>1
  <2> QED BY <1>1, <2>1, AppendProperties
<1>7. ASSUME NEW m \in N
      PROVE  t[Rank(N, Q, m) + 1] = m
  <2>1. CASE m = x
    BY <1>5, <1>6, <2>1
  <2>2. CASE m \in M
    <3>1. Rank(M, R, m) + 1 \in 1..n /\ s[Rank(M, R, m) + 1] = m
      BY <2>2, InOrderIs DEF s
    <3> QED BY <1>4, <1>6, <2>2, <3>1
  <2> QED BY <2>1, <2>2
<1> HIDE DEF N, t
<1>8. Orders(Q, N)
  BY DEF N
<1>9. t = InOrder(N, Q)
  BY <1>2, <1>6, <1>7, <1>8, InOrderUnique
<1> QED BY <1>9 DEF N, t, s

\* When the element ahead of all others goes, the rest is the tail.
LEMMA InOrderTail ==
    ASSUME NEW M, NEW R, NEW Q, NEW x \in M, Orders(R, M), Agree(Q, R, M \ {x}),
           \A q \in M \ {x} : <<x, q>> \in R
    PROVE  /\ InOrder(M, R) # <<>>
           /\ Head(InOrder(M, R)) = x
           /\ Tail(InOrder(M, R)) = InOrder(M \ {x}, Q)
<1> DEFINE N == M \ {x}
           n == Cardinality(M)
           s == InOrder(M, R)
           t == Tail(s)
<1>1. s \in Seq(M) /\ Len(s) = n /\ n \in Nat
  BY InOrderIs
<1>2. IsFiniteSet(N) /\ Cardinality(N) = n - 1
  BY FS_RemoveElement DEF Orders
<1>3. Orders(Q, N)
  BY <1>2 DEF Orders, Agree
<1>4. Rank(M, R, x) = 0
  <2>1. {q \in M : <<q, x>> \in R} = {}
    BY DEF Orders
  <2> QED BY <2>1, FS_EmptySet DEF Rank
<1>5. Rank(M, R, x) + 1 \in 1..n /\ s[Rank(M, R, x) + 1] = x
  BY InOrderIs
<1>6. n >= 1 /\ s[1] = x
  BY <1>1, <1>4, <1>5
<1>7. ASSUME NEW m \in N
      PROVE  Rank(M, R, m) = Rank(N, Q, m) + 1 /\ Rank(N, Q, m) \in 0..n - 2
  <2> DEFINE B == {q \in M : <<q, m>> \in R}
  <2>1. {q \in N : <<q, m>> \in Q} = B \ {x} /\ x \in B
    BY DEF Agree
  <2>2. IsFiniteSet(B)
    BY RankType DEF Before
  <2>3. Cardinality(B \ {x}) = Cardinality(B) - 1 /\ Cardinality(B) \in Nat
    BY <2>1, <2>2, FS_RemoveElement, FS_CardinalityType
  <2>4. Rank(M, R, m) = Cardinality(B) /\ Rank(N, Q, m) = Cardinality(B \ {x})
    BY <2>1 DEF Rank
  <2>5. Rank(N, Q, m) \in 0..Cardinality(N) - 1
    BY <1>3, RankType
  <2> HIDE DEF B
  <2> QED BY <1>1, <1>2, <2>3, <2>4, <2>5
<1> HIDE DEF s
<1>8. /\ s # <<>> /\ Head(s) = x
      /\ t \in Seq(M) /\ Len(t) = n - 1
      /\ \A k \in 1..n - 1 : t[k] = s[k + 1]
  <2>1. s # <<>> /\ Head(s) = x
    BY <1>1, <1>6
  <2> QED BY <1>1, <2>1, HeadTailProperties
<1>9. ASSUME NEW m \in N
      PROVE  t[Rank(N, Q, m) + 1] = m
  <2>0. Rank(M, R, m) = Rank(N, Q, m) + 1 /\ Rank(N, Q, m) \in 0..n - 2
    BY <1>7
  <2>1. Rank(N, Q, m) + 1 \in 1..n - 1 /\ Rank(M, R, m) + 1 = (Rank(N, Q, m) + 1) + 1
    BY <1>1, <2>0
  <2>2. s[Rank(M, R, m) + 1] = m
    BY InOrderIs DEF s
  <2> QED BY <1>8, <2>1, <2>2
<1> HIDE DEF N, t, n
<1>10. t = InOrder(N, Q)
  BY <1>2, <1>3, <1>8, <1>9, InOrderUnique
<1> QED BY <1>8, <1>10 DEF N, s, t

\* What is left of a set in its order is a subsequence.
LEMMA InOrderSubsequence ==
    ASSUME NEW M, NEW N, NEW R, NEW Q, Orders(R, M), N \in SUBSET M, Agree(Q, R, N)
    PROVE  Links!IsSubsequence(InOrder(N, Q), InOrder(M, R))
<1> DEFINE s == InOrder(M, R)
           t == InOrder(N, Q)
           n == Cardinality(N)
           p == [i \in 1..n |-> Rank(M, R, t[i]) + 1]
<1>1. IsFiniteSet(N)
  BY FS_Subset DEF Orders
<1>2. Orders(Q, N)
  BY <1>1 DEF Orders, Agree
<1>3. /\ Len(s) = Cardinality(M) /\ Len(t) = n /\ n \in Nat
      /\ \A i \in 1..n : t[i] \in N /\ Rank(N, Q, t[i]) = i - 1
      /\ \A m \in M : Rank(M, R, m) + 1 \in 1..Cardinality(M) /\ s[Rank(M, R, m) + 1] = m
  BY <1>2, InOrderIs
<1> HIDE DEF s, t
<1>4. \A i \in 1..n : p[i] \in 1..Len(s) /\ s[p[i]] = t[i]
  BY <1>3
<1>5. ASSUME NEW i \in 1..n, NEW j \in 1..(i - 1)
      PROVE  p[j] < p[i]
  <2>1. j \in 1..n /\ j - 1 < i - 1
    BY <1>3
  <2>2. t[i] \in N /\ t[j] \in N /\ Rank(N, Q, t[j]) < Rank(N, Q, t[i])
    BY <1>3, <2>1
  <2>3. <<t[j], t[i]>> \in Q
    BY <1>2, <2>2, RankMonotone
  <2>4. <<t[j], t[i]>> \in R
    BY <2>2, <2>3 DEF Agree
  <2>5. Rank(M, R, t[j]) < Rank(M, R, t[i])
    BY <2>2, <2>4, RankMonotone
  <2>6. Rank(M, R, t[j]) \in Int /\ Rank(M, R, t[i]) \in Int
    BY <2>2, RankType
  <2> QED BY <2>1, <2>5, <2>6
<1>6. p \in [1..Len(t) -> 1..Len(s)]
  BY <1>3, <1>4
<1> HIDE DEF p
<1>7. \A i \in 1..Len(t) : t[i] = s[p[i]] /\ \A j \in 1..(i - 1) : p[j] < p[i]
  BY <1>3, <1>4, <1>5
<1>8. Links!IsSubsequence(t, s)
  BY <1>6, <1>7 DEF Links!IsSubsequence
<1> QED BY <1>8 DEF s, t

----------------------------------------------------------------------------
(***************************************************************************)
(* The messages that can still be delivered are in a line: msgCh, then the *)
(* hand of the reader, then the stream.  A place is a position in it.      *)
(***************************************************************************)

At(ch, h, w, s, m, p) ==
    \/ p \in 1..Len(ch) /\ ch[p] = <<m, s>>
    \/ p = Len(ch) + 1 /\ h = m
    \/ p - Len(ch) - 1 \in 1..Len(w) /\ w[p - Len(ch) - 1] = <<m, 1>>

PlaceAt(s, m, p) == At(msgCh[to[s]], inHand[s], wire[s], s, m, p)

\* A channel holds what came on streams to its node.
StreamOK(y) == \A i \in 1..Len(msgCh[y]) : to[msgCh[y][i][2]] = y

RefInv ==
    /\ IInv
    /\ OnceInv
    /\ \A y \in Node : StreamOK(y)

\* The types of what makes up a line.
LEMMA LineTypes ==
    ASSUME IInv, NEW s \in Message
    PROVE  /\ to[s] \in Node
           /\ msgCh[to[s]] \in Seq(Message \X Message) /\ Len(msgCh[to[s]]) \in Nat
           /\ wire[s] \in Seq(Fragment) /\ Len(wire[s]) \in Nat
           /\ inHand[s] \in Message \cup {None}
BY MessageTypes DEF IInv, WireTypes, RecvInv, RecvTypes

\* A message is in the line when it has a place there.
LEMMA Placed ==
    IInv => \A s, m \in Message : m \in Pending(s) <=> \E p \in Nat : PlaceAt(s, m, p)
<1> SUFFICES ASSUME IInv, NEW s \in Message, NEW m \in Message
             PROVE  m \in Pending(s) <=> \E p \in Nat : PlaceAt(s, m, p)
  OBVIOUS
<1> DEFINE ch == msgCh[to[s]]
           n == Len(ch)
           w == wire[s]
<1>1. n \in Nat /\ Len(w) \in Nat
  BY LineTypes
<1>2. ASSUME Pushed(s, m)
      PROVE  \E p \in Nat : PlaceAt(s, m, p)
  <2>1. PICK p \in 1..n : PushedAt(s, m, p)
    BY <1>2 DEF Pushed
  <2>2. p \in Nat /\ PlaceAt(s, m, p)
    BY <1>1, <2>1 DEF PlaceAt, At, PushedAt
  <2> QED BY <2>2
<1>3. ASSUME inHand[s] = m
      PROVE  \E p \in Nat : PlaceAt(s, m, p)
  <2>1. n + 1 \in Nat /\ PlaceAt(s, m, n + 1)
    BY <1>1, <1>3 DEF PlaceAt, At
  <2> QED BY <2>1
<1>4. ASSUME Unread(s, m)
      PROVE  \E p \in Nat : PlaceAt(s, m, p)
  <2>1. PICK i \in 1..Len(w) : UnreadAt(s, m, i)
    BY <1>4 DEF Unread
  <2>2. \A a, b \in Nat : a + 1 + b \in Nat /\ (a + 1 + b) - a - 1 = b
    OBVIOUS
  <2> HIDE DEF n, w
  <2>3. n + 1 + i \in Nat /\ (n + 1 + i) - n - 1 = i
    BY <1>1, <2>2
  <2>4. PlaceAt(s, m, n + 1 + i)
    BY <2>1, <2>3 DEF PlaceAt, At, UnreadAt, n, w
  <2> QED BY <2>3, <2>4
<1>5. ASSUME NEW p \in Nat, PlaceAt(s, m, p)
      PROVE  Pushed(s, m) \/ inHand[s] = m \/ Unread(s, m)
  BY <1>5 DEF PlaceAt, At, Pushed, PushedAt, Unread, UnreadAt
<1> QED BY <1>2, <1>3, <1>4, <1>5 DEF Pending

\* Places are unique, and they tell what precedes what.
LEMMA PlaceOrder ==
    ASSUME IInv, OnceInv, NEW s \in Message, NEW q \in Message, NEW m \in Message,
           NEW p \in Nat, NEW r \in Nat, PlaceAt(s, q, p), PlaceAt(s, m, r)
    PROVE  /\ p = r <=> q = m
           /\ Precedes(s, q, m) <=> p < r
<1> DEFINE ch == msgCh[to[s]]
           n == Len(ch)
           w == wire[s]
<1>1. n \in Nat /\ Len(w) \in Nat /\ to[s] \in Node /\ q # None /\ m # None
  BY LineTypes, MessageTypes
<1>2. Once(q) /\ Once(m)
  BY DEF OnceInv
<1>3. ASSUME NEW x \in Message, Once(x)
      PROVE  /\ \A i, j \in Nat : PushedAt(s, x, i) /\ PushedAt(s, x, j) => i = j
             /\ \A i, j \in Nat : UnreadAt(s, x, i) /\ UnreadAt(s, x, j) => i = j
             /\ Pushed(s, x) => inHand[s] # x /\ ~Unread(s, x)
             /\ inHand[s] = x => ~Unread(s, x)
  <2>1. \A i \in Nat : UnreadAt(s, x, i) => OnWire(x, s, i)
    BY DEF UnreadAt, OnWire
  <2>2. \A i \in Nat : PushedAt(s, x, i) => i \in 1..n /\ ch[i][1] = x
    BY DEF PushedAt
  <2>3. Pushed(s, x) => InChannel(x)
    BY <1>1 DEF Pushed, PushedAt, InChannel
  <2>4. Unread(s, x) => \E i \in Nat : OnWire(x, s, i)
    BY <1>1, <2>1 DEF Unread
  <2>5. inHand[s] = x => InHand(x)
    BY DEF InHand
  <2>6. \A i, j \in Nat : PushedAt(s, x, i) /\ PushedAt(s, x, j) => i = j
    BY <1>1, <1>3, <2>2 DEF Once, ChannelOnce
  <2>7. \A i, j \in Nat : UnreadAt(s, x, i) /\ UnreadAt(s, x, j) => i = j
    BY <1>3, <2>1 DEF Once, WireOnce
  <2> QED BY <1>3, <2>3, <2>4, <2>5, <2>6, <2>7 DEF Once, OnePlace
<1>4. /\ PushedAt(s, q, p) \/ (p = n + 1 /\ inHand[s] = q) \/ UnreadAt(s, q, p - n - 1)
      /\ PushedAt(s, m, r) \/ (r = n + 1 /\ inHand[s] = m) \/ UnreadAt(s, m, r - n - 1)
  BY DEF PlaceAt, At, PushedAt, UnreadAt
<1>5. /\ \A x \in Message, i \in Nat : PushedAt(s, x, i) => i \in 1..n /\ Pushed(s, x)
      /\ \A x \in Message, i \in Int :
             UnreadAt(s, x, i) => i \in 1..Len(w) /\ Unread(s, x)
  BY DEF Pushed, PushedAt, Unread, UnreadAt
<1>6. /\ \A i \in Nat : PushedAt(s, q, i) /\ PushedAt(s, m, i) => q = m
      /\ \A i \in Nat : UnreadAt(s, q, i) /\ UnreadAt(s, m, i) => q = m
  BY DEF PushedAt, UnreadAt
<1>7. p = r => q = m
  BY <1>1, <1>4, <1>5, <1>6
<1>8. q = m => p = r
  BY <1>1, <1>2, <1>3, <1>4, <1>5
<1>9. ASSUME Precedes(s, q, m)
      PROVE  p < r
  <2>1. CASE \E j \in 1..n : \E i \in 1..(j - 1) : PushedAt(s, q, i) /\ PushedAt(s, m, j)
    <3>1. PICK j \in 1..n : \E i \in 1..(j - 1) : PushedAt(s, q, i) /\ PushedAt(s, m, j)
      BY <2>1
    <3>2. PICK i \in 1..(j - 1) : PushedAt(s, q, i) /\ PushedAt(s, m, j)
      BY <3>1
    <3>3. i \in Nat /\ j \in Nat /\ i < j
      BY <1>1
    <3>4. p = i /\ r = j
      BY <1>1, <1>2, <1>3, <1>4, <1>5, <3>2, <3>3
    <3> QED BY <3>3, <3>4
  <2>2. CASE Pushed(s, q) /\ (inHand[s] = m \/ Unread(s, m))
    BY <1>1, <1>2, <1>3, <1>4, <1>5, <2>2
  <2>3. CASE inHand[s] = q /\ Unread(s, m)
    BY <1>1, <1>2, <1>3, <1>4, <1>5, <2>3
  <2>4. CASE \E j \in 1..Len(w) : \E i \in 1..(j - 1) : UnreadAt(s, q, i) /\ UnreadAt(s, m, j)
    <3>1. PICK j \in 1..Len(w) : \E i \in 1..(j - 1) : UnreadAt(s, q, i) /\ UnreadAt(s, m, j)
      BY <2>4
    <3>2. PICK i \in 1..(j - 1) : UnreadAt(s, q, i) /\ UnreadAt(s, m, j)
      BY <3>1
    <3>3. i \in Nat /\ j \in Nat /\ i < j
      BY <1>1
    <3>4. Unread(s, q) /\ Unread(s, m)
      BY <1>5, <3>2, <3>3
    <3>5. UnreadAt(s, q, p - n - 1) /\ UnreadAt(s, m, r - n - 1)
      BY <1>2, <1>3, <1>4, <1>5, <3>4
    <3>6. p - n - 1 \in Nat /\ r - n - 1 \in Nat
      BY <1>1, <1>5, <3>5
    <3>7. p - n - 1 = i /\ r - n - 1 = j
      BY <1>2, <1>3, <3>2, <3>3, <3>5, <3>6
    <3>8. \A a \in Nat : p - a - 1 < r - a - 1 => p < r
      OBVIOUS
    <3> QED BY <1>1, <3>3, <3>7, <3>8
  <2> QED BY <1>9, <2>1, <2>2, <2>3, <2>4 DEF Precedes
<1>10. ASSUME p < r
       PROVE  Precedes(s, q, m)
  <2>1. CASE PushedAt(s, q, p) /\ PushedAt(s, m, r)
    <3>1. r \in 1..n /\ p \in 1..(r - 1)
      BY <1>1, <1>5, <1>10, <2>1
    <3> QED BY <2>1, <3>1 DEF Precedes
  <2>2. CASE PushedAt(s, q, p) /\ ~PushedAt(s, m, r)
    <3>1. Pushed(s, q) /\ (inHand[s] = m \/ Unread(s, m))
      BY <1>1, <1>4, <1>5, <2>2
    <3> QED BY <3>1 DEF Precedes
  <2>3. CASE ~PushedAt(s, q, p) /\ inHand[s] = q
    <3>1. ~Pushed(s, q) /\ ~Unread(s, q)
      BY <1>2, <1>3, <2>3
    <3>2. p = n + 1
      BY <1>1, <1>4, <1>5, <2>3, <3>1
    <3>3. Unread(s, m)
      BY <1>1, <1>4, <1>5, <1>10, <3>2
    <3> QED BY <2>3, <3>3 DEF Precedes
  <2>4. CASE UnreadAt(s, q, p - n - 1)
    <3>1. p - n - 1 \in 1..Len(w)
      BY <1>1, <1>5, <2>4
    <3>2. UnreadAt(s, m, r - n - 1)
      BY <1>1, <1>4, <1>5, <1>10, <3>1
    <3>3. r - n - 1 \in 1..Len(w) /\ p - n - 1 \in 1..((r - n - 1) - 1)
      BY <1>1, <1>5, <1>10, <3>1, <3>2
    <3> QED BY <2>4, <3>2, <3>3 DEF Precedes
  <2> QED BY <1>4, <2>1, <2>2, <2>3, <2>4
<1> QED BY <1>7, <1>8, <1>9, <1>10

\* The members of a finite sequence of pairs are finitely many.
LEMMA FiniteFirsts ==
    ASSUME NEW s, NEW n \in Nat
    PROVE  IsFiniteSet({s[i][1] : i \in 1..n})
<1> DEFINE T == {s[i][1] : i \in 1..n}
           f == [i \in 1..n |-> s[i][1]]
<1>1. f \in [1..n -> T] /\ \A t \in T : \E i \in 1..n : f[i] = t
  OBVIOUS
<1>2. IsFiniteSet(1..n)
  BY FS_Interval
<1> HIDE DEF f, T
<1>3. f \in Surjection(1..n, T)
  BY <1>1 DEF Surjection
<1>4. IsFiniteSet(T)
  BY <1>2, <1>3, FS_Surjection
<1> QED BY <1>4 DEF T

\* What can still be delivered on a stream is in a strict total order.
LEMMA PendingOrdered ==
    ASSUME IInv, OnceInv, NEW s \in Message
    PROVE  Orders(Ahead(s), Pending(s))
<1> DEFINE M == Pending(s)
           R == Ahead(s)
<1>1. IsFiniteSet(M)
  <2> DEFINE C == {msgCh[to[s]][i][1] : i \in 1..Len(msgCh[to[s]])}
             W == {wire[s][i][1] : i \in 1..Len(wire[s])}
  <2>1. Len(msgCh[to[s]]) \in Nat /\ Len(wire[s]) \in Nat
    BY LineTypes
  <2>2. IsFiniteSet(C) /\ IsFiniteSet(W)
    BY <2>1, FiniteFirsts
  <2>3. \A m \in M : m \in C \/ m = inHand[s] \/ m \in W
    BY DEF Pending, Pushed, PushedAt, Unread, UnreadAt
  <2> HIDE DEF M, C, W
  <2>4. IsFiniteSet(C \cup W)
    BY <2>2, FS_Union
  <2>5. IsFiniteSet((C \cup W) \cup {inHand[s]})
    BY <2>4, FS_AddElement
  <2>6. M \in SUBSET ((C \cup W) \cup {inHand[s]})
    BY <2>3
  <2> QED BY <2>5, <2>6, FS_Subset
<1>2. \A q, m \in M : <<q, m>> \in R <=> Precedes(s, q, m)
  BY DEF Ahead
<1>3. \A m \in M : m \in Message /\ \E p \in Nat : PlaceAt(s, m, p)
  <2>1. \A m \in M : m \in Message
    BY DEF Pending
  <2> QED BY <2>1, Placed
<1> HIDE DEF M, R
<1>4. ASSUME NEW q \in M, NEW m \in M
      PROVE  \E p, r \in Nat :
                 /\ PlaceAt(s, q, p) /\ PlaceAt(s, m, r)
                 /\ p = r <=> q = m
                 /\ <<q, m>> \in R <=> p < r
                 /\ <<m, q>> \in R <=> r < p
  <2>1. PICK p \in Nat : PlaceAt(s, q, p)
    BY <1>3
  <2>2. PICK r \in Nat : PlaceAt(s, m, r)
    BY <1>3
  <2>3. q \in Message /\ m \in Message
    BY <1>3
  <2>4. (p = r <=> q = m) /\ (Precedes(s, q, m) <=> p < r)
    BY <2>1, <2>2, <2>3, PlaceOrder
  <2>5. Precedes(s, m, q) <=> r < p
    BY <2>1, <2>2, <2>3, PlaceOrder
  <2> QED BY <1>2, <2>1, <2>2, <2>4, <2>5
<1>5. \A m \in M : <<m, m>> \notin R
  BY <1>4
<1>6. \A q, m \in M : q # m => <<q, m>> \in R \/ <<m, q>> \in R
  BY <1>4
<1>7. ASSUME NEW a \in M, NEW b \in M, NEW c \in M, <<a, b>> \in R, <<b, c>> \in R
      PROVE  <<a, c>> \in R
  <2>1. PICK i, j \in Nat : PlaceAt(s, a, i) /\ PlaceAt(s, b, j) /\ i < j
    BY <1>4, <1>7
  <2>2. PICK k \in Nat : PlaceAt(s, c, k)
    BY <1>3
  <2>3. a \in Message /\ b \in Message /\ c \in Message
    BY <1>3
  <2>4. Precedes(s, b, c) <=> j < k
    BY <2>1, <2>2, <2>3, PlaceOrder
  <2>5. i < k
    BY <1>2, <1>7, <2>1, <2>4
  <2>6. Precedes(s, a, c)
    BY <2>1, <2>2, <2>3, <2>5, PlaceOrder
  <2> QED BY <1>2, <2>6
<1> QED BY <1>1, <1>5, <1>6, <1>7 DEF Orders, M, R

\* What the places say of every stream.
LineOrdered ==
    \A s \in Message :
        /\ Orders(Ahead(s), Pending(s))
        /\ \A m \in Message : m \in Pending(s) <=> \E p \in Nat : PlaceAt(s, m, p)
        /\ \A q, m \in Message : \A p, r \in Nat :
               PlaceAt(s, q, p) /\ PlaceAt(s, m, r) =>
                   /\ p = r <=> q = m
                   /\ <<q, m>> \in Ahead(s) <=> p < r

\* The line of every stream is in order.
LEMMA LineOrder == IInv /\ OnceInv => LineOrdered
<1> SUFFICES ASSUME IInv, OnceInv, NEW s \in Message
             PROVE  /\ Orders(Ahead(s), Pending(s))
                    /\ \A m \in Message : m \in Pending(s) <=> \E p \in Nat : PlaceAt(s, m, p)
                    /\ \A q, m \in Message : \A p, r \in Nat :
                           PlaceAt(s, q, p) /\ PlaceAt(s, m, r) =>
                               /\ p = r <=> q = m
                               /\ <<q, m>> \in Ahead(s) <=> p < r
  BY DEF LineOrdered
<1>1. Orders(Ahead(s), Pending(s))
  BY PendingOrdered
<1>2. \A m \in Message : m \in Pending(s) <=> \E p \in Nat : PlaceAt(s, m, p)
  BY Placed
<1>3. ASSUME NEW q \in Message, NEW m \in Message, NEW p \in Nat, NEW r \in Nat,
             PlaceAt(s, q, p), PlaceAt(s, m, r)
      PROVE  /\ p = r <=> q = m
             /\ <<q, m>> \in Ahead(s) <=> p < r
  <2>1. q \in Pending(s) /\ m \in Pending(s)
    BY <1>2, <1>3
  <2>2. <<q, m>> \in Ahead(s) <=> Precedes(s, q, m)
    BY <2>1 DEF Ahead
  <2> QED BY <1>3, <2>2, PlaceOrder
<1> QED BY <1>1, <1>2, <1>3

\* Two messages are at one place only if they are one.
LEMMA PlaceUnique ==
    ASSUME LineOrdered, NEW s \in Message, NEW q \in Message, NEW m \in Message,
           NEW i \in Nat, NEW j \in Nat, PlaceAt(s, q, i), PlaceAt(s, m, j)
    PROVE  i = j <=> q = m
<1>1. \A a, b \in Message : \A p, r \in Nat :
          PlaceAt(s, a, p) /\ PlaceAt(s, b, r) =>
              /\ p = r <=> a = b
              /\ <<a, b>> \in Ahead(s) <=> p < r
  BY DEF LineOrdered
<1>2. /\ i = j <=> q = m
      /\ <<q, m>> \in Ahead(s) <=> i < j
  BY <1>1
<1> QED BY <1>2

\* It is so after every step as well.
LEMMA LineOrderNext == IInv' /\ OnceInv' => LineOrdered'
BY LineOrder, PTL

----------------------------------------------------------------------------
(***************************************************************************)
(* What steps do to a line.  Messages move along it and some leave it, but *)
(* none overtakes another: the new place is a function sh of the old one   *)
(* that never decreases.                                                   *)
(***************************************************************************)

Shift(sh) ==
    /\ \A p \in Nat : sh[p] \in Nat
    /\ \A p, r \in Nat : p <= r => sh[p] <= sh[r]

\* Messages that are moved by such a function keep their order.
LEMMA ShiftAgrees ==
    ASSUME LineOrdered, LineOrdered', NEW s \in Message, NEW N \in SUBSET Message,
           NEW sh, Shift(sh),
           \A m \in N : \E p \in Nat : PlaceAt(s, m, p) /\ PlaceAt(s, m, sh[p])'
    PROVE  Agree(Ahead(s)', Ahead(s), N)
<1> SUFFICES ASSUME NEW q \in N, NEW m \in N
             PROVE  <<q, m>> \in Ahead(s)' <=> <<q, m>> \in Ahead(s)
  BY DEF Agree
<1>1. PICK p \in Nat : PlaceAt(s, q, p) /\ PlaceAt(s, q, sh[p])'
  OBVIOUS
<1>2. PICK r \in Nat : PlaceAt(s, m, r) /\ PlaceAt(s, m, sh[r])'
  OBVIOUS
<1>3. q \in Message /\ m \in Message /\ sh[p] \in Nat /\ sh[r] \in Nat
  BY DEF Shift
<1>4. (p = r <=> q = m) /\ (<<q, m>> \in Ahead(s) <=> p < r)
  BY <1>1, <1>2, <1>3 DEF LineOrdered
<1>5. (sh[p] = sh[r] <=> q = m) /\ (<<q, m>> \in Ahead(s)' <=> sh[p] < sh[r])
  BY <1>1, <1>2, <1>3 DEF LineOrdered
<1>6. (p <= r => sh[p] <= sh[r]) /\ (r <= p => sh[r] <= sh[p])
  BY DEF Shift
<1> QED BY <1>3, <1>4, <1>5, <1>6

\* Every message of the line stays in it, and no other joins: the link is as it was.
LEMMA LineSame ==
    ASSUME LineOrdered, LineOrdered', NEW s \in Message, NEW sh, Shift(sh),
           \A m \in Message : \A p \in Nat : PlaceAt(s, m, p) => PlaceAt(s, m, sh[p])',
           \A m \in Message : \A r \in Nat :
               PlaceAt(s, m, r)' => \E p \in Nat : PlaceAt(s, m, p)
    PROVE  OnStream(s)' = OnStream(s)
<1>1. Pending(s)' = Pending(s)
  <2>1. Pending(s) \subseteq Message /\ Pending(s)' \subseteq Message
    BY DEF Pending
  <2>2. \A m \in Message : m \in Pending(s) <=> \E p \in Nat : PlaceAt(s, m, p)
    BY DEF LineOrdered
  <2>3. \A m \in Message : m \in Pending(s)' <=> \E p \in Nat : PlaceAt(s, m, p)'
    BY DEF LineOrdered
  <2>4. \A p \in Nat : sh[p] \in Nat
    BY DEF Shift
  <2> QED BY <2>1, <2>2, <2>3, <2>4
<1>2. Pending(s) \in SUBSET Message
  BY DEF Pending
<1>3. \A m \in Pending(s) : \E p \in Nat : PlaceAt(s, m, p) /\ PlaceAt(s, m, sh[p])'
  BY <1>2 DEF LineOrdered
<1>4. Agree(Ahead(s)', Ahead(s), Pending(s))
  BY <1>2, <1>3, ShiftAgrees
<1>5. Orders(Ahead(s), Pending(s))
  BY DEF LineOrdered
<1>6. InOrder(Pending(s), Ahead(s)') = InOrder(Pending(s), Ahead(s))
  BY <1>4, <1>5, InOrderSame
<1> QED BY <1>1, <1>6 DEF OnStream

\* Some messages of the line may have left it: they were lost.
LEMMA LineLoses ==
    ASSUME LineOrdered, LineOrdered', NEW s \in Message, NEW sh, Shift(sh),
           \A m \in Message : \A r \in Nat :
               PlaceAt(s, m, r)' => \E p \in Nat : PlaceAt(s, m, p) /\ r = sh[p]
    PROVE  Links!IsSubsequence(OnStream(s)', OnStream(s))
<1> DEFINE N == Pending(s)'
<1>1. N \in SUBSET Message
  BY DEF Pending
<1>2. \A m \in N : \E p \in Nat : PlaceAt(s, m, p) /\ PlaceAt(s, m, sh[p])'
  <2> SUFFICES ASSUME NEW m \in N
               PROVE  \E p \in Nat : PlaceAt(s, m, p) /\ PlaceAt(s, m, sh[p])'
    OBVIOUS
  <2>1. PICK r \in Nat : PlaceAt(s, m, r)'
    BY <1>1 DEF LineOrdered
  <2>2. PICK p \in Nat : PlaceAt(s, m, p) /\ r = sh[p]
    BY <1>1, <2>1
  <2> QED BY <2>1, <2>2
<1>3. \A m \in N : m \in Pending(s)
  BY <1>1, <1>2 DEF LineOrdered
<1> HIDE DEF N
<1>4. Agree(Ahead(s)', Ahead(s), N)
  BY <1>1, <1>2, ShiftAgrees
<1>5. Orders(Ahead(s), Pending(s)) /\ N \in SUBSET Pending(s)
  BY <1>3 DEF LineOrdered
<1>6. Links!IsSubsequence(InOrder(N, Ahead(s)'), InOrder(Pending(s), Ahead(s)))
  BY <1>4, <1>5, InOrderSubsequence
<1> QED BY <1>6 DEF N, OnStream

\* A message has joined behind all others: it was sent.
LEMMA LineAppends ==
    ASSUME LineOrdered, LineOrdered', NEW s \in Message, NEW x \in Message,
           x \notin Pending(s),
           \A m \in Message : \A p \in Nat : PlaceAt(s, m, p) => PlaceAt(s, m, p)',
           \A m \in Message : \A r \in Nat :
               m # x /\ PlaceAt(s, m, r)' => PlaceAt(s, m, r),
           NEW k \in Nat, PlaceAt(s, x, k)',
           \A m \in Message : \A p \in Nat : PlaceAt(s, m, p) => p < k
    PROVE  OnStream(s)' = Append(OnStream(s), x)
<1> DEFINE M == Pending(s)
           sh == [p \in Nat |-> p]
<1>1. /\ Orders(Ahead(s), M) /\ Orders(Ahead(s)', Pending(s)')
      /\ \A m \in Message : m \in M <=> \E p \in Nat : PlaceAt(s, m, p)
      /\ \A m \in Message : m \in Pending(s)' <=> \E p \in Nat : PlaceAt(s, m, p)'
  BY DEF LineOrdered
<1>2. M \in SUBSET Message /\ Pending(s)' \in SUBSET Message
  BY DEF Pending
<1> HIDE DEF M
<1>3. Pending(s)' = M \cup {x}
  <2>1. x \in Pending(s)'
    BY <1>1
  <2>2. \A m \in Message : m \in M => m \in Pending(s)'
    BY <1>1
  <2>3. \A m \in Message : m # x /\ m \in Pending(s)' => m \in M
    BY <1>1
  <2> QED BY <1>2, <2>1, <2>2, <2>3
<1>4. Shift(sh)
  BY DEF Shift
<1>5. \A m \in M : \E p \in Nat : PlaceAt(s, m, p) /\ PlaceAt(s, m, sh[p])'
  BY <1>1, <1>2
<1> HIDE DEF sh
<1>6. Agree(Ahead(s)', Ahead(s), M)
  BY <1>2, <1>4, <1>5, ShiftAgrees
<1>7. ASSUME NEW m \in M
      PROVE  <<m, x>> \in Ahead(s)'
  <2>1. PICK p \in Nat : PlaceAt(s, m, p)
    BY <1>1, <1>2
  <2>2. PlaceAt(s, m, p)' /\ p < k
    BY <1>2, <2>1
  <2> QED BY <1>2, <2>2 DEF LineOrdered
<1>8. InOrder(M \cup {x}, Ahead(s)') = Append(InOrder(M, Ahead(s)), x)
  <2>1. Orders(Ahead(s)', M \cup {x}) /\ x \notin M
    BY <1>1, <1>3 DEF M
  <2> QED BY <1>1, <1>6, <1>7, <2>1, InOrderAppend
<1> QED BY <1>3, <1>8 DEF OnStream, M

\* The message at the front has left: it was delivered.
LEMMA LineDelivers ==
    ASSUME LineOrdered, LineOrdered', NEW s \in Message, NEW x \in Message, NEW sh, Shift(sh),
           PlaceAt(s, x, 1),
           \A m \in Message : \A p \in Nat : PlaceAt(s, m, p) => p >= 1,
           \A m \in Message : \A p \in Nat :
               m # x /\ PlaceAt(s, m, p) => PlaceAt(s, m, sh[p])',
           \A m \in Message : \A r \in Nat :
               PlaceAt(s, m, r)' => m # x /\ \E p \in Nat : PlaceAt(s, m, p)
    PROVE  /\ OnStream(s) # <<>>
           /\ Head(OnStream(s)) = x
           /\ OnStream(s)' = Tail(OnStream(s))
<1> DEFINE M == Pending(s)
<1>1. /\ Orders(Ahead(s), M)
      /\ \A m \in Message : m \in M <=> \E p \in Nat : PlaceAt(s, m, p)
      /\ \A m \in Message : m \in Pending(s)' <=> \E p \in Nat : PlaceAt(s, m, p)'
      /\ \A p \in Nat : sh[p] \in Nat
  BY DEF LineOrdered, Shift
<1>2. M \in SUBSET Message /\ Pending(s)' \in SUBSET Message
  BY DEF Pending
<1> HIDE DEF M
<1>3. x \in M
  BY <1>1
<1>4. Pending(s)' = M \ {x}
  <2>1. \A m \in Message : m \in M /\ m # x => m \in Pending(s)'
    BY <1>1
  <2>2. \A m \in Message : m \in Pending(s)' => m # x /\ m \in M
    BY <1>1
  <2> QED BY <1>2, <2>1, <2>2
<1>5. \A m \in M \ {x} : \E p \in Nat : PlaceAt(s, m, p) /\ PlaceAt(s, m, sh[p])'
  BY <1>1, <1>2
<1>6. Agree(Ahead(s)', Ahead(s), M \ {x})
  <2>1. (M \ {x}) \in SUBSET Message
    BY <1>2
  <2> QED BY <1>5, <2>1, ShiftAgrees
<1>7. ASSUME NEW m \in M \ {x}
      PROVE  <<x, m>> \in Ahead(s)
  <2>1. m \in Message /\ m # x
    BY <1>2
  <2>2. PICK p \in Nat : PlaceAt(s, m, p)
    BY <1>1, <2>1
  <2>3. (1 = p <=> x = m) /\ (<<x, m>> \in Ahead(s) <=> 1 < p)
    BY <2>1, <2>2 DEF LineOrdered
  <2> QED BY <2>1, <2>2, <2>3
<1>8. /\ InOrder(M, Ahead(s)) # <<>>
      /\ Head(InOrder(M, Ahead(s))) = x
      /\ Tail(InOrder(M, Ahead(s))) = InOrder(M \ {x}, Ahead(s)')
  BY <1>1, <1>3, <1>6, <1>7, InOrderTail
<1> QED BY <1>4, <1>8 DEF OnStream, M

\* A stream whose channel, reader and bytes a step leaves alone.
LEMMA LineFrame ==
    ASSUME NEW s \in Message,
           msgCh'[to[s]] = msgCh[to[s]], inHand'[s] = inHand[s], wire'[s] = wire[s]
    PROVE  OnStream(s)' = OnStream(s)
<1>1. /\ \A m, i : PushedAt(s, m, i)' <=> PushedAt(s, m, i)
      /\ \A m, i : UnreadAt(s, m, i)' <=> UnreadAt(s, m, i)
  BY DEF PushedAt, UnreadAt
<1>2. \A m : (Pushed(s, m)' <=> Pushed(s, m)) /\ (Unread(s, m)' <=> Unread(s, m))
  BY <1>1 DEF Pushed, Unread
<1>3. Pending(s)' = Pending(s)
  BY <1>2 DEF Pending
<1>4. \A q, m : Precedes(s, q, m)' <=> Precedes(s, q, m)
  BY <1>1, <1>2 DEF Precedes
<1>5. Ahead(s)' = Ahead(s)
  BY <1>3, <1>4 DEF Ahead
<1> QED BY <1>3, <1>5 DEF OnStream

----------------------------------------------------------------------------
(***************************************************************************)
(* Where the steps move a message to.                                      *)
(***************************************************************************)

\* What is behind place a moves back by one.
MakesRoom(a) == [p \in Nat |-> IF p <= a THEN p ELSE p + 1]

\* All move up by one.
MovesUp == [p \in Nat |-> IF p = 0 THEN 0 ELSE p - 1]

\* What is in the k places behind a is gathered at a; the rest moves up by k.
Gathers(a, k) == [p \in Nat |-> IF p <= a THEN p ELSE IF p <= a + k THEN a ELSE p - k]

\* None of them makes one message overtake another.
LEMMA Shifts ==
    ASSUME NEW a \in Nat, NEW k \in Nat
    PROVE  /\ Shift(MakesRoom(a)) /\ Shift(MovesUp) /\ Shift(Gathers(a, k))
           /\ \A p \in Nat : p <= a => MakesRoom(a)[p] = p /\ Gathers(a, k)[p] = p
           /\ \A p \in Nat : p > a => MakesRoom(a)[p] = p + 1
           /\ \A p \in Nat : p > a /\ p <= a + k => Gathers(a, k)[p] = a
           /\ \A p \in Nat : p > a + k => Gathers(a, k)[p] = p - k
           /\ \A p \in Nat : p >= 1 => MovesUp[p] = p - 1
<1>1. Shift(MakesRoom(a))
  BY DEF Shift, MakesRoom
<1>2. Shift(MovesUp)
  BY DEF Shift, MovesUp
<1>3. Shift(Gathers(a, k))
  <2>1. \A p \in Nat : Gathers(a, k)[p] \in Nat
    BY DEF Gathers
  <2>2. \A p, r \in Nat : p <= r => Gathers(a, k)[p] <= Gathers(a, k)[r]
    BY DEF Gathers
  <2> QED BY <2>1, <2>2 DEF Shift
<1>4. /\ \A p \in Nat : p <= a => MakesRoom(a)[p] = p /\ Gathers(a, k)[p] = p
      /\ \A p \in Nat : p > a => MakesRoom(a)[p] = p + 1
      /\ \A p \in Nat : p >= 1 => MovesUp[p] = p - 1
  BY DEF MakesRoom, Gathers, MovesUp
<1>5. /\ \A p \in Nat : p > a /\ p <= a + k => Gathers(a, k)[p] = a
      /\ \A p \in Nat : p > a + k => Gathers(a, k)[p] = p - k
  BY DEF Gathers
<1> QED BY <1>1, <1>2, <1>3, <1>4, <1>5

\* A place is in the channel, in the hand of the reader, or in the stream.
AtIs(n, l, ch, h, w, s, m) ==
    \A p \in Nat :
        /\ p <= n => (At(ch, h, w, s, m, p) <=> p >= 1 /\ ch[p] = <<m, s>>)
        /\ p = n + 1 => (At(ch, h, w, s, m, p) <=> h = m)
        /\ p > n + 1 => (At(ch, h, w, s, m, p)
                            <=> p <= n + 1 + l /\ w[p - n - 1] = <<m, 1>>)

\* The three cases are all.
LEMMA AtCases ==
    ASSUME NEW ch, NEW h, NEW w, NEW s, NEW m, NEW n \in Nat, NEW l \in Nat,
           Len(ch) = n, Len(w) = l
    PROVE  AtIs(n, l, ch, h, w, s, m)
BY DEF At, AtIs

\* Another reader pushes its message into the channel.
LEMMA PushedByOther ==
    ASSUME NEW ch \in Seq(Message \X Message), NEW w \in Seq(Fragment), NEW h,
           NEW s \in Message, NEW t \in Message, NEW x \in Message, t # s,
           NEW m \in Message, NEW p \in Nat
    PROVE  /\ At(ch, h, w, s, m, p) =>
                  At(Append(ch, <<x, t>>), h, w, s, m, MakesRoom(Len(ch))[p])
           /\ At(Append(ch, <<x, t>>), h, w, s, m, p) =>
                  \E r \in Nat : At(ch, h, w, s, m, r)
<1> DEFINE n == Len(ch)
           l == Len(w)
           d == Append(ch, <<x, t>>)
<1>1. n \in Nat /\ l \in Nat /\ Len(d) = n + 1
  BY AppendProperties
<1>2. (\A i \in 1..n : d[i] = ch[i]) /\ d[n + 1] = <<x, t>>
  BY AppendProperties
<1> HIDE DEF n, l, d
<1>3. /\ n + 1 \in Nat /\ (n + 1) + 1 = n + 2
      /\ Len(ch) = n /\ Len(w) = l
  BY <1>1 DEF n, l
<1>6. AtIs(n, l, ch, h, w, s, m) /\ AtIs(n + 1, l, d, h, w, s, m)
  BY <1>1, <1>3, AtCases
<1>4. ASSUME At(ch, h, w, s, m, p)
      PROVE  At(d, h, w, s, m, MakesRoom(n)[p])
  <2>1. CASE p <= n
    <3>1. p >= 1 /\ ch[p] = <<m, s>> /\ MakesRoom(n)[p] = p
      BY <1>1, <1>3, <1>4, <2>1, <1>6, Shifts DEF AtIs
    <3>2. d[p] = <<m, s>> /\ p <= n + 1
      BY <1>1, <1>2, <2>1, <3>1
    <3> QED BY <1>1, <1>3, <3>1, <3>2, <1>6 DEF AtIs
  <2>2. CASE p = n + 1
    <3>1. h = m /\ MakesRoom(n)[p] = n + 2
      BY <1>1, <1>3, <1>4, <2>2, <1>6, Shifts DEF AtIs
    <3> QED BY <1>1, <1>3, <3>1, <1>6 DEF AtIs
  <2>3. CASE p > n + 1
    <3>0. MakesRoom(n)[p] = p + 1
      BY <1>1, <2>3 DEF MakesRoom
    <3>1. p <= n + 1 + l /\ w[p - n - 1] = <<m, 1>>
      BY <1>1, <1>3, <1>4, <2>3, <1>6 DEF AtIs
    <3>2. p + 1 \in Nat /\ p + 1 > (n + 1) + 1 /\ p + 1 <= (n + 1) + 1 + l
          /\ (p + 1) - (n + 1) - 1 = p - n - 1
      BY <1>1, <2>3, <3>1
    <3>3. At(d, h, w, s, m, p + 1)
      BY <1>1, <1>3, <3>1, <3>2, <1>6 DEF AtIs
    <3> QED BY <3>0, <3>3
  <2> QED BY <1>1, <2>1, <2>2, <2>3
<1>5. ASSUME At(d, h, w, s, m, p)
      PROVE  \E r \in Nat : At(ch, h, w, s, m, r)
  <2>1. CASE p <= n + 1
    <3>1. p >= 1 /\ d[p] = <<m, s>>
      BY <1>1, <1>3, <1>5, <2>1, <1>6 DEF AtIs
    <3>2. p # n + 1
      BY <1>2, <3>1
    <3>3. p <= n /\ ch[p] = <<m, s>>
      BY <1>1, <1>2, <2>1, <3>1, <3>2
    <3> QED BY <1>1, <1>3, <3>1, <3>3, <1>6 DEF AtIs
  <2>2. CASE p = n + 2
    <3>1. h = m
      BY <1>1, <1>3, <1>5, <2>2, <1>6 DEF AtIs
    <3> QED BY <1>1, <1>3, <3>1, <1>6 DEF AtIs
  <2>3. CASE p > n + 2
    <3>1. p <= (n + 1) + 1 + l /\ w[p - (n + 1) - 1] = <<m, 1>>
      BY <1>1, <1>3, <1>5, <2>3, <1>6 DEF AtIs
    <3>2. p - 1 \in Nat /\ p - 1 > n + 1 /\ p - 1 <= n + 1 + l
          /\ (p - 1) - n - 1 = p - (n + 1) - 1
      BY <1>1, <2>3, <3>1
    <3>3. At(ch, h, w, s, m, p - 1)
      BY <1>1, <1>3, <3>1, <3>2, <1>6 DEF AtIs
    <3> QED BY <3>2, <3>3
  <2> QED BY <1>1, <2>1, <2>2, <2>3
<1> QED BY <1>4, <1>5 DEF n, d

\* The reader of the stream pushes the message that it has in hand.
LEMMA PushedByReader ==
    ASSUME NEW ch \in Seq(Message \X Message), NEW w \in Seq(Fragment),
           NEW s \in Message, NEW x \in Message, NEW m \in Message, NEW p \in Nat
    PROVE  /\ At(ch, x, w, s, m, p) =>
                  At(Append(ch, <<x, s>>), None, w, s, m, MakesRoom(Len(ch) + 1)[p])
           /\ At(Append(ch, <<x, s>>), None, w, s, m, p) =>
                  \E r \in Nat : At(ch, x, w, s, m, r)
<1> DEFINE n == Len(ch)
           l == Len(w)
           d == Append(ch, <<x, s>>)
<1>0. m # None
  BY MessageTypes
<1>1. n \in Nat /\ l \in Nat /\ Len(d) = n + 1
  BY AppendProperties
<1>2. (\A i \in 1..n : d[i] = ch[i]) /\ d[n + 1] = <<x, s>>
  BY AppendProperties
<1> HIDE DEF n, l, d
<1>3. /\ n + 1 \in Nat /\ (n + 1) + 1 = n + 2
      /\ Len(ch) = n /\ Len(w) = l
  BY <1>1 DEF n, l
<1>6. AtIs(n, l, ch, x, w, s, m) /\ AtIs(n + 1, l, d, None, w, s, m)
  BY <1>1, <1>3, AtCases
<1>4. ASSUME At(ch, x, w, s, m, p)
      PROVE  At(d, None, w, s, m, MakesRoom(n + 1)[p])
  <2>1. CASE p <= n
    <3>1. p >= 1 /\ ch[p] = <<m, s>>
      BY <1>1, <1>3, <1>4, <2>1, <1>6 DEF AtIs
    <3>2. d[p] = <<m, s>> /\ p <= n + 1
      BY <1>1, <1>2, <2>1, <3>1
    <3>3. MakesRoom(n + 1)[p] = p
      BY <1>3, <3>2, Shifts
    <3> QED BY <1>1, <1>3, <3>1, <3>2, <3>3, <1>6 DEF AtIs
  <2>2. CASE p = n + 1
    <3>1. x = m
      BY <1>1, <1>3, <1>4, <2>2, <1>6 DEF AtIs
    <3>2. MakesRoom(n + 1)[p] = n + 1
      BY <1>1, <2>2 DEF MakesRoom
    <3>3. d[n + 1] = <<m, s>>
      BY <1>2, <3>1
    <3> QED BY <1>1, <1>3, <3>2, <3>3, <1>6 DEF AtIs
  <2>3. CASE p > n + 1
    <3>1. p <= n + 1 + l /\ w[p - n - 1] = <<m, 1>>
      BY <1>1, <1>3, <1>4, <2>3, <1>6 DEF AtIs
    <3>2. p + 1 \in Nat /\ p + 1 > (n + 1) + 1 /\ p + 1 <= (n + 1) + 1 + l
          /\ (p + 1) - (n + 1) - 1 = p - n - 1
      BY <1>1, <2>3, <3>1
    <3>3. At(d, None, w, s, m, p + 1)
      BY <1>1, <1>3, <3>1, <3>2, <1>6 DEF AtIs
    <3>4. MakesRoom(n + 1)[p] = p + 1
      BY <1>3, <2>3, Shifts
    <3> QED BY <3>3, <3>4
  <2> QED BY <1>1, <2>1, <2>2, <2>3
<1>5. ASSUME At(d, None, w, s, m, p)
      PROVE  \E r \in Nat : At(ch, x, w, s, m, r)
  <2>1. CASE p <= n
    <3>1. p >= 1 /\ d[p] = <<m, s>>
      BY <1>1, <1>3, <1>5, <2>1, <1>6 DEF AtIs
    <3>2. ch[p] = <<m, s>>
      BY <1>1, <1>2, <2>1, <3>1
    <3> QED BY <1>1, <1>3, <2>1, <3>1, <3>2, <1>6 DEF AtIs
  <2>2. CASE p = n + 1
    <3>1. d[p] = <<m, s>>
      BY <1>1, <1>3, <1>5, <2>2, <1>6 DEF AtIs
    <3>2. x = m
      BY <1>2, <2>2, <3>1
    <3>3. At(ch, x, w, s, m, n + 1)
      BY <1>1, <1>3, <3>2, <1>6 DEF AtIs
    <3> QED BY <1>3, <3>3
  <2>3. CASE p = n + 2
    BY <1>0, <1>1, <1>3, <1>5, <2>3, <1>6 DEF AtIs
  <2>4. CASE p > n + 2
    <3>1. p <= (n + 1) + 1 + l /\ w[p - (n + 1) - 1] = <<m, 1>>
      BY <1>1, <1>3, <1>5, <2>4, <1>6 DEF AtIs
    <3>2. p - 1 \in Nat /\ p - 1 > n + 1 /\ p - 1 <= n + 1 + l
          /\ (p - 1) - n - 1 = p - (n + 1) - 1
      BY <1>1, <2>4, <3>1
    <3>3. At(ch, x, w, s, m, p - 1)
      BY <1>1, <1>3, <3>1, <3>2, <1>6 DEF AtIs
    <3> QED BY <3>2, <3>3
  <2> QED BY <1>1, <2>1, <2>2, <2>3, <2>4
<1> QED BY <1>4, <1>5 DEF n, d

\* The loop takes the first message of the channel.
LEMMA TakenFirst ==
    ASSUME NEW ch \in Seq(Message \X Message), ch # <<>>, NEW w \in Seq(Fragment), NEW h,
           NEW s \in Message, NEW m \in Message, NEW p \in Nat
    PROVE  /\ At(ch, h, w, s, m, 1) <=> Head(ch) = <<m, s>>
           /\ At(ch, h, w, s, m, p) => p >= 1
           /\ At(ch, h, w, s, m, p) /\ p # 1 => At(Tail(ch), h, w, s, m, MovesUp[p])
           /\ At(Tail(ch), h, w, s, m, p) => p + 1 # 1 /\ At(ch, h, w, s, m, p + 1)
<1> DEFINE n == Len(ch)
           l == Len(w)
           d == Tail(ch)
<1>1. n \in Nat /\ n >= 1 /\ l \in Nat /\ Len(d) = n - 1 /\ Head(ch) = ch[1]
  BY HeadTailProperties
<1>2. \A i \in 1..n - 1 : d[i] = ch[i + 1]
  BY <1>1, HeadTailProperties
<1>3. AtIs(n, l, ch, h, w, s, m)
  BY <1>1, AtCases
<1> HIDE DEF n, l, d
<1>4. AtIs(n - 1, l, d, h, w, s, m)
  <2>1. n - 1 \in Nat /\ l \in Nat /\ Len(d) = n - 1 /\ Len(w) = l
    BY <1>1 DEF l
  <2> QED BY <2>1, AtCases
<1>5. At(ch, h, w, s, m, 1) <=> Head(ch) = <<m, s>>
  BY <1>1, <1>3 DEF AtIs
<1>6. At(ch, h, w, s, m, p) => p >= 1
  BY <1>1, <1>3 DEF AtIs
<1>7. ASSUME At(ch, h, w, s, m, p), p # 1
      PROVE  At(d, h, w, s, m, MovesUp[p])
  <2>0. p >= 1 /\ p - 1 \in Nat /\ p - 1 >= 1 /\ MovesUp[p] = p - 1
    BY <1>6, <1>7 DEF MovesUp
  <2>1. CASE p <= n
    <3>1. ch[p] = <<m, s>>
      BY <1>3, <1>7, <2>1 DEF AtIs
    <3>2. p - 1 \in 1..n - 1 /\ (p - 1) + 1 = p
      BY <1>1, <2>0, <2>1
    <3>3. d[p - 1] = <<m, s>>
      BY <1>2, <3>1, <3>2
    <3>4. At(d, h, w, s, m, p - 1)
      BY <1>1, <1>4, <2>0, <3>2, <3>3 DEF AtIs
    <3> QED BY <2>0, <3>4
  <2>2. CASE p = n + 1
    <3>1. h = m /\ p - 1 = (n - 1) + 1
      BY <1>1, <1>3, <1>7, <2>2 DEF AtIs
    <3>2. At(d, h, w, s, m, p - 1)
      BY <1>1, <1>4, <2>0, <3>1 DEF AtIs
    <3> QED BY <2>0, <3>2
  <2>3. CASE p > n + 1
    <3>1. p <= n + 1 + l /\ w[p - n - 1] = <<m, 1>>
      BY <1>1, <1>3, <1>7, <2>3 DEF AtIs
    <3>2. p - 1 > (n - 1) + 1 /\ p - 1 <= (n - 1) + 1 + l
          /\ (p - 1) - (n - 1) - 1 = p - n - 1
      BY <1>1, <2>3, <3>1
    <3>3. At(d, h, w, s, m, p - 1)
      BY <1>1, <1>4, <2>0, <3>1, <3>2 DEF AtIs
    <3> QED BY <2>0, <3>3
  <2> QED BY <1>1, <2>1, <2>2, <2>3
<1>8. ASSUME At(d, h, w, s, m, p)
      PROVE  p + 1 # 1 /\ At(ch, h, w, s, m, p + 1)
  <2>1. CASE p <= n - 1
    <3>1. p >= 1 /\ d[p] = <<m, s>>
      BY <1>1, <1>4, <1>8, <2>1 DEF AtIs
    <3>2. p \in 1..n - 1 /\ p + 1 \in Nat /\ p + 1 <= n /\ p + 1 >= 1 /\ p + 1 # 1
      BY <1>1, <2>1, <3>1
    <3>3. ch[p + 1] = <<m, s>>
      BY <1>2, <3>1, <3>2
    <3> QED BY <1>3, <3>2, <3>3 DEF AtIs
  <2>2. CASE p = n
    <3>1. h = m
      BY <1>1, <1>4, <1>8, <2>2 DEF AtIs
    <3>2. p + 1 \in Nat /\ p + 1 = n + 1 /\ p + 1 # 1
      BY <1>1, <2>2
    <3> QED BY <1>3, <3>1, <3>2 DEF AtIs
  <2>3. CASE p > n
    <3>1. p <= (n - 1) + 1 + l /\ w[p - (n - 1) - 1] = <<m, 1>>
      BY <1>1, <1>4, <1>8, <2>3 DEF AtIs
    <3>2. p + 1 \in Nat /\ p + 1 > n + 1 /\ p + 1 <= n + 1 + l /\ p + 1 # 1
          /\ (p + 1) - n - 1 = p - (n - 1) - 1
      BY <1>1, <2>3, <3>1
    <3> QED BY <1>3, <3>1, <3>2 DEF AtIs
  <2> QED BY <1>1, <2>1, <2>2, <2>3
<1> QED BY <1>5, <1>6, <1>7, <1>8 DEF d

\* A read takes k fragments; what was decoded of them is in the reader's hand.
LEMMA ReadSome ==
    ASSUME NEW ch \in Seq(Message \X Message), NEW w \in Seq(Fragment),
           NEW k \in 1..Smaller(Buffer, Len(w)),
           NEW s \in Message, NEW m \in Message, NEW p \in Nat
    PROVE  LET v == SubSeq(w, k + 1, Len(w))
               sh == Gathers(Len(ch) + 1, k)
           IN  /\ At(ch, None, v, s, m, p) =>
                      \E r \in Nat : At(ch, None, w, s, m, r) /\ p = sh[r]
               /\ \A x \in Message :
                      (\A i \in 1..k : w[i] = <<x, i>>) =>
                          /\ At(ch, None, w, s, m, p) => At(ch, x, v, s, m, sh[p])
                          /\ At(ch, x, v, s, m, p) =>
                                 \E r \in Nat : At(ch, None, w, s, m, r)
<1> DEFINE n == Len(ch)
           l == Len(w)
           v == SubSeq(w, k + 1, l)
           sh == Gathers(n + 1, k)
<1>1. /\ n \in Nat /\ l \in Nat /\ k \in Nat /\ k >= 1 /\ k <= l /\ Len(v) = l - k
      /\ \A i \in 1..l - k : v[i] = w[k + i]
  BY ReadTypes
<1>2. m # None
  BY MessageTypes
<1>3. AtIs(n, l, ch, None, w, s, m)
  BY <1>1, AtCases
<1> HIDE DEF n, l, v
<1>4. /\ \A i \in Nat : i <= n + 1 => sh[i] = i
      /\ \A i \in Nat : i > n + 1 /\ i <= n + 1 + k => sh[i] = n + 1
      /\ \A i \in Nat : i > n + 1 + k => sh[i] = i - k
  BY <1>1 DEF Gathers
<1> HIDE DEF sh
<1>5. ASSUME NEW h
      PROVE  AtIs(n, l - k, ch, h, v, s, m)
  <2>1. l - k \in Nat /\ Len(ch) = n
    BY <1>1 DEF n
  <2> QED BY <1>1, <2>1, AtCases
\* What is in the stream after the read was there before it.
<1>6. ASSUME NEW h, At(ch, h, v, s, m, p), p > n + 1
      PROVE  p + k \in Nat /\ At(ch, None, w, s, m, p + k) /\ p = sh[p + k]
  <2>0. AtIs(n, l - k, ch, h, v, s, m)
    BY <1>5
  <2>1. p <= n + 1 + (l - k) /\ v[p - n - 1] = <<m, 1>>
    BY <1>1, <1>6, <2>0 DEF AtIs
  <2>2. p - n - 1 \in 1..l - k /\ k + (p - n - 1) = (p + k) - n - 1
    <3>1. \A a, b \in Nat : b > a + 1 => k + (b - a - 1) = (b + k) - a - 1
      BY <1>1
    <3>2. p - n - 1 \in Nat /\ p - n - 1 >= 1 /\ p - n - 1 <= l - k
      BY <1>1, <1>6, <2>1
    <3> QED BY <1>1, <1>6, <3>1, <3>2
  <2>3. w[(p + k) - n - 1] = <<m, 1>>
    BY <1>1, <2>1, <2>2
  <2>4. p + k \in Nat /\ p + k > n + 1 /\ p + k <= n + 1 + l /\ p + k > n + 1 + k
        /\ (p + k) - k = p
    BY <1>1, <1>6, <2>1
  <2> QED BY <1>1, <1>3, <1>4, <2>3, <2>4 DEF AtIs
<1>7. ASSUME NEW h, At(ch, h, v, s, m, p), p <= n
      PROVE  At(ch, None, w, s, m, p) /\ p = sh[p]
  <2>0. AtIs(n, l - k, ch, h, v, s, m)
    BY <1>5
  <2>1. p >= 1 /\ ch[p] = <<m, s>>
    BY <1>1, <1>7, <2>0 DEF AtIs
  <2> QED BY <1>1, <1>3, <1>4, <1>7, <2>1 DEF AtIs
<1>8. ASSUME At(ch, None, v, s, m, p)
      PROVE  \E r \in Nat : At(ch, None, w, s, m, r) /\ p = sh[r]
  <2>1. CASE p <= n
    BY <1>7, <1>8, <2>1
  <2>2. CASE p = n + 1
    <3>1. AtIs(n, l - k, ch, None, v, s, m)
      BY <1>5
    <3> QED BY <1>1, <1>2, <1>8, <2>2, <3>1 DEF AtIs
  <2>3. CASE p > n + 1
    BY <1>6, <1>8, <2>3
  <2> QED BY <1>1, <2>1, <2>2, <2>3
<1>9. ASSUME NEW x \in Message, \A i \in 1..k : w[i] = <<x, i>>
      PROVE  /\ At(ch, None, w, s, m, p) => At(ch, x, v, s, m, sh[p])
             /\ At(ch, x, v, s, m, p) => \E r \in Nat : At(ch, None, w, s, m, r)
  <2>0. AtIs(n, l - k, ch, x, v, s, m)
    BY <1>5
  <2>1. ASSUME At(ch, None, w, s, m, p)
        PROVE  At(ch, x, v, s, m, sh[p])
    <3>1. CASE p <= n
      <4>1. p >= 1 /\ ch[p] = <<m, s>>
        BY <1>3, <2>1, <3>1 DEF AtIs
      <4>2. sh[p] = p
        BY <1>1, <1>4, <3>1
      <4>3. At(ch, x, v, s, m, p)
        BY <2>0, <3>1, <4>1 DEF AtIs
      <4> QED BY <4>2, <4>3
    <3>2. p # n + 1
      BY <1>1, <1>2, <1>3, <2>1 DEF AtIs
    <3>3. CASE p > n + 1 /\ p <= n + 1 + k
      <4>1. w[p - n - 1] = <<m, 1>> /\ p - n - 1 \in 1..k
        BY <1>1, <1>3, <2>1, <3>3 DEF AtIs
      <4>2. x = m
        BY <1>9, <4>1
      <4>3. sh[p] = n + 1 /\ n + 1 \in Nat
        BY <1>1, <1>4, <3>3
      <4> QED BY <2>0, <4>2, <4>3 DEF AtIs
    <3>4. CASE p > n + 1 + k
      <4>1. p > n + 1 /\ p <= n + 1 + l /\ w[p - n - 1] = <<m, 1>>
        BY <1>1, <1>3, <2>1, <3>4 DEF AtIs
      <4>2. sh[p] = p - k /\ p - k \in Nat /\ p - k > n + 1 /\ p - k <= n + 1 + (l - k)
        BY <1>1, <1>4, <3>4, <4>1
      <4>3. (p - k) - n - 1 \in 1..l - k /\ k + ((p - k) - n - 1) = p - n - 1
        BY <1>1, <3>4, <4>1
      <4>4. v[(p - k) - n - 1] = <<m, 1>>
        BY <1>1, <4>1, <4>3
      <4>5. At(ch, x, v, s, m, p - k)
        BY <2>0, <4>2, <4>4 DEF AtIs
      <4> QED BY <4>2, <4>5
    <3> QED BY <1>1, <3>1, <3>2, <3>3, <3>4
  <2>2. ASSUME At(ch, x, v, s, m, p)
        PROVE  \E r \in Nat : At(ch, None, w, s, m, r)
    <3>1. CASE p <= n
      BY <1>7, <2>2, <3>1
    <3>2. CASE p = n + 1
      <4>1. x = m
        BY <1>1, <2>0, <2>2, <3>2 DEF AtIs
      <4>2. w[1] = <<m, 1>>
        BY <1>1, <1>9, <4>1
      <4>3. n + 2 \in Nat /\ n + 2 > n + 1 /\ n + 2 <= n + 1 + l /\ (n + 2) - n - 1 = 1
        BY <1>1
      <4>4. At(ch, None, w, s, m, n + 2)
        BY <1>3, <4>2, <4>3 DEF AtIs
      <4> QED BY <4>3, <4>4
    <3>3. CASE p > n + 1
      BY <1>6, <2>2, <3>3
    <3> QED BY <1>1, <3>1, <3>2, <3>3
  <2> QED BY <2>1, <2>2
<1> QED BY <1>8, <1>9 DEF n, l, v, sh

\* What writing the fragments c behind those of w does to the place p.
Writing(ch, h, w, c, s, m, p) ==
    LET last == Len(ch) + Len(w) + 2 IN
    /\ At(ch, h, w, s, m, p) => At(ch, h, w \o c, s, m, p) /\ p < last
    /\ At(ch, h, w \o c, s, m, p) =>
           At(ch, h, w, s, m, p) \/ \E i \in 1..Len(c) : c[i] = <<m, 1>>
    /\ Len(c) >= 1 /\ c[1] = <<m, 1>> => At(ch, h, w \o c, s, m, last)

\* Fragments are written behind the others.
LEMMA WroteSome ==
    ASSUME NEW ch \in Seq(Message \X Message), NEW w \in Seq(Fragment), NEW h,
           NEW c \in Seq(Fragment), NEW s \in Message, NEW m \in Message, NEW p \in Nat
    PROVE  Writing(ch, h, w, c, s, m, p)
<1> DEFINE n == Len(ch)
           l == Len(w)
           k == Len(c)
           v == w \o c
<1>1. n \in Nat /\ l \in Nat /\ k \in Nat /\ Len(v) = l + k
  BY ConcatProperties
<1>2. \A i \in 1..l + k : v[i] = IF i <= l THEN w[i] ELSE c[i - l]
  BY ConcatProperties
<1>3. (\A i \in 1..l : v[i] = w[i]) /\ (\A i \in 1..k : v[l + i] = c[i])
  <2>1. \A i \in 1..k : l + i \in 1..l + k /\ ~(l + i <= l) /\ (l + i) - l = i
    BY <1>1
  <2>2. \A i \in 1..l : i \in 1..l + k /\ i <= l
    BY <1>1
  <2> HIDE DEF l, k, v
  <2>3. \A i \in 1..l : v[i] = w[i]
    BY <1>2, <2>2
  <2>4. \A i \in 1..k : v[l + i] = c[i]
    BY <1>2, <2>1
  <2> QED BY <2>3, <2>4
<1>4. AtIs(n, l, ch, h, w, s, m)
  BY <1>1, AtCases
<1> HIDE DEF n, l, k, v
<1>5. AtIs(n, l + k, ch, h, v, s, m)
  <2>1. l + k \in Nat /\ Len(ch) = n
    BY <1>1 DEF n
  <2> QED BY <1>1, <2>1, AtCases
<1>6. ASSUME At(ch, h, w, s, m, p)
      PROVE  At(ch, h, v, s, m, p) /\ p < n + l + 2
  <2>1. CASE p <= n
    BY <1>1, <1>4, <1>5, <1>6, <2>1 DEF AtIs
  <2>2. CASE p = n + 1
    BY <1>1, <1>4, <1>5, <1>6, <2>2 DEF AtIs
  <2>3. CASE p > n + 1
    <3>1. p <= n + 1 + l /\ w[p - n - 1] = <<m, 1>>
      BY <1>1, <1>4, <1>6, <2>3 DEF AtIs
    <3>2. p - n - 1 \in 1..l /\ p <= n + 1 + (l + k) /\ p < n + l + 2
      BY <1>1, <2>3, <3>1
    <3>3. v[p - n - 1] = <<m, 1>>
      BY <1>3, <3>1, <3>2
    <3> QED BY <1>5, <2>3, <3>2, <3>3 DEF AtIs
  <2> QED BY <1>1, <2>1, <2>2, <2>3
<1>7. ASSUME At(ch, h, v, s, m, p)
      PROVE  At(ch, h, w, s, m, p) \/ \E i \in 1..k : c[i] = <<m, 1>>
  <2>1. CASE p <= n
    BY <1>1, <1>4, <1>5, <1>7, <2>1 DEF AtIs
  <2>2. CASE p = n + 1
    BY <1>1, <1>4, <1>5, <1>7, <2>2 DEF AtIs
  <2>3. CASE p > n + 1 /\ p <= n + 1 + l
    <3>1. v[p - n - 1] = <<m, 1>>
      BY <1>1, <1>5, <1>7, <2>3 DEF AtIs
    <3>2. p - n - 1 \in 1..l
      BY <1>1, <2>3
    <3>3. w[p - n - 1] = <<m, 1>>
      BY <1>3, <3>1, <3>2
    <3> QED BY <1>1, <1>4, <2>3, <3>3 DEF AtIs
  <2>4. CASE p > n + 1 + l
    <3>1. p > n + 1
      BY <1>1, <2>4
    <3>2. p <= n + 1 + (l + k) /\ v[p - n - 1] = <<m, 1>>
      BY <1>5, <1>7, <3>1 DEF AtIs
    <3>3. p - n - 1 - l \in 1..k /\ l + (p - n - 1 - l) = p - n - 1
      BY <1>1, <2>4, <3>2
    <3>4. c[p - n - 1 - l] = <<m, 1>>
      BY <1>3, <3>2, <3>3
    <3> QED BY <3>3, <3>4
  <2> QED BY <1>1, <2>1, <2>2, <2>3, <2>4
<1>8. ASSUME k >= 1, c[1] = <<m, 1>>
      PROVE  At(ch, h, v, s, m, n + l + 2)
  <2>1. n + l + 2 \in Nat /\ n + l + 2 > n + 1 /\ n + l + 2 <= n + 1 + (l + k)
        /\ (n + l + 2) - n - 1 = l + 1 /\ 1 \in 1..k
    BY <1>1, <1>8
  <2>2. v[l + 1] = <<m, 1>>
    BY <1>3, <1>8, <2>1
  <2> QED BY <1>5, <2>1, <2>2 DEF AtIs
<1> QED BY <1>6, <1>7, <1>8 DEF n, l, k, v, Writing

----------------------------------------------------------------------------
(***************************************************************************)
(* The steps.                                                              *)
(***************************************************************************)

\* No message moves.
Stays == [p \in Nat |-> p]

\* Nothing overtakes when nothing moves.
LEMMA StaysShift == Shift(Stays) /\ \A p \in Nat : Stays[p] = p
BY DEF Shift, Stays

\* The links are as they were, nothing was put on one, nothing taken off.
LEMMA LinksStutter ==
    ASSUME \A s \in Message : OnStream(s)' = OnStream(s),
           \A m \in Message : written'[m] > 0 <=> written[m] > 0,
           delivered' = delivered
    PROVE  UNCHANGED Links!vars
BY DEF Links!vars

\* Every link has lost some of its messages, or none.
LEMMA LinksLose ==
    ASSUME \A s \in Message : Links!IsSubsequence(OnStream(s)', OnStream(s)),
           UNCHANGED <<written, delivered>>
    PROVE  Links!Next
<1>1. \A s \in Message : Links!IsSubsequence([t \in Message |-> OnStream(t)]'[s],
                                             [t \in Message |-> OnStream(t)][s])
  OBVIOUS
<1>2. [t \in Message |-> OnStream(t)]' =
          [s \in Message |-> [t \in Message |-> OnStream(t)]'[s]]
  OBVIOUS
<1>3. Links!Lose
  BY <1>1, <1>2 DEF Links!Lose
<1> QED BY <1>3 DEF Links!Next

\* A message was put on the end of a link.
LEMMA LinksSend ==
    ASSUME NEW l \in Message, NEW x \in Message,
           OnStream(l)' = Append(OnStream(l), x),
           \A s \in Message : s # l => OnStream(s)' = OnStream(s),
           ~(written[x] > 0), written'[x] > 0,
           \A m \in Message : m # x => written'[m] = written[m],
           delivered' = delivered
    PROVE  Links!Next
<1>1. [s \in Message |-> OnStream(s)]' =
          [[s \in Message |-> OnStream(s)] EXCEPT ![l] = Append(@, x)]
  OBVIOUS
<1>2. {m \in Message : written[m] > 0}' = {m \in Message : written[m] > 0} \cup {x}
  OBVIOUS
<1>3. Links!Send(l, x)
  BY <1>1, <1>2 DEF Links!Send
<1> QED BY <1>3 DEF Links!Next

\* The first message of a link was taken off it.
LEMMA LinksDeliver ==
    ASSUME NEW l \in Message, OnStream(l) # <<>>,
           OnStream(l)' = Tail(OnStream(l)),
           \A s \in Message : s # l => OnStream(s)' = OnStream(s),
           delivered' = delivered \cup {Head(OnStream(l))},
           written' = written
    PROVE  Links!Next
<1>1. [s \in Message |-> OnStream(s)]' =
          [[s \in Message |-> OnStream(s)] EXCEPT ![l] = Tail(@)]
  OBVIOUS
<1>2. [s \in Message |-> OnStream(s)][l] = OnStream(l)
  OBVIOUS
<1>3. Links!Deliver(l)
  BY <1>1, <1>2 DEF Links!Deliver
<1> QED BY <1>3 DEF Links!Next

\* Write: the first fragments of a message put it on the link, more change nothing.
LEMMA WriteRefines ==
    ASSUME IInv, OnceInv, LineOrdered, LineOrdered', NEW q \in Message, Write(q)
    PROVE  Links!Next \/ UNCHANGED Links!vars
<1>1. /\ pc[q] = "write" /\ Len(wire[held[q]]) < Window
      /\ wire' = [wire EXCEPT ![held[q]] = @ \o Chunk(q)]
      /\ written' = [written EXCEPT ![q] = @ + Len(Chunk(q))]
      /\ UNCHANGED <<recvVars, delivered>>
  BY DEF Write
<1>2. SendTypes /\ held[q] \in Message
  BY <1>1 DEF IInv, SendInv, SendTypes, SendOK
<1> PICK h \in Message : h = held[q]
  BY <1>2
<1> DEFINE c == Chunk(q)
           w == wire[h]
           ch == msgCh[to[h]]
<1>3. /\ c \in Seq(Fragment) /\ Len(c) \in Nat
      /\ Len(c) = Smaller(Window - Len(w), size[q] - written[q])
      /\ \A i \in 1..Len(c) : c[i] = <<q, written[q] + i>>
  BY <1>1, <1>2, ChunkTypes
<1>4. /\ w \in Seq(Fragment) /\ Len(w) \in Nat
      /\ ch \in Seq(Message \X Message) /\ Len(ch) \in Nat
  BY <1>2, LineTypes
<1>5. /\ wire'[h] = w \o c
      /\ \A s \in Message : s # h => wire'[s] = wire[s]
      /\ inHand' = inHand /\ msgCh' = msgCh /\ delivered' = delivered
  BY <1>1, <1>2 DEF IInv, WireTypes, recvVars
<1>6. /\ written[q] \in Nat /\ written'[q] = written[q] + Len(c)
      /\ \A m \in Message : m # q => written'[m] = written[m]
  BY <1>1, <1>2 DEF SendTypes
<1>7. \A s \in Message : s # h => OnStream(s)' = OnStream(s)
  BY <1>5, LineFrame
<1> PICK k \in Nat : k = Len(ch) + Len(w) + 2
  <2> HIDE DEF ch, w
  <2>1. Len(ch) + Len(w) + 2 \in Nat
    BY <1>4
  <2> QED BY <2>1
<1> HIDE DEF c
<1>8. ASSUME NEW m \in Message, NEW p \in Nat
      PROVE  /\ PlaceAt(h, m, p) => PlaceAt(h, m, p)' /\ p < k
             /\ PlaceAt(h, m, p)' =>
                    PlaceAt(h, m, p) \/ \E i \in 1..Len(c) : c[i] = <<m, 1>>
             /\ Len(c) >= 1 /\ c[1] = <<m, 1>> =>
                    PlaceAt(h, m, k)'
  <2>1. PlaceAt(h, m, p) <=> At(ch, inHand[h], w, h, m, p)
    BY DEF PlaceAt
  <2>2. \A r : PlaceAt(h, m, r)' <=> At(ch, inHand[h], w \o c, h, m, r)
    BY <1>5 DEF PlaceAt
  <2> HIDE DEF w, ch
  <2>3. /\ At(ch, inHand[h], w, h, m, p) => At(ch, inHand[h], w \o c, h, m, p) /\ p < k
        /\ At(ch, inHand[h], w \o c, h, m, p) =>
               At(ch, inHand[h], w, h, m, p) \/ \E i \in 1..Len(c) : c[i] = <<m, 1>>
        /\ Len(c) >= 1 /\ c[1] = <<m, 1>> => At(ch, inHand[h], w \o c, h, m, k)
    <3>1. Writing(ch, inHand[h], w, c, h, m, p)
      BY <1>3, <1>4, WroteSome
    <3> QED BY <3>1 DEF Writing
  <2> QED BY <2>1, <2>2, <2>3
<1>9. CASE written[q] = 0
  <2>1. Len(c) >= 1
    <3>1. size[q] \in Nat /\ size[q] >= 1 /\ Window \in Nat
      BY MessageTypes, BufferAssumption
    <3>2. Len(w) < Window
      BY <1>1
    <3> HIDE DEF w
    <3> QED BY <1>3, <1>4, <1>9, <3>1, <3>2 DEF Smaller
  <2>2. c[1] = <<q, 1>>
    BY <1>3, <1>9, <2>1
  <2>3. Once(q)
    BY DEF OnceInv
  <2>4. q \notin Pending(h)
    <3>1. Pushed(h, q) => InChannel(q)
      BY <1>2, LineTypes DEF Pushed, PushedAt, InChannel
    <3>2. Unread(h, q) => \E i \in Nat : OnWire(q, h, i)
      BY <1>4 DEF Unread, UnreadAt, OnWire
    <3>3. inHand[h] = q => InHand(q)
      BY <1>2 DEF InHand
    <3> QED BY <1>2, <1>9, <2>3, <3>1, <3>2, <3>3 DEF Pending, Once, OnePlace
  <2>5. k \in Nat /\ PlaceAt(h, q, k)'
    <3>1. PlaceAt(h, q, k)'
      BY <1>8, <2>1, <2>2
    <3> HIDE DEF w, ch
    <3> QED BY <1>4, <3>1
  <2>6. \A m \in Message : \A p \in Nat : PlaceAt(h, m, p) => PlaceAt(h, m, p)' /\ p < k
    BY <1>8
  <2>7. \A m \in Message : \A r \in Nat : m # q /\ PlaceAt(h, m, r)' => PlaceAt(h, m, r)
    <3>1. \A m \in Message : m # q => ~\E i \in 1..Len(c) : c[i] = <<m, 1>>
      BY <1>3
    <3> QED BY <1>8, <3>1
  <2>8. OnStream(h)' = Append(OnStream(h), q)
    BY <1>2, <2>4, <2>5, <2>6, <2>7, LineAppends
  <2>9. ~(written[q] > 0) /\ written'[q] > 0
    BY <1>3, <1>6, <1>9, <2>1
  <2> QED BY <1>2, <1>5, <1>6, <1>7, <2>8, <2>9, LinksSend
<1>10. CASE written[q] > 0
  <2>1. \A i \in 1..Len(c), m \in Message : c[i] # <<m, 1>>
    <3>1. \A i \in 1..Len(c) : written[q] + i # 1
      BY <1>3, <1>6, <1>10
    <3> QED BY <1>3, <3>1
  <2>2. \A m \in Message : \A p \in Nat :
            /\ PlaceAt(h, m, p) => PlaceAt(h, m, Stays[p])'
            /\ PlaceAt(h, m, p)' => PlaceAt(h, m, p)
    BY <1>8, <2>1, StaysShift
  <2>3. OnStream(h)' = OnStream(h)
    BY <1>2, <2>2, StaysShift, LineSame
  <2>4. written'[q] > 0
    BY <1>3, <1>6, <1>10
  <2>5. UNCHANGED Links!vars
    BY <1>5, <1>6, <1>7, <1>10, <2>3, <2>4, LinksStutter
  <2> QED BY <2>5
<1> QED BY <1>6, <1>9, <1>10

\* readLoop: what decodes stays on the link, anything else that is read is lost.
LEMMA readLoopRefines ==
    ASSUME IInv, LineOrdered, LineOrdered', NEW s \in Message, readLoop(s)
    PROVE  Links!Next \/ UNCHANGED Links!vars
<1> DEFINE w == wire[s]
           ch == msgCh[to[s]]
<1>1. inHand[s] = None /\ UNCHANGED <<sendVars, msgCh, delivered>>
  BY DEF readLoop
<1>2. PICK k \in 1..Smaller(Buffer, Len(w)) :
          /\ wire' = [wire EXCEPT ![s] = SubSeq(@, k + 1, Len(@))]
          /\ inHand' = [inHand EXCEPT ![s] = IF Decodes(SubSeq(w, 1, k))
                                             THEN SubSeq(w, 1, k)[1][1] ELSE None]
  BY DEF readLoop
<1>3. w \in Seq(Fragment) /\ ch \in Seq(Message \X Message) /\ Len(ch) \in Nat
  BY LineTypes
<1> DEFINE v == SubSeq(w, k + 1, Len(w))
           data == SubSeq(w, 1, k)
<1> PICK sh : sh = Gathers(Len(ch) + 1, k)
  OBVIOUS
<1>4. /\ wire'[s] = v /\ \A t \in Message : t # s => wire'[t] = wire[t]
      /\ \A t \in Message : t # s => inHand'[t] = inHand[t]
      /\ Decodes(data) => inHand'[s] = data[1][1]
      /\ ~Decodes(data) => inHand'[s] = None
  BY <1>2 DEF IInv, WireTypes, RecvInv, RecvTypes
<1>5. /\ data \in Seq(Fragment) /\ Len(data) = k /\ \A i \in 1..k : data[i] = w[i]
      /\ k \in Nat /\ k >= 1 /\ k <= Buffer
  BY <1>3, ReadTypes
<1>6. Shift(sh)
  <2>1. Len(ch) + 1 \in Nat
    BY <1>3
  <2> QED BY <1>5, <2>1, Shifts
<1>7. \A t \in Message : t # s => OnStream(t)' = OnStream(t)
  BY <1>1, <1>4, LineFrame
<1>8. /\ \A m, p : PlaceAt(s, m, p) <=> At(ch, None, w, s, m, p)
      /\ \A m, p : PlaceAt(s, m, p)' <=> At(ch, inHand'[s], v, s, m, p)
  BY <1>1, <1>4 DEF PlaceAt
<1> HIDE DEF data, v
<1>9. CASE Decodes(data)
  <2>1. PICK x \in Message : data = [i \in 1..size[x] |-> <<x, i>>]
    BY <1>9 DEF Decodes
  <2>2. DOMAIN data = 1..k /\ DOMAIN data = 1..size[x]
    <3>1. DOMAIN data = 1..Len(data)
      BY <1>5
    <3>2. DOMAIN data = 1..size[x]
      BY <2>1
    <3> QED BY <1>5, <3>1, <3>2
  <2>3. \A i \in 1..k : w[i] = <<x, i>>
    BY <1>5, <2>1, <2>2
  <2>4. inHand'[s] = x
    <3>1. data[1] = <<x, 1>>
      BY <1>5, <2>3
    <3> QED BY <1>4, <1>9, <3>1
  <2> HIDE DEF w, ch
  <2>5. \A m \in Message : \A p \in Nat :
            /\ At(ch, None, w, s, m, p) => At(ch, x, v, s, m, sh[p])
            /\ At(ch, x, v, s, m, p) => \E r \in Nat : At(ch, None, w, s, m, r)
    BY <1>3, <2>3, ReadSome DEF v
  <2>6. \A m \in Message : \A p \in Nat :
            /\ PlaceAt(s, m, p) => PlaceAt(s, m, sh[p])'
            /\ PlaceAt(s, m, p)' => \E r \in Nat : PlaceAt(s, m, r)
    BY <1>8, <2>4, <2>5
  <2>7. OnStream(s)' = OnStream(s)
    BY <1>6, <2>6, LineSame
  <2>8. UNCHANGED Links!vars
    BY <1>1, <1>7, <2>7, LinksStutter DEF sendVars
  <2> QED BY <2>8
<1>10. CASE ~Decodes(data)
  <2>1. inHand'[s] = None
    BY <1>4, <1>10
  <2> HIDE DEF w, ch
  <2>2. \A m \in Message : \A p \in Nat :
            At(ch, None, v, s, m, p) => \E r \in Nat : At(ch, None, w, s, m, r) /\ p = sh[r]
    BY <1>3, ReadSome DEF v
  <2>3. \A m \in Message : \A p \in Nat :
            PlaceAt(s, m, p)' => \E r \in Nat : PlaceAt(s, m, r) /\ p = sh[r]
    BY <1>8, <2>1, <2>2
  <2>4. Links!IsSubsequence(OnStream(s)', OnStream(s))
    BY <1>6, <2>3, LineLoses
  <2>5. ASSUME NEW t \in Message, t # s
        PROVE  Links!IsSubsequence(OnStream(t)', OnStream(t))
    <3>1. \A m \in Message : \A r \in Nat :
              PlaceAt(t, m, r)' => \E p \in Nat : PlaceAt(t, m, p) /\ r = Stays[p]
      BY <1>1, <1>4, <2>5, StaysShift DEF PlaceAt
    <3> QED BY <3>1, StaysShift, LineLoses
  <2>6. UNCHANGED <<written, delivered>>
    BY <1>1 DEF sendVars
  <2> QED BY <2>4, <2>5, <2>6, LinksLose
<1> QED BY <1>9, <1>10

\* PushMsg: the message goes from the hand of its reader to the end of the
\* channel, past nothing of its stream, and the links are as they were.
LEMMA PushMsgRefines ==
    ASSUME IInv, LineOrdered, LineOrdered', NEW s \in Message, PushMsg(s)
    PROVE  UNCHANGED Links!vars
<1>1. /\ mu[to[s]] = s
      /\ msgCh' = [msgCh EXCEPT ![to[s]] = Append(@, <<inHand[s], s>>)]
      /\ inHand' = [inHand EXCEPT ![s] = None]
      /\ UNCHANGED <<written, wire, delivered>>
  BY DEF PushMsg, sendVars
<1>2. RecvTypes /\ to[s] \in Node /\ s # None
  BY MessageTypes DEF IInv, RecvInv
<1>3. PICK x \in Message : x = inHand[s]
  BY <1>1, <1>2 DEF IInv, RecvInv, RecvTypes, MuOK
<1> DEFINE ch == msgCh[to[s]]
<1>4. /\ msgCh'[to[s]] = Append(ch, <<x, s>>)
      /\ \A y \in Node : y # to[s] => msgCh'[y] = msgCh[y]
      /\ inHand'[s] = None /\ \A t \in Message : t # s => inHand'[t] = inHand[t]
  BY <1>1, <1>2, <1>3 DEF RecvTypes
<1>5. ch \in Seq(Message \X Message) /\ Len(ch) \in Nat /\ Len(ch) + 1 \in Nat
  BY LineTypes
<1>6. OnStream(s)' = OnStream(s)
  <2> PICK sh : sh = MakesRoom(Len(ch) + 1)
    OBVIOUS
  <2>1. Shift(sh)
    BY <1>5, Shifts
  <2>2. wire[s] \in Seq(Fragment)
    BY LineTypes
  <2>3. \A m \in Message : \A p \in Nat :
            /\ At(ch, x, wire[s], s, m, p) =>
                   At(Append(ch, <<x, s>>), None, wire[s], s, m, sh[p])
            /\ At(Append(ch, <<x, s>>), None, wire[s], s, m, p) =>
                   \E r \in Nat : At(ch, x, wire[s], s, m, r)
    BY <1>5, <2>2, PushedByReader
  <2>4. \A m \in Message : \A p \in Nat :
            /\ PlaceAt(s, m, p) => PlaceAt(s, m, sh[p])'
            /\ PlaceAt(s, m, p)' => \E r \in Nat : PlaceAt(s, m, r)
    BY <1>1, <1>3, <1>4, <2>3 DEF PlaceAt
  <2> QED BY <2>1, <2>4, LineSame
<1>7. ASSUME NEW t \in Message, t # s, to[t] = to[s]
      PROVE  OnStream(t)' = OnStream(t)
  <2> PICK sh : sh = MakesRoom(Len(ch))
    OBVIOUS
  <2>1. Shift(sh)
    BY <1>5, Shifts
  <2>2. wire[t] \in Seq(Fragment)
    BY LineTypes
  <2>3. \A m \in Message : \A p \in Nat :
            /\ At(ch, inHand[t], wire[t], t, m, p) =>
                   At(Append(ch, <<x, s>>), inHand[t], wire[t], t, m, sh[p])
            /\ At(Append(ch, <<x, s>>), inHand[t], wire[t], t, m, p) =>
                   \E r \in Nat : At(ch, inHand[t], wire[t], t, m, r)
    BY <1>5, <1>7, <2>2, PushedByOther
  <2>4. \A m \in Message : \A p \in Nat :
            /\ PlaceAt(t, m, p) => PlaceAt(t, m, sh[p])'
            /\ PlaceAt(t, m, p)' => \E r \in Nat : PlaceAt(t, m, r)
    BY <1>1, <1>4, <1>7, <2>3 DEF PlaceAt
  <2> QED BY <2>1, <2>4, LineSame
<1>8. ASSUME NEW t \in Message, t # s, to[t] # to[s]
      PROVE  OnStream(t)' = OnStream(t)
  BY <1>1, <1>4, <1>8, MessageTypes, LineFrame
<1>9. \A t \in Message : OnStream(t)' = OnStream(t)
  BY <1>6, <1>7, <1>8
<1> QED BY <1>1, <1>9, LinksStutter

\* The server loop takes the message that is first on its link.
LEMMA TakeRefines ==
    ASSUME RefInv, LineOrdered, LineOrdered', NEW y \in Node, ConsumeMsg(y) \/ HandlerBlocks(y)
    PROVE  Links!Next
<1>1. /\ msgCh[y] # <<>>
      /\ msgCh' = [msgCh EXCEPT ![y] = Tail(@)]
      /\ delivered' = delivered \cup {Head(msgCh[y])[1]}
      /\ UNCHANGED <<wire, inHand, written>>
  BY DEF ConsumeMsg, HandlerBlocks, sendVars
<1>2. /\ msgCh[y] \in Seq(Message \X Message)
      /\ msgCh'[y] = Tail(msgCh[y]) /\ \A z \in Node : z # y => msgCh'[z] = msgCh[z]
  BY <1>1 DEF RefInv, IInv, RecvInv, RecvTypes
<1>3. Head(msgCh[y]) = msgCh[y][1] /\ 1 \in 1..Len(msgCh[y])
      /\ msgCh[y][1] \in Message \X Message
  BY <1>1, <1>2
<1>4. PICK x \in Message, l \in Message : Head(msgCh[y]) = <<x, l>>
  BY <1>3
<1>5. to[l] = y
  BY <1>3, <1>4 DEF RefInv, StreamOK
<1>6. Shift(MovesUp)
  BY Shifts
<1>7. ASSUME NEW t \in Message, to[t] = y, NEW m \in Message, NEW p \in Nat
      PROVE  /\ PlaceAt(t, m, 1) <=> m = x /\ t = l
             /\ PlaceAt(t, m, p) => p >= 1
             /\ PlaceAt(t, m, p) /\ p # 1 => PlaceAt(t, m, MovesUp[p])'
             /\ PlaceAt(t, m, p)' => p + 1 # 1 /\ PlaceAt(t, m, p + 1)
  <2> DEFINE ch == msgCh[y]
             h == inHand[t]
             w == wire[t]
  <2>1. wire[t] \in Seq(Fragment)
    BY LineTypes DEF RefInv
  <2>2. /\ \A r : PlaceAt(t, m, r) <=> At(ch, h, w, t, m, r)
        /\ \A r : PlaceAt(t, m, r)' <=> At(Tail(ch), h, w, t, m, r)
    BY <1>1, <1>2, <1>7 DEF PlaceAt
  <2> HIDE DEF ch, h, w
  <2>3. /\ At(ch, h, w, t, m, 1) <=> Head(ch) = <<m, t>>
        /\ At(ch, h, w, t, m, p) => p >= 1
        /\ At(ch, h, w, t, m, p) /\ p # 1 => At(Tail(ch), h, w, t, m, MovesUp[p])
        /\ At(Tail(ch), h, w, t, m, p) => p + 1 # 1 /\ At(ch, h, w, t, m, p + 1)
    BY <1>1, <1>2, <2>1, TakenFirst DEF ch, w
  <2>4. Head(ch) = <<m, t>> <=> m = x /\ t = l
    BY <1>4 DEF ch
  <2> QED BY <2>2, <2>3, <2>4
<1>8. ASSUME NEW t \in Message, t # l, to[t] = y
      PROVE  OnStream(t)' = OnStream(t)
  <2>1. \A m \in Message : \A p \in Nat : PlaceAt(t, m, p) => PlaceAt(t, m, MovesUp[p])'
    <3> SUFFICES ASSUME NEW m \in Message, NEW p \in Nat, PlaceAt(t, m, p)
                 PROVE  PlaceAt(t, m, MovesUp[p])'
      OBVIOUS
    <3>1. p # 1
      BY <1>7, <1>8
    <3> QED BY <1>7, <1>8, <3>1
  <2>2. \A m \in Message : \A r \in Nat : PlaceAt(t, m, r)' => \E p \in Nat : PlaceAt(t, m, p)
    <3> SUFFICES ASSUME NEW m \in Message, NEW r \in Nat, PlaceAt(t, m, r)'
                 PROVE  \E p \in Nat : PlaceAt(t, m, p)
      OBVIOUS
    <3>1. r + 1 \in Nat /\ PlaceAt(t, m, r + 1)
      BY <1>7, <1>8
    <3> QED BY <3>1
  <2> QED BY <1>6, <2>1, <2>2, LineSame
<1>9. ASSUME NEW t \in Message, to[t] # y
      PROVE  OnStream(t)' = OnStream(t)
  BY <1>1, <1>2, <1>9, MessageTypes, LineFrame
<1>10. /\ OnStream(l) # <<>>
       /\ Head(OnStream(l)) = x
       /\ OnStream(l)' = Tail(OnStream(l))
  <2>1. PlaceAt(l, x, 1)
    BY <1>5, <1>7
  <2>2. \A m \in Message : \A p \in Nat : PlaceAt(l, m, p) => p >= 1
    BY <1>5, <1>7
  <2>3. \A m \in Message : \A p \in Nat :
            m # x /\ PlaceAt(l, m, p) => PlaceAt(l, m, MovesUp[p])'
    <3> SUFFICES ASSUME NEW m \in Message, NEW p \in Nat, m # x, PlaceAt(l, m, p)
                 PROVE  PlaceAt(l, m, MovesUp[p])'
      OBVIOUS
    <3>1. p # 1
      BY <1>5, <1>7
    <3> QED BY <1>5, <1>7, <3>1
  <2>4. \A m \in Message : \A r \in Nat :
            PlaceAt(l, m, r)' => m # x /\ \E p \in Nat : PlaceAt(l, m, p)
    <3> SUFFICES ASSUME NEW m \in Message, NEW r \in Nat, PlaceAt(l, m, r)'
                 PROVE  m # x /\ \E p \in Nat : PlaceAt(l, m, p)
      OBVIOUS
    <3>1. r + 1 \in Nat /\ r + 1 # 1 /\ PlaceAt(l, m, r + 1)
      BY <1>5, <1>7
    <3>2. PICK a \in Nat : a = r + 1
      BY <3>1
    <3>3. PlaceAt(l, m, a) /\ a # 1
      BY <3>1, <3>2
    <3>4. 1 = a <=> x = m
      BY <2>1, <3>3, PlaceUnique
    <3>5. m # x
      BY <3>3, <3>4
    <3> QED BY <3>1, <3>5
  <2> QED BY <1>6, <2>1, <2>2, <2>3, <2>4, LineDelivers
<1>11. delivered' = delivered \cup {Head(OnStream(l))}
  BY <1>1, <1>4, <1>10
<1>12. \A t \in Message : t # l => OnStream(t)' = OnStream(t)
  BY <1>8, <1>9
<1> QED BY <1>1, <1>10, <1>11, <1>12, LinksDeliver

\* A reset, or a node that stops: what was unread on those streams is lost.
LEMMA BreakRefines ==
    ASSUME IInv, LineOrdered, LineOrdered', NEW S, Break(S),
           UNCHANGED <<sendVars, recvVars, delivered>>
    PROVE  Links!Next
<1>1. \A s \in Message : wire'[s] = <<>> \/ wire'[s] = wire[s]
  BY DEF Break
<1>2. UNCHANGED <<inHand, msgCh, written, delivered>>
  BY DEF sendVars, recvVars
<1>3. ASSUME NEW s \in Message
      PROVE  Links!IsSubsequence(OnStream(s)', OnStream(s))
  <2>1. ASSUME NEW m \in Message, NEW r \in Nat, PlaceAt(s, m, r)'
        PROVE  PlaceAt(s, m, r)
    <3>1. At(msgCh[to[s]], inHand[s], wire'[s], s, m, r)
      BY <1>2, <2>1 DEF PlaceAt
    <3>2. CASE wire'[s] = wire[s]
      BY <3>1, <3>2 DEF PlaceAt
    <3>3. CASE wire'[s] = <<>>
      <4>1. 1..Len(wire'[s]) = {}
        BY <3>3
      <4> QED BY <3>1, <4>1 DEF PlaceAt, At
    <3> QED BY <1>1, <3>2, <3>3
  <2>2. \A m \in Message : \A r \in Nat :
            PlaceAt(s, m, r)' => \E p \in Nat : PlaceAt(s, m, p) /\ r = Stays[p]
    BY <2>1, StaysShift
  <2> QED BY <2>2, StaysShift, LineLoses
<1> QED BY <1>2, <1>3, LinksLose

----------------------------------------------------------------------------
(***************************************************************************)
(* The theorem.                                                            *)
(***************************************************************************)

\* A message is only ever pushed into the channel of the node its stream leads to.
LEMMA NextStreamOK ==
    ASSUME RefInv, [Next]_vars
    PROVE  \A y \in Node : StreamOK(y)'
<1>1. IInv /\ RecvTypes /\ \A y \in Node : StreamOK(y)
  BY DEF RefInv, IInv, RecvInv
<1>2. CASE msgCh' = msgCh
  BY <1>1, <1>2 DEF StreamOK
<1>3. ASSUME NEW s \in Message, PushMsg(s)
      PROVE  \A y \in Node : StreamOK(y)'
  <2> DEFINE e == <<inHand[s], s>>
             ch == msgCh[to[s]]
  <2>1. /\ mu[to[s]] = s /\ to[s] \in Node /\ s # None
        /\ msgCh' = [msgCh EXCEPT ![to[s]] = Append(@, e)]
    BY <1>3, MessageTypes DEF PushMsg
  <2>2. inHand[s] \in Message
    BY <1>1, <2>1 DEF IInv, RecvInv, RecvTypes, MuOK
  <2>3. ch \in Seq(Message \X Message) /\ e \in Message \X Message
    BY <1>1, <2>2, LineTypes
  <2>4. /\ msgCh'[to[s]] = Append(ch, e)
        /\ \A y \in Node : y # to[s] => msgCh'[y] = msgCh[y]
    BY <1>1, <2>1 DEF RecvTypes
  <2> HIDE DEF e
  <2>5. /\ Len(Append(ch, e)) = Len(ch) + 1 /\ Len(ch) \in Nat
        /\ \A i \in 1..Len(ch) : Append(ch, e)[i] = ch[i]
        /\ Append(ch, e)[Len(ch) + 1] = e
    BY <2>3, AppendProperties
  <2>6. StreamOK(to[s])'
    <3> SUFFICES ASSUME NEW i \in 1..Len(msgCh'[to[s]])
                 PROVE  to[msgCh'[to[s]][i][2]] = to[s]
      BY DEF StreamOK
    <3>1. CASE i = Len(ch) + 1
      BY <2>4, <2>5, <3>1 DEF e
    <3>2. CASE i # Len(ch) + 1
      <4>1. i \in 1..Len(ch) /\ msgCh'[to[s]][i] = ch[i]
        BY <2>4, <2>5, <3>2
      <4> QED BY <1>1, <2>1, <4>1 DEF StreamOK
    <3> QED BY <3>1, <3>2
  <2>7. \A y \in Node : y # to[s] => StreamOK(y)'
    BY <1>1, <2>4 DEF StreamOK
  <2> QED BY <2>6, <2>7
<1>4. ASSUME NEW y \in Node, ConsumeMsg(y) \/ HandlerBlocks(y)
      PROVE  \A z \in Node : StreamOK(z)'
  <2>1. msgCh[y] # <<>> /\ msgCh' = [msgCh EXCEPT ![y] = Tail(@)]
    BY <1>4 DEF ConsumeMsg, HandlerBlocks
  <2>2. /\ msgCh'[y] = Tail(msgCh[y]) /\ msgCh[y] \in Seq(Message \X Message)
        /\ \A z \in Node : z # y => msgCh'[z] = msgCh[z]
    BY <1>1, <2>1 DEF RecvTypes
  <2>3. /\ Len(Tail(msgCh[y])) = Len(msgCh[y]) - 1 /\ Len(msgCh[y]) \in Nat
        /\ \A i \in 1..Len(Tail(msgCh[y])) : Tail(msgCh[y])[i] = msgCh[y][i + 1]
    BY <2>1, <2>2, HeadTailProperties
  <2>4. \A i \in 1..Len(msgCh'[y]) : i + 1 \in 1..Len(msgCh[y]) /\ msgCh'[y][i] = msgCh[y][i + 1]
    BY <2>2, <2>3
  <2>5. StreamOK(y)'
    BY <1>1, <2>4 DEF StreamOK
  <2>6. \A z \in Node : z # y => StreamOK(z)'
    BY <1>1, <2>2 DEF StreamOK
  <2> QED BY <2>5, <2>6
<1>5. \/ msgCh' = msgCh
      \/ \E s \in Message : PushMsg(s)
      \/ \E y \in Node : ConsumeMsg(y) \/ HandlerBlocks(y)
  BY DEF Next, Sender, Reader, SendMsg, NewStream, StoreStream, Write, WriteFails, readLoop,
         LockMu, NewStreamFails, ResetStream, Stop, recvVars, vars
<1> QED BY <1>2, <1>3, <1>4, <1>5

\* What the refinement rests on holds throughout.
LEMMA RefInvariance == Spec => []RefInv
<1>1. Init => RefInv
  <2>1. Init => \A y \in Node : StreamOK(y)
    BY DEF Init, StreamOK
  <2> QED BY <2>1, InitInv, InitOnce DEF RefInv
<1>2. RefInv /\ [Next]_vars => RefInv'
  <2> SUFFICES ASSUME RefInv, [Next]_vars PROVE RefInv'
    OBVIOUS
  <2>1. IInv' /\ OnceInv'
    BY NextInv, NextOnce DEF RefInv
  <2>2. \A y \in Node : StreamOK(y)'
    BY NextStreamOK
  <2> QED BY <2>1, <2>2 DEF RefInv
<1> QED BY <1>1, <1>2, PTL DEF Spec

\* Every step of the transport is a step of the links, or none.
LEMMA StepRefines ==
    ASSUME RefInv, RefInv', [Next]_vars
    PROVE  [Links!Next]_(Links!vars)
<1>1. IInv /\ OnceInv /\ LineOrdered /\ LineOrdered'
  BY LineOrder, LineOrderNext DEF RefInv
<1>2. ASSUME UNCHANGED <<wire, inHand, msgCh, written, delivered>>
      PROVE  UNCHANGED Links!vars
  BY <1>2, LineFrame, LinksStutter
<1>3. ASSUME NEW m \in Message,
             \/ SendMsg(m) \/ NewStream(m) \/ StoreStream(m) \/ WriteFails(m)
             \/ NewStreamFails(m)
      PROVE  UNCHANGED Links!vars
  BY <1>2, <1>3 DEF SendMsg, NewStream, StoreStream, WriteFails, NewStreamFails, recvVars
<1>4. ASSUME NEW m \in Message, LockMu(m)
      PROVE  UNCHANGED Links!vars
  BY <1>2, <1>4 DEF LockMu, sendVars
<1>5. ASSUME NEW m \in Message, ResetStream(m)
      PROVE  Links!Next
  <2>1. PICK S : S = {m}
    OBVIOUS
  <2> QED BY <1>1, <1>5, <2>1, BreakRefines DEF ResetStream
<1>6. ASSUME NEW y \in Node, Stop(y)
      PROVE  Links!Next
  <2>1. PICK S : S = {s \in opened : y \in {from[s], to[s]}}
    OBVIOUS
  <2> QED BY <1>1, <1>6, <2>1, BreakRefines DEF Stop
<1>7. CASE UNCHANGED vars
  BY <1>2, <1>7 DEF vars
<1>8. ASSUME NEW m \in Message, Write(m) \/ readLoop(m) \/ PushMsg(m)
      PROVE  Links!Next \/ UNCHANGED Links!vars
  BY <1>1, <1>8, WriteRefines, readLoopRefines, PushMsgRefines
<1>9. ASSUME NEW y \in Node, ConsumeMsg(y) \/ HandlerBlocks(y)
      PROVE  Links!Next
  BY <1>1, <1>9, TakeRefines
<1> QED BY <1>3, <1>4, <1>5, <1>6, <1>7, <1>8, <1>9 DEF Next, Sender, Reader

\* At the start the links are empty and no message is on one or off it.
LEMMA InitRefines == Init => Links!Init
<1> SUFFICES ASSUME Init PROVE Links!Init
  OBVIOUS
<1>1. ASSUME NEW s \in Message
      PROVE  OnStream(s) = <<>>
  <2>1. msgCh[to[s]] = <<>> /\ wire[s] = <<>> /\ inHand[s] = None
    BY MessageTypes DEF Init
  <2>2. Pending(s) = {}
    BY <2>1, MessageTypes DEF Pending, Pushed, Unread
  <2>3. Cardinality({}) = 0
    BY FS_EmptySet
  <2>4. Orders(Ahead(s), {})
    BY FS_EmptySet DEF Orders
  <2>5. InOrder({}, Ahead(s)) \in Seq({}) /\ Len(InOrder({}, Ahead(s))) = 0
    BY <2>3, <2>4, InOrderIs
  <2> QED BY <2>2, <2>5 DEF OnStream
<1>2. {m \in Message : written[m] > 0} = {}
  BY DEF Init
<1>3. delivered = {}
  BY DEF Init
<1> QED BY <1>1, <1>2, <1>3 DEF Links!Init

\* The transport of any number of nodes, with streams that break, reads of any
\* length and a shared bounded channel, is a set of lossy links: it invents no
\* message, repeats none, and keeps the order of each stream.
THEOREM TransportImplementsLinks == Spec => ImplementsLinks
<1>1. RefInv /\ RefInv' /\ [Next]_vars => [Links!Next]_(Links!vars)
  BY StepRefines
<1> QED BY <1>1, InitRefines, RefInvariance, PTL DEF Spec, ImplementsLinks, Links!Spec
=============================================================================
