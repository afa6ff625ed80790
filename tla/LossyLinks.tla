----------------------------- MODULE LossyLinks -----------------------------
(***************************************************************************)
(* What the transport promises its users: a message is put on one link, at *)
(* most once; what is on a link is taken in order or lost, and nothing     *)
(* else ever arrives.  Between two nodes there may be several links, and   *)
(* there is no order between messages on different ones.                   *)
(***************************************************************************)
EXTENDS Naturals, Sequences

CONSTANTS
    Message,  \* the messages
    Link      \* the links that may come to be

VARIABLES
    link,      \* link[l]: the messages on l, the oldest first
    sent,      \* the messages that have been put on a link
    delivered  \* the messages that have been taken off one

vars == <<link, sent, delivered>>

Init ==
    /\ link = [l \in Link |-> <<>>]
    /\ sent = {}
    /\ delivered = {}

Send(l, m) ==
    /\ m \notin sent
    /\ link' = [link EXCEPT ![l] = Append(@, m)]
    /\ sent' = sent \cup {m}
    /\ UNCHANGED delivered

Deliver(l) ==
    /\ link[l] # <<>>
    /\ link' = [link EXCEPT ![l] = Tail(@)]
    /\ delivered' = delivered \cup {Head(link[l])}
    /\ UNCHANGED sent

\* t is s without some of its elements: position p[i] of s is what t[i] was.
IsSubsequence(t, s) ==
    \E p \in [1..Len(t) -> 1..Len(s)] :
        \A i \in 1..Len(t) : t[i] = s[p[i]] /\ \A j \in 1..(i - 1) : p[j] < p[i]

\* Any messages may be lost, on several links at once when a node stops.
Lose ==
    /\ \A l \in Link : IsSubsequence(link'[l], link[l])
    /\ link' = [l \in Link |-> link'[l]]
    /\ UNCHANGED <<sent, delivered>>

Next ==
    \/ \E l \in Link, m \in Message : Send(l, m)
    \/ \E l \in Link : Deliver(l)
    \/ Lose

Spec == Init /\ [][Next]_vars
=============================================================================
