------------------------- MODULE FinalReportProofs -------------------------
(***************************************************************************)
(* Proofs about FinalReport, for any peers, jobs and values, any number of *)
(* reports and any f.                                                      *)
(***************************************************************************)
EXTENDS FinalReport, SequenceTheorems, FiniteSetTheorems, TLAPS

----------------------------------------------------------------------------
(***************************************************************************)
(* The inductive invariant.  First loop: the counters are the numbers of   *)
(* reports seen so far, there is a signatory for each, and none is there   *)
(* twice unless it reported the value twice.  Second loop: the jobs done   *)
(* are decided as far as they can be, with the first f+1 signatories of    *)
(* the value for each.                                                     *)
(***************************************************************************)

InputTypes ==
    /\ reports \in Seq(Report \cup {Blank})
    /\ index \in 1..Len(reports) + 1
    /\ ranged \subseteq Job
    /\ result \in {"none", "consensus", "nil"}

CountTypes ==
    /\ jobHashCount \in [Job -> [Value -> Nat]]
    /\ hashSignatories \in [Value -> Seq(Peer \cup {NoPeer})]

\* The indices of the reports counted so far that say j is v.
Seen(j, v) ==
    {i \in DOMAIN reports : /\ i < index \/ (i = index /\ j \in ranged)
                            /\ reports[i].reports[j] = v}

CountOK(j, v) ==
    /\ IsFiniteSet(Seen(j, v))
    /\ jobHashCount[j][v] = Cardinality(Seen(j, v))
    /\ jobHashCount[j][v] <= Len(hashSignatories[v])

\* Peer p reported v, for some job.
Reported(p, v) ==
    \E j \in Job, i \in DOMAIN reports : reports[i].from = p /\ reports[i].reports[j] = v

\* The first loop has counted what report i says of job j.
Done(i, j) == i < index \/ (i = index /\ j \in ranged)

\* Entry k of the signatories of v has a counted report of it, and an entry of
\* its own unless its node reported v twice.
EntryOK(v, k) ==
    \E i \in DOMAIN reports, j \in Job :
        /\ Done(i, j)
        /\ reports[i].from = hashSignatories[v][k]
        /\ reports[i].reports[j] = v

SignatoryOK(v) ==
    /\ \A k \in 1..Len(hashSignatories[v]) : EntryOK(v, k)
    /\ \A k, l \in 1..Len(hashSignatories[v]) :
           k # l /\ hashSignatories[v][k] = hashSignatories[v][l] => ReportedTwice(v)

CountInv ==
    /\ CountTypes
    /\ \A j \in Job, v \in Value : CountOK(j, v)
    /\ \A v \in Value : SignatoryOK(v)

BuildTypes ==
    /\ checked \subseteq Job
    /\ finalJobReports \in [Job -> Value \cup {None}]
    /\ finalSignatories \in Seq(Peer \cup {NoPeer})

\* The decision on a job the second loop is done with, and on one it is not.
JobOK(j) ==
    /\ finalJobReports[j] # None => j \in checked /\ finalJobReports[j] \in Agreed(j)
    /\ j \in checked /\ Agreed(j) # {} => finalJobReports[j] # None

FinalSigned(k) == \E d \in Decided : Reported(finalSignatories[k], finalJobReports[d])

\* The first f+1 signatories of value v are among the final ones.
TakenOK(v) ==
    /\ f + 1 <= Len(hashSignatories[v])
    /\ \A q \in 1..(f + 1) : \E k \in 1..Len(finalSignatories) :
           finalSignatories[k] = hashSignatories[v][q]

SignedInv ==
    /\ IsFiniteSet(Decided)
    /\ Len(finalSignatories) = (f + 1) * Cardinality(Decided)
    /\ \A k \in 1..Len(finalSignatories) : FinalSigned(k)
    /\ \A d \in Decided : TakenOK(finalJobReports[d])

BuildInv ==
    /\ BuildTypes
    /\ \A j \in Job : JobOK(j)
    /\ SignedInv

\* Nothing is built while reports are counted, and everything when the call returns.
OrderInv ==
    /\ index <= Len(reports) => checked = {} /\ result = "none"
    /\ result # "none" => CountedJobs \subseteq checked
    /\ result = "consensus" => ~NoConsensus
    /\ result = "nil" => NoConsensus

IInv == InputTypes /\ CountInv /\ BuildInv /\ OrderInv

----------------------------------------------------------------------------
(***************************************************************************)
(* What the counters mean when the first loop is through.                  *)
(***************************************************************************)

\* The reports of a job are values or nothing.
LEMMA ReportTypes ==
    ASSUME InputTypes, NEW i \in DOMAIN reports, NEW j \in Job
    PROVE  /\ reports[i].reports[j] \in Value \cup {None}
           /\ reports[i].from \in Peer \cup {NoPeer}
<1>1. reports[i] \in Report \cup {Blank}
  BY DEF InputTypes
<1> QED BY <1>1 DEF Report, Blank

\* The counters are the numbers of reports.
LEMMA CountedReports ==
    ASSUME InputTypes, CountInv, index > Len(reports), NEW j \in Job, NEW v \in Value
    PROVE  /\ IsFiniteSet(Saying(j, v))
           /\ jobHashCount[j][v] = Cardinality(Saying(j, v))
           /\ jobHashCount[j][v] \in Nat
<1>1. Seen(j, v) = Saying(j, v)
  BY DEF InputTypes, Seen, Saying
<1> QED BY <1>1 DEF CountInv, CountOK, CountTypes

\* There are no more nodes than reports behind a value, and as many when no node
\* reported it twice.
LEMMA BackersBound ==
    ASSUME NEW j \in Job, NEW v \in Value, IsFiniteSet(Saying(j, v))
    PROVE  /\ Cardinality(Backers(j, v)) \in Nat
           /\ Cardinality(Backers(j, v)) <= Cardinality(Saying(j, v))
           /\ ~Repeated(j, v) => Cardinality(Backers(j, v)) = Cardinality(Saying(j, v))
<1> DEFINE S == Saying(j, v)
           B == Backers(j, v)
           from == [i \in S |-> reports[i].from]
<1>1. from \in Surjection(S, B)
  BY DEF Surjection, Backers
<1>2. /\ IsFiniteSet(B)
      /\ Cardinality(B) <= Cardinality(S)
      /\ Cardinality(B) = Cardinality(S) <=> from \in Injection(S, B)
  BY <1>1, FS_Surjection
<1>3. ASSUME ~Repeated(j, v) PROVE from \in Injection(S, B)
  <2>1. from \in [S -> B]
    BY DEF Backers
  <2>2. \A i, k \in S : from[i] = from[k] => i = k
    BY <1>3 DEF Repeated
  <2> QED BY <2>1, <2>2 DEF Injection, IsInjective
<1> QED BY <1>2, <1>3, FS_CardinalityType

\* A value f+1 nodes support has enough counted reports, and one with enough
\* counted reports is supported unless a node reported it twice.
LEMMA AgreedSupported ==
    ASSUME InputTypes, CountInv, index > Len(reports), NEW j \in Job
    PROVE  /\ Supported(j) \subseteq Agreed(j)
           /\ \A v \in Agreed(j) : v \in Supported(j) \/ Repeated(j, v)
<1>1. ASSUME NEW v \in Value
      PROVE  /\ Cardinality(Backers(j, v)) \in Nat
             /\ Cardinality(Backers(j, v)) <= jobHashCount[j][v]
             /\ ~Repeated(j, v) => Cardinality(Backers(j, v)) = jobHashCount[j][v]
             /\ jobHashCount[j][v] \in Nat
  BY CountedReports, BackersBound
<1> QED BY <1>1, BoundAssumption DEF Agreed, Supported, threshold

\* A job with an agreed value is one of those the second loop ranges over.
LEMMA AgreedCounted == ASSUME NEW j \in Job, Agreed(j) # {} PROVE j \in CountedJobs
BY DEF Agreed, CountedJobs

----------------------------------------------------------------------------
(***************************************************************************)
(* The steps.                                                              *)
(***************************************************************************)

\* The invariant holds at the start.
LEMMA InitInv == Init => IInv
<1> SUFFICES ASSUME Init PROVE IInv
  OBVIOUS
<1>1. PICK k \in 1..MaxReports : \E s \in [1..k -> Report] : reports = <<Blank>> \o s
  BY DEF Init
<1>2. PICK s \in [1..k -> Report] : reports = <<Blank>> \o s
  BY <1>1
<1>3. k \in Nat
  BY BoundAssumption
<1>4. s \in Seq(Report \cup {Blank}) /\ Len(s) = k
  BY <1>3
<1>5. <<Blank>> \in Seq(Report \cup {Blank}) /\ Len(<<Blank>>) = 1
  OBVIOUS
<1>6. reports \in Seq(Report \cup {Blank}) /\ Len(reports) = 1 + k
  BY <1>2, <1>4, <1>5, ConcatProperties
<1>7. InputTypes
  BY <1>3, <1>6 DEF InputTypes, Init
<1>8. CountTypes
  BY DEF Init, CountTypes
<1>9. ASSUME NEW j \in Job, NEW v \in Value PROVE CountOK(j, v)
  <2>1. Seen(j, v) = {}
    BY <1>6 DEF Init, Seen
  <2>2. IsFiniteSet({}) /\ Cardinality({}) = 0
    BY FS_EmptySet
  <2>3. jobHashCount[j][v] = 0 /\ Len(hashSignatories[v]) = 0
    BY DEF Init
  <2> QED BY <2>1, <2>2, <2>3 DEF CountOK
<1>10. \A v \in Value : SignatoryOK(v)
  <2> SUFFICES ASSUME NEW v \in Value PROVE SignatoryOK(v)
    OBVIOUS
  <2>1. Len(hashSignatories[v]) = 0
    BY DEF Init
  <2> QED BY <2>1 DEF SignatoryOK
<1>11. BuildTypes
  BY DEF Init, BuildTypes
<1>12. \A j \in Job : JobOK(j)
  BY DEF Init, JobOK
<1>13. SignedInv
  <2>1. Decided = {}
    BY DEF Init, Decided
  <2>2. IsFiniteSet({}) /\ Cardinality({}) = 0
    BY FS_EmptySet
  <2>3. finalSignatories = <<>>
    BY DEF Init
  <2> QED BY <2>1, <2>2, <2>3, BoundAssumption DEF SignedInv
<1>14. OrderInv
  BY DEF Init, OrderInv
<1> QED
  BY <1>7, <1>8, <1>9, <1>10, <1>11, <1>12, <1>13, <1>14 DEF IInv, CountInv, BuildInv

\* What is built stays signed while it is left alone.
LEMMA SignedFrame ==
    ASSUME SignedInv, UNCHANGED <<reports, finalJobReports, finalSignatories>>,
           hashSignatories' = hashSignatories \/ Decided = {}
    PROVE  SignedInv'
<1>1. Decided' = Decided
  BY DEF Decided
<1>2. ASSUME NEW p, NEW v PROVE Reported(p, v)' <=> Reported(p, v)
  BY DEF Reported
<1>3. ASSUME NEW k \in 1..Len(finalSignatories) PROVE FinalSigned(k)'
  <2>1. PICK d \in Decided : Reported(finalSignatories[k], finalJobReports[d])
    BY DEF SignedInv, FinalSigned
  <2>2. Reported(finalSignatories[k], finalJobReports[d])'
    BY <1>2, <2>1 DEF Reported
  <2> QED BY <1>1, <2>2 DEF FinalSigned
<1>4. ASSUME NEW d \in Decided PROVE TakenOK(finalJobReports[d])'
  <2>1. hashSignatories' = hashSignatories /\ TakenOK(finalJobReports[d])
    BY <1>4 DEF SignedInv
  <2> QED BY <2>1 DEF TakenOK
<1> QED BY <1>1, <1>3, <1>4 DEF SignedInv

\* While reports are counted nothing has been built, and nothing is.
LEMMA BuildFrame ==
    ASSUME IInv, Counting, UNCHANGED <<reports, checked, finalJobReports, finalSignatories>>
    PROVE  BuildInv' /\ checked = {}
<1>1. checked = {}
  BY DEF IInv, OrderInv, Counting
<1>2. \A j \in Job : finalJobReports[j] = None
  BY <1>1 DEF IInv, BuildInv, JobOK
<1>3. \A j \in Job : JobOK(j)'
  BY <1>1, <1>2 DEF JobOK
<1>4. BuildTypes'
  BY DEF IInv, BuildInv, BuildTypes
<1>5. Decided = {}
  BY <1>2 DEF Decided
<1>6. SignedInv'
  BY <1>5, SignedFrame DEF IInv, BuildInv
<1> QED BY <1>1, <1>3, <1>4, <1>6 DEF BuildInv

\* A response is counted for its job and its value, and its sender kept.
LEMMA CountResponseInv == ASSUME IInv, NEW j \in Job, CountResponse(j) PROVE IInv'
<1> DEFINE v == reports[index].reports[j]
           p == reports[index].from
<1>1. /\ Counting
      /\ j \in JobsOf(reports[index]) \ ranged
      /\ ranged' = ranged \cup {j}
      /\ jobHashCount' = [jobHashCount EXCEPT ![j][v] = @ + 1]
      /\ hashSignatories' = [hashSignatories EXCEPT ![v] = Append(@, p)]
      /\ UNCHANGED <<reports, index, checked, finalJobReports, finalSignatories, result>>
  BY DEF CountResponse, input, built
<1>2. index \in DOMAIN reports /\ index \in Nat
  BY <1>1 DEF Counting, IInv, InputTypes
<1>3. v \in Value /\ p \in Peer \cup {NoPeer}
  BY <1>1, <1>2, ReportTypes DEF JobsOf, IInv
<1>4. InputTypes'
  BY <1>1 DEF IInv, InputTypes
<1>5. CountTypes
  BY DEF IInv, CountInv
<1>6. CountTypes'
  BY <1>1, <1>3, <1>5 DEF CountTypes
<1>7. Len(hashSignatories'[v]) = Len(hashSignatories[v]) + 1
      /\ (\A u \in Value : u # v => hashSignatories'[u] = hashSignatories[u])
  BY <1>1, <1>3, <1>5 DEF CountTypes
<1>8. ASSUME NEW i \in Job, NEW u \in Value PROVE CountOK(i, u)'
  <2>1. CountOK(i, u)
    BY DEF IInv, CountInv
  <2>2. jobHashCount[i][u] \in Nat /\ Len(hashSignatories[u]) \in Nat
    BY <1>5 DEF CountTypes
  <2>3. CASE i = j /\ u = v
    <3>1. Seen(i, u)' = Seen(i, u) \cup {index}
      BY <1>1, <1>2, <2>3 DEF Seen
    <3>2. index \notin Seen(i, u)
      BY <1>1, <1>2, <2>3 DEF Seen
    <3>3. /\ IsFiniteSet(Seen(i, u) \cup {index})
          /\ Cardinality(Seen(i, u) \cup {index}) = Cardinality(Seen(i, u)) + 1
      BY <2>1, <3>2, FS_AddElement DEF CountOK
    <3>4. jobHashCount'[i][u] = jobHashCount[i][u] + 1
      BY <1>1, <1>3, <1>5, <2>3 DEF CountTypes
    <3> QED BY <2>1, <2>2, <2>3, <3>1, <3>3, <3>4, <1>7 DEF CountOK
  <2>4. CASE ~(i = j /\ u = v)
    <3>1. Seen(i, u)' = Seen(i, u)
      BY <1>1, <1>2, <2>4 DEF Seen
    <3>2. jobHashCount'[i][u] = jobHashCount[i][u]
      BY <1>1, <1>3, <1>5, <2>4 DEF CountTypes
    <3>3. Len(hashSignatories'[u]) >= Len(hashSignatories[u])
      BY <1>7, <2>2
    <3>4. Len(hashSignatories'[u]) \in Nat
      BY <1>6 DEF CountTypes
    <3> QED BY <2>1, <2>2, <3>1, <3>2, <3>3, <3>4 DEF CountOK
  <2> QED BY <2>3, <2>4
<1>9. ASSUME NEW u \in Value PROVE SignatoryOK(u)'
  <2>1. SignatoryOK(u) /\ hashSignatories[u] \in Seq(Peer \cup {NoPeer})
    BY <1>5 DEF IInv, CountInv, CountTypes
  <2>2. ASSUME NEW k \in 1..Len(hashSignatories[u]) PROVE hashSignatories'[u][k] = hashSignatories[u][k]
    BY <1>1, <1>3, <1>5, <2>1 DEF CountTypes
  <2>3. ASSUME NEW k \in 1..Len(hashSignatories[u]) PROVE EntryOK(u, k)'
    <3>1. PICK i \in DOMAIN reports, d \in Job :
              /\ Done(i, d)
              /\ reports[i].from = hashSignatories[u][k]
              /\ reports[i].reports[d] = u
      BY <2>1 DEF SignatoryOK, EntryOK
    <3>2. Done(i, d)'
      BY <1>1, <3>1 DEF Done
    <3> QED BY <1>1, <2>2, <3>1, <3>2 DEF EntryOK
  <2>4. ReportedTwice(u)' <=> ReportedTwice(u)
    BY <1>1 DEF ReportedTwice
  <2>5. CASE u = v
    <3>0. PICK n \in Nat : n = Len(hashSignatories[u]) + 1
      BY <2>1
    <3>1. /\ Len(hashSignatories'[u]) = n
          /\ hashSignatories'[u][n] = p
      <4>1. hashSignatories'[u] = Append(hashSignatories[u], p)
        BY <1>1, <1>3, <1>5, <2>5 DEF CountTypes
      <4> HIDE DEF p
      <4> QED BY <1>3, <2>1, <3>0, <4>1
    <3>2. EntryOK(u, n)'
      <4>1. Done(index, j)'
        BY <1>1 DEF Done
      <4> QED BY <1>1, <1>2, <2>5, <3>1, <4>1 DEF EntryOK
    <3>3. ASSUME NEW k \in 1..Len(hashSignatories[u]), hashSignatories[u][k] = p
          PROVE  ReportedTwice(u)
      <4>1. PICK i \in DOMAIN reports, d \in Job :
                /\ Done(i, d)
                /\ reports[i].from = p
                /\ reports[i].reports[d] = u
        BY <2>1, <3>3 DEF SignatoryOK, EntryOK
      <4>2. <<i, d>> # <<index, j>>
        BY <1>1, <1>2, <4>1 DEF Done
      <4> QED BY <1>2, <2>5, <4>1, <4>2 DEF ReportedTwice
    <3>4. ASSUME NEW k \in 1..n PROVE k = n \/ k \in 1..Len(hashSignatories[u])
      BY <2>1, <3>0
    <3>5. ASSUME NEW k \in 1..n, NEW l \in 1..n, k # l,
                 hashSignatories'[u][k] = hashSignatories'[u][l]
          PROVE  ReportedTwice(u)
      <4>1. CASE k = n
        BY <2>2, <3>1, <3>3, <3>4, <3>5, <4>1
      <4>2. CASE l = n
        BY <2>2, <3>1, <3>3, <3>4, <3>5, <4>2
      <4>3. CASE k # n /\ l # n
        BY <2>1, <2>2, <3>4, <3>5, <4>3 DEF SignatoryOK
      <4> QED BY <4>1, <4>2, <4>3
    <3> QED BY <2>3, <2>4, <3>1, <3>2, <3>4, <3>5 DEF SignatoryOK
  <2>6. CASE u # v
    BY <1>7, <2>1, <2>3, <2>4, <2>6 DEF SignatoryOK
  <2> QED BY <2>5, <2>6
<1>10. BuildInv' /\ checked = {}
  BY <1>1, BuildFrame
<1>11. OrderInv'
  BY <1>1, <1>10 DEF OrderInv, Counting, IInv, InputTypes
<1> QED BY <1>4, <1>6, <1>8, <1>9, <1>10, <1>11 DEF IInv, CountInv

\* All jobs of a report have been counted: it is seen.
LEMMA NextReportInv == ASSUME IInv, NextReport PROVE IInv'
<1>1. /\ Counting
      /\ JobsOf(reports[index]) \subseteq ranged
      /\ index' = index + 1
      /\ ranged' = {}
      /\ UNCHANGED <<reports, jobHashCount, hashSignatories, checked>>
      /\ UNCHANGED <<finalJobReports, finalSignatories, result>>
  BY DEF NextReport, input, counted, built
<1>2. index \in DOMAIN reports /\ index \in Nat /\ index <= Len(reports)
  BY <1>1 DEF Counting, IInv, InputTypes
<1>3. InputTypes'
  BY <1>1, <1>2 DEF IInv, InputTypes
<1>4. CountTypes'
  BY <1>1 DEF IInv, CountInv, CountTypes
<1>5. ASSUME NEW j \in Job, NEW v \in Value PROVE CountOK(j, v)'
  <2>1. ASSUME reports[index].reports[j] = v PROVE j \in ranged
    BY <1>1, <2>1, ValueAssumption DEF JobsOf
  <2>2. DOMAIN reports \subseteq Nat
    BY DEF IInv, InputTypes
  <2>3. Seen(j, v)' = Seen(j, v)
    BY <1>1, <1>2, <2>1, <2>2 DEF Seen
  <2> QED BY <1>1, <2>3 DEF IInv, CountInv, CountOK
<1>6. ASSUME NEW v \in Value PROVE SignatoryOK(v)'
  <2>1. SignatoryOK(v)
    BY DEF IInv, CountInv
  <2>2. ASSUME NEW k \in 1..Len(hashSignatories[v]) PROVE EntryOK(v, k)'
    <3>1. PICK i \in DOMAIN reports, j \in Job :
              /\ Done(i, j)
              /\ reports[i].from = hashSignatories[v][k]
              /\ reports[i].reports[j] = v
      BY <2>1 DEF SignatoryOK, EntryOK
    <3>2. i \in Nat
      BY DEF IInv, InputTypes
    <3>3. Done(i, j)'
      BY <1>1, <1>2, <3>1, <3>2 DEF Done
    <3> QED BY <1>1, <3>1, <3>3 DEF EntryOK
  <2> QED BY <1>1, <2>1, <2>2 DEF SignatoryOK, ReportedTwice
<1>7. BuildInv' /\ checked = {}
  BY <1>1, BuildFrame
<1>8. OrderInv'
  BY <1>1, <1>7 DEF OrderInv, Counting
<1> QED BY <1>3, <1>4, <1>5, <1>6, <1>7, <1>8 DEF IInv, CountInv

\* The second loop leaves what was counted alone.
LEMMA CountFrame ==
    ASSUME IInv, UNCHANGED <<reports, index, ranged, jobHashCount, hashSignatories>>
    PROVE  CountInv'
<1>1. CountTypes'
  BY DEF IInv, CountInv, CountTypes
<1>2. ASSUME NEW j \in Job, NEW v \in Value PROVE CountOK(j, v)'
  <2>1. Seen(j, v)' = Seen(j, v)
    BY DEF Seen
  <2> QED BY <2>1 DEF IInv, CountInv, CountOK
<1>3. \A v \in Value : SignatoryOK(v)'
  BY DEF IInv, CountInv, SignatoryOK, EntryOK, Done, ReportedTwice
<1> QED BY <1>1, <1>2, <1>3 DEF CountInv

\* A job is decided with an agreed value, and f+1 signatories of it are added.
LEMMA TakeJobInv == ASSUME IInv, NEW j \in Job, TakeJob(j) PROVE IInv'
<1>1. PICK v \in Agreed(j) :
          /\ finalJobReports' = [finalJobReports EXCEPT ![j] = v]
          /\ finalSignatories' =
                 IF Len(hashSignatories[v]) >= threshold
                 THEN finalSignatories \o SubSeq(hashSignatories[v], 1, threshold)
                 ELSE finalSignatories
  BY DEF TakeJob
<1>2. /\ Building
      /\ j \in CountedJobs \ checked
      /\ checked' = checked \cup {j}
      /\ UNCHANGED <<reports, index, ranged, jobHashCount, hashSignatories, result>>
  BY DEF TakeJob, input, counted
<1>3. v \in Value /\ v # None /\ jobHashCount[j][v] >= threshold
  BY <1>1, ValueAssumption DEF Agreed
<1>4. CountInv' /\ CountTypes /\ CountOK(j, v) /\ SignatoryOK(v)
  BY <1>2, <1>3, CountFrame DEF IInv, CountInv
<1>5. threshold \in Nat /\ threshold = f + 1
  BY BoundAssumption DEF threshold
<1> DEFINE sigs == hashSignatories[v]
           taken == SubSeq(sigs, 1, threshold)
<1>6. sigs \in Seq(Peer \cup {NoPeer}) /\ Len(sigs) >= threshold
  <2>1. jobHashCount[j][v] \in Nat /\ Len(sigs) \in Nat /\ sigs \in Seq(Peer \cup {NoPeer})
    BY <1>3, <1>4 DEF CountTypes
  <2> QED BY <1>3, <1>4, <1>5, <2>1 DEF CountOK
<1>7. /\ taken \in Seq(Peer \cup {NoPeer})
      /\ Len(taken) = threshold
      /\ \A k \in 1..threshold : taken[k] = sigs[k]
  BY <1>5, <1>6
<1>8. BuildTypes /\ SignedInv /\ finalSignatories \in Seq(Peer \cup {NoPeer})
  BY DEF IInv, BuildInv, BuildTypes
<1>9. /\ finalSignatories' = finalSignatories \o taken
      /\ finalSignatories' \in Seq(Peer \cup {NoPeer})
      /\ Len(finalSignatories') = Len(finalSignatories) + threshold
  BY <1>1, <1>6, <1>7, <1>8, ConcatProperties
<1>10. /\ finalJobReports'[j] = v
       /\ \A i \in Job : i # j => finalJobReports'[i] = finalJobReports[i]
  BY <1>1, <1>8 DEF BuildTypes
<1>11. finalJobReports[j] = None
  BY <1>2 DEF IInv, BuildInv, JobOK
<1>12. BuildTypes'
  BY <1>1, <1>2, <1>3, <1>8, <1>9 DEF BuildTypes
<1>13. ASSUME NEW i \in Job PROVE JobOK(i)'
  <2>1. Agreed(i)' = Agreed(i)
    BY <1>2 DEF Agreed, threshold
  <2>2. JobOK(i)
    BY DEF IInv, BuildInv
  <2>3. CASE i = j
    BY <1>1, <1>2, <1>3, <1>10, <2>1, <2>3 DEF JobOK
  <2>4. CASE i # j
    BY <1>2, <1>10, <2>1, <2>2, <2>4 DEF JobOK
  <2> QED BY <2>3, <2>4
<1>14. Decided' = Decided \cup {j} /\ j \notin Decided
  BY <1>3, <1>10, <1>11 DEF Decided
<1>15. IsFiniteSet(Decided') /\ Cardinality(Decided') = Cardinality(Decided) + 1
  BY <1>8, <1>14, FS_AddElement DEF SignedInv
<1>16. Cardinality(Decided) \in Nat
  BY <1>8, FS_CardinalityType DEF SignedInv
<1>17. Len(finalSignatories') = (f + 1) * Cardinality(Decided')
  <2>1. \A a, c \in Nat : a * (c + 1) = a * c + a
    OBVIOUS
  <2>2. (f + 1) * (Cardinality(Decided) + 1) = (f + 1) * Cardinality(Decided) + (f + 1)
    BY <1>16, <2>1, BoundAssumption
  <2> QED BY <1>5, <1>8, <1>9, <1>15, <2>2 DEF SignedInv
<1>18. ASSUME NEW k \in 1..Len(finalSignatories') PROVE FinalSigned(k)'
  <2>0. Len(finalSignatories) \in Nat /\ k \in Nat
    BY <1>5, <1>8, <1>9
  <2>1. CASE k <= Len(finalSignatories)
    <3>1. k \in 1..Len(finalSignatories) /\ finalSignatories'[k] = finalSignatories[k]
      BY <1>7, <1>8, <1>9, <2>0, <2>1
    <3>2. PICK d \in Decided : Reported(finalSignatories[k], finalJobReports[d])
      BY <1>8, <3>1 DEF SignedInv, FinalSigned
    <3>3. d \in Decided' /\ finalJobReports'[d] = finalJobReports[d]
      BY <1>10, <1>14 DEF Decided
    <3> QED BY <1>2, <3>1, <3>2, <3>3 DEF FinalSigned, Reported
  <2>2. CASE k > Len(finalSignatories)
    <3> DEFINE q == k - Len(finalSignatories)
    <3>1. q \in 1..threshold
      BY <1>5, <1>9, <2>0, <2>2
    <3>2. finalSignatories'[k] = taken[q]
      BY <1>5, <1>7, <1>8, <1>9, <2>0, <2>2
    <3>3. taken[q] = sigs[q] /\ q \in 1..Len(sigs)
      BY <1>5, <1>6, <1>7, <3>1
    <3>4. Reported(sigs[q], v)
      BY <1>4, <3>3 DEF SignatoryOK, EntryOK, Reported
    <3>5. j \in Decided'
      BY <1>14
    <3> QED BY <1>2, <1>10, <3>2, <3>3, <3>4, <3>5 DEF FinalSigned, Reported
  <2> QED BY <2>0, <2>1, <2>2
<1>19. InputTypes'
  BY <1>2 DEF IInv, InputTypes
<1>20. OrderInv'
  BY <1>2 DEF OrderInv, Building, IInv, InputTypes
<1>21. ASSUME NEW d \in Decided' PROVE TakenOK(finalJobReports[d])'
  <2>0. Len(finalSignatories) \in Nat
    BY <1>8
  <2>1. CASE d = j
    <3>1. ASSUME NEW q \in 1..(f + 1)
          PROVE  \E k \in 1..Len(finalSignatories') : finalSignatories'[k] = sigs[q]
      <4>1. q \in Nat /\ q \in 1..threshold
        BY <1>5
      <4>2. Len(finalSignatories) + q \in 1..Len(finalSignatories')
        BY <1>5, <1>9, <2>0, <4>1
      <4>3. finalSignatories'[Len(finalSignatories) + q] = taken[q]
        BY <1>5, <1>7, <1>8, <1>9, <2>0, <4>1
      <4> QED BY <1>7, <4>1, <4>2, <4>3
    <3> QED BY <1>2, <1>5, <1>6, <1>10, <2>1, <3>1 DEF TakenOK
  <2>2. CASE d # j
    <3>1. d \in Decided /\ finalJobReports'[d] = finalJobReports[d]
      BY <1>10, <1>14, <2>2 DEF Decided
    <3>2. TakenOK(finalJobReports[d])
      BY <1>8, <3>1 DEF SignedInv
    <3>3. ASSUME NEW k \in 1..Len(finalSignatories)
          PROVE  /\ k \in 1..Len(finalSignatories')
                 /\ finalSignatories'[k] = finalSignatories[k]
      BY <1>5, <1>7, <1>8, <1>9, <2>0
    <3> QED BY <1>2, <3>1, <3>2, <3>3 DEF TakenOK
  <2> QED BY <2>1, <2>2
<1>22. SignedInv'
  BY <1>15, <1>17, <1>18, <1>21 DEF SignedInv
<1> QED BY <1>4, <1>12, <1>13, <1>19, <1>20, <1>22 DEF IInv, BuildInv

\* A job no value of which has enough reports is passed over.
LEMMA PassJobInv == ASSUME IInv, NEW j \in Job, PassJob(j) PROVE IInv'
<1>1. /\ Building
      /\ Agreed(j) = {}
      /\ checked' = checked \cup {j}
      /\ UNCHANGED <<reports, index, ranged, jobHashCount, hashSignatories>>
      /\ UNCHANGED <<finalJobReports, finalSignatories, result>>
  BY DEF PassJob, input, counted
<1>2. CountInv'
  BY <1>1, CountFrame
<1>3. BuildTypes'
  BY <1>1 DEF IInv, BuildInv, BuildTypes
<1>4. ASSUME NEW i \in Job PROVE JobOK(i)'
  <2>1. Agreed(i)' = Agreed(i)
    BY <1>1 DEF Agreed, threshold
  <2> QED BY <1>1, <2>1 DEF IInv, BuildInv, JobOK
<1>5. SignedInv'
  BY <1>1, SignedFrame DEF IInv, BuildInv
<1>6. InputTypes'
  BY <1>1 DEF IInv, InputTypes
<1>7. OrderInv'
  BY <1>1 DEF OrderInv, Building, IInv, InputTypes
<1> QED BY <1>2, <1>3, <1>4, <1>5, <1>6, <1>7 DEF IInv, BuildInv

\* The call returns, and nothing but its result changes.
LEMMA ReturnInv == ASSUME IInv, Return PROVE IInv'
<1>1. /\ Building
      /\ CountedJobs \subseteq checked
      /\ result' = IF NoConsensus THEN "nil" ELSE "consensus"
      /\ UNCHANGED <<reports, index, ranged, jobHashCount, hashSignatories>>
      /\ UNCHANGED <<checked, finalJobReports, finalSignatories>>
  BY DEF Return, input, counted, built
<1>2. CountInv'
  BY <1>1, CountFrame
<1>3. BuildTypes'
  BY <1>1 DEF IInv, BuildInv, BuildTypes
<1>4. \A i \in Job : JobOK(i)'
  BY <1>1 DEF IInv, BuildInv, JobOK, Agreed, threshold
<1>5. SignedInv'
  BY <1>1, SignedFrame DEF IInv, BuildInv
<1>6. InputTypes'
  BY <1>1 DEF IInv, InputTypes
<1>7. NoConsensus' = NoConsensus /\ CountedJobs' = CountedJobs
  BY <1>1 DEF NoConsensus, Decided, CountedJobs, threshold
<1>8. OrderInv'
  BY <1>1, <1>7 DEF OrderInv, Building, IInv, InputTypes
<1> QED BY <1>2, <1>3, <1>4, <1>5, <1>6, <1>8 DEF IInv, BuildInv

\* Every step keeps the invariant.
LEMMA NextInv == IInv /\ [Next]_vars => IInv'
<1> SUFFICES ASSUME IInv, [Next]_vars PROVE IInv'
  OBVIOUS
<1>1. CASE \E j \in Job : CountResponse(j) \/ TakeJob(j) \/ PassJob(j)
  BY <1>1, CountResponseInv, TakeJobInv, PassJobInv
<1>2. CASE NextReport
  BY <1>2, NextReportInv
<1>3. CASE Return
  BY <1>3, ReturnInv
<1>4. CASE UNCHANGED vars
  <2>1. UNCHANGED <<reports, index, ranged, jobHashCount, hashSignatories>>
        /\ UNCHANGED <<checked, finalJobReports, finalSignatories, result>>
    BY <1>4 DEF vars
  <2>2. CountInv'
    BY <2>1, CountFrame
  <2>3. BuildInv'
    BY <2>1, SignedFrame DEF IInv, BuildInv, BuildTypes, JobOK, Agreed, threshold
  <2>4. InputTypes' /\ OrderInv'
    BY <2>1 DEF IInv, InputTypes, OrderInv, NoConsensus, Decided, CountedJobs, threshold
  <2> QED BY <2>2, <2>3, <2>4 DEF IInv
<1> QED BY <1>1, <1>2, <1>3, <1>4 DEF Next

\* The invariant always holds.
LEMMA Invariant == Spec => []IInv
BY InitInv, NextInv, PTL DEF Spec

----------------------------------------------------------------------------
(***************************************************************************)
(* The properties.                                                         *)
(***************************************************************************)

\* When the call has returned, the decided jobs are those with an agreed value,
\* and that value is one the reports support.
LEMMA DecidedJobs ==
    ASSUME IInv, result # "none", NEW j \in Job
    PROVE  /\ Supported(j) # {} => j \in Decided
           /\ j \in Decided => /\ finalJobReports[j] \in Value
                              /\ \/ finalJobReports[j] \in Supported(j)
                                 \/ Repeated(j, finalJobReports[j])
<1>1. index > Len(reports) /\ CountedJobs \subseteq checked
  BY DEF IInv, OrderInv, InputTypes
<1>2. /\ Supported(j) \subseteq Agreed(j)
      /\ \A v \in Agreed(j) : v \in Supported(j) \/ Repeated(j, v)
  BY <1>1, AgreedSupported DEF IInv
<1>3. JobOK(j) /\ (Agreed(j) # {} => j \in checked)
  BY <1>1, AgreedCounted DEF IInv, BuildInv
<1>4. Agreed(j) \subseteq Value
  BY DEF Agreed
<1> QED BY <1>2, <1>3, <1>4 DEF JobOK, Decided

\* assembleFinalReport decides the jobs of which f+1 nodes report the same value,
\* in whatever order Go ranges over its maps, and decides one with fewer only
\* when a node reported the value twice.
THEOREM DecisionsSupported == Spec => []DecidesSupportedJobs
<1>1. IInv => DecidesSupportedJobs
  BY DecidedJobs DEF DecidesSupportedJobs
<1> QED BY <1>1, Invariant, PTL

\* It fails only when no job is supported, and else only with a report some node
\* gave twice: the test on the number of signatories turns no decided report down.
THEOREM ConsensusExact == Spec => []ConsensusIffSupport
<1>1. IInv => ConsensusIffSupport
  <2> SUFFICES ASSUME IInv PROVE ConsensusIffSupport
    OBVIOUS
  <2>1. ASSUME result = "consensus"
        PROVE  \E j \in Job, v \in Value : v \in Supported(j) \/ Repeated(j, v)
    <3>1. Decided # {} /\ Decided \subseteq Job
      BY <2>1 DEF IInv, OrderInv, NoConsensus, Decided
    <3> QED BY <2>1, <3>1, DecidedJobs
  <2>2. ASSUME result = "nil" PROVE \A j \in Job : Supported(j) = {}
    <3>1. Decided = {} \/ Len(finalSignatories) < f + 1
      BY <2>2 DEF IInv, OrderInv, NoConsensus, threshold
    <3>2. IsFiniteSet(Decided) /\ Len(finalSignatories) = (f + 1) * Cardinality(Decided)
      BY DEF IInv, BuildInv, SignedInv
    <3>3. Cardinality(Decided) \in Nat /\ (Cardinality(Decided) = 0 <=> Decided = {})
      BY <3>2, FS_CardinalityType, FS_EmptySet
    <3>4. \A a \in Nat, c \in Nat \ {0} : a * c >= a
      OBVIOUS
    <3>5. Decided = {}
      BY <3>1, <3>2, <3>3, <3>4, BoundAssumption
    <3> QED BY <2>2, <3>5, DecidedJobs
  <2> QED BY <2>1, <2>2 DEF ConsensusIffSupport
<1> QED BY <1>1, Invariant, PTL

\* The signatories that reported a decided value are f+1 nodes, unless a node
\* reported the value twice.
LEMMA DistinctSigners ==
    ASSUME IInv, NEW d \in Decided, ~ReportedTwice(finalJobReports[d])
    PROVE  Cardinality(ReportersOf(finalJobReports[d])) >= f + 1
<1> DEFINE v == finalJobReports[d]
           first == [q \in 1..(f + 1) |-> hashSignatories[v][q]]
<1>1. d \in Job /\ v \in Value
  BY DEF Decided, IInv, BuildInv, BuildTypes
<1>2. TakenOK(v) /\ SignatoryOK(v) /\ hashSignatories[v] \in Seq(Peer \cup {NoPeer})
  BY <1>1 DEF IInv, BuildInv, SignedInv, CountInv, CountTypes
<1>3. finalSignatories \in Seq(Peer \cup {NoPeer})
      /\ DOMAIN finalSignatories = 1..Len(finalSignatories) /\ Len(finalSignatories) \in Nat
  BY DEF IInv, BuildInv, BuildTypes
<1>4. IsFiniteSet(ReportersOf(v))
  <2> DEFINE sign == [k \in DOMAIN finalSignatories |-> finalSignatories[k]]
  <2>1. sign \in Surjection(DOMAIN finalSignatories, Signers)
    BY DEF Surjection, Signers
  <2>2. IsFiniteSet(DOMAIN finalSignatories)
    BY <1>3, FS_Interval
  <2>3. IsFiniteSet(Signers)
    BY <2>1, <2>2, FS_Surjection
  <2>4. ReportersOf(v) \in SUBSET Signers
    BY DEF ReportersOf
  <2> QED BY <2>3, <2>4, FS_Subset
<1>5. 1..(f + 1) \subseteq 1..Len(hashSignatories[v])
  BY <1>2, BoundAssumption DEF TakenOK
<1>6. ASSUME NEW q \in 1..(f + 1) PROVE hashSignatories[v][q] \in ReportersOf(v)
  <2>1. PICK k \in 1..Len(finalSignatories) : finalSignatories[k] = hashSignatories[v][q]
    BY <1>2 DEF TakenOK
  <2>2. hashSignatories[v][q] \in Signers
    BY <1>3, <2>1 DEF Signers
  <2>3. EntryOK(v, q)
    BY <1>2, <1>5 DEF SignatoryOK
  <2> QED BY <2>2, <2>3 DEF ReportersOf, EntryOK
<1>7. first \in Injection(1..(f + 1), ReportersOf(v))
  <2>1. first \in [1..(f + 1) -> ReportersOf(v)]
    BY <1>6
  <2>2. \A q, k \in 1..(f + 1) : first[q] = first[k] => q = k
    BY <1>2, <1>5 DEF SignatoryOK
  <2> QED BY <2>1, <2>2 DEF Injection, IsInjective
<1>8. Cardinality(1..(f + 1)) <= Cardinality(ReportersOf(v))
  BY <1>4, <1>7, FS_Injection
<1>9. Cardinality(1..(f + 1)) = f + 1
  BY BoundAssumption, FS_Interval
<1> QED BY <1>4, <1>8, <1>9, FS_CardinalityType, BoundAssumption

\* A final report has f+1 signatory entries for each decided job, each of a node
\* that reported a decided value, if perhaps of another job; and they are f+1
\* nodes unless one reported the value twice.
THEOREM SignatoriesHonest == Spec => []SignatoriesReported
<1>1. IInv => SignatoriesReported
  <2> SUFFICES ASSUME IInv PROVE SignatoriesReported
    OBVIOUS
  <2>1. /\ Len(finalSignatories) = (f + 1) * Cardinality(Decided)
        /\ \A k \in 1..Len(finalSignatories) : FinalSigned(k)
    BY DEF IInv, BuildInv, SignedInv
  <2>2. DOMAIN finalSignatories = 1..Len(finalSignatories)
    BY DEF IInv, BuildInv, BuildTypes
  <2>3. ASSUME NEW p \in Signers
        PROVE  \E d \in Decided : p \in ReportersOf(finalJobReports[d])
    <3>1. PICK k \in DOMAIN finalSignatories : p = finalSignatories[k]
      BY DEF Signers
    <3>2. PICK d \in Decided : Reported(p, finalJobReports[d])
      BY <2>1, <2>2, <3>1 DEF FinalSigned
    <3> QED BY <3>2 DEF ReportersOf, Reported
  <2> QED BY <2>1, <2>3, DistinctSigners DEF SignatoriesReported
<1> QED BY <1>1, Invariant, PTL
=============================================================================
