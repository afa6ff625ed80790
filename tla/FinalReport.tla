---------------------------- MODULE FinalReport ----------------------------
(***************************************************************************)
(* One call of assembleFinalReport (ocr/leader.go): the leader counts the  *)
(* values its followers reported for each job and takes a value with f+1   *)
(* reports, and f+1 of the signatures stored with it, into the final       *)
(* report.  Go ranges over maps in any order: over the jobs of a report,   *)
(* over the jobs counted and over the values of a job.                     *)
(***************************************************************************)
EXTENDS Naturals, Sequences, FiniteSets

CONSTANTS
    Peer,        \* the followers that report
    NoPeer,      \* the sender of the blank report that make([]Report, 1) leaves
    Job,
    Value,       \* what a job can be reported to be; equal hash, equal value
    None,        \* no value: a job the follower could not assemble
    f,           \* pacemakerGlobals.f
    MaxReports   \* bound: reports received when the call is made

ASSUME PeerAssumption == IsFiniteSet(Peer) /\ NoPeer \notin Peer
ASSUME ValueAssumption == None \notin Value
ASSUME BoundAssumption == f \in Nat /\ MaxReports \in Nat

VARIABLES
    reports,          \* re.reports: <<sender, reports by job>>, the blank one first
    index,            \* the report the first loop is at
    ranged,           \* the jobs of it that are done
    jobHashCount,     \* reports of a value for a job
    hashSignatories,  \* senders of a value, whatever the job
    checked,          \* the jobs the second loop is done with
    finalJobReports,
    finalSignatories,
    result            \* "none" while it runs, then "consensus" or "nil"

input   == <<reports>>
counted == <<jobHashCount, hashSignatories>>
built   == <<checked, finalJobReports, finalSignatories>>
vars    == <<reports, index, ranged, jobHashCount, hashSignatories, checked,
             finalJobReports, finalSignatories, result>>

Report == [from : Peer, reports : [Job -> Value \cup {None}]]
Blank  == [from |-> NoPeer, reports |-> [j \in Job |-> None]]

\* Overlapping report phases make a follower report repeatedly, and over
\* different observation maps: its reports need not agree.
Init ==
    /\ \E k \in 1..MaxReports : \E s \in [1..k -> Report] : reports = <<Blank>> \o s
    /\ index = 1
    /\ ranged = {}
    /\ jobHashCount = [j \in Job |-> [v \in Value |-> 0]]
    /\ hashSignatories = [v \in Value |-> <<>>]
    /\ checked = {}
    /\ finalJobReports = [j \in Job |-> None]
    /\ finalSignatories = <<>>
    /\ result = "none"

Counting == result = "none" /\ index =< Len(reports)
Building == result = "none" /\ index > Len(reports)

JobsOf(r) == {j \in Job : r.reports[j] # None}

CountResponse(j) ==
    LET r == reports[index]
        v == r.reports[j]
    IN /\ Counting
       /\ j \in JobsOf(r) \ ranged
       /\ ranged' = ranged \cup {j}
       /\ jobHashCount' = [jobHashCount EXCEPT ![j][v] = @ + 1]
       /\ hashSignatories' = [hashSignatories EXCEPT ![v] = Append(@, r.from)]
       /\ UNCHANGED <<input, index, built, result>>

NextReport ==
    /\ Counting
    /\ JobsOf(reports[index]) \subseteq ranged
    /\ index' = index + 1
    /\ ranged' = {}
    /\ UNCHANGED <<input, counted, built, result>>

\* Mutant: f reports are enough.
thresholdAtF == f
threshold == f + 1

Agreed(j) == {v \in Value : jobHashCount[j][v] > 0 /\ jobHashCount[j][v] >= threshold}
CountedJobs == {j \in Job : \E v \in Value : jobHashCount[j][v] > 0}

\* Mutant: all signatories of the value are taken.
TakeJobAll(j) ==
    /\ Building
    /\ j \in CountedJobs \ checked
    /\ checked' = checked \cup {j}
    /\ \E v \in Agreed(j) :
           /\ finalJobReports' = [finalJobReports EXCEPT ![j] = v]
           /\ finalSignatories' = finalSignatories \o hashSignatories[v]
    /\ UNCHANGED <<input, index, ranged, counted, result>>

\* The first value with enough reports is taken, and the range left.
TakeJob(j) ==
    /\ Building
    /\ j \in CountedJobs \ checked
    /\ checked' = checked \cup {j}
    /\ \E v \in Agreed(j) :
           /\ finalJobReports' = [finalJobReports EXCEPT ![j] = v]
           /\ finalSignatories' =
                  IF Len(hashSignatories[v]) >= threshold
                  THEN finalSignatories \o SubSeq(hashSignatories[v], 1, threshold)
                  ELSE finalSignatories
    /\ UNCHANGED <<input, index, ranged, counted, result>>

PassJob(j) ==
    /\ Building
    /\ j \in CountedJobs \ checked
    /\ Agreed(j) = {}
    /\ checked' = checked \cup {j}
    /\ UNCHANGED <<input, index, ranged, counted, finalJobReports, finalSignatories, result>>

Decided == {j \in Job : finalJobReports[j] # None}

\* Mutant: enough signatories mean failure.
NoConsensusReversed == Len(finalSignatories) >= threshold
NoConsensus == Decided = {} \/ Len(finalSignatories) < threshold

Return ==
    /\ Building
    /\ CountedJobs \subseteq checked
    /\ result' = IF NoConsensus THEN "nil" ELSE "consensus"
    /\ UNCHANGED <<input, index, ranged, counted, built>>

Next ==
    \/ \E j \in Job : CountResponse(j) \/ TakeJob(j) \/ PassJob(j)
    \/ NextReport
    \/ Return

Spec == Init /\ [][Next]_vars

----------------------------------------------------------------------------
(***************************************************************************)
(* Properties: what the call returns, against the reports themselves.  The *)
(* comments in the code speak of f+1 nodes; the call counts reports, and   *)
(* the leader never asks whether a follower has reported before.  So the   *)
(* properties are about nodes, and say where a repeated report matters.    *)
(***************************************************************************)

\* The reports that say j is v, by index, and the nodes behind them.
Saying(j, v)  == {i \in DOMAIN reports : reports[i].reports[j] = v}
Backers(j, v) == {reports[i].from : i \in Saying(j, v)}

\* The values that f+1 nodes report for j.
Supported(j) == {v \in Value : Cardinality(Backers(j, v)) >= f + 1}

\* Some node reported j to be v twice.
Repeated(j, v) ==
    \E i, k \in Saying(j, v) : i # k /\ reports[i].from = reports[k].from

\* Some node reported v twice, of one job or of two.
ReportedTwice(v) ==
    \E i, k \in DOMAIN reports : \E j, d \in Job :
        /\ <<i, j>> # <<k, d>>
        /\ reports[i].from = reports[k].from
        /\ reports[i].reports[j] = v
        /\ reports[k].reports[d] = v

\* In whatever order the maps are ranged over, a job of which f+1 nodes report
\* the same value is decided, and a job is decided with a value that f+1 nodes
\* reported; only a node that reported this value twice can stand for two.
DecidesSupportedJobs ==
    result # "none" =>
        \A j \in Job :
            /\ Supported(j) # {} => j \in Decided
            /\ j \in Decided =>
                   \/ finalJobReports[j] \in Supported(j)
                   \/ Repeated(j, finalJobReports[j])

\* The call fails only when no job has the support of f+1 nodes, and always then
\* unless a node reported twice: the test on the number of signatories never
\* turns a decided report down, and the blank report the leader starts with
\* never makes one.
ConsensusIffSupport ==
    /\ result = "nil" => \A j \in Job : Supported(j) = {}
    /\ result = "consensus" =>
           \E j \in Job, v \in Value : v \in Supported(j) \/ Repeated(j, v)

Signers == {finalSignatories[k] : k \in DOMAIN finalSignatories}
ReportersOf(v) == {p \in Signers : \E i \in DOMAIN reports, j \in Job :
                       reports[i].from = p /\ reports[i].reports[j] = v}

\* The list of signatories has f+1 entries for each decided job, each of a node
\* that did report a decided value.  They are the f+1 different nodes for which
\* a follower checks a final report, all reporters of the decided value, unless a
\* node reported that value twice, of this job or of another.
SignatoriesReported ==
    result = "consensus" =>
        /\ Len(finalSignatories) = (f + 1) * Cardinality(Decided)
        /\ \A p \in Signers : \E d \in Decided : p \in ReportersOf(finalJobReports[d])
        /\ \A d \in Decided :
               \/ Cardinality(ReportersOf(finalJobReports[d])) >= f + 1
               \/ ReportedTwice(finalJobReports[d])

\* ocr/leader.go, on top of assembleFinalReport: "final report consists of Data
\* and at least f+1 signatories": of each value it contains, f+1 signatories
\* that reported it.
SignedByItsReporters ==
    result = "consensus" =>
        \A j \in Decided :
            Cardinality(Signers \cap Backers(j, finalJobReports[j])) >= f + 1
=============================================================================
