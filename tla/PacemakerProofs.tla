-------------------------- MODULE PacemakerProofs --------------------------
(***************************************************************************)
(* Proofs about Pacemaker, for every job directory, every f, every word    *)
(* size and any number of announcements.                                   *)
(***************************************************************************)
EXTENDS Pacemaker, LeaderSelectionProofs, SequenceTheorems, FiniteSetTheorems, TLAPS

----------------------------------------------------------------------------
(***************************************************************************)
(* Arithmetic of unsigned words.                                           *)
(***************************************************************************)

\* Uint always gives a value of the word.
LEMMA UintInWord == ASSUME NEW k \in Int PROVE Uint(k) \in 0..Word - 1
BY EpochAssumption DEF Uint

\* A value of the word is left alone.
LEMMA UintOfWord == ASSUME NEW k \in 0..Word - 1 PROVE Uint(k) = k
BY EpochAssumption DEF Uint

\* Below zero it wraps once.
LEMMA UintWraps == ASSUME NEW k \in Int, k < 0, k >= -Word PROVE Uint(k) = k + Word
BY EpochAssumption DEF Uint

\* Among epochs on one side of f + 1, the proposal for a higher one is lower.
LEMMA ProposalDecreases ==
    ASSUME NEW a \in 0..Word - 1, NEW b \in 0..Word - 1, a < b, ~(a <= f + 1 /\ b > f + 1)
    PROVE  Proposal(b) < Proposal(a)
<1>1. CASE b <= f + 1
  <2>1. /\ f + 1 - a \in 0..Word - 1
        /\ f + 1 - b \in 0..Word - 1
    BY <1>1, EpochAssumption
  <2>2. Uint(f + 1 - a) = f + 1 - a /\ Uint(f + 1 - b) = f + 1 - b
    BY <2>1, UintOfWord
  <2> QED BY <2>2, EpochAssumption DEF Proposal
<1>2. CASE a > f + 1
  <2>1. /\ f + 1 - a \in Int /\ f + 1 - a < 0 /\ f + 1 - a >= -Word
        /\ f + 1 - b \in Int /\ f + 1 - b < 0 /\ f + 1 - b >= -Word
    BY <1>2, EpochAssumption
  <2>2. Uint(f + 1 - a) = f + 1 - a + Word /\ Uint(f + 1 - b) = f + 1 - b + Word
    BY <2>1, UintWraps
  <2> QED BY <2>2, EpochAssumption DEF Proposal
<1> QED BY <1>1, <1>2, EpochAssumption

\* Two jobs for each round are that many events at least.
LEMMA TwoPerRound ==
    ASSUME NEW k \in Nat, jobs_per_round(k) > 1
    PROVE  k >= 2 * MAX_ROUNDS
BY EpochAssumption DEF jobs_per_round

\* The branch that switches the epoch is dead.
LEMMA NeverSwitch == ASSUME NEW k \in Nat PROVE Decision(k) \in {"propose", "count"}
BY EpochAssumption DEF Decision

----------------------------------------------------------------------------
(***************************************************************************)
(* The inductive invariant: the types of the parts of the state, what the  *)
(* listeners wait with, and the proposal as a function of the last epoch   *)
(* announced.                                                              *)
(***************************************************************************)

JobTypes ==
    /\ isLeader \in BOOLEAN
    /\ files \in Dirs \cup {<<>>}
    /\ reader \in Nat
    /\ jobRegistry \subseteq JobId
    /\ listening \subseteq DOMAIN files
    /\ recEvents \in Seq(JobId)

EngineTypes ==
    /\ start \in Stages
    /\ mu \in {"free", "leaked"} /\ loop \in {"running", "blocked"}
    /\ crashed \in BOOLEAN

EpochTypes ==
    /\ e \in 0..Word - 1 /\ ne \in 0..Word - 1 /\ new_e \in 0..Word - 1
    /\ n_e0 \in Nat
    /\ announcing \in Nat
    /\ announced \subseteq 0..Word - 1
    /\ received \in 0..MaxEpochMsgs

ListenersRegistered ==
    /\ reader = 0 => listening = {}
    /\ \A i \in listening : files[i].kind = "job" /\ files[i].id \in jobRegistry

ProposalIsLast == n_e0 > f => new_e = Proposal(ne)

IInv ==
    /\ JobTypes
    /\ EngineTypes
    /\ EpochTypes
    /\ ListenersRegistered
    /\ EventsRegistered
    /\ ProposalIsLast
    /\ CrashCauses

\* The invariant holds at the start.
LEMMA InitInv == Init => IInv
<1> SUFFICES ASSUME Init PROVE IInv
  OBVIOUS
<1>1. JobTypes
  <2>1. /\ files = <<>> /\ recEvents = <<>> /\ reader = 0 /\ isLeader = FALSE
        /\ jobRegistry = {} /\ listening = {}
    BY DEF Init
  <2>2. recEvents \in Seq(JobId)
    BY <2>1
  <2> QED BY <2>1, <2>2, Zenon DEF JobTypes
<1>2. EpochTypes /\ ProposalIsLast
  BY EpochAssumption DEF Init, EpochTypes, ProposalIsLast
<1>3. ListenersRegistered /\ EventsRegistered
  BY DEF Init, ListenersRegistered, EventsRegistered
<1>4. CrashCauses /\ EngineTypes
  BY DEF Init, CrashCauses, EngineTypes, Stages
<1> QED BY <1>1, <1>2, <1>3, <1>4 DEF IInv

\* What the handlers of jobs leave alone, and what the epoch handlers do.
LEMMA EpochFrame ==
    ASSUME IInv, UNCHANGED epochVars
    PROVE  (EpochTypes /\ ProposalIsLast)'
BY DEF IInv, EpochTypes, ProposalIsLast, epochVars

LEMMA JobFrame ==
    ASSUME IInv, UNCHANGED jobVars
    PROVE  (JobTypes /\ ListenersRegistered /\ EventsRegistered)'
BY DEF IInv, JobTypes, ListenersRegistered, EventsRegistered, jobVars

\* The directory, read or not, is a sequence of files.
LEMMA FilesType == JobTypes => files \in Seq(File)
<1>1. <<>> \in Seq(File)
  OBVIOUS
<1> QED BY <1>1, DirAssumption, Zenon DEF JobTypes

\* A file of the directory.
LEMMA FileTypes ==
    ASSUME JobTypes, NEW i \in DOMAIN files
    PROVE  files[i] \in File /\ files[i].id \in JobId /\ files[i].kind \in FileKind
<1>1. files \in Seq(File)
  BY FilesType
<1>2. files[i] \in File
  BY <1>1
<1> QED BY <1>2 DEF File

\* Reading a job registers it before its listener is started.
LEMMA ReadJobInv == ASSUME IInv, ReadJob PROVE IInv'
<1> DEFINE job == {i \in {reader} : files[i].kind = "job"}
<1>0. JobTypes /\ reader \in DOMAIN files /\ files[reader].id \in JobId
  BY FileTypes DEF IInv, ReadJob
<1>1. /\ jobRegistry' = jobRegistry \cup {files[i].id : i \in job}
      /\ listening' = listening \cup job
      /\ UNCHANGED <<isLeader, files, recEvents, start, mu, loop>>
      /\ reader' = reader + 1
  BY DEF ReadJob, NextFile, engVars
<1>2. JobTypes'
  BY <1>0, <1>1 DEF JobTypes
<1>3. ListenersRegistered' /\ EventsRegistered'
  BY <1>0, <1>1 DEF IInv, JobTypes, ListenersRegistered, EventsRegistered
<1>4. (EpochTypes /\ ProposalIsLast)'
  BY EpochFrame DEF ReadJob
<1>5. EngineTypes' /\ CrashCauses'
  BY <1>0, <1>1 DEF ReadJob, Panics, CrashCauses, IInv, EngineTypes
<1> QED BY <1>1, <1>2, <1>3, <1>4, <1>5 DEF IInv

\* An event is recorded for a job whose listener was waiting.
LEMMA ListenInv == ASSUME IInv, NEW i \in listening, Listen(i) PROVE IInv'
<1>0. /\ JobTypes /\ i \in DOMAIN files /\ files[i].id \in JobId
      /\ files[i].kind = "job" /\ files[i].id \in jobRegistry
  BY FileTypes DEF IInv, JobTypes, ListenersRegistered
<1>1. /\ listening' = listening \ {i}
      /\ UNCHANGED <<isLeader, files, reader, jobRegistry, start, mu, loop>>
  BY DEF Listen, RecordEvent, engVars
<1>2. \/ /\ files[i].tasks = 0 /\ crashed' = TRUE /\ recEvents' = recEvents
      \/ /\ recEvents' = Append(recEvents, files[i].id) /\ crashed' = crashed /\ ~crashed
  BY DEF Listen, RecordEvent
<1>3. /\ recEvents \in Seq(JobId)
      /\ Append(recEvents, files[i].id) \in Seq(JobId)
      /\ DOMAIN Append(recEvents, files[i].id) = 1..Len(recEvents) + 1
      /\ \A k \in 1..Len(recEvents) + 1 :
             Append(recEvents, files[i].id)[k] =
                 IF k = Len(recEvents) + 1 THEN files[i].id ELSE recEvents[k]
      /\ DOMAIN recEvents = 1..Len(recEvents)
      /\ Len(recEvents) \in Nat
  BY <1>0, AppendProperties DEF JobTypes
<1>4. JobTypes'
  BY <1>0, <1>1, <1>2, <1>3 DEF JobTypes
<1>5. ListenersRegistered'
  BY <1>1 DEF IInv, ListenersRegistered
<1>6. EventsRegistered'
  <2>1. \A k \in DOMAIN recEvents : recEvents[k] \in jobRegistry
    BY DEF IInv, EventsRegistered
  <2>2. CASE recEvents' = recEvents
    BY <2>1, <2>2, <1>1 DEF EventsRegistered
  <2>3. CASE recEvents' = Append(recEvents, files[i].id)
    <3> SUFFICES ASSUME NEW k \in 1..Len(recEvents) + 1
                 PROVE  Append(recEvents, files[i].id)[k] \in jobRegistry
      BY <2>3, <1>1, <1>3 DEF EventsRegistered
    <3> QED BY <2>1, <1>0, <1>3
  <2> QED BY <2>2, <2>3, <1>2
<1>7. (EpochTypes /\ ProposalIsLast)'
  BY EpochFrame DEF Listen, RecordEvent
<1>8. EngineTypes' /\ CrashCauses'
  <2>1. EngineTypes
    BY DEF IInv
  <2>2. CASE files[i].tasks = 0 /\ crashed' = TRUE
    BY <2>1, <2>2, <1>0, <1>1 DEF CrashCauses, EngineTypes
  <2>3. CASE crashed' = crashed /\ ~crashed
    BY <2>1, <2>3, <1>1 DEF CrashCauses, EngineTypes
  <2> QED BY <2>2, <2>3, <1>2
<1> QED BY <1>1, <1>4, <1>5, <1>6, <1>7, <1>8 DEF IInv

\* Only a leader with two rounds' worth of events panics in ReportingEngine.Start.
LEMMA ScheduleInv == ASSUME IInv, ScheduleJobs PROVE IInv'
<1>1. JobTypes /\ Len(recEvents) \in Nat /\ MAX_ROUNDS \in Nat \ {0}
  BY EpochAssumption DEF IInv, JobTypes
<1>2. crashed' => Len(recEvents) >= 2 * MAX_ROUNDS
  <2>1. crashed' => jobs_per_round(Len(recEvents)) > 1
    BY DEF ScheduleJobs
  <2> QED BY <1>1, <2>1, TwoPerRound
<1>3. crashed' \in BOOLEAN /\ start' = "scheduled" /\ UNCHANGED <<jobVars, engVars, epochVars>>
  BY DEF ScheduleJobs
<1>4. CrashCauses' /\ EngineTypes'
  BY <1>2, <1>3 DEF IInv, CrashCauses, EngineTypes, Stages, jobVars, engVars
<1> QED BY <1>3, <1>4, JobFrame, EpochFrame DEF IInv

\* The steps of Start and of the server loop that touch neither jobs nor epochs.
StageStep ==
    \/ FindLeader \/ EventsFound \/ AnnouncementSent \/ initReporter \/ SetReady \/ ReporterMsg

\* They keep the invariant.
LEMMA StageInv == ASSUME IInv, StageStep PROVE IInv'
<1>1. /\ UNCHANGED <<jobVars, crashed, epochVars>> /\ start' \in Stages
      /\ mu' \in {"free", "leaked"} /\ loop' \in {"running", "blocked"}
  BY DEF IInv, EngineTypes, StageStep, FindLeader, EventsFound, AnnouncementSent, initReporter,
         SetReady, ReporterMsg, Stages, engVars
<1>2. CrashCauses' /\ EngineTypes'
  BY <1>1 DEF IInv, CrashCauses, EngineTypes, jobVars
<1> QED BY <1>1, <1>2, JobFrame, EpochFrame DEF IInv

\* The statistics follow the last epoch announced, and the epoch stays.
LEMMA NewEpochInv ==
    ASSUME IInv, NEW e0 \in EpochIds, processNewEpochMsg(e0)
    PROVE  IInv'
<1> DEFINE decision == IF e0 > e THEN Decision(n_e0 + 1) ELSE "ignore"
<1>0. EpochTypes /\ e0 \in 0..Word - 1 /\ f \in Nat
  BY EpochAssumption DEF IInv
<1>1. decision \in {"ignore", "propose", "count"}
  BY <1>0, NeverSwitch DEF EpochTypes
<1>2. /\ decision = "count" => n_e0 + 1 <= f
      /\ decision \in {"count", "propose"} => e0 > e
  BY <1>0 DEF Decision, EpochTypes
<1>3. /\ received' = received + 1 /\ received < MaxEpochMsgs
      /\ ne' = (IF decision = "ignore" THEN ne ELSE e0)
      /\ n_e0' = (IF decision = "ignore" THEN n_e0 ELSE n_e0 + 1)
      /\ new_e' = (IF decision = "propose" THEN Proposal(e0) ELSE new_e)
      /\ e' = e /\ ~crashed /\ ~crashed'
      /\ announcing' = (IF decision = "propose" THEN announcing + 1 ELSE announcing)
      /\ UNCHANGED <<jobVars, start, engVars, announced>>
  BY <1>1 DEF processNewEpochMsg
<1>4. Proposal(e0) \in 0..Word - 1
  BY <1>0, UintInWord DEF Proposal
<1> HIDE DEF decision
<1>5. EpochTypes'
  BY <1>0, <1>1, <1>3, <1>4, EpochAssumption DEF EpochTypes
<1>6. ProposalIsLast'
  <2>0. n_e0 \in Nat /\ (n_e0 > f => new_e = Proposal(ne))
    BY <1>0 DEF IInv, ProposalIsLast, EpochTypes
  <2>1. CASE decision = "ignore"
    BY <2>0, <2>1, <1>3 DEF ProposalIsLast, Proposal, Uint
  <2>2. CASE decision = "propose"
    BY <2>2, <1>3 DEF ProposalIsLast, Proposal, Uint
  <2>3. CASE decision = "count"
    BY <2>0, <2>3, <1>0, <1>2, <1>3 DEF ProposalIsLast
  <2> QED BY <2>1, <2>2, <2>3, <1>1
<1>7. CrashCauses' /\ EngineTypes'
  BY <1>3 DEF IInv, CrashCauses, EngineTypes, engVars, processNewEpochMsg
<1> QED BY <1>3, <1>5, <1>6, <1>7, JobFrame DEF IInv

\* Every step keeps the invariant.
LEMMA NextInv == IInv /\ [Next]_vars => IInv'
<1> SUFFICES ASSUME IInv, [Next]_vars PROVE IInv'
  OBVIOUS
<1>1. CASE ReadJobsFromDir
  <2>1. /\ UNCHANGED <<isLeader, jobRegistry, listening, recEvents, start, mu, loop, crashed>>
        /\ UNCHANGED epochVars
        /\ files' \in Dirs /\ (reader' = Len(files') + 1 \/ reader' = 1)
        /\ reader = 0 /\ ~crashed
    BY <1>1 DEF ReadJobsFromDir, engVars
  <2>2. Len(files') \in Nat
    BY <2>1, DirAssumption
  <2>3. listening = {}
    BY <2>1 DEF IInv, ListenersRegistered
  <2>4. JobTypes'
    BY <2>1, <2>2, <2>3 DEF IInv, JobTypes
  <2>5. ListenersRegistered' /\ EventsRegistered' /\ CrashCauses' /\ EngineTypes'
    BY <2>1, <2>3
    DEF IInv, ListenersRegistered, EventsRegistered, CrashCauses, EngineTypes
  <2> QED BY <2>1, <2>4, <2>5, EpochFrame DEF IInv
<1>2. CASE ReadJob
  BY <1>2, ReadJobInv
<1>3. CASE \E i \in listening : Listen(i)
  BY <1>3, ListenInv
<1>4. CASE TakeRole
  <2>1. /\ UNCHANGED <<files, reader, jobRegistry, listening, recEvents, engVars, crashed, epochVars>>
        /\ isLeader' \in BOOLEAN /\ start' \in Stages
    BY <1>4 DEF TakeRole, Stages
  <2>2. JobTypes' /\ ListenersRegistered' /\ EventsRegistered'
    BY <2>1 DEF IInv, JobTypes, ListenersRegistered, EventsRegistered
  <2>3. CrashCauses' /\ EngineTypes'
    BY <2>1 DEF IInv, CrashCauses, EngineTypes, engVars
  <2> QED BY <2>1, <2>2, <2>3, EpochFrame DEF IInv
<1>5. CASE NoEventsInTime
  <2>1. /\ UNCHANGED <<jobVars, engVars, crashed, statVars, announcing, received>>
        /\ start' = "announcing" /\ announced' = announced \cup {e}
    BY <1>5 DEF NoEventsInTime
  <2>2. CrashCauses' /\ EngineTypes'
    BY <2>1 DEF IInv, CrashCauses, EngineTypes, Stages, jobVars, engVars
  <2>3. (EpochTypes /\ ProposalIsLast)'
    BY <2>1 DEF IInv, EpochTypes, ProposalIsLast, statVars
  <2> QED BY <2>1, <2>2, <2>3, JobFrame DEF IInv
<1>6. CASE ScheduleJobs
  BY <1>6, ScheduleInv
<1>7. CASE StageStep
  BY <1>7, StageInv
<1>8. CASE \E e0 \in EpochIds : processNewEpochMsg(e0)
  BY <1>8, NewEpochInv
<1>9. CASE SendNewEpochMsg
  <2>1. /\ UNCHANGED <<jobVars, start, engVars, crashed, statVars, received>>
        /\ announcing > 0 /\ announcing' = announcing - 1 /\ announced' = announced \cup {e}
    BY <1>9 DEF SendNewEpochMsg
  <2>2. CrashCauses' /\ EngineTypes'
    BY <2>1 DEF IInv, CrashCauses, EngineTypes, jobVars, engVars
  <2>3. (EpochTypes /\ ProposalIsLast)'
    BY <2>1 DEF IInv, EpochTypes, ProposalIsLast, statVars
  <2> QED BY <2>1, <2>2, <2>3, JobFrame DEF IInv
<1>10. CASE UNCHANGED vars
  <2>1. UNCHANGED <<jobVars, start, engVars, crashed, epochVars>>
    BY <1>10 DEF vars, jobVars, engVars, epochVars
  <2>2. CrashCauses' /\ EngineTypes'
    BY <2>1 DEF IInv, CrashCauses, EngineTypes, jobVars, engVars
  <2> QED BY <2>1, <2>2, JobFrame, EpochFrame DEF IInv
<1> QED
  BY <1>1, <1>2, <1>3, <1>4, <1>5, <1>6, <1>7, <1>8, <1>9, <1>10 DEF Next, StageStep

LEMMA Invariance == Spec => []IInv
BY InitInv, NextInv, PTL DEF Spec

----------------------------------------------------------------------------
\* The election inside Pacemaker.Start is the one LeaderSelection specifies: what
\* is proved of findLeader holds of the pacemaker.
THEOREM ElectsAsSpecified == Spec => ElectionSpec
<1>1. Init => ElectionInit
  BY DEF Init
<1>2. [Next]_vars => [ElectionNext]_electionVars
  <2> SUFFICES ASSUME [Next]_vars PROVE [ElectionNext]_electionVars
    OBVIOUS
  <2>1. CASE FindLeader \/ TakeRole
    BY <2>1 DEF FindLeader, TakeRole, ElectionNext
  <2>2. CASE ReadJobsFromDir \/ ReadJob \/ (\E i \in listening : Listen(i))
    BY <2>2 DEF ReadJobsFromDir, ReadJob, Listen
  <2>3. CASE \/ EventsFound \/ NoEventsInTime \/ AnnouncementSent \/ initReporter
             \/ ScheduleJobs \/ SetReady \/ ReporterMsg
    BY <2>3 DEF EventsFound, NoEventsInTime, AnnouncementSent, initReporter, ScheduleJobs,
                SetReady, ReporterMsg
  <2>4. CASE (\E e0 \in EpochIds : processNewEpochMsg(e0)) \/ SendNewEpochMsg
    BY <2>4 DEF processNewEpochMsg, SendNewEpochMsg
  <2>5. CASE UNCHANGED vars
    BY <2>5 DEF vars
  <2> QED BY <2>1, <2>2, <2>3, <2>4, <2>5 DEF Next
<1> QED BY <1>1, <1>2, PTL DEF Spec, ElectionSpec

\* Every variable of the pacemaker keeps its type, for any directory of jobs and
\* any announcements: the wrapped proposal too stays in its word.
THEOREM TypeCorrect == Spec => []TypeOK
<1>1. IInv /\ ElectionTypeOK => TypeOK
  BY DEF IInv, JobTypes, EngineTypes, EpochTypes, TypeOK
<1>2. ElectionSpec => []ElectionTypeOK
  <2>1. ScanIndInv => ElectionTypeOK
    BY DEF ScanIndInv
  <2> QED BY <2>1, ScanInit, ScanNext, PTL DEF ElectionSpec
<1> QED BY <1>1, <1>2, Invariance, ElectsAsSpecified, PTL

\* The job of every event can be looked up, however registration, listeners and
\* deadlines interleave.
THEOREM EventsAreRegistered == Spec => []EventsRegistered
<1>1. IInv => EventsRegistered
  BY DEF IInv
<1> QED BY <1>1, Invariance, PTL

\* Nothing but the three causes brings the process down.
THEOREM CrashesExplained == Spec => []CrashCauses
<1>1. IInv => CrashCauses
  BY DEF IInv
<1> QED BY <1>1, Invariance, PTL

\* A higher announcement lowers the proposal, except where it wraps.
THEOREM ProposalCountsDown == Spec => ProposalFalls
<1>1. ASSUME IInv, Next, n_e0 > f, ne' > ne
      PROVE  new_e' < new_e \/ (ne <= f + 1 /\ ne' > f + 1)
  <2>1. PICK e0 \in EpochIds : processNewEpochMsg(e0)
    <3>1. ne' # ne
      BY <1>1, EpochAssumption DEF IInv, EpochTypes
    <3> QED BY <1>1, <3>1
            DEF Next, FindLeader, TakeRole, ReadJobsFromDir, ReadJob, Listen, RecordEvent,
                EventsFound, NoEventsInTime, AnnouncementSent, initReporter, ScheduleJobs,
                SetReady, ReporterMsg, SendNewEpochMsg, epochVars, statVars
  <2>2. EpochTypes /\ f \in Nat /\ new_e = Proposal(ne) /\ e0 \in 0..Word - 1
    BY <1>1, EpochAssumption DEF IInv, ProposalIsLast
  <2>3. e0 > e /\ Decision(n_e0 + 1) = "propose"
    <3>1. e0 > e
      BY <1>1, <2>1, <2>2, EpochAssumption DEF processNewEpochMsg, EpochTypes
    <3> QED BY <1>1, <2>2, <3>1 DEF Decision, EpochTypes
  <2>4. ne' = e0 /\ new_e' = Proposal(e0)
    BY <2>1, <2>3 DEF processNewEpochMsg
  <2>5. ne \in 0..Word - 1
    BY <2>2 DEF EpochTypes
  <2> QED BY <1>1, <2>2, <2>4, <2>5, ProposalDecreases
<1>2. IInv /\ [Next]_vars =>
          [n_e0 > f /\ ne' > ne =>
              new_e' < new_e \/ (ne <= f + 1 /\ ne' > f + 1)]_vars
  BY <1>1
<1> QED BY <1>2, Invariance, PTL DEF Spec, ProposalFalls

----------------------------------------------------------------------------
(***************************************************************************)
(* The account of the jobs: each file that has been read is in one place.  *)
(***************************************************************************)

JobFiles == {i \in DOMAIN files : files[i].kind = "job"}
JobsRead == {i \in JobFiles : i < reader}
Readable == \A i \in DOMAIN files : files[i].kind # "unreadable"
Recorded(i) == \E k \in DOMAIN recEvents : recEvents[k] = files[i].id

\* No job gives two events.  When the directory has been read and no listener
\* waits any more, there is one event for each job file, although the reader, the
\* listeners and the goroutine that records run side by side.
EachJobHeardOnce ==
    /\ Len(recEvents) =< Cardinality(JobFiles)
    /\ Readable /\ ~crashed /\ reader > Len(files) /\ listening = {} =>
           /\ Len(recEvents) = Cardinality(JobFiles)
           /\ \A i \in JobFiles : Recorded(i)

\* Listeners and events together are the jobs read so far.
HeardInv ==
    /\ listening \subseteq JobsRead
    /\ Len(recEvents) + Cardinality(listening) =< Cardinality(JobsRead)
    /\ Readable /\ ~crashed =>
           /\ Len(recEvents) + Cardinality(listening) = Cardinality(JobsRead)
           /\ \A i \in JobsRead : i \in listening \/ Recorded(i)

\* The sets of files are finite.
LEMMA JobsFinite ==
    ASSUME JobTypes
    PROVE  /\ Len(files) \in Nat /\ DOMAIN files = 1..Len(files)
           /\ IsFiniteSet(JobFiles) /\ IsFiniteSet(JobsRead) /\ IsFiniteSet(listening)
           /\ Cardinality(JobFiles) \in Nat /\ Cardinality(JobsRead) \in Nat
           /\ Cardinality(listening) \in Nat
           /\ Cardinality(JobsRead) =< Cardinality(JobFiles)
<1>1. files \in Seq(File) /\ Len(files) \in Nat /\ DOMAIN files = 1..Len(files)
  <2>1. files \in Seq(File)
    BY FilesType
  <2> QED BY <2>1
<1>2. IsFiniteSet(DOMAIN files)
  <2>1. 1 \in Int /\ Len(files) \in Int
    BY <1>1
  <2> QED BY <1>1, <2>1, FS_Interval
<1>3. /\ JobFiles \in SUBSET DOMAIN files /\ JobsRead \in SUBSET JobFiles
      /\ listening \in SUBSET DOMAIN files
  BY DEF JobFiles, JobsRead, JobTypes
<1>4. IsFiniteSet(JobFiles) /\ IsFiniteSet(listening)
  BY <1>2, <1>3, FS_Subset
<1>5. IsFiniteSet(JobsRead) /\ Cardinality(JobsRead) =< Cardinality(JobFiles)
  BY <1>3, <1>4, FS_Subset
<1> QED BY <1>1, <1>4, <1>5, FS_CardinalityType

\* The jobs read are a number, before a step and after it.
LEMMA ReadCount == JobTypes => Cardinality(JobsRead) \in Nat
BY JobsFinite

\* A step that touches neither files nor events.
LEMMA HeardFrame ==
    ASSUME HeardInv, UNCHANGED <<files, reader, listening, recEvents>>, crashed => crashed'
    PROVE  HeardInv'
BY DEF HeardInv, JobsRead, JobFiles, Readable, Recorded

\* The first file is next, or the directory could not be read and there are no
\* listeners and no events.
LEMMA ReadDirHeard ==
    ASSUME IInv, HeardInv, ReadJobsFromDir
    PROVE  HeardInv'
<1>1. /\ reader = 0 /\ UNCHANGED <<listening, recEvents, crashed>>
      /\ reader' = 1 \/ ~Readable'
  BY DEF ReadJobsFromDir, Readable
<1>2. JobTypes /\ Len(recEvents) \in Nat
  BY DEF IInv, JobTypes
<1>3. JobsRead = {}
  BY <1>1, <1>2, JobsFinite DEF JobsRead, JobFiles
<1>4. listening = {} /\ Cardinality(listening) = 0 /\ Len(recEvents) = 0
  <2>1. listening = {}
    BY <1>3 DEF HeardInv
  <2>2. Cardinality({}) = 0
    BY FS_EmptySet
  <2> QED BY <1>2, <1>3, <2>1, <2>2 DEF HeardInv
<1>5. JobTypes'
  BY NextInv DEF IInv, Next
<1>6. (Cardinality(JobsRead) \in Nat)'
  BY <1>5, ReadCount, PTL
<1>7. CASE reader' = 1
  <2>1. DOMAIN files' = 1..Len(files') /\ Len(files') \in Nat
    BY <1>5, DirAssumption DEF JobTypes
  <2>2. JobsRead' = {}
    BY <1>7, <2>1 DEF JobsRead, JobFiles
  <2> QED BY <1>1, <1>3, <1>4, <2>2 DEF HeardInv
<1>8. CASE ~Readable'
  BY <1>1, <1>4, <1>6, <1>8 DEF HeardInv
<1> QED BY <1>1, <1>7, <1>8

\* A job that is read joins the listeners.
LEMMA ReadJobHeard ==
    ASSUME IInv, HeardInv, ReadJob
    PROVE  HeardInv'
<1>1. /\ UNCHANGED <<files, recEvents>> /\ ~crashed
      /\ reader \in DOMAIN files /\ reader' = reader + 1
      /\ listening' = listening \cup {i \in {reader} : files[i].kind = "job"}
  BY DEF ReadJob, NextFile
<1>2. JobTypes /\ Len(recEvents) \in Nat /\ reader \in Nat
  BY DEF IInv, JobTypes
<1>3. /\ DOMAIN files \subseteq Nat /\ IsFiniteSet(JobsRead) /\ IsFiniteSet(listening)
      /\ Cardinality(JobsRead) \in Nat /\ Cardinality(listening) \in Nat
  BY <1>2, JobsFinite
<1>4. Readable' = Readable /\ \A i : Recorded(i)' <=> Recorded(i)
  BY <1>1 DEF Readable, Recorded
<1>5. reader \notin JobsRead /\ reader \notin listening
  BY <1>2 DEF JobsRead, HeardInv
<1>6. CASE files[reader].kind = "job"
  <2>1. listening' = listening \cup {reader} /\ JobsRead' = JobsRead \cup {reader}
    BY <1>1, <1>2, <1>3, <1>6 DEF JobsRead, JobFiles
  <2>2. /\ Cardinality(listening') = Cardinality(listening) + 1
        /\ Cardinality(JobsRead') = Cardinality(JobsRead) + 1
    BY <1>3, <1>5, <2>1, FS_AddElement
  <2> QED BY <1>1, <1>2, <1>3, <1>4, <2>1, <2>2 DEF HeardInv
<1>7. CASE files[reader].kind # "job"
  <2>1. listening' = listening /\ JobsRead' = JobsRead
    BY <1>1, <1>2, <1>3, <1>7 DEF JobsRead, JobFiles
  <2> QED BY <1>1, <1>4, <2>1 DEF HeardInv
<1> QED BY <1>6, <1>7

\* A listener becomes an event, or brings the process down.
LEMMA ListenHeard ==
    ASSUME IInv, HeardInv, NEW i \in listening, Listen(i)
    PROVE  HeardInv'
<1>1. /\ UNCHANGED <<files, reader>> /\ ~crashed /\ listening' = listening \ {i}
      /\ \/ crashed' /\ recEvents' = recEvents
         \/ recEvents' = Append(recEvents, files[i].id)
  BY DEF Listen, RecordEvent
<1>2. JobTypes /\ recEvents \in Seq(JobId) /\ Len(recEvents) \in Nat /\ files[i].id \in JobId
  BY FileTypes DEF IInv, JobTypes
<1>3. /\ IsFiniteSet(listening) /\ Cardinality(listening) \in Nat
      /\ Cardinality(JobsRead) \in Nat
  BY <1>2, JobsFinite
<1>4. JobsRead' = JobsRead /\ Readable' = Readable
  BY <1>1 DEF JobsRead, JobFiles, Readable
<1>5. Cardinality(listening') = Cardinality(listening) - 1
  BY <1>1, <1>3, FS_RemoveElement
<1>6. CASE crashed' /\ recEvents' = recEvents
  BY <1>1, <1>2, <1>3, <1>4, <1>5, <1>6 DEF HeardInv
<1>7. CASE recEvents' = Append(recEvents, files[i].id)
  <2>1. /\ Len(recEvents') = Len(recEvents) + 1
        /\ DOMAIN recEvents = 1..Len(recEvents)
        /\ DOMAIN recEvents' = 1..Len(recEvents) + 1
        /\ \A k \in 1..Len(recEvents) : recEvents'[k] = recEvents[k]
        /\ recEvents'[Len(recEvents) + 1] = files[i].id
    BY <1>2, <1>7, AppendProperties
  <2>2. Recorded(i)' /\ \A j : Recorded(j) => Recorded(j)'
    BY <1>1, <1>2, <2>1 DEF Recorded
  <2>3. Len(recEvents') + Cardinality(listening') = Len(recEvents) + Cardinality(listening)
    BY <1>2, <1>3, <1>5, <2>1
  <2> QED BY <1>1, <1>4, <2>2, <2>3 DEF HeardInv
<1> QED BY <1>1, <1>6, <1>7

\* The account holds always.
LEMMA HeardInvariance == Spec => []HeardInv
<1>1. Init => HeardInv
  <2> SUFFICES ASSUME Init PROVE HeardInv
    OBVIOUS
  <2>1. JobTypes /\ listening = {} /\ recEvents = <<>> /\ reader = 0
    BY InitInv DEF Init, IInv
  <2>2. JobsRead = {}
    BY <2>1, JobsFinite DEF JobsRead, JobFiles
  <2>3. Cardinality({}) = 0 /\ Len(recEvents) = 0
    BY <2>1, FS_EmptySet
  <2> QED BY <2>1, <2>2, <2>3 DEF HeardInv
<1>2. IInv /\ HeardInv /\ [Next]_vars => HeardInv'
  <2> SUFFICES ASSUME IInv, HeardInv, [Next]_vars PROVE HeardInv'
    OBVIOUS
  <2>1. CASE \/ FindLeader \/ TakeRole \/ EventsFound \/ NoEventsInTime \/ AnnouncementSent
             \/ initReporter \/ ScheduleJobs \/ SetReady \/ ReporterMsg \/ SendNewEpochMsg
             \/ \E e0 \in EpochIds : processNewEpochMsg(e0)
    <3>1. UNCHANGED <<files, reader, listening, recEvents>> /\ ~crashed
      BY <2>1 DEF FindLeader, TakeRole, EventsFound, NoEventsInTime, AnnouncementSent,
                  initReporter, ScheduleJobs, SetReady, ReporterMsg, SendNewEpochMsg,
                  processNewEpochMsg, jobVars
    <3> QED BY <3>1, HeardFrame
  <2>2. CASE UNCHANGED vars
    BY <2>2, HeardFrame DEF vars
  <2> QED BY <2>1, <2>2, ReadDirHeard, ReadJobHeard, ListenHeard DEF Next
<1> QED BY <1>1, <1>2, Invariance, PTL DEF Spec

\* Every job of any directory is heard at most once, and exactly once when nothing
\* is left to read and to listen to.
THEOREM JobsHeardOnce == Spec => []EachJobHeardOnce
<1>1. IInv /\ HeardInv => EachJobHeardOnce
  <2> SUFFICES ASSUME IInv, HeardInv PROVE EachJobHeardOnce
    OBVIOUS
  <2>1. JobTypes /\ Len(recEvents) \in Nat /\ reader \in Nat
    BY DEF IInv, JobTypes
  <2>2. /\ Cardinality(JobFiles) \in Nat /\ Cardinality(JobsRead) \in Nat
        /\ Cardinality(listening) \in Nat
        /\ Cardinality(JobsRead) =< Cardinality(JobFiles)
        /\ Len(files) \in Nat /\ DOMAIN files = 1..Len(files)
    BY <2>1, JobsFinite
  <2>3. Len(recEvents) =< Cardinality(JobFiles)
    BY <2>1, <2>2 DEF HeardInv
  <2>4. ASSUME Readable, ~crashed, reader > Len(files), listening = {}
        PROVE  Len(recEvents) = Cardinality(JobFiles) /\ \A i \in JobFiles : Recorded(i)
    <3>1. JobsRead = JobFiles
      BY <2>1, <2>2, <2>4 DEF JobsRead, JobFiles
    <3>2. Cardinality({}) = 0
      BY FS_EmptySet
    <3> QED BY <2>1, <2>2, <2>4, <3>1, <3>2 DEF HeardInv
  <2> QED BY <2>3, <2>4 DEF EachJobHeardOnce
<1> QED BY <1>1, Invariance, HeardInvariance, PTL
=============================================================================
