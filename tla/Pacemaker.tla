----------------------------- MODULE Pacemaker -----------------------------
(***************************************************************************)
(* One node's pacemaker (ocr/pacemaker.go) from its election on: Start     *)
(* calls exponentialBackoff (LeaderSelection), a leader reads its job      *)
(* files and waits for their events, every node hands over to its          *)
(* reporting engine (ocr/reporter.go, of which only re.mu is here), and    *)
(* NEWEPOCH messages update the statistics that are to decide about the    *)
(* next epoch.                                                             *)
(*                                                                         *)
(* NEWEPOCH messages may name any epoch.  The ones nodes of this commit    *)
(* send lack the outer envelope and do not decode where they arrive, or    *)
(* carry epoch 0.  One that comes before SetOCRContext, which runs before  *)
(* Start, would make ProcessMessage read a nil ocrCtx; that is outside.    *)
(***************************************************************************)
EXTENDS LeaderSelection, Integers, Sequences, FiniteSets

CONSTANTS
    JobId,        \* the ids of jobs
    Dirs,         \* the contents the job directory may have
    f,            \* currEpochStat.f
    EpochIds,     \* the epochs NEWEPOCH messages may name
    Word,         \* how many values the epoch counters have, 2^64 in the code
    MAX_ROUNDS,   \* rounds of an epoch, 10 in the code
    MaxEpochMsgs  \* bound: NEWEPOCH messages received in a behaviour

\* What ReadJobsFromDir and JobReaderFactory.Read can make of an entry; tasks is
\* the length of the job's observationSource.
FileKind == {"subdir", "unreadable", "malformed", "unsupported", "job"}
File == [kind : FileKind, id : JobId, tasks : Nat]

ASSUME DirAssumption == Dirs \subseteq Seq(File)
ASSUME EpochAssumption ==
    /\ f \in Nat /\ Word \in Nat /\ f + 1 < Word /\ MAX_ROUNDS \in Nat \ {0}
    /\ EpochIds \subseteq 0..Word - 1
    /\ MaxEpochMsgs \in Nat

VARIABLES
    isLeader,     \* the outcome of the election
    files,        \* the job directory as ReadJobsFromDir found it
    reader,       \* where launchJobListeners is: the file it reads next, 0
                  \*   before ReadJobsFromDir, past the end when it has returned
    jobRegistry,  \* p.jobRegistry: the ids it has a job for
    listening,    \* the files whose jobs' Listen waits to send its event
    recEvents,    \* p.recEvents: the job ids of the events, in order
    start,        \* where Pacemaker.Start and, after it, Reporter.Start are
    mu,           \* re.mu between two calls: "free", or "leaked" for good
    loop,         \* the server loop: "running", or "blocked" for good
    crashed,      \* has a goroutine panicked?
    e, ne, n_e0, new_e,   \* the fields of currEpochStat
    announcing,   \* how many goroutines are about to run SendNewEpochMsg
    announced,    \* the epochs SendNewEpochMsg has broadcast
    received      \* how many NEWEPOCH messages have been processed

jobVars   == <<isLeader, files, reader, jobRegistry, listening, recEvents>>
engVars   == <<mu, loop>>
statVars  == <<e, ne, n_e0, new_e>>
epochVars == <<e, ne, n_e0, new_e, announcing, announced, received>>
vars      == <<electionVars, isLeader, files, reader, jobRegistry, listening, recEvents, start,
               mu, loop, crashed, e, ne, n_e0, new_e, announcing, announced, received>>

Init ==
    /\ ElectionInit
    /\ isLeader = FALSE
    /\ files = <<>>
    /\ reader = 0
    /\ jobRegistry = {}
    /\ listening = {}
    /\ recEvents = <<>>
    /\ start = "electing"
    /\ mu = "free" /\ loop = "running"
    /\ crashed = FALSE
    /\ e = 0 /\ ne = 0 /\ n_e0 = 0 /\ new_e = 0
    /\ announcing = 0
    /\ announced = {}
    /\ received = 0

(***************************************************************************)
(* The election and the role.                                              *)
(***************************************************************************)

FindLeader ==
    /\ ~crashed
    /\ start = "electing"
    /\ Electing
    /\ UNCHANGED <<jobVars, start, engVars, crashed, epochVars>>

\* Start compares the leader's ServerID with its own; a name the leader gets
\* after the scan is not the caller's.
TakeRole ==
    /\ ~crashed
    /\ start = "electing"
    /\ ElectionReturns
    /\ isLeader' = (result = self)
    /\ start' = IF result = self THEN "waiting" ELSE "handover"
    /\ UNCHANGED <<files, reader, jobRegistry, listening, recEvents, engVars, crashed, epochVars>>

(***************************************************************************)
(* The leader's jobs.                                                      *)
(***************************************************************************)

\* All files are opened before the first is read; one that cannot be opened
\* fails the whole directory.
ReadJobsFromDir ==
    /\ ~crashed
    /\ isLeader
    /\ reader = 0
    /\ \E d \in Dirs :
           /\ files' = d
           /\ reader' = IF \E i \in DOMAIN d : d[i].kind = "unreadable" THEN Len(d) + 1 ELSE 1
    /\ UNCHANGED <<electionVars, isLeader, jobRegistry, listening, recEvents, start, engVars,
                   crashed, epochVars>>

\* Mutant: a malformed file yields no job, and its error is not looked at.
PanicsOnError(file) == file.kind \in {"unsupported", "malformed"}

\* For a type it does not support Read returns no job and no error, and job.ID()
\* panics.
Panics(file) == file.kind = "unsupported"

\* Mutant: launchJobListeners returns on a file it cannot parse.
NextFileOrReturn(i) == IF files[i].kind = "malformed" THEN Len(files) + 1 ELSE i + 1

\* There is no reader for a subdirectory; a file that does not parse is skipped.
NextFile(i) == i + 1

\* Mutant: a job is registered after its listener has been started.
ReadJobListensFirst ==
    /\ ~crashed
    /\ reader \in DOMAIN files
    /\ reader' = NextFile(reader)
    /\ crashed' = Panics(files[reader])
    /\ jobRegistry' = jobRegistry \cup
                         {files[i].id : i \in {k \in 1..(reader - 1) : files[k].kind = "job"}}
    /\ listening' = listening \cup {i \in {reader} : files[i].kind = "job"}
    /\ UNCHANGED <<electionVars, isLeader, files, recEvents, start, engVars, epochVars>>

\* One turn of the loop of launchJobListeners.
ReadJob ==
    /\ ~crashed
    /\ reader \in DOMAIN files
    /\ reader' = NextFile(reader)
    /\ crashed' = Panics(files[reader])
    /\ LET job == {i \in {reader} : files[i].kind = "job"} IN
           /\ jobRegistry' = jobRegistry \cup {files[i].id : i \in job}
           /\ listening' = listening \cup job
    /\ UNCHANGED <<electionVars, isLeader, files, recEvents, start, engVars, epochVars>>

\* The goroutine of Start takes an event from recEventsChan.  Its other cases
\* wait for timers that never tick and for quitCh, which nobody closes.
RecordEvent(id) == recEvents' = Append(recEvents, id)

\* Listen asks for a result before any run and panics on a job without tasks;
\* recEventsChan has no buffer, so its send is the receive of RecordEvent.
Listen(i) ==
    /\ ~crashed
    /\ i \in listening
    /\ listening' = listening \ {i}
    /\ IF files[i].tasks = 0
       THEN crashed' = TRUE /\ UNCHANGED recEvents
       ELSE RecordEvent(files[i].id) /\ UNCHANGED crashed
    /\ UNCHANGED <<electionVars, isLeader, files, reader, jobRegistry, start, engVars, epochVars>>

(***************************************************************************)
(* Start, from the role on.                                                *)
(***************************************************************************)

\* A poll of waitForEvents finds an event.
EventsFound ==
    /\ ~crashed
    /\ start = "waiting"
    /\ recEvents # <<>>
    /\ start' = "handover"
    /\ UNCHANGED <<electionVars, jobVars, engVars, crashed, epochVars>>

\* Mutant: the deadline is not looked at.
NoEventsInTimeWaits ==
    /\ ~crashed
    /\ start = "waiting"
    /\ recEvents # <<>>
    /\ start' = "announcing"
    /\ announced' = announced \cup {e}
    /\ UNCHANGED <<electionVars, jobVars, engVars, crashed, statVars, announcing, received>>

\* The deadline has passed since the last poll; an event may have come between.
\* Start itself calls SendNewEpochMsg.
NoEventsInTime ==
    /\ ~crashed
    /\ start = "waiting"
    /\ start' = "announcing"
    /\ announced' = announced \cup {e}
    /\ UNCHANGED <<electionVars, jobVars, engVars, crashed, statVars, announcing, received>>

\* The broadcast writes to one stream after the other; a write waits while the
\* recipient does not read (SendReturns of Transport).
AnnouncementSent ==
    /\ ~crashed
    /\ start = "announcing"
    /\ start' = "handover"
    /\ UNCHANGED <<electionVars, jobVars, engVars, crashed, epochVars>>

\* initReporter needs re.mu.
initReporter ==
    /\ ~crashed
    /\ start = "handover"
    /\ mu = "free"
    /\ start' = "initialized"
    /\ UNCHANGED <<electionVars, jobVars, engVars, crashed, epochVars>>

jobs_per_round(k) == k \div MAX_ROUNDS

\* Two seconds later ReportingEngine.Start, with the events there are then: the
\* first one it takes for a round is no jobs.Job and the type assertion panics
\* (StartPanics of Reporting).
ScheduleJobs ==
    /\ ~crashed
    /\ start = "initialized"
    /\ start' = "scheduled"
    /\ crashed' = (isLeader /\ jobs_per_round(Len(recEvents)) > 1)
    /\ UNCHANGED <<electionVars, jobVars, engVars, epochVars>>

\* The end of it, which needs re.mu once more.
SetReady ==
    /\ ~crashed
    /\ start = "scheduled"
    /\ mu = "free"
    /\ start' = "ready"
    /\ UNCHANGED <<electionVars, jobVars, engVars, crashed, epochVars>>

\* The server loop gives the engine a message.  One that comes too early leaves
\* re.mu locked, the next one waits for it on the server loop; an engine that is
\* ready can be stuck with its answer.  (A message that does neither changes
\* nothing here.)
ReporterMsg ==
    /\ ~crashed
    /\ loop = "running"
    /\ IF start # "ready" /\ mu = "free"
       THEN mu' = "leaked" /\ UNCHANGED loop
       ELSE loop' = "blocked" /\ UNCHANGED mu
    /\ UNCHANGED <<electionVars, jobVars, start, crashed, epochVars>>

(***************************************************************************)
(* Epoch statistics.                                                       *)
(***************************************************************************)

\* Mutant: signed arithmetic.
UintSigned(k) == k

Uint(k) == k % Word

\* Mutant: the successor of the announced epoch.
ProposalNext(e0) == Uint(e0 + 1)

\* newEpoch, from the last epoch announced.
Proposal(e0) == Uint(f + 1 - e0)

\* What an announcement leads to that is the count-th of a newer epoch.
Decision(count) ==
    IF count > f THEN "propose" ELSE IF count > 2 * f THEN "switch" ELSE "count"

\* The epoch switchToNewEpoch would set.  It also resets the counters, and
\* Reporter.Stop then closes a channel that was never made, which panics.
switchToNewEpoch(e0) == Uint(2 * f + 1 - e0)

\* On the server loop.
processNewEpochMsg(e0) ==
    LET decision == IF e0 > e THEN Decision(n_e0 + 1) ELSE "ignore" IN
    /\ ~crashed
    /\ loop = "running"
    /\ received < MaxEpochMsgs
    /\ received' = received + 1
    /\ ne' = IF decision = "ignore" THEN ne ELSE e0
    /\ n_e0' = CASE decision = "ignore" -> n_e0
               [] decision = "switch" -> 0
               [] OTHER -> n_e0 + 1
    /\ new_e' = CASE decision = "propose" -> Proposal(e0)
                [] decision = "switch" -> 0
                [] OTHER -> new_e
    /\ e' = IF decision = "switch" THEN switchToNewEpoch(e0) ELSE e
    /\ crashed' = (decision = "switch")
    /\ announcing' = IF decision = "propose" THEN announcing + 1 ELSE announcing
    /\ UNCHANGED <<electionVars, jobVars, start, engVars, announced>>

\* The goroutine broadcasts currEpochStat.e as it is by now.
SendNewEpochMsg ==
    /\ ~crashed
    /\ announcing > 0
    /\ announcing' = announcing - 1
    /\ announced' = announced \cup {e}
    /\ UNCHANGED <<electionVars, jobVars, start, engVars, crashed, statVars, received>>

----------------------------------------------------------------------------
Next ==
    \/ FindLeader
    \/ TakeRole
    \/ ReadJobsFromDir
    \/ ReadJob
    \/ \E i \in listening : Listen(i)
    \/ EventsFound
    \/ NoEventsInTime
    \/ AnnouncementSent
    \/ initReporter
    \/ ScheduleJobs
    \/ SetReady
    \/ ReporterMsg
    \/ \E e0 \in EpochIds : processNewEpochMsg(e0)
    \/ SendNewEpochMsg

\* Goroutines run and deadlines pass.  No message is assumed to arrive, and no
\* broadcast of an announcement to end.
Fairness ==
    /\ WF_vars(FindLeader) /\ WF_vars(TakeRole)
    /\ WF_vars(ReadJobsFromDir) /\ WF_vars(ReadJob)
    /\ WF_vars(\E i \in listening : Listen(i))
    /\ WF_vars(EventsFound \/ NoEventsInTime)
    /\ WF_vars(initReporter) /\ WF_vars(ScheduleJobs) /\ WF_vars(SetReady)

Spec == Init /\ [][Next]_vars
FairSpec == Spec /\ Fairness

----------------------------------------------------------------------------
(***************************************************************************)
(* Properties                                                              *)
(***************************************************************************)

Stages ==
    {"electing", "waiting", "announcing", "handover", "initialized", "scheduled", "ready"}
TypeOK ==
    /\ ElectionTypeOK
    /\ isLeader \in BOOLEAN
    /\ files \in Dirs \cup {<<>>}
    /\ reader \in Nat
    /\ jobRegistry \subseteq JobId
    /\ listening \subseteq DOMAIN files
    /\ recEvents \in Seq(JobId)
    /\ start \in Stages
    /\ mu \in {"free", "leaked"} /\ loop \in {"running", "blocked"}
    /\ crashed \in BOOLEAN
    /\ e \in 0..Word - 1 /\ ne \in 0..Word - 1 /\ new_e \in 0..Word - 1
    /\ n_e0 \in Nat
    /\ announcing \in Nat
    /\ announced \subseteq 0..Word - 1
    /\ received \in 0..MaxEpochMsgs

\* The job of a recorded event can be looked up: jobRegistry "used to query the
\* job info when an event is received" is filled before the job's listener runs.
EventsRegistered ==
    \A k \in DOMAIN recEvents : recEvents[k] \in jobRegistry

\* newEpoch counts down: when a higher epoch is announced the proposal gets lower,
\* and where it should go below zero it wraps to the top of its width.
ProposalFalls ==
    [][n_e0 > f /\ ne' > ne =>
          new_e' < new_e \/ (ne <= f + 1 /\ ne' > f + 1)]_vars

\* What brings a leader down: a job of an unsupported type, a job without tasks,
\* or 2 * MAX_ROUNDS events.  A file that is malformed does not.
CrashCauses ==
    crashed =>
        \/ \E i \in DOMAIN files :
               \/ files[i].kind = "unsupported"
               \/ files[i].kind = "job" /\ files[i].tasks = 0
        \/ Len(recEvents) >= 2 * MAX_ROUNDS

\* A leader with jobs it can read comes to record an event for each of them, in
\* whatever order its files, timeouts and NEWEPOCH messages come.
JobsHeard ==
    isLeader /\ reader # 0 /\ (\A i \in DOMAIN files : files[i].kind # "unreadable")
        ~> \/ crashed
           \/ \A i \in DOMAIN files :
                  files[i].kind = "job" => \E k \in DOMAIN recEvents : recEvents[k] = files[i].id

\* A node that has a peer when it calls findLeader gets its reporting engine
\* ready, with jobs or without, whatever epochs are announced, unless a request
\* came too early and has left re.mu locked, or its own announcement never gets
\* out.
ReporterStarts ==
    peers # {} ~> crashed \/ start = "ready" \/ mu = "leaked" \/ [](start = "announcing")

(***************************************************************************)
(* What a comment in the code says, and the code does not keep.            *)
(***************************************************************************)

\* ocr/pacemaker.go, of more than 2f announcements: "suspend current RE / update
\* current epoch to new epoch".  The switch starts the count anew, so that no
\* node counts more than 2f.
SwitchesEpoch == n_e0 =< 2 * f
=============================================================================
