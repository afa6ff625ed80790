---------------------------- MODULE Observation ----------------------------
(***************************************************************************)
(* How a follower observes the jobs of an ObserveReq and reports on them:  *)
(* the fan-out in ReportingEngine.ProcessMessage (ocr/reporter.go), the    *)
(* tasks of a DirectRequest (ocr/jobs/direct_req.go), and what a ReportReq *)
(* then meets.  One request; its jobs run in goroutines of their own.      *)
(* The requests with jobs are those the handler is written for: the leader *)
(* of this version panics before it schedules one (see Reporting).         *)
(*                                                                         *)
(* Of a value only what tasks and MeanValueAssembler distinguish is kept.  *)
(* A text is that of a JSON object; a "numeral", which strconv.ParseFloat  *)
(* and json.Unmarshal read as a number; "special", which only ParseFloat   *)
(* does (NaN, Inf, 0x1p4); or a "word", which ParseFloat refuses.  Other   *)
(* values are a finite float64, a float64 that is NaN or infinite, or the  *)
(* rest of JSON.                                                           *)
(***************************************************************************)
EXTENDS Integers, Sequences, Functions

CONSTANTS
    Name,      \* the names of tasks
    Requests,  \* the jobs an ObserveReq may carry, as sequences of Info
    MaxJobs    \* bound: the jobs of one request

TaskType == {"http", "json", "math", "log", "other"}
Task == [type : TaskType, name : Name, input : Name]
\* JobInfo: known is whether NewJobFromInfo has a type for it, mean whether the
\* template names the one strategy there is.
Info == [known : BOOLEAN, mean : BOOLEAN, tasks : Seq(Task)]

ASSUME RequestAssumption ==
    /\ MaxJobs \in Nat
    /\ Requests \subseteq Seq(Info)
    /\ \A q \in Requests : Len(q) <= MaxJobs

Text == {"object", "numeral", "special", "word"}
JsonValue == Text \cup {"number", "other"}
Value == JsonValue \cup {"nonfinite"}

VARIABLES
    msgJobs,      \* msg.Jobs
    handler,      \* the handler: "creating", "waiting", "answered" or "returned"
    jobs,         \* cacheLayer.jobs: how many have been created and started
    at,           \* at[i]: the task job i is at, past the last when Run is through
    calling,      \* the jobs in the middle of http.Get
    Results,      \* Results[i]: the results of job i so far
    expired,      \* the jobs whose context is done
    resChan,      \* the jobs with a result, as <<position, value>>, in order
    errChan,      \* the jobs with an error, in order
    reported,     \* has a ReportReq been answered?
    crashed       \* has the process panicked?

chanVars == <<resChan, errChan>>
vars == <<msgJobs, handler, jobs, at, calling, Results, expired, resChan, errChan,
          reported, crashed>>

tasks(i) == msgJobs[i].tasks
NoResults == [k \in {} |-> "other"]

Init ==
    /\ msgJobs \in Requests
    /\ handler = "creating"
    /\ jobs = 0
    /\ at = [i \in DOMAIN msgJobs |-> 1]
    /\ calling = {}
    /\ Results = [i \in DOMAIN msgJobs |-> NoResults]
    /\ expired = {}
    /\ resChan = <<>>
    /\ errChan = <<>>
    /\ reported = FALSE
    /\ crashed = FALSE

\* wg.Done has been called for job i.
Done(i) == i \in Range(errChan) \/ \E r \in Range(resChan) : r[1] = i
\* The goroutine of job i is between two tasks, or after the last.
Running(i) == ~crashed /\ i \in 1..jobs /\ i \notin calling /\ ~Done(i)

(***************************************************************************)
(* The handler.                                                            *)
(***************************************************************************)

\* NewJobFromInfo.  An unknown type ends the handler, without an answer; the
\* jobs already started run on.
NewJobFromInfo ==
    /\ ~crashed
    /\ handler = "creating"
    /\ jobs < Len(msgJobs)
    /\ IF msgJobs[jobs + 1].known
       THEN jobs' = jobs + 1 /\ UNCHANGED handler
       ELSE handler' = "returned" /\ UNCHANGED jobs
    /\ UNCHANGED <<msgJobs, at, calling, Results, expired, chanVars, reported, crashed>>

Wait ==
    /\ ~crashed
    /\ handler = "creating"
    /\ jobs = Len(msgJobs)
    /\ handler' = "waiting"
    /\ UNCHANGED <<msgJobs, jobs, at, calling, Results, expired, chanVars,
                   reported, crashed>>

\* Mutant: the results there are, whatever failed.
RespondAnyway ==
    /\ ~crashed
    /\ handler = "waiting"
    /\ \A i \in DOMAIN msgJobs : Done(i)
    /\ handler' = "answered"
    /\ UNCHANGED <<msgJobs, jobs, at, calling, Results, expired, chanVars,
                   reported, crashed>>

\* All goroutines are through.  One error, and nothing is sent.
Respond ==
    /\ ~crashed
    /\ handler = "waiting"
    /\ \A i \in DOMAIN msgJobs : Done(i)
    /\ handler' = IF errChan = <<>> THEN "answered" ELSE "returned"
    /\ UNCHANGED <<msgJobs, jobs, at, calling, Results, expired, chanVars,
                   reported, crashed>>

(***************************************************************************)
(* DirectRequest.Run and Result, in the goroutine of job i.                *)
(***************************************************************************)

\* Run looks at the context before each task.
Ready(i) == Running(i) /\ at[i] <= Len(tasks(i)) /\ i \notin expired

Fail(i) == errChan' = Append(errChan, i) /\ UNCHANGED <<at, Results>>

Store(i, v) ==
    /\ Results' = [Results EXCEPT ![i] =
           [k \in DOMAIN @ \cup {tasks(i)[at[i]].name} |->
               IF k = tasks(i)[at[i]].name THEN v ELSE @[k]]]
    /\ at' = [at EXCEPT ![i] = @ + 1]
    /\ UNCHANGED errChan

\* Mutant: input that is no number is passed on.
MathLenient(v) == {v}

\* What float64 of the input times the factor can be, text being parsed; for any
\* other input nothing, which is an error.  A product may overflow.
Math(v) ==
    CASE v \in {"number", "numeral", "special"} -> {"number", "nonfinite"}
      [] v = "nonfinite" -> {"nonfinite"}
      [] v \in {"object", "word", "other"} -> {}

\* A missing result is the nil interface, which is neither text nor a float.
Input(i) ==
    LET input == tasks(i)[at[i]].input IN
    IF input \in DOMAIN Results[i] THEN Results[i][input] ELSE "other"

\* http.Get is called without the job's context: nothing bounds it.
HttpCall(i) ==
    /\ Ready(i)
    /\ tasks(i)[at[i]].type = "http"
    /\ calling' = calling \cup {i}
    /\ UNCHANGED <<msgJobs, handler, jobs, at, Results, expired, chanVars,
                   reported, crashed>>

HttpReturns(i) ==
    /\ ~crashed
    /\ i \in calling
    /\ calling' = calling \ {i}
    /\ Fail(i) \/ \E v \in Text : Store(i, v)
    /\ UNCHANGED <<msgJobs, handler, jobs, expired, resChan, reported, crashed>>

\* The other task types.  A key of the object may hold anything, or be missing.
Execute(i) ==
    LET type == tasks(i)[at[i]].type IN
    /\ Ready(i)
    /\ type # "http"
    /\ CASE type = "json" ->
              IF Input(i) = "object"
              THEN Fail(i) \/ \E v \in JsonValue : Store(i, v)
              ELSE Fail(i)
         [] type = "math" ->
              IF Math(Input(i)) = {} THEN Fail(i) ELSE \E v \in Math(Input(i)) : Store(i, v)
         [] type = "log" -> at' = [at EXCEPT ![i] = @ + 1] /\ UNCHANGED <<Results, errChan>>
         [] type = "other" -> Fail(i)
    /\ UNCHANGED <<msgJobs, handler, jobs, calling, expired, resChan, reported, crashed>>

\* Mutant: one context for the whole request, made before its jobs.
ExpireShared(i) ==
    /\ ~crashed
    /\ i \notin expired
    /\ expired' = expired \cup {i}
    /\ UNCHANGED <<msgJobs, handler, jobs, at, calling, Results, chanVars,
                   reported, crashed>>

\* The deadline passes: at once for the timeout 0 of a job read from a file.
Expire(i) ==
    /\ ~crashed
    /\ i \in 1..jobs \ expired
    /\ expired' = expired \cup {i}
    /\ UNCHANGED <<msgJobs, handler, jobs, at, calling, Results, chanVars,
                   reported, crashed>>

\* Mutant: a cancelled run leaves without an error and without wg.Done.
RunCancelledSilently(i) ==
    /\ Running(i)
    /\ at[i] <= Len(tasks(i))
    /\ i \in expired
    /\ UNCHANGED vars

RunCancelled(i) ==
    /\ Running(i)
    /\ at[i] <= Len(tasks(i))
    /\ i \in expired
    /\ Fail(i)
    /\ UNCHANGED <<msgJobs, handler, jobs, calling, expired, resChan, reported, crashed>>

\* "mean" is the one strategy there is an assembler for.
NewReportAssembler(i) == msgJobs[i].mean

\* Sprintf("%v"): text as it is, NaN and Inf by their names, and maps, slices,
\* booleans and nil as Go prints them.
Format(v) ==
    CASE v \in Text -> v
      [] v = "number" -> "numeral"
      [] v = "nonfinite" -> "special"
      [] v = "other" -> "word"

\* The end of Run, and Result: the text of the last task's result, if it has one.
\* A job without tasks has no last task, and the index panics.
Result(i) ==
    /\ Running(i)
    /\ at[i] > Len(tasks(i))
    /\ IF ~NewReportAssembler(i)
       THEN Fail(i) /\ UNCHANGED <<resChan, crashed>>
       ELSE IF tasks(i) = <<>>
       THEN crashed' = TRUE /\ UNCHANGED <<at, Results, chanVars>>
       ELSE LET last == tasks(i)[Len(tasks(i))].name IN
            IF last \in DOMAIN Results[i]
            THEN /\ resChan' = Append(resChan, <<i, Format(Results[i][last])>>)
                 /\ UNCHANGED <<at, Results, errChan, crashed>>
            ELSE Fail(i) /\ UNCHANGED <<resChan, crashed>>
    /\ UNCHANGED <<msgJobs, handler, jobs, calling, expired, reported>>

(***************************************************************************)
(* The ReportReq of the round, with an observation map that holds what     *)
(* this follower answered.  The jobs are looked up in *re. *)
(* which only the listeners of a leader fill: a follower finds none, and   *)
(* Assemble of no job panics.                                              *)
(***************************************************************************)
ReportReq ==
    /\ ~crashed
    /\ handler = "answered"
    /\ ~reported
    /\ IF resChan = <<>>
       THEN reported' = TRUE /\ UNCHANGED crashed
       ELSE crashed' = TRUE /\ UNCHANGED reported
    /\ UNCHANGED <<msgJobs, handler, jobs, at, calling, Results, expired, chanVars>>

----------------------------------------------------------------------------
JobStep(i) == HttpCall(i) \/ Execute(i) \/ RunCancelled(i) \/ Result(i)

Next ==
    \/ NewJobFromInfo \/ Wait \/ Respond \/ ReportReq
    \/ \E i \in DOMAIN msgJobs : JobStep(i) \/ HttpReturns(i) \/ Expire(i)

\* Goroutines run and deadlines pass; an HTTP server need not answer.
Fairness ==
    /\ WF_vars(NewJobFromInfo \/ Wait \/ Respond)
    /\ \A i \in 1..MaxJobs : WF_vars(i \in DOMAIN msgJobs /\ (JobStep(i) \/ Expire(i)))

Spec == Init /\ [][Next]_vars
FairSpec == Spec /\ Fairness

----------------------------------------------------------------------------
(***************************************************************************)
(* Properties                                                              *)
(***************************************************************************)

TypeOK ==
    /\ msgJobs \in Requests
    /\ handler \in {"creating", "waiting", "answered", "returned"}
    /\ jobs \in 0..Len(msgJobs)
    /\ at \in [DOMAIN msgJobs -> Nat \ {0}]
    /\ calling \subseteq 1..jobs
    /\ DOMAIN Results = DOMAIN msgJobs
    /\ \A i \in DOMAIN msgJobs :
           Results[i] \in [DOMAIN Results[i] -> Value] /\ DOMAIN Results[i] \subseteq Name
    /\ expired \subseteq 1..jobs
    /\ resChan \in Seq((DOMAIN msgJobs) \X Text)
    /\ errChan \in Seq(DOMAIN msgJobs)
    /\ reported \in BOOLEAN
    /\ crashed \in BOOLEAN

\* An answer is complete: one response for every job of the request, none twice,
\* in whatever order jobs, failures and deadlines came.  One job that fails keeps
\* the results of the others from the leader.
AnswerComplete ==
    handler = "answered" =>
        /\ Len(resChan) = Len(msgJobs)
        /\ \A i \in DOMAIN msgJobs : \E k \in DOMAIN resChan : resChan[k][1] = i

\* What a job that ends in a math task answers is the printed form of a float64,
\* whatever the HTTP server sent and whichever tasks overwrote each other's results:
\* a numeral, or NaN or an infinity, which MeanValueAssembler cannot unmarshal.
MathAnswersNumber ==
    \A k \in DOMAIN resChan :
        LET t == tasks(resChan[k][1]) IN
        t[Len(t)].type = "math" => resChan[k][2] \in {"numeral", "special"}

\* The handler, on the server loop, returns whatever fails and whatever runs out
\* of time, unless an HTTP server never answers: no timeout ends that wait.
HandlerReturns ==
    \/ <>(crashed \/ handler \in {"answered", "returned"})
    \/ \E i \in 1..MaxJobs : <>[](i \in calling)
=============================================================================
