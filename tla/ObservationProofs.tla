------------------------- MODULE ObservationProofs -------------------------
(***************************************************************************)
(* Proofs about Observation, for every request: any number of jobs, with   *)
(* any tasks, of which several may have one name.                          *)
(***************************************************************************)
EXTENDS Observation, SequenceTheorems, FiniteSetTheorems, TLAPS

----------------------------------------------------------------------------
(***************************************************************************)
(* The inductive invariant.  For a job it says what its goroutine is doing *)
(* and that a last task of type math has left a float64; for the channels, *)
(* that no job is in them twice.                                           *)
(***************************************************************************)

Control ==
    /\ msgJobs \in Requests
    /\ handler \in {"creating", "waiting", "answered", "returned"}
    /\ jobs \in 0..Len(msgJobs)
    /\ calling \subseteq 1..jobs
    /\ expired \subseteq 1..jobs
    /\ reported \in BOOLEAN
    /\ crashed \in BOOLEAN

Channels ==
    /\ resChan \in Seq((DOMAIN msgJobs) \X Text)
    /\ errChan \in Seq(DOMAIN msgJobs)

Tables ==
    /\ at \in [DOMAIN msgJobs -> Nat \ {0}]
    /\ DOMAIN Results = DOMAIN msgJobs

ResultsTyped(i) == Results[i] \in [DOMAIN Results[i] -> Value] /\ DOMAIN Results[i] \subseteq Name

\* A job in http.Get is at that task.
CallingAt(i) == i \in calling => at[i] <= Len(tasks(i)) /\ tasks(i)[at[i]].type = "http"

EndsInMath(i) == tasks(i) # <<>> /\ tasks(i)[Len(tasks(i))].type = "math"

\* A job that is past a last task of type math has stored a float64 there.
MathStored(i) ==
    at[i] > Len(tasks(i)) /\ EndsInMath(i) =>
        Results[i][tasks(i)[Len(tasks(i))].name] \in {"number", "nonfinite"}

JobOK(i) == ResultsTyped(i) /\ CallingAt(i) /\ MathStored(i)

OncePerJob ==
    \A j, k \in DOMAIN resChan : resChan[j][1] = resChan[k][1] => j = k

AllAnswered ==
    handler = "answered" =>
        \A i \in DOMAIN msgJobs : \E k \in DOMAIN resChan : resChan[k][1] = i

IInv ==
    /\ Control /\ Channels /\ Tables
    /\ \A i \in DOMAIN msgJobs : JobOK(i)
    /\ OncePerJob /\ AllAnswered /\ MathAnswersNumber

\* The request and its tasks.
LEMMA RequestTypes ==
    ASSUME Control
    PROVE  /\ Len(msgJobs) \in Nat /\ DOMAIN msgJobs = 1..Len(msgJobs)
           /\ \A i \in DOMAIN msgJobs :
                  /\ Len(tasks(i)) \in Nat
                  /\ \A k \in 1..Len(tasks(i)) : tasks(i)[k] \in Task /\ tasks(i)[k].name \in Name
<1>1. msgJobs \in Seq(Info)
  BY RequestAssumption DEF Control
<1>2. ASSUME NEW i \in DOMAIN msgJobs
      PROVE  tasks(i) \in Seq(Task)
  <2>1. msgJobs[i] \in Info
    BY <1>1
  <2> QED BY <2>1 DEF Info, tasks
<1>3. ASSUME NEW i \in DOMAIN msgJobs, NEW k \in 1..Len(tasks(i))
      PROVE  tasks(i)[k] \in Task /\ tasks(i)[k].name \in Name
  <2>1. tasks(i)[k] \in Task
    BY <1>2
  <2> QED BY <2>1 DEF Task
<1>4. \A i \in DOMAIN msgJobs : Len(tasks(i)) \in Nat
  BY <1>2
<1> QED BY <1>1, <1>3, <1>4

\* The numbers up to n are n.
LEMMA UpTo ==
    ASSUME NEW n \in Nat
    PROVE  IsFiniteSet(1..n) /\ Cardinality(1..n) = n
<1>1. 1 \in Int /\ n \in Int
  OBVIOUS
<1>2. /\ IsFiniteSet(1..n)
      /\ Cardinality(1..n) = IF 1 > n THEN 0 ELSE n - 1 + 1
  BY <1>1, FS_Interval
<1> QED BY <1>2

\* A request each of whose jobs has answered, none twice, has all its answers.
LEMMA AnswersCounted ==
    ASSUME Control, Channels, OncePerJob,
           \A i \in DOMAIN msgJobs : \E k \in DOMAIN resChan : resChan[k][1] = i
    PROVE  Len(resChan) = Len(msgJobs)
<1> DEFINE job == [k \in 1..Len(resChan) |-> resChan[k][1]]
<1>1. /\ Len(resChan) \in Nat /\ DOMAIN resChan = 1..Len(resChan)
      /\ Len(msgJobs) \in Nat /\ DOMAIN msgJobs = 1..Len(msgJobs)
  BY RequestTypes DEF Channels
<1>2. \A k \in 1..Len(resChan) : resChan[k][1] \in 1..Len(msgJobs)
  <2> SUFFICES ASSUME NEW k \in 1..Len(resChan)
               PROVE  resChan[k][1] \in 1..Len(msgJobs)
    OBVIOUS
  <2>1. resChan[k] \in (DOMAIN msgJobs) \X Text
    BY DEF Channels
  <2> QED BY <2>1, <1>1
<1>3. job \in [1..Len(resChan) -> 1..Len(msgJobs)]
  BY <1>2
<1>4. job \in Surjection(1..Len(resChan), 1..Len(msgJobs))
  BY <1>1, <1>3 DEF Surjection
<1>5. job \in Injection(1..Len(resChan), 1..Len(msgJobs))
  BY <1>1, <1>3 DEF Injection, IsInjective, OncePerJob
<1>6. ExistsBijection(1..Len(resChan), 1..Len(msgJobs))
  BY <1>4, <1>5 DEF Bijection, ExistsBijection
<1>7. Cardinality(1..Len(resChan)) = Len(resChan) /\ IsFiniteSet(1..Len(resChan))
  BY <1>1, UpTo
<1>8. Cardinality(1..Len(msgJobs)) = Len(msgJobs)
  BY <1>1, UpTo
<1> QED BY <1>6, <1>7, <1>8, FS_Bijection

----------------------------------------------------------------------------
\* The invariant holds at the start.
LEMMA InitInv == Init => IInv
<1> SUFFICES ASSUME Init PROVE IInv
  OBVIOUS
<1>1. msgJobs \in Seq(Info)
  BY RequestAssumption DEF Init
<1>2. Control
  <2>1. Len(msgJobs) \in Nat /\ jobs = 0
    BY <1>1 DEF Init
  <2>2. jobs \in 0..Len(msgJobs)
    BY <2>1
  <2> QED BY <2>2 DEF Init, Control
<1>3. Channels /\ Tables
  BY DEF Init, Channels, Tables
<1>4. OncePerJob /\ AllAnswered /\ MathAnswersNumber
  BY DEF Init, OncePerJob, AllAnswered, MathAnswersNumber
<1>5. ASSUME NEW i \in DOMAIN msgJobs
      PROVE  JobOK(i)
  <2>1. Len(tasks(i)) \in Nat /\ (tasks(i) # <<>> => Len(tasks(i)) >= 1)
    <3>1. msgJobs[i] \in Info
      BY <1>1
    <3>2. tasks(i) \in Seq(Task)
      BY <3>1 DEF Info, tasks
    <3> QED BY <3>2, EmptySeq
  <2>2. at[i] = 1 /\ Results[i] = NoResults /\ calling = {}
    BY DEF Init
  <2>3. ResultsTyped(i)
    BY <2>2 DEF ResultsTyped, NoResults
  <2>4. CallingAt(i)
    BY <2>2 DEF CallingAt
  <2>5. MathStored(i)
    BY <2>1, <2>2 DEF MathStored, EndsInMath
  <2> QED BY <2>3, <2>4, <2>5 DEF JobOK
<1> QED BY <1>2, <1>3, <1>4, <1>5 DEF IInv

\* Steps that leave the jobs' own state and the channels alone.
LEMMA JobFrame ==
    ASSUME IInv, UNCHANGED <<msgJobs, at, Results, chanVars>>
    PROVE  /\ (Channels /\ Tables /\ OncePerJob /\ MathAnswersNumber)'
           /\ (\A i \in DOMAIN msgJobs : i \in calling' => i \in calling)
                  => (\A i \in DOMAIN msgJobs : JobOK(i))'
<1>1. (Channels /\ Tables /\ OncePerJob /\ MathAnswersNumber)'
  BY DEF IInv, Channels, Tables, OncePerJob, MathAnswersNumber, chanVars, tasks
<1>2. ASSUME NEW i \in DOMAIN msgJobs, i \in calling' => i \in calling
      PROVE  JobOK(i)'
  BY <1>2 DEF IInv, JobOK, ResultsTyped, CallingAt, MathStored, EndsInMath, tasks
<1> QED BY <1>1, <1>2

\* What a step changes that moves job i on, with or without a result.
LEMMA AdvanceInv ==
    ASSUME IInv, NEW i \in DOMAIN msgJobs,
           UNCHANGED <<msgJobs, resChan>>, calling' = calling \ {i},
           at[i] <= Len(tasks(i)),
           at' = [at EXCEPT ![i] = @ + 1],
           DOMAIN Results' = DOMAIN Results,
           \A j \in DOMAIN msgJobs \ {i} : Results'[j] = Results[j],
           ResultsTyped(i)',
           tasks(i)[at[i]].type = "math" =>
               Results'[i][tasks(i)[at[i]].name] \in {"number", "nonfinite"}
    PROVE  /\ Tables' /\ (\A j \in DOMAIN msgJobs : JobOK(j))'
           /\ OncePerJob' /\ MathAnswersNumber'
<1>0. /\ Control /\ Tables /\ Len(tasks(i)) \in Nat
      /\ \A j \in DOMAIN msgJobs : at[j] \in Nat /\ at[j] # 0
  BY RequestTypes DEF IInv, Tables
<1>1. Tables'
  BY <1>0 DEF Tables
<1>2. at'[i] = at[i] + 1 /\ \A j \in DOMAIN msgJobs \ {i} : at'[j] = at[j]
  BY <1>0 DEF Tables
<1>3. ASSUME NEW j \in DOMAIN msgJobs
      PROVE  JobOK(j)'
  <2>1. CASE j # i
    BY <2>1, <1>2 DEF IInv, JobOK, ResultsTyped, CallingAt, MathStored, EndsInMath, tasks
  <2>2. CASE j = i
    <3>1. CallingAt(i)'
      BY DEF CallingAt
    <3>2. MathStored(i)'
      <4> SUFFICES ASSUME at'[i] > Len(tasks(i)), EndsInMath(i)
                   PROVE  Results'[i][tasks(i)[Len(tasks(i))].name] \in {"number", "nonfinite"}
        BY DEF MathStored, EndsInMath, tasks
      <4>1. at[i] = Len(tasks(i))
        BY <1>0, <1>2
      <4> QED BY <4>1 DEF EndsInMath
    <3> QED BY <2>2, <3>1, <3>2 DEF JobOK
  <2> QED BY <2>1, <2>2
<1>4. OncePerJob' /\ MathAnswersNumber'
  BY DEF IInv, OncePerJob, MathAnswersNumber, tasks
<1> QED BY <1>1, <1>3, <1>4

\* A result that is stored: its type, and what it leaves alone.
LEMMA StoreInv ==
    ASSUME IInv, NEW i \in DOMAIN msgJobs, NEW v \in Value, Store(i, v),
           UNCHANGED <<msgJobs, handler, resChan, reported>>, calling' = calling \ {i},
           at[i] <= Len(tasks(i)),
           tasks(i)[at[i]].type = "math" => v \in {"number", "nonfinite"}
    PROVE  /\ (Channels /\ Tables /\ OncePerJob /\ MathAnswersNumber)'
           /\ (\A j \in DOMAIN msgJobs : JobOK(j))' /\ AllAnswered'
<1> DEFINE name == tasks(i)[at[i]].name
           new == [k \in DOMAIN Results[i] \cup {name} |-> IF k = name THEN v ELSE Results[i][k]]
<1>0. Control /\ Tables /\ at[i] \in 1..Len(tasks(i)) /\ ResultsTyped(i) /\ Channels
  BY RequestTypes DEF IInv, Tables, JobOK
<1>1. name \in Name
  BY <1>0, RequestTypes
<1>2. Results' = [Results EXCEPT ![i] = new]
  BY DEF Store
<1>3. at' = [at EXCEPT ![i] = @ + 1] /\ errChan' = errChan
  BY DEF Store
<1>4. /\ DOMAIN Results' = DOMAIN Results
      /\ \A j \in DOMAIN msgJobs \ {i} : Results'[j] = Results[j]
      /\ Results'[i] = new
  BY <1>0, <1>2 DEF Tables
<1>5. new \in [DOMAIN new -> Value] /\ DOMAIN new \subseteq Name /\ new[name] = v
  BY <1>0, <1>1 DEF ResultsTyped
<1> HIDE DEF new
<1>6. ResultsTyped(i)'
  BY <1>4, <1>5 DEF ResultsTyped
<1>7. /\ Tables' /\ (\A j \in DOMAIN msgJobs : JobOK(j))'
      /\ OncePerJob' /\ MathAnswersNumber'
  BY <1>3, <1>4, <1>5, <1>6, AdvanceInv
<1>8. Channels' /\ AllAnswered'
  BY <1>0, <1>3 DEF IInv, Channels, AllAnswered
<1> QED BY <1>7, <1>8

\* A job that fails.
LEMMA FailInv ==
    ASSUME IInv, NEW i \in DOMAIN msgJobs, Fail(i),
           UNCHANGED <<msgJobs, handler, resChan, reported>>, calling' \subseteq calling
    PROVE  /\ (Channels /\ Tables /\ OncePerJob /\ MathAnswersNumber)'
           /\ (\A j \in DOMAIN msgJobs : JobOK(j))' /\ AllAnswered'
<1>1. Channels'
  BY DEF IInv, Channels, Fail
<1>2. Tables' /\ OncePerJob' /\ MathAnswersNumber' /\ AllAnswered'
  BY DEF IInv, Tables, OncePerJob, MathAnswersNumber, AllAnswered, Fail, tasks
<1>3. ASSUME NEW j \in DOMAIN msgJobs
      PROVE  JobOK(j)'
  BY DEF IInv, JobOK, ResultsTyped, CallingAt, MathStored, EndsInMath, tasks, Fail
<1> QED BY <1>1, <1>2, <1>3

----------------------------------------------------------------------------
(***************************************************************************)
(* One lemma for each action.                                              *)
(***************************************************************************)

\* A job is created, or the handler gives up.
LEMMA NewJobInv == ASSUME IInv, NewJobFromInfo PROVE IInv'
<1>1. /\ UNCHANGED <<msgJobs, at, calling, Results, expired, chanVars, reported>>
      /\ UNCHANGED crashed /\ handler = "creating"
      /\ jobs < Len(msgJobs)
      /\ \/ jobs' = jobs + 1 /\ handler' = handler
         \/ jobs' = jobs /\ handler' = "returned"
  BY DEF NewJobFromInfo
<1>2. Control /\ Len(msgJobs) \in Nat
  BY RequestTypes DEF IInv
<1>3. Control'
  BY <1>1, <1>2 DEF Control
<1>4. AllAnswered'
  BY <1>1 DEF IInv, AllAnswered
<1> QED BY <1>1, <1>3, <1>4, JobFrame DEF IInv

\* The handler starts to wait.
LEMMA WaitInv == ASSUME IInv, Wait PROVE IInv'
<1>1. /\ UNCHANGED <<msgJobs, jobs, at, calling, Results, expired, chanVars>>
      /\ UNCHANGED <<reported, crashed>> /\ handler' = "waiting"
  BY DEF Wait
<1>2. Control' /\ AllAnswered'
  BY <1>1 DEF IInv, Control, AllAnswered
<1> QED BY <1>1, <1>2, JobFrame DEF IInv

\* Without an error, every job that is done has a result.
LEMMA RespondInv == ASSUME IInv, Respond PROVE IInv'
<1>1. /\ UNCHANGED <<msgJobs, jobs, at, calling, Results, expired, chanVars>>
      /\ UNCHANGED <<reported, crashed>>
      /\ handler' = "returned" \/ (handler' = "answered" /\ errChan = <<>>)
      /\ \A i \in DOMAIN msgJobs : Done(i)
  BY DEF Respond
<1>2. Control'
  BY <1>1 DEF IInv, Control
<1>3. AllAnswered'
  <2> SUFFICES ASSUME errChan = <<>>, NEW i \in DOMAIN msgJobs
               PROVE  \E k \in DOMAIN resChan : resChan[k][1] = i
    BY <1>1 DEF AllAnswered, chanVars
  <2>1. i \notin Range(errChan)
    BY DEF Range
  <2>2. \E r \in Range(resChan) : r[1] = i
    BY <1>1, <2>1 DEF Done
  <2> QED BY <2>2 DEF Range
<1> QED BY <1>1, <1>2, <1>3, JobFrame DEF IInv

\* A report of nothing, or a panic.
LEMMA ReportReqInv == ASSUME IInv, ReportReq PROVE IInv'
<1>1. /\ UNCHANGED <<msgJobs, handler, jobs, at, calling, Results, expired, chanVars>>
      /\ reported' \in BOOLEAN /\ crashed' \in BOOLEAN
  BY DEF IInv, Control, ReportReq
<1>2. Control' /\ AllAnswered'
  BY <1>1 DEF IInv, Control, AllAnswered, chanVars
<1> QED BY <1>1, <1>2, JobFrame DEF IInv

\* What a running job is.
LEMMA RunningJob ==
    ASSUME IInv, NEW i \in DOMAIN msgJobs
    PROVE  at[i] \in Nat /\ Len(tasks(i)) \in Nat
BY RequestTypes DEF IInv, Tables

\* A job calls out.
LEMMA HttpCallInv == ASSUME IInv, NEW i \in DOMAIN msgJobs, HttpCall(i) PROVE IInv'
<1>1. /\ UNCHANGED <<msgJobs, handler, jobs, at, Results, expired, chanVars>>
      /\ UNCHANGED <<reported, crashed>>
      /\ calling' = calling \cup {i} /\ i \in 1..jobs
      /\ at[i] <= Len(tasks(i)) /\ tasks(i)[at[i]].type = "http"
  BY DEF HttpCall, Ready, Running
<1>2. Control' /\ AllAnswered'
  BY <1>1 DEF IInv, Control, AllAnswered, chanVars
<1>3. ASSUME NEW j \in DOMAIN msgJobs
      PROVE  JobOK(j)'
  BY <1>1 DEF IInv, JobOK, ResultsTyped, CallingAt, MathStored, EndsInMath, tasks
<1>4. (Channels /\ Tables /\ OncePerJob /\ MathAnswersNumber)'
  BY <1>1, JobFrame
<1> QED BY <1>1, <1>2, <1>3, <1>4 DEF IInv

\* The call returns a text or fails.
LEMMA HttpReturnsInv == ASSUME IInv, NEW i \in DOMAIN msgJobs, HttpReturns(i) PROVE IInv'
<1>1. /\ UNCHANGED <<msgJobs, handler, jobs, expired, resChan>>
      /\ UNCHANGED <<reported, crashed>>
      /\ i \in calling /\ calling' = calling \ {i}
  BY DEF HttpReturns
<1>2. Control'
  BY <1>1 DEF IInv, Control
<1>3. CASE Fail(i)
  <2>1. calling' \subseteq calling
    BY <1>1
  <2> QED BY <1>1, <1>2, <1>3, <2>1, FailInv DEF IInv
<1>4. CASE \E v \in Text : Store(i, v)
  <2>1. PICK v \in Text : Store(i, v)
    BY <1>4
  <2>2. at[i] <= Len(tasks(i)) /\ tasks(i)[at[i]].type = "http" /\ v \in Value
    BY <1>1 DEF IInv, JobOK, CallingAt, Value, JsonValue
  <2> QED BY <1>1, <1>2, <2>1, <2>2, StoreInv DEF IInv
<1> QED BY <1>3, <1>4 DEF HttpReturns

\* A task that does not call out.
LEMMA ExecuteInv == ASSUME IInv, NEW i \in DOMAIN msgJobs, Execute(i) PROVE IInv'
<1> DEFINE type == tasks(i)[at[i]].type
<1>1. /\ UNCHANGED <<msgJobs, handler, jobs, calling, expired, resChan>>
      /\ UNCHANGED <<reported, crashed>>
      /\ i \notin calling /\ at[i] <= Len(tasks(i))
  BY DEF Execute, Ready, Running
<1>2. calling' = calling \ {i} /\ calling' \subseteq calling
  BY <1>1
<1>3. Control'
  BY <1>1 DEF IInv, Control
<1>4. type \in TaskType
  <2>1. Control /\ at[i] \in 1..Len(tasks(i))
    BY <1>1, RunningJob DEF IInv, Tables
  <2>2. tasks(i)[at[i]] \in Task
    BY <2>1, RequestTypes
  <2> QED BY <2>2 DEF Task
<1>5. \/ Fail(i)
      \/ type = "json" /\ \E v \in JsonValue : Store(i, v)
      \/ type = "math" /\ \E v \in Math(Input(i)) : Store(i, v)
      \/ type = "log" /\ at' = [at EXCEPT ![i] = @ + 1] /\ UNCHANGED <<Results, errChan>>
  BY <1>4 DEF Execute, TaskType
<1> HIDE DEF type
<1>6. CASE Fail(i)
  BY <1>1, <1>2, <1>3, <1>6, FailInv DEF IInv
<1>7. CASE type = "json" /\ \E v \in JsonValue : Store(i, v)
  <2>1. PICK v \in Value : Store(i, v)
    BY <1>7 DEF Value
  <2> QED BY <1>1, <1>2, <1>3, <1>7, <2>1, StoreInv DEF IInv, type
<1>8. CASE type = "math" /\ \E v \in Math(Input(i)) : Store(i, v)
  <2>1. Input(i) \in Value
    BY DEF IInv, JobOK, ResultsTyped, Input, Value, JsonValue
  <2>2. PICK v \in Math(Input(i)) : Store(i, v)
    BY <1>8
  <2>3. v \in {"number", "nonfinite"} /\ v \in Value
    BY <2>1, <2>2 DEF Math, Value, JsonValue, Text
  <2> QED BY <1>1, <1>2, <1>3, <2>2, <2>3, StoreInv DEF IInv
<1>9. CASE type = "log" /\ at' = [at EXCEPT ![i] = @ + 1] /\ UNCHANGED <<Results, errChan>>
  <2>1. ResultsTyped(i)' /\ tasks(i)[at[i]].type # "math"
    BY <1>9 DEF IInv, JobOK, ResultsTyped, type
  <2>2. /\ Tables' /\ (\A j \in DOMAIN msgJobs : JobOK(j))'
        /\ OncePerJob' /\ MathAnswersNumber'
    BY <1>1, <1>2, <1>9, <2>1, AdvanceInv
  <2>3. Channels' /\ AllAnswered'
    BY <1>1, <1>9 DEF IInv, Channels, AllAnswered
  <2> QED BY <1>3, <2>2, <2>3 DEF IInv
<1> QED BY <1>5, <1>6, <1>7, <1>8, <1>9

\* A deadline passes.
LEMMA ExpireInv == ASSUME IInv, NEW i \in DOMAIN msgJobs, Expire(i) PROVE IInv'
<1>1. /\ UNCHANGED <<msgJobs, handler, jobs, at, calling, Results, chanVars>>
      /\ UNCHANGED <<reported, crashed>>
      /\ i \in 1..jobs /\ expired' = expired \cup {i}
  BY DEF Expire
<1>2. Control' /\ AllAnswered'
  BY <1>1 DEF IInv, Control, AllAnswered, chanVars
<1> QED BY <1>1, <1>2, JobFrame DEF IInv

\* A job is cancelled between two tasks.
LEMMA RunCancelledInv ==
    ASSUME IInv, NEW i \in DOMAIN msgJobs, RunCancelled(i)
    PROVE  IInv'
<1>1. /\ UNCHANGED <<msgJobs, handler, jobs, calling, expired, resChan>>
      /\ UNCHANGED <<reported, crashed>> /\ Fail(i)
  BY DEF RunCancelled
<1>2. Control' /\ calling' \subseteq calling
  BY <1>1 DEF IInv, Control
<1> QED BY <1>1, <1>2, FailInv DEF IInv

\* The answer of a job that has run is the one its last task stored; it goes to
\* the channel once, because the job was not done.
LEMMA AnswerInv ==
    ASSUME IInv, NEW i \in DOMAIN msgJobs, NEW v,
           ~Done(i), at[i] > Len(tasks(i)), tasks(i) # <<>>,
           tasks(i)[Len(tasks(i))].name \in DOMAIN Results[i],
           v = Format(Results[i][tasks(i)[Len(tasks(i))].name]),
           resChan' = Append(resChan, <<i, v>>),
           UNCHANGED <<msgJobs, handler, at, Results, errChan, calling, reported>>
    PROVE  /\ (Channels /\ Tables /\ OncePerJob /\ MathAnswersNumber)'
           /\ (\A j \in DOMAIN msgJobs : JobOK(j))' /\ AllAnswered'
<1> DEFINE new == Append(resChan, <<i, v>>)
           n == Len(resChan)
<1>1. ResultsTyped(i) /\ MathStored(i) /\ Channels
  BY DEF IInv, JobOK
<1>2. v \in Text /\ <<i, v>> \in (DOMAIN msgJobs) \X Text
  <2>1. Results[i][tasks(i)[Len(tasks(i))].name] \in Value
    BY <1>1 DEF ResultsTyped
  <2> QED BY <2>1 DEF Format, Value, JsonValue, Text
<1>3. /\ n \in Nat /\ DOMAIN resChan = 1..n
      /\ new \in Seq((DOMAIN msgJobs) \X Text)
      /\ DOMAIN new = 1..n + 1
      /\ \A k \in 1..n : new[k] = resChan[k]
      /\ new[n + 1] = <<i, v>>
  BY <1>1, <1>2, AppendProperties DEF Channels
<1>4. \A k \in 1..n : resChan[k][1] # i
  <2> SUFFICES ASSUME NEW k \in 1..n, resChan[k][1] = i PROVE FALSE
    OBVIOUS
  <2>1. resChan[k] \in Range(resChan)
    BY <1>3 DEF Range
  <2> QED BY <2>1 DEF Done
<1> HIDE DEF new, n
<1>5. resChan' = new
  BY DEF new
<1>6. Channels' /\ Tables'
  BY <1>1, <1>3, <1>5 DEF IInv, Channels, Tables
<1>7. OncePerJob'
  <2> SUFFICES ASSUME NEW j \in 1..n + 1, NEW k \in 1..n + 1, new[j][1] = new[k][1]
               PROVE  j = k
    BY <1>3, <1>5 DEF OncePerJob
  <2>1. CASE j \in 1..n /\ k \in 1..n
    <3>1. resChan[j][1] = resChan[k][1] /\ j \in DOMAIN resChan /\ k \in DOMAIN resChan
      BY <2>1, <1>3
    <3> QED BY <3>1 DEF IInv, OncePerJob
  <2>2. CASE j \in 1..n /\ k = n + 1
    <3>1. new[j] = resChan[j] /\ new[k] = <<i, v>>
      BY <2>2, <1>3
    <3> QED BY <2>2, <3>1, <1>4
  <2>3. CASE j = n + 1 /\ k \in 1..n
    <3>1. new[k] = resChan[k] /\ new[j] = <<i, v>>
      BY <2>3, <1>3
    <3> QED BY <2>3, <3>1, <1>4
  <2> QED BY <2>1, <2>2, <2>3, <1>3
<1>8. MathAnswersNumber'
  <2> SUFFICES ASSUME NEW k \in 1..n + 1,
                      tasks(new[k][1])[Len(tasks(new[k][1]))].type = "math"
               PROVE  new[k][2] \in {"numeral", "special"}
    BY <1>3, <1>5 DEF MathAnswersNumber, tasks
  <2>1. CASE k \in 1..n
    BY <2>1, <1>3 DEF IInv, MathAnswersNumber
  <2>2. CASE k = n + 1
    <3>1. new[k][1] = i /\ new[k][2] = v
      BY <2>2, <1>3
    <3>2. Results[i][tasks(i)[Len(tasks(i))].name] \in {"number", "nonfinite"}
      BY <3>1, <1>1 DEF MathStored, EndsInMath
    <3> QED BY <3>1, <3>2 DEF Format, Text
  <2> QED BY <2>1, <2>2, <1>3
<1>9. AllAnswered'
  BY <1>3, <1>5 DEF IInv, AllAnswered
<1>10. ASSUME NEW j \in DOMAIN msgJobs
       PROVE  JobOK(j)'
  BY DEF IInv, JobOK, ResultsTyped, CallingAt, MathStored, EndsInMath, tasks
<1> QED BY <1>6, <1>7, <1>8, <1>9, <1>10

\* The end of a job: an answer, an error, or a panic.
LEMMA ResultInv == ASSUME IInv, NEW i \in DOMAIN msgJobs, Result(i) PROVE IInv'
<1> DEFINE last == tasks(i)[Len(tasks(i))].name
<1>1. /\ UNCHANGED <<msgJobs, handler, jobs, calling, expired, reported>>
      /\ ~crashed /\ ~Done(i) /\ at[i] > Len(tasks(i))
  BY DEF Result, Running
<1>2. \/ Fail(i) /\ UNCHANGED <<resChan, crashed>>
      \/ crashed' = TRUE /\ UNCHANGED <<at, Results, chanVars>>
      \/ /\ tasks(i) # <<>> /\ last \in DOMAIN Results[i]
         /\ resChan' = Append(resChan, <<i, Format(Results[i][last])>>)
         /\ UNCHANGED <<at, Results, errChan, crashed>>
  BY DEF Result
<1>3. Control'
  BY <1>1, <1>2 DEF IInv, Control
<1>4. CASE Fail(i) /\ UNCHANGED <<resChan, crashed>>
  BY <1>1, <1>3, <1>4, FailInv DEF IInv
<1>5. CASE crashed' = TRUE /\ UNCHANGED <<at, Results, chanVars>>
  <2>1. AllAnswered'
    BY <1>1, <1>5 DEF IInv, AllAnswered, chanVars
  <2> QED BY <1>1, <1>3, <1>5, <2>1, JobFrame DEF IInv
<1>6. CASE /\ tasks(i) # <<>> /\ last \in DOMAIN Results[i]
           /\ resChan' = Append(resChan, <<i, Format(Results[i][last])>>)
           /\ UNCHANGED <<at, Results, errChan, crashed>>
  BY <1>1, <1>3, <1>6, AnswerInv DEF IInv
<1> QED BY <1>2, <1>4, <1>5, <1>6

\* Every step keeps the invariant.
LEMMA NextInv == IInv /\ [Next]_vars => IInv'
<1> SUFFICES ASSUME IInv, [Next]_vars PROVE IInv'
  OBVIOUS
<1>1. CASE UNCHANGED vars
  <2>1. UNCHANGED <<msgJobs, at, Results, chanVars, calling>>
    BY <1>1 DEF vars, chanVars
  <2>2. Control' /\ AllAnswered'
    BY <1>1 DEF vars, IInv, Control, AllAnswered
  <2> QED BY <2>1, <2>2, JobFrame DEF IInv
<1>2. CASE \E i \in DOMAIN msgJobs : JobStep(i) \/ HttpReturns(i) \/ Expire(i)
  BY <1>2, HttpCallInv, HttpReturnsInv, ExecuteInv, ExpireInv, RunCancelledInv, ResultInv
     DEF JobStep
<1> QED
  BY <1>1, <1>2, NewJobInv, WaitInv, RespondInv, ReportReqInv DEF Next

\* The invariant holds always.
LEMMA Invariance == Spec => []IInv
BY InitInv, NextInv, PTL DEF Spec

----------------------------------------------------------------------------
\* Every variable keeps its type, whatever the jobs of a request are.
THEOREM TypeCorrect == Spec => []TypeOK
<1>1. IInv => TypeOK
  BY DEF IInv, Control, Channels, Tables, JobOK, ResultsTyped, TypeOK
<1> QED BY <1>1, Invariance, PTL

\* A request of any number of jobs is answered completely and once per job, or not
\* at all.
THEOREM AnswersAreComplete == Spec => []AnswerComplete
<1>1. IInv => AnswerComplete
  BY AnswersCounted DEF IInv, AllAnswered, AnswerComplete
<1> QED BY <1>1, Invariance, PTL

\* A pipeline of any tasks that ends in math answers with the text of a float64,
\* although tasks may share names and overwrite each other's results.
THEOREM MathAnswers == Spec => []MathAnswersNumber
<1>1. IInv => MathAnswersNumber
  BY DEF IInv
<1> QED BY <1>1, Invariance, PTL

----------------------------------------------------------------------------
(***************************************************************************)
(* Why the handler returns, as far as that is safety: a request is a       *)
(* finite amount of work, every step is part of it, and as long as there   *)
(* is some left, only an HTTP server can hold all of it up.                *)
(***************************************************************************)

\* The steps that are left for a job of n tasks which is at task a: two for each
\* task, since a call and its return are two, one for the result, one for the
\* deadline.
LeftOf(done, n, a, call, exp) ==
    (IF done THEN 0 ELSE 2 * (n + 1 - a) + (IF call THEN 1 ELSE 2)) + (IF exp THEN 0 ELSE 1)
JobLeft(i) == LeftOf(Done(i), Len(tasks(i)), at[i], i \in calling, i \in expired)

\* The steps that are left for the handler, the report and the process.
HandlerLeft ==
    (CASE handler = "creating" -> Len(msgJobs) - jobs + 2
       [] handler = "waiting" -> 1
       [] handler \in {"answered", "returned"} -> 0)
    + (IF reported THEN 0 ELSE 1) + (IF crashed THEN 0 ELSE 1)

WorkIsNat == HandlerLeft \in Nat /\ \A i \in DOMAIN msgJobs : JobLeft(i) \in Nat

\* A step adds no work anywhere and does some.
DoesWork ==
    /\ HandlerLeft' <= HandlerLeft
    /\ \A i \in DOMAIN msgJobs : JobLeft(i)' <= JobLeft(i)
    /\ \/ HandlerLeft' < HandlerLeft
       \/ \E i \in DOMAIN msgJobs : JobLeft(i)' < JobLeft(i)

\* Some goroutine of a request in progress can take a step: the handler creates
\* or starts to wait, finds everyone done, or a job is between two tasks.
Proceeds ==
    \/ handler = "creating" /\ jobs <= Len(msgJobs)
    \/ handler = "waiting" /\ \A i \in DOMAIN msgJobs : Done(i)
    \/ \E i \in DOMAIN msgJobs : Running(i)

\* While no job is in http.Get, nothing in a request waits for something else.
WaitsForHttpOnly ==
    handler \in {"creating", "waiting"} /\ ~crashed /\ calling = {} => Proceeds

\* Who waits has started everybody, no job runs past its end, and a job that calls
\* out has not been counted as done.
RunOK(i) == at[i] <= Len(tasks(i)) + 1 /\ (i \in calling => ~Done(i))
RunInv ==
    /\ handler = "waiting" => jobs = Len(msgJobs)
    /\ \A i \in DOMAIN msgJobs : RunOK(i)

\* A job joins those that are done by an error, or by a result.
LEMMA DoneGrows ==
    ASSUME Channels, NEW i \in DOMAIN msgJobs, NEW v,
           \/ errChan' = Append(errChan, i) /\ resChan' = resChan
           \/ errChan' = errChan /\ resChan' = Append(resChan, <<i, v>>)
    PROVE  \A j \in DOMAIN msgJobs : Done(j)' <=> Done(j) \/ j = i
<1>1. CASE errChan' = Append(errChan, i) /\ resChan' = resChan
  <2>1. Range(Append(errChan, i)) = Range(errChan) \cup {i}
    <3>1. /\ Len(errChan) \in Nat /\ DOMAIN errChan = 1..Len(errChan)
          /\ DOMAIN Append(errChan, i) = 1..Len(errChan) + 1
          /\ \A k \in 1..Len(errChan) : Append(errChan, i)[k] = errChan[k]
          /\ Append(errChan, i)[Len(errChan) + 1] = i
      BY DEF Channels
    <3>2. 1..Len(errChan) + 1 = 1..Len(errChan) \cup {Len(errChan) + 1}
      BY <3>1
    <3> QED BY <3>1, <3>2 DEF Range
  <2> QED BY <1>1, <2>1 DEF Done
<1>2. CASE errChan' = errChan /\ resChan' = Append(resChan, <<i, v>>)
  <2> DEFINE new == Append(resChan, <<i, v>>)
  <2>1. Range(new) = Range(resChan) \cup {<<i, v>>}
    <3>1. /\ Len(resChan) \in Nat /\ DOMAIN resChan = 1..Len(resChan)
          /\ DOMAIN new = 1..Len(resChan) + 1
          /\ \A k \in 1..Len(resChan) : new[k] = resChan[k]
          /\ new[Len(resChan) + 1] = <<i, v>>
      BY DEF Channels
    <3>2. 1..Len(resChan) + 1 = 1..Len(resChan) \cup {Len(resChan) + 1}
      BY <3>1
    <3> HIDE DEF new
    <3> QED BY <3>1, <3>2 DEF Range
  <2> HIDE DEF new
  <2>2. resChan' = new
    BY <1>2 DEF new
  <2>3. ASSUME NEW j
        PROVE  (\E r \in Range(new) : r[1] = j)
               <=> (\E r \in Range(resChan) : r[1] = j) \/ j = i
    <3>1. <<i, v>>[1] = i
      OBVIOUS
    <3> DEFINE e == <<i, v>>
    <3>2. e[1] = i /\ Range(new) = Range(resChan) \cup {e}
      BY <2>1, <3>1
    <3> HIDE DEF e
    <3> QED BY <3>2
  <2> QED BY <1>2, <2>2, <2>3 DEF Done
<1> QED BY <1>1, <1>2

\* The work of a job in progress.
LEMMA LeftType ==
    ASSUME NEW n \in Nat, NEW a \in Nat, a <= n + 1,
           NEW d \in BOOLEAN, NEW c \in BOOLEAN, NEW e \in BOOLEAN
    PROVE  /\ LeftOf(d, n, a, c, e) \in Nat
           /\ ~d => LeftOf(TRUE, n, a, c, e) < LeftOf(d, n, a, c, e)
BY DEF LeftOf

\* The work is always a number.
LEMMA WorkTypes == IInv /\ RunInv => WorkIsNat
<1> SUFFICES ASSUME IInv, RunInv PROVE WorkIsNat
  OBVIOUS
<1>1. Control /\ Len(msgJobs) \in Nat
  BY RequestTypes DEF IInv
<1>2. HandlerLeft \in Nat
  <2>1. /\ jobs \in 0..Len(msgJobs)
        /\ handler \in {"creating", "waiting", "answered", "returned"}
    BY <1>1 DEF Control
  <2>2. Len(msgJobs) - jobs + 2 \in Nat
    BY <1>1, <2>1
  <2>3. CASE handler = "creating"
    BY <2>2, <2>3 DEF HandlerLeft
  <2>4. CASE handler = "waiting"
    BY <2>4 DEF HandlerLeft
  <2>5. CASE handler \in {"answered", "returned"}
    BY <2>5 DEF HandlerLeft
  <2> QED BY <2>1, <2>3, <2>4, <2>5
<1>3. ASSUME NEW i \in DOMAIN msgJobs
      PROVE  JobLeft(i) \in Nat
  <2>1. at[i] \in Nat /\ Len(tasks(i)) \in Nat /\ at[i] <= Len(tasks(i)) + 1
    BY RunningJob DEF RunInv, RunOK
  <2>2. Done(i) \in BOOLEAN /\ (i \in calling) \in BOOLEAN /\ (i \in expired) \in BOOLEAN
    BY DEF Done
  <2> QED BY <2>1, <2>2, LeftType DEF JobLeft
<1> QED BY <1>2, <1>3 DEF WorkIsNat

\* A step of job i alone, which does some of its work.
LEMMA JobWork ==
    ASSUME IInv, RunInv, IInv', NEW i \in DOMAIN msgJobs,
           UNCHANGED <<msgJobs, handler, jobs, reported, crashed>>,
           \A j \in DOMAIN msgJobs \ {i} :
               /\ Done(j)' <=> Done(j)
               /\ at'[j] = at[j]
               /\ j \in calling' <=> j \in calling
               /\ j \in expired' <=> j \in expired,
           RunOK(i)', JobLeft(i)' < JobLeft(i)
    PROVE  RunInv' /\ DoesWork
<1>1. \A j \in DOMAIN msgJobs : tasks(j)' = tasks(j)
  BY DEF tasks
<1>2. RunInv'
  BY <1>1 DEF RunInv, RunOK
<1>3. HandlerLeft' = HandlerLeft /\ WorkIsNat
  BY WorkTypes DEF HandlerLeft
<1>4. ASSUME NEW j \in DOMAIN msgJobs \ {i}
      PROVE  JobLeft(j)' = JobLeft(j)
  BY <1>1 DEF JobLeft, LeftOf
<1>5. JobLeft(i)' <= JobLeft(i)
  <2>1. WorkIsNat'
    BY <1>2, WorkTypes, PTL
  <2>2. JobLeft(i) \in Nat /\ JobLeft(i)' \in Nat
    BY <1>3, <2>1 DEF WorkIsNat
  <2> QED BY <2>2
<1>6. ASSUME NEW j \in DOMAIN msgJobs
      PROVE  JobLeft(j)' <= JobLeft(j)
  BY <1>3, <1>4, <1>5 DEF WorkIsNat
<1> QED BY <1>2, <1>3, <1>6 DEF DoesWork, WorkIsNat

\* A job that fails has no work left but its deadline.
LEMMA FailWork ==
    ASSUME IInv, RunInv, IInv', NEW i \in DOMAIN msgJobs, ~Done(i), Fail(i),
           calling' \in {calling, calling \ {i}},
           UNCHANGED <<msgJobs, handler, jobs, reported, crashed, expired, resChan>>,
           i \notin calling'
    PROVE  RunInv' /\ DoesWork
<1>1. \A j \in DOMAIN msgJobs : Done(j)' <=> Done(j) \/ j = i
  BY DoneGrows DEF IInv, Fail
<1>2. /\ at' = at /\ tasks(i)' = tasks(i)
      /\ at[i] \in Nat /\ Len(tasks(i)) \in Nat /\ at[i] <= Len(tasks(i)) + 1
  BY RunningJob DEF Fail, tasks, RunInv, RunOK
<1>3. RunOK(i)'
  BY <1>2 DEF RunOK, RunInv
<1>4. JobLeft(i)' < JobLeft(i)
  <2>1. JobLeft(i)' = LeftOf(TRUE, Len(tasks(i)), at[i], FALSE, i \in expired)
    BY <1>1, <1>2 DEF JobLeft, LeftOf
  <2>2. JobLeft(i) = LeftOf(FALSE, Len(tasks(i)), at[i], i \in calling, i \in expired)
    BY DEF JobLeft, LeftOf
  <2> QED BY <1>2, <2>1, <2>2 DEF LeftOf
<1> QED BY <1>1, <1>2, <1>3, <1>4, JobWork

\* A job that moves on to its next task.
LEMMA AdvanceWork ==
    ASSUME IInv, RunInv, IInv', NEW i \in DOMAIN msgJobs, ~Done(i),
           at[i] <= Len(tasks(i)), at' = [at EXCEPT ![i] = @ + 1],
           calling' \in {calling, calling \ {i}}, i \notin calling',
           UNCHANGED <<msgJobs, handler, jobs, reported, crashed, expired, chanVars>>
    PROVE  RunInv' /\ DoesWork
<1>1. \A j \in DOMAIN msgJobs : Done(j)' <=> Done(j)
  BY DEF Done, chanVars
<1>2. /\ at'[i] = at[i] + 1 /\ \A j \in DOMAIN msgJobs \ {i} : at'[j] = at[j]
      /\ tasks(i)' = tasks(i)
      /\ at[i] \in Nat /\ Len(tasks(i)) \in Nat
  BY RunningJob DEF tasks, IInv, Tables
<1>3. RunOK(i)'
  BY <1>2 DEF RunOK
<1>4. JobLeft(i)' < JobLeft(i)
  <2>1. JobLeft(i)' = LeftOf(FALSE, Len(tasks(i)), at[i] + 1, FALSE, i \in expired)
    BY <1>1, <1>2 DEF JobLeft, LeftOf
  <2>2. JobLeft(i) = LeftOf(FALSE, Len(tasks(i)), at[i], i \in calling, i \in expired)
    BY DEF JobLeft, LeftOf
  <2> QED BY <1>2, <2>1, <2>2 DEF LeftOf
<1> QED BY <1>1, <1>2, <1>3, <1>4, JobWork

\* The tasks of a job: a call, its return, or any other.
LEMMA TaskWork ==
    ASSUME IInv, RunInv, IInv', NEW i \in DOMAIN msgJobs,
           HttpCall(i) \/ HttpReturns(i) \/ Execute(i) \/ RunCancelled(i)
    PROVE  RunInv' /\ DoesWork
<1>1. CASE HttpCall(i)
  <2>1. /\ UNCHANGED <<msgJobs, handler, jobs, reported, crashed, at, expired, chanVars>>
        /\ calling' = calling \cup {i} /\ i \notin calling /\ ~Done(i)
        /\ at[i] <= Len(tasks(i))
    BY <1>1 DEF HttpCall, Ready, Running
  <2>2. \A j \in DOMAIN msgJobs : Done(j)' <=> Done(j)
    BY <2>1 DEF Done, chanVars
  <2>3. tasks(i)' = tasks(i) /\ at[i] \in Nat /\ Len(tasks(i)) \in Nat
    BY <2>1, RunningJob DEF tasks
  <2>4. RunOK(i)'
    BY <2>1, <2>2, <2>3 DEF RunOK
  <2>5. JobLeft(i)' < JobLeft(i)
    <3>1. JobLeft(i)' = LeftOf(FALSE, Len(tasks(i)), at[i], TRUE, i \in expired)
      BY <2>1, <2>2, <2>3 DEF JobLeft, LeftOf
    <3>2. JobLeft(i) = LeftOf(FALSE, Len(tasks(i)), at[i], FALSE, i \in expired)
      BY <2>1 DEF JobLeft, LeftOf
    <3> QED BY <2>3, <3>1, <3>2 DEF LeftOf
  <2> QED BY <2>1, <2>2, <2>4, <2>5, JobWork
<1>2. CASE HttpReturns(i)
  <2>1. /\ UNCHANGED <<msgJobs, handler, jobs, reported, crashed, expired, resChan>>
        /\ i \in calling /\ calling' = calling \ {i}
    BY <1>2 DEF HttpReturns
  <2>2. ~Done(i) /\ at[i] <= Len(tasks(i))
    BY <2>1 DEF IInv, JobOK, CallingAt, RunInv, RunOK
  <2>3. CASE Fail(i)
    BY <2>1, <2>2, <2>3, FailWork
  <2>4. CASE \E v \in Text : Store(i, v)
    <3>1. at' = [at EXCEPT ![i] = @ + 1] /\ errChan' = errChan
      BY <2>4 DEF Store
    <3> QED BY <2>1, <2>2, <3>1, AdvanceWork DEF chanVars
  <2> QED BY <1>2, <2>3, <2>4 DEF HttpReturns
<1>3. CASE Execute(i)
  <2>1. /\ UNCHANGED <<msgJobs, handler, jobs, reported, crashed, expired, resChan, calling>>
        /\ i \notin calling /\ ~Done(i) /\ at[i] <= Len(tasks(i))
    BY <1>3 DEF Execute, Ready, Running
  <2>2. tasks(i)[at[i]].type \in TaskType
    <3>1. Control /\ at[i] \in 1..Len(tasks(i))
      BY <2>1, RunningJob DEF IInv, Tables
    <3>2. tasks(i)[at[i]] \in Task
      BY <3>1, RequestTypes
    <3> QED BY <3>2 DEF Task
  <2>3. Fail(i) \/ (at' = [at EXCEPT ![i] = @ + 1] /\ errChan' = errChan)
    BY <1>3, <2>2 DEF Execute, TaskType, Store
  <2>4. CASE Fail(i)
    BY <2>1, <2>4, FailWork
  <2>5. CASE at' = [at EXCEPT ![i] = @ + 1] /\ errChan' = errChan
    BY <2>1, <2>5, AdvanceWork DEF chanVars
  <2> QED BY <2>3, <2>4, <2>5
<1>4. CASE RunCancelled(i)
  <2>1. /\ UNCHANGED <<msgJobs, handler, jobs, reported, crashed, expired, resChan, calling>>
        /\ i \notin calling /\ ~Done(i) /\ Fail(i)
    BY <1>4 DEF RunCancelled, Running
  <2> QED BY <2>1, FailWork
<1> QED BY <1>1, <1>2, <1>3, <1>4

\* A step of the handler, or a panic: the jobs stay where they are.
LEMMA HandlerWork ==
    ASSUME IInv, RunInv, IInv',
           UNCHANGED <<msgJobs, at, calling, expired, chanVars>>,
           handler' = "waiting" => jobs' = Len(msgJobs),
           HandlerLeft' < HandlerLeft
    PROVE  RunInv' /\ DoesWork
<1>1. \A j \in DOMAIN msgJobs : tasks(j)' = tasks(j) /\ (Done(j)' <=> Done(j))
  BY DEF tasks, Done, chanVars
<1>2. RunInv'
  BY <1>1 DEF RunInv, RunOK
<1>3. WorkIsNat /\ WorkIsNat'
  BY <1>2, WorkTypes, PTL
<1>4. ASSUME NEW j \in DOMAIN msgJobs
      PROVE  JobLeft(j)' <= JobLeft(j)
  <2>1. JobLeft(j)' = JobLeft(j)
    BY <1>1 DEF JobLeft, LeftOf
  <2> QED BY <1>3, <2>1 DEF WorkIsNat
<1> QED BY <1>2, <1>3, <1>4 DEF DoesWork, WorkIsNat

\* The end of a job, by an answer, an error or a panic, and its deadline.
LEMMA EndWork ==
    ASSUME IInv, RunInv, IInv', NEW i \in DOMAIN msgJobs, Result(i) \/ Expire(i)
    PROVE  RunInv' /\ DoesWork
<1>1. CASE Expire(i)
  <2>1. /\ UNCHANGED <<msgJobs, handler, jobs, reported, crashed, at, calling, chanVars>>
        /\ expired' = expired \cup {i} /\ i \notin expired
    BY <1>1 DEF Expire
  <2>2. \A j \in DOMAIN msgJobs : (Done(j)' <=> Done(j)) /\ tasks(j)' = tasks(j)
    BY <2>1 DEF Done, chanVars, tasks
  <2>3. RunOK(i)'
    BY <2>1, <2>2 DEF RunOK, RunInv
  <2>4. JobLeft(i)' < JobLeft(i)
    <3>1. /\ JobLeft(i) = LeftOf(Done(i), Len(tasks(i)), at[i], i \in calling, FALSE)
          /\ JobLeft(i)' = LeftOf(Done(i), Len(tasks(i)), at[i], i \in calling, TRUE)
      BY <2>1, <2>2 DEF JobLeft, LeftOf
    <3>2. at[i] \in Nat /\ Len(tasks(i)) \in Nat
      BY RunningJob
    <3> QED BY <3>1, <3>2 DEF LeftOf
  <2> QED BY <2>1, <2>2, <2>3, <2>4, JobWork
<1>2. CASE Result(i)
  <2> DEFINE v == Format(Results[i][tasks(i)[Len(tasks(i))].name])
  <2>1. /\ UNCHANGED <<msgJobs, handler, jobs, reported, calling, expired>>
        /\ i \notin calling /\ ~Done(i) /\ ~crashed
    BY <1>2 DEF Result, Running
  <2>2. \/ Fail(i) /\ UNCHANGED <<resChan, crashed>>
        \/ crashed' = TRUE /\ UNCHANGED <<at, Results, chanVars>>
        \/ resChan' = Append(resChan, <<i, v>>) /\ UNCHANGED <<at, Results, errChan, crashed>>
    BY <1>2 DEF Result
  <2> HIDE DEF v
  <2>3. CASE Fail(i) /\ UNCHANGED <<resChan, crashed>>
    BY <2>1, <2>3, FailWork
  <2>4. CASE crashed' = TRUE /\ UNCHANGED <<at, Results, chanVars>>
    <3>1. handler' = "waiting" => jobs' = Len(msgJobs)
      BY <2>1 DEF RunInv
    <3>2. HandlerLeft' = HandlerLeft - 1 /\ HandlerLeft \in Nat
      <4> DEFINE stage == CASE handler = "creating" -> Len(msgJobs) - jobs + 2
                            [] handler = "waiting" -> 1
                            [] handler \in {"answered", "returned"} -> 0
                 rep == IF reported THEN 0 ELSE 1
      <4>1. HandlerLeft \in Nat
        BY WorkTypes DEF WorkIsNat
      <4>2. HandlerLeft = stage + rep + 1 /\ HandlerLeft' = stage + rep + 0
        BY <2>1, <2>4 DEF HandlerLeft
      <4>3. stage \in Int /\ rep \in Int
        <5>1. /\ Len(msgJobs) \in Nat /\ jobs \in 0..Len(msgJobs)
              /\ handler \in {"creating", "waiting", "answered", "returned"}
          BY RequestTypes DEF IInv, Control
        <5> QED BY <5>1
      <4> HIDE DEF stage, rep
      <4> QED BY <4>1, <4>2, <4>3
    <3>3. HandlerLeft' < HandlerLeft
      BY <3>2
    <3> QED BY <2>1, <2>4, <3>1, <3>3, HandlerWork
  <2>5. CASE resChan' = Append(resChan, <<i, v>>) /\ UNCHANGED <<at, Results, errChan, crashed>>
    <3>1. \A j \in DOMAIN msgJobs : (Done(j)' <=> Done(j) \/ j = i) /\ tasks(j)' = tasks(j)
      BY <2>1, <2>5, DoneGrows DEF IInv, tasks
    <3>2. /\ at[i] \in Nat /\ Len(tasks(i)) \in Nat /\ at[i] <= Len(tasks(i)) + 1
          /\ RunOK(i)'
      BY <2>1, <2>5, <3>1, RunningJob DEF RunInv, RunOK
    <3>3. JobLeft(i)' < JobLeft(i)
      <4>1. /\ JobLeft(i)' = LeftOf(TRUE, Len(tasks(i)), at[i], FALSE, i \in expired)
            /\ JobLeft(i) = LeftOf(FALSE, Len(tasks(i)), at[i], FALSE, i \in expired)
        BY <2>1, <2>5, <3>1 DEF JobLeft, LeftOf
      <4>2. (i \in expired) \in BOOLEAN /\ FALSE \in BOOLEAN
        OBVIOUS
      <4> QED BY <3>2, <4>1, <4>2, LeftType
    <3> QED BY <2>1, <2>5, <3>1, <3>2, <3>3, JobWork
  <2> QED BY <2>2, <2>3, <2>4, <2>5
<1> QED BY <1>1, <1>2

\* The steps of the handler, and the report.
LEMMA StageWork ==
    ASSUME IInv, RunInv, IInv', NewJobFromInfo \/ Wait \/ Respond \/ ReportReq
    PROVE  RunInv' /\ DoesWork
<1>1. /\ UNCHANGED <<msgJobs, at, calling, expired, chanVars>>
      /\ handler' = "waiting" => jobs' = Len(msgJobs)
  BY DEF NewJobFromInfo, Wait, Respond, ReportReq
<1>2. /\ Len(msgJobs) \in Nat /\ jobs \in 0..Len(msgJobs)
      /\ reported \in BOOLEAN /\ crashed \in BOOLEAN
  BY RequestTypes DEF IInv, Control
<1>3. CASE NewJobFromInfo
  <2>1. /\ handler = "creating" /\ UNCHANGED <<msgJobs, reported, crashed>>
        /\ jobs < Len(msgJobs)
        /\ \/ jobs' = jobs + 1 /\ handler' = "creating"
           \/ handler' = "returned"
    BY <1>3 DEF NewJobFromInfo
  <2>2. HandlerLeft' < HandlerLeft
    BY <1>2, <2>1 DEF HandlerLeft
  <2> QED BY <1>1, <2>2, HandlerWork
<1>4. CASE Wait
  <2>1. /\ handler = "creating" /\ UNCHANGED <<msgJobs, reported, crashed>>
        /\ jobs = Len(msgJobs) /\ handler' = "waiting"
    BY <1>4 DEF Wait
  <2>2. HandlerLeft' < HandlerLeft
    BY <1>2, <2>1 DEF HandlerLeft
  <2> QED BY <1>1, <2>2, HandlerWork
<1>5. CASE Respond
  <2>1. /\ handler = "waiting" /\ UNCHANGED <<msgJobs, reported, crashed>>
        /\ handler' \in {"answered", "returned"}
    BY <1>5 DEF Respond
  <2>2. HandlerLeft' < HandlerLeft
    BY <1>2, <2>1 DEF HandlerLeft
  <2> QED BY <1>1, <2>2, HandlerWork
<1>6. CASE ReportReq
  <2>1. /\ handler = "answered" /\ handler' = "answered" /\ ~reported /\ ~crashed
        /\ \/ reported' = TRUE /\ crashed' = crashed
           \/ reported' = reported /\ crashed' = TRUE
    BY <1>6 DEF ReportReq
  <2>2. HandlerLeft' < HandlerLeft
    BY <1>2, <2>1 DEF HandlerLeft
  <2> QED BY <1>1, <2>2, HandlerWork
<1> QED BY <1>3, <1>4, <1>5, <1>6

\* Every step does work.
LEMMA NextWork == IInv /\ RunInv /\ IInv' /\ Next => RunInv' /\ DoesWork
BY TaskWork, EndWork, StageWork DEF Next, JobStep

\* The invariant of the work holds always.
LEMMA RunInvariance == Spec => []RunInv
<1>1. Init => RunInv
  <2> SUFFICES ASSUME Init PROVE RunInv
    OBVIOUS
  <2>1. IInv
    BY InitInv
  <2>2. ASSUME NEW i \in DOMAIN msgJobs PROVE RunOK(i)
    <3>1. Len(tasks(i)) \in Nat /\ at[i] = 1 /\ calling = {}
      BY <2>1, RunningJob DEF Init
    <3> QED BY <3>1 DEF RunOK
  <2> QED BY <2>2 DEF RunInv, Init
<1>2. IInv /\ RunInv /\ UNCHANGED vars => RunInv'
  BY DEF RunInv, RunOK, Done, tasks, vars
<1>3. IInv /\ RunInv /\ IInv' /\ [Next]_vars => RunInv'
  BY <1>2, NextWork
<1> QED BY <1>1, <1>3, Invariance, PTL DEF Spec

\* A request of any jobs is a bounded amount of work, which no step adds to and
\* every step does part of: goroutines, deadlines, errors and the handler never go
\* round in a circle.
THEOREM RequestsRunDown == Spec => []WorkIsNat /\ [][DoesWork]_vars
<1>1. IInv /\ RunInv /\ IInv' /\ [Next]_vars => [DoesWork]_vars
  BY NextWork
<1> QED BY <1>1, WorkTypes, Invariance, RunInvariance, PTL DEF Spec

\* The handler, its jobs, their deadlines and the two channels never wait for each
\* other in a circle: while a request is in progress, a goroutine can go on, or a
\* job is in http.Get.
THEOREM OnlyHttpHoldsUp == Spec => []WaitsForHttpOnly
<1>1. IInv /\ RunInv => WaitsForHttpOnly
  <2> SUFFICES ASSUME IInv, RunInv, handler \in {"creating", "waiting"}, ~crashed, calling = {}
               PROVE  Proceeds
    BY DEF WaitsForHttpOnly
  <2>1. /\ Len(msgJobs) \in Nat /\ DOMAIN msgJobs = 1..Len(msgJobs)
        /\ jobs \in 0..Len(msgJobs)
    BY RequestTypes DEF IInv, Control
  <2>2. CASE handler = "creating"
    BY <2>1, <2>2 DEF Proceeds
  <2>3. CASE handler = "waiting"
    <3>1. DOMAIN msgJobs = 1..jobs
      BY <2>1, <2>3 DEF RunInv
    <3> QED BY <2>3, <3>1 DEF Proceeds, Running
  <2> QED BY <2>2, <2>3
<1> QED BY <1>1, Invariance, RunInvariance, PTL
=============================================================================
