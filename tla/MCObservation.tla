--------------------------- MODULE MCObservation ---------------------------
(***************************************************************************)
(* Requests of up to two jobs: the pipeline of jobs_def (http, json,       *)
(* math), the same ending in log, ones with a strategy or a task type      *)
(* nobody knows, one without tasks, one of an unknown job type.            *)
(***************************************************************************)
EXTENDS Observation

CONSTANTS fetch, parse, multiply

T(type, name, input) == [type |-> type, name |-> name, input |-> input]
J(known, mean, t) == [known |-> known, mean |-> mean, tasks |-> t]

Fetch == T("http", fetch, fetch)
Price == <<Fetch, T("json", parse, fetch), T("math", multiply, parse)>>
Logged == <<Fetch, T("log", parse, fetch)>>
Scaled == <<Fetch, T("math", multiply, fetch)>>
Odd == <<T("other", fetch, fetch)>>

Good == {J(TRUE, TRUE, Price), J(TRUE, TRUE, Scaled)}
Bad == {J(TRUE, TRUE, Logged), J(TRUE, FALSE, <<Fetch>>), J(TRUE, TRUE, Odd),
        J(TRUE, TRUE, <<>>), J(FALSE, TRUE, Price)}

SmallRequests ==
    {<<>>} \cup {<<p>> : p \in Good \cup Bad} \cup {<<p, q>> : p \in Good, q \in Good \cup Bad}
=============================================================================
