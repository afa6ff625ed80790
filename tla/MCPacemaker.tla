---------------------------- MODULE MCPacemaker ----------------------------
(***************************************************************************)
(* Job directories: jobs with and without tasks, two of one id, and every  *)
(* kind of file that yields no job.  The blank id's hash lies between      *)
(* those of the servers.                                                   *)
(***************************************************************************)
EXTENDS Pacemaker

CONSTANTS j1, j2, s1, s2, s3

Hashes == [i \in AnyId |-> CASE i = s1 -> 7 [] i = NoId -> 8 [] i = s2 -> 9 [] i = s3 -> 12]

Job(id, k) == [kind |-> "job", id |-> id, tasks |-> k]
NoJob(kind) == [kind |-> kind, id |-> j1, tasks |-> 0]

SmallDirs ==
    {<<>>, <<Job(j1, 3), NoJob("unreadable")>>, <<Job(j1, 0), Job(j2, 1)>>}
    \cup {<<NoJob(k), Job(j1, 3), Job(j2, 1)>> : k \in {"subdir", "malformed"}}
    \cup {<<Job(j1, 3), NoJob("unsupported"), Job(j1, 1)>>}
    \cup {<<Job(j1, 3), Job(j2, 1), Job(j1, 2), Job(j2, 1)>>}
=============================================================================
