------------------------------ MODULE MCJobQueue ------------------------------
(* Two nights and a setup enqueued twice under one idempotency key, one    *)
(* window's runner and one agent's (cue.queue.run), for TLC.               *)
EXTENDS JobQueue

CONSTANTS n1, n2, s1, s2, key

MCJobs   == {n1, n2, s1, s2}
MCNights == {n1, n2}
MCKeyOf  == [j \in MCJobs |-> IF j \in MCNights THEN NoKey ELSE key]
=============================================================================
