---------------------------- MODULE MCJobQueueLive ----------------------------
(* One night and one setup under the timer's fairness, for TLC.            *)
EXTENDS JobQueue

CONSTANTS n1, s1

MCJobs  == {n1, s1}
MCKeyOf == [j \in MCJobs |-> NoKey]
=============================================================================
