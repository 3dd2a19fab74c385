------------------------------ MODULE JobLedger ------------------------------
(***************************************************************************)
(* What the Companion queue promises about a job, whoever runs it, however *)
(* often a runner is killed and whatever the queue file goes through:      *)
(*                                                                         *)
(*  - a job moves only along its lifecycle, and an end is final;           *)
(*  - at most one job is RUNNING;                                          *)
(*  - a night is played at most once: the one way back from RUNNING to     *)
(*    PENDING is closed to a night that was played.                        *)
(*                                                                         *)
(* JobQueue implements this specification; see JobQueue.Ledger.            *)
(***************************************************************************)
EXTENDS Naturals

CONSTANTS
  Jobs,     (* the job ids a queue file may ever hold                      *)
  Nights    (* those of kind "night"; the rest are setups and checks       *)

VARIABLES
  state,    (* the "state" field of each job, "ABSENT" before enqueue      *)
  plays     (* how many times a night's runner was started on the phone    *)

ledger == <<state, plays>>

Ended == {"DONE", "FAILED", "CANCELLED"}

Lifecycle == {<<"ABSENT", "PENDING">>, <<"PENDING", "RUNNING">>, <<"PENDING", "CANCELLED">>,
              <<"RUNNING", "PENDING">>, <<"RUNNING", "DONE">>, <<"RUNNING", "FAILED">>}

Init ==
  /\ state = [j \in Jobs |-> "ABSENT"]
  /\ plays = [j \in Jobs |-> 0]

(* A job's record is rewritten. One write of the queue file may move two   *)
(* jobs: a claim first releases what a killed runner left RUNNING.         *)
Record ==
  /\ \A j \in Jobs :
        /\ state'[j] # state[j] => <<state[j], state'[j]>> \in Lifecycle
        /\ state[j] = "RUNNING" /\ state'[j] = "PENDING" => plays[j] = 0
  /\ \A i, j \in Jobs : state'[i] = "RUNNING" /\ state'[j] = "RUNNING" => i = j
  /\ UNCHANGED plays

(* A night is played. Its claimer may be dead by then, and the job already *)
(* FAILED by the release: that is still the night's only play.             *)
Play(j) ==
  /\ j \in Nights
  /\ state[j] \in {"RUNNING", "FAILED"}
  /\ plays[j] = 0
  /\ plays' = [plays EXCEPT ![j] = 1]
  /\ UNCHANGED state

Next == Record \/ \E j \in Jobs : Play(j)

Spec == Init /\ [][Next]_ledger
=============================================================================
