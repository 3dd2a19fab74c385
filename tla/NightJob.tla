------------------------------- MODULE NightJob -------------------------------
(***************************************************************************)
(* One night job (night-job.py): the bound night, the title before it, the *)
(* runner, the title after it, and what the queue is told.  Time is in     *)
(* units of ten seconds: a step takes any of its Paces up to its bound.    *)
(* What the job is to the queue is JobQueue's.                             *)
(***************************************************************************)
EXTENDS Integers

CONSTANTS Night,      (* the night's own length                            *)
          Paces,      (* how a step may go, in tenths of its bound         *)
          Signals     (* whether the window may interrupt the job          *)

(* Of the constants; assumed where they are given their values.           *)
NightJobAssumption == Night \in Nat /\ Paces \subseteq 0..10 /\ Paces # {} /\ Signals \in BOOLEAN

Bounds == [emit |-> 12, audio |-> 12, setup |-> 18, read |-> 9, adb |-> 2,
           pre |-> 30, post |-> 60, graces |-> 15, title |-> 30]

runner_timeout == Bounds.pre + Night + Bounds.post

(* Mutant: the title after the night is not budgeted.                      *)
budgetBeforeTheTitle == Bounds.emit + Bounds.audio + Bounds.setup + Bounds.read + runner_timeout

budget == Bounds.emit + Bounds.audio + Bounds.setup + Bounds.read + runner_timeout + Bounds.title

VARIABLES
  at,        (* the step the job is in                                     *)
  phase,     (* "before" or "after" the night                              *)
  spent,
  again,     (* the phases in which the game was force-stopped and set up  *)
             (* again                                                      *)
  seen,      (* the last read was of the title                             *)
  aborted, terminated,   (* a signal came; one of them SIGTERM             *)
  shown,     (* what the game shows: "elsewhere", "title", "night"         *)
  started, stopped, ran, (* the runner started, was stopped at its bound,  *)
                         (* ran to the night's terminal                    *)
  outcome    (* "none", or what the record says                            *)

signals == <<aborted, terminated>>
night == <<started, stopped, ran>>
jobVars == <<at, phase, spent, again, seen, signals, shown, night, outcome>>

JobInit ==
  /\ at = "bind" /\ phase = "before" /\ spent = 0 /\ again = {} /\ seen = FALSE
  /\ aborted = FALSE /\ terminated = FALSE /\ shown \in {"elsewhere", "title"}
  /\ started = FALSE /\ stopped = FALSE /\ ran = FALSE /\ outcome = "none"

Takes(bound) == \E p \in Paces : spent' = spent + (bound * p) \div 10
Goes(next) == at' = next /\ UNCHANGED outcome
Ends(how) == at' = "done" /\ outcome' = how
(* A step that fails of the interrupt is the interrupt's.                  *)
Refuses(why) == Ends(IF aborted THEN "INTERRUPTED" ELSE why)

(* SIGINT, SIGHUP or SIGTERM to the job's group; held in the title's       *)
(* recovery after the night.                                               *)
Signal ==
  /\ Signals /\ at # "done" /\ ~(started /\ phase = "after") /\ ~terminated
  /\ aborted' = TRUE /\ terminated' \in BOOLEAN
  /\ UNCHANGED <<at, phase, spent, again, seen, shown, night, outcome>>

(* Winner, plan and budget as queued, then the audio link.                 *)
Bind ==
  /\ at = "bind" /\ Takes(Bounds.emit)
  /\ Refuses("INVALID") \/ (~aborted /\ Goes("audio"))
  /\ UNCHANGED <<phase, again, seen, signals, shown, night>>

Audio ==
  /\ at = "audio" /\ Takes(Bounds.audio)
  /\ Refuses("AUDIO_LINK") \/ Goes("setup")
  /\ UNCHANGED <<phase, again, seen, signals, shown, night>>

(* Mutant: a hold after the night is the job's hold too.                   *)
SetupHoldsLate ==
  /\ at = "setup" /\ Takes(Bounds.setup)
  /\ \/ Ends("HELD") /\ UNCHANGED shown
     \/ shown' \in {shown, "title"} /\ Goes("read")
     \/ phase \notin again /\ Goes("relaunch") /\ UNCHANGED shown
  /\ UNCHANGED <<phase, again, seen, signals, night>>

(* companion-setup.sh: it holds, fails or brings the title. After the      *)
(* night, and after a relaunch, a failure is left for the read to find.    *)
Setup ==
  /\ at = "setup" /\ Takes(Bounds.setup)
  /\ \/ phase = "before" /\ Ends("HELD") /\ UNCHANGED shown
     \/ shown' \in {shown, "title"} /\ Goes("read")
     \/ phase \notin again /\ Goes("relaunch") /\ UNCHANGED shown
  /\ UNCHANGED <<phase, again, seen, signals, night>>

ReadTitle ==
  /\ at = "read" /\ Takes(Bounds.read)
  /\ \/ shown = "title" /\ seen' = TRUE /\ Goes(IF phase = "before" THEN "compare" ELSE "judge")
     \/ seen' = FALSE /\ IF phase \in again THEN Goes(IF phase = "before" THEN "unread" ELSE "judge") ELSE Goes("relaunch")
  /\ UNCHANGED <<phase, again, signals, shown, night>>

(* Force-stop and set up again: once, and before the night not under an    *)
(* interrupt.                                                              *)
Relaunch ==
  /\ at = "relaunch"
  /\ IF aborted /\ phase = "before"
     THEN Goes("unread") /\ UNCHANGED <<spent, again, shown>>
     ELSE Takes(Bounds.adb) /\ again' = again \union {phase} /\ shown' \in {shown, "elsewhere"} /\ Goes("setup")
  /\ UNCHANGED <<phase, seen, signals, night>>

Unread ==
  /\ at = "unread" /\ Refuses("TITLE_UNREADABLE")
  /\ UNCHANGED <<phase, spent, again, seen, signals, shown, night>>

(* The title's rows and its night, against the job's; a last look for an   *)
(* interrupt.                                                              *)
Compare ==
  /\ at = "compare"
  /\ Refuses("TITLE_MISMATCH") \/ (~aborted /\ Goes("runner"))
  /\ UNCHANGED <<phase, spent, again, seen, signals, shown, night>>

(* The runner ends, or is stopped at its bound through its graces; then    *)
(* the title again, unless a SIGTERM left that to the window.              *)
Runner ==
  /\ at = "runner" /\ started' = TRUE
  /\ \/ Takes(runner_timeout) /\ stopped' = FALSE /\ ran' \in BOOLEAN
     \/ \E p \in Paces : spent' = spent + runner_timeout + (Bounds.graces * p) \div 10 /\ stopped' = TRUE /\ ran' \in BOOLEAN
  /\ shown' \in {"night", "elsewhere", "title"} /\ phase' = "after" /\ seen' = FALSE
  /\ Goes(IF terminated THEN "judge" ELSE "read")
  /\ UNCHANGED <<again, signals>>

(* Mutant: the job's word is given before the title's is asked.            *)
JudgeTheRunFirst ==
  /\ at = "judge"
  /\ Ends(IF aborted THEN "INTERRUPTED" ELSE IF stopped THEN "RUNNER_TIMEOUT"
          ELSE IF ~ran THEN "RUNNER_FAILED" ELSE "NIGHT_PLAYED")
  /\ UNCHANGED <<phase, spent, again, seen, signals, shown, night>>

(* An interrupt, then the title, then the runner's bound, then its night.  *)
Judge ==
  /\ at = "judge"
  /\ Ends(IF aborted THEN "INTERRUPTED" ELSE IF ~seen THEN "TITLE_NOT_RESTORED" ELSE IF stopped THEN "RUNNER_TIMEOUT"
          ELSE IF ~ran THEN "RUNNER_FAILED" ELSE "NIGHT_PLAYED")
  /\ UNCHANGED <<phase, spent, again, seen, signals, shown, night>>

Steps == Bind \/ Audio \/ Setup \/ ReadTitle \/ Relaunch \/ Unread \/ Compare \/ Runner \/ Judge
JobNext == Signal \/ Steps

JobSpec == JobInit /\ [][JobNext]_jobVars /\ WF_jobVars(Steps)

-------------------------------------------------------------------------------
(* Every variable stays in its set.                                        *)
JobTypeOK ==
  /\ at \in {"bind", "audio", "setup", "read", "relaunch", "unread", "compare", "runner", "judge", "done"}
  /\ phase \in {"before", "after"} /\ again \subseteq {"before", "after"} /\ spent \in Nat
  /\ {aborted, terminated, seen, started, stopped, ran} \subseteq BOOLEAN
  /\ shown \in {"elsewhere", "title", "night"}
  /\ outcome \in {"none", "INVALID", "AUDIO_LINK", "HELD", "INTERRUPTED", "TITLE_UNREADABLE", "TITLE_MISMATCH",
       "RUNNER_TIMEOUT", "RUNNER_FAILED", "TITLE_NOT_RESTORED", "NIGHT_PLAYED"}
  /\ outcome = "none" <=> at # "done"

(* A hold puts the night back in line: it never follows a night's start.   *)
HeldBeforeTheNight == outcome = "HELD" => ~started

(* What is reported played ran to its terminal in its own time, and the    *)
(* game was seen back at the title.                                        *)
PlayedAndBack == outcome = "NIGHT_PLAYED" => ran /\ ~stopped /\ seen /\ shown = "title" /\ ~aborted

(* A job that neither relaunched the game nor stopped its runner keeps to  *)
(* its budget.                                                             *)
FitsBudgetUndisturbed == again = {} /\ ~stopped => spent <= budget

(* What a night job reports is what happened: played means the runner came *)
(* to its terminal and the game was seen back at the title; held means that*)
(* no night was started; and a job nothing disturbed kept to the budget the*)
(* window reserved for it.                                                 *)
JobReportsWhatHappened == PlayedAndBack /\ HeldBeforeTheNight /\ FitsBudgetUndisturbed

(* night_jobs.budget_s: "The job's whole bound: every pre-night step, the  *)
(* runner, and the title after."                                           *)
FitsBudget == spent <= budget
===============================================================================
