---------------------------- MODULE WindowDeadline ----------------------------
(***************************************************************************)
(* The overnight window's time: its stop instant on two clocks, the budget *)
(* it reads before a job, the phone it waits for, the queue child it runs  *)
(* and stops, the title recovery and the restore (overnight-window.py).    *)
(* WindowSettings models what is restored, JobQueue the jobs themselves.   *)
(*                                                                         *)
(* Time is in minutes. A state that waits passes them one by one up to its *)
(* own bound and may end at any of them; polls of a tenth of a second pass *)
(* none. The code's second bounds are rounded up.                          *)
(***************************************************************************)
EXTENDS Integers, Sequences, FiniteSets

CONSTANTS
  Queues,         (* the queues a window may find: the budgets in order     *)
  EndAt,          (* the window's end                                       *)
  LOCK_WAIT, CHILD_WAIT, STOP_GRACE, TERM_GRACE, NIGHT_RECOVERY, RESTORE_BUDGET,
  Clocks,         (* what may befall the host's clocks: "none", "suspend",  *)
                  (* "step"                                                 *)
  Jump,           (* how far (a bound)                                      *)
  Cancels         (* the owner may cancel a waiting job                     *)

MAX_HOLDS == 3

(* Mutant: the time kept for a killed night's title is forgotten.          *)
StopAtLate == EndAt - RESTORE_BUDGET - STOP_GRACE - TERM_GRACE

(* TERM_GRACE holds the few seconds of SIGKILL's too.                      *)
StopAt == EndAt - RESTORE_BUDGET - NIGHT_RECOVERY - STOP_GRACE - TERM_GRACE

(* Of the constants; assumed where they are given their values.           *)
WindowAssumption ==
  /\ Queues \subseteq Seq(Nat) /\ Queues # {}
  /\ \A n \in {EndAt, LOCK_WAIT, CHILD_WAIT, STOP_GRACE, TERM_GRACE, NIGHT_RECOVERY, RESTORE_BUDGET, Jump} : n \in Nat
  /\ StopAt \in Nat
  /\ Clocks \subseteq {"none", "suspend", "step"} /\ Clocks # {} /\ Cancels \in BOOLEAN

VARIABLES
  real,      (* minutes since the window opened                            *)
  mono,      (* CLOCK_MONOTONIC, which stops while the host sleeps         *)
  wall,      (* the wall clock, which may be stepped                       *)
  clocks,    (* what befalls them in this run                              *)
  queue,     (* the budgets of the jobs still PENDING                      *)
  job,       (* the budget of the job in hand, 0 for none                  *)
  unread,    (* a night was started whose title nobody observed since      *)
  pc, t,     (* where the window is, and for how long                      *)
  wait,      (* the queue child's --wait                                   *)
  holds

time == <<real, mono, wall, clocks>>
windowVars == <<time, queue, job, unread, pc, t, wait, holds>>

Child    == {"child", "job"}
Stopping == {"sigint", "sigterm"}
Cleaning == {"recover", "restore"}

LesserOf(a, b) == IF a < b THEN a ELSE b

(* Mutant: the deadline is kept on the monotonic clock alone.              *)
remainingMono == StopAt - mono

(* Deadline: an instant on both clocks; whichever says it has passed.      *)
remaining == LesserOf(StopAt - mono, StopAt - wall)
passed == remaining <= 0

(* next_budget: the ceiling of the first PENDING job.                      *)
next_budget == Head(queue)

WindowInit ==
  /\ real = 0 /\ mono = 0 /\ wall = 0 /\ clocks \in Clocks
  /\ queue \in Queues /\ job = 0 /\ unread = FALSE
  /\ pc = "loop" /\ t = 0 /\ wait = 0 /\ holds = 0

Enter(next) == pc' = next /\ t' = 0

Bound ==
  CASE pc = "phone" -> LOCK_WAIT [] pc = "child" -> wait [] pc = "job" -> job
    [] pc = "sigint" -> STOP_GRACE [] pc = "sigterm" -> TERM_GRACE
    [] pc = "recover" -> NIGHT_RECOVERY [] pc = "restore" -> RESTORE_BUDGET [] OTHER -> 0

(* A minute passes; not past a poll that would see the deadline.           *)
Tick ==
  /\ t < Bound /\ ~(pc \in Child /\ passed)
  /\ t' = t + 1 /\ real' = real + 1 /\ mono' = mono + 1 /\ wall' = wall + 1
  /\ UNCHANGED <<clocks, queue, job, unread, pc, wait, holds>>

(* The host sleeps, or its wall clock is set, once.                        *)
Suspend ==
  /\ clocks = "suspend" /\ clocks' = "none" /\ pc # "closed"
  /\ \E d \in 1..Jump : real' = real + d /\ wall' = wall + d
  /\ UNCHANGED <<mono, queue, job, unread, pc, t, wait, holds>>

StepClock ==
  /\ clocks = "step" /\ clocks' = "none" /\ pc # "closed"
  /\ \E d \in -Jump..Jump : wall' = wall + d
  /\ UNCHANGED <<real, mono, queue, job, unread, pc, t, wait, holds>>

(* The owner cancels a job that still waits.                               *)
Cancel ==
  /\ Cancels /\ pc # "closed"
  /\ \E i \in DOMAIN queue : queue' = SubSeq(queue, 1, i - 1) \o SubSeq(queue, i + 1, Len(queue))
  /\ UNCHANGED <<time, job, unread, pc, t, wait, holds>>

(***************************************************************************)
(* The loop.                                                               *)
(***************************************************************************)
(* Mutant: an outcome goes straight to the restore.                        *)
endAtOnce == Enter("restore")

(* Any outcome goes to the clean-up: the title first, if a night is open.  *)
end == Enter(IF unread THEN "recover" ELSE "restore")

(* Drained, no room before the stop, or on to the phone.                   *)
CheckNext ==
  /\ pc = "loop"
  /\ IF queue = <<>> \/ remaining < CHILD_WAIT + next_budget THEN end ELSE Enter("phone")
  /\ UNCHANGED <<time, queue, job, unread, wait, holds>>

(* A locked phone is waited for; the queue child then gets what is left of *)
(* its own wait over the budget read before.                               *)
PhoneReady ==
  /\ pc = "phone"
  /\ LET left == remaining - (IF queue = <<>> THEN 0 ELSE next_budget)
     IN  wait' = IF left < 0 THEN 0 ELSE LesserOf(CHILD_WAIT, left)
  /\ Enter("child")
  /\ UNCHANGED <<time, queue, job, unread, holds>>

PhoneRefuses ==
  /\ pc = "phone" /\ end
  /\ UNCHANGED <<time, queue, job, unread, wait, holds>>

(* The child claims what is first by then; a night leaves the title.       *)
Claim ==
  /\ pc = "child" /\ queue # <<>>
  /\ job' = next_budget /\ queue' = Tail(queue) /\ unread' \in BOOLEAN /\ (unread => unread')
  /\ Enter("job")
  /\ UNCHANGED <<time, wait, holds>>

(* Nothing to claim, or no ready device in its wait.                       *)
ChildEmpty ==
  /\ pc = "child" /\ queue = <<>> /\ end
  /\ UNCHANGED <<time, queue, job, unread, wait, holds>>

ChildHolds ==
  /\ pc = "child" /\ holds' = holds + 1
  /\ IF holds' >= MAX_HOLDS THEN end ELSE Enter("loop")
  /\ UNCHANGED <<time, queue, job, unread, wait>>

(* A night that ended well has observed its title; a job that failed or    *)
(* was stopped at its own ceiling ends the window.                         *)
JobDone ==
  /\ pc = "job" /\ holds' = 0 /\ job' = 0 /\ unread' = FALSE /\ Enter("loop")
  /\ UNCHANGED <<time, queue, wait>>

JobFails ==
  /\ pc = "job" /\ job' = 0 /\ end
  /\ UNCHANGED <<time, queue, unread, wait, holds>>

(* The deadline, or a signal to the window.                                *)
StopChild ==
  /\ pc \in Child /\ Enter("sigint")
  /\ UNCHANGED <<time, queue, job, unread, wait, holds>>

(* SIGINT, SIGTERM, SIGKILL: a child that goes may have read the title, if *)
(* it was not the second signal it went on.                                *)
ChildGone ==
  /\ pc \in Stopping /\ job' = 0
  /\ unread' = (unread /\ (pc = "sigterm" \/ t = STOP_GRACE))
  /\ Enter(IF unread' THEN "recover" ELSE "restore")
  /\ UNCHANGED <<time, queue, wait, holds>>

ChildStays ==
  /\ pc = "sigint" /\ t = STOP_GRACE /\ Enter("sigterm")
  /\ UNCHANGED <<time, queue, job, unread, wait, holds>>

Recovered ==
  /\ pc = "recover" /\ unread' = FALSE /\ Enter("restore")
  /\ UNCHANGED <<time, queue, job, wait, holds>>

Closed ==
  /\ pc = "restore" /\ Enter("closed")
  /\ UNCHANGED <<time, queue, job, unread, wait, holds>>

WindowNext == \/ Tick \/ Suspend \/ StepClock \/ Cancel
        \/ CheckNext \/ PhoneReady \/ PhoneRefuses \/ Claim \/ ChildEmpty \/ ChildHolds
        \/ JobDone \/ JobFails \/ StopChild \/ ChildGone \/ ChildStays \/ Recovered \/ Closed

WindowSpec == WindowInit /\ [][WindowNext]_windowVars

-------------------------------------------------------------------------------
(* Every variable stays in its set, a wait within its bound, and the       *)
(* monotonic clock never ahead of real time.                               *)
WindowTypeOK ==
  /\ real \in Nat /\ mono \in 0..real /\ wall \in Int /\ clocks \in {"none", "suspend", "step"}
  /\ queue \in Seq(Nat) /\ job \in Nat /\ unread \in BOOLEAN
  /\ pc \in {"loop", "phone", "closed"} \union Child \union Stopping \union Cleaning
  /\ t \in 0..Bound /\ wait \in 0..CHILD_WAIT /\ holds \in 0..MAX_HOLDS

(* No minute of a job passes on the owner's phone past the stop instant:   *)
(* neither a suspend, which stops one clock, nor a step, which moves the   *)
(* other, carries a job over it.                                           *)
NoJobPastTheStop == [][Tick /\ pc \in Child => real < StopAt]_windowVars

(* The ceilings of the jobs a window may find.                             *)
Budgets == UNION {{q[i] : i \in DOMAIN q} : q \in Queues}

(* By the limit, or past it by what the wait for a locked phone takes      *)
(* beyond the room that was checked for some job.                          *)
InTime(now, limit) == now <= limit \/ \E b \in Budgets : now <= limit + LOCK_WAIT - (CHILD_WAIT + b)

(* Whatever was running at the stop, the window has closed -- the child    *)
(* stopped through its graces, the title recovered, the phone restored --  *)
(* by its end, in the time the host was awake: only a lock wait longer     *)
(* than the room checked before it can carry it over, by the difference.   *)
ClosedInTime == InTime(mono, EndAt)

(* No night is left on the screen when the settings go back.               *)
NoNightAtTheRestore == pc \in {"restore", "closed"} => ~unread

(* Whatever was running at the stop -- a job, a lock wait, a night the     *)
(* child left on the screen -- both hold.                                  *)
WindowClosesInTime == ClosedInTime /\ NoNightAtTheRestore

(* overnight-window.py:946-948: the child's graces, the leave and the      *)
(* restore "all fit before the window's end".                              *)
ClosesByItsEnd == mono <= EndAt

(* overnight-window.py:161-162: no job starts unless its ceiling fits      *)
(* before the stop.                                                        *)
StartsOnlyWhatFits == [][Claim => real + next_budget <= StopAt]_windowVars
=============================================================================
