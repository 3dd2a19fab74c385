---------------------------- MODULE Programs_proofs ----------------------------
(***************************************************************************)
(* The programs an overnight night passes through, for every value of      *)
(* their constants: the window that starts a queue child, the night job    *)
(* the child runs, the executor that plays the night.                      *)
(*                                                                         *)
(* The window closes by its end but for what a locked phone was waited for *)
(* beyond the room checked, no minute of a job passes after the stop, and  *)
(* the job reports what happened. A plan waits for the office, a halt      *)
(* stands, and nothing of an execution that is over is left in the feed.   *)
(***************************************************************************)
EXTENDS WindowDeadline, NightJob, NightExecutor, SequenceTheorems, TLAPS

(***************************************************************************)
(* The window. Its inductive invariant bounds, for each place, the instant *)
(* at which the place was entered; the job's bounds, for each step, the    *)
(* time the steps before it can have taken.                                *)
(***************************************************************************)
EnteredAt == mono - t

(* Where a suspend or a step is still to come, nothing has befallen the    *)
(* clocks; afterwards one of the two is still right.                       *)
ClockInv ==
  /\ clocks = "suspend" => mono = real /\ wall = real
  /\ clocks = "step" => mono = real /\ wall = real
  /\ mono = real \/ wall = real

QueueInv == queue \in Seq(Budgets)

HoldsInv == pc \in {"loop", "phone"} \union Child => holds < MAX_HOLDS

(* The latest instant at which the window can have come to its place.      *)
WindowPlaceInv ==
  /\ pc \in {"loop"} \union Child => InTime(mono, StopAt)
  /\ pc = "phone"   => \E b \in Budgets : EnteredAt <= StopAt - (CHILD_WAIT + b)
  /\ pc = "sigint"  => InTime(EnteredAt, StopAt)
  /\ pc = "sigterm" => InTime(EnteredAt, StopAt + STOP_GRACE)
  /\ pc = "recover" => InTime(EnteredAt, StopAt + STOP_GRACE + TERM_GRACE)
  /\ pc = "restore" => InTime(EnteredAt, StopAt + STOP_GRACE + TERM_GRACE + NIGHT_RECOVERY)
  /\ pc = "closed"  => InTime(mono, EndAt)

WindowInv == WindowTypeOK /\ QueueInv /\ ClockInv /\ HoldsInv /\ WindowPlaceInv /\ NoNightAtTheRestore

(* The stop leaves room for everything that may follow it; budgets are     *)
(* numbers, and a window's queue holds only them.                          *)
LEMMA WindowConstants ==
  ASSUME WindowAssumption
  PROVE  /\ EndAt \in Nat /\ LOCK_WAIT \in Nat /\ CHILD_WAIT \in Nat /\ STOP_GRACE \in Nat
         /\ TERM_GRACE \in Nat /\ NIGHT_RECOVERY \in Nat /\ RESTORE_BUDGET \in Nat /\ Jump \in Nat
         /\ StopAt \in Nat
         /\ StopAt + STOP_GRACE + TERM_GRACE + NIGHT_RECOVERY + RESTORE_BUDGET = EndAt
         /\ Budgets \subseteq Nat
         /\ Queues \subseteq Seq(Budgets)
         /\ Clocks \subseteq {"none", "suspend", "step"}
<1>1. /\ EndAt \in Nat /\ LOCK_WAIT \in Nat /\ CHILD_WAIT \in Nat /\ STOP_GRACE \in Nat
      /\ TERM_GRACE \in Nat /\ NIGHT_RECOVERY \in Nat /\ RESTORE_BUDGET \in Nat /\ Jump \in Nat
      /\ StopAt \in Nat /\ Clocks \subseteq {"none", "suspend", "step"}
  BY DEF WindowAssumption
<1>2. StopAt + STOP_GRACE + TERM_GRACE + NIGHT_RECOVERY + RESTORE_BUDGET = EndAt
  BY <1>1 DEF StopAt
<1>3. ASSUME NEW q \in Queues PROVE q \in Seq(Nat) /\ q \in Seq(Budgets)
  <2>1. q \in Seq(Nat)
    BY DEF WindowAssumption
  <2>2. Range(q) \subseteq Budgets
    BY DEF Range, Budgets
  <2>3. q \in Seq(Range(q))
    BY <2>1, SeqOfRange
  <2>4. q \in Seq(Budgets)
    BY <2>2, <2>3, SeqMonotonic
  <2> QED BY <2>1, <2>4
<1>4. Budgets \subseteq Nat
  <2> SUFFICES ASSUME NEW q \in Queues, NEW i \in DOMAIN q PROVE q[i] \in Nat
    BY DEF Budgets
  <2>1. q \in Seq(Nat)
    BY <1>3
  <2>2. i \in 1..Len(q)
    BY <2>1, LenProperties
  <2> QED BY <2>1, <2>2, ElementOfSeq
<1> QED BY <1>1, <1>2, <1>3, <1>4

(* What was in time for a limit is, some minutes on, for one as much later.*)
LEMMA InTimeShifts ==
  ASSUME WindowAssumption, NEW m \in Int, NEW n \in Int, NEW k \in Int, NEW l \in Int,
         InTime(n, l), m - n <= k - l
  PROVE  InTime(m, k)
<1>1. CASE n <= l
  BY <1>1 DEF InTime
<1>2. ASSUME NEW b \in Budgets, n <= l + LOCK_WAIT - (CHILD_WAIT + b) PROVE InTime(m, k)
  <2>1. b \in Nat /\ LOCK_WAIT \in Nat /\ CHILD_WAIT \in Nat
    BY WindowConstants
  <2>2. m <= k + LOCK_WAIT - (CHILD_WAIT + b)
    BY <1>2, <2>1
  <2> QED BY <2>2 DEF InTime
<1> QED BY <1>1, <1>2 DEF InTime

(* The room checked before the lock wait: what it may overrun.             *)
LEMMA AfterTheLock ==
  ASSUME WindowAssumption, mono \in Int, t \in 0..LOCK_WAIT,
         \E b \in Budgets : EnteredAt <= StopAt - (CHILD_WAIT + b)
  PROVE  InTime(mono, StopAt)
<1>1. PICK b \in Budgets : EnteredAt <= StopAt - (CHILD_WAIT + b)
  OBVIOUS
<1>2. b \in Nat /\ LOCK_WAIT \in Nat /\ CHILD_WAIT \in Nat /\ StopAt \in Nat
  BY WindowConstants
<1>3. mono <= StopAt + LOCK_WAIT - (CHILD_WAIT + b)
  BY <1>1, <1>2 DEF EnteredAt
<1> QED BY <1>3 DEF InTime

(* The window is initially at its loop, and on time.                       *)
LEMMA WindowBegins ==
  ASSUME WindowAssumption, WindowInit
  PROVE  WindowInv
<1>1. WindowTypeOK /\ QueueInv
  <2>1. queue \in Seq(Budgets) /\ queue \in Seq(Nat) /\ clocks \in {"none", "suspend", "step"}
    BY WindowConstants, SeqMonotonic DEF WindowInit
  <2>2. Bound = 0
    BY DEF WindowInit, Bound
  <2>3. CHILD_WAIT \in Nat
    BY WindowConstants
  <2>4. 0 \in Nat /\ 0 \in 0..0 /\ 0 \in 0..CHILD_WAIT /\ 0 \in 0..3
    BY <2>3
  <2>5. unread \in BOOLEAN
    BY DEF WindowInit
  <2> QED BY <2>1, <2>2, <2>4, <2>5 DEF WindowInit, WindowTypeOK, QueueInv, MAX_HOLDS, Child, Stopping, Cleaning
<1>2. ClockInv /\ HoldsInv /\ NoNightAtTheRestore
  BY DEF WindowInit, ClockInv, HoldsInv, NoNightAtTheRestore, MAX_HOLDS
<1>3. WindowPlaceInv
  BY WindowConstants DEF WindowInit, WindowPlaceInv, InTime, Child
<1> QED BY <1>1, <1>2, <1>3 DEF WindowInv

(* How long each place may last.                                           *)
LEMMA BoundIs ==
  /\ pc = "phone" => Bound = LOCK_WAIT
  /\ pc = "child" => Bound = wait
  /\ pc = "job" => Bound = job
  /\ pc = "sigint" => Bound = STOP_GRACE
  /\ pc = "sigterm" => Bound = TERM_GRACE
  /\ pc = "recover" => Bound = NIGHT_RECOVERY
  /\ pc = "restore" => Bound = RESTORE_BUDGET
  /\ pc \in {"loop", "closed"} => Bound = 0
BY DEF Bound

LEMMA BoundWillBe ==
  /\ pc' = "phone" => Bound' = LOCK_WAIT
  /\ pc' = "child" => Bound' = wait'
  /\ pc' = "job" => Bound' = job'
  /\ pc' = "sigint" => Bound' = STOP_GRACE
  /\ pc' = "sigterm" => Bound' = TERM_GRACE
  /\ pc' = "recover" => Bound' = NIGHT_RECOVERY
  /\ pc' = "restore" => Bound' = RESTORE_BUDGET
  /\ pc' \in {"loop", "closed"} => Bound' = 0
BY DEF Bound

(* A place entered with its number of minutes at hand.                     *)
LEMMA Entered ==
  ASSUME WindowAssumption, t' = 0, job' \in Nat, wait' \in Nat,
         pc' \in {"loop", "phone", "child", "job", "sigint", "sigterm", "recover", "restore", "closed"}
  PROVE  t' \in 0..Bound'
<1>1. Bound' \in Nat
  BY BoundWillBe, WindowConstants
<1> QED BY <1>1

(***************************************************************************)
(* One lemma for each of the invariant's parts, one step in it per action. *)
(***************************************************************************)
LEMMA WindowTypesKept ==
  ASSUME WindowAssumption, WindowInv, WindowNext
  PROVE  WindowTypeOK' /\ QueueInv' /\ HoldsInv'
<1> USE DEF Child, Stopping, Cleaning, MAX_HOLDS, QueueInv, HoldsInv
<1>0. WindowTypeOK /\ QueueInv /\ HoldsInv
  BY DEF WindowInv
<1>c. /\ LOCK_WAIT \in Nat /\ CHILD_WAIT \in Nat /\ STOP_GRACE \in Nat /\ TERM_GRACE \in Nat
      /\ NIGHT_RECOVERY \in Nat /\ RESTORE_BUDGET \in Nat /\ StopAt \in Nat /\ Jump \in Nat /\ Budgets \subseteq Nat
  BY WindowConstants
<1>q. /\ \A q \in Seq(Budgets) : q \in Seq(Nat)
      /\ \A q \in Seq(Budgets) : q # <<>> => Head(q) \in Nat /\ Tail(q) \in Seq(Budgets)
  BY <1>c, SeqMonotonic, HeadTailProperties
<1>t. remaining \in Int
  BY <1>0, <1>c DEF remaining, LesserOf, WindowTypeOK
<1>e. ASSUME t' = 0, job' \in Nat, wait' \in 0..CHILD_WAIT, UNCHANGED time, queue' \in Seq(Budgets), unread' \in BOOLEAN,
             holds' \in 0..3, pc' \in {"loop", "phone", "child", "job", "sigint", "sigterm", "recover", "restore", "closed"},
             pc' \in {"loop", "phone", "child", "job"} => holds' < 3
      PROVE  WindowTypeOK' /\ QueueInv' /\ HoldsInv'
  <2>1. t' \in 0..Bound'
    BY <1>e, <1>c, Entered
  <2>2. queue' \in Seq(Nat)
    BY <1>e, <1>q
  <2>3. real' \in Nat /\ mono' \in 0..real' /\ wall' \in Int /\ clocks' \in {"none", "suspend", "step"}
    BY <1>e, <1>0 DEF WindowTypeOK, time
  <2> QED BY <1>e, <2>1, <2>2, <2>3 DEF WindowTypeOK
<1>1. CASE Tick
  <2>1. Bound' = Bound
    BY <1>1 DEF Tick, Bound
  <2>2. Bound \in Nat
    BY <1>0, <1>c, BoundIs DEF WindowTypeOK
  <2> QED BY <1>1, <1>0, <2>1, <2>2 DEF Tick, WindowTypeOK
<1>2. CASE Suspend
  <2>1. Bound' = Bound
    BY <1>2 DEF Suspend, Bound
  <2> QED BY <1>2, <1>0, <1>c, <2>1 DEF Suspend, WindowTypeOK
<1>3. CASE StepClock
  <2>1. Bound' = Bound
    BY <1>3 DEF StepClock, Bound
  <2> QED BY <1>3, <1>0, <1>c, <2>1 DEF StepClock, WindowTypeOK
<1>4. CASE Cancel
  <2>1. PICK i \in DOMAIN queue : queue' = SubSeq(queue, 1, i - 1) \o SubSeq(queue, i + 1, Len(queue))
    BY <1>4 DEF Cancel
  <2>2. Len(queue) \in Nat /\ i \in 1..Len(queue)
    BY <1>0, LenProperties
  <2>3. \A k \in 1..Len(queue) : queue[k] \in Budgets
    BY <1>0, ElementOfSeq
  <2>4. SubSeq(queue, 1, i - 1) \in Seq(Budgets) /\ SubSeq(queue, i + 1, Len(queue)) \in Seq(Budgets)
    <3>1. \A k \in 1..(i - 1) : queue[k] \in Budgets
      BY <2>2, <2>3
    <3>2. \A k \in (i + 1)..Len(queue) : queue[k] \in Budgets
      BY <2>2, <2>3
    <3>3. SubSeq(queue, 1, i - 1) \in Seq(Budgets)
      BY <3>1, <2>2, SubSeqProperties
    <3>4. SubSeq(queue, i + 1, Len(queue)) \in Seq(Budgets)
      BY <3>2, <2>2, SubSeqProperties
    <3> QED BY <3>3, <3>4
  <2>5. queue' \in Seq(Budgets)
    BY <2>1, <2>4, ConcatProperties
  <2>6. queue' \in Seq(Nat)
    BY <2>5, <1>q
  <2>7. Bound' = Bound
    BY <1>4 DEF Cancel, Bound
  <2> QED BY <1>4, <1>0, <2>5, <2>6, <2>7 DEF Cancel, WindowTypeOK, time
<1>5. CASE CheckNext
  BY <1>5, <1>e, <1>0 DEF CheckNext, Enter, end, WindowTypeOK
<1>6. CASE PhoneReady
  <2>1. wait' \in 0..CHILD_WAIT
    BY <1>6, <1>0, <1>c, <1>t, <1>q DEF PhoneReady, LesserOf, next_budget
  <2> QED BY <1>6, <1>e, <1>0, <2>1 DEF PhoneReady, Enter, WindowTypeOK
<1>7. CASE PhoneRefuses
  BY <1>7, <1>e, <1>0 DEF PhoneRefuses, Enter, end, WindowTypeOK
<1>8. CASE Claim
  BY <1>8, <1>e, <1>0, <1>q DEF Claim, Enter, next_budget, WindowTypeOK
<1>9. CASE ChildEmpty
  BY <1>9, <1>e, <1>0 DEF ChildEmpty, Enter, end, WindowTypeOK
<1>10. CASE ChildHolds
  BY <1>10, <1>e, <1>0 DEF ChildHolds, Enter, end, WindowTypeOK
<1>11. CASE JobDone
  <2>1. unread' \in BOOLEAN
    BY <1>11 DEF JobDone
  <2>2. holds' = 0 /\ job' = 0 /\ t' = 0 /\ pc' = "loop" /\ UNCHANGED <<queue, wait, time>>
    BY <1>11 DEF JobDone, Enter
  <2> QED BY <2>1, <2>2, <1>e, <1>0 DEF WindowTypeOK
<1>12. CASE JobFails
  BY <1>12, <1>e, <1>0 DEF JobFails, Enter, end, WindowTypeOK
<1>13. CASE StopChild
  BY <1>13, <1>e, <1>0 DEF StopChild, Enter, WindowTypeOK
<1>14. CASE ChildGone
  BY <1>14, <1>e, <1>0 DEF ChildGone, Enter, WindowTypeOK
<1>15. CASE ChildStays
  BY <1>15, <1>e, <1>0 DEF ChildStays, Enter, WindowTypeOK
<1>16. CASE Recovered
  BY <1>16, <1>e, <1>0 DEF Recovered, Enter, WindowTypeOK
<1>17. CASE Closed
  BY <1>17, <1>e, <1>0 DEF Closed, Enter, WindowTypeOK
<1> QED BY <1>1, <1>2, <1>3, <1>4, <1>5, <1>6, <1>7, <1>8, <1>9, <1>10, <1>11, <1>12, <1>13, <1>14, <1>15, <1>16, <1>17
  DEF WindowNext

(* Only a suspend moves the clocks apart, or a step, and only once.        *)
LEMMA ClocksKept ==
  ASSUME WindowAssumption, WindowInv, WindowNext
  PROVE  ClockInv'
<1>0. ClockInv /\ real \in Nat /\ mono \in Int /\ wall \in Int
  BY DEF WindowInv, WindowTypeOK
<1>1. CASE Tick
  BY <1>0, <1>1 DEF Tick, ClockInv
<1>2. CASE Suspend
  BY <1>0, <1>2 DEF Suspend, ClockInv
<1>3. CASE StepClock
  BY <1>0, <1>3 DEF StepClock, ClockInv
<1>4. CASE UNCHANGED time
  BY <1>0, <1>4 DEF time, ClockInv
<1>5. Tick \/ Suspend \/ StepClock \/ UNCHANGED time
  BY DEF WindowNext, Cancel, CheckNext, PhoneReady, PhoneRefuses, Claim, ChildEmpty, ChildHolds, JobDone, JobFails,
         StopChild, ChildGone, ChildStays, Recovered, Closed
<1> QED BY <1>1, <1>2, <1>3, <1>4, <1>5

(* Every way to the clean-up asks first whether a night is on the screen.  *)
LEMMA NightsRecovered ==
  ASSUME WindowInv, WindowNext
  PROVE  NoNightAtTheRestore'
<1>0. NoNightAtTheRestore
  BY DEF WindowInv
<1> QED BY <1>0 DEF NoNightAtTheRestore, WindowNext, Tick, Suspend, StepClock, Cancel, CheckNext, PhoneReady, PhoneRefuses,
         Claim, ChildEmpty, ChildHolds, JobDone, JobFails, StopChild, ChildGone, ChildStays, Recovered, Closed, Enter, end,
         Child, Stopping

(* A place comes no later than the last minute of the one before it.       *)
LEMMA PlacesInTime ==
  ASSUME WindowAssumption, WindowInv, WindowNext
  PROVE  WindowPlaceInv'
<1> USE DEF Child, Stopping, Cleaning
<1>0. WindowTypeOK /\ QueueInv /\ ClockInv /\ WindowPlaceInv
  BY DEF WindowInv
<1>c. /\ LOCK_WAIT \in Nat /\ CHILD_WAIT \in Nat /\ STOP_GRACE \in Nat /\ TERM_GRACE \in Nat
      /\ NIGHT_RECOVERY \in Nat /\ RESTORE_BUDGET \in Nat /\ StopAt \in Nat /\ Jump \in Nat /\ Budgets \subseteq Nat
      /\ EndAt = StopAt + STOP_GRACE + TERM_GRACE + NIGHT_RECOVERY + RESTORE_BUDGET
  BY WindowConstants
<1>m. mono \in Int /\ wall \in Int /\ t \in Nat /\ t \in 0..Bound
  BY <1>0, <1>c, BoundIs DEF WindowTypeOK
<1>p. pc = "phone" => InTime(mono, StopAt)
  BY <1>0, <1>m, BoundIs, AfterTheLock DEF WindowPlaceInv
(* From the loop, the phone or the child to the title or the restore.      *)
<1>e. ASSUME InTime(mono, StopAt), UNCHANGED mono, t' = 0,
             pc' \in {"loop", "child", "job", "sigint", "recover", "restore"}
      PROVE  WindowPlaceInv'
  <2>1. InTime(mono', StopAt)
    BY <1>e
  <2>2. InTime(mono' - t', StopAt) /\ InTime(mono' - t', StopAt + STOP_GRACE + TERM_GRACE)
        /\ InTime(mono' - t', StopAt + STOP_GRACE + TERM_GRACE + NIGHT_RECOVERY)
    BY <1>e, <1>c, <1>m, InTimeShifts
  <2> QED BY <1>e, <2>1, <2>2, Zenon DEF WindowPlaceInv, EnteredAt
<1>1. CASE Tick
  <2>1. mono' = mono + 1 /\ t' = t + 1 /\ pc' = pc /\ t < Bound /\ ~(pc \in Child /\ passed)
    BY <1>1 DEF Tick
  <2>2. EnteredAt' = EnteredAt
    BY <2>1, <1>m DEF EnteredAt
  <2>3. pc \notin {"loop", "closed"}
    BY <2>1, <1>m, BoundIs
  <2>4. ASSUME pc \in Child PROVE InTime(mono', StopAt)
    <3>1. mono' <= StopAt
      BY <2>1, <2>4, <1>m, <1>c DEF passed, remaining, LesserOf
    <3> QED BY <3>1 DEF InTime
  <2> QED BY <1>0, <2>1, <2>2, <2>3, <2>4 DEF WindowPlaceInv, InTime
<1>2. CASE UNCHANGED <<mono, t, pc>>
  BY <1>2, <1>0 DEF WindowPlaceInv, EnteredAt, InTime
<1>3. CASE CheckNext
  <2>1. InTime(mono, StopAt) /\ UNCHANGED mono /\ t' = 0
    BY <1>3, <1>0 DEF CheckNext, WindowPlaceInv, Enter, end, time
  <2>2. CASE pc' = "phone"
    <3>1. queue # <<>> /\ ~(remaining < CHILD_WAIT + next_budget)
      BY <1>3, <2>2 DEF CheckNext, Enter, end
    <3>2. next_budget \in Budgets
      BY <1>0, <3>1, HeadTailProperties DEF next_budget, QueueInv
    <3>3. mono' - t' <= StopAt - (CHILD_WAIT + next_budget)
      BY <2>1, <3>1, <3>2, <1>m, <1>c DEF remaining, LesserOf
    <3> QED BY <2>2, <3>2, <3>3 DEF WindowPlaceInv, EnteredAt
  <2>3. CASE pc' \in {"recover", "restore"}
    BY <1>e, <2>1, <2>3
  <2> QED BY <1>3, <2>2, <2>3 DEF CheckNext, Enter, end
<1>4. CASE PhoneReady
  BY <1>4, <1>e, <1>p DEF PhoneReady, Enter, time
<1>5. CASE PhoneRefuses
  BY <1>5, <1>e, <1>p DEF PhoneRefuses, Enter, end, time
<1>6. CASE Claim
  BY <1>6, <1>e, <1>0 DEF Claim, Enter, time, WindowPlaceInv
<1>7. CASE ChildEmpty
  BY <1>7, <1>e, <1>0 DEF ChildEmpty, Enter, end, time, WindowPlaceInv
<1>8. CASE ChildHolds
  BY <1>8, <1>e, <1>0 DEF ChildHolds, Enter, end, time, WindowPlaceInv
<1>9. CASE JobDone
  BY <1>9, <1>e, <1>0 DEF JobDone, Enter, time, WindowPlaceInv
<1>10. CASE JobFails
  BY <1>10, <1>e, <1>0 DEF JobFails, Enter, end, time, WindowPlaceInv
<1>11. CASE StopChild
  BY <1>11, <1>e, <1>0 DEF StopChild, Enter, time, WindowPlaceInv
<1>12. CASE ChildGone
  <2>1. UNCHANGED mono /\ t' = 0 /\ pc' \in {"recover", "restore"}
    BY <1>12 DEF ChildGone, Enter, time
  <2>2. InTime(mono, StopAt + STOP_GRACE + TERM_GRACE)
    <3>1. CASE pc = "sigint"
      BY <3>1, <1>0, <1>m, <1>c, BoundIs, InTimeShifts DEF WindowPlaceInv, EnteredAt
    <3>2. CASE pc = "sigterm"
      BY <3>2, <1>0, <1>m, <1>c, BoundIs, InTimeShifts DEF WindowPlaceInv, EnteredAt
    <3> QED BY <1>12, <3>1, <3>2 DEF ChildGone
  <2>3. InTime(mono' - t', StopAt + STOP_GRACE + TERM_GRACE)
        /\ InTime(mono' - t', StopAt + STOP_GRACE + TERM_GRACE + NIGHT_RECOVERY)
    BY <2>1, <2>2, <1>c, <1>m, InTimeShifts
  <2> QED BY <2>1, <2>3, Zenon DEF WindowPlaceInv, EnteredAt
<1>13. CASE ChildStays
  <2>1. UNCHANGED mono /\ t' = 0 /\ pc' = "sigterm" /\ pc = "sigint"
    BY <1>13 DEF ChildStays, Enter, time
  <2>2. InTime(mono' - t', StopAt + STOP_GRACE)
    BY <2>1, <1>0, <1>m, <1>c, BoundIs, InTimeShifts DEF WindowPlaceInv, EnteredAt
  <2> QED BY <2>1, <2>2, Zenon DEF WindowPlaceInv, EnteredAt
<1>14. CASE Recovered
  <2>1. UNCHANGED mono /\ t' = 0 /\ pc' = "restore" /\ pc = "recover"
    BY <1>14 DEF Recovered, Enter, time
  <2>2. InTime(mono' - t', StopAt + STOP_GRACE + TERM_GRACE + NIGHT_RECOVERY)
    BY <2>1, <1>0, <1>m, <1>c, BoundIs, InTimeShifts DEF WindowPlaceInv, EnteredAt
  <2> QED BY <2>1, <2>2, Zenon DEF WindowPlaceInv, EnteredAt
<1>15. CASE Closed
  <2>1. UNCHANGED mono /\ t' = 0 /\ pc' = "closed" /\ pc = "restore"
    BY <1>15 DEF Closed, Enter, time
  <2>2. InTime(mono', EndAt)
    BY <2>1, <1>0, <1>m, <1>c, BoundIs, InTimeShifts DEF WindowPlaceInv, EnteredAt
  <2> QED BY <2>1, <2>2, Zenon DEF WindowPlaceInv
<1>16. Suspend \/ StepClock \/ Cancel => UNCHANGED <<mono, t, pc>>
  BY DEF Suspend, StepClock, Cancel, time
<1> QED BY <1>1, <1>2, <1>3, <1>4, <1>5, <1>6, <1>7, <1>8, <1>9, <1>10, <1>11, <1>12, <1>13, <1>14, <1>15, <1>16
  DEF WindowNext

(* Whoever is at a place is in time for the end.                           *)
LEMMA EveryPlaceInTime ==
  ASSUME WindowAssumption, WindowInv
  PROVE  ClosedInTime
<1>0. WindowTypeOK /\ WindowPlaceInv
  BY DEF WindowInv
<1>c. /\ LOCK_WAIT \in Nat /\ CHILD_WAIT \in Nat /\ STOP_GRACE \in Nat /\ TERM_GRACE \in Nat
      /\ NIGHT_RECOVERY \in Nat /\ RESTORE_BUDGET \in Nat /\ StopAt \in Nat
      /\ EndAt = StopAt + STOP_GRACE + TERM_GRACE + NIGHT_RECOVERY + RESTORE_BUDGET
  BY WindowConstants
<1>m. mono \in Int /\ t \in Nat /\ t \in 0..Bound
  BY <1>0, <1>c, BoundIs DEF WindowTypeOK, Child, Stopping, Cleaning
<1>e. EndAt \in Int /\ EnteredAt \in Int
  BY <1>c, <1>m DEF EnteredAt
<1>1. CASE pc \in {"loop", "phone", "child", "job"}
  <2>1. InTime(mono, StopAt)
    BY <1>1, <1>0, <1>m, BoundIs, AfterTheLock DEF WindowPlaceInv, Child
  <2> QED BY <2>1, <1>c, <1>m, <1>e, InTimeShifts DEF ClosedInTime
<1>2. CASE pc = "sigint"
  BY <1>2, <1>0, <1>m, <1>c, <1>e, BoundIs, InTimeShifts DEF WindowPlaceInv, EnteredAt, ClosedInTime
<1>3. CASE pc = "sigterm"
  BY <1>3, <1>0, <1>m, <1>c, <1>e, BoundIs, InTimeShifts DEF WindowPlaceInv, EnteredAt, ClosedInTime
<1>4. CASE pc = "recover"
  BY <1>4, <1>0, <1>m, <1>c, <1>e, BoundIs, InTimeShifts DEF WindowPlaceInv, EnteredAt, ClosedInTime
<1>5. CASE pc = "restore"
  BY <1>5, <1>0, <1>m, <1>c, <1>e, BoundIs, InTimeShifts DEF WindowPlaceInv, EnteredAt, ClosedInTime
<1>6. CASE pc = "closed"
  BY <1>6, <1>0 DEF WindowPlaceInv, ClosedInTime
<1> QED BY <1>0, <1>1, <1>2, <1>3, <1>4, <1>5, <1>6 DEF WindowTypeOK, Child, Stopping, Cleaning

(* The inductive invariant holds, for any queues and budgets.              *)
THEOREM WindowOnTime == ASSUME WindowAssumption PROVE WindowSpec => []WindowInv
<1>1. WindowInit => WindowInv
  BY WindowBegins
<1>2. WindowInv /\ [WindowNext]_windowVars => WindowInv'
  <2> SUFFICES ASSUME WindowInv, [WindowNext]_windowVars PROVE WindowInv'
    OBVIOUS
  <2>1. CASE WindowNext
    BY <2>1, WindowTypesKept, ClocksKept, NightsRecovered, PlacesInTime DEF WindowInv
  <2>2. CASE UNCHANGED windowVars
    BY <2>2 DEF windowVars, time, WindowInv, WindowTypeOK, QueueInv, ClockInv, HoldsInv, WindowPlaceInv, NoNightAtTheRestore,
                EnteredAt, InTime, Bound
  <2> QED BY <2>1, <2>2
<1> QED BY <1>1, <1>2, PTL DEF WindowSpec

(* Type correctness of the window: every wait stays within its bound, and  *)
(* the monotonic clock never runs ahead of real time.                      *)
THEOREM WindowTyped == ASSUME WindowAssumption PROVE WindowSpec => []WindowTypeOK
<1>1. WindowInv => WindowTypeOK
  BY DEF WindowInv
<1> QED BY <1>1, WindowOnTime, PTL

(* However long the graces and the recovery take, the window closes by its *)
(* end -- but for what a locked phone was waited for beyond the room       *)
(* checked -- and with no night left on the screen.                        *)
THEOREM WindowCloses == ASSUME WindowAssumption PROVE WindowSpec => []WindowClosesInTime
<1>1. WindowInv => WindowClosesInTime
  BY EveryPlaceInTime DEF WindowInv, WindowClosesInTime
<1> QED BY <1>1, WindowOnTime, PTL

(* No minute of a job passes after the stop instant, whichever clock a     *)
(* suspend or a step has put wrong: the other is still right.              *)
THEOREM NoJobRunsOver == ASSUME WindowAssumption PROVE WindowSpec => NoJobPastTheStop
<1>1. WindowInv /\ [WindowNext]_windowVars => [Tick /\ pc \in Child => real < StopAt]_windowVars
  <2> SUFFICES ASSUME WindowInv, Tick, pc \in Child PROVE real < StopAt
    OBVIOUS
  <2>1. ~passed
    BY DEF Tick
  <2>2. StopAt \in Nat /\ mono \in Int /\ wall \in Int /\ real \in Int
    BY WindowConstants DEF WindowInv, WindowTypeOK
  <2>3. mono < StopAt /\ wall < StopAt
    BY <2>1, <2>2 DEF passed, remaining, LesserOf
  <2>4. mono = real \/ wall = real
    BY DEF WindowInv, ClockInv
  <2> QED BY <2>3, <2>4
<1> QED BY <1>1, WindowOnTime, PTL DEF WindowSpec, NoJobPastTheStop

(***************************************************************************)
(* The night job.                                                          *)
(***************************************************************************)
BeforeTheRunner == Bounds.emit + Bounds.audio + Bounds.setup + Bounds.read

(* The most an undisturbed job can have spent when it comes to a step.     *)
Reach ==
  [bind |-> 0, audio |-> Bounds.emit, setup |-> Bounds.emit + Bounds.audio,
   read |-> IF phase = "before" THEN Bounds.emit + Bounds.audio + Bounds.setup ELSE BeforeTheRunner + runner_timeout,
   relaunch |-> IF phase = "before" THEN BeforeTheRunner ELSE BeforeTheRunner + runner_timeout + Bounds.read,
   unread |-> BeforeTheRunner, compare |-> BeforeTheRunner, runner |-> BeforeTheRunner,
   judge |-> BeforeTheRunner + runner_timeout + Bounds.read, done |-> budget]

(* The night lies between the steps before it and the ones after it.       *)
PhaseInv ==
  /\ phase = "after" <=> started
  /\ stopped => started
  /\ at \in {"bind", "audio", "unread", "compare", "runner"} => phase = "before"
  /\ at = "judge" => phase = "after"
  /\ at = "setup" /\ phase = "after" => "after" \in again

(* What the last read saw still shows when the job is judged by it.        *)
SeenInv == at = "judge" /\ seen => shown = "title"

SpentInv == again = {} /\ ~stopped => spent <= Reach[at]

JobInv == JobTypeOK /\ PhaseInv /\ SeenInv /\ SpentInv /\ PlayedAndBack /\ HeldBeforeTheNight

(* A tenth part of a bound, up to ten of them, is within the bound.        *)
LEMMA PaceInBound ==
  ASSUME NEW n \in Nat, NEW p \in 0..10
  PROVE  (n * p) \div 10 \in 0..n
<1>1. CASE p = 0
  BY <1>1
<1>2. CASE p = 1
  BY <1>2
<1>3. CASE p = 2
  BY <1>3
<1>4. CASE p = 3
  BY <1>4
<1>5. CASE p = 4
  BY <1>5
<1>6. CASE p = 5
  BY <1>6
<1>7. CASE p = 6
  BY <1>7
<1>8. CASE p = 7
  BY <1>8
<1>9. CASE p = 8
  BY <1>9
<1>10. CASE p = 9
  BY <1>10
<1>11. CASE p = 10
  BY <1>11
<1> QED BY <1>1, <1>2, <1>3, <1>4, <1>5, <1>6, <1>7, <1>8, <1>9, <1>10, <1>11

(* A step takes at most its bound.                                         *)
LEMMA TakesAtMost ==
  ASSUME NightJobAssumption, NEW bound \in Nat, spent \in Nat, Takes(bound)
  PROVE  spent' \in Nat /\ spent' <= spent + bound
<1>1. PICK p \in Paces : spent' = spent + (bound * p) \div 10
  BY DEF Takes
<1>2. (bound * p) \div 10 \in 0..bound
  BY PaceInBound DEF NightJobAssumption
<1> QED BY <1>1, <1>2

LEMMA BoundsAreNumbers ==
  ASSUME NightJobAssumption
  PROVE  /\ Bounds.emit = 12 /\ Bounds.audio = 12 /\ Bounds.setup = 18 /\ Bounds.read = 9 /\ Bounds.adb = 2
         /\ Bounds.pre = 30 /\ Bounds.post = 60 /\ Bounds.graces = 15 /\ Bounds.title = 30
         /\ runner_timeout \in Nat /\ BeforeTheRunner = 51 /\ budget = 81 + runner_timeout
<1>1. /\ Bounds.emit = 12 /\ Bounds.audio = 12 /\ Bounds.setup = 18 /\ Bounds.read = 9 /\ Bounds.adb = 2
      /\ Bounds.pre = 30 /\ Bounds.post = 60 /\ Bounds.graces = 15 /\ Bounds.title = 30
  BY DEF Bounds
<1>2. runner_timeout \in Nat
  BY <1>1 DEF runner_timeout, NightJobAssumption
<1> QED BY <1>1, <1>2 DEF BeforeTheRunner, budget

LEMMA JobBegins == ASSUME NightJobAssumption, JobInit PROVE JobInv
<1>1. JobTypeOK
  BY DEF JobInit, JobTypeOK
<1>2. PhaseInv /\ SeenInv /\ PlayedAndBack /\ HeldBeforeTheNight
  BY DEF JobInit, PhaseInv, SeenInv, PlayedAndBack, HeldBeforeTheNight
<1>3. SpentInv
  BY DEF JobInit, SpentInv, Reach
<1> QED BY <1>1, <1>2, <1>3 DEF JobInv

(* The steps themselves: what each leaves of types, phase and screen.      *)
LEMMA JobTypesKept ==
  ASSUME NightJobAssumption, JobInv, JobNext
  PROVE  JobTypeOK'
<1>0. JobTypeOK
  BY DEF JobInv
<1>n. spent \in Nat /\ \A b \in Nat : Takes(b) => spent' \in Nat
  BY <1>0, TakesAtMost DEF JobTypeOK
<1>b. /\ Bounds.emit \in Nat /\ Bounds.audio \in Nat /\ Bounds.setup \in Nat /\ Bounds.read \in Nat /\ Bounds.adb \in Nat
      /\ Bounds.graces \in Nat /\ runner_timeout \in Nat
  BY BoundsAreNumbers
<1>1. CASE Signal
  <2>1. aborted' \in BOOLEAN /\ terminated' \in BOOLEAN
    BY <1>1 DEF Signal
  <2>2. {aborted', terminated', seen, started, stopped, ran} \subseteq BOOLEAN
    BY <2>1, <1>0 DEF JobTypeOK
  <2> QED BY <1>0, <1>1, <2>2 DEF Signal, JobTypeOK, night
<1>2. CASE Bind
  BY <1>0, <1>n, <1>b, <1>2 DEF Bind, Refuses, Ends, Goes, JobTypeOK, signals, night
<1>3. CASE Audio
  BY <1>0, <1>n, <1>b, <1>3 DEF Audio, Refuses, Ends, Goes, JobTypeOK, signals, night
<1>4. CASE Setup
  BY <1>0, <1>n, <1>b, <1>4 DEF Setup, Refuses, Ends, Goes, JobTypeOK, signals, night
<1>5. CASE ReadTitle
  BY <1>0, <1>n, <1>b, <1>5 DEF ReadTitle, Refuses, Ends, Goes, JobTypeOK, signals, night
<1>6. CASE Relaunch
  BY <1>0, <1>n, <1>b, <1>6 DEF Relaunch, Refuses, Ends, Goes, JobTypeOK, signals, night
<1>7. CASE Unread
  BY <1>0, <1>7 DEF Unread, Refuses, Ends, Goes, JobTypeOK, signals, night
<1>8. CASE Compare
  BY <1>0, <1>8 DEF Compare, Refuses, Ends, Goes, JobTypeOK, signals, night
<1>9. CASE Runner
  <2>1. spent' \in Nat
    <3>1. ASSUME NEW p \in Paces PROVE (Bounds.graces * p) \div 10 \in Nat
      BY <1>b, PaceInBound DEF NightJobAssumption
    <3> QED BY <3>1, <1>9, <1>n, <1>b DEF Runner
  <2> QED BY <1>0, <2>1, <1>9 DEF Runner, Goes, JobTypeOK, signals, night
<1>10. CASE Judge
  BY <1>0, <1>10 DEF Judge, Ends, JobTypeOK, signals, night
<1> QED BY <1>1, <1>2, <1>3, <1>4, <1>5, <1>6, <1>7, <1>8, <1>9, <1>10 DEF JobNext, Steps

(* A night is started once, between the two phases, and a hold never after *)
(* it; nothing is judged by a title that does not show any more.           *)
LEMMA ReportsKept ==
  ASSUME NightJobAssumption, JobInv, JobNext
  PROVE  PhaseInv' /\ SeenInv' /\ PlayedAndBack' /\ HeldBeforeTheNight'
<1>0. JobTypeOK /\ PhaseInv /\ SeenInv /\ PlayedAndBack /\ HeldBeforeTheNight
  BY DEF JobInv
<1>n. at # "done" => outcome = "none"
  BY <1>0 DEF JobTypeOK
<1> USE DEF PhaseInv, SeenInv, PlayedAndBack, HeldBeforeTheNight, Refuses, Ends, Goes, signals, night
<1>1. CASE Signal
  BY <1>0, <1>n, <1>1 DEF Signal
<1>2. CASE Bind
  BY <1>0, <1>n, <1>2 DEF Bind
<1>3. CASE Audio
  BY <1>0, <1>n, <1>3 DEF Audio
<1>4. CASE Setup
  BY <1>0, <1>n, <1>4 DEF Setup
<1>5. CASE ReadTitle
  <2>1. at = "read" /\ outcome' = "none" /\ UNCHANGED <<phase, again, aborted, shown, started, stopped, ran>>
    BY <1>5, <1>n DEF ReadTitle
  <2>2. at' \in {"relaunch", IF phase = "before" THEN "compare" ELSE "judge", IF phase = "before" THEN "unread" ELSE "judge"}
    BY <1>5 DEF ReadTitle
  <2>3. at' = "judge" /\ seen' => shown = "title"
    BY <1>5 DEF ReadTitle
  <2>4. PhaseInv'
    BY <1>0, <2>1, <2>2 DEF JobTypeOK
  <2> QED BY <2>1, <2>3, <2>4
<1>6. CASE Relaunch
  BY <1>0, <1>n, <1>6 DEF Relaunch
<1>7. CASE Unread
  BY <1>0, <1>n, <1>7 DEF Unread
<1>8. CASE Compare
  BY <1>0, <1>n, <1>8 DEF Compare
<1>9. CASE Runner
  BY <1>0, <1>n, <1>9 DEF Runner
<1>10. CASE Judge
  BY <1>0, <1>n, <1>10 DEF Judge
<1> QED BY <1>1, <1>2, <1>3, <1>4, <1>5, <1>6, <1>7, <1>8, <1>9, <1>10 DEF JobNext, Steps

(* What is reached at each step, with the budget's terms summed.           *)
LEMMA Reached ==
  ASSUME NightJobAssumption
  PROVE  /\ Reach["bind"] = 0 /\ Reach["audio"] = 12 /\ Reach["setup"] = 24
         /\ Reach["read"] = IF phase = "before" THEN 42 ELSE 51 + runner_timeout
         /\ Reach["relaunch"] = IF phase = "before" THEN 51 ELSE 60 + runner_timeout
         /\ Reach["unread"] = 51 /\ Reach["compare"] = 51 /\ Reach["runner"] = 51
         /\ Reach["judge"] = 60 + runner_timeout /\ Reach["done"] = 81 + runner_timeout
BY BoundsAreNumbers DEF Reach

LEMMA WillBeReached ==
  ASSUME NightJobAssumption
  PROVE  /\ Reach'["bind"] = 0 /\ Reach'["audio"] = 12 /\ Reach'["setup"] = 24
         /\ Reach'["read"] = IF phase' = "before" THEN 42 ELSE 51 + runner_timeout
         /\ Reach'["relaunch"] = IF phase' = "before" THEN 51 ELSE 60 + runner_timeout
         /\ Reach'["unread"] = 51 /\ Reach'["compare"] = 51 /\ Reach'["runner"] = 51
         /\ Reach'["judge"] = 60 + runner_timeout /\ Reach'["done"] = 81 + runner_timeout
BY BoundsAreNumbers DEF Reach

(* No step takes an undisturbed job further than its reach.                *)
LEMMA SpentKept ==
  ASSUME NightJobAssumption, JobInv, JobNext
  PROVE  SpentInv'
<1>0. JobTypeOK /\ PhaseInv /\ SpentInv /\ spent \in Nat
  BY DEF JobInv, JobTypeOK
<1>b. /\ Bounds.emit = 12 /\ Bounds.audio = 12 /\ Bounds.setup = 18 /\ Bounds.read = 9 /\ runner_timeout \in Nat
  BY BoundsAreNumbers
<1> SUFFICES ASSUME again' = {}, ~stopped' PROVE spent' <= Reach'[at']
  BY DEF SpentInv
<1>a. again = {} /\ (at # "runner" => ~stopped)
  BY DEF JobNext, Steps, Signal, Bind, Audio, Setup, ReadTitle, Relaunch, Unread, Compare, Runner, Judge, signals, night
<1>r. at # "runner" => spent <= Reach[at]
  BY <1>0, <1>a DEF SpentInv
<1>1. CASE Signal
  <2>1. at # "done" /\ at' = at /\ phase' = phase /\ spent' = spent /\ stopped' = stopped
    BY <1>1 DEF Signal, night
  <2>2. Reach' = Reach
    BY <2>1 DEF Reach
  <2> QED BY <2>1, <2>2, <1>0, <1>a DEF SpentInv
<1>2. CASE Bind
  <2>1. spent' \in Nat /\ spent' <= spent + 12 /\ at' \in {"audio", "done"} /\ at = "bind"
    BY <1>2, <1>0, <1>b, TakesAtMost DEF Bind, Refuses, Ends, Goes
  <2> QED BY <2>1, <1>r, <1>0, <1>b, Reached, WillBeReached
<1>3. CASE Audio
  <2>1. spent' \in Nat /\ spent' <= spent + 12 /\ at' \in {"setup", "done"} /\ at = "audio"
    BY <1>3, <1>0, <1>b, TakesAtMost DEF Audio, Refuses, Ends, Goes
  <2> QED BY <2>1, <1>r, <1>0, <1>b, Reached, WillBeReached
<1>4. CASE Setup
  <2>1. spent' \in Nat /\ spent' <= spent + 18 /\ at' \in {"read", "relaunch", "done"} /\ at = "setup" /\ phase' = phase
    BY <1>4, <1>0, <1>b, TakesAtMost DEF Setup, Ends, Goes
  <2>2. phase = "before"
    BY <2>1, <1>0, <1>a DEF PhaseInv, JobTypeOK
  <2> QED BY <2>1, <2>2, <1>r, <1>0, <1>b, Reached, WillBeReached
<1>5. CASE ReadTitle
  <2>1. spent' \in Nat /\ spent' <= spent + 9 /\ at = "read" /\ phase' = phase
    BY <1>5, <1>0, <1>b, TakesAtMost DEF ReadTitle
  <2>2. at' \in {"relaunch", IF phase = "before" THEN "compare" ELSE "judge"}
    BY <1>5, <1>a DEF ReadTitle, Goes
  <2> QED BY <2>1, <2>2, <1>r, <1>0, <1>b, Reached, WillBeReached
<1>6. CASE Relaunch
  <2>1. at = "relaunch" /\ phase = "before" /\ at' = "unread" /\ spent' = spent
    BY <1>6 DEF Relaunch, Goes
  <2> QED BY <2>1, <1>r, <1>0, Reached, WillBeReached
<1>7. CASE Unread
  <2>1. at = "unread" /\ at' = "done" /\ spent' = spent
    BY <1>7 DEF Unread, Refuses, Ends
  <2> QED BY <2>1, <1>r, <1>0, <1>b, Reached, WillBeReached
<1>8. CASE Compare
  <2>1. at = "compare" /\ at' \in {"done", "runner"} /\ spent' = spent
    BY <1>8 DEF Compare, Refuses, Ends, Goes
  <2> QED BY <2>1, <1>r, <1>0, <1>b, Reached, WillBeReached
<1>9. CASE Runner
  <2>1. spent' \in Nat /\ spent' <= spent + runner_timeout /\ at = "runner" /\ at' \in {"read", "judge"} /\ phase' = "after"
    BY <1>9, <1>0, <1>b, TakesAtMost DEF Runner, Goes
  <2>2. spent <= 51
    BY <2>1, <1>0, <1>a, Reached DEF SpentInv, PhaseInv
  <2> QED BY <2>1, <2>2, <1>0, <1>b, WillBeReached
<1>10. CASE Judge
  <2>1. at = "judge" /\ at' = "done" /\ spent' = spent
    BY <1>10 DEF Judge, Ends
  <2> QED BY <2>1, <1>r, <1>0, <1>b, Reached, WillBeReached
<1> QED BY <1>1, <1>2, <1>3, <1>4, <1>5, <1>6, <1>7, <1>8, <1>9, <1>10 DEF JobNext, Steps

(* The inductive invariant holds, for any length of a night and any pace.  *)
THEOREM JobAccounted == ASSUME NightJobAssumption PROVE JobSpec => []JobInv
<1>1. JobInit => JobInv
  BY JobBegins
<1>2. JobInv /\ [JobNext]_jobVars => JobInv'
  <2> SUFFICES ASSUME JobInv, [JobNext]_jobVars PROVE JobInv'
    OBVIOUS
  <2>1. CASE JobNext
    BY <2>1, JobTypesKept, ReportsKept, SpentKept DEF JobInv
  <2>2. CASE UNCHANGED jobVars
    BY <2>2 DEF jobVars, signals, night, JobInv, JobTypeOK, PhaseInv, SeenInv, SpentInv, Reach, PlayedAndBack, HeldBeforeTheNight
  <2> QED BY <2>1, <2>2
<1> QED BY <1>1, <1>2, PTL DEF JobSpec

(* Type correctness of the night job; it has an outcome when it is done,   *)
(* and only then.                                                          *)
THEOREM JobTyped == ASSUME NightJobAssumption PROVE JobSpec => []JobTypeOK
<1>1. JobInv => JobTypeOK
  BY DEF JobInv
<1> QED BY <1>1, JobAccounted, PTL

(* What a night job reports is what happened: played means run to its      *)
(* terminal and seen back at the title, held means never started; and a    *)
(* job that nothing disturbed has kept to the budget reserved for it.      *)
THEOREM JobReports == ASSUME NightJobAssumption PROVE JobSpec => []JobReportsWhatHappened
<1>1. JobInv => JobReportsWhatHappened
  <2> SUFFICES ASSUME JobInv PROVE FitsBudgetUndisturbed
    BY DEF JobInv, JobReportsWhatHappened
  <2> SUFFICES ASSUME again = {}, ~stopped PROVE spent <= budget
    BY DEF FitsBudgetUndisturbed
  <2>1. spent <= Reach[at] /\ spent \in Nat
    BY DEF JobInv, SpentInv, JobTypeOK
  <2>2. Reach[at] \in Nat /\ Reach[at] <= 81 + runner_timeout
    BY Reached, BoundsAreNumbers DEF JobInv, JobTypeOK
  <2> QED BY <2>1, <2>2, BoundsAreNumbers
<1> QED BY <1>1, JobAccounted, PTL

(***************************************************************************)
(* The executor. The locals of execute() are one record, and what changes  *)
(* them is a handful of functions on it (stopProcess, endAtHaltWindow,     *)
(* ...) that the handlers combine. The invariant of the record is an       *)
(* operator of it, so that each of these functions has one lemma, and a    *)
(* handler's proof cites the lemmas of those it calls.                     *)
(***************************************************************************)
AllPieces == Pieces \union {"release", "haltRelease"}
Task == [piece : AllPieces, left : 1..Lines]
Run ==
  [queue : Seq(Task), planned : 0..2,
   startup : BOOLEAN, started : BOOLEAN, stale : BOOLEAN, handoff : {"none", "written", "late"}, office : BOOLEAN,
   stopped : BOOLEAN, resolved : BOOLEAN, stopObserver : BOOLEAN, outside : BOOLEAN,
   halted : BOOLEAN, closing : BOOLEAN, windowOver : BOOLEAN,
   observer : {"waiting", "reading", "handing", "done"}, frame : Screens \union {"none", "unknown", "newspaper"},
   nightObserved : BOOLEAN, samples : 0..EXIT_CONFIRM_SAMPLES,
   terminal : {"none"} \union TERMINAL_SCREENS, exit : Screens \union {"none", "unknown", "newspaper"},
   arm : {"pending", "reading", "rearming", "releasing", "done"}, armAttempt : 1..MAX_ARM_ATTEMPTS,
   armStatus : {"PENDING", "PASS", "FAILED", "UNRESOLVED"}, armFailure : {"none", "invalid", "ended", "gate"},
   gate : {"off", "due", "reading", "parked", "fixing", "releasing", "done"}, gatesLeft : 0..Gates]
Modes == {"none", "blocking", "once"}

(* A piece in the feed, a body not begun, and pieces behind the body.      *)
In(q, p) == \E i \in DOMAIN q : q[i].piece = p
Once(q) == \A i, j \in DOMAIN q : q[i].piece = q[j].piece => i = j
Fresh(q) == \E i \in DOMAIN q : q[i].piece = "body" /\ q[i].left = Lines
Behind(q, p) == \A i, j \in DOMAIN q : q[i].piece = "body" /\ q[j].piece = p => i < j

(* Each piece of the plan has the task that wrote it waiting, but for the  *)
(* body a port released, and none is written before the night's release.   *)
WriterInv(r) ==
  /\ Once(r.queue)
  /\ In(r.queue, "rearm") => r.arm = "rearming"
  /\ In(r.queue, "armSegment") => r.arm = "releasing"
  /\ In(r.queue, "fix") => r.gate = "fixing"
  /\ In(r.queue, "segment") => r.gate = "releasing"
  /\ In(r.queue, "body") => r.started /\ r.arm \in {"pending", "done"} /\ r.gate = "off" /\ r.handoff # "late"
  /\ In(r.queue, "release") => r.stopped
  /\ In(r.queue, "haltRelease") => r.halted

(* The schedule's tasks: the arm and the gates begin after its first line, *)
(* in their order, and a gate that could not read is the last.             *)
ScheduleInv(r, mode) ==
  /\ r.planned > 0 => r.started
  /\ r.handoff # "none" => r.started
  /\ (r.handoff = "none" => r.planned = 0) /\ (r.handoff = "late" => r.planned <= 1)
  /\ r.stale => r.handoff # "written"
  /\ r.arm \in {"reading", "rearming", "releasing"} => r.handoff = "written"
  /\ r.arm \in {"rearming", "releasing"} => mode = "blocking"
  /\ mode = "none" => r.arm = "done"
  /\ r.gate # "off" => r.handoff = "written" /\ mode # "none" /\ (mode = "blocking" => r.arm = "done")
  /\ r.gate \in {"reading", "parked", "fixing", "releasing"} => r.gatesLeft > 0
  /\ r.armStatus = "FAILED" => r.arm = "done"
  /\ r.armFailure = "gate" => r.gate = "done"

(* The observer: it ends with its verdict, a static is one only after the  *)
(* window or before the night.                                             *)
ObserverInv(r) ==
  /\ r.exit # "none" => r.stopObserver /\ r.observer = "done"
  /\ r.exit = "static" => r.windowOver \/ ~r.nightObserved
  /\ r.observer = "reading" => r.frame # "none"
  /\ r.samples = EXIT_CONFIRM_SAMPLES => r.observer = "done"

(* A body that no observer waits for is in front of whatever will end the  *)
(* run: its release, or the halt's before the process is closed.           *)
FifoInv(r) ==
  /\ (r.resolved => r.stopped) /\ (r.closing => r.halted)
  /\ In(r.queue, "body") /\ r.observer # "handing" =>
       /\ Behind(r.queue, "release") /\ Behind(r.queue, "haltRelease")
       /\ ~r.halted => ~r.resolved
       /\ r.halted /\ r.closing => ~r.resolved /\ In(r.queue, "release")
       /\ r.halted /\ ~r.closing => In(r.queue, "haltRelease")
       /\ ~r.halted /\ r.stopped => In(r.queue, "release")

(* The handoff is measured by the body's first line.                       *)
FreshInv(r) ==
  /\ r.handoff # "none" => ~Fresh(r.queue)
  /\ r.handoff = "none" /\ In(r.queue, "body") => Fresh(r.queue)

RunInv(r, mode) ==
  /\ r \in Run /\ mode \in Modes
  /\ WriterInv(r) /\ ScheduleInv(r, mode) /\ ObserverInv(r) /\ FifoInv(r) /\ FreshInv(r)

(* While execute() waits: an observer that was told to stop has, or the    *)
(* run is over; and a halted run's ended with a verdict, a failed arm, a   *)
(* late handoff, or from outside.                                          *)
Excused(r, mode) ==
  \/ r.outside \/ r.exit # "none" \/ r.terminal # "none" \/ r.handoff = "late"
  \/ r.armStatus = "FAILED" /\ mode = "blocking"
VerdictInv(r, mode) ==
  /\ r.stopObserver /\ ~r.halted => r.resolved \/ r.observer = "done"
  /\ r.halted /\ (r.stopObserver \/ r.observer = "done") => Excused(r, mode)

(* The record beside the variables of the execution.                       *)
PlaceInv ==
  /\ running = "yes" /\ intro = "waiting" /\ ~run.started /\ ~run.halted /\ ~run.stopObserver => ~run.stopped
  /\ running # "yes" /\ In(run.queue, "body") => run.observer = "handing"
  /\ NothingFedAfterTheEnd
  /\ run.started => run.office \/ run.stale

ShapeInv ==
  /\ screen \in Screens /\ running \in {"no", "yes", "ending"} /\ hid \in {"open", "closed"}
  /\ intro \in {"off", "waiting", "released"} /\ grant \in BOOLEAN /\ executions \in Nat
  /\ result \in {"none", "completed", "invalid", "left", "failed"}
  /\ intro = "off" => hid = "open" /\ running = "no"
  /\ hid = "closed" /\ running # "no" => run.closing

ExecInv ==
  /\ RunInv(run, request.arm)
  /\ running = "yes" => VerdictInv(run, request.arm)
  /\ PlaceInv /\ ShapeInv

-------------------------------------------------------------------------------
(***************************************************************************)
(* The feed.                                                               *)
(***************************************************************************)
LEMMA Fed ==
  ASSUME NEW q \in Seq(Task), NEW piece \in AllPieces, NEW n \in 1..Lines
  PROVE  LET f == Append(q, [piece |-> piece, left |-> n]) IN
         /\ f \in Seq(Task)
         /\ \A p : In(f, p) <=> In(q, p) \/ p = piece
         /\ Once(q) /\ ~In(q, piece) => Once(f)
         /\ \A p : Behind(q, p) /\ (piece # "body" \/ ~In(q, p)) /\ p # "body" => Behind(f, p)
         /\ piece # "body" => (Fresh(f) <=> Fresh(q))
         /\ piece = "body" /\ n = Lines => Fresh(f)
<1> DEFINE f == Append(q, [piece |-> piece, left |-> n])
<1>1. f \in Seq(Task) /\ Len(f) = Len(q) + 1 /\ f[Len(q) + 1].piece = piece /\ f[Len(q) + 1].left = n
      /\ \A i \in DOMAIN q : i \in DOMAIN f /\ f[i] = q[i]
  BY DEF Task
<1>2. \A i \in DOMAIN f : i \in DOMAIN q \/ i = Len(q) + 1
  BY <1>1
<1>3. Len(q) + 1 \in DOMAIN f /\ \A i \in DOMAIN q : i < Len(q) + 1
  BY <1>1
<1> HIDE DEF f
<1>4. \A p : In(f, p) <=> In(q, p) \/ p = piece
  BY <1>1, <1>2, <1>3 DEF In
<1>5. Once(q) /\ ~In(q, piece) => Once(f)
  BY <1>1, <1>2, <1>3 DEF In, Once
<1>6. ASSUME NEW p, Behind(q, p), piece # "body" \/ ~In(q, p), p # "body" PROVE Behind(f, p)
  <2>1. ASSUME NEW i \in DOMAIN f, NEW j \in DOMAIN f, f[i].piece = "body", f[j].piece = p PROVE i < j
    BY <1>1, <1>2, <1>3, <1>6, <2>1 DEF In, Behind
  <2> QED
    BY <2>1 DEF Behind
<1>7. (piece # "body" => (Fresh(f) <=> Fresh(q))) /\ (piece = "body" /\ n = Lines => Fresh(f))
  BY <1>1, <1>2, <1>3 DEF Fresh
<1> QED
  BY <1>1, <1>4, <1>5, <1>6, <1>7 DEF f

LEMMA Taken ==
  ASSUME NEW q \in Seq(Task), q # <<>>, Once(q)
  PROVE  /\ Head(q) \in Task /\ Tail(q) \in Seq(Task) /\ Once(Tail(q)) /\ In(q, Head(q).piece)
         /\ \A p : In(Tail(q), p) <=> In(q, p) /\ p # Head(q).piece
         /\ \A p : Behind(q, p) => Behind(Tail(q), p)
         /\ \A p : Behind(q, p) /\ In(q, "body") /\ p # "body" => Head(q).piece # p
         /\ Fresh(Tail(q)) <=> Fresh(q) /\ Head(q).piece # "body"
<1>1. Head(q) = q[1] /\ Head(q) \in Task /\ Tail(q) \in Seq(Task) /\ Len(Tail(q)) = Len(q) - 1 /\ 1 \in DOMAIN q
  OBVIOUS
<1>2. \A i \in DOMAIN Tail(q) : Tail(q)[i] = q[i + 1] /\ i + 1 \in DOMAIN q /\ i \in Int /\ i + 1 # 1
  OBVIOUS
<1>3. \A i \in DOMAIN q : i \in Int /\ (i # 1 => i - 1 \in DOMAIN Tail(q) /\ Tail(q)[i - 1] = q[i])
  BY <1>1
<1>4. Once(Tail(q))
  BY <1>2 DEF Once
<1>5. \A p : In(Tail(q), p) <=> In(q, p) /\ p # Head(q).piece
  <2>1. ASSUME NEW p, In(Tail(q), p) PROVE In(q, p) /\ p # Head(q).piece
    <3>1. PICK i \in DOMAIN Tail(q) : q[i + 1].piece = p
      BY <1>2, <2>1 DEF In
    <3>2. i + 1 \in DOMAIN q /\ i + 1 # 1
      BY <1>2
    <3> QED
      BY <1>1, <3>1, <3>2 DEF In, Once
  <2>2. ASSUME NEW p, In(q, p), p # Head(q).piece PROVE In(Tail(q), p)
    BY <1>1, <1>3, <2>2 DEF In
  <2> QED
    BY <2>1, <2>2
<1>6. ASSUME NEW p, Behind(q, p) PROVE Behind(Tail(q), p)
  <2>1. ASSUME NEW i \in DOMAIN Tail(q), NEW j \in DOMAIN Tail(q), Tail(q)[i].piece = "body", Tail(q)[j].piece = p
        PROVE  i < j
    <3>1. i + 1 < j + 1
      BY <1>2, <1>6, <2>1 DEF Behind
    <3> QED
      BY <1>2, <3>1
  <2> QED
    BY <2>1 DEF Behind
<1>7. ASSUME NEW p, Behind(q, p), In(q, "body"), p # "body" PROVE Head(q).piece # p
  BY <1>1, <1>7 DEF Behind, In
<1>8. Fresh(Tail(q)) <=> Fresh(q) /\ Head(q).piece # "body"
  <2>1. Fresh(Tail(q)) => Fresh(q) /\ Head(q).piece # "body"
    BY <1>1, <1>2 DEF Fresh, Once
  <2>2. Fresh(q) /\ Head(q).piece # "body" => Fresh(Tail(q))
    BY <1>1, <1>3 DEF Fresh
  <2> QED
    BY <2>1, <2>2
<1> QED
  BY <1>1, <1>4, <1>5, <1>6, <1>7, <1>8 DEF In

(* A line of the piece in front is written.                                *)
LEMMA Counted ==
  ASSUME ExecutorAssumption, NEW q \in Seq(Task), q # <<>>, Once(q), Head(q).left # 1
  PROVE  LET c == [q EXCEPT ![1].left = @ - 1] IN
         /\ c \in Seq(Task) /\ Once(c)
         /\ \A p : (In(c, p) <=> In(q, p)) /\ (Behind(q, p) => Behind(c, p))
         /\ Fresh(c) <=> Fresh(q) /\ Head(q).piece # "body"
<1> DEFINE h == [q[1] EXCEPT !.left = @ - 1]
           c == [q EXCEPT ![1] = h]
<1>1. q[1] \in Task /\ 1 \in DOMAIN q /\ Head(q) = q[1] /\ Len(q) \in Nat /\ DOMAIN q = 1..Len(q)
  OBVIOUS
<1>2. q[1].left \in 1..Lines /\ q[1].left # 1
  BY <1>1 DEF Task
<1>3. h \in Task /\ h.piece = q[1].piece /\ h.left = q[1].left - 1
  BY <1>1, <1>2 DEF Task, ExecutorAssumption
<1> HIDE DEF h
<1>4. c \in Seq(Task) /\ DOMAIN c = DOMAIN q /\ c[1] = h /\ \A i \in DOMAIN q : i # 1 => c[i] = q[i]
  BY <1>1, <1>3
<1>5. \A i \in DOMAIN q : c[i].piece = q[i].piece
  BY <1>3, <1>4
<1> HIDE DEF c
<1>6. Once(c) /\ \A p : (In(c, p) <=> In(q, p)) /\ (Behind(q, p) => Behind(c, p))
  BY <1>4, <1>5 DEF In, Once, Behind
<1>7. Fresh(c) <=> Fresh(q) /\ Head(q).piece # "body"
  <2>1. ASSUME NEW i \in DOMAIN c, c[i].piece = "body", c[i].left = Lines PROVE i # 1
    BY <1>2, <1>3, <1>4, <2>1 DEF ExecutorAssumption
  <2>2. Fresh(q) /\ Head(q).piece # "body" => Fresh(c)
    BY <1>1, <1>4 DEF Fresh
  <2> QED
    BY <1>1, <1>4, <1>5, <2>1, <2>2 DEF Fresh, Once
<1>8. [q EXCEPT ![1].left = @ - 1] = c
  BY <1>1 DEF c, h
<1> QED
  BY <1>4, <1>6, <1>7, <1>8

LEMMA CountedTail ==
  ASSUME NEW q \in Seq(Task), q # <<>>
  PROVE  Tail([q EXCEPT ![1].left = @ - 1]) = Tail(q)
<1> DEFINE h == [q[1] EXCEPT !.left = @ - 1]
           c == [q EXCEPT ![1] = h]
           Any == Task \union {h}
<1>1. q \in Seq(Any) /\ h \in Any /\ Len(q) \in Nat /\ Len(q) # 0
  OBVIOUS
<1> HIDE DEF h, Any
<1>2. c \in Seq(Any) /\ Len(c) = Len(q) /\ \A i \in 2..Len(q) : c[i] = q[i]
  BY <1>1
<1> HIDE DEF c
<1>3. Tail(c) = Tail(q)
  <2>1. Tail(c) \in Seq(Any) /\ Tail(q) \in Seq(Any) /\ Len(Tail(c)) = Len(q) - 1 /\ Len(Tail(q)) = Len(q) - 1
    BY <1>1, <1>2
  <2>2. \A i \in 1..Len(q) - 1 : Tail(c)[i] = c[i + 1] /\ Tail(q)[i] = q[i + 1] /\ i + 1 \in 2..Len(q)
    BY <1>1, <1>2
  <2> QED
    BY <1>2, <2>1, <2>2, SeqEqual
<1> QED
  BY <1>3 DEF c, h

(***************************************************************************)
(* The functions on the record.                                            *)
(***************************************************************************)
(* What a stop leaves alone,                                               *)
SameRest(r, s) ==
  /\ s.planned = r.planned /\ s.handoff = r.handoff /\ s.office = r.office
  /\ s.outside = r.outside /\ s.halted = r.halted /\ s.closing = r.closing /\ s.windowOver = r.windowOver
  /\ s.observer = r.observer /\ s.frame = r.frame /\ s.samples = r.samples
  /\ s.terminal = r.terminal /\ s.exit = r.exit
  /\ s.arm = r.arm /\ s.armStatus = r.armStatus /\ s.armFailure = r.armFailure
  /\ s.gate = r.gate /\ s.gatesLeft = r.gatesLeft
SameNight(r, s) == SameRest(r, s) /\ s.started = r.started /\ s.stale = r.stale /\ s.nightObserved = r.nightObserved

(* and what a start and a feed do.                                         *)
SameStop(r, s) == s.stopped = r.stopped /\ s.resolved = r.resolved /\ s.stopObserver = r.stopObserver

LEMMA FeedDoes ==
  ASSUME NEW r \in Run, NEW piece \in AllPieces, NEW n \in 1..Lines
  PROVE  LET s == feedShared(r, piece, n) IN
         /\ s \in Run /\ SameNight(r, s) /\ SameStop(r, s)
         /\ \A p : In(s.queue, p) <=> In(r.queue, p) \/ p = piece
         /\ Once(r.queue) /\ ~In(r.queue, piece) => Once(s.queue)
         /\ \A p : Behind(r.queue, p) /\ (piece # "body" \/ ~In(r.queue, p)) /\ p # "body" => Behind(s.queue, p)
         /\ piece # "body" => (Fresh(s.queue) <=> Fresh(r.queue))
         /\ piece = "body" /\ n = Lines => Fresh(s.queue)
<1> DEFINE f == Append(r.queue, [piece |-> piece, left |-> n])
           s == [r EXCEPT !.queue = f]
<1>1. /\ f \in Seq(Task)
      /\ \A p : In(f, p) <=> In(r.queue, p) \/ p = piece
      /\ Once(r.queue) /\ ~In(r.queue, piece) => Once(f)
      /\ \A p : Behind(r.queue, p) /\ (piece # "body" \/ ~In(r.queue, p)) /\ p # "body" => Behind(f, p)
      /\ piece # "body" => (Fresh(f) <=> Fresh(r.queue))
      /\ piece = "body" /\ n = Lines => Fresh(f)
  <2>1. r.queue \in Seq(Task)
    BY DEF Run
  <2> HIDE DEF f
  <2> QED
    BY <2>1, Fed DEF f
<1>2. feedShared(r, piece, n) = s
  BY DEF feedShared
<1> HIDE DEF f
<1>3. s \in Run /\ s.queue = f
  BY <1>1 DEF Run
<1>4. SameNight(r, s) /\ SameStop(r, s)
  BY DEF Run, SameNight, SameRest, SameStop
<1> HIDE DEF s
<1> QED
  BY <1>1, <1>2, <1>3, <1>4

LEMMA StopProcessDoes ==
  ASSUME ExecutorAssumption, NEW r \in Run
  PROVE  LET s == stopProcess(r) IN
         /\ s \in Run /\ SameNight(r, s) /\ s.stopped
         /\ s.stopObserver <=> r.stopObserver \/ r.halted
         /\ s.resolved <=> r.resolved \/ (r.halted /\ ~r.stopped)
         /\ \A p : In(s.queue, p) <=> In(r.queue, p) \/ (p = "release" /\ ~r.stopped /\ ~r.halted)
         /\ Once(r.queue) /\ (In(r.queue, "release") => r.stopped) => Once(s.queue)
         /\ \A p : p # "body" /\ Behind(r.queue, p) => Behind(s.queue, p)
         /\ Fresh(s.queue) <=> Fresh(r.queue)
<1>1. CASE r.stopped
  <2> DEFINE s == [r EXCEPT !.stopObserver = r.stopObserver \/ r.halted]
  <2>1. s \in Run
    BY DEF Run
  <2>2. stopProcess(r) = s
    BY <1>1 DEF stopProcess, Run
  <2>3. /\ s.queue = r.queue /\ s.stopped /\ SameNight(r, s) /\ (s.resolved <=> r.resolved)
        /\ s.stopObserver <=> r.stopObserver \/ r.halted
    BY <1>1 DEF Run, SameNight, SameRest
  <2> HIDE DEF s
  <2> QED
    BY <1>1, <2>1, <2>2, <2>3
<1>2. CASE ~r.stopped /\ r.halted
  <2> DEFINE s == [r EXCEPT !.stopObserver = TRUE, !.stopped = TRUE, !.resolved = TRUE]
  <2>1. s \in Run
    BY DEF Run
  <2>2. stopProcess(r) = s
    BY <1>2 DEF stopProcess, Run
  <2>3. s.queue = r.queue /\ s.stopped /\ SameNight(r, s) /\ s.stopObserver /\ s.resolved
    BY DEF Run, SameNight, SameRest
  <2> HIDE DEF s
  <2> QED
    BY <1>2, <2>1, <2>2, <2>3
<1>3. CASE ~r.stopped /\ ~r.halted
  <2> DEFINE tk == [r EXCEPT !.stopped = TRUE]
             s == feedShared(tk, "release", 1)
  <2>1. tk \in Run /\ tk.queue = r.queue /\ tk.stopped /\ SameNight(r, tk)
        /\ (tk.stopObserver <=> r.stopObserver) /\ (tk.resolved <=> r.resolved)
    BY ZenonT(40) DEF Run, SameNight, SameRest
  <2>2. stopProcess(r) = s
    BY <1>3 DEF stopProcess, Run
  <2>3. "release" \in AllPieces /\ 1 \in 1..Lines
    BY DEF AllPieces, ExecutorAssumption
  <2> HIDE DEF tk
  <2>4. /\ s \in Run /\ SameNight(tk, s) /\ SameStop(tk, s)
        /\ \A p : In(s.queue, p) <=> In(tk.queue, p) \/ p = "release"
        /\ Once(tk.queue) /\ ~In(tk.queue, "release") => Once(s.queue)
        /\ \A p : Behind(tk.queue, p) /\ p # "body" => Behind(s.queue, p)
        /\ Fresh(s.queue) <=> Fresh(tk.queue)
    BY <2>1, <2>3, FeedDoes
  <2>5. SameNight(r, s)
    BY <2>1, <2>4 DEF SameNight, SameRest
  <2> HIDE DEF s
  <2> QED
    BY <1>3, <2>1, <2>2, <2>4, <2>5 DEF SameStop
<1> QED
  BY <1>1, <1>2, <1>3

LEMMA StopProcessRun ==
  ASSUME ExecutorAssumption, NEW r, NEW mode, RunInv(r, mode)
  PROVE  RunInv(stopProcess(r), mode)
<1>1. r \in Run
  BY DEF RunInv
<1> DEFINE s == stopProcess(r)
<1>2. /\ s \in Run /\ SameNight(r, s) /\ s.stopped
      /\ s.stopObserver <=> r.stopObserver \/ r.halted
      /\ s.resolved <=> r.resolved \/ (r.halted /\ ~r.stopped)
      /\ \A p : In(s.queue, p) <=> In(r.queue, p) \/ (p = "release" /\ ~r.stopped /\ ~r.halted)
      /\ Once(r.queue) /\ (In(r.queue, "release") => r.stopped) => Once(s.queue)
      /\ \A p : p # "body" /\ Behind(r.queue, p) => Behind(s.queue, p)
      /\ Fresh(s.queue) <=> Fresh(r.queue)
  BY <1>1, StopProcessDoes
<1> HIDE DEF s
<1> USE DEF SameNight, SameRest
<1>4. WriterInv(s)
  BY <1>2 DEF RunInv, WriterInv
<1>5. ScheduleInv(s, mode) /\ ObserverInv(s) /\ FreshInv(s)
  BY <1>2 DEF RunInv, ScheduleInv, ObserverInv, FreshInv
<1>6. FifoInv(s)
  BY <1>2 DEF RunInv, WriterInv, FifoInv
<1> QED
  BY <1>2, <1>4, <1>5, <1>6 DEF RunInv, s

LEMMA StopProcessVerdict ==
  ASSUME ExecutorAssumption, NEW r \in Run, NEW mode, VerdictInv(r, mode), r.halted => Excused(r, mode)
  PROVE  VerdictInv(stopProcess(r), mode)
BY StopProcessDoes DEF SameNight, SameRest, VerdictInv, Excused

(* What a handler may do to the record while its execution stands: for the *)
(* place of the execution, for the halt,                                   *)
Moved(r, s) ==
  /\ (r.started => s.started) /\ (s.started => r.started \/ s.office)
  /\ (r.office => s.office) /\ (r.started /\ r.stale => s.stale) /\ (r.closing => s.closing)
  /\ (r.stopObserver => s.stopObserver) /\ (r.halted => s.halted)
  /\ s.stopped => r.stopped \/ s.stopObserver \/ s.started
  /\ In(s.queue, "body") => s.observer = "handing" \/ (In(r.queue, "body") /\ r.observer # "handing")
  /\ r.halted => s.planned = r.planned

(* for the gates, if it is not theirs, and for the pieces, if it queues    *)
(* nothing.                                                                *)
Steady(r, s) == Moved(r, s) /\ (s.gate = "releasing" => r.gate = "releasing")
Still(r, s) == Steady(r, s) /\ \A p \in Pieces : In(s.queue, p) => In(r.queue, p)

LEMMA MovedThen ==
  ASSUME NEW r, NEW tk, NEW s, Moved(r, tk), Moved(tk, s)
  PROVE  Moved(r, s)
BY DEF Moved

LEMMA StillThen ==
  ASSUME NEW r, NEW tk, NEW s, Still(r, tk), Still(tk, s)
  PROVE  Still(r, s)
BY DEF Still, Steady, Moved

(* One of the four pieces a waiting task writes.                           *)
LEMMA FeedRun ==
  ASSUME NEW r, NEW mode, RunInv(r, mode), NEW n \in 1..Lines, NEW piece, ~In(r.queue, piece),
         \/ piece = "rearm" /\ r.arm = "rearming"
         \/ piece = "armSegment" /\ r.arm = "releasing"
         \/ piece = "fix" /\ r.gate = "fixing"
         \/ piece = "segment" /\ r.gate = "releasing"
  PROVE  LET s == feedShared(r, piece, n) IN
         /\ RunInv(s, mode) /\ (VerdictInv(r, mode) => VerdictInv(s, mode))
         /\ Moved(r, s) /\ s.gate = r.gate
<1>1. r \in Run /\ piece \in AllPieces /\ piece \notin {"body", "release", "haltRelease"}
  BY DEF RunInv, AllPieces, Pieces
<1> DEFINE s == feedShared(r, piece, n)
<1>2. /\ s \in Run /\ SameNight(r, s) /\ SameStop(r, s)
      /\ \A p : In(s.queue, p) <=> In(r.queue, p) \/ p = piece
      /\ Once(r.queue) => Once(s.queue)
      /\ \A p : Behind(r.queue, p) /\ p # "body" => Behind(s.queue, p)
      /\ Fresh(s.queue) <=> Fresh(r.queue)
  BY <1>1, FeedDoes
<1> HIDE DEF s
<1> USE DEF SameNight, SameRest, SameStop
<1>4. WriterInv(s)
  BY <1>1, <1>2 DEF RunInv, WriterInv
<1>5. ScheduleInv(s, mode) /\ ObserverInv(s) /\ FreshInv(s)
  BY <1>2 DEF RunInv, ScheduleInv, ObserverInv, FreshInv
<1>6. FifoInv(s)
  BY <1>1, <1>2 DEF RunInv, FifoInv
<1>7. (VerdictInv(r, mode) => VerdictInv(s, mode)) /\ Moved(r, s) /\ s.gate = r.gate
  BY <1>1, <1>2 DEF VerdictInv, Excused, Moved
<1> QED
  BY <1>2, <1>4, <1>5, <1>6, <1>7 DEF RunInv, s

(* The night's release, refused or feeding the body.                       *)
Refused(r) == r.started \/ r.stopObserver \/ r.halted \/ running = "ending"

LEMMA ObservedDoes ==
  ASSUME NEW r \in Run
  PROVE  LET o == Observed(r) IN
         /\ o \in Run /\ o.queue = r.queue /\ o.started = r.started /\ o.stale = r.stale
         /\ SameRest(r, o) /\ SameStop(r, o)
BY ZenonT(40) DEF Observed, Run, SameRest, SameStop

LEMMA StartDoes ==
  ASSUME ExecutorAssumption, NEW r \in Run, NEW stale \in BOOLEAN
  PROVE  LET s == startSharedSchedule(r, stale) IN
         /\ Refused(r) => s = r
         /\ s \in Run /\ SameRest(r, s) /\ SameStop(r, s)
         /\ ~Refused(r) =>
              /\ s.started /\ s.stale = stale /\ Fresh(s.queue) /\ \A p : In(s.queue, p) <=> In(r.queue, p) \/ p = "body"
              /\ Once(r.queue) /\ ~In(r.queue, "body") => Once(s.queue)
              /\ \A p : Behind(r.queue, p) /\ ~In(r.queue, p) /\ p # "body" => Behind(s.queue, p)
<1>1. CASE Refused(r)
  BY <1>1 DEF startSharedSchedule, Refused, SameRest, SameStop
<1>2. CASE ~Refused(r)
  <2> DEFINE o == Observed(r)
             tk == [o EXCEPT !.started = TRUE, !.stale = stale]
             s == feedShared(tk, "body", Lines)
  <2>0. o \in Run /\ o.queue = r.queue /\ SameRest(r, o) /\ SameStop(r, o)
    BY ObservedDoes
  <2> HIDE DEF o
  <2>1. tk \in Run /\ tk.queue = r.queue /\ tk.started /\ tk.stale = stale /\ SameRest(r, tk) /\ SameStop(r, tk)
    <3>1. tk \in Run /\ tk.queue = o.queue /\ tk.started /\ tk.stale = stale /\ SameRest(o, tk) /\ SameStop(o, tk)
      BY <2>0, ZenonT(40) DEF Run, SameRest, SameStop
    <3> HIDE DEF tk
    <3> QED
      BY <2>0, <3>1 DEF SameRest, SameStop
  <2>2. startSharedSchedule(r, stale) = s
    BY <1>2 DEF startSharedSchedule, Refused, o, tk
  <2>3. "body" \in AllPieces /\ Lines \in 1..Lines
    BY DEF AllPieces, Pieces, ExecutorAssumption
  <2> HIDE DEF tk
  <2>4. /\ s \in Run /\ SameNight(tk, s) /\ SameStop(tk, s)
        /\ \A p : In(s.queue, p) <=> In(tk.queue, p) \/ p = "body"
        /\ Once(tk.queue) /\ ~In(tk.queue, "body") => Once(s.queue)
        /\ \A p : Behind(tk.queue, p) /\ ~In(tk.queue, p) /\ p # "body" => Behind(s.queue, p)
        /\ Fresh(s.queue)
    BY <2>1, <2>3, FeedDoes, ZenonT(40)
  <2>5. SameRest(r, s) /\ SameStop(r, s) /\ s.started /\ s.stale = stale
    BY <2>1, <2>4 DEF SameNight, SameRest, SameStop
  <2> HIDE DEF s
  <2> QED
    BY <1>2, <2>1, <2>2, <2>4, <2>5
<1> QED
  BY <1>1, <1>2

(* A body in the feed alone is in front of a release that is not there.    *)
LEMMA BehindNone == ASSUME NEW q, NEW p, ~In(q, p) PROVE Behind(q, p)
BY DEF In, Behind

LEMMA StartRun ==
  ASSUME ExecutorAssumption, NEW r, NEW mode, RunInv(r, mode), NEW stale \in BOOLEAN, Refused(r) \/ ~r.stopped
  PROVE  RunInv(startSharedSchedule(r, stale), mode)
<1>1. r \in Run
  BY DEF RunInv
<1>2. CASE Refused(r)
  BY <1>1, <1>2, StartDoes
<1>3. CASE ~Refused(r)
  <2> DEFINE s == startSharedSchedule(r, stale)
  <2>1. /\ s \in Run /\ SameRest(r, s) /\ SameStop(r, s) /\ s.started /\ Fresh(s.queue)
        /\ \A p : In(s.queue, p) <=> In(r.queue, p) \/ p = "body"
        /\ Once(r.queue) /\ ~In(r.queue, "body") => Once(s.queue)
        /\ \A p : ~In(r.queue, p) /\ p # "body" => Behind(s.queue, p)
    BY <1>1, <1>3, StartDoes, BehindNone
  <2> HIDE DEF s
  <2> USE DEF SameRest, SameStop
  <2>2. r.handoff = "none" /\ r.gate = "off" /\ ~In(r.queue, "body") /\ ~r.halted /\ ~r.stopped /\ ~r.stopObserver
        /\ r.arm \in {"pending", "done"}
    BY <1>1, <1>3 DEF RunInv, WriterInv, ScheduleInv, Refused, Run
  <2>3. WriterInv(s)
    BY <2>1, <2>2 DEF RunInv, WriterInv
  <2>4. ScheduleInv(s, mode) /\ ObserverInv(s) /\ FreshInv(s)
    BY <2>1, <2>2 DEF RunInv, ScheduleInv, ObserverInv, FreshInv
  <2>5. FifoInv(s)
    BY <1>3, <2>1, <2>2 DEF RunInv, WriterInv, FifoInv
  <2> QED
    BY <2>1, <2>3, <2>4, <2>5 DEF RunInv, s
<1> QED
  BY <1>2, <1>3

LEMMA StartVerdict ==
  ASSUME ExecutorAssumption, NEW r \in Run, NEW mode, VerdictInv(r, mode), NEW stale \in BOOLEAN
  PROVE  VerdictInv(startSharedSchedule(r, stale), mode)
BY StartDoes DEF SameRest, SameStop, VerdictInv, Excused

(* A halt drops the plan and queues its own release, or finds the run      *)
(* stopped and closes the stream.                                          *)
LEMMA HaltDoes ==
  ASSUME ExecutorAssumption, NEW r \in Run
  PROVE  LET s == haltActuation(r) IN
         /\ s \in Run /\ SameStop(r, s) /\ s.started = r.started /\ s.nightObserved = r.nightObserved
         /\ s.planned = r.planned /\ s.handoff = r.handoff /\ s.stale = r.stale /\ s.office = r.office /\ s.outside = r.outside
         /\ s.halted /\ (s.closing <=> r.closing \/ r.stopped) /\ s.windowOver = r.windowOver
         /\ s.observer = r.observer /\ s.frame = r.frame /\ s.samples = r.samples
         /\ s.terminal = r.terminal /\ s.exit = r.exit
         /\ s.arm = r.arm /\ s.armStatus = r.armStatus /\ s.armFailure = r.armFailure
         /\ s.gate = r.gate /\ s.gatesLeft = r.gatesLeft
         /\ \A p : In(s.queue, p) <=> In(r.queue, p) \/ (p = "haltRelease" /\ ~r.stopped)
         /\ Once(r.queue) /\ ~In(r.queue, "haltRelease") => Once(s.queue)
         /\ \A p : Behind(r.queue, p) /\ p # "body" => Behind(s.queue, p)
         /\ Fresh(s.queue) <=> Fresh(r.queue)
<1> DEFINE tk == [r EXCEPT !.halted = TRUE]
<1>1. CASE r.stopped
  <2> DEFINE s == [r EXCEPT !.halted = TRUE, !.closing = TRUE]
  <2>1. haltActuation(r) = s
    BY <1>1 DEF haltActuation
  <2>2. s \in Run /\ s.queue = r.queue /\ SameStop(r, s) /\ s.started = r.started /\ s.nightObserved = r.nightObserved
        /\ s.planned = r.planned /\ s.handoff = r.handoff /\ s.stale = r.stale /\ s.office = r.office /\ s.outside = r.outside
        /\ s.halted /\ s.closing /\ s.windowOver = r.windowOver
        /\ s.observer = r.observer /\ s.frame = r.frame /\ s.samples = r.samples
        /\ s.terminal = r.terminal /\ s.exit = r.exit
        /\ s.arm = r.arm /\ s.armStatus = r.armStatus /\ s.armFailure = r.armFailure
        /\ s.gate = r.gate /\ s.gatesLeft = r.gatesLeft
    BY DEF Run, SameStop
  <2> HIDE DEF s
  <2> QED
    BY <1>1, <2>1, <2>2
<1>2. CASE ~r.stopped
  <2> DEFINE s == feedShared(tk, "haltRelease", 1)
  <2>1. haltActuation(r) = s
    BY <1>2 DEF haltActuation
  <2>2. tk \in Run /\ tk.queue = r.queue /\ SameStop(r, tk) /\ tk.started = r.started /\ tk.nightObserved = r.nightObserved
        /\ tk.planned = r.planned /\ tk.handoff = r.handoff /\ tk.stale = r.stale /\ tk.office = r.office /\ tk.outside = r.outside
        /\ tk.halted /\ (tk.closing <=> r.closing) /\ tk.windowOver = r.windowOver
        /\ tk.observer = r.observer /\ tk.frame = r.frame /\ tk.samples = r.samples
        /\ tk.terminal = r.terminal /\ tk.exit = r.exit
        /\ tk.arm = r.arm /\ tk.armStatus = r.armStatus /\ tk.armFailure = r.armFailure
        /\ tk.gate = r.gate /\ tk.gatesLeft = r.gatesLeft
    BY DEF Run, SameStop
  <2>3. "haltRelease" \in AllPieces /\ 1 \in 1..Lines
    BY DEF AllPieces, ExecutorAssumption
  <2> HIDE DEF tk
  <2>4. /\ s \in Run /\ SameNight(tk, s) /\ SameStop(tk, s)
        /\ \A p : In(s.queue, p) <=> In(tk.queue, p) \/ p = "haltRelease"
        /\ Once(tk.queue) /\ ~In(tk.queue, "haltRelease") => Once(s.queue)
        /\ \A p : Behind(tk.queue, p) /\ p # "body" => Behind(s.queue, p)
        /\ Fresh(s.queue) <=> Fresh(tk.queue)
    BY <2>2, <2>3, FeedDoes
  <2> HIDE DEF s
  <2> QED
    BY <1>2, <2>1, <2>2, <2>4 DEF SameNight, SameRest, SameStop
<1> QED
  BY <1>1, <1>2

LEMMA HaltRun ==
  ASSUME ExecutorAssumption, NEW r, NEW mode, RunInv(r, mode), ~r.halted, r.observer = "reading"
  PROVE  /\ RunInv(haltActuation(r), mode)
         /\ ~r.stopObserver => VerdictInv(haltActuation(r), mode)
<1>1. r \in Run
  BY DEF RunInv
<1> DEFINE s == haltActuation(r)
<1>2. /\ s \in Run /\ SameStop(r, s) /\ s.started = r.started /\ s.nightObserved = r.nightObserved
      /\ s.planned = r.planned /\ s.handoff = r.handoff /\ s.stale = r.stale /\ s.office = r.office /\ s.outside = r.outside
      /\ s.halted /\ (s.closing <=> r.closing \/ r.stopped) /\ s.windowOver = r.windowOver
      /\ s.observer = r.observer /\ s.frame = r.frame /\ s.samples = r.samples
      /\ s.terminal = r.terminal /\ s.exit = r.exit
      /\ s.arm = r.arm /\ s.armStatus = r.armStatus /\ s.armFailure = r.armFailure
      /\ s.gate = r.gate /\ s.gatesLeft = r.gatesLeft
      /\ \A p : In(s.queue, p) <=> In(r.queue, p) \/ (p = "haltRelease" /\ ~r.stopped)
      /\ Once(r.queue) /\ ~In(r.queue, "haltRelease") => Once(s.queue)
      /\ \A p : Behind(r.queue, p) /\ p # "body" => Behind(s.queue, p)
      /\ Fresh(s.queue) <=> Fresh(r.queue)
  BY <1>1, HaltDoes
<1> HIDE DEF s
<1> USE DEF SameStop
<1>3. WriterInv(s)
  BY <1>2 DEF RunInv, WriterInv
<1>4. ScheduleInv(s, mode) /\ ObserverInv(s) /\ FreshInv(s)
  BY <1>2 DEF RunInv, ScheduleInv, ObserverInv, FreshInv
<1>5. FifoInv(s)
  BY <1>2 DEF RunInv, FifoInv
<1>6. ~r.stopObserver => VerdictInv(s, mode)
  BY <1>2 DEF VerdictInv
<1> QED
  BY <1>2, <1>3, <1>4, <1>5, <1>6 DEF RunInv, s

LEMMA StopProcessStill ==
  ASSUME ExecutorAssumption, NEW r \in Run, r.started \/ r.stopped \/ r.stopObserver
  PROVE  Still(r, stopProcess(r))
<1>1. "release" \notin Pieces /\ "body" # "release"
  BY DEF Pieces
<1> QED
  BY <1>1, StopProcessDoes DEF SameNight, SameRest, Still, Steady, Moved

(* The observer releases the night, and waits for its body.                *)
Handing(r) == [startSharedSchedule(r, FALSE) EXCEPT !.observer = "handing", !.frame = "none"]

LEMMA HandRun ==
  ASSUME ExecutorAssumption, NEW r, NEW mode, RunInv(r, mode), r.observer = "reading"
  PROVE  LET s == Handing(r) IN
         /\ RunInv(s, mode) /\ (VerdictInv(r, mode) => VerdictInv(s, mode))
         /\ r.office => Moved(r, s) /\ s.gate = r.gate
<1>1. r \in Run
  BY DEF RunInv
<1> DEFINE tk == startSharedSchedule(r, FALSE)
           s == Handing(r)
<1>2. /\ tk \in Run /\ SameRest(r, tk) /\ SameStop(r, tk)
      /\ Refused(r) => tk = r
      /\ ~Refused(r) => /\ tk.started /\ Fresh(tk.queue) /\ \A p : In(tk.queue, p) <=> In(r.queue, p) \/ p = "body"
                        /\ Once(r.queue) /\ ~In(r.queue, "body") => Once(tk.queue)
  BY <1>1, StartDoes
<1>3. s = [tk EXCEPT !.observer = "handing", !.frame = "none"]
  BY DEF Handing
<1> HIDE DEF tk
<1>4. /\ s \in Run /\ s.queue = tk.queue /\ s.observer = "handing" /\ s.started = tk.started /\ SameStop(tk, s)
      /\ s.planned = tk.planned /\ s.office = tk.office /\ s.handoff = tk.handoff /\ s.stale = tk.stale /\ s.halted = tk.halted /\ s.closing = tk.closing
      /\ s.outside = tk.outside /\ s.samples = tk.samples /\ s.terminal = tk.terminal /\ s.exit = tk.exit
      /\ s.arm = tk.arm /\ s.armStatus = tk.armStatus /\ s.armFailure = tk.armFailure
      /\ s.gate = tk.gate /\ s.gatesLeft = tk.gatesLeft
  <2> DEFINE u == [tk EXCEPT !.observer = "handing", !.frame = "none"]
  <2>1. tk \in Run
    BY <1>2
  <2>2. u \in Run
    BY <2>1, ZenonT(40) DEF Run
  <2> HIDE DEF s
  <2> QED
    BY <1>3, <2>1, <2>2 DEF Run, SameStop
<1> HIDE DEF s
<1> USE DEF SameRest, SameStop
<1>5. WriterInv(s)
  <2>1. CASE Refused(r)
    BY <1>2, <1>4, <2>1 DEF RunInv, WriterInv
  <2>2. CASE ~Refused(r)
    <3>1. r.handoff = "none" /\ r.gate = "off" /\ ~In(r.queue, "body") /\ r.arm \in {"pending", "done"}
      BY <1>1, <2>2 DEF RunInv, WriterInv, ScheduleInv, Refused, Run
    <3> QED
      BY <1>2, <1>4, <2>2, <3>1 DEF RunInv, WriterInv
  <2> QED
    BY <2>1, <2>2
<1>6. ScheduleInv(s, mode)
  BY <1>2, <1>4 DEF RunInv, ScheduleInv, Refused
<1>7. ObserverInv(s) /\ FifoInv(s)
  BY <1>2, <1>4 DEF RunInv, ObserverInv, FifoInv
<1>8. FreshInv(s)
  BY <1>2, <1>4 DEF RunInv, ScheduleInv, FreshInv, Refused
<1>9. VerdictInv(r, mode) => VerdictInv(s, mode)
  BY <1>2, <1>4 DEF RunInv, VerdictInv, Excused
<1>10. r.office => Moved(r, s) /\ s.gate = r.gate
  BY <1>2, <1>4 DEF Moved, Refused
<1> QED
  BY <1>4, <1>5, <1>6, <1>7, <1>8, <1>9, <1>10 DEF RunInv, s

LEMMA StopRun ==
  ASSUME ExecutorAssumption, NEW r \in Run, NEW mode \in Modes,
         WriterInv(r), ScheduleInv(r, mode), FifoInv(r), FreshInv(r),
         r.observer = "handing" => ~In(r.queue, "body"),
         r.exit = "static" => r.windowOver \/ ~r.nightObserved
  PROVE  /\ RunInv(Stop(r), mode) /\ Still(r, Stop(r))
         /\ Excused(r, mode) => VerdictInv(Stop(r), mode)
         /\ Stop(r).gate = r.gate
<1> DEFINE tk == [r EXCEPT !.stopObserver = TRUE, !.observer = "done", !.frame = "none"]
<1>1. /\ tk \in Run /\ tk.queue = r.queue /\ tk.stopObserver /\ tk.observer = "done" /\ tk.frame = "none"
      /\ tk.planned = r.planned /\ tk.started = r.started /\ tk.handoff = r.handoff /\ tk.stale = r.stale /\ tk.office = r.office
      /\ tk.stopped = r.stopped /\ tk.resolved = r.resolved /\ tk.outside = r.outside
      /\ tk.halted = r.halted /\ tk.closing = r.closing /\ tk.windowOver = r.windowOver
      /\ tk.nightObserved = r.nightObserved /\ tk.samples = r.samples
      /\ tk.terminal = r.terminal /\ tk.exit = r.exit
      /\ tk.arm = r.arm /\ tk.armStatus = r.armStatus /\ tk.armFailure = r.armFailure
      /\ tk.gate = r.gate /\ tk.gatesLeft = r.gatesLeft
  BY ZenonT(40) DEF Run
<1>2. Stop(r) = stopProcess(tk)
  BY DEF Stop
<1> HIDE DEF tk
<1>3. WriterInv(tk) /\ FreshInv(tk)
  BY <1>1 DEF WriterInv, FreshInv
<1>4. ScheduleInv(tk, mode) /\ ObserverInv(tk)
  BY <1>1 DEF ScheduleInv, ObserverInv
<1>5. FifoInv(tk)
  BY <1>1 DEF FifoInv
<1>6. RunInv(tk, mode)
  BY <1>1, <1>3, <1>4, <1>5 DEF RunInv
<1>7. Still(r, tk)
  BY <1>1 DEF Still, Steady, Moved
<1>8. Excused(r, mode) => VerdictInv(tk, mode) /\ Excused(tk, mode)
  BY <1>1 DEF Excused, VerdictInv
<1>9. stopProcess(tk).gate = tk.gate
  BY <1>1, StopProcessDoes DEF SameNight, SameRest
<1> QED
  BY <1>1, <1>2, <1>6, <1>7, <1>8, <1>9, StopProcessRun, StopProcessStill, StopProcessVerdict, StillThen

LEMMA EndAtRun ==
  ASSUME ExecutorAssumption, NEW r, NEW mode, RunInv(r, mode), r.observer \in {"reading", "handing"},
         r.observer = "handing" => ~In(r.queue, "body")
  PROVE  LET s == endAtHaltWindow(r) IN
         RunInv(s, mode) /\ Still(r, s) /\ (VerdictInv(r, mode) => VerdictInv(s, mode)) /\ s.gate = r.gate
<1>1. r \in Run /\ mode \in Modes
  BY DEF RunInv
<1>2. CASE r.halted /\ r.windowOver
  <2> DEFINE tk == [r EXCEPT !.exit = "static"]
  <2>1. /\ tk \in Run /\ tk.queue = r.queue /\ tk.stopObserver = r.stopObserver /\ tk.observer = r.observer
        /\ tk.planned = r.planned /\ tk.started = r.started /\ tk.handoff = r.handoff /\ tk.stale = r.stale /\ tk.office = r.office
        /\ tk.stopped = r.stopped /\ tk.resolved = r.resolved
        /\ tk.halted = r.halted /\ tk.closing = r.closing /\ tk.windowOver = r.windowOver /\ tk.exit = "static"
        /\ tk.arm = r.arm /\ tk.armStatus = r.armStatus /\ tk.armFailure = r.armFailure
        /\ tk.gate = r.gate /\ tk.gatesLeft = r.gatesLeft
    BY <1>1 DEF Run, Screens
  <2>2. endAtHaltWindow(r) = Stop(tk)
    BY <1>2 DEF endAtHaltWindow
  <2> HIDE DEF tk
  <2>3. WriterInv(tk) /\ FreshInv(tk)
    BY <2>1 DEF RunInv, WriterInv, FreshInv
  <2>4. ScheduleInv(tk, mode)
    BY <2>1 DEF RunInv, ScheduleInv
  <2>5. FifoInv(tk)
    BY <2>1 DEF RunInv, FifoInv
  <2>6. Still(r, tk) /\ Excused(tk, mode)
    BY <2>1 DEF Still, Steady, Moved, Excused
  <2> QED
    BY <1>1, <1>2, <2>1, <2>2, <2>3, <2>4, <2>5, <2>6, StopRun, StillThen
<1>3. CASE ~(r.halted /\ r.windowOver)
  <2> DEFINE tk == [r EXCEPT !.observer = "waiting", !.frame = "none"]
  <2>1. /\ tk \in Run /\ tk.queue = r.queue /\ tk.stopObserver = r.stopObserver /\ tk.observer = "waiting"
        /\ tk.planned = r.planned /\ tk.started = r.started /\ tk.handoff = r.handoff /\ tk.stale = r.stale /\ tk.office = r.office
        /\ tk.stopped = r.stopped /\ tk.resolved = r.resolved /\ tk.outside = r.outside
        /\ tk.halted = r.halted /\ tk.closing = r.closing /\ tk.windowOver = r.windowOver
        /\ tk.nightObserved = r.nightObserved /\ tk.samples = r.samples
        /\ tk.terminal = r.terminal /\ tk.exit = r.exit
        /\ tk.arm = r.arm /\ tk.armStatus = r.armStatus /\ tk.armFailure = r.armFailure
        /\ tk.gate = r.gate /\ tk.gatesLeft = r.gatesLeft
    BY <1>1, ZenonT(40) DEF Run
  <2>2. endAtHaltWindow(r) = tk
    BY <1>3 DEF endAtHaltWindow
  <2> HIDE DEF tk
  <2>3. WriterInv(tk) /\ FreshInv(tk)
    BY <2>1 DEF RunInv, WriterInv, FreshInv
  <2>4. ScheduleInv(tk, mode) /\ ObserverInv(tk)
    BY <2>1 DEF RunInv, ScheduleInv, ObserverInv
  <2>5. FifoInv(tk)
    BY <2>1 DEF RunInv, FifoInv
  <2>6. Still(r, tk)
    BY <2>1 DEF Still, Steady, Moved
  <2>7. VerdictInv(r, mode) => VerdictInv(tk, mode)
    BY <2>1 DEF VerdictInv, Excused
  <2> QED
    BY <1>1, <2>1, <2>2, <2>3, <2>4, <2>5, <2>6, <2>7 DEF RunInv
<1> QED
  BY <1>2, <1>3

(***************************************************************************)
(* The feed's task.                                                        *)
(***************************************************************************)
RunCore(r, mode) ==
  r \in Run /\ mode \in Modes /\ WriterInv(r) /\ ScheduleInv(r, mode) /\ ObserverInv(r) /\ FifoInv(r)

(* The piece in front ends; its task goes on.                              *)
LEMMA DoneRun ==
  ASSUME NEW u, RunCore(u, request.arm), u.queue # <<>>, FreshInv(u) \/ Head(u.queue).piece = "body",
         Head(u.queue).piece = "body" /\ u.handoff = "written" => u.started
  PROVE  LET s == Done([u EXCEPT !.queue = Tail(@)], Head(u.queue).piece) IN
         /\ RunInv(s, request.arm) /\ Still(u, s)
         /\ VerdictInv(u, request.arm) => VerdictInv(s, request.arm)
<1> DEFINE p == Head(u.queue).piece
           v == [u EXCEPT !.queue = Tail(@)]
           s == Done(v, p)
<1>1. u \in Run /\ u.queue \in Seq(Task) /\ Once(u.queue)
  BY DEF RunCore, Run, WriterInv
<1>2. /\ Tail(u.queue) \in Seq(Task) /\ Once(Tail(u.queue)) /\ In(u.queue, p)
      /\ \A n : In(Tail(u.queue), n) <=> In(u.queue, n) /\ n # p
      /\ \A n : Behind(u.queue, n) => Behind(Tail(u.queue), n)
      /\ \A n : Behind(u.queue, n) /\ In(u.queue, "body") /\ n # "body" => p # n
      /\ Fresh(Tail(u.queue)) <=> Fresh(u.queue) /\ p # "body"
  BY <1>1, Taken
<1>3. /\ v \in Run /\ v.queue = Tail(u.queue) /\ SameNight(u, v) /\ SameStop(u, v)
  BY <1>1, <1>2 DEF Run, SameNight, SameRest, SameStop
<1>0. FreshInv(u) \/ p = "body"
  OBVIOUS
<1> HIDE DEF v, p
<1>4. CASE p = "release"
  <2> DEFINE told == v.stopObserver \/ ~v.halted
             w == [v EXCEPT !.resolved = TRUE, !.stopObserver = told]
  <2>1. s = w
    BY <1>4 DEF Done
  <2>0. told \in BOOLEAN /\ (told <=> v.stopObserver \/ ~v.halted)
    OBVIOUS
  <2> HIDE DEF told
  <2>2. /\ w \in Run /\ w.queue = v.queue /\ SameNight(v, w) /\ w.stopped = v.stopped /\ w.resolved
        /\ (w.stopObserver <=> v.stopObserver \/ ~v.halted)
    <3>1. w \in Run
      BY <1>3, <2>0 DEF Run
    <3> QED
      BY <1>3, <2>0, <3>1 DEF Run, SameNight, SameRest
  <2> HIDE DEF w
  <2> USE DEF SameNight, SameRest, SameStop
  <2>3. WriterInv(w) /\ FreshInv(w)
    BY <1>0, <1>2, <1>3, <1>4, <2>2 DEF RunCore, WriterInv, FreshInv
  <2>4. ScheduleInv(w, request.arm) /\ ObserverInv(w)
    BY <1>3, <2>2 DEF RunCore, ScheduleInv, ObserverInv
  <2>5. FifoInv(w)
    BY <1>2, <1>3, <1>4, <2>2 DEF RunCore, WriterInv, FifoInv
  <2>6. VerdictInv(u, request.arm) => VerdictInv(w, request.arm)
    BY <1>3, <2>2 DEF VerdictInv, Excused
  <2>7. Still(u, w)
    BY <1>2, <1>3, <2>2 DEF RunCore, WriterInv, Still, Steady, Moved
  <2> QED
    BY <2>1, <2>2, <2>3, <2>4, <2>5, <2>6, <2>7 DEF RunCore, RunInv, v, p
<1>5. CASE p = "haltRelease"
  <2> DEFINE w == [v EXCEPT !.closing = TRUE]
  <2>1. s = w
    BY <1>5 DEF Done
  <2>2. /\ w \in Run /\ w.queue = v.queue /\ SameStop(v, w) /\ w.closing /\ w.started = v.started
        /\ w.nightObserved = v.nightObserved /\ w.planned = v.planned /\ w.handoff = v.handoff /\ w.stale = v.stale
        /\ w.office = v.office /\ w.outside = v.outside /\ w.halted = v.halted /\ w.windowOver = v.windowOver
        /\ w.observer = v.observer /\ w.frame = v.frame /\ w.samples = v.samples
        /\ w.terminal = v.terminal /\ w.exit = v.exit
        /\ w.arm = v.arm /\ w.armStatus = v.armStatus /\ w.armFailure = v.armFailure
        /\ w.gate = v.gate /\ w.gatesLeft = v.gatesLeft
    BY <1>3 DEF Run, SameStop
  <2> HIDE DEF w
  <2> USE DEF SameNight, SameRest, SameStop
  <2>3. WriterInv(w) /\ FreshInv(w)
    BY <1>0, <1>2, <1>3, <1>5, <2>2 DEF RunCore, WriterInv, FreshInv
  <2>4. ScheduleInv(w, request.arm) /\ ObserverInv(w)
    BY <1>3, <2>2 DEF RunCore, ScheduleInv, ObserverInv
  <2>5. FifoInv(w)
    BY <1>2, <1>3, <1>5, <2>2 DEF RunCore, WriterInv, FifoInv
  <2>6. VerdictInv(u, request.arm) => VerdictInv(w, request.arm)
    BY <1>3, <2>2 DEF VerdictInv, Excused
  <2>7. Still(u, w)
    BY <1>2, <1>3, <2>2 DEF Still, Steady, Moved
  <2> QED
    BY <2>1, <2>2, <2>3, <2>4, <2>5, <2>6, <2>7 DEF RunCore, RunInv, v, p
<1>6. CASE p = "body" /\ v.handoff = "written" /\ ~v.halted /\ request.arm = "once"
  <2> DEFINE w == [v EXCEPT !.gate = "due"]
  <2>1. s = w
    BY <1>6 DEF Done
  <2>2. /\ w \in Run /\ w.queue = v.queue /\ SameStop(v, w) /\ w.closing = v.closing /\ w.started = v.started
        /\ w.nightObserved = v.nightObserved /\ w.planned = v.planned /\ w.handoff = v.handoff /\ w.stale = v.stale
        /\ w.office = v.office /\ w.outside = v.outside /\ w.halted = v.halted /\ w.windowOver = v.windowOver
        /\ w.observer = v.observer /\ w.frame = v.frame /\ w.samples = v.samples
        /\ w.terminal = v.terminal /\ w.exit = v.exit
        /\ w.arm = v.arm /\ w.armStatus = v.armStatus /\ w.armFailure = v.armFailure
        /\ w.gate = "due" /\ w.gatesLeft = v.gatesLeft
    <3>1. w \in Run
      BY <1>3, ZenonT(60) DEF Run
    <3> QED
      BY <1>3, <3>1 DEF Run, SameStop
  <2> HIDE DEF w
  <2> USE DEF SameNight, SameRest, SameStop
  <2>3. WriterInv(w) /\ FreshInv(w)
    BY <1>0, <1>2, <1>3, <1>6, <2>2 DEF RunCore, WriterInv, FreshInv
  <2>4. ScheduleInv(w, request.arm) /\ ObserverInv(w)
    BY <1>2, <1>3, <1>6, <2>2 DEF RunCore, WriterInv, ScheduleInv, ObserverInv
  <2>5. FifoInv(w)
    BY <1>2, <1>3, <1>6, <2>2 DEF RunCore, WriterInv, FifoInv
  <2>6. VerdictInv(u, request.arm) => VerdictInv(w, request.arm)
    BY <1>3, <2>2 DEF VerdictInv, Excused
  <2>7. Still(u, w)
    BY <1>2, <1>3, <2>2 DEF Still, Steady, Moved
  <2> QED
    BY <2>1, <2>2, <2>3, <2>4, <2>5, <2>6, <2>7 DEF RunCore, RunInv, v, p
<1>7. CASE /\ p \notin {"release", "haltRelease"}
           /\ ~(p = "body" /\ v.handoff = "written" /\ ~v.halted /\ request.arm = "once")
  <2>1. s = v
    BY <1>7 DEF Done
  <2> USE DEF SameNight, SameRest, SameStop
  <2>3. WriterInv(v) /\ FreshInv(v)
    BY <1>0, <1>2, <1>3, <1>7 DEF RunCore, WriterInv, FreshInv
  <2>4. ScheduleInv(v, request.arm) /\ ObserverInv(v)
    BY <1>3 DEF RunCore, ScheduleInv, ObserverInv
  <2>5. FifoInv(v)
    BY <1>2, <1>3, <1>7 DEF RunCore, WriterInv, FifoInv
  <2>6. VerdictInv(u, request.arm) => VerdictInv(v, request.arm)
    BY <1>3 DEF VerdictInv, Excused
  <2>7. Still(u, v)
    BY <1>2, <1>3 DEF Still, Steady, Moved
  <2> QED
    BY <1>3, <2>1, <2>3, <2>4, <2>5, <2>6, <2>7 DEF RunCore, RunInv, v, p
<1> QED
  BY <1>4, <1>5, <1>6, <1>7

(* One more line of the piece in front: its last, or not.                  *)
LEMMA LineRun ==
  ASSUME ExecutorAssumption, NEW u, RunCore(u, request.arm), u.queue # <<>>,
         FreshInv(u) \/ Head(u.queue).piece = "body",
         Head(u.queue).piece = "body" => u.handoff # "none"
  PROVE  LET c == [u.queue EXCEPT ![1].left = @ - 1]
             s == IF Head(u.queue).left = 1 THEN Done([u EXCEPT !.queue = Tail(@)], Head(u.queue).piece)
                  ELSE [u EXCEPT !.queue = c]
         IN  /\ RunInv(s, request.arm) /\ Still(u, s)
             /\ VerdictInv(u, request.arm) => VerdictInv(s, request.arm)
<1>1. u \in Run /\ u.queue \in Seq(Task) /\ Once(u.queue)
  BY DEF RunCore, Run, WriterInv
<1>2. Head(u.queue).piece = "body" => u.started
  BY <1>1, Taken DEF RunCore, WriterInv
<1>3. CASE Head(u.queue).left = 1
  BY <1>2, <1>3, DoneRun
<1>4. CASE Head(u.queue).left # 1
  <2> DEFINE c == [u.queue EXCEPT ![1].left = @ - 1]
             s == [u EXCEPT !.queue = c]
             p == Head(u.queue).piece
  <2>1. /\ c \in Seq(Task) /\ Once(c)
        /\ \A n : (In(c, n) <=> In(u.queue, n)) /\ (Behind(u.queue, n) => Behind(c, n))
        /\ Fresh(c) <=> Fresh(u.queue) /\ p # "body"
    BY <1>1, <1>4, Counted
  <2> HIDE DEF c
  <2>2. s \in Run /\ s.queue = c /\ SameNight(u, s) /\ SameStop(u, s)
    BY <1>1, <2>1 DEF Run, SameNight, SameRest, SameStop
  <2>3. (FreshInv(u) \/ p = "body") /\ (p = "body" => u.handoff # "none")
    OBVIOUS
  <2> HIDE DEF s, p
  <2> USE DEF SameNight, SameRest, SameStop
  <2>4. WriterInv(s) /\ FreshInv(s)
    BY <2>1, <2>2, <2>3 DEF RunCore, WriterInv, FreshInv
  <2>5. ScheduleInv(s, request.arm) /\ ObserverInv(s)
    BY <2>2 DEF RunCore, ScheduleInv, ObserverInv
  <2>6. FifoInv(s)
    BY <2>1, <2>2 DEF RunCore, FifoInv
  <2>7. VerdictInv(u, request.arm) => VerdictInv(s, request.arm)
    BY <2>2 DEF VerdictInv, Excused
  <2>8. Still(u, s)
    BY <2>1, <2>2 DEF Still, Steady, Moved
  <2> QED
    BY <1>4, <2>2, <2>4, <2>5, <2>6, <2>7, <2>8 DEF RunCore, RunInv, s, c
<1> QED
  BY <1>3, <1>4

(* A handler that leaves the ports alone: what each of them is shown to    *)
(* keep, and what it may move.                                             *)
Kept == RunInv(run', request.arm) /\ (running = "yes" /\ VerdictInv(run, request.arm) => VerdictInv(run', request.arm))

LEMMA WriteKeeps ==
  ASSUME ExecutorAssumption, RunInv(run, request.arm), Write
  PROVE  Kept /\ Still(run, run')
<1> DEFINE q == run.queue
           task == Head(q)
           written == IF task.piece \in Pieces THEN Another(run.planned) ELSE run.planned
           one == [run EXCEPT !.queue[1].left = @ - 1, !.planned = written]
<1>1. run \in Run /\ q \in Seq(Task) /\ q # <<>> /\ Once(q) /\ task \in Task /\ In(q, task.piece)
  <2>1. run \in Run /\ q \in Seq(Task) /\ q # <<>> /\ Once(q)
    BY DEF RunInv, Run, WriterInv, Write
  <2> QED
    BY <2>1, Taken
<1>2. RunCore(run, request.arm) /\ FreshInv(run)
  BY DEF RunInv, RunCore
<1>3. task.piece = "body" => run.started
  BY <1>1 DEF RunInv, WriterInv
<1>4. CASE (run.halted /\ task.piece # "haltRelease") \/ hid # "open"
  <2>1. run' = Done([run EXCEPT !.queue = Tail(@)], task.piece)
    BY <1>4 DEF Write
  <2> QED
    BY <1>1, <1>2, <1>3, <2>1, DoneRun DEF Kept
<1>5. CASE ~((run.halted /\ task.piece # "haltRelease") \/ hid # "open")
  <2>1. written \in 0..2 /\ (run.halted => written = run.planned)
        /\ (task.piece \in Pieces => run.started) /\ (run.planned = 0 => written <= 1)
    <3>1. run.planned \in 0..2
      BY <1>1 DEF Run
    <3>2. written \in 0..2 /\ (run.halted => written = run.planned) /\ (run.planned = 0 => written <= 1)
      BY <1>5, <3>1 DEF Another, Pieces
    <3>3. task.piece \in Pieces => run.started
      BY <1>1 DEF RunInv, WriterInv, ScheduleInv, Pieces
    <3> QED
      BY <3>2, <3>3
  <2>2. one = [run EXCEPT !.queue = [q EXCEPT ![1].left = @ - 1], !.planned = written]
    BY <1>1 DEF Run
  <2>3. Tail([q EXCEPT ![1].left = @ - 1]) = Tail(q)
    BY <1>1, CountedTail
  <2>4. CASE task.piece = "body" /\ task.left = Lines
    <3>1. PICK late \in IF run.stale THEN {TRUE} ELSE BOOLEAN :
            LET r == FirstWrite(one, late) IN run' = IF task.left = 1 /\ ~late THEN Done([r EXCEPT !.queue = Tail(@)], "body") ELSE r
      BY <1>5, <2>4 DEF Write
    <3>2. run.handoff = "none" /\ run.planned = 0 /\ run.gate = "off" /\ ~run.halted
      <4>1. Fresh(q)
        <5>1. 1 \in DOMAIN q /\ q[1] = task
          BY <1>1
        <5> QED
          BY <2>4, <5>1 DEF Fresh
      <4> QED
        BY <1>1, <1>2, <1>5, <2>4, <4>1 DEF RunCore, ScheduleInv, FreshInv, Run
    <3>3. CASE late
      <4> DEFINE tk == [run EXCEPT !.queue = Tail(q), !.planned = written, !.handoff = "late"]
      <4>1. run' = stopProcess(tk)
        <5>1. run' = stopProcess([one EXCEPT !.handoff = "late", !.queue = Tail(@)])
          BY <3>1, <3>3 DEF FirstWrite
        <5>2. [one EXCEPT !.handoff = "late", !.queue = Tail(@)] = tk
          BY <1>1, <2>2, <2>3 DEF Run
        <5> QED
          BY <5>1, <5>2
      <4> HIDE DEF written
      <4>2. /\ Tail(q) \in Seq(Task) /\ Once(Tail(q))
            /\ \A p : In(Tail(q), p) <=> In(q, p) /\ p # task.piece
            /\ ~Fresh(Tail(q))
        BY <1>1, <2>4, Taken
      <4> DEFINE e == Tail(q)
      <4> HIDE DEF e
      <4>3. tk \in Run
        BY <1>1, <2>1, <4>2, ZenonT(40) DEF Run
      <4>4. /\ tk.queue = Tail(q) /\ tk.planned = written /\ tk.handoff = "late" /\ tk.stale = run.stale
            /\ tk.started = run.started /\ tk.office = run.office /\ SameStop(run, tk)
            /\ tk.outside = run.outside /\ tk.halted = run.halted /\ tk.closing = run.closing /\ tk.windowOver = run.windowOver
            /\ tk.nightObserved = run.nightObserved
            /\ tk.observer = run.observer /\ tk.frame = run.frame /\ tk.samples = run.samples
            /\ tk.terminal = run.terminal /\ tk.exit = run.exit
            /\ tk.arm = run.arm /\ tk.armStatus = run.armStatus /\ tk.armFailure = run.armFailure
            /\ tk.gate = run.gate /\ tk.gatesLeft = run.gatesLeft
        BY <1>1 DEF Run, SameStop
      <4> HIDE DEF tk
      <4> USE DEF SameStop
      <4>5. WriterInv(tk) /\ FreshInv(tk)
        BY <1>2, <2>4, <4>2, <4>4 DEF RunCore, WriterInv, FreshInv
      <4>6. ScheduleInv(tk, request.arm) /\ ObserverInv(tk)
        BY <1>2, <1>3, <2>1, <2>4, <3>2, <4>4 DEF RunCore, ScheduleInv, ObserverInv
      <4>7. FifoInv(tk)
        BY <1>2, <2>4, <4>2, <4>4 DEF RunCore, FifoInv
      <4>8. RunInv(tk, request.arm)
        BY <1>2, <4>3, <4>5, <4>6, <4>7 DEF RunCore, RunInv
      <4>9. Still(run, tk)
        BY <2>1, <4>2, <4>4 DEF Still, Steady, Moved
      <4>10. (VerdictInv(run, request.arm) => VerdictInv(tk, request.arm)) /\ Excused(tk, request.arm)
        BY <4>4 DEF VerdictInv, Excused
      <4>11. tk.started
        BY <1>3, <2>4, <4>4
      <4> QED
        BY <4>1, <4>3, <4>8, <4>9, <4>10, <4>11, StopProcessRun, StopProcessVerdict, StopProcessStill, StillThen DEF Kept
    <3>4. CASE ~late
      <4> DEFINE u == [run EXCEPT !.planned = written, !.handoff = "written"]
      <4>1. run' = IF task.left = 1 THEN Done([u EXCEPT !.queue = Tail(@)], "body")
                   ELSE [u EXCEPT !.queue = [q EXCEPT ![1].left = @ - 1]]
        <5> DEFINE r == [one EXCEPT !.handoff = "written"]
        <5>1. run' = IF task.left = 1 THEN Done([r EXCEPT !.queue = Tail(@)], "body") ELSE r
          BY <3>1, <3>4 DEF FirstWrite
        <5>2. r = [u EXCEPT !.queue = [q EXCEPT ![1].left = @ - 1]]
          BY <1>1, <2>2 DEF Run
        <5>3. [r EXCEPT !.queue = Tail(@)] = [u EXCEPT !.queue = Tail(@)]
          BY <1>1, <2>2, <2>3 DEF Run
        <5> HIDE DEF r
        <5> QED
          BY <5>1, <5>2, <5>3
      <4> HIDE DEF written
      <4>2. u \in Run
        BY <1>1, <2>1 DEF Run
      <4>3. /\ u.queue = q /\ u.planned = written /\ u.handoff = "written" /\ u.stale = run.stale
            /\ u.started = run.started /\ u.office = run.office /\ SameStop(run, u)
            /\ u.outside = run.outside /\ u.halted = run.halted /\ u.closing = run.closing /\ u.windowOver = run.windowOver
            /\ u.nightObserved = run.nightObserved
            /\ u.observer = run.observer /\ u.frame = run.frame /\ u.samples = run.samples
            /\ u.terminal = run.terminal /\ u.exit = run.exit
            /\ u.arm = run.arm /\ u.armStatus = run.armStatus /\ u.armFailure = run.armFailure
            /\ u.gate = run.gate /\ u.gatesLeft = run.gatesLeft
        BY <1>1 DEF Run, SameStop
      <4> HIDE DEF u
      <4> USE DEF SameStop
      <4>4. WriterInv(u)
        BY <1>2, <4>3 DEF RunCore, WriterInv
      <4>5. ScheduleInv(u, request.arm) /\ ObserverInv(u)
        BY <1>2, <1>3, <2>4, <3>1, <3>2, <3>4, <4>3 DEF RunCore, ScheduleInv, ObserverInv
      <4>6. FifoInv(u)
        BY <1>2, <4>3 DEF RunCore, FifoInv
      <4>7. RunCore(u, request.arm)
        BY <1>2, <4>2, <4>4, <4>5, <4>6 DEF RunCore
      <4>8. Still(run, u)
        BY <2>1, <4>3 DEF Still, Steady, Moved
      <4>9. VerdictInv(run, request.arm) => VerdictInv(u, request.arm)
        BY <3>2, <4>3 DEF VerdictInv, Excused
      <4> QED
        BY <1>1, <2>4, <4>1, <4>3, <4>7, <4>8, <4>9, LineRun, StillThen, ZenonT(40) DEF Kept
    <3> QED
      BY <3>3, <3>4
  <2>5. CASE ~(task.piece = "body" /\ task.left = Lines)
    <3> DEFINE u == [run EXCEPT !.planned = written]
    <3>1. run' = IF task.left = 1 THEN Done([u EXCEPT !.queue = Tail(@)], task.piece)
                 ELSE [u EXCEPT !.queue = [q EXCEPT ![1].left = @ - 1]]
      <4>1. run' = IF task.left = 1 THEN Done([one EXCEPT !.queue = Tail(@)], task.piece) ELSE one
        BY <1>5, <2>5 DEF Write
      <4>2. one = [u EXCEPT !.queue = [q EXCEPT ![1].left = @ - 1]]
        BY <1>1, <2>2 DEF Run
      <4>3. [one EXCEPT !.queue = Tail(@)] = [u EXCEPT !.queue = Tail(@)]
        BY <1>1, <2>2, <2>3 DEF Run
      <4> HIDE DEF one
      <4> QED
        BY <4>1, <4>2, <4>3
    <3> HIDE DEF written
    <3>2. u \in Run
      BY <1>1, <2>1 DEF Run
    <3>3. u.queue = q /\ u.planned = written /\ u.handoff = run.handoff /\ u.stale = run.stale
          /\ u.started = run.started /\ u.office = run.office /\ SameStop(run, u)
          /\ u.outside = run.outside /\ u.halted = run.halted /\ u.closing = run.closing /\ u.windowOver = run.windowOver
          /\ u.nightObserved = run.nightObserved
          /\ u.observer = run.observer /\ u.frame = run.frame /\ u.samples = run.samples
          /\ u.terminal = run.terminal /\ u.exit = run.exit
          /\ u.arm = run.arm /\ u.armStatus = run.armStatus /\ u.armFailure = run.armFailure
          /\ u.gate = run.gate /\ u.gatesLeft = run.gatesLeft
      BY <1>1 DEF Run, SameStop
    <3>4. ~(task.piece \in Pieces) => written = run.planned
      BY DEF written
    <3> HIDE DEF u
    <3> USE DEF SameStop
    <3>5. WriterInv(u) /\ FreshInv(u)
      BY <1>2, <3>3 DEF RunCore, WriterInv, FreshInv
    <3>11. task.piece \in Pieces => run.handoff = "written"
      <4>1. CASE task.piece = "body"
        <5>1. ~Fresh(q)
          <6>1. 1 \in DOMAIN q /\ q[1] = task
            BY <1>1
          <6> QED
            BY <1>1, <2>5, <4>1, <6>1 DEF Fresh, Once
        <5> QED
          BY <1>1, <1>2, <4>1, <5>1 DEF RunCore, Run, WriterInv, FreshInv
      <4>2. CASE task.piece \in Pieces \ {"body"}
        BY <1>1, <1>2, <4>2 DEF RunCore, WriterInv, ScheduleInv, Pieces
      <4> QED
        BY <4>1, <4>2
    <3>6. ScheduleInv(u, request.arm) /\ ObserverInv(u)
      BY <1>2, <2>1, <3>3, <3>4, <3>11 DEF RunCore, ScheduleInv, ObserverInv
    <3>12. task.piece = "body" => u.handoff # "none"
      BY <3>3, <3>11 DEF Pieces
    <3>7. FifoInv(u)
      BY <1>2, <3>3 DEF RunCore, FifoInv
    <3>8. RunCore(u, request.arm)
      BY <1>2, <3>2, <3>5, <3>6, <3>7 DEF RunCore
    <3>9. Still(run, u)
      BY <2>1, <3>3 DEF Still, Steady, Moved
    <3>10. VerdictInv(run, request.arm) => VerdictInv(u, request.arm)
      BY <3>3 DEF VerdictInv, Excused
    <3> QED
      BY <1>1, <3>1, <3>3, <3>5, <3>8, <3>9, <3>10, <3>12, LineRun, StillThen, ZenonT(40) DEF Kept
  <2> QED
    BY <2>4, <2>5
<1> QED
  BY <1>4, <1>5

(***************************************************************************)
(* The lifecycle observer.                                                 *)
(***************************************************************************)
LEMMA CaptureKeeps ==
  ASSUME ExecutorAssumption, RunInv(run, request.arm), screen \in Screens, Capture
  PROVE  Kept /\ Still(run, run')
<1>1. run \in Run /\ run.observer = "waiting"
  BY DEF RunInv, Capture
<1>2. CASE run.stopObserver
  <2> DEFINE tk == [run EXCEPT !.observer = "done"]
  <2>1. run' = tk
    BY <1>2 DEF Capture
  <2>2. /\ tk \in Run /\ tk.observer = "done"
        /\ tk.queue = run.queue
        /\ tk.planned = run.planned /\ tk.started = run.started /\ tk.handoff = run.handoff /\ tk.stale = run.stale /\ tk.office = run.office
        /\ tk.stopped = run.stopped /\ tk.resolved = run.resolved /\ tk.stopObserver = run.stopObserver /\ tk.outside = run.outside
        /\ tk.halted = run.halted /\ tk.closing = run.closing /\ tk.windowOver = run.windowOver
        /\ tk.frame = run.frame /\ tk.samples = run.samples /\ tk.nightObserved = run.nightObserved
        /\ tk.terminal = run.terminal /\ tk.exit = run.exit
        /\ tk.arm = run.arm /\ tk.armStatus = run.armStatus /\ tk.armFailure = run.armFailure /\ tk.armAttempt = run.armAttempt
        /\ tk.gate = run.gate /\ tk.gatesLeft = run.gatesLeft
    BY <1>1 DEF Run
  <2> HIDE DEF tk
  <2>3. WriterInv(tk) /\ FreshInv(tk)
    BY <2>2 DEF RunInv, WriterInv, FreshInv
  <2>4. ScheduleInv(tk, request.arm) /\ ObserverInv(tk)
    BY <2>2 DEF RunInv, ScheduleInv, ObserverInv
  <2>5. FifoInv(tk)
    BY <1>1, <2>2 DEF RunInv, FifoInv
  <2>6. Still(run, tk)
    BY <1>1, <2>2 DEF Still, Steady, Moved
  <2>7. VerdictInv(run, request.arm) => VerdictInv(tk, request.arm)
    BY <1>2, <2>2 DEF VerdictInv, Excused
  <2> QED
    BY <2>1, <2>2, <2>3, <2>4, <2>5, <2>6, <2>7 DEF RunInv, Kept
<1>3. CASE ~run.stopObserver
  <2>1. PICK frame \in Screens \union {"unknown", "newspaper"} :
          run' = [run EXCEPT !.observer = "reading", !.frame = frame]
    BY <1>3 DEF Capture
  <2> DEFINE tk == [run EXCEPT !.observer = "reading", !.frame = frame]
  <2>2. /\ tk \in Run /\ tk.observer = "reading" /\ tk.frame = frame
        /\ tk.queue = run.queue
        /\ tk.planned = run.planned /\ tk.started = run.started /\ tk.handoff = run.handoff /\ tk.stale = run.stale /\ tk.office = run.office
        /\ tk.stopped = run.stopped /\ tk.resolved = run.resolved /\ tk.stopObserver = run.stopObserver /\ tk.outside = run.outside
        /\ tk.halted = run.halted /\ tk.closing = run.closing /\ tk.windowOver = run.windowOver
        /\ tk.samples = run.samples /\ tk.nightObserved = run.nightObserved
        /\ tk.terminal = run.terminal /\ tk.exit = run.exit
        /\ tk.arm = run.arm /\ tk.armStatus = run.armStatus /\ tk.armFailure = run.armFailure /\ tk.armAttempt = run.armAttempt
        /\ tk.gate = run.gate /\ tk.gatesLeft = run.gatesLeft
    BY <1>1, ZenonT(40) DEF Run
  <2>3. run' = tk /\ frame # "none"
    BY <2>1 DEF Screens
  <2> HIDE DEF tk
  <2>4. WriterInv(tk) /\ FreshInv(tk)
    BY <2>2 DEF RunInv, WriterInv, FreshInv
  <2>5. ScheduleInv(tk, request.arm)
    BY <2>2 DEF RunInv, ScheduleInv
  <2>6. ObserverInv(tk)
    BY <1>1, <2>2, <2>3 DEF RunInv, ObserverInv
  <2>7. FifoInv(tk)
    BY <1>1, <2>2 DEF RunInv, FifoInv
  <2>8. Still(run, tk)
    BY <1>1, <2>2 DEF Still, Steady, Moved
  <2>9. VerdictInv(run, request.arm) => VerdictInv(tk, request.arm)
    BY <1>1, <2>2 DEF VerdictInv, Excused
  <2> QED
    BY <2>2, <2>3, <2>4, <2>5, <2>6, <2>7, <2>8, <2>9 DEF RunInv, Kept
<1> QED
  BY <1>2, <1>3

(* The look counted, and the look that ends the votes.                     *)
LEMMA Sampled ==
  ASSUME NEW r, NEW mode, RunInv(r, mode), r.observer = "reading", NEW n \in 0..EXIT_CONFIRM_SAMPLES - 1
  PROVE  LET s == [r EXCEPT !.samples = n] IN
         /\ RunInv(s, mode) /\ Still(r, s) /\ (VerdictInv(r, mode) => VerdictInv(s, mode))
         /\ s.observer = r.observer
<1> DEFINE s == [r EXCEPT !.samples = n]
<1>1. r \in Run /\ n \in 0..EXIT_CONFIRM_SAMPLES /\ n # EXIT_CONFIRM_SAMPLES
  BY DEF RunInv, EXIT_CONFIRM_SAMPLES
<1>2. /\ s \in Run /\ s.samples = n
      /\ s.queue = r.queue
      /\ s.planned = r.planned /\ s.started = r.started /\ s.handoff = r.handoff /\ s.stale = r.stale /\ s.office = r.office
      /\ s.stopped = r.stopped /\ s.resolved = r.resolved /\ s.stopObserver = r.stopObserver /\ s.outside = r.outside
      /\ s.halted = r.halted /\ s.closing = r.closing /\ s.windowOver = r.windowOver
      /\ s.observer = r.observer /\ s.frame = r.frame /\ s.nightObserved = r.nightObserved
      /\ s.terminal = r.terminal /\ s.exit = r.exit
      /\ s.arm = r.arm /\ s.armStatus = r.armStatus /\ s.armFailure = r.armFailure /\ s.armAttempt = r.armAttempt
      /\ s.gate = r.gate /\ s.gatesLeft = r.gatesLeft
  BY <1>1 DEF Run
<1> HIDE DEF s
<1>3. WriterInv(s) /\ FreshInv(s) /\ ScheduleInv(s, mode)
  BY <1>2 DEF RunInv, WriterInv, FreshInv, ScheduleInv
<1>4. ObserverInv(s)
  BY <1>1, <1>2 DEF RunInv, ObserverInv
<1>5. FifoInv(s)
  BY <1>2 DEF RunInv, FifoInv
<1>6. Still(r, s) /\ (VerdictInv(r, mode) => VerdictInv(s, mode))
  BY <1>2 DEF Still, Steady, Moved, VerdictInv, Excused
<1> QED
  BY <1>2, <1>3, <1>4, <1>5, <1>6 DEF RunInv, s

LEMMA Ended ==
  ASSUME ExecutorAssumption, NEW r, NEW mode, RunInv(r, mode), r.observer = "reading",
         NEW n \in 0..EXIT_CONFIRM_SAMPLES, r.frame = "static" => r.windowOver \/ ~r.nightObserved
  PROVE  LET s == Stop([r EXCEPT !.samples = n, !.exit = r.frame]) IN
         RunInv(s, mode) /\ Still(r, s) /\ VerdictInv(s, mode)
<1> DEFINE f == r.frame
           tk == [r EXCEPT !.samples = n, !.exit = f]
<1>1. r \in Run /\ mode \in Modes /\ f # "none" /\ f \in Screens \union {"none", "unknown", "newspaper"}
      /\ (f = "static" => r.windowOver \/ ~r.nightObserved)
  BY DEF RunInv, ObserverInv, Run
<1> HIDE DEF f
<1>2. /\ tk \in Run /\ tk.samples = n /\ tk.exit = f
      /\ tk.queue = r.queue
      /\ tk.planned = r.planned /\ tk.started = r.started /\ tk.handoff = r.handoff /\ tk.stale = r.stale /\ tk.office = r.office
      /\ tk.stopped = r.stopped /\ tk.resolved = r.resolved /\ tk.stopObserver = r.stopObserver /\ tk.outside = r.outside
      /\ tk.halted = r.halted /\ tk.closing = r.closing /\ tk.windowOver = r.windowOver
      /\ tk.observer = r.observer /\ tk.frame = r.frame /\ tk.nightObserved = r.nightObserved
      /\ tk.terminal = r.terminal
      /\ tk.arm = r.arm /\ tk.armStatus = r.armStatus /\ tk.armFailure = r.armFailure /\ tk.armAttempt = r.armAttempt
      /\ tk.gate = r.gate /\ tk.gatesLeft = r.gatesLeft
  BY <1>1, ZenonT(40) DEF Run
<1> HIDE DEF tk
<1>3. WriterInv(tk) /\ FreshInv(tk) /\ ScheduleInv(tk, mode)
  BY <1>2 DEF RunInv, WriterInv, FreshInv, ScheduleInv
<1>4. FifoInv(tk)
  BY <1>2 DEF RunInv, FifoInv
<1>5. Still(r, tk) /\ Excused(tk, mode)
  BY <1>1, <1>2 DEF Still, Steady, Moved, Excused
<1>6. tk.observer # "handing" /\ (tk.exit = "static" => tk.windowOver \/ ~tk.nightObserved)
  BY <1>1, <1>2
<1>7. RunInv(Stop(tk), mode) /\ Still(tk, Stop(tk)) /\ VerdictInv(Stop(tk), mode)
  BY <1>1, <1>2, <1>3, <1>4, <1>5, <1>6, StopRun
<1> QED
  BY <1>5, <1>7, StillThen DEF tk, f

LEMMA VoteRun ==
  ASSUME ExecutorAssumption, NEW r, NEW mode, RunInv(r, mode), r.observer = "reading",
         r.frame = "static" => r.halted \/ ~r.nightObserved
  PROVE  RunInv(Vote(r), mode) /\ Still(r, Vote(r)) /\ (VerdictInv(r, mode) => VerdictInv(Vote(r), mode))
<1>1. r.samples \in 0..EXIT_CONFIRM_SAMPLES - 1
  BY DEF RunInv, Run, ObserverInv, EXIT_CONFIRM_SAMPLES
<1>2. ASSUME NEW n \in 0..EXIT_CONFIRM_SAMPLES - 1
      PROVE  LET s == endAtHaltWindow([r EXCEPT !.samples = n]) IN
             RunInv(s, mode) /\ Still(r, s) /\ (VerdictInv(r, mode) => VerdictInv(s, mode))
  <2> DEFINE tk == [r EXCEPT !.samples = n]
  <2>1. RunInv(tk, mode) /\ Still(r, tk) /\ (VerdictInv(r, mode) => VerdictInv(tk, mode)) /\ tk.observer = "reading"
    BY Sampled
  <2> HIDE DEF tk
  <2>2. LET s == endAtHaltWindow(tk) IN
        RunInv(s, mode) /\ Still(tk, s) /\ (VerdictInv(tk, mode) => VerdictInv(s, mode))
    BY <2>1, EndAtRun
  <2> QED
    BY <2>1, <2>2, StillThen DEF tk
<1>3. CASE startupTransition(r)
  <2>1. Vote(r) = endAtHaltWindow([r EXCEPT !.samples = 0])
    BY <1>3 DEF Vote
  <2>2. 0 \in 0..EXIT_CONFIRM_SAMPLES - 1
    BY DEF EXIT_CONFIRM_SAMPLES
  <2> QED
    BY <1>2, <2>1, <2>2
<1>4. CASE ~startupTransition(r) /\ r.halted /\ r.frame = "static"
  <2>1. Vote(r) = endAtHaltWindow(r)
    BY <1>4 DEF Vote
  <2> QED
    BY <2>1, EndAtRun
<1>5. CASE ~startupTransition(r) /\ ~(r.halted /\ r.frame = "static")
  <2>1. CASE r.samples + 1 >= EXIT_CONFIRM_SAMPLES
    <3>1. Vote(r) = Stop([r EXCEPT !.samples = r.samples + 1, !.exit = r.frame])
      BY <1>5, <2>1 DEF Vote
    <3>2. r.samples + 1 \in 0..EXIT_CONFIRM_SAMPLES
      BY <1>1 DEF EXIT_CONFIRM_SAMPLES
    <3> QED
      BY <1>5, <3>1, <3>2, Ended
  <2>2. CASE ~(r.samples + 1 >= EXIT_CONFIRM_SAMPLES)
    <3>1. Vote(r) = endAtHaltWindow([r EXCEPT !.samples = r.samples + 1])
      BY <1>5, <2>2 DEF Vote
    <3>2. r.samples + 1 \in 0..EXIT_CONFIRM_SAMPLES - 1
      BY <1>1, <2>2 DEF EXIT_CONFIRM_SAMPLES
    <3> QED
      BY <1>2, <3>1, <3>2
  <2> QED
    BY <2>1, <2>2
<1> QED
  BY <1>3, <1>4, <1>5

(* The office, seen again or for the first time.                           *)
LEMMA NightRun ==
  ASSUME ExecutorAssumption, NEW r, RunInv(r, request.arm), r.observer = "reading"
  PROVE  LET s == SeenNight(r) IN
         /\ RunInv(s, request.arm) /\ (VerdictInv(r, request.arm) => VerdictInv(s, request.arm))
         /\ Moved(r, s) /\ s.gate = r.gate
<1> DEFINE tk == [r EXCEPT !.samples = 0, !.office = TRUE]
           o == Observed(tk)
<1>1. r \in Run
  BY DEF RunInv
<1>2. /\ tk \in Run /\ tk.samples = 0 /\ tk.office
      /\ tk.queue = r.queue
      /\ tk.planned = r.planned /\ tk.started = r.started /\ tk.handoff = r.handoff /\ tk.stale = r.stale
      /\ tk.stopped = r.stopped /\ tk.resolved = r.resolved /\ tk.stopObserver = r.stopObserver /\ tk.outside = r.outside
      /\ tk.halted = r.halted /\ tk.closing = r.closing /\ tk.windowOver = r.windowOver
      /\ tk.observer = r.observer /\ tk.frame = r.frame /\ tk.nightObserved = r.nightObserved
      /\ tk.terminal = r.terminal /\ tk.exit = r.exit
      /\ tk.arm = r.arm /\ tk.armStatus = r.armStatus /\ tk.armFailure = r.armFailure /\ tk.armAttempt = r.armAttempt
      /\ tk.gate = r.gate /\ tk.gatesLeft = r.gatesLeft
  <2>1. 0 \in 0..EXIT_CONFIRM_SAMPLES
    BY DEF EXIT_CONFIRM_SAMPLES
  <2>2. tk \in Run
    BY <1>1, <2>1 DEF Run
  <2> QED
    BY <1>1, <2>2 DEF Run
<1>3. /\ o \in Run /\ o.samples = 0 /\ o.office
      /\ o.queue = r.queue
      /\ o.planned = r.planned /\ o.started = r.started /\ o.handoff = r.handoff /\ o.stale = r.stale
      /\ o.stopped = r.stopped /\ o.resolved = r.resolved /\ o.stopObserver = r.stopObserver /\ o.outside = r.outside
      /\ o.halted = r.halted /\ o.closing = r.closing /\ o.windowOver = r.windowOver
      /\ o.observer = r.observer /\ o.frame = r.frame
      /\ o.terminal = r.terminal /\ o.exit = r.exit
      /\ o.arm = r.arm /\ o.armStatus = r.armStatus /\ o.armFailure = r.armFailure /\ o.armAttempt = r.armAttempt
      /\ o.gate = r.gate /\ o.gatesLeft = r.gatesLeft
  <2> HIDE DEF tk
  <2>1. o \in Run /\ o.queue = tk.queue /\ o.started = tk.started /\ o.stale = tk.stale /\ SameRest(tk, o) /\ SameStop(tk, o)
    BY <1>2, ObservedDoes
  <2>2. o.armAttempt = tk.armAttempt
    BY <1>2 DEF Observed, Run
  <2> HIDE DEF o
  <2> QED
    BY <1>2, <2>1, <2>2 DEF SameRest, SameStop
<1>4. SeenNight(r) \in {endAtHaltWindow(tk), endAtHaltWindow(o), Handing(tk)}
  BY DEF SeenNight, Handing
<1> HIDE DEF tk, o
<1>5. ASSUME NEW u \in {tk, o}
      PROVE  RunInv(u, request.arm) /\ Still(r, u) /\ (VerdictInv(r, request.arm) => VerdictInv(u, request.arm))
             /\ u.observer = "reading" /\ u.office
  <2>1. /\ u \in Run /\ u.samples = 0 /\ u.office
        /\ u.queue = r.queue
        /\ u.planned = r.planned /\ u.started = r.started /\ u.handoff = r.handoff /\ u.stale = r.stale
        /\ u.stopped = r.stopped /\ u.resolved = r.resolved /\ u.stopObserver = r.stopObserver /\ u.outside = r.outside
        /\ u.halted = r.halted /\ u.closing = r.closing /\ u.windowOver = r.windowOver
        /\ u.observer = r.observer /\ u.frame = r.frame
        /\ u.terminal = r.terminal /\ u.exit = r.exit
        /\ u.arm = r.arm /\ u.armStatus = r.armStatus /\ u.armFailure = r.armFailure /\ u.armAttempt = r.armAttempt
        /\ u.gate = r.gate /\ u.gatesLeft = r.gatesLeft
    BY <1>2, <1>3
  <2> HIDE DEF tk, o
  <2>2. WriterInv(u) /\ FreshInv(u) /\ ScheduleInv(u, request.arm)
    BY <2>1 DEF RunInv, WriterInv, FreshInv, ScheduleInv
  <2>3. u.exit # "static"
    BY <2>1 DEF RunInv, ObserverInv
  <2>4. ObserverInv(u)
    BY <2>1, <2>3 DEF RunInv, ObserverInv, EXIT_CONFIRM_SAMPLES
  <2>5. FifoInv(u)
    BY <2>1 DEF RunInv, FifoInv
  <2>6. Still(r, u) /\ (VerdictInv(r, request.arm) => VerdictInv(u, request.arm))
    BY <2>1 DEF Still, Steady, Moved, VerdictInv, Excused
  <2> QED
    BY <2>1, <2>2, <2>4, <2>5, <2>6 DEF RunInv
<1>6. ASSUME NEW u \in {tk, o}
      PROVE  LET s == endAtHaltWindow(u) IN
             /\ RunInv(s, request.arm) /\ (VerdictInv(r, request.arm) => VerdictInv(s, request.arm))
             /\ Moved(r, s) /\ s.gate = r.gate
  <2> DEFINE s == endAtHaltWindow(u)
  <2>1. RunInv(s, request.arm) /\ Still(u, s) /\ (VerdictInv(u, request.arm) => VerdictInv(s, request.arm))
    BY <1>5, EndAtRun
  <2>2. s.gate = u.gate
    BY <1>5, EndAtRun
  <2>3. u.gate = r.gate
    BY <1>2, <1>3
  <2> QED
    BY <1>5, <2>1, <2>2, <2>3, StillThen DEF Still, Steady
<1>7. LET s == Handing(tk) IN
      /\ RunInv(s, request.arm) /\ (VerdictInv(r, request.arm) => VerdictInv(s, request.arm))
      /\ Moved(r, s) /\ s.gate = r.gate
  <2> DEFINE s == Handing(tk)
  <2>1. /\ RunInv(s, request.arm) /\ (VerdictInv(tk, request.arm) => VerdictInv(s, request.arm))
        /\ Moved(tk, s) /\ s.gate = tk.gate
    BY <1>5, HandRun
  <2> HIDE DEF s
  <2>2. Still(r, tk) /\ (VerdictInv(r, request.arm) => VerdictInv(tk, request.arm)) /\ tk.gate = r.gate
    BY <1>2, <1>5
  <2> QED
    BY <2>1, <2>2, MovedThen DEF Still, Steady, s
<1> QED
  BY <1>4, <1>6, <1>7

(* The end of a night, read from the screen.                               *)
LEMMA TerminalRun ==
  ASSUME ExecutorAssumption, NEW r, RunInv(r, request.arm), r.observer = "reading", r.frame \in TERMINAL_SCREENS
  PROVE  RunInv(SeenTerminal(r), request.arm) /\ Still(r, SeenTerminal(r)) /\ VerdictInv(SeenTerminal(r), request.arm)
<1> DEFINE f == r.frame
           why == IF armVerified THEN r.armFailure ELSE "ended"
           tk == [r EXCEPT !.terminal = f, !.armFailure = why]
<1>0. r \in Run
  BY DEF RunInv
<1>1. request.arm \in Modes /\ f \in TERMINAL_SCREENS /\ f # "none"
  BY DEF RunInv, TERMINAL_SCREENS
<1>2. why \in {"none", "invalid", "ended", "gate"} /\ (why = "gate" => r.armFailure = "gate")
  BY <1>0 DEF Run
<1>3. SeenTerminal(r) = Stop(tk)
  BY DEF SeenTerminal
<1> HIDE DEF f, why
<1>4. /\ tk \in Run /\ tk.terminal = f /\ tk.armFailure = why
      /\ tk.queue = r.queue
      /\ tk.planned = r.planned /\ tk.started = r.started /\ tk.handoff = r.handoff /\ tk.stale = r.stale /\ tk.office = r.office
      /\ tk.stopped = r.stopped /\ tk.resolved = r.resolved /\ tk.stopObserver = r.stopObserver /\ tk.outside = r.outside
      /\ tk.halted = r.halted /\ tk.closing = r.closing /\ tk.windowOver = r.windowOver
      /\ tk.observer = r.observer /\ tk.frame = r.frame /\ tk.samples = r.samples /\ tk.nightObserved = r.nightObserved
      /\ tk.exit = r.exit
      /\ tk.arm = r.arm /\ tk.armStatus = r.armStatus /\ tk.armAttempt = r.armAttempt
      /\ tk.gate = r.gate /\ tk.gatesLeft = r.gatesLeft
  <2>1. f \in {"none"} \union TERMINAL_SCREENS
    BY <1>1
  <2>2. tk \in Run
    <3> DEFINE t0 == [r EXCEPT !.terminal = f]
    <3>1. t0 \in Run
      BY <1>0, <2>1 DEF Run
    <3>2. [t0 EXCEPT !.armFailure = why] \in Run
      <4> HIDE DEF t0
      <4> QED
        BY <1>2, <3>1 DEF Run
    <3>3. tk = [t0 EXCEPT !.armFailure = why]
      BY <1>0 DEF Run
    <3> QED
      BY <3>2, <3>3
  <2> QED
    BY <1>0, <2>2 DEF Run
<1> HIDE DEF tk
<1>5. WriterInv(tk) /\ FreshInv(tk) /\ ScheduleInv(tk, request.arm)
  BY <1>2, <1>4 DEF RunInv, WriterInv, FreshInv, ScheduleInv
<1>6. FifoInv(tk) /\ (tk.exit = "static" => tk.windowOver \/ ~tk.nightObserved)
  BY <1>4 DEF RunInv, FifoInv, ObserverInv
<1>7. Still(r, tk) /\ Excused(tk, request.arm)
  BY <1>1, <1>4 DEF Still, Steady, Moved, Excused
<1>8. tk.observer # "handing"
  BY <1>4
<1>9. RunInv(Stop(tk), request.arm) /\ Still(tk, Stop(tk)) /\ VerdictInv(Stop(tk), request.arm)
  BY <1>1, <1>4, <1>5, <1>6, <1>7, <1>8, StopRun
<1> QED
  BY <1>3, <1>7, <1>9, StillThen

LEMMA ClassifiedKeeps ==
  ASSUME ExecutorAssumption, RunInv(run, request.arm), running = "yes" => VerdictInv(run, request.arm),
         running \in {"no", "yes", "ending"}, Classified
  PROVE  Kept /\ Steady(run, run')
<1>1. run \in Run /\ run.observer = "reading"
  BY DEF RunInv, Classified
<1> DEFINE f == run.frame
<1>2. CASE f = "unknown"
  <2>1. run' = endAtHaltWindow(run)
    BY <1>2 DEF Classified
  <2> QED
    BY <1>1, <2>1, EndAtRun DEF Still, Kept
<1>3. CASE f = "night"
  <2>1. run' = SeenNight(run)
    BY <1>3 DEF Classified
  <2> QED
    BY <1>1, <2>1, NightRun DEF Steady, Kept
<1>4. CASE f \in {"gameover", "sixam"}
  <2>1. run' = SeenTerminal(run)
    BY <1>4 DEF Classified
  <2> QED
    BY <1>1, <1>4, <2>1, TerminalRun DEF TERMINAL_SCREENS, Still, Kept
<1>5. CASE f = "title" /\ run.nightObserved
  <2>1. run' = Stop([run EXCEPT !.exit = "title"])
    BY <1>5 DEF Classified
  <2>2. run.samples \in 0..EXIT_CONFIRM_SAMPLES
    BY <1>1 DEF Run
  <2>3. [run EXCEPT !.exit = "title"] = [run EXCEPT !.samples = run.samples, !.exit = f]
    BY <1>1, <1>5 DEF Run
  <2> QED
    <3> DEFINE s == Stop([run EXCEPT !.samples = run.samples, !.exit = f])
    <3>1. RunInv(s, request.arm) /\ Still(run, s) /\ VerdictInv(s, request.arm)
      BY <1>1, <1>5, <2>2, Ended
    <3>2. run' = s
      BY <2>1, <2>3
    <3> HIDE DEF s
    <3> QED
      BY <3>1, <3>2 DEF Still, Kept
<1>6. CASE f = "static" /\ run.nightObserved /\ ~run.halted
  <2> DEFINE h == haltActuation(run)
  <2>1. run' = Vote(h)
    BY <1>6 DEF Classified
  <2>2. running = "yes" => ~run.stopObserver
    BY <1>1, <1>6 DEF Classified, Unwinding, VerdictInv
  <2>3. RunInv(h, request.arm) /\ (running = "yes" => VerdictInv(h, request.arm))
    BY <1>1, <1>6, <2>2, HaltRun
  <2>4. h.observer = "reading" /\ h.halted /\ h.frame = f
    BY <1>1, HaltDoes
  <2>5. Still(run, h)
    BY <1>1, <1>6, HaltDoes DEF SameStop, Still, Steady, Moved, Pieces
  <2> HIDE DEF h
  <2> QED
    BY <2>1, <2>3, <2>4, <2>5, VoteRun, StillThen DEF Still, Kept
<1>7. CASE /\ f \notin {"unknown", "night", "gameover", "sixam"}
           /\ ~(f = "title" /\ run.nightObserved)
           /\ ~(f = "static" /\ run.nightObserved /\ ~run.halted)
  <2>1. run' = Vote(run)
    BY <1>7 DEF Classified
  <2> QED
    BY <1>1, <1>7, <2>1, VoteRun DEF Still, Kept
<1> QED
  BY <1>2, <1>3, <1>4, <1>5, <1>6, <1>7

LEMMA HandedOverKeeps ==
  ASSUME ExecutorAssumption, RunInv(run, request.arm), HandedOver
  PROVE  Kept /\ Still(run, run')
<1>1. run \in Run /\ run.observer = "handing" /\ ~In(run.queue, "body")
  BY DEF RunInv, HandedOver, Queued, In
<1>2. CASE run.handoff = "late" \/ run.stopObserver
  <2> DEFINE tk == [run EXCEPT !.observer = "done"]
  <2>1. run' = tk
    BY <1>2 DEF HandedOver
  <2>2. /\ tk \in Run /\ tk.observer = "done"
        /\ tk.queue = run.queue
        /\ tk.planned = run.planned /\ tk.started = run.started /\ tk.handoff = run.handoff /\ tk.stale = run.stale /\ tk.office = run.office
        /\ tk.stopped = run.stopped /\ tk.resolved = run.resolved /\ tk.stopObserver = run.stopObserver /\ tk.outside = run.outside
        /\ tk.halted = run.halted /\ tk.closing = run.closing /\ tk.windowOver = run.windowOver
        /\ tk.frame = run.frame /\ tk.samples = run.samples /\ tk.nightObserved = run.nightObserved
        /\ tk.terminal = run.terminal /\ tk.exit = run.exit
        /\ tk.arm = run.arm /\ tk.armStatus = run.armStatus /\ tk.armFailure = run.armFailure /\ tk.armAttempt = run.armAttempt
        /\ tk.gate = run.gate /\ tk.gatesLeft = run.gatesLeft
    BY <1>1 DEF Run
  <2> HIDE DEF tk
  <2>3. WriterInv(tk) /\ FreshInv(tk) /\ ScheduleInv(tk, request.arm)
    BY <2>2 DEF RunInv, WriterInv, FreshInv, ScheduleInv
  <2>4. ObserverInv(tk)
    BY <1>1, <2>2 DEF RunInv, ObserverInv
  <2>5. FifoInv(tk)
    BY <1>1, <2>2 DEF RunInv, FifoInv
  <2>6. Still(run, tk) /\ (VerdictInv(run, request.arm) => VerdictInv(tk, request.arm))
    BY <1>1, <1>2, <2>2 DEF Still, Steady, Moved, VerdictInv, Excused
  <2> QED
    BY <2>1, <2>2, <2>3, <2>4, <2>5, <2>6 DEF RunInv, Kept
<1>3. CASE ~(run.handoff = "late" \/ run.stopObserver)
  <2>1. run' = endAtHaltWindow(run)
    BY <1>3 DEF HandedOver
  <2> QED
    BY <1>1, <2>1, EndAtRun DEF Kept
<1> QED
  BY <1>2, <1>3

LEMMA WindowPassesKeeps ==
  ASSUME ExecutorAssumption, RunInv(run, request.arm), WindowPasses
  PROVE  Kept /\ Still(run, run')
<1> DEFINE tk == [run EXCEPT !.windowOver = TRUE]
<1>1. run \in Run /\ run' = tk
  BY DEF RunInv, WindowPasses
<1>2. /\ tk \in Run /\ tk.windowOver
      /\ tk.queue = run.queue
      /\ tk.planned = run.planned /\ tk.started = run.started /\ tk.handoff = run.handoff /\ tk.stale = run.stale /\ tk.office = run.office
      /\ tk.stopped = run.stopped /\ tk.resolved = run.resolved /\ tk.stopObserver = run.stopObserver /\ tk.outside = run.outside
      /\ tk.halted = run.halted /\ tk.closing = run.closing
      /\ tk.observer = run.observer /\ tk.frame = run.frame /\ tk.samples = run.samples /\ tk.nightObserved = run.nightObserved
      /\ tk.terminal = run.terminal /\ tk.exit = run.exit
      /\ tk.arm = run.arm /\ tk.armStatus = run.armStatus /\ tk.armFailure = run.armFailure /\ tk.armAttempt = run.armAttempt
      /\ tk.gate = run.gate /\ tk.gatesLeft = run.gatesLeft
  BY <1>1 DEF Run
<1> HIDE DEF tk
<1>3. WriterInv(tk) /\ FreshInv(tk) /\ ScheduleInv(tk, request.arm)
  BY <1>2 DEF RunInv, WriterInv, FreshInv, ScheduleInv
<1>4. ObserverInv(tk)
  BY <1>2 DEF RunInv, ObserverInv
<1>5. FifoInv(tk)
  BY <1>2 DEF RunInv, FifoInv
<1>6. Still(run, tk) /\ (VerdictInv(run, request.arm) => VerdictInv(tk, request.arm))
  BY <1>2 DEF Still, Steady, Moved, VerdictInv, Excused
<1> QED
  BY <1>1, <1>2, <1>3, <1>4, <1>5, <1>6 DEF RunInv, Kept

LEMMA StartupPassesKeeps ==
  ASSUME ExecutorAssumption, RunInv(run, request.arm), StartupPasses
  PROVE  Kept /\ Still(run, run')
<1> DEFINE tk == [run EXCEPT !.startup = FALSE]
<1>1. run \in Run /\ run' = tk
  BY DEF RunInv, StartupPasses
<1>2. /\ tk \in Run
      /\ tk.queue = run.queue
      /\ tk.planned = run.planned /\ tk.started = run.started /\ tk.handoff = run.handoff /\ tk.stale = run.stale /\ tk.office = run.office
      /\ tk.stopped = run.stopped /\ tk.resolved = run.resolved /\ tk.stopObserver = run.stopObserver /\ tk.outside = run.outside
      /\ tk.halted = run.halted /\ tk.closing = run.closing /\ tk.windowOver = run.windowOver
      /\ tk.observer = run.observer /\ tk.frame = run.frame /\ tk.samples = run.samples /\ tk.nightObserved = run.nightObserved
      /\ tk.terminal = run.terminal /\ tk.exit = run.exit
      /\ tk.arm = run.arm /\ tk.armStatus = run.armStatus /\ tk.armFailure = run.armFailure /\ tk.armAttempt = run.armAttempt
      /\ tk.gate = run.gate /\ tk.gatesLeft = run.gatesLeft
  BY <1>1 DEF Run
<1> HIDE DEF tk
<1>3. WriterInv(tk) /\ FreshInv(tk) /\ ScheduleInv(tk, request.arm)
  BY <1>2 DEF RunInv, WriterInv, FreshInv, ScheduleInv
<1>4. ObserverInv(tk)
  BY <1>2 DEF RunInv, ObserverInv
<1>5. FifoInv(tk)
  BY <1>2 DEF RunInv, FifoInv
<1>6. Still(run, tk) /\ (VerdictInv(run, request.arm) => VerdictInv(tk, request.arm))
  BY <1>2 DEF Still, Steady, Moved, VerdictInv, Excused
<1> QED
  BY <1>1, <1>2, <1>3, <1>4, <1>5, <1>6 DEF RunInv, Kept

(***************************************************************************)
(* A stop from outside, and the schedule's own deadline.                   *)
(***************************************************************************)
LEMMA OutsideRun ==
  ASSUME ExecutorAssumption, NEW r, NEW mode, RunInv(r, mode)
  PROVE  LET tk == [r EXCEPT !.outside = TRUE] IN
         RunInv(stopProcess(tk), mode) /\ Still(r, tk) /\ (VerdictInv(r, mode) => VerdictInv(stopProcess(tk), mode))
         /\ tk \in Run /\ SameStop(r, tk)
<1> DEFINE tk == [r EXCEPT !.outside = TRUE]
<1>1. r \in Run
  BY DEF RunInv
<1>2. /\ tk \in Run /\ tk.outside
      /\ tk.queue = r.queue
      /\ tk.planned = r.planned /\ tk.started = r.started /\ tk.handoff = r.handoff /\ tk.stale = r.stale /\ tk.office = r.office
      /\ tk.stopped = r.stopped /\ tk.resolved = r.resolved /\ tk.stopObserver = r.stopObserver
      /\ tk.halted = r.halted /\ tk.closing = r.closing /\ tk.windowOver = r.windowOver
      /\ tk.observer = r.observer /\ tk.frame = r.frame /\ tk.samples = r.samples /\ tk.nightObserved = r.nightObserved
      /\ tk.terminal = r.terminal /\ tk.exit = r.exit
      /\ tk.arm = r.arm /\ tk.armStatus = r.armStatus /\ tk.armFailure = r.armFailure /\ tk.armAttempt = r.armAttempt
      /\ tk.gate = r.gate /\ tk.gatesLeft = r.gatesLeft
  BY <1>1 DEF Run
<1> HIDE DEF tk
<1>3. WriterInv(tk) /\ FreshInv(tk) /\ ScheduleInv(tk, mode)
  BY <1>2 DEF RunInv, WriterInv, FreshInv, ScheduleInv
<1>4. ObserverInv(tk)
  BY <1>2 DEF RunInv, ObserverInv
<1>5. FifoInv(tk)
  BY <1>2 DEF RunInv, FifoInv
<1>6. RunInv(tk, mode) /\ Still(r, tk)
  BY <1>2, <1>3, <1>4, <1>5 DEF RunInv, Still, Steady, Moved
<1>7. VerdictInv(r, mode) => VerdictInv(stopProcess(tk), mode)
  BY <1>2, StopProcessDoes DEF SameNight, SameRest, VerdictInv, Excused
<1> QED
  BY <1>2, <1>6, <1>7, StopProcessRun DEF SameStop, tk

LEMMA DeadlineKeeps ==
  ASSUME ExecutorAssumption, RunInv(run, request.arm), Deadline
  PROVE  Kept /\ Still(run, run')
<1> DEFINE tk == [run EXCEPT !.outside = TRUE]
<1>1. run' = stopProcess(tk) /\ run.started
  BY DEF RunInv, ScheduleInv, Deadline
<1>2. RunInv(stopProcess(tk), request.arm) /\ Still(run, tk) /\ tk \in Run
      /\ (VerdictInv(run, request.arm) => VerdictInv(stopProcess(tk), request.arm))
  BY OutsideRun
<1> HIDE DEF tk
<1>3. tk.started
  BY <1>1, <1>2 DEF Still, Steady, Moved
<1> QED
  BY <1>1, <1>2, <1>3, StopProcessStill, StillThen DEF Kept

(***************************************************************************)
(* The camera arm.                                                         *)
(***************************************************************************)
(* The arm's own locals, changed while it is not done.                     *)
Arming(r, arm, attempt, status, failure) ==
  [r EXCEPT !.arm = arm, !.armAttempt = attempt, !.armStatus = status, !.armFailure = failure]

ArmMay(r, mode, arm, attempt, status, failure) ==
  /\ r.arm # "done" /\ arm \in {"pending", "reading", "releasing", "rearming", "done"}
  /\ attempt \in 1..MAX_ARM_ATTEMPTS /\ status \in {r.armStatus, "PASS", "UNRESOLVED", "FAILED"}
  /\ failure \in {r.armFailure, "invalid"}
  /\ arm # "done" => r.handoff = "written" /\ ~In(r.queue, "body")
  /\ arm \in {"rearming", "releasing"} => mode = "blocking"
  /\ In(r.queue, "rearm") => arm = "rearming"
  /\ In(r.queue, "armSegment") => arm = "releasing"
  /\ status = "FAILED" => arm = "done"

LEMMA ArmRun ==
  ASSUME NEW r, NEW mode, RunInv(r, mode), NEW arm, NEW attempt, NEW status, NEW failure,
         ArmMay(r, mode, arm, attempt, status, failure)
  PROVE  LET s == Arming(r, arm, attempt, status, failure) IN
         /\ RunInv(s, mode) /\ Still(r, s)
         /\ s.queue = r.queue /\ s.arm = arm /\ s.armStatus = status /\ s.halted = r.halted
         /\ s.gate = r.gate /\ s.started = r.started /\ s.stopObserver = r.stopObserver
         /\ VerdictInv(r, mode) => VerdictInv(s, mode)
<1> DEFINE tk == [r EXCEPT !.arm = arm, !.armAttempt = attempt]
           s == [tk EXCEPT !.armStatus = status, !.armFailure = failure]
<1>1. r \in Run
  BY DEF RunInv
<1>2. /\ arm \in {"pending", "reading", "releasing", "rearming", "done"} /\ attempt \in 1..MAX_ARM_ATTEMPTS
      /\ status \in {"PENDING", "PASS", "FAILED", "UNRESOLVED"} /\ failure \in {"none", "invalid", "ended", "gate"}
  BY <1>1 DEF ArmMay, Run
<1>3. /\ tk \in Run /\ tk.arm = arm
      /\ tk.queue = r.queue
      /\ tk.planned = r.planned /\ tk.started = r.started /\ tk.handoff = r.handoff /\ tk.stale = r.stale /\ tk.office = r.office
      /\ tk.stopped = r.stopped /\ tk.resolved = r.resolved /\ tk.stopObserver = r.stopObserver /\ tk.outside = r.outside
      /\ tk.halted = r.halted /\ tk.closing = r.closing /\ tk.windowOver = r.windowOver
      /\ tk.observer = r.observer /\ tk.frame = r.frame /\ tk.samples = r.samples /\ tk.nightObserved = r.nightObserved
      /\ tk.terminal = r.terminal /\ tk.exit = r.exit
      /\ tk.armStatus = r.armStatus /\ tk.armFailure = r.armFailure
      /\ tk.gate = r.gate /\ tk.gatesLeft = r.gatesLeft
  <2> DEFINE a == [r EXCEPT !.arm = arm]
  <2>3. a \in Run
    BY <1>1, <1>2 DEF Run
  <2>1. tk \in Run
    <3> HIDE DEF a
    <3>1. [a EXCEPT !.armAttempt = attempt] \in Run
      BY <1>2, <2>3 DEF Run
    <3>2. [a EXCEPT !.armAttempt = attempt] = tk
      BY <1>1 DEF Run, a
    <3> HIDE DEF tk
    <3> QED
      BY <3>1, <3>2
  <2> QED
    BY <1>1, <2>1 DEF Run
<1>4. Arming(r, arm, attempt, status, failure) = s
  BY <1>1 DEF Arming, Run
<1> HIDE DEF tk
<1>5. /\ s \in Run /\ s.arm = arm /\ s.armStatus = status /\ s.armFailure = failure
      /\ s.queue = r.queue
      /\ s.planned = r.planned /\ s.started = r.started /\ s.handoff = r.handoff /\ s.stale = r.stale /\ s.office = r.office
      /\ s.stopped = r.stopped /\ s.resolved = r.resolved /\ s.stopObserver = r.stopObserver /\ s.outside = r.outside
      /\ s.halted = r.halted /\ s.closing = r.closing /\ s.windowOver = r.windowOver
      /\ s.observer = r.observer /\ s.frame = r.frame /\ s.samples = r.samples /\ s.nightObserved = r.nightObserved
      /\ s.terminal = r.terminal /\ s.exit = r.exit
      /\ s.gate = r.gate /\ s.gatesLeft = r.gatesLeft
  <2> DEFINE a == [tk EXCEPT !.armStatus = status]
  <2>3. a \in Run
    BY <1>2, <1>3 DEF Run
  <2>1. s \in Run
    <3> HIDE DEF a
    <3>1. [a EXCEPT !.armFailure = failure] \in Run
      BY <1>2, <2>3 DEF Run
    <3>2. [a EXCEPT !.armFailure = failure] = s
      BY <1>3 DEF Run, a
    <3> HIDE DEF s
    <3> QED
      BY <3>1, <3>2
  <2> QED
    BY <1>3, <2>1 DEF Run
<1> HIDE DEF s
<1>6. WriterInv(s) /\ FreshInv(s)
  BY <1>5 DEF RunInv, WriterInv, FreshInv, ArmMay
<1>7. ScheduleInv(s, mode)
  BY <1>5 DEF RunInv, ScheduleInv, ArmMay
<1>8. ObserverInv(s)
  BY <1>5 DEF RunInv, ObserverInv
<1>9. FifoInv(s)
  BY <1>5 DEF RunInv, FifoInv
<1>10. Still(r, s)
  BY <1>5 DEF Still, Steady, Moved
<1>11. VerdictInv(r, mode) => VerdictInv(s, mode)
  BY <1>5 DEF RunInv, ScheduleInv, ArmMay, VerdictInv, Excused
<1> QED
  BY <1>4, <1>5, <1>6, <1>7, <1>8, <1>9, <1>10, <1>11 DEF RunInv

(* The arm fails: an Invalid run, stopped.                                 *)
LEMMA ArmFailsRun ==
  ASSUME ExecutorAssumption, NEW r, NEW mode, RunInv(r, mode), r.arm \in {"reading", "releasing"},
         ~In(r.queue, "armSegment"), r.halted => mode = "blocking"
  PROVE  /\ RunInv(ArmFails(r), mode) /\ Still(r, ArmFails(r))
         /\ VerdictInv(r, mode) => VerdictInv(ArmFails(r), mode)
<1>1. r \in Run /\ r.arm # "done" /\ r.started /\ ~In(r.queue, "rearm")
  BY DEF RunInv, WriterInv, ScheduleInv
<1> DEFINE tk == Arming(r, "done", r.armAttempt, "FAILED", "invalid")
<1>2. ArmFails(r) = stopProcess(tk)
  <2>1. tk = [r EXCEPT !.arm = "done", !.armFailure = "invalid", !.armStatus = "FAILED"]
    BY <1>1 DEF Run, Arming
  <2> HIDE DEF tk
  <2> QED
    BY <2>1 DEF ArmFails
<1>3. ArmMay(r, mode, "done", r.armAttempt, "FAILED", "invalid")
  BY <1>1 DEF ArmMay, Run
<1>4. /\ RunInv(tk, mode) /\ Still(r, tk) /\ tk.started = r.started /\ tk.halted = r.halted /\ tk.armStatus = "FAILED"
      /\ VerdictInv(r, mode) => VerdictInv(tk, mode)
  BY <1>3, ArmRun
<1> HIDE DEF tk
<1>5. tk.halted => Excused(tk, mode)
  BY <1>4 DEF Excused
<1> QED
  BY <1>1, <1>2, <1>4, <1>5, StopProcessRun, StopProcessStill, StopProcessVerdict, StillThen DEF RunInv

LEMMA ArmAsksKeeps ==
  ASSUME ExecutorAssumption, RunInv(run, request.arm), ArmAsks
  PROVE  Kept /\ Still(run, run')
<1>1. run \in Run /\ run.arm = "pending" /\ ~In(run.queue, "rearm") /\ ~In(run.queue, "armSegment")
      /\ run.armStatus # "FAILED"
  BY DEF RunInv, WriterInv, ScheduleInv, ArmAsks
<1>2. PICK arm \in {"reading", "done"} :
        run' = [run EXCEPT !.arm = arm] /\ (arm = "reading" => run.handoff = "written" /\ ~In(run.queue, "body"))
  BY DEF ArmAsks, Queued, In
<1>3. run' = Arming(run, arm, run.armAttempt, run.armStatus, run.armFailure)
  BY <1>1, <1>2 DEF Run, Arming
<1>4. ArmMay(run, request.arm, arm, run.armAttempt, run.armStatus, run.armFailure)
  BY <1>1, <1>2 DEF ArmMay, Run
<1> QED
  BY <1>3, <1>4, ArmRun DEF Kept

LEMMA ArmAnsweredKeeps ==
  ASSUME ExecutorAssumption, RunInv(run, request.arm), ArmAnswered
  PROVE  Kept /\ Steady(run, run')
<1>1. run \in Run /\ run.arm = "reading" /\ ~In(run.queue, "rearm") /\ ~In(run.queue, "armSegment")
      /\ ~In(run.queue, "body") /\ run.handoff = "written" /\ request.arm \in {"once", "blocking"}
      /\ run.armStatus # "FAILED"
  BY DEF RunInv, WriterInv, ScheduleInv, ArmAnswered, Modes
<1>2. ASSUME NEW status \in {run.armStatus, "PASS", "UNRESOLVED"}, run' = [run EXCEPT !.arm = "done", !.armStatus = status]
      PROVE  Kept /\ Steady(run, run')
  <2>1. run' = Arming(run, "done", run.armAttempt, status, run.armFailure)
    BY <1>1, <1>2 DEF Run, Arming
  <2>2. ArmMay(run, request.arm, "done", run.armAttempt, status, run.armFailure)
    BY <1>1 DEF ArmMay, Run
  <2> QED
    BY <2>1, <2>2, ArmRun DEF Still, Kept
<1>3. CASE run' = ArmFails(run) /\ ~run.halted
  BY <1>1, <1>3, ArmFailsRun DEF Still, Kept
<1>4. CASE run' = [run EXCEPT !.arm = "done"]
  <2>1. run' = [run EXCEPT !.arm = "done", !.armStatus = run.armStatus]
    BY <1>1, <1>4 DEF Run
  <2> QED
    BY <1>2, <2>1
<1>5. ASSUME NEW arm, NEW piece, NEW n, NEW attempt, n \in 1..Lines, attempt \in 1..MAX_ARM_ATTEMPTS,
             request.arm = "blocking",
             \/ arm = "releasing" /\ piece = "armSegment"
             \/ arm = "rearming" /\ piece = "rearm",
             run' = feedShared([run EXCEPT !.arm = arm, !.armAttempt = attempt], piece, n)
      PROVE  Kept /\ Steady(run, run')
  <2> DEFINE tk == Arming(run, arm, attempt, run.armStatus, run.armFailure)
  <2>1. run' = feedShared(tk, piece, n)
    <3>1. tk = [run EXCEPT !.arm = arm, !.armAttempt = attempt]
      BY <1>1 DEF Arming, Run
    <3> HIDE DEF tk
    <3> QED
      BY <1>5, <3>1
  <2>2. ArmMay(run, request.arm, arm, attempt, run.armStatus, run.armFailure)
    BY <1>1, <1>5 DEF ArmMay, Run
  <2>3. /\ RunInv(tk, request.arm) /\ Still(run, tk) /\ tk.queue = run.queue /\ tk.arm = arm
        /\ VerdictInv(run, request.arm) => VerdictInv(tk, request.arm)
    BY <2>2, ArmRun
  <2> HIDE DEF tk
  <2>4. CASE arm = "releasing" /\ piece = "armSegment"
    BY <1>1, <1>5, <2>1, <2>3, <2>4, FeedRun, MovedThen DEF Still, Steady, Kept
  <2>5. CASE arm = "rearming" /\ piece = "rearm"
    BY <1>1, <1>5, <2>1, <2>3, <2>5, FeedRun, MovedThen DEF Still, Steady, Kept
  <2> QED
    BY <1>5, <2>4, <2>5
<1>6. CASE ~run.halted /\ request.arm = "once"
  <2>1. \/ \E status \in {"PASS", "UNRESOLVED"} : run' = [run EXCEPT !.arm = "done", !.armStatus = status]
        \/ run' = ArmFails(run)
    BY <1>6 DEF ArmAnswered, ObservedOnce
  <2> QED
    BY <1>2, <1>3, <1>6, <2>1
<1>7. CASE ~run.halted /\ request.arm = "blocking"
  <2>1. \/ run' = [run EXCEPT !.arm = "done"]
        \/ run' = feedShared([run EXCEPT !.arm = "releasing"], "armSegment", Lines)
        \/ /\ run.armAttempt < MAX_ARM_ATTEMPTS
           /\ run' = feedShared([run EXCEPT !.arm = "rearming", !.armAttempt = run.armAttempt + 1], "rearm", 1)
        \/ run' = ArmFails(run)
    BY <1>7 DEF ArmAnswered, ObservedBlocking
  <2>2. run.armAttempt \in 1..MAX_ARM_ATTEMPTS /\ Lines \in 1..Lines /\ 1 \in 1..Lines
        /\ (run.armAttempt < MAX_ARM_ATTEMPTS => run.armAttempt + 1 \in 1..MAX_ARM_ATTEMPTS)
    BY <1>1 DEF Run, ExecutorAssumption, MAX_ARM_ATTEMPTS
  <2>3. CASE run' = feedShared([run EXCEPT !.arm = "releasing"], "armSegment", Lines)
    <3>1. [run EXCEPT !.arm = "releasing"] = [run EXCEPT !.arm = "releasing", !.armAttempt = run.armAttempt]
      BY <1>1 DEF Run
    <3> QED
      BY <1>5, <1>7, <2>2, <2>3, <3>1
  <2>4. CASE /\ run.armAttempt < MAX_ARM_ATTEMPTS
             /\ run' = feedShared([run EXCEPT !.arm = "rearming", !.armAttempt = run.armAttempt + 1], "rearm", 1)
    BY <1>5, <1>7, <2>2, <2>4
  <2> QED
    BY <1>3, <1>4, <1>7, <2>1, <2>3, <2>4
<1>8. CASE run.halted
  BY <1>4, <1>8 DEF ArmAnswered
<1> QED
  BY <1>1, <1>6, <1>7, <1>8

(* The gates' own locals, changed once the body is written.                *)
Gated(r, gate, left, failure) == [r EXCEPT !.gate = gate, !.gatesLeft = left, !.armFailure = failure]

GateMay(r, mode, gate, left, failure) ==
  /\ gate \in {"due", "reading", "parked", "fixing", "releasing", "done"} /\ left \in 0..Gates
  /\ failure \in {r.armFailure, "gate"} /\ (failure = "gate" => gate = "done")
  /\ r.handoff = "written" /\ mode # "none" /\ (mode = "blocking" => r.arm = "done") /\ ~In(r.queue, "body")
  /\ gate \in {"reading", "parked", "fixing", "releasing"} => left > 0
  /\ In(r.queue, "fix") => gate = "fixing"
  /\ In(r.queue, "segment") => gate = "releasing"

LEMMA GateRun ==
  ASSUME NEW r, NEW mode, RunInv(r, mode), NEW gate, NEW left, NEW failure,
         GateMay(r, mode, gate, left, failure)
  PROVE  LET s == Gated(r, gate, left, failure) IN
         /\ RunInv(s, mode) /\ Moved(r, s) /\ (gate # "releasing" => Still(r, s))
         /\ s.queue = r.queue /\ s.gate = gate /\ s.started = r.started /\ s.halted = r.halted
         /\ VerdictInv(r, mode) => VerdictInv(s, mode)
<1> DEFINE tk == [r EXCEPT !.gate = gate]
           a == [tk EXCEPT !.gatesLeft = left]
           s == [a EXCEPT !.armFailure = failure]
<1>1. r \in Run
  BY DEF RunInv
<1>2. /\ gate \in {"off", "due", "reading", "parked", "fixing", "releasing", "done"} /\ left \in 0..Gates
      /\ failure \in {"none", "invalid", "ended", "gate"}
  BY <1>1 DEF GateMay, Run
<1>3. tk \in Run
  BY <1>1, <1>2 DEF Run
<1>4. Gated(r, gate, left, failure) = s
  BY <1>1 DEF Gated, Run
<1>5. a \in Run
  <2> HIDE DEF tk
  <2> QED
    BY <1>2, <1>3 DEF Run
<1>6. s \in Run
  <2> HIDE DEF a
  <2> QED
    BY <1>2, <1>5 DEF Run
<1>7. /\ s.gate = gate /\ s.gatesLeft = left /\ s.armFailure = failure
      /\ s.queue = r.queue
      /\ s.planned = r.planned /\ s.started = r.started /\ s.handoff = r.handoff /\ s.stale = r.stale /\ s.office = r.office
      /\ s.stopped = r.stopped /\ s.resolved = r.resolved /\ s.stopObserver = r.stopObserver /\ s.outside = r.outside
      /\ s.halted = r.halted /\ s.closing = r.closing /\ s.windowOver = r.windowOver
      /\ s.observer = r.observer /\ s.frame = r.frame /\ s.samples = r.samples /\ s.nightObserved = r.nightObserved
      /\ s.terminal = r.terminal /\ s.exit = r.exit
      /\ s.arm = r.arm /\ s.armStatus = r.armStatus /\ s.armAttempt = r.armAttempt
  BY <1>1 DEF Run
<1> HIDE DEF s
<1>8. WriterInv(s) /\ FreshInv(s)
  BY <1>7 DEF RunInv, WriterInv, FreshInv, GateMay
<1>9. ScheduleInv(s, mode)
  BY <1>7 DEF RunInv, ScheduleInv, GateMay
<1>10. ObserverInv(s)
  BY <1>7 DEF RunInv, ObserverInv
<1>11. FifoInv(s)
  BY <1>7 DEF RunInv, FifoInv
<1>12. Moved(r, s) /\ (gate # "releasing" => Still(r, s))
  BY <1>7 DEF Still, Steady, Moved
<1>13. VerdictInv(r, mode) => VerdictInv(s, mode)
  BY <1>7 DEF VerdictInv, Excused
<1> QED
  BY <1>4, <1>6, <1>7, <1>8, <1>9, <1>10, <1>11, <1>12, <1>13 DEF RunInv

LEMMA ArmWrittenKeeps ==
  ASSUME ExecutorAssumption, RunInv(run, request.arm), ArmWritten
  PROVE  Kept /\ Still(run, run')
<1>1. run \in Run /\ run.arm \in {"rearming", "releasing"} /\ ~In(run.queue, "body") /\ run.handoff = "written"
      /\ request.arm = "blocking" /\ run.armStatus # "FAILED" /\ run.gate = "off"
  BY DEF RunInv, WriterInv, ScheduleInv, ArmWritten
<1>2. CASE run.arm = "rearming" /\ ~Queued("rearm") /\ run' = [run EXCEPT !.arm = "pending"]
  <2>1. run' = Arming(run, "pending", run.armAttempt, run.armStatus, run.armFailure)
    BY <1>1, <1>2 DEF Run, Arming
  <2>2. ~In(run.queue, "rearm") /\ ~In(run.queue, "armSegment")
    BY <1>2 DEF Queued, In, RunInv, WriterInv
  <2>3. ArmMay(run, request.arm, "pending", run.armAttempt, run.armStatus, run.armFailure)
    BY <1>1, <1>2, <2>2 DEF ArmMay, Run
  <2> QED
    BY <2>1, <2>3, ArmRun DEF Kept
<1>3. CASE run.arm = "releasing" /\ ~Queued("armSegment")
  <2>1. ~In(run.queue, "rearm") /\ ~In(run.queue, "armSegment")
    BY <1>3 DEF Queued, In, RunInv, WriterInv
  <2>2. CASE run' = ArmFails(run)
    BY <1>1, <1>3, <2>1, <2>2, ArmFailsRun DEF Kept
  <2>3. CASE run' = [run EXCEPT !.arm = "done", !.armStatus = "PASS", !.gate = "due"]
    <3> DEFINE tk == Arming(run, "done", run.armAttempt, "PASS", run.armFailure)
    <3>1. ArmMay(run, request.arm, "done", run.armAttempt, "PASS", run.armFailure)
      BY <1>1, <1>3, <2>1 DEF ArmMay, Run
    <3>2. /\ RunInv(tk, request.arm) /\ Still(run, tk) /\ tk.gate = "off" /\ tk.arm = "done" /\ tk.queue = run.queue
          /\ VerdictInv(run, request.arm) => VerdictInv(tk, request.arm)
      BY <1>1, <3>1, ArmRun
    <3>3. tk.handoff = "written" /\ tk.armFailure = run.armFailure /\ tk.gatesLeft = run.gatesLeft
          /\ run.gatesLeft \in 0..Gates
      BY <1>1 DEF Arming, Run
    <3>4. run' = Gated(tk, "due", tk.gatesLeft, tk.armFailure)
      BY <1>1, <2>3 DEF Arming, Gated, Run
    <3> HIDE DEF tk
    <3>5. GateMay(tk, request.arm, "due", tk.gatesLeft, tk.armFailure)
      BY <1>1, <3>2, <3>3 DEF GateMay, RunInv, WriterInv, ScheduleInv
    <3>6. /\ RunInv(run', request.arm) /\ Still(tk, run')
          /\ VerdictInv(tk, request.arm) => VerdictInv(run', request.arm)
      BY <3>2, <3>4, <3>5, GateRun
    <3> QED
      BY <3>2, <3>6, StillThen DEF Kept
  <2> QED
    BY <1>3, <2>2, <2>3 DEF ArmWritten
<1> QED
  BY <1>2, <1>3 DEF ArmWritten

(***************************************************************************)
(* The cycle gates.                                                        *)
(***************************************************************************)
LEMMA GateAsksKeeps ==
  ASSUME ExecutorAssumption, RunInv(run, request.arm), GateAsks
  PROVE  Kept /\ Still(run, run')
<1>1. run \in Run /\ run.gate = "due" /\ run.gatesLeft \in 0..Gates /\ run.armFailure # "gate"
  BY DEF RunInv, ScheduleInv, Run, GateAsks
<1>2. PICK gate \in {"reading", "done"} :
        run' = [run EXCEPT !.gate = gate] /\ (gate = "reading" => run.gatesLeft > 0)
  BY DEF GateAsks, GateDone
<1>3. run' = Gated(run, gate, run.gatesLeft, run.armFailure)
  BY <1>1, <1>2 DEF Run, Gated
<1>4. GateMay(run, request.arm, gate, run.gatesLeft, run.armFailure)
  BY <1>1, <1>2 DEF GateMay, RunInv, WriterInv, ScheduleInv
<1>5. gate # "releasing"
  OBVIOUS
<1> QED
  BY <1>3, <1>4, <1>5, GateRun DEF Kept

LEMMA GateAnsweredKeeps ==
  ASSUME ExecutorAssumption, RunInv(run, request.arm), GateAnswered
  PROVE  Kept /\ Steady(run, run')
<1>1. run \in Run /\ run.gate = "reading" /\ run.gatesLeft > 0 /\ run.started /\ run.gatesLeft \in 0..Gates
  BY DEF RunInv, ScheduleInv, Run, GateAnswered
<1>2. ASSUME NEW gate \in {"parked", "fixing", "done"}, NEW failure \in {run.armFailure, "gate"},
             failure = "gate" => gate = "done"
      PROVE  LET tk == Gated(run, gate, run.gatesLeft, failure) IN
             /\ RunInv(tk, request.arm) /\ Still(run, tk) /\ tk.queue = run.queue /\ tk.gate = gate
             /\ tk.started /\ tk.halted = run.halted
             /\ VerdictInv(run, request.arm) => VerdictInv(tk, request.arm)
  <2>1. GateMay(run, request.arm, gate, run.gatesLeft, failure)
    BY <1>1, <1>2 DEF GateMay, RunInv, WriterInv, ScheduleInv
  <2> QED
    BY <1>1, <1>2, <2>1, GateRun
<1>3. ASSUME NEW gate \in {"parked", "done"}, run' = [run EXCEPT !.gate = gate]
      PROVE  Kept /\ Steady(run, run')
  <2>1. run' = Gated(run, gate, run.gatesLeft, run.armFailure)
    BY <1>1, <1>3 DEF Run, Gated
  <2>2. run.armFailure # "gate"
    BY <1>1 DEF RunInv, ScheduleInv
  <2> QED
    BY <1>2, <2>1, <2>2 DEF Kept, Still
<1>4. CASE run' = feedShared([run EXCEPT !.gate = "fixing"], "fix", 1)
  <2> DEFINE tk == Gated(run, "fixing", run.gatesLeft, run.armFailure)
  <2>1. run' = feedShared(tk, "fix", 1)
    <3>1. tk = [run EXCEPT !.gate = "fixing"]
      BY <1>1 DEF Run, Gated
    <3> HIDE DEF tk
    <3> QED
      BY <1>4, <3>1
  <2>2. run.armFailure # "gate" /\ ~In(run.queue, "fix") /\ 1 \in 1..Lines
    BY <1>1 DEF RunInv, WriterInv, ScheduleInv, ExecutorAssumption
  <2>3. /\ RunInv(tk, request.arm) /\ Still(run, tk) /\ tk.queue = run.queue /\ tk.gate = "fixing"
        /\ VerdictInv(run, request.arm) => VerdictInv(tk, request.arm)
    BY <1>2, <2>2
  <2> HIDE DEF tk
  <2> QED
    BY <2>1, <2>2, <2>3, FeedRun, MovedThen DEF Still, Steady, Kept
<1>5. CASE ~run.halted /\ run' = stopProcess([GateDone(run) EXCEPT !.armFailure = IF @ = "none" THEN "gate" ELSE @])
  <2>1. PICK failure \in {run.armFailure, "gate"} :
          run' = stopProcess(Gated(run, "done", run.gatesLeft, failure))
    <3> DEFINE failure == IF run.armFailure = "none" THEN "gate" ELSE run.armFailure
    <3>1. [GateDone(run) EXCEPT !.armFailure = IF @ = "none" THEN "gate" ELSE @] = Gated(run, "done", run.gatesLeft, failure)
      BY <1>1 DEF Run, Gated, GateDone
    <3> HIDE DEF failure
    <3>2. failure \in {run.armFailure, "gate"}
      BY DEF failure
    <3> QED
      BY <1>5, <3>1, <3>2
  <2> DEFINE tk == Gated(run, "done", run.gatesLeft, failure)
  <2>2. /\ RunInv(tk, request.arm) /\ Still(run, tk) /\ tk.started /\ ~tk.halted /\ tk \in Run
        /\ VerdictInv(run, request.arm) => VerdictInv(tk, request.arm)
    BY <1>1, <1>2, <1>5 DEF RunInv
  <2> HIDE DEF tk
  <2> QED
    BY <2>1, <2>2, StopProcessRun, StopProcessStill, StopProcessVerdict, StillThen DEF Still, Kept, tk
<1> QED
  BY <1>3, <1>4, <1>5 DEF GateAnswered, GateDone

LEMMA GateMovesOnKeeps ==
  ASSUME ExecutorAssumption, RunInv(run, request.arm), GateMovesOn
  PROVE  Kept /\ Moved(run, run') /\ run.armFailure # "gate"
<1>1. run \in Run /\ run.gate \in {"fixing", "parked", "releasing"} /\ run.gatesLeft > 0 /\ run.armFailure # "gate"
      /\ run.gatesLeft \in 0..Gates /\ Gates \in Nat
  BY DEF RunInv, ScheduleInv, GateMovesOn, Run, ExecutorAssumption
<1>2. ASSUME NEW gate \in {"parked", "done", "due", "releasing"}, NEW left \in 0..Gates,
             gate \in {"parked", "releasing"} => left > 0,
             ~In(run.queue, "fix"), ~In(run.queue, "segment")
      PROVE  LET tk == Gated(run, gate, left, run.armFailure) IN
             /\ RunInv(tk, request.arm) /\ Moved(run, tk) /\ tk.queue = run.queue /\ tk.gate = gate
             /\ VerdictInv(run, request.arm) => VerdictInv(tk, request.arm)
  <2>1. GateMay(run, request.arm, gate, left, run.armFailure)
    BY <1>1, <1>2 DEF GateMay, RunInv, WriterInv, ScheduleInv
  <2> QED
    BY <2>1, GateRun
<1>3. CASE run.gate = "fixing" /\ ~Queued("fix") /\ run' = [run EXCEPT !.gate = "parked"]
  <2>1. run' = Gated(run, "parked", run.gatesLeft, run.armFailure)
    BY <1>1, <1>3 DEF Run, Gated
  <2>2. ~In(run.queue, "fix") /\ ~In(run.queue, "segment")
    BY <1>3 DEF Queued, In, RunInv, WriterInv
  <2> QED
    BY <1>1, <1>2, <2>1, <2>2 DEF Kept
<1>4. CASE run.gate = "parked" /\ run' = GateDone(run)
  <2>1. run' = Gated(run, "done", run.gatesLeft, run.armFailure)
    BY <1>1, <1>4 DEF Run, Gated, GateDone
  <2>2. ~In(run.queue, "fix") /\ ~In(run.queue, "segment")
    BY <1>4 DEF RunInv, WriterInv
  <2> QED
    BY <1>1, <1>2, <2>1, <2>2 DEF Kept
<1>5. CASE run.gate = "parked" /\ run' = feedShared([run EXCEPT !.gate = "releasing"], "segment", Lines)
  <2> DEFINE tk == Gated(run, "releasing", run.gatesLeft, run.armFailure)
  <2>1. run' = feedShared(tk, "segment", Lines)
    <3>1. tk = [run EXCEPT !.gate = "releasing"]
      BY <1>1 DEF Run, Gated
    <3> HIDE DEF tk
    <3> QED
      BY <1>5, <3>1
  <2>2. ~In(run.queue, "fix") /\ ~In(run.queue, "segment") /\ Lines \in 1..Lines
    BY <1>5 DEF RunInv, WriterInv, ExecutorAssumption
  <2>3. /\ RunInv(tk, request.arm) /\ Moved(run, tk) /\ tk.queue = run.queue /\ tk.gate = "releasing"
        /\ VerdictInv(run, request.arm) => VerdictInv(tk, request.arm)
    BY <1>1, <1>2, <2>2
  <2> HIDE DEF tk
  <2> QED
    BY <1>1, <2>1, <2>2, <2>3, FeedRun, MovedThen DEF Kept
<1>6. CASE run.gate = "releasing" /\ ~Queued("segment") /\ run' = [run EXCEPT !.gate = "due", !.gatesLeft = @ - 1]
  <2>1. run' = Gated(run, "due", run.gatesLeft - 1, run.armFailure)
    BY <1>1, <1>6 DEF Run, Gated
  <2>2. ~In(run.queue, "fix") /\ ~In(run.queue, "segment")
    BY <1>6 DEF Queued, In, RunInv, WriterInv
  <2>3. run.gatesLeft - 1 \in 0..Gates
    BY <1>1
  <2> QED
    BY <1>1, <1>2, <2>1, <2>2, <2>3 DEF Kept
<1> QED
  BY <1>1, <1>3, <1>4, <1>5, <1>6 DEF GateMovesOn

(***************************************************************************)
(* The execution around the record: what a step of each kind keeps.        *)
(***************************************************************************)
(* HaltStands, as a step.                                                  *)
HaltStep ==
  /\ run.halted /\ executions' = executions => run'.planned = run.planned
  /\ running = "yes" /\ running' = "ending" /\ result' = "completed" /\ run.halted /\ ~run.outside
       => run.terminal # "none"
  /\ run.armFailure = "gate" /\ executions' = executions => ~(run'.gate = "releasing" /\ run.gate # "releasing")

LEMMA NewRunInv ==
  ASSUME ExecutorAssumption, request.arm \in Modes
  PROVE  /\ RunInv(NewRun, request.arm) /\ VerdictInv(NewRun, request.arm)
         /\ ~NewRun.started /\ ~NewRun.stopped /\ \A p : ~In(NewRun.queue, p)
<1> DEFINE n == NewRun
           arm == IF request.arm = "none" THEN "done" ELSE "pending"
<1>1. \A p : ~In(<<>>, p)
  BY DEF In
<1>2. <<>> \in Seq(Task) /\ Once(<<>>) /\ ~Fresh(<<>>)
  BY DEF Once, Fresh
<1>3. arm \in {"pending", "done"} /\ (request.arm = "none" => arm = "done")
  OBVIOUS
<1> HIDE DEF arm
<1>4. n \in Run
  BY <1>2, <1>3 DEF NewRun, Run, arm, ExecutorAssumption, EXIT_CONFIRM_SAMPLES, MAX_ARM_ATTEMPTS
<1>5. /\ n.queue = <<>> /\ n.planned = 0 /\ ~n.started /\ ~n.stale /\ n.handoff = "none" /\ ~n.stopped /\ ~n.resolved
      /\ ~n.stopObserver /\ ~n.halted /\ ~n.closing /\ n.observer = "waiting" /\ n.samples = 0 /\ n.exit = "none"
      /\ n.arm = arm /\ n.armStatus = "PENDING" /\ n.armFailure = "none" /\ n.gate = "off"
  BY DEF NewRun, arm
<1> HIDE DEF n
<1>6. WriterInv(n) /\ FreshInv(n)
  BY <1>1, <1>2, <1>5 DEF WriterInv, FreshInv
<1>7. ScheduleInv(n, request.arm) /\ ObserverInv(n)
  BY <1>3, <1>5 DEF ScheduleInv, ObserverInv, EXIT_CONFIRM_SAMPLES
<1>8. FifoInv(n) /\ VerdictInv(n, request.arm)
  BY <1>1, <1>5 DEF FifoInv, VerdictInv
<1> QED
  BY <1>1, <1>4, <1>5, <1>6, <1>7, <1>8 DEF RunInv, n

LEMMA Started ==
  ASSUME ExecutorAssumption, Init
  PROVE  ExecInv
<1>1. request.arm \in Modes /\ run = NewRun
  BY DEF Init, ExecutorAssumption, Modes
<1>2. RunInv(run, request.arm) /\ VerdictInv(run, request.arm) /\ ~run.started /\ \A p : ~In(run.queue, p)
  BY <1>1, NewRunInv
<1>3. PlaceInv
  BY <1>2 DEF Init, PlaceInv, NothingFedAfterTheEnd, In
<1>4. ShapeInv
  BY DEF Init, ShapeInv, Screens
<1> QED
  BY <1>2, <1>3, <1>4 DEF ExecInv

(* The handlers that leave the ports alone.                                *)
LEMMA Handled ==
  ASSUME ExecInv, UNCHANGED ports, Kept, Moved(run, run'),
         running # "no" \/ Still(run, run'), Steady(run, run') \/ run.armFailure # "gate"
  PROVE  ExecInv' /\ HaltStep
<1> USE DEF ports
<1>1. RunInv(run, request.arm)' /\ (running = "yes" => VerdictInv(run, request.arm))'
  BY DEF ExecInv, Kept
<1>2. PlaceInv'
  <2>1. (running = "yes" /\ intro = "waiting" /\ ~run.started /\ ~run.halted /\ ~run.stopObserver => ~run.stopped)'
    BY DEF ExecInv, PlaceInv, Moved
  <2>2. (running # "yes" /\ In(run.queue, "body") => run.observer = "handing")'
    BY DEF ExecInv, PlaceInv, Moved
  <2>3. NothingFedAfterTheEnd'
    <3>1. running = "no" => \A p \in Pieces : ~In(run'.queue, p)
      BY DEF ExecInv, PlaceInv, NothingFedAfterTheEnd, Still, In
    <3> QED
      BY <3>1 DEF NothingFedAfterTheEnd, In
  <2>4. (run.started => run.office \/ run.stale)'
    BY DEF ExecInv, PlaceInv, Moved
  <2> QED
    BY <2>1, <2>2, <2>3, <2>4 DEF PlaceInv
<1>3. ShapeInv'
  BY DEF ExecInv, ShapeInv, Moved
<1>4. HaltStep
  BY DEF Steady, Moved, HaltStep
<1> QED
  BY <1>1, <1>2, <1>3, <1>4 DEF ExecInv

(* The ports move and the record stands.                                   *)
LEMMA StillHalt ==
  ASSUME run' = run, running' = running \/ running # "yes"
  PROVE  HaltStep
BY DEF HaltStep

LEMMA ExecuteStep ==
  ASSUME ExecutorAssumption, ExecInv, Execute
  PROVE  ExecInv' /\ HaltStep
<1>1. request.arm \in Modes /\ executions \in Nat /\ hid = "open" /\ request' = request
  BY DEF ExecInv, RunInv, ShapeInv, PlaceInv, Execute
<1>0. /\ running = "no" /\ running' = "yes" /\ intro' = "waiting" /\ result' = "none" /\ executions' = executions + 1
      /\ grant' = FALSE /\ UNCHANGED <<screen, request, hid>> /\ screen \in Screens
  BY DEF ExecInv, ShapeInv, Execute
<1>2. /\ RunInv(NewRun, request.arm) /\ VerdictInv(NewRun, request.arm)
      /\ ~NewRun.started /\ ~NewRun.stopped /\ \A p : ~In(NewRun.queue, p)
  BY <1>1, NewRunInv
<1>3. /\ RunInv(run', request.arm) /\ VerdictInv(run', request.arm) /\ ~run'.stopped /\ (run'.started => run'.stale)
  <2>1. CASE grant
    <3>1. run' = startSharedSchedule(NewRun, TRUE)
      BY <2>1 DEF Execute
    <3> QED
      BY <1>2, <2>1, <3>1, StartRun, StartVerdict, StartDoes DEF SameStop, RunInv
  <2>2. CASE ~grant
    BY <1>2, <2>2 DEF Execute
  <2> QED
    BY <2>1, <2>2
<1>4. PlaceInv'
  BY <1>0, <1>3 DEF PlaceInv, NothingFedAfterTheEnd
<1>5. ShapeInv'
  <2>1. executions' \in Nat
    BY <1>0, <1>1
  <2>2. grant' \in BOOLEAN /\ hid' = "open" /\ screen' \in Screens
    BY <1>0, <1>1
  <2> QED
    BY <1>0, <2>1, <2>2, Zenon DEF ShapeInv
<1>6. HaltStep
  BY <1>0, <1>1 DEF HaltStep
<1> QED
  BY <1>1, <1>3, <1>4, <1>5, <1>6 DEF ExecInv

LEMMA ReleaseStep ==
  ASSUME ExecutorAssumption, ExecInv, releaseNight
  PROVE  ExecInv' /\ HaltStep
<1>1. /\ RunInv(run, request.arm) /\ (running = "yes" => VerdictInv(run, request.arm)) /\ run \in Run
      /\ PlaceInv /\ ShapeInv /\ UNCHANGED <<screen, request, running, hid, result, executions>>
      /\ intro = "waiting" /\ intro' = "released" /\ grant' = TRUE
  BY DEF ExecInv, RunInv, releaseNight
<1>2. CASE running = "yes"
  <2> DEFINE tk == [run EXCEPT !.office = TRUE]
  <2>1. run' = startSharedSchedule(tk, FALSE)
    BY <1>2 DEF releaseNight
  <2>2. /\ tk \in Run /\ tk.office
        /\ tk.queue = run.queue
        /\ tk.planned = run.planned /\ tk.started = run.started /\ tk.handoff = run.handoff /\ tk.stale = run.stale
        /\ tk.stopped = run.stopped /\ tk.resolved = run.resolved /\ tk.stopObserver = run.stopObserver /\ tk.outside = run.outside
        /\ tk.halted = run.halted /\ tk.closing = run.closing /\ tk.windowOver = run.windowOver
        /\ tk.observer = run.observer /\ tk.frame = run.frame /\ tk.samples = run.samples /\ tk.nightObserved = run.nightObserved
        /\ tk.terminal = run.terminal /\ tk.exit = run.exit
        /\ tk.arm = run.arm /\ tk.armStatus = run.armStatus /\ tk.armFailure = run.armFailure /\ tk.armAttempt = run.armAttempt
        /\ tk.gate = run.gate /\ tk.gatesLeft = run.gatesLeft
    <3>1. tk \in Run
      BY <1>1 DEF Run
    <3> QED
      BY <1>1, <3>1 DEF Run
  <2> HIDE DEF tk
  <2>3. WriterInv(tk) /\ FreshInv(tk) /\ ScheduleInv(tk, request.arm)
    BY <1>1, <2>2 DEF RunInv, WriterInv, FreshInv, ScheduleInv
  <2>4. ObserverInv(tk)
    BY <1>1, <2>2 DEF RunInv, ObserverInv
  <2>5. FifoInv(tk)
    BY <1>1, <2>2 DEF RunInv, FifoInv
  <2>6. RunInv(tk, request.arm) /\ VerdictInv(tk, request.arm)
    BY <1>1, <1>2, <2>2, <2>3, <2>4, <2>5 DEF RunInv, VerdictInv, Excused
  <2>7. Refused(tk) \/ ~tk.stopped
    BY <1>1, <1>2, <2>2 DEF PlaceInv, Refused
  <2>8. RunInv(run', request.arm) /\ VerdictInv(run', request.arm)
    BY <2>1, <2>2, <2>6, <2>7, StartRun, StartVerdict
  <2>9. SameRest(tk, run')
    BY <2>1, <2>2, StartDoes
  <2> USE DEF SameRest
  <2>10. PlaceInv'
    BY <1>1, <1>2, <2>2, <2>9 DEF PlaceInv, NothingFedAfterTheEnd
  <2>11. ShapeInv'
    BY <1>1, <1>2, <2>2, <2>9 DEF ShapeInv
  <2>12. HaltStep
    BY <1>1, <1>2, <2>2, <2>9 DEF HaltStep
  <2> QED
    BY <1>1, <2>8, <2>10, <2>11, <2>12 DEF ExecInv
<1>3. CASE running # "yes"
  <2>1. run' = run
    BY <1>3 DEF releaseNight
  <2>2. PlaceInv' /\ ShapeInv'
    BY <1>1, <1>3, <2>1 DEF PlaceInv, ShapeInv, NothingFedAfterTheEnd
  <2> QED
    BY <1>1, <1>3, <2>1, <2>2, StillHalt DEF ExecInv
<1> QED
  BY <1>2, <1>3

LEMMA AbortStep ==
  ASSUME ExecutorAssumption, ExecInv, Abort
  PROVE  ExecInv' /\ HaltStep
<1>1. /\ RunInv(run, request.arm) /\ VerdictInv(run, request.arm) /\ PlaceInv /\ ShapeInv
      /\ UNCHANGED <<screen, request, running, grant, hid, result, executions>>
      /\ running = "yes" /\ intro' = "released"
  BY DEF ExecInv, Abort
<1> DEFINE tk == [run EXCEPT !.outside = TRUE]
<1>2. run' = stopProcess(tk)
  BY DEF Abort
<1>3. RunInv(stopProcess(tk), request.arm) /\ Still(run, tk) /\ VerdictInv(stopProcess(tk), request.arm) /\ tk \in Run
  BY <1>1, OutsideRun
<1> HIDE DEF tk
<1>4. SameNight(tk, run')
  BY <1>2, <1>3, StopProcessDoes
<1> USE DEF SameNight, SameRest, Still, Steady, Moved
<1>5. PlaceInv'
  BY <1>1, <1>3, <1>4 DEF PlaceInv, NothingFedAfterTheEnd
<1>6. ShapeInv'
  BY <1>1, <1>3, <1>4 DEF ShapeInv
<1>7. HaltStep
  BY <1>1, <1>3, <1>4 DEF HaltStep
<1> QED
  BY <1>1, <1>2, <1>3, <1>5, <1>6, <1>7 DEF ExecInv

LEMMA UnwindStep ==
  ASSUME ExecutorAssumption, ExecInv, Unwind
  PROVE  ExecInv' /\ HaltStep
<1>0. run \in Run
  BY DEF ExecInv, RunInv
<1>1. /\ RunInv(run, request.arm) /\ VerdictInv(run, request.arm) /\ PlaceInv /\ ShapeInv
      /\ UNCHANGED <<screen, request, grant, hid, intro, executions>>
      /\ running = "yes" /\ running' = "ending" /\ run.resolved /\ (run.halted => run.observer = "done" /\ hid = "closed")
  BY DEF ExecInv, RunInv, Unwind
<1> DEFINE tk == [run EXCEPT !.stopObserver = TRUE]
<1>2. run' = tk /\ result' = Settled
  BY DEF Unwind
<1>3. /\ tk \in Run /\ tk.stopObserver
      /\ tk.queue = run.queue
      /\ tk.planned = run.planned /\ tk.started = run.started /\ tk.handoff = run.handoff /\ tk.stale = run.stale /\ tk.office = run.office
      /\ tk.stopped = run.stopped /\ tk.resolved = run.resolved /\ tk.outside = run.outside
      /\ tk.halted = run.halted /\ tk.closing = run.closing /\ tk.windowOver = run.windowOver
      /\ tk.observer = run.observer /\ tk.frame = run.frame /\ tk.samples = run.samples /\ tk.nightObserved = run.nightObserved
      /\ tk.terminal = run.terminal /\ tk.exit = run.exit
      /\ tk.arm = run.arm /\ tk.armStatus = run.armStatus /\ tk.armFailure = run.armFailure /\ tk.armAttempt = run.armAttempt
      /\ tk.gate = run.gate /\ tk.gatesLeft = run.gatesLeft
  <2>1. tk \in Run
    BY <1>0 DEF Run
  <2> QED
    BY <1>0, <2>1 DEF Run
<1> HIDE DEF tk
<1>4. WriterInv(tk) /\ FreshInv(tk) /\ ScheduleInv(tk, request.arm)
  BY <1>1, <1>3 DEF RunInv, WriterInv, FreshInv, ScheduleInv
<1>5. ObserverInv(tk)
  BY <1>1, <1>3 DEF RunInv, ObserverInv
<1>6. FifoInv(tk)
  BY <1>1, <1>3 DEF RunInv, FifoInv
<1>7. RunInv(tk, request.arm)
  BY <1>1, <1>3, <1>4, <1>5, <1>6 DEF RunInv
<1>8. In(run.queue, "body") => run.observer = "handing"
  BY <1>1 DEF RunInv, FifoInv, ShapeInv
<1>9. PlaceInv'
  BY <1>1, <1>2, <1>3, <1>8 DEF PlaceInv, NothingFedAfterTheEnd
<1>10. ShapeInv'
  BY <1>1, <1>2, <1>3 DEF ShapeInv, Settled
<1>11. run.halted /\ ~run.outside /\ Settled = "completed" => run.terminal # "none"
  <2>1. Settled = "completed" => run.handoff # "late" /\ run.exit = "none" /\ armVerified
    BY DEF Settled
  <2>2. run.armStatus = "FAILED" /\ request.arm = "blocking" => ~armVerified
    BY DEF armVerified
  <2> QED
    BY <1>1, <2>1, <2>2 DEF VerdictInv, Excused
<1>12. HaltStep
  BY <1>1, <1>2, <1>3, <1>11 DEF HaltStep
<1> QED
  BY <1>1, <1>2, <1>7, <1>9, <1>10, <1>12 DEF ExecInv

LEMMA TornDownStep ==
  ASSUME ExecInv, TornDown
  PROVE  ExecInv' /\ HaltStep
<1>1. /\ RunInv(run, request.arm) /\ PlaceInv /\ ShapeInv
      /\ UNCHANGED <<screen, request, hid, run, intro, result, executions>>
      /\ running = "ending" /\ running' = "no" /\ grant' = FALSE
      /\ run.observer = "done" /\ run.arm = "done" /\ run.gate \in {"off", "done"}
  BY DEF ExecInv, TornDown
<1>2. \A p \in Pieces : ~In(run.queue, p)
  BY <1>1 DEF RunInv, WriterInv, PlaceInv, Pieces
<1>3. PlaceInv'
  BY <1>1, <1>2 DEF PlaceInv, NothingFedAfterTheEnd, In
<1>4. ShapeInv'
  BY <1>1 DEF ShapeInv
<1> QED
  BY <1>1, <1>3, <1>4, StillHalt DEF ExecInv

(* The owner's close, the retry, and the game.                             *)
LEMMA PortStep ==
  ASSUME ExecInv, CloseShared \/ NextAttempt \/ Screen
  PROVE  ExecInv' /\ HaltStep
<1>1. /\ RunInv(run, request.arm) /\ (running = "yes" => VerdictInv(run, request.arm)) /\ PlaceInv /\ ShapeInv
      /\ UNCHANGED <<request, running, grant, run, result, executions>>
  BY DEF ExecInv, CloseShared, NextAttempt, Screen
<1>2. ShapeInv'
  <2>1. CASE CloseShared
    BY <1>1, <2>1 DEF ShapeInv, CloseShared
  <2>2. CASE NextAttempt
    BY <1>1, <2>2 DEF ShapeInv, NextAttempt, Screens
  <2>3. CASE Screen
    <3>1. screen' \in Screens
      BY <1>1, <2>3 DEF ShapeInv, Screen, Screens
    <3> QED
      BY <1>1, <2>3, <3>1 DEF ShapeInv, Screen
  <2> QED
    BY <2>1, <2>2, <2>3
<1>3. PlaceInv'
  <2>1. intro' = intro \/ (intro' = "off" /\ running = "no")
    BY DEF CloseShared, NextAttempt, Screen
  <2> QED
    BY <1>1, <2>1 DEF PlaceInv, NothingFedAfterTheEnd
<1> QED
  BY <1>1, <1>2, <1>3, StillHalt DEF ExecInv

(***************************************************************************)
(* The invariant is inductive, and every step keeps the halt.              *)
(***************************************************************************)
LEMMA EveryStep ==
  ASSUME ExecutorAssumption, ExecInv, [Next]_vars
  PROVE  ExecInv' /\ HaltStep
<1>1. /\ RunInv(run, request.arm) /\ (running = "yes" => VerdictInv(run, request.arm))
      /\ screen \in Screens /\ running \in {"no", "yes", "ending"}
  BY DEF ExecInv, ShapeInv
<1>2. CASE Write
  BY <1>1, <1>2, WriteKeeps, Handled DEF Write, Still, Steady
<1>3. CASE Execute
  BY <1>3, ExecuteStep
<1>4. CASE releaseNight
  BY <1>4, ReleaseStep
<1>5. CASE Abort
  BY <1>5, AbortStep
<1>6. CASE CloseShared \/ NextAttempt \/ Screen
  BY <1>6, PortStep
<1>7. CASE Deadline
  BY <1>1, <1>7, DeadlineKeeps, Handled DEF Deadline, Still, Steady
<1>8. CASE Unwind
  BY <1>8, UnwindStep
<1>9. CASE TornDown
  BY <1>9, TornDownStep
<1>10. CASE Capture
  BY <1>1, <1>10, CaptureKeeps, Handled DEF Capture, Still, Steady
<1>11. CASE Classified
  <2>1. running # "no" /\ UNCHANGED ports
    BY <1>11 DEF Classified
  <2> QED
    BY <1>1, <1>11, <2>1, ClassifiedKeeps, Handled DEF Steady
<1>12. CASE HandedOver
  BY <1>1, <1>12, HandedOverKeeps, Handled DEF HandedOver, Still, Steady
<1>13. CASE WindowPasses
  BY <1>1, <1>13, WindowPassesKeeps, Handled DEF WindowPasses, Still, Steady
<1>14. CASE ArmAsks
  BY <1>1, <1>14, ArmAsksKeeps, Handled DEF ArmAsks, Still, Steady
<1>15. CASE ArmAnswered
  <2>1. running # "no" /\ UNCHANGED ports
    BY <1>15 DEF ArmAnswered
  <2> QED
    BY <1>1, <1>15, <2>1, ArmAnsweredKeeps, Handled DEF Steady
<1>16. CASE ArmWritten
  BY <1>1, <1>16, ArmWrittenKeeps, Handled DEF ArmWritten, Still, Steady
<1>17. CASE GateAsks
  BY <1>1, <1>17, GateAsksKeeps, Handled DEF GateAsks, Still, Steady
<1>18. CASE GateAnswered
  <2>1. running # "no" /\ UNCHANGED ports
    BY <1>18 DEF GateAnswered
  <2> QED
    BY <1>1, <1>18, <2>1, GateAnsweredKeeps, Handled DEF Steady
<1>19. CASE GateMovesOn
  <2>1. running # "no" /\ UNCHANGED ports
    BY <1>19 DEF GateMovesOn
  <2> QED
    BY <1>1, <1>19, <2>1, GateMovesOnKeeps, Handled
<1>20. CASE UNCHANGED vars
  <2>1. UNCHANGED ports /\ run' = run
    BY <1>20 DEF vars
  <2>2. Kept /\ Still(run, run')
    BY <1>1, <2>1 DEF Kept, Still, Steady, Moved, ports
  <2> QED
    BY <2>1, <2>2, Handled DEF Still, Steady
<1>21. CASE StartupPasses
  BY <1>1, <1>21, StartupPassesKeeps, Handled DEF StartupPasses, Still, Steady
<1> QED
  BY <1>2, <1>3, <1>4, <1>5, <1>6, <1>7, <1>8, <1>9, <1>10, <1>11, <1>12, <1>13, <1>14, <1>15, <1>16, <1>17,
     <1>18, <1>19, <1>20, <1>21
  DEF Next, Ending, Observer, Arm, Gating

(* The invariant of the execution, which every reachable state has.        *)
THEOREM Executing ==
  ASSUME ExecutorAssumption
  PROVE  Spec => []ExecInv
<1>1. Init => ExecInv
  BY Started
<1>2. ExecInv /\ [Next]_vars => ExecInv'
  BY EveryStep
<1> QED
  BY <1>1, <1>2, PTL DEF Spec

(* Every local stays among the values the code gives it, and the feed      *)
(* never holds two pieces of one writer (TypeOK).                          *)
THEOREM Typed ==
  ASSUME ExecutorAssumption
  PROVE  Spec => []TypeOK
<1>1. ExecInv => TypeOK
  BY DEF ExecInv, ShapeInv, RunInv, Run, WriterInv, Once, TypeOK
<1> QED
  BY <1>1, Executing, PTL

(* An attempt is played in its order: its plan waits for the office, or    *)
(* stops at the first line of a stale grant's; a death's static is no exit *)
(* before its window has run out, and nothing of an execution that is over *)
(* is left in the feed.                                                    *)
THEOREM AttemptsInOrder ==
  ASSUME ExecutorAssumption
  PROVE  Spec => []AttemptInOrder
<1>1. ExecInv => PlanWaits
  <2>1. RunInv(run, request.arm) => run.planned \in Nat /\ run.handoff \in {"none", "written", "late"}
    BY DEF RunInv, Run
  <2> QED
    BY <2>1 DEF ExecInv, PlaceInv, RunInv, ScheduleInv, PlanWaits
<1>2. ExecInv => StaticWaits /\ NothingFedAfterTheEnd
  BY DEF ExecInv, PlaceInv, RunInv, ObserverInv, StaticWaits
<1>3. ExecInv => AttemptInOrder
  BY <1>1, <1>2 DEF AttemptInOrder
<1> QED
  BY <1>3, Executing, PTL

(* Once a static has halted a night no line of the plan reaches the phone, *)
(* whichever task queued it, and the night never ends completed without a  *)
(* terminal the observer read; a gate that could not read releases nothing.*)
THEOREM HaltsStand ==
  ASSUME ExecutorAssumption
  PROVE  Spec => HaltStands
<1> DEFINE Latched == run.halted /\ executions' = executions => run'.planned = run.planned
           Verdict == running = "yes" /\ running' = "ending" /\ result' = "completed" /\ run.halted /\ ~run.outside
                        => run.terminal # "none"
           Unknown == run.armFailure = "gate" /\ executions' = executions
                        => ~(run'.gate = "releasing" /\ run.gate # "releasing")
<1>1. ExecInv /\ [Next]_vars => [Latched]_vars /\ [Verdict]_vars /\ [Unknown]_vars
  BY EveryStep DEF HaltStep
<1>2. Spec => [][Latched]_vars /\ [][Verdict]_vars /\ [][Unknown]_vars
  <2> HIDE DEF Latched, Verdict, Unknown
  <2> QED
    BY <1>1, Executing, PTL DEF Spec
<1> QED
  BY <1>2 DEF HaltStands, HaltLatched, HaltedVerdict, UnknownStopsThePlan

===============================================================================
