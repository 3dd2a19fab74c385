------------------------------- MODULE JobQueue -------------------------------
(***************************************************************************)
(* The Companion job queue: apps/lab/companion-queue.py.                   *)
(*                                                                         *)
(* Jobs live in one host-wide file, rewritten whole under an flock         *)
(* (QueueFile, write_jobs: temporary file, fsync, rename), so one action   *)
(* here is one critical section there: a crash inside it leaves the old    *)
(* file.  Everything BETWEEN two critical sections is a step of its own:   *)
(* a runner can be killed, signalled or overtaken there, and the job it    *)
(* started is a process that may outlive it.                               *)
(*                                                                         *)
(* A runner is one "companion-queue.py run" process.  The runner lock      *)
(* (QueueRunnerLock) admits one drainer at a time; the kernel drops it     *)
(* when its holder dies.                                                   *)
(***************************************************************************)
EXTENDS Integers, Sequences, FiniteSets

CONSTANTS
  Jobs,        (* the job ids that may ever be enqueued                    *)
  Nights,      (* jobs of kind "night"; the others are setups and checks   *)
  KeyOf,       (* the idempotency key of each job, NoKey where it has none *)
  NoKey,
  Runners,     (* queue runner processes                                   *)
  Windows,     (* those an overnight window starts: --nights --max-jobs 1  *)
  MaxFaults,   (* bound: kills, signals and holds in one behaviour         *)
  NoJob, Free  (* "no job claimed"; "nobody holds the runner lock"         *)

ASSUME QueueAssumption ==
  /\ Nights \subseteq Jobs
  /\ Windows \subseteq Runners
  /\ MaxFaults \in Nat
  /\ NoJob \notin Jobs
  /\ Free \notin Runners
  /\ DOMAIN KeyOf = Jobs

VARIABLES
  queue,       (* the job ids in file order: enqueue appends, nothing removes *)
  state,       (* each job's "state" field; "ABSENT" before it is enqueued    *)
  attempts,    (* each job's "attempts" field                                 *)
  lock,        (* who holds the runner lock                                   *)
  pc,          (* where each runner is in run_queue                           *)
  cur,         (* the job each runner claimed                                 *)
  seen,        (* whether Interrupted recorded a signal while the job ran     *)
  end,         (* how the runner's job ended: what execute() decides on       *)
  live,        (* the job processes alive, orphans included                   *)
  plays,       (* history: night runners started on the phone, per job        *)
  faults       (* how many kills, signals and holds there have been           *)

file  == <<queue, state, attempts>>
procs == <<lock, pc, cur, seen, end>>
vars  == <<queue, state, attempts, lock, pc, cur, seen, end, live, plays, faults>>

States == {"ABSENT", "PENDING", "RUNNING", "DONE", "FAILED", "CANCELLED"}
Ended  == {"DONE", "FAILED", "CANCELLED"}
Places == {"off", "start", "poll", "claimed", "child", "ended"}
Busy   == {"claimed", "child", "ended"}          (* a claimed job in hand *)

(* How a job process ends: its exit code, whether its output holds a       *)
(* "SETUP HOLD reason=" line, and whether the runner had to stop it.       *)
Ends == [code : {0, 1, 75}, holdLine : BOOLEAN, timeout : BOOLEAN]
NoEnd == [code |-> 0, holdLine |-> FALSE, timeout |-> FALSE]

(* A job process.  A night's is "playing" once its runner was started.     *)
Process == [job : Jobs, try : Nat, playing : BOOLEAN]

TypeOK ==
  /\ queue \in Seq(Jobs)
  /\ state \in [Jobs -> States]
  /\ attempts \in [Jobs -> Nat]
  /\ lock \in Runners \cup {Free}
  /\ pc \in [Runners -> Places]
  /\ cur \in [Runners -> Jobs \cup {NoJob}]
  /\ seen \in [Runners -> BOOLEAN]
  /\ end \in [Runners -> Ends]
  /\ live \subseteq Process
  /\ plays \in [Jobs -> Nat]
  /\ faults \in 0..MaxFaults

Init ==
  /\ queue = <<>>
  /\ state = [j \in Jobs |-> "ABSENT"]
  /\ attempts = [j \in Jobs |-> 0]
  /\ lock = Free
  /\ pc = [r \in Runners |-> "off"]
  /\ cur = [r \in Runners |-> NoJob]
  /\ seen = [r \in Runners |-> FALSE]
  /\ end = [r \in Runners |-> NoEnd]
  /\ live = {}
  /\ plays = [j \in Jobs |-> 0]
  /\ faults = 0

Fault == faults < MaxFaults /\ faults' = faults + 1

-----------------------------------------------------------------------------
(* The queue file, as its writers change it                                *)

(* Whether a job with this idempotency key is already queued: a retried    *)
(* enqueue then answers EXISTING and writes nothing.                       *)
Known(j) == KeyOf[j] # NoKey /\ \E i \in Jobs : state[i] # "ABSENT" /\ KeyOf[i] = KeyOf[j]

Enqueue(j) ==
  /\ state[j] = "ABSENT"
  /\ ~Known(j)
  /\ queue' = Append(queue, j)
  /\ state' = [state EXCEPT ![j] = "PENDING"]
  /\ UNCHANGED <<attempts, procs, live, plays, faults>>

(* Mutant: a RUNNING job can be cancelled too. *)
CancellableIfUnfinished == {j \in Jobs : state[j] \in {"PENDING", "RUNNING"}}

(* cancel: PENDING jobs only, all of them or none.                         *)
Cancellable == {j \in Jobs : state[j] = "PENDING"}

Cancel(retired) ==
  /\ retired # {}
  /\ retired \subseteq Cancellable
  /\ state' = [j \in Jobs |-> IF j \in retired THEN "CANCELLED" ELSE state[j]]
  /\ UNCHANGED <<queue, attempts, procs, live, plays, faults>>

(* Mutants: every stale job waits again; a stale night gets a state of its own. *)
StaleReplaysNights(j) == "PENDING"
StaleNamesItsOwn(j) == IF j \in Nights THEN "INTERRUPTED" ELSE "PENDING"

(* Where a RUNNING job goes whose runner is gone: a setup or check is      *)
(* idempotent and waits again; a night was started and is never replayed.  *)
Stale(j) == IF j \in Nights THEN "FAILED" ELSE "PENDING"

(* Mutant: the sweep forgets setups and checks. *)
ReleasedNights == [j \in Jobs |-> IF state[j] = "RUNNING" /\ j \in Nights THEN "FAILED" ELSE state[j]]

Released == [j \in Jobs |-> IF state[j] = "RUNNING" THEN Stale(j) ELSE state[j]]

(* Mutant: the window releases without taking the runner lock. *)
ReleaseUnguarded == TRUE

(* release_running, which a window's finish_queue calls: only while no     *)
(* runner owns the queue.                                                  *)
ReleaseGuard == lock = Free

ReleaseRunning ==
  /\ ReleaseGuard
  /\ state' = Released
  /\ UNCHANGED <<queue, attempts, procs, live, plays, faults>>

-----------------------------------------------------------------------------
(* A queue runner                                                          *)

StartRunner(r) ==
  /\ pc[r] = "off"
  /\ pc' = [pc EXCEPT ![r] = "start"]
  /\ UNCHANGED <<file, lock, cur, seen, end, live, plays, faults>>

(* The runner process is gone, and with it its lock, if it held it.        *)
Gone(r) ==
  /\ pc' = [pc EXCEPT ![r] = "off"]
  /\ lock' = IF lock = r THEN Free ELSE lock
  /\ cur' = [cur EXCEPT ![r] = NoJob]
  /\ seen' = [seen EXCEPT ![r] = FALSE]
  /\ end' = [end EXCEPT ![r] = NoEnd]

TakeLock(r) ==
  /\ pc[r] = "start"
  /\ lock = Free
  /\ lock' = r
  /\ pc' = [pc EXCEPT ![r] = "poll"]
  /\ UNCHANGED <<file, cur, seen, end, live, plays, faults>>

(* Another runner owns the queue and this one's --wait is over (or it has  *)
(* none): QUEUE HOLD reason=queue-runner-busy, exit 75.                    *)
RunnerBusy(r) ==
  /\ pc[r] = "start"
  /\ lock # Free
  /\ Gone(r)
  /\ UNCHANGED <<file, live, plays, faults>>

(* No device, or one that is asleep or locked, until the deadline: 75.     *)
DeviceHold(r) ==
  /\ pc[r] = "poll"
  /\ Gone(r)
  /\ UNCHANGED <<file, live, plays, faults>>

(* Mutant: the window's queue child is started without --nights. *)
NightsNeverClaimable(r, j) == j \notin Nights

(* claim_next: first release what a killed runner left RUNNING, then take  *)
(* the first claimable job in file order, in the same write.               *)
Claimable(r, j) == j \in Nights => r \in Windows

ClaimNext(r) ==
  LET ready == {i \in DOMAIN queue : Released[queue[i]] = "PENDING" /\ Claimable(r, queue[i])}
  IN  /\ pc[r] = "poll"
      /\ \/ /\ ready = {}                                  (* QUEUE EMPTY, exit 0 *)
            /\ state' = Released
            /\ Gone(r)
            /\ UNCHANGED attempts
         \/ \E i \in ready :
              /\ \A k \in ready : i <= k
              /\ state' = [Released EXCEPT ![queue[i]] = "RUNNING"]
              /\ attempts' = [attempts EXCEPT ![queue[i]] = @ + 1]
              /\ cur' = [cur EXCEPT ![r] = queue[i]]
              /\ pc' = [pc EXCEPT ![r] = "claimed"]
              /\ UNCHANGED <<lock, seen, end>>
      /\ UNCHANGED <<queue, live, plays, faults>>

(* run_job: the signal handlers, then the job in this runner's group.      *)
Spawn(r) ==
  /\ pc[r] = "claimed"
  /\ live' = live \cup {[job |-> cur[r], try |-> attempts[cur[r]], playing |-> FALSE]}
  /\ pc' = [pc EXCEPT ![r] = "child"]
  /\ UNCHANGED <<file, lock, cur, seen, end, plays, faults>>

(* A signal to the runner while its job runs is recorded, never raised.    *)
Signal(r) ==
  /\ pc[r] = "child"
  /\ ~seen[r]
  /\ seen' = [seen EXCEPT ![r] = TRUE]
  /\ Fault
  /\ UNCHANGED <<file, lock, pc, cur, end, live, plays>>

(* SIGKILL at any point; a catchable signal anywhere run_job's handlers    *)
(* are not installed.  The job it started goes on without it.              *)
Die(r) ==
  /\ pc[r] # "off"
  /\ Fault
  /\ Gone(r)
  /\ UNCHANGED <<file, live, plays>>

(* The process a runner waits for. *)
Mine(r) == {c \in live : c.job = cur[r] /\ c.try = attempts[cur[r]]}

(* What a job process may end with.  night-job.py exits 75 only before its *)
(* runner starts, and its output carries whole logs, which may hold any    *)
(* line; a setup prints its hold line when it exits 75, and only then.     *)
EndsOf(c) ==
  {e \in Ends : /\ ~e.timeout
                /\ e.code = 75 => e.holdLine /\ ~c.playing
                /\ c.job \notin Nights => (e.holdLine => e.code = 75)}

JobEnds(r) ==
  /\ pc[r] = "child"
  /\ \E c \in Mine(r) :
       /\ \E e \in EndsOf(c) :
            /\ end' = [end EXCEPT ![r] = e]
            /\ IF e.code = 75 THEN Fault ELSE UNCHANGED faults
       /\ live' = live \ {c}
  /\ pc' = [pc EXCEPT ![r] = "ended"]
  /\ UNCHANGED <<file, lock, cur, seen, plays>>

(* The job outlives its ceiling: SIGINT, SIGTERM, SIGKILL to its tree.  A  *)
(* process can outlive even SIGKILL's grace; the runner stops waiting.     *)
JobTimesOut(r) ==
  /\ pc[r] = "child"
  /\ \/ live' = live \ Mine(r)
     \/ UNCHANGED live
  /\ end' = [end EXCEPT ![r] = [code |-> 1, holdLine |-> FALSE, timeout |-> TRUE]]
  /\ pc' = [pc EXCEPT ![r] = "ended"]
  /\ UNCHANGED <<file, lock, cur, seen, plays, faults>>

(* Mutant: any job holds by its output. *)
HeldByOutput(j, e) == e.holdLine

(* execute(): a hold is read in the output, but a night holds only by its  *)
(* own exit 75 -- a runner's log must never turn a played night back.      *)
Held(j, e) == e.holdLine /\ (j \in Nights => e.code = 75)

Verdict(j, e, interrupted) ==
  IF e.timeout THEN "FAILED"
  ELSE IF interrupted THEN Stale(j)
  ELSE IF Held(j, e) THEN "PENDING"
  ELSE IF e.code = 0 THEN "DONE" ELSE "FAILED"

(* finish(): written to whatever the file then says of the job.            *)
Finish(r) ==
  LET verdict == Verdict(cur[r], end[r], seen[r])
      goesOn  == \/ verdict = "DONE" /\ r \notin Windows
                 \/ verdict = "PENDING" /\ ~seen[r]        (* until its deadline *)
  IN  /\ pc[r] = "ended"
      /\ state' = [state EXCEPT ![cur[r]] = verdict]
      /\ \/ Gone(r)
         \/ /\ goesOn
            /\ pc' = [pc EXCEPT ![r] = "poll"]
            /\ cur' = [cur EXCEPT ![r] = NoJob]
            /\ end' = [end EXCEPT ![r] = NoEnd]
            /\ UNCHANGED <<lock, seen>>
      /\ UNCHANGED <<queue, attempts, live, plays, faults>>

-----------------------------------------------------------------------------
(* Job processes                                                           *)

(* A night job has observed the title and starts its runner on the phone.  *)
Play(c) ==
  /\ c \in live
  /\ c.job \in Nights
  /\ ~c.playing
  /\ live' = (live \ {c}) \cup {[c EXCEPT !.playing = TRUE]}
  /\ plays' = [plays EXCEPT ![c.job] = @ + 1]
  /\ UNCHANGED <<file, procs, faults>>

(* A job nobody waits for any more ends unread.                            *)
OrphanEnds(c) ==
  /\ c \in live
  /\ ~\E r \in Runners : pc[r] = "child" /\ c \in Mine(r)
  /\ live' = live \ {c}
  /\ UNCHANGED <<file, procs, plays, faults>>

-----------------------------------------------------------------------------
RunnerStep(r) ==
  \/ StartRunner(r) \/ TakeLock(r) \/ RunnerBusy(r) \/ DeviceHold(r) \/ ClaimNext(r)
  \/ Spawn(r) \/ Signal(r) \/ Die(r) \/ JobEnds(r) \/ JobTimesOut(r) \/ Finish(r)

Next ==
  \/ \E j \in Jobs : Enqueue(j)
  \/ \E retired \in SUBSET Jobs : Cancel(retired)
  \/ ReleaseRunning
  \/ \E r \in Runners : RunnerStep(r)
  \/ \E c \in live : Play(c) \/ OrphanEnds(c)

Spec == Init /\ [][Next]_vars

(* What the scheduling gives.  A started runner keeps running, and its job *)
(* ends by itself or at its ceiling (WF).  The timer opens a window every  *)
(* night; an agent's drain and a locked phone come and go, so some night   *)
(* finds no drain going on and some night finds the phone awake (SF).      *)
Fairness ==
  /\ \A r \in Runners : /\ WF_vars(Spawn(r))
                        /\ WF_vars(JobTimesOut(r))
                        /\ WF_vars(Finish(r))
                        /\ WF_vars(pc[r] = "poll" /\ (ClaimNext(r) \/ DeviceHold(r)))
  /\ \A w \in Windows : /\ SF_vars(lock = Free /\ StartRunner(w))
                        /\ SF_vars(TakeLock(w))
                        /\ SF_vars(ClaimNext(w))

FairSpec == Spec /\ Fairness

-----------------------------------------------------------------------------
(* What makes the queue correct                                            *)

(* A runner with a claimed job in hand holds the runner lock, and the file *)
(* still says RUNNING: finish() writes by id without reading the state, so *)
(* nothing else may have moved the job -- no cancel, no release, no other  *)
(* runner's stale sweep.                                                   *)
ClaimIsExclusive ==
  \A r \in Runners : pc[r] \in Busy => lock = r /\ state[cur[r]] = "RUNNING"

(* A retried enqueue never queues the work twice, even when the first has  *)
(* already run to its end.                                                 *)
OneJobPerKey ==
  \A i, j \in Jobs :
    state[i] # "ABSENT" /\ state[j] # "ABSENT" /\ KeyOf[i] = KeyOf[j] /\ KeyOf[i] # NoKey => i = j

(* A night's runner is started on the phone at most once, whatever becomes *)
(* of the runners, the signals and the processes in between.               *)
NightPlayedOnce == \A j \in Nights : plays[j] <= 1

(* A night waiting to be claimed has not been played, and no process of an *)
(* earlier claim is left that still could play it.                         *)
WaitingNightUntouched ==
  \A j \in Nights : state[j] = "PENDING" => plays[j] = 0 /\ \A c \in live : c.job # j

(* The queue implements the job ledger: jobs move only along the lifecycle,*)
(* ends are final, one job RUNNING, no way back for a played night.        *)
Ledger == INSTANCE JobLedger

LedgerSpec == Ledger!Spec

(* "A killed runner cannot leave a job permanently RUNNING" (claim_next).  *)
NeverStuckRunning == \A j \in Jobs : (state[j] = "RUNNING") ~> (state[j] # "RUNNING")

(* Every job left waiting is claimed in the end, whatever stands before it *)
(* in the file.                                                            *)
Served == \A j \in Jobs : (state[j] = "PENDING") ~> (state[j] \in Ended)

=============================================================================
