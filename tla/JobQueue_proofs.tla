--------------------------- MODULE JobQueue_proofs ---------------------------
(***************************************************************************)
(* Theorems about the Companion job queue, for every set of jobs, runners  *)
(* and every bound on faults: type correctness, that a claim is exclusive, *)
(* that a night is played at most once, and that the queue implements the  *)
(* job ledger.                                                             *)
(***************************************************************************)
EXTENDS JobQueue, TLAPS

(* Nothing alive is this job's; and nothing of it ever touched the phone.  *)
NoProcess(j) == \A c \in live : c.job # j
Untouched(j) == plays[j] = 0 /\ NoProcess(j)

(* The runner lock: whoever polls or has a claim in hand holds it.         *)
LockInv ==
  \A r \in Runners :
    /\ pc[r] \in Busy \cup {"poll"} => lock = r
    /\ pc[r] \in Busy => cur[r] \in Jobs /\ state[cur[r]] = "RUNNING"

OneRunning == \A i, j \in Jobs : state[i] = "RUNNING" /\ state[j] = "RUNNING" => i = j

(* The processes of a night: at most one, and one that is not yet playing  *)
(* means the night was never played.                                       *)
ProcessInv ==
  \A j \in Nights :
    /\ plays[j] <= 1
    /\ \A c \in live : c.job = j /\ ~c.playing => plays[j] = 0
    /\ \A c, d \in live : c.job = j /\ d.job = j => c = d

(* Where a night stands for a (re)claim -- waiting, claimed but not        *)
(* spawned, handed back by its own exit 75 -- it is untouched; where its   *)
(* process was read to its end, none is left.                              *)
ClaimInv ==
  /\ \A j \in Nights : /\ state[j] \in {"ABSENT", "PENDING"} => Untouched(j)
                       /\ state[j] \in {"DONE", "CANCELLED"} => NoProcess(j)
  /\ \A r \in Runners : cur[r] \in Nights =>
        /\ pc[r] = "claimed" => Untouched(cur[r])
        /\ pc[r] = "ended" /\ ~end[r].timeout => NoProcess(cur[r])
        /\ pc[r] = "ended" /\ end[r].code = 75 => Untouched(cur[r])

(* A timeout is recorded with a nonzero exit of its own. *)
EndInv == \A r \in Runners : end[r].timeout => end[r].code = 1

SetupInv == \A j \in Jobs : j \notin Nights => plays[j] = 0

QueueInv == TypeOK /\ LockInv /\ OneRunning /\ ProcessInv /\ ClaimInv /\ EndInv /\ SetupInv
-----------------------------------------------------------------------------
LEMMA InitQueueInv == Init => QueueInv
  BY QueueAssumption DEF Init, QueueInv, TypeOK, LockInv, OneRunning, ProcessInv, ClaimInv,
     EndInv, SetupInv, Untouched, NoProcess, States, Places, Busy, Ends, NoEnd

LEMMA EnqueueInv == ASSUME QueueInv, NEW j \in Jobs, Enqueue(j) PROVE QueueInv'
  <1>1. TypeOK'
    BY DEF Enqueue, QueueInv, TypeOK, States, procs
  <1>2. LockInv' /\ OneRunning'
    BY DEF Enqueue, QueueInv, TypeOK, LockInv, OneRunning, States, Busy, procs
  <1>3. ProcessInv' /\ SetupInv' /\ EndInv'
    BY DEF Enqueue, QueueInv, ProcessInv, SetupInv, EndInv, procs
  <1>4. ClaimInv'
    BY DEF Enqueue, QueueInv, TypeOK, ClaimInv, Untouched, NoProcess, procs
  <1> QED BY <1>1, <1>2, <1>3, <1>4 DEF QueueInv

LEMMA CancelInv == ASSUME QueueInv, NEW retired \in SUBSET Jobs, Cancel(retired) PROVE QueueInv'
  <1>1. TypeOK'
    BY DEF Cancel, QueueInv, TypeOK, States, procs
  <1>2. LockInv' /\ OneRunning'
    BY DEF Cancel, Cancellable, QueueInv, TypeOK, LockInv, OneRunning, States, Busy, procs
  <1>3. ProcessInv' /\ SetupInv' /\ EndInv'
    BY DEF Cancel, QueueInv, ProcessInv, SetupInv, EndInv, procs
  <1>4. ClaimInv'
    BY QueueAssumption DEF Cancel, Cancellable, QueueInv, TypeOK, ClaimInv, Untouched, NoProcess, procs
  <1> QED BY <1>1, <1>2, <1>3, <1>4 DEF QueueInv

(* What a release or a claim leaves of the file: no job RUNNING, and no    *)
(* night put back in line.                                                 *)
LEMMA ReleasedFacts ==
  ASSUME TypeOK
  PROVE  /\ Released \in [Jobs -> States]
         /\ \A j \in Jobs : Released[j] # "RUNNING"
         /\ \A j \in Nights : Released[j] # "FAILED" => state[j] = Released[j]
  BY QueueAssumption DEF TypeOK, Released, Stale, States

LEMMA ReleaseRunningInv == ASSUME QueueInv, ReleaseRunning PROVE QueueInv'
  <1>1. TypeOK'
    BY ReleasedFacts DEF ReleaseRunning, QueueInv, TypeOK, procs
  <1>2. LockInv' /\ OneRunning'
    BY ReleasedFacts, QueueAssumption
    DEF ReleaseRunning, ReleaseGuard, QueueInv, TypeOK, LockInv, OneRunning, procs
  <1>3. ProcessInv' /\ SetupInv' /\ EndInv'
    BY DEF ReleaseRunning, QueueInv, ProcessInv, SetupInv, EndInv, procs
  <1>4. ClaimInv'
    BY ReleasedFacts, QueueAssumption
    DEF ReleaseRunning, QueueInv, ClaimInv, Untouched, NoProcess, procs
  <1> QED BY <1>1, <1>2, <1>3, <1>4 DEF QueueInv

(* A runner that exits or dies leaves the rest of the invariant alone.     *)
LEMMA GoneInv ==
  ASSUME QueueInv, NEW r \in Runners, Gone(r), faults' \in 0..MaxFaults,
         UNCHANGED <<file, live, plays>>
  PROVE  QueueInv'
  <1>1. TypeOK'
    BY DEF Gone, QueueInv, TypeOK, Places, Ends, NoEnd, file
  <1>2. LockInv' /\ OneRunning'
    BY QueueAssumption DEF Gone, QueueInv, TypeOK, LockInv, OneRunning, Busy, file
  <1>3. ProcessInv' /\ SetupInv' /\ EndInv'
    BY DEF Gone, QueueInv, TypeOK, ProcessInv, SetupInv, EndInv, NoEnd
  <1>4. ClaimInv'
    BY DEF Gone, QueueInv, TypeOK, ClaimInv, Untouched, NoProcess, file
  <1> QED BY <1>1, <1>2, <1>3, <1>4 DEF QueueInv

LEMMA StartRunnerInv == ASSUME QueueInv, NEW r \in Runners, StartRunner(r) PROVE QueueInv'
  <1>1. TypeOK'
    BY DEF StartRunner, QueueInv, TypeOK, Places, file
  <1>2. LockInv' /\ OneRunning'
    BY DEF StartRunner, QueueInv, TypeOK, LockInv, OneRunning, Busy, file
  <1>3. ProcessInv' /\ SetupInv' /\ EndInv'
    BY DEF StartRunner, QueueInv, ProcessInv, SetupInv, EndInv
  <1>4. ClaimInv'
    BY DEF StartRunner, QueueInv, TypeOK, ClaimInv, Untouched, NoProcess, file
  <1> QED BY <1>1, <1>2, <1>3, <1>4 DEF QueueInv

LEMMA TakeLockInv == ASSUME QueueInv, NEW r \in Runners, TakeLock(r) PROVE QueueInv'
  <1>1. TypeOK'
    BY DEF TakeLock, QueueInv, TypeOK, Places, file
  <1>2. LockInv' /\ OneRunning'
    BY QueueAssumption DEF TakeLock, QueueInv, TypeOK, LockInv, OneRunning, Busy, file
  <1>3. ProcessInv' /\ SetupInv' /\ EndInv'
    BY DEF TakeLock, QueueInv, ProcessInv, SetupInv, EndInv
  <1>4. ClaimInv'
    BY DEF TakeLock, QueueInv, TypeOK, ClaimInv, Untouched, NoProcess, file
  <1> QED BY <1>1, <1>2, <1>3, <1>4 DEF QueueInv

LEMMA SignalInv == ASSUME QueueInv, NEW r \in Runners, Signal(r) PROVE QueueInv'
  <1>1. TypeOK'
    BY QueueAssumption DEF Signal, Fault, QueueInv, TypeOK, file
  <1>2. LockInv' /\ OneRunning'
    BY DEF Signal, QueueInv, LockInv, OneRunning, file
  <1>3. ProcessInv' /\ SetupInv' /\ EndInv'
    BY DEF Signal, QueueInv, ProcessInv, SetupInv, EndInv
  <1>4. ClaimInv'
    BY DEF Signal, QueueInv, ClaimInv, Untouched, NoProcess, file
  <1> QED BY <1>1, <1>2, <1>3, <1>4 DEF QueueInv

LEMMA SpawnInv == ASSUME QueueInv, NEW r \in Runners, Spawn(r) PROVE QueueInv'
  <1> DEFINE new == [job |-> cur[r], try |-> attempts[cur[r]], playing |-> FALSE]
  <1>1. /\ pc[r] = "claimed" /\ lock = r
        /\ cur[r] \in Jobs /\ state[cur[r]] = "RUNNING"
        /\ cur[r] \in Nights => Untouched(cur[r])
    BY DEF Spawn, QueueInv, LockInv, ClaimInv, Busy
  <1>2. /\ new \in Process /\ new.job = cur[r] /\ ~new.playing
        /\ live' = live \cup {new}
    BY <1>1 DEF Spawn, QueueInv, TypeOK, Process
  <1> HIDE DEF new
  <1>3. TypeOK'
    BY <1>2 DEF Spawn, QueueInv, TypeOK, Places, file
  <1>4. LockInv' /\ OneRunning'
    BY <1>1 DEF Spawn, QueueInv, TypeOK, LockInv, OneRunning, Busy, file
  <1>5. ProcessInv' /\ SetupInv' /\ EndInv'
    BY <1>1, <1>2 DEF Spawn, QueueInv, ProcessInv, SetupInv, EndInv, Untouched, NoProcess
  <1>6. ClaimInv'
    BY <1>1, <1>2 DEF Spawn, QueueInv, TypeOK, LockInv, ClaimInv, Untouched, NoProcess, Busy, file
  <1> QED BY <1>3, <1>4, <1>5, <1>6 DEF QueueInv

LEMMA ClaimNextInv == ASSUME QueueInv, NEW r \in Runners, ClaimNext(r) PROVE QueueInv'
  <1>1. /\ pc[r] = "poll" /\ lock = r
        /\ UNCHANGED <<queue, live, plays, faults>>
        /\ \A s \in Runners : pc[s] \in Busy \cup {"poll"} => s = r
    BY DEF ClaimNext, QueueInv, LockInv
  <1>2. CASE state' = Released /\ Gone(r) /\ UNCHANGED attempts
    <2>1. TypeOK'
      BY <1>1, <1>2, ReleasedFacts DEF Gone, QueueInv, TypeOK, Places, Ends, NoEnd
    <2>2. LockInv' /\ OneRunning'
      BY <1>1, <1>2, ReleasedFacts, QueueAssumption
      DEF Gone, QueueInv, TypeOK, LockInv, OneRunning, Busy
    <2>3. ProcessInv' /\ SetupInv' /\ EndInv'
      BY <1>1, <1>2 DEF Gone, QueueInv, TypeOK, ProcessInv, SetupInv, EndInv, NoEnd
    <2>4. ClaimInv'
      BY <1>1, <1>2, ReleasedFacts, QueueAssumption, ZenonT(40)
      DEF Gone, QueueInv, TypeOK, ClaimInv, Untouched, NoProcess
    <2> QED BY <2>1, <2>2, <2>3, <2>4 DEF QueueInv
  <1>3. ASSUME NEW j \in Jobs, Released[j] = "PENDING",
               state' = [Released EXCEPT ![j] = "RUNNING"],
               attempts' = [attempts EXCEPT ![j] = @ + 1],
               cur' = [cur EXCEPT ![r] = j],
               pc' = [pc EXCEPT ![r] = "claimed"],
               UNCHANGED <<lock, seen, end>>
        PROVE  QueueInv'
    <2>1. TypeOK'
      BY <1>1, <1>3, ReleasedFacts DEF QueueInv, TypeOK, States, Places
    <2>2. LockInv' /\ OneRunning'
      BY <1>1, <1>3, ReleasedFacts DEF QueueInv, TypeOK, LockInv, OneRunning, Busy
    <2>3. ProcessInv' /\ SetupInv' /\ EndInv'
      BY <1>1, <1>3 DEF QueueInv, ProcessInv, SetupInv, EndInv
    <2>4. j \in Nights => Untouched(j)
      BY <1>3, ReleasedFacts DEF QueueInv, ClaimInv
    <2>5. ClaimInv'
      BY <1>1, <1>3, <2>4, ReleasedFacts, QueueAssumption
      DEF QueueInv, TypeOK, ClaimInv, Untouched, NoProcess, Busy
    <2> QED BY <2>1, <2>2, <2>3, <2>5 DEF QueueInv
  <1>4. \A i \in DOMAIN queue : queue[i] \in Jobs
    BY DEF QueueInv, TypeOK
  <1> QED BY <1>2, <1>3, <1>4 DEF ClaimNext

LEMMA JobEndsInv == ASSUME QueueInv, NEW r \in Runners, JobEnds(r) PROVE QueueInv'
  <1>0. PICK c \in Mine(r) :
          /\ \E e \in EndsOf(c) : /\ end' = [end EXCEPT ![r] = e]
                                  /\ IF e.code = 75 THEN Fault ELSE UNCHANGED faults
          /\ live' = live \ {c}
    BY DEF JobEnds
  <1>1. PICK e \in EndsOf(c) : /\ end' = [end EXCEPT ![r] = e]
                               /\ IF e.code = 75 THEN Fault ELSE UNCHANGED faults
    BY <1>0
  <1>2. /\ pc[r] = "child" /\ pc' = [pc EXCEPT ![r] = "ended"]
        /\ UNCHANGED <<queue, state, attempts, lock, cur, seen, plays>>
        /\ c \in live /\ c \in Process /\ c.job = cur[r]
        /\ e \in Ends /\ ~e.timeout
        /\ live' = live \ {c} /\ faults' \in 0..MaxFaults
    BY <1>0, <1>1, QueueAssumption DEF JobEnds, Fault, Mine, EndsOf, QueueInv, TypeOK, file
  <1>3. TypeOK'
    BY <1>1, <1>2 DEF QueueInv, TypeOK, Places
  <1>4. LockInv' /\ OneRunning'
    BY <1>2 DEF QueueInv, TypeOK, LockInv, OneRunning, Busy
  <1>5. ProcessInv' /\ SetupInv' /\ EndInv'
    BY <1>1, <1>2 DEF QueueInv, TypeOK, ProcessInv, SetupInv, EndInv
  <1>6. cur[r] \in Nights => NoProcess(cur[r])' /\ (e.code = 75 => Untouched(cur[r])')
    <2>1. cur[r] \in Nights /\ e.code = 75 => ~c.playing
      BY <1>1, <1>2 DEF EndsOf
    <2> QED BY <1>2, <2>1 DEF QueueInv, ProcessInv, Untouched, NoProcess
  <1>7. ClaimInv'
    BY <1>1, <1>2, <1>6 DEF QueueInv, TypeOK, ClaimInv, Untouched, NoProcess
  <1> QED BY <1>3, <1>4, <1>5, <1>7 DEF QueueInv

LEMMA JobTimesOutInv == ASSUME QueueInv, NEW r \in Runners, JobTimesOut(r) PROVE QueueInv'
  <1> DEFINE e == [code |-> 1, holdLine |-> FALSE, timeout |-> TRUE]
  <1>1. /\ pc[r] = "child" /\ pc' = [pc EXCEPT ![r] = "ended"]
        /\ UNCHANGED <<queue, state, attempts, lock, cur, seen, plays, faults>>
        /\ live' \subseteq live
        /\ end' = [end EXCEPT ![r] = e] /\ e \in Ends /\ e.code = 1 /\ e.timeout
    BY DEF JobTimesOut, file, Ends
  <1> HIDE DEF e
  <1>2. TypeOK'
    BY <1>1 DEF QueueInv, TypeOK, Places
  <1>3. LockInv' /\ OneRunning'
    BY <1>1 DEF QueueInv, TypeOK, LockInv, OneRunning, Busy
  <1>4. ProcessInv' /\ SetupInv' /\ EndInv'
    BY <1>1 DEF QueueInv, TypeOK, ProcessInv, SetupInv, EndInv
  <1>5. ClaimInv'
    BY <1>1 DEF QueueInv, TypeOK, ClaimInv, Untouched, NoProcess
  <1> QED BY <1>2, <1>3, <1>4, <1>5 DEF QueueInv

(* The verdict hands a night back to PENDING only on its own exit 75.      *)
LEMMA VerdictFacts ==
  ASSUME NEW j \in Jobs, NEW e \in Ends, NEW i \in BOOLEAN
  PROVE  /\ Verdict(j, e, i) \in {"PENDING", "DONE", "FAILED"}
         /\ j \in Nights /\ Verdict(j, e, i) = "PENDING" => e.code = 75
         /\ j \in Nights /\ Verdict(j, e, i) = "DONE" => ~e.timeout
  BY DEF Verdict, Stale, Held

LEMMA FinishInv == ASSUME QueueInv, NEW r \in Runners, Finish(r) PROVE QueueInv'
  <1> DEFINE verdict == Verdict(cur[r], end[r], seen[r])
  <1>1. /\ pc[r] = "ended" /\ lock = r
        /\ cur[r] \in Jobs /\ state[cur[r]] = "RUNNING"
        /\ \A s \in Runners : pc[s] \in Busy => s = r
        /\ UNCHANGED <<queue, attempts, live, plays, faults>>
    BY DEF Finish, QueueInv, LockInv, Busy
  <1>2. /\ state' = [state EXCEPT ![cur[r]] = verdict]
        /\ verdict \in {"PENDING", "DONE", "FAILED"}
        /\ cur[r] \in Nights /\ verdict = "PENDING" => Untouched(cur[r])
        /\ cur[r] \in Nights /\ verdict = "DONE" => NoProcess(cur[r])
    BY <1>1, VerdictFacts DEF Finish, QueueInv, TypeOK, ClaimInv
  <1>3. /\ pc' = [pc EXCEPT ![r] = "off"] \/ (pc' = [pc EXCEPT ![r] = "poll"] /\ lock' = r)
        /\ lock' \in {lock, Free}
        /\ cur' = [cur EXCEPT ![r] = NoJob]
        /\ seen' \in [Runners -> BOOLEAN]
        /\ end' = [end EXCEPT ![r] = NoEnd]
    <2>1. CASE Gone(r)
      BY <1>1, <2>1 DEF Gone, QueueInv, TypeOK
    <2>2. CASE /\ pc' = [pc EXCEPT ![r] = "poll"]
               /\ cur' = [cur EXCEPT ![r] = NoJob]
               /\ end' = [end EXCEPT ![r] = NoEnd]
               /\ UNCHANGED <<lock, seen>>
      BY <1>1, <2>2 DEF QueueInv, TypeOK
    <2> QED BY <2>1, <2>2 DEF Finish
  <1> HIDE DEF verdict
  <1>4. TypeOK'
    BY <1>1, <1>2, <1>3 DEF QueueInv, TypeOK, States, Places, Ends, NoEnd
  <1>5. LockInv' /\ OneRunning'
    BY <1>1, <1>2, <1>3 DEF QueueInv, TypeOK, LockInv, OneRunning, Busy
  <1>6. ProcessInv' /\ SetupInv' /\ EndInv'
    BY <1>1, <1>3 DEF QueueInv, TypeOK, ProcessInv, SetupInv, EndInv, NoEnd
  <1>7. ClaimInv'
    BY <1>1, <1>2, <1>3, QueueAssumption DEF QueueInv, TypeOK, ClaimInv, Untouched, NoProcess, Busy
  <1> QED BY <1>4, <1>5, <1>6, <1>7 DEF QueueInv

LEMMA PlayInv == ASSUME QueueInv, NEW c \in live, Play(c) PROVE QueueInv'
  <1> DEFINE d == [c EXCEPT !.playing = TRUE]
  <1>1. /\ c \in Process /\ c.job \in Nights /\ c.job \in Jobs /\ ~c.playing
        /\ d \in Process /\ d.job = c.job /\ d.playing
        /\ live' = (live \ {c}) \cup {d}
        /\ plays' = [plays EXCEPT ![c.job] = @ + 1]
        /\ UNCHANGED <<file, procs, faults>>
    BY DEF Play, QueueInv, TypeOK, Process
  <1>2. plays[c.job] = 0 /\ \A x \in live : x.job = c.job => x = c
    BY <1>1 DEF QueueInv, ProcessInv
  <1> HIDE DEF d
  <1>3. TypeOK'
    BY <1>1 DEF QueueInv, TypeOK, file, procs
  <1>4. LockInv' /\ OneRunning'
    BY <1>1 DEF QueueInv, LockInv, OneRunning, file, procs
  <1>5. ProcessInv' /\ SetupInv' /\ EndInv'
    BY <1>1, <1>2, QueueAssumption DEF QueueInv, TypeOK, ProcessInv, SetupInv, EndInv, procs
  <1>6. ClaimInv'
    BY <1>1, QueueAssumption DEF QueueInv, TypeOK, ClaimInv, Untouched, NoProcess, file, procs
  <1> QED BY <1>3, <1>4, <1>5, <1>6 DEF QueueInv

LEMMA OrphanEndsInv == ASSUME QueueInv, NEW c \in live, OrphanEnds(c) PROVE QueueInv'
  BY DEF OrphanEnds, QueueInv, TypeOK, LockInv, OneRunning, ProcessInv, ClaimInv, SetupInv,
     EndInv, Untouched, NoProcess, file, procs

LEMMA StutterInv == ASSUME QueueInv, UNCHANGED vars PROVE QueueInv'
  BY DEF vars, QueueInv, TypeOK, LockInv, OneRunning, ProcessInv, ClaimInv, SetupInv, EndInv,
     Untouched, NoProcess

-----------------------------------------------------------------------------
LEMMA NextQueueInv == QueueInv /\ [Next]_vars => QueueInv'
  <1> SUFFICES ASSUME QueueInv, [Next]_vars PROVE QueueInv'
    OBVIOUS
  <1>1. ASSUME NEW r \in Runners, RunnerStep(r) PROVE QueueInv'
    <2>1. RunnerBusy(r) \/ DeviceHold(r) \/ Die(r) => QueueInv'
      <3> SUFFICES ASSUME RunnerBusy(r) \/ DeviceHold(r) \/ Die(r) PROVE QueueInv'
        OBVIOUS
      <3>1. Gone(r) /\ UNCHANGED <<file, live, plays>>
        BY DEF RunnerBusy, DeviceHold, Die
      <3>2. faults' \in 0..MaxFaults
        BY QueueAssumption DEF RunnerBusy, DeviceHold, Die, Fault, QueueInv, TypeOK
      <3> QED BY <3>1, <3>2, GoneInv
    <2> QED BY <1>1, <2>1, StartRunnerInv, TakeLockInv, ClaimNextInv, SpawnInv, SignalInv,
               JobEndsInv, JobTimesOutInv, FinishInv DEF RunnerStep
  <1> QED BY <1>1, EnqueueInv, CancelInv, ReleaseRunningInv, PlayInv, OrphanEndsInv, StutterInv
          DEF Next

LEMMA Inductive == Spec => []QueueInv
  BY InitQueueInv, NextQueueInv, PTL DEF Spec

(* Every reachable state is well typed: no state, place or end the code    *)
(* does not name.                                                          *)
THEOREM Typed == Spec => []TypeOK
  BY Inductive, PTL DEF QueueInv

(* execute() and finish() always write to a job that is theirs: the runner *)
(* holds the runner lock and the file says RUNNING.                        *)
THEOREM ClaimExclusive == Spec => []ClaimIsExclusive
  <1>1. QueueInv => ClaimIsExclusive
    BY DEF QueueInv, LockInv, ClaimIsExclusive
  <1> QED BY Inductive, <1>1, PTL

(* A night's runner is started at most once, for any number of runners,    *)
(* windows, kills and signals.                                             *)
THEOREM PlayedOnce == Spec => []NightPlayedOnce
  <1>1. QueueInv => NightPlayedOnce
    BY DEF QueueInv, ProcessInv, NightPlayedOnce
  <1> QED BY Inductive, <1>1, PTL

(* A PENDING night is untouched: never played, and nobody alive to play it.*)
THEOREM WaitingUntouched == Spec => []WaitingNightUntouched
  <1>1. QueueInv => WaitingNightUntouched
    BY QueueAssumption DEF QueueInv, ClaimInv, Untouched, NoProcess, WaitingNightUntouched
  <1> QED BY Inductive, <1>1, PTL

-----------------------------------------------------------------------------
(* Only Enqueue makes a job known, and only one with a key of its own.     *)
LEMMA NextOneJobPerKey == QueueInv /\ OneJobPerKey /\ [Next]_vars => OneJobPerKey'
  <1> SUFFICES ASSUME QueueInv, OneJobPerKey, [Next]_vars PROVE OneJobPerKey'
    OBVIOUS
  <1>1. ASSUME NEW j \in Jobs, Enqueue(j) PROVE OneJobPerKey'
    BY <1>1 DEF Enqueue, Known, OneJobPerKey, QueueInv, TypeOK
  <1>2. (\A j \in Jobs : state'[j] # "ABSENT" => state[j] # "ABSENT") => OneJobPerKey'
    BY DEF OneJobPerKey
  <1>3. ASSUME NEW retired \in SUBSET Jobs, Cancel(retired) PROVE OneJobPerKey'
    BY <1>2, <1>3 DEF Cancel, Cancellable, QueueInv, TypeOK
  <1>4. \A j \in Jobs : Released[j] # "ABSENT" => state[j] # "ABSENT"
    BY DEF Released
  <1>5. ASSUME ReleaseRunning PROVE OneJobPerKey'
    BY <1>2, <1>4, <1>5 DEF ReleaseRunning
  <1>6. ASSUME NEW r \in Runners, ClaimNext(r) PROVE OneJobPerKey'
    <2>1. \/ state' = Released
          \/ \E j \in Jobs : Released[j] = "PENDING" /\ state' = [Released EXCEPT ![j] = "RUNNING"]
      BY <1>6 DEF ClaimNext, QueueInv, TypeOK
    <2> QED BY <1>2, <1>4, <2>1, ReleasedFacts DEF QueueInv
  <1>7. ASSUME NEW r \in Runners, Finish(r) PROVE OneJobPerKey'
    <2>1. state[cur[r]] # "ABSENT" /\ \A j \in Jobs : j # cur[r] => state'[j] = state[j]
      BY <1>7 DEF Finish, QueueInv, TypeOK, LockInv, Busy
    <2> QED BY <1>2, <2>1
  <1>8. ASSUME UNCHANGED state PROVE OneJobPerKey'
    BY <1>2, <1>8
  <1>9. ASSUME NEW r \in Runners, RunnerStep(r) PROVE OneJobPerKey'
    BY <1>6, <1>7, <1>8, <1>9 DEF RunnerStep, StartRunner, TakeLock, RunnerBusy, DeviceHold,
       Spawn, Signal, Die, JobEnds, JobTimesOut, file
  <1> QED BY <1>1, <1>3, <1>5, <1>8, <1>9 DEF Next, Play, OrphanEnds, file, vars

(* A retried enqueue never queues the same work twice.                     *)
THEOREM OnePerKey == Spec => []OneJobPerKey
  <1>1. Init => OneJobPerKey
    BY DEF Init, OneJobPerKey
  <1> QED BY <1>1, Inductive, NextOneJobPerKey, PTL DEF Spec

-----------------------------------------------------------------------------
(* Refinement: every step of the queue is a Record of the ledger, a Play   *)
(* or a stutter.                                                           *)

(* One write of the file is one Record.                                    *)
LEMMA WriteIsRecord ==
  ASSUME QueueInv, QueueInv', UNCHANGED plays,
         \A j \in Jobs : state'[j] # state[j] =>
            /\ <<state[j], state'[j]>> \in Ledger!Lifecycle
            /\ <<state[j], state'[j]>> = <<"RUNNING", "PENDING">> => plays[j] = 0
  PROVE  Ledger!Record
  BY DEF QueueInv, OneRunning, Ledger!Record

LEMMA ReleaseMoves ==
  ASSUME QueueInv
  PROVE  \A j \in Jobs : Released[j] # state[j] =>
           /\ state[j] = "RUNNING" /\ Released[j] \in {"PENDING", "FAILED"}
           /\ Released[j] = "PENDING" => plays[j] = 0
  BY DEF QueueInv, TypeOK, SetupInv, Released, Stale

LEMMA RunnerStepRefines ==
  ASSUME QueueInv, QueueInv', NEW r \in Runners, RunnerStep(r)
  PROVE  Ledger!Record \/ UNCHANGED Ledger!ledger
  <1>1. CASE ClaimNext(r)
    <2>1. \/ state' = Released
          \/ \E j \in Jobs : Released[j] = "PENDING" /\ state' = [Released EXCEPT ![j] = "RUNNING"]
      BY <1>1 DEF ClaimNext, QueueInv, TypeOK
    <2> QED BY <1>1, <2>1, ReleaseMoves, ReleasedFacts, WriteIsRecord
            DEF ClaimNext, QueueInv, Ledger!Lifecycle
  <1>2. CASE Finish(r)
    <2> DEFINE verdict == Verdict(cur[r], end[r], seen[r])
    <2>1. /\ pc[r] = "ended" /\ cur[r] \in Jobs /\ state[cur[r]] = "RUNNING"
          /\ end[r] \in Ends /\ seen[r] \in BOOLEAN
          /\ state' = [state EXCEPT ![cur[r]] = verdict] /\ UNCHANGED plays
      BY <1>2 DEF Finish, QueueInv, TypeOK, LockInv, Busy
    <2>2. /\ verdict \in {"PENDING", "DONE", "FAILED"}
          /\ verdict = "PENDING" => plays[cur[r]] = 0
      BY <2>1, VerdictFacts DEF QueueInv, ClaimInv, SetupInv, Untouched, NoProcess
    <2> HIDE DEF verdict
    <2> QED BY <2>1, <2>2, WriteIsRecord DEF QueueInv, TypeOK, Ledger!Lifecycle
  <1>3. CASE ~ClaimNext(r) /\ ~Finish(r)
    BY <1>3 DEF RunnerStep, StartRunner, TakeLock, RunnerBusy, DeviceHold, Spawn, Signal, Die,
       JobEnds, JobTimesOut, file, Ledger!ledger
  <1> QED BY <1>1, <1>2, <1>3

LEMMA NextRefines ==
  ASSUME QueueInv, QueueInv', [Next]_vars
  PROVE  [Ledger!Next]_(Ledger!ledger)
  <1>1. ASSUME NEW j \in Jobs, Enqueue(j) PROVE Ledger!Record
    BY <1>1, WriteIsRecord DEF Enqueue, QueueInv, TypeOK, Ledger!Lifecycle
  <1>2. ASSUME NEW retired \in SUBSET Jobs, Cancel(retired) PROVE Ledger!Record
    BY <1>2, WriteIsRecord DEF Cancel, Cancellable, QueueInv, TypeOK, Ledger!Lifecycle
  <1>3. ASSUME ReleaseRunning PROVE Ledger!Record
    BY <1>3, ReleaseMoves, WriteIsRecord DEF ReleaseRunning, Ledger!Lifecycle
  <1>4. ASSUME NEW c \in live, Play(c) PROVE Ledger!Play(c.job)
    <2>1. c \in Process /\ c.job \in Jobs
      BY DEF QueueInv, TypeOK, Process
    <2>2. c.job \in Nights /\ plays[c.job] = 0
      BY <1>4 DEF Play, QueueInv, ProcessInv
    <2>3. state[c.job] \notin {"ABSENT", "PENDING", "DONE", "CANCELLED"}
      BY <2>2 DEF QueueInv, ClaimInv, Untouched, NoProcess
    <2>4. state[c.job] \in {"RUNNING", "FAILED"}
      BY <2>1, <2>3 DEF QueueInv, TypeOK, States
    <2> QED BY <1>4, <2>1, <2>2, <2>4 DEF Play, QueueInv, TypeOK, Ledger!Play, file
  <1>5. ASSUME NEW c \in live, OrphanEnds(c) PROVE UNCHANGED Ledger!ledger
    BY <1>5 DEF OrphanEnds, file, Ledger!ledger
  <1>6. ASSUME UNCHANGED vars PROVE UNCHANGED Ledger!ledger
    BY <1>6 DEF vars, Ledger!ledger
  <1>7. \A c \in live : c.job \in Jobs
    BY DEF QueueInv, TypeOK, Process
  <1> QED BY <1>1, <1>2, <1>3, <1>4, <1>5, <1>6, <1>7, RunnerStepRefines DEF Next, Ledger!Next

(* The queue implements the ledger: an end is final, one job is RUNNING,   *)
(* and a played night has no way back to PENDING.                          *)
THEOREM Refines == Spec => LedgerSpec
  <1>1. Init => Ledger!Init
    BY DEF Init, Ledger!Init
  <1> QED BY <1>1, Inductive, NextRefines, PTL DEF Spec, LedgerSpec, Ledger!Spec
=============================================================================
