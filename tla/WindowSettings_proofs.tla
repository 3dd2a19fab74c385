------------------------ MODULE WindowSettings_proofs ------------------------
(***************************************************************************)
(* Theorems about the settings a window changes, for any settings, windows *)
(* and restorers and any number of kills and failed calls: where zen_mode  *)
(* is as set_dnd left it when it returns (~DndSlow), no setting of the     *)
(* owner is ever lost, and the windows implement the settings escrow.      *)
(***************************************************************************)
EXTENDS WindowSettings, TLAPS

(* The phone may differ from what its owner set only where a restore of    *)
(* this record would write.                                                *)
SafeUnder(record) ==
  \A s \in Settings : phone[s] # owner[s] => s \in Written(record) /\ record[s] = owner[s]

(* A record holds the owner's settings, a DND of his own excepted; with no *)
(* record the phone is as he left it.                                      *)
RecordInv ==
  /\ flight = NoFlight
  /\ pending = NoRecord => phone = owner
  /\ pending # NoRecord =>
       /\ SafeUnder(pending)
       /\ \A s \in Written(pending) : pending[s] = owner[s]

(* Who is past the lease and not yet done with it holds it.                *)
LeaseInv == \A p \in Procs : pc[p] \notin Unleased => lease = p

Past(p) == {Recorded[i] : i \in 1..(at[p] - 1)}   (* settings a pass is done with *)

(* What a process is about to rely on. *)
ProcessInv ==
  \A p \in Procs :
    /\ pc[p] = "preflight" => pending = NoRecord
    /\ pc[p] = "record" => pending = NoRecord /\ prior[p] = phone
    /\ pc[p] \in {"apply", "dnd", "dndWait", "jobs", "recover", "restore", "recovered", "restored"} =>
         pending # NoRecord /\ prior[p] = pending
    /\ pc[p] \in {"dnd", "dndWait"} => pending[Dnd] = DndOff
    /\ pc[p] \in {"recover", "restore"} /\ missed[p] = "no" =>
         \A s \in Past(p) \cap Written(pending) : phone[s] = pending[s]
    /\ pc[p] \in {"recovered", "restored"} =>
         \A s \in Written(pending) : phone[s] = pending[s]
    /\ pc[p] \notin {"recover", "restore", "apply"} => at[p] = 1 /\ missed[p] = "no"
    /\ pc[p] = "apply" => missed[p] = "no"

SettingsInv == TypeOK /\ RecordInv /\ LeaseInv /\ ProcessInv
-----------------------------------------------------------------------------
LEMMA InitSettingsInv == Init => SettingsInv
  BY SettingsAssumption
  DEF Init, SettingsInv, TypeOK, RecordInv, LeaseInv, ProcessInv, SafeUnder, Places, Unleased, Past

(* Recovering moves a process on, to a value each of its variables can     *)
(* hold.                                                                   *)
LEMMA RecoverTyped ==
  ASSUME TypeOK, NEW p \in Procs, Recover(p)
  PROVE  /\ pc' \in [Procs -> Places]
         /\ prior' \in [Procs -> [Settings -> Values] \cup {NoRecord}]
         /\ unverified' \in [Procs -> BOOLEAN]
         /\ faults' \in 0..MaxFaults
  <1>1. CASE prior' = [prior EXCEPT ![p] = pending] /\ Goto(p, "recover") /\ UNCHANGED <<unverified, faults>>
    BY <1>1 DEF TypeOK, Places, Goto
  <1>2. CASE /\ UNCHANGED faults \/ Fault
             /\ Goto(p, "release")
             /\ unverified' = [unverified EXCEPT ![p] = TRUE]
             /\ UNCHANGED prior
    BY <1>2, SettingsAssumption DEF TypeOK, Places, Goto, Fault
  <1> QED BY <1>1, <1>2 DEF Recover

(* A write, or its loss, keeps the phone typed. *)
LEMMA WriteTyped ==
  ASSUME ~DndSlow, TypeOK, NEW s \in Settings, NEW v \in Values,
         Lands(s, v) \/ UNCHANGED <<phone, flight>>
  PROVE  phone' \in [Settings -> Values] /\ flight' \in Values \cup {NoFlight}
  BY DEF Lands, TypeOK

LEMMA OwnerSetsInv == ASSUME ~DndSlow, SettingsInv, NEW s \in Settings, NEW v \in Values, OwnerSets(s, v)
                      PROVE  SettingsInv'
  <1>1. /\ phone' = [phone EXCEPT ![s] = v] /\ owner' = [owner EXCEPT ![s] = v]
        /\ UNCHANGED <<flight, pending, lease, pc, prior, at, missed, unverified, exit, faults>>
        /\ \/ lease = Free /\ pending = NoRecord
           \/ pending # NoRecord /\ s = Dnd /\ s \notin Written(pending)
    BY DEF OwnerSets, Memory, Written
  <1>2. TypeOK'
    BY <1>1 DEF SettingsInv, TypeOK
  <1>3. \A t \in Settings : /\ t # s => phone'[t] = phone[t] /\ owner'[t] = owner[t]
                            /\ phone'[s] = owner'[s]
    BY <1>1 DEF SettingsInv, TypeOK
  <1>4. RecordInv'
    BY <1>1, <1>3 DEF SettingsInv, RecordInv, SafeUnder, Written
  <1>5. LeaseInv'
    BY <1>1 DEF SettingsInv, LeaseInv
  <1>6. ProcessInv'
    <2>1. CASE lease = Free
      <3>1. \A p \in Procs : pc[p] \in Unleased
        BY <2>1, SettingsAssumption DEF SettingsInv, LeaseInv
      <3> QED BY <1>1, <3>1 DEF SettingsInv, ProcessInv, Unleased
    <2>2. CASE pending # NoRecord /\ s \notin Written(pending)
      BY <1>1, <1>3, <2>2 DEF SettingsInv, ProcessInv, Past, Written
    <2> QED BY <1>1, <2>1, <2>2
  <1> QED BY <1>2, <1>4, <1>5, <1>6 DEF SettingsInv

LEMMA DriftInv == ASSUME ~DndSlow, SettingsInv, NEW s \in Settings, NEW v \in Values, Drift(s, v)
                  PROVE  SettingsInv'
  <1>1. PICK w \in Windows : pc[w] = "jobs"
    BY DEF Drift
  <1>2. /\ s # Dnd /\ phone' = [phone EXCEPT ![s] = v]
        /\ UNCHANGED <<flight, owner, pending, lease, pc, prior, at, missed, unverified, exit, faults>>
    BY DEF Drift, Memory
  <1>3. pending # NoRecord /\ lease = w /\ \A p \in Procs : p # w => pc[p] \in Unleased
    BY <1>1 DEF Procs, Unleased, SettingsInv, LeaseInv, ProcessInv
  <1>4. TypeOK'
    BY <1>2 DEF SettingsInv, TypeOK
  <1>5. s \in Written(pending) /\ pending[s] = owner[s]
    BY <1>2, <1>3 DEF SettingsInv, RecordInv, Written
  <1>6. \A t \in Settings : t # s => phone'[t] = phone[t]
    BY <1>2 DEF SettingsInv, TypeOK
  <1>7. RecordInv'
    BY <1>2, <1>3, <1>5, <1>6 DEF SettingsInv, RecordInv, SafeUnder, Written
  <1>8. LeaseInv'
    BY <1>2 DEF SettingsInv, LeaseInv
  <1>9. ProcessInv'
    BY <1>1, <1>2, <1>3 DEF SettingsInv, ProcessInv, Unleased
  <1> QED BY <1>4, <1>7, <1>8, <1>9 DEF SettingsInv

LEMMA OpenWindowInv == ASSUME ~DndSlow, SettingsInv, NEW w \in Windows, OpenWindow(w) PROVE SettingsInv'
  <1>1. TypeOK'
    BY SettingsAssumption DEF OpenWindow, Procs, Goto, First, Memory, device, SettingsInv, TypeOK, Places
  <1>2. RecordInv'
    BY SettingsAssumption DEF OpenWindow, Procs, Goto, First, Memory, device, SettingsInv, TypeOK, RecordInv, SafeUnder, Written
  <1>3. LeaseInv'
    BY SettingsAssumption DEF OpenWindow, Procs, Goto, First, Memory, device, SettingsInv, TypeOK, LeaseInv, Unleased
  <1>4. ProcessInv'
    BY SettingsAssumption DEF OpenWindow, Procs, Goto, First, Memory, device, SettingsInv, TypeOK, LeaseInv, ProcessInv, Past, Written, Unleased
  <1> QED BY <1>1, <1>2, <1>3, <1>4 DEF SettingsInv

LEMMA LeaseBusyInv == ASSUME ~DndSlow, SettingsInv, NEW w \in Windows, LeaseBusy(w) PROVE SettingsInv'
  <1>1. TypeOK'
    BY SettingsAssumption DEF LeaseBusy, Procs, Goto, First, Memory, device, SettingsInv, TypeOK, Places
  <1>2. RecordInv'
    BY SettingsAssumption DEF LeaseBusy, Procs, Goto, First, Memory, device, SettingsInv, TypeOK, RecordInv, SafeUnder, Written
  <1>3. LeaseInv'
    BY SettingsAssumption DEF LeaseBusy, Procs, Goto, First, Memory, device, SettingsInv, TypeOK, LeaseInv, Unleased
  <1>4. ProcessInv'
    BY SettingsAssumption DEF LeaseBusy, Procs, Goto, First, Memory, device, SettingsInv, TypeOK, LeaseInv, ProcessInv, Past, Written, Unleased
  <1> QED BY <1>1, <1>2, <1>3, <1>4 DEF SettingsInv

LEMMA TakeLeaseInv == ASSUME ~DndSlow, SettingsInv, NEW w \in Windows, TakeLease(w) PROVE SettingsInv'
  <1>1. TypeOK'
    <2>1. CASE Outstanding
      BY <2>1, RecoverTyped DEF TakeLease, SettingsInv, TypeOK, Procs, device
    <2>2. CASE ~Outstanding
      BY <2>2 DEF TakeLease, SettingsInv, TypeOK, Places, Procs, Goto, device
    <2> QED BY <2>1, <2>2
  <1>2. RecordInv'
    BY SettingsAssumption DEF TakeLease, Outstanding, Recover, Fault, Procs, RecordInv, Goto, First, Memory, device, SettingsInv, TypeOK, RecordInv, SafeUnder, Written
  <1>3. LeaseInv'
    BY SettingsAssumption DEF TakeLease, Outstanding, Recover, Fault, Procs, RecordInv, Goto, First, Memory, device, SettingsInv, TypeOK, LeaseInv, Unleased
  <1>4. ProcessInv'
    BY SettingsAssumption DEF TakeLease, Outstanding, Recover, Fault, Procs, RecordInv, Goto, First, Memory, device, SettingsInv, TypeOK, LeaseInv, ProcessInv, Past, Written, Unleased
  <1> QED BY <1>1, <1>2, <1>3, <1>4 DEF SettingsInv

LEMMA RefuseInv == ASSUME ~DndSlow, SettingsInv, NEW w \in Windows, Refuse(w) PROVE SettingsInv'
  <1>1. TypeOK'
    BY SettingsAssumption DEF Refuse, Procs, Goto, First, Memory, device, SettingsInv, TypeOK, Places
  <1>2. RecordInv'
    BY SettingsAssumption DEF Refuse, Procs, Goto, First, Memory, device, SettingsInv, TypeOK, RecordInv, SafeUnder, Written
  <1>3. LeaseInv'
    BY SettingsAssumption DEF Refuse, Procs, Goto, First, Memory, device, SettingsInv, TypeOK, LeaseInv, Unleased
  <1>4. ProcessInv'
    BY SettingsAssumption DEF Refuse, Procs, Goto, First, Memory, device, SettingsInv, TypeOK, LeaseInv, ProcessInv, Past, Written, Unleased
  <1> QED BY <1>1, <1>2, <1>3, <1>4 DEF SettingsInv

LEMMA ReadPriorInv == ASSUME ~DndSlow, SettingsInv, NEW w \in Windows, ReadPrior(w) PROVE SettingsInv'
  <1>1. TypeOK'
    BY SettingsAssumption DEF ReadPrior, Procs, Goto, First, Memory, device, SettingsInv, TypeOK, Places
  <1>2. RecordInv'
    BY SettingsAssumption DEF ReadPrior, Procs, Goto, First, Memory, device, SettingsInv, TypeOK, RecordInv, SafeUnder, Written
  <1>3. LeaseInv'
    BY SettingsAssumption DEF ReadPrior, Procs, Goto, First, Memory, device, SettingsInv, TypeOK, LeaseInv, Unleased
  <1>4. ProcessInv'
    BY SettingsAssumption DEF ReadPrior, Procs, Goto, First, Memory, device, SettingsInv, TypeOK, LeaseInv, ProcessInv, Past, Written, Unleased
  <1> QED BY <1>1, <1>2, <1>3, <1>4 DEF SettingsInv

LEMMA WriteAheadInv == ASSUME ~DndSlow, SettingsInv, NEW w \in Windows, WriteAhead(w) PROVE SettingsInv'
  <1>1. TypeOK'
    BY SettingsAssumption DEF WriteAhead, Procs, ProcessInv, Goto, First, Memory, device, SettingsInv, TypeOK, Places
  <1>2. RecordInv'
    BY SettingsAssumption DEF WriteAhead, Procs, ProcessInv, Goto, First, Memory, device, SettingsInv, TypeOK, RecordInv, SafeUnder, Written
  <1>3. LeaseInv'
    BY SettingsAssumption DEF WriteAhead, Procs, ProcessInv, Goto, First, Memory, device, SettingsInv, TypeOK, LeaseInv, Unleased
  <1>4. ProcessInv'
    <2>1. \A p \in Procs : p # w => pc[p] \in Unleased
      BY DEF WriteAhead, SettingsInv, LeaseInv, Unleased, Procs
    <2>2. prior[w] # NoRecord /\ at[w] = 1 /\ missed[w] = "no"
      BY SettingsAssumption DEF WriteAhead, SettingsInv, TypeOK, ProcessInv, Procs
    <2> QED BY <2>1, <2>2 DEF WriteAhead, SettingsInv, TypeOK, ProcessInv, Unleased, Procs, Goto, Memory, device
  <1> QED BY <1>1, <1>2, <1>3, <1>4 DEF SettingsInv

LEMMA ApplyInv == ASSUME ~DndSlow, SettingsInv, NEW w \in Windows, Apply(w) PROVE SettingsInv'
  <1>0. Quiet[at[w]] \in Settings \ {Dnd} /\ Ours[Quiet[at[w]]] \in Values
    BY SettingsAssumption DEF Apply
  <1>1. TypeOK'
    <2>1. phone' \in [Settings -> Values]
      BY <1>0 DEF Apply, SettingsInv, TypeOK
    <2>2. /\ pc' \in [Procs -> Places] /\ at' \in [Procs -> Nat \ {0}]
          /\ missed' \in [Procs -> {"no", "FAILED", "UNREACHABLE"}]
          /\ faults' \in 0..MaxFaults
      <3>1. w \in Procs
        BY DEF Procs
      <3>2. CASE at' = [at EXCEPT ![w] = @ + 1] /\ UNCHANGED <<pc, missed, faults>>
        BY <3>1, <3>2 DEF SettingsInv, TypeOK
      <3>3. CASE Goto(w, "restore") /\ First(w) /\ Fault
        BY <3>1, <3>3, SettingsAssumption DEF Goto, First, Fault, Places, SettingsInv, TypeOK
      <3> QED BY <3>2, <3>3 DEF Apply, Advance
    <2> QED BY <2>1, <2>2 DEF Apply, SettingsInv, TypeOK
  <1>2. RecordInv'
    BY SettingsAssumption DEF Apply, Advance, Fault, Procs, ProcessInv, Goto, First, Memory, device, SettingsInv, TypeOK, RecordInv, SafeUnder, Written
  <1>3. LeaseInv'
    BY SettingsAssumption DEF Apply, Advance, Fault, Procs, ProcessInv, Goto, First, Memory, device, SettingsInv, TypeOK, LeaseInv, Unleased
  <1>4. ProcessInv'
    <2>1. \A p \in Procs : p # w => pc[p] \in Unleased
      BY DEF Apply, SettingsInv, LeaseInv, Unleased, Procs
    <2>2. w \in Procs /\ pc[w] = "apply" /\ pending # NoRecord /\ prior[w] = pending /\ missed[w] = "no"
      BY DEF Apply, SettingsInv, ProcessInv, Procs
    <2>3. UNCHANGED <<pending, prior>>
      BY DEF Apply
    <2>4. \/ at' = [at EXCEPT ![w] = @ + 1] /\ UNCHANGED <<pc, missed>>
          \/ Goto(w, "restore") /\ First(w)
      BY DEF Apply, Advance
    <2>5. \A p \in Procs : p # w => pc'[p] = pc[p] /\ at'[p] = at[p] /\ missed'[p] = missed[p]
      BY <2>4 DEF SettingsInv, TypeOK, Goto, First
    <2>6. CASE at' = [at EXCEPT ![w] = @ + 1] /\ UNCHANGED <<pc, missed>>
      BY <2>1, <2>2, <2>3, <2>5, <2>6 DEF SettingsInv, ProcessInv, Unleased
    <2>7. CASE Goto(w, "restore") /\ First(w)
      <3>1. pc'[w] = "restore" /\ at'[w] = 1 /\ Past(w)' = {}
        BY <2>2, <2>7 DEF SettingsInv, TypeOK, Goto, First, Past
      <3> QED BY <2>1, <2>2, <2>3, <2>5, <3>1 DEF SettingsInv, ProcessInv, Unleased
    <2> QED BY <2>4, <2>6, <2>7
  <1> QED BY <1>1, <1>2, <1>3, <1>4 DEF SettingsInv

LEMMA AppliedInv == ASSUME ~DndSlow, SettingsInv, NEW w \in Windows, Applied(w) PROVE SettingsInv'
  <1>1. TypeOK'
    BY SettingsAssumption DEF Applied, Procs, ProcessInv, Goto, First, Memory, device, SettingsInv, TypeOK, Places
  <1>2. RecordInv'
    BY SettingsAssumption DEF Applied, Procs, ProcessInv, Goto, First, Memory, device, SettingsInv, TypeOK, RecordInv, SafeUnder, Written
  <1>3. LeaseInv'
    BY SettingsAssumption DEF Applied, Procs, ProcessInv, Goto, First, Memory, device, SettingsInv, TypeOK, LeaseInv, Unleased
  <1>4. ProcessInv'
    BY SettingsAssumption DEF Applied, Procs, ProcessInv, Goto, First, Memory, device, SettingsInv, TypeOK, LeaseInv, ProcessInv, Past, Written, Unleased
  <1> QED BY <1>1, <1>2, <1>3, <1>4 DEF SettingsInv

LEMMA SetDndInv == ASSUME ~DndSlow, SettingsInv, NEW w \in Windows, SetDnd(w) PROVE SettingsInv'
  <1>1. TypeOK'
    <2>1. phone' \in [Settings -> Values] /\ flight' \in Values \cup {NoFlight}
      BY WriteTyped, SettingsAssumption DEF SetDnd, Lost, SettingsInv
    <2>2. faults' \in 0..MaxFaults
      BY SettingsAssumption DEF SetDnd, Lost, Fault, SettingsInv, TypeOK
    <2> QED BY <2>1, <2>2 DEF SetDnd, Procs, SettingsInv, TypeOK, Places, Goto, Memory
  <1>2. RecordInv'
    BY SettingsAssumption DEF SetDnd, Lands, Lost, Fault, Procs, ProcessInv, Goto, First, Memory, device, SettingsInv, TypeOK, RecordInv, SafeUnder, Written
  <1>3. LeaseInv'
    BY SettingsAssumption DEF SetDnd, Lands, Lost, Fault, Procs, ProcessInv, Goto, First, Memory, device, SettingsInv, TypeOK, LeaseInv, Unleased
  <1>4. ProcessInv'
    BY SettingsAssumption DEF SetDnd, Lands, Lost, Fault, Procs, ProcessInv, Goto, First, Memory, device, SettingsInv, TypeOK, LeaseInv, ProcessInv, Past, Written, Unleased
  <1> QED BY <1>1, <1>2, <1>3, <1>4 DEF SettingsInv

LEMMA DndAnswersInv == ASSUME ~DndSlow, SettingsInv, NEW w \in Windows, DndAnswers(w) PROVE SettingsInv'
  <1>1. TypeOK'
    BY SettingsAssumption DEF DndAnswers, Procs, Goto, First, Memory, device, SettingsInv, TypeOK, Places
  <1>2. RecordInv'
    BY SettingsAssumption DEF DndAnswers, Procs, Goto, First, Memory, device, SettingsInv, TypeOK, RecordInv, SafeUnder, Written
  <1>3. LeaseInv'
    BY SettingsAssumption DEF DndAnswers, Procs, Goto, First, Memory, device, SettingsInv, TypeOK, LeaseInv, Unleased
  <1>4. ProcessInv'
    BY SettingsAssumption DEF DndAnswers, Procs, Goto, First, Memory, device, SettingsInv, TypeOK, LeaseInv, ProcessInv, Past, Written, Unleased
  <1> QED BY <1>1, <1>2, <1>3, <1>4 DEF SettingsInv

LEMMA EndJobsInv == ASSUME ~DndSlow, SettingsInv, NEW w \in Windows, EndJobs(w) PROVE SettingsInv'
  <1>1. TypeOK'
    BY SettingsAssumption DEF EndJobs, Procs, Goto, First, Memory, device, SettingsInv, TypeOK, Places
  <1>2. RecordInv'
    BY SettingsAssumption DEF EndJobs, Procs, Goto, First, Memory, device, SettingsInv, TypeOK, RecordInv, SafeUnder, Written
  <1>3. LeaseInv'
    BY SettingsAssumption DEF EndJobs, Procs, Goto, First, Memory, device, SettingsInv, TypeOK, LeaseInv, Unleased
  <1>4. ProcessInv'
    BY SettingsAssumption DEF EndJobs, Procs, Goto, First, Memory, device, SettingsInv, TypeOK, LeaseInv, ProcessInv, Past, Written, Unleased
  <1> QED BY <1>1, <1>2, <1>3, <1>4 DEF SettingsInv

LEMMA FindRecordInv == ASSUME ~DndSlow, SettingsInv, NEW x \in Restorers, FindRecord(x) PROVE SettingsInv'
  <1>1. TypeOK'
    BY SettingsAssumption DEF FindRecord, Procs, Goto, First, Memory, device, SettingsInv, TypeOK, Places
  <1>2. RecordInv'
    BY SettingsAssumption DEF FindRecord, Procs, Goto, First, Memory, device, SettingsInv, TypeOK, RecordInv, SafeUnder, Written
  <1>3. LeaseInv'
    BY SettingsAssumption DEF FindRecord, Procs, Goto, First, Memory, device, SettingsInv, TypeOK, LeaseInv, Unleased
  <1>4. ProcessInv'
    BY SettingsAssumption DEF FindRecord, Procs, Goto, First, Memory, device, SettingsInv, TypeOK, LeaseInv, ProcessInv, Past, Written, Unleased
  <1> QED BY <1>1, <1>2, <1>3, <1>4 DEF SettingsInv

LEMMA RestoreHoldInv == ASSUME ~DndSlow, SettingsInv, NEW x \in Restorers, RestoreHold(x) PROVE SettingsInv'
  <1>1. TypeOK'
    BY SettingsAssumption DEF RestoreHold, Procs, Goto, First, Memory, device, SettingsInv, TypeOK, Places
  <1>2. RecordInv'
    BY SettingsAssumption DEF RestoreHold, Procs, Goto, First, Memory, device, SettingsInv, TypeOK, RecordInv, SafeUnder, Written
  <1>3. LeaseInv'
    BY SettingsAssumption DEF RestoreHold, Procs, Goto, First, Memory, device, SettingsInv, TypeOK, LeaseInv, Unleased
  <1>4. ProcessInv'
    BY SettingsAssumption DEF RestoreHold, Procs, Goto, First, Memory, device, SettingsInv, TypeOK, LeaseInv, ProcessInv, Past, Written, Unleased
  <1> QED BY <1>1, <1>2, <1>3, <1>4 DEF SettingsInv

LEMMA RestoreLeasedInv == ASSUME ~DndSlow, SettingsInv, NEW x \in Restorers, RestoreLeased(x) PROVE SettingsInv'
  <1>1. TypeOK'
    BY RecoverTyped DEF RestoreLeased, SettingsInv, TypeOK, Procs, device
  <1>2. RecordInv'
    BY SettingsAssumption DEF RestoreLeased, Recover, Fault, Procs, RecordInv, Goto, First, Memory, device, SettingsInv, TypeOK, RecordInv, SafeUnder, Written
  <1>3. LeaseInv'
    BY SettingsAssumption DEF RestoreLeased, Recover, Fault, Procs, RecordInv, Goto, First, Memory, device, SettingsInv, TypeOK, LeaseInv, Unleased
  <1>4. ProcessInv'
    BY SettingsAssumption DEF RestoreLeased, Recover, Fault, Procs, RecordInv, Goto, First, Memory, device, SettingsInv, TypeOK, LeaseInv, ProcessInv, Past, Written, Unleased
  <1> QED BY <1>1, <1>2, <1>3, <1>4 DEF SettingsInv

LEMMA SettingRestoredInv == ASSUME ~DndSlow, SettingsInv, NEW p \in Procs, SettingRestored(p) PROVE SettingsInv'
  <1>1. TypeOK'
    BY SettingsAssumption DEF SettingRestored, Restoring, Advance, Goto, First, Memory, device, SettingsInv, TypeOK, Places
  <1>2. RecordInv'
    BY SettingsAssumption DEF SettingRestored, Restoring, Advance, Goto, First, Memory, device, SettingsInv, TypeOK, RecordInv, SafeUnder, Written
  <1>3. LeaseInv'
    BY SettingsAssumption DEF SettingRestored, Restoring, Advance, Goto, First, Memory, device, SettingsInv, TypeOK, LeaseInv, Unleased
  <1>4. ProcessInv'
    BY SettingsAssumption DEF SettingRestored, Restoring, Advance, Goto, First, Memory, device, SettingsInv, TypeOK, LeaseInv, ProcessInv, Past, Written, Unleased
  <1> QED BY <1>1, <1>2, <1>3, <1>4 DEF SettingsInv

LEMMA SettingWrittenInv == ASSUME ~DndSlow, SettingsInv, NEW p \in Procs, SettingWritten(p) PROVE SettingsInv'
  <1>0. Recorded[at[p]] \in Settings /\ prior[p][Recorded[at[p]]] \in Values
    BY DEF SettingWritten, Restoring, SettingsInv, TypeOK, ProcessInv, Settings
  <1>1. TypeOK'
    BY <1>0, WriteTyped, SettingsAssumption DEF SettingWritten, Lost, Fault, SettingsInv, TypeOK, Memory
  <1>2. RecordInv'
    BY SettingsAssumption DEF SettingWritten, Restoring, Lands, Lost, Fault, ProcessInv, Goto, First, Memory, device, SettingsInv, TypeOK, RecordInv, SafeUnder, Written
  <1>3. LeaseInv'
    BY SettingsAssumption DEF SettingWritten, Restoring, Lands, Lost, Fault, ProcessInv, Goto, First, Memory, device, SettingsInv, TypeOK, LeaseInv, Unleased
  <1>4. ProcessInv'
    BY SettingsAssumption DEF SettingWritten, Restoring, Lands, Lost, Fault, ProcessInv, Goto, First, Memory, device, SettingsInv, TypeOK, LeaseInv, ProcessInv, Past, Written, Unleased
  <1> QED BY <1>1, <1>2, <1>3, <1>4 DEF SettingsInv

LEMMA SettingMissedInv == ASSUME ~DndSlow, SettingsInv, NEW p \in Procs, SettingMissed(p) PROVE SettingsInv'
  <1>0. Recorded[at[p]] \in Settings /\ prior[p][Recorded[at[p]]] \in Values
    BY DEF SettingMissed, Restoring, SettingsInv, TypeOK, ProcessInv, Settings
  <1>1. TypeOK'
    <2>1. phone' \in [Settings -> Values] /\ flight' \in Values \cup {NoFlight}
      BY <1>0, WriteTyped DEF SettingMissed, SettingsInv
    <2>2. missed' \in [Procs -> {"no", "FAILED", "UNREACHABLE"}]
      BY DEF SettingMissed, SettingsInv, TypeOK
    <2> QED BY <2>1, <2>2, SettingsAssumption DEF SettingMissed, Advance, Fault, SettingsInv, TypeOK
  <1>2. RecordInv'
    BY SettingsAssumption DEF SettingMissed, Restoring, Advance, Lands, Lost, Fault, ProcessInv, Goto, First, Memory, device, SettingsInv, TypeOK, RecordInv, SafeUnder, Written
  <1>3. LeaseInv'
    BY SettingsAssumption DEF SettingMissed, Restoring, Advance, Lands, Lost, Fault, ProcessInv, Goto, First, Memory, device, SettingsInv, TypeOK, LeaseInv, Unleased
  <1>4. ProcessInv'
    BY SettingsAssumption DEF SettingMissed, Restoring, Advance, Lands, Lost, Fault, ProcessInv, Goto, First, Memory, device, SettingsInv, TypeOK, LeaseInv, ProcessInv, Past, Written, Unleased
  <1> QED BY <1>1, <1>2, <1>3, <1>4 DEF SettingsInv

LEMMA PassEndsInv == ASSUME ~DndSlow, SettingsInv, NEW p \in Procs, PassEnds(p) PROVE SettingsInv'
  <1>1. TypeOK'
    <2>1. /\ at' \in [Procs -> Nat \ {0}]
          /\ missed' \in [Procs -> {"no", "FAILED", "UNREACHABLE"}]
      <3>1. First(p)
        BY DEF PassEnds
      <3> QED BY <3>1 DEF First, SettingsInv, TypeOK
    <2>2. pc' \in [Procs -> Places] /\ unverified' \in [Procs -> BOOLEAN] /\ UNCHANGED prior
      BY DEF PassEnds, Goto, SettingsInv, TypeOK, Places
    <2> QED BY <2>1, <2>2 DEF PassEnds, SettingsInv, TypeOK, device
  <1>2. RecordInv'
    BY SettingsAssumption DEF PassEnds, Verified, Goto, First, Memory, device, SettingsInv, TypeOK, RecordInv, SafeUnder, Written
  <1>3. LeaseInv'
    BY SettingsAssumption DEF PassEnds, Verified, Goto, First, Memory, device, SettingsInv, TypeOK, LeaseInv, Unleased
  <1>4. ProcessInv'
    <2>1. \A q \in Procs : q # p => pc[q] \in Unleased
      BY DEF PassEnds, SettingsInv, LeaseInv, Unleased
    <2>2. pending # NoRecord /\ prior[p] = pending /\ UNCHANGED <<phone, pending, prior>>
      BY DEF PassEnds, SettingsInv, ProcessInv, device
    <2>3. \A q \in Procs : q # p => pc'[q] = pc[q] /\ at'[q] = at[q] /\ missed'[q] = missed[q]
      BY DEF PassEnds, SettingsInv, TypeOK, Goto, First
    <2>4. at'[p] = 1 /\ missed'[p] = "no" /\ Past(p)' = {}
      BY DEF PassEnds, SettingsInv, TypeOK, First, Past
    <2>5. pc'[p] \in {"recovered", "restored"} => missed[p] = "no"
      BY DEF PassEnds, SettingsInv, TypeOK, Goto, Verified
    <2>6. missed[p] = "no" => \A s \in Written(pending) : phone[s] = pending[s]
      <3>1. Settings \subseteq Past(p)
        BY SettingsAssumption DEF PassEnds, SettingsInv, TypeOK, Past, Settings
      <3> QED BY <3>1 DEF PassEnds, SettingsInv, ProcessInv, Written
    <2>7. pc'[p] \in {"recover", "restore", "recovered", "restored", "release"}
      BY DEF PassEnds, SettingsInv, TypeOK, Goto
    <2> QED BY <2>1, <2>2, <2>3, <2>4, <2>5, <2>6, <2>7 DEF SettingsInv, ProcessInv, Unleased, Written
  <1> QED BY <1>1, <1>2, <1>3, <1>4 DEF SettingsInv

LEMMA UnlinkInv == ASSUME ~DndSlow, SettingsInv, NEW p \in Procs, Unlink(p) PROVE SettingsInv'
  <1>1. TypeOK'
    BY SettingsAssumption DEF Unlink, ProcessInv, RecordInv, Goto, First, Memory, device, SettingsInv, TypeOK, Places
  <1>2. RecordInv'
    BY SettingsAssumption DEF Unlink, ProcessInv, RecordInv, Goto, First, Memory, device, SettingsInv, TypeOK, RecordInv, SafeUnder, Written
  <1>3. LeaseInv'
    BY SettingsAssumption DEF Unlink, ProcessInv, RecordInv, Goto, First, Memory, device, SettingsInv, TypeOK, LeaseInv, Unleased
  <1>4. ProcessInv'
    BY SettingsAssumption, ZenonT(40) DEF Unlink, ProcessInv, RecordInv, Goto, First, Memory, device, SettingsInv, TypeOK, LeaseInv, ProcessInv, Past, Written, Unleased
  <1> QED BY <1>1, <1>2, <1>3, <1>4 DEF SettingsInv

LEMMA ReleaseLeaseInv == ASSUME ~DndSlow, SettingsInv, NEW p \in Procs, ReleaseLease(p) PROVE SettingsInv'
  <1>1. TypeOK'
    BY SettingsAssumption DEF ReleaseLease, Goto, First, Memory, device, SettingsInv, TypeOK, Places
  <1>2. RecordInv'
    BY SettingsAssumption DEF ReleaseLease, Goto, First, Memory, device, SettingsInv, TypeOK, RecordInv, SafeUnder, Written
  <1>3. LeaseInv'
    BY SettingsAssumption DEF ReleaseLease, Goto, First, Memory, device, SettingsInv, TypeOK, LeaseInv, Unleased
  <1>4. ProcessInv'
    BY SettingsAssumption DEF ReleaseLease, Goto, First, Memory, device, SettingsInv, TypeOK, LeaseInv, ProcessInv, Past, Written, Unleased
  <1> QED BY <1>1, <1>2, <1>3, <1>4 DEF SettingsInv

LEMMA ExitInv == ASSUME ~DndSlow, SettingsInv, NEW p \in Procs, Exit(p) PROVE SettingsInv'
  <1>1. TypeOK'
    BY SettingsAssumption DEF Exit, Code, Goto, First, Memory, device, SettingsInv, TypeOK, Places
  <1>2. RecordInv'
    BY SettingsAssumption DEF Exit, Code, Goto, First, Memory, device, SettingsInv, TypeOK, RecordInv, SafeUnder, Written
  <1>3. LeaseInv'
    BY SettingsAssumption DEF Exit, Code, Goto, First, Memory, device, SettingsInv, TypeOK, LeaseInv, Unleased
  <1>4. ProcessInv'
    BY SettingsAssumption DEF Exit, Code, Goto, First, Memory, device, SettingsInv, TypeOK, LeaseInv, ProcessInv, Past, Written, Unleased
  <1> QED BY <1>1, <1>2, <1>3, <1>4 DEF SettingsInv

LEMMA DieInv == ASSUME ~DndSlow, SettingsInv, NEW p \in Procs, Die(p) PROVE SettingsInv'
  <1>1. TypeOK'
    BY SettingsAssumption DEF Die, Fault, Goto, First, Memory, device, SettingsInv, TypeOK, Places
  <1>2. RecordInv'
    BY SettingsAssumption DEF Die, Fault, Goto, First, Memory, device, SettingsInv, TypeOK, RecordInv, SafeUnder, Written
  <1>3. LeaseInv'
    BY SettingsAssumption DEF Die, Fault, Goto, First, Memory, device, SettingsInv, TypeOK, LeaseInv, Unleased
  <1>4. ProcessInv'
    BY SettingsAssumption DEF Die, Fault, Goto, First, Memory, device, SettingsInv, TypeOK, LeaseInv, ProcessInv, Past, Written, Unleased
  <1> QED BY <1>1, <1>2, <1>3, <1>4 DEF SettingsInv

LEMMA StutterInv == ASSUME SettingsInv, UNCHANGED vars PROVE SettingsInv'
  BY DEF vars, SettingsInv, TypeOK, RecordInv, LeaseInv, ProcessInv, SafeUnder, Written, Past

-----------------------------------------------------------------------------
LEMMA NextSettingsInv == ASSUME ~DndSlow, SettingsInv, [Next]_vars PROVE SettingsInv'
  <1>1. ASSUME NEW p \in Procs, Step(p) PROVE SettingsInv'
    <2>1. ASSUME p \in Windows, WindowStep(p) PROVE SettingsInv'
      BY <2>1, LeaseBusyInv, TakeLeaseInv, RefuseInv, ReadPriorInv, WriteAheadInv, ApplyInv,
         AppliedInv, SetDndInv, DndAnswersInv, EndJobsInv DEF WindowStep
    <2>2. ASSUME p \in Restorers, RestorerStep(p) PROVE SettingsInv'
      BY <2>2, RestoreHoldInv, RestoreLeasedInv DEF RestorerStep
    <2>3. ASSUME RestoreStep(p) PROVE SettingsInv'
      BY <2>3, SettingRestoredInv, SettingWrittenInv, SettingMissedInv, PassEndsInv, UnlinkInv
         DEF RestoreStep
    <2> QED BY <1>1, <2>1, <2>2, <2>3, ReleaseLeaseInv, ExitInv DEF Step
  <1>2. ASSUME DndLands PROVE SettingsInv'
    BY <1>2 DEF DndLands, SettingsInv, RecordInv
  <1> QED BY <1>1, <1>2, OpenWindowInv, FindRecordInv, DieInv, OwnerSetsInv, DriftInv, StutterInv
          DEF Next, Prompt

LEMMA Inductive == ASSUME ~DndSlow PROVE Spec => []SettingsInv
  <1>1. SettingsInv /\ [Next]_vars => SettingsInv'
    BY NextSettingsInv
  <1> QED BY InitSettingsInv, <1>1, PTL DEF Spec

(* Type correctness.                                                       *)
THEOREM Typed == ASSUME ~DndSlow PROVE Spec => []TypeOK
  <1>1. SettingsInv => TypeOK
    BY DEF SettingsInv
  <1> QED BY Inductive, <1>1, PTL

(* No setting of the owner is ever lost, however often windows and         *)
(* restores are killed between two steps of any of them.                   *)
THEOREM NeverLost == ASSUME ~DndSlow PROVE Spec => []NothingLost
  <1>1. SettingsInv => NothingLost
    BY DEF SettingsInv, TypeOK, RecordInv, SafeUnder, NothingLost
  <1> QED BY Inductive, <1>1, PTL

(* An exit code other than 3 means the owner's settings are back: no       *)
(* record is left, and with no record the phone is as he set it.           *)
THEOREM CleanExit == ASSUME ~DndSlow PROVE Spec => CleanExitMeansRestored
  <1>1. ASSUME SettingsInv, NEW w \in Windows, Exit(w), exit'[w] = "other" PROVE phone = owner
    <2>1. w \in Procs /\ exit'[w] = Code(w)
      BY <1>1 DEF Exit, SettingsInv, TypeOK, Procs
    <2>2. pending = NoRecord
      BY <1>1, <2>1 DEF Code
    <2> QED BY <1>1, <2>2 DEF SettingsInv, RecordInv
  <1>2. SettingsInv /\ [Next]_vars =>
          [\A w \in Windows : Exit(w) /\ exit'[w] = "other" => phone = owner]_vars
    BY <1>1
  <1> QED BY Inductive, <1>2, PTL DEF Spec, CleanExitMeansRestored

-----------------------------------------------------------------------------
LEMMA NextEscrows ==
  ASSUME ~DndSlow, SettingsInv, SettingsInv', [Next]_vars
  PROVE  [Escrow!Next]_(Escrow!escrow)
  <1>1. CASE UNCHANGED pending
    <2>1. phone' \in [Settings -> Values]
      BY DEF SettingsInv, TypeOK
    <2> QED BY <1>1, <2>1 DEF Escrow!Next, Escrow!OwnersOwn, Escrow!Use, Escrow!escrow
  <1>2. ASSUME NEW w \in Windows, WriteAhead(w) PROVE Escrow!Take
    <2>1. w \in Procs /\ pending = NoRecord /\ prior[w] = phone
      BY <1>2 DEF WriteAhead, SettingsInv, ProcessInv, Procs
    <2> QED BY <1>2, <2>1 DEF WriteAhead, Escrow!Take, device
  <1>3. ASSUME NEW p \in Procs, Unlink(p) PROVE Escrow!GiveUp
    BY <1>3 DEF Unlink, SettingsInv, ProcessInv, Escrow!GiveUp, Escrow!Held, Written, device
  <1>4. ASSUME NEW p \in Procs, Step(p), ~Unlink(p), ~(p \in Windows /\ WriteAhead(p))
        PROVE  UNCHANGED pending
    <2>1. ASSUME WindowStep(p), ~WriteAhead(p) PROVE UNCHANGED pending
      BY <2>1 DEF WindowStep, LeaseBusy, TakeLease, Refuse, ReadPrior, Apply, Applied, SetDnd,
         DndAnswers, EndJobs
    <2>2. ASSUME RestorerStep(p) PROVE UNCHANGED pending
      BY <2>2 DEF RestorerStep, RestoreHold, RestoreLeased
    <2>3. ASSUME RestoreStep(p), ~Unlink(p) PROVE UNCHANGED pending
      BY <2>3 DEF RestoreStep, SettingRestored, SettingWritten, SettingMissed, PassEnds
    <2> QED BY <1>4, <2>1, <2>2, <2>3 DEF Step, ReleaseLease, Exit
  <1>5. ASSUME \/ \E w \in Windows : OpenWindow(w)
               \/ \E x \in Restorers : FindRecord(x)
               \/ \E p \in Procs : Die(p)
               \/ DndLands
               \/ \E s \in Settings, v \in Values : OwnerSets(s, v) \/ Drift(s, v)
               \/ UNCHANGED vars
        PROVE  UNCHANGED pending
    BY <1>5 DEF OpenWindow, FindRecord, Die, DndLands, OwnerSets, Drift, vars
  <1> QED BY <1>1, <1>2, <1>3, <1>4, <1>5 DEF Next, Prompt, Escrow!Next

(* The windows keep the owner's settings in escrow.                        *)
THEOREM Refines == ASSUME ~DndSlow PROVE Spec => EscrowSpec
  <1>1. Init => Escrow!Init
    BY DEF Init, Escrow!Init
  <1>2. SettingsInv /\ SettingsInv' /\ [Next]_vars => [Escrow!Next]_(Escrow!escrow)
    BY NextEscrows
  <1> QED BY <1>1, <1>2, Inductive, PTL DEF Spec, EscrowSpec, Escrow!Spec
=============================================================================
