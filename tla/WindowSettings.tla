---------------------------- MODULE WindowSettings ----------------------------
(***************************************************************************)
(* The phone's own settings across an overnight window:                    *)
(* apps/lab/overnight-window.py.                                           *)
(*                                                                         *)
(* A window takes the device lease, puts back what an earlier window left, *)
(* records the owner's settings on disk (the pending record), and only     *)
(* then sets its own: stay-awake, no heads-up banners, Do Not Disturb.     *)
(* When it ends it restores every one, reads each back, deletes the record *)
(* and releases the lease.  "overnight-window.py restore" (the systemd     *)
(* unit's ExecStopPost) does the recovery alone.  Either can be SIGKILLed  *)
(* between any two steps, and every adb call can fail, or fail and land.   *)
(***************************************************************************)
EXTENDS Naturals, Sequences

CONSTANTS
  Windows,     (* overnight-window.py run processes                        *)
  Restorers,   (* overnight-window.py restore processes                    *)
  Recorded,    (* RECORDED_SETTINGS, in their order                        *)
  Quiet,       (* those a window puts by `settings put`, in their order    *)
  Dnd,         (* global/zen_mode, which only `set_dnd` may write          *)
  Values,      (* what a setting can hold                                  *)
  Ours,        (* the value a window gives each setting it writes          *)
  DndOff,      (* zen_mode 0                                               *)
  DndSlow,     (* whether zen_mode may change after set_dnd has returned   *)
  MaxFaults,   (* bound: kills and failed calls in one behaviour           *)
  NoRecord, Free, NoFlight

Procs    == Windows \cup Restorers
Settings == {Recorded[i] : i \in DOMAIN Recorded}

ASSUME SettingsAssumption ==
  /\ Windows \cap Restorers = {}
  /\ Recorded \in Seq(Settings)
  /\ Quiet \in Seq(Settings \ {Dnd})
  /\ Dnd \in Settings
  /\ Ours \in [Settings -> Values]
  /\ DndOff \in Values /\ Ours[Dnd] # DndOff
  /\ DndSlow \in BOOLEAN
  /\ MaxFaults \in Nat
  /\ NoRecord \notin [Settings -> Values]
  /\ Free \notin Procs
  /\ NoFlight \notin Values

VARIABLES
  phone,       (* what each setting is on the phone                        *)
  flight,      (* the zen_mode a set_dnd has asked for and not yet reached *)
  owner,       (* history: what the phone's owner last set                 *)
  pending,     (* the pending record on disk, or NoRecord                  *)
  lease,       (* who holds the device lease                               *)
  pc,          (* where each process is                                    *)
  prior,       (* what each process will restore: Window.prior, or recover *)
  at,          (* its index in Recorded (restore) or Quiet (apply)         *)
  missed,      (* what a restore pass met: "no", "FAILED", "UNREACHABLE"   *)
  unverified,  (* whether its own restore or recovery was not verified     *)
  exit,        (* its exit code, as far as the restore decides it          *)
  faults       (* how many kills and failed calls there have been          *)

device == <<phone, flight, owner>>
vars == <<phone, flight, owner, pending, lease, pc, prior, at, missed, unverified, exit, faults>>

Places == {"off", "open", "found", "recover", "recovered", "preflight", "record", "apply",
           "dnd", "dndWait", "jobs", "restore", "restored", "release", "exit"}
Unleased == {"off", "open", "found", "exit"}      (* everywhere else the lease is held *)

TypeOK ==
  /\ phone \in [Settings -> Values]
  /\ flight \in Values \cup {NoFlight}
  /\ owner \in [Settings -> Values]
  /\ pending \in [Settings -> Values] \cup {NoRecord}
  /\ lease \in Procs \cup {Free}
  /\ pc \in [Procs -> Places]
  /\ prior \in [Procs -> [Settings -> Values] \cup {NoRecord}]
  /\ at \in [Procs -> Nat \ {0}]
  /\ missed \in [Procs -> {"no", "FAILED", "UNREACHABLE"}]
  /\ unverified \in [Procs -> BOOLEAN]
  /\ exit \in [Procs -> {"none", "restore-pending", "other"}]
  /\ faults \in 0..MaxFaults

Init ==
  /\ owner \in [Settings -> Values]
  /\ phone = owner
  /\ flight = NoFlight
  /\ pending = NoRecord
  /\ lease = Free
  /\ pc = [p \in Procs |-> "off"]
  /\ prior = [p \in Procs |-> NoRecord]
  /\ at = [p \in Procs |-> 1]
  /\ missed = [p \in Procs |-> "no"]
  /\ unverified = [p \in Procs |-> FALSE]
  /\ exit = [p \in Procs |-> "none"]
  /\ faults = 0

Fault == faults < MaxFaults /\ faults' = faults + 1

Goto(p, place) == pc' = [pc EXCEPT ![p] = place]

(* Mutants: the next pass starts before the first setting; it keeps what   *)
(* the last one missed.                                                    *)
FirstFromZero(p) == at' = [at EXCEPT ![p] = 0] /\ missed' = [missed EXCEPT ![p] = "no"]
FirstKeepsMissed(p) == at' = [at EXCEPT ![p] = 1] /\ UNCHANGED missed

First(p) == at' = [at EXCEPT ![p] = 1] /\ missed' = [missed EXCEPT ![p] = "no"]
Memory == <<prior, at, missed, unverified>>       (* what only the process knows *)

-----------------------------------------------------------------------------
(* The phone                                                               *)

(* A write the phone carries out.  A slow set_dnd is only asked for, and   *)
(* the last one counts: the code polls zen_mode until it answers.          *)
Lands(s, v) ==
  IF s = Dnd /\ DndSlow
  THEN flight' = v /\ UNCHANGED phone
  ELSE phone' = [phone EXCEPT ![s] = v] /\ UNCHANGED flight

(* The call failed and nothing came of it. *)
Lost == Fault /\ UNCHANGED <<phone, flight>>

DndLands ==
  /\ flight # NoFlight
  /\ phone' = [phone EXCEPT ![Dnd] = flight]
  /\ flight' = NoFlight
  /\ UNCHANGED <<owner, pending, lease, pc, Memory, exit, faults>>

(* The owner changes a setting of his, with no window on the phone and     *)
(* none outstanding; or his schedule moves a DND the window found on.      *)
OwnerSets(s, v) ==
  /\ \/ lease = Free /\ pending = NoRecord
     \/ s = Dnd /\ pending # NoRecord /\ pending[Dnd] # DndOff
  /\ owner' = [owner EXCEPT ![s] = v]
  /\ phone' = [phone EXCEPT ![s] = v]
  /\ UNCHANGED <<flight, pending, lease, pc, Memory, exit, faults>>

(* "...if anything changed them": a setting other than DND moves by itself *)
(* while a window's jobs use the phone.                                    *)
Drift(s, v) ==
  /\ s # Dnd
  /\ \E w \in Windows : pc[w] = "jobs"
  /\ phone' = [phone EXCEPT ![s] = v]
  /\ UNCHANGED <<flight, owner, pending, lease, pc, Memory, exit, faults>>

-----------------------------------------------------------------------------
(* The restore both finish_restore and recover run                         *)

(* Mutant: DND is left as the window set it. *)
WritesNoDnd(want) == Settings \ {Dnd}

(* writes_on_restore: DND only if the window found it off, so that it was  *)
(* the window that turned it on; otherwise it is only witnessed.           *)
Written(want) == {s \in Settings : s # Dnd \/ want[s] = DndOff}

Restoring(p) == pc[p] \in {"recover", "restore"} /\ at[p] \in DOMAIN Recorded

Advance(p) == at' = [at EXCEPT ![p] = @ + 1]

(* restore_one read the value it wants, or a setting it only witnesses.    *)
SettingRestored(p) ==
  LET s == Recorded[at[p]]
  IN  /\ Restoring(p)
      /\ s \in Written(prior[p]) => phone[s] = prior[p][s]
      /\ Advance(p)
      /\ UNCHANGED <<device, pending, lease, pc, prior, missed, unverified, exit, faults>>

(* It read another value and writes; it will read back.                    *)
SettingWritten(p) ==
  LET s == Recorded[at[p]]
  IN  /\ Restoring(p)
      /\ s \in Written(prior[p])
      /\ phone[s] # prior[p][s]
      /\ \/ Lands(s, prior[p][s]) /\ UNCHANGED faults
         \/ Lost
      /\ UNCHANGED <<owner, pending, lease, pc, Memory, exit>>

(* Its budget is spent: the last write may have landed, the last read said *)
(* otherwise (FAILED), or no read ever answered (UNREACHABLE).             *)
SettingMissed(p) ==
  LET s == Recorded[at[p]]
  IN  /\ Restoring(p)
      /\ s \in Written(prior[p])
      /\ \/ /\ phone[s] # prior[p][s]
            /\ \/ Lands(s, prior[p][s])
               \/ UNCHANGED <<phone, flight>>
            /\ missed' = [missed EXCEPT ![p] = IF @ = "UNREACHABLE" THEN @ ELSE "FAILED"]
         \/ /\ missed' = [missed EXCEPT ![p] = "UNREACHABLE"]
            /\ UNCHANGED <<phone, flight>>
      /\ Fault
      /\ Advance(p)
      /\ UNCHANGED <<owner, pending, lease, pc, prior, unverified, exit>>

(* Mutant: a FAILED setting is reported, and the record deleted anyway. *)
VerifiedIfReached(m) == m # "UNREACHABLE"

(* restore_settings: every setting it writes reads back as recorded.       *)
Verified(m) == m = "no"

(* The end of a pass.  An unreachable phone is asked again, the whole pass *)
(* over, until the retry deadline.                                         *)
PassEnds(p) ==
  /\ pc[p] \in {"recover", "restore"}
  /\ at[p] > Len(Recorded)
  /\ \/ /\ missed[p] = "UNREACHABLE"
        /\ First(p)
        /\ UNCHANGED <<pc, prior, unverified>>
     \/ /\ Verified(missed[p])
        /\ Goto(p, IF pc[p] = "recover" THEN "recovered" ELSE "restored")
        /\ First(p)
        /\ UNCHANGED <<prior, unverified>>
     \/ /\ ~Verified(missed[p])
        /\ Goto(p, "release")
        /\ unverified' = [unverified EXCEPT ![p] = TRUE]
        /\ First(p)
        /\ UNCHANGED prior
  /\ UNCHANGED <<device, pending, lease, exit, faults>>

(* The verified record is deleted.                                         *)
Unlink(p) ==
  /\ pc[p] \in {"recovered", "restored"}
  /\ pending' = NoRecord
  /\ prior' = [prior EXCEPT ![p] = NoRecord]
  /\ Goto(p, IF pc[p] = "recovered" /\ p \in Windows THEN "preflight" ELSE "release")
  /\ UNCHANGED <<device, lease, at, missed, unverified, exit, faults>>

(* recover: read the record and put it back.  A record that is gone since  *)
(* it was looked for reads as pending-unreadable.                          *)
Recover(p) ==
  \/ /\ pending # NoRecord
     /\ prior' = [prior EXCEPT ![p] = pending]
     /\ Goto(p, "recover")
     /\ UNCHANGED <<unverified, faults>>
  \/ /\ \/ pending = NoRecord /\ UNCHANGED faults
        \/ Fault                                            (* device-absent *)
     /\ Goto(p, "release")
     /\ unverified' = [unverified EXCEPT ![p] = TRUE]
     /\ UNCHANGED prior

-----------------------------------------------------------------------------
(* A window                                                                *)

OpenWindow(w) ==
  /\ pc[w] = "off"
  /\ Goto(w, "open")
  /\ unverified' = [unverified EXCEPT ![w] = FALSE]
  /\ exit' = [exit EXCEPT ![w] = "none"]
  /\ UNCHANGED <<device, pending, lease, prior, at, missed, faults>>

LeaseBusy(w) ==
  /\ pc[w] = "open"
  /\ lease # Free
  /\ Goto(w, "exit")
  /\ UNCHANGED <<device, pending, lease, Memory, exit, faults>>

(* Mutant: a window starts afresh over an earlier window's record. *)
NeverOutstanding == FALSE

(* Whether an earlier window's record is still to be put back.             *)
Outstanding == pending # NoRecord

(* The lease, then first of all what an earlier window left.               *)
TakeLease(w) ==
  /\ pc[w] = "open"
  /\ lease = Free
  /\ lease' = w
  /\ IF Outstanding THEN Recover(w)
     ELSE Goto(w, "preflight") /\ UNCHANGED <<prior, unverified, faults>>
  /\ UNCHANGED <<device, pending, at, missed, exit>>

(* Out of hours, no jobs, locked, in use, on battery, a signal, a setting  *)
(* that cannot be read or a record that cannot be written: nothing has     *)
(* changed yet.                                                            *)
Refuse(w) ==
  /\ pc[w] \in {"preflight", "record"}
  /\ Goto(w, "release")
  /\ UNCHANGED <<device, pending, lease, Memory, exit, faults>>

ReadPrior(w) ==
  /\ pc[w] = "preflight"
  /\ prior' = [prior EXCEPT ![w] = phone]
  /\ Goto(w, "record")
  /\ UNCHANGED <<device, pending, lease, at, missed, unverified, exit, faults>>

(* The write-ahead record: what to restore, on disk before any change.     *)
WriteAhead(w) ==
  /\ pc[w] = "record"
  /\ pending' = prior[w]
  /\ Goto(w, "apply")
  /\ UNCHANGED <<device, lease, Memory, exit, faults>>

(* One `settings put` and its read-back; the window refuses unless it      *)
(* reads back its value.                                                   *)
Apply(w) ==
  LET s == Quiet[at[w]]
  IN  /\ pc[w] = "apply"
      /\ at[w] \in DOMAIN Quiet
      /\ \/ /\ phone' = [phone EXCEPT ![s] = Ours[s]]
            /\ Advance(w)
            /\ UNCHANGED <<pc, missed, faults>>
         \/ /\ phone' \in {phone, [phone EXCEPT ![s] = Ours[s]]}
            /\ Goto(w, "restore")
            /\ First(w)
            /\ Fault
      /\ UNCHANGED <<flight, owner, pending, lease, prior, unverified, exit>>

Applied(w) ==
  /\ pc[w] = "apply"
  /\ at[w] > Len(Quiet)
  /\ Goto(w, IF prior[w][Dnd] = DndOff THEN "dnd" ELSE "jobs")
  /\ First(w)
  /\ UNCHANGED <<device, pending, lease, prior, unverified, exit, faults>>

SetDnd(w) ==
  /\ pc[w] = "dnd"
  /\ \/ Lands(Dnd, Ours[Dnd]) /\ UNCHANGED faults
     \/ Lost
  /\ Goto(w, "dndWait")
  /\ UNCHANGED <<owner, pending, lease, Memory, exit>>

(* zen_mode is polled until it answers, for DND_READBACK_S or until a      *)
(* signal; then the window refuses (DND, or ABORTED).                      *)
DndAnswers(w) ==
  /\ pc[w] = "dndWait"
  /\ \/ phone[Dnd] = Ours[Dnd] /\ Goto(w, "jobs")
     \/ Goto(w, "restore")
  /\ UNCHANGED <<device, pending, lease, Memory, exit, faults>>

(* Drained, held, failed, at its deadline, picked up or signalled.         *)
EndJobs(w) ==
  /\ pc[w] = "jobs"
  /\ Goto(w, "restore")
  /\ UNCHANGED <<device, pending, lease, Memory, exit, faults>>

-----------------------------------------------------------------------------
(* overnight-window.py restore                                             *)

FindRecord(x) ==
  /\ pc[x] = "off"
  /\ IF pending = NoRecord THEN UNCHANGED pc ELSE Goto(x, "found")
  /\ exit' = [exit EXCEPT ![x] = IF pending = NoRecord THEN "other" ELSE "none"]
  /\ unverified' = [unverified EXCEPT ![x] = FALSE]
  /\ UNCHANGED <<device, pending, lease, prior, at, missed, faults>>

RestoreHold(x) ==
  /\ pc[x] = "found"
  /\ lease # Free
  /\ Goto(x, "off")
  /\ exit' = [exit EXCEPT ![x] = "other"]
  /\ UNCHANGED <<device, pending, lease, Memory, faults>>

RestoreLeased(x) ==
  /\ pc[x] = "found"
  /\ lease = Free
  /\ lease' = x
  /\ Recover(x)
  /\ UNCHANGED <<device, pending, at, missed, exit>>

-----------------------------------------------------------------------------
(* The end of either                                                       *)

ReleaseLease(p) ==
  /\ pc[p] = "release"
  /\ lease' = Free
  /\ prior' = [prior EXCEPT ![p] = NoRecord]
  /\ Goto(p, "exit")
  /\ UNCHANGED <<device, pending, at, missed, unverified, exit, faults>>

(* Mutant: the exit code forgets a restore that was not verified. *)
CodeIfClean(p) == "other"

(* A window's code is 3 if its own restore or recovery was not verified,   *)
(* or if a record is on disk once its lease is gone; a restore's is its    *)
(* own verdict.                                                            *)
Code(p) ==
  IF unverified[p] \/ (p \in Windows /\ pending # NoRecord) THEN "restore-pending" ELSE "other"

Exit(p) ==
  /\ pc[p] = "exit"
  /\ exit' = [exit EXCEPT ![p] = Code(p)]
  /\ Goto(p, "off")
  /\ UNCHANGED <<device, pending, lease, Memory, faults>>

Die(p) ==
  /\ pc[p] # "off"
  /\ Fault
  /\ lease' = IF lease = p THEN Free ELSE lease
  /\ Goto(p, "off")
  /\ prior' = [prior EXCEPT ![p] = NoRecord]
  /\ First(p)
  /\ unverified' = [unverified EXCEPT ![p] = FALSE]
  /\ exit' = [exit EXCEPT ![p] = "none"]
  /\ UNCHANGED <<device, pending>>

-----------------------------------------------------------------------------
RestoreStep(p) == SettingRestored(p) \/ SettingWritten(p) \/ SettingMissed(p) \/ PassEnds(p) \/ Unlink(p)

WindowStep(w) ==
  \/ LeaseBusy(w) \/ TakeLease(w) \/ Refuse(w) \/ ReadPrior(w) \/ WriteAhead(w) \/ Apply(w)
  \/ Applied(w) \/ SetDnd(w) \/ DndAnswers(w) \/ EndJobs(w)

RestorerStep(x) == RestoreHold(x) \/ RestoreLeased(x)

Step(p) ==
  \/ p \in Windows /\ WindowStep(p)
  \/ p \in Restorers /\ RestorerStep(p)
  \/ RestoreStep(p) \/ ReleaseLease(p) \/ Exit(p)

(* All there is on a phone whose set_dnd changes zen_mode at once.         *)
Prompt ==
  \/ \E w \in Windows : OpenWindow(w)
  \/ \E x \in Restorers : FindRecord(x)
  \/ \E p \in Procs : Step(p) \/ Die(p)
  \/ \E s \in Settings, v \in Values : OwnerSets(s, v) \/ Drift(s, v)

Next == Prompt \/ DndLands

Spec == Init /\ [][Next]_vars

(* A process that runs goes on.  systemd runs the restore after every      *)
(* window, however it ended, and it finds the lease free at some time.     *)
Fairness ==
  /\ \A p \in Procs : WF_vars(Step(p))
  /\ WF_vars(DndLands)
  /\ \A x \in Restorers : WF_vars(FindRecord(x)) /\ SF_vars(RestoreLeased(x))

FairSpec == Spec /\ Fairness

-----------------------------------------------------------------------------
(* What makes the restore correct                                          *)

(* Wherever the phone is not as its owner set it, the record on disk says  *)
(* what he had, and a restore of it will write that setting: whatever was  *)
(* killed, and however often.                                              *)
NothingLost ==
  \A s \in Settings :
    phone[s] # owner[s] => pending # NoRecord /\ s \in Written(pending) /\ pending[s] = owner[s]

(* A window whose exit code is not 3 leaves the owner's settings behind.   *)
CleanExitMeansRestored ==
  [][\A w \in Windows : Exit(w) /\ exit'[w] = "other" => phone = owner]_vars

(* Windows keep the settings in escrow: recorded as the owner had them     *)
(* before the first change, never rewritten, deleted only once restored.   *)
Escrow == INSTANCE SettingsEscrow

EscrowSpec == Escrow!Spec

(* What a window changed is put back in the end.                           *)
SettingsComeBack == (phone # owner) ~> (phone = owner)

(* Every record is put back and deleted in the end, even where zen_mode    *)
(* follows a set_dnd late.                                                 *)
RecordSettled == (pending # NoRecord) ~> (pending = NoRecord)

(* "3 a setting could not be restored and verified" (EXIT): who exits 3    *)
(* failed at it.                                                           *)
ThreeMeansUnrestored == \A p \in Procs : exit[p] = "restore-pending" => unverified[p]

=============================================================================
