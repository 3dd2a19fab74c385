------------------------------ MODULE DeviceLease ------------------------------
(***************************************************************************)
(* The per-device lease of packages/play/src/safety: the flock and owner   *)
(* record of companion_device_lock.py, and the wrapper that holds it       *)
(* around a command, device-lock-exec.py.                                  *)
(*                                                                         *)
(* Programs launch one another: a window its queue, the queue a night job, *)
(* the job its capture setup. Each that uses the phone enters the lease.   *)
(* The first of them gets the kernel's lock; a process it launched, at any *)
(* depth, finds the lock taken and BORROWS it: the record in the lock file *)
(* must name the owner its environment names, and a walk over its parents  *)
(* must reach that owner. The kernel drops a killed holder's lock and      *)
(* leaves its record; its children live on and are reparented.             *)
(***************************************************************************)
EXTENDS Naturals

CONSTANTS
  Procs,       (* processes, each of its own pid                           *)
  Leasing,     (* those that enter the lease; the others (a shell, the     *)
               (* queue) only launch, and pass their environment on        *)
  Launcher,    (* who launches each process, Host for the first of a chain *)
  Ancestors,   (* its launcher, the launcher's launcher, and so on         *)
  MaxKills,    (* bound: SIGKILLs in one behaviour                         *)
  Host, Free,  (* "no launcher"; "nobody holds the lock"                   *)
  NoPid, Blank (* no owner in the environment; an empty lock file          *)

ASSUME LineageAssumption ==
  /\ Leasing \subseteq Procs
  /\ Launcher \in [Procs -> Procs \cup {Host}] /\ Host \notin Procs
  /\ Ancestors \in [Procs -> SUBSET Procs]
  /\ \A p \in Procs :
       /\ p \notin Ancestors[p]
       /\ Launcher[p] = Host => Ancestors[p] = {}
       /\ Launcher[p] # Host => Ancestors[p] = {Launcher[p]} \cup Ancestors[Launcher[p]]
       /\ \A o \in Ancestors[p] : \E c \in Ancestors[p] \cup {p} : Launcher[c] = o
  /\ MaxKills \in Nat
  /\ Free \notin Procs /\ NoPid \notin Procs /\ Blank \notin Procs /\ NoPid # Blank

VARIABLES
  pc,      (* where each process is                                        *)
  env,     (* its CUE_HELPER_LEASE_OWNER_PID                               *)
  owner,   (* its DeviceLock.owner_pid, once it has the lease              *)
  text,    (* what it read in the lock file when the lock was taken        *)
  lock,    (* who holds the flock                                          *)
  record,  (* the pid in the lock file, or Blank                           *)
  kills    (* SIGKILLs so far                                              *)

vars == <<pc, env, owner, text, lock, record, kills>>

Places == {"unborn", "outside", "locked", "blank", "using", "closing", "left", "taken", "read", "gone"}

Alive(p) == pc[p] \notin {"unborn", "gone"}

(* Every variable stays in its set; the record names a process or nobody.  *)
TypeOK ==
  /\ pc \in [Procs -> Places]
  /\ env \in [Procs -> Procs \cup {NoPid}]
  /\ owner \in [Procs -> Procs \cup {NoPid}]
  /\ text \in [Procs -> Procs \cup {Blank}]
  /\ lock \in Procs \cup {Free}
  /\ record \in Procs \cup {Blank}
  /\ kills \in 0..MaxKills

Init ==
  /\ pc = [p \in Procs |-> "unborn"]
  /\ env = [p \in Procs |-> NoPid]
  /\ owner = [p \in Procs |-> NoPid]
  /\ text = [p \in Procs |-> Blank]
  /\ lock = Free
  /\ record = Blank
  /\ kills = 0

Goto(p, place) == pc' = [pc EXCEPT ![p] = place]

-------------------------------------------------------------------------------
(* Processes                                                               *)

(* Mutant: a borrower names itself to its children, not the lease's owner. *)
PassesItself(l) == IF l \in Leasing THEN l ELSE env[l]

(* The owner a process names to those it launches: the owner of its lease, *)
(* itself or the one it borrowed from; else whatever it was given.         *)
Passes(l) == IF l \in Leasing THEN owner[l] ELSE env[l]

(* The first of a chain may name any process there has been: the value is  *)
(* left over in a shell, or copied from another agent's environment.       *)
Launch(p) ==
  /\ pc[p] = "unborn"
  /\ \/ /\ Launcher[p] = Host
        /\ \E e \in {NoPid} \cup {q \in Procs : pc[q] # "unborn"} : env' = [env EXCEPT ![p] = e]
     \/ /\ Launcher[p] # Host
        /\ pc[Launcher[p]] = "using"
        /\ env' = [env EXCEPT ![p] = Passes(Launcher[p])]
  /\ Goto(p, IF p \in Leasing THEN "outside" ELSE "using")
  /\ UNCHANGED <<owner, text, lock, record, kills>>

(* SIGKILL, or a crash: the kernel closes the lock file.                   *)
Kill(p) ==
  /\ Alive(p)
  /\ kills < MaxKills /\ kills' = kills + 1
  /\ lock' = IF lock = p THEN Free ELSE lock
  /\ Goto(p, "gone")
  /\ UNCHANGED <<env, owner, text, record>>

-------------------------------------------------------------------------------
(* DeviceLock.__enter__                                                    *)

TryLock(p) ==
  /\ pc[p] = "outside"
  /\ IF lock = Free
     THEN lock' = p /\ owner' = [owner EXCEPT ![p] = p] /\ Goto(p, "locked")
     ELSE Goto(p, "taken") /\ UNCHANGED <<lock, owner>>
  /\ UNCHANGED <<env, text, record, kills>>

TruncateRecord(p) ==
  /\ pc[p] = "locked"
  /\ record' = Blank
  /\ Goto(p, "blank")
  /\ UNCHANGED <<env, owner, text, lock, kills>>

WriteRecord(p) ==
  /\ pc[p] = "blank"
  /\ record' = p
  /\ Goto(p, "using")
  /\ UNCHANGED <<env, owner, text, lock, kills>>

ReadRecord(p) ==
  /\ pc[p] = "taken"
  /\ text' = [text EXCEPT ![p] = record]
  /\ Goto(p, "read")
  /\ UNCHANGED <<env, owner, lock, record, kills>>

(* The walk over the parents of p reaches o: o launched p, or one that     *)
(* did, and nobody on the way has died (its child would have a new parent).*)
Reaches(p, o) ==
  /\ o \in Ancestors[p]
  /\ \A q \in Ancestors[p] : q = o \/ o \in Ancestors[q] => Alive(q)

(* Mutant: the environment and the record are enough.                      *)
InheritsByName(p) == env[p] # NoPid /\ text[p] = env[p]

(* inherited_owner                                                         *)
Inherits(p) == env[p] # NoPid /\ text[p] = env[p] /\ Reaches(p, env[p])

Decide(p) ==
  /\ pc[p] = "read"
  /\ IF Inherits(p)
     THEN owner' = [owner EXCEPT ![p] = env[p]] /\ Goto(p, "using")
     ELSE Goto(p, "left") /\ UNCHANGED owner                   (* DeviceBusy *)
  /\ UNCHANGED <<env, text, lock, record, kills>>

-------------------------------------------------------------------------------
(* The end of the operation, and DeviceLock.__exit__                       *)

(* Mutant: the wrapper does not wait for its child.                        *)
NotWaiting(p) == TRUE

(* device-lock-exec waits for its child; window, queue and job likewise.   *)
ChildrenGone(p) == \A c \in Procs : Launcher[c] = p => ~Alive(c)

Leave(p) ==
  /\ pc[p] = "using"
  /\ ChildrenGone(p)
  /\ IF lock = p
     THEN record' = Blank /\ Goto(p, "closing")
     ELSE Goto(p, "left") /\ UNCHANGED record
  /\ UNCHANGED <<env, owner, text, lock, kills>>

Unlock(p) ==
  /\ pc[p] = "closing"
  /\ lock' = Free
  /\ Goto(p, "left")
  /\ UNCHANGED <<env, owner, text, record, kills>>

(* A window still notifies and decides its code, a job writes its record.  *)
Exit(p) ==
  /\ pc[p] = "left"
  /\ Goto(p, "gone")
  /\ UNCHANGED <<env, owner, text, lock, record, kills>>

-------------------------------------------------------------------------------
Step(p) ==
  \/ Launch(p) \/ TryLock(p) \/ TruncateRecord(p) \/ WriteRecord(p)
  \/ ReadRecord(p) \/ Decide(p) \/ Leave(p) \/ Unlock(p) \/ Exit(p)

Next == \E p \in Procs : Step(p) \/ Kill(p)

Spec == Init /\ [][Next]_vars

-------------------------------------------------------------------------------
(* What the lease promises                                                 *)

Users == {p \in Leasing : pc[p] = "using"}

(* A borrower whose parents still lead to the owner it borrowed from has   *)
(* that owner holding the kernel's lock, whatever was killed elsewhere:    *)
(* the record alone, which a kill leaves behind, never lets anyone in.     *)
BorrowedFromHolder ==
  \A p \in Users : owner[p] # p /\ Reaches(p, owner[p]) => lock = owner[p]

(* "A nested capture tool may borrow it" (packages/play README): one that  *)
(* the owner launched, at any depth, is never turned away.                 *)
FamilyAdmitted ==
  \A p \in Leasing : pc[p] = "read" /\ Reaches(p, env[p]) => text[p] = env[p]

(* "only one program drives it at a time" (README): all that use the phone *)
(* belong to one of them.                                                  *)
OneProgram == Users # {} => \E o \in Users : \A p \in Users : p = o \/ o \in Ancestors[p]

(* So it is as long as nobody is killed outright.                          *)
OneProgramUnlessKilled == kills = 0 => OneProgram
===============================================================================
