---------------------------- MODULE DeviceLease_proofs ----------------------------
(***************************************************************************)
(* Proofs about DeviceLease, for every tree of launches, every choice of   *)
(* the processes that lease and any number of kills.                       *)
(*                                                                         *)
(* The argument: a process that is alive was launched by one that uses the *)
(* phone, or has died since (ChildInv), so a walk that reaches its end     *)
(* reaches a process still in its operation; a name found in a record or   *)
(* an environment is that of a process that has had the lock itself        *)
(* (HolderInv, EnvInv); and one that had it and is still in its operation  *)
(* has it now (LockInv).                                                   *)
(***************************************************************************)
EXTENDS DeviceLease, TLAPS

(* What a process knows of its owner at each place.                        *)
PlaceInv ==
  \A p \in Procs :
    /\ pc[p] \in {"unborn", "outside", "taken", "read"} => owner[p] = NoPid
    /\ p \notin Leasing => owner[p] = NoPid /\ pc[p] \in {"unborn", "using", "left", "gone"}
    /\ pc[p] = "using" /\ p \in Leasing => owner[p] # NoPid

(* Who holds the lock, and that its record is written while it is used.    *)
LockInv ==
  \A p \in Procs :
    /\ pc[p] \in {"locked", "blank", "closing"} => lock = p
    /\ pc[p] = "using" /\ owner[p] = p => lock = p /\ record = p
    /\ lock = p => owner[p] = p /\ pc[p] \in {"locked", "blank", "using", "closing"}

(* Every owner ever read or borrowed from has had the lock itself.         *)
HolderInv ==
  /\ record # Blank => owner[record] = record
  /\ \A p \in Procs :
       /\ text[p] # Blank => owner[text[p]] = text[p]
       /\ owner[p] \notin {p, NoPid} => owner[p] \in Ancestors[p] /\ owner[owner[p]] = owner[p]

(* So has an ancestor that the environment names.                          *)
EnvInv ==
  \A p \in Procs :
    /\ env[p] # NoPid => env[p] # p /\ pc[env[p]] # "unborn"
    /\ env[p] \in Ancestors[p] => owner[env[p]] = env[p]

(* No process is older than its launcher, and none is alive under a        *)
(* launcher that has left in good order.                                   *)
BornInv == \A p \in Procs : pc[p] # "unborn" => \A q \in Ancestors[p] : pc[q] # "unborn"

ChildInv == \A p \in Procs : Alive(p) /\ Launcher[p] # Host => pc[Launcher[p]] \in {"using", "gone"}

LeaseInv == TypeOK /\ PlaceInv /\ LockInv /\ HolderInv /\ EnvInv /\ BornInv /\ ChildInv

-------------------------------------------------------------------------------
(* The walk                                                                *)

(* A launcher is an ancestor, and every ancestor of one's launcher is too. *)
LEMMA Lineage ==
  ASSUME NEW p \in Procs, Launcher[p] # Host
  PROVE  /\ Launcher[p] \in Procs /\ Launcher[p] \in Ancestors[p]
         /\ Ancestors[p] \subseteq Procs
         /\ \A q \in Ancestors[p] : q = Launcher[p] \/ q \in Ancestors[Launcher[p]]
  BY LineageAssumption

(* Between a process and its ancestor o is a process that o launched: the  *)
(* process itself, or another ancestor of it with o above.                 *)
LEMMA Between ==
  ASSUME NEW p \in Procs, NEW o \in Ancestors[p]
  PROVE  \E c \in Procs : /\ Launcher[c] = o /\ o \in Procs
                          /\ c = p \/ (c \in Ancestors[p] /\ o \in Ancestors[c])
<1>1. o \in Procs /\ o # Host
  BY LineageAssumption
<1>2. PICK c \in Ancestors[p] \cup {p} : Launcher[c] = o
  BY LineageAssumption
<1>3. c \in Procs
  BY LineageAssumption, <1>2
<1>4. o \in Ancestors[c]
  BY Lineage, <1>1, <1>2, <1>3
<1> QED
  BY <1>1, <1>2, <1>3, <1>4

(* A walk that reaches its end ends at a process in its operation.         *)
LEMMA WalkEndsInUse ==
  ASSUME LeaseInv, NEW p \in Procs, NEW o, Reaches(p, o), Alive(p)
  PROVE  o \in Procs /\ pc[o] = "using"
<1>1. o \in Ancestors[p] /\ Alive(o)
  BY DEF Reaches
<1>2. PICK c \in Procs : Launcher[c] = o /\ o \in Procs /\ (c = p \/ (c \in Ancestors[p] /\ o \in Ancestors[c]))
  BY <1>1, Between
<1>3. Alive(c)
  BY <1>2 DEF Reaches
<1>4. o # Host
  BY <1>2, LineageAssumption
<1> QED
  BY <1>1, <1>2, <1>3, <1>4 DEF LeaseInv, ChildInv, Alive

-------------------------------------------------------------------------------
(* The invariant                                                           *)

LEMMA Initially == Init => LeaseInv
<1> SUFFICES ASSUME Init PROVE LeaseInv
  OBVIOUS
<1> USE LineageAssumption DEF Init
<1>1. TypeOK
  BY DEF TypeOK, Places
<1>2. PlaceInv /\ LockInv /\ HolderInv /\ ChildInv
  BY DEF PlaceInv, LockInv, HolderInv, ChildInv, Alive
<1>3. EnvInv /\ BornInv
  BY DEF EnvInv, BornInv
<1> QED
  BY <1>1, <1>2, <1>3 DEF LeaseInv

(* A step keeps every variable in its set.                                 *)
LEMMA TypeKept == TypeOK /\ [Next]_vars => TypeOK'
<1> SUFFICES ASSUME TypeOK, [Next]_vars PROVE TypeOK'
  OBVIOUS
<1> USE LineageAssumption DEF TypeOK, Places, Goto
<1>1. ASSUME NEW p \in Procs, Launch(p) PROVE TypeOK'
  BY <1>1 DEF Launch, Passes
<1>2. ASSUME NEW p \in Procs, Kill(p) PROVE TypeOK'
  BY <1>2 DEF Kill
<1>3. ASSUME NEW p \in Procs, TryLock(p) PROVE TypeOK'
  BY <1>3 DEF TryLock
<1>4. ASSUME NEW p \in Procs, TruncateRecord(p) \/ WriteRecord(p) \/ ReadRecord(p) PROVE TypeOK'
  BY <1>4 DEF TruncateRecord, WriteRecord, ReadRecord
<1>5. ASSUME NEW p \in Procs, Decide(p) PROVE TypeOK'
  BY <1>5 DEF Decide, Inherits
<1>6. ASSUME NEW p \in Procs, Leave(p) \/ Unlock(p) \/ Exit(p) PROVE TypeOK'
  BY <1>6 DEF Leave, Unlock, Exit
<1>7. CASE UNCHANGED vars
  BY <1>7 DEF vars
<1> QED
  BY <1>1, <1>2, <1>3, <1>4, <1>5, <1>6, <1>7 DEF Next, Step

(* A launch: the new process is nobody's owner and nobody's launcher yet.  *)
LEMMA LaunchKeeps == ASSUME LeaseInv, NEW p \in Procs, Launch(p) PROVE LeaseInv'
<1> USE LineageAssumption DEF LeaseInv, Launch, Goto
<1>1. TypeOK'
  BY TypeKept DEF Next, Step
<1>2. PlaceInv' /\ LockInv' /\ HolderInv'
  BY DEF TypeOK, PlaceInv, LockInv, HolderInv
<1>3. owner[p] = NoPid /\ pc' = [pc EXCEPT ![p] = IF p \in Leasing THEN "outside" ELSE "using"]
  BY DEF PlaceInv
<1>4. \A q \in Procs : pc[q] # "unborn" => pc'[q] = pc[q]
  BY DEF TypeOK
<1>5. EnvInv'
  <2>1. SUFFICES ASSUME NEW q \in Procs
                 PROVE  /\ env'[q] # NoPid => env'[q] # q /\ pc'[env'[q]] # "unborn"
                        /\ env'[q] \in Ancestors[q] => owner[env'[q]] = env'[q]
    BY DEF EnvInv
  <2>2. CASE q # p
    BY <2>2, <1>4 DEF EnvInv, TypeOK
  <2>3. CASE q = p /\ Launcher[p] = Host
    BY <2>3, <1>4 DEF EnvInv, TypeOK
  <2>4. CASE q = p /\ Launcher[p] # Host
    <3> DEFINE l == Launcher[p]
    <3>1. l \in Procs /\ pc[l] = "using" /\ env'[p] = Passes(l)
      BY <2>4, Lineage DEF TypeOK
    <3>2. CASE l \in Leasing
      <4>1. env'[p] = owner[l] /\ owner[l] \in Procs /\ owner[owner[l]] = owner[l]
        BY <3>1, <3>2 DEF Passes, PlaceInv, HolderInv, TypeOK
      <4>2. pc[owner[l]] # "unborn"
        BY <4>1, LineageAssumption DEF PlaceInv
      <4> QED
        BY <2>4, <4>1, <4>2, <1>3, <1>4 DEF TypeOK
    <3>3. CASE l \notin Leasing
      <4>1. env'[p] = env[l]
        BY <3>1, <3>3 DEF Passes
      <4>2. env[l] # NoPid => env[l] # l /\ pc[env[l]] # "unborn" /\ env[l] \in Procs
        BY <3>1 DEF EnvInv, TypeOK
      <4>3. env[l] \in Ancestors[p] => env[l] = l \/ env[l] \in Ancestors[l]
        BY <2>4, Lineage
      <4>4. env[l] \in Ancestors[p] => owner[env[l]] = env[l]
        BY <4>2, <4>3, <3>1, Lineage, <2>4 DEF EnvInv
      <4> QED
        BY <2>4, <4>1, <4>2, <4>4, <1>4 DEF TypeOK
    <3> QED
      BY <3>2, <3>3
  <2> QED
    BY <2>2, <2>3, <2>4
<1>6. BornInv'
  <2>1. SUFFICES ASSUME NEW q \in Procs, pc'[q] # "unborn", NEW a \in Ancestors[q] PROVE pc'[a] # "unborn"
    BY DEF BornInv
  <2>2. a \in Procs
    BY LineageAssumption
  <2>3. CASE q # p
    BY <2>1, <2>2, <2>3, <1>4 DEF BornInv, TypeOK
  <2>4. CASE q = p
    <3>1. Launcher[p] # Host /\ pc[Launcher[p]] = "using"
      BY <2>4
    <3>2. Launcher[p] \in Procs /\ (a = Launcher[p] \/ a \in Ancestors[Launcher[p]])
      BY <2>4, <3>1, Lineage
    <3>3. pc[a] # "unborn"
      BY <3>1, <3>2 DEF BornInv
    <3> QED
      BY <3>3, <2>2, <1>4
  <2> QED
    BY <2>3, <2>4
<1>7. ChildInv'
  <2>1. SUFFICES ASSUME NEW c \in Procs, Alive(c)', Launcher[c] # Host PROVE pc'[Launcher[c]] \in {"using", "gone"}
    BY DEF ChildInv
  <2>2. Launcher[c] \in Procs
    BY <2>1, Lineage
  <2>3. pc[Launcher[c]] \in {"using", "gone"}
    BY <2>1, <2>2 DEF ChildInv, Alive, TypeOK
  <2> QED
    BY <2>2, <2>3, <1>4
<1> QED
  BY <1>1, <1>2, <1>5, <1>6, <1>7

(* A process that leaves its place for another one it was launched in, or  *)
(* for its end, disturbs neither birth nor the chain of launches, as long  *)
(* as one in its operation leaves it only once its children are gone.      *)
LEMMA PlacesKeep ==
  ASSUME LeaseInv, NEW p \in Procs, Alive(p), NEW place \in Places \ {"unborn"},
         pc' = [pc EXCEPT ![p] = place],
         place = "gone" \/ ChildrenGone(p) \/ (pc[p] # "using")
  PROVE  BornInv' /\ ChildInv'
<1> USE LineageAssumption DEF LeaseInv
<1>1. \A q \in Procs : pc'[q] = "unborn" <=> pc[q] = "unborn"
  BY DEF TypeOK, Alive
<1>2. \A q \in Procs : Alive(q)' => Alive(q)
  BY DEF TypeOK, Alive
<1>3. BornInv'
  BY <1>1 DEF BornInv
<1>4. ChildInv'
  <2>1. SUFFICES ASSUME NEW c \in Procs, Alive(c)', Launcher[c] # Host PROVE pc'[Launcher[c]] \in {"using", "gone"}
    BY DEF ChildInv
  <2>2. Launcher[c] \in Procs /\ pc[Launcher[c]] \in {"using", "gone"} /\ Alive(c)
    BY <2>1, <1>2, Lineage DEF ChildInv
  <2>3. CASE Launcher[c] # p
    BY <2>2, <2>3 DEF TypeOK
  <2>4. CASE Launcher[c] = p
    <3>1. pc[p] = "using" /\ ~ChildrenGone(p)
      BY <2>2, <2>4 DEF Alive, ChildrenGone
    <3> QED
      BY <3>1, <2>4 DEF TypeOK
  <2> QED
    BY <2>3, <2>4
<1> QED
  BY <1>3, <1>4

(* Every other step.                                                       *)
LEMMA StepKeeps ==
  ASSUME LeaseInv, NEW p \in Procs,
         \/ TryLock(p) \/ TruncateRecord(p) \/ WriteRecord(p) \/ ReadRecord(p)
         \/ Decide(p) \/ Leave(p) \/ Unlock(p) \/ Exit(p) \/ Kill(p)
  PROVE  LeaseInv'
<1> USE LineageAssumption DEF LeaseInv
<1>t. TypeOK'
  BY TypeKept DEF Next, Step
<1>e. ASSUME env' = env, owner' = owner \/ (pc[p] \in {"outside", "read"} /\ \E o : owner' = [owner EXCEPT ![p] = o]),
             \A q \in Procs : pc'[q] = "unborn" => pc[q] = "unborn"
      PROVE  EnvInv'
  <2>1. ASSUME NEW q \in Procs, owner[q] = q PROVE owner'[q] = q
    BY <1>e, <2>1 DEF TypeOK, PlaceInv
  <2> QED
    BY <1>e, <2>1 DEF EnvInv, TypeOK
<1>1. CASE TryLock(p)
  <2> USE <1>1 DEF TryLock, Goto
  <2>1. PlaceInv' /\ LockInv'
    BY DEF TypeOK, PlaceInv, LockInv
  <2>2. HolderInv'
    BY DEF TypeOK, PlaceInv, HolderInv
  <2>3. EnvInv'
    BY <1>e DEF TypeOK
  <2>4. BornInv' /\ ChildInv'
    BY PlacesKeep DEF Alive, Places
  <2> QED
    BY <1>t, <2>1, <2>2, <2>3, <2>4
<1>2. CASE TruncateRecord(p) \/ WriteRecord(p)
  <2> USE <1>2 DEF TruncateRecord, WriteRecord, Goto
  <2>1. PlaceInv' /\ LockInv'
    BY DEF TypeOK, PlaceInv, LockInv
  <2>2. HolderInv'
    BY DEF TypeOK, LockInv, HolderInv
  <2>3. EnvInv'
    BY <1>e DEF TypeOK
  <2>4. BornInv' /\ ChildInv'
    BY PlacesKeep DEF Alive, Places
  <2> QED
    BY <1>t, <2>1, <2>2, <2>3, <2>4
<1>3. CASE ReadRecord(p)
  <2> USE <1>3 DEF ReadRecord, Goto
  <2>1. PlaceInv' /\ LockInv'
    BY DEF TypeOK, PlaceInv, LockInv
  <2>2. HolderInv'
    BY DEF TypeOK, HolderInv
  <2>3. EnvInv'
    BY <1>e DEF TypeOK
  <2>4. BornInv' /\ ChildInv'
    BY PlacesKeep DEF Alive, Places
  <2> QED
    BY <1>t, <2>1, <2>2, <2>3, <2>4
<1>4. CASE Decide(p)
  <2> USE <1>4 DEF Decide, Goto
  <2>1. owner[p] = NoPid /\ (Inherits(p) => env[p] \in Ancestors[p] /\ env[p] # p /\ owner[env[p]] = env[p])
    BY DEF TypeOK, PlaceInv, HolderInv, Inherits, Reaches
  <2>2. PlaceInv' /\ LockInv'
    BY <2>1 DEF TypeOK, PlaceInv, LockInv, Inherits
  <2>3. HolderInv'
    BY <2>1 DEF TypeOK, HolderInv
  <2>4. EnvInv'
    BY <1>e DEF TypeOK
  <2>5. BornInv' /\ ChildInv'
    BY PlacesKeep DEF Alive, Places
  <2> QED
    BY <1>t, <2>2, <2>3, <2>4, <2>5
<1>5. CASE Leave(p) \/ Unlock(p) \/ Exit(p)
  <2> USE <1>5 DEF Leave, Unlock, Exit, Goto
  <2>1. PlaceInv' /\ LockInv'
    BY DEF TypeOK, PlaceInv, LockInv
  <2>2. HolderInv'
    BY DEF TypeOK, HolderInv
  <2>3. EnvInv'
    BY <1>e DEF TypeOK
  <2>4. BornInv' /\ ChildInv'
    BY PlacesKeep DEF Alive, Places
  <2> QED
    BY <1>t, <2>1, <2>2, <2>3, <2>4
<1>6. CASE Kill(p)
  <2> USE <1>6 DEF Kill, Goto
  <2>1. PlaceInv' /\ LockInv'
    BY DEF TypeOK, PlaceInv, LockInv, Alive
  <2>2. HolderInv'
    BY DEF TypeOK, HolderInv
  <2>3. EnvInv'
    BY <1>e DEF TypeOK
  <2>4. BornInv' /\ ChildInv'
    BY PlacesKeep DEF Alive, Places
  <2> QED
    BY <1>t, <2>1, <2>2, <2>3, <2>4
<1> QED
  BY <1>1, <1>2, <1>3, <1>4, <1>5, <1>6

(* LeaseInv holds throughout.                                              *)
LEMMA Invariant == Spec => []LeaseInv
<1>1. LeaseInv /\ [Next]_vars => LeaseInv'
  <2> SUFFICES ASSUME LeaseInv, [Next]_vars PROVE LeaseInv'
    OBVIOUS
  <2>1. CASE Next
    BY <2>1, LaunchKeeps, StepKeeps DEF Next, Step
  <2>2. CASE UNCHANGED vars
    BY <2>2 DEF vars, LeaseInv, TypeOK, PlaceInv, LockInv, HolderInv, EnvInv, BornInv, ChildInv, Alive
  <2> QED
    BY <2>1, <2>2
<1> QED
  BY Initially, <1>1, PTL DEF Spec

-------------------------------------------------------------------------------
(* The theorems                                                            *)

(* Type correctness.                                                       *)
THEOREM Typed == Spec => []TypeOK
<1>1. LeaseInv => TypeOK
  BY DEF LeaseInv
<1> QED
  BY <1>1, Invariant, PTL

(* A borrower whose parents still lead to the owner it borrowed from has   *)
(* that owner holding the lock, whatever was killed.                       *)
THEOREM Borrowed == Spec => []BorrowedFromHolder
<1>1. ASSUME LeaseInv PROVE BorrowedFromHolder
  <2>1. SUFFICES ASSUME NEW p \in Users, owner[p] # p, Reaches(p, owner[p]) PROVE lock = owner[p]
    BY DEF BorrowedFromHolder
  <2>2. p \in Procs /\ Alive(p)
    BY LineageAssumption DEF Users, Alive
  <2>3. owner[p] \in Procs /\ pc[owner[p]] = "using"
    BY <1>1, <2>1, <2>2, WalkEndsInUse
  <2>4. owner[owner[p]] = owner[p]
    BY <1>1, <2>1, <2>2, <2>3, LineageAssumption DEF LeaseInv, HolderInv
  <2> QED
    BY <1>1, <2>3, <2>4 DEF LeaseInv, LockInv
<1> QED
  BY <1>1, Invariant, PTL

(* An ancestor alive after a step was alive before it.                     *)
LEMMA NoneReborn ==
  ASSUME LeaseInv, [Next]_vars, NEW p \in Procs, pc[p] # "unborn", NEW q \in Ancestors[p], Alive(q)'
  PROVE  q \in Procs /\ Alive(q)
<1>1. q \in Procs /\ pc[q] # "unborn"
  BY LineageAssumption DEF LeaseInv, BornInv
<1>2. \A r \in Procs : pc[r] = "gone" => pc'[r] = "gone"
  <2> USE DEF LeaseInv, TypeOK, Goto
  <2>1. ASSUME NEW s \in Procs, Launch(s) \/ TryLock(s) \/ TruncateRecord(s) \/ WriteRecord(s)
        PROVE  \A r \in Procs : pc[r] = "gone" => pc'[r] = "gone"
    BY <2>1 DEF Launch, TryLock, TruncateRecord, WriteRecord
  <2>2. ASSUME NEW s \in Procs, ReadRecord(s) \/ Decide(s) \/ Leave(s) \/ Unlock(s) \/ Exit(s) \/ Kill(s)
        PROVE  \A r \in Procs : pc[r] = "gone" => pc'[r] = "gone"
    BY <2>2 DEF ReadRecord, Decide, Leave, Unlock, Exit, Kill, Alive
  <2>3. CASE UNCHANGED vars
    BY <2>3 DEF vars
  <2> QED
    BY <2>1, <2>2, <2>3 DEF Next, Step
<1> QED
  BY <1>1, <1>2 DEF Alive

(* A process that its owner launched, at any depth, is never turned away.  *)
THEOREM Admitted == Spec => []FamilyAdmitted
<1>1. Init => FamilyAdmitted
  BY LineageAssumption DEF Init, FamilyAdmitted
<1>2. LeaseInv /\ FamilyAdmitted /\ [Next]_vars => FamilyAdmitted'
  <2> SUFFICES ASSUME LeaseInv, FamilyAdmitted, [Next]_vars,
                      NEW p \in Leasing, pc'[p] = "read", Reaches(p, env[p])'
               PROVE  text'[p] = env'[p]
    BY DEF FamilyAdmitted
  <2>1. p \in Procs
    BY LineageAssumption
  <2>2. CASE \E s \in Procs : ReadRecord(s) /\ s = p
    <3>1. ReadRecord(p) /\ Alive(p)
      BY <2>2 DEF ReadRecord, Alive
    <3>2. env' = env /\ text'[p] = record
      BY <3>1, <2>1 DEF ReadRecord, LeaseInv, TypeOK
    <3>3. Reaches(p, env[p])
      BY <3>1, <3>2, <2>1, NoneReborn DEF Reaches, Alive
    <3>4. env[p] \in Procs /\ pc[env[p]] = "using" /\ owner[env[p]] = env[p]
      BY <3>1, <3>3, <2>1, WalkEndsInUse DEF LeaseInv, EnvInv, Reaches
    <3> QED
      BY <3>2, <3>4 DEF LeaseInv, LockInv
  <2>3. CASE ~\E s \in Procs : ReadRecord(s) /\ s = p
    <3>1. pc[p] = "read" /\ text'[p] = text[p] /\ env'[p] = env[p]
      <4> USE <2>1, <2>3 DEF LeaseInv, TypeOK, Goto
      <4>1. ASSUME NEW s \in Procs, Launch(s) \/ TryLock(s) \/ TruncateRecord(s) \/ WriteRecord(s)
              PROVE  pc[p] = "read" /\ text'[p] = text[p] /\ env'[p] = env[p]
        BY <4>1 DEF Launch, TryLock, TruncateRecord, WriteRecord
      <4>2. ASSUME NEW s \in Procs, ReadRecord(s) \/ Decide(s) \/ Leave(s) \/ Unlock(s) \/ Exit(s) \/ Kill(s)
              PROVE  pc[p] = "read" /\ text'[p] = text[p] /\ env'[p] = env[p]
        BY <4>2 DEF ReadRecord, Decide, Leave, Unlock, Exit, Kill
      <4>3. CASE UNCHANGED vars
        BY <4>3 DEF vars
      <4> QED
        BY <4>1, <4>2, <4>3 DEF Next, Step
    <3>2. Reaches(p, env[p])
      BY <3>1, <2>1, NoneReborn DEF Reaches
    <3> QED
      BY <3>1, <3>2 DEF FamilyAdmitted
  <2> QED
    BY <2>2, <2>3
<1> QED
  BY <1>1, <1>2, Invariant, PTL DEF Spec

(* Without kills a process never outlives one above it.                    *)
UnkilledInv == kills = 0 => \A p \in Procs : Alive(p) => \A q \in Ancestors[p] : Alive(q)

LEMMA Unkilled == Spec => []UnkilledInv
<1>1. Init => UnkilledInv
  BY DEF Init, UnkilledInv, Alive
<1>2. LeaseInv /\ UnkilledInv /\ [Next]_vars => UnkilledInv'
  <2> SUFFICES ASSUME LeaseInv, UnkilledInv, [Next]_vars, kills' = 0,
                      NEW p \in Procs, Alive(p)', NEW q \in Ancestors[p]
               PROVE  Alive(q)'
    BY DEF UnkilledInv
  <2>1. q \in Procs
    BY LineageAssumption
  <2> USE <2>1 DEF LeaseInv, TypeOK, Goto, Alive
  <2>2. ASSUME NEW s \in Procs, Launch(s) PROVE Alive(q)'
    <3>1. kills = 0 /\ (\A r \in Procs : Alive(r) => Alive(r)')
      BY <2>2 DEF Launch
    <3>2. CASE p # s
      BY <3>1, <3>2, <2>2 DEF Launch, UnkilledInv
    <3>3. CASE p = s
      <4>1. Launcher[p] # Host /\ pc[Launcher[p]] = "using"
        BY <2>2, <3>3, LineageAssumption DEF Launch
      <4>2. Launcher[p] \in Procs /\ (q = Launcher[p] \/ q \in Ancestors[Launcher[p]])
        BY <4>1, Lineage
      <4> QED
        BY <3>1, <4>1, <4>2 DEF UnkilledInv
    <3> QED
      BY <3>2, <3>3
  <2>3. ASSUME NEW s \in Procs,
               \/ TryLock(s) \/ TruncateRecord(s) \/ WriteRecord(s) \/ ReadRecord(s)
               \/ Decide(s) \/ Leave(s) \/ Unlock(s) \/ Exit(s)
        PROVE  Alive(q)'
    <3>1. kills = 0 /\ Alive(p) /\ Alive(s) /\ (\A r \in Procs \ {s} : pc'[r] = pc[r])
      BY <2>3 DEF TryLock, TruncateRecord, WriteRecord, ReadRecord, Decide, Leave, Unlock, Exit
    <3>2. Alive(q)
      BY <3>1 DEF UnkilledInv
    <3>3. CASE q # s
      BY <3>1, <3>2, <3>3
    <3>4. CASE q = s
      <4>1. PICK c \in Procs : Launcher[c] = q /\ (c = p \/ (c \in Ancestors[p] /\ q \in Ancestors[c]))
        BY Between
      <4>2. Alive(c)
        BY <3>1, <4>1 DEF UnkilledInv
      <4>3. pc[q] = "using" /\ ~ChildrenGone(q)
        BY <3>2, <4>1, <4>2, LineageAssumption DEF ChildInv, ChildrenGone
      <4> QED
        BY <2>3, <3>4, <4>3 DEF TryLock, TruncateRecord, WriteRecord, ReadRecord, Decide, Leave, Unlock, Exit
    <3> QED
      BY <3>3, <3>4
  <2>4. ASSUME NEW s \in Procs, Kill(s) PROVE FALSE
    BY <2>4 DEF Kill
  <2>5. CASE UNCHANGED vars
    BY <2>5 DEF vars, UnkilledInv
  <2> QED
    BY <2>2, <2>3, <2>4, <2>5 DEF Next, Step
<1> QED
  BY <1>1, <1>2, Invariant, PTL DEF Spec

(* As long as nobody is killed, one program at a time drives the phone.    *)
THEOREM Exclusive == Spec => []OneProgramUnlessKilled
<1>1. ASSUME LeaseInv, UnkilledInv, BorrowedFromHolder PROVE OneProgramUnlessKilled
  <2> SUFFICES ASSUME kills = 0, NEW u \in Users
               PROVE  \E o \in Users : \A p \in Users : p = o \/ o \in Ancestors[p]
    BY DEF OneProgramUnlessKilled, OneProgram
  <2> USE <1>1, LineageAssumption DEF LeaseInv
  <2>1. ASSUME NEW p \in Users
        PROVE  lock = owner[p] /\ lock \in Users /\ (p = lock \/ lock \in Ancestors[p])
    <3>1. p \in Procs /\ Alive(p) /\ p \in Leasing /\ pc[p] = "using" /\ owner[p] # NoPid
      BY DEF Users, Alive, PlaceInv
    <3>2. CASE owner[p] = p
      BY <3>1, <3>2 DEF LockInv
    <3>3. CASE owner[p] # p
      <4>1. owner[p] \in Ancestors[p] /\ owner[p] \in Procs /\ owner[owner[p]] = owner[p]
        BY <3>1, <3>3 DEF HolderInv, TypeOK
      <4>2. Reaches(p, owner[p])
        BY <3>1, <4>1 DEF UnkilledInv, Reaches
      <4>3. lock = owner[p] /\ pc[owner[p]] = "using"
        BY <3>1, <3>3, <4>2, WalkEndsInUse DEF BorrowedFromHolder
      <4>4. owner[p] \in Leasing
        BY <4>1 DEF PlaceInv, TypeOK
      <4> QED
        BY <4>1, <4>3, <4>4 DEF Users
    <3> QED
      BY <3>2, <3>3
  <2> QED
    BY <2>1
<1> QED
  BY <1>1, Invariant, Unkilled, Borrowed, PTL
===============================================================================
