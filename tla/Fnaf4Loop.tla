------------------------------ MODULE Fnaf4Loop -------------------------------
(***************************************************************************)
(* The FNaF 4 community loop on the handset (fnaf4-run.ts, loopNight): the *)
(* two doors, the closet and the bed, each when it is due, and what the    *)
(* loop believes of the night while it walks between them.                 *)
(*                                                                         *)
(* What is left of a cycle is a stack of steps; a step may push more. Time *)
(* is kept as ages, in units of two seconds, each up to its own cap. What  *)
(* a listen hears and a light shows is any of what they may be.            *)
(***************************************************************************)
EXTENDS Integers, Sequences, FiniteSets

CONSTANTS
  FRESH, BED_EVERY, CLOSET_EVERY,   (* the loop's own periods              *)
  DoorTimes,    (* how long a run, a listen and its holds may take         *)
  ClosetTimes   (* how long a closet visit may take, the way out included  *)

(* Of the constants; assumed where they are given their values.           *)
LoopAssumption ==
  /\ {FRESH, BED_EVERY, CLOSET_EVERY} \subseteq Nat \ {0}
  /\ DoorTimes \subseteq Nat \ {0} /\ ClosetTimes \subseteq Nat \ {0}
  /\ \A T \in {DoorTimes, ClosetTimes} : \E n \in T : \A m \in T : m <= n      \* the holds are bounded

VARIABLES
  todo,         (* the steps left, the next one first                      *)
  where,        (* the view the loop last saw                              *)
  clear,        (* since each side's last lit, silent hall                 *)
  bedAge, closetAge,   (* since the bed was turned to, the closet entered  *)
  unresolved,   (* the sides left with someone breathing                   *)
  foxyInside,   (* the closet last showed him, or stood open               *)
  ret, entry,   (* he was seen running in on the cycle's last way home, on *)
                (* a bed's own                                             *)
  known,        (* he was seen in, and the closet not visited since        *)
  nightOver     (* the night's time is up, or a stop was asked for         *)

foxy == <<foxyInside, ret, entry, known>>
ages == <<clear, bedAge, closetAge>>
loopVars == <<todo, where, ages, unresolved, foxy, nightOver>>

Sides == {"L", "R"}
RoomOf == [L |-> "roomL", R |-> "roomR"]
DoorOf == [L |-> "doorL", R |-> "doorR"]
Largest(S) == CHOOSE n \in S : \A m \in S : m <= n
(* The longest a door, the way home and a closet may keep the loop.        *)
Episode == Largest(DoorTimes) + 1 + Largest(ClosetTimes)
ClearCap == FRESH + 2 * Episode

ROOM_VIEWS == {"hub", "roomL", "roomR"}

Do(op) == [op |-> op, side |-> "L"]
On(op, s) == [op |-> op, side |-> s]

(* Mutant: after the left door the right one is run to from wherever.      *)
CycleWithoutPan == <<On("pan", "L"), On("door", "L"), On("home", "L"), Do("bedIfDue"), Do("closetIfNeeded"),
            On("door", "R"), On("home", "R"), Do("bedIfDueAndNoEntry"), Do("closet"), Do("bed"), Do("cycle")>>

(* One cycle: left, right, closet, bed, what is due in between.            *)
Cycle == <<On("pan", "L"), On("door", "L"), On("home", "L"), Do("bedIfDue"), Do("closetIfNeeded"),
            On("pan", "R"), On("door", "R"), On("home", "R"), Do("bedIfDueAndNoEntry"), Do("closet"), Do("bed"), Do("cycle")>>

LoopInit ==
  /\ todo = Cycle /\ where = "roomL"
  /\ clear = [s \in Sides |-> ClearCap] /\ bedAge = 0 /\ closetAge = 0
  /\ unresolved = {} /\ foxyInside = FALSE /\ ret = FALSE /\ entry = FALSE /\ known = FALSE /\ nightOver = FALSE

Upto(cap, n) == IF n > cap THEN cap ELSE n
clearAfter(d) == [s \in Sides |-> Upto(ClearCap, clear[s] + d)]
bedAfter(d) == Upto(BED_EVERY + 1, bedAge + d)
closetAfter(d) == Upto(CLOSET_EVERY + 1, closetAge + d)
Ahead(op) == todo # <<>> /\ Head(todo).op = op
side == Head(todo).side
Then(steps) == todo' = steps \o Tail(todo)

(* The night's end is looked for between two cycles.                       *)
NightOver ==
  /\ ~nightOver /\ nightOver' = TRUE
  /\ UNCHANGED <<todo, where, ages, unresolved, foxy>>

(* A view never came back: the night is over, and the loop with it.        *)
ViewLost ==
  /\ todo # <<>> /\ todo' = <<>>
  /\ UNCHANGED <<where, ages, unresolved, foxy, nightOver>>

NewCycle ==
  /\ Ahead("cycle") /\ todo' = IF nightOver THEN <<>> ELSE Cycle
  /\ UNCHANGED <<where, ages, unresolved, foxy, nightOver>>

Pan ==
  /\ Ahead("pan") /\ where' = RoomOf[side] /\ Then(<<>>)
  /\ UNCHANGED <<ages, unresolved, foxy, nightOver>>

(* Run to the door, listen; hold it shut and listen again, five times at   *)
(* most. A hall judged clear is lit; any other is left as it is.           *)
Door ==
  /\ Ahead("door")
  /\ \E d \in DoorTimes :
       /\ bedAge' = bedAfter(d) /\ closetAge' = closetAfter(d)
       /\ \/ clear' = [clearAfter(d) EXCEPT ![side] = 0] /\ unresolved' = unresolved \ {side}
          \/ clear' = clearAfter(d) /\ unresolved' = unresolved \union {side}
  /\ where' = DoorOf[side] /\ Then(<<>>)
  /\ UNCHANGED <<foxy, nightOver>>

(* Back: to the hub, or to the door's own side if Foxy ran in behind; a    *)
(* closet that stands open is seen from the hub. A bed's own visit keeps   *)
(* what it saw apart from the cycle's.                                     *)
Home ==
  /\ Ahead("home") \/ Ahead("homeIn")
  /\ clear' = clearAfter(1) /\ bedAge' = bedAfter(1) /\ closetAge' = closetAfter(1)
  /\ \E ran, open \in BOOLEAN :
       /\ ~(ran /\ open)
       /\ where' = IF ran THEN RoomOf[side] ELSE "hub"
       /\ foxyInside' = (foxyInside \/ open) /\ known' = (known \/ ran \/ open)
       /\ IF Ahead("home") THEN ret' = ran /\ UNCHANGED entry ELSE entry' = ran /\ UNCHANGED ret
  /\ Then(<<>>)
  /\ UNCHANGED <<unresolved, nightOver>>

bedDue == bedAge > BED_EVERY /\ unresolved = {}
closetDue == closetAge > CLOSET_EVERY

BedIfDue ==
  /\ \/ Ahead("bedIfDue") /\ Then(IF bedDue THEN <<Do("bed")>> ELSE <<>>)
     \/ Ahead("bedIfDueAndNoEntry") /\ Then(IF bedDue /\ ~ret THEN <<Do("bed")>> ELSE <<>>)
  /\ UNCHANGED <<where, ages, unresolved, foxy, nightOver>>

(* Mutant: on the left side the closet waits for its own period.           *)
ClosetIfDueOnly ==
  /\ \/ Ahead("closetIfNeeded") /\ Then(IF foxyInside \/ closetDue THEN <<Do("closet")>> ELSE <<>>)
     \/ Ahead("closetIfEntry") /\ Then(IF entry THEN <<Do("closet")>> ELSE <<>>)
  /\ UNCHANGED <<where, ages, unresolved, foxy, nightOver>>

ClosetIfNeeded ==
  /\ \/ Ahead("closetIfNeeded") /\ Then(IF ret \/ foxyInside \/ closetDue THEN <<Do("closet")>> ELSE <<>>)
     \/ Ahead("closetIfEntry") /\ Then(IF entry THEN <<Do("closet")>> ELSE <<>>)
  /\ UNCHANGED <<where, ages, unresolved, foxy, nightOver>>

(* Toward the middle, in, a light, a hold if he is there, a light again;   *)
(* out, and a full pan right.                                              *)
Closet ==
  /\ Ahead("closet")
  /\ \E d \in ClosetTimes : clear' = clearAfter(d) /\ bedAge' = bedAfter(d) /\ closetAge' = Upto(CLOSET_EVERY + 1, d)
  /\ foxyInside' \in BOOLEAN /\ known' = FALSE
  /\ where' = "roomR" /\ Then(<<>>)
  /\ UNCHANGED <<ret, entry, unresolved, nightOver>>

Stale == {s \in Sides : clear[s] > FRESH}
Visit(s) == IF s \in Stale THEN <<On("pan", s), On("door", s), On("homeIn", s), Do("closetIfEntry")>> ELSE <<>>

(* Mutant: a stale door is not checked before the bed.                     *)
BedAtOnce ==
  /\ Ahead("bed") /\ Then(<<Do("turn")>>)
  /\ UNCHANGED <<where, ages, unresolved, foxy, nightOver>>

(* Before the bed every door gone stale, as they stand now, left first.    *)
Bed ==
  /\ Ahead("bed") /\ Then(Visit("L") \o Visit("R") \o <<Do("turn")>>)
  /\ UNCHANGED <<where, ages, unresolved, foxy, nightOver>>

(* The turn, unless someone still breathes at a door; the bed lit until it *)
(* reads empty, and the turn back.                                         *)
Turn ==
  /\ Ahead("turn") /\ unresolved = {}
  /\ clear' = clearAfter(1) /\ closetAge' = closetAfter(1) /\ bedAge' = 1
  /\ where' \in ROOM_VIEWS /\ Then(<<>>)
  /\ UNCHANGED <<unresolved, foxy, nightOver>>

SkipTurn ==
  /\ Ahead("turn") /\ unresolved # {} /\ Then(<<>>)
  /\ UNCHANGED <<where, ages, unresolved, foxy, nightOver>>

LoopStep == ViewLost \/ NewCycle \/ Pan \/ Door \/ Home \/ BedIfDue \/ ClosetIfNeeded \/ Closet \/ Bed \/ Turn \/ SkipTurn
LoopNext == NightOver \/ LoopStep

LoopSpec == LoopInit /\ [][LoopNext]_loopVars /\ WF_loopVars(LoopStep)

-------------------------------------------------------------------------------
(* Every variable stays in its set; an unresolved side is not a clear one. *)
LoopTypeOK ==
  /\ \A i \in DOMAIN todo : todo[i].side \in Sides
  /\ where \in ROOM_VIEWS \union {"doorL", "doorR"}
  /\ clear \in [Sides -> 0..ClearCap] /\ bedAge \in 0..(BED_EVERY + 1) /\ closetAge \in 0..(CLOSET_EVERY + 1)
  /\ unresolved \subseteq Sides /\ {foxyInside, ret, entry, known, nightOver} \subseteq BOOLEAN

(* When the bed is turned to, each hall was last lit and silent at most    *)
(* one door's episode longer ago than the loop allows, or than the closet  *)
(* took after it.                                                          *)
BedWithinAnEpisode ==
  [][Turn => \A s \in Sides : clear[s] <= Episode + Largest({FRESH, 1 + Largest(ClosetTimes)})]_loopVars

(* A door is run to from its own side of the room: the tap lands elsewhere *)
(* from any other.                                                         *)
DoorFromItsRoom == [][Door => where = RoomOf[side]]_loopVars

(* A Foxy seen in is gone to before the cycle's run to the right door.       *)
FoxyRevisited == [][Door /\ side = "R" /\ Len(todo) = 6 => ~known]_loopVars

(* FNaF 4's bed is turned to only over halls lit not longer ago than one    *)
(* door's episode allows, and a Foxy seen in is gone to before the right    *)
(* door is run to, from its own side of the room.                           *)
BedroomSwept == BedWithinAnEpisode /\ FoxyRevisited /\ DoorFromItsRoom

(* fnaf4-run.ts:742-743: "a bed turn needs both doors cleared within       *)
(* (20 - night - 4) s, and a stale door is checked first."                 *)
BedFresh == [][Turn => \A s \in Sides : clear[s] <= FRESH]_loopVars

(* fnaf4-run.ts:479-481: the bed turn kills with Foxy's attack full, "so   *)
(* it is taken when all three were just cleared".                          *)
ClosetBeforeBed == [][Turn => ~known]_loopVars

(* night-kit.ts: "Ctrl-C and SIGTERM both end a runner's night at its next *)
(* step".                                                                  *)
StopsAtNextStep == [][nightOver => ~Door]_loopVars
===============================================================================
