----------------------------- MODULE Fnaf3Track -------------------------------
(***************************************************************************)
(* The FNaF 3 loop's picture of Springtrap (fnaf3-run.ts, loopNight): the  *)
(* camera he was last seen on, the vent believed sealed, and the search    *)
(* for him ring by ring when a second look at that camera missed too.      *)
(*                                                                         *)
(* He moves along his edges MOVES times. A look that misses him or takes   *)
(* another for him, a view that does not come, a bar that never reads red  *)
(* and a service in the middle of a search are misses, MISSES in a run.    *)
(***************************************************************************)
EXTENDS Integers, Sequences, FiniteSets, SequencesExt

CONSTANTS MOVES, MISSES, LURES   (* LURES: before audio breaks             *)
(* Of the constants; assumed where they are given their values.           *)
TrackAssumption == {MOVES, MISSES, LURES} \subseteq Nat

VARIABLES
  him,           (* his camera or vent, 0 on the attack chain              *)
  bar,           (* the vent the game has sealed, 0 none                   *)
  seen, lost,    (* where he was last seen, 0 nowhere; he left it          *)
  sealed,        (* the vent whose bar last read red                       *)
  lures,         (* played since audio was rebooted                        *)
  rest,          (* cameras this search has still to look at               *)
  at, moves, misses

belief == <<seen, lost, sealed>>
trackVars == <<him, bar, belief, lures, rest, at, moves, misses>>

Vents == 11..15
Spots == 2..15
(* Where one move takes him; from 2 and 3 also onto the attack chain.      *)
NEXT == [n \in 1..15 |->
  CASE n = 10 -> {9, 14} [] n = 9 -> {10, 8, 11} [] n = 8 -> {9, 7, 5} [] n = 7 -> {8, 6, 12} [] n = 6 -> {7, 5}
    [] n = 5 -> {6, 2, 4, 13} [] n = 2 -> {5, 4, 15} [] n = 4 -> {2, 3} [] n = 3 -> {4} [] n = 1 -> {}
    [] n = 11 -> {9} [] n = 12 -> {7} [] n = 13 -> {5} [] n = 14 -> {10} [] n = 15 -> {2}]
VENT_OF == [n \in 0..15 |-> CASE n = 10 -> 14 [] n = 9 -> 11 [] n = 7 -> 12 [] n = 5 -> 13 [] n = 2 -> 15 [] OTHER -> 0]
DANGER == [n \in 1..15 |-> CASE n \in {14, 15} -> 0 [] n \in {11, 12} -> 1 [] n = 13 -> 2 [] OTHER -> 9]
Cameras == <<10, 9, 8, 7, 6, 5, 2, 4, 3>>
NEAR_OFFICE == {1, 2, 3, 4, 13, 15}
HERD == [n \in 0..15 |-> CASE n = 2 -> 5 [] n = 3 -> 2 [] n = 4 -> 2 [] n = 5 -> 6 [] OTHER -> 0]

(* A ring's own order is by danger; equals stand in the order they were    *)
(* reached, which nothing here tells apart from any other.                 *)
Sorted(S) == SetToSortSeq(S, LAMBDA a, b : DANGER[a] < DANGER[b] \/ (DANGER[a] = DANGER[b] /\ a > b))

(* The cameras to look at, nearest ring first, then those no ring reached. *)
searchOrder == [from \in Spots \union {0} |->
  LET within[k \in 0..10] == IF k = 0 THEN {from} ELSE LET S == within[k - 1] IN S \union UNION {NEXT[n] : n \in S}
      rings == <<from>> \o FlattenSeq([k \in 1..10 |-> Sorted(within[k] \ within[k - 1])])
  IN IF from = 0 THEN Cameras ELSE rings \o SelectSeq(Cameras, LAMBDA n : n \notin ToSet(rings))]

TrackInit ==
  /\ him = 10 /\ bar = 0 /\ seen = 0 /\ lost = FALSE /\ sealed = 0 /\ lures = 0
  /\ rest = <<>> /\ at = "head" /\ moves = MOVES /\ misses = MISSES

GoOn(l) == at' = l
Miss(s) == LET n == Cardinality({i \in DOMAIN s : s[i]}) IN n <= misses /\ misses' = misses - n

(* He moves; the sealed vent turns him back.                               *)
Moves ==
  /\ moves > 0 /\ moves' = moves - 1
  /\ him' \in (IF him = 0 THEN {2} ELSE NEXT[him] \ {bar}) \union (IF him \in {2, 3} THEN {0} ELSE {})
  /\ UNCHANGED <<bar, belief, lures, rest, at, misses>>

(* Mutant: the vent counts as sealed once it was tapped.                   *)
SealsOnTap(v, unread) == bar' \in (IF unread THEN {bar, v} ELSE {v}) /\ sealed' = v

(* seal: the double tap, and the bar reads red; or the tap is lost, or the *)
(* bar is not seen to turn.                                                *)
Seals(v, unread) ==
  IF unread THEN bar' \in {bar, v} /\ UNCHANGED sealed ELSE bar' = v /\ sealed' = v
NoSeal == UNCHANGED <<bar, sealed>>

(* lureAt: audio plays where it is not broken, and he comes or not.        *)
Lured(n) == lures < LURES /\ lures' = lures + 1 /\ him' \in {him, n}
NoLure == UNCHANGED <<lures, him>>

(* A service, which may have rebooted audio; then the camera he is on, or  *)
(* the search.                                                             *)
Round ==
  /\ at = "head" /\ lures' \in {lures, IF lures = LURES THEN 0 ELSE lures}
  /\ IF seen # 0 /\ ~lost THEN GoOn("watch") /\ UNCHANGED rest ELSE GoOn("search") /\ rest' = searchOrder[seen]
  /\ UNCHANGED <<him, bar, belief, moves, misses>>

(* Found where he was: lured on if that leads away from the office, else   *)
(* his vent is sealed unless the picture says that he will not take it. No *)
(* view, no conclusion.                                                    *)
Watch ==
  /\ at = "watch" /\ UNCHANGED <<lost, rest, moves>>
  /\ \E slip, unread \in BOOLEAN :
       /\ Miss(<<slip, unread>>)
       /\ \/ slip /\ GoOn("head") /\ NoSeal /\ NoLure /\ UNCHANGED seen
          \/ (him = seen) = slip /\ GoOn("again") /\ NoSeal /\ NoLure /\ UNCHANGED seen
          \/ /\ (him = seen) # slip /\ GoOn("head")
             /\ \/ HERD[seen] # 0 /\ Lured(HERD[seen]) /\ seen' = HERD[seen] /\ NoSeal
                \/ NoLure /\ UNCHANGED seen /\ VENT_OF[seen] \notin {0, sealed} /\ Seals(VENT_OF[seen], unread)
                \/ NoLure /\ UNCHANGED seen /\ (VENT_OF[seen] \in {0, sealed} \/ seen \in {2, 5}) /\ NoSeal

(* Mutant: one look that misses him is enough to have lost him.            *)
LookAgainNever ==
  /\ at = "again" /\ GoOn("left") /\ lost' = TRUE
  /\ UNCHANGED <<him, bar, seen, sealed, lures, rest, moves, misses>>

(* A second look must miss him too.                                        *)
LookAgain ==
  /\ at = "again"
  /\ \E slip \in BOOLEAN :
       /\ Miss(<<slip>>)
       /\ IF (him = seen) # slip THEN GoOn("head") /\ UNCHANGED lost ELSE GoOn("left") /\ lost' = TRUE
  /\ UNCHANGED <<him, bar, seen, sealed, lures, rest, moves>>

(* He left: the vent beside that camera, and near the office a lure to 2.  *)
Left ==
  /\ at = "left" /\ GoOn("search")
  /\ \E unread \in BOOLEAN :
       /\ Miss(<<unread>>)
       /\ IF VENT_OF[seen] \notin {0, sealed} /\ seen # 2 THEN Seals(VENT_OF[seen], unread) ELSE NoSeal
  /\ \/ seen \in NEAR_OFFICE /\ Lured(2) /\ seen' = 2
     \/ NoLure /\ UNCHANGED seen
  /\ rest' = searchOrder[seen']
  /\ UNCHANGED <<lost, moves>>

(* Mutant: he is found, and still lost.                                    *)
LookStillLost ==
  /\ at = "search" /\ rest # <<>>
  /\ LET n == rest[1] IN
     \E slip, unread \in BOOLEAN :
       /\ Miss(<<slip, unread>>)
       /\ IF (n \in Vents /\ sealed = n) \/ (him = n) = slip
          THEN rest' = Tail(rest) /\ UNCHANGED <<seen, sealed, bar, at>>
          ELSE /\ seen' = n /\ rest' = <<>> /\ GoOn("head")
               /\ IF n \in Vents THEN Seals(n, unread) ELSE NoSeal
  /\ UNCHANGED <<him, lost, lures, moves>>

(* One camera of the search; the vent believed sealed is passed over. A    *)
(* sighting ends it, and seals the vent he is in.                          *)
Look ==
  /\ at = "search" /\ rest # <<>>
  /\ LET n == rest[1] IN
     \E slip, unread \in BOOLEAN :
       /\ Miss(<<slip, unread>>)
       /\ IF (n \in Vents /\ sealed = n) \/ (him = n) = slip
          THEN rest' = Tail(rest) /\ UNCHANGED <<belief, bar, at>>
          ELSE /\ seen' = n /\ lost' = FALSE /\ rest' = <<>> /\ GoOn("head")
               /\ IF n \in Vents THEN Seals(n, unread) ELSE NoSeal
  /\ UNCHANGED <<him, lures, moves>>

(* A service in the middle ends the search as well.                        *)
Serviced ==
  /\ at = "search" /\ rest # <<>> /\ Miss(<<TRUE>>) /\ GoOn("unfound")
  /\ UNCHANGED <<him, bar, belief, lures, rest, moves>>

Exhausted ==
  /\ at = "search" /\ rest = <<>> /\ GoOn("unfound")
  /\ UNCHANGED <<him, bar, belief, lures, rest, moves, misses>>

(* Not found: a lure near the office; a sighting 15 s old is forgotten.    *)
NotFound ==
  /\ at = "unfound" /\ GoOn("head")
  /\ (seen \in NEAR_OFFICE /\ Lured(2)) \/ NoLure
  /\ seen' \in {seen, 0} /\ rest' = <<>>
  /\ UNCHANGED <<bar, lost, sealed, moves, misses>>

TrackLoop == Round \/ Watch \/ LookAgain \/ Left \/ Look \/ Serviced \/ Exhausted \/ NotFound
TrackNext == Moves \/ TrackLoop
TrackSpec == TrackInit /\ [][TrackNext]_trackVars /\ WF_trackVars(TrackLoop)

-------------------------------------------------------------------------------
(* Every variable stays in its set.                                        *)
TrackTypeOK ==
  /\ him \in Spots \union {0} /\ seen \in Spots \union {0} /\ {bar, sealed} \subseteq Vents \union {0}
  /\ lost \in BOOLEAN /\ lures \in 0..LURES /\ ToSet(rest) \subseteq Spots
  /\ moves \in 0..MOVES /\ misses \in 0..MISSES

(* What the loop believes sealed only ever changes to what the game has    *)
(* sealed; a bar that turned unseen leaves the older belief.               *)
SealBelief == [][sealed' # sealed => sealed' = bar']_trackVars

(* He is not given up on one look: while he has not moved at all, losing   *)
(* him takes two that missed him.                                          *)
OneMissIsNotLost == [][LookAgain /\ lost' /\ him = seen /\ moves = MOVES => misses' + 2 <= MISSES]_trackVars

(* On the camera he stays on after his last move, the loop comes to watch   *)
(* him.                                                                    *)
ComesToWatch == moves = 0 /\ him \in 2..10 ~> seen = him /\ ~lost

(* The loop's log: "not found in a full search".                           *)
FullSearch == [][NotFound => rest = <<>>]_trackVars
===============================================================================
