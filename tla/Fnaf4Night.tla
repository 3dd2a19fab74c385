----------------------------- MODULE Fnaf4Night -------------------------------
(***************************************************************************)
(* FNaF 4's night as the exact core plays it (sim-fnaf4.ts): what a policy *)
(* does, then one frame, its rules in the event sheet's group order.       *)
(*                                                                         *)
(* The player is at a station, walking or turning from the bed; a policy   *)
(* holds one control of its station and none on the way, as those of       *)
(* policy-fnaf4.ts do. Whether a timer fires or a roll passes is left      *)
(* open; walks, fuses and dwells are constants smaller than the game's,    *)
(* and a counter stops where no rule tells more of it apart.               *)
(***************************************************************************)
EXTENDS Integers

CONSTANTS
  AwakeFirst, AwakeLater, LATE,  (* who has a level above 0, before, from LATE *)
  Stations, Forced,      (* where the policy goes; the hours drawn         *)
  LAST_HOUR, WALK, TURN, GOTYOU, KILL, ARM, METER, FUSES, FIXED, DWELL, LONG,
  IDLE, WATCH, STARE, BED, CHECK, HALL, STILL

Animatronics == {"freddy", "bonnie", "chica", "foxy", "fredbear"}
Walkers == {"bonnie", "chica"}
DoorFor == [bonnie |-> "leftDoor", chica |-> "rightDoor"]
Doors == {"leftDoor", "rightDoor"}
Places == Doors \union {"closet", "bed"}
(* Of the constants; assumed where they are given their values.           *)
BedroomAssumption ==
  /\ AwakeFirst \union AwakeLater \subseteq Animatronics /\ Stations \subseteq Places
  /\ Forced \subseteq Nat /\ FUSES \subseteq Nat \ {0, 1}
  /\ {LAST_HOUR, LATE, WALK, TURN, GOTYOU, KILL, ARM, METER, FIXED, DWELL, LONG, IDLE, WATCH, STARE, BED, CHECK, HALL, STILL} \subseteq Nat \ {0}
  /\ CHECK > 1         (* ten seconds of the game, a second per tick        *)

VARIABLES
  rule, ended,           (* the next rule; "", or how the night ended      *)
  hourNow, forceHour,
  follow, hand, walkLeft, pendingStation, turning, pendingAfterTurn, forceTurn,
  foxy, foxyAv2, foxyGotYou,
  zone, pulse, tag, interlock, av6, av7,
  freddyCounter, blackFlash, counterWas80, idleSec, bedWatchSec,
  fredbear, fbSpawned, fbAv6, fbStare, fbAv19, idleFredSec, fredcheck,
  asked, watched, turned, resolved     (* history: see the properties      *)

hours == <<hourNow, forceHour>>
player == <<follow, hand, walkLeft, pendingStation, turning, pendingAfterTurn, forceTurn>>
foxyVars == <<foxy, foxyAv2, foxyGotYou>>
halls == <<zone, pulse, tag, interlock>>
bedroom == <<av6, av7>>
meter == <<freddyCounter, blackFlash, counterWas80>>
idle == <<idleSec, bedWatchSec, idleFredSec>>
bear == <<fredbear, fbSpawned, fbAv6, fbStare, fbAv19, fredcheck>>
history == <<asked, watched, turned, resolved>>
bedroomVars == <<rule, ended, hours, player, foxyVars, halls, bedroom, meter, idle, bear, history>>

NoOne == [w \in Walkers |-> 0]
BedroomInit ==
  /\ rule = "policy" /\ ended = "" /\ hourNow = 0
  /\ forceHour \in [Walkers -> Forced]
  /\ follow = "hub" /\ hand = "none" /\ walkLeft = 0 /\ pendingStation = "hub"
  /\ turning = 0 /\ pendingAfterTurn = "hub" /\ forceTurn = FALSE
  /\ foxy = "away" /\ foxyAv2 = 0 /\ foxyGotYou = FALSE
  /\ zone = [w \in Walkers |-> "center"] /\ pulse = NoOne /\ tag = NoOne /\ interlock = 0
  /\ av6 = NoOne /\ av7 = NoOne
  /\ freddyCounter = 0 /\ blackFlash = 0 /\ counterWas80 = FALSE
  /\ idleSec = 0 /\ bedWatchSec = 0 /\ idleFredSec = 0
  /\ fredbear = "off" /\ fbSpawned = FALSE /\ fbAv6 = 0 /\ fbStare = NoOne /\ fbAv19 = 0 /\ fredcheck = FALSE
  /\ asked = FALSE /\ watched = FALSE /\ turned = FALSE /\ resolved = 0

Due(l) == rule = l
Leads(l) == rule' = l
Lesser(a, b) == IF a < b THEN a ELSE b
Greater(a, b) == IF a > b THEN a ELSE b
awake == IF hourNow >= LATE THEN AwakeLater ELSE AwakeFirst
walking == walkLeft > 0 \/ turning > 0
shut(w) == hand = "shut" /\ follow = DoorFor[w]
listening(w) == hand = "listen" /\ follow = DoorFor[w]
viewingHall(w) == hand = "flash" /\ follow = DoorFor[w]
viewingBed == hand = "bed"
viewingCloset == follow = "closet" /\ hand # "closet"

(* The first cause stands.                                                 *)
Kills(cause) == ended' = IF ended = "" THEN cause ELSE ended
Spares == UNCHANGED ended

Hands(s) == {"none"} \union CASE s \in Doors -> {"listen", "shut", "flash"} [] s = "hub" -> {} [] OTHER -> {s}

(* The policy holds a control where it stands, and lets go on the way.     *)
Hold ==
  /\ Due("policy") /\ ended = "" /\ Leads("arrive")
  /\ hand' \in IF walking THEN {"none"} ELSE Hands(follow)
  /\ turned' = FALSE
  /\ UNCHANGED <<ended, hours, follow, walkLeft, pendingStation, turning, pendingAfterTurn, forceTurn,
                 foxyVars, halls, bedroom, meter, idle, bear, asked, watched, resolved>>

beginBedTurn == turning' = TURN /\ pendingAfterTurn' = "hub"

(* Off the bed, the turn comes first.                                      *)
goTo(s) ==
  /\ Due("policy") /\ ended = "" /\ ~walking /\ follow # s /\ Leads("arrive")
  /\ hand' = "none" /\ turned' = FALSE
  /\ IF follow = "bed"
     THEN beginBedTurn /\ asked' = TRUE /\ UNCHANGED <<walkLeft, pendingStation>>
     ELSE walkLeft' = WALK /\ pendingStation' = s /\ UNCHANGED <<turning, pendingAfterTurn, asked>>
  /\ UNCHANGED <<ended, hours, follow, forceTurn, foxyVars, halls, bedroom, meter, idle, bear, watched, resolved>>

Arrivals ==
  /\ Due("arrive") /\ Leads("clock")
  /\ walkLeft' = Greater(0, walkLeft - 1)
  /\ IF walkLeft = 1
     THEN follow' = pendingStation /\ IF foxyGotYou THEN Kills("foxy") ELSE Spares
     ELSE UNCHANGED follow /\ Spares
  /\ UNCHANGED <<hours, hand, pendingStation, turning, pendingAfterTurn, forceTurn, foxyVars, halls, bedroom, meter, idle, bear, history>>

(* An hour may pass, the last one ending the frame; the forced appearance  *)
(* comes while the player is at the hub.                                   *)
HourPasses ==
  /\ Due("clock")
  /\ \E passes \in {0, 1} : hourNow' = hourNow + passes
  /\ IF hourNow' = LAST_HOUR
     THEN Leads("policy") /\ ended' = "6AM" /\ UNCHANGED <<forceHour, zone, tag>>
     ELSE /\ Leads("foxy") /\ Spares
          /\ LET comes(w) == forceHour[w] > 0 /\ forceHour[w] <= hourNow' /\ follow = "hub" /\ ~foxyGotYou
             IN /\ zone' = [w \in Walkers |-> IF comes(w) THEN "near" ELSE zone[w]]
                /\ tag' = [w \in Walkers |-> IF comes(w) THEN 2 ELSE tag[w]]
                /\ forceHour' = [w \in Walkers |-> IF comes(w) THEN 0 ELSE forceHour[w]]
  /\ UNCHANGED <<player, foxyVars, pulse, interlock, bedroom, meter, idle, bear, history>>

FOXY_CHAIN == [away |-> "centre", centre |-> "living", living |-> "hall", hall |-> "closet", closet |-> "closet"]

(* A pulse walks him, or feeds him in the closet; the hold bleeds him.     *)
FoxyWalks ==
  /\ Due("foxy") /\ Leads("halls")
  /\ \E pulsed, bled \in BOOLEAN :
       /\ pulsed => "foxy" \in awake
       /\ bled => follow = "closet" /\ hand = "closet"
       /\ LET next == FOXY_CHAIN[foxy]
              blocked == next = "hall" /\ \E w \in Walkers : viewingHall(w)
          IN foxy' = IF pulsed /\ ~blocked THEN next ELSE foxy
       /\ LET fed == foxyAv2 + (IF pulsed /\ foxy' = "closet" /\ ~viewingCloset THEN 1 ELSE 0)
          IN foxyAv2' = Lesser(GOTYOU + 1, IF bled THEN Greater(0, fed - 1) ELSE fed)
  /\ foxyGotYou' = (foxyAv2' >= GOTYOU)
  /\ UNCHANGED <<ended, hours, player, halls, bedroom, meter, idle, bear, history>>

(* One leg per pulse; at near it waits for the ten-second timer.           *)
Walked(w, p, retreats) ==
  IF p = 0 THEN zone[w]
  ELSE CASE zone[w] = "center" -> "living"
         [] zone[w] = "living" -> IF viewingHall(w) THEN "center" ELSE "far"
         [] zone[w] = "far"    -> "near"
         [] OTHER              -> IF retreats THEN "far" ELSE "near"
TagAt(w, z) ==
  IF z = zone[w] THEN tag[w]
  ELSE CASE z = "far" -> 1 [] z = "near" -> 2 [] z = "center" -> 0 [] OTHER -> tag[w]

(* The rolls, gated by the hand on that side's door; the legs.             *)
Halls ==
  /\ Due("halls") /\ Leads("doors")
  /\ \E rolled \in SUBSET (Walkers \intersect awake), retreats \in SUBSET {w \in Walkers : zone[w] = "near"} :
       LET gated(w) == listening(w) \/ shut(w) \/ interlock = 2
           p(w) == IF listening(w) \/ interlock = 1 THEN 0 ELSE IF w \in rolled /\ ~gated(w) THEN 1 ELSE pulse[w]
           to(w) == Walked(w, p(w), w \in retreats)
       IN /\ zone' = [w \in Walkers |-> to(w)]
          /\ tag' = [w \in Walkers |-> TagAt(w, to(w))]
          /\ pulse' = [w \in Walkers |-> IF to(w) # zone[w] THEN 0 ELSE p(w)]
  /\ UNCHANGED <<ended, hours, player, foxyVars, interlock, bedroom, meter, idle, bear, history>>

(* Mutant: the interlock is armed again while a door is shut.              *)
DoorsEager ==
  /\ Due("doors") /\ Leads("turn")
  /\ \E dismisses \in BOOLEAN :
       LET summoned(w) == shut(w) /\ tag[w] = 1
           dismissed(w) == shut(w) /\ tag[w] = 2 /\ zone[w] = "near" /\ dismisses
           sent(w) == viewingHall(w) /\ zone[w] = "far"
       IN /\ zone' = [w \in Walkers |-> CASE summoned(w) -> "near" [] dismissed(w) -> "living" [] sent(w) -> "center" [] OTHER -> zone[w]]
          /\ tag' = [w \in Walkers |-> CASE summoned(w) -> 2 [] sent(w) -> 0 [] OTHER -> tag[w]]
          /\ interlock' = IF \E w \in Walkers : summoned(w) THEN 1 ELSE IF \E w \in Walkers : dismissed(w) THEN 2 ELSE interlock
          /\ resolved' = IF \A w \in Walkers : ~shut(w) THEN 0
                         ELSE resolved + (IF \E w \in Walkers : summoned(w) \/ dismissed(w) THEN 1 ELSE 0)
  /\ IF \E w \in Walkers : viewingHall(w) /\ zone[w] = "near" THEN Kills("flash") ELSE Spares
  /\ UNCHANGED <<hours, player, foxyVars, pulse, bedroom, meter, idle, bear, asked, watched, turned>>

(* A shut door summons from far or, the interlock armed again by two open  *)
(* doors, dismisses from near; the light kills at near and sends home from *)
(* far.                                                                    *)
DoorsAndFlashlight ==
  /\ Due("doors") /\ Leads("turn")
  /\ \E dismisses \in BOOLEAN :
       LET lock == IF \E w \in Walkers : shut(w) THEN interlock ELSE 0
           summoned(w) == shut(w) /\ lock = 0 /\ tag[w] = 1
           dismissed(w) == shut(w) /\ lock = 0 /\ tag[w] = 2 /\ zone[w] = "near" /\ dismisses
           sent(w) == viewingHall(w) /\ zone[w] = "far"
       IN /\ zone' = [w \in Walkers |-> CASE summoned(w) -> "near" [] dismissed(w) -> "living" [] sent(w) -> "center" [] OTHER -> zone[w]]
          /\ tag' = [w \in Walkers |-> CASE summoned(w) -> 2 [] sent(w) -> 0 [] OTHER -> tag[w]]
          /\ interlock' = IF \E w \in Walkers : summoned(w) THEN 1 ELSE IF \E w \in Walkers : dismissed(w) THEN 2 ELSE lock
          /\ resolved' = IF \A w \in Walkers : ~shut(w) THEN 0
                         ELSE resolved + (IF \E w \in Walkers : summoned(w) \/ dismissed(w) THEN 1 ELSE 0)
  /\ IF \E w \in Walkers : viewingHall(w) /\ zone[w] = "near" THEN Kills("flash") ELSE Spares
  /\ UNCHANGED <<hours, player, foxyVars, pulse, bedroom, meter, idle, bear, asked, watched, turned>>

(* The turn from the bed: the kills, or the hub and, if one is pending,    *)
(* the walk on.                                                            *)
resolveBedTurn ==
  /\ asked' = FALSE /\ watched' = FALSE /\ turned' = TRUE
  /\ CASE av7["bonnie"] = 1 -> Kills("bonnie-bedroom") /\ UNCHANGED <<follow, walkLeft, pendingStation, fredcheck>>
       [] av7["bonnie"] = 0 /\ av7["chica"] = 1 -> Kills("chica-bedroom") /\ UNCHANGED <<follow, walkLeft, pendingStation, fredcheck>>
       [] av7 = NoOne /\ foxyGotYou -> Kills("foxy") /\ UNCHANGED <<follow, walkLeft, pendingStation, fredcheck>>
       [] OTHER -> /\ Spares /\ fredcheck' = TRUE /\ follow' = "hub"
                   /\ IF pendingAfterTurn # "hub" THEN walkLeft' = WALK /\ pendingStation' = pendingAfterTurn
                      ELSE UNCHANGED <<walkLeft, pendingStation>>

Turn ==
  /\ Due("turn") /\ Leads("freddy")
  /\ turning' = Greater(0, turning - 1)
  /\ IF turning = 1 THEN resolveBedTurn
     ELSE Spares /\ UNCHANGED <<follow, walkLeft, pendingStation, fredcheck, asked, watched, turned>>
  /\ UNCHANGED <<hours, hand, pendingAfterTurn, forceTurn, foxyVars, halls, bedroom, meter, idle,
                 fredbear, fbSpawned, fbAv6, fbStare, fbAv19, resolved>>

(* Mutant: watched or not, a full meter kills on the bed's timer alone.    *)
FreddyAtTheTick ==
  /\ Due("freddy") /\ Leads("flash")
  /\ \E fills, hurries, drains \in {0, 1} :
       /\ fills = 1 => "freddy" \in awake /\ ~viewingBed
       /\ hurries = 1 => idleSec >= IDLE /\ ~viewingBed
       /\ drains = 1 => viewingBed
       /\ freddyCounter + fills + hurries <= METER
       /\ freddyCounter' = Greater(0, freddyCounter + fills + hurries - drains)
  /\ \/ follow = "bed" /\ freddyCounter' >= KILL /\ Kills("freddy")
     \/ Spares
  /\ forceTurn' = (forceTurn \/ (follow = "bed" /\ foxyGotYou /\ ended' = ""))
  /\ UNCHANGED <<hours, follow, hand, walkLeft, pendingStation, turning, pendingAfterTurn, foxyVars, halls, bedroom,
                 blackFlash, counterWas80, idle, bear, history>>

(* The meter fills unwatched, faster for who stands still, and drains      *)
(* watched; at the bed a full one kills, and Foxy's claim forces the turn. *)
FreddyMeter ==
  /\ Due("freddy") /\ Leads("flash")
  /\ \E fills, hurries, drains \in {0, 1} :
       /\ fills = 1 => "freddy" \in awake /\ ~viewingBed
       /\ hurries = 1 => idleSec >= IDLE /\ ~viewingBed
       /\ drains = 1 => viewingBed
       /\ freddyCounter + fills + hurries <= METER
       /\ freddyCounter' = Greater(0, freddyCounter + fills + hurries - drains)
  /\ \/ follow = "bed" /\ freddyCounter' >= KILL /\ Kills("freddy")
     \/ ~(viewingBed /\ freddyCounter' >= KILL) /\ Spares
  /\ forceTurn' = (forceTurn \/ (follow = "bed" /\ foxyGotYou /\ ended' = ""))
  /\ UNCHANGED <<hours, follow, hand, walkLeft, pendingStation, turning, pendingAfterTurn, foxyVars, halls, bedroom,
                 blackFlash, counterWas80, idle, bear, history>>

(* The fuse: drawn when the meter reaches the cap, cut under it unless     *)
(* Fredbear is about, deadly at 1.                                         *)
BlackFlash ==
  /\ Due("flash") /\ Leads("bedroom")
  /\ counterWas80' = (freddyCounter >= ARM)
  /\ \E drawn \in FUSES :
       LET armed == IF freddyCounter >= ARM /\ ~counterWas80 THEN drawn ELSE blackFlash
           fuse == IF freddyCounter < ARM /\ "fredbear" \notin awake THEN 0 ELSE armed
       IN /\ blackFlash' = IF fuse = 0 THEN 0 ELSE Greater(1, fuse - 1)
          /\ IF blackFlash' = 1 THEN Kills("black-flash") ELSE Spares
  /\ UNCHANGED <<hours, player, foxyVars, halls, bedroom, freddyCounter, idle, bear, history>>

InHalls(w) == zone[w] \in {"far", "near"}

(* The dwell at near, reset by leaving the halls and by the light; seen    *)
(* from the bed, a long one lets them in, and the bed's timer turns the    *)
(* player. Chica's flag has no reset.                                      *)
Bedroom(forces) ==
  /\ Due("bedroom") /\ Leads("fredbear")
  /\ LET left(w) == ~InHalls(w) /\ (w = "chica" => av6[w] < LONG)
         cleared(w) == left(w) \/ viewingHall(w)
         dwell(w) == IF cleared(w) THEN 0 ELSE av6[w]
         kept == [w \in Walkers |-> IF w = "bonnie" /\ cleared(w) THEN 0 ELSE av7[w]]
         needed(w) == IF w = "bonnie" THEN DWELL + 1 ELSE DWELL
     IN \E stays \in SUBSET {w \in Walkers : zone[w] = "near"} :
          /\ av6' = [w \in Walkers |-> Lesser(LONG, dwell(w) + (IF w \in stays THEN 1 ELSE 0))]
          /\ av7' = [w \in Walkers |-> IF viewingBed /\ av6'[w] >= needed(w) THEN 1 ELSE kept[w]]
  /\ forceTurn' = (forceTurn \/ (forces /\ follow = "bed" /\ av7' # NoOne))
  /\ UNCHANGED <<ended, hours, follow, hand, walkLeft, pendingStation, turning, pendingAfterTurn, foxyVars, halls, meter, idle, bear, history>>

Other == [bonnie |-> "chica", chica |-> "bonnie"]
Living(w) == IF w = "bonnie" THEN "livingL" ELSE "livingR"
Hall(w) == IF w = "bonnie" THEN "hallL" ELSE "hallR"
FbHalls == {"hallL", "hallR"}
Still == {"bed", "closet"}

(* A passed roll's leg, the hall seen bouncing him across; a walk listened *)
(* to drops him on the bed or in the closet.                               *)
FbWalks(from) ==
  LET listened == \E w \in Walkers : listening(w)
      legs == CASE from = "centre" -> {Living(w) : w \in Walkers}
                [] from \in {"livingL", "livingR"} ->
                     LET w == CHOOSE s \in Walkers : Living(s) = from IN {IF viewingHall(w) THEN Living(Other[w]) ELSE Hall(w)}
                [] OTHER -> {from}
  IN IF listened THEN Still ELSE legs

(* The bed seen, a hall's door shut, the closet held, the slow teleport.   *)
FbMoved(at) ==
  LET living == {Living(w) : w \in Walkers}
      seen == IF at = "bed" /\ viewingBed THEN living ELSE {at}
      repelled(b) == {b} \union {Living(Other[w]) : w \in {s \in Walkers : b = Hall(s) /\ shut(s)}}
      ejected(b) == IF b = "closet" /\ hand = "closet" THEN living \union {b} ELSE {b}
      teleported(b) == IF b \notin Still \union FbHalls THEN {b, "closet"} ELSE {b}
  IN UNION {teleported(d) : d \in UNION {ejected(c) : c \in UNION {repelled(b) : b \in seen}}}

armFlash(dwelt) == blackFlash' = IF dwelt /\ blackFlash = 0 THEN FIXED ELSE blackFlash

(* Mutant: a harmless check stays armed.                                   *)
FredbearForgets ==
  /\ Due("fredbear") /\ Leads("idle")
  /\ fbSpawned' = (fbSpawned \/ "fredbear" \in awake)
  /\ IF ~fbSpawned' THEN Spares /\ UNCHANGED <<fredbear, fbAv6, fbStare, fbAv19, fredcheck, blackFlash>>
     ELSE
       /\ LET spawned == IF fbSpawned THEN fredbear ELSE "centre"
              rolls == "fredbear" \in awake /\ spawned \notin Still \union FbHalls
          IN \E to \in {spawned} \union (IF rolls THEN FbWalks(spawned) ELSE {}) : fredbear' \in FbMoved(to)
       /\ \E ticks \in {0, 1} :
            /\ fbAv6' = IF fredbear' \in Still THEN Lesser(BED, fbAv6 + ticks) ELSE 0
            /\ fbAv19' = IF fredbear' \in FbHalls THEN Lesser(HALL, fbAv19 + ticks) ELSE 0
       /\ fbStare' = [w \in Walkers |-> IF fredbear' # Hall(w) THEN 0
                                         ELSE IF viewingHall(w) THEN Lesser(STARE + 1, fbStare[w] + 1) ELSE fbStare[w]]
       /\ armFlash((\E w \in Walkers : fbStare'[w] > STARE) \/ fbAv6' >= BED \/ fbAv19' >= HALL)
       /\ IF fredcheck /\ fbAv6' >= CHECK THEN Kills("fredbear-bedcheck") ELSE Spares
       /\ UNCHANGED fredcheck
  /\ UNCHANGED <<hours, player, foxyVars, halls, bedroom, freddyCounter, counterWas80, idle, history>>

(* Fredbear's frame: his move, his dwells, the fuse they light, and the    *)
(* check a turn has armed.                                                 *)
Fredbear ==
  /\ Due("fredbear") /\ Leads("idle")
  /\ fbSpawned' = (fbSpawned \/ "fredbear" \in awake)
  /\ IF ~fbSpawned' THEN Spares /\ UNCHANGED <<fredbear, fbAv6, fbStare, fbAv19, fredcheck, blackFlash>>
     ELSE
       /\ LET spawned == IF fbSpawned THEN fredbear ELSE "centre"
              rolls == "fredbear" \in awake /\ spawned \notin Still \union FbHalls
          IN \E to \in {spawned} \union (IF rolls THEN FbWalks(spawned) ELSE {}) : fredbear' \in FbMoved(to)
       /\ \E ticks \in {0, 1} :
            /\ fbAv6' = IF fredbear' \in Still THEN Lesser(BED, fbAv6 + ticks) ELSE 0
            /\ fbAv19' = IF fredbear' \in FbHalls THEN Lesser(HALL, fbAv19 + ticks) ELSE 0
       /\ fbStare' = [w \in Walkers |-> IF fredbear' # Hall(w) THEN 0
                                         ELSE IF viewingHall(w) THEN Lesser(STARE + 1, fbStare[w] + 1) ELSE fbStare[w]]
       /\ armFlash((\E w \in Walkers : fbStare'[w] > STARE) \/ fbAv6' >= BED \/ fbAv19' >= HALL)
       /\ IF fredcheck /\ fbAv6' >= CHECK THEN Kills("fredbear-bedcheck") /\ UNCHANGED fredcheck
          ELSE Spares /\ fredcheck' = FALSE
  /\ UNCHANGED <<hours, player, foxyVars, halls, bedroom, freddyCounter, counterWas80, idle, history>>

(* The counters a walk resets; standing still lights the fuse on a         *)
(* Fredbear night, and the bed watched too long brings Foxy. Then the      *)
(* forced turn, unless one is under way.                                   *)
IdleAndForcedTurn ==
  /\ Due("idle") /\ Leads("policy")
  /\ \E stood, still, stared \in {0, 1} :
       LET was(n) == IF walking THEN 0 ELSE n
           fires == stared = 1 /\ was(bedWatchSec) + 1 >= WATCH
           force == forceTurn \/ fires
       IN /\ still = 1 => "fredbear" \in awake
          /\ stared = 1 => viewingBed
          /\ idleSec' = Lesser(IDLE, was(idleSec) + stood)
          /\ idleFredSec' = Lesser(STILL, was(idleFredSec) + still)
          /\ bedWatchSec' = Lesser(WATCH, was(bedWatchSec) + stared)
          /\ armFlash(still = 1 /\ idleFredSec' >= STILL)
          /\ foxy' = IF fires THEN "closet" ELSE foxy
          /\ foxyGotYou' = (foxyGotYou \/ fires)
          /\ watched' = (watched \/ (fires /\ ended = ""))
          /\ IF force /\ turning = 0
             THEN walkLeft' = 0 /\ beginBedTurn /\ hand' = IF hand = "bed" THEN "none" ELSE hand
             ELSE UNCHANGED <<walkLeft, turning, pendingAfterTurn, hand>>
  /\ forceTurn' = FALSE
  /\ UNCHANGED <<ended, hours, follow, pendingStation, foxyAv2, halls, bedroom, freddyCounter, counterWas80, bear, asked, turned, resolved>>

Plays == Hold \/ \E s \in Stations : goTo(s)
FrameRules == Arrivals \/ HourPasses \/ FoxyWalks \/ Halls \/ DoorsAndFlashlight \/ Turn \/ FreddyMeter \/ BlackFlash
         \/ Bedroom(FALSE) \/ Bedroom(TRUE) \/ Fredbear \/ IdleAndForcedTurn
NightOver == ended # "" /\ Due("policy") /\ UNCHANGED bedroomVars
BedroomNext == Plays \/ FrameRules \/ NightOver
(* The driver steps the night, and the forced turn's timer keeps firing.   *)
BedroomSpec == BedroomInit /\ [][BedroomNext]_bedroomVars /\ WF_bedroomVars(Hold \/ FrameRules) /\ SF_bedroomVars(Bedroom(TRUE))

-------------------------------------------------------------------------------
(* Every variable stays in its set.                                        *)
BedroomTypeOK ==
  /\ ended \in {"", "6AM", "foxy", "flash", "bonnie-bedroom", "chica-bedroom", "freddy", "black-flash", "fredbear-bedcheck"}
  /\ follow \in {"hub"} \union Places /\ hand \in Hands(follow) \union Hands("bed") \union Hands("closet") \union Hands("leftDoor")
  /\ walkLeft \in 0..WALK /\ turning \in 0..TURN /\ ~(walkLeft > 0 /\ turning > 0)
  /\ foxy \in DOMAIN FOXY_CHAIN /\ foxyAv2 \in 0..(GOTYOU + 1) /\ interlock \in 0..2
  /\ zone \in [Walkers -> {"center", "living", "far", "near"}] /\ pulse \in [Walkers -> 0..1] /\ tag \in [Walkers -> 0..2]
  /\ av6 \in [Walkers -> 0..LONG] /\ av7 \in [Walkers -> 0..1] /\ freddyCounter \in 0..METER /\ blackFlash \in Nat
  /\ fredbear \in {"off", "centre", "livingL", "livingR"} \union FbHalls \union Still

(* Between two moments with both doors open, one character is resolved.    *)
OneResolvedPerArming == resolved <= 1

(* A fuse once lit ends the night: the only way to drain the meter is to   *)
(* look at the bed, which kills at less than the fuse's own threshold.     *)
FuseEndsTheNight == blackFlash # 0 ~> ended # ""

(* Only a turn that has just ended kills by Fredbear's check.              *)
CheckedAtTheTurn == ended = "fredbear-bedcheck" => turned

(* Both of the above: what a turn and a shut door can do.                  *)
BedroomRules == CheckedAtTheTurn /\ OneResolvedPerArming

(* sim-fnaf4.ts, goTo: "the walk out only starts if the turn resolves      *)
(* cleanly": it starts.                                                    *)
WalkGoesOn == [][asked /\ turning = 1 /\ turning' = 0 /\ ended' = "" => walkLeft' > 0]_bedroomVars

(* fnaf4.ts: at 15 s of watching the bed Foxy is "in the closet with `foxy *)
(* got you` already set": the turn that follows kills.                     *)
WatchedTooLong == [][watched /\ turning = 1 /\ turning' = 0 => ended' # ""]_bedroomVars

(* fnaf4.ts: "The tag persists after they leave, which is the whole point  *)
(* of the anti-cheat."                                                     *)
TagPersists == [][\A w \in Walkers : tag[w] = 1 => tag'[w] # 0]_bedroomVars
===============================================================================
