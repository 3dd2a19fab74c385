----------------------------- MODULE Fnaf1Night -------------------------------
(***************************************************************************)
(* FNaF 1's night as the exact core plays it (sim-fnaf1.ts): a policy's    *)
(* presses, then one frame, its rules in the event sheet's group order.    *)
(*                                                                         *)
(* A frame is the steps from "inputs" to "blackout"; between two frames    *)
(* the policy presses. Whether a roll passes, a timer fires or a wait is   *)
(* over is left open; the frame counts of the input rules and of Foxy's    *)
(* and the blackout's waits are constants, smaller than the game's. Power  *)
(* stops at 0, below which no rule reads it.                               *)
(***************************************************************************)
EXTENDS Integers, Sequences

CONSTANTS
  Active,        (* who has a level above 0                                *)
  Controls,      (* what the policy presses                                *)
  Views,         (* the cameras it selects                                 *)
  POWER, HOURS,
  CLICK, ANIM, FLIP, STAGE3, STAGE4, BLACK, FORCE, BANG

Characters == {"bonnie", "chica", "freddy", "foxy"}
Cameras == {1, 2, 3, 4, 5, 6, 7, 22, 33, 42, 99}
Presses == {"monitor", "leftLight", "rightLight", "leftDoor", "rightDoor"}
(* Of the constants; assumed where they are given their values.           *)
NightAssumption ==
  /\ Active \subseteq Characters /\ Controls \subseteq Presses /\ Views \subseteq Cameras
  /\ {POWER, HOURS, CLICK, ANIM, FLIP, STAGE3, STAGE4, BLACK, FORCE, BANG} \subseteq Nat \ {0}

VARIABLES
  pc, over,                       (* the next rule; <<>>, or how it ended  *)
  viewing, lastClicked, pendingView, flip,
  door, anim, light, lightsResetPending, clickCooldown,
  bonnie, chica, freddy, freddyState,
  foxProgress, foxStage, attention,
  power, foxBangs, blackout, blackoutFrames, hour

monitor == <<viewing, lastClicked, pendingView, flip>>
office == <<door, anim, light, lightsResetPending, clickCooldown>>
stage == <<bonnie, chica, freddy, freddyState>>
fox == <<foxProgress, foxStage, attention>>
supply == <<power, foxBangs, blackout, blackoutFrames>>
vars == <<pc, over, monitor, office, stage, fox, supply, hour>>

Sides == {"left", "right"}
LightOf == [left |-> "leftLight", right |-> "rightLight"]
DoorOf == [left |-> "leftDoor", right |-> "rightDoor"]
BONNIE == [cam1A |-> {"cam5", "cam1B"}, cam5 |-> {"cam1B", "cam2A"}, cam1B |-> {"cam5", "cam2A"},
           cam2A |-> {"cam3", "cam2B"}, cam2B |-> {"cam3", "door"}, cam3 |-> {"door", "cam2A"}]
CHICA == [cam1A |-> {"cam1B"}, cam1B |-> {"cam7", "cam6"}, cam6 |-> {"cam7", "cam4A"},
          cam7 |-> {"cam6", "cam4A"}, cam4A |-> {"cam1B", "cam4B"}, cam4B |-> {"cam4A", "door"}]
FREDDY_PATH == <<"cam1A", "cam1B", "cam7", "cam6", "cam4A", "cam4B">>
None == [s \in Sides |-> 0]

Init ==
  /\ pc = "policy" /\ over = <<>> /\ hour = 0
  /\ viewing = 0 /\ lastClicked = 1 /\ pendingView = 0 /\ flip = <<>>
  /\ door = [s \in Sides |-> "open"] /\ anim = None /\ light = None /\ lightsResetPending = FALSE /\ clickCooldown = 0
  /\ bonnie = "cam1A" /\ chica = "cam1A" /\ freddy = 1 /\ freddyState = 0
  /\ foxProgress = 0 /\ foxStage = 0 /\ attention = 0
  /\ power = POWER /\ foxBangs = 0 /\ blackout = FALSE /\ blackoutFrames = 0

At(l) == pc = l
Goto(l) == pc' = l
Least(a, b) == IF a < b THEN a ELSE b
Largest(a, b) == IF a > b THEN a ELSE b

(* The first cause stands; in a blackout it is the blackout's.             *)
Die(cause) == over' = IF over # <<>> THEN over ELSE IF blackout /\ cause # "blackout" THEN <<"blackout", cause>> ELSE <<cause>>
Live == UNCHANGED over

putDown == viewing' = 0 /\ pendingView' = 0 /\ flip' = <<"down", 0>> /\ lightsResetPending' = TRUE

(* A press the game takes, between two frames.                             *)
Pressed(control) == At("policy") /\ over = <<>> /\ ~blackout /\ control \in Controls

PressMonitor ==
  /\ Pressed("monitor") /\ flip = <<>>
  /\ \/ viewing = 0 /\ foxProgress # 5 /\ flip' = <<"up", 0>> /\ UNCHANGED <<viewing, pendingView, lightsResetPending>>
     \/ viewing # 0 /\ putDown
  /\ UNCHANGED <<pc, over, lastClicked, door, anim, light, clickCooldown, stage, fox, supply, hour>>

Hand == viewing = 0 /\ clickCooldown = 0 /\ foxProgress # 5 /\ clickCooldown' = CLICK

(* One light puts the other out.                                           *)
PressLight(s) ==
  /\ Pressed(LightOf[s]) /\ Hand
  /\ light' = [None EXCEPT ![s] = 1 - light[s]]
  /\ UNCHANGED <<pc, over, monitor, door, anim, lightsResetPending, stage, fox, supply, hour>>

(* A moving door is not turned.                                            *)
PressDoor(s) ==
  /\ Pressed(DoorOf[s]) /\ Hand
  /\ door[s] \in {"open", "shut"}
  /\ door' = [door EXCEPT ![s] = IF @ = "open" THEN "closing" ELSE "opening"] /\ anim' = [anim EXCEPT ![s] = 0]
  /\ UNCHANGED <<pc, over, monitor, light, lightsResetPending, stage, fox, supply, hour>>

selectCamera ==
  /\ At("policy") /\ over = <<>> /\ ~blackout /\ viewing # 0
  /\ \E v \in Views : lastClicked' = v /\ pendingView' = v
  /\ UNCHANGED <<pc, over, viewing, flip, office, stage, fox, supply, hour>>

Frame ==
  /\ At("policy") /\ over = <<>> /\ Goto("inputs")
  /\ UNCHANGED <<over, monitor, office, stage, fox, supply, hour>>

(* Mutant: an animation's end shuts a door either way.                     *)
stepInputsShuts ==
  /\ At("inputs") /\ Goto("movement")
  /\ light' = IF lightsResetPending /\ viewing = 0 THEN None ELSE light
  /\ lightsResetPending' = FALSE /\ pendingView' = 0
  /\ LET flipped == flip # <<>> /\ flip[2] >= FLIP IN
     /\ viewing' = IF flipped /\ flip[1] = "up" THEN lastClicked ELSE IF pendingView # 0 THEN pendingView ELSE viewing
     /\ flip' = IF flipped \/ flip = <<>> THEN <<>> ELSE <<flip[1], flip[2] + 1>>
  /\ LET moving(s) == door[s] \in {"closing", "opening"}
         arrived(s) == moving(s) /\ anim[s] + 1 >= ANIM
     IN /\ door' = [s \in Sides |-> IF arrived(s) THEN "shut" ELSE door[s]]
        /\ anim' = [s \in Sides |-> IF moving(s) /\ ~arrived(s) THEN anim[s] + 1 ELSE 0]
  /\ clickCooldown' = Largest(0, clickCooldown - 1)
  /\ UNCHANGED <<over, lastClicked, stage, fox, supply, hour>>

(* The lights' reset, the camera chosen, the flip, the doors' animations   *)
(* and the cooldown.                                                       *)
stepInputs ==
  /\ At("inputs") /\ Goto("movement")
  /\ light' = IF lightsResetPending /\ viewing = 0 THEN None ELSE light
  /\ lightsResetPending' = FALSE /\ pendingView' = 0
  /\ LET flipped == flip # <<>> /\ flip[2] >= FLIP IN
     /\ viewing' = IF flipped /\ flip[1] = "up" THEN lastClicked ELSE IF pendingView # 0 THEN pendingView ELSE viewing
     /\ flip' = IF flipped \/ flip = <<>> THEN <<>> ELSE <<flip[1], flip[2] + 1>>
  /\ LET moving(s) == door[s] \in {"closing", "opening"}
         arrived(s) == moving(s) /\ anim[s] + 1 >= ANIM
     IN /\ door' = [s \in Sides |-> IF ~arrived(s) THEN door[s] ELSE IF door[s] = "closing" THEN "shut" ELSE "open"]
        /\ anim' = [s \in Sides |-> IF moving(s) /\ ~arrived(s) THEN anim[s] + 1 ELSE 0]
  /\ clickCooldown' = Largest(0, clickCooldown - 1)
  /\ UNCHANGED <<over, lastClicked, stage, fox, supply, hour>>

(* At the door: in, through an open one; back, from a shut one; a moving   *)
(* door keeps him there.                                                   *)
BonnieSteps ==
  IF bonnie # "door" THEN bonnie' \in BONNIE[bonnie] /\ Live
  ELSE CASE door["left"] = "open" -> Die("bonnie") /\ UNCHANGED bonnie
         [] door["left"] = "shut" -> bonnie' = "cam1B" /\ Live
         [] OTHER -> UNCHANGED bonnie /\ Live

ChicaSteps ==
  IF chica # "door" THEN chica' \in CHICA[chica] /\ Live
  ELSE CASE door["right"] = "open" -> Die("chica") /\ UNCHANGED chica
         [] door["right"] = "shut" -> chica' = "cam4A" /\ Live
         [] OTHER -> UNCHANGED chica /\ Live

(* The four rolls. Bonnie and Chica share one move a frame, the later      *)
(* roll's; Freddy's counts with the monitor down, Foxy's away from his     *)
(* cove and with no camera's hold on him.                                  *)
Movement ==
  /\ At("movement") /\ Goto("clock")
  /\ \E rolls \in SUBSET Active :
       /\ freddyState' = IF "freddy" \in rolls /\ viewing = 0 /\ freddyState = 0 THEN 1 ELSE freddyState
       /\ foxProgress' = IF "foxy" \in rolls /\ viewing # 99 /\ foxProgress < 3 /\ attention = 0
                         THEN foxProgress + 1 ELSE foxProgress
       /\ CASE "chica" \in rolls -> ChicaSteps /\ UNCHANGED bonnie
            [] "chica" \notin rolls /\ "bonnie" \in rolls -> BonnieSteps /\ UNCHANGED chica
            [] OTHER -> UNCHANGED <<bonnie, chica>> /\ Live
  /\ UNCHANGED <<monitor, office, freddy, foxStage, attention, supply, hour>>

(* The hour; at six the frame ends there.                                  *)
Clock ==
  /\ At("clock")
  /\ \/ Goto("foxy") /\ UNCHANGED <<over, hour>>
     \/ hour' = hour + 1 /\ IF hour' = HOURS THEN over' = <<"6AM">> /\ Goto("policy") ELSE Goto("foxy") /\ Live
  /\ UNCHANGED <<monitor, office, stage, fox, supply>>

(* Mutant: the run leaves the monitor as it is.                            *)
FoxyLeavesTheMonitor ==
  /\ At("foxy") /\ Goto("freddy")
  /\ attention' \in (IF viewing > 0 THEN {0, 1} ELSE 0..attention)
  /\ LET waited == foxProgress \in {3, 4} /\ ~blackout /\ foxStage + 1 > (IF foxProgress = 3 THEN STAGE3 ELSE STAGE4)
         runs == foxProgress = 5 \/ waited
         blocked == runs /\ door["left"] = "shut"
     IN /\ foxStage' = IF foxProgress \in {3, 4} /\ ~waited THEN Least(foxStage + 1, STAGE3 + STAGE4) ELSE 0
        /\ IF runs /\ door["left"] = "open" THEN Die("foxy") ELSE Live
        /\ IF blocked THEN foxProgress' \in {0, 1} /\ power' = Largest(0, power - 1 - BANG * foxBangs) /\ foxBangs' = Least(foxBangs + 1, POWER)
           ELSE foxProgress' = (IF runs THEN 5 ELSE foxProgress) /\ UNCHANGED <<power, foxBangs>>
  /\ UNCHANGED <<monitor, office, stage, blackout, blackoutFrames, hour>>

(* A camera's hold; his waits, which a blackout stops; the run: the        *)
(* monitor down, and in, or a bang at a shut door and the power it costs.  *)
Foxy ==
  /\ At("foxy") /\ Goto("freddy")
  /\ attention' \in (IF viewing > 0 THEN {0, 1} ELSE 0..attention)
  /\ LET waited == foxProgress \in {3, 4} /\ ~blackout /\ foxStage + 1 > (IF foxProgress = 3 THEN STAGE3 ELSE STAGE4)
         runs == foxProgress = 5 \/ waited
         blocked == runs /\ door["left"] = "shut"
     IN /\ foxStage' = IF foxProgress \in {3, 4} /\ ~waited THEN Least(foxStage + 1, STAGE3 + STAGE4) ELSE 0
        /\ IF runs /\ (viewing > 0 \/ pendingView # 0) THEN putDown ELSE UNCHANGED <<viewing, pendingView, flip, lightsResetPending>>
        /\ IF runs /\ door["left"] = "open" THEN Die("foxy") ELSE Live
        /\ IF blocked THEN foxProgress' \in {0, 1} /\ power' = Largest(0, power - 1 - BANG * foxBangs) /\ foxBangs' = Least(foxBangs + 1, POWER)
           ELSE foxProgress' = (IF runs THEN 5 ELSE foxProgress) /\ UNCHANGED <<power, foxBangs>>
  /\ UNCHANGED <<lastClicked, door, anim, light, clickCooldown, stage, blackout, blackoutFrames, hour>>

(* Mutant: he waits for Bonnie only.                                       *)
stepFreddyAfterBonnie ==
  LET where == FREDDY_PATH[freddy]
      held == (where = "cam1A" /\ bonnie = "cam1A") \/ (where = "cam4A" /\ light["right"] = 1)
      looks == viewing \notin {0, 42}
  IN IF where # "cam4B"
     THEN freddyState' = 0 /\ freddy' = (IF held THEN freddy ELSE freddy + 1) /\ Live
     ELSE \/ looks /\ door["right"] = "open" /\ Die("freddy") /\ freddyState' = 2 /\ UNCHANGED freddy
          \/ looks /\ door["right"] = "shut" /\ viewing # 4 /\ freddy' = 5 /\ freddyState' = 0 /\ Live
          \/ (~looks \/ door["right"] \in {"closing", "opening"} \/ (door["right"] = "shut" /\ viewing = 4))
               /\ freddyState' = 2 /\ UNCHANGED freddy /\ Live

(* His step: not off the stage before the other two, not past a lit 4A;    *)
(* from 4B in or back, never with the monitor down or on 4B itself.        *)
stepFreddy ==
  LET where == FREDDY_PATH[freddy]
      held == (where = "cam1A" /\ "cam1A" \in {bonnie, chica}) \/ (where = "cam4A" /\ light["right"] = 1)
      looks == viewing \notin {0, 42}
  IN IF where # "cam4B"
     THEN freddyState' = 0 /\ freddy' = (IF held THEN freddy ELSE freddy + 1) /\ Live
     ELSE \/ looks /\ door["right"] = "open" /\ Die("freddy") /\ freddyState' = 2 /\ UNCHANGED freddy
          \/ looks /\ door["right"] = "shut" /\ viewing # 4 /\ freddy' = 5 /\ freddyState' = 0 /\ Live
          \/ (~looks \/ door["right"] \in {"closing", "opening"} \/ (door["right"] = "shut" /\ viewing = 4))
               /\ freddyState' = 2 /\ UNCHANGED freddy /\ Live

(* Mutant: the wait may run out with the monitor up.                       *)
FreddyWaitsAnyhow ==
  /\ At("freddy") /\ Goto("power")
  /\ \/ freddyState = 2 /\ stepFreddy
     \/ freddyState = 1 /\ stepFreddy
     \/ freddyState \in {0, 1} /\ UNCHANGED <<freddy, freddyState, over>>
  /\ UNCHANGED <<monitor, office, bonnie, chica, fox, supply, hour>>

(* He waits, and with the monitor down the wait may be over.               *)
Freddy ==
  /\ At("freddy") /\ Goto("power")
  /\ \/ freddyState = 2 /\ stepFreddy
     \/ freddyState = 1 /\ viewing = 0 /\ stepFreddy
     \/ freddyState \in {0, 1} /\ UNCHANGED <<freddy, freddyState, over>>
  /\ UNCHANGED <<monitor, office, bonnie, chica, fox, supply, hour>>

(* A door costs while shut and while opening.                              *)
usage ==
  LET cost(s) == (IF door[s] \in {"shut", "opening"} THEN 1 ELSE 0) + light[s]
  IN 1 + (IF viewing > 0 THEN 1 ELSE 0) + cost("left") + cost("right")

(* The drains; at nothing, the lights, the doors and the camera go.        *)
Power ==
  /\ At("power") /\ Goto("blackout")
  /\ \E base, extra \in {0, 1} : power' = Largest(0, power - base * usage - extra)
  /\ IF power' = 0 /\ ~blackout
     THEN blackout' = TRUE /\ door' = [s \in Sides |-> "open"] /\ light' = None /\ viewing' = 0
     ELSE UNCHANGED <<blackout, door, light, viewing>>
  /\ UNCHANGED <<over, lastClicked, pendingView, flip, anim, lightsResetPending, clickCooldown, stage, fox, foxBangs, blackoutFrames, hour>>

(* The music; then the roll, and the backstop.                             *)
Blackout ==
  /\ At("blackout") /\ Goto("policy")
  /\ blackoutFrames' = IF blackout THEN Least(blackoutFrames + 1, BLACK + FORCE) ELSE 0
  /\ \/ blackoutFrames' >= BLACK /\ Die("blackout")
     \/ blackoutFrames' < BLACK + FORCE /\ Live
  /\ UNCHANGED <<monitor, office, stage, fox, power, foxBangs, blackout, hour>>

Policy == PressMonitor \/ selectCamera \/ \E s \in Sides : PressLight(s) \/ PressDoor(s)
Rules == Frame \/ stepInputs \/ Movement \/ Clock \/ Foxy \/ Freddy \/ Power \/ Blackout
Ended == over # <<>> /\ At("policy") /\ UNCHANGED vars
Next == Policy \/ Rules \/ Ended
Spec == Init /\ [][Next]_vars /\ WF_vars(Rules)

-------------------------------------------------------------------------------
(* Every variable stays in its set; only one light burns.                  *)
TypeOK ==
  /\ {viewing, lastClicked, pendingView} \subseteq Cameras \union {0} /\ clickCooldown \in 0..CLICK
  /\ flip = <<>> \/ (flip[1] \in {"up", "down"} /\ flip[2] \in 0..FLIP)
  /\ door \in [Sides -> {"open", "closing", "shut", "opening"}] /\ anim \in [Sides -> 0..ANIM]
  /\ light \in [Sides -> {0, 1}] /\ light["left"] + light["right"] <= 1
  /\ bonnie \in DOMAIN BONNIE \union {"door"} /\ chica \in DOMAIN CHICA \union {"door"}
  /\ freddy \in 1..6 /\ freddyState \in 0..2 /\ foxProgress \in 0..5 /\ attention \in {0, 1}
  /\ power \in 0..POWER /\ foxBangs \in 0..POWER /\ blackoutFrames \in 0..(BLACK + FORCE) /\ hour \in 0..HOURS

(* Freddy is off the stage only when Bonnie and Chica both are.            *)
FreddyLeavesLast == freddy > 1 => "cam1A" \notin {bonnie, chica}

(* fnaf1.ts: watching any camera freezes Freddy: with the monitor up he    *)
(* goes nowhere but back from 4B.                                          *)
FrozenByCamera == [][freddy' # freddy /\ viewing # 0 => freddy = 6 /\ freddy' = 5]_vars

(* Between two frames of a run in which nothing is decided, the left door  *)
(* is still moving and the monitor down, unless the power went.            *)
FoxyWaitsAtAMovingDoor ==
  pc = "policy" /\ over = <<>> /\ foxProgress = 5 /\ ~blackout => door["left"] \in {"closing", "opening"} /\ viewing = 0

(* Who stands where: both of the above.                                    *)
DoorRules == FoxyWaitsAtAMovingDoor /\ FreddyLeavesLast

(* Once he runs, an open or opening left door is not shut in time.         *)
NothingShutsInTime == [][foxProgress = 5 /\ door["left"] \in {"open", "opening"} => door'["left"] \in {"open", "opening"}]_vars

(* What happens only in its order: Freddy moves behind a watched camera    *)
(* only back from 4B, and a Foxy that runs finds no door shut in time.     *)
MovesInTheirOrder == FrozenByCamera /\ NothingShutsInTime

(* sim-fnaf1.ts, acceptPress: "`power down = 0` on every rule": once the   *)
(* power is down the monitor does not come up.                             *)
MonitorDownInBlackout == blackout => viewing = 0

(* fnaf1.ts:120-122: "viewing Pirate Cove's hall camera at `fox progress = *)
(* 3` advances him to 4 and starts the run."                               *)
SeenRunStarts == [][Foxy /\ foxProgress = 3 /\ viewing = 3 => foxProgress' # 3]_vars
===============================================================================
