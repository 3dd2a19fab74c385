------------------------------ MODULE Cores_proofs ------------------------------
(***************************************************************************)
(* The rules of the exact cores, for any levels, policies and lengths of   *)
(* waits: a night of the first game, the office of the second, a night of  *)
(* the fourth.                                                             *)
(*                                                                         *)
(* A frame is a sequence of rules over one state, so each inductive        *)
(* invariant says what holds between which two rules of it.                *)
(***************************************************************************)
EXTENDS Fnaf1Night, Fnaf2Office, Fnaf4Night, TLAPS

(***************************************************************************)
(* The first game.                                                         *)
(***************************************************************************)
FrameRule == {"policy", "inputs", "movement", "clock", "foxy", "freddy", "power", "blackout"}

(* What TypeOK leaves to the frame: an hour that is the last ends it.      *)
FrameInv ==
  /\ pc \in FrameRule /\ foxStage \in Nat
  /\ blackout \in BOOLEAN /\ lightsResetPending \in BOOLEAN
  /\ hour = HOURS => pc = "policy" /\ over # <<>>

(* From Foxy's rule to the next press, a run undecided has the left door   *)
(* moving and the monitor down, unless the power went.                     *)
RunInv ==
  pc \in {"freddy", "power", "blackout", "policy"} /\ over = <<>> /\ foxProgress = 5 /\ ~blackout
    => door["left"] \in {"closing", "opening"} /\ viewing = 0

(* Freddy tries the door from 4B only.                                     *)
FreddyInv == freddyState = 2 => freddy = 6

NightInv == TypeOK /\ FrameInv /\ RunInv /\ FreddyLeavesLast /\ FreddyInv

-------------------------------------------------------------------------------
(* Nobody walks back to the stage.                                         *)
LEMMA RoutesLeaveTheStage ==
  /\ \A r \in DOMAIN BONNIE : BONNIE[r] \subseteq (DOMAIN BONNIE \union {"door"}) \ {"cam1A"}
  /\ \A r \in DOMAIN CHICA : CHICA[r] \subseteq (DOMAIN CHICA \union {"door"}) \ {"cam1A"}
BY DEF BONNIE, CHICA

LEMMA FreddysPath ==
  /\ FREDDY_PATH[6] = "cam4B" /\ FREDDY_PATH[1] = "cam1A"
  /\ \A i \in 1..5 : FREDDY_PATH[i] # "cam4B"
BY DEF FREDDY_PATH

LEMMA NightConstants ==
  ASSUME NightAssumption
  PROVE  /\ POWER \in Nat \ {0} /\ HOURS \in Nat \ {0} /\ CLICK \in Nat \ {0} /\ ANIM \in Nat \ {0}
         /\ FLIP \in Nat \ {0} /\ STAGE3 \in Nat \ {0} /\ STAGE4 \in Nat \ {0} /\ BLACK \in Nat \ {0}
         /\ FORCE \in Nat \ {0} /\ BANG \in Nat \ {0} /\ Views \subseteq Cameras
BY DEF NightAssumption

(* What a flip starts from.                                                *)
LEMMA Flipping ==
  ASSUME NightAssumption
  PROVE  \A d \in {"up", "down"} : LET f == <<d, 0>> IN f[1] = d /\ f[2] \in 0..FLIP
BY NightConstants

LEMMA NightBegins ==
  ASSUME NightAssumption, Init
  PROVE  NightInv
<1>1. TypeOK
  BY NightConstants DEF Init, TypeOK, None, Sides, Cameras, BONNIE, CHICA
<1>2. blackout \in BOOLEAN /\ lightsResetPending \in BOOLEAN
  BY DEF Init
<1>3. FrameInv
  BY <1>2, NightConstants DEF Init, FrameInv, FrameRule
<1>4. RunInv /\ FreddyInv /\ FreddyLeavesLast
  BY DEF Init, RunInv, FreddyInv, FreddyLeavesLast
<1> QED
  BY <1>1, <1>3, <1>4 DEF NightInv

(* A press, one that is taken.                                             *)
LEMMA MonitorKeeps ==
  ASSUME NightAssumption, NightInv, PressMonitor
  PROVE  NightInv'
<1>f. flip' = <<>> \/ (flip'[1] \in {"up", "down"} /\ flip'[2] \in 0..FLIP)
  BY Flipping DEF NightInv, TypeOK, PressMonitor, putDown
<1>1. TypeOK'
  BY <1>f, NightConstants, SMTT(30) DEF NightInv, TypeOK, PressMonitor, putDown, office, stage, fox, supply
<1>2. FrameInv'
  BY DEF NightInv, FrameInv, PressMonitor, putDown, office, stage, fox, supply
<1>3. RunInv' /\ FreddyInv' /\ FreddyLeavesLast'
  BY DEF NightInv, RunInv, FreddyInv, FreddyLeavesLast, PressMonitor, putDown, office, stage, fox, supply, Pressed, At
<1> QED
  BY <1>1, <1>2, <1>3 DEF NightInv

LEMMA LightKeeps ==
  ASSUME NightAssumption, NightInv, NEW s \in Sides, PressLight(s)
  PROVE  NightInv'
<1>1. light' \in [Sides -> {0, 1}] /\ light'["left"] + light'["right"] <= 1
  BY DEF NightInv, TypeOK, PressLight, None, Sides
<1>2. TypeOK'
  <2>1. clickCooldown' = CLICK
    BY DEF PressLight, Hand
  <2>2. UNCHANGED <<viewing, lastClicked, pendingView, flip, door, anim, stage, fox, supply, hour>>
    BY DEF PressLight, monitor
  <2> QED
    BY <1>1, <2>1, <2>2, NightConstants, SMTT(30) DEF NightInv, TypeOK, stage, fox, supply
<1>3. FrameInv'
  BY DEF NightInv, FrameInv, PressLight, monitor, stage, fox, supply
<1>4. RunInv' /\ FreddyInv' /\ FreddyLeavesLast'
  BY DEF NightInv, RunInv, FreddyInv, FreddyLeavesLast, PressLight, monitor, stage, fox, supply
<1> QED
  BY <1>2, <1>3, <1>4 DEF NightInv

LEMMA DoorKeeps ==
  ASSUME NightAssumption, NightInv, NEW s \in Sides, PressDoor(s)
  PROVE  NightInv'
<1>1. door' \in [Sides -> {"open", "closing", "shut", "opening"}] /\ anim' \in [Sides -> 0..ANIM]
  BY NightConstants, SMTT(30) DEF NightInv, TypeOK, PressDoor, Sides
<1>2. TypeOK'
  <2>1. clickCooldown' = CLICK
    BY DEF PressDoor, Hand
  <2>2. UNCHANGED <<viewing, lastClicked, pendingView, flip, light, stage, fox, supply, hour>>
    BY DEF PressDoor, monitor
  <2>3. /\ {viewing, lastClicked, pendingView}' \subseteq Cameras \union {0} /\ clickCooldown' \in 0..CLICK
        /\ flip' = <<>> \/ (flip'[1] \in {"up", "down"} /\ flip'[2] \in 0..FLIP)
    BY <2>1, <2>2, NightConstants DEF NightInv, TypeOK
  <2>4. light' \in [Sides -> {0, 1}] /\ light'["left"] + light'["right"] <= 1
    BY <2>2 DEF NightInv, TypeOK
  <2> QED
    BY <1>1, <2>2, <2>3, <2>4 DEF NightInv, TypeOK, stage, fox, supply
<1>3. FrameInv'
  BY DEF NightInv, FrameInv, PressDoor, monitor, stage, fox, supply
<1>4. RunInv' /\ FreddyInv' /\ FreddyLeavesLast'
  BY DEF NightInv, RunInv, FreddyInv, FreddyLeavesLast, PressDoor, Hand, monitor, stage, fox, supply
<1> QED
  BY <1>2, <1>3, <1>4 DEF NightInv

LEMMA CameraKeeps ==
  ASSUME NightAssumption, NightInv, selectCamera
  PROVE  NightInv'
<1>1. TypeOK'
  BY NightConstants DEF NightInv, TypeOK, selectCamera, office, stage, fox, supply
<1>2. FrameInv'
  BY DEF NightInv, FrameInv, selectCamera, office, stage, fox, supply
<1>3. RunInv' /\ FreddyInv' /\ FreddyLeavesLast'
  BY DEF NightInv, RunInv, FreddyInv, FreddyLeavesLast, selectCamera, office, stage, fox, supply
<1> QED
  BY <1>1, <1>2, <1>3 DEF NightInv

LEMMA FrameKeeps ==
  ASSUME NightAssumption, NightInv, Frame
  PROVE  NightInv'
<1>1. TypeOK'
  BY DEF NightInv, TypeOK, Frame, monitor, office, stage, fox, supply
<1>2. FrameInv'
  BY DEF NightInv, FrameInv, FrameRule, Frame, Goto, monitor, office, stage, fox, supply
<1>3. RunInv' /\ FreddyInv' /\ FreddyLeavesLast'
  BY DEF NightInv, RunInv, FreddyInv, FreddyLeavesLast, Frame, Goto, monitor, office, stage, fox, supply
<1> QED
  BY <1>1, <1>2, <1>3 DEF NightInv

LEMMA InputsKeep ==
  ASSUME NightAssumption, NightInv, stepInputs
  PROVE  NightInv'
<1>1. light' \in [Sides -> {0, 1}] /\ light'["left"] + light'["right"] <= 1
  BY DEF NightInv, TypeOK, stepInputs, None, Sides
<1>2. door' \in [Sides -> {"open", "closing", "shut", "opening"}]
  BY DEF NightInv, TypeOK, stepInputs
<1>3. anim' \in [Sides -> 0..ANIM]
  <2>1. anim \in [Sides -> 0..ANIM] /\ ANIM \in Nat
    BY NightConstants DEF NightInv, TypeOK
  <2>2. anim' = [s \in Sides |-> IF door[s] \in {"closing", "opening"} /\ ~(anim[s] + 1 >= ANIM) THEN anim[s] + 1 ELSE 0]
    BY DEF stepInputs
  <2> QED
    BY <2>1, <2>2
<1>4. flip' = <<>> \/ (flip'[1] \in {"up", "down"} /\ flip'[2] \in 0..FLIP)
  <2>1. CASE flip = <<>> \/ flip[2] >= FLIP
    BY <2>1 DEF stepInputs
  <2>2. CASE flip # <<>> /\ ~(flip[2] >= FLIP)
    <3>1. flip' = <<flip[1], flip[2] + 1>>
      BY <2>2 DEF stepInputs
    <3>2. flip'[1] = flip[1] /\ flip'[2] = flip[2] + 1
      BY <3>1
    <3>3. flip[1] \in {"up", "down"} /\ flip[2] \in 0..FLIP /\ FLIP \in Nat
      BY <2>2, NightConstants DEF NightInv, TypeOK
    <3> QED
      BY <2>2, <3>2, <3>3
  <2> QED
    BY <2>1, <2>2
<1>5. {viewing', lastClicked', pendingView'} \subseteq Cameras \union {0} /\ clickCooldown' \in 0..CLICK
  BY NightConstants DEF NightInv, TypeOK, stepInputs, Largest
<1>6. TypeOK'
  BY <1>1, <1>2, <1>3, <1>4, <1>5 DEF NightInv, TypeOK, stepInputs, stage, fox, supply
<1>7. FrameInv'
  BY DEF NightInv, FrameInv, FrameRule, stepInputs, At, Goto, stage, fox, supply
<1>8. RunInv' /\ FreddyInv' /\ FreddyLeavesLast'
  BY DEF NightInv, RunInv, FreddyInv, FreddyLeavesLast, stepInputs, Goto, stage, fox, supply
<1> QED
  BY <1>6, <1>7, <1>8 DEF NightInv

LEMMA MovementKeeps ==
  ASSUME NightAssumption, NightInv, Movement
  PROVE  NightInv'
<1>1. PICK rolls \in SUBSET Active :
        /\ freddyState' = IF "freddy" \in rolls /\ viewing = 0 /\ freddyState = 0 THEN 1 ELSE freddyState
        /\ foxProgress' = IF "foxy" \in rolls /\ viewing # 99 /\ foxProgress < 3 /\ attention = 0
                          THEN foxProgress + 1 ELSE foxProgress
        /\ CASE "chica" \in rolls -> ChicaSteps /\ UNCHANGED bonnie
             [] "chica" \notin rolls /\ "bonnie" \in rolls -> BonnieSteps /\ UNCHANGED chica
             [] OTHER -> UNCHANGED <<bonnie, chica>> /\ Live
  BY DEF Movement
<1>2. (ChicaSteps /\ UNCHANGED bonnie) \/ (BonnieSteps /\ UNCHANGED chica) \/ UNCHANGED <<bonnie, chica>>
  BY <1>1, Zenon
<1>b. BonnieSteps => /\ bonnie' \in DOMAIN BONNIE \union {"door"}
                     /\ bonnie' = "cam1A" => bonnie = "cam1A"
  <2>1. ASSUME bonnie \in DOMAIN BONNIE, bonnie' \in BONNIE[bonnie]
        PROVE  bonnie' \in DOMAIN BONNIE \union {"door"} /\ bonnie' # "cam1A"
    BY <2>1, RoutesLeaveTheStage
  <2>2. "cam1B" \in DOMAIN BONNIE
    BY DEF BONNIE
  <2>3. CASE bonnie # "door"
    BY <2>1, <2>3 DEF BonnieSteps, NightInv, TypeOK
  <2>4. CASE bonnie = "door"
    BY <2>2, <2>4, Zenon DEF BonnieSteps
  <2> QED
    BY <2>3, <2>4
<1>c. ChicaSteps => /\ chica' \in DOMAIN CHICA \union {"door"}
                    /\ chica' = "cam1A" => chica = "cam1A"
  <2>1. ASSUME chica \in DOMAIN CHICA, chica' \in CHICA[chica]
        PROVE  chica' \in DOMAIN CHICA \union {"door"} /\ chica' # "cam1A"
    BY <2>1, RoutesLeaveTheStage
  <2>2. "cam4A" \in DOMAIN CHICA
    BY DEF CHICA
  <2>3. CASE chica # "door"
    BY <2>1, <2>3 DEF ChicaSteps, NightInv, TypeOK
  <2>4. CASE chica = "door"
    BY <2>2, <2>4, Zenon DEF ChicaSteps
  <2> QED
    BY <2>3, <2>4
<1>3. /\ bonnie' \in DOMAIN BONNIE \union {"door"} /\ chica' \in DOMAIN CHICA \union {"door"}
      /\ "cam1A" \in {bonnie', chica'} => "cam1A" \in {bonnie, chica}
  BY <1>2, <1>b, <1>c DEF NightInv, TypeOK
<1>4. freddyState' \in 0..2 /\ foxProgress' \in 0..5 /\ (freddyState' = 2 => freddyState = 2)
  BY <1>1 DEF NightInv, TypeOK
<1>5. TypeOK'
  BY <1>3, <1>4 DEF NightInv, TypeOK, Movement, monitor, office, supply
<1>6. FrameInv'
  BY DEF NightInv, FrameInv, FrameRule, Movement, At, Goto, monitor, office, supply
<1>7. RunInv' /\ FreddyInv' /\ FreddyLeavesLast'
  BY <1>3, <1>4 DEF NightInv, RunInv, FreddyInv, FreddyLeavesLast, Movement, Goto
<1> QED
  BY <1>5, <1>6, <1>7 DEF NightInv

LEMMA ClockKeeps ==
  ASSUME NightAssumption, NightInv, Clock
  PROVE  NightInv'
<1>h. hour' \in 0..HOURS
  <2>1. hour \in 0..HOURS /\ hour # HOURS /\ HOURS \in Nat
    BY NightConstants DEF NightInv, TypeOK, FrameInv, Clock, At
  <2> QED
    BY <2>1 DEF Clock
<1>1. TypeOK'
  BY <1>h DEF NightInv, TypeOK, Clock, monitor, office, stage, fox, supply
<1>2. FrameInv'
  BY DEF NightInv, FrameInv, FrameRule, Clock, At, Goto, monitor, office, stage, fox, supply
<1>3. RunInv' /\ FreddyInv' /\ FreddyLeavesLast'
  BY DEF NightInv, RunInv, FreddyInv, FreddyLeavesLast, Clock, Goto, monitor, office, stage, fox, supply
<1> QED
  BY <1>1, <1>2, <1>3 DEF NightInv

LEMMA FoxyKeeps ==
  ASSUME NightAssumption, NightInv, Foxy
  PROVE  NightInv'
<1> DEFINE waited == foxProgress \in {3, 4} /\ ~blackout /\ foxStage + 1 > (IF foxProgress = 3 THEN STAGE3 ELSE STAGE4)
           runs == foxProgress = 5 \/ waited
           knocks == runs /\ door["left"] = "shut"
<1>1. /\ foxStage' = IF foxProgress \in {3, 4} /\ ~waited THEN Least(foxStage + 1, STAGE3 + STAGE4) ELSE 0
      /\ IF runs /\ (viewing > 0 \/ pendingView # 0) THEN putDown ELSE UNCHANGED <<viewing, pendingView, flip, lightsResetPending>>
      /\ IF runs /\ door["left"] = "open" THEN Die("foxy") ELSE Live
      /\ IF knocks THEN foxProgress' \in {0, 1} /\ power' = Largest(0, power - 1 - BANG * foxBangs) /\ foxBangs' = Least(foxBangs + 1, POWER)
         ELSE foxProgress' = (IF runs THEN 5 ELSE foxProgress) /\ UNCHANGED <<power, foxBangs>>
      /\ attention' \in (IF viewing > 0 THEN {0, 1} ELSE 0..attention)
  BY DEF Foxy
<1>2. foxStage' \in Nat
  <2> HIDE DEF waited, runs, knocks
  <2> QED
    BY <1>1, NightConstants DEF NightInv, FrameInv, Least
<1> HIDE DEF waited, runs, knocks
<1>3. power' \in 0..POWER /\ foxBangs' \in 0..POWER /\ foxProgress' \in 0..5
  <2> DEFINE bangs == BANG * foxBangs
  <2>1. bangs \in Nat
    BY NightConstants, SMTT(30) DEF NightInv, TypeOK
  <2>2. /\ power \in 0..POWER /\ foxBangs \in 0..POWER /\ POWER \in Nat \ {0} /\ foxProgress \in 0..5
    BY NightConstants DEF NightInv, TypeOK
  <2>3. \/ foxProgress' \in {0, 1} /\ power' = Largest(0, power - 1 - bangs) /\ foxBangs' = Least(foxBangs + 1, POWER)
        \/ foxProgress' \in {5, foxProgress} /\ UNCHANGED <<power, foxBangs>>
    BY <1>1
  <2> HIDE DEF bangs
  <2> QED
    BY <2>1, <2>2, <2>3 DEF Least, Largest
<1>4. attention' \in {0, 1} /\ {viewing', pendingView'} \subseteq Cameras \union {0}
  BY <1>1 DEF NightInv, TypeOK, putDown
<1>5. flip' = <<>> \/ (flip'[1] \in {"up", "down"} /\ flip'[2] \in 0..FLIP)
  BY <1>1, Flipping DEF NightInv, TypeOK, putDown
<1>6. TypeOK'
  BY <1>3, <1>4, <1>5 DEF NightInv, TypeOK, Foxy, stage
<1>7. FrameInv'
  <2>1. lightsResetPending' \in BOOLEAN
    BY <1>1 DEF NightInv, FrameInv, putDown
  <2> QED
    BY <2>1, <1>2 DEF NightInv, FrameInv, FrameRule, Foxy, At, Goto
<1>8. RunInv'
  <2>1. SUFFICES ASSUME over' = <<>>, foxProgress' = 5, ~blackout'
                 PROVE  door["left"] \in {"closing", "opening"} /\ viewing' = 0
    BY DEF RunInv, Foxy
  <2>2. runs
    BY <1>1, <2>1 DEF Foxy, runs, knocks
  <2>3. door["left"] # "open"
    BY <1>1, <2>1, <2>2 DEF Die
  <2>4. door["left"] # "shut"
    BY <1>1, <2>1, <2>2 DEF knocks
  <2>5. viewing' = 0
    BY <1>1, <2>2, SMTT(30) DEF putDown, NightInv, TypeOK, Cameras
  <2> QED
    BY <2>3, <2>4, <2>5 DEF NightInv, TypeOK, Sides
<1>9. FreddyInv' /\ FreddyLeavesLast'
  BY DEF NightInv, FreddyInv, FreddyLeavesLast, Foxy, stage
<1> QED
  BY <1>6, <1>7, <1>8, <1>9 DEF NightInv

(* Freddy's step: from the stage only after the other two, and only from   *)
(* 4B anything but one camera on.                                          *)
LEMMA FreddyGoes ==
  ASSUME NightInv, stepFreddy
  PROVE  /\ freddy' \in 1..6 /\ freddyState' \in 0..2 /\ (freddyState' = 2 => freddy' = 6)
         /\ freddy' > 1 => freddy > 1 \/ "cam1A" \notin {bonnie, chica}
         /\ viewing # 0 /\ freddy = 6 => freddy' \in {5, 6}
         /\ over' = <<>> => over = <<>>
<1>f. freddy \in 1..6
  BY DEF NightInv, TypeOK
<1>1. CASE freddy # 6
  <2>1. FREDDY_PATH[freddy] # "cam4B"
    BY <1>f, <1>1, FreddysPath
  <2>2. freddyState' = 0 /\ freddy' \in {freddy, freddy + 1} /\ over' = over
    BY <2>1 DEF stepFreddy, Live
  <2>3. freddy = 1 /\ "cam1A" \in {bonnie, chica} => freddy' = freddy
    BY <2>1, FreddysPath DEF stepFreddy
  <2> QED
    BY <1>f, <1>1, <2>2, <2>3
<1>2. CASE freddy = 6
  <2>1. FREDDY_PATH[freddy] = "cam4B"
    BY <1>2, FreddysPath
  <2>2. freddyState' \in {0, 2} /\ freddy' \in {5, 6} /\ (freddyState' = 2 => freddy' = 6)
    BY <1>2, <2>1 DEF stepFreddy
  <2>3. over' = <<>> => over = <<>>
    BY <2>1 DEF stepFreddy, Live, Die
  <2> QED
    BY <1>2, <2>2, <2>3
<1> QED
  BY <1>1, <1>2

LEMMA FreddyKeeps ==
  ASSUME NightAssumption, NightInv, Freddy
  PROVE  NightInv'
<1>1. stepFreddy \/ UNCHANGED <<freddy, freddyState, over>>
  BY DEF Freddy
<1>2. /\ freddy' \in 1..6 /\ freddyState' \in 0..2 /\ (freddyState' = 2 => freddy' = 6)
      /\ freddy' > 1 => freddy > 1 \/ "cam1A" \notin {bonnie, chica}
      /\ over' = <<>> => over = <<>>
  BY <1>1, FreddyGoes DEF NightInv, TypeOK, FreddyInv
<1>3. TypeOK'
  BY <1>2 DEF NightInv, TypeOK, Freddy, monitor, office, fox, supply
<1>4. FrameInv'
  BY <1>2 DEF NightInv, FrameInv, FrameRule, Freddy, At, Goto, monitor, office, fox, supply
<1>5. RunInv' /\ FreddyInv' /\ FreddyLeavesLast'
  BY <1>2 DEF NightInv, RunInv, FreddyInv, FreddyLeavesLast, Freddy, At, Goto, monitor, office, fox, supply
<1> QED
  BY <1>3, <1>4, <1>5 DEF NightInv

LEMMA PowerKeeps ==
  ASSUME NightAssumption, NightInv, Power
  PROVE  NightInv'
<1>u. usage \in Nat
  BY DEF usage, NightInv, TypeOK, Sides
<1>1. PICK base \in {0, 1}, extra \in {0, 1} : power' = Largest(0, power - base * usage - extra)
  BY DEF Power
<1>3. power' \in 0..POWER
  <2> DEFINE drained == base * usage
  <2>1. drained \in Nat
    BY <1>u
  <2>2. power \in 0..POWER /\ POWER \in Nat
    BY NightConstants DEF NightInv, TypeOK
  <2>3. power' = Largest(0, power - drained - extra)
    BY <1>1
  <2> HIDE DEF drained
  <2> QED
    BY <2>1, <2>2, <2>3 DEF Largest
<1>4. /\ door' \in [Sides -> {"open", "closing", "shut", "opening"}]
      /\ light' \in [Sides -> {0, 1}] /\ light'["left"] + light'["right"] <= 1
      /\ viewing' \in Cameras \union {0}
  BY DEF NightInv, TypeOK, Power, None, Sides
<1>5. TypeOK'
  BY <1>3, <1>4 DEF NightInv, TypeOK, Power, stage, fox
<1>6. FrameInv'
  <2>1. blackout' \in BOOLEAN
    BY DEF NightInv, FrameInv, Power
  <2> QED
    BY <2>1 DEF NightInv, FrameInv, FrameRule, Power, At, Goto, stage, fox
<1>7. RunInv'
  BY DEF NightInv, RunInv, Power, At, Goto, stage, fox
<1>8. FreddyInv' /\ FreddyLeavesLast'
  BY DEF NightInv, FreddyInv, FreddyLeavesLast, Power, stage, fox
<1> QED
  BY <1>5, <1>6, <1>7, <1>8 DEF NightInv

LEMMA BlackoutKeeps ==
  ASSUME NightAssumption, NightInv, Blackout
  PROVE  NightInv'
<1>1. blackoutFrames' \in 0..(BLACK + FORCE)
  BY NightConstants, SMTT(30) DEF NightInv, TypeOK, Blackout, Least
<1>2. TypeOK'
  BY <1>1 DEF NightInv, TypeOK, Blackout, monitor, office, stage, fox
<1>3. over' = <<>> => over = <<>>
  BY DEF Blackout, Die, Live
<1>4. FrameInv'
  BY DEF NightInv, FrameInv, FrameRule, Blackout, At, Goto, monitor, office, stage, fox
<1>5. RunInv' /\ FreddyInv' /\ FreddyLeavesLast'
  BY <1>3 DEF NightInv, RunInv, FreddyInv, FreddyLeavesLast, Blackout, At, Goto, monitor, office, stage, fox
<1> QED
  BY <1>2, <1>4, <1>5 DEF NightInv

LEMMA NightKeeps ==
  ASSUME NightAssumption, NightInv, [Next]_vars
  PROVE  NightInv'
<1>1. CASE PressMonitor
  BY <1>1, MonitorKeeps
<1>2. ASSUME NEW s \in Sides, PressLight(s) \/ PressDoor(s) PROVE NightInv'
  BY <1>2, LightKeeps, DoorKeeps
<1>3. CASE selectCamera
  BY <1>3, CameraKeeps
<1>4. CASE Rules
  BY <1>4, FrameKeeps, InputsKeep, MovementKeeps, ClockKeeps, FoxyKeeps, FreddyKeeps, PowerKeeps, BlackoutKeeps DEF Rules
<1>5. CASE UNCHANGED vars
  <2>1. TypeOK'
    BY <1>5 DEF NightInv, TypeOK, vars, monitor, office, stage, fox, supply
  <2>2. FrameInv' /\ RunInv' /\ FreddyInv' /\ FreddyLeavesLast'
    BY <1>5 DEF NightInv, FrameInv, RunInv, FreddyInv, FreddyLeavesLast, vars, monitor, office, stage, fox, supply
  <2> QED
    BY <2>1, <2>2 DEF NightInv
<1> QED
  BY <1>1, <1>2, <1>3, <1>4, <1>5 DEF Next, Policy, Ended

LEMMA NightHolds ==
  ASSUME NightAssumption
  PROVE  Spec => []NightInv
BY NightBegins, NightKeeps, PTL DEF Spec

(* Every variable of a first game's night stays in its set, and no two     *)
(* lights burn.                                                            *)
THEOREM NightTyped ==
  ASSUME NightAssumption
  PROVE  Spec => []TypeOK
<1>1. NightInv => TypeOK
  BY DEF NightInv
<1> QED
  BY <1>1, NightHolds, PTL

(* Between two frames of a run undecided the left door is still moving and *)
(* the monitor down, and Freddy is off the stage only when the other two   *)
(* are: whoever is awake, whatever is pressed, however long the waits.     *)
THEOREM DoorsRuled ==
  ASSUME NightAssumption
  PROVE  Spec => []DoorRules
<1>1. NightInv => FoxyWaitsAtAMovingDoor
  BY DEF NightInv, RunInv, FoxyWaitsAtAMovingDoor
<1>2. NightInv => DoorRules
  BY <1>1 DEF NightInv, DoorRules
<1> QED
  BY <1>2, NightHolds, PTL

(* Freddy moves behind a watched camera only back from 4B, and a Foxy that *)
(* runs finds no door shut in time.                                        *)
THEOREM OrderKept ==
  ASSUME NightAssumption
  PROVE  Spec => MovesInTheirOrder
<1> DEFINE Frozen == freddy' # freddy /\ viewing # 0 => freddy = 6 /\ freddy' = 5
           Unshut == foxProgress = 5 /\ door["left"] \in {"open", "opening"} => door'["left"] \in {"open", "opening"}
<1>1. ASSUME NightInv, [Next]_vars PROVE Frozen
  <2>1. SUFFICES ASSUME freddy' # freddy, viewing # 0 PROVE freddy = 6 /\ freddy' = 5
    OBVIOUS
  <2>2. Freddy
    BY <1>1, <2>1 DEF Next, Policy, Rules, Ended, vars, monitor, office, stage, fox, supply, PressMonitor, selectCamera,
       PressLight, PressDoor, Frame, stepInputs, Movement, Clock, Foxy, Power, Blackout
  <2>3. freddyState = 2 /\ stepFreddy
    BY <2>1, <2>2 DEF Freddy
  <2> QED
    BY <1>1, <2>1, <2>3, FreddyGoes DEF NightInv, FreddyInv
<1>2. ASSUME NightInv, [Next]_vars PROVE Unshut
  <2>1. SUFFICES ASSUME foxProgress = 5, door["left"] \in {"open", "opening"} PROVE door'["left"] \in {"open", "opening"}
    OBVIOUS
  <2>2. CASE stepInputs
    BY <2>1, <2>2 DEF stepInputs, Sides
  <2>3. CASE Power
    BY <2>1, <2>3 DEF Power, Sides
  <2>4. CASE UNCHANGED door
    BY <2>1, <2>4
  <2>5. stepInputs \/ Power \/ UNCHANGED door
    BY <1>2, <2>1 DEF Next, Policy, Rules, Ended, vars, monitor, office, stage, fox, supply, PressMonitor, selectCamera,
       PressLight, PressDoor, Hand, Frame, Movement, Clock, Foxy, Freddy, Blackout
  <2> QED
    BY <2>2, <2>3, <2>4, <2>5
<1>3. Spec => [][Frozen]_vars /\ [][Unshut]_vars
  <2>1. NightInv /\ [Next]_vars => [Frozen]_vars /\ [Unshut]_vars
    BY <1>1, <1>2
  <2> HIDE DEF Frozen, Unshut
  <2> QED
    BY <2>1, NightHolds, PTL DEF Spec
<1> QED
  BY <1>3 DEF MovesInTheirOrder, FrozenByCamera, NothingShutsInTime

(***************************************************************************)
(* The office of the second game.                                          *)
(***************************************************************************)
(* OfficeTypeOK, one Boolean at a time, and what it leaves out: the shared *)
(* counter of an attack has not run out on a player alive.                 *)
FlagsInv ==
  /\ alive \in BOOLEAN /\ displayed \in BOOLEAN /\ seen \in BOOLEAN /\ sampled \in BOOLEAN
  /\ mask \in BOOLEAN /\ blocked \in BOOLEAN /\ touch \in BOOLEAN /\ drop \in BOOLEAN
  /\ raiseSeen \in BOOLEAN /\ armed \in BOOLEAN
  /\ danger \in BOOLEAN /\ threshold \in BOOLEAN /\ shown \in BOOLEAN

PanelInv ==
  /\ phase \in {"input", "drop", "animate", "route", "early", "resolve", "units", "late"}
  /\ mon \in {"down", "raising", "up", "lowering"}
  /\ monAnim \in 0 .. MON_UP + MON_DOWN /\ maskAnim \in 0 .. MASK_ON + MASK_OFF

UnitsInv ==
  /\ pos \in [Units -> {"away", "at", "in"}]
  /\ cue \subseteq Units /\ committed \subseteq Units
  /\ engaged \in Streak \cup {NoUnit}
  /\ puppet \in {"never", "away", "at", "attack"}

ClocksInv ==
  /\ encounter \in [active : BOOLEAN, masked : BOOLEAN, fuse : 0 .. GRACE]
  /\ clock \in 0 .. BLACKOUT /\ fade \in 0 .. FADE
  /\ streak \in 0 .. STREAK /\ attack \in 0 .. ATTACK
  /\ alive => attack < ATTACK

(* The monitor and the mask keep out of each other's way, and a camera is  *)
(* displayed on a raised monitor only.                                     *)
HandsInv ==
  /\ displayed => mon = "up"
  /\ mask => mon \in {"down", "lowering"}

(* A drop that is waiting and is no attack's was asked for by a raised     *)
(* monitor, or, with the mask on, at the end of the tick while no          *)
(* encounter ran; the next tick performs it before one can start.          *)
DropInv ==
  drop /\ ~Attacked
    => \/ mon = "up" /\ phase \in {"input", "drop", "early", "resolve", "units", "late"}
       \/ ~encounter.active /\ phase \in {"input", "drop"}

OfficeInv ==
  /\ FlagsInv /\ PanelInv /\ UnitsInv /\ ClocksInv
  /\ HandsInv /\ DropInv
  /\ LockHeldAtTheThreshold /\ DefendedStaysMasked

-------------------------------------------------------------------------------
LEMMA OfficeConstants ==
  ASSUME OfficeAssumption
  PROVE  /\ MON_UP \in Nat \ {0} /\ MON_DOWN \in Nat \ {0} /\ MASK_ON \in Nat \ {0} /\ MASK_OFF \in Nat \ {0}
         /\ GRACE \in Nat \ {0} /\ BLACKOUT \in Nat \ {0} /\ FADE \in Nat \ {0} /\ STREAK \in Nat \ {0}
         /\ ATTACK \in Nat \ {0}
BY DEF OfficeAssumption

LEMMA NobodyIsNoUnit ==
  ASSUME OfficeAssumption
  PROVE  NoUnit \notin Units /\ Streak \subseteq Units /\ "mangle" \notin Streak /\ "toybonnie" \notin Streak /\ "toychica" \notin Streak
BY DEF OfficeAssumption, NoUnit, Streak, ResolveDefended

LEMMA OfficeTypes ==
  ASSUME OfficeInv
  PROVE  OfficeTypeOK
<1>1. {alive, displayed, seen, sampled, mask, blocked, touch, drop, raiseSeen, armed, danger, threshold, shown} \subseteq BOOLEAN
  BY Zenon DEF OfficeInv, FlagsInv
<1> QED
  BY <1>1 DEF OfficeInv, PanelInv, UnitsInv, ClocksInv, OfficeTypeOK

LEMMA OfficeBegins ==
  ASSUME OfficeAssumption, OfficeInit
  PROVE  OfficeInv
<1>1. FlagsInv
  BY Zenon DEF OfficeInit, FlagsInv
<1>2. PanelInv /\ UnitsInv
  BY OfficeConstants DEF OfficeInit, PanelInv, UnitsInv
<1>3. ClocksInv
  BY OfficeConstants DEF OfficeInit, ClocksInv, Idle
<1>4. HandsInv /\ DropInv /\ DefendedStaysMasked
  BY DEF OfficeInit, HandsInv, DropInv, DefendedStaysMasked, Idle
<1>5. LockHeldAtTheThreshold
  BY NobodyIsNoUnit DEF OfficeInit, LockHeldAtTheThreshold, Waits
<1> QED
  BY <1>1, <1>2, <1>3, <1>4, <1>5 DEF OfficeInv

(* Where those that go in or leave are units, the lock stays the streak    *)
(* unit's that waits.                                                      *)
LEMMA Settling ==
  ASSUME OfficeAssumption, OfficeInv, NEW E \in SUBSET Units, NEW L \in SUBSET Units, NEW C \in SUBSET Units, Settle(E, L, C)
  PROVE  /\ UnitsInv' <=> committed' \subseteq Units /\ puppet' \in {"never", "away", "at", "attack"}
         /\ raiseSeen' \in BOOLEAN
         /\ LockHeldAtTheThreshold'
<1>1. pos' \in [Units -> {"away", "at", "in"}] /\ cue' \subseteq Units
  BY DEF Settle, OfficeInv, UnitsInv
<1>2. engaged' \in Streak \cup {NoUnit}
  BY DEF Settle, OfficeInv, UnitsInv
<1>3. raiseSeen' \in BOOLEAN
  BY DEF Settle, OfficeInv, FlagsInv
<1>4. ASSUME NEW u \in Streak PROVE Waits(u)' <=> engaged' = u
  <2>1. u \in Units /\ u # NoUnit
    BY NobodyIsNoUnit
  <2>2. Waits(u)' <=> Waits(u) /\ u \notin E \cup L
    BY <2>1 DEF Settle, Waits, OfficeInv, UnitsInv
  <2>3. Waits(u) <=> engaged = u
    BY DEF OfficeInv, LockHeldAtTheThreshold
  <2>4. engaged' = u <=> engaged = u /\ u \notin E \cup L
    BY <2>1 DEF Settle
  <2> QED
    BY <2>2, <2>3, <2>4
<1> QED
  BY <1>1, <1>2, <1>3, <1>4 DEF UnitsInv, LockHeldAtTheThreshold

(* Nobody moves.                                                           *)
LEMMA NobodyMoves ==
  ASSUME OfficeInv, UNCHANGED <<pos, cue, engaged, committed, puppet>>
  PROVE  UnitsInv' /\ LockHeldAtTheThreshold'
BY DEF OfficeInv, UnitsInv, LockHeldAtTheThreshold, Waits

LEMMA MaskPressed ==
  ASSUME OfficeAssumption, OfficeInv, PressMask
  PROVE  OfficeInv'
<1>1. FlagsInv'
  BY ZenonT(40) DEF OfficeInv, FlagsInv, PressMask, panelVars, maskVars, unitVars, clockVars
<1>2. PanelInv'
  BY OfficeConstants DEF OfficeInv, PanelInv, PressMask, panelVars, maskVars
<1>3. UnitsInv' /\ LockHeldAtTheThreshold'
  BY NobodyMoves DEF PressMask, unitVars, attackVars
<1>4. ClocksInv'
  BY DEF OfficeInv, ClocksInv, PressMask, clockVars, attackVars
<1>5. HandsInv'
  BY DEF OfficeInv, HandsInv, PanelInv, PressMask, panelVars, maskVars
<1>6. DropInv' /\ DefendedStaysMasked'
  BY DEF OfficeInv, DropInv, DefendedStaysMasked, Attacked, AttackExecuting, PressMask, panelVars, maskVars, attackVars
<1> QED
  BY <1>1, <1>2, <1>3, <1>4, <1>5, <1>6 DEF OfficeInv

LEMMA PanelPressed ==
  ASSUME OfficeAssumption, OfficeInv, PressPanel
  PROVE  OfficeInv'
<1>1. FlagsInv'
  <2>1. raiseSeen' \in BOOLEAN /\ touch' \in BOOLEAN
    BY DEF OfficeInv, FlagsInv, PressPanel
  <2> QED
    BY <2>1 DEF OfficeInv, FlagsInv, PressPanel, maskVars, clockVars
<1>2. PanelInv'
  BY OfficeConstants DEF OfficeInv, PanelInv, PressPanel, maskVars
<1>3. UnitsInv' /\ LockHeldAtTheThreshold'
  BY NobodyMoves DEF PressPanel, attackVars
<1>4. ClocksInv'
  BY DEF OfficeInv, ClocksInv, PressPanel, clockVars, attackVars
<1>5. HandsInv'
  BY DEF OfficeInv, HandsInv, PressPanel, maskVars
<1>6. DropInv' /\ DefendedStaysMasked'
  BY DEF OfficeInv, DropInv, DefendedStaysMasked, Attacked, AttackExecuting, PressPanel, maskVars, attackVars
<1> QED
  BY <1>1, <1>2, <1>3, <1>4, <1>5, <1>6 DEF OfficeInv

LEMMA CameraPressed ==
  ASSUME OfficeAssumption, OfficeInv, PressCamera
  PROVE  OfficeInv'
<1>1. FlagsInv'
  BY DEF OfficeInv, FlagsInv, PressCamera, maskVars, unitVars, clockVars
<1>2. PanelInv'
  BY DEF OfficeInv, PanelInv, PressCamera, maskVars
<1>3. UnitsInv' /\ LockHeldAtTheThreshold'
  BY NobodyMoves DEF PressCamera, unitVars, attackVars
<1>4. ClocksInv'
  BY DEF OfficeInv, ClocksInv, PressCamera, clockVars, attackVars
<1>5. HandsInv' /\ DropInv' /\ DefendedStaysMasked'
  BY DEF OfficeInv, HandsInv, DropInv, DefendedStaysMasked, Attacked, AttackExecuting, PressCamera, maskVars, attackVars
<1> QED
  BY <1>1, <1>2, <1>3, <1>4, <1>5 DEF OfficeInv

LEMMA TickStarts ==
  ASSUME OfficeAssumption, OfficeInv, StartTick \/ AnimationFinished
  PROVE  OfficeInv'
<1>1. FlagsInv'
  <2>1. alive' \in BOOLEAN
    BY DEF OfficeInv, FlagsInv, StartTick, AnimationFinished
  <2>2. UNCHANGED <<panelVars, maskVars, touch, drop, unitVars, armed, clockVars>>
    BY DEF StartTick, AnimationFinished
  <2> QED
    BY <2>1, <2>2 DEF OfficeInv, FlagsInv, panelVars, maskVars, unitVars, clockVars
<1>2. PanelInv'
  BY DEF OfficeInv, PanelInv, StartTick, AnimationFinished, panelVars, maskVars
<1>3. UnitsInv' /\ LockHeldAtTheThreshold'
  BY NobodyMoves DEF StartTick, AnimationFinished, unitVars, attackVars
<1>4. ClocksInv'
  BY DEF OfficeInv, ClocksInv, StartTick, AnimationFinished, clockVars, attackVars
<1>5. HandsInv' /\ DropInv' /\ DefendedStaysMasked'
  BY DEF OfficeInv, HandsInv, DropInv, DefendedStaysMasked, Attacked, AttackExecuting, StartTick, AnimationFinished, Tap,
     panelVars, maskVars, attackVars
<1> QED
  BY <1>1, <1>2, <1>3, <1>4, <1>5 DEF OfficeInv

(* The drop is performed: where it takes the mask off no encounter runs,   *)
(* and where it provokes somebody the office is attacked.                  *)
LEMMA ForcedDown ==
  ASSUME OfficeAssumption, OfficeInv, Forcedown
  PROVE  OfficeInv'
<1> DEFINE lowers == drop /\ mon \in {"up", "raising"}
           unmasks == drop /\ mask
           provoked == {u \in Units : Inside(u) /\ \/ lowers /\ (u = "mangle" => armed)
                                                   \/ unmasks /\ u \in Streak}
<1>0. /\ mon' = (IF lowers THEN "lowering" ELSE mon) /\ monAnim' = (IF lowers THEN MON_DOWN ELSE monAnim)
      /\ displayed' = (displayed /\ ~lowers)
      /\ mask' = (mask /\ ~unmasks) /\ maskAnim' = (IF unmasks THEN MASK_OFF ELSE maskAnim)
      /\ blocked' = (blocked /\ ~unmasks)
      /\ drop' = (provoked \ committed # {}) /\ committed' = committed \cup provoked
      /\ provoked \subseteq Units
  BY DEF Forcedown
<1> HIDE DEF provoked
<1>1. FlagsInv'
  <2>1. displayed' \in BOOLEAN
    BY <1>0
  <2>2. mask' \in BOOLEAN
    BY <1>0
  <2>3. blocked' \in BOOLEAN
    BY <1>0
  <2>4. drop' \in BOOLEAN
    BY <1>0
  <2> QED
    BY <2>1, <2>2, <2>3, <2>4, Zenon DEF OfficeInv, FlagsInv, Forcedown, unitVars, clockVars
<1>2. PanelInv'
  BY <1>0, OfficeConstants DEF OfficeInv, PanelInv, Forcedown
<1>3. UnitsInv' /\ LockHeldAtTheThreshold'
  BY <1>0 DEF OfficeInv, UnitsInv, LockHeldAtTheThreshold, Waits, Forcedown, unitVars
<1>4. ClocksInv'
  BY DEF OfficeInv, ClocksInv, Forcedown, clockVars
<1>5. HandsInv'
  BY <1>0 DEF OfficeInv, HandsInv
<1>a. Attacked => Attacked'
  BY <1>0 DEF Attacked, AttackExecuting, Forcedown
<1>6. DropInv'
  BY <1>0 DEF DropInv, Attacked, AttackExecuting
<1>7. DefendedStaysMasked'
  <2>1. SUFFICES ASSUME encounter.active, encounter.masked, ~Attacked', ~mask' PROVE FALSE
    BY DEF DefendedStaysMasked, Forcedown
  <2>2. mask /\ drop
    BY <1>0, <1>a, <2>1 DEF OfficeInv, DefendedStaysMasked
  <2> QED
    BY <1>a, <2>1, <2>2 DEF OfficeInv, DropInv, HandsInv
<1> QED
  BY <1>1, <1>2, <1>3, <1>4, <1>5, <1>6, <1>7 DEF OfficeInv

LEMMA Animated ==
  ASSUME OfficeAssumption, OfficeInv, Animate
  PROVE  OfficeInv'
<1> DEFINE up == mon = "raising" /\ monAnim = 1
           down == mon = "lowering" /\ monAnim = 1
           on == mask /\ maskAnim = 1
           off == ~mask /\ maskAnim = 1
           seers == {u \in Units : up /\ u = "mangle" /\ Waits(u) /\ raiseSeen}
<1>0. /\ mon' = (IF up THEN "up" ELSE IF down /\ ~Attacked THEN "down" ELSE mon)
      /\ displayed' = (~on /\ (displayed \/ (up /\ (~seen \/ sampled))))
      /\ seen' = (seen \/ up) /\ blocked' = (IF off THEN Attacked ELSE blocked)
      /\ \E tick \in BOOLEAN : sampled' = (sampled \/ (displayed' /\ tick))
      /\ Settle(seers, {}, {})
  BY DEF Animate
<1>s. UnitsInv' /\ raiseSeen' \in BOOLEAN /\ LockHeldAtTheThreshold'
  <2>1. seers \in SUBSET Units
    OBVIOUS
  <2> HIDE DEF seers
  <2> QED
    BY <1>0, <2>1, Settling DEF OfficeInv, UnitsInv, Animate, attackVars
<1> HIDE DEF seers
<1>1. FlagsInv'
  <2>1. displayed' \in BOOLEAN
    BY <1>0
  <2>2. seen' \in BOOLEAN
    BY <1>0
  <2>3. blocked' \in BOOLEAN
    BY <1>0 DEF OfficeInv, FlagsInv, Attacked, AttackExecuting
  <2>4. sampled' \in BOOLEAN
    BY <1>0
  <2> QED
    BY <1>s, <2>1, <2>2, <2>3, <2>4, Zenon DEF OfficeInv, FlagsInv, Animate, clockVars
<1>2. PanelInv'
  BY <1>0, OfficeConstants DEF OfficeInv, PanelInv, Animate, Less
<1>4. ClocksInv'
  BY DEF OfficeInv, ClocksInv, Animate, clockVars, attackVars
<1>5. HandsInv'
  BY <1>0 DEF OfficeInv, HandsInv, Animate
<1>6. DropInv'
  BY <1>0 DEF OfficeInv, DropInv, Attacked, AttackExecuting, Animate, attackVars
<1>7. DefendedStaysMasked'
  BY DEF OfficeInv, DefendedStaysMasked, Attacked, AttackExecuting, Animate, attackVars
<1> QED
  BY <1>s, <1>1, <1>2, <1>4, <1>5, <1>6, <1>7 DEF OfficeInv

LEMMA Arrived ==
  ASSUME OfficeAssumption, OfficeInv, NEW u \in Units, Arrive(u)
  PROVE  OfficeInv'
<1>1. UnitsInv'
  BY DEF OfficeInv, UnitsInv, Arrive, attackVars
<1>2. LockHeldAtTheThreshold'
  <2>1. ASSUME NEW v \in Streak PROVE Waits(v)' <=> engaged' = v
    <3>1. v \in Units /\ v # NoUnit /\ (u \in Streak => engaged = NoUnit)
      BY NobodyIsNoUnit DEF Arrive, EntryGate
    <3>2. Waits(v)' <=> (v = u \/ Waits(v))
      BY <3>1 DEF Waits, Arrive, OfficeInv, UnitsInv
    <3>3. Waits(v) <=> engaged = v
      BY DEF OfficeInv, LockHeldAtTheThreshold
    <3> QED
      BY <3>1, <3>2, <3>3 DEF Arrive
  <2> QED
    BY <2>1 DEF LockHeldAtTheThreshold
<1>3. FlagsInv' /\ PanelInv'
  BY DEF OfficeInv, FlagsInv, PanelInv, Arrive, panelVars, maskVars, clockVars
<1>4. ClocksInv'
  BY DEF OfficeInv, ClocksInv, Arrive, clockVars, attackVars
<1>5. HandsInv' /\ DropInv' /\ DefendedStaysMasked'
  BY DEF OfficeInv, HandsInv, DropInv, DefendedStaysMasked, Attacked, AttackExecuting, Arrive, panelVars, maskVars, attackVars
<1> QED
  BY <1>1, <1>2, <1>3, <1>4, <1>5 DEF OfficeInv

LEMMA RouteIsDone ==
  ASSUME OfficeAssumption, OfficeInv, RouteDone
  PROVE  OfficeInv'
<1>0. PICK ten \in BOOLEAN : drop' = (drop \/ (ten /\ mon = "up" /\ \E u \in Streak : Waits(u)))
  BY DEF RouteDone
<1>1. FlagsInv'
  <2>1. drop' \in BOOLEAN
    BY <1>0
  <2> QED
    BY <2>1, Zenon DEF OfficeInv, FlagsInv, RouteDone, panelVars, maskVars, unitVars, clockVars
<1>2. PanelInv'
  BY DEF OfficeInv, PanelInv, RouteDone, panelVars, maskVars
<1>3. UnitsInv' /\ LockHeldAtTheThreshold'
  BY NobodyMoves DEF RouteDone, unitVars, attackVars
<1>4. ClocksInv'
  BY DEF OfficeInv, ClocksInv, RouteDone, clockVars, attackVars
<1>5. HandsInv' /\ DropInv' /\ DefendedStaysMasked'
  BY <1>0 DEF OfficeInv, HandsInv, DropInv, DefendedStaysMasked, Attacked, AttackExecuting, RouteDone, panelVars, maskVars, attackVars
<1> QED
  BY <1>1, <1>2, <1>3, <1>4, <1>5 DEF OfficeInv

LEMMA EarlyPassed ==
  ASSUME OfficeAssumption, OfficeInv, Early
  PROVE  OfficeInv'
<1>0. PICK L \in SUBSET Units, C \in SUBSET Units :
        /\ Settle({}, L, C)
        /\ encounter' = (IF C = {} THEN encounter ELSE [active |-> TRUE, masked |-> MaskFullyOn, fuse |-> GRACE])
        /\ clock' = IF encounter'.active /\ clock < BLACKOUT THEN clock + 1 ELSE clock
  <2>1. PICK repelled \in SUBSET {u \in Units \cap {"mangle", "toychica"} : Waits(u) /\ MaskFullyOn},
             slide \in SUBSET {u \in Units \cap {"toybonnie"} : Waits(u) /\ MaskFullyOn /\ ~encounter.active /\ u \notin cue},
             shooed \in SUBSET {u \in Units \cap {"toybonnie"} : Waits(u) /\ MaskFullyOn /\ encounter.active /\ u \notin cue} :
          LET waiting == {u \in Streak : Waits(u) /\ u \notin cue /\ ~displayed}
              starter == IF encounter.active THEN {} ELSE IF slide # {} THEN slide ELSE waiting
              now == IF starter = {} THEN encounter ELSE [active |-> TRUE, masked |-> MaskFullyOn, fuse |-> GRACE]
          IN /\ Settle({}, repelled \cup shooed, starter)
             /\ encounter' = now
             /\ clock' = IF now.active /\ clock < BLACKOUT THEN clock + 1 ELSE clock
    BY DEF Early
  <2> DEFINE L == repelled \cup shooed
             C == IF encounter.active THEN {} ELSE IF slide # {} THEN slide ELSE {u \in Streak : Waits(u) /\ u \notin cue /\ ~displayed}
  <2>2. L \in SUBSET Units /\ C \in SUBSET Units
    BY NobodyIsNoUnit
  <2>3. /\ Settle({}, L, C)
        /\ encounter' = (IF C = {} THEN encounter ELSE [active |-> TRUE, masked |-> MaskFullyOn, fuse |-> GRACE])
        /\ clock' = IF encounter'.active /\ clock < BLACKOUT THEN clock + 1 ELSE clock
    BY <2>1
  <2> HIDE DEF L, C
  <2> QED
    BY <2>2, <2>3
<1>s. UnitsInv' /\ raiseSeen' \in BOOLEAN /\ LockHeldAtTheThreshold'
  BY <1>0, Settling DEF OfficeInv, UnitsInv, Early, attackVars
<1>m. MaskFullyOn \in BOOLEAN /\ (MaskFullyOn => mask)
  BY DEF MaskFullyOn
<1>1. FlagsInv'
  BY <1>s, Zenon DEF OfficeInv, FlagsInv, Early, panelVars, maskVars
<1>2. PanelInv'
  BY DEF OfficeInv, PanelInv, Early, panelVars, maskVars
<1>3. ClocksInv'
  BY <1>0, <1>m, OfficeConstants DEF OfficeInv, ClocksInv, Early, attackVars
<1>4. HandsInv'
  BY DEF OfficeInv, HandsInv, Early, panelVars, maskVars
<1>5. DropInv'
  BY DEF OfficeInv, DropInv, Attacked, AttackExecuting, Early, panelVars, attackVars
<1>6. DefendedStaysMasked'
  BY <1>0, <1>m DEF OfficeInv, DefendedStaysMasked, Attacked, AttackExecuting, Early, maskVars, attackVars
<1> QED
  BY <1>s, <1>1, <1>2, <1>3, <1>4, <1>5, <1>6 DEF OfficeInv

LEMMA FirstsAreUnits == ASSUME NEW order PROVE First(order) \subseteq Units
BY DEF First

LEMMA Resolved ==
  ASSUME OfficeAssumption, OfficeInv, Resolve
  PROVE  OfficeInv'
<1> DEFINE restarted == IF encounter.active /\ ~danger THEN 1 ELSE fade
           fading == IF clock >= BLACKOUT THEN restarted + 1 ELSE restarted
           defended == encounter.masked \/ (MaskFullyOn /\ encounter.fuse > 0)
           ends == encounter.active /\ threshold' /\ ~threshold
<1>0. PICK E \in SUBSET Units, L \in SUBSET Units :
        /\ BlackoutPhase(fading)
        /\ encounter' = (IF ~encounter.active \/ ends THEN Idle
                         ELSE [active |-> TRUE, masked |-> defended, fuse |-> Less(encounter.fuse)])
        /\ Settle(E, L, {})
  <2>1. (IF ends /\ ~defended THEN First(ResolveFailed) ELSE {}) \in SUBSET Units
    BY FirstsAreUnits
  <2>2. (IF ends /\ defended THEN First(ResolveDefended) ELSE {}) \in SUBSET Units
    BY FirstsAreUnits
  <2> QED
    BY <2>1, <2>2 DEF Resolve
<1>s. UnitsInv' /\ raiseSeen' \in BOOLEAN /\ LockHeldAtTheThreshold'
  BY <1>0, Settling DEF OfficeInv, UnitsInv, Resolve, attackVars
<1>m. defended \in BOOLEAN /\ (MaskFullyOn => mask)
  BY DEF MaskFullyOn, OfficeInv, ClocksInv
<1>1. FlagsInv'
  <2>1. threshold' \in BOOLEAN
    BY <1>0 DEF BlackoutPhase
  <2>2. danger' \in BOOLEAN
    BY <1>0 DEF BlackoutPhase, OfficeInv, ClocksInv
  <2> QED
    BY <1>s, <2>1, <2>2, Zenon DEF OfficeInv, FlagsInv, Resolve, panelVars, maskVars
<1>2. PanelInv'
  BY DEF OfficeInv, PanelInv, Resolve, panelVars, maskVars
<1>3. ClocksInv'
  <2>1. clock' \in 0 .. BLACKOUT /\ fade' \in 0 .. FADE
    BY <1>0, OfficeConstants DEF OfficeInv, ClocksInv, BlackoutPhase
  <2>2. encounter' \in [active : BOOLEAN, masked : BOOLEAN, fuse : 0 .. GRACE]
    <3>1. Idle \in [active : BOOLEAN, masked : BOOLEAN, fuse : 0 .. GRACE]
      BY OfficeConstants DEF Idle
    <3>2. Less(encounter.fuse) \in 0 .. GRACE
      BY OfficeConstants DEF OfficeInv, ClocksInv, Less
    <3> HIDE DEF defended, ends
    <3> QED
      BY <1>0, <1>m, <3>1, <3>2
  <2> QED
    BY <2>1, <2>2 DEF OfficeInv, ClocksInv, Resolve, attackVars
<1>4. HandsInv'
  BY DEF OfficeInv, HandsInv, Resolve, panelVars, maskVars
<1>5. DropInv'
  BY DEF OfficeInv, DropInv, Attacked, AttackExecuting, Resolve, panelVars, attackVars
<1>6. DefendedStaysMasked'
  <2>1. SUFFICES ASSUME encounter'.active, encounter'.masked, ~Attacked' PROVE mask
    BY DEF DefendedStaysMasked, Resolve, maskVars
  <2>2. ~Attacked
    BY <2>1 DEF Attacked, AttackExecuting, Resolve, attackVars
  <2>3. encounter.active /\ ~ends
    BY <1>0, <2>1 DEF Idle
  <2>4. defended
    <3> HIDE DEF defended, ends
    <3> QED
      BY <1>0, <2>1, <2>3
  <2> QED
    BY <1>m, <2>2, <2>3, <2>4 DEF OfficeInv, DefendedStaysMasked
<1> QED
  BY <1>s, <1>1, <1>2, <1>3, <1>4, <1>5, <1>6 DEF OfficeInv

LEMMA UnitsTicked ==
  ASSUME OfficeAssumption, OfficeInv, TickUnits
  PROVE  OfficeInv'
<1>0. PICK able \in SUBSET Units, rising \in SUBSET Units :
        /\ Settle(able, {}, {})
        /\ committed' = committed \cup rising
        /\ drop' = (drop \/ rising # {})
  <2>1. PICK ready \in SUBSET (Units \cap {"toybonnie", "toychica"}) :
          LET able == {u \in Units : Waits(u) /\ MayEnter(u) /\ (u \in Streak \/ u \in ready)}
              rising == {u \in Units \ committed :
                           /\ Inside(u)
                           /\ \/ u = "mangle" /\ armed /\ mon # "up"
                              \/ u = "toybonnie" /\ displayed /\ u \in ready}
          IN /\ Settle(able, {}, {})
             /\ committed' = committed \cup rising
             /\ drop' = (drop \/ rising # {})
    BY DEF TickUnits
  <2> DEFINE able == {u \in Units : Waits(u) /\ MayEnter(u) /\ (u \in Streak \/ u \in ready)}
             rising == {u \in Units \ committed :
                          /\ Inside(u)
                          /\ \/ u = "mangle" /\ armed /\ mon # "up"
                             \/ u = "toybonnie" /\ displayed /\ u \in ready}
  <2>2. able \in SUBSET Units /\ rising \in SUBSET Units
    OBVIOUS
  <2>3. Settle(able, {}, {}) /\ committed' = committed \cup rising /\ drop' = (drop \/ rising # {})
    BY <2>1
  <2> HIDE DEF able, rising
  <2> QED
    BY <2>2, <2>3
<1>s. UnitsInv' /\ raiseSeen' \in BOOLEAN /\ LockHeldAtTheThreshold'
  BY <1>0, Settling DEF OfficeInv, UnitsInv, TickUnits
<1>1. FlagsInv'
  <2>1. drop' \in BOOLEAN
    BY <1>0
  <2> QED
    BY <1>s, <2>1, Zenon DEF OfficeInv, FlagsInv, TickUnits, panelVars, maskVars, clockVars
<1>2. PanelInv'
  BY DEF OfficeInv, PanelInv, TickUnits, panelVars, maskVars
<1>3. ClocksInv'
  BY DEF OfficeInv, ClocksInv, TickUnits, clockVars
<1>4. HandsInv'
  BY DEF OfficeInv, HandsInv, TickUnits, panelVars, maskVars
<1>5. DropInv' /\ DefendedStaysMasked'
  BY <1>0 DEF OfficeInv, DropInv, DefendedStaysMasked, Attacked, AttackExecuting, TickUnits, panelVars, maskVars
<1> QED
  BY <1>s, <1>1, <1>2, <1>3, <1>4, <1>5 DEF OfficeInv

LEMMA LatePassed ==
  ASSUME OfficeAssumption, OfficeInv, Late
  PROVE  OfficeInv'
<1> DEFINE hidden == {u \in Streak : Inside(u) /\ MaskFullyOn}
<1>0. PICK strike \in SUBSET Units, leaving \in SUBSET Units, step \in BOOLEAN, arm \in BOOLEAN :
        /\ committed' = committed \cup strike
        /\ attack' = Countdown(committed', puppet = "attack")
        /\ alive' = (attack' < ATTACK)
        /\ puppet' = IF step /\ puppet = "away" THEN "at"
                     ELSE IF step /\ puppet = "at" THEN "attack" ELSE puppet
        /\ drop' = (drop \/ DropTouched \/ strike # {} \/ (step /\ puppet = "at"))
        /\ armed' = (armed \/ (arm /\ displayed /\ "mangle" \in Units /\ Inside("mangle")))
        /\ Settle({}, leaving, {})
  <2>1. hidden \subseteq Units
    BY NobodyIsNoUnit
  <2> HIDE DEF hidden
  <2>2. PICK strike \in SUBSET {u \in hidden \ committed : ~Attacked}, leaving \in SUBSET hidden, step \in BOOLEAN, arm \in BOOLEAN :
          /\ committed' = committed \cup strike
          /\ attack' = Countdown(committed', puppet = "attack")
          /\ alive' = (attack' < ATTACK)
          /\ puppet' = IF step /\ puppet = "away" THEN "at"
                       ELSE IF step /\ puppet = "at" THEN "attack" ELSE puppet
          /\ drop' = (drop \/ DropTouched \/ strike # {} \/ (step /\ puppet = "at"))
          /\ armed' = (armed \/ (arm /\ displayed /\ "mangle" \in Units /\ Inside("mangle")))
          /\ Settle({}, leaving, {})
    BY DEF Late, hidden
  <2>3. strike \in SUBSET Units /\ leaving \in SUBSET Units
    BY <2>1
  <2> QED
    BY <2>2, <2>3
<1>s. UnitsInv' /\ raiseSeen' \in BOOLEAN /\ LockHeldAtTheThreshold'
  <2>1. committed' \subseteq Units /\ puppet' \in {"never", "away", "at", "attack"}
    BY <1>0 DEF OfficeInv, UnitsInv
  <2> QED
    BY <1>0, <2>1, Settling
<1>t. attack' \in 0 .. ATTACK /\ (alive' => attack' < ATTACK)
  <2>1. attack' \in {attack + 1, 0} /\ attack \in 0 .. ATTACK /\ attack < ATTACK
    BY <1>0 DEF Countdown, Late, OfficeInv, ClocksInv
  <2>2. attack' \in 0 .. ATTACK
    BY <2>1, OfficeConstants
  <2>3. alive' => attack' < ATTACK
    BY <1>0
  <2> QED
    BY <2>2, <2>3
<1>1. FlagsInv'
  <2>1. alive' \in BOOLEAN
    BY <1>0
  <2>2. drop' \in BOOLEAN
    BY <1>0
  <2>3. armed' \in BOOLEAN
    BY <1>0
  <2>4. shown' \in BOOLEAN
    BY DEF Late
  <2>5. touch' \in BOOLEAN
    BY DEF Late
  <2> QED
    BY <1>s, <2>1, <2>2, <2>3, <2>4, <2>5, Zenon DEF OfficeInv, FlagsInv, Late, panelVars, maskVars
<1>2. PanelInv'
  BY DEF OfficeInv, PanelInv, Late, panelVars, maskVars
<1>3. ClocksInv'
  <2>1. fade' \in 0 .. FADE /\ streak' \in 0 .. STREAK
    BY OfficeConstants DEF OfficeInv, ClocksInv, Late
  <2> QED
    BY <1>t, <2>1 DEF OfficeInv, ClocksInv, Late
<1>4. HandsInv'
  BY DEF OfficeInv, HandsInv, Late, panelVars, maskVars
<1>5. Attacked => Attacked'
  BY <1>0 DEF Attacked, AttackExecuting
<1>6. DropInv'
  <2>1. SUFFICES ASSUME drop', ~Attacked' PROVE mon = "up" \/ ~encounter.active
    BY DEF DropInv, Late, panelVars
  <2>2. drop \/ DropTouched
    BY <1>0, <2>1 DEF Attacked, AttackExecuting
  <2>3. CASE drop
    BY <1>5, <2>1, <2>3 DEF OfficeInv, DropInv, Late
  <2>4. CASE DropTouched
    BY <2>4 DEF DropTouched
  <2> QED
    BY <2>2, <2>3, <2>4
<1>7. DefendedStaysMasked'
  BY <1>5 DEF OfficeInv, DefendedStaysMasked, Late, maskVars
<1> QED
  BY <1>s, <1>1, <1>2, <1>3, <1>4, <1>6, <1>7 DEF OfficeInv

LEMMA OfficeKeeps ==
  ASSUME OfficeAssumption, OfficeInv, [OfficeNext]_officeVars
  PROVE  OfficeInv'
<1>1. CASE PressMask \/ PressPanel \/ PressCamera \/ AnimationFinished
  BY <1>1, MaskPressed, PanelPressed, CameraPressed, TickStarts
<1>2. ASSUME NEW u \in Units, Arrive(u) PROVE OfficeInv'
  BY <1>2, Arrived
<1>3. CASE Tick
  BY <1>3, TickStarts, ForcedDown, Animated, RouteIsDone, EarlyPassed, Resolved, UnitsTicked, LatePassed DEF Tick
<1>4. CASE UNCHANGED officeVars
  <2>1. FlagsInv' /\ PanelInv' /\ UnitsInv' /\ ClocksInv'
    BY <1>4 DEF OfficeInv, FlagsInv, PanelInv, UnitsInv, ClocksInv, officeVars, panelVars, maskVars, unitVars, clockVars, attackVars
  <2>2. HandsInv' /\ DropInv' /\ LockHeldAtTheThreshold' /\ DefendedStaysMasked'
    BY <1>4 DEF OfficeInv, HandsInv, DropInv, LockHeldAtTheThreshold, Waits, DefendedStaysMasked, Attacked, AttackExecuting,
       officeVars, panelVars, maskVars, unitVars, attackVars
  <2> QED
    BY <2>1, <2>2 DEF OfficeInv
<1> QED
  BY <1>1, <1>2, <1>3, <1>4 DEF OfficeNext, Dead

LEMMA OfficeHolds ==
  ASSUME OfficeAssumption
  PROVE  OfficeSpec => []OfficeInv
BY OfficeBegins, OfficeKeeps, PTL DEF OfficeSpec

(* Every variable of the office keeps to its values.                       *)
THEOREM OfficeTyped ==
  ASSUME OfficeAssumption
  PROVE  OfficeSpec => []OfficeTypeOK
BY OfficeHolds, OfficeTypes, PTL

(* Who goes in, does so on a monitor that is up or out of an encounter     *)
(* that has failed.                                                        *)
LetIn(u) == pos[u] # "in" /\ pos'[u] = "in"
WayIn == mon' = "up" \/ (encounter.active /\ ~encounter.masked /\ ~encounter'.active)

LEMMA SettledIn ==
  ASSUME OfficeInv, NEW E, NEW L, NEW C, Settle(E, L, C), NEW u \in Units, LetIn(u)
  PROVE  u \in E
BY DEF Settle, LetIn, OfficeInv, UnitsInv

LEMMA AnimateLetsIn ==
  ASSUME OfficeInv, NEW u \in Units, LetIn(u), Animate
  PROVE  WayIn
<1> DEFINE up == mon = "raising" /\ monAnim = 1
           seers == {v \in Units : up /\ v = "mangle" /\ Waits(v) /\ raiseSeen}
<1>1. Settle(seers, {}, {}) /\ (up => mon' = "up")
  BY DEF Animate
<1>2. u \in seers
  <2> HIDE DEF seers
  <2> QED
    BY <1>1, SettledIn
<1> QED
  BY <1>1, <1>2 DEF WayIn

LEMMA ResolveLetsIn ==
  ASSUME OfficeAssumption, OfficeInv, NEW u \in Units, LetIn(u), Resolve
  PROVE  WayIn
<1> DEFINE defended == encounter.masked \/ (MaskFullyOn /\ encounter.fuse > 0)
           ends == encounter.active /\ threshold' /\ ~threshold
<1>1. /\ encounter' = (IF ~encounter.active \/ ends THEN Idle
                       ELSE [active |-> TRUE, masked |-> defended, fuse |-> Less(encounter.fuse)])
      /\ Settle(IF ends /\ ~defended THEN First(ResolveFailed) ELSE {},
                IF ends /\ defended THEN First(ResolveDefended) ELSE {}, {})
  BY DEF Resolve
<1> HIDE DEF ends
<1>2. ends /\ ~defended
  <2>1. u \in IF ends /\ ~defended THEN First(ResolveFailed) ELSE {}
    BY <1>1, SettledIn
  <2> QED
    BY <2>1
<1>3. encounter' = Idle
  BY <1>1, <1>2
<1>4. encounter.active
  BY <1>2 DEF ends
<1> QED
  BY <1>2, <1>3, <1>4 DEF WayIn, Idle

LEMMA UnitsLetIn ==
  ASSUME OfficeAssumption, OfficeInv, NEW u \in Units, LetIn(u), TickUnits
  PROVE  WayIn
<1>1. PICK ready \in SUBSET (Units \cap {"toybonnie", "toychica"}) :
        Settle({v \in Units : Waits(v) /\ MayEnter(v) /\ (v \in Streak \/ v \in ready)}, {}, {})
  BY DEF TickUnits
<1> DEFINE able == {v \in Units : Waits(v) /\ MayEnter(v) /\ (v \in Streak \/ v \in ready)}
<1>2. u \in able
  <2>1. Settle(able, {}, {})
    BY <1>1
  <2> HIDE DEF able
  <2> QED
    BY <2>1, SettledIn
<1> QED
  BY <1>2 DEF MayEnter, OfficeInv, HandsInv, TickUnits, panelVars, WayIn

(* No other step lets anybody in: the others move nobody, or send him away *)
(* or to the threshold.                                                    *)
LEMMA EveryWayIn ==
  ASSUME OfficeAssumption, OfficeInv, [OfficeNext]_officeVars, NEW u \in Units, LetIn(u)
  PROVE  WayIn
<1>1. CASE pos' = pos
  BY <1>1 DEF LetIn
<1>2. ASSUME NEW v \in Units, Arrive(v) PROVE WayIn
  BY <1>2 DEF Arrive, LetIn, OfficeInv, UnitsInv
<1>3. CASE Early \/ Late
  <2>1. PICK L, C : Settle({}, L, C)
    BY <1>3 DEF Early, Late
  <2> QED
    BY <2>1, SettledIn
<1>4. CASE Animate \/ Resolve \/ TickUnits
  BY <1>4, AnimateLetsIn, ResolveLetsIn, UnitsLetIn
<1> QED
  BY <1>1, <1>2, <1>3, <1>4 DEF OfficeNext, Tick, Dead, PressMask, PressPanel, PressCamera, StartTick, AnimationFinished, Forcedown,
     RouteDone, officeVars, unitVars

(* The office's rules: the lock on the last hop is the streak unit's that  *)
(* waits, a defended encounter is sat out masked, and nobody gets in but   *)
(* by a raised monitor or a failed encounter.                              *)
THEOREM OfficeRuled ==
  ASSUME OfficeAssumption
  PROVE  OfficeSpec => OfficeRules
<1>1. OfficeInv => LockHeldAtTheThreshold /\ DefendedStaysMasked
  BY DEF OfficeInv
<1>2. OfficeSpec => [](LockHeldAtTheThreshold /\ DefendedStaysMasked)
  BY <1>1, OfficeHolds, PTL
<1>3. OfficeSpec => WaysIn
  <2>1. OfficeInv /\ [OfficeNext]_officeVars
          => [\A u \in Units :
                pos[u] # "in" /\ pos'[u] = "in"
                  => \/ mon' = "up"
                     \/ encounter.active /\ ~encounter.masked /\ ~encounter'.active]_officeVars
    BY EveryWayIn DEF LetIn, WayIn
  <2> QED
    BY <2>1, OfficeHolds, PTL DEF OfficeSpec, WaysIn
<1> QED
  BY <1>2, <1>3 DEF OfficeRules

(***************************************************************************)
(* A night of the fourth game.                                             *)
(***************************************************************************)
(* BedroomTypeOK, by groups, with the ways that are pending.               *)
Spots == {"hub"} \union Places
Holds == {"none", "bed", "closet", "listen", "shut", "flash"}
Causes == {"", "6AM", "foxy", "flash", "bonnie-bedroom", "chica-bedroom", "freddy", "black-flash", "fredbear-bedcheck"}
Roams == {"off", "centre", "livingL", "livingR", "hallL", "hallR", "bed", "closet"}

PlayerInv ==
  /\ follow \in Spots /\ hand \in Holds
  /\ walkLeft \in 0..WALK /\ turning \in 0..TURN /\ ~(walkLeft > 0 /\ turning > 0)
  /\ pendingStation \in Spots /\ pendingAfterTurn \in Spots

HallsInv ==
  /\ foxy \in DOMAIN FOXY_CHAIN /\ foxyAv2 \in 0..(GOTYOU + 1)
  /\ zone \in [Walkers -> {"center", "living", "far", "near"}] /\ pulse \in [Walkers -> 0..1] /\ tag \in [Walkers -> 0..2]
  /\ av6 \in [Walkers -> 0..LONG] /\ av7 \in [Walkers -> 0..1]

MeterInv == freddyCounter \in 0..METER /\ blackFlash \in Nat /\ fredbear \in Roams

(* With Fredbear about, a check is armed by a turn and settled by his next *)
(* rule. The first time he comes, one that stands from earlier turns finds *)
(* a dwell of a second at the most.                                        *)
CheckInv ==
  /\ ended \in Causes
  /\ fredcheck /\ fbSpawned /\ ended = "" => turned /\ rule \in {"freddy", "flash", "bedroom", "fredbear"}
  /\ ~fbSpawned => fbAv6 = 0
  /\ CheckedAtTheTurn

(* One has been resolved, so the interlock waits for two open doors.       *)
LockInv == interlock \in 0..2 /\ resolved \in {0, 1} /\ (resolved = 1 => interlock # 0)

BedroomInv == PlayerInv /\ HallsInv /\ MeterInv /\ CheckInv /\ LockInv

-------------------------------------------------------------------------------
LEMMA BedroomConstants ==
  ASSUME BedroomAssumption
  PROVE  /\ WALK \in Nat \ {0} /\ TURN \in Nat \ {0} /\ GOTYOU \in Nat \ {0} /\ METER \in Nat \ {0}
         /\ LONG \in Nat \ {0} /\ BED \in Nat \ {0} /\ FIXED \in Nat \ {0} /\ CHECK \in Nat /\ CHECK > 1
         /\ Stations \subseteq Places /\ FUSES \subseteq Nat
BY DEF BedroomAssumption

LEMMA HandsAreHolds == ASSUME NEW s \in Spots PROVE Hands(s) \subseteq Holds
<1>1. CASE s = "hub"
  BY <1>1, Zenon DEF Hands, Holds, Doors
<1>2. CASE s \in Doors
  BY <1>2, Zenon DEF Hands, Holds
<1>3. CASE s \in {"closet", "bed"}
  BY <1>3 DEF Hands, Holds, Doors
<1> QED
  BY <1>1, <1>2, <1>3 DEF Spots, Places

LEMMA EveryHold ==
  ASSUME NEW h \in Holds, NEW s
  PROVE  h \in Hands(s) \union Hands("bed") \union Hands("closet") \union Hands("leftDoor")
<1>1. "bed" \in Hands("bed") /\ "closet" \in Hands("closet")
  BY DEF Hands, Doors
<1>2. {"none", "listen", "shut", "flash"} \subseteq Hands("leftDoor")
  BY DEF Hands, Doors
<1> QED
  BY <1>1, <1>2 DEF Holds

LEMMA BedroomTypes ==
  ASSUME BedroomInv
  PROVE  BedroomTypeOK
<1>1. fredbear \in {"off", "centre", "livingL", "livingR"} \union FbHalls \union Still
  BY DEF BedroomInv, MeterInv, Roams, FbHalls, Still
<1> QED
  BY <1>1, EveryHold DEF BedroomInv, PlayerInv, HallsInv, MeterInv, CheckInv, LockInv, Spots, Causes, BedroomTypeOK

LEMMA BedroomBegins ==
  ASSUME BedroomAssumption, BedroomInit
  PROVE  BedroomInv
<1>1. PlayerInv
  <2>1. walkLeft = 0 /\ turning = 0 /\ follow = "hub" /\ hand = "none" /\ pendingStation = "hub" /\ pendingAfterTurn = "hub"
    BY DEF BedroomInit
  <2> QED
    BY <2>1, BedroomConstants DEF PlayerInv, Spots, Holds
<1>2. HallsInv
  <2>1. /\ zone = [w \in Walkers |-> "center"] /\ pulse = NoOne /\ tag = NoOne /\ av6 = NoOne /\ av7 = NoOne
        /\ foxy = "away" /\ foxyAv2 = 0
    BY DEF BedroomInit
  <2>2. 0 \in 0..LONG /\ 0 \in 0..(GOTYOU + 1)
    BY BedroomConstants
  <2>3. NoOne \in [Walkers -> 0..1] /\ NoOne \in [Walkers -> 0..2] /\ NoOne \in [Walkers -> 0..LONG]
    BY <2>2 DEF NoOne
  <2> QED
    BY <2>1, <2>2, <2>3 DEF HallsInv, FOXY_CHAIN
<1>3. MeterInv
  <2>1. freddyCounter = 0 /\ blackFlash = 0 /\ fredbear = "off"
    BY DEF BedroomInit
  <2> QED
    BY <2>1, BedroomConstants DEF MeterInv, Roams
<1>4. LockInv
  <2>1. interlock = 0 /\ resolved = 0
    BY DEF BedroomInit
  <2> QED
    BY <2>1 DEF LockInv
<1>5. CheckInv
  <2>1. ended = "" /\ fredcheck = FALSE /\ fbAv6 = 0
    BY DEF BedroomInit
  <2> QED
    BY <2>1 DEF CheckInv, Causes, CheckedAtTheTurn
<1> QED
  BY <1>1, <1>2, <1>3, <1>4, <1>5 DEF BedroomInv

(* The first cause stands, so no other makes it the check.                 *)
LEMMA Killing ==
  ASSUME ended \in Causes, NEW c \in Causes, Kills(c) \/ Spares
  PROVE  ended' \in Causes /\ (ended # "" => ended' = ended) /\ (ended' # ended => ended' = c) /\ (ended' = "" => ended = "")
BY DEF Kills, Spares

(* What most rules leave alone.                                            *)
LEMMA CheckStands ==
  ASSUME BedroomInv, UNCHANGED <<fredcheck, fbSpawned, fbAv6, turned>>,
         NEW c \in Causes \ {"", "fredbear-bedcheck"}, Kills(c) \/ Spares,
         fredcheck /\ fbSpawned /\ ended = "" => rule' \in {"freddy", "flash", "bedroom", "fredbear"}
  PROVE  CheckInv'
BY Killing DEF BedroomInv, CheckInv, CheckedAtTheTurn

LEMMA HeldOn ==
  ASSUME BedroomAssumption, BedroomInv, Hold \/ (\E s \in Stations : goTo(s))
  PROVE  BedroomInv'
<1>1. PlayerInv'
  <2>1. CASE Hold
    BY <2>1, HandsAreHolds DEF Hold, BedroomInv, PlayerInv, Holds
  <2>2. ASSUME NEW s \in Stations, goTo(s) PROVE PlayerInv'
    <3>1. ~walking /\ hand' = "none" /\ follow' = follow
      BY <2>2 DEF goTo
    <3>2. walkLeft = 0 /\ turning = 0
      BY <3>1, BedroomConstants DEF walking, BedroomInv, PlayerInv
    <3>3. /\ walkLeft' \in {WALK, 0} /\ turning' \in {TURN, 0} /\ (walkLeft' = 0 \/ turning' = 0)
          /\ pendingStation' \in {s, pendingStation} /\ pendingAfterTurn' \in {"hub", pendingAfterTurn}
      BY <2>2, <3>2 DEF goTo, beginBedTurn
    <3>4. s \in Spots
      BY BedroomConstants DEF Spots
    <3> QED
      BY <3>1, <3>3, <3>4, BedroomConstants DEF BedroomInv, PlayerInv, Holds, Spots
  <2> QED
    BY <2>1, <2>2
<1>2. HallsInv' /\ MeterInv' /\ LockInv'
  BY DEF Hold, goTo, halls, foxyVars, bedroom, meter, bear, BedroomInv, HallsInv, MeterInv, LockInv
<1>3. CheckInv'
  <2>1. ended = "" /\ ended' = "" /\ rule = "policy"
    BY DEF Hold, goTo, Due
  <2>2. ~(fredcheck /\ fbSpawned)
    BY <2>1 DEF BedroomInv, CheckInv
  <2> QED
    <3>1. UNCHANGED <<fredcheck, fbSpawned, fbAv6>>
      BY DEF Hold, goTo, bear
    <3> QED
      BY <2>1, <2>2, <3>1 DEF BedroomInv, CheckInv, CheckedAtTheTurn, Causes
<1> QED
  BY <1>1, <1>2, <1>3 DEF BedroomInv

LEMMA ArrivedThere ==
  ASSUME BedroomAssumption, BedroomInv, Arrivals
  PROVE  BedroomInv'
<1>1. PlayerInv'
  BY BedroomConstants DEF Arrivals, Greater, BedroomInv, PlayerInv
<1>2. HallsInv' /\ MeterInv' /\ LockInv'
  BY DEF Arrivals, halls, foxyVars, bedroom, meter, bear, history, BedroomInv, HallsInv, MeterInv, LockInv
<1>3. CheckInv'
  <2>1. Kills("foxy") \/ Spares
    BY DEF Arrivals
  <2>2. ~(fredcheck /\ fbSpawned /\ ended = "")
    BY DEF Arrivals, Due, BedroomInv, CheckInv
  <2>3. UNCHANGED <<fredcheck, fbSpawned, fbAv6, turned>>
    BY DEF Arrivals, bear, history
  <2>4. "foxy" \in Causes \ {"", "fredbear-bedcheck"}
    BY DEF Causes
  <2> QED
    BY <2>1, <2>2, <2>3, <2>4, CheckStands
<1> QED
  BY <1>1, <1>2, <1>3 DEF BedroomInv

LEMMA HourPassed ==
  ASSUME BedroomAssumption, BedroomInv, HourPasses
  PROVE  BedroomInv'
<1>1. PlayerInv'
  BY DEF HourPasses, player, BedroomInv, PlayerInv
<1>2. HallsInv'
  <2>1. zone' \in [Walkers -> {"center", "living", "far", "near"}]
    BY DEF HourPasses, BedroomInv, HallsInv
  <2>2. tag' \in [Walkers -> 0..2]
    BY DEF HourPasses, BedroomInv, HallsInv
  <2> QED
    BY <2>1, <2>2 DEF HourPasses, foxyVars, bedroom, BedroomInv, HallsInv
<1>3. MeterInv' /\ LockInv'
  BY DEF HourPasses, meter, bear, history, BedroomInv, MeterInv, LockInv
<1>4. CheckInv'
  BY DEF HourPasses, Due, Spares, bear, history, BedroomInv, CheckInv, CheckedAtTheTurn, Causes
<1> QED
  BY <1>1, <1>2, <1>3, <1>4 DEF BedroomInv

LEMMA FoxyWalked ==
  ASSUME BedroomAssumption, BedroomInv, FoxyWalks
  PROVE  BedroomInv'
<1>1. PlayerInv' /\ MeterInv' /\ LockInv'
  BY DEF FoxyWalks, player, meter, halls, bear, history, BedroomInv, PlayerInv, MeterInv, LockInv
<1>2. HallsInv'
  <2>1. PICK pulsed \in BOOLEAN, bled \in BOOLEAN :
          /\ foxy' \in {FOXY_CHAIN[foxy], foxy}
          /\ LET fed == foxyAv2 + (IF pulsed /\ foxy' = "closet" /\ ~viewingCloset THEN 1 ELSE 0)
             IN foxyAv2' = Lesser(GOTYOU + 1, IF bled THEN Greater(0, fed - 1) ELSE fed)
    BY DEF FoxyWalks
  <2>2. foxy' \in DOMAIN FOXY_CHAIN
    BY <2>1 DEF BedroomInv, HallsInv, FOXY_CHAIN
  <2>3. foxyAv2' \in 0..(GOTYOU + 1)
    BY <2>1, BedroomConstants DEF BedroomInv, HallsInv, Lesser, Greater
  <2> QED
    BY <2>2, <2>3 DEF FoxyWalks, halls, bedroom, BedroomInv, HallsInv
<1>3. CheckInv'
  BY DEF FoxyWalks, Due, bear, history, BedroomInv, CheckInv, CheckedAtTheTurn
<1> QED
  BY <1>1, <1>2, <1>3 DEF BedroomInv

Zones == {"center", "living", "far", "near"}

LEMMA WalkedWhere ==
  ASSUME NEW w \in Walkers, zone[w] \in Zones, NEW p, NEW r
  PROVE  Walked(w, p, r) \in Zones
BY Zenon DEF Walked, Zones

LEMMA TaggedAs ==
  ASSUME NEW w \in Walkers, tag[w] \in 0..2, NEW z
  PROVE  TagAt(w, z) \in 0..2
<1>1. TagAt(w, z) \in {tag[w], 0, 1, 2}
  BY Zenon DEF TagAt
<1> QED
  BY <1>1

LEMMA HallsWalked ==
  ASSUME BedroomAssumption, BedroomInv, Halls
  PROVE  BedroomInv'
<1>1. PlayerInv' /\ MeterInv' /\ LockInv'
  BY DEF Halls, player, meter, bear, history, BedroomInv, PlayerInv, MeterInv, LockInv
<1>2. HallsInv'
  <2>1. PICK rolled \in SUBSET (Walkers \intersect awake), retreats \in SUBSET {w \in Walkers : zone[w] = "near"} :
          LET gated(w) == listening(w) \/ shut(w) \/ interlock = 2
              p(w) == IF listening(w) \/ interlock = 1 THEN 0 ELSE IF w \in rolled /\ ~gated(w) THEN 1 ELSE pulse[w]
              to(w) == Walked(w, p(w), w \in retreats)
          IN /\ zone' = [w \in Walkers |-> to(w)]
             /\ tag' = [w \in Walkers |-> TagAt(w, to(w))]
             /\ pulse' = [w \in Walkers |-> IF to(w) # zone[w] THEN 0 ELSE p(w)]
    BY DEF Halls
  <2> DEFINE gated(w) == listening(w) \/ shut(w) \/ interlock = 2
             p(w) == IF listening(w) \/ interlock = 1 THEN 0 ELSE IF w \in rolled /\ ~gated(w) THEN 1 ELSE pulse[w]
             to(w) == Walked(w, p(w), w \in retreats)
  <2>2. /\ zone' = [w \in Walkers |-> to(w)]
        /\ tag' = [w \in Walkers |-> TagAt(w, to(w))]
        /\ pulse' = [w \in Walkers |-> IF to(w) # zone[w] THEN 0 ELSE p(w)]
    BY <2>1
  <2>3. \A w \in Walkers : zone[w] \in Zones /\ tag[w] \in 0..2 /\ pulse[w] \in 0..1
    BY DEF BedroomInv, HallsInv, Zones
  <2>4. \A w \in Walkers : to(w) \in Zones
    BY <2>3, WalkedWhere
  <2>5. \A w \in Walkers : p(w) \in 0..1
    BY <2>3
  <2> HIDE DEF to, p
  <2>6. zone' \in [Walkers -> Zones] /\ pulse' \in [Walkers -> 0..1]
    BY <2>2, <2>4, <2>5
  <2>7. tag' \in [Walkers -> 0..2]
    BY <2>2, <2>3, TaggedAs
  <2> QED
    BY <2>6, <2>7 DEF Halls, foxyVars, bedroom, BedroomInv, HallsInv, Zones
<1>3. CheckInv'
  BY DEF Halls, Due, bear, history, BedroomInv, CheckInv, CheckedAtTheTurn
<1> QED
  BY <1>1, <1>2, <1>3 DEF BedroomInv

(* A door resolves only where the interlock is armed, and disarms it.      *)
LEMMA DoorsServed ==
  ASSUME BedroomAssumption, BedroomInv, DoorsAndFlashlight
  PROVE  BedroomInv'
<1>1. PlayerInv' /\ MeterInv'
  BY DEF DoorsAndFlashlight, player, meter, bear, BedroomInv, PlayerInv, MeterInv
<1>2. PICK dismisses \in BOOLEAN :
        LET lock == IF \E w \in Walkers : shut(w) THEN interlock ELSE 0
            summoned(w) == shut(w) /\ lock = 0 /\ tag[w] = 1
            dismissed(w) == shut(w) /\ lock = 0 /\ tag[w] = 2 /\ zone[w] = "near" /\ dismisses
            sent(w) == viewingHall(w) /\ zone[w] = "far"
        IN /\ zone' = [w \in Walkers |-> CASE summoned(w) -> "near" [] dismissed(w) -> "living" [] sent(w) -> "center" [] OTHER -> zone[w]]
           /\ tag' = [w \in Walkers |-> CASE summoned(w) -> 2 [] sent(w) -> 0 [] OTHER -> tag[w]]
           /\ interlock' = IF \E w \in Walkers : summoned(w) THEN 1 ELSE IF \E w \in Walkers : dismissed(w) THEN 2 ELSE lock
           /\ resolved' = IF \A w \in Walkers : ~shut(w) THEN 0
                          ELSE resolved + (IF \E w \in Walkers : summoned(w) \/ dismissed(w) THEN 1 ELSE 0)
  BY DEF DoorsAndFlashlight
<1> DEFINE open == \A w \in Walkers : ~shut(w)
           lock == IF \E w \in Walkers : shut(w) THEN interlock ELSE 0
           summoned(w) == shut(w) /\ lock = 0 /\ tag[w] = 1
           dismissed(w) == shut(w) /\ lock = 0 /\ tag[w] = 2 /\ zone[w] = "near" /\ dismisses
           sent(w) == viewingHall(w) /\ zone[w] = "far"
           some == \E w \in Walkers : summoned(w) \/ dismissed(w)
<1>3. /\ zone' = [w \in Walkers |-> CASE summoned(w) -> "near" [] dismissed(w) -> "living" [] sent(w) -> "center" [] OTHER -> zone[w]]
      /\ tag' = [w \in Walkers |-> CASE summoned(w) -> 2 [] sent(w) -> 0 [] OTHER -> tag[w]]
  BY <1>2
<1>4. /\ interlock' = (IF \E w \in Walkers : summoned(w) THEN 1 ELSE IF \E w \in Walkers : dismissed(w) THEN 2 ELSE lock)
      /\ resolved' = (IF open THEN 0 ELSE resolved + (IF some THEN 1 ELSE 0))
  BY <1>2
<1>5. HallsInv'
  <2> HIDE DEF summoned, dismissed, sent
  <2>1. \A w \in Walkers : zone[w] \in Zones /\ tag[w] \in 0..2
    BY DEF BedroomInv, HallsInv, Zones
  <2>2. ASSUME NEW w \in Walkers
        PROVE (CASE summoned(w) -> "near" [] dismissed(w) -> "living" [] sent(w) -> "center" [] OTHER -> zone[w]) \in Zones
    BY <2>1, Zenon DEF Zones
  <2>3. ASSUME NEW w \in Walkers
        PROVE (CASE summoned(w) -> 2 [] sent(w) -> 0 [] OTHER -> tag[w]) \in 0..2
    <3>1. (CASE summoned(w) -> 2 [] sent(w) -> 0 [] OTHER -> tag[w]) \in {2, 0, tag[w]}
      BY Zenon
    <3> QED
      BY <2>1, <3>1
  <2>4. zone' \in [Walkers -> Zones]
    BY <1>3, <2>2, Zenon
  <2>5. tag' \in [Walkers -> 0..2]
    BY <1>3, <2>3, Zenon
  <2> QED
    BY <2>4, <2>5 DEF DoorsAndFlashlight, foxyVars, bedroom, BedroomInv, HallsInv, Zones
<1>6. LockInv'
  <2>1. interlock \in 0..2 /\ resolved \in {0, 1} /\ (resolved = 1 => interlock # 0)
    BY DEF BedroomInv, LockInv
  <2>2. lock \in 0..2 /\ (~open => lock = interlock)
    BY <2>1
  <2>3. some => lock = 0
    OBVIOUS
  <2>4. some <=> (\E w \in Walkers : summoned(w)) \/ (\E w \in Walkers : dismissed(w))
    OBVIOUS
  <2> HIDE DEF open, lock, some, summoned, dismissed
  <2>5. interlock' \in {1, 2, lock} /\ (some => interlock' # 0) /\ (~some => interlock' = lock)
    BY <1>4, <2>4
  <2>6. CASE open
    BY <1>4, <2>2, <2>5, <2>6 DEF LockInv
  <2>7. CASE ~open
    BY <1>4, <2>1, <2>2, <2>3, <2>5, <2>7 DEF LockInv
  <2> QED
    BY <2>6, <2>7
<1>7. CheckInv'
  <2>1. Kills("flash") \/ Spares
    BY DEF DoorsAndFlashlight
  <2>2. ~(fredcheck /\ fbSpawned /\ ended = "")
    BY DEF DoorsAndFlashlight, Due, BedroomInv, CheckInv
  <2>3. UNCHANGED <<fredcheck, fbSpawned, fbAv6, turned>>
    BY DEF DoorsAndFlashlight, bear
  <2>4. "flash" \in Causes \ {"", "fredbear-bedcheck"}
    BY DEF Causes
  <2> QED
    BY <2>1, <2>2, <2>3, <2>4, CheckStands
<1> QED
  BY <1>1, <1>5, <1>6, <1>7 DEF BedroomInv

(* The end of a turn, whoever waits in the room.                           *)
LEMMA BedTurnResolved ==
  ASSUME resolveBedTurn
  PROVE  /\ turned' = TRUE
         /\ follow' \in {follow, "hub"} /\ walkLeft' \in {walkLeft, WALK} /\ pendingStation' \in {pendingStation, pendingAfterTurn}
         /\ \E c \in {"bonnie-bedroom", "chica-bedroom", "foxy"} : Kills(c) \/ Spares
<1> DEFINE stays == UNCHANGED <<follow, walkLeft, pendingStation, fredcheck>>
           leaves == /\ Spares /\ fredcheck' = TRUE /\ follow' = "hub"
                     /\ IF pendingAfterTurn # "hub" THEN walkLeft' = WALK /\ pendingStation' = pendingAfterTurn
                        ELSE UNCHANGED <<walkLeft, pendingStation>>
<1>1. \/ Kills("bonnie-bedroom") /\ stays
      \/ Kills("chica-bedroom") /\ stays
      \/ Kills("foxy") /\ stays
      \/ leaves
  BY Zenon DEF resolveBedTurn
<1>2. turned' = TRUE
  BY DEF resolveBedTurn
<1> QED
  BY <1>1, <1>2

LEMMA TurnedRound ==
  ASSUME BedroomAssumption, BedroomInv, Turn
  PROVE  BedroomInv'
<1>1. HallsInv' /\ MeterInv' /\ LockInv'
  BY DEF Turn, foxyVars, halls, bedroom, meter, BedroomInv, HallsInv, MeterInv, LockInv
<1>2. /\ turning' = Greater(0, turning - 1) /\ UNCHANGED <<hand, pendingAfterTurn, fbSpawned, fbAv6>>
      /\ rule = "turn" /\ rule' = "freddy"
      /\ turning = 1 => resolveBedTurn
      /\ turning # 1 => Spares /\ UNCHANGED <<follow, walkLeft, pendingStation, fredcheck, turned>>
  BY DEF Turn, Due, Leads
<1>3. CASE turning = 1
  <2>1. /\ turned' = TRUE
        /\ follow' \in {follow, "hub"} /\ walkLeft' \in {walkLeft, WALK} /\ pendingStation' \in {pendingStation, pendingAfterTurn}
        /\ \E c \in {"bonnie-bedroom", "chica-bedroom", "foxy"} : Kills(c) \/ Spares
    BY <1>2, <1>3, BedTurnResolved
  <2>2. PlayerInv'
    BY <1>2, <1>3, <2>1, BedroomConstants DEF Greater, BedroomInv, PlayerInv, Spots
  <2>3. CheckInv'
    <3>1. PICK c \in {"bonnie-bedroom", "chica-bedroom", "foxy"} : Kills(c) \/ Spares
      BY <2>1
    <3>2. c \in Causes
      BY DEF Causes
    <3>3. ended' \in Causes
      BY <3>1, <3>2, Killing DEF BedroomInv, CheckInv
    <3> QED
      BY <1>2, <2>1, <3>3 DEF BedroomInv, CheckInv, CheckedAtTheTurn
  <2> QED
    BY <1>1, <2>2, <2>3 DEF BedroomInv
<1>4. CASE turning # 1
  <2>1. PlayerInv'
    BY <1>2, <1>4, BedroomConstants DEF Greater, BedroomInv, PlayerInv
  <2>2. CheckInv'
    <3>1. rule = "turn" /\ UNCHANGED <<ended, fredcheck, fbSpawned, fbAv6, turned>>
      BY <1>2, <1>4 DEF Spares
    <3> QED
      BY <3>1 DEF BedroomInv, CheckInv, CheckedAtTheTurn
  <2> QED
    BY <1>1, <2>1, <2>2 DEF BedroomInv
<1> QED
  BY <1>3, <1>4

LEMMA FreddyMetered ==
  ASSUME BedroomAssumption, BedroomInv, FreddyMeter
  PROVE  BedroomInv'
<1>1. PlayerInv' /\ HallsInv' /\ LockInv'
  BY DEF FreddyMeter, foxyVars, halls, bedroom, history, BedroomInv, PlayerInv, HallsInv, LockInv
<1>2. MeterInv'
  <2>1. PICK fills \in {0, 1}, hurries \in {0, 1}, drains \in {0, 1} :
          /\ freddyCounter + fills + hurries <= METER
          /\ freddyCounter' = Greater(0, freddyCounter + fills + hurries - drains)
    BY DEF FreddyMeter
  <2>2. freddyCounter' \in 0..METER
    BY <2>1, BedroomConstants DEF BedroomInv, MeterInv, Greater
  <2>3. UNCHANGED <<blackFlash, fredbear>>
    BY DEF FreddyMeter, bear
  <2> QED
    BY <2>2, <2>3 DEF BedroomInv, MeterInv
<1>3. CheckInv'
  <2>1. (Kills("freddy") \/ Spares) /\ rule' = "flash"
    BY DEF FreddyMeter, Leads
  <2>2. UNCHANGED <<fredcheck, fbSpawned, fbAv6, turned>>
    BY DEF FreddyMeter, bear, history
  <2>3. "freddy" \in Causes \ {"", "fredbear-bedcheck"}
    BY DEF Causes
  <2> QED
    BY <2>1, <2>2, <2>3, CheckStands
<1> QED
  BY <1>1, <1>2, <1>3 DEF BedroomInv

LEMMA FlashBurnt ==
  ASSUME BedroomAssumption, BedroomInv, BlackFlash
  PROVE  BedroomInv'
<1>1. PlayerInv' /\ HallsInv' /\ LockInv'
  BY DEF BlackFlash, player, foxyVars, halls, bedroom, history, BedroomInv, PlayerInv, HallsInv, LockInv
<1>2. MeterInv'
  <2>1. PICK drawn \in FUSES :
          LET flashed == IF freddyCounter >= ARM /\ ~counterWas80 THEN drawn ELSE blackFlash
              fuse == IF freddyCounter < ARM /\ "fredbear" \notin awake THEN 0 ELSE flashed
          IN blackFlash' = IF fuse = 0 THEN 0 ELSE Greater(1, fuse - 1)
    BY DEF BlackFlash
  <2>2. PICK fuse \in {0, drawn, blackFlash} : blackFlash' = IF fuse = 0 THEN 0 ELSE Greater(1, fuse - 1)
    BY <2>1
  <2>3. fuse \in Nat
    BY <2>2, BedroomConstants DEF BedroomInv, MeterInv
  <2>4. blackFlash' \in Nat
    BY <2>2, <2>3 DEF Greater
  <2> QED
    BY <2>4 DEF BlackFlash, bear, BedroomInv, MeterInv
<1>3. CheckInv'
  <2>1. (Kills("black-flash") \/ Spares) /\ rule' = "bedroom"
    BY DEF BlackFlash, Leads
  <2>2. UNCHANGED <<fredcheck, fbSpawned, fbAv6, turned>>
    BY DEF BlackFlash, bear, history
  <2>3. "black-flash" \in Causes \ {"", "fredbear-bedcheck"}
    BY DEF Causes
  <2> QED
    BY <2>1, <2>2, <2>3, CheckStands
<1> QED
  BY <1>1, <1>2, <1>3 DEF BedroomInv

(* What the dwells at near make of the two in the bedroom.                 *)
LEMMA BedroomFilled ==
  ASSUME BedroomAssumption, BedroomInv, NEW forces \in BOOLEAN, Bedroom(forces)
  PROVE  BedroomInv'
<1>1. PlayerInv' /\ MeterInv' /\ LockInv'
  BY DEF Bedroom, halls, meter, bear, history, BedroomInv, PlayerInv, MeterInv, LockInv
<1>2. HallsInv'
  <2> DEFINE left(w) == ~InHalls(w) /\ (w = "chica" => av6[w] < LONG)
             cleared(w) == left(w) \/ viewingHall(w)
             dwell(w) == IF cleared(w) THEN 0 ELSE av6[w]
             kept == [w \in Walkers |-> IF w = "bonnie" /\ cleared(w) THEN 0 ELSE av7[w]]
             needed(w) == IF w = "bonnie" THEN DWELL + 1 ELSE DWELL
  <2>1. PICK stays \in SUBSET {w \in Walkers : zone[w] = "near"} :
          /\ av6' = [w \in Walkers |-> Lesser(LONG, dwell(w) + (IF w \in stays THEN 1 ELSE 0))]
          /\ av7' = [w \in Walkers |-> IF viewingBed /\ av6'[w] >= needed(w) THEN 1 ELSE kept[w]]
    BY DEF Bedroom
  <2>2. \A w \in Walkers : dwell(w) \in 0..LONG /\ kept[w] \in 0..1
    BY BedroomConstants DEF BedroomInv, HallsInv
  <2> HIDE DEF dwell, kept, needed
  <2>3. \A w \in Walkers : Lesser(LONG, dwell(w) + (IF w \in stays THEN 1 ELSE 0)) \in 0..LONG
    BY <2>2, BedroomConstants DEF Lesser
  <2>4. av6' \in [Walkers -> 0..LONG]
    BY <2>1, <2>3
  <2>5. av7' \in [Walkers -> 0..1]
    <3>1. \A w \in Walkers : (IF viewingBed /\ av6'[w] >= needed(w) THEN 1 ELSE kept[w]) \in 0..1
      BY <2>2
    <3> QED
      BY <2>1, <3>1
  <2> QED
    BY <2>4, <2>5 DEF Bedroom, foxyVars, halls, BedroomInv, HallsInv
<1>3. CheckInv'
  <2>1. rule' = "fredbear" /\ UNCHANGED <<ended, fredcheck, fbSpawned, fbAv6, turned>>
    BY DEF Bedroom, Leads, bear, history
  <2> QED
    BY <2>1 DEF BedroomInv, CheckInv, CheckedAtTheTurn
<1> QED
  BY <1>1, <1>2, <1>3 DEF BedroomInv

(* Fredbear walks among his places.                                        *)
LEMMA FredbearRoams ==
  ASSUME NEW at \in Roams
  PROVE  FbWalks(at) \subseteq Roams /\ FbMoved(at) \subseteq Roams
<1>1. \A w : Living(w) \in Roams /\ Hall(w) \in Roams
  BY DEF Living, Hall, Roams
<1>2. "closet" \in Roams /\ Still \subseteq Roams
  BY DEF Roams, Still
<1>3. FbWalks(at) \subseteq Roams
  <2> DEFINE legs == CASE at = "centre" -> {Living(w) : w \in Walkers}
                       [] at \in {"livingL", "livingR"} ->
                            LET w == CHOOSE s \in Walkers : Living(s) = at IN {IF viewingHall(w) THEN Living(Other[w]) ELSE Hall(w)}
                       [] OTHER -> {at}
  <2>1. CASE at = "centre"
    <3>1. legs = {Living(w) : w \in Walkers}
      BY <2>1, Zenon
    <3>2. legs \subseteq Roams
      BY <1>1, <3>1
    <3> HIDE DEF legs
    <3> QED
      BY <1>2, <3>2 DEF FbWalks, legs
  <2>2. CASE at \in {"livingL", "livingR"}
    <3>1. \E w : legs = {IF viewingHall(w) THEN Living(Other[w]) ELSE Hall(w)}
      <4>1. at # "centre"
        BY <2>2
      <4> QED
        BY <2>2, <4>1, Zenon
    <3>2. legs \subseteq Roams
      <4> HIDE DEF legs
      <4> QED
        BY <1>1, <3>1
    <3> HIDE DEF legs
    <3> QED
      BY <1>2, <3>2 DEF FbWalks, legs
  <2>3. CASE at # "centre" /\ at \notin {"livingL", "livingR"}
    <3>1. legs = {at}
      BY <2>3, Zenon
    <3> HIDE DEF legs
    <3> QED
      BY <1>2, <3>1 DEF FbWalks, legs
  <2> QED
    BY <2>1, <2>2, <2>3
<1>4. FbMoved(at) \subseteq Roams
  <2> DEFINE living == {Living(w) : w \in Walkers}
             faced == IF at = "bed" /\ viewingBed THEN living ELSE {at}
             repelled(b) == {b} \union {Living(Other[w]) : w \in {s \in Walkers : b = Hall(s) /\ shut(s)}}
             ejected(b) == IF b = "closet" /\ hand = "closet" THEN living \union {b} ELSE {b}
             teleported(b) == IF b \notin Still \union FbHalls THEN {b, "closet"} ELSE {b}
             sent == UNION {repelled(b) : b \in faced}
             gone == UNION {ejected(c) : c \in sent}
  <2>1. living \subseteq Roams
    BY <1>1
  <2>2. faced \subseteq Roams
    BY <2>1
  <2>3. \A b \in Roams : repelled(b) \subseteq Roams
    BY <1>1
  <2>4. \A b \in Roams : ejected(b) \subseteq Roams
    BY <2>1
  <2>5. \A b \in Roams : teleported(b) \subseteq Roams
    BY <1>2
  <2>6. FbMoved(at) = UNION {teleported(d) : d \in gone}
    BY DEF FbMoved
  <2> HIDE DEF living, faced, repelled, ejected, teleported, sent, gone
  <2>7. sent \subseteq Roams
    BY <2>2, <2>3 DEF sent
  <2>8. gone \subseteq Roams
    BY <2>4, <2>7 DEF gone
  <2> QED
    BY <2>5, <2>6, <2>8
<1> QED
  BY <1>3, <1>4

(* His frame: the check a turn armed is settled, one way or the other.     *)
LEMMA FredbearMoved ==
  ASSUME BedroomAssumption, BedroomInv, Fredbear
  PROVE  BedroomInv'
<1>1. PlayerInv' /\ HallsInv' /\ LockInv'
  BY DEF Fredbear, player, foxyVars, halls, bedroom, history, BedroomInv, PlayerInv, HallsInv, LockInv
<1>2. /\ fbSpawned' = (fbSpawned \/ "fredbear" \in awake) /\ UNCHANGED <<freddyCounter, turned>>
      /\ ~fbSpawned' => Spares /\ UNCHANGED <<fredbear, fbAv6, fredcheck, blackFlash>>
      /\ fbSpawned' =>
           /\ LET spawned == IF fbSpawned THEN fredbear ELSE "centre"
                  rolls == "fredbear" \in awake /\ spawned \notin Still \union FbHalls
              IN \E to \in {spawned} \union (IF rolls THEN FbWalks(spawned) ELSE {}) : fredbear' \in FbMoved(to)
           /\ \E ticks \in {0, 1} : fbAv6' = IF fredbear' \in Still THEN Lesser(BED, fbAv6 + ticks) ELSE 0
           /\ blackFlash' \in {FIXED, blackFlash}
           /\ \/ fbAv6' >= CHECK /\ fredcheck /\ Kills("fredbear-bedcheck") /\ fredcheck' = fredcheck
              \/ Spares /\ fredcheck' = FALSE
  BY DEF Fredbear, armFlash, history
<1>3. MeterInv'
  <2>1. CASE ~fbSpawned'
    BY <1>2, <2>1 DEF BedroomInv, MeterInv
  <2>2. CASE fbSpawned'
    <3>1. PICK spawned \in {fredbear, "centre"} : \E to \in {spawned} \union FbWalks(spawned) : fredbear' \in FbMoved(to)
      BY <1>2, <2>2
    <3>2. spawned \in Roams
      BY DEF BedroomInv, MeterInv, Roams
    <3>3. fredbear' \in Roams
      BY <3>1, <3>2, FredbearRoams
    <3>4. blackFlash' \in Nat
      BY <1>2, <2>2, BedroomConstants DEF BedroomInv, MeterInv
    <3> QED
      BY <1>2, <3>3, <3>4 DEF BedroomInv, MeterInv
  <2> QED
    BY <2>1, <2>2
<1>4. CheckInv'
  <2>1. CASE ~fbSpawned'
    BY <1>2, <2>1 DEF Spares, BedroomInv, CheckInv, CheckedAtTheTurn
  <2>2. CASE fbSpawned' /\ fredcheck' = FALSE /\ Spares
    BY <1>2, <2>2 DEF Spares, BedroomInv, CheckInv, CheckedAtTheTurn
  <2>3. CASE fbSpawned' /\ fbAv6' >= CHECK /\ fredcheck /\ Kills("fredbear-bedcheck")
    <3>1. fbSpawned
      <4>1. SUFFICES ASSUME ~fbSpawned PROVE FALSE
        OBVIOUS
      <4>2. fbAv6 = 0
        BY <4>1 DEF BedroomInv, CheckInv
      <4>3. PICK ticks \in {0, 1} : fbAv6' \in {Lesser(BED, fbAv6 + ticks), 0}
        BY <1>2, <2>3
      <4>4. fbAv6' \in {0, 1}
        BY <4>2, <4>3, BedroomConstants DEF Lesser
      <4> QED
        BY <2>3, <4>4, BedroomConstants
    <3>2. ended = "" => turned
      BY <2>3, <3>1 DEF BedroomInv, CheckInv
    <3>3. ended' \in Causes /\ ended' # ""
      BY <2>3 DEF Kills, Causes, BedroomInv, CheckInv
    <3>4. ended' = "fredbear-bedcheck" => turned
      BY <2>3, <3>2 DEF Kills, BedroomInv, CheckInv, CheckedAtTheTurn
    <3> QED
      BY <1>2, <2>3, <3>3, <3>4 DEF CheckInv, CheckedAtTheTurn
  <2> QED
    BY <1>2, <2>1, <2>2, <2>3
<1> QED
  BY <1>1, <1>3, <1>4 DEF BedroomInv

LEMMA StoodAndTurned ==
  ASSUME BedroomAssumption, BedroomInv, IdleAndForcedTurn
  PROVE  BedroomInv'
<1>1. /\ \/ (walkLeft' = 0 /\ turning' = TURN /\ pendingAfterTurn' = "hub" /\ hand' \in {hand, "none"})
         \/ UNCHANGED <<walkLeft, turning, pendingAfterTurn, hand>>
      /\ foxy' \in {foxy, "closet"} /\ blackFlash' \in {FIXED, blackFlash}
      /\ UNCHANGED <<ended, follow, pendingStation, foxyAv2, halls, bedroom, freddyCounter, bear, turned, resolved>>
      /\ rule = "idle"
  BY DEF IdleAndForcedTurn, beginBedTurn, armFlash, Due
<1>2. PlayerInv'
  BY <1>1, BedroomConstants DEF BedroomInv, PlayerInv, Spots, Holds
<1>3. HallsInv'
  BY <1>1 DEF halls, bedroom, FOXY_CHAIN, BedroomInv, HallsInv
<1>4. MeterInv' /\ LockInv'
  BY <1>1, BedroomConstants DEF halls, bear, BedroomInv, MeterInv, LockInv
<1>5. CheckInv'
  BY <1>1 DEF bear, BedroomInv, CheckInv, CheckedAtTheTurn
<1> QED
  BY <1>2, <1>3, <1>4, <1>5 DEF BedroomInv

LEMMA BedroomKeeps ==
  ASSUME BedroomAssumption, BedroomInv, [BedroomNext]_bedroomVars
  PROVE  BedroomInv'
<1>1. CASE Plays
  BY <1>1, HeldOn DEF Plays
<1>2. CASE FrameRules
  BY <1>2, ArrivedThere, HourPassed, FoxyWalked, HallsWalked, DoorsServed, TurnedRound, FreddyMetered, FlashBurnt, BedroomFilled,
     FredbearMoved, StoodAndTurned DEF FrameRules
<1>3. CASE UNCHANGED bedroomVars
  <2>1. PlayerInv' /\ HallsInv' /\ MeterInv'
    BY <1>3 DEF BedroomInv, PlayerInv, HallsInv, MeterInv, bedroomVars, player, foxyVars, halls, bedroom, meter, bear
  <2>2. CheckInv' /\ LockInv'
    BY <1>3 DEF BedroomInv, CheckInv, CheckedAtTheTurn, LockInv, bedroomVars, halls, bear, history
  <2> QED
    BY <2>1, <2>2 DEF BedroomInv
<1> QED
  BY <1>1, <1>2, <1>3 DEF BedroomNext, NightOver

LEMMA BedroomHolds ==
  ASSUME BedroomAssumption
  PROVE  BedroomSpec => []BedroomInv
BY BedroomBegins, BedroomKeeps, PTL DEF BedroomSpec

(* Every variable of a fourth game's night stays in its set, and nobody    *)
(* walks while he turns.                                                   *)
THEOREM BedroomTyped ==
  ASSUME BedroomAssumption
  PROVE  BedroomSpec => []BedroomTypeOK
BY BedroomHolds, BedroomTypes, PTL

(* Fredbear's check kills at a turn that has just ended and never later,   *)
(* and a shut door resolves one character until both doors have been open: *)
(* whoever is awake from whichever hour, wherever the policy goes.         *)
THEOREM BedroomRuled ==
  ASSUME BedroomAssumption
  PROVE  BedroomSpec => []BedroomRules
<1>1. BedroomInv => CheckedAtTheTurn
  BY DEF BedroomInv, CheckInv
<1>2. BedroomInv => OneResolvedPerArming
  BY DEF BedroomInv, LockInv, OneResolvedPerArming
<1>3. BedroomInv => BedroomRules
  BY <1>1, <1>2 DEF BedroomRules
<1> QED
  BY <1>3, BedroomHolds, PTL

===============================================================================
