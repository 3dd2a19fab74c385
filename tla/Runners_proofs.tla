----------------------------- MODULE Runners_proofs -----------------------------
(***************************************************************************)
(* Proofs about the loops that play a night on the handset: FNaF 3's two   *)
(* halves and FNaF 4's, for every number of slips, any reboot the exits    *)
(* outlast and any times a door and a closet may take.                     *)
(***************************************************************************)
EXTENDS Fnaf4Loop, Fnaf3Loop, FiniteSetTheorems, SequenceTheorems, TLAPS

(***************************************************************************)
(* Slips and misses: each is taken off what is left of them.               *)
(***************************************************************************)

LEMMA Marked ==
  ASSUME NEW s, DOMAIN s \subseteq 1..3
  PROVE  /\ Cardinality({i \in DOMAIN s : s[i]}) \in Nat
         /\ (1 \in DOMAIN s /\ s[1]) => Cardinality({i \in DOMAIN s : s[i]}) >= 1
<1> DEFINE S == {i \in DOMAIN s : s[i]}
<1>1. IsFiniteSet(S) /\ Cardinality(S) \in Nat
  <2>1. IsFiniteSet(1..3)
    <3>1. \A a, b \in Int : IsFiniteSet(a..b)
      BY FS_Interval, Zenon
    <3> QED
      BY <3>1
  <2>2. S \subseteq 1..3
    OBVIOUS
  <2> QED
    BY <2>1, <2>2, FS_Subset, FS_CardinalityType
<1>2. (1 \in DOMAIN s /\ s[1]) => S # {}
  OBVIOUS
<1>3. S # {} => Cardinality(S) # 0
  BY <1>1, FS_EmptySet
<1> QED
  BY <1>1, <1>2, <1>3

LEMMA Slipped ==
  ASSUME SystemsAssumption, slips \in 0..SLIPS, NEW s, DOMAIN s \subseteq 1..3, Slip(s)
  PROVE  slips' \in 0..SLIPS
<1>1. PICK n \in Nat : n <= slips /\ slips' = slips - n
  BY Marked DEF Slip
<1> QED
  BY <1>1 DEF SystemsAssumption

LEMMA Missed ==
  ASSUME TrackAssumption, misses \in 0..MISSES, NEW s, DOMAIN s \subseteq 1..3, Miss(s)
  PROVE  misses' \in 0..MISSES /\ ((1 \in DOMAIN s /\ s[1]) => misses' < misses)
<1>1. PICK n \in Nat : /\ n <= misses /\ misses' = misses - n
                       /\ (1 \in DOMAIN s /\ s[1]) => n >= 1
  BY Marked DEF Miss
<1> QED
  BY <1>1 DEF TrackAssumption

(***************************************************************************)
(* FNaF 3's track. What is not given up is not lost; a second look at him  *)
(* where he stands has a miss behind it.                                   *)
(***************************************************************************)

TrackInv ==
  /\ moves \in 0..MOVES /\ misses \in 0..MISSES
  /\ at \in {"watch", "again"} => lost = FALSE
  /\ at = "again" /\ him = seen /\ moves = MOVES => misses < MISSES

LEMMA TrackBegins == ASSUME TrackAssumption, TrackInit PROVE TrackInv
BY DEF TrackAssumption, TrackInit, TrackInv

LEMMA TrackMoves == ASSUME TrackAssumption, TrackInv, Moves PROVE TrackInv'
<1>1. moves' = moves - 1 /\ moves > 0 /\ UNCHANGED <<at, lost, seen, misses>>
  BY DEF Moves, belief
<1> QED
  BY <1>1 DEF TrackAssumption, TrackInv

LEMMA TrackRounds == ASSUME TrackAssumption, TrackInv, Round PROVE TrackInv'
<1>1. UNCHANGED <<moves, misses, lost>> /\ at' \in {"watch", "search"}
  BY DEF Round, GoOn, belief
<1>2. at' = "watch" => lost' = FALSE
  BY <1>1 DEF Round, GoOn, belief
<1> QED
  BY <1>1, <1>2 DEF TrackInv

LEMMA TrackWatches == ASSUME TrackAssumption, TrackInv, Watch PROVE TrackInv'
<1>1. PICK slip \in BOOLEAN, unread \in BOOLEAN :
        /\ Miss(<<slip, unread>>)
        /\ \/ at' = "head"
           \/ at' = "again" /\ (him = seen) = slip /\ UNCHANGED <<him, seen>>
  BY DEF Watch, GoOn, NoLure
<1>2. at = "watch" /\ UNCHANGED <<moves, lost>>
  BY DEF Watch
<1>3. misses' \in 0..MISSES /\ (slip => misses' < misses)
  BY <1>1, Missed DEF TrackInv
<1>4. at' = "again" /\ him' = seen' => slip
  BY <1>1
<1> QED
  BY <1>1, <1>2, <1>3, <1>4 DEF TrackAssumption, TrackInv

LEMMA TrackLooksAgain ==
  ASSUME TrackAssumption, TrackInv, LookAgain
  PROVE  /\ TrackInv'
         /\ lost' /\ him = seen /\ moves = MOVES => misses' + 2 <= MISSES
<1>1. PICK slip \in BOOLEAN :
        /\ Miss(<<slip>>)
        /\ \/ (him = seen) # slip /\ at' = "head" /\ lost' = lost
           \/ (him = seen) = slip /\ at' = "left"
  BY DEF LookAgain, GoOn
<1>2. at = "again" /\ UNCHANGED <<him, seen, moves>>
  BY DEF LookAgain
<1>3. misses' \in 0..MISSES /\ (slip => misses' < misses)
  BY <1>1, Missed DEF TrackInv
<1>4. lost' /\ him = seen => slip
  BY <1>1, <1>2 DEF TrackInv
<1>5. TrackInv'
  BY <1>1, <1>2, <1>3 DEF TrackInv
<1> QED
  BY <1>2, <1>3, <1>4, <1>5 DEF TrackAssumption, TrackInv

LEMMA TrackSearches ==
  ASSUME TrackAssumption, TrackInv, Left \/ Look \/ Serviced \/ Exhausted \/ NotFound
  PROVE  TrackInv'
<1>1. moves' = moves /\ at' \in {"search", "head", "unfound"}
  BY DEF Left, Look, Serviced, Exhausted, NotFound, GoOn
<1>2. misses' \in 0..MISSES
  <2>1. CASE \E unread \in BOOLEAN : Miss(<<unread>>)
    BY <2>1, Missed DEF TrackInv
  <2>2. CASE \E slip, unread \in BOOLEAN : Miss(<<slip, unread>>)
    BY <2>2, Missed DEF TrackInv
  <2>3. CASE misses' = misses
    BY <2>3 DEF TrackInv
  <2> QED
    BY <2>1, <2>2, <2>3 DEF Left, Look, Serviced, Exhausted, NotFound
<1> QED
  BY <1>1, <1>2 DEF TrackInv

LEMMA TrackKeeps == ASSUME TrackAssumption, TrackInv, [TrackNext]_trackVars PROVE TrackInv'
<1>1. CASE UNCHANGED trackVars
  BY <1>1 DEF TrackInv, trackVars, belief
<1> QED
  BY <1>1, TrackMoves, TrackRounds, TrackWatches, TrackLooksAgain, TrackSearches DEF TrackNext, TrackLoop

LEMMA TrackHolds == ASSUME TrackAssumption PROVE TrackSpec => []TrackInv
BY TrackBegins, TrackKeeps, PTL DEF TrackSpec

(* Whatever the game does and every look shows: what the loop believes     *)
(* sealed only ever changes to what is.                                    *)
LEMMA Sealed == ASSUME [TrackNext]_trackVars, sealed' # sealed PROVE sealed' = bar'
<1>1. CASE Watch
  BY <1>1 DEF Watch, Seals, NoSeal
<1>2. CASE Left
  BY <1>2 DEF Left, Seals, NoSeal
<1>3. CASE Look
  BY <1>3 DEF Look, Seals, NoSeal, belief
<1>4. CASE Moves \/ Round \/ LookAgain \/ Serviced \/ Exhausted \/ NotFound
  BY <1>4 DEF Moves, Round, LookAgain, Serviced, Exhausted, NotFound, belief
<1> QED
  BY <1>1, <1>2, <1>3, <1>4 DEF TrackNext, TrackLoop, trackVars, belief

(***************************************************************************)
(* FNaF 3's systems. A reboot is behind the menu that took it, which       *)
(* refuses Exit until it is over; and what is left of it is always less    *)
(* than the presses of Exit still to come.                                 *)
(***************************************************************************)

Stages == {"head", "service", "lines", "maint", "menu", "exit", "raise", "try", "check", "search", "looked", "done"}

GameInv ==
  /\ screen \in {"office", "monitor", "menu"} /\ broken \subseteq Systems /\ reboot \subseteq Systems
  /\ left \in 0..REBOOT /\ (left = 0 <=> reboot = {})
  /\ reboot # {} => screen = "menu"

SpentInv == slips \in 0..SLIPS /\ faults \in 0..FAULTS /\ over \in BOOLEAN /\ scare \in BOOLEAN

VisitInv == force \in BOOLEAN /\ closed \in BOOLEAN /\ which \subseteq Systems

FlowInv ==
  /\ pc \in Stages /\ then \in {"check", "head", "search"} /\ back \in {"head", "service", "recover", "looked"}
  /\ count \in 0..(EXITS + RAISES)
  /\ pc = "exit" => left < count /\ count <= EXITS
  /\ pc = "try" => count > 0

SystemsInv == GameInv /\ SpentInv /\ VisitInv /\ FlowInv

LEMMA SystemsTypes == ASSUME SystemsInv PROVE SystemsTypeOK
<1>1. (left = 0) = (reboot = {})
  BY DEF SystemsInv, GameInv
<1> QED
  BY <1>1 DEF SystemsInv, GameInv, SpentInv, VisitInv, FlowInv, SystemsTypeOK

LEMMA SystemsBegin == ASSUME SystemsAssumption, SystemsInit PROVE SystemsInv
<1>1. {EXITS, REBOOT, RAISES, SLIPS, FAULTS} \subseteq Nat
  BY DEF SystemsAssumption
<1>2. /\ screen = "office" /\ broken = {} /\ reboot = {} /\ left = 0
      /\ slips = SLIPS /\ faults = FAULTS /\ which = {} /\ count = 0
      /\ pc = "raise" /\ then = "check" /\ back = "head"
  BY DEF SystemsInit
<1>3. over \in BOOLEAN /\ scare \in BOOLEAN /\ force \in BOOLEAN /\ closed \in BOOLEAN
  BY DEF SystemsInit
<1>4. GameInv /\ SpentInv
  BY <1>1, <1>2, <1>3 DEF GameInv, SpentInv
<1>5. VisitInv /\ FlowInv
  BY <1>1, <1>2, <1>3 DEF VisitInv, FlowInv, Stages
<1> QED
  BY <1>4, <1>5 DEF SystemsInv

LEMMA SystemBreaks == ASSUME SystemsAssumption, SystemsInv, Break PROVE SystemsInv'
<1>1. GameInv' /\ SpentInv'
  BY DEF Break, SystemsAssumption, SystemsInv, GameInv, SpentInv
<1>2. VisitInv' /\ FlowInv'
  BY DEF Break, visit, flow, SystemsInv, VisitInv, FlowInv
<1> QED
  BY <1>1, <1>2 DEF SystemsInv

LEMMA PhantomFlashes == ASSUME SystemsAssumption, SystemsInv, Flash PROVE SystemsInv'
<1>1. GameInv'
  <2>1. screen # "menu" /\ screen' = "office" /\ broken' = broken \union {"VENT"} /\ UNCHANGED <<reboot, left>>
    BY DEF Flash
  <2>2. broken' \subseteq Systems
    BY <2>1 DEF SystemsInv, GameInv, Systems
  <2> QED
    BY <2>1, <2>2 DEF SystemsInv, GameInv
<1>3. SpentInv'
  <2>1. faults > 0 /\ faults' = faults - 1 /\ UNCHANGED <<slips, over>>
    BY DEF Flash
  <2>2. scare' \in BOOLEAN
    BY DEF Flash, SystemsInv, SpentInv
  <2> QED
    BY <2>1, <2>2 DEF SystemsAssumption, SystemsInv, SpentInv
<1>2. VisitInv' /\ FlowInv'
  BY DEF Flash, visit, flow, SystemsInv, VisitInv, FlowInv
<1> QED
  BY <1>1, <1>2, <1>3 DEF SystemsInv

(* What passes of a reboot between two presses; the exits' count with it.  *)
LEMMA RebootPasses ==
  ASSUME SystemsAssumption, GameInv, Passes, screen' = ExitPressed \/ screen' = TabPressed(ExitPressed)
  PROVE  GameInv' /\ left' = IF left = 0 THEN 0 ELSE left - 1
<1>1. left' = IF left = 0 THEN 0 ELSE left - 1
  BY DEF Passes
<1>2. broken' \subseteq Systems /\ reboot' \subseteq Systems /\ (left' = 0 <=> reboot' = {}) /\ left' \in 0..REBOOT
  BY DEF Passes, GameInv, SystemsAssumption
<1>3. screen' \in {"office", "monitor", "menu"}
  BY DEF GameInv, ExitPressed, TabPressed
<1>4. reboot' # {} => reboot # {}
  BY DEF Passes
<1>5. reboot # {} => screen' = "menu"
  BY DEF GameInv, ExitPressed, TabPressed
<1> QED
  BY <1>1, <1>2, <1>3, <1>4, <1>5 DEF GameInv

LEMMA WhereReturned ==
  ASSUME FlowInv, NEW up
  PROVE  Returned(up) \in Stages \ {"exit", "raise", "try"}
BY DEF FlowInv, Returned, Stages

LEMMA ExitsPressed ==
  ASSUME SystemsAssumption, SystemsInv, Exit
  PROVE  SystemsInv' /\ (pc' = "raise" => closed')
<1>1. GameInv' /\ left' = IF left = 0 THEN 0 ELSE left - 1
  BY RebootPasses DEF Exit, SystemsInv
<1>2. PICK blind \in BOOLEAN :
        /\ Slip(<<blind>>) /\ closed' = (screen' # "menu" \/ blind)
        /\ IF closed' \/ count = 1 THEN pc' = "raise" /\ back' = "service" ELSE UNCHANGED <<pc, back>>
  BY DEF Exit, Jump
<1>3. SpentInv' /\ VisitInv'
  BY <1>2, Slipped DEF Exit, SystemsInv, SpentInv, VisitInv
<1>4. pc = "exit" /\ screen' = ExitPressed /\ count' = count - 1 /\ then' = then
  BY DEF Exit
<1>5. left < count /\ count <= EXITS /\ count \in Nat /\ left \in Nat
  BY <1>4 DEF SystemsInv, FlowInv, GameInv, SystemsAssumption
<1>6. count = 1 => closed'
  <2>1. count = 1 => reboot = {}
    BY <1>5 DEF SystemsInv, GameInv
  <2>2. reboot = {} => screen' # "menu"
    BY <1>4 DEF ExitPressed
  <2> QED
    BY <1>2, <2>1, <2>2
<1>7. FlowInv'
  BY <1>1, <1>2, <1>4, <1>5 DEF SystemsInv, FlowInv, Stages, SystemsAssumption
<1>8. pc' = "raise" => closed'
  BY <1>2, <1>4, <1>6
<1> QED
  BY <1>1, <1>3, <1>7, <1>8 DEF SystemsInv

LEMMA MonitorRaised == ASSUME SystemsAssumption, SystemsInv, Raise PROVE SystemsInv'
<1>1. PICK blind \in BOOLEAN, missed \in BOOLEAN :
        /\ Slip(<<blind, missed>>)
        /\ screen' = IF missed THEN ExitPressed ELSE TabPressed(ExitPressed)
        /\ \/ pc' \in {Returned(TRUE), Returned(FALSE)}
           \/ count > 1 /\ pc' = pc
  BY DEF Raise, Jump
<1>2. pc = "try" /\ Passes /\ count' = count - 1 /\ UNCHANGED <<over, faults, scare, visit, then, back>>
  BY DEF Raise
<1>3. GameInv'
  BY <1>1, <1>2, RebootPasses DEF SystemsInv
<1>4. SpentInv' /\ VisitInv'
  BY <1>1, <1>2, Slipped DEF visit, SystemsInv, SpentInv, VisitInv
<1>5. pc' \in Stages \ {"exit", "raise"} /\ (pc' = "try" => count > 1)
  BY <1>1, <1>2, WhereReturned DEF SystemsInv, Stages
<1>6. count > 0 /\ count \in 0..(EXITS + RAISES)
  BY <1>2 DEF SystemsInv, FlowInv
<1>7. FlowInv'
  BY <1>2, <1>5, <1>6 DEF SystemsInv, FlowInv, Stages, SystemsAssumption
<1> QED
  BY <1>3, <1>4, <1>7 DEF SystemsInv

(* The reboot a visit asks for, its exits all before it.                   *)
LEMMA MenuRead == ASSUME SystemsAssumption, SystemsInv, Menu PROVE SystemsInv'
<1>1. PICK read \in SUBSET broken, missed \in BOOLEAN :
        /\ Slip(<<read # broken, missed>>)
        /\ which' \in chooseReboot(read \union IF force THEN {"VENT"} ELSE {})
        /\ IF which' # {} /\ reboot = {} /\ screen = "menu" /\ ~missed
           THEN reboot' = which' /\ left' \in 1..REBOOT ELSE UNCHANGED <<reboot, left>>
  BY DEF Menu
<1>2. pc = "menu" /\ count' = EXITS /\ pc' = "exit"
      /\ UNCHANGED <<screen, broken, over, faults, scare, force, closed, then, back>>
  BY DEF Menu, Jump
<1>3. which' \subseteq Systems
  <2>1. \A words \in SUBSET Systems : \A w \in chooseReboot(words) : w \subseteq Systems
    BY DEF chooseReboot
  <2>2. (read \union IF force THEN {"VENT"} ELSE {}) \in SUBSET Systems
    BY DEF SystemsInv, GameInv, Systems
  <2> QED
    BY <1>1, <2>1, <2>2
<1>4. GameInv'
  BY <1>1, <1>2, <1>3 DEF SystemsInv, GameInv, SystemsAssumption
<1>5. SpentInv'
  BY <1>1, <1>2, Slipped DEF SystemsInv, SpentInv
<1>6. VisitInv' /\ FlowInv'
  BY <1>2, <1>3, <1>4 DEF SystemsInv, VisitInv, FlowInv, GameInv, Stages, SystemsAssumption
<1> QED
  BY <1>4, <1>5, <1>6 DEF SystemsInv

LEMMA MaintenancePressed == ASSUME SystemsAssumption, SystemsInv, Maintenance \/ Lines PROVE SystemsInv'
<1>1. /\ screen' \in {screen, "office", "menu"} /\ (screen = "menu" => screen' = "menu")
      /\ UNCHANGED <<broken, reboot, left, over, faults, scare, force, count, then>>
      /\ back' \in {back, "service"} /\ closed' \in {closed, FALSE} /\ which' \in {which, {}}
  BY DEF Maintenance, Lines
<1>2. slips' \in 0..SLIPS
  <2>1. \E s : DOMAIN s \subseteq 1..3 /\ Slip(s)
    <3>1. \A a, b, c : DOMAIN <<a, b>> \subseteq 1..3 /\ DOMAIN <<a, b, c>> \subseteq 1..3
      OBVIOUS
    <3> QED
      BY <3>1 DEF Maintenance, Lines
  <2> QED
    BY <2>1, Slipped DEF SystemsInv, SpentInv
<1>3. pc' \in Stages \ {"exit", "try"}
  BY DEF Maintenance, Lines, Jump, Stages, SystemsInv, FlowInv
<1>4. GameInv'
  BY <1>1 DEF SystemsInv, GameInv
<1>5. SpentInv' /\ VisitInv'
  BY <1>1, <1>2 DEF SystemsInv, SpentInv, VisitInv
<1>6. FlowInv'
  BY <1>1, <1>3 DEF SystemsInv, FlowInv
<1> QED
  BY <1>4, <1>5, <1>6 DEF SystemsInv

(* The steps that look and decide, and leave the game alone.               *)
LEMMA LoopDecides ==
  ASSUME SystemsAssumption, SystemsInv, Over \/ NextRound \/ Service \/ RaiseSees \/ Check \/ Search \/ Looked
  PROVE  SystemsInv'
<1>1. UNCHANGED <<screen, broken, reboot, left, which, closed, faults>>
  BY DEF Over, NextRound, Service, RaiseSees, Check, Search, Looked, game, visit
<1>2. slips' \in 0..SLIPS
  <2>1. CASE \E blind \in BOOLEAN : Slip(<<blind>>)
    BY <2>1, Slipped DEF SystemsInv, SpentInv
  <2>2. CASE slips' = slips
    BY <2>2 DEF SystemsInv, SpentInv
  <2> QED
    BY <2>1, <2>2 DEF Over, NextRound, Service, RaiseSees, Check, Search, Looked
<1>3. over' \in BOOLEAN /\ scare' \in BOOLEAN /\ force' \in BOOLEAN
  BY DEF Over, NextRound, Service, RaiseSees, Check, Search, Looked, visit, SystemsInv, SpentInv, VisitInv
<1>4. GameInv' /\ SpentInv' /\ VisitInv'
  BY <1>1, <1>2, <1>3 DEF SystemsInv, GameInv, SpentInv, VisitInv
<1>5. then' \in {"check", "head", "search"} /\ back' \in {"head", "service", "recover", "looked"}
  BY DEF Over, NextRound, Service, RaiseSees, Check, Search, Looked, flow, SystemsInv, FlowInv
<1>6. \/ count' = count /\ pc' \in Stages \ {"exit", "try"}
      \/ count' = RAISES /\ pc' = "try"
      \/ count' = count /\ pc' = pc
  BY WhereReturned DEF Over, NextRound, Service, RaiseSees, Check, Search, Looked, flow, Jump, Stages, SystemsInv, FlowInv
<1>7. FlowInv'
  BY <1>1, <1>5, <1>6 DEF SystemsInv, FlowInv, Stages, SystemsAssumption
<1> QED
  BY <1>4, <1>7 DEF SystemsInv

LEMMA SystemsKeep == ASSUME SystemsAssumption, SystemsInv, [SystemsNext]_systemsVars PROVE SystemsInv'
<1>1. CASE UNCHANGED systemsVars
  BY <1>1 DEF systemsVars, game, visit, flow, SystemsInv, GameInv, SpentInv, VisitInv, FlowInv
<1>2. CASE Done
  BY <1>1, <1>2 DEF Done
<1> QED
  BY <1>1, <1>2, SystemBreaks, PhantomFlashes, ExitsPressed, MonitorRaised, MenuRead, MaintenancePressed, LoopDecides
  DEF SystemsNext, SystemsLoop

LEMMA SystemsHold == ASSUME SystemsAssumption PROVE SystemsSpec => []SystemsInv
BY SystemsBegin, SystemsKeep, PTL DEF SystemsSpec

(* Every variable of the systems' half stays in its set, and a reboot runs *)
(* exactly while time is left of it.                                       *)
THEOREM SystemsTyped ==
  ASSUME SystemsAssumption
  PROVE  SystemsSpec => []SystemsTypeOK
BY SystemsHold, SystemsTypes, PTL

(* However many presses the game misses and frames show nothing, and how   *)
(* long a reboot takes: a service says done with none left running and     *)
(* gives up no menu it still sees open, as long as the exits outlast every *)
(* reboot; what is believed sealed is what was, and nobody is lost on one  *)
(* look that missed him.                                                   *)
THEOREM BeliefFollows ==
  ASSUME SystemsAssumption, TrackAssumption
  PROVE  SystemsSpec /\ TrackSpec => BeliefFollowsTheGame
<1>1. SystemsInv /\ SystemsInv' /\ [SystemsNext]_systemsVars => [ServiceSaysDone => reboot' = {}]_systemsVars
  BY DEF SystemsInv, GameInv, ServiceSaysDone
<1>2. SystemsInv /\ [SystemsNext]_systemsVars => [Exit /\ pc' = "raise" => closed']_systemsVars
  BY ExitsPressed
<1>3. [TrackNext]_trackVars => [sealed' # sealed => sealed' = bar']_trackVars
  BY Sealed
<1>4. TrackInv /\ [TrackNext]_trackVars
        => [LookAgain /\ lost' /\ him = seen /\ moves = MOVES => misses' + 2 <= MISSES]_trackVars
  BY TrackLooksAgain
<1>5. SystemsSpec => DoneMeansRebooted /\ MenuOutlasted
  BY <1>1, <1>2, SystemsHold, PTL DEF SystemsSpec, DoneMeansRebooted, MenuOutlasted
<1>6. TrackSpec => SealBelief /\ OneMissIsNotLost
  BY <1>3, <1>4, TrackHolds, PTL DEF TrackSpec, SealBelief, OneMissIsNotLost
<1> QED
  BY <1>5, <1>6 DEF BeliefFollowsTheGame

(***************************************************************************)
(* FNaF 4's loop. What is coming is always a step pushed in front, what is *)
(* left of a bed's own visits, and an end of the cycle.                    *)
(***************************************************************************)

Ops == {"pan", "door", "home", "homeIn", "bedIfDue", "bedIfDueAndNoEntry", "closetIfNeeded", "closetIfEntry",
        "closet", "bed", "turn", "cycle"}
Steps == [op : Ops, side : Sides]

(* The visits before a bed when the sides A are stale, and the turn.       *)
Called(s) == <<On("pan", s), On("door", s), On("homeIn", s), Do("closetIfEntry")>>
VisitsTo(A) == (IF "L" \in A THEN Called("L") ELSE <<>>) \o (IF "R" \in A THEN Called("R") ELSE <<>>) \o <<Do("turn")>>

Height(A) == IF A = {} THEN 1 ELSE IF A = Sides THEN 9 ELSE 5

(* The last n steps; r of the visits and b of the cycle, behind a closet   *)
(* or a bed pushed in front or none.                                       *)
Fronts == {"none", "closet", "bed"}
InFront(q) == IF q = "none" THEN <<>> ELSE <<Do(q)>>
Ends(s, n) == SubSeq(s, Len(s) - n + 1, Len(s))
Coming(q, A, r, b) == InFront(q) \o (Ends(VisitsTo(A), r) \o Ends(Cycle, b))

(* The side visited last, and the step of the visits with r of them left.  *)
LastOf(A) == IF "R" \in A THEN "R" ELSE "L"
Visited(A, r) == IF r < 6 THEN LastOf(A) ELSE "L"
Visiting(A, r) ==
  CASE r = 1 -> Do("turn")
    [] r \in {2, 6} -> Do("closetIfEntry")
    [] r \in {3, 7} -> On("homeIn", Visited(A, r))
    [] r \in {4, 8} -> On("door", Visited(A, r))
    [] r \in {5, 9} -> On("pan", Visited(A, r))

LEMMA StepsOf ==
  /\ \A op \in Ops : Do(op) \in Steps /\ Do(op).op = op /\ Do(op).side = "L"
  /\ \A op \in Ops, s \in Sides : On(op, s) \in Steps /\ On(op, s).op = op /\ On(op, s).side = s
BY DEF Steps, Do, On, Sides

LEMMA CycleSteps == Cycle \in Seq(Steps) /\ Len(Cycle) = 12
<1> HIDE DEF Do, On, Steps
<1>1. {On("pan", "L"), On("door", "L"), On("home", "L"), On("pan", "R"), On("door", "R"), On("home", "R"), Do("bedIfDue"),
       Do("closetIfNeeded"), Do("bedIfDueAndNoEntry"), Do("closet"), Do("bed"), Do("cycle")} \subseteq Steps
  BY StepsOf DEF Ops, Sides
<1> QED
  BY <1>1 DEF Cycle

LEMMA EndsShorten ==
  ASSUME NEW S, NEW s \in Seq(S), NEW n \in 0..Len(s)
  PROVE  /\ Ends(s, n) \in Seq(S) /\ Len(Ends(s, n)) = n
         /\ n = 0 => Ends(s, n) = <<>>
         /\ n > 0 => Head(Ends(s, n)) = s[Len(s) - n + 1] /\ Tail(Ends(s, n)) = Ends(s, n - 1)
         /\ n = Len(s) => Ends(s, n) = s
<1>1. Len(s) \in Nat /\ \A i \in 1..Len(s) : s[i] \in S
  BY LenProperties, ElementOfSeq
<1>2. Ends(s, n) \in Seq(S) /\ Len(Ends(s, n)) = n
  BY <1>1, SubSeqProperties DEF Ends
<1>3. n = 0 => Ends(s, n) = <<>>
  BY <1>1, SubSeqEmpty DEF Ends
<1>4. n > 0 => Head(Ends(s, n)) = s[Len(s) - n + 1] /\ Tail(Ends(s, n)) = Ends(s, n - 1)
  BY <1>1, HeadTailOfSubSeq DEF Ends
<1>5. n = Len(s) => Ends(s, n) = s
  BY <1>1, SubSeqFull DEF Ends
<1> QED
  BY <1>2, <1>3, <1>4, <1>5

LEMMA VisitsSteps ==
  ASSUME NEW A \in SUBSET Sides
  PROVE  /\ VisitsTo(A) \in Seq(Steps)
         /\ Len(VisitsTo(A)) = Height(A) /\ Height(A) \in 1..9
         /\ \A r \in 1..Height(A) : VisitsTo(A)[Height(A) - r + 1] = Visiting(A, r)
<1>1. \A s \in Sides : Called(s) \in Seq(Steps) /\ Len(Called(s)) = 4
                       /\ Called(s)[1] = On("pan", s) /\ Called(s)[2] = On("door", s)
                       /\ Called(s)[3] = On("homeIn", s) /\ Called(s)[4] = Do("closetIfEntry")
  BY StepsOf DEF Called, Ops
<1>2. <<Do("turn")>> \in Seq(Steps) /\ Len(<<Do("turn")>>) = 1 /\ <<Do("turn")>>[1] = Do("turn")
  BY StepsOf DEF Ops
<1>3. A = {} \/ A = {"L"} \/ A = {"R"} \/ A = Sides
  BY DEF Sides
<1> DEFINE l == IF "L" \in A THEN Called("L") ELSE <<>>
           q == IF "R" \in A THEN Called("R") ELSE <<>>
           t == <<Do("turn")>>
<1>4. /\ l \in Seq(Steps) /\ ("L" \in A => l = Called("L")) /\ ("L" \notin A => Len(l) = 0)
      /\ q \in Seq(Steps) /\ ("R" \in A => q = Called("R")) /\ ("R" \notin A => Len(q) = 0)
      /\ t \in Seq(Steps) /\ Len(t) = 1 /\ t[1] = Do("turn")
  BY <1>1, <1>2, EmptySeq DEF Sides
<1>5. VisitsTo(A) = l \o q \o t
  BY DEF VisitsTo
<1> HIDE DEF l, q, t
<1>6. /\ l \o q \in Seq(Steps) /\ Len(l \o q) = Len(l) + Len(q)
      /\ \A i \in 1..Len(l) + Len(q) : (l \o q)[i] = IF i <= Len(l) THEN l[i] ELSE q[i - Len(l)]
  BY <1>4, ConcatProperties
<1> DEFINE v == l \o q
<1>7. /\ VisitsTo(A) \in Seq(Steps) /\ Len(VisitsTo(A)) = Len(v) + 1
      /\ \A i \in 1..Len(v) + 1 : VisitsTo(A)[i] = IF i <= Len(v) THEN v[i] ELSE t[i - Len(v)]
  <2>1. v \in Seq(Steps)
    BY <1>6
  <2>2. VisitsTo(A) = v \o t
    BY <1>5
  <2> HIDE DEF v
  <2> QED
    BY <1>4, <2>1, <2>2, ConcatProperties
<1>8. Len(l) = (IF "L" \in A THEN 4 ELSE 0) /\ Len(q) = (IF "R" \in A THEN 4 ELSE 0)
  BY <1>1, <1>4 DEF Sides
<1>9. Len(VisitsTo(A)) = Height(A) /\ Height(A) \in 1..9
  BY <1>3, <1>6, <1>7, <1>8 DEF Sides, Height
<1>10. ASSUME NEW r \in 1..Len(VisitsTo(A))
       PROVE  VisitsTo(A)[Len(VisitsTo(A)) - r + 1] = Visiting(A, r)
  <2> DEFINE i == Len(VisitsTo(A)) - r + 1
  <2>1. Len(v) = Len(l) + Len(q) /\ Len(l) \in {0, 4} /\ Len(q) \in {0, 4} /\ Len(VisitsTo(A)) = Len(l) + Len(q) + 1
    BY <1>6, <1>7, <1>8
  <2>2. i \in 1..Len(v) + 1 /\ (i <= Len(v) <=> r > 1)
    BY <2>1
  <2>3. CASE r = 1
    <3>1. i = Len(v) + 1
      BY <2>1, <2>3
    <3>2. VisitsTo(A)[i] = t[1]
      BY <2>1, <1>7, <3>1
    <3> QED
      BY <2>3, <3>2, <1>4 DEF Visiting
  <2>4. CASE r \in 2..5 /\ "R" \in A
    <3>1. i = Len(l) + 6 - r /\ Len(q) = 4
      BY <2>1, <2>4, <1>8
    <3>2. VisitsTo(A)[i] = q[6 - r]
      <4>1. VisitsTo(A)[i] = v[i]
        BY <1>7, <2>1, <2>2, <2>4
      <4>2. i \in 1..Len(l) + Len(q) /\ ~(i <= Len(l)) /\ i - Len(l) = 6 - r
        BY <2>1, <2>4, <3>1
      <4>3. v[i] = q[i - Len(l)]
        BY <1>6, <4>2
      <4> QED
        BY <4>1, <4>2, <4>3
    <3>3. q[6 - r] = Called("R")[6 - r]
      BY <1>4, <2>4
    <3>4. Visited(A, r) = "R"
      BY <2>4 DEF Visited, LastOf
    <3>5. r = 2 \/ r = 3 \/ r = 4 \/ r = 5
      BY <2>4
    <3>6. Called("R")[6 - r] = Visiting(A, r)
      BY <1>1, <3>4, <3>5 DEF Visiting, Sides
    <3> QED
      BY <3>2, <3>3, <3>6
  <2>5. CASE r > 1 /\ ~(r \in 2..5 /\ "R" \in A)
    <3>1. /\ "L" \in A /\ i \in 1..4 /\ Len(l) = 4 /\ Visited(A, r) = "L"
          /\ IF "R" \in A THEN r = 10 - i ELSE r = 6 - i
      BY <2>1, <2>5, <1>8 DEF Visited, LastOf
    <3>2. VisitsTo(A)[i] = l[i]
      BY <1>6, <1>7, <2>1, <3>1
    <3>3. i = 1 \/ i = 2 \/ i = 3 \/ i = 4
      BY <3>1
    <3>4. Called("L")[i] = Visiting(A, r)
      <4> HIDE DEF i
      <4> QED
        BY <1>1, <3>1, <3>3 DEF Visiting, Sides
    <3> QED
      BY <3>1, <3>2, <3>4, <1>4
  <2> QED
    BY <2>1, <2>3, <2>4, <2>5
<1> QED
  BY <1>7, <1>9, <1>10

(* What a step takes off the front, and what a push puts there.            *)
LEMMA Taken ==
  ASSUME NEW s \in Seq(Steps), NEW t \in Seq(Steps), s # <<>>
  PROVE  Head(s \o t) = Head(s) /\ Tail(s \o t) = Tail(s) \o t
<1>1. Len(s) \in Nat \ {0} /\ Len(t) \in Nat
  BY EmptySeq, LenProperties
<1> DEFINE u == s \o t
<1>2. u \in Seq(Steps) /\ Len(u) = Len(s) + Len(t)
      /\ \A i \in 1..Len(s) + Len(t) : u[i] = IF i <= Len(s) THEN s[i] ELSE t[i - Len(s)]
  BY ConcatProperties
<1> HIDE DEF u
<1>3. Head(u) = u[1] /\ Head(s) = s[1]
  BY <1>1, <1>2
<1>4. u # <<>>
  BY <1>1, <1>2, EmptySeq
<1>5. Tail(u) \in Seq(Steps) /\ Len(Tail(u)) = Len(u) - 1 /\ \A i \in 1..Len(Tail(u)) : Tail(u)[i] = u[i + 1]
  BY <1>2, <1>4, HeadTailProperties
<1> DEFINE v == Tail(s)
<1>6. v \in Seq(Steps) /\ Len(v) = Len(s) - 1 /\ \A i \in 1..Len(v) : v[i] = s[i + 1]
  BY HeadTailProperties
<1> HIDE DEF v
<1>7. v \o t \in Seq(Steps) /\ Len(v \o t) = Len(v) + Len(t)
      /\ \A i \in 1..Len(v) + Len(t) : (v \o t)[i] = IF i <= Len(v) THEN v[i] ELSE t[i - Len(v)]
  BY <1>6, ConcatProperties
<1>8. ASSUME NEW i \in 1..Len(Tail(u)) PROVE Tail(u)[i] = (v \o t)[i]
  BY <1>1, <1>2, <1>5, <1>6, <1>7
<1>9. Tail(u) = v \o t
  BY <1>1, <1>2, <1>5, <1>6, <1>7, <1>8, SeqEqual
<1> QED
  BY <1>1, <1>2, <1>3, <1>9 DEF u, v

LEMMA ComingSteps ==
  ASSUME NEW q \in Fronts, NEW A \in SUBSET Sides, NEW r \in 0..Height(A), NEW b \in 0..12
  PROVE  /\ Coming(q, A, r, b) \in Seq(Steps)
         /\ Len(Coming(q, A, r, b)) = (IF q = "none" THEN 0 ELSE 1) + r + b
         /\ q # "none" => Coming(q, A, r, b) = <<Do(q)>> \o Coming("none", A, r, b)
         /\ Coming("none", A, r, b) = Ends(VisitsTo(A), r) \o Ends(Cycle, b)
         /\ Coming("none", A, 0, b) = Ends(Cycle, b)
<1> DEFINE e == Ends(VisitsTo(A), r)
           c == Ends(Cycle, b)
<1>1. e \in Seq(Steps) /\ Len(e) = r /\ c \in Seq(Steps) /\ Len(c) = b
  <2>1. VisitsTo(A) \in Seq(Steps) /\ r \in 0..Len(VisitsTo(A))
    BY VisitsSteps
  <2>2. Cycle \in Seq(Steps) /\ b \in 0..Len(Cycle)
    BY CycleSteps
  <2>3. e \in Seq(Steps) /\ Len(e) = r
    BY <2>1, EndsShorten
  <2>4. c \in Seq(Steps) /\ Len(c) = b
    BY <2>2, EndsShorten
  <2> QED
    BY <2>3, <2>4
<1>2. InFront(q) \in Seq(Steps) /\ Len(InFront(q)) = (IF q = "none" THEN 0 ELSE 1)
  BY StepsOf DEF Fronts, Ops, InFront
<1>3. Ends(VisitsTo(A), 0) = <<>>
  BY VisitsSteps, EndsShorten
<1> HIDE DEF e, c
<1>4. e \o c \in Seq(Steps) /\ Len(e \o c) = r + b
  BY <1>1, ConcatProperties
<1> DEFINE ec == e \o c
<1>5. InFront(q) \o ec \in Seq(Steps) /\ Len(InFront(q) \o ec) = (IF q = "none" THEN 0 ELSE 1) + r + b
  <2> HIDE DEF ec
  <2>1. ec \in Seq(Steps) /\ Len(ec) = r + b
    BY <1>4 DEF ec
  <2> DEFINE f == InFront(q)
             n == IF q = "none" THEN 0 ELSE 1
  <2>2. f \in Seq(Steps) /\ Len(f) = n /\ n \in Nat
    BY <1>2
  <2> HIDE DEF f, n
  <2>3. f \o ec \in Seq(Steps) /\ Len(f \o ec) = n + (r + b)
    BY <2>1, <2>2, ConcatProperties
  <2>4. Len(f \o ec) = n + r + b
    BY <2>2, <2>3, VisitsSteps
  <2> QED
    BY <2>3, <2>4 DEF f, n
<1>6. <<>> \o ec = ec
  BY <1>4, ConcatEmptySeq
<1>7. <<>> \o (<<>> \o c) = c
  BY <1>1, ConcatEmptySeq
<1> QED
  BY <1>3, <1>5, <1>6, <1>7 DEF Coming, InFront, e, c

LEMMA Popped ==
  ASSUME NEW q \in Fronts, NEW A \in SUBSET Sides, NEW r \in 0..Height(A), NEW b \in 0..12
  PROVE  /\ q # "none" => Head(Coming(q, A, r, b)) = Do(q) /\ Tail(Coming(q, A, r, b)) = Coming("none", A, r, b)
         /\ q = "none" /\ r > 0 => /\ Head(Coming(q, A, r, b)) = Visiting(A, r)
                                  /\ Tail(Coming(q, A, r, b)) = Coming("none", A, r - 1, b)
         /\ q = "none" /\ r = 0 /\ b > 0 => /\ Head(Coming(q, A, r, b)) = Cycle[13 - b]
                                           /\ Tail(Coming(q, A, r, b)) = Coming("none", A, 0, b - 1)
<1>0. "none" \in Fronts /\ Height(A) \in 1..9
  BY VisitsSteps DEF Fronts
<1>1. CASE q # "none"
  <2> DEFINE w == Coming("none", A, r, b)
  <2>1. w \in Seq(Steps) /\ Coming(q, A, r, b) = <<Do(q)>> \o w
    BY <1>0, <1>1, ComingSteps
  <2> HIDE DEF w
  <2>2. <<Do(q)>> \in Seq(Steps) /\ <<Do(q)>> # <<>> /\ Head(<<Do(q)>>) = Do(q) /\ Tail(<<Do(q)>>) = <<>>
    BY <1>1, StepsOf DEF Fronts, Ops
  <2>3. Head(<<Do(q)>> \o w) = Do(q) /\ Tail(<<Do(q)>> \o w) = <<>> \o w
    BY <2>1, <2>2, Taken
  <2> QED
    BY <1>1, <2>1, <2>3, ConcatEmptySeq DEF w
<1>2. CASE q = "none" /\ r > 0
  <2> DEFINE e == Ends(VisitsTo(A), r)
             c == Ends(Cycle, b)
  <2>1. /\ e \in Seq(Steps) /\ Len(e) = r /\ c \in Seq(Steps)
        /\ Head(e) = Visiting(A, r) /\ Tail(e) = Ends(VisitsTo(A), r - 1)
    <3>1. VisitsTo(A) \in Seq(Steps) /\ r \in 1..Len(VisitsTo(A)) /\ Len(VisitsTo(A)) = Height(A)
      BY <1>2, VisitsSteps
    <3>2. e \in Seq(Steps) /\ Len(e) = r /\ Head(e) = VisitsTo(A)[Len(VisitsTo(A)) - r + 1] /\ Tail(e) = Ends(VisitsTo(A), r - 1)
      BY <3>1, EndsShorten
    <3>3. c \in Seq(Steps)
      BY CycleSteps, EndsShorten
    <3> QED
      BY <3>1, <3>2, <3>3, VisitsSteps
  <2>2. Coming(q, A, r, b) = e \o c
    BY <1>2, ComingSteps
  <2>3. Coming("none", A, r - 1, b) = Ends(VisitsTo(A), r - 1) \o c
    <3>1. r - 1 \in 0..Height(A)
      BY <1>0, <1>2
    <3> QED
      BY <1>0, <3>1, ComingSteps
  <2> HIDE DEF e, c
  <2>4. e # <<>>
    BY <2>1, <1>2, EmptySeq
  <2>5. Head(e \o c) = Head(e) /\ Tail(e \o c) = Tail(e) \o c
    BY <2>1, <2>4, Taken
  <2>6. Head(Coming(q, A, r, b)) = Visiting(A, r) /\ Tail(Coming(q, A, r, b)) = Coming("none", A, r - 1, b)
    BY <2>1, <2>2, <2>3, <2>5, Zenon
  <2> QED
    BY <1>2, <2>6
<1>3. CASE q = "none" /\ r = 0 /\ b > 0
  <2>1. Head(Ends(Cycle, b)) = Cycle[13 - b] /\ Tail(Ends(Cycle, b)) = Ends(Cycle, b - 1)
    <3>1. Cycle \in Seq(Steps) /\ b \in 1..Len(Cycle) /\ Len(Cycle) - b + 1 = 13 - b
      BY <1>3, CycleSteps
    <3> QED
      BY <3>1, EndsShorten
  <2>2. b - 1 \in 0..12 /\ 0 \in 0..Height(A)
    BY <1>0, <1>3
  <2>3. Coming("none", A, 0, b) = Ends(Cycle, b)
    BY <1>0, <2>2, ComingSteps
  <2>4. Coming("none", A, 0, b - 1) = Ends(Cycle, b - 1)
    BY <1>0, <2>2, ComingSteps
  <2> QED
    BY <1>0, <1>3, <2>1, <2>2, <2>3, <2>4
<1> QED
  BY <1>0, <1>1, <1>2, <1>3

LEMMA Pushed ==
  ASSUME NEW A \in SUBSET Sides, NEW r \in 0..Height(A), NEW b \in 0..12
  PROVE  /\ <<>> \o Coming("none", A, r, b) = Coming("none", A, r, b)
         /\ \A x \in {"closet", "bed"} : <<Do(x)>> \o Coming("none", A, r, b) = Coming(x, A, r, b)
         /\ \A B \in SUBSET Sides : r = 0 => VisitsTo(B) \o Coming("none", A, r, b) = Coming("none", B, Height(B), b)
<1>1. <<>> \o Coming("none", A, r, b) = Coming("none", A, r, b)
  <2>1. Coming("none", A, r, b) \in Seq(Steps)
    BY ComingSteps DEF Fronts
  <2> QED
    BY <2>1, ConcatEmptySeq
<1>2. ASSUME NEW x \in {"closet", "bed"} PROVE <<Do(x)>> \o Coming("none", A, r, b) = Coming(x, A, r, b)
  <2>1. x \in Fronts /\ x # "none"
    BY DEF Fronts
  <2> QED
    BY <2>1, ComingSteps
<1>3. ASSUME NEW B \in SUBSET Sides, r = 0 PROVE VisitsTo(B) \o Coming("none", A, r, b) = Coming("none", B, Height(B), b)
  <2>1. Height(B) \in 0..Height(B) /\ 0 \in 0..Height(A) /\ VisitsTo(B) \in Seq(Steps) /\ Len(VisitsTo(B)) = Height(B)
    BY VisitsSteps
  <2>2. Coming("none", B, Height(B), b) = Ends(VisitsTo(B), Height(B)) \o Ends(Cycle, b)
    BY <2>1, ComingSteps DEF Fronts
  <2>3. Ends(VisitsTo(B), Height(B)) = VisitsTo(B)
    BY <2>1, EndsShorten
  <2>4. Coming("none", A, r, b) = Ends(Cycle, b)
    BY <1>3, <2>1, ComingSteps DEF Fronts
  <2> QED
    BY <2>2, <2>3, <2>4
<1> QED
  BY <1>1, <1>2, <1>3

LEMMA CycleComes == Cycle = Coming("none", {}, 0, 12)
<1>1. {} \in SUBSET Sides /\ 0 \in 0..Height({}) /\ Cycle \in Seq(Steps) /\ 12 = Len(Cycle)
  BY VisitsSteps, CycleSteps
<1>2. Ends(Cycle, 12) = Cycle
  <2>1. 12 \in 0..Len(Cycle)
    BY CycleSteps
  <2> QED
    BY <1>1, <2>1, EndsShorten
<1>3. Coming("none", {}, 0, 12) = Ends(Cycle, 12)
  BY <1>1, ComingSteps DEF Fronts
<1> QED
  BY <1>2, <1>3

(* What each step of the cycle is.                                         *)
LEMMA CycleTable ==
  /\ Cycle[1] = On("pan", "L") /\ Cycle[2] = On("door", "L") /\ Cycle[3] = On("home", "L") /\ Cycle[4] = Do("bedIfDue")
  /\ Cycle[5] = Do("closetIfNeeded") /\ Cycle[6] = On("pan", "R") /\ Cycle[7] = On("door", "R")
  /\ Cycle[8] = On("home", "R") /\ Cycle[9] = Do("bedIfDueAndNoEntry") /\ Cycle[10] = Do("closet")
  /\ Cycle[11] = Do("bed") /\ Cycle[12] = Do("cycle")
BY DEF Cycle

(***************************************************************************)
(* Where the loop stands, what it knows and how long ago each hall was     *)
(* lit, with r of a bed's visits and b of the cycle to come.               *)
(***************************************************************************)

Hold == Largest(DoorTimes)
Inside == Largest(ClosetTimes)
Slack == Largest({FRESH, 1 + Inside})

(* A hall lit and silent n ago or later, or someone still at its door.     *)
Late(s, n) == s \in unresolved \/ clear[s] <= n
(* What the last side's visit has taken by then.                           *)
Spent(q, r) == IF r >= 4 THEN 0 ELSE IF r = 3 THEN Hold ELSE IF r = 2 \/ q # "none" THEN Hold + 1 ELSE Episode

PlaceInv(q, r, b) ==
  /\ r > 0 => b \in {8, 3, 1} /\ q # "bed"
  /\ r > 0 /\ q # "none" => r \in {1, 5}
  /\ r = 0 /\ q = "bed" => b \in {8, 3}
  /\ r = 0 /\ q = "closet" => b = 7
  /\ r = 0 /\ q = "none" => b > 0

StandInv(q, A, r, b) ==
  /\ q = "none" /\ r \in {4, 8} => where = RoomOf[Visited(A, r)]
  /\ q = "none" /\ r = 0 /\ b = 11 => where = "roomL"
  /\ q = "none" /\ r = 0 /\ b = 6 => where = "roomR"

(* Whoever was seen in is gone to by what is left, before the right door.  *)
KnownInv(q, r, b) ==
  known =>
    /\ r > 0 /\ b = 8 => ret \/ foxyInside \/ q = "closet" \/ (r \in {2, 6} /\ entry)
    /\ r > 0 /\ b = 1 => foxyInside \/ q = "closet" \/ (r \in {2, 6} /\ entry)
    /\ r = 0 /\ b \in {12, 11, 10, 1} => foxyInside
    /\ r = 0 /\ b \in {9, 8, 4} => ret \/ foxyInside
    /\ r = 0 /\ b \in {7, 6, 5, 2} => q # "none"

ClearInv(q, A, r) ==
  /\ r \in 1..4 \/ (r = 5 /\ q = "none") => \A s \in Sides \ {LastOf(A)} : Late(s, Slack + Spent(q, r))
  /\ r = 1 /\ A = {} => \A s \in Sides : Late(s, Slack + Episode)
  /\ r = 7 => Late("L", 0)
  /\ r = 6 \/ (r = 5 /\ q # "none") => A = Sides /\ Late("L", 1)
  /\ r = 3 => Late(LastOf(A), 0)
  /\ r = 2 \/ (r = 1 /\ q # "none") => A # {} /\ Late(LastOf(A), 1)
  /\ r = 1 /\ q = "none" /\ A # {} => Late(LastOf(A), 1 + Inside)

Placed(q, A, r, b) ==
  /\ todo = Coming(q, A, r, b)
  /\ PlaceInv(q, r, b) /\ StandInv(q, A, r, b) /\ KnownInv(q, r, b) /\ ClearInv(q, A, r)

SomePlace == \E q \in Fronts, A \in SUBSET Sides, r \in 0..9, b \in 0..12 : r <= Height(A) /\ Placed(q, A, r, b)

LoopTypes ==
  /\ todo \in Seq(Steps) /\ where \in ROOM_VIEWS \union {"doorL", "doorR"}
  /\ clear \in [Sides -> 0..ClearCap] /\ bedAge \in 0..(BED_EVERY + 1) /\ closetAge \in 0..(CLOSET_EVERY + 1)
  /\ unresolved \subseteq Sides /\ {foxyInside, ret, entry, known, nightOver} \subseteq BOOLEAN

LoopInv == LoopTypes /\ (todo # <<>> => SomePlace)

(* What stands in front, and what is left behind it.                       *)
Rest(q, A, r, b) ==
  IF q # "none" THEN Coming("none", A, r, b)
  ELSE IF r > 0 THEN Coming("none", A, r - 1, b) ELSE Coming("none", A, 0, b - 1)

LEMMA Looking ==
  ASSUME NEW q \in Fronts, NEW A \in SUBSET Sides, NEW r \in 0..9, NEW b \in 0..12, r <= Height(A),
         todo = Coming(q, A, r, b), PlaceInv(q, r, b)
  PROVE  /\ Tail(todo) = Rest(q, A, r, b) /\ Len(todo) = (IF q = "none" THEN 0 ELSE 1) + r + b
         /\ Ahead("cycle") => q = "none" /\ r = 0 /\ b = 1
         /\ Ahead("pan") => q = "none" /\ \/ r \in {5, 9} /\ side = Visited(A, r)
                                          \/ r = 0 /\ b = 12 /\ side = "L"
                                          \/ r = 0 /\ b = 7 /\ side = "R"
         /\ Ahead("door") => q = "none" /\ \/ r \in {4, 8} /\ side = Visited(A, r)
                                           \/ r = 0 /\ b = 11 /\ side = "L"
                                           \/ r = 0 /\ b = 6 /\ side = "R"
         /\ Ahead("home") => q = "none" /\ r = 0 /\ b \in {10, 5}
         /\ Ahead("homeIn") => q = "none" /\ r \in {3, 7}
         /\ Ahead("bedIfDue") => q = "none" /\ r = 0 /\ b = 9
         /\ Ahead("bedIfDueAndNoEntry") => q = "none" /\ r = 0 /\ b = 4
         /\ Ahead("closetIfNeeded") => q = "none" /\ r = 0 /\ b = 8
         /\ Ahead("closetIfEntry") => q = "none" /\ r \in {2, 6}
         /\ Ahead("closet") => q = "closet" \/ (q = "none" /\ r = 0 /\ b = 3)
         /\ Ahead("bed") => (q = "bed" /\ r = 0 /\ b \in {8, 3}) \/ (q = "none" /\ r = 0 /\ b = 2)
         /\ Ahead("turn") => q = "none" /\ r = 1
         /\ Head(todo) \in Steps
<1>0. r \in 0..Height(A)
  BY VisitsSteps
<1>1. Tail(todo) = Rest(q, A, r, b)
  <2>1. CASE q # "none"
    BY <1>0, <2>1, Popped DEF Rest
  <2>2. CASE q = "none" /\ r > 0
    BY <1>0, <2>2, Popped DEF Rest
  <2>3. CASE q = "none" /\ r = 0
    <3>1. b > 0
      BY <2>3 DEF PlaceInv
    <3> QED
      BY <1>0, <2>3, <3>1, Popped DEF Rest
  <2> QED
    BY <2>1, <2>2, <2>3
<1>2. Len(todo) = (IF q = "none" THEN 0 ELSE 1) + r + b
  BY <1>0, ComingSteps
<1>3. CASE q # "none"
  <2>1. Head(todo) = Do(q)
    BY <1>0, <1>3, Popped
  <2>2. Head(todo) \in Steps /\ Head(todo).op = q /\ (q = "closet" \/ q = "bed")
    BY <1>3, <2>1, StepsOf DEF Fronts, Ops
  <2> QED
    BY <1>1, <1>2, <1>3, <2>2 DEF Ahead, PlaceInv
<1>4. CASE q = "none" /\ r > 0
  <2>1. Head(todo) = Visiting(A, r) /\ Visited(A, r) \in Sides
    BY <1>0, <1>4, Popped DEF Visited, LastOf, Sides
  <2>2. /\ r = 1 => Visiting(A, r) = Do("turn")
        /\ r \in {2, 6} => Visiting(A, r) = Do("closetIfEntry")
        /\ r \in {3, 7} => Visiting(A, r) = On("homeIn", Visited(A, r))
        /\ r \in {4, 8} => Visiting(A, r) = On("door", Visited(A, r))
        /\ r \in {5, 9} => Visiting(A, r) = On("pan", Visited(A, r))
    BY DEF Visiting
  <2>3. /\ r = 1 => Head(todo) \in Steps /\ Head(todo).op = "turn"
        /\ r \in {2, 6} => Head(todo) \in Steps /\ Head(todo).op = "closetIfEntry"
        /\ r \in {3, 7} => Head(todo) \in Steps /\ Head(todo).op = "homeIn"
        /\ r \in {4, 8} => Head(todo) \in Steps /\ Head(todo).op = "door" /\ side = Visited(A, r)
        /\ r \in {5, 9} => Head(todo) \in Steps /\ Head(todo).op = "pan" /\ side = Visited(A, r)
    BY <2>1, <2>2, StepsOf DEF Ops, side
  <2>4. r = 1 \/ r \in {2, 6} \/ r \in {3, 7} \/ r \in {4, 8} \/ r \in {5, 9}
    BY <1>4
  <2>5. CASE r = 1
    BY <1>1, <1>2, <1>4, <2>3, <2>5 DEF Ahead
  <2>6. CASE r \in {2, 6}
    BY <1>1, <1>2, <1>4, <2>3, <2>6 DEF Ahead
  <2>7. CASE r \in {3, 7}
    BY <1>1, <1>2, <1>4, <2>3, <2>7 DEF Ahead
  <2>8. CASE r \in {4, 8}
    BY <1>1, <1>2, <1>4, <2>3, <2>8 DEF Ahead
  <2>9. CASE r \in {5, 9}
    BY <1>1, <1>2, <1>4, <2>3, <2>9 DEF Ahead
  <2> QED
    BY <2>4, <2>5, <2>6, <2>7, <2>8, <2>9
<1>5. CASE q = "none" /\ r = 0
  <2>1. Head(todo) = Cycle[13 - b] /\ b \in 1..12
    BY <1>0, <1>5, Popped DEF PlaceInv
  <2> DEFINE h == Head(todo)
  <2>2. CASE b = 12
    <3>1. h = On("pan", "L")
      BY <2>1, <2>2, CycleTable
    <3>2. h \in Steps /\ h.op = "pan" /\ h.side = "L"
      BY <3>1, StepsOf DEF Ops, Sides
    <3> QED
      BY <1>1, <1>2, <1>5, <2>2, <3>2 DEF Ahead, side
  <2>3. CASE b = 11
    <3>1. h = On("door", "L")
      BY <2>1, <2>3, CycleTable
    <3>2. h \in Steps /\ h.op = "door" /\ h.side = "L"
      BY <3>1, StepsOf DEF Ops, Sides
    <3> QED
      BY <1>1, <1>2, <1>5, <2>3, <3>2 DEF Ahead, side
  <2>4. CASE b = 10
    <3>1. h = On("home", "L")
      BY <2>1, <2>4, CycleTable
    <3>2. h \in Steps /\ h.op = "home" /\ h.side = "L"
      BY <3>1, StepsOf DEF Ops, Sides
    <3> QED
      BY <1>1, <1>2, <1>5, <2>4, <3>2 DEF Ahead, side
  <2>5. CASE b = 9
    <3>1. h = Do("bedIfDue")
      BY <2>1, <2>5, CycleTable
    <3>2. h \in Steps /\ h.op = "bedIfDue"
      BY <3>1, StepsOf DEF Ops, Sides
    <3> QED
      BY <1>1, <1>2, <1>5, <2>5, <3>2 DEF Ahead, side
  <2>6. CASE b = 8
    <3>1. h = Do("closetIfNeeded")
      BY <2>1, <2>6, CycleTable
    <3>2. h \in Steps /\ h.op = "closetIfNeeded"
      BY <3>1, StepsOf DEF Ops, Sides
    <3> QED
      BY <1>1, <1>2, <1>5, <2>6, <3>2 DEF Ahead, side
  <2>7. CASE b = 7
    <3>1. h = On("pan", "R")
      BY <2>1, <2>7, CycleTable
    <3>2. h \in Steps /\ h.op = "pan" /\ h.side = "R"
      BY <3>1, StepsOf DEF Ops, Sides
    <3> QED
      BY <1>1, <1>2, <1>5, <2>7, <3>2 DEF Ahead, side
  <2>8. CASE b = 6
    <3>1. h = On("door", "R")
      BY <2>1, <2>8, CycleTable
    <3>2. h \in Steps /\ h.op = "door" /\ h.side = "R"
      BY <3>1, StepsOf DEF Ops, Sides
    <3> QED
      BY <1>1, <1>2, <1>5, <2>8, <3>2 DEF Ahead, side
  <2>9. CASE b = 5
    <3>1. h = On("home", "R")
      BY <2>1, <2>9, CycleTable
    <3>2. h \in Steps /\ h.op = "home" /\ h.side = "R"
      BY <3>1, StepsOf DEF Ops, Sides
    <3> QED
      BY <1>1, <1>2, <1>5, <2>9, <3>2 DEF Ahead, side
  <2>10. CASE b = 4
    <3>1. h = Do("bedIfDueAndNoEntry")
      BY <2>1, <2>10, CycleTable
    <3>2. h \in Steps /\ h.op = "bedIfDueAndNoEntry"
      BY <3>1, StepsOf DEF Ops, Sides
    <3> QED
      BY <1>1, <1>2, <1>5, <2>10, <3>2 DEF Ahead, side
  <2>11. CASE b = 3
    <3>1. h = Do("closet")
      BY <2>1, <2>11, CycleTable
    <3>2. h \in Steps /\ h.op = "closet"
      BY <3>1, StepsOf DEF Ops, Sides
    <3> QED
      BY <1>1, <1>2, <1>5, <2>11, <3>2 DEF Ahead, side
  <2>12. CASE b = 2
    <3>1. h = Do("bed")
      BY <2>1, <2>12, CycleTable
    <3>2. h \in Steps /\ h.op = "bed"
      BY <3>1, StepsOf DEF Ops, Sides
    <3> QED
      BY <1>1, <1>2, <1>5, <2>12, <3>2 DEF Ahead, side
  <2>13. CASE b = 1
    <3>1. h = Do("cycle")
      BY <2>1, <2>13, CycleTable
    <3>2. h \in Steps /\ h.op = "cycle"
      BY <3>1, StepsOf DEF Ops, Sides
    <3> QED
      BY <1>1, <1>2, <1>5, <2>13, <3>2 DEF Ahead, side
  <2> QED
    BY <2>1, <2>2, <2>3, <2>4, <2>5, <2>6, <2>7, <2>8, <2>9, <2>10, <2>11, <2>12, <2>13
<1> QED
  BY <1>3, <1>4, <1>5

LEMMA Longest ==
  ASSUME LoopAssumption
  PROVE  /\ Hold \in Nat /\ \A d \in DoorTimes : d \in Nat /\ 1 <= d /\ d <= Hold
         /\ Inside \in Nat /\ \A d \in ClosetTimes : d \in Nat /\ 1 <= d /\ d <= Inside
         /\ Slack \in Nat /\ FRESH \in Nat /\ FRESH <= Slack /\ 1 + Inside <= Slack
         /\ Episode \in Nat /\ Episode = Hold + 1 + Inside /\ ClearCap \in Nat /\ Episode <= ClearCap
         /\ BED_EVERY \in Nat /\ CLOSET_EVERY \in Nat
<1>1. ASSUME NEW T, T \subseteq Nat \ {0}, \E n \in T : \A m \in T : m <= n
      PROVE  Largest(T) \in Nat /\ \A d \in T : d \in Nat /\ 1 <= d /\ d <= Largest(T)
  <2>1. Largest(T) \in T /\ \A d \in T : d <= Largest(T)
    BY <1>1 DEF Largest
  <2>2. ASSUME NEW d \in T PROVE d \in Nat /\ 1 <= d /\ d <= Largest(T)
    <3>1. d \in Nat \ {0}
      BY <1>1
    <3> QED
      BY <2>1, <3>1
  <2> QED
    BY <2>1, <2>2
<1>2. Hold \in Nat /\ \A d \in DoorTimes : d \in Nat /\ 1 <= d /\ d <= Hold
  BY <1>1 DEF LoopAssumption, Hold
<1>3. Inside \in Nat /\ \A d \in ClosetTimes : d \in Nat /\ 1 <= d /\ d <= Inside
  BY <1>1 DEF LoopAssumption, Inside
<1>4. FRESH \in Nat \ {0} /\ BED_EVERY \in Nat /\ CLOSET_EVERY \in Nat
  BY DEF LoopAssumption
<1>5. Slack \in Nat /\ FRESH <= Slack /\ 1 + Inside <= Slack
  <2> DEFINE T == {FRESH, 1 + Inside}
  <2>1. T \subseteq Nat \ {0} /\ \E n \in T : \A m \in T : m <= n
    <3>1. CASE FRESH <= 1 + Inside
      BY <1>3, <1>4, <3>1
    <3>2. CASE 1 + Inside <= FRESH
      BY <1>3, <1>4, <3>2
    <3> QED
      BY <1>3, <1>4, <3>1, <3>2
  <2>2. Largest(T) \in Nat /\ \A d \in T : d \in Nat /\ 1 <= d /\ d <= Largest(T)
    BY <1>1, <2>1
  <2> QED
    BY <2>2 DEF Slack
<1>6. Episode = Hold + 1 + Inside /\ ClearCap = FRESH + 2 * Episode
  BY DEF Episode, ClearCap, Hold, Inside
<1> QED
  BY <1>2, <1>3, <1>4, <1>5, <1>6

(* Time passing makes a hall later by that much and no more.               *)
LEMMA Aged ==
  ASSUME LoopAssumption, LoopTypes, NEW d \in Nat, clear' = clearAfter(d)
  PROVE  /\ clear' \in [Sides -> 0..ClearCap]
         /\ unresolved \subseteq unresolved' => \A s \in Sides, n \in Nat : Late(s, n) => Late(s, n + d)'
<1>1. ClearCap \in Nat
  BY Longest
<1>2. clear' \in [Sides -> 0..ClearCap]
  BY <1>1 DEF clearAfter, Upto, LoopTypes
<1>3. ASSUME unresolved \subseteq unresolved', NEW s \in Sides, NEW n \in Nat, Late(s, n)
      PROVE  Late(s, n + d)'
  <2>1. CASE s \in unresolved
    BY <1>3, <2>1 DEF Late
  <2>2. CASE clear[s] <= n
    <3>1. clear'[s] <= clear[s] + d /\ clear[s] \in Nat /\ clear'[s] \in Nat
      BY <1>1 DEF clearAfter, Upto, LoopTypes
    <3> QED
      BY <1>3, <2>2, <3>1 DEF Late
  <2> QED
    BY <1>3, <2>1, <2>2 DEF Late
<1> QED
  BY <1>2, <1>3

LEMMA TypesBegin == ASSUME LoopAssumption, LoopInit PROVE LoopInv
<1>1. LoopTypes
  <2>1. clear \in [Sides -> 0..ClearCap] /\ bedAge \in 0..(BED_EVERY + 1) /\ closetAge \in 0..(CLOSET_EVERY + 1)
    BY Longest DEF LoopInit
  <2>2. todo \in Seq(Steps)
    BY CycleSteps DEF LoopInit
  <2> QED
    BY <2>1, <2>2 DEF LoopInit, LoopTypes, ROOM_VIEWS
<1>2. todo = Coming("none", {}, 0, 12)
  BY CycleComes DEF LoopInit
<1>3. 0 <= Height({}) /\ {} \in SUBSET Sides /\ "none" \in Fronts
  BY VisitsSteps DEF Fronts
<1>4. Placed("none", {}, 0, 12)
  BY <1>2 DEF Placed, PlaceInv, StandInv, KnownInv, ClearInv, LoopInit
<1> QED
  BY <1>1, <1>3, <1>4 DEF LoopInv, SomePlace

LEMMA TypesKept == ASSUME LoopAssumption, LoopInv, [LoopNext]_loopVars PROVE LoopTypes'
<1> USE DEF LoopInv
<1>1. todo \in Seq(Steps) /\ (todo # <<>> => Tail(todo) \in Seq(Steps) /\ Head(todo) \in Steps /\ side \in Sides)
  <2>1. todo # <<>> => Tail(todo) \in Seq(Steps) /\ Head(todo) \in Steps
    BY HeadTailProperties DEF LoopTypes
  <2> QED
    BY <2>1 DEF LoopTypes, Steps, side
<1>2. ASSUME NEW u \in Seq(Steps), Then(u), todo # <<>> PROVE todo' \in Seq(Steps)
  BY <1>1, <1>2, ConcatProperties DEF Then
<1>3. /\ <<>> \in Seq(Steps) /\ <<Do("closet")>> \in Seq(Steps) /\ <<Do("bed")>> \in Seq(Steps)
      /\ Visit("L") \o Visit("R") \o <<Do("turn")>> \in Seq(Steps)
  <2>1. Do("closet") \in Steps /\ Do("bed") \in Steps
    BY StepsOf DEF Ops
  <2>2. Stale \in SUBSET Sides /\ Visit("L") \o Visit("R") \o <<Do("turn")>> = VisitsTo(Stale)
    BY DEF Stale, VisitsTo, Visit, Called
  <2>3. <<>> \in Seq(Steps) /\ <<Do("closet")>> \in Seq(Steps) /\ <<Do("bed")>> \in Seq(Steps)
    BY <2>1
  <2>4. VisitsTo(Stale) \in Seq(Steps)
    BY <2>2, VisitsSteps
  <2> QED
    BY <2>2, <2>3, <2>4
<1>4. /\ clearAfter(1) \in [Sides -> 0..ClearCap] /\ bedAfter(1) \in 0..(BED_EVERY + 1)
      /\ closetAfter(1) \in 0..(CLOSET_EVERY + 1)
      /\ \A d \in DoorTimes \union ClosetTimes :
           /\ clearAfter(d) \in [Sides -> 0..ClearCap] /\ bedAfter(d) \in 0..(BED_EVERY + 1)
           /\ closetAfter(d) \in 0..(CLOSET_EVERY + 1) /\ Upto(CLOSET_EVERY + 1, d) \in 0..(CLOSET_EVERY + 1)
  <2>1. \A d \in Nat, cap \in Nat : Upto(cap, d) \in 0..cap
    BY DEF Upto
  <2>2. ASSUME NEW d \in Nat
        PROVE  /\ clearAfter(d) \in [Sides -> 0..ClearCap] /\ bedAfter(d) \in 0..(BED_EVERY + 1)
               /\ closetAfter(d) \in 0..(CLOSET_EVERY + 1) /\ Upto(CLOSET_EVERY + 1, d) \in 0..(CLOSET_EVERY + 1)
    <3>1. clear \in [Sides -> 0..ClearCap] /\ bedAge \in Nat /\ closetAge \in Nat
      BY Longest DEF LoopTypes
    <3>2. ClearCap \in Nat /\ BED_EVERY + 1 \in Nat /\ CLOSET_EVERY + 1 \in Nat
      BY Longest
    <3>3. \A s \in Sides : clear[s] + d \in Nat
      BY <3>1, <3>2
    <3>4. bedAge + d \in Nat /\ closetAge + d \in Nat
      BY <3>1
    <3> QED
      BY <2>1, <3>2, <3>3, <3>4 DEF clearAfter, bedAfter, closetAfter
  <2>3. 1 \in Nat /\ \A d \in DoorTimes \union ClosetTimes : d \in Nat
    BY Longest
  <2> QED
    BY <2>2, <2>3
<1>5. CASE UNCHANGED loopVars
  BY <1>5 DEF loopVars, ages, foxy, LoopTypes
<1>6. CASE NightOver
  BY <1>6 DEF NightOver, ages, foxy, LoopTypes
<1>7. CASE ViewLost
  BY <1>3, <1>7 DEF ViewLost, ages, foxy, LoopTypes
<1>8. CASE NewCycle
  BY <1>3, <1>8, CycleSteps DEF NewCycle, ages, foxy, LoopTypes
<1>9. CASE Pan
  <2>1. todo' \in Seq(Steps)
    BY <1>2, <1>3, <1>9 DEF Pan, Ahead
  <2>2. where' \in ROOM_VIEWS
    BY <1>1, <1>9 DEF Pan, Ahead, RoomOf, Sides, ROOM_VIEWS
  <2> QED
    BY <1>9, <2>1, <2>2 DEF Pan, ages, foxy, LoopTypes
<1>10. CASE Door
  <2>1. todo' \in Seq(Steps)
    BY <1>2, <1>3, <1>10 DEF Door, Ahead
  <2>2. where' \in {"doorL", "doorR"} /\ side \in Sides
    BY <1>1, <1>10 DEF Door, Ahead, DoorOf, Sides
  <2>3. clear' \in [Sides -> 0..ClearCap] /\ unresolved' \subseteq Sides
    <3>1. PICK d \in DoorTimes :
            \/ clear' = [clearAfter(d) EXCEPT ![side] = 0] /\ unresolved' = unresolved \ {side}
            \/ clear' = clearAfter(d) /\ unresolved' = unresolved \union {side}
      BY <1>10 DEF Door
    <3>2. clearAfter(d) \in [Sides -> 0..ClearCap]
      BY <1>4
    <3>3. unresolved' \subseteq Sides
      BY <2>2, <3>1 DEF LoopTypes
    <3> QED
      BY <3>1, <3>2, <3>3, Longest
  <2>4. bedAge' \in 0..(BED_EVERY + 1) /\ closetAge' \in 0..(CLOSET_EVERY + 1)
    BY <1>4, <1>10 DEF Door
  <2> QED
    BY <1>10, <2>1, <2>2, <2>3, <2>4 DEF Door, foxy, LoopTypes
<1>11. CASE Home
  <2>1. todo' \in Seq(Steps)
    BY <1>2, <1>3, <1>11 DEF Home, Ahead
  <2>2. where' \in ROOM_VIEWS /\ {foxyInside, ret, entry, known}' \subseteq BOOLEAN
    BY <1>1, <1>11 DEF Home, Ahead, RoomOf, Sides, ROOM_VIEWS, LoopTypes
  <2>3. clear' \in [Sides -> 0..ClearCap] /\ bedAge' \in 0..(BED_EVERY + 1) /\ closetAge' \in 0..(CLOSET_EVERY + 1)
    BY <1>4, <1>11 DEF Home
  <2> QED
    BY <1>11, <2>1, <2>2, <2>3 DEF Home, LoopTypes
<1>12. CASE BedIfDue
  <2>1. todo' \in Seq(Steps)
    BY <1>2, <1>3, <1>12 DEF BedIfDue, Ahead
  <2> QED
    BY <1>12, <2>1 DEF BedIfDue, ages, foxy, LoopTypes
<1>13. CASE ClosetIfNeeded
  <2>1. todo' \in Seq(Steps)
    BY <1>2, <1>3, <1>13 DEF ClosetIfNeeded, Ahead
  <2> QED
    BY <1>13, <2>1 DEF ClosetIfNeeded, ages, foxy, LoopTypes
<1>14. CASE Closet
  <2>1. todo' \in Seq(Steps)
    BY <1>2, <1>3, <1>14 DEF Closet, Ahead
  <2>2. clear' \in [Sides -> 0..ClearCap] /\ bedAge' \in 0..(BED_EVERY + 1) /\ closetAge' \in 0..(CLOSET_EVERY + 1)
    BY <1>4, <1>14 DEF Closet
  <2> QED
    BY <1>14, <2>1, <2>2 DEF Closet, ROOM_VIEWS, LoopTypes
<1>15. CASE Bed
  <2>1. todo' \in Seq(Steps)
    BY <1>2, <1>3, <1>15 DEF Bed, Ahead
  <2> QED
    BY <1>15, <2>1 DEF Bed, ages, foxy, LoopTypes
<1>16. CASE Turn
  <2>1. todo' \in Seq(Steps)
    BY <1>2, <1>3, <1>16 DEF Turn, Ahead
  <2>2. bedAge' \in 0..(BED_EVERY + 1)
    BY <1>16, Longest DEF Turn
  <2> QED
    BY <1>4, <1>16, <2>1, <2>2 DEF Turn, foxy, LoopTypes
<1>17. CASE SkipTurn
  <2>1. todo' \in Seq(Steps)
    BY <1>2, <1>3, <1>17 DEF SkipTurn, Ahead
  <2> QED
    BY <1>17, <2>1 DEF SkipTurn, ages, foxy, LoopTypes
<1> QED
  BY <1>5, <1>6, <1>7, <1>8, <1>9, <1>10, <1>11, <1>12, <1>13, <1>14, <1>15, <1>16, <1>17 DEF LoopNext, LoopStep

LEMMA Onward ==
  ASSUME NEW q \in Fronts, NEW A \in SUBSET Sides, NEW r \in 0..9, NEW b \in 0..12, r <= Height(A),
         todo = Coming(q, A, r, b), PlaceInv(q, r, b)
  PROVE  /\ Then(<<>>) => todo' = Rest(q, A, r, b)
         /\ \A x \in {"closet", "bed"} :
              /\ q = "none" /\ r > 0 /\ Then(<<Do(x)>>) => todo' = Coming(x, A, r - 1, b)
              /\ q = "none" /\ r = 0 /\ Then(<<Do(x)>>) => todo' = Coming(x, A, 0, b - 1)
         /\ \A B \in SUBSET Sides : r = 0 /\ Then(VisitsTo(B))
                                  => todo' = Coming("none", B, Height(B), IF q = "none" THEN b - 1 ELSE b)
<1>1. r \in 0..Height(A) /\ 0 \in 0..Height(A) /\ Tail(todo) = Rest(q, A, r, b) /\ "none" \in Fronts
  <2>1. Height(A) \in 1..9
    BY VisitsSteps
  <2>2. Tail(todo) = Rest(q, A, r, b)
    BY Looking
  <2> QED
    BY <2>1, <2>2 DEF Fronts
<1>2. CASE q # "none"
  <2>1. Tail(todo) = Coming("none", A, r, b)
    BY <1>1, <1>2 DEF Rest
  <2>2. Then(<<>>) => todo' = Tail(todo)
    BY <1>1, <2>1, Pushed DEF Then
  <2>3. \A B \in SUBSET Sides : r = 0 /\ Then(VisitsTo(B)) => todo' = Coming("none", B, Height(B), b)
    BY <1>1, <2>1, Pushed DEF Then
  <2> QED
    BY <1>1, <1>2, <2>2, <2>3
<1>3. CASE q = "none" /\ r > 0
  <2>1. Tail(todo) = Coming("none", A, r - 1, b) /\ r - 1 \in 0..Height(A)
    BY <1>1, <1>3, VisitsSteps DEF Rest
  <2>2. Then(<<>>) => todo' = Tail(todo)
    BY <2>1, Pushed DEF Then
  <2>3. \A x \in {"closet", "bed"} : Then(<<Do(x)>>) => todo' = Coming(x, A, r - 1, b)
    BY <2>1, Pushed DEF Then
  <2>4. r # 0
    BY <1>3
  <2> QED
    BY <1>1, <1>3, <2>2, <2>3, <2>4, Zenon
<1>4. CASE q = "none" /\ r = 0
  <2>1. Tail(todo) = Coming("none", A, 0, b - 1) /\ b - 1 \in 0..12
    BY <1>1, <1>4 DEF Rest, PlaceInv
  <2>2. Then(<<>>) => todo' = Tail(todo)
    BY <1>1, <2>1, Pushed DEF Then
  <2>3. ASSUME NEW x \in {"closet", "bed"}, Then(<<Do(x)>>) PROVE todo' = Coming(x, A, 0, b - 1)
    <3>1. <<Do(x)>> \o Coming("none", A, 0, b - 1) = Coming(x, A, 0, b - 1)
      BY <1>1, <2>1, Pushed
    <3> QED
      BY <2>1, <2>3, <3>1 DEF Then
  <2>4. ASSUME NEW B \in SUBSET Sides, Then(VisitsTo(B)) PROVE todo' = Coming("none", B, Height(B), b - 1)
    <3>1. VisitsTo(B) \o Coming("none", A, 0, b - 1) = Coming("none", B, Height(B), b - 1)
      BY <1>1, <2>1, Pushed
    <3> QED
      BY <2>1, <2>4, <3>1 DEF Then
  <2>5. ~(r > 0)
    BY <1>4
  <2> QED
    BY <1>1, <1>4, <2>2, <2>3, <2>4, <2>5, Zenon
<1> QED
  BY <1>2, <1>3, <1>4

LEMMA Found ==
  ASSUME NEW q \in Fronts, NEW A \in SUBSET Sides, NEW r \in 0..9, NEW b \in 0..12, r <= Height(A),
         Placed(q, A, r, b)'
  PROVE  SomePlace'
BY DEF SomePlace

(* A hall no later than n is no later than more.                           *)
LEMMA Later ==
  ASSUME LoopTypes, NEW s \in Sides, NEW n \in Nat, NEW m \in Nat, n <= m, Late(s, n)
  PROVE  Late(s, m)
<1>1. clear[s] \in Int
  BY DEF LoopTypes
<1> QED
  BY <1>1 DEF Late

LEMMA LaterNext ==
  ASSUME LoopTypes', NEW s \in Sides, NEW n \in Nat, NEW m \in Nat, n <= m, Late(s, n)'
  PROVE  Late(s, m)'
<1>1. clear'[s] \in Int
  BY Longest DEF LoopTypes
<1> QED
  BY <1>1 DEF Late

(* What does not touch the halls leaves them as late as they were.         *)
LEMMA Unaged ==
  ASSUME UNCHANGED <<ages, unresolved>>
  PROVE  \A s, n : Late(s, n) <=> Late(s, n)'
BY DEF Late, ages

LEMMA Heights ==
  ASSUME NEW A \in SUBSET Sides
  PROVE  /\ LastOf(A) \in Sides /\ Height(A) \in 1..9
         /\ \A r \in 0..Height(A) : (r > 1 => A # {}) /\ (r > 5 => A = Sides /\ LastOf(A) = "R")
         /\ A # {} /\ A # Sides => A = {LastOf(A)} /\ Height(A) = 5
         /\ A = {} => Height(A) = 1
         /\ A = Sides => Height(A) = 9 /\ LastOf(A) = "R"
         /\ \A r \in 0..9 : Visited(A, r) = IF r < 6 THEN LastOf(A) ELSE "L"
<1>1. A = {} \/ A = {"L"} \/ A = {"R"} \/ A = Sides
  BY DEF Sides
<1>2. A # {} /\ A # Sides => A = {LastOf(A)} /\ Height(A) = 5
  BY <1>1 DEF Height, LastOf, Sides
<1>3. A = {} => Height(A) = 1
  BY DEF Height, Sides
<1>4. A = Sides => Height(A) = 9 /\ LastOf(A) = "R" /\ A # {}
  BY DEF Height, LastOf, Sides
<1>5. LastOf(A) \in Sides /\ \A r \in 0..9 : Visited(A, r) = IF r < 6 THEN LastOf(A) ELSE "L"
  BY DEF LastOf, Visited, Sides
<1> QED
  BY <1>1, <1>2, <1>3, <1>4, <1>5

LEMMA PanPlaced ==
  ASSUME NEW q \in Fronts, NEW A \in SUBSET Sides, NEW r \in 0..9, NEW b \in 0..12, r <= Height(A),
         LoopAssumption, LoopTypes, Placed(q, A, r, b), Pan
  PROVE  SomePlace'
<1>1. Ahead("pan") /\ Then(<<>>) /\ where' = RoomOf[side] /\ UNCHANGED <<ages, unresolved, foxy>>
  BY DEF Pan
<1>2. todo' = Rest(q, A, r, b) /\ q = "none"
  BY <1>1, Onward, Looking DEF Placed
<1>3. \A s, n : Late(s, n) <=> Late(s, n)'
  BY <1>1, Unaged
<1>4. CASE r \in {5, 9}
  <2>1. side = Visited(A, r) /\ Visited(A, r) = Visited(A, r - 1)
    BY <1>1, <1>4, Looking DEF Placed, Visited
  <2>2. Placed("none", A, r - 1, b)'
    <3>1. (todo = Coming("none", A, r - 1, b))'
      BY <1>2, <1>4 DEF Rest
    <3>2. PlaceInv("none", r - 1, b)' /\ KnownInv("none", r - 1, b)'
      BY <1>1, <1>2, <1>4 DEF Placed, PlaceInv, KnownInv, foxy
    <3>3. StandInv("none", A, r - 1, b)'
      BY <1>1, <1>4, <2>1 DEF StandInv
    <3>4. ClearInv("none", A, r - 1)'
      BY <1>2, <1>3, <1>4 DEF Placed, ClearInv, Spent
    <3> QED
      BY <3>1, <3>2, <3>3, <3>4 DEF Placed
  <2> QED
    BY <1>2, <1>4, <2>2, Heights, Found
<1>5. CASE r = 0
  <2>1. (b = 12 /\ side = "L") \/ (b = 7 /\ side = "R")
    BY <1>1, <1>5, Looking DEF Placed
  <2>2. Placed("none", A, 0, b - 1)'
    <3>1. (todo = Coming("none", A, 0, b - 1))'
      BY <1>2, <1>5 DEF Rest
    <3>2. PlaceInv("none", 0, b - 1)' /\ KnownInv("none", 0, b - 1)'
      BY <1>1, <1>2, <1>5, <2>1 DEF Placed, PlaceInv, KnownInv, foxy
    <3>3. StandInv("none", A, 0, b - 1)'
      BY <1>1, <2>1 DEF StandInv, RoomOf
    <3>4. ClearInv("none", A, 0)'
      BY DEF ClearInv
    <3> QED
      BY <3>1, <3>2, <3>3, <3>4 DEF Placed
  <2> QED
    BY <1>2, <2>1, <2>2, Heights, Found
<1> QED
  BY <1>1, <1>4, <1>5, Looking DEF Placed

LEMMA DoorPlaced ==
  ASSUME NEW q \in Fronts, NEW A \in SUBSET Sides, NEW r \in 0..9, NEW b \in 0..12, r <= Height(A),
         LoopAssumption, LoopTypes, LoopTypes', Placed(q, A, r, b), Door
  PROVE  SomePlace'
<1>1. Ahead("door") /\ Then(<<>>) /\ UNCHANGED foxy
  BY DEF Door
<1>2. todo' = Rest(q, A, r, b) /\ q = "none"
  BY <1>1, Onward, Looking DEF Placed
<1>3. CASE r \in {4, 8}
  <2>1. PICK x \in Sides : x = side /\ (r = 4 => x = LastOf(A)) /\ (r = 8 => x = "L")
    BY <1>1, <1>3, Looking, Heights DEF Placed, Sides
  <2>2. PICK d \in DoorTimes :
          \/ clear' = [clearAfter(d) EXCEPT ![x] = 0] /\ unresolved' = unresolved \ {x}
          \/ clear' = clearAfter(d) /\ unresolved' = unresolved \union {x}
    BY <2>1 DEF Door
  <2>3. Late(x, 0)'
    <3>1. CASE clear' = [clearAfter(d) EXCEPT ![x] = 0] /\ unresolved' = unresolved \ {x}
      <4>1. clear'[x] = 0
        BY <2>1, <3>1 DEF clearAfter
      <4> QED
        BY <4>1 DEF Late
    <3>2. CASE clear' = clearAfter(d) /\ unresolved' = unresolved \union {x}
      BY <3>2 DEF Late
    <3> QED
      BY <2>2, <3>1, <3>2
  <2>4. ASSUME NEW s \in Sides, s # x, Late(s, Slack) PROVE Late(s, Slack + Hold)'
    <3>1. d \in Nat /\ d <= Hold /\ Hold \in Nat /\ Slack \in Nat /\ ClearCap \in Nat
      BY Longest
    <3>2. clear'[s] = Upto(ClearCap, clear[s] + d) /\ clear[s] \in Nat
      <4>1. clear'[s] = clearAfter(d)[s]
        BY <2>2, <2>4 DEF clearAfter
      <4>2. clear[s] \in Nat
        BY <3>1 DEF LoopTypes
      <4> QED
        BY <4>1, <4>2 DEF clearAfter
    <3>3. s \in unresolved => s \in unresolved'
      BY <2>2, <2>4
    <3>4. clear'[s] <= clear[s] + d
      BY <3>1, <3>2 DEF Upto
    <3>5. clear'[s] \in Nat
      BY <3>1 DEF LoopTypes
    <3> QED
      BY <2>4, <3>1, <3>2, <3>3, <3>4, <3>5 DEF Late
  <2>5. Placed("none", A, r - 1, b)'
    <3>1. (todo = Coming("none", A, r - 1, b))'
      BY <1>2, <1>3 DEF Rest
    <3>2. PlaceInv("none", r - 1, b)' /\ KnownInv("none", r - 1, b)'
      BY <1>1, <1>2, <1>3 DEF Placed, PlaceInv, KnownInv, foxy
    <3>3. StandInv("none", A, r - 1, b)'
      BY <1>3 DEF StandInv
    <3>4. r = 4 => \A s \in Sides \ {LastOf(A)} : Late(s, Slack + Hold)'
      <4>1. r = 4 => \A s \in Sides \ {LastOf(A)} : Late(s, Slack + 0)
        BY DEF Placed, ClearInv, Spent
      <4>2. Slack + 0 = Slack
        BY Longest
      <4> QED
        BY <2>1, <2>4, <4>1, <4>2
    <3>5. ClearInv("none", A, r - 1)'
      <4>1. CASE r = 4
        BY <2>1, <2>3, <3>4, <4>1 DEF ClearInv, Spent
      <4>2. CASE r = 8
        BY <2>1, <2>3, <4>2 DEF ClearInv
      <4> QED
        BY <1>3, <4>1, <4>2
    <3> QED
      BY <3>1, <3>2, <3>3, <3>5 DEF Placed
  <2> QED
    BY <1>3, <2>5, Heights, Found DEF Fronts
<1>4. CASE r = 0
  <2>1. b \in {11, 6}
    BY <1>1, <1>4, Looking DEF Placed
  <2>2. Placed("none", A, 0, b - 1)'
    <3>1. (todo = Coming("none", A, 0, b - 1))'
      BY <1>2, <1>4 DEF Rest
    <3>2. PlaceInv("none", 0, b - 1)' /\ KnownInv("none", 0, b - 1)'
      BY <1>1, <1>2, <1>4, <2>1 DEF Placed, PlaceInv, KnownInv, foxy
    <3>3. StandInv("none", A, 0, b - 1)' /\ ClearInv("none", A, 0)'
      BY <2>1 DEF StandInv, ClearInv
    <3> QED
      BY <3>1, <3>2, <3>3 DEF Placed
  <2> QED
    BY <1>4, <2>1, <2>2, Heights, Found DEF Fronts
<1> QED
  BY <1>1, <1>3, <1>4, Looking DEF Placed

LEMMA HomePlaced ==
  ASSUME NEW q \in Fronts, NEW A \in SUBSET Sides, NEW r \in 0..9, NEW b \in 0..12, r <= Height(A),
         LoopAssumption, LoopTypes, LoopTypes', Placed(q, A, r, b), Home
  PROVE  SomePlace'
<1>1. Then(<<>>) /\ clear' = clearAfter(1) /\ UNCHANGED unresolved
  BY DEF Home
<1>2. (Ahead("home") /\ r = 0 /\ b \in {10, 5}) \/ (Ahead("homeIn") /\ ~Ahead("home") /\ r \in {3, 7})
  BY Looking DEF Placed, Home, Ahead
<1>3. todo' = Rest(q, A, r, b) /\ q = "none"
  BY <1>1, <1>2, Onward, Looking DEF Placed
<1>4. PICK ran, open \in BOOLEAN :
        /\ foxyInside' = (foxyInside \/ open) /\ known' = (known \/ ran \/ open)
        /\ IF Ahead("home") THEN ret' = ran /\ UNCHANGED entry ELSE entry' = ran /\ UNCHANGED ret
  BY DEF Home
<1>5. CASE Ahead("home") /\ r = 0 /\ b \in {10, 5}
  <2>1. ret' = ran
    BY <1>4, <1>5
  <2>2. Placed("none", A, 0, b - 1)'
    <3>1. (todo = Coming("none", A, 0, b - 1))'
      BY <1>3, <1>5 DEF Rest
    <3>2. PlaceInv("none", 0, b - 1)'
      BY <1>5 DEF PlaceInv
    <3>3. KnownInv("none", 0, b - 1)'
      <4>1. known => foxyInside
        BY <1>3, <1>5 DEF Placed, KnownInv
      <4>2. known' => ret' \/ foxyInside'
        BY <1>4, <2>1, <4>1
      <4> QED
        BY <1>5, <4>2 DEF KnownInv
    <3>4. StandInv("none", A, 0, b - 1)' /\ ClearInv("none", A, 0)'
      BY <1>5 DEF StandInv, ClearInv
    <3> QED
      BY <3>1, <3>2, <3>3, <3>4 DEF Placed
  <2> QED
    BY <1>5, <2>2, Heights, Found DEF Fronts
<1>6. CASE Ahead("homeIn") /\ ~Ahead("home") /\ r \in {3, 7}
  <2>1. entry' = ran /\ ret' = ret
    BY <1>4, <1>6
  <2>2. \A s \in Sides, n \in Nat : Late(s, n) => Late(s, n + 1)'
    BY <1>1, Aged
  <2>3. Placed("none", A, r - 1, b)'
    <3>1. (todo = Coming("none", A, r - 1, b))'
      BY <1>3, <1>6 DEF Rest
    <3>2. PlaceInv("none", r - 1, b)'
      BY <1>6 DEF Placed, PlaceInv
    <3>3. KnownInv("none", r - 1, b)'
      <4>1. /\ b = 8 /\ known => ret \/ foxyInside
            /\ b = 1 /\ known => foxyInside
        BY <1>3, <1>6 DEF Placed, KnownInv
      <4>2. /\ b = 8 /\ known' => ret' \/ foxyInside' \/ entry'
            /\ b = 1 /\ known' => foxyInside' \/ entry'
        BY <1>4, <2>1, <4>1
      <4> QED
        BY <1>6, <4>2 DEF KnownInv
    <3>4. StandInv("none", A, r - 1, b)'
      BY <1>6 DEF StandInv
    <3>5. ClearInv("none", A, r - 1)'
      <4>1. CASE r = 3
        <5>1. Late(LastOf(A), 0) /\ A # {} /\ LastOf(A) \in Sides
              /\ \A s \in Sides \ {LastOf(A)} : Late(s, Slack + Hold)
          BY <4>1, Heights DEF Placed, ClearInv, Spent
        <5>2. Slack + Hold \in Nat /\ Slack + Hold + 1 = Slack + (Hold + 1) /\ 0 + 1 = 1
          BY Longest
        <5>3. Late(LastOf(A), 1)' /\ \A s \in Sides \ {LastOf(A)} : Late(s, Slack + (Hold + 1))'
          BY <2>2, <5>1, <5>2
        <5> QED
          BY <4>1, <5>1, <5>3 DEF ClearInv, Spent
      <4>2. CASE r = 7
        <5>1. Late("L", 0) /\ A = Sides /\ "L" \in Sides /\ 0 + 1 = 1
          BY <4>2, Heights DEF Placed, ClearInv, Sides
        <5>2. Late("L", 1)'
          BY <2>2, <5>1
        <5> QED
          BY <4>2, <5>1, <5>2 DEF ClearInv
      <4> QED
        BY <1>6, <4>1, <4>2
    <3> QED
      BY <3>1, <3>2, <3>3, <3>4, <3>5 DEF Placed
  <2> QED
    BY <1>6, <2>3, Heights, Found DEF Fronts
<1> QED
  BY <1>2, <1>5, <1>6

LEMMA ClosetPlaced ==
  ASSUME NEW q \in Fronts, NEW A \in SUBSET Sides, NEW r \in 0..9, NEW b \in 0..12, r <= Height(A),
         LoopAssumption, LoopTypes, LoopTypes', Placed(q, A, r, b), Closet
  PROVE  SomePlace'
<1>1. Ahead("closet") /\ Then(<<>>) /\ known' = FALSE /\ UNCHANGED unresolved
  BY DEF Closet
<1>2. todo' = Rest(q, A, r, b) /\ (q = "closet" \/ (q = "none" /\ r = 0 /\ b = 3))
  BY <1>1, Onward, Looking DEF Placed
<1>3. PICK d \in ClosetTimes : clear' = clearAfter(d)
  BY DEF Closet
<1>4. d \in Nat /\ d <= Inside /\ Inside \in Nat /\ Slack \in Nat /\ Hold \in Nat /\ 1 + Inside <= Slack
      /\ Episode = Hold + 1 + Inside
  BY Longest
<1>5. \A s \in Sides, n \in Nat : Late(s, n) => Late(s, n + d)'
  BY <1>1, <1>3, <1>4, Aged
<1>6. \A s \in Sides, n \in Nat, m \in Nat : Late(s, n) /\ n + d <= m => Late(s, m)'
  <2> SUFFICES ASSUME NEW s \in Sides, NEW n \in Nat, NEW m \in Nat, Late(s, n), n + d <= m PROVE Late(s, m)'
    OBVIOUS
  <2>1. n + d \in Nat
    BY <1>4
  <2> QED
    BY <1>5, <2>1, LaterNext
<1>7. \A n \in 0..12, k \in 0..9 : KnownInv("none", k, n)'
  BY <1>1 DEF KnownInv
<1>8. CASE q = "closet"
  <2>1. Placed("none", A, r, b)'
    <3>1. (todo = Coming("none", A, r, b))'
      BY <1>2, <1>8 DEF Rest
    <3>2. PlaceInv("none", r, b)' /\ StandInv("none", A, r, b)'
      BY <1>8 DEF Placed, PlaceInv, StandInv
    <3>3. ClearInv("none", A, r)'
      <4>1. CASE r = 0
        BY <4>1 DEF ClearInv
      <4>2. CASE r = 1
        <5>1. A # {} /\ Late(LastOf(A), 1) /\ LastOf(A) \in Sides
              /\ \A s \in Sides \ {LastOf(A)} : Late(s, Slack + (Hold + 1))
          BY <1>8, <4>2, Heights DEF Placed, ClearInv, Spent
        <5>2. Late(LastOf(A), 1 + Inside)'
          <6>1. 1 + Inside \in Nat /\ 1 + d <= 1 + Inside
            BY <1>4
          <6> QED
            BY <1>6, <5>1, <6>1
        <5>3. \A s \in Sides \ {LastOf(A)} : Late(s, Slack + Episode)'
          <6>1. Slack + (Hold + 1) \in Nat /\ Slack + Episode \in Nat /\ Slack + (Hold + 1) + d <= Slack + Episode
            BY <1>4
          <6> QED
            BY <1>6, <5>1, <6>1
        <5> QED
          BY <4>2, <5>1, <5>2, <5>3 DEF ClearInv, Spent
      <4>3. CASE r = 5
        <5>1. A = Sides /\ LastOf(A) = "R" /\ Late("L", 1) /\ "L" \in Sides
          BY <1>8, <4>3, Heights DEF Placed, ClearInv, Sides
        <5>2. Late("L", Slack)'
          <6>1. 1 + d <= Slack
            BY <1>4
          <6> QED
            BY <1>4, <1>6, <5>1, <6>1
        <5>3. Slack + 0 = Slack /\ \A s \in Sides \ {LastOf(A)} : s = "L"
          BY <1>4, <5>1 DEF Sides
        <5> QED
          BY <4>3, <5>2, <5>3 DEF ClearInv, Spent
      <4> QED
        BY <1>8, <4>1, <4>2, <4>3 DEF Placed, PlaceInv
    <3> QED
      BY <1>7, <3>1, <3>2, <3>3 DEF Placed
  <2> QED
    BY <2>1, Heights, Found DEF Fronts
<1>9. CASE q = "none" /\ r = 0 /\ b = 3
  <2>1. Placed("none", A, 0, b - 1)'
    <3>1. (todo = Coming("none", A, 0, b - 1))'
      BY <1>2, <1>9 DEF Rest
    <3>2. PlaceInv("none", 0, b - 1)' /\ StandInv("none", A, 0, b - 1)' /\ ClearInv("none", A, 0)'
      BY <1>9 DEF PlaceInv, StandInv, ClearInv
    <3> QED
      BY <1>7, <1>9, <3>1, <3>2 DEF Placed
  <2> QED
    BY <1>9, <2>1, Heights, Found DEF Fronts
<1> QED
  BY <1>2, <1>8, <1>9

LEMMA ClosetIfNeededPlaced ==
  ASSUME NEW q \in Fronts, NEW A \in SUBSET Sides, NEW r \in 0..9, NEW b \in 0..12, r <= Height(A),
         LoopAssumption, LoopTypes, LoopTypes', Placed(q, A, r, b), ClosetIfNeeded
  PROVE  SomePlace'
<1>1. UNCHANGED <<ages, unresolved, foxy>>
  BY DEF ClosetIfNeeded
<1>2. \A s, n : Late(s, n) <=> Late(s, n)'
  BY <1>1, Unaged
<1>3. CASE Ahead("closetIfNeeded") /\ Then(IF ret \/ foxyInside \/ closetDue THEN <<Do("closet")>> ELSE <<>>)
  <2>1. q = "none" /\ r = 0 /\ b = 8
    BY <1>3, Looking DEF Placed
  <2>2. PICK x \in {"none", "closet"} : todo' = Coming(x, A, 0, b - 1) /\ (x = "none" => ~(ret \/ foxyInside))
    <3>1. CASE ret \/ foxyInside \/ closetDue
      BY <1>3, <2>1, <3>1, Onward DEF Placed
    <3>2. CASE ~(ret \/ foxyInside \/ closetDue)
      BY <1>3, <2>1, <3>2, Onward DEF Placed, Rest
    <3> QED
      BY <3>1, <3>2
  <2>3. x = "none" => ~known
    BY <2>1, <2>2 DEF Placed, KnownInv
  <2>4. Placed(x, A, 0, b - 1)'
    <3>1. PlaceInv(x, 0, b - 1)' /\ StandInv(x, A, 0, b - 1)' /\ ClearInv(x, A, 0)'
      BY <2>1 DEF PlaceInv, StandInv, ClearInv
    <3>2. KnownInv(x, 0, b - 1)'
      BY <1>1, <2>1, <2>3 DEF KnownInv, foxy
    <3> QED
      BY <2>2, <3>1, <3>2 DEF Placed
  <2> QED
    BY <2>1, <2>4, Heights, Found DEF Fronts
<1>4. CASE Ahead("closetIfEntry") /\ Then(IF entry THEN <<Do("closet")>> ELSE <<>>)
  <2>1. q = "none" /\ r \in {2, 6}
    BY <1>4, Looking DEF Placed
  <2>2. PICK x \in {"none", "closet"} : todo' = Coming(x, A, r - 1, b) /\ (x = "none" => ~entry)
    <3>1. CASE entry
      BY <1>4, <2>1, <3>1, Onward DEF Placed
    <3>2. CASE ~entry
      BY <1>4, <2>1, <3>2, Onward DEF Placed, Rest
    <3> QED
      BY <3>1, <3>2
  <2>3. Placed(x, A, r - 1, b)'
    <3>1. PlaceInv(x, r - 1, b)' /\ StandInv(x, A, r - 1, b)'
      BY <2>1 DEF Placed, PlaceInv, StandInv
    <3>2. KnownInv(x, r - 1, b)'
      <4>1. /\ b = 8 /\ known => ret \/ foxyInside \/ x = "closet"
            /\ b = 1 /\ known => foxyInside \/ x = "closet"
        BY <2>1, <2>2 DEF Placed, KnownInv
      <4> QED
        BY <1>1, <2>1, <4>1 DEF KnownInv, foxy
    <3>3. ClearInv(x, A, r - 1)'
      <4>1. CASE r = 2
        <5>1. A # {} /\ Late(LastOf(A), 1) /\ LastOf(A) \in Sides
              /\ \A s \in Sides \ {LastOf(A)} : Late(s, Slack + (Hold + 1))
          BY <2>1, <4>1, Heights DEF Placed, ClearInv, Spent
        <5>2. Slack + (Hold + 1) \in Nat /\ Slack + Episode \in Nat /\ 1 + Inside \in Nat
              /\ Slack + (Hold + 1) <= Slack + Episode /\ 1 <= 1 + Inside
          BY Longest
        <5>3. Late(LastOf(A), 1 + Inside) /\ \A s \in Sides \ {LastOf(A)} : Late(s, Slack + Episode)
          BY <5>1, <5>2, Later
        <5> QED
          BY <1>2, <2>2, <4>1, <5>1, <5>3 DEF ClearInv, Spent
      <4>2. CASE r = 6
        <5>1. A = Sides /\ LastOf(A) = "R" /\ Late("L", 1) /\ "L" \in Sides
          BY <4>2, Heights DEF Placed, ClearInv, Sides
        <5>2. Slack \in Nat /\ 1 <= Slack /\ Slack + 0 = Slack
          BY Longest
        <5>3. Late("L", Slack) /\ \A s \in Sides \ {LastOf(A)} : s = "L"
          BY <5>1, <5>2, Later DEF Sides
        <5> QED
          BY <1>2, <2>2, <4>2, <5>1, <5>2, <5>3 DEF ClearInv, Spent
      <4> QED
        BY <2>1, <4>1, <4>2
    <3> QED
      BY <2>2, <3>1, <3>2, <3>3 DEF Placed
  <2> QED
    BY <2>1, <2>3, Heights, Found DEF Fronts
<1> QED
  BY <1>3, <1>4 DEF ClosetIfNeeded

LEMMA BedIfDuePlaced ==
  ASSUME NEW q \in Fronts, NEW A \in SUBSET Sides, NEW r \in 0..9, NEW b \in 0..12, r <= Height(A),
         Placed(q, A, r, b), BedIfDue
  PROVE  SomePlace'
<1>1. UNCHANGED foxy /\ q = "none" /\ r = 0 /\ b \in {9, 4}
  BY Looking DEF Placed, BedIfDue
<1>2. PICK x \in {"none", "bed"} : todo' = Coming(x, A, 0, b - 1)
  <2>1. Then(<<Do("bed")>>) \/ Then(<<>>)
    BY DEF BedIfDue
  <2>2. Then(<<Do("bed")>>) => todo' = Coming("bed", A, 0, b - 1)
    BY <1>1, Onward DEF Placed
  <2>3. Then(<<>>) => todo' = Coming("none", A, 0, b - 1)
    BY <1>1, Onward DEF Placed, Rest
  <2> QED
    BY <2>1, <2>2, <2>3
<1>3. Placed(x, A, 0, b - 1)'
  <2>1. PlaceInv(x, 0, b - 1)' /\ StandInv(x, A, 0, b - 1)' /\ ClearInv(x, A, 0)'
    BY <1>1 DEF PlaceInv, StandInv, ClearInv
  <2>2. KnownInv(x, 0, b - 1)'
    BY <1>1 DEF Placed, KnownInv, foxy
  <2> QED
    BY <1>2, <2>1, <2>2 DEF Placed
<1> QED
  BY <1>1, <1>3, Heights, Found DEF Fronts

LEMMA BedPlaced ==
  ASSUME NEW q \in Fronts, NEW A \in SUBSET Sides, NEW r \in 0..9, NEW b \in 0..12, r <= Height(A),
         LoopAssumption, LoopTypes, Placed(q, A, r, b), Bed
  PROVE  SomePlace'
<1>1. UNCHANGED <<ages, unresolved, foxy>> /\ Ahead("bed")
  BY DEF Bed
<1>2. r = 0 /\ ((q = "bed" /\ b \in {8, 3}) \/ (q = "none" /\ b = 2))
  BY <1>1, Looking DEF Placed
<1> DEFINE c == IF q = "none" THEN b - 1 ELSE b
<1>3. Stale \in SUBSET Sides /\ Then(VisitsTo(Stale))
  BY DEF Bed, Stale, VisitsTo, Visit, Called
<1>4. PICK B \in SUBSET Sides : B = Stale
  BY <1>3
<1>5. todo' = Coming("none", B, Height(B), c)
  BY <1>2, <1>3, <1>4, Onward DEF Placed
<1>6. c \in {8, 3, 1} /\ (c = 8 => q = "bed" /\ b = 8) /\ (c = 1 => q = "none" /\ b = 2) /\ Height(B) \in 1..9
      /\ Height(B) \in {1, 5, 9}
  BY <1>2, Heights DEF Height
<1> HIDE DEF c
<1>7. \A s \in Sides \ B : Late(s, FRESH)'
  <2>1. \A s \in Sides \ B : Late(s, FRESH)
    BY <1>4, Longest DEF Stale, Late, LoopTypes
  <2> QED
    BY <1>1, <2>1, Unaged
<1>8. Placed("none", B, Height(B), c)'
  <2>1. PlaceInv("none", Height(B), c)' /\ StandInv("none", B, Height(B), c)'
    BY <1>6 DEF PlaceInv, StandInv
  <2>2. KnownInv("none", Height(B), c)'
    <3>1. /\ c = 8 /\ known => ret \/ foxyInside
          /\ c = 1 => ~known
      BY <1>2, <1>6 DEF Placed, KnownInv
    <3> QED
      BY <1>1, <1>6, <3>1 DEF KnownInv, foxy
  <2>3. ClearInv("none", B, Height(B))'
    <3>1. \A s \in Sides \ B : clear'[s] \in Int
      BY <1>1 DEF ages, LoopTypes
    <3>2. \A s \in Sides \ B : Late(s, Slack + 0)' /\ Late(s, Slack + Episode)'
      BY <1>7, <3>1, Longest DEF Late
    <3>3. CASE B = {}
      BY <3>2, <3>3, Heights DEF ClearInv, Spent
    <3>4. CASE B # {} /\ B # Sides
      BY <3>2, <3>4, Heights DEF ClearInv, Spent
    <3>5. CASE B = Sides
      BY <3>5, Heights DEF ClearInv
    <3> QED
      BY <3>3, <3>4, <3>5
  <2> QED
    BY <1>5, <2>1, <2>2, <2>3 DEF Placed
<1> QED
  BY <1>6, <1>8, Found DEF Fronts

LEMMA TurnPlaced ==
  ASSUME NEW q \in Fronts, NEW A \in SUBSET Sides, NEW r \in 0..9, NEW b \in 0..12, r <= Height(A),
         Placed(q, A, r, b), Turn \/ SkipTurn
  PROVE  SomePlace'
<1>1. UNCHANGED foxy /\ Ahead("turn") /\ Then(<<>>)
  BY DEF Turn, SkipTurn
<1>2. q = "none" /\ r = 1 /\ b \in {8, 3, 1} /\ todo' = Coming("none", A, 0, b)
  <2>1. q = "none" /\ r = 1
    BY <1>1, Looking DEF Placed
  <2>2. todo' = Rest(q, A, r, b)
    BY <1>1, Onward DEF Placed
  <2> QED
    BY <2>1, <2>2 DEF Placed, PlaceInv, Rest
<1>3. Placed("none", A, 0, b)'
  <2>1. PlaceInv("none", 0, b)' /\ StandInv("none", A, 0, b)' /\ ClearInv("none", A, 0)'
    BY <1>2 DEF PlaceInv, StandInv, ClearInv
  <2>2. KnownInv("none", 0, b)'
    BY <1>1, <1>2 DEF Placed, KnownInv, foxy
  <2> QED
    BY <1>2, <2>1, <2>2 DEF Placed
<1> QED
  BY <1>3, Heights, Found DEF Fronts

LEMMA CyclePlaced ==
  ASSUME NEW q \in Fronts, NEW A \in SUBSET Sides, NEW r \in 0..9, NEW b \in 0..12, r <= Height(A),
         Placed(q, A, r, b), NewCycle, todo' # <<>>
  PROVE  SomePlace'
<1>1. todo' = Coming("none", {}, 0, 12) /\ UNCHANGED foxy
  BY CycleComes DEF NewCycle
<1>2. q = "none" /\ r = 0 /\ b = 1
  BY Looking DEF Placed, NewCycle
<1>3. known => foxyInside
  BY <1>2 DEF Placed, KnownInv
<1>4. Placed("none", {}, 0, 12)'
  <2>1. PlaceInv("none", 0, 12)' /\ StandInv("none", {}, 0, 12)' /\ ClearInv("none", {}, 0)'
    BY DEF PlaceInv, StandInv, ClearInv
  <2>2. KnownInv("none", 0, 12)'
    BY <1>1, <1>3 DEF KnownInv, foxy
  <2> QED
    BY <1>1, <2>1, <2>2 DEF Placed
<1> QED
  BY <1>4, Heights, Found DEF Fronts

LEMMA LoopKept == ASSUME LoopAssumption, LoopInv, [LoopNext]_loopVars PROVE LoopInv'
<1>1. LoopTypes /\ LoopTypes'
  BY TypesKept DEF LoopInv
<1>2. CASE UNCHANGED loopVars \/ NightOver
  <2>1. UNCHANGED <<todo, where, ages, unresolved, foxy>>
    BY <1>2 DEF loopVars, NightOver
  <2>2. ASSUME NEW q \in Fronts, NEW A \in SUBSET Sides, NEW r \in 0..9, NEW b \in 0..12, Placed(q, A, r, b)
        PROVE  Placed(q, A, r, b)'
    <3>1. todo' = todo /\ where' = where /\ clear' = clear /\ unresolved' = unresolved
          /\ foxyInside' = foxyInside /\ ret' = ret /\ entry' = entry /\ known' = known
      BY <2>1 DEF ages, foxy
    <3>2. \A s, n : Late(s, n) <=> Late(s, n)'
      BY <3>1 DEF Late
    <3>3. ClearInv(q, A, r)'
      BY <2>2, <3>2 DEF Placed, ClearInv
    <3> QED
      BY <2>2, <3>1, <3>3 DEF Placed, PlaceInv, StandInv, KnownInv
  <2>3. SomePlace => SomePlace'
    BY <2>2 DEF SomePlace
  <2> QED
    BY <1>1, <2>1, <2>3 DEF LoopInv
<1>3. CASE ViewLost
  BY <1>1, <1>3 DEF ViewLost, LoopInv
<1>4. CASE todo # <<>> /\ todo' # <<>> /\ LoopStep
  <2>1. PICK q \in Fronts, A \in SUBSET Sides, r \in 0..9, b \in 0..12 : r <= Height(A) /\ Placed(q, A, r, b)
    BY <1>4 DEF LoopInv, SomePlace
  <2>2. ~ViewLost
    BY <1>4 DEF ViewLost
  <2>3. SomePlace'
    BY <1>1, <1>4, <2>1, <2>2, PanPlaced, DoorPlaced, HomePlaced, ClosetPlaced, ClosetIfNeededPlaced, BedIfDuePlaced,
       BedPlaced, TurnPlaced, CyclePlaced DEF LoopStep
  <2> QED
    BY <1>1, <2>3 DEF LoopInv
<1>5. LoopStep => todo # <<>>
  BY DEF LoopStep, ViewLost, NewCycle, Pan, Door, Home, BedIfDue, ClosetIfNeeded, Closet, Bed, Turn, SkipTurn, Ahead
<1> QED
  BY <1>1, <1>2, <1>4, <1>5 DEF LoopNext, LoopInv

LEMMA LoopHolds == ASSUME LoopAssumption PROVE LoopSpec => []LoopInv
BY TypesBegin, LoopKept, PTL DEF LoopSpec

(* Every variable of FNaF 4's loop stays in its set, and the steps left    *)
(* are always steps it knows.                                              *)
THEOREM LoopTyped ==
  ASSUME LoopAssumption
  PROVE  LoopSpec => []LoopTypeOK
<1>1. LoopInv => LoopTypeOK
  <2>1. todo \in Seq(Steps) => \A i \in DOMAIN todo : todo[i].side \in Sides
    <3> SUFFICES ASSUME todo \in Seq(Steps), NEW i \in DOMAIN todo PROVE todo[i].side \in Sides
      OBVIOUS
    <3>1. todo[i] \in Steps
      BY ElementOfSeq, LenProperties
    <3> QED
      BY <3>1 DEF Steps
  <2> QED
    BY <2>1, Zenon DEF LoopInv, LoopTypes, LoopTypeOK
<1> QED
  BY <1>1, LoopHolds, PTL

LEMMA DoorBeforeIsReached ==
  ASSUME LoopInv, Door
  PROVE  where = RoomOf[side] /\ (side = "R" /\ Len(todo) = 6 => ~known)
<1>1. PICK q \in Fronts, A \in SUBSET Sides, r \in 0..9, b \in 0..12 : r <= Height(A) /\ Placed(q, A, r, b)
  BY DEF Door, Ahead, LoopInv, SomePlace
<1>2. /\ q = "none" /\ Len(todo) = r + b
      /\ \/ r \in {4, 8} /\ side = Visited(A, r)
         \/ r = 0 /\ b = 11 /\ side = "L"
         \/ r = 0 /\ b = 6 /\ side = "R"
  <2>1. /\ q = "none"
        /\ \/ r \in {4, 8} /\ side = Visited(A, r)
           \/ r = 0 /\ b = 11 /\ side = "L"
           \/ r = 0 /\ b = 6 /\ side = "R"
    BY <1>1, Looking DEF Placed, Door
  <2>2. Len(todo) = (IF q = "none" THEN 0 ELSE 1) + r + b
    BY <1>1, Looking DEF Placed
  <2>3. Len(todo) = r + b
    BY <2>1, <2>2
  <2> QED
    BY <2>1, <2>3
<1>3. where = RoomOf[side]
  BY <1>1, <1>2 DEF Placed, StandInv, RoomOf
<1>4. r > 0 => b \in {8, 3, 1}
  BY <1>1 DEF Placed, PlaceInv
<1>5. Len(todo) = 6 => r = 0 /\ b = 6
  <2>1. r \in {4, 8} \/ (r = 0 /\ b \in {11, 6})
    BY <1>2
  <2>2. Len(todo) = r + b
    BY <1>2
  <2> QED
    <3>1. CASE r \in {4, 8}
      <4>1. b \in {8, 3, 1}
        BY <1>4, <3>1
      <4>2. r + b # 6
        BY <3>1, <4>1
      <4> QED
        BY <2>2, <4>2
    <3>2. CASE r = 0 /\ b \in {11, 6}
      <4>1. Len(todo) = b
        BY <2>2, <3>2
      <4> QED
        BY <3>2, <4>1
    <3> QED
      BY <2>1, <3>1, <3>2
<1>6. r = 0 /\ b = 6 => ~known
  BY <1>1, <1>2 DEF Placed, KnownInv
<1> QED
  BY <1>3, <1>5, <1>6

LEMMA TurnedWithin ==
  ASSUME LoopAssumption, LoopInv, Turn
  PROVE  \A s \in Sides : clear[s] <= Episode + Slack
<1>1. PICK q \in Fronts, A \in SUBSET Sides, r \in 0..9, b \in 0..12 : r <= Height(A) /\ Placed(q, A, r, b)
  BY DEF Turn, Ahead, LoopInv, SomePlace
<1>2. q = "none" /\ r = 1 /\ unresolved = {}
  BY <1>1, Looking DEF Placed, Turn
<1>3. ASSUME NEW s \in Sides PROVE clear[s] <= Episode + Slack
  <2>1. Late(s, Slack + Episode) \/ Late(s, 1 + Inside)
    BY <1>1, <1>2 DEF Placed, ClearInv, Spent
  <2>2. clear[s] <= Slack + Episode \/ clear[s] <= 1 + Inside
    BY <1>2, <2>1 DEF Late
  <2>3. clear[s] \in Int
    BY DEF LoopInv, LoopTypes
  <2> QED
    BY <2>2, <2>3, Longest
<1> QED
  BY <1>3

(* However long a door and a closet may take, at most as long as each may: *)
(* the bed is turned to only over halls lit not longer ago than one door's *)
(* episode allows; a Foxy seen in is gone to before the right door is run  *)
(* to; a door is run to from its own side of the room.                     *)
THEOREM BedroomSweeps ==
  ASSUME LoopAssumption
  PROVE  LoopSpec => BedroomSwept
<1>1. LoopInv /\ [LoopNext]_loopVars
        => [Turn => \A s \in Sides : clear[s] <= Episode + Largest({FRESH, 1 + Largest(ClosetTimes)})]_loopVars
  BY TurnedWithin DEF Slack, Inside
<1>2. LoopInv /\ [LoopNext]_loopVars => [Door => where = RoomOf[side]]_loopVars
  BY DoorBeforeIsReached
<1>3. LoopInv /\ [LoopNext]_loopVars => [Door /\ side = "R" /\ Len(todo) = 6 => ~known]_loopVars
  BY DoorBeforeIsReached
<1> QED
  BY <1>1, <1>2, <1>3, LoopHolds, PTL
  DEF LoopSpec, BedroomSwept, BedWithinAnEpisode, FoxyRevisited, DoorFromItsRoom
===============================================================================
