------------------------------ MODULE Fnaf2Office ------------------------------
(***************************************************************************)
(* The office of the recompiled FNaF 2 (packages/source/src/games/fnaf2):  *)
(* the monitor, the mask, the drop flag between them, the characters at    *)
(* the threshold (marker 122) and inside (marker 123), the encounter that  *)
(* resolves one of them, and the attack that ends the night.               *)
(*                                                                         *)
(* A tick of the plant is the event sheet from top to bottom.  Each of its *)
(* sections that touches this state is an action, and `phase` says which   *)
(* comes next: what a section reads, an earlier one of the same tick may   *)
(* have written.  The player's taps fall between two ticks.                *)
(*                                                                         *)
(* Rolls, cooldowns and one-second timers are nondeterministic.  Routes    *)
(* are reduced to "away"; the lights, the cameras' own effects, Foxy,      *)
(* Balloon Boy and Golden Freddy are left out.  Frame counts are scaled.   *)
(***************************************************************************)
EXTENDS Naturals, FiniteSets, Sequences

CONSTANTS Units,      \* the characters of the instance
          MON_UP, MON_DOWN, MASK_ON, MASK_OFF,  \* animations, in ticks
          GRACE,      \* ticks a started encounter leaves for the mask
          BLACKOUT,   \* ticks of the encounter's clock
          FADE,       \* ticks the fade holds the clock after it
          STREAK,     \* ticks of displayed camera that let a streak unit in
          ATTACK      \* ticks from a committed attack to the death

Streak == Units \cap {"withfreddy", "withbonnie", "withchica", "toyfreddy"}
NoUnit == "none"

ResolveDefended ==
  <<"withfreddy", "withbonnie", "withchica", "toyfreddy", "toybonnie", "toychica">>
ResolveFailed ==
  <<"withfreddy", "withbonnie", "withchica", "toybonnie", "toychica", "toyfreddy">>

(* Of the constants; assumed where they are given their values.           *)
OfficeAssumption ==
  /\ Units \subseteq {ResolveDefended[i] : i \in 1 .. 6} \cup {"mangle"}
  /\ {MON_UP, MON_DOWN, MASK_ON, MASK_OFF, GRACE, BLACKOUT, FADE, STREAK, ATTACK}
       \subseteq Nat \ {0}

VARIABLES phase, alive,
          mon, monAnim,     \* the panel and what is left of its animation
          displayed,          \* a camera is displayed
          seen, sampled,    \* hasViewedCamera; lastViewed holds a camera
          mask, maskAnim, blocked,
          touch, drop,      \* dropTouch and dropEverything
          pos, cue, raiseSeen, armed, engaged,
          encounter,        \* blackout: active, masked, and the fuse left
          clock, fade, danger, threshold, shown,   \* blackoutClock and phase
          streak,
          committed,        \* the units whose attack is committed
          puppet, attack    \* the Puppet's place; the shared attack counter

panelVars == <<mon, monAnim, displayed, seen, sampled>>
maskVars == <<mask, maskAnim, blocked>>
unitVars == <<pos, cue, raiseSeen, engaged>>
clockVars == <<clock, fade, danger, threshold, shown>>
attackVars == <<committed, puppet, attack>>
officeVars == <<phase, alive, panelVars, maskVars, touch, drop, unitVars, armed,
          encounter, clockVars, streak, attackVars>>

-----------------------------------------------------------------------------
MaskFullyOn == mask /\ maskAnim = 0
MaskFullyOff == ~mask /\ maskAnim = 0 /\ ~blocked
AttackExecuting == committed # {}
Attacked == AttackExecuting \/ puppet = "attack"
Waits(u) == pos[u] = "at"
Inside(u) == pos[u] = "in"
Idle == [active |-> FALSE, masked |-> FALSE, fuse |-> 0]
Less(n) == IF n = 0 THEN 0 ELSE n - 1

(* The units in E go in to marker 123, those in L leave, and the cue of     *)
(* those in C sounds (unitEnterInside, unitLeave, startOfficeEncounter).    *)

(* Mutant: leaving forgets to clear the cue. *)
Settle_CueKept(E, L, C) ==
  /\ pos' = [u \in Units |-> IF u \in E THEN "in"
                             ELSE IF u \in L THEN "away" ELSE pos[u]]
  /\ cue' = cue \cup C
  /\ raiseSeen' = (raiseSeen /\ "mangle" \notin E \cup L)
  /\ engaged' = IF engaged \in E \cup L THEN NoUnit ELSE engaged

(* Mutant: whoever leaves releases the lock on the last hop. *)
Settle_Unlocks(E, L, C) ==
  /\ pos' = [u \in Units |-> IF u \in E THEN "in"
                             ELSE IF u \in L THEN "away" ELSE pos[u]]
  /\ cue' = (cue \cup C) \ (E \cup L)
  /\ raiseSeen' = (raiseSeen /\ "mangle" \notin E \cup L)
  /\ engaged' = IF E \cup L # {} THEN NoUnit ELSE engaged

Settle(E, L, C) ==
  /\ pos' = [u \in Units |-> IF u \in E THEN "in"
                             ELSE IF u \in L THEN "away" ELSE pos[u]]
  /\ cue' = (cue \cup C) \ (E \cup L)
  /\ raiseSeen' = (raiseSeen /\ "mangle" \notin E \cup L)
  /\ engaged' = IF engaged \in E \cup L THEN NoUnit ELSE engaged

OfficeInit ==
  /\ phase = "input" /\ alive = TRUE
  /\ mon = "down" /\ monAnim = 0
  /\ displayed = FALSE /\ seen = FALSE /\ sampled = FALSE
  /\ mask = FALSE /\ maskAnim = 0 /\ blocked = FALSE
  /\ touch = FALSE /\ drop = FALSE
  /\ pos = [u \in Units |-> "away"] /\ cue = {}
  /\ raiseSeen = FALSE /\ armed = FALSE /\ engaged = NoUnit
  /\ encounter = Idle
  /\ clock = 0 /\ fade = 0
  /\ danger = FALSE /\ threshold = FALSE /\ shown = FALSE
  /\ streak = 0
  /\ committed = {} /\ puppet \in {"away", "never"} /\ attack = 0

-----------------------------------------------------------------------------
(* The player, between two ticks.                                           *)
Tap == alive /\ phase = "input"

PressMask ==
  /\ Tap
  /\ \/ /\ mask                        \* the drop button: g619 reads it later
        /\ touch' = TRUE
        /\ UNCHANGED maskVars
     \/ /\ ~mask /\ maskAnim = 0
        /\ mon \notin {"up", "raising"}
        /\ ~Attacked
        /\ mask' = TRUE /\ maskAnim' = MASK_ON /\ blocked' = FALSE
        /\ UNCHANGED touch
  /\ UNCHANGED <<phase, alive, panelVars, drop, unitVars, armed, encounter,
                 clockVars, streak, attackVars>>

PressPanel ==
  /\ Tap /\ ~mask /\ maskAnim = 0
  /\ \/ /\ mon \in {"up", "raising"}   \* the drop button: g618 reads it later
        /\ touch' = TRUE
        /\ UNCHANGED <<mon, monAnim, raiseSeen>>
     \/ /\ mon = "down" /\ MaskFullyOff
        /\ ~encounter.active /\ ~AttackExecuting
        /\ mon' = "raising" /\ monAnim' = MON_UP
        /\ raiseSeen' = (raiseSeen \/ ("mangle" \in Units /\ Waits("mangle")))
        /\ UNCHANGED touch
  /\ UNCHANGED <<phase, alive, displayed, seen, sampled, maskVars, drop, pos, cue,
                 engaged, armed, encounter, clockVars, streak, attackVars>>

PressCamera ==
  /\ Tap /\ ~mask /\ maskAnim = 0 /\ mon = "up"
  /\ displayed' = TRUE
  /\ UNCHANGED <<phase, alive, mon, monAnim, seen, sampled, maskVars, touch, drop,
                 unitVars, armed, encounter, clockVars, streak, attackVars>>

StartTick ==
  /\ Tap /\ phase' = "drop"
  /\ UNCHANGED <<alive, panelVars, maskVars, touch, drop, unitVars, armed,
                 encounter, clockVars, streak, attackVars>>

-----------------------------------------------------------------------------
(* The attack's own sprite may finish before the shared counter does.       *)
AnimationFinished ==
  /\ alive /\ phase = "drop" /\ attack > 0
  /\ alive' = FALSE
  /\ UNCHANGED <<phase, panelVars, maskVars, touch, drop, unitVars, armed,
                 encounter, clockVars, streak, attackVars>>

(* g262, g274 and g612: the flag the last tick left is performed and        *)
(* cleared; a commit it provokes raises it again for the next tick.         *)
Forcedown ==
  /\ alive /\ phase = "drop"
  /\ LET lowers == drop /\ mon \in {"up", "raising"}
         unmasks == drop /\ mask
         provoked ==
           {u \in Units : Inside(u) /\ \/ lowers /\ (u = "mangle" => armed)
                                       \/ unmasks /\ u \in Streak}
     IN /\ mon' = IF lowers THEN "lowering" ELSE mon
        /\ monAnim' = IF lowers THEN MON_DOWN ELSE monAnim
        /\ displayed' = (displayed /\ ~lowers)
        /\ mask' = (mask /\ ~unmasks)
        /\ maskAnim' = IF unmasks THEN MASK_OFF ELSE maskAnim
        /\ blocked' = (blocked /\ ~unmasks)
        /\ drop' = (provoked \ committed # {})
        /\ committed' = committed \cup provoked
  /\ phase' = "animate"
  /\ UNCHANGED <<alive, seen, sampled, touch, unitVars, armed, encounter,
                 clockVars, streak, puppet, attack>>

(* g1, g6, g9 and g10: an animation that has run ends.  A completed raise   *)
(* restores the last sampled camera, if there is one, and takes in a Mangle *)
(* that saw it begin; a completed mask clears the display.                  *)
Animate ==
  /\ alive /\ phase = "animate"
  /\ LET up == mon = "raising" /\ monAnim = 1
         down == mon = "lowering" /\ monAnim = 1
         on == mask /\ maskAnim = 1
         off == ~mask /\ maskAnim = 1
     IN /\ mon' = IF up THEN "up" ELSE IF down /\ ~Attacked THEN "down" ELSE mon
        /\ displayed' = (~on /\ (displayed \/ (up /\ (~seen \/ sampled))))
        /\ seen' = (seen \/ up)
        /\ blocked' = IF off THEN Attacked ELSE blocked
        /\ Settle({u \in Units : up /\ u = "mangle" /\ Waits(u) /\ raiseSeen}, {}, {})
  /\ monAnim' = Less(monAnim) /\ maskAnim' = Less(maskAnim)
  /\ \E tick \in BOOLEAN : sampled' = (sampled \/ (displayed' /\ tick))       \* g263
  /\ phase' = "route"
  /\ UNCHANGED <<alive, mask, touch, drop, armed, encounter, clockVars, streak,
                 attackVars>>

-----------------------------------------------------------------------------
(* canAdvance, for the last hop, and advance: a unit reaches marker 122.    *)
(* Any number of them may in one tick.                                      *)
EntryGate(u) ==
  /\ u \in Streak \cup {"mangle"} => mon = "up"
  /\ u = "toybonnie" => mon # "up"
  /\ u \in Streak => engaged = NoUnit
  /\ u \in {"withbonnie", "withchica"} => ~encounter.active

Arrive(u) ==
  /\ alive /\ phase = "route"
  /\ pos[u] = "away" /\ u \notin committed /\ EntryGate(u)
  /\ pos' = [pos EXCEPT ![u] = "at"]
  /\ engaged' = IF u \in Streak THEN u ELSE engaged
  /\ UNCHANGED <<phase, alive, panelVars, maskVars, touch, drop, cue, raiseSeen,
                 armed, encounter, clockVars, streak, attackVars>>

(* g718-g721: every ten seconds, a streak unit waiting behind a raised      *)
(* monitor slams everything down.                                           *)
RouteDone ==
  /\ alive /\ phase = "route"
  /\ \E ten \in BOOLEAN :
       drop' = (drop \/ (ten /\ mon = "up" /\ \E u \in Streak : Waits(u)))
  /\ phase' = "early"
  /\ UNCHANGED <<alive, panelVars, maskVars, touch, unitVars, armed, encounter,
                 clockVars, streak, attackVars>>

(* g400-g440 and g445-g447/g490: the fully-on mask sends Mangle and Toy     *)
(* Chica away on a roll or after five seconds; Toy Bonnie slides in, or is  *)
(* sent away while another's encounter runs; a streak unit that is waiting  *)
(* starts its encounter when no camera is displayed.  g514 advances the     *)
(* clock while an encounter runs, and only then.                            *)
Early ==
  /\ alive /\ phase = "early"
  /\ \E repelled \in SUBSET {u \in Units \cap {"mangle", "toychica"} :
                               Waits(u) /\ MaskFullyOn} :
     \E slide \in SUBSET {u \in Units \cap {"toybonnie"} :
                            Waits(u) /\ MaskFullyOn /\ ~encounter.active /\ u \notin cue} :
     \E shooed \in SUBSET {u \in Units \cap {"toybonnie"} :
                             Waits(u) /\ MaskFullyOn /\ encounter.active /\ u \notin cue} :
       LET waiting == {u \in Streak : Waits(u) /\ u \notin cue /\ ~displayed}
           starter == IF encounter.active THEN {}
                      ELSE IF slide # {} THEN slide ELSE waiting
           now == IF starter = {} THEN encounter
                  ELSE [active |-> TRUE, masked |-> MaskFullyOn, fuse |-> GRACE]
       IN /\ Settle({}, repelled \cup shooed, starter)
          /\ encounter' = now
          /\ clock' = IF now.active /\ clock < BLACKOUT THEN clock + 1 ELSE clock
  /\ phase' = "resolve"
  /\ UNCHANGED <<alive, panelVars, maskVars, touch, drop, armed, fade, danger,
                 threshold, shown, streak, attackVars>>

-----------------------------------------------------------------------------
(* blackoutResolveReady and the resolution: the clock's crossing of its     *)
(* limit ends the encounter; the fade that follows clears the clock, and a  *)
(* new encounter restarts the fade.                                         *)
First(order) ==
  LET here == {i \in DOMAIN order : order[i] \in Units /\ Waits(order[i])}
  IN {order[i] : i \in {j \in here : \A k \in here : j <= k}}

(* Mutant: the fade runs out without clearing the clock. *)
BlackoutPhase_KeepsClock(fading) ==
  /\ clock' = clock
  /\ fade' = IF fading >= FADE THEN 0 ELSE fading
  /\ threshold' = (clock' >= BLACKOUT)
  /\ danger' = encounter.active

BlackoutPhase(fading) ==
  /\ clock' = IF fading >= FADE THEN 0 ELSE clock
  /\ fade' = IF fading >= FADE THEN 0 ELSE fading
  /\ threshold' = (clock' >= BLACKOUT)
  /\ danger' = encounter.active

Resolve ==
  /\ alive /\ phase = "resolve"
  /\ LET restarted == IF encounter.active /\ ~danger THEN 1 ELSE fade
     IN BlackoutPhase(IF clock >= BLACKOUT THEN restarted + 1 ELSE restarted)
  /\ LET defended == encounter.masked \/ (MaskFullyOn /\ encounter.fuse > 0)
         ends == encounter.active /\ threshold' /\ ~threshold
     IN /\ encounter' =
             IF ~encounter.active \/ ends THEN Idle
             ELSE [active |-> TRUE, masked |-> defended, fuse |-> Less(encounter.fuse)]
        /\ Settle(IF ends /\ ~defended THEN First(ResolveFailed) ELSE {},
                  IF ends /\ defended THEN First(ResolveDefended) ELSE {}, {})
  /\ phase' = "units"
  /\ UNCHANGED <<alive, panelVars, maskVars, touch, drop, armed, shown, streak,
                 attackVars>>

(* tickUnits: Mangle, armed, attacks once the cameras are down, and Toy     *)
(* Bonnie after ten seconds of display; at the threshold the streak units   *)
(* walk in on a long display, and Toy Bonnie and Toy Chica on any raised    *)
(* monitor once their timers have run.                                      *)

(* Mutant: the two toys' timers let them in with the monitor down as well. *)
MayEnter_AnyMonitor(u) == \/ u \in Streak /\ displayed /\ streak >= STREAK
                          \/ u \in {"toybonnie", "toychica"}

MayEnter(u) == \/ u \in Streak /\ displayed /\ streak >= STREAK
               \/ u \in {"toybonnie", "toychica"} /\ mon = "up"

TickUnits ==
  /\ alive /\ phase = "units"
  /\ \E ready \in SUBSET (Units \cap {"toybonnie", "toychica"}) :
       LET able == {u \in Units : Waits(u) /\ MayEnter(u) /\ (u \in Streak \/ u \in ready)}
           rising == {u \in Units \ committed :
                        /\ Inside(u)
                        /\ \/ u = "mangle" /\ armed /\ mon # "up"
                           \/ u = "toybonnie" /\ displayed /\ u \in ready}
       IN /\ Settle(able, {}, {})
          /\ committed' = committed \cup rising
          /\ drop' = (drop \/ rising # {})
  /\ phase' = "late"
  /\ UNCHANGED <<alive, panelVars, maskVars, touch, armed, encounter, clockVars,
                 streak, puppet, attack>>

-----------------------------------------------------------------------------
(* readDropTouch (g618, g619): the drop button lowers a raised monitor, and *)
(* takes a fully-on mask off unless an encounter is running.                *)

(* Mutant: the mask comes off in danger too. *)
DropTouched_InDanger ==
  touch /\ \/ mon = "up" /\ MaskFullyOff
           \/ MaskFullyOn /\ ~displayed

DropTouched ==
  touch /\ \/ mon = "up" /\ MaskFullyOff
           \/ MaskFullyOn /\ ~displayed /\ ~encounter.active

(* attackAnimationLate: once started, the shared counter runs to the end.   *)

(* Mutant: it counts only while its attacker is still in the office. *)
Countdown_WhileInside(attackers, puppeteer) ==
  IF puppeteer \/ \E u \in attackers : Inside(u) THEN attack + 1 ELSE 0

Countdown(attackers, puppeteer) ==
  IF attack > 0 \/ attackers # {} \/ puppeteer THEN attack + 1 ELSE 0

(* secondPassLate and the end of the tick.  With the mask fully on a streak *)
(* unit inside may attack (one, and only if nobody does yet), and may leave *)
(* all the same; the Puppet's own way in; Mangle arms while a camera is     *)
(* displayed; g845 and the streak.                                          *)
Late ==
  /\ alive /\ phase = "late"
  /\ LET hidden == {u \in Streak : Inside(u) /\ MaskFullyOn}
     IN \E strike \in SUBSET {u \in hidden \ committed : ~Attacked} :
        \E leaving \in SUBSET hidden :
        \E step, arm \in BOOLEAN :
          /\ Cardinality(strike) <= 1
          /\ committed' = committed \cup strike
          /\ attack' = Countdown(committed', puppet = "attack")
          /\ alive' = (attack' < ATTACK)
          /\ puppet' = IF step /\ puppet = "away" THEN "at"
                       ELSE IF step /\ puppet = "at" THEN "attack" ELSE puppet
          /\ drop' = (drop \/ DropTouched \/ strike # {} \/ (step /\ puppet = "at"))
          /\ armed' = (armed \/ (arm /\ displayed /\ "mangle" \in Units /\ Inside("mangle")))
          /\ Settle({}, leaving, {})
  /\ touch' = FALSE
  /\ shown' = (displayed /\ fade > 0)
  /\ fade' = IF shown' /\ ~shown THEN FADE ELSE fade
  /\ streak' = IF ~displayed THEN 0 ELSE IF streak < STREAK THEN streak + 1 ELSE streak
  /\ phase' = "input"
  /\ UNCHANGED <<panelVars, maskVars, encounter, clock, danger, threshold>>

-----------------------------------------------------------------------------
Tick == \/ StartTick \/ Forcedown \/ Animate \/ RouteDone
        \/ Early \/ Resolve \/ TickUnits \/ Late

Dead == ~alive /\ UNCHANGED officeVars

OfficeNext == \/ PressMask \/ PressPanel \/ PressCamera
        \/ AnimationFinished
        \/ \E u \in Units : Arrive(u)
        \/ Tick
        \/ Dead

(* The frame clock does not stop while the plant is advanced. *)
OfficeFairness == WF_officeVars(Tick)

OfficeSpec == OfficeInit /\ [][OfficeNext]_officeVars /\ OfficeFairness

-----------------------------------------------------------------------------
(* Every variable keeps to its values. *)
OfficeTypeOK ==
  /\ phase \in {"input", "drop", "animate", "route", "early", "resolve", "units", "late"}
  /\ {alive, displayed, seen, sampled, mask, blocked, touch, drop, raiseSeen, armed,
      danger, threshold, shown} \subseteq BOOLEAN
  /\ mon \in {"down", "raising", "up", "lowering"}
  /\ monAnim \in 0 .. MON_UP + MON_DOWN /\ maskAnim \in 0 .. MASK_ON + MASK_OFF
  /\ pos \in [Units -> {"away", "at", "in"}]
  /\ cue \subseteq Units /\ committed \subseteq Units
  /\ engaged \in Streak \cup {NoUnit}
  /\ encounter \in [active : BOOLEAN, masked : BOOLEAN, fuse : 0 .. GRACE]
  /\ clock \in 0 .. BLACKOUT /\ fade \in 0 .. FADE
  /\ streak \in 0 .. STREAK /\ attack \in 0 .. ATTACK
  /\ puppet \in {"never", "away", "at", "attack"}

(* The lock on the last hop is exactly the streak unit that stands at the   *)
(* threshold: it is never held by one that went in or left, by whichever of *)
(* the ways, and never two of them stand there (canAdvance, advance).       *)
LockHeldAtTheThreshold ==
  \A u \in Streak : Waits(u) <=> engaged = u

(* An encounter judged defended is one the player sits out masked: until an *)
(* attack is committed, nothing the drop button or the slam does takes the  *)
(* mask off before the encounter ends (g618-g619 against g533).             *)
DefendedStaysMasked ==
  encounter.active /\ encounter.masked /\ ~Attacked => mask

(* night-policy.ts builds on it: every way into the office needs the        *)
(* monitor up, except a failed encounter.                                   *)
WaysIn ==
  [][\A u \in Units :
       pos[u] # "in" /\ pos'[u] = "in"
         => \/ mon' = "up"
            \/ encounter.active /\ ~encounter.masked /\ ~encounter'.active]_officeVars

(* All three of the above.                                                  *)
OfficeRules == [](LockHeldAtTheThreshold /\ DefendedStaysMasked) /\ WaysIn

(* A committed attack ends the night whatever happens afterwards: the       *)
(* attacker's own leaving in the same tick, the mask, the monitor.          *)
AttackKills == Attacked ~> ~alive

(* Every encounter ends, also one that starts while the previous one's fade *)
(* still holds the clock at its limit.                                      *)
EncounterEnds == encounter.active ~> (~encounter.active \/ ~alive)

(* A Withered at the threshold never stays there: he is let in, repelled or *)
(* the night is over.                                                       *)
WitheredServed ==
  \A u \in Units \cap {"withfreddy", "withbonnie", "withchica"} :
    Waits(u) ~> (~Waits(u) \/ ~alive)

(* plant-options.ts: a raise pressed during a committed attack is refused.  *)
RaiseRefusedUnderAttack ==
  [][mon = "down" /\ mon' = "raising" => ~Attacked]_officeVars
=============================================================================
