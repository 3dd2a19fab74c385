---------------------------- MODULE Campaign_proofs ----------------------------
(***************************************************************************)
(* Proofs about Campaign and about CampaignPorts, which supplies its ports. *)
(* Campaign first, for every chain of nights, every budget and any number  *)
(* of calls of run(). The inductive invariant CampaignInv says             *)
(* which states the awaited port leaves, that the active record is always  *)
(* the last one, what that record holds while its play is open, and how    *)
(* the attempt counters relate to the budget then.                         *)
(*                                                                         *)
(* Then the ports, interrupted or not. Their steps are the campaign's      *)
(* answers, so the first part's theorems hold of them; then                *)
(* one invariant per question, each built on the ones before: who holds    *)
(* the execution and the HID process (OwnInv), what an intro has armed     *)
(* (ArmInv), who attends a night the campaign pressed (LeftInv), and where *)
(* the save and the screen are at each port (PlayingInv, AimInv).          *)
(***************************************************************************)
EXTENDS CampaignPorts, FiniteSetTheorems, TLAPS

USE DEF ValidSpec

Record == [night : 1..7, attempt : Nat, status : {"ACTIVE", "DEATH", "INVALID", "WIN"},
           terminal : Outcomes \union {"none"}, verified : BOOLEAN, proof : BOOLEAN]

Last == attempts[Len(attempts)]

Playing == {"executeAttempt", "terminal"}
Proving == {"stopProof", "terminalVerification", "save"}

(* The states in which the runner may be awaiting each port.               *)
PlaceInv ==
  /\ at = "idle" => state \in {"IDLE", "HOLD", "PREFLIGHT", "ABORTED", "COMPLETE"}
  /\ at = "preflight" => state = "PREFLIGHT"
  /\ at = "menu" => state = "MENU"
  /\ at = "customNight" => state = "CUSTOM_VERIFY"
  /\ at = "intro" => state = "INTRO_VERIFY"
  /\ at \in Playing => state \in {"ACTIVE", "ABORTED"}
  /\ at \in {"stopRetry", "retryReady"} => state = "RETRY_VERIFY"
  /\ at = "stopLost" => state \in {"HOLD", "ABORTED"}
  /\ at \in {"stopProof", "terminalVerification"} => state = "TERMINAL_VERIFY"
  /\ at = "save" => state = "SAVE_VERIFY"
  /\ at = "cleanup" => state = "ABORTED"
  /\ at = "releaseAll" => state \in {"HOLD", "ABORTED", "COMPLETE"}

(* The active record, and what it holds while its play is open.            *)
OpenInv ==
  /\ activeAttempt = Len(attempts)
  /\ attempt > 0 => Len(attempts) > 0 /\ Last.night = Target
  /\ at \in Playing \union Proving => attempt > 0
  /\ at \in Playing /\ state = "ACTIVE" =>
       Last.status = "ACTIVE" /\ Last.terminal = "none" /\ Last.attempt = attempt
  /\ at \in Proving => Last.status = "ACTIVE" /\ Last.terminal = "sixam"
  /\ at = "save" => Last.verified

(* No record is of a night ahead of the target, and none of the target     *)
(* itself is proven before the end.                                        *)
BehindInv ==
  state # "COMPLETE" =>
    \A i \in DOMAIN attempts : attempts[i].night + (IF attempts[i].proof THEN 1 ELSE 0) <= Target

(* The counters while a night is played: within the budget, or past it     *)
(* where beginAttempt has just aborted.                                    *)
SpendInv ==
  at \in Playing => /\ state = "ACTIVE" => spentAttempts \in 1..MaxAttempts
                    /\ state = "ABORTED" => spentAttempts > MaxAttempts

(* The first run() never reaches a play with its budget spent, and its     *)
(* count of Invalid runs in a row agrees with the last records.            *)
FirstRunInv ==
  /\ runs = 0 => state = "IDLE" /\ at = "idle" /\ attempt = 0 /\ attempts = <<>> /\ invalidRuns = 0
  /\ runs = 1 =>
       /\ at \in {"preflight", "menu", "customNight", "intro"} => spentAttempts < MaxAttempts
       /\ at \in Playing => state = "ACTIVE"

Before == {"preflight", "menu", "customNight", "intro", "stopRetry", "retryReady"}
StreakInv ==
  runs <= 1 =>
    /\ \A i \in 1..(Len(attempts) - 1) :
         attempts[i].status = "INVALID" /\ attempts[i + 1].status = "INVALID" =>
           i + 1 = Len(attempts) /\ at \notin Before \union Playing \union Proving
    /\ at \in Before /\ Len(attempts) > 0 /\ Last.status = "INVALID" => consecutiveInvalid > 0
    /\ at \in Playing /\ Len(attempts) > 1 /\ attempts[Len(attempts) - 1].status = "INVALID" =>
         consecutiveInvalid > 0

CampaignInv == TypeOK /\ PlaceInv /\ OpenInv /\ BehindInv /\ SpendInv /\ WonInOrder /\ ProvenOnEvidence

(* The nights are consecutive.                                             *)
LEMMA Consecutive ==
  /\ Len(Nights) \in 1..7 /\ \A i \in 1..Len(Nights) : Nights[i] \in 1..7
  /\ \A i \in 1..Len(Nights) : i < Len(Nights) => Nights[i + 1] = Nights[i] + 1
<1>1. \A i \in 1..Len(Nights) : Nights[i] \in 1..7
  BY CampaignAssumption
<1>2. ASSUME NEW i \in 1..Len(Nights), i < Len(Nights) PROVE Nights[i + 1] = Nights[i] + 1
  <2>1. i + 1 \in 1..Len(Nights) /\ 1 \in 1..Len(Nights)
    BY <1>2, CampaignAssumption
  <2>2. Nights[i + 1] = Nights[1] + (i + 1) - 1 /\ Nights[i] = Nights[1] + i - 1 /\ Nights[1] \in 1..7
    BY <1>1, <2>1, CampaignAssumption
  <2> QED
    BY <2>2
<1> QED
  BY <1>1, <1>2, CampaignAssumption

LEMMA InitInv == Init => CampaignInv
<1> SUFFICES ASSUME Init PROVE CampaignInv
  OBVIOUS
<1> USE CampaignAssumption DEF Init
<1>1. TypeOK
  BY DEF TypeOK, States
<1>2. PlaceInv /\ OpenInv /\ SpendInv
  BY DEF PlaceInv, OpenInv, SpendInv, Playing, Proving
<1>3. WonInOrder /\ ProvenOnEvidence /\ BehindInv
  BY DEF WonInOrder, Won, ProvenOnEvidence, BehindInv
<1> QED
  BY <1>1, <1>2, <1>3 DEF CampaignInv

(* Actions that write no record, no counter and no target.                 *)
Quiet == UNCHANGED <<targetIndex, attempt, invalidRuns, attempts, activeAttempt>>

(* The conjuncts about records hold on after a quiet step that neither     *)
(* enters nor leaves COMPLETE.                                             *)
LEMMA QuietRecords ==
  ASSUME CampaignInv, Quiet, (state' = "COMPLETE") <=> (state = "COMPLETE")
  PROVE  WonInOrder' /\ ProvenOnEvidence' /\ BehindInv'
  BY DEF CampaignInv, Quiet, WonInOrder, Won, ProvenOnEvidence, BehindInv, Target

(* A quiet step to a port where no play is open.                           *)
LEMMA QuietAway ==
  ASSUME CampaignInv, Quiet, (state' = "COMPLETE") <=> (state = "COMPLETE"),
         state' \in States, consecutiveInvalid' \in Nat, runs' \in 0..MaxRuns,
         at' \in {"idle", "cleanup", "releaseAll"} \union (Ports \ (Playing \union Proving)), PlaceInv'
  PROVE  CampaignInv'
<1>1. TypeOK'
  BY DEF CampaignInv, TypeOK, Quiet
<1>2. OpenInv' /\ SpendInv'
  BY DEF CampaignInv, OpenInv, SpendInv, Quiet, Playing, Proving, Ports, Last, Target
<1> QED
  BY <1>1, <1>2, QuietRecords DEF CampaignInv

(* The transitions the runner relies on, read off the table.               *)
LEMMA Table ==
  /\ TRANSITIONS["IDLE"] = {"PREFLIGHT"}
  /\ TRANSITIONS["PREFLIGHT"] = {"MENU", "HOLD", "ABORTED"}
  /\ TRANSITIONS["HOLD"] = {"PREFLIGHT", "ABORTED"}
  /\ TRANSITIONS["MENU"] = {"INTRO_VERIFY", "CUSTOM_VERIFY", "ABORTED", "HOLD"}
  /\ TRANSITIONS["CUSTOM_VERIFY"] = {"INTRO_VERIFY", "ABORTED", "HOLD"}
  /\ TRANSITIONS["INTRO_VERIFY"] = {"ACTIVE", "ABORTED", "HOLD"}
  /\ TRANSITIONS["ACTIVE"] = {"TERMINAL_VERIFY", "RETRY_VERIFY", "ABORTED", "HOLD"}
  /\ TRANSITIONS["TERMINAL_VERIFY"] = {"SAVE_VERIFY", "ABORTED", "HOLD"}
  /\ TRANSITIONS["RETRY_VERIFY"] = {"MENU", "ABORTED", "HOLD"}
  /\ TRANSITIONS["SAVE_VERIFY"] = {"MENU", "COMPLETE", "ABORTED", "HOLD"}
  /\ TRANSITIONS["ABORTED"] = {}
  BY DEF TRANSITIONS, States

LEMMA StartRunInv == ASSUME CampaignInv, StartRun PROVE CampaignInv'
<1> USE CampaignAssumption, Table DEF StartRun, Transition, Caught, budget, records, States
<1>1. PlaceInv' /\ state' \in States /\ state' # "COMPLETE" /\ state # "COMPLETE"
  BY DEF PlaceInv, Playing
<1>2. at' \in {"cleanup", "preflight"} /\ runs' \in 0..MaxRuns /\ Quiet /\ consecutiveInvalid' \in Nat
  BY DEF CampaignInv, TypeOK, Quiet
<1> QED
  BY <1>1, <1>2, QuietAway DEF Ports, Playing, Proving

LEMMA ResumeInv == ASSUME CampaignInv, Resume PROVE CampaignInv'
<1>1. PlaceInv' /\ state' \in States /\ state' # "COMPLETE" /\ state # "COMPLETE"
  BY DEF PlaceInv, Playing, Resume, States
<1>2. at' = "idle" /\ runs' \in 0..MaxRuns /\ Quiet /\ consecutiveInvalid' \in Nat
  BY DEF CampaignInv, TypeOK, Quiet, Resume, records
<1> QED
  BY <1>1, <1>2, QuietAway

(* The answers before a play, and the one that may allow another.          *)
LEMMA AnswerInv ==
  ASSUME CampaignInv, NEW yes \in BOOLEAN,
         Preflight(yes) \/ Menu(yes) \/ CustomNight(yes) \/ RetryReady(yes)
  PROVE  CampaignInv'
<1> USE Table DEF Preflight, Menu, CustomNight, RetryReady, Awaiting, Hold, Transition, budget, records
<1>1. PlaceInv' /\ state' \in States /\ state' # "COMPLETE" /\ state # "COMPLETE"
  BY DEF CampaignInv, PlaceInv, Playing, States
<1>2. at' \in {"menu", "customNight", "intro", "releaseAll"}
  BY DEF CampaignInv, PlaceInv, Playing
<1>3. runs' \in 0..MaxRuns /\ Quiet /\ consecutiveInvalid' \in Nat
  BY DEF CampaignInv, TypeOK, Quiet
<1> QED
  BY <1>1, <1>2, <1>3, QuietAway DEF Ports, Playing, Proving

LEMMA EndingInv == ASSUME CampaignInv, PortFails \/ CleanedUp \/ Released PROVE CampaignInv'
<1> USE DEF PortFails, CleanedUp, Released, Awaiting, Caught, budget, records
<1>1. PlaceInv' /\ state' \in States /\ ((state' = "COMPLETE") <=> (state = "COMPLETE"))
  BY DEF CampaignInv, TypeOK, PlaceInv, Ports, Playing, States
<1>2. at' \in {"cleanup", "releaseAll", "idle"} /\ runs' \in 0..MaxRuns /\ Quiet /\ consecutiveInvalid' \in Nat
  BY DEF CampaignInv, TypeOK, Quiet
<1> QED
  BY <1>1, <1>2, QuietAway

(* The quiet steps inside a play.                                          *)
LEMMA InPlayInv == ASSUME CampaignInv, Executed \/ Stopped PROVE CampaignInv'
<1> USE DEF Executed, Stopped, Awaiting, budget, records
<1>1. Quiet /\ UNCHANGED <<state, consecutiveInvalid, runs>>
  BY DEF Quiet
<1>2. TypeOK'
  BY <1>1 DEF CampaignInv, TypeOK, Quiet, Ports
<1>3. PlaceInv'
  BY <1>1 DEF CampaignInv, PlaceInv, Playing
<1>4. UNCHANGED <<Last, Target, spentAttempts>>
  BY <1>1 DEF Quiet, Last, Target, spentAttempts
<1>5. (at' \in Playing => at \in Playing) /\ (at' \in Proving => at \in Proving) /\ at' # "save"
  BY DEF Playing, Proving
<1>6. OpenInv' /\ SpendInv'
  BY <1>1, <1>4, <1>5 DEF CampaignInv, OpenInv, SpendInv, Quiet
<1> QED
  BY <1>1, <1>2, <1>3, <1>6, QuietRecords DEF CampaignInv

(* What a record appended for the target leaves in place.                  *)
LEMMA AppendedRecord ==
  ASSUME CampaignInv, NEW new \in Record, attempts' = Append(attempts, new), UNCHANGED targetIndex,
         new.night = Target, ~new.proof, state # "COMPLETE", state' # "COMPLETE"
  PROVE  WonInOrder' /\ ProvenOnEvidence' /\ BehindInv'
<1>1. attempts \in Seq(Record) /\ Target \in 1..7
  BY CampaignAssumption DEF CampaignInv, TypeOK, Record, Target
<1>2. /\ attempts' \in Seq(Record) /\ attempts'[Len(attempts) + 1] = new
      /\ \A i \in 1..Len(attempts) : attempts'[i] = attempts[i]
      /\ DOMAIN attempts = 1..Len(attempts) /\ DOMAIN attempts' = 1..(Len(attempts) + 1)
      /\ Len(attempts) \in Nat
  BY <1>1
<1>3. Won' = Won /\ Target' = Target
  BY DEF Won, Target
<1>4. BehindInv'
  BY <1>1, <1>2, <1>3 DEF CampaignInv, BehindInv
<1>5. ProvenOnEvidence'
  BY <1>2 DEF CampaignInv, ProvenOnEvidence
<1>6. \A i \in DOMAIN attempts' : attempts'[i].proof => \E k \in Won' : attempts'[i].night = Nights[k]
  BY <1>2, <1>3 DEF CampaignInv, WonInOrder
<1>7. \A k \in Won' : \E i \in DOMAIN attempts' : attempts'[i].proof /\ attempts'[i].night = Nights[k]
  BY <1>2, <1>3 DEF CampaignInv, WonInOrder
<1>8. ASSUME NEW i \in DOMAIN attempts', NEW j \in DOMAIN attempts', i < j
      PROVE  attempts'[i].night + (IF attempts'[i].proof THEN 1 ELSE 0) <= attempts'[j].night
  <2>1. i \in DOMAIN attempts /\ attempts'[i] = attempts[i]
    BY <1>2, <1>8
  <2>2. CASE j \in DOMAIN attempts
    BY <1>2, <1>8, <2>1, <2>2 DEF CampaignInv, WonInOrder
  <2>3. CASE j = Len(attempts) + 1
    BY <1>2, <2>1, <2>3 DEF CampaignInv, BehindInv
  <2> QED
    BY <1>2, <2>2, <2>3
<1> QED
  BY <1>4, <1>5, <1>6, <1>7, <1>8 DEF WonInOrder

LEMMA IntroInv == ASSUME CampaignInv, NEW yes \in BOOLEAN, Intro(yes) PROVE CampaignInv'
<1> DEFINE new == [night |-> Target, attempt |-> attempt + 1, status |-> "ACTIVE",
                   terminal |-> "none", verified |-> FALSE, proof |-> FALSE]
<1>1. CASE ~yes
  <2>1. PlaceInv' /\ state' \in States /\ state' # "COMPLETE" /\ state # "COMPLETE" /\ at' = "releaseAll"
    BY <1>1, Table DEF CampaignInv, PlaceInv, Playing, States, Hold, Transition, Intro, Awaiting
  <2>2. runs' \in 0..MaxRuns /\ Quiet /\ consecutiveInvalid' \in Nat
    BY <1>1 DEF CampaignInv, TypeOK, Quiet, budget, records, Intro, Awaiting
  <2> QED
    BY <2>1, <2>2, QuietAway
<1>2. CASE yes
  <2>1. state = "INTRO_VERIFY" /\ at = "intro" /\ at' = "executeAttempt" /\ BeginAttempt /\ UNCHANGED runs
    BY <1>2 DEF Intro, Awaiting, CampaignInv, PlaceInv
  <2>2. /\ attempt \in Nat /\ invalidRuns \in 0..attempt /\ targetIndex \in 1..Len(Nights)
        /\ attempts \in Seq(Record) /\ Target \in 1..7 /\ MaxAttempts \in 1..5
        /\ activeAttempt = Len(attempts)
    BY CampaignAssumption DEF CampaignInv, TypeOK, Record, Target, OpenInv
  <2>3. attempt' = attempt + 1 /\ UNCHANGED <<targetIndex, invalidRuns, consecutiveInvalid>>
    BY <2>1 DEF BeginAttempt
  <2>4. CASE attempt' - invalidRuns > MaxAttempts
    <3>1. state' = "ABORTED" /\ UNCHANGED <<attempts, activeAttempt>>
      BY <2>1, <2>4 DEF BeginAttempt, records
    <3>2. attempt > 0 /\ spentAttempts' > MaxAttempts
      BY <2>2, <2>3, <2>4 DEF spentAttempts
    <3>3. TypeOK'
      BY <2>1, <2>2, <2>3, <3>1 DEF CampaignInv, TypeOK, States, Ports
    <3>4. PlaceInv' /\ OpenInv'
      BY <2>1, <2>2, <2>3, <3>1, <3>2 DEF CampaignInv, PlaceInv, OpenInv, Playing, Proving, Last, Target
    <3>5. SpendInv'
      BY <3>1, <3>2 DEF SpendInv
    <3>6. WonInOrder' /\ ProvenOnEvidence' /\ BehindInv'
      BY <2>1, <2>3, <3>1 DEF CampaignInv, WonInOrder, Won, ProvenOnEvidence, BehindInv, Target
    <3> QED
      BY <3>3, <3>4, <3>5, <3>6 DEF CampaignInv
  <2>5. CASE ~(attempt' - invalidRuns > MaxAttempts)
    <3>1. state' = "ACTIVE" /\ attempts' = Append(attempts, new) /\ activeAttempt' = Len(attempts) + 1
      BY <2>1, <2>3, <2>5 DEF BeginAttempt
    <3>2. new \in Record /\ new.night = Target /\ ~new.proof
      BY <2>2 DEF Record
    <3>3. attempts' \in Seq(Record) /\ Len(attempts') = Len(attempts) + 1 /\ Last' = new /\ Len(attempts) \in Nat
      BY <2>2, <3>1, <3>2 DEF Last
    <3>4. TypeOK'
      BY <2>1, <2>2, <2>3, <3>1, <3>3 DEF CampaignInv, TypeOK, States, Ports, Record
    <3>5. PlaceInv'
      BY <2>1, <3>1 DEF PlaceInv, Playing
    <3>6. OpenInv'
      BY <2>1, <2>2, <2>3, <3>1, <3>3 DEF OpenInv, Playing, Proving, Target
    <3>7. SpendInv'
      BY <2>2, <2>3, <2>5, <3>1 DEF SpendInv, spentAttempts
    <3>8. WonInOrder' /\ ProvenOnEvidence' /\ BehindInv'
      <4> HIDE DEF new
      <4> QED
        BY <2>1, <2>3, <3>1, <3>2, AppendedRecord
    <3> QED
      BY <3>4, <3>5, <3>6, <3>7, <3>8 DEF CampaignInv
  <2> QED
    BY <2>4, <2>5
<1> QED
  BY <1>1, <1>2

(* What writing into records that are not proven leaves in place.          *)
LEMMA RewrittenRecords ==
  ASSUME CampaignInv, attempts' \in Seq(Record), Len(attempts') = Len(attempts), UNCHANGED targetIndex,
         \A i \in DOMAIN attempts : /\ attempts'[i].night = attempts[i].night
                                    /\ attempts'[i].proof <=> attempts[i].proof
                                    /\ attempts[i].proof => attempts'[i] = attempts[i],
         state # "COMPLETE", state' # "COMPLETE"
  PROVE  WonInOrder' /\ ProvenOnEvidence' /\ BehindInv'
<1>1. DOMAIN attempts' = DOMAIN attempts
  BY DEF CampaignInv, TypeOK
<1>2. Won' = Won /\ Target' = Target
  BY DEF Won, Target
<1>3. BehindInv'
  BY <1>1, <1>2 DEF CampaignInv, BehindInv
<1>4. ProvenOnEvidence'
  BY <1>1 DEF CampaignInv, ProvenOnEvidence
<1>5. \A i \in DOMAIN attempts' : attempts'[i].proof => \E k \in Won' : attempts'[i].night = Nights[k]
  BY <1>1, <1>2 DEF CampaignInv, WonInOrder
<1>6. \A k \in Won' : \E i \in DOMAIN attempts' : attempts'[i].proof /\ attempts'[i].night = Nights[k]
  BY <1>1, <1>2 DEF CampaignInv, WonInOrder
<1>7. \A i, j \in DOMAIN attempts' :
         i < j => attempts'[i].night + (IF attempts'[i].proof THEN 1 ELSE 0) <= attempts'[j].night
  BY <1>1 DEF CampaignInv, WonInOrder
<1> QED
  BY <1>3, <1>4, <1>5, <1>6, <1>7 DEF WonInOrder

(* The last record in a play that is being judged or proven.               *)
LEMMA ActiveRecord ==
  ASSUME CampaignInv, at \in Playing \union Proving
  PROVE  /\ attempts \in Seq(Record) /\ activeAttempt = Len(attempts) /\ activeAttempt \in DOMAIN attempts
         /\ Len(attempts) \in Nat \ {0} /\ DOMAIN attempts = 1..Len(attempts)
         /\ attempt \in Nat \ {0} /\ Last = attempts[activeAttempt] /\ Last \in Record
         /\ Last.night = Target /\ ~Last.proof /\ state # "COMPLETE"
<1>1. attempts \in Seq(Record) /\ attempt \in Nat /\ targetIndex \in 1..Len(Nights)
  BY DEF CampaignInv, TypeOK, Record
<1>2. activeAttempt = Len(attempts) /\ attempt > 0 /\ Len(attempts) > 0 /\ Last.night = Target
  BY <1>1 DEF CampaignInv, OpenInv
<1>3. state # "COMPLETE"
  BY DEF CampaignInv, PlaceInv, Playing, Proving
<1>4. Len(attempts) \in Nat /\ DOMAIN attempts = 1..Len(attempts) /\ Last = attempts[activeAttempt]
  BY <1>1, <1>2 DEF Last
<1>5. Last \in Record
  BY <1>1, <1>2, <1>4
<1>6. Target \in 1..7
  BY CampaignAssumption, <1>1 DEF Target
<1>7. ~Last.proof
  BY <1>2, <1>3, <1>4, <1>6 DEF CampaignInv, BehindInv
<1> QED
  BY <1>1, <1>2, <1>3, <1>4, <1>5, <1>7

(* Where a terminal moves the machine and its counters, outcome by outcome.*)
LEMMA TerminalMoves ==
  ASSUME NEW outcome \in Outcomes, Terminal(outcome)
  PROVE  \/ /\ Transition("HOLD", "stopLost") /\ UNCHANGED <<targetIndex, attempt>>
            /\ invalidRuns' \in {invalidRuns, invalidRuns + 1}
            /\ consecutiveInvalid' \in {0, consecutiveInvalid, consecutiveInvalid + 1}
         \/ /\ Transition("RETRY_VERIFY", "stopRetry") /\ UNCHANGED <<targetIndex, attempt>>
            /\ invalidRuns' \in {invalidRuns, invalidRuns + 1}
            /\ consecutiveInvalid' \in {0, consecutiveInvalid + 1}
         \/ /\ Transition("ABORTED", "stopLost") /\ UNCHANGED <<targetIndex, attempt, invalidRuns>>
            /\ consecutiveInvalid' = 0
         \/ /\ outcome = "sixam" /\ Transition("TERMINAL_VERIFY", "stopProof")
            /\ UNCHANGED <<targetIndex, attempt, invalidRuns>> /\ consecutiveInvalid' = 0
<1> USE DEF Terminal, Judged, budget
<1>1. CASE outcome \in {"otherNight", "unexplained"}
  <2>1. Transition("HOLD", "stopLost") /\ UNCHANGED <<targetIndex, attempt, invalidRuns, consecutiveInvalid>>
    BY <1>1
  <2> QED
    BY <2>1
<1>2. CASE outcome = "invalid"
  <2>1. AcceptInvalid
    BY <1>2
  <2>2. UNCHANGED <<targetIndex, attempt>> /\ invalidRuns' = invalidRuns + 1
        /\ consecutiveInvalid' = consecutiveInvalid + 1
        /\ (Transition("HOLD", "stopLost") \/ Transition("RETRY_VERIFY", "stopRetry"))
    BY <2>1 DEF AcceptInvalid
  <2> QED
    BY <2>2
<1>3. CASE outcome = "unknown"
  <2>1. Transition("HOLD", "stopLost") /\ UNCHANGED <<targetIndex, attempt, invalidRuns>> /\ consecutiveInvalid' = 0
    BY <1>3
  <2> QED
    BY <2>1
<1>4. CASE outcome = "death"
  <2>1. /\ Transition("RETRY_VERIFY", "stopRetry") /\ UNCHANGED <<targetIndex, attempt, invalidRuns>>
        /\ consecutiveInvalid' = 0
    BY <1>4
  <2> QED
    BY <2>1
<1>5. CASE outcome = "unproven"
  BY <1>5
<1>6. CASE outcome = "sixam"
  BY <1>6
<1> QED
  BY <1>1, <1>2, <1>3, <1>4, <1>5, <1>6 DEF Outcomes

(* What a terminal writes: the outcome and perhaps a verdict, both into    *)
(* the active record.                                                      *)
LEMMA TerminalWrites ==
  ASSUME CampaignInv, NEW outcome \in Outcomes, Terminal(outcome)
  PROVE  /\ attempts' \in Seq(Record) /\ Len(attempts') = Len(attempts)
         /\ \A i \in DOMAIN attempts : i # activeAttempt => attempts'[i] = attempts[i]
         /\ Last'.night = Last.night /\ Last'.attempt = Last.attempt /\ Last'.proof = Last.proof
         /\ Last'.terminal = outcome
         /\ outcome \notin {"death", "invalid"} => Last'.status = Last.status
         /\ outcome = "invalid" => Last'.status = "INVALID"
         /\ outcome = "death" => Last'.status = "DEATH"
<1> DEFINE verdict == CASE outcome = "death" -> "DEATH" [] outcome = "invalid" -> "INVALID" [] OTHER -> "none"
           status == IF verdict = "none" THEN Last.status ELSE verdict
           judged == [Last EXCEPT !.terminal = outcome, !.status = status]
<1>1. at \in Playing \union Proving
  BY DEF Terminal, Awaiting, Playing
<1>2. status \in {"ACTIVE", "DEATH", "INVALID", "WIN"}
  BY <1>1, ActiveRecord DEF Record
<1>3. outcome \in {"death", "invalid"} \/ status = Last.status
  OBVIOUS
<1>4. (outcome = "invalid" => status = "INVALID") /\ (outcome = "death" => status = "DEATH")
  OBVIOUS
<1>5. /\ judged \in Record /\ judged.night = Last.night /\ judged.attempt = Last.attempt
      /\ judged.proof = Last.proof /\ judged.terminal = outcome /\ judged.status = status
  <2> HIDE DEF status
  <2> QED
    BY <1>1, <1>2, ActiveRecord DEF Record
<1>6. attempts' = [attempts EXCEPT ![activeAttempt] = judged]
  <2>1. activeAttempt # 0 /\ attempts \in Seq(Record) /\ activeAttempt \in DOMAIN attempts /\ Last = attempts[activeAttempt]
    BY <1>1, ActiveRecord
  <2>2. attempts' = [attempts EXCEPT ![activeAttempt].terminal = outcome,
                                     ![activeAttempt].status = IF verdict = "none" THEN @ ELSE verdict]
    BY <2>1 DEF Terminal
  <2> HIDE DEF verdict
  <2> QED
    BY <2>1, <2>2
<1> HIDE DEF judged, status
<1>7. attempts' \in Seq(Record) /\ Len(attempts') = Len(attempts) /\ Last' = judged
      /\ \A i \in DOMAIN attempts : i # activeAttempt => attempts'[i] = attempts[i]
  BY <1>1, <1>5, <1>6, ActiveRecord DEF Last
<1> QED
  BY <1>3, <1>4, <1>5, <1>7

LEMMA TerminalInv == ASSUME CampaignInv, NEW outcome \in Outcomes, Terminal(outcome) PROVE CampaignInv'
<1>1. at = "terminal" /\ state \in {"ACTIVE", "ABORTED"} /\ UNCHANGED <<runs, activeAttempt>>
  BY DEF Terminal, Awaiting, CampaignInv, PlaceInv, Playing
<1>2. at \in Playing \union Proving
  BY <1>1 DEF Playing
<1>3. /\ state' \in States /\ state' # "COMPLETE" /\ PlaceInv'
      /\ at' \in {"stopLost", "stopRetry", "stopProof", "cleanup"}
      /\ at' = "stopProof" => outcome = "sixam" /\ state = "ACTIVE"
  BY <1>1, Table, TerminalMoves DEF Transition, Caught, PlaceInv, Playing, States
<1>4. /\ UNCHANGED <<targetIndex, attempt>> /\ invalidRuns' \in {invalidRuns, invalidRuns + 1}
      /\ consecutiveInvalid' \in {0, consecutiveInvalid, consecutiveInvalid + 1}
  BY TerminalMoves
<1>5. invalidRuns \in 0..attempt /\ attempt \in Nat /\ consecutiveInvalid \in Nat /\ spentAttempts >= 1
  <2>1. MaxAttempts >= 1 /\ MaxAttempts \in Nat /\ invalidRuns \in 0..attempt /\ attempt \in Nat
        /\ consecutiveInvalid \in Nat
    BY CampaignAssumption DEF CampaignInv, TypeOK
  <2>2. spentAttempts \in 1..MaxAttempts \/ spentAttempts > MaxAttempts
    BY <1>1 DEF CampaignInv, SpendInv, Playing
  <2> QED
    BY <2>1, <2>2 DEF spentAttempts
<1>6. invalidRuns' \in 0..attempt /\ consecutiveInvalid' \in Nat
  BY <1>4, <1>5 DEF spentAttempts
<1>7. TypeOK'
  BY <1>1, <1>2, <1>3, <1>4, <1>6, ActiveRecord, TerminalWrites DEF CampaignInv, TypeOK, Record, Ports
<1>8. OpenInv' /\ SpendInv'
  <2>1. at' \notin Playing /\ (at' \in Proving => at' = "stopProof") /\ at' # "save"
    BY <1>3 DEF Playing, Proving
  <2>2. at' \in Proving => Last'.status = "ACTIVE" /\ Last'.terminal = "sixam"
    BY <1>1, <1>3, <2>1, TerminalWrites DEF CampaignInv, OpenInv, Playing
  <2> QED
    BY <1>1, <1>2, <1>4, <2>1, <2>2, ActiveRecord, TerminalWrites DEF OpenInv, SpendInv, Target
<1>9. WonInOrder' /\ ProvenOnEvidence' /\ BehindInv'
  <2>1. attempts'[activeAttempt] = Last' /\ Last = attempts[activeAttempt] /\ ~Last.proof /\ Last'.night = Last.night
        /\ ~Last'.proof
    BY <1>2, ActiveRecord, TerminalWrites DEF Last
  <2>2. \A i \in DOMAIN attempts : /\ attempts'[i].night = attempts[i].night
                                   /\ attempts'[i].proof <=> attempts[i].proof
                                   /\ attempts[i].proof => attempts'[i] = attempts[i]
    BY <2>1, TerminalWrites
  <2> QED
    BY <1>1, <1>3, <1>4, <2>2, TerminalWrites, RewrittenRecords
<1> QED
  BY <1>3, <1>7, <1>8, <1>9 DEF CampaignInv

LEMMA TerminalVerificationInv ==
  ASSUME CampaignInv, NEW yes \in BOOLEAN, TerminalVerification(yes) PROVE CampaignInv'
<1> USE DEF TerminalVerification, Awaiting, budget
<1>1. at = "terminalVerification" /\ state = "TERMINAL_VERIFY" /\ at \in Playing \union Proving
  BY DEF CampaignInv, PlaceInv, Proving
<1>2. CASE ~yes
  <2>1. PlaceInv' /\ state' \in States /\ state' # "COMPLETE" /\ at' = "releaseAll"
    BY <1>1, <1>2, Table DEF Transition, PlaceInv, Playing, States
  <2>2. runs' \in 0..MaxRuns /\ Quiet /\ consecutiveInvalid' \in Nat
    BY <1>2 DEF CampaignInv, TypeOK, Quiet
  <2> QED
    BY <1>1, <2>1, <2>2, QuietAway
<1>3. CASE yes
  <2> DEFINE proven == [Last EXCEPT !.verified = TRUE]
  <2>1. /\ state' = "SAVE_VERIFY" /\ at' = "save"
        /\ UNCHANGED <<targetIndex, attempt, invalidRuns, consecutiveInvalid, activeAttempt, runs>>
    BY <1>1, <1>3, Table DEF Transition
  <2>2. attempts' = [attempts EXCEPT ![activeAttempt] = proven]
    BY <1>1, <1>3, ActiveRecord
  <2>3. /\ proven \in Record /\ proven.night = Last.night /\ ~proven.proof /\ proven.terminal = Last.terminal
        /\ proven.status = Last.status /\ proven.verified
    BY <1>1, ActiveRecord DEF Record
  <2> HIDE DEF proven
  <2>4. /\ attempts' \in Seq(Record) /\ Len(attempts') = Len(attempts) /\ Last' = proven
        /\ \A i \in DOMAIN attempts : i # activeAttempt => attempts'[i] = attempts[i]
        /\ attempts'[activeAttempt] = proven
    BY <1>1, <2>2, <2>3, ActiveRecord DEF Last
  <2>5. TypeOK' /\ PlaceInv'
    BY <1>1, <2>1, <2>4, ActiveRecord DEF CampaignInv, TypeOK, PlaceInv, Record, Ports, States, Playing
  <2>6. OpenInv' /\ SpendInv'
    BY <1>1, <2>1, <2>3, <2>4, ActiveRecord DEF CampaignInv, OpenInv, SpendInv, Target, Playing, Proving
  <2>7. \A i \in DOMAIN attempts : /\ attempts'[i].night = attempts[i].night
                                   /\ attempts'[i].proof <=> attempts[i].proof
                                   /\ attempts[i].proof => attempts'[i] = attempts[i]
    BY <1>1, <2>3, <2>4, ActiveRecord
  <2>8. WonInOrder' /\ ProvenOnEvidence' /\ BehindInv'
    BY <1>1, <2>1, <2>4, <2>7, RewrittenRecords
  <2> QED
    BY <2>5, <2>6, <2>8 DEF CampaignInv
<1> QED
  BY <1>2, <1>3

(* The night is won: its record is proven, and the cursor moves on.        *)
LEMMA SaveInv == ASSUME CampaignInv, Save PROVE CampaignInv'
<1> DEFINE winner == [Last EXCEPT !.status = "WIN", !.proof = TRUE]
<1>1. at = "save" /\ state = "SAVE_VERIFY" /\ at \in Playing \union Proving /\ UNCHANGED runs
  BY DEF CampaignInv, PlaceInv, Proving, Save, Awaiting
<1>2. /\ Last.terminal = "sixam" /\ Last.verified /\ Last \in Record
      /\ targetIndex \in 1..Len(Nights) /\ Len(Nights) \in 1..7 /\ invalidRuns \in 0..attempt /\ runs \in 0..MaxRuns
      /\ consecutiveInvalid \in Nat
  BY <1>1, ActiveRecord, CampaignAssumption DEF CampaignInv, OpenInv, TypeOK, Proving
<1>3. attempts' = [attempts EXCEPT ![activeAttempt] = winner]
  <2>1. activeAttempt # 0 /\ attempts \in Seq(Record) /\ activeAttempt \in DOMAIN attempts /\ Last = attempts[activeAttempt]
    BY <1>1, ActiveRecord
  <2>2. attempts' = [attempts EXCEPT ![activeAttempt].status = "WIN", ![activeAttempt].proof = TRUE]
    BY <2>1 DEF Save
  <2> QED
    BY <2>1, <2>2
<1>4. /\ winner \in Record /\ winner.night = Target /\ winner.proof /\ winner.terminal = "sixam"
      /\ winner.status = "WIN" /\ winner.verified
  BY <1>1, <1>2, ActiveRecord DEF Record
<1> HIDE DEF winner
<1>5. /\ attempts' \in Seq(Record) /\ Len(attempts') = Len(attempts) /\ Last' = winner
      /\ \A i \in DOMAIN attempts : i # activeAttempt => attempts'[i] = attempts[i]
      /\ attempts'[activeAttempt] = winner /\ DOMAIN attempts' = DOMAIN attempts
      /\ activeAttempt' = activeAttempt /\ consecutiveInvalid' = consecutiveInvalid
  <2>1. activeAttempt' = activeAttempt /\ consecutiveInvalid' = consecutiveInvalid
    BY DEF Save
  <2>2. attempts' \in Seq(Record) /\ Len(attempts') = Len(attempts) /\ DOMAIN attempts' = DOMAIN attempts
    BY <1>1, <1>3, <1>4, ActiveRecord
  <2> QED
    BY <1>1, <1>3, <2>1, <2>2, ActiveRecord DEF Last
<1>6. \/ /\ targetIndex < Len(Nights) /\ targetIndex' = targetIndex + 1 /\ Target' = Target + 1
         /\ attempt' = 0 /\ invalidRuns' = 0 /\ state' = "MENU" /\ at' = "menu"
      \/ /\ targetIndex = Len(Nights) /\ state' = "COMPLETE" /\ at' = "releaseAll"
         /\ UNCHANGED <<targetIndex, attempt, invalidRuns, Target>>
  <2>1. CASE targetIndex < Len(Nights)
    <3>1. /\ targetIndex' = targetIndex + 1 /\ attempt' = 0 /\ invalidRuns' = 0
          /\ state' = "MENU" /\ at' = "menu"
      BY <1>1, <2>1, Table DEF Save, Transition
    <3>2. Target' = Target + 1
      BY <1>2, <2>1, <3>1, Consecutive DEF Target
    <3> QED
      BY <2>1, <3>1, <3>2
  <2>2. CASE ~(targetIndex < Len(Nights))
    <3>1. /\ targetIndex = Len(Nights) /\ state' = "COMPLETE" /\ at' = "releaseAll"
          /\ UNCHANGED <<targetIndex, attempt, invalidRuns>>
      BY <1>1, <1>2, <2>2, Table DEF Save, Transition
    <3> QED
      BY <3>1 DEF Target
  <2> QED
    BY <2>1, <2>2
<1>7. TypeOK' /\ PlaceInv'
  BY <1>1, <1>2, <1>5, <1>6, ActiveRecord DEF CampaignInv, TypeOK, PlaceInv, Record, Ports, States, Playing
<1>8. OpenInv' /\ SpendInv'
  BY <1>1, <1>4, <1>5, <1>6, ActiveRecord DEF OpenInv, SpendInv, Playing, Proving
<1>9. ProvenOnEvidence'
  BY <1>4, <1>5 DEF CampaignInv, ProvenOnEvidence
<1>10. \A i \in DOMAIN attempts : attempts[i].night + (IF attempts[i].proof THEN 1 ELSE 0) <= Target
  BY <1>1 DEF CampaignInv, BehindInv
<1>11. BehindInv'
  <2> SUFFICES ASSUME state' = "MENU", NEW i \in DOMAIN attempts
               PROVE  attempts'[i].night + (IF attempts'[i].proof THEN 1 ELSE 0) <= Target'
    BY <1>5, <1>6 DEF BehindInv
  <2>1. Target' = Target + 1 /\ Target \in 1..7 /\ attempts[i].night \in 1..7
    <3>1. Target' = Target + 1
      BY <1>6
    <3>2. Target \in 1..7
      BY <1>2, Consecutive DEF Target
    <3>3. attempts[i] \in Record
      BY <1>1, ActiveRecord
    <3> QED
      BY <3>1, <3>2, <3>3 DEF Record
  <2> QED
    BY <1>4, <1>5, <1>10, <2>1
<1>12. Won = 1..(targetIndex - 1) /\ Won' = 1..targetIndex
  BY <1>1, <1>2, <1>6 DEF Won
<1>13. WonInOrder'
  <2>1. \A i \in DOMAIN attempts' : attempts'[i].proof => \E k \in Won' : attempts'[i].night = Nights[k]
    <3> SUFFICES ASSUME NEW i \in DOMAIN attempts, attempts'[i].proof
                 PROVE  \E k \in 1..targetIndex : attempts'[i].night = Nights[k]
      BY <1>5, <1>12
    <3>1. CASE i = activeAttempt
      BY <1>2, <1>4, <1>5, <3>1 DEF Target
    <3>2. CASE i # activeAttempt
      <4>1. attempts[i].proof /\ attempts'[i] = attempts[i]
        BY <1>5, <3>2
      <4>2. PICK k \in 1..(targetIndex - 1) : attempts[i].night = Nights[k]
        BY <1>12, <4>1 DEF CampaignInv, WonInOrder
      <4>3. k \in 1..targetIndex
        BY <1>2
      <4> QED
        BY <4>1, <4>2, <4>3
    <3> QED
      BY <3>1, <3>2
  <2>2. \A k \in Won' : \E i \in DOMAIN attempts' : attempts'[i].proof /\ attempts'[i].night = Nights[k]
    <3> SUFFICES ASSUME NEW k \in Won'
                 PROVE  \E i \in DOMAIN attempts' : attempts'[i].proof /\ attempts'[i].night = Nights[k]
      OBVIOUS
    <3>1. CASE k = targetIndex
      BY <1>1, <1>4, <1>5, <3>1, ActiveRecord DEF Target
    <3>2. CASE k # targetIndex
      <4>1. PICK i \in DOMAIN attempts : attempts[i].proof /\ attempts[i].night = Nights[k]
        BY <1>2, <1>12, <3>2 DEF CampaignInv, WonInOrder
      <4>2. i # activeAttempt
        BY <1>1, <4>1, ActiveRecord
      <4> QED
        BY <1>5, <4>1, <4>2
    <3> QED
      BY <3>1, <3>2
  <2>3. \A i, j \in DOMAIN attempts' :
           i < j => attempts'[i].night + (IF attempts'[i].proof THEN 1 ELSE 0) <= attempts'[j].night
    <3> SUFFICES ASSUME NEW i \in DOMAIN attempts, NEW j \in DOMAIN attempts, i < j
                 PROVE  attempts'[i].night + (IF attempts'[i].proof THEN 1 ELSE 0) <= attempts'[j].night
      BY <1>5
    <3>1. attempts'[i] = attempts[i] /\ attempts'[j].night = attempts[j].night
      BY <1>1, <1>4, <1>5, ActiveRecord
    <3> QED
      BY <3>1 DEF CampaignInv, WonInOrder
  <2> QED
    BY <2>1, <2>2, <2>3 DEF WonInOrder
<1> QED
  BY <1>7, <1>8, <1>9, <1>11, <1>13 DEF CampaignInv

(***************************************************************************)
(* The invariant, and what it gives.                                       *)
(***************************************************************************)
LEMMA StepInv == CampaignInv /\ [Next]_vars => CampaignInv'
<1> SUFFICES ASSUME CampaignInv, [Next]_vars PROVE CampaignInv'
  OBVIOUS
<1>1. ASSUME NEW yes \in BOOLEAN, Preflight(yes) \/ Menu(yes) \/ CustomNight(yes) \/ RetryReady(yes)
      PROVE  CampaignInv'
  BY <1>1, AnswerInv
<1>2. ASSUME NEW yes \in BOOLEAN, Intro(yes) PROVE CampaignInv'
  BY <1>2, IntroInv
<1>3. ASSUME NEW yes \in BOOLEAN, TerminalVerification(yes) PROVE CampaignInv'
  BY <1>3, TerminalVerificationInv
<1>4. ASSUME NEW outcome \in Outcomes, Terminal(outcome) PROVE CampaignInv'
  BY <1>4, TerminalInv
<1>5. CASE UNCHANGED vars
  <2>1. Quiet /\ UNCHANGED <<state, consecutiveInvalid, at, runs>>
    BY <1>5 DEF vars, budget, records, Quiet
  <2> QED
    BY <2>1 DEF CampaignInv, Quiet, TypeOK, PlaceInv, OpenInv, BehindInv, SpendInv, WonInOrder, ProvenOnEvidence,
                Won, Last, Target, spentAttempts
<1> QED
  BY <1>1, <1>2, <1>3, <1>4, <1>5, StartRunInv, ResumeInv, InPlayInv, SaveInv, EndingInv DEF Next, Answer

LEMMA Invariant == Spec => []CampaignInv
  BY InitInv, StepInv, PTL DEF Spec

(* Every variable keeps its type, whatever the ports answer: the cursor    *)
(* never leaves the chain, and no more runs are refunded than were played. *)
THEOREM Typed == Spec => []TypeOK
<1>1. CampaignInv => TypeOK
  BY DEF CampaignInv
<1> QED
  BY <1>1, Invariant, PTL

(* The proven records are the nights behind the cursor, in order: no night *)
(* is skipped, proven twice, or proven by the run of another.              *)
THEOREM InOrder == Spec => []WonInOrder
<1>1. CampaignInv => WonInOrder
  BY DEF CampaignInv
<1> QED
  BY <1>1, Invariant, PTL

(* No night is proven but by a run whose own terminal and verification     *)
(* were positive.                                                          *)
THEOREM OnEvidence == Spec => []ProvenOnEvidence
<1>1. CampaignInv => ProvenOnEvidence
  BY DEF CampaignInv
<1> QED
  BY <1>1, Invariant, PTL

(***************************************************************************)
(* The first run(): no play begins with the budget spent, so every play    *)
(* has its record, and a verdict is written once.                          *)
(***************************************************************************)
LEMMA FirstRunInit == Init => FirstRunInv
  BY DEF Init, FirstRunInv

(* Before the first run() nothing but its start can happen.                *)
LEMMA NothingBefore ==
  ASSUME CampaignInv, FirstRunInv, runs = 0, Next PROVE StartRun
<1>1. at = "idle" /\ state = "IDLE"
  BY DEF FirstRunInv
<1> QED
  BY <1>1 DEF Next, Answer, Resume, Preflight, Menu, CustomNight, Intro, Executed, Terminal, Stopped, RetryReady,
              TerminalVerification, Save, PortFails, CleanedUp, Released, Awaiting, Ports

LEMMA FirstRunStep == CampaignInv /\ FirstRunInv /\ [Next]_vars => FirstRunInv'
<1> SUFFICES ASSUME CampaignInv, FirstRunInv, [Next]_vars PROVE FirstRunInv'
  OBVIOUS
<1> DEFINE Entering == {"preflight", "menu", "customNight", "intro"}
<1>0. runs \in Nat /\ attempt \in Nat /\ invalidRuns \in 0..attempt /\ MaxAttempts \in 1..5
  BY CampaignAssumption DEF CampaignInv, TypeOK
<1>1. CASE UNCHANGED vars
  BY <1>1 DEF vars, budget, records, FirstRunInv, spentAttempts
<1>2. CASE StartRun
  <2>1. runs' = runs + 1 /\ UNCHANGED <<attempt, invalidRuns>> /\ at' \in {"preflight", "cleanup"}
    BY <1>2 DEF StartRun, Transition, Caught, budget
  <2>2. runs' = 1 => spentAttempts' < MaxAttempts
    BY <1>0, <2>1 DEF FirstRunInv, spentAttempts
  <2> QED
    BY <1>0, <2>1, <2>2 DEF FirstRunInv, Playing
<1>3. CASE ~StartRun /\ Next
  <2>1. runs # 0
    BY <1>3, NothingBefore
  <2> SUFFICES ASSUME runs = 1
               PROVE  /\ at' \in Entering => spentAttempts' < MaxAttempts
                      /\ at' \in Playing => state' = "ACTIVE"
    <3>1. UNCHANGED runs
      BY <1>3 DEF Next, Answer, Resume, Preflight, Menu, CustomNight, Intro, Executed, Terminal, Stopped, RetryReady,
                  TerminalVerification, Save, PortFails, CleanedUp, Released, Awaiting
    <3> QED
      BY <2>1, <3>1 DEF FirstRunInv
  <2>2. (at \in Entering => spentAttempts < MaxAttempts) /\ (at \in Playing => state = "ACTIVE")
    BY DEF FirstRunInv
  <2>3. CASE Resume \/ Stopped \/ CleanedUp \/ Released \/ PortFails
    BY <2>3 DEF Resume, Stopped, CleanedUp, Released, PortFails, Awaiting, Caught, Playing
  <2>4. ASSUME NEW yes \in BOOLEAN, Preflight(yes) \/ Menu(yes) \/ CustomNight(yes)
        PROVE  spentAttempts' < MaxAttempts /\ at' \notin Playing
    <3>1. at \in Entering /\ UNCHANGED <<attempt, invalidRuns>>
      BY <2>4 DEF Preflight, Menu, CustomNight, Awaiting, budget
    <3>2. at' \notin Playing
      BY <2>4 DEF Preflight, Menu, CustomNight, Hold, Transition, Caught, Playing
    <3> QED
      BY <2>2, <3>1, <3>2 DEF spentAttempts
  <2>5. ASSUME NEW yes \in BOOLEAN, RetryReady(yes)
        PROVE  (at' \in Entering => spentAttempts' < MaxAttempts) /\ at' \notin Playing
    <3>1. UNCHANGED <<attempt, invalidRuns>> /\ at' \notin Playing
      BY <2>5 DEF RetryReady, budget, Hold, Transition, Caught, Playing
    <3>2. at' \in Entering => ~(spentAttempts >= MaxAttempts)
      BY <2>5 DEF RetryReady, Hold, Transition, Caught
    <3> QED
      BY <1>0, <3>1, <3>2 DEF spentAttempts
  <2>6. ASSUME NEW yes \in BOOLEAN, Intro(yes)
        PROVE  at' \notin Entering /\ (at' \in Playing => state' = "ACTIVE")
    <3>1. CASE ~yes
      BY <2>6, <3>1 DEF Intro, Hold, Transition, Caught, Playing
    <3>2. CASE yes
      <4>1. at = "intro" /\ at' = "executeAttempt" /\ BeginAttempt
        BY <2>6, <3>2 DEF Intro, Awaiting
      <4>2. attempt' = attempt + 1 /\ ~(attempt' - invalidRuns > MaxAttempts)
        BY <1>0, <2>2, <4>1 DEF BeginAttempt, spentAttempts
      <4>3. state' = "ACTIVE"
        BY <4>1, <4>2 DEF BeginAttempt
      <4> QED
        BY <4>1, <4>3
    <3> QED
      BY <3>1, <3>2
  <2>7. CASE Executed
    BY <2>2, <2>7 DEF Executed, Awaiting, Playing
  <2>8. ASSUME NEW outcome \in Outcomes, Terminal(outcome) PROVE at' \notin Entering \union Playing
    BY <2>8, TerminalMoves DEF Transition, Caught, Playing
  <2>9. ASSUME NEW yes \in BOOLEAN, TerminalVerification(yes) PROVE at' \notin Entering \union Playing
    BY <2>9 DEF TerminalVerification, Transition, Caught, Playing
  <2>10. CASE Save
    <3>1. at' \notin Playing /\ (at' \in Entering => attempt' = 0 /\ invalidRuns' = 0)
      BY <2>10 DEF Save, Transition, Caught, Playing, CampaignInv, PlaceInv, TRANSITIONS, States, Awaiting
    <3> QED
      BY <1>0, <3>1 DEF spentAttempts
  <2> QED
    BY <1>3, <2>3, <2>4, <2>5, <2>6, <2>7, <2>8, <2>9, <2>10 DEF Next, Answer
<1> QED
  BY <1>1, <1>2, <1>3

LEMMA FirstRun == Spec => []FirstRunInv
  BY InitInv, StepInv, FirstRunInit, FirstRunStep, PTL DEF Spec

(* In the first run(), whatever is played on the phone is the last record, *)
(* of this night and this attempt, and not yet judged.                     *)
THEOREM Recorded == Spec => []FirstRunRecorded
<1>1. CampaignInv /\ FirstRunInv => FirstRunRecorded
  <2> SUFFICES ASSUME CampaignInv, FirstRunInv, runs <= 1, at = "executeAttempt" PROVE EveryPlayRecorded
    BY DEF FirstRunRecorded, EveryPlayRecorded
  <2>1. at \in Playing /\ state = "ACTIVE"
    BY DEF CampaignInv, TypeOK, FirstRunInv, Playing
  <2>2. Last.status = "ACTIVE" /\ Last.terminal = "none" /\ Last.attempt = attempt
    BY <2>1 DEF CampaignInv, OpenInv
  <2> QED
    BY <2>1, <2>2, ActiveRecord DEF EveryPlayRecorded
<1> QED
  BY <1>1, Invariant, FirstRun, PTL

(* In the first run(), no step writes into a record that has its verdict.  *)
THEOREM Stand == Spec => VerdictsStand
<1> DEFINE Kept == \A i \in DOMAIN attempts :
                     attempts[i].status # "ACTIVE" => i \in DOMAIN attempts' /\ attempts'[i] = attempts[i]
<1>1. ASSUME CampaignInv, FirstRunInv, [Next]_vars, runs <= 1 PROVE Kept
  <2>0. attempts \in Seq(Record) /\ runs \in Nat
    BY <1>1 DEF CampaignInv, TypeOK, Record
  <2>1. CASE UNCHANGED attempts
    BY <2>1
  <2>2. ASSUME NEW outcome \in Outcomes, Terminal(outcome) PROVE Kept
    <3>1. at = "terminal" /\ at \in Playing /\ state = "ACTIVE"
      BY <1>1, <2>0, <2>2 DEF Terminal, Awaiting, FirstRunInv, Playing
    <3>2. attempts[activeAttempt].status = "ACTIVE"
      BY <1>1, <3>1, ActiveRecord DEF CampaignInv, OpenInv
    <3>3. DOMAIN attempts' = DOMAIN attempts /\ \A i \in DOMAIN attempts : i # activeAttempt => attempts'[i] = attempts[i]
      BY <1>1, <2>0, <2>2, TerminalWrites
    <3> QED
      BY <3>2, <3>3
  <2>3. ASSUME at \in Proving,
               \E r : attempts' = [attempts EXCEPT ![activeAttempt] = r]
        PROVE  Kept
    BY <1>1, <2>3, ActiveRecord DEF CampaignInv, OpenInv
  <2>4. ASSUME NEW yes \in BOOLEAN, TerminalVerification(yes) PROVE Kept
    <3>1. at \in Proving
      BY <2>4 DEF TerminalVerification, Awaiting, Proving
    <3>2. UNCHANGED attempts \/ attempts' = [attempts EXCEPT ![activeAttempt] = [attempts[activeAttempt] EXCEPT !.verified = TRUE]]
      BY <2>4 DEF TerminalVerification
    <3> QED
      BY <2>1, <2>3, <3>1, <3>2
  <2>5. CASE Save
    <3>1. at \in Proving
      BY <2>5 DEF Save, Awaiting, Proving
    <3>2. activeAttempt # 0 /\ activeAttempt \in DOMAIN attempts
      BY <1>1, <3>1, ActiveRecord
    <3>3. attempts' = [attempts EXCEPT ![activeAttempt].status = "WIN", ![activeAttempt].proof = TRUE]
      BY <2>5, <3>2 DEF Save
    <3>4. attempts' = [attempts EXCEPT ![activeAttempt] = [attempts[activeAttempt] EXCEPT !.status = "WIN", !.proof = TRUE]]
      BY <2>0, <3>2, <3>3
    <3> QED
      BY <2>3, <3>1, <3>4
  <2>6. ASSUME NEW yes \in BOOLEAN, Intro(yes) PROVE Kept
    <3>1. UNCHANGED attempts \/ \E r : attempts' = Append(attempts, r)
      BY <2>6 DEF Intro, BeginAttempt, records
    <3> QED
      BY <2>0, <3>1
  <2>7. CASE UNCHANGED vars \/ StartRun \/ Resume \/ Executed \/ Stopped \/ PortFails \/ CleanedUp \/ Released
    BY <2>1, <2>7 DEF vars, records, StartRun, Resume, Executed, Stopped, PortFails, CleanedUp, Released
  <2>8. ASSUME NEW yes \in BOOLEAN, Preflight(yes) \/ Menu(yes) \/ CustomNight(yes) \/ RetryReady(yes) PROVE Kept
    BY <2>1, <2>8 DEF records, Preflight, Menu, CustomNight, RetryReady
  <2> QED
    BY <1>1, <2>2, <2>4, <2>5, <2>6, <2>7, <2>8 DEF Next, Answer
<1>2. CampaignInv /\ FirstRunInv /\ [Next]_vars => [runs <= 1 => Kept]_vars
  BY <1>1
<1> HIDE DEF Kept
<1>3. Spec => [][runs <= 1 => Kept]_vars
  BY <1>2, Invariant, FirstRun, PTL DEF Spec
<1> QED
  BY <1>3 DEF VerdictsStand, Kept

(***************************************************************************)
(* The chain of nights: every step plays, judges or aborts there, or       *)
(* leaves it alone.                                                        *)
(***************************************************************************)
Spending == Least(spentAttempts, MaxAttempts)
Open == activeAttempt # 0 /\ attempts[activeAttempt].status = "ACTIVE"
Chained == [Chain!Next]_(Chain!chain)

LEMMA ChainInit == Init => Chain!Init
  BY CampaignAssumption DEF Init, Chain!Init, Least, spentAttempts

(* A step that counts nothing and judges nothing: it may end in ABORTED.   *)
LEMMA QuietChained ==
  ASSUME state # "COMPLETE", state' # "COMPLETE", state = "ABORTED" => state' = "ABORTED",
         UNCHANGED <<targetIndex, Spending>>, Open' <=> Open
  PROVE  Chained
<1>1. CASE state' = "ABORTED" /\ state # "ABORTED"
  BY <1>1 DEF Chained, Chain!Next, Chain!Abort, Chain!chain, Spending, Open
<1>2. CASE (state' = "ABORTED") <=> (state = "ABORTED")
  BY <1>2 DEF Chained, Chain!Next, Chain!chain, Spending, Open
<1> QED
  BY <1>1, <1>2

(* No transition leaves ABORTED.                                           *)
LEMMA AbortedStays ==
  ASSUME NEW next, NEW port, Transition(next, port), state = "ABORTED" PROVE state' = "ABORTED"
  BY Table DEF Transition, Caught

LEMMA StillChained ==
  ASSUME CampaignInv, UNCHANGED <<state, targetIndex, attempt, invalidRuns, attempts, activeAttempt>> PROVE Chained
  BY DEF Chained, Chain!chain, spentAttempts, Least

LEMMA BetweenChained ==
  ASSUME CampaignInv,
         \/ StartRun \/ Resume \/ Executed \/ Stopped \/ PortFails \/ CleanedUp \/ Released
         \/ \E yes \in BOOLEAN : Preflight(yes) \/ Menu(yes) \/ CustomNight(yes) \/ RetryReady(yes)
  PROVE  Chained
<1>1. UNCHANGED <<targetIndex, attempt, invalidRuns, attempts, activeAttempt>>
  BY DEF StartRun, Resume, Executed, Stopped, PortFails, CleanedUp, Released, Preflight, Menu, CustomNight, RetryReady,
         budget, records
<1>2. UNCHANGED state \/ (state # "COMPLETE" /\ state' # "COMPLETE" /\ state # "ABORTED")
  <2>1. CASE Executed \/ Stopped \/ CleanedUp \/ Released
    BY <2>1 DEF Executed, Stopped, CleanedUp, Released
  <2>2. CASE StartRun \/ Resume \/ PortFails
    BY <2>2, Table DEF StartRun, Resume, PortFails, Transition, Caught
  <2>3. ASSUME NEW yes \in BOOLEAN, Preflight(yes) \/ Menu(yes) \/ CustomNight(yes) \/ RetryReady(yes)
        PROVE  state # "COMPLETE" /\ state' # "COMPLETE" /\ state # "ABORTED"
    BY <2>3, Table DEF CampaignInv, PlaceInv, Preflight, Menu, CustomNight, RetryReady, Awaiting, Hold, Transition, Caught
  <2> QED
    BY <2>1, <2>2, <2>3
<1>3. UNCHANGED Spending /\ (Open' <=> Open)
  BY <1>1 DEF Spending, Open, spentAttempts, Least
<1> QED
  BY <1>1, <1>2, <1>3, QuietChained, StillChained

LEMMA IntroChained == ASSUME CampaignInv, NEW yes \in BOOLEAN, Intro(yes) PROVE Chained
<1>0. at = "intro" /\ state = "INTRO_VERIFY"
  BY DEF Intro, Awaiting, CampaignInv, PlaceInv
<1>1. CASE ~yes
  <2>1. state' # "COMPLETE" /\ UNCHANGED <<targetIndex, attempt, invalidRuns, attempts, activeAttempt>>
    BY <1>0, <1>1 DEF Intro, Hold, Transition, Caught, budget, records
  <2> QED
    BY <1>0, <2>1, QuietChained DEF Spending, Open, spentAttempts, Least
<1>2. CASE yes
  <2>0. BeginAttempt
    BY <1>2 DEF Intro
  <2>1. /\ attempt \in Nat /\ invalidRuns \in 0..attempt /\ MaxAttempts \in 1..5 /\ targetIndex \in 1..Len(Nights)
        /\ attempts \in Seq(Record) /\ Len(Nights) \in 1..7
    BY CampaignAssumption DEF CampaignInv, TypeOK, Record
  <2>2. attempt' = attempt + 1 /\ UNCHANGED <<targetIndex, invalidRuns>>
    BY <2>0 DEF BeginAttempt
  <2>3. CASE attempt' - invalidRuns > MaxAttempts
    <3>1. state' = "ABORTED" /\ UNCHANGED <<attempts, activeAttempt>>
      BY <2>0, <2>3 DEF BeginAttempt, records
    <3>2. Spending' = MaxAttempts /\ Spending = MaxAttempts
      BY <2>1, <2>2, <2>3 DEF Spending, spentAttempts, Least
    <3> QED
      BY <1>0, <2>2, <3>1, <3>2, QuietChained DEF Open
  <2>4. CASE ~(attempt' - invalidRuns > MaxAttempts)
    <3>1. state' = "ACTIVE" /\ activeAttempt' = Len(attempts) + 1
          /\ \E new : new.status = "ACTIVE" /\ attempts' = Append(attempts, new)
      BY <2>0, <2>4 DEF BeginAttempt
    <3>2. Open'
      BY <2>1, <3>1 DEF Open
    <3>3. Spending < MaxAttempts /\ Spending' = Spending + 1
      BY <2>1, <2>2, <2>4 DEF Spending, spentAttempts, Least
    <3>4. targetIndex - 1 < Len(Nights)
      BY <2>1
    <3>5. Chain!Play
      BY <1>0, <2>2, <3>1, <3>2, <3>3, <3>4 DEF Chain!Play, Spending, Open
    <3> QED
      BY <3>5 DEF Chained, Chain!Next
  <2> QED
    BY <2>3, <2>4
<1> QED
  BY <1>1, <1>2

(* A run that is judged lost: an Invalid one is refunded, a death is not.  *)
LEMMA TerminalCounts ==
  ASSUME NEW outcome \in Outcomes, Terminal(outcome)
  PROVE  /\ UNCHANGED <<targetIndex, attempt, activeAttempt>>
         /\ invalidRuns' = IF outcome = "invalid" THEN invalidRuns + 1 ELSE invalidRuns
         /\ outcome \in {"death", "invalid"} =>
              Transition("HOLD", "stopLost") \/ Transition("RETRY_VERIFY", "stopRetry")
<1> USE DEF Terminal, Judged, budget
<1>1. CASE outcome \in {"otherNight", "unexplained"}
  <2>1. UNCHANGED <<targetIndex, attempt, invalidRuns, activeAttempt>>
    BY <1>1
  <2> QED
    BY <1>1, <2>1
<1>2. CASE outcome = "invalid"
  <2>1. AcceptInvalid /\ UNCHANGED activeAttempt
    BY <1>2
  <2> QED
    BY <1>2, <2>1 DEF AcceptInvalid
<1>3. CASE outcome = "death"
  <2>1. Transition("RETRY_VERIFY", "stopRetry") /\ UNCHANGED <<targetIndex, attempt, invalidRuns, activeAttempt>>
    BY <1>3
  <2> QED
    BY <1>3, <2>1
<1>4. CASE outcome \in {"unknown", "unproven", "sixam"}
  <2>1. UNCHANGED <<targetIndex, attempt, invalidRuns, activeAttempt>>
    BY <1>4
  <2> QED
    BY <1>4, <2>1
<1> QED
  BY <1>1, <1>2, <1>3, <1>4 DEF Outcomes

LEMMA TerminalChained == ASSUME CampaignInv, NEW outcome \in Outcomes, Terminal(outcome) PROVE Chained
<1>1. at = "terminal" /\ state \in {"ACTIVE", "ABORTED"} /\ at \in Playing /\ at \in Playing \union Proving
  BY DEF Terminal, Awaiting, CampaignInv, PlaceInv, Playing
<1>2. state' # "COMPLETE"
  BY <1>1, TerminalMoves DEF Transition, Caught
<1>3. /\ UNCHANGED targetIndex /\ attempt' = attempt
      /\ invalidRuns' = IF outcome = "invalid" THEN invalidRuns + 1 ELSE invalidRuns
  BY TerminalCounts
<1>4. (Open <=> Last.status = "ACTIVE") /\ (Open' <=> Last'.status = "ACTIVE")
  <2>1. activeAttempt # 0 /\ activeAttempt' = activeAttempt /\ activeAttempt = Len(attempts)
        /\ Len(attempts') = Len(attempts)
    BY <1>1, ActiveRecord, TerminalCounts, TerminalWrites
  <2>2. (activeAttempt # 0)' /\ attempts'[activeAttempt'] = Last'
    BY <2>1 DEF Last
  <2> QED
    BY <2>1, <2>2 DEF Open, Last
<1>5. MaxAttempts \in 1..5 /\ attempt \in Nat /\ invalidRuns \in 0..attempt
  BY CampaignAssumption DEF CampaignInv, TypeOK
<1>6. CASE state = "ABORTED"
  <2>1. state' = "ABORTED"
    BY <1>6, TerminalMoves, AbortedStays
  <2>2. UNCHANGED Spending
    BY <1>1, <1>3, <1>5, <1>6 DEF CampaignInv, SpendInv, Spending, spentAttempts, Least
  <2>3. CASE Open /\ ~Open'
    <3>1. Chain!Judge
      BY <1>3, <1>6, <2>1, <2>2, <2>3 DEF Chain!Judge, Open, Spending
    <3> QED
      BY <3>1 DEF Chained, Chain!Next
  <2>4. CASE Open' <=> Open
    BY <1>2, <1>3, <1>6, <2>1, <2>2, <2>4, QuietChained
  <2>5. Open' => Open
    BY <1>4, TerminalWrites DEF Outcomes
  <2> QED
    BY <2>3, <2>4, <2>5
<1>7. CASE state = "ACTIVE"
  <2>1. Open /\ spentAttempts \in 1..MaxAttempts
    BY <1>1, <1>4, <1>7 DEF CampaignInv, OpenInv, SpendInv
  <2>2. CASE outcome \in {"death", "invalid"}
    <3>1. state' \in {"HOLD", "RETRY_VERIFY"}
      BY <1>7, <2>2, Table, TerminalCounts DEF Transition
    <3>2. ~Open'
      BY <1>4, <2>2, TerminalWrites
    <3>3. Spending' = IF outcome = "invalid" THEN Spending - 1 ELSE Spending
      BY <1>3, <1>5, <2>1 DEF Spending, spentAttempts, Least
    <3>4. Chain!Judge
      BY <1>3, <1>7, <2>1, <3>1, <3>2, <3>3 DEF Chain!Judge, Open, Spending
    <3> QED
      BY <3>4 DEF Chained, Chain!Next
  <2>3. CASE outcome \notin {"death", "invalid"}
    <3>1. Open' <=> Open
      BY <1>4, <2>3, TerminalWrites
    <3>2. UNCHANGED Spending
      BY <1>3, <2>3 DEF Spending, spentAttempts, Least
    <3> QED
      BY <1>2, <1>3, <1>7, <3>1, <3>2, QuietChained
  <2> QED
    BY <2>2, <2>3
<1> QED
  BY <1>1, <1>6, <1>7

LEMMA TerminalVerificationChained ==
  ASSUME CampaignInv, NEW yes \in BOOLEAN, TerminalVerification(yes) PROVE Chained
<1>1. at \in Playing \union Proving /\ state = "TERMINAL_VERIFY"
  BY DEF TerminalVerification, Awaiting, CampaignInv, PlaceInv, Proving
<1>2. state' # "COMPLETE" /\ UNCHANGED <<targetIndex, attempt, invalidRuns, activeAttempt>>
  BY <1>1 DEF TerminalVerification, Transition, Caught, budget
<1>3. attempts' = attempts \/ attempts' = [attempts EXCEPT ![activeAttempt] = [attempts[activeAttempt] EXCEPT !.verified = TRUE]]
  BY DEF TerminalVerification
<1>4. attempts'[activeAttempt].status = attempts[activeAttempt].status
  <2>1. [attempts[activeAttempt] EXCEPT !.verified = TRUE].status = attempts[activeAttempt].status
    BY <1>1, ActiveRecord DEF Record
  <2> QED
    BY <1>1, <1>3, <2>1, ActiveRecord
<1>5. (Open' <=> Open) /\ UNCHANGED Spending
  BY <1>2, <1>4 DEF Open, Spending, spentAttempts, Least
<1> QED
  BY <1>1, <1>2, <1>5, QuietChained

LEMMA SaveChained == ASSUME CampaignInv, Save PROVE Chained
<1>1. at = "save" /\ state = "SAVE_VERIFY" /\ at \in Proving /\ at \in Playing \union Proving
  BY DEF Save, Awaiting, CampaignInv, PlaceInv, Proving
<1>2. /\ targetIndex \in 1..Len(Nights) /\ Len(Nights) \in 1..7 /\ MaxAttempts \in 1..5
  BY CampaignAssumption DEF CampaignInv, TypeOK
<1>3. Open /\ ~Open'
  <2>1. activeAttempt # 0 /\ activeAttempt' = activeAttempt /\ attempts \in Seq(Record) /\ activeAttempt \in DOMAIN attempts
        /\ Last = attempts[activeAttempt] /\ Last.status = "ACTIVE" /\ Last \in Record
    BY <1>1, ActiveRecord DEF Save, CampaignInv, OpenInv
  <2>2. attempts' = [attempts EXCEPT ![activeAttempt].status = "WIN", ![activeAttempt].proof = TRUE]
    BY <2>1 DEF Save
  <2>3. attempts' = [attempts EXCEPT ![activeAttempt] = [Last EXCEPT !.status = "WIN", !.proof = TRUE]]
    BY <2>1, <2>2
  <2>4. [Last EXCEPT !.status = "WIN", !.proof = TRUE].status = "WIN"
    BY <2>1 DEF Record
  <2>5. attempts'[activeAttempt].status = "WIN"
    BY <2>1, <2>3, <2>4
  <2> QED
    BY <2>1, <2>5 DEF Open
<1>4. CASE targetIndex < Len(Nights)
  <2>1. targetIndex' = targetIndex + 1 /\ attempt' = 0 /\ invalidRuns' = 0 /\ state' = "MENU"
    BY <1>1, <1>4, Table DEF Save, Transition
  <2>2. Spending' = 0
    BY <1>2, <2>1 DEF Spending, spentAttempts, Least
  <2>3. targetIndex' - 1 = (targetIndex - 1) + 1 /\ targetIndex' - 1 # Len(Nights)
    BY <1>2, <1>4, <2>1
  <2>4. Chain!Judge
    BY <1>1, <1>3, <2>1, <2>2, <2>3 DEF Chain!Judge, Open, Spending
  <2> QED
    BY <2>4 DEF Chained, Chain!Next
<1>5. CASE ~(targetIndex < Len(Nights))
  <2>1. state' = "COMPLETE"
    BY <1>1, <1>5, Table DEF Save, Transition
  <2>2. Len(Nights) = (targetIndex - 1) + 1
    BY <1>2, <1>5
  <2>3. Chain!Judge
    BY <1>1, <1>3, <2>1, <2>2 DEF Chain!Judge, Open
  <2> QED
    BY <2>3 DEF Chained, Chain!Next
<1> QED
  BY <1>4, <1>5

LEMMA NextChained == CampaignInv /\ [Next]_vars => Chained
<1> SUFFICES ASSUME CampaignInv, [Next]_vars PROVE Chained
  OBVIOUS
<1>1. CASE UNCHANGED vars
  BY <1>1, StillChained DEF vars, budget, records
<1>2. ASSUME NEW yes \in BOOLEAN, Intro(yes) PROVE Chained
  BY <1>2, IntroChained
<1>3. ASSUME NEW yes \in BOOLEAN, TerminalVerification(yes) PROVE Chained
  BY <1>3, TerminalVerificationChained
<1>4. ASSUME NEW outcome \in Outcomes, Terminal(outcome) PROVE Chained
  BY <1>4, TerminalChained
<1> QED
  BY <1>1, <1>2, <1>3, <1>4, BetweenChained, SaveChained DEF Next, Answer

(* Whatever the ports answer and however often a held campaign is run      *)
(* again: nights are won in order by plays of their own, within the budget *)
(* and with Invalid runs refunded, and a verdict is final.                 *)
THEOREM Refines == Spec => ChainSpec
<1>1. CampaignInv /\ [Next]_vars => [Chain!Next]_(Chain!chain)
  BY NextChained DEF Chained
<1> QED
  BY ChainInit, <1>1, Invariant, PTL DEF Spec, ChainSpec, Chain!Spec

(***************************************************************************)
(* Two Invalid runs in a row.                                              *)
(***************************************************************************)
LEMMA StreakInit == Init => StreakInv
  BY DEF Init, StreakInv

(* Steps that write no record, and leave an ended run() ended.             *)
LEMMA StreakQuiet ==
  ASSUME StreakInv, UNCHANGED attempts, runs' <= 1 => runs <= 1,
         at' \in Before => at \in Before /\ consecutiveInvalid' = consecutiveInvalid,
         at' \in Playing => at \in Playing /\ consecutiveInvalid' = consecutiveInvalid,
         at' \in Proving => at \in Proving
  PROVE  StreakInv'
  BY DEF StreakInv, Last

LEMMA StreakIntro ==
  ASSUME CampaignInv, FirstRunInv', StreakInv, NEW yes \in BOOLEAN, Intro(yes) PROVE StreakInv'
<1>1. CASE UNCHANGED attempts
  <2>1. at = "intro" /\ UNCHANGED <<runs, consecutiveInvalid>> /\ at' \in {"executeAttempt", "cleanup", "releaseAll"}
    BY DEF Intro, Awaiting, Hold, Transition, Caught, BeginAttempt, budget
  <2>2. at = "intro" /\ attempts \in Seq(Record)
    BY <2>1 DEF CampaignInv, TypeOK, Record
  <2>3. CASE at' # "executeAttempt"
    BY <1>1, <2>1, <2>3, StreakQuiet DEF Before, Playing, Proving
  <2>4. CASE at' = "executeAttempt"
    <3>1. BeginAttempt
      BY <2>4 DEF Intro, Hold, Transition, Caught
    <3>2. state' = "ABORTED"
      <4>1. ASSUME NEW new, attempts' = Append(attempts, new) PROVE FALSE
        BY <1>1, <2>2, <4>1
      <4> QED
        BY <3>1, <4>1 DEF BeginAttempt
    <3>3. at' \in Playing
      BY <2>4 DEF Playing
    <3>4. runs' # 0 /\ runs' # 1 /\ runs' \in Nat
      BY <2>1, <2>4, <3>2, <3>3 DEF FirstRunInv, CampaignInv, TypeOK
    <3>5. ~(runs' <= 1)
      BY <3>4
    <3> QED
      BY <3>5 DEF StreakInv
  <2> QED
    BY <2>3, <2>4
<1>2. CASE ~UNCHANGED attempts
  <2>1. /\ at = "intro" /\ at' = "executeAttempt" /\ UNCHANGED <<runs, consecutiveInvalid>>
        /\ \E new : new.status = "ACTIVE" /\ attempts' = Append(attempts, new)
    BY <1>2 DEF Intro, Awaiting, BeginAttempt, records
  <2>2. PICK new : new.status = "ACTIVE" /\ attempts' = Append(attempts, new)
    BY <2>1
  <2>3. attempts \in Seq(Record) /\ Len(attempts) \in Nat /\ runs \in Nat
    BY DEF CampaignInv, TypeOK, Record
  <2>4. /\ Len(attempts') = Len(attempts) + 1 /\ attempts'[Len(attempts) + 1] = new
        /\ \A i \in 1..Len(attempts) : attempts'[i] = attempts[i]
    BY <2>2, <2>3
  <2> SUFFICES ASSUME runs <= 1
               PROVE  /\ \A i \in 1..Len(attempts) :
                            ~(attempts'[i].status = "INVALID" /\ attempts'[i + 1].status = "INVALID")
                      /\ Len(attempts) > 0 /\ attempts'[Len(attempts)].status = "INVALID" => consecutiveInvalid' > 0
    BY <2>1, <2>3, <2>4 DEF StreakInv, Before, Playing, Proving
  <2>5. /\ \A i \in 1..(Len(attempts) - 1) :
              ~(attempts[i].status = "INVALID" /\ attempts[i + 1].status = "INVALID")
        /\ Len(attempts) > 0 /\ attempts[Len(attempts)].status = "INVALID" => consecutiveInvalid > 0
    BY <2>1 DEF StreakInv, Before, Last
  <2>6. ASSUME NEW i \in 1..Len(attempts)
        PROVE  ~(attempts'[i].status = "INVALID" /\ attempts'[i + 1].status = "INVALID")
    <3>1. CASE i = Len(attempts)
      BY <2>2, <2>3, <2>4, <3>1
    <3>2. CASE i # Len(attempts)
      <4>1. i \in 1..(Len(attempts) - 1) /\ i + 1 \in 1..Len(attempts)
        BY <2>3, <3>2
      <4> QED
        BY <2>4, <2>5, <4>1
    <3> QED
      BY <3>1, <3>2
  <2>7. Len(attempts) > 0 /\ attempts'[Len(attempts)].status = "INVALID" => consecutiveInvalid' > 0
    BY <2>1, <2>3, <2>4, <2>5
  <2> QED
    BY <2>6, <2>7
<1> QED
  BY <1>1, <1>2

(* The second of two Invalid runs in a row holds the campaign.             *)
LEMMA StreakTerminal ==
  ASSUME CampaignInv, FirstRunInv, StreakInv, NEW outcome \in Outcomes, Terminal(outcome) PROVE StreakInv'
<1>1. at = "terminal" /\ at \in Playing /\ at \in Playing \union Proving /\ UNCHANGED runs
  BY DEF Terminal, Awaiting, Playing
<1> SUFFICES ASSUME runs <= 1 PROVE StreakInv'
  BY <1>1 DEF StreakInv
<1>2. state = "ACTIVE" /\ Last.status = "ACTIVE" /\ runs \in Nat /\ consecutiveInvalid \in Nat
  BY <1>1 DEF FirstRunInv, CampaignInv, OpenInv, TypeOK
<1>3. /\ attempts \in Seq(Record) /\ Len(attempts) \in Nat \ {0} /\ Len(attempts') = Len(attempts)
      /\ activeAttempt = Len(attempts)
      /\ \A i \in 1..Len(attempts) : i # Len(attempts) => attempts'[i] = attempts[i]
  BY <1>1, ActiveRecord, TerminalWrites
<1>4. \A i \in 1..(Len(attempts) - 1) :
         ~(attempts[i].status = "INVALID" /\ attempts[i + 1].status = "INVALID")
  BY <1>1 DEF StreakInv
<1>5. Len(attempts) > 1 /\ attempts[Len(attempts) - 1].status = "INVALID" => consecutiveInvalid > 0
  BY <1>1 DEF StreakInv
<1>6. \A i \in 1..(Len(attempts') - 1) :
         attempts'[i].status = "INVALID" /\ attempts'[i + 1].status = "INVALID" => i + 1 = Len(attempts')
  <2> SUFFICES ASSUME NEW i \in 1..(Len(attempts) - 1), i + 1 # Len(attempts)
               PROVE  ~(attempts'[i].status = "INVALID" /\ attempts'[i + 1].status = "INVALID")
    BY <1>3
  <2>1. i \in 1..Len(attempts) /\ i + 1 \in 1..Len(attempts) /\ i # Len(attempts)
    BY <1>3
  <2> QED
    BY <1>3, <1>4, <2>1
<1>7. at' \notin Playing
  BY TerminalMoves DEF Transition, Caught, Playing
<1>8. CASE outcome # "invalid"
  <2>1. Last'.status # "INVALID"
    BY <1>2, <1>8, TerminalWrites
  <2>2. \A i \in 1..(Len(attempts') - 1) :
         ~(attempts'[i].status = "INVALID" /\ attempts'[i + 1].status = "INVALID")
    BY <1>6, <2>1 DEF Last
  <2> QED
    BY <1>7, <2>1, <2>2 DEF StreakInv
<1>9. CASE outcome = "invalid"
  <2>1. AcceptInvalid
    BY <1>9 DEF Terminal
  <2>2. consecutiveInvalid' = consecutiveInvalid + 1 /\ consecutiveInvalid' > 0
    BY <1>2, <2>1 DEF AcceptInvalid
  <2>3. consecutiveInvalid' >= 2 => at' = "stopLost"
    BY <1>2, <2>1, Table DEF AcceptInvalid, INVALID_RUNS_HOLD, Judged, Transition
  <2>4. ~(consecutiveInvalid' >= 2) => at' = "stopRetry"
    BY <1>2, <2>1, Table DEF AcceptInvalid, INVALID_RUNS_HOLD, Judged, Transition
  <2>5. ASSUME NEW i \in 1..(Len(attempts') - 1),
               attempts'[i].status = "INVALID", attempts'[i + 1].status = "INVALID"
        PROVE  at' = "stopLost"
    <3>1. i = Len(attempts) - 1 /\ Len(attempts) > 1 /\ attempts'[i] = attempts[i]
      BY <1>3, <1>6, <2>5
    <3>2. consecutiveInvalid > 0
      BY <1>5, <2>5, <3>1
    <3> QED
      BY <1>2, <2>2, <2>3, <3>2
  <2>6. at' = "stopLost" => at' \notin Before \union Playing \union Proving
    BY DEF Before, Playing, Proving
  <2> QED
    BY <1>6, <1>7, <2>2, <2>5, <2>6 DEF StreakInv
<1> QED
  BY <1>8, <1>9

LEMMA StreakProving ==
  ASSUME CampaignInv, StreakInv, Save \/ \E yes \in BOOLEAN : TerminalVerification(yes) PROVE StreakInv'
<1>1. at \in Proving /\ at \in Playing \union Proving /\ UNCHANGED runs
  BY DEF Save, TerminalVerification, Awaiting, Proving
<1> SUFFICES ASSUME runs <= 1 PROVE StreakInv'
  BY <1>1 DEF StreakInv
<1>2. /\ attempts \in Seq(Record) /\ Len(attempts) \in Nat \ {0} /\ activeAttempt = Len(attempts)
      /\ Last.status = "ACTIVE" /\ Last = attempts[Len(attempts)] /\ Last \in Record
  BY <1>1, ActiveRecord DEF CampaignInv, OpenInv
<1>3. \E r \in Record : r.status \in {"ACTIVE", "WIN"} /\ attempts' = [attempts EXCEPT ![Len(attempts)] = r]
  <2>1. CASE Save
    <3>1. attempts' = [attempts EXCEPT ![activeAttempt].status = "WIN", ![activeAttempt].proof = TRUE]
      BY <1>2, <2>1 DEF Save
    <3>2. attempts' = [attempts EXCEPT ![Len(attempts)] = [Last EXCEPT !.status = "WIN", !.proof = TRUE]]
      BY <1>2, <3>1
    <3>3. [Last EXCEPT !.status = "WIN", !.proof = TRUE] \in Record /\ [Last EXCEPT !.status = "WIN", !.proof = TRUE].status = "WIN"
      BY <1>2 DEF Record
    <3> QED
      BY <3>2, <3>3
  <2>2. ASSUME NEW yes \in BOOLEAN, TerminalVerification(yes)
        PROVE  \E r \in Record : r.status \in {"ACTIVE", "WIN"} /\ attempts' = [attempts EXCEPT ![Len(attempts)] = r]
    <3>1. CASE UNCHANGED attempts
      <4>1. attempts' = [attempts EXCEPT ![Len(attempts)] = Last]
        BY <1>2, <3>1
      <4> QED
        BY <1>2, <4>1
    <3>2. CASE attempts' = [attempts EXCEPT ![activeAttempt].verified = TRUE]
      <4>1. attempts' = [attempts EXCEPT ![Len(attempts)] = [Last EXCEPT !.verified = TRUE]]
        BY <1>2, <3>2
      <4>2. [Last EXCEPT !.verified = TRUE] \in Record /\ [Last EXCEPT !.verified = TRUE].status = "ACTIVE"
        BY <1>2 DEF Record
      <4> QED
        BY <4>1, <4>2
    <3> QED
      BY <2>2, <3>1, <3>2 DEF TerminalVerification
  <2> QED
    BY <2>1, <2>2
<1>4. PICK r \in Record : r.status \in {"ACTIVE", "WIN"} /\ attempts' = [attempts EXCEPT ![Len(attempts)] = r]
  BY <1>3
<1>5. /\ Len(attempts') = Len(attempts) /\ attempts'[Len(attempts)] = r
      /\ \A i \in 1..Len(attempts) : i # Len(attempts) => attempts'[i] = attempts[i]
  BY <1>2, <1>4
<1>6. \A i \in 1..(Len(attempts) - 1) :
         ~(attempts[i].status = "INVALID" /\ attempts[i + 1].status = "INVALID")
  BY <1>1 DEF StreakInv
<1>7. \A i \in 1..(Len(attempts') - 1) :
         ~(attempts'[i].status = "INVALID" /\ attempts'[i + 1].status = "INVALID")
  <2> SUFFICES ASSUME NEW i \in 1..(Len(attempts) - 1)
               PROVE  ~(attempts'[i].status = "INVALID" /\ attempts'[i + 1].status = "INVALID")
    BY <1>5
  <2>1. CASE i + 1 = Len(attempts)
    BY <1>4, <1>5, <2>1
  <2>2. CASE i + 1 # Len(attempts)
    <3>1. i \in 1..Len(attempts) /\ i + 1 \in 1..Len(attempts) /\ i # Len(attempts)
      BY <1>2
    <3> QED
      BY <1>5, <1>6, <2>2, <3>1
  <2> QED
    BY <2>1, <2>2
<1>8. at' \notin Playing /\ Last'.status # "INVALID"
  BY <1>4, <1>5 DEF Last, Save, TerminalVerification, Transition, Caught, Playing
<1> QED
  BY <1>7, <1>8 DEF StreakInv

LEMMA StreakStep == CampaignInv /\ FirstRunInv /\ StreakInv /\ [Next]_vars => StreakInv'
<1> SUFFICES ASSUME CampaignInv, FirstRunInv, StreakInv, [Next]_vars PROVE StreakInv'
  OBVIOUS
<1>0. runs \in Nat /\ attempts \in Seq(Record)
  BY DEF CampaignInv, TypeOK, Record
<1>1. CASE StartRun
  <2>1. runs' = runs + 1 /\ UNCHANGED attempts /\ at' \in {"preflight", "cleanup"}
    BY <1>1 DEF StartRun, Transition, Caught, records
  <2>2. runs' <= 1 => attempts = <<>>
    BY <1>0, <2>1 DEF FirstRunInv
  <2> QED
    BY <2>1, <2>2 DEF StreakInv, Playing
<1>2. CASE UNCHANGED vars
  BY <1>2, StreakQuiet DEF vars, records, budget
<1>3. CASE Resume \/ Executed \/ Stopped \/ PortFails \/ CleanedUp \/ Released
  <2>1. /\ UNCHANGED <<attempts, runs>>
        /\ at' \in Before => at \in Before /\ consecutiveInvalid' = consecutiveInvalid
        /\ at' \in Playing => at \in Playing /\ consecutiveInvalid' = consecutiveInvalid
        /\ at' \in Proving => at \in Proving
    BY <1>3 DEF Resume, Executed, Stopped, PortFails, CleanedUp, Released, Awaiting, Caught, budget, records,
                Before, Playing, Proving
  <2> QED
    BY <2>1, StreakQuiet
<1>4. ASSUME NEW yes \in BOOLEAN, Preflight(yes) \/ Menu(yes) \/ CustomNight(yes) \/ RetryReady(yes)
      PROVE  StreakInv'
  <2>1. UNCHANGED <<attempts, runs, consecutiveInvalid>> /\ at \in Before
    BY <1>4 DEF Preflight, Menu, CustomNight, RetryReady, Awaiting, budget, records, Before
  <2>2. at' \notin Playing /\ at' \notin Proving
    BY <1>4 DEF Preflight, Menu, CustomNight, RetryReady, Hold, Transition, Caught, Playing, Proving
  <2> QED
    BY <2>1, <2>2, StreakQuiet
<1>5. ASSUME NEW yes \in BOOLEAN, Intro(yes) PROVE StreakInv'
  BY <1>5, StreakIntro, FirstRunStep
<1>6. ASSUME NEW outcome \in Outcomes, Terminal(outcome) PROVE StreakInv'
  BY <1>6, StreakTerminal
<1>7. CASE Save \/ \E yes \in BOOLEAN : TerminalVerification(yes)
  BY <1>7, StreakProving
<1> QED
  BY <1>1, <1>2, <1>3, <1>4, <1>5, <1>6, <1>7 DEF Next, Answer

(* In one run() nothing is played after two Invalid runs in a row.         *)
THEOREM Held == Spec => []TwoInvalidHold
<1>1. CampaignInv /\ StreakInv => TwoInvalidHold
  BY DEF StreakInv, TwoInvalidHold
<1> QED
  BY <1>1, InitInv, StepInv, FirstRunInit, FirstRunStep, StreakInit, StreakStep, PTL DEF Spec

(***************************************************************************)
(* The budget of a night.                                                  *)
(***************************************************************************)
(* The runs of night n that count, in records r.                           *)
Counting(r, n) == {i \in DOMAIN r : r[i].night = n /\ r[i].status # "INVALID"}
Counts(r, n) == Cardinality(Counting(r, n))

(* While the campaign goes on, no more runs of the target count than the   *)
(* machine has spent, and one that was Invalid left room for another; so a *)
(* play beyond the budget never follows one.                               *)
BudgetInv ==
  /\ \A n \in 1..7 : Counts(attempts, n) <= MaxAttempts
  /\ state \notin {"ABORTED", "COMPLETE"} =>
       /\ spentAttempts <= MaxAttempts /\ Counts(attempts, Target) <= spentAttempts
       /\ Len(attempts) > 0 /\ Last.night = Target /\ Last.status = "INVALID" => spentAttempts < MaxAttempts
  /\ at \in Playing /\ state = "ABORTED" /\ Len(attempts) > 0 => Last.status # "INVALID"

LEMMA CountedFinite ==
  ASSUME NEW r \in Seq(Record), NEW n
  PROVE  IsFiniteSet(Counting(r, n)) /\ Counts(r, n) \in Nat
<1>1. IsFiniteSet(1..Len(r)) /\ Counting(r, n) \in SUBSET (1..Len(r))
  BY FS_Interval DEF Counting
<1> QED
  BY <1>1, FS_Subset, FS_CardinalityType DEF Counts

(* An appended record counts one for its own night.                        *)
LEMMA CountedAppended ==
  ASSUME NEW r \in Seq(Record), NEW new \in Record, new.status # "INVALID", NEW n
  PROVE  Counts(Append(r, new), n) = Counts(r, n) + (IF new.night = n THEN 1 ELSE 0)
<1> DEFINE s == Append(r, new)
<1>1. /\ s \in Seq(Record) /\ Len(r) \in Nat /\ DOMAIN s = 1..(Len(r) + 1) /\ DOMAIN r = 1..Len(r)
      /\ s[Len(r) + 1] = new /\ \A i \in 1..Len(r) : s[i] = r[i]
  OBVIOUS
<1> HIDE DEF s
<1>2. Counting(s, n) = IF new.night = n THEN Counting(r, n) \union {Len(r) + 1} ELSE Counting(r, n)
  BY <1>1 DEF Counting
<1>3. Len(r) + 1 \notin Counting(r, n)
  BY <1>1 DEF Counting
<1>4. IsFiniteSet(Counting(r, n))
  BY CountedFinite
<1>5. Cardinality(Counting(r, n) \union {Len(r) + 1}) = Cardinality(Counting(r, n)) + 1
  BY <1>3, <1>4, FS_AddElement
<1>6. Counts(r, n) \in Nat
  BY CountedFinite
<1>7. Counts(s, n) = Counts(r, n) + (IF new.night = n THEN 1 ELSE 0)
  BY <1>2, <1>5, <1>6 DEF Counts
<1> QED
  BY <1>7 DEF s

(* A record rewritten in place: what it counted, and what it counts now.   *)
LEMMA CountedRewritten ==
  ASSUME NEW r \in Seq(Record), NEW s \in Seq(Record), Len(s) = Len(r), NEW k \in DOMAIN r,
         \A i \in DOMAIN r : i # k => s[i] = r[i], s[k].night = r[k].night, NEW n
  PROVE  /\ (s[k].status = "INVALID" <=> r[k].status = "INVALID") => Counts(s, n) = Counts(r, n)
         /\ s[k].status = "INVALID" => Counts(s, n) <= Counts(r, n)
         /\ s[k].status = "INVALID" /\ r[k].status # "INVALID" /\ r[k].night = n => Counts(s, n) = Counts(r, n) - 1
<1>1. DOMAIN s = DOMAIN r
  OBVIOUS
<1>2. (s[k].status = "INVALID" <=> r[k].status = "INVALID") => Counting(s, n) = Counting(r, n)
  BY <1>1 DEF Counting
<1>3. s[k].status = "INVALID" => Counting(s, n) = Counting(r, n) \ {k}
  BY <1>1 DEF Counting
<1>4. Cardinality(Counting(r, n) \ {k}) = IF k \in Counting(r, n) THEN Counts(r, n) - 1 ELSE Counts(r, n)
  BY CountedFinite, FS_RemoveElement DEF Counts
<1>5. r[k].status # "INVALID" /\ r[k].night = n => k \in Counting(r, n)
  BY DEF Counting
<1>6. Counts(r, n) \in Nat
  BY CountedFinite
<1>7. CASE s[k].status = "INVALID"
  <2>1. Counts(s, n) = IF k \in Counting(r, n) THEN Counts(r, n) - 1 ELSE Counts(r, n)
    BY <1>3, <1>4, <1>7 DEF Counts
  <2> QED
    BY <1>2, <1>5, <1>6, <2>1, <1>7 DEF Counts
<1>8. CASE s[k].status # "INVALID"
  BY <1>2, <1>8 DEF Counts
<1> QED
  BY <1>7, <1>8

LEMMA BudgetInit == Init => BudgetInv
<1> SUFFICES ASSUME Init PROVE BudgetInv
  OBVIOUS
<1>1. \A n : Counts(attempts, n) = 0
  BY FS_EmptySet DEF Init, Counts, Counting
<1>2. MaxAttempts \in Nat /\ MaxAttempts > 0
  BY CampaignAssumption
<1>3. spentAttempts = 0 /\ attempts = <<>> /\ at \notin Playing
  BY DEF Init, spentAttempts, Playing
<1> QED
  BY <1>1, <1>2, <1>3 DEF BudgetInv

(* Steps that write no record and spend nothing.                           *)
LEMMA BudgetQuiet ==
  ASSUME BudgetInv, Quiet, state' \notin {"ABORTED", "COMPLETE"} => state \notin {"ABORTED", "COMPLETE"},
         at' \in Playing => at \in Playing /\ state' = state
  PROVE  BudgetInv'
<1>1. UNCHANGED <<Last, Target, spentAttempts>>
  BY DEF Quiet, Last, Target, spentAttempts
<1> QED
  BY <1>1 DEF BudgetInv, Quiet

LEMMA BudgetIntro ==
  ASSUME CampaignInv, BudgetInv, NEW yes \in BOOLEAN, Intro(yes) PROVE BudgetInv'
<1> DEFINE new == [night |-> Target, attempt |-> attempt + 1, status |-> "ACTIVE",
                   terminal |-> "none", verified |-> FALSE, proof |-> FALSE]
<1>1. at = "intro" /\ state = "INTRO_VERIFY" /\ Target \in 1..7 /\ attempts \in Seq(Record)
      /\ attempt \in Nat /\ invalidRuns \in 0..attempt /\ MaxAttempts \in Nat
  BY CampaignAssumption DEF Intro, Awaiting, CampaignInv, PlaceInv, TypeOK, Target, Record
<1>2. CASE ~yes
  <2>1. Quiet /\ at' \notin Playing
    BY <1>1, <1>2 DEF Intro, Hold, Transition, Caught, Quiet, budget, records, Playing
  <2> QED
    BY <1>1, <2>1, BudgetQuiet
<1>3. CASE yes
  <2>1. BeginAttempt /\ at' = "executeAttempt" /\ attempt' = attempt + 1 /\ UNCHANGED <<targetIndex, invalidRuns>>
    BY <1>3 DEF Intro, BeginAttempt
  <2>2. /\ spentAttempts \in Int /\ spentAttempts <= MaxAttempts /\ spentAttempts' = spentAttempts + 1
        /\ Target' = Target /\ Counts(attempts, Target) <= spentAttempts
        /\ Len(attempts) > 0 /\ Last.night = Target /\ Last.status = "INVALID" => spentAttempts < MaxAttempts
    BY <1>1, <2>1 DEF BudgetInv, spentAttempts, Target
  <2>3. CASE attempt' - invalidRuns > MaxAttempts
    <3>1. state' = "ABORTED" /\ UNCHANGED attempts
      BY <2>1, <2>3 DEF BeginAttempt, records
    <3>2. spentAttempts = MaxAttempts /\ spentAttempts > 0
      BY <1>1, <2>1, <2>2, <2>3, CampaignAssumption DEF spentAttempts
    <3>3. attempt > 0
      BY <1>1, <3>2 DEF spentAttempts
    <3>4. Len(attempts) > 0 /\ Last.night = Target
      BY <3>3 DEF CampaignInv, OpenInv
    <3>5. Last'.status # "INVALID"
      BY <2>2, <3>1, <3>2, <3>4 DEF Last
    <3> QED
      BY <3>1, <3>5 DEF BudgetInv
  <2>4. CASE ~(attempt' - invalidRuns > MaxAttempts)
    <3>1. state' = "ACTIVE" /\ attempts' = Append(attempts, new)
      BY <2>1, <2>4 DEF BeginAttempt
    <3>2. new \in Record /\ new.night = Target /\ new.status = "ACTIVE"
      BY <1>1 DEF Record
    <3> HIDE DEF new
    <3>3. /\ Counts(attempts', Target) = Counts(attempts, Target) + 1
          /\ \A n \in 1..7 : n # Target => Counts(attempts', n) = Counts(attempts, n)
      <4>1. ASSUME NEW n PROVE Counts(attempts', n) = Counts(attempts, n) + (IF n = Target THEN 1 ELSE 0)
        BY <1>1, <3>1, <3>2, CountedAppended
      <4>2. \A n : Counts(attempts, n) \in Nat
        BY <1>1, CountedFinite
      <4> QED
        BY <4>1, <4>2
    <3>4. Last' = new
      BY <1>1, <3>1, <3>2 DEF Last
    <3>5. spentAttempts' <= MaxAttempts
      BY <2>1, <2>4, <1>1 DEF spentAttempts
    <3>6. \A n \in 1..7 : Counts(attempts, n) \in Nat /\ Counts(attempts, n) <= MaxAttempts
      BY <1>1, CountedFinite DEF BudgetInv
    <3>7. Counts(attempts', Target) \in Nat /\ Counts(attempts', Target) <= spentAttempts'
      <4>1. Counts(attempts, Target) \in Nat
        BY <1>1, CountedFinite
      <4>2. Counts(attempts', Target) = Counts(attempts, Target) + 1
        BY <3>3
      <4> QED
        BY <2>2, <4>1, <4>2
    <3>8. ASSUME NEW n \in 1..7 PROVE Counts(attempts', n) <= MaxAttempts
      <4>1. CASE n = Target
        BY <1>1, <2>2, <3>5, <3>7, <4>1
      <4>2. CASE n # Target
        BY <3>3, <3>6, <4>2
      <4> QED
        BY <4>1, <4>2
    <3>9. Counts(attempts', Target') <= spentAttempts'
      BY <2>2, <3>7
    <3> QED
      BY <3>1, <3>2, <3>4, <3>5, <3>8, <3>9 DEF BudgetInv
  <2> QED
    BY <2>3, <2>4
<1> QED
  BY <1>2, <1>3

LEMMA BudgetTerminal ==
  ASSUME CampaignInv, BudgetInv, NEW outcome \in Outcomes, Terminal(outcome) PROVE BudgetInv'
<1>1. /\ at = "terminal" /\ at \in Playing /\ at \in Playing \union Proving /\ state \in {"ACTIVE", "ABORTED"}
      /\ UNCHANGED <<targetIndex, attempt>> /\ at' \notin Playing
  BY TerminalMoves DEF Terminal, Awaiting, Playing, CampaignInv, PlaceInv, Transition, Caught
<1>2. /\ attempts \in Seq(Record) /\ attempts' \in Seq(Record) /\ Len(attempts') = Len(attempts)
      /\ activeAttempt = Len(attempts) /\ activeAttempt \in DOMAIN attempts /\ Len(attempts) > 0
      /\ \A i \in DOMAIN attempts : i # activeAttempt => attempts'[i] = attempts[i]
      /\ Last = attempts[activeAttempt] /\ Last' = attempts'[activeAttempt]
      /\ Last'.night = Last.night /\ Last.night = Target /\ Target' = Target
      /\ outcome = "invalid" => Last'.status = "INVALID"
      /\ outcome = "death" => Last'.status = "DEATH"
      /\ outcome \notin {"death", "invalid"} => Last'.status = Last.status
  BY <1>1, ActiveRecord, TerminalWrites DEF Last, Target
<1>3. /\ Last.status # "INVALID"
      /\ state' \notin {"ABORTED", "COMPLETE"} => state = "ACTIVE"
  <2>1. state = "ACTIVE" => Last.status = "ACTIVE"
    BY <1>1 DEF CampaignInv, OpenInv
  <2>2. state = "ABORTED" => Last.status # "INVALID"
    BY <1>1, <1>2 DEF BudgetInv
  <2>3. state = "ABORTED" => state' = "ABORTED"
    BY Table, TerminalMoves DEF Transition, Caught
  <2> QED
    BY <1>1, <2>1, <2>2, <2>3
<1>4. ASSUME NEW n PROVE Counts(attempts, n) \in Nat /\ Counts(attempts', n) \in Nat
  BY <1>2, CountedFinite
<1>5. /\ MaxAttempts \in Nat /\ spentAttempts \in Int
      /\ state = "ACTIVE" => spentAttempts <= MaxAttempts /\ Counts(attempts, Target) <= spentAttempts
  BY CampaignAssumption DEF CampaignInv, TypeOK, BudgetInv, spentAttempts
<1>6. CASE outcome = "invalid"
  <2>1. \A n : Counts(attempts', n) <= Counts(attempts, n)
    BY <1>2, <1>6, CountedRewritten
  <2>2. Counts(attempts', Target) = Counts(attempts, Target) - 1
    BY <1>2, <1>3, <1>6, CountedRewritten
  <2>3. invalidRuns' = invalidRuns + 1
    BY <1>6 DEF Terminal, AcceptInvalid
  <2>4. spentAttempts' = spentAttempts - 1
    BY <1>1, <2>3 DEF spentAttempts, CampaignInv, TypeOK
  <2>5. ASSUME NEW n \in 1..7 PROVE Counts(attempts', n) <= MaxAttempts
    <3>1. Counts(attempts, n) <= MaxAttempts /\ Counts(attempts', n) <= Counts(attempts, n)
      BY <2>1 DEF BudgetInv
    <3> QED
      BY <1>4, <1>5, <3>1
  <2>6. state = "ACTIVE" => Counts(attempts', Target') <= spentAttempts' /\ spentAttempts' < MaxAttempts
    <3>1. Counts(attempts', Target') = Counts(attempts, Target) - 1 /\ Counts(attempts, Target) \in Nat
      BY <1>2, <1>4, <2>2
    <3> QED
      BY <1>5, <2>4, <3>1
  <2> QED
    BY <1>1, <1>3, <1>5, <2>4, <2>5, <2>6 DEF BudgetInv
<1>7. CASE outcome # "invalid"
  <2>1. Last'.status # "INVALID"
    BY <1>2, <1>3, <1>7
  <2>2. \A n : Counts(attempts', n) = Counts(attempts, n)
    BY <1>2, <1>3, <2>1, CountedRewritten
  <2>3. UNCHANGED <<invalidRuns, spentAttempts>>
    BY <1>1, <1>7 DEF Terminal, Judged, budget, spentAttempts
  <2>4. Counts(attempts', Target') = Counts(attempts, Target)
    BY <1>2, <2>2
  <2> QED
    BY <1>1, <1>2, <1>3, <1>5, <2>1, <2>2, <2>3, <2>4 DEF BudgetInv
<1> QED
  BY <1>6, <1>7

LEMMA BudgetVerified ==
  ASSUME CampaignInv, BudgetInv, NEW yes \in BOOLEAN, TerminalVerification(yes) PROVE BudgetInv'
<1>1. /\ at \in Playing \union Proving /\ state = "TERMINAL_VERIFY" /\ at' \notin Playing
      /\ UNCHANGED <<targetIndex, attempt, invalidRuns, activeAttempt>>
  BY DEF TerminalVerification, Awaiting, CampaignInv, PlaceInv, Proving, Playing, Transition, Caught, budget
<1>2. CASE UNCHANGED attempts
  BY <1>1, <1>2, BudgetQuiet DEF Quiet
<1>3. CASE ~UNCHANGED attempts
  <2>1. attempts \in Seq(Record) /\ activeAttempt \in DOMAIN attempts /\ activeAttempt = Len(attempts)
        /\ Last = attempts[activeAttempt] /\ Last \in Record /\ Len(attempts) \in Nat \ {0}
    BY <1>1, ActiveRecord
  <2>2. attempts' = [attempts EXCEPT ![activeAttempt].verified = TRUE]
    BY <1>3, <2>1 DEF TerminalVerification
  <2> DEFINE proven == [Last EXCEPT !.verified = TRUE]
  <2>3. attempts' = [attempts EXCEPT ![activeAttempt] = proven]
    BY <2>1, <2>2
  <2>4. proven \in Record /\ proven.night = Last.night /\ proven.status = Last.status
    BY <2>1 DEF Record
  <2> HIDE DEF proven
  <2>5. /\ attempts' \in Seq(Record) /\ Len(attempts') = Len(attempts) /\ Last' = attempts'[activeAttempt]
        /\ Last'.night = Last.night /\ Last'.status = Last.status
        /\ \A i \in DOMAIN attempts : i # activeAttempt => attempts'[i] = attempts[i]
    BY <2>1, <2>3, <2>4 DEF Last
  <2>6. \A n : Counts(attempts', n) = Counts(attempts, n)
    BY <2>1, <2>5, CountedRewritten
  <2>7. UNCHANGED <<Target, spentAttempts>> /\ Counts(attempts', Target') = Counts(attempts, Target)
    BY <1>1, <2>6 DEF Target, spentAttempts
  <2> QED
    BY <1>1, <2>1, <2>5, <2>6, <2>7 DEF BudgetInv
<1> QED
  BY <1>2, <1>3

LEMMA BudgetSave == ASSUME CampaignInv, BudgetInv, Save PROVE BudgetInv'
<1>1. at \in Playing \union Proving /\ at = "save" /\ state = "SAVE_VERIFY" /\ activeAttempt' = activeAttempt
  BY DEF Save, Awaiting, CampaignInv, PlaceInv, Proving
<1>2. /\ attempts \in Seq(Record) /\ activeAttempt \in DOMAIN attempts /\ activeAttempt = Len(attempts)
      /\ Last = attempts[activeAttempt] /\ Last \in Record /\ Last.night = Target /\ Len(attempts) \in Nat \ {0}
  BY <1>1, ActiveRecord
<1>3. Last.status = "ACTIVE"
  BY <1>1 DEF CampaignInv, OpenInv, Proving
<1>4. attempts' = [attempts EXCEPT ![activeAttempt].status = "WIN", ![activeAttempt].proof = TRUE]
  BY <1>2 DEF Save
<1> DEFINE won == [Last EXCEPT !.status = "WIN", !.proof = TRUE]
<1>5. attempts' = [attempts EXCEPT ![activeAttempt] = won]
  BY <1>2, <1>4
<1>6. won \in Record /\ won.night = Last.night /\ won.status = "WIN"
  BY <1>2 DEF Record
<1> HIDE DEF won
<1>7. /\ attempts' \in Seq(Record) /\ Len(attempts') = Len(attempts) /\ DOMAIN attempts' = DOMAIN attempts
      /\ Last' = attempts'[activeAttempt]
      /\ Last'.night = Last.night /\ Last'.status = "WIN"
      /\ \A i \in DOMAIN attempts : i # activeAttempt => attempts'[i] = attempts[i]
  BY <1>2, <1>5, <1>6 DEF Last
<1>8. \A n : Counts(attempts', n) = Counts(attempts, n)
  BY <1>2, <1>3, <1>7, CountedRewritten
<1>9. CASE targetIndex < Len(Nights)
  <2>1. targetIndex' = targetIndex + 1 /\ attempt' = 0 /\ invalidRuns' = 0 /\ at' = "menu" /\ state' = "MENU"
    BY <1>1, <1>9, Table DEF Save, Transition
  <2>2. targetIndex \in 1..Len(Nights) /\ Len(Nights) \in Nat
    BY Consecutive DEF CampaignInv, TypeOK
  <2>3. Target' = Target + 1 /\ Target \in 1..7
    BY <1>9, <2>1, <2>2, Consecutive DEF Target
  <2>4. ASSUME NEW i \in DOMAIN attempts PROVE attempts[i].night # Target'
    <3>1. attempts[i] \in Record /\ attempts[i].night + (IF attempts[i].proof THEN 1 ELSE 0) <= Target
      BY <1>1, <1>2 DEF CampaignInv, BehindInv
    <3> QED
      BY <2>3, <3>1 DEF Record
  <2>5. Counting(attempts, Target') = {}
    BY <2>4 DEF Counting
  <2>6. Counts(attempts', Target') = 0
    BY <1>8, <2>5, FS_EmptySet DEF Counts
  <2>8. spentAttempts' = 0 /\ MaxAttempts \in Nat \ {0}
    BY <2>1, CampaignAssumption DEF spentAttempts
  <2>9. Last'.status # "INVALID" /\ at' \notin Playing
    BY <1>7, <2>1 DEF Playing
  <2> QED
    BY <1>8, <2>6, <2>8, <2>9 DEF BudgetInv
<1>10. CASE ~(targetIndex < Len(Nights))
  <2>1. at' = "releaseAll" /\ state' = "COMPLETE"
    BY <1>1, <1>10, Table DEF Save, Transition
  <2> QED
    BY <1>8, <2>1 DEF BudgetInv, Playing
<1> QED
  BY <1>9, <1>10

LEMMA BudgetStep == CampaignInv /\ BudgetInv /\ [Next]_vars => BudgetInv'
<1> SUFFICES ASSUME CampaignInv, BudgetInv, [Next]_vars PROVE BudgetInv'
  OBVIOUS
<1>1. CASE UNCHANGED vars \/ StartRun \/ Resume \/ Executed \/ Stopped \/ PortFails \/ CleanedUp \/ Released
  <2>1. Quiet
    BY <1>1 DEF vars, StartRun, Resume, Executed, Stopped, PortFails, CleanedUp, Released, Quiet, budget, records
  <2>2. state' \notin {"ABORTED", "COMPLETE"} => state \notin {"ABORTED", "COMPLETE"}
    BY <1>1, Table DEF vars, StartRun, Resume, Executed, Stopped, PortFails, CleanedUp, Released, Transition, Caught
  <2>3. at' \in Playing => at \in Playing /\ state' = state
    BY <1>1 DEF vars, StartRun, Resume, Executed, Stopped, PortFails, CleanedUp, Released, Transition, Caught,
                Awaiting, Playing
  <2> QED
    BY <2>1, <2>2, <2>3, BudgetQuiet
<1>2. ASSUME NEW yes \in BOOLEAN, Preflight(yes) \/ Menu(yes) \/ CustomNight(yes) \/ RetryReady(yes)
      PROVE  BudgetInv'
  <2>1. Quiet /\ at' \notin Playing
    BY <1>2 DEF Preflight, Menu, CustomNight, RetryReady, Hold, Transition, Caught, Quiet, budget, records, Playing
  <2>2. state \notin {"ABORTED", "COMPLETE"}
    BY <1>2 DEF Preflight, Menu, CustomNight, RetryReady, Awaiting, CampaignInv, PlaceInv
  <2> QED
    BY <2>1, <2>2, BudgetQuiet
<1> QED
  BY <1>1, <1>2, BudgetIntro, BudgetTerminal, BudgetVerified, BudgetSave DEF Next, Answer

(* However often a held campaign is resumed and run again, no more than    *)
(* MaxAttempts runs of a night are recorded that were not Invalid.         *)
THEOREM Budgeted == Spec => []BudgetKept
<1>1. BudgetInv => BudgetKept
  BY DEF BudgetInv, BudgetKept, Counts, Counting
<1> QED
  BY <1>1, InitInv, StepInv, BudgetInit, BudgetStep, PTL DEF Spec

-------------------------------------------------------------------------------

(***************************************************************************)
(* The ports implement the campaign: what each of their steps does to its  *)
(* variables is an answer Campaign has, or nothing.                        *)
(***************************************************************************)
LEMMA PortStep == ASSUME Port PROVE Next \/ UNCHANGED vars
<1> USE DEF Answers, Go, campaign, Next, Answer
<1>1. CASE PreflightPort
  BY <1>1 DEF PreflightPort
<1>2. CASE MenuRolled \/ MenuReads
  BY <1>2 DEF MenuRolled, MenuReads
<1>3. CASE MenuTaps \/ MenuSettles \/ IntroPrearms \/ AttemptOwns \/ CleanupStops
  BY <1>3 DEF MenuTaps, MenuSettles, IntroPrearms, AttemptOwns, CleanupStops
<1>4. CASE MenuSelected \/ CustomNightPort
  BY <1>4 DEF MenuSelected, CustomNightPort
<1>5. CASE IntroSeesNight
  BY <1>5 DEF IntroSeesNight
<1>6. CASE AttemptEnds \/ PortThrows \/ SavePort
  BY <1>6 DEF AttemptEnds, PortThrows, SavePort
<1>7. CASE RetryPort \/ VerifyPort
  <2>1. Offered(Target) \in BOOLEAN /\ (screen = "sixam") \in BOOLEAN
    BY DEF Offered
  <2>2. (\E yes \in BOOLEAN : RetryReady(yes)) \/ (\E yes \in BOOLEAN : TerminalVerification(yes))
    BY <1>7, <2>1 DEF RetryPort, VerifyPort
  <2> QED
    BY <2>2
<1>8. CASE TerminalPort
  <2>1. PICK outcome \in VenueChecked(ObservedTerminal) : Terminal(outcome)
    BY <1>8 DEF TerminalPort
  <2>2. ObservedTerminal \in {"sixam", "gameover", "invalid"}
    BY <1>8 DEF TerminalPort
  <2>3. VenueChecked(ObservedTerminal) \subseteq Outcomes
    BY <2>2 DEF VenueChecked, Outcomes
  <2> QED
    BY <2>1, <2>3
<1>9. CASE StopPort \/ StopRestarts
  BY <1>9 DEF StopPort, StopRestarts, restartAfterAbort
<1>10. CASE CleanupRestarts \/ ReleaseAll \/ ReleaseRestarts
  BY <1>10 DEF CleanupRestarts, ReleaseAll, ReleaseRestarts, restartAfterAbort
<1> QED
  BY <1>1, <1>2, <1>3, <1>4, <1>5, <1>6, <1>7, <1>8, <1>9, <1>10 DEF Port

LEMMA CampaignStep == [PortsNext]_pvars => [Next]_vars
<1>1. ASSUME Operator PROVE Next
  BY <1>1 DEF Operator, Next
<1>2. ASSUME Game \/ ExecutionSettles \/ Signal PROVE UNCHANGED vars
  BY <1>2 DEF Game, NightBegins, NightEnds, EndingPasses, ExecutionSettles, Signal, SignalArrives, Cleanup,
              SignalStops, SignalRestarts, SignalExits, campaign
<1>3. ASSUME UNCHANGED pvars PROVE UNCHANGED vars
  BY <1>3 DEF pvars, campaign
<1> QED
  BY <1>1, <1>2, <1>3, PortStep DEF PortsNext

(* Whatever the ports do to the phone, the campaign they are awaited by is *)
(* the one Campaign describes, so what is proved of it holds here too.     *)
THEOREM PortsPlayTheCampaign == PortsSpec => Spec
<1>1. PortsInit => Init
  BY DEF PortsInit
<1> QED
  BY <1>1, CampaignStep, PTL DEF PortsSpec, Spec

(***************************************************************************)
(* Where an answer takes the runner.                                       *)
(***************************************************************************)
Unrecorded == UNCHANGED <<targetIndex, attempts, activeAttempt, runs>>

LEMMA PreflightLands ==
  ASSUME CampaignInv, NEW ready \in BOOLEAN, Preflight(ready)
  PROVE  Unrecorded /\ \/ at' = "menu" /\ state' = "MENU"
                       \/ at' = "releaseAll" /\ state' = "HOLD"
  BY Table DEF CampaignInv, PlaceInv, Preflight, Awaiting, Hold, Transition, Unrecorded, records

LEMMA MenuLands ==
  ASSUME CampaignInv, NEW confirmed \in BOOLEAN, Menu(confirmed)
  PROVE  /\ Unrecorded
         /\ ~confirmed => at' = "releaseAll" /\ state' = "HOLD"
         /\ confirmed /\ Target = NIGHT7 => at' = "customNight" /\ state' = "CUSTOM_VERIFY"
         /\ confirmed /\ Target # NIGHT7 => at' = "intro" /\ state' = "INTRO_VERIFY"
  BY Table DEF CampaignInv, PlaceInv, Menu, Awaiting, Hold, Transition, Unrecorded, records

LEMMA CustomNightLands ==
  ASSUME CampaignInv, CustomNight(TRUE)
  PROVE  Unrecorded /\ at' = "intro" /\ state' = "INTRO_VERIFY"
  BY Table DEF CampaignInv, PlaceInv, CustomNight, Awaiting, Hold, Transition, Unrecorded, records

LEMMA IntroLands ==
  ASSUME CampaignInv, NEW observed \in BOOLEAN, Intro(observed)
  PROVE  /\ UNCHANGED <<targetIndex, runs>>
         /\ observed => at' = "executeAttempt" /\ state' \in {"ACTIVE", "ABORTED"}
         /\ ~observed => at' = "releaseAll" /\ state' = "HOLD"
  BY Table DEF CampaignInv, PlaceInv, Intro, Awaiting, BeginAttempt, Hold, Transition, records

LEMMA ExecutedLands ==
  ASSUME Executed PROVE Unrecorded /\ at = "executeAttempt" /\ at' = "terminal" /\ UNCHANGED state
  BY DEF Executed, Awaiting, Unrecorded, records

(* The outcome is in the active record, where the stop port reads it.      *)
LEMMA TerminalLands ==
  ASSUME CampaignInv, NEW outcome \in {"sixam", "death", "invalid"}, Terminal(outcome)
  PROVE  /\ UNCHANGED <<targetIndex, runs>> /\ lastOutcome' = outcome
         /\ \/ at' = "cleanup" /\ state' = "ABORTED"
            \/ outcome = "sixam" /\ at' = "stopProof" /\ state' = "TERMINAL_VERIFY"
            \/ outcome # "sixam" /\ at' = "stopRetry" /\ state' = "RETRY_VERIFY"
            \/ outcome # "sixam" /\ at' = "stopLost" /\ state' = "HOLD"
<1>1. at = "terminal" /\ UNCHANGED <<runs, activeAttempt>> /\ state \in {"ACTIVE", "ABORTED"}
  BY DEF Terminal, Awaiting, CampaignInv, PlaceInv, Playing
<1>2. activeAttempt = Len(attempts) /\ Len(attempts) \in Nat \ {0} /\ attempts \in Seq(Record)
  BY <1>1 DEF CampaignInv, TypeOK, OpenInv, Playing, Record
<1>3. lastOutcome' = outcome
  BY <1>1, <1>2 DEF Terminal, lastOutcome, Record
<1>4. CASE outcome = "sixam"
  <2>1. Transition("TERMINAL_VERIFY", "stopProof") /\ UNCHANGED targetIndex
    BY <1>4 DEF Terminal, Judged
  <2> QED
    BY <1>1, <1>3, <1>4, <2>1, Table DEF Transition, Caught
<1>5. CASE outcome = "death"
  <2>1. Transition("RETRY_VERIFY", "stopRetry") /\ UNCHANGED targetIndex
    BY <1>5 DEF Terminal, Judged
  <2> QED
    BY <1>1, <1>3, <1>5, <2>1, Table DEF Transition, Caught
<1>6. CASE outcome = "invalid"
  <2>1. AcceptInvalid
    BY <1>6 DEF Terminal
  <2>2. (Transition("HOLD", "stopLost") \/ Transition("RETRY_VERIFY", "stopRetry")) /\ UNCHANGED targetIndex
    BY <2>1 DEF AcceptInvalid, Judged
  <2> QED
    BY <1>1, <1>3, <1>6, <2>2, Table DEF Transition, Caught
<1> QED
  BY <1>4, <1>5, <1>6

LEMMA StoppedLands ==
  ASSUME CampaignInv, Stopped
  PROVE  /\ Unrecorded
         /\ \/ at = "stopRetry" /\ at' = "retryReady" /\ state' = "RETRY_VERIFY"
            \/ at = "stopLost" /\ at' = "releaseAll" /\ state' \in {"HOLD", "ABORTED"}
            \/ at = "stopProof" /\ at' = "terminalVerification" /\ state' = "TERMINAL_VERIFY"
  BY DEF CampaignInv, PlaceInv, Stopped, Awaiting, Unrecorded, records

LEMMA RetryReadyLands ==
  ASSUME CampaignInv, NEW ready \in BOOLEAN, RetryReady(ready)
  PROVE  /\ Unrecorded
         /\ \/ at' = "releaseAll" /\ state' \in {"HOLD", "ABORTED"}
            \/ at' = "menu" /\ state' = "MENU"
  BY Table DEF CampaignInv, PlaceInv, RetryReady, Awaiting, Hold, Transition, Unrecorded, records

LEMMA TerminalVerificationLands ==
  ASSUME CampaignInv, NEW positive \in BOOLEAN, TerminalVerification(positive)
  PROVE  /\ UNCHANGED <<targetIndex, runs>>
         /\ \/ at' = "save" /\ state' = "SAVE_VERIFY"
            \/ at' = "releaseAll" /\ state' = "ABORTED"
  BY Table DEF CampaignInv, PlaceInv, TerminalVerification, Awaiting, Transition

LEMMA SaveLands ==
  ASSUME CampaignInv, Save
  PROVE  /\ UNCHANGED runs
         /\ \/ /\ at' = "menu" /\ state' = "MENU" /\ targetIndex' = targetIndex + 1
               /\ targetIndex < Len(Nights)
            \/ at' = "releaseAll" /\ state' = "COMPLETE" /\ UNCHANGED targetIndex
  BY Table DEF CampaignInv, PlaceInv, Save, Awaiting, Transition

LEMMA FailsLands ==
  ASSUME CampaignInv, PortFails
  PROVE  Unrecorded /\ at \in Ports /\ at' = "cleanup" /\ state' = "ABORTED"
  BY DEF CampaignInv, PlaceInv, PortFails, Caught, Unrecorded, records, Playing, Ports

LEMMA EndingLands ==
  ASSUME CampaignInv, CleanedUp \/ Released
  PROVE  /\ Unrecorded /\ UNCHANGED state
         /\ \/ at = "cleanup" /\ at' = "releaseAll" /\ state = "ABORTED"
            \/ at = "releaseAll" /\ at' = "idle"
  BY DEF CampaignInv, PlaceInv, CleanedUp, Released, Awaiting, Unrecorded, records

LEMMA StartLands ==
  ASSUME CampaignInv, StartRun \/ Resume
  PROVE  /\ UNCHANGED <<targetIndex, attempts, activeAttempt>> /\ at = "idle"
         /\ \/ at' = "preflight" /\ state' = "PREFLIGHT" /\ state \in {"IDLE", "HOLD"}
            \/ at' = "cleanup" /\ state' = "ABORTED"
            \/ at' = "idle" /\ state' = "PREFLIGHT" /\ UNCHANGED runs /\ state = "HOLD"
  BY Table DEF StartRun, Resume, Transition, Caught, records

(***************************************************************************)
(* Types.                                                                  *)
(***************************************************************************)
LEMMA StepsTable ==
  /\ \A p \in Ports \union {"idle", "cleanup", "releaseAll"} : "enter" \in StepsOf(p)
  /\ StepsOf("idle") = {"enter"}
  /\ StepsOf("menu") = {"enter", "opened", "press", "settle", "press2", "select"}
  /\ StepsOf("intro") = {"enter", "waiting"} /\ StepsOf("executeAttempt") = {"enter", "running"}
  /\ \A p \in StopPorts \union {"cleanup", "releaseAll"} : StepsOf(p) = {"enter", "restart"}
<1>1. \A p \in StopPorts \union {"cleanup", "releaseAll"} : StepsOf(p) = {"enter", "restart"}
  BY DEF StepsOf, StopPorts
<1>2. \A p \in {"preflight", "customNight", "terminal", "retryReady", "terminalVerification", "save", "idle"} :
         StepsOf(p) = {"enter"}
  BY DEF StepsOf, StopPorts
<1>3. /\ StepsOf("menu") = {"enter", "opened", "press", "settle", "press2", "select"}
      /\ StepsOf("intro") = {"enter", "waiting"} /\ StepsOf("executeAttempt") = {"enter", "running"}
  BY DEF StepsOf, StopPorts
<1> QED
  BY <1>1, <1>2, <1>3 DEF StopPorts, Ports

LEMMA TargetNight == ASSUME CampaignInv PROVE Target \in 1..7
  BY Consecutive DEF CampaignInv, TypeOK, Target

GameTypeOK ==
  /\ screen \in Screens /\ focused \in BOOLEAN
  /\ playing \in 0..7 /\ pressed \in 0..7 /\ cursor \in 1..7
HostTypeOK ==
  /\ menuHid \in BOOLEAN /\ pendingExecution \in BOOLEAN /\ rolledIntoNight \in {0} \union 2..5
  /\ exec \in Live \union Settled \union {"none"} /\ restartFailed \in BOOLEAN

LEMMA TypeInit == PortsInit => PortsTypeOK
<1> SUFFICES ASSUME PortsInit PROVE PortsTypeOK
  OBVIOUS
<1>1. Nights[1] \in 1..7
  BY Consecutive
<1>2. step \in StepsOf(at)
  BY StepsTable DEF PortsInit, Init
<1>3. GameTypeOK
  BY <1>1 DEF PortsInit, GameTypeOK, Screens
<1>4. HostTypeOK /\ signal = "none"
  BY DEF PortsInit, HostTypeOK
<1> QED
  BY <1>2, <1>3, <1>4 DEF PortsTypeOK, GameTypeOK, HostTypeOK, NIGHT7

LEMMA TypeGame == ASSUME CampaignInv, GameTypeOK, PortsNext PROVE GameTypeOK'
<1> USE DEF GameTypeOK, Screens, game, NIGHT7
<1>1. CASE MenuTaps
  <2>1. NightOf(Target) \in 1..7
    BY TargetNight DEF NightOf
  <2>2. UNCHANGED game \/ (focused' = TRUE /\ UNCHANGED cursor /\ (UNCHANGED <<screen, playing, pressed>> \/ Start(Target)))
    BY <1>1 DEF MenuTaps, tap, Press
  <2>3. CASE Start(Target) /\ focused' = TRUE /\ UNCHANGED cursor
    BY <2>1, <2>3 DEF Start
  <2> QED
    BY <2>2, <2>3
<1>2. CASE CustomNightPort
  BY <1>2 DEF CustomNightPort
<1>3. CASE StopRestarts \/ CleanupRestarts \/ ReleaseRestarts \/ SignalRestarts
  <2>1. UNCHANGED game \/ Relaunched
    BY <1>3 DEF StopRestarts, CleanupRestarts, ReleaseRestarts, SignalRestarts, restartAfterAbort
  <2> QED
    BY <2>1 DEF Relaunched
<1>4. CASE Game
  BY <1>4 DEF Game, NightBegins, NightEnds, EndingPasses, rolls
<1>5. ASSUME UNCHANGED game PROVE GameTypeOK'
  BY <1>5
<1>6. CASE Operator \/ ExecutionSettles \/ SignalArrives \/ SignalStops \/ SignalExits
  BY <1>5, <1>6 DEF Operator, ExecutionSettles, SignalArrives, SignalStops, SignalExits
<1>7. CASE PreflightPort \/ MenuRolled \/ MenuReads \/ MenuSettles \/ MenuSelected \/ IntroPrearms \/ IntroSeesNight
  BY <1>5, <1>7 DEF PreflightPort, MenuRolled, MenuReads, MenuSettles, MenuSelected, IntroPrearms, IntroSeesNight
<1>8. CASE AttemptOwns \/ AttemptEnds \/ TerminalPort \/ StopPort \/ RetryPort \/ VerifyPort \/ SavePort
  BY <1>5, <1>8 DEF AttemptOwns, AttemptEnds, TerminalPort, StopPort, RetryPort, VerifyPort, SavePort
<1>9. CASE PortThrows \/ CleanupStops \/ ReleaseAll
  BY <1>5, <1>9 DEF PortThrows, CleanupStops, ReleaseAll
<1> QED
  BY <1>1, <1>2, <1>3, <1>4, <1>6, <1>7, <1>8, <1>9 DEF PortsNext, Port, Signal, Cleanup

LEMMA TypeHost == ASSUME CampaignInv, HostTypeOK, PortsNext PROVE HostTypeOK'
<1> USE DEF HostTypeOK, Live, Settled, host
<1>1. CASE PreflightPort \/ MenuRolled \/ MenuReads \/ MenuSettles \/ AttemptEnds \/ RetryPort \/ VerifyPort \/ PortThrows
  BY <1>1 DEF PreflightPort, MenuRolled, MenuReads, MenuSettles, AttemptEnds, RetryPort, VerifyPort, PortThrows
<1>2. CASE MenuTaps \/ CustomNightPort
  BY <1>2 DEF MenuTaps, tap, CustomNightPort
<1>3. CASE MenuSelected \/ IntroPrearms
  <2>1. /\ UNCHANGED <<pendingExecution, exec>> \/ (pendingExecution' = TRUE /\ exec' \in {"refused", "armed"})
        /\ UNCHANGED <<menuHid, rolledIntoNight, restartFailed>>
    BY <1>3 DEF MenuSelected, IntroPrearms, prearm, execute
  <2> QED
    BY <2>1
<1>4. CASE IntroSeesNight \/ TerminalPort
  BY <1>4 DEF IntroSeesNight, TerminalPort, releaseNight, stopExecutor
<1>5. CASE AttemptOwns \/ StopPort \/ CleanupStops \/ ReleaseAll
  BY <1>5 DEF AttemptOwns, StopPort, CleanupStops, ReleaseAll, execute, stopExecutor
<1>6. CASE SavePort
  BY <1>6, TargetNight DEF SavePort, rolls
<1>7. CASE StopRestarts \/ CleanupRestarts \/ ReleaseRestarts \/ SignalRestarts
  BY <1>7 DEF StopRestarts, CleanupRestarts, ReleaseRestarts, SignalRestarts, restartAfterAbort
<1>8. CASE ExecutionSettles
  BY <1>8 DEF ExecutionSettles
<1>9. CASE Operator \/ Game \/ SignalArrives \/ SignalStops \/ SignalExits
  BY <1>9 DEF Operator, Game, NightBegins, NightEnds, EndingPasses, SignalArrives, SignalStops, SignalExits, stopExecutor
<1> QED
  BY <1>1, <1>2, <1>3, <1>4, <1>5, <1>6, <1>7, <1>8, <1>9 DEF PortsNext, Port, Signal, Cleanup

(* Where a port goes on, it is at a step of its own; where it answers, the *)
(* next one starts at its first.                                           *)
LEMMA TypeStep == ASSUME CampaignInv, CampaignInv', step \in StepsOf(at), PortsNext PROVE (step \in StepsOf(at))'
<1>1. at' \in Ports \union {"idle", "cleanup", "releaseAll"}
  BY DEF CampaignInv, TypeOK
<1>2. ASSUME Enter PROVE (step \in StepsOf(at))'
  BY <1>1, <1>2, StepsTable DEF Enter
<1>3. ASSUME UNCHANGED <<campaign, step>> PROVE (step \in StepsOf(at))'
  BY <1>3 DEF campaign, vars
<1>4. ASSUME NEW s, Go(s), s \in StepsOf(at) PROVE (step \in StepsOf(at))'
  BY <1>4 DEF Go, campaign, vars
<1> USE DEF Answers, Here
<1>5. CASE PreflightPort \/ MenuRolled \/ MenuSelected \/ CustomNightPort \/ IntroSeesNight \/ AttemptEnds \/ TerminalPort
  BY <1>2, <1>5 DEF PreflightPort, MenuRolled, MenuSelected, CustomNightPort, IntroSeesNight, AttemptEnds, TerminalPort
<1>6. CASE RetryPort \/ VerifyPort \/ SavePort \/ PortThrows \/ CleanupRestarts \/ ReleaseRestarts \/ StopRestarts
  BY <1>2, <1>6 DEF RetryPort, VerifyPort, SavePort, PortThrows, CleanupRestarts, ReleaseRestarts, StopRestarts,
                    restartAfterAbort
<1>7. CASE MenuReads \/ MenuTaps \/ MenuSettles
  <2>1. at = "menu" /\ (Enter \/ (\E s \in StepsOf("menu") : Go(s)))
    BY <1>7, StepsTable DEF MenuReads, MenuTaps, MenuSettles
  <2> QED
    BY <1>2, <1>4, <2>1
<1>8. CASE IntroPrearms \/ AttemptOwns \/ CleanupStops
  BY <1>4, <1>8, StepsTable DEF IntroPrearms, AttemptOwns, CleanupStops
<1>9. CASE StopPort \/ ReleaseAll
  BY <1>2, <1>4, <1>9, StepsTable DEF StopPort, ReleaseAll
<1>10. CASE Operator
  <2>1. step' = step /\ at = "idle"
    BY <1>10 DEF Operator, StartRun, Resume
  <2> QED
    BY <1>1, <2>1, StepsTable
<1>11. CASE Game \/ ExecutionSettles \/ Signal
  BY <1>3, <1>11 DEF Game, NightBegins, NightEnds, EndingPasses, ExecutionSettles, Signal, SignalArrives, Cleanup,
                     SignalStops, SignalRestarts, SignalExits
<1> QED
  BY <1>5, <1>6, <1>7, <1>8, <1>9, <1>10, <1>11 DEF PortsNext, Port

(* An interrupt takes its steps in order, and nothing else moves it.       *)
LEMMA SignalMoves ==
  ASSUME [PortsNext]_pvars
  PROVE  \/ UNCHANGED signal
         \/ signal = "none" /\ signal' = "stopping"
         \/ signal = "stopping" /\ signal' = "restarting"
         \/ signal = "restarting" /\ signal' = "closing"
         \/ signal = "closing" /\ signal' = "exited"
<1>1. ASSUME Port PROVE UNCHANGED signal
  <2>1. CASE PreflightPort \/ MenuRolled \/ MenuReads \/ MenuTaps \/ MenuSettles \/ MenuSelected \/ CustomNightPort
    BY <2>1 DEF PreflightPort, MenuRolled, MenuReads, MenuTaps, MenuSettles, MenuSelected, CustomNightPort
  <2>2. CASE IntroPrearms \/ IntroSeesNight \/ AttemptOwns \/ AttemptEnds \/ TerminalPort \/ StopPort \/ RetryPort
    BY <2>2 DEF IntroPrearms, IntroSeesNight, AttemptOwns, AttemptEnds, TerminalPort, StopPort, RetryPort
  <2>3. CASE StopRestarts \/ CleanupRestarts \/ ReleaseRestarts
    BY <2>3 DEF StopRestarts, CleanupRestarts, ReleaseRestarts
  <2>4. CASE VerifyPort \/ SavePort \/ PortThrows \/ CleanupStops \/ ReleaseAll
    BY <2>4 DEF VerifyPort, SavePort, PortThrows, CleanupStops, ReleaseAll
  <2> QED
    BY <1>1, <2>1, <2>2, <2>3, <2>4 DEF Port
<1>2. ASSUME Operator \/ Game \/ ExecutionSettles \/ UNCHANGED pvars PROVE UNCHANGED signal
  BY <1>2 DEF Operator, Game, NightBegins, NightEnds, EndingPasses, ExecutionSettles, pvars
<1>3. CASE Signal
  BY <1>3 DEF Signal, SignalArrives, Cleanup, SignalStops, SignalRestarts, SignalExits, restartAfterAbort
<1> QED
  BY <1>1, <1>2, <1>3 DEF PortsNext

LEMMA TypeKept ==
  ASSUME CampaignInv, CampaignInv', PortsTypeOK, [PortsNext]_pvars PROVE PortsTypeOK'
<1>1. GameTypeOK /\ HostTypeOK
  BY DEF PortsTypeOK, GameTypeOK, HostTypeOK, NIGHT7
<1>2. CASE UNCHANGED pvars
  BY <1>2 DEF PortsTypeOK, pvars, campaign, vars, game, host
<1>3. CASE PortsNext
  <2>1. signal' \in {"none", "stopping", "restarting", "closing", "exited"}
    BY SignalMoves DEF PortsTypeOK
  <2>2. GameTypeOK' /\ HostTypeOK'
    BY <1>1, <1>3, TypeGame, TypeHost
  <2>3. (step \in StepsOf(at))'
    BY <1>3, TypeStep DEF PortsTypeOK
  <2> QED
    BY <2>1, <2>2, <2>3 DEF PortsTypeOK, GameTypeOK, HostTypeOK, NIGHT7
<1> QED
  BY <1>2, <1>3

(* Every variable of the ports and of the game keeps its type, and a port  *)
(* is only ever at one of its own steps, whatever the answers, the game    *)
(* and an interrupt do in between.                                         *)
THEOREM PortsTyped == PortsSpec => []PortsTypeOK
<1>1. CampaignInv /\ CampaignInv' /\ PortsTypeOK /\ [PortsNext]_pvars => PortsTypeOK'
  BY TypeKept
<1> QED
  BY <1>1, TypeInit, PortsPlayTheCampaign, Invariant, PTL DEF PortsSpec

(***************************************************************************)
(* The execution and the HID process.                                      *)
(***************************************************************************)
(* A live execution is the pre-armed one, or the one the attempt runs; a   *)
(* pre-armed one is only carried from the intro to whoever owns or stops   *)
(* it.                                                                     *)
OwnInv ==
  /\ exec # "refused"
  /\ exec \in Live => pendingExecution \/ (at = "executeAttempt" /\ step = "running")
  /\ pendingExecution => \/ at = "intro"
                         \/ at \in {"executeAttempt", "cleanup", "releaseAll"} /\ step = "enter"
  /\ Cleared => ~menuHid

LEMMA OwnInit == PortsInit => OwnInv
  BY DEF PortsInit, Init, OwnInv, Live, Cleared, StopPorts

LEMMA OwnMenu ==
  ASSUME CampaignInv, OwnInv,
         PreflightPort \/ MenuRolled \/ MenuReads \/ MenuTaps \/ MenuSettles \/ MenuSelected \/ CustomNightPort
  PROVE  OwnInv'
<1> USE DEF OwnInv, Cleared, StopPorts, Live, Here, Answers, Enter, host
<1>1. CASE PreflightPort
  <2>1. PICK ready \in BOOLEAN : Preflight(ready)
    BY <1>1 DEF PreflightPort
  <2>2. at' \in {"menu", "releaseAll"}
    BY <2>1, PreflightLands
  <2> QED
    BY <1>1, <2>2 DEF PreflightPort
<1>2. ASSUME NEW confirmed \in BOOLEAN, Menu(confirmed)
      PROVE  at' \in {"customNight", "intro", "releaseAll"}
  BY <1>2, MenuLands
<1>3. ASSUME PortFails PROVE at' = "cleanup"
  BY <1>3, FailsLands
<1>4. CASE MenuRolled \/ MenuReads
  <2>1. /\ at = "menu" /\ UNCHANGED <<exec, pendingExecution>>
        /\ at' \in {"customNight", "intro", "releaseAll", "cleanup", "menu"}
    BY <1>2, <1>3, <1>4 DEF MenuRolled, MenuReads, Go, campaign, vars
  <2> QED
    BY <2>1
<1>5. CASE MenuTaps \/ MenuSettles
  BY <1>5 DEF MenuTaps, MenuSettles, tap, Go, campaign, vars
<1>6. CASE MenuSelected
  <2>1. /\ at = "menu" /\ step' = "enter"
        /\ at' = IF Target = NIGHT7 THEN "customNight" ELSE "intro"
        /\ IF Target = NIGHT7 THEN UNCHANGED <<pendingExecution, exec>> ELSE prearm
    BY <1>6, MenuLands DEF MenuSelected
  <2>2. exec \notin Live /\ ~pendingExecution
    BY <2>1
  <2> QED
    BY <2>1, <2>2 DEF prearm, execute
<1>7. CASE CustomNightPort
  <2>1. at = "customNight" /\ UNCHANGED <<exec, pendingExecution>> /\ at' \in {"cleanup", "intro"}
    BY <1>3, <1>7, CustomNightLands DEF CustomNightPort
  <2> QED
    BY <2>1
<1> QED
  BY <1>1, <1>4, <1>5, <1>6, <1>7

LEMMA OwnPlay ==
  ASSUME CampaignInv, OwnInv, IntroPrearms \/ IntroSeesNight \/ AttemptOwns \/ AttemptEnds \/ TerminalPort
  PROVE  OwnInv'
<1> USE DEF OwnInv, Cleared, StopPorts, Live, Here, Answers, Enter, host
<1>1. CASE IntroPrearms
  BY <1>1 DEF IntroPrearms, prearm, execute, Go, campaign, vars
<1>2. CASE IntroSeesNight
  <2>1. PICK observed \in BOOLEAN : Intro(observed)
    BY <1>2 DEF IntroSeesNight
  <2>2. at' \in {"executeAttempt", "releaseAll"}
    BY <2>1, IntroLands
  <2> QED
    BY <1>2, <2>2 DEF IntroSeesNight, releaseNight
<1>3. CASE AttemptOwns
  BY <1>3 DEF AttemptOwns, execute, Go, campaign, vars
<1>4. CASE AttemptEnds
  BY <1>4, FailsLands, ExecutedLands DEF AttemptEnds, Settled
<1>5. CASE TerminalPort
  <2>1. PICK outcome \in VenueChecked(ObservedTerminal) : Terminal(outcome)
    BY <1>5 DEF TerminalPort
  <2>2. outcome \in {"sixam", "death", "invalid"}
    BY <1>5, <2>1 DEF TerminalPort, VenueChecked
  <2>3. at' \in {"cleanup", "stopProof", "stopRetry", "stopLost"}
    BY <2>1, <2>2, TerminalLands
  <2> QED
    BY <1>5, <2>3 DEF TerminalPort, stopExecutor
<1> QED
  BY <1>1, <1>2, <1>3, <1>4, <1>5

LEMMA OwnEnd ==
  ASSUME CampaignInv, OwnInv,
         StopPort \/ StopRestarts \/ RetryPort \/ VerifyPort \/ SavePort \/ PortThrows
           \/ CleanupStops \/ CleanupRestarts \/ ReleaseAll \/ ReleaseRestarts
  PROVE  OwnInv'
<1> USE DEF OwnInv, Cleared, StopPorts, Live, Here, Answers, Enter, host
<1>1. CASE StopPort
  BY <1>1, StoppedLands DEF StopPort, stopExecutor, Go, campaign, vars
<1>2. CASE StopRestarts
  BY <1>2, StoppedLands, FailsLands DEF StopRestarts, restartAfterAbort
<1>3. CASE RetryPort
  BY <1>3, RetryReadyLands DEF RetryPort, Offered
<1>4. CASE VerifyPort
  BY <1>4, TerminalVerificationLands DEF VerifyPort
<1>5. CASE SavePort
  BY <1>5, SaveLands DEF SavePort
<1>6. CASE PortThrows
  BY <1>6, FailsLands DEF PortThrows, Ports
<1>7. CASE CleanupStops
  BY <1>7 DEF CleanupStops, stopExecutor, Go, campaign, vars
<1>8. CASE CleanupRestarts \/ ReleaseRestarts
  BY <1>8, EndingLands DEF CleanupRestarts, ReleaseRestarts, restartAfterAbort
<1>9. CASE ReleaseAll
  BY <1>9, EndingLands DEF ReleaseAll, stopExecutor, Go, campaign, vars
<1> QED
  BY <1>1, <1>2, <1>3, <1>4, <1>5, <1>6, <1>7, <1>8, <1>9

LEMMA OwnStep == CampaignInv /\ OwnInv /\ [PortsNext]_pvars => OwnInv'
<1> SUFFICES ASSUME CampaignInv, OwnInv, [PortsNext]_pvars PROVE OwnInv'
  OBVIOUS
<1> USE DEF OwnInv, Cleared, StopPorts, Live
<1>1. CASE Port
  BY <1>1, OwnMenu, OwnPlay, OwnEnd DEF Port
<1>2. CASE Operator
  <2>1. at = "idle" /\ (at' \in {"preflight", "cleanup"} \/ (at' = "idle" /\ UNCHANGED runs))
    BY <1>2, StartLands DEF Operator
  <2> QED
    BY <1>2, <2>1 DEF Operator, host
<1>3. CASE Game
  BY <1>3 DEF Game, NightBegins, NightEnds, EndingPasses, host, campaign, vars
<1>4. CASE ExecutionSettles
  BY <1>4 DEF ExecutionSettles, campaign, vars
<1>5. CASE Signal
  BY <1>5 DEF Signal, SignalArrives, Cleanup, SignalStops, SignalRestarts, SignalExits, restartAfterAbort,
              stopExecutor, host, campaign, vars
<1>6. CASE UNCHANGED pvars
  BY <1>6 DEF pvars, host, campaign, vars
<1> QED
  BY <1>1, <1>2, <1>3, <1>4, <1>5, <1>6 DEF PortsNext

(* No execution is begun over another that may still feed the phone, and   *)
(* none, pre-armed or playing, and no HID process outlives an attempt: not *)
(* into a retry, a proof or the end of run(), whatever fails, is answered  *)
(* or interrupts on the way.                                               *)
THEOREM PortsOwn == PortsSpec => []ExecutionsOwned
<1>1. OwnInv => ExecutionsOwned
  BY DEF OwnInv, ExecutionsOwned, OneExecution, NothingReachesTheMenu, Cleared, StopPorts
<1> QED
  BY <1>1, OwnInit, OwnStep, PortsPlayTheCampaign, Invariant, PTL DEF PortsSpec

(***************************************************************************)
(* What the game was left with.                                            *)
(***************************************************************************)
(* Until an interrupt's cleanup, an intro that waits and the attempt it    *)
(* opens have a pre-armed execution, which nothing has released before.    *)
ArmInv ==
  Uninterrupted =>
    /\ at = "intro" /\ step = "waiting" => pendingExecution
    /\ at = "executeAttempt" /\ step = "enter" => pendingExecution
    /\ at = "intro" /\ pendingExecution => exec \in {"armed", "failed", "invalid"}

LEMMA UninterruptedBefore == ASSUME [PortsNext]_pvars, Uninterrupted' PROVE Uninterrupted
  BY SignalMoves DEF Uninterrupted

LEMMA ArmInit == PortsInit => ArmInv
  BY DEF PortsInit, Init, ArmInv

LEMMA ArmPort == ASSUME CampaignInv, OwnInv, ArmInv, Uninterrupted, Port PROVE ArmInv'
<1> USE DEF ArmInv, Here, Answers, Enter, host
<1>1. ASSUME at' \notin {"intro", "executeAttempt"} PROVE ArmInv'
  BY <1>1
<1>2. ASSUME PortFails PROVE at' = "cleanup"
  BY <1>2, FailsLands
<1>3. CASE PreflightPort \/ RetryPort \/ VerifyPort \/ SavePort \/ PortThrows
  BY <1>1, <1>3, PreflightLands, RetryReadyLands, TerminalVerificationLands, SaveLands, FailsLands
     DEF PreflightPort, RetryPort, VerifyPort, SavePort, PortThrows, Offered
<1>4. CASE MenuRolled \/ MenuReads
  <2>1. at = "menu" /\ UNCHANGED pendingExecution
    BY <1>4 DEF MenuRolled, MenuReads
  <2>2. ~pendingExecution
    BY <2>1 DEF OwnInv
  <2>3. step' = "enter" \/ at' = "menu"
    BY <1>4, <2>1 DEF MenuRolled, MenuReads, Go, campaign, vars
  <2>4. at' # "executeAttempt"
    BY <1>2, <1>4, <2>1, MenuLands DEF MenuRolled, MenuReads, Go, campaign, vars
  <2> QED
    BY <2>1, <2>2, <2>3, <2>4
<1>5. CASE MenuTaps \/ MenuSettles
  BY <1>5 DEF MenuTaps, MenuSettles, Go, campaign, vars
<1>6. CASE MenuSelected
  <2>1. /\ at = "menu" /\ step' = "enter" /\ at' = IF Target = NIGHT7 THEN "customNight" ELSE "intro"
        /\ Target # NIGHT7 => prearm
    BY <1>6, MenuLands DEF MenuSelected
  <2>2. exec \notin Live /\ ~pendingExecution
    BY <2>1 DEF OwnInv
  <2> QED
    BY <2>1, <2>2 DEF prearm, execute
<1>7. CASE CustomNightPort
  <2>1. at = "customNight" /\ UNCHANGED pendingExecution /\ step' = "enter" /\ at' \in {"cleanup", "intro"}
    BY <1>2, <1>7, CustomNightLands DEF CustomNightPort
  <2> QED
    BY <2>1 DEF OwnInv
<1>8. CASE IntroPrearms
  <2>1. at = "intro" /\ at' = "intro" /\ step' = "waiting" /\ prearm
    BY <1>8 DEF IntroPrearms, Go, campaign, vars
  <2> QED
    BY <2>1 DEF OwnInv, prearm, execute
<1>9. CASE IntroSeesNight
  BY <1>9, IntroLands DEF IntroSeesNight
<1>10. CASE AttemptOwns
  BY <1>10 DEF AttemptOwns, Go, campaign, vars
<1>11. CASE AttemptEnds
  BY <1>1, <1>2, <1>11, ExecutedLands DEF AttemptEnds
<1>12. CASE TerminalPort
  <2>1. PICK outcome \in VenueChecked(ObservedTerminal) : Terminal(outcome)
    BY <1>12 DEF TerminalPort
  <2>2. outcome \in {"sixam", "death", "invalid"}
    BY <1>12, <2>1 DEF TerminalPort, VenueChecked
  <2> QED
    BY <1>1, <2>1, <2>2, TerminalLands
<1>13. CASE StopPort \/ StopRestarts
  BY <1>1, <1>2, <1>13, StoppedLands DEF StopPort, StopRestarts, restartAfterAbort, StopPorts, Go, campaign, vars
<1>14. CASE CleanupStops \/ CleanupRestarts \/ ReleaseAll \/ ReleaseRestarts
  BY <1>1, <1>14, EndingLands
     DEF CleanupStops, CleanupRestarts, ReleaseAll, ReleaseRestarts, restartAfterAbort, Go, campaign, vars
<1> QED
  BY <1>3, <1>4, <1>5, <1>6, <1>7, <1>8, <1>9, <1>10, <1>11, <1>12, <1>13, <1>14 DEF Port

LEMMA ArmStep == CampaignInv /\ OwnInv /\ ArmInv /\ [PortsNext]_pvars => ArmInv'
<1> SUFFICES ASSUME CampaignInv, OwnInv, ArmInv, [PortsNext]_pvars, Uninterrupted' PROVE ArmInv'
  BY DEF ArmInv
<1>1. Uninterrupted
  BY UninterruptedBefore
<1>2. CASE Port
  BY <1>1, <1>2, ArmPort
<1>3. CASE Operator
  BY <1>3, StartLands DEF Operator, ArmInv
<1>4. CASE Game \/ SignalArrives \/ UNCHANGED pvars
  BY <1>1, <1>4 DEF Game, NightBegins, NightEnds, EndingPasses, SignalArrives, pvars, host, campaign, vars, ArmInv
<1>5. CASE ExecutionSettles
  BY <1>1, <1>5 DEF ExecutionSettles, campaign, vars, ArmInv
<1>6. CASE Cleanup
  BY <1>1, <1>6 DEF Cleanup, SignalStops, SignalRestarts, SignalExits, Uninterrupted, restartAfterAbort
<1> QED
  BY <1>2, <1>3, <1>4, <1>5, <1>6 DEF PortsNext, Signal

(* The night on the phone is one a press of the campaign's started.        *)
OwnNight == screen \in Gameplay /\ playing = pressed

(* The executor has seen the night end.                                    *)
SeenEnd == at \in {"executeAttempt", "terminal"} /\ exec \in {"sixam", "gameover"}

(* Whoever is awaited here stops the night, or hands it to one who will.   *)
Attended ==
  \/ at = "menu" /\ step \in {"settle", "press2", "select"}
  \/ at \in {"customNight", "intro", "executeAttempt", "terminal", "cleanup"}
  \/ at \in StopPorts /\ lastOutcome = "invalid"
  \/ at = "releaseAll" /\ (step = "restart" \/ pendingExecution)

(* A night the game rolled into is ahead of the one pressed, a night seen  *)
(* to end is not the one on the phone, and a night pressed is attended.    *)
LeftInv ==
  Uninterrupted =>
    /\ pressed <= playing
    /\ SeenEnd => ~OwnNight
    /\ OwnNight /\ ~restartFailed => Attended

LEMMA LeftInit == PortsInit => LeftInv
  BY DEF PortsInit, Init, LeftInv, OwnNight, Gameplay

(* An answer that leaves the game as it was, to a port that attends it, or *)
(* from one where there is nothing to attend.                              *)
LEMMA LeftQuiet ==
  ASSUME LeftInv, Uninterrupted, UNCHANGED <<screen, playing, pressed, restartFailed>>, SeenEnd' => SeenEnd,
         Attended' \/ ~Attended
  PROVE  LeftInv'
  BY DEF LeftInv, OwnNight

LEMMA LeftRestart ==
  ASSUME LeftInv, Uninterrupted, NEW done, NEW failed, restartAfterAbort(done, failed), at' \notin {"executeAttempt", "terminal"}
  PROVE  LeftInv'
  BY DEF LeftInv, OwnNight, SeenEnd, restartAfterAbort, Relaunched, game, Gameplay

LEMMA LeftMenu ==
  ASSUME CampaignInv, PortsTypeOK, LeftInv, Uninterrupted,
         PreflightPort \/ MenuRolled \/ MenuReads \/ MenuTaps \/ MenuSettles \/ MenuSelected \/ CustomNightPort
  PROVE  LeftInv'
<1> USE DEF Here, Answers, Enter, host, game
<1>1. ASSUME NEW confirmed \in BOOLEAN, Menu(confirmed)
      PROVE  at' \in {"customNight", "intro", "releaseAll"}
  BY <1>1, MenuLands
<1>2. ASSUME PortFails PROVE at' = "cleanup"
  BY <1>2, FailsLands
<1>3. CASE PreflightPort
  <2>1. at = "preflight" /\ at' \in {"menu", "releaseAll"}
    BY <1>3, PreflightLands DEF PreflightPort
  <2> QED
    BY <1>3, <2>1, LeftQuiet DEF PreflightPort, Attended, SeenEnd, StopPorts
<1>4. CASE MenuRolled \/ MenuReads
  <2>1. at = "menu" /\ step \in {"enter", "opened"} /\ UNCHANGED <<screen, playing, pressed, restartFailed>>
    BY <1>4 DEF MenuRolled, MenuReads
  <2>2. at' \notin {"executeAttempt", "terminal"}
    BY <1>1, <1>2, <1>4, <2>1 DEF MenuRolled, MenuReads, Go, campaign, vars
  <2> QED
    BY <2>1, <2>2, LeftQuiet DEF Attended, SeenEnd, StopPorts
<1>5. CASE MenuTaps
  <2>1. at' = "menu" /\ step' \in {"settle", "select"} /\ UNCHANGED <<restartFailed, signal>>
    BY <1>5 DEF MenuTaps, Go, campaign, vars
  <2>2. Attended' /\ ~SeenEnd'
    BY <2>1 DEF Attended, SeenEnd
  <2>3. UNCHANGED <<playing, pressed>> \/ playing' = pressed'
    BY <1>5 DEF MenuTaps, tap, Press, Start
  <2>4. playing' \in 0..7 /\ pressed' \in 0..7
    BY <1>5, TypeGame DEF PortsNext, Port, PortsTypeOK, GameTypeOK, NIGHT7
  <2> QED
    BY <2>2, <2>3, <2>4 DEF LeftInv
<1>6. CASE MenuSettles
  <2>1. at = "menu" /\ at' = "menu" /\ step' \in {"press2", "select"} /\ UNCHANGED <<game, host>>
    BY <1>6 DEF MenuSettles, Go, campaign, vars
  <2> QED
    BY <2>1, LeftQuiet DEF Attended, SeenEnd
<1>7. CASE MenuSelected
  <2>1. at' \in {"customNight", "intro"} /\ UNCHANGED <<game, restartFailed>>
    BY <1>7, MenuLands DEF MenuSelected
  <2> QED
    BY <2>1, LeftQuiet DEF Attended, SeenEnd
<1>8. CASE CustomNightPort
  <2>1. at' \in {"cleanup", "intro"} /\ UNCHANGED <<playing, pressed>>
    BY <1>2, <1>8, CustomNightLands DEF CustomNightPort
  <2> QED
    BY <2>1 DEF Attended, SeenEnd, LeftInv
<1> QED
  BY <1>3, <1>4, <1>5, <1>6, <1>7, <1>8

LEMMA LeftPlay ==
  ASSUME CampaignInv, ArmInv, LeftInv, Uninterrupted,
         IntroPrearms \/ IntroSeesNight \/ AttemptOwns \/ AttemptEnds \/ TerminalPort
  PROVE  LeftInv'
<1> USE DEF Here, Answers, Enter, host, game
<1>1. CASE IntroPrearms
  <2>1. at' = "intro" /\ UNCHANGED <<game, restartFailed>>
    BY <1>1 DEF IntroPrearms, Go, campaign, vars
  <2> QED
    BY <2>1, LeftQuiet DEF Attended, SeenEnd
<1>2. CASE IntroSeesNight
  <2>1. /\ UNCHANGED <<game, restartFailed, pendingExecution>> /\ pendingExecution
        /\ exec' \notin {"sixam", "gameover"}
    BY <1>2 DEF IntroSeesNight, ArmInv, releaseNight
  <2>2. at' \in {"executeAttempt", "releaseAll"}
    BY <1>2, IntroLands DEF IntroSeesNight
  <2> QED
    BY <2>1, <2>2, LeftQuiet DEF Attended, SeenEnd
<1>3. CASE AttemptOwns
  <2>1. at = "executeAttempt" /\ at' = "executeAttempt" /\ UNCHANGED <<game, restartFailed, exec>>
    BY <1>3 DEF AttemptOwns, ArmInv, Go, campaign, vars
  <2> QED
    BY <2>1, LeftQuiet DEF Attended, SeenEnd
<1>4. CASE AttemptEnds
  <2>1. at = "executeAttempt" /\ at' \in {"terminal", "cleanup"} /\ UNCHANGED <<game, host>>
    BY <1>4, ExecutedLands, FailsLands DEF AttemptEnds
  <2> QED
    BY <2>1, LeftQuiet DEF Attended, SeenEnd
<1>5. CASE TerminalPort
  <2>1. PICK outcome \in VenueChecked(ObservedTerminal) : Terminal(outcome)
    BY <1>5 DEF TerminalPort
  <2>2. at = "terminal" /\ ObservedTerminal \in {"sixam", "gameover", "invalid"} /\ UNCHANGED <<game, restartFailed>>
    BY <1>5 DEF TerminalPort
  <2>3. outcome \in {"sixam", "death", "invalid"}
        /\ (outcome # "invalid" => ObservedTerminal \in {"sixam", "gameover"})
    BY <2>1, <2>2 DEF VenueChecked
  <2>4. at' \in {"cleanup", "stopProof", "stopRetry", "stopLost"} /\ lastOutcome' = outcome
    BY <2>1, <2>3, TerminalLands
  <2>5. CASE outcome = "invalid"
    BY <2>2, <2>4, <2>5, LeftQuiet DEF Attended, SeenEnd, StopPorts
  <2>6. CASE outcome # "invalid"
    <3>1. ~OwnNight
      BY <2>2, <2>3, <2>6 DEF ObservedTerminal, LeftInv, SeenEnd, OwnNight, Gameplay
    <3> QED
      BY <2>2, <2>4, <3>1 DEF LeftInv, OwnNight, SeenEnd
  <2> QED
    BY <2>5, <2>6
<1> QED
  BY <1>1, <1>2, <1>3, <1>4, <1>5

LEMMA LeftEnd ==
  ASSUME CampaignInv, LeftInv, Uninterrupted,
         StopPort \/ StopRestarts \/ RetryPort \/ VerifyPort \/ SavePort \/ PortThrows
           \/ CleanupStops \/ CleanupRestarts \/ ReleaseAll \/ ReleaseRestarts
  PROVE  LeftInv'
<1> USE DEF Here, Answers, Enter, host, game
<1>1. CASE StopPort
  <2>1. at \in StopPorts /\ UNCHANGED <<game, restartFailed>>
    BY <1>1 DEF StopPort
  <2>2. CASE lastOutcome = "invalid"
    <3>1. at' = at /\ lastOutcome' = lastOutcome
      BY <1>1, <2>2 DEF StopPort, Go, campaign, vars, records, lastOutcome
    <3> QED
      BY <2>1, <2>2, <3>1, LeftQuiet DEF Attended, SeenEnd, StopPorts
  <2>3. CASE lastOutcome # "invalid"
    <3>1. at' \in {"retryReady", "releaseAll", "terminalVerification"}
      BY <1>1, <2>3, StoppedLands DEF StopPort
    <3> QED
      BY <2>1, <2>3, <3>1, LeftQuiet DEF Attended, SeenEnd, StopPorts
  <2> QED
    BY <2>2, <2>3
<1>2. CASE StopRestarts
  <2>1. at' \in {"retryReady", "releaseAll", "terminalVerification", "cleanup"}
    BY <1>2, StoppedLands, FailsLands DEF StopRestarts, restartAfterAbort
  <2> QED
    BY <1>2, <2>1, LeftRestart DEF StopRestarts
<1>3. CASE CleanupRestarts \/ ReleaseRestarts
  <2>1. at' \in {"releaseAll", "idle"}
    BY <1>3, EndingLands DEF CleanupRestarts, ReleaseRestarts, restartAfterAbort
  <2> QED
    BY <1>3, <2>1, LeftRestart DEF CleanupRestarts, ReleaseRestarts
<1>4. CASE RetryPort \/ VerifyPort \/ SavePort
  <2>1. /\ at \in {"retryReady", "terminalVerification", "save"} /\ at' \in {"menu", "save", "releaseAll"}
        /\ UNCHANGED <<game, restartFailed>>
    BY <1>4, RetryReadyLands, TerminalVerificationLands, SaveLands DEF RetryPort, VerifyPort, SavePort, Offered
  <2> QED
    BY <2>1, LeftQuiet DEF Attended, SeenEnd, StopPorts
<1>5. CASE PortThrows
  <2>1. at' = "cleanup" /\ UNCHANGED <<game, restartFailed>>
    BY <1>5, FailsLands DEF PortThrows
  <2> QED
    BY <2>1, LeftQuiet DEF Attended, SeenEnd
<1>6. CASE CleanupStops
  <2>1. at' = "cleanup" /\ UNCHANGED <<game, restartFailed>>
    BY <1>6 DEF CleanupStops, Go, campaign, vars
  <2> QED
    BY <2>1, LeftQuiet DEF Attended, SeenEnd
<1>7. CASE ReleaseAll
  <2>1. /\ at = "releaseAll" /\ step = "enter" /\ UNCHANGED <<game, restartFailed>>
        /\ IF pendingExecution THEN at' = "releaseAll" /\ step' = "restart" ELSE at' = "idle"
    BY <1>7, EndingLands DEF ReleaseAll, Go, campaign, vars
  <2> QED
    BY <2>1, LeftQuiet DEF Attended, SeenEnd, StopPorts
<1> QED
  BY <1>1, <1>2, <1>3, <1>4, <1>5, <1>6, <1>7

LEMMA LeftStep == CampaignInv /\ PortsTypeOK /\ ArmInv /\ LeftInv /\ [PortsNext]_pvars => LeftInv'
<1> SUFFICES ASSUME CampaignInv, PortsTypeOK, ArmInv, LeftInv, [PortsNext]_pvars PROVE LeftInv'
  OBVIOUS
<1> SUFFICES ASSUME Uninterrupted' PROVE LeftInv'
  BY DEF LeftInv
<1>1. Uninterrupted
  BY UninterruptedBefore
<1>2. CASE Port
  BY <1>1, <1>2, LeftMenu, LeftPlay, LeftEnd DEF Port
<1>3. CASE Operator
  <2>1. at = "idle" /\ at' \in {"preflight", "cleanup", "idle"} /\ UNCHANGED <<game, host>>
    BY <1>3, StartLands DEF Operator
  <2> QED
    BY <1>1, <2>1, LeftQuiet DEF game, host, Attended, SeenEnd, StopPorts
<1>4. CASE NightBegins \/ SignalArrives \/ UNCHANGED pvars
  <2>1. Attended' = Attended /\ SeenEnd' = SeenEnd
    BY <1>4 DEF NightBegins, SignalArrives, pvars, campaign, vars, records, host, Attended, SeenEnd, lastOutcome
  <2>2. OwnNight' => OwnNight
    BY <1>4 DEF NightBegins, SignalArrives, pvars, game, OwnNight, Gameplay
  <2>3. UNCHANGED <<playing, pressed, restartFailed>>
    BY <1>4 DEF NightBegins, SignalArrives, pvars, game, host
  <2> QED
    BY <1>1, <2>1, <2>2, <2>3 DEF LeftInv
<1>5. CASE NightEnds \/ EndingPasses
  <2>1. ~OwnNight' /\ pressed' <= playing'
    BY <1>1, <1>5 DEF NightEnds, EndingPasses, OwnNight, Gameplay, LeftInv, PortsTypeOK, NIGHT7
  <2> QED
    BY <2>1 DEF LeftInv
<1>6. CASE ExecutionSettles
  <2>1. /\ Attended' = Attended /\ UNCHANGED <<screen, playing, pressed, restartFailed>>
    BY <1>6 DEF ExecutionSettles, campaign, vars, records, game, Attended, lastOutcome
  <2>2. SeenEnd' => screen \in {"sixam", "gameover"}
    BY <1>6 DEF ExecutionSettles, SeenEnd, Live
  <2> QED
    BY <1>1, <2>1, <2>2 DEF LeftInv, OwnNight, Gameplay
<1>7. CASE Cleanup
  BY <1>1, <1>7 DEF Cleanup, SignalStops, SignalRestarts, SignalExits, Uninterrupted, restartAfterAbort
<1> QED
  BY <1>2, <1>3, <1>4, <1>5, <1>6, <1>7 DEF PortsNext, Game, Signal

(* However a campaign that nobody interrupted ends -- held, failed in any  *)
(* port, judged Invalid, stopped at its budget -- the night it pressed is  *)
(* not left running on the phone, unless a restart of the game failed.     *)
THEOREM PortsLeaveNoNight == PortsSpec => []NoNightLeftBehind
<1>1. LeftInv => NoNightLeftBehind
  BY DEF LeftInv, NoNightLeftBehind, OwnNight, Attended, StopPorts
<1>2. PortsInit => PortsTypeOK /\ OwnInv /\ ArmInv /\ LeftInv
  BY TypeInit, OwnInit, ArmInit, LeftInit
<1> QED
  BY <1>1, <1>2, PortsTyped, OwnStep, ArmStep, LeftStep, PortsPlayTheCampaign, Invariant, PTL DEF PortsSpec

(***************************************************************************)
(* The night that is played.                                               *)
(***************************************************************************)
(* A schedule plays for the attempt, or stands released to be held.        *)
PlayingInv == exec = "playing" => at = "executeAttempt" \/ (at = "releaseAll" /\ state = "HOLD")

LEMMA PlayingInit == PortsInit => PlayingInv
  BY DEF PortsInit, PlayingInv

LEMMA PlayingPort == ASSUME CampaignInv, OwnInv, PlayingInv, Port PROVE PlayingInv'
<1> USE DEF PlayingInv, Here, Answers, host
<1>1. CASE IntroSeesNight
  <2>1. PICK observed \in BOOLEAN : Intro(observed)
    BY <1>1 DEF IntroSeesNight
  <2> QED
    BY <2>1, IntroLands
<1>2. CASE AttemptOwns
  BY <1>2 DEF AttemptOwns, Go, campaign, vars
<1>3. CASE AttemptEnds
  BY <1>3 DEF AttemptEnds, Settled
<1>4. CASE PreflightPort \/ MenuRolled \/ MenuReads \/ MenuTaps \/ MenuSettles \/ CustomNightPort
  BY <1>4 DEF PreflightPort, MenuRolled, MenuReads, MenuTaps, MenuSettles, CustomNightPort
<1>5. CASE MenuSelected \/ IntroPrearms
  <2>1. at \in {"menu", "intro"} /\ (exec' = exec \/ exec' \in {"armed", "refused"})
    BY <1>5 DEF MenuSelected, IntroPrearms, prearm, execute
  <2> QED
    BY <2>1
<1>6. CASE TerminalPort \/ StopPort \/ CleanupStops \/ ReleaseAll
  BY <1>6 DEF TerminalPort, StopPort, CleanupStops, ReleaseAll, stopExecutor, Live
<1>7. CASE StopRestarts \/ CleanupRestarts
  BY <1>7 DEF StopRestarts, CleanupRestarts, StopPorts
<1>8. CASE RetryPort \/ VerifyPort \/ SavePort \/ PortThrows
  <2>1. at \in Ports \ {"executeAttempt"} /\ exec' = exec
    BY <1>8 DEF RetryPort, VerifyPort, SavePort, PortThrows, Ports
  <2> QED
    BY <2>1 DEF Ports
<1>9. CASE ReleaseRestarts
  BY <1>9 DEF ReleaseRestarts, OwnInv, Live
<1> QED
  BY <1>1, <1>2, <1>3, <1>4, <1>5, <1>6, <1>7, <1>8, <1>9 DEF Port

LEMMA PlayingStep == CampaignInv /\ OwnInv /\ PlayingInv /\ [PortsNext]_pvars => PlayingInv'
<1> SUFFICES ASSUME CampaignInv, OwnInv, PlayingInv, [PortsNext]_pvars PROVE PlayingInv'
  OBVIOUS
<1>1. CASE Operator
  BY <1>1, StartLands DEF Operator, PlayingInv, host
<1>2. CASE Game \/ SignalArrives \/ SignalExits \/ UNCHANGED pvars
  BY <1>2 DEF Game, NightBegins, NightEnds, EndingPasses, SignalArrives, SignalExits, pvars, host, campaign, vars,
              PlayingInv
<1>3. CASE ExecutionSettles
  BY <1>3 DEF ExecutionSettles, PlayingInv
<1>4. CASE SignalStops \/ SignalRestarts
  BY <1>4 DEF SignalStops, SignalRestarts, stopExecutor, campaign, vars, PlayingInv, Live
<1> QED
  BY <1>1, <1>2, <1>3, <1>4, PlayingPort DEF PortsNext, Signal, Cleanup

(* The save is at the target, which is the night that runs, if one does.   *)
AtTarget ==
  /\ cursor = Target
  /\ screen \in {"title", "gameover"} \/ (screen \in {"intro", "night"} /\ playing = Target)

(* The same while the target is being picked.                              *)
Picking ==
  /\ cursor = Target
  /\ \/ screen \in {"title", "gameover"}
     \/ screen \in {"dials", "starting", "intro", "night"} /\ playing = Target

(* The save is past the target, which the phone has won: its six AM is on  *)
(* the screen, or the night it rolls into, or the title.                   *)
PastTarget ==
  /\ cursor = IF Target = NIGHT7 THEN NIGHT7 ELSE Target + 1
  /\ \/ screen = "sixam" /\ playing = Target
     \/ screen = "title"
     \/ rolls(Target) /\ screen \in {"intro", "night", "gameover"} /\ playing = Target + 1

(* In the attempt: not yet won, or won and not yet seen, or seen.          *)
InAttempt ==
  \/ AtTarget /\ exec # "sixam"
  \/ PastTarget /\ exec \in {"playing", "completed"} /\ screen = "sixam"
  \/ PastTarget /\ exec \in {"sixam", "failed"}

Over == state \in {"ABORTED", "COMPLETE"}

(* Where the phone is, at each port, until an interrupt's cleanup and as   *)
(* long as the campaign can still go on.                                   *)
AimInv ==
  Uninterrupted =>
    /\ at \in {"preflight", "retryReady", "stopRetry", "stopLost"} => AtTarget
    /\ at \in {"idle", "releaseAll"} /\ ~Over => AtTarget
    /\ at = "menu" /\ step = "enter" => AtTarget
    /\ at = "menu" /\ step \in {"opened", "press"} => cursor = Target /\ screen = "title"
    /\ at = "menu" /\ step \in {"settle", "press2", "select"} => Picking
    /\ at \in {"customNight", "intro"} => Picking
    /\ at \in {"executeAttempt", "terminal"} => InAttempt
    /\ at = "terminal" => exec # "failed"
    /\ at \in {"stopProof", "terminalVerification", "save"} => PastTarget

LEMMA AimInit == PortsInit => AimInv
  BY DEF PortsInit, Init, AimInv, AtTarget, Target

LEMMA AimMenu ==
  ASSUME CampaignInv, PortsTypeOK, AimInv, Uninterrupted,
         PreflightPort \/ MenuRolled \/ MenuReads \/ MenuTaps \/ MenuSettles \/ MenuSelected \/ CustomNightPort
  PROVE  AimInv'
<1> USE DEF Here, Answers, Enter, host, game, Unrecorded
<1>1. ASSUME PortFails PROVE at' = "cleanup"
  BY <1>1, FailsLands
<1>2. ASSUME UNCHANGED <<targetIndex, screen, playing, cursor>>
      PROVE  AtTarget' = AtTarget /\ Picking' = Picking /\ Target' = Target
  BY <1>2 DEF AtTarget, Picking, Target
<1>3. ASSUME at' = "cleanup" PROVE AimInv'
  BY <1>3 DEF AimInv
<1>4. CASE PreflightPort
  <2>1. at = "preflight" /\ at' \in {"menu", "releaseAll"} /\ step' = "enter" /\ UNCHANGED <<game, targetIndex>>
    BY <1>4, PreflightLands DEF PreflightPort
  <2> QED
    BY <1>2, <2>1 DEF AimInv
<1>5. ASSUME NEW confirmed \in BOOLEAN, Menu(confirmed), Enter
      PROVE  /\ UNCHANGED targetIndex /\ step' = "enter"
             /\ at' \in {"customNight", "intro", "releaseAll"}
             /\ ~confirmed => at' = "releaseAll"
             /\ confirmed => at' # "releaseAll"
  BY <1>5, MenuLands
<1>6. CASE MenuRolled
  <2>1. at = "menu" /\ step = "enter" /\ UNCHANGED game
    BY <1>6 DEF MenuRolled
  <2>2. AtTarget => Picking
    BY DEF AtTarget, Picking
  <2>3. at' = "cleanup" \/ (UNCHANGED targetIndex /\ at' \in {"customNight", "intro"})
    BY <1>1, <1>5, <1>6 DEF MenuRolled
  <2> QED
    BY <1>2, <1>3, <2>1, <2>2, <2>3 DEF AimInv
<1>7. CASE MenuReads
  <2>1. /\ at = "menu" /\ UNCHANGED game
        /\ \/ at' = "cleanup"
           \/ screen \in {"title", "starting"} /\ at' = "releaseAll" /\ UNCHANGED targetIndex
           \/ /\ screen \in {"title", "starting"} /\ UNCHANGED <<at, targetIndex>>
              /\ step' \in {"opened", "press"}
        /\ step \in {"enter", "opened"}
    BY <1>1, <1>5, <1>7 DEF MenuReads, Go, campaign, vars
  <2>2. screen \in {"title", "starting"} => AtTarget /\ cursor = Target /\ screen = "title"
    BY <2>1 DEF AimInv, AtTarget
  <2> QED
    BY <1>2, <1>3, <2>1, <2>2 DEF AimInv
<1>8. CASE MenuTaps
  <2>1. /\ at = "menu" /\ UNCHANGED <<at, targetIndex>> /\ Press(Target)
        /\ step \in {"press", "press2"} /\ step' \in {"settle", "select"}
    BY <1>8 DEF MenuTaps, tap, Go, campaign, vars
  <2>2. Picking
    BY <2>1 DEF AimInv, Picking
  <2>3. Target \in 1..7 /\ NightOf(Target) = Target
    BY <2>2, TargetNight DEF NightOf, Picking, NIGHT7
  <2>4. Picking'
    BY <1>2, <2>1, <2>2, <2>3 DEF Press, Start, Picking, Target
  <2> QED
    BY <2>1, <2>4 DEF AimInv
<1>9. CASE MenuSettles
  <2>1. at = "menu" /\ UNCHANGED <<at, targetIndex, game>> /\ step = "settle" /\ step' \in {"press2", "select"}
    BY <1>9 DEF MenuSettles, Go, campaign, vars
  <2> QED
    BY <1>2, <2>1 DEF AimInv
<1>10. CASE MenuSelected
  <2>1. /\ at = "menu" /\ step = "select" /\ UNCHANGED game
        /\ UNCHANGED targetIndex /\ at' \in {"customNight", "intro"}
    BY <1>5, <1>10 DEF MenuSelected
  <2> QED
    BY <1>2, <2>1 DEF AimInv
<1>11. CASE CustomNightPort
  <2>1. at = "customNight"
    BY <1>11 DEF CustomNightPort
  <2>2. CASE screen # "dials"
    BY <1>1, <1>3, <1>11, <2>2 DEF CustomNightPort
  <2>3. CASE screen = "dials"
    <3>1. screen' = "starting" /\ UNCHANGED <<playing, cursor, targetIndex>> /\ at' = "intro"
      BY <1>11, <2>3, CustomNightLands DEF CustomNightPort
    <3>2. Picking'
      BY <2>1, <2>3, <3>1 DEF AimInv, Picking, Target
    <3> QED
      BY <3>1, <3>2 DEF AimInv
  <2> QED
    BY <2>2, <2>3
<1> QED
  BY <1>4, <1>6, <1>7, <1>8, <1>9, <1>10, <1>11

LEMMA AimPlay ==
  ASSUME CampaignInv, ArmInv, AimInv, Uninterrupted, ~VenueMoves,
         IntroPrearms \/ IntroSeesNight \/ AttemptOwns \/ AttemptEnds \/ TerminalPort
  PROVE  AimInv'
<1> USE DEF Here, Answers, Enter, host, game, Unrecorded
<1>1. ASSUME UNCHANGED <<targetIndex, screen, playing, cursor>>
      PROVE  AtTarget' = AtTarget /\ Picking' = Picking /\ PastTarget' = PastTarget
  BY <1>1 DEF AtTarget, Picking, PastTarget, Target
<1>2. CASE IntroPrearms
  <2>1. at = "intro" /\ at' = "intro" /\ UNCHANGED <<game, targetIndex>>
    BY <1>2 DEF IntroPrearms, Go, campaign, vars
  <2> QED
    BY <1>1, <2>1 DEF AimInv
<1>3. CASE IntroSeesNight
  <2>1. at = "intro" /\ step = "waiting" /\ screen = "night" /\ UNCHANGED game /\ exec' # "sixam"
    BY <1>3 DEF IntroSeesNight, ArmInv, releaseNight
  <2>2. at' \in {"executeAttempt", "releaseAll"} /\ UNCHANGED targetIndex
    BY <1>3, IntroLands DEF IntroSeesNight
  <2>3. AtTarget'
    BY <1>1, <2>1, <2>2 DEF AimInv, Picking, AtTarget
  <2> QED
    BY <2>1, <2>2, <2>3 DEF AimInv, InAttempt
<1>4. CASE AttemptOwns
  <2>1. /\ at = "executeAttempt" /\ at' = "executeAttempt" /\ UNCHANGED <<game, targetIndex, exec>>
    BY <1>4 DEF AttemptOwns, ArmInv, Go, campaign, vars
  <2> QED
    BY <1>1, <2>1 DEF AimInv, InAttempt
<1>5. CASE AttemptEnds
  <2>1. /\ at = "executeAttempt" /\ UNCHANGED <<game, exec>>
        /\ at' = "cleanup" \/ (at' = "terminal" /\ UNCHANGED targetIndex /\ exec # "failed")
    BY <1>5, ExecutedLands, FailsLands DEF AttemptEnds
  <2> QED
    BY <1>1, <2>1 DEF AimInv, InAttempt
<1>6. CASE TerminalPort
  <2>1. PICK outcome \in VenueChecked(ObservedTerminal) : Terminal(outcome)
    BY <1>6 DEF TerminalPort
  <2>2. at = "terminal" /\ ObservedTerminal \in {"sixam", "gameover", "invalid"} /\ UNCHANGED game
    BY <1>6 DEF TerminalPort
  <2>3. outcome \in {"sixam", "death", "invalid"} /\ (outcome = "sixam" <=> ObservedTerminal = "sixam")
    BY <2>1, <2>2 DEF VenueChecked
  <2>4. /\ UNCHANGED targetIndex
        /\ \/ at' = "cleanup"
           \/ outcome = "sixam" /\ at' = "stopProof"
           \/ outcome # "sixam" /\ at' \in {"stopRetry", "stopLost"}
    BY <2>1, <2>3, TerminalLands
  <2>5. InAttempt /\ exec # "failed"
    BY <2>2 DEF AimInv
  <2>6. outcome = "sixam" => PastTarget
    BY <2>2, <2>3, <2>5 DEF ObservedTerminal, InAttempt, AtTarget
  <2>7. outcome # "sixam" => AtTarget
    BY <2>2, <2>3, <2>5 DEF ObservedTerminal, InAttempt
  <2> QED
    BY <1>1, <2>2, <2>4, <2>6, <2>7 DEF AimInv
<1> QED
  BY <1>2, <1>3, <1>4, <1>5, <1>6

(* The next night of the chain is the one the save is at.                  *)
LEMMA AimSave == ASSUME CampaignInv, AimInv, Uninterrupted, SavePort PROVE AimInv'
<1> USE DEF Answers, Enter, game
<1>1. at = "save" /\ step' = "enter" /\ UNCHANGED game /\ PastTarget
  BY DEF SavePort, Here, AimInv
<1>2. CASE at' = "releaseAll" /\ state' = "COMPLETE"
  BY <1>2 DEF AimInv, Over
<1>3. CASE at' = "menu" /\ targetIndex' = targetIndex + 1 /\ targetIndex < Len(Nights)
  <2>1. Target \in 1..6 /\ Target' = Target + 1
    <3>1. targetIndex \in 1..Len(Nights) /\ targetIndex + 1 \in 1..Len(Nights)
      BY <1>3, Consecutive DEF CampaignInv, TypeOK
    <3>2. Nights[targetIndex + 1] = Nights[targetIndex] + 1 /\ Nights[targetIndex] \in 1..7 /\ Nights[targetIndex + 1] \in 1..7
      BY <1>3, <3>1, Consecutive
    <3> QED
      BY <1>3, <3>2 DEF Target
  <2>2. cursor' = Target'
    BY <1>1, <2>1 DEF PastTarget, NIGHT7
  <2>3. screen' = "title" \/ (screen' = "night" /\ playing' = Target')
    BY <1>1, <2>1 DEF SavePort, PastTarget, rolls
  <2>4. AtTarget'
    BY <2>2, <2>3 DEF AtTarget
  <2> QED
    BY <1>1, <1>3, <2>4 DEF AimInv
<1> QED
  BY <1>2, <1>3, SaveLands DEF SavePort

LEMMA AimEnd ==
  ASSUME CampaignInv, AimInv, Uninterrupted,
         StopPort \/ StopRestarts \/ RetryPort \/ VerifyPort \/ PortThrows
           \/ CleanupStops \/ CleanupRestarts \/ ReleaseAll \/ ReleaseRestarts
  PROVE  AimInv'
<1> USE DEF Here, Answers, Enter, host, game, Unrecorded
<1>1. ASSUME UNCHANGED targetIndex, UNCHANGED <<screen, playing, cursor>> \/ Relaunched
      PROVE  (AtTarget => AtTarget') /\ (PastTarget => PastTarget')
  BY <1>1 DEF AtTarget, PastTarget, Target, Relaunched
<1>2. ASSUME at' = "cleanup" PROVE AimInv'
  BY <1>2 DEF AimInv
<1>3. ASSUME PortFails PROVE at' = "cleanup"
  BY <1>3, FailsLands
<1>4. ASSUME Stopped
      PROVE  /\ UNCHANGED targetIndex
             /\ \/ at = "stopRetry" /\ at' = "retryReady"
                \/ at = "stopLost" /\ at' = "releaseAll"
                \/ at = "stopProof" /\ at' = "terminalVerification"
  BY <1>4, StoppedLands
<1>5. CASE StopPort
  <2>1. UNCHANGED <<game, targetIndex>> /\ at \in StopPorts /\ (at' = at \/ Stopped)
    BY <1>4, <1>5 DEF StopPort, Go, campaign, vars
  <2> QED
    BY <1>1, <1>4, <2>1 DEF AimInv, StopPorts
<1>6. CASE StopRestarts
  <2>1. at' = "cleanup" \/ (Relaunched /\ Stopped)
    BY <1>3, <1>6 DEF StopRestarts, restartAfterAbort
  <2> QED
    BY <1>1, <1>2, <1>4, <2>1 DEF AimInv
<1>7. CASE RetryPort
  <2>1. /\ at = "retryReady" /\ step' = "enter" /\ at' \in {"releaseAll", "menu"} /\ UNCHANGED <<game, targetIndex>>
    BY <1>7, RetryReadyLands DEF RetryPort, Offered
  <2> QED
    BY <1>1, <2>1 DEF AimInv
<1>8. CASE VerifyPort
  <2>1. /\ at = "terminalVerification" /\ UNCHANGED <<game, targetIndex>>
        /\ at' = "save" \/ (at' = "releaseAll" /\ state' = "ABORTED")
    BY <1>8, TerminalVerificationLands DEF VerifyPort
  <2> QED
    BY <1>1, <2>1 DEF AimInv, Over
<1>9. CASE PortThrows
  BY <1>2, <1>3, <1>9 DEF PortThrows
<1>10. CASE CleanupStops
  BY <1>2, <1>10 DEF CleanupStops, Go, campaign, vars
<1>11. CASE CleanupRestarts
  <2>1. at' = "releaseAll" /\ state' = "ABORTED"
    BY <1>11, EndingLands DEF CleanupRestarts, restartAfterAbort
  <2> QED
    BY <2>1 DEF AimInv, Over
<1>12. CASE ReleaseAll \/ ReleaseRestarts
  <2>1. /\ at = "releaseAll" /\ at' \in {"releaseAll", "idle"} /\ UNCHANGED <<targetIndex, state>>
        /\ UNCHANGED <<screen, playing, cursor>> \/ Relaunched
    BY <1>12, EndingLands DEF ReleaseAll, ReleaseRestarts, restartAfterAbort, Go, campaign, vars
  <2> QED
    BY <1>1, <2>1 DEF AimInv, Over
<1> QED
  BY <1>5, <1>6, <1>7, <1>8, <1>9, <1>10, <1>11, <1>12

LEMMA AimGame == ASSUME PortsTypeOK, CampaignInv, OwnInv, AimInv, Uninterrupted, Game PROVE AimInv'
<1>1. UNCHANGED <<state, targetIndex, at, step, exec, Target>> /\ Target \in 1..7
  BY TargetNight DEF Game, NightBegins, NightEnds, EndingPasses, host, campaign, vars, Target
<1>2. CASE NightBegins
  <2>1. (AtTarget => AtTarget') /\ (Picking => Picking') /\ (PastTarget => PastTarget')
    BY <1>1, <1>2 DEF NightBegins, AtTarget, Picking, PastTarget
  <2>2. screen \notin {"title", "sixam"}
    BY <1>2 DEF NightBegins
  <2> QED
    BY <1>1, <2>1, <2>2 DEF AimInv, InAttempt, Over
<1>3. CASE NightEnds
  <2>1. screen = "night" /\ UNCHANGED playing
    BY <1>3 DEF NightEnds
  <2>2. CASE screen' = "gameover" /\ UNCHANGED cursor
    <3>1. (AtTarget => AtTarget') /\ (Picking => Picking') /\ (PastTarget => PastTarget')
      BY <1>1, <2>1, <2>2 DEF AtTarget, Picking, PastTarget
    <3> QED
      BY <1>1, <2>1, <3>1 DEF AimInv, InAttempt, Over
  <2>3. CASE screen' = "sixam" /\ cursor' = (IF playing < NIGHT7 THEN playing + 1 ELSE NIGHT7) /\ Watched
    <3>1. at \in {"executeAttempt", "terminal"} /\ exec \in {"playing", "completed"}
      BY <2>3 DEF Watched
    <3>2. AtTarget
      BY <2>1, <3>1 DEF AimInv, InAttempt
    <3>3. PastTarget'
      BY <1>1, <2>1, <2>3, <3>2 DEF AtTarget, PastTarget, NIGHT7
    <3> QED
      BY <1>1, <2>3, <3>1, <3>3 DEF AimInv, InAttempt
  <2> QED
    BY <1>3, <2>2, <2>3 DEF NightEnds
<1>4. CASE EndingPasses
  <2>1. screen \in {"sixam", "gameover"} /\ ~(screen = "sixam" /\ Watched) /\ UNCHANGED cursor
    BY <1>4 DEF EndingPasses
  <2>2. (AtTarget => AtTarget') /\ (Picking => Picking')
    BY <1>1, <1>4 DEF EndingPasses, AtTarget, Picking
  <2>3. PastTarget => PastTarget'
    BY <1>1, <1>4 DEF EndingPasses, PastTarget, rolls
  <2> QED
    BY <1>1, <2>1, <2>2, <2>3 DEF AimInv, InAttempt, Watched, Over
<1> QED
  BY <1>2, <1>3, <1>4 DEF Game

LEMMA AimSettles == ASSUME OwnInv, AimInv, Uninterrupted, ExecutionSettles PROVE AimInv'
<1>1. UNCHANGED <<state, targetIndex, at, step, screen, playing, cursor, Target>>
  BY DEF ExecutionSettles, campaign, vars, game, Target
<1>2. (AtTarget => AtTarget') /\ (Picking => Picking') /\ (PastTarget => PastTarget')
  BY <1>1 DEF AtTarget, Picking, PastTarget, Target
<1>3. at # "terminal"
  BY DEF ExecutionSettles, OwnInv
<1>4. InAttempt => InAttempt'
  BY <1>1, <1>2 DEF ExecutionSettles, InAttempt, AtTarget, Live
<1> QED
  BY <1>1, <1>2, <1>3, <1>4 DEF AimInv, Over

LEMMA AimStep ==
  ASSUME ~VenueMoves
  PROVE  CampaignInv /\ PortsTypeOK /\ OwnInv /\ ArmInv /\ AimInv /\ [PortsNext]_pvars => AimInv'
<1> SUFFICES ASSUME CampaignInv, PortsTypeOK, OwnInv, ArmInv, AimInv, [PortsNext]_pvars, Uninterrupted'
             PROVE  AimInv'
  BY DEF AimInv
<1>1. Uninterrupted
  BY UninterruptedBefore
<1>2. CASE Port
  BY <1>1, <1>2, AimMenu, AimPlay, AimSave, AimEnd DEF Port
<1>3. CASE Operator
  <2>1. /\ at = "idle" /\ UNCHANGED <<game, targetIndex>>
        /\ \/ at' = "preflight" /\ ~Over
           \/ at' = "cleanup"
           \/ at' = "idle" /\ ~Over
    BY <1>3, StartLands DEF Operator, Over
  <2>2. AtTarget => AtTarget'
    BY <2>1 DEF AtTarget, Target, game
  <2> QED
    BY <1>1, <2>1, <2>2 DEF AimInv
<1>4. CASE SignalArrives \/ UNCHANGED pvars
  <2>1. UNCHANGED <<state, targetIndex, at, step, exec, screen, playing, cursor, Target>>
    BY <1>4 DEF SignalArrives, pvars, campaign, vars, host, game, Target
  <2>2. (AtTarget => AtTarget') /\ (Picking => Picking') /\ (PastTarget => PastTarget') /\ (InAttempt => InAttempt')
    BY <2>1 DEF AtTarget, Picking, PastTarget, InAttempt, Target
  <2> QED
    BY <1>1, <2>1, <2>2 DEF AimInv, Over
<1>5. CASE Game
  BY <1>1, <1>5, AimGame
<1>6. CASE ExecutionSettles
  BY <1>1, <1>6, AimSettles
<1>7. CASE Cleanup
  BY <1>1, <1>7 DEF Cleanup, SignalStops, SignalRestarts, SignalExits, Uninterrupted, restartAfterAbort
<1> QED
  BY <1>2, <1>3, <1>4, <1>5, <1>6, <1>7 DEF PortsNext, Signal

(* A released schedule plays the night it was composed for, for every      *)
(* chain of nights and every budget: whatever was pressed, rolled into,    *)
(* died in, judged Invalid or restarted before, and until an interrupt's   *)
(* cleanup, the night on the phone is the target -- where the venue's      *)
(* identity holds still, without which a won night is retried.             *)
THEOREM PortsPlayTheTarget == ASSUME ~VenueMoves PROVE PortsSpec => []PlaysTheTarget
<1>1. PlayingInv /\ AimInv => PlaysTheTarget
  BY DEF PlayingInv, AimInv, PlaysTheTarget, InAttempt, AtTarget, Over
<1>2. PortsInit => PortsTypeOK /\ OwnInv /\ ArmInv /\ PlayingInv /\ AimInv
  BY TypeInit, OwnInit, ArmInit, PlayingInit, AimInit
<1>3. CampaignInv /\ PortsTypeOK /\ OwnInv /\ ArmInv /\ AimInv /\ [PortsNext]_pvars => AimInv'
  BY AimStep
<1> QED
  BY <1>1, <1>2, <1>3, PortsTyped, OwnStep, ArmStep, PlayingStep, PortsPlayTheCampaign, Invariant, PTL
     DEF PortsSpec
===============================================================================
