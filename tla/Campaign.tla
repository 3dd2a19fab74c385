------------------------------- MODULE Campaign -------------------------------
(***************************************************************************)
(* A campaign: the state machine of packages/play/src/campaign/campaign.ts *)
(* and the runner of campaign-runner.ts that drives it. The runner awaits  *)
(* one port at a time; JavaScript runs everything between two awaits in    *)
(* one turn, so an action here is one port's answer with every call the    *)
(* runner makes on it, up to the next await. "at" names the awaited port.  *)
(*                                                                         *)
(* A port's answer is reduced to what the accept methods tell apart. The   *)
(* ports themselves -- what they do to the phone -- are not modelled here. *)
(***************************************************************************)
EXTENDS Integers, Sequences, FiniteSets

CONSTANTS
  Nights,       (* spec.nights: the night of each target, in order         *)
  MaxAttempts,  (* spec.retry.maxAttempts                                  *)
  MaxRuns       (* how often run() is called on the one machine (a bound)  *)

(* validateCampaignSpec: one ascending chain of consecutive nights of 1..7 *)
(* (here in closed form), and a budget of 1..5.                            *)
ValidSpec ==
  /\ Nights \in Seq(1..7) /\ Len(Nights) \in 1..7
  /\ \A i \in 1..Len(Nights) : Nights[i] = Nights[1] + i - 1
  /\ MaxAttempts \in 1..5

ASSUME CampaignAssumption == ValidSpec /\ MaxRuns \in Nat

VARIABLES
  (* CampaignStateMachine                                                  *)
  state, targetIndex, attempt, invalidRuns, consecutiveInvalid,
  attempts,       (* the record of every run played, in order              *)
  activeAttempt,  (* index in attempts of the last one begun, 0 for none   *)
  (* DeviceCampaignRunner                                                  *)
  at,             (* the port run() awaits, "idle" when it does not run    *)
  runs            (* calls of run() so far                                 *)

budget  == <<attempt, invalidRuns, consecutiveInvalid>>
records == <<attempts, activeAttempt>>
vars    == <<state, targetIndex, budget, records, at, runs>>

NIGHT7 == 7

(* Mutant: the third Invalid run in a row holds, not the second.           *)
HoldOnTheThird == 3

INVALID_RUNS_HOLD == 2

States == {"IDLE", "PREFLIGHT", "HOLD", "MENU", "CUSTOM_VERIFY", "INTRO_VERIFY", "ACTIVE",
           "TERMINAL_VERIFY", "RETRY_VERIFY", "SAVE_VERIFY", "ABORTED", "COMPLETE"}
Ports == {"preflight", "menu", "customNight", "intro", "executeAttempt", "terminal",
          "stopRetry", "retryReady", "stopLost", "stopProof", "terminalVerification", "save"}
Outcomes == {"sixam", "unproven", "death", "invalid", "unexplained", "unknown", "otherNight"}

TRANSITIONS ==
  [s \in States |->
     CASE s = "IDLE"            -> {"PREFLIGHT"}
       [] s = "PREFLIGHT"       -> {"MENU", "HOLD", "ABORTED"}
       [] s = "HOLD"            -> {"PREFLIGHT", "ABORTED"}
       [] s = "MENU"            -> {"INTRO_VERIFY", "CUSTOM_VERIFY", "ABORTED", "HOLD"}
       [] s = "CUSTOM_VERIFY"   -> {"INTRO_VERIFY", "ABORTED", "HOLD"}
       [] s = "INTRO_VERIFY"    -> {"ACTIVE", "ABORTED", "HOLD"}
       [] s = "ACTIVE"          -> {"TERMINAL_VERIFY", "RETRY_VERIFY", "ABORTED", "HOLD"}
       [] s = "TERMINAL_VERIFY" -> {"SAVE_VERIFY", "ABORTED", "HOLD"}
       [] s = "RETRY_VERIFY"    -> {"MENU", "ABORTED", "HOLD"}
       [] s = "SAVE_VERIFY"     -> {"MENU", "COMPLETE", "ABORTED", "HOLD"}
       [] OTHER                 -> {}]

Target == Nights[targetIndex]
spentAttempts == attempt - invalidRuns

Init ==
  /\ state = "IDLE" /\ targetIndex = 1
  /\ attempt = 0 /\ invalidRuns = 0 /\ consecutiveInvalid = 0
  /\ attempts = <<>> /\ activeAttempt = 0
  /\ at = "idle" /\ runs = 0

(***************************************************************************)
(* The machine's transition, and what the runner does when it or a port    *)
(* throws: abort, unless the verdict is already final, and the cleanup.    *)
(***************************************************************************)
(* Mutant: a failed port is asked again instead of ending the run.         *)
CaughtAndRetried ==
  /\ state' = IF state \in {"ABORTED", "COMPLETE"} THEN state ELSE "ABORTED"
  /\ UNCHANGED at

Caught ==
  /\ state' = IF state \in {"ABORTED", "COMPLETE"} THEN state ELSE "ABORTED"
  /\ at' = "cleanup"

Transition(next, port) ==
  IF next \in TRANSITIONS[state] THEN state' = next /\ at' = port ELSE Caught

Hold == Transition("HOLD", "releaseAll")

Awaiting(port) == at = port /\ UNCHANGED runs

(***************************************************************************)
(* run(), port by port.                                                    *)
(***************************************************************************)
(* run() on a machine that is new, held, or held and resumed.              *)
StartRun ==
  /\ at = "idle" /\ state \in {"IDLE", "HOLD", "PREFLIGHT"}
  /\ runs < MaxRuns /\ runs' = runs + 1
  /\ Transition("PREFLIGHT", "preflight")
  /\ UNCHANGED <<targetIndex, budget, records>>

(* The operator's resume() of a held machine.                              *)
Resume ==
  /\ at = "idle" /\ state = "HOLD"
  /\ state' = "PREFLIGHT" /\ consecutiveInvalid' = 0
  /\ UNCHANGED <<targetIndex, attempt, invalidRuns, records, at, runs>>

Preflight(ready) ==
  /\ Awaiting("preflight")
  /\ IF ready THEN Transition("MENU", "menu") ELSE Hold
  /\ UNCHANGED <<targetIndex, budget, records>>

Menu(confirmed) ==
  /\ Awaiting("menu")
  /\ IF ~confirmed THEN Hold
     ELSE IF Target = NIGHT7 THEN Transition("CUSTOM_VERIFY", "customNight")
     ELSE Transition("INTRO_VERIFY", "intro")
  /\ UNCHANGED <<targetIndex, budget, records>>

CustomNight(confirmed) ==
  /\ Awaiting("customNight")
  /\ IF confirmed THEN Transition("INTRO_VERIFY", "intro") ELSE Hold
  /\ UNCHANGED <<targetIndex, budget, records>>

(* Mutant: the budget check lets one run too many through.                 *)
BeginOneTooMany ==
  /\ attempt' = attempt + 1
  /\ IF attempt' - invalidRuns > MaxAttempts + 1
     THEN state' = "ABORTED" /\ UNCHANGED records
     ELSE /\ state' = "ACTIVE"
          /\ attempts' = Append(attempts, [night |-> Target, attempt |-> attempt', status |-> "ACTIVE",
                                           terminal |-> "none", verified |-> FALSE, proof |-> FALSE])
          /\ activeAttempt' = Len(attempts) + 1
  /\ UNCHANGED <<targetIndex, invalidRuns, consecutiveInvalid>>

(* Mutant: the new record is kept, and the one before stays the active one.*)
BeginBehind ==
  /\ attempt' = attempt + 1
  /\ IF attempt' - invalidRuns > MaxAttempts
     THEN state' = "ABORTED" /\ UNCHANGED records
     ELSE /\ state' = "ACTIVE"
          /\ attempts' = Append(attempts, [night |-> Target, attempt |-> attempt', status |-> "ACTIVE",
                                           terminal |-> "none", verified |-> FALSE, proof |-> FALSE])
          /\ activeAttempt' = IF activeAttempt = 0 THEN 1 ELSE activeAttempt
  /\ UNCHANGED <<targetIndex, invalidRuns, consecutiveInvalid>>

(* An accepted intro moves to ACTIVE, and beginAttempt follows in the same *)
(* turn. When the budget is gone it moves on to ABORTED, and the runner,   *)
(* which does not read the state there, awaits executeAttempt all the same.*)
BeginAttempt ==
  /\ attempt' = attempt + 1
  /\ IF attempt' - invalidRuns > MaxAttempts
     THEN state' = "ABORTED" /\ UNCHANGED records
     ELSE /\ state' = "ACTIVE"
          /\ attempts' = Append(attempts, [night |-> Target, attempt |-> attempt', status |-> "ACTIVE",
                                           terminal |-> "none", verified |-> FALSE, proof |-> FALSE])
          /\ activeAttempt' = Len(attempts) + 1
  /\ UNCHANGED <<targetIndex, invalidRuns, consecutiveInvalid>>

Intro(observed) ==
  /\ Awaiting("intro")
  /\ IF observed
     THEN at' = "executeAttempt" /\ BeginAttempt
     ELSE Hold /\ UNCHANGED <<targetIndex, budget, records>>

Executed ==
  /\ Awaiting("executeAttempt") /\ at' = "terminal"
  /\ UNCHANGED <<state, targetIndex, budget, records>>

(* The runner stops the attempt on every outcome: before a retry, before   *)
(* the proof, and where the campaign ends here.                            *)
Judged(next, port) == Transition(next, port) /\ UNCHANGED targetIndex

AcceptInvalid ==
  /\ invalidRuns' = invalidRuns + 1
  /\ consecutiveInvalid' = consecutiveInvalid + 1
  /\ IF consecutiveInvalid' >= INVALID_RUNS_HOLD
     THEN Judged("HOLD", "stopLost")
     ELSE Judged("RETRY_VERIFY", "stopRetry")
  /\ UNCHANGED attempt

(* acceptTerminal: the observed outcome goes into the active attempt's     *)
(* record first, its status where the run is judged, and then the state    *)
(* moves -- or the transition throws, with the record already written.     *)
Terminal(outcome) ==
  /\ Awaiting("terminal")
  /\ LET verdict == CASE outcome = "death" -> "DEATH" [] outcome = "invalid" -> "INVALID" [] OTHER -> "none"
     IN  attempts' = IF activeAttempt = 0 THEN attempts
                     ELSE [attempts EXCEPT ![activeAttempt].terminal = outcome,
                                           ![activeAttempt].status = IF verdict = "none" THEN @ ELSE verdict]
  /\ UNCHANGED activeAttempt
  /\ CASE outcome \in {"otherNight", "unexplained"} -> Judged("HOLD", "stopLost") /\ UNCHANGED budget
       [] outcome = "invalid" -> AcceptInvalid
       [] OTHER ->
            /\ consecutiveInvalid' = 0 /\ UNCHANGED <<attempt, invalidRuns>>
            /\ CASE outcome = "unknown"  -> Judged("HOLD", "stopLost")
                 [] outcome = "death"    -> Judged("RETRY_VERIFY", "stopRetry")
                 [] outcome = "unproven" -> Judged("ABORTED", "stopLost")
                 [] outcome = "sixam"    -> Judged("TERMINAL_VERIFY", "stopProof")

(* Mutant: a won night goes from the stop straight to its save proof.      *)
StoppedUnverified ==
  /\ \/ Awaiting("stopRetry") /\ at' = "retryReady"
     \/ Awaiting("stopLost")  /\ at' = "releaseAll"
     \/ Awaiting("stopProof") /\ at' = "save"
  /\ UNCHANGED <<state, targetIndex, budget, records>>

Stopped ==
  /\ \/ Awaiting("stopRetry") /\ at' = "retryReady"
     \/ Awaiting("stopLost")  /\ at' = "releaseAll"
     \/ Awaiting("stopProof") /\ at' = "terminalVerification"
  /\ UNCHANGED <<state, targetIndex, budget, records>>

RetryReady(menuReady) ==
  /\ Awaiting("retryReady")
  /\ IF ~menuReady THEN Hold
     ELSE IF spentAttempts >= MaxAttempts THEN Transition("ABORTED", "releaseAll")
     ELSE Transition("MENU", "menu")
  /\ UNCHANGED <<targetIndex, budget, records>>

TerminalVerification(positive) ==
  /\ Awaiting("terminalVerification")
  /\ IF positive
     THEN /\ Transition("SAVE_VERIFY", "save")
          /\ attempts' = IF activeAttempt = 0 THEN attempts ELSE [attempts EXCEPT ![activeAttempt].verified = TRUE]
     ELSE Transition("ABORTED", "releaseAll") /\ UNCHANGED attempts
  /\ UNCHANGED <<targetIndex, budget, activeAttempt>>

(* Mutant: the next night inherits the refunds of the last one.            *)
SaveKeepsRefunds ==
  /\ Awaiting("save")
  /\ attempts' = IF activeAttempt = 0 THEN attempts
                 ELSE [attempts EXCEPT ![activeAttempt].status = "WIN", ![activeAttempt].proof = TRUE]
  /\ IF targetIndex < Len(Nights)
     THEN /\ targetIndex' = targetIndex + 1
          /\ attempt' = 0 /\ UNCHANGED invalidRuns
          /\ Transition("MENU", "menu")
     ELSE /\ Transition("COMPLETE", "releaseAll")
          /\ UNCHANGED <<targetIndex, attempt, invalidRuns>>
  /\ UNCHANGED <<consecutiveInvalid, activeAttempt>>

(* The proof is made before acceptSave and throws where acceptSave would   *)
(* refuse, so the save the machine sees is always an advancement.          *)
Save ==
  /\ Awaiting("save")
  /\ attempts' = IF activeAttempt = 0 THEN attempts
                 ELSE [attempts EXCEPT ![activeAttempt].status = "WIN", ![activeAttempt].proof = TRUE]
  /\ IF targetIndex < Len(Nights)
     THEN /\ targetIndex' = targetIndex + 1
          /\ attempt' = 0 /\ invalidRuns' = 0
          /\ Transition("MENU", "menu")
     ELSE /\ Transition("COMPLETE", "releaseAll")
          /\ UNCHANGED <<targetIndex, attempt, invalidRuns>>
  /\ UNCHANGED <<consecutiveInvalid, activeAttempt>>

(* A port rejects, or its answer makes no proof.                           *)
PortFails ==
  /\ at \in Ports /\ Caught
  /\ UNCHANGED <<targetIndex, budget, records, runs>>

(* cleanup and releaseAll may fail too; a failure of either is recorded or *)
(* thrown on, and changes nothing here.                                    *)
CleanedUp ==
  /\ Awaiting("cleanup") /\ at' = "releaseAll"
  /\ UNCHANGED <<state, targetIndex, budget, records>>

Released ==
  /\ Awaiting("releaseAll") /\ at' = "idle"
  /\ UNCHANGED <<state, targetIndex, budget, records>>

Answer ==
  \/ \E yes \in BOOLEAN : \/ Preflight(yes) \/ Menu(yes) \/ CustomNight(yes) \/ Intro(yes)
                          \/ RetryReady(yes) \/ TerminalVerification(yes)
  \/ \E outcome \in Outcomes : Terminal(outcome)
  \/ Executed \/ Stopped \/ Save \/ PortFails \/ CleanedUp \/ Released

Next == StartRun \/ Resume \/ Answer

Spec == Init /\ [][Next]_vars

(* Every port is bounded by deadlines of its own, so each call answers.    *)
FairSpec == Spec /\ WF_vars(Answer)

-------------------------------------------------------------------------------
(* Every variable stays in the set the machine and the runner use; the     *)
(* target in particular is always a night of the specification.            *)
TypeOK ==
  /\ state \in States /\ targetIndex \in 1..Len(Nights)
  /\ attempt \in Nat /\ invalidRuns \in 0..attempt /\ consecutiveInvalid \in Nat
  /\ attempts \in Seq([night : 1..7, attempt : Nat, status : {"ACTIVE", "DEATH", "INVALID", "WIN"},
                       terminal : Outcomes \union {"none"}, verified : BOOLEAN, proof : BOOLEAN])
  /\ activeAttempt \in 0..Len(attempts)
  /\ at \in Ports \union {"idle", "cleanup", "releaseAll"}
  /\ runs \in 0..MaxRuns

(* The nights already left behind: those before the target, and the target *)
(* too once the campaign is COMPLETE.                                      *)
Won == IF state = "COMPLETE" THEN 1..Len(Nights) ELSE 1..(targetIndex - 1)

(* completedNights of the result -- the proven records -- are exactly the  *)
(* nights behind the cursor, each proven once, in the order of the         *)
(* specification: no night is skipped, and none is proven by the run of    *)
(* another.                                                                *)
WonInOrder ==
  /\ \A i \in DOMAIN attempts : attempts[i].proof => \E k \in Won : attempts[i].night = Nights[k]
  /\ \A k \in Won : \E i \in DOMAIN attempts : attempts[i].proof /\ attempts[i].night = Nights[k]
  /\ \A i, j \in DOMAIN attempts :
        i < j => attempts[i].night + (IF attempts[i].proof THEN 1 ELSE 0) <= attempts[j].night

(* A record with proof is a WIN whose own terminal was a positive 6 AM and *)
(* whose own verification was positive: evidence of one run never lands in *)
(* the record of another.                                                  *)
ProvenOnEvidence ==
  \A i \in DOMAIN attempts :
     attempts[i].proof => attempts[i].status = "WIN" /\ attempts[i].terminal = "sixam" /\ attempts[i].verified

(* However often the campaign is held, resumed and run again, at most      *)
(* MaxAttempts runs of a night count.                                      *)
BudgetKept ==
  \A n \in 1..7 :
     Cardinality({i \in DOMAIN attempts : attempts[i].night = n /\ attempts[i].status # "INVALID"}) <= MaxAttempts

(* A cause that invalidates every run cannot replay the night without end: *)
(* within one run() nothing is played after two Invalid runs in a row.     *)
TwoInvalidHold ==
  runs <= 1 =>
    \A i \in 1..(Len(attempts) - 1) :
       attempts[i].status = "INVALID" /\ attempts[i + 1].status = "INVALID" => i + 1 = Len(attempts)

(* While the night is played on the phone, the machine is ACTIVE and the   *)
(* last record is this very play, not yet judged ("Attempt numbers stay    *)
(* one per run played", campaign.ts).                                      *)
EveryPlayRecorded ==
  at = "executeAttempt" =>
    /\ state = "ACTIVE" /\ activeAttempt = Len(attempts) /\ activeAttempt # 0
    /\ attempts[activeAttempt].night = Target /\ attempts[activeAttempt].attempt = attempt
    /\ attempts[activeAttempt].status = "ACTIVE" /\ attempts[activeAttempt].terminal = "none"

(* The same of the first run(), which is the one the device CLI makes.     *)
FirstRunRecorded == runs <= 1 => EveryPlayRecorded

(* A judged run stays judged: nothing later in the run() writes into the   *)
(* record of a death, of an Invalid run or of a win.                       *)
VerdictsStand ==
  [][runs <= 1 => \A i \in DOMAIN attempts :
       attempts[i].status # "ACTIVE" => i \in DOMAIN attempts' /\ attempts'[i] = attempts[i]]_vars

(* The campaign implements the chain of nights.                            *)
Least(a, b) == IF a < b THEN a ELSE b
Chain == INSTANCE NightChain WITH
  Length  <- Len(Nights),
  Budget  <- MaxAttempts,
  won     <- IF state = "COMPLETE" THEN Len(Nights) ELSE targetIndex - 1,
  spent   <- IF state = "COMPLETE" THEN 0 ELSE Least(spentAttempts, MaxAttempts),
  playing <- activeAttempt # 0 /\ attempts[activeAttempt].status = "ACTIVE",
  verdict <- CASE state = "COMPLETE" -> "complete" [] state = "ABORTED" -> "aborted" [] OTHER -> "open"
ChainSpec == Chain!Spec

(* Every run() returns, whatever the ports answer.                         *)
RunEnds == at # "idle" ~> at = "idle"
=============================================================================
