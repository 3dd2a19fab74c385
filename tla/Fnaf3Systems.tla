---------------------------- MODULE Fnaf3Systems ------------------------------
(***************************************************************************)
(* The FNaF 3 loop on the handset (fnaf3-run.ts): the monitor, whose tab   *)
(* is a toggle, the maintenance menu, whose Exit is refused while a reboot *)
(* runs, and the phantom's flash that breaks ventilation.                  *)
(*                                                                         *)
(* Looking for Springtrap is Fnaf3Track's; here it is a step that may need *)
(* the monitor and asks for service between two cameras. A press the game  *)
(* does not take and a frame that shows nothing are slips; a system that   *)
(* breaks is a fault; a run has so many of each.                           *)
(***************************************************************************)
EXTENDS Integers, FiniteSets

CONSTANTS
  EXITS,     (* presses of Exit before the menu is given up                *)
  REBOOT,    (* the longest reboot, in presses of Exit                     *)
  RAISES,    (* tries to raise the monitor                                 *)
  SLIPS, FAULTS

(* A reboot of everything takes 20 s; 24 exits are 21.6 s apart.           *)
(* Of the constants; assumed where they are given their values.           *)
SystemsAssumption == {EXITS, REBOOT, RAISES, SLIPS, FAULTS} \subseteq Nat /\ REBOOT < EXITS /\ RAISES > 0

VARIABLES
  screen,        (* the office, the monitor or the maintenance menu        *)
  broken,        (* systems in error                                       *)
  reboot, left,  (* systems being rebooted, and for how long still         *)
  over,          (* the title is up, the time is over or a stop was asked  *)
  slips, faults,
  scare,         (* a white flash was seen and not answered yet            *)
  force,         (* this service is a flash's                              *)
  which,         (* what this service has rebooted                         *)
  closed,        (* the menu read closed                                   *)
  count,         (* exits, or raises, left to try                          *)
  pc, then, back (* where the loop is, goes after service, after a raise   *)

game == <<screen, broken, reboot, left>>
visit == <<force, which, closed>>
flow == <<pc, then, back>>
systemsVars == <<game, over, slips, faults, scare, visit, count, flow>>

Systems == {"VENT", "VIDEO", "AUDIO"}

SystemsInit ==
  /\ screen = "office" /\ broken = {} /\ reboot = {} /\ left = 0
  /\ over = FALSE /\ slips = SLIPS /\ faults = FAULTS /\ scare = FALSE
  /\ force = FALSE /\ which = {} /\ closed = FALSE /\ count = 0
  /\ pc = "raise" /\ then = "check" /\ back = "head"

Jump(l) == pc' = l
Slip(s) == LET n == Cardinality({i \in DOMAIN s : s[i]}) IN n <= slips /\ slips' = slips - n

(* The game: a system fails; a phantom's scare drops the monitor, breaks   *)
(* ventilation and ends in a flash the 200 ms timer may fall beside; and   *)
(* the time passes.                                                        *)
Break ==
  /\ faults > 0 /\ faults' = faults - 1
  /\ \E s \in Systems \ broken : broken' = broken \union {s}
  /\ UNCHANGED <<screen, reboot, left, over, slips, scare, visit, count, flow>>

Flash ==
  /\ faults > 0 /\ faults' = faults - 1
  /\ screen # "menu" /\ screen' = "office" /\ broken' = broken \union {"VENT"}
  /\ scare' \in {scare, TRUE}
  /\ UNCHANGED <<reboot, left, over, slips, visit, count, flow>>

Over ==
  /\ ~over /\ over' = TRUE
  /\ UNCHANGED <<game, slips, faults, scare, visit, count, flow>>

(* What is left of a reboot, after as long as between two presses of Exit. *)
Passes ==
  /\ left' = IF left = 0 THEN 0 ELSE left - 1
  /\ IF left = 1 THEN broken' = broken \ reboot /\ reboot' = {} ELSE UNCHANGED <<broken, reboot>>

NextRound ==
  /\ pc = "head"
  /\ IF over THEN Jump("done") /\ UNCHANGED then ELSE Jump("service") /\ then' = "check"
  /\ UNCHANGED <<game, over, slips, faults, scare, visit, count, back>>

(* Mutant: only a flash is answered.                                       *)
ServiceScares ==
  /\ pc = "service" /\ force' = scare /\ scare' = FALSE
  /\ UNCHANGED <<game, over, slips, faults, which, closed, count, then, back>>
  /\ IF scare THEN Jump("lines") ELSE Jump(then)

(* service: a flash, or the red lines on the monitor.                      *)
Service ==
  /\ pc = "service" /\ force' = scare /\ scare' = FALSE
  /\ \E blind \in BOOLEAN :
       /\ Slip(<<blind>>)
       /\ IF scare \/ (screen = "monitor" /\ ~blind /\ broken # {}) THEN Jump("lines") ELSE Jump(then)
  /\ UNCHANGED <<game, over, faults, which, closed, count, then, back>>

(* The lines read for 700 ms; the tab, if the monitor still reads up.      *)
Lines ==
  /\ pc = "lines"
  /\ \E read \in SUBSET (IF screen = "monitor" THEN broken ELSE {}), blind, missed \in BOOLEAN :
       /\ Slip(<<screen = "monitor" /\ read # broken, blind, missed>>)
       /\ IF read = {} /\ ~force THEN Jump(then) /\ UNCHANGED screen
          ELSE /\ Jump("maint")
               /\ screen' = IF screen = "monitor" /\ ~blind /\ ~missed THEN "office" ELSE screen
  /\ which' = {}
  /\ UNCHANGED <<broken, reboot, left, over, faults, scare, force, closed, count, then, back>>

Maintenance ==
  /\ pc = "maint"
  /\ \E blind, missed \in BOOLEAN :
       /\ Slip(<<blind, missed>>)
       /\ screen' = IF screen = "office" /\ ~missed THEN "menu" ELSE screen
       /\ IF screen' = "menu" /\ ~blind THEN Jump("menu") /\ UNCHANGED back ELSE Jump("raise") /\ back' = "service"
  /\ closed' = FALSE
  /\ UNCHANGED <<broken, reboot, left, over, faults, scare, force, which, count, then>>

(* Two broken systems: all of them. One: that one, or all when the clock   *)
(* says the longer reboot is worth it.                                     *)
chooseReboot(words) ==
  IF words = {} THEN {{}} ELSE IF Cardinality(words) >= 2 THEN {Systems} ELSE {words, Systems}

(* Mutant: one exit too few.                                               *)
MenuExitsShort ==
  /\ pc = "menu"
  /\ \E read \in SUBSET broken, missed \in BOOLEAN :
       /\ Slip(<<read # broken, missed>>)
       /\ which' \in chooseReboot(read \union IF force THEN {"VENT"} ELSE {})
       /\ IF which' # {} /\ reboot = {} /\ screen = "menu" /\ ~missed
          THEN reboot' = which' /\ left' \in 1..REBOOT ELSE UNCHANGED <<reboot, left>>
  /\ count' = EXITS - 1 /\ Jump("exit")
  /\ UNCHANGED <<screen, broken, over, faults, scare, force, closed, then, back>>

(* The red words; the reboot they ask for.                                 *)
Menu ==
  /\ pc = "menu"
  /\ \E read \in SUBSET broken, missed \in BOOLEAN :
       /\ Slip(<<read # broken, missed>>)
       /\ which' \in chooseReboot(read \union IF force THEN {"VENT"} ELSE {})
       /\ IF which' # {} /\ reboot = {} /\ screen = "menu" /\ ~missed
          THEN reboot' = which' /\ left' \in 1..REBOOT ELSE UNCHANGED <<reboot, left>>
  /\ count' = EXITS /\ Jump("exit")
  /\ UNCHANGED <<screen, broken, over, faults, scare, force, closed, then, back>>

(* Mutant: Exit is taken while a reboot runs, which goes on behind it.     *)
ExitTaken == IF screen = "menu" THEN "office" ELSE screen

(* Exit is refused while a reboot runs.                                    *)
ExitPressed == IF screen = "menu" /\ reboot = {} THEN "office" ELSE screen

(* Exit, until a frame does not show the menu.                             *)
Exit ==
  /\ pc = "exit" /\ screen' = ExitPressed /\ Passes
  /\ \E blind \in BOOLEAN :
       /\ Slip(<<blind>>) /\ closed' = (screen' # "menu" \/ blind)
       /\ IF closed' \/ count = 1 THEN Jump("raise") /\ back' = "service" ELSE UNCHANGED <<pc, back>>
  /\ count' = count - 1
  /\ UNCHANGED <<over, faults, scare, force, which, then>>

(* After service: where it was asked for; from a search, to the loop's     *)
(* head when something was rebooted.                                       *)
Returned(up) ==
  CASE back = "service" -> IF then = "search" /\ which # {} THEN "head" ELSE then
    [] back = "recover" -> IF up THEN "search" ELSE "head"
    [] OTHER -> back

RaiseSees ==
  /\ pc = "raise"
  /\ \E blind \in BOOLEAN :
       /\ Slip(<<blind>>)
       /\ IF screen = "monitor" /\ ~blind THEN Jump(Returned(TRUE)) /\ UNCHANGED count ELSE Jump("try") /\ count' = RAISES
  /\ UNCHANGED <<game, over, faults, scare, visit, then, back>>

TabPressed(s) == CASE s = "office" -> "monitor" [] s = "monitor" -> "office" [] OTHER -> s

(* Mutant: the menu that read closed is not exited again.                  *)
RaiseWithoutExit ==
  /\ pc = "try" /\ Passes
  /\ \E blind, missed \in BOOLEAN :
       /\ Slip(<<blind, missed>>)
       /\ screen' = IF missed THEN screen ELSE TabPressed(screen)
       /\ \/ screen' = "monitor" /\ ~blind /\ Jump(Returned(TRUE))
          \/ (screen' # "monitor" \/ blind) /\ (count = 1 \/ over) /\ Jump(Returned(FALSE))
          \/ (screen' # "monitor" \/ blind) /\ count > 1 /\ UNCHANGED pc
  /\ count' = count - 1
  /\ UNCHANGED <<over, faults, scare, visit, then, back>>

(* Exit first, whatever the menu read; then the tab, and a label to turn   *)
(* green. The title gives the tries up.                                    *)
Raise ==
  /\ pc = "try" /\ Passes
  /\ \E blind, missed \in BOOLEAN :
       /\ Slip(<<blind, missed>>)
       /\ screen' = IF missed THEN ExitPressed ELSE TabPressed(ExitPressed)
       /\ \/ screen' = "monitor" /\ ~blind /\ Jump(Returned(TRUE))
          \/ (screen' # "monitor" \/ blind) /\ (count = 1 \/ over) /\ Jump(Returned(FALSE))
          \/ (screen' # "monitor" \/ blind) /\ count > 1 /\ UNCHANGED pc
  /\ count' = count - 1
  /\ UNCHANGED <<over, faults, scare, visit, then, back>>

(* The monitor down and nobody put it down: a flash, the end, or raise it. *)
Check ==
  /\ pc = "check"
  /\ \E blind \in BOOLEAN :
       /\ Slip(<<blind>>)
       /\ \/ screen = "monitor" /\ ~blind /\ Jump("search") /\ UNCHANGED <<then, back>>
          \/ /\ screen # "monitor" \/ blind
             /\ \/ over /\ Jump("done") /\ UNCHANGED <<then, back>>
                \/ ~over /\ scare /\ Jump("service") /\ then' = "head" /\ UNCHANGED back
                \/ ~over /\ ~scare /\ Jump("raise") /\ back' = "recover" /\ UNCHANGED then
  /\ UNCHANGED <<game, over, faults, scare, visit, count>>

(* A camera is put on screen, the monitor raised for it when no label is   *)
(* read; then the round is done, or service is asked for before the next.  *)
Search ==
  /\ pc = "search"
  /\ \E blind \in BOOLEAN :
       /\ Slip(<<blind>>)
       /\ IF screen = "monitor" /\ ~blind THEN Jump("looked") /\ UNCHANGED back ELSE Jump("raise") /\ back' = "looked"
  /\ UNCHANGED <<game, over, faults, scare, visit, count, then>>

Looked ==
  /\ pc = "looked"
  /\ \/ Jump("head") /\ UNCHANGED then
     \/ Jump("service") /\ then' = "search"
  /\ UNCHANGED <<game, over, slips, faults, scare, visit, count, back>>

SystemsLoop == NextRound \/ Service \/ Lines \/ Maintenance \/ Menu \/ Exit \/ RaiseSees \/ Raise \/ Check \/ Search \/ Looked
Done == pc = "done" /\ UNCHANGED systemsVars
SystemsNext == Break \/ Flash \/ Over \/ SystemsLoop \/ Done
SystemsSpec == SystemsInit /\ [][SystemsNext]_systemsVars /\ WF_systemsVars(SystemsLoop)

-------------------------------------------------------------------------------
(* Every variable stays in its set; a reboot runs exactly while time is    *)
(* left of it.                                                             *)
SystemsTypeOK ==
  /\ screen \in {"office", "monitor", "menu"}
  /\ broken \subseteq Systems /\ reboot \subseteq Systems /\ which \subseteq Systems
  /\ left \in 0..REBOOT /\ (left = 0) = (reboot = {})
  /\ slips \in 0..SLIPS /\ faults \in 0..FAULTS /\ count \in 0..(EXITS + RAISES)
  /\ {over, scare, force, closed} \subseteq BOOLEAN
  /\ then \in {"check", "head", "search"} /\ back \in {"head", "service", "recover", "looked"}

(* serviceSystems returns ok: the menu read closed, the monitor is up.     *)
ServiceSaysDone == pc \in {"raise", "try"} /\ back = "service" /\ which # {} /\ closed
  /\ pc' \notin {"raise", "try"} /\ screen' = "monitor"

(* A service that reports the menu closed and the monitor up has left no   *)
(* reboot running: the clock's counters are cleared for a finished one,    *)
(* though a black frame reads as a closed menu.                            *)
DoneMeansRebooted == [][ServiceSaysDone => reboot' = {}]_systemsVars

(* The exits outlast every reboot: no service gives the menu up while it   *)
(* is still seen open.                                                     *)
MenuOutlasted == [][Exit /\ pc' = "raise" => closed']_systemsVars

(* An open menu is left again: the loop never presses on behind it.        *)
MenuLeft == screen = "menu" ~> (screen # "menu" \/ pc = "done")

(* Broken ventilation is rebooted, seen as a flash or as a line, or the    *)
(* loop has ended.                                                         *)
VentRebooted == "VENT" \in broken ~> ("VENT" \notin broken \/ pc = "done")

(* The loop's log: "a white flash: a phantom scare broke ventilation;      *)
(* rebooting it".                                                          *)
FlashRebooted == [][(pc \in {"raise", "try"} /\ back = "service" /\ force /\ pc' \notin {"raise", "try"}) => which # {}]_systemsVars
===============================================================================
