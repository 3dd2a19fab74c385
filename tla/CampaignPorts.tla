---------------------------- MODULE CampaignPorts ----------------------------
(***************************************************************************)
(* The ports a campaign plays with on the phone (modern-campaign-ports.ts, *)
(* campaign-composition.ts), the game they press, and the signal cleanup   *)
(* of campaign-signal.ts that runs beside them. Campaign says in which     *)
(* order the ports are awaited and what an answer does to the campaign;    *)
(* here each port is its steps, one per await, and each answer is the      *)
(* Campaign action it fires.                                               *)
(*                                                                         *)
(* The executor is what its callers see of it (NightExecutor models it):   *)
(* it is armed, its input is released, and its execution settles.          *)
(***************************************************************************)
EXTENDS Campaign

CONSTANTS
  Signals,    (* an operator may interrupt the campaign                    *)
  VenueMoves  (* the venue's identity may move in a night the phone wins    *)

(* Of the constants; assumed where they are given their values.           *)
PortsAssumption == Signals \in BOOLEAN /\ VenueMoves \in BOOLEAN

VARIABLES
  (* the game                                                              *)
  screen, focused,  (* the title's row under the cursor is the target's    *)
  playing,          (* the night started last                              *)
  pressed,          (* the night the campaign's own press started last     *)
  cursor,           (* the night the save is at                            *)
  (* createCampaignPorts                                                   *)
  step,             (* where the awaited port is                           *)
  menuHid, pendingExecution, rolledIntoNight,
  exec,             (* localExecutor.execute(), as a promise               *)
  restartFailed,    (* the last restart of the game threw                  *)
  (* installCampaignSignalHandlers                                         *)
  signal

campaign == vars
game  == <<screen, focused, playing, pressed, cursor>>
host  == <<menuHid, pendingExecution, rolledIntoNight, exec, restartFailed>>
pvars == <<campaign, game, step, host, signal>>

Screens  == {"title", "starting", "dials", "intro", "night", "sixam", "gameover"}
Gameplay == {"starting", "intro", "night"}
Live     == {"armed", "playing"}
Settled  == {"sixam", "gameover", "completed", "invalid", "failed", "refused"}

(* menuTarget, and what the title offers for it: Continue plays the save's *)
(* night, and Night 5 again once the story is over.                        *)
NightOf(target) == IF target \in {1, 6, NIGHT7} THEN target ELSE IF cursor > 5 THEN 5 ELSE cursor
Offered(target) == target \in {6, NIGHT7} => cursor >= target
rolls(night) == night \in 1..4

PortsInit ==
  /\ Init
  /\ screen = "title" /\ focused \in BOOLEAN /\ playing = 0 /\ pressed = 0 /\ cursor = Nights[1]
  /\ step = "enter" /\ menuHid = FALSE /\ pendingExecution = FALSE /\ rolledIntoNight = 0
  /\ exec = "none" /\ restartFailed = FALSE /\ signal = "none"

Here(port, s) == at = port /\ step = s /\ signal # "exited"
Go(s) == step' = s /\ UNCHANGED campaign
Enter == step' = "enter"

(***************************************************************************)
(* The game.                                                               *)
(***************************************************************************)
Start(target) ==
  /\ screen' = IF target = NIGHT7 THEN "dials" ELSE "starting"
  /\ playing' = NightOf(target) /\ pressed' = NightOf(target)

(* A press on the title focuses the row, or starts what is focused. On any *)
(* other screen a menu press is not for the game.                          *)
Press(target) ==
  IF screen # "title" THEN UNCHANGED game
  ELSE /\ focused' = TRUE /\ UNCHANGED cursor
       /\ \/ ~focused /\ UNCHANGED <<screen, playing, pressed>>
          \/ focused  /\ Start(target)

NightBegins ==
  /\ screen \in {"starting", "intro"}
  /\ screen' = IF screen = "starting" THEN "intro" ELSE "night"
  /\ UNCHANGED <<focused, playing, pressed, cursor, campaign, step, host, signal>>

(* Somebody looks for the end of the night.                                *)
Watched == at \in {"executeAttempt", "terminal"} /\ exec \in {"playing", "completed"}

(* A death comes when it likes. A night takes minutes, so six AM comes     *)
(* while the host waits for the night to end, its schedule running or over.*)
NightEnds ==
  /\ screen = "night"
  /\ \/ screen' = "gameover" /\ UNCHANGED cursor
     \/ /\ screen' = "sixam" /\ cursor' = IF playing < NIGHT7 THEN playing + 1 ELSE NIGHT7
        /\ Watched
  /\ UNCHANGED <<focused, playing, pressed, campaign, step, host, signal>>

(* A Game Over can pass between two reads. Six AM lasts several, so it     *)
(* stays until the execution or the terminal port that watches has seen it.*)
EndingPasses ==
  /\ screen \in {"sixam", "gameover"} /\ ~(screen = "sixam" /\ Watched)
  /\ IF screen = "sixam" /\ rolls(playing)
     THEN screen' = "intro" /\ playing' = playing + 1 /\ UNCHANGED focused
     ELSE screen' = "title" /\ focused' \in BOOLEAN /\ UNCHANGED playing
  /\ UNCHANGED <<pressed, cursor, campaign, step, host, signal>>

(* Force-stop, start, and the title: the night that ran is gone.           *)
Relaunched == screen' = "title" /\ focused' \in BOOLEAN /\ UNCHANGED <<playing, pressed, cursor>>

(***************************************************************************)
(* The executor, from outside.                                             *)
(***************************************************************************)
(* execute() refuses a second execution while one runs.                    *)
execute(begun) == exec' = IF exec \in Live THEN "refused" ELSE begun
stopExecutor == exec' = IF exec \in Live THEN "failed" ELSE exec
releaseNight == exec' = IF exec = "armed" THEN "playing" ELSE exec

(* Six AM and Game Over are published on a positive read, and the schedule *)
(* may end before the night; any execution may fail, or end Invalid.       *)
ExecutionSettles ==
  /\ exec \in Live /\ signal # "exited"
  /\ \/ exec = "playing" /\ screen \in {"sixam", "gameover"} /\ exec' = screen
     \/ exec = "playing" /\ exec' = "completed"
     \/ exec' = "failed"
     \/ exec' = "invalid" /\ screen # "sixam"
  /\ UNCHANGED <<campaign, game, step, menuHid, pendingExecution, rolledIntoNight, restartFailed, signal>>

(***************************************************************************)
(* The ports.                                                              *)
(***************************************************************************)
(* A port that only answers: what it answers goes to the campaign.         *)
Answers(action) == action /\ Enter

PreflightPort ==
  /\ Here("preflight", "enter") /\ \E ready \in BOOLEAN : Answers(Preflight(ready))
  /\ UNCHANGED <<game, host, signal>>

RolledThrough == rolledIntoNight = Target /\ Target \in 2..5

(* No press: the roll already selected the night, if it still runs.        *)
MenuRolled ==
  /\ Here("menu", "enter") /\ RolledThrough
  /\ IF screen = "night" THEN Answers(Menu(TRUE)) ELSE Answers(PortFails)
  /\ UNCHANGED <<game, host, signal>>

(* The title is read before the HID is opened and again after.             *)
MenuReads ==
  /\ \/ Here("menu", "enter") /\ ~RolledThrough
     \/ Here("menu", "opened")
  /\ IF screen \notin {"title", "starting"} THEN Answers(PortFails) /\ UNCHANGED menuHid
     ELSE IF ~Offered(Target) THEN Answers(Menu(FALSE)) /\ UNCHANGED menuHid
     ELSE IF step = "enter" THEN Go("opened") /\ menuHid' = TRUE
     ELSE Go("press") /\ UNCHANGED menuHid
  /\ UNCHANGED <<game, pendingExecution, rolledIntoNight, exec, restartFailed, signal>>

(* Mutant: every story night is pressed at Continue.                       *)
tapContinue == menuHid' = TRUE /\ Press(5)

tap == menuHid' = TRUE /\ Press(Target)

MenuTaps ==
  /\ at = "menu" /\ step \in {"press", "press2"} /\ signal # "exited"
  /\ tap /\ Go(IF step = "press" THEN "settle" ELSE "select")
  /\ UNCHANGED <<pendingExecution, rolledIntoNight, exec, restartFailed, signal>>

(* settledAfterPress, or the untimed wait: a title means the press only    *)
(* focused the row.                                                        *)
MenuSettles ==
  /\ Here("menu", "settle")
  /\ Go(IF screen \in {"title", "starting"} THEN "press2" ELSE "select")
  /\ UNCHANGED <<game, host, signal>>

(* Mutant: every port that pre-arms starts an executor of its own.         *)
prearmTwice == pendingExecution' = TRUE /\ execute("armed")

(* Load the arm's watchlist, and start the held executor once.             *)
prearm == IF pendingExecution THEN UNCHANGED <<pendingExecution, exec>>
          ELSE pendingExecution' = TRUE /\ execute("armed")

MenuSelected ==
  /\ Here("menu", "select")
  /\ IF Target = NIGHT7 THEN UNCHANGED <<pendingExecution, exec>>
     ELSE screen \in {"intro", "night"} /\ prearm
  /\ Answers(Menu(TRUE))
  /\ UNCHANGED <<game, menuHid, rolledIntoNight, restartFailed, signal>>

(* The dials are set, read back -- a mismatch throws -- and Start pressed.  *)
CustomNightPort ==
  /\ Here("customNight", "enter")
  /\ IF screen # "dials" THEN Answers(PortFails) /\ UNCHANGED <<game, menuHid>>
     ELSE /\ menuHid' = TRUE /\ screen' = "starting" /\ UNCHANGED <<focused, playing, pressed, cursor>>
          /\ Answers(CustomNight(TRUE))
  /\ UNCHANGED <<pendingExecution, rolledIntoNight, exec, restartFailed, signal>>

IntroPrearms ==
  /\ Here("intro", "enter") /\ prearm /\ Go("waiting")
  /\ UNCHANGED <<game, menuHid, rolledIntoNight, restartFailed, signal>>

(* The office releases the schedule. A first story night continued from a  *)
(* cursor no operator observed is not identified.                          *)
IntroSeesNight ==
  /\ Here("intro", "waiting") /\ screen = "night"
  /\ releaseNight
  /\ \E observed \in IF targetIndex = 1 /\ Target \in 1..5 THEN BOOLEAN ELSE {TRUE} : Answers(Intro(observed))
  /\ UNCHANGED <<game, menuHid, pendingExecution, rolledIntoNight, restartFailed, signal>>

(* executeAttempt owns the pre-armed execution, or grants the release and  *)
(* starts its own.                                                         *)
AttemptOwns ==
  /\ Here("executeAttempt", "enter") /\ Go("running")
  /\ pendingExecution' = FALSE
  /\ IF pendingExecution THEN UNCHANGED exec ELSE execute("playing")
  /\ UNCHANGED <<game, menuHid, rolledIntoNight, restartFailed, signal>>

AttemptEnds ==
  /\ Here("executeAttempt", "running") /\ exec \in Settled
  /\ IF exec \in {"failed", "refused"} THEN Answers(PortFails) ELSE Answers(Executed)
  /\ UNCHANGED <<game, host, signal>>

(* terminalFromExecution, or the port's own watch for the end.             *)
ObservedTerminal ==
  CASE exec \in {"sixam", "gameover", "invalid"} -> exec
    [] exec = "completed" -> screen
    [] OTHER -> "none"

(* Mutant: a field that moves every night counts as the venue's.           *)
VenueNeverHolds(seen) == {CASE seen = "gameover" -> "death" [] OTHER -> seen, "invalid"}

(* A moved venue makes any other verdict Invalid.                          *)
VenueChecked(seen) == {CASE seen = "gameover" -> "death" [] OTHER -> seen} \union
                      IF seen = "gameover" \/ VenueMoves THEN {"invalid"} ELSE {}

TerminalPort ==
  /\ Here("terminal", "enter") /\ ObservedTerminal \in {"sixam", "gameover", "invalid"}
  /\ stopExecutor
  /\ \E outcome \in VenueChecked(ObservedTerminal) : Answers(Terminal(outcome))
  /\ UNCHANGED <<game, menuHid, pendingExecution, rolledIntoNight, restartFailed, signal>>

StopPorts == {"stopRetry", "stopLost", "stopProof"}
lastOutcome == attempts[activeAttempt].terminal

(* Mutant: the menu's HID process outlives the attempt.                    *)
StopKeepsHid ==
  /\ at \in StopPorts /\ step = "enter" /\ signal # "exited"
  /\ stopExecutor
  /\ IF lastOutcome = "invalid" THEN Go("restart") ELSE Answers(Stopped)
  /\ UNCHANGED <<game, menuHid, pendingExecution, rolledIntoNight, restartFailed, signal>>

(* The stop: no input, no HID process, and the title for an Invalid run.   *)
StopPort ==
  /\ at \in StopPorts /\ step = "enter" /\ signal # "exited"
  /\ stopExecutor /\ menuHid' = FALSE
  /\ IF lastOutcome = "invalid" THEN Go("restart") ELSE Answers(Stopped)
  /\ UNCHANGED <<game, pendingExecution, rolledIntoNight, restartFailed, signal>>

(* restartAfterAbort, which throws when the game, its title or the capture *)
(* does not come back.                                                     *)
restartAfterAbort(then, otherwise) ==
  /\ menuHid' = FALSE
  /\ \/ Relaunched /\ restartFailed' = FALSE /\ then
     \/ restartFailed' = TRUE /\ (UNCHANGED game \/ Relaunched) /\ otherwise

StopRestarts ==
  /\ at \in StopPorts /\ step = "restart" /\ signal # "exited"
  /\ restartAfterAbort(Answers(Stopped), Answers(PortFails))
  /\ UNCHANGED <<pendingExecution, rolledIntoNight, exec, signal>>

RetryPort ==
  /\ Here("retryReady", "enter") /\ screen \in {"title", "starting"}
  /\ Answers(RetryReady(Offered(Target)))
  /\ UNCHANGED <<game, host, signal>>

VerifyPort ==
  /\ Here("terminalVerification", "enter")
  /\ Answers(TerminalVerification(screen = "sixam"))
  /\ UNCHANGED <<game, host, signal>>

(* The save is proved by the roll into the next night, or by the title.    *)
SavePort ==
  /\ Here("save", "enter")
  /\ IF rolls(Target)
     THEN screen = "night" /\ rolledIntoNight' = Target + 1
     ELSE screen \in {"title", "starting"} /\ UNCHANGED rolledIntoNight
  /\ Answers(Save)
  /\ UNCHANGED <<game, menuHid, pendingExecution, exec, restartFailed, signal>>

(* An adb call fails, or a screen is not seen before its deadline. The     *)
(* attempt port has no call of its own: it throws what its execution does. *)
PortThrows ==
  /\ at \in Ports \ {"executeAttempt"} /\ signal # "exited" /\ Answers(PortFails)
  /\ UNCHANGED <<game, host, signal>>

(* Mutant: a failed port releases the executor and leaves the game.        *)
CleanupLeavesTheGame ==
  /\ Here("cleanup", "enter")
  /\ pendingExecution' = FALSE /\ stopExecutor /\ menuHid' = FALSE /\ Answers(CleanedUp)
  /\ UNCHANGED <<game, rolledIntoNight, restartFailed, signal>>

(* cleanup: the executor, then the game, then the HID, whatever throws.    *)
CleanupStops ==
  /\ Here("cleanup", "enter")
  /\ pendingExecution' = FALSE /\ stopExecutor /\ Go("restart")
  /\ UNCHANGED <<game, menuHid, rolledIntoNight, restartFailed, signal>>

CleanupRestarts ==
  /\ Here("cleanup", "restart")
  /\ restartAfterAbort(Answers(CleanedUp), Answers(CleanedUp))
  /\ UNCHANGED <<pendingExecution, rolledIntoNight, exec, signal>>

(* Mutant: a release forgets that a night was pre-armed.                   *)
ReleaseForgets ==
  /\ Here("releaseAll", "enter")
  /\ pendingExecution' = FALSE /\ stopExecutor /\ menuHid' = FALSE
  /\ Answers(Released)
  /\ UNCHANGED <<game, rolledIntoNight, restartFailed, signal>>

ReleaseAll ==
  /\ Here("releaseAll", "enter")
  /\ pendingExecution' = FALSE /\ stopExecutor /\ menuHid' = FALSE
  /\ IF pendingExecution THEN Go("restart") ELSE Answers(Released)
  /\ UNCHANGED <<game, rolledIntoNight, restartFailed, signal>>

ReleaseRestarts ==
  /\ Here("releaseAll", "restart")
  /\ restartAfterAbort(Answers(Released), Answers(Released))
  /\ UNCHANGED <<pendingExecution, rolledIntoNight, exec, signal>>

(* The operator has the phone before a run, and starts or resumes one.     *)
Operator ==
  /\ signal = "none" /\ (StartRun \/ Resume) /\ UNCHANGED <<game, step, host, signal>>

(***************************************************************************)
(* A signal: cleanup beside the runner, then exit. A second one is one task*)
(***************************************************************************)
SignalArrives ==
  /\ Signals /\ signal = "none" /\ at # "idle" /\ signal' = "stopping"
  /\ UNCHANGED <<campaign, game, step, host>>

SignalStops ==
  /\ signal = "stopping" /\ signal' = "restarting"
  /\ pendingExecution' = FALSE /\ stopExecutor
  /\ UNCHANGED <<campaign, game, step, menuHid, rolledIntoNight, restartFailed>>

(* Mutant: the process exits only after a cleanup that succeeded.          *)
SignalRestartsOrStays ==
  /\ signal = "restarting"
  /\ restartAfterAbort(signal' = "closing", signal' = "failed")
  /\ UNCHANGED <<campaign, step, pendingExecution, rolledIntoNight, exec>>

(* The restart takes its time: the game is at the title well before the    *)
(* capture is back and cleanup's own close runs.                           *)
SignalRestarts ==
  /\ signal = "restarting"
  /\ restartAfterAbort(signal' = "closing", signal' = "closing")
  /\ UNCHANGED <<campaign, step, pendingExecution, rolledIntoNight, exec>>

SignalExits ==
  /\ signal = "closing" /\ signal' = "exited" /\ menuHid' = FALSE
  /\ UNCHANGED <<campaign, game, step, pendingExecution, rolledIntoNight, exec, restartFailed>>

Port ==
  \/ PreflightPort \/ MenuRolled \/ MenuReads \/ MenuTaps \/ MenuSettles \/ MenuSelected
  \/ CustomNightPort \/ IntroPrearms \/ IntroSeesNight \/ AttemptOwns \/ AttemptEnds
  \/ TerminalPort \/ StopPort \/ StopRestarts \/ RetryPort \/ VerifyPort \/ SavePort
  \/ PortThrows \/ CleanupStops \/ CleanupRestarts \/ ReleaseAll \/ ReleaseRestarts

Game == NightBegins \/ NightEnds \/ EndingPasses
Cleanup == SignalStops \/ SignalRestarts \/ SignalExits
Signal == SignalArrives \/ Cleanup

PortsNext == Operator \/ Port \/ Game \/ ExecutionSettles \/ Signal

PortsSpec == PortsInit /\ [][PortsNext]_pvars
(* Every port's awaits are bounded, and the game's screens pass.           *)
PortsFairSpec == PortsSpec /\ WF_pvars(Port) /\ WF_pvars(Game) /\ WF_pvars(ExecutionSettles)
                           /\ WF_pvars(Cleanup)

-------------------------------------------------------------------------------
(* A port's own steps; one that only answers has none but the first.       *)
StepsOf(port) ==
  CASE port = "menu" -> {"enter", "opened", "press", "settle", "press2", "select"}
    [] port = "intro" -> {"enter", "waiting"}
    [] port = "executeAttempt" -> {"enter", "running"}
    [] port \in StopPorts \union {"cleanup", "releaseAll"} -> {"enter", "restart"}
    [] OTHER -> {"enter"}

(* Every variable stays in the set the ports and the game use, and a port  *)
(* is only ever at one of its own steps.                                   *)
PortsTypeOK ==
  /\ screen \in Screens /\ focused \in BOOLEAN
  /\ playing \in 0..NIGHT7 /\ pressed \in 0..NIGHT7 /\ cursor \in 1..NIGHT7
  /\ step \in StepsOf(at)
  /\ menuHid \in BOOLEAN /\ pendingExecution \in BOOLEAN /\ rolledIntoNight \in {0} \union 2..5
  /\ exec \in Live \union Settled \union {"none"} /\ restartFailed \in BOOLEAN
  /\ signal \in {"none", "stopping", "restarting", "closing", "exited"}

(* Until an interrupt's cleanup has begun: it restarts the game beside the *)
(* runner, and nothing is promised of the game between there and the exit. *)
Uninterrupted == signal \in {"none", "stopping"}

(* A released schedule plays the night it was composed for: whatever was   *)
(* pressed, rolled into, died in or restarted before, the night on the     *)
(* phone is the campaign's target.                                         *)
PlaysTheTarget == Uninterrupted /\ exec = "playing" /\ screen = "night" => playing = Target

(* No port starts an execution while an earlier one may still feed the     *)
(* phone: a pre-armed one is owned, or stopped, before the next is begun.  *)
OneExecution == exec # "refused"

(* An attempt is stopped, the title or the save is read, or run() is over. *)
Cleared ==
  \/ at \in {"retryReady", "terminalVerification", "save"}
  \/ at \in StopPorts /\ step = "restart"
  \/ at = "idle" /\ runs > 0

(* "no stale HID stream can reach menu" (the stop port): then no executor  *)
(* holds a schedule, none is pre-armed and no HID process is open.         *)
NothingReachesTheMenu == Cleared => exec \notin Live /\ ~menuHid /\ ~pendingExecution

(* Both at every moment, interrupted or not: no execution is begun over    *)
(* another, and none reaches a menu, a proof or a campaign at rest.        *)
ExecutionsOwned == OneExecution /\ NothingReachesTheMenu

(* A campaign at rest leaves no night it started behind, however it ended: *)
(* held before an attempt, failed in any port, judged Invalid, stopped at  *)
(* the budget. Only a restart of the game that failed can, or a night the  *)
(* game rolled into by itself.                                             *)
NoNightLeftBehind ==
  Uninterrupted /\ at = "idle" /\ runs > 0 /\ screen \in Gameplay =>
    restartFailed \/ playing # pressed

(* modern-campaign-ports.ts:561-564: a night that is not the one being     *)
(* rolled into goes through the title -- so a retry of a night the game    *)
(* once rolled into is pressed there, like any other.                      *)
RetryGoesThroughTheTitle ==
  [][MenuRolled => \A i \in DOMAIN attempts : attempts[i].night # Target]_pvars

(* campaign-signal.ts:41-43: at the exit the HID is released and, unless   *)
(* its restart failed, the game is at the title.                           *)
SignalLeavesTheTitle == [][SignalExits => restartFailed \/ screen = "title"]_pvars
=============================================================================
