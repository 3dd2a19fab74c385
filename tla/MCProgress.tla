------------------------------ MODULE MCProgress -------------------------------
(***************************************************************************)
(* What must come to an end, each part on its own and under the fairness    *)
(* its module states: the executor's streams, the two halves of FNaF 3's    *)
(* loop, the second game's office, the fourth game's meter, the phone's     *)
(* settings where zen_mode follows a set_dnd late, a campaign an operator   *)
(* interrupts.                                                              *)
(* Smaller instances than the safety runs': a behaviour is one part's, the  *)
(* others keep their first state. FNaF 3's track is extended and not        *)
(* instantiated: TLC then computes the tables of its map once.              *)
(***************************************************************************)
EXTENDS Fnaf3Track

VARIABLES
  part,        (* whose behaviour this is                                  *)
  screen, request, running, grant, hid, run, intro, result, executions,
  view, broken, reboot, left, over, slips, faults, scare, force, which, closed, count, pc, then, back,
  tick, alive, mon, monAnim, viewing, viewed, sampled, mask, maskAnim, blocked, touch, drop,
  pos, cue, raiseSeen, armed, engaged, encounter, clock, fade, danger, threshold, display,
  streak, committed, puppet, attack,
  rule, ended, hour, forceHour, follow, hand, walkLeft, pendingStation, turning,
  pendingAfterTurn, forceTurn, foxy, foxyAv2, foxyGotYou, zone, pulse, tag, interlock, av6, av7,
  freddyCounter, blackFlash, counterWas80, idleSec, bedWatchSec, fredbear, fbSpawned, fbAv6,
  fbStare, fbAv19, idleFredSec, fredcheck, asked, watched, turned, resolved,
  phone, flight, owner, pending, lease, place, prior, index, missed, unverified, exit, failures,
  state, targetIndex, attempt, invalidRuns, consecutiveInvalid, attempts, activeAttempt, port, runs,
  menu, focused, playing, pressed, cursor,
  step, menuHid, pendingExecution, rolledIntoNight, exec, restartFailed, signal

executor == <<screen, request, running, grant, hid, run, intro, result, executions>>
systems  == <<view, broken, reboot, left, over, slips, faults, scare, force, which, closed, count, pc,
              then, back>>
office   == <<tick, alive, mon, monAnim, viewing, viewed, sampled, mask, maskAnim, blocked, touch,
              drop, pos, cue, raiseSeen, armed, engaged, encounter, clock, fade, danger, threshold,
              display, streak, committed, puppet, attack>>
bedroom  == <<rule, ended, hour, forceHour, follow, hand, walkLeft, pendingStation, turning,
              pendingAfterTurn, forceTurn, foxy, foxyAv2, foxyGotYou, zone, pulse, tag, interlock,
              av6, av7, freddyCounter, blackFlash, counterWas80, idleSec, bedWatchSec, fredbear,
              fbSpawned, fbAv6, fbStare, fbAv19, idleFredSec, fredcheck, asked, watched, turned,
              resolved>>
settings == <<phone, flight, owner, pending, lease, place, prior, index, missed, unverified, exit,
              failures>>
campaign == <<state, targetIndex, attempt, invalidRuns, consecutiveInvalid, attempts, activeAttempt,
              port, runs, menu, focused, playing, pressed, cursor,
              step, menuHid, pendingExecution, rolledIntoNight, exec, restartFailed, signal>>
all      == <<part, executor, systems, trackVars, office, bedroom, settings, campaign>>

(* One attempt, pieces of one line, no cycle gate.                          *)
Executor == INSTANCE NightExecutor WITH
  Owners <- {"observer"}, Arms <- {"once"}, Lines <- 1, Gates <- 0, MaxExecutions <- 1

Systems == INSTANCE Fnaf3Systems WITH
  EXITS <- 4, REBOOT <- 3, RAISES <- 2, SLIPS <- 1, FAULTS <- 2, screen <- view

Office == INSTANCE Fnaf2Office WITH
  Units <- {"withfreddy", "toyfreddy", "toybonnie"}, MON_UP <- 1, MON_DOWN <- 1, MASK_ON <- 1,
  MASK_OFF <- 1, GRACE <- 2, BLACKOUT <- 3, FADE <- 2, STREAK <- 2, ATTACK <- 2,
  phase <- tick, displayed <- viewing, seen <- viewed, shown <- display

(* Freddy and Foxy, the closet and the bed.                                 *)
Bedroom == INSTANCE Fnaf4Night WITH
  AwakeFirst <- {"freddy", "foxy"}, AwakeLater <- {"freddy", "foxy"}, LATE <- 1,
  Stations <- {"closet", "bed"}, Forced <- {0}, LAST_HOUR <- 2, WALK <- 1, TURN <- 2, GOTYOU <- 2, KILL <- 2, ARM <- 3, METER <- 4,
  FUSES <- {3, 4}, FIXED <- 3, DWELL <- 1, LONG <- 3, IDLE <- 2, WATCH <- 2, STARE <- 1, BED <- 3,
  CHECK <- 2, HALL <- 2, STILL <- 2, hourNow <- hour

(* One window and the unit's restore after it; one kill or failed call.   *)
Recorded == <<"stay", "bright", "zen">>
All(value) == [s \in {"stay", "bright", "zen"} |-> value]
NoRecord == All(2)
Settings == INSTANCE WindowSettings WITH
  Windows <- {"window"}, Restorers <- {"restore"}, Quiet <- <<"stay">>, Dnd <- "zen",
  Values <- {0, 1}, Ours <- All(1), DndOff <- 0, DndSlow <- TRUE, MaxFaults <- 1,
  Free <- "free", NoFlight <- 2, pc <- place, at <- index, faults <- failures

(* The Custom Night, played once.                                           *)
Campaign == INSTANCE CampaignPorts WITH
  Nights <- <<7>>, MaxAttempts <- 1, MaxRuns <- 1, Signals <- TRUE, VenueMoves <- FALSE,
  at <- port, screen <- menu

ASSUME ProgressAssumption ==
  /\ Executor!ExecutorAssumption /\ Systems!SystemsAssumption
  /\ TrackAssumption /\ Office!OfficeAssumption /\ Bedroom!BedroomAssumption
  /\ Settings!SettingsAssumption /\ Campaign!PortsAssumption

ProgressInit ==
  /\ part \in {"executor", "systems", "track", "office", "bedroom", "settings", "campaign"}
  /\ Executor!Init /\ Systems!SystemsInit /\ TrackInit /\ Office!OfficeInit /\ Bedroom!BedroomInit /\ Settings!Init
  /\ Campaign!PortsInit
  /\ part # "executor" => request = [owner |-> "observer", arm |-> "once"]
  /\ part # "office" => puppet = "away"
  /\ part # "settings" => owner = All(0)
  /\ part # "campaign" => focused

ProgressNext ==
  /\ UNCHANGED part
  /\ \/ part = "executor" /\ Executor!Next /\ UNCHANGED <<systems, trackVars, office, bedroom, settings, campaign>>
     \/ part = "systems"  /\ Systems!SystemsNext  /\ UNCHANGED <<executor, trackVars, office, bedroom, settings, campaign>>
     \/ part = "track"    /\ TrackNext     /\ UNCHANGED <<executor, systems, office, bedroom, settings, campaign>>
     \/ part = "office"   /\ Office!OfficeNext   /\ UNCHANGED <<executor, systems, trackVars, bedroom, settings, campaign>>
     \/ part = "bedroom"  /\ Bedroom!BedroomNext  /\ UNCHANGED <<executor, systems, trackVars, office, settings, campaign>>
     \/ part = "settings" /\ Settings!Next /\ UNCHANGED <<executor, systems, trackVars, office, bedroom, campaign>>
     \/ part = "campaign" /\ Campaign!PortsNext /\ UNCHANGED <<executor, systems, trackVars, office, bedroom, settings>>

(* Each module's own fairness, for its part; an interrupted campaign needs  *)
(* no more than its cleanup's.                                              *)
Steps ==
  /\ UNCHANGED part
  /\ \/ part = "systems" /\ Systems!SystemsLoop /\ UNCHANGED <<executor, trackVars, office, bedroom, settings, campaign>>
     \/ part = "track"   /\ TrackLoop    /\ UNCHANGED <<executor, systems, office, bedroom, settings, campaign>>
     \/ part = "office"  /\ Office!Tick  /\ UNCHANGED <<executor, systems, trackVars, bedroom, settings, campaign>>
     \/ /\ part = "bedroom" /\ (Bedroom!Hold \/ Bedroom!FrameRules)
        /\ UNCHANGED <<executor, systems, trackVars, office, settings, campaign>>
     \/ /\ part = "campaign" /\ Campaign!Cleanup
        /\ UNCHANGED <<executor, systems, trackVars, office, bedroom, settings>>
ForcedTurn == part = "bedroom" /\ Bedroom!Bedroom(TRUE)
ExecutorFairness ==
  /\ WF_executor(part = "executor" /\ Executor!Write)
  /\ WF_executor(part = "executor" /\ Executor!CloseShared)
  /\ WF_executor(part = "executor" /\ Executor!ReleaseAnswered)
  /\ WF_executor(part = "executor" /\ Executor!Deadline)
  /\ WF_executor(part = "executor" /\ Executor!Unwind)
  /\ WF_executor(part = "executor" /\ Executor!TornDown)
  /\ WF_executor(part = "executor" /\ Executor!Capture)
  /\ WF_executor(part = "executor" /\ Executor!Classified)
  /\ WF_executor(part = "executor" /\ Executor!HandedOver)
  /\ WF_executor(part = "executor" /\ Executor!WindowPasses)
  /\ WF_executor(part = "executor" /\ Executor!Arm)
  /\ WF_executor(part = "executor" /\ Executor!Gating)
SettingsFairness ==
  /\ \A p \in Settings!Procs : WF_settings(part = "settings" /\ Settings!Step(p))
  /\ WF_settings(part = "settings" /\ Settings!DndLands)
  /\ WF_settings(part = "settings" /\ Settings!FindRecord("restore"))
  /\ SF_settings(part = "settings" /\ Settings!RestoreLeased("restore"))

ProgressSpec == ProgressInit /\ [][ProgressNext]_all /\ WF_all(Steps) /\ SF_bedroom(ForcedTurn)
  /\ ExecutorFairness /\ SettingsFairness

-------------------------------------------------------------------------------
(* What goes wrong is answered: the stream of a night a static has halted   *)
(* dies, FNaF 3's broken ventilation is rebooted, the second game's         *)
(* encounter ends and the fourth game's burning fuse ends the night.        *)
WrongsAnswered ==
   (\/ part = "executor" /\ run.halted
    \/ part = "systems" /\ "VENT" \in broken
    \/ part = "office" /\ encounter.active
    \/ part = "bedroom" /\ blackFlash # 0)
   ~>
   (\/ part = "executor" /\ (hid = "closed" \/ running = "no")
    \/ part = "systems" /\ ("VENT" \notin broken \/ pc = "done")
    \/ part = "office" /\ (~encounter.active \/ ~alive)
    \/ part = "bedroom" /\ ended # "")

(* Nothing stays open: an execution settles, FNaF 3's menu is left, whoever *)
(* stands at the office's threshold is let in or repelled, a record of the  *)
(* owner's settings is restored and deleted, however late zen_mode answers, *)
(* an interrupted campaign exits, whatever its runner is waiting for.       *)
NothingStaysOpen ==
   (\/ part = "executor" /\ running # "no"
    \/ part = "systems" /\ view = "menu"
    \/ part = "office" /\ pos["withfreddy"] = "at"
    \/ part = "settings" /\ pending # NoRecord
    \/ part = "campaign" /\ signal = "stopping")
   ~>
   (\/ part = "executor" /\ running = "no"
    \/ part = "systems" /\ (view # "menu" \/ pc = "done")
    \/ part = "office" /\ (pos["withfreddy"] # "at" \/ ~alive)
    \/ part = "settings" /\ pending = NoRecord
    \/ part = "campaign" /\ signal = "exited")

(* What cannot be escaped comes: a committed attack kills, and on the       *)
(* camera he stays on after his last move FNaF 3's loop comes to watch him. *)
InescapableComes ==
   (\/ part = "office" /\ Office!Attacked
    \/ part = "track" /\ moves = 0 /\ him \in 2..10)
   ~>
   (\/ part = "office" /\ ~alive
    \/ part = "track" /\ seen = him /\ ~lost)
===============================================================================
