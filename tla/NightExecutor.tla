----------------------------- MODULE NightExecutor -----------------------------
(***************************************************************************)
(* One night played by the device-local executor over the title's shared   *)
(* HID process (adb-device-local-executor.ts, with the cycle gates of      *)
(* cycle-gates.ts), and the intro port that releases it. Four tasks of one *)
(* event loop meet here: the feed that writes the plan's lines, the        *)
(* lifecycle observer, the camera arm and the cycle gates. An action is    *)
(* the code between two awaits.                                            *)
(*                                                                         *)
(* A plan is its pieces: the body, the segments behind the gates, and the  *)
(* lines a re-arm and a correction write. The shell transport, the control *)
(* effect ledger and the native origin anchor (records only) are left out. *)
(***************************************************************************)
EXTENDS Naturals, Sequences

CONSTANTS
  Owners,         (* nightReleaseOwner of the runs explored                *)
  Arms,           (* arm modes explored: "none", "blocking", "once"        *)
  Lines,          (* lines of a piece of the plan (a bound)                *)
  Gates,          (* cycle gates of an arm-verified plan (a bound)         *)
  MaxExecutions   (* attempts of the campaign (a bound)                    *)

(* Of the constants; assumed where they are given their values.           *)
ExecutorAssumption ==
  /\ Owners \subseteq {"observer", "port"} /\ Arms \subseteq {"none", "blocking", "once"}
  /\ Lines \in Nat \ {0} /\ Gates \in Nat /\ MaxExecutions \in Nat

VARIABLES
  screen,      (* what the phone shows                                     *)
  request,     (* the night release's owner and the arm mode               *)
  running,     (* "no", "yes", and "ending" in execute()'s finally block   *)
  grant,       (* nightReleaseGranted, which outlives an execution         *)
  hid,         (* the shared HID process                                   *)
  run,         (* the locals of execute()                                  *)
  intro,       (* the intro port beside it: "off", "waiting", "released"   *)
  result,      (* what the last execution settled to                       *)
  executions

ports == <<screen, request, running, grant, hid, intro, result, executions>>
vars  == <<ports, run>>

MAX_ARM_ATTEMPTS == 3
EXIT_CONFIRM_SAMPLES == 3
TERMINAL_SCREENS == {"title", "gameover", "sixam"}
Screens == {"intro", "night", "static", "gameover", "sixam", "title"}
Pieces == {"body", "armSegment", "segment", "fix", "rearm"}

NewRun ==
  [queue |-> <<>>, planned |-> 0,
   startup |-> TRUE, started |-> FALSE, stale |-> FALSE, handoff |-> "none", office |-> FALSE,
   stopped |-> FALSE, resolved |-> FALSE, stopObserver |-> FALSE, outside |-> FALSE,
   halted |-> FALSE, closing |-> FALSE, windowOver |-> FALSE,
   observer |-> "waiting", frame |-> "none", nightObserved |-> FALSE, samples |-> 0,
   terminal |-> "none", exit |-> "none",
   arm |-> IF request.arm = "none" THEN "done" ELSE "pending", armAttempt |-> 1,
   armStatus |-> "PENDING", armFailure |-> "none",
   gate |-> "off", gatesLeft |-> Gates]

Init ==
  /\ screen = "intro" /\ request \in [owner : Owners, arm : Arms]
  /\ running = "no" /\ grant = FALSE /\ hid = "open" /\ run = NewRun
  /\ intro = "off" /\ result = "none" /\ executions = 0

(***************************************************************************)
(* The feed: one queue of tasks, each written line by line.                *)
(***************************************************************************)
feedShared(r, piece, n) == [r EXCEPT !.queue = Append(@, [piece |-> piece, left |-> n])]

(* Lines of the plan written by this execution: none, or their parity.     *)
Another(planned) == IF planned = 1 THEN 2 ELSE 1

Queued(piece) == \E i \in DOMAIN run.queue : run.queue[i].piece = piece

(* A night observed, or released: the intro is over.                       *)
Observed(r) == [r EXCEPT !.nightObserved = TRUE, !.startup = FALSE]

(* The night is released once, and never into a run that is ending.        *)
startSharedSchedule(r, stale) ==
  IF r.started \/ r.stopObserver \/ r.halted \/ running = "ending" THEN r
  ELSE feedShared([Observed(r) EXCEPT !.started = TRUE, !.stale = stale], "body", Lines)

(* Mutant: waking the observer at a stop releases the night.               *)
StopReleases(r) ==
  LET o == startSharedSchedule([r EXCEPT !.stopObserver = @ \/ r.halted], FALSE)
  IN  IF r.stopped THEN o
      ELSE IF r.halted THEN [o EXCEPT !.stopped = TRUE, !.resolved = TRUE]
      ELSE feedShared([o EXCEPT !.stopped = TRUE], "release", 1)

(* stopProcess(): whoever calls it first writes the release; once actuation*)
(* has halted it also ends the observation.                                *)
stopProcess(r) ==
  LET o == [r EXCEPT !.stopObserver = @ \/ r.halted]
  IN  IF r.stopped THEN o
      ELSE IF r.halted THEN [o EXCEPT !.stopped = TRUE, !.resolved = TRUE]
      ELSE feedShared([o EXCEPT !.stopped = TRUE], "release", 1)

(* Mutant: a halt drops nothing; it only ends the presses to come.         *)
HaltLeavesTheStreamOpen(r) == [r EXCEPT !.halted = TRUE]

(* haltActuation(): the halt's own release is the one piece still written, *)
(* behind a write that waits for the phone; then the process is closed.    *)
haltActuation(r) ==
  LET h == [r EXCEPT !.halted = TRUE]
  IN  IF r.stopped THEN [h EXCEPT !.closing = TRUE] ELSE feedShared(h, "haltRelease", 1)

(* Mutant: a handoff past its budget is measured and played.               *)
LateIsPlayed(r, late) == [r EXCEPT !.handoff = "written"]

(* The first line measures the handoff: past its budget the rest of the    *)
(* body is not written and the run stops. A grant left from an earlier     *)
(* attempt is always past it.                                              *)
FirstWrite(r, late) ==
  IF late THEN stopProcess([r EXCEPT !.handoff = "late", !.queue = Tail(@)])
  ELSE [r EXCEPT !.handoff = "written"]

(* What the task that has just ended goes on with.                         *)
Done(r, piece) ==
  CASE piece = "release"     -> [r EXCEPT !.resolved = TRUE, !.stopObserver = @ \/ ~r.halted]
    [] piece = "haltRelease" -> [r EXCEPT !.closing = TRUE]
    [] piece = "body" /\ r.handoff = "written" /\ ~r.halted ->
         IF request.arm = "once" THEN [r EXCEPT !.gate = "due"] ELSE r
    [] OTHER -> r

(* Mutant: the halt is looked at when a piece starts, not at every line.   *)
WritePieceWhole ==
  /\ run.queue # <<>>
  /\ LET task == Head(run.queue)
         rest == [run EXCEPT !.queue = Tail(@)]
         one  == [run EXCEPT !.queue[1].left = @ - 1, !.planned = IF task.piece \in Pieces THEN Another(@) ELSE @]
     IN IF (run.halted /\ task.piece # "haltRelease" /\ task.left = Lines) \/ hid # "open"
        THEN run' = Done(rest, task.piece)
        ELSE IF task.piece = "body" /\ task.left = Lines
        THEN \E late \in IF run.stale THEN {TRUE} ELSE BOOLEAN :
               LET r == FirstWrite(one, late) IN run' = IF task.left = 1 /\ ~late THEN Done([r EXCEPT !.queue = Tail(@)], "body") ELSE r
        ELSE run' = IF task.left = 1 THEN Done([one EXCEPT !.queue = Tail(@)], task.piece) ELSE one
  /\ UNCHANGED ports

(* One line reaches the process, when the phone has drained the last; a    *)
(* halt seen before it, or a closed process, ends the task.                *)
Write ==
  /\ run.queue # <<>>
  /\ LET task == Head(run.queue)
         rest == [run EXCEPT !.queue = Tail(@)]
         one  == [run EXCEPT !.queue[1].left = @ - 1, !.planned = IF task.piece \in Pieces THEN Another(@) ELSE @]
     IN IF (run.halted /\ task.piece # "haltRelease") \/ hid # "open"
        THEN run' = Done(rest, task.piece)
        ELSE IF task.piece = "body" /\ task.left = Lines
        THEN \E late \in IF run.stale THEN {TRUE} ELSE BOOLEAN :
               LET r == FirstWrite(one, late) IN run' = IF task.left = 1 /\ ~late THEN Done([r EXCEPT !.queue = Tail(@)], "body") ELSE r
        ELSE run' = IF task.left = 1 THEN Done([one EXCEPT !.queue = Tail(@)], task.piece) ELSE one
  /\ UNCHANGED ports

(* close() of the owner: what is already buffered on the phone dies too.   *)
CloseShared ==
  /\ running # "no" /\ run.closing /\ hid = "open" /\ hid' = "closed"
  /\ UNCHANGED <<screen, request, running, grant, run, intro, result, executions>>

(***************************************************************************)
(* execute(), and the ports around it.                                     *)
(***************************************************************************)
Execute ==
  /\ running = "no" /\ intro = "off" /\ result \notin {"left", "failed"} /\ executions < MaxExecutions
  /\ running' = "yes" /\ intro' = "waiting" /\ result' = "none" /\ executions' = executions + 1
  /\ run' = IF grant THEN startSharedSchedule(NewRun, TRUE) ELSE NewRun
  /\ grant' = FALSE
  /\ UNCHANGED <<screen, request, hid>>

(* intro(): its own look at the screen, or the executor's authorization of *)
(* a night the port owns -- the first office frame of an execution whose   *)
(* schedule no earlier grant has started -- and then the release, whatever *)
(* became of the execution meanwhile.                                      *)
releaseNight ==
  /\ intro = "waiting"
  /\ \/ screen = "night"
     \/ request.owner = "port" /\ run.office /\ ~run.stale
  /\ intro' = "released" /\ grant' = TRUE
  /\ run' = IF running = "yes" THEN startSharedSchedule([run EXCEPT !.office = TRUE], FALSE) ELSE run
  /\ UNCHANGED <<screen, request, running, hid, result, executions>>

(* The night never came, a signal, or a failing port: abort() from outside.*)
Abort ==
  /\ running = "yes" /\ ~run.outside
  /\ run' = stopProcess([run EXCEPT !.outside = TRUE]) /\ intro' = "released"
  /\ UNCHANGED <<screen, request, running, grant, hid, result, executions>>

(* The shared schedule's own deadline, ten seconds past the plan's end.    *)
Deadline ==
  /\ running = "yes" /\ run.handoff = "written" /\ ~Queued("body") /\ ~run.stopped
  /\ run' = stopProcess([run EXCEPT !.outside = TRUE])
  /\ UNCHANGED ports

armVerified == request.arm \in {"none", "once"} \/ run.armStatus = "PASS"

(* A late handoff comes first. A run that left the night or whose arm was  *)
(* never verified throws, and what it throws is the arm's failure before   *)
(* the screen it left to; a gate's is no failure of the arm.               *)
Settled ==
  IF run.handoff = "late" THEN "invalid"
  ELSE IF run.exit = "none" /\ armVerified THEN "completed"
  ELSE CASE run.armFailure = "invalid" -> "invalid"
         [] run.armFailure = "ended"   -> "failed"
         [] OTHER                      -> IF run.exit = "none" THEN "failed" ELSE "left"

(* Mutant: the end of the schedule ends a halted run too.                  *)
UnwindAtOnce ==
  /\ running = "yes" /\ run.resolved
  /\ running' = "ending" /\ result' = Settled
  /\ run' = [run EXCEPT !.stopObserver = TRUE]
  /\ UNCHANGED <<screen, request, grant, hid, intro, executions>>

(* The schedule's end is the run's end, unless actuation was halted: then  *)
(* the observer's is, and the stream's close.                              *)
Unwind ==
  /\ running = "yes" /\ run.resolved
  /\ run.halted => run.observer = "done" /\ hid = "closed"
  /\ running' = "ending" /\ result' = Settled
  /\ run' = [run EXCEPT !.stopObserver = TRUE]
  /\ UNCHANGED <<screen, request, grant, hid, intro, executions>>

(* Mutant: execute() returns without waiting for its tasks.                *)
TornDownAtOnce ==
  /\ running = "ending"
  /\ running' = "no" /\ grant' = FALSE
  /\ UNCHANGED <<screen, request, hid, run, intro, result, executions>>

(* The finally block awaits every task of the run, and forgets the grant.  *)
TornDown ==
  /\ running = "ending"
  /\ run.observer = "done" /\ run.arm = "done" /\ run.gate \in {"off", "done"}
  /\ running' = "no" /\ grant' = FALSE
  /\ UNCHANGED <<screen, request, hid, run, intro, result, executions>>

(* stopAttempt and the retry: the process is closed, the game is brought   *)
(* back to its title, and a fresh process is opened for the next attempt.  *)
NextAttempt ==
  /\ running = "no" /\ intro = "released" /\ result = "invalid" /\ ~run.outside
  /\ intro' = "off" /\ hid' = "open" /\ screen' = "intro"
  /\ UNCHANGED <<request, running, grant, run, result, executions>>

(***************************************************************************)
(* The lifecycle observer: a capture, its classification a second or two   *)
(* later -- whatever happened in between -- and what the loop does with it.*)
(***************************************************************************)
Alive == running = "yes" /\ ~run.stopObserver

Capture ==
  /\ running # "no" /\ run.observer = "waiting"
  /\ IF run.stopObserver
     THEN run' = [run EXCEPT !.observer = "done"]
     ELSE \E frame \in {screen, "unknown"} \union (IF screen = "night" THEN {"newspaper"} ELSE {}) :
            run' = [run EXCEPT !.observer = "reading", !.frame = frame]
  /\ UNCHANGED ports

Stop(r) == stopProcess([r EXCEPT !.stopObserver = TRUE, !.observer = "done", !.frame = "none"])

(* Mutant: only a terminal screen ends a halted run.                       *)
WindowNeverCloses(r) == [r EXCEPT !.observer = "waiting", !.frame = "none"]

(* The end of every look: a halted run whose window has run out ends on it.*)
endAtHaltWindow(r) ==
  IF r.halted /\ r.windowOver THEN Stop([r EXCEPT !.exit = "static"])
  ELSE [r EXCEPT !.observer = "waiting", !.frame = "none"]

(* The first office frame authorizes or releases the night; once it is     *)
(* observed, or a release has started the schedule, a frame is read past.  *)
SeenNight(r) ==
  LET s == [r EXCEPT !.samples = 0, !.office = TRUE]
  IN  IF r.nightObserved THEN endAtHaltWindow(s)
      ELSE IF request.owner = "port" THEN endAtHaltWindow(Observed(s))
      ELSE [startSharedSchedule(s, FALSE) EXCEPT !.observer = "handing", !.frame = "none"]

SeenTerminal(r) ==
  Stop([r EXCEPT !.terminal = r.frame, !.armFailure = IF armVerified THEN @ ELSE "ended"])

(* Before the night an intro card is no vote, until STARTUP_GRACE_MS have  *)
(* passed since the execution began.                                       *)
startupTransition(r) == r.frame \in {"intro", "newspaper"} /\ r.startup

(* Mutant: static votes like any other screen.                             *)
StaticVotes(r) ==
  IF startupTransition(r) THEN endAtHaltWindow([r EXCEPT !.samples = 0])
  ELSE IF r.samples + 1 >= EXIT_CONFIRM_SAMPLES THEN Stop([r EXCEPT !.samples = @ + 1, !.exit = r.frame])
  ELSE endAtHaltWindow([r EXCEPT !.samples = @ + 1])

(* Three positive screens that are not the night end the run. A startup    *)
(* transition clears the votes; after a halt a static is withheld.         *)
Vote(r) ==
  IF startupTransition(r) THEN endAtHaltWindow([r EXCEPT !.samples = 0])
  ELSE IF r.halted /\ r.frame = "static" THEN endAtHaltWindow(r)
  ELSE IF r.samples + 1 >= EXIT_CONFIRM_SAMPLES THEN Stop([r EXCEPT !.samples = @ + 1, !.exit = r.frame])
  ELSE endAtHaltWindow([r EXCEPT !.samples = @ + 1])

(* execute() reads an unhalted run's result in the turn of its release.    *)
Unwinding == running = "yes" /\ run.resolved /\ ~run.halted

Classified ==
  /\ running # "no" /\ run.observer = "reading" /\ ~Unwinding
  /\ LET frame == run.frame
     IN run' = CASE frame = "unknown"                 -> endAtHaltWindow(run)
                 [] frame = "night"                   -> SeenNight(run)
                 [] frame \in {"gameover", "sixam"}   -> SeenTerminal(run)
                 [] frame = "title" /\ run.nightObserved -> Stop([run EXCEPT !.exit = "title"])
                 [] frame = "static" /\ run.nightObserved /\ ~run.halted -> Vote(haltActuation(run))
                 [] OTHER                             -> Vote(run)
  /\ UNCHANGED ports

(* The observer that released the schedule waits for its body.             *)
HandedOver ==
  /\ run.observer = "handing" /\ ~Queued("body")
  /\ run' = IF run.handoff = "late" \/ run.stopObserver THEN [run EXCEPT !.observer = "done"] ELSE endAtHaltWindow(run)
  /\ UNCHANGED ports

(* STATIC_TERMINAL_WAIT_MS have passed since the halt.                     *)
WindowPasses ==
  /\ run.halted /\ ~run.windowOver /\ run' = [run EXCEPT !.windowOver = TRUE]
  /\ UNCHANGED ports

(* STARTUP_GRACE_MS have passed: told apart where it matters, while a look *)
(* at an intro card is being classified.                                   *)
StartupPasses ==
  /\ running # "no" /\ run.observer = "reading" /\ startupTransition(run)
  /\ run' = [run EXCEPT !.startup = FALSE]
  /\ UNCHANGED ports

(***************************************************************************)
(* The camera arm and the cycle gates: both belong to the schedule.        *)
(***************************************************************************)
controlStillRunning == Alive /\ ~run.halted

ArmAsks ==
  /\ running # "no" /\ run.arm = "pending"
  /\ \/ ~controlStillRunning /\ run' = [run EXCEPT !.arm = "done"]
     \/ controlStillRunning /\ run.handoff = "written" /\ ~Queued("body") /\ run' = [run EXCEPT !.arm = "reading"]
  /\ UNCHANGED ports

ArmFails(r) == stopProcess([r EXCEPT !.arm = "done", !.armFailure = "invalid", !.armStatus = "FAILED"])

(* observe-once: one definitive read decides; a wrong pair stops the run.  *)
ObservedOnce(sample) ==
  CASE sample = "match"       -> [run EXCEPT !.arm = "done", !.armStatus = "PASS"]
    [] sample = "unavailable" -> [run EXCEPT !.arm = "done", !.armStatus = "UNRESOLVED"]
    [] sample = "mismatch"    -> ArmFails(run)

(* blocking: the pair confirmed twice releases the rest of the plan;       *)
(* anything else re-arms, three times in all.                              *)
ObservedBlocking(sample) ==
  IF sample = "match"
  THEN IF run.stopObserver THEN [run EXCEPT !.arm = "done"]
       ELSE feedShared([run EXCEPT !.arm = "releasing"], "armSegment", Lines)
  ELSE IF run.armAttempt < MAX_ARM_ATTEMPTS
  THEN feedShared([run EXCEPT !.arm = "rearming", !.armAttempt = @ + 1], "rearm", 1)
  ELSE ArmFails(run)

ArmAnswered ==
  /\ running # "no" /\ run.arm = "reading"
  /\ IF run.halted THEN run' = [run EXCEPT !.arm = "done"]
     ELSE \E sample \in {"match", "mismatch", "unavailable"} :
            run' = IF request.arm = "once" THEN ObservedOnce(sample) ELSE ObservedBlocking(sample)
  /\ UNCHANGED ports

(* The release that came too late after the prefix invalidates the run.    *)
ArmWritten ==
  /\ \/ run.arm = "rearming" /\ ~Queued("rearm") /\ run' = [run EXCEPT !.arm = "pending"]
     \/ /\ run.arm = "releasing" /\ ~Queued("armSegment")
        /\ \/ run' = ArmFails(run)
           \/ run' = [run EXCEPT !.arm = "done", !.armStatus = "PASS", !.gate = "due"]
  /\ UNCHANGED ports

GateDone(r) == [r EXCEPT !.gate = "done"]

GateAsks ==
  /\ running # "no" /\ run.gate = "due"
  /\ run' = IF controlStillRunning /\ run.gatesLeft > 0 THEN [run EXCEPT !.gate = "reading"] ELSE GateDone(run)
  /\ UNCHANGED ports

(* Mutant: a gate that cannot see the state lets the stream go on.         *)
UnknownAgrees ==
  /\ running # "no" /\ run.gate = "reading"
  /\ IF run.halted THEN run' = GateDone(run)
     ELSE \/ run' = [run EXCEPT !.gate = "parked"]
          \/ run' = feedShared([run EXCEPT !.gate = "fixing"], "fix", 1)
          \/ run' = [run EXCEPT !.gate = "parked", !.armFailure = "gate"]
  /\ UNCHANGED ports

(* AGREED, CORRECTED and UNKNOWN. The halt is looked at after the reads,   *)
(* a stop is not.                                                          *)
GateAnswered ==
  /\ running # "no" /\ run.gate = "reading"
  /\ IF run.halted THEN run' = GateDone(run)
     ELSE \/ run' = [run EXCEPT !.gate = "parked"]
          \/ run' = feedShared([run EXCEPT !.gate = "fixing"], "fix", 1)
          \/ run' = stopProcess([GateDone(run) EXCEPT !.armFailure = IF @ = "none" THEN "gate" ELSE @])
  /\ UNCHANGED ports

GateMovesOn ==
  /\ running # "no"
  /\ \/ run.gate = "fixing" /\ ~Queued("fix") /\ run' = [run EXCEPT !.gate = "parked"]
     \/ run.gate = "parked"
        /\ run' = IF controlStillRunning THEN feedShared([run EXCEPT !.gate = "releasing"], "segment", Lines) ELSE GateDone(run)
     \/ run.gate = "releasing" /\ ~Queued("segment")
        /\ run' = [run EXCEPT !.gate = "due", !.gatesLeft = @ - 1]
  /\ UNCHANGED ports

(* The game.                                                               *)
Screen ==
  /\ screen' \in CASE screen = "intro"              -> {"night"}
                   [] screen = "night"              -> {"static", "sixam"}
                   [] screen = "static"             -> {"gameover"}
                   [] screen \in {"gameover", "sixam"} -> {"title"}
                   [] OTHER                         -> {}
  /\ UNCHANGED <<request, running, grant, hid, run, intro, result, executions>>

Observer == Capture \/ Classified \/ HandedOver \/ WindowPasses \/ StartupPasses
Arm      == ArmAsks \/ ArmAnswered \/ ArmWritten
Gating   == GateAsks \/ GateAnswered \/ GateMovesOn
ReleaseAnswered == releaseNight \/ (intro = "waiting" /\ Abort)
Ending   == Deadline \/ Unwind \/ TornDown

Next == Write \/ CloseShared \/ Execute \/ releaseNight \/ Abort \/ NextAttempt
        \/ Ending \/ Observer \/ Arm \/ Gating \/ Screen

Spec == Init /\ [][Next]_vars

(* Every await of the code is bounded -- sleeps, reads with their own      *)
(* timeouts, the window, the completion timer, the intro's 30 s wait and   *)
(* what it does then -- except the feed's, which waits for the phone to    *)
(* drain the pipe.                                                         *)
FairSpec ==
  /\ Spec
  /\ WF_vars(Write) /\ WF_vars(CloseShared) /\ WF_vars(ReleaseAnswered)
  /\ WF_vars(Deadline) /\ WF_vars(Unwind) /\ WF_vars(TornDown)
  /\ WF_vars(Capture) /\ WF_vars(Classified) /\ WF_vars(HandedOver) /\ WF_vars(WindowPasses)
  /\ WF_vars(Arm) /\ WF_vars(Gating)

-------------------------------------------------------------------------------
(* Every local stays among the values the code gives it, and the feed      *)
(* never holds two pieces of one writer.                                   *)
TypeOK ==
  /\ screen \in Screens /\ running \in {"no", "yes", "ending"} /\ hid \in {"open", "closed"}
  /\ intro \in {"off", "waiting", "released"} /\ grant \in BOOLEAN
  /\ result \in {"none", "completed", "invalid", "left", "failed"}
  /\ run.samples \in 0..EXIT_CONFIRM_SAMPLES /\ run.gatesLeft \in 0..Gates /\ run.armAttempt \in 1..MAX_ARM_ATTEMPTS
  /\ \A i, j \in DOMAIN run.queue : run.queue[i].piece = run.queue[j].piece => i = j

(* Once a static has halted a night no line of the plan reaches the phone, *)
(* whoever queued it and however late: the presses that once entered the   *)
(* store from the title.                                                   *)
HaltLatched ==
  [][run.halted /\ executions' = executions => run'.planned = run.planned]_vars

(* A halted night ends on a verdict the observer read -- a terminal, the   *)
(* title, three votes or the expired window -- unless it was stopped from  *)
(* outside: never as a completed run without one.                          *)
HaltedVerdict ==
  [][running = "yes" /\ running' = "ending" /\ result' = "completed" /\ run.halted /\ ~run.outside
       => run.terminal # "none"]_vars

(* A death's static is no exit before the window in which its Game Over is *)
(* still expected has run out.                                             *)
StaticWaits == run.exit = "static" => run.windowOver \/ ~run.nightObserved

(* A gate that could not read the state ends the plan: none of its later   *)
(* segments is written.                                                    *)
UnknownStopsThePlan ==
  [][run.armFailure = "gate" /\ executions' = executions => ~(run'.gate = "releasing" /\ run.gate # "releasing")]_vars

(* When an execution is over nothing of it is left in the feed.            *)
NothingFedAfterTheEnd == running = "no" => \A i \in DOMAIN run.queue : run.queue[i].piece \notin Pieces

(* "The executor's night_go gate holds every plan action until the         *)
(* lifecycle observer positively sees the office": in every attempt that   *)
(* no grant left behind has started, and one that it has started writes    *)
(* the line its late handoff is measured by and not another,               *)
PlanWaits ==
  /\ run.planned > 0 => run.office \/ run.stale
  /\ run.stale => run.planned <= 1

(* An attempt is played in its order: its plan waits for the office, or    *)
(* stops at the first line of a stale grant's; a death's static is no exit *)
(* before its window has run out, and nothing of an execution that is over *)
(* is left in the feed.                                                    *)
AttemptInOrder == PlanWaits /\ StaticWaits /\ NothingFedAfterTheEnd

(* Once a static has halted a night no line of the plan reaches the phone, *)
(* whichever task queued it, and the night never ends completed without a  *)
(* terminal the observer read; a gate that could not read releases nothing.*)
HaltStands == HaltLatched /\ HaltedVerdict /\ UnknownStopsThePlan

(* The same without the exception, where the code differs.                 *)
NoPressBeforeOffice == run.planned > 0 => run.office

(* A wrong camera pair is an Invalid run, never a completed one.           *)
MismatchIsInvalid == result = "completed" => run.armStatus # "FAILED"

(* Once the title has ended a run and its release is written, no press of  *)
(* the plan follows into the menu: the run "stops on the first positive    *)
(* read".                                                                  *)
TitleStopsThePlan ==
  [][run.resolved /\ run.exit = "title" /\ executions' = executions => run'.planned = run.planned]_vars

(* A halted night's stream dies,                                           *)
StreamDies == run.halted ~> hid = "closed" \/ running = "no"

(* and every execution settles.                                            *)
ExecutionEnds == running # "no" ~> running = "no"
=============================================================================
