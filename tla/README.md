# A model of the FNaF 2 10/20 laboratory

This directory holds TLA+ specifications of the parts of the repository that
decide what happens to a physical phone and to the games on it: the job queue
that hands the phone out, the overnight window that borrows it from its owner,
the night job and the campaign that play on it, the executor, actuator and
loops that press its screen, the Android app beside them, and the rules of the
recompiled games the plans are tried on. Each is modelled from its source and
model-checked with TLC on small instances; the main safety properties of most
of them are proved with TLAPS for every value of the constants.

## How to run it

    tlc -config MCJobQueue.cfg MCJobQueue          # any run below, likewise
    tlapm JobQueue_proofs.tla                       # any *_proofs module

`PROJECT.json` lists every run with its module, configuration and properties,
and maps every definition to the source lines it stands for. A definition
marked *Mutant* in a comment is no part of a specification: it is the plausible
mistake that the property named for it there must catch.

## The system and its parts

The repository plays the Android ports of the first Five Nights at Freddy's
games on a real phone over adb, helped by an Android app (the Companion), and
keeps recompiled versions of the games to plan against. What runs concurrently,
fails and has to be recovered is the part that touches the phone. The
recompiled games are sequential, but each frame is a long list of rules that
read what earlier ones of the same frame wrote, and so are worth checking over
every order of rolls and timers.

| Part | Source | State it keeps | Operations | Modelled |
| --- | --- | --- | --- | --- |
| Companion job queue | `apps/lab/companion-queue.py` | one JSON queue file per host; two flocks (file, runner); job processes | enqueue, cancel, list; run (claim, spawn, wait, finish); release of what a killed runner left | `JobQueue` |
| Overnight window: settings | `apps/lab/overnight-window.py` | the phone's settings; the pending record on disk; the device lease | open, record, apply, restore, recover (`restore` command), exit code | `WindowSettings` |
| Overnight window: the rest | the same | the deadline on two clocks; the queue child | phone checks, next job's budget, the child with its signals, title recovery | `WindowDeadline` |
| Night job | `night-job.py`, `night_jobs.py` | the step it is in, what it has seen, runner process | reset to the title, play, observe the title, one outcome | `NightJob`; its outside in `JobQueue` |
| Campaign | `packages/play/src/campaign/campaign.ts`, `campaign-runner.ts` | the machine's state, target, counters and attempt records; the awaited port | preflight, menu, custom night, intro, play, terminal, retry, verification, save; abort, cleanup, release; hold and resume | `Campaign` |
| Campaign ports | `modern-campaign-ports.ts`, `campaign-composition.ts`, `campaign-signal.ts` | which night the game rolled into; the HID; the signal | what each port does to the phone; the cleanup after an interrupt | `CampaignPorts` |
| Device-local executor, cycle gates | `adb-device-local-executor.ts`, `cycle-gates.ts` | grant, pipe to the phone, observer, arm, gate evidence | arm, release, run, halt, gate, abort, settle | `NightExecutor` |
| Device lease | `packages/play/src/safety/companion_device_lock.py` | flock, owner record | acquire, borrow from an ancestor, release | `DeviceLease`; its exclusion alone in `WindowSettings` |
| Night runners on the handset | `packages/play/games/fnaf4/fnaf4-run.ts`, `fnaf3/fnaf3-run.ts` | what the loop believes of the night | doors, closet, bed; monitor, maintenance menu, search for Springtrap | `Fnaf4Loop`, `Fnaf3Systems`, `Fnaf3Track` |
| Device actuator | `packages/play/bin/phone/actuator.ts` | queue of late presses, gate, recovery | press, defer, buffer, read, correct, recover, abort | `Actuator` |
| Exact cores | `packages/source/src/games/fnaf1/sim-fnaf1.ts`, `fnaf4/sim-fnaf4.ts`, `fnaf2` | the game's own state | one frame | `Fnaf1Night`, `Fnaf4Night`, `Fnaf2Office` |
| Companion app | `android/companion` | session generation, token, listeners, regions, snap request, frame trace | start, stop, SET, CLEAR, SNAP, TARGET, TRACE, one frame | `CaptureSession` |
| Proposer, player, review, sensors, kernel, trainer, desktop, wiki, command-line tools | `packages/propose`, ... | files | batch computation and front ends | no |

How they interact. A systemd timer opens an **overnight window** when nobody
uses the phone. The window takes the **device lease**, puts the phone's
settings in order and starts the **queue** as a child with `--nights
--max-jobs 1`, once per job. An agent may drain the same queue by hand without
`--nights`. The queue claims one job at a time and runs it as a process: a
setup, a check, or a **night job**, which starts a **campaign** on the phone,
or a **runner** of the third or fourth game. The campaign's runner awaits one
**port** after another, and the ports reach the phone through the **executor**,
which streams a plan over the HID process the title was pressed with, and
corrects it at **cycle gates**. A pilot that reads the screen instead presses
through the **actuator**. The plans come from searches over the **exact
cores**. The **Companion** shows, records and answers what is on the screen.
The lease is borrowed down the chain of processes. At the end, however it
comes, the window restores the settings, and the unit's `ExecStopPost` runs
`overnight-window.py restore` after it.

What is hard to test in it:

- *The queue*: `finish()` writes by id without looking; `claim_next` sweeps
  every RUNNING job; a killed runner leaves a process behind that may still
  play a night; an enqueue is retried after its first copy has ended; a night
  must never be played twice although setups and checks are repeated freely.
- *The window*: a SIGKILL between any two steps; an adb write that fails and
  lands; a setting that answers late; a second window while the first one's
  record is outstanding; an exit code that reads shared state after the lease
  is gone; a budget read before a wait; a host that sleeps or whose clock is
  set while a job runs.
- *The night job*: a signal in any step; a runner stopped at its bound with the
  game anywhere; a hold that must never follow a night that began.
- *The campaign*: a terminal recorded before its transition is checked; three
  counters (attempts, refunds, refunds in a row) with three resets; a machine
  held, resumed and run again; a port that throws anywhere; a night the game
  rolls into by itself; an interrupt's cleanup beside the runner.
- *The executor*: four tasks share one queue of lines; a halt can land between
  any two lines of any of them; a screen is classified seconds after it was
  captured.
- *The runners and the actuator*: beliefs grow old while the steps that refresh
  them take time; toggles whose press the game may not take; presses that land
  later than they were logged; a game that forces the monitor down between a
  read and its correction.
- *The exact cores*: rules in event order, where an earlier rule of the frame
  has written what a later one reads.
- *The app*: listeners and callbacks that outlive their session; a trace held
  by one thread, stopped by another and saved by a third.

`PROJECT.json` lists these as hazards at their lines, with the property that
would show each going wrong, or the reason no property does.

## The modules

Three conventions hold throughout. An action is everything the code does
between two points at which something else can happen: two awaits of one event
loop, two critical sections, two rules of a frame. What the code reads from
outside -- a screen, a roll, a timer, a port's answer -- is any value it may
be. And a constant's name in capitals is the source's own, given a smaller
value in an instance.

### `JobLedger` and `JobQueue`: the Companion job queue

`JobLedger` is the promise: jobs move only along their lifecycle, an end is
final, at most one job is RUNNING, a night is played at most once. `JobQueue`
is the code. The file is rewritten whole under its flock by a rename, so one
critical section is one action and a crash inside it leaves the old file.
Everything between two critical sections is a step of its own.

| Code | Model |
| --- | --- |
| the queue file's jobs, `state`, `attempts` | `queue`, `state`, `attempts` |
| `QueueRunnerLock` | `lock`, dropped by the kernel when its holder is `Gone` |
| `run_queue` of one process: lock, device poll, claim, spawn, wait, finish | `pc[r]`: `start`, `poll`, `claimed`, `child`, `ended` |
| `enqueue`, `cancel`, `release_running` | `Enqueue`, `Cancel`, `ReleaseRunning` |
| `claim_next` with the stale sweep inside it | `ClaimNext` (one action: the sweep and the claim are one write) |
| `run_job`, `Interrupted`, the ceiling and its signals | `Spawn`, `Signal`, `JobEnds`, `JobTimesOut` |
| `execute`, `finish` | `Verdict`, `Held`, `Finish` |
| `night-job.py` seen from outside | `Play`, `EndsOf`, `OrphanEnds` |

A job process is a record in `live` and does not end with its runner: that is
what makes "played at most once" a question. A job that outlives SIGKILL's
grace stays in `live` too. Left out: `note_pending`, which annotates waiting
jobs with a reason and changes no field that the queue acts on; the contents of
logs, except for the `SETUP HOLD` line on which `execute` decides.

### `SettingsEscrow` and `WindowSettings`: the owner's settings

`SettingsEscrow` is the promise to the phone's owner: his settings are taken
into escrow exactly as they are, before any of them changes, and given up only
when every one is back. A Do Not Disturb he had on is his and is not held.
`WindowSettings` is the code: the lease, the recovery of an earlier window's
record, the write-ahead record, `settings put` and `set_dnd` with their
read-backs, the restore with its retries, the deletion of the record, the
release and the exit code; and the `restore` command beside it. `Die` can fall
between any two of these, and each adb call can fail, land nevertheless, or go
unanswered.

| Code | Model |
| --- | --- |
| `RECORDED_SETTINGS`, `read_settings`, the pending record | `Recorded`, `ReadPrior`, `WriteAhead`, `pending` |
| `apply`, `set_dnd`, the poll of `zen_mode` | `Apply`, `Applied`, `SetDnd`, `DndAnswers`, `DndLands` |
| `restore_one` | `SettingRestored`, `SettingWritten`, `SettingMissed` |
| `restore_settings` with its retry deadline | `PassEnds`, `Verified` |
| `recover`, `finish_restore` | `Recover`, `Unlink` |
| exit codes | `Exit`, `Code` |

`DndSlow` says whether `zen_mode` may change after `set_dnd` has returned. The
code polls for it for `DND_READBACK_S` seconds and so allows for it. With
`DndSlow` the last request wins. The owner and his schedule move settings only
while no window is open and none is outstanding, or a DND that the window
found on. A setting the window does not write may drift while jobs run. With a
`zen_mode` that is as `set_dnd` left it, nothing is in flight and `DndLands` has
nothing to do; the prompt runs say so (`Prompt`, `PromptSpec`). Left out:
airplane mode, which is witnessed and never written.

### `NightChain` and `Campaign`: a campaign of nights

`NightChain` is the promise: nights are won one at a time and in order, each
within its budget of plays, a play that tested nothing is refunded, a verdict is
final. `Campaign` is `CampaignStateMachine` and `DeviceCampaignRunner`
together. JavaScript runs everything between two awaits in one turn, so an
action is one port's answer with every call the runner makes on it up to the
next `await`; `at` names the awaited port.

| Code | Model |
| --- | --- |
| the machine's fields | `state`, `targetIndex`, `attempt`, `invalidRuns`, `consecutiveInvalid`, `attempts`, `activeAttempt` |
| `TRANSITIONS`, `transition` (which throws on a forbidden one) | `TRANSITIONS`, `Transition` |
| `catch`, `finally` of `run()` | `Caught`, `CleanedUp`, `Released` |
| `acceptPreflight` ... `acceptSave` | `Preflight`, `Menu`, `CustomNight`, `Intro`, `Terminal`, `RetryReady`, `TerminalVerification`, `Save` |
| `beginAttempt` | `BeginAttempt`, in the same action as the accepted intro |
| `stopAttempt` on each outcome | `Stopped` |
| a port that rejects, or an answer that makes no proof | `PortFails` |
| `resume`, a further `run()` | `Resume`, `StartRun` |

A port's answer is reduced to what the accept methods tell apart: seven
terminal outcomes, and yes or no elsewhere. What a port does to the phone is
the business of `CampaignPorts`. Left out: the list of events, the
operator's `hold()` (it has no caller), and `run()` on a finished machine (it
changes nothing). A machine resumed and then run again is in PREFLIGHT already;
PREFLIGHT to PREFLIGHT is no transition, so that run aborts, in the code and
here.

### `DeviceLease`: who may drive the phone

Programs launch one another, and each that uses the phone enters the lease: the
first gets the kernel's flock, and those it launched, at any depth, find the
flock taken and *borrow* it. They may, if the record in the lock file names the
owner that their environment names, and a walk over their parents reaches it.
Every step of `DeviceLock` that another process can fall between is an action.

| Code | Model |
| --- | --- |
| a process, the variable `CUE_HELPER_LEASE_OWNER_PID`, `DeviceLock.owner_pid` | `pc`, `env`, `owner` |
| the flock and the owner record in the lock file | `lock`, `record` |
| `__enter__`: `flock`; truncate; write and flush | `TryLock`, `TruncateRecord`, `WriteRecord` |
| `__enter__` when the flock is taken: read, `inherited_owner` | `ReadRecord`, `Decide`, `Inherits`, `Reaches` |
| `__exit__`: truncate; unlock; what the process still does without the lease | `Leave`, `Unlock`, `Exit` |
| `device-lock-exec.py`, the window and the night job as launchers | `Launch`, `Passes`, `ChildrenGone` |
| SIGKILL or a crash | `Kill`: the flock is freed, the record stays, children are reparented |

The tree of launches is a constant (`Launcher`, `Ancestors`). A process leads a
walk only while every one between it and the owner is alive, as a dead
launcher's children get a new parent. The first process of a chain may have any
process's pid in its environment: a leftover of a shell, or a copy. `Passes` is
the same line in `device-lock-exec.py`, `night-job.py` and
`overnight-window.py`. Left out: signals, which the wrapper relays and survives;
the choice of the lock file's directory; pids used again for another process.

### `CampaignPorts`: a campaign through its ports, on the game

`CampaignPorts` extends `Campaign` and gives its free answers a cause. Each port
is its steps, one per await, against the game's screens and its save; an answer
is the `Campaign` action it fires (`Answers`), so every behaviour here is one of
`Campaign` (a theorem of `Campaign_proofs`), and nothing of the machine is
modelled twice.

| Code | Model |
| --- | --- |
| the title, its cursor, the save | `screen`, `focused`, `cursor`, `playing` |
| `menu()`: the roll, reading the title, pressing Continue or the row, pre-arming | `RolledThrough`, `MenuReads`, `MenuTaps`, `MenuSettles`, `prearm`, `MenuSelected` |
| `intro()`, `executeAttempt()`, `observeTerminal()` and the venue check | `IntroPrearms`, `IntroSeesNight`, `AttemptOwns`, `AttemptEnds`, `TerminalPort`, `VenueChecked` |
| `stop()`, `retry()`, `verify()`, `save()` | `StopPorts`, `RetryPort`, `VerifyPort`, `SavePort` |
| `cleanup()`, `release()` | `CleanupStops`, `CleanupRestarts`, `ReleaseAll` |
| `installCampaignSignalHandlers` | `SignalArrives`, `SignalStops`, `SignalRestartsOrStays`, `SignalExits` |

Assumed of the world: six AM comes only while a port watches for it and stays
until seen, and the executor does not call it Invalid. `PlaysTheTarget` and
`NoNightLeftBehind` are claimed up to an interrupt's restart of the game
(`Uninterrupted`), which runs beside the runner (see below); `ExecutionsOwned` is
claimed throughout. `VenueMoves` says whether a night the phone won may be judged
Invalid afterwards, `Signals` whether an operator may interrupt.

### `WindowDeadline`: the overnight window's time

Minutes pass one at a time in whatever the window waits for, on three clocks:
`real`, `mono` (which stops while the host sleeps) and `wall` (which may be
stepped). `CheckNext` reads the first job's budget and the time left;
`PhoneReady` and `PhoneRefuses` end the wait for a locked phone; `Claim` is the
child's, which takes whatever is first *then*; `StopChild`, `ChildGone` and
`ChildStays` are its three graces; `Recovered` observes the title, `Closed` is
the restore. The source's second bounds are rounded up, and polls of a tenth of
a second pass no time. `ClosedInTime` is the end
of the window, or past it by what the wait for a locked phone takes beyond the
room checked before it: 600 s against the child's 120 s and a check's 360 s in
the source, in minutes the run's 10 against 2 and 6. `process_tree.py`'s walk, battery
and heat are one refusal.

### `NightJob`: one job, from the inside

The job's steps in units of ten seconds, each taking none, half or all of its
bound: `Bind`, `Audio`, `Setup`, `ReadTitle`, `Relaunch`, `Compare`, `Runner`,
`Judge`; a signal falls in any (`Signal`). `budget` is the sum in `night_jobs.py`
that the queue and the window rely on. What winner, plan and bundle hold is read
as right or refused.

### `NightExecutor`: a night's plan, streamed

A plan is pieces: its body, the segments behind the gates, and what a re-arm and
a correction write. Four tasks of one event loop meet:

| Code | Model |
| --- | --- |
| `execute()` and its `finally` | `Execute`, `Deadline`, `Unwind`, `TornDown`; `Settled` |
| the feed of lines into the pipe | `Write` (a line at a time), `CloseShared` |
| `stopProcess`, `haltActuation`, `releaseNight`, `abort` | the operators of those names |
| the lifecycle observer: capture, classify, vote, the halt window, the startup grace | `Capture`, `Classified`, `Vote`, `HandedOver`, `WindowPasses`, `StartupPasses` |
| the camera arm | `ArmAsks`, `ArmAnswered`, `ArmWritten` |
| the cycle gates | `GateAsks`, `GateAnswered`, `GateMovesOn`, `GateDone` |

Before the night an intro or a newspaper casts no vote for `STARTUP_GRACE_MS`;
after that it does, and three end the run. `execute()` settles in the code's
order: a late handoff, then the arm's own failure, then the screen the run left
to. A grant that an earlier attempt left behind starts the next schedule in
`Execute`, which counts as having observed the night: the observer then reads
past the office, and the first line finds the handoff late. `PlanWaits` says what
is left of "no press before the office" in that case: that one line.

Left out: the shell transport, the control effect ledger (records only), what
adb itself answers, the classifiers behind a gate and the anchor's arithmetic.

### `Fnaf4Loop`, `Fnaf3Systems`, `Fnaf3Track`, `Fnaf3Loop`: the runners' loops

`Fnaf4Loop` is the fourth game's `loopNight`: what is left of a cycle is a stack
of steps, and a step (`Door`, `Home`, `Closet`, `Bed`, `Turn`) may push more.
Ages, in units of two seconds, say how long ago a hall was lit clear, the bed
turned to, the closet entered. What a listen hears and a light shows is open.
The instance has Night 4's freshness (6) with the bed every 17 and the closet
every 10.

The third game's loop is two modules, as its two beliefs hardly meet;
`Fnaf3Loop` puts them side by side and states what both promise.
`Fnaf3Systems` has the monitor, whose tab is a toggle, the maintenance menu,
whose Exit is refused while a reboot runs, and the flash that breaks
ventilation; `Fnaf3Track` has the loop's picture of Springtrap: `Watch`,
`LookAgain`, `Left`, `Look`, `Lured`, `Serviced`, `NotFound`, over the source's own
map of cameras and vents (`NEXT`, `searchOrder`). A press the game does not take
or a frame that shows nothing is a slip, a broken system a fault, and a run has
so many of each. Left out: the mains around the loops (arguments, log, menu,
stop handlers) and the first game's runner, which follows a recorded plan.

### `Actuator`: between a pilot's schedule and the game

`DeviceActuator` lands every press late; `MonitorSupervisor`, the blocking shell
above it, reads twice a cycle whether the cameras are up and presses the monitor
when it does not like the answer. Times are in units of two frames, relative to
now. Within a frame the order is the code's: `Beat` and `Intercept` (the pilot
submits), `EmitDeferred`, `GateRead`, `GatePress`, `Ask`, `RecoveryPress`,
`RecoveryRead`, `Flush` (the shell's steps), `LandMonitor`, `LandMask`,
`LandOther` (what is due), `Frame` (the game, which may force the monitor down).
The pilot is one read cycle of `hid-device-pilot.ts`, again and again; lateness
is the source's two typical values. Left out: the opt-in error models
(`errorRate`, `correct: false`, `idealResync`, `maskFloor`, `lateWhen`,
`perPress: true`) and the pilot's other cycles.

### `Fnaf1Night`, `Fnaf4Night`, `Fnaf2Office`: the exact cores

A frame is one action per rule group in the event sheet's order, `pc`, `phase`
or `rule` naming the next; a policy's presses come between two frames. Every roll and
timer is open, so a property holds whatever the level and the seed; frame counts
are constants smaller than the games'.

- `Fnaf1Night`: `stepInputs`, `Movement`, `Clock`, `Foxy`, `Freddy`, `Power`,
  `Blackout`. Power stops at 0, below which no rule reads it. A death in the
  frame of six AM is not asserted either way.
- `Fnaf4Night`, nights 2 and on: `Arrivals`, `HourPasses`, `FoxyWalks`,
  `Halls`, `DoorsAndFlashlight`, `Turn`, `FreddyMeter`, `BlackFlash`, `Bedroom`,
  `Fredbear`, `IdleAndForcedTurn`. The policy holds one control of its station. Levels
  change at hour `LATE`; a counter stops where no rule tells more of it apart.
- `Fnaf2Office`: the panel, the mask, the drop flag between them, the encounter
  that resolves one of those at the threshold (`Early`, `Resolve`, `TickUnits`)
  and the attack. Taps fall between two ticks. Routes are reduced to "away"; the
  lights, the cameras' own effects, Foxy, Balloon Boy, Golden Freddy, the night's
  end and the attack that only tests arm are left out.

### `CaptureSession`: the Companion beside a host

Four threads: the main one (`StartCommand`, `Project`, `Listen`, `StopBegins` to
`StopReleases`), the two listeners (`Accept`, `Serve` and one action per verb)
and the frame thread (`OnImageAvailable` to `Feed`). Each runs between any two
steps of the others.

| Code | Model |
| --- | --- |
| `sessionGeneration`, `stopping`, `sessionActive` | `generation`, `stopping`, `sessionActive` |
| `ControlServers.start`, `stop` with its two joins and the token | `Listen`, `StopServers`, `StopJoins`, `StopRevokes` |
| `serveControlRequest`, `ControlDispatcher` | `Serve`, `RegionSet`, `RegionClear`, `SnapAsks`, `SnapEnds`, `Target`, `TraceAsked`, `traceStart`, `traceStop` |
| `onImageAvailable`: acquire, regions, snap, second look, feed | `AcquireImage`, `CaptureRegions`, `SnapSeen`, `SnapCopied`, `Feed` |
| `Fnaf2Legacy`'s held trace, its detach, its saver | `trace`, `traceActive`, `traceDetach`, `saving`, `Saved`, `written` |

A listener that reads a slow client, encodes a picture or writes a trace may
outlive its join and so its session. Assumed: one whose token was checked before
the joins has acted by the time the stop releases the session (`Acted`); the
frame callback's join is not outlasted; a host has the token of the endpoint it
read. Left out: the overlay, lessons, the audio probe, the on-device runner, the
onset latch, the verbs that only read, captures at another size than the native
one, images the full reader queue drops, and a stop before the first start.

## The runs

Parts that do not share state are checked side by side: `MCPrograms`,
`MCRunners`, `MCCores` and `MCProgress` instantiate several modules over
variables of their own, a variable says whose behaviour this is, and the others
keep their first state. A behaviour of such a run is exactly one of one module's;
the run's properties are conjunctions of the modules' own, each about its part.
A module is extended and not instantiated where a theorem and the run are to
speak of the same definition (everything in `MCRunners` but the actuator; `WindowDeadline`,
`NightJob` and `NightExecutor` in `MCPrograms`; the three cores in `MCCores`,
the first and the fourth game's once more as an instance with others awake).
The names of modules that are extended together are kept apart.

| Run | Instance | Shows |
| --- | --- | --- |
| `queue` | 2 nights, a setup enqueued twice under one key; a window's runner and an agent's; 2 faults | a claimed job stays its runner's until it is finished; a night is played once, and one that waits was not played and has no process left that could play it; the ledger is implemented |
| `queue_live` | 1 night, 1 setup, 2 runners, 2 faults | no job stays RUNNING; every PENDING job ends |
| `settings` | 2 windows, 1 restorer, 3 settings with 2 values, 3 faults | the record on disk covers all that differs from the owner's settings; an exit other than 3 means they are back; the escrow is implemented; what was changed comes back |
| `campaign` | Night 6 and Custom Night 7, 2 attempts, 3 runs | evidence lands in the record it is of; budget and refunds; verdicts stand; the chain is implemented; every `run()` returns |
| `lease` | window, queue, night job, setup; shell, wrapper, command; 3 kills | a borrower's owner holds the lock; no descendant of the holder is turned away; without kills one program drives the phone |
| `ports` | Nights 4 to 7 (one rolled into, two picked), 2 attempts, 2 runs, an interrupt anywhere | the schedule released plays the target; no execution outlives its attempt or reaches the menu; no night is left behind |
| `programs` | window with a check and two nights, a suspend or a clock step, a cancel; job with signals; executor with 2 attempts, pieces of 2 lines, 1 gate | the window closes in time, but for a lock wait's overrun, and no minute of a job passes the stop; a job reports what happened; a halt stands whichever task queued the next line |
| `runners` | FNaF 4's loop; FNaF 3's with 3 slips, 2 faults and 3 moves; the actuator over a read cycle; the app with 7 kinds of use | beds are turned to over fresh halls; a reboot is done when the loop says so; the vent believed sealed is; presses mean what the plan meant; a trace misses no image and is kept once; sessions are kept apart |
| `cores` | FNaF 1 with two sets of animatronics; FNaF 4 with two; FNaF 2's office with four units | a run of Foxy's meets a moving door and Freddy leaves the stage last, frozen by a watched camera; Fredbear's check kills at its turn only and a shut door resolves one; the office's lock is whose it should be, and nobody gets in but by a raised monitor or a failed encounter |
| `progress` | smaller instances of executor, FNaF 3, office, bedroom and settings with a late `zen_mode`; a campaign of one night, interrupted | a halted stream dies, broken ventilation is rebooted, an encounter ends, a burning fuse ends the night; nothing stays open, and an interrupt ends the process; what cannot be escaped comes |
| `settings_slow_dnd` | 1 window, a late `zen_mode`, no faults | *violation* of `NothingLost`, see the findings |
| `ports_rolled` | Nights 4 and 5, rolling | *violation* of `RetryGoesThroughTheTitle`, see the findings |

Bounds, and why they are enough. `MaxFaults` bounds kills, signals, holds and
failed calls *together*: two suffice in the queue for a killed runner whose
orphan meets a second killed one, three in the settings for a window killed
after a failed write whose recovery fails too. Two runners are every kind there
is (with and without `--nights`), two windows let one find the other's record.
Two nights make order matter in file and chain; two values tell "as the owner
had it" from "not", and `MaxAttempts` 2 is the smallest budget in which a
refund, a retry and a spent budget differ. `MaxRuns` 3 lets a machine be held
with its budget half spent, and held again. Brightness stands for a setting
that only drifts, stay-awake for one the window writes (heads-up banners are of
the same kind), `zen_mode` for the one with a life of its own. In `lease`
a chain of four has a borrower under a borrower and a process between that
leases nothing; three kills are one for every process above the last, and
beside the window's chain there is one whose first process leases nothing.

In `ports` four nights are the whole chain a campaign ends with: one started from
Continue, one rolled into, two picked by their row; two attempts let a night that
was rolled into be retried, two runs let a held one be resumed. In `programs` three jobs put a longer one behind the
shorter that is cancelled, or before it; a jump of 7 minutes is longer than
every grace. A piece of two lines lets a halt fall inside it. In `runners` four
exits against three of reboot keep the source's order (24 exits of 0.9 s
outlast 20 s); three moves take Springtrap past a vent and out of a neighbour's
sight; the third game's second lure breaks audio as on AI 5 to 7. The actuator's
stopwatches stop at three waits, past which nothing reads them, and two
desynchronisations stand for the twelve that abort a run. The app has at most
two sessions, three images and one trace of two rows, divided over seven uses so
that each verb meets a stop, a second session and a full trace. In `cores` and
`progress` every animation is at least one frame longer than the rule that
interrupts it, and an encounter's grace is longer than the mask's.

CHECK_DEADLOCK is off where the system really stops: a finished machine that has
been run `MaxRuns` times, processes that each run once, a night that is over, a
window that has closed, a session after its last stop.

### Fairness, and what justifies it

- `JobQueue`: a started runner is a process that keeps running, and its job
  ends by itself or at its ceiling (weak fairness). The timer opens a window
  every night; an agent's drain ends and a phone is unlocked time and again, so
  some night finds the runner lock free and the phone usable (strong fairness
  for windows only). `Served` needs the strong form: a lock that is free again
  and again is not always free. Faults are bounded, as no queue can serve a
  phone that holds for ever.
- `WindowSettings`: a process that runs goes on; systemd runs the restore after
  every window however it ended, and it finds the lease free some time.
- `Campaign`: every port is bounded by deadlines of its own, so each awaited
  call answers (weak fairness of `Answer`). Nothing makes an operator run or
  resume a campaign, and none is assumed. In `progress` an interrupted campaign's
  cleanup takes its next step (weak fairness of `Cleanup`): its awaits are an adb
  restart and a wait for the title, each with its deadline.
- `NightExecutor`: every await is bounded -- sleeps, reads with timeouts, the
  window, the completion timer -- except the feed's, which waits for the phone
  to drain the pipe; `Write` is weakly fair because the phone does.
- `Fnaf4Loop`, `Fnaf3Systems`, `Fnaf3Track`: the loop's next step (weak fairness of
  `LoopStep`, `SystemsLoop` and `TrackLoop`); the game's faults and moves are bounded and owe nothing.
- `Fnaf2Office`, `Fnaf4Night`: the driver advances frames (`Tick`; `Hold` or
  `FrameRules`). In `Fnaf4Night` the forced turn's timer fires time and again while
  the night lasts, which is the one strong fairness (`Bedroom(TRUE)`).

## What is proved

Each `*_proofs` module proves its theorems for every value of the constants
that satisfies the component's assumption.

- `JobQueue_proofs` (from `QueueAssumption`): type correctness,
  `ClaimIsExclusive`, `NightPlayedOnce`, `WaitingNightUntouched`,
  `OneJobPerKey`, and that `Spec` implements `JobLedger`. None of them is
  inductive alone. The invariant `QueueInv` adds that whoever polls or has a
  claim in hand holds the runner lock (`LockInv`), that one job at most is
  RUNNING (`OneRunning`), that a night has one process at most, unplayed as
  long as it is not playing (`ProcessInv`), and, at its heart, `ClaimInv`:
  wherever a night stands for a claim -- waiting, claimed and not spawned,
  handed back by its own exit 75 -- it was never played and has no process
  left. `EndInv` keeps a timeout from being read as that exit 75, and
  `SetupInv` keeps setups out of `plays`.
- `WindowSettings_proofs` (from `SettingsAssumption` and `~DndSlow`):
  type correctness, `NothingLost`, `CleanExitMeansRestored`, and that `Spec`
  implements `SettingsEscrow`. `SettingsInv` adds what a process knows at each
  place: that what it will restore is the record on disk from the first change
  on, and that in a pass that has missed none the settings behind its index are
  right already (`ProcessInv`); and that a record covers all that differs
  (`RecordInv`). `~DndSlow` is needed:
  without it `NothingLost` is false, which `settings_slow_dnd` shows.
- `Campaign_proofs` (from `CampaignAssumption`): type correctness,
  `WonInOrder`, `ProvenOnEvidence`, `FirstRunRecorded`, `VerdictsStand`,
  `TwoInvalidHold`, `BudgetKept`, and that `Spec` implements `NightChain`. `CampaignInv` says
  which port can be awaited in which state of the machine (`PlaceInv`), what
  the active record holds there (`OpenInv`), that every earlier record is of
  the target or a night before it (`BehindInv`), and how the counters bound the
  play (`SpendInv`). `FirstRunInv` and `StreakInv` are the extra facts of a
  single `run()`: it reaches no play with its budget spent, and its count of
  Invalid runs in a row agrees with the last records. `BudgetInv` ties the two
  counters, which start anew with each night, to the records that stay: those of
  the target that count are at most the attempts less the refunds, and a night
  that was left behind never gets another record.
- `Campaign_proofs` (from `PortsAssumption`): type correctness, that
  `PortsSpec` implements `Spec` of `Campaign`, so that each theorem above holds of
  the campaign on the phone, and `ExecutionsOwned`, `NoNightLeftBehind` and, from
  `~VenueMoves`, `PlaysTheTarget`. `OwnInv` says at which steps of which ports an
  execution may be pre-armed, owned or feeding, and beside it `ArmInv` that an
  execution a port does not know of does not exist. `LeftInv` follows the night
  that was pressed to the restart that leaves it, through each port that may
  fail. `PlayingInv` and `AimInv` relate the game's save, the cursor on its title
  and the night it plays to the campaign's target: at the target between
  attempts, past it only from a win to the proof of it. The last is where
  `~VenueMoves` is needed: a won night judged Invalid leaves the save past the
  target (see the disagreements), and the theorem is false without it.
- `Programs_proofs`, of the window (from `WindowAssumption`): type correctness,
  `WindowClosesInTime` and `NoJobPastTheStop`, for any queues, budgets and graces.
  `WindowPlaceInv` bounds, for each place of the window, the instant it was entered:
  what the places before it may take is what `StopAt` reserved. `ClockInv` says
  that after a suspend or a step one of the two clocks still tells real time, so
  the earlier of the two deadlines is never late; `QueueInv` that a cancel leaves
  only budgets the window was opened with. The overrun a lock wait may cause is
  part of the statement: at the source's defaults it happens (see the
  disagreements).
- `Programs_proofs`, of the night job (from `NightJobAssumption`): type correctness and
  `JobReportsWhatHappened`, for any length of a night and any
  pace of its steps. `PhaseInv` says which steps are before the night and which
  after it, `SeenInv` that the title the job is judged by still shows, and
  `SpentInv` bounds by `Reach` what an undisturbed job can have spent at each
  step, up to the sum that `budget` is.
- `Programs_proofs`, of the executor (from `ExecutorAssumption`): type correctness,
  `AttemptInOrder` and `HaltStands`, for any number of lines, gates and attempts
  and every way a run may be owned and armed. The locals of `execute()` are one
  record and its invariant `RunInv` an operator of it, with one lemma for each
  function the handlers are made of and one for each handler. `WriterInv` says
  that a piece of the plan in the feed has the task that queued it waiting for it;
  `ScheduleInv` that arm and gates follow the first line, in their order;
  `ObserverInv` and `FifoInv` that a body no observer waits for any more stands in
  front of what will end the run, its release or the halt's, so that a stop or a
  halt in any other order would leave lines behind it; `FreshInv` that a body in
  the feed is unbegun exactly while the handoff is unmeasured. From it and
  `ScheduleInv` a plan that a stale grant started has at most the one line its late
  handoff was measured by. `VerdictInv` holds while `execute()`
  waits: a halted run ends with a verdict, or is excused by a failed arm, a late
  handoff or a stop from outside. `PlaceInv` and `ShapeInv` relate the record to
  the execution, the HID and the intro's grant.
- `DeviceLease_proofs` (from `LineageAssumption`, which says what an ancestor
  is): type correctness, `BorrowedFromHolder`, `FamilyAdmitted`,
  `OneProgramUnlessKilled`. `LeaseInv` says that nobody is alive under a
  launcher that has left in good order (`ChildInv`), so that a walk that
  reaches its end reaches a process in its operation (`WalkEndsInUse`); that
  every owner named in a record, or by the environment of its own descendant,
  has had the lock itself (`HolderInv`, `EnvInv`); and that one that had it and
  is still in its operation has it now (`LockInv`). The prover has no induction
  over the tree, so `LineageAssumption` states as a fact of trees that every
  ancestor of a process is the launcher of it or of another of its ancestors.

- `CaptureSession_proofs` (from `CaptureAssumption`): type correctness,
  `TraceOnItsTarget`, `TraceKept` and `SessionsKeptApart`, for any number of
  sessions, images and regions. The first two parts of the latter are invariants,
  the last says
  what a step may not do. `CaptureInv` adds, for each place of the main thread,
  which token stands and which sockets are open (`MainInv`); that a listener of
  another session than the one at hand is somewhere it can only read, answer,
  encode, write or wait for a picture (`WorkerInv`); that a request that stands,
  or that the frame thread holds, is of a listener that waits for it, and that no
  listener asked for an image newer than the last one acquired (`SnapInv`); and
  that registered regions show one image or none (`SharedInv`). From these,
  `OldInert` shows action by action that such a listener changes nothing shared.
  For `TraceKept`, `OnceInv` says without counting that a trace is in exactly one
  of its hands -- running, being saved, with one listener, written -- and
  `InOneHand` that then the count is one; `GapInv` says which image comes next.

- `Cores_proofs`, of the first game (from `NightAssumption`): type correctness,
  `DoorRules` and `MovesInTheirOrder`, for any set of animatronics, any controls
  and cameras the policy uses and any lengths of the animations. `RunInv` says
  what holds from Foxy's rule of a frame to the player's next press: a run
  undecided has the left door moving and the monitor down, which a press cannot
  undo, as nothing may be pressed while he runs. `FreddyInv` (he tries the door
  from 4B only) and `FreddyLeavesLast`, which is part of `DoorRules`, carry the
  order in which they leave and enter.
- `Cores_proofs`, of the second (from `OfficeAssumption`): type correctness and
  `OfficeRules`, for any of the units and any timing. `LockHeldAtTheThreshold` is
  inductive by the lemma `Settling`, which every way in or out goes through.
  `DefendedStaysMasked` is not: `DropInv` says that a drop that waits, and is no
  attack's, either lowers a raised monitor or was asked for while no encounter
  ran, and is performed before the next tick can start one; `HandsInv` keeps
  mask and monitor apart and a displayed camera on a raised monitor, which is
  also why a unit that walks in on a display needs it (`WaysIn`).
- `Cores_proofs`, of the fourth (from `BedroomAssumption`): type correctness and
  `BedroomRules`, whoever is awake and wherever the policy goes. `CheckInv` says
  that with Fredbear about an armed check is of the turn that has just ended, and
  that before he first comes his dwell is 0: then a check armed long ago meets at
  most one tick of it, which is why the assumption has `CHECK > 1` (10 s, a
  second per tick, in the source). `LockInv`: one resolved means an interlock
  disarmed.

- `Runners_proofs`, of the third game's loop (from `SystemsAssumption` and
  `TrackAssumption`): type correctness of its systems and `BeliefFollowsTheGame`,
  for any number of slips, faults and moves and every reboot the exits outlast.
  `GameInv` says that a reboot runs only while the menu is open, `FlowInv` that
  whoever presses Exit has more presses left than the reboot has time; `TrackInv`
  that a second look at an animatronic who stands where he was last seen has
  cost a frame that missed him.
- `Runners_proofs`, of the fourth game's loop (from `LoopAssumption`: each of the
  times has a longest): type correctness and `BedroomSwept`. The steps left are a
  stack, so the invariant names its shape first: what is coming (`Coming`) is at
  most one step pushed in front, the last `r` steps of a bed's own visits and the
  last `b` of the cycle (`PlaceInv`). By these, `StandInv` says where the loop
  stands before a door; `KnownInv` that a Foxy seen in is remembered by one of
  three variables until a closet that is still to come; `ClearInv` how long ago
  each hall was lit, visit by visit, the last one's excepted. `Looking` says which
  step stands in front of which shape, `Onward` what is left behind it, and one
  lemma per action moves from shape to shape.

`TypeOK`, `PortsTypeOK`, `WindowTypeOK`, `JobTypeOK`, `OfficeTypeOK`,
`BedroomTypeOK`, `SystemsTypeOK`, `LoopTypeOK`, `OneJobPerKey`, `WonInOrder`, `FirstRunRecorded`,
`TraceOnItsTarget` alone and the ports' refinement of the campaign are proved and
in no run's list: the runs check the refinements and conjunctions they are part
of, and a type that did not hold would stop them.

Checked by TLC only: liveness (`NeverStuckRunning`, `Served`,
`SettingsComeBack`, `RunEnds`, and all of `progress`), which is beyond the prover
under fairness; the actuator's `PressesAsMeant`, which holds by how the pilot's
cycle, the lateness and the game's animations lie to one another, and so for the
source's values and not for every one; and the counterexamples.

## Findings

1. *Do Not Disturb can stay on* (`settings_slow_dnd`). Where `zen_mode` follows
   `set_dnd` late, a signal in the gap makes the restore read the old value,
   take the setting for unchanged and delete the record.
2. *A retry of a rolled night aborts the campaign* (`ports_rolled`). `save()`
   sets `rolledIntoNight` and nothing clears it, so after a death in the night
   the game rolled into, `menu()` takes the title for the roll and throws.

Sources and quotations are in `PROJECT.json`.

### Disagreements met while modelling

The modules state these properties too, each beside the code it is about and in
the words of its comment or document; the code does not have them, and no run
above lists them. To see one, instantiate it in the MC module of the run named
here and add it to its configuration.

| Property | Module (run) | What the code does |
| --- | --- | --- |
| `ThreeMeansUnrestored` | `WindowSettings` (`settings`) | a window refused because another holds the lease exits 3 too (overnight-window.py:1103 against :203-206) |
| `EveryPlayRecorded` | `Campaign` (`campaign`) | on a second `run()` of a held machine with its budget spent the night is played without a record (campaign-runner.ts:87 against campaign.ts:11-12) |
| `OneProgram` | `DeviceLease` (`lease`) | once the holder is killed outright the borrower it launched goes on beside the next taker (companion_device_lock.py:119 against README.md:144-145) |
| `SignalLeavesTheTitle` | `CampaignPorts` (`ports`) | the signal's cleanup does not stop the runner: a menu port that waits for the title may see the cleanup's and press it, and the exit leaves a night starting (campaign-signal.ts:36 against :41-43) |
| `PlaysTheTarget` with `VenueMoves = TRUE` in the configuration | `CampaignPorts` (`ports`) | a night the phone won and the campaign judged Invalid is retried while the save is past it (modern-campaign-ports.ts:231 against :206-209) |
| `ClosesByItsEnd` | `WindowDeadline` (`programs`) | a lock wait of 600 s after a room of 480 s was checked carries a stopped child's graces and the restore 120 s past the end for which they are reserved (overnight-window.py:1030 against :946-948) |
| `StartsOnlyWhatFits` | `WindowDeadline` (`programs`) | the room is checked before the wait for a locked phone and not after it (overnight-window.py:1029 against :161-162) |
| `FitsBudget` | `NightJob` (`programs`) | the budget has one setup and one title read before the night, and the title after it may take 380 s of the 300 s it is given (night_jobs.py:286 against :285) |
| `NoPressBeforeOffice` | `NightExecutor` (`programs`) | a grant an earlier attempt left behind starts the next plan on the intro card (adb-device-local-executor.ts:398 against modern-campaign-ports.ts:676-678) |
| `MismatchIsInvalid` | `NightExecutor` (`programs`) | over the shared HID an observe-once arm that read a wrong pair ends COMPLETED (adb-device-local-executor.ts:1328 against :74-80) |
| `TitleStopsThePlan` | `NightExecutor` (`programs`) | a gate's read in flight when the title ends the run goes on to its press (cycle-gates.ts:97 against adb-device-local-executor.ts:1258-1263) |
| `BedFresh` | `Fnaf4Loop` (`runners`) | the list of stale doors is made before the visits, whose time makes the first stale again (fnaf4-run.ts:657 against :742-743) |
| `ClosetBeforeBed` | `Fnaf4Loop` (`runners`) | after the left door a due bed goes before a Foxy just seen running in (fnaf4-run.ts:1026 against :479-481) |
| `StopsAtNextStep` | `Fnaf4Loop` (`runners`) | a stop is looked for once a cycle (fnaf4-run.ts:1002 against night-kit.ts:100-102) |
| `FlashRebooted` | `Fnaf3Systems` (`runners`) | the flash is forgotten before the menu that answers it has opened (fnaf3-run.ts:707 against :705) |
| `FullSearch` | `Fnaf3Track` (`runners`) | a search broken off by a service or the night's end counts as "not found in a full search" (fnaf3-run.ts:814 against :826) |
| `MonitorDownInBlackout` | `Fnaf1Night` (`cores`) | a flip that is going up raises the monitor after the power is down (sim-fnaf1.ts:453 against :237) |
| `SeenRunStarts` | `Fnaf1Night` (`cores`) | looking down the hall starts no run of Foxy's (sim-fnaf1.ts:414 against fnaf1.ts:120-122) |
| `WalkGoesOn` | `Fnaf4Night` (`cores`) | `goTo()` from the bed sets the station to walk to and `beginBedTurn()` forgets it (sim-fnaf4.ts:264 against :259-260) |
| `WatchedTooLong` | `Fnaf4Night` (`cores`) | the forced turn's `foxyGotYou` is computed anew before the turn is over (sim-fnaf4.ts:635 against fnaf4.ts:313-314) |
| `TagPersists` | `Fnaf4Night` (`cores`) | a character sent back loses its tag (sim-fnaf4.ts:459 against fnaf4.ts:155-156) |
| `RaiseRefusedUnderAttack` | `Fnaf2Office` (`cores`) | the raise gate does not read the Puppet's attack (plant-office.ts:56 against plant-options.ts:478-481) |
| `MaskOffSkipped` | `Actuator` (`runners`) | the press a recovery swallows may be the next cycle's mask-on (actuator.ts:597 against :325-328) |
| `PlannedLength` | `Actuator` (`runners`) | a buffered release is deferred again by its press's shift (actuator.ts:497 against :487-488) |
| `StoppedHoldsNoTrace` | `CaptureSession` (`runners`) | a TRACE start between `traceDetach` and the servers' stop leaves its trace held by a stopped capture (CaptureService.java:683-697) |

## What is not modelled

- PID reuse by the host, and a host whose clock or disk lies.
- The third game's core, custom nights, the night anchor's arithmetic over frame
  times, `SystemsClock`, the runners' mains, the actuator pilot's other cycles:
  arithmetic or straight-line code around what is modelled.
- The Companion's overlay, lessons, audio probe, on-device runner and onset
  latch: the first three have no state that the session shares; the runner and
  the latch read sound and time, which no small instance tells apart.
- The proposer, the player's belief state, review and sensors: large sequential
  computations over data, without interleaving or recovery of their own. What
  they compute is checked by their own tests against recorded traces. They are
  most of the repository's lines.
- The kernel package and the user interfaces: types, parsing and presentation.

## Plan

The order is by what can go wrong on the phone.

1. Done: `JobQueue`, `WindowSettings`, `Campaign`, `DeviceLease` and their
   proofs; `CampaignPorts` and its proofs; `WindowDeadline`, `NightJob`,
   `NightExecutor` and their proofs; the exact cores and their proofs;
   `CaptureSession` and its proofs; the runners' loops and their proofs; the
   actuator.
2. To prove next: from which relations of its timings the actuator presses what is
   meant (`PressesAsMeant`), which TLC checks for the source's.
3. To compose: the window's child as a `Windows` runner of `JobQueue`; the night
   job as the process `JobQueue` assumes (`EndsOf`).
4. To model: the Companion's on-device runner with its onset latch; the third
   game's core; the HID pilot's remaining cycles.
