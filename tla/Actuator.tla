------------------------------- MODULE Actuator -------------------------------
(***************************************************************************)
(* The phone between a pilot's schedule and the game                       *)
(* (packages/play/bin/phone/actuator.ts): DeviceActuator queues every      *)
(* press, each landing late, and MonitorSupervisor is the blocking shell   *)
(* above it, which twice a cycle reads whether the cameras are up and      *)
(* presses the monitor when it does not like the answer.                   *)
(*                                                                         *)
(* The pilot is one read cycle of hid-device-pilot.ts, run again and       *)
(* again; the game is the monitor and the mask, which the game may also    *)
(* force down.  Times are in units of two frames, relative to now.  The    *)
(* order within a frame is the code's: the pilot submits, deferred         *)
(* releases go out, the shell's steps run, what is due lands, and the      *)
(* game ticks.                                                             *)
(***************************************************************************)
EXTENDS Integers, Sequences

CONSTANTS LATE,         \* the lateness a beat may draw (110-300 ms)
          WAIT,         \* gateWaitMs, the lowering animation: 367 ms
          READ,         \* cueReadMs: 59 ms
          POLL, CONTACT,        \* the game's poll and a tap: 33 ms each
          ASK,          \* classifyMs and cueMatchMs: 360 ms
          CUE_UP,       \* how long a lowering monitor still reads as up
          SEAM,         \* a monitor press this soon after a mask-off is lost
          MON_DOWN, MON_UP, MASK_ON, MASK_OFF,     \* the game's animations
          CYCLE,        \* units from anchor to anchor
          MAX_DESYNCS

(* Of the constants; assumed where they are given their values.           *)
ActuatorAssumption ==
  /\ LATE \subseteq Nat /\ LATE # {}
  /\ {WAIT, READ, POLL, CONTACT, ASK, CUE_UP, SEAM, MON_DOWN, MON_UP, MASK_ON, MASK_OFF, CYCLE}
       \subseteq Nat \ {0}
  /\ MAX_DESYNCS \in Nat

Holds == {"ventL", "light"}
VENT == [down |-> 11, length |-> 16]          \* the read's light
HALL == 3                                    \* the hall pulse's length
Length(a) == IF a = "ventL" THEN VENT.length ELSE HALL

(* One cycle: the anchor lowers the monitor, lights the vent, puts the mask *)
(* on, and when the read's result is in the branch takes it off, pulses the *)
(* hall light and raises the monitor, to lower it once more for a second    *)
(* pulse.  Cameras, winding and the sweep are left out.                     *)
Plan ==
  << [at |-> 0, branch |-> FALSE, kind |-> "beat", act |-> "anchor"],
     [at |-> 0, branch |-> FALSE, kind |-> "press", act |-> "monitor"],
     [at |-> VENT.down, branch |-> FALSE, kind |-> "press", act |-> "ventL"],
     [at |-> VENT.down + VENT.length, branch |-> FALSE, kind |-> "release", act |-> "ventL"],
     [at |-> 28, branch |-> FALSE, kind |-> "press", act |-> "maskOn"],
     [at |-> 33, branch |-> TRUE, kind |-> "beat", act |-> "branch"],
     [at |-> 34, branch |-> TRUE, kind |-> "press", act |-> "maskOff"],
     [at |-> 42, branch |-> TRUE, kind |-> "press", act |-> "light"],
     [at |-> 42, branch |-> TRUE, kind |-> "press", act |-> "monitor"],
     [at |-> 42 + HALL, branch |-> TRUE, kind |-> "release", act |-> "light"],
     [at |-> 82, branch |-> TRUE, kind |-> "press", act |-> "monitor"],
     [at |-> 93, branch |-> TRUE, kind |-> "press", act |-> "light"],
     [at |-> 93 + HALL, branch |-> TRUE, kind |-> "release", act |-> "light"],
     [at |-> 98, branch |-> TRUE, kind |-> "press", act |-> "monitor"] >>

VARIABLES phase, clock, entry, readLate,   \* the pilot's place in its cycle
          mon, monAnim, mask, maskAnim,    \* the game
          beatLate, pending, holdLate, sinceOff,          \* DeviceActuator
          steps, buffer, deferred, shift, blocking, swallow,
          sinceMon, sincePress, desyncs, aborted,         \* MonitorSupervisor
          age            \* how long each contact has been down, as queued

pilotVars == <<clock, entry, readLate>>
gameVars == <<mon, monAnim, mask, maskAnim>>
queueVars == <<beatLate, pending, holdLate>>
shellVars == <<buffer, deferred, shift, blocking, swallow, desyncs, aborted>>
vars == <<phase, pilotVars, gameVars, queueVars, sinceOff, steps, shellVars,
          sinceMon, sincePress, age>>

NoShift == [a \in Holds |-> 0]
LONG == WAIT + WAIT + WAIT         \* where the stopwatches stop
Stop(t) == IF t < LONG THEN t + 1 ELSE LONG
Largest(m, n) == IF m < n THEN n ELSE m
Rest(t) == Largest(t, 0)

Init ==
  /\ phase = "pilot" /\ clock = 0 /\ entry = 1 /\ readLate \in LATE
  /\ mon = "up" /\ monAnim = 0 /\ mask = FALSE /\ maskAnim = 0
  /\ beatLate = readLate /\ pending = <<>> /\ holdLate = NoShift
  /\ sinceOff = LONG
  /\ steps = <<>> /\ buffer = <<>> /\ deferred = <<>> /\ shift = NoShift
  /\ blocking = FALSE /\ swallow = FALSE
  /\ sinceMon = LONG /\ sincePress = LONG
  /\ desyncs = 0 /\ aborted = FALSE
  /\ age = NoShift

-----------------------------------------------------------------------------
(* submitNow: one lateness draw a hold, and the queue serializes.           *)
Queued(kind, a, late) ==
  LET draw == IF kind = "release" THEN holdLate[a] ELSE late
      last == IF pending = <<>> THEN 0 ELSE pending[Len(pending)].in
  IN Append(pending, [in |-> Largest(draw, last), kind |-> kind, act |-> a])

SubmitNow(kind, a, late) ==
  /\ pending' = Queued(kind, a, late)
  /\ holdLate' = IF kind = "press" /\ a \in Holds
                 THEN [holdLate EXCEPT ![a] = late] ELSE holdLate
  /\ sincePress' = IF kind = "press" THEN 0 ELSE sincePress
  /\ sinceMon' = IF kind = "press" /\ a = "monitor" THEN 0 ELSE sinceMon
  /\ age' = IF kind = "press" /\ a \in Holds THEN [age EXCEPT ![a] = 0] ELSE age

(* What the Companion answers.                                              *)
(* Mutant: the whole lowering animation reads as up. *)
CueSaysUp_Lowering == mon \in {"up", "raising", "lowering"}

CueSaysUp == mon \in {"up", "raising"} \/ (mon = "lowering" /\ sinceMon < CUE_UP)

(* Mutant: the read's own time is not waited for. *)
At_ReadFree(t, what) == Append(steps, [in |-> Rest(IF what = "read1" THEN t - READ ELSE t),
                                       what |-> what])

At(t, what) == Append(steps, [in |-> Rest(t), what |-> what])

(* startCheckpoint, when the read's light goes up.                          *)
StartCheckpoint ==
  /\ desyncs' = IF CueSaysUp /\ desyncs <= MAX_DESYNCS THEN desyncs + 1 ELSE desyncs
  /\ aborted' = (aborted \/ desyncs' > MAX_DESYNCS)
  /\ steps' = IF CueSaysUp /\ desyncs' <= MAX_DESYNCS THEN At(ASK, "ask") ELSE steps

(* emit, for one instruction: a release whose press was pushed late is      *)
(* deferred by as much, and the read's light going up is the checkpoint.    *)

(* Mutant: the release goes out where the plan wanted it. *)
Emit_OnPlan(kind, a, late, rest) ==
  /\ deferred' = rest
  /\ SubmitNow(kind, a, late)
  /\ IF kind = "release" /\ a = "ventL" THEN StartCheckpoint
     ELSE UNCHANGED <<steps, desyncs, aborted>>
  /\ UNCHANGED shift

(* Mutant: every light's release asks the second question. *)
Emit_AnyLight(kind, a, late, rest) ==
  IF kind = "release" /\ shift[a] > 0
  THEN /\ deferred' = Append(rest, [in |-> shift[a], act |-> a])
       /\ shift' = [shift EXCEPT ![a] = 0]
       /\ UNCHANGED <<pending, holdLate, sincePress, sinceMon, age, steps,
                      desyncs, aborted>>
  ELSE /\ deferred' = rest
       /\ SubmitNow(kind, a, late)
       /\ IF kind = "release" THEN StartCheckpoint
          ELSE UNCHANGED <<steps, desyncs, aborted>>
       /\ UNCHANGED shift

Emit(kind, a, late, rest) ==
  IF kind = "release" /\ shift[a] > 0
  THEN /\ deferred' = Append(rest, [in |-> shift[a], act |-> a])
       /\ shift' = [shift EXCEPT ![a] = 0]
       /\ UNCHANGED <<pending, holdLate, sincePress, sinceMon, age, steps,
                      desyncs, aborted>>
  ELSE /\ deferred' = rest
       /\ SubmitNow(kind, a, late)
       /\ IF kind = "release" /\ a = "ventL" THEN StartCheckpoint
          ELSE UNCHANGED <<steps, desyncs, aborted>>
       /\ UNCHANGED shift

-----------------------------------------------------------------------------
(* The pilot's next entry, when its time has come, through intercept.       *)
Due == /\ phase = "pilot" /\ entry <= Len(Plan)
       /\ Plan[entry].at + (IF Plan[entry].branch THEN readLate ELSE 0) <= clock

(* beat: a new wall-timed launch draws its lateness. *)
Beat ==
  /\ Due /\ Plan[entry].kind = "beat"
  /\ \E late \in LATE :
       /\ beatLate' = late
       /\ readLate' = IF Plan[entry].act = "anchor" THEN late ELSE readLate
  /\ entry' = entry + 1
  /\ UNCHANGED <<phase, clock, gameVars, pending, holdLate, sinceOff, steps,
                 shellVars, sinceMon, sincePress, age>>

Intercept ==
  /\ Due /\ Plan[entry].kind # "beat"
  /\ LET kind == Plan[entry].kind
         a == Plan[entry].act
         held == [kind |-> kind, act |-> a, waited |-> 0]
     IN \/ /\ blocking                                  \* the shell is waiting
           /\ buffer' = Append(buffer, held)
           /\ UNCHANGED <<queueVars, steps, deferred, shift, blocking, swallow,
                          desyncs, aborted, sinceMon, sincePress, age>>
        \/ /\ ~blocking /\ swallow                      \* MASK_ALREADY_OFF
           /\ a \in {"maskOn", "maskOff"}
           /\ swallow' = FALSE
           /\ UNCHANGED <<queueVars, steps, buffer, deferred, shift, blocking,
                          desyncs, aborted, sinceMon, sincePress, age>>
        \/ /\ ~blocking /\ kind = "press" /\ a = "ventL"        \* startGate
           /\ buffer' = Append(buffer, held) /\ blocking' = TRUE
           /\ steps' = At(WAIT + READ - sinceMon, "read1")
           /\ UNCHANGED <<queueVars, deferred, shift, swallow, desyncs, aborted,
                          sinceMon, sincePress, age>>
        \/ /\ ~blocking
           /\ ~(kind = "press" /\ a = "ventL")
           /\ ~(swallow /\ a \in {"maskOn", "maskOff"})
           /\ Emit(kind, a, beatLate, deferred)
           /\ UNCHANGED <<beatLate, buffer, blocking, swallow>>
  /\ entry' = entry + 1
  /\ UNCHANGED <<phase, clock, readLate, gameVars, sinceOff>>

PilotDone ==
  /\ phase = "pilot" /\ ~Due
  /\ phase' = "defer"
  /\ UNCHANGED <<pilotVars, gameVars, queueVars, sinceOff, steps, shellVars,
                 sinceMon, sincePress, age>>

-----------------------------------------------------------------------------
(* The shell's tick: first the deferred releases, blocked or not.           *)
Without(s, i) == SubSeq(s, 1, i - 1) \o SubSeq(s, i + 1, Len(s))
Ripe(s) == {i \in DOMAIN s : s[i].in <= 0}

EmitDeferred ==
  /\ phase = "defer"
  /\ \E i \in Ripe(deferred) :
       /\ \A j \in Ripe(deferred) : j <= i
       /\ Emit("release", deferred[i].act, beatLate, Without(deferred, i))
  /\ UNCHANGED <<phase, pilotVars, gameVars, beatLate, sinceOff, buffer, blocking,
                 swallow>>

DeferredDone ==
  /\ phase = "defer" /\ Ripe(deferred) = {}
  /\ phase' = "steps"
  /\ UNCHANGED <<pilotVars, gameVars, queueVars, sinceOff, steps, shellVars,
                 sinceMon, sincePress, age>>

(* The first step that is due runs: it schedules the next, or unblocks.     *)
Running(what) ==
  /\ phase = "steps" /\ Ripe(steps) # {}
  /\ LET i == CHOOSE i \in Ripe(steps) : \A j \in Ripe(steps) : i <= j
     IN steps[i].what = what
Others ==
  LET i == CHOOSE i \in Ripe(steps) : \A j \in Ripe(steps) : i <= j
  IN Without(steps, i)
Then(t, what) == Append(Others, [in |-> Rest(t), what |-> what])

Unblock == blocking' = FALSE /\ phase' = "flush"

(* The gate's two reads: two answers that the cameras are up correct.       *)
GateRead ==
  /\ \/ /\ Running("read1")
        /\ IF CueSaysUp
           THEN steps' = Then(READ, "read2") /\ UNCHANGED <<phase, blocking>>
           ELSE steps' = Others /\ Unblock
     \/ /\ Running("read2")
        /\ IF CueSaysUp
           THEN steps' = Then(POLL, "gatePress") /\ UNCHANGED <<phase, blocking>>
           ELSE steps' = Others /\ Unblock                      \* a transient
  /\ UNCHANGED <<pilotVars, gameVars, queueVars, sinceOff, buffer, deferred, shift,
                 swallow, desyncs, aborted, sinceMon, sincePress, age>>

(* pressMonitor: the runner's own press, a launch of its own.               *)
PressMonitor == \E late \in LATE :
  /\ beatLate' = late
  /\ SubmitNow("press", "monitor", late)

GatePress ==
  /\ Running("gatePress")
  /\ PressMonitor
  /\ steps' = Then(CONTACT + WAIT, "resume")
  /\ UNCHANGED <<phase, pilotVars, gameVars, sinceOff, shellVars>>

GateDone ==
  /\ Running("resume")
  /\ steps' = Others /\ Unblock
  /\ UNCHANGED <<pilotVars, gameVars, queueVars, sinceOff, buffer, deferred, shift,
                 swallow, desyncs, aborted, sinceMon, sincePress, age>>

(* The checkpoint's recovery: lower, wait, read back, lower once more if it *)
(* is still up, and let the branch run without its mask-off.                *)
Ask ==
  /\ Running("ask")
  /\ blocking' = TRUE
  /\ steps' = Then(POLL, "recPress")
  /\ UNCHANGED <<phase, pilotVars, gameVars, queueVars, sinceOff, buffer, deferred,
                 shift, swallow, desyncs, aborted, sinceMon, sincePress, age>>

RecoveryPress ==
  /\ \/ /\ Running("recPress")
        /\ steps' = Then(CONTACT + WAIT + READ, "recRead")
        /\ UNCHANGED swallow
     \/ /\ Running("recPress2")                            \* finishRecovery
        /\ steps' = Then(CONTACT + WAIT + POLL, "resume")
        /\ swallow' = TRUE
  /\ PressMonitor
  /\ UNCHANGED <<phase, pilotVars, gameVars, sinceOff, buffer, deferred, shift,
                 blocking, desyncs, aborted>>

RecoveryRead ==
  /\ Running("recRead")
  /\ IF CueSaysUp THEN steps' = Then(POLL, "recPress2") /\ UNCHANGED swallow
     ELSE steps' = Then(CONTACT + WAIT + POLL - sincePress, "resume") /\ swallow' = TRUE
  /\ UNCHANGED <<phase, pilotVars, gameVars, queueVars, sinceOff, buffer, deferred,
                 shift, blocking, desyncs, aborted, sinceMon, sincePress, age>>

(* unblock: what the schedule wanted meanwhile goes out now, in order.      *)
Flush ==
  /\ phase = "flush" /\ buffer # <<>>
  /\ LET held == Head(buffer)
         late == held.kind = "press" /\ held.act \in Holds
     IN IF late
        THEN /\ SubmitNow(held.kind, held.act, beatLate)
             /\ shift' = [shift EXCEPT ![held.act] = held.waited]
             /\ UNCHANGED <<steps, desyncs, aborted, deferred>>
        ELSE Emit(held.kind, held.act, beatLate, deferred)
  /\ buffer' = Tail(buffer)
  /\ UNCHANGED <<phase, pilotVars, gameVars, beatLate, sinceOff, blocking, swallow>>

Flushed ==
  /\ phase = "flush" /\ buffer = <<>>
  /\ phase' = "steps"
  /\ UNCHANGED <<pilotVars, gameVars, queueVars, sinceOff, steps, shellVars,
                 sinceMon, sincePress, age>>

StepsDone ==
  /\ phase = "steps" /\ Ripe(steps) = {}
  /\ phase' = "land"
  /\ UNCHANGED <<pilotVars, gameVars, queueVars, sinceOff, steps, shellVars,
                 sinceMon, sincePress, age>>

-----------------------------------------------------------------------------
(* deliver: what is due lands, in the queue's order, and the game answers.  *)
Landing == phase = "land" /\ pending # <<>> /\ Head(pending).in <= 0
Lowered == mon' = "lowering" /\ monAnim' = MON_DOWN

LandOther ==       \* a release, or a light the game only shows
  /\ Landing /\ Head(pending).act \in Holds
  /\ pending' = Tail(pending)
  /\ UNCHANGED <<phase, pilotVars, gameVars, beatLate, holdLate, sinceOff, steps,
                 shellVars, sinceMon, sincePress, age>>

LandMonitor ==
  /\ Landing /\ Head(pending).act = "monitor"
  /\ \/ /\ sinceOff < SEAM \/ mask \/ maskAnim > 0   \* lost in the seam, or refused
        /\ UNCHANGED <<mon, monAnim>>
     \/ /\ ~mask /\ maskAnim = 0 /\ mon \in {"up", "raising"} /\ Lowered
     \/ /\ ~mask /\ maskAnim = 0 /\ mon \in {"down", "lowering"}
        /\ mon' = "raising" /\ monAnim' = MON_UP
  /\ pending' = Tail(pending)
  /\ UNCHANGED <<phase, pilotVars, mask, maskAnim, beatLate, holdLate, sinceOff,
                 steps, shellVars, sinceMon, sincePress, age>>

LandMask ==
  /\ Landing /\ Head(pending).act \in {"maskOn", "maskOff"}
  /\ sinceOff' = IF mask THEN 0 ELSE sinceOff
  /\ IF maskAnim > 0 \/ (~mask /\ mon \in {"up", "raising"})
     THEN UNCHANGED <<mask, maskAnim>>
     ELSE mask' = ~mask /\ maskAnim' = IF mask THEN MASK_OFF ELSE MASK_ON
  /\ pending' = Tail(pending)
  /\ UNCHANGED <<phase, pilotVars, mon, monAnim, beatLate, holdLate, steps,
                 shellVars, sinceMon, sincePress, age>>

(* The game's frame; it may also force the monitor down.  Time passes.      *)
Elapse(s) == [i \in DOMAIN s |-> [s[i] EXCEPT !.in = @ - 1]]

Frame ==
  /\ phase = "land" /\ ~Landing
  /\ \/ /\ mon \in {"up", "raising"} /\ Lowered
     \/ /\ mon' = IF monAnim # 1 THEN mon ELSE IF mon = "raising" THEN "up" ELSE "down"
        /\ monAnim' = Rest(monAnim - 1)
  /\ maskAnim' = Rest(maskAnim - 1)
  /\ pending' = Elapse(pending)
  /\ steps' = Elapse(steps) /\ deferred' = Elapse(deferred)
  /\ buffer' = [i \in DOMAIN buffer |-> [buffer[i] EXCEPT !.waited = @ + 1]]
  /\ sinceOff' = Stop(sinceOff) /\ sinceMon' = Stop(sinceMon)
  /\ sincePress' = Stop(sincePress)
  /\ age' = [a \in Holds |-> Stop(age[a])]
  /\ clock' = (clock + 1) % CYCLE
  /\ entry' = IF clock' = 0 THEN 1 ELSE entry
  /\ phase' = "pilot"
  /\ UNCHANGED <<readLate, mask, beatLate, holdLate, shift, blocking, swallow,
                 desyncs, aborted>>

-----------------------------------------------------------------------------
Next == \/ Beat \/ Intercept \/ PilotDone
        \/ EmitDeferred \/ DeferredDone
        \/ GateRead \/ GatePress \/ GateDone
        \/ Ask \/ RecoveryPress \/ RecoveryRead
        \/ Flush \/ Flushed \/ StepsDone
        \/ LandOther \/ LandMonitor \/ LandMask
        \/ Frame

(* The pilot's loop runs frame after frame.                                 *)
Spec == Init /\ [][Next]_vars /\ WF_vars(Next)

-----------------------------------------------------------------------------
(* Every variable keeps to its values, and the queue lands in the order it  *)
(* was filled.                                                              *)
TypeOK ==
  /\ phase \in {"pilot", "defer", "steps", "flush", "land"}
  /\ clock \in 0 .. CYCLE - 1 /\ entry \in 1 .. Len(Plan) + 1
  /\ {readLate, beatLate} \subseteq LATE
  /\ mon \in {"down", "raising", "up", "lowering"}
  /\ monAnim \in 0 .. Largest(MON_UP, MON_DOWN)
  /\ maskAnim \in 0 .. Largest(MASK_ON, MASK_OFF)
  /\ {mask, blocking, swallow, aborted} \subseteq BOOLEAN
  /\ {sinceOff, sinceMon, sincePress} \subseteq 0 .. LONG
  /\ desyncs \in 0 .. MAX_DESYNCS + 1
  /\ \A i \in 1 .. Len(pending) - 1 : pending[i].in <= pending[i + 1].in

(* A monitor observation taken inside the lowering animation of a monitor   *)
(* press is not an observation of anything: whichever press was the last,   *)
(* the plan's or the shell's own, the gate starts its read after the flip   *)
(* and after the press has landed (light_down_at).                          *)
GateReadsOutsideFlip ==
  Running("read1") \/ Running("read2") =>
    /\ sinceMon - READ >= WAIT
    /\ ~\E i \in DOMAIN pending : pending[i].act = "monitor"

(* A correction taken on a monitor that was already coming down does not    *)
(* fix a desync, it makes one: neither the gate nor the checkpoint decides  *)
(* for one (gateFalse and checkpointFalse stay zero).                       *)
CorrectsOnlyUp ==
  [][(Running("read2") /\ blocking') \/ desyncs' > desyncs
       => mon \in {"up", "raising"}]_vars

(* The shell is one thread: the gate's waits and a recovery's never run     *)
(* side by side, so that one's unblock cannot end the other's.              *)
OneChain == Len(steps) <= 1

(* However late its press was pushed, a contact is never shorter than the   *)
(* plan's: the release waits for it, and a buffered one waits longer.       *)
Released(a) == /\ Len(pending') > Len(pending)
               /\ LET last == pending'[Len(pending')]
                  IN last.kind = "release" /\ last.act = a
NeverShort == [][\A a \in Holds : Released(a) => age[a] >= Length(a)]_vars

(* actuator.ts: a recovery resumes the cycle with the branch's mask-off     *)
(* press skipped: what it swallows is never a mask going on.                *)
MaskOffSkipped ==
  [][swallow /\ ~swallow' => Plan[entry].act = "maskOff"]_vars

(* actuator.ts: a contact whose down was pushed late still gets its planned *)
(* length.                                                                  *)
PlannedLength == [][\A a \in Holds : Released(a) => age[a] = Length(a)]_vars
=============================================================================
