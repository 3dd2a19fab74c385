------------------------------- MODULE MCRunners -------------------------------
(***************************************************************************)
(* What plays a night on the phone, each on its own: the runner's loop of   *)
(* FNaF 4, the two halves of FNaF 3's (the systems it reboots, the          *)
(* animatronic it tracks), the actuator shell between FNaF 2's pilot and    *)
(* the phone, and the Companion app whose frames they read. A behaviour is  *)
(* one of them, the others keep their first state. The shell is             *)
(* instantiated, the rest extended.                                         *)
(***************************************************************************)
EXTENDS CaptureSession, Fnaf4Loop, Fnaf3Loop

VARIABLES
  player,      (* whose behaviour this is                                  *)
  phase, clock, step, readLate, mon, monAnim, mask, maskAnim, beatLate, pending, holdLate,
  sinceOff, steps, buffer, deferred, shift, blocking, swallow, sinceMon, sincePress, desyncs,
  aborted, age

shell == <<phase, clock, step, readLate, mon, monAnim, mask, maskAnim, beatLate, pending, holdLate,
           sinceOff, steps, buffer, deferred, shift, blocking, swallow, sinceMon, sincePress,
           desyncs, aborted, age>>
all   == <<player, loopVars, systemsVars, trackVars, shell, vars>>

(* One read cycle of the pilot, in units of two frames.                     *)
Shell == INSTANCE Actuator WITH
  LATE <- {4, 9}, WAIT <- 11, READ <- 2, POLL <- 1, CONTACT <- 1, ASK <- 11, CUE_UP <- 6,
  SEAM <- 5, MON_DOWN <- 11, MON_UP <- 6, MASK_ON <- 6, MASK_OFF <- 8, CYCLE <- 150,
  MAX_DESYNCS <- 2, entry <- step

(* A trace stopped and saved, its target moved under it; two sessions of    *)
(* each kind of request; a registration replaced.                           *)
Use(verbs, sessions, images) == [verbs |-> verbs, sessions |-> sessions, images |-> images]
AppUses ==
  {Use({"TRACE", "STOP"}, 1, 3), Use({"TRACE", "TARGET"}, 1, 2), Use({"TRACE", "STOP"}, 2, 1),
   Use({"SNAP"}, 1, 3), Use({"SNAP"}, 2, 1), Use({"SET", "CLEAR"}, 1, 2), Use({"SET"}, 2, 1)}
RegionNames == {"a", "b"}

ASSUME RunnersAssumption ==
  /\ LoopAssumption /\ SystemsAssumption /\ TrackAssumption
  /\ Shell!ActuatorAssumption /\ CaptureAssumption

RunnersInit ==
  /\ player \in {"loop", "systems", "track", "shell", "app"}
  /\ LoopInit /\ SystemsInit /\ TrackInit /\ Shell!Init /\ Init
  /\ player # "shell" => readLate = 4
  /\ player # "app" => use = Use({"SNAP"}, 2, 1) /\ target = "other"

RunnersNext ==
  /\ UNCHANGED player
  /\ \/ player = "loop"    /\ LoopNext    /\ UNCHANGED <<systemsVars, trackVars, shell, vars>>
     \/ player = "systems" /\ SystemsNext /\ UNCHANGED <<loopVars, trackVars, shell, vars>>
     \/ player = "track"   /\ TrackNext   /\ UNCHANGED <<loopVars, systemsVars, shell, vars>>
     \/ player = "shell"   /\ Shell!Next  /\ UNCHANGED <<loopVars, systemsVars, trackVars, vars>>
     \/ player = "app"     /\ Next        /\ UNCHANGED <<loopVars, systemsVars, trackVars, shell>>

RunnersSpec == RunnersInit /\ [][RunnersNext]_all

-------------------------------------------------------------------------------
(* The gate's reads start after the flip of whichever press was the last,   *)
(* landed presses only, and its waits never run beside a recovery's.        *)
(* However late its press was pushed, a contact is never shorter than the   *)
(* plan's, and a correction never raises a monitor that is on its way down. *)
PressesAsMeant ==
  [](Shell!GateReadsOutsideFlip /\ Shell!OneChain) /\ Shell!NeverShort /\ Shell!CorrectsOnlyUp
===============================================================================
