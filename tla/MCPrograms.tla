------------------------------ MODULE MCPrograms ------------------------------
(***************************************************************************)
(* The programs one overnight night passes through, each on its own: the   *)
(* window that starts a queue child, the night job the child runs and the  *)
(* executor that plays a campaign's night. A behaviour is one program's,   *)
(* the others keep their first state; they meet in the modules' own        *)
(* environments (the child of WindowDeadline, the runner of NightJob, the  *)
(* screens of NightExecutor).                                              *)
(***************************************************************************)
EXTENDS WindowDeadline, NightJob, NightExecutor

VARIABLE program     (* whose behaviour this is                            *)

all == <<program, windowVars, jobVars, vars>>

(* A check, a short night and a longer one, the long one first or behind;  *)
(* minutes, the source's seconds scaled.                                   *)
LongLastOrFirst == {<<6, 14, 9>>, <<14, 6, 9>>}
AllClocks == {"none", "suspend", "step"}

(* Steps at once, at half and at all of their bounds.                      *)
HalfPaces == {0, 5, 10}

ReleaseOwners == {"observer", "port"}
ArmModes == {"none", "blocking", "once"}

ASSUME ProgramsAssumption == WindowAssumption /\ NightJobAssumption /\ ExecutorAssumption

ProgramsInit ==
  /\ program \in {"window", "job", "executor"}
  /\ WindowInit /\ JobInit /\ Init
  /\ program # "window" => clocks = "none" /\ queue = <<6, 14, 9>>
  /\ program # "job" => shown = "title"
  /\ program # "executor" => request = [owner |-> "port", arm |-> "none"]

ProgramsNext ==
  /\ UNCHANGED program
  /\ \/ program = "window"   /\ WindowNext /\ UNCHANGED <<jobVars, vars>>
     \/ program = "job"      /\ JobNext    /\ UNCHANGED <<windowVars, vars>>
     \/ program = "executor" /\ Next       /\ UNCHANGED <<windowVars, jobVars>>

ProgramsSpec == ProgramsInit /\ [][ProgramsNext]_all
===============================================================================
