-------------------------------- MODULE MCCores --------------------------------
(***************************************************************************)
(* The exact cores the policies are tried on, each on its own: a night of   *)
(* the first game, of the fourth, the office of the second. A behaviour is  *)
(* one instance's, the others keep their first state. The first and fourth  *)
(* games' modules are extended and instantiated once more, over the same    *)
(* variables: who is awake and what the policy does differ.                 *)
(***************************************************************************)
EXTENDS Fnaf1Night, Fnaf2Office, Fnaf4Night

VARIABLE core        (* whose behaviour this is                            *)

all == <<core, vars, bedroomVars, officeVars>>

(* The extended first game: Bonnie and Foxy against the left door. Here the *)
(* three that walk, against the right one, with less power.                 *)
RightDoor == INSTANCE Fnaf1Night WITH
  Active <- {"bonnie", "chica", "freddy"}, Controls <- {"rightDoor", "monitor"},
  Views <- {4, 42}, POWER <- 2

(* The extended fourth game: Bonnie and Chica, a door and the bed. Here     *)
(* Foxy first, then Fredbear.                                               *)
Bear == INSTANCE Fnaf4Night WITH
  AwakeFirst <- {"foxy"}, AwakeLater <- {"fredbear"}, Stations <- {"leftDoor", "closet", "bed"},
  LAST_HOUR <- 2, LONG <- 3, IDLE <- 2, WATCH <- 2, STILL <- 2

ASSUME CoresAssumption ==
  /\ NightAssumption /\ RightDoor!NightAssumption
  /\ BedroomAssumption /\ Bear!BedroomAssumption /\ OfficeAssumption

CoresInit ==
  /\ core \in {"left", "right", "bed", "bear", "office"}
  /\ IF core = "right" THEN RightDoor!Init ELSE Init
  /\ BedroomInit /\ OfficeInit
  /\ core # "office" => puppet = "away"

CoresNext ==
  /\ UNCHANGED core
  /\ \/ core = "left"   /\ Next             /\ UNCHANGED <<bedroomVars, officeVars>>
     \/ core = "right"  /\ RightDoor!Next   /\ UNCHANGED <<bedroomVars, officeVars>>
     \/ core = "bed"    /\ BedroomNext      /\ UNCHANGED <<vars, officeVars>>
     \/ core = "bear"   /\ Bear!BedroomNext /\ UNCHANGED <<vars, officeVars>>
     \/ core = "office" /\ OfficeNext       /\ UNCHANGED <<vars, bedroomVars>>

CoresSpec == CoresInit /\ [][CoresNext]_all
===============================================================================
