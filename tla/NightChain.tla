------------------------------ MODULE NightChain ------------------------------
(***************************************************************************)
(* What a campaign promises about the nights it was asked for, whatever    *)
(* the ports answer and however often it is held and resumed:              *)
(*                                                                         *)
(*  - the nights are won one at a time and in order, each by a play of     *)
(*    that very night;                                                     *)
(*  - a night gets Budget plays, and a play that tested nothing is         *)
(*    refunded;                                                            *)
(*  - a verdict is final, and COMPLETE means every night was won.          *)
(*                                                                         *)
(* Campaign implements this specification; see Campaign.Chain.             *)
(***************************************************************************)
EXTENDS Naturals

CONSTANTS
  Length,   (* how many nights the campaign has                            *)
  Budget    (* plays a night may spend                                     *)

VARIABLES
  won,      (* nights won so far                                           *)
  spent,    (* plays of the next night that count against its budget       *)
  playing,  (* a play of the next night is open                            *)
  verdict   (* "open", "aborted" or "complete"                             *)

chain == <<won, spent, playing, verdict>>

Init == won = 0 /\ spent = 0 /\ ~playing /\ verdict = "open"

(* A play is opened while the budget allows it. One that was open and      *)
(* never judged -- the campaign was held on it -- stays spent.             *)
Play ==
  /\ verdict = "open" /\ won < Length /\ spent < Budget
  /\ spent' = spent + 1 /\ playing' = TRUE
  /\ UNCHANGED <<won, verdict>>

Judge ==
  /\ playing /\ playing' = FALSE
  /\ \/ UNCHANGED <<won, spent, verdict>>                       (* lost     *)
     \/ spent' = spent - 1 /\ UNCHANGED <<won, verdict>>        (* refunded *)
     \/ /\ won' = won + 1 /\ spent' = 0                         (* won      *)
        /\ verdict' = IF won' = Length THEN "complete" ELSE verdict

Abort ==
  /\ verdict = "open" /\ verdict' = "aborted"
  /\ UNCHANGED <<won, spent, playing>>

Next == Play \/ Judge \/ Abort

Spec == Init /\ [][Next]_chain
=============================================================================
