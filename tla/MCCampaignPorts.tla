---------------------------- MODULE MCCampaignPorts ----------------------------
(***************************************************************************)
(* A campaign through its ports, with an operator who may interrupt it: a   *)
(* night that rolls into the next, the one it rolls into, and the two that  *)
(* are picked from the title, the last with its dials.                      *)
(***************************************************************************)
EXTENDS CampaignPorts

FourToSeven == <<4, 5, 6, 7>>
FourAndFive == <<4, 5>>

ASSUME PortsAssumption
===============================================================================
