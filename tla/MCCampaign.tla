------------------------------ MODULE MCCampaign ------------------------------
(* Night 6 and Custom Night 7, which is reached through its own menu.       *)
EXTENDS Campaign

MCNights == <<6, 7>>
=============================================================================
