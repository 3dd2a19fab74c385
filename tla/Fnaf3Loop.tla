------------------------------- MODULE Fnaf3Loop -------------------------------
(***************************************************************************)
(* The two halves of the FNaF 3 loop on the handset, side by side: the      *)
(* systems it reboots and the animatronic it tracks.                        *)
(***************************************************************************)
EXTENDS Fnaf3Systems, Fnaf3Track

(* FNaF 3's service says done only when nothing it took is left rebooting,  *)
(* and gives no menu up while it is seen open: the exits outlast the        *)
(* longest reboot. What its loop believes of the vents is what the game     *)
(* did, and he is not given up on one look that missed him.                 *)
BeliefFollowsTheGame ==
  /\ DoneMeansRebooted /\ MenuOutlasted
  /\ SealBelief /\ OneMissIsNotLost
===============================================================================
