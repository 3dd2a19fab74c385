---------------------------- MODULE SettingsEscrow ----------------------------
(***************************************************************************)
(* What an overnight window promises the phone's owner about his settings: *)
(* they are put in escrow before anything changes them, nothing is added   *)
(* to or taken from what is held, and it is given up only once every       *)
(* setting is back as it was held -- whoever opens, kills or recovers the  *)
(* windows.  Do Not Disturb is held only if the owner had it off; a DND of *)
(* his own stays his.                                                      *)
(*                                                                         *)
(* WindowSettings implements this specification.                           *)
(***************************************************************************)
CONSTANTS
  Settings, Values, Dnd, DndOff,
  NoRecord

VARIABLES
  phone,    (* the settings as they are on the phone                       *)
  pending   (* the owner's settings, in escrow, or NoRecord                *)

escrow == <<phone, pending>>

Held(record) == {s \in Settings : s # Dnd \/ record[s] = DndOff}

Init == phone \in [Settings -> Values] /\ pending = NoRecord

(* Nothing is held: only the owner moves a setting.                        *)
OwnersOwn ==
  /\ pending = NoRecord
  /\ phone' \in [Settings -> Values]
  /\ UNCHANGED pending

(* The settings are taken into escrow exactly as they are. *)
Take ==
  /\ pending = NoRecord
  /\ pending' = phone
  /\ UNCHANGED phone

(* The phone is used: what is held stays as it was taken. *)
Use ==
  /\ pending # NoRecord
  /\ phone' \in [Settings -> Values]
  /\ UNCHANGED pending

(* Everything held is back. *)
GiveUp ==
  /\ pending # NoRecord
  /\ \A s \in Held(pending) : phone[s] = pending[s]
  /\ pending' = NoRecord
  /\ UNCHANGED phone

Next == OwnersOwn \/ Take \/ Use \/ GiveUp

Spec == Init /\ [][Next]_escrow
=============================================================================
