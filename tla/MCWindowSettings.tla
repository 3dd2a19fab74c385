--------------------------- MODULE MCWindowSettings ---------------------------
(* Stay-awake (put by the window), brightness (only moved by its jobs) and *)
(* Do Not Disturb, two values each, for TLC.                               *)
EXTENDS WindowSettings

CONSTANTS stay, bright, zen

MCRecorded == <<stay, bright, zen>>
MCQuiet    == <<stay>>
MCOurs     == [s \in {stay, bright, zen} |-> 1]

(* Where DndSlow is FALSE no zen_mode is ever in flight: DndLands is left  *)
(* to MCProgress, whose phone is a slow one.                               *)
PromptSpec == Init /\ [][Prompt]_vars /\ Fairness
=============================================================================
