------------------------- MODULE MCBoosterSettings -------------------------
(* BoosterSettings in two scenarios: one client that loads and saves, with a *)
(* crash or a failing write, and clients that only load, with none.          *)
EXTENDS BoosterSettings

CONSTANTS Sole   \* the client of the first scenario

VARIABLE scenario

MCInit == Init /\ scenario \in {"sole", "readers"}

\* Nobody else does anything.
SoleStep == scenario = "sole" /\ \A c \in Client \ {Sole} : pc'[c] = "idle"

\* Nobody saves and nothing fails.
ReaderStep == scenario = "readers" /\ saving' = {} /\ faults' = 0

MCNext == Next /\ (SoleStep \/ ReaderStep) /\ UNCHANGED scenario

MCSpec == MCInit /\ [][MCNext]_<<vars, scenario>>
=============================================================================
