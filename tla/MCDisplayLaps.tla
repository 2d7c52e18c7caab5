--------------------------- MODULE MCDisplayLaps ---------------------------
(* The instances of MCDisplayPlayer, with the history of what was shown. *)
EXTENDS DisplayLaps, MCDisplayPlayer
=============================================================================
