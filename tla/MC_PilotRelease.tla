--------------------------- MODULE MC_PilotRelease ---------------------------
(* Finite instances of PilotRelease for TLC.                                    *)
EXTENDS PilotRelease
=============================================================================
