------------------------- MODULE MCBoardController -------------------------
(***************************************************************************)
(* Instances of BoardController for TLC.                                   *)
(***************************************************************************)
EXTENDS BoardController, TLC

CONSTANTS m1, m2

MCMarkers == {m1, m2}
MCSymmetry == Permutations(MCMarkers)
MCModes == {"Unknown", "Console", "Application"}
MCUnknown == {"Unknown"}
MCCalls == {"start", "stop", "list", "status", "sync", "probe"}
=============================================================================
