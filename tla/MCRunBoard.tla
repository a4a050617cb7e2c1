------------------------------- MODULE MCRunBoard -------------------------------
(***************************************************************************)
(* An instance of RunBoard for TLC.  The server is asked less often than   *)
(* the quota provider, which every frame asks when time has passed.        *)
(***************************************************************************)
EXTENDS RunBoard

MCEvery == ("server" :> 2) @@ ("codex" :> 1)
=============================================================================
