----------------------------- MODULE MCCodexMonitor -----------------------------
(***************************************************************************)
(* An instance of CodexMonitor for TLC, with the program's times scaled     *)
(* down: they keep their order and their ratio is what AsksBeforeStale      *)
(* needs.                                                                   *)
(***************************************************************************)
EXTENDS CodexMonitor, TLC

CONSTANTS q1, q2

MCQuotas == {q1, q2}
MCNOW == (q1 :> 1) @@ (q2 :> 2)
=============================================================================
