-------------------------- MODULE MCProviderSession --------------------------
(***************************************************************************)
(* Instances of ProviderSession for TLC.                                   *)
(***************************************************************************)
EXTENDS ProviderSession

CONSTANTS w1, w2

MCWorkers == {w1, w2}
=============================================================================
