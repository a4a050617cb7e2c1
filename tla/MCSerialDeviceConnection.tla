---------------------- MODULE MCSerialDeviceConnection ----------------------
(***************************************************************************)
(* Instances of SerialDeviceConnection for TLC: the real applications and  *)
(* two transport objects, so that a dead transport and its successor       *)
(* coexist.  A closed transport is used again under the same name, hence   *)
(* the number of reconnects is not bounded.                                *)
(***************************************************************************)
EXTENDS SerialDeviceConnection, TLC

CONSTANTS codex, runboard, t1, t2

MCBoardApps == {codex, runboard}
MCOffered == {codex, Qtopia}
MCQtopiaOnly == {Qtopia}
MCCalls == {"connect", "disconnect", "switch"}
MCWindowCalls == {"connect", "switch", "close"}
MCFrameFirst == {runboard}
MCTransportIds == {t1, t2}
MCSymmetry == Permutations(MCTransportIds)
=============================================================================
