------------------------------ MODULE MCAppctl ------------------------------
(***************************************************************************)
(* Instances of Appctl for TLC: the serial console, where the host types,  *)
(* alone, or with an independent channel for qtopia, or for stop, too.     *)
(* One application is not registered.  Four process numbers let a stale    *)
(* one survive in a file while both terminals run appctl.                  *)
(***************************************************************************)
EXTENDS Appctl

CONSTANTS codex, runboard, typo, p1, p2, p3, p4

MCApps == {codex, runboard, typo}
MCRegistered == {codex, runboard}
MCPids == {p1, p2, p3, p4}
MCTerminals == {"console", "channel"}
MCConsoleOnly == [console |-> {"start", "stop", "qtopia"}, channel |-> {}]
MCWithQtopia == [console |-> {"start", "stop", "qtopia"}, channel |-> {"qtopia"}]
MCWithStop == [console |-> {"start", "qtopia"}, channel |-> {"stop", "qtopia"}]
=============================================================================
