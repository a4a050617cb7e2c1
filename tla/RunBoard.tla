-------------------------------- MODULE RunBoard --------------------------------
(*****************************************************************************)
(* The runboard feed as a whole: the host's session writes a frame at         *)
(* intervals (ApplicationProviderSessions.cs) from what the aggregator knows  *)
(* (RunBoardHost), the line may lose a run of bytes of it, and the program on *)
(* the board shows it (RunBoardTarget, RunBoardScreen).  To stop, the host    *)
(* ends its session and writes the quit line, which may be repeated.          *)
(*****************************************************************************)
EXTENDS RunBoardHost, RunBoardTarget

CONSTANTS PauseMax,  \* bound: intervals between two frames
          WireMax,   \* bound: cells on the wire
          Lossy,     \* bound: the first lines written, which may lose bytes
          MaxQuits   \* bound: quit lines written

VARIABLES host,   \* the session: "waiting", "sending" or "stopped"
          written, quits

vars == <<hostVars, targetVars, host, written, quits>>
sessionVars == <<host, written, quits>>

Init == HostInit /\ TargetInit /\ host = "sending" /\ written = 0 /\ quits = 0

-----------------------------------------------------------------------------
(* The line.                                                                 *)

(* What encode_state writes: head with the length, payload, checksum.         *)
FrameLine(frame) == Cells("head", frame, 1) \o Payload(frame)
                    \o Cells("tail", frame, 1) \o <<Newline>>

(* The cells that arrive: all of them, or all but one run.                    *)
Without(cells, i, j) == SubSeq(cells, 1, i - 1) \o SubSeq(cells, j + 1, Len(cells))
Write(cells) ==
    /\ Len(wire) + Len(cells) <= WireMax
    /\ written' = IF written < Lossy THEN written + 1 ELSE written
    /\ \/ wire' = wire \o cells
       \/ /\ written < Lossy
          /\ \E i, j \in 1 .. Len(cells) : i <= j /\ wire' = wire \o Without(cells, i, j)
    /\ UNCHANGED <<phase, resources, line, overflow, shown>>

-----------------------------------------------------------------------------
(* The session's loop: it waits for its interval, or longer while a provider  *)
(* keeps it, and sends a frame; by then the program, which reads a frame in   *)
(* seconds, has read the last one.                                            *)
Wait ==
    /\ host = "waiting" /\ host' = "sending"
    /\ phase = "running" /\ wire = <<>>
    /\ \E time \in 1 .. PauseMax : Pass(time)
    /\ UNCHANGED <<targetVars, written, quits>>

SendFrame ==
    /\ host = "sending" /\ host' = "waiting"
    /\ phase # "exited" /\ UNCHANGED quits
    /\ \E outcome \in Outcomes, reading \in Readings : Collect(outcome, reading)
    /\ Write(FrameLine(Frame'))

StopSession ==
    /\ host \in {"waiting", "sending"} /\ host' = "stopped"
    /\ HostGone
    /\ UNCHANGED <<targetVars, written, quits>>

WriteQuit ==
    /\ host = "stopped" /\ quits < MaxQuits /\ quits' = quits + 1
    /\ Write(<<Quit, Newline>>)
    /\ UNCHANGED <<hostVars, host>>

SetBack == host = "waiting" /\ StepBack /\ UNCHANGED <<targetVars, sessionVars>>
Target == /\ UNCHANGED <<hostVars, sessionVars>>
          /\ OpenFramebuffer \/ OpenSerial \/ MapsNothing \/ Read \/ EndLine \/ QuitLine

Next == SetBack \/ Wait \/ SendFrame \/ StopSession \/ WriteQuit \/ Target

(* Fairness: the program's loop never ends by itself and its reads return     *)
(* what has arrived; the session's loop sends again after each interval.      *)
Spec == Init /\ [][Next]_vars /\ WF_vars(Target) /\ WF_vars(Wait) /\ WF_vars(SendFrame)

-----------------------------------------------------------------------------
(* Properties.                                                               *)

Screen == INSTANCE RunBoardScreen

Late == IF stepped THEN Back ELSE 0

(* A frame calls a provider fresh only if it was asked, with success, less    *)
(* than its interval ago, and the age in it is no younger than the server's   *)
(* data; a clock set back adds no more than its step to either                *)
(* (RunBoardAggregator.collect, FreshnessTracker, _updated_age_seconds).      *)
FrameIsRecent ==
    /\ \A p \in Providers : state[p] = "fresh" => age[p] < Every[p] + Late
    /\ "server" \in DOMAIN age => updated_age_seconds + Late >= age["server"]
FreshIsRecent == [][host = "sending" /\ host' = "waiting" => FrameIsRecent']_vars

(* All parts of what the screen shows come from one frame, whatever run of    *)
(* bytes was lost within it or between two frames (parse_rb1).                *)
ShownWhole == shown # Nothing => shown["server"] = shown["codex"]

(* The state that draw_screen is given, as far as the page depends on it.     *)
LocalState ==
    IF shown = Nothing
    THEN [valid |-> FALSE, server_status |-> "offline", server_freshness |-> "offline",
          experiment_count |-> 0, matrix_total |-> -1]
    ELSE LET frame == shown["server"]
         IN  [valid |-> TRUE, server_status |-> frame.status,
              server_freshness |-> frame.fresh["server"],
              experiment_count |-> IF frame.experiments = "none" THEN 0 ELSE 2,
              matrix_total |-> -1]

(* If the server stays away, the screen says so in the end and goes on saying *)
(* so, while frames are sent that fit the program's buffer: it has no other   *)
(* way to know, for it never ages what it shows (FreshnessTracker.failure,    *)
(* server_badge, draw_screen).                                                *)
OutageShown ==
    /\ <>[][~ServerAnswers]_vars
    /\ <>[](kept # "long" /\ host # "stopped" /\ phase = "running")
    => <>[](Screen!server_badge(LocalState) = "OFFLINE")

(* A quit line that reaches the program as a line of its own ends it, with    *)
(* the serial line and the screen given back (main, is_quit).                 *)
Arriving == line \o wire
QuitArrives ==
    /\ phase = "running"
    /\ \E i \in 1 .. Len(Arriving) - 1 :
          /\ Arriving[i] = Quit /\ Arriving[i + 1] = Newline
          /\ IF i = 1 THEN ~overflow ELSE Arriving[i - 1] = Newline
QuitStops == QuitArrives ~> (phase = "exited" /\ resources = {})

(* The card of a second experiment is shown beside the first one only, and    *)
(* touches no other page (draw_screen, draw_footer; docs/runboard/README.md   *)
(* lines 153-154 give the offline page to the server's absence).              *)
SecondCardApart == Screen!HasSecondCard(LocalState) => Screen!Page(LocalState) = "experiment"
=============================================================================
