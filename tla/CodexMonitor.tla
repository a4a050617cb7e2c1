------------------------------ MODULE CodexMonitor ------------------------------
(*****************************************************************************)
(* The codex-monitor program on the board (codex_monitor.c, main and what it  *)
(* calls): one loop that reads what the serial line has, takes complete       *)
(* lines out of it byte by byte, asks the host for a quota, redraws what      *)
(* changed and sleeps a second.  The host answers requests late, once, in     *)
(* part or never, and types other lines while it looks for an application.    *)
(*                                                                            *)
(* A quota frame travels as two cells, its head with the five-hour fields     *)
(* and its tail with the weekly ones; a line ends with the cell NL.  Times    *)
(* are differences to the program's clock, as in the code, and saturate.      *)
(*****************************************************************************)
EXTENDS Integers, Sequences

CONSTANTS
    Quotas,         \* the quotas a frame can carry
    NoQuota,        \* the state before the first frame
    NOW,            \* NOW[q]: the host's time in the frame that carries q
    Minute,         \* seconds of a minute
    Modes,          \* "serial" and "stdin": how the program may be started
    ReadMax,        \* bytes one read takes
    LineMax,        \* the longest line the program keeps
    RetryAfter,     \* seconds between requests while none is answered
    RefreshAfter,   \* seconds between requests otherwise
    StaleAfter,     \* the age after which a quota is STALE
    MaxPause,       \* the longest a pause of one second lasts
    Back,           \* how far the board's clock may once be set back
    MaxWire,        \* cells on the way to the board
    MaxAsks,        \* requests on the way to the host
    Tries,          \* requests the program makes before it says STALE
    MaxFaults       \* writes that fail, in part or whole

ASSUME TimeAssumption ==
    /\ {Minute, RetryAfter, RefreshAfter, StaleAfter, MaxPause} \subseteq Nat \ {0}
    /\ Back \in Nat
    /\ RefreshAfter < StaleAfter
ASSUME SizeAssumption ==
    {ReadMax, LineMax, MaxWire, MaxAsks, Tries} \subseteq Nat \ {0} /\ MaxFaults \in Nat
ASSUME QuotaAssumption ==
    NOW \in [Quotas -> Nat] /\ NoQuota \notin Quotas
\* Tries requests fit before the quota is STALE, even if each waits as long as
\* it can.  With the program's 60, 5 and 120 s and pauses of 1 s, 13 do.
ASSUME TriesAssumption ==
    Tries > 1 => RefreshAfter + MaxPause - 1 + (Tries - 2) * (RetryAfter + MaxPause - 1)
                   + RetryAfter - 1 <= StaleAfter
ASSUME ModeAssumption == Modes \subseteq {"serial", "stdin"}

Old == StaleAfter + MaxPause    \* ages are not told apart from here on

VARIABLES
    pc,             \* where the program is
    mode,
    resources,      \* what the program holds: the port, its raw mode, the display
    chunk,          \* bytes read, not yet looked at
    frame,          \* the line so far: frame and *length
    overflow,
    five, week,     \* the two halves of the quota; state.valid is five # NoQuota
    age,            \* now - last_receive_target (= sync_target_time)
    outstanding,    \* request_outstanding
    waited,         \* now - last_request_target
    asked,          \* requests since the last quota, up to Tries
    screen,         \* what is on the display
    last,           \* last_status, last_updated_age, last_header_minute
    wire,           \* cells on the way to the board
    asks,           \* whole requests the host has not read
    halfAsk,        \* a request lost its end
    came,           \* the line as the host sent it
    faults,         \* faults so far
    steppedBack     \* the clock was set back

board == <<mode, resources, frame, overflow, five, week, outstanding, screen, last>>
clock == <<age, waited, steppedBack>>
link == <<wire, asks, halfAsk, faults>>
vars == <<pc, board, chunk, clock, asked, came, link>>

NL == <<"NL", NoQuota>>
Junk == <<"junk", NoQuota>>
Quit == <<"quit", NoQuota>>
Head5(q) == <<"head", q>>
TailW(q) == <<"tail", q>>
Torn(q) == <<"torn", q>>      \* a head that was cut within a field

Valid == five # NoQuota

-----------------------------------------------------------------------------
(* The screen.                                                               *)

Wait == "WAIT"
Live == "LIVE"
Stale == "STALE"

update_age == IF ~Valid \/ age < 0 THEN 0 ELSE age

monitor_status == IF ~Valid THEN Wait
                  ELSE IF update_age > StaleAfter THEN Stale ELSE Live

(* The minute of the header's clock, and the one the loop compares: they      *)
(* differ when the clock was set back.                                        *)
HeaderMinute == IF ~Valid THEN 0 ELSE (NOW[week] + update_age) \div Minute
LoopMinute == IF ~Valid \/ age < 0 THEN 0 ELSE (NOW[week] + age) \div Minute

header == [status |-> monitor_status, quota |-> week, minute |-> HeaderMinute]
footer == [cards |-> week, age |-> IF Valid THEN update_age ELSE -1]
body == <<five, week>>

draw_header_footer == [screen EXCEPT !.header = header, !.footer = footer]
draw_screen == [header |-> header, body |-> body, footer |-> footer]

NothingDrawn == [header |-> [status |-> Wait, quota |-> NoQuota, minute |-> 0],
                 body |-> <<NoQuota, NoQuota>>,
                 footer |-> [cards |-> NoQuota, age |-> -1]]

-----------------------------------------------------------------------------
(* The lines.                                                                *)

Firsts(line, kind) == {i \in DOMAIN line : /\ line[i][1] = kind
                                           /\ \A j \in 1 .. i - 1 : line[j][1] # kind}

(* parse_quota_frame: the line starts with a frame's head and ends with '>',  *)
(* no field of it was torn, and the first field of a name is the one taken.   *)
Parses(line) == /\ line # <<>>
                /\ line[1][1] = "head"
                /\ line[Len(line)][1] \in {"tail", "quit"}
                /\ \E i \in DOMAIN line : line[i][1] = "tail"
                /\ \A i \in DOMAIN line : line[i][1] # "torn"
FiveOf(line) == line[1][2]
WeekOf(line) == line[CHOOSE i \in Firsts(line, "tail") : TRUE][2]

IsQuit(line) == line = <<Quit>>

-----------------------------------------------------------------------------
(* Starting and stopping.                                                    *)

Init == /\ pc = "start"
        /\ mode \in Modes
        /\ resources = {}
        /\ chunk = <<>> /\ frame = <<>> /\ overflow = FALSE
        /\ five = NoQuota /\ week = NoQuota
        /\ age = 0 /\ waited = 0 /\ asked = 0
        /\ outstanding = FALSE
        /\ screen = NothingDrawn
        /\ last = [status |-> "none", age |-> -1, minute |-> 0]
        /\ wire = <<>> /\ asks = 0 /\ halfAsk = FALSE /\ came = <<>>
        /\ faults = 0 /\ steppedBack = FALSE

(* input_backend_close, which leaves standard input alone, and fb_close.      *)
Input == {"port", "raw"}
Display == {"display"}
Exit(closed) == pc' = "exited" /\ resources' = resources \ closed

Still == UNCHANGED <<chunk, frame, overflow, five, week, age, waited, asked, outstanding,
                     screen, last, came, mode, steppedBack, link>>

(* serial_backend_open: the port, then its raw mode, then its flags; what     *)
(* fails undoes what was done.  Without --serial there is only standard       *)
(* input.                                                                     *)
OpenInput == /\ pc = "start"
             /\ \/ mode = "stdin" /\ pc' = "display" /\ UNCHANGED resources
                \/ mode = "serial" /\ pc' = "settings" /\ resources' = {"port"}
                \/ mode = "serial" /\ Exit({})
             /\ Still

SetRaw == /\ pc = "settings"
          /\ \/ pc' = "port flags" /\ resources' = resources \cup {"raw"}
             \/ Exit(Input)
          /\ Still

SetPortFlags == /\ pc = "port flags"
                /\ \/ pc' = "display" /\ UNCHANGED resources
                   \/ Exit(Input)
                /\ Still

(* fb_open: the display is mapped, or main closes the input again.            *)
OpenDisplay == /\ pc = "display"
               /\ \/ pc' = "flags" /\ resources' = resources \cup Display
                  \/ Exit(Input)
               /\ Still

(* The kernel has no room for the mapping: mmap of oabi_runtime.c returns     *)
(* -ENOMEM, which is not MAP_FAILED, and the first pixel kills the program.   *)
MapsNothing == /\ pc = "display"
               /\ pc' = "killed"
               /\ resources' = resources \cap {"raw"}
               /\ Still

-----------------------------------------------------------------------------
(* Requests.                                                                 *)

(* serial_send_request: the request goes out whole, in part, or not at all;   *)
(* nobody looks at which.  A request after a part of one completes its line   *)
(* and is lost with it.                                                       *)
SendRequest ==
    /\ \/ /\ halfAsk' = FALSE
          /\ asks' = IF halfAsk \/ asks = MaxAsks THEN asks ELSE asks + 1
          /\ UNCHANGED faults
       \/ /\ faults < MaxFaults /\ faults' = faults + 1
          /\ halfAsk' \in {halfAsk, TRUE}
          /\ UNCHANGED asks
    /\ asked' = IF asked = Tries THEN asked ELSE asked + 1

RequestSent == /\ outstanding' = TRUE /\ waited' = 0
               /\ SendRequest

\* Mutant: the terminal keeps its raw mode when the flags cannot be set.
StartLeavesRaw == /\ pc = "flags"
                  /\ Exit(Display)
                  /\ Still

(* Non-blocking input, the first screen and the first request.                *)
Start == /\ pc = "flags"
         /\ \/ /\ pc' = "read"
               /\ screen' = draw_screen
               /\ IF mode = "serial" THEN RequestSent
                  ELSE UNCHANGED <<outstanding, waited, asked, asks, halfAsk, faults>>
               /\ UNCHANGED resources
            \/ /\ Exit(Input \cup Display)
               /\ UNCHANGED <<screen, outstanding, waited, asked, asks, halfAsk, faults>>
         /\ UNCHANGED <<chunk, frame, overflow, five, week, age, last, came, mode,
                        steppedBack, wire>>

\* Mutant: an unanswered request is repeated no earlier than an answered one.
PatientInterval == IF Valid THEN StaleAfter ELSE RetryAfter

request_interval == IF outstanding \/ ~Valid THEN RetryAfter ELSE RefreshAfter

\* Mutant: the program waits for the answer to the request it made.
AskOnce == /\ pc = "ask"
           /\ pc' = "show"
           /\ IF mode = "serial" /\ ~outstanding /\ waited >= request_interval THEN RequestSent
              ELSE UNCHANGED <<outstanding, waited, asked, asks, halfAsk, faults>>
           /\ UNCHANGED <<resources, chunk, frame, overflow, five, week, age, screen, last, came,
                          mode, steppedBack, wire>>

Ask == /\ pc = "ask"
       /\ pc' = "show"
       /\ IF mode = "serial" /\ waited >= request_interval THEN RequestSent
          ELSE UNCHANGED <<outstanding, waited, asked, asks, halfAsk, faults>>
       /\ UNCHANGED <<resources, chunk, frame, overflow, five, week, age, screen, last, came,
                      mode, steppedBack, wire>>

-----------------------------------------------------------------------------
(* Input (process_input).                                                    *)

(* One read takes what has arrived, up to the size of the buffer.             *)
Read == /\ pc = "read"
        /\ IF wire = <<>> THEN pc' = "ask" /\ UNCHANGED <<chunk, wire>>
           ELSE \E n \in 1 .. Len(wire) :
                   /\ n <= ReadMax
                   /\ pc' = "bytes"
                   /\ chunk' = SubSeq(wire, 1, n)
                   /\ wire' = SubSeq(wire, n + 1, Len(wire))
        /\ UNCHANGED <<board, clock, asked, came, asks, halfAsk, faults>>

NextByte == /\ chunk' = Tail(chunk)
            /\ pc' = IF Len(chunk) = 1 THEN "ask" ELSE "bytes"

(* A byte of a line: kept while there is room.                                *)
Keep == /\ pc = "bytes" /\ Head(chunk) # NL
        /\ NextByte
        /\ came' = Append(came, Head(chunk))
        /\ IF Len(frame) < LineMax /\ ~overflow
           THEN frame' = Append(frame, Head(chunk)) /\ UNCHANGED overflow
           ELSE overflow' = TRUE /\ UNCHANGED frame
        /\ UNCHANGED <<resources, five, week, clock, asked, outstanding, screen, last, mode, link>>

LineEnds == pc = "bytes" /\ Head(chunk) = NL
\* Mutant: a line that was too long spoils the ones after it.
NextLineSpoiled == frame' = <<>> /\ came' = <<>> /\ UNCHANGED overflow

NextLine == frame' = <<>> /\ overflow' = FALSE /\ came' = <<>>

(* The line is the quit command: everything is closed, the rest of the chunk  *)
(* is dropped.                                                                *)
TakeQuit == /\ LineEnds /\ ~overflow /\ IsQuit(frame)
            /\ Exit(Input \cup Display)
            /\ chunk' = <<>>
            /\ UNCHANGED <<frame, overflow, five, week, clock, asked, outstanding, screen, last,
                           came, mode, link>>

(* The line is a quota: the state is replaced and everything is drawn.        *)
TakeQuota == /\ LineEnds /\ ~overflow /\ ~IsQuit(frame) /\ Parses(frame)
             /\ NextByte /\ NextLine
             /\ five' = FiveOf(frame) /\ week' = WeekOf(frame)
             /\ age' = 0
             /\ outstanding' = FALSE /\ asked' = 0
             /\ screen' = draw_screen'
             /\ UNCHANGED <<resources, waited, last, mode, steppedBack, link>>

DropLine == /\ LineEnds
            /\ overflow \/ ~(IsQuit(frame) \/ Parses(frame))
            /\ NextByte /\ NextLine
            /\ UNCHANGED <<resources, five, week, clock, asked, outstanding, screen, last,
                           mode, link>>

-----------------------------------------------------------------------------
(* The rest of the loop.                                                     *)

\* Mutant: the age of the quota is not looked at.
ChangedStatus == \/ monitor_status # last.status
                 \/ Valid /\ LoopMinute # last.minute

Changed == \/ monitor_status # last.status
           \/ Valid /\ update_age # last.age
           \/ ~Valid /\ last.age # -1
           \/ Valid /\ LoopMinute # last.minute

Show == /\ pc = "show"
        /\ pc' = "pause"
        /\ IF Changed
           THEN /\ screen' = draw_header_footer
                /\ last' = [status |-> monitor_status, minute |-> LoopMinute,
                            age |-> IF Valid THEN update_age ELSE -1]
           ELSE UNCHANGED <<screen, last>>
        /\ UNCHANGED <<resources, frame, overflow, five, week, outstanding, mode, chunk, clock,
                       asked, came, link>>

Later(t, d) == IF t + d > Old THEN Old ELSE t + d

(* The pause takes about a second, in which the clock may be set back; then   *)
(* the clock is read again.                                                   *)
Pause == /\ pc = "pause"
         /\ pc' = "read"
         /\ \/ /\ \E d \in 1 .. MaxPause : age' = Later(age, d) /\ waited' = Later(waited, d)
               /\ UNCHANGED steppedBack
            \/ /\ Back > 0 /\ ~steppedBack /\ steppedBack' = TRUE
               /\ age' = age - Back /\ waited' = waited - Back
         /\ UNCHANGED <<board, chunk, asked, came, link>>

-----------------------------------------------------------------------------
(* The host.                                                                 *)

Running == pc \notin {"exited", "killed"}

HostSends(cells) == /\ Running
                    /\ Len(wire) + Len(cells) <= MaxWire
                    /\ wire' = wire \o cells

(* Its answer to a request, whole.                                            *)
Answer == /\ asks > 0 /\ asks' = asks - 1
          /\ \E q \in Quotas : HostSends(<<Head5(q), TailW(q), NL>>)
          /\ UNCHANGED <<pc, board, chunk, clock, asked, came, halfAsk, faults>>

(* The write ends early: at a field's end or within a field, in the tail or   *)
(* just before the newline.                                                   *)
CutAnswer == /\ asks > 0 /\ asks' = asks - 1
             /\ faults < MaxFaults /\ faults' = faults + 1
             /\ \E q \in Quotas : \/ HostSends(<<Head5(q)>>)
                                  \/ HostSends(<<Torn(q)>>)
                                  \/ HostSends(<<Head5(q), TailW(q)>>)
             /\ UNCHANGED <<pc, board, chunk, clock, asked, came, halfAsk>>

(* The provider fails; the request stays unanswered.                          *)
NoAnswer == /\ asks > 0 /\ asks' = asks - 1
            /\ faults < MaxFaults /\ faults' = faults + 1
            /\ UNCHANGED <<pc, board, chunk, clock, asked, came, wire, halfAsk>>

(* A line for somebody else, longer than a frame may be or not.               *)
TypeLine == /\ \E n \in 1 .. LineMax + 1 : HostSends([i \in 1 .. n |-> Junk] \o <<NL>>)
            /\ faults < MaxFaults /\ faults' = faults + 1
            /\ UNCHANGED <<pc, board, chunk, clock, asked, came, asks, halfAsk>>

(* The stop command, once at a time.                                          *)
Stop == /\ \A i \in DOMAIN wire : wire[i] # Quit
        /\ HostSends(<<Quit, NL>>)
        /\ UNCHANGED <<pc, board, chunk, clock, asked, came, asks, halfAsk, faults>>

Board == \/ OpenInput \/ SetRaw \/ SetPortFlags \/ OpenDisplay \/ MapsNothing \/ Start
         \/ Read \/ Keep \/ TakeQuit \/ TakeQuota \/ DropLine \/ Ask \/ Show \/ Pause
Host == Answer \/ CutAnswer \/ NoAnswer \/ TypeLine \/ Stop
Next == Board \/ Host

(* The program runs; the host answers when it has been asked.                 *)
Fairness == WF_vars(Board) /\ WF_vars(Answer)
Spec == Init /\ [][Next]_vars /\ Fairness

-----------------------------------------------------------------------------
Cells == {NL, Junk, Quit} \cup {<<k, q>> : k \in {"head", "tail", "torn"}, q \in Quotas}

TypeOK ==
    /\ pc \in {"start", "settings", "port flags", "display", "flags", "read", "bytes", "ask",
               "show", "pause", "exited", "killed"}
    /\ mode \in Modes
    /\ resources \subseteq Input \cup Display
    /\ chunk \in Seq(Cells) /\ Len(chunk) <= ReadMax /\ (pc = "bytes" => chunk # <<>>)
    /\ frame \in Seq(Cells \ {NL}) /\ Len(frame) <= LineMax
    /\ came \in Seq(Cells \ {NL})
    /\ overflow \in BOOLEAN /\ outstanding \in BOOLEAN
    /\ five \in Quotas \cup {NoQuota} /\ week \in Quotas \cup {NoQuota}
    /\ age \in -Back .. Old /\ waited \in -Back .. Old /\ asked \in 0 .. Tries
    /\ wire \in Seq(Cells) /\ asks \in 0 .. MaxAsks /\ faults \in 0 .. MaxFaults
    /\ halfAsk \in BOOLEAN /\ steppedBack \in BOOLEAN

(* While the program sleeps, every part of the display shows what the state   *)
(* and the clock say, although the loop redraws only the header and the       *)
(* footer, and those only when one of three cached values changed (main,      *)
(* 723-739).                                                                  *)
ScreenTrue == pc = "pause" => screen = draw_screen

(* However the reads cut the stream, the program does with each line what it  *)
(* would do with the line as the host sent it: longer lines than it keeps are *)
(* dropped whole, the others become the quota or the quit they are            *)
(* (process_input).                                                           *)
LinesExact ==
    [][chunk # <<>> /\ Head(chunk) = NL /\ chunk' # chunk =>
         IF Len(came) <= LineMax /\ IsQuit(came) THEN pc' = "exited"
         ELSE IF Len(came) <= LineMax /\ Parses(came)
              THEN <<five', week'>> = <<FiveOf(came), WeekOf(came)>> /\ pc' # "exited"
              ELSE <<five', week'>> = <<five, week>> /\ pc' # "exited"]_vars

(* The two halves of the quota on the display are one frame's:                *)
(* parse_quota_frame takes a frame whole or not at all.                       *)
FramesWhole == five = week

(* The display says STALE only after the host was asked several times in      *)
(* vain, unless the clock was set back (request_interval against the 120      *)
(* seconds of monitor_status_for).                                            *)
AsksBeforeStale ==
    pc = "pause" /\ mode = "serial" /\ screen.header.status = Stale /\ ~steppedBack
        => asked = Tries

(* A program that ended by itself gave everything back, whatever it was doing *)
(* and wherever its start failed (main, serial_backend_open, process_input).  *)
TerminalRestored == pc = "exited" => resources = {}

(* A display that is not LIVE becomes LIVE again, although requests and       *)
(* answers get lost and the clock may be set back, unless the program ends:   *)
(* the retry never stops and a damaged line does not outlive its newline.     *)
Recovers == (mode = "serial" /\ screen.header.status # Live)
                ~> (screen.header.status = Live \/ ~Running)

(* A stop command that starts a line ends the program.                        *)
Coming == frame \o chunk \o wire
StopComing == \E i \in 1 .. Len(Coming) - 1 :
                 /\ Coming[i] = Quit /\ Coming[i + 1] = NL
                 /\ IF i = 1 THEN ~overflow ELSE Coming[i - 1] = NL
StopObeyed == StopComing ~> ~Running
=============================================================================
