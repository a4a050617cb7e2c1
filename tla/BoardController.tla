-------------------------- MODULE BoardController --------------------------
(***************************************************************************)
(* The host's dialogues with the board over the serial line                *)
(* (BoardController.cs), together with the board at the other end: the     *)
(* shell, appctl running an application in the foreground, and that        *)
(* application.  All of them share one UART, so a line the host types is   *)
(* read by whoever owns the terminal when it arrives.                      *)
(*                                                                         *)
(* A text line is a symbol for its head and one for its end: the host      *)
(* polls, so a chunk it reads may end inside a line.  Every loop of the    *)
(* code that polls until a deadline is a reading step, repeated at will,   *)
(* and a step that gives up.  The pending buffer's limit of 1024           *)
(* characters is left out: no line here comes near it.                     *)
(***************************************************************************)
EXTENDS Naturals, FiniteSets, Sequences, FiniteSetsExt

CONSTANTS
    Markers,    \* console markers; the code makes a fresh one from the clock
    NoMarker,   \* the marker of a line that has none
    Confirmed,  \* modes in which callers create a controller
    Calls,      \* methods they call
    MaxTyped,   \* bound: lines typed and not yet read before a new call
    MaxHeard    \* bound: symbols the host has not read before a new call or more chatter

ASSUME ControllerAssumption ==
    /\ NoMarker \notin Markers
    /\ Confirmed \subseteq {"Unknown", "Console", "Application"}
    /\ Calls \subseteq {"start", "stop", "list", "status", "sync", "probe"}
    /\ {MaxTyped, MaxHeard} \subseteq Nat

VARIABLES
    mode,     \* Mode
    given,    \* the mode the caller confirmed when it made the controller
    pending,  \* pending: symbols read and not yet consumed as lines
    call,     \* the method that runs: its name, where it stands, its marker
    answer,   \* what the last method returned
    fresh,    \* has this controller not been used yet?
    stdin,    \* lines typed by the host that nobody has read yet
    rx,       \* symbols on their way to the host
    board,    \* who owns the terminal: shell, launch (appctl before APPREADY), app, exit
    ran       \* has the application owned the terminal since the call began?

hostVars == <<mode, given, pending, call, answer, fresh>>
boardVars == <<board, ran>>
vars == <<hostVars, stdin, rx, boardVars>>

-----------------------------------------------------------------------------
(* Lines and symbols.                                                      *)

Line(kind) == [kind |-> kind, marker |-> NoMarker]
Marker(m)  == [kind |-> "marker", marker |-> m]
Echo(m)    == [kind |-> "echo", marker |-> m]
Echoed(m)  == [kind |-> "echoed", marker |-> m]   \* typed, and echoed already

Typed == {Line(k) : k \in {"start", "quit", "list", "status"}} \cup {Marker(m) : m \in Markers}
            \cup {Echoed(m) : m \in Markers}
Heard == {Line(k) : k \in {"ready", "stopped", "request", "idle", "text"}}
            \cup {Marker(m) : m \in Markers} \cup {Echo(m) : m \in Markers}
Symbols == [line : Heard, part : {"head", "end"}]

Text(l) == <<[line |-> l, part |-> "head"], [line |-> l, part |-> "end"]>>

\* ReadLines: the positions where a line ends, the line that ends there, and
\* what is left over.  Symbols of different lines run together are just text.
Ends(buf) == {i \in DOMAIN buf : buf[i].part = "end"}
LineAt(buf, i) ==
    IF /\ i > 1 /\ buf[i-1] = [line |-> buf[i].line, part |-> "head"]
       /\ i > 2 => buf[i-2].part = "end"
    THEN buf[i].line ELSE Line("text")
LastEnd(buf) == Max(Ends(buf) \cup {0})
Partial(buf) == SubSeq(buf, LastEnd(buf) + 1, Len(buf))
Lines(buf, S) == {i \in Ends(buf) : LineAt(buf, i) \in S}

Traffic == {Line("request")}
Requests(n) == [i \in 1..2*n |-> Text(Line("request"))[IF i % 2 = 1 THEN 1 ELSE 2]]

-----------------------------------------------------------------------------
NoCall == [name |-> "none", pc |-> "idle", marker |-> NoMarker]
Pcs == {"idle", "observe", "decide", "sync", "ready", "stopping", "output"}

TypeOK ==
    /\ {mode, given} \subseteq {"Unknown", "Console", "Application"}
    /\ pending \in Seq(Symbols) /\ rx \in Seq(Symbols)
    /\ call \in [name : Calls \cup {"none"}, pc : Pcs, marker : Markers \cup {NoMarker}]
    /\ answer \in [name : Calls \cup {"none"}, ok : BOOLEAN]
    /\ stdin \in Seq(Typed)
    /\ board \in {"shell", "launch", "app", "exit"}
    /\ {fresh, ran} \subseteq BOOLEAN

NoAnswer == [name |-> "none", ok |-> FALSE]

\* The port may be opened in the middle of a line the application writes.
Init ==
    /\ mode \in Confirmed /\ given = mode /\ pending = <<>> /\ fresh = TRUE
    /\ call = NoCall /\ answer = NoAnswer
    /\ stdin = <<>>
    /\ board \in {"shell", "app"} /\ ran = (board = "app")
    /\ rx \in {<<>>} \cup (IF board = "app" THEN {Tail(Text(Line("request")))} ELSE {})

-----------------------------------------------------------------------------
(* The host.                                                               *)

Goto(pc) == call' = [call EXCEPT !.pc = pc] /\ UNCHANGED answer
Return(ok) == call' = NoCall /\ answer' = [name |-> call.name, ok |-> ok]

Type(lines) == stdin' = stdin \o lines

\* DateTime.UtcNow.Ticks: a marker that is nowhere in flight.
Fresh(m) ==
    LET inFlight(s) == \E i \in DOMAIN s : s[i].marker = m
        inBuffer(b) == \E i \in DOMAIN b : b[i].line.marker = m
    IN  ~(inFlight(stdin) \/ inBuffer(rx) \/ inBuffer(pending))

TypeMarker ==
    \E m \in Markers :
        /\ Fresh(m)
        /\ Type(<<Marker(m)>>)
        /\ call' = [call EXCEPT !.pc = "sync", !.marker = m]
        /\ UNCHANGED answer

\* A controller for the next operation; unread input of the old one is lost.
NewController(m) ==
    /\ call = NoCall /\ ~fresh
    /\ fresh' = TRUE
    /\ mode' = m /\ given' = m /\ pending' = <<>> /\ answer' = NoAnswer
    /\ UNCHANGED <<call, stdin, rx, boardVars>>

\* Callers start or probe with a new controller; the other calls may follow.
\* Nobody starts after confirming an application, or stops after confirming a
\* console; "probe" is Probe's Observe and SyncConsole in a row.
Begin(name) ==
    /\ call = NoCall
    /\ name = "start" => fresh /\ mode # "Application"
    /\ name = "stop" => mode # "Console"
    /\ name = "probe" => fresh /\ mode = "Unknown"
    /\ Len(stdin) <= MaxTyped /\ Len(rx) <= MaxHeard
    /\ fresh' = FALSE /\ answer' = NoAnswer /\ ran' = (board = "app")
    /\ call' = [name |-> name, marker |-> NoMarker,
                pc |-> IF mode = "Unknown" /\ name # "sync" THEN "observe" ELSE "decide"]
    /\ UNCHANGED <<mode, given, pending, stdin, rx, board>>

\* The mode decides; Unknown is fail-closed.
Decide ==
    /\ call.pc = "decide"
    /\ \/ /\ \/ call.name = "start" /\ mode = "Application"
             \/ call.name = "stop" /\ mode = "Console"
          /\ Return(TRUE) /\ UNCHANGED stdin
       \/ /\ \/ call.name \in {"start", "list", "status"} /\ mode = "Console"
             \/ call.name = "probe" /\ mode # "Application"
             \/ call.name = "sync"
          /\ TypeMarker
       \/ /\ call.name = "stop" /\ mode = "Application"
          /\ Type(<<Line("quit")>>) /\ Goto("stopping")
       \/ /\ \/ call.name \in {"list", "status"} /\ mode # "Console"
             \/ call.name \in {"start", "stop"} /\ mode = "Unknown"
             \/ call.name = "probe" /\ mode = "Application"
          /\ Return(FALSE) /\ UNCHANGED stdin
    /\ UNCHANGED <<mode, given, pending, fresh, rx, boardVars>>

\* ReadAvailable returns a prefix of what is there (the rest is still to come).
Chunk(n) == pending \o SubSeq(rx, 1, n)
Read(n, left) ==
    /\ rx' = SubSeq(rx, n + 1, Len(rx))
    /\ pending' = left

\* Observe keeps every request line, behind what is left over; any other line
\* that is not a lifecycle line is taken for the console's.
ObserveReads(n) ==
    LET buf == Chunk(n)
        requests == Lines(buf, Traffic)
        others == Lines(buf, Heard \ (Traffic \cup {Line("ready"), Line("stopped")}))
    IN  /\ call.pc = "observe"
        /\ Read(n, Partial(buf) \o Requests(Cardinality(requests)))
        /\ mode' = IF requests # {} THEN "Application"
                   ELSE IF others # {} THEN "Console" ELSE mode
        /\ IF mode' = "Application" THEN Goto("decide") ELSE UNCHANGED <<call, answer>>
        /\ UNCHANGED <<given, fresh, stdin, boardVars>>

ObserveEnds ==
    /\ call.pc = "observe" /\ Goto("decide")
    /\ UNCHANGED <<mode, given, pending, fresh, stdin, rx, boardVars>>

\* Mutant: the terminal's echo of the marker counts (the former IndexOf).
MarkerLinesWithEcho(m) == {Marker(m), Echo(m)}

\* IsMarkerLine: only the line the shell itself printed.
MarkerLines(m) == {Marker(m)}

\* SyncConsole, up to a request (the application owns the board) or the
\* marker; the other lines of that chunk are dropped.  What follows depends
\* on the method that synchronises.  The command of a list or status and the
\* marker behind it are two writes in a row; nothing else writes in between,
\* and what the board does between them it can as well do after both.
SyncReads(n) ==
    LET buf == Chunk(n)
        hits == Lines(buf, Traffic \cup MarkerLines(call.marker))
        lost == hits # {} /\ LineAt(buf, Min(hits)) \in Traffic
    IN  /\ call.pc = "sync"
        /\ Read(n, Partial(buf) \o IF lost THEN Text(Line("request")) ELSE <<>>)
        /\ \/ hits = {} /\ UNCHANGED <<mode, call, answer, stdin>>
           \/ lost /\ mode' = "Application" /\ Return(FALSE) /\ UNCHANGED stdin
           \/ /\ hits # {} /\ ~lost
              /\ mode' = "Console"
              /\ CASE call.name = "start" -> Type(<<Line("start")>>) /\ Goto("ready")
                   [] call.name \in {"list", "status"} ->
                         Type(<<Line(call.name), Marker(call.marker)>>) /\ Goto("output")
                   [] OTHER -> Return(TRUE) /\ UNCHANGED stdin
        /\ UNCHANGED <<given, fresh, boardVars>>

\* Mutant: any line counts as APPREADY.
ReadyReadsAnything(n) ==
    LET buf == Chunk(n) IN
    /\ call.pc = "ready"
    /\ Read(n, Partial(buf))
    /\ IF Ends(buf) = {} THEN UNCHANGED <<mode, call, answer>>
       ELSE mode' = "Application" /\ Return(TRUE)
    /\ UNCHANGED <<given, fresh, stdin, boardVars>>

\* Mutant: the ready application does not change the mode.
ReadyReadsForgets(n) ==
    LET buf == Chunk(n)
        hits == Lines(buf, Traffic \cup {Line("ready")})
    IN  /\ call.pc = "ready"
        /\ Read(n, Partial(buf))
        /\ UNCHANGED mode
        /\ IF hits = {} THEN UNCHANGED <<call, answer>> ELSE Return(TRUE)
        /\ UNCHANGED <<given, fresh, stdin, boardVars>>

\* StartApplication waits for APPREADY or a request and keeps what follows it.
ReadyReads(n) ==
    LET buf == Chunk(n)
        hits == Lines(buf, Traffic \cup {Line("ready")})
        rest == IF hits = {} THEN <<>> ELSE SubSeq(buf, Min(hits) + 1, LastEnd(buf))
    IN  /\ call.pc = "ready"
        /\ Read(n, Partial(buf) \o rest)
        /\ IF hits = {} THEN UNCHANGED <<mode, call, answer>>
           ELSE mode' = "Application" /\ Return(TRUE)
        /\ UNCHANGED <<given, fresh, stdin, boardVars>>

\* StopApplication waits for APPSTOP, then synchronises with the console.
StopReads(n) ==
    LET buf == Chunk(n) IN
    /\ call.pc = "stopping"
    /\ Read(n, Partial(buf))
    /\ IF Lines(buf, {Line("stopped")}) = {} THEN UNCHANGED <<mode, call, answer, stdin>>
       ELSE mode' = "Console" /\ TypeMarker
    /\ UNCHANGED <<given, fresh, boardVars>>

\* ListApplications collects lines up to the marker; QueryStatus wants a
\* status line before it.
OutputReads(n) ==
    LET buf == Chunk(n)
        status == IF call.name = "status" THEN {Line("idle")} ELSE {}
        hits == Lines(buf, status \cup MarkerLines(call.marker))
    IN  /\ call.pc = "output"
        /\ Read(n, Partial(buf))
        /\ IF hits = {} THEN UNCHANGED <<call, answer>>
           ELSE Return(call.name = "list" \/ LineAt(buf, Min(hits)) = Line("idle"))
        /\ UNCHANGED <<mode, given, fresh, stdin, boardVars>>

TimesOut ==
    /\ call.pc \in {"sync", "ready", "stopping", "output"}
    /\ Return(FALSE)
    /\ UNCHANGED <<mode, given, pending, fresh, stdin, rx, boardVars>>

HostStep ==
    \/ (\E m \in Confirmed : NewController(m)) \/ (\E name \in Calls : Begin(name))
    \/ Decide \/ ObserveEnds \/ TimesOut
    \/ \E n \in 1..Len(rx) :
          \/ ObserveReads(n) \/ SyncReads(n) \/ ReadyReads(n) \/ StopReads(n) \/ OutputReads(n)

-----------------------------------------------------------------------------
(* The board.                                                              *)

Say(line) == rx' = rx \o Text(line)
SayBoth(first, second) == rx' = rx \o (Text(first) \o Text(second))

\* The terminal echoes a line when it arrives, whoever owns it, or the shell
\* does when it reads it.  Only a marker's echo is told from other text.
TerminalEchoes ==
    LET typed == {i \in DOMAIN stdin : stdin[i].kind = "marker"}
        i == Min(typed)
    IN  /\ typed # {}
        /\ Say(Echo(stdin[i].marker))
        /\ stdin' = [stdin EXCEPT ![i] = Echoed(@.marker)]
        /\ UNCHANGED <<hostVars, boardVars>>

\* The shell runs one line: echo <marker>, appctl, or an unknown word.
ShellReads ==
    /\ board = "shell" /\ stdin # <<>>
    /\ stdin' = Tail(stdin)
    /\ LET l == Head(stdin) IN
          /\ board' = IF l.kind = "start" THEN "launch" ELSE "shell"
          /\ CASE l.kind = "marker" -> SayBoth(Echo(l.marker), l)
               [] l.kind = "echoed" -> Say(Marker(l.marker))
               [] l.kind = "status" -> SayBoth(Line("text"), Line("idle"))
               [] OTHER             -> Say(Line("text"))
    /\ UNCHANGED <<hostVars, ran>>

\* start_app: Qtopia is killed, then APPREADY and the application; or an
\* early return before either.
Launches ==
    /\ board = "launch"
    /\ \/ board' = "app" /\ ran' = TRUE /\ Say(Line("ready"))
       \/ board' = "shell" /\ UNCHANGED ran /\ Say(Line("text"))
    /\ UNCHANGED <<hostVars, stdin>>

\* The application knows its quit frame and ignores other lines.
AppReads ==
    /\ board = "app" /\ stdin # <<>>
    /\ stdin' = Tail(stdin)
    /\ board' = IF Head(stdin).kind = "quit" THEN "exit" ELSE "app"
    /\ UNCHANGED <<hostVars, rx, ran>>

AppRequests ==
    /\ board = "app" /\ Len(rx) <= MaxHeard
    /\ Say(Line("request"))
    /\ UNCHANGED <<hostVars, stdin, boardVars>>

AppExits ==
    /\ board = "app" /\ board' = "exit"
    /\ UNCHANGED <<hostVars, stdin, rx, ran>>

\* The end of start_app: Qtopia is restored and APPSTOP printed.
AppctlEnds ==
    /\ board = "exit" /\ board' = "shell"
    /\ Say(Line("stopped"))
    /\ UNCHANGED <<hostVars, stdin, ran>>

\* The kernel and Qtopia write to the same console.
Chatter ==
    /\ Len(rx) <= MaxHeard
    /\ Say(Line("text"))
    /\ UNCHANGED <<hostVars, stdin, boardVars>>

BoardStep ==
    \/ TerminalEchoes \/ ShellReads \/ Launches \/ AppReads \/ AppRequests
    \/ AppExits \/ AppctlEnds \/ Chatter

Next == HostStep \/ BoardStep
Spec == Init /\ [][Next]_vars

-----------------------------------------------------------------------------
(* Properties.                                                             *)

(***************************************************************************)
(* The start command is only ever read by an idle shell: never typed into  *)
(* a running application, never queued twice, however many earlier         *)
(* dialogues timed out and left lines in flight.                           *)
(***************************************************************************)
StartMeetsShell ==
    LET starts(s) == {i \in DOMAIN s : s[i] = Line("start")} IN
    /\ Cardinality(starts(stdin)) <= 1
    /\ starts(stdin) # {} => board = "shell"

(***************************************************************************)
(* StartApplication returns true only if the application owned the board   *)
(* at some time since the call: a late APPREADY or request of an earlier   *)
(* dialogue is not taken for this one's.  (For a caller that confirmed the *)
(* mode, as the host does in a switch.)                                    *)
(***************************************************************************)
StartIsTrue == answer = [name |-> "start", ok |-> TRUE] /\ given # "Unknown" => ran

(***************************************************************************)
(* A synchronised or probed console, a list and a status are true of the   *)
(* board: no application owns the UART when they return, although late     *)
(* lines of earlier dialogues may answer them.                             *)
(***************************************************************************)
ConsoleIsTrue ==
    answer.ok /\ answer.name \in {"list", "status", "sync", "probe"} => board = "shell"

(***************************************************************************)
(* StopApplication returns true only if no application owns the UART, if   *)
(* the caller confirmed the mode, as the host does in a switch.            *)
(***************************************************************************)
StopIsTrue ==
    answer = [name |-> "stop", ok |-> TRUE] /\ given # "Unknown" => board = "shell"

(***************************************************************************)
(* What a method answers is true of the board, whatever lines earlier      *)
(* dialogues left on the line (StartApplication, StopApplication,          *)
(* ListApplications, QueryStatus, SyncConsole).                            *)
(***************************************************************************)
AnswersTrue == StartIsTrue /\ StopIsTrue /\ ConsoleIsTrue

(***************************************************************************)
(* The dialogues keep the promise of BoardDialogue: whatever lines are in  *)
(* flight, only a start commands one, of a board that is idle, and a       *)
(* method that returns true has said what is so and leaves the controller  *)
(* in the mode it confirmed.                                               *)
(***************************************************************************)
Ordered == \E i \in DOMAIN stdin : stdin[i] = Line("start")

Dialogue == INSTANCE BoardDialogue WITH
    Methods <- Calls, owner <- board, order <- Ordered, method <- call.name,
    belief <- mode, sure <- given # "Unknown"
KeepsDialogue == Dialogue!Spec

-----------------------------------------------------------------------------
(* Statements of the repository's documents that the code does not keep.   *)

(***************************************************************************)
(* Mode Unknown is fail-closed: a stop is not reported done on a guess.    *)
(***************************************************************************)
StopNeverGuesses == answer = [name |-> "stop", ok |-> TRUE] => board = "shell"

(***************************************************************************)
(* The request that made an attach find the application is handed to the   *)
(* provider: it is a whole line of the pending data.                       *)
(***************************************************************************)
AttachKeepsRequest ==
    answer.name = "probe" /\ mode = "Application" => Lines(pending, Traffic) # {}
=============================================================================
