--------------------------- MODULE ProviderSession ---------------------------
(***************************************************************************)
(* The two provider sessions of the host (ApplicationProviderSessions.cs)  *)
(* with what they talk to: the buffer that the reader thread fills from    *)
(* the board (BufferedSerialTransport.cs), and a local process that is     *)
(* asked for data over its pipes: codex app-server (CodexProvider.cs) or   *)
(* the RunBoard live worker (live_sender.py).  Dispose runs in another     *)
(* thread than the loop.                                                   *)
(*                                                                         *)
(* The codex session answers the requests of the board, one by one; the    *)
(* runboard session writes a frame at the start and then at intervals.  A  *)
(* line arrives in pieces, and a read takes all that has arrived.  Time is *)
(* abstracted: a reply may take any time, and a bounded wait may end at    *)
(* any moment.  The length limits of the buffers are left out.             *)
(***************************************************************************)
EXTENDS Naturals, Sequences, SequencesExt

CONSTANTS
    Workers,    \* identities of local processes
    NoWorker,   \* a null provider
    Sequences,  \* numbers of requests to the process are counted modulo this
    MaxWire     \* bound: symbols the board has sent before it begins a new line

ASSUME SessionAssumption ==
    /\ NoWorker \notin Workers
    /\ Sequences \in Nat \ {0} /\ MaxWire \in Nat

VARIABLES
    app,       \* the class of the session
    phase,     \* new, starting, broken (Start threw), running, failing, exited
    pc,        \* where Start or the loop stands
    incoming,  \* the chunk in hand: initialData, what is to be pushed back
    pending,   \* pending of BoardApplicationSession
    stopped,   \* its Stopped
    wire,      \* all the board has sent
    buffer,    \* buffer of the transport
    procs,     \* the local processes and their pipes
    provider,  \* the process of the field provider, or of source
    made,      \* the process of a RealCodexProvider under construction
    lost,      \* processes that no object will dispose of any more
    sequence,  \* number of the request under way
    got,       \* number of the request whose answer is in hand
    disposer,  \* where Dispose stands
    expired,   \* did its wait for the loop expire?
    frames     \* frames written to the board, modulo 2

loopVars == <<phase, pc>>
textVars == <<incoming, pending, stopped>>
lineVars == <<wire, buffer>>
workVars == <<procs, provider, made, lost>>
askVars == <<sequence, got>>
endVars == <<disposer, expired>>
vars == <<app, loopVars, textVars, lineVars, workVars, askVars, endVars, frames>>

-----------------------------------------------------------------------------
(* Text.  A line is a head and an end; the stop marker, which is searched  *)
(* for in a chunk before lines are formed, is cut in two by its middle.    *)

Part(kind, part) == [kind |-> kind, part |-> part]
Text(kind) ==
    IF kind = "stop" THEN <<Part(kind, "head"), Part(kind, "middle"), Part(kind, "end")>>
    ELSE <<Part(kind, "head"), Part(kind, "end")>>
Symbols == [kind : {"request", "text", "stop"}, part : {"head", "middle", "end"}]

\* ContainsStopMarker.
HasStop(s) == \E i \in 1..Len(s) - 1 : SubSeq(s, i, i + 1) = SubSeq(Text("stop"), 1, 2)

FirstEnd(s) == CHOOSE i \in DOMAIN s : s[i].part = "end" /\ \A j \in 1..i-1 : s[j].part # "end"
HasLine(s) == \E i \in DOMAIN s : s[i].part = "end"

-----------------------------------------------------------------------------
Dead == [up |-> FALSE, jobs |-> <<>>, replies |-> <<>>]
Fresh == [Dead EXCEPT !.up = TRUE]
Cancelled == disposer # "no"
SourceDisposed == disposer \notin {"no", "cancelled"}
Running == phase = "running"

Pcs == {"idle", "spawn", "top", "push", "lines", "create", "ask", "answer", "write", "send", "failed", "final"}
Numbers == 0..Sequences - 1

TypeOK ==
    /\ app \in {"codex", "runboard"}
    /\ phase \in {"new", "starting", "broken", "running", "failing", "exited"}
    /\ pc \in Pcs
    /\ {incoming, pending, wire, buffer} \subseteq Seq(Symbols)
    /\ {stopped, expired} \subseteq BOOLEAN
    /\ procs \in [Workers -> [up : BOOLEAN, jobs : Seq(Numbers), replies : Seq(Numbers)]]
    /\ {provider, made} \subseteq Workers \cup {NoWorker} /\ lost \subseteq Workers
    /\ {sequence, got} \subseteq Numbers
    /\ disposer \in {"no", "cancelled", "join", "kill", "null", "closed"}
    /\ frames \in {0, 1}
    \* A chunk is in hand before and after Consume, not during it.
    /\ incoming # <<>> => pc \notin {"lines", "create", "ask", "answer", "write", "failed"}

\* The codex session may get data that the board sent before it existed.
Init ==
    /\ app \in {"codex", "runboard"}
    /\ phase = "new" /\ pc = "idle"
    /\ wire \in {<<>>} \cup
          (IF app = "codex" THEN {Text("request"), Text("request") \o <<Part("request", "head")>>,
                                  Text("stop")} ELSE {})
    /\ incoming = wire /\ pending = <<>> /\ buffer = <<>> /\ stopped = FALSE
    /\ procs = [w \in Workers |-> Dead]
    /\ provider = NoWorker /\ made = NoWorker /\ lost = {}
    /\ sequence = 0 /\ got = 0
    /\ disposer = "no" /\ expired = FALSE /\ frames = 0

Goto(p) == pc' = p /\ UNCHANGED phase
Ends(p) == phase' = p /\ pc' = "idle"

\* Process.Start, and Kill on the way out of the object that owns it.
Spawn(w) == ~procs[w].up /\ w \notin {provider, made} \cup lost /\ procs' = [procs EXCEPT ![w] = Fresh]
Kill == procs' = IF provider = NoWorker THEN procs ELSE [procs EXCEPT ![provider] = Dead]
KillAndForget == Kill /\ provider' = NoWorker

-----------------------------------------------------------------------------
(* Start.                                                                  *)

CodexStart ==
    /\ app = "codex" /\ phase = "new"
    /\ phase' = "running" /\ pc' = "top"
    /\ UNCHANGED <<app, textVars, lineVars, workVars, askVars, endVars, frames>>

RunBoardStart ==
    /\ app = "runboard" /\ phase = "new"
    /\ phase' = "starting" /\ pc' = "spawn"
    /\ UNCHANGED <<app, textVars, lineVars, workVars, askVars, endVars, frames>>

\* The worker is started, then asked for the first frame.  If Dispose has
\* passed, nobody will kill it; a source that Dispose has seen refuses.
RunBoardSpawns ==
    /\ phase = "starting" /\ pc = "spawn"
    /\ \/ /\ \E w \in Workers :
                /\ Spawn(w) /\ provider' = w
                /\ lost' = IF SourceDisposed THEN lost \cup {w} ELSE lost
          /\ pc' \in {"ask"} \cup (IF SourceDisposed THEN {"failed"} ELSE {})
          /\ UNCHANGED phase
       \/ Ends("broken") /\ UNCHANGED <<procs, provider, lost>>
    /\ UNCHANGED <<app, textVars, lineVars, made, askVars, endVars, frames>>

-----------------------------------------------------------------------------
(* The codex loop.                                                         *)

\* Mutant: the loop does not look at its token.
CodexOverBlind == stopped
CodexOver == Cancelled \/ stopped

\* ReadAvailable takes everything; a chunk with a stop marker is not
\* consumed.
CodexReads ==
    /\ app = "codex" /\ Running /\ pc = "top"
    /\ IF CodexOver THEN Goto("final") /\ UNCHANGED <<textVars, buffer>>
       ELSE LET chunk == IF incoming # <<>> THEN incoming ELSE buffer IN
            /\ buffer' = IF incoming # <<>> THEN buffer ELSE <<>>
            /\ IF HasStop(chunk)
               THEN incoming' = chunk /\ UNCHANGED pending /\ Goto("push")
               ELSE incoming' = <<>> /\ pending' = pending \o chunk /\ Goto("lines")
            /\ UNCHANGED stopped
    /\ UNCHANGED <<app, wire, workVars, askVars, endVars, frames>>

\* Mutant: the chunk is appended to what has arrived since.
PushBackBehind ==
    /\ Running /\ pc = "push"
    /\ buffer' = buffer \o incoming
    /\ incoming' = <<>> /\ Goto("final")
    /\ UNCHANGED <<app, pending, stopped, wire, workVars, askVars, endVars, frames>>

\* Mutant: the chunk is dropped.
PushBackNothing ==
    /\ Running /\ pc = "push"
    /\ incoming' = <<>> /\ Goto("final")
    /\ UNCHANGED <<app, pending, stopped, lineVars, workVars, askVars, endVars, frames>>

PushBack ==
    /\ Running /\ pc = "push"
    /\ buffer' = incoming \o buffer
    /\ incoming' = <<>> /\ Goto("final")
    /\ UNCHANGED <<app, pending, stopped, wire, workVars, askVars, endVars, frames>>

\* Consume: line by line; a request needs a provider.
Consume ==
    /\ Running /\ pc = "lines"
    /\ IF ~HasLine(pending) THEN Goto("top") /\ UNCHANGED <<pending, stopped>>
       ELSE LET line == SubSeq(pending, 1, FirstEnd(pending)) IN
            /\ pending' = SubSeq(pending, FirstEnd(pending) + 1, Len(pending))
            /\ stopped' = (stopped \/ line = Text("stop"))
            /\ Goto(IF line = Text("request") THEN "create" ELSE "lines")
    /\ UNCHANGED <<app, incoming, lineVars, workVars, askVars, endVars, frames>>

\* A provider is made if there is none: the process, then its initialize call.
CreateBegins ==
    /\ pc = "create" /\ made = NoWorker
    /\ IF provider # NoWorker THEN Goto("ask") /\ UNCHANGED <<procs, made>>
       ELSE \/ \E w \in Workers : Spawn(w) /\ made' = w /\ UNCHANGED loopVars
            \/ Goto("failed") /\ UNCHANGED <<procs, made>>
    /\ UNCHANGED <<app, textVars, lineVars, provider, lost, askVars, endVars, frames>>

\* The constructor returns, or throws with the process still running.
CreateEnds ==
    /\ pc = "create" /\ made # NoWorker
    /\ \/ procs[made].up /\ provider' = made /\ UNCHANGED lost /\ Goto("ask")
       \/ lost' = lost \cup {made} /\ UNCHANGED provider /\ Goto("failed")
    /\ made' = NoWorker
    /\ UNCHANGED <<app, textVars, lineVars, procs, askVars, endVars, frames>>

\* Mutant: the provider is kept after a failed request.
CodexFailsKeepsProvider ==
    /\ app = "codex" /\ pc = "failed"
    /\ Goto(IF Cancelled THEN "final" ELSE "top")
    /\ UNCHANGED <<app, textVars, lineVars, workVars, askVars, endVars, frames>>

\* The inner catch: the provider is dropped, the loop goes on.
CodexFails ==
    /\ app = "codex" /\ pc = "failed"
    /\ KillAndForget
    /\ Goto(IF Cancelled THEN "final" ELSE "top")
    /\ UNCHANGED <<app, textVars, lineVars, made, lost, askVars, endVars, frames>>

\* The finally clause.
CodexEnds ==
    /\ app = "codex" /\ pc = "final"
    /\ KillAndForget /\ Ends("exited")
    /\ UNCHANGED <<app, textVars, lineVars, made, lost, askVars, endVars, frames>>

-----------------------------------------------------------------------------
(* A request to the local process: ReadQuota, ReadFrame.                   *)

Ask ==
    /\ pc = "ask"
    /\ sequence' = (sequence + 1) % Sequences
    /\ IF provider # NoWorker /\ procs[provider].up
       THEN procs' = [procs EXCEPT ![provider].jobs = Append(@, sequence')] /\ Goto("answer")
       ELSE UNCHANGED procs /\ Goto("failed")
    /\ UNCHANGED <<app, textVars, lineVars, provider, made, lost, got, endVars, frames>>

Answer ==
    /\ pc = "answer" /\ provider # NoWorker
    /\ procs[provider].replies # <<>>
    /\ got' = Head(procs[provider].replies)
    /\ procs' = [procs EXCEPT ![provider].replies = Tail(@)]
    /\ pc' \in {"write", "failed"} /\ UNCHANGED phase
    /\ UNCHANGED <<app, textVars, lineVars, provider, made, lost, sequence, endVars, frames>>

\* The wait ends, or is ended by Dispose or the death of the process.  The
\* frame source is disposed of at once, the codex provider by the handler.
NoAnswer ==
    /\ pc = "answer" /\ Goto("failed")
    /\ IF app = "runboard" THEN KillAndForget ELSE UNCHANGED <<procs, provider>>
    /\ UNCHANGED <<app, textVars, lineVars, made, lost, askVars, endVars, frames>>

\* The frame is written, or the write throws.
Write ==
    /\ pc = "write"
    /\ \/ /\ frames' = (frames + 1) % 2
          /\ pc' = IF app = "codex" THEN "lines" ELSE "top"
          /\ UNCHANGED phase
       \/ Goto("failed") /\ UNCHANGED frames
    /\ UNCHANGED <<app, textVars, lineVars, workVars, askVars, endVars>>

-----------------------------------------------------------------------------
(* The runboard loop.                                                      *)

\* The task is created, unless the token has been cancelled meanwhile.
RunBoardStarted ==
    /\ phase = "starting" /\ pc = "top"
    /\ IF Cancelled THEN Ends("broken") ELSE phase' = "running" /\ UNCHANGED pc
    /\ UNCHANGED <<app, textVars, lineVars, workVars, askVars, endVars, frames>>

\* A chunk without a marker is dropped; at the end of the interval a frame
\* is due.
RunBoardReads ==
    /\ app = "runboard" /\ Running /\ pc = "top"
    /\ IF Cancelled THEN Ends("exited") /\ UNCHANGED <<incoming, buffer>>
       ELSE /\ buffer' = <<>>
            /\ IF HasStop(buffer) THEN incoming' = buffer /\ Goto("push")
               ELSE UNCHANGED <<incoming, phase>> /\ pc' \in {"top", "send"}
    /\ UNCHANGED <<app, pending, stopped, wire, workVars, askVars, endVars, frames>>

RunBoardSends ==
    /\ pc = "send" /\ Goto(IF Cancelled THEN "top" ELSE "ask")
    /\ UNCHANGED <<app, textVars, lineVars, workVars, askVars, endVars, frames>>

RunBoardEnds ==
    /\ app = "runboard" /\ pc = "final" /\ Ends("exited")
    /\ UNCHANGED <<app, textVars, lineVars, workVars, askVars, endVars, frames>>

\* Mutant: the failure is reported although the session is being disposed of.
RunBoardFailsLoudly ==
    /\ app = "runboard" /\ pc = "failed"
    /\ Ends(IF phase = "starting" THEN "broken" ELSE "failing")
    /\ UNCHANGED <<app, textVars, lineVars, workVars, askVars, endVars, frames>>

\* Start throws; the loop reports the failure if it is still wanted.
RunBoardFails ==
    /\ app = "runboard" /\ pc = "failed"
    /\ Ends(IF phase = "starting" THEN "broken"
            ELSE IF Cancelled THEN "exited" ELSE "failing")
    /\ UNCHANGED <<app, textVars, lineVars, workVars, askVars, endVars, frames>>

\* The fault callback has returned.
Reported ==
    /\ phase = "failing" /\ Ends("exited")
    /\ UNCHANGED <<app, textVars, lineVars, workVars, askVars, endVars, frames>>

-----------------------------------------------------------------------------
(* Dispose.                                                                *)

\* Dispose of the connection takes no lock, and may come during Start.
DisposeCancels ==
    /\ disposer = "no" /\ phase # "new"
    /\ disposer' = IF app = "runboard" THEN "cancelled" ELSE "join"
    /\ UNCHANGED <<app, loopVars, textVars, lineVars, workVars, askVars, expired, frames>>

\* Mutant: the frame source is left alone.
DisposeSourceLater ==
    /\ disposer = "cancelled" /\ disposer' = "join"
    /\ UNCHANGED <<app, loopVars, textVars, lineVars, workVars, askVars, expired, frames>>

DisposeSource ==
    /\ disposer = "cancelled" /\ disposer' = "join"
    /\ KillAndForget
    /\ UNCHANGED <<app, loopVars, textVars, lineVars, made, lost, askVars, expired, frames>>

\* The wait for the loop: 32 s for one whose read has been cancelled, 17 s
\* for one that may be in a request (10 s and 15 s) or several.
DisposeJoins ==
    /\ disposer = "join"
    /\ \/ phase \notin {"running", "failing"} /\ UNCHANGED expired
       \/ app = "codex" /\ expired' = TRUE
    /\ disposer' = IF app = "runboard" THEN "closed" ELSE "kill"
    /\ UNCHANGED <<app, loopVars, textVars, lineVars, workVars, askVars, frames>>

\* DisposeProvider, beside a loop that may have been left behind.
DisposeKills ==
    /\ disposer = "kill"
    /\ disposer' = IF provider = NoWorker THEN "closed" ELSE "null"
    /\ Kill
    /\ UNCHANGED <<app, loopVars, textVars, lineVars, provider, made, lost, askVars, expired, frames>>

DisposeNulls ==
    /\ disposer = "null" /\ disposer' = "closed"
    /\ provider' = NoWorker
    /\ UNCHANGED <<app, loopVars, textVars, lineVars, procs, made, lost, askVars, expired, frames>>

DisposeStep ==
    DisposeSource \/ DisposeJoins \/ DisposeKills \/ DisposeNulls

-----------------------------------------------------------------------------
(* The board and the local processes.                                      *)

\* Pump: the next piece of the line that is being sent, or of a new one.
\* Requests come from an application that has not left yet.
Gone == HasStop(wire)
Pump ==
    /\ \E s \in Symbols :
          /\ IF wire # <<>> /\ Last(wire).part # "end"
             THEN s = Text(Last(wire).kind)[IF Last(wire).part = "head" THEN 2 ELSE 3]
             ELSE /\ Len(wire) < MaxWire /\ s.part = "head"
                  /\ s.kind = "request" => app = "codex" /\ ~Gone
                  /\ s.kind = "stop" => ~Gone
          /\ wire' = Append(wire, s) /\ buffer' = Append(buffer, s)
    /\ UNCHANGED <<app, loopVars, textVars, workVars, askVars, endVars, frames>>

WorkerAnswers(w) ==
    /\ procs[w].up /\ procs[w].jobs # <<>>
    /\ procs' = [procs EXCEPT ![w].jobs = Tail(@), ![w].replies = Append(@, Head(procs[w].jobs))]
    /\ UNCHANGED <<app, loopVars, textVars, lineVars, provider, made, lost, askVars, endVars, frames>>

WorkerExits(w) ==
    /\ procs[w].up /\ procs' = [procs EXCEPT ![w] = Dead]
    /\ UNCHANGED <<app, loopVars, textVars, lineVars, provider, made, lost, askVars, endVars, frames>>

LoopStep ==
    \/ CodexReads \/ PushBack \/ Consume \/ CreateBegins \/ CreateEnds \/ CodexFails \/ CodexEnds
    \/ Ask \/ Answer \/ NoAnswer \/ Write
    \/ RunBoardSpawns \/ RunBoardStarted \/ RunBoardReads \/ RunBoardSends \/ RunBoardEnds \/ RunBoardFails
    \/ Reported

Next ==
    \/ CodexStart \/ RunBoardStart \/ LoopStep
    \/ DisposeCancels \/ DisposeStep
    \/ Pump \/ \E w \in Workers : WorkerAnswers(w) \/ WorkerExits(w)

\* Both threads run; nothing is promised of the board and the processes.
Spec == Init /\ [][Next]_vars /\ WF_vars(LoopStep) /\ WF_vars(DisposeStep)

-----------------------------------------------------------------------------
(***************************************************************************)
(* What goes to the board is the answer to the request under way, never a  *)
(* late answer to an earlier one that timed out or failed.                 *)
(***************************************************************************)
AnswersFresh == pc = "write" => got = sequence

(***************************************************************************)
(* The text left for the board controller is the end of what the board     *)
(* sent, in order, even if more arrived while a chunk was pushed back.     *)
(***************************************************************************)
TextInOrder ==
    IsSuffix((IF pc = "push" THEN incoming ELSE <<>>) \o buffer, wire)

(***************************************************************************)
(* A loop that ends because the application left, and not on its own       *)
(* parsing of the line, leaves the stop marker for the controller, whose   *)
(* stop dialogue waits for it.                                             *)
(***************************************************************************)
StopMarkerKept ==
    phase = "exited" /\ app = "codex" /\ ~Cancelled /\ ~stopped => HasStop(buffer)

(***************************************************************************)
(* When Dispose has returned and the loop is over, no local process runs,  *)
(* even if Dispose gave up waiting and both threads disposed of providers; *)
(* but for the processes of a constructor that threw, or of a Start that   *)
(* Dispose overtook.                                                       *)
(***************************************************************************)
WorkersStopped ==
    disposer = "closed" /\ phase \in {"exited", "broken"} =>
        \A w \in Workers \ lost : ~procs[w].up

(***************************************************************************)
(* A disposed session comes to rest: its loop, or Start, ends whatever the *)
(* process and the board do.                                               *)
(***************************************************************************)
LoopEnds == Cancelled ~> phase \in {"exited", "broken"}

(***************************************************************************)
(* The session keeps what SerialDeviceConnection expects of it: it fails   *)
(* only while it is wanted, ends only when told to or when the application *)
(* left, and writes no frame after its loop has ended.                     *)
(***************************************************************************)
Promise == INSTANCE ProviderLifecycle WITH
    frameFirst <- app = "runboard", cancelled <- Cancelled, closed <- disposer \in {"kill", "null", "closed"},
    gone <- Gone
KeepsLifecycle == Promise!Spec
=============================================================================
