----------------------- MODULE SerialDeviceConnection -----------------------
(***************************************************************************)
(* The Windows host's connection to the board (SerialDeviceConnection.cs): *)
(* connect, disconnect and switch run one at a time under operationLock,   *)
(* while three other threads touch the same fields without it: the reader  *)
(* (pump) of each BufferedSerialTransport when the port dies, the loop of  *)
(* the application provider when it faults, and the window that closes.    *)
(*                                                                         *)
(* A field assignment that another thread can see between two others is a  *)
(* step of its own, those of the registry's methods included; what runs    *)
(* without a visible write in between is one step.  A dialogue with the    *)
(* board (probe, stop, start, ...) is one step with every outcome the      *)
(* board's state allows; BoardController.tla models those dialogues.       *)
(***************************************************************************)
EXTENDS AppRegistry

CONSTANTS
    Offered,         \* applications the registry offers before any connection
    CallKinds,       \* what the user does: connect, disconnect, switch, close
    FrameFirst,      \* applications whose provider sends a frame before Start returns
    TransportIds,    \* identities of BufferedSerialTransport objects
    NoTransport,     \* the null transport
    WriteMayTimeOut  \* may a write time out on a port that stays readable?

ASSUME ConnectionAssumption ==
    /\ Offered \subseteq Apps
    /\ CallKinds \subseteq {"connect", "disconnect", "switch", "close"}
    /\ FrameFirst \subseteq BoardApps
    /\ NoTransport \notin TransportIds
    /\ WriteMayTimeOut \in BOOLEAN

VARIABLES
    conn,        \* connectionState
    transport,   \* the field transport
    port,        \* life of every transport: closed, open, faulted (reader died)
    pump,        \* where each reader thread is in OnTransportFault
    op,          \* the operation that holds operationLock
    queue,       \* calls that wait for operationLock
    provider,    \* the provider session in codexProvider / runBoardProvider
    orphans,     \* provider loops nobody waits for any more
    closing,     \* how far closing the window has come (cancel, Dispose)
    closingPort, \* the transport Dispose is closing
    board,       \* the application that really owns the board's UART
    drift        \* did the board change by itself since the host looked?

regVars   == <<registry, calls>>
hostVars  == <<conn, regVars, transport>>
portVars  == <<port, pump>>
lockVars  == <<op, queue>>
loopVars  == <<provider, orphans>>
closeVars == <<closing, closingPort>>
boardVars == <<board, drift>>
vars == <<hostVars, portVars, lockVars, loopVars, closeVars, boardVars>>

-----------------------------------------------------------------------------
Kinds == {"none", "connect", "disconnect", "switch", "cleanup"}

\* Where an operation stands.  cancel .. close is the common tear-down.
TearDown == {"cancel", "join", "detach", "close"}
ConnectPcs == {"reset", "open", "opened", "probe", "checked", "attach", "named", "attached",
               "resume", "resuming", "list", "query", "online", "giveUp", "abort"}
SwitchPcs == {"check", "current", "beginStop", "stop", "stopped", "notStopped",
              "handover", "start", "status", "idleStill", "notStarted", "provide",
              "providing", "complete", "recover", "recovered", "stranded", "failed", "aborted"}
OtherPcs == {"idle", "guard", "cleaned", "offline", "return"}
Pcs == TearDown \cup ConnectPcs \cup SwitchPcs \cup OtherPcs

\* Steps during which the operation itself talks to the board.
CommandPcs == {"probe", "list", "query", "stop", "start", "status", "recover"}

Calls == [kind : {"connect", "disconnect"}, app : {NoApp}] \cup [kind : {"switch"}, app : Apps]

Ops == [kind : Kinds, pc : Pcs, next : Pcs, app : Apps \cup {NoApp},
        old : Apps \cup {NoApp}, tr : TransportIds \cup {NoTransport}]

NoOp == [kind |-> "none", pc |-> "idle", next |-> "idle", app |-> NoApp,
         old |-> NoApp, tr |-> NoTransport]

\* A provider: its application, its transport, and its loop: none (never
\* started), running, failing (exception raised, fault callback entered),
\* erring and recording (inside OnProviderFault), exited.
Loops == {"none", "running", "failing", "erring", "recording", "exited"}
Providers == [app : Apps \cup {NoApp}, tr : TransportIds \cup {NoTransport},
              loop : Loops, cancelled : BOOLEAN]
NoProvider == [app |-> NoApp, tr |-> NoTransport, loop |-> "none", cancelled |-> FALSE]

\* The threads that call the registry: the holder of the lock, the loop of
\* the provider, and the readers.
ASSUME ThreadsAssumption == {"holder", "loop"} \cap TransportIds = {}
Threads == {"holder", "loop"} \cup TransportIds

TypeOK ==
    /\ conn \in {"Disconnected", "Connecting", "Connected", "Error"}
    /\ registry \in Registry /\ calls \in [Threads -> RegistryCalls]
    /\ transport \in TransportIds \cup {NoTransport}
    /\ port \in [TransportIds -> {"closed", "open", "faulted"}]
    /\ pump \in [TransportIds -> {"idle", "raised", "unset", "cleanup"}]
    /\ op \in Ops
    /\ queue \subseteq Calls
    /\ provider \in Providers
    /\ orphans \subseteq [app : Apps \cup {NoApp}, tr : TransportIds \cup {NoTransport}]
    /\ closing \in {"no", "cancelled", "joining", "detaching", "closing", "done"}
    /\ closingPort \in TransportIds \cup {NoTransport}
    /\ board \in Apps
    /\ drift \in BOOLEAN

Init ==
    /\ conn = "Disconnected"
    /\ registry = NewRegistry(Offered)
    /\ calls = [th \in Threads |-> NoCall]
    /\ transport = NoTransport
    /\ port = [t \in TransportIds |-> "closed"]
    /\ pump = [t \in TransportIds |-> "idle"]
    /\ op = NoOp /\ queue = {}
    /\ provider = NoProvider /\ orphans = {}
    /\ closing = "no" /\ closingPort = NoTransport
    /\ board \in Apps /\ drift = FALSE

Disposed == closing \notin {"no", "cancelled"}
Cancelled == closing # "no"

\* A transport object that nothing refers to: a fresh one.
Free(t) == port[t] = "closed" /\ pump[t] = "idle" /\ provider.tr # t
           /\ \A o \in orphans : o.tr # t

Linked == op.tr \in TransportIds /\ port[op.tr] = "open"

Goto(pc) == op' = IF pc = "idle" THEN NoOp ELSE [op EXCEPT !.pc = pc]
ThenTearDown(next) == op' = [op EXCEPT !.pc = "cancel", !.next = next]

\* The lock holder moves on; pc "idle" releases the lock.  In Commit it sets
\* the connection state and calls a method of the registry, whose statements
\* are its next steps.
OnlyOp == UNCHANGED <<hostVars, portVars, queue, loopVars, closeVars, boardVars>>
Enters(th, k) == calls' = [calls EXCEPT ![th] = k]
Commit(c, k, pc) ==
    /\ conn' = c /\ Enters("holder", k)
    /\ Goto(pc)
    /\ UNCHANGED <<registry, transport, portVars, queue, loopVars, closeVars, boardVars>>

-----------------------------------------------------------------------------
(* Calls and the lock.  The window issues one call of a kind at a time     *)
(* (connectionAttemptInProgress, switchLock).  A switch answers            *)
(* NOT_CONNECTED before it asks for the lock, on the state of that moment. *)

Call(kind, a) ==
    /\ ~Cancelled
    /\ op.kind # kind /\ \A c \in queue : c.kind # kind
    /\ kind = "switch" =>
          conn = "Connected" /\ transport # NoTransport /\ port[transport] # "faulted"
    /\ queue' = queue \cup {[kind |-> kind, app |-> a]}
    /\ UNCHANGED <<hostVars, portVars, op, loopVars, closeVars, boardVars>>

CallStep ==
    \E kind \in CallKinds \ {"close"} :
        \E a \in (IF kind = "switch" THEN Apps ELSE {NoApp}) : Call(kind, a)

Entry == [connect |-> "reset", disconnect |-> "offline", switch |-> "current"]

Acquire(c) ==
    /\ op.kind = "none" /\ closing # "done"
    /\ queue' = queue \ {c}
    /\ op' = [NoOp EXCEPT !.kind = c.kind, !.app = c.app, !.next = Entry[c.kind],
                          !.pc = IF c.kind = "switch" THEN "check" ELSE "cancel"]
    /\ UNCHANGED <<hostVars, portVars, loopVars, closeVars, boardVars>>

\* CleanupFaultedTransportAsync gets the lock ...
AcquireCleanup(t) ==
    /\ op.kind = "none" /\ closing # "done"
    /\ pump[t] = "cleanup"
    /\ pump' = [pump EXCEPT ![t] = "idle"]
    /\ op' = [NoOp EXCEPT !.kind = "cleanup", !.pc = "guard", !.tr = t]
    /\ UNCHANGED <<hostVars, port, queue, loopVars, closeVars, boardVars>>

\* Mutant: the cleanup does not compare the transport with its own.
CleanupGuardBlind ==
    /\ op.pc = "guard"
    /\ IF Disposed THEN Goto("idle") ELSE ThenTearDown("cleaned")
    /\ OnlyOp

\* ... and tears down only what the fault was about.
CleanupGuard ==
    /\ op.pc = "guard"
    /\ IF Disposed \/ transport # op.tr THEN Goto("idle") ELSE ThenTearDown("cleaned")
    /\ OnlyOp

CleanupDone == op.pc = "cleaned" /\ Goto("idle") /\ OnlyOp

-----------------------------------------------------------------------------
(* StopProviderSessions and CloseTransportAsync.                           *)

LiveLoop == provider.loop \notin {"none", "exited"}
\* Mutant: ConnectAsync does not close the old transport first.
AfterJoinKeepsOpen == op.next

AfterJoin == IF op.kind = "switch" THEN op.next ELSE "detach"
Abandon == orphans' = IF LiveLoop THEN orphans \cup {[app |-> provider.app, tr |-> provider.tr]}
                      ELSE orphans

\* provider.Dispose: cancel the loop, then wait for it; a session that
\* another thread is already disposing returns at once.
CancelProvider ==
    /\ op.pc = "cancel"
    /\ IF provider.cancelled
       THEN Abandon /\ provider' = NoProvider /\ Goto(AfterJoin)
       ELSE /\ provider' = [provider EXCEPT !.cancelled = provider # NoProvider]
            /\ Goto("join")
            /\ UNCHANGED orphans
    /\ UNCHANGED <<hostVars, portVars, queue, closeVars, boardVars>>

\* Mutant: the loop is cancelled but not waited for.
JoinProviderAtOnce ==
    /\ op.pc = "join"
    /\ provider' = NoProvider
    /\ Abandon /\ Goto(AfterJoin)
    /\ UNCHANGED <<hostVars, portVars, queue, closeVars, boardVars>>

JoinProvider ==
    /\ op.pc = "join" /\ ~LiveLoop
    /\ provider' = NoProvider
    /\ Goto(AfterJoin)
    /\ UNCHANGED <<hostVars, portVars, queue, orphans, closeVars, boardVars>>

\* The codex loop may be 25 s in ReadQuota (10 s to initialize, 15 s for the
\* answer), so loop.Wait(17000) expires and the loop lives on.  The frame
\* loop's read ends at once because Dispose kills its worker first.
JoinExpires ==
    /\ op.pc = "join" /\ provider.loop = "running" /\ provider.app \notin FrameFirst
    /\ Abandon /\ provider' = NoProvider
    /\ Goto(AfterJoin)
    /\ UNCHANGED <<hostVars, portVars, queue, closeVars, boardVars>>

DetachTransport ==
    /\ op.pc = "detach"
    /\ transport' = NoTransport
    /\ op' = [op EXCEPT !.pc = "close", !.tr = transport]
    /\ UNCHANGED <<conn, regVars, portVars, queue, loopVars, closeVars, boardVars>>

\* BufferedSerialTransport.Dispose waits for the reader, which may be inside
\* OnTransportFault; its two assignments take far less than the 1 s allowed.
ReaderDone(t) == t # NoTransport => pump[t] \in {"idle", "cleanup"}
\* Mutant: the closed transport is dropped instead of marked.
ClosedForgets(t) == [u \in TransportIds \ {t} |-> port[u]]

Closed(t) == [u \in TransportIds |-> IF u = t THEN "closed" ELSE port[u]]

CloseTransport ==
    /\ op.pc = "close" /\ ReaderDone(op.tr)
    /\ port' = Closed(op.tr)
    /\ Goto(op.next)
    /\ UNCHANGED <<hostVars, pump, queue, loopVars, closeVars, boardVars>>

TearDownStep ==
    \/ CancelProvider \/ JoinProvider \/ DetachTransport \/ CloseTransport

-----------------------------------------------------------------------------
(* ConnectAsync and DisconnectAsync.                                       *)

ConnectReset == op.pc = "reset" /\ Commit("Connecting", SetUnknown, "open")

\* No unique candidate port.
ConnectNoPort == op.pc = "open" /\ ~Cancelled /\ Commit("Error", NoCall, "idle")

\* The constructor of the transport starts its reader ...
ConnectOpen(t) ==
    /\ op.pc = "open" /\ ~Cancelled
    /\ Free(t)
    /\ port' = [port EXCEPT ![t] = "open"]
    /\ op' = [op EXCEPT !.pc = "opened", !.tr = t]
    /\ UNCHANGED <<hostVars, pump, queue, loopVars, closeVars, boardVars>>

\* ... before the field refers to it: a fault in between is ignored.
ConnectOpened ==
    /\ op.pc = "opened"
    /\ transport' = op.tr
    /\ Goto("probe")
    /\ UNCHANGED <<conn, regVars, portVars, queue, loopVars, closeVars, boardVars>>

\* A write to the port throws: it is gone, or the write timed out.
WriteFails == ~Linked \/ WriteMayTimeOut

\* The port does not open, or a write of a dialogue throws.
ConnectThrows ==
    /\ op.kind = "connect"
    /\ op.pc = "open" \/ (op.pc \in {"probe", "list", "query"} /\ WriteFails)
    /\ ThenTearDown("giveUp")
    /\ OnlyOp

\* Every await on the cancelled token ends in OperationCanceledException.
ConnectCancelled ==
    /\ Cancelled /\ op.kind = "connect" /\ op.pc \in {"open", "probe", "list", "query"}
    /\ ThenTearDown("abort")
    /\ OnlyOp

\* Probe finds an application (Qtopia for a console) or nothing (NoApp).
ConnectProbe ==
    /\ op.pc = "probe" /\ ~Cancelled
    /\ \E found \in {NoApp} \cup (IF Linked THEN {board} ELSE {}) :
          /\ op' = [op EXCEPT !.pc = "checked", !.app = found]
          /\ drift' = (drift /\ found = NoApp)
    /\ UNCHANGED <<hostVars, portVars, queue, loopVars, closeVars, board>>

\* IsFaulted is read once, here; then the mode decides.
ConnectChecked ==
    /\ op.pc = "checked"
    /\ IF port[op.tr] = "faulted" \/ op.app = NoApp THEN ThenTearDown("giveUp")
       ELSE Goto(IF op.app = Qtopia THEN "list" ELSE "attach")
    /\ OnlyOp

\* ApplyApplicationAvailability: the applications in S, and always Qtopia.
ApplyAvailability(S) == SetAvailable(S \cup {Qtopia})

ConnectAttach == op.pc = "attach" /\ Commit(conn, ApplyAvailability({op.app}), "named")
ConnectNamed == op.pc = "named" /\ Commit(conn, SetCurrent(op.app), "attached")
ConnectAttached == op.pc = "attached" /\ Commit("Connected", NoCall, "resume")

\* ListApplications: the installed applications, or null (then none is offered).
ConnectList ==
    /\ op.pc = "list" /\ ~Cancelled
    /\ \E installed \in SUBSET BoardApps :
          /\ Linked \/ installed = {}
          /\ Commit(conn, ApplyAvailability(installed), "query")

\* QueryBoardStatus: QTOPIA from an idle board, anything else is not trusted.
ConnectQuery ==
    /\ op.pc = "query" /\ ~Cancelled
    /\ \/ Linked /\ board = Qtopia /\ Commit(conn, SetCurrent(Qtopia), "online")
       \/ Commit(conn, SetUnknown, "online")

ConnectOnline == op.pc = "online" /\ Commit("Connected", NoCall, "idle")
ConnectGivesUp == op.pc = "giveUp" /\ Commit("Error", SetUnknown, "return")
ConnectAborts == op.pc = "abort" /\ Commit("Disconnected", NoCall, "idle")
DisconnectDone == op.pc = "offline" /\ Commit("Disconnected", SetUnknown, "return")

\* The last statement of the registry's method is done: release the lock.
Return == op.pc = "return" /\ Goto("idle") /\ OnlyOp

ConnectStep ==
    \/ ConnectReset \/ ConnectNoPort \/ (\E t \in TransportIds : ConnectOpen(t))
    \/ ConnectOpened \/ ConnectThrows \/ ConnectCancelled \/ ConnectProbe \/ ConnectChecked
    \/ ConnectAttach \/ ConnectNamed \/ ConnectAttached \/ ConnectList \/ ConnectQuery
    \/ ConnectOnline \/ ConnectGivesUp \/ ConnectAborts \/ DisconnectDone

-----------------------------------------------------------------------------
(* StartProviderForCurrent, from ConnectAsync ("resume") and SwitchAsync   *)
(* ("provide").                                                            *)

NewProvider == [app |-> op.app, tr |-> transport, loop |-> "none", cancelled |-> FALSE]

\* The field refers to the new session ...
ProviderCreated ==
    /\ op.pc = "resume" \/ (op.pc = "provide" /\ ~Cancelled)
    /\ provider' = NewProvider
    /\ Goto(IF op.pc = "resume" THEN "resuming" ELSE "providing")
    /\ UNCHANGED <<hostVars, portVars, queue, orphans, closeVars, boardVars>>

Unstarted == provider # NoProvider /\ ~provider.cancelled

\* ... whose Start returns with its loop running, for a frame source after
\* its first frame is written ...
ProviderStarts ==
    /\ op.pc \in {"resuming", "providing"} /\ Unstarted
    /\ op.app \in FrameFirst => provider.tr # NoTransport /\ port[provider.tr] = "open"
    /\ provider' = [provider EXCEPT !.loop = "running"]
    /\ Goto(IF op.pc = "resuming" THEN "idle" ELSE "complete")
    /\ UNCHANGED <<hostVars, portVars, queue, orphans, closeVars, boardVars>>

\* ... or throws and leaves a session without a loop behind: no frame could
\* be produced or written, or Dispose came first.
ProviderFailsToStart ==
    /\ op.pc \in {"resuming", "providing"}
    /\ op.app \in FrameFirst \/ ~Unstarted
    /\ IF op.pc = "resuming" THEN ThenTearDown("giveUp") ELSE Goto("recover")
    /\ OnlyOp

-----------------------------------------------------------------------------
(* SwitchAsync.                                                            *)

\* UNAVAILABLE, already current, or go on and stop the providers.
SwitchCheck ==
    /\ op.pc = "check"
    /\ Goto(IF CanLaunch(registry, op.app) /\ registry.current # op.app
            THEN "cancel" ELSE "idle")
    /\ OnlyOp

\* CURRENT_UNKNOWN, or the application to leave and the transport that the
\* switch's controllers will use.
SwitchCurrent ==
    /\ op.pc = "current"
    /\ IF registry.current = NoApp THEN Goto("idle")
       ELSE op' = [op EXCEPT !.pc = "beginStop", !.old = registry.current, !.tr = transport]
    /\ OnlyOp

\* BeginStop throws if a fault cleared the registry meanwhile.  Qtopia needs
\* no dialogue with the board: its stop completes at once.
SwitchBeginStop ==
    /\ op.pc = "beginStop"
    /\ IF CanBeginStop(registry, op.old)
       THEN Commit(conn, BeginStop(op.old), IF op.old = Qtopia THEN "stopped" ELSE "stop")
       ELSE Commit(conn, NoCall, "failed")

\* Mutant: the echo of the marker counts as the shell's answer.
StopDialogueTrustsEcho(confirmed, unconfirmed) ==
    /\ ~Cancelled
    /\ \E result \in {confirmed, unconfirmed} :
          /\ board' \in {board} \cup (IF Linked THEN {Qtopia} ELSE {})
          /\ result = confirmed => Linked
          /\ drift' = (drift /\ result # confirmed)
          /\ Goto(result)
    /\ UNCHANGED <<hostVars, portVars, queue, loopVars, closeVars>>

\* StopApplicationConfirmed: stop frame, APPSTOP, console marker; true only
\* from an idle board, whose state the host then knows.  The frame may work
\* although the answer is lost, and a later write of the dialogue may throw.
StopDialogue(confirmed, unconfirmed) ==
    /\ ~Cancelled
    /\ \E result \in {confirmed, unconfirmed, "failed"} :
          /\ board' \in {board} \cup (IF Linked THEN {Qtopia} ELSE {})
          /\ result = confirmed => Linked /\ board' = Qtopia
          /\ result = "failed" => WriteFails
          /\ drift' = (drift /\ result # confirmed)
          /\ Goto(result)
    /\ UNCHANGED <<hostVars, portVars, queue, loopVars, closeVars>>

SwitchStop == op.pc = "stop" /\ StopDialogue("stopped", "notStopped")
SwitchStopped ==
    op.pc = "stopped" /\ Commit(conn, CompleteStop(op.old), "handover")

\* STOP_FAILED.
SwitchNotStopped == op.pc = "notStopped" /\ Commit(conn, Fail(op.old), "return")

SwitchHandover ==
    /\ op.pc = "handover"
    /\ IF op.app = Qtopia THEN Commit(conn, SetCurrent(Qtopia), "return")
       ELSE IF CanBeginStart(registry, op.app)
            THEN Commit(conn, BeginStart(op.app), "start")
            ELSE Commit(conn, NoCall, "failed")

\* StartApplication: marker, start command, APPREADY or traffic.
SwitchStart ==
    /\ op.pc = "start" /\ ~Cancelled
    /\ \E result \in {"provide", "status", "failed"} :
          /\ board' \in {board} \cup (IF Linked /\ board = Qtopia THEN {op.app} ELSE {})
          /\ result = "provide" => Linked /\ board' = op.app
          /\ result = "failed" => WriteFails
          /\ Goto(result)
    /\ drift' = (drift /\ board' = board)
    /\ UNCHANGED <<hostVars, portVars, queue, loopVars, closeVars>>

\* Mutant: any answer is taken for QTOPIA.
SwitchStatusGuesses ==
    /\ op.pc = "status" /\ Linked
    /\ Goto("idleStill") /\ OnlyOp

\* QueryBoardStatus after an unconfirmed start; every exception is caught.
SwitchStatus ==
    /\ op.pc = "status"
    /\ \/ Linked /\ board = Qtopia /\ ~Cancelled /\ Goto("idleStill")
       \/ Goto("notStarted")
    /\ OnlyOp

\* START_FAILED with the board at Qtopia, PROVIDER_FAILED and recovered:
\* Qtopia is current, and then the target failed as well.
SwitchBackToQtopia ==
    op.pc \in {"idleStill", "recovered"} /\ Commit(conn, SetCurrent(Qtopia), "notStarted")

\* START_FAILED, and the handler of every other exception (SWITCH_FAILED).
SwitchFailed ==
    op.pc \in {"notStarted", "failed"} /\ Commit(conn, Fail(op.app), "return")

SwitchComplete == op.pc = "complete" /\ Commit(conn, CompleteStart(op.app), "return")

SwitchRecover == op.pc = "recover" /\ StopDialogue("recovered", "stranded")

\* The board could not be recovered, or the switch was cancelled.
SwitchToError ==
    op.pc \in {"stranded", "aborted"} /\ Commit("Error", SetUnknown, "return")

SwitchCancelled ==
    /\ Cancelled /\ op.pc \in {"stop", "start", "provide", "recover"}
    /\ Goto("aborted") /\ OnlyOp

SwitchStep ==
    \/ SwitchCheck \/ SwitchCurrent \/ SwitchBeginStop \/ SwitchStop \/ SwitchStopped
    \/ SwitchNotStopped \/ SwitchHandover \/ SwitchStart \/ SwitchStatus
    \/ SwitchBackToQtopia \/ SwitchFailed \/ SwitchComplete \/ SwitchRecover
    \/ SwitchToError \/ SwitchCancelled

-----------------------------------------------------------------------------
(* The reader thread of a transport.                                       *)

\* ReadExisting throws: hasFault, then the fault callback.
ReaderFaults(t) ==
    /\ port[t] = "open"
    /\ port' = [port EXCEPT ![t] = "faulted"]
    /\ pump' = [pump EXCEPT ![t] = "raised"]
    /\ UNCHANGED <<hostVars, lockVars, loopVars, closeVars, boardVars>>

\* Mutant: the fault of an older transport counts as well.
FaultNoticedFromAny(t) ==
    /\ pump[t] = "raised"
    /\ pump' = [pump EXCEPT ![t] = "unset"]
    /\ conn' = "Disconnected" /\ Enters(t, SetUnknown)
    /\ UNCHANGED <<registry, transport, port, lockVars, loopVars, closeVars, boardVars>>

\* OnTransportFault, without the lock: ignored for a transport that is no
\* longer the current one, else Disconnected and the registry unknown ...
FaultNoticed(t) ==
    /\ pump[t] = "raised"
    /\ IF Disposed \/ transport # t
       THEN pump' = [pump EXCEPT ![t] = "idle"] /\ UNCHANGED <<conn, calls>>
       ELSE /\ pump' = [pump EXCEPT ![t] = "unset"]
            /\ conn' = "Disconnected" /\ Enters(t, SetUnknown)
    /\ UNCHANGED <<registry, transport, port, lockVars, loopVars, closeVars, boardVars>>

\* Mutant: no cleanup is started.
FaultRecordedOnly(t) ==
    /\ pump[t] = "unset" /\ calls[t] = NoCall
    /\ pump' = [pump EXCEPT ![t] = "idle"]
    /\ UNCHANGED <<hostVars, port, lockVars, loopVars, closeVars, boardVars>>

\* ... then the cleanup queues for the lock.
FaultRecorded(t) ==
    /\ pump[t] = "unset" /\ calls[t] = NoCall
    /\ pump' = [pump EXCEPT ![t] = "cleanup"]
    /\ UNCHANGED <<hostVars, port, lockVars, loopVars, closeVars, boardVars>>

\* A statement of the registry's methods, on any thread.
Registers(th) ==
    /\ RegistryStep(th)
    /\ UNCHANGED <<conn, transport, portVars, lockVars, loopVars, closeVars, boardVars>>

ReaderStep(t) == FaultNoticed(t) \/ FaultRecorded(t) \/ Registers(t)

-----------------------------------------------------------------------------
(* The loop of a provider session.                                         *)

LoopGoes(l) ==
    /\ provider' = [provider EXCEPT !.loop = l]
    /\ UNCHANGED <<transport, portVars, lockVars, orphans, closeVars, boardVars>>

\* Mutant: the loop does not look at its cancellation token.
LoopExitsDeaf ==
    /\ provider.loop = "running"
    /\ board # provider.app /\ provider.tr # NoTransport
    /\ LoopGoes("exited") /\ UNCHANGED <<conn, regVars>>

\* It leaves when cancelled, or when it sees the application's APPSTOP line.
LoopExits ==
    /\ provider.loop = "running"
    /\ provider.cancelled \/ (board # provider.app /\ provider.tr # NoTransport)
    /\ LoopGoes("exited") /\ UNCHANGED <<conn, regVars>>

\* A frame cannot be produced or written.  Only a frame source ends its loop
\* that way: the codex loop catches, logs and goes on.
LoopFails ==
    /\ provider.loop = "running" /\ ~provider.cancelled /\ provider.app \in FrameFirst
    /\ LoopGoes("failing") /\ UNCHANGED <<conn, regVars>>

\* Mutant: a provider fault is only logged.
ProviderFaultLogged ==
    /\ provider.loop = "failing"
    /\ LoopGoes("exited") /\ UNCHANGED <<conn, regVars>>

\* OnProviderFault, without the lock: only if this is the current application
\* the connection becomes Error and then the application Failed.
ProviderFaultNoticed ==
    /\ provider.loop = "failing"
    /\ LoopGoes(IF ~Disposed /\ registry.current = provider.app THEN "erring" ELSE "exited")
    /\ UNCHANGED <<conn, regVars>>

ProviderFaultError ==
    /\ provider.loop = "erring"
    /\ conn' = "Error" /\ Enters("loop", Fail(provider.app))
    /\ LoopGoes("recording") /\ UNCHANGED registry

ProviderFaultRecorded ==
    /\ provider.loop = "recording" /\ calls["loop"] = NoCall
    /\ LoopGoes("exited") /\ UNCHANGED <<conn, regVars>>

OrphanExits(o) ==
    /\ orphans' = orphans \ {o}
    /\ UNCHANGED <<hostVars, portVars, lockVars, provider, closeVars, boardVars>>

LoopStep ==
    \/ LoopExits \/ ProviderFaultNoticed \/ ProviderFaultError \/ ProviderFaultRecorded
    \/ Registers("loop")

-----------------------------------------------------------------------------
(* Closing the window: cancel the lifetime token, then Dispose, which does *)
(* not take the lock.                                                      *)

CloseWindow ==
    /\ "close" \in CallKinds
    /\ closing = "no" /\ closing' = "cancelled"
    /\ UNCHANGED <<hostVars, portVars, lockVars, loopVars, closingPort, boardVars>>

DisposeCancelsProvider ==
    /\ closing = "cancelled"
    /\ closing' = IF provider = NoProvider \/ provider.cancelled THEN "detaching" ELSE "joining"
    /\ provider' = [provider EXCEPT !.cancelled = provider # NoProvider]
    /\ UNCHANGED <<hostVars, portVars, lockVars, orphans, closingPort, boardVars>>

DisposeJoinsProvider ==
    /\ closing = "joining" /\ ~LiveLoop
    /\ closing' = "detaching" /\ provider' = NoProvider
    /\ UNCHANGED <<hostVars, portVars, lockVars, orphans, closingPort, boardVars>>

DisposeDetaches ==
    /\ closing = "detaching" /\ closing' = "closing"
    /\ closingPort' = transport /\ transport' = NoTransport
    /\ UNCHANGED <<conn, regVars, portVars, lockVars, loopVars, boardVars>>

DisposeCloses ==
    /\ closing = "closing" /\ closing' = "done"
    /\ ReaderDone(closingPort)
    /\ port' = Closed(closingPort) /\ closingPort' = NoTransport
    /\ UNCHANGED <<hostVars, pump, lockVars, loopVars, boardVars>>

DisposeStep ==
    \/ DisposeCancelsProvider \/ DisposeJoinsProvider \/ DisposeDetaches \/ DisposeCloses

-----------------------------------------------------------------------------
\* The board's application may exit by itself (a key, a crash); appctl then
\* restores Qtopia.
ApplicationExits ==
    /\ board # Qtopia
    /\ board' = Qtopia /\ drift' = TRUE
    /\ UNCHANGED <<hostVars, portVars, lockVars, loopVars, closeVars>>

\* What the holder of the lock does next: first what is left of the method of
\* the registry that it called.
OpStep ==
    \/ Registers("holder")
    \/ /\ calls["holder"] = NoCall
       /\ \/ TearDownStep \/ ConnectStep \/ SwitchStep \/ Return
          \/ ProviderCreated \/ ProviderStarts \/ ProviderFailsToStart
          \/ CleanupGuard \/ CleanupDone

Next ==
    \/ CallStep
    \/ \E c \in queue : Acquire(c)
    \/ \E t \in TransportIds :
          AcquireCleanup(t) \/ ReaderFaults(t) \/ ReaderStep(t)
    \/ OpStep \/ JoinExpires
    \/ LoopStep \/ LoopFails \/ (\E o \in orphans : OrphanExits(o))
    \/ CloseWindow \/ DisposeStep
    \/ ApplicationExits

Spec == Init /\ [][Next]_vars

(***************************************************************************)
(* Every wait of the lock holder is bounded by a timeout, the reader and   *)
(* loop threads run, a cancelled loop returns, and SemaphoreSlim hands the *)
(* lock to a queued waiter: a cleanup is not passed over for ever.  Calls, *)
(* faults, exits and closing the window are not promised.                  *)
(***************************************************************************)
Fairness ==
    /\ WF_vars(OpStep) /\ WF_vars(LoopStep) /\ WF_vars(DisposeStep)
    /\ \A t \in TransportIds : WF_vars(ReaderStep(t)) /\ SF_vars(AcquireCleanup(t))

FairSpec == Spec /\ Fairness

-----------------------------------------------------------------------------
(* Properties.                                                             *)

(***************************************************************************)
(* Two cards never show Running, and a Running card is the current         *)
(* application once the registry's methods have returned (as long as the   *)
(* window is open), whichever of the unlocked fault handlers runs between  *)
(* two assignments of a method, of a switch or of a connect.               *)
(***************************************************************************)
RegistryCoherent == OneRunning /\ (~Cancelled => RunningNamed)

(***************************************************************************)
(* While an operation talks to the board (a marker, a start command, a     *)
(* stop frame) the host's provider does not write into the same serial     *)
(* line, and no frame loop is left over from an earlier one: a frame in    *)
(* the middle of a command would reach the shell.  (Once the window is     *)
(* closing the dialogue is cancelled instead of begun.)                    *)
(***************************************************************************)
FramesApart ==
    op.pc \in CommandPcs /\ ~Cancelled =>
        provider.loop # "running" /\ \A o \in orphans : o.app \notin FrameFirst

(***************************************************************************)
(* A lifecycle command is only sent to the board it was meant for: the     *)
(* start command to an idle board, the stop frame of an application to     *)
(* that application (unless it exited by itself just before).              *)
(***************************************************************************)
CommandFitsBoard ==
    /\ op.pc = "start" => board = Qtopia
    /\ op.pc = "stop" => board = op.old \/ drift

\* No thread is between two assignments of the fields.
Quiet ==
    /\ op.kind = "none"
    /\ \A th \in Threads : calls[th] = NoCall
    /\ \A t \in TransportIds : pump[t] \notin {"raised", "unset"}
    /\ provider.loop \notin {"failing", "erring", "recording"}

(***************************************************************************)
(* The card that shows Running names the application the board runs,       *)
(* unless that application exited by itself.                               *)
(***************************************************************************)
RunningIsTrue ==
    Quiet /\ ~drift =>
        \A a \in Apps : registry.state[a] = "Running" => board = a

(***************************************************************************)
(* No serial handle is lost: a transport that is not closed is the current *)
(* one or the one being closed, across faults, reconnects and Dispose.     *)
(***************************************************************************)
HandlesOwned ==
    \A t \in TransportIds : port[t] # "closed" =>
        \/ t = transport
        \/ op.pc \in {"opened", "close"} /\ op.tr = t
        \/ closing = "closing" /\ closingPort = t

(***************************************************************************)
(* The cleanup of a dead transport never closes a healthy one that a       *)
(* reconnect opened while the cleanup waited for the lock.  (Dispose,      *)
(* which takes no lock, may close it meanwhile.)                           *)
(***************************************************************************)
CleanupSparesHealthy ==
    [][\A t \in TransportIds :
          port[t] = "open" /\ port'[t] = "closed" =>
              op.kind # "cleanup" \/ closing = "closing"]_vars

(***************************************************************************)
(* A working connection is never reported lost: Connected turns into       *)
(* Disconnected only through a disconnect or when the current transport's  *)
(* reader died, never because of a fault of an older transport.            *)
(***************************************************************************)
LossHasCause ==
    [][conn = "Connected" /\ conn' = "Disconnected" =>
          \/ op.kind = "disconnect"
          \/ transport # NoTransport /\ port[transport] = "faulted"]_vars

(***************************************************************************)
(* Every call returns and no two waits (for the lock, a loop, a reader)    *)
(* block each other.                                                       *)
(***************************************************************************)
LockReleased == op.kind # "none" ~> op.kind = "none"

(***************************************************************************)
(* A dead transport does not stay the current one.                         *)
(***************************************************************************)
FaultCleaned ==
    \A t \in TransportIds :
        (transport = t /\ port[t] = "faulted") ~> transport # t

(***************************************************************************)
(* A provider that dies while its application is current and no operation  *)
(* runs is noticed: the connection leaves Connected.                       *)
(***************************************************************************)
ProviderDeathSurfaces ==
    (/\ provider.loop = "failing" /\ op.kind = "none" /\ closing = "no"
     /\ registry.current = provider.app)
        ~> (conn # "Connected" \/ closing # "no")

-----------------------------------------------------------------------------
(* Statements of the repository's documents and comments that the code     *)
(* does not keep.                                                          *)

(***************************************************************************)
(* After a serial fault the host is fail-closed: it is not Connected       *)
(* without a transport, so that the reconnect timer, which leaves a        *)
(* Connected host alone, can reconnect.                                    *)
(***************************************************************************)
ConnectedHasTransport ==
    Quiet /\ closing = "no" /\ conn = "Connected" => transport # NoTransport

(***************************************************************************)
(* One writer at a time: no lifecycle frame is sent before the reader of   *)
(* the provider, codex's included, has left the shared transport.          *)
(***************************************************************************)
SingleWriter ==
    op.pc \in CommandPcs /\ ~Cancelled => provider.loop # "running" /\ orphans = {}

(***************************************************************************)
(* A serial fault clears the current application: a host that shows the    *)
(* connection as lost shows no application as current.                     *)
(***************************************************************************)
FaultClearsCurrent ==
    Quiet /\ closing = "no" /\ conn = "Disconnected" => registry.current = NoApp

(***************************************************************************)
(* The death of a provider never leaves a stale Running behind: on a       *)
(* Connected host with a healthy port the Running application has a live   *)
(* provider, unless the application itself left.                           *)
(***************************************************************************)
RunningHasProvider ==
    (/\ Quiet /\ closing = "no" /\ conn = "Connected"
     /\ \E t \in TransportIds : t = transport /\ port[t] = "open") =>
        \A a \in BoardApps : registry.state[a] = "Running" /\ board = a =>
            provider.app = a /\ provider.loop = "running"
=============================================================================
