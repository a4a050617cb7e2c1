# TLA+ models of the JZ2440 application platform

The platform lets a Windows host choose which application a JZ2440 board runs. The board has one
serial line (UART0). Its shell, its launcher `appctl`, the application in the foreground and the
kernel all use that line; the host finds out from the text it receives who owns it. This directory
holds TLA+ specifications of that system, TLC configurations, and TLAPS proofs.

`PROJECT.json` lists the components, runs, mutants, findings, hazards and theorems, and maps every
definition that models code to the lines it stands for.

## 1. Inventory

### Parts and how they interact

```
 MainForm / ControlViewModel        (user clicks, reconnect timer, closing)
        |  ConnectAsync, DisconnectAsync, SwitchAsync, Dispose
 SerialDeviceConnection ---- AppRegistry        (cards: state, current application)
   |        |        \
   |        |         CodexApplicationProviderSession / RunBoardApplicationProviderSession
   |        BoardController (dialogues)        | (loops that own the line while the app runs;
   |                  \                        |  runboard's has a Python worker process)
   |                   BufferedSerialTransport (reader thread, buffer, fault callback)
   |                              |  UART0
 ------------------------------------------------------------------
   shell -> appctl start <app> -> codex-monitor-target | runboard      (board)
            appctl stop / qtopia from another terminal
```

| Component | Source | State | Operations | What is hard | What makes it correct |
|---|---|---|---|---|---|
| Device connection | `windows-control/.../SerialDeviceConnection.cs` | `connectionState`, `transport`, provider sessions, `operationLock`, `disposed` | connect, disconnect, switch, Dispose, the two fault handlers and the cleanup | fault handlers and Dispose do not take the lock; operations have many awaits and error paths | one Running card at most, and a true one; no frame into a dialogue; no lost handle; commands reach whom they are meant for; faults get noticed |
| Application registry | `Core/AppRegistry.cs` | state and availability of each card, current application | begin/complete start and stop, set current/unknown, fail | called by several threads without a lock of its own | two cards never run; a Running card is the current application |
| Board dialogues | `BoardController.cs` (+ its wire protocol) | `Mode`, `pending` | probe, start, stop, list, status, synchronise | late answers of dialogues that timed out; lines cut by a chunk; console text of others | an answer is true of the board; the start command only meets a shell |
| Buffered transport | `BufferedSerialTransport.cs`, `SerialTransport.cs` | buffer, `faulted`, `disposed`, reader thread | read, write, push back, Dispose | fault callback runs on the reader that Dispose waits for; buffer limit | each fault reported once; no text out of order |
| Provider sessions | `ApplicationProviderSessions.cs` | loop task, token, worker process, provider object | Start, loop, Dispose | bounded waits, a chunk that ends inside APPSTOP, late worker answers | silent after Dispose; answers match requests |
| Attach probe | `ApplicationAttachProbe.cs` | none across calls | probe | traffic that started before the probe | names the right application |
| Window, view model | `MainForm.cs`, `ControlViewModel.cs` | flags of calls under way, timer, cached snapshot | click, timer, close | timer against clicks, stale snapshot | a lost board is reconnected |
| Mock device | `MockDeviceConnection.cs`, `AppControlProtocol.cs` | same registry | same operations, simulated | connect and disconnect do not take its lock | same as the real one |
| Launcher | `appctl` | files `current-app`, `current-pid`; shells, applications, desktop | start, stop, qtopia, status, list | check-then-act on files by two processes; signals to a shell that waits; a desktop that comes and goes beside the script's sleeps | one application; the desktop returns |
| Codex target | `codex-monitor/.../codex_monitor.c`, `ui_layout.h`, `font_data.h` | quota and time, request timers, line buffer, what was drawn | start, read lines, request, age, repaint, quit | lost requests, cut and over-long lines, clock steps, error paths of the start, partial repaint | the screen shows the state; an old quota is marked, and asked for in time; the terminal is given back |
| RunBoard target | `runboard.c`, `runboard_layout.h` | line buffer, last state | read RB1 lines, draw, quit | lost bytes, a line at the limit of the buffer, texts wider than their place | a frame is drawn whole or not at all; no number loses a digit |
| Target runtime | `oabi_runtime.c` | none | system calls, division, copying | a divider in software, kernel error numbers | / and % as in C |
| Codex quota protocol | `ProtocolParser.cs`, `ProtocolEncoder.cs`, `RequestDrivenSession.cs`, `BoardApplicationSession.cs` | a line buffer each | consume, encode | limits applied before or after lines are taken | what one side encodes the other accepts |
| Command-line bridges | `CodexBridgeProgram.cs`, `RunBoardBridgeProgram.cs`, `RunBoardAdapter.cs` | none / session | launch, serve | a second client of the same dialogues | same as the sessions |
| RunBoard host pipeline | `freshness.py`, `aggregator.py`, `live_sender.py`, `publisher.py` | per-provider freshness, schedule, last values | collect, fail, publish | clock, failures, kept values | what is called fresh is recent; an outage shows |
| RunBoard protocol | `board_protocol.py`, `state_model.py` | none | encode, decode | integer ranges, lengths | round trip |
| RunBoard collector | `runboard/collector` | little | parse remote command output | - | - |
| Deployment scripts, preview, diagnostics, configuration, logs | `scripts`, `deploy`, `preview`, `platform/target/diagnostics`, `config` | - | - | - | - |

### Interactions that matter

* **Lock and no lock.** Connect, disconnect, switch and the cleanup of a dead port hold
  `operationLock`. `OnTransportFault` (reader thread), `OnProviderFault` (loop thread) and `Dispose`
  (window thread) write the same fields without it.
* **Waiting in a circle.** The lock holder waits for a loop and for a reader; the reader's callback
  starts a cleanup that waits for the lock; the loop's callback writes the connection state.
* **One line, many readers.** A typed line is read by whoever owns the terminal when it arrives,
  and an answer may belong to a question given up on seconds ago.
* **Two terminals on the board.** `appctl start` blocks the console for as long as the application
  runs, so `appctl stop` comes from elsewhere, and the two share only two files and signals.
* **Two clocks and a lossy line.** The applications on the board live on what the host sends: quota
  frames on request, runboard frames at intervals. Either may be lost, cut or glued to the next, the
  clocks of both sides may be set back, and no side sees what the other one shows.

`hazards` in `PROJECT.json` names each of these at its line with the property that watches it, or
says why there is none yet.

## 2. Plan

In order of importance; a tick marks what exists.

1. [x] `AppRegistry`, `SerialDeviceConnection`: the host's control state under all its threads.
   `SerialDeviceConnection` extends `AppRegistry`; a dialogue with the board is one step with every
   outcome.
2. [x] `SerialDeviceConnectionProofs`: types, coherence, frames apart, commands and Running; the
   handles, the cleanup and the cause of a loss.
3. [x] `BoardController`: the dialogues one chunk at a time, with shell, launcher and application.
4. [x] `Appctl`: the launcher with two terminals, signals and a trap.
5. [x] `ProviderSession`: the two loops over a stream of chunks, push back, the local process with
   its request/response timeout, Dispose in another thread; `ProviderLifecycle`: what
   `SerialDeviceConnection` assumes of a session, refined by it.
6. [x] `CodexMonitor`: the program on the board as one loop between a lossy line, a clock and its
   screen; `CodexQuota`: its parser against the host's, its dates.
7. [x] `RunBoardHost`, `RunBoardTarget`, and `RunBoard` which composes them over a line that loses
   bytes, with the page of `RunBoardScreen`.
8. [x] `TargetFonts`, `CodexScreen`, `RunBoardScreen`, `TargetDrawing`: texts, places, strokes, bars.
9. [x] `OabiDivision` and `OabiDivisionProofs`: the division routines, for every width of a word.
   `TargetAlgorithms` puts items 6, 8 and 9 before TLC over bounded inputs; `TargetAlgorithmsProofs`
   proves the two parsers, the dates, strokes, bars and colours for all of them.
10. [x] `BoardTerminal` (who owns the terminal) and `BoardDialogue` (what each call may answer), which
    `Appctl` and `BoardController` implement. The outcomes of `StopDialogue`, `SwitchStart` and
    `ConnectProbe` in `SerialDeviceConnection` are compared with it by reading only: a call is one
    step there and several here.
11. [ ] `LineBuffer`: the limits of the pending buffers (1024 to 255 characters), before and after
    extraction of lines, in the controller and both sessions.
12. [ ] `ControlWindow`: view model, reconnect timer and cached snapshot over an abstract connection;
    `MockDeviceConnection` as a second implementation of it.
13. [x] `AppctlProofs` (the desktop, the console), `CodexMonitorProofs` (what is given back, lines,
    screen).
14. [x] `ProviderSessionProofs` (every safety property of a session and its refinement of
    `ProviderLifecycle`), `BoardControllerProofs` (what each answer is worth), `RunBoardProofs` (whole
    and recent frames), `AsksBeforeStale` in `CodexMonitorProofs`: with them each safety property of
    a state machine that a passing run checks is a theorem.
15. [x] The two refinements of item 10 as theorems.
16. [ ] The limits of item 11 in `BoardControllerProofs`.

## 3. Models and code

### AppRegistry

The registry is a record `[state, available, current]`; the conditions under which `BeginStart` and
`BeginStop` throw are `CanBeginStart` and `CanBeginStop`. The class has no lock, and the reader's and
the loop's handlers call it while an operation is inside one of its methods, so a method is not a
step: `calls` holds, for each thread, the method it is inside of, the assignment it stands at
(`Statements`) and the entries a loop has still to visit; `RegistryStep` makes one assignment. A
condition and the one assignment it guards are a single step; the loops visit the entries in one
order, whichever it is. So the mixtures of the code are there, the lasting one included: `SetUnknown` on the reader's
thread around the last assignments of `CompleteStart` or `SetCurrent` leaves a current application
whose card says Unknown, until the next connect. What stays true is `RegistryCoherent`; what does not
is `FaultClearsCurrent` (section 4). Error texts and display names are left out. `Qtopia` is one
of the applications, and never one that the board can start (`BoardApps`).

### SerialDeviceConnection

| State | Code |
|---|---|
| `conn`, `registry`, `transport` | the fields `connectionState`, `registry`, `transport` |
| `calls` | which method of the registry each thread is inside of, and where (`AppRegistry`) |
| `port`, `pump` | life of each `BufferedSerialTransport`, and where its reader is in `OnTransportFault` |
| `op`, `queue` | who holds `operationLock`, at which statement and with which locals; who waits for it |
| `provider`, `orphans` | the session in `codexProvider`/`runBoardProvider`; loops that outlived their `Dispose` |
| `closing`, `closingPort` | progress of `MainForm`'s closing (cancel the token, `Dispose`) |
| `board`, `drift` | what the board really runs; whether that changed by itself since the host looked |

The lock holder is a program counter, `op.pc`. Statements between which no other thread can see a
difference are one step; each assignment of a shared field is a step of its own. That is so of two
registry calls in a row (`SwitchBackToQtopia`, then `SwitchFailed`; `SwitchBeginStop`, then
`SwitchStopped`), of the reader that runs before `transport` refers to it (`ConnectOpen`,
`ConnectOpened`), and of a provider's `Start`, which for runboard returns only after its first frame
(`ProviderCreated`, `ProviderStarts`). `Commit` sets `connectionState` and enters the registry's
method that follows. Each catch
clause is a step (`ConnectThrows`, `ConnectCancelled`, `SwitchFailed`, `SwitchToError`,
`SwitchCancelled`). The common tear-down (`CancelProvider`, `JoinProvider`, `DetachTransport`,
`CloseTransport`) is `StopProviderSessions` and `CloseTransportAsync`. A dialogue with the board is
one step with all outcomes the board allows: confirmed, done but not confirmed, not done, a write
that throws. `drift` keeps the properties honest: the host cannot know that an application exited,
so statements about what it shows carry `~drift`, and only `ApplicationExits` or an unconfirmed
dialogue sets it. The wait for a loop may expire (`JoinExpires`) for a provider that is not in
`FrameFirst`: codex's `Dispose` waits 17 s for a loop that may be 25 s in `ReadQuota`, runboard's
first kills the worker its loop reads from. The loop lives on in `orphans`.

Not modelled here: the buffer and what the loops exchange (`ProviderSession`), discovery of
ports beyond "there is no candidate, it does not open, it opens".

### ProviderSession and ProviderLifecycle

One session of either class (`app`), from before `Start` to after `Dispose`.

| State | Code |
|---|---|
| `phase`, `pc` | `Start` and the task `loop`: which statement comes next |
| `incoming`, `pending`, `stopped` | the chunk in hand (`pending`, `incoming` of `Run`); `pending` and `Stopped` of `BoardApplicationSession` |
| `wire`, `buffer` | all the board has sent; the buffer of `BufferedSerialTransport` |
| `procs`, `provider`, `made`, `lost` | local processes with their pipes; the one of the field `provider` or `source`; one whose constructor runs; those that no object will dispose of |
| `sequence`, `got` | number of the request under way, and the one that the answer in hand belongs to |
| `disposer`, `expired` | progress of `Dispose`, which another thread runs; whether its wait expired |

A line is a head and an end that may arrive apart, and the stop marker, which is searched for in a
chunk before lines are formed, is cut once more, inside the text that is searched for. `Pump`
appends one such symbol. `CodexReads` takes the whole buffer and is followed by `PushBack` or by
`Consume`, one line at a time; a request leads through `CreateBegins`, `CreateEnds`, `Ask`, `Answer`
and `Write`. The runboard loop reads, drops what holds no marker, and goes from `RunBoardSends`
through the same `Ask`, `Answer` and `Write`. Answers carry the number of their request although
the codex process is always asked with the same id: the number is what `AnswersFresh` compares, not
something the code looks at. `NoAnswer` stands for the expiry of a wait, a cancelled read and the
end of a process.

`Dispose` has four steps, because the codex session's wait may expire and both threads then use the
field `provider`. `lost` names processes that the code cannot stop: one whose constructor threw (a
`RealCodexProvider` whose initialize call is not answered), and the worker of a `Start` that
`Dispose` of the whole connection overtook.

`ProviderLifecycle` is a session as `SerialDeviceConnection` sees it: its phases, cancellation,
the return of `Dispose`, and when frames are written. `KeepsLifecycle` is the refinement. It is
here that a failure is only reported while nobody has called `Dispose`, and that only the
session that cannot interrupt its request gives up waiting.

### BoardController

`mode` and `pending` are the class's fields. `call` is the method that runs. The line has two
directions: `stdin`, lines typed and not yet read on the board, and `rx`, symbols on their way back.
A line in `rx` is a symbol for its head and one for its end, because a chunk may end inside a line;
symbols of different lines run together make a line of foreign text. A loop that polls until its
deadline is a reading step (`ObserveReads`, `SyncReads`, `ReadyReads`, `StopReads`, `OutputReads`)
that takes any prefix of `rx`, plus `TimesOut`/`ObserveEnds`. Time is therefore arbitrary: any
dialogue may give up at any moment and its answers arrive later. `NewController` is what callers do
before the next operation; `given` remembers the mode they confirmed. At the other end, `board` is the owner of the terminal; the shell, appctl
and the application read the next line of `stdin` and answer. The kernel and the desktop write
`Chatter`. The terminal echoes a typed line when it arrives or when it is read (`TerminalEchoes`,
`ShellReads`), which is why `IsMarkerLine` has to tell the echo from the answer.

`BoardDialogue` is what the callers get: methods that answer, what an answer of true says of the board,
and when a start may be commanded. `KeepsDialogue` is the refinement. The mode and whether the caller
confirmed it are the controller's, the owner of the terminal is the board's, and `order` is whether a
start command is among the lines not read yet; `stdin`, `rx`, markers and the pending buffer have no
counterpart, so every line that is echoed, cut or late must leave the abstract state alone or be one of
its steps. Two of them carry the weight: `Command` wants an idle board, and `Answer(TRUE)` the truth.

### Appctl

One `appctl` process per terminal, its position `pc`; the files `current-app` and `current-pid`;
application processes with their parents. `desktop` says whether a desktop was started and is not up
yet (`"starting"`), is up (`"running"`), or both; `dying` names the killed ones that `ps` still shows,
by who killed them. The script does not wait for either: `Spawn` puts `qpe.sh` into the background and
`Settle` is the end of its two seconds, while `DesktopAppears` comes when it likes; `See`, `KillAll` and
`Sleep` are the three commands of line 113, and `DesktopDies` may come after them, unless `DiesInTime`
says that a second is enough. `qpe`, `today` and the other processes of the desktop count as one. A test of the files and its use
are separate steps. Signals are modelled by what the shell does with them: dash runs a trap only
after its foreground child has exited, a shell without the trap dies at once, and the children of a
shell killed with `-9` live on. `list` and `status` change nothing; `status` is the operator
`Status`. `KeepsTerminal` compares it with `BoardTerminal`, the same owners that `BoardController` and
`BoardDialogue` have: `Owner` is the application while one lives or is about to, the launcher before and
after it, else the shell. `Fail`, from the launcher to the clean-up without an application between them, is
the failing write of `current-pid`; `BoardController` has no such step. A process number is not used again while a file or another process knows it, and a
desktop that was started comes up if it is given the time.

### CodexMonitor

| State | Code |
|---|---|
| `pc`, `mode` | where `main` is; how it was started (`--serial` or standard input) |
| `resources` | the open port, its raw mode, the mapped display: what `fb_close` and `input_backend_close` give back |
| `chunk`, `frame`, `overflow` | `bytes`, `frame` with `length`, and `overflow` of `process_input` |
| `five`, `week`, `age`, `waited`, `outstanding` | `quota_state`; the differences of `target_now` to `last_receive_target` and `last_request_target`; `request_outstanding` |
| `screen`, `last` | what the display shows; `last_status`, `last_updated_age`, `last_header_minute` |
| `wire`, `asks`, `halfAsk` | cells on the way to the board; whole requests on the way back, and a request cut in the middle |
| `came`, `asked`, `faults`, `steppedBack` | bookkeeping of the properties and bounds: the line as it was sent, requests since the last answer |

One turn of the loop is `Read`, then one step for each cell read (`Keep`, `TakeQuit`, `TakeQuota`,
`DropLine`), `Ask`, `Show` and `Pause`. A quota frame is two cells, its head with the five-hour
fields and its tail with the weekly ones and the time, because that is where a cut answer makes a
difference; a cut inside a field is a cell of its own. Times are scaled down: 5, 60 and 120 s become
1, 2 and 4, a minute 3. The clock may be set back once. The host answers a request whole, in part,
or never, types lines for somebody else, and stops.

### CodexQuota, CodexScreen, TargetFonts, TargetDrawing, RunBoardScreen

Functions, with the names of the code. A line is the sequence of its pieces between `<`, `|` and
`>`, a text of a field a sequence of digits; the host's `ProtocolParser.TryParse` is the reference
`parse_quota_frame` is compared with. `FrameAgrees` names the lines on which they differ: a repeated
name, an inner `>`, an empty field, a number beyond a 32-bit `long`. .NET's parser also takes a
leading `+` and spaces around a number, which no encoder writes and which are left out. The loops over
digits are recursive functions (`Reading`, `HostReading`), of which the proofs can speak. Dates are in
minutes and have no width of their own, so `DatesAssumption` keeps the years to those of a 32-bit time.
A font is the width and the lowest row of each glyph; a text that is drawn is the box its pixels
lie in, with the number of characters of it that must not be cut (`needed`: the label in front of a
name, all of any other text), and a screen is the set of its texts. `draw_header`, `draw_footer`, `draw_screen`,
`draw_experiment`, `draw_matrix_experiment` and so on are those of the two programs, without colours.
`TargetDrawing` has the pixels of strokes, frames and bars, and the blending of a glyph's alpha; the
loop of `draw_line` is a recursive function over the positions of the pen.

### RunBoardHost, RunBoardTarget, RunBoard

| State | Code |
|---|---|
| `state`, `failures`, `claimed`, `age` | `FreshnessTracker` of each provider; the time since its last success by the wall clock and in truth |
| `due`, `kept` | `_next_due_at`, `_last_experiments` |
| `host`, `quits` | the loop of `RunBoardApplicationProviderSession` and the quit lines after it |
| `phase`, `resources`, `line`, `overflow` | `main` of `runboard.c` |
| `shown` | for the server's and the quota's part of the screen, the frame it came from |
| `wire`, `written` | cells of frames on the line; how many lines may still lose some |

`Collect` is `RunBoardAggregator.collect`: it asks the providers that are due, each with any
outcome. It reads the time once, before it asks, and stamps a success with that; the time the answers
take is part of the pause that follows (`Pass`). `Frame` is what `encode_state` says of it. A frame is a head with the length, one cell for
the server, one for the quota, more for the experiments, and a tail with the checksum; the line may
lose any run of cells of what is written, also the newline. `ParseOk` compares length and checksum as
`parse_rb1` does: a checksum is right for exactly the payload it was made of. A "long" reading makes
a frame that exceeds the program's buffer. `MapsNothing` is the `mmap` that fails with a number which
is not `MAP_FAILED`: the program dies at its first pixel with the port open.

### OabiDivision

`divide_unsigned` as a machine with one step for each bit, and the wrappers that take and restore
the signs, over words of `W` bits; `Pow` is the table of the powers of two. `ToWord` and `ToLong` are
the conversions of C between the two types.

### TargetAlgorithms

The module that puts the functions above before TLC: a behaviour either runs `OabiDivision` or stands
for one sample of a function's input. The instance chooses the samples (section 4).

## 4. Runs

| Run | Instance | What it shows |
|---|---|---|
| `serial_safety` | 2 applications and Qtopia, 2 transports, connect, switch, a closing window, faults, failing writes, expiring waits | the registry stays coherent; commands meet the board they are meant for, and no frame of a provider gets among them; Running is true; no handle is lost; a cleanup spares the new port; a loss has a cause |
| `serial_liveness` | runboard and Qtopia, 2 transports, connect, disconnect, switch, faults, fairness | the lock is released; a dead port is dropped; a dead provider shows |
| `provider_sessions` | either session, 2 local processes, `Dispose` at any moment | the board gets the answer to its own request, never a late one; text left for the controller is in order and keeps the stop marker; no process is left that an object knows of, even if both threads dispose of it; the loop ends; the life cycle that the connection expects |
| `controller_dialogues` | 2 markers, callers that confirm a mode and callers that do not | the start command only meets a shell; starts and stops of a caller that confirmed the mode mean what they return although answers come late; a console found through a marker is one; every step is one of `BoardDialogue` |
| `appctl_console` | start and stop on one terminal, `appctl qtopia` on another, failing writes, a desktop that takes any time to come and go | one application; QTOPIA means idle; the terminal changes hands as in `BoardTerminal` |
| `appctl_desktop` | start on one terminal, stop on another, qtopia on both | the desktop returns whoever kills whom |
| `codex_target` | 2 quotas, both ways to start, 1 fault (a lost or cut request or answer, a foreign line), one clock step | the screen always shows what state and clock say; `STALE` appears only after four requests in vain; each line is treated as it was sent, however reads cut it; the display comes back to `LIVE`; a stop line ends the program; whoever ends it gets the terminal back |
| `runboard_feed` | two providers with different intervals, any outcome of each probe, the first 2 lines lossy, one clock step | a frame is shown whole or not at all; what it calls fresh is no older than its interval; a server that stays away is shown as offline in the end; a quit line ends the program with everything given back |
| `target_algorithms` | 5-bit division on all arguments; quota lines with any two changes; every day of 1970 to 2105 with six offsets, in its first and last hours; screens at their narrowest and widest; all alphas over the fields of a 565 pixel and an empty one; strokes to 7 pixels either way; bars from 2 pixels | `/` and `%` are C's; the two quota parsers agree; dates are the calendar's; nothing on the screens covers or leaves what it should not, bars and blends keep their limits; but for three named places (`Cramped`) only names are cut, and labels, words and numbers are whole |

Each property of these runs has a mutant in the module it is about: a dropped guard, a missing
wait, an echo taken for the answer, a forgotten restore. With the mutant in place TLC finds that
property violated under the same configuration.

Deadlock is not checked: after the window has closed, after a board has gone quiet or when no one
types a command these systems rightly stop. That the lock holder is never stuck is
`LockReleased`.

### Disagreements with the documents

Three runs end in a counterexample to something a comment or a document says; `findings` quotes the
words and the line. In short:

| Run | Behaviour |
|---|---|
| `serial_fault_during_connect` | the port dies after `IsFaulted` was read; connect ends in Connected, the cleanup then drops the transport, and the timer leaves a Connected host alone (`ConnectedHasTransport`) |
| `codex_mixed_quota` | an answer that was cut and the next one form one line with each field twice; the board takes the first of each and shows the five-hour quota of one frame beside the weekly quota of another (`FramesWhole`) |
| `runboard_offline_page` | while the server is offline the aggregator still sends the experiments it last knew, and the card of the second one is painted over the OFFLINE page, instead of the quotas (`SecondCardApart`) |

These statements are in the modules too. They do not hold either, and no run is spent on them. The
named configuration shows a counterexample; where a run is named instead, add the property to it:

| Property | Behaviour | Against |
|---|---|---|
| `SingleWriter` (`SerialTwoWriters.cfg`) | the 17 s that `Dispose` waits for the codex loop expire while the loop waits 10 s for initialize and 15 s for an answer; the switch then talks to the board while the loop may still write | `ApplicationProviderSessions.cs:42-44` |
| `FaultClearsCurrent` (`SerialFaultKeepsCurrent.cfg`) | the port dies while a switch or a connect is inside a method of the registry, which then names its application after the reader has cleared it: the connection is lost and an application is current | `docs/windows-control-phase2-integration.md:141` |
| `DisplayExclusive` (`AppctlDisplay.cfg`) | after `appctl stop` the desktop needs more than two seconds to come up; the next start does not see it, kills nothing, and both draw on the display | `docs/deployment/SERIAL_OWNERSHIP.md:12` |
| `SecondProgressWhole` (`TargetSecondCard.cfg`) | the second card gives `PROGRESS 31%` 110 pixels, three less than it needs, and shows `PROGRESS 3...` | `apps/runboard/preview/test_preview_render.py:102` |
| `RunningHasProvider` (`serial_safety`) | a provider dies between its start and `CompleteStart`; nobody notices and the card shows Running | `docs/windows-control-phase2-integration.md:266` |
| `StopNeverGuesses` (`controller_dialogues`) | in mode Unknown a cut line or kernel text counts as the console's; stop returns true while the application runs | `docs/architecture/APP_PLATFORM.md:50` |
| `AttachKeepsRequest` (`controller_dialogues`) | the request that revealed the application is put behind a part of the next line | `docs/windows-control-phase2-integration.md:350` |
| `OneApplication` (`appctl_desktop`) | `appctl stop` kills the shell that waits, not the application; a second one can start | `docs/architecture/APP_PLATFORM.md:38` |

More behaviours of the code are in the models without a run of their own. `Dispose`, which
takes no lock, may find no provider to stop just before a connect starts one. `DesktopReturns` fails
with `DiesInTime = FALSE`: whoever cleans up takes a killed desktop that is still in `ps` for a running
one, and nobody starts another. It fails with `WriteMayFail = TRUE` too, since line 114 of `appctl`
returns without restoring it. If a write of the stop
dialogue throws, the handler fails only the target and the old application stays Stopping. A codex
process whose initialize call fails is not stopped, and each request of the board starts another.
The runboard loop looks at each chunk alone, so a stop marker that arrives in two is dropped and
frames go on to the console until `Dispose`.

What the target's models show or leave as a premise, without a run that fails:

* Three places of the runboard screen are too narrow for their longest values (`Cramped`):
  `UPDATED 100H AGO` is cut as the second card's progress is, and so is a seed of three digits or more
  behind a data set's name, or any behind a name of ten characters. A quota of `88%` or `100%` is a few
  pixels wider than its place of 30.
* The limit of a runboard line, 767 characters, counts its header and checksum, so a payload of 749
  or more never arrives, although `test_target_layout.py:230-238` accepts payloads up to 767. Nothing
  on the host limits a frame. `OutageShown` assumes that frames fit (`kept # "long"`).
* The board never ages a runboard frame: if the host stops sending, the last one stays, with its age.
* The board reads 96 bytes of a runboard line a second, so a quit line behind a frame of 700 bytes is
  read seven or eight seconds later; the host's wait for `APPSTOP` may be over by then.
* A quit line behind a line that lost its end is a part of that line and not obeyed; the premises of
  `StopObeyed` and `QuitStops` say so.
* At a `>` inside a line `frame_field` never returns (`FrameAgreesWithHost` admits `Hangs` there and
  nowhere else). Numbers beyond a 32-bit `long` wrap, since the overflow test of line 513 compares
  with a value that no `long` exceeds.
* A quota frame has no checksum: digits lost within a field are another quota. `CodexMonitor` loses
  ends of frames, not digits.
* If the kernel cannot map the display, `mmap` of the runtime returns a negative error number that is
  not `MAP_FAILED`, and either program dies at the first pixel with the line raw (`MapsNothing`).
* `draw_line` never ends for most slanted lines, for instance from (0, 0) to (-7, -6); both programs
  only draw level and upright ones (`FrameTrue`).
* The large words `IDLE` and `ERROR` are drawn in a font of digits and show nothing (`unseen` in
  `NumbersWhole`).
* The pages for ERROR and UNKNOWN cannot be reached through the aggregator, whose server probe never
  fails terminally.

### Bounds and why they are enough

* **Transports: 2.** The races are between a dead transport and its successor. A closed transport
  that no one refers to is used again under the same name (`Free`), so the number of reconnects is
  not bounded, only the number alive together.
* **Applications: 2 and Qtopia.** A switch has an old and a new application; the third is the
  desktop, which is handled apart. Codex and runboard differ in `FrameFirst`: only the runboard
  session writes before `Start` returns, and only it can fail there.
* **Calls: one of each kind at a time.** The window's flags allow no more. `serial_safety` and the
  violation run have connect, switch and the closing window, with two applications; `serial_liveness` has
  connect, disconnect and switch, with the one application whose loop is waited for without limit and
  that reports its death (the wait for codex may expire and can block nobody). A disconnect is a
  connect's tear-down without what follows, and the theorems are about all calls together.
* **Local processes: 2, request numbers modulo 3.** A process is used again once it is dead and
  nobody refers to it, so their number over time is not bounded; with two there is one in use and
  one that was lost or is being made. At most one request is unanswered when the next is made by
  mistake, so three numbers tell them apart.
* **`MaxWire` = 5**: a new line begins only if fewer symbols were sent. That is a request and a stop
  marker, or part of a line, a marker and text behind it, with initial data or without.
* **Markers: 2, reused** when nowhere in flight. Of two markers one is current and one stale.
* **`MaxTyped` = 2, `MaxHeard` = 2.** They guard only new calls, requests and chatter: no call
  begins with more than two lines unread, or more than one whole line unheard. Within a call
  both queues grow further. A late answer and a foreign line before the right one are both there.
* **Processes: 4, terminals: 2.** Two run at once, one number may be left in the file, one is
  spare. Desktops are not counted: a second one that is started is the same desktop, and killed ones are
  told apart by their killer. One application is not registered, for the early return of `load_app`.
* **Codex target: 5 cells on the wire, 3 in a line, 2 in a read, 1 fault.** A line of three cells holds
  a cut answer and the one after it; a line of four is over-long; a read ends inside a line. The times
  1, 2, 4 keep the order of 5, 60 and 120 s, and leave room for the four requests of
  `AsksBeforeStale` (`TriesAssumption`; the theorem is about any times that leave it). Ages are not told apart above `StaleAfter + MaxPause`. One fault at a time is
  what `Recovers` is about; a second fault repeats the situation of the first.
* **Runboard feed: intervals 2 and 1, offline after 2 failures, ages to 4.** One provider is due at
  every frame, one at some; a clock set back by 1 moves a due time behind a frame. Losses are limited
  to the first two lines written, since `ShownWhole` needs two frames glued together; a board whose
  line has no end is covered by the frame after it.
* **Algorithms.** Five bits of a word let every pair of arguments be divided in any of five routines;
  the width matters nowhere but in `Pow`, and the theorem is about every width. Quota lines: a good
  frame with two changes, with the texts at the ends of every range and at every number where an
  integer wraps, for a long of 27 bits, which TLC's own integers leave room for. Dates: every day
  an unsigned 32-bit time can name, at the beginning and end of its first and last hours, where an offset
moves it to another day. The theorems about both are for every line, width, day and time of day.
* Symmetry is used for transports and markers, which are plain identities, and
  not in runs with liveness properties.

### Fairness

`SerialDeviceConnection`: weak fairness of the lock holder's next step, the loop's, Dispose's and
each reader's, since these are threads that run and every wait of theirs is bounded or ends with a
thread that runs. Strong fairness of `AcquireCleanup`, because `SemaphoreSlim` hands the lock to a
queued asynchronous waiter, so that repeated calls cannot pass over it for ever. Calls, faults, exits
of applications, expiring waits and closing have none. `ProviderSession`: weak fairness of the loop and of `Dispose`, two
threads whose waits are bounded; nothing is assumed of the board or of the local processes.
`CodexMonitor`: weak fairness of the program, whose loop never ends and whose reads do not block, and
of the host's answer to a request it has received, which faults may still spoil. `RunBoard`: weak
fairness of the program and of the session's loop, which sends after each interval. `BoardController` has no liveness property: every dialogue ends by a
deadline, which the model abstracts to a step that may be taken at any time.

## 5. Proofs

`SerialDeviceConnectionProofs` proves, for any sets of applications and transports, any `FrameFirst` and
writes that may fail or not:

| Theorem | Statement |
|---|---|
| `TypeCorrect` | `Spec => []TypeOK` |
| `Coherence` | `Spec => []RegistryCoherent` |
| `FramesKeptApart` | `Spec => []FramesApart` |
| `CommandsFit` | `Spec => []CommandFitsBoard` |
| `RunningTrue` | `Spec => []RunningIsTrue` |

The assumptions are those of the constants in `AppRegistry` and `SerialDeviceConnection`, which TLC
evaluates in every run.

How the proofs go:

* `CallInv` says which methods each thread can be inside of, and the lock holder at which position
  (`WellCalled`, `HolderAt`); `PumpInv` that a reader enters the registry once, with a dead port.
  They make the interleaving of assignments finite for the argument: a reader is in `SetUnknown`, a
  loop in `Fail`, and only the holder in a method that makes a card Running.
* `OpShape` says to whom each program counter belongs and where the tear-down it is in returns to. It is needed
  because `CloseTransport` and `JoinProvider` jump to `op.next`, of which the type says nothing.
* `RunInv`: while the holder is inside `SetCurrent` or `CompleteStart`, the Running cards are among
  those its loop has still to visit and its own. From that two never run, whatever a `SetUnknown` on
  another thread does between two visits.
* `NameInv`: a Running card is current, or is about to be named by the holder, or is about to be
  cleared by a `SetUnknown` that has removed the current application. What threatens it is a method
  that clears the current application after a test (`CompleteStop`, `Fail`): its own card is not
  Running then, and the loop that fails is joined before another provider starts, so its `Fail` cannot
  overlap with a method that names. That join is what a closing window can pass by, hence `~Cancelled`.
* `NoLoopUnderCommand` strengthens `FramesApart`: no loop in all positions from the join up to
  the start of a provider, not only where a command is under way, no frame loop among the abandoned
  ones, and a provider is found cancelled only through `Dispose`.
* `BoardKnown` strengthens both statements about the board: at `start` and `handover` the board is
  idle; where a stop is under way it is the old application or has drifted; at the positions in
  `NoneRunning` no card runs but those the method under way has still to clear (`Clearing`), so an
  operation that changes the board makes none wrong; elsewhere a Running card is right unless the
  board has drifted, and so is the one that the holder is about to make Running.

Its second part is about the handles, under the same assumptions:

| Theorem | Statement |
|---|---|
| `HandlesKept` | `Spec => []HandlesOwned` |
| `CleanupSpares` | `Spec => CleanupSparesHealthy` |
| `LossCaused` | `Spec => LossHasCause` |

`HandlesOwned` is not inductive: nothing in it says that a handle about to be closed by one thread is
not the current one of another. `HandleInv` adds that (`OpHandles`: while the lock holder closes,
resets or opens there is no current transport; a cleanup only tears down a dead one. `PortHandles`:
the current transport is not closed, `Dispose` has taken it before it closes it, a reader that
reports a fault has no open port). `CleanupSparesHealthy` follows because a cleanup checks that the
transport it was queued for is still current, after it has the lock, and no one but the holder
replaces it. For `LossHasCause`, `LossInv` says that a connect that can still be given up has not been
reported as Connected.

`AppctlProofs` proves of the launcher, for any numbers of terminals, processes and applications:

| Theorem | Statement |
|---|---|
| `LauncherTypes` | `Spec => []TypeOK` |
| `DesktopComesBack` | `Spec => []DesktopReturns`, if the writes below `/tmp` succeed (`WriteMayFail = FALSE`) and a killed desktop is gone within the second that is slept (`DiesInTime = TRUE`) |
| `ConsoleAlone` | `Spec => [](OneApplication /\ QtopiaMeansIdle)`, if every terminal but one runs at most `qtopia` (`OneStarts`) |
| `ConsoleKeepsTerminal` | `Spec => KeepsTerminal` under the same premise: the launcher implements `BoardTerminal` |

No premise can be dropped: a failing write leaves `start` after it killed the desktop, a desktop that
lives on is taken for a running one, and with a second terminal `appctl stop` kills the shell that
waits and not the application (section 4). `DesktopInv` is that while there is no desktop some process
is in a position from which it starts one (`Restored`), that only a process that sleeps has a dying one
(`KillersSleep`), and that nobody knows the number of a process that may yet kill the desktop
(`EarlyUnknown`), so that no stop can kill it between that and its first position that restores. A
stop can kill a process that restores; it is then itself in such a position and is not its own target
(`SoundInv`: a stop never looks at its own number, and the commands that signal have no trap that
could delay them). `ConsoleInv` is that there is one process at most on the terminal of the starts,
hence a number in the file that is alive is a start's, no stop gets as far as a signal, and every
application is the child of the start that waits for it. An `appctl qtopia` elsewhere may clear the
files of a start between its check and its own writes; that start still holds its terminal, and no
other can begin there. Then `Owner` depends on the position of that one start (`OwnerBy`), and each of its
steps is a change of hand of `BoardTerminal` or none.

`CodexMonitorProofs` proves of the program on the board, for any quotas, any length of a line, a read
and a link, and any number of faults:

| Theorem | Statement |
|---|---|
| `Restored` | `Spec => []TerminalRestored` |
| `LinesTreatedExactly` | `Spec => LinesExact` |
| `ScreenIsTrue` | `Spec => []ScreenTrue` |
| `StaleOnlyAfterAsking` | `Spec => []AsksBeforeStale` |

`ResInv` says what can be held at each position of the start. `LineInv` relates the buffer to the line
as it was sent: `overflow` is set exactly when the line became longer than `LineMax`, otherwise the
buffer is the line so far. `ScreenInv` is that the display is what `draw_screen` would draw, or what it
drew for the three cached values; they determine all that is drawn as long as none of
them changes, which is the argument for the partial repaint. `PaceInv` says how old a quota can be
at the k-th request since (`Due`), and that its age is that and the time since the last request.
`TriesAssumption` is what `AsksBeforeStale` needs of the numbers, that so many requests fit; for the 5,
60 and 120 s of the code and pauses of a second 13 do, for the instance that TLC checks 4.

`ProviderSessionProofs` proves of a session of either class, for any number of local processes, any
modulus of the request numbers and any length of what the board sends:

| Theorem | Statement |
|---|---|
| `SessionInvariant` | `Spec => []IInv` |
| `SessionTypes` | `Spec => []TypeOK` |
| `SessionAnswersFresh` | `Spec => []AnswersFresh` |
| `SessionTextInOrder` | `Spec => []TextInOrder` |
| `SessionStopMarkerKept` | `Spec => []StopMarkerKept` |
| `SessionWorkersStopped` | `Spec => []WorkersStopped` |
| `SessionKeepsLifecycle` | `Spec => KeepsLifecycle`: the session implements `ProviderLifecycle` |

`IInv` has a part for each. `Shape` says at which statements a session of each class and phase can be;
the refinement rests on it. `WorkInv` says whose each live process is: `Kill` and the null that follows
it in `Dispose` are two steps between which the loop may drop the same provider, so at `disposer =
"null"` either the field is empty and the loop at its end, or what it names is dead. `AskInv`
strengthens `AnswersFresh`: a process that can be asked has nothing in its pipes, one that was asked
has its one request or its answer there, since a failed request kills the process before the next.
`TextInv` is that what is pending, in hand and in the buffer is together the end of what was sent; that it
stays so through `PushBack` is the associativity of concatenation, and that `Consume` takes whole
lines needs the positions of their ends. The marker is kept because the loop leaves by itself only
after the stop line or a chunk with the marker in it, and puts that chunk back. In the refinement each step of the loop or
of `Dispose` is shown to be a step of the life cycle or to leave its variables alone.

`BoardControllerProofs` proves of the dialogues, for any set of markers and any number of lines in
flight:

| Theorem | Statement |
|---|---|
| `ControllerInvariant` | `Spec => []IInv` |
| `ControllerTypes` | `Spec => []TypeOK` |
| `ControllerStartMeetsShell` | `Spec => []StartMeetsShell` |
| `ControllerAnswersTrue` | `Spec => []AnswersTrue`: what a start, a stop and the console methods answer |
| `ControllerKeepsDialogue` | `Spec => KeepsDialogue`: the controller implements `BoardDialogue` |

Neither `StartMeetsShell` nor a part of `AnswersTrue` is inductive, since an answer read now was printed
many steps ago. `SyncInv` carries the argument: the marker of the synchronisation under way is the last
line typed, and once the line that the shell prints for it is among what the host has not read,
everything typed before has been consumed, the shell is idle, and no application speaks behind it. That
survives the chunking because `LineAt` gives a line only for its own two symbols; it fails for the echo,
which is there before the shell has read anything. `StartInv` follows when the start command is typed
(one such command, to an idle shell), `ReadyInv` says that an `APPREADY` or a request that can still be
read while `start` waits is this start's, and `AnswerInv` that a shell once found stays until the next
call. `CallInv` relates the mode to what the caller confirmed. The refinement maps each step to one of
`BoardDialogue`: a read that ends a method with true is an `Answer` because `AnswerInv`, after the step,
has what `True` asks for; the typing of the start command is `Command` because the marker found before
it makes the board idle (`SyncFinds`); the shell's reading of it is `Obey` because `StartInv` knows of
one such line only; all other reads, echoes and timeouts leave the abstract variables alone.

`RunBoardProofs` proves of the feed, for any intervals, numbers of failures, caps on times, sizes of
the line buffer and the link, and any set-back of the clock:

| Theorem | Statement |
|---|---|
| `FeedInvariant` | `Spec => []IInv` |
| `FeedShownWhole` | `Spec => []ShownWhole` |
| `FeedFreshIsRecent` | `Spec => FreshIsRecent` |

For `ShownWhole` it is enough that line and wire hold cells of frames, whatever was lost: the checksum
in the tail is right for one payload only, so `parse_rb1` accepts a line only if server and quota have
the frame of the tail (`Found` takes the first cell of a part). `FreshIsRecent` needs more than the
present state: `FreshInv` bounds the age of a fresh provider by its due time, so that it is asked again
before it is too old; a clock that is set back moves due times away by that step, which the bound
allows for, unless the provider is so late that no step can save it. Times that are capped keep their order (`CappedIs`, `EarlierIs`). `ClaimInv` says that
an age by the wall clock falls short of the true one by the step at most. `TargetAssumption` is that the
buffer holds more than a frame's three first parts; `HostAssumption` that intervals are not zero.

`OabiDivisionProofs` proves of the division routines, for any width `W` of a word and its table of
powers (`WidthAssumption`, `PowAssumption`):

| Theorem | Statement |
|---|---|
| `DivisionTypeCorrect` | `Spec => []TypeOK` |
| `LoopCorrect` | `Spec => []DivisionInvariant`: quotient times divisor plus what is left is the dividend |
| `NoShiftOverflow` | `Spec => []ShiftFits`: the subtracted value fits a word, as the comment in the loop claims |
| `DivisionCorrect` | `Spec => []DividesRight`: each routine returns C's quotient or remainder, except the least long divided by -1 |

`IInv` is the types, `DivisionInvariant` and `DividesRight` together. `DivisionInvariant` says that the
quotient so far times the divisor plus what is left is the dividend, that what is left is below the
divisor shifted by the bits decided, and that the quotient is a multiple of that power of two: so the
bit that `quotient |= 1 << bit` sets is clear and the step is an addition (`BitClear`). The comparison
`dividend >> bit >= divisor` is one with the shifted divisor (`ShiftCompare`). After the last bit the
bound is the divisor itself, which determines quotient and remainder. For the signed routines they
are put together from those of the magnitudes (`SignedResult`), the least long, which is its own
negation, being a case of its own (`LeastLong`).

`TargetAlgorithmsProofs` proves, of what `TargetAlgorithms` samples:

| Theorem | Statement |
|---|---|
| `FramesReadAlike` | `AllSpec => []FrameAgreesWithHost`, for lines of any length and any largest long |
| `DatesRight` | `AllSpec => []DateIsCalendar`, for any years of a 32-bit time and any offset up to a day |
| `PaintedRight` | `AllSpec => []PaintsRight`, for strokes and bars of any size and fields of any length up to eight bits |

The assumptions say what a sample is: `LinesAssumption` that lines are sequences of pieces,
`DatesAssumption` which years and offsets there are, `AnswersAssumption` that the answers which are no
value are none, and differ, `StrokesAssumption`, `BlendsAssumption` and `BarsAssumption` that sizes are
numbers, that a field's value fits the field, and that a bar has room for its border.

The two readings of a number are recursive functions over its digits. That they have the values their
equations give (`ReadingIs`, `HostReadingIs`) and that they agree as long as the size so far fits into a
long (`ReadAlike`) is shown by induction; since no prover here can apply the library's theorems on
induction, which take a predicate, `SetInduction` states it of a set, and follows from the order of the
naturals being well founded. From there on it is bookkeeping: without an inner `>` every piece is
reached (`ReachesAll`), so `frame_field` answers (`FieldValue`) and the parser does not hang
(`NeverHangs`); without repeated names the first field of a name is the only one, and both sides find the
same value for it (`FieldsAgree`). For the numbers the exception `Oversized` is needed exactly where
`Wrapped` changes a value.

For dates, the code counts years from March, so that the leap day is the last of its year, and in eras of
400 years. `YearParts` splits a year into era, century, four years and rest; `DayOfEra` is then linear in
them, and `YearOfEra` shows that the formula of the code (take away one day for every 1460, give one back
for every 36524, take the last) leaves 365 days a year. `LastDay` is that a year with 366 days is one
before a leap year. `MonthTable` and `MarchDays` are the formula for months. `DayCount` ties both to the
calendar's own count of days, with leap years counted by `LeapYears`. (The calendar is this development's own
reference; the lemma `CalendarAddsUp` checks that its table and formula are one calendar.)

`draw_line` is a recursive function over the positions of the pen, and one with a solution although most
slanted lines never stop: the pixels of all positions in every set of positions that holds the first
and is closed under the step (`DrawnIs`). `LevelLine` and `UprightLine` then go by induction over what is
left of the line, backwards as well as forwards, and `FrameIs` puts four of them together. A bar needs
only that a number of hundredths of a width grows with the number (`PartOf`). For the colours, `BlendIs` is
that a mix moves from one component to the other as alpha grows, and `ScaledThereAndBack` that scaling a
field's value to eight bits and back loses nothing, so that alpha 1 starts from the colour that is there.

Model-checked only:

* Liveness (`LockReleased`, `LoopEnds`, `Recovers`, `StopObeyed`, the outage of the feed and so on),
  which is out of the prover's reach, as is `ENABLED`.
* `TextsWhole`: it is about particular texts in particular fonts, that is about characters of strings
  and decimal digits of numbers, of which the provers know nothing.
* The disagreements of section 4: there TLC's counterexample is the result.

## 6. Not modelled

* The length limits of the host's buffers (item 11).
* The runboard worker's collector: parsers of remote command output over SSH; `RunBoardHost` has
  their outcome. The forced collection and the publisher's file are development aids.
* The reconnect timer and the view model's cached snapshot: the calls they make are there, at any
  time, but not the decision when to make them (item 12). The mock device with them.
* The bridges: command-line programs that call the same dialogues one after the other.
* The memory-model view of fields read without a lock: a read sees the last write.
* On the board: the failure of the desktop's restart, reuse of process numbers, a full `/tmp` other
  than as a failing write of the two files; a clock that reads 0; the bytes behind the runboard line
  buffer, which a line of just its length touches.
* Colours and the pixels inside a glyph's box; the debug lines runboard writes back; the preview
  builds, font tools and framebuffer probe, which draw or print once and end.
* Logging, configuration files and the scripts run by hand.
