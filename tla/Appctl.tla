------------------------------- MODULE Appctl -------------------------------
(***************************************************************************)
(* The board's launcher (platform/board/appctl/appctl), a shell script:    *)
(* every invocation is a process of its own, and several of them share the *)
(* two state files below /tmp, the display that Qtopia or an application   *)
(* draws on, and the signals they send each other.                         *)
(*                                                                         *)
(* A terminal runs one appctl at a time.  The serial console is one; the   *)
(* other is the independent control channel that "appctl stop" is for,     *)
(* since the console is taken by the application that appctl start runs in *)
(* the foreground.  A test of the shared state and the use of its result   *)
(* are separate steps; reading a file and looking the process up in ps is  *)
(* one.  The commands list and status, which change nothing, are the       *)
(* definition Status.  A number of a process is not used again while a     *)
(* file or another process knows it.                                       *)
(*                                                                         *)
(* The desktop (qpe with its helpers) comes and goes at its own pace:      *)
(* /bin/qpe.sh runs in the background and is no qpe yet for qtopia_running *)
(* and killall, and a killed qpe is still in ps until it has gone.  What   *)
(* appctl waits for are the 2 s and the 1 s, not the desktop.              *)
(***************************************************************************)
EXTENDS Naturals, FiniteSets

CONSTANTS
    Apps,         \* applications somebody may ask for
    Registered,   \* those with a valid app.conf and an executable
    NoApp,        \* an absent current-app file
    Pids,         \* process numbers
    NoPid,        \* an absent current-pid file, init as a parent
    Terminals,    \* where appctl is run from
    Commands,     \* the commands each terminal gives
    WriteMayFail, \* may a write below /tmp fail?
    DiesInTime    \* is a killed desktop gone within the second start waits?

ASSUME AppctlAssumption ==
    /\ Registered \subseteq Apps /\ NoApp \notin Apps
    /\ NoPid \notin Pids
    /\ "none" \notin Terminals
    /\ Commands \in [Terminals -> SUBSET {"start", "stop", "qtopia"}]
    /\ WriteMayFail \in BOOLEAN /\ DiesInTime \in BOOLEAN

VARIABLES
    proc,        \* the appctl processes
    currentApp,  \* the file current-app
    currentPid,  \* the file current-pid
    apps,        \* application processes, each with its parent
    desktop,     \* desktops: "starting" (qpe.sh), "running" (qpe)
    dying        \* the starts whose killall a desktop has not obeyed yet

files == <<currentApp, currentPid>>
display == <<desktop, dying>>
vars == <<proc, files, apps, display>>

Pcs == {"none", "check", "stale", "load", "see", "killall", "sleep", "writeApp", "writePid", "trap",
        "launch", "wait", "look", "signal", "poll", "clear", "restore", "spawn", "settle"}
Processes == [pc : Pcs, cmd : {"none", "start", "stop", "qtopia"}, term : Terminals \cup {"none"},
              app : Apps \cup {NoApp}, target : Pids \cup {NoPid}, trapped : BOOLEAN]

Alive(p) == p \in Pids /\ proc[p].pc # "none"
Live == {p \in Pids : Alive(p)}

TypeOK ==
    /\ proc \in [Pids -> Processes]
    /\ currentApp \in Apps \cup {NoApp} /\ currentPid \in Pids \cup {NoPid}
    /\ apps \subseteq [app : Apps, parent : Pids \cup {NoPid}]
    /\ desktop \subseteq {"starting", "running"} /\ dying \subseteq Pids

NoProc == [pc |-> "none", cmd |-> "none", term |-> "none", app |-> NoApp,
           target |-> NoPid, trapped |-> FALSE]

\* The board has booted: /tmp is empty, the desktop runs.
Init ==
    /\ proc = [p \in Pids |-> NoProc]
    /\ currentApp = NoApp /\ currentPid = NoPid
    /\ apps = {} /\ desktop = {"running"} /\ dying = {}

At(p, pc) == proc[p].pc = pc
Goto(p, pc) == proc' = [proc EXCEPT ![p].pc = pc]
Exit(p) == proc' = [proc EXCEPT ![p] = NoProc]

-----------------------------------------------------------------------------
Begin(p, t, cmd, a) ==
    /\ ~Alive(p) /\ p # currentPid /\ \A i \in apps : i.parent # p
    /\ \A q \in Live : proc[q].term # t /\ proc[q].target # p
    /\ proc' = [proc EXCEPT ![p] = [NoProc EXCEPT !.cmd = cmd, !.app = a, !.term = t,
                    !.pc = IF cmd = "stop" THEN "look" ELSE "check"]]
    /\ UNCHANGED <<files, apps, display>>

\* start, qtopia: refused while the process in current-pid exists.
Check(p) ==
    /\ At(p, "check")
    /\ IF Alive(currentPid) THEN Exit(p)
       ELSE Goto(p, IF proc[p].cmd = "qtopia" THEN "clear"
                    ELSE IF currentPid # NoPid THEN "stale" ELSE "load")
    /\ UNCHANGED <<files, apps, display>>

ClearState == currentApp' = NoApp /\ currentPid' = NoPid

ClearStale(p) ==
    /\ At(p, "stale") /\ ClearState
    /\ Goto(p, "load")
    /\ UNCHANGED <<apps, display>>

\* load_app.
Load(p) ==
    /\ At(p, "load")
    /\ IF proc[p].app \in Registered THEN Goto(p, "see") ELSE Exit(p)
    /\ UNCHANGED <<files, apps, display>>

QtopiaRunning == "running" \in desktop \/ dying # {}

See(p) ==
    /\ At(p, "see")
    /\ Goto(p, IF QtopiaRunning THEN "killall" ELSE "writeApp")
    /\ UNCHANGED <<files, apps, display>>

KillAll(p) ==
    /\ At(p, "killall")
    /\ desktop' = desktop \ {"running"}
    /\ dying' = IF "running" \in desktop THEN dying \cup {p} ELSE dying
    /\ Goto(p, "sleep")
    /\ UNCHANGED <<files, apps>>

Sleep(p) ==
    /\ At(p, "sleep") /\ (DiesInTime => p \notin dying)
    /\ Goto(p, "writeApp")
    /\ UNCHANGED <<files, apps, display>>

WriteApp(p) ==
    /\ At(p, "writeApp")
    /\ \/ currentApp' = proc[p].app /\ Goto(p, "writePid")
       \/ WriteMayFail /\ Exit(p) /\ UNCHANGED currentApp
    /\ UNCHANGED <<currentPid, apps, display>>

WritePid(p) ==
    /\ At(p, "writePid")
    /\ \/ currentPid' = p /\ Goto(p, "trap")
       \/ WriteMayFail /\ Goto(p, "clear") /\ UNCHANGED currentPid
    /\ UNCHANGED <<currentApp, apps, display>>

\* The handler is set and APPREADY printed.
Trap(p) ==
    /\ At(p, "trap")
    /\ proc' = [proc EXCEPT ![p].pc = "launch", ![p].trapped = TRUE]
    /\ UNCHANGED <<files, apps, display>>

Launch(p) ==
    /\ At(p, "launch")
    /\ apps' = apps \cup {[app |-> proc[p].app, parent |-> p]}
    /\ Goto(p, "wait")
    /\ UNCHANGED <<files, display>>

\* Mutant: the application is started in the background.
ReapAtOnce(p) ==
    /\ At(p, "wait")
    /\ proc' = [proc EXCEPT ![p].pc = "clear", ![p].trapped = FALSE]
    /\ UNCHANGED <<files, apps, display>>

\* The application has exited.  A TERM that came meanwhile (target = p) runs
\* the handler now, which keeps the trap; otherwise the trap is removed.  Both
\* clean up.
Reap(p) ==
    /\ At(p, "wait") /\ \A i \in apps : i.parent # p
    /\ proc' = [proc EXCEPT ![p].pc = "clear", ![p].trapped = (proc[p].target = p)]
    /\ UNCHANGED <<files, apps, display>>

\* cleanup_after_app: clear_state ...
Clear(p) ==
    /\ At(p, "clear") /\ ClearState
    /\ Goto(p, "restore")
    /\ UNCHANGED <<apps, display>>

\* Mutant: the desktop is left to whoever killed it.
RestoreForgets(p) ==
    /\ At(p, "restore") /\ Exit(p)
    /\ UNCHANGED <<files, apps, display>>

\* ... and restore_qtopia, which does nothing to a desktop in ps.
Restore(p) ==
    /\ At(p, "restore")
    /\ IF QtopiaRunning THEN Exit(p) ELSE Goto(p, "spawn")
    /\ UNCHANGED <<files, apps, display>>

Spawn(p) ==
    /\ At(p, "spawn") /\ desktop' = desktop \cup {"starting"}
    /\ Goto(p, "settle")
    /\ UNCHANGED <<files, apps, dying>>

Settle(p) ==
    /\ At(p, "settle") /\ Exit(p)
    /\ UNCHANGED <<files, apps, display>>

-----------------------------------------------------------------------------
(* appctl stop.                                                            *)

Look(p) ==
    /\ At(p, "look")
    /\ IF Alive(currentPid)
       THEN proc' = [proc EXCEPT ![p].pc = "signal", ![p].target = currentPid]
       ELSE Goto(p, "clear")
    /\ UNCHANGED <<files, apps, display>>

\* Every child of a process that dies is init's.
Orphaned(q) == {IF i.parent = q THEN [i EXCEPT !.parent = NoPid] ELSE i : i \in apps}

\* kill: a shell without the trap dies; one that waits for its foreground
\* child handles the signal when the child has exited (its target becomes
\* itself); one that has not launched it yet handles the signal at once.
SendTerm(p) ==
    LET q == proc[p].target IN
    /\ At(p, "signal")
    /\ \/ ~Alive(q) /\ Goto(p, "poll")
       \/ /\ Alive(q) /\ ~proc[q].trapped
          /\ proc' = [proc EXCEPT ![p].pc = "poll", ![q] = NoProc]
       \/ /\ Alive(q) /\ proc[q].trapped
          /\ proc' = [proc EXCEPT ![p].pc = "poll", ![q].target = q,
                                  ![q].pc = IF @ = "launch" THEN "clear" ELSE @]
    /\ UNCHANGED <<files, apps, display>>

\* Five seconds are more than a shell needs that does not wait for its child.
Poll(p) ==
    LET q == proc[p].target IN
    /\ At(p, "poll")
    /\ \/ ~Alive(q) /\ Goto(p, "clear") /\ UNCHANGED apps
       \/ /\ Alive(q) /\ proc[q].pc \in {"wait", "clear", "restore", "spawn", "settle"}
          /\ proc' = [proc EXCEPT ![p].pc = "clear", ![q] = NoProc]
          /\ apps' = Orphaned(q)
    /\ UNCHANGED <<files, display>>

AppExits(i) ==
    /\ apps' = apps \ {i}
    /\ UNCHANGED <<proc, files, display>>

\* qpe.sh has brought the desktop up; a second one is the same desktop.
DesktopAppears ==
    /\ "starting" \in desktop /\ desktop' = {"running"}
    /\ UNCHANGED <<proc, files, apps, dying>>

DesktopDies(p) ==
    /\ dying' = dying \ {p}
    /\ UNCHANGED <<proc, files, apps, desktop>>

Step(p) ==
    \/ Check(p) \/ ClearStale(p) \/ Load(p) \/ See(p) \/ KillAll(p) \/ Sleep(p)
    \/ WriteApp(p) \/ WritePid(p) \/ Trap(p) \/ Launch(p) \/ Reap(p)
    \/ Clear(p) \/ Restore(p) \/ Spawn(p) \/ Settle(p)
    \/ Look(p) \/ SendTerm(p) \/ Poll(p)

Next ==
    \/ \E p \in Pids, t \in Terminals : \E cmd \in Commands[t] :
          \E a \in (IF cmd = "start" THEN Apps ELSE {NoApp}) : Begin(p, t, cmd, a)
    \/ \E p \in Pids : Step(p)
    \/ \E i \in apps : AppExits(i)
    \/ DesktopAppears
    \/ \E p \in dying : DesktopDies(p)

Spec == Init /\ [][Next]_vars

-----------------------------------------------------------------------------
(***************************************************************************)
(* What appctl status answers.                                             *)
(***************************************************************************)
Status == IF currentApp # NoApp /\ Alive(currentPid) THEN "APP"
          ELSE IF QtopiaRunning THEN "QTOPIA" ELSE "STOPPED"

(***************************************************************************)
(* At most one application runs, hence one reader of the serial line, even *)
(* if somebody clears the state files meanwhile.  Not if a stop comes from *)
(* another terminal: it kills the shell that waits, not the application.   *)
(***************************************************************************)
OneApplication == Cardinality(apps) <= 1

(***************************************************************************)
(* When appctl status could be asked on the console and answers QTOPIA,    *)
(* which the host takes for an idle board, no application runs.            *)
(***************************************************************************)
QtopiaMeansIdle ==
    (\A p \in Live : proc[p].cmd # "start") /\ Status = "QTOPIA" => apps = {}

(***************************************************************************)
(* The board is never left blank: when no appctl and no application runs,  *)
(* a desktop does or is on its way, whoever killed whom.  If DiesInTime is *)
(* false, who cleans up may take the dying desktop in ps for a running one *)
(* and leave it at that, and this fails.                                   *)
(***************************************************************************)
DesktopReturns == Live = {} /\ apps = {} => desktop # {}

(***************************************************************************)
(* Start and stop, run from one terminal, hand it from the shell to the    *)
(* application and back as the host expects, whoever else runs appctl      *)
(* qtopia: APPREADY comes before the application, and the shell returns    *)
(* only when it has exited.                                                *)
(***************************************************************************)
Starts(pcs) == \E p \in Live : proc[p].cmd = "start" /\ proc[p].pc \in pcs

\* Who owns the terminal of the starts.
Owner == IF apps # {} \/ Starts({"launch"}) THEN "app"
         ELSE IF Starts({"wait", "clear", "restore", "spawn", "settle"}) THEN "exit"
         ELSE IF Starts(Pcs) THEN "launch" ELSE "shell"

Board == INSTANCE BoardTerminal WITH owner <- Owner
KeepsTerminal == Board!Terminal

-----------------------------------------------------------------------------
(***************************************************************************)
(* A statement the code does not keep.  The desktop and an application     *)
(* draw on the display together (docs/deployment/SERIAL_OWNERSHIP.md:12    *)
(* says they must not): restore_qtopia waits 2 s for qpe.sh, not for the   *)
(* desktop, and a start that does not see it in ps yet kills nothing.      *)
(***************************************************************************)
DisplayExclusive == apps # {} => ~QtopiaRunning
=============================================================================
