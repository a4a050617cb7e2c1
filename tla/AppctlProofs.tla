----------------------------- MODULE AppctlProofs -----------------------------
(***************************************************************************)
(* What the launcher guarantees for every number of processes, terminals   *)
(* and applications.                                                       *)
(***************************************************************************)
EXTENDS Appctl, FiniteSetTheorems, TLAPS

-----------------------------------------------------------------------------
(***************************************************************************)
(* Types.  They need to know that a start that has loaded its application  *)
(* knows a real one, and that a stop neither signals itself nor sets a     *)
(* trap.                                                                   *)
(***************************************************************************)
StartPcs == {"see", "killall", "sleep", "writeApp", "writePid", "trap", "launch", "wait"}
StopPcs == {"look", "signal", "poll"}

Sound(p) ==
    /\ proc[p].pc \in StartPcs => proc[p].app \in Apps
    /\ proc[p].pc = "look" => currentPid # p
    /\ proc[p].pc \in {"signal", "poll"} => proc[p].target # p
    /\ proc[p].pc \in StopPcs => ~proc[p].trapped

SoundInv == TypeOK /\ \A p \in Pids : Sound(p)

\* A process that is somewhere exists.
LEMMA SomewhereLives ==
    ASSUME NEW p \in Pids, proc[p].pc # "none"
    PROVE  p \in Live
BY DEF Live, Alive

LEMMA NoProcType == NoProc \in Processes /\ NoProc.pc = "none"
BY DEF NoProc, Processes, Pcs

\* What the move of one process must keep.
SoundMove(p, r, cp) ==
    /\ r \in Processes
    /\ r.pc \in StartPcs => r.app \in Apps
    /\ r.pc = "look" => cp # p
    /\ r.pc \in {"signal", "poll"} => r.target # p
    /\ r.pc \in StopPcs => ~r.trapped

LEMMA SoundMoves ==
    ASSUME SoundInv, NEW p \in Pids, NEW r, SoundMove(p, r, currentPid'),
           proc' = [proc EXCEPT ![p] = r],
           \A q \in Pids \ {p} : proc[q].pc = "look" => currentPid' # q
    PROVE  proc' \in [Pids -> Processes] /\ \A q \in Pids : Sound(q)'
<1>1. proc \in [Pids -> Processes] /\ r \in Processes
  BY DEF SoundInv, TypeOK, SoundMove
<1>2. proc'[p] = r /\ \A q \in Pids \ {p} : proc'[q] = proc[q]
  BY <1>1
<1>3. Sound(p)'
  BY <1>2 DEF Sound, SoundMove
<1>4. \A q \in Pids \ {p} : Sound(q)'
  BY <1>2 DEF Sound, SoundInv
<1> QED
  BY <1>1, <1>3, <1>4

LEMMA ExitSound ==
    ASSUME SoundInv, NEW p \in Pids, Exit(p), currentPid' = currentPid
    PROVE  proc' \in [Pids -> Processes] /\ \A q \in Pids : Sound(q)'
<1>1. SoundMove(p, NoProc, currentPid')
  BY NoProcType DEF SoundMove, StartPcs, StopPcs
<1>2. \A q \in Pids \ {p} : proc[q].pc = "look" => currentPid' # q
  BY DEF SoundInv, Sound
<1> QED
  BY <1>1, <1>2, SoundMoves DEF Exit

\* A process that goes on, elsewhere than to the start of a stop.
LEMMA GotoSound ==
    ASSUME SoundInv, NEW p \in Pids, NEW pc \in Pcs, Goto(p, pc),
           pc \in StartPcs => proc[p].app \in Apps,
           pc = "poll" => proc[p].pc = "signal",
           pc \notin {"look", "signal"},
           \A q \in Pids \ {p} : proc[q].pc = "look" => currentPid' # q
    PROVE  proc' \in [Pids -> Processes] /\ \A q \in Pids : Sound(q)'
<1> DEFINE r == [proc[p] EXCEPT !.pc = pc]
<1>1. proc[p] \in Processes /\ Sound(p)
  BY DEF SoundInv, TypeOK
<1>2. r \in Processes /\ r.pc = pc /\ r.app = proc[p].app /\ r.target = proc[p].target
      /\ r.trapped = proc[p].trapped
  BY <1>1 DEF Processes
<1>3. SoundMove(p, r, currentPid')
  BY <1>1, <1>2 DEF SoundMove, Sound, StopPcs
<1>4. proc' = [proc EXCEPT ![p] = r]
  BY DEF Goto
<1> QED
  BY <1>3, <1>4, SoundMoves

LEMMA BeginSound ==
    ASSUME SoundInv, NEW p \in Pids, NEW t \in Terminals, NEW cmd \in Commands[t],
           NEW a \in Apps \cup {NoApp}, Begin(p, t, cmd, a)
    PROVE  SoundInv'
<1> DEFINE r == [NoProc EXCEPT !.cmd = cmd, !.app = a, !.term = t,
                    !.pc = IF cmd = "stop" THEN "look" ELSE "check"]
<1>1. cmd \in {"start", "stop", "qtopia"}
  BY AppctlAssumption
<1>2. r \in Processes /\ r.pc \in {"look", "check"} /\ r.trapped = FALSE
  BY <1>1 DEF Processes, NoProc, Pcs
<1>3. SoundMove(p, r, currentPid')
  BY <1>2 DEF SoundMove, Begin, files, StartPcs, StopPcs
<1>4. proc' = [proc EXCEPT ![p] = r]
  BY DEF Begin
<1>5. \A q \in Pids \ {p} : proc[q].pc = "look" => currentPid' # q
  BY DEF SoundInv, Sound, Begin, files
<1> QED
  BY <1>3, <1>4, <1>5, SoundMoves DEF SoundInv, TypeOK, Begin, files, display

\* While current-pid stays, a stop that looks still sees another process.
LEMMA LooksStay ==
    ASSUME SoundInv, UNCHANGED files \/ currentPid' = NoPid
    PROVE  \A q \in Pids : proc[q].pc = "look" => currentPid' # q
BY AppctlAssumption DEF SoundInv, Sound, files

LEMMA CheckSound ==
    ASSUME SoundInv, NEW p \in Pids, Check(p) \/ ClearStale(p) \/ Load(p) \/ See(p) \/ KillAll(p) \/ Sleep(p)
    PROVE  SoundInv'
<1>1. CASE Check(p)
  <2>1. Exit(p) \/ Goto(p, "clear") \/ Goto(p, "stale") \/ Goto(p, "load")
    BY <1>1 DEF Check
  <2>2. UNCHANGED <<files, apps, display>>
    BY <1>1 DEF Check
  <2>3. proc' \in [Pids -> Processes] /\ \A q \in Pids : Sound(q)'
    BY <2>1, <2>2, LooksStay, ExitSound, GotoSound DEF Pcs, StartPcs, files
  <2> QED
    BY <2>2, <2>3 DEF SoundInv, TypeOK, files, display
<1>2. CASE ClearStale(p)
  <2>1. proc' \in [Pids -> Processes] /\ \A q \in Pids : Sound(q)'
    BY <1>2, LooksStay, GotoSound DEF ClearStale, ClearState, Pcs, StartPcs
  <2> QED
    BY <1>2, <2>1 DEF ClearStale, ClearState, SoundInv, TypeOK, display
<1>3. CASE Load(p)
  <2>1. proc' \in [Pids -> Processes] /\ \A q \in Pids : Sound(q)'
    <3>1. CASE proc[p].app \in Registered
      BY <1>3, <3>1, AppctlAssumption, LooksStay, GotoSound DEF Load, Pcs
    <3>2. CASE proc[p].app \notin Registered
      BY <1>3, <3>2, ExitSound DEF Load, files
    <3> QED
      BY <3>1, <3>2
  <2> QED
    BY <1>3, <2>1 DEF Load, SoundInv, TypeOK, files, display
<1>4. CASE See(p) \/ KillAll(p) \/ Sleep(p)
  <2>1. proc[p].app \in Apps
    BY <1>4 DEF See, KillAll, Sleep, At, SoundInv, Sound, StartPcs
  <2>2. Goto(p, "killall") \/ Goto(p, "sleep") \/ Goto(p, "writeApp")
    BY <1>4 DEF See, KillAll, Sleep
  <2>3. UNCHANGED <<files, apps>>
    BY <1>4 DEF See, KillAll, Sleep
  <2>4. proc' \in [Pids -> Processes] /\ \A q \in Pids : Sound(q)'
    BY <2>1, <2>2, <2>3, LooksStay, GotoSound DEF Pcs
  <2>5. desktop' \subseteq {"starting", "running"} /\ dying' \subseteq Pids
    BY <1>4 DEF See, KillAll, Sleep, SoundInv, TypeOK, display
  <2> QED
    BY <2>3, <2>4, <2>5 DEF SoundInv, TypeOK, files, display
<1> QED
  BY <1>1, <1>2, <1>3, <1>4

LEMMA WriteSound ==
    ASSUME SoundInv, NEW p \in Pids, WriteApp(p) \/ WritePid(p)
    PROVE  SoundInv'
<1>0. proc[p] \in Processes /\ Sound(p)
  BY DEF SoundInv, TypeOK
<1>1. CASE WriteApp(p)
  <2>1. proc[p].app \in Apps
    BY <1>0, <1>1 DEF Sound, WriteApp, At, StartPcs
  <2>2. Exit(p) \/ Goto(p, "writePid")
    BY <1>1 DEF WriteApp
  <2>3. \A q \in Pids : proc[q].pc = "look" => currentPid' # q
    BY <1>1 DEF WriteApp, SoundInv, Sound
  <2>4. proc' \in [Pids -> Processes] /\ \A q \in Pids : Sound(q)'
    <3>1. CASE Exit(p)
      BY <1>1, <3>1, ExitSound DEF WriteApp
    <3>2. CASE Goto(p, "writePid")
      BY <3>2, <2>1, <2>3, GotoSound DEF Pcs
    <3> QED
      BY <2>2, <3>1, <3>2
  <2> QED
    BY <1>1, <2>1, <2>4 DEF WriteApp, SoundInv, TypeOK, display
<1>2. CASE WritePid(p)
  <2>1. proc[p].app \in Apps
    BY <1>0, <1>2 DEF Sound, WritePid, At, StartPcs
  <2>2. Goto(p, "trap") \/ Goto(p, "clear")
    BY <1>2 DEF WritePid
  <2>3. \A q \in Pids \ {p} : proc[q].pc = "look" => currentPid' # q
    BY <1>2 DEF WritePid, SoundInv, Sound
  <2>4. proc' \in [Pids -> Processes] /\ \A q \in Pids : Sound(q)'
    BY <2>1, <2>2, <2>3, GotoSound DEF Pcs
  <2> QED
    BY <1>2, <2>4 DEF WritePid, SoundInv, TypeOK, display
<1> QED
  BY <1>1, <1>2

LEMMA TrapLaunchSound ==
    ASSUME SoundInv, NEW p \in Pids, Trap(p) \/ Launch(p)
    PROVE  SoundInv'
<1>0. proc[p] \in Processes /\ proc \in [Pids -> Processes] /\ Sound(p)
  BY DEF SoundInv, TypeOK
<1>1. proc[p].app \in Apps
  BY <1>0 DEF Sound, Trap, Launch, At, StartPcs
<1>2. UNCHANGED files /\ \A q \in Pids \ {p} : proc[q].pc = "look" => currentPid' # q
  BY LooksStay DEF Trap, Launch
<1>3. CASE Trap(p)
  <2> DEFINE r == [proc[p] EXCEPT !.pc = "launch", !.trapped = TRUE]
  <2>1. r \in Processes /\ r.pc = "launch" /\ r.app = proc[p].app
    BY <1>0 DEF Processes, Pcs
  <2>2. SoundMove(p, r, currentPid')
    BY <1>1, <2>1 DEF SoundMove, StopPcs
  <2>3. proc' = [proc EXCEPT ![p] = r]
    BY <1>0, <1>3 DEF Trap
  <2>4. proc' \in [Pids -> Processes] /\ \A q \in Pids : Sound(q)'
    BY <1>2, <2>2, <2>3, SoundMoves
  <2> QED
    BY <1>3, <2>4 DEF Trap, SoundInv, TypeOK, files, display
<1>4. CASE Launch(p)
  <2>1. proc' \in [Pids -> Processes] /\ \A q \in Pids : Sound(q)'
    BY <1>1, <1>2, <1>4, GotoSound DEF Launch, Pcs
  <2>2. apps' \subseteq [app : Apps, parent : Pids \cup {NoPid}]
    BY <1>1, <1>4 DEF Launch, SoundInv, TypeOK
  <2> QED
    BY <1>4, <2>1, <2>2 DEF Launch, SoundInv, TypeOK, files, display
<1> QED
  BY <1>3, <1>4

LEMMA CleanupSound ==
    ASSUME SoundInv, NEW p \in Pids,
           Reap(p) \/ Clear(p) \/ Restore(p) \/ Spawn(p) \/ Settle(p)
    PROVE  SoundInv'
<1>0. proc[p] \in Processes /\ proc \in [Pids -> Processes]
  BY DEF SoundInv, TypeOK
<1>1. CASE Reap(p)
  <2> DEFINE r == [proc[p] EXCEPT !.pc = "clear", !.trapped = (proc[p].target = p)]
  <2>1. r \in Processes /\ r.pc = "clear"
    BY <1>0 DEF Processes, Pcs
  <2>2. SoundMove(p, r, currentPid')
    BY <2>1 DEF SoundMove, StartPcs, StopPcs
  <2>3. proc' = [proc EXCEPT ![p] = r]
    BY <1>0, <1>1 DEF Reap
  <2>4. proc' \in [Pids -> Processes] /\ \A q \in Pids : Sound(q)'
    BY <1>1, <2>2, <2>3, LooksStay, SoundMoves DEF Reap
  <2> QED
    BY <1>1, <2>4 DEF Reap, SoundInv, TypeOK, files, display
<1>2. CASE Clear(p)
  <2>1. proc' \in [Pids -> Processes] /\ \A q \in Pids : Sound(q)'
    BY <1>2, LooksStay, GotoSound DEF Clear, ClearState, Pcs, StartPcs
  <2> QED
    BY <1>2, <2>1 DEF Clear, ClearState, SoundInv, TypeOK, display
<1>3. CASE Restore(p) \/ Spawn(p) \/ Settle(p)
  <2>1. Exit(p) \/ Goto(p, "spawn") \/ Goto(p, "settle")
    BY <1>3 DEF Restore, Spawn, Settle
  <2>2. UNCHANGED <<files, apps, dying>> /\ desktop' \subseteq {"starting", "running"}
    BY <1>3 DEF Restore, Spawn, Settle, display, SoundInv, TypeOK
  <2>3. proc' \in [Pids -> Processes] /\ \A q \in Pids : Sound(q)'
    BY <2>1, <2>2, LooksStay, ExitSound, GotoSound DEF Pcs, StartPcs, files
  <2> QED
    BY <2>2, <2>3 DEF SoundInv, TypeOK, files, display
<1> QED
  BY <1>1, <1>2, <1>3

LEMMA LookSound ==
    ASSUME SoundInv, NEW p \in Pids, Look(p)
    PROVE  SoundInv'
<1>0. proc[p] \in Processes /\ proc \in [Pids -> Processes] /\ Sound(p)
  BY DEF SoundInv, TypeOK
<1>1. proc' \in [Pids -> Processes] /\ \A q \in Pids : Sound(q)'
  <2>1. CASE Alive(currentPid)
    <3> DEFINE r == [proc[p] EXCEPT !.pc = "signal", !.target = currentPid]
    <3>1. currentPid \in Pids
      BY <2>1 DEF Alive
    <3>2. r \in Processes /\ r.pc = "signal" /\ r.target = currentPid
          /\ r.trapped = proc[p].trapped
      BY <1>0, <3>1 DEF Processes, Pcs
    <3>3. currentPid # p /\ ~proc[p].trapped
      BY <1>0 DEF Sound, Look, At, StopPcs
    <3>4. SoundMove(p, r, currentPid')
      BY <3>2, <3>3 DEF SoundMove, StartPcs
    <3>5. proc' = [proc EXCEPT ![p] = r]
      BY <1>0, <2>1 DEF Look
    <3> QED
      BY <3>4, <3>5, LooksStay, SoundMoves DEF Look
  <2>2. CASE ~Alive(currentPid)
    BY <2>2, LooksStay, GotoSound DEF Look, Pcs, StartPcs
  <2> QED
    BY <2>1, <2>2
<1> QED
  BY <1>1 DEF Look, SoundInv, TypeOK, files, display

(***************************************************************************)
(* What the steps of a stop do to it and to the process it has signalled.  *)
(***************************************************************************)
Victim(p, r) == \/ r = NoProc
                \/ \E q \in Pids : /\ q = proc[p].target /\ proc[q].trapped
                                   /\ r = [proc[q] EXCEPT !.target = q,
                                              !.pc = IF @ = "launch" THEN "clear" ELSE @]

StopMove(p, pc) ==
    LET q == proc[p].target IN
    /\ q # p
    /\ proc'[p] = [proc[p] EXCEPT !.pc = pc]
    /\ q \in Pids => proc'[q] = proc[q] \/ Victim(p, proc'[q])
    /\ \A o \in Pids \ {p, q} : proc'[o] = proc[o]
    /\ DOMAIN proc' = Pids /\ proc' = [o \in Pids |-> proc'[o]]

LEMMA StopMoves ==
    ASSUME SoundInv, NEW p \in Pids, SendTerm(p) \/ Poll(p)
    PROVE  \E pc \in {"poll", "clear"} : StopMove(p, pc) /\ (pc = "poll" => SendTerm(p))
<1> DEFINE q == proc[p].target
<1>0. proc[p] \in Processes /\ proc \in [Pids -> Processes] /\ q # p
  BY DEF SoundInv, TypeOK, Sound, SendTerm, Poll, At
<1>1. ASSUME NEW pc, Goto(p, pc)
      PROVE  StopMove(p, pc)
  BY <1>0, <1>1 DEF Goto, StopMove
<1>2. ASSUME NEW pc, q \in Pids, proc' = [proc EXCEPT ![p].pc = pc, ![q] = NoProc]
      PROVE  StopMove(p, pc)
  BY <1>0, <1>2 DEF StopMove, Victim
<1>3. ASSUME q \in Pids, proc[q].trapped,
             proc' = [proc EXCEPT ![p].pc = "poll", ![q].target = q,
                                  ![q].pc = IF @ = "launch" THEN "clear" ELSE @]
      PROVE  StopMove(p, "poll")
  <2>1. proc'[q] = [proc[q] EXCEPT !.target = q, !.pc = IF @ = "launch" THEN "clear" ELSE @]
    BY <1>0, <1>3
  <2>2. Victim(p, proc'[q])
    BY <1>3, <2>1 DEF Victim
  <2>3. /\ proc'[p] = [proc[p] EXCEPT !.pc = "poll"]
        /\ \A o \in Pids \ {p, q} : proc'[o] = proc[o]
        /\ DOMAIN proc' = Pids /\ proc' = [o \in Pids |-> proc'[o]]
    BY <1>0, <1>3
  <2> QED
    BY <1>0, <2>2, <2>3 DEF StopMove
<1>4. CASE SendTerm(p)
  <2>1. CASE Goto(p, "poll")
    BY <1>1, <1>4, <2>1
  <2>2. CASE q \in Pids /\ proc' = [proc EXCEPT ![p].pc = "poll", ![q] = NoProc]
    BY <1>2, <1>4, <2>2
  <2>3. CASE /\ q \in Pids /\ proc[q].trapped
             /\ proc' = [proc EXCEPT ![p].pc = "poll", ![q].target = q,
                                     ![q].pc = IF @ = "launch" THEN "clear" ELSE @]
    BY <1>3, <1>4, <2>3
  <2> QED
    BY <1>4, <2>1, <2>2, <2>3 DEF SendTerm, Alive
<1>5. CASE Poll(p)
  <2>1. CASE Goto(p, "clear")
    BY <1>1, <2>1
  <2>2. CASE q \in Pids /\ proc' = [proc EXCEPT ![p].pc = "clear", ![q] = NoProc]
    BY <1>2, <2>2
  <2> QED
    BY <1>5, <2>1, <2>2 DEF Poll, Alive
<1> QED
  BY <1>4, <1>5

\* The signalled process keeps its application and leaves no position of a stop.
LEMMA VictimSound ==
    ASSUME SoundInv, NEW p \in Pids, NEW q \in Pids, q = proc[p].target,
           proc'[q] = proc[q] \/ Victim(p, proc'[q]), UNCHANGED files
    PROVE  proc'[q] \in Processes /\ Sound(q)'
<1>0. proc[q] \in Processes /\ Sound(q)
  BY DEF SoundInv, TypeOK
<1>1. CASE proc'[q] = proc[q]
  BY <1>0, <1>1 DEF Sound, files
<1>2. CASE proc'[q] = NoProc
  BY <1>2, NoProcType DEF Sound, StartPcs, StopPcs
<1>3. CASE /\ proc[q].trapped
           /\ proc'[q] = [proc[q] EXCEPT !.target = q,
                             !.pc = IF @ = "launch" THEN "clear" ELSE @]
  <2>1. proc[q].pc \notin StopPcs
    BY <1>0, <1>3 DEF Sound
  <2>2. /\ proc'[q] \in Processes /\ proc'[q].app = proc[q].app
        /\ proc'[q].pc \in {"clear", proc[q].pc}
    BY <1>0, <1>3 DEF Processes, Pcs
  <2> QED
    BY <1>0, <2>1, <2>2 DEF Sound, StartPcs, StopPcs
<1> QED
  BY <1>1, <1>2, <1>3 DEF Victim

LEMMA StopSound ==
    ASSUME SoundInv, NEW p \in Pids, SendTerm(p) \/ Poll(p)
    PROVE  SoundInv'
<1>q. PICK q : q = proc[p].target
  OBVIOUS
<1>0. proc[p] \in Processes /\ proc \in [Pids -> Processes] /\ Sound(p)
  BY DEF SoundInv, TypeOK
<1>1. UNCHANGED <<files, display>>
  BY DEF SendTerm, Poll
<1>2. PICK pc \in {"poll", "clear"} : StopMove(p, pc)
  BY StopMoves
<1>3. proc'[p] \in Processes /\ Sound(p)'
  <2>1. /\ proc'[p] \in Processes /\ proc'[p].pc = pc
        /\ proc'[p].target = q /\ proc'[p].trapped = proc[p].trapped
    BY <1>0, <1>2, <1>q DEF StopMove, Processes, Pcs
  <2>2. q # p /\ ~proc[p].trapped
    BY <1>0, <1>q DEF Sound, SendTerm, Poll, At, StopPcs
  <2> QED
    BY <2>1, <2>2 DEF Sound, StartPcs
<1>4. q \in Pids => proc'[q] \in Processes /\ Sound(q)'
  BY <1>1, <1>2, <1>q, VictimSound DEF StopMove
<1>5. \A o \in Pids \ {p, q} : proc'[o] \in Processes /\ Sound(o)'
  BY <1>0, <1>1, <1>2, <1>q DEF StopMove, SoundInv, Sound, files
<1>6. proc' \in [Pids -> Processes] /\ \A o \in Pids : Sound(o)'
  <2>1. \A o \in Pids : proc'[o] \in Processes /\ Sound(o)'
    <3> TAKE o \in Pids
    <3>1. CASE o = p
      BY <1>3, <3>1
    <3>2. CASE o = q
      BY <1>4, <3>2
    <3>3. CASE o \notin {p, q}
      BY <1>5, <3>3
    <3> QED
      BY <3>1, <3>2, <3>3
  <2> QED
    BY <1>2, <2>1 DEF StopMove
<1>7. apps' \subseteq [app : Apps, parent : Pids \cup {NoPid}]
  <2>1. apps \subseteq [app : Apps, parent : Pids \cup {NoPid}]
    BY DEF SoundInv, TypeOK
  <2>2. Orphaned(q) \subseteq [app : Apps, parent : Pids \cup {NoPid}]
    <3>1. ASSUME NEW i \in apps
          PROVE  [i EXCEPT !.parent = NoPid] \in [app : Apps, parent : Pids \cup {NoPid}]
      BY <2>1
    <3> QED
      BY <2>1, <3>1 DEF Orphaned
  <2> QED
    BY <1>q, <2>1, <2>2 DEF SendTerm, Poll
<1> QED
  BY <1>1, <1>6, <1>7 DEF SoundInv, TypeOK, files, display

LEMMA SoundStep ==
    ASSUME SoundInv, [Next]_vars
    PROVE  SoundInv'
<1>1. ASSUME NEW p \in Pids, NEW t \in Terminals, NEW cmd \in Commands[t],
             NEW a \in (IF cmd = "start" THEN Apps ELSE {NoApp}), Begin(p, t, cmd, a)
      PROVE  SoundInv'
  BY <1>1, BeginSound
<1>2. ASSUME NEW p \in Pids, Step(p)
      PROVE  SoundInv'
  BY <1>2, CheckSound, WriteSound, TrapLaunchSound, CleanupSound, LookSound, StopSound DEF Step
<1>3. ASSUME NEW i \in apps, AppExits(i)
      PROVE  SoundInv'
  BY <1>3 DEF AppExits, SoundInv, TypeOK, Sound, files, display
<1>4. CASE UNCHANGED vars
  BY <1>4 DEF vars, files, display, SoundInv, TypeOK, Sound
<1>5. CASE DesktopAppears \/ \E p \in dying : DesktopDies(p)
  BY <1>5 DEF DesktopAppears, DesktopDies, SoundInv, TypeOK, Sound, files, display
<1> QED
  BY <1>1, <1>2, <1>3, <1>4, <1>5 DEF Next

LEMMA SoundInit == Init => SoundInv
BY NoProcType DEF Init, SoundInv, TypeOK, Sound, StartPcs, StopPcs

(***************************************************************************)
(* The processes, the two state files and the applications keep their      *)
(* types (appctl).                                                         *)
(***************************************************************************)
THEOREM LauncherTypes == Spec => []TypeOK
<1>1. SoundInv => TypeOK
  BY DEF SoundInv
<1> QED
  BY <1>1, SoundInit, SoundStep, PTL DEF Spec

-----------------------------------------------------------------------------
(***************************************************************************)
(* The desktop.  While there is none, some process is on its way to        *)
(* restore it; a stop that kills such a process is itself on its way.      *)
(* Who finds a dying desktop in ps and leaves it at that can do so because *)
(* its killer is in its second of sleep, where no stop knows its number.   *)
(***************************************************************************)
RestorePcs == StartPcs \cup StopPcs \cup {"clear", "restore", "spawn"}
EarlyPcs == {"check", "stale", "load", "see", "killall", "sleep", "writeApp", "writePid"}

Unknown(p) ==
    currentPid # p /\ \A q \in Pids : proc[q].pc # "none" => proc[q].target # p

EarlyUnknown == \A p \in Pids : proc[p].pc \in EarlyPcs => Unknown(p)
KillersSleep == \A p \in dying : proc[p].pc = "sleep"
Restored == desktop # {} \/ \E p \in Pids : proc[p].pc \in RestorePcs

DesktopInv == EarlyUnknown /\ KillersSleep /\ Restored

\* A step of one process that looks up no number and writes none.
LEMMA StayUnknown ==
    ASSUME EarlyUnknown, NEW p \in Pids, \A q \in Pids \ {p} : proc'[q] = proc[q],
           currentPid' \in {currentPid, NoPid},
           proc'[p].pc \in EarlyPcs => proc[p].pc \in EarlyPcs,
           proc'[p].pc # "none" => proc[p].pc # "none" /\ proc'[p].target = proc[p].target
    PROVE  EarlyUnknown'
<1> SUFFICES ASSUME NEW q \in Pids, proc'[q].pc \in EarlyPcs
             PROVE  Unknown(q)'
  BY DEF EarlyUnknown
<1>1. proc[q].pc \in EarlyPcs
  OBVIOUS
<1>2. Unknown(q)
  BY <1>1 DEF EarlyUnknown
<1>3. currentPid' # q
  BY <1>2, AppctlAssumption DEF Unknown
<1>4. ASSUME NEW o \in Pids, proc'[o].pc # "none"
      PROVE  proc'[o].target # q
  BY <1>2, <1>4 DEF Unknown
<1> QED
  BY <1>3, <1>4 DEF Unknown

\* What a step that is not a stop's does to its process.
LEMMA StepMoves ==
    ASSUME SoundInv, NEW p \in Pids, Step(p), ~SendTerm(p), ~Poll(p)
    PROVE  /\ proc[p].pc # "none"
           /\ \A q \in Pids \ {p} : proc'[q] = proc[q]
           /\ proc[p].pc # "look" => proc'[p].pc = "none" \/ proc'[p].target = proc[p].target
           /\ proc'[p].pc \in EarlyPcs => proc[p].pc \in EarlyPcs
<1>0. proc \in [Pids -> Processes] /\ proc[p] \in Processes
  BY DEF SoundInv, TypeOK
<1>1. ASSUME NEW pc, Goto(p, pc)
      PROVE  /\ proc'[p].pc = pc /\ proc'[p].target = proc[p].target
             /\ \A q \in Pids \ {p} : proc'[q] = proc[q]
  BY <1>0, <1>1 DEF Goto, Processes
<1>2. Exit(p) => proc'[p].pc = "none" /\ \A q \in Pids \ {p} : proc'[q] = proc[q]
  BY <1>0 DEF Exit, NoProc
<1>3. CASE Check(p) \/ ClearStale(p) \/ Load(p) \/ See(p) \/ KillAll(p) \/ Sleep(p) \/ WriteApp(p)
             \/ WritePid(p)
  <2>1. proc[p].pc \in EarlyPcs
    BY <1>3 DEF Check, ClearStale, Load, See, KillAll, Sleep, WriteApp, WritePid, At, EarlyPcs
  <2>2. Exit(p) \/ \E pc \in Pcs : Goto(p, pc)
    BY <1>3 DEF Check, ClearStale, Load, See, KillAll, Sleep, WriteApp, WritePid, Pcs
  <2> QED
    BY <1>1, <1>2, <2>1, <2>2 DEF EarlyPcs
<1>4. CASE Launch(p) \/ Clear(p) \/ Restore(p) \/ Spawn(p) \/ Settle(p)
  <2>1. proc[p].pc \in {"launch", "clear", "restore", "spawn", "settle"}
    BY <1>4 DEF Launch, Clear, Restore, Spawn, Settle, At
  <2>2. Exit(p) \/ \E pc \in {"wait", "restore", "spawn", "settle"} : Goto(p, pc)
    BY <1>4 DEF Launch, Clear, Restore, Spawn, Settle
  <2> QED
    BY <1>1, <1>2, <2>1, <2>2 DEF EarlyPcs
<1>5. CASE Trap(p) \/ Reap(p)
  <2>1. /\ proc[p].pc \in {"trap", "wait"} /\ proc'[p].pc \in {"launch", "clear"}
        /\ proc'[p].target = proc[p].target /\ \A q \in Pids \ {p} : proc'[q] = proc[q]
    BY <1>0, <1>5 DEF Trap, Reap, At, Processes
  <2> QED
    BY <2>1 DEF EarlyPcs
<1>6. CASE Look(p)
  <2>1. /\ proc[p].pc = "look" /\ proc'[p].pc \in {"signal", "clear"}
        /\ \A q \in Pids \ {p} : proc'[q] = proc[q]
    BY <1>0, <1>6 DEF Look, At, Goto, Processes
  <2> QED
    BY <2>1 DEF EarlyPcs
<1> QED
  BY <1>3, <1>4, <1>5, <1>6 DEF Step

LEMMA UnknownStep ==
    ASSUME SoundInv, EarlyUnknown, NEW p \in Pids, Step(p)
    PROVE  EarlyUnknown'
<1>0. proc \in [Pids -> Processes] /\ proc[p] \in Processes
  BY DEF SoundInv, TypeOK
<1>1. CASE Look(p)
  <2>1. /\ proc[p].pc = "look" /\ proc'[p].pc \in {"signal", "clear"}
        /\ proc'[p].target \in {proc[p].target, currentPid}
        /\ \A q \in Pids \ {p} : proc'[q] = proc[q]
    BY <1>0, <1>1 DEF Look, At, Goto, Processes
  <2>2. currentPid' = currentPid
    BY <1>1 DEF Look, files
  <2> SUFFICES ASSUME NEW q \in Pids, proc'[q].pc \in EarlyPcs
               PROVE  Unknown(q)'
    BY DEF EarlyUnknown
  <2>3. Unknown(q) /\ q # p
    BY <2>1 DEF EarlyUnknown, EarlyPcs
  <2>4. \A o \in Pids : proc'[o].pc # "none" => proc'[o].target # q
    BY <2>1, <2>3 DEF Unknown
  <2> QED
    BY <2>2, <2>3, <2>4 DEF Unknown
<1>2. CASE WritePid(p) /\ currentPid' = p
  <2>1. /\ proc[p].pc = "writePid" /\ proc'[p].pc \in {"trap", "clear"}
        /\ proc'[p].target = proc[p].target /\ \A q \in Pids \ {p} : proc'[q] = proc[q]
    BY <1>0, <1>2 DEF WritePid, At, Goto, Processes
  <2> SUFFICES ASSUME NEW q \in Pids, proc'[q].pc \in EarlyPcs
               PROVE  Unknown(q)'
    BY DEF EarlyUnknown
  <2>2. Unknown(q) /\ q # p
    BY <2>1 DEF EarlyUnknown, EarlyPcs
  <2>3. \A o \in Pids : proc'[o].pc # "none" => proc'[o].target # q
    BY <2>1, <2>2 DEF Unknown
  <2> QED
    BY <1>2, <2>2, <2>3 DEF Unknown
<1>3. CASE SendTerm(p) \/ Poll(p)
  <2>q. PICK q : q = proc[p].target
    OBVIOUS
  <2>1. PICK pc \in {"poll", "clear"} : StopMove(p, pc)
    BY <1>3, StopMoves
  <2>2. /\ proc[p].pc \in {"signal", "poll"} /\ currentPid' = currentPid
        /\ proc'[p].pc = pc /\ proc'[p].target = q
    BY <1>0, <1>3, <2>1, <2>q DEF SendTerm, Poll, At, files, StopMove, Processes
  <2>3. q \in Pids => proc[q].pc \notin EarlyPcs
    BY <2>2, <2>q DEF EarlyUnknown, Unknown
  <2>4. q \in Pids => /\ proc'[q].pc \notin EarlyPcs
                      /\ proc'[q].pc # "none" => proc'[q] = proc[q] \/ proc'[q].target = q
    <3> SUFFICES ASSUME q \in Pids
                 PROVE  /\ proc'[q].pc \notin EarlyPcs
                        /\ proc'[q].pc # "none" => proc'[q] = proc[q] \/ proc'[q].target = q
      OBVIOUS
    <3>1. CASE proc'[q] = proc[q]
      BY <2>3, <3>1
    <3>2. CASE proc'[q] = NoProc
      BY <3>2 DEF NoProc, EarlyPcs
    <3>3. CASE proc'[q] = [proc[q] EXCEPT !.target = q, !.pc = IF @ = "launch" THEN "clear" ELSE @]
      <4>1. proc[q] \in Processes
        BY <1>0
      <4> QED
        BY <2>3, <3>3, <4>1 DEF EarlyPcs, Processes
    <3> QED
      BY <2>1, <2>q, <3>1, <3>2, <3>3 DEF StopMove, Victim
  <2> SUFFICES ASSUME NEW o \in Pids, proc'[o].pc \in EarlyPcs
               PROVE  Unknown(o)'
    BY DEF EarlyUnknown
  <2>5. o # p /\ o # q
    BY <2>2, <2>4 DEF EarlyPcs
  <2>6. Unknown(o)
    BY <2>1, <2>5, <2>q DEF StopMove, EarlyUnknown
  <2>7. ASSUME NEW u \in Pids, proc'[u].pc # "none"
        PROVE  proc'[u].target # o
    <3>1. CASE u = p
      BY <2>2, <2>5, <3>1
    <3>2. CASE u = q
      BY <2>4, <2>5, <2>6, <2>7, <3>2 DEF Unknown
    <3>3. CASE u \notin {p, q}
      BY <2>1, <2>6, <2>7, <2>q, <3>3 DEF StopMove, Unknown
    <3> QED
      BY <3>1, <3>2, <3>3
  <2> QED
    BY <2>2, <2>6, <2>7 DEF Unknown
<1>4. CASE ~Look(p) /\ ~(WritePid(p) /\ currentPid' = p) /\ ~SendTerm(p) /\ ~Poll(p)
  <2>1. currentPid' \in {currentPid, NoPid}
    BY <1>4
       DEF Step, Check, ClearStale, Load, See, KillAll, Sleep, WriteApp, WritePid, Trap, Launch,
           Reap, Clear, Restore, Spawn, Settle, ClearState, files
  <2>2. proc[p].pc # "look"
    BY <1>4
       DEF Step, Check, ClearStale, Load, See, KillAll, Sleep, WriteApp, WritePid, Trap, Launch,
           Reap, Clear, Restore, Spawn, Settle, At
  <2> QED
    BY <1>4, <2>1, <2>2, StepMoves, StayUnknown
<1> QED
  BY <1>1, <1>2, <1>3, <1>4

\* Only who sleeps has killed a desktop that is not gone yet.
LEMMA SleepStep ==
    ASSUME SoundInv, DesktopInv, DiesInTime = TRUE, NEW p \in Pids, Step(p)
    PROVE  KillersSleep'
<1>0. proc \in [Pids -> Processes] /\ proc[p] \in Processes /\ dying \subseteq Pids
  BY DEF SoundInv, TypeOK
<1>1. CASE KillAll(p)
  <2>1. proc'[p].pc = "sleep" /\ dying' \subseteq dying \cup {p}
    BY <1>0, <1>1 DEF KillAll, Goto, Processes
  <2>2. \A q \in Pids \ {p} : proc'[q] = proc[q]
    BY <1>0, <1>1 DEF KillAll, Goto
  <2> QED
    BY <1>0, <2>1, <2>2 DEF DesktopInv, KillersSleep
<1>2. CASE SendTerm(p) \/ Poll(p)
  <2>1. PICK pc \in {"poll", "clear"} : StopMove(p, pc)
    BY <1>2, StopMoves
  <2>2. dying' = dying /\ proc[p].pc \in {"signal", "poll"}
    BY <1>2 DEF SendTerm, Poll, display, At
  <2>3. ASSUME NEW q \in dying
        PROVE  q # p /\ q # proc[p].target
    BY <1>0, <2>2 DEF DesktopInv, KillersSleep, EarlyUnknown, EarlyPcs, Unknown
  <2> QED
    BY <1>0, <2>1, <2>2, <2>3 DEF StopMove, DesktopInv, KillersSleep
<1>3. CASE ~KillAll(p) /\ ~SendTerm(p) /\ ~Poll(p)
  <2>1. dying' = dying
    BY <1>3
       DEF Step, Check, ClearStale, Load, See, KillAll, Sleep, WriteApp, WritePid, Trap, Launch,
           Reap, Clear, Restore, Spawn, Settle, Look, display
  <2>2. p \notin dying
    BY <1>3
       DEF Step, Check, ClearStale, Load, See, KillAll, Sleep, WriteApp, WritePid, Trap, Launch,
           Reap, Clear, Restore, Spawn, Settle, Look, At, DesktopInv, KillersSleep
  <2> QED
    BY <1>0, <1>3, <2>1, <2>2, StepMoves DEF DesktopInv, KillersSleep
<1> QED
  BY <1>1, <1>2, <1>3

LEMMA RestoreKept ==
    ASSUME Restored, NEW p \in Pids, desktop # {} => desktop' # {},
           proc[p].pc \in RestorePcs => proc'[p].pc \in RestorePcs,
           \A q \in Pids \ {p} : proc'[q] = proc[q]
    PROVE  Restored'
BY DEF Restored

LEMMA RestoreStep ==
    ASSUME SoundInv, DesktopInv, WriteMayFail = FALSE, NEW p \in Pids, Step(p)
    PROVE  Restored'
<1>0. proc \in [Pids -> Processes] /\ proc[p] \in Processes /\ dying \subseteq Pids /\ Restored
  BY DEF SoundInv, TypeOK, DesktopInv
<1>1. ASSUME NEW pc, Goto(p, pc)
      PROVE  proc'[p].pc = pc /\ \A q \in Pids \ {p} : proc'[q] = proc[q]
  BY <1>0, <1>1 DEF Goto, Processes
<1>2. Exit(p) => \A q \in Pids \ {p} : proc'[q] = proc[q]
  BY <1>0 DEF Exit
<1>3. CASE Check(p) \/ ClearStale(p) \/ Settle(p)
  <2>1. proc[p].pc \notin RestorePcs /\ desktop' = desktop
    BY <1>3 DEF Check, ClearStale, Settle, At, RestorePcs, StartPcs, StopPcs, display
  <2>2. \A q \in Pids \ {p} : proc'[q] = proc[q]
    BY <1>1, <1>2, <1>3 DEF Check, ClearStale, Settle
  <2> QED
    BY <1>0, <2>1, <2>2, RestoreKept
<1>4. CASE Load(p)
  <2>1. CASE proc[p].app \in Registered
    BY <1>1, <1>4, <2>1 DEF Load, Restored, RestorePcs, StartPcs
  <2>2. CASE proc[p].app \notin Registered
    BY <1>0, <1>2, <1>4, <2>2, RestoreKept
       DEF Load, At, RestorePcs, StartPcs, StopPcs, display
  <2> QED
    BY <2>1, <2>2
<1>5. CASE See(p) \/ KillAll(p) \/ Sleep(p) \/ WriteApp(p) \/ WritePid(p) \/ Launch(p) \/ Clear(p)
  <2>1. \E pc \in {"killall", "sleep", "writeApp", "writePid", "trap", "wait", "restore"} : Goto(p, pc)
    BY <1>5 DEF See, KillAll, Sleep, WriteApp, WritePid, Launch, Clear
  <2> QED
    BY <1>1, <2>1 DEF Restored, RestorePcs, StartPcs
<1>6. CASE Trap(p) \/ Reap(p)
  <2>1. proc'[p].pc \in {"launch", "clear"}
    BY <1>0, <1>6 DEF Trap, Reap, Processes
  <2> QED
    BY <2>1 DEF Restored, RestorePcs, StartPcs
<1>7. CASE Restore(p)
  <2>1. CASE "running" \in desktop
    BY <1>7, <2>1 DEF Restore, Restored, display
  <2>2. CASE ~QtopiaRunning
    BY <1>1, <1>7, <2>2 DEF Restore, Restored, RestorePcs
  <2>3. ASSUME NEW q \in dying, Exit(p)
        PROVE  Restored'
    <3>1. q \in Pids \ {p} /\ proc[q].pc = "sleep"
      BY <1>0, <1>7 DEF DesktopInv, KillersSleep, Restore, At
    <3>2. proc'[q].pc = "sleep"
      BY <1>2, <2>3, <3>1
    <3> QED
      BY <3>1, <3>2 DEF Restored, RestorePcs, StartPcs
  <2> QED
    BY <1>7, <2>1, <2>2, <2>3 DEF Restore, QtopiaRunning
<1>8. CASE Spawn(p)
  BY <1>8 DEF Spawn, Restored
<1>9. CASE Look(p)
  <2>1. proc'[p].pc \in {"signal", "clear"}
    BY <1>0, <1>9 DEF Look, Goto, Processes
  <2> QED
    BY <2>1 DEF Restored, RestorePcs, StopPcs
<1>10. CASE SendTerm(p) \/ Poll(p)
  <2>1. PICK pc \in {"poll", "clear"} : StopMove(p, pc)
    BY <1>10, StopMoves
  <2>2. proc'[p].pc = pc
    BY <1>0, <2>1 DEF StopMove, Processes
  <2> QED
    BY <2>1, <2>2 DEF Restored, RestorePcs, StopPcs
<1> QED
  BY <1>3, <1>4, <1>5, <1>6, <1>7, <1>8, <1>9, <1>10 DEF Step

LEMMA DesktopBegin ==
    ASSUME SoundInv, DesktopInv, NEW p \in Pids, NEW t, NEW cmd, NEW a, Begin(p, t, cmd, a)
    PROVE  DesktopInv'
<1>1. /\ proc[p].pc = "none" /\ p # currentPid /\ UNCHANGED <<files, display>>
      /\ \A q \in Pids : proc[q].pc # "none" => proc[q].target # p
  BY DEF Begin, Live, Alive
<1>2. /\ \A q \in Pids \ {p} : proc'[q] = proc[q]
      /\ proc'[p].target = NoPid
  BY DEF Begin, SoundInv, TypeOK, NoProc
<1>3. Restored'
  BY <1>1, <1>2, RestoreKept DEF DesktopInv, RestorePcs, StartPcs, StopPcs, display
<1>4. KillersSleep'
  <2>1. dying' = dying /\ dying \subseteq Pids
    BY <1>1 DEF display, SoundInv, TypeOK
  <2>2. p \notin dying
    BY <1>1 DEF DesktopInv, KillersSleep
  <2> QED
    BY <1>2, <2>1, <2>2 DEF DesktopInv, KillersSleep
<1>5. EarlyUnknown'
  <2> SUFFICES ASSUME NEW q \in Pids, proc'[q].pc \in EarlyPcs
               PROVE  Unknown(q)'
    BY DEF EarlyUnknown
  <2>1. currentPid' # q /\ \A o \in Pids : proc[o].pc # "none" => proc[o].target # q
    BY <1>1, <1>2 DEF DesktopInv, EarlyUnknown, Unknown, files
  <2>2. \A o \in Pids : proc'[o].pc # "none" => proc'[o].target # q
    BY <1>2, <2>1, AppctlAssumption
  <2> QED
    BY <2>1, <2>2 DEF Unknown
<1> QED
  BY <1>3, <1>4, <1>5 DEF DesktopInv

(***************************************************************************)
(* The board is never left blank: when no appctl and no application runs,  *)
(* a desktop does or is on its way, whoever killed whom, if the writes     *)
(* below /tmp succeed and a killed desktop is gone within the second that  *)
(* start waits for it (appctl: restore_qtopia, cleanup_after_app, stop).   *)
(***************************************************************************)
THEOREM DesktopComesBack ==
    ASSUME WriteMayFail = FALSE, DiesInTime = TRUE
    PROVE  Spec => []DesktopReturns
<1>1. Init => DesktopInv
  BY DEF Init, DesktopInv, Restored, KillersSleep, EarlyUnknown, EarlyPcs, NoProc
<1>2. SoundInv /\ DesktopInv /\ [Next]_vars => DesktopInv'
  <2> SUFFICES ASSUME SoundInv, DesktopInv, [Next]_vars PROVE DesktopInv'
    OBVIOUS
  <2>1. ASSUME NEW p \in Pids, Step(p)
        PROVE  DesktopInv'
    BY <2>1, UnknownStep, SleepStep, RestoreStep DEF DesktopInv
  <2>2. CASE UNCHANGED vars \/ \E i \in apps : AppExits(i)
    <3>1. UNCHANGED <<proc, files, display>>
      BY <2>2 DEF AppExits, vars
    <3> QED
      BY <3>1 DEF files, display, DesktopInv, Restored, KillersSleep, EarlyUnknown, Unknown
  <2>3. CASE DesktopAppears \/ \E p \in dying : DesktopDies(p)
    <3>1. UNCHANGED <<proc, files>> /\ (desktop # {} => desktop' # {}) /\ dying' \subseteq dying
      BY <2>3 DEF DesktopAppears, DesktopDies
    <3> QED
      BY <3>1 DEF files, DesktopInv, Restored, KillersSleep, EarlyUnknown, Unknown
  <2> QED
    BY <2>1, <2>2, <2>3, DesktopBegin DEF Next
<1>3. SoundInv /\ DesktopInv => DesktopReturns
  BY SomewhereLives DEF DesktopInv, Restored, DesktopReturns, RestorePcs, StartPcs, StopPcs
<1> QED
  BY <1>1, <1>2, <1>3, SoundInit, SoundStep, PTL DEF Spec

-----------------------------------------------------------------------------
(***************************************************************************)
(* One terminal for start and stop.  appctl qtopia may be run from others  *)
(* at any time, clear the state files a start has just written and start a *)
(* desktop.  A number in current-pid that is alive is that of a start, so  *)
(* a stop, for which the terminal must be free, signals nobody; and an     *)
(* application is the child of the one start that waits for it.            *)
(***************************************************************************)
OneStarts(c) == \A t \in Terminals \ {c} : Commands[t] \subseteq {"qtopia"}

InOrder(p, c) ==
    /\ proc[p].pc \notin {"signal", "poll"}
    /\ proc[p].pc # "none" => proc[p].term = c \/ proc[p].cmd = "qtopia"
    /\ proc[p].pc = "check" => proc[p].cmd \in {"start", "qtopia"}
    /\ proc[p].pc = "look" => proc[p].cmd = "stop"
    /\ proc[p].pc \in StartPcs \cup {"stale", "load"} => proc[p].cmd = "start"

On(p, c) == proc[p].pc # "none" /\ proc[p].term = c

ConsoleInv(c) ==
    /\ \A p \in Pids : InOrder(p, c)
    /\ \A p, q \in Pids : On(p, c) /\ On(q, c) => p = q
    /\ Alive(currentPid) => proc[currentPid].cmd = "start"
    /\ \A i \in apps : i.parent \in Pids /\ proc[i.parent].pc = "wait"
                       /\ i.app = proc[i.parent].app

\* A start or a stop is the only one.
LEMMA Alone ==
    ASSUME NEW c, ConsoleInv(c), NEW p \in Pids, proc[p].pc # "none", proc[p].cmd # "qtopia"
    PROVE  \A q \in Pids \ {p} : proc[q].pc = "none" \/ proc[q].cmd = "qtopia"
BY DEF ConsoleInv, InOrder, On

\* The steps that leave the applications alone.
LEMMA ConsoleMoves ==
    ASSUME NEW c \in Terminals, SoundInv, ConsoleInv(c), NEW p \in Pids,
           proc[p].pc # "none", \A q \in Pids \ {p} : proc'[q] = proc[q],
           proc[p].pc = "wait" => \A i \in apps : i.parent # p, UNCHANGED apps,
           currentPid' \in {currentPid, NoPid} \/ (currentPid' = p /\ proc'[p].cmd = "start"),
           proc'[p].pc # "none" => proc'[p].term = proc[p].term /\ proc'[p].cmd = proc[p].cmd,
           proc'[p].pc \notin {"signal", "poll", "check", "look"},
           proc'[p].pc \in StartPcs \cup {"stale", "load"} => proc'[p].cmd = "start"
    PROVE  ConsoleInv(c)'
<1>1. \A i \in apps : i.parent # p
  BY DEF ConsoleInv
<1>2. InOrder(p, c)'
  BY DEF InOrder, ConsoleInv
<1>3. \A q \in Pids \ {p} : InOrder(q, c)'
  BY DEF InOrder, ConsoleInv
<1>4. \A q, o \in Pids : On(q, c)' /\ On(o, c)' => q = o
  <2>1. \A q \in Pids : On(q, c)' => On(q, c)
    BY DEF On
  <2> QED
    BY <2>1 DEF ConsoleInv
<1>5. Alive(currentPid)' => proc'[currentPid'].cmd = "start"
  BY AppctlAssumption DEF ConsoleInv, Alive
<1>6. \A i \in apps' : /\ i.parent \in Pids /\ proc'[i.parent].pc = "wait"
                       /\ i.app = proc'[i.parent].app
  BY <1>1 DEF ConsoleInv
<1> QED
  BY <1>2, <1>3, <1>4, <1>5, <1>6 DEF ConsoleInv

LEMMA ConsoleBegin ==
    ASSUME NEW c \in Terminals, OneStarts(c), SoundInv, ConsoleInv(c),
           NEW p \in Pids, NEW t \in Terminals, NEW cmd \in Commands[t], NEW a,
           Begin(p, t, cmd, a)
    PROVE  ConsoleInv(c)'
<1>1. cmd \in {"start", "stop", "qtopia"} /\ (t = c \/ cmd = "qtopia")
  BY AppctlAssumption DEF OneStarts
<1>2. proc[p].pc = "none" /\ p # currentPid /\ UNCHANGED <<files, apps>>
  BY DEF Begin, Alive
<1>3. \A q \in Pids : proc[q].pc # "none" => proc[q].term # t
  BY DEF Begin, Live, Alive
<1>4. \A q \in Pids \ {p} : proc'[q] = proc[q]
  BY DEF Begin, SoundInv, TypeOK
<1>5. /\ proc'[p].term = t /\ proc'[p].cmd = cmd
      /\ proc'[p].pc = IF cmd = "stop" THEN "look" ELSE "check"
  BY <1>1 DEF Begin, NoProc, SoundInv, TypeOK
<1>6. \A q \in Pids : InOrder(q, c)'
  <2>1. InOrder(p, c)'
    BY <1>1, <1>5 DEF InOrder, StartPcs
  <2>2. \A q \in Pids \ {p} : InOrder(q, c)'
    BY <1>4 DEF InOrder, ConsoleInv
  <2> QED
    BY <2>1, <2>2
<1>7. \A q, o \in Pids : On(q, c)' /\ On(o, c)' => q = o
  <2>1. \A q \in Pids \ {p} : On(q, c)' => On(q, c)
    BY <1>4 DEF On
  <2>2. ASSUME On(p, c)'
        PROVE  \A q \in Pids : ~On(q, c)
    BY <1>3, <1>5, <2>2 DEF On
  <2> QED
    BY <2>1, <2>2 DEF ConsoleInv
<1>8. Alive(currentPid)' => proc'[currentPid'].cmd = "start"
  BY <1>2, <1>4 DEF ConsoleInv, Alive, files
<1>9. \A i \in apps' : /\ i.parent \in Pids /\ proc'[i.parent].pc = "wait"
                       /\ i.app = proc'[i.parent].app
  BY <1>2, <1>4 DEF ConsoleInv
<1> QED
  BY <1>6, <1>7, <1>8, <1>9 DEF ConsoleInv

LEMMA ConsoleStep ==
    ASSUME NEW c \in Terminals, SoundInv, ConsoleInv(c), NEW p \in Pids, Step(p)
    PROVE  ConsoleInv(c)'
<1>0. proc \in [Pids -> Processes] /\ proc[p] \in Processes /\ InOrder(p, c) /\ Sound(p)
  BY DEF SoundInv, TypeOK, ConsoleInv
<1>1. proc[p].pc # "none"
  BY DEF Step, Check, ClearStale, Load, See, KillAll, Sleep, WriteApp, WritePid, Trap, Launch,
         Reap, Clear, Restore, Spawn, Settle, Look, SendTerm, Poll, At
<1>2. ASSUME NEW pc \in Pcs, Goto(p, pc)
      PROVE  /\ proc'[p].pc = pc /\ proc'[p].term = proc[p].term /\ proc'[p].cmd = proc[p].cmd
             /\ proc'[p].app = proc[p].app
             /\ \A q \in Pids \ {p} : proc'[q] = proc[q]
  BY <1>0, <1>2 DEF Goto, Processes
<1>3. Exit(p) => proc'[p].pc = "none" /\ \A q \in Pids \ {p} : proc'[q] = proc[q]
  BY <1>0, NoProcType DEF Exit
<1>4. CASE Check(p) \/ ClearStale(p) \/ Clear(p) \/ Restore(p) \/ Spawn(p) \/ Settle(p)
  <2>1. proc[p].pc \in {"check", "stale", "clear", "restore", "spawn", "settle"} /\ UNCHANGED apps
        /\ currentPid' \in {currentPid, NoPid}
    BY <1>4 DEF Check, ClearStale, Clear, Restore, Spawn, Settle, At, files, ClearState
  <2>2. \/ Exit(p) \/ Goto(p, "clear") \/ Goto(p, "restore") \/ Goto(p, "spawn") \/ Goto(p, "settle")
        \/ (proc[p].cmd = "start" /\ (Goto(p, "stale") \/ Goto(p, "load")))
    BY <1>0, <1>4 DEF Check, ClearStale, Clear, Restore, Spawn, Settle, At, InOrder
  <2>3. {"clear", "restore", "spawn", "settle", "stale", "load"} \subseteq Pcs
    BY DEF Pcs
  <2> QED
    BY <1>1, <1>2, <1>3, <2>1, <2>2, <2>3, ConsoleMoves DEF StartPcs
<1>5. CASE Load(p) \/ See(p) \/ KillAll(p) \/ Sleep(p) \/ WriteApp(p)
  <2>1. /\ proc[p].pc \in {"load", "see", "killall", "sleep", "writeApp"} /\ UNCHANGED apps
        /\ currentPid' = currentPid
    BY <1>5 DEF Load, See, KillAll, Sleep, WriteApp, At, files
  <2>2. Exit(p) \/ \E pc \in {"see", "killall", "sleep", "writeApp", "writePid"} : Goto(p, pc)
    BY <1>5 DEF Load, See, KillAll, Sleep, WriteApp
  <2>3. proc[p].cmd = "start"
    BY <1>0, <2>1 DEF InOrder, StartPcs
  <2>4. {"see", "killall", "sleep", "writeApp", "writePid"} \subseteq Pcs
    BY DEF Pcs
  <2>5. CASE Exit(p)
    BY <1>1, <1>3, <2>1, <2>5, ConsoleMoves DEF StartPcs
  <2>6. ASSUME NEW pc \in {"see", "killall", "sleep", "writeApp", "writePid"}, Goto(p, pc)
        PROVE  ConsoleInv(c)'
    BY <1>1, <1>2, <2>1, <2>3, <2>4, <2>6, ConsoleMoves
  <2> QED
    BY <2>2, <2>5, <2>6
<1>6. CASE WritePid(p)
  <2>1. proc[p].pc = "writePid" /\ UNCHANGED apps /\ currentPid' \in {currentPid, p}
    BY <1>6 DEF WritePid, At
  <2>2. Goto(p, "trap") \/ Goto(p, "clear")
    BY <1>6 DEF WritePid
  <2>3. proc[p].cmd = "start" /\ {"trap", "clear"} \subseteq Pcs
    BY <1>0, <2>1 DEF InOrder, StartPcs, Pcs
  <2> QED
    BY <1>1, <1>2, <2>1, <2>2, <2>3, ConsoleMoves
<1>7. CASE Trap(p) \/ Reap(p)
  <2>1. /\ proc[p].pc \in {"trap", "wait"} /\ UNCHANGED apps /\ currentPid' = currentPid
        /\ proc[p].pc = "wait" => \A i \in apps : i.parent # p
    BY <1>7 DEF Trap, Reap, At, files
  <2>2. /\ proc'[p].pc \in {"launch", "clear"} /\ proc'[p].term = proc[p].term
        /\ proc'[p].cmd = proc[p].cmd /\ \A q \in Pids \ {p} : proc'[q] = proc[q]
    BY <1>0, <1>7 DEF Trap, Reap, Processes
  <2>3. proc[p].cmd = "start"
    BY <1>0, <2>1 DEF InOrder, StartPcs
  <2> QED
    BY <1>1, <2>1, <2>2, <2>3, ConsoleMoves
<1>8. CASE Launch(p)
  <2>1. proc[p].pc = "launch" /\ "wait" \in Pcs /\ currentPid' = currentPid
    BY <1>8 DEF Launch, At, Pcs, files
  <2>2. proc[p].cmd = "start" /\ proc[p].term = c
    BY <1>0, <2>1 DEF InOrder, StartPcs
  <2>3. /\ proc'[p].pc = "wait" /\ proc'[p].term = c /\ proc'[p].cmd = "start"
        /\ proc'[p].app = proc[p].app /\ \A q \in Pids \ {p} : proc'[q] = proc[q]
    BY <1>2, <1>8, <2>1, <2>2 DEF Launch
  <2>4. apps = {}
    <3>1. \A q \in Pids \ {p} : proc[q].pc # "wait"
      BY <1>1, <2>2, Alone DEF ConsoleInv, InOrder, StartPcs
    <3> QED
      BY <2>1, <3>1 DEF ConsoleInv
  <2>5. apps' = {[app |-> proc[p].app, parent |-> p]}
    BY <1>8, <2>4 DEF Launch
  <2>6. InOrder(p, c)'
    BY <2>3 DEF InOrder
  <2>7. \A q \in Pids \ {p} : InOrder(q, c)'
    BY <2>3 DEF InOrder, ConsoleInv
  <2>8. \A q, o \in Pids : On(q, c)' /\ On(o, c)' => q = o
    <3>1. \A q \in Pids : On(q, c)' => On(q, c)
      BY <2>1, <2>2, <2>3 DEF On
    <3> QED
      BY <3>1 DEF ConsoleInv
  <2>9. Alive(currentPid)' => proc'[currentPid'].cmd = "start"
    BY <2>1, <2>2, <2>3 DEF ConsoleInv, Alive
  <2> QED
    BY <2>3, <2>5, <2>6, <2>7, <2>8, <2>9 DEF ConsoleInv
<1>9. CASE Look(p)
  <2>1. proc[p].pc = "look" /\ proc[p].cmd = "stop" /\ UNCHANGED apps /\ currentPid' = currentPid
    BY <1>0, <1>9 DEF Look, At, InOrder, files
  <2>2. ~Alive(currentPid)
    BY <1>1, <2>1, Alone DEF ConsoleInv, Alive
  <2>3. Goto(p, "clear") /\ "clear" \in Pcs
    BY <1>9, <2>2 DEF Look, Pcs
  <2> QED
    BY <1>1, <1>2, <2>1, <2>3, ConsoleMoves DEF StartPcs
<1>10. CASE SendTerm(p) \/ Poll(p)
  BY <1>0, <1>10 DEF SendTerm, Poll, At, InOrder
<1> QED
  BY <1>4, <1>5, <1>6, <1>7, <1>8, <1>9, <1>10 DEF Step

\* What the two properties of the console follow from.
LEMMA ConsoleShows ==
    ASSUME NEW c, SoundInv, ConsoleInv(c)
    PROVE  OneApplication /\ QtopiaMeansIdle
<1>0. apps \subseteq [app : Apps, parent : Pids \cup {NoPid}]
  BY DEF SoundInv, TypeOK
<1>1. \A i, j \in apps : i = j
  <2> SUFFICES ASSUME NEW i \in apps, NEW j \in apps PROVE i = j
    OBVIOUS
  <2>1. ASSUME NEW k \in apps
        PROVE  k.parent \in Pids /\ On(k.parent, c)
    <3>1. k.parent \in Pids /\ proc[k.parent].pc = "wait" /\ InOrder(k.parent, c)
      BY <2>1 DEF ConsoleInv
    <3> QED
      BY <3>1 DEF InOrder, On, StartPcs
  <2>2. i.parent = j.parent
    BY <2>1 DEF ConsoleInv
  <2>3. i.app = j.app
    BY <2>2 DEF ConsoleInv
  <2>4. i = [app |-> i.app, parent |-> i.parent] /\ j = [app |-> j.app, parent |-> j.parent]
    BY <1>0
  <2> QED
    BY <2>2, <2>3, <2>4
<1>2. OneApplication
  <2>1. CASE apps = {}
    BY <2>1, FS_EmptySet DEF OneApplication
  <2>2. CASE apps # {}
    <3>1. PICK i \in apps : apps = {i}
      BY <1>1, <2>2
    <3>2. Cardinality(apps) = 1
      BY <3>1, FS_Singleton
    <3> QED
      BY <3>2 DEF OneApplication
  <2> QED
    BY <2>1, <2>2
<1>3. ASSUME apps # {}
      PROVE  \E p \in Live : proc[p].cmd = "start"
  <2>1. PICK i \in apps : i.parent \in Pids /\ proc[i.parent].pc = "wait"
    BY <1>3 DEF ConsoleInv
  <2>2. InOrder(i.parent, c)
    BY <2>1 DEF ConsoleInv
  <2> QED
    BY <2>1, <2>2, SomewhereLives DEF InOrder, StartPcs
<1> QED
  BY <1>2, <1>3 DEF QtopiaMeansIdle

\* The invariant of the console, begun and kept.
LEMMA ConsoleInit == ASSUME NEW c \in Terminals PROVE Init => ConsoleInv(c)
<1> SUFFICES ASSUME Init PROVE ConsoleInv(c)
  OBVIOUS
<1>1. \A p \in Pids : proc[p].pc = "none"
  BY NoProcType DEF Init
<1>2. ~Alive(currentPid)
  BY AppctlAssumption DEF Init, Alive
<1>3. apps = {}
  BY DEF Init
<1> QED
  BY <1>1, <1>2, <1>3 DEF ConsoleInv, InOrder, On, StartPcs

LEMMA ConsoleNext ==
    ASSUME NEW c \in Terminals, OneStarts(c)
    PROVE  SoundInv /\ ConsoleInv(c) /\ [Next]_vars => ConsoleInv(c)'
<1> SUFFICES ASSUME SoundInv, ConsoleInv(c), [Next]_vars PROVE ConsoleInv(c)'
  OBVIOUS
<1>1. CASE \/ \E i \in apps : AppExits(i)
          \/ DesktopAppears \/ \E p \in dying : DesktopDies(p)
  <2>1. proc' = proc /\ currentPid' = currentPid /\ apps' \subseteq apps
    BY <1>1 DEF AppExits, DesktopAppears, DesktopDies, files
  <2>2. /\ \A p \in Pids : InOrder(p, c)' <=> InOrder(p, c)
        /\ \A p \in Pids : On(p, c)' <=> On(p, c)
        /\ Alive(currentPid)' <=> Alive(currentPid)
    BY <2>1 DEF InOrder, On, Alive
  <2> QED
    BY <2>1, <2>2 DEF ConsoleInv
<1>2. CASE UNCHANGED vars
  <2>1. UNCHANGED <<proc, currentPid, apps>>
    BY <1>2 DEF vars, files
  <2> QED
    BY <2>1 DEF ConsoleInv, InOrder, On, Alive
<1> QED
  <2>1. ASSUME NEW p \in Pids, Step(p)
        PROVE  ConsoleInv(c)'
    BY <2>1, ConsoleStep
  <2>2. ASSUME NEW p \in Pids, NEW t \in Terminals, NEW cmd \in Commands[t],
               NEW a \in (IF cmd = "start" THEN Apps ELSE {NoApp}), Begin(p, t, cmd, a)
        PROVE  ConsoleInv(c)'
    BY <2>2, ConsoleBegin
  <2>3. CASE Next
    BY <1>1, <2>1, <2>2, <2>3 DEF Next
  <2> QED
    BY <1>2, <2>3

(***************************************************************************)
(* If start and stop are only run from one terminal, whoever else runs     *)
(* appctl qtopia and clears the state files meanwhile, at most one         *)
(* application runs, and status says QTOPIA there only of an idle board,   *)
(* even if writes below /tmp fail and the desktop takes its time (appctl). *)
(***************************************************************************)
THEOREM ConsoleAlone ==
    ASSUME NEW c \in Terminals, OneStarts(c)
    PROVE  Spec => [](OneApplication /\ QtopiaMeansIdle)
<1>1. SoundInv /\ ConsoleInv(c) => OneApplication /\ QtopiaMeansIdle
  BY ConsoleShows
<1> QED
  BY <1>1, ConsoleInit, ConsoleNext, SoundInit, SoundStep, PTL DEF Spec

-----------------------------------------------------------------------------
(***************************************************************************)
(* The terminal is handed over as BoardTerminal says: where the one start  *)
(* or stop stands and whether it has a child tell who owns the terminal.   *)
(***************************************************************************)
OwnerBy(r, children) ==
    IF children # {} \/ (r.cmd = "start" /\ r.pc = "launch") THEN "app"
    ELSE IF r.cmd = "start" /\ r.pc \in {"wait", "clear", "restore", "spawn", "settle"} THEN "exit"
    ELSE IF r.cmd = "start" /\ r.pc # "none" THEN "launch" ELSE "shell"

Others(p) ==
    \A q \in Pids \ {p} : proc'[q] = proc[q] /\ (proc[q].pc = "none" \/ proc[q].cmd = "qtopia")

LEMMA OwnerIs ==
    ASSUME NEW p \in Pids, Others(p), proc[p].pc \in Pcs, proc'[p].pc \in Pcs
    PROVE  Owner = OwnerBy(proc[p], apps) /\ Owner' = OwnerBy(proc'[p], apps')
<1>1. \A pcs : Starts(pcs) <=> proc[p].pc # "none" /\ proc[p].cmd = "start" /\ proc[p].pc \in pcs
  BY DEF Starts, Live, Alive, Others
<1>2. \A pcs : (Starts(pcs))' <=> proc'[p].pc # "none" /\ proc'[p].cmd = "start" /\ proc'[p].pc \in pcs
  BY DEF Starts, Live, Alive, Others
<1> QED
  BY <1>1, <1>2 DEF Owner, OwnerBy

\* Who does not start an application owns nothing.
LEMMA OwnerStays ==
    ASSUME NEW p \in Pids, \A q \in Pids \ {p} : proc'[q] = proc[q], UNCHANGED apps,
           proc[p].pc = "none" \/ proc[p].cmd # "start",
           proc'[p].pc = "none" \/ proc'[p].cmd # "start"
    PROVE  UNCHANGED Owner
<1>1. \A pcs : (Starts(pcs))' <=> Starts(pcs)
  BY DEF Starts, Live, Alive
<1> QED
  BY <1>1 DEF Owner

\* A step of the start or the stop: its record and its children change hands.
HandedOn(p) ==
    LET from == OwnerBy(proc[p], apps)
        to   == OwnerBy(proc'[p], apps')
    IN  from = to \/ <<from, to>> \in {<<"shell", "launch">>, <<"launch", "shell">>, <<"launch", "app">>,
                                       <<"launch", "exit">>, <<"app", "exit">>, <<"exit", "shell">>}

LEMMA HandedOver ==
    ASSUME NEW p \in Pids, Others(p), proc[p].pc \in Pcs, proc'[p].pc \in Pcs, HandedOn(p)
    PROVE  [Board!Launch \/ Board!Return]_Owner
<1>1. Owner = OwnerBy(proc[p], apps) /\ Owner' = OwnerBy(proc'[p], apps')
  BY OwnerIs
<1>2. Owner' = Owner \/ <<Owner, Owner'>> \in
          {<<"shell", "launch">>, <<"launch", "shell">>, <<"launch", "app">>,
           <<"launch", "exit">>, <<"app", "exit">>, <<"exit", "shell">>}
  BY <1>1 DEF HandedOn
<1> QED
  BY <1>2 DEF Board!Launch, Board!Return, Board!Refuse, Board!Ready, Board!Quit, Board!Fail,
              Board!Restore, Board!Hands

LEMMA HandedByStep ==
    ASSUME NEW c \in Terminals, SoundInv, ConsoleInv(c), NEW p \in Pids, Step(p), SoundInv'
    PROVE  [Board!Launch \/ Board!Return]_Owner
<1>0. proc \in [Pids -> Processes] /\ proc[p] \in Processes /\ InOrder(p, c) /\ Sound(p)
      /\ proc[p].pc \in Pcs /\ proc'[p].pc \in Pcs
  BY DEF SoundInv, TypeOK, ConsoleInv, Processes
<1>1. proc[p].pc # "none" /\ ~SendTerm(p) /\ ~Poll(p)
  BY <1>0
     DEF Step, Check, ClearStale, Load, See, KillAll, Sleep, WriteApp, WritePid, Trap, Launch,
         Reap, Clear, Restore, Spawn, Settle, Look, SendTerm, Poll, At, InOrder
<1>2. \A q \in Pids \ {p} : proc'[q] = proc[q]
  BY <1>1, StepMoves
<1>3. /\ \A pc : Goto(p, pc) => proc'[p].pc = pc /\ proc'[p].cmd = proc[p].cmd
      /\ Exit(p) => proc'[p].pc = "none" /\ proc'[p].cmd = "none"
  BY <1>0 DEF Goto, Exit, NoProc, Processes
<1>4. CASE proc[p].cmd = "qtopia"
  <2>1. Check(p) \/ Clear(p) \/ Restore(p) \/ Spawn(p) \/ Settle(p)
    BY <1>0, <1>1, <1>4
       DEF Step, ClearStale, Load, See, KillAll, Sleep, WriteApp, WritePid, Trap, Launch, Reap,
           Look, At, InOrder, StartPcs
  <2>2. UNCHANGED apps /\ proc'[p].cmd # "start"
    BY <1>3, <1>4, <2>1 DEF Check, Clear, Restore, Spawn, Settle
  <2> QED
    BY <1>2, <1>4, <2>2, OwnerStays
<1>5. CASE proc[p].cmd # "qtopia"
  <2>0. Others(p)
    BY <1>1, <1>2, <1>5, Alone DEF Others
  <2>1. proc[p].pc # "wait" => apps = {}
    BY <2>0 DEF ConsoleInv, Others, InOrder, StartPcs
  <2>2. CASE Check(p) \/ ClearStale(p) \/ Load(p) \/ See(p) \/ KillAll(p) \/ Sleep(p) \/ WriteApp(p)
               \/ WritePid(p)
    <3>1. /\ proc[p].pc \in {"check", "stale", "load", "see", "killall", "sleep", "writeApp", "writePid"}
          /\ UNCHANGED apps
      BY <2>2 DEF Check, ClearStale, Load, See, KillAll, Sleep, WriteApp, WritePid, At
    <3>2. \/ proc'[p].pc = "none" /\ proc'[p].cmd = "none"
          \/ /\ proc'[p].pc \in {"stale", "load", "see", "killall", "sleep", "writeApp", "writePid",
                                 "trap"}
             /\ proc'[p].cmd = proc[p].cmd
          \/ proc'[p].pc = "clear" /\ proc'[p].cmd = proc[p].cmd /\ proc[p].pc = "writePid"
      BY <1>0, <1>3, <1>5, <2>2
         DEF Check, ClearStale, Load, See, KillAll, Sleep, WriteApp, WritePid, At, InOrder
    <3>3. HandedOn(p)
      BY <2>1, <3>1, <3>2 DEF HandedOn, OwnerBy
    <3> QED
      BY <1>0, <2>0, <3>3, HandedOver
  <2>3. CASE Trap(p)
    <3>1. /\ proc'[p].pc = "launch" /\ proc'[p].cmd = proc[p].cmd /\ proc[p].pc = "trap"
          /\ UNCHANGED apps
      BY <1>0, <2>3 DEF Trap, At, Processes
    <3>2. HandedOn(p)
      BY <1>0, <2>1, <3>1 DEF HandedOn, OwnerBy, InOrder, StartPcs
    <3> QED
      BY <1>0, <2>0, <3>2, HandedOver
  <2>4. CASE Launch(p)
    <3>1. proc[p].pc = "launch" /\ proc[p].cmd = "start" /\ apps' # {}
      BY <1>0, <2>4 DEF Launch, At, InOrder, StartPcs
    <3>2. HandedOn(p)
      BY <3>1 DEF HandedOn, OwnerBy
    <3> QED
      BY <1>0, <2>0, <3>2, HandedOver
  <2>5. CASE Reap(p)
    <3>1. \A i \in apps : i.parent = p
      BY <2>0 DEF ConsoleInv, Others, InOrder, StartPcs
    <3>2. apps = {} /\ apps' = {} /\ proc[p].pc = "wait" /\ proc[p].cmd = "start"
      BY <1>0, <2>5, <3>1 DEF Reap, At, InOrder, StartPcs
    <3>3. proc'[p].pc = "clear" /\ proc'[p].cmd = "start"
      BY <1>0, <2>5, <3>2 DEF Reap, Processes
    <3>4. HandedOn(p)
      BY <3>2, <3>3 DEF HandedOn, OwnerBy
    <3> QED
      BY <1>0, <2>0, <3>4, HandedOver
  <2>6. CASE Clear(p) \/ Restore(p) \/ Spawn(p) \/ Settle(p)
    <3>1. proc[p].pc \in {"clear", "restore", "spawn", "settle"} /\ UNCHANGED apps
      BY <2>6 DEF Clear, Restore, Spawn, Settle, At
    <3>2. \/ proc'[p].pc \in {"restore", "spawn", "settle"} /\ proc'[p].cmd = proc[p].cmd
          \/ proc'[p].pc = "none" /\ proc'[p].cmd = "none"
      BY <1>3, <2>6 DEF Clear, Restore, Spawn, Settle
    <3>3. HandedOn(p)
      BY <2>1, <3>1, <3>2 DEF HandedOn, OwnerBy
    <3> QED
      BY <1>0, <2>0, <3>3, HandedOver
  <2>7. CASE Look(p)
    <3>1. proc[p].pc = "look" /\ proc[p].cmd = "stop" /\ UNCHANGED apps
      BY <1>0, <2>7 DEF Look, At, InOrder
    <3>2. ~Alive(currentPid)
      BY <2>0, <3>1 DEF ConsoleInv, Alive, Others
    <3>3. proc'[p].cmd # "start"
      BY <1>3, <2>7, <3>1, <3>2 DEF Look
    <3> QED
      BY <1>2, <3>1, <3>3, OwnerStays
  <2> QED
    BY <1>1, <2>2, <2>3, <2>4, <2>5, <2>6, <2>7 DEF Step
<1> QED
  BY <1>4, <1>5

\* A new process owns nothing yet, unless it starts an application.
LEMMA HandedByBegin ==
    ASSUME NEW c \in Terminals, OneStarts(c), SoundInv, ConsoleInv(c),
           NEW p \in Pids, NEW t \in Terminals, NEW cmd \in Commands[t], NEW a,
           Begin(p, t, cmd, a), SoundInv'
    PROVE  [Board!Launch \/ Board!Return]_Owner
<1>0. proc[p].pc \in Pcs /\ proc'[p].pc \in Pcs /\ proc \in [Pids -> Processes]
  BY DEF SoundInv, TypeOK, Processes
<1>1. proc[p].pc = "none" /\ UNCHANGED apps
  BY DEF Begin, Alive
<1>2. \A q \in Pids \ {p} : proc'[q] = proc[q]
  BY <1>0 DEF Begin
<1>3. proc'[p].cmd = cmd /\ proc'[p].pc \in {"look", "check"}
  BY <1>0 DEF Begin, NoProc
<1>4. CASE cmd = "qtopia"
  BY <1>1, <1>2, <1>3, <1>4, OwnerStays
<1>5. CASE cmd # "qtopia"
  <2>1. t = c
    BY <1>5 DEF OneStarts
  <2>2. \A q \in Pids : proc[q].pc # "none" => proc[q].term # c
    BY <2>1 DEF Begin, Live, Alive
  <2>3. \A q \in Pids : proc[q].pc = "none" \/ proc[q].cmd = "qtopia"
    BY <2>2 DEF ConsoleInv, InOrder
  <2>4. apps = {}
    BY <2>3 DEF ConsoleInv, InOrder, StartPcs
  <2>5. Others(p)
    BY <1>2, <2>3 DEF Others
  <2>6. HandedOn(p)
    BY <1>1, <1>3, <2>4 DEF HandedOn, OwnerBy
  <2> QED
    BY <1>0, <2>5, <2>6, HandedOver
<1> QED
  BY <1>4, <1>5

\* The application leaves: its parent is the only start, and waits.
LEMMA HandedByExit ==
    ASSUME NEW c \in Terminals, SoundInv, ConsoleInv(c), NEW i \in apps, AppExits(i)
    PROVE  [Board!Launch \/ Board!Return]_Owner
<1> DEFINE p == i.parent
<1>1. p \in Pids /\ proc[p].pc = "wait" /\ UNCHANGED proc
  BY DEF ConsoleInv, AppExits
<1>2. proc[p].cmd = "start"
  BY <1>1 DEF ConsoleInv, InOrder, StartPcs
<1> HIDE DEF p
<1>3. Others(p)
  BY <1>1, <1>2, Alone DEF Others
<1>4. HandedOn(p)
  BY <1>1, <1>2 DEF HandedOn, OwnerBy
<1>5. "wait" \in Pcs
  BY DEF Pcs
<1> QED
  BY <1>1, <1>3, <1>4, <1>5, HandedOver

(***************************************************************************)
(* If start and stop are only run from one terminal, appctl hands it over  *)
(* as the host's dialogues expect, whoever else runs appctl qtopia:        *)
(* APPREADY comes before the application, and the shell reads again only   *)
(* when the application has exited (appctl: start_app).                    *)
(***************************************************************************)
THEOREM ConsoleKeepsTerminal ==
    ASSUME NEW c \in Terminals, OneStarts(c)
    PROVE  Spec => KeepsTerminal
<1>1. Init => Board!InitTerminal
  BY NoProcType DEF Init, Board!InitTerminal, Owner, Starts, Live, Alive
<1>2. SoundInv /\ ConsoleInv(c) /\ SoundInv' /\ [Next]_vars => [Board!Launch \/ Board!Return]_Owner
  <2> SUFFICES ASSUME SoundInv, ConsoleInv(c), SoundInv', [Next]_vars
               PROVE  [Board!Launch \/ Board!Return]_Owner
    OBVIOUS
  <2>1. CASE UNCHANGED vars \/ DesktopAppears \/ \E p \in dying : DesktopDies(p)
    <3>1. UNCHANGED <<proc, apps>>
      BY <2>1 DEF vars, DesktopAppears, DesktopDies
    <3>2. UNCHANGED Owner
      BY <3>1 DEF Owner, Starts, Live, Alive
    <3> QED
      BY <3>2
  <2> QED
    BY <2>1, HandedByBegin, HandedByStep, HandedByExit DEF Next
<1> QED
  BY <1>1, <1>2, ConsoleInit, ConsoleNext, SoundInit, SoundStep, PTL
     DEF Spec, KeepsTerminal, Board!Terminal
=============================================================================
