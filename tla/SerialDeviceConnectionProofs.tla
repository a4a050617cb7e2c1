-------------------- MODULE SerialDeviceConnectionProofs --------------------
(***************************************************************************)
(* Proofs about SerialDeviceConnection for any set of applications and any *)
(* number of transports.                                                   *)
(***************************************************************************)
EXTENDS SerialDeviceConnection, TLAPS

-----------------------------------------------------------------------------
(* The registry's operations keep its type.                                *)

LEMMA RegistryParts ==
    ASSUME NEW r \in Registry
    PROVE  /\ r.state \in [Apps -> AppState]
           /\ r.available \in [Apps -> BOOLEAN]
           /\ r.current \in Apps \cup {NoApp}
           /\ r = [state |-> r.state, available |-> r.available, current |-> r.current]
  BY DEF Registry

LEMMA RegistryBuild ==
    ASSUME NEW s \in [Apps -> AppState], NEW v \in [Apps -> BOOLEAN],
           NEW c \in Apps \cup {NoApp}
    PROVE  [state |-> s, available |-> v, current |-> c] \in Registry
  BY DEF Registry

LEMMA NoAppType == NoApp \in Apps \cup {NoApp} /\ {} \in SUBSET Apps
  OBVIOUS

LEMMA CallsTypes ==
    ASSUME NEW a \in Apps \cup {NoApp}, NEW S \in SUBSET Apps
    PROVE  /\ {NoCall, SetUnknown, SetCurrent(a), BeginStart(a), BeginStop(a),
               CompleteStart(a), CompleteStop(a), Fail(a)} \subseteq RegistryCalls
           /\ ApplyAvailability(S) \in RegistryCalls
<1>1. NoCall \in RegistryCalls
  BY DEF NoCall, RegistryCalls, Methods, Statements
<1>2. On("SetCurrent", a) \in RegistryCalls /\ On("CompleteStart", a) \in RegistryCalls
      /\ On("BeginStart", a) \in RegistryCalls /\ On("BeginStop", a) \in RegistryCalls
      /\ On("CompleteStop", a) \in RegistryCalls /\ On("Fail", a) \in RegistryCalls
  BY <1>1 DEF On, RegistryCalls, Methods, Statements
<1>3. SetUnknown \in RegistryCalls /\ SetCurrent(a) \in RegistryCalls
      /\ CompleteStart(a) \in RegistryCalls
  <2>1. \A k \in RegistryCalls, s \in Statements, L \in SUBSET Apps :
           [k EXCEPT !.at = s, !.left = L] \in RegistryCalls
    BY DEF RegistryCalls
  <2>2. SetUnknown \in RegistryCalls
    BY DEF SetUnknown, NoCall, RegistryCalls, Methods, Statements
  <2>3. "each" \in Statements /\ Apps \in SUBSET Apps /\ Apps \ {a} \in SUBSET Apps
    BY DEF Statements
  <2>4. SetCurrent(a) \in RegistryCalls
    BY <1>2, <2>1, <2>3 DEF SetCurrent
  <2>5. CompleteStart(a) \in RegistryCalls
    BY <1>2, <2>1, <2>3 DEF CompleteStart
  <2>. QED  BY <2>2, <2>4, <2>5
<1>4. ApplyAvailability(S) \in RegistryCalls
  BY <1>1 DEF ApplyAvailability, SetAvailable, RegistryCalls, Methods, Statements, Apps
<1>. QED  BY <1>1, <1>2, <1>3, <1>4 DEF BeginStart, BeginStop, CompleteStop, Fail

LEMMA RegistryStepType ==
    ASSUME registry \in Registry, calls \in [Threads -> RegistryCalls], NEW th \in Threads,
           RegistryStep(th)
    PROVE  registry' \in Registry /\ calls' \in [Threads -> RegistryCalls]
<1>. DEFINE k == calls[th]
<1>0. k \in RegistryCalls /\ NoCall \in RegistryCalls
  BY CallsTypes, NoAppType
<1>1. ASSUME NEW r \in Registry, NEW k2 \in RegistryCalls, Assign(th, r, k2)
      PROVE  registry' \in Registry /\ calls' \in [Threads -> RegistryCalls]
  BY <1>1 DEF Assign
<1>2. ASSUME NEW a, NEW s \in AppState, NEW k2 \in RegistryCalls, AssignState(th, a, s, k2)
      PROVE  registry' \in Registry /\ calls' \in [Threads -> RegistryCalls]
  <2>1. [registry EXCEPT !.state[a] = s] \in Registry  BY DEF Registry
  <2>. QED  BY <1>1, <1>2, <2>1 DEF AssignState
<1>3. \A a \in Apps \cup {NoApp} : RestState(registry, a) \in AppState
  BY DEF RestState, AppState
<1>4. \A a : [k EXCEPT !.left = @ \ {a}] \in RegistryCalls
  BY <1>0 DEF RegistryCalls
<1>5. CASE Offer(th)
  <2>1. ASSUME k.at = "offer", NEW a \in k.left,
               Assign(th, [registry EXCEPT !.available[a] = a \in k.offered],
                      [k EXCEPT !.at = "settle", !.app = a, !.left = @ \ {a}])
        PROVE  registry' \in Registry /\ calls' \in [Threads -> RegistryCalls]
    <3>. DEFINE v == a \in k.offered
    <3>0. v \in BOOLEAN
      OBVIOUS
    <3>. HIDE DEF v
    <3>3. [registry EXCEPT !.available[a] = v] \in Registry
      BY <3>0 DEF Registry
    <3>1. [registry EXCEPT !.available[a] = a \in k.offered] \in Registry
      BY <3>3 DEF v
    <3>2. [k EXCEPT !.at = "settle", !.app = a, !.left = @ \ {a}] \in RegistryCalls
      BY <1>0 DEF RegistryCalls, Statements
    <3>. QED  BY <1>1, <2>1, <3>1, <3>2
  <2>2. CASE k.at = "settle"
    <3>. DEFINE s == IF registry.state[k.app] \in {"Running", "Starting", "Stopping"}
                     THEN registry.state[k.app] ELSE RestState(registry, k.app)
                k2 == IF k.left = {} THEN NoCall ELSE [k EXCEPT !.at = "offer", !.app = NoApp]
    <3>1. s \in AppState
      BY <1>0, <1>3 DEF RegistryCalls, AppState
    <3>2. k2 \in RegistryCalls
      BY <1>0 DEF RegistryCalls, Statements
    <3>3. AssignState(th, k.app, s, k2)
      BY <1>5, <2>2 DEF Offer
    <3>. QED  BY <1>2, <3>1, <3>2, <3>3
  <2>. QED  BY <1>5, <2>1, <2>2 DEF Offer
<1>6. CASE Visit(th)
  <2>. DEFINE k2(a) == IF k.left = {a} THEN AfterEach(k) ELSE [k EXCEPT !.left = @ \ {a}]
  <2>1. PICK a \in k.left : AssignState(th, a, EachState(k.method, a), k2(a))
    BY <1>6 DEF Visit
  <2>2. EachState(k.method, a) \in AppState
    BY <1>0, <1>3, <2>1 DEF EachState, RegistryCalls, Registry, AppState
  <2>3. k2(a) \in RegistryCalls
    BY <1>0, <1>4 DEF AfterEach, RegistryCalls, Statements
  <2>. QED  BY <1>2, <2>1, <2>2, <2>3
<1>7. CASE AssignOwn(th)
  <2>1. OwnState(k) \in AppState /\ "Running" \in AppState
    BY <1>0, <1>3 DEF OwnState, AppState, RegistryCalls
  <2>2. [k EXCEPT !.at = "test"] \in RegistryCalls /\ [k EXCEPT !.at = "name"] \in RegistryCalls
    BY <1>0 DEF RegistryCalls, Statements
  <2>3. (IF k.method \in {"CompleteStop", "Fail"} THEN [k EXCEPT !.at = "test"] ELSE NoCall)
           \in RegistryCalls
    BY <1>0, <2>2
  <2>. QED  BY <1>2, <1>7, <2>1, <2>2, <2>3 DEF AssignOwn
<1>8. CASE AssignCurrent(th)
  <2>1. /\ [registry EXCEPT !.current = k.app] \in Registry
        /\ [registry EXCEPT !.current = NoApp] \in Registry
    BY <1>0 DEF RegistryCalls, Registry
  <2>2. [k EXCEPT !.at = "null"] \in RegistryCalls /\ [k EXCEPT !.at = "each"] \in RegistryCalls
    BY <1>0 DEF RegistryCalls, Statements
  <2>3. /\ (IF registry.current = k.app THEN [k EXCEPT !.at = "null"] ELSE NoCall)
              \in RegistryCalls
        /\ (IF k.method = "SetUnknown" THEN [k EXCEPT !.at = "each"] ELSE NoCall)
              \in RegistryCalls
    BY <1>0, <2>2
  <2>. QED  BY <1>0, <1>1, <1>8, <2>1, <2>3 DEF AssignCurrent
<1>. QED  BY <1>5, <1>6, <1>7, <1>8 DEF RegistryStep

-----------------------------------------------------------------------------
(* What the program counter says about the operation: whose step it is,    *)
(* where its tear-down leads, and that a switch has a target.              *)

OpShape ==
    /\ op.pc \in ConnectPcs => op.kind = "connect"
    /\ op.pc \in SwitchPcs => op.kind = "switch"
    /\ op.pc \in TearDown =>
          \/ op.kind = "connect" /\ op.next \in {"reset", "giveUp", "abort"}
          \/ op.kind = "switch" /\ op.next = "current"
          \/ op.kind = "disconnect" /\ op.next = "offline"
          \/ op.kind = "cleanup" /\ op.next = "cleaned"
    /\ op.pc = "check" => op.next = "current"
    /\ op.pc = "guard" => op.kind = "cleanup"
    /\ op.pc = "offline" => op.kind = "disconnect"
    /\ op.pc = "return" => op.kind # "none"
    /\ op.kind = "switch" \/ op.pc \in {"attach", "named", "attached", "resume", "resuming"} =>
          op.app \in Apps

\* The steps of everyone but the lock holder, the registry's own excepted.
Others ==
    \/ CallStep
    \/ \E t \in TransportIds : ReaderFaults(t) \/ FaultNoticed(t) \/ FaultRecorded(t)
    \/ LoopExits \/ ProviderFaultNoticed \/ ProviderFaultError \/ ProviderFaultRecorded
    \/ LoopFails \/ (\E o \in orphans : OrphanExits(o))
    \/ CloseWindow \/ DisposeStep
    \/ ApplicationExits

\* The statements of the registry's methods, on whichever thread.
Registering == \E th \in Threads : Registers(th)

LEMMA OthersSpareOp == Others \/ Registering => UNCHANGED op
  BY DEF Others, CallStep, Call, ReaderFaults, FaultNoticed, FaultRecorded,
         LoopExits, LoopFails, LoopGoes, ProviderFaultNoticed, ProviderFaultError,
         ProviderFaultRecorded, OrphanExits, CloseWindow, DisposeStep,
         DisposeCancelsProvider, DisposeJoinsProvider, DisposeDetaches, DisposeCloses,
         ApplicationExits, Registering, Registers, lockVars

LEMMA RegisteringSpares ==
    Registering => UNCHANGED <<conn, transport, portVars, lockVars, loopVars, closeVars, boardVars>>
  BY DEF Registering, Registers

\* The steps under the lock that leave connectionState and the registry alone.
OtherOpStep ==
    \/ \E c \in queue : Acquire(c)
    \/ \E t \in TransportIds : AcquireCleanup(t)
    \/ TearDownStep \/ JoinExpires \/ (Return /\ calls["holder"] = NoCall)
    \/ ProviderCreated \/ ProviderStarts \/ ProviderFailsToStart
    \/ CleanupGuard \/ CleanupDone

\* The lock holder goes on when the registry's method has returned.
LEMMA NextCases ==
    ASSUME [Next]_vars
    PROVE  \/ Others \/ Registering
           \/ ConnectStep /\ calls["holder"] = NoCall
           \/ SwitchStep /\ calls["holder"] = NoCall
           \/ OtherOpStep
           \/ UNCHANGED vars
<1>1. "holder" \in Threads /\ "loop" \in Threads /\ TransportIds \subseteq Threads
  BY DEF Threads
<1>2. CASE OpStep \/ JoinExpires
  BY <1>1, <1>2 DEF OpStep, OtherOpStep, Registering
<1>3. CASE LoopStep \/ LoopFails
  BY <1>1, <1>3 DEF LoopStep, Others, Registering
<1>4. ASSUME NEW t \in TransportIds, AcquireCleanup(t) \/ ReaderFaults(t) \/ ReaderStep(t)
      PROVE  Others \/ Registering \/ OtherOpStep
  BY <1>1, <1>4 DEF ReaderStep, Others, OtherOpStep, Registering
<1>5. CASE \/ CallStep \/ (\E c \in queue : Acquire(c)) \/ (\E o \in orphans : OrphanExits(o))
           \/ CloseWindow \/ DisposeStep \/ ApplicationExits
  BY <1>5 DEF Others, OtherOpStep
<1>. QED  BY <1>2, <1>3, <1>4, <1>5 DEF Next

LEMMA OtherOpStepsSpareHost == OtherOpStep => UNCHANGED <<conn, registry, calls>>
  BY DEF OtherOpStep, Acquire, AcquireCleanup, TearDownStep, CancelProvider, JoinProvider,
         JoinExpires, DetachTransport, CloseTransport, Return, ProviderCreated, ProviderStarts,
         ProviderFailsToStart, CleanupGuard, CleanupDone, OnlyOp, hostVars, regVars

LEMMA ShapeInit == Init => OpShape
  BY DEF Init, OpShape, NoOp, ConnectPcs, SwitchPcs, TearDown

LEMMA ShapeStep ==
    ASSUME TypeOK, OpShape, [Next]_vars
    PROVE  OpShape'
<1>. USE DEF OpShape, ConnectPcs, SwitchPcs, TearDown, NoOp, Goto, ThenTearDown, Commit
<1>0. op \in Ops /\ queue \subseteq Calls  BY DEF TypeOK
<1>. USE <1>0 DEF Ops
<1>1. CASE UNCHANGED op
  BY <1>1
<1>2. ASSUME NEW c \in queue, Acquire(c)  PROVE OpShape'
  BY <1>2 DEF Acquire, Calls, Entry
<1>3. ASSUME NEW t \in TransportIds, AcquireCleanup(t)  PROVE OpShape'
  BY <1>3 DEF AcquireCleanup
<1>4. CASE CleanupGuard \/ CleanupDone \/ Return
  <2>1. op.kind = "cleanup" /\ ThenTearDown("cleaned") => OpShape'
    OBVIOUS
  <2>2. Goto("idle") => OpShape'
    OBVIOUS
  <2>. QED  BY <1>4, <2>1, <2>2 DEF CleanupGuard, CleanupDone, Return
<1>5. CASE TearDownStep \/ JoinExpires
  BY <1>5, ZenonT(40) DEF TearDownStep, JoinExpires, CancelProvider, JoinProvider, AfterJoin,
              DetachTransport, CloseTransport
<1>6. CASE ConnectStep
  <2>1. CASE ConnectReset \/ ConnectNoPort \/ ConnectAttach \/ ConnectNamed \/ ConnectAttached
             \/ ConnectList \/ ConnectQuery
    BY <2>1 DEF ConnectReset, ConnectNoPort, ConnectAttach, ConnectNamed, ConnectAttached,
                ConnectList, ConnectQuery
  <2>2. CASE ConnectOnline \/ ConnectGivesUp \/ ConnectAborts \/ DisconnectDone
    BY <2>2, SMTT(30) DEF ConnectOnline, ConnectGivesUp, ConnectAborts, DisconnectDone
  <2>3. CASE ConnectThrows \/ ConnectCancelled \/ ConnectChecked
    BY <2>3, ZenonT(40) DEF ConnectThrows, ConnectCancelled, ConnectChecked
  <2>4. CASE ConnectProbe \/ ConnectOpened \/ \E t \in TransportIds : ConnectOpen(t)
    BY <2>4, ZenonT(40) DEF ConnectProbe, ConnectOpened, ConnectOpen
  <2>. QED  BY <1>6, <2>1, <2>2, <2>3, <2>4 DEF ConnectStep
<1>7. CASE ProviderCreated \/ ProviderStarts \/ ProviderFailsToStart
  <2>1. CASE op.pc \in {"resume", "resuming"}
    <3>1. ThenTearDown("giveUp") => OpShape'
      BY <2>1
    <3>2. Goto("idle") => OpShape'
      OBVIOUS
    <3>3. Goto("resuming") => OpShape'
      BY <2>1
    <3>. QED  BY <1>7, <2>1, <3>1, <3>2, <3>3
             DEF ProviderCreated, ProviderStarts, ProviderFailsToStart
  <2>2. CASE op.pc \in {"provide", "providing"}
    BY <1>7, <2>2 DEF ProviderCreated, ProviderStarts, ProviderFailsToStart
  <2>. QED  BY <1>7, <2>1, <2>2 DEF ProviderCreated, ProviderStarts, ProviderFailsToStart
<1>8. CASE SwitchStep
  <2>1. CASE SwitchCheck \/ SwitchCurrent
    <3>1. op.pc = "check" /\ Goto("cancel") => OpShape'
      OBVIOUS
    <3>2. Goto("idle") => OpShape'
      OBVIOUS
    <3>3. op.pc = "current" /\ op' = [op EXCEPT !.pc = "beginStop", !.old = registry.current,
                                               !.tr = transport] => OpShape'
      OBVIOUS
    <3>. QED  BY <2>1, <3>1, <3>2, <3>3 DEF SwitchCheck, SwitchCurrent
  <2>4. CASE SwitchBeginStop \/ SwitchStopped \/ SwitchNotStopped \/ SwitchHandover
    BY <2>4 DEF SwitchBeginStop, SwitchStopped, SwitchNotStopped, SwitchHandover
  <2>2. CASE SwitchStop \/ SwitchStart \/ SwitchStatus \/ SwitchRecover
    BY <2>2 DEF SwitchStop, SwitchStart, SwitchStatus, SwitchRecover, StopDialogue
  <2>3. CASE SwitchBackToQtopia \/ SwitchFailed \/ SwitchComplete \/ SwitchToError
             \/ SwitchCancelled
    BY <2>3 DEF SwitchBackToQtopia, SwitchFailed, SwitchComplete, SwitchToError, SwitchCancelled
  <2>. QED  BY <1>8, <2>1, <2>2, <2>3, <2>4 DEF SwitchStep
<1>9. CASE Others \/ Registering
  BY <1>1, <1>9, OthersSpareOp
<1>. QED
  BY <1>1, <1>2, <1>3, <1>4, <1>5, <1>6, <1>7, <1>8, <1>9, NextCases
     DEF OtherOpStep, vars, lockVars

-----------------------------------------------------------------------------
(* The steps of the lock holder are built from Goto, ThenTearDown, OnlyOp  *)
(* and Commit; each of these keeps the types.                              *)

LEMMA NoOpType == NoOp \in Ops
  BY DEF NoOp, Ops, Kinds, Pcs, OtherPcs, Apps

LEMMA GotoType ==
    ASSUME op \in Ops, NEW pc \in Pcs, Goto(pc)
    PROVE  op' \in Ops
  BY NoOpType DEF Goto, Ops

LEMMA ThenTearDownType ==
    ASSUME op \in Ops, NEW pc \in Pcs, ThenTearDown(pc)
    PROVE  op' \in Ops
  BY DEF ThenTearDown, Ops, Pcs, TearDown

LEMMA OnlyOpType ==
    ASSUME TypeOK, OnlyOp, op' \in Ops
    PROVE  TypeOK'
  BY DEF TypeOK, OnlyOp, hostVars, regVars, portVars, loopVars, closeVars, boardVars

LEMMA EntersType ==
    ASSUME calls \in [Threads -> RegistryCalls], NEW th, NEW k \in RegistryCalls, Enters(th, k)
    PROVE  calls' \in [Threads -> RegistryCalls]
  BY DEF Enters

LEMMA CommitType ==
    ASSUME TypeOK, NEW c \in {"Disconnected", "Connecting", "Connected", "Error"},
           NEW k \in RegistryCalls, NEW pc \in Pcs, Commit(c, k, pc)
    PROVE  TypeOK'
<1>1. op' \in Ops  BY GotoType DEF TypeOK, Commit
<1>2. calls' \in [Threads -> RegistryCalls]  BY EntersType DEF TypeOK, Commit
<1>. QED  BY <1>1, <1>2 DEF TypeOK, Commit, portVars, loopVars, closeVars, boardVars

LEMMA InitType == Init => TypeOK
<1>1. NewRegistry(Offered) \in Registry
  BY DEF NewRegistry, Registry, AppState
<1>2. NoProvider \in Providers
  BY DEF NoProvider, Providers, Loops
<1>3. NoCall \in RegistryCalls
  BY CallsTypes, NoAppType
<1>. QED  BY <1>1, <1>2, <1>3, NoOpType DEF Init, TypeOK

LEMMA CallType == TypeOK /\ CallStep => TypeOK'
<1>. SUFFICES ASSUME TypeOK, NEW kind \in CallKinds \ {"close"},
                     NEW a \in (IF kind = "switch" THEN Apps ELSE {NoApp}),
                     Call(kind, a)
              PROVE  TypeOK'
  BY DEF CallStep
<1>1. [kind |-> kind, app |-> a] \in Calls
  BY ConnectionAssumption DEF Calls
<1>. QED
  BY <1>1 DEF Call, TypeOK, hostVars, regVars, portVars, loopVars, closeVars, boardVars

LEMMA LockType ==
    ASSUME TypeOK,
           \/ \E c \in queue : Acquire(c)
           \/ \E t \in TransportIds : AcquireCleanup(t)
    PROVE  TypeOK'
<1>. USE DEF TypeOK, hostVars, regVars, portVars, loopVars, closeVars, boardVars
<1>1. ASSUME NEW c \in queue, Acquire(c)  PROVE TypeOK'
  <2>1. c \in Calls  OBVIOUS
  <2>2. Entry[c.kind] \in Pcs
    BY <2>1 DEF Calls, Entry, Pcs, ConnectPcs, SwitchPcs, OtherPcs
  <2>3. (IF c.kind = "switch" THEN "check" ELSE "cancel") \in Pcs
    BY DEF Pcs, TearDown, SwitchPcs
  <2>4. c.kind \in Kinds /\ c.app \in Apps \cup {NoApp}
    BY <2>1 DEF Calls, Kinds
  <2>5. op' \in Ops
    BY <1>1, <2>2, <2>3, <2>4, NoOpType DEF Acquire, NoOp, Ops
  <2>. QED  BY <1>1, <2>5 DEF Acquire
<1>2. ASSUME NEW t \in TransportIds, AcquireCleanup(t)  PROVE TypeOK'
  <2>1. op' \in Ops
    BY <1>2, NoOpType DEF AcquireCleanup, NoOp, Ops, Kinds, Pcs, OtherPcs
  <2>. QED  BY <1>2, <2>1 DEF AcquireCleanup
<1>. QED  BY <1>1, <1>2

LEMMA CleanupType ==
    ASSUME TypeOK, CleanupGuard \/ CleanupDone \/ Return
    PROVE  TypeOK'
<1>1. "idle" \in Pcs /\ "cleaned" \in Pcs  BY DEF Pcs, OtherPcs
<1>2. op' \in Ops
  BY <1>1, GotoType, ThenTearDownType DEF TypeOK, CleanupGuard, CleanupDone, Return
<1>. QED  BY <1>2, OnlyOpType DEF CleanupGuard, CleanupDone, Return

LEMMA TearDownType ==
    ASSUME TypeOK, TearDownStep \/ JoinExpires
    PROVE  TypeOK'
<1>. USE DEF TypeOK, hostVars, regVars, portVars, loopVars, closeVars, boardVars
<1>1. AfterJoin \in Pcs /\ "join" \in Pcs /\ "close" \in Pcs /\ op.next \in Pcs
  BY DEF AfterJoin, Ops, Pcs, TearDown
<1>2. NoProvider \in Providers
  BY DEF NoProvider, Providers, Loops
<1>3. LiveLoop => [app |-> provider.app, tr |-> provider.tr]
                     \in [app : Apps \cup {NoApp}, tr : TransportIds \cup {NoTransport}]
  BY DEF Providers
<1>4. CASE CancelProvider
  <2>1. op' \in Ops  BY <1>1, <1>4, GotoType DEF CancelProvider
  <2>2. [provider EXCEPT !.cancelled = provider # NoProvider] \in Providers
    BY DEF Providers
  <2>3. provider' \in Providers /\ orphans' \subseteq
           [app : Apps \cup {NoApp}, tr : TransportIds \cup {NoTransport}]
    BY <1>2, <1>3, <1>4, <2>2 DEF CancelProvider, Abandon
  <2>. QED  BY <1>4, <2>1, <2>3 DEF CancelProvider
<1>5. CASE JoinProvider \/ JoinExpires
  <2>1. op' \in Ops  BY <1>1, <1>5, GotoType DEF JoinProvider, JoinExpires
  <2>. QED  BY <1>2, <1>3, <1>5, <2>1 DEF JoinProvider, JoinExpires, Abandon
<1>6. CASE DetachTransport
  <2>1. op' \in Ops  BY <1>1, <1>6 DEF DetachTransport, Ops
  <2>. QED  BY <1>6, <2>1 DEF DetachTransport
<1>7. CASE CloseTransport
  <2>1. op' \in Ops  BY <1>1, <1>7, GotoType DEF CloseTransport
  <2>. QED  BY <1>7, <2>1 DEF CloseTransport, Closed
<1>. QED  BY <1>4, <1>5, <1>6, <1>7 DEF TearDownStep

LEMMA ConnectType ==
    ASSUME TypeOK, OpShape, ConnectStep
    PROVE  TypeOK'
<1>. USE DEF TypeOK
<1>1. {"idle", "open", "opened", "attach", "named", "attached", "resume", "list", "query",
       "online", "giveUp", "abort", "probe", "checked", "return"} \subseteq Pcs
  BY DEF Pcs, ConnectPcs, OtherPcs
<1>2. op.app \in Apps \cup {NoApp} /\ Qtopia \in Apps
  BY DEF Ops, Apps
<1>3. CASE ConnectReset \/ ConnectNoPort \/ ConnectOnline \/ ConnectGivesUp
             \/ ConnectAborts \/ DisconnectDone \/ ConnectAttached
  BY <1>1, <1>2, <1>3, CommitType, CallsTypes, NoAppType
     DEF ConnectReset, ConnectNoPort, ConnectOnline, ConnectGivesUp, ConnectAborts,
         DisconnectDone, ConnectAttached
<1>4. CASE ConnectAttach \/ ConnectList
  <2>1. PICK S \in SUBSET Apps : \/ Commit(conn, ApplyAvailability(S), "named")
                                 \/ Commit(conn, ApplyAvailability(S), "query")
    BY <1>4 DEF ConnectAttach, ConnectList, OpShape, Apps
  <2>2. ApplyAvailability(S) \in RegistryCalls
    BY CallsTypes, NoAppType
  <2>. QED  BY <1>1, <2>1, <2>2, CommitType
<1>5. CASE ConnectNamed \/ ConnectQuery
  BY <1>1, <1>2, <1>5, CommitType, CallsTypes, NoAppType DEF ConnectNamed, ConnectQuery
<1>7. CASE ConnectThrows \/ ConnectCancelled \/ ConnectChecked
  <2>1. op' \in Ops
    BY <1>1, <1>7, GotoType, ThenTearDownType
       DEF ConnectThrows, ConnectCancelled, ConnectChecked
  <2>. QED  BY <1>7, <2>1, OnlyOpType DEF ConnectThrows, ConnectCancelled, ConnectChecked
<1>8. ASSUME NEW t \in TransportIds, ConnectOpen(t)  PROVE TypeOK'
  <2>1. op' \in Ops  BY <1>1, <1>8 DEF ConnectOpen, Ops
  <2>. QED
    BY <1>8, <2>1 DEF ConnectOpen, hostVars, regVars, loopVars, closeVars, boardVars
<1>9. CASE ConnectProbe
  <2>1. \E found \in Apps \cup {NoApp} : op' = [op EXCEPT !.pc = "checked", !.app = found]
    BY <1>9 DEF ConnectProbe, TypeOK
  <2>3. "checked" \in Pcs
    BY DEF Pcs, ConnectPcs
  <2>4. op' \in Ops
    <3>1. PICK found \in Apps \cup {NoApp} : op' = [op EXCEPT !.pc = "checked", !.app = found]
      BY <2>1
    <3>. QED  BY <2>3, <3>1 DEF Ops
  <2>2. drift' \in BOOLEAN  BY <1>9 DEF ConnectProbe
  <2>. QED
    BY <1>9, <2>2, <2>4 DEF ConnectProbe, hostVars, regVars, portVars, loopVars, closeVars
<1>10. CASE ConnectOpened
  <2>1. op' \in Ops /\ op.tr \in TransportIds \cup {NoTransport}
    BY <1>1, <1>10, GotoType DEF ConnectOpened, Ops
  <2>. QED
    BY <1>10, <2>1 DEF ConnectOpened, regVars, portVars, loopVars, closeVars, boardVars
<1>. QED
  BY <1>3, <1>4, <1>5, <1>7, <1>8, <1>9, <1>10 DEF ConnectStep

LEMMA ProviderType ==
    ASSUME TypeOK, ProviderCreated \/ ProviderStarts \/ ProviderFailsToStart
    PROVE  TypeOK'
<1>. USE DEF TypeOK
<1>1. {"idle", "complete", "giveUp", "recover", "resuming", "providing"} \subseteq Pcs
  BY DEF Pcs, ConnectPcs, SwitchPcs, OtherPcs
<1>2. op' \in Ops
  BY <1>1, GotoType, ThenTearDownType DEF ProviderCreated, ProviderStarts, ProviderFailsToStart
<1>3. NewProvider \in Providers
  BY DEF NewProvider, Providers, Loops, Ops
<1>4. [provider EXCEPT !.loop = "running"] \in Providers
  BY DEF Providers, Loops
<1>5. CASE ProviderCreated \/ ProviderStarts
  BY <1>2, <1>3, <1>4, <1>5
     DEF ProviderCreated, ProviderStarts, hostVars, regVars, portVars, closeVars, boardVars
<1>. QED  BY <1>2, <1>5, OnlyOpType DEF ProviderFailsToStart

LEMMA StopDialogueType ==
    ASSUME TypeOK, NEW c \in Pcs, NEW u \in Pcs, StopDialogue(c, u)
    PROVE  TypeOK'
<1>. USE DEF TypeOK
<1>1. "failed" \in Pcs /\ Qtopia \in Apps  BY DEF Pcs, SwitchPcs, Apps
<1>2. op' \in Ops  BY <1>1, GotoType DEF StopDialogue
<1>3. board' \in Apps /\ drift' \in BOOLEAN  BY <1>1 DEF StopDialogue
<1>. QED
  BY <1>2, <1>3 DEF StopDialogue, hostVars, regVars, portVars, loopVars, closeVars

LEMMA SwitchType ==
    ASSUME TypeOK, OpShape, SwitchStep
    PROVE  TypeOK'
<1>. USE DEF TypeOK
<1>1. {"idle", "cancel", "beginStop", "stop", "stopped", "notStopped", "handover",
       "start", "status", "idleStill", "notStarted", "provide", "recovered",
       "stranded", "failed", "aborted", "return"} \subseteq Pcs
  BY DEF Pcs, TearDown, SwitchPcs, OtherPcs
<1>2. op.app \in Apps \cup {NoApp} /\ op.old \in Apps \cup {NoApp} /\ Qtopia \in Apps
  BY DEF Ops, Apps
<1>3. CASE SwitchStopped \/ SwitchNotStopped \/ SwitchHandover \/ SwitchFailed
             \/ SwitchComplete \/ SwitchToError
  BY <1>1, <1>2, <1>3, CommitType, CallsTypes, NoAppType
     DEF SwitchStopped, SwitchNotStopped, SwitchHandover, SwitchFailed,
         SwitchComplete, SwitchToError
<1>4. CASE SwitchBeginStop \/ SwitchBackToQtopia
  BY <1>1, <1>2, <1>4, CommitType, CallsTypes, NoAppType
     DEF SwitchBeginStop, SwitchBackToQtopia
<1>6. CASE SwitchStop \/ SwitchRecover
  BY <1>1, <1>6, StopDialogueType DEF SwitchStop, SwitchRecover
<1>7. CASE SwitchStart
  <2>1. op' \in Ops  BY <1>1, <1>7, GotoType DEF SwitchStart
  <2>2. op.app \in Apps  BY <1>7 DEF SwitchStart, OpShape, SwitchPcs
  <2>. QED
    BY <1>7, <2>1, <2>2 DEF SwitchStart, hostVars, regVars, portVars, loopVars, closeVars
<1>8. CASE SwitchCheck \/ SwitchStatus \/ SwitchCancelled
  <2>1. op' \in Ops
    BY <1>1, <1>8, GotoType DEF SwitchCheck, SwitchStatus, SwitchCancelled
  <2>. QED  BY <1>8, <2>1, OnlyOpType DEF SwitchCheck, SwitchStatus, SwitchCancelled
<1>9. CASE SwitchCurrent
  <2>1. registry.current \in Apps \cup {NoApp}  BY RegistryParts
  <2>2. op' \in Ops
    BY <1>1, <1>9, <2>1, GotoType DEF SwitchCurrent, Ops
  <2>. QED  BY <1>9, <2>2, OnlyOpType DEF SwitchCurrent
<1>. QED
  BY <1>3, <1>4, <1>6, <1>7, <1>8, <1>9 DEF SwitchStep

LEMMA OthersType ==
    ASSUME TypeOK, Others
    PROVE  TypeOK'
<1>. USE DEF TypeOK, hostVars, regVars, portVars, lockVars, loopVars, closeVars, boardVars
<1>1. CASE CallStep
  BY <1>1, CallType
<1>2. ASSUME NEW t \in TransportIds, ReaderFaults(t) \/ FaultNoticed(t) \/ FaultRecorded(t)
      PROVE  TypeOK'
  <2>1. SetUnknown \in RegistryCalls  BY CallsTypes, NoAppType
  <2>2. CASE ReaderFaults(t)   BY <2>2 DEF ReaderFaults
  <2>3. CASE FaultNoticed(t)   BY <2>1, <2>3 DEF FaultNoticed, Enters
  <2>4. CASE FaultRecorded(t)  BY <2>4 DEF FaultRecorded
  <2>. QED  BY <1>2, <2>2, <2>3, <2>4
<1>3. CASE LoopExits \/ ProviderFaultNoticed \/ ProviderFaultError \/ ProviderFaultRecorded
             \/ LoopFails
  <2>1. \A l \in Loops : [provider EXCEPT !.loop = l] \in Providers
    BY DEF Providers
  <2>2. provider' \in Providers
    BY <1>3, <2>1
       DEF LoopExits, LoopFails, LoopGoes, ProviderFaultNoticed,
           ProviderFaultError, ProviderFaultRecorded, Loops
  <2>3. Fail(provider.app) \in RegistryCalls
    BY CallsTypes, NoAppType DEF Providers
  <2>. QED
    BY <1>3, <2>2, <2>3
       DEF LoopExits, LoopFails, LoopGoes, ProviderFaultNoticed, Enters,
           ProviderFaultError, ProviderFaultRecorded
<1>4. ASSUME NEW o \in orphans, OrphanExits(o)  PROVE TypeOK'
  BY <1>4 DEF OrphanExits
<1>5. CASE CloseWindow
  BY <1>5 DEF CloseWindow
<1>6. CASE DisposeStep
  <2>1. /\ NoProvider \in Providers
        /\ [provider EXCEPT !.cancelled = provider # NoProvider] \in Providers
    BY DEF NoProvider, Providers, Loops
  <2>2. CASE DisposeCancelsProvider  BY <2>1, <2>2 DEF DisposeCancelsProvider
  <2>3. CASE DisposeJoinsProvider    BY <2>1, <2>3 DEF DisposeJoinsProvider
  <2>4. CASE DisposeDetaches         BY <2>4 DEF DisposeDetaches
  <2>5. CASE DisposeCloses           BY <2>5 DEF DisposeCloses, Closed
  <2>. QED  BY <1>6, <2>2, <2>3, <2>4, <2>5 DEF DisposeStep
<1>7. CASE ApplicationExits
  BY <1>7 DEF ApplicationExits, Apps
<1>. QED  BY <1>1, <1>2, <1>3, <1>4, <1>5, <1>6, <1>7 DEF Others

LEMMA RegisteringType ==
    ASSUME TypeOK, Registering
    PROVE  TypeOK'
<1>1. PICK th \in Threads : RegistryStep(th)
  BY DEF Registering, Registers
<1>2. registry' \in Registry /\ calls' \in [Threads -> RegistryCalls]
  BY <1>1, RegistryStepType DEF TypeOK
<1>. QED
  BY <1>2, RegisteringSpares DEF TypeOK, portVars, lockVars, loopVars, closeVars, boardVars

LEMMA TypeAndShape == Spec => [](TypeOK /\ OpShape)
<1>1. Init => TypeOK /\ OpShape
  BY InitType, ShapeInit
<1>2. ASSUME TypeOK, OpShape, [Next]_vars
      PROVE  TypeOK'
  <2>1. CASE UNCHANGED vars
    BY <1>2, <2>1 DEF TypeOK, vars, hostVars, regVars, portVars, lockVars, loopVars, closeVars,
                      boardVars
  <2>2. CASE OtherOpStep
    BY <1>2, <2>2, LockType, TearDownType, ProviderType, CleanupType DEF OtherOpStep
  <2>. QED
    BY <1>2, <2>1, <2>2, NextCases, OthersType, RegisteringType, ConnectType, SwitchType
<1>3. TypeOK /\ OpShape /\ [Next]_vars => (TypeOK /\ OpShape)'
  BY <1>2, ShapeStep
<1>. QED  BY <1>1, <1>3, PTL DEF Spec

(***************************************************************************)
(* Every field keeps its type, whatever the threads do.                    *)
(***************************************************************************)
THEOREM TypeCorrect == Spec => []TypeOK
  BY TypeAndShape, PTL

-----------------------------------------------------------------------------
(* A method of the registry, statement by statement: which of its          *)
(* statements a thread can be at, and what each does to the set of Running *)
(* entries, to currentAppId and to the thread.                             *)

RunningApps == {a \in Apps : registry.state[a] = "Running"}

WellCalled(k) ==
    \/ k = NoCall
    \/ k.method = "SetAvailable" /\ k.at \in {"offer", "settle"}
    \/ k.method = "SetUnknown" /\ k.at = "null" /\ k.left = Apps
    \/ k.method = "SetUnknown" /\ k.at = "each"
    \/ k.method \in {"SetCurrent", "CompleteStart"} /\ k.at = "each"
    \/ k.method \in {"SetCurrent", "CompleteStart"} /\ k.at \in {"run", "name"} /\ k.left = {}
    \/ k.method \in {"BeginStart", "BeginStop"} /\ k.at = "own"
    \/ k.method \in {"CompleteStop", "Fail"} /\ k.at \in {"own", "test", "null"}

Offering(k, k2) ==
    k.method = "SetAvailable" /\ k2.method \in {"SetAvailable", "none"}
    /\ RunningApps' = RunningApps /\ registry'.current = registry.current

Visiting(k, k2) ==
    /\ k.at = "each" /\ k.method \in {"SetUnknown", "SetCurrent", "CompleteStart"}
    /\ registry'.current = registry.current
    /\ \E a \in k.left :
          /\ RunningApps' = RunningApps \ {a}
          /\ \/ k2 = [k EXCEPT !.left = @ \ {a}]
             \/ k.left = {a} /\ k.method = "SetUnknown" /\ k2 = NoCall
             \/ k.left = {a} /\ k.method # "SetUnknown" /\ k2 = [k EXCEPT !.at = "run", !.left = {}]

RunsOwn(k, k2) ==
    /\ k.at = "run" /\ k.method \in {"SetCurrent", "CompleteStart"}
    /\ k2 = [k EXCEPT !.at = "name"]
    /\ RunningApps' \subseteq RunningApps \cup {k.app} /\ registry'.current = registry.current

LeavesOwn(k, k2) ==
    /\ k.at = "own" /\ k.method \in {"BeginStart", "BeginStop", "CompleteStop", "Fail"}
    /\ RunningApps' = RunningApps \ {k.app} /\ registry'.current = registry.current
    /\ k2 = IF k.method \in {"CompleteStop", "Fail"} THEN [k EXCEPT !.at = "test"] ELSE NoCall

Names(k, k2) ==
    /\ k.at = "name" /\ k.method \in {"SetCurrent", "CompleteStart"} /\ k2 = NoCall
    /\ RunningApps' = RunningApps /\ registry'.current = k.app

Tests(k, k2) ==
    /\ k.at = "test" /\ k.method \in {"CompleteStop", "Fail"}
    /\ RunningApps' = RunningApps /\ registry'.current = registry.current
    /\ \/ registry.current = k.app /\ k2 = [k EXCEPT !.at = "null"]
       \/ registry.current # k.app /\ k2 = NoCall

Nulls(k, k2) ==
    /\ k.at = "null"
    /\ RunningApps' = RunningApps /\ registry'.current = NoApp
    /\ \/ k.method = "SetUnknown" /\ k.left = Apps /\ k2 = [k EXCEPT !.at = "each"]
       \/ k.method \in {"CompleteStop", "Fail"} /\ k2 = NoCall

StatementOf(k, k2) ==
    \/ Offering(k, k2) \/ Visiting(k, k2) \/ RunsOwn(k, k2) \/ LeavesOwn(k, k2)
    \/ Names(k, k2) \/ Tests(k, k2) \/ Nulls(k, k2)

LEMMA RestsNotRunning == \A a : RestState(registry, a) # "Running"
  BY DEF RestState

LEMMA StatementCases ==
    ASSUME registry \in Registry, calls \in [Threads -> RegistryCalls], NEW th \in Threads,
           WellCalled(calls[th]), RegistryStep(th)
    PROVE  /\ StatementOf(calls[th], calls'[th])
           /\ \A u \in Threads \ {th} : calls'[u] = calls[u]
<1>. DEFINE k == calls[th]  k2 == calls'[th]
<1>0. /\ k \in RegistryCalls /\ registry.state \in [Apps -> AppState]
      /\ NoCall.method = "none" /\ NoCall.at = "done"
  BY DEF Registry, NoCall
<1>1. ASSUME NEW r, NEW x, Assign(th, r, x)
      PROVE  registry' = r /\ k2 = x /\ \A u \in Threads \ {th} : calls'[u] = calls[u]
  BY <1>1 DEF Assign
<1>2. ASSUME NEW a, NEW s, NEW x, AssignState(th, a, s, x)
      PROVE  /\ k2 = x /\ \A u \in Threads \ {th} : calls'[u] = calls[u]
             /\ registry'.current = registry.current
             /\ registry'.state = [registry.state EXCEPT ![a] = s]
  BY <1>1, <1>2 DEF AssignState, Registry
<1>3. ASSUME NEW a, NEW s, registry'.state = [registry.state EXCEPT ![a] = s]
      PROVE  /\ s # "Running" => RunningApps' = RunningApps \ {a}
             /\ RunningApps' \subseteq RunningApps \cup {a}
             /\ a \in Apps /\ s = registry.state[a] => RunningApps' = RunningApps
  BY <1>0, <1>3 DEF RunningApps
<1>4. ASSUME NEW r, Assign(th, r, k2), r.state = registry.state  PROVE RunningApps' = RunningApps
  BY <1>1, <1>4 DEF RunningApps
<1>5. CASE Offer(th)
  <2>0. k.method = "SetAvailable" /\ k.at \in {"offer", "settle"}
    BY <1>0, <1>5 DEF Offer, WellCalled
  <2>1. ASSUME k.at = "offer", NEW a \in k.left,
               Assign(th, [registry EXCEPT !.available[a] = a \in k.offered],
                      [k EXCEPT !.at = "settle", !.app = a, !.left = @ \ {a}])
        PROVE  Offering(k, k2) /\ \A u \in Threads \ {th} : calls'[u] = calls[u]
    <3>1. [registry EXCEPT !.available[a] = a \in k.offered].state = registry.state
          /\ [registry EXCEPT !.available[a] = a \in k.offered].current = registry.current
      BY DEF Registry
    <3>2. [k EXCEPT !.at = "settle", !.app = a, !.left = @ \ {a}].method = k.method
      BY <1>0 DEF RegistryCalls
    <3>. QED  BY <1>1, <1>4, <2>0, <2>1, <3>1, <3>2 DEF Offering
  <2>2. CASE k.at = "settle"
    <3>. DEFINE s == IF registry.state[k.app] \in {"Running", "Starting", "Stopping"}
                     THEN registry.state[k.app] ELSE RestState(registry, k.app)
                x == IF k.left = {} THEN NoCall ELSE [k EXCEPT !.at = "offer", !.app = NoApp]
    <3>1. AssignState(th, k.app, s, x)
      BY <1>5, <2>2 DEF Offer
    <3>2. x.method \in {"SetAvailable", "none"}
      BY <1>0, <2>0 DEF RegistryCalls
    <3>3. s = registry.state[k.app] \/ s # "Running"
      BY RestsNotRunning
    <3>. HIDE DEF s, x
    <3>4. registry'.state = [registry.state EXCEPT ![k.app] = s] /\ k2 = x
          /\ registry'.current = registry.current
          /\ \A u \in Threads \ {th} : calls'[u] = calls[u]
      BY <1>2, <3>1
    <3>5. CASE s # "Running"
      <4>1. registry.state[k.app] # "Running"
        BY <3>5 DEF s
      <4>2. k.app \notin RunningApps
        BY <4>1 DEF RunningApps
      <4>3. \A b \in Apps : registry'.state[b] = "Running"
                            <=> b # k.app /\ registry.state[b] = "Running"
        BY <1>0, <3>4, <3>5
      <4>4. RunningApps' = RunningApps \ {k.app}
        BY <4>3 DEF RunningApps
      <4>. QED  BY <2>0, <3>2, <3>4, <4>2, <4>4 DEF Offering, StatementOf
    <3>6. CASE s = registry.state[k.app] /\ s = "Running"
      <4>1. [registry.state EXCEPT ![k.app] = s] = registry.state
        BY <1>0, <3>6
      <4>2. RunningApps' = RunningApps
        BY <3>4, <4>1 DEF RunningApps
      <4>. QED  BY <2>0, <3>2, <3>4, <4>2 DEF Offering, StatementOf
    <3>. QED  BY <3>3, <3>5, <3>6
  <2>. QED  BY <1>5, <2>1, <2>2 DEF Offer, StatementOf
<1>6. CASE Visit(th)
  <2>1. PICK a \in k.left :
           AssignState(th, a, EachState(k.method, a),
                       IF k.left = {a} THEN AfterEach(k) ELSE [k EXCEPT !.left = @ \ {a}])
    BY <1>6 DEF Visit
  <2>. DEFINE s == EachState(k.method, a)
              x == IF k.left = {a} THEN AfterEach(k) ELSE [k EXCEPT !.left = @ \ {a}]
  <2>2. k.at = "each" /\ k.method \in {"SetUnknown", "SetCurrent", "CompleteStart"}
    BY <1>0, <1>6 DEF Visit, WellCalled
  <2>3. EachState(k.method, a) # "Running"
    BY <2>2, RestsNotRunning DEF EachState
  <2>4. s # "Running" /\ AssignState(th, a, s, x)
    BY <2>1, <2>3
  <2>. HIDE DEF s, x
  <2>5. /\ k2 = x /\ registry'.current = registry.current
        /\ registry'.state = [registry.state EXCEPT ![a] = s]
        /\ \A u \in Threads \ {th} : calls'[u] = calls[u]
    BY <1>2, <2>4
  <2>6. RunningApps' = RunningApps \ {a}
    BY <1>3, <2>4, <2>5
  <2>. QED  BY <2>2, <2>5, <2>6 DEF Visiting, AfterEach, StatementOf, x
<1>7. CASE AssignOwn(th)
  <2>1. CASE k.at = "own"
    <3>1. k.method \in {"BeginStart", "BeginStop", "CompleteStop", "Fail"}
      BY <1>0, <2>1 DEF WellCalled
    <3>2. OwnState(k) # "Running"
      BY RestsNotRunning DEF OwnState
    <3>. DEFINE s == OwnState(k)
                x == IF k.method \in {"CompleteStop", "Fail"} THEN [k EXCEPT !.at = "test"]
                     ELSE NoCall
    <3>3. s # "Running" /\ AssignState(th, k.app, s, x)
      BY <1>7, <2>1, <3>2 DEF AssignOwn
    <3>. HIDE DEF s, x
    <3>4. /\ k2 = x /\ registry'.current = registry.current
          /\ registry'.state = [registry.state EXCEPT ![k.app] = s]
          /\ \A u \in Threads \ {th} : calls'[u] = calls[u]
      BY <1>2, <3>3
    <3>5. \A b \in Apps : registry'.state[b] = "Running"
                          <=> b # k.app /\ registry.state[b] = "Running"
      BY <1>0, <3>3, <3>4
    <3>6. RunningApps' = RunningApps \ {k.app}
      BY <3>5 DEF RunningApps
    <3>. QED  BY <2>1, <3>1, <3>4, <3>6 DEF LeavesOwn, StatementOf, x
  <2>2. CASE k.at = "run"
    <3>1. k.method \in {"SetCurrent", "CompleteStart"}
      BY <1>0, <2>2 DEF WellCalled
    <3>. DEFINE x == [k EXCEPT !.at = "name"]
    <3>2. AssignState(th, k.app, "Running", x)
      BY <1>7, <2>2 DEF AssignOwn
    <3>. HIDE DEF x
    <3>3. /\ k2 = x /\ registry'.current = registry.current
          /\ registry'.state = [registry.state EXCEPT ![k.app] = "Running"]
          /\ \A u \in Threads \ {th} : calls'[u] = calls[u]
      BY <1>2, <3>2
    <3>4. RunningApps' \subseteq RunningApps \cup {k.app}
      BY <1>3, <3>3
    <3>. QED  BY <2>2, <3>1, <3>3, <3>4 DEF RunsOwn, StatementOf, x
  <2>. QED  BY <1>7, <2>1, <2>2 DEF AssignOwn
<1>8. CASE AssignCurrent(th)
  <2>0. \A c : [registry EXCEPT !.current = c].state = registry.state
               /\ [registry EXCEPT !.current = c].current = c
    BY DEF Registry
  <2>1. CASE k.at = "name"
    <3>1. Assign(th, [registry EXCEPT !.current = k.app], NoCall)
      BY <1>8, <2>1 DEF AssignCurrent
    <3>2. k.method \in {"SetCurrent", "CompleteStart"}
      BY <1>0, <2>1 DEF WellCalled
    <3>. DEFINE r == [registry EXCEPT !.current = k.app]
    <3>3. r.state = registry.state /\ r.current = k.app /\ Assign(th, r, NoCall)
      BY <2>0, <3>1
    <3>. HIDE DEF r
    <3>4. registry' = r /\ k2 = NoCall /\ \A u \in Threads \ {th} : calls'[u] = calls[u]
      BY <1>1, <3>3
    <3>5. RunningApps' = RunningApps
      BY <3>3, <3>4 DEF RunningApps
    <3>. QED  BY <2>1, <3>2, <3>3, <3>4, <3>5 DEF Names, StatementOf
  <2>2. CASE k.at = "test"
    <3>1. Assign(th, registry,
                 IF registry.current = k.app THEN [k EXCEPT !.at = "null"] ELSE NoCall)
      BY <1>8, <2>2 DEF AssignCurrent
    <3>2. k.method \in {"CompleteStop", "Fail"}
      BY <1>0, <2>2 DEF WellCalled
    <3>. QED  BY <1>1, <1>4, <2>2, <3>1, <3>2 DEF Tests, StatementOf
  <2>3. CASE k.at = "null"
    <3>1. Assign(th, [registry EXCEPT !.current = NoApp],
                 IF k.method = "SetUnknown" THEN [k EXCEPT !.at = "each"] ELSE NoCall)
      BY <1>8, <2>3 DEF AssignCurrent
    <3>2. k.method \in {"CompleteStop", "Fail"} \/ (k.method = "SetUnknown" /\ k.left = Apps)
      BY <1>0, <2>3 DEF WellCalled
    <3>. QED  BY <1>1, <1>4, <2>0, <2>3, <3>1, <3>2 DEF Nulls, StatementOf
  <2>. QED  BY <1>8, <2>1, <2>2, <2>3 DEF AssignCurrent
<1>. QED  BY <1>5, <1>6, <1>7, <1>8 DEF RegistryStep

\* Offering says little of where the thread is next; this is the rest of it.
LEMMA StillCalled ==
    ASSUME registry \in Registry, calls \in [Threads -> RegistryCalls], NEW th \in Threads,
           WellCalled(calls[th]), RegistryStep(th)
    PROVE  WellCalled(calls'[th])
<1>. DEFINE k == calls[th]  k2 == calls'[th]
<1>0. k \in RegistryCalls /\ NoCall.method = "none" /\ NoCall.at = "done"
  BY DEF NoCall
<1>1. CASE Offer(th)
  <2>1. k.method = "SetAvailable"
    BY <1>0, <1>1 DEF Offer, WellCalled
  <2>2. \/ k2 = NoCall \/ \E a : k2 = [k EXCEPT !.at = "settle", !.app = a, !.left = @ \ {a}]
        \/ k2 = [k EXCEPT !.at = "offer", !.app = NoApp]
    BY <1>0, <1>1 DEF Offer, Assign, AssignState
  <2>. QED  BY <1>0, <2>1, <2>2 DEF WellCalled, RegistryCalls
<1>2. CASE ~Offer(th)
  <2>1. StatementOf(k, k2)
    BY StatementCases
  <2>2. CASE Offering(k, k2)
    <3>1. k.at \in {"offer", "settle"}
      BY <1>0, <2>2 DEF Offering, WellCalled
    <3>. QED  BY <1>2, <3>1 DEF RegistryStep, Visit, AssignOwn, AssignCurrent
  <2>. QED
    BY <1>0, <2>1, <2>2
       DEF StatementOf, Visiting, RunsOwn, LeavesOwn, Names, Tests, Nulls, WellCalled, RegistryCalls
<1>. QED  BY <1>1, <1>2

LEMMA SameMethod ==
    ASSUME registry \in Registry, calls \in [Threads -> RegistryCalls], NEW th \in Threads,
           WellCalled(calls[th]), RegistryStep(th)
    PROVE  \/ calls'[th] = NoCall
           \/ /\ calls'[th].method = calls[th].method /\ calls[th] # NoCall
              /\ calls[th].method # "SetAvailable" => calls'[th].app = calls[th].app
<1>. DEFINE k == calls[th]  k2 == calls'[th]
<1>1. /\ k \in RegistryCalls /\ NoCall.method = "none" /\ NoCall.at = "done"
      /\ StatementOf(k, k2) /\ WellCalled(k2)
  BY StatementCases, StillCalled DEF NoCall
<1>. HIDE DEF k, k2
<1>2. k2 = NoCall \/ (k2.method = k.method /\ k # NoCall
                      /\ (k.method # "SetAvailable" => k2.app = k.app))
  BY <1>1 DEF StatementOf, Offering, Visiting, RunsOwn, LeavesOwn, Names, Tests, Nulls,
              WellCalled, RegistryCalls
<1>. QED  BY <1>2 DEF k, k2

-----------------------------------------------------------------------------
(* Which thread is inside which method, and where the operation stands     *)
(* when its holder is.                                                     *)

HolderAt(k) ==
    \/ k.method = "SetUnknown" /\ op.pc \in {"open", "return", "online"}
    \/ k.method = "SetAvailable" /\ op.pc \in {"named", "query"}
    \/ k.method = "SetCurrent" /\ op.pc \in {"attached", "online", "notStarted", "return"}
    \/ k.method = "BeginStop" /\ op.pc \in {"stop", "stopped"} /\ k.app = op.old
    \/ k.method = "CompleteStop" /\ op.pc = "handover" /\ k.app = op.old
    \/ k.method = "BeginStart" /\ op.pc = "start"
    \/ k.method \in {"Fail", "CompleteStart"} /\ op.pc = "return"

CallInv ==
    /\ \A th \in Threads : WellCalled(calls[th])
    /\ \A t \in TransportIds : calls[t].method \in {"none", "SetUnknown"}
    /\ calls["loop"].method \in {"none", "Fail"}
    /\ calls["holder"] # NoCall => HolderAt(calls["holder"])

LEMMA ThreadNames ==
    /\ "holder" \in Threads /\ "loop" \in Threads /\ TransportIds \subseteq Threads
    /\ "holder" \notin TransportIds /\ "loop" \notin TransportIds
    /\ \A th \in Threads : th \in {"holder", "loop"} \cup TransportIds
  BY ThreadsAssumption DEF Threads

\* What the methods look like when a thread enters them.
LEMMA Entered ==
    /\ SetUnknown.method = "SetUnknown" /\ WellCalled(SetUnknown) /\ SetUnknown # NoCall
    /\ \A S : ApplyAvailability(S).method = "SetAvailable" /\ WellCalled(ApplyAvailability(S))
    /\ \A a : /\ SetCurrent(a).method = "SetCurrent" /\ SetCurrent(a).app = a
              /\ SetCurrent(a).at = "each" /\ SetCurrent(a).left = Apps
              /\ CompleteStart(a).method = "CompleteStart" /\ CompleteStart(a).app = a
              /\ CompleteStart(a).at = "each" /\ CompleteStart(a).left = Apps \ {a}
    /\ \A a : /\ BeginStart(a).method = "BeginStart" /\ BeginStart(a).app = a
              /\ BeginStop(a).method = "BeginStop" /\ BeginStop(a).app = a
              /\ CompleteStop(a).method = "CompleteStop" /\ CompleteStop(a).app = a
              /\ Fail(a).method = "Fail" /\ Fail(a).app = a
    /\ \A a : /\ BeginStart(a).at = "own" /\ BeginStop(a).at = "own"
              /\ CompleteStop(a).at = "own" /\ Fail(a).at = "own"
    /\ \A a : /\ WellCalled(SetCurrent(a)) /\ WellCalled(CompleteStart(a))
              /\ WellCalled(BeginStart(a)) /\ WellCalled(BeginStop(a))
              /\ WellCalled(CompleteStop(a)) /\ WellCalled(Fail(a))
    /\ NoCall.method = "none" /\ NoCall.at = "done" /\ WellCalled(NoCall)
<1>. USE DEF NoCall, On
<1>1. SetUnknown.method = "SetUnknown" /\ WellCalled(SetUnknown) /\ SetUnknown # NoCall
  BY DEF SetUnknown, WellCalled
<1>2. \A S : ApplyAvailability(S).method = "SetAvailable" /\ WellCalled(ApplyAvailability(S))
  BY DEF ApplyAvailability, SetAvailable, WellCalled
<1>3. \A a : /\ SetCurrent(a).method = "SetCurrent" /\ SetCurrent(a).app = a
             /\ SetCurrent(a).at = "each" /\ SetCurrent(a).left = Apps
             /\ CompleteStart(a).method = "CompleteStart" /\ CompleteStart(a).app = a
             /\ CompleteStart(a).at = "each" /\ CompleteStart(a).left = Apps \ {a}
  BY DEF SetCurrent, CompleteStart
<1>4. \A a : /\ BeginStart(a).method = "BeginStart" /\ BeginStart(a).app = a
             /\ BeginStop(a).method = "BeginStop" /\ BeginStop(a).app = a
             /\ CompleteStop(a).method = "CompleteStop" /\ CompleteStop(a).app = a
             /\ Fail(a).method = "Fail" /\ Fail(a).app = a
  BY DEF BeginStart, BeginStop, CompleteStop, Fail
<1>5. \A a : /\ BeginStart(a).at = "own" /\ BeginStop(a).at = "own"
             /\ CompleteStop(a).at = "own" /\ Fail(a).at = "own"
  BY DEF BeginStart, BeginStop, CompleteStop, Fail
<1>6. \A a : /\ WellCalled(SetCurrent(a)) /\ WellCalled(CompleteStart(a))
             /\ WellCalled(BeginStart(a)) /\ WellCalled(BeginStop(a))
             /\ WellCalled(CompleteStop(a)) /\ WellCalled(Fail(a))
  BY <1>3, <1>4, <1>5 DEF WellCalled
<1>7. NoCall.method = "none" /\ NoCall.at = "done" /\ WellCalled(NoCall)
  BY DEF WellCalled
<1>. QED  BY <1>1, <1>2, <1>3, <1>4, <1>5, <1>6, <1>7

\* The methods the holder of the lock enters, where it goes and from where.
HolderEnters(k, pc) ==
    \/ k = NoCall /\ pc \in {"idle", "resume", "failed"}
    \/ k = SetUnknown /\ pc \in {"open", "return", "online"}
    \/ (\E S : k = ApplyAvailability(S)) /\ pc \in {"named", "query"}
    \/ k = SetCurrent(op.app) /\ op.pc = "named" /\ pc = "attached"
    \/ k = SetCurrent(Qtopia) /\ op.pc = "query" /\ pc = "online" /\ board = Qtopia
    \/ k = SetCurrent(Qtopia) /\ op.pc = "handover" /\ pc = "return"
    \/ k = SetCurrent(Qtopia) /\ op.pc \in {"idleStill", "recovered"} /\ pc = "notStarted"
    \/ k = BeginStop(op.old) /\ op.pc = "beginStop" /\ pc \in {"stop", "stopped"}
    \/ k = CompleteStop(op.old) /\ op.pc = "stopped" /\ pc = "handover"
    \/ k = Fail(op.old) /\ op.pc = "notStopped" /\ pc = "return"
    \/ k = BeginStart(op.app) /\ op.pc = "handover" /\ pc = "start"
    \/ k = Fail(op.app) /\ op.pc \in {"notStarted", "failed"} /\ pc = "return"
    \/ k = CompleteStart(op.app) /\ op.pc = "complete" /\ pc = "return"

\* The steps of the holder that enter no method.
Plain == UNCHANGED <<registry, calls>>

PlainStep ==
    \/ (\E t \in TransportIds : ConnectOpen(t)) \/ ConnectOpened \/ ConnectThrows
    \/ ConnectCancelled \/ ConnectProbe \/ ConnectChecked
    \/ SwitchCheck \/ SwitchCurrent \/ SwitchStop \/ SwitchStart \/ SwitchStatus
    \/ SwitchRecover \/ SwitchCancelled

LEMMA PlainSteps == PlainStep => Plain
<1>1. \/ (\E t \in TransportIds : ConnectOpen(t)) \/ ConnectOpened \/ ConnectThrows
      \/ ConnectCancelled \/ ConnectProbe \/ ConnectChecked
      => Plain
  BY DEF ConnectOpen, ConnectOpened, ConnectThrows,
              ConnectCancelled, ConnectProbe, ConnectChecked, OnlyOp, Plain, hostVars, regVars
<1>2. \/ SwitchCheck \/ SwitchCurrent \/ SwitchStop \/ SwitchStart \/ SwitchStatus
      \/ SwitchRecover \/ SwitchCancelled
      => Plain
  BY DEF SwitchCheck, SwitchCurrent, SwitchStop, SwitchStart, SwitchStatus, SwitchRecover,
              SwitchCancelled, StopDialogue, OnlyOp, Plain, hostVars, regVars
<1>. QED  BY <1>1, <1>2 DEF PlainStep

LEMMA HolderSplit ==
    ASSUME ConnectStep \/ SwitchStep
    PROVE  PlainStep \/ \E c, k, pc : Commit(c, k, pc) /\ HolderEnters(k, pc)
<1>1. CASE \/ ConnectReset \/ ConnectNoPort \/ ConnectAttach \/ ConnectNamed \/ ConnectAttached
           \/ ConnectList \/ ConnectQuery \/ ConnectOnline \/ ConnectGivesUp \/ ConnectAborts
           \/ DisconnectDone
  BY <1>1 DEF ConnectReset, ConnectNoPort, ConnectAttach, ConnectNamed, ConnectAttached,
              ConnectList, ConnectQuery, ConnectOnline, ConnectGivesUp, ConnectAborts,
              DisconnectDone, HolderEnters
<1>2. CASE PlainStep
  BY <1>2
<1>4. CASE SwitchBeginStop \/ SwitchStopped \/ SwitchNotStopped \/ SwitchHandover
             \/ SwitchBackToQtopia \/ SwitchFailed \/ SwitchComplete \/ SwitchToError
  BY <1>4 DEF SwitchBeginStop, SwitchStopped, SwitchNotStopped, SwitchHandover,
              SwitchBackToQtopia, SwitchFailed, SwitchComplete, SwitchToError, HolderEnters
<1>. QED  BY <1>1, <1>2, <1>4 DEF ConnectStep, SwitchStep, PlainStep

LEMMA HolderCases ==
    ASSUME ConnectStep \/ SwitchStep
    PROVE  Plain \/ \E c, k, pc : Commit(c, k, pc) /\ HolderEnters(k, pc)
  BY HolderSplit, PlainSteps

\* Without the lock only OnTransportFault and OnProviderFault enter a method.
LEMMA OthersOnCalls ==
    ASSUME Others
    PROVE  /\ UNCHANGED registry
           /\ \/ UNCHANGED calls
              \/ \E t \in TransportIds : /\ pump[t] = "raised" /\ Enters(t, SetUnknown)
                                        /\ UNCHANGED loopVars
              \/ ProviderFaultError
  BY DEF Others, CallStep, Call, ReaderFaults, FaultNoticed, FaultRecorded,
         LoopExits, LoopFails, LoopGoes, ProviderFaultNoticed, ProviderFaultError,
         ProviderFaultRecorded, OrphanExits, CloseWindow, DisposeStep,
         DisposeCancelsProvider, DisposeJoinsProvider, DisposeDetaches, DisposeCloses,
         ApplicationExits, hostVars, regVars, lockVars

LEMMA HolderQuiet ==
    ASSUME OpShape, CallInv, OtherOpStep
    PROVE  calls["holder"] = NoCall
<1>1. CASE Return /\ calls["holder"] = NoCall
  BY <1>1
<1>2. CASE ~(Return /\ calls["holder"] = NoCall)
  <2>1. op.kind = "none" \/ op.pc \in TearDown \cup {"resume", "resuming", "provide", "providing",
                                                     "guard", "cleaned"}
    BY <1>2 DEF OtherOpStep, Acquire, AcquireCleanup, TearDownStep, CancelProvider, JoinProvider,
         JoinExpires, DetachTransport, CloseTransport, ProviderCreated, ProviderStarts,
         ProviderFailsToStart, CleanupGuard, CleanupDone, TearDown
  <2>2. op.pc \notin {"open", "return", "online", "named", "query", "attached", "notStarted",
                      "stop", "stopped", "handover", "start"}
    BY <2>1 DEF OpShape, TearDown, ConnectPcs, SwitchPcs
  <2>. QED  BY <2>2 DEF CallInv, HolderAt
<1>. QED  BY <1>1, <1>2

LEMMA CallInvInit == Init => CallInv
  BY ThreadNames, Entered DEF Init, CallInv

LEMMA CallInvStep ==
    ASSUME TypeOK, OpShape, CallInv, [Next]_vars
    PROVE  CallInv'
<1>0. op \in Ops /\ registry \in Registry /\ calls \in [Threads -> RegistryCalls]
  BY DEF TypeOK
<1>. USE ThreadNames
<1>1. CASE Registering
  <2>1. PICK th \in Threads : RegistryStep(th)
    BY <1>1 DEF Registering, Registers
  <2>2. /\ \A u \in Threads \ {th} : calls'[u] = calls[u]
        /\ WellCalled(calls'[th])
        /\ \/ calls'[th] = NoCall
           \/ /\ calls'[th].method = calls[th].method /\ calls[th] # NoCall
              /\ calls[th].method # "SetAvailable" => calls'[th].app = calls[th].app
    BY <1>0, <2>1, StatementCases, StillCalled, SameMethod DEF CallInv
  <2>3. \A u \in Threads : WellCalled(calls[u]) /\ WellCalled(calls'[u])
    BY <2>2 DEF CallInv
  <2>4. \A u \in Threads : \/ calls'[u] = NoCall
                           \/ /\ calls'[u].method = calls[u].method
                              /\ calls[u].method # "SetAvailable" => calls'[u].app = calls[u].app
    BY <2>2
  <2>5. UNCHANGED op
    BY <1>1, OthersSpareOp
  <2>6. calls'["holder"] # NoCall => calls["holder"] # NoCall
    BY <2>2
  <2>7. calls'["holder"] # NoCall => HolderAt(calls["holder"])'
    BY <2>4, <2>5, <2>6 DEF CallInv, HolderAt
  <2>. QED  BY <2>3, <2>4, <2>7, Entered DEF CallInv
<1>2. CASE Others
  <2>1. UNCHANGED op
    BY <1>2, OthersSpareOp
  <2>2. CASE UNCHANGED calls
    BY <2>1, <2>2 DEF CallInv, HolderAt
  <2>3. ASSUME NEW t \in TransportIds, Enters(t, SetUnknown)  PROVE CallInv'
    BY <1>0, <2>1, <2>3, Entered DEF CallInv, HolderAt, Enters
  <2>4. CASE ProviderFaultError
    BY <1>0, <2>1, <2>4, Entered DEF CallInv, HolderAt, ProviderFaultError, Enters
  <2>. QED  BY <1>2, <2>2, <2>3, <2>4, OthersOnCalls
<1>3. CASE (ConnectStep \/ SwitchStep) /\ calls["holder"] = NoCall
  <2>1. CASE Plain
    BY <1>3, <2>1 DEF CallInv, Plain
  <2>2. ASSUME NEW c, NEW k, NEW pc, Commit(c, k, pc), HolderEnters(k, pc)
        PROVE  CallInv'
    <3>1. WellCalled(k)
      BY <2>2, Entered DEF HolderEnters
    <3>2. calls'["holder"] = k /\ \A u \in Threads \ {"holder"} : calls'[u] = calls[u]
      BY <1>0, <2>2 DEF Commit, Enters
    <3>3. k # NoCall => op' = [op EXCEPT !.pc = pc]
      BY <2>2 DEF Commit, Goto, HolderEnters
    <3>4. k # NoCall => op'.pc = pc /\ op'.old = op.old
      BY <1>0, <3>3 DEF Ops
    <3>5. k # NoCall => HolderAt(calls["holder"])'
      BY <2>2, <3>2, <3>4, Entered DEF HolderAt, HolderEnters
    <3>. QED  BY <3>1, <3>2, <3>5 DEF CallInv
  <2>. QED  BY <1>3, <2>1, <2>2, HolderCases
<1>4. CASE OtherOpStep
  BY <1>4, OtherOpStepsSpareHost, HolderQuiet DEF CallInv
<1>5. CASE UNCHANGED vars
  BY <1>5 DEF vars, hostVars, regVars, lockVars, CallInv, HolderAt
<1>. QED  BY <1>1, <1>2, <1>3, <1>4, <1>5, NextCases

\* A reader enters the registry once, before it queues its cleanup, and its
\* port is dead by then.
PumpInv ==
    \A t \in TransportIds : /\ pump[t] # "idle" => port[t] # "open"
                            /\ calls[t] # NoCall => pump[t] = "unset"

LEMMA PumpInvInit == Init => PumpInv
  BY ThreadNames DEF Init, PumpInv

LEMMA PumpInvStep ==
    ASSUME TypeOK, OpShape, CallInv, PumpInv, [Next]_vars
    PROVE  PumpInv'
<1>0. /\ calls \in [Threads -> RegistryCalls]
      /\ port \in [TransportIds -> {"closed", "open", "faulted"}]
      /\ pump \in [TransportIds -> {"idle", "raised", "unset", "cleanup"}]
  BY DEF TypeOK
<1>1. ASSUME \A u \in TransportIds : calls'[u] = calls[u], UNCHANGED pump,
             \A u \in TransportIds : port'[u] = "open" => port[u] = "open"
      PROVE  PumpInv'
  BY <1>1 DEF PumpInv
<1>2. CASE Registering
  <2>1. PICK th \in Threads : RegistryStep(th)
    BY <1>2 DEF Registering, Registers
  <2>2. /\ \A u \in Threads \ {th} : calls'[u] = calls[u]
        /\ calls'[th] = NoCall \/ calls[th] # NoCall
    BY <2>1, StatementCases, SameMethod DEF TypeOK, CallInv
  <2>3. \A u \in TransportIds : calls'[u] # NoCall => calls[u] # NoCall
    BY <2>2, ThreadNames
  <2>. QED  BY <1>2, <2>3, RegisteringSpares DEF PumpInv, portVars
<1>3. CASE Others
  <2>1. ASSUME NEW t \in TransportIds, ReaderFaults(t)  PROVE PumpInv'
    BY <1>0, <2>1 DEF ReaderFaults, PumpInv, hostVars, regVars
  <2>2. ASSUME NEW t \in TransportIds, FaultNoticed(t)  PROVE PumpInv'
    BY <1>0, <2>2, ThreadNames DEF FaultNoticed, Enters, PumpInv
  <2>3. ASSUME NEW t \in TransportIds, FaultRecorded(t)  PROVE PumpInv'
    BY <1>0, <2>3 DEF FaultRecorded, PumpInv, hostVars, regVars
  <2>4. CASE ProviderFaultError
    BY <1>0, <1>1, <2>4, ThreadNames DEF ProviderFaultError, Enters, LoopGoes, portVars
  <2>5. CASE DisposeCloses
    BY <1>1, <2>5 DEF DisposeCloses, Closed, hostVars, regVars
  <2>. QED
    BY <1>1, <1>3, <2>1, <2>2, <2>3, <2>4, <2>5
       DEF Others, CallStep, Call, LoopExits, LoopFails, LoopGoes, ProviderFaultNoticed,
           ProviderFaultRecorded, OrphanExits, CloseWindow, DisposeStep, DisposeCancelsProvider,
           DisposeJoinsProvider, DisposeDetaches, ApplicationExits, portVars, hostVars, regVars
<1>4. CASE ConnectStep
  <2>1. ASSUME NEW t \in TransportIds, ConnectOpen(t)  PROVE PumpInv'
    BY <1>0, <2>1 DEF ConnectOpen, Free, PumpInv, hostVars, regVars
  <2>2. CASE ~\E t \in TransportIds : ConnectOpen(t)
    <3>1. UNCHANGED portVars
      BY <1>4, <2>2
         DEF ConnectStep, ConnectReset, ConnectNoPort, ConnectOpened, ConnectThrows,
             ConnectCancelled, ConnectProbe, ConnectChecked, ConnectAttach, ConnectNamed,
             ConnectAttached, ConnectList, ConnectQuery, ConnectOnline, ConnectGivesUp,
             ConnectAborts, DisconnectDone, Commit, OnlyOp
    <3>2. \A u \in TransportIds : calls'[u] = calls[u]
      BY <1>0, <1>4, HolderCases, ThreadNames DEF Plain, Commit, Enters
    <3>. QED  BY <1>1, <3>1, <3>2 DEF portVars
  <2>. QED  BY <2>1, <2>2
<1>5. CASE SwitchStep
  <2>1. UNCHANGED portVars
    BY <1>5 DEF SwitchStep, SwitchCheck, SwitchCurrent, SwitchBeginStop, SwitchStop,
         SwitchStopped, SwitchNotStopped, SwitchHandover, SwitchStart, SwitchStatus,
         SwitchBackToQtopia, SwitchFailed, SwitchComplete, SwitchRecover, SwitchToError,
         SwitchCancelled, StopDialogue, OnlyOp, Commit
  <2>2. \A u \in TransportIds : calls'[u] = calls[u]
    BY <1>0, <1>5, HolderCases, ThreadNames DEF Plain, Commit, Enters
  <2>. QED  BY <1>1, <2>1, <2>2 DEF portVars
<1>6. CASE OtherOpStep
  <2>1. UNCHANGED calls
    BY <1>6, OtherOpStepsSpareHost
  <2>2. ASSUME NEW t \in TransportIds, AcquireCleanup(t)  PROVE PumpInv'
    BY <1>0, <2>1, <2>2 DEF AcquireCleanup, PumpInv
  <2>3. CASE CloseTransport
    BY <1>1, <2>1, <2>3 DEF CloseTransport, Closed
  <2>. QED
    BY <1>1, <1>6, <2>1, <2>2, <2>3
       DEF OtherOpStep, Acquire, TearDownStep, CancelProvider, JoinProvider, JoinExpires,
           DetachTransport, Return, ProviderCreated, ProviderStarts, ProviderFailsToStart,
           CleanupGuard, CleanupDone, OnlyOp, portVars
<1>7. CASE UNCHANGED vars
  BY <1>1, <1>7 DEF vars, hostVars, regVars, portVars
<1>. QED  BY <1>2, <1>3, <1>4, <1>5, <1>6, <1>7, NextCases

-----------------------------------------------------------------------------
(* Frames and commands.  The inductive invariant: from the end of the wait *)
(* for a provider (join) to the start of the next one the session has no   *)
(* loop, whatever the operation; a frame loop is abandoned only once the   *)
(* window is closing; and a provider is found already cancelled only by    *)
(* Dispose's doing.                                                        *)

Quiescent == {"detach", "close"} \cup ConnectPcs \cup (SwitchPcs \ {"check", "complete"})

NoLoopUnderCommand ==
    /\ op.pc \in Quiescent => provider.loop = "none"
    /\ \A o \in orphans : o.app \in FrameFirst => Cancelled
    /\ provider.cancelled => op.pc = "join" \/ Disposed

LEMMA NoLoopInit == Init => NoLoopUnderCommand
  BY DEF Init, NoLoopUnderCommand, NoProvider, NoOp, Quiescent, ConnectPcs, SwitchPcs

LEMMA NoLoopImplies == NoLoopUnderCommand => FramesApart
  BY DEF NoLoopUnderCommand, FramesApart, Quiescent, CommandPcs, ConnectPcs, SwitchPcs

LEMMA AcquireFromIdle ==
    ASSUME OpShape, op.kind = "none"
    PROVE  op.pc # "join"
  BY DEF OpShape, TearDown

LEMMA NoLoopStep ==
    ASSUME TypeOK, OpShape, NoLoopUnderCommand, [Next]_vars
    PROVE  NoLoopUnderCommand'
<1>. USE DEF NoLoopUnderCommand, Quiescent, ConnectPcs, SwitchPcs, Cancelled, Disposed,
             vars, hostVars, portVars, lockVars, loopVars, closeVars, boardVars
<1>0. op \in Ops /\ provider \in Providers  BY DEF TypeOK
<1>1. CASE Others
  <2>1. CASE UNCHANGED <<provider, orphans, closing>>
    BY <1>1, <2>1, OthersSpareOp
  <2>2. CASE LoopExits \/ ProviderFaultNoticed \/ ProviderFaultError \/ ProviderFaultRecorded
             \/ LoopFails
    <3>1. /\ UNCHANGED <<op, orphans, closing>> /\ provider.loop # "none"
          /\ \E l \in Loops : provider' = [provider EXCEPT !.loop = l]
      BY <1>1, <2>2, OthersSpareOp
         DEF LoopExits, LoopFails, LoopGoes, ProviderFaultNoticed,
             ProviderFaultError, ProviderFaultRecorded, Loops
    <3>. QED  BY <1>0, <3>1 DEF Providers
  <2>3. ASSUME NEW o \in orphans, OrphanExits(o)  PROVE NoLoopUnderCommand'
    BY <1>1, <2>3, OthersSpareOp DEF OrphanExits
  <2>4. CASE CloseWindow
    BY <1>1, <2>4, OthersSpareOp DEF CloseWindow
  <2>5. CASE DisposeStep
    <3>1. CASE DisposeCancelsProvider
      BY <1>0, <1>1, <3>1, OthersSpareOp DEF DisposeCancelsProvider, Providers
    <3>2. CASE DisposeJoinsProvider
      BY <1>1, <3>2, OthersSpareOp DEF DisposeJoinsProvider, NoProvider
    <3>3. CASE DisposeDetaches \/ DisposeCloses
      BY <1>1, <3>3, OthersSpareOp DEF DisposeDetaches, DisposeCloses
    <3>. QED  BY <2>5, <3>1, <3>2, <3>3 DEF DisposeStep
  <2>6. CallStep \/ ApplicationExits
           \/ (\E t \in TransportIds : ReaderFaults(t) \/ FaultNoticed(t) \/ FaultRecorded(t))
           => UNCHANGED <<provider, orphans, closing>>
    BY DEF CallStep, Call, ApplicationExits, ReaderFaults, FaultNoticed, FaultRecorded
  <2>. QED  BY <1>1, <2>1, <2>2, <2>3, <2>4, <2>5, <2>6 DEF Others
<1>2. CASE ConnectStep
  <2>1. UNCHANGED <<provider, orphans, closing>>
    BY <1>2 DEF ConnectStep, ConnectReset, ConnectNoPort, ConnectOpen, ConnectOpened,
         ConnectThrows, ConnectCancelled, ConnectProbe, ConnectChecked, ConnectAttach,
         ConnectNamed, ConnectAttached, ConnectList, ConnectQuery, ConnectOnline,
         ConnectGivesUp, ConnectAborts, DisconnectDone, Commit, OnlyOp
  <2>2. CASE DisconnectDone
    BY <1>0, <2>1, <2>2 DEF DisconnectDone, Commit, Goto, Ops
  <2>3. op.pc \in ConnectPcs \/ DisconnectDone
    BY <1>2 DEF OpShape, ConnectStep, ConnectReset, ConnectNoPort, ConnectOpen, ConnectOpened,
         ConnectThrows, ConnectCancelled, ConnectProbe, ConnectChecked, ConnectAttach,
         ConnectNamed, ConnectAttached, ConnectList, ConnectQuery, ConnectOnline,
         ConnectGivesUp, ConnectAborts
  <2>. QED  BY <2>1, <2>2, <2>3
<1>3. CASE SwitchStep
  <2>1. /\ UNCHANGED <<provider, orphans, closing>>
        /\ op'.pc \in {"cancel", "idle", "return"} \/ op.pc \in SwitchPcs \ {"check", "complete"}
        /\ op.pc # "join"
    BY <1>0, <1>3 DEF Ops, SwitchStep, SwitchCheck, SwitchCurrent, SwitchBeginStop, SwitchStop,
         SwitchStopped, SwitchNotStopped, SwitchHandover, SwitchStart, SwitchStatus,
         SwitchBackToQtopia, SwitchFailed, SwitchComplete, SwitchRecover, SwitchToError,
         SwitchCancelled, StopDialogue, Commit, OnlyOp, Goto, NoOp
  <2>. QED  BY <2>1
<1>4. CASE OtherOpStep
  <2>1. ASSUME NEW c \in queue, Acquire(c)  PROVE NoLoopUnderCommand'
    BY <2>1, AcquireFromIdle DEF Acquire, NoOp
  <2>2. ASSUME NEW t \in TransportIds, AcquireCleanup(t)  PROVE NoLoopUnderCommand'
    BY <2>2, AcquireFromIdle DEF AcquireCleanup, NoOp
  <2>3. CASE CancelProvider
    <3>1. CASE provider.cancelled
      BY <2>3, <3>1 DEF CancelProvider, Abandon, NoProvider
    <3>2. CASE ~provider.cancelled
      BY <1>0, <2>3, <3>2 DEF CancelProvider, Goto, Ops, Providers
    <3>. QED  BY <3>1, <3>2
  <2>4. CASE JoinProvider
    BY <2>4 DEF JoinProvider, NoProvider
  <2>5. CASE DetachTransport
    BY <1>0, <2>5 DEF DetachTransport, Ops
  <2>6. CASE CloseTransport
    BY <1>0, <2>6 DEF CloseTransport
  <2>7. CASE ProviderCreated \/ ProviderStarts
    BY <1>0, <2>7 DEF ProviderCreated, ProviderStarts, NewProvider, Unstarted, Goto, Ops, NoOp,
                      Providers
  <2>8. CASE ProviderFailsToStart
    BY <1>0, <2>8 DEF ProviderFailsToStart, OnlyOp
  <2>9. CASE CleanupGuard \/ CleanupDone \/ Return
    <3>1. op'.pc \in {"idle", "cancel"} /\ op.pc # "join"
      <4>1. Goto("idle") => op'.pc = "idle"
        BY DEF Goto, NoOp
      <4>2. ThenTearDown("cleaned") => op'.pc = "cancel"
        BY <1>0 DEF ThenTearDown, Ops
      <4>. QED  BY <2>9, <4>1, <4>2 DEF CleanupGuard, CleanupDone, Return
    <3>. QED  BY <2>9, <3>1 DEF CleanupGuard, CleanupDone, Return, OnlyOp
  <2>10. CASE JoinExpires
    <3>1. \A o \in orphans' : o \in orphans \/ o.app \notin FrameFirst
      BY <2>10 DEF JoinExpires, Abandon
    <3>. QED  BY <2>10, <3>1 DEF JoinExpires, NoProvider
  <2>. QED
    BY <1>4, <2>1, <2>2, <2>3, <2>4, <2>5, <2>6, <2>7, <2>8, <2>9, <2>10
       DEF OtherOpStep, TearDownStep
<1>5. CASE UNCHANGED vars
  BY <1>5
<1>6. CASE Registering
  BY <1>6, RegisteringSpares
<1>. QED  BY <1>1, <1>2, <1>3, <1>4, <1>5, <1>6, NextCases

LEMMA NoLoopHolds == Spec => [](TypeOK /\ OpShape /\ CallInv /\ PumpInv /\ NoLoopUnderCommand)
<1>1. TypeOK /\ OpShape /\ CallInv /\ [Next]_vars => CallInv'
  BY CallInvStep
<1>2. TypeOK /\ OpShape /\ NoLoopUnderCommand /\ [Next]_vars => NoLoopUnderCommand'
  BY NoLoopStep
<1>3. TypeOK /\ OpShape /\ CallInv /\ PumpInv /\ [Next]_vars => PumpInv'
  BY PumpInvStep
<1>. QED  BY <1>1, <1>2, <1>3, CallInvInit, PumpInvInit, NoLoopInit, TypeAndShape, PTL DEF Spec

(***************************************************************************)
(* While an operation talks to the board the provider session does not     *)
(* write into the same serial line and no frame loop is left over from an  *)
(* earlier one, although the wait for a provider may expire                *)
(* (ApplicationProviderSessions.Dispose, SerialDeviceConnection).          *)
(***************************************************************************)
THEOREM FramesKeptApart == Spec => []FramesApart
  BY NoLoopHolds, NoLoopImplies, PTL

-----------------------------------------------------------------------------
(* At most one entry is Running: only the holder of the lock writes it, in *)
(* SetCurrent and CompleteStart, which clear every other entry before.     *)

Writing == {"SetCurrent", "CompleteStart"}

RunInv ==
    /\ \A a, b \in RunningApps : a = b
    /\ calls["holder"].method \in Writing =>
          RunningApps \subseteq calls["holder"].left \cup {calls["holder"].app}

LEMMA RunInvInit == Init => RunInv
  BY ThreadNames, Entered DEF Init, RunInv, RunningApps, NewRegistry, Writing

LEMMA RunInvRegistering ==
    ASSUME TypeOK, CallInv, RunInv, NEW th \in Threads, RegistryStep(th)
    PROVE  RunInv'
<1>. DEFINE k == calls[th]  k2 == calls'[th]
<1>0. registry \in Registry /\ calls \in [Threads -> RegistryCalls] /\ k \in RegistryCalls
      /\ NoCall.method = "none" /\ WellCalled(k)
  BY Entered DEF TypeOK, CallInv
<1>1. StatementOf(k, k2) /\ \A u \in Threads \ {th} : calls'[u] = calls[u]
  BY <1>0, StatementCases
<1>2. ASSUME RunningApps' \subseteq RunningApps,
             k2.method \in Writing => /\ k.method = k2.method /\ k.app = k2.app
                                      /\ RunningApps' \subseteq k2.left \cup {k2.app}
      PROVE  RunInv'
  <2>1. CASE th = "holder"
    BY <1>2, <2>1 DEF RunInv
  <2>2. CASE th # "holder"
    BY <1>1, <1>2, <2>2, ThreadNames DEF RunInv
  <2>. QED  BY <2>1, <2>2
<1>3. k.method \in Writing => th = "holder" /\ RunningApps \subseteq k.left \cup {k.app}
  BY ThreadNames DEF CallInv, RunInv, Writing
<1>. HIDE DEF k, k2
<1>4. CASE Offering(k, k2)
  BY <1>2, <1>4 DEF Offering, Writing
<1>5. CASE Visiting(k, k2)
  <2>1. PICK a \in k.left :
           /\ RunningApps' = RunningApps \ {a}
           /\ \/ k2 = [k EXCEPT !.left = @ \ {a}]
              \/ k.left = {a} /\ k.method = "SetUnknown" /\ k2 = NoCall
              \/ /\ k.left = {a} /\ k.method # "SetUnknown"
                 /\ k2 = [k EXCEPT !.at = "run", !.left = {}]
    BY <1>5 DEF Visiting
  <2>2. CASE k2 = NoCall
    BY <1>0, <1>2, <2>1, <2>2 DEF Writing
  <2>3. CASE k2 # NoCall
    <3>1. k2.method = k.method /\ k2.app = k.app /\ k2.left = k.left \ {a}
      BY <1>0, <2>1, <2>3 DEF RegistryCalls
    <3>. QED  BY <1>2, <1>3, <2>1, <3>1
  <2>. QED  BY <2>2, <2>3
<1>6. CASE RunsOwn(k, k2)
  <2>1. k2.method = k.method /\ k2.app = k.app /\ k2.left = k.left /\ k.method \in Writing
    BY <1>0, <1>6 DEF RunsOwn, RegistryCalls, Writing
  <2>2. k.left = {} /\ th = "holder" /\ RunningApps \subseteq {k.app}
    BY <1>0, <1>3, <1>6, <2>1 DEF RunsOwn, WellCalled, NoCall
  <2>3. RunningApps' \subseteq {k.app}
    BY <1>6, <2>2 DEF RunsOwn
  <2>. QED  BY <2>1, <2>2, <2>3 DEF RunInv, k2
<1>7. CASE LeavesOwn(k, k2) \/ Names(k, k2) \/ Tests(k, k2) \/ Nulls(k, k2)
  <2>1. k2 = NoCall \/ k2.method \notin Writing
    BY <1>0, <1>7 DEF LeavesOwn, Names, Tests, Nulls, RegistryCalls, Writing
  <2>2. RunningApps' \subseteq RunningApps
    BY <1>7 DEF LeavesOwn, Names, Tests, Nulls
  <2>. QED  BY <1>0, <1>2, <2>1, <2>2 DEF Writing
<1>. QED  BY <1>1, <1>4, <1>5, <1>6, <1>7 DEF StatementOf, k, k2

\* The other steps only enter a method.
LEMMA EntersSpareRunning == UNCHANGED registry => RunningApps' = RunningApps
  BY DEF RunningApps

LEMMA RunInvStep ==
    ASSUME TypeOK, OpShape, CallInv, RunInv, [Next]_vars
    PROVE  RunInv'
<1>0. calls \in [Threads -> RegistryCalls]
  BY DEF TypeOK
<1>1. CASE Registering
  BY <1>1, RunInvRegistering DEF Registering, Registers
<1>2. CASE UNCHANGED <<registry, calls>>
  BY <1>2, EntersSpareRunning DEF RunInv
<1>3. CASE Others
  <2>1. UNCHANGED registry /\ calls'["holder"] = calls["holder"]
    BY <1>0, <1>3, OthersOnCalls, ThreadNames DEF Enters, ProviderFaultError
  <2>. QED  BY <2>1, EntersSpareRunning DEF RunInv
<1>4. ASSUME NEW c, NEW k, NEW pc, Commit(c, k, pc), HolderEnters(k, pc)
      PROVE  RunInv'
  <2>1. UNCHANGED registry /\ calls'["holder"] = k
    BY <1>0, <1>4, ThreadNames DEF Commit, Enters
  <2>2. k.method \in Writing => k.left \cup {k.app} = Apps \cup {k.app}
    BY <1>4, Entered DEF HolderEnters, Writing
  <2>3. RunningApps \subseteq Apps
    BY DEF RunningApps
  <2>. QED  BY <2>1, <2>2, <2>3, EntersSpareRunning DEF RunInv
<1>5. CASE OtherOpStep
  BY <1>2, <1>5, OtherOpStepsSpareHost
<1>6. CASE UNCHANGED vars
  BY <1>2, <1>6 DEF vars, hostVars, regVars
<1>. QED  BY <1>1, <1>2, <1>3, <1>4, <1>5, <1>6, NextCases, HolderCases DEF Plain

LEMMA RunInvHolds ==
    Spec => [](TypeOK /\ OpShape /\ CallInv /\ PumpInv /\ NoLoopUnderCommand /\ RunInv)
<1>1. TypeOK /\ OpShape /\ CallInv /\ RunInv /\ [Next]_vars => RunInv'
  BY RunInvStep
<1>. QED  BY <1>1, RunInvInit, NoLoopHolds, PTL DEF Spec

-----------------------------------------------------------------------------
(* A Running entry is the current one once the methods have returned.  A   *)
(* card is only failed or stopped while no method that makes one Running   *)
(* is under way: a provider that faults is joined before the next one      *)
(* starts, and it is only reported for an application that is current,     *)
(* which none is from the stop of the old one to the start of the new one. *)

\* Between these steps no application is current.
Between == {"start", "status", "provide", "providing", "complete"}

NameInv ==
    /\ \A a \in RunningApps :
          \/ registry.current = a
          \/ calls["holder"].at = "name" /\ calls["holder"].app = a
          \/ \E th \in Threads : /\ calls[th].method = "SetUnknown" /\ calls[th].at = "each"
                                 /\ a \in calls[th].left
    /\ \A th \in {"holder", "loop"} :
          calls[th].method \in {"CompleteStop", "Fail"} /\ calls[th].at \in {"test", "null"} =>
              /\ calls[th].app \notin RunningApps
              /\ calls[th].at = "null" => registry.current \in {calls[th].app, NoApp}
    /\ calls["loop"] # NoCall => provider.loop = "recording"
    /\ provider.loop \in {"failing", "erring", "recording"} => provider.app \in FrameFirst
    /\ provider.loop \in {"erring", "recording"} =>
          calls["holder"].method \notin Writing /\ op.pc # "complete"
    /\ calls["holder"].method = "SetCurrent" => provider.loop = "none"
    /\ \/ op.pc \in Between
       \/ op.pc = "handover" /\ calls["holder"] = NoCall
       \/ calls["holder"].method = "CompleteStart"
       => registry.current = NoApp
    /\ op.pc \in {"beginStop", "stop", "stopped", "handover"} =>
          registry.current \in {op.old, NoApp}

LEMMA NameInvInit == Init => NameInv
<1>1. Init => RunningApps = {} /\ calls["holder"] = NoCall /\ calls["loop"] = NoCall
  BY ThreadNames DEF Init, RunningApps, NewRegistry
<1>. QED  BY <1>1, Entered DEF Init, NameInv, NoOp, NoProvider, Between, Writing

\* A statement of a method.
LEMMA NameInvRegistering ==
    ASSUME TypeOK, OpShape, CallInv, NoLoopUnderCommand, RunInv, NameInv,
           NEW th \in Threads, Registers(th)
    PROVE  NameInv'
<1>. DEFINE k == calls[th]  k2 == calls'[th]  h == calls["holder"]  h2 == calls'["holder"]
<1>0. registry \in Registry /\ calls \in [Threads -> RegistryCalls] /\ k \in RegistryCalls
      /\ NoCall.method = "none" /\ NoCall.at = "done" /\ RegistryStep(th)
      /\ WellCalled(k) /\ WellCalled(k2) /\ UNCHANGED <<op, provider>>
  BY Entered, StillCalled DEF TypeOK, CallInv, Registers, lockVars, loopVars
<1>1. StatementOf(k, k2) /\ \A u \in Threads \ {th} : calls'[u] = calls[u]
  BY <1>0, StatementCases
<1>2. k2 = NoCall \/ (k2.method = k.method /\ k # NoCall
                      /\ (k.method # "SetAvailable" => k2.app = k.app))
  BY <1>0, SameMethod
<1>3. NoApp \notin Apps /\ RunningApps \subseteq Apps /\ RunningApps' \subseteq Apps
  BY AppsAssumption DEF Apps, RunningApps
<1>4. k.method \in Writing => th = "holder" /\ RunningApps \subseteq k.left \cup {k.app}
  BY ThreadNames DEF CallInv, RunInv, Writing
<1>5. /\ k.method \in {"CompleteStop", "BeginStart", "BeginStop"} => th = "holder"
      /\ k.method = "Fail" => th \in {"holder", "loop"}
  BY ThreadNames DEF CallInv
<1>6. th # "holder" => h2 = h
  BY <1>1, ThreadNames
<1>7. h2 = NoCall \/ (h2.method = h.method /\ h # NoCall
                      /\ (h.method # "SetAvailable" => h2.app = h.app))
  BY <1>2, <1>6
<1>8. \/ registry'.current = registry.current
      \/ registry'.current = NoApp
      \/ Names(k, k2)
  BY <1>1 DEF StatementOf, Offering, Visiting, RunsOwn, LeavesOwn, Tests, Nulls
<1>9. Names(k, k2) => /\ th = "holder" /\ h2 = NoCall
                      /\ op.pc \in {"attached", "online", "notStarted", "return"}
  BY <1>0, <1>4 DEF Names, CallInv, HolderAt, Writing
<1>10. (op.pc \in {"beginStop", "stop", "stopped", "handover"} =>
          registry.current \in {op.old, NoApp})'
  BY <1>0, <1>8, <1>9 DEF NameInv
<1>11. (calls["holder"].method = "SetCurrent" => provider.loop = "none")'
  BY <1>0, <1>7 DEF NameInv
<1>12. (provider.loop \in {"erring", "recording"} =>
          calls["holder"].method \notin Writing /\ op.pc # "complete")'
  BY <1>0, <1>7 DEF NameInv, Writing
<1>13. (calls["loop"] # NoCall => provider.loop = "recording")'
  BY <1>0, <1>1, <1>2, ThreadNames DEF NameInv
<1>14. (\/ op.pc \in Between
        \/ op.pc = "handover" /\ calls["holder"] = NoCall
        \/ calls["holder"].method = "CompleteStart"
        => registry.current = NoApp)'
  <2>1. CASE op.pc \in Between \/ h2.method = "CompleteStart"
    BY <1>0, <1>7, <1>8, <1>9, <2>1 DEF NameInv, Between
  <2>2. CASE op.pc = "handover" /\ h2 = NoCall
    <3>1. CASE h = NoCall
      BY <1>8, <1>9, <2>2, <3>1 DEF NameInv
    <3>2. CASE h # NoCall
      <4>1. th = "holder" /\ h.method = "CompleteStop" /\ h.app = op.old
        BY <1>6, <2>2, <3>2 DEF CallInv, HolderAt
      <4>2. Tests(k, k2) \/ Nulls(k, k2)
        <5>1. k2 = NoCall /\ k.method = "CompleteStop"
          BY <2>2, <4>1
        <5>2. ~Offering(k, k2) /\ ~Visiting(k, k2) /\ ~RunsOwn(k, k2) /\ ~Names(k, k2)
          BY <5>1 DEF Offering, Visiting, RunsOwn, Names
        <5>3. [k EXCEPT !.at = "test"].method = "CompleteStop"
          BY <1>0, <5>1 DEF RegistryCalls
        <5>4. ~LeavesOwn(k, k2)
          BY <1>0, <5>1, <5>3 DEF LeavesOwn
        <5>. QED  BY <1>1, <5>2, <5>4 DEF StatementOf
      <4>3. CASE Nulls(k, k2)
        BY <4>3 DEF Nulls
      <4>4. CASE Tests(k, k2)
        <5>1. registry.current # op.old /\ registry'.current = registry.current
          BY <1>0, <2>2, <4>1, <4>4 DEF Tests, RegistryCalls
        <5>. QED  BY <2>2, <5>1 DEF NameInv
      <4>. QED  BY <4>2, <4>3, <4>4
    <3>. QED  BY <3>1, <3>2
  <2>. QED  BY <1>0, <2>1, <2>2
<1>15. th = "loop" /\ k # NoCall => h.method \notin Writing
  BY DEF NameInv
<1>16. k # NoCall
  BY <1>0, <1>1 DEF StatementOf, Offering, Visiting, RunsOwn, LeavesOwn, Names, Tests, Nulls
<1>17. RunsOwn(k, k2) => th = "holder" /\ RunningApps' \subseteq {k.app} /\ k2.at = "name"
                         /\ k2.app = k.app /\ calls["loop"] = NoCall
  <2>1. RunsOwn(k, k2) => k.left = {} /\ th = "holder" /\ RunningApps \subseteq {k.app}
    BY <1>0, <1>4 DEF RunsOwn, WellCalled, Writing
  <2>2. RunsOwn(k, k2) => k2.at = "name" /\ k2.app = k.app
    BY <1>0 DEF RunsOwn, RegistryCalls
  <2>3. RunsOwn(k, k2) => calls["loop"] = NoCall
    BY <2>1 DEF RunsOwn, NameInv, Writing
  <2>. QED  BY <2>1, <2>2, <2>3 DEF RunsOwn
<1>18. RunsOwn(k, k2) \/ RunningApps' \subseteq RunningApps
  BY <1>1 DEF StatementOf, Offering, Visiting, LeavesOwn, Names, Tests, Nulls
<1>19. (\A u \in {"holder", "loop"} :
          calls[u].method \in {"CompleteStop", "Fail"} /\ calls[u].at \in {"test", "null"} =>
              /\ calls[u].app \notin RunningApps
              /\ calls[u].at = "null" => registry.current \in {calls[u].app, NoApp})'
  <2>. SUFFICES ASSUME NEW u \in {"holder", "loop"},
                       calls'[u].method \in {"CompleteStop", "Fail"},
                       calls'[u].at \in {"test", "null"}
                PROVE  /\ calls'[u].app \notin RunningApps'
                       /\ calls'[u].at = "null" => registry'.current \in {calls'[u].app, NoApp}
    OBVIOUS
  <2>1. CASE u # th
    <3>1. calls'[u] = calls[u] /\ calls[u] # NoCall
      BY <1>0, <1>1, <2>1, ThreadNames
    <3>2. ~RunsOwn(k, k2)
      <4>1. th = "holder" /\ u = "loop" /\ RunsOwn(k, k2) => FALSE
        BY <1>17, <3>1
      <4>. QED  BY <1>17, <2>1, <4>1
    <3>3. ~Names(k, k2)
      <4>1. Names(k, k2) => th = "holder" /\ u = "loop" /\ h.method \in Writing
        BY <1>9, <2>1 DEF Names, Writing
      <4>2. u = "loop" => h.method \notin Writing
        BY <3>1 DEF NameInv
      <4>. QED  BY <4>1, <4>2
    <3>. QED  BY <1>8, <1>18, <3>1, <3>2, <3>3 DEF NameInv
  <2>2. CASE u = th
    <3>1. LeavesOwn(k, k2) \/ Tests(k, k2)
      <4>1. k2.method \in {"CompleteStop", "Fail"} /\ k2.at \in {"test", "null"}
        BY <2>2
      <4>2. k.method = k2.method /\ k2 # NoCall
        BY <1>0, <1>2, <4>1
      <4>. QED  BY <1>1, <4>1, <4>2
               DEF StatementOf, Offering, Visiting, RunsOwn, Names, Nulls
    <3>2. CASE LeavesOwn(k, k2)
      <4>1. k2.app = k.app /\ k2.at = "test" /\ k.app \notin RunningApps'
        BY <1>0, <2>2, <3>2 DEF LeavesOwn, RegistryCalls
      <4>. QED  BY <2>2, <4>1
    <3>3. CASE Tests(k, k2)
      <4>1. /\ k2 = [k EXCEPT !.at = "null"] /\ registry.current = k.app
            /\ registry'.current = registry.current /\ RunningApps' = RunningApps
        BY <1>0, <2>2, <3>3 DEF Tests
      <4>2. k2.app = k.app /\ k.app \notin RunningApps
        BY <1>0, <2>2, <3>3, <4>1 DEF Tests, NameInv, RegistryCalls
      <4>. QED  BY <2>2, <4>1, <4>2
    <3>. QED  BY <3>1, <3>2, <3>3
  <2>. QED  BY <2>1, <2>2
<1>20. (\A a \in RunningApps :
          \/ registry.current = a
          \/ calls["holder"].at = "name" /\ calls["holder"].app = a
          \/ \E u \in Threads : /\ calls[u].method = "SetUnknown" /\ calls[u].at = "each"
                                /\ a \in calls[u].left)'
  <2>. SUFFICES ASSUME NEW a \in RunningApps'
                PROVE  \/ registry'.current = a
                       \/ h2.at = "name" /\ h2.app = a
                       \/ \E u \in Threads : /\ calls'[u].method = "SetUnknown"
                                             /\ calls'[u].at = "each" /\ a \in calls'[u].left
    OBVIOUS
  <2>1. CASE RunsOwn(k, k2)
    BY <1>17, <2>1
  <2>2. CASE Names(k, k2)
    <3>1. k.left = {} /\ th = "holder" /\ RunningApps \subseteq {k.app}
      BY <1>0, <1>4, <2>2 DEF Names, WellCalled, Writing
    <3>. QED  BY <2>2, <3>1 DEF Names
  <2>3. CASE ~RunsOwn(k, k2) /\ ~Names(k, k2)
    <3>0. a \in RunningApps
      BY <1>18, <2>3
    <3>1. CASE registry.current = a
      <4>1. CASE registry'.current = registry.current
        BY <3>1, <4>1
      <4>2. CASE Nulls(k, k2)
        <5>1. CASE k.method = "SetUnknown"
          <6>1. k2.method = "SetUnknown" /\ k2.at = "each" /\ k2.left = Apps
            BY <1>0, <4>2, <5>1 DEF Nulls, RegistryCalls
          <6>. QED  BY <1>3, <6>1
        <5>2. CASE k.method \in {"CompleteStop", "Fail"}
          <6>1. k.app \notin RunningApps /\ registry.current \in {k.app, NoApp}
            BY <1>5, <4>2, <5>2 DEF Nulls, NameInv
          <6>. QED  BY <1>3, <3>0, <3>1, <6>1
        <5>. QED  BY <4>2, <5>1, <5>2 DEF Nulls
      <4>. QED  BY <1>1, <2>3, <4>1, <4>2
                DEF StatementOf, Offering, Visiting, LeavesOwn, Tests
    <3>2. CASE h.at = "name" /\ h.app = a
      <4>1. th # "holder"
        <5>1. k.at = "name" => Names(k, k2)
          BY <1>0, <1>1 DEF StatementOf, Offering, Visiting, RunsOwn, LeavesOwn, Tests, Nulls,
                            WellCalled
        <5>. QED  BY <2>3, <3>2, <5>1
      <4>. QED  BY <1>6, <3>2, <4>1
    <3>3. CASE \E u \in Threads : /\ calls[u].method = "SetUnknown" /\ calls[u].at = "each"
                                  /\ a \in calls[u].left
      <4>1. PICK u \in Threads : /\ calls[u].method = "SetUnknown" /\ calls[u].at = "each"
                                 /\ a \in calls[u].left
        BY <3>3
      <4>2. CASE u # th
        BY <1>1, <4>1, <4>2
      <4>3. CASE u = th
        <5>1. Visiting(k, k2)
          BY <1>1, <4>1, <4>3 DEF StatementOf, Offering, RunsOwn, LeavesOwn, Names, Tests, Nulls
        <5>2. PICK b \in k.left :
                 /\ RunningApps' = RunningApps \ {b}
                 /\ \/ k2 = [k EXCEPT !.left = @ \ {b}]
                    \/ k.left = {b} /\ k2 = NoCall
          BY <4>1, <4>3, <5>1 DEF Visiting
        <5>3. a # b
          BY <5>2
        <5>4. k2 = [k EXCEPT !.left = @ \ {b}]
          BY <4>1, <4>3, <5>2, <5>3
        <5>5. k2.method = "SetUnknown" /\ k2.at = "each" /\ a \in k2.left
          BY <1>0, <4>1, <4>3, <5>3, <5>4 DEF RegistryCalls
        <5>. QED  BY <5>5
      <4>. QED  BY <4>2, <4>3
    <3>. QED  BY <3>0, <3>1, <3>2, <3>3 DEF NameInv
  <2>. QED  BY <2>1, <2>2, <2>3
<1>21. (provider.loop \in {"failing", "erring", "recording"} => provider.app \in FrameFirst)'
  BY <1>0 DEF NameInv
<1>. HIDE DEF k, k2, h, h2
<1>. QED  BY <1>10, <1>11, <1>12, <1>13, <1>14, <1>19, <1>20, <1>21 DEF NameInv

\* Steps outside the registry leave the first two parts alone, unless the
\* holder was inside SetCurrent or CompleteStart.
LEMMA NameInvEnters ==
    ASSUME NameInv, CallInv, calls \in [Threads -> RegistryCalls], UNCHANGED registry,
           NEW th \in Threads, NEW k, Enters(th, k), calls[th] = NoCall,
           k.at \notin {"test", "null"} \/ k.method \notin {"CompleteStop", "Fail"}
    PROVE  /\ (\A a \in RunningApps :
                 \/ registry.current = a
                 \/ calls["holder"].at = "name" /\ calls["holder"].app = a
                 \/ \E u \in Threads : /\ calls[u].method = "SetUnknown" /\ calls[u].at = "each"
                                       /\ a \in calls[u].left)'
           /\ (\A u \in {"holder", "loop"} :
                 calls[u].method \in {"CompleteStop", "Fail"} /\ calls[u].at \in {"test", "null"} =>
                     /\ calls[u].app \notin RunningApps
                     /\ calls[u].at = "null" => registry.current \in {calls[u].app, NoApp})'
<1>1. calls'[th] = k /\ \A u \in Threads \ {th} : calls'[u] = calls[u]
  BY DEF Enters
<1>2. RunningApps' = RunningApps /\ registry'.current = registry.current
  BY EntersSpareRunning
<1>3. NoCall.method = "none" /\ NoCall.at = "done"
  BY Entered
<1>4. (\A a \in RunningApps :
         \/ registry.current = a
         \/ calls["holder"].at = "name" /\ calls["holder"].app = a
         \/ \E u \in Threads : /\ calls[u].method = "SetUnknown" /\ calls[u].at = "each"
                               /\ a \in calls[u].left)'
  <2>. SUFFICES ASSUME NEW a \in RunningApps
                PROVE  \/ registry.current = a
                       \/ calls'["holder"].at = "name" /\ calls'["holder"].app = a
                       \/ \E u \in Threads : /\ calls'[u].method = "SetUnknown"
                                             /\ calls'[u].at = "each" /\ a \in calls'[u].left
    BY <1>2
  <2>1. CASE calls["holder"].at = "name" /\ calls["holder"].app = a
    BY <1>1, <1>3, <2>1, ThreadNames
  <2>2. ASSUME NEW u \in Threads, calls[u].method = "SetUnknown", calls[u].at = "each",
               a \in calls[u].left
        PROVE  \E v \in Threads : /\ calls'[v].method = "SetUnknown"
                                  /\ calls'[v].at = "each" /\ a \in calls'[v].left
    BY <1>1, <1>3, <2>2
  <2>. QED  BY <2>1, <2>2 DEF NameInv
<1>5. (\A u \in {"holder", "loop"} :
         calls[u].method \in {"CompleteStop", "Fail"} /\ calls[u].at \in {"test", "null"} =>
             /\ calls[u].app \notin RunningApps
             /\ calls[u].at = "null" => registry.current \in {calls[u].app, NoApp})'
  BY <1>1, <1>2, ThreadNames DEF NameInv
<1>. QED  BY <1>4, <1>5

LEMMA NameInvOthers ==
    ASSUME TypeOK, OpShape, CallInv, PumpInv, NoLoopUnderCommand, NameInv, Others, ~Cancelled'
    PROVE  NameInv'
<1>0. /\ calls \in [Threads -> RegistryCalls] /\ provider \in Providers
      /\ UNCHANGED <<op, registry>>
  BY OthersSpareOp, OthersOnCalls DEF TypeOK
<1>1. RunningApps' = RunningApps /\ registry'.current = registry.current
  BY <1>0, EntersSpareRunning
<1>2. CASE UNCHANGED <<calls, provider>>
  BY <1>0, <1>1, <1>2 DEF NameInv
<1>3. ASSUME NEW t \in TransportIds, pump[t] = "raised", Enters(t, SetUnknown),
             UNCHANGED loopVars
      PROVE  NameInv'
  <2>1. /\ calls'["holder"] = calls["holder"] /\ calls'["loop"] = calls["loop"]
        /\ UNCHANGED provider /\ calls[t] = NoCall
    BY <1>0, <1>3, ThreadNames DEF Enters, loopVars, PumpInv
  <2>2. (\A a \in RunningApps :
           \/ registry.current = a
           \/ calls["holder"].at = "name" /\ calls["holder"].app = a
           \/ \E u \in Threads : /\ calls[u].method = "SetUnknown" /\ calls[u].at = "each"
                                 /\ a \in calls[u].left)'
    BY <1>0, <1>3, <2>1, NameInvEnters, Entered, ThreadNames
  <2>. QED  BY <1>0, <1>1, <2>1, <2>2 DEF NameInv
<1>4. CASE ProviderFaultError
  <2>1. /\ provider.loop = "erring" /\ provider' = [provider EXCEPT !.loop = "recording"]
        /\ Enters("loop", Fail(provider.app))
    BY <1>4 DEF ProviderFaultError, LoopGoes
  <2>2. calls'["holder"] = calls["holder"] /\ calls["loop"] = NoCall
    BY <1>0, <2>1, ThreadNames DEF Enters, NameInv
  <2>3. provider'.loop = "recording" /\ provider'.app = provider.app
    BY <1>0, <2>1 DEF Providers
  <2>4. /\ (\A a \in RunningApps :
              \/ registry.current = a
              \/ calls["holder"].at = "name" /\ calls["holder"].app = a
              \/ \E u \in Threads : /\ calls[u].method = "SetUnknown" /\ calls[u].at = "each"
                                    /\ a \in calls[u].left)'
        /\ (\A u \in {"holder", "loop"} :
              calls[u].method \in {"CompleteStop", "Fail"} /\ calls[u].at \in {"test", "null"} =>
                  /\ calls[u].app \notin RunningApps
                  /\ calls[u].at = "null" => registry.current \in {calls[u].app, NoApp})'
    BY <1>0, <2>1, <2>2, NameInvEnters, Entered, ThreadNames
  <2>5. calls["holder"].method # "SetCurrent"
    BY <2>1 DEF NameInv, Writing
  <2>. QED  BY <1>0, <1>1, <2>1, <2>2, <2>3, <2>4, <2>5 DEF NameInv
<1>5. CASE UNCHANGED calls /\ ~UNCHANGED provider /\ ~ProviderFaultError
  <2>1. /\ provider.loop \in {"running", "failing", "recording"}
        /\ \/ provider'.loop = "exited" /\ (provider.loop = "recording" => calls["loop"] = NoCall)
           \/ provider'.loop = "failing" /\ provider.loop = "running" /\ provider.app \in FrameFirst
           \/ provider'.loop = "erring" /\ provider.loop = "failing"
              /\ registry.current = provider.app
        /\ provider'.app = provider.app
    <3>1. LoopExits \/ LoopFails \/ ProviderFaultNoticed \/ ProviderFaultRecorded
      BY <1>5, Zenon
         DEF Others, CallStep, Call, ReaderFaults, FaultNoticed, FaultRecorded, OrphanExits,
             CloseWindow, DisposeStep, DisposeCancelsProvider, DisposeJoinsProvider,
             DisposeDetaches, DisposeCloses, ApplicationExits, loopVars, Cancelled
    <3>. QED
      BY <1>0, <1>5, <3>1
         DEF LoopExits, LoopFails, ProviderFaultNoticed, ProviderFaultRecorded, LoopGoes,
             Providers
  <2>2. CASE provider'.loop = "erring"
    <3>1. registry.current # NoApp
      BY <2>1, <2>2, ConnectionAssumption, AppsAssumption DEF NameInv
    <3>2. calls["holder"].method \notin Writing /\ op.pc # "complete"
      BY <2>1, <2>2, <3>1 DEF NameInv, Writing, Between
    <3>. QED  BY <1>0, <1>1, <1>5, <2>1, <2>2, <3>2 DEF NameInv, Writing
  <2>3. CASE provider'.loop # "erring"
    BY <1>0, <1>1, <1>5, <2>1, <2>3 DEF NameInv
  <2>. QED  BY <2>2, <2>3
<1>. QED  BY <1>2, <1>3, <1>4, <1>5, OthersOnCalls DEF loopVars


\* What moving the program counter does to the operation.
LEMMA Gone ==
    ASSUME op \in Ops, NEW pc
    PROVE  /\ Goto(pc) => /\ op'.pc = pc
                          /\ pc # "idle" => /\ op'.kind = op.kind /\ op'.next = op.next
                                            /\ op'.app = op.app /\ op'.old = op.old
                                            /\ op'.tr = op.tr
           /\ ThenTearDown(pc) => /\ op'.pc = "cancel" /\ op'.kind = op.kind
                                  /\ op'.next = pc /\ op'.app = op.app /\ op'.old = op.old
                                  /\ op'.tr = op.tr
<1>1. Goto(pc) /\ pc # "idle" => op' = [op EXCEPT !.pc = pc]
  BY DEF Goto
<1>2. Goto(pc) /\ pc = "idle" => op'.pc = "idle"
  BY DEF Goto, NoOp
<1>3. ThenTearDown(pc) => op' = [op EXCEPT !.pc = "cancel", !.next = pc]
  BY DEF ThenTearDown
<1>. QED  BY <1>1, <1>2, <1>3 DEF Ops

\* The steps of the holder of the lock: of connect and switch, and the others.
LEMMA NameInvHolder ==
    ASSUME TypeOK, OpShape, CallInv, NoLoopUnderCommand, NameInv,
           ConnectStep \/ SwitchStep, calls["holder"] = NoCall
    PROVE  NameInv'
<1>0. /\ calls \in [Threads -> RegistryCalls] /\ op \in Ops
      /\ NoCall.method = "none" /\ NoCall.at = "done"
  BY Entered DEF TypeOK
<1>1. UNCHANGED provider
  BY DEF ConnectStep, ConnectReset, ConnectNoPort, ConnectOpen, ConnectOpened,
         ConnectThrows, ConnectCancelled, ConnectProbe, ConnectChecked, ConnectAttach,
         ConnectNamed, ConnectAttached, ConnectList, ConnectQuery, ConnectOnline,
         ConnectGivesUp, ConnectAborts, DisconnectDone, SwitchStep, SwitchCheck,
         SwitchCurrent, SwitchBeginStop, SwitchStop, SwitchStopped, SwitchNotStopped,
         SwitchHandover, SwitchStart, SwitchStatus, SwitchBackToQtopia, SwitchFailed,
         SwitchComplete, SwitchRecover, SwitchToError, SwitchCancelled, StopDialogue,
         Commit, OnlyOp, loopVars
<1>2. CASE PlainStep
  <2>1. UNCHANGED <<registry, calls>>
    BY <1>2, PlainSteps DEF Plain
  <2>2. /\ op'.pc \notin {"handover", "complete"}
        /\ op'.pc \in Between => op.pc \in Between
        /\ op'.pc \in {"stop", "stopped"} => op.pc = "stop" /\ op'.old = op.old
        /\ op'.pc = "beginStop" => op'.old = registry.current
    <3>1. CASE \/ (\E t \in TransportIds : ConnectOpen(t)) \/ ConnectProbe
      BY <1>0, <3>1 DEF ConnectOpen, ConnectProbe, Ops, Between
    <3>2. CASE ConnectOpened \/ ConnectThrows \/ ConnectCancelled \/ ConnectChecked \/ SwitchCheck
      <4>1. op'.pc \in {"probe", "cancel", "list", "attach", "idle"}
        BY <1>0, <3>2, Gone DEF ConnectOpened, ConnectThrows, ConnectCancelled, ConnectChecked,
                                SwitchCheck
      <4>. QED  BY <4>1 DEF Between
    <3>3. CASE SwitchCurrent
      <4>1. \/ op'.pc = "idle"
            \/ op'.pc = "beginStop" /\ op'.old = registry.current
        BY <1>0, <3>3, Gone DEF SwitchCurrent, Ops
      <4>. QED  BY <4>1 DEF Between
    <3>4. CASE SwitchStop \/ SwitchRecover
      <4>1. /\ op'.pc \in {"stopped", "notStopped", "failed", "recovered", "stranded"}
            /\ op'.pc = "stopped" => op.pc = "stop" /\ op'.old = op.old
        <5>1. /\ SwitchStop => \E p \in {"stopped", "notStopped", "failed"} : Goto(p)
              /\ SwitchRecover => \E p \in {"recovered", "stranded", "failed"} : Goto(p)
          BY DEF SwitchStop, SwitchRecover, StopDialogue
        <5>2. /\ SwitchStop => op.pc = "stop"
              /\ \A p \in {"stopped", "notStopped", "failed", "recovered", "stranded"} :
                    Goto(p) => op'.pc = p /\ op'.old = op.old
          BY <1>0, Gone DEF SwitchStop
        <5>. QED  BY <3>4, <5>1, <5>2
      <4>. QED  BY <4>1 DEF Between
    <3>5. CASE SwitchStart \/ SwitchStatus \/ SwitchCancelled
      BY <1>0, <3>5, Gone DEF SwitchStart, SwitchStatus, SwitchCancelled, Between
    <3>. QED  BY <1>2, <3>1, <3>2, <3>3, <3>4, <3>5 DEF PlainStep
  <2>. QED  BY <1>0, <1>1, <2>1, <2>2, EntersSpareRunning DEF NameInv
<1>3. ASSUME NEW c, NEW k, NEW pc, Commit(c, k, pc), HolderEnters(k, pc)
      PROVE  NameInv'
  <2>1. /\ UNCHANGED registry /\ Enters("holder", k)
        /\ calls'["holder"] = k /\ calls'["loop"] = calls["loop"]
    BY <1>0, <1>3, ThreadNames DEF Commit, Enters
  <2>2. pc # "idle" => op'.pc = pc /\ op'.old = op.old
    BY <1>0, <1>3 DEF Commit, Goto, Ops
  <2>3. pc = "idle" => op'.pc = "idle"
    BY <1>3 DEF Commit, Goto, NoOp
  <2>4. k.at \notin {"test", "null"} \/ k.method \notin {"CompleteStop", "Fail"}
    BY <1>3, Entered DEF HolderEnters
  <2>5. /\ (\A a \in RunningApps :
              \/ registry.current = a
              \/ calls["holder"].at = "name" /\ calls["holder"].app = a
              \/ \E u \in Threads : /\ calls[u].method = "SetUnknown" /\ calls[u].at = "each"
                                    /\ a \in calls[u].left)'
        /\ (\A u \in {"holder", "loop"} :
              calls[u].method \in {"CompleteStop", "Fail"} /\ calls[u].at \in {"test", "null"} =>
                  /\ calls[u].app \notin RunningApps
                  /\ calls[u].at = "null" => registry.current \in {calls[u].app, NoApp})'
    BY <1>0, <2>1, <2>4, NameInvEnters, ThreadNames
  <2>6. k.method = "SetCurrent" => op.pc \in Quiescent
    BY <1>3, Entered DEF HolderEnters, Quiescent, ConnectPcs, SwitchPcs
  <2>7. k.method = "CompleteStart" => op.pc = "complete"
    BY <1>3, Entered DEF HolderEnters
  <2>8. pc \notin {"complete", "beginStop"}
    BY <1>3 DEF HolderEnters
  <2>9. /\ pc \in Between => op.pc = "handover"
        /\ pc = "handover" => k # NoCall /\ op.pc = "stopped"
        /\ pc \in {"stop", "stopped"} => op.pc = "beginStop"
    BY <1>3, Entered DEF HolderEnters, Between
  <2>10. provider.loop \in {"erring", "recording"} => k.method \notin Writing
    BY <2>6, <2>7 DEF Writing, NoLoopUnderCommand, NameInv
  <2>11. k.method = "SetCurrent" => provider.loop = "none"
    BY <2>6 DEF NoLoopUnderCommand
  <2>12. (\/ op.pc \in Between
          \/ op.pc = "handover" /\ calls["holder"] = NoCall
          \/ calls["holder"].method = "CompleteStart"
          => registry.current = NoApp)'
    BY <2>1, <2>2, <2>3, <2>7, <2>9, EntersSpareRunning DEF NameInv, Between
  <2>13. (op.pc \in {"beginStop", "stop", "stopped", "handover"} =>
            registry.current \in {op.old, NoApp})'
    BY <2>1, <2>2, <2>3, <2>8, <2>9 DEF NameInv
  <2>. QED  BY <1>1, <2>1, <2>2, <2>3, <2>5, <2>8, <2>10, <2>11, <2>12, <2>13 DEF NameInv
<1>. QED  BY <1>2, <1>3, HolderSplit

LEMMA NameInvOtherOp ==
    ASSUME TypeOK, OpShape, CallInv, NoLoopUnderCommand, NameInv, OtherOpStep, ~Cancelled
    PROVE  NameInv'
<1>0. /\ op \in Ops /\ provider \in Providers /\ UNCHANGED <<registry, calls>>
      /\ calls["holder"] = NoCall /\ NoCall.method = "none" /\ NoCall.at = "done"
  BY OtherOpStepsSpareHost, HolderQuiet, Entered DEF TypeOK
<1>1. RunningApps' = RunningApps
  BY <1>0, EntersSpareRunning
<1>2. ASSUME /\ \/ provider'.loop = provider.loop /\ provider'.app = provider.app
                \/ provider'.loop \in {"none", "running"}
                   /\ provider.loop \notin {"failing", "erring", "recording"},
             op'.pc \notin {"beginStop", "stop", "stopped", "handover", "start", "status"},
             op'.pc \in {"provide", "providing", "complete"} =>
                /\ op.pc \in Between
                /\ provider'.loop \notin {"erring", "recording"}
      PROVE  NameInv'
  <2>1. (\A a \in RunningApps :
           \/ registry.current = a
           \/ calls["holder"].at = "name" /\ calls["holder"].app = a
           \/ \E u \in Threads : /\ calls[u].method = "SetUnknown" /\ calls[u].at = "each"
                                 /\ a \in calls[u].left)'
    BY <1>0, <1>1 DEF NameInv
  <2>2. (\A u \in {"holder", "loop"} :
           calls[u].method \in {"CompleteStop", "Fail"} /\ calls[u].at \in {"test", "null"} =>
               /\ calls[u].app \notin RunningApps
               /\ calls[u].at = "null" => registry.current \in {calls[u].app, NoApp})'
    BY <1>0, <1>1 DEF NameInv
  <2>3. (calls["loop"] # NoCall => provider.loop = "recording")'
    BY <1>0, <1>2 DEF NameInv
  <2>4. (provider.loop \in {"failing", "erring", "recording"} => provider.app \in FrameFirst)'
    BY <1>2 DEF NameInv
  <2>5. (provider.loop \in {"erring", "recording"} =>
            calls["holder"].method \notin Writing /\ op.pc # "complete")'
    BY <1>0, <1>2 DEF NameInv, Writing
  <2>6. (calls["holder"].method = "SetCurrent" => provider.loop = "none")'
    BY <1>0
  <2>7. (\/ op.pc \in Between
         \/ op.pc = "handover" /\ calls["holder"] = NoCall
         \/ calls["holder"].method = "CompleteStart"
         => registry.current = NoApp)'
    BY <1>0, <1>2 DEF NameInv, Between
  <2>8. (op.pc \in {"beginStop", "stop", "stopped", "handover"} =>
          registry.current \in {op.old, NoApp})'
    BY <1>2
  <2>. QED  BY <2>1, <2>2, <2>3, <2>4, <2>5, <2>6, <2>7, <2>8 DEF NameInv
<1>3. ASSUME NEW c \in queue, Acquire(c)  PROVE NameInv'
  <2>1. UNCHANGED provider /\ op'.pc \in {"check", "cancel"}
    BY <1>3 DEF Acquire, NoOp, loopVars
  <2>. QED  BY <1>2, <2>1
<1>4. ASSUME NEW t \in TransportIds, AcquireCleanup(t)  PROVE NameInv'
  BY <1>2, <1>4 DEF AcquireCleanup, NoOp, loopVars
<1>5. CASE CancelProvider
  <2>1. ~provider.cancelled
    BY <1>5 DEF NoLoopUnderCommand, CancelProvider, Disposed, Cancelled
  <2>2. /\ op'.pc = "join" /\ provider'.loop = provider.loop /\ provider'.app = provider.app
    BY <1>0, <1>5, <2>1 DEF CancelProvider, Goto, Ops, Providers
  <2>. QED  BY <1>2, <2>2
<1>6. CASE JoinProvider \/ JoinExpires
  <2>1. /\ provider.loop \notin {"failing", "erring", "recording"} /\ provider' = NoProvider
        /\ Goto(AfterJoin)
    BY <1>6 DEF JoinProvider, JoinExpires, LiveLoop
  <2>2. op.pc = "join"
    BY <1>6 DEF JoinProvider, JoinExpires
  <2>3. op'.pc \in {"detach", "current"}
    BY <1>0, <2>1, <2>2 DEF Goto, AfterJoin, OpShape, TearDown, Ops
  <2>. QED  BY <1>2, <2>1, <2>3 DEF NoProvider
<1>7. CASE DetachTransport \/ CloseTransport
  <2>1. op.pc \in TearDown /\ UNCHANGED provider
    BY <1>7 DEF DetachTransport, CloseTransport, TearDown, loopVars
  <2>2. op'.pc \in {"close", "reset", "giveUp", "abort", "current", "offline", "cleaned"}
    BY <1>0, <1>7, <2>1 DEF DetachTransport, CloseTransport, Goto, OpShape, Ops
  <2>. QED  BY <1>2, <2>2, <2>1
<1>8. CASE Return \/ CleanupGuard \/ CleanupDone
  <2>1. UNCHANGED provider /\ op'.pc \in {"idle", "cancel"}
    BY <1>0, <1>8, Gone DEF Return, CleanupGuard, CleanupDone, OnlyOp, loopVars
  <2>. QED  BY <1>2, <2>1
<1>9. CASE ProviderCreated \/ ProviderStarts \/ ProviderFailsToStart
  <2>1. op.pc \in Quiescent /\ op.pc \in {"resume", "provide", "resuming", "providing"}
    BY <1>9 DEF ProviderCreated, ProviderStarts, ProviderFailsToStart, Quiescent, ConnectPcs,
                SwitchPcs
  <2>2. provider.loop = "none"
    BY <2>1 DEF NoLoopUnderCommand
  <2>3. /\ provider'.loop \in {"none", "running"}
        /\ op'.pc \in {"resuming", "providing", "idle", "complete", "cancel", "recover"}
        /\ op'.pc \in {"providing", "complete"} => op.pc \in Between
    <3>1. CASE ProviderCreated
      BY <1>0, <3>1, Gone DEF ProviderCreated, NewProvider, Between
    <3>2. CASE ProviderStarts
      BY <1>0, <3>2, Gone DEF ProviderStarts, Providers, Between
    <3>3. CASE ProviderFailsToStart
      <4>1. UNCHANGED provider /\ op'.pc \in {"cancel", "recover"}
        BY <1>0, <3>3, Gone DEF ProviderFailsToStart, OnlyOp, loopVars
      <4>. QED  BY <2>2, <4>1
    <3>. QED  BY <1>9, <3>1, <3>2, <3>3
  <2>. QED  BY <1>2, <2>2, <2>3
<1>. QED
  BY <1>3, <1>4, <1>5, <1>6, <1>7, <1>8, <1>9 DEF OtherOpStep, TearDownStep

Inv == /\ TypeOK /\ OpShape /\ CallInv /\ PumpInv /\ NoLoopUnderCommand /\ RunInv
       /\ (~Cancelled => NameInv)

LEMMA NameInvStep ==
    ASSUME Inv, [Next]_vars
    PROVE  ~Cancelled' => NameInv'
<1>. SUFFICES ASSUME ~Cancelled'  PROVE NameInv'
  OBVIOUS
<1>1. ~Cancelled
  <2>1. closing = "no" \/ closing' # "no"
    <3>1. CASE Others
      BY <3>1 DEF Others, CallStep, Call, ReaderFaults, FaultNoticed, FaultRecorded, LoopExits,
         LoopFails, LoopGoes, ProviderFaultNoticed, ProviderFaultError, ProviderFaultRecorded,
         OrphanExits, CloseWindow, DisposeStep, DisposeCancelsProvider, DisposeJoinsProvider,
         DisposeDetaches, DisposeCloses, ApplicationExits, closeVars
    <3>2. CASE Registering
      BY <3>2, RegisteringSpares DEF closeVars
    <3>3. CASE ConnectStep \/ SwitchStep
      BY <3>3 DEF ConnectStep, ConnectReset, ConnectNoPort, ConnectOpen, ConnectOpened,
         ConnectThrows, ConnectCancelled, ConnectProbe, ConnectChecked, ConnectAttach,
         ConnectNamed, ConnectAttached, ConnectList, ConnectQuery, ConnectOnline,
         ConnectGivesUp, ConnectAborts, DisconnectDone, SwitchStep, SwitchCheck,
         SwitchCurrent, SwitchBeginStop, SwitchStop, SwitchStopped, SwitchNotStopped,
         SwitchHandover, SwitchStart, SwitchStatus, SwitchBackToQtopia, SwitchFailed,
         SwitchComplete, SwitchRecover, SwitchToError, SwitchCancelled, StopDialogue,
         Commit, OnlyOp, closeVars
    <3>4. CASE OtherOpStep
      BY <3>4 DEF OtherOpStep, Acquire, AcquireCleanup, TearDownStep, CancelProvider,
         JoinProvider, JoinExpires, DetachTransport, CloseTransport, Return, ProviderCreated,
         ProviderStarts, ProviderFailsToStart, CleanupGuard, CleanupDone, OnlyOp, closeVars
    <3>5. CASE UNCHANGED vars
      BY <3>5 DEF vars, closeVars
    <3>. QED  BY <3>1, <3>2, <3>3, <3>4, <3>5, NextCases
  <2>. QED  BY <2>1 DEF Cancelled
<1>2. NameInv
  BY <1>1 DEF Inv
<1>3. CASE Others
  BY <1>2, <1>3, NameInvOthers DEF Inv
<1>4. CASE Registering
  BY <1>2, <1>4, NameInvRegistering DEF Inv, Registering
<1>5. CASE (ConnectStep \/ SwitchStep) /\ calls["holder"] = NoCall
  BY <1>2, <1>5, NameInvHolder DEF Inv
<1>6. CASE OtherOpStep
  BY <1>1, <1>2, <1>6, NameInvOtherOp DEF Inv
<1>7. CASE UNCHANGED vars
  <2>1. UNCHANGED <<registry, calls, op, provider>> /\ RunningApps' = RunningApps
    BY <1>7, EntersSpareRunning DEF vars, hostVars, regVars, lockVars, loopVars
  <2>. QED  BY <1>2, <2>1 DEF NameInv
<1>. QED  BY <1>3, <1>4, <1>5, <1>6, <1>7, NextCases

LEMMA InvHolds == Spec => []Inv
<1>1. Init => (~Cancelled => NameInv)
  BY NameInvInit
<1>2. Inv /\ [Next]_vars => (~Cancelled' => NameInv')
  BY NameInvStep
<1>3. ~Cancelled' <=> (~Cancelled)'
  OBVIOUS
<1>. DEFINE N == ~Cancelled => NameInv
            P == TypeOK /\ OpShape /\ CallInv /\ PumpInv /\ NoLoopUnderCommand /\ RunInv
<1>4. Init => N
  BY <1>1
<1>5. P /\ N /\ [Next]_vars => N'
  BY <1>2 DEF Inv
<1>6. P /\ N => Inv
  BY DEF Inv
<1>7. Spec => []P
  BY RunInvHolds
<1>. HIDE DEF N, P
<1>. QED  BY <1>4, <1>5, <1>6, <1>7, PTL DEF Spec

(***************************************************************************)
(* Two cards never show Running, and while the window is open a Running    *)
(* card is the current application whenever the registry's methods have    *)
(* returned, whichever thread runs between two of their assignments        *)
(* (AppRegistry, SerialDeviceConnection).                                  *)
(***************************************************************************)
THEOREM Coherence == Spec => []RegistryCoherent
<1>1. Inv => OneRunning
  BY DEF Inv, RunInv, RunningApps, OneRunning
<1>2. Inv /\ ~Cancelled => RunningNamed
  <2>. SUFFICES ASSUME Inv, ~Cancelled, NEW a \in RunningApps
                PROVE  registry.current = a \/ \E th \in DOMAIN calls : calls[th] # NoCall
    BY DEF RunningNamed, RunningApps
  <2>1. DOMAIN calls = Threads /\ NoCall.method = "none" /\ NoCall.at = "done"
    BY Entered DEF Inv, TypeOK
  <2>2. \/ registry.current = a
        \/ calls["holder"].at = "name"
        \/ \E th \in Threads : calls[th].method = "SetUnknown"
    BY DEF Inv, NameInv
  <2>. QED  BY <2>1, <2>2, ThreadNames
<1>3. Inv => RegistryCoherent
  BY <1>1, <1>2 DEF RegistryCoherent
<1>. QED  BY <1>3, InvHolds, PTL

-----------------------------------------------------------------------------
(* What the host knows about the board.  The inductive invariant follows   *)
(* the knowledge a dialogue gains through the steps that use it: no card   *)
(* shows Running while the board may be changing, save the one that the    *)
(* holder's own method is about to clear, and a step that relies on an     *)
(* idle board has just seen one.                                           *)

\* Steps during which no card shows Running.
NoneRunning == {"open", "opened", "probe", "checked", "attach", "named", "list", "query", "stop",
                "stopped", "handover", "start", "status", "idleStill", "provide", "providing",
                "complete", "recover", "recovered"}

\* The Running cards that method call k has still to clear.
Clearing(k) == IF k.method = "SetUnknown" THEN k.left
               ELSE IF k.method = "BeginStop" THEN {k.app} ELSE {}

\* Application a owns the board, or did before it exited by itself.
Owns(a) == board = a \/ (drift /\ a # Qtopia)

BoardKnown ==
    /\ \A a \in RunningApps : Owns(a)
    /\ calls["holder"].method \in Writing => Owns(calls["holder"].app)
    /\ op.pc \in NoneRunning => RunningApps \subseteq Clearing(calls["holder"])
    /\ op.pc \in {"stopped", "handover", "start", "idleStill", "recovered"} => board = Qtopia
    /\ op.pc \in {"checked", "attach", "named"} => op.app \in {NoApp, board} \/ drift
    /\ op.pc \in {"attach", "named", "start", "status", "provide", "providing", "complete"} =>
          op.app # Qtopia
    /\ op.pc \in {"provide", "providing", "complete"} => board = op.app \/ drift
    /\ op.pc \in {"beginStop", "stop"} => op.old \in Apps
    /\ op.pc = "stop" => board = op.old \/ drift

LEMMA NothingToClear == Clearing(NoCall) = {} /\ NoCall.method \notin Writing
  BY Entered DEF Clearing, Writing

LEMMA BoardKnownInit == Init => BoardKnown
  BY ThreadNames, Entered
     DEF Init, BoardKnown, RunningApps, NewRegistry, NoOp, NoneRunning, Writing

LEMMA BoardKnownImplies ==
    ASSUME TypeOK, BoardKnown
    PROVE  CommandFitsBoard /\ RunningIsTrue
  BY DEF BoardKnown, Owns, CommandFitsBoard, RunningIsTrue, RunningApps

\* Steps that may only clear cards and leave the operation and the board alone.
LEMMA BoardKnownCleared ==
    ASSUME BoardKnown, UNCHANGED <<op, board, drift>>,
           RunningApps' \subseteq RunningApps, calls'["holder"] = calls["holder"]
    PROVE  BoardKnown'
  BY DEF BoardKnown, Owns, Clearing

\* Steps that move the operation to a place where nothing is claimed.
Unclaimed == {"idle", "cancel", "join", "detach", "close", "reset", "attached", "resume",
              "resuming", "online", "giveUp", "abort", "return", "check", "current", "notStopped",
              "notStarted", "stranded", "failed", "aborted", "guard", "cleaned", "offline"}

LEMMA BoardKnownReleased ==
    ASSUME BoardKnown, UNCHANGED <<board, drift>>, op'.pc \in Unclaimed,
           RunningApps' \subseteq RunningApps,
           calls'["holder"].method \in Writing => Owns(calls'["holder"].app)
    PROVE  BoardKnown'
  BY DEF BoardKnown, Owns, Unclaimed, NoneRunning

LEMMA BoardKnownOthers ==
    ASSUME TypeOK, BoardKnown, Others
    PROVE  BoardKnown'
<1>1. UNCHANGED <<op, registry>> /\ calls'["holder"] = calls["holder"]
  BY OthersSpareOp, OthersOnCalls, ThreadNames DEF Enters, ProviderFaultError, TypeOK
<1>2. RunningApps' = RunningApps
  BY <1>1, EntersSpareRunning
<1>3. CASE ApplicationExits
  <2>1. board # Qtopia /\ drift' = TRUE
    BY <1>3 DEF ApplicationExits
  <2>2. \A a : Owns(a) => Owns(a)'
    BY <2>1 DEF Owns
  <2>. QED  BY <1>1, <1>2, <2>1, <2>2 DEF BoardKnown, Clearing
<1>4. ApplicationExits \/ UNCHANGED <<board, drift>>
  BY DEF Others, CallStep, Call, ReaderFaults, FaultNoticed, FaultRecorded,
         LoopExits, LoopFails, LoopGoes, ProviderFaultNoticed, ProviderFaultError,
         ProviderFaultRecorded, OrphanExits, CloseWindow, DisposeStep,
         DisposeCancelsProvider, DisposeJoinsProvider, DisposeDetaches, DisposeCloses, boardVars
<1>. QED  BY <1>1, <1>2, <1>3, <1>4, BoardKnownCleared

\* A statement of a method.
LEMMA BoardKnownRegistering ==
    ASSUME TypeOK, CallInv, BoardKnown, NEW th \in Threads, Registers(th)
    PROVE  BoardKnown'
<1>. DEFINE k == calls[th]  k2 == calls'[th]
<1>0. registry \in Registry /\ calls \in [Threads -> RegistryCalls] /\ k \in RegistryCalls
      /\ NoCall.method = "none" /\ NoCall.at = "done" /\ RegistryStep(th)
      /\ WellCalled(k) /\ UNCHANGED <<op, board, drift>> /\ RunningApps \subseteq Apps
  BY Entered DEF TypeOK, CallInv, Registers, lockVars, boardVars, RunningApps
<1>1. StatementOf(k, k2) /\ \A u \in Threads \ {th} : calls'[u] = calls[u]
  BY <1>0, StatementCases
<1>2. RunsOwn(k, k2) \/ RunningApps' \subseteq RunningApps
  BY <1>1 DEF StatementOf, Offering, Visiting, LeavesOwn, Names, Tests, Nulls
<1>3. CASE th # "holder"
  <2>1. ~RunsOwn(k, k2)
    BY <1>3, ThreadNames DEF RunsOwn, CallInv
  <2>. QED  BY <1>0, <1>1, <1>2, <1>3, <2>1, ThreadNames, BoardKnownCleared
<1>4. CASE th = "holder"
  <2>1. k2 = NoCall \/ (k2.method = k.method /\ (k.method # "SetAvailable" => k2.app = k.app))
    BY <1>0, SameMethod
  <2>2. k2.method \in Writing => k.method \in Writing /\ Owns(k2.app)
    BY <1>0, <1>4, <2>1 DEF BoardKnown, Writing, Owns
  <2>3. \A a \in RunningApps' : Owns(a)'
    <3>1. CASE RunsOwn(k, k2)
      <4>1. k.method \in Writing /\ RunningApps' \subseteq RunningApps \cup {k.app}
        BY <3>1 DEF RunsOwn, Writing
      <4>. QED  BY <1>0, <1>4, <4>1 DEF BoardKnown, Owns
    <3>. QED  BY <1>0, <1>2, <3>1 DEF BoardKnown, Owns
  <2>4. op.pc \in NoneRunning => RunningApps' \subseteq Clearing(k2)
    <3>. SUFFICES ASSUME op.pc \in NoneRunning  PROVE RunningApps' \subseteq Clearing(k2)
      OBVIOUS
    <3>1. k.method \notin Writing
      BY <1>0, <1>4 DEF CallInv, HolderAt, NoneRunning, Writing
    <3>2. RunningApps \subseteq Clearing(k)
      BY <1>4 DEF BoardKnown
    <3>. HIDE DEF k, k2
    <3>3. CASE Offering(k, k2)
      BY <3>2, <3>3 DEF Offering, Clearing
    <3>4. CASE Visiting(k, k2)
      <4>1. PICK a \in k.left : /\ RunningApps' = RunningApps \ {a}
                                /\ \/ k2 = [k EXCEPT !.left = @ \ {a}]
                                   \/ k.left = {a}
        BY <3>4 DEF Visiting
      <4>2. k.method = "SetUnknown"
        BY <3>1, <3>4 DEF Visiting, Writing
      <4>3. RunningApps \subseteq k.left
        BY <3>2, <4>2 DEF Clearing
      <4>4. CASE k2 = [k EXCEPT !.left = @ \ {a}]
        <5>1. k2.method = "SetUnknown" /\ k2.left = k.left \ {a}
          BY <1>0, <4>2, <4>4 DEF RegistryCalls
        <5>. QED  BY <4>1, <4>3, <5>1 DEF Clearing
      <4>5. CASE k.left = {a}
        BY <4>1, <4>3, <4>5
      <4>. QED  BY <4>1, <4>4, <4>5
    <3>5. CASE LeavesOwn(k, k2)
      BY <3>2, <3>5 DEF LeavesOwn, Clearing
    <3>6. CASE Tests(k, k2)
      BY <3>2, <3>6 DEF Tests, Clearing
    <3>7. CASE Nulls(k, k2)
      <4>1. CASE k.method = "SetUnknown"
        <5>1. k2.method = "SetUnknown" /\ k2.left = Apps
          BY <1>0, <3>7, <4>1 DEF Nulls, RegistryCalls
        <5>. QED  BY <1>0, <3>7, <5>1 DEF Nulls, Clearing
      <4>2. CASE k.method \in {"CompleteStop", "Fail"}
        BY <3>2, <3>7, <4>2 DEF Nulls, Clearing
      <4>. QED  BY <3>7, <4>1, <4>2 DEF Nulls
    <3>. QED  BY <1>1, <3>1, <3>3, <3>4, <3>5, <3>6, <3>7
              DEF StatementOf, RunsOwn, Names, Writing
  <2>5. (calls["holder"].method \in Writing => Owns(calls["holder"].app))'
    BY <1>0, <1>4, <2>2 DEF Owns
  <2>6. (op.pc \in NoneRunning => RunningApps \subseteq Clearing(calls["holder"]))'
    BY <1>0, <1>4, <2>4 DEF Clearing
  <2>. QED  BY <1>0, <2>3, <2>5, <2>6 DEF BoardKnown
<1>. QED  BY <1>3, <1>4

LEMMA BoardKnownOtherOp ==
    ASSUME TypeOK, OpShape, CallInv, BoardKnown, OtherOpStep
    PROVE  BoardKnown'
<1>. USE DEF hostVars, boardVars
<1>0. op \in Ops /\ queue \subseteq Calls /\ UNCHANGED <<registry, calls, board, drift>>
  BY OtherOpStepsSpareHost
     DEF TypeOK, OtherOpStep, Acquire, AcquireCleanup, TearDownStep, CancelProvider,
         JoinProvider, JoinExpires, DetachTransport, CloseTransport, Return, ProviderCreated,
         ProviderStarts, ProviderFailsToStart, CleanupGuard, CleanupDone, OnlyOp
<1>1. RunningApps' = RunningApps /\ calls["holder"] = NoCall /\ calls'["holder"] = NoCall
  BY <1>0, EntersSpareRunning, HolderQuiet
<1>2. op.pc \in TearDown => AfterJoin \in Unclaimed /\ op.next \in Unclaimed
  BY DEF OpShape, AfterJoin, Unclaimed
<1>3. ASSUME op'.pc \in Unclaimed  PROVE BoardKnown'
  BY <1>0, <1>1, <1>3, NothingToClear, BoardKnownReleased
<1>4. CASE \/ \E c \in queue : Acquire(c)
           \/ \E t \in TransportIds : AcquireCleanup(t)
  <2>1. op'.pc \in {"check", "cancel", "guard"}
    BY <1>4 DEF Acquire, AcquireCleanup, NoOp
  <2>. QED  BY <1>3, <2>1 DEF Unclaimed
<1>5. CASE TearDownStep \/ JoinExpires
  <2>1. op.pc \in TearDown
    BY <1>5 DEF TearDownStep, JoinExpires, CancelProvider, JoinProvider, DetachTransport,
                CloseTransport, TearDown
  <2>2. \/ \E pc \in Unclaimed : Goto(pc)
        \/ op' = [op EXCEPT !.pc = "close", !.tr = transport]
    BY <1>2, <1>5, <2>1
       DEF TearDownStep, JoinExpires, CancelProvider, JoinProvider, DetachTransport,
           CloseTransport, Unclaimed
  <2>3. op'.pc \in Unclaimed
    <3>1. op' = [op EXCEPT !.pc = "close", !.tr = transport] => op'.pc = "close"
      BY <1>0 DEF Ops
    <3>. QED  BY <1>0, <2>2, <3>1, Gone DEF Unclaimed
  <2>. QED  BY <1>3, <2>3
<1>6. CASE ProviderCreated \/ ProviderStarts \/ ProviderFailsToStart
  <2>1. CASE op.pc \in {"resume", "resuming"}
    <3>1. Goto("resuming") \/ Goto("idle") \/ ThenTearDown("giveUp")
      BY <1>6, <2>1 DEF ProviderCreated, ProviderStarts, ProviderFailsToStart
    <3>2. op'.pc \in {"resuming", "idle", "cancel"}
      BY <1>0, <3>1, Gone
    <3>. QED  BY <1>3, <3>2 DEF Unclaimed
  <2>2. CASE op.pc \in {"provide", "providing"}
    <3>1. \/ Goto("providing") \/ Goto("complete") \/ Goto("recover")
      BY <1>6, <2>2 DEF ProviderCreated, ProviderStarts, ProviderFailsToStart
    <3>2. op'.pc \in {"providing", "complete", "recover"} /\ op'.app = op.app
      BY <1>0, <3>1, Gone
    <3>. QED  BY <1>0, <1>1, <2>2, <3>2, NothingToClear DEF BoardKnown, Owns, NoneRunning
  <2>. QED  BY <1>6, <2>1, <2>2 DEF ProviderCreated, ProviderStarts, ProviderFailsToStart
<1>7. CASE CleanupGuard \/ CleanupDone \/ Return
  <2>1. Goto("idle") \/ ThenTearDown("cleaned")
    BY <1>7 DEF CleanupGuard, CleanupDone, Return
  <2>2. op'.pc \in {"idle", "cancel"}
    BY <1>0, <2>1, Gone
  <2>. QED  BY <1>3, <2>2 DEF Unclaimed
<1>. QED  BY <1>4, <1>5, <1>6, <1>7 DEF OtherOpStep

\* The steps of connect and switch that call the registry.
LEMMA Committed ==
    ASSUME TypeOK, NEW c, NEW k, NEW pc, Commit(c, k, pc)
    PROVE  /\ RunningApps' = RunningApps /\ calls'["holder"] = k /\ UNCHANGED <<board, drift>>
           /\ op'.pc = pc /\ (pc # "idle" => op'.app = op.app /\ op'.old = op.old)
<1>1. op \in Ops /\ calls \in [Threads -> RegistryCalls] /\ UNCHANGED registry
  BY DEF TypeOK, Commit
<1>. QED  BY <1>1, Gone, EntersSpareRunning, ThreadNames DEF Commit, Enters, boardVars

LEMMA BoardKnownConnect ==
    ASSUME TypeOK, OpShape, CallInv, BoardKnown, ConnectStep, calls["holder"] = NoCall
    PROVE  BoardKnown'
<1>. USE DEF boardVars
<1>0. /\ op \in Ops /\ op.app \in Apps \cup {NoApp} /\ Qtopia \in Apps /\ NoApp # Qtopia
      /\ calls["holder"].method \notin Writing /\ Clearing(calls["holder"]) = {}
  BY AppsAssumption, NothingToClear DEF TypeOK, Ops, Apps
<1>1. op.pc \in NoneRunning => RunningApps = {}
  BY <1>0 DEF BoardKnown
<1>2. ASSUME UNCHANGED <<registry, calls>>
      PROVE  RunningApps' = RunningApps /\ calls'["holder"] = calls["holder"]
  BY <1>2, EntersSpareRunning
<1>3. CASE ConnectReset
  <2>1. Commit("Connecting", SetUnknown, "open")
    BY <1>3 DEF ConnectReset
  <2>2. Clearing(SetUnknown) = Apps /\ SetUnknown.method \notin Writing
    BY DEF Clearing, SetUnknown, NoCall, Writing
  <2>3. RunningApps \subseteq Apps
    BY DEF RunningApps
  <2>. QED  BY <2>1, <2>2, <2>3, Committed DEF BoardKnown, Owns, NoneRunning
<1>4. CASE ConnectNoPort \/ ConnectAttached \/ ConnectOnline \/ ConnectGivesUp
             \/ ConnectAborts \/ DisconnectDone
  <2>1. ASSUME NEW c, NEW k \in {NoCall, SetUnknown}, NEW pc \in {"idle", "resume", "return"},
               Commit(c, k, pc)
        PROVE  BoardKnown'
    <3>1. k.method \notin Writing
      BY Entered DEF Writing
    <3>. QED  BY <2>1, <3>1, Committed, BoardKnownReleased DEF Unclaimed
  <2>. QED  BY <1>4, <2>1 DEF ConnectNoPort, ConnectAttached, ConnectOnline, ConnectGivesUp,
                              ConnectAborts, DisconnectDone
<1>5. CASE ConnectThrows \/ ConnectCancelled
  <2>1. UNCHANGED <<registry, calls, board, drift>> /\ op'.pc = "cancel"
    BY <1>0, <1>5, Gone DEF ConnectThrows, ConnectCancelled, OnlyOp, hostVars, regVars
  <2>. QED  BY <1>0, <1>2, <2>1, BoardKnownReleased DEF Unclaimed
<1>6. ASSUME NEW t \in TransportIds, ConnectOpen(t)  PROVE BoardKnown'
  <2>1. UNCHANGED <<registry, calls, board, drift>> /\ op'.pc = "opened" /\ op.pc = "open"
    BY <1>0, <1>6 DEF ConnectOpen, hostVars, regVars, Ops
  <2>. QED  BY <1>0, <1>1, <1>2, <2>1 DEF BoardKnown, Owns, NoneRunning
<1>7. CASE ConnectOpened
  <2>1. UNCHANGED <<registry, calls, board, drift>> /\ op'.pc = "probe" /\ op.pc = "opened"
    BY <1>0, <1>7, Gone DEF ConnectOpened, regVars
  <2>. QED  BY <1>0, <1>1, <1>2, <2>1 DEF BoardKnown, Owns, NoneRunning
<1>8. CASE ConnectProbe
  <2>1. /\ UNCHANGED <<registry, calls, board>> /\ op.pc = "probe" /\ op'.pc = "checked"
        /\ op'.app \in {NoApp, board}
    BY <1>0, <1>8 DEF ConnectProbe, hostVars, regVars, Ops
  <2>. QED  BY <1>0, <1>1, <1>2, <2>1 DEF BoardKnown, NoneRunning
<1>9. CASE ConnectChecked
  <2>1. UNCHANGED <<registry, calls, board, drift>> /\ op.pc = "checked"
    BY <1>9 DEF ConnectChecked, OnlyOp, hostVars, regVars
  <2>2. \/ op'.pc = "cancel"
        \/ op'.pc = "list"
        \/ op'.pc = "attach" /\ op'.app = op.app /\ op.app # Qtopia
    <3>1. ThenTearDown("giveUp") \/ Goto("list") \/ (Goto("attach") /\ op.app # Qtopia)
      BY <1>9 DEF ConnectChecked
    <3>. QED  BY <1>0, <3>1, Gone
  <2>3. CASE op'.pc = "cancel"
    BY <1>0, <1>2, <2>1, <2>3, BoardKnownReleased DEF Unclaimed
  <2>4. CASE op'.pc # "cancel"
    BY <1>0, <1>1, <1>2, <2>1, <2>2, <2>4 DEF BoardKnown, Owns, NoneRunning
  <2>. QED  BY <2>3, <2>4
<1>10. CASE ConnectAttach \/ ConnectList
  <2>1. ASSUME NEW S, NEW pc \in {"named", "query"}, Commit(conn, ApplyAvailability(S), pc),
               op.pc \in NoneRunning, pc = "named" => op.pc = "attach"
        PROVE  BoardKnown'
    <3>1. ApplyAvailability(S).method \notin Writing
      BY Entered DEF Writing
    <3>. QED  BY <1>1, <2>1, <3>1, Committed DEF BoardKnown, Owns, NoneRunning
  <2>2. CASE ConnectAttach
    BY <2>1, <2>2 DEF ConnectAttach, NoneRunning
  <2>3. CASE ConnectList
    BY <2>1, <2>3 DEF ConnectList, NoneRunning
  <2>. QED  BY <1>10, <2>2, <2>3
<1>11. CASE ConnectNamed
  <2>1. Commit(conn, SetCurrent(op.app), "attached") /\ op.pc = "named"
    BY <1>11 DEF ConnectNamed
  <2>2. SetCurrent(op.app).app = op.app /\ op.app \in Apps
    BY <2>1, Entered DEF OpShape
  <2>3. Owns(op.app)
    BY <2>1, <2>2, AppsAssumption DEF BoardKnown, Owns, Apps
  <2>. QED  BY <2>1, <2>2, <2>3, Committed, BoardKnownReleased DEF Unclaimed
<1>12. CASE ConnectQuery
  <2>1. PICK k \in {SetUnknown, SetCurrent(Qtopia)} :
           Commit(conn, k, "online") /\ (k = SetCurrent(Qtopia) => board = Qtopia)
    <3>1. SetCurrent(Qtopia) # SetUnknown
      BY Entered
    <3>. QED  BY <1>12, <3>1 DEF ConnectQuery
  <2>2. k.method \in Writing => Owns(k.app)
    BY <2>1, Entered DEF Writing, Owns
  <2>. QED  BY <2>1, <2>2, Committed, BoardKnownReleased DEF Unclaimed
<1>. QED
  BY <1>3, <1>4, <1>5, <1>6, <1>7, <1>8, <1>9, <1>10, <1>11, <1>12 DEF ConnectStep

LEMMA BoardKnownSwitch ==
    ASSUME TypeOK, OpShape, CallInv, RunInv, BoardKnown, SwitchStep, calls["holder"] = NoCall
    PROVE  BoardKnown'
<1>. USE DEF boardVars
<1>0. /\ op \in Ops /\ op.app \in Apps \cup {NoApp} /\ op.old \in Apps \cup {NoApp}
      /\ Qtopia \in Apps /\ NoApp \notin Apps /\ registry.current \in Apps \cup {NoApp}
      /\ calls["holder"].method \notin Writing /\ Clearing(calls["holder"]) = {}
  BY AppsAssumption, NothingToClear, RegistryParts DEF TypeOK, Ops, Apps
<1>1. op.pc \in NoneRunning => RunningApps = {}
  BY <1>0 DEF BoardKnown
<1>2. ASSUME UNCHANGED <<registry, calls>>
      PROVE  RunningApps' = RunningApps /\ calls'["holder"] = calls["holder"]
  BY <1>2, EntersSpareRunning
<1>3. CASE SwitchNotStopped \/ SwitchFailed \/ SwitchToError
  <2>1. ASSUME NEW c, NEW k, Commit(c, k, "return"), k.method \notin Writing
        PROVE  BoardKnown'
    BY <2>1, Committed, BoardKnownReleased DEF Unclaimed
  <2>2. SetUnknown.method \notin Writing /\ \A a : Fail(a).method \notin Writing
    BY Entered DEF Writing
  <2>. QED  BY <1>3, <2>1, <2>2 DEF SwitchNotStopped, SwitchFailed, SwitchToError
<1>4. CASE SwitchCheck \/ SwitchCancelled
  <2>1. UNCHANGED <<registry, calls, board, drift>> /\ op'.pc \in {"cancel", "idle", "aborted"}
    BY <1>0, <1>4, Gone DEF SwitchCheck, SwitchCancelled, OnlyOp, hostVars, regVars
  <2>. QED  BY <1>0, <1>2, <2>1, BoardKnownReleased DEF Unclaimed
<1>5. CASE SwitchCurrent
  <2>1. UNCHANGED <<registry, calls, board, drift>>
    BY <1>5 DEF SwitchCurrent, OnlyOp, hostVars, regVars
  <2>2. \/ op'.pc = "idle"
        \/ op'.pc = "beginStop" /\ op'.old \in Apps
    BY <1>0, <1>5, Gone DEF SwitchCurrent, Ops
  <2>. QED  BY <1>0, <1>2, <2>1, <2>2 DEF BoardKnown, Owns, NoneRunning
<1>6. CASE SwitchBeginStop
  <2>1. op.old \in Apps
    BY <1>6 DEF SwitchBeginStop, BoardKnown
  <2>2. CASE ~CanBeginStop(registry, op.old)
    <3>1. Commit(conn, NoCall, "failed")
      BY <1>6, <2>2 DEF SwitchBeginStop
    <3>. QED  BY <3>1, Committed, NothingToClear, BoardKnownReleased DEF Unclaimed
  <2>3. CASE CanBeginStop(registry, op.old)
    <3>1. RunningApps = {op.old}
      BY <2>1, <2>3 DEF CanBeginStop, RunningApps, RunInv
    <3>2. PICK pc \in {"stop", "stopped"} :
             Commit(conn, BeginStop(op.old), pc) /\ (pc = "stopped" => op.old = Qtopia)
      BY <1>6, <2>3 DEF SwitchBeginStop
    <3>3. Clearing(BeginStop(op.old)) = {op.old} /\ BeginStop(op.old).method \notin Writing
      BY Entered DEF Clearing, Writing
    <3>4. Owns(op.old)
      BY <3>1 DEF BoardKnown
    <3>. QED  BY <2>1, <3>1, <3>2, <3>3, <3>4, Committed DEF BoardKnown, Owns, NoneRunning
  <2>. QED  BY <2>2, <2>3
<1>7. CASE SwitchStop \/ SwitchRecover
  <2>1. PICK good \in {"stopped", "recovered"}, bad \in {"notStopped", "stranded"} :
           StopDialogue(good, bad)
    BY <1>7 DEF SwitchStop, SwitchRecover
  <2>2. UNCHANGED <<registry, calls>> /\ RunningApps = {}
    BY <1>1, <1>7, <2>1
       DEF SwitchStop, SwitchRecover, StopDialogue, NoneRunning, hostVars, regVars
  <2>3. \/ op'.pc \in {"notStopped", "stranded", "failed"}
        \/ op'.pc \in {"stopped", "recovered"} /\ board' = Qtopia
    BY <1>0, <2>1, Gone DEF StopDialogue
  <2>. QED  BY <1>0, <1>2, <2>2, <2>3 DEF BoardKnown, NoneRunning
<1>8. CASE SwitchStopped
  <2>1. Commit(conn, CompleteStop(op.old), "handover") /\ op.pc = "stopped"
    BY <1>8 DEF SwitchStopped
  <2>2. CompleteStop(op.old).method \notin Writing
    BY Entered DEF Writing
  <2>. QED  BY <1>1, <2>1, <2>2, Committed DEF BoardKnown, NoneRunning
<1>9. CASE SwitchHandover
  <2>1. op.pc = "handover" /\ board = Qtopia /\ RunningApps = {}
    BY <1>1, <1>9 DEF SwitchHandover, BoardKnown, NoneRunning
  <2>2. CASE op.app = Qtopia
    <3>1. Commit(conn, SetCurrent(Qtopia), "return")
      BY <1>9, <2>2 DEF SwitchHandover
    <3>2. Owns(SetCurrent(Qtopia).app)
      BY <2>1, Entered DEF Owns
    <3>. QED  BY <3>1, <3>2, Committed, BoardKnownReleased DEF Unclaimed
  <2>3. CASE op.app # Qtopia /\ CanBeginStart(registry, op.app)
    <3>1. Commit(conn, BeginStart(op.app), "start") /\ BeginStart(op.app).method \notin Writing
      BY <1>9, <2>3, Entered DEF SwitchHandover, Writing
    <3>. QED  BY <2>1, <2>3, <3>1, Committed DEF BoardKnown, NoneRunning
  <2>4. CASE op.app # Qtopia /\ ~CanBeginStart(registry, op.app)
    <3>1. Commit(conn, NoCall, "failed")
      BY <1>9, <2>4 DEF SwitchHandover
    <3>. QED  BY <3>1, Committed, NothingToClear, BoardKnownReleased DEF Unclaimed
  <2>. QED  BY <2>2, <2>3, <2>4
<1>10. CASE SwitchStart
  <2>1. UNCHANGED <<registry, calls>> /\ RunningApps = {} /\ op.app # Qtopia
    BY <1>1, <1>10 DEF SwitchStart, BoardKnown, NoneRunning, hostVars, regVars
  <2>2. \/ op'.pc = "provide" /\ op'.app = op.app /\ board' = op.app
        \/ op'.pc \in {"status", "failed"} /\ op'.app = op.app
    BY <1>0, <1>10, Gone DEF SwitchStart
  <2>. QED  BY <1>0, <1>2, <2>1, <2>2 DEF BoardKnown, NoneRunning
<1>11. CASE SwitchStatus
  <2>1. UNCHANGED <<registry, calls, board, drift>> /\ op.pc = "status" /\ RunningApps = {}
    BY <1>1, <1>11 DEF SwitchStatus, OnlyOp, hostVars, regVars, NoneRunning
  <2>2. \/ op'.pc = "idleStill" /\ board = Qtopia
        \/ op'.pc = "notStarted"
    BY <1>0, <1>11, Gone DEF SwitchStatus
  <2>. QED  BY <1>0, <1>2, <2>1, <2>2 DEF BoardKnown, NoneRunning
<1>12. CASE SwitchBackToQtopia
  <2>1. Commit(conn, SetCurrent(Qtopia), "notStarted") /\ board = Qtopia
    BY <1>12 DEF SwitchBackToQtopia, BoardKnown
  <2>2. Owns(SetCurrent(Qtopia).app)
    BY <2>1, Entered DEF Owns
  <2>. QED  BY <2>1, <2>2, Committed, BoardKnownReleased DEF Unclaimed
<1>13. CASE SwitchComplete
  <2>1. Commit(conn, CompleteStart(op.app), "return") /\ op.pc = "complete"
    BY <1>13 DEF SwitchComplete
  <2>2. Owns(CompleteStart(op.app).app)
    BY <2>1, Entered DEF BoardKnown, Owns
  <2>. QED  BY <2>1, <2>2, Committed, BoardKnownReleased DEF Unclaimed
<1>. QED
  BY <1>3, <1>4, <1>5, <1>6, <1>7, <1>8, <1>9, <1>10, <1>11, <1>12, <1>13 DEF SwitchStep

LEMMA BoardKnownHolds == Spec => [](TypeOK /\ BoardKnown)
<1>1. TypeOK /\ OpShape /\ CallInv /\ RunInv /\ BoardKnown /\ [Next]_vars => BoardKnown'
  <2>1. ASSUME BoardKnown, UNCHANGED vars  PROVE BoardKnown'
    <3>1. UNCHANGED <<registry, calls, op, board, drift>>
      BY <2>1 DEF vars, hostVars, regVars, lockVars, boardVars
    <3>. QED  BY <2>1, <3>1, EntersSpareRunning, BoardKnownCleared
  <2>. QED
    BY <2>1, BoardKnownOthers, BoardKnownRegistering, BoardKnownOtherOp, BoardKnownConnect,
       BoardKnownSwitch, NextCases DEF Registering
<1>. QED  BY <1>1, BoardKnownInit, RunInvHolds, PTL DEF Spec

(***************************************************************************)
(* The start command is only sent to an idle board and the stop frame of   *)
(* an application only to that application (unless it just exited by       *)
(* itself), in every interleaving with faults, providers and Dispose.      *)
(***************************************************************************)
THEOREM CommandsFit == Spec => []CommandFitsBoard
  BY BoardKnownHolds, BoardKnownImplies, PTL

(***************************************************************************)
(* A card that shows Running while nothing is under way names the          *)
(* application the board runs, unless that exited by itself.               *)
(***************************************************************************)
THEOREM RunningTrue == Spec => []RunningIsTrue
  BY BoardKnownHolds, BoardKnownImplies, PTL
-----------------------------------------------------------------------------
(* The serial handles: none is lost, none is closed for the fault of       *)
(* another one, and no connection is reported lost without a cause.  Who   *)
(* holds which handle.                                                     *)

\* A transport that is not the current one any more, or whose port is dead.
Dead(t) == t \in TransportIds => port[t] # "open"

\* What the operation knows of the handles where it stands.
OpHandles ==
    /\ op.pc \in {"close", "reset", "open", "opened"} => transport = NoTransport
    /\ op.pc = "opened" => op.tr \in TransportIds /\ port[op.tr] # "closed"
    /\ op.pc \in {"detach", "close"} => op.kind # "switch"
    /\ op.pc = "guard" => Dead(op.tr)
    /\ op.kind = "cleanup" /\ op.pc \in {"cancel", "join", "detach"} => Dead(transport)
    /\ op.kind = "cleanup" /\ op.pc = "close" => Dead(op.tr)

\* The current transport is not closed, and while Dispose closes its
\* transport there is no other one.
PortHandles ==
    /\ transport \in TransportIds => port[transport] # "closed"
    /\ closingPort # NoTransport =>
          closing = "closing" /\ transport = NoTransport /\ op.pc # "opened"

HandleInv == HandlesOwned /\ OpHandles /\ PortHandles

\* The operation moves on without touching a handle.
LEMMA OpMoves ==
    ASSUME HandleInv, UNCHANGED <<transport, portVars, closeVars>>,
           op.pc \notin {"close", "opened"},
           op'.pc \notin {"guard", "detach", "close", "reset", "open", "opened"},
           op'.pc \in {"cancel", "join"} /\ op'.kind = "cleanup" => Dead(transport)
    PROVE  HandleInv'
<1>1. HandlesOwned'
  BY DEF HandleInv, HandlesOwned, portVars, closeVars
<1>2. PortHandles'
  BY DEF HandleInv, PortHandles, portVars, closeVars
<1>3. OpHandles'
  BY DEF OpHandles, Dead, portVars
<1>. QED  BY <1>1, <1>2, <1>3 DEF HandleInv

\* Nobody moves a handle.
LEMMA NobodyMoves ==
    ASSUME HandleInv, UNCHANGED <<op, transport, portVars, closeVars>>
    PROVE  HandleInv'
  BY DEF HandleInv, HandlesOwned, OpHandles, PortHandles, Dead, portVars, closeVars

LEMMA HandleInit == Init => HandleInv
  BY ConnectionAssumption
     DEF Init, HandleInv, HandlesOwned, OpHandles, PortHandles, Dead, NoOp

LEMMA HandleReader ==
    ASSUME TypeOK, HandleInv, NEW t \in TransportIds,
           ReaderFaults(t) \/ FaultNoticed(t) \/ FaultRecorded(t)
    PROVE  HandleInv'
<1>0. port \in [TransportIds -> {"closed", "open", "faulted"}]
  BY DEF TypeOK
<1>1. UNCHANGED <<op, transport, closeVars>>
  BY DEF ReaderFaults, FaultNoticed, FaultRecorded, hostVars, lockVars
<1>2. CASE ReaderFaults(t)
  <2>1. port[t] = "open" /\ port' = [port EXCEPT ![t] = "faulted"]
    BY <1>2 DEF ReaderFaults
  <2>2. HandlesOwned'
    BY <1>0, <1>1, <2>1 DEF HandleInv, HandlesOwned, closeVars
  <2>3. OpHandles'
    BY <1>0, <1>1, <2>1 DEF HandleInv, OpHandles, Dead
  <2>4. PortHandles'
    BY <1>0, <1>1, <2>1 DEF HandleInv, PortHandles, closeVars
  <2>. QED  BY <2>2, <2>3, <2>4 DEF HandleInv
<1>3. CASE FaultNoticed(t) \/ FaultRecorded(t)
  <2>1. UNCHANGED port
    BY <1>3 DEF FaultNoticed, FaultRecorded
  <2>. QED
    BY <1>1, <2>1 DEF HandleInv, HandlesOwned, OpHandles, PortHandles, Dead, closeVars
<1>. QED  BY <1>2, <1>3

LEMMA HandleDispose ==
    ASSUME TypeOK, HandleInv, CloseWindow \/ DisposeStep
    PROVE  HandleInv'
<1>0. port \in [TransportIds -> {"closed", "open", "faulted"}]
      /\ NoTransport \notin TransportIds
  BY ConnectionAssumption DEF TypeOK
<1>1. CASE CloseWindow \/ DisposeCancelsProvider \/ DisposeJoinsProvider
  <2>1. /\ UNCHANGED <<op, transport, portVars, closingPort>>
        /\ closing # "closing" /\ closing' # "closing"
    BY <1>1 DEF CloseWindow, DisposeCancelsProvider, DisposeJoinsProvider, hostVars, lockVars
  <2>. QED
    BY <2>1 DEF HandleInv, HandlesOwned, OpHandles, PortHandles, Dead, portVars
<1>2. CASE DisposeDetaches
  <2>1. /\ UNCHANGED <<op, portVars>> /\ closing = "detaching" /\ closing' = "closing"
        /\ closingPort' = transport /\ transport' = NoTransport
    BY <1>2 DEF DisposeDetaches, lockVars
  <2>2. HandlesOwned'
    BY <2>1 DEF HandleInv, HandlesOwned, PortHandles, portVars
  <2>3. OpHandles' /\ PortHandles'
    BY <1>0, <2>1 DEF HandleInv, OpHandles, PortHandles, Dead, portVars
  <2>. QED  BY <2>2, <2>3 DEF HandleInv
<1>3. CASE DisposeCloses
  <2>1. /\ UNCHANGED <<op, transport, pump>> /\ closing = "closing" /\ closing' = "done"
        /\ port' = Closed(closingPort) /\ closingPort' = NoTransport
    BY <1>3 DEF DisposeCloses, hostVars, lockVars
  <2>2. \A u \in TransportIds : /\ port'[u] = IF u = closingPort THEN "closed" ELSE port[u]
                                /\ port'[u] = "open" => port[u] = "open"
    BY <2>1 DEF Closed
  <2>3. HandlesOwned'
    BY <2>1, <2>2 DEF HandleInv, HandlesOwned
  <2>4. OpHandles' /\ PortHandles'
    BY <1>0, <2>1, <2>2 DEF HandleInv, OpHandles, PortHandles, Dead
  <2>. QED  BY <2>3, <2>4 DEF HandleInv
<1>. QED  BY <1>1, <1>2, <1>3 DEF DisposeStep

LEMMA HandleOthers ==
    ASSUME TypeOK, HandleInv, Others \/ Registering \/ UNCHANGED vars
    PROVE  HandleInv'
<1>1. CASE CallStep \/ LoopExits \/ ProviderFaultNoticed \/ ProviderFaultError
             \/ ProviderFaultRecorded \/ LoopFails \/ (\E o \in orphans : OrphanExits(o))
             \/ ApplicationExits \/ Registering \/ UNCHANGED vars
  <2>1. UNCHANGED <<op, transport, portVars, closeVars>>
    BY <1>1 DEF CallStep, Call, LoopExits, LoopFails, LoopGoes, ProviderFaultNoticed,
                ProviderFaultError, ProviderFaultRecorded, OrphanExits, ApplicationExits,
                Registering, Registers, vars, hostVars, lockVars
  <2>. QED  BY <2>1, NobodyMoves
<1>. QED  BY <1>1, HandleReader, HandleDispose DEF Others

\* The lock is free, so no handle is on its way to be closed under it.
LEMMA HandleLock ==
    ASSUME TypeOK, OpShape, PumpInv, HandleInv,
           \/ \E c \in queue : Acquire(c)
           \/ \E t \in TransportIds : AcquireCleanup(t)
    PROVE  HandleInv'
<1>0. op.pc \notin {"close", "opened"}
  BY DEF OpShape, TearDown, ConnectPcs, Acquire, AcquireCleanup
<1>1. ASSUME NEW c \in queue, Acquire(c)  PROVE HandleInv'
  <2>1. UNCHANGED <<transport, portVars, closeVars>>
    BY <1>1 DEF Acquire, hostVars
  <2>2. c.kind \in {"connect", "disconnect", "switch"}
    BY DEF TypeOK, Calls
  <2>3. op'.pc \in {"check", "cancel"} /\ op'.kind = c.kind
    BY <1>1 DEF Acquire, NoOp
  <2>. QED  BY <1>0, <2>1, <2>2, <2>3, OpMoves
<1>2. ASSUME NEW t \in TransportIds, AcquireCleanup(t)  PROVE HandleInv'
  <2>1. /\ UNCHANGED <<transport, port, closeVars>> /\ pump[t] = "cleanup"
        /\ op'.pc = "guard" /\ op'.kind = "cleanup" /\ op'.tr = t
    BY <1>2 DEF AcquireCleanup, hostVars, NoOp
  <2>3. HandlesOwned'
    BY <1>0, <2>1 DEF HandleInv, HandlesOwned, closeVars
  <2>4. PortHandles'
    BY <2>1 DEF HandleInv, PortHandles, closeVars
  <2>5. OpHandles'
    BY <2>1 DEF PumpInv, OpHandles, Dead
  <2>. QED  BY <2>3, <2>4, <2>5 DEF HandleInv
<1>. QED  BY <1>1, <1>2

LEMMA HandleTearDown ==
    ASSUME TypeOK, OpShape, HandleInv, TearDownStep \/ JoinExpires
    PROVE  HandleInv'
<1>0. /\ op \in Ops /\ port \in [TransportIds -> {"closed", "open", "faulted"}]
      /\ NoTransport \notin TransportIds
  BY ConnectionAssumption DEF TypeOK
<1>1. CASE CancelProvider \/ JoinProvider \/ JoinExpires
  <2>1. UNCHANGED <<transport, portVars, closeVars>> /\ op.pc \in {"cancel", "join"}
    BY <1>1 DEF CancelProvider, JoinProvider, JoinExpires, hostVars
  <2>2. Goto("join") \/ Goto(AfterJoin)
    BY <1>1 DEF CancelProvider, JoinProvider, JoinExpires
  <2>3. /\ op.kind = "switch" => AfterJoin = "current"
        /\ op.kind # "switch" => AfterJoin = "detach"
    BY <2>1 DEF AfterJoin, OpShape, TearDown
  <2>4. op'.pc \in {"join", "current", "detach"} /\ op'.kind = op.kind
        /\ (op'.pc = "detach" => op.kind # "switch")
    BY <1>0, <2>2, <2>3 DEF Goto, Ops
  <2>5. op.kind = "cleanup" => Dead(transport)
    BY <2>1 DEF HandleInv, OpHandles
  <2>6. CASE op'.pc # "detach"
    BY <2>1, <2>4, <2>5, <2>6, OpMoves
  <2>7. CASE op'.pc = "detach"
    <3>1. HandlesOwned' /\ PortHandles'
      BY <2>1, <2>7 DEF HandleInv, HandlesOwned, PortHandles, portVars, closeVars
    <3>2. OpHandles'
      BY <2>1, <2>4, <2>5, <2>7 DEF OpHandles, Dead, portVars
    <3>. QED  BY <3>1, <3>2 DEF HandleInv
  <2>. QED  BY <2>6, <2>7
<1>2. CASE DetachTransport
  <2>1. /\ op.pc = "detach" /\ transport' = NoTransport /\ UNCHANGED <<portVars, closeVars>>
        /\ op'.pc = "close" /\ op'.kind = op.kind /\ op'.tr = transport
    BY <1>0, <1>2 DEF DetachTransport, Ops
  <2>2. HandlesOwned'
    BY <2>1 DEF HandleInv, HandlesOwned, portVars, closeVars
  <2>3. OpHandles'
    BY <1>0, <2>1 DEF HandleInv, OpHandles, Dead, portVars
  <2>4. PortHandles'
    BY <1>0, <2>1 DEF HandleInv, PortHandles, portVars, closeVars
  <2>. QED  BY <2>2, <2>3, <2>4 DEF HandleInv
<1>3. CASE CloseTransport
  <2>1. /\ op.pc = "close" /\ transport = NoTransport /\ UNCHANGED <<transport, pump, closeVars>>
        /\ port' = Closed(op.tr) /\ Goto(op.next)
    BY <1>3 DEF CloseTransport, hostVars, HandleInv, OpHandles
  <2>2. \A u \in TransportIds : /\ port'[u] = IF u = op.tr THEN "closed" ELSE port[u]
                                /\ port'[u] = "open" => port[u] = "open"
    BY <2>1 DEF Closed
  <2>3. op'.pc \notin {"guard", "cancel", "join", "detach", "close", "opened"}
    BY <1>0, <2>1 DEF Goto, Ops, OpShape, TearDown, HandleInv, OpHandles
  <2>4. HandlesOwned'
    BY <2>1, <2>2 DEF HandleInv, HandlesOwned, closeVars
  <2>5. OpHandles'
    BY <2>1, <2>3 DEF OpHandles
  <2>6. PortHandles'
    BY <1>0, <2>1, <2>2, <2>3 DEF HandleInv, PortHandles, closeVars
  <2>. QED  BY <2>4, <2>5, <2>6 DEF HandleInv
<1>. QED  BY <1>1, <1>2, <1>3 DEF TearDownStep

LEMMA HandleConnect ==
    ASSUME TypeOK, OpShape, HandleInv, ConnectStep
    PROVE  HandleInv'
<1>0. /\ op \in Ops /\ port \in [TransportIds -> {"closed", "open", "faulted"}]
      /\ NoTransport \notin TransportIds
  BY ConnectionAssumption DEF TypeOK
<1>1. CASE ConnectReset
  <2>1. /\ UNCHANGED <<transport, portVars, closeVars>> /\ transport = NoTransport
        /\ op.pc = "reset" /\ op'.pc = "open" /\ op'.kind = op.kind
    BY <1>0, <1>1 DEF ConnectReset, Commit, Goto, Ops, HandleInv, OpHandles
  <2>2. HandlesOwned' /\ PortHandles'
    BY <2>1 DEF HandleInv, HandlesOwned, PortHandles, portVars, closeVars
  <2>3. OpHandles'
    BY <2>1 DEF OpHandles
  <2>. QED  BY <2>2, <2>3 DEF HandleInv
<1>2. ASSUME NEW t \in TransportIds, ConnectOpen(t)  PROVE HandleInv'
  <2>1. /\ op.pc = "open" /\ transport = NoTransport /\ UNCHANGED <<transport, closeVars>>
        /\ port' = [port EXCEPT ![t] = "open"] /\ closing = "no"
        /\ op'.pc = "opened" /\ op'.kind = op.kind /\ op'.tr = t
    BY <1>0, <1>2 DEF ConnectOpen, Cancelled, Ops, HandleInv, OpHandles, hostVars
  <2>2. HandlesOwned'
    BY <1>0, <2>1 DEF HandleInv, HandlesOwned, closeVars
  <2>3. OpHandles'
    BY <1>0, <2>1 DEF OpHandles, Dead
  <2>4. PortHandles'
    BY <1>0, <2>1 DEF HandleInv, PortHandles, closeVars
  <2>. QED  BY <2>2, <2>3, <2>4 DEF HandleInv
<1>6. CASE ConnectOpened
  <2>1. /\ op.pc = "opened" /\ transport = NoTransport /\ transport' = op.tr
        /\ op.tr \in TransportIds /\ port[op.tr] # "closed" /\ UNCHANGED <<portVars, closeVars>>
        /\ op'.pc = "probe" /\ op'.kind = op.kind /\ op'.tr = op.tr
    BY <1>0, <1>6, Gone DEF ConnectOpened, HandleInv, OpHandles
  <2>2. HandlesOwned'
    BY <1>0, <2>1 DEF HandleInv, HandlesOwned, portVars, closeVars
  <2>3. OpHandles'
    BY <2>1 DEF OpHandles
  <2>4. PortHandles'
    BY <2>1 DEF HandleInv, PortHandles, portVars, closeVars
  <2>. QED  BY <2>2, <2>3, <2>4 DEF HandleInv
<1>3. CASE ConnectThrows \/ ConnectCancelled \/ ConnectChecked
  <2>1. UNCHANGED <<transport, portVars, closeVars>> /\ op.kind = "connect"
        /\ op.pc \notin {"close", "opened"}
    BY <1>3 DEF ConnectThrows, ConnectCancelled, ConnectChecked, OnlyOp, hostVars, OpShape,
                ConnectPcs
  <2>2. op'.pc \in {"cancel", "list", "attach"} /\ op'.kind = op.kind
    BY <1>0, <1>3 DEF ConnectThrows, ConnectCancelled, ConnectChecked, ThenTearDown, Goto, Ops
  <2>. QED  BY <2>1, <2>2, OpMoves
<1>4. CASE ConnectProbe
  <2>1. UNCHANGED <<transport, portVars, closeVars>> /\ op.pc = "probe" /\ op'.pc = "checked"
    BY <1>0, <1>4 DEF ConnectProbe, hostVars, Ops
  <2>. QED  BY <2>1, OpMoves
<1>5. CASE \/ ConnectNoPort \/ ConnectAttach \/ ConnectNamed \/ ConnectAttached \/ ConnectList
           \/ ConnectQuery \/ ConnectOnline \/ ConnectGivesUp \/ ConnectAborts \/ DisconnectDone
  <2>1. UNCHANGED <<transport, portVars, closeVars>> /\ op.pc \notin {"close", "opened"}
    BY <1>5 DEF ConnectNoPort, ConnectAttach, ConnectNamed, ConnectAttached, ConnectList,
                ConnectQuery,
                ConnectOnline, ConnectGivesUp, ConnectAborts, DisconnectDone, Commit
  <2>2. op'.pc \in {"idle", "named", "attached", "resume", "query", "online", "return"}
    BY <1>0, <1>5, Gone
       DEF ConnectNoPort, ConnectAttach, ConnectNamed, ConnectAttached, ConnectList, ConnectQuery,
           ConnectOnline, ConnectGivesUp, ConnectAborts, DisconnectDone, Commit
  <2>. QED  BY <2>1, <2>2, OpMoves
<1>. QED  BY <1>1, <1>2, <1>3, <1>4, <1>5, <1>6 DEF ConnectStep

\* Where the steps of a switch lead.
LEMMA SwitchMoves ==
    ASSUME SwitchStep
    PROVE  \/ \E pc \in SwitchPcs \cup {"idle", "return"} : Goto(pc)
           \/ op.pc = "check" /\ Goto("cancel")
           \/ op' = [op EXCEPT !.pc = "beginStop", !.old = registry.current, !.tr = transport]
<1>1. CASE SwitchCheck
  BY <1>1 DEF SwitchCheck
<1>2. CASE SwitchCurrent
  BY <1>2 DEF SwitchCurrent
<1>3. CASE SwitchBeginStop \/ SwitchStopped \/ SwitchNotStopped \/ SwitchHandover
  BY <1>3 DEF SwitchBeginStop, SwitchStopped, SwitchNotStopped, SwitchHandover, Commit,
              SwitchPcs
<1>4. CASE SwitchStop \/ SwitchStart \/ SwitchStatus \/ SwitchRecover
  BY <1>4 DEF SwitchStop, SwitchStart, SwitchStatus, SwitchRecover, StopDialogue, SwitchPcs
<1>5. CASE \/ SwitchBackToQtopia \/ SwitchFailed \/ SwitchComplete \/ SwitchToError
           \/ SwitchCancelled
  BY <1>5 DEF SwitchBackToQtopia, SwitchFailed, SwitchComplete, SwitchToError,
              SwitchCancelled, Commit, SwitchPcs
<1>. QED  BY <1>1, <1>2, <1>3, <1>4, <1>5 DEF SwitchStep

LEMMA HandleRest ==
    ASSUME TypeOK, OpShape, HandleInv,
           \/ SwitchStep \/ ProviderCreated \/ ProviderStarts \/ ProviderFailsToStart
           \/ CleanupGuard \/ CleanupDone \/ Return
    PROVE  HandleInv'
<1>0. op \in Ops
  BY DEF TypeOK
<1>1. CASE SwitchStep
  <2>1. UNCHANGED <<transport, portVars, closeVars>> /\ op.kind = "switch"
        /\ op.pc \notin {"close", "opened"}
    BY <1>1 DEF SwitchStep, SwitchCheck, SwitchCurrent, SwitchBeginStop, SwitchStop, SwitchStopped,
         SwitchNotStopped, SwitchHandover, SwitchStart, SwitchStatus, SwitchBackToQtopia,
         SwitchFailed, SwitchComplete, SwitchRecover, SwitchToError, SwitchCancelled,
         StopDialogue, OnlyOp, Commit, hostVars, OpShape, SwitchPcs
  <2>2. /\ op'.pc \in SwitchPcs \cup {"idle", "cancel", "return"}
        /\ op'.pc = "cancel" => op'.kind # "cleanup"
    <3>1. CASE op' = [op EXCEPT !.pc = "beginStop", !.old = registry.current, !.tr = transport]
      BY <1>0, <3>1 DEF Ops, SwitchPcs
    <3>. QED  BY <1>0, <1>1, <2>1, <3>1, SwitchMoves, Gone DEF SwitchPcs
  <2>. QED  BY <2>1, <2>2, OpMoves DEF SwitchPcs
<1>2. CASE ProviderCreated \/ ProviderStarts \/ ProviderFailsToStart
  <2>1. /\ UNCHANGED <<transport, portVars, closeVars>>
        /\ op.pc \in {"resume", "resuming", "provide", "providing"}
    BY <1>2 DEF ProviderCreated, ProviderStarts, ProviderFailsToStart, OnlyOp, hostVars
  <2>2. /\ op'.pc \in {"resuming", "providing", "idle", "complete", "recover", "cancel"}
        /\ op'.pc = "cancel" => op.pc = "resuming" /\ op'.kind = op.kind
    BY <1>0, <1>2, Gone DEF ProviderCreated, ProviderStarts, ProviderFailsToStart
  <2>3. op.pc = "resuming" => op.kind = "connect"
    BY DEF OpShape, ConnectPcs
  <2>. QED  BY <2>1, <2>2, <2>3, OpMoves
<1>3. CASE CleanupGuard
  <2>1. UNCHANGED <<transport, portVars, closeVars>> /\ op.pc = "guard" /\ Dead(op.tr)
    BY <1>3 DEF CleanupGuard, OnlyOp, hostVars, HandleInv, OpHandles
  <2>2. op'.pc = "idle" \/ (op'.pc = "cancel" /\ transport = op.tr)
    BY <1>0, <1>3, Gone DEF CleanupGuard
  <2>. QED  BY <2>1, <2>2, OpMoves
<1>4. CASE CleanupDone \/ Return
  <2>1. UNCHANGED <<transport, portVars, closeVars>> /\ op.pc \in {"cleaned", "return"}
        /\ op'.pc = "idle"
    BY <1>0, <1>4, Gone DEF CleanupDone, Return, OnlyOp, hostVars
  <2>. QED  BY <2>1, OpMoves
<1>. QED  BY <1>1, <1>2, <1>3, <1>4

LEMMA HandleStep ==
    ASSUME TypeOK, OpShape, PumpInv, HandleInv, [Next]_vars
    PROVE  HandleInv'
  BY NextCases, HandleOthers, HandleLock, HandleTearDown, HandleConnect, HandleRest
     DEF OtherOpStep

LEMMA HandleHolds == Spec => [](TypeOK /\ OpShape /\ PumpInv /\ HandleInv)
<1>1. TypeOK /\ OpShape /\ PumpInv /\ HandleInv /\ [Next]_vars => HandleInv'
  BY HandleStep
<1>. QED  BY <1>1, NoLoopHolds, HandleInit, PTL DEF Spec

(***************************************************************************)
(* No serial handle is lost: a transport that is not closed is the current *)
(* one or the one being closed, across faults, reconnects and Dispose      *)
(* (ConnectAsync, CloseTransportAsync, Dispose).                           *)
(***************************************************************************)
THEOREM HandlesKept == Spec => []HandlesOwned
<1>1. HandleInv => HandlesOwned  BY DEF HandleInv
<1>. QED  BY <1>1, HandleHolds, PTL

(***************************************************************************)
(* The cleanup of a dead transport never closes a healthy one that a       *)
(* reconnect opened while the cleanup waited for the lock; only a closing  *)
(* window may (CleanupFaultedTransportAsync).                              *)
(***************************************************************************)
THEOREM CleanupSpares == Spec => CleanupSparesHealthy
<1>. DEFINE Spares == \A t \in TransportIds :
                         port[t] = "open" /\ port'[t] = "closed" =>
                             op.kind # "cleanup" \/ closing = "closing"
<1>1. TypeOK /\ OpShape /\ HandleInv /\ [Next]_vars => Spares
  <2>. SUFFICES ASSUME TypeOK, HandleInv, [Next]_vars, NEW t \in TransportIds,
                       port[t] = "open", port'[t] = "closed"
                PROVE  op.kind # "cleanup" \/ closing = "closing"
    OBVIOUS
  <2>1. CASE Others
    <3>1. ASSUME NEW u \in TransportIds, ReaderFaults(u)  PROVE FALSE
      BY <3>1 DEF ReaderFaults, TypeOK
    <3>2. CASE DisposeCloses
      BY <3>2 DEF DisposeCloses
    <3>. QED
      BY <2>1, <3>1, <3>2 DEF Others, CallStep, Call, FaultNoticed, FaultRecorded,
         LoopExits, LoopFails, LoopGoes, ProviderFaultNoticed, ProviderFaultError,
         ProviderFaultRecorded, OrphanExits, CloseWindow, DisposeStep, DisposeCancelsProvider,
         DisposeJoinsProvider, DisposeDetaches, ApplicationExits, portVars
  <2>2. CASE CloseTransport
    <3>1. op.pc = "close" /\ t = op.tr
      BY <2>2 DEF CloseTransport, Closed
    <3>. QED  BY <3>1 DEF HandleInv, OpHandles, Dead
  <2>3. CASE \E u \in TransportIds : ConnectOpen(u)
    BY <2>3 DEF ConnectOpen, TypeOK
  <2>4. CASE ConnectStep /\ ~\E u \in TransportIds : ConnectOpen(u)
    BY <2>4 DEF ConnectStep, ConnectReset, ConnectNoPort, ConnectOpened, ConnectThrows,
         ConnectCancelled, ConnectProbe, ConnectChecked, ConnectAttach, ConnectNamed,
         ConnectAttached, ConnectList, ConnectQuery,
         ConnectOnline, ConnectGivesUp, ConnectAborts, DisconnectDone, Commit, OnlyOp, portVars
  <2>5. CASE SwitchStep
    BY <2>5 DEF SwitchStep, SwitchCheck, SwitchCurrent, SwitchBeginStop, SwitchStop,
         SwitchStopped, SwitchNotStopped, SwitchHandover, SwitchStart, SwitchStatus,
         SwitchBackToQtopia, SwitchFailed, SwitchComplete, SwitchRecover, SwitchToError,
         SwitchCancelled, StopDialogue, OnlyOp, Commit, portVars
  <2>6. CASE OtherOpStep /\ ~CloseTransport
    BY <2>6 DEF OtherOpStep, Acquire, AcquireCleanup, TearDownStep, CancelProvider, JoinProvider,
         JoinExpires, DetachTransport, Return, ProviderCreated, ProviderStarts,
         ProviderFailsToStart, CleanupGuard, CleanupDone, OnlyOp, portVars
  <2>7. CASE Registering
    BY <2>7, RegisteringSpares DEF portVars
  <2>. QED  BY <2>1, <2>2, <2>3, <2>4, <2>5, <2>6, <2>7, NextCases DEF vars, portVars
<1>. QED  BY <1>1, HandleHolds, PTL DEF CleanupSparesHealthy, Spec

-----------------------------------------------------------------------------
(* Who may report a connection as lost.                                    *)

\* A connect that may still be cancelled has not been reported as Connected.
LossInv ==
    /\ op.pc \in {"open", "opened", "probe", "checked", "list", "query", "abort"} =>
          conn # "Connected"
    /\ op.pc \in TearDown /\ op.next = "abort" => conn # "Connected"
    /\ op.pc = "offline" => op.kind = "disconnect"

LEMMA LossInit == Init => LossInv
  BY DEF Init, LossInv, NoOp

\* Without the lock the connection only ever gets worse.
LEMMA OthersOnConn ==
    ASSUME Others
    PROVE  conn' \in {conn, "Disconnected", "Error"}
  BY DEF Others, CallStep, Call, ReaderFaults, FaultNoticed, FaultRecorded,
         LoopExits, LoopFails, LoopGoes, ProviderFaultNoticed, ProviderFaultError,
         ProviderFaultRecorded, OrphanExits, CloseWindow, DisposeStep,
         DisposeCancelsProvider, DisposeJoinsProvider, DisposeDetaches, DisposeCloses,
         ApplicationExits, hostVars

LEMMA LossOtherOp ==
    ASSUME TypeOK, OpShape, LossInv, OtherOpStep
    PROVE  LossInv'
<1>0. op \in Ops /\ queue \subseteq Calls /\ UNCHANGED conn
  BY OtherOpStepsSpareHost DEF TypeOK
<1>1. ASSUME NEW c \in queue, Acquire(c)  PROVE LossInv'
  <2>1. /\ op'.pc \in {"check", "cancel"}
        /\ op'.next \in {"reset", "offline", "current"}
    BY <1>0, <1>1 DEF Acquire, NoOp, Entry, Calls
  <2>. QED  BY <2>1 DEF LossInv
<1>2. ASSUME NEW t \in TransportIds, AcquireCleanup(t)  PROVE LossInv'
  BY <1>2 DEF AcquireCleanup, NoOp, LossInv, TearDown
<1>3. CASE CancelProvider \/ JoinProvider \/ JoinExpires
  <2>1. op.pc \in TearDown /\ (Goto("join") \/ Goto(AfterJoin))
    BY <1>3 DEF CancelProvider, JoinProvider, JoinExpires, TearDown
  <2>2. AfterJoin \in {"detach", "current"}
    BY <2>1 DEF AfterJoin, OpShape, TearDown
  <2>3. op'.pc \in {"join", "detach", "current"} /\ op'.next = op.next
    BY <1>0, <2>1, <2>2 DEF Goto, Ops
  <2>. QED  BY <1>0, <2>1, <2>3 DEF LossInv, TearDown
<1>4. CASE DetachTransport
  <2>1. op.pc \in TearDown /\ op'.pc = "close" /\ op'.next = op.next
    BY <1>0, <1>4 DEF DetachTransport, TearDown, Ops
  <2>. QED  BY <1>0, <2>1 DEF LossInv, TearDown
<1>5. CASE CloseTransport
  <2>1. op.pc \in TearDown /\ Goto(op.next)
    BY <1>5 DEF CloseTransport, TearDown
  <2>2. /\ op.next \in {"reset", "giveUp", "abort", "current", "offline", "cleaned"}
        /\ op.next = "offline" => op.kind = "disconnect"
    BY <2>1 DEF OpShape
  <2>3. op'.pc = op.next /\ op'.kind = op.kind
    BY <1>0, <2>1, <2>2 DEF Goto, Ops
  <2>. QED  BY <1>0, <2>1, <2>2, <2>3 DEF LossInv, TearDown
<1>6. CASE ProviderCreated \/ ProviderStarts \/ ProviderFailsToStart
  <2>1. \/ op'.pc \in {"resuming", "providing", "idle", "complete", "recover"}
        \/ op'.pc = "cancel" /\ op'.next = "giveUp"
    BY <1>0, <1>6, Gone DEF ProviderCreated, ProviderStarts, ProviderFailsToStart
  <2>. QED  BY <2>1 DEF LossInv, TearDown
<1>7. CASE CleanupGuard \/ CleanupDone \/ Return
  <2>1. op'.pc = "idle" \/ (op'.pc = "cancel" /\ op'.next = "cleaned")
    BY <1>0, <1>7, Gone DEF CleanupGuard, CleanupDone, Return
  <2>. QED  BY <2>1 DEF LossInv, TearDown
<1>. QED  BY <1>1, <1>2, <1>3, <1>4, <1>5, <1>6, <1>7 DEF OtherOpStep, TearDownStep

LEMMA LossConnect ==
    ASSUME TypeOK, OpShape, LossInv, ConnectStep
    PROVE  LossInv'
<1>0. op \in Ops
  BY DEF TypeOK
<1>1. CASE ConnectReset
  <2>1. conn' = "Connecting" /\ op'.pc = "open"
    BY <1>0, <1>1, Gone DEF ConnectReset, Commit
  <2>. QED  BY <2>1 DEF LossInv
<1>2. CASE ConnectOpened \/ \E t \in TransportIds : ConnectOpen(t)
  <2>1. UNCHANGED conn /\ op.pc \in {"open", "opened"} /\ op'.pc \in {"opened", "probe"}
    BY <1>0, <1>2, Gone DEF ConnectOpen, ConnectOpened, Ops, hostVars
  <2>. QED  BY <2>1 DEF LossInv, TearDown
<1>3. CASE ConnectThrows \/ ConnectCancelled
  <2>1. UNCHANGED conn /\ op'.pc = "cancel"
        /\ (op'.next = "giveUp"
            \/ (op'.next = "abort" /\ op.pc \in {"open", "probe", "list", "query"}))
    BY <1>0, <1>3, Gone DEF ConnectThrows, ConnectCancelled, OnlyOp, hostVars
  <2>. QED  BY <2>1 DEF LossInv
<1>4. CASE ConnectProbe
  <2>1. UNCHANGED conn /\ op.pc = "probe" /\ op'.pc = "checked"
    BY <1>0, <1>4 DEF ConnectProbe, hostVars, Ops
  <2>. QED  BY <2>1 DEF LossInv, TearDown
<1>5. CASE ConnectChecked
  <2>1. UNCHANGED conn /\ op.pc = "checked"
        /\ (op'.pc \in {"list", "attach"} \/ (op'.pc = "cancel" /\ op'.next = "giveUp"))
    BY <1>0, <1>5, Gone DEF ConnectChecked, OnlyOp, hostVars
  <2>. QED  BY <2>1 DEF LossInv, TearDown
<1>6. CASE ConnectList
  <2>1. UNCHANGED conn /\ op.pc = "list" /\ op'.pc = "query"
    BY <1>0, <1>6, Gone DEF ConnectList, Commit
  <2>. QED  BY <2>1 DEF LossInv, TearDown
<1>7. CASE \/ ConnectNoPort \/ ConnectAttach \/ ConnectNamed \/ ConnectAttached \/ ConnectQuery
           \/ ConnectOnline \/ ConnectGivesUp \/ ConnectAborts \/ DisconnectDone
  <2>1. op'.pc \in {"idle", "named", "attached", "resume", "online", "return"}
    BY <1>0, <1>7, Gone DEF ConnectNoPort, ConnectAttach, ConnectNamed, ConnectAttached,
         ConnectQuery,
         ConnectOnline, ConnectGivesUp, ConnectAborts, DisconnectDone, Commit
  <2>. QED  BY <2>1 DEF LossInv, TearDown
<1>. QED  BY <1>1, <1>2, <1>3, <1>4, <1>5, <1>6, <1>7 DEF ConnectStep

LEMMA LossStep ==
    ASSUME TypeOK, OpShape, LossInv, [Next]_vars
    PROVE  LossInv'
<1>1. CASE Others
  <2>1. UNCHANGED op /\ (conn' = "Connected" => conn = "Connected")
    BY <1>1, OthersSpareOp, OthersOnConn
  <2>. QED  BY <2>1 DEF LossInv
<1>2. CASE SwitchStep
  <2>1. op \in Ops
    BY DEF TypeOK
  <2>2. \/ op'.pc \in SwitchPcs \cup {"idle", "return"}
        \/ op'.pc = "cancel" /\ op'.next = "current"
    <3>1. CASE op.pc = "check" /\ Goto("cancel")
      BY <2>1, <3>1 DEF OpShape, Goto, Ops
    <3>2. CASE op' = [op EXCEPT !.pc = "beginStop", !.old = registry.current, !.tr = transport]
      BY <2>1, <3>2 DEF Ops, SwitchPcs
    <3>. QED  BY <1>2, <2>1, <3>1, <3>2, SwitchMoves, Gone
  <2>. QED  BY <2>2 DEF LossInv, SwitchPcs, TearDown
<1>3. CASE UNCHANGED vars
  BY <1>3 DEF vars, hostVars, lockVars, LossInv
<1>4. CASE Registering
  BY <1>4, RegisteringSpares DEF lockVars, LossInv
<1>. QED  BY <1>1, <1>2, <1>3, <1>4, NextCases, LossConnect, LossOtherOp

(***************************************************************************)
(* A working connection is never reported lost: Connected turns into       *)
(* Disconnected only through a disconnect or when the current transport's  *)
(* reader died, never because of a fault of an older transport             *)
(* (OnTransportFault, ConnectAsync).                                       *)
(***************************************************************************)
THEOREM LossCaused == Spec => LossHasCause
<1>. DEFINE Caused == conn = "Connected" /\ conn' = "Disconnected" =>
                         \/ op.kind = "disconnect"
                         \/ transport # NoTransport /\ port[transport] = "faulted"
<1>1. TypeOK /\ OpShape /\ PumpInv /\ HandleInv /\ LossInv /\ [Next]_vars => Caused
  <2>. SUFFICES ASSUME TypeOK, PumpInv, HandleInv, LossInv, [Next]_vars,
                       conn = "Connected", conn' = "Disconnected"
                PROVE  \/ op.kind = "disconnect"
                       \/ transport # NoTransport /\ port[transport] = "faulted"
    OBVIOUS
  <2>1. ASSUME NEW t \in TransportIds, FaultNoticed(t)
        PROVE  transport # NoTransport /\ port[transport] = "faulted"
    <3>1. pump[t] = "raised" /\ transport = t
      BY <2>1 DEF FaultNoticed
    <3>2. port[t] \notin {"open", "closed"}
      BY <3>1 DEF PumpInv, HandleInv, PortHandles
    <3>. QED  BY <3>1, <3>2, ConnectionAssumption DEF TypeOK
  <2>2. CASE Others
    BY <2>1, <2>2 DEF Others, CallStep, Call, ReaderFaults, FaultRecorded,
         LoopExits, LoopFails, LoopGoes, ProviderFaultNoticed, ProviderFaultError,
         ProviderFaultRecorded, OrphanExits, CloseWindow, DisposeStep,
         DisposeCancelsProvider, DisposeJoinsProvider, DisposeDetaches, DisposeCloses,
         ApplicationExits, hostVars
  <2>3. CASE ConnectStep
    BY <2>3 DEF ConnectStep, ConnectReset, ConnectNoPort, ConnectOpen, ConnectOpened,
         ConnectThrows, ConnectCancelled, ConnectProbe, ConnectChecked, ConnectAttach, ConnectNamed,
         ConnectAttached,
         ConnectList, ConnectQuery, ConnectOnline, ConnectGivesUp, ConnectAborts, DisconnectDone,
         Commit, OnlyOp, hostVars, LossInv
  <2>4. CASE SwitchStep
    BY <2>4 DEF SwitchStep, SwitchCheck, SwitchCurrent, SwitchBeginStop, SwitchStop,
         SwitchStopped, SwitchNotStopped, SwitchHandover, SwitchStart, SwitchStatus,
         SwitchBackToQtopia, SwitchFailed, SwitchComplete, SwitchRecover, SwitchToError,
         SwitchCancelled, StopDialogue, OnlyOp, Commit, hostVars
  <2>. QED
    BY <2>2, <2>3, <2>4, NextCases, OtherOpStepsSpareHost, RegisteringSpares DEF vars, hostVars
<1>. QED  BY <1>1, HandleHolds, LossInit, LossStep, PTL DEF LossHasCause, Spec
=============================================================================
