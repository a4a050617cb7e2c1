---------------------------- MODULE AppRegistry ----------------------------
(***************************************************************************)
(* The host's registry of applications (AppRegistry.cs): which of them     *)
(* can be launched, the lifecycle state each one is shown in, and which    *)
(* one the host believes owns the board.  The class has no lock of its own *)
(* and SerialDeviceConnection.tla calls it from several threads, so a      *)
(* method is not one step: a thread that is inside one stands at one of    *)
(* its assignments, and every step makes one.  (A condition and the one    *)
(* assignment it guards, as in SetAvailable, are a single step, and every  *)
(* loop visits the entries in the same order.)  Error texts are left out.  *)
(***************************************************************************)
CONSTANTS
    BoardApps,   \* applications appctl can start (codex-monitor, runboard)
    Qtopia,      \* the vendor desktop, the "application" of an idle board
    NoApp        \* no application / a null id

ASSUME AppsAssumption ==
    /\ Qtopia \notin BoardApps
    /\ NoApp \notin BoardApps \cup {Qtopia}

VARIABLES
    registry,    \* the entries and currentAppId
    calls        \* the registry method every thread is inside of

Apps == BoardApps \cup {Qtopia}

AppState == {"Unknown", "Available", "Unavailable", "Starting", "Running",
             "Stopping", "Failed"}

Registry == [state     : [Apps -> AppState],
             available : [Apps -> BOOLEAN],
             current   : Apps \cup {NoApp}]

Methods == {"none", "SetAvailable", "SetCurrent", "SetUnknown", "BeginStart",
            "CompleteStart", "BeginStop", "CompleteStop", "Fail"}

\* offer and settle: the two assignments of SetAvailable; each: the body of
\* a foreach; run: target.State = Running; own: entry.State of the argument;
\* name, null: currentAppId = appId, = null; test: currentAppId == appId?
Statements == {"done", "offer", "settle", "each", "run", "own", "name", "test", "null"}

\* left: the entries a loop has still to visit.  offered: what SetAvailable
\* is told, for the calls of one ApplyApplicationAvailability together.
RegistryCalls == [method : Methods, at : Statements, app : Apps \cup {NoApp},
                  left : SUBSET Apps, offered : SUBSET Apps]

NoCall == [method |-> "none", at |-> "done", app |-> NoApp, left |-> {}, offered |-> {}]

-----------------------------------------------------------------------------
\* What an entry falls back to when it neither runs nor moves.
RestState(r, a) == IF r.available[a] THEN "Available" ELSE "Unavailable"

\* The constructor: an application is offered iff its descriptor says so.
NewRegistry(offered) ==
    [state     |-> [a \in Apps |-> IF a \in offered THEN "Available" ELSE "Unavailable"],
     available |-> [a \in Apps |-> a \in offered],
     current   |-> NoApp]

\* AppCardSnapshot.CanLaunch.  Every adapter of the code answers CanStart.
CanLaunch(r, a) == r.state[a] \in {"Available", "Failed"}

\* BeginStart and BeginStop throw when their condition does not hold.
CanBeginStart(r, a) == r.available[a] /\ r.state[a] \in {"Available", "Failed"}
CanBeginStop(r, a)  == r.state[a] = "Running"

-----------------------------------------------------------------------------
(* Where each method begins.                                               *)

On(method, a) == [NoCall EXCEPT !.method = method, !.at = "own", !.app = a]

SetAvailable(S) == [NoCall EXCEPT !.method = "SetAvailable", !.at = "offer",
                                  !.left = Apps, !.offered = S]
SetUnknown == [NoCall EXCEPT !.method = "SetUnknown", !.at = "null", !.left = Apps]
SetCurrent(a) == [On("SetCurrent", a) EXCEPT !.at = "each", !.left = Apps]
CompleteStart(a) == [On("CompleteStart", a) EXCEPT !.at = "each", !.left = Apps \ {a}]
BeginStart(a) == On("BeginStart", a)
BeginStop(a) == On("BeginStop", a)
CompleteStop(a) == On("CompleteStop", a)
Fail(a) == On("Fail", a)

-----------------------------------------------------------------------------
(* The assignments.  Thread th makes one and goes on to the next.          *)

Assign(th, r, k) == registry' = r /\ calls' = [calls EXCEPT ![th] = k]
AssignState(th, a, s, k) == Assign(th, [registry EXCEPT !.state[a] = s], k)

\* The entry a loop visits next.
NextEntry(left) == CHOOSE a \in left : TRUE

\* A running or moving application keeps its state; the others follow.
Offer(th) ==
    LET k == calls[th] IN
    \/ k.at = "offer" /\ \E a \in k.left : a = NextEntry(k.left) /\
          Assign(th, [registry EXCEPT !.available[a] = a \in k.offered],
                 [k EXCEPT !.at = "settle", !.app = a, !.left = @ \ {a}])
    \/ k.at = "settle" /\ AssignState(th, k.app,
          IF registry.state[k.app] \in {"Running", "Starting", "Stopping"}
          THEN registry.state[k.app] ELSE RestState(registry, k.app),
          IF k.left = {} THEN NoCall ELSE [k EXCEPT !.at = "offer", !.app = NoApp])

EachState(method, a) ==
    CASE method = "SetUnknown" -> IF registry.available[a] THEN "Unknown" ELSE "Unavailable"
      [] method = "CompleteStart" /\ registry.state[a] # "Running" -> registry.state[a]
      [] OTHER -> RestState(registry, a)

AfterEach(k) == IF k.method = "SetUnknown" THEN NoCall ELSE [k EXCEPT !.at = "run", !.left = {}]

Visit(th) ==
    LET k == calls[th] IN
    k.at = "each" /\ \E a \in k.left : a = NextEntry(k.left) /\
        AssignState(th, a, EachState(k.method, a),
                    IF k.left = {a} THEN AfterEach(k) ELSE [k EXCEPT !.left = @ \ {a}])

OwnState(k) ==
    CASE k.method = "BeginStart" -> "Starting"
      [] k.method = "BeginStop"  -> "Stopping"
      [] k.method = "Fail"       -> "Failed"
      [] OTHER                   -> RestState(registry, k.app)

AssignOwn(th) ==
    LET k == calls[th] IN
    \/ k.at = "own" /\ AssignState(th, k.app, OwnState(k),
          IF k.method \in {"CompleteStop", "Fail"} THEN [k EXCEPT !.at = "test"] ELSE NoCall)
    \/ k.at = "run" /\ AssignState(th, k.app, "Running", [k EXCEPT !.at = "name"])

\* Mutant: CompleteStop and Fail clear the current application whoever it is.
AssignCurrentUntested(th) ==
    LET k == calls[th] IN
    \/ k.at = "name" /\ Assign(th, [registry EXCEPT !.current = k.app], NoCall)
    \/ k.at = "test" /\ Assign(th, registry, [k EXCEPT !.at = "null"])
    \/ k.at = "null" /\ Assign(th, [registry EXCEPT !.current = NoApp],
          IF k.method = "SetUnknown" THEN [k EXCEPT !.at = "each"] ELSE NoCall)

AssignCurrent(th) ==
    LET k == calls[th] IN
    \/ k.at = "name" /\ Assign(th, [registry EXCEPT !.current = k.app], NoCall)
    \/ k.at = "test" /\ Assign(th, registry,
          IF registry.current = k.app THEN [k EXCEPT !.at = "null"] ELSE NoCall)
    \/ k.at = "null" /\ Assign(th, [registry EXCEPT !.current = NoApp],
          IF k.method = "SetUnknown" THEN [k EXCEPT !.at = "each"] ELSE NoCall)

\* The next statement of the method thread th is inside of.
RegistryStep(th) == Offer(th) \/ Visit(th) \/ AssignOwn(th) \/ AssignCurrent(th)

-----------------------------------------------------------------------------
(* What the cards show.                                                    *)

OneRunning ==
    \A a, b \in Apps : registry.state[a] = "Running" /\ registry.state[b] = "Running" => a = b

\* Outside the methods a Running card is the current application.  (The
\* converse does not hold: SetUnknown on one thread while another names an
\* application leaves that one current and Unknown.)
RunningNamed ==
    \A a \in Apps : registry.state[a] = "Running" =>
        registry.current = a \/ \E th \in DOMAIN calls : calls[th] # NoCall
=============================================================================
