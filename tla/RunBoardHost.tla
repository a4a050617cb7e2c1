------------------------------ MODULE RunBoardHost ------------------------------
(*****************************************************************************)
(* The host's side of the runboard feed: one tracker of freshness for each    *)
(* provider (freshness.py), the cadence that decides which provider a frame   *)
(* asks (aggregator.py), and what the frame says (board_protocol.py).         *)
(*                                                                            *)
(* Time is counted from now: "due" until a provider is asked again, "claimed" *)
(* since its last success by the wall clock, and "age" since then in truth.   *)
(* A provider is not in their domains before it is first asked, or succeeds.  *)
(* The wall clock may be set back once, by Back.                              *)
(*****************************************************************************)
EXTENDS Integers, FiniteSetsExt

CONSTANTS Every,         \* the interval of each provider
          OfflineAfter,  \* so many failures in a row make a provider offline
          Back,          \* how far the clock is set back
          Readings,      \* what a server probe can return, as the experiments
          AgeMax         \* bound: ages are counted up to here

Providers == {"server", "codex"}

ASSUME HostAssumption == /\ Every \in [Providers -> Nat \ {0}]
                         /\ OfflineAfter \in Nat /\ Back \in Nat
                         /\ AgeMax \in Nat /\ AgeMax > Every["server"] + Back

VARIABLES state,     \* FreshnessTracker.state
          failures,  \* FreshnessTracker.consecutive_failures
          due, claimed, age,
          kept,      \* _last_experiments, with the rest of the server's snapshot
          stepped    \* the clock has been set back

hostVars == <<state, failures, due, claimed, age, kept, stepped>>

Unasked == [p \in Providers |-> "offline"]
Zeros == [p \in Providers |-> 0]

HostInit ==
    /\ state = Unasked /\ failures = Zeros /\ due = <<>> /\ claimed = <<>> /\ age = <<>>
    /\ kept = "none" /\ stepped = FALSE

(* The worker's process is killed, and what it knew is gone.                  *)
HostGone ==
    /\ state' = Unasked /\ failures' = Zeros /\ due' = <<>> /\ claimed' = <<>> /\ age' = <<>>
    /\ kept' = "none" /\ UNCHANGED stepped

-----------------------------------------------------------------------------
(* The world: time and the clock.                                           *)

Capped(n) == IF n > AgeMax THEN AgeMax ELSE n

(* Of a due time far in the past only the remainder matters (see Scheduled):  *)
(* setting the clock back does not make it one in the future.                 *)
Earlier(p, n) == IF n <= -(Every[p] + Back) THEN n + Every[p] ELSE n

Pass(time) ==
    /\ due' = [p \in DOMAIN due |-> Earlier(p, due[p] - time)]
    /\ claimed' = [p \in DOMAIN claimed |-> Capped(claimed[p] + time)]
    /\ age' = [p \in DOMAIN age |-> Capped(age[p] + time)]
    /\ UNCHANGED <<state, failures, kept, stepped>>

StepBack ==
    /\ ~stepped /\ stepped' = TRUE
    /\ due' = [p \in DOMAIN due |-> due[p] + Back]
    /\ claimed' = [p \in DOMAIN claimed |-> claimed[p] - Back]
    /\ UNCHANGED <<state, failures, age, kept>>

-----------------------------------------------------------------------------
(* The tracker and the cadence.                                              *)

\* Mutant: a provider is asked only after its time has passed.
DueLate(p) == p \notin DOMAIN due \/ due[p] < 0
Due(p) == p \notin DOMAIN due \/ due[p] <= 0

(* The first time an interval from now, later the next multiple of it.        *)
Scheduled(p) == IF p \notin DOMAIN due \/ due[p] % Every[p] = 0 THEN Every[p]
                ELSE due[p] % Every[p]

\* Mutant: a provider that has answered once never counts as offline.
FailedStale(p, terminal) ==
    IF terminal THEN "error" ELSE IF p \notin DOMAIN claimed THEN "offline" ELSE "stale"
Failed(p, terminal) ==
    IF terminal THEN "error"
    ELSE IF p \notin DOMAIN claimed \/ failures[p] + 1 >= OfflineAfter THEN "offline"
    ELSE "stale"

Merged(f, S, value(_)) ==
    [p \in S \cup DOMAIN f |-> IF p \in S THEN value(p) ELSE f[p]]

(* collect: the providers that are due are asked, each with its outcome; a    *)
(* success replaces what was kept, a failure keeps it.  All of it, and the    *)
(* frame made of it, is of the moment collect begins: "now" is read once, so  *)
(* the data of a success are no older than its stamp, and the time a provider *)
(* takes to answer belongs to the pause that follows.                         *)
Collect(outcome, reading) ==
    LET asked == {p \in Providers : Due(p)}
        good == {p \in asked : outcome[p] = "ok"}
        Next(p) == IF outcome[p] = "ok" THEN "fresh" ELSE Failed(p, outcome[p] = "error")
        Count(p) == IF outcome[p] = "ok" THEN 0
                    ELSE IF failures[p] < OfflineAfter THEN failures[p] + 1 ELSE failures[p]
        Now(p) == 0
    IN  /\ due' = Merged(due, asked, Scheduled)
        /\ state' = Merged(state, asked, Next)
        /\ failures' = Merged(failures, asked, Count)
        /\ claimed' = Merged(claimed, good, Now)
        /\ age' = Merged(age, good, Now)
        /\ kept' = IF "server" \in good THEN reading ELSE kept
        /\ UNCHANGED stepped

(* A failed server probe is never terminal; the quota provider's may be.      *)
Outcomes == {o \in [Providers -> {"ok", "failed", "error"}] : o["server"] # "error"}

ServerAnswers == /\ "server" \in DOMAIN claimed' /\ claimed'["server"] = 0 /\ Due("server")
                 /\ due' # due /\ UNCHANGED stepped

-----------------------------------------------------------------------------
(* What encode_state makes of the trackers.                                  *)

Zero(n) == IF n < 0 THEN 0 ELSE n

server_status == IF "server" \notin DOMAIN claimed \/ state["server"] = "offline"
                 THEN "offline" ELSE "online"

(* The age of the server's data while it is offline, else the older one.      *)
updated_age_seconds ==
    LET ages == {Zero(claimed[p]) : p \in DOMAIN claimed}
    IN  IF server_status = "offline"
        THEN IF "server" \in DOMAIN claimed THEN Zero(claimed["server"]) ELSE -1
        ELSE Max(ages)

Frame == [experiments |-> kept, status |-> server_status, fresh |-> state,
          updated |-> updated_age_seconds]
=============================================================================
