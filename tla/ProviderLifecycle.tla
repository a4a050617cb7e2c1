------------------------- MODULE ProviderLifecycle -------------------------
(***************************************************************************)
(* What a provider session promises to the connection that owns it: when   *)
(* its loop may run, fail and end, when its Dispose may return, and when a *)
(* frame may be written into the serial line.  These are the steps that    *)
(* SerialDeviceConnection assumes of a session.                            *)
(***************************************************************************)
EXTENDS Naturals

VARIABLES
    frameFirst, \* does Start write a frame, and report failures of the loop?
    phase,      \* new, starting, broken (Start threw), running, failing, exited
    cancelled,  \* has Dispose been called?
    closed,     \* has Dispose returned?
    expired,    \* did it give up waiting for the loop?
    gone,       \* has the application printed its stop marker?
    frames      \* frames written so far, modulo 2

vars == <<frameFirst, phase, cancelled, closed, expired, gone, frames>>

Live == phase \in {"running", "failing"}

Init ==
    /\ frameFirst \in BOOLEAN
    /\ phase = "new" /\ frames = 0
    /\ cancelled = FALSE /\ closed = FALSE /\ expired = FALSE
    /\ gone \in BOOLEAN

Becomes(p) == phase' = p /\ UNCHANGED <<frameFirst, cancelled, closed, expired, gone, frames>>

Start == phase = "new" /\ Becomes(IF frameFirst THEN "starting" ELSE "running")
Started == phase = "starting" /\ frames # 0 /\ ~cancelled /\ Becomes("running")
StartThrows == phase \in {"new", "starting"} /\ frameFirst /\ Becomes("broken")

\* The loop ends when told to, or when the application has left.
Exit == phase = "running" /\ (cancelled \/ gone) /\ Becomes("exited")

\* A failure is reported only for a session that is still wanted.
Fail == phase = "running" /\ frameFirst /\ ~cancelled /\ Becomes("failing")
Report == phase = "failing" /\ Becomes("exited")

\* Frames are written by Start, once, and by the loop: after Dispose has
\* returned only if it gave up waiting, or came during Start.
Write ==
    /\ phase \in {"starting", "running"} /\ (phase = "starting" => frames = 0)
    /\ frames' = (frames + 1) % 2
    /\ UNCHANGED <<frameFirst, phase, cancelled, closed, expired, gone>>

Cancel ==
    /\ phase # "new" /\ ~cancelled /\ cancelled' = TRUE
    /\ UNCHANGED <<frameFirst, phase, closed, expired, gone, frames>>

\* Only a session that cannot interrupt its request may give up.
Close ==
    /\ cancelled /\ ~closed /\ closed' = TRUE
    /\ \/ ~Live /\ UNCHANGED expired
       \/ ~frameFirst /\ expired' = TRUE
    /\ UNCHANGED <<frameFirst, phase, cancelled, gone, frames>>

Leave ==
    /\ gone' = TRUE
    /\ UNCHANGED <<frameFirst, phase, cancelled, closed, expired, frames>>

Next == Start \/ Started \/ StartThrows \/ Exit \/ Fail \/ Report \/ Write \/ Cancel \/ Close \/ Leave

Spec == Init /\ [][Next]_vars
=============================================================================
