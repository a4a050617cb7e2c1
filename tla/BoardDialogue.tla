---------------------------- MODULE BoardDialogue ----------------------------
(***************************************************************************)
(* What the board controller promises to its callers, without lines,       *)
(* markers, buffers or deadlines: a method runs, may command one start, of *)
(* a board it knows to be idle, and returns true only what is so.  Between *)
(* two methods the board goes its own way, but only a command starts an    *)
(* application.                                                            *)
(***************************************************************************)
EXTENDS BoardTerminal

CONSTANT Methods  \* the methods callers use

VARIABLES
    order,   \* is a start command on its way to the shell?
    ran,     \* has an application owned the terminal since the call began?
    method,  \* the method that runs
    answer,  \* what the last one returned
    belief,  \* the controller's mode
    sure     \* did the caller confirm the mode it gave?

known == <<method, answer, belief, sure>>
vars == <<owner, order, ran, known>>

Beliefs == {"Unknown", "Console", "Application"}
NoAnswer == [name |-> "none", ok |-> FALSE]

\* No application owns the board, and none will unless a method commands it.
Idle == owner = "shell" /\ ~order

Init ==
    /\ InitTerminal /\ order = FALSE /\ ran = (owner = "app")
    /\ method = "none" /\ answer = NoAnswer
    /\ belief \in Beliefs /\ sure = (belief # "Unknown")

-----------------------------------------------------------------------------
NewController ==
    /\ method = "none" /\ answer' = NoAnswer
    /\ belief' \in Beliefs /\ sure' = (belief' # "Unknown")
    /\ UNCHANGED <<owner, order, ran, method>>

Call(name) ==
    /\ method = "none" /\ method' = name /\ answer' = NoAnswer
    /\ ran' = (owner = "app")
    /\ UNCHANGED <<owner, order, belief, sure>>

\* What a method sees makes up its mind; nothing makes it forget.
Learn ==
    /\ method # "none" /\ belief' \in {"Console", "Application"}
    /\ UNCHANGED <<owner, order, ran, method, answer, sure>>

Command ==
    /\ method = "start" /\ Idle
    /\ order' = TRUE /\ belief' = "Console"
    /\ UNCHANGED <<owner, ran, method, answer, sure>>

\* What an answer of true says of the board.  Start and stop may also trust a
\* mode that nobody confirmed.
True(name) ==
    CASE name = "start" -> sure => ran
      [] name = "stop"  -> sure => Idle
      [] OTHER          -> Idle

Confirms(name) == belief' = IF name = "start" THEN "Application" ELSE "Console"

Answer(ok) ==
    /\ method # "none" /\ method' = "none"
    /\ answer' = [name |-> method, ok |-> ok]
    /\ IF ok THEN True(method) /\ Confirms(method) ELSE belief' \in {belief, "Application"}
    /\ UNCHANGED <<owner, order, ran, sure>>

\* The board's own steps.
Obey == order /\ Launch /\ order' = FALSE /\ UNCHANGED <<ran, known>>

Move ==
    /\ Return /\ ran' = (ran \/ owner' = "app")
    /\ UNCHANGED <<order, known>>

Next ==
    \/ NewController \/ Learn \/ Command \/ Obey \/ Move
    \/ (\E name \in Methods : Call(name)) \/ (\E ok \in BOOLEAN : Answer(ok))

Spec == Init /\ [][Next]_vars
=============================================================================
