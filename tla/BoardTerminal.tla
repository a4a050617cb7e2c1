---------------------------- MODULE BoardTerminal ----------------------------
(***************************************************************************)
(* Who reads what the host types: the shell of the serial console, appctl  *)
(* before the application it starts speaks, that application, or appctl    *)
(* after it.  These are the only changes of hand; BoardDialogue adds what  *)
(* the host knows of them, and Appctl and BoardController implement them.  *)
(***************************************************************************)
VARIABLE owner  \* shell, launch, app, exit

\* A host may come to a board whose application runs already.
InitTerminal == owner \in {"shell", "app"}

Hands(from, to) == owner = from /\ owner' = to

Launch  == Hands("shell", "launch")
Refuse  == Hands("launch", "shell")  \* not registered, or a write failed
Ready   == Hands("launch", "app")    \* APPREADY
Quit    == Hands("app", "exit")
Fail    == Hands("launch", "exit")   \* a late failure, which cleans up, too
Restore == Hands("exit", "shell")    \* cleanup is over; APPSTOP after an application

Return == Refuse \/ Ready \/ Quit \/ Fail \/ Restore

Terminal == InitTerminal /\ [][Launch \/ Return]_owner
=============================================================================
