--------------------------- MODULE CodexMonitorProofs ---------------------------
(*****************************************************************************)
(* What the codex-monitor program does for every set of quotas, every size    *)
(* of line, read and link, and any number of faults: it gives back what it    *)
(* took, treats each line as the host sent it, shows what its state says and  *)
(* asks often enough before it calls a quota old.                             *)
(*****************************************************************************)
EXTENDS CodexMonitor, TLAPS

-----------------------------------------------------------------------------
(* What the program holds.                                                   *)

(* Before the display is open the program holds at most its input, before     *)
(* the input is open nothing.                                                 *)
ResInv == /\ resources \subseteq Input \cup Display
          /\ pc = "start" => resources = {}
          /\ pc \in {"settings", "port flags", "display"} => resources \subseteq Input
          /\ TerminalRestored

LEMMA ResInit == Init => ResInv
BY DEF Init, ResInv, TerminalRestored

LEMMA ResStart ==
    ASSUME ResInv, OpenInput \/ SetRaw \/ SetPortFlags \/ OpenDisplay \/ MapsNothing \/ Start
    PROVE  ResInv'
<1>1. CASE OpenInput
  BY <1>1 DEF OpenInput, ResInv, TerminalRestored, Exit, Input, Display
<1>2. CASE SetRaw
  BY <1>2 DEF SetRaw, ResInv, TerminalRestored, Exit, Input, Display
<1>3. CASE SetPortFlags
  BY <1>3 DEF SetPortFlags, ResInv, TerminalRestored, Exit, Input, Display
<1>4. CASE OpenDisplay
  BY <1>4 DEF OpenDisplay, ResInv, TerminalRestored, Exit, Input, Display
<1>5. CASE MapsNothing
  BY <1>5 DEF MapsNothing, ResInv, TerminalRestored, Input, Display
<1>6. CASE Start
  BY <1>6 DEF Start, ResInv, TerminalRestored, Exit, Input, Display
<1> QED
  BY <1>1, <1>2, <1>3, <1>4, <1>5, <1>6

(* The loop changes what is held only where the quit command ends it.         *)
LEMMA ResLoop ==
    ASSUME ResInv, Read \/ Keep \/ TakeQuit \/ TakeQuota \/ DropLine \/ Ask \/ Show \/ Pause
    PROVE  ResInv'
<1>1. CASE TakeQuit
  BY <1>1 DEF TakeQuit, ResInv, TerminalRestored, Exit, Input, Display
<1>2. CASE Read
  BY <1>2 DEF Read, ResInv, TerminalRestored, board
<1>3. CASE Keep \/ TakeQuota \/ DropLine
  BY <1>3 DEF Keep, TakeQuota, DropLine, NextByte, ResInv, TerminalRestored
<1>4. CASE Ask \/ Show
  BY <1>4 DEF Ask, Show, ResInv, TerminalRestored
<1>5. CASE Pause
  BY <1>5 DEF Pause, board, ResInv, TerminalRestored
<1> QED
  BY <1>1, <1>2, <1>3, <1>4, <1>5

(* The host touches nothing of the program.                                   *)
LEMMA HostLeaves ==
    ASSUME Host
    PROVE  UNCHANGED <<pc, board, chunk, clock, asked, came>>
BY DEF Host, Answer, CutAnswer, NoAnswer, TypeLine, Stop

(* A program that ended by itself gave everything back (main,                 *)
(* serial_backend_open, process_input).                                       *)
THEOREM Restored == Spec => []TerminalRestored
<1>1. ResInv /\ [Next]_vars => ResInv'
  <2> SUFFICES ASSUME ResInv, [Next]_vars PROVE ResInv'
    OBVIOUS
  <2>1. CASE Board
    BY <2>1, ResStart, ResLoop DEF Board
  <2>2. CASE Host
    BY <2>2, HostLeaves DEF ResInv, TerminalRestored, board
  <2>3. CASE UNCHANGED vars
    BY <2>3 DEF ResInv, TerminalRestored, vars, board
  <2> QED
    BY <2>1, <2>2, <2>3 DEF Next
<1>2. ResInv => TerminalRestored
  BY DEF ResInv
<1> QED
  BY <1>1, <1>2, ResInit, PTL DEF Spec

-----------------------------------------------------------------------------
(* Lines.                                                                    *)

(* Bytes are at hand exactly while the program looks at bytes; the line so    *)
(* far is the line as it came until it is longer than the program keeps.      *)
LineInv == /\ chunk \in Seq(Cells) /\ wire \in Seq(Cells)
           /\ frame \in Seq(Cells) /\ came \in Seq(Cells)
           /\ overflow \in BOOLEAN
           /\ chunk # <<>> <=> pc = "bytes"
           /\ overflow <=> Len(came) > LineMax
           /\ ~overflow => frame = came

(* What the host puts on the line is cells.                                   *)
LEMMA FrameCells ==
    ASSUME NEW q \in Quotas
    PROVE  {NL, Head5(q), TailW(q), Torn(q)} \subseteq Cells
BY DEF Cells, Head5, TailW, Torn

LEMMA SentIsCells ==
    ASSUME NEW cells \in Seq(Cells), wire \in Seq(Cells), HostSends(cells)
    PROVE  wire' \in Seq(Cells)
BY DEF HostSends

(* An empty line is short enough.                                             *)
LEMMA EmptyFits == <<>> \in Seq(Cells) /\ ~(Len(<<>>) > LineMax)
<1>1. LineMax \in Nat
  BY SizeAssumption
<1> QED
  BY <1>1

LEMMA LineInit == Init => LineInv
BY EmptyFits DEF Init, LineInv

LEMMA LineStart ==
    ASSUME LineInv, OpenInput \/ SetRaw \/ SetPortFlags \/ OpenDisplay \/ MapsNothing \/ Start
    PROVE  LineInv' /\ UNCHANGED chunk
<1>1. pc' # "bytes" /\ UNCHANGED <<chunk, wire, frame, came, overflow>> /\ pc # "bytes"
  <2>1. CASE OpenInput
    BY <2>1 DEF OpenInput, Still, link, Exit
  <2>2. CASE SetRaw
    BY <2>2 DEF SetRaw, Still, link, Exit
  <2>3. CASE SetPortFlags
    BY <2>3 DEF SetPortFlags, Still, link, Exit
  <2>4. CASE OpenDisplay
    BY <2>4 DEF OpenDisplay, Still, link, Exit
  <2>5. CASE MapsNothing
    BY <2>5 DEF MapsNothing, Still, link
  <2>6. CASE Start
    BY <2>6 DEF Start, Exit
  <2> QED
    BY <2>1, <2>2, <2>3, <2>4, <2>5, <2>6
<1> QED
  BY <1>1 DEF LineInv

LEMMA LineRead ==
    ASSUME LineInv, Read
    PROVE  LineInv' /\ chunk = <<>>
<1>1. UNCHANGED <<frame, came, overflow>> /\ chunk = <<>> /\ pc = "read"
  BY DEF Read, board, LineInv
<1>2. CASE wire = <<>>
  BY <1>1, <1>2 DEF Read, LineInv
<1>3. CASE wire # <<>>
  <2>1. PICK n \in 1 .. Len(wire) : /\ pc' = "bytes"
                                    /\ chunk' = SubSeq(wire, 1, n)
                                    /\ wire' = SubSeq(wire, n + 1, Len(wire))
    BY <1>3 DEF Read
  <2>2. chunk' \in Seq(Cells) /\ Len(chunk') = n /\ wire' \in Seq(Cells)
    BY <2>1 DEF LineInv
  <2>3. chunk' # <<>>
    BY <2>2
  <2> QED
    BY <1>1, <2>1, <2>2, <2>3 DEF LineInv
<1> QED
  BY <1>2, <1>3, <1>1

(* Taking one byte leaves the rest at hand.                                   *)
LEMMA NextByteLeaves ==
    ASSUME LineInv, pc = "bytes", NextByte
    PROVE  /\ chunk' \in Seq(Cells) /\ chunk' # chunk
           /\ chunk' # <<>> <=> pc' = "bytes"
           /\ pc' # "exited"
<1>1. chunk \in Seq(Cells) /\ chunk # <<>>
  BY DEF LineInv
<1>2. chunk' \in Seq(Cells) /\ Len(chunk') = Len(chunk) - 1
  BY <1>1 DEF NextByte
<1>3. chunk' # <<>> <=> Len(chunk) # 1
  BY <1>1, <1>2
<1>4. chunk' # chunk
  BY <1>1, <1>2
<1>5. pc' = IF Len(chunk) = 1 THEN "ask" ELSE "bytes"
  BY DEF NextByte
<1> QED
  BY <1>2, <1>3, <1>4, <1>5

LEMMA LineKeep ==
    ASSUME LineInv, Keep
    PROVE  LineInv'
<1>1. /\ pc = "bytes" /\ NextByte /\ came' = Append(came, Head(chunk))
      /\ UNCHANGED wire
  BY DEF Keep, link
<1>2. Head(chunk) \in Cells
  BY <1>1 DEF LineInv
<1>3. came' \in Seq(Cells) /\ Len(came') = Len(came) + 1 /\ Len(came) \in Nat
  BY <1>1, <1>2 DEF LineInv
<1>4. CASE Len(frame) < LineMax /\ ~overflow
  <2>1. frame' = Append(frame, Head(chunk)) /\ overflow' = overflow
    BY <1>4 DEF Keep
  <2> QED
    BY <1>1, <1>2, <1>3, <1>4, <2>1, NextByteLeaves, SizeAssumption DEF LineInv
<1>5. CASE ~(Len(frame) < LineMax /\ ~overflow)
  <2>1. overflow' = TRUE /\ frame' = frame
    BY <1>5 DEF Keep
  <2>2. Len(came) >= LineMax
    BY <1>5, <1>3, SizeAssumption DEF LineInv
  <2> QED
    BY <1>1, <1>3, <2>1, <2>2, NextByteLeaves, SizeAssumption DEF LineInv
<1> QED
  BY <1>4, <1>5

LEMMA LineEndsInv ==
    ASSUME LineInv, TakeQuit \/ TakeQuota \/ DropLine
    PROVE  LineInv'
<1>1. CASE TakeQuit
  BY <1>1 DEF TakeQuit, Exit, LineInv, link
<1>2. CASE TakeQuota \/ DropLine
  <2>1. pc = "bytes" /\ NextByte /\ NextLine /\ UNCHANGED wire
    BY <1>2 DEF TakeQuota, DropLine, LineEnds, link
  <2>2. chunk' \in Seq(Cells) /\ (chunk' # <<>> <=> pc' = "bytes")
    BY <2>1, NextByteLeaves
  <2>3. frame' = <<>> /\ came' = <<>> /\ overflow' = FALSE
    BY <2>1 DEF NextLine
  <2> QED
    BY <2>1, <2>2, <2>3, EmptyFits DEF LineInv
<1> QED
  BY <1>1, <1>2

LEMMA LineRest ==
    ASSUME LineInv, Ask \/ Show \/ Pause \/ Host \/ UNCHANGED vars
    PROVE  LineInv' /\ UNCHANGED chunk
<1>1. CASE Ask \/ Show \/ Pause \/ UNCHANGED vars
  BY <1>1 DEF Ask, Show, Pause, vars, board, link, LineInv
<1>2. CASE Host
  <2>1. UNCHANGED <<pc, chunk, frame, came, overflow>>
    BY <1>2, HostLeaves DEF board
  <2>2. wire' \in Seq(Cells)
    <3>0. wire \in Seq(Cells)
      BY DEF LineInv
    <3>1. CASE Answer
      <4>1. PICK q \in Quotas : HostSends(<<Head5(q), TailW(q), NL>>)
        BY <3>1 DEF Answer
      <4>2. <<Head5(q), TailW(q), NL>> \in Seq(Cells)
        BY FrameCells
      <4> QED
        BY <3>0, <4>1, <4>2, SentIsCells
    <3>2. CASE CutAnswer
      <4>1. PICK q \in Quotas : \/ HostSends(<<Head5(q)>>) \/ HostSends(<<Torn(q)>>)
                                \/ HostSends(<<Head5(q), TailW(q)>>)
        BY <3>2 DEF CutAnswer
      <4>2. /\ <<Head5(q)>> \in Seq(Cells) /\ <<Torn(q)>> \in Seq(Cells)
            /\ <<Head5(q), TailW(q)>> \in Seq(Cells)
        BY FrameCells
      <4> QED
        BY <3>0, <4>1, <4>2, SentIsCells
    <3>3. CASE NoAnswer
      BY <3>0, <3>3 DEF NoAnswer
    <3>4. CASE TypeLine
      <4>1. PICK n \in 1 .. LineMax + 1 : HostSends([i \in 1 .. n |-> Junk] \o <<NL>>)
        BY <3>4 DEF TypeLine
      <4>2. [i \in 1 .. n |-> Junk] \o <<NL>> \in Seq(Cells)
        <5>1. {NL, Junk} \subseteq Cells
          BY DEF Cells
        <5>2. [i \in 1 .. n |-> Junk] \in Seq(Cells) /\ <<NL>> \in Seq(Cells)
          BY <5>1, SizeAssumption
        <5> QED
          BY <5>2
      <4> QED
        BY <3>0, <4>1, <4>2, SentIsCells
    <3>5. CASE Stop
      <4>1. <<Quit, NL>> \in Seq(Cells)
        BY DEF Cells
      <4> QED
        BY <3>0, <3>5, <4>1, SentIsCells DEF Stop
    <3> QED
      BY <1>2, <3>1, <3>2, <3>3, <3>4, <3>5 DEF Host
  <2> QED
    BY <2>1, <2>2 DEF LineInv
<1> QED
  BY <1>1, <1>2

LEMMA LineStep ==
    ASSUME LineInv, [Next]_vars
    PROVE  LineInv'
BY LineStart, LineRead, LineKeep, LineEndsInv, LineRest DEF Next, Board

(* However the reads cut the stream, the program does with each line what it  *)
(* would do with the line as the host sent it (process_input).                *)
THEOREM LinesTreatedExactly == Spec => LinesExact
<1> DEFINE Treated ==
        chunk # <<>> /\ Head(chunk) = NL /\ chunk' # chunk =>
          IF Len(came) <= LineMax /\ IsQuit(came) THEN pc' = "exited"
          ELSE IF Len(came) <= LineMax /\ Parses(came)
               THEN <<five', week'>> = <<FiveOf(came), WeekOf(came)>> /\ pc' # "exited"
               ELSE <<five', week'>> = <<five, week>> /\ pc' # "exited"
<1>1. LineInv /\ [Next]_vars => Treated
  <2> SUFFICES ASSUME LineInv, [Next]_vars, chunk # <<>>, Head(chunk) = NL, chunk' # chunk
               PROVE  Treated
    OBVIOUS
  <2>1. TakeQuit \/ TakeQuota \/ DropLine
    BY LineStart, LineRead, LineRest DEF Next, Board, Keep
  <2>2. /\ ~overflow => Len(came) <= LineMax /\ frame = came
        /\ overflow => ~(Len(came) <= LineMax)
    BY SizeAssumption DEF LineInv
  <2>3. CASE TakeQuit
    BY <2>2, <2>3 DEF TakeQuit, Exit
  <2>4. CASE TakeQuota
    BY <2>2, <2>4, NextByteLeaves DEF TakeQuota, LineEnds
  <2>5. CASE DropLine
    BY <2>2, <2>5, NextByteLeaves DEF DropLine, LineEnds
  <2> QED
    BY <2>1, <2>3, <2>4, <2>5
<1>2. LineInv /\ [Next]_vars => LineInv'
  BY LineStep
<1>3. Init => LineInv
  BY LineInit
<1> QED
  BY <1>1, <1>2, <1>3, PTL DEF Spec, LinesExact

-----------------------------------------------------------------------------
(* The screen.                                                               *)

ShownAge == IF Valid THEN update_age ELSE -1

(* The screen that the values cached at the last redraw stand for.            *)
FromLast == [header |-> [status |-> last.status, quota |-> week,
                         minute |-> IF ~Valid THEN 0 ELSE (NOW[week] + last.age) \div Minute],
             body |-> body,
             footer |-> [cards |-> week, age |-> last.age]]

(* The screen is what a full redraw would draw, or it is as old as the values *)
(* the loop compares before it sleeps.                                        *)
ScreenInv ==
    /\ pc \in {"read", "bytes", "ask", "show"} => screen = draw_screen \/ screen = FromLast
    /\ pc = "pause" => last.status = monitor_status /\ last.age = ShownAge
    /\ ScreenTrue

(* A screen depends on the quota and its age alone.                           *)
LEMMA SameScreen ==
    ASSUME UNCHANGED <<five, week, age>>
    PROVE  /\ draw_screen' = draw_screen /\ ShownAge' = ShownAge
           /\ monitor_status' = monitor_status
           /\ (last' = last => FromLast' = FromLast)
<1>1. Valid' = Valid /\ update_age' = update_age
  BY DEF Valid, update_age
<1>2. monitor_status' = monitor_status /\ HeaderMinute' = HeaderMinute /\ ShownAge' = ShownAge
  BY <1>1 DEF monitor_status, HeaderMinute, ShownAge
<1>3. header' = header /\ footer' = footer /\ body' = body
  BY <1>1, <1>2 DEF header, footer, body
<1> QED
  BY <1>1, <1>2, <1>3 DEF draw_screen, FromLast

LEMMA SameScreenInv ==
    ASSUME ScreenInv, UNCHANGED <<five, week, age, screen, last>>,
           pc' \in {"read", "bytes", "ask", "show", "pause"} =>
               \/ pc' = pc
               \/ {pc, pc'} \subseteq {"read", "bytes", "ask", "show"}
    PROVE  ScreenInv'
BY SameScreen DEF ScreenInv, ScreenTrue

(* When none of the cached values changed, the screen they stand for is the   *)
(* one a full redraw would draw.                                              *)
LEMMA UnchangedScreen ==
    ASSUME ~Changed
    PROVE  FromLast = draw_screen /\ last.status = monitor_status /\ last.age = ShownAge
<1>1. last.status = monitor_status /\ last.age = ShownAge
  BY DEF Changed, ShownAge
<1>2. Valid => last.age = update_age
  BY <1>1 DEF ShownAge
<1>3. (IF ~Valid THEN 0 ELSE (NOW[week] + last.age) \div Minute) = HeaderMinute
  BY <1>2 DEF HeaderMinute
<1>4. FromLast.header = header
  BY <1>1, <1>3 DEF FromLast, header
<1>5. FromLast.footer = footer
  BY <1>1 DEF FromLast, footer, ShownAge
<1> QED
  BY <1>1, <1>4, <1>5 DEF FromLast, draw_screen

(* Redrawing the header and the footer is a full redraw, because the body is  *)
(* drawn whenever the quota changes.                                          *)
LEMMA PartialRedraw ==
    ASSUME screen = draw_screen \/ screen = FromLast
    PROVE  draw_header_footer = draw_screen
<1>1. ASSUME NEW h, NEW f, screen = [header |-> h, body |-> body, footer |-> f]
      PROVE  draw_header_footer = draw_screen
  <2> DEFINE r == [screen EXCEPT !.header = header, !.footer = footer]
  <2>1. DOMAIN screen = {"header", "body", "footer"} /\ screen.body = body
    BY <1>1
  <2>2. DOMAIN r = {"header", "body", "footer"} /\ r = [k \in DOMAIN r |-> r[k]]
    BY <2>1
  <2>3. r.header = header /\ r.footer = footer /\ r.body = body
    BY <2>1
  <2>4. r = [header |-> header, body |-> body, footer |-> footer]
    <3> HIDE DEF r
    <3> QED
      BY <2>2, <2>3
  <2> QED
    BY <2>4 DEF draw_header_footer, draw_screen
<1>2. CASE screen = draw_screen
  BY <1>1, <1>2 DEF draw_screen
<1>3. CASE screen = FromLast
  BY <1>1, <1>3 DEF FromLast
<1> QED
  BY <1>2, <1>3

LEMMA ScreenShow ==
    ASSUME ScreenInv, Show
    PROVE  ScreenInv'
<1>1. /\ pc' = "pause" /\ UNCHANGED <<five, week, age>>
      /\ screen = draw_screen \/ screen = FromLast
  BY DEF Show, clock, ScreenInv
<1>2. CASE Changed
  <2>1. screen' = draw_screen
    BY <1>1, <1>2, PartialRedraw DEF Show
  <2>2. last'.status = monitor_status /\ last'.age = ShownAge
    BY <1>2 DEF Show, ShownAge
  <2> QED
    BY <1>1, <2>1, <2>2, SameScreen DEF ScreenInv, ScreenTrue
<1>3. CASE ~Changed
  <2>1. UNCHANGED <<screen, last>>
    BY <1>3 DEF Show
  <2>2. screen = draw_screen /\ last.status = monitor_status /\ last.age = ShownAge
    BY <1>1, <1>3, UnchangedScreen
  <2> QED
    BY <1>1, <2>1, <2>2, SameScreen DEF ScreenInv, ScreenTrue
<1> QED
  BY <1>2, <1>3

(* While the program sleeps its screen becomes as old as the cached values.   *)
LEMMA ScreenPause ==
    ASSUME ScreenInv, Pause
    PROVE  ScreenInv'
<1>1. /\ pc = "pause" /\ pc' = "read"
      /\ UNCHANGED <<five, week, screen, last>>
  BY DEF Pause, board
<1>2. /\ screen = draw_screen /\ last.status = monitor_status /\ last.age = ShownAge
  BY <1>1 DEF ScreenInv, ScreenTrue
<1>3. screen = FromLast
  BY <1>2 DEF FromLast, draw_screen, header, footer, HeaderMinute, ShownAge
<1>4. FromLast' = FromLast
  BY <1>1 DEF FromLast, Valid, body
<1> QED
  BY <1>1, <1>3, <1>4 DEF ScreenInv, ScreenTrue

LEMMA ScreenStep ==
    ASSUME ScreenInv, [Next]_vars
    PROVE  ScreenInv'
<1>1. CASE OpenInput \/ SetRaw \/ SetPortFlags \/ OpenDisplay \/ MapsNothing
  <2>1. pc' \notin {"read", "bytes", "ask", "show", "pause"}
    BY <1>1 DEF OpenInput, SetRaw, SetPortFlags, OpenDisplay, MapsNothing, Exit
  <2> QED
    BY <2>1 DEF ScreenInv, ScreenTrue
<1>2. CASE Start
  <2>1. CASE pc' = "read"
    <3>1. screen' = draw_screen /\ UNCHANGED <<five, week, age>>
      BY <1>2, <2>1 DEF Start, Exit
    <3> QED
      BY <2>1, <3>1, SameScreen DEF ScreenInv, ScreenTrue
  <2>2. CASE pc' # "read"
    <3>1. pc' = "exited"
      BY <1>2, <2>2 DEF Start, Exit
    <3> QED
      BY <3>1 DEF ScreenInv, ScreenTrue
  <2> QED
    BY <2>1, <2>2
<1>3. CASE TakeQuit
  BY <1>3 DEF TakeQuit, Exit, ScreenInv, ScreenTrue
<1>4. CASE TakeQuota
  <2>1. pc' \in {"ask", "bytes"} /\ screen' = draw_screen'
    BY <1>4 DEF TakeQuota, NextByte
  <2> QED
    BY <2>1 DEF ScreenInv, ScreenTrue
<1>5. CASE Read
  BY <1>5, SameScreenInv DEF Read, board, clock
<1>6. CASE Keep
  BY <1>6, SameScreenInv DEF Keep, NextByte, clock
<1>7. CASE DropLine
  BY <1>7, SameScreenInv DEF DropLine, LineEnds, NextByte, clock
<1>8. CASE Ask
  BY <1>8, SameScreenInv DEF Ask
<1>9. CASE Host \/ UNCHANGED vars
  <2>1. UNCHANGED <<pc, five, week, age, screen, last>>
    BY <1>9, HostLeaves DEF vars, board, clock
  <2> QED
    BY <2>1, SameScreenInv
<1> QED
  BY <1>1, <1>2, <1>3, <1>4, <1>5, <1>6, <1>7, <1>8, <1>9, ScreenShow, ScreenPause
     DEF Next, Board

(* Whenever the program sleeps, the display shows what the state and the      *)
(* clock say, although the loop redraws a part only, and that only when one   *)
(* of three cached values changed (main, 723-739).                            *)
THEOREM ScreenIsTrue == Spec => []ScreenTrue
<1>1. Init => ScreenInv
  BY DEF Init, ScreenInv, ScreenTrue
<1>2. ScreenInv /\ [Next]_vars => ScreenInv'
  BY ScreenStep
<1>3. ScreenInv => ScreenTrue
  BY DEF ScreenInv
<1> QED
  BY <1>1, <1>2, <1>3, PTL DEF Spec

-----------------------------------------------------------------------------
(* Requests.                                                                 *)

(* The oldest a quota can be when the program asks for the k-th time since.   *)
Due(k) == RefreshAfter + MaxPause - 1 + (k - 1) * (RetryAfter + MaxPause - 1)

(* While the clock is not set back, the quota's age is that at the last       *)
(* request and the time since; without a request, no more than an interval    *)
(* and a pause.                                                               *)
PaceInv ==
    /\ age \in Int /\ waited \in Int /\ asked \in 0..Tries
    /\ steppedBack \in BOOLEAN /\ outstanding \in BOOLEAN
    /\ asked = 0 <=> ~outstanding
    /\ mode = "serial" /\ pc \in {"show", "pause"} => waited < request_interval
    /\ mode = "serial" /\ asked > 0 => waited < RetryAfter + MaxPause
    /\ ~steppedBack => waited >= 0
    /\ mode = "serial" /\ ~steppedBack /\ Valid =>
          /\ asked = 0 => age <= waited /\ age <= Due(1)
          /\ asked \in 1 .. Tries - 1 => age <= waited + Due(asked)

LEMMA TimesAre ==
    /\ RetryAfter \in Nat /\ RefreshAfter \in Nat /\ StaleAfter \in Nat /\ MaxPause \in Nat
    /\ RetryAfter > 0 /\ RefreshAfter > 0 /\ StaleAfter > 0 /\ MaxPause > 0
    /\ Tries \in Nat /\ Tries > 0
    /\ Back \in Nat /\ Old \in Nat /\ RefreshAfter < StaleAfter
BY TimeAssumption, SizeAssumption DEF Old

(* Each further request may come an interval and a pause after the one before. *)
LEMMA DueSteps ==
    /\ Due(1) = RefreshAfter + MaxPause - 1
    /\ \A k \in Nat : /\ Due(k) \in Int
                      /\ Due(k + 1) = Due(k) + (RetryAfter + MaxPause - 1)
<1>1. /\ \A c \in Int : (1 - 1) * c = 0
      /\ \A c, k \in Int : k * c \in Int /\ k * c = (k - 1) * c + c
  OBVIOUS
<1> DEFINE c == RetryAfter + MaxPause - 1
<1>2. c \in Int /\ RefreshAfter + MaxPause - 1 \in Int
  BY TimesAre
<1>3. \A k \in Int : Due(k) = RefreshAfter + MaxPause - 1 + (k - 1) * c
  BY DEF Due
<1> HIDE DEF c
<1>4. Due(1) = RefreshAfter + MaxPause - 1
  BY <1>1, <1>2, <1>3
<1>5. ASSUME NEW k \in Nat
      PROVE  Due(k) \in Int /\ Due(k + 1) = Due(k) + c
  <2>1. (k - 1) * c \in Int /\ k * c = (k - 1) * c + c /\ (k + 1) - 1 = k
    BY <1>1, <1>2
  <2> QED
    BY <2>1, <1>2, <1>3
<1> QED
  BY <1>4, <1>5 DEF c

LEMMA DuePositive ==
    ASSUME NEW k \in 1 .. Tries - 1
    PROVE  Due(k) >= 0
<1> DEFINE c == RetryAfter + MaxPause - 1
<1>1. c \in Nat /\ k - 1 \in Nat /\ RefreshAfter + MaxPause - 1 \in Nat
  BY TimesAre
<1>2. \A m, n \in Nat : m * n >= 0 /\ m * n \in Nat
  OBVIOUS
<1>3. Due(k) = RefreshAfter + MaxPause - 1 + (k - 1) * c
  BY DEF Due
<1> HIDE DEF c
<1> QED
  BY <1>1, <1>2, <1>3

(* Before the program is out of tries, no quota it still waits for is STALE.  *)
LEMMA DueInTime ==
    ASSUME NEW k \in 1 .. Tries - 1
    PROVE  Due(k) + RetryAfter - 1 <= StaleAfter
<1> DEFINE c == RetryAfter + MaxPause - 1
<1>1. c \in Nat /\ Tries \in Nat /\ k \in Nat /\ k - 1 <= Tries - 2
  BY TimesAre
<1>2. \A m, n, d \in Int : m <= n /\ d >= 0 => m * d <= n * d
  OBVIOUS
<1>3. (k - 1) * c <= (Tries - 2) * c
  <2> HIDE DEF c
  <2> QED
    BY <1>1, <1>2
<1>4. RefreshAfter + MaxPause - 1 + (Tries - 2) * c + RetryAfter - 1 <= StaleAfter
  BY TriesAssumption, TimesAre
<1>5. Due(k) = RefreshAfter + MaxPause - 1 + (k - 1) * c
  BY DEF Due
<1>6. (k - 1) * c \in Int /\ (Tries - 2) * c \in Int /\ RefreshAfter + MaxPause - 1 \in Int
  <2> HIDE DEF c
  <2>1. k - 1 \in Int /\ Tries - 2 \in Int /\ c \in Int /\ \A m, n \in Int : m * n \in Int
    BY <1>1
  <2> QED
    BY <2>1, TimesAre
<1> DEFINE x == (k - 1) * c  y == (Tries - 2) * c  r == RefreshAfter + MaxPause - 1
<1>7. x <= y /\ r + y + RetryAfter - 1 <= StaleAfter /\ Due(k) = r + x
  BY <1>3, <1>4, <1>5
<1>8. x \in Int /\ y \in Int /\ r \in Int
  BY <1>6
<1> HIDE DEF x, y, r
<1> QED
  BY <1>7, <1>8, TimesAre

LEMMA PaceInit == Init => PaceInv
<1> SUFFICES ASSUME Init PROVE PaceInv
  OBVIOUS
<1>1. age = 0 /\ waited = 0 /\ asked = 0 /\ pc = "start" /\ ~Valid
  BY DEF Init, Valid
<1>2. outstanding = FALSE /\ steppedBack = FALSE
  BY DEF Init
<1>3. age \in Int /\ waited \in Int /\ asked \in 0 .. Tries /\ waited >= 0 /\ ~(asked > 0)
  BY <1>1, TimesAre
<1> QED
  BY <1>1, <1>2, <1>3 DEF PaceInv

(* A step that touches neither the times nor the quota, and does not leave    *)
(* the place where a request is made.                                         *)
LEMMA SamePace ==
    ASSUME PaceInv, UNCHANGED <<mode, five, age, waited, asked, outstanding, steppedBack>>,
           pc' \in {"show", "pause"} => pc \in {"show", "pause"}
    PROVE  PaceInv'
BY DEF PaceInv, Valid, request_interval

(* The request that is the next one.                                          *)
LEMMA AskedPace ==
    ASSUME PaceInv, RequestSent, UNCHANGED <<mode, five, age, steppedBack>>, mode = "serial"
    PROVE  PaceInv'
<1>1. /\ outstanding' = TRUE /\ waited' = 0
      /\ asked' = IF asked = Tries THEN asked ELSE asked + 1
  BY DEF RequestSent, SendRequest
<1>2. asked' \in 1 .. Tries
  BY <1>1, TimesAre DEF PaceInv
<1>3. ASSUME ~steppedBack, Valid, asked' \in 1 .. Tries - 1
      PROVE  age <= Due(asked')
  <2>1. asked' = asked + 1 /\ asked \in Nat
    BY <1>1, <1>3, TimesAre DEF PaceInv
  <2>2. CASE asked = 0
    BY <2>1, <2>2, <1>3 DEF PaceInv
  <2>3. CASE asked \in 1 .. Tries - 1
    <3>1. age <= waited + Due(asked) /\ waited < RetryAfter + MaxPause /\ age \in Int /\ waited \in Int
      BY <2>3, <1>3 DEF PaceInv
    <3>2. Due(asked) \in Int /\ Due(asked') = Due(asked) + (RetryAfter + MaxPause - 1)
      BY <2>1, DueSteps
    <3> QED
      BY <3>1, <3>2, TimesAre
  <2> QED
    BY <2>1, <2>2, <2>3, <1>3, TimesAre
<1>4. Due(asked') \in Int
  BY <1>2, DueSteps, TimesAre
<1>5. Valid' = Valid /\ request_interval' = RetryAfter
  BY <1>1 DEF Valid, request_interval
<1> QED
  BY <1>1, <1>2, <1>3, <1>4, <1>5, TimesAre DEF PaceInv

LEMMA PaceAsk ==
    ASSUME PaceInv, Ask
    PROVE  PaceInv'
<1>1. CASE mode = "serial" /\ waited >= request_interval
  BY <1>1, AskedPace DEF Ask
<1>2. CASE ~(mode = "serial" /\ waited >= request_interval)
  <2>1. UNCHANGED <<mode, five, age, waited, asked, outstanding, steppedBack>>
    BY <1>2 DEF Ask
  <2>2. mode = "serial" => waited < request_interval
    BY <1>2, TimesAre DEF PaceInv, request_interval
  <2>3. Valid' = Valid /\ request_interval' = request_interval
    BY <2>1 DEF Valid, request_interval
  <2> QED
    BY <2>1, <2>2, <2>3 DEF PaceInv
<1> QED
  BY <1>1, <1>2

(* A quota is as new as can be, and none was asked for since.                 *)
LEMMA PaceQuota ==
    ASSUME PaceInv, TakeQuota, pc' \notin {"show", "pause"}
    PROVE  PaceInv'
<1>1. /\ age' = 0 /\ asked' = 0 /\ outstanding' = FALSE
      /\ UNCHANGED <<waited, mode, steppedBack>>
  BY DEF TakeQuota
<1>2. Due(1) >= 0
  BY DueSteps, TimesAre
<1>3. waited \in Int /\ steppedBack \in BOOLEAN /\ (~steppedBack => waited >= 0) /\ Tries \in Nat
  BY TimesAre DEF PaceInv
<1>4. 0 \in 0 .. Tries /\ 0 \notin 1 .. Tries - 1
  BY <1>3
<1>5. asked' = 0 <=> ~outstanding'
  BY <1>1
<1>6. outstanding' \in BOOLEAN /\ steppedBack' \in BOOLEAN
  BY <1>1, <1>3
<1>7. age' \in Int /\ waited' \in Int /\ ~(asked' > 0) /\ age' <= Due(1)
  BY <1>1, <1>2, <1>3, TimesAre, DueSteps
<1>8. ~steppedBack' => waited' >= 0 /\ age' <= waited'
  BY <1>1, <1>3
<1> QED
  BY <1>1, <1>4, <1>5, <1>6, <1>7, <1>8 DEF PaceInv

(* Time passes for both ages alike.                                           *)
LEMMA LaterIs ==
    ASSUME NEW t \in Int, NEW d \in 1 .. MaxPause
    PROVE  /\ Later(t, d) \in Int /\ Later(t, d) <= t + MaxPause
           /\ Later(t, d) = IF t + d > Old THEN Old ELSE t + d
BY TimesAre DEF Later

LEMMA PacePause ==
    ASSUME PaceInv, Pause
    PROVE  PaceInv'
<1>1. /\ UNCHANGED <<mode, five, asked, outstanding>> /\ pc' = "read" /\ pc = "pause"
      /\ Valid' = Valid
  BY DEF Pause, board, Valid
<1>2. mode = "serial" => waited < request_interval
  BY <1>1 DEF PaceInv
<1>3. mode = "serial" /\ asked > 0 => waited < RetryAfter
  BY <1>2 DEF request_interval, PaceInv
<1>4. mode = "serial" /\ asked = 0 /\ Valid => waited < RefreshAfter
  BY <1>2 DEF request_interval, PaceInv
<1>5. ASSUME NEW d \in 1 .. MaxPause, age' = Later(age, d), waited' = Later(waited, d),
             UNCHANGED steppedBack
      PROVE  PaceInv'
  <2>1. /\ age' \in Int /\ waited' \in Int /\ age' <= age + MaxPause /\ waited' <= waited + MaxPause
        /\ (waited >= 0 => waited' >= 0)
    <3>1. age \in Int /\ waited \in Int
      BY DEF PaceInv
    <3>2. /\ Later(age, d) \in Int /\ Later(age, d) <= age + MaxPause
          /\ Later(waited, d) \in Int /\ Later(waited, d) <= waited + MaxPause
      BY <3>1, LaterIs
    <3>3. waited >= 0 => Later(waited, d) >= 0
      BY <3>1, TimesAre DEF Later
    <3> QED
      BY <1>5, <3>2, <3>3
  <2>2. mode = "serial" /\ asked > 0 => waited' < RetryAfter + MaxPause
    BY <2>1, <1>3, TimesAre DEF PaceInv
  <2>3. ASSUME mode = "serial", ~steppedBack, Valid, asked = 0
        PROVE  age' <= waited' /\ age' <= Due(1)
    <3>1. age <= waited /\ waited < RefreshAfter
      BY <2>3, <1>4 DEF PaceInv
    <3>2. age' <= waited'
      <4>1. age \in Int /\ waited \in Int
        BY DEF PaceInv
      <4>2. Later(age, d) <= Later(waited, d)
        BY <3>1, <4>1, TimesAre DEF Later
      <4> QED
        BY <1>5, <4>2
    <3>3. age \in Int /\ waited \in Int
      BY DEF PaceInv
    <3>4. age + MaxPause <= RefreshAfter + MaxPause - 1
      BY <3>1, <3>3, TimesAre
    <3>5. Due(1) = RefreshAfter + MaxPause - 1
      BY DueSteps
    <3> QED
      BY <3>2, <3>3, <3>4, <3>5, <2>1, TimesAre
  <2>4. ASSUME mode = "serial", ~steppedBack, Valid, asked \in 1 .. Tries - 1
        PROVE  age' <= waited' + Due(asked)
    <3>1. age <= waited + Due(asked) /\ Due(asked) \in Int
      BY <2>4, DueSteps, TimesAre DEF PaceInv
    <3>2. Due(asked) >= 0
      BY <2>4, DuePositive
    <3>3. age \in Int /\ waited \in Int
      BY DEF PaceInv
    <3> DEFINE b == Due(asked)
    <3>4. b \in Int /\ b >= 0 /\ age <= waited + b
      BY <3>1, <3>2
    <3> HIDE DEF b
    <3>5. Later(age, d) <= Later(waited, d) + b
      BY <3>3, <3>4, TimesAre DEF Later
    <3> QED
      BY <1>5, <3>5 DEF b
  <2> QED
    BY <1>1, <1>5, <2>1, <2>2, <2>3, <2>4 DEF PaceInv
<1>6. ASSUME steppedBack' = TRUE, age' = age - Back, waited' = waited - Back
      PROVE  PaceInv'
  <2>1. age' \in Int /\ waited' \in Int /\ waited' <= waited
    BY <1>6, TimesAre DEF PaceInv
  <2> QED
    BY <1>1, <1>3, <1>6, <2>1, TimesAre DEF PaceInv
<1> QED
  BY <1>5, <1>6 DEF Pause

LEMMA PaceStep ==
    ASSUME PaceInv, [Next]_vars
    PROVE  PaceInv'
<1>1. CASE OpenInput \/ SetRaw \/ SetPortFlags \/ OpenDisplay \/ MapsNothing
  <2>1. UNCHANGED <<mode, five, age, waited, asked, outstanding, steppedBack>>
    BY <1>1 DEF OpenInput, SetRaw, SetPortFlags, OpenDisplay, MapsNothing, Still
  <2>2. pc' \notin {"show", "pause"}
    BY <1>1 DEF OpenInput, SetRaw, SetPortFlags, OpenDisplay, MapsNothing, Exit
  <2> QED
    BY <2>1, <2>2, SamePace
<1>2. CASE Start
  <2>1. UNCHANGED <<mode, five, age, steppedBack>> /\ pc' \notin {"show", "pause"}
    BY <1>2 DEF Start, Exit
  <2>2. (RequestSent /\ mode = "serial") \/ UNCHANGED <<waited, asked, outstanding>>
    BY <1>2 DEF Start
  <2> QED
    BY <2>1, <2>2, SamePace, AskedPace
<1>3. CASE Read \/ Keep \/ TakeQuit \/ DropLine \/ Show
  <2>1. UNCHANGED <<mode, five, age, waited, asked, outstanding, steppedBack>>
    BY <1>3 DEF Read, Keep, TakeQuit, DropLine, Show, board, clock
  <2>2. pc' \in {"show", "pause"} => pc \in {"show", "pause"}
    BY <1>3 DEF Read, Keep, TakeQuit, DropLine, Show, NextByte, Exit
  <2> QED
    BY <2>1, <2>2, SamePace
<1>4. CASE TakeQuota
  <2>1. pc' \notin {"show", "pause"}
    BY <1>4 DEF TakeQuota, NextByte
  <2> QED
    BY <1>4, <2>1, PaceQuota
<1>5. CASE Host \/ UNCHANGED vars
  <2>1. UNCHANGED <<pc, mode, five, age, waited, asked, outstanding, steppedBack>>
    BY <1>5, HostLeaves DEF vars, board, clock
  <2> QED
    BY <2>1, SamePace
<1> QED
  BY <1>1, <1>2, <1>3, <1>4, <1>5, PaceAsk, PacePause DEF Next, Board

(* The display says STALE only after the host was asked Tries times since the *)
(* last quota, unless the clock was set back (request_interval against the    *)
(* 120 seconds of monitor_status_for), however long each pause and whatever   *)
(* is lost.                                                                   *)
THEOREM StaleOnlyAfterAsking == Spec => []AsksBeforeStale
<1>1. ASSUME PaceInv, ScreenTrue
      PROVE  AsksBeforeStale
  <2> SUFFICES ASSUME pc = "pause", mode = "serial", screen.header.status = Stale, ~steppedBack,
                      asked # Tries
               PROVE  FALSE
    BY DEF AsksBeforeStale
  <2>1. monitor_status = Stale
    BY <1>1 DEF ScreenTrue, draw_screen, header
  <2>2. Valid /\ age > StaleAfter
    <3>1. Valid /\ update_age > StaleAfter
      BY <2>1 DEF monitor_status, Stale, Wait, Live
    <3> QED
      BY <3>1, <1>1, TimesAre DEF update_age, PaceInv
  <2>3. waited < request_interval
    BY <1>1 DEF PaceInv
  <2>4. age \in Int /\ waited \in Int /\ asked \in 0 .. Tries - 1
    BY <1>1, TimesAre DEF PaceInv
  <2>5. CASE asked = 0
    <3>1. age <= waited /\ waited < RefreshAfter
      BY <1>1, <2>2, <2>3, <2>5 DEF PaceInv, request_interval
    <3> QED
      BY <2>2, <2>4, <3>1, TimesAre
  <2>6. CASE asked \in 1 .. Tries - 1
    <3>1. age <= waited + Due(asked) /\ waited < RetryAfter
      BY <1>1, <2>2, <2>3, <2>6, TimesAre DEF PaceInv, request_interval
    <3>2. Due(asked) + RetryAfter - 1 <= StaleAfter /\ Due(asked) \in Int
      BY <2>4, <2>6, DueInTime, DueSteps, TimesAre
    <3> QED
      BY <2>2, <2>4, <3>1, <3>2, TimesAre
  <2> QED
    BY <2>4, <2>5, <2>6, TimesAre
<1>2. PaceInv /\ [Next]_vars => PaceInv'
  BY PaceStep
<1> QED
  BY <1>1, <1>2, PaceInit, ScreenIsTrue, PTL DEF Spec

=================================================================================
