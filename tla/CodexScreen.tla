------------------------------ MODULE CodexScreen ------------------------------
(*****************************************************************************)
(* The screen of the codex-monitor program (draw_header, draw_footer,         *)
(* draw_screen with ui_layout.h): where each text is drawn for a state.  The  *)
(* program repaints header and footer alone while the rest stays, so what     *)
(* they draw must stay within the part they clear.                            *)
(*                                                                            *)
(* A state is [valid, five, five_reset, week, week_reset, cards, zone, age,   *)
(* now]; resets and now are minutes since 1970, age is in seconds.            *)
(*****************************************************************************)
EXTENDS CodexQuota, TargetFonts

Screen == [x |-> 0, y |-> 0, w |-> 480, h |-> 272]
Header == [x |-> 0, y |-> 0, w |-> 480, h |-> 44]
Title == [x |-> 20, y |-> 9, spacing |-> 2]
HeaderClock == [y |-> 18, right |-> 480 - 16, gap |-> 12, spacing |-> 1]
LeftCard == [x |-> 16, y |-> 52, w |-> 216, h |-> 150]
RightCard == [LeftCard EXCEPT !.x = 248]
CardText == [inset |-> 12, spacing |-> 2, label |-> 66, percent |-> 87, reset |-> 146, value |-> 162]
CardBar == [inset |-> 16, y |-> 121, w |-> 184, h |-> 16]
Waiting == [x |-> 166, y |-> 206, spacing |-> 1]
Footer == [x |-> 16, y |-> 220, w |-> 448, h |-> 32]
FooterText == [x |-> 30, right |-> 462, y |-> 229, spacing |-> 1]

-----------------------------------------------------------------------------
number_text(n) == ToString(n)
TwoDigits(n) == number_text(n \div 10) \o number_text(n % 10)
TimeText(local) == TwoDigits(local.hour) \o ":" \o TwoDigits(local.minute)

StatusText(state) == IF ~state.valid THEN "WAIT"
                     ELSE IF state.age > 120 THEN "STALE" ELSE "LIVE"

format_updated(state) ==
    "UPDATED " \o (IF ~state.valid THEN "---"
                   ELSE IF state.age < 60 THEN number_text(state.age) \o "S AGO"
                   ELSE IF state.age < 3600 THEN number_text(state.age \div 60) \o "M AGO"
                   ELSE number_text(state.age \div 3600) \o "H AGO")

draw_header(state) ==
    LET local == local_date_time(state.now, state.zone)
        clock == TwoDigits(local.month) \o "/" \o TwoDigits(local.day) \o " " \o TimeText(local)
        Width(text) == measure_text(font_label, text, HeaderClock.spacing)
        status_x == HeaderClock.right - Width(StatusText(state))
        At(x, text) == draw_text(x, HeaderClock.y, font_label, text, HeaderClock.spacing)
    IN  {draw_text(Title.x, Title.y, font_header, "CODEX MONITOR", Title.spacing),
         At(status_x, StatusText(state))}
        \cup IF state.valid
             THEN {At(status_x - HeaderClock.gap - Width(clock), clock)} ELSE {}

draw_percentage(card, value) ==
    LET text == IF value < 0 THEN "--" ELSE number_text(value) \o "%"
    IN  draw_text(card.x + (card.w - measure_text(font_large_number, text, 3)) \div 2,
                  CardText.percent, font_large_number, text, 3)

draw_reset_time(card, reset, zone) ==
    LET local == local_date_time(reset, zone)
        date == number_text(local.month) \o "/" \o number_text(local.day) \o " "
        text == IF reset = 0 THEN "--:--"
                ELSE (IF card = RightCard THEN date ELSE "") \o TimeText(local)
    IN  draw_text(card.x + CardText.inset, CardText.value, font_reset_time, text, 2)

DrawCard(card, label, value, reset, zone) ==
    LET Label(y, text) == draw_text(card.x + CardText.inset, y, font_label, text, CardText.spacing)
    IN  {Label(CardText.label, label), Label(CardText.reset, "RESET"),
         draw_percentage(card, value), draw_reset_time(card, reset, zone)}

draw_footer(state) ==
    LET Middle(font, text) == centered_text_y(font, text, Footer.y, Footer.h)
        Width(text) == measure_text(font_label, text, FooterText.spacing)
        cards == IF state.cards < 0 THEN "--" ELSE number_text(state.cards)
        updated == format_updated(state)
    IN  {draw_text(FooterText.x, Middle(font_label, "RESET CARDS:"),
                   font_label, "RESET CARDS:", FooterText.spacing),
         draw_text(FooterText.x + Width("RESET CARDS:") + 8, Middle(font_reset_time, cards),
                   font_reset_time, cards, FooterText.spacing),
         draw_text(FooterText.right - Width(updated), FooterText.y,
                   font_label, updated, FooterText.spacing)}

DrawBody(state) ==
    IF ~state.valid
    THEN {draw_text(Waiting.x, Waiting.y, font_label, "WAITING FOR DATA...", Waiting.spacing)}
    ELSE DrawCard(LeftCard, "5-HOUR QUOTA", state.five, state.five_reset, state.zone)
         \cup DrawCard(RightCard, "WEEKLY QUOTA", state.week, state.week_reset, state.zone)

draw_screen(state) == draw_header(state) \cup DrawBody(state) \cup draw_footer(state)

-----------------------------------------------------------------------------
Inside(box, area) == /\ area.x <= box.x /\ box.x + box.w <= area.x + area.w
                     /\ area.y <= box.y /\ box.y + box.h <= area.y + area.h
Apart(a, b) == \/ a.x + a.w <= b.x \/ b.x + b.w <= a.x
               \/ a.y + a.h <= b.y \/ b.y + b.h <= a.y

(* Whatever the state, no text covers another one or a bar, every character   *)
(* has a glyph, the header and the footer draw only what their next repaint   *)
(* clears, and the body only what it does not clear (draw_screen and the      *)
(* partial repaint of main).                                                  *)
ScreenFits(state) ==
    LET all == draw_screen(state)
        Bar(card) == [x |-> card.x + CardBar.inset, y |-> CardBar.y, w |-> CardBar.w, h |-> CardBar.h]
        bars == IF state.valid THEN {Bar(LeftCard), Bar(RightCard)} ELSE {}
    IN  /\ \A a, b \in all : a # b => Apart(a, b)
        /\ \A a \in all, b \in bars : Apart(a, b)
        /\ \A a \in all : a.unseen = 0
        /\ \A a \in draw_header(state) : Inside(a, Header)
        /\ \A a \in draw_footer(state) : Inside(a, Footer)
        /\ \A a \in DrawBody(state) : \/ ~state.valid
                                      \/ Inside(a, LeftCard) \/ Inside(a, RightCard)
        /\ \A a \in DrawBody(state) \cup bars :
              Inside(a, Screen) /\ Apart(a, Header) /\ Apart(a, Footer)
=============================================================================
