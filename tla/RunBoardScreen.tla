----------------------------- MODULE RunBoardScreen -----------------------------
(*****************************************************************************)
(* The screen of the runboard program (draw_fit and what draw_screen of       *)
(* runboard.c calls, with runboard_layout.h): which page is shown for a       *)
(* state, which texts it draws where, and how a text is cut that is wider     *)
(* than its place.  Texts are in capitals, as normalize_display makes them.   *)
(*                                                                            *)
(* A state is the record local_state; an unknown number is -1.                *)
(*****************************************************************************)
EXTENDS TargetFonts

Panel == [x |-> 12, y |-> 48, w |-> 456]

number_text(n) == ToString(n)
KnownOr(unknown, n) == IF n < 0 THEN unknown ELSE number_text(n)
TwoDigits(n) == IF n < 10 THEN "0" \o number_text(n) ELSE number_text(n)

format_round(current, total) == IF current < 0 \/ total < 0 THEN "--/--"
                                ELSE number_text(current) \o "/" \o number_text(total)
format_elapsed(seconds, colon, end) ==
    IF seconds < 0 THEN "--"
    ELSE number_text(seconds \div 3600) \o colon \o TwoDigits((seconds % 3600) \div 60) \o end
format_updated(seconds) ==
    "UPDATED " \o (IF seconds < 0 THEN "--"
                   ELSE IF seconds <= 2 THEN "NOW"
                   ELSE IF seconds < 60 THEN number_text(seconds) \o "S AGO"
                   ELSE IF seconds < 3600 THEN number_text(seconds \div 60) \o "M AGO"
                   ELSE number_text(seconds \div 3600) \o "H AGO")

(* format_gpu_value: a number of GiB in tenths, or -1.  What is used is shown  *)
(* to its first digit behind the point, the total is rounded up from .9 on.   *)
(* The feed writes no point behind a whole number.                            *)
format_gpu_value(tenths, total) ==
    LET whole == tenths \div 10  rest == tenths % 10
    IN  IF tenths < 0 THEN "--"
        ELSE IF total THEN number_text(whole + IF rest >= 9 THEN 1 ELSE 0)
        ELSE number_text(whole) \o IF rest > 0 THEN "." \o number_text(rest) ELSE ""

-----------------------------------------------------------------------------
(* draw_fit: the text if it is not wider than its place; else the longest     *)
(* beginning of at least five characters that fits with three dots.  A text   *)
(* cut before its sixth character keeps the one that did not fit.             *)

\* Mutant: a text that fills its place to the last pixel is cut.
CutAtEdge(font, text, spacing, max_width) ==
    LET First(n) == SubSeq(text, 1, n)
        Fits(part) == text_width(font, part, spacing) < max_width
        n == Highest({0} \cup {k \in 1 .. Len(text) : Fits(First(k))})
        dotted == {k \in 5 .. n : Fits(First(k) \o "...")}
    IN  IF Fits(text) THEN text
        ELSE IF n = 0 THEN ""
        ELSE IF n < 5 THEN First(n + 1)
        ELSE IF dotted = {} THEN First(n)
        ELSE First(Highest(dotted)) \o "..."

Cut(font, text, spacing, max_width) ==
    LET First(n) == SubSeq(text, 1, n)
        Fits(part) == text_width(font, part, spacing) <= max_width
        n == Highest({0} \cup {k \in 1 .. Len(text) : Fits(First(k))})
        dotted == {k \in 5 .. n : Fits(First(k) \o "...")}
    IN  IF Fits(text) THEN text
        ELSE IF n = 0 THEN ""
        ELSE IF n < 5 THEN First(n + 1)
        ELSE IF dotted = {} THEN First(n)
        ELSE First(Highest(dotted)) \o "..."

(* A drawn text: what it should say, what is shown of it, the width of its    *)
(* place, and how many of its first characters are more than a name of any    *)
(* length: labels, numbers and words, all of it unless it ends in a name.     *)
draw_fit(x, y, text, spacing, max_width) ==
    [draw_text(x, y, font_label, Cut(font_label, text, spacing, max_width), spacing)
        EXCEPT !.text = text] @@ [shown |-> Cut(font_label, text, spacing, max_width),
                                  max |-> max_width, needed |-> Len(text)]
DrawNamed(x, y, label, name, max_width) ==
    [draw_fit(x, y, label \o name, 0, max_width) EXCEPT !.needed = Len(label)]
Plain(x, y, font, text, spacing) ==
    draw_text(x, y, font, text, spacing)
        @@ [shown |-> text, max |-> text_width(font, text, spacing), needed |-> Len(text)]

-----------------------------------------------------------------------------
(* The badge, and the pages.                                                 *)

server_badge(s) == IF s.server_freshness = "stale" THEN "STALE"
                   ELSE IF s.server_freshness = "offline" \/ s.server_status = "offline"
                   THEN "OFFLINE"
                   ELSE IF s.server_freshness = "error" THEN "ERROR"
                   ELSE IF s.server_status = "degraded" THEN "DEGRADED"
                   ELSE IF s.server_status = "online" THEN "ONLINE" ELSE "UNKNOWN"
Cached(s) == server_badge(s) \in {"ONLINE", "STALE", "DEGRADED"}

Page(s) == IF server_badge(s) = "OFFLINE" THEN "offline"
           ELSE IF ~s.valid \/ server_badge(s) = "ERROR" THEN "error"
           ELSE IF s.experiment_count = 0 THEN "idle"
           ELSE IF s.experiment_count = 1 /\ s.matrix_total > 0 THEN "matrix"
           ELSE "experiment"
HasSecondCard(s) == s.experiment_count >= 2
HasQuotas(s) == s.experiment_count < 2

draw_header(s) ==
    LET Value(n) == IF Cached(s) THEN KnownOr("--", n) ELSE "--"
        memory == IF Cached(s) THEN format_gpu_value(s.gpu_memory_used, FALSE) \o "/"
                                         \o format_gpu_value(s.gpu_memory_total, TRUE)
                  ELSE IF server_badge(s) = "OFFLINE" THEN "--/--G" ELSE "--/--"
        line == "CPU " \o Value(s.cpu) \o "% RAM " \o Value(s.ram)
                \o "% GPU " \o Value(s.gpu) \o "% " \o memory
        width == text_width(font_label, line, 1)
    IN  {draw_fit(330, 8, s.current_time, 1, 60),
         draw_fit(390, 8, server_badge(s), IF server_badge(s) = "DEGRADED" THEN 0 ELSE 1, 78),
         DrawNamed(12, 25, "", s.server, 96),
         draw_fit(IF width <= 348 THEN 468 - width ELSE 120, 25, line, 1, 348)}

-----------------------------------------------------------------------------
(* The bodies.  e is the first experiment.                                   *)

draw_experiment(e) ==
    LET x == Panel.x  y == Panel.y
    IN  {Plain(x + 10, y + 7, font_label, "CURRENT EXPERIMENT", 1),
         DrawNamed(x + 10, y + 22, "", e.name, 300),
         draw_fit(x + 344, y + 22, e.status, 0, Panel.w - 354),
         DrawNamed(x + 10, y + 39, "USER ", e.user, Panel.w - 20),
         draw_fit(x + 10, y + 54, "PROGRESS " \o (IF e.progress < 0 THEN "--"
                                                  ELSE number_text(e.progress) \o "%"),
                  0, Panel.w - 20),
         draw_fit(x + 10, y + 84, "ROUND " \o format_round(e.current_round, e.total_round), 0, 200),
         draw_fit(x + 242, y + 84, "TIME " \o format_elapsed(e.elapsed_seconds, ":", ""),
                  0, Panel.w - 252),
         DrawNamed(x + 10, y + 100, "DATA ", e.dataset, 200),
         draw_fit(x + 242, y + 100, "SEED " \o KnownOr("--", e.seed), 0, Panel.w - 252)}

draw_matrix_experiment(e) ==
    LET left == Panel.x + 10  right == Panel.x + 242  rest == Panel.w - 252
        Count(n, least) == IF n < least \/ e.matrix_total < 1 THEN "--/--"
                           ELSE number_text(n) \o "/" \o number_text(e.matrix_total)
    IN  {Plain(left, 55, font_label, "CURRENT EXPERIMENT", 1),
         DrawNamed(left, 74, "", e.job_name, 300),
         draw_fit(Panel.x + 344, 74, e.status, 0, Panel.w - 354),
         DrawNamed(left, 93, "USER ", e.user, 420),
         draw_fit(left, 112, "MATRIX " \o Count(e.matrix_completed, 0), 0, 200),
         draw_fit(right, 112, "CELL " \o Count(e.current_cell, 1), 0, rest),
         DrawNamed(left, 151, "METHOD ", e.job_method, 230),
         draw_fit(right, 151, "DATA " \o e.dataset \o "  S" \o KnownOr("--", e.seed), 0, rest),
         draw_fit(left, 175, "ROUND " \o format_round(e.current_round, e.total_round), 0, 200),
         draw_fit(right, 175, "TIME " \o format_elapsed(e.elapsed_seconds, "H", "M"), 0, rest)}

DrawSecondCard(e) ==
    {Plain(22, 187, font_label, "SECOND EXPERIMENT", 1),
     DrawNamed(22, 204, "", e.name, 326), draw_fit(360, 204, e.status, 0, 98),
     DrawNamed(22, 221, "", e.user, 100),
     draw_fit(138, 221, "PROGRESS " \o (IF e.progress < 0 THEN "--"
                                        ELSE number_text(e.progress) \o "%"), 0, 110),
     draw_fit(260, 221, "ROUND " \o format_round(e.current_round, e.total_round), 0, 198)}

DrawPage(s) ==
    CASE Page(s) = "offline" -> {draw_fit(172, 96, "SERVER OFFLINE", 1, 136),
                                 draw_fit(150, 126, "NO LIVE SERVER DATA", 1, 180)}
      [] Page(s) = "error" -> {Plain(184, 112, font_large_number, server_badge(s), 2)}
      [] Page(s) = "idle" -> {Plain(184, 94, font_large_number, "IDLE", 2),
                              Plain(165, 132, font_label, "NO ACTIVE EXPERIMENT", 1)}
      [] Page(s) = "matrix" -> draw_matrix_experiment(s.experiment[1])
      [] Page(s) = "experiment" -> draw_experiment(s.experiment[1])

draw_quota_row(y, percent, reset) ==
    {draw_fit(10, y, IF percent < 0 THEN "--%" ELSE number_text(percent) \o "%", 0, 30),
     draw_fit(240, y, reset, 0, 90)}

Capitals == [fresh |-> "FRESH", stale |-> "STALE", offline |-> "OFFLINE", error |-> "ERROR",
             unknown |-> "UNKNOWN"]
Caution(s) == IF s.server_freshness # "fresh" THEN "SERVER " \o Capitals[s.server_freshness]
              ELSE "CODEX " \o Capitals[s.codex_freshness]

(* draw_footer_right clears its part before it draws, and with it the caution *)
(* that draw_footer has drawn there at another height.                        *)
draw_footer(s) ==
    (IF HasQuotas(s) THEN draw_quota_row(241, s.five_hour, s.five_hour_reset)
                          \cup draw_quota_row(256, s.week, s.week_reset)
                          \cup {draw_fit(334, 256, format_updated(s.updated_age_seconds), 0, 136)}
     ELSE {})
    \cup IF server_badge(s) # "OFFLINE"
            /\ (s.server_freshness # "fresh" \/ s.codex_freshness # "fresh")
         THEN {draw_fit(334, 241, Caution(s), 0, 136)} ELSE {}

draw_screen(s) ==
    draw_header(s) \cup DrawPage(s) \cup draw_footer(s)
    \cup IF HasSecondCard(s) THEN DrawSecondCard(s.experiment[2]) ELSE {}

-----------------------------------------------------------------------------
Beside(a, b) == \/ a.x + a.w <= b.x \/ b.x + b.w <= a.x
                \/ a.y + a.h <= b.y \/ b.y + b.h <= a.y

At(text, x, y) == text.x = x /\ text.y = y

(* The places that are too narrow for their numbers: the progress of the      *)
(* second card has room for one digit, the age of the data for two digits of  *)
(* hours, and the seed of a matrix stands behind a name that may fill its     *)
(* place; it is safe behind nine characters if it has no more than two digits.*)
CrampedProgress(s, text) == HasSecondCard(s) /\ s.experiment[2].progress >= 10 /\ At(text, 138, 221)
CrampedAge(s, text) == s.updated_age_seconds >= 100 * 3600 /\ At(text, 334, 256)
CrampedSeed(s, text) ==
    /\ Page(s) = "matrix" /\ At(text, 254, 151)
    /\ Len(s.experiment[1].dataset) > 9 \/ s.experiment[1].seed > 99
Cramped(s, text) == CrampedProgress(s, text) \/ CrampedAge(s, text) \/ CrampedSeed(s, text)

(* The sizes of numbers a page has room for: memory of three digits of GiB,   *)
(* rounds of 15 digits together and counts of 14.                             *)
Sized(s) ==
    /\ s.gpu_memory_used < 2000 /\ s.gpu_memory_total < 9990
    /\ \A i \in 1 .. s.experiment_count :
          LET e == s.experiment[i]
          IN  /\ Len(format_round(e.current_round, e.total_round)) <= 16
              /\ Len(number_text(e.matrix_completed) \o number_text(e.matrix_total)) <= 14
              /\ Len(number_text(e.current_cell) \o number_text(e.matrix_total)) <= 14

(* But for the three cramped places every label, word and number of such      *)
(* sizes is shown whole, whatever the names beside it, and only a name is     *)
(* cut; a text is wider than its place by no more than the character a short  *)
(* one keeps; no text is painted over another or out of the screen; and but   *)
(* for names and the large words IDLE and ERROR, which are set in a font of   *)
(* digits, every character has a glyph (draw_fit, draw_screen).               *)
NumbersWhole(s) ==
    LET all == draw_screen(s)
        Whole(t) == Len(t.shown) >= t.needed
                    /\ SubSeq(t.shown, 1, t.needed) = SubSeq(t.text, 1, t.needed)
    IN  Sized(s) =>
        \A t \in all :
           /\ Whole(t) \/ Cramped(s, t)
           /\ t.w <= t.max \/ (Len(t.shown) <= 5 /\ t.w <= t.max + 14)
           /\ t.x >= 0 /\ t.x + t.w <= 480 /\ t.y >= 0 /\ t.y + t.h <= 272
           /\ t.unseen = 0 \/ t.needed < Len(t.text) \/ CrampedSeed(s, t) \/ t.text \in {"IDLE", "ERROR"}
           /\ \A u \in all : t # u => Beside(t, u)

(* The second card shows its progress whole.                                  *)
CardProgressWhole(s) ==
    \A t \in draw_screen(s) : HasSecondCard(s) /\ At(t, 138, 221) => t.shown = t.text
=============================================================================
