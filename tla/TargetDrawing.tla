----------------------------- MODULE TargetDrawing -----------------------------
(*****************************************************************************)
(* How the programs on the board paint (codex_monitor.c, and the same idea    *)
(* in runboard.c): colours of a framebuffer field, blending a glyph's edge,   *)
(* lines, frames and progress bars as sets of pixels.                         *)
(*****************************************************************************)
EXTENDS Integers

-----------------------------------------------------------------------------
(* Colours.  A field of a pixel has 'length' bits, so (1 << length) - 1 is     *)
(* its full value; 8-bit components are scaled to it and back.                *)

Shifted[length \in 0 .. 31] == IF length = 0 THEN 1 ELSE 2 * Shifted[length - 1]
Full(length) == Shifted[length] - 1

pack_component(value, length) ==
    IF length = 0 THEN 0 ELSE (value * Full(length) + 127) \div 255

rgb565_component(value, length) ==
    IF length = 0 THEN 0
    ELSE ((value % Shifted[length]) * 255 + Full(length) \div 2) \div Full(length)

blend_component(background, foreground, alpha) ==
    (background * (255 - alpha) + foreground * alpha + 127) \div 255

(* draw_alpha_pixel for one field of a pixel: the glyph's alpha mixes the     *)
(* colour there with the text's.                                              *)
draw_alpha_pixel(below, color, alpha, length) ==
    IF alpha = 0 THEN below
    ELSE IF alpha = 255 THEN color
    ELSE pack_component(blend_component(rgb565_component(below, length),
                                        rgb565_component(color, length), alpha), length)

(* A glyph's edge never leaves the range between the colour below it and its  *)
(* own, and more alpha never brings it further from its own; so a fully drawn *)
(* text over a cleared box has no stray colours (draw_alpha_pixel).           *)
BlendsBetween(below, alpha, length) ==
    \A color \in 0 .. Full(length) :
        LET shown == draw_alpha_pixel(below, color, alpha, length)
            more == draw_alpha_pixel(below, color, alpha + 1, length)
        IN  IF below <= color THEN below <= shown /\ shown <= more /\ more <= color
            ELSE color <= more /\ more <= shown /\ shown <= below

-----------------------------------------------------------------------------
(* Shapes.                                                                   *)

Magnitude(n) == IF n < 0 THEN -n ELSE n
Sign(from, to) == IF from < to THEN 1 ELSE -1

fill_rect(x, y, width, height) == (x .. x + width - 1) \X (y .. y + height - 1)

(* The second test sees the error the first one has changed, so a slanted     *)
(* line may pass its end and never stop; the programs draw only upright and   *)
(* level ones.                                                                *)
Pens == [x : Int, y : Int, error : Int]

Moved(x0, y0, x1, y1, pen) ==
    LET dx == Magnitude(x1 - x0)
        dy == -Magnitude(y1 - y0)
        across == 2 * pen.error >= dy
        after == pen.error + IF across THEN dy ELSE 0
        down == 2 * after <= dx
    IN  [x |-> pen.x + IF across THEN Sign(x0, x1) ELSE 0,
         y |-> pen.y + IF down THEN Sign(y0, y1) ELSE 0,
         error |-> after + IF down THEN dx ELSE 0]

Drawn(x0, y0, x1, y1) ==
    LET From[pen \in Pens] ==
            {<<pen.x, pen.y>>}
            \cup IF pen.x = x1 /\ pen.y = y1 THEN {} ELSE From[Moved(x0, y0, x1, y1, pen)]
    IN  From

draw_line(x0, y0, x1, y1) ==
    Drawn(x0, y0, x1, y1)[[x |-> x0, y |-> y0,
                           error |-> Magnitude(x1 - x0) - Magnitude(y1 - y0)]]

draw_rect(x, y, width, height) ==
    draw_line(x, y, x + width - 1, y) \cup draw_line(x, y, x, y + height - 1)
    \cup draw_line(x + width - 1, y, x + width - 1, y + height - 1)
    \cup draw_line(x, y + height - 1, x + width - 1, y + height - 1)

(* line_rect of runboard.c: the same frame, drawn in two loops.               *)
line_rect(x, y, width, height) ==
    ((x .. x + width - 1) \X {y, y + height - 1})
    \cup ({x, x + width - 1} \X (y .. y + height - 1))

Percent(percentage) == IF percentage < 0 THEN 0
                       ELSE IF percentage > 100 THEN 100 ELSE percentage

(* The filled part of a bar at 0, 0: in codex_monitor.c next to the border,   *)
(* in runboard.c within a track.                                              *)
\* Mutant: the filling does not allow for the second side of the border.
CodexOverfill(width, height, percentage) ==
    fill_rect(1, 1, ((width - 1) * Percent(percentage)) \div 100, height - 2)

CodexFill(width, height, percentage) ==
    fill_rect(1, 1, ((width - 2) * Percent(percentage)) \div 100, height - 2)
RunBoardFill(width, height, value) ==
    IF value < 0 THEN {} ELSE fill_rect(2, 2, ((width - 4) * Percent(value)) \div 100, height - 4)

(* A level or an upright line is the straight one between its ends, whichever *)
(* way it is drawn, and the frame made of four of them is the border of its   *)
(* rectangle, as the loops of the other program paint it (draw_line,          *)
(* draw_rect, line_rect).                                                     *)
FrameTrue(dx, dy) ==
    LET Between(n) == (0 .. n) \cup (n .. 0)
    IN  /\ draw_line(0, 0, dx, 0) = Between(dx) \X {0}
        /\ draw_line(0, 0, 0, dy) = {0} \X Between(dy)
        /\ dx >= 0 /\ dy >= 0 => /\ draw_rect(0, 0, dx + 1, dy + 1) = line_rect(0, 0, dx + 1, dy + 1)
                                 /\ draw_rect(0, 0, dx + 1, dy + 1) =
                                       fill_rect(0, 0, dx + 1, dy + 1) \ fill_rect(1, 1, dx - 1, dy - 1)

(* A bar's filling stays clear of its border, grows with the value, and is    *)
(* empty at 0 and whole at 100 whatever number arrives (draw_progress_bar of  *)
(* both programs).                                                            *)
BarTrue(width, height, value) ==
    LET border == draw_rect(0, 0, width, height)
        inner == fill_rect(1, 1, width - 2, height - 2)
        Fills(Fill(_, _, _), whole) ==
            /\ Fill(width, height, value) \subseteq inner
            /\ Fill(width, height, value) \subseteq Fill(width, height, value + 1)
            /\ value <= 0 => Fill(width, height, value) = {}
            /\ value >= 100 => Fill(width, height, value) = whole
    IN  /\ inner \cap border = {}
        /\ Fills(CodexFill, inner)
        /\ Fills(RunBoardFill, fill_rect(2, 2, width - 4, height - 4))
=============================================================================
