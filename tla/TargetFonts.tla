------------------------------ MODULE TargetFonts ------------------------------
(*****************************************************************************)
(* The bitmap fonts of both programs on the board (font_data.h) and what text *)
(* in them measures.  A face gives each width its characters; in all faces a  *)
(* glyph is as wide as it advances and its first row holds a pixel, so that   *)
(* its pixels end where "bottoms" says, or at the height of the face.         *)
(*****************************************************************************)
EXTENDS Integers, Sequences, SequencesExt, TLC

font_header == [
    height  |-> 20,
    bottoms |-> (0 :> " ") @@ (23 :> "/") @@ (15 :> ":") @@ (4 :> ".-") @@ (24 :> "Q"),
    widths  |-> (7 :> " ") @@ (8 :> ":.") @@ (9 :> "I") @@ (11 :> "-") @@ (12 :> "/")
             @@ (15 :> "L") @@ (16 :> "0123456789FS") @@ (17 :> "CEJTYZ")
             @@ (18 :> "BPRVX") @@ (19 :> "ADGKU") @@ (20 :> "HOQ") @@ (21 :> "N")
             @@ (25 :> "%M") @@ (27 :> "W")]

font_label == [
    height  |-> 11,
    bottoms |-> (0 :> " ") @@ (12 :> "/") @@ (8 :> ":") @@ (2 :> ".-") @@ (14 :> "Q"),
    widths  |-> (4 :> " :.I") @@ (6 :> "/-") @@ (8 :> "L") @@ (9 :> "0123456789CEFJSTYZ")
             @@ (10 :> "ABDGKPRUVX") @@ (11 :> "HNOQ") @@ (13 :> "%M") @@ (14 :> "W")]

font_large_number == [
    height  |-> 29,
    bottoms |-> (5 :> "-"),
    widths  |-> (16 :> "-") @@ (24 :> "0123456789") @@ (37 :> "%")]

font_reset_time == [
    height  |-> 19,
    bottoms |-> (0 :> " ") @@ (21 :> "/") @@ (15 :> ":") @@ (4 :> ".") @@ (3 :> "-") @@ (23 :> "Q"),
    widths  |-> (6 :> " ") @@ (7 :> ":.") @@ (8 :> "I") @@ (10 :> "-") @@ (11 :> "/")
             @@ (15 :> "L") @@ (16 :> "0123456789EFJSTYZ") @@ (17 :> "CPRVX")
             @@ (18 :> "ABGK") @@ (19 :> "DHOQU") @@ (20 :> "N") @@ (24 :> "%M") @@ (25 :> "W")]

-----------------------------------------------------------------------------
Chars(text) == [i \in 1 .. Len(text) |-> SubSeq(text, i, i)]
Holds(text, char) == \E i \in 1 .. Len(text) : SubSeq(text, i, i) = char
Total(numbers) == FoldLeft(LAMBDA sum, n : sum + n, 0, numbers)
Highest(S) == CHOOSE n \in S : \A m \in S : m <= n

font_find(font, char) == {w \in DOMAIN font.widths : Holds(font.widths[w], char)}
HasGlyph(font, char) == font_find(font, char) # {}
Glyphs(font, text) == SelectSeq(Chars(text), LAMBDA char : HasGlyph(font, char))

Advance(font, char) == CHOOSE w \in font_find(font, char) : TRUE
Bottom(font, char) == IF \E h \in DOMAIN font.bottoms : Holds(font.bottoms[h], char)
                      THEN CHOOSE h \in DOMAIN font.bottoms : Holds(font.bottoms[h], char)
                      ELSE font.height

Advances(font, text) == LET glyphs == Glyphs(font, text)
                        IN  Total([i \in DOMAIN glyphs |-> Advance(font, glyphs[i])])
Gaps(count, spacing) == IF count > 1 THEN (count - 1) * spacing ELSE 0

(* The codex program counts a gap for a character it has no glyph for, the    *)
(* runboard program does not; neither draws anything for it.                  *)
measure_text(font, text, spacing) == Advances(font, text) + Gaps(Len(text), spacing)
text_width(font, text, spacing) == Advances(font, text) + Gaps(Len(Glyphs(font, text)), spacing)

(* The rows with pixels: the first is row 0 unless there is none.             *)
measure_text_bounds(font, text) ==
    LET glyphs == Glyphs(font, text)
    IN  Highest({0} \cup {Bottom(font, glyphs[i]) : i \in DOMAIN glyphs})

centered_text_y(font, text, box_y, box_height) ==
    LET bottom == measure_text_bounds(font, text)
    IN  IF bottom = 0 THEN box_y ELSE box_y + (box_height - bottom) \div 2

(* What draw_text paints: from x, y as wide as the glyphs and their gaps.     *)
draw_text(x, y, font, text, spacing) ==
    [x |-> x, y |-> y, text |-> text, unseen |-> Len(text) - Len(Glyphs(font, text)),
     w |-> text_width(font, text, spacing), h |-> measure_text_bounds(font, text)]
=============================================================================
