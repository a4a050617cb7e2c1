---------------------------- MODULE TargetAlgorithms ----------------------------
(*****************************************************************************)
(* The pure algorithms of the programs on the board, checked over bounded     *)
(* inputs: the division of oabi_runtime.c as the machine it is, and the       *)
(* functions of codex_monitor.c and runboard.c against what they are for.     *)
(* A behaviour either divides, and then has no sample, or stands for one      *)
(* sample of a function's input and takes no step.                            *)
(*****************************************************************************)
EXTENDS OabiDivision, CodexScreen

Drawing == INSTANCE TargetDrawing
RunBoardPage == INSTANCE RunBoardScreen

CONSTANTS
    Lines,      \* lines a serial port may deliver to codex_monitor
    Dates,      \* pairs of a year and an offset from UTC in minutes
    Screens,    \* states of the codex_monitor screen
    Strokes,    \* sizes of lines and frames, as [dx, dy]
    Blends,     \* a field of a pixel, its length and a glyph's alpha, as [below, alpha, bits]
    Bars,       \* progress bars, as [width, height, value]
    Pages       \* states of the runboard screen

(* What a line is made of: see CodexQuota.                                    *)
Pieces == [key : STRING, text : Seq(0 .. 9 \cup {Minus, Other}), end : {"|", ">"}]
ASSUME LinesAssumption == Lines \subseteq Seq(Pieces)

(* A 32-bit time ends in 2106; parse_quota_frame takes offsets of a day.      *)
ASSUME DatesAssumption == Dates \subseteq [year : 1970 .. 2105, offset : -1440 .. 1440]

(* The length of a field of a 16-bit pixel, whose value fits it; an alpha with *)
(* one above it; a bar with a border around it.                                *)
ASSUME StrokesAssumption == Strokes \subseteq [dx : Int, dy : Int]
ASSUME BlendsAssumption ==
    /\ Blends \subseteq [below : Nat, alpha : 0 .. 254, bits : 0 .. 8]
    /\ \A b \in Blends : b.below <= Drawing!Full(b.bits)
ASSUME BarsAssumption ==
    /\ Bars \subseteq [width : Int, height : Int, value : Int]
    /\ \A b \in Bars : b.width >= 2 /\ b.height >= 2

VARIABLES kind, sample      \* what the sample is one of; "division" has none

allVars == <<vars, kind, sample>>

Sampled(name, S) == kind = name /\ sample \in S

SampleInit ==
    /\ pc = "done" /\ call = [op |-> "__udivsi3", a |-> 0, b |-> 0]
    /\ divisor = 0 /\ dividend = 0 /\ quotient = 0 /\ bit = -1 /\ result = 0
    /\ \/ Sampled("line", Lines) \/ Sampled("date", Dates)
       \/ Sampled("screen", Screens) \/ Sampled("page", Pages)
       \/ Sampled("stroke", Strokes) \/ Sampled("blend", Blends) \/ Sampled("bar", Bars)

AllInit == SampleInit \/ (Init /\ kind = "division" /\ sample = 0)

AllSpec == AllInit /\ [][Next /\ UNCHANGED <<kind, sample>>]_allVars

-----------------------------------------------------------------------------
(* The board and the host read every sampled line alike, and the board's      *)
(* parser always comes to an answer, with the named exceptions                *)
(* (parse_quota_frame and ProtocolParser.TryParse; see FrameAgrees).          *)
FrameAgreesWithHost == kind = "line" => FrameAgrees(sample)

(* Every day of the years a board's clock can show has its calendar date,     *)
(* over leap days, years and offsets (local_date_time; see DatesAgree).       *)
DateIsCalendar == kind = "date" => DatesAgree(sample.year, sample.offset)

(* What is painted lies where it is meant to: strokes, frames and bars on     *)
(* their pixels, and mixed colours between the two they are mixed of          *)
(* (draw_line, draw_rect, draw_progress_bar, draw_alpha_pixel; see FrameTrue, *)
(* BarTrue and BlendsBetween).                                                *)
PaintsRight ==
    /\ kind = "stroke" => Drawing!FrameTrue(sample.dx, sample.dy)
    /\ kind = "blend" => Drawing!BlendsBetween(sample.below, sample.alpha, sample.bits)
    /\ kind = "bar" => Drawing!BarTrue(sample.width, sample.height, sample.value)

(* On the codex_monitor screen texts lie beside each other and within what is *)
(* cleared before the next repaint; on the runboard screen only names are cut *)
(* but for three named places, and the labels, words and numbers of every     *)
(* other text are shown whole, up to the sizes Sized names (draw_screen and   *)
(* draw_fit; see ScreenFits, NumbersWhole).                                   *)
TextsWhole ==
    /\ kind = "screen" => ScreenFits(sample)
    /\ kind = "page" => RunBoardPage!NumbersWhole(sample)

-----------------------------------------------------------------------------
(* A statement the code does not keep: the progress of the second experiment  *)
(* is shown whole, as it is in the preview of the screen ("PROGRESS 31%",     *)
(* test_preview_render.py:102).  Its place on the board is 110 pixels wide    *)
(* (runboard.c:123), three less than that text (draw_fit).                    *)
SecondProgressWhole == kind = "page" => RunBoardPage!CardProgressWhole(sample)
=============================================================================
