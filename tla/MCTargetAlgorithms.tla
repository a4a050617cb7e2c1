-------------------------- MODULE MCTargetAlgorithms --------------------------
EXTENDS TargetAlgorithms

MCPow == [i \in 0 .. W |-> 2 ^ i]

-----------------------------------------------------------------------------
(* Lines: a good frame with two changes, each of a text, an end, a key, a     *)
(* missing, a repeated or a moved piece.  The texts hold the ends of every    *)
(* range and the numbers at which the 32-bit types wrap.                      *)

DigitsOf[n \in Nat] == IF n < 10 THEN <<n>> ELSE Append(DigitsOf[n \div 10], n % 10)
Texts == {<<>>, <<Minus>>, <<Minus, 1>>, <<Minus, 2>>, <<Minus, 1, 4, 4, 1>>, <<5, Other>>}
         \cup {DigitsOf[n] : n \in {0, 100, 101, 1440, 1441, LongMax, LongMax + 1, 2 * LongMax + 1,
                                    2 * LongMax + 2, 2 * LongMax + 5}}

Piece(key, text, end) == [key |-> key, text |-> text, end |-> end]
GoodFrame == <<Piece("CQM1", <<>>, "|"), Piece("5H", <<7>>, "|"), Piece("5HR", <<7>>, "|"),
               Piece("W", <<7>>, "|"), Piece("WR", <<7>>, "|"), Piece("RC", <<7>>, "|"),
               Piece("NOW", <<7>>, "|"), Piece("TZ", <<7>>, ">")>>

Changes == ({"text"} \X (1 .. 8) \X Texts)
           \cup ({"drop", "end", "key", "swap"} \X (1 .. 8) \X {<<>>})
           \cup ({"repeat"} \X (1 .. 8) \X {<<>>, <<1>>, <<Minus, 5>>})
Change(line, c) ==
    LET i == c[2]
    IN  IF i > Len(line) THEN line
        ELSE CASE c[1] = "text" -> [line EXCEPT ![i].text = c[3]]
               [] c[1] = "drop" -> RemoveAt(line, i)
               [] c[1] = "end" -> [line EXCEPT ![i].end = IF @ = ">" THEN "|" ELSE ">"]
               [] c[1] = "key" -> [line EXCEPT ![i].key = "X"]
               [] c[1] = "repeat" -> InsertAt(line, i, Piece(line[i].key, c[3], "|"))
               [] c[1] = "swap" ->
                    IF i = Len(line) THEN line
                    ELSE [line EXCEPT ![i] = [line[i + 1] EXCEPT !.end = "|"],
                                      ![i + 1] = [line[i] EXCEPT !.end = line[i + 1].end]]
MCLines == {Change(Change(GoodFrame, c), d) : c, d \in Changes}

-----------------------------------------------------------------------------
(* 1970 .. 2105 are the years of an unsigned long of seconds; the first and   *)
(* the last one without an offset.                                            *)
MCDates == [year : 1970 .. 2105, offset : {0}]
           \cup [year : 1971 .. 2104, offset : {-1440, -300, 345, 480, 1440}]

MCBlends == [below : 0 .. 31, alpha : 0 .. 254, bits : {5}]
            \cup [below : 0 .. 63, alpha : 0 .. 254, bits : {6}]
            \cup [below : {0}, alpha : {0, 1, 254}, bits : {0}]
MCStrokes == [dx : -7 .. 7, dy : -7 .. 7]
MCBars == [width : {2, 3, 10, 24}, height : {12}, value : -2 .. 102]

-----------------------------------------------------------------------------
(* Screens of codex_monitor: both cards at their narrowest and widest under   *)
(* one footer, and every footer under one body.                               *)
Evening == 1440 * 20400 + 1439
MCScreens ==
    [valid : BOOLEAN, five : {0, 9, 10, 99, 100}, five_reset : {0, Evening},
     week : {0, 58, 100}, week_reset : {0, 1440 * 20089 + 59, 1440 * 20440 + 1439},
     cards : {-1}, zone : {480}, age : {0}, now : {1440 * 20089 + 59}]
    \cup
    [valid : {TRUE}, five : {100}, five_reset : {Evening}, week : {100}, week_reset : {Evening},
     cards : {-1, 0, 12, 99999}, zone : {480}, age : {0, 9, 10, 59, 60, 3599, 3600, 35999999},
     now : {1440 * 20089 + 59, 1440 * 20440 + 1439}]

-----------------------------------------------------------------------------
(* Pages of runboard: short, long and unknown values on every page.  Full     *)
(* has the longest numbers there is room for, and names that leave none over. *)
Short == [name |-> "RUN", user |-> "ME", status |-> "RUNNING", progress |-> 5,
          current_round |-> 1, total_round |-> 50, elapsed_seconds |-> 59, dataset |-> "CIFAR-100",
          seed |-> 42, job_name |-> "J", job_method |-> "M",
          matrix_completed |-> 0, matrix_total |-> 45, current_cell |-> 1]
Wordy == [name |-> "A_LONG_EXPERIMENT_NAME_WITH_MANY_WORDS_IN_IT",
          user |-> "SOMEBODY_WITH_A_LONG_USER_NAME", status |-> "COMPLETED", progress |-> 100,
          current_round |-> 1000, total_round |-> 10000, elapsed_seconds |-> 359999,
          dataset |-> "A_LONG_DATASET_NAME_OF_MANY_WORDS", seed |-> 123456,
          job_name |-> "A_LONG_JOB_NAME_WITH_SO_MANY_WORDS_THAT_IT_IS_CUT",
          job_method |-> "A_METHOD_WITH_A_NAME_THAT_IS_CUT",
          matrix_completed |-> 999, matrix_total |-> 1000, current_cell |-> 1000]
Full == [name |-> "W", user |-> "W", status |-> "COMPLETED", progress |-> 9,
         current_round |-> 1000000, total_round |-> 10000000, elapsed_seconds |-> 1000000000,
         dataset |-> "WWWWWWWWW", seed |-> 99, job_name |-> "W", job_method |-> "W",
         matrix_completed |-> 1000000, matrix_total |-> 1000000, current_cell |-> 1000000]
Unknown == [name |-> "--", user |-> "--", status |-> "UNKNOWN", progress |-> -1,
            current_round |-> -1, total_round |-> -1, elapsed_seconds |-> -1, dataset |-> "--",
            seed |-> -1, job_name |-> "--", job_method |-> "--",
            matrix_completed |-> -1, matrix_total |-> -1, current_cell |-> -1]
Widest == [valid |-> TRUE, server |-> "A-LONG-SERVER-NAME-WITH-WORDS", codex_freshness |-> "error",
           cpu |-> 100, ram |-> 100, gpu |-> 100, gpu_memory_used |-> 1409,
           gpu_memory_total |-> 9989, current_time |-> "23:59", five_hour |-> 100,
           five_hour_reset |-> "12-31 23:59", week |-> 88, week_reset |-> "UNKNOWN",
           updated_age_seconds |-> 359999]
Emptiest == [valid |-> TRUE, server |-> "SERVER-01", codex_freshness |-> "fresh",
             cpu |-> -1, ram |-> -1, gpu |-> -1, gpu_memory_used |-> -1,
             gpu_memory_total |-> -1, current_time |-> "--:--", five_hour |-> -1,
             five_hour_reset |-> "--", week |-> 0, week_reset |-> "UNKNOWN",
             updated_age_seconds |-> -1]

PageOf(base, status, freshness, matrix, running) ==
    base @@ [server_status |-> status, server_freshness |-> freshness, matrix_total |-> matrix,
             experiment_count |-> Len(running),
             experiment |-> [i \in 1 .. 2 |-> [(IF i <= Len(running) THEN running[i] ELSE Unknown)
                                                 EXCEPT !.matrix_total = matrix]]]
Older == [Emptiest EXCEPT !.updated_age_seconds = 360000]
MCPages ==
    {PageOf(base, "online", "fresh", m, e) :
        base \in {Widest, Emptiest}, m \in {-1, 45, 1000000},
        e \in {<<>>, <<Short>>, <<Wordy>>, <<Full>>, <<Unknown>>, <<Short, Wordy>>, <<Wordy, Short>>,
               <<Full, Full>>, <<Unknown, Unknown>>}}
    \cup
    {PageOf(base, status, freshness, -1, e) :
        base \in {Widest, Emptiest, Older}, status \in {"online", "degraded", "offline"},
        freshness \in {"fresh", "stale", "offline", "error"}, e \in {<<>>, <<Wordy>>}}

(* Two experiments of which the second has come to n percent.                 *)
MCTwoCards == {PageOf(Widest, "online", "fresh", -1, <<Short, [Short EXCEPT !.progress = n]>>) : n \in 0 .. 100}
=============================================================================
