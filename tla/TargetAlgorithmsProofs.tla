------------------------- MODULE TargetAlgorithmsProofs -------------------------
(*****************************************************************************)
(* What TargetAlgorithms samples, for every input: how the board and the host *)
(* read a frame (codex_monitor.c, ProtocolParser), over lines of any length   *)
(* and integers of any width, and the dates the board shows                   *)
(* (local_date_time), over every day and time of day of every year it can     *)
(* show, and the strokes, bars and mixed colours it paints (draw_line,        *)
(* draw_progress_bar, draw_alpha_pixel), of any size.                         *)
(*                                                                            *)
(* The two readings of a number go through its digits, so the facts about     *)
(* them are proved by induction over the digits read.  An induction is stated *)
(* of a set of numbers (SetInduction), not of a predicate.                    *)
(*****************************************************************************)
EXTENDS TargetAlgorithms, TLAPS, WellFoundedInduction

(* What holds of 0 and of n + 1 where it holds of n holds of every number: a  *)
(* number without it would have a least one before it.                        *)
LEMMA SetInduction ==
    ASSUME NEW S, 0 \in S, \A n \in Nat : n \in S => n + 1 \in S
    PROVE  Nat \subseteq S
<1> DEFINE R == OpToRel(<, Nat)
           T == Nat \ S
<1>1. IsWellFoundedOn(R, Nat)
  BY NatLessThanWellFounded
<1>2. ASSUME T # {} PROVE FALSE
  <2>1. T \subseteq Nat
    OBVIOUS
  <2> HIDE DEF R, T
  <2>2. PICK x \in T : \A y \in T : <<y, x>> \notin R
    BY <1>1, <1>2, <2>1, WFMin
  <2>3. x \in Nat /\ x \notin S
    BY <2>2 DEF T
  <2>4. x - 1 \in Nat /\ x = x - 1 + 1
    BY <2>3
  <2>5. x - 1 \in T
    BY <2>3, <2>4 DEF T
  <2>6. <<x - 1, x>> \in R
    BY <2>3, <2>4 DEF R, OpToRel
  <2> QED
    BY <2>2, <2>5, <2>6
<1> QED
  BY <1>2

\* A function on 0 .. N is made from its value at 0 and a step, one value at a time.
LEMMA StepByStep ==
    ASSUME NEW N \in Nat, NEW step \in [(1 .. N) \X Int -> Int]
    PROVE  \E f \in [0 .. N -> Int] : f[0] = 0 /\ \A n \in 1 .. N : f[n] = step[<<n, f[n - 1]>>]
<1> DEFINE Upto(k, f) == f[0] = 0 /\ \A n \in 1 .. k : f[n] = step[<<n, f[n - 1]>>]
           S == {k \in Nat : k <= N => \E f \in [0 .. k -> Int] : Upto(k, f)}
<1>1. 0 \in S
  <2>1. Upto(0, [n \in 0 .. 0 |-> 0]) /\ [n \in 0 .. 0 |-> 0] \in [0 .. 0 -> Int]
    OBVIOUS
  <2> QED
    BY <2>1
<1>2. ASSUME NEW k \in Nat, k \in S PROVE k + 1 \in S
  <2>1. SUFFICES ASSUME k + 1 <= N PROVE \E g \in [0 .. k + 1 -> Int] : Upto(k + 1, g)
    OBVIOUS
  <2>2. PICK f \in [0 .. k -> Int] : Upto(k, f)
    BY <1>2, <2>1
  <2> DEFINE g == [n \in 0 .. k + 1 |-> IF n = k + 1 THEN step[<<n, f[k]>>] ELSE f[n]]
  <2>3. g \in [0 .. k + 1 -> Int]
    BY <2>1
  <2>4. Upto(k + 1, g)
    BY <2>2
  <2> QED
    BY <2>3, <2>4
<1> HIDE DEF S
<1>3. Nat \subseteq S
  BY <1>1, <1>2, SetInduction
<1>4. N \in S
  BY <1>3
<1>5. PICK f \in [0 .. N -> Int] : Upto(N, f)
  BY <1>4 DEF S
<1> QED
  BY <1>5

-----------------------------------------------------------------------------
(* Numbers.                                                                  *)

(* The rest that a long keeps of an integer is an integer.                    *)
LEMMA WrappedInt ==
    ASSUME NEW n \in Int
    PROVE  Wrapped(n) \in Int
BY LongAssumption, SMT DEF Wrapped

(* The loop of parse_integer has made 0 of no digit, and of every further one *)
(* what its body makes of the digits before it.                               *)
LEMMA ReadingIs ==
    ASSUME NEW digits \in Seq(0 .. 9)
    PROVE  /\ Reading(digits)[0] = 0
           /\ \A n \in 1 .. Len(digits) :
                 Reading(digits)[n] = Wrapped(Reading(digits)[n - 1] * 10 + digits[n])
<1> DEFINE N == Len(digits)
           step == [p \in (1 .. N) \X Int |-> Wrapped(p[2] * 10 + digits[p[1]])]
           Body(f) == [n \in 0 .. Len(digits) |->
                        IF n = 0 THEN 0 ELSE Wrapped(f[n - 1] * 10 + digits[n])]
<1>1. N \in Nat
  OBVIOUS
<1>2. Reading(digits) = CHOOSE f : f = Body(f)
  BY DEF Reading
<1>3. step \in [(1 .. N) \X Int -> Int]
  <2>1. ASSUME NEW p \in (1 .. N) \X Int PROVE Wrapped(p[2] * 10 + digits[p[1]]) \in Int
    <3>1. p[2] \in Int /\ p[1] \in 1 .. N
      OBVIOUS
    <3>2. digits[p[1]] \in Int
      BY <3>1
    <3>3. p[2] * 10 + digits[p[1]] \in Int
      BY <3>1, <3>2
    <3> QED
      BY <3>3, WrappedInt
  <2> QED
    BY <2>1
<1> HIDE DEF step
<1>4. PICK f \in [0 .. N -> Int] : f[0] = 0 /\ \A n \in 1 .. N : f[n] = step[<<n, f[n - 1]>>]
  BY <1>1, <1>3, StepByStep
<1>5. ASSUME NEW n \in 1 .. N PROVE f[n] = Wrapped(f[n - 1] * 10 + digits[n])
  <2>1. f[n - 1] \in Int
    BY <1>1, <1>4
  <2>2. step[<<n, f[n - 1]>>] = Wrapped(f[n - 1] * 10 + digits[n])
    BY <2>1 DEF step
  <2> QED
    BY <1>4, <2>2
<1>6. f = Body(f)
  BY <1>1, <1>4, <1>5
<1>7. Reading(digits) = Body(Reading(digits))
  BY <1>2, <1>6
<1> QED
  BY <1>7

(* After any number of digits the loop of parse_integer holds an integer.     *)
LEMMA ReadingInt ==
    ASSUME NEW digits \in Seq(0 .. 9), NEW n \in 0 .. Len(digits)
    PROVE  Reading(digits)[n] \in Int
<1> DEFINE S == {k \in Nat : k <= Len(digits) => Reading(digits)[k] \in Int}
<1>1. 0 \in S
  BY ReadingIs
<1>2. ASSUME NEW k \in Nat, k \in S PROVE k + 1 \in S
  <2>1. SUFFICES ASSUME k + 1 <= Len(digits) PROVE Reading(digits)[k + 1] \in Int
    OBVIOUS
  <2>2. Reading(digits)[k] \in Int /\ k + 1 \in 1 .. Len(digits) /\ k + 1 - 1 = k
    BY <1>2, <2>1
  <2>3. digits[k + 1] \in Int
    BY <2>2
  <2>4. Reading(digits)[k + 1] = Wrapped(Reading(digits)[k] * 10 + digits[k + 1])
    BY <2>2, ReadingIs
  <2>5. Reading(digits)[k] * 10 + digits[k + 1] \in Int
    BY <2>2, <2>3
  <2> QED
    BY <2>4, <2>5, WrappedInt
<1> HIDE DEF S
<1>3. Nat \subseteq S
  BY <1>1, <1>2, SetInduction
<1>4. n \in S
  BY <1>3
<1> QED
  BY <1>4 DEF S

(* The same of the host's reading: past its limit it takes no further digit.  *)
LEMMA HostReadingIs ==
    ASSUME NEW digits \in Seq(0 .. 9), NEW limit \in Nat
    PROVE  /\ HostReading(digits, limit)[0] = 0
           /\ \A n \in 1 .. Len(digits) :
                 HostReading(digits, limit)[n]
                   = IF HostReading(digits, limit)[n - 1] > limit
                     THEN HostReading(digits, limit)[n - 1]
                     ELSE HostReading(digits, limit)[n - 1] * 10 + digits[n]
<1> DEFINE N == Len(digits)
           step == [p \in (1 .. N) \X Int |->
                       IF p[2] > limit THEN p[2] ELSE p[2] * 10 + digits[p[1]]]
           Body(f) == [n \in 0 .. Len(digits) |->
                        IF n = 0 THEN 0
                        ELSE IF f[n - 1] > limit THEN f[n - 1] ELSE f[n - 1] * 10 + digits[n]]
<1>0. N \in Nat
  OBVIOUS
<1>1. HostReading(digits, limit) = CHOOSE f : f = Body(f)
  BY DEF HostReading
<1>2. step \in [(1 .. N) \X Int -> Int]
  <2>1. ASSUME NEW p \in (1 .. N) \X Int
        PROVE  (IF p[2] > limit THEN p[2] ELSE p[2] * 10 + digits[p[1]]) \in Int
    <3>1. p[2] \in Int /\ p[1] \in 1 .. N
      OBVIOUS
    <3>2. digits[p[1]] \in Int
      BY <3>1
    <3> QED
      BY <3>1, <3>2
  <2> QED
    BY <2>1
<1> HIDE DEF step
<1>3. PICK f \in [0 .. N -> Int] : f[0] = 0 /\ \A n \in 1 .. N : f[n] = step[<<n, f[n - 1]>>]
  BY <1>0, <1>2, StepByStep
<1>4. ASSUME NEW n \in 1 .. N
      PROVE  f[n] = IF f[n - 1] > limit THEN f[n - 1] ELSE f[n - 1] * 10 + digits[n]
  <2>1. f[n - 1] \in Int
    BY <1>0, <1>3
  <2>2. step[<<n, f[n - 1]>>] = IF f[n - 1] > limit THEN f[n - 1] ELSE f[n - 1] * 10 + digits[n]
    BY <2>1 DEF step
  <2> QED
    BY <1>3, <2>2
<1>5. f = Body(f)
  BY <1>0, <1>3, <1>4
<1>6. HostReading(digits, limit) = Body(HostReading(digits, limit))
  BY <1>1, <1>5
<1> QED
  BY <1>6

(* An integer that fits is not changed by the width of a long.                *)
LEMMA WrappedSame ==
    ASSUME NEW n \in Int, n <= LongMax, -n <= LongMax
    PROVE  Wrapped(n) = n
BY LongAssumption, SMT DEF Wrapped

(* As long as the size of a number fits into a long, the board has read it, and*)
(* the host has read it whatever its limit.                                   *)
LEMMA ReadAlike ==
    ASSUME NEW digits \in Seq(0 .. 9), NEW n \in 0 .. Len(digits)
    PROVE  LET size == HostReading(digits, LongMax)[n]
           IN  /\ size \in Nat
               /\ size <= LongMax => /\ Reading(digits)[n] = size
                                     /\ HostReading(digits, 2 * LongMax + 1)[n] = size
<1> DEFINE h == HostReading(digits, LongMax)
           u == HostReading(digits, 2 * LongMax + 1)
           r == Reading(digits)
           S == {k \in Nat : k <= Len(digits) =>
                     /\ h[k] \in Nat
                     /\ h[k] <= LongMax => r[k] = h[k] /\ u[k] = h[k]}
<1>0. LongMax \in Nat /\ 2 * LongMax + 1 \in Nat /\ 2 * LongMax + 1 >= LongMax
  BY LongAssumption
<1>1. 0 \in S
  BY <1>0, ReadingIs, HostReadingIs
<1>2. ASSUME NEW k \in Nat, k \in S PROVE k + 1 \in S
  <2>1. SUFFICES ASSUME k + 1 <= Len(digits)
                 PROVE  /\ h[k + 1] \in Nat
                        /\ h[k + 1] <= LongMax => r[k + 1] = h[k + 1] /\ u[k + 1] = h[k + 1]
    OBVIOUS
  <2>2. /\ h[k] \in Nat /\ (h[k] <= LongMax => r[k] = h[k] /\ u[k] = h[k])
        /\ k + 1 \in 1 .. Len(digits) /\ k + 1 - 1 = k
    BY <1>2, <2>1
  <2>3. digits[k + 1] \in 0 .. 9
    BY <2>2
  <2>4. h[k + 1] = IF h[k] > LongMax THEN h[k] ELSE h[k] * 10 + digits[k + 1]
    BY <1>0, <2>2, HostReadingIs
  <2>5. u[k + 1] = IF u[k] > 2 * LongMax + 1 THEN u[k] ELSE u[k] * 10 + digits[k + 1]
    BY <1>0, <2>2, HostReadingIs
  <2>6. r[k + 1] = Wrapped(r[k] * 10 + digits[k + 1])
    BY <2>2, ReadingIs
  <2> HIDE DEF h, u, r
  <2>7. h[k + 1] \in Nat
    <3>1. \A size \in Nat, digit \in 0 .. 9 : size * 10 + digit \in Nat
      OBVIOUS
    <3>2. h[k] \in Nat
      BY <2>2
    <3> QED
      BY <2>3, <2>4, <3>1, <3>2
  <2>8. ASSUME h[k + 1] <= LongMax PROVE r[k + 1] = h[k + 1] /\ u[k + 1] = h[k + 1]
    <3>1. h[k] <= LongMax /\ h[k + 1] = h[k] * 10 + digits[k + 1]
      BY <1>0, <2>2, <2>4, <2>8
    <3>2. r[k + 1] = Wrapped(h[k + 1])
      BY <2>2, <2>6, <3>1
    <3>3. u[k + 1] = h[k + 1]
      BY <1>0, <2>2, <2>5, <3>1
    <3>4. -h[k + 1] <= LongMax
      BY <1>0, <2>7
    <3>5. Wrapped(h[k + 1]) = h[k + 1]
      BY <2>7, <2>8, <3>4, WrappedSame
    <3> QED
      BY <3>2, <3>3, <3>5
  <2> QED
    BY <2>7, <2>8
<1> HIDE DEF S
<1>3. Nat \subseteq S
  BY <1>1, <1>2, SetInduction
<1>4. n \in S
  BY <1>3
<1> QED
  BY <1>4 DEF S

Characters == 0 .. 9 \cup {Minus, Other}

(* Behind a sign an integer has nothing but digits.                           *)
LEMMA DigitsOfInteger ==
    ASSUME NEW text \in Seq(Characters), IsInteger(text)
    PROVE  /\ Digits(text) \in Seq(0 .. 9)
           /\ Len(Digits(text)) \in 0 .. Len(Digits(text))
<1>1. Digits(text) \in Seq(Characters)
  BY DEF Digits
<1>2. \A i \in DOMAIN Digits(text) : Digits(text)[i] \in 0 .. 9
  BY DEF IsInteger
<1> QED
  BY <1>1, <1>2

\* A number that the board's integers hold is read alike on both sides.
LEMMA NumbersAgree ==
    ASSUME NEW text \in Seq(Characters), NEW key,
           IsInteger(text) => HostInteger(text, LongMax) # Invalid
    PROVE  parse_integer(text) = HostInteger(text, HostLimit(key))
<1>1. CASE ~IsInteger(text)
  BY <1>1 DEF parse_integer, HostInteger
<1>2. CASE IsInteger(text)
  <2> DEFINE digits == Digits(text)
             size == HostReading(digits, LongMax)[Len(digits)]
  <2>1. digits \in Seq(0 .. 9) /\ Len(digits) \in 0 .. Len(digits)
    BY <1>2, DigitsOfInteger
  <2>2. LongMax \in Nat
    BY LongAssumption
  <2>3. size <= LongMax
    BY <1>2 DEF HostInteger
  <2> HIDE DEF digits
  <2>4. /\ size \in Nat /\ Reading(digits)[Len(digits)] = size
        /\ HostReading(digits, 2 * LongMax + 1)[Len(digits)] = size
    BY <2>1, <2>3, ReadAlike
  <2> HIDE DEF size
  <2>5. parse_integer(text) = Wrapped(Signed(text, size))
    BY <1>2, <2>4 DEF parse_integer, digits
  <2>6. Wrapped(Signed(text, size)) = Signed(text, size)
    <3>1. /\ Signed(text, size) \in Int /\ Signed(text, size) <= LongMax
          /\ -Signed(text, size) <= LongMax
      BY <2>2, <2>3, <2>4, SMT DEF Signed
    <3> QED
      BY <3>1, WrappedSame
  <2>7. HostReading(digits, HostLimit(key))[Len(digits)] = size /\ size <= HostLimit(key)
    BY <2>2, <2>3, <2>4 DEF HostLimit, size
  <2>8. HostInteger(text, HostLimit(key)) = Signed(text, size)
    BY <1>2, <2>7 DEF HostInteger, digits
  <2> QED
    BY <2>5, <2>6, <2>8
<1> QED
  BY <1>1, <1>2

(* The board makes an integer, or no value, of every text (parse_integer).    *)
LEMMA IntegerOrInvalid ==
    ASSUME NEW text \in Seq(Characters)
    PROVE  parse_integer(text) \in Int \cup {Invalid}
<1>1. CASE ~IsInteger(text)
  BY <1>1 DEF parse_integer
<1>2. CASE IsInteger(text)
  <2> DEFINE read == Reading(Digits(text))[Len(Digits(text))]
  <2>1. read \in Int
    BY <1>2, DigitsOfInteger, ReadingInt
  <2> HIDE DEF read
  <2>2. Signed(text, read) \in Int
    BY <2>1 DEF Signed
  <2>3. parse_integer(text) = Wrapped(Signed(text, read))
    BY <1>2 DEF parse_integer, read
  <2> QED
    BY <2>2, <2>3, WrappedInt
<1> QED
  BY <1>1, <1>2

-----------------------------------------------------------------------------
(* Frames.                                                                   *)

(* The first of some places is one of them, and none is before it.            *)
LEMMA FirstOfIs ==
    ASSUME NEW S, S \subseteq Nat, S # {}
    PROVE  FirstOf(S) \in S /\ \A j \in S : FirstOf(S) <= j
<1> DEFINE R == OpToRel(<, Nat)
<1>1. IsWellFoundedOn(R, Nat)
  BY NatLessThanWellFounded
<1>2. \A x, y \in Nat : x < y => <<x, y>> \in R
  BY DEF OpToRel
<1> HIDE DEF R
<1>3. PICK x \in S : \A y \in S : <<y, x>> \notin R
  BY <1>1, WFMin
<1>4. ASSUME NEW y \in S PROVE x <= y
  <2>1. x \in Nat /\ y \in Nat /\ ~(y < x)
    BY <1>2, <1>3
  <2> QED
    BY <2>1
<1> QED
  BY <1>3, <1>4 DEF FirstOf

(* A piece of a line has a text and an end.                                   *)
LEMMA PieceIs ==
    ASSUME NEW line \in Seq(Pieces), NEW i \in DOMAIN line
    PROVE  line[i].text \in Seq(Characters) /\ line[i].end \in {"|", ">"}
<1>1. line[i] \in Pieces
  OBVIOUS
<1> QED
  BY <1>1 DEF Pieces, Characters

(* Without a '>' before its end a line has a '|' behind every piece but the last.*)
LEMMA NothingWithin ==
    ASSUME NEW line \in Seq(Pieces), ~Inner(line)
    PROVE  \A i \in 1 .. Len(line) - 1 : line[i].end = "|"
BY PieceIs DEF Inner

(* Then frame_field gets to every piece.                                      *)
LEMMA ReachesAll ==
    ASSUME NEW line \in Seq(Pieces), \A i \in 1 .. Len(line) - 1 : line[i].end = "|"
    PROVE  Reached(line) = DOMAIN line
<1>1. \A i \in DOMAIN line : \A j \in 1 .. i - 1 : j \in 1 .. Len(line) - 1
  OBVIOUS
<1> QED
  BY <1>1 DEF Reached

(* Then frame_field comes to an answer: an integer, none, or no such field.   *)
LEMMA FieldValue ==
    ASSUME NEW line \in Seq(Pieces), ~Inner(line), NEW key
    PROVE  frame_field(line, key) \in Int \cup {Absent, Invalid}
<1>1. Reached(line) = DOMAIN line
  BY NothingWithin, ReachesAll
<1>2. CASE Reached(line) \cap Named(line, key) = {}
  BY <1>1, <1>2 DEF frame_field
<1>3. CASE Reached(line) \cap Named(line, key) # {}
  <2> DEFINE found == Reached(line) \cap Named(line, key)
  <2>1. found \subseteq Nat /\ found \subseteq DOMAIN line
    BY DEF Reached
  <2>2. FirstOf(found) \in DOMAIN line
    BY <1>3, <2>1, FirstOfIs
  <2>3. parse_integer(line[FirstOf(found)].text) \in Int \cup {Invalid}
    BY <2>2, PieceIs, IntegerOrInvalid
  <2> QED
    BY <1>3, <2>3 DEF frame_field
<1> QED
  BY <1>2, <1>3

(* So parse_quota_frame comes to an answer, for every line without a '>' before*)
(* its end.                                                                   *)
LEMMA NeverHangs ==
    ASSUME NEW line \in Seq(Pieces), ~Inner(line)
    PROVE  parse_quota_frame(line) # Hangs
<1> DEFINE bad == {k \in DOMAIN Keys : ~Good(line, Keys[k])}
<1>1. \A key : frame_field(line, key) \in Int \cup {Absent, Invalid}
  BY FieldValue
<1>2. CASE bad = {}
  <2>1. ASSUME NEW key \in KeySet
        PROVE  frame_field(line, key) = Absent \/ frame_field(line, key) \in Int
    <3>1. Good(line, key)
      BY <1>2 DEF KeySet
    <3> QED
      BY <1>1, <3>1 DEF Good
  <2>2. Taken(line) \in [KeySet -> Int]
    BY <2>1 DEF Taken
  <2> QED
    BY <1>2, <2>2, AnswersAssumption DEF parse_quota_frame
<1>3. CASE bad # {}
  BY <1>1, <1>3, AnswersAssumption DEF parse_quota_frame
<1> QED
  BY <1>2, <1>3

\* A frame that may be read by its pieces alone.
IsPlain(line) ==
    FrameShape(line) /\ ~Repeats(line) /\ ~Inner(line) /\ ~Empty(line) /\ ~Oversized(line)

(* The pieces of such a frame: they all are reached and, but for the first, are the*)
(* host's fields, each with a text, a name of its own and nothing joined to it.*)
LEMMA PlainPieces ==
    ASSUME NEW line \in Seq(Pieces), IsPlain(line)
    PROVE  /\ Len(line) >= 2 /\ line[1].key = "CQM1"
           /\ \A i \in 1 .. Len(line) - 1 : line[i].end = "|"
           /\ Reached(line) = DOMAIN line
           /\ Fields(line) = 2 .. Len(line)
           /\ \A i \in Fields(line) : line[i].text # <<>> /\ ~IsJoined(line, i)
           /\ \A i, j \in DOMAIN line : line[i].key = line[j].key => i = j
<1>1. /\ line # <<>> /\ line[1].key = "CQM1" /\ line[1].end = "|" /\ line[Len(line)].end = ">"
  BY DEF IsPlain, FrameShape
<1>2. Len(line) >= 2
  BY <1>1
<1>3. \A i \in 1 .. Len(line) - 1 : line[i].end = "|"
  BY NothingWithin DEF IsPlain
<1>4. Reached(line) = DOMAIN line
  BY <1>3, ReachesAll
<1>5. Fields(line) = 2 .. Len(line)
  BY <1>3 DEF Fields
<1>6. \A i \in 2 .. Len(line) : line[i].text # <<>> /\ ~IsJoined(line, i)
  BY <1>3 DEF IsJoined, IsPlain, Empty
<1>7. \A i, j \in DOMAIN line : line[i].key = line[j].key => i = j
  BY DEF IsPlain, Repeats
<1> QED
  BY <1>1, <1>2, <1>3, <1>4, <1>5, <1>6, <1>7

(* Board and host find the same value for every name (frame_field, TryParse). *)
LEMMA FieldsAgree ==
    ASSUME NEW line \in Seq(Pieces), IsPlain(line), NEW key \in KeySet
    PROVE  frame_field(line, key) = HostValue(line, key)
<1> DEFINE found == Reached(line) \cap Named(line, key)
           at == Fields(line) \cap Named(line, key)
<1>1. /\ line[1].key = "CQM1" /\ Reached(line) = DOMAIN line /\ Fields(line) = 2 .. Len(line)
      /\ \A i \in Fields(line) : ~IsJoined(line, i)
  BY PlainPieces
<1>2. key # "CQM1"
  BY DEF KeySet, Keys
<1>3. found = at
  BY <1>1, <1>2 DEF Named
<1>4. CASE at = {}
  BY <1>1, <1>3, <1>4 DEF frame_field, HostValue
<1>5. CASE at # {}
  <2> DEFINE i == FirstOf(at)
  <2>1. at \subseteq Nat /\ at \subseteq DOMAIN line
    BY <1>1
  <2>2. i \in at /\ i \in DOMAIN line
    BY <1>5, <2>1, FirstOfIs
  <2> HIDE DEF i
  <2>3. line[i].text \in Seq(Characters)
    BY <2>2, PieceIs
  <2>4. IsInteger(line[i].text) => HostInteger(line[i].text, LongMax) # Invalid
    BY <2>2 DEF IsPlain, Oversized
  <2>5. parse_integer(line[i].text) = HostInteger(line[i].text, HostLimit(key))
    BY <2>3, <2>4, NumbersAgree
  <2>6. frame_field(line, key) = parse_integer(line[i].text)
    BY <1>3, <1>5 DEF frame_field, i
  <2>7. HostValue(line, key) = HostInteger(line[i].text, HostLimit(key))
    BY <1>1, <1>5, <2>2 DEF HostValue, i
  <2> QED
    BY <2>5, <2>6, <2>7
<1> QED
  BY <1>4, <1>5

(* Board and host come to the same answer for every line (parse_quota_frame,  *)
(* ProtocolParser.TryParse; see FrameAgrees).                                 *)
LEMMA FramesAgree ==
    ASSUME NEW line \in Seq(Pieces)
    PROVE  FrameAgrees(line)
<1> DEFINE taken == [key \in KeySet |-> IF HostValue(line, key) = Absent
                                        THEN -1 ELSE HostValue(line, key)]
<1>1. parse_quota_frame(line) = Hangs => Inner(line)
  BY NeverHangs
<1>2. ASSUME ~FrameShape(line) PROVE parse_quota_frame(line) = Rejected /\ ~TryParse(line)
  BY <1>2 DEF parse_quota_frame, TryParse
<1>3. ASSUME IsPlain(line)
      PROVE  parse_quota_frame(line) = IF TryParse(line) THEN taken ELSE Rejected
  <2> DEFINE bad == {k \in DOMAIN Keys : ~Good(line, Keys[k])}
  <2>1. \A key \in KeySet : frame_field(line, key) = HostValue(line, key)
    BY <1>3, FieldsAgree
  <2>2. \A key \in KeySet : frame_field(line, key) \in Int \cup {Absent, Invalid}
    BY <1>3, FieldValue DEF IsPlain
  <2>3. TryParse(line) <=> \A key \in KeySet : Good(line, key)
    <3>1. /\ FrameShape(line)
          /\ \A i \in Fields(line) : line[i].text # <<>> \/ IsJoined(line, i)
          /\ \A i, j \in Fields(line) : line[i].key = line[j].key => i = j
      BY <1>3, PlainPieces DEF IsPlain, Fields
    <3>2. \A key \in KeySet : Good(line, key)
            <=> LET value == HostValue(line, key)
                IN  IF value \in {Absent, Invalid} THEN key = "RC" /\ value = Absent
                    ELSE InRange(key, value)
      BY <2>1, <2>2, AnswersAssumption DEF Good
    <3> QED
      BY <3>1, <3>2 DEF TryParse
  <2>4. bad = {} <=> TryParse(line)
    BY <2>3 DEF KeySet
  <2>5. CASE bad = {}
    <3>1. Taken(line) = taken
      BY <2>1 DEF Taken
    <3> QED
      BY <1>3, <2>4, <2>5, <3>1 DEF parse_quota_frame, IsPlain
  <2>6. CASE bad # {}
    <3>1. bad \subseteq Nat /\ bad \subseteq DOMAIN Keys
      BY DEF Keys
    <3>2. FirstOf(bad) \in DOMAIN Keys
      BY <2>6, <3>1, FirstOfIs
    <3>3. Keys[FirstOf(bad)] \in KeySet
      BY <3>2 DEF KeySet
    <3>4. frame_field(line, Keys[FirstOf(bad)]) # Forever
      BY <2>2, <3>3, AnswersAssumption
    <3> QED
      BY <1>3, <2>4, <2>6, <3>4 DEF parse_quota_frame, IsPlain
  <2> QED
    BY <2>5, <2>6
<1> QED
  BY <1>1, <1>2, <1>3 DEF FrameAgrees, IsPlain

(* The board reads every line, whatever its length, as the host's parser does,*)
(* and always comes to an answer, with the named exceptions (parse_quota_frame,*)
(* ProtocolParser.TryParse; see FrameAgreesWithHost).                         *)
THEOREM FramesReadAlike == AllSpec => []FrameAgreesWithHost
<1> DEFINE Line == kind = "line" => sample \in Lines
<1>1. AllInit => Line
  BY DEF AllInit, SampleInit, Sampled
<1>2. Line /\ [Next /\ UNCHANGED <<kind, sample>>]_allVars => Line'
  BY DEF allVars
<1>3. Line => FrameAgreesWithHost
  BY FramesAgree, LinesAssumption DEF FrameAgreesWithHost
<1> QED
  BY <1>1, <1>2, <1>3, PTL DEF AllSpec

-----------------------------------------------------------------------------
(* Dates.                                                                    *)

\* A year that begins in March, by its place in the 400 years of its era.
CivilYear(y, e, c, q, r) ==
    /\ e \in Nat /\ c \in 0 .. 3 /\ q \in 0 .. 24 /\ r \in 0 .. 3
    /\ y = 400 * e + 100 * c + 4 * q + r

(* Every year has such a place.                                               *)
LEMMA YearParts ==
    ASSUME NEW y \in Nat
    PROVE  \E e, c, q, r : CivilYear(y, e, c, q, r)
<1> DEFINE e == y \div 400
           c == (y % 400) \div 100
           q == (y % 100) \div 4
           r == y % 4
<1>1. CivilYear(y, e, c, q, r)
  BY DEF CivilYear
<1> QED
  BY <1>1

\* Only a year before a leap year has 366 days.
LastOfYear(c, q, r, doy) == doy \in 0 .. 365 /\ (doy = 365 => r = 3 /\ (q # 24 \/ c = 3))

DayOfEra(c, q, r, doy) == 36524 * c + 1461 * q + 365 * r + doy

(* The year of a day within its era: the days of the leap years before it are *)
(* taken away, and what is left are years of 365 days (yoe of local_date_time).*)
LEMMA YearOfEra ==
    ASSUME NEW c \in 0 .. 3, NEW q \in 0 .. 24, NEW r \in 0 .. 3, NEW doy,
           LastOfYear(c, q, r, doy), NEW doe, doe = DayOfEra(c, q, r, doy)
    PROVE  /\ doe \in Nat /\ doe <= 146096
           /\ (doe - doe \div 1460 + doe \div 36524 - doe \div 146096) \div 365
              = 100 * c + 4 * q + r
<1> DEFINE k == 24 * c + q + 365 * r + doy
           n == 1461 * q + 365 * r + doy
           late == IF k >= 1460 THEN 1 ELSE 0
           last == IF n = 36524 THEN 1 ELSE 0
<1>1. /\ doy \in 0 .. 365 /\ (doy = 365 => r = 3 /\ (q # 24 \/ c = 3))
      /\ k \in Nat /\ n \in Nat /\ doe \in Nat
      /\ doe = 36524 * c + n /\ doe = 1460 * (25 * c + q) + k
  BY SMT DEF LastOfYear, DayOfEra
<1>2. n <= 36524 /\ (n = 36524 => c = 3)
  BY <1>1, SMT
<1>3. k < 2920 /\ (k >= 1460 => doy >= 1) /\ (doy = 365 => k >= 1460)
  BY <1>1, SMT
<1>4. doy - late \in 0 .. 364
  BY <1>1, <1>3, SMT
<1>5. doe - (25 * c + q + late) + (c + last) - last
        = 365 * (100 * c + 4 * q + r) + (doy - late)
  BY <1>1, SMT
<1> HIDE DEF k, n
<1>6. doe \div 1460 = 25 * c + q + late
  BY <1>1, <1>3, SMT
<1>7. doe \div 36524 = c + last
  BY <1>1, <1>2, SMT
<1>8. doe <= 146096 /\ (doe = 146096 <=> n = 36524)
  BY <1>1, <1>2, SMT
<1>9. doe \div 146096 = last
  <2>1. doe < 146096 => doe \div 146096 = 0
    BY <1>1, SMT
  <2>2. 146096 \div 146096 = 1
    BY SMT
  <2> QED
    BY <1>1, <1>8, <2>1, <2>2, SMT DEF last
<1> DEFINE m == 100 * c + 4 * q + r
           d == doy - late
           x == doe - doe \div 1460 + doe \div 36524 - doe \div 146096
<1>10. m \in Int /\ d \in 0 .. 364
  BY <1>4, SMT
<1>11. x = 365 * m + d
  BY <1>5, <1>6, <1>7, <1>9, SMT
<1> HIDE DEF m, d, x
<1>12. x \div 365 = m
  BY <1>10, <1>11, SMT
<1> QED
  BY <1>1, <1>8, <1>12, SMT DEF m, x

\* A date that a clock of the board can show.
IsDate(year, month, day) ==
    /\ year \in Nat /\ year >= 1970
    /\ month \in 1 .. 12 /\ day \in 1 .. MonthDays(year)[month]

IsTime(hour, minute) == hour \in 0 .. 23 /\ minute \in 0 .. 59

\* The year and the month of a date if years begin in March.
MarchYear(year, month) == IF month <= 2 THEN year - 1 ELSE year
MarchMonth(month) == IF month <= 2 THEN month + 9 ELSE month - 3

\* Where a month begins in such a year.
MonthStart == <<306, 337, 0, 31, 61, 92, 122, 153, 184, 214, 245, 275>>
MarchDay(month, day) == MonthStart[month] + day - 1

(* What the calendar says of the length of a month.                           *)
LEMMA MonthLength ==
    ASSUME NEW year, NEW month, NEW day, IsDate(year, month, day)
    PROVE  /\ day \in Nat \ {0} /\ day <= 31
           /\ month \in {4, 6, 9, 11} => day <= 30
           /\ month = 2 => day <= 29 /\ (day = 29 => Leap(year))
BY SMT DEF IsDate, MonthDays

(* The numbers of a date are integers.                                        *)
LEMMA DateTypes ==
    ASSUME NEW year, NEW month, NEW day, IsDate(year, month, day)
    PROVE  /\ year \in Nat /\ year >= 1970 /\ month \in 1 .. 12 /\ day \in Int
           /\ NewYear(year) \in Int /\ DaysBefore(year, month) \in Int
           /\ MarchYear(year, month) \in Nat
<1>1. year \in Nat /\ year >= 1970 /\ month \in 1 .. 12
  BY SMT DEF IsDate
<1>2. day \in Int
  BY MonthLength, SMT
<1>3. NewYear(year) \in Int
  BY <1>1, SMT DEF NewYear
<1>4. DaysBefore(year, month) \in Int
  BY <1>1, SMT DEF DaysBefore
<1>5. MarchYear(year, month) \in Nat
  BY <1>1, SMT DEF MarchYear
<1> QED
  BY <1>1, <1>2, <1>3, <1>4, <1>5, SMT

(* The formula of the code finds where each month begins, and gives it back its*)
(* number.                                                                    *)
LEMMA MonthTable ==
    ASSUME NEW month \in 1 .. 12
    PROVE  /\ MarchMonth(month) \in 0 .. 11
           /\ MonthStart[month] \in Nat
           /\ MonthStart[month] = (153 * MarchMonth(month) + 2) \div 5
           /\ month = IF MarchMonth(month) < 10 THEN MarchMonth(month) + 3
                      ELSE MarchMonth(month) - 9
<1>1. CASE month \in {1, 2, 3}
  BY <1>1, SMT DEF MarchMonth, MonthStart
<1>2. CASE month \in {4, 5, 6}
  BY <1>2, SMT DEF MarchMonth, MonthStart
<1>3. CASE month \in {7, 8, 9}
  BY <1>3, SMT DEF MarchMonth, MonthStart
<1>4. CASE month \in {10, 11, 12}
  BY <1>4, SMT DEF MarchMonth, MonthStart
<1> QED
  BY <1>1, <1>2, <1>3, <1>4, SMT

(* A day of a month lies, as a day of the year, in the range that the formula *)
(* gives to its month.                                                        *)
LEMMA MarchDays ==
    ASSUME NEW year, NEW month, NEW day, IsDate(year, month, day)
    PROVE  /\ MarchDay(month, day) \in Nat /\ MarchDay(month, day) <= 365
           /\ MarchDay(month, day) = 365 => month = 2 /\ Leap(year)
           /\ 153 * MarchMonth(month) <= 5 * MarchDay(month, day) + 2
           /\ 5 * MarchDay(month, day) + 2 < 153 * MarchMonth(month) + 153
<1>1. /\ day \in Nat \ {0} /\ day <= 31
      /\ month \in {4, 6, 9, 11} => day <= 30
      /\ month = 2 => day <= 29 /\ (day = 29 => Leap(year))
  BY MonthLength
<1>2. month \in 1 .. 12
  BY DEF IsDate
<1>3. CASE month \in {1, 2, 3}
  BY <1>1, <1>3, SMT DEF MarchDay, MarchMonth, MonthStart
<1>4. CASE month \in {4, 5, 6}
  BY <1>1, <1>4, SMT DEF MarchDay, MarchMonth, MonthStart
<1>5. CASE month \in {7, 8, 9}
  BY <1>1, <1>5, SMT DEF MarchDay, MarchMonth, MonthStart
<1>6. CASE month \in {10, 11, 12}
  BY <1>1, <1>6, SMT DEF MarchDay, MarchMonth, MonthStart
<1> QED
  BY <1>2, <1>3, <1>4, <1>5, <1>6, SMT

\* The month of such a year that holds a day, as the code computes it.
MonthOfDay(doy) == (5 * doy + 2) \div 153

(* So the month of a day is found from the day of the year (mp of local_date_time).*)
LEMMA MonthOfYear ==
    ASSUME NEW year, NEW month, NEW day, IsDate(year, month, day)
    PROVE  MonthOfDay(MarchDay(month, day)) = MarchMonth(month)
<1>1. month \in 1 .. 12
  BY SMT DEF IsDate
<1>2. /\ MarchDay(month, day) \in Nat
      /\ 153 * MarchMonth(month) <= 5 * MarchDay(month, day) + 2
      /\ 5 * MarchDay(month, day) + 2 < 153 * MarchMonth(month) + 153
  BY MarchDays
<1>3. MarchMonth(month) \in 0 .. 11
  BY <1>1, MonthTable
<1> QED
  BY <1>2, <1>3, SMT DEF MonthOfDay

Leaps(n) == n \div 4 - n \div 100 + n \div 400

(* The first day of a year, by the leap years before it.                      *)
LEMMA NewYearIs ==
    ASSUME NEW year \in Nat
    PROVE  NewYear(year) = 365 * (year - 1970) + Leaps(year - 1) - 477
BY SMT DEF NewYear, Leaps

(* How many leap years there are up to a year, by its place in its era.       *)
LEMMA LeapsOf ==
    ASSUME NEW y, NEW e, NEW c, NEW q, NEW r, CivilYear(y, e, c, q, r)
    PROVE  Leaps(y) = 97 * e + 24 * c + q
<1>1. y \div 4 = 100 * e + 25 * c + q
  BY SMT DEF CivilYear
<1>2. y \div 100 = 4 * e + c
  BY SMT DEF CivilYear
<1>3. y \div 400 = e
  BY SMT DEF CivilYear
<1> QED
  BY <1>1, <1>2, <1>3, SMT DEF Leaps, CivilYear

(* The number of leap years grows by one with each of them.                   *)
LEMMA LeapYears ==
    ASSUME NEW y \in Nat \ {0}
    PROVE  Leaps(y) = Leaps(y - 1) + IF Leap(y) THEN 1 ELSE 0
<1>1. y \div 4 = (y - 1) \div 4 + IF y % 4 = 0 THEN 1 ELSE 0
  BY SMT
<1>2. y \div 100 = (y - 1) \div 100 + IF y % 100 = 0 THEN 1 ELSE 0
  BY SMT
<1>3. y \div 400 = (y - 1) \div 400 + IF y % 400 = 0 THEN 1 ELSE 0
  BY SMT
<1>4. (y % 100 = 0 => y % 4 = 0) /\ (y % 400 = 0 => y % 100 = 0)
  BY SMT
<1> QED
  BY <1>1, <1>2, <1>3, <1>4, SMT DEF Leaps, Leap

\* A leap year is behind the last year of four, and of a century only of the fourth.
LEMMA LeapAfter ==
    ASSUME NEW y, NEW e, NEW c, NEW q, NEW r, CivilYear(y, e, c, q, r), Leap(y + 1)
    PROVE  r = 3 /\ (q # 24 \/ c = 3)
<1>1. (y + 1) % 4 = (r + 1) % 4
  BY SMT DEF CivilYear
<1>2. r = 3
  BY <1>1, SMT DEF CivilYear, Leap
<1>3. ASSUME q = 24, c # 3 PROVE FALSE
  BY <1>2, <1>3, SMT DEF CivilYear, Leap
<1> QED
  BY <1>2, <1>3

(* The days since 1970, moved to where the eras begin, are those of the eras before*)
(* and the day within the era (z of local_date_time).                         *)
LEMMA DayCount ==
    ASSUME NEW year, NEW month, NEW day, IsDate(year, month, day),
           NEW e, NEW c, NEW q, NEW r, CivilYear(MarchYear(year, month), e, c, q, r)
    PROVE  NewYear(year) + DaysBefore(year, month) + day - 1 + 719468
                = 146097 * e + DayOfEra(c, q, r, MarchDay(month, day))
<1> DEFINE y == MarchYear(year, month)
<1>0. /\ year \in Nat /\ year >= 1970 /\ month \in 1 .. 12 /\ day \in Int
      /\ NewYear(year) \in Int /\ DaysBefore(year, month) \in Int
  BY DateTypes, SMT
<1>1. /\ y \in Nat \ {0}
      /\ month <= 2 => y = year - 1
      /\ month > 2 => y = year
  BY <1>0, SMT DEF MarchYear
<1>2. Leaps(y) = 97 * e + 24 * c + q
  BY LeapsOf
<1>3. NewYear(year) = 365 * (year - 1970) + Leaps(year - 1) - 477
  BY <1>0, NewYearIs, SMT
<1>5. y = 400 * e + 100 * c + 4 * q + r /\ e \in Int /\ c \in Int /\ q \in Int /\ r \in Int
  BY SMT DEF CivilYear
<1> HIDE DEF y
<1>6. CASE month <= 2
  <2>1. DaysBefore(year, month) - MarchDay(month, day) = 1 - day - 306
    BY <1>0, <1>6, SMT DEF DaysBefore, MarchDay, MonthStart
  <2>2. MarchDay(month, day) \in Int
    BY <1>0, <1>6, SMT DEF MarchDay, MonthStart
  <2>3. DaysBefore(year, month) \in Int
    BY <1>0, <1>6, SMT DEF DaysBefore
  <2> QED
    BY <1>0, <1>1, <1>2, <1>3, <1>5, <1>6, <2>1, <2>2, <2>3, SMT DEF DayOfEra
<1>7. CASE month > 2
  <2>1. Leaps(year) = Leaps(year - 1) + IF Leap(year) THEN 1 ELSE 0
    BY <1>0, LeapYears, SMT
  <2>2. DaysBefore(year, month) - MarchDay(month, day) = 60 - day + IF Leap(year) THEN 1 ELSE 0
    BY <1>0, <1>7, SMT DEF DaysBefore, MarchDay, MonthStart
  <2>3. MarchDay(month, day) \in Int
    BY <1>0, <1>7, SMT DEF MarchDay, MonthStart
  <2>4. DaysBefore(year, month) \in Int
    BY <1>0, <1>7, SMT DEF DaysBefore
  <2>5. Leaps(year - 1) \in Int
    BY <1>0, SMT DEF Leaps
  <2> QED
    BY <1>0, <1>1, <1>2, <1>3, <1>5, <1>7, <2>1, <2>2, <2>3, <2>4, <2>5, SMT DEF DayOfEra
<1> QED
  BY <1>0, <1>6, <1>7, SMT

(* A year of 366 days is one before a leap year.                              *)
LEMMA LastDay ==
    ASSUME NEW year, NEW month, NEW day, IsDate(year, month, day),
           NEW e, NEW c, NEW q, NEW r, CivilYear(MarchYear(year, month), e, c, q, r)
    PROVE  LastOfYear(c, q, r, MarchDay(month, day))
<1>1. /\ MarchDay(month, day) \in Nat /\ MarchDay(month, day) <= 365
      /\ MarchDay(month, day) = 365 => month = 2 /\ Leap(year)
  BY MarchDays, SMT
<1>2. ASSUME month = 2, Leap(year) PROVE r = 3 /\ (q # 24 \/ c = 3)
  <2>1. year = MarchYear(year, month) + 1
    BY <1>2, DateTypes, SMT DEF MarchYear
  <2> QED
    BY <1>2, <2>1, LeapAfter
<1> QED
  BY <1>1, <1>2, SMT DEF LastOfYear

(* A time that is a date of the calendar is shown as this date                *)
(* (local_date_time).                                                         *)
LEMMA DateShown ==
    ASSUME NEW year, NEW month, NEW day, IsDate(year, month, day), NEW hour, NEW minute,
           IsTime(hour, minute),
           NEW minutes, NEW timezone_minutes,
           minutes + timezone_minutes
             = MinuteOf(year, month, day, hour, minute)
    PROVE  local_date_time(minutes, timezone_minutes)
             = [day |-> day, month |-> month, hour |-> hour, minute |-> minute]
<1> DEFINE local == minutes + timezone_minutes
           days == local \div 1440
           z == days + 719468
           era == z \div 146097
           doe == z - era * 146097
           yoe == (doe - doe \div 1460 + doe \div 36524 - doe \div 146096) \div 365
           doy == doe - (365 * yoe + yoe \div 4 - yoe \div 100)
           mp == MonthOfDay(doy)
<1>1. local_date_time(minutes, timezone_minutes)
        = [day |-> doy - (153 * mp + 2) \div 5 + 1,
           month |-> IF mp < 10 THEN mp + 3 ELSE mp - 9,
           hour |-> (local % 1440) \div 60,
           minute |-> local % 60]
  BY SMT DEF local_date_time, MonthOfDay
<1> DEFINE count == NewYear(year) + DaysBefore(year, month) + day - 1
<1>2. count \in Int
  BY DateTypes, SMT
<1>3. local = count * 1440 + hour * 60 + minute
  BY SMT DEF MinuteOf
<1>0. hour \in 0 .. 23 /\ minute \in 0 .. 59
  BY SMT DEF IsTime
<1> HIDE DEF count, local
<1>4. /\ days = count
      /\ (local % 1440) \div 60 = hour
      /\ local % 60 = minute
  BY <1>2, <1>3, <1>0, SMT
<1>5. MarchYear(year, month) \in Nat
  BY DateTypes, SMT
<1>6. PICK e, c, q, r : CivilYear(MarchYear(year, month), e, c, q, r)
  BY <1>5, YearParts, SMT
<1>7. e \in Nat /\ c \in 0 .. 3 /\ q \in 0 .. 24 /\ r \in 0 .. 3
  BY <1>6, SMT DEF CivilYear
<1>8. LastOfYear(c, q, r, MarchDay(month, day))
  BY <1>6, LastDay, SMT
<1> HIDE DEF days
<1>9. z = 146097 * e + DayOfEra(c, q, r, MarchDay(month, day))
  BY <1>4, <1>6, DayCount, SMT DEF count
<1> HIDE DEF z
<1> DEFINE d == DayOfEra(c, q, r, MarchDay(month, day))
<1>10. /\ d \in Nat /\ d <= 146096
       /\ (d - d \div 1460 + d \div 36524 - d \div 146096) \div 365 = 100 * c + 4 * q + r
  BY <1>7, <1>8, YearOfEra, SMT
<1> HIDE DEF d
<1>11. doe = d
  <2>1. z = 146097 * e + d /\ d \in Nat /\ d <= 146096
    BY <1>9, <1>10, SMT DEF d
  <2>2. z \div 146097 = e
    BY <1>7, <2>1, SMT
  <2> QED
    BY <1>7, <2>1, <2>2, SMT
<1> HIDE DEF era, doe
<1>12. yoe = 100 * c + 4 * q + r
  BY <1>10, <1>11, SMT
<1>13. MarchDay(month, day) \in Int
  BY <1>8, SMT DEF LastOfYear
<1> HIDE DEF yoe
<1>14. doy = MarchDay(month, day)
  <2>1. yoe \div 4 = 25 * c + q /\ yoe \div 100 = c
    BY <1>7, <1>12, SMT
  <2> QED
    BY <1>7, <1>11, <1>12, <1>13, <2>1, SMT DEF d, DayOfEra
<1> HIDE DEF doy
<1>15. mp = MarchMonth(month)
  BY <1>14, MonthOfYear, Zenon
<1> HIDE DEF mp
<1>16. /\ doy - (153 * mp + 2) \div 5 + 1 = day
       /\ (IF mp < 10 THEN mp + 3 ELSE mp - 9) = month
  <2>1. month \in 1 .. 12 /\ day \in Int
    BY DateTypes, SMT
  <2>2. /\ (153 * mp + 2) \div 5 = MonthStart[month] /\ MonthStart[month] \in Nat
        /\ (IF mp < 10 THEN mp + 3 ELSE mp - 9) = month
    BY <1>15, <2>1, MonthTable, Zenon
  <2>3. doy = MonthStart[month] + day - 1
    BY <1>14, SMT DEF MarchDay
  <2> QED
    BY <2>1, <2>2, <2>3, SMT
<1> QED
  BY <1>1, <1>4, <1>16, SMT

(* A check of the reference, not of the code: the calendar that dates are     *)
(* compared with is one.  The months of a year follow each other, each by the *)
(* length of the one before, the years do too, and the first day of 1970 is   *)
(* day 0.                                                                     *)
LEMMA CalendarAddsUp ==
    ASSUME NEW year \in Nat \ {0}
    PROVE  /\ DaysBefore(year, 1) = 0
           /\ \A month \in 1 .. 11 :
                 DaysBefore(year, month + 1) = DaysBefore(year, month) + MonthDays(year)[month]
           /\ NewYear(year + 1) = NewYear(year) + DaysBefore(year, 12) + MonthDays(year)[12]
           /\ NewYear(1970) = 0
<1>1. DaysBefore(year, 1) = 0
  BY SMT DEF DaysBefore
<1>2. ASSUME NEW month \in 1 .. 11
      PROVE  DaysBefore(year, month + 1) = DaysBefore(year, month) + MonthDays(year)[month]
  <2>1. CASE month \in {1, 2}
    BY <2>1, SMT DEF DaysBefore, MonthDays
  <2>2. CASE month \in {3, 4, 5}
    BY <2>2, SMT DEF DaysBefore, MonthDays
  <2>3. CASE month \in {6, 7, 8}
    BY <2>3, SMT DEF DaysBefore, MonthDays
  <2>4. CASE month \in {9, 10, 11}
    BY <2>4, SMT DEF DaysBefore, MonthDays
  <2> QED
    BY <2>1, <2>2, <2>3, <2>4, SMT
<1>3. NewYear(year + 1) = NewYear(year) + DaysBefore(year, 12) + MonthDays(year)[12]
  <2>1. NewYear(year) = 365 * (year - 1970) + Leaps(year - 1) - 477
    BY NewYearIs
  <2>2. NewYear(year + 1) = 365 * (year + 1 - 1970) + Leaps(year) - 477
    BY NewYearIs, year + 1 \in Nat, year + 1 - 1 = year, SMT
  <2>3. Leaps(year) = Leaps(year - 1) + IF Leap(year) THEN 1 ELSE 0
    BY LeapYears, SMT
  <2>4. DaysBefore(year, 12) = 334 + IF Leap(year) THEN 1 ELSE 0
    BY SMT DEF DaysBefore
  <2>5. MonthDays(year)[12] = 31
    BY SMT DEF MonthDays
  <2>6. Leaps(year - 1) \in Int
    BY SMT DEF Leaps
  <2> QED
    BY <2>1, <2>2, <2>3, <2>4, <2>5, <2>6, SMT
<1>4. NewYear(1970) = 0
  BY SMT DEF NewYear
<1> QED
  BY <1>1, <1>2, <1>3, <1>4

(* Every date and time of day is shown as it is, whatever the offset from UTC *)
(* (local_date_time).                                                         *)
LEMMA EveryDate ==
    ASSUME NEW year, NEW month, NEW day, IsDate(year, month, day), NEW offset \in Int,
           NEW hour, NEW minute, IsTime(hour, minute)
    PROVE  local_date_time(MinuteOf(year, month, day, hour, minute) - offset, offset)
              = [day |-> day, month |-> month, hour |-> hour, minute |-> minute]
<1> DEFINE shown == MinuteOf(year, month, day, hour, minute)
           minutes == shown - offset
<1>1. shown \in Int
  BY DateTypes, SMT DEF MinuteOf, IsTime
<1> HIDE DEF shown
<1>2. minutes + offset = shown
  BY <1>1, SMT
<1> HIDE DEF minutes
<1>3. local_date_time(minutes, offset)
        = [day |-> day, month |-> month, hour |-> hour, minute |-> minute]
  BY <1>2, DateShown, SMT DEF shown
<1> QED
  BY <1>3, Zenon DEF shown, minutes

(* Every day of every year that is sampled is shown with its month, its day and the*)
(* time of day, also where the offset moves it over midnight (local_date_time; see*)
(* DateIsCalendar).                                                           *)
THEOREM DatesRight == AllSpec => []DateIsCalendar
<1> DEFINE Dated == kind = "date" => sample \in Dates
<1>1. AllInit => Dated
  BY DEF AllInit, SampleInit, Sampled
<1>2. Dated /\ [Next /\ UNCHANGED <<kind, sample>>]_allVars => Dated'
  BY DEF allVars
<1>3. Dated => DateIsCalendar
  <2>1. ASSUME sample \in Dates PROVE DatesAgree(sample.year, sample.offset)
    <3> DEFINE year == sample.year
               offset == sample.offset
    <3>0. year \in 1970 .. 2105 /\ offset \in -1440 .. 1440
      <4>1. sample \in [year : 1970 .. 2105, offset : -1440 .. 1440]
        BY <2>1, DatesAssumption, SMT
      <4> QED
        BY <4>1, SMT
    <3> HIDE DEF year, offset
    <3>1. year \in Nat /\ year >= 1970 /\ offset \in Int
      BY <3>0, SMT
    <3>2. ASSUME NEW month \in 1 .. 12, NEW day \in 1 .. MonthDays(year)[month],
                 NEW hour \in {0, 23}, NEW minute \in {0, 59}
          PROVE  local_date_time(MinuteOf(year, month, day, hour, minute) - offset, offset)
                   = [day |-> day, month |-> month, hour |-> hour, minute |-> minute]
      <4>1. IsDate(year, month, day)
        BY <3>1, SMT DEF IsDate
      <4>2. IsTime(hour, minute)
        BY SMT DEF IsTime
      <4> QED
        BY <3>1, <4>1, <4>2, EveryDate, SMT
    <3> QED
      BY <3>2 DEF DatesAgree, year, offset
  <2> QED
    BY <2>1 DEF DateIsCalendar
<1> QED
  BY <1>1, <1>2, <1>3, PTL DEF AllSpec

-----------------------------------------------------------------------------
(* Lines and frames.                                                         *)

\* A move takes a pen to a pen.
LEMMA MovedPen ==
    ASSUME NEW x0 \in Int, NEW y0 \in Int, NEW x1 \in Int, NEW y1 \in Int, NEW pen \in Drawing!Pens
    PROVE  Drawing!Moved(x0, y0, x1, y1, pen) \in Drawing!Pens
<1>1. /\ Drawing!Magnitude(x1 - x0) \in Int /\ Drawing!Magnitude(y1 - y0) \in Int
      /\ Drawing!Sign(x0, x1) \in Int /\ Drawing!Sign(y0, y1) \in Int
  BY DEF Drawing!Magnitude, Drawing!Sign
<1>2. pen.x \in Int /\ pen.y \in Int /\ pen.error \in Int
  BY DEF Drawing!Pens
<1> QED
  BY <1>1, <1>2 DEF Drawing!Moved, Drawing!Pens

(* The loop of draw_line paints the pixel under the pen and, unless it is the *)
(* last one, what it paints from the next position.  Such a function exists   *)
(* though a slanted line may never stop: the pixels of all positions reached. *)
LEMMA DrawnIs ==
    ASSUME NEW x0 \in Int, NEW y0 \in Int, NEW x1 \in Int, NEW y1 \in Int, NEW pen \in Drawing!Pens
    PROVE  Drawing!Drawn(x0, y0, x1, y1)[pen] =
              {<<pen.x, pen.y>>}
              \cup IF pen.x = x1 /\ pen.y = y1 THEN {}
                   ELSE Drawing!Drawn(x0, y0, x1, y1)[Drawing!Moved(x0, y0, x1, y1, pen)]
<1> DEFINE P == Drawing!Pens
           next(p) == Drawing!Moved(x0, y0, x1, y1, p)
           AtEnd(p) == p.x = x1 /\ p.y = y1
           Body(f) == [p \in Drawing!Pens |->
                         {<<p.x, p.y>>} \cup IF p.x = x1 /\ p.y = y1 THEN {}
                                             ELSE f[Drawing!Moved(x0, y0, x1, y1, p)]]
           Closed(C) == \A q \in C : ~AtEnd(q) => next(q) \in C
           Reach(p) == {q \in P : \A C \in SUBSET P : p \in C /\ Closed(C) => q \in C}
           f == [p \in P |-> {<<q.x, q.y>> : q \in Reach(p)}]
<1>1. Drawing!Drawn(x0, y0, x1, y1) = CHOOSE g : g = Body(g)
  BY DEF Drawing!Drawn
<1>2. \A p \in P : next(p) \in P
  BY MovedPen
<1> HIDE DEF P, next, AtEnd
<1>3. ASSUME NEW p \in P
      PROVE  /\ p \in Reach(p)
             /\ ~AtEnd(p) => Reach(next(p)) \subseteq Reach(p)
             /\ Closed(Reach(p))
  <2>1. p \in Reach(p)
    OBVIOUS
  <2>2. ASSUME NEW q \in Reach(p), ~AtEnd(q) PROVE next(q) \in Reach(p)
    BY <1>2, <2>2
  <2>3. ASSUME ~AtEnd(p), NEW q \in Reach(next(p)), NEW C \in SUBSET P, p \in C, Closed(C)
        PROVE  q \in C
    <3>1. next(p) \in C
      BY <2>3
    <3> QED
      BY <2>3, <3>1
  <2> QED
    BY <2>1, <2>2, <2>3
<1>4. ASSUME NEW p \in P
      PROVE  Reach(p) = {p} \cup IF AtEnd(p) THEN {} ELSE Reach(next(p))
  <2> DEFINE C == {p} \cup IF AtEnd(p) THEN {} ELSE Reach(next(p))
  <2>1. C \subseteq Reach(p)
    BY <1>3
  <2>2. C \in SUBSET P
    OBVIOUS
  <2>3. ASSUME NEW q \in C, ~AtEnd(q) PROVE next(q) \in C
    <3>1. CASE q = p
      BY <1>2, <1>3, <2>3, <3>1
    <3>2. CASE q # p
      <4>1. ~AtEnd(p) /\ q \in Reach(next(p))
        BY <3>2
      <4>2. next(q) \in Reach(next(p))
        BY <1>2, <1>3, <2>3, <4>1
      <4> QED
        BY <4>1, <4>2
    <3> QED
      BY <3>1, <3>2
  <2>4. p \in C /\ Closed(C)
    BY <2>3
  <2> HIDE DEF C
  <2>5. Reach(p) \subseteq C
    BY <2>2, <2>4
  <2>6. Reach(p) = C
    BY <2>1, <2>5
  <2> QED
    BY <2>6 DEF C
<1>5. ASSUME NEW p \in P
      PROVE  f[p] = {<<p.x, p.y>>} \cup IF AtEnd(p) THEN {} ELSE f[next(p)]
  <2> HIDE DEF Reach
  <2>1. CASE AtEnd(p)
    <3>1. Reach(p) = {p}
      BY <1>4, <2>1
    <3> QED
      BY <2>1, <3>1
  <2>2. CASE ~AtEnd(p)
    <3>1. Reach(p) = {p} \cup Reach(next(p)) /\ next(p) \in P
      BY <1>2, <1>4, <2>2
    <3> QED
      BY <2>2, <3>1
  <2> QED
    BY <2>1, <2>2
<1>6. f = Body(f)
  <2>1. f = [p \in P |-> f[p]]
    OBVIOUS
  <2> HIDE DEF f
  <2> QED
    BY <1>5, <2>1 DEF P, AtEnd, next
<1> HIDE DEF f
<1>7. Drawing!Drawn(x0, y0, x1, y1) = Body(Drawing!Drawn(x0, y0, x1, y1))
  BY <1>1, <1>6
<1> QED
  BY <1>7

\* The whole numbers between two, whichever is the larger.
Between(a, b) == IF a <= b THEN a .. b ELSE b .. a

\* A level line is the straight one between its ends.
LEMMA LevelLine ==
    ASSUME NEW x0 \in Int, NEW x1 \in Int, NEW y \in Int
    PROVE  Drawing!draw_line(x0, y, x1, y) = Between(x0, x1) \X {y}
<1> DEFINE D == Drawing!Magnitude(x1 - x0)
           s == Drawing!Sign(x0, x1)
           at(j) == [x |-> x1 - s * j, y |-> y, error |-> D]
           F == Drawing!Drawn(x0, y, x1, y)
           S == {j \in Nat : j <= D => F[at(j)] = Between(x1 - s * j, x1) \X {y}}
<1>1. /\ D \in Nat /\ s \in {-1, 1} /\ x1 - s * D = x0
      /\ Drawing!Magnitude(y - y) = 0
  BY DEF Drawing!Magnitude, Drawing!Sign
<1>2. ASSUME NEW j \in Nat PROVE at(j) \in Drawing!Pens
  BY <1>1 DEF Drawing!Pens
<1>3. ASSUME NEW j \in Nat, j + 1 <= D
      PROVE  Drawing!Moved(x0, y, x1, y, at(j + 1)) = at(j)
  <2> DEFINE d == D
             g == s
  <2>1. d \in Nat /\ d >= 1 /\ g \in {-1, 1}
    BY <1>1, <1>3
  <2>2. 2 * d >= -0 /\ ~(2 * (d + 0) <= d)
    BY <2>1
  <2>3. x1 - g * (j + 1) + g = x1 - g * j
    BY <2>1
  <2>4. Drawing!Magnitude(x1 - x0) = d /\ Drawing!Sign(x0, x1) = g
    OBVIOUS
  <2> HIDE DEF d, g
  <2>5. Drawing!Moved(x0, y, x1, y, [x |-> x1 - g * (j + 1), y |-> y, error |-> d])
          = [x |-> x1 - g * j, y |-> y, error |-> d]
    <3> DEFINE p == [x |-> x1 - g * (j + 1), y |-> y, error |-> d]
    <3>1. p.x = x1 - g * (j + 1) /\ p.y = y /\ p.error = d
      OBVIOUS
    <3> HIDE DEF p
    <3>2. -Drawing!Magnitude(y - y) = 0
      BY <1>1
    <3>3. 2 * p.error >= 0 /\ p.error + 0 = d
      BY <2>1, <3>1
    <3>4. Drawing!Moved(x0, y, x1, y, p)
            = [x |-> p.x + g, y |-> p.y + 0, error |-> d + 0]
      BY <2>1, <2>2, <2>4, <3>1, <3>2, <3>3 DEF Drawing!Moved
    <3> QED
      BY <2>1, <2>3, <3>1, <3>4 DEF p
  <2> QED
    BY <2>5 DEF d, g
<1> HIDE DEF D, s
<1>4. 0 \in S
  <2>1. at(0) = [x |-> x1, y |-> y, error |-> D]
    BY <1>1
  <2>2. F[at(0)] = {<<x1, y>>}
    <3>1. at(0) \in Drawing!Pens /\ at(0).x = x1 /\ at(0).y = y
      BY <1>2, <2>1
    <3> HIDE DEF at
    <3>2. F[at(0)] = {<<at(0).x, at(0).y>>} \cup {}
      BY <3>1, DrawnIs
    <3> HIDE DEF F
    <3> QED
      BY <3>1, <3>2
  <2>3. Between(x1 - s * 0, x1) = {x1}
    BY <1>1 DEF Between
  <2> HIDE DEF F, at
  <2>4. {x1} \X {y} = {<<x1, y>>}
    OBVIOUS
  <2> QED
    BY <2>2, <2>3, <2>4
<1>5. ASSUME NEW j \in Nat, j \in S PROVE j + 1 \in S
  <2> SUFFICES ASSUME j + 1 <= D
               PROVE  F[at(j + 1)] = Between(x1 - s * (j + 1), x1) \X {y}
    OBVIOUS
  <2>1. F[at(j)] = Between(x1 - s * j, x1) \X {y}
    BY <1>1, <1>5
  <2>2. at(j + 1).x = x1 - s * (j + 1) /\ at(j + 1).y = y /\ x1 - s * (j + 1) # x1
    BY <1>1
  <2>3. at(j + 1) \in Drawing!Pens
    BY <1>2
  <2> HIDE DEF at
  <2>4. F[at(j + 1)] = {<<x1 - s * (j + 1), y>>} \cup F[at(j)]
    BY <1>3, <2>2, <2>3, DrawnIs
  <2>5. Between(x1 - s * (j + 1), x1) = {x1 - s * (j + 1)} \cup Between(x1 - s * j, x1)
    BY <1>1 DEF Between
  <2> HIDE DEF F
  <2> QED
    BY <2>1, <2>4, <2>5
<1> HIDE DEF S
<1>6. D \in S
  BY <1>1, <1>4, <1>5, SetInduction
<1>7. F[at(D)] = Between(x0, x1) \X {y}
  BY <1>1, <1>6 DEF S
<1>8. Drawing!draw_line(x0, y, x1, y) = F[at(D)]
  <2>1. Drawing!draw_line(x0, y, x1, y) = F[[x |-> x0, y |-> y, error |-> D - 0]]
    BY <1>1 DEF Drawing!draw_line, D
  <2>2. D - 0 = D
    BY <1>1
  <2> QED
    BY <1>1, <2>1, <2>2
<1> QED
  BY <1>7, <1>8

\* So is an upright one.
LEMMA UprightLine ==
    ASSUME NEW x \in Int, NEW y0 \in Int, NEW y1 \in Int
    PROVE  Drawing!draw_line(x, y0, x, y1) = {x} \X Between(y0, y1)
<1> DEFINE D == Drawing!Magnitude(y1 - y0)
           s == Drawing!Sign(y0, y1)
           at(j) == [x |-> x, y |-> y1 - s * j, error |-> -D]
           F == Drawing!Drawn(x, y0, x, y1)
           S == {j \in Nat : j <= D => F[at(j)] = {x} \X Between(y1 - s * j, y1)}
<1>1. /\ D \in Nat /\ s \in {-1, 1} /\ y1 - s * D = y0
      /\ Drawing!Magnitude(x - x) = 0
  BY DEF Drawing!Magnitude, Drawing!Sign
<1>2. ASSUME NEW j \in Nat PROVE at(j) \in Drawing!Pens
  BY <1>1 DEF Drawing!Pens
<1>3. ASSUME NEW j \in Nat, j + 1 <= D
      PROVE  Drawing!Moved(x, y0, x, y1, at(j + 1)) = at(j)
  <2> DEFINE d == D
             g == s
  <2>1. d \in Nat /\ d >= 1 /\ g \in {-1, 1}
    BY <1>1, <1>3
  <2>2. ~(2 * (-d) >= -d) /\ 2 * (-d + 0) <= 0
    BY <2>1
  <2>3. y1 - g * (j + 1) + g = y1 - g * j
    BY <2>1
  <2>4. Drawing!Magnitude(y1 - y0) = d /\ Drawing!Sign(y0, y1) = g
    OBVIOUS
  <2> HIDE DEF d, g
  <2>5. Drawing!Moved(x, y0, x, y1, [x |-> x, y |-> y1 - g * (j + 1), error |-> -d])
          = [x |-> x, y |-> y1 - g * j, error |-> -d]
    <3> DEFINE p == [x |-> x, y |-> y1 - g * (j + 1), error |-> -d]
    <3>1. p.x = x /\ p.y = y1 - g * (j + 1) /\ p.error = -d
      OBVIOUS
    <3> HIDE DEF p
    <3>2. Drawing!Magnitude(x - x) = 0
      BY <1>1
    <3>3. ~(2 * p.error >= -d) /\ p.error + 0 = -d /\ 2 * p.error <= 0
      BY <2>1, <3>1
    <3>4. Drawing!Moved(x, y0, x, y1, p)
            = [x |-> p.x + 0, y |-> p.y + g, error |-> -d + 0]
      BY <2>1, <2>2, <2>4, <3>1, <3>2, <3>3 DEF Drawing!Moved
    <3> QED
      BY <2>1, <2>3, <3>1, <3>4 DEF p
  <2> QED
    BY <2>5 DEF d, g
<1> HIDE DEF D, s
<1>4. 0 \in S
  <2>1. at(0) = [x |-> x, y |-> y1, error |-> -D]
    BY <1>1
  <2>2. F[at(0)] = {<<x, y1>>}
    <3>1. at(0) \in Drawing!Pens /\ at(0).x = x /\ at(0).y = y1
      BY <1>2, <2>1
    <3> HIDE DEF at
    <3>2. F[at(0)] = {<<at(0).x, at(0).y>>} \cup {}
      BY <3>1, DrawnIs
    <3> HIDE DEF F
    <3> QED
      BY <3>1, <3>2
  <2>3. Between(y1 - s * 0, y1) = {y1}
    BY <1>1 DEF Between
  <2> HIDE DEF F, at
  <2>4. {x} \X {y1} = {<<x, y1>>}
    OBVIOUS
  <2> QED
    BY <2>2, <2>3, <2>4
<1>5. ASSUME NEW j \in Nat, j \in S PROVE j + 1 \in S
  <2> SUFFICES ASSUME j + 1 <= D
               PROVE  F[at(j + 1)] = {x} \X Between(y1 - s * (j + 1), y1)
    OBVIOUS
  <2>1. F[at(j)] = {x} \X Between(y1 - s * j, y1)
    BY <1>1, <1>5
  <2>2. at(j + 1).y = y1 - s * (j + 1) /\ at(j + 1).x = x /\ y1 - s * (j + 1) # y1
    BY <1>1
  <2>3. at(j + 1) \in Drawing!Pens
    BY <1>2
  <2> HIDE DEF at
  <2>4. F[at(j + 1)] = {<<x, y1 - s * (j + 1)>>} \cup F[at(j)]
    BY <1>3, <2>2, <2>3, DrawnIs
  <2>5. Between(y1 - s * (j + 1), y1) = {y1 - s * (j + 1)} \cup Between(y1 - s * j, y1)
    BY <1>1 DEF Between
  <2> HIDE DEF F
  <2> QED
    BY <2>1, <2>4, <2>5
<1> HIDE DEF S
<1>6. D \in S
  BY <1>1, <1>4, <1>5, SetInduction
<1>7. F[at(D)] = {x} \X Between(y0, y1)
  BY <1>1, <1>6 DEF S
<1>8. Drawing!draw_line(x, y0, x, y1) = F[at(D)]
  <2>1. Drawing!draw_line(x, y0, x, y1) = F[[x |-> x, y |-> y0, error |-> 0 - D]]
    BY <1>1 DEF Drawing!draw_line, D
  <2>2. 0 - D = -D
    BY <1>1
  <2> QED
    BY <1>1, <2>1, <2>2
<1> QED
  BY <1>7, <1>8

\* A frame is drawn on the border of its rectangle.
LEMMA FrameIs ==
    ASSUME NEW width \in Int, NEW height \in Int, width >= 1, height >= 1
    PROVE  Drawing!draw_rect(0, 0, width, height) =
              {p \in (0 .. width - 1) \X (0 .. height - 1) :
                 p[1] \in {0, width - 1} \/ p[2] \in {0, height - 1}}
<1> DEFINE w == width - 1
           h == height - 1
           level(y) == (0 .. w) \X {y}
           upright(x) == {x} \X (0 .. h)
           border == {p \in (0 .. w) \X (0 .. h) : p[1] \in {0, w} \/ p[2] \in {0, h}}
<1>1. /\ w \in Int /\ h \in Int /\ 0 <= w /\ 0 <= h
      /\ 0 + width - 1 = w /\ 0 + height - 1 = h
  OBVIOUS
<1> HIDE DEF w, h
<1>2. /\ Drawing!draw_line(0, 0, w, 0) = level(0)
      /\ Drawing!draw_line(0, h, w, h) = level(h)
  BY <1>1, LevelLine DEF Between
<1>3. /\ Drawing!draw_line(0, 0, 0, h) = upright(0)
      /\ Drawing!draw_line(w, 0, w, h) = upright(w)
  BY <1>1, UprightLine DEF Between
<1>4. Drawing!draw_rect(0, 0, width, height)
        = level(0) \cup upright(0) \cup upright(w) \cup level(h)
  BY <1>1, <1>2, <1>3 DEF Drawing!draw_rect
<1>5. level(0) \cup upright(0) \cup upright(w) \cup level(h) = border
  BY <1>1
<1> QED
  BY <1>4, <1>5 DEF w, h

\* Strokes of any length are straight, and frames of any size are borders.
LEMMA StrokesTrue ==
    ASSUME NEW dx \in Int, NEW dy \in Int
    PROVE  Drawing!FrameTrue(dx, dy)
<1> DEFINE span(n) == (0 .. n) \cup (n .. 0)
           border == {p \in (0 .. dx) \X (0 .. dy) : p[1] \in {0, dx} \/ p[2] \in {0, dy}}
<1>1. \A n \in Int : Between(0, n) = span(n)
  BY DEF Between
<1>2. Drawing!draw_line(0, 0, dx, 0) = span(dx) \X {0}
  BY <1>1, LevelLine
<1>3. Drawing!draw_line(0, 0, 0, dy) = {0} \X span(dy)
  BY <1>1, UprightLine
<1>4. ASSUME dx >= 0, dy >= 0
      PROVE  /\ Drawing!draw_rect(0, 0, dx + 1, dy + 1) = Drawing!line_rect(0, 0, dx + 1, dy + 1)
             /\ Drawing!draw_rect(0, 0, dx + 1, dy + 1) =
                   Drawing!fill_rect(0, 0, dx + 1, dy + 1) \ Drawing!fill_rect(1, 1, dx - 1, dy - 1)
  <2>1. dx + 1 - 1 = dx /\ dy + 1 - 1 = dy /\ 0 + (dx + 1) - 1 = dx /\ 0 + (dy + 1) - 1 = dy
    OBVIOUS
  <2>2. Drawing!draw_rect(0, 0, dx + 1, dy + 1) = border
    BY <1>4, <2>1, FrameIs
  <2>3. Drawing!line_rect(0, 0, dx + 1, dy + 1) = ((0 .. dx) \X {0, dy}) \cup ({0, dx} \X (0 .. dy))
    BY <2>1 DEF Drawing!line_rect
  <2>4. border = ((0 .. dx) \X {0, dy}) \cup ({0, dx} \X (0 .. dy))
    BY <1>4
  <2>5. /\ Drawing!fill_rect(0, 0, dx + 1, dy + 1) = (0 .. dx) \X (0 .. dy)
        /\ Drawing!fill_rect(1, 1, dx - 1, dy - 1) = (1 .. dx - 1) \X (1 .. dy - 1)
    <3>1. 1 + (dx - 1) - 1 = dx - 1 /\ 1 + (dy - 1) - 1 = dy - 1
      OBVIOUS
    <3> QED
      BY <2>1, <3>1 DEF Drawing!fill_rect
  <2>6. border = ((0 .. dx) \X (0 .. dy)) \ ((1 .. dx - 1) \X (1 .. dy - 1))
    BY <1>4
  <2> QED
    BY <2>2, <2>3, <2>4, <2>5, <2>6
<1> HIDE DEF span
<1>5. span(dx) = (0 .. dx) \cup (dx .. 0) /\ span(dy) = (0 .. dy) \cup (dy .. 0)
  BY DEF span
<1> QED
  BY <1>2, <1>3, <1>4, <1>5 DEF Drawing!FrameTrue

-----------------------------------------------------------------------------
(* Bars.                                                                     *)

\* So many hundredths of n.
Part(n, a) == (n * a) \div 100

\* A part of n in hundredths is at most n, more of them are no less, and none is empty.
LEMMA PartOf ==
    ASSUME NEW n \in Int, NEW a \in 0 .. 100, NEW b \in 0 .. 100, a <= b
    PROVE  /\ Part(n, a) \in Int
           /\ Part(n, 0) = 0
           /\ Part(n, 100) = n
           /\ n >= 0 => 0 <= Part(n, a) /\ Part(n, a) <= Part(n, b) /\ Part(n, b) <= n
           /\ n < 0 => Part(n, a) <= 0
<1> DEFINE p == n * a
           q == n * b
<1>1. p \in Int /\ q \in Int
  OBVIOUS
<1>2. n >= 0 => 0 <= p /\ p <= q /\ q <= 100 * n
  <2> SUFFICES ASSUME n >= 0 PROVE 0 <= p /\ p <= q /\ q <= 100 * n
    OBVIOUS
  <2>1. 0 <= n * a
    OBVIOUS
  <2>2. 0 <= n * (b - a) /\ n * (b - a) = n * b - n * a
    OBVIOUS
  <2>3. 0 <= n * (100 - b) /\ n * (100 - b) = n * 100 - n * b
    OBVIOUS
  <2> QED
    BY <1>1, <2>1, <2>2, <2>3
<1>3. n < 0 => p <= 0
  OBVIOUS
<1>4. n * 0 = 0 /\ n * 100 = 100 * n
  OBVIOUS
<1> HIDE DEF p, q
<1>5. p \div 100 \in Int /\ (100 * n) \div 100 = n /\ 0 \div 100 = 0
  BY <1>1
<1>6. n >= 0 => 0 <= p \div 100 /\ p \div 100 <= q \div 100 /\ q \div 100 <= n
  BY <1>1, <1>2
<1>7. n < 0 => p \div 100 <= 0
  BY <1>1, <1>3
<1> QED
  BY <1>4, <1>5, <1>6, <1>7 DEF p, q, Part

\* The filling of a bar of any size at any value.
LEMMA BarsTrue ==
    ASSUME NEW width \in Int, NEW height \in Int, NEW value \in Int, width >= 2, height >= 2
    PROVE  Drawing!BarTrue(width, height, value)
<1> DEFINE part(n, v) == Part(n, Drawing!Percent(v))
           inner == Drawing!fill_rect(1, 1, width - 2, height - 2)
           track == Drawing!fill_rect(2, 2, width - 4, height - 4)
           Codex(v) == Drawing!CodexFill(width, height, v)
           RunBoard(v) == Drawing!RunBoardFill(width, height, v)
<1>1. /\ Drawing!Percent(value) \in 0 .. 100 /\ Drawing!Percent(value + 1) \in 0 .. 100
      /\ Drawing!Percent(value) <= Drawing!Percent(value + 1)
      /\ value <= 0 => Drawing!Percent(value) = 0
      /\ value >= 100 => Drawing!Percent(value) = 100
  BY DEF Drawing!Percent
<1>2. ASSUME NEW n \in Int
      PROVE  /\ part(n, value) \in Int /\ part(n, value + 1) \in Int
             /\ n >= 0 => 0 <= part(n, value) /\ part(n, value) <= part(n, value + 1)
                          /\ part(n, value) <= n /\ part(n, value + 1) <= n
             /\ n < 0 => part(n, value) <= 0 /\ part(n, value + 1) <= 0
             /\ value <= 0 => part(n, value) = 0
             /\ value >= 100 => part(n, value) = n
  <2> DEFINE a == Drawing!Percent(value)
             b == Drawing!Percent(value + 1)
  <2>1. a \in 0 .. 100 /\ b \in 0 .. 100 /\ a <= b
    BY <1>1
  <2>2. (value <= 0 => a = 0) /\ (value >= 100 => a = 100)
    BY <1>1
  <2> HIDE DEF a, b
  <2>3. /\ Part(n, a) \in Int /\ Part(n, 0) = 0 /\ Part(n, 100) = n
        /\ n >= 0 => 0 <= Part(n, a) /\ Part(n, a) <= Part(n, b) /\ Part(n, b) <= n
        /\ n < 0 => Part(n, a) <= 0
    BY <2>1, PartOf
  <2>4. Part(n, b) \in Int /\ (n < 0 => Part(n, b) <= 0)
    <3>1. b \in 0 .. 100 /\ b <= b
      BY <2>1
    <3> QED
      BY <3>1, PartOf
  <2>5. (value <= 0 => Part(n, a) = 0) /\ (value >= 100 => Part(n, a) = n)
    BY <2>2, <2>3
  <2>6. Part(n, a) = part(n, value) /\ Part(n, b) = part(n, value + 1)
    BY DEF a, b
  <2> HIDE DEF part
  <2>7. /\ n >= 0 => Part(n, a) <= n
        /\ n >= 0 => 0 <= Part(n, a) /\ Part(n, a) <= Part(n, b) /\ Part(n, b) <= n
    BY <2>3, <2>4
  <2> QED
    BY <2>3, <2>4, <2>5, <2>6, <2>7
<1> HIDE DEF part
<1>3. /\ inner = (1 .. width - 2) \X (1 .. height - 2)
      /\ track = (2 .. width - 3) \X (2 .. height - 3)
  BY DEF Drawing!fill_rect
<1>4. inner \cap Drawing!draw_rect(0, 0, width, height) = {}
  BY <1>3, FrameIs
<1>5. \A v \in {value, value + 1} :
         /\ Codex(v) = (1 .. part(width - 2, v)) \X (1 .. height - 2)
         /\ RunBoard(v) = IF v < 0 THEN {} ELSE (2 .. 1 + part(width - 4, v)) \X (2 .. height - 3)
  <2> SUFFICES ASSUME NEW v \in {value, value + 1}
               PROVE  /\ Codex(v) = (1 .. part(width - 2, v)) \X (1 .. height - 2)
                      /\ RunBoard(v) = IF v < 0 THEN {}
                                       ELSE (2 .. 1 + part(width - 4, v)) \X (2 .. height - 3)
    OBVIOUS
  <2>1. part(width - 2, v) \in Int /\ part(width - 4, v) \in Int
    BY <1>2
  <2>2. /\ Codex(v) = Drawing!fill_rect(1, 1, part(width - 2, v), height - 2)
        /\ RunBoard(v) = IF v < 0 THEN {}
                         ELSE Drawing!fill_rect(2, 2, part(width - 4, v), height - 4)
    BY DEF part, Part, Drawing!CodexFill, Drawing!RunBoardFill
  <2> HIDE DEF Codex, RunBoard
  <2>3. /\ 1 + part(width - 2, v) - 1 = part(width - 2, v) /\ 1 + (height - 2) - 1 = height - 2
        /\ 2 + part(width - 4, v) - 1 = 1 + part(width - 4, v) /\ 2 + (height - 4) - 1 = height - 3
    BY <2>1
  <2> QED
    BY <2>2, <2>3 DEF Drawing!fill_rect
<1> HIDE DEF inner, track, Codex, RunBoard
<1>6. /\ Codex(value) \subseteq inner /\ Codex(value) \subseteq Codex(value + 1)
      /\ value <= 0 => Codex(value) = {}
      /\ value >= 100 => Codex(value) = inner
  <2> DEFINE c == part(width - 2, value)
             d == part(width - 2, value + 1)
  <2>1. /\ c \in Int /\ d \in Int /\ 0 <= c /\ c <= d /\ d <= width - 2
        /\ value <= 0 => c = 0
        /\ value >= 100 => c = width - 2
    BY <1>2
  <2>2. /\ Codex(value) = (1 .. c) \X (1 .. height - 2)
        /\ Codex(value + 1) = (1 .. d) \X (1 .. height - 2)
    BY <1>5
  <2> HIDE DEF c, d
  <2> QED
    BY <1>3, <2>1, <2>2
<1>7. /\ RunBoard(value) \subseteq inner /\ RunBoard(value) \subseteq RunBoard(value + 1)
      /\ value <= 0 => RunBoard(value) = {}
      /\ value >= 100 => RunBoard(value) = track
  <2> DEFINE c == part(width - 4, value)
             d == part(width - 4, value + 1)
  <2>1. /\ c \in Int /\ d \in Int
        /\ width >= 4 => 0 <= c /\ c <= d /\ d <= width - 4
        /\ width < 4 => c <= 0 /\ d <= 0
        /\ value <= 0 => c = 0
        /\ value >= 100 => c = width - 4
    BY <1>2
  <2>2. /\ RunBoard(value) = IF value < 0 THEN {} ELSE (2 .. 1 + c) \X (2 .. height - 3)
        /\ RunBoard(value + 1) = IF value + 1 < 0 THEN {} ELSE (2 .. 1 + d) \X (2 .. height - 3)
    BY <1>5
  <2> HIDE DEF c, d
  <2> QED
    BY <1>3, <2>1, <2>2
<1> QED
  BY <1>4, <1>6, <1>7 DEF Drawing!BarTrue, inner, track, Codex, RunBoard

-----------------------------------------------------------------------------
(* Colours.                                                                  *)

\* What 1U << length is.
LEMMA ShiftedIs ==
    /\ Drawing!Shifted[0] = 1
    /\ \A n \in 1 .. 31 : Drawing!Shifted[n] = 2 * Drawing!Shifted[n - 1]
<1> DEFINE N == 31
           step == [p \in (1 .. N) \X Int |-> 2 * p[2] + 1]
           Body(g) == [length \in 0 .. 31 |-> IF length = 0 THEN 1 ELSE 2 * g[length - 1]]
<1>1. Drawing!Shifted = CHOOSE g : g = Body(g)
  BY DEF Drawing!Shifted
<1>2. N \in Nat /\ N = 31
  OBVIOUS
<1> HIDE DEF N
<1>3. step \in [(1 .. N) \X Int -> Int] /\ \A n \in 1 .. N, i \in Int : step[<<n, i>>] = 2 * i + 1
  OBVIOUS
<1> HIDE DEF step
<1>4. PICK f \in [0 .. N -> Int] : f[0] = 0 /\ \A n \in 1 .. N : f[n] = step[<<n, f[n - 1]>>]
  BY <1>2, <1>3, StepByStep
<1> DEFINE g == [length \in 0 .. 31 |-> f[length] + 1]
<1>5. g = Body(g)
  <2>1. /\ g = [length \in 0 .. 31 |-> g[length]]
        /\ \A length \in 0 .. 31 : g[length] = f[length] + 1
    OBVIOUS
  <2> HIDE DEF g
  <2>2. ASSUME NEW length \in 0 .. 31
        PROVE  g[length] = IF length = 0 THEN 1 ELSE 2 * g[length - 1]
    <3>1. CASE length = 0
      <4>1. f[0] = 0
        BY <1>4
      <4>2. g[0] = f[0] + 1
        BY <2>1, <3>1
      <4>3. g[0] = 1
        BY <4>1, <4>2
      <4> QED
        BY <3>1, <4>3
    <3>2. CASE length # 0
      <4>1. length - 1 \in 0 .. 31 /\ length \in 1 .. N /\ f[length - 1] \in Int
        BY <1>2, <3>2
      <4>2. f[length] = 2 * f[length - 1] + 1
        BY <1>3, <1>4, <4>1
      <4>3. g[length] = f[length] + 1 /\ g[length - 1] = f[length - 1] + 1
        BY <2>1, <4>1
      <4> QED
        BY <3>2, <4>1, <4>2, <4>3
    <3> QED
      BY <3>1, <3>2
  <2> QED
    BY <2>1, <2>2
<1> HIDE DEF g
<1>6. Drawing!Shifted = Body(Drawing!Shifted)
  BY <1>1, <1>5
<1> QED
  BY <1>6

\* A field of up to eight bits holds at most 255.
LEMMA FullIs ==
    ASSUME NEW length \in 0 .. 8
    PROVE  /\ Drawing!Full(length) \in 0 .. 255
           /\ Drawing!Shifted[length] = Drawing!Full(length) + 1
           /\ length # 0 => Drawing!Full(length) >= 1
<1> DEFINE S == Drawing!Shifted
<1>1. /\ S[0] = 1 /\ S[1] = 2 * S[0] /\ S[2] = 2 * S[1] /\ S[3] = 2 * S[2] /\ S[4] = 2 * S[3]
      /\ S[5] = 2 * S[4] /\ S[6] = 2 * S[5] /\ S[7] = 2 * S[6] /\ S[8] = 2 * S[7]
  BY ShiftedIs
<1> HIDE DEF S
<1>2. /\ S[0] = 1 /\ S[1] = 2 /\ S[2] = 4 /\ S[3] = 8 /\ S[4] = 16
      /\ S[5] = 32 /\ S[6] = 64 /\ S[7] = 128 /\ S[8] = 256
  BY <1>1
<1>3. S[length] \in 1 .. 256 /\ (length # 0 => S[length] >= 2)
  BY <1>2
<1> QED
  BY <1>3 DEF Drawing!Full, S

\* A field's value v of at most m as an 8-bit component, and a component as a field's value.
Widened(v, m) == (v * 255 + m \div 2) \div m
Narrowed(c, m) == (c * m + 127) \div 255

\* Scaling a field's value to a component keeps the order and is undone by scaling back.
LEMMA ScaledThereAndBack ==
    ASSUME NEW m \in 1 .. 255, NEW v \in 0 .. m, NEW w \in 0 .. m, v <= w
    PROVE  /\ Widened(v, m) \in Nat
           /\ Widened(v, m) <= Widened(w, m)
           /\ Narrowed(Widened(v, m), m) = v
<1> DEFINE h == m \div 2
           c(i) == (i * 255 + h) \div m
<1>1. h \in Nat /\ 2 * h <= m /\ m <= 2 * h + 1
  OBVIOUS
<1> HIDE DEF h
<1>2. ASSUME NEW i \in Nat
      PROVE  c(i) \in Nat /\ c(i) * m <= i * 255 + h /\ i * 255 + h < c(i) * m + m
  <2> DEFINE a == i * 255 + h
  <2>1. a \in Nat
    BY <1>1
  <2> HIDE DEF a
  <2>2. a \div m \in Nat /\ m * (a \div m) <= a /\ a < m * (a \div m) + m
    BY <2>1
  <2> QED
    BY <2>2 DEF a
<1> HIDE DEF c
<1>3. c(v) <= c(w)
  <2>1. SUFFICES ASSUME c(w) + 1 <= c(v) PROVE FALSE
    BY <1>2
  <2>2. c(w) * m + m <= c(v) * m
    <3>1. c(w) \in Nat /\ c(v) \in Nat
      BY <1>2
    <3>2. (c(w) + 1) * m <= c(v) * m
      BY <2>1, <3>1
    <3>3. (c(w) + 1) * m = c(w) * m + m
      BY <3>1
    <3> QED
      BY <3>2, <3>3
  <2>3. w * 255 + h < c(w) * m + m /\ c(v) * m <= v * 255 + h
    BY <1>2
  <2>4. c(w) * m \in Int /\ c(v) * m \in Int
    BY <1>2
  <2> QED
    BY <1>1, <2>2, <2>3, <2>4
<1>4. (c(v) * m + 127) \div 255 = v
  <2> DEFINE p == c(v) * m
  <2>1. p \in Int /\ p <= v * 255 + h /\ v * 255 + h < p + m
    BY <1>2
  <2> HIDE DEF p
  <2>2. 255 * v <= p + 127 /\ p + 127 < 255 * v + 255
    BY <1>1, <2>1
  <2>3. (p + 127) \div 255 = v
    BY <2>1, <2>2
  <2> QED
    BY <2>3 DEF p
<1>5. c(v) \in Nat
  BY <1>2
<1> QED
  BY <1>3, <1>4, <1>5 DEF c, h, Widened, Narrowed

\* blend_component mixes two components in proportion.
LEMMA BlendIs ==
    ASSUME NEW bg \in Nat, NEW fg \in Nat, NEW a \in 0 .. 254
    PROVE  LET mix(i) == Drawing!blend_component(bg, fg, i)
           IN  /\ mix(0) = bg /\ mix(255) = fg /\ mix(a) \in Int /\ mix(a + 1) \in Int
               /\ bg <= fg => bg <= mix(a) /\ mix(a) <= mix(a + 1) /\ mix(a + 1) <= fg
               /\ fg <= bg => fg <= mix(a + 1) /\ mix(a + 1) <= mix(a) /\ mix(a) <= bg
<1> DEFINE mix(i) == Drawing!blend_component(bg, fg, i)
           d == fg - bg
           p == d * a
           q == d * (a + 1)
<1>1. p \in Int /\ q \in Int /\ d \in Int
  OBVIOUS
<1>2. /\ d >= 0 => 0 <= p /\ p <= q /\ q <= 255 * d
      /\ d <= 0 => 255 * d <= q /\ q <= p /\ p <= 0
  <2> HIDE DEF d
  <2>1. q = p + d
    BY <1>1
  <2>2. d >= 0 => 0 <= p
    BY <1>1
  <2>3. d <= 0 => p <= 0
    BY <1>1
  <2>4. q + d * (254 - a) = 255 * d
    BY <1>1
  <2>5. d * (254 - a) \in Int /\ (d >= 0 => d * (254 - a) >= 0) /\ (d <= 0 => d * (254 - a) <= 0)
    BY <1>1
  <2> HIDE DEF p, q
  <2> QED
    BY <1>1, <2>1, <2>2, <2>3, <2>4, <2>5
<1>3. /\ mix(a) = (255 * bg + p + 127) \div 255
      /\ mix(a + 1) = (255 * bg + q + 127) \div 255
  <2>1. bg * (255 - a) + fg * a = 255 * bg + p
    OBVIOUS
  <2>2. bg * (255 - (a + 1)) + fg * (a + 1) = 255 * bg + q
    OBVIOUS
  <2> QED
    BY <2>1, <2>2 DEF Drawing!blend_component
<1>4. mix(0) = bg /\ mix(255) = fg
  <2>1. /\ bg * (255 - 0) + fg * 0 + 127 = 255 * bg + 127
        /\ bg * (255 - 255) + fg * 255 + 127 = 255 * fg + 127
    OBVIOUS
  <2>2. (255 * bg + 127) \div 255 = bg /\ (255 * fg + 127) \div 255 = fg
    OBVIOUS
  <2> QED
    BY <2>1, <2>2 DEF Drawing!blend_component
<1>5. fg = bg + d
  OBVIOUS
<1> HIDE DEF p, q, d, mix
<1>6. mix(a) \in Int /\ mix(a + 1) \in Int
  BY <1>1, <1>3
<1>7. d >= 0 => bg <= mix(a) /\ mix(a) <= mix(a + 1) /\ mix(a + 1) <= bg + d
  BY <1>1, <1>2, <1>3
<1>8. d <= 0 => bg + d <= mix(a + 1) /\ mix(a + 1) <= mix(a) /\ mix(a) <= bg
  BY <1>1, <1>2, <1>3
<1>9. (bg <= fg => d >= 0) /\ (fg <= bg => d <= 0)
  BY <1>1, <1>5
<1> QED
  BY <1>4, <1>5, <1>6, <1>7, <1>8, <1>9 DEF mix

\* pack_component keeps the order of components.
LEMMA PackOrder ==
    ASSUME NEW length \in 1 .. 8, NEW i \in Int, NEW j \in Int, i <= j
    PROVE  /\ Drawing!pack_component(i, length) \in Int
           /\ Drawing!pack_component(i, length) <= Drawing!pack_component(j, length)
<1> DEFINE m == Drawing!Full(length)
<1>1. m \in Nat
  <2>1. length \in 0 .. 8
    OBVIOUS
  <2>2. Drawing!Full(length) \in 0 .. 255
    BY <2>1, FullIs
  <2> QED
    BY <2>2
<1> HIDE DEF m
<1>2. i * m \in Int /\ j * m \in Int /\ i * m <= j * m
  <2>1. (j - i) * m >= 0 /\ (j - i) * m = j * m - i * m
    BY <1>1
  <2> QED
    BY <1>1, <2>1
<1> DEFINE p == i * m
           q == j * m
<1> HIDE DEF p, q
<1>3. p \in Int /\ q \in Int /\ p <= q
  BY <1>2 DEF p, q
<1>4. (p + 127) \div 255 \in Int /\ (p + 127) \div 255 <= (q + 127) \div 255
  BY <1>3
<1> QED
  BY <1>4 DEF Drawing!pack_component, p, q, m

\* The edge of a glyph in a field of any length up to eight bits.
LEMMA BlendsTrue ==
    ASSUME NEW length \in 0 .. 8, NEW below \in 0 .. Drawing!Full(length), NEW alpha \in 0 .. 254
    PROVE  Drawing!BlendsBetween(below, alpha, length)
<1> DEFINE m == Drawing!Full(length)
           rgb(v) == Drawing!rgb565_component(v, length)
           pack(v) == Drawing!pack_component(v, length)
<1> SUFFICES ASSUME NEW color \in 0 .. m
             PROVE  LET shown == Drawing!draw_alpha_pixel(below, color, alpha, length)
                        more == Drawing!draw_alpha_pixel(below, color, alpha + 1, length)
                    IN  IF below <= color THEN below <= shown /\ shown <= more /\ more <= color
                        ELSE color <= more /\ more <= shown /\ shown <= below
  BY DEF Drawing!BlendsBetween
<1> DEFINE mix(a) == Drawing!blend_component(rgb(below), rgb(color), a)
           pixel(a) == Drawing!draw_alpha_pixel(below, color, a, length)
<1>1. CASE length = 0
  <2>1. below = 0 /\ color = 0
    BY <1>1, ShiftedIs DEF Drawing!Full
  <2>2. \A a \in 0 .. 255 : pixel(a) = 0
    BY <1>1, <2>1 DEF Drawing!draw_alpha_pixel, Drawing!pack_component
  <2> QED
    BY <2>1, <2>2
<1>2. CASE length # 0
  <2>1. m \in 1 .. 255 /\ Drawing!Shifted[length] = m + 1
    BY <1>2, FullIs
  <2>2. \A v \in 0 .. m : rgb(v) = Widened(v, m)
    <3> SUFFICES ASSUME NEW v \in 0 .. m PROVE rgb(v) = Widened(v, m)
      OBVIOUS
    <3>1. v % (m + 1) = v
      <4> DEFINE k == m
      <4>1. k \in 1 .. 255 /\ v \in 0 .. k
        BY <2>1
      <4> HIDE DEF k
      <4>2. v % (k + 1) = v
        BY <4>1
      <4> QED
        BY <4>2 DEF k
    <3> QED
      BY <1>2, <2>1, <3>1 DEF Drawing!rgb565_component, Widened
  <2>3. \A v \in Int : pack(v) = Narrowed(v, m)
    BY <1>2 DEF Drawing!pack_component, Narrowed
  <2>4. below \in 0 .. m /\ color \in 0 .. m
    OBVIOUS
  <2> HIDE DEF m, rgb, pack
  <2>5. \A v, w \in 0 .. m : v <= w => rgb(v) \in Nat /\ rgb(v) <= rgb(w) /\ pack(rgb(v)) = v
    <3> SUFFICES ASSUME NEW v \in 0 .. m, NEW w \in 0 .. m, v <= w
                 PROVE  rgb(v) \in Nat /\ rgb(v) <= rgb(w) /\ pack(rgb(v)) = v
      OBVIOUS
    <3>1. /\ Widened(v, m) \in Nat /\ Widened(v, m) <= Widened(w, m)
          /\ Narrowed(Widened(v, m), m) = v
      BY <2>1, ScaledThereAndBack
    <3> QED
      BY <2>2, <2>3, <3>1
  <2>6. /\ rgb(below) \in Nat /\ pack(rgb(below)) = below
        /\ rgb(color) \in Nat /\ pack(rgb(color)) = color
        /\ below <= color => rgb(below) <= rgb(color)
        /\ color <= below => rgb(color) <= rgb(below)
    BY <2>1, <2>4, <2>5
  <2>7. /\ mix(0) = rgb(below) /\ mix(255) = rgb(color)
        /\ mix(alpha) \in Int /\ mix(alpha + 1) \in Int
        /\ rgb(below) <= rgb(color) =>
              /\ rgb(below) <= mix(alpha)
              /\ mix(alpha) <= mix(alpha + 1)
              /\ mix(alpha + 1) <= rgb(color)
        /\ rgb(color) <= rgb(below) =>
              /\ rgb(color) <= mix(alpha + 1)
              /\ mix(alpha + 1) <= mix(alpha)
              /\ mix(alpha) <= rgb(below)
    <3> DEFINE bg == rgb(below)
               fg == rgb(color)
               mixed(a) == Drawing!blend_component(bg, fg, a)
    <3>1. bg \in Nat /\ fg \in Nat
      BY <2>6
    <3> HIDE DEF bg, fg
    <3>2. /\ mixed(0) = bg /\ mixed(255) = fg /\ mixed(alpha) \in Int /\ mixed(alpha + 1) \in Int
          /\ bg <= fg => /\ bg <= mixed(alpha) /\ mixed(alpha) <= mixed(alpha + 1)
                         /\ mixed(alpha + 1) <= fg
          /\ fg <= bg => /\ fg <= mixed(alpha + 1) /\ mixed(alpha + 1) <= mixed(alpha)
                         /\ mixed(alpha) <= bg
      BY <3>1, BlendIs
    <3> QED
      BY <3>2 DEF bg, fg
  <2>8. \A a \in 0 .. 255 : pixel(a) = pack(mix(a))
    <3> SUFFICES ASSUME NEW a \in 0 .. 255 PROVE pixel(a) = pack(mix(a))
      OBVIOUS
    <3>1. CASE a = 0
      BY <2>6, <2>7, <3>1 DEF Drawing!draw_alpha_pixel
    <3>2. CASE a = 255
      BY <2>6, <2>7, <3>2 DEF Drawing!draw_alpha_pixel
    <3>3. CASE a # 0 /\ a # 255
      BY <3>3 DEF Drawing!draw_alpha_pixel, pack, rgb
    <3> QED
      BY <3>1, <3>2, <3>3
  <2>9. pixel(alpha) = pack(mix(alpha)) /\ pixel(alpha + 1) = pack(mix(alpha + 1))
    BY <2>8
  <2>10. \A i, j \in Int : i <= j => pack(i) \in Int /\ pack(i) <= pack(j)
    <3>1. length \in 1 .. 8
      BY <1>2
    <3> SUFFICES ASSUME NEW i \in Int, NEW j \in Int, i <= j
                 PROVE  pack(i) \in Int /\ pack(i) <= pack(j)
      OBVIOUS
    <3> QED
      BY <3>1, PackOrder DEF pack
  <2> HIDE DEF mix, pixel
  <2>11. CASE below <= color
    <3>1. pack(rgb(below)) <= pack(mix(alpha)) /\ pack(mix(alpha)) <= pack(mix(alpha + 1))
          /\ pack(mix(alpha + 1)) <= pack(rgb(color))
      BY <2>6, <2>7, <2>10, <2>11
    <3> QED
      BY <2>6, <2>9, <2>11, <3>1 DEF pixel
  <2>12. CASE ~(below <= color)
    <3>1. color <= below
      BY <2>1, <2>4, <2>12
    <3>2. pack(rgb(color)) <= pack(mix(alpha + 1)) /\ pack(mix(alpha + 1)) <= pack(mix(alpha))
          /\ pack(mix(alpha)) <= pack(rgb(below))
      BY <2>6, <2>7, <2>10, <3>1
    <3> QED
      BY <2>6, <2>9, <2>12, <3>2 DEF pixel
  <2> QED
    BY <2>11, <2>12
<1> QED
  BY <1>1, <1>2

(* Strokes of any length are straight and frames of any size on their         *)
(* borders; a bar of any size stays within its border, grows with its value,  *)
(* and is empty at 0 and whole at 100 whatever arrives; and the edge of a     *)
(* glyph lies between the two colours it is mixed of, in a field of up to     *)
(* eight bits (draw_line, draw_rect, draw_progress_bar, draw_alpha_pixel; see *)
(* PaintsRight).                                                              *)
THEOREM PaintedRight == AllSpec => []PaintsRight
<1> DEFINE Painted == /\ kind = "stroke" => sample \in Strokes
                      /\ kind = "blend" => sample \in Blends
                      /\ kind = "bar" => sample \in Bars
<1>1. AllInit => Painted
  BY DEF AllInit, SampleInit, Sampled
<1>2. Painted /\ [Next /\ UNCHANGED <<kind, sample>>]_allVars => Painted'
  BY DEF allVars
<1>3. Painted => PaintsRight
  <2>1. ASSUME sample \in Strokes PROVE Drawing!FrameTrue(sample.dx, sample.dy)
    <3>1. sample.dx \in Int /\ sample.dy \in Int
      BY <2>1, StrokesAssumption
    <3> QED
      BY <3>1, StrokesTrue
  <2>2. ASSUME sample \in Blends PROVE Drawing!BlendsBetween(sample.below, sample.alpha, sample.bits)
    <3>1. /\ sample.below \in Nat /\ sample.alpha \in 0 .. 254 /\ sample.bits \in 0 .. 8
          /\ sample.below <= Drawing!Full(sample.bits)
      BY <2>2, BlendsAssumption
    <3>2. sample.below \in 0 .. Drawing!Full(sample.bits)
      BY <3>1, FullIs
    <3> QED
      BY <3>1, <3>2, BlendsTrue
  <2>3. ASSUME sample \in Bars PROVE Drawing!BarTrue(sample.width, sample.height, sample.value)
    <3>1. /\ sample.width \in Int /\ sample.height \in Int /\ sample.value \in Int
          /\ sample.width >= 2 /\ sample.height >= 2
      BY <2>3, BarsAssumption
    <3> QED
      BY <3>1, BarsTrue
  <2> QED
    BY <2>1, <2>2, <2>3 DEF PaintsRight
<1> QED
  BY <1>1, <1>2, <1>3, PTL DEF AllSpec
=============================================================================
