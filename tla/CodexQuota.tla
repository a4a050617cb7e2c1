------------------------------- MODULE CodexQuota -------------------------------
(*****************************************************************************)
(* The pure part of the codex-monitor program on the board: reading a quota   *)
(* frame (parse_integer, frame_field, parse_quota_frame), what a clock or a   *)
(* date on the screen is computed from (local_date_time), and the reading of  *)
(* the same frame by the host (ProtocolParser.TryParse), which is the         *)
(* reference of the protocol.                                                 *)
(*                                                                            *)
(* A line is the sequence of its pieces: what stands between '<', '|' and     *)
(* '>'.  A piece is [key, text, end]; its text is the sequence of the digits  *)
(* 0 .. 9, Minus and Other, and its end the character behind it.  Other is a  *)
(* character that neither side takes in a number: no digit, '-', '+', space.  *)
(* A piece without '=' has an empty text and a key that is none of a field.   *)
(*****************************************************************************)
EXTENDS Integers, Sequences, SequencesExt

CONSTANTS
    LongMax,        \* the largest long and int: 2^31 - 1 on the board
    Absent,         \* answers of frame_field that are no value: no such field,
    Invalid,        \* not an integer,
    Forever,        \* no answer, it does not return
    Rejected,       \* answers of parse_quota_frame that are no quota: 0
    Hangs           \* and none

ASSUME LongAssumption == LongMax \in Nat /\ LongMax >= 1440

Minus == -1
Other == -2

-----------------------------------------------------------------------------
(* Integers.                                                                 *)

(* What a long holds.  The test against LONG_MAX in parse_integer can not be  *)
(* true of a long of 32 bits, so a longer number wraps round.                 *)
Wrapped(n) == ((n + LongMax + 1) % (2 * (LongMax + 1))) - (LongMax + 1)

Digits(text) == IF text # <<>> /\ text[1] = Minus THEN Tail(text) ELSE text
IsInteger(text) == Digits(text) # <<>> /\ \A i \in DOMAIN Digits(text) : Digits(text)[i] \in 0 .. 9
Signed(text, n) == IF text[1] = Minus THEN -n ELSE n

\* What the loop over the digits has made of the first n of them.
Reading(digits) ==
    LET result[n \in 0 .. Len(digits)] ==
            IF n = 0 THEN 0 ELSE Wrapped(result[n - 1] * 10 + digits[n])
    IN  result

parse_integer(text) ==
    LET digits == Digits(text)
    IN  IF IsInteger(text) THEN Wrapped(Signed(text, Reading(digits)[Len(digits)]))
        ELSE Invalid

-----------------------------------------------------------------------------
(* A frame on the board.                                                     *)

(* The pieces frame_field gets to: at a '>' within the line it stays.         *)
Reached(line) == {i \in DOMAIN line : \A j \in 1 .. i - 1 : line[j].end = "|"}
Named(line, key) == {i \in DOMAIN line : line[i].key = key}
FirstOf(S) == CHOOSE i \in S : \A j \in S : i <= j

frame_field(line, key) ==
    LET found == Reached(line) \cap Named(line, key)
    IN  IF found # {} THEN parse_integer(line[FirstOf(found)].text)
        ELSE IF Reached(line) = DOMAIN line THEN Absent ELSE Forever

Keys == <<"5H", "5HR", "W", "WR", "NOW", "TZ", "RC">>       \* in the order of the checks
KeySet == {Keys[k] : k \in DOMAIN Keys}

ASSUME AnswersAssumption ==
    /\ Absent \notin Int /\ Invalid \notin Int /\ Forever \notin Int
    /\ Absent # Invalid /\ Absent # Forever /\ Invalid # Forever
    /\ Rejected # Hangs /\ Rejected \notin [KeySet -> Int] /\ Hangs \notin [KeySet -> Int]

InRange(key, value) ==
    CASE key \in {"5H", "W"} -> value \in 0 .. 100
      [] key \in {"5HR", "WR", "NOW"} -> value >= 0
      [] key = "TZ" -> value \in -1440 .. 1440
      [] key = "RC" -> value >= -1

\* Mutant: an optional field that is no integer counts as absent.
GoodOrAbsent(line, key) ==
    LET value == frame_field(line, key)
    IN  IF value \in {Absent, Invalid, Forever} THEN key = "RC" /\ value # Forever
        ELSE InRange(key, value)

Good(line, key) ==
    LET value == frame_field(line, key)
    IN  IF value \in {Absent, Invalid, Forever} THEN key = "RC" /\ value = Absent
        ELSE InRange(key, value)

FrameShape(line) == line # <<>> /\ line[1] = [key |-> "CQM1", text |-> <<>>, end |-> "|"]
                    /\ line[Len(line)].end = ">"

Taken(line) == [key \in KeySet |-> IF frame_field(line, key) = Absent
                                   THEN -1 ELSE frame_field(line, key)]

parse_quota_frame(line) ==
    LET bad == {k \in DOMAIN Keys : ~Good(line, Keys[k])}
    IN  IF ~FrameShape(line) THEN Rejected
        ELSE IF bad = {} THEN Taken(line)
        ELSE IF frame_field(line, Keys[FirstOf(bad)]) = Forever THEN Hangs
        ELSE Rejected

-----------------------------------------------------------------------------
(* The same line on the host: only '|' separates, so a piece that ends with   *)
(* an inner '>' and the one behind it are one field, whose value is no        *)
(* integer; a field needs a name and a value, and a name occurs once.         *)

\* The size of a number, up to the first digits that exceed the limit.
HostReading(digits, limit) ==
    LET result[n \in 0 .. Len(digits)] ==
            IF n = 0 THEN 0
            ELSE IF result[n - 1] > limit THEN result[n - 1]
            ELSE result[n - 1] * 10 + digits[n]
    IN  result

HostInteger(text, limit) ==
    LET digits == Digits(text)
        size == HostReading(digits, limit)[Len(digits)]
    IN  IF IsInteger(text) /\ size <= limit THEN Signed(text, size) ELSE Invalid

HostLimit(key) == IF key \in {"5HR", "WR", "NOW"} THEN 2 * LongMax + 1 ELSE LongMax

Fields(line) == {i \in 2 .. Len(line) : line[i - 1].end = "|"}
IsJoined(line, i) == i < Len(line) /\ line[i].end = ">"

HostValue(line, key) ==
    LET at == Fields(line) \cap Named(line, key)
    IN  IF at = {} THEN Absent
        ELSE IF IsJoined(line, FirstOf(at)) THEN Invalid
        ELSE HostInteger(line[FirstOf(at)].text, HostLimit(key))

TryParse(line) ==
    /\ FrameShape(line)
    /\ \A i \in Fields(line) : line[i].text # <<>> \/ IsJoined(line, i)
    /\ \A i, j \in Fields(line) : line[i].key = line[j].key => i = j
    /\ \A key \in KeySet :
          LET value == HostValue(line, key)
          IN  IF value \in {Absent, Invalid} THEN key = "RC" /\ value = Absent
              ELSE InRange(key, value)

(* The lines on which the two readings may differ.                           *)
Repeats(line) == \E i, j \in DOMAIN line : i < j /\ line[i].key = line[j].key
Inner(line) == \E i \in 1 .. Len(line) - 1 : line[i].end = ">"
Empty(line) == \E i \in 2 .. Len(line) : line[i].text = <<>>
Oversized(line) == \E i \in DOMAIN line : /\ IsInteger(line[i].text)
                                          /\ HostInteger(line[i].text, LongMax) = Invalid

(* The board takes exactly the frames the host's parser takes, with the same  *)
(* values, unless the line repeats a name, holds a '>' before its end, an     *)
(* empty field or a number the board's integers do not hold; and it comes to  *)
(* an answer unless a '>' stands before the end (parse_quota_frame against    *)
(* ProtocolParser.TryParse).                                                  *)
FrameAgrees(line) ==
    LET answer == parse_quota_frame(line)
    IN  /\ answer = Hangs => Inner(line)
        /\ Repeats(line) \/ Inner(line) \/ Empty(line) \/ Oversized(line)
           \/ IF TryParse(line)
              THEN answer = [key \in KeySet |-> IF HostValue(line, key) = Absent
                                                THEN -1 ELSE HostValue(line, key)]
              ELSE answer = Rejected

-----------------------------------------------------------------------------
(* Dates.  Times are minutes: the seconds of a timestamp change nothing that  *)
(* is shown, and an offset is in minutes.                                     *)

\* Mutant: the year of a century is taken for a leap year.
JulianDate(minutes, timezone_minutes) ==
    LET local == minutes + timezone_minutes
        days == local \div 1440
        z == days + 719468
        era == z \div 146097
        doe == z - era * 146097
        yoe == (doe - doe \div 1460 - doe \div 146096) \div 365
        doy == doe - (365 * yoe + yoe \div 4 - yoe \div 100)
        mp == (5 * doy + 2) \div 153
    IN  [day |-> doy - (153 * mp + 2) \div 5 + 1,
         month |-> IF mp < 10 THEN mp + 3 ELSE mp - 9,
         hour |-> (local % 1440) \div 60,
         minute |-> local % 60]

local_date_time(minutes, timezone_minutes) ==
    LET local == minutes + timezone_minutes
        days == local \div 1440
        z == days + 719468
        era == z \div 146097
        doe == z - era * 146097
        yoe == (doe - doe \div 1460 + doe \div 36524 - doe \div 146096) \div 365
        doy == doe - (365 * yoe + yoe \div 4 - yoe \div 100)
        mp == (5 * doy + 2) \div 153
    IN  [day |-> doy - (153 * mp + 2) \div 5 + 1,
         month |-> IF mp < 10 THEN mp + 3 ELSE mp - 9,
         hour |-> (local % 1440) \div 60,
         minute |-> local % 60]

(* The calendar: the days of the months, the leap years.                     *)
Leap(year) == year % 4 = 0 /\ (year % 100 # 0 \/ year % 400 = 0)
MonthDays(year) == <<31, IF Leap(year) THEN 29 ELSE 28, 31, 30, 31, 30, 31, 31, 30, 31, 30, 31>>
DaysBefore(year, month) ==
    <<0, 31, 59, 90, 120, 151, 181, 212, 243, 273, 304, 334>>[month]
    + IF Leap(year) /\ month > 2 THEN 1 ELSE 0
NewYear(year) == LET y == year - 1
                     Leaps(n) == n \div 4 - n \div 100 + n \div 400
                 IN  365 * (year - 1970) + Leaps(y) - Leaps(1969)

MinuteOf(year, month, day, hour, minute) ==
    (NewYear(year) + DaysBefore(year, month) + day - 1) * 1440 + hour * 60 + minute

(* Every day of a year is shown with its month, its day and the time of day,  *)
(* also where the offset moves it over midnight (local_date_time).            *)
DatesAgree(year, offset) ==
    \A month \in 1 .. 12 : \A day \in 1 .. MonthDays(year)[month] :
        \A hour \in {0, 23}, minute \in {0, 59} :
            local_date_time(MinuteOf(year, month, day, hour, minute) - offset, offset)
              = [day |-> day, month |-> month, hour |-> hour, minute |-> minute]
=============================================================================
