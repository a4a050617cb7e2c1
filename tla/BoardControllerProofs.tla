------------------------ MODULE BoardControllerProofs ------------------------
(***************************************************************************)
(* What the answers of the controller are worth, for any number of console *)
(* markers, any number of lines in flight and any sequence of dialogues    *)
(* that timed out.                                                         *)
(***************************************************************************)
EXTENDS BoardController, FiniteSetTheorems, SequenceTheorems, WellFoundedInduction, TLAPS

-----------------------------------------------------------------------------
(***************************************************************************)
(* The inductive invariant, in parts.                                      *)
(***************************************************************************)

\* The variables' types, one by one.
Modes == {"Unknown", "Console", "Application"}
Names == {"start", "stop", "list", "status", "sync", "probe", "none"}
Types ==
    /\ mode \in Modes /\ given \in Modes
    /\ pending \in Seq(Symbols) /\ rx \in Seq(Symbols)
    /\ call \in [name : Calls \cup {"none"}, pc : Pcs, marker : Markers \cup {NoMarker}]
    /\ answer \in [name : Calls \cup {"none"}, ok : BOOLEAN]
    /\ stdin \in Seq(Typed)
    /\ board \in {"shell", "launch", "app", "exit"}
    /\ fresh \in BOOLEAN /\ ran \in BOOLEAN

\* Where each method may stand, and with which confirmed mode.
CallInv ==
    /\ call.pc = "idle" <=> call = NoCall
    /\ call.name = "none" => call = NoCall
    /\ call # NoCall => answer = NoAnswer /\ ~fresh
    /\ call.pc = "ready" => call.name = "start"
    /\ call.pc = "output" => call.name \in {"list", "status"} /\ mode = "Console"
    /\ mode = "Unknown" => given = "Unknown"
    /\ fresh => mode = given
    /\ call.pc = "observe" => given = "Unknown"
    /\ call.pc = "decide" /\ given # "Unknown" =>
          /\ call.name = "start" => mode = "Console"
          /\ call.name = "stop" => mode = "Application"

\* At most one start command is in flight, and only towards an idle shell.
IsStart(i) == i \in DOMAIN stdin /\ stdin[i] = Line("start")
StartInv ==
    /\ \A i, j \in DOMAIN stdin : IsStart(i) /\ IsStart(j) => i = j
    /\ \A i \in DOMAIN stdin : IsStart(i) => board = "shell"

\* All that the host has not yet taken for a line.
Unread == pending \o rx
Begins == {Line("ready"), Line("request")}

\* The marker is the last line typed; once the shell has printed it, nothing
\* the host typed is unread, the shell is idle and no application speaks.
SyncInv ==
    call.pc = "sync" =>
        /\ call.marker \in Markers
        /\ \A i \in DOMAIN stdin : stdin[i].marker = call.marker => i = Len(stdin)
        /\ \A i \in DOMAIN Unread : Unread[i].line = Marker(call.marker) =>
              /\ stdin = <<>> /\ board = "shell"
              /\ \A j \in DOMAIN Unread : j > i => Unread[j].line \notin Begins

\* While the host waits for APPREADY, what looks like one is this start's.
ReadyInv ==
    /\ board = "app" => ran
    /\ call.pc = "ready" => \A i \in DOMAIN Unread : Unread[i].line \in Begins => ran

\* A shell that was found idle stays so: only a start command changes that.
ShellKept == board = "shell" /\ \A i \in DOMAIN stdin : ~IsStart(i)
AnswerInv ==
    /\ call.pc = "output" => ShellKept
    /\ StartIsTrue
    /\ answer.ok /\ (answer.name \in {"list", "status", "sync", "probe"}
                     \/ (answer.name = "stop" /\ given # "Unknown")) => ShellKept

IInv == Types /\ CallInv /\ StartInv /\ SyncInv /\ ReadyInv /\ AnswerInv

-----------------------------------------------------------------------------
(***************************************************************************)
(* Sets of numbers, lines and chunks.                                      *)
(***************************************************************************)
LEMMA Least ==
    ASSUME NEW T \in SUBSET Nat, T # {}
    PROVE  \E x \in T : \A y \in T : x <= y
<1>1. \E x \in T : \A y \in T : ~(<<y, x>> \in OpToRel(<, Nat))
  BY NatLessThanWellFounded, WFMin
<1>2. PICK x \in T : \A y \in T : ~(<<y, x>> \in OpToRel(<, Nat))
  BY <1>1
<1>3. \A y \in T : ~(y < x)
  BY <1>2 DEF OpToRel
<1>4. \A y \in T : x <= y
  BY <1>3
<1> QED
  BY <1>4

LEMMA MinIs ==
    ASSUME NEW T \in SUBSET Nat, T # {}
    PROVE  Min(T) \in T /\ \A y \in T : Min(T) <= y
<1>1. \E x \in T : \A y \in T : x <= y
  BY Least
<1> QED
  BY <1>1 DEF Min

LEMMA MaxIs ==
    ASSUME NEW n \in Nat, NEW T \in SUBSET (0..n), T # {}
    PROVE  Max(T) \in T /\ \A y \in T : Max(T) >= y
<1> DEFINE U == {n - y : y \in T}
<1>1. U \in SUBSET Nat /\ U # {}
  <2>1. \A y \in T : n - y \in Nat
    OBVIOUS
  <2>2. \A u \in U : u \in Nat
    BY <2>1
  <2>3. PICK y \in T : TRUE
    OBVIOUS
  <2>4. n - y \in U
    BY <2>3
  <2> HIDE DEF U
  <2> QED
    BY <2>2, <2>4
<1>2. PICK u \in U : \A v \in U : u <= v
  <2> HIDE DEF U
  <2> QED
    BY <1>1, Least
<1>3. PICK x \in T : u = n - x
  BY <1>2
<1>4. \A y \in T : x >= y
  <2> TAKE y \in T
  <2>1. n - x <= n - y
    BY <1>2, <1>3
  <2> QED
    BY <2>1
<1> QED
  BY <1>4 DEF Max

LEMMA LineTypes ==
    /\ \A k \in {"ready", "stopped", "request", "idle", "text"} : Line(k) \in Heard
    /\ \A k \in {"start", "quit", "list", "status"} : Line(k) \in Typed
    /\ \A m \in Markers : Marker(m) \in Heard /\ Echo(m) \in Heard /\ Marker(m) \in Typed /\ Echoed(m) \in Typed
BY DEF Heard, Typed

LEMMA TextIs ==
    ASSUME NEW l \in Heard
    PROVE  /\ Text(l) \in Seq(Symbols) /\ Len(Text(l)) = 2
           /\ Text(l)[1].line = l /\ Text(l)[2].line = l
<1> DEFINE h == [line |-> l, part |-> "head"]  e == [line |-> l, part |-> "end"]
<1>1. h \in Symbols /\ e \in Symbols /\ h.line = l /\ e.line = l
  BY DEF Symbols
<1> HIDE DEF h, e
<1>2. <<h, e>> \in Seq(Symbols) /\ Len(<<h, e>>) = 2 /\ <<h, e>>[1] = h /\ <<h, e>>[2] = e
  BY <1>1
<1> QED
  BY <1>1, <1>2 DEF Text, h, e

LEMMA Regroup == \A s, t, u \in Seq(Symbols) : (s \o t) \o u = s \o (t \o u)
BY ConcatAssociative

\* Any number of request lines.
LEMMA RequestsType ==
    ASSUME NEW n \in Nat
    PROVE  Requests(n) \in Seq(Symbols)
<1> DEFINE t == Text(Line("request"))
<1>1. t[1] \in Symbols /\ t[2] \in Symbols
  BY LineTypes, TextIs, ElementOfSeq
<1> HIDE DEF t
<1>2. [i \in 1..2*n |-> t[IF i % 2 = 1 THEN 1 ELSE 2]] \in Seq(Symbols)
  BY <1>1
<1> QED
  BY <1>2 DEF Requests, t

LEMMA LineAtIs == \A buf, i : LineAt(buf, i) = Line("text") \/ buf[i].line = LineAt(buf, i)
BY DEF LineAt

\* The lines of a chunk end inside it, and at an end symbol of their own.
LEMMA LinesIn ==
    ASSUME NEW buf \in Seq(Symbols), NEW S
    PROVE  /\ Lines(buf, S) \subseteq Ends(buf) /\ Ends(buf) \subseteq 1..Len(buf) /\ Len(buf) \in Nat
           /\ Lines(buf, S) \in SUBSET Nat
           /\ \A i \in Lines(buf, S) : Line("text") \notin S => buf[i].line \in S
<1>1. DOMAIN buf = 1..Len(buf) /\ Len(buf) \in Nat
  BY LenProperties
<1> QED
  BY <1>1, LineAtIs DEF Lines, Ends

LEMMA LastEndIs ==
    ASSUME NEW buf \in Seq(Symbols)
    PROVE  LastEnd(buf) \in 0..Len(buf) /\ \A i \in Ends(buf) : i <= LastEnd(buf)
<1>1. Ends(buf) \cup {0} \in SUBSET (0..Len(buf)) /\ Ends(buf) \cup {0} # {} /\ Len(buf) \in Nat
  BY LinesIn
<1>2. Max(Ends(buf) \cup {0}) \in Ends(buf) \cup {0} /\ \A y \in Ends(buf) \cup {0} : Max(Ends(buf) \cup {0}) >= y
  BY <1>1, MaxIs
<1> QED
  BY <1>1, <1>2 DEF LastEnd

LEMMA FewRequests ==
    ASSUME NEW buf \in Seq(Symbols)
    PROVE  Cardinality(Lines(buf, Traffic)) \in Nat
<1>1. IsFiniteSet(1..Len(buf))
  BY FS_Interval, LinesIn
<1>2. IsFiniteSet(Lines(buf, Traffic))
  BY <1>1, LinesIn, FS_Subset
<1> QED
  BY <1>2, FS_CardinalityType

\* A piece of a text.
LEMMA PieceType ==
    ASSUME NEW s \in Seq(Symbols), NEW m \in Nat \ {0}, NEW n \in 0..Len(s)
    PROVE  /\ SubSeq(s, m, n) \in Seq(Symbols)
           /\ Len(SubSeq(s, m, n)) = IF m <= n THEN n - m + 1 ELSE 0
           /\ \A i \in 1..n - m + 1 : SubSeq(s, m, n)[i] = s[m + i - 1]
<1>1. Len(s) \in Nat /\ \A i \in m..n : s[i] \in Symbols
  BY LenProperties, ElementOfSeq
<1> QED
  BY <1>1, SubSeqProperties

LEMMA PartialIs ==
    ASSUME NEW buf \in Seq(Symbols)
    PROVE  /\ Partial(buf) \in Seq(Symbols) /\ Len(Partial(buf)) = Len(buf) - LastEnd(buf)
           /\ \A i \in 1..Len(Partial(buf)) : Partial(buf)[i] = buf[i + LastEnd(buf)]
<1> DEFINE k == LastEnd(buf)
<1>1. k \in 0..Len(buf) /\ Len(buf) \in Nat
  BY LastEndIs, LenProperties
<1> HIDE DEF k
<1>2. /\ SubSeq(buf, k + 1, Len(buf)) \in Seq(Symbols)
      /\ Len(SubSeq(buf, k + 1, Len(buf))) = Len(buf) - k
      /\ \A i \in 1..Len(buf) - k : SubSeq(buf, k + 1, Len(buf))[i] = buf[i + k]
  BY <1>1, PieceType
<1> QED
  BY <1>2 DEF Partial, k

\* A chunk, and what stays on its way.
Left(n) == SubSeq(rx, n + 1, Len(rx))
LEMMA ChunkIs ==
    ASSUME Types, NEW n \in 1..Len(rx)
    PROVE  /\ Chunk(n) \in Seq(Symbols) /\ Left(n) \in Seq(Symbols) /\ Unread \in Seq(Symbols)
           /\ Chunk(n) \o Left(n) = Unread
<1>1. pending \in Seq(Symbols) /\ rx \in Seq(Symbols) /\ Len(rx) \in Nat
  BY LenProperties DEF Types
<1>2. SubSeq(rx, 1, n) \in Seq(Symbols) /\ SubSeq(rx, n + 1, Len(rx)) \in Seq(Symbols)
  BY <1>1, PieceType
<1>3. SubSeq(rx, 1, n) \o SubSeq(rx, n + 1, Len(rx)) = SubSeq(rx, 1, Len(rx))
  BY <1>1, ConcatAdjacentSubSeq
<1>4. SubSeq(rx, 1, Len(rx)) = rx
  BY <1>1, SubSeqFull
<1>5. (pending \o SubSeq(rx, 1, n)) \o SubSeq(rx, n + 1, Len(rx)) = pending \o rx
  <2> DEFINE s == SubSeq(rx, 1, n)  t == SubSeq(rx, n + 1, Len(rx))
  <2>1. s \in Seq(Symbols) /\ t \in Seq(Symbols) /\ s \o t = rx
    BY <1>2, <1>3, <1>4
  <2> HIDE DEF s, t
  <2>2. (pending \o s) \o t = pending \o (s \o t)
    BY <1>1, <2>1, Regroup
  <2>3. (pending \o s) \o t = pending \o rx
    BY <2>1, <2>2
  <2> QED
    BY <2>3 DEF s, t
<1>6. pending \o SubSeq(rx, 1, n) \in Seq(Symbols) /\ pending \o rx \in Seq(Symbols)
  BY <1>1, <1>2, ConcatProperties
<1> QED
  BY <1>2, <1>5, <1>6 DEF Chunk, Left, Unread

\* A reading step that finds nothing drops the lines it has seen; the rest
\* keeps its order.
LEMMA RestKept ==
    ASSUME Types, NEW n \in 1..Len(rx)
    PROVE  /\ Partial(Chunk(n)) \o Left(n) \in Seq(Symbols)
           /\ LastEnd(Chunk(n)) \in 0..Len(Chunk(n))
           /\ Len(Unread) = Len(Partial(Chunk(n)) \o Left(n)) + LastEnd(Chunk(n))
           /\ \A i \in 1..Len(Partial(Chunk(n)) \o Left(n)) :
                 (Partial(Chunk(n)) \o Left(n))[i] = Unread[i + LastEnd(Chunk(n))]
<1> DEFINE b == Chunk(n)  l == Left(n)  p == Partial(b)  k == LastEnd(b)
<1>1. b \in Seq(Symbols) /\ l \in Seq(Symbols) /\ b \o l = Unread /\ Unread \in Seq(Symbols)
  BY ChunkIs
<1>2. /\ p \in Seq(Symbols) /\ Len(p) = Len(b) - k /\ \A i \in 1..Len(p) : p[i] = b[i + k]
      /\ k \in 0..Len(b) /\ Len(b) \in Nat /\ Len(l) \in Nat
  BY <1>1, PartialIs, LastEndIs, LenProperties
<1> HIDE DEF b, l, p, k
<1>3. /\ p \o l \in Seq(Symbols) /\ Len(p \o l) = Len(p) + Len(l)
      /\ \A i \in 1..Len(p) + Len(l) : (p \o l)[i] = IF i <= Len(p) THEN p[i] ELSE l[i - Len(p)]
  BY <1>1, <1>2, ConcatProperties
<1>4. /\ Len(b \o l) = Len(b) + Len(l)
      /\ \A i \in 1..Len(b) + Len(l) : (b \o l)[i] = IF i <= Len(b) THEN b[i] ELSE l[i - Len(b)]
  BY <1>1, ConcatProperties
<1>5. ASSUME NEW i \in 1..Len(p \o l)
      PROVE  (p \o l)[i] = (b \o l)[i + k]
  <2>1. i + k \in 1..Len(b) + Len(l) /\ (i <= Len(p) <=> i + k <= Len(b)) /\ i - Len(p) = (i + k) - Len(b)
    BY <1>2, <1>3
  <2>2. i \in 1..Len(p) + Len(l)
    BY <1>3
  <2>3. (p \o l)[i] = IF i <= Len(p) THEN p[i] ELSE l[i - Len(p)]
    BY <1>3, <2>2
  <2>4. (b \o l)[i + k] = IF i + k <= Len(b) THEN b[i + k] ELSE l[(i + k) - Len(b)]
    BY <1>4, <2>1
  <2>5. CASE i <= Len(p)
    <3>1. i \in 1..Len(p)
      BY <2>2, <2>5, <1>2, LenProperties
    <3> QED
      BY <1>2, <2>1, <2>3, <2>4, <2>5, <3>1
  <2>6. CASE ~(i <= Len(p))
    BY <2>1, <2>3, <2>4, <2>6
  <2> QED
    BY <2>5, <2>6
<1> QED
  BY <1>1, <1>2, <1>3, <1>4, <1>5 DEF b, l, p, k

-----------------------------------------------------------------------------
(***************************************************************************)
(* Types.                                                                  *)
(***************************************************************************)
LEMMA TypesEnough == Types => TypeOK
BY DEF Types, TypeOK, Modes

LEMMA NamesAre == Calls \subseteq Names /\ "none" \notin Calls
BY ControllerAssumption DEF Names

LEMMA TypeInit == Init => Types
<1> SUFFICES ASSUME Init PROVE Types
  OBVIOUS
<1>1. <<>> \in Seq(Symbols) /\ <<>> \in Seq(Typed)
  BY EmptySeq
<1>2. Tail(Text(Line("request"))) \in Seq(Symbols)
  <2>1. Text(Line("request")) \in Seq(Symbols) /\ Text(Line("request")) # <<>>
    BY LineTypes, TextIs, EmptySeq DEF Text
  <2> QED
    BY <2>1, HeadTailProperties
<1>3. rx \in Seq(Symbols)
  BY <1>1, <1>2 DEF Init
<1> QED
  BY <1>1, <1>3, ControllerAssumption DEF Init, Types, NoCall, NoAnswer, Pcs, Modes

\* What a method does with its call, and with what it types.
CallTyped ==
    /\ call \in [name : Calls \cup {"none"}, pc : Pcs, marker : Markers \cup {NoMarker}]
    /\ answer \in [name : Calls \cup {"none"}, ok : BOOLEAN]

LEMMA CallTypes ==
    ASSUME Types
    PROVE  /\ CallTyped
           /\ \A pc \in Pcs : Goto(pc) => CallTyped'
           /\ \A ok \in BOOLEAN : Return(ok) => CallTyped'
BY DEF Types, Goto, Return, NoCall, Pcs, CallTyped

LEMMA TypedTypes ==
    ASSUME NEW k \in Typed, NEW l \in Typed
    PROVE  /\ <<k>> \in Seq(Typed) /\ Len(<<k>>) = 1 /\ <<k>>[1] = k
           /\ <<k, l>> \in Seq(Typed) /\ Len(<<k, l>>) = 2 /\ <<k, l>>[1] = k /\ <<k, l>>[2] = l
OBVIOUS

LEMMA TypeTypes ==
    ASSUME Types, NEW lines \in Seq(Typed), Type(lines)
    PROVE  /\ stdin' \in Seq(Typed) /\ Len(stdin') = Len(stdin) + Len(lines)
           /\ Len(stdin) \in Nat /\ Len(lines) \in Nat
           /\ \A i \in 1..Len(stdin) + Len(lines) :
                 stdin'[i] = IF i <= Len(stdin) THEN stdin[i] ELSE lines[i - Len(stdin)]
BY ConcatProperties, LenProperties DEF Types, Type

\* The marker is new, and typed last.
LEMMA TypeMarkerIs ==
    ASSUME Types, TypeMarker
    PROVE  \E m \in Markers :
             /\ Fresh(m) /\ call' = [name |-> call.name, pc |-> "sync", marker |-> m] /\ answer' = answer
             /\ CallTyped'
             /\ stdin' \in Seq(Typed) /\ Len(stdin) \in Nat /\ Len(stdin') = Len(stdin) + 1
             /\ \A i \in 1..Len(stdin) + 1 : stdin'[i] = IF i <= Len(stdin) THEN stdin[i] ELSE Marker(m)
<1>1. PICK m \in Markers : Fresh(m) /\ Type(<<Marker(m)>>) /\ answer' = answer
                           /\ call' = [call EXCEPT !.pc = "sync", !.marker = m]
  BY DEF TypeMarker
<1>2. <<Marker(m)>> \in Seq(Typed) /\ Len(<<Marker(m)>>) = 1 /\ <<Marker(m)>>[1] = Marker(m)
  BY LineTypes, TypedTypes
<1>3. /\ stdin' \in Seq(Typed) /\ Len(stdin) \in Nat /\ Len(stdin') = Len(stdin) + 1
      /\ \A i \in 1..Len(stdin) + 1 : stdin'[i] = IF i <= Len(stdin) THEN stdin[i] ELSE Marker(m)
  <2> DEFINE lines == <<Marker(m)>>
  <2>1. lines \in Seq(Typed) /\ Len(lines) = 1 /\ lines[1] = Marker(m) /\ Type(lines)
    BY <1>1, <1>2
  <2> HIDE DEF lines
  <2>2. /\ stdin' \in Seq(Typed) /\ Len(stdin) \in Nat /\ Len(stdin') = Len(stdin) + Len(lines)
        /\ \A i \in 1..Len(stdin) + Len(lines) :
              stdin'[i] = IF i <= Len(stdin) THEN stdin[i] ELSE lines[i - Len(stdin)]
    BY <2>1, TypeTypes
  <2>3. ASSUME NEW i \in 1..Len(stdin) + 1, ~(i <= Len(stdin))
        PROVE  i - Len(stdin) = 1
    BY <2>2, <2>3
  <2> QED
    BY <2>1, <2>2, <2>3
<1>4. call' = [name |-> call.name, pc |-> "sync", marker |-> m]
  BY <1>1 DEF Types
<1> QED
  BY <1>1, <1>3, <1>4 DEF Types, Pcs, CallTyped

\* What a read leaves.
LEMMA ReadTypes ==
    ASSUME Types, NEW n \in 1..Len(rx), NEW more \in Seq(Symbols), Read(n, Partial(Chunk(n)) \o more)
    PROVE  pending' \in Seq(Symbols) /\ rx' \in Seq(Symbols) /\ rx' = Left(n)
<1>1. Partial(Chunk(n)) \in Seq(Symbols) /\ Left(n) \in Seq(Symbols)
  BY ChunkIs, PartialIs
<1>2. Partial(Chunk(n)) \o more \in Seq(Symbols)
  BY <1>1, ConcatProperties
<1> QED
  BY <1>1, <1>2 DEF Read, Left

LEMMA ReadTypesBare ==
    ASSUME Types, NEW n \in 1..Len(rx), Read(n, Partial(Chunk(n)))
    PROVE  pending' \in Seq(Symbols) /\ rx' \in Seq(Symbols) /\ rx' = Left(n)
BY ChunkIs, PartialIs DEF Read, Left

LEMMA TypeCalls ==
    ASSUME Types,
           \/ (\E m \in Confirmed : NewController(m)) \/ (\E name \in Calls : Begin(name))
           \/ Decide \/ ObserveEnds \/ TimesOut
    PROVE  Types'
<1>1. ASSUME NEW m \in Confirmed, NewController(m)
      PROVE  Types'
  BY <1>1, EmptySeq, ControllerAssumption DEF Types, NewController, NoAnswer, Modes, boardVars
<1>2. ASSUME NEW name \in Calls, Begin(name)
      PROVE  Types'
  BY <1>2 DEF Types, Begin, NoAnswer, Pcs
<1>3. CASE Decide
  <2>1. UNCHANGED <<mode, given, pending, fresh, rx, board, ran>>
    BY <1>3 DEF Decide, boardVars
  <2>2. CallTyped' /\ stdin' \in Seq(Typed)
    <3>1. CASE TypeMarker
      BY <3>1, TypeMarkerIs DEF Types
    <3>2. CASE Type(<<Line("quit")>>) /\ Goto("stopping")
      <4>1. <<Line("quit")>> \in Seq(Typed)
        BY LineTypes, TypedTypes
      <4> QED
        BY <3>2, <4>1, TypeTypes, CallTypes DEF Types, CallTyped, Pcs
    <3>3. ASSUME NEW ok \in BOOLEAN, Return(ok), stdin' = stdin
          PROVE  CallTyped' /\ stdin' \in Seq(Typed)
      BY <3>3, CallTypes DEF Types, CallTyped
    <3> QED
      BY <1>3, <3>1, <3>2, <3>3 DEF Decide
  <2> QED
    BY <2>1, <2>2 DEF Types, CallTyped
<1>4. CASE ObserveEnds \/ TimesOut
  BY <1>4, CallTypes DEF Types, CallTyped, ObserveEnds, TimesOut, Pcs, boardVars
<1> QED
  BY <1>1, <1>2, <1>3, <1>4

LEMMA TypeReads ==
    ASSUME Types, CallInv, SyncInv, NEW n \in 1..Len(rx),
           ObserveReads(n) \/ SyncReads(n) \/ ReadyReads(n) \/ StopReads(n) \/ OutputReads(n)
    PROVE  Types'
<1>1. CASE ObserveReads(n)
  <2> DEFINE r == Requests(Cardinality(Lines(Chunk(n), Traffic)))
  <2>1. r \in Seq(Symbols)
    BY ChunkIs, FewRequests, RequestsType
  <2>2. Read(n, Partial(Chunk(n)) \o r) /\ UNCHANGED <<given, fresh, stdin, board, ran>> /\ mode' \in Modes
        /\ (Goto("decide") \/ UNCHANGED <<call, answer>>)
    BY <1>1 DEF ObserveReads, boardVars, Types, Modes
  <2>3. pending' \in Seq(Symbols) /\ rx' \in Seq(Symbols)
    <3> HIDE DEF r
    <3> QED
      BY <2>1, <2>2, ReadTypes
  <2> HIDE DEF r
  <2> QED
    BY <2>2, <2>3, CallTypes DEF Types, CallTyped, Pcs
<1>2. CASE SyncReads(n)
  <2> DEFINE lost == Lines(Chunk(n), Traffic \cup MarkerLines(call.marker)) # {}
                      /\ LineAt(Chunk(n), Min(Lines(Chunk(n), Traffic \cup MarkerLines(call.marker)))) \in Traffic
             more == IF lost THEN Text(Line("request")) ELSE <<>>
  <2>1. more \in Seq(Symbols)
    BY EmptySeq, LineTypes, TextIs
  <2>2. Read(n, Partial(Chunk(n)) \o more) /\ UNCHANGED <<given, fresh, board, ran>>
    BY <1>2 DEF SyncReads, boardVars
  <2>3. pending' \in Seq(Symbols) /\ rx' \in Seq(Symbols)
    <3> HIDE DEF more
    <3> QED
      BY <2>1, <2>2, ReadTypes
  <2>4. mode' \in Modes /\ CallTyped' /\ stdin' \in Seq(Typed)
    <3>1. CASE UNCHANGED <<mode, call, answer, stdin>>
      BY <3>1, CallTypes DEF Types, CallTyped
    <3>2. ASSUME NEW ok \in BOOLEAN, Return(ok), stdin' = stdin, mode' \in Modes
          PROVE  mode' \in Modes /\ CallTyped' /\ stdin' \in Seq(Typed)
      BY <3>2, CallTypes DEF Types, CallTyped
    <3>3. CASE Type(<<Line("start")>>) /\ Goto("ready") /\ mode' = "Console"
      <4>1. <<Line("start")>> \in Seq(Typed)
        BY LineTypes, TypedTypes
      <4> QED
        BY <3>3, <4>1, TypeTypes, CallTypes DEF Types, CallTyped, Pcs, Modes
    <3>4. CASE /\ call.name \in {"list", "status"} /\ mode' = "Console"
               /\ Type(<<Line(call.name), Marker(call.marker)>>) /\ Goto("output")
      <4>1. call.marker \in Markers
        BY <1>2 DEF SyncReads, SyncInv
      <4>2. <<Line(call.name), Marker(call.marker)>> \in Seq(Typed)
        BY <3>4, <4>1, LineTypes, TypedTypes
      <4> QED
        BY <3>4, <4>2, TypeTypes, CallTypes DEF Types, CallTyped, Pcs, Modes
    <3> QED
      BY <1>2, <3>1, <3>2, <3>3, <3>4 DEF SyncReads, Modes
  <2> HIDE DEF more
  <2> QED
    BY <2>2, <2>3, <2>4 DEF Types, CallTyped
<1>3. CASE ReadyReads(n)
  <2> DEFINE buf == Chunk(n)
             hits == Lines(buf, Traffic \cup {Line("ready")})
             rest == IF hits = {} THEN <<>> ELSE SubSeq(buf, Min(hits) + 1, LastEnd(buf))
  <2>1. rest \in Seq(Symbols)
    <3>1. buf \in Seq(Symbols)
      BY ChunkIs
    <3> HIDE DEF buf
    <3>2. hits \in SUBSET Nat /\ LastEnd(buf) \in 0..Len(buf)
      BY <3>1, LinesIn, LastEndIs
    <3> HIDE DEF hits
    <3>3. hits # {} => Min(hits) \in Nat
      BY <3>2, MinIs
    <3> QED
      BY <3>1, <3>2, <3>3, PieceType, EmptySeq
  <2>2. Read(n, Partial(Chunk(n)) \o rest) /\ UNCHANGED <<given, fresh, stdin, board, ran>>
    BY <1>3 DEF ReadyReads, boardVars
  <2>3. pending' \in Seq(Symbols) /\ rx' \in Seq(Symbols)
    <3> HIDE DEF rest
    <3> QED
      BY <2>1, <2>2, ReadTypes
  <2>4. UNCHANGED <<mode, call, answer>> \/ (mode' = "Application" /\ Return(TRUE))
    BY <1>3 DEF ReadyReads
  <2> HIDE DEF rest
  <2> QED
    BY <2>2, <2>3, <2>4, CallTypes DEF Types, CallTyped, Modes
<1>4. CASE StopReads(n)
  <2>1. Read(n, Partial(Chunk(n))) /\ UNCHANGED <<given, fresh, board, ran>>
    BY <1>4 DEF StopReads, boardVars
  <2>2. UNCHANGED <<mode, call, answer, stdin>> \/ (mode' = "Console" /\ TypeMarker)
    BY <1>4 DEF StopReads
  <2> QED
    BY <2>1, <2>2, ReadTypesBare, TypeMarkerIs DEF Types, CallTyped, Modes
<1>5. CASE OutputReads(n)
  <2>1. Read(n, Partial(Chunk(n))) /\ UNCHANGED <<mode, given, fresh, stdin, board, ran>>
    BY <1>5 DEF OutputReads, boardVars
  <2>2. UNCHANGED <<call, answer>> \/ \E ok \in BOOLEAN : Return(ok)
    BY <1>5 DEF OutputReads
  <2> QED
    BY <2>1, <2>2, ReadTypesBare, CallTypes DEF Types, CallTyped
<1> QED
  BY <1>1, <1>2, <1>3, <1>4, <1>5

-----------------------------------------------------------------------------
(***************************************************************************)
(* What the board types and reads.                                         *)
(***************************************************************************)
LEMMA TypedIs ==
    ASSUME NEW l \in Typed
    PROVE  /\ l.kind = "marker" => l.marker \in Markers /\ l = Marker(l.marker)
           /\ l.kind = "echoed" => l.marker \in Markers /\ l = Echoed(l.marker)
           /\ l.kind = "start" <=> l = Line("start")
           /\ l.kind \in {"start", "quit", "list", "status", "marker", "echoed"}
BY DEF Typed, Line, Marker, Echoed

\* New symbols are heard behind the others, all of them of the lines of S.
Speaks(S) == \E t \in Seq(Symbols) : rx' = rx \o t /\ \A i \in 1..Len(t) : t[i].line \in S

LEMMA SayIs ==
    ASSUME NEW l \in Heard, Say(l)
    PROVE  Speaks({l})
<1>1. Text(l) \in Seq(Symbols) /\ \A i \in 1..Len(Text(l)) : Text(l)[i].line \in {l}
  BY TextIs
<1> QED
  BY <1>1 DEF Say, Speaks

LEMMA SayBothIs ==
    ASSUME NEW k \in Heard, NEW l \in Heard, SayBoth(k, l)
    PROVE  Speaks({k, l})
<1> DEFINE s == Text(k)  t == Text(l)
<1>1. /\ s \in Seq(Symbols) /\ Len(s) = 2 /\ \A i \in 1..2 : s[i].line = k
      /\ t \in Seq(Symbols) /\ Len(t) = 2 /\ \A i \in 1..2 : t[i].line = l
  BY TextIs
<1> HIDE DEF s, t
<1>2. /\ s \o t \in Seq(Symbols) /\ Len(s \o t) = Len(s) + Len(t)
      /\ \A i \in 1..Len(s) + Len(t) : (s \o t)[i] = IF i <= Len(s) THEN s[i] ELSE t[i - Len(s)]
  BY <1>1, ConcatProperties
<1>3. ASSUME NEW i \in 1..Len(s \o t)
      PROVE  (s \o t)[i].line \in {k, l}
  <2>1. (s \o t)[i] = IF i <= 2 THEN s[i] ELSE t[i - 2]
    BY <1>1, <1>2
  <2>2. i \in 1..2 \/ (~(i <= 2) /\ i - 2 \in 1..2)
    BY <1>1, <1>2
  <2> QED
    BY <1>1, <2>1, <2>2
<1>4. rx' = rx \o (s \o t)
  BY DEF SayBoth, s, t
<1> QED
  BY <1>2, <1>3, <1>4 DEF Speaks

LEMMA UnreadGrows ==
    ASSUME Types, NEW S, Speaks(S), pending' = pending
    PROVE  /\ rx' \in Seq(Symbols) /\ Len(Unread) \in Nat /\ Len(Unread') \in Nat /\ Len(Unread') >= Len(Unread)
           /\ Unread \in Seq(Symbols) /\ Unread' \in Seq(Symbols)
           /\ \A i \in 1..Len(Unread) : Unread'[i] = Unread[i]
           /\ \A i \in Len(Unread) + 1..Len(Unread') : Unread'[i].line \in S
<1>1. PICK t \in Seq(Symbols) : rx' = rx \o t /\ \A i \in 1..Len(t) : t[i].line \in S
  BY DEF Speaks
<1>2. pending \in Seq(Symbols) /\ rx \in Seq(Symbols)
  BY DEF Types
<1>3. rx \o t \in Seq(Symbols) /\ Unread \in Seq(Symbols) /\ Len(Unread) \in Nat /\ Len(t) \in Nat
  BY <1>2, ConcatProperties, LenProperties DEF Unread
<1>4. Unread' = Unread \o t
  <2>1. Unread' = pending \o (rx \o t)
    BY <1>1 DEF Unread
  <2>2. (pending \o rx) \o t = pending \o (rx \o t)
    BY <1>1, <1>2, Regroup
  <2> QED
    BY <2>1, <2>2 DEF Unread
<1>5. /\ Unread \o t \in Seq(Symbols) /\ Len(Unread \o t) = Len(Unread) + Len(t)
      /\ \A i \in 1..Len(Unread) + Len(t) : (Unread \o t)[i] = IF i <= Len(Unread) THEN Unread[i] ELSE t[i - Len(Unread)]
  BY <1>3, ConcatProperties
<1>6. ASSUME NEW i \in Len(Unread) + 1..Len(Unread) + Len(t)
      PROVE  (Unread \o t)[i].line \in S
  <2>1. i - Len(Unread) \in 1..Len(t) /\ ~(i <= Len(Unread)) /\ i \in 1..Len(Unread) + Len(t)
    BY <1>3
  <2> QED
    BY <1>1, <1>5, <2>1
<1> QED
  BY <1>1, <1>3, <1>4, <1>5, <1>6

\* What each reader of a typed line says.
Echoes == {Echo(m) : m \in Markers}
LEMMA EchoIs ==
    ASSUME Types, TerminalEchoes
    PROVE  \E i \in DOMAIN stdin :
              /\ stdin[i].kind = "marker" /\ stdin[i].marker \in Markers
              /\ Speaks({Echo(stdin[i].marker)})
              /\ stdin' = [stdin EXCEPT ![i] = Echoed(stdin[i].marker)]
              /\ stdin' \in Seq(Typed) /\ DOMAIN stdin' = DOMAIN stdin /\ Len(stdin') = Len(stdin)
              /\ UNCHANGED <<hostVars, boardVars>>
<1> DEFINE typed == {j \in DOMAIN stdin : stdin[j].kind = "marker"}
           i == Min(typed)
<1>1. DOMAIN stdin = 1..Len(stdin) /\ Len(stdin) \in Nat /\ stdin \in Seq(Typed)
  BY LenProperties DEF Types
<1>2. i \in typed
  <2>1. typed \in SUBSET Nat /\ typed # {}
    BY <1>1 DEF TerminalEchoes
  <2> HIDE DEF typed
  <2> QED
    BY <2>1, MinIs
<1>3. /\ Say(Echo(stdin[i].marker)) /\ stdin' = [stdin EXCEPT ![i] = Echoed(stdin[i].marker)]
      /\ UNCHANGED <<hostVars, boardVars>>
  BY DEF TerminalEchoes
<1> HIDE DEF i
<1>4. i \in 1..Len(stdin) /\ stdin[i].kind = "marker" /\ stdin[i].marker \in Markers
  BY <1>1, <1>2, TypedIs, ElementOfSeq
<1>5. Echo(stdin[i].marker) \in Heard /\ Echoed(stdin[i].marker) \in Typed
  BY <1>4, LineTypes
<1>6. stdin' \in Seq(Typed) /\ DOMAIN stdin' = DOMAIN stdin /\ Len(stdin') = Len(stdin)
  BY <1>1, <1>3, <1>4, <1>5, ExceptSeq, LenProperties
<1> QED
  BY <1>1, <1>3, <1>4, <1>5, <1>6, SayIs

\* The head of what was typed is read; the rest moves up.
LEMMA TailIs ==
    ASSUME Types, stdin # <<>>, stdin' = Tail(stdin)
    PROVE  /\ stdin' \in Seq(Typed) /\ Len(stdin) \in Nat \ {0} /\ Len(stdin') = Len(stdin) - 1
           /\ DOMAIN stdin = 1..Len(stdin) /\ DOMAIN stdin' = 1..Len(stdin')
           /\ \A i \in 1..Len(stdin') : stdin'[i] = stdin[i+1]
           /\ Head(stdin) = stdin[1] /\ Head(stdin) \in Typed
<1>1. /\ stdin \in Seq(Typed) /\ Len(stdin) \in Nat \ {0} /\ DOMAIN stdin = 1..Len(stdin)
      /\ Head(stdin) \in Typed /\ Tail(stdin) \in Seq(Typed) /\ Len(Tail(stdin)) = Len(stdin) - 1
      /\ \A i \in 1..Len(Tail(stdin)) : Tail(stdin)[i] = stdin[i+1]
  BY EmptySeq, LenProperties, HeadTailProperties DEF Types
<1>2. Head(stdin) = stdin[1] /\ DOMAIN Tail(stdin) = 1..Len(Tail(stdin))
  BY <1>1, LenProperties
<1> QED
  BY <1>1, <1>2

LEMMA ShellIs ==
    ASSUME Types, ShellReads
    PROVE  LET l == Head(stdin) IN
           /\ board = "shell" /\ stdin # <<>> /\ stdin' = Tail(stdin) /\ l \in Typed
           /\ board' = IF l = Line("start") THEN "launch" ELSE "shell"
           /\ UNCHANGED <<hostVars, ran>>
           /\ \/ l.kind \in {"marker", "echoed"} /\ l.marker \in Markers
                    /\ Speaks({Echo(l.marker), Marker(l.marker)})
              \/ l.kind \notin {"marker", "echoed"} /\ Speaks({Line("text"), Line("idle")})
<1> DEFINE l == Head(stdin)
<1>1. l \in Typed /\ stdin # <<>> /\ stdin' = Tail(stdin) /\ board = "shell" /\ UNCHANGED <<hostVars, ran>>
  BY TailIs DEF ShellReads
<1>2. /\ board' = IF l.kind = "start" THEN "launch" ELSE "shell"
      /\ CASE l.kind = "marker" -> SayBoth(Echo(l.marker), l)
           [] l.kind = "echoed" -> Say(Marker(l.marker))
           [] l.kind = "status" -> SayBoth(Line("text"), Line("idle"))
           [] OTHER             -> Say(Line("text"))
  BY DEF ShellReads
<1> HIDE DEF l
<1>3. CASE l.kind = "marker"
  <2>1. l.marker \in Markers /\ l = Marker(l.marker) /\ SayBoth(Echo(l.marker), l)
    BY <1>1, <1>2, <1>3, TypedIs
  <2>2. Speaks({Echo(l.marker), Marker(l.marker)})
    BY <2>1, LineTypes, SayBothIs
  <2> QED
    BY <1>1, <1>2, <1>3, <2>1, <2>2, TypedIs DEF l
<1>4. CASE l.kind = "echoed"
  <2>1. l.marker \in Markers /\ Say(Marker(l.marker))
    BY <1>1, <1>2, <1>4, TypedIs
  <2>2. Speaks({Marker(l.marker)})
    BY <2>1, LineTypes, SayIs
  <2>3. Speaks({Echo(l.marker), Marker(l.marker)})
    BY <2>2 DEF Speaks
  <2> QED
    BY <1>1, <1>2, <1>4, <2>1, <2>3, TypedIs DEF l
<1>5. CASE l.kind = "status"
  <2>1. Speaks({Line("text"), Line("idle")})
    BY <1>2, <1>5, LineTypes, SayBothIs
  <2> QED
    BY <1>1, <1>2, <1>5, <2>1, TypedIs DEF l
<1>6. CASE l.kind \notin {"marker", "echoed", "status"}
  <2>1. Speaks({Line("text")})
    BY <1>2, <1>6, LineTypes, SayIs
  <2>2. Speaks({Line("text"), Line("idle")})
    BY <2>1 DEF Speaks
  <2> QED
    BY <1>1, <1>2, <1>6, <2>2, TypedIs DEF l
<1> QED
  BY <1>3, <1>4, <1>5, <1>6

\* The application, appctl and the others.
LEMMA OthersSpeak ==
    ASSUME Launches \/ AppRequests \/ AppctlEnds \/ Chatter
    PROVE  /\ UNCHANGED <<hostVars, stdin>>
           /\ \/ board = "launch" /\ board' = "app" /\ ran' = TRUE /\ Speaks({Line("ready")})
              \/ board = "launch" /\ board' = "shell" /\ ran' = ran /\ Speaks({Line("text")})
              \/ board = "app" /\ board' = "app" /\ ran' = ran /\ Speaks({Line("request")})
              \/ board = "exit" /\ board' = "shell" /\ ran' = ran /\ Speaks({Line("stopped")})
              \/ board' = board /\ ran' = ran /\ Speaks({Line("text")})
<1>1. ASSUME NEW k \in {"ready", "request", "stopped", "text"}, Say(Line(k))
      PROVE  Speaks({Line(k)})
  BY <1>1, LineTypes, SayIs
<1> QED
  BY <1>1 DEF Launches, AppRequests, AppctlEnds, Chatter, boardVars

LEMMA TypeBoard ==
    ASSUME Types, BoardStep
    PROVE  Types'
<1>1. CASE TerminalEchoes
  BY <1>1, EchoIs, UnreadGrows DEF Types, hostVars, boardVars
<1>2. CASE ShellReads
  <2>1. /\ stdin' \in Seq(Typed) /\ board' \in {"launch", "shell"} /\ \E S : Speaks(S)
        /\ UNCHANGED <<mode, given, pending, call, answer, fresh, ran>>
    BY <1>2, ShellIs, TailIs DEF hostVars
  <2> QED
    BY <2>1, UnreadGrows DEF Types
<1>3. CASE Launches \/ AppRequests \/ AppctlEnds \/ Chatter
  <2>1. UNCHANGED <<mode, given, pending, call, answer, fresh, stdin>> /\ \E S : Speaks(S)
    BY <1>3, OthersSpeak DEF hostVars
  <2>2. board' \in {"shell", "launch", "app", "exit"} /\ ran' \in BOOLEAN
    BY <1>3 DEF Launches, AppRequests, AppctlEnds, Chatter, Types, boardVars
  <2> QED
    BY <2>1, <2>2, UnreadGrows DEF Types
<1>4. CASE AppReads
  BY <1>4, TailIs DEF AppReads, Types, hostVars
<1>5. CASE AppExits
  BY <1>5 DEF AppExits, Types, hostVars
<1> QED
  BY <1>1, <1>2, <1>3, <1>4, <1>5 DEF BoardStep

LEMMA TypeStep ==
    ASSUME Types, CallInv, SyncInv, [Next]_vars
    PROVE  Types'
<1>1. CASE UNCHANGED vars
  BY <1>1 DEF Types, vars, hostVars, boardVars
<1> QED
  BY <1>1, TypeCalls, TypeReads, TypeBoard DEF Next, HostStep

-----------------------------------------------------------------------------
(***************************************************************************)
(* The marker, and what it tells the host.                                 *)
(***************************************************************************)
LEMMA GotoIs ==
    ASSUME Types, NEW p \in Pcs, Goto(p)
    PROVE  call'.name = call.name /\ call'.pc = p /\ call'.marker = call.marker /\ answer' = answer
BY DEF Types, Goto

\* A bare read keeps the rest of what is unread.
LEMMA BareRead ==
    ASSUME Types, NEW n \in 1..Len(rx), Read(n, Partial(Chunk(n)))
    PROVE  \E k \in Nat :
              /\ k = LastEnd(Chunk(n)) /\ Len(Unread) = Len(Unread') + k
              /\ Unread \in Seq(Symbols) /\ Unread' \in Seq(Symbols)
              /\ \A i \in 1..Len(Unread') : Unread'[i] = Unread[i + k]
<1>1. Unread' = Partial(Chunk(n)) \o Left(n)
  BY DEF Read, Unread, Left
<1> DEFINE u == Partial(Chunk(n)) \o Left(n)  k == LastEnd(Chunk(n))
<1>2. /\ u \in Seq(Symbols) /\ k \in 0..Len(Chunk(n)) /\ Len(Unread) = Len(u) + k
      /\ \A i \in 1..Len(u) : u[i] = Unread[i + k]
  BY RestKept
<1>3. k \in Nat /\ Unread \in Seq(Symbols)
  BY <1>2, ChunkIs
<1>4. Unread' = u
  BY <1>1
<1> HIDE DEF u
<1> QED
  BY <1>2, <1>3, <1>4

LEMMA EmptyRead ==
    ASSUME Types, NEW n \in 1..Len(rx), Read(n, Partial(Chunk(n)) \o <<>>)
    PROVE  Read(n, Partial(Chunk(n)))
<1>1. Partial(Chunk(n)) \o <<>> = Partial(Chunk(n))
  BY ChunkIs, PartialIs, ConcatEmptySeq
<1> QED
  BY <1>1

\* The marker's line is found: the shell printed it.
LEMMA SyncHit ==
    ASSUME Types, SyncInv, call.pc = "sync", NEW n \in 1..Len(rx), Read(n, Partial(Chunk(n)) \o <<>>),
           Lines(Chunk(n), Traffic \cup MarkerLines(call.marker)) # {},
           LineAt(Chunk(n), Min(Lines(Chunk(n), Traffic \cup MarkerLines(call.marker)))) \notin Traffic
    PROVE  /\ call.marker \in Markers /\ stdin = <<>> /\ board = "shell"
           /\ \A i \in DOMAIN Unread' : Unread'[i].line \notin Begins
<1> DEFINE buf == Chunk(n)
           hits == Lines(buf, Traffic \cup MarkerLines(call.marker))
           p == Min(hits)
<1>1. buf \in Seq(Symbols) /\ Left(n) \in Seq(Symbols) /\ buf \o Left(n) = Unread /\ Unread \in Seq(Symbols)
  BY ChunkIs
<1>2. call.marker \in Markers
  BY DEF SyncInv
<1>3. Read(n, Partial(buf)) /\ hits # {} /\ LineAt(buf, p) \notin Traffic
  BY EmptyRead
<1> HIDE DEF buf
<1>4. hits \in SUBSET Nat /\ hits \subseteq Ends(buf) /\ Ends(buf) \subseteq 1..Len(buf) /\ Len(buf) \in Nat
  BY <1>1, LinesIn
<1>5. p \in hits
  <2> HIDE DEF hits
  <2> QED
    BY <1>3, <1>4, MinIs
<1>6. LineAt(buf, p) = Marker(call.marker)
  BY <1>3, <1>5 DEF Lines, MarkerLines
<1>7. p \in Ends(buf) /\ p \in 1..Len(buf)
  <2> HIDE DEF p, hits
  <2> QED
    BY <1>4, <1>5
<1> HIDE DEF p, hits
<1>8. buf[p].line = Marker(call.marker)
  BY <1>6, LineAtIs DEF Line, Marker
<1>9. Unread[p] = buf[p] /\ p \in DOMAIN Unread
  <2>1. Len(Left(n)) \in Nat
    BY <1>1, LenProperties
  <2>2. p \in 1..Len(buf) + Len(Left(n)) /\ p <= Len(buf)
    BY <1>4, <1>7, <2>1
  <2>3. (buf \o Left(n))[p] = buf[p] /\ Len(buf \o Left(n)) = Len(buf) + Len(Left(n))
    BY <1>1, <2>2, ConcatProperties
  <2> QED
    BY <1>1, <2>2, <2>3, LenProperties
<1>10. /\ stdin = <<>> /\ board = "shell"
       /\ \A j \in DOMAIN Unread : j > p => Unread[j].line \notin Begins
  BY <1>8, <1>9 DEF SyncInv
<1>11. ASSUME NEW i \in DOMAIN Unread'
       PROVE  Unread'[i].line \notin Begins
  <2>1. PICK k \in Nat : /\ k = LastEnd(buf) /\ Len(Unread) = Len(Unread') + k
                         /\ Unread \in Seq(Symbols) /\ Unread' \in Seq(Symbols)
                         /\ \A j \in 1..Len(Unread') : Unread'[j] = Unread[j + k]
    BY <1>3, BareRead DEF buf
  <2>2. p <= k /\ p \in Nat
    BY <1>1, <1>7, <2>1, LastEndIs
  <2>3. /\ i \in 1..Len(Unread') /\ Len(Unread') \in Nat /\ Len(Unread) \in Nat
        /\ DOMAIN Unread = 1..Len(Unread)
    BY <2>1, LenProperties
  <2>4. i + k \in 1..Len(Unread) /\ i + k > p
    <3>1. Len(Unread) = Len(Unread') + k /\ k \in Nat
      BY <2>1
    <3> QED
      BY <2>2, <2>3, <3>1
  <2>5. Unread'[i] = Unread[i + k]
    BY <2>1, <2>3
  <2> QED
    BY <1>10, <2>3, <2>4, <2>5
<1> QED
  BY <1>2, <1>10, <1>11

\* The host learns nothing from a chunk without a hit.
SyncMisses(n) ==
    /\ Lines(Chunk(n), Traffic \cup MarkerLines(call.marker)) = {}
    /\ Read(n, Partial(Chunk(n))) /\ UNCHANGED <<mode, call, answer, stdin>>
SyncLoses ==
    /\ mode' = "Application" /\ Return(FALSE) /\ UNCHANGED stdin
SyncFinds ==
    /\ call.marker \in Markers /\ stdin = <<>> /\ board = "shell" /\ mode' = "Console"
    /\ \A i \in DOMAIN Unread' : Unread'[i].line \notin Begins
    /\ \/ call.name = "start" /\ Type(<<Line("start")>>) /\ Goto("ready")
       \/ /\ call.name \in {"list", "status"}
          /\ Type(<<Line(call.name), Marker(call.marker)>>) /\ Goto("output")
       \/ call.name \notin {"start", "list", "status"} /\ Return(TRUE) /\ UNCHANGED stdin
LEMMA SyncIs ==
    ASSUME Types, SyncInv, NEW n \in 1..Len(rx), SyncReads(n)
    PROVE  /\ call.pc = "sync" /\ UNCHANGED <<given, fresh, board, ran>>
           /\ SyncMisses(n) \/ SyncLoses \/ SyncFinds
<1> DEFINE hits == Lines(Chunk(n), Traffic \cup MarkerLines(call.marker))
           lost == hits # {} /\ LineAt(Chunk(n), Min(hits)) \in Traffic
<1>1. /\ call.pc = "sync" /\ UNCHANGED <<given, fresh, board, ran>>
      /\ Read(n, Partial(Chunk(n)) \o IF lost THEN Text(Line("request")) ELSE <<>>)
      /\ \/ hits = {} /\ UNCHANGED <<mode, call, answer, stdin>>
         \/ lost /\ mode' = "Application" /\ Return(FALSE) /\ UNCHANGED stdin
         \/ /\ hits # {} /\ ~lost /\ mode' = "Console"
            /\ CASE call.name = "start" -> Type(<<Line("start")>>) /\ Goto("ready")
                 [] call.name \in {"list", "status"} ->
                       Type(<<Line(call.name), Marker(call.marker)>>) /\ Goto("output")
                 [] OTHER -> Return(TRUE) /\ UNCHANGED stdin
  BY DEF SyncReads, boardVars
<1>2. CASE hits = {}
  <2>1. Read(n, Partial(Chunk(n)) \o <<>>) /\ UNCHANGED <<mode, call, answer, stdin>>
    BY <1>1, <1>2
  <2> QED
    BY <1>1, <1>2, <2>1, EmptyRead DEF SyncMisses
<1>3. CASE lost
  <2>1. Read(n, Partial(Chunk(n)) \o Text(Line("request"))) /\ mode' = "Application" /\ Return(FALSE) /\ UNCHANGED stdin
    BY <1>1, <1>3
  <2> QED
    BY <1>1, <2>1 DEF SyncLoses, Read, Left
<1>4. CASE hits # {} /\ ~lost
  <2>1. /\ Read(n, Partial(Chunk(n)) \o <<>>) /\ mode' = "Console"
        /\ LineAt(Chunk(n), Min(hits)) \notin Traffic
        /\ CASE call.name = "start" -> Type(<<Line("start")>>) /\ Goto("ready")
             [] call.name \in {"list", "status"} ->
                   Type(<<Line(call.name), Marker(call.marker)>>) /\ Goto("output")
             [] OTHER -> Return(TRUE) /\ UNCHANGED stdin
    BY <1>1, <1>4
  <2>2. /\ call.marker \in Markers /\ stdin = <<>> /\ board = "shell"
        /\ \A i \in DOMAIN Unread' : Unread'[i].line \notin Begins
    BY <1>1, <1>4, <2>1, SyncHit
  <2> QED
    BY <1>1, <2>1, <2>2 DEF SyncFinds
<1> QED
  BY <1>2, <1>3, <1>4

-----------------------------------------------------------------------------
(***************************************************************************)
(* The methods.                                                            *)
(***************************************************************************)
LEMMA CallInit == Init => CallInv
BY DEF Init, CallInv, NoCall

LEMMA ReturnIs ==
    ASSUME Types, CallInv, NEW ok \in BOOLEAN, Return(ok)
    PROVE  call' = NoCall /\ answer' = [name |-> call.name, ok |-> ok]
BY DEF Return

LEMMA CallStep ==
    ASSUME Types, CallInv, SyncInv, [Next]_vars
    PROVE  CallInv'
<1>1. CASE UNCHANGED vars \/ BoardStep
  <2>1. UNCHANGED hostVars
    BY <1>1, EchoIs, ShellIs, OthersSpeak DEF vars, BoardStep, AppReads, AppExits
  <2> QED
    BY <2>1 DEF CallInv, hostVars
<1>2. ASSUME NEW m \in Confirmed, NewController(m)
      PROVE  CallInv'
  BY <1>2 DEF NewController, CallInv, NoCall
<1>3. ASSUME NEW name \in Calls, Begin(name)
      PROVE  CallInv'
  BY <1>3, NamesAre DEF Begin, CallInv, NoCall, Types, Modes
<1>4. CASE Decide
  <2>1. UNCHANGED <<mode, given, fresh>> /\ call.pc = "decide" /\ call # NoCall /\ answer = NoAnswer
    BY <1>4 DEF Decide, CallInv, NoCall
  <2>2. CASE \E ok \in BOOLEAN : Return(ok)
    BY <2>1, <2>2 DEF Return, CallInv, NoCall
  <2>3. CASE TypeMarker
    BY <2>1, <2>3, TypeMarkerIs DEF CallInv, NoCall
  <2>4. CASE Goto("stopping")
    BY <2>1, <2>4, GotoIs DEF CallInv, NoCall, Pcs
  <2> QED
    BY <1>4, <2>2, <2>3, <2>4 DEF Decide
<1>5. CASE ObserveEnds
  <2>1. /\ call'.pc = "decide" /\ call.pc = "observe" /\ call'.name = call.name /\ answer' = answer
        /\ UNCHANGED <<mode, given, fresh>>
    BY <1>5, GotoIs DEF ObserveEnds, Pcs
  <2> QED
    BY <2>1 DEF CallInv, NoCall
<1>6. CASE TimesOut
  BY <1>6 DEF TimesOut, Return, CallInv, NoCall
<1>7. ASSUME NEW n \in 1..Len(rx), ObserveReads(n)
      PROVE  CallInv'
  <2>1. /\ call.pc = "observe" /\ given = "Unknown" /\ ~fresh /\ answer = NoAnswer
        /\ UNCHANGED <<given, fresh>>
    BY <1>7 DEF ObserveReads, CallInv, NoCall
  <2>2. CASE Goto("decide")
    BY <2>1, <2>2, GotoIs DEF CallInv, NoCall, Pcs
  <2>3. CASE UNCHANGED <<call, answer>>
    BY <2>1, <2>3 DEF CallInv
  <2> QED
    BY <1>7, <2>2, <2>3 DEF ObserveReads
<1>8. ASSUME NEW n \in 1..Len(rx), SyncReads(n)
      PROVE  CallInv'
  <2>1. /\ call.pc = "sync" /\ ~fresh /\ answer = NoAnswer /\ UNCHANGED <<given, fresh>>
        /\ SyncMisses(n) \/ SyncLoses \/ SyncFinds
    BY <1>8, SyncIs DEF CallInv, NoCall
  <2>2. CASE UNCHANGED <<mode, call, answer>>
    BY <2>1, <2>2 DEF CallInv
  <2>3. ASSUME NEW ok \in BOOLEAN, Return(ok), mode' \in {"Application", "Console"}
        PROVE  CallInv'
    BY <2>1, <2>3 DEF Return, CallInv, NoCall
  <2>4. CASE call.name = "start" /\ Goto("ready") /\ mode' = "Console"
    BY <2>1, <2>4, GotoIs DEF CallInv, NoCall, Pcs
  <2>5. CASE call.name \in {"list", "status"} /\ Goto("output") /\ mode' = "Console"
    BY <2>1, <2>5, GotoIs DEF CallInv, NoCall, Pcs
  <2> QED
    BY <2>1, <2>2, <2>3, <2>4, <2>5 DEF SyncMisses, SyncLoses, SyncFinds
<1>9. ASSUME NEW n \in 1..Len(rx), ReadyReads(n) \/ StopReads(n) \/ OutputReads(n)
      PROVE  CallInv'
  <2>1. /\ ~fresh /\ answer = NoAnswer /\ UNCHANGED <<given, fresh>>
        /\ mode' \in {mode, "Application", "Console"} /\ call.pc \in {"ready", "stopping", "output"}
        /\ call.pc = "output" => mode' = mode
    BY <1>9 DEF ReadyReads, StopReads, OutputReads, CallInv, NoCall
  <2>2. CASE UNCHANGED <<call, answer>>
    BY <2>1, <2>2 DEF CallInv
  <2>3. ASSUME NEW ok \in BOOLEAN, Return(ok)
        PROVE  CallInv'
    BY <2>1, <2>3 DEF Return, CallInv, NoCall
  <2>4. CASE TypeMarker
    BY <2>1, <2>4, TypeMarkerIs DEF CallInv, NoCall
  <2> QED
    BY <1>9, <2>2, <2>3, <2>4 DEF ReadyReads, StopReads, OutputReads
<1> QED
  BY <1>1, <1>2, <1>3, <1>4, <1>5, <1>6, <1>7, <1>8, <1>9 DEF Next, HostStep

-----------------------------------------------------------------------------
(***************************************************************************)
(* The start command.                                                      *)
(***************************************************************************)
LEMMA StartInit == Init => StartInv
BY DEF Init, StartInv, IsStart

\* A step that types no start command.
StartsKept == \A i \in DOMAIN stdin' : IsStart(i)' => IsStart(i)
LEMMA KeptEnough ==
    ASSUME StartInv, StartsKept, board = "shell" => board' = "shell"
    PROVE  StartInv'
BY DEF StartInv, StartsKept, IsStart

LEMMA TypedKeeps ==
    ASSUME Types, NEW lines \in Seq(Typed), Type(lines), \A i \in 1..Len(lines) : lines[i] # Line("start")
    PROVE  StartsKept
<1>1. /\ stdin' \in Seq(Typed) /\ Len(stdin') = Len(stdin) + Len(lines)
      /\ Len(stdin) \in Nat /\ Len(lines) \in Nat
      /\ \A i \in 1..Len(stdin) + Len(lines) :
            stdin'[i] = IF i <= Len(stdin) THEN stdin[i] ELSE lines[i - Len(stdin)]
  BY TypeTypes
<1>2. DOMAIN stdin' = 1..Len(stdin) + Len(lines) /\ DOMAIN stdin = 1..Len(stdin)
  BY <1>1, LenProperties DEF Types
<1>3. ASSUME NEW i \in DOMAIN stdin', stdin'[i] = Line("start")
      PROVE  i \in DOMAIN stdin /\ stdin[i] = Line("start")
  <2>1. i <= Len(stdin) \/ i - Len(stdin) \in 1..Len(lines)
    BY <1>1, <1>2
  <2> QED
    BY <1>1, <1>2, <1>3, <2>1
<1> QED
  BY <1>3 DEF StartsKept, IsStart

LEMMA MarkerKeeps ==
    ASSUME Types, TypeMarker
    PROVE  StartsKept
<1>1. PICK m \in Markers : Type(<<Marker(m)>>)
  BY DEF TypeMarker
<1> DEFINE lines == <<Marker(m)>>
<1>2. lines \in Seq(Typed) /\ \A i \in 1..Len(lines) : lines[i] # Line("start")
  BY LineTypes, TypedTypes DEF Line, Marker
<1>3. Type(lines)
  BY <1>1
<1> HIDE DEF lines
<1> QED
  BY <1>2, <1>3, TypedKeeps

LEMMA SameKeeps == UNCHANGED stdin => StartsKept
BY DEF StartsKept, IsStart

\* The host types it when it has found the shell idle.
LEMMA StartCalls ==
    ASSUME Types, CallInv, SyncInv, StartInv, HostStep
    PROVE  StartInv'
<1>1. CASE UNCHANGED <<stdin, board>>
  BY <1>1, SameKeeps, KeptEnough
<1>2. CASE Decide
  <2>1. board' = board
    BY <1>2 DEF Decide, boardVars
  <2>2. CASE Type(<<Line("quit")>>)
    <3> DEFINE lines == <<Line("quit")>>
    <3>1. lines \in Seq(Typed) /\ \A i \in 1..Len(lines) : lines[i] # Line("start")
      BY LineTypes, TypedTypes DEF Line
    <3>2. Type(lines)
      BY <2>2
    <3> HIDE DEF lines
    <3> QED
      BY <2>1, <3>1, <3>2, TypedKeeps, KeptEnough
  <2> QED
    BY <1>2, <2>1, <2>2, MarkerKeeps, SameKeeps, KeptEnough DEF Decide
<1>3. ASSUME NEW n \in 1..Len(rx), SyncReads(n)
      PROVE  StartInv'
  <2>1. board' = board /\ (SyncMisses(n) \/ SyncLoses \/ SyncFinds)
    BY <1>3, SyncIs
  <2>2. CASE UNCHANGED stdin
    BY <2>1, <2>2, SameKeeps, KeptEnough
  <2>3. CASE SyncFinds /\ Type(<<Line("start")>>)
    <3> DEFINE lines == <<Line("start")>>
    <3>1. lines \in Seq(Typed) /\ Len(lines) = 1 /\ Type(lines) /\ stdin = <<>> /\ board = "shell"
      BY <2>3, LineTypes, TypedTypes DEF SyncFinds
    <3> HIDE DEF lines
    <3>2. stdin' \in Seq(Typed) /\ Len(stdin') = 1
      BY <3>1, TypeTypes, EmptySeq
    <3>3. DOMAIN stdin' = 1..1
      BY <3>2, LenProperties
    <3> QED
      BY <2>1, <3>1, <3>3 DEF StartInv, IsStart
  <2>4. CASE SyncFinds /\ call.name \in {"list", "status"} /\ Type(<<Line(call.name), Marker(call.marker)>>)
    <3> DEFINE lines == <<Line(call.name), Marker(call.marker)>>
    <3>1. Line(call.name) \in Typed /\ Marker(call.marker) \in Typed
      BY <2>4, LineTypes DEF SyncFinds
    <3>2. lines \in Seq(Typed) /\ \A i \in 1..Len(lines) : lines[i] # Line("start")
      BY <2>4, <3>1, TypedTypes DEF Line, Marker
    <3>3. Type(lines)
      BY <2>4
    <3> HIDE DEF lines
    <3> QED
      BY <2>1, <3>2, <3>3, TypedKeeps, KeptEnough
  <2> QED
    BY <2>1, <2>2, <2>3, <2>4 DEF SyncMisses, SyncLoses, SyncFinds
<1>4. ASSUME NEW n \in 1..Len(rx), StopReads(n)
      PROVE  StartInv'
  BY <1>4, MarkerKeeps, SameKeeps, KeptEnough DEF StopReads, boardVars
<1> QED
  BY <1>1, <1>2, <1>3, <1>4
     DEF HostStep, NewController, Begin, ObserveEnds, TimesOut, ObserveReads, ReadyReads, OutputReads, boardVars

\* Only an idle shell reads it, and there is no second one behind it.
LEMMA StartBoard ==
    ASSUME Types, StartInv, BoardStep
    PROVE  StartInv' /\ (ShellKept => ShellKept')
<1>1. CASE TerminalEchoes
  <2>1. StartsKept
    <3>1. PICK k \in DOMAIN stdin : /\ stdin' = [stdin EXCEPT ![k] = Echoed(stdin[k].marker)]
                                    /\ DOMAIN stdin' = DOMAIN stdin
      BY <1>1, EchoIs
    <3>2. \A i \in DOMAIN stdin : stdin'[i] = IF i = k THEN Echoed(stdin[k].marker) ELSE stdin[i]
      BY <3>1
    <3>3. Echoed(stdin[k].marker) # Line("start")
      BY DEF Echoed, Line
    <3> QED
      BY <3>1, <3>2, <3>3 DEF StartsKept, IsStart
  <2> QED
    BY <1>1, <2>1, EchoIs, KeptEnough DEF boardVars, ShellKept, StartsKept
<1>2. CASE ShellReads
  <2>1. /\ board = "shell" /\ stdin # <<>> /\ stdin' = Tail(stdin)
        /\ board' = IF Head(stdin) = Line("start") THEN "launch" ELSE "shell"
    BY <1>2, ShellIs
  <2>2. /\ Len(stdin) \in Nat \ {0} /\ Len(stdin') = Len(stdin) - 1
        /\ DOMAIN stdin = 1..Len(stdin) /\ DOMAIN stdin' = 1..Len(stdin')
        /\ \A i \in 1..Len(stdin') : stdin'[i] = stdin[i+1]
        /\ Head(stdin) = stdin[1]
    BY <2>1, TailIs
  <2>3. \A i \in DOMAIN stdin' : IsStart(i)' => IsStart(i+1) /\ i + 1 # 1 /\ i \in Nat
    BY <2>2 DEF IsStart
  <2>4. Head(stdin) = Line("start") => IsStart(1)
    BY <2>2 DEF IsStart
  <2>5. ASSUME NEW i \in DOMAIN stdin', IsStart(i)'
        PROVE  board' = "shell"
    BY <2>1, <2>2, <2>3, <2>4, <2>5 DEF StartInv
  <2>6. ASSUME NEW i \in DOMAIN stdin', NEW j \in DOMAIN stdin', IsStart(i)', IsStart(j)'
        PROVE  i = j
    BY <2>2, <2>3, <2>6 DEF StartInv
  <2>7. StartInv'
    BY <2>5, <2>6 DEF StartInv
  <2>8. ShellKept => ShellKept'
    BY <2>1, <2>2, <2>3, <2>4 DEF ShellKept
  <2> QED
    BY <2>7, <2>8
<1>3. CASE board # "shell" /\ (Launches \/ AppRequests \/ AppctlEnds \/ AppExits)
  <2>1. UNCHANGED stdin
    BY <1>3 DEF Launches, AppRequests, AppctlEnds, AppExits
  <2> QED
    BY <1>3, <2>1, SameKeeps, KeptEnough DEF ShellKept
<1>4. CASE AppReads
  <2>1. board = "app" /\ stdin # <<>> /\ stdin' = Tail(stdin)
    BY <1>4 DEF AppReads
  <2>2. /\ Len(stdin) \in Nat \ {0} /\ Len(stdin') = Len(stdin) - 1
        /\ DOMAIN stdin = 1..Len(stdin) /\ DOMAIN stdin' = 1..Len(stdin')
        /\ \A i \in 1..Len(stdin') : stdin'[i] = stdin[i+1]
    BY <2>1, TailIs
  <2>3. \A i \in DOMAIN stdin : ~IsStart(i)
    BY <2>1 DEF StartInv
  <2>4. \A i \in DOMAIN stdin' : ~IsStart(i)'
    BY <2>2, <2>3 DEF IsStart
  <2> QED
    BY <2>1, <2>4 DEF StartInv, ShellKept
<1>5. CASE Chatter
  BY <1>5, SameKeeps, KeptEnough DEF Chatter, boardVars, ShellKept, IsStart
<1> QED
  BY <1>1, <1>2, <1>3, <1>4, <1>5 DEF BoardStep, Launches, AppRequests, AppctlEnds, AppExits

LEMMA StartStep ==
    ASSUME Types, CallInv, SyncInv, StartInv, [Next]_vars
    PROVE  StartInv'
<1>1. CASE UNCHANGED vars
  BY <1>1, SameKeeps, KeptEnough DEF vars, boardVars
<1> QED
  BY <1>1, StartCalls, StartBoard DEF Next

-----------------------------------------------------------------------------
(***************************************************************************)
(* The answers to a start and to the other calls.                          *)
(***************************************************************************)
LEMMA ReadyInit == Init => ReadyInv
<1> SUFFICES ASSUME Init PROVE ReadyInv
  OBVIOUS
<1>1. call.pc # "ready"
  BY DEF Init, NoCall
<1>2. ran = (board = "app")
  BY DEF Init
<1> QED
  BY <1>1, <1>2, Zenon DEF ReadyInv

LEMMA ReadyBoard ==
    ASSUME Types, ReadyInv, BoardStep
    PROVE  ReadyInv'
<1>1. /\ UNCHANGED hostVars /\ (board' = "app" => ran')
      /\ \/ ran' = TRUE
         \/ UNCHANGED <<rx, ran>>
         \/ ran' = ran /\ \E S : Speaks(S) /\ (S \cap Begins = {} \/ ran)
  <2>1. CASE TerminalEchoes
    <3>1. PICK m \in Markers : Speaks({Echo(m)}) /\ UNCHANGED <<hostVars, boardVars>>
      BY <2>1, EchoIs
    <3>2. {Echo(m)} \cap Begins = {}
      BY DEF Echo, Begins, Line
    <3> QED
      BY <3>1, <3>2 DEF boardVars, ReadyInv
  <2>2. CASE ShellReads
    <3>1. UNCHANGED <<hostVars, ran>> /\ board' # "app"
      BY <2>2, ShellIs
    <3>2. PICK m \in Markers \cup {NoMarker} : \/ Speaks({Echo(m), Marker(m)})
                                               \/ Speaks({Line("text"), Line("idle")})
      BY <2>2, ShellIs
    <3>3. {Echo(m), Marker(m)} \cap Begins = {} /\ {Line("text"), Line("idle")} \cap Begins = {}
      BY DEF Echo, Marker, Begins, Line
    <3> QED
      BY <3>1, <3>2, <3>3
  <2>3. CASE Launches \/ AppRequests \/ AppctlEnds \/ Chatter
    <3>1. {Line("text")} \cap Begins = {} /\ {Line("stopped")} \cap Begins = {}
      BY DEF Begins, Line
    <3> QED
      BY <2>3, <3>1, OthersSpeak DEF ReadyInv
  <2>4. CASE AppReads \/ AppExits
    BY <2>4 DEF AppReads, AppExits, ReadyInv
  <2> QED
    BY <2>1, <2>2, <2>3, <2>4 DEF BoardStep
<1>2. pending' = pending /\ call' = call
  BY <1>1 DEF hostVars
<1>3. ASSUME call.pc = "ready", NEW i \in DOMAIN Unread', Unread'[i].line \in Begins
      PROVE  ran'
  <2>1. CASE UNCHANGED <<rx, ran>>
    BY <1>2, <1>3, <2>1 DEF ReadyInv, Unread
  <2>2. ASSUME NEW S, ran' = ran, Speaks(S), S \cap Begins = {} \/ ran
        PROVE  ran'
    <3>1. /\ Len(Unread) \in Nat /\ Len(Unread') \in Nat /\ Unread \in Seq(Symbols) /\ Unread' \in Seq(Symbols)
          /\ \A j \in 1..Len(Unread) : Unread'[j] = Unread[j]
          /\ \A j \in Len(Unread) + 1..Len(Unread') : Unread'[j].line \in S
      BY <1>2, <2>2, UnreadGrows
    <3>2. DOMAIN Unread = 1..Len(Unread) /\ DOMAIN Unread' = 1..Len(Unread')
      BY <3>1, LenProperties
    <3>3. CASE i \in 1..Len(Unread)
      BY <1>3, <2>2, <3>1, <3>2, <3>3 DEF ReadyInv
    <3>4. CASE i \in Len(Unread) + 1..Len(Unread')
      BY <1>3, <2>2, <3>1, <3>4
    <3> QED
      BY <3>1, <3>2, <3>3, <3>4
  <2> QED
    BY <1>1, <2>1, <2>2
<1> QED
  BY <1>1, <1>2, <1>3 DEF ReadyInv

LEMMA ReadyHost ==
    ASSUME Types, CallInv, SyncInv, ReadyInv, HostStep
    PROVE  ReadyInv'
<1>1. board' = board /\ (board = "app" => ran')
  BY DEF HostStep, NewController, Begin, Decide, ObserveEnds, TimesOut, ObserveReads, SyncReads, ReadyReads,
         StopReads, OutputReads, boardVars, ReadyInv
<1>2. CASE call'.pc # "ready"
  BY <1>1, <1>2 DEF ReadyInv
<1>3. ASSUME NEW n \in 1..Len(rx), SyncReads(n), call'.pc = "ready"
      PROVE  ReadyInv'
  <2>1. SyncFinds
    BY <1>3, SyncIs DEF SyncMisses, SyncLoses, Return, NoCall
  <2> QED
    BY <1>1, <2>1 DEF SyncFinds, ReadyInv
<1>4. ASSUME NEW n \in 1..Len(rx), ReadyReads(n), call'.pc = "ready"
      PROVE  ReadyInv'
  <2>1. /\ call.pc = "ready" /\ ran' = ran
        /\ Lines(Chunk(n), Traffic \cup {Line("ready")}) = {}
        /\ Read(n, Partial(Chunk(n)) \o <<>>)
    <3> DEFINE hits == Lines(Chunk(n), Traffic \cup {Line("ready")})
               rest == IF hits = {} THEN <<>> ELSE SubSeq(Chunk(n), Min(hits) + 1, LastEnd(Chunk(n)))
    <3>1. /\ call.pc = "ready" /\ ran' = ran /\ Read(n, Partial(Chunk(n)) \o rest)
          /\ (hits # {} => Return(TRUE))
      BY <1>4 DEF ReadyReads, boardVars
    <3> HIDE DEF hits
    <3>2. hits = {}
      BY <1>4, <3>1 DEF Return, NoCall
    <3>3. rest = <<>>
      BY <3>2
    <3> QED
      BY <3>1, <3>2, <3>3 DEF hits
  <2>2. PICK k \in Nat : /\ Len(Unread) = Len(Unread') + k
                         /\ Unread \in Seq(Symbols) /\ Unread' \in Seq(Symbols)
                         /\ \A i \in 1..Len(Unread') : Unread'[i] = Unread[i + k]
    BY <2>1, EmptyRead, BareRead
  <2>3. DOMAIN Unread = 1..Len(Unread) /\ DOMAIN Unread' = 1..Len(Unread') /\ Len(Unread') \in Nat
    BY <2>2, LenProperties
  <2>4. ASSUME NEW i \in DOMAIN Unread', Unread'[i].line \in Begins
        PROVE  ran
    <3>1. i + k \in DOMAIN Unread /\ Unread[i + k].line \in Begins
      BY <2>2, <2>3, <2>4
    <3> QED
      BY <2>1, <3>1 DEF ReadyInv
  <2> QED
    BY <1>1, <2>1, <2>4 DEF ReadyInv
<1>5. call'.pc = "ready" => \E n \in 1..Len(rx) : SyncReads(n) \/ ReadyReads(n)
  <2>1. CASE Decide
    BY <2>1, TypeMarkerIs, GotoIs DEF Decide, Return, NoCall, Pcs
  <2>2. CASE ObserveEnds \/ TimesOut \/ (\E m \in Confirmed : NewController(m)) \/ (\E name \in Calls : Begin(name))
    BY <2>2, GotoIs DEF ObserveEnds, TimesOut, Return, NewController, Begin, NoCall, Pcs
  <2>3. ASSUME NEW n \in 1..Len(rx), ObserveReads(n) \/ StopReads(n) \/ OutputReads(n)
        PROVE  call'.pc # "ready"
    BY <2>3, TypeMarkerIs, GotoIs DEF ObserveReads, StopReads, OutputReads, Return, NoCall, Pcs
  <2> QED
    BY <2>1, <2>2, <2>3 DEF HostStep
<1> QED
  BY <1>2, <1>3, <1>4, <1>5

LEMMA ReadyStep ==
    ASSUME Types, CallInv, SyncInv, ReadyInv, [Next]_vars
    PROVE  ReadyInv'
<1>1. CASE UNCHANGED vars
  BY <1>1 DEF ReadyInv, Unread, vars, hostVars, boardVars
<1> QED
  BY <1>1, ReadyBoard, ReadyHost DEF Next

LEMMA AnswerInit == Init => AnswerInv
BY DEF Init, AnswerInv, StartIsTrue, NoCall, NoAnswer

LEMMA AnswerBoard ==
    ASSUME Types, StartInv, AnswerInv, BoardStep
    PROVE  AnswerInv'
<1>1. UNCHANGED hostVars /\ (ran' = ran \/ ran' = TRUE)
  BY EchoIs, ShellIs, OthersSpeak DEF BoardStep, AppReads, AppExits, boardVars
<1>2. ShellKept => ShellKept'
  BY StartBoard
<1> QED
  BY <1>1, <1>2 DEF AnswerInv, StartIsTrue, hostVars, Types

\* No answer yet, and the ways to give one.
LEMMA NotYet ==
    ASSUME answer' = NoAnswer, call'.pc = "output" => ShellKept'
    PROVE  AnswerInv'
BY DEF AnswerInv, StartIsTrue, NoAnswer

LEMMA Refuses ==
    ASSUME Return(FALSE)
    PROVE  AnswerInv'
BY DEF Return, NoCall, AnswerInv, StartIsTrue

LEMMA Confirms ==
    ASSUME NEW ok \in BOOLEAN, Return(ok), call.name = "start" => ran' \/ given' = "Unknown",
           call.name # "start" => ShellKept' \/ (call.name = "stop" /\ given' = "Unknown")
    PROVE  AnswerInv'
BY DEF Return, NoCall, AnswerInv, StartIsTrue

\* The APPREADY or request that a start finds is one the application wrote.
LEMMA ReadyHit ==
    ASSUME Types, ReadyInv, NEW n \in 1..Len(rx), call.pc = "ready",
           Lines(Chunk(n), Traffic \cup {Line("ready")}) # {}
    PROVE  ran
<1> DEFINE buf == Chunk(n)
<1>1. buf \in Seq(Symbols) /\ Left(n) \in Seq(Symbols) /\ buf \o Left(n) = Unread /\ Unread \in Seq(Symbols)
  BY ChunkIs
<1>2. PICK p \in Lines(buf, Traffic \cup {Line("ready")}) : TRUE
  OBVIOUS
<1> HIDE DEF buf
<1>3. p \in 1..Len(buf) /\ Len(buf) \in Nat
  BY <1>1, <1>2, LinesIn
<1>4. LineAt(buf, p) \in Begins /\ Line("text") \notin Begins
  BY <1>2 DEF Lines, Traffic, Begins, Line
<1>5. buf[p].line \in Begins
  BY <1>4, LineAtIs
<1>6. Unread[p] = buf[p] /\ p \in DOMAIN Unread
  <2>1. Len(Left(n)) \in Nat
    BY <1>1, LenProperties
  <2>2. p \in 1..Len(buf) + Len(Left(n)) /\ p <= Len(buf)
    BY <1>3, <2>1
  <2>3. (buf \o Left(n))[p] = buf[p] /\ Len(buf \o Left(n)) = Len(buf) + Len(Left(n))
    BY <1>1, <2>2, ConcatProperties
  <2> QED
    BY <1>1, <2>2, <2>3, LenProperties
<1> QED
  BY <1>5, <1>6 DEF ReadyInv

LEMMA AnswerHost ==
    ASSUME Types, CallInv, SyncInv, ReadyInv, AnswerInv, HostStep
    PROVE  AnswerInv'
<1>1. CASE (\E m \in Confirmed : NewController(m)) \/ (\E name \in Calls : Begin(name))
  <2>1. answer' = NoAnswer /\ call'.pc # "output"
    BY <1>1 DEF NewController, Begin, NoCall
  <2> QED
    BY <2>1, NotYet
<1>2. CASE Decide
  <2>1. call.pc = "decide" /\ answer = NoAnswer /\ UNCHANGED <<mode, given>>
    BY <1>2 DEF Decide, CallInv, NoCall
  <2>2. CASE TypeMarker
    BY <2>1, <2>2, TypeMarkerIs, NotYet
  <2>3. CASE Goto("stopping")
    BY <2>1, <2>3, GotoIs, NotYet DEF Pcs
  <2>4. CASE Return(FALSE)
    BY <2>4, Refuses
  <2>5. CASE /\ \/ call.name = "start" /\ mode = "Application"
                \/ call.name = "stop" /\ mode = "Console"
             /\ Return(TRUE)
    <3>1. given' = "Unknown"
      BY <2>1, <2>5 DEF CallInv
    <3> QED
      BY <2>5, <3>1, Confirms
  <2> QED
    BY <1>2, <2>2, <2>3, <2>4, <2>5 DEF Decide
<1>3. CASE ObserveEnds
  <2>1. Goto("decide") /\ answer = NoAnswer
    BY <1>3 DEF ObserveEnds, CallInv, NoCall
  <2> QED
    BY <2>1, GotoIs, NotYet DEF Pcs
<1>4. CASE TimesOut
  BY <1>4, Refuses DEF TimesOut
<1>5. ASSUME NEW n \in 1..Len(rx), ObserveReads(n)
      PROVE  AnswerInv'
  <2>1. call.pc = "observe" /\ answer = NoAnswer /\ (Goto("decide") \/ UNCHANGED <<call, answer>>)
    BY <1>5 DEF ObserveReads, CallInv, NoCall
  <2> QED
    BY <2>1, GotoIs, NotYet DEF Pcs
<1>6. ASSUME NEW n \in 1..Len(rx), SyncReads(n)
      PROVE  AnswerInv'
  <2>1. call.pc = "sync" /\ answer = NoAnswer /\ board' = board /\ (SyncMisses(n) \/ SyncLoses \/ SyncFinds)
    BY <1>6, SyncIs DEF CallInv, NoCall
  <2>2. CASE SyncMisses(n)
    BY <2>1, <2>2, NotYet DEF SyncMisses
  <2>3. CASE SyncLoses
    BY <2>3, Refuses DEF SyncLoses
  <2>4. CASE SyncFinds
    <3>1. stdin = <<>> /\ board = "shell" /\ call.marker \in Markers
      BY <2>4 DEF SyncFinds
    <3>2. \A i \in DOMAIN stdin : ~IsStart(i)
      BY <3>1
    <3>3. CASE Goto("ready")
      BY <2>1, <3>3, GotoIs, NotYet DEF Pcs
    <3>4. CASE /\ call.name \in {"list", "status"} /\ Goto("output")
               /\ Type(<<Line(call.name), Marker(call.marker)>>)
      <4> DEFINE lines == <<Line(call.name), Marker(call.marker)>>
      <4>1. Line(call.name) \in Typed /\ Marker(call.marker) \in Typed
        BY <3>1, <3>4, LineTypes
      <4>2. lines \in Seq(Typed) /\ \A i \in 1..Len(lines) : lines[i] # Line("start")
        BY <3>4, <4>1, TypedTypes DEF Line, Marker
      <4>3. Type(lines)
        BY <3>4
      <4> HIDE DEF lines
      <4>4. StartsKept
        BY <4>2, <4>3, TypedKeeps
      <4>5. ShellKept'
        BY <2>1, <3>1, <3>2, <4>4 DEF ShellKept, StartsKept, IsStart
      <4> QED
        BY <2>1, <3>4, <4>5, GotoIs, NotYet DEF Pcs
    <3>5. CASE call.name \notin {"start", "list", "status"} /\ Return(TRUE) /\ UNCHANGED stdin
      <4>1. ShellKept'
        BY <2>1, <3>1, <3>5 DEF ShellKept, IsStart
      <4> QED
        BY <3>5, <4>1, Confirms
    <3> QED
      BY <2>4, <3>3, <3>4, <3>5 DEF SyncFinds
  <2> QED
    BY <2>1, <2>2, <2>3, <2>4
<1>7. ASSUME NEW n \in 1..Len(rx), ReadyReads(n)
      PROVE  AnswerInv'
  <2> DEFINE hits == Lines(Chunk(n), Traffic \cup {Line("ready")})
  <2>1. /\ call.pc = "ready" /\ call.name = "start" /\ answer = NoAnswer /\ UNCHANGED <<given, ran>>
        /\ \/ UNCHANGED <<call, answer>>
           \/ hits # {} /\ Return(TRUE)
    BY <1>7 DEF ReadyReads, CallInv, NoCall, boardVars
  <2> QED
    BY <2>1, ReadyHit, NotYet, Confirms
<1>8. ASSUME NEW n \in 1..Len(rx), StopReads(n)
      PROVE  AnswerInv'
  <2>1. call.pc = "stopping" /\ answer = NoAnswer /\ (TypeMarker \/ UNCHANGED <<call, answer>>)
    BY <1>8 DEF StopReads, CallInv, NoCall
  <2> QED
    BY <2>1, TypeMarkerIs, NotYet
<1>9. ASSUME NEW n \in 1..Len(rx), OutputReads(n)
      PROVE  AnswerInv'
  <2>1. /\ call.pc = "output" /\ call.name \in {"list", "status"} /\ answer = NoAnswer
        /\ UNCHANGED <<stdin, board>> /\ ShellKept
    BY <1>9 DEF OutputReads, CallInv, NoCall, boardVars, AnswerInv
  <2>2. UNCHANGED <<call, answer>> \/ \E ok \in BOOLEAN : Return(ok)
    BY <1>9 DEF OutputReads
  <2>3. ShellKept'
    BY <2>1 DEF ShellKept, IsStart
  <2> QED
    BY <2>1, <2>2, <2>3, NotYet, Confirms
<1> QED
  BY <1>1, <1>2, <1>3, <1>4, <1>5, <1>6, <1>7, <1>8, <1>9 DEF HostStep

LEMMA AnswerStep ==
    ASSUME Types, CallInv, SyncInv, StartInv, ReadyInv, AnswerInv, [Next]_vars
    PROVE  AnswerInv'
<1>1. CASE UNCHANGED vars
  BY <1>1 DEF AnswerInv, StartIsTrue, ShellKept, IsStart, vars, hostVars, boardVars
<1> QED
  BY <1>1, AnswerBoard, AnswerHost DEF Next

-----------------------------------------------------------------------------
(***************************************************************************)
(* The marker on its way, for one marker m.                                *)
(***************************************************************************)
TypedLast(m) == \A i \in DOMAIN stdin : stdin[i].marker = m => i = Len(stdin)
PrintedLast(m) ==
    \A i \in DOMAIN Unread : Unread[i].line = Marker(m) =>
        /\ stdin = <<>> /\ board = "shell"
        /\ \A j \in DOMAIN Unread : j > i => Unread[j].line \notin Begins

LEMMA SyncParts == SyncInv <=> (call.pc = "sync" => /\ call.marker \in Markers
                                                    /\ TypedLast(call.marker) /\ PrintedLast(call.marker))
BY DEF SyncInv, TypedLast, PrintedLast

LEMMA SyncInit == Init => SyncInv
BY DEF Init, SyncInv, NoCall

\* Who speaks without printing the marker does not disturb an idle shell.
LEMMA SpeaksBeside ==
    ASSUME Types, NEW m, PrintedLast(m), NEW S, Speaks(S), pending' = pending, Marker(m) \notin S,
           stdin = <<>> /\ board = "shell" => stdin' = <<>> /\ board' = "shell" /\ S \cap Begins = {}
    PROVE  PrintedLast(m)'
<1>1. /\ Len(Unread) \in Nat /\ Len(Unread') \in Nat /\ Unread \in Seq(Symbols) /\ Unread' \in Seq(Symbols)
      /\ \A i \in 1..Len(Unread) : Unread'[i] = Unread[i]
      /\ \A i \in Len(Unread) + 1..Len(Unread') : Unread'[i].line \in S
  BY UnreadGrows
<1>2. DOMAIN Unread = 1..Len(Unread) /\ DOMAIN Unread' = 1..Len(Unread')
  BY <1>1, LenProperties
<1>3. ASSUME NEW i \in DOMAIN Unread', Unread'[i].line = Marker(m)
      PROVE  /\ stdin' = <<>> /\ board' = "shell"
             /\ \A j \in DOMAIN Unread' : j > i => Unread'[j].line \notin Begins
  <2>1. i \in 1..Len(Unread)
    <3>1. i \in 1..Len(Unread) \/ i \in Len(Unread) + 1..Len(Unread')
      BY <1>1, <1>2
    <3> QED
      BY <1>1, <1>3, <3>1
  <2>2. /\ stdin = <<>> /\ board = "shell"
        /\ \A j \in DOMAIN Unread : j > i => Unread[j].line \notin Begins
    BY <1>1, <1>2, <1>3, <2>1 DEF PrintedLast
  <2>3. ASSUME NEW j \in DOMAIN Unread', j > i
        PROVE  Unread'[j].line \notin Begins
    <3>1. j \in 1..Len(Unread) \/ j \in Len(Unread) + 1..Len(Unread')
      BY <1>1, <1>2
    <3>2. CASE j \in 1..Len(Unread)
      BY <1>1, <1>2, <2>2, <2>3, <3>2
    <3>3. CASE j \in Len(Unread) + 1..Len(Unread')
      BY <1>1, <2>2, <3>3
    <3> QED
      BY <3>1, <3>2, <3>3
  <2> QED
    BY <2>2, <2>3
<1> QED
  BY <1>3 DEF PrintedLast

\* The shell prints it, as the last thing that was typed.
LEMMA ShellPrints ==
    ASSUME Types, NEW m \in Markers, PrintedLast(m), Speaks({Echo(m), Marker(m)}), pending' = pending,
           stdin # <<>>, stdin' = <<>>, board' = "shell"
    PROVE  PrintedLast(m)'
<1>1. /\ Len(Unread) \in Nat /\ Len(Unread') \in Nat /\ Unread \in Seq(Symbols) /\ Unread' \in Seq(Symbols)
      /\ \A i \in 1..Len(Unread) : Unread'[i] = Unread[i]
      /\ \A i \in Len(Unread) + 1..Len(Unread') : Unread'[i].line \in {Echo(m), Marker(m)}
  BY UnreadGrows
<1>2. DOMAIN Unread = 1..Len(Unread) /\ DOMAIN Unread' = 1..Len(Unread')
  BY <1>1, LenProperties
<1>3. \A i \in 1..Len(Unread) : Unread'[i].line # Marker(m)
  BY <1>1, <1>2 DEF PrintedLast
<1>4. Echo(m) \notin Begins /\ Marker(m) \notin Begins
  BY DEF Echo, Marker, Begins, Line
<1>5. ASSUME NEW i \in DOMAIN Unread', Unread'[i].line = Marker(m), NEW j \in DOMAIN Unread', j > i
      PROVE  Unread'[j].line \notin Begins
  <2>1. ~(i \in 1..Len(Unread))
    BY <1>3, <1>5
  <2>2. j \in Len(Unread) + 1..Len(Unread')
    BY <1>1, <1>2, <1>5, <2>1
  <2> QED
    BY <1>1, <1>4, <2>2
<1> QED
  BY <1>5 DEF PrintedLast

LEMMA TailLast ==
    ASSUME Types, stdin # <<>>, stdin' = Tail(stdin), NEW m, TypedLast(m)
    PROVE  TypedLast(m)'
<1>1. /\ Len(stdin) \in Nat \ {0} /\ Len(stdin') = Len(stdin) - 1
      /\ DOMAIN stdin = 1..Len(stdin) /\ DOMAIN stdin' = 1..Len(stdin')
      /\ \A i \in 1..Len(stdin') : stdin'[i] = stdin[i+1]
  BY TailIs
<1>2. ASSUME NEW i \in DOMAIN stdin', stdin'[i].marker = m
      PROVE  i = Len(stdin')
  <2>1. i + 1 \in DOMAIN stdin /\ stdin[i+1].marker = m
    BY <1>1, <1>2
  <2>2. i + 1 = Len(stdin)
    BY <2>1 DEF TypedLast
  <2> QED
    BY <1>1, <2>2
<1> QED
  BY <1>2 DEF TypedLast

LEMMA SyncBoard ==
    ASSUME Types, NEW m \in Markers, TypedLast(m), PrintedLast(m), BoardStep
    PROVE  TypedLast(m)' /\ PrintedLast(m)'
<1>1. CASE TerminalEchoes
  <2>1. PICK i \in DOMAIN stdin :
           /\ stdin[i].kind = "marker" /\ stdin[i].marker \in Markers
           /\ Speaks({Echo(stdin[i].marker)})
           /\ stdin' = [stdin EXCEPT ![i] = Echoed(stdin[i].marker)]
           /\ DOMAIN stdin' = DOMAIN stdin /\ Len(stdin') = Len(stdin)
           /\ UNCHANGED <<hostVars, boardVars>>
    BY <1>1, EchoIs
  <2>2. \A j \in DOMAIN stdin : stdin'[j] = IF j = i THEN Echoed(stdin[i].marker) ELSE stdin[j]
    BY <2>1
  <2>3. \A j \in DOMAIN stdin : stdin'[j].marker = stdin[j].marker
    BY <2>2 DEF Echoed
  <2>4. TypedLast(m)'
    BY <2>1, <2>3 DEF TypedLast
  <2>5. Marker(m) \notin {Echo(stdin[i].marker)} /\ stdin # <<>> /\ pending' = pending
    BY <2>1 DEF Marker, Echo, hostVars
  <2>6. PrintedLast(m)'
    BY <2>1, <2>5, SpeaksBeside
  <2> QED
    BY <2>4, <2>6
<1>2. CASE ShellReads
  <2> DEFINE l == Head(stdin)
  <2>1. /\ board = "shell" /\ stdin # <<>> /\ stdin' = Tail(stdin) /\ l \in Typed
        /\ board' = IF l = Line("start") THEN "launch" ELSE "shell"
        /\ pending' = pending
        /\ \/ l.kind \in {"marker", "echoed"} /\ l.marker \in Markers
                 /\ Speaks({Echo(l.marker), Marker(l.marker)})
           \/ l.kind \notin {"marker", "echoed"} /\ Speaks({Line("text"), Line("idle")})
    BY <1>2, ShellIs DEF hostVars
  <2>2. l = stdin[1] /\ 1 \in DOMAIN stdin /\ Len(stdin) \in Nat \ {0} /\ Len(stdin') = Len(stdin) - 1
        /\ stdin' \in Seq(Typed)
    BY <2>1, TailIs
  <2> HIDE DEF l
  <2>3. TypedLast(m)'
    BY <2>1, TailLast
  <2>4. CASE l.kind \in {"marker", "echoed"} /\ l.marker = m
    <3>1. Len(stdin') = 0 /\ stdin' = <<>>
      BY <2>2, <2>4, EmptySeq DEF TypedLast
    <3>2. board' = "shell"
      BY <2>1, <2>4 DEF Line
    <3> QED
      BY <2>1, <2>3, <2>4, <3>1, <3>2, ShellPrints
  <2>5. CASE l.kind \in {"marker", "echoed"} /\ l.marker # m
    <3>1. Marker(m) \notin {Echo(l.marker), Marker(l.marker)}
      BY <2>5 DEF Marker, Echo
    <3> QED
      BY <2>1, <2>3, <2>5, <3>1, SpeaksBeside
  <2>6. CASE l.kind \notin {"marker", "echoed"}
    <3>1. Marker(m) \notin {Line("text"), Line("idle")}
      BY DEF Marker, Line
    <3> QED
      BY <2>1, <2>3, <2>6, <3>1, SpeaksBeside
  <2> QED
    BY <2>4, <2>5, <2>6
<1>3. CASE Launches \/ AppRequests \/ AppctlEnds \/ Chatter
  <2>1. UNCHANGED stdin /\ pending' = pending
    BY <1>3, OthersSpeak DEF hostVars
  <2>2. TypedLast(m)'
    BY <2>1 DEF TypedLast
  <2>3. \E k \in {"ready", "text", "request", "stopped"} :
           Speaks({Line(k)}) /\ (board = "shell" => board' = "shell" /\ k = "text")
    BY <1>3, OthersSpeak
  <2>4. PICK k \in {"ready", "text", "request", "stopped"} :
           Speaks({Line(k)}) /\ (board = "shell" => board' = "shell" /\ k = "text")
    BY <2>3
  <2>5. Marker(m) \notin {Line(k)} /\ (k = "text" => {Line(k)} \cap Begins = {})
    BY DEF Marker, Line, Begins
  <2>6. PrintedLast(m)'
    BY <2>1, <2>4, <2>5, SpeaksBeside
  <2> QED
    BY <2>2, <2>6
<1>4. CASE AppReads
  <2>1. stdin # <<>> /\ stdin' = Tail(stdin) /\ UNCHANGED <<pending, rx>>
    BY <1>4 DEF AppReads, hostVars
  <2>2. TypedLast(m)'
    BY <2>1, TailLast
  <2>3. PrintedLast(m)'
    BY <2>1 DEF PrintedLast, Unread
  <2> QED
    BY <2>2, <2>3
<1>5. CASE AppExits
  <2>1. board = "app" /\ UNCHANGED <<stdin, pending, rx>>
    BY <1>5 DEF AppExits, hostVars
  <2> QED
    BY <2>1 DEF TypedLast, PrintedLast, Unread
<1> QED
  BY <1>1, <1>2, <1>3, <1>4, <1>5 DEF BoardStep

\* A fresh marker is nowhere in what is unread, nor in a part of it.
LEMMA SyncFresh ==
    ASSUME Types, TypeMarker, \A i \in DOMAIN Unread' : \E j \in DOMAIN Unread : Unread'[i] = Unread[j]
    PROVE  SyncInv'
<1>1. PICK m \in Markers :
         /\ Fresh(m) /\ call' = [name |-> call.name, pc |-> "sync", marker |-> m]
         /\ stdin' \in Seq(Typed) /\ Len(stdin) \in Nat /\ Len(stdin') = Len(stdin) + 1
         /\ \A i \in 1..Len(stdin) + 1 : stdin'[i] = IF i <= Len(stdin) THEN stdin[i] ELSE Marker(m)
  BY TypeMarkerIs
<1>2. DOMAIN stdin = 1..Len(stdin) /\ DOMAIN stdin' = 1..Len(stdin')
  BY <1>1, LenProperties DEF Types
<1>3. TypedLast(m)'
  <2>1. \A i \in DOMAIN stdin : stdin[i].marker # m
    BY <1>1 DEF Fresh
  <2>2. ASSUME NEW i \in DOMAIN stdin', stdin'[i].marker = m
        PROVE  i = Len(stdin')
    <3>1. i \in 1..Len(stdin) \/ i = Len(stdin) + 1
      BY <1>1, <1>2
    <3>2. i \in 1..Len(stdin) => stdin'[i] = stdin[i]
      BY <1>1
    <3> QED
      BY <1>1, <1>2, <2>1, <2>2, <3>1, <3>2
  <2> QED
    BY <2>2 DEF TypedLast
<1>4. \A j \in DOMAIN Unread : Unread[j].line.marker # m
  <2>1. pending \in Seq(Symbols) /\ rx \in Seq(Symbols)
    BY DEF Types
  <2>2. /\ \A i \in DOMAIN rx : rx[i].line.marker # m
        /\ \A i \in DOMAIN pending : pending[i].line.marker # m
    BY <1>1 DEF Fresh
  <2>3. /\ DOMAIN pending = 1..Len(pending) /\ DOMAIN rx = 1..Len(rx) /\ DOMAIN Unread = 1..Len(Unread)
        /\ Len(pending) \in Nat /\ Len(rx) \in Nat /\ Len(Unread) = Len(pending) + Len(rx)
        /\ \A i \in 1..Len(pending) + Len(rx) :
              Unread[i] = IF i <= Len(pending) THEN pending[i] ELSE rx[i - Len(pending)]
    BY <2>1, LenProperties, ConcatProperties DEF Unread
  <2> TAKE j \in DOMAIN Unread
  <2>4. CASE j \in 1..Len(pending)
    BY <2>2, <2>3, <2>4
  <2>5. CASE ~(j <= Len(pending))
    <3>1. j - Len(pending) \in 1..Len(rx)
      BY <2>3, <2>5
    <3> QED
      BY <2>2, <2>3, <2>5, <3>1
  <2> QED
    BY <2>3, <2>4, <2>5
<1>5. PrintedLast(m)'
  BY <1>4 DEF PrintedLast, Marker
<1>6. call'.pc = "sync" /\ call'.marker = m
  BY <1>1
<1> QED
  BY <1>3, <1>5, <1>6 DEF SyncInv, TypedLast, PrintedLast

LEMMA SyncHost ==
    ASSUME Types, CallInv, SyncInv, HostStep
    PROVE  SyncInv'
<1>1. CASE call'.pc # "sync"
  BY <1>1 DEF SyncInv
<1>2. CASE ObserveEnds \/ TimesOut \/ (\E m \in Confirmed : NewController(m)) \/ (\E name \in Calls : Begin(name))
  <2>1. call'.pc # "sync"
    BY <1>2, GotoIs DEF ObserveEnds, TimesOut, Return, NewController, Begin, NoCall, Pcs
  <2> QED
    BY <1>1, <2>1
<1>3. CASE Decide
  <2>1. UNCHANGED Unread
    BY <1>3 DEF Decide, Unread
  <2>2. TypeMarker \/ call'.pc # "sync"
    BY <1>3, GotoIs DEF Decide, Return, NoCall, Pcs
  <2> QED
    BY <1>1, <2>1, <2>2, SyncFresh
<1>4. ASSUME NEW n \in 1..Len(rx), ObserveReads(n) \/ ReadyReads(n) \/ OutputReads(n)
      PROVE  SyncInv'
  <2>1. call'.pc # "sync"
    BY <1>4, GotoIs DEF ObserveReads, ReadyReads, OutputReads, Return, NoCall, Pcs
  <2> QED
    BY <1>1, <2>1
<1>5. ASSUME NEW n \in 1..Len(rx), Read(n, Partial(Chunk(n)))
      PROVE  \E k \in Nat : /\ DOMAIN Unread = 1..Len(Unread) /\ DOMAIN Unread' = 1..Len(Unread')
                            /\ Len(Unread') \in Nat /\ Len(Unread) = Len(Unread') + k
                            /\ \A i \in 1..Len(Unread') : Unread'[i] = Unread[i + k]
  BY <1>5, BareRead, LenProperties
<1>6. ASSUME NEW n \in 1..Len(rx), StopReads(n)
      PROVE  SyncInv'
  <2>1. Read(n, Partial(Chunk(n))) /\ (TypeMarker \/ (call' = call /\ call.pc = "stopping"))
    BY <1>6 DEF StopReads
  <2>2. \A i \in DOMAIN Unread' : \E j \in DOMAIN Unread : Unread'[i] = Unread[j]
    <3>1. PICK k \in Nat : /\ DOMAIN Unread = 1..Len(Unread) /\ DOMAIN Unread' = 1..Len(Unread')
                           /\ Len(Unread') \in Nat /\ Len(Unread) = Len(Unread') + k
                           /\ \A i \in 1..Len(Unread') : Unread'[i] = Unread[i + k]
      BY <1>5, <2>1
    <3>2. \A i \in DOMAIN Unread' : i + k \in DOMAIN Unread
      BY <3>1
    <3> QED
      BY <3>1, <3>2
  <2> QED
    BY <1>1, <2>1, <2>2, SyncFresh
<1>7. ASSUME NEW n \in 1..Len(rx), SyncReads(n), call'.pc = "sync"
      PROVE  SyncInv'
  <2>1. call.pc = "sync" /\ board' = board /\ SyncMisses(n)
    BY <1>7, SyncIs, GotoIs DEF SyncLoses, SyncFinds, Return, NoCall, Pcs
  <2>2. call' = call /\ stdin' = stdin /\ Read(n, Partial(Chunk(n)))
    BY <2>1 DEF SyncMisses
  <2>3. PICK k \in Nat : /\ DOMAIN Unread = 1..Len(Unread) /\ DOMAIN Unread' = 1..Len(Unread')
                         /\ Len(Unread') \in Nat /\ Len(Unread) = Len(Unread') + k
                         /\ \A i \in 1..Len(Unread') : Unread'[i] = Unread[i + k]
    BY <1>5, <2>2
  <2>4. ASSUME NEW i \in DOMAIN Unread', Unread'[i].line = Marker(call.marker)
        PROVE  /\ stdin = <<>> /\ board = "shell"
               /\ \A j \in DOMAIN Unread' : j > i => Unread'[j].line \notin Begins
    <3>1. i + k \in DOMAIN Unread /\ Unread[i + k].line = Marker(call.marker)
      BY <2>3, <2>4
    <3>2. /\ stdin = <<>> /\ board = "shell"
          /\ \A j \in DOMAIN Unread : j > i + k => Unread[j].line \notin Begins
      BY <2>1, <3>1 DEF SyncInv
    <3>3. \A j \in DOMAIN Unread' : j > i => j + k \in DOMAIN Unread /\ j + k > i + k /\ Unread'[j] = Unread[j + k]
      BY <2>3
    <3> QED
      BY <3>2, <3>3
  <2> QED
    BY <2>1, <2>2, <2>4 DEF SyncInv
<1> QED
  BY <1>1, <1>2, <1>3, <1>4, <1>6, <1>7 DEF HostStep

LEMMA SyncStep ==
    ASSUME Types, CallInv, SyncInv, [Next]_vars
    PROVE  SyncInv'
<1>1. CASE UNCHANGED vars
  BY <1>1 DEF SyncInv, Unread, vars, hostVars, boardVars
<1>2. CASE BoardStep
  <2>1. call' = call
    BY <1>2, EchoIs, ShellIs, OthersSpeak DEF BoardStep, AppReads, AppExits, hostVars
  <2>2. ASSUME call.pc = "sync"
        PROVE  /\ call.marker \in Markers /\ TypedLast(call.marker)' /\ PrintedLast(call.marker)'
    <3>1. PICK m \in Markers : m = call.marker /\ TypedLast(m) /\ PrintedLast(m)
      BY <2>2, SyncParts
    <3>2. TypedLast(m)' /\ PrintedLast(m)'
      BY <1>2, <3>1, SyncBoard
    <3> QED
      BY <2>1, <3>1, <3>2 DEF TypedLast, PrintedLast
  <2> QED
    BY <2>1, <2>2 DEF SyncInv, TypedLast, PrintedLast
<1> QED
  BY <1>1, <1>2, SyncHost DEF Next

-----------------------------------------------------------------------------
(***************************************************************************)
(* The theorems.                                                           *)
(***************************************************************************)
LEMMA InitInv == Init => IInv
BY TypeInit, CallInit, StartInit, SyncInit, ReadyInit, AnswerInit DEF IInv

LEMMA StepInv == IInv /\ [Next]_vars => IInv'
BY TypeStep, CallStep, StartStep, SyncStep, ReadyStep, AnswerStep DEF IInv

(***************************************************************************)
(* In every reachable state the parts of the invariant hold: where each    *)
(* method of the controller stands, and what the lines in flight between   *)
(* host and board can mean for it.                                         *)
(***************************************************************************)
THEOREM ControllerInvariant == Spec => []IInv
BY InitInv, StepInv, PTL DEF Spec

(***************************************************************************)
(* The controller and the board keep their types.                          *)
(***************************************************************************)
THEOREM ControllerTypes == Spec => []TypeOK
<1>1. IInv => TypeOK
  BY TypesEnough DEF IInv
<1> QED
  BY ControllerInvariant, <1>1, PTL

(***************************************************************************)
(* The start command that StartApplication types is only ever read by an   *)
(* idle shell, and never queued twice, whatever earlier dialogues left in  *)
(* flight on the line.                                                     *)
(***************************************************************************)
THEOREM ControllerStartMeetsShell == Spec => []StartMeetsShell
<1> DEFINE starts == {i \in DOMAIN stdin : stdin[i] = Line("start")}
<1>1. ASSUME StartInv
      PROVE  StartMeetsShell
  <2>1. \A i, j \in starts : i = j
    BY <1>1 DEF StartInv, IsStart
  <2>2. starts # {} => board = "shell"
    BY <1>1 DEF StartInv, IsStart
  <2> HIDE DEF starts
  <2>3. Cardinality(starts) <= 1
    <3>1. CASE starts = {}
      BY <3>1, FS_EmptySet
    <3>2. CASE starts # {}
      <4>1. PICK i \in starts : TRUE
        BY <3>2
      <4>2. starts = {i}
        BY <2>1, <4>1
      <4> QED
        BY <4>2, FS_Singleton
    <3> QED
      BY <3>1, <3>2
  <2> QED
    BY <2>2, <2>3 DEF StartMeetsShell, starts
<1>2. IInv => StartMeetsShell
  BY <1>1 DEF IInv
<1> QED
  BY ControllerInvariant, <1>2, PTL

(***************************************************************************)
(* What a method answers is true of the board: a start that returns true   *)
(* to a caller that confirmed the mode has seen the application own the    *)
(* board since the call, a stop leaves the shell at the terminal, and a    *)
(* list, a status, a synchronisation or a probe has found the shell there. *)
(***************************************************************************)
THEOREM ControllerAnswersTrue == Spec => []AnswersTrue
<1>1. IInv => StartIsTrue
  BY DEF IInv, AnswerInv
<1>2. IInv => StopIsTrue
  BY DEF IInv, AnswerInv, StopIsTrue, ShellKept
<1>3. IInv => ConsoleIsTrue
  BY DEF IInv, AnswerInv, ConsoleIsTrue, ShellKept
<1>4. IInv => AnswersTrue
  BY <1>1, <1>2, <1>3 DEF AnswersTrue
<1> QED
  BY ControllerInvariant, <1>4, PTL

-----------------------------------------------------------------------------
(***************************************************************************)
(* The promise of BoardDialogue.  What is typed, and what is read of it,   *)
(* tells whether a start command is on its way.                            *)
(***************************************************************************)
LEMMA TypeOrders ==
    ASSUME Types, NEW lines \in Seq(Typed), Type(lines)
    PROVE  Ordered' <=> Ordered \/ \E i \in 1..Len(lines) : lines[i] = Line("start")
<1>1. /\ stdin' \in Seq(Typed) /\ Len(stdin') = Len(stdin) + Len(lines)
      /\ Len(stdin) \in Nat /\ Len(lines) \in Nat
      /\ \A i \in 1..Len(stdin) + Len(lines) :
            stdin'[i] = IF i <= Len(stdin) THEN stdin[i] ELSE lines[i - Len(stdin)]
  BY TypeTypes
<1>2. DOMAIN stdin' = 1..Len(stdin) + Len(lines) /\ DOMAIN stdin = 1..Len(stdin)
  BY <1>1, LenProperties DEF Types
<1>3. ASSUME NEW i \in DOMAIN stdin', stdin'[i] = Line("start")
      PROVE  Ordered \/ \E j \in 1..Len(lines) : lines[j] = Line("start")
  <2>1. CASE i <= Len(stdin)
    <3>1. i \in DOMAIN stdin /\ stdin[i] = Line("start")
      BY <1>1, <1>2, <1>3, <2>1
    <3> QED
      BY <3>1 DEF Ordered
  <2>2. CASE ~(i <= Len(stdin))
    <3>1. i - Len(stdin) \in 1..Len(lines) /\ lines[i - Len(stdin)] = Line("start")
      BY <1>1, <1>2, <1>3, <2>2
    <3> QED
      BY <3>1
  <2> QED
    BY <2>1, <2>2
<1>4. ASSUME NEW i \in DOMAIN stdin, stdin[i] = Line("start")
      PROVE  Ordered'
  <2>1. i \in DOMAIN stdin' /\ stdin'[i] = Line("start")
    BY <1>1, <1>2, <1>4
  <2> QED
    BY <2>1 DEF Ordered
<1>5. ASSUME NEW j \in 1..Len(lines), lines[j] = Line("start")
      PROVE  Ordered'
  <2>1. j + Len(stdin) \in DOMAIN stdin' /\ ~(j + Len(stdin) <= Len(stdin)) /\ (j + Len(stdin)) - Len(stdin) = j
    BY <1>1, <1>2
  <2>2. stdin'[j + Len(stdin)] = Line("start")
    BY <1>1, <1>2, <1>5, <2>1
  <2> QED
    BY <2>1, <2>2 DEF Ordered
<1> QED
  BY <1>3, <1>4, <1>5 DEF Ordered

LEMMA SameOrders == UNCHANGED stdin => Ordered' = Ordered
BY DEF Ordered

\* The other lines are no commands.
LEMMA OtherOrders ==
    ASSUME Types, \/ TypeMarker \/ Type(<<Line("quit")>>)
                  \/ /\ call.name \in {"list", "status"} /\ call.marker \in Markers
                     /\ Type(<<Line(call.name), Marker(call.marker)>>)
    PROVE  Ordered' = Ordered
<1>1. ASSUME NEW lines \in Seq(Typed), Type(lines), \A i \in 1..Len(lines) : lines[i] # Line("start")
      PROVE  Ordered' = Ordered
  <2>1. Ordered' <=> Ordered
    BY <1>1, TypeOrders
  <2>2. Ordered \in BOOLEAN /\ Ordered' \in BOOLEAN
    BY DEF Ordered
  <2> QED
    BY <2>1, <2>2
<1>2. ASSUME NEW m \in Markers, Type(<<Marker(m)>>)
      PROVE  Ordered' = Ordered
  <2> DEFINE lines == <<Marker(m)>>
  <2>1. lines \in Seq(Typed) /\ \A i \in 1..Len(lines) : lines[i] # Line("start")
    BY LineTypes, TypedTypes DEF Line, Marker
  <2>2. Type(lines)
    BY <1>2
  <2> HIDE DEF lines
  <2> QED
    BY <1>1, <2>1, <2>2
<1>3. CASE Type(<<Line("quit")>>)
  <2> DEFINE lines == <<Line("quit")>>
  <2>1. lines \in Seq(Typed) /\ \A i \in 1..Len(lines) : lines[i] # Line("start")
    BY LineTypes, TypedTypes DEF Line
  <2>2. Type(lines)
    BY <1>3
  <2> HIDE DEF lines
  <2> QED
    BY <1>1, <2>1, <2>2
<1>4. CASE /\ call.name \in {"list", "status"} /\ call.marker \in Markers
           /\ Type(<<Line(call.name), Marker(call.marker)>>)
  <2> DEFINE lines == <<Line(call.name), Marker(call.marker)>>
  <2>1. Line(call.name) \in Typed /\ Marker(call.marker) \in Typed
    BY <1>4, LineTypes
  <2>2. lines \in Seq(Typed) /\ \A i \in 1..Len(lines) : lines[i] # Line("start")
    BY <1>4, <2>1, TypedTypes DEF Line, Marker
  <2>3. Type(lines)
    BY <1>4
  <2> HIDE DEF lines
  <2> QED
    BY <1>1, <2>2, <2>3
<1> QED
  BY <1>2, <1>3, <1>4 DEF TypeMarker

LEMMA EchoOrders ==
    ASSUME Types, TerminalEchoes
    PROVE  Ordered' = Ordered
<1>1. PICK k \in DOMAIN stdin : /\ stdin[k].kind = "marker"
                                /\ stdin' = [stdin EXCEPT ![k] = Echoed(stdin[k].marker)]
                                /\ DOMAIN stdin' = DOMAIN stdin
  BY EchoIs
<1>2. \A i \in DOMAIN stdin : stdin'[i] = IF i = k THEN Echoed(stdin[k].marker) ELSE stdin[i]
  BY <1>1
<1>3. Echoed(stdin[k].marker) # Line("start") /\ stdin[k] # Line("start")
  BY <1>1 DEF Echoed, Line
<1>4. \A i \in DOMAIN stdin : stdin'[i] = Line("start") <=> stdin[i] = Line("start")
  BY <1>2, <1>3
<1> QED
  BY <1>1, <1>4 DEF Ordered

\* A command is read once, by the shell it was typed for.
LEMMA ReadOrders ==
    ASSUME Types, StartInv, stdin # <<>>, stdin' = Tail(stdin)
    PROVE  /\ Head(stdin) = Line("start") => Ordered = TRUE /\ Ordered' = FALSE
           /\ Head(stdin) # Line("start") => Ordered' = Ordered
<1>1. /\ Len(stdin) \in Nat \ {0} /\ Len(stdin') = Len(stdin) - 1
      /\ DOMAIN stdin = 1..Len(stdin) /\ DOMAIN stdin' = 1..Len(stdin')
      /\ \A i \in 1..Len(stdin') : stdin'[i] = stdin[i+1]
      /\ Head(stdin) = stdin[1]
  BY TailIs
<1>2. ASSUME NEW i \in DOMAIN stdin', stdin'[i] = Line("start")
      PROVE  Ordered /\ Head(stdin) # Line("start")
  <2>1. i + 1 \in DOMAIN stdin /\ stdin[i+1] = Line("start") /\ i + 1 # 1
    BY <1>1, <1>2
  <2>2. stdin[1] # Line("start")
    BY <1>1, <2>1 DEF StartInv, IsStart
  <2> QED
    BY <1>1, <2>1, <2>2 DEF Ordered
<1>3. ASSUME NEW i \in DOMAIN stdin, stdin[i] = Line("start"), Head(stdin) # Line("start")
      PROVE  Ordered'
  <2>1. i # 1
    BY <1>1, <1>3
  <2>2. i - 1 \in DOMAIN stdin' /\ (i - 1) + 1 = i
    BY <1>1, <2>1
  <2>3. stdin'[i - 1] = Line("start")
    BY <1>1, <1>3, <2>2
  <2> QED
    BY <2>2, <2>3 DEF Ordered
<1>4. Head(stdin) = Line("start") => Ordered
  BY <1>1 DEF Ordered
<1>5. Ordered \in BOOLEAN /\ Ordered' \in BOOLEAN
  BY DEF Ordered
<1>6. Ordered' => Ordered /\ Head(stdin) # Line("start")
  BY <1>2 DEF Ordered
<1>7. Ordered /\ Head(stdin) # Line("start") => Ordered'
  BY <1>3 DEF Ordered
<1> QED
  BY <1>4, <1>5, <1>6, <1>7

\* What a dialogue's reader cannot see changes nothing.
LEMMA Stutters ==
    ASSUME UNCHANGED <<board, Ordered, ran, call, answer, mode, given>>
    PROVE  UNCHANGED Dialogue!vars
BY DEF Dialogue!vars, Dialogue!known

LEMMA DialogueBegins == Init => Dialogue!Init
<1> SUFFICES ASSUME Init PROVE Dialogue!Init
  OBVIOUS
<1>1. Ordered = FALSE
  BY DEF Init, Ordered
<1>2. mode \in Modes /\ given = mode /\ call.name = "none" /\ answer = Dialogue!NoAnswer
  BY TypeInit DEF Init, Types, NoCall, NoAnswer, Dialogue!NoAnswer
<1> QED
  BY <1>1, <1>2 DEF Init, Dialogue!Init, Dialogue!InitTerminal, Dialogue!Beliefs, Modes

\* The board's steps.
LEMMA DialogueOfBoard ==
    ASSUME Types, StartInv, StartInv', BoardStep
    PROVE  [Dialogue!Next]_Dialogue!vars
<1>1. UNCHANGED <<mode, given, call, answer>>
  BY EchoIs, ShellIs, OthersSpeak DEF BoardStep, AppReads, AppExits, hostVars
<1>2. UNCHANGED Dialogue!known
  BY <1>1 DEF Dialogue!known
<1>3. CASE TerminalEchoes
  <2>1. UNCHANGED <<board, ran, Ordered>>
    BY <1>3, EchoIs, EchoOrders DEF boardVars
  <2> QED
    BY <1>1, <2>1, Stutters
<1>4. CASE ShellReads
  <2>1. /\ board = "shell" /\ stdin # <<>> /\ stdin' = Tail(stdin) /\ ran' = ran
        /\ board' = IF Head(stdin) = Line("start") THEN "launch" ELSE "shell"
    BY <1>4, ShellIs DEF ShellReads
  <2>2. CASE Head(stdin) = Line("start")
    <3>1. Dialogue!Obey
      BY <1>2, <2>1, <2>2, ReadOrders DEF Dialogue!Obey, Dialogue!Launch, Dialogue!Hands
    <3> QED
      BY <3>1 DEF Dialogue!Next
  <2>3. CASE Head(stdin) # Line("start")
    BY <1>1, <2>1, <2>3, ReadOrders, Stutters
  <2> QED
    BY <2>2, <2>3
<1>5. CASE AppReads
  <2>1. board = "app" /\ stdin # <<>> /\ stdin' = Tail(stdin) /\ ran' = ran /\ board' \in {"exit", "app"}
    BY <1>5 DEF AppReads
  <2>2. Ordered' = Ordered
    <3>1. 1 \in DOMAIN stdin /\ Head(stdin) = stdin[1]
      BY <2>1, TailIs
    <3>2. stdin[1] # Line("start")
      BY <2>1, <3>1 DEF StartInv, IsStart
    <3> QED
      BY <2>1, <3>1, <3>2, ReadOrders
  <2>3. CASE board' = "app"
    BY <1>1, <2>1, <2>2, <2>3, Stutters
  <2>4. CASE board' = "exit"
    <3>1. Dialogue!Move
      BY <1>2, <2>1, <2>2, <2>4 DEF Dialogue!Move, Dialogue!Return, Dialogue!Quit, Dialogue!Hands, Types
    <3> QED
      BY <3>1 DEF Dialogue!Next
  <2> QED
    BY <2>1, <2>3, <2>4
<1>6. CASE AppRequests \/ Chatter
  <2>1. UNCHANGED <<board, ran, stdin>>
    BY <1>6 DEF AppRequests, Chatter, boardVars
  <2> QED
    BY <1>1, <2>1, SameOrders, Stutters
<1>7. CASE Launches \/ AppExits \/ AppctlEnds
  <2>1. Ordered' = Ordered
    BY <1>7, SameOrders DEF Launches, AppExits, AppctlEnds
  <2>2. /\ <<board, board'>> \in {<<"launch", "app">>, <<"launch", "shell">>, <<"app", "exit">>, <<"exit", "shell">>}
        /\ ran' = (ran \/ board' = "app")
    BY <1>7 DEF Launches, AppExits, AppctlEnds, Types
  <2>3. Dialogue!Move
    BY <1>2, <2>1, <2>2 DEF Dialogue!Move, Dialogue!Return, Dialogue!Refuse, Dialogue!Ready, Dialogue!Quit,
                            Dialogue!Restore, Dialogue!Hands
  <2> QED
    BY <2>3 DEF Dialogue!Next
<1> QED
  BY <1>3, <1>4, <1>5, <1>6, <1>7 DEF BoardStep

\* The host's steps: what an answer is worth follows from the invariant.
LEMMA DialogueAnswers ==
    ASSUME Types, CallInv, AnswerInv', NEW ok \in BOOLEAN, Return(ok), call # NoCall,
           UNCHANGED <<board, ran, stdin, given>>,
           IF ok THEN mode' = (IF call.name = "start" THEN "Application" ELSE "Console")
                 ELSE mode' \in {mode, "Application"}
    PROVE  [Dialogue!Next]_Dialogue!vars
<1>1. /\ call'.name = "none" /\ answer' = [name |-> call.name, ok |-> ok] /\ Ordered' = Ordered
      /\ call.name \in Calls \cup {"none"} /\ Calls \subseteq Names
  BY SameOrders, NamesAre DEF Return, NoCall, Types
<1>2. CASE call.name = "none"
  BY <1>1, <1>2 DEF CallInv, Types, NoCall
<1>3. CASE call.name # "none"
  <2>1. ASSUME ok
        PROVE  Dialogue!True(call.name)
    <3>1. answer'.ok /\ answer'.name = call.name
      BY <1>1, <2>1
    <3>2. call.name = "start" /\ given # "Unknown" => ran
      BY <1>1, <2>1 DEF AnswerInv, StartIsTrue
    <3>3. call.name # "start" /\ ~(call.name = "stop" /\ given = "Unknown") => board = "shell" /\ ~Ordered
      BY <1>1, <1>3, <3>1 DEF AnswerInv, ShellKept, IsStart, Ordered, Names
    <3> QED
      BY <3>2, <3>3 DEF Dialogue!True, Dialogue!Idle
  <2>2. Dialogue!Answer(ok)
    BY <1>1, <1>3, <2>1 DEF Dialogue!Answer, Dialogue!Confirms
  <2> QED
    BY <2>2 DEF Dialogue!Next
<1> QED
  BY <1>2, <1>3

\* A step inside a method changes the mode at most.
LEMMA DialogueLearns ==
    ASSUME UNCHANGED <<board, Ordered, ran, call.name, answer, given>>, call.name # "none",
           mode' \in {mode, "Console", "Application"}
    PROVE  [Dialogue!Next]_Dialogue!vars
<1>1. CASE mode' = mode
  BY <1>1 DEF Dialogue!vars, Dialogue!known
<1>2. CASE mode' \in {"Console", "Application"}
  <2>1. Dialogue!Learn
    BY <1>2 DEF Dialogue!Learn
  <2> QED
    BY <2>1 DEF Dialogue!Next
<1> QED
  BY <1>1, <1>2

LEMMA DialogueOfHost ==
    ASSUME Types, CallInv, SyncInv, AnswerInv', HostStep
    PROVE  [Dialogue!Next]_Dialogue!vars
<1>0. call # NoCall => call.name # "none" /\ call.pc # "idle"
  BY DEF CallInv, Types, NoCall
<1>1. ASSUME NEW m \in Confirmed, NewController(m)
      PROVE  [Dialogue!Next]_Dialogue!vars
  <2>1. /\ call = NoCall /\ call' = NoCall /\ answer' = NoAnswer /\ mode' = m /\ given' = m
        /\ UNCHANGED <<board, ran, stdin>> /\ m \in Modes
    BY <1>1, ControllerAssumption DEF NewController, boardVars, Modes
  <2>2. Dialogue!NewController
    BY <2>1, SameOrders
       DEF Dialogue!NewController, Dialogue!NoAnswer, NoAnswer, NoCall, Dialogue!Beliefs, Modes
  <2> QED
    BY <2>2 DEF Dialogue!Next
<1>2. ASSUME NEW name \in Calls, Begin(name)
      PROVE  [Dialogue!Next]_Dialogue!vars
  <2>1. /\ call = NoCall /\ call'.name = name /\ answer' = NoAnswer /\ ran' = (board = "app")
        /\ UNCHANGED <<mode, given, board, stdin>>
    BY <1>2 DEF Begin
  <2>2. Dialogue!Call(name)
    BY <2>1, SameOrders DEF Dialogue!Call, Dialogue!NoAnswer, NoAnswer, NoCall
  <2> QED
    BY <2>2 DEF Dialogue!Next
<1>3. CASE Decide
  <2>1. call.pc = "decide" /\ call # NoCall /\ UNCHANGED <<mode, given, board, ran>>
    BY <1>3 DEF Decide, boardVars, CallInv, NoCall
  <2>2. CASE TypeMarker
    <3>1. call'.name = call.name /\ answer' = answer
      BY <2>2, TypeMarkerIs
    <3> QED
      BY <1>0, <2>1, <2>2, <3>1, OtherOrders, DialogueLearns
  <2>3. CASE Type(<<Line("quit")>>) /\ Goto("stopping")
    <3>1. call'.name = call.name /\ answer' = answer
      BY <2>3, GotoIs DEF Pcs
    <3> QED
      BY <1>0, <2>1, <2>3, <3>1, OtherOrders, DialogueLearns
  <2>4. CASE Return(FALSE) /\ UNCHANGED stdin
    BY <2>1, <2>4, DialogueAnswers
  <2>5. CASE /\ \/ call.name = "start" /\ mode = "Application"
                \/ call.name = "stop" /\ mode = "Console"
             /\ Return(TRUE) /\ UNCHANGED stdin
    BY <2>1, <2>5, DialogueAnswers
  <2> QED
    BY <1>3, <2>2, <2>3, <2>4, <2>5 DEF Decide
<1>4. CASE ObserveEnds
  <2>1. call'.name = call.name /\ call.pc = "observe" /\ UNCHANGED <<answer, mode, given, board, ran, stdin>>
    BY <1>4, GotoIs DEF ObserveEnds, boardVars, Pcs
  <2> QED
    BY <1>0, <2>1, SameOrders, DialogueLearns DEF NoCall
<1>5. CASE TimesOut
  <2>1. Return(FALSE) /\ UNCHANGED <<mode, given, board, ran, stdin>>
    BY <1>5 DEF TimesOut, boardVars
  <2>2. call # NoCall
    BY <1>5 DEF TimesOut, NoCall
  <2> QED
    BY <2>1, <2>2, DialogueAnswers
<1>6. ASSUME NEW n \in 1..Len(rx), ObserveReads(n)
      PROVE  [Dialogue!Next]_Dialogue!vars
  <2>1. /\ call # NoCall /\ UNCHANGED <<given, board, ran, stdin>>
        /\ mode' \in {mode, "Console", "Application"}
        /\ Goto("decide") \/ UNCHANGED <<call, answer>>
    BY <1>6 DEF ObserveReads, boardVars, NoCall
  <2>2. call'.name = call.name /\ answer' = answer
    BY <2>1, GotoIs DEF Pcs
  <2> QED
    BY <1>0, <2>1, <2>2, SameOrders, DialogueLearns
<1>7. ASSUME NEW n \in 1..Len(rx), SyncReads(n)
      PROVE  [Dialogue!Next]_Dialogue!vars
  <2>1. /\ call # NoCall /\ UNCHANGED <<given, board, ran>>
        /\ SyncMisses(n) \/ SyncLoses \/ SyncFinds
    BY <1>7, SyncIs DEF NoCall
  <2>2. CASE SyncMisses(n)
    BY <2>1, <2>2, SameOrders, Stutters DEF SyncMisses
  <2>3. CASE SyncLoses
    BY <2>1, <2>3, DialogueAnswers DEF SyncLoses
  <2>4. CASE SyncFinds /\ call.name = "start" /\ Type(<<Line("start")>>) /\ Goto("ready")
    <3>1. /\ stdin = <<>> /\ board = "shell" /\ mode' = "Console" /\ call'.name = call.name /\ answer' = answer
      BY <2>4, GotoIs DEF SyncFinds, Pcs
    <3>2. Ordered = FALSE
      BY <3>1 DEF Ordered
    <3>3. Ordered' = TRUE
      <4> DEFINE lines == <<Line("start")>>
      <4>1. lines \in Seq(Typed) /\ 1 \in 1..Len(lines) /\ lines[1] = Line("start")
        BY LineTypes, TypedTypes
      <4>2. Type(lines)
        BY <2>4
      <4> HIDE DEF lines
      <4>3. Ordered'
        BY <4>1, <4>2, TypeOrders
      <4> QED
        BY <4>3 DEF Ordered
    <3>4. Dialogue!Command
      BY <2>1, <2>4, <3>1, <3>2, <3>3 DEF Dialogue!Command, Dialogue!Idle
    <3> QED
      BY <3>4 DEF Dialogue!Next
  <2>5. CASE /\ SyncFinds /\ call.name \in {"list", "status"} /\ Goto("output")
             /\ Type(<<Line(call.name), Marker(call.marker)>>)
    <3>1. mode' = "Console" /\ call'.name = call.name /\ answer' = answer /\ call.marker \in Markers
      BY <2>5, GotoIs DEF SyncFinds, Pcs
    <3> QED
      BY <1>0, <2>1, <2>5, <3>1, OtherOrders, DialogueLearns
  <2>6. CASE /\ SyncFinds /\ call.name \notin {"start", "list", "status"}
             /\ Return(TRUE) /\ UNCHANGED stdin
    BY <2>1, <2>6, DialogueAnswers DEF SyncFinds
  <2> QED
    BY <2>1, <2>2, <2>3, <2>4, <2>5, <2>6 DEF SyncFinds
<1>8. ASSUME NEW n \in 1..Len(rx), ReadyReads(n)
      PROVE  [Dialogue!Next]_Dialogue!vars
  <2>1. /\ call # NoCall /\ call.name = "start" /\ UNCHANGED <<given, board, ran, stdin>>
        /\ \/ UNCHANGED <<mode, call, answer>>
           \/ mode' = "Application" /\ Return(TRUE)
    BY <1>8 DEF ReadyReads, CallInv, NoCall, boardVars
  <2> QED
    BY <2>1, SameOrders, Stutters, DialogueAnswers
<1>9. ASSUME NEW n \in 1..Len(rx), StopReads(n)
      PROVE  [Dialogue!Next]_Dialogue!vars
  <2>1. /\ call # NoCall /\ UNCHANGED <<given, board, ran>>
        /\ \/ UNCHANGED <<mode, call, answer, stdin>>
           \/ mode' = "Console" /\ TypeMarker
    BY <1>9 DEF StopReads, NoCall, boardVars
  <2>2. CASE UNCHANGED <<mode, call, answer, stdin>>
    BY <2>1, <2>2, SameOrders, Stutters
  <2>3. CASE mode' = "Console" /\ TypeMarker
    <3>1. call'.name = call.name /\ answer' = answer
      BY <2>3, TypeMarkerIs
    <3> QED
      BY <1>0, <2>1, <2>3, <3>1, OtherOrders, DialogueLearns
  <2> QED
    BY <2>1, <2>2, <2>3
<1>10. ASSUME NEW n \in 1..Len(rx), OutputReads(n)
      PROVE  [Dialogue!Next]_Dialogue!vars
  <2>1. /\ call # NoCall /\ call.name \in {"list", "status"} /\ mode = "Console"
        /\ UNCHANGED <<mode, given, board, ran, stdin>>
        /\ UNCHANGED <<call, answer>> \/ \E ok \in BOOLEAN : Return(ok)
    BY <1>10 DEF OutputReads, CallInv, NoCall, boardVars
  <2> QED
    BY <2>1, SameOrders, Stutters, DialogueAnswers
<1> QED
  BY <1>1, <1>2, <1>3, <1>4, <1>5, <1>6, <1>7, <1>8, <1>9, <1>10 DEF HostStep

(***************************************************************************)
(* The controller and the board implement BoardDialogue: whatever lines    *)
(* are in flight, only a start commands one, of an idle board; the board   *)
(* changes hands as BoardTerminal says; and a method that returns true has *)
(* said what is so and leaves the mode it confirmed (BoardController.cs).  *)
(***************************************************************************)
THEOREM ControllerKeepsDialogue == Spec => KeepsDialogue
<1>1. IInv /\ IInv' /\ [Next]_vars => [Dialogue!Next]_Dialogue!vars
  <2> SUFFICES ASSUME IInv, IInv', [Next]_vars PROVE [Dialogue!Next]_Dialogue!vars
    OBVIOUS
  <2>1. CASE UNCHANGED vars
    BY <2>1, SameOrders, Stutters DEF vars, hostVars, boardVars
  <2> QED
    BY <2>1, DialogueOfBoard, DialogueOfHost DEF Next, IInv
<1> QED
  BY <1>1, DialogueBegins, ControllerInvariant, PTL DEF Spec, KeepsDialogue, Dialogue!Spec
=============================================================================
