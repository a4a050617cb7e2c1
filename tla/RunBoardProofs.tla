----------------------------- MODULE RunBoardProofs -----------------------------
(*****************************************************************************)
(* What the runboard screen shows comes from one frame, and what a frame      *)
(* calls fresh is: for any intervals of the providers, any size of the line's *)
(* buffer, any loss of bytes on the line, and whenever the clock steps back.  *)
(*****************************************************************************)
EXTENDS RunBoard, FiniteSetTheorems, SequenceTheorems, TLAPS

-----------------------------------------------------------------------------
(*****************************************************************************)
(* The inductive invariant, in parts.                                         *)
(*****************************************************************************)

\* What the host knows.
States == {"fresh", "stale", "offline", "error"}
HostTypes ==
    /\ state \in [Providers -> States] /\ failures \in [Providers -> Nat]
    /\ DOMAIN due \subseteq Providers /\ \A p \in DOMAIN due : due[p] \in Int
    /\ DOMAIN claimed \subseteq Providers /\ \A p \in DOMAIN claimed : claimed[p] \in Int
    /\ DOMAIN age = DOMAIN claimed /\ \A p \in DOMAIN age : age[p] \in Int
    /\ kept \in Readings \cup {"none"} /\ stepped \in BOOLEAN

\* What goes over the line, and what of it is kept.
Frames == [experiments : Readings \cup {"none"}, status : {"offline", "online"},
           fresh : [Providers -> States], updated : Int]
Parts == {"head", "server", "codex", "experiments", "tail"}
AllCells == [part : Parts, frame : Frames] \cup {Newline, Quit}
LineTypes ==
    /\ wire \in Seq(AllCells) /\ line \in Seq(AllCells)
    /\ overflow \in BOOLEAN /\ (overflow => Len(line) = LineMax)

\* A provider that is called fresh is asked again before it is too old for
\* that, unless it is so late already that no step of the clock can save it.
FreshInv ==
    \A p \in Providers : state[p] = "fresh" =>
        /\ p \in DOMAIN due /\ p \in DOMAIN age
        /\ \/ due[p] <= -(Back - Late)
           \/ age[p] + due[p] <= Every[p] + Late

\* The clock makes a success look younger by no more than its step.
ClaimInv == \A p \in DOMAIN age : claimed[p] + Late >= age[p]

IInv == HostTypes /\ LineTypes /\ FreshInv /\ ClaimInv /\ ShownWhole

-----------------------------------------------------------------------------
(*****************************************************************************)
(* The host.                                                                  *)
(*****************************************************************************)
LEMMA ConstantsAre ==
    /\ \A p \in Providers : Every[p] \in Nat /\ Every[p] > 0
    /\ OfflineAfter \in Nat /\ Back \in Nat /\ AgeMax \in Nat
BY HostAssumption DEF Providers

LEMMA LateIs == HostTypes => Late \in Nat /\ Late <= Back /\ (stepped => Late = Back) /\ (~stepped => Late = 0)
BY ConstantsAre DEF Late, HostTypes

\* A cap keeps the order of two times, up to what one lags behind.
LEMMA CappedIs ==
    ASSUME NEW m \in Int, NEW n \in Int, NEW late \in Nat, m + late >= n
    PROVE  /\ Capped(m) \in Int /\ Capped(n) \in Int /\ Capped(n) <= n
           /\ Capped(m) + late >= Capped(n)
BY ConstantsAre DEF Capped

\* A due time is left alone, or stays one that is long past.
LEMMA EarlierIs ==
    ASSUME NEW p \in Providers, NEW n \in Int
    PROVE  Earlier(p, n) \in Int /\ (Earlier(p, n) = n \/ (n <= -Back /\ Earlier(p, n) <= -Back))
BY ConstantsAre DEF Earlier

LEMMA ScheduledIs ==
    ASSUME HostTypes, NEW p \in Providers
    PROVE  Scheduled(p) \in Int /\ Scheduled(p) <= Every[p]
<1>1. ASSUME p \in DOMAIN due
      PROVE  due[p] % Every[p] \in Int /\ due[p] % Every[p] <= Every[p]
  <2>1. due[p] \in Int /\ Every[p] \in Nat /\ Every[p] > 0
    BY <1>1, ConstantsAre DEF HostTypes
  <2> DEFINE n == due[p]  e == Every[p]
  <2>2. n \in Int /\ e \in Nat \ {0}
    BY <2>1
  <2> HIDE DEF n, e
  <2>3. n % e \in 0..e - 1
    BY <2>2
  <2> QED
    BY <2>2, <2>3 DEF n, e
<1> QED
  BY <1>1, ConstantsAre DEF Scheduled

LEMMA HostInitInv == HostInit => HostTypes /\ FreshInv /\ ClaimInv
<1> SUFFICES ASSUME HostInit PROVE HostTypes /\ FreshInv /\ ClaimInv
  OBVIOUS
<1>1. DOMAIN due = {} /\ DOMAIN claimed = {} /\ DOMAIN age = {}
  BY DEF HostInit
<1>2. HostTypes
  BY <1>1 DEF HostInit, HostTypes, Unasked, Zeros, States
<1>3. FreshInv /\ ClaimInv
  BY <1>1 DEF HostInit, FreshInv, ClaimInv, Unasked
<1> QED
  BY <1>2, <1>3

LEMMA HostGoneInv ==
    ASSUME HostTypes, HostGone
    PROVE  HostTypes' /\ FreshInv' /\ ClaimInv'
<1>1. DOMAIN due' = {} /\ DOMAIN claimed' = {} /\ DOMAIN age' = {}
  BY DEF HostGone
<1>2. HostTypes'
  BY <1>1 DEF HostGone, HostTypes, Unasked, Zeros, States
<1>3. FreshInv' /\ ClaimInv'
  BY <1>1 DEF HostGone, FreshInv, ClaimInv, Unasked
<1> QED
  BY <1>2, <1>3

LEMMA PassInv ==
    ASSUME HostTypes, FreshInv, ClaimInv, NEW time \in Nat, Pass(time)
    PROVE  HostTypes' /\ FreshInv' /\ ClaimInv'
<1>1. /\ DOMAIN due' = DOMAIN due /\ DOMAIN claimed' = DOMAIN claimed /\ DOMAIN age' = DOMAIN age
      /\ \A p \in DOMAIN due : due'[p] = Earlier(p, due[p] - time)
      /\ \A p \in DOMAIN claimed : claimed'[p] = Capped(claimed[p] + time)
      /\ \A p \in DOMAIN age : age'[p] = Capped(age[p] + time)
      /\ UNCHANGED <<state, failures, kept, stepped>>
  BY DEF Pass
<1>2. Late \in Nat /\ Late <= Back /\ Late' = Late /\ Back \in Nat
  BY <1>1, LateIs, ConstantsAre DEF Late
<1>3. HostTypes'
  <2>1. \A p \in DOMAIN due' : due'[p] \in Int
    BY <1>1, EarlierIs DEF HostTypes
  <2>2. \A n \in Int : Capped(n) \in Int
    BY ConstantsAre DEF Capped
  <2>3. /\ \A p \in DOMAIN claimed' : claimed'[p] \in Int
        /\ \A p \in DOMAIN age' : age'[p] \in Int
    BY <1>1, <2>2 DEF HostTypes
  <2> QED
    BY <1>1, <2>1, <2>3 DEF HostTypes
<1>4. ASSUME NEW p \in Providers, state'[p] = "fresh"
      PROVE  /\ p \in DOMAIN due' /\ p \in DOMAIN age'
             /\ due'[p] <= -(Back - Late') \/ age'[p] + due'[p] <= Every[p] + Late'
  <2>1. /\ p \in DOMAIN due /\ p \in DOMAIN age /\ due[p] \in Int /\ age[p] \in Int /\ Every[p] \in Nat
        /\ due[p] <= -(Back - Late) \/ age[p] + due[p] <= Every[p] + Late
    BY <1>1, <1>4, ConstantsAre DEF FreshInv, HostTypes
  <2>2. Capped(age[p] + time) \in Int /\ Capped(age[p] + time) <= age[p] + time
    BY <2>1, ConstantsAre DEF Capped
  <2>3. /\ Earlier(p, due[p] - time) \in Int
        /\ \/ Earlier(p, due[p] - time) = due[p] - time
           \/ Earlier(p, due[p] - time) <= -Back
    BY <2>1, EarlierIs
  <2> QED
    BY <1>1, <1>2, <2>1, <2>2, <2>3
<1>5. ASSUME NEW p \in DOMAIN age'
      PROVE  claimed'[p] + Late' >= age'[p]
  <2>1. p \in DOMAIN age /\ p \in DOMAIN claimed /\ age[p] \in Int /\ claimed[p] \in Int /\ claimed[p] + Late >= age[p]
    BY <1>1 DEF HostTypes, ClaimInv
  <2>2. Capped(claimed[p] + time) + Late >= Capped(age[p] + time)
    BY <1>2, <2>1, CappedIs
  <2> QED
    BY <1>1, <1>2, <2>1, <2>2
<1> QED
  BY <1>3, <1>4, <1>5 DEF FreshInv, ClaimInv

LEMMA StepBackInv ==
    ASSUME HostTypes, FreshInv, ClaimInv, StepBack
    PROVE  HostTypes' /\ FreshInv' /\ ClaimInv'
<1>1. /\ DOMAIN due' = DOMAIN due /\ DOMAIN claimed' = DOMAIN claimed
      /\ \A p \in DOMAIN due : due'[p] = due[p] + Back
      /\ \A p \in DOMAIN claimed : claimed'[p] = claimed[p] - Back
      /\ UNCHANGED <<state, failures, age, kept>> /\ ~stepped /\ stepped' = TRUE
  BY DEF StepBack
<1>2. Late = 0 /\ Late' = Back /\ Back \in Nat
  BY <1>1, ConstantsAre DEF Late
<1>3. HostTypes'
  BY <1>1, <1>2 DEF HostTypes
<1>4. ASSUME NEW p \in Providers, state'[p] = "fresh"
      PROVE  /\ p \in DOMAIN due' /\ p \in DOMAIN age'
             /\ due'[p] <= -(Back - Late') \/ age'[p] + due'[p] <= Every[p] + Late'
  <2>1. /\ p \in DOMAIN due /\ p \in DOMAIN age /\ due[p] \in Int /\ age[p] \in Int /\ Every[p] \in Nat
        /\ due[p] <= -(Back - Late) \/ age[p] + due[p] <= Every[p] + Late
    BY <1>1, <1>4, ConstantsAre DEF FreshInv, HostTypes
  <2> QED
    BY <1>1, <1>2, <2>1
<1>5. ASSUME NEW p \in DOMAIN age'
      PROVE  claimed'[p] + Late' >= age'[p]
  <2>1. p \in DOMAIN age /\ p \in DOMAIN claimed /\ age[p] \in Int /\ claimed[p] \in Int /\ claimed[p] + Late >= age[p]
    BY <1>1, <1>5 DEF HostTypes, ClaimInv
  <2> QED
    BY <1>1, <1>2, <2>1
<1> QED
  BY <1>3, <1>4, <1>5 DEF FreshInv, ClaimInv

-----------------------------------------------------------------------------
(*****************************************************************************)
(* A frame.                                                                   *)
(*****************************************************************************)
Asked == {p \in Providers : Due(p)}
Good(outcome) == {p \in Asked : outcome[p] = "ok"}

\* What a collection makes of each provider.
LEMMA CollectIs ==
    ASSUME HostTypes, NEW outcome \in Outcomes, NEW reading \in Readings, Collect(outcome, reading)
    PROVE  /\ DOMAIN due' = Asked \cup DOMAIN due
           /\ \A p \in DOMAIN due' : due'[p] = IF p \in Asked THEN Scheduled(p) ELSE due[p]
           /\ DOMAIN claimed' = Good(outcome) \cup DOMAIN claimed
           /\ \A p \in DOMAIN claimed' : claimed'[p] = IF p \in Good(outcome) THEN 0 ELSE claimed[p]
           /\ DOMAIN age' = Good(outcome) \cup DOMAIN age
           /\ \A p \in DOMAIN age' : age'[p] = IF p \in Good(outcome) THEN 0 ELSE age[p]
           /\ state' \in [Providers -> States]
           /\ \A p \in Providers : state'[p] = "fresh" =>
                 p \in Good(outcome) \/ (p \notin Asked /\ state[p] = "fresh")
           /\ failures' \in [Providers -> Nat] /\ kept' \in Readings \cup {"none"} /\ stepped' = stepped
<1> DEFINE State(p) == IF outcome[p] = "ok" THEN "fresh" ELSE Failed(p, outcome[p] = "error")
           Count(p) == IF outcome[p] = "ok" THEN 0
                       ELSE IF failures[p] < OfflineAfter THEN failures[p] + 1 ELSE failures[p]
<1>1. /\ due' = [p \in Asked \cup DOMAIN due |-> IF p \in Asked THEN Scheduled(p) ELSE due[p]]
      /\ claimed' = [p \in Good(outcome) \cup DOMAIN claimed |-> IF p \in Good(outcome) THEN 0 ELSE claimed[p]]
      /\ age' = [p \in Good(outcome) \cup DOMAIN age |-> IF p \in Good(outcome) THEN 0 ELSE age[p]]
      /\ stepped' = stepped
  BY DEF Collect, Merged, Asked, Good
<1>2. /\ state' = [p \in Asked \cup DOMAIN state |-> IF p \in Asked THEN State(p) ELSE state[p]]
      /\ failures' = [p \in Asked \cup DOMAIN failures |-> IF p \in Asked THEN Count(p) ELSE failures[p]]
      /\ kept' \in {kept, reading}
  BY DEF Collect, Merged, Asked
<1>3. Asked \cup DOMAIN state = Providers /\ Asked \cup DOMAIN failures = Providers
  BY DEF Asked, HostTypes
<1>4. \A p \in Providers : State(p) \in States /\ (State(p) = "fresh" => outcome[p] = "ok")
  BY DEF Failed, States
<1>5. \A p \in Providers : Count(p) \in Nat
  BY DEF HostTypes
<1> HIDE DEF State, Count
<1>6. state' \in [Providers -> States] /\ \A p \in Providers : state'[p] = IF p \in Asked THEN State(p) ELSE state[p]
  BY <1>2, <1>3, <1>4 DEF HostTypes
<1>7. failures' \in [Providers -> Nat]
  BY <1>2, <1>3, <1>5 DEF HostTypes
<1> QED
  BY <1>1, <1>2, <1>4, <1>6, <1>7 DEF HostTypes, Good

LEMMA CollectInv ==
    ASSUME HostTypes, FreshInv, ClaimInv, NEW outcome \in Outcomes, NEW reading \in Readings,
           Collect(outcome, reading)
    PROVE  /\ HostTypes' /\ FreshInv' /\ ClaimInv'
           /\ \A p \in Providers : state'[p] = "fresh" => age'[p] < Every[p] + Late'
<1> DEFINE good == Good(outcome)
<1>1. /\ DOMAIN due' = Asked \cup DOMAIN due
      /\ \A p \in DOMAIN due' : due'[p] = IF p \in Asked THEN Scheduled(p) ELSE due[p]
      /\ DOMAIN claimed' = good \cup DOMAIN claimed
      /\ \A p \in DOMAIN claimed' : claimed'[p] = IF p \in good THEN 0 ELSE claimed[p]
      /\ DOMAIN age' = good \cup DOMAIN age
      /\ \A p \in DOMAIN age' : age'[p] = IF p \in good THEN 0 ELSE age[p]
      /\ state' \in [Providers -> States]
      /\ \A p \in Providers : state'[p] = "fresh" =>
            p \in good \/ (p \notin Asked /\ state[p] = "fresh")
      /\ failures' \in [Providers -> Nat] /\ kept' \in Readings \cup {"none"} /\ stepped' = stepped
  BY CollectIs
<1>2. good \subseteq Asked /\ Asked \subseteq Providers /\ \A p \in Providers \ Asked : p \in DOMAIN due /\ due[p] > 0
  BY DEF Asked, Good, Due, HostTypes
<1> HIDE DEF good
<1>3. Late \in Nat /\ Late <= Back /\ Late' = Late /\ Back \in Nat
  BY <1>1, LateIs, ConstantsAre DEF Late
<1>4. HostTypes'
  <2>1. DOMAIN due' \subseteq Providers /\ \A p \in DOMAIN due' : due'[p] \in Int
    BY <1>1, <1>2, ScheduledIs DEF HostTypes
  <2>2. DOMAIN age' = DOMAIN claimed' /\ DOMAIN claimed' \subseteq Providers
    BY <1>1, <1>2 DEF HostTypes
  <2>3. (\A p \in DOMAIN claimed' : claimed'[p] \in Int) /\ \A p \in DOMAIN age' : age'[p] \in Int
    BY <1>1 DEF HostTypes
  <2> QED
    BY <1>1, <2>1, <2>2, <2>3 DEF HostTypes
<1>5. ASSUME NEW p \in Providers, state'[p] = "fresh"
      PROVE  /\ p \in DOMAIN due' /\ p \in DOMAIN age'
             /\ age'[p] + due'[p] <= Every[p] + Late' \/ due'[p] <= -(Back - Late')
             /\ age'[p] < Every[p] + Late'
  <2>1. CASE p \in good
    <3>1. age'[p] = 0 /\ due'[p] = Scheduled(p) /\ p \in DOMAIN due' /\ p \in DOMAIN age'
      BY <1>1, <1>2, <2>1
    <3>2. Scheduled(p) \in Int /\ Scheduled(p) <= Every[p] /\ Every[p] \in Nat /\ Every[p] > 0
      BY ScheduledIs, ConstantsAre
    <3> QED
      BY <1>3, <3>1, <3>2
  <2>2. CASE p \notin Asked /\ state[p] = "fresh"
    <3>1. /\ p \in DOMAIN due /\ p \in DOMAIN age /\ due[p] \in Int /\ age[p] \in Int /\ due[p] > 0
          /\ due[p] <= -(Back - Late) \/ age[p] + due[p] <= Every[p] + Late
          /\ Every[p] \in Nat
      BY <1>2, <2>2, ConstantsAre DEF FreshInv, HostTypes
    <3>2. age'[p] = age[p] /\ due'[p] = due[p] /\ p \in DOMAIN due' /\ p \in DOMAIN age'
      BY <1>1, <1>2, <2>2, <3>1
    <3> QED
      BY <1>3, <3>1, <3>2
  <2> QED
    BY <1>1, <1>5, <2>1, <2>2
<1>6. ASSUME NEW p \in DOMAIN age'
      PROVE  claimed'[p] + Late' >= age'[p]
  <2>1. p \in DOMAIN claimed' /\ (p \notin good => p \in DOMAIN age)
    BY <1>1, <1>4, <1>6 DEF HostTypes
  <2>2. CASE p \in good
    BY <1>1, <1>3, <1>6, <2>1, <2>2
  <2>3. CASE p \notin good
    BY <1>1, <1>3, <1>6, <2>1, <2>3 DEF ClaimInv
  <2> QED
    BY <2>2, <2>3
<1> QED
  BY <1>4, <1>5, <1>6 DEF FreshInv, ClaimInv

\* The age in a frame is at least the one claimed for the server's data.
UpdatedTrue ==
    /\ updated_age_seconds \in Int
    /\ "server" \in DOMAIN claimed => updated_age_seconds >= claimed["server"]
LEMMA UpdatedIs == HostTypes => UpdatedTrue
<1> SUFFICES ASSUME HostTypes PROVE UpdatedTrue
  OBVIOUS
<1> DEFINE ages == {Zero(claimed[p]) : p \in DOMAIN claimed}
<1>1. \A p \in DOMAIN claimed : Zero(claimed[p]) \in Int /\ Zero(claimed[p]) >= claimed[p]
  BY DEF HostTypes, Zero
<1>2. CASE server_status = "offline"
  BY <1>1, <1>2 DEF updated_age_seconds, UpdatedTrue
<1>3. CASE server_status # "offline"
  <2>1. "server" \in DOMAIN claimed /\ DOMAIN claimed \subseteq {"server", "codex"}
    BY <1>3 DEF server_status, HostTypes, Providers
  <2> DEFINE x == Zero(claimed["server"])  y == Zero(claimed["codex"])
  <2>2. x \in Int /\ x \in ages /\ \A z \in ages : z = x \/ (z = y /\ y \in ages /\ y \in Int)
    BY <1>1, <2>1
  <2>3. updated_age_seconds = Max(ages) /\ x >= claimed["server"]
    BY <1>1, <1>3, <2>1 DEF updated_age_seconds
  <2>4. claimed["server"] \in Int
    BY <2>1 DEF HostTypes
  <2> HIDE DEF ages, x, y
  <2>5. \E m \in ages : \A z \in ages : m >= z
    <3>1. CASE y \in ages /\ y \in Int /\ y > x
      BY <2>2, <3>1
    <3>2. CASE ~(y \in ages /\ y \in Int /\ y > x)
      BY <2>2, <3>2
    <3> QED
      BY <3>1, <3>2
  <2>6. Max(ages) \in ages /\ \A z \in ages : Max(ages) >= z
    BY <2>5 DEF Max
  <2>7. Max(ages) \in Int /\ Max(ages) >= x
    BY <2>2, <2>6
  <2>8. updated_age_seconds \in Int /\ updated_age_seconds >= claimed["server"]
    BY <2>2, <2>3, <2>4, <2>7
  <2> QED
    BY <2>8 DEF UpdatedTrue
<1> QED
  BY <1>2, <1>3

\* A collection makes a recent frame.
LEMMA FrameRecent ==
    ASSUME HostTypes, FreshInv, ClaimInv, NEW outcome \in Outcomes, NEW reading \in Readings,
           Collect(outcome, reading)
    PROVE  FrameIsRecent'
<1>1. HostTypes' /\ ClaimInv' /\ \A p \in Providers : state'[p] = "fresh" => age'[p] < Every[p] + Late'
  BY CollectInv
<1>2. UpdatedTrue'
  <2>1. (HostTypes => UpdatedTrue)'
    BY UpdatedIs, PTL
  <2> QED
    BY <1>1, <2>1
<1>3. ASSUME "server" \in DOMAIN age'
      PROVE  updated_age_seconds' + Late' >= age'["server"]
  <2>1. /\ claimed'["server"] + Late' >= age'["server"] /\ claimed'["server"] \in Int /\ age'["server"] \in Int
        /\ "server" \in DOMAIN claimed'
    BY <1>1, <1>3 DEF ClaimInv, HostTypes
  <2>2. Late' \in Nat
    BY <1>1, ConstantsAre DEF HostTypes, Late
  <2> QED
    BY <1>1, <1>2, <2>1, <2>2 DEF UpdatedTrue
<1> QED
  BY <1>1, <1>3 DEF FrameIsRecent

-----------------------------------------------------------------------------
(*****************************************************************************)
(* The line, and the screen.                                                  *)
(*****************************************************************************)
LEMMA FrameIs == HostTypes => Frame \in Frames
<1>1. server_status \in {"offline", "online"}
  BY DEF server_status
<1> QED
  BY <1>1, UpdatedIs DEF Frame, Frames, HostTypes, UpdatedTrue

LEMMA PieceIs ==
    ASSUME NEW s \in Seq(AllCells), NEW m \in Nat \ {0}, NEW n \in 0..Len(s)
    PROVE  /\ SubSeq(s, m, n) \in Seq(AllCells)
           /\ Len(SubSeq(s, m, n)) = IF m <= n THEN n - m + 1 ELSE 0
           /\ \A i \in 1..n - m + 1 : SubSeq(s, m, n)[i] = s[m + i - 1]
<1>1. Len(s) \in Nat /\ \A i \in m..n : s[i] \in AllCells
  BY LenProperties, ElementOfSeq
<1> QED
  BY <1>1, SubSeqProperties

LEMMA CellsAre ==
    ASSUME NEW part \in Parts, NEW f \in Frames, NEW n \in Nat
    PROVE  /\ Cells(part, f, n) \in Seq(AllCells) /\ Len(Cells(part, f, n)) = n
           /\ \A i \in 1..n : Cells(part, f, n)[i] = [part |-> part, frame |-> f]
<1> DEFINE c == [part |-> part, frame |-> f]
<1>1. c \in AllCells
  BY DEF AllCells
<1> HIDE DEF c
<1>2. [i \in 1..n |-> c] \in Seq(AllCells) /\ Len([i \in 1..n |-> c]) = n
  BY <1>1
<1> QED
  BY <1>2 DEF Cells, c

LEMMA JoinIs ==
    ASSUME NEW s \in Seq(AllCells), NEW t \in Seq(AllCells)
    PROVE  /\ s \o t \in Seq(AllCells) /\ Len(s \o t) = Len(s) + Len(t)
           /\ Len(s) \in Nat /\ Len(t) \in Nat
           /\ \A i \in 1..Len(s) : (s \o t)[i] = s[i]
           /\ \A i \in 1..Len(t) : (s \o t)[Len(s) + i] = t[i]
<1>1. /\ s \o t \in Seq(AllCells) /\ Len(s \o t) = Len(s) + Len(t)
      /\ Len(s) \in Nat /\ Len(t) \in Nat
      /\ \A i \in 1..Len(s) + Len(t) : (s \o t)[i] = IF i <= Len(s) THEN s[i] ELSE t[i - Len(s)]
  BY ConcatProperties, LenProperties
<1>2. ASSUME NEW i \in 1..Len(t)
      PROVE  (s \o t)[Len(s) + i] = t[i]
  <2>1. Len(s) + i \in 1..Len(s) + Len(t) /\ ~(Len(s) + i <= Len(s)) /\ (Len(s) + i) - Len(s) = i
    BY <1>1
  <2> QED
    BY <1>1, <2>1
<1>3. \A i \in 1..Len(s) : (s \o t)[i] = s[i]
  BY <1>1
<1> QED
  BY <1>1, <1>2, <1>3

\* The first two cells of a payload.
LEMMA PayloadIs ==
    ASSUME NEW f \in Frames
    PROVE  /\ Payload(f) \in Seq(AllCells) /\ Len(Payload(f)) \in Nat /\ Len(Payload(f)) >= 2
           /\ Payload(f)[1] = [part |-> "server", frame |-> f]
           /\ Payload(f)[2] = [part |-> "codex", frame |-> f]
<1> DEFINE a == Cells("server", f, 1)  b == Cells("codex", f, 1)  c == Cells("experiments", f, Size(f))
<1>1. Size(f) \in Nat
  BY TargetAssumption DEF Size
<1>2. /\ a \in Seq(AllCells) /\ Len(a) = 1 /\ a[1] = [part |-> "server", frame |-> f]
      /\ b \in Seq(AllCells) /\ Len(b) = 1 /\ b[1] = [part |-> "codex", frame |-> f]
  <2>1. ASSUME NEW part \in Parts
        PROVE  /\ Cells(part, f, 1) \in Seq(AllCells) /\ Len(Cells(part, f, 1)) = 1
               /\ Cells(part, f, 1)[1] = [part |-> part, frame |-> f]
    <3>1. /\ Cells(part, f, 1) \in Seq(AllCells) /\ Len(Cells(part, f, 1)) = 1
          /\ \A i \in 1..1 : Cells(part, f, 1)[i] = [part |-> part, frame |-> f]
      BY CellsAre
    <3>2. 1 \in 1..1
      OBVIOUS
    <3> QED
      BY <3>1, <3>2
  <2>2. "server" \in Parts /\ "codex" \in Parts
    BY DEF Parts
  <2> QED
    BY <2>1, <2>2
<1>3. c \in Seq(AllCells)
  BY <1>1, CellsAre DEF Parts
<1>4. Payload(f) = (a \o b) \o c
  BY DEF Payload
<1> HIDE DEF a, b, c
<1>5. a \o b \in Seq(AllCells) /\ Len(a \o b) = 2 /\ (a \o b)[1] = a[1] /\ (a \o b)[2] = b[1]
  <2>1. /\ a \o b \in Seq(AllCells) /\ Len(a \o b) = Len(a) + Len(b)
        /\ \A i \in 1..Len(a) : (a \o b)[i] = a[i]
        /\ \A i \in 1..Len(b) : (a \o b)[Len(a) + i] = b[i]
    BY <1>2, JoinIs
  <2>2. 1 \in 1..Len(a) /\ 1 \in 1..Len(b) /\ Len(a) + 1 = 2
    BY <1>2
  <2> QED
    BY <1>2, <2>1, <2>2
<1>6. /\ (a \o b) \o c \in Seq(AllCells) /\ Len((a \o b) \o c) = 2 + Len(c) /\ Len(c) \in Nat
      /\ ((a \o b) \o c)[1] = (a \o b)[1] /\ ((a \o b) \o c)[2] = (a \o b)[2]
  <2> DEFINE d == a \o b
  <2>1. d \in Seq(AllCells) /\ Len(d) = 2
    BY <1>5
  <2> HIDE DEF d
  <2>2. /\ d \o c \in Seq(AllCells) /\ Len(d \o c) = Len(d) + Len(c) /\ Len(c) \in Nat
        /\ \A i \in 1..Len(d) : (d \o c)[i] = d[i]
    BY <1>3, <2>1, JoinIs
  <2> QED
    BY <2>1, <2>2 DEF d
<1> QED
  BY <1>2, <1>4, <1>5, <1>6

\* A line that parses has the parts of the frame its checksum is of.
LEMMA FoundIs ==
    ASSUME LineTypes, ParseOk(line)
    PROVE  Found(line, "server") = Last(line).frame /\ Found(line, "codex") = Last(line).frame
<1> DEFINE f == Last(line).frame
<1>1. line \in Seq(AllCells) /\ Len(line) \in Nat /\ Len(line) >= 2 /\ DOMAIN line = 1..Len(line)
  BY LenProperties DEF LineTypes, ParseOk, Framed
<1>2. Last(line) \in AllCells /\ Last(line).part = "tail"
  BY <1>1, ElementOfSeq DEF Last, ParseOk, Framed
<1>3. f \in Frames
  BY <1>2 DEF AllCells, Newline, Quit
<1>4. Body(line) = Payload(f)
  BY DEF ParseOk, CrcOk
<1> HIDE DEF f
<1>5. /\ Len(Body(line)) = IF 2 <= Len(line) - 1 THEN Len(line) - 2 ELSE 0
      /\ \A i \in 1..Len(line) - 2 : Body(line)[i] = line[i + 1]
  <2>1. Len(line) - 1 \in 0..Len(line) /\ 2 \in Nat \ {0}
    BY <1>1
  <2>2. /\ Len(SubSeq(line, 2, Len(line) - 1)) = IF 2 <= Len(line) - 1 THEN (Len(line) - 1) - 2 + 1 ELSE 0
        /\ \A i \in 1..(Len(line) - 1) - 2 + 1 : SubSeq(line, 2, Len(line) - 1)[i] = line[2 + i - 1]
    BY <1>1, <2>1, PieceIs
  <2>3. (Len(line) - 1) - 2 + 1 = Len(line) - 2
    BY <1>1
  <2>4. \A i \in 1..Len(line) - 2 : 2 + i - 1 = i + 1
    BY <1>1
  <2> QED
    BY <2>2, <2>3, <2>4 DEF Body
<1>6. Len(line) >= 4 /\ line[2] = [part |-> "server", frame |-> f] /\ line[3] = [part |-> "codex", frame |-> f]
  <2>1. /\ Len(Payload(f)) \in Nat /\ Len(Payload(f)) >= 2
        /\ Payload(f)[1] = [part |-> "server", frame |-> f]
        /\ Payload(f)[2] = [part |-> "codex", frame |-> f]
    BY <1>3, PayloadIs
  <2>2. Len(line) >= 4
    <3> DEFINE n == Len(Body(line))
    <3>1. n \in Nat /\ n >= 2 /\ n = IF 2 <= Len(line) - 1 THEN Len(line) - 2 ELSE 0
      BY <1>4, <1>5, <2>1
    <3> HIDE DEF n
    <3>2. CASE 2 <= Len(line) - 1
      BY <1>1, <3>1, <3>2
    <3>3. CASE ~(2 <= Len(line) - 1)
      BY <3>1, <3>3
    <3> QED
      BY <3>2, <3>3
  <2>3. 1 \in 1..Len(line) - 2 /\ 2 \in 1..Len(line) - 2
    BY <1>1, <2>2
  <2> QED
    BY <1>4, <1>5, <2>1, <2>2, <2>3
<1>7. line[1].part = "head"
  BY DEF ParseOk, Framed
<1>8. ASSUME NEW part, NEW k \in DOMAIN line, line[k].part = part, line[k].frame = f,
             \A i \in DOMAIN line : line[i].part = part => k <= i
      PROVE  Found(line, part) = f
  <2> DEFINE places == {i \in DOMAIN line : line[i].part = part}
  <2>1. k \in places /\ (\A i \in places : k <= i /\ i \in Nat) /\ k \in Nat
    BY <1>1, <1>8
  <2>2. Found(line, part) = IF places = {} THEN Nothing ELSE line[Min(places)].frame
    BY DEF Found
  <2> HIDE DEF places
  <2>3. Min(places) \in places /\ \A i \in places : Min(places) <= i
    BY <2>1 DEF Min
  <2>4. Min(places) = k
    BY <2>1, <2>3
  <2> QED
    BY <1>8, <2>1, <2>2, <2>4
<1>9. 2 \in DOMAIN line /\ 3 \in DOMAIN line /\ \A i \in DOMAIN line : i = 1 \/ i = 2 \/ 3 <= i
  BY <1>1, <1>6
<1>10. \A i \in DOMAIN line : (line[i].part = "server" => 2 <= i) /\ (line[i].part = "codex" => 3 <= i)
  BY <1>6, <1>7, <1>9
<1>11. Found(line, "server") = f
  BY <1>6, <1>8, <1>9, <1>10
<1>12. Found(line, "codex") = f
  BY <1>6, <1>8, <1>9, <1>10
<1> QED
  BY <1>11, <1>12 DEF f

\* What the host writes, and what of it arrives.
LEMMA FrameLineIs ==
    ASSUME NEW f \in Frames
    PROVE  FrameLine(f) \in Seq(AllCells)
<1> DEFINE h == Cells("head", f, 1)  p == Payload(f)  t == Cells("tail", f, 1)  e == <<Newline>>
<1>1. h \in Seq(AllCells) /\ p \in Seq(AllCells) /\ t \in Seq(AllCells)
  BY CellsAre, PayloadIs DEF Parts
<1>2. Newline \in AllCells
  BY DEF AllCells
<1>3. e \in Seq(AllCells)
  BY <1>2
<1> HIDE DEF h, p, t, e
<1>4. h \o p \in Seq(AllCells)
  BY <1>1, JoinIs
<1>5. (h \o p) \o t \in Seq(AllCells)
  BY <1>1, <1>4, JoinIs
<1>6. ((h \o p) \o t) \o e \in Seq(AllCells)
  BY <1>3, <1>5, JoinIs
<1> QED
  BY <1>6 DEF FrameLine, h, p, t, e

LEMMA WriteIs ==
    ASSUME LineTypes, ShownWhole, NEW cells \in Seq(AllCells), Write(cells)
    PROVE  LineTypes' /\ ShownWhole'
<1>1. UNCHANGED <<line, overflow, shown>>
  BY DEF Write
<1>2. wire \in Seq(AllCells) /\ Len(cells) \in Nat
  BY LenProperties DEF LineTypes
<1>3. CASE wire' = wire \o cells
  <2>1. wire' \in Seq(AllCells)
    BY <1>2, <1>3, JoinIs
  <2> QED
    BY <1>1, <2>1 DEF LineTypes, ShownWhole
<1>4. ASSUME NEW i \in 1..Len(cells), NEW j \in 1..Len(cells), i <= j, wire' = wire \o Without(cells, i, j)
      PROVE  LineTypes' /\ ShownWhole'
  <2> DEFINE s == SubSeq(cells, 1, i - 1)  t == SubSeq(cells, j + 1, Len(cells))
  <2>1. i - 1 \in 0..Len(cells) /\ Len(cells) \in 0..Len(cells) /\ j + 1 \in Nat \ {0} /\ 1 \in Nat \ {0}
    BY <1>2
  <2>2. s \in Seq(AllCells) /\ t \in Seq(AllCells)
    BY <2>1, PieceIs
  <2>3. wire' = wire \o (s \o t)
    BY <1>4 DEF Without
  <2> HIDE DEF s, t
  <2>4. s \o t \in Seq(AllCells)
    BY <2>2, JoinIs
  <2>5. wire' \in Seq(AllCells)
    BY <1>2, <2>3, <2>4, JoinIs
  <2> QED
    BY <1>1, <2>5 DEF LineTypes, ShownWhole
<1> QED
  BY <1>3, <1>4 DEF Write

LEMMA ReadIs ==
    ASSUME LineTypes, ShownWhole, Read
    PROVE  LineTypes' /\ ShownWhole'
<1>1. /\ wire \in Seq(AllCells) /\ line \in Seq(AllCells) /\ Len(wire) \in Nat /\ Len(line) \in Nat
      /\ LineMax \in Nat /\ LineMax > 3
  BY LenProperties, TargetAssumption DEF LineTypes
<1>2. PICK n \in 1..Len(wire) :
         /\ wire' = SubSeq(wire, n + 1, Len(wire))
         /\ IF overflow \/ Len(line) + n > LineMax
            THEN overflow' = TRUE /\ line' = SubSeq(line \o SubSeq(wire, 1, n), 1, LineMax)
            ELSE UNCHANGED overflow /\ line' = line \o SubSeq(wire, 1, n)
  BY DEF Read
<1> DEFINE piece == SubSeq(wire, 1, n)
<1>3. piece \in Seq(AllCells) /\ Len(piece) = n /\ wire' \in Seq(AllCells)
  <2>1. n \in 0..Len(wire) /\ n + 1 \in Nat \ {0} /\ Len(wire) \in 0..Len(wire) /\ 1 \in Nat \ {0} /\ 1 <= n
    BY <1>1
  <2>2. piece \in Seq(AllCells) /\ Len(piece) = IF 1 <= n THEN n - 1 + 1 ELSE 0
    BY <1>1, <2>1, PieceIs
  <2>3. SubSeq(wire, n + 1, Len(wire)) \in Seq(AllCells)
    BY <1>1, <2>1, PieceIs
  <2> QED
    BY <1>2, <2>1, <2>2, <2>3
<1>4. IF overflow \/ Len(line) + n > LineMax
      THEN overflow' = TRUE /\ line' = SubSeq(line \o piece, 1, LineMax)
      ELSE UNCHANGED overflow /\ line' = line \o piece
  BY <1>2
<1> HIDE DEF piece
<1>5. line \o piece \in Seq(AllCells) /\ Len(line \o piece) = Len(line) + n
  BY <1>1, <1>3, JoinIs
<1>6. CASE overflow \/ Len(line) + n > LineMax
  <2> DEFINE both == line \o piece
  <2>1. LineMax \in 0..Len(both) /\ both \in Seq(AllCells) /\ 1 <= LineMax /\ 1 \in Nat \ {0}
    BY <1>1, <1>5, <1>6 DEF LineTypes
  <2>2. overflow' = TRUE /\ line' = SubSeq(both, 1, LineMax)
    BY <1>4, <1>6
  <2> HIDE DEF both
  <2>3. line' \in Seq(AllCells) /\ Len(line') = IF 1 <= LineMax THEN LineMax - 1 + 1 ELSE 0
    BY <2>1, <2>2, PieceIs
  <2>4. Len(line') = LineMax
    BY <1>1, <2>1, <2>3
  <2> QED
    BY <1>3, <2>2, <2>3, <2>4 DEF LineTypes, ShownWhole, Read
<1>7. CASE ~(overflow \/ Len(line) + n > LineMax)
  BY <1>3, <1>4, <1>5, <1>7 DEF LineTypes, ShownWhole, Read
<1> QED
  BY <1>6, <1>7

LEMMA TargetInv ==
    ASSUME LineTypes, ShownWhole, Target
    PROVE  LineTypes' /\ ShownWhole'
<1>1. CASE OpenFramebuffer \/ OpenSerial \/ MapsNothing
  BY <1>1 DEF OpenFramebuffer, OpenSerial, MapsNothing, LineTypes, ShownWhole
<1>2. CASE Read
  BY <1>2, ReadIs
<1>3. ASSUME Running, wire' = Tail(wire), line' = <<>>, overflow' = FALSE
      PROVE  LineTypes'
  <2>1. wire \in Seq(AllCells) /\ wire # <<>>
    BY <1>3 DEF LineTypes, Running
  <2>2. Tail(wire) \in Seq(AllCells) /\ <<>> \in Seq(AllCells)
    BY <2>1, HeadTailProperties, EmptySeq
  <2> QED
    BY <1>3, <2>2 DEF LineTypes
<1>4. CASE EndLine
  <2>1. LineTypes'
    BY <1>3, <1>4 DEF EndLine
  <2>2. CASE shown' = shown
    BY <2>1, <2>2 DEF ShownWhole
  <2>3. CASE ParseOk(line) /\ shown' = [server |-> Found(line, "server"), codex |-> Found(line, "codex")]
    BY <2>1, <2>3, FoundIs DEF ShownWhole
  <2> QED
    BY <1>4, <2>2, <2>3 DEF EndLine
<1>5. CASE QuitLine
  <2>1. overflow' = FALSE
    BY <1>5 DEF QuitLine, LineTypes
  <2>2. LineTypes'
    BY <1>3, <1>5, <2>1 DEF QuitLine
  <2> QED
    BY <1>5, <2>2 DEF QuitLine, ShownWhole
<1> QED
  BY <1>1, <1>2, <1>4, <1>5 DEF Target

-----------------------------------------------------------------------------
(*****************************************************************************)
(* The feed.                                                                  *)
(*****************************************************************************)
LEMMA InitInv == Init => IInv
<1> SUFFICES ASSUME Init PROVE IInv
  OBVIOUS
<1>1. LineTypes /\ ShownWhole
  BY EmptySeq DEF Init, TargetInit, LineTypes, ShownWhole
<1> QED
  BY <1>1, HostInitInv DEF Init, IInv

LEMMA HostKeeps ==
    ASSUME HostTypes, FreshInv, ClaimInv, UNCHANGED hostVars
    PROVE  HostTypes' /\ FreshInv' /\ ClaimInv'
BY DEF hostVars, HostTypes, FreshInv, ClaimInv, Late

LEMMA TargetKeeps ==
    ASSUME LineTypes, ShownWhole, UNCHANGED targetVars
    PROVE  LineTypes' /\ ShownWhole'
BY DEF targetVars, LineTypes, ShownWhole

LEMMA StepInv == IInv /\ [Next]_vars => IInv'
<1> SUFFICES ASSUME IInv, [Next]_vars PROVE IInv'
  OBVIOUS
<1>1. HostTypes /\ FreshInv /\ ClaimInv /\ LineTypes /\ ShownWhole
  BY DEF IInv
<1>2. CASE UNCHANGED vars
  BY <1>1, <1>2, HostKeeps, TargetKeeps DEF vars, IInv
<1>3. CASE SetBack
  BY <1>1, <1>3, StepBackInv, TargetKeeps DEF SetBack, IInv
<1>4. CASE Wait
  <2>1. PICK time \in 1..PauseMax : Pass(time)
    BY <1>4 DEF Wait
  <2>2. time \in Nat
    BY <2>1
  <2> QED
    BY <1>1, <1>4, <2>1, <2>2, PassInv, TargetKeeps DEF Wait, IInv
<1>5. CASE SendFrame
  <2>1. PICK outcome \in Outcomes, reading \in Readings : Collect(outcome, reading)
    BY <1>5 DEF SendFrame
  <2>2. HostTypes' /\ FreshInv' /\ ClaimInv'
    BY <1>1, <2>1, CollectInv
  <2>3. (HostTypes => Frame \in Frames)'
    BY FrameIs, PTL
  <2>4. FrameLine(Frame') \in Seq(AllCells)
    BY <2>2, <2>3, FrameLineIs
  <2>5. LineTypes' /\ ShownWhole'
    BY <1>1, <1>5, <2>4, WriteIs DEF SendFrame
  <2> QED
    BY <2>2, <2>5 DEF IInv
<1>6. CASE StopSession
  BY <1>1, <1>6, HostGoneInv, TargetKeeps DEF StopSession, IInv
<1>7. CASE WriteQuit
  <2>1. Quit \in AllCells /\ Newline \in AllCells
    BY DEF AllCells
  <2>2. <<Quit, Newline>> \in Seq(AllCells)
    BY <2>1
  <2> QED
    BY <1>1, <1>7, <2>2, WriteIs, HostKeeps DEF WriteQuit, IInv
<1>8. CASE Target
  BY <1>1, <1>8, TargetInv, HostKeeps DEF Target, IInv
<1> QED
  BY <1>2, <1>3, <1>4, <1>5, <1>6, <1>7, <1>8 DEF Next

(*****************************************************************************)
(* In every reachable state of the feed the parts of the invariant hold: what *)
(* the trackers and the cadence of the host know of each provider's age, and  *)
(* that what is on the line and in its buffer are parts of frames.            *)
(*****************************************************************************)
THEOREM FeedInvariant == Spec => []IInv
BY InitInv, StepInv, PTL DEF Spec

(*****************************************************************************)
(* All parts of what the screen shows come from one frame, whatever run of    *)
(* bytes the line loses within a frame or over the end of one.                *)
(*****************************************************************************)
THEOREM FeedShownWhole == Spec => []ShownWhole
<1>1. IInv => ShownWhole
  BY DEF IInv
<1> QED
  BY FeedInvariant, <1>1, PTL

(*****************************************************************************)
(* A frame that is sent calls a provider fresh only if it answered less than  *)
(* its interval ago, and makes the server's data no younger than they are, up *)
(* to the one step by which the clock was set back.                           *)
(*****************************************************************************)
THEOREM FeedFreshIsRecent == Spec => FreshIsRecent
<1>1. ASSUME IInv, [Next]_vars, host = "sending", host' = "waiting"
      PROVE  FrameIsRecent'
  <2>1. SendFrame
    BY <1>1 DEF Next, SetBack, Wait, StopSession, WriteQuit, Target, vars, sessionVars
  <2>2. PICK outcome \in Outcomes, reading \in Readings : Collect(outcome, reading)
    BY <2>1 DEF SendFrame
  <2> QED
    BY <1>1, <2>2, FrameRecent DEF IInv
<1>2. IInv /\ [Next]_vars => [host = "sending" /\ host' = "waiting" => FrameIsRecent']_vars
  BY <1>1
<1> QED
  BY FeedInvariant, <1>2, PTL DEF Spec, FreshIsRecent
=============================================================================
