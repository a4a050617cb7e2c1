------------------------ MODULE ProviderSessionProofs ------------------------
(***************************************************************************)
(* What a provider session guarantees for any number of local processes,   *)
(* any length of the text the board sends and any count of request         *)
(* numbers, and that it keeps the life cycle its owner expects.            *)
(***************************************************************************)
EXTENDS ProviderSession, SequenceTheorems, WellFoundedInduction, TLAPS

-----------------------------------------------------------------------------
(***************************************************************************)
(* The inductive invariant, in parts.                                      *)
(***************************************************************************)

\* The variables' part of TypeOK, one by one.
Processes == [up : BOOLEAN, jobs : Seq(Numbers), replies : Seq(Numbers)]
Types ==
    /\ app \in {"codex", "runboard"}
    /\ phase \in {"new", "starting", "broken", "running", "failing", "exited"}
    /\ pc \in Pcs
    /\ incoming \in Seq(Symbols) /\ pending \in Seq(Symbols)
    /\ wire \in Seq(Symbols) /\ buffer \in Seq(Symbols)
    /\ stopped \in BOOLEAN /\ expired \in BOOLEAN
    /\ procs \in [Workers -> Processes]
    /\ provider \in Workers \cup {NoWorker} /\ made \in Workers \cup {NoWorker}
    /\ lost \in SUBSET Workers
    /\ sequence \in Numbers /\ got \in Numbers
    /\ disposer \in {"no", "cancelled", "join", "kill", "null", "closed"}
    /\ frames \in {0, 1}

\* Which positions belong to which class and phase.  Start of the runboard
\* session writes one frame, after which it stands at "top".
CodexPcs == {"idle", "top", "push", "lines", "create", "ask", "answer", "write", "failed", "final"}
StartPcs == {"spawn", "ask", "answer", "write", "failed", "top"}
Shape ==
    /\ pc = "idle" <=> phase \in {"new", "broken", "failing", "exited"}
    /\ phase = "starting" => app = "runboard" /\ pc \in StartPcs /\ (frames = 0 <=> pc # "top")
    /\ phase = "running" => pc # "spawn"
    /\ phase = "new" => frames = 0 /\ disposer = "no"
    /\ app = "codex" => /\ pc \in CodexPcs
                        /\ phase \in {"new", "running", "exited"}
                        /\ disposer # "cancelled"
    /\ app = "runboard" => /\ pc \notin {"lines", "create"}
                           /\ disposer \notin {"kill", "null"}

\* The local processes.  While Dispose stands between Kill and the null that
\* it writes, the loop may have dropped that provider but made no other.
WorkInv ==
    /\ \A w \in Workers : procs[w].up => w \in {provider, made} \cup lost
    /\ made # NoWorker => pc = "create" /\ provider = NoWorker
    /\ phase = "new" \/ pc = "spawn" => provider = NoWorker
    /\ disposer = "null" =>
          IF provider = NoWorker THEN pc \in {"final", "idle"} ELSE ~procs[provider].up
    /\ app = "codex" /\ phase = "exited" => provider = NoWorker
    /\ app = "runboard" /\ SourceDisposed => provider \in lost \cup {NoWorker}

\* A process has at most the request under way in its pipes, and nothing
\* when the next one is asked.
Quiet(w) == procs[w].jobs = <<>> /\ procs[w].replies = <<>>
Asked(w) == \/ Quiet(w)
            \/ procs[w].jobs = <<sequence>> /\ procs[w].replies = <<>>
            \/ procs[w].jobs = <<>> /\ procs[w].replies = <<sequence>>
AskInv ==
    /\ made # NoWorker => Quiet(made)
    /\ provider # NoWorker =>
          /\ pc = "answer" => Asked(provider)
          /\ pc \notin {"answer", "failed", "final", "idle"} => Quiet(provider)
    /\ AnswersFresh

\* What is in hand and what waits is together the end of what the board sent.
IsRest(s, t) == \E u \in Seq(Symbols) : t = u \o s
TextInv ==
    /\ IsRest(pending \o (incoming \o buffer), wire)
    /\ incoming # <<>> => (pc = "push" \/ (app = "codex" /\ pc \in {"idle", "top", "final"}))
    /\ app = "runboard" => pending = <<>>
    /\ pc = "push" => HasStop(incoming)
    /\ pc = "final" => Cancelled \/ stopped \/ HasStop(buffer)
    /\ stopped => HasStop(wire)
    /\ app = "codex" /\ phase = "exited" => Cancelled \/ stopped \/ HasStop(buffer)

IInv == Types /\ Shape /\ WorkInv /\ AskInv /\ TextInv

-----------------------------------------------------------------------------
(***************************************************************************)
(* Types.                                                                  *)
(***************************************************************************)
LEMMA TypesEnough ==
    ASSUME Types, TextInv
    PROVE  TypeOK
<1>1. incoming # <<>> => pc \notin {"lines", "create", "ask", "answer", "write", "failed"}
  BY DEF TextInv
<1>2. {incoming, pending, wire, buffer} \subseteq Seq(Symbols) /\ {sequence, got} \subseteq Numbers
  BY DEF Types
<1> QED
  BY <1>1, <1>2 DEF Types, TypeOK, Processes

LEMMA NumbersNat == 0 \in Numbers /\ \A n \in Numbers : (n + 1) % Sequences \in Numbers
BY SessionAssumption DEF Numbers

LEMMA DeadType == Dead \in Processes /\ Fresh \in Processes
<1>1. <<>> \in Seq(Numbers)
  BY EmptySeq
<1>2. Dead \in Processes
  BY <1>1 DEF Dead, Processes
<1> QED
  BY <1>2 DEF Fresh, Processes

\* Kill touches the current process only, and leaves it dead.
LEMMA KillType ==
    ASSUME Types, Kill
    PROVE  /\ procs' \in [Workers -> Processes]
           /\ \A w \in Workers : procs'[w] = IF w = provider THEN Dead ELSE procs[w]
BY DeadType, SessionAssumption DEF Types, Kill, Processes

LEMMA SpawnType ==
    ASSUME Types, NEW w \in Workers, Spawn(w)
    PROVE  /\ procs' \in [Workers -> Processes]
           /\ procs' = [procs EXCEPT ![w] = Fresh]
           /\ w \notin {provider, made} \cup lost
BY DeadType DEF Types, Spawn, Processes

\* Lines and their symbols.
LEMMA TextTypes ==
    ASSUME NEW k \in {"request", "text", "stop"}
    PROVE  Text(k) \in Seq(Symbols)
<1>1. \A p \in {"head", "middle", "end"} : Part(k, p) \in Symbols
  BY DEF Part, Symbols
<1> DEFINE h == Part(k, "head")  m == Part(k, "middle")  e == Part(k, "end")
<1>2. <<h, e>> \in Seq(Symbols) /\ <<h, m, e>> \in Seq(Symbols)
  <2> HIDE DEF h, m, e
  <2>1. h \in Symbols /\ m \in Symbols /\ e \in Symbols
    BY <1>1 DEF h, m, e
  <2> QED
    BY <2>1
<1> QED
  BY <1>2 DEF Text

LEMMA NoText == <<>> \in Seq(Symbols)
BY EmptySeq

\* A set of numbers has a least one.
LEMMA Least ==
    ASSUME NEW T \in SUBSET Nat, T # {}
    PROVE  \E x \in T : \A y \in T : x <= y
<1>1. \E x \in T : \A y \in T : ~(<<y, x>> \in OpToRel(<, Nat))
  BY NatLessThanWellFounded, WFMin
<1>2. PICK x \in T : \A y \in T : ~(<<y, x>> \in OpToRel(<, Nat))
  BY <1>1
<1>3. \A y \in T : ~(y < x)
  BY <1>2 DEF OpToRel
<1>4. \A y \in T : x <= y
  BY <1>3
<1> QED
  BY <1>4

\* Where the first line ends.
LEMMA FirstEndIs ==
    ASSUME NEW s \in Seq(Symbols), HasLine(s)
    PROVE  FirstEnd(s) \in 1..Len(s) /\ s[FirstEnd(s)].part = "end"
<1> DEFINE ends == {i \in DOMAIN s : s[i].part = "end"}
<1>1. DOMAIN s = 1..Len(s) /\ Len(s) \in Nat
  BY LenProperties
<1>2. ends \in SUBSET Nat /\ ends # {}
  BY <1>1 DEF HasLine
<1>3. PICK i \in ends : \A j \in ends : i <= j
  <2> HIDE DEF ends
  <2> QED
    BY <1>2, Least
<1>4. \A j \in 1..i-1 : s[j].part # "end"
  BY <1>1, <1>3
<1>5. \E k \in DOMAIN s : s[k].part = "end" /\ \A j \in 1..k-1 : s[j].part # "end"
  BY <1>3, <1>4
<1> QED
  BY <1>1, <1>5 DEF FirstEnd

\* A line is taken off the front of the text.
LEMMA TakeLine ==
    ASSUME NEW s \in Seq(Symbols), HasLine(s)
    PROVE  /\ SubSeq(s, 1, FirstEnd(s)) \in Seq(Symbols)
           /\ SubSeq(s, FirstEnd(s) + 1, Len(s)) \in Seq(Symbols)
           /\ s = SubSeq(s, 1, FirstEnd(s)) \o SubSeq(s, FirstEnd(s) + 1, Len(s))
<1> DEFINE n == FirstEnd(s)
<1>1. n \in 1..Len(s) /\ Len(s) \in Nat /\ \A i \in 1..Len(s) : s[i] \in Symbols
  BY FirstEndIs, LenProperties, ElementOfSeq
<1> HIDE DEF n
<1>2. SubSeq(s, 1, n) \in Seq(Symbols) /\ SubSeq(s, n + 1, Len(s)) \in Seq(Symbols)
  BY <1>1, SubSeqProperties
<1>3. SubSeq(s, 1, n) \o SubSeq(s, n + 1, Len(s)) = SubSeq(s, 1, Len(s))
  BY <1>1, ConcatAdjacentSubSeq
<1>4. SubSeq(s, 1, Len(s)) = s
  BY SubSeqFull
<1> QED
  BY <1>2, <1>3, <1>4 DEF n

LEMMA TypeInit == Init => Types
<1> SUFFICES ASSUME Init PROVE Types
  OBVIOUS
<1>1. wire \in Seq(Symbols)
  <2>1. <<>> \in Seq(Symbols) /\ <<Part("request", "head")>> \in Seq(Symbols)
    BY DEF Part, Symbols
  <2> QED
    BY <2>1, TextTypes, ConcatProperties DEF Init
<1>2. procs \in [Workers -> Processes]
  BY DeadType DEF Init
<1>3. incoming \in Seq(Symbols) /\ pending \in Seq(Symbols) /\ buffer \in Seq(Symbols)
  BY <1>1, NoText DEF Init
<1> QED
  BY <1>1, <1>2, <1>3, NumbersNat DEF Init, Types, Pcs

LEMMA TypeStart ==
    ASSUME Types, CodexStart \/ RunBoardStart \/ RunBoardSpawns \/ RunBoardStarted
    PROVE  Types'
<1>1. CASE CodexStart \/ RunBoardStart \/ RunBoardStarted
  BY <1>1 DEF Types, CodexStart, RunBoardStart, RunBoardStarted, Ends, Pcs, textVars, lineVars,
              workVars, askVars, endVars
<1>2. CASE RunBoardSpawns
  BY <1>2, SpawnType DEF Types, RunBoardSpawns, Ends, Pcs, textVars, lineVars, askVars, endVars, Processes
<1> QED
  BY <1>1, <1>2

LEMMA TypeText ==
    ASSUME Types, CodexReads \/ PushBack \/ Consume \/ RunBoardReads
    PROVE  Types'
<1>1. CASE CodexReads
  <2>1. /\ UNCHANGED <<app, phase, stopped, wire, workVars, askVars, endVars, frames>>
        /\ pc' \in {"final", "push", "lines"}
    BY <1>1 DEF CodexReads, Goto, textVars
  <2>2. buffer' \in {buffer, <<>>} /\ incoming' \in {incoming, buffer, <<>>}
    BY <1>1 DEF CodexReads, textVars
  <2>3. pending' \in {pending, pending \o incoming, pending \o buffer}
    BY <1>1 DEF CodexReads, textVars
  <2>4. buffer' \in Seq(Symbols) /\ incoming' \in Seq(Symbols)
    BY <2>2, NoText DEF Types
  <2>5. pending \o incoming \in Seq(Symbols) /\ pending \o buffer \in Seq(Symbols)
    BY ConcatProperties DEF Types
  <2>6. pending' \in Seq(Symbols)
    BY <2>3, <2>5 DEF Types
  <2> QED
    BY <2>1, <2>4, <2>6 DEF Types, Pcs, workVars, askVars, endVars
<1>2. CASE PushBack
  <2>1. /\ UNCHANGED <<app, phase, pending, stopped, wire, workVars, askVars, endVars, frames>>
        /\ pc' = "final" /\ incoming' = <<>> /\ buffer' = incoming \o buffer
    BY <1>2 DEF PushBack, Goto
  <2>2. incoming \o buffer \in Seq(Symbols)
    BY ConcatProperties DEF Types
  <2> QED
    BY <2>1, <2>2, NoText DEF Types, Pcs, workVars, askVars, endVars
<1>3. CASE Consume
  <2>1. pending' \in Seq(Symbols)
    BY <1>3, TakeLine DEF Types, Consume
  <2>2. /\ UNCHANGED <<app, phase, incoming, lineVars, workVars, askVars, endVars, frames>>
        /\ pc' \in {"top", "create", "lines"}
    BY <1>3, SMTT(30) DEF Consume, Goto
  <2>3. stopped' \in BOOLEAN
    BY <1>3 DEF Types, Consume
  <2> QED
    BY <2>1, <2>2, <2>3 DEF Types, Pcs, lineVars, workVars, askVars, endVars
<1>4. CASE RunBoardReads
  <2>1. /\ UNCHANGED <<app, pending, stopped, wire, workVars, askVars, endVars, frames>>
        /\ pc' \in {"idle", "push", "top", "send"} /\ phase' \in {phase, "exited"}
    BY <1>4 DEF RunBoardReads, Goto, Ends
  <2>2. buffer' \in {buffer, <<>>} /\ incoming' \in {incoming, buffer}
    BY <1>4 DEF RunBoardReads
  <2>3. buffer' \in Seq(Symbols) /\ incoming' \in Seq(Symbols)
    BY <2>2, NoText DEF Types
  <2>4. phase' \in {"new", "starting", "broken", "running", "failing", "exited"} /\ pc' \in Pcs
    BY <2>1 DEF Types, Pcs
  <2> QED
    BY <2>1, <2>3, <2>4 DEF Types, workVars, askVars, endVars
<1> QED
  BY <1>1, <1>2, <1>3, <1>4

LEMMA TypeWork ==
    ASSUME Types, CreateBegins \/ CreateEnds \/ CodexFails \/ CodexEnds \/ NoAnswer
    PROVE  Types'
<1>1. CASE CreateBegins
  BY <1>1, SpawnType
     DEF Types, CreateBegins, Goto, Pcs, loopVars, textVars, lineVars, askVars, endVars, Processes
<1>2. CASE CreateEnds
  BY <1>2 DEF Types, CreateEnds, Goto, Pcs, textVars, lineVars, askVars, endVars
<1>3. CASE CodexFails \/ CodexEnds \/ NoAnswer
  BY <1>3, KillType
     DEF Types, CodexFails, CodexEnds, NoAnswer, KillAndForget, Goto, Ends, Pcs, textVars, lineVars,
         askVars, endVars, Processes
<1> QED
  BY <1>1, <1>2, <1>3

\* The pipes of one process change.
LEMMA PipesType ==
    ASSUME Types, NEW w \in Workers, NEW q \in Seq(Numbers), NEW r \in Seq(Numbers)
    PROVE  /\ [procs EXCEPT ![w].jobs = q] \in [Workers -> Processes]
           /\ [procs EXCEPT ![w].replies = q] \in [Workers -> Processes]
           /\ [procs EXCEPT ![w].jobs = q, ![w].replies = r] \in [Workers -> Processes]
<1> DEFINE S == Seq(Numbers)
<1>1. procs \in [Workers -> [up : BOOLEAN, jobs : S, replies : S]] /\ q \in S /\ r \in S
  BY DEF Types, Processes
<1> HIDE DEF S
<1>2. /\ [procs EXCEPT ![w].jobs = q] \in [Workers -> [up : BOOLEAN, jobs : S, replies : S]]
      /\ [procs EXCEPT ![w].replies = q] \in [Workers -> [up : BOOLEAN, jobs : S, replies : S]]
  BY <1>1
<1>3. [procs EXCEPT ![w].jobs = q, ![w].replies = r] \in [Workers -> [up : BOOLEAN, jobs : S, replies : S]]
  BY <1>1
<1> QED
  BY <1>2, <1>3 DEF S, Processes

LEMMA TypeAsk ==
    ASSUME Types, Ask \/ Answer \/ Write
    PROVE  Types'
<1>1. CASE Ask
  <2>1. sequence' \in Numbers
    BY <1>1, NumbersNat DEF Types, Ask
  <2>2. provider \in Workers => Append(procs[provider].jobs, sequence') \in Seq(Numbers)
    BY <2>1, AppendProperties DEF Types, Processes
  <2>3. procs' \in [Workers -> Processes]
    <3>1. CASE provider # NoWorker /\ procs[provider].up
      <4>1. provider \in Workers
        BY <3>1 DEF Types
      <4>2. procs' = [procs EXCEPT ![provider].jobs = Append(procs[provider].jobs, sequence')]
        BY <1>1, <3>1 DEF Ask
      <4> QED
        BY <4>1, <4>2, <2>2, PipesType
    <3>2. CASE ~(provider # NoWorker /\ procs[provider].up)
      BY <1>1, <3>2 DEF Ask, Types
    <3> QED
      BY <3>1, <3>2
  <2>4. /\ UNCHANGED <<app, phase, textVars, lineVars, provider, made, lost, got, endVars, frames>>
        /\ pc' \in {"answer", "failed"}
    BY <1>1 DEF Ask, Goto
  <2> QED
    BY <2>1, <2>3, <2>4 DEF Types, Pcs, textVars, lineVars, endVars
<1>2. CASE Answer
  <2>1. /\ provider \in Workers
        /\ Head(procs[provider].replies) \in Numbers
        /\ Tail(procs[provider].replies) \in Seq(Numbers)
    BY <1>2, HeadTailProperties DEF Types, Answer, Processes
  <2>2. procs' \in [Workers -> Processes]
    BY <1>2, <2>1, PipesType DEF Answer
  <2>3. /\ UNCHANGED <<app, phase, textVars, lineVars, provider, made, lost, sequence, endVars, frames>>
        /\ pc' \in {"write", "failed"} /\ got' = Head(procs[provider].replies)
    BY <1>2 DEF Answer
  <2> QED
    BY <2>1, <2>2, <2>3 DEF Types, Pcs, textVars, lineVars, endVars
<1>3. CASE Write
  BY <1>3 DEF Types, Write, Goto, Pcs, textVars, lineVars, workVars, askVars, endVars
<1> QED
  BY <1>1, <1>2, <1>3

LEMMA TypeRunBoard ==
    ASSUME Types, RunBoardSends \/ RunBoardEnds \/ RunBoardFails \/ Reported
    PROVE  Types'
BY DEF Types, RunBoardSends, RunBoardEnds, RunBoardFails, Reported, Goto, Ends, Pcs, textVars,
       lineVars, workVars, askVars, endVars

LEMMA TypeDispose ==
    ASSUME Types, DisposeCancels \/ DisposeStep
    PROVE  Types'
<1>1. CASE DisposeSource \/ DisposeKills
  BY <1>1, KillType
     DEF Types, DisposeSource, DisposeKills, KillAndForget, Processes, loopVars, textVars, lineVars, askVars
<1>2. CASE DisposeCancels \/ DisposeJoins \/ DisposeNulls
  BY <1>2 DEF Types, DisposeCancels, DisposeJoins, DisposeNulls, loopVars, textVars, lineVars, workVars, askVars
<1> QED
  BY <1>1, <1>2 DEF DisposeStep

LEMMA TypeOthers ==
    ASSUME Types, Pump \/ \E w \in Workers : WorkerAnswers(w) \/ WorkerExits(w)
    PROVE  Types'
<1>1. CASE Pump
  <2>1. PICK s \in Symbols : wire' = Append(wire, s) /\ buffer' = Append(buffer, s)
    BY <1>1 DEF Pump
  <2>2. wire' \in Seq(Symbols) /\ buffer' \in Seq(Symbols)
    BY <2>1, AppendProperties DEF Types
  <2> QED
    BY <1>1, <2>2 DEF Types, Pump, loopVars, textVars, workVars, askVars, endVars
<1>2. ASSUME NEW w \in Workers, WorkerAnswers(w)
      PROVE  Types'
  <2>1. /\ Tail(procs[w].jobs) \in Seq(Numbers)
        /\ Append(procs[w].replies, Head(procs[w].jobs)) \in Seq(Numbers)
    BY <1>2, HeadTailProperties, AppendProperties DEF Types, WorkerAnswers, Processes
  <2>2. procs' = [procs EXCEPT ![w].jobs = Tail(procs[w].jobs),
                               ![w].replies = Append(procs[w].replies, Head(procs[w].jobs))]
    BY <1>2 DEF WorkerAnswers
  <2>3. procs' \in [Workers -> Processes]
    BY <2>1, <2>2, PipesType
  <2>4. UNCHANGED <<app, loopVars, textVars, lineVars, provider, made, lost, askVars, endVars, frames>>
    BY <1>2 DEF WorkerAnswers
  <2> QED
    BY <2>3, <2>4 DEF Types, loopVars, textVars, lineVars, askVars, endVars
<1>3. ASSUME NEW w \in Workers, WorkerExits(w)
      PROVE  Types'
  BY <1>3, DeadType DEF Types, WorkerExits, Processes, loopVars, textVars, lineVars, askVars, endVars
<1> QED
  BY <1>1, <1>2, <1>3

LEMMA TypeStep ==
    ASSUME Types, [Next]_vars
    PROVE  Types'
<1>1. CASE UNCHANGED vars
  BY <1>1 DEF Types, vars, loopVars, textVars, lineVars, workVars, askVars, endVars
<1> QED
  BY <1>1, TypeStart, TypeText, TypeWork, TypeAsk, TypeRunBoard, TypeDispose, TypeOthers
     DEF Next, LoopStep

-----------------------------------------------------------------------------
(***************************************************************************)
(* Text: what is in hand, what waits and what the board sent.              *)
(***************************************************************************)

LEMMA Regroup == \A s, t, u \in Seq(Symbols) : (s \o t) \o u = s \o (t \o u)
BY ConcatAssociative

LEMMA Pair ==
    ASSUME NEW s \in Seq(Symbols), Len(s) = 2
    PROVE  s = <<s[1], s[2]>>
<1>1. s[1] \in Symbols /\ s[2] \in Symbols
  <2>1. 1 \in 1..Len(s) /\ 2 \in 1..Len(s)
    OBVIOUS
  <2> QED
    BY <2>1, ElementOfSeq
<1> DEFINE a == s[1]  b == s[2]  t == <<a, b>>
<1>2. t \in Seq(Symbols) /\ Len(t) = 2 /\ t[1] = a /\ t[2] = b
  <2> HIDE DEF a, b
  <2>1. a \in Symbols /\ b \in Symbols
    BY <1>1 DEF a, b
  <2> QED
    BY <2>1
<1> HIDE DEF t
<1>3. \A i \in 1..Len(s) : s[i] = t[i]
  BY <1>2
<1>4. s = t
  BY <1>2, <1>3, SeqEqual
<1> QED
  BY <1>4 DEF t

\* The stop marker, symbol by symbol.
LEMMA StopIs ==
    ASSUME NEW s \in Seq(Symbols)
    PROVE  HasStop(s) <=> \E i \in 1..Len(s) - 1 : /\ s[i] = Part("stop", "head")
                                                   /\ s[i+1] = Part("stop", "middle")
<1> DEFINE h == Part("stop", "head")  m == Part("stop", "middle")
<1>1. Len(s) \in Nat /\ \A i \in 1..Len(s) : s[i] \in Symbols
  BY LenProperties, ElementOfSeq
<1>2. SubSeq(Text("stop"), 1, 2) = <<h, m>>
  <2> DEFINE x == Text("stop")
  <2>1. x \in Seq(Symbols) /\ Len(x) = 3 /\ x[1] = h /\ x[2] = m
    BY TextTypes DEF Text
  <2> HIDE DEF x, h, m
  <2>2. \A i \in 1..2 : x[i] \in Symbols
    BY <2>1, ElementOfSeq
  <2>3. /\ SubSeq(x, 1, 2) \in Seq(Symbols) /\ Len(SubSeq(x, 1, 2)) = 2
        /\ SubSeq(x, 1, 2)[1] = h /\ SubSeq(x, 1, 2)[2] = m
    BY <2>1, <2>2, SubSeqProperties
  <2> QED
    BY <2>3, Pair DEF x
<1>3. ASSUME NEW i \in 1..Len(s) - 1
      PROVE  SubSeq(s, i, i + 1) = <<h, m>> <=> s[i] = h /\ s[i+1] = m
  <2> HIDE DEF h, m
  <2>1. /\ SubSeq(s, i, i + 1) \in Seq(Symbols)
        /\ Len(SubSeq(s, i, i + 1)) = 2
        /\ SubSeq(s, i, i + 1)[1] = s[i] /\ SubSeq(s, i, i + 1)[2] = s[i+1]
    BY <1>1, <1>3, SubSeqProperties
  <2>2. SubSeq(s, i, i + 1) = <<s[i], s[i+1]>>
    BY <2>1, Pair
  <2> QED
    BY <2>2
<1> QED
  BY <1>2, <1>3 DEF HasStop

\* It stays in any longer text.
LEMMA StopStays ==
    ASSUME NEW s \in Seq(Symbols), NEW t \in Seq(Symbols)
    PROVE  HasStop(s) => HasStop(s \o t) /\ HasStop(t \o s)
<1> SUFFICES ASSUME HasStop(s) PROVE HasStop(s \o t) /\ HasStop(t \o s)
  OBVIOUS
<1> DEFINE h == Part("stop", "head")  m == Part("stop", "middle")
<1>1. Len(s) \in Nat /\ Len(t) \in Nat
  BY LenProperties
<1>2. PICK i \in 1..Len(s) - 1 : s[i] = h /\ s[i+1] = m
  BY StopIs
<1>3. /\ s \o t \in Seq(Symbols) /\ Len(s \o t) = Len(s) + Len(t)
      /\ t \o s \in Seq(Symbols) /\ Len(t \o s) = Len(t) + Len(s)
  BY ConcatProperties
<1>4. (s \o t)[i] = s[i] /\ (s \o t)[i+1] = s[i+1]
  BY <1>1, ConcatProperties
<1>5. (t \o s)[Len(t) + i] = s[i] /\ (t \o s)[Len(t) + i + 1] = s[i+1]
  BY <1>1, ConcatProperties
<1> HIDE DEF h, m
<1>6. \E j \in 1..Len(s \o t) - 1 : (s \o t)[j] = h /\ (s \o t)[j+1] = m
  BY <1>1, <1>2, <1>3, <1>4
<1>7. \E j \in 1..Len(t \o s) - 1 : (t \o s)[j] = h /\ (t \o s)[j+1] = m
  <2>1. Len(t) + i \in 1..Len(t \o s) - 1
    BY <1>1, <1>3
  <2> QED
    BY <1>2, <1>5, <2>1
<1> QED
  BY <1>3, <1>6, <1>7, StopIs DEF h, m

LEMMA StopGrows ==
    ASSUME NEW s \in Seq(Symbols), NEW e \in Symbols, HasStop(s)
    PROVE  HasStop(Append(s, e))
<1>1. Append(s, e) = s \o <<e>> /\ <<e>> \in Seq(Symbols)
  BY AppendIsConcat
<1> QED
  BY <1>1, StopStays

\* The line that stops a session holds the marker.
LEMMA StopLine == HasStop(Text("stop"))
<1>1. Text("stop") \in Seq(Symbols)
  BY TextTypes
<1>2. /\ Len(Text("stop")) = 3
      /\ Text("stop")[1] = Part("stop", "head") /\ Text("stop")[2] = Part("stop", "middle")
  BY DEF Text
<1> QED
  BY <1>1, <1>2, StopIs

\* The end of the end of a text.
LEMMA RestOfRest ==
    ASSUME NEW s \in Seq(Symbols), NEW t \in Seq(Symbols), NEW v \in Seq(Symbols), IsRest(s \o t, v)
    PROVE  IsRest(t, v)
<1>1. PICK u \in Seq(Symbols) : v = u \o (s \o t)
  BY DEF IsRest
<1>2. v = (u \o s) \o t /\ u \o s \in Seq(Symbols)
  BY <1>1, ConcatProperties, ConcatAssociative
<1> QED
  BY <1>2 DEF IsRest

LEMMA StopInRest ==
    ASSUME NEW s \in Seq(Symbols), NEW t \in Seq(Symbols), IsRest(s, t), HasStop(s)
    PROVE  HasStop(t)
BY StopStays DEF IsRest

\* A symbol is added to a text and to its end.
LEMMA RestGrows ==
    ASSUME NEW s \in Seq(Symbols), NEW b \in Seq(Symbols), NEW v \in Seq(Symbols), NEW e \in Symbols,
           IsRest(s \o b, v)
    PROVE  IsRest(s \o Append(b, e), Append(v, e))
<1>1. PICK u \in Seq(Symbols) : v = u \o (s \o b)
  BY DEF IsRest
<1>2. /\ <<e>> \in Seq(Symbols) /\ s \o b \in Seq(Symbols)
      /\ Append(b, e) = b \o <<e>> /\ Append(v, e) = v \o <<e>>
  BY AppendIsConcat, ConcatProperties
<1>3. s \o (b \o <<e>>) = (s \o b) \o <<e>>
  BY <1>2, ConcatAssociative
<1>4. (u \o (s \o b)) \o <<e>> = u \o ((s \o b) \o <<e>>)
  BY <1>2, ConcatAssociative
<1>5. Append(v, e) = u \o (s \o Append(b, e))
  BY <1>1, <1>2, <1>3, <1>4
<1> QED
  BY <1>5 DEF IsRest

\* In the terms of the library.
LEMMA RestIsSuffix ==
    ASSUME NEW s \in Seq(Symbols), NEW t \in Seq(Symbols), IsRest(s, t)
    PROVE  IsSuffix(s, t)
<1>1. PICK u \in Seq(Symbols) : t = u \o s
  BY DEF IsRest
<1>2. /\ Len(s) \in Nat /\ Len(u) \in Nat /\ Len(t) = Len(u) + Len(s)
      /\ \A i \in 1..Len(s) : t[Len(u) + i] = s[i]
  BY <1>1, ConcatProperties, LenProperties
<1> DEFINE rs == Reverse(s)  rt == Reverse(t)
<1>3. /\ Len(rs) = Len(s) /\ Len(rt) = Len(t)
      /\ \A i \in 1..Len(s) : rs[i] = s[Len(s) - i + 1]
      /\ \A i \in 1..Len(t) : rt[i] = t[Len(t) - i + 1]
      /\ rs \in Seq(Symbols) /\ rt \in Seq(Symbols)
  <2>1. rs = [i \in 1..Len(s) |-> s[Len(s) - i + 1]] /\ rt = [i \in 1..Len(t) |-> t[Len(t) - i + 1]]
    BY DEF Reverse
  <2>2. /\ \A i \in 1..Len(s) : s[Len(s) - i + 1] \in Symbols
        /\ \A i \in 1..Len(t) : t[Len(t) - i + 1] \in Symbols
    BY <1>2, LenProperties, ElementOfSeq
  <2> HIDE DEF rs, rt
  <2> QED
    BY <1>2, <2>1, <2>2
<1> HIDE DEF rs, rt
<1>4. ASSUME NEW i \in 1..Len(s)
      PROVE  rt[i] = rs[i]
  <2>1. t[Len(u) + (Len(s) - i + 1)] = s[Len(s) - i + 1]
    BY <1>2
  <2>2. Len(t) - i + 1 = Len(u) + (Len(s) - i + 1)
    BY <1>2
  <2> QED
    BY <1>2, <1>3, <2>1, <2>2
<1>5. SubSeq(rs, 1, Len(rs)) = SubSeq(rt, 1, Len(rs))
  <2> DEFINE a == SubSeq(rs, 1, Len(rs))  b == SubSeq(rt, 1, Len(rs))
  <2>1. /\ a \in Seq(Symbols) /\ Len(a) = Len(s) /\ \A i \in 1..Len(s) : a[i] = rs[i]
    BY <1>2, <1>3, SubSeqFull
  <2>2. \A i \in 1..Len(rs) : rt[i] \in Symbols
    BY <1>2, <1>3, ElementOfSeq
  <2>3. /\ b \in Seq(Symbols) /\ Len(b) = Len(s) /\ \A i \in 1..Len(s) : b[i] = rt[i]
    BY <1>2, <1>3, <2>2, SubSeqProperties
  <2> HIDE DEF a, b
  <2>4. a = b
    BY <1>4, <2>1, <2>3, SeqEqual
  <2> QED
    BY <2>4 DEF a, b
<1> QED
  BY <1>2, <1>3, <1>5 DEF IsSuffix, IsPrefix, rs, rt

LEMMA TextInit == Init => TextInv
<1> SUFFICES ASSUME Init PROVE TextInv
  OBVIOUS
<1>1. wire \in Seq(Symbols) /\ incoming = wire /\ pending = <<>> /\ buffer = <<>>
  BY TypeInit DEF Init, Types
<1>2. incoming # <<>> => app = "codex" /\ pc = "idle"
  BY DEF Init
<1>3. pending \o (incoming \o buffer) = wire /\ wire = <<>> \o wire
  BY <1>1, ConcatEmptySeq
<1>4. IsRest(pending \o (incoming \o buffer), wire)
  BY <1>1, <1>3, NoText DEF IsRest
<1> QED
  BY <1>2, <1>4 DEF Init, TextInv

\* What a step that touches no text may do.
LEMMA TextUntouched ==
    ASSUME Types, Shape, TextInv,
           UNCHANGED <<app, incoming, pending, stopped, wire, buffer>>,
           Cancelled => Cancelled',
           pc' # pc => pc' # "push",
           pc' = "final" /\ pc # "final" => Cancelled,
           incoming # <<>> => pc' = pc \/ (app = "codex" /\ pc' \in {"idle", "top"}),
           app = "codex" /\ phase' = "exited" => phase = "exited" \/ pc = "final"
    PROVE  TextInv'
BY DEF TextInv, Types, Shape

LEMMA TextOthers ==
    ASSUME Types, Shape, TextInv,
           \/ CodexStart \/ RunBoardStart \/ RunBoardSpawns \/ RunBoardStarted
           \/ CreateBegins \/ CreateEnds \/ CodexFails \/ CodexEnds \/ NoAnswer \/ Ask \/ Answer \/ Write
           \/ RunBoardSends \/ RunBoardEnds \/ RunBoardFails \/ Reported
           \/ DisposeCancels \/ DisposeStep
           \/ \E w \in Workers : WorkerAnswers(w) \/ WorkerExits(w)
    PROVE  TextInv'
<1>1. CASE CodexStart \/ RunBoardStart \/ RunBoardSpawns \/ RunBoardStarted
  BY <1>1, TextUntouched
     DEF CodexStart, RunBoardStart, RunBoardSpawns, RunBoardStarted, Ends, Shape, TextInv, textVars,
         lineVars, endVars, Cancelled
<1>2. CASE CreateBegins \/ CreateEnds \/ CodexFails \/ CodexEnds
  BY <1>2, TextUntouched
     DEF CreateBegins, CreateEnds, CodexFails, CodexEnds, Goto, Ends, Shape, TextInv, textVars,
         lineVars, loopVars, endVars, Cancelled
<1>3. CASE NoAnswer \/ Ask \/ Answer \/ Write
  BY <1>3, TextUntouched
     DEF NoAnswer, Ask, Answer, Write, Goto, Shape, TextInv, textVars, lineVars, endVars, Cancelled
<1>4. CASE RunBoardSends \/ RunBoardEnds \/ RunBoardFails \/ Reported
  BY <1>4, TextUntouched
     DEF RunBoardSends, RunBoardEnds, RunBoardFails, Reported, Goto, Ends, Shape, TextInv, textVars,
         lineVars, endVars, Cancelled
<1>5. CASE DisposeCancels \/ DisposeStep
  BY <1>5, TextUntouched
     DEF DisposeCancels, DisposeStep, DisposeSource, DisposeJoins, DisposeKills, DisposeNulls, Types,
         textVars, lineVars, loopVars, Cancelled
<1>6. CASE \E w \in Workers : WorkerAnswers(w) \/ WorkerExits(w)
  BY <1>6, TextUntouched
     DEF WorkerAnswers, WorkerExits, textVars, lineVars, loopVars, endVars, Cancelled
<1> QED
  BY <1>1, <1>2, <1>3, <1>4, <1>5, <1>6

LEMMA TextReads ==
    ASSUME Types, Shape, TextInv, CodexReads
    PROVE  TextInv'
<1>1. /\ incoming \in Seq(Symbols) /\ pending \in Seq(Symbols) /\ buffer \in Seq(Symbols)
      /\ wire \in Seq(Symbols)
  BY DEF Types
<1>2. /\ app = "codex" /\ pc = "top" /\ phase = "running"
      /\ UNCHANGED <<app, phase, stopped, wire, disposer>>
  BY DEF CodexReads, Running, Goto, textVars, endVars
<1>3. CASE CodexOver
  <2>1. UNCHANGED <<incoming, pending, buffer>> /\ pc' = "final"
    BY <1>3 DEF CodexReads, Goto, textVars
  <2> QED
    BY <1>2, <1>3, <2>1 DEF TextInv, CodexOver, Cancelled
<1>4. CASE ~CodexOver
  <2> DEFINE chunk == IF incoming # <<>> THEN incoming ELSE buffer
             left == IF incoming # <<>> THEN buffer ELSE <<>>
  <2>1. chunk \in Seq(Symbols) /\ left \in Seq(Symbols) /\ chunk \o left = incoming \o buffer
    BY <1>1, NoText, ConcatEmptySeq
  <2>2. /\ buffer' = left
        /\ IF HasStop(chunk) THEN incoming' = chunk /\ pending' = pending /\ pc' = "push"
           ELSE incoming' = <<>> /\ pending' = pending \o chunk /\ pc' = "lines"
    BY <1>4 DEF CodexReads, Goto
  <2> HIDE DEF chunk, left
  <2>3. pending' \o (incoming' \o buffer') = pending \o (incoming \o buffer)
    <3>1. CASE HasStop(chunk)
      BY <2>1, <2>2, <3>1
    <3>2. CASE ~HasStop(chunk)
      <4>1. <<>> \o left = left
        BY <2>1, ConcatEmptySeq
      <4>2. (pending \o chunk) \o left = pending \o (chunk \o left)
        BY <1>1, <2>1, Regroup
      <4> QED
        BY <2>1, <2>2, <3>2, <4>1, <4>2
    <3> QED
      BY <3>1, <3>2
  <2>4. IsRest(pending' \o (incoming' \o buffer'), wire')
    BY <1>2, <2>3 DEF TextInv
  <2> QED
    BY <1>2, <2>2, <2>4 DEF TextInv, Cancelled
<1> QED
  BY <1>3, <1>4

LEMMA TextPushBack ==
    ASSUME Types, Shape, TextInv, PushBack
    PROVE  TextInv'
<1>1. incoming \in Seq(Symbols) /\ pending \in Seq(Symbols) /\ buffer \in Seq(Symbols)
  BY DEF Types
<1>2. /\ UNCHANGED <<app, phase, pending, stopped, wire, disposer>>
      /\ phase = "running" /\ pc = "push" /\ pc' = "final"
      /\ incoming' = <<>> /\ buffer' = incoming \o buffer
  BY DEF PushBack, Running, Goto, endVars
<1>3. incoming \o buffer \in Seq(Symbols) /\ <<>> \o (incoming \o buffer) = incoming \o buffer
  BY <1>1, ConcatProperties, ConcatEmptySeq
<1>4. HasStop(buffer')
  BY <1>1, <1>2, StopStays DEF TextInv
<1>5. IsRest(pending' \o (incoming' \o buffer'), wire')
  BY <1>2, <1>3 DEF TextInv
<1> QED
  BY <1>2, <1>4, <1>5 DEF TextInv, Cancelled

LEMMA TextConsume ==
    ASSUME Types, Shape, TextInv, Consume
    PROVE  TextInv'
<1>1. /\ incoming \in Seq(Symbols) /\ pending \in Seq(Symbols) /\ buffer \in Seq(Symbols)
      /\ wire \in Seq(Symbols)
  BY DEF Types
<1>2. /\ UNCHANGED <<app, phase, incoming, buffer, wire, disposer>>
      /\ pc = "lines" /\ pc' \in {"top", "create", "lines"} /\ phase = "running"
  BY DEF Consume, Running, Goto, lineVars, endVars
<1>3. incoming = <<>>
  BY <1>2 DEF TextInv
<1>4. CASE ~HasLine(pending)
  BY <1>2, <1>3, <1>4 DEF Consume, TextInv, Cancelled
<1>5. CASE HasLine(pending)
  <2> DEFINE line == SubSeq(pending, 1, FirstEnd(pending))
             tail == SubSeq(pending, FirstEnd(pending) + 1, Len(pending))
  <2>1. line \in Seq(Symbols) /\ tail \in Seq(Symbols) /\ pending = line \o tail
    BY <1>1, <1>5, TakeLine
  <2>2. pending' = tail /\ stopped' = (stopped \/ line = Text("stop"))
    BY <1>5 DEF Consume
  <2> HIDE DEF line, tail
  <2>3. /\ incoming \o buffer \in Seq(Symbols)
        /\ tail \o (incoming \o buffer) \in Seq(Symbols)
        /\ pending \o (incoming \o buffer) \in Seq(Symbols)
        /\ pending \o (incoming \o buffer) = line \o (tail \o (incoming \o buffer))
    <3>1. incoming \o buffer \in Seq(Symbols)
      BY <1>1, ConcatProperties
    <3>2. /\ tail \o (incoming \o buffer) \in Seq(Symbols)
          /\ pending \o (incoming \o buffer) \in Seq(Symbols)
      BY <1>1, <2>1, <3>1, ConcatProperties
    <3>3. (line \o tail) \o (incoming \o buffer) = line \o (tail \o (incoming \o buffer))
      BY <2>1, <3>1, Regroup
    <3> QED
      BY <2>1, <3>1, <3>2, <3>3
  <2>4. IsRest(pending \o (incoming \o buffer), wire)
    BY DEF TextInv
  <2>5. IsRest(tail \o (incoming \o buffer), wire)
    BY <1>1, <2>1, <2>3, <2>4, RestOfRest
  <2>6. stopped' => HasStop(wire)
    <3>1. line = Text("stop") => HasStop(pending \o (incoming \o buffer))
      BY <2>1, <2>3, StopLine, StopStays
    <3> QED
      BY <1>1, <2>2, <2>3, <2>4, <3>1, StopInRest DEF TextInv
  <2> QED
    BY <1>2, <1>3, <2>2, <2>5, <2>6 DEF TextInv, Shape
<1> QED
  BY <1>4, <1>5

LEMMA TextRunBoard ==
    ASSUME Types, Shape, TextInv, RunBoardReads
    PROVE  TextInv'
<1>1. /\ incoming \in Seq(Symbols) /\ pending \in Seq(Symbols) /\ buffer \in Seq(Symbols)
      /\ wire \in Seq(Symbols)
  BY DEF Types
<1>2. /\ app = "runboard" /\ pc = "top" /\ incoming = <<>>
      /\ UNCHANGED <<app, pending, stopped, wire, disposer>>
  BY DEF RunBoardReads, TextInv, endVars
<1>3. CASE Cancelled
  BY <1>2, <1>3 DEF RunBoardReads, Ends, TextInv, Cancelled
<1>4. CASE ~Cancelled
  <2>1. /\ buffer' = <<>>
        /\ IF HasStop(buffer) THEN incoming' = buffer /\ pc' = "push"
           ELSE incoming' = <<>> /\ pc' \in {"top", "send"}
    BY <1>2, <1>4 DEF RunBoardReads, Goto
  <2>2. <<>> \o buffer = buffer /\ buffer \o <<>> = buffer /\ wire \o <<>> = wire /\ <<>> \o <<>> = <<>>
    BY <1>1, NoText, ConcatEmptySeq
  <2>3. IsRest(buffer, wire) /\ IsRest(<<>>, wire) /\ pending = <<>>
    BY <1>1, <1>2, <2>2 DEF TextInv, IsRest
  <2>4. IsRest(pending' \o (incoming' \o buffer'), wire')
    BY <1>2, <2>1, <2>2, <2>3
  <2> QED
    BY <1>2, <2>1, <2>4 DEF TextInv, Shape
<1> QED
  BY <1>3, <1>4

LEMMA TextPump ==
    ASSUME Types, Shape, TextInv, Pump
    PROVE  TextInv'
<1>1. /\ incoming \in Seq(Symbols) /\ pending \in Seq(Symbols) /\ buffer \in Seq(Symbols)
      /\ wire \in Seq(Symbols)
  BY DEF Types
<1>2. PICK s \in Symbols : wire' = Append(wire, s) /\ buffer' = Append(buffer, s)
  BY DEF Pump
<1>3. UNCHANGED <<app, phase, pc, incoming, pending, stopped, disposer>>
  BY DEF Pump, loopVars, textVars, endVars
<1>4. IsRest(pending \o (incoming \o Append(buffer, s)), Append(wire, s))
  <2>1. pending \o incoming \in Seq(Symbols) /\ Append(buffer, s) \in Seq(Symbols)
    BY <1>1, ConcatProperties, AppendProperties
  <2>2. IsRest((pending \o incoming) \o buffer, wire)
    BY <1>1, Regroup DEF TextInv
  <2>3. IsRest((pending \o incoming) \o Append(buffer, s), Append(wire, s))
    BY <1>1, <2>1, <2>2, RestGrows
  <2>4. pending \in Seq(Symbols) /\ incoming \in Seq(Symbols)
    BY <1>1
  <2>5. (pending \o incoming) \o Append(buffer, s) = pending \o (incoming \o Append(buffer, s))
    BY <2>1, <2>4, Regroup
  <2> QED
    BY <2>3, <2>5
<1>5. (HasStop(wire) => HasStop(wire')) /\ (HasStop(buffer) => HasStop(buffer'))
  BY <1>1, <1>2, StopGrows
<1> QED
  BY <1>2, <1>3, <1>4, <1>5 DEF TextInv, Cancelled

LEMMA TextStep ==
    ASSUME Types, Shape, TextInv, [Next]_vars
    PROVE  TextInv'
<1>1. CASE UNCHANGED vars
  BY <1>1 DEF TextInv, vars, loopVars, textVars, lineVars, endVars, Cancelled
<1> QED
  BY <1>1, TextOthers, TextReads, TextPushBack, TextConsume, TextRunBoard, TextPump DEF Next, LoopStep

-----------------------------------------------------------------------------
(***************************************************************************)
(* Where each class of session may stand.                                  *)
(***************************************************************************)
LEMMA ShapeStart ==
    ASSUME Types, Shape, CodexStart \/ RunBoardStart \/ RunBoardSpawns \/ RunBoardStarted
    PROVE  Shape'
BY DEF Types, Shape, CodexStart, RunBoardStart, RunBoardSpawns, RunBoardStarted, Ends, CodexPcs,
       StartPcs, endVars

LEMMA ShapeText ==
    ASSUME Types, Shape, CodexReads \/ PushBack \/ Consume \/ RunBoardReads
    PROVE  Shape'
<1>1. CASE CodexReads \/ PushBack \/ Consume
  BY <1>1 DEF Types, Shape, CodexReads, PushBack, Consume, Running, Goto, CodexPcs, endVars
<1>2. CASE RunBoardReads
  BY <1>2 DEF Types, Shape, RunBoardReads, Running, Goto, Ends, endVars
<1> QED
  BY <1>1, <1>2

LEMMA ShapeWork ==
    ASSUME Types, Shape, CreateBegins \/ CreateEnds \/ CodexFails \/ CodexEnds \/ NoAnswer
    PROVE  Shape'
BY DEF Types, Shape, CreateBegins, CreateEnds, CodexFails, CodexEnds, NoAnswer, Goto, Ends, CodexPcs,
       StartPcs, loopVars, endVars

LEMMA ShapeAsk ==
    ASSUME Types, Shape, Ask \/ Answer \/ Write
    PROVE  Shape'
BY DEF Types, Shape, Ask, Answer, Write, Goto, CodexPcs, StartPcs, loopVars, endVars

LEMMA ShapeOthers ==
    ASSUME Types, Shape,
           \/ RunBoardSends \/ RunBoardEnds \/ RunBoardFails \/ Reported
           \/ DisposeCancels \/ DisposeStep
           \/ Pump \/ \E w \in Workers : WorkerAnswers(w) \/ WorkerExits(w)
    PROVE  Shape'
<1>1. CASE RunBoardSends \/ RunBoardEnds \/ RunBoardFails \/ Reported
  BY <1>1 DEF Types, Shape, RunBoardSends, RunBoardEnds, RunBoardFails, Reported, Goto, Ends, CodexPcs,
              StartPcs, endVars
<1>2. CASE DisposeCancels \/ DisposeStep
  BY <1>2 DEF Types, Shape, DisposeCancels, DisposeStep, DisposeSource, DisposeJoins, DisposeKills,
              DisposeNulls, loopVars
<1>3. CASE Pump \/ \E w \in Workers : WorkerAnswers(w) \/ WorkerExits(w)
  BY <1>3 DEF Shape, Pump, WorkerAnswers, WorkerExits, loopVars, endVars
<1> QED
  BY <1>1, <1>2, <1>3

LEMMA ShapeStep ==
    ASSUME Types, Shape, [Next]_vars
    PROVE  Shape'
<1>1. CASE UNCHANGED vars
  BY <1>1 DEF Shape, vars, loopVars, endVars
<1> QED
  BY <1>1, ShapeStart, ShapeText, ShapeWork, ShapeAsk, ShapeOthers DEF Next, LoopStep

-----------------------------------------------------------------------------
(***************************************************************************)
(* The local processes.                                                    *)
(***************************************************************************)
LEMMA WorkInit == Init => WorkInv
BY SessionAssumption DEF Init, WorkInv, Dead, SourceDisposed

\* A step that starts, stops and hands over nothing.
LEMMA WorkUntouched ==
    ASSUME Types, Shape, WorkInv, UNCHANGED <<app, provider, made, lost>>,
           procs' \in [Workers -> Processes], \A w \in Workers : procs'[w].up => procs[w].up,
           made # NoWorker => pc' = "create",
           phase' = "new" \/ pc' = "spawn" => phase = "new" \/ pc = "spawn",
           disposer' = disposer, provider = NoWorker /\ pc \in {"final", "idle"} /\ app = "codex" => pc' = pc,
           app = "codex" /\ phase' = "exited" => phase = "exited"
    PROVE  WorkInv'
BY DEF Types, Shape, WorkInv, SourceDisposed

LEMMA WorkRunBoardSpawns ==
    ASSUME Types, Shape, WorkInv, RunBoardSpawns
    PROVE  WorkInv'
<1>1. /\ app = "runboard" /\ phase = "starting" /\ pc = "spawn" /\ provider = NoWorker /\ made = NoWorker
      /\ UNCHANGED <<app, made, disposer>> /\ disposer # "null"
  BY SessionAssumption DEF RunBoardSpawns, WorkInv, Shape, endVars
<1>2. CASE Ends("broken") /\ UNCHANGED <<procs, provider, lost>>
  BY <1>1, <1>2 DEF WorkInv, Ends, SourceDisposed
<1>3. ASSUME NEW w \in Workers, Spawn(w), provider' = w, phase' = phase, pc' \in {"ask", "failed"},
             lost' = IF SourceDisposed THEN lost \cup {w} ELSE lost
      PROVE  WorkInv'
  <2>1. procs' = [procs EXCEPT ![w] = Fresh] /\ procs \in [Workers -> Processes]
    BY <1>3, SpawnType DEF Types
  <2>2. \A v \in Workers : procs'[v].up => v = w \/ procs[v].up
    BY <2>1
  <2>3. \A v \in Workers : procs'[v].up => v \in {provider', made'} \cup lost'
    BY <1>1, <1>3, <2>2, SessionAssumption DEF WorkInv
  <2> QED
    BY <1>1, <1>3, <2>3 DEF WorkInv, SourceDisposed
<1> QED
  BY <1>1, <1>2, <1>3 DEF RunBoardSpawns

LEMMA WorkCreate ==
    ASSUME Types, Shape, WorkInv, CreateBegins \/ CreateEnds
    PROVE  WorkInv'
<1>1. pc = "create" /\ app = "codex" /\ phase = "running" /\ UNCHANGED <<app, disposer>>
  BY DEF CreateBegins, CreateEnds, Types, Shape, endVars
<1>2. CASE CreateBegins
  <2>1. made = NoWorker /\ UNCHANGED <<provider, lost>>
    BY <1>2 DEF CreateBegins
  <2>2. CASE UNCHANGED <<procs, made, phase>> /\ pc' \in {"ask", "failed"} /\ (provider = NoWorker => pc' = "failed")
    BY <1>1, <2>1, <2>2 DEF WorkInv, SourceDisposed
  <2>3. ASSUME NEW w \in Workers, Spawn(w), made' = w, provider = NoWorker, UNCHANGED <<phase, pc>>
        PROVE  WorkInv'
    <3>1. procs' = [procs EXCEPT ![w] = Fresh] /\ procs \in [Workers -> Processes]
      BY <2>3, SpawnType DEF Types
    <3>2. \A v \in Workers : procs'[v].up => v = w \/ procs[v].up
      BY <3>1
    <3>3. \A v \in Workers : procs'[v].up => v \in {provider', made'} \cup lost'
      BY <2>1, <2>3, <3>2, SessionAssumption DEF WorkInv
    <3> QED
      BY <1>1, <2>1, <2>3, <3>3, SessionAssumption DEF WorkInv, SourceDisposed
  <2> QED
    BY <1>2, <2>1, <2>2, <2>3 DEF CreateBegins, Goto, loopVars
<1>3. CASE CreateEnds
  <2>1. made # NoWorker /\ provider = NoWorker /\ disposer # "null" /\ made' = NoWorker /\ procs' = procs
    BY <1>1, <1>3 DEF CreateEnds, WorkInv
  <2>2. \/ provider' = made /\ lost' = lost /\ pc' = "ask" /\ phase' = phase
        \/ lost' = lost \cup {made} /\ provider' = provider /\ pc' = "failed" /\ phase' = phase
    BY <1>3 DEF CreateEnds, Goto
  <2>3. \A v \in Workers : procs'[v].up => v \in {provider', made'} \cup lost'
    BY <2>1, <2>2, SessionAssumption DEF WorkInv
  <2> QED
    BY <1>1, <2>1, <2>2, <2>3 DEF WorkInv, SourceDisposed
<1> QED
  BY <1>2, <1>3

\* The process of the provider is stopped and the provider forgotten.
LEMMA WorkForgets ==
    ASSUME Types, Shape, WorkInv, CodexFails \/ CodexEnds \/ NoAnswer \/ DisposeSource
    PROVE  WorkInv'
<1>1. CASE KillAndForget
  <2>1. \A w \in Workers : procs'[w] = IF w = provider THEN Dead ELSE procs[w]
    BY <1>1, KillType DEF KillAndForget
  <2>2. UNCHANGED <<app, made, lost>> /\ provider' = NoWorker
    BY <1>1 DEF CodexFails, CodexEnds, NoAnswer, DisposeSource, KillAndForget
  <2>3. \A w \in Workers : procs'[w].up => w \in {provider', made'} \cup lost'
    BY <2>1, <2>2 DEF WorkInv, Dead
  <2>4. CASE CodexFails \/ CodexEnds
    BY <2>2, <2>3, <2>4 DEF CodexFails, CodexEnds, Goto, Ends, WorkInv, Shape, endVars, SourceDisposed, Cancelled
  <2>5. CASE NoAnswer
    BY <1>1, <2>2, <2>3, <2>5 DEF NoAnswer, Goto, WorkInv, Shape, Types, endVars, SourceDisposed
  <2>6. CASE DisposeSource
    BY <2>2, <2>3, <2>6 DEF DisposeSource, WorkInv, loopVars, SourceDisposed
  <2> QED
    BY <2>4, <2>5, <2>6
<1>2. CASE ~KillAndForget
  <2>1. NoAnswer /\ UNCHANGED <<procs, provider>>
    BY <1>2 DEF CodexFails, CodexEnds, NoAnswer, DisposeSource
  <2> QED
    BY <2>1, WorkUntouched DEF NoAnswer, Goto, WorkInv, Types, endVars
<1> QED
  BY <1>1, <1>2

LEMMA WorkAsk ==
    ASSUME Types, Shape, WorkInv, Ask \/ Answer \/ Write
    PROVE  WorkInv'
<1>1. procs' \in [Workers -> Processes]
  BY TypeAsk DEF Types
<1>2. \A w \in Workers : procs'[w].up = procs[w].up
  BY <1>1 DEF Types, Ask, Answer, Write, workVars, Processes
<1> QED
  BY <1>1, <1>2, WorkUntouched DEF Ask, Answer, Write, Goto, WorkInv, Shape, workVars, endVars

LEMMA WorkOthers ==
    ASSUME Types, Shape, WorkInv,
           \/ CodexStart \/ RunBoardStart \/ RunBoardStarted
           \/ CodexReads \/ PushBack \/ Consume \/ RunBoardReads
           \/ RunBoardSends \/ RunBoardEnds \/ RunBoardFails \/ Reported
           \/ Pump \/ \E w \in Workers : WorkerAnswers(w) \/ WorkerExits(w)
    PROVE  WorkInv'
<1>1. CASE CodexStart \/ RunBoardStart \/ RunBoardStarted
  BY <1>1 DEF Types, Shape, WorkInv, CodexStart, RunBoardStart, RunBoardStarted, Ends, workVars, endVars,
              SourceDisposed
<1>2. CASE CodexReads \/ PushBack \/ Consume \/ RunBoardReads
  BY <1>2 DEF Types, Shape, WorkInv, CodexReads, PushBack, Consume, RunBoardReads, Running, Goto, Ends,
              workVars, endVars, SourceDisposed
<1>3. CASE RunBoardSends \/ RunBoardEnds \/ RunBoardFails \/ Reported
  BY <1>3 DEF Types, Shape, WorkInv, RunBoardSends, RunBoardEnds, RunBoardFails, Reported, Goto, Ends,
              workVars, endVars, SourceDisposed
<1>4. CASE Pump
  BY <1>4 DEF WorkInv, Pump, loopVars, workVars, endVars, SourceDisposed
<1>5. ASSUME NEW w \in Workers, WorkerAnswers(w) \/ WorkerExits(w)
      PROVE  WorkInv'
  <2>1. procs' \in [Workers -> Processes]
    BY <1>5, TypeOthers DEF Types
  <2>2. \A v \in Workers : procs'[v].up => procs[v].up
    BY <1>5, <2>1 DEF WorkerAnswers, WorkerExits, Types, Processes, Dead
  <2> QED
    BY <1>5, <2>1, <2>2, WorkUntouched DEF WorkerAnswers, WorkerExits, loopVars, endVars, WorkInv
<1> QED
  BY <1>1, <1>2, <1>3, <1>4, <1>5

LEMMA WorkDispose ==
    ASSUME Types, Shape, WorkInv, DisposeCancels \/ DisposeJoins \/ DisposeKills \/ DisposeNulls
    PROVE  WorkInv'
<1>1. CASE DisposeCancels \/ DisposeJoins
  BY <1>1 DEF Types, Shape, WorkInv, DisposeCancels, DisposeJoins, loopVars, workVars, SourceDisposed
<1>2. CASE DisposeKills
  <2>1. \A w \in Workers : procs'[w] = IF w = provider THEN Dead ELSE procs[w]
    BY <1>2, KillType DEF DisposeKills
  <2>2. /\ UNCHANGED <<app, phase, pc, provider, made, lost>>
        /\ app = "codex" /\ disposer' = IF provider = NoWorker THEN "closed" ELSE "null"
    BY <1>2 DEF DisposeKills, loopVars, Shape, Types
  <2>3. \A w \in Workers : procs'[w].up => w \in {provider', made'} \cup lost'
    BY <2>1, <2>2 DEF WorkInv, Dead
  <2>4. provider # NoWorker => ~procs'[provider].up
    BY <2>1 DEF Types, Dead
  <2> QED
    BY <2>2, <2>3, <2>4 DEF WorkInv, SourceDisposed
<1>3. CASE DisposeNulls
  BY <1>3 DEF Types, Shape, WorkInv, DisposeNulls, loopVars, SourceDisposed
<1> QED
  BY <1>1, <1>2, <1>3

LEMMA WorkStep ==
    ASSUME Types, Shape, WorkInv, [Next]_vars
    PROVE  WorkInv'
<1>1. CASE UNCHANGED vars
  BY <1>1 DEF WorkInv, vars, loopVars, workVars, endVars, SourceDisposed
<1> QED
  BY <1>1, WorkRunBoardSpawns, WorkCreate, WorkForgets, WorkAsk, WorkOthers, WorkDispose
     DEF Next, LoopStep, DisposeStep

-----------------------------------------------------------------------------
(***************************************************************************)
(* The request under way.                                                  *)
(***************************************************************************)
LEMMA AskInit == Init => AskInv
BY SessionAssumption DEF Init, AskInv, AnswersFresh

LEMMA DeadQuiet == \A w : procs'[w] \in {Dead, Fresh} => Quiet(w)'
BY DEF Dead, Fresh, Quiet

\* A step that leaves the pipes and the number alone.
LEMMA AskUntouched ==
    ASSUME Types, AskInv, UNCHANGED <<procs, provider, made, askVars>>,
           \/ provider = NoWorker \/ pc' = pc \/ pc' \in {"failed", "final", "idle"}
           \/ pc \notin {"answer", "failed", "final", "idle"} /\ pc' # "answer",
           pc' = "write" => pc = "write"
    PROVE  AskInv'
BY DEF Types, AskInv, Quiet, Asked, AnswersFresh, askVars

\* A step that leaves every process but a stopped or a new one alone.
LEMMA AskOthers ==
    ASSUME Types, Shape, WorkInv, AskInv,
           \/ CodexStart \/ RunBoardStart \/ RunBoardStarted
           \/ CodexReads \/ PushBack \/ Consume \/ RunBoardReads
           \/ RunBoardSends \/ RunBoardEnds \/ RunBoardFails \/ Reported
           \/ Pump \/ Write \/ DisposeCancels \/ DisposeJoins
    PROVE  AskInv'
<1>1. CASE CodexStart \/ RunBoardStart \/ RunBoardStarted
  BY <1>1, AskUntouched
     DEF CodexStart, RunBoardStart, RunBoardStarted, Ends, Shape, WorkInv, workVars
<1>2. CASE CodexReads \/ PushBack \/ Consume \/ RunBoardReads
  BY <1>2, AskUntouched
     DEF CodexReads, PushBack, Consume, RunBoardReads, Goto, Ends, workVars
<1>3. CASE RunBoardSends \/ RunBoardEnds \/ RunBoardFails \/ Reported \/ Write
  BY <1>3, AskUntouched
     DEF RunBoardSends, RunBoardEnds, RunBoardFails, Reported, Write, Goto, Ends, workVars
<1>4. CASE Pump \/ DisposeCancels \/ DisposeJoins
  BY <1>4, AskUntouched DEF Pump, DisposeCancels, DisposeJoins, loopVars, workVars, askVars
<1> QED
  BY <1>1, <1>2, <1>3, <1>4

LEMMA AskSpawns ==
    ASSUME Types, Shape, WorkInv, AskInv, RunBoardSpawns \/ CreateBegins \/ CreateEnds
    PROVE  AskInv'
<1>1. CASE RunBoardSpawns
  <2>1. made = NoWorker /\ made' = NoWorker /\ pc = "spawn" /\ pc' # "write" /\ provider = NoWorker
    BY <1>1 DEF RunBoardSpawns, Ends, WorkInv
  <2>2. CASE UNCHANGED <<procs, provider>>
    BY <1>1, <2>1, <2>2, AskUntouched DEF RunBoardSpawns, askVars
  <2>3. ASSUME NEW w \in Workers, Spawn(w), provider' = w
        PROVE  AskInv'
    <3>1. procs'[w] = Fresh
      BY <2>3, SpawnType DEF Types
    <3>2. pc' \in {"ask", "failed"}
      BY <1>1, <2>1, <2>3, SessionAssumption DEF RunBoardSpawns
    <3> QED
      BY <2>1, <2>3, <3>1, <3>2, DeadQuiet DEF AskInv, AnswersFresh
  <2> QED
    BY <1>1, <2>2, <2>3 DEF RunBoardSpawns
<1>2. CASE CreateBegins
  <2>1. pc = "create" /\ made = NoWorker /\ UNCHANGED <<provider, askVars>>
    BY <1>2 DEF CreateBegins
  <2>2. CASE UNCHANGED <<procs, made>> /\ pc' \in {"ask", "failed"}
    BY <2>1, <2>2, AskUntouched
  <2>3. ASSUME NEW w \in Workers, Spawn(w), made' = w, provider = NoWorker, UNCHANGED loopVars
        PROVE  AskInv'
    <3>1. procs'[w] = Fresh
      BY <2>3, SpawnType DEF Types
    <3> QED
      BY <2>1, <2>3, <3>1, DeadQuiet DEF AskInv, AnswersFresh, loopVars
  <2> QED
    BY <1>2, <2>1, <2>2, <2>3 DEF CreateBegins, Goto
<1>3. CASE CreateEnds
  <2>1. /\ pc = "create" /\ made # NoWorker /\ provider = NoWorker /\ Quiet(made)
        /\ made' = NoWorker /\ procs' = procs
    BY <1>3 DEF CreateEnds, WorkInv, AskInv
  <2>2. \/ provider' = made /\ pc' = "ask"
        \/ provider' = NoWorker /\ pc' = "failed"
    BY <1>3, <2>1 DEF CreateEnds, Goto
  <2> QED
    BY <1>3, <2>1, <2>2 DEF CreateEnds, AskInv, AnswersFresh, Quiet, askVars
<1> QED
  BY <1>1, <1>2, <1>3

LEMMA AskStops ==
    ASSUME Types, Shape, WorkInv, AskInv,
           \/ CodexFails \/ CodexEnds \/ NoAnswer
           \/ DisposeSource \/ DisposeKills \/ DisposeNulls \/ \E w \in Workers : WorkerExits(w)
    PROVE  AskInv'
<1>1. CASE NoAnswer /\ UNCHANGED <<procs, provider>>
  BY <1>1, AskUntouched DEF NoAnswer, Goto
<1>2. CASE DisposeNulls
  BY <1>2 DEF DisposeNulls, AskInv, Quiet, AnswersFresh, loopVars, askVars
<1>3. CASE KillAndForget /\ ~DisposeNulls
  <2>1. \A w \in Workers : procs'[w] = IF w = provider THEN Dead ELSE procs[w]
    BY <1>3, KillType DEF KillAndForget
  <2>2. provider' = NoWorker /\ made' = made /\ UNCHANGED <<sequence, got>> /\ (pc' = "write" => pc = "write")
    BY <1>3 DEF CodexFails, CodexEnds, NoAnswer, DisposeSource, DisposeKills, WorkerExits, KillAndForget,
                Goto, Ends, loopVars, askVars
  <2>3. made # NoWorker => Quiet(made)'
    BY <2>1, <2>2, DeadQuiet DEF AskInv, Quiet, Types
  <2> QED
    BY <2>2, <2>3 DEF AskInv, AnswersFresh
<1>4. CASE DisposeKills
  <2>1. \A w \in Workers : procs'[w] = IF w = provider THEN Dead ELSE procs[w]
    BY <1>4, KillType DEF DisposeKills
  <2>2. UNCHANGED <<pc, provider, made, sequence, got>>
    BY <1>4 DEF DisposeKills, loopVars, askVars
  <2>3. \A w \in Workers : w = provider \/ Quiet(w) => Quiet(w)'
    BY <2>1, DeadQuiet DEF Quiet
  <2> QED
    BY <2>2, <2>3 DEF AskInv, AnswersFresh, Asked, Quiet, Types
<1>5. ASSUME NEW w \in Workers, WorkerExits(w)
      PROVE  AskInv'
  <2>1. \A v \in Workers : procs'[v] = IF v = w THEN Dead ELSE procs[v]
    BY <1>5 DEF WorkerExits, Types
  <2>2. UNCHANGED <<pc, provider, made, sequence, got>>
    BY <1>5 DEF WorkerExits, loopVars, askVars
  <2>3. \A v \in Workers : (Quiet(v) => Quiet(v)') /\ (Asked(v) => Asked(v)')
    BY <2>1, <2>2, DeadQuiet DEF Quiet, Asked
  <2> QED
    BY <2>2, <2>3 DEF AskInv, AnswersFresh, Types
<1> QED
  BY <1>1, <1>2, <1>3, <1>4, <1>5 DEF CodexFails, CodexEnds, NoAnswer, DisposeSource

LEMMA AskAsks ==
    ASSUME Types, Shape, WorkInv, AskInv, Ask \/ Answer \/ \E w \in Workers : WorkerAnswers(w)
    PROVE  AskInv'
<1>1. CASE Ask
  <2>1. /\ pc = "ask" /\ made = NoWorker /\ UNCHANGED <<provider, made>>
    BY <1>1 DEF Ask, WorkInv
  <2>2. CASE provider # NoWorker /\ procs[provider].up
    <3>1. /\ procs' = [procs EXCEPT ![provider].jobs = Append(@, sequence')] /\ pc' = "answer"
          /\ provider \in Workers
      BY <1>1, <2>2 DEF Ask, Goto, Types
    <3>2. procs[provider].jobs = <<>> /\ procs[provider].replies = <<>>
      BY <2>1, <2>2 DEF AskInv, Quiet
    <3>3. procs'[provider].jobs = <<sequence'>> /\ procs'[provider].replies = <<>>
      BY <3>1, <3>2 DEF Types, Processes
    <3> QED
      BY <2>1, <3>1, <3>3 DEF AskInv, Asked, AnswersFresh
  <2>3. CASE ~(provider # NoWorker /\ procs[provider].up)
    BY <1>1, <2>1, <2>3 DEF Ask, Goto, AskInv, AnswersFresh
  <2> QED
    BY <2>2, <2>3
<1>2. CASE Answer
  <2>1. /\ pc = "answer" /\ provider \in Workers /\ provider # NoWorker /\ made = NoWorker
        /\ UNCHANGED <<provider, made, sequence>> /\ pc' \in {"write", "failed"}
        /\ procs[provider].replies # <<>> /\ got' = Head(procs[provider].replies)
        /\ procs' = [procs EXCEPT ![provider].replies = Tail(@)]
    BY <1>2 DEF Answer, WorkInv, Types
  <2>2. procs[provider].jobs = <<>> /\ procs[provider].replies = <<sequence>>
    BY <2>1 DEF AskInv, Asked, Quiet
  <2>3. got' = sequence'
    BY <2>1, <2>2
  <2>4. procs'[provider].jobs = <<>> /\ procs'[provider].replies = <<>>
    BY <2>1, <2>2 DEF Types, Processes
  <2> QED
    BY <2>1, <2>3, <2>4 DEF AskInv, Quiet, AnswersFresh
<1>3. ASSUME NEW w \in Workers, WorkerAnswers(w)
      PROVE  AskInv'
  <2>1. /\ procs[w].jobs # <<>> /\ UNCHANGED <<pc, provider, made, sequence, got>>
        /\ procs' = [procs EXCEPT ![w].jobs = Tail(@), ![w].replies = Append(@, Head(procs[w].jobs))]
    BY <1>3 DEF WorkerAnswers, loopVars, askVars
  <2>2. \A v \in Workers : v # w => procs'[v] = procs[v]
    BY <2>1 DEF Types, Processes
  <2>3. ~Quiet(w)
    BY <2>1 DEF Quiet
  <2>4. \A v \in Workers : Quiet(v) => Quiet(v)'
    BY <2>2, <2>3 DEF Quiet
  <2>5. Asked(w) => Asked(w)'
    <3>1. SUFFICES ASSUME Asked(w) PROVE Asked(w)'
      OBVIOUS
    <3>2. procs[w].jobs = <<sequence>> /\ procs[w].replies = <<>>
      BY <2>1, <3>1 DEF Asked, Quiet
    <3>3. Tail(procs[w].jobs) = <<>> /\ Append(procs[w].replies, Head(procs[w].jobs)) = <<sequence>>
      BY <3>2
    <3>4. procs'[w].jobs = <<>> /\ procs'[w].replies = <<sequence>>
      BY <2>1, <3>3 DEF Types, Processes
    <3> QED
      BY <2>1, <3>4 DEF Asked
  <2>6. \A v \in Workers : Asked(v) => Asked(v)'
    BY <2>1, <2>2, <2>5 DEF Asked, Quiet
  <2> QED
    BY <2>1, <2>4, <2>6 DEF AskInv, AnswersFresh, Types
<1> QED
  BY <1>1, <1>2, <1>3

LEMMA AskStep ==
    ASSUME Types, Shape, WorkInv, AskInv, [Next]_vars
    PROVE  AskInv'
<1>1. CASE UNCHANGED vars
  BY <1>1, AskUntouched DEF vars, loopVars, workVars, askVars
<1> QED
  BY <1>1, AskOthers, AskSpawns, AskStops, AskAsks DEF Next, LoopStep, DisposeStep

-----------------------------------------------------------------------------
(***************************************************************************)
(* The properties.                                                         *)
(***************************************************************************)
LEMMA InitInv == Init => IInv
<1>1. Init => Shape
  BY DEF Init, Shape, CodexPcs, StartPcs
<1> QED
  BY <1>1, TypeInit, WorkInit, AskInit, TextInit DEF IInv

LEMMA StepInv == IInv /\ [Next]_vars => IInv'
BY TypeStep, ShapeStep, WorkStep, AskStep, TextStep DEF IInv

THEOREM SessionInvariant == Spec => []IInv
<1>1. Init => IInv
  BY InitInv
<1>2. IInv /\ [Next]_vars => IInv'
  BY StepInv
<1> QED
  BY <1>1, <1>2, PTL DEF Spec

(***************************************************************************)
(* Every variable keeps its type, and no chunk of text is in hand while    *)
(* lines are taken apart and answered.                                     *)
(***************************************************************************)
THEOREM SessionTypes == Spec => []TypeOK
<1>1. IInv => TypeOK
  BY TypesEnough DEF IInv
<1> QED
  BY <1>1, SessionInvariant, PTL

(***************************************************************************)
(* What is written to the board answers the request under way: however     *)
(* many requests have timed out or failed, no late answer of an earlier    *)
(* one is left in the pipes of a process that is asked again.              *)
(***************************************************************************)
THEOREM SessionAnswersFresh == Spec => []AnswersFresh
<1>1. IInv => AnswersFresh
  BY DEF IInv, AskInv
<1> QED
  BY <1>1, SessionInvariant, PTL

\* What waits, with what is in hand, is the end of the board's text.
LEMMA WaitingIsRest ==
    ASSUME Types, TextInv
    PROVE  IsRest(incoming \o buffer, wire) /\ IsRest(buffer, wire)
<1>1. /\ incoming \in Seq(Symbols) /\ pending \in Seq(Symbols) /\ buffer \in Seq(Symbols)
      /\ wire \in Seq(Symbols) /\ IsRest(pending \o (incoming \o buffer), wire)
  BY DEF Types, TextInv
<1>2. incoming \o buffer \in Seq(Symbols)
  BY <1>1, ConcatProperties
<1>3. IsRest(incoming \o buffer, wire)
  BY <1>1, <1>2, RestOfRest
<1> QED
  BY <1>1, <1>3, RestOfRest

(***************************************************************************)
(* The text left for the board controller is the end of what the board     *)
(* sent, in order, whatever arrived while a chunk was in the loop's hands. *)
(***************************************************************************)
THEOREM SessionTextInOrder == Spec => []TextInOrder
<1>1. ASSUME Types, TextInv
      PROVE  TextInOrder
  <2>1. /\ incoming \in Seq(Symbols) /\ buffer \in Seq(Symbols) /\ wire \in Seq(Symbols)
        /\ incoming \o buffer \in Seq(Symbols) /\ <<>> \o buffer = buffer
    BY <1>1, ConcatProperties, ConcatEmptySeq DEF Types
  <2>2. IsSuffix(incoming \o buffer, wire) /\ IsSuffix(<<>> \o buffer, wire)
    BY <1>1, <2>1, WaitingIsRest, RestIsSuffix
  <2> QED
    BY <2>2 DEF TextInOrder
<1>2. IInv => TextInOrder
  BY <1>1 DEF IInv
<1> QED
  BY <1>2, SessionInvariant, PTL

(***************************************************************************)
(* A codex loop that ends by itself has either parsed the stop line or     *)
(* left the stop marker where the controller's stop dialogue will find it. *)
(***************************************************************************)
THEOREM SessionStopMarkerKept == Spec => []StopMarkerKept
<1>1. IInv => StopMarkerKept
  BY DEF IInv, TextInv, StopMarkerKept
<1> QED
  BY <1>1, SessionInvariant, PTL

(***************************************************************************)
(* When Dispose has returned and the loop is over, the only processes that *)
(* may still run are those that no object owned any more.                  *)
(***************************************************************************)
THEOREM SessionWorkersStopped == Spec => []WorkersStopped
<1>1. ASSUME Types, Shape, WorkInv
      PROVE  WorkersStopped
  <2> SUFFICES ASSUME disposer = "closed", phase \in {"exited", "broken"},
                      NEW w \in Workers \ lost, procs[w].up
               PROVE  FALSE
    BY DEF WorkersStopped
  <2>1. w \in {provider, made} \cup lost
    BY <1>1 DEF WorkInv
  <2>2. made = NoWorker
    BY <1>1 DEF WorkInv, Shape
  <2>3. provider \in lost \cup {NoWorker}
    BY <1>1 DEF WorkInv, Shape, Types, SourceDisposed
  <2> QED
    BY <2>1, <2>2, <2>3, SessionAssumption
<1>2. IInv => WorkersStopped
  BY <1>1 DEF IInv
<1> QED
  BY <1>2, SessionInvariant, PTL

-----------------------------------------------------------------------------
(***************************************************************************)
(* The life cycle: every step of the session is one of the abstract        *)
(* machine's, or leaves what it sees alone.                                *)
(***************************************************************************)
LEMMA LifeBegins == Init => Promise!Init
BY DEF Init, Promise!Init, Cancelled, Gone, HasStop

\* A loop that has seen the end of the application did not make it up.
LEMMA EndIsReal ==
    ASSUME Types, TextInv, pc = "final"
    PROVE  Cancelled \/ Gone
<1>1. buffer \in Seq(Symbols) /\ wire \in Seq(Symbols)
  BY DEF Types
<1>2. HasStop(buffer) => HasStop(wire)
  BY <1>1, WaitingIsRest, StopInRest
<1> QED
  BY <1>2 DEF TextInv, Gone

LEMMA LifeOfStart ==
    ASSUME Types, Shape, CodexStart \/ RunBoardStart \/ RunBoardSpawns \/ RunBoardStarted
    PROVE  [Promise!Next]_Promise!vars
<1>1. UNCHANGED <<app, wire, disposer, expired, frames>>
  BY DEF CodexStart, RunBoardStart, RunBoardSpawns, RunBoardStarted, lineVars, endVars
<1>2. UNCHANGED <<app = "runboard", Cancelled, disposer \in {"kill", "null", "closed"}, Gone>>
  BY <1>1 DEF Cancelled, Gone
<1>3. CASE CodexStart \/ RunBoardStart
  <2>1. Promise!Start
    BY <1>1, <1>2, <1>3 DEF CodexStart, RunBoardStart, Promise!Start, Promise!Becomes
  <2> QED
    BY <2>1 DEF Promise!Next
<1>4. CASE RunBoardSpawns \/ RunBoardStarted
  <2>1. CASE phase' = "broken"
    <3>1. Promise!StartThrows
      BY <1>1, <1>2, <1>4, <2>1
         DEF RunBoardSpawns, RunBoardStarted, Shape, Types, Promise!StartThrows, Promise!Becomes
    <3> QED
      BY <3>1 DEF Promise!Next
  <2>2. CASE phase' = phase
    BY <1>1, <1>2, <2>2 DEF Promise!vars
  <2>3. CASE phase' = "running"
    <3>1. Promise!Started
      BY <1>1, <1>2, <1>4, <2>3
         DEF RunBoardSpawns, RunBoardStarted, Ends, Shape, Promise!Started, Promise!Becomes
    <3> QED
      BY <3>1 DEF Promise!Next
  <2> QED
    BY <1>4, <2>1, <2>2, <2>3 DEF RunBoardSpawns, RunBoardStarted, Ends
<1> QED
  BY <1>3, <1>4

\* The loop ends, or fails, or does what nobody outside sees.
LEMMA LifeOfLoop ==
    ASSUME Types, Shape, TextInv,
           \/ CodexReads \/ PushBack \/ Consume \/ RunBoardReads
           \/ CreateBegins \/ CreateEnds \/ CodexFails \/ CodexEnds \/ NoAnswer \/ Ask \/ Answer
           \/ RunBoardSends \/ RunBoardEnds \/ RunBoardFails \/ Reported
    PROVE  [Promise!Next]_Promise!vars
<1>1. UNCHANGED <<app, wire, disposer, expired, frames>>
  BY DEF CodexReads, PushBack, Consume, RunBoardReads, CreateBegins, CreateEnds, CodexFails, CodexEnds,
         NoAnswer, Ask, Answer, RunBoardSends, RunBoardEnds, RunBoardFails, Reported, lineVars, endVars
<1>2. UNCHANGED <<app = "runboard", Cancelled, disposer \in {"kill", "null", "closed"}, Gone>>
  BY <1>1 DEF Cancelled, Gone
<1>3. CASE phase' = phase
  BY <1>1, <1>2, <1>3 DEF Promise!vars
<1>4. CASE CodexEnds \/ RunBoardEnds
  <2>1. phase = "running" /\ phase' = "exited" /\ (Cancelled \/ Gone)
    BY <1>4, EndIsReal DEF CodexEnds, RunBoardEnds, Ends, Shape, StartPcs, Types
  <2>2. Promise!Exit
    BY <1>1, <1>2, <2>1 DEF Promise!Exit, Promise!Becomes
  <2> QED
    BY <2>2 DEF Promise!Next
<1>5. CASE RunBoardReads /\ phase' # phase
  <2>1. phase = "running" /\ phase' = "exited" /\ Cancelled
    BY <1>5 DEF RunBoardReads, Running, Goto, Ends
  <2>2. Promise!Exit
    BY <1>1, <1>2, <2>1 DEF Promise!Exit, Promise!Becomes
  <2> QED
    BY <2>2 DEF Promise!Next
<1>6. CASE RunBoardFails
  <2>1. /\ app = "runboard" /\ phase \in {"starting", "running"}
        /\ phase' = IF phase = "starting" THEN "broken" ELSE IF Cancelled THEN "exited" ELSE "failing"
    BY <1>6 DEF RunBoardFails, Ends, Shape, Types
  <2>2. Promise!StartThrows \/ Promise!Exit \/ Promise!Fail
    BY <1>1, <1>2, <2>1 DEF Promise!StartThrows, Promise!Exit, Promise!Fail, Promise!Becomes
  <2> QED
    BY <2>2 DEF Promise!Next
<1>7. CASE Reported
  <2>1. Promise!Report
    BY <1>1, <1>2, <1>7 DEF Reported, Ends, Promise!Report, Promise!Becomes
  <2> QED
    BY <2>1 DEF Promise!Next
<1> QED
  BY <1>3, <1>4, <1>5, <1>6, <1>7
     DEF CodexReads, PushBack, Consume, CreateBegins, CreateEnds, CodexFails, NoAnswer, Ask, Answer,
         RunBoardSends, Goto, loopVars

LEMMA LifeOfWrite ==
    ASSUME Types, Shape, Write
    PROVE  [Promise!Next]_Promise!vars
<1>1. UNCHANGED <<app, phase, wire, disposer, expired>>
  BY DEF Write, Goto, lineVars, endVars
<1>2. UNCHANGED <<app = "runboard", Cancelled, disposer \in {"kill", "null", "closed"}, Gone>>
  BY <1>1 DEF Cancelled, Gone
<1>3. CASE frames' = frames
  BY <1>1, <1>2, <1>3 DEF Promise!vars
<1>4. CASE frames' = (frames + 1) % 2
  <2>1. phase \in {"starting", "running"} /\ (phase = "starting" => frames = 0)
    BY DEF Write, Shape, Types
  <2>2. Promise!Write
    BY <1>1, <1>2, <1>4, <2>1 DEF Promise!Write
  <2> QED
    BY <2>2 DEF Promise!Next
<1> QED
  BY <1>3, <1>4 DEF Write

LEMMA LifeOfDispose ==
    ASSUME Types, Shape, DisposeCancels \/ DisposeStep
    PROVE  [Promise!Next]_Promise!vars
<1>1. UNCHANGED <<app, phase, wire, frames>>
  BY DEF DisposeCancels, DisposeStep, DisposeSource, DisposeJoins, DisposeKills, DisposeNulls, lineVars, loopVars
<1>2. UNCHANGED <<app = "runboard", Gone>>
  BY <1>1 DEF Gone
<1>3. CASE DisposeCancels
  <2>1. Promise!Cancel
    BY <1>1, <1>2, <1>3 DEF DisposeCancels, Promise!Cancel, Cancelled
  <2> QED
    BY <2>1 DEF Promise!Next
<1>4. CASE DisposeJoins
  <2>1. Promise!Close
    BY <1>1, <1>2, <1>4 DEF DisposeJoins, Promise!Close, Promise!Live, Cancelled, Types, Shape
  <2> QED
    BY <2>1 DEF Promise!Next
<1>5. CASE DisposeSource \/ DisposeKills \/ DisposeNulls
  <2>1. UNCHANGED <<Cancelled, disposer \in {"kill", "null", "closed"}, expired>>
    BY <1>5 DEF DisposeSource, DisposeKills, DisposeNulls, Cancelled
  <2> QED
    BY <1>1, <1>2, <2>1 DEF Promise!vars
<1> QED
  BY <1>3, <1>4, <1>5 DEF DisposeStep

LEMMA LifeOfOthers ==
    ASSUME Types, Pump \/ \E w \in Workers : WorkerAnswers(w) \/ WorkerExits(w)
    PROVE  [Promise!Next]_Promise!vars
<1>1. UNCHANGED <<app, phase, disposer, expired, frames>>
  BY DEF Pump, WorkerAnswers, WorkerExits, loopVars, endVars
<1>2. UNCHANGED <<app = "runboard", Cancelled, disposer \in {"kill", "null", "closed"}>>
  BY <1>1 DEF Cancelled
<1>3. CASE Gone' = Gone
  BY <1>1, <1>2, <1>3 DEF Promise!vars
<1>4. CASE Gone' = TRUE
  <2>1. Promise!Leave
    BY <1>1, <1>2, <1>4 DEF Promise!Leave
  <2> QED
    BY <2>1 DEF Promise!Next
<1>5. Gone => Gone'
  <2>1. CASE wire' = wire
    BY <2>1 DEF Gone
  <2>2. CASE Pump
    BY <2>2, StopGrows DEF Pump, Types, Gone
  <2> QED
    BY <2>1, <2>2 DEF WorkerAnswers, WorkerExits, lineVars
<1>6. Gone \in BOOLEAN /\ Gone' \in BOOLEAN
  BY DEF Gone, HasStop
<1>7. Gone' = Gone \/ Gone' = TRUE
  BY <1>5, <1>6
<1> QED
  BY <1>3, <1>4, <1>7

LEMMA LifeGoesOn == IInv /\ [Next]_vars => [Promise!Next]_Promise!vars
<1>1. CASE UNCHANGED vars
  <2>1. UNCHANGED <<app, phase, wire, disposer, expired, frames>>
    BY <1>1 DEF vars, loopVars, lineVars, endVars
  <2>2. UNCHANGED <<app = "runboard", Cancelled, disposer \in {"kill", "null", "closed"}, Gone>>
    BY <2>1 DEF Cancelled, Gone
  <2> QED
    BY <2>1, <2>2 DEF Promise!vars
<1> QED
  BY <1>1, LifeOfStart, LifeOfLoop, LifeOfWrite, LifeOfDispose, LifeOfOthers DEF Next, LoopStep, IInv

(***************************************************************************)
(* A session implements the life cycle that SerialDeviceConnection expects *)
(* of it: it fails only while it is wanted, ends only when told to or when *)
(* the application left, and writes no frame after its loop has ended.     *)
(***************************************************************************)
THEOREM SessionKeepsLifecycle == Spec => KeepsLifecycle
<1>1. Init => Promise!Init
  BY LifeBegins
<1>2. IInv /\ [Next]_vars => [Promise!Next]_Promise!vars
  BY LifeGoesOn
<1> QED
  BY <1>1, <1>2, SessionInvariant, PTL DEF Spec, KeepsLifecycle, Promise!Spec
=============================================================================
