--------------------------- MODULE OabiDivisionProofs ---------------------------
(*****************************************************************************)
(* The division routines are right for every width of a word: the types, the *)
(* loop invariant of divide_unsigned, the absence of overflow in its shift    *)
(* and the results the wrappers return.                                       *)
(*****************************************************************************)
EXTENDS OabiDivision, TLAPS

-----------------------------------------------------------------------------
(* Arithmetic the routines rest on.                                          *)

(* The powers of two that a word knows are positive, and each doubles the    *)
(* one before.                                                               *)
LEMMA PowFacts ==
    /\ \A i \in 0 .. W : Pow[i] \in Nat \ {0}
    /\ \A i \in 0 .. W - 1 : Pow[i + 1] = 2 * Pow[i]
    /\ Pow[W] \in Nat \ {0} /\ Pow[W - 1] \in Nat \ {0}
    /\ Pow[W] = 2 * Pow[W - 1]
BY WidthAssumption, PowAssumption

(* A right shift by i compared with d is a comparison with d shifted left.    *)
LEMMA ShiftCompare ==
    ASSUME NEW x \in Nat, NEW p \in Nat \ {0}, NEW d \in Nat
    PROVE  (x \div p >= d) <=> (x >= d * p)
OBVIOUS

(* Reducing a number that already fits changes nothing.                       *)
LEMMA ModSmall ==
    ASSUME NEW x \in Nat, NEW p \in Nat \ {0}, x < p
    PROVE  x % p = x
OBVIOUS

LEMMA DivExact ==
    ASSUME NEW k \in Nat, NEW p \in Nat \ {0}
    PROVE  (k * p) \div p = k
OBVIOUS

LEMMA ToWordSmall ==
    ASSUME NEW x \in Word
    PROVE  ToWord(x) = x
BY PowFacts, ModSmall DEF Word, ToWord

(* The bits of a factor that is a multiple of 2 * p are not set at p.         *)
LEMMA BitClear ==
    ASSUME NEW k \in Nat, NEW p \in Nat \ {0}
    PROVE  ((k * (2 * p)) \div p) % 2 # 1
<1>1. k * (2 * p) = (2 * k) * p
  OBVIOUS
<1>2. ((2 * k) * p) \div p = 2 * k
  BY DivExact, 2 * k \in Nat
<1>3. (2 * k) % 2 = 0
  OBVIOUS
<1> QED
  BY <1>1, <1>2, <1>3

(* A magnitude is a word; it is zero for zero only.                           *)
LEMMA MagnitudeFacts ==
    ASSUME NEW x, x \in Word \/ x \in Long
    PROVE  /\ Magnitude(x) \in Word
           /\ x \in Int
           /\ Magnitude(x) = IF x < 0 THEN -x ELSE x
<1>1. CASE x < 0
  <2>1. -x \in Word
    BY <1>1, PowFacts DEF Word, Long
  <2> QED
    BY <1>1, <2>1, ToWordSmall, PowFacts DEF Magnitude, Word, Long
<1>2. CASE ~(x < 0)
  BY <1>2, PowFacts DEF Magnitude, Word, Long
<1> QED
  BY <1>1, <1>2

-----------------------------------------------------------------------------
(* The step of the loop.                                                     *)

(* What the loop invariant says of the four words and the bit.                *)
LoopInv(q, x, d, a, n) ==
    /\ q * d + x = a
    /\ x < d * Pow[n]
    /\ \E k \in Word : q = k * Pow[n]

LEMMA SubtractStep ==
    ASSUME NEW q \in Word, NEW x \in Word, NEW d \in Word, d > 0, NEW a \in Word,
           NEW i \in 0 .. W - 1, LoopInv(q, x, d, a, i + 1),
           x \div Pow[i] >= d
    PROVE  /\ d * Pow[i] \in 0 .. x
           /\ (q \div Pow[i]) % 2 # 1
           /\ LoopInv(q + Pow[i], x - d * Pow[i], d, a, i)
           /\ q + Pow[i] \in Word
           /\ x - d * Pow[i] \in Word
<1> DEFINE p == Pow[i]
<1>1. p \in Nat \ {0} /\ Pow[i + 1] = 2 * p
  BY PowFacts, WidthAssumption
<1>2. q \in Nat /\ x \in Nat /\ d \in Nat /\ a \in Nat /\ a < Pow[W] /\ Pow[W] \in Nat
  BY PowFacts DEF Word
<1> HIDE DEF p
<1>3. x >= d * p
  BY <1>1, <1>2, ShiftCompare DEF p
<1>4. d * p \in Nat
  BY <1>1, <1>2
<1>5. PICK k \in Word : q = k * (2 * p)
  BY <1>1 DEF LoopInv
<1>6. k \in Nat
  BY <1>5, PowFacts DEF Word
<1>7. (q \div p) % 2 # 1
  BY <1>1, <1>5, <1>6, BitClear
<1>8. (q + p) * d + (x - d * p) = a
  <2>1. (q + p) * d = q * d + d * p
    BY <1>1, <1>2
  <2>2. q * d + x = a /\ q * d \in Nat
    BY <1>2 DEF LoopInv
  <2> QED
    BY <2>1, <2>2, <1>2, <1>4
<1>9. x - d * p < d * p
  <2>1. d * (2 * p) = d * p + d * p
    BY <1>1, <1>2
  <2> QED
    BY <2>1, <1>1, <1>2, <1>4 DEF LoopInv
<1>10. q + p = (2 * k + 1) * p
  BY <1>1, <1>5, <1>6
<1>11. q + p <= (q + p) * d
  BY <1>1, <1>2
<1>12. q + p \in Word
  <2>1. (q + p) * d <= a
    BY <1>8, <1>2, <1>3, <1>4, <1>1
  <2>2. (q + p) * d \in Nat
    BY <1>1, <1>2
  <2> QED
    BY <2>1, <2>2, <1>1, <1>2, <1>11 DEF Word
<1>13. 2 * k + 1 \in Word
  <2>1. 2 * k + 1 <= (2 * k + 1) * p
    BY <1>1, <1>6
  <2> QED
    BY <2>1, <1>10, <1>12, <1>6, <1>1, <1>2 DEF Word
<1>14. x - d * p \in Word
  BY <1>2, <1>3, <1>4, PowFacts DEF Word
<1> QED
  BY <1>2, <1>3, <1>4, <1>7, <1>8, <1>9, <1>10, <1>12, <1>13, <1>14 DEF LoopInv, p

LEMMA SkipStep ==
    ASSUME NEW q \in Word, NEW x \in Word, NEW d \in Word, NEW a \in Word,
           NEW i \in 0 .. W - 1, LoopInv(q, x, d, a, i + 1),
           ~(x \div Pow[i] >= d)
    PROVE  LoopInv(q, x, d, a, i)
<1> DEFINE p == Pow[i]
<1>1. p \in Nat \ {0} /\ Pow[i + 1] = 2 * p
  BY PowFacts, WidthAssumption
<1>2. q \in Nat /\ x \in Nat /\ d \in Nat /\ Pow[W] \in Nat
  BY PowFacts DEF Word
<1> HIDE DEF p
<1>3. x < d * p
  <2>1. ~(x >= d * p)
    BY <1>1, <1>2, ShiftCompare DEF p
  <2> QED
    BY <2>1, <1>1, <1>2
<1>4. PICK k \in Word : q = k * (2 * p)
  BY <1>1 DEF LoopInv
<1>5. k \in Nat
  BY <1>4, PowFacts DEF Word
<1>6. q = (2 * k) * p
  BY <1>1, <1>4, <1>5
<1>7. 2 * k \in Word
  <2>1. 2 * k <= (2 * k) * p
    BY <1>1, <1>5
  <2> QED
    BY <2>1, <1>6, <1>5, <1>1, <1>2 DEF Word
<1> QED
  BY <1>3, <1>6, <1>7 DEF LoopInv, p

-----------------------------------------------------------------------------
(* What a routine makes of a right quotient and remainder.                   *)

(* The quotient and the remainder of words are below the dividend and the     *)
(* divisor.                                                                   *)
LEMMA QuotientBound ==
    ASSUME NEW q \in Word, NEW r \in Word, NEW d \in Word, NEW a \in Word,
           d > 0, q * d + r = a, r < d
    PROVE  q <= a /\ r <= a /\ (d > 1 => q = 0 \/ q < a)
<1>1. q \in Nat /\ r \in Nat /\ d \in Nat /\ a \in Nat
  BY PowFacts DEF Word
<1>2. q <= q * d /\ q * d \in Nat
  BY <1>1
<1>3. d > 1 => q = 0 \/ q < q * d
  BY <1>1
<1> QED
  BY <1>1, <1>2, <1>3

(* A word that is a non-negative long reads the same both ways, and negation  *)
(* is exact for it.                                                           *)
LEMMA LongFacts ==
    ASSUME NEW w \in 0 .. Pow[W - 1] - 1
    PROVE  ToLong(w) = w /\ Negate(ToLong(w)) = -w
<1>1. ToLong(w) = w
  BY PowFacts DEF ToLong
<1>2. ToWord(-w) = IF w = 0 THEN 0 ELSE Pow[W] - w
  BY PowFacts DEF ToWord
<1> QED
  BY <1>1, <1>2, PowFacts DEF Negate, ToLong

(* The magnitude of the least long, read as a long, is the least long, and so *)
(* is its negative.                                                           *)
LEMMA LeastLong ==
    /\ ToLong(Pow[W - 1]) = -Pow[W - 1]
    /\ Negate(-Pow[W - 1]) = -Pow[W - 1]
<1>1. ToLong(Pow[W - 1]) = -Pow[W - 1]
  BY PowFacts DEF ToLong
<1>2. Pow[W - 1] \in Word
  BY PowFacts DEF Word
<1>3. ToWord(-(-Pow[W - 1])) = Pow[W - 1]
  BY <1>2, ToWordSmall, PowFacts
<1> QED
  BY <1>1, <1>3 DEF Negate

(* The product of two magnitudes with the signs put back.                     *)
LEMMA SignedProduct ==
    ASSUME NEW q \in Int, NEW y \in Int
    PROVE  /\ (-q) * y = -(q * y)
           /\ q * (-y) = -(q * y)
           /\ (-q) * (-y) = q * y
OBVIOUS

(* The results of the five routines.                                          *)
Good(c, q, r) ==
    /\ Magnitude(c.b) > 0
    /\ q * Magnitude(c.b) + r = Magnitude(c.a)
    /\ r < Magnitude(c.b)

IsCall(c) == \E op \in UnsignedOps \cup SignedOps :
                \E a, b \in Operands(op) : c = [op |-> op, a |-> a, b |-> b]

Right(c, res) ==
    ~(c.op = "__divsi3" /\ c.a = -Pow[W - 1] /\ c.b = -1)
        => /\ c.op \in QuotientOps => Truncated(res, c.a - res * c.b, c.a, c.b)
           /\ c.op \in RemainderOps =>
                \E q \in -Pow[W] .. Pow[W] : Truncated(q, res, c.a, c.b)
           /\ c.op = "__aeabi_uidivmod" =>
                \E q, r \in Word : /\ res = r * Pow[W] + q
                                   /\ Truncated(q, r, c.a, c.b)

LEMMA UnsignedResult ==
    ASSUME NEW c, IsCall(c), c.op \in UnsignedOps, NEW q \in Word, NEW r \in Word,
           Good(c, q, r)
    PROVE  Right(c, Returned(c, q, r))
<1>1. c.a \in Word /\ c.b \in Word
  BY DEF IsCall, Operands, UnsignedOps, SignedOps
<1>2. /\ Pow[W] \in Nat \ {0} /\ q \in Nat /\ r \in Nat /\ q < Pow[W]
      /\ c.a \in Nat /\ c.b \in Nat
  BY <1>1, PowFacts DEF Word
<1>3. Magnitude(c.a) = c.a /\ Magnitude(c.b) = c.b
  BY <1>2 DEF Magnitude
<1>4. c.b > 0 /\ q * c.b + r = c.a /\ r < c.b
  BY <1>3 DEF Good
<1>5. q * c.b \in Nat
  BY <1>2
<1>6. Truncated(q, r, c.a, c.b)
  BY <1>2, <1>4, <1>5 DEF Truncated
<1>7. CASE c.op = "__udivsi3"
  <2>1. Returned(c, q, r) = q
    BY <1>7 DEF Returned, QuotientOps, UnsignedOps
  <2>2. c.a - q * c.b = r
    BY <1>2, <1>4, <1>5
  <2> QED
    BY <1>7, <2>1, <2>2, <1>6 DEF Right, QuotientOps, RemainderOps
<1>8. CASE c.op = "__umodsi3"
  <2>1. Returned(c, q, r) = r
    BY <1>8 DEF Returned, QuotientOps, UnsignedOps
  <2>2. q \in -Pow[W] .. Pow[W]
    BY <1>2
  <2> QED
    BY <1>8, <2>1, <2>2, <1>6 DEF Right, QuotientOps, RemainderOps
<1>9. CASE c.op = "__aeabi_uidivmod"
  <2>1. Returned(c, q, r) = r * Pow[W] + q
    BY <1>9 DEF Returned, QuotientOps, UnsignedOps
  <2> QED
    BY <1>9, <2>1, <1>6 DEF Right, QuotientOps, RemainderOps
<1> QED
  BY <1>7, <1>8, <1>9 DEF UnsignedOps

LEMMA SignedResult ==
    ASSUME NEW c, IsCall(c), c.op \in SignedOps, NEW q \in Word, NEW r \in Word,
           Good(c, q, r)
    PROVE  Right(c, Returned(c, q, r))
<1> DEFINE x == c.a
           y == c.b
           mx == Magnitude(c.a)
           my == Magnitude(c.b)
           h == Pow[W - 1]
<1>1. x \in Long /\ y \in Long
  BY DEF IsCall, Operands, UnsignedOps, SignedOps
<1>2. h \in Nat \ {0} /\ Pow[W] = 2 * h
  BY PowFacts
<1>3. /\ mx \in Word /\ x \in Int /\ mx = IF x < 0 THEN -x ELSE x
      /\ my \in Word /\ y \in Int /\ my = IF y < 0 THEN -y ELSE y
  BY <1>1, MagnitudeFacts
<1>4. my > 0 /\ q * my + r = mx /\ r < my
  BY DEF Good
<1>5. q <= mx /\ r <= mx /\ (my > 1 => q = 0 \/ q < mx)
  BY <1>3, <1>4, QuotientBound
<1>6. q \in Nat /\ r \in Nat /\ mx \in Nat /\ my \in Nat
  BY <1>2, <1>3, PowFacts DEF Word
<1>7. mx <= h /\ my <= h /\ (x >= 0 => mx < h) /\ (mx = h => x = -h)
  BY <1>1, <1>2, <1>3 DEF Long
<1>8. -h \in Int /\ h # 0
  BY <1>2
<1> HIDE DEF x, y, mx, my, h
<1>9. q * my \in Nat
  BY <1>6
<1>10. r < h
  BY <1>4, <1>6, <1>7, <1>2
<1>11. CASE c.op = "__modsi3"
  <2>1. Returned(c, q, r) = IF x < 0 THEN -r ELSE r
    BY <1>11, <1>10, <1>6, <1>2, LongFacts DEF Returned, Negative, QuotientOps, UnsignedOps, x, h
  <2> DEFINE s == IF (x < 0) # (y < 0) THEN -q ELSE q
  <2>2. s \in -Pow[W] .. Pow[W]
    BY <1>2, <1>5, <1>6, <1>7
  <2>3. s * y = IF x < 0 THEN -(q * my) ELSE q * my
    BY <1>3, <1>6, SignedProduct
  <2>4. x = s * y + (IF x < 0 THEN -r ELSE r)
    BY <2>3, <1>3, <1>4, <1>6, <1>9
  <2>5. Truncated(s, IF x < 0 THEN -r ELSE r, x, y)
    <3> HIDE DEF s
    <3>1. /\ x >= 0 => (IF x < 0 THEN -r ELSE r) >= 0
          /\ x <= 0 => (IF x < 0 THEN -r ELSE r) <= 0
      <4>1. x = 0 => r = 0
        BY <1>3, <1>4, <1>5, <1>6
      <4> QED
        BY <4>1, <1>3, <1>6
    <3> QED
      BY <2>4, <3>1, <1>3, <1>4, <1>6 DEF Truncated
  <2> HIDE DEF s
  <2> QED
    BY <1>11, <2>1, <2>2, <2>5 DEF Right, QuotientOps, RemainderOps, x, y
<1>12. CASE c.op = "__divsi3"
  <2> SUFFICES ASSUME ~(x = -h /\ y = -1)
               PROVE  Right(c, Returned(c, q, r))
    BY <1>12 DEF Right, QuotientOps, RemainderOps, x, y, h
  <2> DEFINE s == IF (x < 0) # (y < 0) THEN -q ELSE q
  <2>1. Returned(c, q, r) = s
    <3>1. CASE q < h
      BY <3>1, <1>12, <1>6, <1>2, LongFacts DEF Returned, Negative, QuotientOps, UnsignedOps, x, y, h
    <3>2. CASE ~(q < h)
      <4>1. q = h /\ mx = h /\ x = -h
        BY <3>2, <1>2, <1>5, <1>6, <1>7
      <4>2. my = 1
        BY <4>1, <1>4, <1>5, <1>6, <1>8
      <4>3. y = 1
        BY <4>1, <4>2, <1>3
      <4>4. x < 0 /\ ~(y < 0)
        BY <4>1, <4>3, <1>2
      <4> QED
        BY <4>1, <4>4, <1>12, LeastLong DEF Returned, Negative, QuotientOps, UnsignedOps, x, y, h
    <3> QED
      BY <3>1, <3>2
  <2>2. s * y = IF x < 0 THEN -(q * my) ELSE q * my
    BY <1>3, <1>6, SignedProduct
  <2>3. x - s * y = IF x < 0 THEN -r ELSE r
    BY <2>2, <1>3, <1>4, <1>6, <1>9
  <2>4. s * y \in Int
    BY <1>3, <1>6
  <2>5. Truncated(s, x - s * y, x, y)
    <3> HIDE DEF s
    <3>1. x = s * y + (x - s * y)
      BY <2>4, <1>3
    <3>2. x = 0 => r = 0
      BY <1>3, <1>4, <1>5, <1>6
    <3> QED
      BY <2>3, <3>1, <3>2, <1>3, <1>4, <1>6 DEF Truncated
  <2> HIDE DEF s
  <2> QED
    BY <1>12, <2>1, <2>5 DEF Right, QuotientOps, RemainderOps, x, y
<1> QED
  BY <1>11, <1>12 DEF SignedOps

-----------------------------------------------------------------------------
(* The invariants of the specification.                                      *)

IInv == TypeOK /\ DivisionInvariant /\ DividesRight

LEMMA InitIInv == Init => IInv
BY PowFacts, WidthAssumption DEF Init, IInv, TypeOK, DivisionInvariant, DividesRight, Word

(* A routine other than a division by zero works on words.                    *)
LEMMA CallTypes ==
    ASSUME IsCall(call), call.b # 0
    PROVE  /\ Magnitude(call.a) \in Word /\ Magnitude(call.b) \in Word
           /\ Magnitude(call.b) > 0
<1>1. call.a \in Word \cup Long /\ call.b \in Word \cup Long
  BY DEF IsCall, Operands
<1>2. Magnitude(call.b) = IF call.b < 0 THEN -call.b ELSE call.b
  BY <1>1, MagnitudeFacts
<1>3. call.b \in Int
  BY <1>1, MagnitudeFacts
<1> QED
  BY <1>1, <1>2, <1>3, MagnitudeFacts

LEMMA NextIInv == IInv /\ [Next]_vars => IInv'
<1> SUFFICES ASSUME IInv, [Next]_vars PROVE IInv'
  OBVIOUS
<1> USE DEF IInv
<1>0. TypeOK /\ IsCall(call)
  BY DEF TypeOK, IsCall
<1>1. CASE ByZero
  <2>1. TypeOK'
    BY <1>1 DEF ByZero, TypeOK
  <2> QED
    BY <1>1, <2>1 DEF ByZero, DivisionInvariant, DividesRight
<1>2. CASE Begin
  <2>1. Magnitude(call.a) \in Word /\ Magnitude(call.b) \in Word /\ Magnitude(call.b) > 0
    BY <1>0, <1>2, CallTypes DEF Begin
  <2>2. 0 \in Word
    BY PowFacts DEF Word
  <2>3. TypeOK'
    BY <1>2, <2>1, <2>2, WidthAssumption DEF Begin, TypeOK
  <2>4. DivisionInvariant'
    <3> DEFINE d == Magnitude(call.b)
               x == Magnitude(call.a)
    <3> HIDE DEF d, x
    <3>1. d \in Nat \ {0} /\ x \in Nat /\ x < Pow[W] /\ Pow[W] \in Nat \ {0}
      BY <2>1, PowFacts DEF Word, d, x
    <3>2. Pow[W] <= d * Pow[W] /\ d * Pow[W] \in Nat
      BY <3>1
    <3>3. 0 * d + x = x /\ x < d * Pow[W] /\ 0 = 0 * Pow[W]
      BY <3>1, <3>2
    <3>4. bit' + 1 = W
      BY <1>2, WidthAssumption DEF Begin
    <3> QED
      BY <1>2, <2>1, <2>2, <3>3, <3>4 DEF Begin, DivisionInvariant, d, x
  <2> QED
    BY <1>2, <2>3, <2>4 DEF Begin, DividesRight
<1>3. CASE Subtract
  <2>1. /\ quotient \in Word /\ dividend \in Word /\ divisor \in Word /\ divisor > 0
        /\ Magnitude(call.a) \in Word /\ bit \in 0 .. W - 1
        /\ call.b # 0
    BY <1>0, <1>3, CallTypes DEF Subtract, TypeOK, DivisionInvariant
  <2>2. LoopInv(quotient, dividend, divisor, Magnitude(call.a), bit + 1)
    BY <1>3 DEF Subtract, DivisionInvariant, LoopInv
  <2>3. dividend \div Pow[bit] >= divisor
    BY <1>3 DEF Subtract, Fits
  <2>4. /\ divisor * Pow[bit] \in 0 .. dividend
        /\ (quotient \div Pow[bit]) % 2 # 1
        /\ LoopInv(quotient + Pow[bit], dividend - divisor * Pow[bit], divisor,
                   Magnitude(call.a), bit)
        /\ quotient + Pow[bit] \in Word
        /\ dividend - divisor * Pow[bit] \in Word
    BY <2>1, <2>2, <2>3, SubtractStep
  <2>5. divisor * Pow[bit] \in Word
    BY <2>1, <2>4, PowFacts DEF Word
  <2>6. /\ Shifted = divisor * Pow[bit]
        /\ dividend' = dividend - divisor * Pow[bit]
        /\ quotient' = quotient + Pow[bit]
    BY <1>3, <2>4, <2>5, ToWordSmall DEF Subtract, Shifted, WithBit
  <2>7. TypeOK'
    BY <1>0, <1>3, <2>1, <2>4, <2>6, WidthAssumption DEF Subtract, TypeOK
  <2>8. bit' + 1 = bit
    BY <1>3, <2>1 DEF Subtract
  <2>9. DivisionInvariant'
    BY <1>3, <2>4, <2>6, <2>8 DEF Subtract, DivisionInvariant, LoopInv
  <2> QED
    BY <1>3, <2>7, <2>9 DEF Subtract, DividesRight
<1>4. CASE Skip
  <2>1. /\ quotient \in Word /\ dividend \in Word /\ divisor \in Word /\ divisor > 0
        /\ Magnitude(call.a) \in Word /\ bit \in 0 .. W - 1
        /\ call.b # 0
    BY <1>0, <1>4, CallTypes DEF Skip, TypeOK, DivisionInvariant
  <2>2. LoopInv(quotient, dividend, divisor, Magnitude(call.a), bit + 1)
    BY <1>4 DEF Skip, DivisionInvariant, LoopInv
  <2>3. LoopInv(quotient, dividend, divisor, Magnitude(call.a), bit)
    BY <1>4, <2>1, <2>2, SkipStep DEF Skip, Fits
  <2>4. TypeOK'
    BY <1>0, <1>4, <2>1, WidthAssumption DEF Skip, TypeOK
  <2>5. bit' + 1 = bit
    BY <1>4, <2>1 DEF Skip
  <2>6. DivisionInvariant'
    BY <1>4, <2>3, <2>5 DEF Skip, DivisionInvariant, LoopInv
  <2> QED
    BY <1>4, <2>4, <2>6 DEF Skip, DividesRight
<1>5. CASE Return
  <2>1. Good(call, quotient, dividend)
    <3>1. Pow[bit + 1] = 1
      BY <1>5, PowAssumption DEF Return
    <3>2. divisor \in Nat /\ dividend \in Nat
      BY <1>0, PowFacts DEF TypeOK, Word
    <3> QED
      BY <1>5, <3>1, <3>2 DEF Return, DivisionInvariant, Good
  <2>2. quotient \in Word /\ dividend \in Word
    BY DEF TypeOK
  <2>3. Right(call, Returned(call, quotient, dividend))
    BY <1>0, <2>1, <2>2, UnsignedResult, SignedResult DEF IsCall
  <2>4. Returned(call, quotient, dividend) \in Int
    <3>1. \A w \in Word : ToLong(w) \in Int /\ Negate(ToLong(w)) \in Int /\ w \in Int
      BY PowFacts DEF Word, ToLong, Negate, ToWord
    <3>2. dividend * Pow[W] + quotient \in Int
      BY <2>2, PowFacts DEF Word
    <3> QED
      BY <1>0, <2>2, <3>1, <3>2 DEF Returned
  <2>5. TypeOK'
    BY <1>5, <2>4 DEF Return, TypeOK
  <2>6. DividesRight'
    BY <1>5, <2>3 DEF Return, DividesRight, Right
  <2> QED
    BY <1>5, <2>5, <2>6 DEF Return, DivisionInvariant
<1>6. CASE UNCHANGED vars
  BY <1>6 DEF vars, TypeOK, DivisionInvariant, DividesRight
<1> QED
  BY <1>1, <1>2, <1>3, <1>4, <1>5, <1>6 DEF Next

(* The variables of the division routines keep their types.                   *)
THEOREM DivisionTypeCorrect == Spec => []TypeOK
<1>1. IInv => TypeOK
  BY DEF IInv
<1> QED
  BY InitIInv, NextIInv, <1>1, PTL DEF Spec

(* The loop of divide_unsigned keeps its invariant, whatever the width.       *)
THEOREM LoopCorrect == Spec => []DivisionInvariant
<1>1. IInv => DivisionInvariant
  BY DEF IInv
<1> QED
  BY InitIInv, NextIInv, <1>1, PTL DEF Spec

(* The shift in the loop never loses a bit.                                   *)
THEOREM NoShiftOverflow == Spec => []ShiftFits
<1>1. IInv => ShiftFits
  <2> SUFFICES ASSUME IInv, pc = "loop", bit # -1, Fits
               PROVE  divisor * Pow[bit] \in 0 .. dividend
    BY DEF ShiftFits
  <2>1. TypeOK /\ IsCall(call) /\ DivisionInvariant
    BY DEF IInv, TypeOK, IsCall
  <2>2. /\ quotient \in Word /\ dividend \in Word /\ divisor \in Word /\ divisor > 0
        /\ Magnitude(call.a) \in Word /\ bit \in 0 .. W - 1
    BY <2>1, CallTypes DEF TypeOK, DivisionInvariant
  <2>3. LoopInv(quotient, dividend, divisor, Magnitude(call.a), bit + 1)
    BY <2>1 DEF DivisionInvariant, LoopInv
  <2> QED
    BY <2>2, <2>3, SubtractStep DEF Fits
<1> QED
  BY InitIInv, NextIInv, <1>1, PTL DEF Spec

(* Every routine returns C's quotient or remainder, whatever the width.       *)
THEOREM DivisionCorrect == Spec => []DividesRight
<1>1. IInv => DividesRight
  BY DEF IInv
<1> QED
  BY InitIInv, NextIInv, <1>1, PTL DEF Spec
=============================================================================
