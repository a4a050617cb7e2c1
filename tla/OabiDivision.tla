------------------------------ MODULE OabiDivision ------------------------------
(*****************************************************************************)
(* The integer division of the board programs.  The ARM920T has no divide     *)
(* instruction and the programs link no C library, so every / and % of        *)
(* codex_monitor.c and runboard.c is one of the routines at the end of        *)
(* oabi_runtime.c: a shift-and-subtract loop over the bits of the quotient,   *)
(* and wrappers that put the signs back.                                      *)
(*                                                                            *)
(* The width of a word is a parameter: 32 on the board.  Pow is the table of  *)
(* the powers of two, a constant so that the proofs need no recursion.        *)
(*****************************************************************************)
EXTENDS Integers

CONSTANTS W,    \* bits of an unsigned long
          Pow   \* Pow[i] is two to the power i

ASSUME WidthAssumption == W \in Nat \ {0}
ASSUME PowAssumption == /\ Pow \in [0 .. W -> Nat \ {0}]
                        /\ Pow[0] = 1
                        /\ \A i \in 0 .. W - 1 : Pow[i + 1] = 2 * Pow[i]

Word == 0 .. Pow[W] - 1
Long == -Pow[W - 1] .. Pow[W - 1] - 1

(* The bits of a long read as an unsigned long, and back.                     *)
ToWord(x) == x % Pow[W]
ToLong(w) == IF w >= Pow[W - 1] THEN w - Pow[W] ELSE w

UnsignedOps == {"__udivsi3", "__umodsi3", "__aeabi_uidivmod"}
SignedOps == {"__divsi3", "__modsi3"}
QuotientOps == {"__udivsi3", "__divsi3"}
RemainderOps == {"__umodsi3", "__modsi3"}
Operands(op) == IF op \in SignedOps THEN Long ELSE Word

VARIABLES
    pc,         \* "called", in the "loop" of divide_unsigned, or "done"
    call,       \* the routine and its arguments
    divisor,    \* the arguments of divide_unsigned; dividend shrinks to the
    dividend,   \* remainder
    quotient,
    bit,        \* the bit the loop is at; -1 after the last
    result      \* what the routine returned

vars == <<pc, call, divisor, dividend, quotient, bit, result>>

(* A routine is called.                                                       *)
Init == /\ pc = "called"
        /\ \E op \in UnsignedOps \cup SignedOps :
              \E a, b \in Operands(op) : call = [op |-> op, a |-> a, b |-> b]
        /\ divisor = 0 /\ dividend = 0 /\ quotient = 0 /\ bit = -1 /\ result = 0

(* Negation in longs: the least one is its own negative.                      *)
Negate(x) == ToLong(ToWord(-x))

Magnitude(x) == IF x < 0 THEN ToWord(-x) ELSE x

\* Mutant: the remainder takes the sign of the quotient.
SignsDiffer(c) == c.op \in SignedOps /\ (c.a < 0) # (c.b < 0)

Negative(c) == \/ c.op = "__divsi3" /\ (c.a < 0) # (c.b < 0)
               \/ c.op = "__modsi3" /\ c.a < 0

(* What a routine makes of the quotient q and the remainder r of its          *)
(* magnitudes: the pair is one double word with the remainder on top.         *)
Returned(c, q, r) ==
    LET v == IF c.op \in QuotientOps THEN q ELSE r
    IN  IF c.op = "__aeabi_uidivmod" THEN r * Pow[W] + q
        ELSE IF c.op \in UnsignedOps THEN v
        ELSE IF Negative(c) THEN Negate(ToLong(v)) ELSE ToLong(v)

(* The program divides by zero: the routine answers zero, there is no trap.   *)
ByZero ==
    /\ pc = "called" /\ call.b = 0
    /\ result' = 0
    /\ pc' = "done"
    /\ UNCHANGED <<call, divisor, dividend, quotient, bit>>

Begin ==
    /\ pc = "called" /\ call.b # 0
    /\ dividend' = Magnitude(call.a)
    /\ divisor' = Magnitude(call.b)
    /\ quotient' = 0
    /\ bit' = W - 1
    /\ pc' = "loop"
    /\ UNCHANGED <<call, result>>

(* The divisor shifted left, in a word.                                       *)
Shifted == ToWord(divisor * Pow[bit])

Fits == dividend \div Pow[bit] >= divisor

(* quotient |= 1UL << bit                                                     *)
WithBit == IF (quotient \div Pow[bit]) % 2 = 1 THEN quotient ELSE quotient + Pow[bit]

Subtract ==
    /\ pc = "loop" /\ bit # -1
    /\ Fits
    /\ dividend' = ToWord(dividend - Shifted)
    /\ quotient' = WithBit
    /\ bit' = bit - 1
    /\ UNCHANGED <<pc, call, divisor, result>>

Skip ==
    /\ pc = "loop" /\ bit # -1
    /\ ~Fits
    /\ bit' = bit - 1
    /\ UNCHANGED <<pc, call, divisor, dividend, quotient, result>>

Return ==
    /\ pc = "loop" /\ bit = -1
    /\ result' = Returned(call, quotient, dividend)
    /\ pc' = "done"
    /\ UNCHANGED <<call, divisor, dividend, quotient, bit>>

Next == ByZero \/ Begin \/ Subtract \/ Skip \/ Return

Spec == Init /\ [][Next]_vars

-----------------------------------------------------------------------------
(* The variables have their types; while the loop runs it divides a word by  *)
(* a word that is not zero (divide_unsigned).                                *)
TypeOK ==
    /\ pc \in {"called", "loop", "done"}
    /\ \E op \in UnsignedOps \cup SignedOps :
          \E a, b \in Operands(op) : call = [op |-> op, a |-> a, b |-> b]
    /\ divisor \in Word /\ dividend \in Word /\ quotient \in Word
    /\ bit \in -1 .. W - 1
    /\ result \in Int
    /\ pc = "loop" => call.b # 0

(* The loop invariant of divide_unsigned: what was subtracted so far is the   *)
(* quotient so far times the divisor, and what is left is below the divisor   *)
(* shifted by the bits already decided.                                       *)
DivisionInvariant ==
    pc = "loop" => /\ divisor = Magnitude(call.b) /\ divisor > 0
                   /\ quotient * divisor + dividend = Magnitude(call.a)
                   /\ dividend < divisor * Pow[bit + 1]
                   /\ \E k \in Word : quotient = k * Pow[bit + 1]

(* Whenever the loop subtracts, the shifted divisor fits a word and the       *)
(* difference does not wrap: what the comment in the loop claims              *)
(* ("Check before shifting; this prevents 32-bit overflow in divisor <<       *)
(* bit").                                                                     *)
ShiftFits == pc = "loop" /\ bit # -1 /\ Fits
                => divisor * Pow[bit] \in 0 .. dividend

(* q and r are the quotient and the remainder C defines for x and y: the      *)
(* quotient is truncated towards zero and the remainder has x's sign.         *)
Truncated(q, r, x, y) ==
    /\ x = q * y + r
    /\ x >= 0 => r >= 0
    /\ x <= 0 => r <= 0
    /\ IF y > 0 THEN -y < r /\ r < y ELSE y < r /\ r < -y

(* A routine that returned for a divisor other than zero returned what C      *)
(* requires of / and %, for every pair of arguments except the one whose      *)
(* quotient no long can hold, the least long divided by -1 (__udivsi3,        *)
(* __umodsi3, __divsi3, __modsi3, __aeabi_uidivmod).                          *)
DividesRight ==
    pc = "done" /\ call.b # 0 /\ ~(call.op = "__divsi3" /\ call.a = -Pow[W - 1] /\ call.b = -1)
        => /\ call.op \in QuotientOps =>
                Truncated(result, call.a - result * call.b, call.a, call.b)
           /\ call.op \in RemainderOps =>
                \E q \in -Pow[W] .. Pow[W] : Truncated(q, result, call.a, call.b)
           /\ call.op = "__aeabi_uidivmod" =>
                \E q, r \in Word : /\ result = r * Pow[W] + q
                                   /\ Truncated(q, r, call.a, call.b)
=============================================================================
