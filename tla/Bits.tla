-------------------------------- MODULE Bits --------------------------------
(***************************************************************************)
(* The bit puzzles of bits.c and the reference functions of tests.c.       *)
(*                                                                         *)
(* An int is the set of its bits that are one: & is intersection, ~ the    *)
(* complement, exactly 32 bits wide.  Signed overflow, which C leaves      *)
(* undefined, wraps as it does in the build.  A float is its three fields. *)
(***************************************************************************)
EXTENDS Integers, FiniteSetsExt

Bit  == 0 .. 31
int  == SUBSET Bit
ZERO == {}
ONE  == {0}

(* The C operators.                                                        *)
Not(x)    == Bit \ x
Lnot(x)   == IF x = ZERO THEN ONE ELSE ZERO
Xor(x, y) == (x \ y) \cup (y \ x)
Shl(x, n) == {i \in Bit : i - n \in x}
Sar(x, n) == {i \in Bit : IF i + n \in Bit THEN i + n \in x ELSE 31 \in x}

Carry(x, y, i) == \E j \in 0 .. i - 1 : /\ j \in x \cap y
                                        /\ j + 1 .. i - 1 \subseteq x \cup y
Plus(x, y) == {i \in Bit : Carry(x, y, i) <=> (i \in x <=> i \in y)}

Num(n)   == {i \in 0 .. 30 : (n \div 2 ^ i) % 2 = 1}     \* of n >= 0
Value(x) == MapThenSumSet(LAMBDA i : 2 ^ i, x)           \* of small x

-----------------------------------------------------------------------------
(* bits.c, the functions on ints.                                          *)

bitXor(x, y) == Not(Not(x \cap Not(y)) \cap Not(Not(x) \cap y))

tmin == Shl(ONE, 31)

isTmax(x) ==
    LET cond1    == Lnot(Xor(x, Not(Plus(x, ONE))))
        isNegOne == Lnot(Xor(Not(x), ZERO))
    IN  cond1 \cap Lnot(isNegOne)

allOddBits(x) ==
    LET m4   == Num(10) \cup Shl(Num(10), 4)    \* no carries in these sums
        m8   == m4 \cup Shl(m4, 8)
        mask == m8 \cup Shl(m8, 16)
    IN  Lnot(Xor(x \cap mask, mask))

negate(x) == Plus(Not(x), ONE)

isAsciiDigit(x) ==
    LET low   == x \cap Num(15)
        cond1 == Lnot(Xor(Num(3), Sar(x, 4)))
        cond2 == Lnot(Xor(Num(9) \cup low, Num(9))) \cup Lnot(Xor(Sar(low, 3), ZERO))
    IN  cond1 \cap cond2

conditional(x, y, z) ==
    LET isXTrue == Lnot(Lnot(Xor(x, ZERO)))
        maskY   == Sar(Shl(isXTrue, 31), 31)
    IN  (maskY \cap y) \cup (Not(maskY) \cap z)

isLessOrEqualByDifference(x, y) ==       \* mutant: trusts the sign of x - y
    Lnot(Xor(x, y)) \cup (Sar(Plus(x, negate(y)), 31) \cap ONE)

isLessOrEqual(x, y) ==
    LET equal        == Lnot(Xor(x, y))
        isXNotPos    == Sar(x, 31)
        isYPos       == Lnot(Sar(y, 31))
        isXMinusYPos == Lnot(Sar(Plus(x, negate(y)), 31))
        sameSign     == (Lnot(isXNotPos) \cap isYPos) \cup (isXNotPos \cap Lnot(isYPos))
    IN  equal \cup (isXNotPos \cap isYPos) \cup (sameSign \cap Lnot(isXMinusYPos))

logicalNeg(x) == Not(Sar(x \cup Plus(Not(x), ONE), 31)) \cap ONE

(* One halving of howManyBits: n if a bit at or above n is one, else 0.    *)
HighHalf(m, n) == IF Sar(m, n) # ZERO THEN n ELSE 0

howManyBits(x) ==
    LET signX == Sar(x, 31)
        m32   == (Not(signX) \cap x) \cup (signX \cap Not(x))
        bit16 == HighHalf(m32, 16)   m16 == Sar(m32, bit16)
        bit8  == HighHalf(m16, 8)    m8  == Sar(m16, bit8)
        bit4  == HighHalf(m8, 4)     m4  == Sar(m8, bit4)
        bit2  == HighHalf(m4, 2)     m2  == Sar(m4, bit2)
        bit1  == HighHalf(m2, 1)     m1  == Sar(m2, bit1)
    IN  bit16 + bit8 + bit4 + bit2 + bit1 + Value(m1) + 1

-----------------------------------------------------------------------------
(* bits.c, the functions on floats.                                        *)

INT_MIN == -2147483647 - 1
float   == [sign : {0, 1}, exp : 0 .. 255, frac : 0 .. 2 ^ 23 - 1]

F(sign, exp, frac) == [sign |-> sign, exp |-> exp, frac |-> frac]
Inf(sign)          == F(sign, 255, 0)

(* (sign << 31) + (exp << 23) + frac, where frac may carry into exp.       *)
Packed(sign, exp, frac) == F(sign, exp + frac \div 2 ^ 23, frac % 2 ^ 23)

floatScale2(f) == IF f.exp = 255 THEN f
                  ELSE IF f.exp = 0 THEN Packed(f.sign, 0, 2 * f.frac)
                  ELSE Packed(f.sign, f.exp + 1, f.frac)

(* M << (E - 23) for E <= 31, where the highest bit is the sign.           *)
ShiftedBack(M, E) == M \div 2 ^ (E - 23)       \* mutant: to the right on both sides
ShiftedOut(M, E) == IF E < 31 THEN M * 2 ^ (E - 23) ELSE INT_MIN + (M - 2 ^ 23) * 2 ^ 8
Negated(n)       == IF n = INT_MIN THEN n ELSE -n

floatFloat2Int(f) ==
    LET E      == f.exp - 127
        M      == f.frac + 2 ^ 23
        result == IF E >= 23 THEN ShiftedOut(M, E) ELSE M \div 2 ^ (23 - E)
    IN  IF f.exp = 255 THEN INT_MIN
        ELSE IF f.exp = 0 THEN 0
        ELSE IF E > 31 THEN INT_MIN
        ELSE IF E < 0 THEN 0
        ELSE IF f.sign = 0 THEN result ELSE Negated(result)

floatPower2(x) == IF x < 0 THEN F(0, 0, 0)
                  ELSE IF x > 128 THEN Inf(0) ELSE F(0, x + 127, 0)

-----------------------------------------------------------------------------
(* tests.c.  Arithmetic on floats is the machine's (IEEE 754).             *)

Truth(P) == IF P THEN ONE ELSE ZERO

(* x <= y as numbers in two's complement.                                  *)
AtMost(x, y) == \/ x = y
                \/ 31 \in x \ y
                \/ /\ 31 \in x <=> 31 \in y
                   /\ x # y /\ Max(Xor(x, y)) \in y

test_bitXor(x, y)         == (x \cup y) \ (x \cap y)
test_tmin                 == {31}
test_isTmax(x)            == Truth(x = 0 .. 30)
test_allOddBits(x)        == Truth(\A i \in Bit : i % 2 = 1 => i \in x)
test_negate(x)            == IF x = ZERO THEN x ELSE {i \in Bit : (i \in x) = (i <= Min(x))}
test_isAsciiDigit(x)      == Truth(AtMost(Num(48), x) /\ AtMost(x, Num(57)))
test_conditional(x, y, z) == IF x # ZERO THEN y ELSE z
test_isLessOrEqual(x, y)  == Truth(AtMost(x, y))
test_logicalNeg(x)        == Truth(x = ZERO)
test_howManyBits(x) ==
    LET a == IF 31 \in x THEN Not(x) ELSE x
    IN  IF a = ZERO THEN 1 ELSE Max(a) + 2

test_floatScale2(f) ==
    CASE f.exp = 255 -> f
      [] f.exp = 254 -> Inf(f.sign)
      [] f.exp \in 1 .. 253 -> [f EXCEPT !.exp = @ + 1]
      [] f.exp = 0 -> IF 2 * f.frac < 2 ^ 23 THEN [f EXCEPT !.frac = 2 * @]
                      ELSE F(f.sign, 1, 2 * f.frac - 2 ^ 23)

(* Truncation toward zero; what does not fit is INT_MIN.                   *)
test_floatFloat2Int(f) ==
    LET M    == f.frac + 2 ^ 23
        size == IF f.exp >= 150 THEN M * 2 ^ (f.exp - 150) ELSE M \div 2 ^ (150 - f.exp)
    IN  CASE f.exp < 127 -> 0
          [] f.exp \in 127 .. 157 -> IF f.sign = 0 THEN size ELSE -size
          [] f.exp > 157 -> INT_MIN

test_floatPower2(x) ==
    CASE x > 127 -> Inf(0)
      [] x \in -126 .. 127  -> F(0, x + 127, 0)
      [] x \in -149 .. -127 -> F(0, 0, 2 ^ (x + 149))
      [] x < -149 -> F(0, 0, 0)
=============================================================================
