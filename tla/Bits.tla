-------------------------------- MODULE Bits --------------------------------
(***************************************************************************)
(* The puzzles of bits.c and the functions of tests.c they are compared    *)
(* with.  A word is the set of its one bits, so the operators of C are set *)
(* operators and 32 bits do not overflow TLC's integers; a reference       *)
(* computes on integers wherever its C code does.                          *)
(***************************************************************************)
EXTENDS Integers, FiniteSetsExt, SequencesExt

Sign == 31
Bit == 0 .. Sign
One == {0}

\* The word of an int, and the int of a word.
Word(v) == {i \in 0 .. Sign - 1 : (v \div 2^i) % 2 = 1} \cup (IF v < 0 THEN {Sign} ELSE {})
Int32(x) ==
  MapThenSumSet(LAMBDA i : 2^i, x \ {Sign})
    - (IF Sign \in x THEN 2^30 ELSE 0) - (IF Sign \in x THEN 2^30 ELSE 0)

Truth(b) == IF b THEN One ELSE {}
Not(x) == Bit \ x
Xor(x, y) == (x \ y) \cup (y \ x)
Shl(x, n) == {i + n : i \in x} \cap Bit
Shr(x, n) == {i - n : i \in x} \cap Bit
Sar(x, n) == Shr(x, n) \cup (IF Sign \in x THEN (Sign + 1 - n) .. Sign ELSE {})
Carry(x, y, i) == \E j \in x \cap y : j < i /\ (j + 1) .. (i - 1) \subseteq x \cup y
Plus(x, y) == {i \in Bit : (i \in Xor(x, y)) # Carry(x, y, i)}
Minus(x) == Plus(Not(x), One)

-----------------------------------------------------------------------------
(* bits.c.  A shift count is an int.                                       *)

bitAnd(x, y) == Not(Not(x) \cup Not(y))
getByte(x, n) == Sar(x, 8 * n) \cap 0 .. 7
\* For n = 0 the code shifts 0 by 32, which is 0 whatever the machine does.
logicalShift(x, n) == Sar(x, n) \cap Not(Shl(Not(Shl(Bit, n)), 32 - n))
bitCount(x) ==
  LET bits == FoldLeft(Plus, {}, [k \in 1 .. 8 |-> Sar(x, k - 1) \cap {0, 8, 16, 24}])
  IN  FoldLeft(Plus, {}, [k \in 1 .. 4 |-> Sar(bits, 8 * (k - 1)) \cap 0 .. 7])
bang(x) == Not(Sar(Minus(x \cap Minus(x)), 31)) \cap One
tmin == Shl(One, 31)
fitsBits(x, n) == Truth(Xor(x, Sar(Shl(x, 32 - n), 32 - n)) = {})
\* MUTANT: the bias of a negative dividend is 2^n
divpwr2Biased(x, n) == Sar(Plus(x, Shl(Sar(x, 31) \cap One, n)), n)
divpwr2(x, n) ==
  LET sign == Sar(x, 31) \cap One
  IN  Sar(Plus(Plus(Plus(x, Shl(sign, n)), Not(sign)), One), n)
negate(x) == Minus(x)
isPositive(x) == Truth(Sar(x, 31) \cap One = {}) \cap Truth(x # {})
isLessOrEqual(x, y) ==
  LET sign_x == Sar(x, 31) \cap One
      sign_y == Sar(y, 31) \cap One
      sign_x_m_y == Sar(Plus(Plus(x, Not(y)), One), 31) \cap One
  IN  Truth(x = y) \cup (Truth(sign_x = sign_y) \cap sign_x_m_y) \cup (Xor(sign_x, sign_y) \cap sign_x)

Smear(x, n) == x \cup Sar(x, n)
Mask(n) == {i \in Bit : i % (2 * n) < n}
Halves(x, n) == Plus(x \cap Mask(n), Sar(x, n) \cap Mask(n))
ilog2(x) ==
  Plus(Plus(FoldLeft(Halves, FoldLeft(Smear, x, <<1, 2, 4, 8, 16>>), <<1, 2, 4, 8, 16>>), Not(One)), One)

Exp(x) == Shr(x, 23) \cap 0 .. 7
Frac(x) == x \cap 0 .. 22
float_neg(uf) == IF Exp(uf) = 0 .. 7 /\ Frac(uf) # {} THEN uf ELSE Xor(uf, {Sign})
\* The loop moves the highest bit of the magnitude to the sign.
float_i2f(x) ==
  IF x = {} THEN {} ELSE IF x = {Sign} THEN x \cup Shl(Word(158), 23)
  ELSE \* x, shifted is the magnitude
    LET magnitude == IF Sign \in x THEN Minus(x) ELSE x
        e == 158 - (Sign - Max(magnitude))
        shifted == Shl(magnitude, 158 - e)
        frac == Shr(shifted \ {Sign}, 8)
        up == 7 \in shifted /\ (shifted \cap 0 .. 6 # {} \/ 0 \in frac)
    IN  Plus(Plus(x \cap {Sign}, Shl(Word(e), 23)), Plus(frac, Truth(up)))
float_twice(uf) ==
  CASE Exp(uf) = 0 .. 7 -> uf
    [] Exp(uf) = {} -> Plus(uf \ Frac(uf), Shl(Frac(uf), 1))
    [] OTHER -> Plus(uf, {23})

-----------------------------------------------------------------------------
(* tests.c                                                                 *)

test_bitAnd(x, y) == x \cap y
test_getByte(x, n) == Shr(x, 8 * (IF n \in 0 .. 2 THEN n ELSE 3)) \cap 0 .. 7
test_logicalShift(x, n) == Shr(x, n)
test_bitCount(x) == Word(Cardinality(x))
test_bang(x) == Truth(x = {})
test_tmin == {Sign}
\* With n = 32 the bounds wrap to TMin and TMax.
test_fitsBits(x, n) == Truth(n = 32 \/ Int32(x) \in -(2^(n - 1)) .. 2^(n - 1) - 1)
\* The division of C rounds to zero, \div rounds down.
test_divpwr2(x, n) ==
  LET v == Int32(x)
      floor == v \div 2^n
  IN  Word(IF v < 0 /\ floor * 2^n # v THEN floor + 1 ELSE floor)
test_negate(x) == IF x = {Sign} THEN x ELSE Word(-Int32(x))
test_isPositive(x) == Truth(Int32(x) > 0)
test_isLessOrEqual(x, y) == Truth(Int32(x) <= Int32(y))
\* The loop down from bit 31 ends at a one bit; without one it does not end.
Returns_ilog2(x) == x # {}
test_ilog2(x) == Word(Max(x))

(* The float operations of the machine, on patterns: -f, (float) x, 2 * f. *)
NaN(x) == Exp(x) = 0 .. 7 /\ Frac(x) # {}
FloatMinus(x) == Xor(x, {Sign})
FloatOf(x) == \* to the nearest, ties to an even fraction
  IF x = {} THEN {} ELSE IF x = {Sign} THEN x \cup Shl(Word(158), 23) ELSE
    LET v == Int32(x)
        a == IF v < 0 THEN -v ELSE v
        top == Max(Word(a))
        unit == 2^(top - 23)
        up == 2 * (a % unit) > unit \/ (2 * (a % unit) = unit /\ (a \div unit) % 2 = 1)
        norm == IF top <= 23 THEN a * 2^(23 - top) ELSE a \div unit + (IF up THEN 1 ELSE 0)
    IN  (x \cap {Sign}) \cup Word((126 + top) * 2^23 + norm)
FloatTwice(x) ==
  CASE Exp(x) = {} -> (x \cap {Sign}) \cup Shl(Frac(x), 1)
    [] Exp(x) = 0 .. 7 -> x
    [] Exp(x) = 1 .. 7 -> (x \cap {Sign}) \cup (23 .. 30)
    [] OTHER -> (x \cap {Sign}) \cup Shl(Word(Int32(Exp(x)) + 1), 23) \cup Frac(x)
test_float_neg(uf) == IF NaN(uf) THEN uf ELSE FloatMinus(uf)
test_float_i2f(x) == FloatOf(x)
test_float_twice(uf) == IF NaN(uf) THEN uf ELSE FloatTwice(uf)
=============================================================================
