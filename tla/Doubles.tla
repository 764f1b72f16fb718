------------------------------ MODULE Doubles -------------------------------
(***************************************************************************)
(* The functions of libm that take a double apart by its bits, for a       *)
(* format of any size.  A double is its sign, the field of its exponent    *)
(* and its mantissa; the code holds the bits in two words, so that the     *)
(* mantissa has HighBits in one and LowBits in the other.                  *)
(***************************************************************************)
EXTENDS Integers

CONSTANTS
    ExpBits,     \* 11 in a double
    HighBits,    \* 20
    LowBits      \* 32

ManBits == HighBits + LowBits
ExpMax == 2^ExpBits - 1            \* 0x7ff: infinity and what is no number
Bias == 2^(ExpBits - 1) - 1        \* 0x3ff
Double == [sign : {0, 1}, exp : 0..ExpMax, man : 0..(2^ManBits - 1)]

\* Clears the bits of a word that a mask 2^k - 1 has.
Masked(word, mask) == word - (word % (mask + 1))

\* A word of ones, shifted to the right.
Mask(bits, shift) == (2^bits - 1) \div 2^shift

\* trunc.  The sum with huge is always positive.
trunc(x) ==
    LET j0   == x.exp - Bias
        high == x.man \div 2^LowBits
        low  == x.man % 2^LowBits
    IN  CASE j0 < 0 -> [x EXCEPT !.exp = 0, !.man = 0]
          [] 0 <= j0 /\ j0 < HighBits ->
                LET i == Mask(HighBits, j0)
                IN  IF high % (i + 1) = 0 /\ low = 0 THEN x ELSE [x EXCEPT !.man = Masked(high, i) * 2^LowBits]
          [] j0 >= HighBits /\ j0 <= ManBits - 1 ->
                [x EXCEPT !.man = high * 2^LowBits + Masked(low, Mask(LowBits, j0 - HighBits))]
          [] OTHER -> x

\* A double with exponent zero, times 2^k: exact if k is large enough.
Times2(x, k) ==
    LET e == CHOOSE n \in 1..(ExpMax - 1) : x.man * 2^k \in 2^(ManBits + n - 1)..(2^(ManBits + n) - 1)
    IN  [x EXCEPT !.exp = e, !.man = (x.man * 2^k) \div 2^(e - 1) - 2^ManBits]

\* frexp: the fraction and the exponent, which is left alone for infinity.
\* Scale is 64 for the mantissa of 52 bits.
Scale == ManBits + 2
frexp(x) ==
    LET Normal(y) == [x |-> [y EXCEPT !.exp = Bias - 1], e |-> y.exp - (Bias - 1)]
        n == Normal(Times2(x, Scale))
    IN  CASE x.exp = 0 /\ x.man = 0 -> [x |-> x, e |-> 0]
          [] x.exp = 0 /\ x.man # 0 -> [n EXCEPT !.e = @ - Scale]
          [] x.exp = ExpMax         -> [x |-> x, e |-> "left alone"]
          [] OTHER                  -> Normal(x)

-----------------------------------------------------------------------------
\* The number a double stands for, in units of the smallest one.
DoubleValue(x) ==
    (IF x.sign = 1 THEN -1 ELSE 1) * (IF x.exp = 0 THEN x.man ELSE (2^ManBits + x.man) * 2^(x.exp - 1))
DoubleOne == 2^(ManBits + Bias - 1)

\* trunc drops what is behind the point and keeps the sign, wherever the point
\* is in the two words; and frexp gives a fraction of at least a half and below
\* one, and the power of two that makes it the number again, the ones too small
\* to be normalised included.
TakenApart(x) ==
    LET v == DoubleValue(x)
        t == trunc(x)
        f == frexp(x)
    IN  x.exp # ExpMax =>
            /\ t.sign = x.sign
            /\ DoubleValue(t) = IF v >= 0 THEN v - (v % DoubleOne) ELSE v + ((-v) % DoubleOne)
            /\ v # 0 => /\ f.x.exp = Bias - 1 /\ f.x.sign = x.sign
                        /\ IF f.e >= 0 THEN DoubleValue(f.x) * 2^f.e = v ELSE DoubleValue(f.x) = v * 2^(-f.e)
=============================================================================
