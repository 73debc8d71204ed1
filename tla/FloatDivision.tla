--------------------------- MODULE FloatDivision ---------------------------
(***************************************************************************)
(* The engines' division int(left / right): true division of two integers, *)
(* correctly rounded to a float of Precision bits, then cut towards zero.  *)
(* CPython's floats have 53 bits; the arguments below are the same for any *)
(* number of them.                                                         *)
(***************************************************************************)
EXTENDS Integers

CONSTANT Precision            \* bits of a float's significand

ASSUME PrecisionAssumption == Precision \in Nat \ {0}

VARIABLES dividend, divisor

divisionVars == << dividend, divisor >>

Abs(n) == IF n < 0 THEN - n ELSE n

\* n / d rounded to the nearest integer, to the even one in the middle.
Nearest(n, d) ==
    LET q == n \div d  rest == 2 * (n % d)
    IN IF rest > d \/ (rest = d /\ q % 2 = 1) THEN q + 1 ELSE q

\* Powers of two, and the exponents of significands: enough for any operands of
\* up to three significands' length.
Pow2[k \in Nat] == IF k = 0 THEN 1 ELSE 2 * Pow2[k - 1]
Exponents == (- 4 * Precision) .. 4 * Precision

\* n / d is scaled by 2^e to a significand in 2^(Precision - 1) .. 2^Precision - 1.
Fits(n, d, e) ==
    IF e >= 0 THEN n >= d * Pow2[Precision - 1 + e] /\ n < d * Pow2[Precision + e]
    ELSE n * Pow2[- e] >= d * Pow2[Precision - 1] /\ n * Pow2[- e] < d * Pow2[Precision]

\* The float nearest to n / d, cut towards zero.
CutFloat(n, d) ==
    LET e == CHOOSE x \in Exponents : Fits(n, d, x)
    IN IF n = 0 THEN 0
       ELSE IF e >= 0 THEN Nearest(n, d * Pow2[e]) * Pow2[e]
       ELSE Nearest(n * Pow2[- e], d) \div Pow2[- e]

\* The slip of a mutation, "M1 div-floor" of mutate.py: left // right.
DivideFloor(left, right) ==
    LET q == Abs(left) \div Abs(right)
    IN IF (left < 0) = (right < 0) THEN q
       ELSE IF Abs(left) % Abs(right) = 0 THEN - q ELSE - q - 1

Divide(left, right) ==
    LET q == CutFloat(Abs(left), Abs(right)) IN IF (left < 0) = (right < 0) THEN q ELSE - q

----------------------------------------------------------------------------
\* Division towards zero, as the specification of the language has it.
Truncated(left, right) ==
    LET q == Abs(left) \div Abs(right) IN IF (left < 0) = (right < 0) THEN q ELSE - q

\* int(left / right) is the quotient cut towards zero as long as the dividend
\* fits a significand, and no longer: the next dividend after that is wrong
\* already when it is divided by 1.
DivisionExactness ==
    /\ Abs(dividend) <= Pow2[Precision] => Divide(dividend, divisor) = Truncated(dividend, divisor)
    /\ Divide(Pow2[Precision] + 1, 1) # Truncated(Pow2[Precision] + 1, 1)
=============================================================================
