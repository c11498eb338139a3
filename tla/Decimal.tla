------------------------------ MODULE Decimal ------------------------------
(***************************************************************************)
(* The fixed-point arithmetic of decimal.rs.  A Decimal is its raw i128,   *)
(* the value times SCALE.  The callers never look at a failed operation:   *)
(* every checked_add/sub/mul is followed by unwrap_or(d), so each operator *)
(* here takes that default d and returns it when the raw result does not   *)
(* fit the integer.                                                        *)
(***************************************************************************)
EXTENDS Integers

CONSTANTS SCALE,      \* raw units per whole unit (10^8 in the code)
          RawMax      \* the largest raw value (2^127 - 1 in the code)

ASSUME DecimalAssumption == SCALE \in Nat \ {0} /\ RawMax \in Nat

Raw == -(RawMax + 1) .. RawMax

Fits(x) == -(RawMax + 1) <= x /\ x <= RawMax

\* unsigned_abs, and the absolute value of an f64
Abs(x) == IF x < 0 THEN -x ELSE x

\* Decimal::abs: the least value has no opposite.  i128::abs returns it as it
\* is in a release build; a build with overflow checks panics, which ends the
\* process as a crash before this step does.
AbsRaw(x) == IF Fits(Abs(x)) THEN Abs(x) ELSE x

\* Decimal::from_i64
FromI64(whole) == whole * SCALE

\* Rust's integer division truncates toward zero (d is positive).
DivTrunc(x, d) == IF x < 0 THEN -((-x) \div d) ELSE x \div d

\* The sum wraps around, as + does in a release build.  (Bug...: a wrong
\* variant of the definition that follows it, which a property must catch.)
BugAddOr(a, b, d) == ((a + b + RawMax + 1) % (2 * (RawMax + 1))) - RawMax - 1

AddOr(a, b, d) == IF Fits(a + b) THEN a + b ELSE d

SubOr(a, b, d) == IF Fits(a - b) THEN a - b ELSE d

\* checked_mul fails on the raw product, before it is scaled back down.
MulOr(a, b, d) == IF Fits(a * b) THEN DivTrunc(a * b, SCALE) ELSE d

\* n / d to the nearest integer, ties to even (n and d non-negative), as
\* the {:.8} formatting of the quotient rounds.
RoundDiv(n, d) ==
    LET q == n \div d
        r == n % d
    IN  IF 2 * r > d \/ (2 * r = d /\ q % 2 = 1) THEN q + 1 ELSE q

\* approx_div: the quotient rounded to the scale, zero when it is undefined
\* or does not parse back into a Decimal.  The f64 in between is taken to be
\* exact, which it is not beyond about 15 significant digits.
ApproxDiv(a, b) ==
    LET q == RoundDiv(Abs(a) * SCALE, Abs(b))
        signed == IF (a < 0) = (b < 0) THEN q ELSE -q
    IN  IF b = 0 \/ ~Fits(signed) THEN 0 ELSE signed
=============================================================================
