---------------------------- MODULE DecimalText ----------------------------
(***************************************************************************)
(* The decimal-string grammar of decimal.rs, in which every amount crosses *)
(* the process boundary.  A text is what the scanner makes of it: a sign,  *)
(* the digits of the integer part, a point and the digits behind it, and   *)
(* whether anything follows.                                               *)
(***************************************************************************)
EXTENDS Decimal, Digits

CONSTANT SCALE_EXP   \* fractional digits (8 in the code)

ASSUME ScaleAssumption == SCALE_EXP \in Nat /\ SCALE = TenTo[SCALE_EXP]

\* There are no digits behind a point that is not there.
Texts ==
    {t \in [neg : BOOLEAN, int : Seq(0..9), dot : BOOLEAN, frac : Seq(0..9),
            rest : BOOLEAN] : t.dot \/ t.frac = << >>}

Refused(error) == [error |-> error, raw |-> 0]

Accepted(raw) == [error |-> "none", raw |-> raw]

AllZero(digits) == \A k \in DOMAIN digits : digits[k] = 0

\* The raw value without its sign.
Magnitude(t) ==
    Value(t.int) * SCALE + Value(t.frac) * TenTo[SCALE_EXP - Len(t.frac)]

\* Fractional digits beyond the scale are cut off.
BugParse(t) ==
    IF t.int = << >> THEN Refused("missing-integer-digit")
    ELSE IF t.int[1] = 0 /\ Len(t.int) > 1
         THEN Refused("leading-zero-in-integer-part")
    ELSE IF t.dot /\ t.frac = << >> THEN Refused("empty-fractional-part")
    ELSE IF t.rest THEN Refused("trailing-garbage")
    ELSE LET cut == [t EXCEPT !.frac = SubSeq(@, 1, Min({Len(@), SCALE_EXP}))]
         IN  Accepted(IF t.neg THEN -Magnitude(cut) ELSE Magnitude(cut))

\* Decimal::parse, error by error.  InvalidDigit is left out: the scanner has
\* already stopped at anything that is not a digit.
Parse(t) ==
    IF ~t.neg /\ t.int = << >> /\ ~t.dot /\ ~t.rest THEN Refused("empty-input")
    ELSE IF t.int = << >> THEN Refused("missing-integer-digit")
    ELSE IF t.int[1] = 0 /\ Len(t.int) > 1
         THEN Refused("leading-zero-in-integer-part")
    ELSE IF t.dot /\ t.frac = << >> THEN Refused("empty-fractional-part")
    ELSE IF t.rest THEN Refused("trailing-garbage")
    ELSE IF Len(t.frac) > SCALE_EXP THEN Refused("too-many-fractional-digits")
    ELSE IF t.neg /\ t.int = <<0>> /\ AllZero(t.frac) THEN Refused("negative-zero")
    ELSE IF ~Fits(Magnitude(t)) THEN Refused("overflow")
    ELSE Accepted(IF t.neg THEN -Magnitude(t) ELSE Magnitude(t))

\* to_decimal_string
ToDecimalString(raw) ==
    LET frac == TrimZeros(Padded(Abs(raw) % SCALE, SCALE_EXP))
    IN  [neg |-> raw < 0, int |-> Digits(Abs(raw) \div SCALE),
         dot |-> frac # << >>, frac |-> frac, rest |-> FALSE]
=============================================================================
