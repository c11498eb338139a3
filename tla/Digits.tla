------------------------------- MODULE Digits -------------------------------
(***************************************************************************)
(* Sequences of decimal digits, as the two texts of the program hold them: *)
(* the decimals of decimal.rs and the timestamps of utc_timestamp.rs.      *)
(***************************************************************************)
EXTENDS Integers, Sequences, FiniteSetsExt

\* 10i128.pow(n); and a factor of ten for every digit that is missing.
TenTo[n \in Nat] == IF n = 0 THEN 1 ELSE 10 * TenTo[n - 1]

\* n with leading zeros up to the given width: {:0width$}
Padded(n, width) == [k \in 1..width |-> (n \div TenTo[width - k]) % 10]

\* Trailing zeros popped one by one.
TrimZeros(s) == SubSeq(s, 1, Max({0} \cup {k \in DOMAIN s : s[k] # 0}))

\* The number a sequence of digits denotes: value = value * 10 + digit.
Value(digits) ==
    LET upTo[k \in 0..Len(digits)] ==
            IF k = 0 THEN 0 ELSE 10 * upTo[k - 1] + digits[k]
    IN  upTo[Len(digits)]

\* n without leading zeros.
Digits(n) ==
    Padded(n, CHOOSE width \in 1..(n + 1) :
                  n < TenTo[width] /\ (width > 1 => n >= TenTo[width - 1]))
=============================================================================
