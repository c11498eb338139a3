------------------------------ MODULE Calendar ------------------------------
(***************************************************************************)
(* The two pieces of calendar arithmetic of utc_timestamp.rs, which no     *)
(* code relates to each other: the table of month lengths that             *)
(* parse_rfc3339 accepts a date by, and the closed formulas it converts    *)
(* the accepted date with.  A date is [y, m, d]; day 0 is 1970-01-01.      *)
(***************************************************************************)
EXTENDS Integers

\* is_leap_year
IsLeapYear(y) == y % 4 = 0 /\ (y % 100 # 0 \/ y % 400 = 0)

\* Every February has 29 days.  (Bug...: a wrong variant of the definition
\* that follows it, which a property must catch.)
BugLastDayOfMonth(y, m) ==
    IF m = 2 THEN 29 ELSE IF m \in {4, 6, 9, 11} THEN 30 ELSE 31

\* last_day_of_month
LastDayOfMonth(y, m) ==
    IF m = 2 THEN IF IsLeapYear(y) THEN 29 ELSE 28
    ELSE IF m \in {4, 6, 9, 11} THEN 30 ELSE 31

\* The quotient of a negative number is rounded toward zero.
BugEra(n, cycle) == IF n >= 0 THEN n \div cycle ELSE -((-n) \div cycle)

\* The cycle n lies in: (if n >= 0 { n } else { n - (cycle - 1) }) / cycle,
\* with a division that truncates.
Era(n, cycle) ==
    IF n >= 0 THEN n \div cycle ELSE -((cycle - 1 - n) \div cycle)

\* days_from_civil: years are counted from the first of March.
DaysFromCivil(y, m, d) ==
    LET year == IF m <= 2 THEN y - 1 ELSE y
        era  == Era(year, 400)
        yoe  == year - era * 400
        mp   == IF m > 2 THEN m - 3 ELSE m + 9
        doy  == (153 * mp + 2) \div 5 + d - 1
        doe  == yoe * 365 + yoe \div 4 - yoe \div 100 + doy
    IN  era * 146097 + doe - 719468

\* civil_from_days
CivilFromDays(day) ==
    LET z    == day + 719468
        era  == Era(z, 146097)
        doe  == z - era * 146097
        yoe  == (doe - doe \div 1460 + doe \div 36524 - doe \div 146096) \div 365
        doy  == doe - (365 * yoe + yoe \div 4 - yoe \div 100)
        mp   == (5 * doy + 2) \div 153
        m    == IF mp < 10 THEN mp + 3 ELSE mp - 9
        y    == yoe + era * 400
    IN  [y |-> IF m <= 2 THEN y + 1 ELSE y,
         m |-> m,
         d |-> doy - (153 * mp + 2) \div 5 + 1]
=============================================================================
