----------------------------- MODULE Timestamp -----------------------------
(***************************************************************************)
(* UtcTimestamp and its RFC 3339 text.  An instant is [secs, nanos].  The  *)
(* units of the day and the width of a fraction are constants, so that an  *)
(* instance can have short days; the calendar is the real one.             *)
(*                                                                         *)
(* A text is what the parser makes of it.  Its first 19 characters are     *)
(* read from left to right and the first that is wrong decides: flaw names *)
(* what is wrong with it, "none" when they are six numbers with their      *)
(* separators.  What follows is an optional fraction, a UTC designator and *)
(* perhaps a rest.                                                         *)
(***************************************************************************)
EXTENDS Calendar, Digits

CONSTANTS HoursPerDay, MinutesPerHour, SecondsPerMinute,   \* 24, 60, 60
          FracDigits,   \* digits of a nanosecond fraction (9)
          NanosPerSecond,   \* 1_000_000_000
          MaxYear       \* the last year of four digits (9999)

ASSUME UnitsAssumption ==
    /\ {HoursPerDay, MinutesPerHour, SecondsPerMinute} \subseteq 1..100
    /\ FracDigits \in Nat \ {0}
    /\ NanosPerSecond \in Nat \ {0} /\ NanosPerSecond = TenTo[FracDigits]
    /\ MaxYear \in Nat

SecondsPerHour == MinutesPerHour * SecondsPerMinute
SecondsPerDay == HoursPerDay * SecondsPerHour

Flaws == {"none", "invalid-digit", "invalid-date-separator",
          "invalid-time-separator"}

\* "+hh:mm" is an offset of zero or another one, cut short or without its
\* colon, or with a letter for a digit; a "word" is any other character.
Zones == {"Z", "zero-offset", "other-offset", "broken-offset",
          "lettered-offset", "word", "absent"}

\* from_unix: nanoseconds beyond a second are carried over.
FromUnix(secs, nanos) ==
    [secs |-> secs + nanos \div NanosPerSecond, nanos |-> nanos % NanosPerSecond]

\* checked_add_days
AddDays(t, days) == [t EXCEPT !.secs = @ + days * SecondsPerDay]

UnixEpoch == [secs |-> 0, nanos |-> 0]

Rejected(error) == [error |-> error, at |-> UnixEpoch]

\* The instant the fields of a text name.
InstantOf(t) ==
    [secs  |-> DaysFromCivil(t.year, t.month, t.day) * SecondsPerDay
                 + t.hour * SecondsPerHour + t.minute * SecondsPerMinute + t.second,
     nanos |-> Value(t.frac) * TenTo[FracDigits - Len(t.frac)]]

\* parse_rfc3339, error by error.  Overflow is left out: four digits of a
\* year cannot reach it.
ParseRfc3339(t) ==
    IF ~t.dot /\ t.zone = "absent" THEN Rejected("too-short")
    ELSE IF t.flaw # "none" THEN Rejected(t.flaw)
    ELSE IF t.month \notin 1..12 THEN Rejected("month-out-of-range")
    ELSE IF t.day \notin 1..LastDayOfMonth(t.year, t.month)
         THEN Rejected("day-out-of-range")
    ELSE IF t.hour >= HoursPerDay THEN Rejected("hour-out-of-range")
    ELSE IF t.minute >= MinutesPerHour THEN Rejected("minute-out-of-range")
    ELSE IF t.second >= SecondsPerMinute THEN Rejected("second-out-of-range")
    ELSE IF t.dot /\ Len(t.frac) \notin 1..FracDigits
         THEN Rejected("fraction-invalid")
    ELSE IF t.zone \in {"absent", "word"} THEN Rejected("missing-utc-designator")
    ELSE IF t.zone = "lettered-offset" THEN Rejected("invalid-digit")
    ELSE IF t.zone \in {"other-offset", "broken-offset"}
         THEN Rejected("unsupported-offset")
    ELSE IF t.rest THEN Rejected("trailing-garbage")
    ELSE [error |-> "none", at |-> InstantOf(t)]

\* The day of a negative instant is rounded toward zero.
BugDayOf(t) == IF t.secs >= 0 THEN t.secs \div SecondsPerDay
                              ELSE -((-t.secs) \div SecondsPerDay)

\* div_euclid
DayOf(t) == t.secs \div SecondsPerDay

\* to_rfc3339.  A year of five digits, or with a sign, shifts the characters
\* that follow it.
ToRfc3339(t) ==
    LET date == CivilFromDays(DayOf(t))
        time == t.secs - DayOf(t) * SecondsPerDay
    IN  [flaw   |-> IF date.y < 0 THEN "invalid-digit"
                    ELSE IF date.y > MaxYear THEN "invalid-date-separator"
                    ELSE "none",
         year   |-> date.y, month |-> date.m, day |-> date.d,
         hour   |-> time \div SecondsPerHour,
         minute |-> (time % SecondsPerHour) \div SecondsPerMinute,
         second |-> time % SecondsPerMinute,
         dot    |-> t.nanos # 0,
         frac   |-> TrimZeros(Padded(t.nanos, FracDigits)),
         zone   |-> "Z",
         rest   |-> FALSE]
=============================================================================
