----------------------------- MODULE TextProofs -----------------------------
(***************************************************************************)
(* Dates, instants and amounts and their texts, whatever the process does  *)
(* with them: the calendar's formulas and tables agree, and formatting and *)
(* parsing are inverse to each other for every value and every text.       *)
(***************************************************************************)
EXTENDS LongRun, AccountProofs, FiniteSetTheorems, WellFoundedInduction

-----------------------------------------------------------------------------
(***************************************************************************)
(* The calendar.  Years are counted from the first of March, so that the   *)
(* leap day is the last one of its year: the number of a day is that of    *)
(* the first day of its year, plus the days before its month, plus its     *)
(* place in the month.                                                     *)
(***************************************************************************)

MarchYear(y, m) == IF m <= 2 THEN y - 1 ELSE y

MarchMonth(m) == IF m > 2 THEN m - 3 ELSE m + 9

DaysBeforeMonth(mp) == (153 * mp + 2) \div 5

\* The days of the first n years of a cycle of 400.
DaysOfYears(n) == n * 365 + n \div 4 - n \div 100

YearOfEra(year) == year - Era(year, 400) * 400

DaysBeforeYear(year) == Era(year, 400) * 146097 + DaysOfYears(YearOfEra(year))

\* The place of a day in its year and in its cycle, from 0; and the year of
\* the cycle by the closed formula of civil_from_days.
DayOfYear(m, d) == DaysBeforeMonth(MarchMonth(m)) + d - 1

DayOfEra(year, doy) == DaysOfYears(YearOfEra(year)) + doy

YearByDay(doe) ==
    (doe - doe \div 1460 + doe \div 36524 - doe \div 146096) \div 365

\* What civil_from_days makes of the cycle, the year of the cycle and the day.
CivilOfMonth(year, doy, mp) ==
    LET m == IF mp < 10 THEN mp + 3 ELSE mp - 9
    IN  [y |-> IF m <= 2 THEN year + 1 ELSE year,
         m |-> m,
         d |-> doy - (153 * mp + 2) \div 5 + 1]

CivilOfDay(era, yoe, doe) ==
    LET doy == doe - (365 * yoe + yoe \div 4 - yoe \div 100)
    IN  CivilOfMonth(yoe + era * 400, doy, (5 * doy + 2) \div 153)

LEMMA CivilFromDaysIs ==
    ASSUME NEW number \in Int
    PROVE  LET z   == number + 719468
               era == Era(z, 146097)
               doe == z - era * 146097
           IN  CivilFromDays(number) = CivilOfDay(era, YearByDay(doe), doe)
BY SMT DEF CivilFromDays, CivilOfDay, CivilOfMonth, YearByDay

\* The division in Era rounds down.
LEMMA EraIsFloor ==
    ASSUME NEW n \in Int, NEW cycle \in Nat \ {0}
    PROVE  Era(n, cycle) = n \div cycle
<1>1. CASE n >= 0
  BY <1>1 DEF Era
<1>2. CASE n < 0
  <2> DEFINE q == n \div cycle
             r == n % cycle
  <2>1. q \in Int /\ r \in 0..(cycle - 1) /\ n = cycle * q + r
    OBVIOUS
  <2> HIDE DEF q, r
  <2> DEFINE p == -q
             s == cycle - 1 - r
             x == cycle - 1 - n
  <2>2. cycle * p = -(cycle * q) /\ cycle * q \in Int
    BY <2>1
  <2>3. x = cycle * p + s
    BY <2>1, <2>2
  <2>4. p \in Int /\ s \in 0..(cycle - 1) /\ x \in Int
    BY <2>1
  <2> HIDE DEF p, s, x
  <2>5. x \div cycle = p
    BY <2>3, <2>4, DivUnique
  <2>6. Era(n, cycle) = -p
    BY <1>2, <2>5 DEF Era, x
  <2> QED BY <2>1, <2>6 DEF p, q
<1> QED BY <1>1, <1>2

LEMMA EraIsUnique ==
    ASSUME NEW cycle \in Nat \ {0}, NEW era \in Int, NEW k \in Nat, k < cycle,
           NEW n \in Int, n = cycle * era + k
    PROVE  Era(n, cycle) = era
<1>1. k \in 0..(cycle - 1)
  OBVIOUS
<1>2. n \div cycle = era
  BY <1>1, DivUnique
<1>3. Era(n, cycle) = n \div cycle
  BY EraIsFloor
<1> QED BY <1>2, <1>3

LEMMA EraOfYear ==
    ASSUME NEW year \in Int
    PROVE  /\ Era(year, 400) \in Int
           /\ YearOfEra(year) \in Nat /\ YearOfEra(year) <= 399
           /\ year = 400 * Era(year, 400) + YearOfEra(year)
<1>1. Era(year, 400) = year \div 400
  BY EraIsFloor
<1>2. /\ year \div 400 \in Int /\ year - (year \div 400) * 400 \in Nat
      /\ year - (year \div 400) * 400 <= 399
  OBVIOUS
<1> QED BY <1>1, <1>2 DEF YearOfEra

LEMMA EraOfNextYear ==
    ASSUME NEW year \in Int
    PROVE  IF YearOfEra(year) < 399
           THEN /\ Era(year + 1, 400) = Era(year, 400)
                /\ YearOfEra(year + 1) = YearOfEra(year) + 1
           ELSE /\ Era(year + 1, 400) = Era(year, 400) + 1
                /\ YearOfEra(year + 1) = 0
<1> DEFINE next == year + 1
           era  == Era(year, 400)
           n    == YearOfEra(year)
           later == Era(next, 400)
           k     == YearOfEra(next)
<1>1. next \in Int /\ next = year + 1
  OBVIOUS
<1>2. era \in Int /\ n \in Nat /\ n <= 399 /\ year = 400 * era + n
  BY EraOfYear
<1>3. later \in Int /\ k \in Nat /\ k <= 399 /\ next = 400 * later + k
  BY <1>1, EraOfYear
<1> HIDE DEF next, era, n, later, k
<1>4. IF n < 399 THEN later = era /\ k = n + 1 ELSE later = era + 1 /\ k = 0
  BY <1>1, <1>2, <1>3, SMT
<1> QED BY <1>4 DEF next, era, n, later, k

LEMMA DayCountsAreNumbers ==
    /\ \A n \in Int : DaysOfYears(n) \in Int
    /\ \A n \in Int : DaysBeforeMonth(n) \in Int
    /\ \A n \in Int : DaysBeforeYear(n) \in Int
<1>1. \A n \in Int : DaysOfYears(n) \in Int
  BY DEF DaysOfYears
<1>2. \A n \in Int : DaysBeforeMonth(n) \in Int
  BY DEF DaysBeforeMonth
<1>3. ASSUME NEW n \in Int PROVE DaysBeforeYear(n) \in Int
  <2> DEFINE era == Era(n, 400)
             days == DaysOfYears(YearOfEra(n))
  <2>1. era \in Int /\ YearOfEra(n) \in Nat
    BY EraOfYear
  <2>2. days \in Int
    BY <1>1, <2>1
  <2> HIDE DEF era, days
  <2>3. era * 146097 + days \in Int
    BY <2>1, <2>2
  <2> QED BY <2>3 DEF DaysBeforeYear, era, days
<1> QED BY <1>1, <1>2, <1>3

\* days_from_civil, in those parts.
LEMMA DaysFromCivilIs ==
    ASSUME NEW y \in Int, NEW m \in 1..12, NEW d \in Int
    PROVE  DaysFromCivil(y, m, d) =
               DaysBeforeYear(MarchYear(y, m)) + DaysBeforeMonth(MarchMonth(m))
                   + d - 719469
<1> DEFINE year == MarchYear(y, m)
           era  == Era(year, 400)
           yoe  == YearOfEra(year)
           mp   == MarchMonth(m)
           months   == (153 * mp + 2) \div 5
           quarters == yoe \div 4
           hundreds == yoe \div 100
<1>1. year \in Int /\ mp \in Int
  BY DEF MarchYear, MarchMonth
<1>2. era \in Int /\ yoe \in Int
  <2>1. \A n \in Int : Era(n, 400) \in Int /\ YearOfEra(n) \in Int
    BY EraOfYear
  <2> QED BY <1>1, <2>1
<1>3. DaysFromCivil(y, m, d) =
          era * 146097 + (yoe * 365 + quarters - hundreds + (months + d - 1)) - 719468
  BY SMT DEF DaysFromCivil, MarchYear, MarchMonth, YearOfEra
<1>4. DaysBeforeYear(year) = era * 146097 + (yoe * 365 + quarters - hundreds)
  BY SMT DEF DaysBeforeYear, DaysOfYears
<1>5. DaysBeforeMonth(mp) = months
  BY DEF DaysBeforeMonth
<1>6. months \in Int /\ quarters \in Int /\ hundreds \in Int
  BY <1>1, <1>2
<1> HIDE DEF year, era, mp, yoe, months, quarters, hundreds
<1>7. DaysFromCivil(y, m, d) = DaysBeforeYear(year) + DaysBeforeMonth(mp) + d - 719469
  BY <1>1, <1>2, <1>3, <1>4, <1>5, <1>6
<1> QED BY <1>7 DEF year, mp

LEMMA MonthTable ==
    /\ DaysBeforeMonth(0) = 0 /\ DaysBeforeMonth(1) = 31
    /\ DaysBeforeMonth(2) = 61 /\ DaysBeforeMonth(3) = 92
    /\ DaysBeforeMonth(4) = 122 /\ DaysBeforeMonth(5) = 153
    /\ DaysBeforeMonth(6) = 184 /\ DaysBeforeMonth(7) = 214
    /\ DaysBeforeMonth(8) = 245 /\ DaysBeforeMonth(9) = 275
    /\ DaysBeforeMonth(10) = 306 /\ DaysBeforeMonth(11) = 337
BY DEF DaysBeforeMonth

\* A year has a day more when the February it ends with has.
LEMMA YearOfCycle ==
    ASSUME NEW n \in Nat, n <= 399
    PROVE  DaysOfYears(n + 1) =
               DaysOfYears(n) + 365 + (IF (n + 1) % 4 = 0 THEN 1 ELSE 0)
                                    - (IF (n + 1) % 100 = 0 THEN 1 ELSE 0)
BY SMTT(60) DEF DaysOfYears

LEMMA LeapOfCycle ==
    ASSUME NEW year \in Int
    PROVE  LET n == YearOfEra(year)
           IN  IsLeapYear(year + 1) <=>
                   (n + 1) % 4 = 0 /\ ((n + 1) % 100 # 0 \/ n = 399)
<1> DEFINE y   == year + 1
           era == Era(year, 400)
           n   == YearOfEra(year)
<1>1. era \in Int /\ n \in Nat /\ n <= 399 /\ year = 400 * era + n
  BY EraOfYear
<1>2. y \in Int /\ y = year + 1
  OBVIOUS
<1> HIDE DEF y, era, n
<1>3. era \in Int /\ n \in Nat /\ n <= 399 /\ y \in Int /\ y = 400 * era + (n + 1)
  BY <1>1, <1>2
<1>4. y % 4 = (n + 1) % 4
  BY <1>3, SMTT(30)
<1>5. y % 100 = (n + 1) % 100
  BY <1>3, SMTT(30)
<1>6. (y % 400 = 0) <=> n = 399
  BY <1>3, SMTT(30)
<1>7. IsLeapYear(y) <=> (n + 1) % 4 = 0 /\ ((n + 1) % 100 # 0 \/ n = 399)
  BY <1>4, <1>5, <1>6 DEF IsLeapYear
<1> QED BY <1>7 DEF y, n

LEMMA YearLength ==
    ASSUME NEW year \in Int
    PROVE  DaysBeforeYear(year + 1) =
               DaysBeforeYear(year) + (IF IsLeapYear(year + 1) THEN 366 ELSE 365)
<1> DEFINE next == year + 1
           era == Era(year, 400)
           n   == YearOfEra(year)
<1>1. /\ era \in Int /\ n \in Nat /\ n <= 399 /\ next \in Int
      /\ DaysBeforeYear(year) = era * 146097 + DaysOfYears(n)
  BY EraOfYear DEF DaysBeforeYear
<1>2. IsLeapYear(next) <=> (n + 1) % 4 = 0 /\ ((n + 1) % 100 # 0 \/ n = 399)
  BY LeapOfCycle
<1>3. DaysBeforeYear(next) = IF n < 399 THEN era * 146097 + DaysOfYears(n + 1)
                                        ELSE (era + 1) * 146097 + DaysOfYears(0)
  BY EraOfNextYear DEF DaysBeforeYear
<1> HIDE DEF next, era, n
<1>4. DaysOfYears(n) \in Int /\ DaysOfYears(0) = 0 /\ DaysOfYears(400) = 146096
  BY <1>1, DayCountsAreNumbers DEF DaysOfYears
<1>5. (n + 1) % 100 = 0 => (n + 1) % 4 = 0
  BY <1>1, SMTT(30)
<1>6. DaysOfYears(n + 1) =
          DaysOfYears(n) + 365 + (IF (n + 1) % 4 = 0 THEN 1 ELSE 0)
                               - (IF (n + 1) % 100 = 0 THEN 1 ELSE 0)
  BY <1>1, YearOfCycle
<1>7. DaysBeforeYear(next) =
          DaysBeforeYear(year) + (IF IsLeapYear(next) THEN 366 ELSE 365)
  <2>1. CASE n < 399
    BY <1>1, <1>2, <1>3, <1>4, <1>5, <1>6, <2>1, SMT
  <2>2. CASE n = 399
    <3>1. IsLeapYear(next)
      BY <1>2, <2>2
    <3>2. DaysOfYears(n) = 145731
      BY <2>2 DEF DaysOfYears
    <3> QED BY <1>1, <1>3, <1>4, <2>2, <3>1, <3>2, SMT
  <2> QED BY <1>1, <2>1, <2>2
<1> QED BY <1>7 DEF next

\* Any other month ends where the next one begins.
LEMMA MonthLength ==
    ASSUME NEW y \in Int, NEW m \in 1..11, m # 2
    PROVE  /\ MarchYear(y, m + 1) = MarchYear(y, m)
           /\ DaysBeforeMonth(MarchMonth(m + 1)) =
                  DaysBeforeMonth(MarchMonth(m)) + LastDayOfMonth(y, m)
<1>1. m \in {1, 3, 4, 5, 6, 7, 8, 9, 10, 11}
  OBVIOUS
<1> QED BY <1>1, MonthTable, SMT DEF MarchYear, MarchMonth, LastDayOfMonth

LEMMA LastDayRange ==
    ASSUME NEW y, NEW m
    PROVE  LastDayOfMonth(y, m) \in 28..31
BY DEF LastDayOfMonth

\* The day after a date of the calendar is one, and its number is the next.
LEMMA NextDateCounts ==
    ASSUME NEW day, RealDate(day)
    PROVE  LET next == NextDate(day)
           IN  /\ RealDate(next)
               /\ DaysFromCivil(next.y, next.m, next.d) =
                      DaysFromCivil(day.y, day.m, day.d) + 1
<1> DEFINE y == day.y
           m == day.m
           d == day.d
           last == LastDayOfMonth(y, m)
           next == NextDate(day)
<1>1. /\ y \in Int /\ m \in 1..12 /\ d \in 1..31 /\ d <= last /\ last \in 28..31
      /\ day = [y |-> y, m |-> m, d |-> d]
  BY LastDayRange DEF RealDate
<1>2. /\ MarchYear(y, m) \in Int /\ DaysBeforeYear(MarchYear(y, m)) \in Int
      /\ DaysBeforeMonth(MarchMonth(m)) \in Int
  BY <1>1, DayCountsAreNumbers DEF MarchYear, MarchMonth
<1>3. DaysFromCivil(y, m, d) = DaysBeforeYear(MarchYear(y, m))
                                   + DaysBeforeMonth(MarchMonth(m)) + d - 719469
  BY <1>1, DaysFromCivilIs, SMT
<1>4. CASE d < last
  <2>1. next = [y |-> y, m |-> m, d |-> d + 1]
    BY <1>1, <1>4 DEF NextDate
  <2>2. RealDate(next)
    BY <1>1, <1>4, <2>1 DEF RealDate
  <2>3. DaysFromCivil(y, m, d + 1) = DaysBeforeYear(MarchYear(y, m))
                                   + DaysBeforeMonth(MarchMonth(m)) + (d + 1) - 719469
    BY <1>1, DaysFromCivilIs, SMT
  <2> QED BY <1>1, <1>2, <1>3, <2>1, <2>2, <2>3, SMT
<1>5. CASE d = last /\ m < 12
  <2>1. next = [y |-> y, m |-> m + 1, d |-> 1]
    <3>1. next = [day EXCEPT !.d = 1, !.m = @ + 1]
      BY <1>1, <1>5 DEF NextDate
    <3> QED BY <1>1, <3>1
  <2>2. RealDate(next)
    BY <1>1, <1>5, <2>1, LastDayRange DEF RealDate
  <2>3. DaysFromCivil(y, m + 1, 1) = DaysBeforeYear(MarchYear(y, m + 1))
                                   + DaysBeforeMonth(MarchMonth(m + 1)) + 1 - 719469
    BY <1>1, <1>5, DaysFromCivilIs, SMT
  <2>4. CASE m # 2
    <3>1. /\ MarchYear(y, m + 1) = MarchYear(y, m)
          /\ DaysBeforeMonth(MarchMonth(m + 1)) = DaysBeforeMonth(MarchMonth(m)) + last
      BY <1>1, <1>5, <2>4, MonthLength
    <3> QED BY <1>1, <1>2, <1>3, <1>5, <2>1, <2>2, <2>3, <3>1, SMT
  <2>5. CASE m = 2
    <3> DEFINE before == y - 1
    <3>1. /\ MarchYear(y, m) = before /\ MarchYear(y, m + 1) = before + 1
          /\ MarchMonth(m) = 11 /\ MarchMonth(m + 1) = 0
          /\ before \in Int
      BY <1>1, <2>5 DEF MarchYear, MarchMonth
    <3>2. last = IF IsLeapYear(before + 1) THEN 29 ELSE 28
      <4>1. before + 1 = y
        BY <1>1
      <4> QED BY <2>5, <4>1 DEF LastDayOfMonth
    <3> HIDE DEF before
    <3>3. DaysBeforeYear(before + 1) =
              DaysBeforeYear(before) + (IF IsLeapYear(before + 1) THEN 366 ELSE 365)
      BY <3>1, YearLength
    <3> QED BY <1>1, <1>2, <1>3, <1>5, <2>1, <2>2, <2>3, <3>1, <3>2, <3>3, MonthTable, SMT
  <2> QED BY <2>4, <2>5
<1>6. CASE d = last /\ m = 12
  <2>1. next = [y |-> y + 1, m |-> 1, d |-> 1]
    BY <1>1, <1>6 DEF NextDate
  <2>2. RealDate(next)
    BY <1>1, <1>6, <2>1, LastDayRange DEF RealDate
  <2>3. DaysFromCivil(y + 1, 1, 1) = DaysBeforeYear(MarchYear(y + 1, 1))
                                   + DaysBeforeMonth(MarchMonth(1)) + 1 - 719469
    BY <1>1, DaysFromCivilIs, SMT
  <2>4. /\ MarchYear(y + 1, 1) = MarchYear(y, m)
        /\ MarchMonth(m) = 9 /\ MarchMonth(1) = 10 /\ last = 31
    BY <1>1, <1>6 DEF MarchYear, MarchMonth, LastDayOfMonth
  <2> QED BY <1>1, <1>2, <1>3, <1>6, <2>1, <2>2, <2>3, <2>4, MonthTable, SMT
<1> QED BY <1>1, <1>4, <1>5, <1>6

\* A number below 400 in centuries, rounds of four years, and years.
LEMMA YearParts ==
    ASSUME NEW n \in Nat, n <= 399
    PROVE  \E c \in 0..3, b \in 0..24, a \in 0..3 :
               /\ n = 100 * c + 4 * b + a
               /\ DaysOfYears(n) = 36524 * c + 1461 * b + 365 * a
<1>1. PICK c \in 0..3, b \in 0..24, a \in 0..3 : n = 100 * c + 4 * b + a
  BY SMTT(60)
<1>2. DaysOfYears(100 * c + 4 * b + a) = 36524 * c + 1461 * b + 365 * a
  BY SMTT(60) DEF DaysOfYears
<1> QED BY <1>1, <1>2

\* The closed formula of civil_from_days finds the year of a cycle again.
LEMMA YearOfDay ==
    ASSUME NEW year \in Int, NEW doy \in Nat, doy <= 365,
           doy = 365 => IsLeapYear(year + 1)
    PROVE  /\ DayOfEra(year, doy) \in Nat /\ DayOfEra(year, doy) < 146097
           /\ YearByDay(DayOfEra(year, doy)) = YearOfEra(year)
<1> DEFINE n   == YearOfEra(year)
           doe == DayOfEra(year, doy)
<1>1. n \in Nat /\ n <= 399
  BY EraOfYear
<1>2. doy = 365 => (n + 1) % 4 = 0 /\ ((n + 1) % 100 # 0 \/ n = 399)
  BY LeapOfCycle
<1>3. doe = DaysOfYears(n) + doy
  BY DEF DayOfEra
<1> HIDE DEF n, doe
<1>4. PICK c \in 0..3, b \in 0..24, a \in 0..3 :
          n = 100 * c + 4 * b + a /\ DaysOfYears(n) = 36524 * c + 1461 * b + 365 * a
  BY <1>1, YearParts
<1>5. doy = 365 => a = 3
  BY <1>2, <1>4, SMTT(30)
<1>6. doy = 365 /\ b = 24 => c = 3
  <2>1. a = 3 /\ b = 24 => n + 1 = 100 * (c + 1)
    BY <1>4
  <2>2. (100 * (c + 1)) % 100 = 0
    OBVIOUS
  <2> QED BY <1>2, <1>4, <1>5, <2>1, <2>2
<1>7. doe = 36524 * c + 1461 * b + 365 * a + doy
  BY <1>3, <1>4
<1>8. doe \in Nat /\ doe < 146097
  BY <1>4, <1>7, SMT
<1>9. (doe - doe \div 1460 + doe \div 36524 - doe \div 146096) \div 365
          = 100 * c + 4 * b + a
  BY <1>4, <1>5, <1>6, <1>7, SMTT(60)
<1>10. YearByDay(doe) = n
  BY <1>4, <1>9 DEF YearByDay
<1> QED BY <1>8, <1>10 DEF n, doe

\* civil_from_days turns the number of a date into that date, for every date
\* of every year.
LEMMA CivilRoundTrip ==
    ASSUME NEW y \in Int, NEW m \in 1..12, NEW d \in 1..31, d <= LastDayOfMonth(y, m)
    PROVE  CivilFromDays(DaysFromCivil(y, m, d)) = [y |-> y, m |-> m, d |-> d]
<1> DEFINE number == DaysFromCivil(y, m, d)
           year == MarchYear(y, m)
           era  == Era(year, 400)
           mp   == MarchMonth(m)
           doy  == DayOfYear(m, d)
           doe  == DayOfEra(year, doy)
           z    == number + 719468
<1>1. year \in Int
  BY DEF MarchYear
<1>2. /\ mp \in 0..11 /\ doy \in Nat /\ doy <= 365
      /\ doy = 365 => IsLeapYear(year + 1)
      /\ (5 * doy + 2) \div 153 = mp
      /\ m = IF mp < 10 THEN mp + 3 ELSE mp - 9
      /\ y = IF m <= 2 THEN year + 1 ELSE year
  <2>1. m \in {1, 2, 3, 4, 5, 6, 7, 8, 9, 10, 11, 12}
    OBVIOUS
  <2>2. /\ mp \in 0..11
        /\ m = IF mp < 10 THEN mp + 3 ELSE mp - 9
        /\ y = IF m <= 2 THEN MarchYear(y, m) + 1 ELSE MarchYear(y, m)
    BY DEF MarchMonth, MarchYear
  <2>3. doy \in Nat /\ doy <= 365 /\ (doy = 365 => m = 2 /\ d = 29)
    BY <2>1, MonthTable, SMTT(30) DEF DayOfYear, MarchMonth, LastDayOfMonth
  <2>4. doy = 365 => IsLeapYear(MarchYear(y, m) + 1)
    <3>1. m = 2 /\ d = 29 => IsLeapYear(y)
      BY DEF LastDayOfMonth
    <3> QED BY <2>2, <2>3, <3>1
  <2>5. (5 * doy + 2) \div 153 = mp
    BY <2>1, MonthTable, SMTT(60) DEF DayOfYear, MarchMonth, LastDayOfMonth
  <2> QED BY <2>2, <2>3, <2>4, <2>5
<1>3. /\ era \in Int /\ YearOfEra(year) \in Nat /\ YearOfEra(year) <= 399
      /\ year = 400 * era + YearOfEra(year)
  BY <1>1, EraOfYear
<1>4. DaysOfYears(YearOfEra(year)) \in Int /\ DaysBeforeMonth(mp) \in Int
  <2> HIDE DEF mp, year
  <2>1. YearOfEra(year) \in Int /\ mp \in Int
    BY <1>2, <1>3
  <2> QED BY <2>1, DayCountsAreNumbers
<1>5. /\ doy = DaysBeforeMonth(mp) + d - 1
      /\ doe = DaysOfYears(YearOfEra(year)) + doy
  BY DEF DayOfYear, DayOfEra
<1>6. number = era * 146097 + DaysOfYears(YearOfEra(year))
                   + DaysBeforeMonth(mp) + d - 719469
  <2>1. number = DaysBeforeYear(year) + DaysBeforeMonth(mp) + d - 719469
    BY DaysFromCivilIs, SMTT(30)
  <2> QED BY <2>1 DEF DaysBeforeYear
<1>7. doe \in Nat /\ doe < 146097 /\ YearByDay(doe) = YearOfEra(year)
  <2>1. doy \in Nat /\ doy <= 365 /\ (doy = 365 => IsLeapYear(year + 1))
    BY <1>2
  <2> HIDE DEF year, doy
  <2> QED BY <1>1, <2>1, YearOfDay
<1>8. z = 146097 * era + doe /\ z \in Int
  BY <1>3, <1>4, <1>6, <1>7, <1>5, SMT
<1>9. Era(z, 146097) = era
  <2> HIDE DEF z, era, doe
  <2> DEFINE cycle == 146097
  <2>1. cycle \in Nat \ {0} /\ z = cycle * era + doe /\ doe < cycle
    BY <1>7, <1>8
  <2> HIDE DEF cycle
  <2>2. Era(z, cycle) = era
    BY <1>3, <1>7, <1>8, <2>1, EraIsUnique
  <2> QED BY <2>2 DEF cycle
<1> DEFINE yoe  == YearOfEra(year)
           rest == doe - (365 * yoe + yoe \div 4 - yoe \div 100)
<1>10. rest = doy
  <2>1. DaysOfYears(yoe) = yoe * 365 + yoe \div 4 - yoe \div 100
    BY DEF DaysOfYears
  <2>2. yoe \div 4 \in Int /\ yoe \div 100 \in Int /\ doy \in Int /\ yoe \in Int
    BY <1>2, <1>3
  <2> DEFINE q == yoe \div 4
             h == yoe \div 100
             days == DaysOfYears(yoe)
  <2> HIDE DEF yoe, doy, q, h, days
  <2>3. days = yoe * 365 + q - h /\ doe = days + doy
    BY <1>5, <2>1 DEF q, h, days, yoe
  <2>4. doe - (365 * yoe + q - h) = doy
    BY <2>2, <2>3, SMT DEF q, h
  <2> QED BY <2>4 DEF q, h
<1>11. z - era * 146097 = doe
  <2> HIDE DEF z, era, doe
  <2> QED BY <1>3, <1>7, <1>8, SMT
<1>12. CivilFromDays(number) = CivilOfMonth(yoe + era * 400, doy, mp)
  <2>1. CivilFromDays(number) = CivilOfDay(era, yoe, doe)
    <3> HIDE DEF era, doe, yoe
    <3>1. number \in Int
      BY <1>3, <1>4, <1>6
    <3> QED BY <1>7, <1>9, <1>11, <3>1, CivilFromDaysIs DEF yoe
  <2> HIDE DEF era, doe, doy, mp, yoe, number
  <2> QED BY <1>2, <1>10, <2>1 DEF CivilOfDay
<1>13. doy - (153 * mp + 2) \div 5 + 1 = d
  <2>1. DaysBeforeMonth(mp) = (153 * mp + 2) \div 5
    BY DEF DaysBeforeMonth
  <2> QED BY <1>4, <1>5, <2>1, SMT
<1>14. IF m <= 2 THEN yoe + era * 400 + 1 = y ELSE yoe + era * 400 = y
  <2> HIDE DEF yoe, era, year, mp
  <2> QED BY <1>1, <1>2, <1>3, SMT DEF yoe
<1> HIDE DEF number, era, yoe, doe, mp, doy, z
<1>15. CivilFromDays(number) = [y |-> y, m |-> m, d |-> d]
  BY <1>2, <1>12, <1>13, <1>14 DEF CivilOfMonth
<1> QED BY <1>15 DEF number

LEMMA DayLength == SecondsPerDay \in Nat \ {0}
<1>1. HoursPerDay \in 1..100 /\ MinutesPerHour \in 1..100 /\ SecondsPerMinute \in 1..100
  BY UnitsAssumption
<1>2. MinutesPerHour * SecondsPerMinute \in Nat \ {0}
  BY <1>1
<1> DEFINE hour == MinutesPerHour * SecondsPerMinute
<1>3. HoursPerDay * hour \in Nat \ {0}
  <2> HIDE DEF hour
  <2> QED BY <1>1, <1>2 DEF hour
<1> QED BY <1>3 DEF SecondsPerDay, SecondsPerHour

LEMMA NumberIsInt ==
    ASSUME NEW day, RealDate(day)
    PROVE  DaysFromCivil(day.y, day.m, day.d) \in Int
<1>1. day.y \in Int /\ day.m \in 1..12 /\ day.d \in Int
  BY DEF RealDate
<1>2. ASSUME NEW y \in Int, NEW m \in 1..12, NEW d \in Int
      PROVE  DaysFromCivil(y, m, d) \in Int
  <2>1. MarchYear(y, m) \in Int /\ MarchMonth(m) \in Int
    BY DEF MarchYear, MarchMonth
  <2>2. /\ DaysBeforeYear(MarchYear(y, m)) \in Int
        /\ DaysBeforeMonth(MarchMonth(m)) \in Int
    BY <2>1, DayCountsAreNumbers
  <2> DEFINE years  == DaysBeforeYear(MarchYear(y, m))
             months == DaysBeforeMonth(MarchMonth(m))
  <2>3. DaysFromCivil(y, m, d) = years + months + d - 719469
    BY DaysFromCivilIs
  <2> HIDE DEF years, months
  <2>4. years + months + d - 719469 \in Int
    BY <2>2 DEF years, months
  <2> QED BY <2>3, <2>4
<1> QED BY <1>1, <1>2

\* The number that days_from_civil gives a date is the one of the calendar.
LEMMA NumberOfDate ==
    ASSUME NEW day, RealDate(day)
    PROVE  DaysFromCivil(day.y, day.m, day.d) = DayNumber(day)
<1> DEFINE year == MarchYear(day.y, day.m)
           era  == Era(year, 400)
           n    == YearOfEra(year)
           leap == year \div 4 - year \div 100 + year \div 400
<1>1. day.y \in Int /\ day.m \in 1..12 /\ day.d \in Int /\ year \in Int
  BY DEF RealDate, MarchYear
<1>2. era \in Int /\ n \in Nat /\ n <= 399 /\ year = 400 * era + n
  BY <1>1, EraOfYear
<1>3. 365 * year + leap = era * 146097 + DaysOfYears(n)
  <2> HIDE DEF year, era, n
  <2>1. /\ year \div 4 = 100 * era + n \div 4
        /\ year \div 100 = 4 * era + n \div 100
        /\ year \div 400 = era
    BY <1>1, <1>2, SMTT(30)
  <2>2. n \div 4 \in Int /\ n \div 100 \in Int
    BY <1>2
  <2>3. DaysOfYears(n) = n * 365 + n \div 4 - n \div 100
    BY DEF DaysOfYears
  <2> QED BY <1>2, <2>1, <2>2, <2>3, SMT
<1>4. DaysBeforeMonth(MarchMonth(day.m)) = DaysFromMarch[day.m]
  <2>1. day.m \in {1, 2, 3, 4, 5, 6, 7, 8, 9, 10, 11, 12}
    BY <1>1
  <2> QED BY <2>1, MonthTable DEF MarchMonth, DaysFromMarch
<1>5. DayNumber(day) = 365 * year + leap + DaysFromMarch[day.m] + day.d - 719469
  BY <1>1 DEF DayNumber, MarchYear
<1>6. DaysFromCivil(day.y, day.m, day.d) =
          DaysBeforeYear(year) + DaysBeforeMonth(MarchMonth(day.m)) + day.d - 719469
  <2>1. \A y \in Int, m \in 1..12, d \in Int :
            DaysFromCivil(y, m, d) = DaysBeforeYear(MarchYear(y, m))
                + DaysBeforeMonth(MarchMonth(m)) + d - 719469
    BY DaysFromCivilIs
  <2> QED BY <1>1, <2>1, SMTT(30)
<1>7. DaysBeforeYear(year) = 365 * year + leap
  BY <1>3 DEF DaysBeforeYear
<1> QED BY <1>4, <1>5, <1>6, <1>7

-----------------------------------------------------------------------------
(***************************************************************************)
(* Induction and recursion over the naturals.                              *)
(***************************************************************************)

LEMMA NatSetInduction ==
    ASSUME NEW S, 0 \in S, \A n \in Nat : n \in S => n + 1 \in S
    PROVE  \A n \in Nat : n \in S
<1> SUFFICES ASSUME Nat \ S # {} PROVE FALSE
  OBVIOUS
<1>1. PICK least \in Nat \ S : \A n \in Nat \ S : ~ (<<n, least>> \in OpToRel(<, Nat))
  BY NatLessThanWellFounded, WFMin
<1>2. ASSUME NEW n \in Nat, n < least PROVE n \in S
  <2>1. <<n, least>> \in OpToRel(<, Nat)
    BY <1>2 DEF OpToRel
  <2> QED BY <1>1, <2>1
<1>3. least # 0
  OBVIOUS
<1>4. least - 1 \in Nat /\ least - 1 < least /\ (least - 1) + 1 = least
  BY <1>3
<1> QED BY <1>2, <1>4

\* The first n values of the function that starts with base and goes on by
\* the rule step.
Begins(g, base, step, n) ==
    /\ g \in [0..n -> Int] /\ g[0] = base
    /\ \A k \in 1..n : g[k] = step[k][g[k - 1]]

LEMMA BeginningExists ==
    ASSUME NEW base \in Int, NEW step \in [Nat -> [Int -> Int]]
    PROVE  \A n \in Nat : \E g : Begins(g, base, step, n)
<1> DEFINE S == {n \in Nat : \E g : Begins(g, base, step, n)}
<1>1. 0 \in S
  <2>1. Begins([k \in 0..0 |-> base], base, step, 0)
    BY DEF Begins
  <2> QED BY <2>1
<1>2. ASSUME NEW n \in Nat, n \in S PROVE n + 1 \in S
  <2>1. PICK g : Begins(g, base, step, n)
    BY <1>2
  <2> DEFINE m    == n + 1
             next == step[m][g[n]]
             h    == [k \in 0..m |-> IF k <= n THEN g[k] ELSE next]
  <2> HIDE DEF S
  <2>2. g \in [0..n -> Int] /\ g[0] = base /\ \A k \in 1..n : g[k] = step[k][g[k - 1]]
    BY <2>1 DEF Begins
  <2>3. next \in Int
    <3>1. m \in Nat /\ g[n] \in Int
      BY <2>2
    <3> QED BY <3>1
  <2> HIDE DEF next
  <2>4. h \in [0..m -> Int] /\ h[0] = base
    BY <2>2, <2>3
  <2>5. ASSUME NEW k \in 1..m PROVE h[k] = step[k][h[k - 1]]
    <3>1. CASE k <= n
      <4>1. k \in 1..n /\ k \in 0..m /\ k - 1 \in 0..m /\ k - 1 <= n
        BY <3>1
      <4>2. h[k] = g[k] /\ h[k - 1] = g[k - 1]
        BY <3>1, <4>1
      <4> QED BY <2>2, <4>1, <4>2
    <3>2. CASE k = m
      <4>1. h[n] = g[n] /\ h[m] = next /\ m - 1 = n
        OBVIOUS
      <4> QED BY <3>2, <4>1 DEF next
    <3> QED BY <3>1, <3>2
  <2>6. Begins(h, base, step, m)
    BY <2>4, <2>5 DEF Begins
  <2>7. m \in Nat
    OBVIOUS
  <2> HIDE DEF h, m
  <2>8. m \in S
    BY <2>6, <2>7 DEF S
  <2> QED BY <2>8 DEF m
<1> HIDE DEF S
<1>3. \A n \in Nat : n \in S
  BY <1>1, <1>2, NatSetInduction
<1> QED BY <1>3 DEF S

LEMMA BeginningUnique ==
    ASSUME NEW base, NEW step, NEW m \in Nat, NEW n \in Nat, NEW g, NEW h,
           Begins(g, base, step, m), Begins(h, base, step, n)
    PROVE  \A k \in Nat : k <= m /\ k <= n => g[k] = h[k]
<1> DEFINE S == {k \in Nat : k <= m /\ k <= n => g[k] = h[k]}
<1>1. 0 \in S
  BY DEF Begins
<1>2. ASSUME NEW k \in Nat, k \in S PROVE k + 1 \in S
  <2>1. ASSUME k + 1 <= m, k + 1 <= n PROVE g[k + 1] = h[k + 1]
    <3>1. k + 1 \in 1..m /\ k + 1 \in 1..n /\ (k + 1) - 1 = k
      BY <2>1
    <3>2. g[k] = h[k]
      BY <1>2, <2>1
    <3>3. g[k + 1] = step[k + 1][g[k]] /\ h[k + 1] = step[k + 1][h[k]]
      BY <3>1 DEF Begins
    <3> QED BY <3>2, <3>3
  <2> QED BY <2>1
<1> HIDE DEF S
<1>3. \A k \in Nat : k \in S
  BY <1>1, <1>2, NatSetInduction
<1> QED BY <1>3 DEF S

LEMMA RecursiveFunction ==
    ASSUME NEW base \in Int, NEW step \in [Nat -> [Int -> Int]]
    PROVE  \E f \in [Nat -> Int] :
               f[0] = base /\ \A n \in Nat : f[n + 1] = step[n + 1][f[n]]
<1> DEFINE G(n) == CHOOSE g : Begins(g, base, step, n)
           f == [n \in Nat |-> G(n)[n]]
<1>1. \A n \in Nat : Begins(G(n), base, step, n)
  BY BeginningExists, Zenon
<1> HIDE DEF G
<1>2. ASSUME NEW n \in Nat
      PROVE  /\ G(n) \in [0..n -> Int] /\ G(n)[0] = base
             /\ \A k \in 1..n : G(n)[k] = step[k][G(n)[k - 1]]
  BY <1>1 DEF Begins
<1>3. f \in [Nat -> Int]
  <2> SUFFICES ASSUME NEW n \in Nat PROVE G(n)[n] \in Int
    OBVIOUS
  <2>1. n \in 0..n
    OBVIOUS
  <2> QED BY <1>2, <2>1
<1>4. f[0] = base
  BY <1>2
<1>5. ASSUME NEW n \in Nat PROVE f[n + 1] = step[n + 1][f[n]]
  <2>1. G(n + 1)[n + 1] = step[n + 1][G(n + 1)[n]]
    <3>1. n + 1 \in 1..(n + 1) /\ (n + 1) - 1 = n /\ n + 1 \in Nat
      OBVIOUS
    <3> QED BY <1>2, <3>1
  <2>2. G(n + 1)[n] = G(n)[n]
    <3>1. n + 1 \in Nat /\ n <= n /\ n <= n + 1
      OBVIOUS
    <3> QED BY <1>1, <3>1, BeginningUnique
  <2>3. f[n + 1] = G(n + 1)[n + 1] /\ f[n] = G(n)[n]
    OBVIOUS
  <2> QED BY <2>1, <2>2, <2>3
<1> QED BY <1>3, <1>4, <1>5

-----------------------------------------------------------------------------
(***************************************************************************)
(* Powers of ten, and the number a sequence of digits denotes.             *)
(***************************************************************************)

LEMMA TenToIs ==
    /\ TenTo[0] = 1
    /\ \A n \in Nat : TenTo[n] \in Nat \ {0} /\ TenTo[n + 1] = 10 * TenTo[n]
<1> DEFINE step == [k \in Nat |-> [v \in Int |-> 10 * v]]
           Rule(f) == [n \in Nat |-> IF n = 0 THEN 1 ELSE 10 * f[n - 1]]
<1>1. PICK f \in [Nat -> Int] : f[0] = 1 /\ \A n \in Nat : f[n + 1] = step[n + 1][f[n]]
  <2>1. 1 \in Int /\ step \in [Nat -> [Int -> Int]]
    OBVIOUS
  <2> HIDE DEF step
  <2> QED BY <2>1, RecursiveFunction, Zenon
<1>2. ASSUME NEW n \in Nat PROVE f[n + 1] = 10 * f[n]
  <2>1. n + 1 \in Nat /\ f[n] \in Int
    BY <1>1
  <2>2. step[n + 1][f[n]] = 10 * f[n]
    BY <2>1
  <2> QED BY <1>1, <2>2
<1>3. f = Rule(f)
  <2>1. ASSUME NEW n \in Nat PROVE f[n] = IF n = 0 THEN 1 ELSE 10 * f[n - 1]
    <3>1. CASE n # 0
      <4>1. n - 1 \in Nat /\ (n - 1) + 1 = n
        BY <3>1
      <4>2. f[(n - 1) + 1] = 10 * f[n - 1]
        BY <1>2, <4>1
      <4> QED BY <3>1, <4>1, <4>2
    <3> QED BY <1>1, <3>1
  <2> QED BY <1>1, <2>1
<1>4. TenTo = Rule(TenTo)
  BY <1>3, Zenon DEF TenTo
<1>5. ASSUME NEW n \in Nat PROVE TenTo[n] = IF n = 0 THEN 1 ELSE 10 * TenTo[n - 1]
  <2> DEFINE t == TenTo
  <2>1. t = Rule(t)
    BY <1>4
  <2> HIDE DEF t
  <2>2. t[n] = Rule(t)[n]
    BY <2>1
  <2>3. t[n] = IF n = 0 THEN 1 ELSE 10 * t[n - 1]
    BY <2>2
  <2> QED BY <2>3 DEF t
<1>6. TenTo[0] = 1
  BY <1>5
<1>7. ASSUME NEW n \in Nat PROVE TenTo[n + 1] = 10 * TenTo[n]
  <2>1. n + 1 \in Nat /\ n + 1 # 0 /\ (n + 1) - 1 = n
    OBVIOUS
  <2>2. TenTo[n + 1] = 10 * TenTo[(n + 1) - 1]
    BY <1>5, <2>1
  <2> QED BY <2>1, <2>2
<1> DEFINE S == {n \in Nat : TenTo[n] \in Nat \ {0}}
<1>8. 0 \in S
  BY <1>6
<1>9. ASSUME NEW n \in Nat, n \in S PROVE n + 1 \in S
  <2>1. TenTo[n] \in Nat \ {0} /\ TenTo[n + 1] = 10 * TenTo[n]
    BY <1>7, <1>9
  <2>2. TenTo[n + 1] \in Nat \ {0}
    BY <2>1
  <2> QED BY <2>2
<1> HIDE DEF S
<1>10. \A n \in Nat : n \in S
  BY <1>8, <1>9, NatSetInduction
<1> QED BY <1>6, <1>7, <1>10 DEF S

\* The values of the beginnings of a sequence.
Horner(v, s) ==
    /\ v \in [0..Len(s) -> Int] /\ v[0] = 0
    /\ \A k \in 1..Len(s) : v[k] = 10 * v[k - 1] + s[k]

LEMMA ValueIs ==
    ASSUME NEW s \in Seq(0..9)
    PROVE  \E v : Horner(v, s) /\ Value(s) = v[Len(s)]
<1> DEFINE n == Len(s)
           digit == [k \in Nat |-> IF k \in 1..n THEN s[k] ELSE 0]
           step == [k \in Nat |-> [v \in Int |-> 10 * v + digit[k]]]
           Rule(f) == [k \in 0..n |-> IF k = 0 THEN 0 ELSE 10 * f[k - 1] + s[k]]
<1>0. n \in Nat /\ \A k \in 1..n : s[k] \in Int
  OBVIOUS
<1> HIDE DEF n
<1>1. digit \in [Nat -> Int]
  BY <1>0
<1>2. step \in [Nat -> [Int -> Int]]
  <2> HIDE DEF digit
  <2> QED BY <1>1
<1>3. PICK f \in [Nat -> Int] : f[0] = 0 /\ \A k \in Nat : f[k + 1] = step[k + 1][f[k]]
  <2> HIDE DEF step
  <2>1. 0 \in Int
    OBVIOUS
  <2> QED BY <1>2, <2>1, RecursiveFunction, Zenon
<1>4. ASSUME NEW k \in 1..n PROVE f[k] = 10 * f[k - 1] + s[k]
  <2>1. k \in Nat /\ k - 1 \in Nat /\ (k - 1) + 1 = k
    BY <1>0
  <2>2. f[k] = step[k][f[k - 1]]
    BY <1>3, <2>1
  <2>3. f[k - 1] \in Int
    BY <1>3, <2>1
  <2>4. digit[k] = s[k]
    BY <2>1
  <2> HIDE DEF digit
  <2>5. step[k][f[k - 1]] = 10 * f[k - 1] + digit[k]
    BY <2>1, <2>3
  <2> QED BY <2>2, <2>4, <2>5
<1> HIDE DEF digit, step
<1> DEFINE g == [k \in 0..n |-> f[k]]
<1>5. /\ g \in [0..n -> Int] /\ g[0] = 0
      /\ \A k \in 1..n : g[k] = 10 * g[k - 1] + s[k]
  <2>1. g \in [0..n -> Int] /\ g[0] = 0
    BY <1>0, <1>3
  <2>2. ASSUME NEW k \in 1..n PROVE g[k] = 10 * g[k - 1] + s[k]
    <3>1. k \in 0..n /\ k - 1 \in 0..n
      BY <1>0
    <3>2. g[k] = f[k] /\ g[k - 1] = f[k - 1]
      BY <3>1
    <3> QED BY <1>4, <3>2
  <2> QED BY <2>1, <2>2
<1> HIDE DEF g
<1>6. g = Rule(g)
  <2>1. ASSUME NEW k \in 0..n PROVE g[k] = IF k = 0 THEN 0 ELSE 10 * g[k - 1] + s[k]
    <3>1. CASE k # 0
      <4>1. k \in 1..n
        BY <1>0, <3>1
      <4> QED BY <1>5, <3>1, <4>1
    <3> QED BY <1>5, <3>1
  <2> QED BY <1>5, <2>1
<1> DEFINE v == CHOOSE u : u = Rule(u)
<1>7. v = Rule(v)
  BY <1>6, Zenon
<1>8. Value(s) = v[n]
  BY DEF Value, n
<1> HIDE DEF v
<1>9. ASSUME NEW k \in 0..n PROVE v[k] = IF k = 0 THEN 0 ELSE 10 * v[k - 1] + s[k]
  <2>1. v[k] = Rule(v)[k]
    BY <1>7
  <2> QED BY <2>1
<1> DEFINE S == {k \in Nat : k <= n => v[k] \in Int}
<1>10. 0 \in S
  BY <1>0, <1>9
<1>11. ASSUME NEW k \in Nat, k \in S PROVE k + 1 \in S
  <2>1. ASSUME k + 1 <= n PROVE v[k + 1] \in Int
    <3>1. k + 1 \in 0..n /\ k + 1 # 0 /\ (k + 1) - 1 = k /\ k + 1 \in 1..n
      BY <1>0, <2>1
    <3>2. v[k + 1] = 10 * v[k] + s[k + 1]
      BY <1>9, <3>1
    <3>3. v[k] \in Int /\ s[k + 1] \in Int
      <4>1. k <= n
        BY <1>0, <2>1
      <4>2. v[k] \in Int
        BY <1>11, <4>1
      <4>3. s[k + 1] \in Int
        BY <1>0, <3>1, Zenon
      <4> QED BY <4>2, <4>3, Zenon
    <3> QED BY <3>2, <3>3
  <2> QED BY <2>1
<1> HIDE DEF S
<1>12. \A k \in Nat : k \in S
  BY <1>10, <1>11, NatSetInduction
<1>13. \A k \in 0..n : v[k] \in Int
  BY <1>0, <1>12 DEF S
<1>14. v \in [0..n -> Int]
  <2>1. v = [k \in 0..n |-> v[k]]
    <3>1. DOMAIN v = 0..n /\ v = [k \in DOMAIN v |-> v[k]]
      BY <1>7
    <3> QED BY <3>1
  <2> QED BY <1>13, <2>1
<1>15. \A k \in 1..n : v[k] = 10 * v[k - 1] + s[k]
  BY <1>0, <1>9
<1>16. v[0] = 0
  BY <1>0, <1>9
<1>17. Horner(v, s)
  BY <1>14, <1>15, <1>16 DEF Horner, n
<1> QED BY <1>8, <1>17 DEF n

LEMMA FunctionIsSeq ==
    ASSUME NEW S, NEW n \in Nat, NEW f \in [1..n -> S]
    PROVE  f \in Seq(S) /\ Len(f) = n
OBVIOUS

LEMMA ValueEmpty ==
    ASSUME NEW s \in Seq(0..9), Len(s) = 0
    PROVE  Value(s) = 0
<1>1. PICK v : Horner(v, s) /\ Value(s) = v[Len(s)]
  BY ValueIs
<1> QED BY <1>1 DEF Horner

\* One digit more at the end.
LEMMA ValueNext ==
    ASSUME NEW s \in Seq(0..9), NEW p \in Seq(0..9), Len(s) = Len(p) + 1,
           \A k \in 1..Len(p) : p[k] = s[k]
    PROVE  Value(s) = 10 * Value(p) + s[Len(s)]
<1> DEFINE n == Len(p)
<1>1. PICK v : Horner(v, s) /\ Value(s) = v[Len(s)]
  BY ValueIs
<1>2. PICK u : Horner(u, p) /\ Value(p) = u[n]
  BY ValueIs
<1>3. n \in Nat /\ Len(s) = n + 1 /\ \A k \in 1..n : p[k] = s[k]
  OBVIOUS
<1>4. /\ v[0] = 0 /\ u[0] = 0
      /\ \A k \in 1..(n + 1) : v[k] = 10 * v[k - 1] + s[k]
      /\ \A k \in 1..n : u[k] = 10 * u[k - 1] + p[k]
  BY <1>1, <1>2, <1>3 DEF Horner
<1> HIDE DEF n
<1> DEFINE S == {k \in Nat : k <= n => v[k] = u[k]}
<1>5. 0 \in S
  BY <1>4
<1>6. ASSUME NEW k \in Nat, k \in S PROVE k + 1 \in S
  <2>1. ASSUME k + 1 <= n PROVE v[k + 1] = u[k + 1]
    <3>1. k + 1 \in 1..(n + 1) /\ k + 1 \in 1..n /\ (k + 1) - 1 = k /\ k <= n
      BY <1>3, <2>1
    <3>2. v[k] = u[k]
      BY <1>6, <3>1
    <3>3. v[k + 1] = 10 * v[(k + 1) - 1] + s[k + 1]
      BY <1>4, <3>1, Zenon
    <3>4. u[k + 1] = 10 * u[(k + 1) - 1] + p[k + 1]
      BY <1>4, <3>1, Zenon
    <3>5. p[k + 1] = s[k + 1]
      BY <1>3, <3>1, Zenon
    <3> QED BY <3>1, <3>2, <3>3, <3>4, <3>5, Zenon
  <2> QED BY <2>1
<1> HIDE DEF S
<1>7. \A k \in Nat : k \in S
  BY <1>5, <1>6, NatSetInduction
<1>8. v[n] = u[n]
  BY <1>3, <1>7 DEF S
<1>9. n + 1 \in 1..(n + 1) /\ (n + 1) - 1 = n
  BY <1>3
<1>10. v[n + 1] = 10 * v[n] + s[n + 1]
  BY <1>4, <1>9
<1> QED BY <1>1, <1>2, <1>3, <1>8, <1>10 DEF n

\* A digit sequence without its last digit.
LEMMA Shortened ==
    ASSUME NEW s \in Seq(0..9), NEW n \in Nat, Len(s) = n + 1
    PROVE  \E p \in Seq(0..9) : /\ Len(p) = n
                                /\ \A k \in 1..n : p[k] = s[k]
<1> DEFINE p == [k \in 1..n |-> s[k]]
<1>1. p \in [1..n -> 0..9]
  OBVIOUS
<1>2. \A k \in 1..n : p[k] = s[k]
  OBVIOUS
<1> HIDE DEF p
<1>3. p \in Seq(0..9) /\ Len(p) = n
  BY <1>1, FunctionIsSeq
<1> QED BY <1>2, <1>3

LEMMA ValueBound ==
    ASSUME NEW s \in Seq(0..9)
    PROVE  Value(s) \in Nat /\ Value(s) < TenTo[Len(s)]
<1> DEFINE S == {n \in Nat : \A q \in Seq(0..9) :
                     Len(q) = n => Value(q) \in Nat /\ Value(q) < TenTo[n]}
<1>1. 0 \in S
  <2>1. ASSUME NEW q \in Seq(0..9), Len(q) = 0
        PROVE  Value(q) \in Nat /\ Value(q) < TenTo[0]
    <3>1. Value(q) = 0 /\ TenTo[0] = 1
      BY <2>1, ValueEmpty, TenToIs
    <3> QED BY <3>1
  <2> QED BY <2>1
<1>2. ASSUME NEW n \in Nat, n \in S PROVE n + 1 \in S
  <2> SUFFICES ASSUME NEW q \in Seq(0..9), Len(q) = n + 1
               PROVE  Value(q) \in Nat /\ Value(q) < TenTo[n + 1]
    OBVIOUS
  <2>1. PICK p \in Seq(0..9) : Len(p) = n /\ \A k \in 1..n : p[k] = q[k]
    BY Shortened
  <2>2. Value(p) \in Nat /\ Value(p) < TenTo[n]
    BY <1>2, <2>1
  <2>3. Value(q) = 10 * Value(p) + q[n + 1]
    BY <2>1, ValueNext
  <2>4. q[n + 1] \in 0..9
    OBVIOUS
  <2>5. TenTo[n] \in Nat /\ TenTo[n + 1] = 10 * TenTo[n]
    BY TenToIs
  <2> DEFINE whole == Value(q)
             front == Value(p)
             last  == q[n + 1]
             power == TenTo[n]
             next  == TenTo[n + 1]
  <2> HIDE DEF whole, front, last, power, next
  <2>6. /\ front \in Nat /\ front < power /\ last \in 0..9
        /\ power \in Nat /\ next = 10 * power /\ whole = 10 * front + last
    BY <2>2, <2>3, <2>4, <2>5 DEF whole, front, last, power, next
  <2>7. whole \in Nat /\ whole < next
    BY <2>6, SMT
  <2> QED BY <2>7 DEF whole, next
<1> HIDE DEF S
<1>3. \A n \in Nat : n \in S
  BY <1>1, <1>2, NatSetInduction
<1>4. Len(s) \in S
  BY <1>3
<1> QED BY <1>4 DEF S

LEMMA TenDivides ==
    ASSUME NEW n \in Nat
    PROVE  n \div 10 \in Nat /\ n % 10 \in 0..9 /\ n = 10 * (n \div 10) + (n % 10)
<1> DEFINE q == n \div 10
           r == n % 10
<1>1. q \in Nat /\ r \in 0..9 /\ n = 10 * q + r
  OBVIOUS
<1> QED BY <1>1

LEMMA DivByTen ==
    ASSUME NEW n \in Nat, NEW b \in Nat \ {0}
    PROVE  n \div (10 * b) = (n \div 10) \div b
<1> DEFINE q == n \div 10
           r == n % 10
           p == q \div b
           t == q % b
<1>1. q \in Nat /\ r \in 0..9 /\ n = 10 * q + r
  OBVIOUS
<1> HIDE DEF q, r
<1>2. p \in Int /\ t \in 0..(b - 1) /\ q = b * p + t
  BY <1>1
<1> HIDE DEF p, t
<1> DEFINE d == 10 * b
           rest == 10 * t + r
<1>3. d \in Nat \ {0} /\ rest \in 0..(d - 1)
  BY <1>1, <1>2
<1>4. n = d * p + rest
  <2>1. n = 10 * (b * p + t) + r
    BY <1>1, <1>2
  <2>2. b * p \in Int
    BY <1>2
  <2> DEFINE x == 10 * (b * p + t)
             y == d * p
  <2>3. x \in Int /\ y \in Int /\ x = y + 10 * t
    BY <1>2, <2>2
  <2>4. n = x + r
    BY <2>1
  <2> HIDE DEF x, y, d
  <2>5. n = y + (10 * t + r)
    BY <1>1, <1>2, <2>3, <2>4
  <2> QED BY <2>5 DEF y
<1> HIDE DEF d, rest
<1>5. n \div d = p
  BY <1>2, <1>3, <1>4, DivUnique
<1> QED BY <1>5 DEF d, p, q

LEMMA DigitIs ==
    ASSUME NEW n \in Nat, NEW k \in Nat
    PROVE  (n \div TenTo[k]) % 10 \in 0..9
<1> DEFINE q == n \div TenTo[k]
<1>1. q \in Int
  BY TenToIs
<1> HIDE DEF q
<1>2. q % 10 \in 0..9
  BY <1>1
<1> QED BY <1>2 DEF q

LEMMA PaddedIsSeq ==
    ASSUME NEW n \in Nat, NEW w \in Nat
    PROVE  /\ Padded(n, w) \in Seq(0..9) /\ Len(Padded(n, w)) = w
           /\ \A k \in 1..w : Padded(n, w)[k] = (n \div TenTo[w - k]) % 10
<1> DEFINE f == Padded(n, w)
<1>1. \A k \in 1..w : f[k] = (n \div TenTo[w - k]) % 10
  BY DEF Padded
<1>2. ASSUME NEW k \in 1..w PROVE f[k] \in 0..9
  <2>1. w - k \in Nat
    OBVIOUS
  <2> QED BY <1>1, <2>1, DigitIs
<1>3. f = [k \in 1..w |-> f[k]]
  BY <1>1 DEF Padded
<1> HIDE DEF f
<1>4. f \in [1..w -> 0..9]
  BY <1>2, <1>3
<1>5. f \in Seq(0..9) /\ Len(f) = w
  BY <1>4, FunctionIsSeq
<1> QED BY <1>1, <1>5 DEF f

\* The last digit, and those before it.
LEMMA PaddedNext ==
    ASSUME NEW n \in Nat, NEW w \in Nat
    PROVE  /\ Padded(n, w + 1)[w + 1] = n % 10
           /\ \A k \in 1..w : Padded(n, w + 1)[k] = Padded(n \div 10, w)[k]
<1> DEFINE q == n \div 10
<1>0. q \in Nat
  OBVIOUS
<1>1. Padded(n, w + 1)[w + 1] = n % 10
  <2>1. w + 1 \in 1..(w + 1) /\ w + 1 \in Nat
    OBVIOUS
  <2>2. Padded(n, w + 1)[w + 1] = (n \div TenTo[(w + 1) - (w + 1)]) % 10
    BY <2>1, PaddedIsSeq
  <2>3. (w + 1) - (w + 1) = 0 /\ TenTo[0] = 1 /\ n \div 1 = n
    BY TenToIs
  <2> QED BY <2>2, <2>3
<1> HIDE DEF q
<1>2. ASSUME NEW k \in 1..w PROVE Padded(n, w + 1)[k] = Padded(q, w)[k]
  <2> DEFINE j == w - k
  <2>1. j \in Nat /\ (w + 1) - k = j + 1 /\ k \in 1..(w + 1) /\ w + 1 \in Nat
    OBVIOUS
  <2>2. Padded(n, w + 1)[k] = (n \div TenTo[(w + 1) - k]) % 10
    BY <2>1, PaddedIsSeq
  <2>3. Padded(q, w)[k] = (q \div TenTo[j]) % 10
    BY <1>0, PaddedIsSeq
  <2> HIDE DEF j
  <2>4. TenTo[j] \in Nat \ {0} /\ TenTo[j + 1] = 10 * TenTo[j]
    BY <2>1, TenToIs
  <2>5. n \div (10 * TenTo[j]) = q \div TenTo[j]
    BY <2>4, DivByTen DEF q
  <2> QED BY <2>1, <2>2, <2>3, <2>4, <2>5
<1> QED BY <1>1, <1>2 DEF q

\* A number is read back from its digits, if there are enough of them.
LEMMA ValueOfPadded ==
    ASSUME NEW n \in Nat, NEW w \in Nat, n < TenTo[w]
    PROVE  Value(Padded(n, w)) = n
<1> DEFINE S == {j \in Nat : \A x \in Nat :
                     x < TenTo[j] => Value(Padded(x, j)) = x}
<1>1. 0 \in S
  <2>1. ASSUME NEW x \in Nat, x < TenTo[0] PROVE Value(Padded(x, 0)) = x
    <3>1. TenTo[0] = 1 /\ Padded(x, 0) \in Seq(0..9) /\ Len(Padded(x, 0)) = 0
      BY PaddedIsSeq, TenToIs
    <3>2. Value(Padded(x, 0)) = 0
      BY <3>1, ValueEmpty
    <3>3. x = 0
      BY <2>1, <3>1
    <3> QED BY <3>2, <3>3
  <2> QED BY <2>1
<1>2. ASSUME NEW j \in Nat, j \in S PROVE j + 1 \in S
  <2> SUFFICES ASSUME NEW x \in Nat, x < TenTo[j + 1]
               PROVE  Value(Padded(x, j + 1)) = x
    OBVIOUS
  <2> DEFINE q == x \div 10
             s == Padded(x, j + 1)
             p == Padded(q, j)
             last == x % 10
  <2>1. q \in Nat /\ x = 10 * q + last /\ last \in 0..9
    BY TenDivides
  <2>2. /\ s \in Seq(0..9) /\ Len(s) = j + 1
        /\ p \in Seq(0..9) /\ Len(p) = j
    <3>1. q \in Nat /\ j + 1 \in Nat
      OBVIOUS
    <3> QED BY <3>1, PaddedIsSeq
  <2>3. s[j + 1] = last /\ \A k \in 1..j : s[k] = p[k]
    BY PaddedNext
  <2> DEFINE power == TenTo[j]
  <2>4. power \in Nat /\ TenTo[j + 1] = 10 * power
    BY TenToIs
  <2>5. q < power
    <3> HIDE DEF power
    <3>1. x < 10 * power
      BY <2>4
    <3> HIDE DEF q, last
    <3> QED BY <2>1, <2>4, <3>1
  <2>6. Value(p) = q
    <3> HIDE DEF p
    <3>1. q \in Nat
      BY <2>1
    <3> HIDE DEF q
    <3> QED BY <1>2, <2>5, <3>1 DEF p
  <2>7. Value(s) = 10 * Value(p) + s[Len(s)]
    <3> HIDE DEF s, p
    <3>1. Len(s) = Len(p) + 1 /\ \A k \in 1..Len(p) : p[k] = s[k]
      BY <2>2, <2>3
    <3> QED BY <2>2, <3>1, ValueNext
  <2> HIDE DEF s, p, q, last
  <2>8. Value(s) = 10 * q + last
    BY <2>2, <2>3, <2>6, <2>7, Zenon
  <2> QED BY <2>1, <2>8 DEF s
<1> HIDE DEF S
<1>3. \A j \in Nat : j \in S
  BY <1>1, <1>2, NatSetInduction
<1> QED BY <1>3 DEF S

\* And digits are the digits of the number they denote.
LEMMA PaddedOfValue ==
    ASSUME NEW s \in Seq(0..9)
    PROVE  Padded(Value(s), Len(s)) = s
<1> DEFINE S == {n \in Nat : \A q \in Seq(0..9) : Len(q) = n =>
                     \A k \in 1..n : Padded(Value(q), n)[k] = q[k]}
<1>1. 0 \in S
  OBVIOUS
<1>2. ASSUME NEW n \in Nat, n \in S PROVE n + 1 \in S
  <2> SUFFICES ASSUME NEW q \in Seq(0..9), Len(q) = n + 1, NEW k \in 1..(n + 1)
               PROVE  Padded(Value(q), n + 1)[k] = q[k]
    OBVIOUS
  <2>1. PICK p \in Seq(0..9) : Len(p) = n /\ \A i \in 1..n : p[i] = q[i]
    BY Shortened
  <2> DEFINE front == Value(p)
             last  == q[n + 1]
             whole == Value(q)
  <2>2. whole = 10 * front + last
    BY <2>1, ValueNext
  <2>3. last \in 0..9 /\ front \in Nat /\ whole \in Nat
    BY ValueBound
  <2>4. \A i \in 1..n : Padded(front, n)[i] = p[i]
    BY <1>2, <2>1
  <2> HIDE DEF front, last, whole
  <2>5. whole \div 10 = front /\ whole % 10 = last
    BY <2>2, <2>3, SMTT(30)
  <2>6. /\ Padded(whole, n + 1)[n + 1] = last
        /\ \A i \in 1..n : Padded(whole, n + 1)[i] = Padded(front, n)[i]
    BY <2>3, <2>5, PaddedNext
  <2>7. CASE k = n + 1
    BY <2>6, <2>7 DEF last, whole
  <2>8. CASE k # n + 1
    <3>1. k \in 1..n
      BY <2>8
    <3> QED BY <2>1, <2>4, <2>6, <3>1 DEF whole
  <2> QED BY <2>7, <2>8
<1> HIDE DEF S
<1>3. \A n \in Nat : n \in S
  BY <1>1, <1>2, NatSetInduction
<1> DEFINE w == Len(s)
           p == Padded(Value(s), w)
<1>4. w \in Nat /\ Value(s) \in Nat
  BY ValueBound
<1>5. \A k \in 1..w : p[k] = s[k]
  <2>1. w \in S
    BY <1>3, <1>4
  <2> QED BY <2>1 DEF S
<1>6. p \in Seq(0..9) /\ Len(p) = w
  BY <1>4, PaddedIsSeq
<1> HIDE DEF p
<1>7. p = s
  BY <1>5, <1>6
<1> QED BY <1>7 DEF p

-----------------------------------------------------------------------------
(***************************************************************************)
(* Trailing zeros.                                                         *)
(***************************************************************************)

\* s with zeros after it, up to the given width.
ZeroFilled(s, w) == [k \in 1..w |-> IF k <= Len(s) THEN s[k] ELSE 0]

LEMMA FilledIsSeq ==
    ASSUME NEW s \in Seq(0..9), NEW w \in Nat
    PROVE  /\ ZeroFilled(s, w) \in Seq(0..9) /\ Len(ZeroFilled(s, w)) = w
           /\ \A k \in 1..w : ZeroFilled(s, w)[k] = IF k <= Len(s) THEN s[k] ELSE 0
<1> DEFINE f == ZeroFilled(s, w)
<1>1. \A k \in 1..w : f[k] = IF k <= Len(s) THEN s[k] ELSE 0
  BY DEF ZeroFilled
<1>2. f \in [1..w -> 0..9]
  BY DEF ZeroFilled
<1> HIDE DEF f
<1>3. f \in Seq(0..9) /\ Len(f) = w
  BY <1>2, FunctionIsSeq
<1> QED BY <1>1, <1>3 DEF f

LEMMA SameSeq ==
    ASSUME NEW p \in Seq(0..9), NEW q \in Seq(0..9), Len(p) = Len(q),
           \A k \in 1..Len(p) : p[k] = q[k]
    PROVE  p = q
OBVIOUS

\* Every zero is a factor of ten.
LEMMA ValueOfFilled ==
    ASSUME NEW s \in Seq(0..9), NEW j \in Nat
    PROVE  Value(ZeroFilled(s, Len(s) + j)) = Value(s) * TenTo[j]
<1> DEFINE n == Len(s)
           v == Value(s)
           S == {i \in Nat : Value(ZeroFilled(s, n + i)) = v * TenTo[i]}
<1>0. n \in Nat /\ v \in Nat
  BY ValueBound
<1>1. 0 \in S
  <2> DEFINE f == ZeroFilled(s, n)
  <2>1. n + 0 = n /\ TenTo[0] = 1 /\ v * 1 = v
    BY <1>0, TenToIs
  <2>2. /\ f \in Seq(0..9) /\ Len(f) = n
        /\ \A k \in 1..n : f[k] = IF k <= n THEN s[k] ELSE 0
    BY <1>0, FilledIsSeq
  <2> HIDE DEF f
  <2>3. f = s
    BY <2>2, SameSeq
  <2> QED BY <2>1, <2>3 DEF f
<1>2. ASSUME NEW i \in Nat, i \in S PROVE i + 1 \in S
  <2> DEFINE m == n + i
             f == ZeroFilled(s, m)
             g == ZeroFilled(s, n + (i + 1))
  <2>1. m \in Nat /\ n + (i + 1) = m + 1 /\ m + 1 \in Nat
    BY <1>0
  <2>2. /\ f \in Seq(0..9) /\ Len(f) = m
        /\ \A k \in 1..m : f[k] = IF k <= n THEN s[k] ELSE 0
    BY <2>1, FilledIsSeq
  <2>3. /\ g \in Seq(0..9) /\ Len(g) = m + 1
        /\ \A k \in 1..(m + 1) : g[k] = IF k <= n THEN s[k] ELSE 0
    BY <2>1, FilledIsSeq
  <2>4. g[m + 1] = 0
    <3>1. m + 1 \in 1..(m + 1) /\ ~(m + 1 <= n)
      BY <1>0
    <3> QED BY <2>3, <3>1, Zenon
  <2>5. Value(f) = v * TenTo[i]
    BY <1>2
  <2> HIDE DEF f, g, m, n, v
  <2>6. \A k \in 1..m : f[k] = g[k]
    BY <2>1, <2>2, <2>3
  <2>7. Value(g) = 10 * Value(f) + g[Len(g)]
    BY <2>2, <2>3, <2>6, ValueNext
  <2> DEFINE t == TenTo[i]
  <2>8. t \in Nat /\ TenTo[i + 1] = 10 * t
    BY TenToIs
  <2> HIDE DEF t
  <2>9. Value(g) = 10 * (v * t)
    BY <2>3, <2>4, <2>5, <2>7, <2>8, <1>0 DEF t
  <2>10. 10 * (v * t) = v * (10 * t)
    BY <1>0, <2>8
  <2>11. Value(g) = v * TenTo[i + 1]
    BY <2>8, <2>9, <2>10
  <2>12. i + 1 \in Nat
    OBVIOUS
  <2> QED BY <2>11, <2>12 DEF g
<1> HIDE DEF S
<1>3. j \in S
  BY <1>1, <1>2, NatSetInduction
<1> QED BY <1>3 DEF S

LEMMA MaxOfNumbers ==
    ASSUME NEW n \in Nat, NEW T \in SUBSET (0..n), T # {}
    PROVE  Max(T) \in T /\ \A y \in T : Max(T) >= y
<1> DEFINE S == {m \in Nat : \A U \in SUBSET (0..m) : U # {} =>
                     \E x \in U : \A y \in U : x >= y}
<1>1. 0 \in S
  <2> SUFFICES ASSUME NEW U \in SUBSET (0..0), U # {}
               PROVE  \E x \in U : \A y \in U : x >= y
    OBVIOUS
  <2>1. \A y \in U : y \in 0..0
    OBVIOUS
  <2>2. \A y \in U : y = 0
    BY <2>1
  <2>3. PICK x \in U : TRUE
    OBVIOUS
  <2>4. \A y \in U : x >= y
    BY <2>2
  <2> QED BY <2>4
<1>2. ASSUME NEW m \in Nat, m \in S PROVE m + 1 \in S
  <2> SUFFICES ASSUME NEW U \in SUBSET (0..(m + 1)), U # {}
               PROVE  \E x \in U : \A y \in U : x >= y
    OBVIOUS
  <2>1. CASE m + 1 \in U
    BY <2>1
  <2>2. CASE m + 1 \notin U
    <3>1. U \in SUBSET (0..m)
      BY <2>2
    <3> QED BY <1>2, <3>1
  <2> QED BY <2>1, <2>2
<1> HIDE DEF S
<1>3. n \in S
  BY <1>1, <1>2, NatSetInduction
<1>4. \E x \in T : \A y \in T : x >= y
  BY <1>3 DEF S
<1> QED BY <1>4, Zenon DEF Max

\* What is cut off is zeros, and all of them.
LEMMA TrimZerosIs ==
    ASSUME NEW s \in Seq(0..9)
    PROVE  \E n \in 0..Len(s) :
               /\ TrimZeros(s) = SubSeq(s, 1, n)
               /\ n = Max({0} \cup {k \in DOMAIN s : s[k] # 0})
               /\ n > 0 => s[n] # 0
               /\ \A k \in 1..Len(s) : k > n => s[k] = 0
<1> DEFINE T == {0} \cup {k \in DOMAIN s : s[k] # 0}
           n == Max(T)
<1>1. Len(s) \in Nat /\ DOMAIN s = 1..Len(s)
  OBVIOUS
<1>2. T \in SUBSET (0..Len(s)) /\ T # {}
  BY <1>1
<1>3. n \in T /\ \A y \in T : n >= y
  <2> HIDE DEF T
  <2> QED BY <1>1, <1>2, MaxOfNumbers
<1> HIDE DEF n
<1>4. n \in 0..Len(s) /\ (n > 0 => s[n] # 0)
  BY <1>1, <1>2, <1>3
<1>5. ASSUME NEW k \in 1..Len(s), k > n PROVE s[k] = 0
  <2>1. k \notin T
    BY <1>3, <1>4, <1>5
  <2> QED BY <1>1, <2>1
<1>6. TrimZeros(s) = SubSeq(s, 1, n)
  BY DEF TrimZeros, n
<1>7. n = Max({0} \cup {k \in DOMAIN s : s[k] # 0})
  BY DEF n
<1> QED BY <1>4, <1>5, <1>6, <1>7

LEMMA PrefixIs ==
    ASSUME NEW s \in Seq(0..9), NEW n \in 0..Len(s)
    PROVE  /\ SubSeq(s, 1, n) \in Seq(0..9) /\ Len(SubSeq(s, 1, n)) = n
           /\ \A k \in 1..n : SubSeq(s, 1, n)[k] = s[k]
OBVIOUS

LEMMA TrimmedIsSeq ==
    ASSUME NEW s \in Seq(0..9)
    PROVE  /\ TrimZeros(s) \in Seq(0..9) /\ Len(TrimZeros(s)) <= Len(s)
           /\ ZeroFilled(TrimZeros(s), Len(s)) = s
<1> DEFINE f == ZeroFilled(TrimZeros(s), Len(s))
<1>1. PICK n \in 0..Len(s) :
          /\ TrimZeros(s) = SubSeq(s, 1, n)
          /\ \A k \in 1..Len(s) : k > n => s[k] = 0
  BY TrimZerosIs
<1>2. /\ TrimZeros(s) \in Seq(0..9) /\ Len(TrimZeros(s)) = n
      /\ \A k \in 1..n : TrimZeros(s)[k] = s[k]
  BY <1>1, PrefixIs
<1>3. Len(s) \in Nat
  OBVIOUS
<1>4. /\ f \in Seq(0..9) /\ Len(f) = Len(s)
      /\ \A k \in 1..Len(s) : f[k] = IF k <= n THEN TrimZeros(s)[k] ELSE 0
  BY <1>2, <1>3, FilledIsSeq
<1> HIDE DEF f
<1>5. ASSUME NEW k \in 1..Len(s) PROVE f[k] = s[k]
  <2>1. CASE k <= n
    <3>1. k \in 1..n
      BY <2>1
    <3> QED BY <1>2, <1>4, <2>1, <3>1
  <2>2. CASE ~(k <= n)
    <3>1. k > n
      BY <2>2
    <3> QED BY <1>1, <1>4, <2>2, <3>1
  <2> QED BY <2>1, <2>2
<1>6. f = s
  BY <1>4, <1>5, SameSeq
<1> QED BY <1>1, <1>2, <1>6 DEF f

LEMMA TrimOfFilled ==
    ASSUME NEW s \in Seq(0..9), NEW w \in Nat, Len(s) <= w
    PROVE  TrimZeros(ZeroFilled(s, w)) = TrimZeros(s)
<1> DEFINE f == ZeroFilled(s, w)
<1>1. /\ f \in Seq(0..9) /\ Len(f) = w
      /\ \A k \in 1..w : f[k] = IF k <= Len(s) THEN s[k] ELSE 0
  BY FilledIsSeq
<1> HIDE DEF f
<1>2. {k \in DOMAIN f : f[k] # 0} = {k \in DOMAIN s : s[k] # 0}
  <2>1. DOMAIN f = 1..w /\ DOMAIN s = 1..Len(s) /\ Len(s) \in Nat
    BY <1>1
  <2>2. \A k \in 1..Len(s) : k \in 1..w /\ f[k] = s[k]
    BY <1>1, <2>1
  <2>3. \A k \in 1..w : k \notin 1..Len(s) => f[k] = 0
    BY <1>1, <2>1
  <2> QED BY <2>1, <2>2, <2>3, Zenon
<1>3. PICK n \in 0..Len(s) :
          /\ TrimZeros(s) = SubSeq(s, 1, n)
          /\ n = Max({0} \cup {k \in DOMAIN s : s[k] # 0})
  BY TrimZerosIs
<1>4. PICK m \in 0..Len(f) :
          /\ TrimZeros(f) = SubSeq(f, 1, m)
          /\ m = Max({0} \cup {k \in DOMAIN f : f[k] # 0})
  BY <1>1, TrimZerosIs
<1>5. m = n
  BY <1>2, <1>3, <1>4
<1>6. n \in 0..w /\ \A k \in 1..n : f[k] = s[k]
  BY <1>1
<1> DEFINE p == SubSeq(s, 1, n)
           q == SubSeq(f, 1, n)
<1>7. p \in Seq(0..9) /\ Len(p) = n /\ \A k \in 1..n : p[k] = s[k]
  BY PrefixIs
<1>8. q \in Seq(0..9) /\ Len(q) = n /\ \A k \in 1..n : q[k] = f[k]
  BY <1>1, <1>6, PrefixIs
<1> HIDE DEF p, q
<1>9. p = q
  BY <1>6, <1>7, <1>8, SameSeq
<1> QED BY <1>3, <1>4, <1>5, <1>9 DEF p, q, f

\* Nothing is left exactly when every digit is zero.
LEMMA TrimmedToNothing ==
    ASSUME NEW s \in Seq(0..9)
    PROVE  /\ TrimZeros(s) = << >> <=> Value(s) = 0
           /\ Value(s) = 0 <=> \A k \in DOMAIN s : s[k] = 0
<1>0. Len(s) \in Nat /\ DOMAIN s = 1..Len(s)
  OBVIOUS
<1>1. PICK n \in 0..Len(s) :
          /\ TrimZeros(s) = SubSeq(s, 1, n)
          /\ n > 0 => s[n] # 0
          /\ \A k \in 1..Len(s) : k > n => s[k] = 0
  BY TrimZerosIs
<1>2. Len(TrimZeros(s)) = n /\ TrimZeros(s) \in Seq(0..9)
  BY <1>1, PrefixIs
<1>3. TrimZeros(s) = << >> <=> n = 0
  BY <1>2
<1>4. n = 0 <=> \A k \in DOMAIN s : s[k] = 0
  BY <1>0, <1>1
<1>5. ASSUME n = 0 PROVE Value(s) = 0
  <2> DEFINE t == TrimZeros(s)
             w == Len(s)
  <2>1. t \in Seq(0..9) /\ Len(t) = 0 /\ ZeroFilled(t, w) = s /\ w \in Nat
    BY <1>0, <1>2, <1>5, TrimmedIsSeq
  <2> HIDE DEF t, w
  <2>2. Len(t) + w = w
    BY <2>1
  <2>3. Value(t) = 0 /\ Value(s) = Value(t) * TenTo[w]
    BY <2>1, <2>2, ValueEmpty, ValueOfFilled
  <2>4. TenTo[w] \in Nat
    BY <2>1, TenToIs
  <2> QED BY <2>3, <2>4
<1>6. ASSUME Value(s) = 0, NEW k \in DOMAIN s PROVE s[k] = 0
  <2> DEFINE power == TenTo[Len(s) - k]
  <2>1. Len(s) - k \in Nat /\ k \in 1..Len(s)
    BY <1>0
  <2>2. Padded(0, Len(s))[k] = (0 \div power) % 10
    BY <1>0, <2>1, PaddedIsSeq
  <2>3. Padded(0, Len(s)) = s
    BY <1>6, PaddedOfValue
  <2>4. power \in Nat \ {0}
    BY <2>1, TenToIs
  <2> HIDE DEF power
  <2>5. (0 \div power) % 10 = 0
    <3>1. 0 = power * 0 + 0 /\ 0 \in 0..(power - 1)
      BY <2>4
    <3>2. 0 \div power = 0
      BY <2>4, <3>1, DivUnique
    <3> QED BY <3>2
  <2> QED BY <2>2, <2>3, <2>5
<1> QED BY <1>3, <1>4, <1>5, <1>6

-----------------------------------------------------------------------------
(***************************************************************************)
(* A number without leading zeros.                                         *)
(***************************************************************************)

LEMMA PowersGrow ==
    ASSUME NEW n \in Nat
    PROVE  n < TenTo[n]
<1> DEFINE S == {i \in Nat : i < TenTo[i]}
<1>1. 0 \in S
  BY TenToIs
<1>2. ASSUME NEW i \in Nat, i \in S PROVE i + 1 \in S
  <2> DEFINE t == TenTo[i]
  <2>1. t \in Nat /\ TenTo[i + 1] = 10 * t /\ i < t
    BY <1>2, TenToIs
  <2> HIDE DEF t
  <2>2. i + 1 < 10 * t
    BY <2>1
  <2> QED BY <2>1, <2>2
<1> HIDE DEF S
<1>3. n \in S
  BY <1>1, <1>2, NatSetInduction
<1> QED BY <1>3 DEF S

LEMMA PowersMonotone ==
    ASSUME NEW m \in Nat, NEW n \in Nat, m <= n
    PROVE  TenTo[m] <= TenTo[n]
<1> DEFINE S == {i \in Nat : TenTo[m] <= TenTo[m + i]}
<1>1. 0 \in S
  <2>1. TenTo[m] \in Nat /\ m + 0 = m
    BY TenToIs
  <2> QED BY <2>1
<1>2. ASSUME NEW i \in Nat, i \in S PROVE i + 1 \in S
  <2> DEFINE t == TenTo[m + i]
             b == TenTo[m]
  <2>1. m + i \in Nat /\ m + (i + 1) = (m + i) + 1
    OBVIOUS
  <2>2. t \in Nat /\ TenTo[m + (i + 1)] = 10 * t /\ b <= t /\ b \in Nat
    BY <1>2, <2>1, TenToIs
  <2> HIDE DEF t, b
  <2>3. b <= 10 * t
    BY <2>2
  <2> QED BY <2>2, <2>3 DEF b
<1> HIDE DEF S
<1>3. n - m \in S
  <2>1. n - m \in Nat
    OBVIOUS
  <2> QED BY <1>1, <1>2, <2>1, NatSetInduction
<1>4. m + (n - m) = n
  OBVIOUS
<1> QED BY <1>3, <1>4 DEF S

\* The width of n.
IsWidth(n, width) ==
    n < TenTo[width] /\ (width > 1 => n >= TenTo[width - 1])

LEMMA WidthExists ==
    ASSUME NEW n \in Nat
    PROVE  \E width \in 1..(n + 1) : IsWidth(n, width)
<1> DEFINE S == {i \in Nat : i >= 1 /\ n < TenTo[i] =>
                                 \E width \in 1..i : IsWidth(n, width)}
<1>1. 0 \in S
  OBVIOUS
<1>2. ASSUME NEW i \in Nat, i \in S PROVE i + 1 \in S
  <2> SUFFICES ASSUME n < TenTo[i + 1]
               PROVE  \E width \in 1..(i + 1) : IsWidth(n, width)
    OBVIOUS
  <2>1. CASE i >= 1 /\ n < TenTo[i]
    <3>1. PICK width \in 1..i : IsWidth(n, width)
      BY <1>2, <2>1
    <3>2. width \in 1..(i + 1)
      OBVIOUS
    <3> QED BY <3>1, <3>2
  <2>2. CASE ~(i >= 1 /\ n < TenTo[i])
    <3>1. i + 1 > 1 => n >= TenTo[(i + 1) - 1]
      <4>1. TenTo[i] \in Nat /\ (i + 1) - 1 = i /\ (i + 1 > 1 => i >= 1)
        BY TenToIs
      <4> QED BY <2>2, <4>1
    <3>2. IsWidth(n, i + 1) /\ i + 1 \in 1..(i + 1)
      BY <3>1 DEF IsWidth
    <3> QED BY <3>2
  <2> QED BY <2>1, <2>2
<1> HIDE DEF S
<1>3. n + 1 \in S
  BY <1>1, <1>2, NatSetInduction
<1>4. n < TenTo[n + 1]
  <2>1. n + 1 < TenTo[n + 1] /\ TenTo[n + 1] \in Nat
    BY PowersGrow, TenToIs
  <2> QED BY <2>1
<1> QED BY <1>3, <1>4 DEF S

LEMMA WidthUnique ==
    ASSUME NEW n \in Nat, NEW v \in Nat \ {0}, NEW w \in Nat \ {0},
           IsWidth(n, v), IsWidth(n, w)
    PROVE  v = w
<1>1. ASSUME NEW i \in Nat \ {0}, NEW j \in Nat \ {0},
             IsWidth(n, i), IsWidth(n, j), i < j
      PROVE  FALSE
  <2>1. i <= j - 1 /\ j > 1 /\ j - 1 \in Nat
    BY <1>1
  <2>2. TenTo[i] <= TenTo[j - 1]
    BY <2>1, PowersMonotone
  <2>3. n < TenTo[i] /\ n >= TenTo[j - 1]
    BY <1>1, <2>1 DEF IsWidth
  <2>4. TenTo[i] \in Nat /\ TenTo[j - 1] \in Nat
    BY <2>1, TenToIs
  <2> QED BY <2>2, <2>3, <2>4
<1>2. ~(v < w) /\ ~(w < v)
  BY <1>1
<1> QED BY <1>2

LEMMA LeadingDigit ==
    ASSUME NEW s \in Seq(0..9), NEW n \in Nat, Len(s) = n + 1, s[1] # 0
    PROVE  Value(s) >= TenTo[n]
<1> DEFINE S == {i \in Nat : \A q \in Seq(0..9) :
                     Len(q) = i + 1 /\ q[1] # 0 => Value(q) >= TenTo[i]}
<1>1. ASSUME NEW i \in Nat, NEW q \in Seq(0..9), Len(q) = i + 1
      PROVE  \E p \in Seq(0..9) :
                 /\ Len(p) = i /\ \A k \in 1..i : p[k] = q[k]
                 /\ Value(q) = 10 * Value(p) + q[i + 1]
                 /\ Value(p) \in Nat /\ q[i + 1] \in 0..9
  <2>1. PICK p \in Seq(0..9) : Len(p) = i /\ \A k \in 1..i : p[k] = q[k]
    BY <1>1, Shortened
  <2>2. Value(q) = 10 * Value(p) + q[Len(q)]
    BY <1>1, <2>1, ValueNext
  <2>3. Value(p) \in Nat
    BY ValueBound
  <2>4. q[i + 1] \in 0..9
    BY <1>1
  <2> QED BY <1>1, <2>1, <2>2, <2>3, <2>4
<1>2. 0 \in S
  <2> SUFFICES ASSUME NEW q \in Seq(0..9), Len(q) = 0 + 1, q[1] # 0
               PROVE  Value(q) >= TenTo[0]
    OBVIOUS
  <2>1. PICK p \in Seq(0..9) : /\ Value(q) = 10 * Value(p) + q[0 + 1]
                               /\ Value(p) \in Nat /\ q[0 + 1] \in 0..9
    BY <1>1
  <2>2. 0 + 1 = 1 /\ TenTo[0] = 1
    BY TenToIs
  <2> QED BY <2>1, <2>2
<1>3. ASSUME NEW i \in Nat, i \in S PROVE i + 1 \in S
  <2> SUFFICES ASSUME NEW q \in Seq(0..9), Len(q) = (i + 1) + 1, q[1] # 0
               PROVE  Value(q) >= TenTo[i + 1]
    OBVIOUS
  <2>1. i + 1 \in Nat
    OBVIOUS
  <2>2. PICK p \in Seq(0..9) :
            /\ Len(p) = i + 1 /\ \A k \in 1..(i + 1) : p[k] = q[k]
            /\ Value(q) = 10 * Value(p) + q[(i + 1) + 1]
            /\ Value(p) \in Nat /\ q[(i + 1) + 1] \in 0..9
    BY <1>1, <2>1
  <2>3. p[1] # 0
    BY <2>2
  <2>4. Value(p) >= TenTo[i]
    BY <1>3, <2>2, <2>3
  <2> DEFINE power == TenTo[i]
             front == Value(p)
             whole == Value(q)
             last  == q[(i + 1) + 1]
  <2>5. power \in Nat /\ TenTo[i + 1] = 10 * power
    BY TenToIs
  <2>6. whole = 10 * front + last /\ front \in Nat /\ last \in 0..9 /\ front >= power
    BY <2>2, <2>4
  <2> HIDE DEF power, front, whole, last
  <2>7. whole >= 10 * power
    BY <2>5, <2>6, SMT
  <2> QED BY <2>5, <2>7 DEF whole
<1> HIDE DEF S
<1>4. n \in S
  BY <1>2, <1>3, NatSetInduction
<1> QED BY <1>4 DEF S

LEMMA DigitsIs ==
    ASSUME NEW n \in Nat
    PROVE  \E width \in 1..(n + 1) : IsWidth(n, width) /\ Digits(n) = Padded(n, width)
<1> DEFINE width == CHOOSE w \in 1..(n + 1) :
                        n < TenTo[w] /\ (w > 1 => n >= TenTo[w - 1])
<1>1. width \in 1..(n + 1) /\ IsWidth(n, width)
  BY WidthExists, Zenon DEF IsWidth
<1>2. Digits(n) = Padded(n, width)
  BY DEF Digits
<1> QED BY <1>1, <1>2

\* n is read back from its digits, which begin with a zero only if n is zero.
LEMMA ValueOfDigits ==
    ASSUME NEW n \in Nat
    PROVE  /\ Digits(n) \in Seq(0..9) /\ Len(Digits(n)) >= 1
           /\ Value(Digits(n)) = n
           /\ Len(Digits(n)) > 1 => Digits(n)[1] # 0
<1>1. PICK w \in 1..(n + 1) : IsWidth(n, w) /\ Digits(n) = Padded(n, w)
  BY DigitsIs
<1> DEFINE s == Padded(n, w)
<1>2. w \in Nat /\ w >= 1 /\ n < TenTo[w]
  BY <1>1 DEF IsWidth
<1>3. /\ s \in Seq(0..9) /\ Len(s) = w
      /\ \A k \in 1..w : s[k] = (n \div TenTo[w - k]) % 10
  BY <1>2, PaddedIsSeq
<1>4. Value(s) = n
  BY <1>2, ValueOfPadded
<1>5. ASSUME w > 1 PROVE s[1] # 0
  <2> DEFINE b == TenTo[w - 1]
             q == n \div b
  <2>1. w - 1 \in Nat /\ (w - 1) + 1 = w /\ 1 \in 1..w
    BY <1>2
  <2>2. b \in Nat \ {0} /\ TenTo[w] = 10 * b
    BY <2>1, TenToIs
  <2>3. n >= b /\ n < 10 * b
    BY <1>1, <1>2, <1>5, <2>2 DEF IsWidth
  <2>4. s[1] = q % 10
    BY <1>3, <2>1
  <2> HIDE DEF b
  <2>5. q \in 1..9
    <3>1. b \div b <= q
      BY <2>2, <2>3, DivMonotone
    <3>2. b = b * 1 + 0 /\ 0 \in 0..(b - 1)
      BY <2>2
    <3>3. b \div b = 1
      BY <2>2, <3>2, DivUnique
    <3>4. q \in Int /\ n % b \in 0..(b - 1) /\ n = b * q + (n % b)
      BY <2>2
    <3> HIDE DEF q
    <3>5. q <= 9
      <4> SUFFICES ASSUME 10 <= q PROVE FALSE
        BY <3>4
      <4>1. b * 10 <= b * q
        BY <2>2, <3>4, MulMonotone
      <4>2. b * q <= n
        BY <2>2, <3>4
      <4>3. b * q \in Int /\ b * 10 = 10 * b
        BY <2>2, <3>4
      <4> QED BY <2>2, <2>3, <4>1, <4>2, <4>3
    <3> QED BY <3>1, <3>3, <3>4, <3>5
  <2> HIDE DEF q
  <2>6. q % 10 # 0
    BY <2>5
  <2> QED BY <2>4, <2>6
<1> QED BY <1>1, <1>2, <1>3, <1>4, <1>5

\* And digits without leading zeros are the digits of their number.
LEMMA DigitsOfValue ==
    ASSUME NEW s \in Seq(0..9), Len(s) >= 1, Len(s) > 1 => s[1] # 0
    PROVE  Digits(Value(s)) = s
<1> DEFINE n == Value(s)
           v == Len(s)
<1>1. n \in Nat /\ n < TenTo[v] /\ v \in Nat \ {0}
  BY ValueBound
<1>2. v > 1 => n >= TenTo[v - 1]
  <2>1. ASSUME v > 1 PROVE n >= TenTo[v - 1]
    <3>1. v - 1 \in Nat /\ Len(s) = (v - 1) + 1 /\ s[1] # 0
      BY <2>1
    <3> QED BY <3>1, LeadingDigit
  <2> QED BY <2>1
<1>3. IsWidth(n, v)
  BY <1>1, <1>2 DEF IsWidth
<1>4. PICK w \in 1..(n + 1) : IsWidth(n, w) /\ Digits(n) = Padded(n, w)
  BY <1>1, DigitsIs
<1>5. w \in Nat \ {0}
  BY <1>1
<1>6. w = v
  BY <1>1, <1>3, <1>4, <1>5, WidthUnique
<1> QED BY <1>4, <1>6, PaddedOfValue

-----------------------------------------------------------------------------
(***************************************************************************)
(* Amounts and their texts.                                                *)
(***************************************************************************)

\* A fraction that is written with up to w digits, as the number of its
\* smallest units; and the other way round.
LEMMA UnitsOfFraction ==
    ASSUME NEW s \in Seq(0..9), NEW w \in Nat, Len(s) <= w
    PROVE  LET n == Value(s) * TenTo[w - Len(s)]
           IN  /\ n \in Nat /\ n < TenTo[w]
               /\ TrimZeros(Padded(n, w)) = TrimZeros(s)
               /\ n = 0 <=> Value(s) = 0
<1> DEFINE j == w - Len(s)
           f == ZeroFilled(s, w)
           n == Value(s) * TenTo[j]
<1>1. j \in Nat /\ Len(s) + j = w /\ Value(s) \in Nat /\ TenTo[j] \in Nat \ {0}
  <2>1. j \in Nat /\ Len(s) + j = w
    OBVIOUS
  <2> QED BY <2>1, TenToIs, ValueBound
<1>2. f \in Seq(0..9) /\ Len(f) = w
  BY FilledIsSeq
<1>3. Value(f) = n
  BY <1>1, ValueOfFilled
<1>4. Value(f) \in Nat /\ Value(f) < TenTo[w] /\ Padded(Value(f), w) = f
  BY <1>2, ValueBound, PaddedOfValue
<1>5. TrimZeros(f) = TrimZeros(s)
  BY TrimOfFilled
<1>6. n = 0 <=> Value(s) = 0
  <2> DEFINE v == Value(s)
             b == TenTo[j]
  <2>1. v \in Nat /\ b \in Nat \ {0}
    BY <1>1
  <2> HIDE DEF v, b
  <2>2. v * b = 0 <=> v = 0
    BY <2>1
  <2> QED BY <2>2 DEF v, b
<1> QED BY <1>3, <1>4, <1>5, <1>6

LEMMA FractionOfUnits ==
    ASSUME NEW w \in Nat, NEW n \in Nat, n < TenTo[w]
    PROVE  LET s == TrimZeros(Padded(n, w))
           IN  /\ s \in Seq(0..9) /\ Len(s) <= w
               /\ Value(s) * TenTo[w - Len(s)] = n
               /\ s = << >> <=> n = 0
<1> DEFINE f == Padded(n, w)
           s == TrimZeros(f)
           j == w - Len(s)
<1>1. f \in Seq(0..9) /\ Len(f) = w /\ Value(f) = n
  BY PaddedIsSeq, ValueOfPadded
<1> HIDE DEF f
<1>2. s \in Seq(0..9) /\ Len(s) <= w /\ ZeroFilled(s, w) = f
  BY <1>1, TrimmedIsSeq
<1>3. s = << >> <=> n = 0
  BY <1>1, TrimmedToNothing
<1> HIDE DEF s
<1>4. j \in Nat /\ Len(s) + j = w
  BY <1>2
<1>5. Value(s) * TenTo[j] = n
  BY <1>1, <1>2, <1>4, ValueOfFilled
<1> QED BY <1>2, <1>3, <1>5 DEF s, f

LEMMA ScaleIs == SCALE_EXP \in Nat /\ SCALE = TenTo[SCALE_EXP] /\ SCALE \in Nat \ {0}
BY ScaleAssumption, DecimalAssumption

LEMMA TextOfAmount ==
    ASSUME NEW x \in Int
    PROVE  ToDecimalString(x) \in Texts
<1> DEFINE t == ToDecimalString(x)
           q == Abs(x) \div SCALE
           r == Abs(x) % SCALE
<1>1. Abs(x) \in Nat
  BY DEF Abs
<1>2. q \in Nat /\ r \in Nat /\ r < TenTo[SCALE_EXP]
  <2> DEFINE a == Abs(x)
  <2> HIDE DEF a
  <2>1. a \div SCALE \in Nat
    BY <1>1, DivBound, ScaleIs DEF a
  <2>2. a % SCALE \in 0..(SCALE - 1)
    BY <1>1, DecimalAssumption DEF a
  <2>3. a % SCALE \in Nat /\ a % SCALE < SCALE
    BY <2>2, DecimalAssumption
  <2> QED BY <2>1, <2>3, ScaleIs DEF a
<1>3. t = [neg |-> x < 0, int |-> Digits(q),
           dot |-> TrimZeros(Padded(r, SCALE_EXP)) # << >>,
           frac |-> TrimZeros(Padded(r, SCALE_EXP)), rest |-> FALSE]
  BY DEF ToDecimalString
<1> HIDE DEF q, r
<1>4. Digits(q) \in Seq(0..9)
  BY <1>2, ValueOfDigits
<1>5. TrimZeros(Padded(r, SCALE_EXP)) \in Seq(0..9)
  BY <1>2, FractionOfUnits, ScaleIs
<1> DEFINE int  == Digits(q)
           frac == TrimZeros(Padded(r, SCALE_EXP))
           neg  == x < 0
           dot  == frac # << >>
<1>6. /\ t = [neg |-> neg, int |-> int, dot |-> dot, frac |-> frac, rest |-> FALSE]
      /\ neg \in BOOLEAN /\ dot \in BOOLEAN /\ (dot \/ frac = << >>)
  BY <1>3
<1> HIDE DEF int, frac, neg, dot, t
<1>7. t \in Texts
  BY <1>4, <1>5, <1>6 DEF Texts, int, frac
<1> QED BY <1>7 DEF t

\* to_decimal_string writes an amount in such a way that parse reads that
\* amount, for every integer whose absolute value is one of the type: all but
\* the least, whose text is refused.
THEOREM AmountReadsBack ==
    ASSUME NEW x \in Int
    PROVE  Parse(ToDecimalString(x)) = IF Fits(Abs(x)) THEN Accepted(x)
                                                       ELSE Refused("overflow")
<1> DEFINE t == ToDecimalString(x)
           a == Abs(x)
           q == a \div SCALE
           r == a % SCALE
<1>1. a \in Nat /\ (a = IF x < 0 THEN -x ELSE x)
  BY DEF Abs
<1> HIDE DEF a
<1>2. q \in Nat /\ r \in 0..(SCALE - 1) /\ a = q * SCALE + r
  <2>1. q \in Nat
    BY <1>1, ScaleIs, DivBound
  <2>2. r \in 0..(SCALE - 1) /\ a = SCALE * q + r
    BY <1>1, DecimalAssumption
  <2> QED BY <2>1, <2>2, DecimalAssumption
<1>3. /\ t.neg <=> x < 0
      /\ ~t.rest
      /\ t.int = Digits(q) /\ t.frac = TrimZeros(Padded(r, SCALE_EXP))
      /\ t.dot <=> t.frac # << >>
  BY DEF ToDecimalString, a
<1> HIDE DEF t, q, r
<1>4. /\ t.int \in Seq(0..9) /\ Len(t.int) >= 1 /\ Value(t.int) = q
      /\ Len(t.int) > 1 => t.int[1] # 0
  BY <1>2, <1>3, ValueOfDigits
<1>5. /\ t.frac \in Seq(0..9) /\ Len(t.frac) <= SCALE_EXP
      /\ Value(t.frac) * TenTo[SCALE_EXP - Len(t.frac)] = r
      /\ t.frac = << >> <=> r = 0
  <2>1. r \in Nat /\ r < TenTo[SCALE_EXP]
    BY <1>2, ScaleIs
  <2> QED BY <1>3, <2>1, FractionOfUnits, ScaleIs
<1>6. Magnitude(t) = a
  BY <1>2, <1>4, <1>5 DEF Magnitude
<1>7. ~(t.neg /\ t.int = << 0 >> /\ AllZero(t.frac))
  <2> SUFFICES ASSUME t.neg, t.int = << 0 >>, AllZero(t.frac) PROVE FALSE
    OBVIOUS
  <2>1. q = 0
    <3>1. \A k \in DOMAIN t.int : t.int[k] = 0
      OBVIOUS
    <3> QED BY <1>4, <3>1, TrimmedToNothing
  <2>2. r = 0
    <3>1. Value(t.frac) = 0
      BY <1>5, TrimmedToNothing DEF AllZero
    <3>2. SCALE_EXP - Len(t.frac) \in Nat
      BY <1>5, ScaleIs
    <3>3. TenTo[SCALE_EXP - Len(t.frac)] \in Nat
      BY <3>2, TenToIs
    <3> QED BY <1>5, <3>1, <3>3
  <2>3. a = 0
    BY <1>2, <2>1, <2>2, ScaleIs
  <2> QED BY <1>1, <1>3, <2>3
<1>8. t.int # << >> /\ ~(Len(t.frac) > SCALE_EXP)
  BY <1>4, <1>5, ScaleIs
<1>9. ~(t.int[1] = 0 /\ Len(t.int) > 1) /\ ~(t.dot /\ t.frac = << >>) /\ ~t.rest
  BY <1>3, <1>4
<1>10. Parse(t) = IF ~Fits(a) THEN Refused("overflow")
                  ELSE Accepted(IF t.neg THEN -a ELSE a)
  BY <1>6, <1>7, <1>8, <1>9 DEF Parse
<1>11. (IF t.neg THEN -a ELSE a) = x
  BY <1>1, <1>3
<1> QED BY <1>10, <1>11 DEF t, a

\* Of every text, of any number of digits: if parse accepts it, the amount is
\* one of the type, and to_decimal_string writes it as that text without the
\* trailing zeros of its fraction.  No digit is rounded away or made up.
THEOREM AcceptedTextIsExact ==
    ASSUME NEW t \in Texts, Parse(t).error = "none"
    PROVE  /\ Parse(t).raw \in Raw
           /\ ToDecimalString(Parse(t).raw) =
                  [t EXCEPT !.frac = TrimZeros(@), !.dot = TrimZeros(t.frac) # << >>]
<1> DEFINE m == Magnitude(t)
           q == Value(t.int)
           f == Value(t.frac) * TenTo[SCALE_EXP - Len(t.frac)]
           x == Parse(t).raw
<1>1. /\ t.neg \in BOOLEAN /\ t.int \in Seq(0..9) /\ t.dot \in BOOLEAN
      /\ t.frac \in Seq(0..9) /\ t.rest \in BOOLEAN
      /\ t = [neg |-> t.neg, int |-> t.int, dot |-> t.dot, frac |-> t.frac,
              rest |-> t.rest]
  BY DEF Texts
<1>2. /\ t.int # << >> /\ ~(t.int[1] = 0 /\ Len(t.int) > 1)
      /\ ~t.rest /\ ~(Len(t.frac) > SCALE_EXP)
      /\ ~(t.neg /\ t.int = << 0 >> /\ AllZero(t.frac))
      /\ Fits(m) /\ x = IF t.neg THEN -m ELSE m
  BY DEF Parse, Refused, Accepted
<1>3. /\ Len(t.int) >= 1 /\ (Len(t.int) > 1 => t.int[1] # 0)
      /\ Len(t.frac) <= SCALE_EXP
  <2>1. Len(t.int) \in Nat /\ Len(t.frac) \in Nat /\ Len(t.int) # 0
    BY <1>1, <1>2
  <2> QED BY <1>2, <2>1, ScaleIs
<1>4. q \in Nat /\ Digits(q) = t.int
  BY <1>1, <1>3, ValueBound, DigitsOfValue
<1>5. /\ f \in Nat /\ f < SCALE
      /\ TrimZeros(Padded(f, SCALE_EXP)) = TrimZeros(t.frac)
      /\ f = 0 <=> Value(t.frac) = 0
  BY <1>1, <1>3, UnitsOfFraction, ScaleIs
<1>6. m = q * SCALE + f
  BY DEF Magnitude
<1> HIDE DEF m, q, f, x
<1>7. m \in Nat /\ m \div SCALE = q /\ m % SCALE = f
  <2>1. q * SCALE = SCALE * q /\ q * SCALE \in Nat
    BY <1>4, ScaleIs
  <2>2. m \in Nat /\ m = SCALE * q + f /\ f \in 0..(SCALE - 1)
    BY <1>4, <1>5, <1>6, <2>1, ScaleIs
  <2>3. SCALE \in Nat \ {0}
    BY ScaleIs
  <2> HIDE DEF m, q, f
  <2>4. m \div SCALE = q /\ m % SCALE = f
    BY <1>4, <2>2, <2>3, DivUnique
  <2> QED BY <2>2, <2>4
<1>8. t.neg => m # 0
  <2> SUFFICES ASSUME t.neg, m = 0 PROVE t.int = << 0 >> /\ AllZero(t.frac)
    BY <1>2
  <2>1. q = 0 /\ f = 0
    <3>1. q * SCALE \in Nat /\ (q # 0 => q * SCALE > 0)
      BY <1>4, ScaleIs
    <3> QED BY <1>4, <1>5, <1>6, <3>1
  <2>2. \A k \in DOMAIN t.int : t.int[k] = 0
    BY <1>1, <2>1, TrimmedToNothing DEF q
  <2>3. Len(t.int) = 1
    <3>1. 1 \in DOMAIN t.int /\ Len(t.int) \in Nat
      BY <1>1, <1>3
    <3>2. t.int[1] = 0
      BY <2>2, <3>1
    <3> DEFINE len == Len(t.int)
    <3>3. len \in Nat /\ len >= 1 /\ ~(len > 1)
      BY <1>3, <3>1, <3>2
    <3> HIDE DEF len
    <3>4. len = 1
      BY <3>3
    <3> QED BY <3>4 DEF len
  <2>4. t.int = << 0 >>
    BY <1>1, <2>2, <2>3
  <2>5. AllZero(t.frac)
    BY <1>1, <1>5, <2>1, TrimmedToNothing DEF AllZero
  <2> QED BY <2>4, <2>5
<1>9. x \in Raw /\ Abs(x) = m /\ (x < 0) = t.neg
  BY <1>1, <1>2, <1>7, <1>8, DecimalAssumption DEF Raw, Fits, Abs
<1>10. ToDecimalString(x) =
           [neg |-> t.neg, int |-> t.int, dot |-> TrimZeros(t.frac) # << >>,
            frac |-> TrimZeros(t.frac), rest |-> FALSE]
  BY <1>4, <1>5, <1>7, <1>9 DEF ToDecimalString
<1>11. t.rest = FALSE
  BY <1>1, <1>2
<1>12. [t EXCEPT !.frac = TrimZeros(@), !.dot = TrimZeros(t.frac) # << >>] =
           [neg |-> t.neg, int |-> t.int, dot |-> TrimZeros(t.frac) # << >>,
            frac |-> TrimZeros(t.frac), rest |-> FALSE]
  <2> DEFINE frac == TrimZeros(t.frac)
             dot  == frac # << >>
  <2> HIDE DEF frac, dot
  <2> DEFINE neg  == t.neg
             int  == t.int
             was  == t.dot
             from == t.frac
             rest == t.rest
  <2>1. [t EXCEPT !.frac = frac, !.dot = dot] =
            [neg |-> neg, int |-> int, dot |-> dot, frac |-> frac, rest |-> rest]
    <3>1. t = [neg |-> neg, int |-> int, dot |-> was, frac |-> from, rest |-> rest]
      BY <1>1
    <3> HIDE DEF neg, int, was, from, rest
    <3>2. [t EXCEPT !.frac = frac] =
              [neg |-> neg, int |-> int, dot |-> was, frac |-> frac, rest |-> rest]
      BY <3>1
    <3>3. [[neg |-> neg, int |-> int, dot |-> was, frac |-> frac, rest |-> rest]
               EXCEPT !.dot = dot] =
              [neg |-> neg, int |-> int, dot |-> dot, frac |-> frac, rest |-> rest]
      OBVIOUS
    <3>4. [t EXCEPT !.frac = frac, !.dot = dot] = [[t EXCEPT !.frac = frac] EXCEPT !.dot = dot]
      OBVIOUS
    <3> QED BY <3>2, <3>3, <3>4, Zenon
  <2> QED BY <1>11, <2>1 DEF frac, dot
<1> QED BY <1>9, <1>10, <1>12 DEF x

-----------------------------------------------------------------------------
(***************************************************************************)
(* The days, counted on from the first of March of some year.              *)
(***************************************************************************)

\* Every number of a day, before or after 1970, is that of a date of the
\* calendar: the one that civil_from_days makes of it.
THEOREM EveryDayIsADate ==
    ASSUME NEW n \in Int
    PROVE  LET day == CivilFromDays(n)
           IN  RealDate(day) /\ DaysFromCivil(day.y, day.m, day.d) = n
<1> DEFINE number(day) == DaysFromCivil(day.y, day.m, day.d)
           z     == n + 719468
           era   == Era(z, 146097)
           k     == z - 146097 * era
           start == 146097 * era - 719468
           year  == 400 * era
           first == [y |-> year, m |-> 3, d |-> 1]
<1>1. era \in Int /\ k \in Nat /\ start \in Int /\ n = start + k
  <2>1. Era(z, 146097) = z \div 146097
    BY EraIsFloor
  <2>2. /\ z \div 146097 \in Int /\ z - 146097 * (z \div 146097) \in Nat
        /\ z \in Int
    OBVIOUS
  <2> QED BY <2>1, <2>2
<1>2. RealDate(first) /\ number(first) = start
  <2> HIDE DEF era
  <2>1. year \in Int /\ year = 400 * era + 0
    BY <1>1
  <2>2. RealDate(first)
    BY <2>1, LastDayRange DEF RealDate
  <2>3. Era(year, 400) = era
    <3> DEFINE cycle == 400
    <3>1. cycle \in Nat \ {0} /\ 0 \in Nat /\ 0 < cycle /\ year = cycle * era + 0
      BY <2>1
    <3> HIDE DEF cycle, year
    <3>2. Era(year, cycle) = era
      BY <1>1, <2>1, <3>1, EraIsUnique
    <3> QED BY <3>2 DEF cycle
  <2>4. DaysBeforeYear(year) = era * 146097
    <3>1. YearOfEra(year) = 0
      BY <1>1, <2>3 DEF YearOfEra
    <3>2. DaysOfYears(0) = 0
      BY DEF DaysOfYears
    <3> QED BY <1>1, <2>3, <3>1, <3>2 DEF DaysBeforeYear
  <2>5. MarchYear(year, 3) = year /\ MarchMonth(3) = 0
    BY DEF MarchYear, MarchMonth
  <2>6. DaysFromCivil(year, 3, 1) = DaysBeforeYear(MarchYear(year, 3))
                                        + DaysBeforeMonth(MarchMonth(3)) + 1 - 719469
    BY <2>1, DaysFromCivilIs
  <2> HIDE DEF year
  <2>7. DaysFromCivil(year, 3, 1) = start
    BY <1>1, <2>4, <2>5, <2>6, MonthTable
  <2> QED BY <2>2, <2>7
<1> HIDE DEF z, era, k, start, year, first
<1> DEFINE S == {j \in Nat : \E day : RealDate(day) /\ number(day) = start + j}
<1>3. 0 \in S
  BY <1>1, <1>2
<1>4. ASSUME NEW j \in Nat, j \in S PROVE j + 1 \in S
  <2>1. PICK day : RealDate(day) /\ number(day) = start + j
    BY <1>4
  <2> DEFINE next == NextDate(day)
  <2>2. RealDate(next) /\ number(next) = number(day) + 1
    BY <2>1, NextDateCounts
  <2>3. number(next) = start + (j + 1) /\ j + 1 \in Nat
    BY <1>1, <2>1, <2>2
  <2> QED BY <2>2, <2>3
<1>5. k \in S
  <2> HIDE DEF S
  <2>1. \A j \in Nat : j \in S
    BY <1>3, <1>4, NatSetInduction
  <2> QED BY <1>1, <2>1
<1>6. PICK day : RealDate(day) /\ number(day) = n
  BY <1>1, <1>5
<1>7. CivilFromDays(number(day)) = day
  <2>1. /\ day.y \in Int /\ day.m \in 1..12 /\ day.d \in 1..31
        /\ day.d <= LastDayOfMonth(day.y, day.m)
        /\ day = [y |-> day.y, m |-> day.m, d |-> day.d]
    BY <1>6 DEF RealDate
  <2> QED BY <2>1, CivilRoundTrip
<1> QED BY <1>6, <1>7

-----------------------------------------------------------------------------
(***************************************************************************)
(* Instants and their texts.  Of a time of day: H hours in a day of D      *)
(* seconds, M minutes in an hour of P seconds, S seconds in a minute.      *)
(***************************************************************************)

LEMMA Remainder ==
    ASSUME NEW x \in Int, NEW b \in Nat \ {0}
    PROVE  /\ x \div b \in Int /\ x % b \in 0..(b - 1)
           /\ x = b * (x \div b) + (x % b)
OBVIOUS

\* The second x of a day of D is in the hour h, the minute m, the second s.
TimeIs(D, P, S, x, h, m, s) ==
    x \in 0..(D - 1) /\ x \div P = h /\ (x % P) \div S = m /\ x % S = s

LEMMA TimeOfDay ==
    ASSUME NEW H \in Nat \ {0}, NEW M \in Nat \ {0}, NEW S \in Nat \ {0},
           NEW P \in Nat \ {0}, P = M * S, NEW D \in Nat \ {0}, D = H * P,
           NEW h \in 0..(H - 1), NEW m \in 0..(M - 1), NEW s \in 0..(S - 1),
           NEW x \in Int, x = h * P + m * S + s
    PROVE  TimeIs(D, P, S, x, h, m, s)
<1> DEFINE r == m * S + s
           u == h * M + m
<1>1. r \in 0..(P - 1) /\ r = S * m + s
  <2>1. S * m <= S * (M - 1)
    BY MulMonotone
  <2>2. S * (M - 1) = P - S /\ S * m \in Nat /\ m * S = S * m
    OBVIOUS
  <2> QED BY <2>1, <2>2
<1>2. h * P = P * h /\ P * h \in Nat /\ P * h <= P * (H - 1) /\ P * (H - 1) = D - P
  <2>1. P * h <= P * (H - 1)
    BY MulMonotone
  <2> QED BY <2>1
<1>3. x = P * h + r
  BY <1>2
<1>4. x = S * u + s /\ u \in Int
  <2>1. h * (M * S) = S * (h * M) /\ h * M \in Int
    OBVIOUS
  <2>2. S * u = S * (h * M) + S * m
    BY <2>1
  <2> QED BY <2>1, <2>2
<1> HIDE DEF r, u
<1>5. x \in 0..(D - 1)
  BY <1>1, <1>2, <1>3
<1>6. x \div P = h /\ x % P = r
  BY <1>1, <1>3, DivUnique
<1>7. r \div S = m
  BY <1>1, DivUnique
<1>8. x % S = s
  <2> DEFINE y == x
  <2>1. y \in Int /\ y = S * u + s
    BY <1>4
  <2> HIDE DEF y
  <2>2. y % S = s
    BY <1>4, <2>1, DivUnique
  <2> QED BY <2>2 DEF y
<1> QED BY <1>5, <1>6, <1>7, <1>8 DEF TimeIs

\* Its hour, minute and second are those of the clock, and add up to it.
IsTime(H, M, S, P, x) ==
    /\ x \div P \in 0..(H - 1) /\ (x % P) \div S \in 0..(M - 1)
    /\ x % S \in 0..(S - 1)
    /\ x = (x \div P) * P + ((x % P) \div S) * S + (x % S)

LEMMA TimeParts ==
    ASSUME NEW H \in Nat \ {0}, NEW M \in Nat \ {0}, NEW S \in Nat \ {0},
           NEW P \in Nat \ {0}, P = M * S, NEW D \in Nat \ {0}, D = H * P,
           NEW x \in 0..(D - 1)
    PROVE  IsTime(H, M, S, P, x)
<1> DEFINE h == x \div P
           r == x % P
           m == r \div S
           s == r % S
<1>1. x \in Nat /\ x < D
  OBVIOUS
<1>2. h \in Nat /\ r \in 0..(P - 1) /\ x = P * h + r
  <2>1. h \in Nat
    BY <1>1, DivBound
  <2>2. x % P \in 0..(P - 1) /\ x = P * (x \div P) + (x % P)
    <3>1. x \in Int
      BY <1>1
    <3> QED BY <3>1, Remainder, Zenon
  <2> QED BY <2>1, <2>2
<1>3. h < H
  <2> HIDE DEF h, r
  <2> SUFFICES ASSUME H <= h PROVE FALSE
    BY <1>2
  <2>1. P * H <= P * h
    BY <1>2, MulMonotone
  <2>2. P * H = D /\ P * h \in Nat
    BY <1>2
  <2> QED BY <1>1, <1>2, <2>1, <2>2
<1>4. m \in Nat /\ s \in 0..(S - 1) /\ r = S * m + s
  <2> HIDE DEF r
  <2>1. m \in Nat
    BY <1>2, DivBound
  <2>2. r % S \in 0..(S - 1) /\ r = S * (r \div S) + (r % S)
    <3>1. r \in Int
      BY <1>2
    <3> QED BY <3>1, Remainder, Zenon
  <2> QED BY <2>1, <2>2
<1>5. m < M
  <2> HIDE DEF h, r, m, s
  <2> SUFFICES ASSUME M <= m PROVE FALSE
    BY <1>4
  <2>1. S * M <= S * m
    BY <1>4, MulMonotone
  <2>2. S * M = P /\ S * m \in Nat
    BY <1>4
  <2> QED BY <1>2, <1>4, <2>1, <2>2
<1>6. x = h * P + m * S + s
  <2> HIDE DEF h, r, m, s
  <2>1. h * P = P * h /\ m * S = S * m /\ P * h \in Int /\ S * m \in Int
    BY <1>2, <1>4
  <2> QED BY <1>1, <1>2, <1>4, <2>1
<1>7. h \in 0..(H - 1) /\ m \in 0..(M - 1)
  BY <1>2, <1>3, <1>4, <1>5
<1>8. x % S = s
  <2> HIDE DEF h, r, m, s
  <2>1. x \in Int
    BY <1>1
  <2> DEFINE u == M * h + m
  <2>2. P * h = S * (M * h) /\ M * h \in Int /\ m \in Int
    BY <1>2, <1>4
  <2>3. u \in Int /\ S * u = P * h + S * m
    BY <2>2
  <2>4. x = S * u + s
    BY <1>2, <1>4, <2>3
  <2> HIDE DEF u
  <2>5. s \in 0..(S - 1)
    BY <1>4
  <2> QED BY <2>1, <2>3, <2>4, <2>5, DivUnique
<1> HIDE DEF s
<1> QED BY <1>4, <1>6, <1>7, <1>8 DEF IsTime

\* The values of a UtcTimestamp; and the texts the parser tells apart: six
\* numbers, of which the year has four digits, and no digits behind a point
\* that is not there.
Timestamps == [secs : Int, nanos : 0..(NanosPerSecond - 1)]

TimestampTexts ==
    {t \in [flaw : Flaws, year : Int, month : Nat, day : Nat, hour : Nat,
            minute : Nat, second : Nat, dot : BOOLEAN, frac : Seq(0..9),
            zone : Zones, rest : BOOLEAN] :
        /\ t.dot \/ t.frac = << >>
        /\ t.flaw = "none" => t.year \in 0..MaxYear}

LEMMA UnitsAre ==
    /\ HoursPerDay \in Nat \ {0} /\ MinutesPerHour \in Nat \ {0}
    /\ SecondsPerMinute \in Nat \ {0}
    /\ SecondsPerHour \in Nat \ {0} /\ SecondsPerHour = MinutesPerHour * SecondsPerMinute
    /\ SecondsPerDay \in Nat \ {0} /\ SecondsPerDay = HoursPerDay * SecondsPerHour
    /\ NanosPerSecond = TenTo[FracDigits] /\ NanosPerSecond \in Nat \ {0}
    /\ FracDigits \in Nat \ {0}
BY UnitsAssumption, DayLength DEF SecondsPerHour, SecondsPerDay

LEMMA DayAndTime ==
    ASSUME NEW t \in Timestamps
    PROVE  /\ DayOf(t) \in Int
           /\ t.secs - DayOf(t) * SecondsPerDay \in 0..(SecondsPerDay - 1)
<1> DEFINE x == t.secs
           d == SecondsPerDay
           n == x \div d
           r == x % d
<1>1. x \in Int /\ d \in Nat \ {0}
  BY DayLength DEF Timestamps
<1> HIDE DEF x, d
<1>2. n \in Int /\ r \in 0..(d - 1) /\ x = d * n + r
  BY <1>1
<1> HIDE DEF n, r
<1>3. d * n = n * d /\ n * d \in Int
  BY <1>1, <1>2
<1>4. x - n * d \in 0..(d - 1)
  BY <1>1, <1>2, <1>3
<1> QED BY <1>2, <1>4 DEF DayOf, x, d, n

\* What to_rfc3339 writes of an instant.
LEMMA TextOfInstant ==
    ASSUME NEW t \in Timestamps
    PROVE  LET n    == DayOf(t)
               day  == CivilFromDays(n)
               text == ToRfc3339(t)
           IN  /\ n \in Int /\ RealDate(day)
               /\ DaysFromCivil(day.y, day.m, day.d) = n
               /\ text.year = day.y /\ text.month = day.m /\ text.day = day.d
               /\ text.hour \in 0..(HoursPerDay - 1)
               /\ text.minute \in 0..(MinutesPerHour - 1)
               /\ text.second \in 0..(SecondsPerMinute - 1)
               /\ t.secs = n * SecondsPerDay + text.hour * SecondsPerHour
                               + text.minute * SecondsPerMinute + text.second
               /\ text.frac \in Seq(0..9) /\ Len(text.frac) <= FracDigits
               /\ t.nanos = Value(text.frac) * TenTo[FracDigits - Len(text.frac)]
               /\ text.dot <=> text.frac # << >>
<1> DEFINE n    == DayOf(t)
           d    == SecondsPerDay
           time == t.secs - n * d
           text == ToRfc3339(t)
           day  == CivilFromDays(n)
<1>1. n \in Int /\ time \in 0..(d - 1)
  BY DayAndTime
<1>2. RealDate(day) /\ DaysFromCivil(day.y, day.m, day.d) = n
  BY <1>1, EveryDayIsADate
<1>3. /\ text.year = day.y /\ text.month = day.m /\ text.day = day.d
      /\ text.hour = time \div SecondsPerHour
      /\ text.minute = (time % SecondsPerHour) \div SecondsPerMinute
      /\ text.second = time % SecondsPerMinute
      /\ text.frac = TrimZeros(Padded(t.nanos, FracDigits))
      /\ text.dot <=> t.nanos # 0
  BY DEF ToRfc3339
<1>4. t.secs \in Int /\ d \in Nat \ {0} /\ t.secs = n * d + time
  <2>1. t.secs \in Int /\ d \in Nat \ {0}
    BY DayLength DEF Timestamps
  <2> HIDE DEF n, d
  <2>2. n * d \in Int
    BY <1>1, <2>1
  <2> QED BY <2>1, <2>2
<1> HIDE DEF n, time, text, day
<1>5. /\ text.hour \in 0..(HoursPerDay - 1)
      /\ text.minute \in 0..(MinutesPerHour - 1)
      /\ text.second \in 0..(SecondsPerMinute - 1)
      /\ time = text.hour * SecondsPerHour + text.minute * SecondsPerMinute
                    + text.second
  <2> DEFINE H == HoursPerDay
             M == MinutesPerHour
             S == SecondsPerMinute
             P == SecondsPerHour
  <2>1. /\ H \in Nat \ {0} /\ M \in Nat \ {0} /\ S \in Nat \ {0}
        /\ P \in Nat \ {0} /\ P = M * S /\ d \in Nat \ {0} /\ d = H * P
    BY UnitsAre
  <2>2. /\ text.hour = time \div P /\ text.minute = (time % P) \div S
        /\ text.second = time % S
    BY <1>3
  <2> HIDE DEF H, M, S, P, d
  <2>3. IsTime(H, M, S, P, time)
    BY <1>1, <2>1, TimeParts
  <2> QED BY <2>2, <2>3 DEF H, M, S, P, IsTime
<1>6. t.secs = n * d + text.hour * SecondsPerHour
                   + text.minute * SecondsPerMinute + text.second
  <2> DEFINE a == n * d
             b == text.hour * SecondsPerHour
             c == text.minute * SecondsPerMinute
  <2>1. a \in Int /\ b \in Int /\ c \in Int /\ text.second \in Int
    <3>1. SecondsPerHour \in Int /\ SecondsPerMinute \in Int
      BY UnitsAre
    <3> QED BY <1>1, <1>4, <1>5, <3>1
  <2>2. time = b + c + text.second /\ t.secs = a + time
    BY <1>4, <1>5
  <2> HIDE DEF a, b, c
  <2>3. t.secs = a + b + c + text.second
    BY <2>1, <2>2
  <2> QED BY <2>3 DEF a, b, c
<1>7. /\ text.frac \in Seq(0..9) /\ Len(text.frac) <= FracDigits
      /\ t.nanos = Value(text.frac) * TenTo[FracDigits - Len(text.frac)]
      /\ text.frac = << >> <=> t.nanos = 0
  <2>1. t.nanos \in Nat /\ t.nanos < TenTo[FracDigits] /\ FracDigits \in Nat
    BY UnitsAre DEF Timestamps
  <2> DEFINE digits == TrimZeros(Padded(t.nanos, FracDigits))
  <2>2. text.frac = digits
    BY <1>3
  <2>3. /\ digits \in Seq(0..9) /\ Len(digits) <= FracDigits
        /\ Value(digits) * TenTo[FracDigits - Len(digits)] = t.nanos
        /\ digits = << >> <=> t.nanos = 0
    BY <2>1, FractionOfUnits, ZenonT(60)
  <2> HIDE DEF digits
  <2> QED BY <2>2, <2>3, Zenon
<1> QED BY <1>1, <1>2, <1>3, <1>5, <1>6, <1>7 DEF n, d, text, day

LEMMA TextsOfInstants ==
    ASSUME NEW t \in Timestamps, CivilFromDays(DayOf(t)).y \in 0..MaxYear
    PROVE  ToRfc3339(t) \in TimestampTexts /\ ToRfc3339(t).year \in 0..MaxYear
<1> DEFINE text == ToRfc3339(t)
           day == CivilFromDays(DayOf(t))
<1>1. /\ RealDate(day) /\ text.year = day.y /\ text.month = day.m
      /\ text.day = day.d
      /\ text.hour \in 0..(HoursPerDay - 1)
      /\ text.minute \in 0..(MinutesPerHour - 1)
      /\ text.second \in 0..(SecondsPerMinute - 1)
      /\ text.frac \in Seq(0..9) /\ (text.dot <=> text.frac # << >>)
  BY TextOfInstant
<1>2. /\ text.flaw \in Flaws /\ text.zone \in Zones
      /\ text.dot \in BOOLEAN /\ text.rest \in BOOLEAN
      /\ text = [flaw |-> text.flaw, year |-> text.year, month |-> text.month,
                 day |-> text.day, hour |-> text.hour, minute |-> text.minute,
                 second |-> text.second, dot |-> text.dot, frac |-> text.frac,
                 zone |-> text.zone, rest |-> text.rest]
  BY DEF ToRfc3339, Flaws, Zones
<1> HIDE DEF text
<1>3. /\ text.year \in 0..MaxYear /\ text.year \in Int
      /\ text.month \in Nat /\ text.day \in Nat
  <2>1. MaxYear \in Nat /\ day.y \in 0..MaxYear
    BY UnitsAssumption
  <2> HIDE DEF day
  <2>2. day.m \in 1..12 /\ day.d \in 1..31
    BY <1>1 DEF RealDate
  <2>3. text.year = day.y /\ text.month = day.m /\ text.day = day.d
    BY <1>1
  <2>4. day.y \in Int /\ day.m \in Nat /\ day.d \in Nat
    BY <2>1, <2>2
  <2> QED BY <2>1, <2>3, <2>4, Zenon
<1>4. text.hour \in Nat /\ text.minute \in Nat /\ text.second \in Nat
  BY <1>1, UnitsAre
<1>5. text \in TimestampTexts
  BY <1>1, <1>2, <1>3, <1>4 DEF TimestampTexts
<1> QED BY <1>3, <1>5 DEF text

\* to_rfc3339 writes an instant in such a way that parse_rfc3339 reads that
\* instant, to the nanosecond, whenever its year has four digits: instants
\* before 1970 and the last one before a midnight included.  The text of any
\* other year is refused, never read as another instant.
THEOREM EveryInstantReadsBack ==
    ASSUME NEW t \in Timestamps
    PROVE  IF CivilFromDays(DayOf(t)).y \in 0..MaxYear
           THEN ParseRfc3339(ToRfc3339(t)) = [error |-> "none", at |-> t]
           ELSE ParseRfc3339(ToRfc3339(t)).error # "none"
<1> DEFINE n    == DayOf(t)
           day  == CivilFromDays(n)
           text == ToRfc3339(t)
<1>1. /\ n \in Int /\ RealDate(day) /\ DaysFromCivil(day.y, day.m, day.d) = n
      /\ text.year = day.y /\ text.month = day.m /\ text.day = day.d
      /\ text.hour \in 0..(HoursPerDay - 1)
      /\ text.minute \in 0..(MinutesPerHour - 1)
      /\ text.second \in 0..(SecondsPerMinute - 1)
      /\ t.secs = n * SecondsPerDay + text.hour * SecondsPerHour
                      + text.minute * SecondsPerMinute + text.second
      /\ text.frac \in Seq(0..9) /\ Len(text.frac) <= FracDigits
      /\ t.nanos = Value(text.frac) * TenTo[FracDigits - Len(text.frac)]
      /\ text.dot <=> text.frac # << >>
  BY TextOfInstant
<1>2. /\ text.flaw = IF day.y < 0 THEN "invalid-digit"
                     ELSE IF day.y > MaxYear THEN "invalid-date-separator"
                     ELSE "none"
      /\ text.zone = "Z" /\ ~text.rest
  BY DEF ToRfc3339
<1> HIDE DEF n, day, text
<1>3. /\ day.y \in Int /\ text.month \in 1..12
      /\ text.day \in 1..LastDayOfMonth(text.year, text.month)
  <2>1. /\ day.y \in Int /\ day.m \in 1..12 /\ day.d \in 1..31
        /\ day.d <= LastDayOfMonth(day.y, day.m)
    BY <1>1 DEF RealDate
  <2>2. LastDayOfMonth(day.y, day.m) \in 28..31
    BY LastDayRange
  <2>3. day.d \in 1..LastDayOfMonth(day.y, day.m)
    BY <2>1, <2>2
  <2> QED BY <1>1, <2>1, <2>3
<1>4. CASE day.y \in 0..MaxYear
  <2>1. text.flaw = "none"
    BY <1>2, <1>4, UnitsAssumption
  <2>2. ~(text.hour >= HoursPerDay) /\ ~(text.minute >= MinutesPerHour)
        /\ ~(text.second >= SecondsPerMinute)
    <3>1. HoursPerDay \in Int /\ MinutesPerHour \in Int /\ SecondsPerMinute \in Int
      BY UnitsAre
    <3> QED BY <1>1, <3>1
  <2>3. ~(text.dot /\ Len(text.frac) \notin 1..FracDigits)
    BY <1>1, UnitsAre
  <2>4. ParseRfc3339(text) = [error |-> "none", at |-> InstantOf(text)]
    BY <1>2, <1>3, <2>1, <2>2, <2>3 DEF ParseRfc3339
  <2>5. InstantOf(text) = [secs |-> t.secs, nanos |-> t.nanos]
    <3>1. DaysFromCivil(text.year, text.month, text.day) = n
      BY <1>1
    <3> QED BY <1>1, <3>1, Zenon DEF InstantOf
  <2>6. t = [secs |-> t.secs, nanos |-> t.nanos]
    BY DEF Timestamps
  <2> QED BY <1>4, <2>4, <2>5, <2>6 DEF text, day, n
<1>5. CASE day.y \notin 0..MaxYear
  <2>1. text.flaw # "none" /\ text.zone # "absent"
    BY <1>2, <1>3, <1>5, UnitsAssumption
  <2>2. ParseRfc3339(text) = Rejected(text.flaw)
    BY <2>1 DEF ParseRfc3339
  <2> QED BY <1>5, <2>1, <2>2 DEF text, day, n, Rejected
<1> QED BY <1>4, <1>5

\* What parse_rfc3339 makes of a text it accepts.
LEMMA InstantOfText ==
    ASSUME NEW t \in TimestampTexts, ParseRfc3339(t).error = "none"
    PROVE  /\ ParseRfc3339(t).at = InstantOf(t)
           /\ t.flaw = "none" /\ t.year \in 0..MaxYear
           /\ RealDate([y |-> t.year, m |-> t.month, d |-> t.day])
           /\ t.hour \in 0..(HoursPerDay - 1)
           /\ t.minute \in 0..(MinutesPerHour - 1)
           /\ t.second \in 0..(SecondsPerMinute - 1)
           /\ t.frac \in Seq(0..9) /\ Len(t.frac) <= FracDigits
           /\ t.zone \in {"Z", "zero-offset"} /\ ~t.rest
<1>1. /\ t.flaw \in Flaws /\ t.year \in Int /\ t.month \in Nat /\ t.day \in Nat
      /\ t.hour \in Nat /\ t.minute \in Nat /\ t.second \in Nat
      /\ t.frac \in Seq(0..9) /\ t.zone \in Zones
      /\ t.dot \/ t.frac = << >>
      /\ t.flaw = "none" => t.year \in 0..MaxYear
  BY DEF TimestampTexts
<1>2. /\ t.flaw = "none" /\ t.month \in 1..12
      /\ t.day \in 1..LastDayOfMonth(t.year, t.month)
      /\ ~(t.hour >= HoursPerDay) /\ ~(t.minute >= MinutesPerHour)
      /\ ~(t.second >= SecondsPerMinute)
      /\ ~(t.dot /\ Len(t.frac) \notin 1..FracDigits)
      /\ t.zone \notin {"absent", "word", "lettered-offset", "other-offset",
                        "broken-offset"}
      /\ ~t.rest /\ ParseRfc3339(t).at = InstantOf(t)
  BY DEF ParseRfc3339, Rejected
<1>3. /\ t.hour \in 0..(HoursPerDay - 1) /\ t.minute \in 0..(MinutesPerHour - 1)
      /\ t.second \in 0..(SecondsPerMinute - 1)
  <2>1. HoursPerDay \in Int /\ MinutesPerHour \in Int /\ SecondsPerMinute \in Int
    BY UnitsAre
  <2> QED BY <1>1, <1>2, <2>1, SMTT(30)
<1>4. Len(t.frac) <= FracDigits
  <2>1. CASE t.dot
    BY <1>2, <2>1
  <2>2. CASE ~t.dot
    <3>1. Len(t.frac) = 0
      BY <1>1, <2>2
    <3> QED BY <3>1, UnitsAre
  <2> QED BY <2>1, <2>2
<1>5. t.zone \in {"Z", "zero-offset"}
  BY <1>1, <1>2 DEF Zones
<1>6. RealDate([y |-> t.year, m |-> t.month, d |-> t.day])
  <2> DEFINE last == LastDayOfMonth(t.year, t.month)
  <2>1. last \in 28..31
    BY LastDayRange
  <2>2. t.day \in 1..last
    BY <1>2
  <2> HIDE DEF last
  <2>3. t.day \in 1..31 /\ t.day <= last
    BY <2>1, <2>2
  <2> USE DEF last
  <2> QED BY <1>1, <1>2, <2>3 DEF RealDate
<1> QED BY <1>1, <1>2, <1>3, <1>4, <1>5, <1>6

LEMMA InstantIs ==
    ASSUME NEW t \in TimestampTexts, ParseRfc3339(t).error = "none"
    PROVE  LET at   == InstantOf(t)
               time == at.secs - DayOf(at) * SecondsPerDay
           IN  /\ at \in Timestamps
               /\ DayOf(at) = DaysFromCivil(t.year, t.month, t.day)
               /\ time \div SecondsPerHour = t.hour
               /\ (time % SecondsPerHour) \div SecondsPerMinute = t.minute
               /\ time % SecondsPerMinute = t.second
               /\ TrimZeros(Padded(at.nanos, FracDigits)) = TrimZeros(t.frac)
               /\ at.nanos = 0 <=> TrimZeros(t.frac) = << >>
<1> DEFINE at == InstantOf(t)
           n  == DaysFromCivil(t.year, t.month, t.day)
           d  == SecondsPerDay
           P  == SecondsPerHour
           x  == t.hour * P + t.minute * SecondsPerMinute + t.second
<1>1. /\ RealDate([y |-> t.year, m |-> t.month, d |-> t.day])
      /\ t.hour \in 0..(HoursPerDay - 1)
      /\ t.minute \in 0..(MinutesPerHour - 1)
      /\ t.second \in 0..(SecondsPerMinute - 1)
      /\ t.frac \in Seq(0..9) /\ Len(t.frac) <= FracDigits
  BY InstantOfText
<1>2. n \in Int
  <2> DEFINE day == [y |-> t.year, m |-> t.month, d |-> t.day]
  <2>1. day.y = t.year /\ day.m = t.month /\ day.d = t.day
    OBVIOUS
  <2> HIDE DEF day
  <2>2. DaysFromCivil(day.y, day.m, day.d) \in Int
    BY <1>1, NumberIsInt DEF day
  <2> QED BY <2>1, <2>2
<1>3. d \in Nat \ {0}
  BY UnitsAre
<1>4. /\ x \in 0..(d - 1) /\ x \div P = t.hour
      /\ (x % P) \div SecondsPerMinute = t.minute /\ x % SecondsPerMinute = t.second
  <2>1. t.hour * P \in Int /\ t.minute * SecondsPerMinute \in Int /\ t.second \in Int
    <3>1. P \in Int /\ SecondsPerMinute \in Int
      BY UnitsAre
    <3> QED BY <1>1, <3>1
  <2>2. x \in Int
    <3> HIDE DEF P
    <3> QED BY <2>1
  <2> DEFINE y == x
  <2>3. y \in Int /\ y = t.hour * P + t.minute * SecondsPerMinute + t.second
    BY <2>2
  <2> HIDE DEF x, y, P
  <2>4. /\ y \in 0..(d - 1) /\ y \div P = t.hour
        /\ (y % P) \div SecondsPerMinute = t.minute /\ y % SecondsPerMinute = t.second
    <3> DEFINE H == HoursPerDay
               M == MinutesPerHour
               S == SecondsPerMinute
               h == t.hour
               m == t.minute
               s == t.second
    <3>1. /\ H \in Nat \ {0} /\ M \in Nat \ {0} /\ S \in Nat \ {0}
          /\ P \in Nat \ {0} /\ P = M * S /\ d \in Nat \ {0} /\ d = H * P
      BY UnitsAre DEF P
    <3>2. /\ h \in 0..(H - 1) /\ m \in 0..(M - 1) /\ s \in 0..(S - 1)
          /\ y \in Int /\ y = h * P + m * S + s
      BY <1>1, <2>3
    <3> HIDE DEF H, M, S, h, m, s, d
    <3>3. TimeIs(d, P, S, y, h, m, s)
      BY <3>1, <3>2, TimeOfDay
    <3> QED BY <3>3 DEF H, M, S, h, m, s, TimeIs
  <2> QED BY <2>4 DEF y
<1>5. at.secs = n * d + t.hour * P + t.minute * SecondsPerMinute + t.second
  BY DEF InstantOf
<1>6. at.secs = n * d + x /\ n * d \in Int
  <2>1. n * d \in Int
    BY <1>2, <1>3
  <2> DEFINE a == n * d
             b == t.hour * P
             c == t.minute * SecondsPerMinute
  <2>2. a \in Int /\ b \in Int /\ c \in Int /\ t.second \in Int
    <3>1. P \in Int /\ SecondsPerMinute \in Int
      BY UnitsAre
    <3> QED BY <1>1, <2>1, <3>1
  <2>3. at.secs = a + b + c + t.second /\ x = b + c + t.second
    BY <1>5
  <2> HIDE DEF a, b, c, x, at
  <2>4. at.secs = a + x
    BY <2>2, <2>3
  <2> QED BY <2>1, <2>4 DEF a
<1> HIDE DEF x, n, d
<1>7. at.secs \in Int /\ DayOf(at) = n /\ at.secs - DayOf(at) * d = x
  <2> DEFINE s == at.secs
  <2>1. s \in Int /\ s = d * n + x /\ s - n * d = x
    BY <1>2, <1>3, <1>4, <1>6
  <2> HIDE DEF s
  <2>2. s \div d = n
    BY <1>2, <1>3, <1>4, <2>1, DivUnique
  <2>3. DayOf(at) = n
    BY <2>2 DEF DayOf, s, d
  <2> QED BY <2>1, <2>3 DEF s
<1>8. /\ at.nanos \in Nat /\ at.nanos < TenTo[FracDigits]
      /\ TrimZeros(Padded(at.nanos, FracDigits)) = TrimZeros(t.frac)
      /\ at.nanos = 0 <=> Value(t.frac) = 0
  <2>1. at.nanos = Value(t.frac) * TenTo[FracDigits - Len(t.frac)]
    BY DEF InstantOf
  <2> QED BY <1>1, <2>1, UnitsOfFraction, UnitsAre
<1>9. at \in Timestamps
  <2>1. at = [secs |-> at.secs, nanos |-> at.nanos]
    BY DEF InstantOf
  <2>2. at.nanos \in 0..(NanosPerSecond - 1)
    BY <1>8, UnitsAre
  <2> HIDE DEF at
  <2> QED BY <1>7, <2>1, <2>2 DEF Timestamps
<1>10. at.nanos = 0 <=> TrimZeros(t.frac) = << >>
  BY <1>1, <1>8, TrimmedToNothing
<1> QED BY <1>4, <1>7, <1>8, <1>9, <1>10 DEF n, d

\* Of every text: if parse_rfc3339 accepts it, its designator is that of UTC,
\* and to_rfc3339 writes the instant as that text, with a Z and without the
\* trailing zeros of its fraction.  No date, hour or offset that the calendar
\* and the clock do not have is carried over into another one.
THEOREM AcceptedInstantIsExact ==
    ASSUME NEW t \in TimestampTexts, ParseRfc3339(t).error = "none"
    PROVE  /\ ParseRfc3339(t).at \in Timestamps
           /\ t.zone \in {"Z", "zero-offset"}
           /\ ToRfc3339(ParseRfc3339(t).at) =
                  [t EXCEPT !.zone = "Z", !.frac = TrimZeros(@),
                            !.dot = TrimZeros(t.frac) # << >>]
<1> DEFINE at   == InstantOf(t)
           n    == DayOf(at)
           time == at.secs - n * SecondsPerDay
           frac == TrimZeros(t.frac)
           dot  == frac # << >>
<1>1. /\ at \in Timestamps /\ n = DaysFromCivil(t.year, t.month, t.day)
      /\ time \div SecondsPerHour = t.hour
      /\ (time % SecondsPerHour) \div SecondsPerMinute = t.minute
      /\ time % SecondsPerMinute = t.second
      /\ TrimZeros(Padded(at.nanos, FracDigits)) = frac
      /\ at.nanos = 0 <=> frac = << >>
  BY InstantIs
<1>2. /\ ParseRfc3339(t).at = at /\ t.flaw = "none" /\ t.year \in 0..MaxYear
      /\ RealDate([y |-> t.year, m |-> t.month, d |-> t.day])
      /\ t.zone \in {"Z", "zero-offset"} /\ ~t.rest
  BY InstantOfText
<1> HIDE DEF at
<1>3. CivilFromDays(n) = [y |-> t.year, m |-> t.month, d |-> t.day]
  <2>1. /\ t.year \in Int /\ t.month \in 1..12 /\ t.day \in 1..31
        /\ t.day <= LastDayOfMonth(t.year, t.month)
    BY <1>2 DEF RealDate
  <2> QED BY <1>1, <2>1, CivilRoundTrip
<1>4. ToRfc3339(at) =
          [flaw   |-> "none", year |-> t.year, month |-> t.month, day |-> t.day,
           hour   |-> t.hour, minute |-> t.minute, second |-> t.second,
           dot    |-> dot, frac |-> frac, zone |-> "Z", rest |-> FALSE]
  <2> DEFINE civil == CivilFromDays(n)
  <2>1. ToRfc3339(at) =
            [flaw   |-> IF civil.y < 0 THEN "invalid-digit"
                        ELSE IF civil.y > MaxYear THEN "invalid-date-separator"
                        ELSE "none",
             year   |-> civil.y, month |-> civil.m, day |-> civil.d,
             hour   |-> time \div SecondsPerHour,
             minute |-> (time % SecondsPerHour) \div SecondsPerMinute,
             second |-> time % SecondsPerMinute,
             dot    |-> at.nanos # 0,
             frac   |-> TrimZeros(Padded(at.nanos, FracDigits)),
             zone   |-> "Z", rest |-> FALSE]
    BY DEF ToRfc3339
  <2>2. civil.y = t.year /\ civil.m = t.month /\ civil.d = t.day
    BY <1>3
  <2>3. (IF civil.y < 0 THEN "invalid-digit"
         ELSE IF civil.y > MaxYear THEN "invalid-date-separator" ELSE "none") = "none"
    BY <1>2, <2>2, UnitsAssumption
  <2>4. (at.nanos # 0) = dot
    BY <1>1
  <2> HIDE DEF n, time, frac, dot, civil
  <2> QED BY <1>1, <2>1, <2>2, <2>3, <2>4, Zenon
<1>5. [t EXCEPT !.zone = "Z", !.frac = TrimZeros(@), !.dot = TrimZeros(t.frac) # << >>] =
          [flaw   |-> "none", year |-> t.year, month |-> t.month, day |-> t.day,
           hour   |-> t.hour, minute |-> t.minute, second |-> t.second,
           dot    |-> dot, frac |-> frac, zone |-> "Z", rest |-> FALSE]
  <2> DEFINE flaw == t.flaw
             year == t.year
             month == t.month
             day == t.day
             hour == t.hour
             minute == t.minute
             second == t.second
             was == t.dot
             from == t.frac
             zone == t.zone
             rest == t.rest
             text(d, f, z) ==
                 [flaw |-> flaw, year |-> year, month |-> month, day |-> day,
                  hour |-> hour, minute |-> minute, second |-> second,
                  dot |-> d, frac |-> f, zone |-> z, rest |-> rest]
  <2>1. t = text(was, from, zone)
    BY DEF TimestampTexts
  <2> HIDE DEF flaw, year, month, day, hour, minute, second, was, from, zone, rest, frac, dot
  <2>2. [t EXCEPT !.zone = "Z"] = text(was, from, "Z")
    BY <2>1
  <2>3. [text(was, from, "Z") EXCEPT !.frac = frac] = text(was, frac, "Z")
    OBVIOUS
  <2>4. [text(was, frac, "Z") EXCEPT !.dot = dot] = text(dot, frac, "Z")
    OBVIOUS
  <2>5. [t EXCEPT !.zone = "Z", !.frac = frac, !.dot = dot] =
            [[[t EXCEPT !.zone = "Z"] EXCEPT !.frac = frac] EXCEPT !.dot = dot]
    OBVIOUS
  <2>6. [t EXCEPT !.zone = "Z", !.frac = frac, !.dot = dot] = text(dot, frac, "Z")
    BY <2>2, <2>3, <2>4, <2>5, Zenon
  <2>7. flaw = "none" /\ rest = FALSE
    BY <1>2 DEF flaw, rest
  <2> QED BY <2>6, <2>7 DEF year, month, day, hour, minute, second, frac, dot
<1> QED BY <1>1, <1>2, <1>4, <1>5

=============================================================================
