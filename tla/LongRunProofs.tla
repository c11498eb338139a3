--------------------------- MODULE LongRunProofs ---------------------------
(***************************************************************************)
(* What holds of a process that is kept up for any number of days and      *)
(* fills: its calendar and its account agree with the true ones.           *)
(***************************************************************************)
EXTENDS TextProofs

-----------------------------------------------------------------------------
(***************************************************************************)
(* The clock.                                                              *)
(***************************************************************************)

\* The clock stands at the midnight its date begins with.
ClockInv ==
    /\ RealDate(date)
    /\ clock = [secs |-> DaysFromCivil(date.y, date.m, date.d) * SecondsPerDay,
                nanos |-> 0]

LEMMA ClockInvariant == Spec => []ClockInv
<1> DEFINE number(day) == DaysFromCivil(day.y, day.m, day.d)
<1>1. Init => ClockInv
  <2> SUFFICES ASSUME Init PROVE ClockInv
    OBVIOUS
  <2>1. RealDate(date) /\ number(date) = span.first /\ span.first \in Int
    BY LongRunAssumption, NumberOfDate DEF Init
  <2>2. span.first * SecondsPerDay \in Int
    BY <2>1, DayLength
  <2>3. 0 \div NanosPerSecond = 0 /\ 0 % NanosPerSecond = 0
    <3>1. NanosPerSecond \in Nat \ {0}
      BY UnitsAssumption
    <3>2. 0 = NanosPerSecond * 0 + 0 /\ 0 \in 0..(NanosPerSecond - 1)
      BY <3>1
    <3> QED BY <3>1, <3>2, DivUnique
  <2>4. clock = [secs |-> span.first * SecondsPerDay, nanos |-> 0]
    <3> DEFINE secs == span.first * SecondsPerDay
    <3>1. clock = [secs |-> secs + 0 \div NanosPerSecond, nanos |-> 0 % NanosPerSecond]
      BY DEF Init, FromUnix
    <3> HIDE DEF secs
    <3>2. secs + 0 = secs
      BY <2>2 DEF secs
    <3>3. clock = [secs |-> secs, nanos |-> 0]
      BY <2>3, <3>1, <3>2
    <3> QED BY <3>3 DEF secs
  <2> QED BY <2>1, <2>4 DEF ClockInv
<1>2. ClockInv /\ [Next]_vars => ClockInv'
  <2> SUFFICES ASSUME ClockInv, [Next]_vars PROVE ClockInv'
    OBVIOUS
  <2>1. CASE NextDay
    <3>1. date' = NextDate(date) /\ clock' = AddDays(clock, 1)
      BY <2>1 DEF NextDay
    <3>2. RealDate(date) /\ clock = [secs |-> number(date) * SecondsPerDay, nanos |-> 0]
      BY DEF ClockInv
    <3>3. RealDate(date') /\ number(date') = number(date) + 1
      BY <3>1, <3>2, NextDateCounts
    <3>4. number(date) \in Int
      BY <3>2, NumberIsInt
    <3>5. clock' = [secs |-> number(date) * SecondsPerDay + 1 * SecondsPerDay,
                    nanos |-> 0]
      BY <3>1, <3>2 DEF AddDays
    <3>6. number(date) * SecondsPerDay + 1 * SecondsPerDay
              = (number(date) + 1) * SecondsPerDay
      <4> DEFINE n == number(date)
                 s == SecondsPerDay
      <4>1. n \in Int /\ s \in Int
        BY <3>4, DayLength
      <4> HIDE DEF n, s
      <4>2. n * s + 1 * s = (n + 1) * s
        BY <4>1
      <4> QED BY <4>2 DEF n, s
    <3>7. clock' = [secs |-> number(date') * SecondsPerDay, nanos |-> 0]
      BY <3>3, <3>5, <3>6
    <3> QED BY <3>3, <3>7 DEF ClockInv
  <2>2. CASE UNCHANGED <<clock, date>>
    BY <2>2 DEF ClockInv
  <2>3. [Next]_vars => NextDay \/ UNCHANGED <<clock, date>>
    BY DEF Next, vars, Trade
  <2> QED BY <2>1, <2>2, <2>3
<1> QED BY <1>1, <1>2, PTL DEF Spec

\* However far the clock goes, the closed formulas turn its day into the date
\* that counting by the table of month lengths arrives at, and that date back
\* into its day.
THEOREM CalendarsAgree == Spec => []DateAgrees
<1>1. ClockInv => DateAgrees
  <2> SUFFICES ASSUME ClockInv PROVE DateAgrees
    OBVIOUS
  <2> DEFINE number == DaysFromCivil(date.y, date.m, date.d)
  <2>1. RealDate(date) /\ clock.secs = number * SecondsPerDay
    BY DEF ClockInv
  <2>2. number \in Int
    BY <2>1, NumberIsInt
  <2>3. DayOf(clock) = number
    <3> DEFINE s == SecondsPerDay
               x == clock.secs
    <3>1. s \in Nat \ {0} /\ x = number * s
      BY <2>1, DayLength
    <3> HIDE DEF s, x, number
    <3>2. x \in Int /\ x = s * number + 0 /\ 0 \in 0..(s - 1)
      BY <2>2, <3>1
    <3>3. x \div s = number
      BY <2>2, <3>1, <3>2, DivUnique
    <3> QED BY <3>3 DEF DayOf, s, x
  <2>4. CivilFromDays(number) = date
    <3>1. /\ date.y \in Int /\ date.m \in 1..12 /\ date.d \in 1..31
          /\ date.d <= LastDayOfMonth(date.y, date.m)
          /\ date = [y |-> date.y, m |-> date.m, d |-> date.d]
      BY <2>1 DEF RealDate
    <3> QED BY <3>1, CivilRoundTrip
  <2> QED BY <2>3, <2>4 DEF DateAgrees
<1> QED BY <1>1, ClockInvariant, PTL

\* Every part of the day of the clock is in that day.
LEMMA InstantOfDay ==
    ASSUME ClockInv, NEW x \in 0..(SecondsPerDay - 1), NEW y \in 0..(NanosPerSecond - 1),
           NEW t, t = FromUnix(clock.secs + x, y)
    PROVE  t \in Timestamps /\ CivilFromDays(DayOf(t)) = date
<1> DEFINE n == DaysFromCivil(date.y, date.m, date.d)
           d == SecondsPerDay
           s == n * d + x
<1>1. d \in Nat \ {0} /\ NanosPerSecond \in Nat \ {0}
  BY UnitsAre
<1>2. RealDate(date) /\ clock.secs = n * d
  BY DEF ClockInv
<1>3. n \in Int
  BY <1>2, NumberIsInt
<1> HIDE DEF n, d
<1>4. s \in Int /\ s = d * n + x
  <2>1. n * d \in Int /\ n * d = d * n
    BY <1>1, <1>3
  <2>2. x \in Int
    BY <1>1 DEF d
  <2> QED BY <2>1, <2>2
<1>5. y \div NanosPerSecond = 0 /\ y % NanosPerSecond = y
  <2>1. y \in Int /\ y = NanosPerSecond * 0 + y
    BY <1>1
  <2> QED BY <1>1, <2>1, DivUnique
<1>6. t = [secs |-> s, nanos |-> y]
  <2>1. t = [secs |-> s + y \div NanosPerSecond, nanos |-> y % NanosPerSecond]
    BY <1>2 DEF FromUnix
  <2> HIDE DEF s
  <2>2. s + 0 = s
    BY <1>4
  <2> QED BY <1>5, <2>1, <2>2
<1>7. DayOf(t) = n
  <2>1. s \div d = n
    <3> HIDE DEF s
    <3>1. x \in 0..(d - 1)
      BY DEF d
    <3> QED BY <1>1, <1>3, <1>4, <3>1, DivUnique
  <2> QED BY <1>6, <2>1 DEF DayOf, d
<1>8. CivilFromDays(n) = date
  <2>1. /\ date.y \in Int /\ date.m \in 1..12 /\ date.d \in 1..31
        /\ date.d <= LastDayOfMonth(date.y, date.m)
        /\ date = [y |-> date.y, m |-> date.m, d |-> date.d]
    BY <1>2 DEF RealDate
  <2> QED BY <2>1, CivilRoundTrip DEF n
<1>9. t \in Timestamps
  <2> HIDE DEF s
  <2> QED BY <1>4, <1>6 DEF Timestamps
<1> QED BY <1>7, <1>8, <1>9

LEMMA ClockIsMidnight ==
    ASSUME ClockInv
    PROVE  clock.secs \in Int /\ clock = FromUnix(clock.secs + 0, 0)
<1> DEFINE d == SecondsPerDay
           u == NanosPerSecond
<1>1. d \in Nat \ {0} /\ u \in Nat \ {0}
  BY UnitsAre
<1>2. RealDate(date) /\ clock = [secs |-> DaysFromCivil(date.y, date.m, date.d) * d,
                                 nanos |-> 0]
  BY DEF ClockInv
<1>3. DaysFromCivil(date.y, date.m, date.d) \in Int
  BY <1>2, NumberIsInt
<1> HIDE DEF d, u
<1>4. clock.secs \in Int /\ clock = [secs |-> clock.secs, nanos |-> 0]
  BY <1>1, <1>2, <1>3
<1>5. 0 \div u = 0 /\ 0 % u = 0
  <2>1. 0 = u * 0 + 0 /\ 0 \in 0..(u - 1)
    BY <1>1
  <2> QED BY <1>1, <2>1, DivUnique
<1>6. FromUnix(clock.secs + 0, 0) = [secs |-> clock.secs + 0 + 0 \div u, nanos |-> 0 % u]
  BY DEF FromUnix, u
<1>7. clock.secs + 0 + 0 = clock.secs
  BY <1>4
<1> QED BY <1>4, <1>5, <1>6, <1>7

\* However far the clock goes, every instant of its day is read back from the
\* text that an audit record holds of it, as long as its year has four digits,
\* and refused when it has not.
THEOREM InstantsReadBack == Spec => []InstantReadsBack
<1>1. ClockInv => InstantReadsBack
  <2> SUFFICES ASSUME ClockInv, NEW t \in Instants
               PROVE  IF date.y \in 0..MaxYear
                      THEN ParseRfc3339(ToRfc3339(t)) = [error |-> "none", at |-> t]
                      ELSE ParseRfc3339(ToRfc3339(t)).error # "none"
    BY DEF InstantReadsBack
  <2> DEFINE d == SecondsPerDay
             u == NanosPerSecond
  <2>1. d \in Nat \ {0} /\ u \in Nat \ {0}
    BY UnitsAre
  <2>2. t \in {clock, FromUnix(clock.secs + d \div 2, u \div 10),
               FromUnix(clock.secs + d - 1, u - 1)}
    BY DEF Instants
  <2>3. clock.secs \in Int /\ clock = FromUnix(clock.secs + 0, 0)
    BY ClockIsMidnight
  <2>4. \E x \in 0..(d - 1), y \in 0..(u - 1) : t = FromUnix(clock.secs + x, y)
    <3> HIDE DEF d, u
    <3>1. d \div 2 \in 0..(d - 1) /\ u \div 10 \in 0..(u - 1)
      BY <2>1
    <3>2. d - 1 \in 0..(d - 1) /\ u - 1 \in 0..(u - 1) /\ 0 \in 0..(d - 1) /\ 0 \in 0..(u - 1)
      BY <2>1
    <3>3. clock.secs + d - 1 = clock.secs + (d - 1)
      BY <2>1, <2>3
    <3> QED BY <2>2, <2>3, <3>1, <3>2, <3>3
  <2>5. t \in Timestamps /\ CivilFromDays(DayOf(t)) = date
    BY <2>4, InstantOfDay
  <2>6. IF CivilFromDays(DayOf(t)).y \in 0..MaxYear
        THEN ParseRfc3339(ToRfc3339(t)) = [error |-> "none", at |-> t]
        ELSE ParseRfc3339(ToRfc3339(t)).error # "none"
    BY <2>5, EveryInstantReadsBack
  <2> QED BY <2>5, <2>6
<1> QED BY <1>1, ClockInvariant, PTL

LEMMA MisspellingsAreTexts ==
    ASSUME NEW t \in TimestampTexts, t.year \in 0..MaxYear
    PROVE  Misspellings(t) \subseteq TimestampTexts
<1> DEFINE D == 0..9
           R == [flaw : Flaws, year : Int, month : Nat, day : Nat, hour : Nat,
                 minute : Nat, second : Nat, dot : BOOLEAN, frac : Seq(D),
                 zone : Zones, rest : BOOLEAN]
<1>1. t \in R /\ t.year \in 0..MaxYear /\ (t.dot \/ t.frac = << >>)
  BY DEF TimestampTexts
<1>2. \A y \in R : y.year \in 0..MaxYear /\ (y.dot \/ y.frac = << >>) => y \in TimestampTexts
  BY DEF TimestampTexts
<1>3. <<5, 0>> \in Seq(D) /\ Padded(1, FracDigits + 1) \in Seq(D)
  <2>1. FracDigits + 1 \in Nat /\ 1 \in Nat
    BY UnitsAre
  <2> QED BY <2>1, PaddedIsSeq
<1>4. HoursPerDay \in Nat /\ MinutesPerHour \in Nat /\ SecondsPerMinute \in Nat
  BY UnitsAre
<1> HIDE DEF D
<1>5. \A n \in Nat : /\ [t EXCEPT !.day = n] \in TimestampTexts
                     /\ [t EXCEPT !.month = n] \in TimestampTexts
                     /\ [t EXCEPT !.hour = n] \in TimestampTexts
                     /\ [t EXCEPT !.minute = n] \in TimestampTexts
                     /\ [t EXCEPT !.second = n] \in TimestampTexts
  BY <1>1, <1>2
<1>6. /\ \A z \in Zones : [t EXCEPT !.zone = z] \in TimestampTexts
      /\ \A f \in Flaws : [t EXCEPT !.flaw = f] \in TimestampTexts
      /\ [t EXCEPT !.rest = TRUE] \in TimestampTexts
  BY <1>1, <1>2
<1>7. [t EXCEPT !.dot = TRUE] \in TimestampTexts
  BY <1>1, <1>2
<1>8. ASSUME NEW f \in Seq(D) PROVE [t EXCEPT !.dot = TRUE, !.frac = f] \in TimestampTexts
  <2> DEFINE u == [t EXCEPT !.dot = TRUE]
  <2>1. u \in R /\ u.dot /\ u.year \in 0..MaxYear
    BY <1>1
  <2>2. [t EXCEPT !.dot = TRUE, !.frac = f] = [u EXCEPT !.frac = f]
    OBVIOUS
  <2> HIDE DEF u
  <2>3. /\ [u EXCEPT !.frac = f] \in R /\ [u EXCEPT !.frac = f].dot
        /\ [u EXCEPT !.frac = f].year \in 0..MaxYear
    BY <2>1
  <2> QED BY <1>2, <2>2, <2>3
<1>9. t.day \in Nat /\ t.month \in Nat /\ t.day + 1 \in Nat /\ t.day + 3 \in Nat
      /\ t.month + 1 \in Nat
  BY <1>1
<1>10. {[t EXCEPT !.day = d] : d \in {0, t.day + 1, t.day + 3}} \subseteq TimestampTexts
  BY <1>5, <1>9
<1>11. {[t EXCEPT !.month = m] : m \in {0, t.month + 1}} \subseteq TimestampTexts
  BY <1>5, <1>9
<1> QED BY <1>3, <1>4, <1>5, <1>6, <1>7, <1>8, <1>10, <1>11 DEF Misspellings

\* However far the clock goes, no text next to that of its instant is taken
\* for an instant other than the one it spells.
THEOREM NoDateIsMadeUp == Spec => []OnlyRealDates
<1>1. ClockInv => OnlyRealDates
  <2> SUFFICES ASSUME ClockInv, NEW t \in Misspellings(ToRfc3339(clock)),
                      date.y \in 0..MaxYear, ParseRfc3339(t).error = "none"
               PROVE  /\ t.zone \in {"Z", "zero-offset"}
                      /\ ToRfc3339(ParseRfc3339(t).at) =
                             [t EXCEPT !.zone = "Z", !.frac = TrimZeros(@),
                                       !.dot = TrimZeros(t.frac) # << >>]
    BY DEF OnlyRealDates
  <2>1. clock \in Timestamps /\ CivilFromDays(DayOf(clock)) = date
    <3>1. 0 \in 0..(SecondsPerDay - 1) /\ 0 \in 0..(NanosPerSecond - 1)
      BY UnitsAre
    <3> QED BY <3>1, ClockIsMidnight, InstantOfDay
  <2>2. ToRfc3339(clock) \in TimestampTexts /\ ToRfc3339(clock).year \in 0..MaxYear
    BY <2>1, TextsOfInstants
  <2>3. t \in TimestampTexts
    BY <2>2, MisspellingsAreTexts
  <2> QED BY <2>3, AcceptedInstantIsExact
<1> QED BY <1>1, ClockInvariant, PTL

-----------------------------------------------------------------------------
(***************************************************************************)
(* The account.                                                            *)
(***************************************************************************)

\* A whole number of units.
Whole(x) == x = SCALE * (x \div SCALE)

LEMMA WholeIs ==
    ASSUME NEW k \in Int, NEW x \in Int, x = SCALE * k
    PROVE  Whole(x)
<1>1. SCALE \in Nat \ {0} /\ 0 \in 0..(SCALE - 1) /\ x = SCALE * k + 0
  BY DecimalAssumption
<1>2. x \div SCALE = k
  BY <1>1, DivUnique
<1> QED BY <1>2 DEF Whole

LEMMA WholeOps ==
    ASSUME NEW a \in Int, NEW b \in Int, Whole(a), Whole(b)
    PROVE  Whole(a + b) /\ Whole(a - b) /\ Whole(-a)
<1> DEFINE k == a \div SCALE
           m == b \div SCALE
<1>1. k \in Int /\ m \in Int /\ a = SCALE * k /\ b = SCALE * m /\ SCALE \in Int
  BY DecimalAssumption DEF Whole
<1> HIDE DEF k, m
<1>2. /\ a + b = SCALE * (k + m) /\ a - b = SCALE * (k - m) /\ -a = SCALE * (-k)
  BY <1>1
<1> DEFINE sum == k + m
           difference == k - m
           opposite == -k
<1>3. sum \in Int /\ difference \in Int /\ opposite \in Int
  BY <1>1
<1>4. a + b = SCALE * sum /\ a - b = SCALE * difference /\ -a = SCALE * opposite
  BY <1>2
<1> HIDE DEF sum, difference, opposite
<1> QED BY <1>3, <1>4, WholeIs

\* A quotient rounded to the nearest integer stays between any two integers
\* that the exact one lies between.
LEMMA RoundDivBetween ==
    ASSUME NEW n \in Nat, NEW d \in Nat \ {0}, NEW b \in Int
    PROVE  /\ RoundDiv(n, d) \in Nat
           /\ n <= d * b => RoundDiv(n, d) <= b
           /\ d * b <= n => b <= RoundDiv(n, d)
<1> DEFINE q == n \div d
           r == n % d
<1>1. r \in 0..(d - 1) /\ n = d * q + r
  OBVIOUS
<1>2. q \in Nat
  BY DivBound
<1>3. /\ RoundDiv(n, d) \in {q, q + 1}
      /\ RoundDiv(n, d) = q + 1 => r > 0
  <2>1. d > 0
    OBVIOUS
  <2> HIDE DEF q, r
  <2>2. r = 0 => RoundDiv(n, d) = q
    BY <1>2, <2>1 DEF RoundDiv, q, r
  <2>3. RoundDiv(n, d) \in {q, q + 1}
    BY DEF RoundDiv, q, r
  <2> QED BY <1>1, <1>2, <2>2, <2>3
<1> HIDE DEF q, r
<1>4. ASSUME n <= d * b PROVE RoundDiv(n, d) <= b
  <2>1. q <= b
    <3> SUFFICES ASSUME b + 1 <= q PROVE FALSE
      BY <1>2
    <3>1. d * (b + 1) <= d * q
      BY <1>2, MulMonotone
    <3>2. d * (b + 1) = d * b + d /\ d * b \in Int /\ d * q \in Int
      BY <1>2
    <3> QED BY <1>1, <1>4, <3>1, <3>2
  <2>2. q = b => r = 0
    BY <1>1, <1>2, <1>4
  <2> QED BY <1>2, <1>3, <2>1, <2>2
<1>5. ASSUME d * b <= n PROVE b <= RoundDiv(n, d)
  <2>1. b <= q
    <3> SUFFICES ASSUME q + 1 <= b PROVE FALSE
      BY <1>2
    <3>1. d * (q + 1) <= d * b
      BY <1>2, MulMonotone
    <3>2. d * (q + 1) = d * q + d /\ d * b \in Int /\ d * q \in Int
      BY <1>2
    <3> QED BY <1>1, <1>5, <3>1, <3>2
  <2> QED BY <1>2, <1>3, <2>1
<1> QED BY <1>2, <1>3, <1>4, <1>5

\* A notional is scaled down by at most its fraction of a unit, and by none
\* if the quantity is whole.
LEMMA NotionalIs ==
    ASSUME NEW price \in Nat, NEW q \in Nat, Fits(price * q)
    PROVE  /\ MulOr(price, q, 0) \in Nat
           /\ SCALE * MulOr(price, q, 0) <= price * q
           /\ Whole(q) => SCALE * MulOr(price, q, 0) = price * q
<1> DEFINE x == price * q
           v == x \div SCALE
           r == x % SCALE
<1>1. MulOr(price, q, 0) \in Nat /\ MulOr(price, q, 0) = v
  BY MulOrNat
<1>2. x \in Nat /\ SCALE \in Nat \ {0}
  BY DecimalAssumption
<1>3. r \in 0..(SCALE - 1) /\ x = SCALE * v + r /\ v \in Int
  <2> HIDE DEF x
  <2> QED BY <1>2
<1>4. ASSUME Whole(q) PROVE x = SCALE * v
  <2> DEFINE k == q \div SCALE
             w == price * k
  <2>1. k \in Int /\ q = SCALE * k
    BY <1>2, <1>4 DEF Whole
  <2> HIDE DEF k
  <2>2. w \in Int /\ x = SCALE * w /\ x \in Int
    BY <1>2, <2>1
  <2> HIDE DEF w, x
  <2>3. Whole(x)
    BY <2>2, WholeIs
  <2> QED BY <2>3 DEF Whole
<1> HIDE DEF x, v, r
<1>5. SCALE * v \in Int
  BY <1>2, <1>3
<1>6. SCALE * v <= x /\ (Whole(q) => SCALE * v = x)
  BY <1>2, <1>3, <1>4, <1>5
<1> QED BY <1>1, <1>6 DEF x

LEMMA ApproxDivIs ==
    ASSUME NEW a \in Nat, NEW b \in Nat \ {0}, Fits(RoundDiv(a * SCALE, b))
    PROVE  ApproxDiv(a, b) = RoundDiv(a * SCALE, b)
<1>1. Abs(a) = a /\ Abs(b) = b /\ b # 0 /\ ((a < 0) = (b < 0))
  BY DEF Abs
<1> QED BY <1>1 DEF ApproxDiv

\* The average of a position that is added to, or entered, is not above the
\* highest of the prices; and for whole quantities not below the lowest.
LEMMA BlendedAverage ==
    ASSUME NEW avg \in Nat, NEW held \in Nat, NEW price \in Nat, NEW q \in Nat \ {0},
           Fits(avg * held), Fits(price * q),
           NEW high \in Nat, high <= RawMax, price <= high, held = 0 \/ avg <= high
    PROVE  LET prior    == MulOr(avg, held, 0)
               notional == AddOr(prior, MulOr(price, q, 0), prior)
               blended  == ApproxDiv(notional, held + q)
           IN  /\ blended \in Nat /\ blended <= high
               /\ \A low \in Int :
                      /\ SCALE > 1 /\ Whole(held) /\ Whole(q)
                      /\ low <= price /\ (held = 0 \/ low <= avg)
                      => low <= blended
<1> DEFINE prior == MulOr(avg, held, 0)
           more  == MulOr(price, q, 0)
           notional == AddOr(prior, more, prior)
           total == held + q
           x == avg * held
           y == price * q
           n == notional * SCALE
<1>1. SCALE \in Nat \ {0} /\ RawMax \in Nat
  BY DecimalAssumption
<1>2. /\ prior \in Nat /\ SCALE * prior <= x /\ (Whole(held) => SCALE * prior = x)
      /\ more \in Nat /\ SCALE * more <= y /\ (Whole(q) => SCALE * more = y)
  BY NotionalIs
<1>3. x \in Nat /\ y \in Nat /\ x <= RawMax /\ y <= RawMax
  BY <1>1 DEF Fits
<1>4. total \in Nat \ {0} /\ total = held + q
  OBVIOUS
<1>5. notional = IF Fits(prior + more) THEN prior + more ELSE prior
  BY DEF AddOr
<1>6. x <= high * held
  <2>1. CASE held = 0
    BY <2>1
  <2>2. CASE avg <= high
    <3>1. held * avg <= held * high
      BY <2>2, MulMonotone
    <3> QED BY <3>1
  <2> QED BY <2>1, <2>2
<1>7. y <= high * q
  <2>1. q * price <= q * high
    BY MulMonotone
  <2> QED BY <2>1
<1>8. high * total = high * held + high * q
  OBVIOUS
<1>9. high * total \in Nat /\ high * held \in Nat /\ high * q \in Nat
  BY <1>4
<1> HIDE DEF prior, more, notional, x, y, total
<1>10. SCALE * (prior + more) = SCALE * prior + SCALE * more
       /\ SCALE * prior \in Nat /\ SCALE * more \in Nat
  BY <1>1, <1>2
<1>11. notional \in Nat /\ n \in Nat /\ n = SCALE * notional
  BY <1>1, <1>2, <1>5
<1>12. n <= total * high
  <2>1. n <= SCALE * prior + SCALE * more
    BY <1>5, <1>10, <1>11
  <2>2. total * high = high * total
    BY <1>4
  <2> HIDE DEF n
  <2> QED BY <1>2, <1>3, <1>6, <1>7, <1>8, <1>9, <1>10, <1>11, <2>1, <2>2
<1> HIDE DEF n
<1>13. RoundDiv(n, total) \in Nat /\ RoundDiv(n, total) <= high
  BY <1>4, <1>11, <1>12, RoundDivBetween
<1>14. ApproxDiv(notional, total) = RoundDiv(n, total)
  <2>1. Fits(RoundDiv(n, total))
    BY <1>1, <1>13 DEF Fits
  <2> QED BY <1>4, <1>11, <2>1, ApproxDivIs DEF n
<1>15. ASSUME SCALE > 1, Whole(held), Whole(q),
              NEW low \in Int, low <= price, held = 0 \/ low <= avg
       PROVE  low <= ApproxDiv(notional, total)
  <2>1. Fits(prior + more)
    <3>1. 2 * prior <= SCALE * prior /\ 2 * more <= SCALE * more
      <4>1. prior * 2 <= prior * SCALE /\ more * 2 <= more * SCALE
        BY <1>1, <1>2, <1>15, MulMonotone
      <4> QED BY <1>1, <1>2, <4>1
    <3> QED BY <1>1, <1>2, <1>3, <1>10, <3>1 DEF Fits
  <2>2. n = x + y
    BY <1>2, <1>5, <1>10, <1>11, <1>15, <2>1
  <2>3. held * low <= x
    <3>1. CASE held = 0
      BY <1>3, <3>1
    <3>2. CASE low <= avg
      BY <3>2, MulMonotone DEF x
    <3> QED BY <1>15, <3>1, <3>2
  <2>4. q * low <= y
    BY <1>15, MulMonotone DEF y
  <2>5. total * low = held * low + q * low /\ held * low \in Int /\ q * low \in Int
    BY <1>4
  <2>6. total * low <= n
    BY <1>3, <2>2, <2>3, <2>4, <2>5
  <2>7. low <= RoundDiv(n, total)
    BY <1>4, <1>11, <2>6, RoundDivBetween
  <2> QED BY <1>14, <2>7
<1> QED BY <1>13, <1>14, <1>15 DEF prior, more, notional, total

\* A fill of a position, as long as nothing overflows: what becomes of its
\* quantity, and of its average in each of the four cases.
SameDirection(p, qty) == p.qty = 0 \/ (p.qty < 0) = (qty < 0)

Blended(avg, held, price, q) ==
    LET prior == MulOr(avg, held, 0)
    IN  ApproxDiv(AddOr(prior, MulOr(price, q, 0), prior), held + q)

LEMMA SignedFillIs ==
    ASSUME NEW p \in PositionType, NEW qty \in Int, qty # 0, NEW price \in Nat,
           Fits(Abs(p.qty)), Fits(Abs(qty)), Fits(Abs(p.qty + qty))
    PROVE  LET total == p.qty + qty
               new   == SignedFill(p, qty, price)
           IN  /\ new.qty = total
               /\ new.avg =
                      IF SameDirection(p, qty)
                      THEN Blended(p.avg, Abs(p.qty), price, Abs(qty))
                      ELSE IF total = 0 THEN 0
                      ELSE IF (p.qty < 0) # (total < 0) THEN price
                      ELSE p.avg
<1> DEFINE total == p.qty + qty
<1>1. p.qty \in Int /\ p.avg \in Int /\ total \in Int
  <2>1. p.qty \in Raw /\ p.avg \in Raw
    BY DEF PositionType
  <2>2. p.qty \in Int /\ p.avg \in Int
    BY <2>1, RawInt
  <2> QED BY <2>2
<1>2. Fits(total)
  BY <1>1, DecimalAssumption DEF Fits, Abs
<1>3. /\ AddOr(p.qty, qty, p.qty) = total
      /\ AbsRaw(p.qty) = Abs(p.qty) /\ AbsRaw(qty) = Abs(qty)
      /\ AbsRaw(total) = Abs(total)
  BY <1>2 DEF AddOr, AbsRaw
<1>4. ASSUME SameDirection(p, qty)
      PROVE  total # 0 /\ Abs(total) = Abs(p.qty) + Abs(qty)
  BY <1>1, <1>4 DEF SameDirection, Abs
<1> HIDE DEF total
<1> QED BY <1>3, <1>4, Zenon DEF SignedFill, SameDirection, Blended, total

\* AccountSnapshot::apply_fill on the only instrument there is.
LEMMA ApplyFillIs ==
    ASSUME NEW a \in AccountType, NEW instr \in Instruments, NEW side \in Sides,
           NEW qty \in Raw, qty > 0, NEW price \in Raw, price > 0,
           Fits(qty * price),
           NEW paid, paid = (IF side \in BuySides THEN DivTrunc(qty * price, SCALE)
                                                  ELSE -DivTrunc(qty * price, SCALE)),
           Fits(a.cash - paid)
    PROVE  LET signed == IF side \in BuySides THEN qty ELSE -qty
               new    == ApplyFill(a, instr, side, qty, price)
           IN  /\ new.cash = a.cash - paid
               /\ new.pos[instr] = IF a.pos[instr] = None
                                   THEN [qty |-> signed, avg |-> price]
                                   ELSE SignedFill(a.pos[instr], signed, price)
<1> DEFINE signed   == IF side \in BuySides THEN qty ELSE -qty
           product  == qty * price
           notional == MulOr(price, qty, 0)
           position == IF a.pos[instr] = None
                       THEN [qty |-> signed, avg |-> price]
                       ELSE SignedFill(a.pos[instr], signed, price)
<1>1. qty \in Int /\ price \in Int /\ price * qty = product /\ product \in Nat
  BY RawInt
<1>2. notional = DivTrunc(product, SCALE) /\ notional \in Nat
  <2>1. notional = DivTrunc(product, SCALE)
    BY <1>1 DEF MulOr
  <2> HIDE DEF product
  <2> QED BY <1>1, <2>1, DivTruncBound, DecimalAssumption
<1>3. SubOr(0, qty, qty) = -qty
  BY DecimalAssumption DEF SubOr, Fits, Raw
<1>4. a.cash \in Int /\ DOMAIN a.pos = Instruments
  BY RawInt DEF AccountType
<1>5. (IF side \in BuySides THEN SubOr(a.cash, notional, a.cash)
                           ELSE AddOr(a.cash, notional, a.cash)) = a.cash - paid
  <2> HIDE DEF notional, product
  <2>1. CASE side \in BuySides
    BY <1>2, <1>4, <2>1 DEF SubOr, product
  <2>2. CASE side \notin BuySides
    <3>1. paid = -notional
      BY <1>2, <2>2 DEF product
    <3>2. a.cash - paid = a.cash + notional
      BY <1>2, <1>4, <3>1
    <3> QED BY <2>2, <3>2 DEF AddOr
  <2> QED BY <2>1, <2>2
<1>6. ApplyFill(a, instr, side, qty, price) =
          [a EXCEPT !.cash = a.cash - paid, !.pos[instr] = position]
  BY <1>3, <1>5, Zenon DEF ApplyFill
<1> HIDE DEF position
<1> QED BY <1>4, <1>6 DEF AccountType, position

\* The account and the true one; what they have in common as long as every
\* product and sum had a place in the integer; and where the average lies.
ExactType ==
    [cash : Int, qty : Int, low : Nat, high : Nat, whole : BOOLEAN,
     inRange : BOOLEAN, fills : Nat]

TotalsInv ==
    /\ acct \in AccountType /\ exact \in ExactType
    /\ exact.inRange =>
           /\ acct.cash = exact.cash
           /\ Fits(Abs(exact.qty))
           /\ \A x \in Instruments :
                  exact.qty = IF acct.pos[x] = None THEN 0 ELSE acct.pos[x].qty

AverageInv ==
    exact.inRange =>
        /\ exact.high <= RawMax
        /\ exact.whole => Whole(exact.qty)
        /\ \A x \in Instruments :
               acct.pos[x] # None =>
                   /\ acct.pos[x].avg \in Nat /\ acct.pos[x].avg <= exact.high
                   /\ SCALE > 1 /\ exact.whole => exact.low <= acct.pos[x].avg

\* What a Trade makes of the two accounts.
LEMMA TradeFacts ==
    ASSUME NEW side \in Sides, NEW q \in Quantities, NEW p \in Prices,
           Trade(side, q, p)
    PROVE  \E qty \in Raw, price \in Raw, instr \in Instruments :
               /\ qty > 0 /\ price > 0
               /\ acct' = ApplyFill(acct, instr, side, qty, price)
               /\ exact' = ExactFill(exact, side, qty, price)
<1>1. PICK instr \in Instruments :
          acct' = ApplyFill(acct, instr, side, Parse(q).raw, Parse(p).raw)
  BY DEF Trade
<1>2. Parse(q).raw \in Raw /\ Parse(p).raw \in Raw
  <2>1. q \in Texts /\ p \in Texts
    BY LongRunAssumption
  <2>2. Parse(q).error = "none" /\ Parse(p).error = "none"
    BY DEF Trade
  <2> QED BY <2>1, <2>2, AcceptedTextIsExact
<1>3. exact' = ExactFill(exact, side, Parse(q).raw, Parse(p).raw)
  BY DEF Trade
<1>4. Parse(q).raw > 0 /\ Parse(p).raw > 0
  BY DEF Trade
<1> QED BY <1>1, <1>2, <1>3, <1>4

LEMMA ExactFillType ==
    ASSUME NEW e \in ExactType, NEW side \in Sides,
           NEW qty \in Int, NEW price \in Nat
    PROVE  ExactFill(e, side, qty, price) \in ExactType
<1> DEFINE product == qty * price
           quotient == DivTrunc(product, SCALE)
<1>1. product \in Int
  OBVIOUS
<1>2. quotient \in Int
  <2> HIDE DEF product
  <2> QED BY <1>1, DivTruncBound, DecimalAssumption
<1> HIDE DEF quotient
<1>3. ExactFill(e, side, qty, price).cash \in Int
  BY <1>2 DEF ExactFill, ExactType, quotient
<1>4. ExactFill(e, side, qty, price).qty \in Int
  BY DEF ExactFill, ExactType
<1>5. /\ ExactFill(e, side, qty, price).low \in Nat
      /\ ExactFill(e, side, qty, price).high \in Nat
  BY DEF ExactFill, ExactType
<1>6. /\ ExactFill(e, side, qty, price).whole \in BOOLEAN
      /\ ExactFill(e, side, qty, price).inRange \in BOOLEAN
  BY DEF ExactFill, ExactType
<1>7. ExactFill(e, side, qty, price).fills \in Nat
  BY DEF ExactFill, ExactType
<1>8. ExactFill(e, side, qty, price) =
          [cash  |-> ExactFill(e, side, qty, price).cash,
           qty   |-> ExactFill(e, side, qty, price).qty,
           low   |-> ExactFill(e, side, qty, price).low,
           high  |-> ExactFill(e, side, qty, price).high,
           whole |-> ExactFill(e, side, qty, price).whole,
           inRange |-> ExactFill(e, side, qty, price).inRange,
           fills |-> ExactFill(e, side, qty, price).fills]
  BY DEF ExactFill
<1> QED BY <1>3, <1>4, <1>5, <1>6, <1>7, <1>8 DEF ExactType

LEMMA TotalsInit == Init => TotalsInv
<1> SUFFICES ASSUME Init PROVE TotalsInv
  OBVIOUS
<1>1. FromI64(StartingUnits) \in Raw /\ 0 \in Raw /\ Raw \subseteq Int
  BY LongRunAssumption, RawInt
<1>2. /\ acct = [cash |-> FromI64(StartingUnits), reserved |-> 0,
                 pos |-> [x \in Instruments |-> None]]
      /\ exact = NewExact
  BY DEF Init, NewAccount
<1>3. acct \in AccountType
  BY <1>1, <1>2 DEF AccountType, Option
<1>4. exact \in ExactType
  BY <1>1, <1>2 DEF NewExact, ExactType
<1>5. Fits(Abs(0))
  BY DecimalAssumption DEF Fits, Abs
<1> QED BY <1>2, <1>3, <1>4, <1>5 DEF TotalsInv, NewExact

LEMMA TotalsNext == TotalsInv /\ [Next]_vars => TotalsInv'
<1> SUFFICES ASSUME TotalsInv, [Next]_vars PROVE TotalsInv'
  OBVIOUS
<1>1. ASSUME NEW side \in Sides, NEW q \in Quantities, NEW p \in Prices,
             Trade(side, q, p)
      PROVE  TotalsInv'
  <2>1. PICK qty \in Raw, price \in Raw, instr \in Instruments :
            /\ qty > 0 /\ price > 0
            /\ acct' = ApplyFill(acct, instr, side, qty, price)
            /\ exact' = ExactFill(exact, side, qty, price)
    BY <1>1, TradeFacts
  <2>2. acct \in AccountType /\ exact \in ExactType
    BY DEF TotalsInv
  <2>3. acct' \in AccountType
    BY <2>1, <2>2, ApplyFillType
  <2>4. exact' \in ExactType
    <3>1. qty \in Int /\ price \in Nat
      BY <2>1, RawInt
    <3> QED BY <2>1, <2>2, <3>1, ExactFillType
  <2>5. ASSUME exact'.inRange
        PROVE  /\ acct'.cash = exact'.cash
               /\ Fits(Abs(exact'.qty))
               /\ \A x \in Instruments :
                      exact'.qty = IF acct'.pos[x] = None THEN 0 ELSE acct'.pos[x].qty
    <3> DEFINE paid == IF side \in BuySides THEN DivTrunc(qty * price, SCALE)
                                            ELSE -DivTrunc(qty * price, SCALE)
               signed == IF side \in BuySides THEN qty ELSE -qty
    <3>1. /\ exact.inRange /\ Fits(qty * price) /\ Fits(Abs(exact.qty + signed))
          /\ Fits(exact.cash - paid)
          /\ exact'.cash = exact.cash - paid /\ exact'.qty = exact.qty + signed
      BY <2>1, <2>5 DEF ExactFill
    <3>2. /\ acct.cash = exact.cash /\ Fits(Abs(exact.qty))
          /\ exact.qty = IF acct.pos[instr] = None THEN 0 ELSE acct.pos[instr].qty
      BY <3>1 DEF TotalsInv
    <3>3. /\ acct'.cash = acct.cash - paid
          /\ acct'.pos[instr] = IF acct.pos[instr] = None
                                THEN [qty |-> signed, avg |-> price]
                                ELSE SignedFill(acct.pos[instr], signed, price)
      <4> HIDE DEF paid
      <4>1. Fits(acct.cash - paid)
        BY <3>1, <3>2
      <4> QED BY <2>1, <2>2, <3>1, <4>1, ApplyFillIs DEF paid
    <3>4. signed \in Int /\ signed # 0 /\ Fits(Abs(signed)) /\ price \in Nat
      BY <2>1, DecimalAssumption DEF Raw, Fits, Abs
    <3> HIDE DEF signed, paid
    <3>5. exact'.qty = IF acct'.pos[instr] = None THEN 0 ELSE acct'.pos[instr].qty
      <4>1. CASE acct.pos[instr] = None
        <5>1. exact'.qty = signed
          BY <3>1, <3>2, <3>4, <4>1
        <5>2. acct'.pos[instr] # None
          <6>1. signed \in Raw
            BY <2>1, DecimalAssumption DEF signed, Raw
          <6>2. acct'.pos[instr] \in PositionType
            BY <2>1, <3>3, <4>1, <6>1 DEF PositionType
          <6> QED BY <6>2, NoPositionAssumption
        <5> QED BY <3>3, <4>1, <5>1, <5>2
      <4>2. CASE acct.pos[instr] # None
        <5>1. acct.pos[instr] \in PositionType
          BY <2>2, <4>2 DEF AccountType, Option
        <5>2. SignedFill(acct.pos[instr], signed, price).qty = exact.qty + signed
          BY <3>1, <3>2, <3>4, <4>2, <5>1, SignedFillIs
        <5>3. acct'.pos[instr].qty = exact'.qty
          BY <3>1, <3>3, <4>2, <5>2
        <5>4. acct'.pos[instr] # None
          <6>1. signed \in Raw
            BY <2>1, DecimalAssumption DEF signed, Raw
          <6>2. acct'.pos[instr] \in PositionType
            BY <3>3, <4>2, <5>1, <6>1, SignedFillType
          <6> QED BY <6>2, NoPositionAssumption
        <5> QED BY <5>3, <5>4
      <4> QED BY <4>1, <4>2
    <3> QED BY <3>1, <3>2, <3>3, <3>5, LongRunAssumption
  <2> QED BY <2>3, <2>4, <2>5 DEF TotalsInv
<1>2. CASE UNCHANGED <<acct, exact>>
  BY <1>2 DEF TotalsInv
<1>3. \/ UNCHANGED <<acct, exact>>
      \/ \E side \in Sides, q \in Quantities, p \in Prices : Trade(side, q, p)
  BY DEF Next, NextDay, vars
<1> QED BY <1>1, <1>2, <1>3

LEMMA AverageInit == Init => AverageInv
<1> SUFFICES ASSUME Init PROVE AverageInv
  OBVIOUS
<1>1. /\ exact.high = 0 /\ exact.qty = 0
      /\ \A x \in Instruments : acct.pos[x] = None
  BY DEF Init, NewExact, NewAccount
<1>2. Whole(0)
  <2>1. SCALE \in Nat \ {0} /\ 0 = SCALE * 0
    BY DecimalAssumption
  <2> QED BY <2>1, WholeIs
<1>3. 0 <= RawMax
  BY DecimalAssumption
<1> QED BY <1>1, <1>2, <1>3 DEF AverageInv

\* The average of one position over one fill, next to the bounds of its prices.
LEMMA AverageOfFill ==
    ASSUME NEW p \in PositionType, NEW signed \in Int, signed # 0, Fits(Abs(signed)),
           NEW price \in Nat \ {0}, price <= RawMax,
           NEW low \in Nat, NEW high \in Nat, high <= RawMax,
           p.avg \in Nat, p.avg <= high,
           Fits(Abs(p.qty)), Fits(Abs(p.qty + signed)),
           Fits(high * Abs(p.qty)), Fits(price * Abs(signed)),
           NEW newLow, NEW newHigh,
           LET total  == p.qty + signed
               enters == p.qty = 0 \/ (p.qty < 0) # (total < 0)
               adds   == (p.qty < 0) = (signed < 0)
           IN  /\ newLow = IF total = 0 THEN 0
                           ELSE IF enters \/ (adds /\ price < low) THEN price ELSE low
               /\ newHigh = IF total = 0 THEN 0
                            ELSE IF enters \/ (adds /\ price > high) THEN price ELSE high
    PROVE  LET avg == SignedFill(p, signed, price).avg
           IN  /\ newHigh <= RawMax
               /\ avg \in Nat /\ avg <= newHigh
               /\ SCALE > 1 /\ Whole(p.qty) /\ Whole(signed) /\ low <= p.avg
                      => newLow <= avg
<1> DEFINE total == p.qty + signed
           held  == Abs(p.qty)
           q     == Abs(signed)
           avg   == SignedFill(p, signed, price).avg
<1>1. p.qty \in Int /\ total \in Int /\ RawMax \in Nat
  <2>1. p.qty \in Raw
    BY DEF PositionType
  <2>2. p.qty \in Int
    BY <2>1, RawInt
  <2> QED BY <2>2, DecimalAssumption
<1>2. avg = IF SameDirection(p, signed) THEN Blended(p.avg, held, price, q)
            ELSE IF total = 0 THEN 0
            ELSE IF (p.qty < 0) # (total < 0) THEN price
            ELSE p.avg
  BY SignedFillIs
<1> HIDE DEF avg
<1>3. CASE SameDirection(p, signed)
  <2>1. /\ held \in Nat /\ q \in Nat \ {0} /\ total # 0
        /\ held = 0 => p.qty = 0
    BY <1>1, <1>3 DEF SameDirection, Abs
  <2>2. /\ newHigh \in Nat /\ newHigh <= RawMax /\ price <= newHigh
        /\ held = 0 \/ p.avg <= newHigh
        /\ newLow <= price /\ newLow \in Int
        /\ held = 0 \/ newLow <= low
    <3>1. CASE p.qty = 0
      BY <1>1, <2>1, <3>1 DEF Abs
    <3>2. CASE p.qty # 0
      <4>1. (p.qty < 0) = (signed < 0) /\ (p.qty < 0) = (total < 0)
        BY <1>1, <1>3, <3>2 DEF SameDirection
      <4>2. /\ newHigh = IF price > high THEN price ELSE high
            /\ newLow = IF price < low THEN price ELSE low
        BY <2>1, <3>2, <4>1
      <4> QED BY <1>1, <4>2
    <3> QED BY <3>1, <3>2
  <2>3. Fits(p.avg * held)
    <3>1. held * p.avg <= held * high
      BY <2>1, MulMonotone
    <3>2. held * p.avg = p.avg * held /\ held * high = high * held /\ p.avg * held \in Nat
      BY <2>1
    <3> QED BY <1>1, <2>1, <3>1, <3>2 DEF Fits
  <2>4. /\ Blended(p.avg, held, price, q) \in Nat
        /\ Blended(p.avg, held, price, q) <= newHigh
        /\ \A l \in Int :
               /\ SCALE > 1 /\ Whole(held) /\ Whole(q)
               /\ l <= price /\ (held = 0 \/ l <= p.avg)
               => l <= Blended(p.avg, held, price, q)
    <3> HIDE DEF held, q
    <3> QED BY <2>1, <2>2, <2>3, BlendedAverage DEF q, Blended
  <2>5. ASSUME Whole(p.qty), Whole(signed) PROVE Whole(held) /\ Whole(q)
    BY <1>1, <2>5, WholeOps DEF Abs
  <2>6. ASSUME SCALE > 1, Whole(p.qty), Whole(signed), low <= p.avg
        PROVE  newLow <= Blended(p.avg, held, price, q)
    <3>1. held = 0 \/ newLow <= p.avg
      BY <2>2, <2>6
    <3> QED BY <2>2, <2>4, <2>5, <2>6, <3>1
  <2> QED BY <1>2, <1>3, <2>2, <2>4, <2>6 DEF avg
<1>4. CASE ~SameDirection(p, signed) /\ total = 0
  BY <1>1, <1>2, <1>4 DEF avg
<1>5. CASE ~SameDirection(p, signed) /\ total # 0 /\ (p.qty < 0) # (total < 0)
  BY <1>1, <1>2, <1>5 DEF avg
<1>6. CASE ~SameDirection(p, signed) /\ total # 0 /\ (p.qty < 0) = (total < 0)
  BY <1>1, <1>2, <1>6 DEF avg, SameDirection
<1> QED BY <1>3, <1>4, <1>5, <1>6

LEMMA AverageNext == TotalsInv /\ AverageInv /\ [Next]_vars => AverageInv'
<1> SUFFICES ASSUME TotalsInv, AverageInv, [Next]_vars PROVE AverageInv'
  OBVIOUS
<1>1. ASSUME NEW side \in Sides, NEW q \in Quantities, NEW p \in Prices,
             Trade(side, q, p)
      PROVE  AverageInv'
  <2>1. PICK qty \in Raw, price \in Raw, instr \in Instruments :
            /\ qty > 0 /\ price > 0
            /\ acct' = ApplyFill(acct, instr, side, qty, price)
            /\ exact' = ExactFill(exact, side, qty, price)
    BY <1>1, TradeFacts
  <2> SUFFICES ASSUME exact'.inRange
               PROVE  /\ exact'.high <= RawMax
                      /\ exact'.whole => Whole(exact'.qty)
                      /\ \A x \in Instruments :
                             acct'.pos[x] # None =>
                                 /\ acct'.pos[x].avg \in Nat
                                 /\ acct'.pos[x].avg <= exact'.high
                                 /\ SCALE > 1 /\ exact'.whole
                                        => exact'.low <= acct'.pos[x].avg
    BY DEF AverageInv
  <2> DEFINE paid == IF side \in BuySides THEN DivTrunc(qty * price, SCALE)
                                          ELSE -DivTrunc(qty * price, SCALE)
             signed == IF side \in BuySides THEN qty ELSE -qty
             total  == exact.qty + signed
             enters == exact.qty = 0 \/ (exact.qty < 0) # (total < 0)
             adds   == (exact.qty < 0) = (signed < 0)
  <2>2. /\ exact.inRange /\ Fits(qty * price) /\ Fits(exact.high * Abs(exact.qty))
        /\ Fits(Abs(total)) /\ Fits(exact.cash - paid)
        /\ exact'.qty = total
        /\ exact'.whole = (exact.whole /\ qty % SCALE = 0)
    BY <2>1 DEF ExactFill
  <2>3. /\ exact'.low = IF total = 0 THEN 0
                        ELSE IF enters \/ (adds /\ price < exact.low)
                             THEN price ELSE exact.low
        /\ exact'.high = IF total = 0 THEN 0
                         ELSE IF enters \/ (adds /\ price > exact.high)
                              THEN price ELSE exact.high
    BY <2>1 DEF ExactFill
  <2>4. /\ acct \in AccountType /\ acct.cash = exact.cash /\ Fits(Abs(exact.qty))
        /\ exact.qty = IF acct.pos[instr] = None THEN 0 ELSE acct.pos[instr].qty
        /\ exact.qty \in Int /\ exact.low \in Nat /\ exact.high \in Nat
        /\ exact.whole \in BOOLEAN
    BY <2>2 DEF TotalsInv, ExactType
  <2>5. acct'.pos[instr] = IF acct.pos[instr] = None
                           THEN [qty |-> signed, avg |-> price]
                           ELSE SignedFill(acct.pos[instr], signed, price)
    <3> HIDE DEF paid
    <3>1. Fits(acct.cash - paid)
      BY <2>2, <2>4
    <3> QED BY <2>1, <2>2, <2>4, <3>1, ApplyFillIs DEF paid
  <2>6. /\ signed \in Int /\ signed # 0 /\ Fits(Abs(signed))
        /\ price \in Nat \ {0} /\ price <= RawMax /\ qty \in Int
    BY <2>1, DecimalAssumption DEF Raw, Fits, Abs
  <2>7. Fits(price * Abs(signed))
    <3>1. Abs(signed) = qty
      BY <2>1, <2>6 DEF Abs
    <3>2. price * qty = qty * price
      BY <2>6
    <3> QED BY <2>2, <3>1, <3>2
  <2>8. ASSUME exact'.whole PROVE exact.whole /\ Whole(exact.qty) /\ Whole(signed)
    <3>1. exact.whole /\ qty % SCALE = 0
      BY <2>2, <2>8
    <3>2. Whole(exact.qty)
      BY <2>2, <3>1 DEF AverageInv
    <3>3. Whole(qty)
      <4>1. qty = SCALE * (qty \div SCALE) + (qty % SCALE)
        BY <2>6, DecimalAssumption
      <4>2. SCALE * (qty \div SCALE) \in Int
        BY <2>6, DecimalAssumption
      <4> QED BY <3>1, <4>1, <4>2 DEF Whole
    <3>4. Whole(signed)
      BY <2>6, <3>3, WholeOps
    <3> QED BY <3>1, <3>2, <3>4
  <2> HIDE DEF signed, paid
  <2>9. ASSUME exact'.whole PROVE Whole(total)
    BY <2>4, <2>6, <2>8, <2>9, WholeOps
  <2>10. acct'.pos[instr] # None =>
             /\ acct'.pos[instr].avg \in Nat /\ acct'.pos[instr].avg <= exact'.high
             /\ SCALE > 1 /\ exact'.whole => exact'.low <= acct'.pos[instr].avg
    <3>1. CASE acct.pos[instr] = None
      <4>1. enters /\ total # 0
        BY <2>4, <2>6, <3>1
      <4>2. exact'.low = price /\ exact'.high = price
        BY <2>3, <4>1
      <4>3. acct'.pos[instr].avg = price
        BY <2>5, <3>1
      <4> QED BY <2>6, <4>2, <4>3
    <3>2. CASE acct.pos[instr] # None
      <4> DEFINE pos == acct.pos[instr]
      <4>1. pos \in PositionType /\ pos.qty = exact.qty
        BY <2>4, <3>2 DEF AccountType, Option
      <4>2. /\ exact.high <= RawMax /\ pos.avg \in Nat /\ pos.avg <= exact.high
            /\ SCALE > 1 /\ exact.whole => exact.low <= pos.avg
        BY <2>2, <3>2 DEF AverageInv
      <4>3. acct'.pos[instr] = SignedFill(pos, signed, price)
        BY <2>5, <3>2
      <4> HIDE DEF pos
      <4>4. /\ exact'.high <= RawMax
            /\ SignedFill(pos, signed, price).avg \in Nat
            /\ SignedFill(pos, signed, price).avg <= exact'.high
            /\ SCALE > 1 /\ Whole(pos.qty) /\ Whole(signed) /\ exact.low <= pos.avg
                   => exact'.low <= SignedFill(pos, signed, price).avg
        BY <2>2, <2>3, <2>4, <2>6, <2>7, <4>1, <4>2, AverageOfFill
      <4> QED BY <2>8, <4>1, <4>2, <4>3, <4>4
    <3> QED BY <3>1, <3>2
  <2>11. exact'.high <= RawMax
    <3>1. exact.high <= RawMax
      BY <2>2 DEF AverageInv
    <3> QED BY <2>3, <2>6, <3>1, DecimalAssumption
  <2> QED BY <2>2, <2>9, <2>10, <2>11, LongRunAssumption
<1>2. CASE UNCHANGED <<acct, exact>>
  BY <1>2 DEF AverageInv
<1>3. \/ UNCHANGED <<acct, exact>>
      \/ \E side \in Sides, q \in Quantities, p \in Prices : Trade(side, q, p)
  BY DEF Next, NextDay, vars
<1> QED BY <1>1, <1>2, <1>3

\* For any number of fills of any amounts, and any width of the integer: as
\* long as no product and no sum has left it, cash and position are exactly
\* what the fills add up to.
THEOREM TotalsAreExact == Spec => []TotalsExact
<1>1. TotalsInv => TotalsExact
  BY DEF TotalsInv, TotalsExact, Positions
<1> QED BY <1>1, TotalsInit, TotalsNext, PTL DEF Spec

\* The average price of a position is never above the highest price it was
\* entered at, nor, for whole quantities, below the lowest.  With a scale of
\* one the sum of two notionals that fit may not, and the average falls.
THEOREM AverageIsBetween ==
    ASSUME SCALE > 1
    PROVE  Spec => []AverageWithinFills
<1>1. AverageInv => AverageWithinFills
  BY DEF AverageInv, AverageWithinFills, Positions
<1>2. Init => TotalsInv /\ AverageInv
  BY TotalsInit, AverageInit
<1>3. (TotalsInv /\ AverageInv) /\ [Next]_vars => (TotalsInv /\ AverageInv)'
  BY TotalsNext, AverageNext
<1> QED BY <1>1, <1>2, <1>3, PTL DEF Spec

-----------------------------------------------------------------------------
(***************************************************************************)
(* The account once products and sums have left the integer.               *)
(***************************************************************************)

\* The cash of any fill: the product and the sum are checked in turn.
LEMMA CashOfFill ==
    ASSUME NEW a \in AccountType, NEW instr \in Instruments, NEW side \in Sides,
           NEW qty \in Raw, qty > 0, NEW price \in Raw, price > 0,
           NEW paid, paid = (IF side \in BuySides THEN DivTrunc(qty * price, SCALE)
                                                  ELSE -DivTrunc(qty * price, SCALE))
    PROVE  LET new == ApplyFill(a, instr, side, qty, price)
           IN  \/ new.cash = a.cash - paid
               \/ /\ new.cash = a.cash
                  /\ \/ ~Fits(a.cash - paid)
                     \/ ~Fits(SCALE * Abs(paid) + SCALE - 1)
<1> DEFINE product  == qty * price
           quotient == product \div SCALE
           rest     == product % SCALE
           notional == MulOr(price, qty, 0)
           cash     == IF side \in BuySides THEN SubOr(a.cash, notional, a.cash)
                                            ELSE AddOr(a.cash, notional, a.cash)
           position == IF a.pos[instr] = None
                       THEN [qty |-> IF side \in BuySides THEN qty ELSE SubOr(0, qty, qty),
                             avg |-> price]
                       ELSE SignedFill(a.pos[instr],
                                IF side \in BuySides THEN qty ELSE SubOr(0, qty, qty), price)
<1>1. /\ qty \in Nat /\ price \in Nat /\ price * qty = product /\ product \in Nat
      /\ a.cash \in Int /\ SCALE \in Nat \ {0} /\ RawMax \in Nat
  <2>1. qty \in Nat /\ price \in Nat
    BY RawInt
  <2>2. a.cash \in Int /\ SCALE \in Nat \ {0} /\ RawMax \in Nat
    BY RawInt, DecimalAssumption DEF AccountType
  <2>3. price * qty = product /\ product \in Nat
    BY <2>1
  <2> QED BY <2>1, <2>2, <2>3
<1>2. ApplyFill(a, instr, side, qty, price) =
          [a EXCEPT !.cash = cash, !.pos[instr] = position]
  BY Zenon DEF ApplyFill
<1>3. ApplyFill(a, instr, side, qty, price).cash = cash
  <2> HIDE DEF cash, position
  <2> QED BY <1>2 DEF AccountType
<1>4. quotient \in Nat /\ rest \in 0..(SCALE - 1) /\ product = SCALE * quotient + rest
  <2> HIDE DEF product
  <2> QED BY <1>1, DivBound
<1>5. notional = IF Fits(product) THEN quotient ELSE 0
  <2>1. MulOr(price, qty, 0) = IF Fits(product) THEN DivTrunc(product, SCALE) ELSE 0
    BY <1>1 DEF MulOr
  <2>2. DivTrunc(product, SCALE) = quotient
    BY <1>1 DEF DivTrunc
  <2> QED BY <2>1, <2>2
<1>6. paid = (IF side \in BuySides THEN quotient ELSE -quotient)
  BY <1>1 DEF DivTrunc
<1> HIDE DEF product, quotient, rest, notional
<1>7. CASE Fits(product)
  BY <1>1, <1>3, <1>4, <1>5, <1>6, <1>7 DEF SubOr, AddOr
<1>8. CASE ~Fits(product)
  <2>1. Abs(paid) = quotient
    BY <1>4, <1>6 DEF Abs
  <2>2. SCALE * quotient \in Int
    BY <1>1, <1>4
  <2>3. ~Fits(SCALE * Abs(paid) + SCALE - 1)
    BY <1>1, <1>4, <1>8, <2>1, <2>2 DEF Fits
  <2>4. cash = a.cash
    BY <1>1, <1>5, <1>8 DEF SubOr, AddOr
  <2> QED BY <1>3, <2>3, <2>4
<1> QED BY <1>7, <1>8

\* The position of any fill, and the sign of its average.
LEMMA PositionOfFill ==
    ASSUME NEW a \in AccountType, NEW instr \in Instruments, NEW side \in Sides,
           NEW qty \in Raw, qty > 0, NEW price \in Raw, price > 0
    PROVE  LET signed == IF side \in BuySides THEN qty ELSE -qty
               new    == ApplyFill(a, instr, side, qty, price)
           IN  new.pos[instr] = IF a.pos[instr] = None
                                THEN [qty |-> signed, avg |-> price]
                                ELSE SignedFill(a.pos[instr], signed, price)
<1> DEFINE signed   == IF side \in BuySides THEN qty ELSE -qty
           cash     == IF side \in BuySides
                       THEN SubOr(a.cash, MulOr(price, qty, 0), a.cash)
                       ELSE AddOr(a.cash, MulOr(price, qty, 0), a.cash)
           position == IF a.pos[instr] = None
                       THEN [qty |-> signed, avg |-> price]
                       ELSE SignedFill(a.pos[instr], signed, price)
<1>1. SubOr(0, qty, qty) = -qty
  BY DecimalAssumption DEF SubOr, Fits, Raw
<1>2. ApplyFill(a, instr, side, qty, price) =
          [a EXCEPT !.cash = cash, !.pos[instr] = position]
  BY <1>1, Zenon DEF ApplyFill
<1>3. DOMAIN a.pos = Instruments
  BY DEF AccountType
<1> HIDE DEF position, cash
<1> QED BY <1>2, <1>3 DEF AccountType, position

LEMMA HeldAfterFill ==
    ASSUME NEW p \in Option(PositionType), NEW signed \in Raw, NEW price \in Raw,
           NEW new, new = (IF p = None THEN [qty |-> signed, avg |-> price]
                                       ELSE SignedFill(p, signed, price))
    PROVE  \/ Held(new) = Held(p) + signed
           \/ Held(new) = Held(p) /\ ~Fits(Held(p) + signed)
<1>1. signed \in Int
  BY RawInt
<1>2. CASE p = None
  <2>1. new \in PositionType /\ new.qty = signed
    BY <1>2 DEF PositionType
  <2> QED BY <1>1, <1>2, <2>1, NoPositionAssumption DEF Held
<1>3. CASE p # None
  <2>1. p \in PositionType
    BY <1>3 DEF Option
  <2>2. new \in PositionType
    BY <1>3, <2>1, SignedFillType
  <2>3. new.qty = AddOr(p.qty, signed, p.qty)
    BY <1>3 DEF SignedFill
  <2> QED BY <1>3, <2>2, <2>3, NoPositionAssumption DEF Held, AddOr
<1> QED BY <1>2, <1>3

LEMMA AverageAfterFill ==
    ASSUME NEW p \in PositionType, p.avg >= 0, NEW signed \in Raw,
           signed # -(RawMax + 1), NEW price \in Raw, price > 0
    PROVE  LET new == SignedFill(p, signed, price)
           IN  new.avg >= 0 \/ new.qty = -(RawMax + 1)
<1> DEFINE newQty   == AddOr(p.qty, signed, p.qty)
           prior    == MulOr(p.avg, AbsRaw(p.qty), 0)
           notional == AddOr(prior, MulOr(price, AbsRaw(signed), 0), prior)
<1> SUFFICES ASSUME newQty # -(RawMax + 1)
             PROVE  SignedFill(p, signed, price).avg >= 0
  BY DEF SignedFill
<1>1. /\ p.qty \in Raw /\ p.avg \in Nat /\ price \in Nat
      /\ p.qty \in Int /\ signed \in Int /\ RawMax \in Nat
  <2>1. p.qty \in Raw /\ p.avg \in Raw
    BY DEF PositionType
  <2>2. p.qty \in Int /\ p.avg \in Int /\ signed \in Int /\ price \in Int
    BY <2>1, RawInt
  <2> QED BY <2>1, <2>2, DecimalAssumption
<1>2. newQty \in Raw /\ newQty \in Int
  BY <1>1, AddOrRaw, RawInt
<1>3. CASE SameDirection(p, signed) /\ newQty # 0
  <2>1. p.qty # -(RawMax + 1)
    <3> SUFFICES ASSUME p.qty = -(RawMax + 1) PROVE FALSE
      OBVIOUS
    <3>1. signed < 0
      BY <1>1, <1>3 DEF SameDirection
    <3>2. ~Fits(p.qty + signed)
      BY <1>1, <3>1 DEF Fits
    <3> QED BY <3>2 DEF AddOr
  <2>2. \A x \in Raw : x # -(RawMax + 1) => AbsRaw(x) \in Nat /\ (x # 0 => AbsRaw(x) # 0)
    BY DecimalAssumption DEF Raw, AbsRaw, Abs, Fits
  <2>3. /\ AbsRaw(p.qty) \in Nat /\ AbsRaw(signed) \in Nat
        /\ AbsRaw(newQty) \in Nat \ {0}
    <3> HIDE DEF newQty
    <3> QED BY <1>1, <1>2, <1>3, <2>1, <2>2
  <2>4. prior \in Nat /\ MulOr(price, AbsRaw(signed), 0) \in Nat
    BY <1>1, <2>3, MulOrNat
  <2>5. notional \in Nat
    <3> HIDE DEF prior
    <3> QED BY <2>4 DEF AddOr
  <2>6. \A x \in Nat, d \in Nat \ {0} : ApproxDiv(x, d) >= 0
    <3> SUFFICES ASSUME NEW x \in Nat, NEW d \in Nat \ {0}
                 PROVE  ApproxDiv(x, d) >= 0
      OBVIOUS
    <3> DEFINE n == x * SCALE
    <3>1. n \in Nat /\ Abs(x) = x /\ Abs(d) = d
      BY DecimalAssumption DEF Abs
    <3>2. RoundDiv(n, d) \in Nat
      <4> HIDE DEF n
      <4> QED BY <3>1, RoundDivBetween
    <3>3. ApproxDiv(x, d) \in {0, RoundDiv(n, d)}
      BY <3>1 DEF ApproxDiv
    <3> QED BY <3>2, <3>3
  <2>7. ApproxDiv(notional, AbsRaw(newQty)) >= 0
    <3> HIDE DEF notional, newQty
    <3> QED BY <2>3, <2>5, <2>6
  <2>8. SignedFill(p, signed, price).avg = ApproxDiv(notional, AbsRaw(newQty))
    BY <1>3, Zenon DEF SignedFill, SameDirection
  <2> QED BY <2>7, <2>8
<1>4. CASE ~(SameDirection(p, signed) /\ newQty # 0)
  <2>1. SignedFill(p, signed, price).avg \in {p.avg, 0, price}
    BY <1>4 DEF SignedFill, SameDirection
  <2> QED BY <1>1, <2>1
<1> QED BY <1>3, <1>4

\* What a step of the process makes of the two accounts.
LEMMA StepFacts ==
    ASSUME TotalsInv, Next
    PROVE  \/ acct' = acct /\ exact' = exact
           \/ \E side \in Sides, qty \in Raw, price \in Raw, instr \in Instruments :
                  /\ qty > 0 /\ price > 0
                  /\ acct' = ApplyFill(acct, instr, side, qty, price)
                  /\ exact' = ExactFill(exact, side, qty, price)
BY TradeFacts DEF Next, NextDay

\* Of any number of fills of any amounts, at any width of the integer: each
\* moves cash and position by all of itself or not at all, and not at all only
\* where the field's own sum or product overflows.
THEOREM OverflowIsWhole == Spec => OverflowDropsWholeFills
<1> DEFINE AllOrNothing ==
        LET paid   == exact.cash - exact'.cash
            signed == exact'.qty - exact.qty
        IN  /\ \/ acct'.cash = acct.cash - paid
               \/ /\ acct'.cash = acct.cash
                  /\ \/ ~Fits(acct.cash - paid)
                     \/ ~Fits(SCALE * Abs(paid) + SCALE - 1)
            /\ \A x \in Instruments :
                   LET held == Held(acct.pos[x])
                   IN  \/ Held(acct'.pos[x]) = held + signed
                       \/ Held(acct'.pos[x]) = held /\ ~Fits(held + signed)
<1>1. TotalsInv /\ [Next]_vars => [AllOrNothing]_vars
  <2> SUFFICES ASSUME TotalsInv, Next PROVE AllOrNothing
    OBVIOUS
  <2>0. /\ acct \in AccountType /\ exact.cash \in Int /\ exact.qty \in Int
        /\ acct.cash \in Int
        /\ \A x \in Instruments : acct.pos[x] \in Option(PositionType)
    BY RawInt DEF TotalsInv, ExactType, AccountType
  <2>1. CASE acct' = acct /\ exact' = exact
    <3>1. \A x \in Instruments : Held(acct.pos[x]) \in Int
      BY <2>0, RawInt DEF Held, Option, PositionType
    <3>2. exact.cash - exact'.cash = 0 /\ exact'.qty - exact.qty = 0
      BY <2>0, <2>1
    <3> QED BY <2>0, <2>1, <3>1, <3>2
  <2>2. ASSUME NEW side \in Sides, NEW qty \in Raw, NEW price \in Raw,
               NEW instr \in Instruments, qty > 0, price > 0,
               acct' = ApplyFill(acct, instr, side, qty, price),
               exact' = ExactFill(exact, side, qty, price)
        PROVE  AllOrNothing
    <3> DEFINE quotient == DivTrunc(qty * price, SCALE)
               paid   == IF side \in BuySides THEN quotient ELSE -quotient
               signed == IF side \in BuySides THEN qty ELSE -qty
    <3>1. quotient \in Int
      <4>1. qty * price \in Int /\ SCALE \in Nat \ {0}
        BY RawInt, DecimalAssumption
      <4> QED BY <4>1, DivTruncBound
    <3>2. exact'.cash = exact.cash - paid /\ exact'.qty = exact.qty + signed
      BY <2>2 DEF ExactFill
    <3>3. signed \in Raw
      BY <2>2, DecimalAssumption DEF Raw
    <3>4. \/ acct'.cash = acct.cash - paid
          \/ /\ acct'.cash = acct.cash
             /\ ~Fits(acct.cash - paid) \/ ~Fits(SCALE * Abs(paid) + SCALE - 1)
      BY <2>0, <2>2, CashOfFill
    <3>5. acct'.pos[instr] = IF acct.pos[instr] = None
                             THEN [qty |-> signed, avg |-> price]
                             ELSE SignedFill(acct.pos[instr], signed, price)
      BY <2>0, <2>2, PositionOfFill
    <3>6. paid \in Int /\ signed \in Int
      BY <3>1, <3>3, RawInt
    <3> HIDE DEF paid, signed
    <3>7. \/ Held(acct'.pos[instr]) = Held(acct.pos[instr]) + signed
          \/ /\ Held(acct'.pos[instr]) = Held(acct.pos[instr])
             /\ ~Fits(Held(acct.pos[instr]) + signed)
      BY <2>0, <3>3, <3>5, HeldAfterFill
    <3>8. exact.cash - exact'.cash = paid /\ exact'.qty - exact.qty = signed
      BY <2>0, <3>2, <3>6
    <3> QED BY <3>4, <3>7, <3>8, LongRunAssumption
  <2> QED BY <2>1, <2>2, StepFacts
<1> QED BY <1>1, TotalsInit, TotalsNext, PTL DEF Spec, OverflowDropsWholeFills

\* However much overflows, and at any width and scale: an average price turns
\* negative only in a position of the least integer.
THEOREM AverageStaysPositive == Spec => AverageKeepsSign
<1> DEFINE Kept == \A x \in Instruments :
               Average(acct.pos[x]) >= 0 =>
                   \/ Average(acct'.pos[x]) >= 0
                   \/ Held(acct'.pos[x]) = -(RawMax + 1)
<1>1. TotalsInv /\ [Next]_vars => [Kept]_vars
  <2> SUFFICES ASSUME TotalsInv, Next PROVE Kept
    OBVIOUS
  <2>1. CASE acct' = acct
    BY <2>1
  <2>2. ASSUME NEW side \in Sides, NEW qty \in Raw, NEW price \in Raw,
               NEW instr \in Instruments, qty > 0, price > 0,
               acct' = ApplyFill(acct, instr, side, qty, price)
        PROVE  Kept
    <3> DEFINE signed == IF side \in BuySides THEN qty ELSE -qty
               old == acct.pos[instr]
               new == acct'.pos[instr]
    <3> SUFFICES ASSUME Average(old) >= 0
                 PROVE  Average(new) >= 0 \/ Held(new) = -(RawMax + 1)
      BY LongRunAssumption
    <3>1. acct \in AccountType /\ old \in Option(PositionType)
      BY DEF TotalsInv, AccountType
    <3>2. signed \in Raw /\ signed # -(RawMax + 1) /\ price >= 0
      BY <2>2, DecimalAssumption DEF Raw
    <3>3. new = IF old = None THEN [qty |-> signed, avg |-> price]
                              ELSE SignedFill(old, signed, price)
      BY <2>2, <3>1, PositionOfFill
    <3> HIDE DEF signed, old, new
    <3>4. CASE old = None
      <4>1. new \in PositionType /\ new.avg = price
        BY <3>2, <3>3, <3>4 DEF PositionType
      <4> QED BY <3>2, <4>1, NoPositionAssumption DEF Average
    <3>5. CASE old # None
      <4>1. old \in PositionType /\ old.avg >= 0
        BY <3>1, <3>5 DEF Option, Average
      <4>2. new = SignedFill(old, signed, price) /\ new \in PositionType
        BY <3>2, <3>3, <3>5, <4>1, SignedFillType
      <4>3. new # None
        BY <4>2, NoPositionAssumption
      <4>4. new.avg >= 0 \/ new.qty = -(RawMax + 1)
        BY <2>2, <3>2, <4>1, <4>2, AverageAfterFill
      <4> QED BY <4>3, <4>4 DEF Average, Held
    <3> QED BY <3>4, <3>5
  <2> QED BY <2>1, <2>2, StepFacts
<1> QED BY <1>1, TotalsInit, TotalsNext, PTL DEF Spec, AverageKeepsSign

-----------------------------------------------------------------------------
(***************************************************************************)
(* The texts of its amounts.                                               *)
(***************************************************************************)

LEMMA RespellingsAreTexts ==
    ASSUME NEW t \in Texts
    PROVE  Respellings(t) \subseteq Texts
<1> DEFINE D  == 0..9
           R  == [neg : BOOLEAN, int : Seq(D), dot : BOOLEAN, frac : Seq(D), rest : BOOLEAN]
<1>1. t \in R /\ (t.dot \/ t.frac = << >>)
  BY DEF Texts
<1>2. t.int \in Seq(D) /\ t.frac \in Seq(D)
  BY <1>1
<1>3. << 0 >> \o t.int \in Seq(D) /\ << >> \in Seq(D)
  BY <1>2
<1>4. \A more \in {<< 0 >>, <<5>>, <<0, 0>>} : t.frac \o more \in Seq(D)
  <2>1. << 0 >> \in Seq(D) /\ <<5>> \in Seq(D) /\ <<0, 0>> \in Seq(D)
    OBVIOUS
  <2> HIDE DEF D
  <2>2. \A more \in Seq(D) : t.frac \o more \in Seq(D)
    BY <1>2
  <2> QED BY <2>1, <2>2
<1>5. \A y \in Texts : y \in R /\ (y.dot \/ y.frac = << >>)
  BY DEF Texts
<1>6. \A y \in R : (y.dot \/ y.frac = << >>) => y \in Texts
  BY DEF Texts
<1> HIDE DEF D
<1>7. [t EXCEPT !.neg = ~@] \in Texts
  BY <1>1, <1>6
<1>8. [t EXCEPT !.int = << 0 >> \o @] \in Texts /\ [t EXCEPT !.int = << >>] \in Texts
  BY <1>1, <1>3, <1>6
<1>9. [t EXCEPT !.rest = TRUE] \in Texts
  BY <1>1, <1>6
<1>10. ASSUME NEW f \in Seq(D) PROVE [t EXCEPT !.dot = TRUE, !.frac = f] \in Texts
  <2> DEFINE u == [t EXCEPT !.dot = TRUE]
  <2>1. u \in R /\ u.dot
    BY <1>1
  <2>2. [t EXCEPT !.dot = TRUE, !.frac = f] = [u EXCEPT !.frac = f]
    OBVIOUS
  <2> HIDE DEF u
  <2>3. [u EXCEPT !.frac = f] \in R /\ [u EXCEPT !.frac = f].dot
    BY <2>1
  <2> QED BY <1>6, <2>2, <2>3
<1>11. /\ [t EXCEPT !.dot = TRUE, !.frac = << >>] \in Texts
       /\ \A more \in {<< 0 >>, <<5>>, <<0, 0>>} :
              [t EXCEPT !.dot = TRUE, !.frac = @ \o more] \in Texts
  BY <1>3, <1>4, <1>10
<1> QED BY <1>7, <1>8, <1>9, <1>11 DEF Respellings

\* However many fills there are, and of whatever amounts: every amount of the
\* account is read back from its text unchanged, save the least integer; and
\* a text that is accepted is its number's own up to trailing zeros.
THEOREM AmountTextsAreExact == Spec => []DecimalTextExact
<1>1. TotalsInv => DecimalTextExact
  <2> SUFFICES ASSUME TotalsInv, NEW x \in Amounts
               PROVE  /\ Parse(ToDecimalString(x)) = IF Fits(Abs(x)) THEN Accepted(x)
                                                     ELSE Refused("overflow")
                      /\ \A t \in Respellings(ToDecimalString(x)) :
                             Parse(t).error = "none" =>
                                 ToDecimalString(Parse(t).raw) =
                                     [t EXCEPT !.frac = TrimZeros(@),
                                               !.dot = TrimZeros(t.frac) # << >>]
    BY DEF DecimalTextExact
  <2>1. acct.cash \in Raw /\ \A p \in Positions : p \in PositionType
    BY DEF TotalsInv, AccountType, Option, Positions
  <2>2. x \in Raw
    BY <2>1 DEF Amounts, PositionType
  <2>3. x \in Int
    BY <2>2, RawInt
  <2>4. Respellings(ToDecimalString(x)) \subseteq Texts
    BY <2>3, TextOfAmount, RespellingsAreTexts
  <2>5. ASSUME NEW t \in Respellings(ToDecimalString(x)), Parse(t).error = "none"
        PROVE  ToDecimalString(Parse(t).raw) =
                   [t EXCEPT !.frac = TrimZeros(@), !.dot = TrimZeros(t.frac) # << >>]
    BY <2>4, <2>5, AcceptedTextIsExact
  <2> QED BY <2>3, <2>5, AmountReadsBack
<1> QED BY <1>1, TotalsInit, TotalsNext, PTL DEF Spec

=============================================================================
