------------------------------ MODULE LongRun ------------------------------
(***************************************************************************)
(* One process kept up for long: its clock goes from day to day and its    *)
(* account takes fill after fill, of amounts that reach the process as     *)
(* texts and of any size.  Next to the program's values stand the true     *)
(* ones: the date, counted on from midnight to midnight, and the account   *)
(* in integers that never overflow.                                        *)
(***************************************************************************)
EXTENDS Account, DecimalText, Timestamp

CONSTANTS Spans,          \* the stretches of days the clock goes through
          StartingUnits,  \* DEFAULT_STARTING_CASH, in whole units
          Quantities,     \* the texts of the quantities that fill
          Prices,         \* the texts of the prices they fill at
          TradingDays,    \* bound: the days on which there are fills
          MaxFills        \* bound on the number of fills

RealDate(date) ==
    /\ date \in [y : Int, m : 1..12, d : 1..31]
    /\ date.d <= LastDayOfMonth(date.y, date.m)

\* Days from the first of March to the first of each month, and the number of
\* a date by the rule of the calendar: 365 days a year, one more every four
\* years but not every hundred, save every four hundred.  Day 0 is 1970-01-01.
DaysFromMarch == <<306, 337, 0, 31, 61, 92, 122, 153, 184, 214, 245, 275>>
DayNumber(date) ==
    LET year == IF date.m <= 2 THEN date.y - 1 ELSE date.y
    IN  365 * year + year \div 4 - year \div 100 + year \div 400
            + DaysFromMarch[date.m] + date.d - 719469

\* A stretch starts on a day whose date is given; the fills are of one
\* instrument.
ASSUME LongRunAssumption ==
    /\ \A span \in Spans :
           /\ span.first \in Int /\ span.last \in Int
           /\ RealDate(span.date) /\ DayNumber(span.date) = span.first
    /\ Quantities \cup Prices \subseteq Texts
    /\ \A x, y \in Instruments : x = y
    /\ StartingUnits \in Nat /\ FromI64(StartingUnits) \in Raw
    /\ MaxFills \in Nat

VARIABLES
    span,    \* the stretch of days this run goes through
    clock,   \* the UtcTimestamp of the last midnight
    acct,    \* the AccountSnapshot
    date,    \* history: the date of that midnight, counted day by day
    exact    \* history: the account without the limits of the integer

vars == <<span, clock, acct, date, exact>>

\* cash and qty in raw units; the lowest and highest price the position was
\* entered at since it last was flat or changed its sign; whether every
\* quantity was a whole number of units; whether every product and sum so
\* far had a place in the integer.
NewExact ==
    [cash |-> FromI64(StartingUnits), qty |-> 0, low |-> 0, high |-> 0,
     whole |-> TRUE, inRange |-> TRUE, fills |-> 0]

Init ==
    /\ span \in Spans
    /\ clock = FromUnix(span.first * SecondsPerDay, 0)
    /\ date = span.date
    /\ acct = NewAccount(FromI64(StartingUnits))
    /\ exact = NewExact

NextDate(d) ==
    IF d.d < LastDayOfMonth(d.y, d.m) THEN [d EXCEPT !.d = @ + 1]
    ELSE IF d.m < 12 THEN [d EXCEPT !.d = 1, !.m = @ + 1]
    ELSE [y |-> d.y + 1, m |-> 1, d |-> 1]

\* The clock reaches the next midnight.
NextDay ==
    /\ clock.secs < span.last * SecondsPerDay
    /\ clock' = AddDays(clock, 1)
    /\ date' = NextDate(date)
    /\ UNCHANGED <<span, acct, exact>>

\* What a fill does to the account when nothing can overflow.
ExactFill(e, side, qty, price) ==
    LET signed == IF side \in BuySides THEN qty ELSE -qty
        paid   == IF side \in BuySides THEN DivTrunc(qty * price, SCALE)
                                       ELSE -DivTrunc(qty * price, SCALE)
        newQty == e.qty + signed
        enters == e.qty = 0 \/ (e.qty < 0) # (newQty < 0)
        adds   == (e.qty < 0) = (signed < 0)
    IN  [cash  |-> e.cash - paid,
         qty   |-> newQty,
         low   |-> IF newQty = 0 THEN 0
                   ELSE IF enters \/ (adds /\ price < e.low) THEN price ELSE e.low,
         high  |-> IF newQty = 0 THEN 0
                   ELSE IF enters \/ (adds /\ price > e.high) THEN price ELSE e.high,
         whole |-> e.whole /\ qty % SCALE = 0,
         inRange |-> /\ e.inRange
                     /\ Fits(qty * price) /\ Fits(e.high * Abs(e.qty))
                     /\ Fits(Abs(newQty)) /\ Fits(e.cash - paid),
         fills |-> e.fills + 1]

\* AccountSnapshot::apply_fill, for amounts that parse and are positive.
Trade(side, q, p) ==
    /\ DayOf(clock) \in TradingDays
    /\ exact.fills < MaxFills
    /\ Parse(q).error = "none" /\ Parse(q).raw > 0
    /\ Parse(p).error = "none" /\ Parse(p).raw > 0
    /\ \E instr \in Instruments :
           acct' = ApplyFill(acct, instr, side, Parse(q).raw, Parse(p).raw)
    /\ exact' = ExactFill(exact, side, Parse(q).raw, Parse(p).raw)
    /\ UNCHANGED <<span, clock, date>>

Next ==
    \/ NextDay
    \/ \E side \in Sides, q \in Quantities, p \in Prices : Trade(side, q, p)

Spec == Init /\ [][Next]_vars

-----------------------------------------------------------------------------

\* The table of month lengths that parse_rfc3339 accepts dates by and the
\* closed formulas of days_from_civil and civil_from_days count the same
\* days: leap years, centuries and the year before the era included.
DateAgrees ==
    /\ CivilFromDays(DayOf(clock)) = date
    /\ DaysFromCivil(date.y, date.m, date.d) = DayOf(clock)

\* Instants of the day of the clock: its first second, one in between, and
\* the last instant before midnight.
Instants ==
    {clock, FromUnix(clock.secs + SecondsPerDay \div 2, NanosPerSecond \div 10),
     FromUnix(clock.secs + SecondsPerDay - 1, NanosPerSecond - 1)}

\* A timestamp written into an audit record is read back as the same
\* instant, fractions and instants before 1970 included, exactly as long as
\* its year has four digits.
InstantReadsBack ==
    \A t \in Instants :
        IF date.y \in 0..MaxYear
        THEN ParseRfc3339(ToRfc3339(t)) = [error |-> "none", at |-> t]
        ELSE ParseRfc3339(ToRfc3339(t)).error # "none"

\* Texts next to the one of midnight: impossible and neighbouring dates and
\* times, fractions too long or padded, other designators.
Misspellings(t) ==
    {[t EXCEPT !.day = d] : d \in {0, t.day + 1, t.day + 3}}
    \cup {[t EXCEPT !.month = m] : m \in {0, t.month + 1}}
    \cup {[t EXCEPT !.hour = HoursPerDay], [t EXCEPT !.minute = MinutesPerHour],
          [t EXCEPT !.second = SecondsPerMinute], [t EXCEPT !.rest = TRUE],
          [t EXCEPT !.dot = TRUE], [t EXCEPT !.dot = TRUE, !.frac = <<5, 0>>],
          [t EXCEPT !.dot = TRUE, !.frac = Padded(1, FracDigits + 1)]}
    \cup {[t EXCEPT !.zone = z] : z \in Zones}
    \cup {[t EXCEPT !.flaw = f] : f \in Flaws}

\* No text is taken for an instant other than the one it spells: a date that
\* does not exist, an hour 24 or an offset is refused, never carried over
\* into the next day.
OnlyRealDates ==
    \A t \in Misspellings(ToRfc3339(clock)) :
        date.y \in 0..MaxYear /\ ParseRfc3339(t).error = "none" =>
            /\ t.zone \in {"Z", "zero-offset"}
            /\ ToRfc3339(ParseRfc3339(t).at) =
                   [t EXCEPT !.zone = "Z", !.frac = TrimZeros(@),
                             !.dot = TrimZeros(t.frac) # << >>]

Positions == {acct.pos[x] : x \in Instruments} \ {None}

\* The amounts of the account, which get-account-snapshot writes as texts;
\* looked at on the days on which they change.
Amounts ==
    IF DayOf(clock) \in TradingDays
    THEN {acct.cash} \cup UNION {{p.qty, p.avg} : p \in Positions}
    ELSE {}

Respellings(t) ==
    {[t EXCEPT !.neg = ~@], [t EXCEPT !.int = <<0>> \o @],
     [t EXCEPT !.int = << >>], [t EXCEPT !.rest = TRUE],
     [t EXCEPT !.dot = TRUE, !.frac = << >>]}
    \cup {[t EXCEPT !.dot = TRUE, !.frac = @ \o more] :
              more \in {<<0>>, <<5>>, <<0, 0>>}}

\* Every amount an account reaches is read back from its text unchanged,
\* save the least integer, whose text the parser refuses; and a text that is
\* accepted is the number's own text up to trailing zeros, so nothing is
\* rounded on the way in.
DecimalTextExact ==
    \A x \in Amounts :
        /\ Parse(ToDecimalString(x)) = IF Fits(Abs(x)) THEN Accepted(x)
                                       ELSE Refused("overflow")
        /\ \A t \in Respellings(ToDecimalString(x)) :
               Parse(t).error = "none" =>
                   ToDecimalString(Parse(t).raw) =
                       [t EXCEPT !.frac = TrimZeros(@),
                                 !.dot = TrimZeros(t.frac) # << >>]

\* As long as every product and sum has a place in the integer, cash and
\* position are what the fills add up to: no default of an unwrap_or has
\* been taken, and none has separated the two.
TotalsExact ==
    exact.inRange =>
        /\ acct.cash = exact.cash
        /\ \A p \in Positions : p.qty = exact.qty

Held(p) == IF p = None THEN 0 ELSE p.qty
Average(p) == IF p = None THEN 0 ELSE p.avg

\* Overflow never wraps and never takes a part of a fill: cash and position
\* each move by exactly the fill or stay where they are, and a field stays
\* only if its sum, or for cash the product, has no place in the integer.
\* Cash and position can part ways by whole fills and by nothing else.
OverflowDropsWholeFills ==
    [][LET paid   == exact.cash - exact'.cash
           signed == exact'.qty - exact.qty
       IN  /\ \/ acct'.cash = acct.cash - paid
              \/ /\ acct'.cash = acct.cash
                 /\ \/ ~Fits(acct.cash - paid)
                    \/ ~Fits(SCALE * Abs(paid) + SCALE - 1)
           /\ \A x \in Instruments :
                  LET held == Held(acct.pos[x])
                  IN  \/ Held(acct'.pos[x]) = held + signed
                      \/ Held(acct'.pos[x]) = held /\ ~Fits(held + signed)]_vars

\* An average price becomes negative in no way but one, whatever overflows:
\* by a sale that leaves the position at the least integer, of which abs is
\* negative in a release build.
AverageKeepsSign ==
    [][\A x \in Instruments :
          Average(acct.pos[x]) >= 0 =>
              \/ Average(acct'.pos[x]) >= 0
              \/ Held(acct'.pos[x]) = -(RawMax + 1)]_vars

\* The average price of a position never exceeds the highest price it was
\* entered at, over additions, reductions and changes of sign; nor is it
\* below the lowest one, as long as quantities are whole.  (With fractions
\* of a unit every truncated notional takes it further down, to zero for
\* the smallest quantities.)
AverageWithinFills ==
    exact.inRange =>
        \A p \in Positions : /\ p.avg <= exact.high
                             /\ exact.whole => p.avg >= exact.low
=============================================================================
