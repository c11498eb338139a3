----------------------------- MODULE MCLongRun -----------------------------
(***************************************************************************)
(* A day of 2 hours of 3 minutes of 2 seconds on the real calendar, one    *)
(* decimal place, and an integer that holds two sales of a hundred units   *)
(* but not a third.                                                        *)
(***************************************************************************)
EXTENDS LongRun

Date(y, m, d) == [y |-> y, m |-> m, d |-> d]

\* The 400-year cycle from two days before the year 0, by centuries; the days
\* around 1970, and those around the year 10000.
MCSpans ==
    {[first |-> -719530, last |-> -683002, date |-> Date(-1, 12, 30)],
     [first |-> -683003, last |-> -646478, date |-> Date(100, 1, 1)],
     [first |-> -646479, last |-> -609954, date |-> Date(200, 1, 1)],
     [first |-> -609955, last |-> -573430, date |-> Date(300, 1, 1)],
     [first |-> -2, last |-> 2, date |-> Date(1969, 12, 30)],
     [first |-> 2932895, last |-> 2932900, date |-> Date(9999, 12, 30)]}

Text(int, frac) ==
    [neg |-> FALSE, int |-> int, dot |-> frac # << >>, frac |-> frac, rest |-> FALSE]

\* 0.1, 1, 2.50 and 100 units; 0, 01 and 1.25 units, which are refused.
MCQuantities ==
    {Text(<<0>>, <<1>>), Text(<<1>>, << >>), Text(<<2>>, <<5>>),
     Text(<<1, 0, 0>>, << >>), Text(<<0>>, << >>), Text(<<0, 1>>, << >>),
     Text(<<1>>, <<2, 5>>)}

\* 0.5, 3 and 19.9; and -3, which is not positive.
MCPrices ==
    {Text(<<0>>, <<5>>), Text(<<3>>, << >>), Text(<<1, 9>>, <<9>>),
     [Text(<<3>>, << >>) EXCEPT !.neg = TRUE]}

MCTradingDays == {2}
=============================================================================
