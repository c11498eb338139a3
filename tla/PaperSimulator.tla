--------------------------- MODULE PaperSimulator ---------------------------
(***************************************************************************)
(* providers.rs: the deterministic quote source and fill rule.  The        *)
(* synthetic price is a hash of the instrument, so it is one constant per  *)
(* instrument, the same before and after a restart.                        *)
(***************************************************************************)
EXTENDS TradeIntent

CONSTANTS Mid,         \* the synthetic mid price of each instrument
          HalfSpread   \* half_spread

ASSUME QuoteAssumption ==
    /\ Mid \in [Instruments -> Raw]
    /\ \A x \in Instruments : HalfSpread < Mid[x]
    /\ HalfSpread \in Raw /\ HalfSpread >= 0

Ask(instr) == AddOr(Mid[instr], HalfSpread, Mid[instr])
Bid(instr) == SubOr(Mid[instr], HalfSpread, Mid[instr])

\* The side of the quote an order trades against.
Touch(o) == IF o.side \in BuySides THEN Ask(o.instr) ELSE Bid(o.instr)

\* The two comparisons with the limit are swapped.  (Bug...: a wrong variant
\* of the definition that follows it, which a property must catch.)
BugSimulateFill(o) ==
    IF \/ o.otype \in {"market", "market-on-close"}
       \/ /\ o.otype \in {"limit", "limit-on-close"}
          /\ o.limit # None
          /\ IF o.side \in BuySides THEN o.limit <= Touch(o)
                                    ELSE o.limit >= Touch(o)
    THEN Touch(o)
    ELSE None

\* simulate_fill: the fill price, or None when the order stays open.
SimulateFill(o) ==
    IF \/ o.otype \in {"market", "market-on-close"}
       \/ /\ o.otype \in {"limit", "limit-on-close"}
          /\ o.limit # None
          /\ IF o.side \in BuySides THEN o.limit >= Touch(o)
                                    ELSE o.limit <= Touch(o)
    THEN Touch(o)
    ELSE None

\* The estimate is made at the other side of the quote.
BugEstimatedPrice(o) ==
    IF o.limit # None THEN o.limit
    ELSE IF o.side \in BuySides THEN Bid(o.instr) ELSE Ask(o.instr)

\* The price the buying-power check is made at: the order's limit price
\* whenever it has one, whatever its type.
EstimatedPrice(o) == IF o.limit # None THEN o.limit ELSE Touch(o)

EstimatedNotional(o) == MulOr(o.qty, EstimatedPrice(o), 0)

\* Order::apply_fill
OrderWithFill(o, qty, price) ==
    LET prior  == MulOr(IF o.avg = None THEN 0 ELSE o.avg, o.filled, 0)
        filled == AddOr(o.filled, qty, o.filled)
        total  == AddOr(prior, MulOr(price, qty, 0), prior)
    IN  [o EXCEPT !.avg    = IF filled = 0 THEN @ ELSE ApproxDiv(total, filled),
                  !.filled = filled,
                  !.fills  = Append(@, [qty |-> qty, price |-> price]),
                  !.state  = IF filled >= o.qty THEN "filled"
                                                ELSE "partially-filled"]
=============================================================================
