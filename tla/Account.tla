------------------------------ MODULE Account ------------------------------
(***************************************************************************)
(* account.rs: the in-memory paper account.  A position is None until the  *)
(* first fill of its instrument, and stays in the list once it is flat.    *)
(***************************************************************************)
EXTENDS TradeIntent

PositionType == [qty : Raw, avg : Raw]
ASSUME NoPositionAssumption == None \notin PositionType

AccountType ==
    [cash : Raw, reserved : Raw, pos : [Instruments -> Option(PositionType)]]

\* AccountSnapshot::new
NewAccount(cash) ==
    [cash |-> cash, reserved |-> 0, pos |-> [x \in Instruments |-> None]]

\* buying_power: cash not reserved, never below zero.
BuyingPower(a) ==
    IF Fits(a.cash - a.reserved) /\ a.cash >= a.reserved
    THEN a.cash - a.reserved
    ELSE 0

\* A position that turns over keeps its old average price.  (Bug...: a wrong
\* variant of the definition that follows it, which a property must catch.)
BugSignedFill(p, qty, price) ==
    LET sameDirection == p.qty = 0 \/ (p.qty < 0) = (qty < 0)
        newQty   == AddOr(p.qty, qty, p.qty)
        notional == AddOr(MulOr(p.avg, AbsRaw(p.qty), 0),
                          MulOr(price, AbsRaw(qty), 0), 0)
    IN  [qty |-> newQty,
         avg |-> IF newQty = 0 THEN 0
                 ELSE IF sameDirection THEN ApproxDiv(notional, AbsRaw(newQty))
                 ELSE p.avg]

\* What is held counts with its sign.
BugSignedNotional(p, qty, price) ==
    LET newQty == AddOr(p.qty, qty, p.qty)
        prior  == MulOr(p.avg, p.qty, 0)
    IN  [qty |-> newQty,
         avg |-> IF newQty = 0 THEN 0
                 ELSE IF p.qty = 0 \/ (p.qty < 0) = (qty < 0)
                 THEN ApproxDiv(AddOr(prior, MulOr(price, AbsRaw(qty), 0), prior),
                                AbsRaw(newQty))
                 ELSE IF (p.qty < 0) # (newQty < 0) THEN price
                 ELSE p.avg]

\* apply_signed_fill_to_position
SignedFill(p, qty, price) ==
    LET sameDirection == p.qty = 0 \/ (p.qty < 0) = (qty < 0)
        newQty   == AddOr(p.qty, qty, p.qty)
        prior    == MulOr(p.avg, AbsRaw(p.qty), 0)
        notional == AddOr(prior, MulOr(price, AbsRaw(qty), 0), prior)
        newAvg   == IF sameDirection
                    THEN IF newQty = 0 THEN p.avg
                                       ELSE ApproxDiv(notional, AbsRaw(newQty))
                    ELSE IF newQty = 0 THEN 0
                    ELSE IF (p.qty < 0) # (newQty < 0) THEN price
                    ELSE p.avg
    IN  [qty |-> newQty, avg |-> newAvg]

\* AccountSnapshot::apply_fill
ApplyFill(a, instr, side, qty, price) ==
    LET notional == MulOr(price, qty, 0)
        signed   == IF side \in BuySides THEN qty ELSE SubOr(0, qty, qty)
        cash     == IF side \in BuySides THEN SubOr(a.cash, notional, a.cash)
                                         ELSE AddOr(a.cash, notional, a.cash)
        position == IF a.pos[instr] = None
                    THEN [qty |-> signed, avg |-> price]
                    ELSE SignedFill(a.pos[instr], signed, price)
    IN  [a EXCEPT !.cash = cash, !.pos[instr] = position]
=============================================================================
