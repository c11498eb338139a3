---------------------- MODULE ExecutionAccountProofs -----------------------
(***************************************************************************)
(* What the account of Execution goes through.  For any processes, crashes *)
(* and failures: a fill never costs more than its estimate, and cash never *)
(* goes below zero.  For one process alone on its database and a store     *)
(* that does not fail: between calls the account is what its recorded      *)
(* orders make of it, and the steps of a call implement AtomicSubmission.  *)
(***************************************************************************)
EXTENDS ExecutionProofs, ExecutionRefinement

-----------------------------------------------------------------------------
(* Estimates and cash.                                                     *)

\* Both sides of a quote are positive prices.
LEMMA TouchPositive ==
    ASSUME NEW o \in OrderType
    PROVE  Touch(o) > 0
<1>1. o.instr \in Instruments
  BY DEF OrderType
<1>2. /\ Mid[o.instr] \in Int /\ HalfSpread \in Int
      /\ HalfSpread >= 0 /\ HalfSpread < Mid[o.instr]
  BY <1>1, QuoteAssumption, RawInt
<1> QED BY <1>2 DEF Touch, Ask, Bid, AddOr, SubOr

\* A buy never fills above the price it was estimated at.
LEMMA FillBelowEstimate ==
    ASSUME NEW o \in OrderType, SoundEstimate(o), SimulateFill(o) # None,
           o.side \in BuySides
    PROVE  SimulateFill(o) <= EstimatedPrice(o)
<1>1. SimulateFill(o) = Touch(o) /\ Touch(o) \in Int
  BY TouchType, RawInt DEF SimulateFill
<1>2. CASE o.limit = None
  BY <1>1, <1>2 DEF EstimatedPrice
<1>3. CASE o.limit # None
  <2>1. o.otype \notin {"market", "market-on-close"}
    BY <1>3 DEF SoundEstimate
  <2>2. o.limit >= Touch(o)
    BY <2>1 DEF SimulateFill
  <2> QED BY <1>1, <1>3, <2>2 DEF EstimatedPrice
<1> QED BY <1>2, <1>3

\* What a buy costs is a natural no greater than its estimate.
LEMMA CostWithinEstimate ==
    ASSUME NEW o \in OrderType, SoundEstimate(o), o.qty > 0,
           SimulateFill(o) # None, o.side \in BuySides
    PROVE  /\ MulOr(SimulateFill(o), o.qty, 0) <= EstimatedNotional(o)
           /\ DivTrunc(o.qty * SimulateFill(o), SCALE) <= EstimatedNotional(o)
<1> DEFINE p == SimulateFill(o)
           e == EstimatedPrice(o)
           q == o.qty
           cost == q * p
           bound == q * e
<1>1. p = Touch(o) /\ p \in Int /\ p > 0
  BY TouchType, TouchPositive, RawInt DEF SimulateFill
<1>2. e \in Int /\ p <= e
  <2>1. e \in Raw
    BY TouchType DEF EstimatedPrice, OrderType, Option
  <2> QED BY <2>1, FillBelowEstimate, RawInt
<1>3. q \in Nat /\ p \in Nat /\ e \in Nat
  <2>1. q \in Int
    BY RawInt DEF OrderType
  <2> QED BY <1>1, <1>2, <2>1
<1>4. Fits(bound)
  BY DEF SoundEstimate
<1>5. EstimatedNotional(o) = MulOr(q, e, 0)
  BY DEF EstimatedNotional
<1> HIDE DEF p, q, e
<1>6. cost \in Nat /\ bound \in Nat /\ cost <= bound
  BY <1>2, <1>3, MulMonotone
<1>7. p * q = cost
  BY <1>3
<1>8. MulOr(q, e, 0) = bound \div SCALE
  BY <1>3, <1>4, MulOrNat
<1> HIDE DEF cost, bound
<1>9. Fits(cost)
  BY <1>4, <1>6, DecimalAssumption DEF Fits
<1>10. cost \div SCALE <= bound \div SCALE
  BY <1>6, DivMonotone, DecimalAssumption
<1>11. MulOr(p, q, 0) = cost \div SCALE
  BY <1>3, <1>7, <1>9, MulOrNat
<1>12. DivTrunc(cost, SCALE) = cost \div SCALE
  BY <1>6 DEF DivTrunc
<1> QED BY <1>5, <1>8, <1>10, <1>11, <1>12 DEF cost, p, q

\* The order an accepted intent becomes is as sound as the intent, and no
\* later step changes what its estimate depends on.
LEMMA SameTerms ==
    ASSUME NEW o \in OrderType, NEW p \in OrderType,
           p.instr = o.instr, p.side = o.side, p.otype = o.otype,
           p.qty = o.qty, p.limit = o.limit
    PROVE  /\ SoundEstimate(p) <=> SoundEstimate(o)
           /\ SimulateFill(p) = SimulateFill(o)
           /\ EstimatedPrice(p) = EstimatedPrice(o)
           /\ EstimatedNotional(p) = EstimatedNotional(o)
<1>1. Touch(p) = Touch(o)
  BY DEF Touch
<1>2. EstimatedPrice(p) = EstimatedPrice(o)
  BY <1>1 DEF EstimatedPrice
<1> QED BY <1>1, <1>2 DEF SoundEstimate, SimulateFill, EstimatedNotional

LEMMA AcceptEstimate ==
    ASSUME EstimatesSound, TypeInv, EstimateInv, NEW s \in Servers, Accept(s)
    PROVE  EstimateInv'
<1> DEFINE i == call[s].intent
           o == NewOrder(i)
<1>1. /\ pc' = [pc EXCEPT ![s] = "reserve"] /\ pc \in [Servers -> Steps \cup {"idle", "down"}]
      /\ call \in [Servers -> CallType] /\ i \in Intents
      /\ i.qty \in Raw /\ IsAllowed(GateOutcome(i, call[s].bundle, call[s].now))
  BY ExecutionAssumption DEF Accept, At, TypeInv, TypeOK, Steps, CallType,
     Option, IntentType
<1>2. /\ call'[s].order = o /\ call'[s].estimate = EstimatedNotional(o)
      /\ \A t \in Servers \ {s} : call'[t] = call[t] /\ pc'[t] = pc[t]
      /\ pc'[s] = "reserve"
  BY <1>1 DEF Accept, CallType
<1>3. o.qty > 0 /\ SoundEstimate(o)
  BY <1>1, GatePositive, RawInt DEF EstimatesSound, NewOrder
<1> HIDE DEF o
<1> QED BY <1>2, <1>3 DEF EstimateInv

\* ReserveRisk gives the order its next state; FillOrder fills it.
LEMMA FillOrderEstimate ==
    ASSUME TypeInv, EstimateInv, NEW s \in Servers, FillOrder(s)
    PROVE  EstimateInv'
<1> DEFINE o == call[s].order
           p == SimulateFill(o)
           f == OrderWithFill(o, o.qty, p)
           fill == [qty |-> o.qty, price |-> p]
<1>1. /\ pc[s] = "fill" /\ pc'[s] = "release" /\ call[s] \in CallType
      /\ o \in OrderType /\ o.fills = << >> /\ p # None
      /\ call \in [Servers -> CallType]
      /\ \A t \in Servers \ {s} : call'[t] = call[t] /\ pc'[t] = pc[t]
  BY DEF FillOrder, At, TypeInv, TypeOK, CallWellFormed, StepNeeds
<1>2. call'[s].order = f /\ call'[s].estimate = call[s].estimate
  BY <1>1 DEF FillOrder, CallType
<1>3. p \in Raw /\ o.qty \in Raw
  BY <1>1, SimulateFillType DEF Option, OrderType
<1>4. f \in OrderType /\ f.fills = Append(o.fills, fill)
  BY <1>1, <1>3, OrderWithFillType
<1>5. /\ f.instr = o.instr /\ f.side = o.side /\ f.otype = o.otype
      /\ f.qty = o.qty /\ f.limit = o.limit
  BY <1>1 DEF OrderWithFill, OrderType
<1>6. /\ SoundEstimate(o) /\ o.qty > 0 /\ call[s].estimate = EstimatedNotional(o)
  BY <1>1 DEF EstimateInv
<1> HIDE DEF f, o
<1>7. /\ SoundEstimate(f) /\ SimulateFill(f) = p
      /\ EstimatedNotional(f) = EstimatedNotional(o)
  BY <1>1, <1>4, <1>5, <1>6, SameTerms
<1>8. f.fills = << fill >>
  BY <1>1, <1>4
<1> QED BY <1>1, <1>2, <1>5, <1>6, <1>7, <1>8 DEF EstimateInv

LEMMA ReserveRiskEstimate ==
    ASSUME TypeInv, EstimateInv, NEW s \in Servers, ReserveRisk(s)
    PROVE  EstimateInv'
<1> DEFINE o == call[s].order
           f == [o EXCEPT !.state = "acknowledged"]
<1>1. /\ pc[s] = "reserve" /\ pc'[s] = "fill" /\ call[s] \in CallType
      /\ o \in OrderType /\ call \in [Servers -> CallType]
      /\ \A t \in Servers \ {s} : call'[t] = call[t] /\ pc'[t] = pc[t]
  BY DEF ReserveRisk, At, TypeInv, TypeOK, CallWellFormed, StepNeeds
<1>2. call'[s].order = f /\ call'[s].estimate = call[s].estimate
  BY <1>1 DEF ReserveRisk, CallType
<1>3. /\ f \in OrderType
      /\ f.instr = o.instr /\ f.side = o.side /\ f.otype = o.otype
      /\ f.qty = o.qty /\ f.limit = o.limit
  BY <1>1 DEF OrderType, OrderStates
<1>4. /\ SoundEstimate(o) /\ o.qty > 0 /\ call[s].estimate = EstimatedNotional(o)
  BY <1>1 DEF EstimateInv
<1> HIDE DEF f, o
<1>5. SoundEstimate(f) /\ EstimatedNotional(f) = EstimatedNotional(o)
  BY <1>1, <1>3, <1>4, SameTerms
<1> QED BY <1>1, <1>2, <1>3, <1>4, <1>5 DEF EstimateInv

LEMMA EstimateNext ==
    ASSUME EstimatesSound
    PROVE  TypeInv /\ EstimateInv /\ [Next]_vars => EstimateInv'
<1> SUFFICES ASSUME TypeInv, EstimateInv, [Next]_vars PROVE EstimateInv'
  OBVIOUS
<1>1. ASSUME NEW s \in Servers,
             Submit(s) \/ ServerStep(s) \/ Crash(s) \/ Restart(s)
      PROVE  EstimateInv'
  <2>1. \A t \in Servers \ {s} : pc'[t] = pc[t] /\ call'[t] = call[t]
    BY <1>1, OthersKeepCall
  <2>2. CASE LeaveOpen(s)
    <3>1. /\ pc[s] = "fill" /\ pc'[s] = "release" /\ call' = call
          /\ call[s].order.state # "filled"
      BY <2>2 DEF LeaveOpen, At, TypeInv, TypeOK, CallWellFormed, StepNeeds
    <3> QED BY <2>1, <3>1 DEF EstimateInv
  <2>3. CASE ~(Accept(s) \/ ReserveRisk(s) \/ FillOrder(s) \/ LeaveOpen(s))
    <3>1. pc'[s] \notin {"reserve", "fill", "release"}
      BY <1>1, <2>3 DEF ServerStep, At, Submit, FindHit, FindMiss, Refuse,
         RiskReject, Release, ReadPrev, Insert, InsertConflict, StoreFailure,
         Reply, Crash, Restart, TypeInv, TypeOK
    <3> QED BY <2>1, <3>1 DEF EstimateInv
  <2> QED BY <2>2, <2>3, AcceptEstimate, ReserveRiskEstimate, FillOrderEstimate
<1>2. CASE UNCHANGED vars
  BY <1>2 DEF vars, EstimateInv
<1> QED BY <1>1, <1>2 DEF Next

LEMMA EstimateInvariant ==
    ASSUME EstimatesSound
    PROVE  Spec => []EstimateInv
<1>1. Init => EstimateInv
  BY DEF Init, EstimateInv
<1> QED BY <1>1, EstimateNext, TypeInvariant, PTL DEF Spec

\* "The buying-power check is never optimistic about an order that has not
\* actually filled yet": whatever the processes, quotes and widths, a buy
\* costs no more than the estimate check_buying_power saw, provided market
\* orders carry no limit price and quantity times price fits an i128.
THEOREM EstimateIsCover ==
    ASSUME EstimatesSound
    PROVE  Spec => []EstimateCoversFill
<1>1. TypeInv /\ EstimateInv => EstimateCoversFill
  <2> SUFFICES ASSUME TypeInv, EstimateInv, NEW s \in Servers,
                      pc[s] = "release", IsBuy(s), call[s].order.state = "filled",
                      NEW n \in DOMAIN call[s].order.fills
               PROVE  DivTrunc(call[s].order.fills[n].qty
                                 * call[s].order.fills[n].price, SCALE)
                          <= call[s].estimate
    BY DEF EstimateCoversFill
  <2> DEFINE o == call[s].order
  <2>1. o \in OrderType /\ o.side \in BuySides
    BY DEF TypeInv, CallWellFormed, StepNeeds, IsBuy
  <2>2. /\ SoundEstimate(o) /\ o.qty > 0 /\ SimulateFill(o) # None
        /\ call[s].estimate = EstimatedNotional(o)
        /\ o.fills = << [qty |-> o.qty, price |-> SimulateFill(o)] >>
    BY DEF EstimateInv
  <2>3. o.fills[n] = [qty |-> o.qty, price |-> SimulateFill(o)]
    BY <2>2
  <2> QED BY <2>1, <2>2, <2>3, CostWithinEstimate
<1> QED BY <1>1, EstimateInvariant, TypeInvariant, PTL

\* A fill the account can pay for leaves it with cash; a sale adds to it.
LEMMA FillKeepsCash ==
    ASSUME NEW a \in AccountType, NEW o \in OrderType, a.cash >= 0,
           o.qty > 0, SimulateFill(o) # None,
           o.side \in BuySides => /\ SoundEstimate(o)
                                  /\ EstimatedNotional(o) <= a.cash
    PROVE  ApplyFill(a, o.instr, o.side, o.qty, SimulateFill(o)).cash >= 0
<1> DEFINE p == SimulateFill(o)
           notional == MulOr(p, o.qty, 0)
           new == ApplyFill(a, o.instr, o.side, o.qty, p)
<1>1. p \in Nat /\ o.qty \in Nat
  <2>1. p = Touch(o) /\ p \in Int /\ p > 0
    BY TouchType, TouchPositive, RawInt DEF SimulateFill
  <2>2. o.qty \in Int
    BY RawInt DEF OrderType
  <2> QED BY <2>1, <2>2
<1>2. notional \in Nat
  <2> HIDE DEF p
  <2> QED BY <1>1, MulOrNat
<1>3. a.cash \in Int /\ EstimatedNotional(o) \in Int
  BY EstimateType, RawInt DEF AccountType
<1>4. new.cash = IF o.side \in BuySides THEN SubOr(a.cash, notional, a.cash)
                                        ELSE AddOr(a.cash, notional, a.cash)
  BY DEF ApplyFill, AccountType
<1>5. o.side \in BuySides => notional <= a.cash
  <2>1. o.side \in BuySides => notional <= EstimatedNotional(o)
    BY CostWithinEstimate
  <2> HIDE DEF notional
  <2> QED BY <1>2, <1>3, <2>1
<1> HIDE DEF notional, new
<1>6. new.cash >= 0
  BY <1>2, <1>3, <1>4, <1>5 DEF SubOr, AddOr
<1> QED BY <1>6 DEF new

LEMMA ReserveRiskCash ==
    ASSUME TypeInv, ReservationReleased, CashInv, NEW s \in Servers, ReserveRisk(s)
    PROVE  CashInv'
<1>1. /\ pc[s] = "reserve" /\ acct \in [Servers -> AccountType]
      /\ call[s] \in CallType /\ call[s].order \in OrderType
      /\ call \in [Servers -> CallType]
      /\ \A t \in Servers \ {s} : pc'[t] = pc[t] /\ call'[t] = call[t] /\ acct'[t] = acct[t]
  BY DEF ReserveRisk, At, TypeInv, TypeOK, CallWellFormed, StepNeeds
<1>2. /\ acct[s].reserved = 0 /\ acct[s].cash \in Raw /\ acct[s].cash >= 0
      /\ call[s].estimate \in Raw
  BY <1>1 DEF AccountType, ReservationReleased, CashInv, CallType
<1>3. acct'[s].cash = acct[s].cash
  BY <1>1 DEF ReserveRisk, AccountType
<1>4. BuyingPower(acct[s]) = acct[s].cash
  BY <1>2, RawInt DEF BuyingPower, Raw, Fits
<1>5. IsBuy(s) => call[s].estimate <= acct[s].cash
  BY <1>2, <1>4, RawInt DEF ReserveRisk, RiskOutcome, CheckBuyingPower, IsAllowed, Refusal
<1>6. /\ call'[s].estimate = call[s].estimate
      /\ call'[s].order.side = call[s].order.side
  BY <1>1 DEF ReserveRisk, CallType, OrderType
<1> QED BY <1>1, <1>2, <1>3, <1>5, <1>6 DEF CashInv, IsBuy

LEMMA CashNext ==
    TypeInv /\ EstimateInv /\ ReservationReleased /\ CashInv /\ [Next]_vars => CashInv'
<1> SUFFICES ASSUME TypeInv, EstimateInv, ReservationReleased, CashInv, [Next]_vars
             PROVE  CashInv'
  OBVIOUS
<1>1. ASSUME NEW s \in Servers,
             Submit(s) \/ ServerStep(s) \/ Crash(s) \/ Restart(s)
      PROVE  CashInv'
  <2>0. acct \in [Servers -> AccountType] /\ pc \in [Servers -> Steps \cup {"idle", "down"}]
    BY DEF TypeInv, TypeOK
  <2>1. \A t \in Servers \ {s} : pc'[t] = pc[t] /\ call'[t] = call[t]
    BY <1>1, OthersKeepCall
  <2>2. CASE FillOrder(s)
    <3> DEFINE o == call[s].order
    <3>1. /\ pc[s] = "fill" /\ pc'[s] = "release" /\ o \in OrderType
          /\ SimulateFill(o) # None /\ acct[s] \in AccountType
          /\ acct' = [acct EXCEPT ![s] =
                 ApplyFill(acct[s], o.instr, o.side, o.qty, SimulateFill(o))]
      BY <2>0, <2>2 DEF FillOrder, At, TypeInv, CallWellFormed, StepNeeds
    <3>2. /\ o.qty > 0 /\ SoundEstimate(o) /\ acct[s].cash >= 0
          /\ o.side \in BuySides => EstimatedNotional(o) <= acct[s].cash
      BY <3>1 DEF EstimateInv, CashInv, IsBuy
    <3>3. acct'[s].cash >= 0
      BY <2>0, <3>1, <3>2, FillKeepsCash
    <3> QED BY <2>0, <2>1, <3>1, <3>3 DEF CashInv, IsBuy
  <2>3. CASE Crash(s)
    <3>1. acct' = [acct EXCEPT ![s] = NewAccount(StartingCash)] /\ pc'[s] = "down"
      BY <2>0, <2>3 DEF Crash, FreshAccount
    <3>2. acct'[s].cash >= 0
      BY <2>0, <3>1, ExecutionAssumption DEF NewAccount
    <3> QED BY <2>0, <2>1, <3>1, <3>2 DEF CashInv, IsBuy
  <2>4. CASE ~(FillOrder(s) \/ Crash(s) \/ ReserveRisk(s))
    <3>1. \A t \in Servers : acct'[t].cash = acct[t].cash
      <4>1. CASE Release(s)
        BY <2>0, <4>1 DEF Release, AccountType
      <4>2. CASE ~Release(s)
        BY <1>1, <2>4, <4>2 DEF ServerStep, Submit, FindHit, FindMiss, Refuse,
           Accept, RiskReject, LeaveOpen, ReadPrev, Insert, InsertConflict,
           StoreFailure, Reply, Restart
      <4> QED BY <4>1, <4>2
    <3>2. pc'[s] # "fill"
      BY <1>1, <2>0, <2>4 DEF ServerStep, At, Submit, FindHit, FindMiss, Refuse,
         Accept, RiskReject, LeaveOpen, Release, ReadPrev, Insert, InsertConflict,
         StoreFailure, Reply, Restart
    <3> QED BY <2>1, <3>1, <3>2 DEF CashInv, IsBuy
  <2> QED BY <2>2, <2>3, <2>4, ReserveRiskCash
<1>2. CASE UNCHANGED vars
  BY <1>2 DEF vars, CashInv, IsBuy
<1> QED BY <1>1, <1>2 DEF Next

\* What check_buying_power is there for: under the same two provisos no
\* sequence of orders, resubmissions, failures, crashes and restarts takes
\* the cash of any account below zero.
THEOREM CashStays ==
    ASSUME EstimatesSound
    PROVE  Spec => []CashNotNegative
<1>1. Init => CashInv
  BY ExecutionAssumption DEF Init, CashInv, NewAccount
<1>2. CashInv => CashNotNegative
  BY DEF CashInv, CashNotNegative
<1> QED BY <1>1, <1>2, CashNext, EstimateInvariant, NoLeakedReservation,
        TypeInvariant, PTL DEF Spec

-----------------------------------------------------------------------------
(* The account and the rows, for one process and a store that does not     *)
(* fail.  The invariant follows the account through a call, step by step:  *)
(* it is ahead of the rows by exactly the order the call is about to       *)
(* record, apart from the reservation.                                     *)

\* A fill moves an account the same way whatever is reserved in it.
LEMMA ApplyFillReserved ==
    ASSUME NEW a \in AccountType, NEW r \in Raw, NEW instr \in Instruments,
           NEW side, NEW q \in Raw, NEW p \in Raw
    PROVE  ApplyFill([a EXCEPT !.reserved = r], instr, side, q, p) =
               [ApplyFill(a, instr, side, q, p) EXCEPT !.reserved = r]
<1> DEFINE b == [a EXCEPT !.reserved = r]
           notional == MulOr(p, q, 0)
           signed   == IF side \in BuySides THEN q ELSE SubOr(0, q, q)
           cash     == IF side \in BuySides THEN SubOr(a.cash, notional, a.cash)
                                            ELSE AddOr(a.cash, notional, a.cash)
           position == IF a.pos[instr] = None
                       THEN [qty |-> signed, avg |-> p]
                       ELSE SignedFill(a.pos[instr], signed, p)
<1>1. b.cash = a.cash /\ b.pos = a.pos /\ b \in AccountType
  BY DEF AccountType
<1>2. ApplyFill(a, instr, side, q, p) =
          [a EXCEPT !.cash = cash, !.pos[instr] = position]
  BY DEF ApplyFill
<1>3. ApplyFill(b, instr, side, q, p) =
          [b EXCEPT !.cash = cash, !.pos[instr] = position]
  BY <1>1 DEF ApplyFill
<1> HIDE DEF cash, position
<1> QED BY <1>1, <1>2, <1>3 DEF AccountType

\* The order a fill completes books that fill.
LEMMA FilledOrderBooks ==
    ASSUME NEW a, NEW o \in OrderType, NEW p \in Raw,
           o.filled = 0, o.fills = << >>
    PROVE  LET f == OrderWithFill(o, o.qty, p)
           IN  ApplyOrder(a, f) = ApplyFill(a, o.instr, o.side, o.qty, p)
<1> DEFINE f == OrderWithFill(o, o.qty, p)
           fill == [qty |-> o.qty, price |-> p]
<1>1. AddOr(o.filled, o.qty, o.filled) = o.qty
  BY AddOrZero DEF OrderType
<1>2. /\ f.state = "filled" /\ f.instr = o.instr
      /\ f.side = o.side /\ f.qty = o.qty
  BY <1>1, RawInt DEF OrderWithFill, OrderType
<1>3. f \in OrderType /\ f.fills = Append(o.fills, fill)
  BY OrderWithFillType DEF OrderType
<1> HIDE DEF f
<1>4. f.fills[1].price = p
  BY <1>3
<1>5. f # None
  BY <1>3, NoOrderAssumption
<1> QED BY <1>2, <1>4, <1>5 DEF ApplyOrder, f

-----------------------------------------------------------------------------
(* The invariant, step by step.                                            *)

\* With nobody else to record it, the key of a call that missed stays open.
LEMMA KeyStillOpenNext ==
    ASSUME TypeInv, KeyStillOpen, NEW s \in Servers, \A t \in Servers : t = s,
           Submit(s) \/ ServerStep(s) \/ Crash(s) \/ Restart(s)
    PROVE  KeyStillOpen'
<1> DEFINE Open == {"gates", "reserve", "fill", "release", "read", "insert"}
<1>0. /\ pc \in [Servers -> Steps \cup {"idle", "down"}]
      /\ call \in [Servers -> CallType]
  BY DEF TypeInv, TypeOK
<1>1. CASE Submit(s) \/ FindHit(s) \/ Insert(s) \/ InsertConflict(s)
           \/ StoreFailure(s) \/ Reply(s) \/ Crash(s) \/ Restart(s)
  <2>1. pc'[s] \notin Open
    BY <1>0, <1>1 DEF At, Submit, FindHit, Insert, InsertConflict, StoreFailure,
       Reply, Crash, Restart
  <2> QED BY <2>1 DEF KeyStillOpen
<1>2. CASE FindMiss(s) \/ Refuse(s) \/ Accept(s) \/ RiskReject(s)
           \/ ReserveRisk(s) \/ FillOrder(s) \/ LeaveOpen(s) \/ Release(s)
           \/ ReadPrev(s)
  <2>1. rows' = rows /\ call'[s].intent = call[s].intent
    BY <1>0, <1>2 DEF FindMiss, Refuse, Accept, RiskReject, ReserveRisk,
       FillOrder, LeaveOpen, Release, ReadPrev, CallType
  <2>2. ~Recorded(rows, Key(s))
    BY <1>2 DEF KeyStillOpen, At, FindMiss, Refuse, Accept, RiskReject,
       ReserveRisk, FillOrder, LeaveOpen, Release, ReadPrev
  <2> QED BY <2>1, <2>2 DEF KeyStillOpen, Key
<1> QED BY <1>1, <1>2 DEF ServerStep

\* A step that books nothing and changes nothing of the account but its
\* reservation, with the account as far ahead as before.
LEMMA LedgerQuiet ==
    ASSUME TypeInv, LedgerInv, NEW s \in Servers, \A t \in Servers : t = s,
           UNCHANGED booked, AccountAhead(s)' = AccountAhead(s),
           acct'[s] = [acct[s] EXCEPT !.reserved = acct'[s].reserved],
           KeyStillOpen', ReservationReleased'
    PROVE  LedgerInv'
<1>1. BookedUnreserved'
  BY DEF LedgerInv, BookedUnreserved
<1>2. acct[s] = [AccountAhead(s) EXCEPT !.reserved = acct[s].reserved]
  BY DEF LedgerInv, AccountTracked
<1>3. acct'[s] = [AccountAhead(s) EXCEPT !.reserved = acct'[s].reserved]
  BY <1>2
<1>4. AccountTracked'
  BY <1>3 DEF AccountTracked
<1> QED BY <1>1, <1>4 DEF LedgerInv

\* Every step but a fill, an insert and a crash is such a step.
LEMMA QuietLedger ==
    ASSUME TypeInv, LedgerInv, NEW s \in Servers, \A t \in Servers : t = s,
           KeyStillOpen', ReservationReleased',
           \/ Submit(s) \/ FindHit(s) \/ FindMiss(s) \/ Refuse(s) \/ Accept(s)
           \/ RiskReject(s) \/ ReserveRisk(s) \/ LeaveOpen(s) \/ Release(s)
           \/ ReadPrev(s) \/ Reply(s) \/ Restart(s)
    PROVE  LedgerInv'
<1> DEFINE Ahead == {"release", "read", "insert"}
<1>0. /\ pc \in [Servers -> Steps \cup {"idle", "down"}]
      /\ call \in [Servers -> CallType] /\ call[s] \in CallType
      /\ acct \in [Servers -> AccountType] /\ acct[s] \in AccountType
      /\ StepNeeds(call[s], pc[s])
  BY DEF TypeInv, TypeOK, CallWellFormed
<1>1. booked' = booked
  BY DEF Submit, FindHit, FindMiss, Refuse, Accept, RiskReject, ReserveRisk,
     LeaveOpen, Release, ReadPrev, Reply, Restart
<1>2. acct'[s] = [acct[s] EXCEPT !.reserved = acct'[s].reserved]
  <2>1. CASE ReserveRisk(s) \/ Release(s)
    BY <1>0, <2>1 DEF ReserveRisk, Release, AccountType
  <2>2. CASE acct' = acct
    BY <1>0, <2>2 DEF AccountType
  <2> QED BY <2>1, <2>2 DEF Submit, FindHit, FindMiss, Refuse, Accept, RiskReject,
     LeaveOpen, ReadPrev, Reply, Restart
<1>3. AccountAhead(s)' = AccountAhead(s)
  <2>1. CASE \/ Submit(s) \/ FindHit(s) \/ FindMiss(s) \/ Accept(s)
             \/ ReserveRisk(s) \/ Reply(s) \/ Restart(s)
    <3>1. pc[s] \notin Ahead /\ pc'[s] \notin Ahead
      BY <1>0, <2>1 DEF At, Submit, FindHit, FindMiss, Accept, ReserveRisk,
         Reply, Restart
    <3> QED BY <1>1, <3>1 DEF AccountAhead
  <2>2. CASE Refuse(s) \/ RiskReject(s) \/ LeaveOpen(s)
    <3>1. pc[s] \notin Ahead /\ pc'[s] \in Ahead
      BY <1>0, <2>2 DEF At, Refuse, RiskReject, LeaveOpen
    <3>2. call'[s].order = None \/ call'[s].order.state # "filled"
      <4>1. CASE Refuse(s)
        BY <1>0, <4>1 DEF Refuse, At, StepNeeds, CallType
      <4>2. CASE RiskReject(s)
        <5>1. call[s].order \in OrderType
          BY <1>0, <4>2 DEF RiskReject, At, StepNeeds
        <5> QED BY <1>0, <4>2, <5>1 DEF RiskReject, CallType, OrderType
      <4>3. CASE LeaveOpen(s)
        BY <1>0, <4>3 DEF LeaveOpen, At, StepNeeds
      <4> QED BY <2>2, <4>1, <4>2, <4>3
    <3> QED BY <1>1, <3>1, <3>2 DEF AccountAhead, ApplyOrder
  <2>3. CASE Release(s) \/ ReadPrev(s)
    <3>1. /\ pc[s] \in Ahead /\ pc'[s] \in Ahead
          /\ call'[s].order = call[s].order
      BY <1>0, <2>3 DEF At, Release, ReadPrev, CallType
    <3> QED BY <1>1, <3>1 DEF AccountAhead
  <2> QED BY <2>1, <2>2, <2>3
<1> QED BY <1>1, <1>2, <1>3, LedgerQuiet

\* A fill puts the account ahead by exactly the order it fills.
LEMMA FillOrderLedger ==
    ASSUME TypeInv, LedgerInv, NEW s \in Servers, \A t \in Servers : t = s,
           KeyStillOpen', ReservationReleased', FillOrder(s)
    PROVE  LedgerInv'
<1> DEFINE order == call[s].order
           price == SimulateFill(order)
           r == acct[s].reserved
<1>0. /\ pc[s] = "fill" /\ pc'[s] = "release" /\ booked' = booked
      /\ call[s] \in CallType /\ acct[s] \in AccountType
      /\ booked[s] \in AccountType
      /\ order \in OrderType /\ order.filled = 0 /\ order.fills = << >>
  BY DEF FillOrder, At, TypeInv, TypeOK, CallWellFormed, StepNeeds
<1>1. price \in Raw /\ order.qty \in Raw /\ order.instr \in Instruments /\ r \in Raw
  BY <1>0, SimulateFillType DEF FillOrder, Option, OrderType, AccountType
<1>2. acct[s] = [booked[s] EXCEPT !.reserved = r]
  BY <1>0 DEF LedgerInv, AccountTracked, AccountAhead
<1>3. /\ acct'[s] = ApplyFill(acct[s], order.instr, order.side, order.qty, price)
      /\ call'[s].order = OrderWithFill(order, order.qty, price)
  BY <1>0 DEF FillOrder, TypeInv, TypeOK, CallType
<1> HIDE DEF order, price, r
<1>4. AccountAhead(s)' = ApplyFill(booked[s], order.instr, order.side, order.qty, price)
  BY <1>0, <1>1, <1>3, FilledOrderBooks DEF AccountAhead
<1>5. acct'[s] = [AccountAhead(s)' EXCEPT !.reserved = r]
  BY <1>0, <1>1, <1>2, <1>3, <1>4, ApplyFillReserved
<1>6. acct'[s].reserved = r
  BY <1>0, <1>1, <1>3, ApplyFillType DEF r
<1>7. AccountTracked'
  BY <1>5, <1>6 DEF AccountTracked
<1>8. BookedUnreserved'
  BY <1>0 DEF LedgerInv, BookedUnreserved
<1> QED BY <1>7, <1>8 DEF LedgerInv

\* An insert books the order the account was ahead by.
LEMMA InsertLedger ==
    ASSUME TypeInv, LedgerInv, NEW s \in Servers, \A t \in Servers : t = s,
           KeyStillOpen', ReservationReleased', Insert(s)
    PROVE  LedgerInv'
<1> DEFINE o == call[s].order
<1>0. /\ pc[s] = "insert" /\ pc'[s] = "reply" /\ acct' = acct
      /\ booked[s] \in AccountType /\ call[s] \in CallType
      /\ booked'[s] = ApplyOrder(booked[s], o)
      /\ StepNeeds(call[s], "insert")
  BY DEF Insert, At, TypeInv, TypeOK, CallWellFormed
<1>1. o \in Option(OrderType) /\ (o # None /\ o.state = "filled" => o.fills # << >>)
  BY <1>0 DEF CallType, StepNeeds
<1>2. booked'[s].reserved = 0
  BY <1>0, <1>1, ApplyOrderType DEF LedgerInv, BookedUnreserved
<1>3. acct'[s] = [booked'[s] EXCEPT !.reserved = acct'[s].reserved]
  BY <1>0 DEF LedgerInv, AccountTracked, AccountAhead
<1>4. AccountTracked'
  BY <1>0, <1>3 DEF AccountTracked, AccountAhead
<1> QED BY <1>2, <1>4 DEF LedgerInv, BookedUnreserved

\* The next process starts from a new account, and so does its history.
LEMMA CrashLedger ==
    ASSUME TypeInv, LedgerInv, NEW s \in Servers, \A t \in Servers : t = s,
           KeyStillOpen', ReservationReleased', Crash(s)
    PROVE  LedgerInv'
<1> DEFINE new == NewAccount(StartingCash)
<1>1. pc'[s] = "down" /\ acct'[s] = new /\ booked'[s] = new
  BY DEF Crash, FreshAccount, TypeInv, TypeOK
<1>2. new \in AccountType /\ new.reserved = 0
  BY NewAccountType DEF NewAccount
<1> HIDE DEF new
<1>3. acct'[s] = [booked'[s] EXCEPT !.reserved = acct'[s].reserved]
  BY <1>1, <1>2 DEF AccountType
<1>4. AccountTracked'
  BY <1>1, <1>3 DEF AccountTracked, AccountAhead
<1> QED BY <1>1, <1>2, <1>4 DEF LedgerInv, BookedUnreserved

LEMMA LedgerInvNext ==
    ASSUME MaxStoreFailures = 0, OneServer
    PROVE  TypeInv /\ LedgerInv /\ [Next]_vars => LedgerInv'
<1> SUFFICES ASSUME TypeInv, LedgerInv, [Next]_vars PROVE LedgerInv'
  OBVIOUS
<1>0. ReservationReleased'
  BY ReservationNext DEF LedgerInv
<1>1. ASSUME NEW s \in Servers,
             Submit(s) \/ ServerStep(s) \/ Crash(s) \/ Restart(s)
      PROVE  LedgerInv'
  <2>1. \A t \in Servers : t = s
    BY DEF OneServer
  <2>2. KeyStillOpen'
    BY <1>1, <2>1, KeyStillOpenNext DEF LedgerInv
  <2>3. ~StoreFailure(s)
    BY DEF StoreFailure, TypeInv, TypeOK
  <2>4. ~InsertConflict(s)
    BY DEF InsertConflict, At, LedgerInv, KeyStillOpen
  <2> QED BY <1>0, <1>1, <2>1, <2>2, <2>3, <2>4, QuietLedger, FillOrderLedger,
        InsertLedger, CrashLedger DEF ServerStep
<1>2. CASE UNCHANGED vars
  BY <1>2 DEF vars, LedgerInv, BookedUnreserved, KeyStillOpen, AccountTracked,
     AccountAhead, ReservationReleased, IsBuy, Key
<1> QED BY <1>1, <1>2 DEF Next

LEMMA LedgerInvariant ==
    ASSUME MaxStoreFailures = 0, OneServer
    PROVE  Spec => []LedgerInv
<1>1. Init => LedgerInv
  <2> SUFFICES ASSUME Init PROVE LedgerInv
    OBVIOUS
  <2> DEFINE new == NewAccount(StartingCash)
  <2>1. /\ new \in AccountType /\ new.reserved = 0
        /\ \A s \in Servers : pc[s] = "idle" /\ acct[s] = new /\ booked[s] = new
    BY NewAccountType DEF Init, NewAccount
  <2> HIDE DEF new
  <2>2. new = [new EXCEPT !.reserved = new.reserved]
    BY <2>1 DEF AccountType
  <2> QED BY <2>1, <2>2 DEF LedgerInv, BookedUnreserved, KeyStillOpen,
        AccountTracked, AccountAhead, ReservationReleased
<1> QED BY <1>1, LedgerInvNext, TypeInvariant, PTL DEF Spec

\* Where nothing is reserved the account is what AccountAhead says, without
\* exception.
LEMMA AccountSettled ==
    ASSUME TypeInv, LedgerInv, NEW s \in Servers, pc[s] \notin {"fill", "release"}
    PROVE  acct[s] = AccountAhead(s)
<1>1. /\ acct[s].reserved = 0 /\ booked[s].reserved = 0
      /\ acct[s] = [AccountAhead(s) EXCEPT !.reserved = acct[s].reserved]
  BY DEF LedgerInv, ReservationReleased, BookedUnreserved, AccountTracked
<1>2. /\ booked[s] \in AccountType /\ call[s].order \in Option(OrderType)
      /\ pc[s] \in {"read", "insert"} =>
             (call[s].order # None /\ call[s].order.state = "filled" =>
                  call[s].order.fills # << >>)
  BY DEF TypeInv, TypeOK, CallType, CallWellFormed, StepNeeds
<1>3. AccountAhead(s) \in AccountType /\ AccountAhead(s).reserved = 0
  <2>1. CASE pc[s] \in {"read", "insert"}
    BY <1>1, <1>2, <2>1, ApplyOrderType DEF AccountAhead
  <2>2. CASE pc[s] \notin {"read", "insert"}
    BY <1>1, <1>2, <2>2 DEF AccountAhead
  <2> QED BY <2>1, <2>2
<1> HIDE DEF AccountAhead
<1> QED BY <1>1, <1>3 DEF AccountType

\* For a process that is alone on its database, and a store that does not
\* fail, the account it holds between two calls is exactly what its recorded
\* orders make of a new account: authorize_and_submit_paper_order moves the
\* account and writes the row, or does neither.
THEOREM AccountFollowsLedger ==
    ASSUME MaxStoreFailures = 0, OneServer
    PROVE  Spec => []AccountMatchesLedger
<1>1. TypeInv /\ LedgerInv => AccountMatchesLedger
  BY AccountSettled DEF AccountMatchesLedger, AccountAhead
<1> QED BY <1>1, LedgerInvariant, TypeInvariant, PTL

-----------------------------------------------------------------------------
(* The refinement.  Every step but the INSERT and the end of the process   *)
(* is a stutter of the atomic specification: the settled account does not  *)
(* notice reservation, fill and release.                                   *)

\* The refinement mapping, by name.
Decided == [k \in Keys |-> DecisionOf(k)]
Accounts == [s \in Servers |-> SettledAccount(s)]

\* Where a reservation or an unrecorded fill is not looked at, the account is
\* what is booked.
LEMMA Settled ==
    TypeInv /\ LedgerInv => \A s \in Servers : SettledAccount(s) = booked[s]
BY AccountSettled DEF SettledAccount, AccountAhead

LEMMA SettledNext ==
    TypeInv' /\ LedgerInv' => (\A s \in Servers : SettledAccount(s) = booked[s])'
BY Settled, PTL

\* The INSERT decides its key and no other.
LEMMA InsertDecides ==
    ASSUME TypeInv, NEW s \in Servers, Insert(s)
    PROVE  /\ Key(s) \in Keys /\ DecisionOf(Key(s)) = None
           /\ \A k \in Keys :
                  DecisionOf(k)' =
                      IF k = Key(s)
                      THEN [outcome |-> call[s].outcome, order |-> call[s].order]
                      ELSE DecisionOf(k)
<1> DEFINE last == Len(rows) + 1
           row == NewRow(RecordOf(s), call[s].prev)
           key == Key(s)
<1>1. /\ row.rec.key = key /\ row.rec.outcome = call[s].outcome
      /\ row.rec.order = call[s].order
  BY DEF NewRow, RecordOf
<1>2. Key(s) \in Keys
  <2>1. RecordOf(s) \in RecordType
    BY RecordAtInsert DEF Insert, At
  <2> QED BY <2>1 DEF RecordOf, RecordType
<1>3. ~Recorded(rows, key)
  BY DEF Insert
<1> HIDE DEF row, key
<1>4. /\ DOMAIN rows' = 1..last /\ DOMAIN rows = 1..Len(rows) /\ Len(rows) \in Nat
      /\ \A n \in DOMAIN rows : rows'[n] = rows[n]
      /\ rows'[last] = row
  BY InsertAppends DEF row
<1>5. \A n \in DOMAIN rows' : n \in DOMAIN rows \/ n = last
  BY <1>4
<1>6. RowsOf(rows', key) = {last}
  BY <1>1, <1>3, <1>4, <1>5 DEF RowsOf, Recorded
<1>7. FindByIdempotencyKey(rows', key) = row.rec
  <2>1. (CHOOSE n \in RowsOf(rows', key) : TRUE) = last
    BY <1>6
  <2> QED BY <1>4, <2>1 DEF FindByIdempotencyKey
<1>8. ASSUME NEW k \in Keys, k = key
      PROVE  DecisionOf(k)' = [outcome |-> call[s].outcome, order |-> call[s].order]
  <2>1. Recorded(rows', k) /\ FindByIdempotencyKey(rows', k) = row.rec
    BY <1>6, <1>7, <1>8 DEF Recorded
  <2> QED BY <1>1, <2>1 DEF DecisionOf
<1>9. ASSUME NEW k \in Keys \ {Key(s)}
      PROVE  DecisionOf(k)' = DecisionOf(k)
  <2>1. Recorded(rows', k) <=> Recorded(rows, k)
    BY InsertRecords
  <2>2. CASE Recorded(rows, k)
    BY <2>1, <2>2, InsertKeepsDecisions DEF DecisionOf
  <2>3. CASE ~Recorded(rows, k)
    BY <2>1, <2>3 DEF DecisionOf
  <2> QED BY <2>2, <2>3
<1>10. DecisionOf(Key(s)) = None
  BY <1>3 DEF DecisionOf, key
<1> QED BY <1>2, <1>8, <1>9, <1>10 DEF key

LEMMA InsertAtomic ==
    ASSUME TypeInv, TypeInv', LedgerInv, LedgerInv', NEW s \in Servers, Insert(s)
    PROVE  Atomic!Decide(s, Key(s))
<1> DEFINE d == [outcome |-> call[s].outcome, order |-> call[s].order]
<1>1. /\ Key(s) \in Keys /\ DecisionOf(Key(s)) = None
      /\ \A k \in Keys : DecisionOf(k)' = IF k = Key(s) THEN d ELSE DecisionOf(k)
  BY InsertDecides
<1>2. d # None
  <2>1. call[s].outcome \in OutcomeType /\ call[s].order \in Option(OrderType)
    BY DEF Insert, At, TypeInv, TypeOK, CallType, CallWellFormed, StepNeeds
  <2>2. d \in ResultType
    BY <2>1 DEF ResultType
  <2> QED BY <2>2, NoResultAssumption
<1>3. /\ \A t \in Servers : SettledAccount(t) = booked[t]
      /\ \A t \in Servers : SettledAccount(t)' = booked'[t]
  BY Settled, SettledNext
<1>4. /\ booked' = [booked EXCEPT ![s] = ApplyOrder(booked[s], call[s].order)]
      /\ DOMAIN booked = Servers
  BY DEF Insert, TypeInv, TypeOK
<1>5. DOMAIN Decided = Keys /\ DOMAIN Accounts = Servers
  BY DEF Decided, Accounts
<1>6. Decided[Key(s)] = None /\ Decided'[Key(s)] = d
  BY <1>1 DEF Decided, Key
<1>7. Decided' = [Decided EXCEPT ![Key(s)] = d]
  BY <1>1 DEF Decided
<1>8. Accounts' = [Accounts EXCEPT ![s] = ApplyDecision(Accounts[s], d)]
  BY <1>3, <1>4, <1>5 DEF Accounts, ApplyDecision
<1> QED BY <1>2, <1>6, <1>7, <1>8 DEF Atomic!Decide, Decided, Accounts

\* The end of a process replaces its account and decides nothing.
LEMMA CrashAtomic ==
    ASSUME TypeInv, TypeInv', LedgerInv, LedgerInv', NEW s \in Servers, Crash(s)
    PROVE  Atomic!Replace(s)
<1>1. /\ \A t \in Servers : SettledAccount(t) = booked[t]
      /\ \A t \in Servers : SettledAccount(t)' = booked'[t]
  BY Settled, SettledNext
<1>2. /\ booked' = [booked EXCEPT ![s] = NewAccount(StartingCash)]
      /\ DOMAIN booked = Servers /\ rows' = rows
  BY DEF Crash, FreshAccount, TypeInv, TypeOK
<1>3. Accounts' = [Accounts EXCEPT ![s] = NewAccount(StartingCash)]
  BY <1>1, <1>2 DEF Accounts
<1>4. Decided' = Decided
  BY <1>2 DEF Decided, DecisionOf
<1> QED BY <1>3, <1>4 DEF Atomic!Replace, Decided, Accounts

\* Every other step goes unnoticed.
LEMMA StutterAtomic ==
    ASSUME TypeInv, TypeInv', LedgerInv, LedgerInv', booked' = booked, rows' = rows
    PROVE  Decided' = Decided /\ Accounts' = Accounts
<1>1. /\ \A t \in Servers : SettledAccount(t) = booked[t]
      /\ \A t \in Servers : SettledAccount(t)' = booked'[t]
  BY Settled, SettledNext
<1>2. Accounts' = Accounts
  BY <1>1 DEF Accounts
<1>3. Decided' = Decided
  BY DEF Decided, DecisionOf
<1> QED BY <1>2, <1>3

LEMMA StepAtomic ==
    TypeInv /\ TypeInv' /\ LedgerInv /\ LedgerInv' /\ [Next]_vars
        => [Atomic!Next]_<<Decided, Accounts>>
<1> SUFFICES ASSUME TypeInv, TypeInv', LedgerInv, LedgerInv', [Next]_vars
             PROVE  Atomic!Next \/ (Decided' = Decided /\ Accounts' = Accounts)
  OBVIOUS
<1>1. ASSUME NEW s \in Servers,
             Submit(s) \/ ServerStep(s) \/ Crash(s) \/ Restart(s)
      PROVE  Atomic!Next \/ (Decided' = Decided /\ Accounts' = Accounts)
  <2>1. CASE Insert(s)
    <3>1. Key(s) \in Keys
      BY <2>1, InsertDecides
    <3> QED BY <2>1, <3>1, InsertAtomic DEF Atomic!Next
  <2>2. CASE Crash(s)
    BY <2>2, CrashAtomic DEF Atomic!Next
  <2>3. CASE ~Insert(s) /\ ~Crash(s)
    <3>1. rows' = rows
      BY <1>1, <2>3, OnlyInsertWrites
    <3>2. booked' = booked
      BY <1>1, <2>3 DEF ServerStep, Submit, FindHit, FindMiss, Refuse, Accept,
         RiskReject, ReserveRisk, FillOrder, LeaveOpen, Release, ReadPrev,
         InsertConflict, StoreFailure, Reply, Restart
    <3> QED BY <3>1, <3>2, StutterAtomic
  <2> QED BY <2>1, <2>2, <2>3
<1>2. CASE UNCHANGED vars
  BY <1>2, StutterAtomic DEF vars
<1> QED BY <1>1, <1>2 DEF Next

LEMMA InitAtomic == Init => Atomic!Init
<1> SUFFICES ASSUME Init PROVE Atomic!Init
  OBVIOUS
<1>1. Decided = [k \in Keys |-> None]
  BY DEF Init, Decided, DecisionOf, Recorded, RowsOf
<1>2. Accounts = [s \in Servers |-> NewAccount(StartingCash)]
  BY DEF Init, Accounts, SettledAccount
<1> QED BY <1>1, <1>2 DEF Atomic!Init, Decided, Accounts

\* For a process that is alone on its database, and a store that does not
\* fail, authorize_and_submit_paper_order is atomic: every behaviour of its
\* steps, crashes included, is one in which a key is decided and the account
\* takes the effect of the decision in the same instant.
THEOREM StepsAreAtomic ==
    ASSUME MaxStoreFailures = 0, OneServer
    PROVE  Spec => AtomicRefinement
<1>1. Atomic!Spec <=> Atomic!Init /\ [][Atomic!Next]_<<Decided, Accounts>>
  BY DEF Atomic!Spec, Decided, Accounts
<1> QED BY <1>1, InitAtomic, StepAtomic, LedgerInvariant, TypeInvariant, PTL
        DEF Spec, AtomicRefinement
=============================================================================
