-------------------------- MODULE ExecutionProofs --------------------------
(***************************************************************************)
(* Proofs about Execution.  First its types, for any servers, keys,        *)
(* intents, prices and arithmetic width: no step leaves the range of the   *)
(* Decimals, and every step finds in its call what the step before it left *)
(* there.  Then its safety properties, for any number of server processes, *)
(* crashes and failing statements: what is replied, reserved and filled,   *)
(* and what the rows tell of the past.  Fills need a store that does not   *)
(* fail, the hash chain a process alone on its database.                   *)
(***************************************************************************)
EXTENDS ExecutionInvariants, AccountProofs

-----------------------------------------------------------------------------
(* The operators the steps are built from stay within their types.         *)

\* A refusal and an approval are outcomes.
LEMMA RefusalType ==
    ASSUME NEW d \in Decisions, NEW r \in Reasons
    PROVE  Refusal(d, r) \in OutcomeType
BY DEF Refusal, OutcomeType, Warnings

LEMMA AllowType == Allow \in OutcomeType
BY DEF Allow, OutcomeType, Decisions, Reasons, Warnings

LEMMA GateOutcomeType ==
    ASSUME NEW i, NEW b, NEW now
    PROVE  GateOutcome(i, b, now) \in OutcomeType
<1>1. ValidateTradeIntent(i, now) \in OutcomeType
  BY RefusalType, AllowType DEF ValidateTradeIntent, Decisions, Reasons
<1>2. CheckEvidenceEligibility(i, b, now) \in OutcomeType
  BY RefusalType, AllowType DEF CheckEvidenceEligibility, Decisions, Reasons
<1> QED
  BY <1>1, <1>2, RefusalType, AllowType DEF GateOutcome, Decisions, Reasons

\* Only an intent with a positive quantity passes the gates.
LEMMA GatePositive ==
    ASSUME NEW i, NEW b, NEW now, i.qty \in Int,
           IsAllowed(GateOutcome(i, b, now))
    PROVE  i.qty > 0
BY DEF GateOutcome, ValidateTradeIntent, IsAllowed, Refusal

\* Both sides of a quote are prices.
LEMMA TouchType ==
    ASSUME NEW o \in OrderType
    PROVE  Touch(o) \in Raw
<1>1. o.instr \in Instruments
  BY DEF OrderType
<1>2. Mid[o.instr] \in Raw /\ Mid[o.instr] \in Int /\ HalfSpread \in Int
  BY <1>1, QuoteAssumption DEF Raw
<1>3. Ask(o.instr) \in Raw /\ Bid(o.instr) \in Raw
  BY <1>2, AddOrRaw, SubOrRaw DEF Ask, Bid
<1> QED BY <1>3 DEF Touch

LEMMA SimulateFillType ==
    ASSUME NEW o \in OrderType
    PROVE  SimulateFill(o) \in Option(Raw)
BY TouchType DEF SimulateFill, Option

LEMMA EstimateType ==
    ASSUME NEW o \in OrderType
    PROVE  EstimatedNotional(o) \in Raw
<1>1. EstimatedPrice(o) \in Raw
  BY TouchType DEF EstimatedPrice, OrderType, Option
<1>2. o.qty \in Int /\ EstimatedPrice(o) \in Int /\ 0 \in Raw
  BY <1>1, DecimalAssumption DEF OrderType, Raw
<1> QED BY <1>2, MulOrRaw DEF EstimatedNotional

\* A fill leaves an order an order.
LEMMA OrderWithFillType ==
    ASSUME NEW o \in OrderType, NEW q \in Raw, NEW p \in Raw
    PROVE  /\ OrderWithFill(o, q, p) \in OrderType
           /\ OrderWithFill(o, q, p).fills = Append(o.fills, [qty |-> q, price |-> p])
           /\ OrderWithFill(o, q, p).key = o.key
<1> DEFINE old    == IF o.avg = None THEN 0 ELSE o.avg
           prior  == MulOr(old, o.filled, 0)
           filled == AddOr(o.filled, q, o.filled)
           cost   == MulOr(p, q, 0)
           total  == AddOr(prior, cost, prior)
           avg    == IF filled = 0 THEN o.avg ELSE ApproxDiv(total, filled)
           state  == IF filled >= o.qty THEN "filled" ELSE "partially-filled"
<1>0. Raw \subseteq Int /\ 0 \in Raw
  BY DecimalAssumption DEF Raw
<1>1. o.filled \in Raw /\ o.avg \in Option(Raw) /\ o.fills \in Seq(FillType)
  BY DEF OrderType
<1>2. prior \in Raw /\ filled \in Raw /\ cost \in Raw
  BY <1>0, <1>1, MulOrRaw, AddOrRaw DEF Option
<1>3. total \in Raw
  BY <1>0, <1>2, AddOrRaw
<1>4. avg \in Option(Raw)
  BY <1>0, <1>1, <1>2, <1>3, ApproxDivRaw DEF Option
<1>5. state \in OrderStates
  BY DEF OrderStates
<1>6. Append(o.fills, [qty |-> q, price |-> p]) \in Seq(FillType)
  BY <1>1 DEF FillType
<1>7. OrderWithFill(o, q, p) =
          [o EXCEPT !.avg = avg, !.filled = filled,
                    !.fills = Append(o.fills, [qty |-> q, price |-> p]),
                    !.state = state]
  BY DEF OrderWithFill
<1> HIDE DEF avg, filled, state
<1> QED BY <1>2, <1>4, <1>5, <1>6, <1>7 DEF OrderType

LEMMA NewAccountType == NewAccount(StartingCash) \in AccountType
BY ExecutionAssumption, DecimalAssumption DEF NewAccount, AccountType, Option, Raw

-----------------------------------------------------------------------------
(* Type correctness.                                                       *)

LEMMA NoCallType == NoCall \in CallType
BY DecimalAssumption DEF NoCall, CallType, Option, GenesisHash, Raw

LEMMA TypeInvInit == Init => TypeInv
<1> SUFFICES ASSUME Init PROVE TypeInv
  OBVIOUS
<1>1. NoCall \in CallType
  BY NoCallType
<1>2. rows \in Seq(RowType)
  BY DEF Init
<1>3. replied \in [Keys -> SUBSET ResultType]
  BY DEF Init
<1>4. failures \in 0..MaxStoreFailures
  BY ExecutionAssumption DEF Init
<1>5. CallWellFormed
  BY DEF Init, CallWellFormed, StepNeeds
<1>6. \A s \in Servers : pc[s] \in Steps <=> call[s].intent # None
  BY DEF Init, Steps, NoCall
<1> QED
  BY <1>1, <1>2, <1>3, <1>4, <1>5, <1>6, NewAccountType DEF Init, TypeInv, TypeOK

\* A step that moves one server and rewrites its call keeps the invariant if
\* the new call is well-formed for the new step.
LEMMA CallStep ==
    ASSUME TypeInv, NEW s \in Servers, NEW from, NEW to \in Steps,
           At(s, from, to), NEW c \in CallType, c.intent # None,
           call' = [call EXCEPT ![s] = c], StepNeeds(c, to)
    PROVE  /\ pc' \in [Servers -> Steps \cup {"idle", "down"}]
           /\ call' \in [Servers -> CallType]
           /\ \A t \in Servers : pc'[t] \in Steps <=> call'[t].intent # None
           /\ CallWellFormed'
<1>1. /\ pc \in [Servers -> Steps \cup {"idle", "down"}]
      /\ call \in [Servers -> CallType]
      /\ \A t \in Servers : pc[t] \in Steps <=> call[t].intent # None
      /\ \A t \in Servers : StepNeeds(call[t], pc[t])
  BY DEF TypeInv, TypeOK, CallWellFormed
<1>2. pc' = [pc EXCEPT ![s] = to]
  BY DEF At
<1>3. \A t \in Servers : /\ pc'[t] = IF t = s THEN to ELSE pc[t]
                         /\ call'[t] = IF t = s THEN c ELSE call[t]
  BY <1>1, <1>2
<1>4. \A t \in Servers : StepNeeds(call'[t], pc'[t])
  BY <1>1, <1>3
<1> QED BY <1>1, <1>2, <1>3, <1>4 DEF CallWellFormed
\* The record found for a recorded key is one of the table's.
LEMMA FoundRecord ==
    ASSUME rows \in Seq(RowType), NEW k, Recorded(rows, k)
    PROVE  \E n \in DOMAIN rows : /\ FindByIdempotencyKey(rows, k) = rows[n].rec
                                 /\ rows[n].rec.key = k
                                 /\ rows[n].rec \in RecordType
<1> DEFINE n == CHOOSE m \in RowsOf(rows, k) : TRUE
<1>1. n \in RowsOf(rows, k)
  BY DEF Recorded
<1>2. n \in DOMAIN rows /\ rows[n].rec.key = k
  BY <1>1 DEF RowsOf
<1>3. rows[n] \in RowType
  BY <1>2
<1>4. rows[n].rec \in RecordType
  BY <1>3 DEF RowType
<1> QED BY <1>2, <1>4 DEF FindByIdempotencyKey

LEMMA SubmitType ==
    ASSUME TypeInv, NEW s \in Servers, Submit(s)
    PROVE  TypeInv'
<1>1. PICK i \in Intents, b \in Option(Bundles), t \in Times :
          call' = [call EXCEPT ![s] = [NoCall EXCEPT !.intent = i, !.bundle = b,
                                                     !.now = t]]
  BY DEF Submit
<1> DEFINE c == [NoCall EXCEPT !.intent = i, !.bundle = b, !.now = t]
<1>2. c \in CallType /\ c.intent # None /\ c.order = None
  <2>1. i # None /\ t \in Nat
    BY ExecutionAssumption
  <2>2. NoCall.order = None
    BY DEF NoCall
  <2> QED BY <2>1, <2>2, NoCallType DEF CallType, Option
<1>3. StepNeeds(c, "find") /\ "find" \in Steps /\ At(s, "idle", "find")
  BY <1>2 DEF StepNeeds, Steps, Submit
<1> HIDE DEF c
<1>4. call' = [call EXCEPT ![s] = c]
  BY <1>1 DEF c
<1> QED BY <1>2, <1>3, <1>4, CallStep DEF Submit, TypeInv, TypeOK

LEMMA FindHitType ==
    ASSUME TypeInv, NEW s \in Servers, FindHit(s)
    PROVE  TypeInv'
<1> DEFINE rec == FindByIdempotencyKey(rows, Key(s))
           c == [call[s] EXCEPT !.outcome = rec.outcome, !.order = rec.order]
<1>1. rec \in RecordType
  <2>1. rows \in Seq(RowType) /\ Recorded(rows, Key(s))
    BY DEF FindHit, TypeInv, TypeOK
  <2> QED BY <2>1, FoundRecord
<1>2. call[s] \in CallType /\ call[s].intent # None
  BY DEF FindHit, At, TypeInv, TypeOK, Steps
<1>3. c \in CallType /\ c.intent # None
  BY <1>1, <1>2 DEF CallType, RecordType, Option
<1>4. StepNeeds(c, "reply") /\ "reply" \in Steps /\ At(s, "find", "reply")
  BY DEF StepNeeds, Steps, FindHit
<1>5. call' = [call EXCEPT ![s] = c]
  BY DEF FindHit, TypeInv, TypeOK
<1> HIDE DEF c, rec
<1> QED BY <1>3, <1>4, <1>5, CallStep DEF FindHit, TypeInv, TypeOK

LEMMA FindMissType ==
    ASSUME TypeInv, NEW s \in Servers, FindMiss(s)
    PROVE  TypeInv'
<1>1. call[s] \in CallType /\ call[s].intent # None
  BY DEF FindMiss, At, TypeInv, TypeOK, Steps
<1>2. call' = [call EXCEPT ![s] = call[s]]
  BY DEF FindMiss, TypeInv, TypeOK
<1>3. StepNeeds(call[s], "gates") /\ "gates" \in Steps /\ At(s, "find", "gates")
  BY DEF StepNeeds, Steps, FindMiss, At, TypeInv, CallWellFormed
<1> QED BY <1>1, <1>2, <1>3, CallStep DEF FindMiss, TypeInv, TypeOK

LEMMA RefuseType ==
    ASSUME TypeInv, NEW s \in Servers, Refuse(s)
    PROVE  TypeInv'
<1> DEFINE o == GateOutcome(call[s].intent, call[s].bundle, call[s].now)
           c == [call[s] EXCEPT !.outcome = o]
<1>1. o \in OutcomeType
  BY GateOutcomeType
<1>2. call[s] \in CallType /\ call[s].intent # None
  BY DEF Refuse, At, TypeInv, TypeOK, Steps
<1>3. call[s].order = None
  BY DEF Refuse, At, TypeInv, CallWellFormed, StepNeeds
<1>7. /\ c \in CallType /\ c.intent # None
       /\ c.outcome \in OutcomeType /\ c.order = None
  BY <1>1, <1>2, <1>3 DEF CallType, Option
<1>4. call' = [call EXCEPT ![s] = c]
  BY DEF Refuse, TypeInv, TypeOK
<1> HIDE DEF o, c
<1>5. "read" \in Steps /\ At(s, "gates", "read")
  BY DEF Steps, Refuse
<1>6. StepNeeds(c, "read")
  BY <1>7 DEF StepNeeds
<1> QED BY <1>7, <1>4, <1>5, <1>6, CallStep DEF Refuse, TypeInv, TypeOK
LEMMA AcceptType ==
    ASSUME TypeInv, NEW s \in Servers, Accept(s)
    PROVE  TypeInv'
<1> DEFINE i == call[s].intent
           o == NewOrder(i)
           c == [call[s] EXCEPT !.order = o, !.estimate = EstimatedNotional(o)]
<1>1. call[s] \in CallType /\ i # None /\ i \in IntentType
  BY ExecutionAssumption DEF Accept, At, TypeInv, TypeOK, Steps, CallType, Option
<1>2. o \in OrderType
  <2>1. 0 \in Raw /\ << >> \in Seq(FillType)
    BY DecimalAssumption DEF Raw
  <2> HIDE DEF i
  <2> QED BY <1>1, <2>1 DEF NewOrder, IntentType, OrderType, OrderStates, Option
<1>3. o.qty > 0
  <2>1. i.qty \in Int /\ o.qty = i.qty
    BY <1>1 DEF IntentType, Raw, NewOrder
  <2> QED BY <2>1, GatePositive DEF Accept
<1>4. o.state # "filled" /\ o.filled = 0 /\ o.fills = << >>
  BY DEF NewOrder
<1>5. EstimatedNotional(o) \in Raw
  <2> HIDE DEF o
  <2> QED BY <1>2, EstimateType
<1>6. call' = [call EXCEPT ![s] = c]
  BY DEF Accept, TypeInv, TypeOK
<1> HIDE DEF o, i
<1>7. c \in CallType /\ c.intent # None /\ c.order = o
  BY <1>1, <1>2, <1>5 DEF CallType, Option, i
<1> HIDE DEF c
<1>8. "reserve" \in Steps /\ At(s, "gates", "reserve")
  BY DEF Steps, Accept
<1>9. StepNeeds(c, "reserve")
  BY <1>2, <1>3, <1>4, <1>7 DEF StepNeeds
<1> QED BY <1>6, <1>7, <1>8, <1>9, CallStep DEF Accept, TypeInv, TypeOK

LEMMA RiskOutcomeType == \A s \in Servers : RiskOutcome(s) \in OutcomeType
BY RefusalType, AllowType
DEF RiskOutcome, CheckBuyingPower, Decisions, Reasons

LEMMA RiskRejectType ==
    ASSUME TypeInv, NEW s \in Servers, RiskReject(s)
    PROVE  TypeInv'
<1> DEFINE o == [call[s].order EXCEPT !.state = "rejected"]
           c == [call[s] EXCEPT !.outcome = RiskOutcome(s), !.order = o]
<1>1. call[s] \in CallType /\ call[s].intent # None
  BY DEF RiskReject, At, TypeInv, TypeOK, Steps
<1>2. call[s].order \in OrderType
  BY DEF RiskReject, At, TypeInv, CallWellFormed, StepNeeds
<1>3. o \in OrderType /\ o.state = "rejected"
  BY <1>2 DEF OrderType, OrderStates
<1>4. call' = [call EXCEPT ![s] = c]
  BY <1>1 DEF RiskReject, TypeInv, TypeOK, CallType
<1> HIDE DEF o
<1>5. /\ c \in CallType /\ c.intent # None
      /\ c.order = o /\ c.outcome \in OutcomeType
  BY <1>1, <1>3, RiskOutcomeType DEF CallType, Option
<1> HIDE DEF c
<1>6. "read" \in Steps /\ At(s, "reserve", "read")
  BY DEF Steps, RiskReject
<1>7. StepNeeds(c, "read")
  BY <1>3, <1>5 DEF StepNeeds
<1> QED BY <1>4, <1>5, <1>6, <1>7, CallStep DEF RiskReject, TypeInv, TypeOK

LEMMA ReserveRiskType ==
    ASSUME TypeInv, NEW s \in Servers, ReserveRisk(s)
    PROVE  TypeInv'
<1> DEFINE o == [call[s].order EXCEPT !.state = "acknowledged"]
           c == [call[s] EXCEPT !.order = o]
<1>1. call[s] \in CallType /\ call[s].intent # None
  BY DEF ReserveRisk, At, TypeInv, TypeOK, Steps
<1>2. /\ call[s].order \in OrderType
      /\ call[s].order.filled = 0
      /\ call[s].order.fills = << >>
      /\ call[s].order.qty > 0
  BY DEF ReserveRisk, At, TypeInv, CallWellFormed, StepNeeds
<1>3. /\ o \in OrderType /\ o.state = "acknowledged" /\ o.filled = 0
      /\ o.fills = << >> /\ o.qty > 0
  BY <1>2 DEF OrderType, OrderStates
<1>4. call' = [call EXCEPT ![s] = c]
  BY <1>1 DEF ReserveRisk, TypeInv, TypeOK, CallType
<1> HIDE DEF o
<1>5. c \in CallType /\ c.intent # None /\ c.order = o
  BY <1>1, <1>3 DEF CallType, Option
<1> HIDE DEF c
<1>6. "fill" \in Steps /\ At(s, "reserve", "fill")
  BY DEF Steps, ReserveRisk
<1>7. StepNeeds(c, "fill")
  BY <1>3, <1>5 DEF StepNeeds
<1>8. acct' \in [Servers -> AccountType]
  <2>1. acct \in [Servers -> AccountType]
    BY DEF TypeInv, TypeOK
  <2>2. acct[s].reserved \in Raw /\ call[s].estimate \in Raw
    BY <1>1, <2>1 DEF AccountType, CallType
  <2>3. AddOr(acct[s].reserved, call[s].estimate, acct[s].reserved) \in Raw
    BY <2>2, AddOrRaw, RawInt
  <2>4. [acct[s] EXCEPT !.reserved =
            AddOr(acct[s].reserved, call[s].estimate, acct[s].reserved)]
        \in AccountType
    BY <2>1, <2>3 DEF AccountType
  <2> QED BY <2>1, <2>4 DEF ReserveRisk
<1> QED BY <1>4, <1>5, <1>6, <1>7, <1>8, CallStep DEF ReserveRisk, TypeInv, TypeOK
LEMMA FillOrderType ==
    ASSUME TypeInv, NEW s \in Servers, FillOrder(s)
    PROVE  TypeInv'
<1> DEFINE order == call[s].order
           price == SimulateFill(order)
           o == OrderWithFill(order, order.qty, price)
           c == [call[s] EXCEPT !.order = o]
<1>1. call[s] \in CallType /\ call[s].intent # None
  BY DEF FillOrder, At, TypeInv, TypeOK, Steps
<1>2. order \in OrderType
  BY DEF FillOrder, At, TypeInv, CallWellFormed, StepNeeds
<1>3. price \in Raw /\ order.qty \in Raw /\ order.instr \in Instruments
  BY <1>2, SimulateFillType DEF FillOrder, Option, OrderType
<1>4. call' = [call EXCEPT ![s] = c]
  BY <1>1 DEF FillOrder, TypeInv, TypeOK, CallType
<1>5. acct' = [acct EXCEPT ![s] =
                 ApplyFill(acct[s], order.instr, order.side, order.qty, price)]
  BY DEF FillOrder
<1>6. order.fills \in Seq(FillType)
  BY <1>2 DEF OrderType
<1>7. call[s].intent \in Intents
  BY <1>1 DEF CallType, Option
<1>8. Key(s) \in Keys
  BY <1>7, ExecutionAssumption DEF Key, IntentType
<1> HIDE DEF order, price
<1>9. o \in OrderType /\ o.fills # << >>
  <2> DEFINE f == [qty |-> order.qty, price |-> price]
  <2>1. o \in OrderType /\ o.fills = Append(order.fills, f)
    BY <1>2, <1>3, OrderWithFillType
  <2>2. f \in FillType
    BY <1>3 DEF FillType
  <2> HIDE DEF f, o
  <2>3. Append(order.fills, f) # << >>
    BY <1>6, <2>2
  <2> QED BY <2>1, <2>3
<1> HIDE DEF o
<1>10. c \in CallType /\ c.intent # None /\ c.order = o
  BY <1>1, <1>9 DEF CallType, Option
<1> HIDE DEF c
<1>11. "release" \in Steps /\ At(s, "fill", "release")
  BY DEF Steps, FillOrder
<1>12. StepNeeds(c, "release")
  BY <1>9, <1>10 DEF StepNeeds
<1>13. acct' \in [Servers -> AccountType]
  <2>1. acct \in [Servers -> AccountType]
    BY DEF TypeInv, TypeOK
  <2>2. ApplyFill(acct[s], order.instr, order.side, order.qty, price) \in AccountType
    BY <1>3, <2>1, ApplyFillType
  <2> QED BY <1>5, <2>1, <2>2
<1>14. applied' \in [Servers -> [Keys -> Nat]]
  BY <1>8 DEF FillOrder, TypeInv, TypeOK
<1> QED
  BY <1>4, <1>10, <1>11, <1>12, <1>13, <1>14, CallStep
  DEF FillOrder, TypeInv, TypeOK

LEMMA LeaveOpenType ==
    ASSUME TypeInv, NEW s \in Servers, LeaveOpen(s)
    PROVE  TypeInv'
<1>1. call[s] \in CallType /\ call[s].intent # None
  BY DEF LeaveOpen, At, TypeInv, TypeOK, Steps
<1>2. call' = [call EXCEPT ![s] = call[s]]
  BY DEF LeaveOpen, TypeInv, TypeOK
<1>3. StepNeeds(call[s], "fill")
  BY DEF LeaveOpen, At, TypeInv, CallWellFormed
<1>4. StepNeeds(call[s], "release") /\ "release" \in Steps /\ At(s, "fill", "release")
  BY <1>3 DEF StepNeeds, Steps, LeaveOpen
<1> QED BY <1>1, <1>2, <1>4, CallStep DEF LeaveOpen, TypeInv, TypeOK

LEMMA ReleaseType ==
    ASSUME TypeInv, NEW s \in Servers, Release(s)
    PROVE  TypeInv'
<1> DEFINE w == VenueWarning(call[s].order.venue, call[s].now)
           c == [call[s] EXCEPT !.outcome = [Allow EXCEPT !.warning = w]]
<1>1. call[s] \in CallType /\ call[s].intent # None
  BY DEF Release, At, TypeInv, TypeOK, Steps
<1>2. StepNeeds(call[s], "release")
  BY DEF Release, At, TypeInv, CallWellFormed
<1>3. w \in Warnings
  BY DEF VenueWarning, Warnings
<1>4. call' = [call EXCEPT ![s] = c]
  BY DEF Release, TypeInv, TypeOK
<1> HIDE DEF w
<1>5. [Allow EXCEPT !.warning = w] \in OutcomeType
  BY <1>3, AllowType DEF OutcomeType
<1>6. /\ c \in CallType /\ c.intent # None /\ c.order = call[s].order
      /\ c.outcome \in OutcomeType
  BY <1>1, <1>5 DEF CallType, Option
<1> HIDE DEF c
<1>7. "read" \in Steps /\ At(s, "release", "read")
  BY DEF Steps, Release
<1>8. StepNeeds(c, "read")
  BY <1>2, <1>6 DEF StepNeeds
<1>9. acct' \in [Servers -> AccountType]
  <2>1. acct \in [Servers -> AccountType]
    BY DEF TypeInv, TypeOK
  <2>2. acct[s].reserved \in Raw /\ call[s].estimate \in Raw
    BY <1>1, <2>1 DEF AccountType, CallType
  <2>3. SubOr(acct[s].reserved, call[s].estimate, 0) \in Raw
    BY <2>2, SubOrRaw, RawInt
  <2>4. [acct[s] EXCEPT !.reserved =
            SubOr(acct[s].reserved, call[s].estimate, 0)] \in AccountType
    BY <2>1, <2>3 DEF AccountType
  <2> QED BY <2>1, <2>4 DEF Release
<1> QED BY <1>4, <1>6, <1>7, <1>8, <1>9, CallStep DEF Release, TypeInv, TypeOK

\* The hash at the end of the table is a history of records.
LEMMA LastHashType ==
    ASSUME rows \in Seq(RowType)
    PROVE  LastContentHash(rows) \in Seq(RecordType)
<1>1. CASE rows = << >>
  BY <1>1 DEF LastContentHash, GenesisHash
<1>2. CASE rows # << >>
  <2>1. rows[Len(rows)] \in RowType
    BY <1>2
  <2> QED BY <1>2, <2>1 DEF LastContentHash, RowType
<1> QED BY <1>1, <1>2

LEMMA ReadPrevType ==
    ASSUME TypeInv, NEW s \in Servers, ReadPrev(s)
    PROVE  TypeInv'
<1> DEFINE c == [call[s] EXCEPT !.prev = LastContentHash(rows)]
<1>1. call[s] \in CallType /\ call[s].intent # None
  BY DEF ReadPrev, At, TypeInv, TypeOK, Steps
<1>2. StepNeeds(call[s], "read")
  BY DEF ReadPrev, At, TypeInv, CallWellFormed
<1>3. call' = [call EXCEPT ![s] = c]
  BY DEF ReadPrev, TypeInv, TypeOK
<1>4. LastContentHash(rows) \in Seq(RecordType)
  BY LastHashType DEF TypeInv, TypeOK
<1>5. /\ c \in CallType /\ c.intent # None /\ c.order = call[s].order
      /\ c.outcome = call[s].outcome
  BY <1>1, <1>4 DEF CallType
<1> HIDE DEF c
<1>6. "insert" \in Steps /\ At(s, "read", "insert")
  BY DEF Steps, ReadPrev
<1>7. StepNeeds(c, "insert")
  BY <1>2, <1>5 DEF StepNeeds
<1> QED BY <1>3, <1>5, <1>6, <1>7, CallStep DEF ReadPrev, TypeInv, TypeOK
\* A record at the point of insertion is well-formed.
LEMMA RecordAtInsert ==
    ASSUME TypeInv, NEW s \in Servers, pc[s] = "insert"
    PROVE  /\ RecordOf(s) \in RecordType
           /\ NewRow(RecordOf(s), call[s].prev) \in RowType
<1>1. call[s] \in CallType /\ call[s].intent # None
  BY DEF TypeInv, TypeOK, Steps
<1>2. call[s].outcome \in OutcomeType
  BY DEF TypeInv, CallWellFormed, StepNeeds
<1>3. call[s].intent \in Intents
  BY <1>1 DEF CallType, Option
<1>4. Key(s) \in Keys
  BY <1>3, ExecutionAssumption DEF Key, IntentType
<1>5. /\ call[s].now \in Nat /\ call[s].order \in Option(OrderType)
      /\ call[s].prev \in Seq(RecordType)
  BY <1>1 DEF CallType
<1>6. RecordOf(s) \in RecordType
  BY <1>2, <1>4, <1>5 DEF RecordOf, RecordType
<1>7. Append(call[s].prev, RecordOf(s)) \in Seq(RecordType)
  BY <1>5, <1>6
<1> QED BY <1>5, <1>6, <1>7 DEF NewRow, ContentHash, RowType

\* Booking a well-formed order leaves an account an account.
LEMMA ApplyOrderType ==
    ASSUME NEW a \in AccountType, NEW o \in Option(OrderType),
           o # None /\ o.state = "filled" => o.fills # << >>
    PROVE  /\ ApplyOrder(a, o) \in AccountType
           /\ ApplyOrder(a, o).reserved = a.reserved
<1>1. CASE o = None \/ o.state # "filled"
  BY <1>1 DEF ApplyOrder
<1>2. CASE ~(o = None \/ o.state # "filled")
  <2>1. o \in OrderType /\ o.fills # << >>
    BY <1>2 DEF Option
  <2>2. /\ o.instr \in Instruments /\ o.qty \in Raw
        /\ o.fills \in Seq(FillType)
    BY <2>1 DEF OrderType
  <2>3. o.fills[1] \in FillType
    BY <2>1, <2>2
  <2>4. o.fills[1].price \in Raw
    BY <2>3 DEF FillType
  <2> QED BY <1>2, <2>2, <2>4, ApplyFillType DEF ApplyOrder
<1> QED BY <1>1, <1>2

LEMMA InsertType ==
    ASSUME TypeInv, NEW s \in Servers, Insert(s)
    PROVE  TypeInv'
<1>1. call[s] \in CallType /\ call[s].intent # None /\ pc[s] = "insert"
  BY DEF Insert, At, TypeInv, TypeOK, Steps
<1>2. call' = [call EXCEPT ![s] = call[s]]
  BY DEF Insert, TypeInv, TypeOK
<1>3. StepNeeds(call[s], "insert")
  BY <1>1 DEF TypeInv, CallWellFormed
<1>4. StepNeeds(call[s], "reply") /\ "reply" \in Steps /\ At(s, "insert", "reply")
  BY DEF StepNeeds, Steps, Insert
<1>5. rows' \in Seq(RowType)
  <2>1. NewRow(RecordOf(s), call[s].prev) \in RowType
    BY <1>1, RecordAtInsert
  <2> QED BY <2>1 DEF Insert, TypeInv, TypeOK
<1>6. booked' \in [Servers -> AccountType]
  <2>1. booked \in [Servers -> AccountType]
    BY DEF TypeInv, TypeOK
  <2>2. ApplyOrder(booked[s], call[s].order) \in AccountType
    BY <1>1, <1>3, <2>1, ApplyOrderType DEF StepNeeds, CallType
  <2> QED BY <2>1, <2>2 DEF Insert
<1> QED BY <1>1, <1>2, <1>4, <1>5, <1>6, CallStep DEF Insert, TypeInv, TypeOK

\* A call that failed is well-formed for its reply.
LEMMA FailCall ==
    ASSUME TypeInv, NEW s \in Servers, pc[s] \in Steps, Fail(s)
    PROVE  \E c \in CallType : /\ c.intent # None /\ StepNeeds(c, "reply")
                              /\ call' = [call EXCEPT ![s] = c]
<1> DEFINE c == [call[s] EXCEPT !.outcome = None, !.order = None]
<1>1. call[s] \in CallType /\ call[s].intent # None
  BY DEF TypeInv, TypeOK
<1>2. c \in CallType /\ c.intent # None
  BY <1>1 DEF CallType, Option
<1>3. call' = [call EXCEPT ![s] = c]
  BY DEF Fail, TypeInv, TypeOK
<1>4. StepNeeds(c, "reply")
  BY DEF StepNeeds
<1> QED BY <1>2, <1>3, <1>4

LEMMA InsertConflictType ==
    ASSUME TypeInv, NEW s \in Servers, InsertConflict(s)
    PROVE  TypeInv'
<1>1. "reply" \in Steps /\ At(s, "insert", "reply") /\ pc[s] \in Steps /\ Fail(s)
  BY DEF Steps, InsertConflict, At
<1>2. PICK c \in CallType : /\ c.intent # None /\ StepNeeds(c, "reply")
                           /\ call' = [call EXCEPT ![s] = c]
  BY <1>1, FailCall
<1> QED BY <1>1, <1>2, CallStep DEF InsertConflict, TypeInv, TypeOK

LEMMA StoreFailureType ==
    ASSUME TypeInv, NEW s \in Servers, StoreFailure(s)
    PROVE  TypeInv'
<1>1. PICK from \in {"find", "read", "insert"} : At(s, from, "reply")
  BY DEF StoreFailure
<1>2. "reply" \in Steps /\ pc[s] \in Steps /\ Fail(s)
  BY <1>1 DEF Steps, StoreFailure, At
<1>3. PICK c \in CallType : /\ c.intent # None /\ StepNeeds(c, "reply")
                           /\ call' = [call EXCEPT ![s] = c]
  BY <1>2, FailCall
<1>4. failures' \in 0..MaxStoreFailures
  BY ExecutionAssumption DEF StoreFailure, TypeInv, TypeOK
<1> QED BY <1>1, <1>2, <1>3, <1>4, CallStep DEF StoreFailure, TypeInv, TypeOK

\* A server that is left without a call keeps the invariant.
LEMMA NoCallStep ==
    ASSUME TypeInv, NEW s \in Servers, NEW to \in {"idle", "down"},
           pc' = [pc EXCEPT ![s] = to], call' = [call EXCEPT ![s] = NoCall]
    PROVE  /\ pc' \in [Servers -> Steps \cup {"idle", "down"}]
           /\ call' \in [Servers -> CallType]
           /\ \A t \in Servers : pc'[t] \in Steps <=> call'[t].intent # None
           /\ CallWellFormed'
<1>1. /\ pc \in [Servers -> Steps \cup {"idle", "down"}]
      /\ call \in [Servers -> CallType]
      /\ \A t \in Servers : pc[t] \in Steps <=> call[t].intent # None
      /\ \A t \in Servers : StepNeeds(call[t], pc[t])
  BY DEF TypeInv, TypeOK, CallWellFormed
<1>2. \A t \in Servers : /\ pc'[t] = IF t = s THEN to ELSE pc[t]
                         /\ call'[t] = IF t = s THEN NoCall ELSE call[t]
  BY <1>1
<1>3. NoCall.intent = None /\ to \notin Steps
  BY DEF NoCall, Steps
<1>4. StepNeeds(NoCall, to)
  BY DEF StepNeeds
<1>5. \A t \in Servers : StepNeeds(call'[t], pc'[t])
  BY <1>1, <1>2, <1>4
<1> QED BY <1>1, <1>2, <1>3, <1>5, NoCallType DEF CallWellFormed

LEMMA ReplyType ==
    ASSUME TypeInv, NEW s \in Servers, Reply(s)
    PROVE  TypeInv'
<1>1. call[s] \in CallType /\ call[s].intent # None
  BY DEF Reply, At, TypeInv, TypeOK, Steps
<1>2. pc' = [pc EXCEPT ![s] = "idle"] /\ call' = [call EXCEPT ![s] = NoCall]
  BY DEF Reply, At
<1>3. replied' \in [Keys -> SUBSET ResultType]
  <2> DEFINE r == [outcome |-> call[s].outcome, order |-> call[s].order]
  <2>1. call[s].outcome # None => r \in ResultType
    BY <1>1 DEF CallType, ResultType, Option
  <2> HIDE DEF r
  <2>2. replied' = IF call[s].outcome = None THEN replied
                   ELSE [replied EXCEPT ![Key(s)] = @ \cup {r}]
    BY DEF Reply, r
  <2> QED BY <2>1, <2>2 DEF TypeInv, TypeOK
<1> QED BY <1>2, <1>3, NoCallStep DEF Reply, TypeInv, TypeOK

LEMMA CrashType ==
    ASSUME TypeInv, NEW s \in Servers, Crash(s)
    PROVE  TypeInv'
<1>1. pc' = [pc EXCEPT ![s] = "down"] /\ call' = [call EXCEPT ![s] = NoCall]
  BY DEF Crash
<1>2. /\ acct' \in [Servers -> AccountType]
      /\ booked' \in [Servers -> AccountType]
      /\ applied' \in [Servers -> [Keys -> Nat]]
  BY NewAccountType DEF Crash, FreshAccount, TypeInv, TypeOK
<1> QED BY <1>1, <1>2, NoCallStep DEF Crash, TypeInv, TypeOK

LEMMA RestartType ==
    ASSUME TypeInv, NEW s \in Servers, Restart(s)
    PROVE  TypeInv'
<1>1. pc[s] = "down" /\ pc' = [pc EXCEPT ![s] = "idle"] /\ UNCHANGED call
  BY DEF Restart, At
<1>2. pc' \in [Servers -> Steps \cup {"idle", "down"}]
  BY <1>1 DEF TypeInv, TypeOK
<1>3. \A t \in Servers : pc'[t] \in Steps <=> call'[t].intent # None
  BY <1>1 DEF TypeInv, TypeOK, Steps
<1>4. CallWellFormed'
  BY <1>1 DEF TypeInv, TypeOK, CallWellFormed, StepNeeds
<1> QED BY <1>2, <1>3, <1>4 DEF Restart, TypeInv, TypeOK

LEMMA TypeInvNext == TypeInv /\ [Next]_vars => TypeInv'
<1> SUFFICES ASSUME TypeInv, [Next]_vars PROVE TypeInv'
  OBVIOUS
<1>1. ASSUME NEW s \in Servers,
             Submit(s) \/ ServerStep(s) \/ Crash(s) \/ Restart(s)
      PROVE  TypeInv'
  <2>1. CASE ServerStep(s)
    BY <2>1, FindHitType, FindMissType, RefuseType, AcceptType, RiskRejectType,
       ReserveRiskType, FillOrderType, LeaveOpenType, ReleaseType, ReadPrevType,
       InsertType, InsertConflictType, StoreFailureType, ReplyType
    DEF ServerStep
  <2> QED BY <1>1, <2>1, SubmitType, CrashType, RestartType
<1>2. CASE UNCHANGED vars
  BY <1>2 DEF vars, TypeInv, TypeOK, CallWellFormed
<1> QED BY <1>1, <1>2 DEF Next

LEMMA TypeInvariant == Spec => []TypeInv
BY TypeInvInit, TypeInvNext, PTL DEF Spec

\* Every variable keeps its type through every step of the protocol, crashes
\* and failing store statements included.
THEOREM TypeCorrect == Spec => []TypeOK
<1>1. TypeInv => TypeOK
  BY DEF TypeInv
<1> QED BY <1>1, TypeInvariant, PTL


-----------------------------------------------------------------------------
(* Replies.                                                                *)

\* A step that leaves the rows and the replies alone and brings no call to
\* an answer keeps the invariant.
LEMMA ReplyQuiet ==
    ASSUME ReplyInv, UNCHANGED <<rows, replied>>,
           \A t \in Servers : pc'[t] = "reply" /\ call'[t].outcome # None =>
                                  pc[t] = "reply" /\ call'[t] = call[t]
    PROVE  ReplyInv'
<1>1. AnswerRecorded'
  BY DEF ReplyInv, AnswerRecorded, AnswersWith
<1> QED BY <1>1 DEF ReplyInv, OneRowPerKey, RepliesMatchRecord

LEMMA FindHitReply ==
    ASSUME TypeInv, ReplyInv, NEW s \in Servers, FindHit(s)
    PROVE  ReplyInv'
<1>1. rows \in Seq(RowType) /\ Recorded(rows, Key(s))
  BY DEF FindHit, TypeInv, TypeOK
<1>2. PICK n \in DOMAIN rows :
          /\ FindByIdempotencyKey(rows, Key(s)) = rows[n].rec
          /\ rows[n].rec.key = Key(s)
  BY <1>1, FoundRecord
<1>3. call[s] \in CallType
  BY DEF TypeInv, TypeOK
<1>4. /\ call'[s].outcome = rows[n].rec.outcome
      /\ call'[s].order = rows[n].rec.order
      /\ call'[s].intent = call[s].intent
  BY <1>2, <1>3 DEF FindHit, TypeInv, TypeOK, CallType
<1>5. AnswersWith(call'[s], rows'[n])
  BY <1>2, <1>4 DEF AnswersWith, Key, FindHit
<1>6. \A t \in Servers \ {s} : pc'[t] = pc[t] /\ call'[t] = call[t]
  BY DEF FindHit, At, TypeInv, TypeOK
<1>7. AnswerRecorded'
  <2>1. rows' = rows
    BY DEF FindHit
  <2>2. \A t \in Servers \ {s} :
            pc'[t] = "reply" /\ call'[t].outcome # None =>
                \E m \in DOMAIN rows' : AnswersWith(call'[t], rows'[m])
    BY <1>6, <2>1 DEF ReplyInv, AnswerRecorded
  <2> QED BY <1>5, <2>1, <2>2 DEF AnswerRecorded
<1> QED BY <1>7 DEF ReplyInv, OneRowPerKey, RepliesMatchRecord, FindHit

LEMMA InsertReply ==
    ASSUME TypeInv, ReplyInv, NEW s \in Servers, Insert(s)
    PROVE  ReplyInv'
<1> DEFINE row == NewRow(RecordOf(s), call[s].prev)
           last == Len(rows) + 1
<1>1. rows \in Seq(RowType) /\ row \in RowType
  BY RecordAtInsert DEF Insert, At, TypeInv, TypeOK
<1>2. row.rec.key = Key(s) /\ row.rec.outcome = call[s].outcome
      /\ row.rec.order = call[s].order
  BY DEF NewRow, RecordOf
<1>3. rows' = Append(rows, row)
  BY DEF Insert
<1> HIDE DEF row
<1>4. /\ DOMAIN rows' = 1..last /\ DOMAIN rows = 1..Len(rows)
      /\ \A n \in DOMAIN rows : n \in DOMAIN rows' /\ rows'[n] = rows[n]
      /\ rows'[last] = row /\ last \in DOMAIN rows'
      /\ Len(rows) \in Nat
  BY <1>1, <1>3
<1>5. \A n \in DOMAIN rows' : n \in DOMAIN rows \/ n = last
  BY <1>4
<1>6. \A n \in DOMAIN rows : rows[n].rec.key # Key(s)
  BY DEF Insert, Recorded, RowsOf
<1>7. OneRowPerKey'
  BY <1>2, <1>4, <1>5, <1>6 DEF ReplyInv, OneRowPerKey
<1>8. RepliesMatchRecord'
  <2>1. replied' = replied
    BY DEF Insert
  <2> QED BY <1>4, <2>1 DEF ReplyInv, RepliesMatchRecord
<1>9. AnswerRecorded'
  <2>1. call' = call /\ \A t \in Servers \ {s} : pc'[t] = pc[t]
    BY DEF Insert, At, TypeInv, TypeOK
  <2>2. AnswersWith(call'[s], rows'[last])
    BY <1>2, <1>4, <2>1 DEF AnswersWith, Key
  <2>4. ASSUME NEW t \in Servers, pc'[t] = "reply", call'[t].outcome # None
        PROVE  \E n \in DOMAIN rows' : AnswersWith(call'[t], rows'[n])
    <3>1. CASE t = s
      BY <1>4, <2>2, <3>1
    <3>2. CASE t # s
      <4>1. PICK n \in DOMAIN rows : AnswersWith(call[t], rows[n])
        BY <2>1, <2>4, <3>2 DEF ReplyInv, AnswerRecorded
      <4>2. AnswersWith(call'[t], rows'[n])
        BY <1>4, <2>1, <4>1 DEF AnswersWith
      <4> QED BY <1>4, <4>2
    <3> QED BY <3>1, <3>2
  <2> QED BY <2>1, <2>4 DEF AnswerRecorded
<1> QED BY <1>7, <1>8, <1>9 DEF ReplyInv

LEMMA ReplyReply ==
    ASSUME TypeInv, ReplyInv, NEW s \in Servers, Reply(s)
    PROVE  ReplyInv'
<1>1. rows' = rows
  BY DEF Reply
<1>2. AnswerRecorded'
  <2>1. \A t \in Servers : /\ pc'[t] = IF t = s THEN "idle" ELSE pc[t]
                           /\ t # s => call'[t] = call[t]
    BY DEF Reply, At, TypeInv, TypeOK
  <2> QED BY <1>1, <2>1 DEF ReplyInv, AnswerRecorded, AnswersWith
<1>3. RepliesMatchRecord'
  <2>1. CASE call[s].outcome = None
    BY <1>1, <2>1 DEF Reply, ReplyInv, RepliesMatchRecord
  <2>2. CASE call[s].outcome # None
    <3> DEFINE r == [outcome |-> call[s].outcome, order |-> call[s].order]
    <3>1. PICK n \in DOMAIN rows : AnswersWith(call[s], rows[n])
      BY <2>2 DEF Reply, At, ReplyInv, AnswerRecorded
    <3>2. /\ rows[n].rec.key = Key(s)
          /\ r.outcome = rows[n].rec.outcome /\ r.order = rows[n].rec.order
      BY <3>1 DEF AnswersWith, Key
    <3>3. replied' = [replied EXCEPT ![Key(s)] = @ \cup {r}]
      BY <2>2 DEF Reply
    <3> HIDE DEF r
    <3>4. \A k \in Keys : \A x \in replied'[k] :
              x \in replied[k] \/ (k = Key(s) /\ x = r)
      BY <3>3 DEF TypeInv, TypeOK
    <3> QED BY <1>1, <3>2, <3>4 DEF ReplyInv, RepliesMatchRecord
  <2> QED BY <2>1, <2>2
<1> QED BY <1>1, <1>2, <1>3 DEF ReplyInv, OneRowPerKey

LEMMA ReplyInvNext == TypeInv /\ ReplyInv /\ [Next]_vars => ReplyInv'
<1> SUFFICES ASSUME TypeInv, ReplyInv, [Next]_vars PROVE ReplyInv'
  OBVIOUS
<1>0. /\ pc \in [Servers -> Steps \cup {"idle", "down"}]
      /\ call \in [Servers -> CallType]
  BY DEF TypeInv, TypeOK
<1>1. ASSUME NEW s \in Servers,
             Submit(s) \/ FindMiss(s) \/ Refuse(s) \/ Accept(s) \/ RiskReject(s)
             \/ ReserveRisk(s) \/ FillOrder(s) \/ LeaveOpen(s) \/ Release(s)
             \/ ReadPrev(s) \/ Crash(s) \/ Restart(s)
      PROVE  ReplyInv'
  <2>1. UNCHANGED <<rows, replied>>
    BY <1>1 DEF Submit, FindMiss, Refuse, Accept, RiskReject, ReserveRisk,
       FillOrder, LeaveOpen, Release, ReadPrev, Crash, Restart
  <2>2. pc'[s] # "reply" /\ \A t \in Servers \ {s} : pc'[t] = pc[t]
    BY <1>0, <1>1 DEF At, Submit, FindMiss, Refuse, Accept, RiskReject,
       ReserveRisk, FillOrder, LeaveOpen, Release, ReadPrev, Crash, Restart
  <2>3. \A t \in Servers \ {s} : call'[t] = call[t]
    BY <1>0, <1>1 DEF Submit, FindMiss, Refuse, Accept, RiskReject,
       ReserveRisk, FillOrder, LeaveOpen, Release, ReadPrev, Crash, Restart
  <2> QED BY <2>1, <2>2, <2>3, ReplyQuiet, SMTT(30)
<1>2. ASSUME NEW s \in Servers, InsertConflict(s) \/ StoreFailure(s)
      PROVE  ReplyInv'
  <2>1. UNCHANGED <<rows, replied>> /\ Fail(s)
    BY <1>2 DEF InsertConflict, StoreFailure
  <2>2. \A t \in Servers \ {s} : pc'[t] = pc[t] /\ call'[t] = call[t]
    BY <1>0, <1>2 DEF At, InsertConflict, StoreFailure, Fail
  <2>3. call'[s].outcome = None
    BY <1>0, <2>1 DEF Fail, CallType
  <2> QED BY <2>1, <2>2, <2>3, ReplyQuiet
<1>3. CASE UNCHANGED vars
  BY <1>3, ReplyQuiet DEF vars
<1>4. ASSUME NEW s \in Servers,
             Submit(s) \/ ServerStep(s) \/ Crash(s) \/ Restart(s)
      PROVE  ReplyInv'
  BY <1>1, <1>2, <1>4, FindHitReply, InsertReply, ReplyReply DEF ServerStep
<1> QED BY <1>3, <1>4 DEF Next

LEMMA ReplyInvariant == Spec => []ReplyInv
<1>1. Init => ReplyInv
  BY DEF Init, ReplyInv, OneRowPerKey, RepliesMatchRecord, AnswerRecorded
<1> QED BY <1>1, ReplyInvNext, TypeInvariant, PTL DEF Spec

\* However many processes share the database, whatever fails and whatever
\* dies, a key has one row ...
THEOREM OneRow == Spec => []OneRowPerKey
<1>1. ReplyInv => OneRowPerKey
  BY DEF ReplyInv
<1> QED BY <1>1, ReplyInvariant, PTL

\* ... and every answer a caller was ever given for the key is that row's.
THEOREM OriginalOutcome == Spec => []RepliesMatchRecord
<1>1. ReplyInv => RepliesMatchRecord
  BY DEF ReplyInv
<1> QED BY <1>1, ReplyInvariant, PTL
-----------------------------------------------------------------------------
(* Fills.                                                                  *)

\* A step within a call that applies no fill keeps the invariant unless it
\* abandons a filled order or skips the lookup.
LEMMA FillQuiet ==
    ASSUME FillInv, NEW s \in Servers, UNCHANGED <<rows, applied>>,
           call'[s].intent = call[s].intent,
           \A t \in Servers \ {s} : pc'[t] = pc[t] /\ call'[t] = call[t],
           pc[s] \in {"release", "read", "insert"} =>
               pc'[s] \in {"release", "read", "insert"} \/ Recorded(rows, Key(s)),
           pc'[s] \in {"gates", "reserve", "fill"} =>
               pc[s] \in {"gates", "reserve", "fill"} \/ applied[s][Key(s)] = 0
    PROVE  FillInv'
<1>1. AtMostOneFillPerKey'
  BY DEF FillInv, AtMostOneFillPerKey
<1>2. FillsAccountedFor'
  BY DEF FillInv, FillsAccountedFor, Key
<1>3. FirstFill'
  BY DEF FillInv, FirstFill, Key
<1> QED BY <1>1, <1>2, <1>3 DEF FillInv

LEMMA FillOrderFill ==
    ASSUME TypeInv, FillInv, NEW s \in Servers, FillOrder(s)
    PROVE  FillInv'
<1>0. /\ pc[s] = "fill" /\ pc'[s] = "release" /\ rows' = rows
      /\ call[s] \in CallType /\ call[s].intent # None
      /\ \A t \in Servers \ {s} : pc'[t] = pc[t] /\ call'[t] = call[t]
  BY DEF FillOrder, At, TypeInv, TypeOK, Steps
<1>1. call'[s].intent = call[s].intent
  BY <1>0 DEF FillOrder, CallType, TypeInv, TypeOK
<1>2. Key(s) \in Keys
  BY <1>0, ExecutionAssumption DEF Key, IntentType, CallType, Option
<1>3. applied[s][Key(s)] = 0
  BY <1>0 DEF FillInv, FirstFill
<1>4. \A t \in Servers, k \in Keys :
          applied'[t][k] = IF t = s /\ k = Key(s) THEN 1 ELSE applied[t][k]
  BY <1>2, <1>3 DEF FillOrder, TypeInv, TypeOK
<1>5. AtMostOneFillPerKey'
  BY <1>4 DEF FillInv, AtMostOneFillPerKey
<1>6. FillsAccountedFor'
  BY <1>0, <1>1, <1>4 DEF FillInv, FillsAccountedFor, Key
<1>7. FirstFill'
  <2> SUFFICES ASSUME NEW t \in Servers, pc'[t] \in {"gates", "reserve", "fill"}
               PROVE  applied'[t][call'[t].intent.key] = 0
    BY DEF FirstFill, Key
  <2>1. t # s /\ pc[t] = pc'[t] /\ call'[t] = call[t]
    BY <1>0
  <2>2. applied'[t] = applied[t]
    BY <2>1 DEF FillOrder, TypeInv, TypeOK
  <2> QED BY <2>1, <2>2 DEF FillInv, FirstFill, Key
<1> QED BY <1>5, <1>6, <1>7 DEF FillInv

\* The row a call inserts records the call's key and forgets no other.
LEMMA InsertRecords ==
    ASSUME TypeInv, NEW s \in Servers, Insert(s)
    PROVE  /\ Recorded(rows', Key(s))
           /\ \A k : Recorded(rows', k) <=> Recorded(rows, k) \/ k = Key(s)
<1> DEFINE row == NewRow(RecordOf(s), call[s].prev)
<1>1. rows \in Seq(RowType) /\ row \in RowType
  BY RecordAtInsert DEF Insert, At, TypeInv, TypeOK
<1>2. row.rec.key = Key(s)
  BY DEF NewRow, RecordOf
<1>3. rows' = Append(rows, row)
  BY DEF Insert
<1> HIDE DEF row
<1>4. /\ DOMAIN rows = 1..Len(rows) /\ DOMAIN rows' = 1..(Len(rows) + 1)
      /\ \A n \in DOMAIN rows : rows'[n] = rows[n]
      /\ rows'[Len(rows) + 1] = row /\ Len(rows) \in Nat
  BY <1>1, <1>3
<1>5. \A n : n \in DOMAIN rows' <=> n \in DOMAIN rows \/ n = Len(rows) + 1
  BY <1>4
<1> QED BY <1>2, <1>4, <1>5 DEF Recorded, RowsOf

LEMMA InsertFill ==
    ASSUME TypeInv, FillInv, NEW s \in Servers, Insert(s)
    PROVE  FillInv'
<1>1. /\ pc[s] = "insert" /\ pc'[s] = "reply" /\ call' = call
      /\ applied' = applied /\ \A t \in Servers \ {s} : pc'[t] = pc[t]
  BY DEF Insert, At, TypeInv, TypeOK
<1>2. AtMostOneFillPerKey' /\ FirstFill'
  BY <1>1 DEF FillInv, AtMostOneFillPerKey, FirstFill, Key
<1>3. FillsAccountedFor'
  BY <1>1, InsertRecords DEF FillInv, FillsAccountedFor, Key
<1> QED BY <1>2, <1>3 DEF FillInv

\* A call that begins or ends outside the filled steps.
LEMMA FillBoundary ==
    ASSUME TypeInv, FillInv, NEW s \in Servers, Submit(s) \/ Reply(s) \/ Restart(s)
    PROVE  FillInv'
<1>1. /\ UNCHANGED <<rows, applied>>
      /\ pc[s] \in {"idle", "reply", "down"} /\ pc'[s] \in {"find", "idle"}
      /\ \A t \in Servers \ {s} : pc'[t] = pc[t] /\ call'[t] = call[t]
  BY DEF Submit, Reply, Restart, At, TypeInv, TypeOK
<1>2. AtMostOneFillPerKey' /\ FirstFill'
  BY <1>1 DEF FillInv, AtMostOneFillPerKey, FirstFill, Key
<1>3. FillsAccountedFor'
  BY <1>1 DEF FillInv, FillsAccountedFor, Key
<1> QED BY <1>2, <1>3 DEF FillInv

LEMMA CrashFill ==
    ASSUME TypeInv, FillInv, NEW s \in Servers, Crash(s)
    PROVE  FillInv'
<1>1. /\ rows' = rows /\ pc'[s] = "down"
      /\ \A k \in Keys : applied'[s][k] = 0
      /\ \A t \in Servers \ {s} : /\ pc'[t] = pc[t] /\ call'[t] = call[t]
                                /\ applied'[t] = applied[t]
  BY DEF Crash, FreshAccount, TypeInv, TypeOK
<1>2. AtMostOneFillPerKey' /\ FirstFill'
  BY <1>1 DEF FillInv, AtMostOneFillPerKey, FirstFill, Key
<1>3. FillsAccountedFor'
  BY <1>1 DEF FillInv, FillsAccountedFor, Key
<1> QED BY <1>2, <1>3 DEF FillInv

\* The steps FillQuiet covers.
LEMMA QuietFill ==
    ASSUME TypeInv, FillInv, NEW s \in Servers,
           FindHit(s) \/ FindMiss(s) \/ Refuse(s) \/ Accept(s) \/ RiskReject(s)
           \/ ReserveRisk(s) \/ LeaveOpen(s) \/ Release(s) \/ ReadPrev(s)
           \/ InsertConflict(s)
    PROVE  FillInv'
<1>0. /\ pc \in [Servers -> Steps \cup {"idle", "down"}]
      /\ call \in [Servers -> CallType] /\ applied \in [Servers -> [Keys -> Nat]]
  BY DEF TypeInv, TypeOK
<1>1. UNCHANGED <<rows, applied>>
  BY DEF FindHit, FindMiss, Refuse, Accept, RiskReject, ReserveRisk, LeaveOpen,
     Release, ReadPrev, InsertConflict
<1>2. \A t \in Servers \ {s} : pc'[t] = pc[t]
  BY <1>0 DEF At, FindHit, FindMiss, Refuse, Accept, RiskReject, ReserveRisk,
     LeaveOpen, Release, ReadPrev, InsertConflict
<1>3. \A t \in Servers \ {s} : call'[t] = call[t]
  BY <1>0 DEF FindHit, FindMiss, Refuse, Accept, RiskReject, ReserveRisk,
     LeaveOpen, Release, ReadPrev, InsertConflict, Fail
<1>4. call'[s].intent = call[s].intent
  BY <1>0 DEF FindHit, FindMiss, Refuse, Accept, RiskReject, ReserveRisk,
     LeaveOpen, Release, ReadPrev, InsertConflict, Fail, CallType
<1>5. pc[s] \in {"release", "read", "insert"} =>
          pc'[s] \in {"release", "read", "insert"} \/ Recorded(rows, Key(s))
  BY <1>0 DEF At, FindHit, FindMiss, Refuse, Accept, RiskReject, ReserveRisk,
     LeaveOpen, Release, ReadPrev, InsertConflict
<1>6. CASE FindMiss(s)
  <2>1. call[s] \in CallType /\ call[s].intent # None /\ pc[s] = "find"
    BY <1>6 DEF FindMiss, At, TypeInv, TypeOK, Steps
  <2>2. Key(s) \in Keys
    BY <2>1, ExecutionAssumption DEF Key, IntentType, CallType, Option
  <2>3. ~(applied[s][Key(s)] > 0)
    BY <1>6, <2>1, <2>2 DEF FindMiss, FillInv, FillsAccountedFor
  <2>4. applied[s][Key(s)] = 0
    BY <1>0, <2>2, <2>3
  <2> QED BY <1>1, <1>2, <1>3, <1>4, <1>5, <2>4, FillQuiet
<1>7. CASE ~FindMiss(s)
  <2>1. pc'[s] \in {"gates", "reserve", "fill"} =>
            pc[s] \in {"gates", "reserve", "fill"}
    BY <1>0, <1>7 DEF At, FindHit, Refuse, Accept, RiskReject, ReserveRisk,
       LeaveOpen, Release, ReadPrev, InsertConflict
  <2> QED BY <1>1, <1>2, <1>3, <1>4, <1>5, <2>1, FillQuiet
<1> QED BY <1>6, <1>7

LEMMA FillInvNext ==
    ASSUME MaxStoreFailures = 0
    PROVE  TypeInv /\ FillInv /\ [Next]_vars => FillInv'
<1> SUFFICES ASSUME TypeInv, FillInv, [Next]_vars PROVE FillInv'
  OBVIOUS
<1>1. ASSUME NEW s \in Servers,
             Submit(s) \/ ServerStep(s) \/ Crash(s) \/ Restart(s)
      PROVE  FillInv'
  <2>1. ~StoreFailure(s)
    BY DEF StoreFailure, TypeInv, TypeOK
  <2> QED
    BY <1>1, <2>1, QuietFill, FillOrderFill, InsertFill, FillBoundary, CrashFill
    DEF ServerStep
<1>2. CASE UNCHANGED vars
  BY <1>2 DEF vars, FillInv, AtMostOneFillPerKey, FillsAccountedFor, FirstFill, Key
<1> QED BY <1>1, <1>2 DEF Next

\* As long as no store statement fails, no account is moved twice for a key,
\* whichever processes the retries reach and whichever intents reuse the key.
THEOREM OneFill ==
    ASSUME MaxStoreFailures = 0
    PROVE  Spec => []AtMostOneFillPerKey
<1>1. Init => FillInv
  BY DEF Init, FillInv, AtMostOneFillPerKey, FillsAccountedFor, FirstFill
<1>2. FillInv => AtMostOneFillPerKey
  BY DEF FillInv
<1> QED BY <1>1, <1>2, FillInvNext, TypeInvariant, PTL DEF Spec
-----------------------------------------------------------------------------
(* Reservations.                                                           *)

\* Outside the two steps that hold a reservation, a step that does not touch
\* the account keeps the invariant.
LEMMA ReserveQuiet ==
    ASSUME ReservationReleased, NEW s \in Servers, acct' = acct,
           \A t \in Servers \ {s} : pc'[t] = pc[t] /\ call'[t] = call[t],
           pc[s] \notin {"fill", "release"}, pc'[s] \notin {"fill", "release"}
    PROVE  ReservationReleased'
BY DEF ReservationReleased, IsBuy

LEMMA QuietReserve ==
    ASSUME TypeInv, ReservationReleased, NEW s \in Servers,
           Submit(s) \/ FindHit(s) \/ FindMiss(s) \/ Refuse(s) \/ Accept(s)
           \/ RiskReject(s) \/ ReadPrev(s) \/ Insert(s) \/ InsertConflict(s)
           \/ StoreFailure(s) \/ Reply(s) \/ Restart(s)
    PROVE  ReservationReleased'
<1>0. /\ pc \in [Servers -> Steps \cup {"idle", "down"}]
      /\ call \in [Servers -> CallType]
  BY DEF TypeInv, TypeOK
<1>1. acct' = acct
  BY DEF Submit, FindHit, FindMiss, Refuse, Accept, RiskReject, ReadPrev, Insert,
     InsertConflict, StoreFailure, Reply, Restart
<1>2. \A t \in Servers \ {s} : pc'[t] = pc[t]
  BY <1>0 DEF At, Submit, FindHit, FindMiss, Refuse, Accept, RiskReject, ReadPrev,
     Insert, InsertConflict, StoreFailure, Reply, Restart
<1>3. \A t \in Servers \ {s} : call'[t] = call[t]
  BY <1>0 DEF Submit, FindHit, FindMiss, Refuse, Accept, RiskReject, ReadPrev,
     Insert, InsertConflict, StoreFailure, Reply, Restart, Fail
<1>4. pc[s] \notin {"fill", "release"} /\ pc'[s] \notin {"fill", "release"}
  BY <1>0 DEF At, Submit, FindHit, FindMiss, Refuse, Accept, RiskReject, ReadPrev,
     Insert, InsertConflict, StoreFailure, Reply, Restart
<1> QED BY <1>1, <1>2, <1>3, <1>4, ReserveQuiet

\* The effect of ReserveRisk, FillOrder, LeaveOpen and Release on the call
\* and the reservation of their server.
LEMMA ReserveRiskReserve ==
    ASSUME TypeInv, ReservationReleased, NEW s \in Servers, ReserveRisk(s)
    PROVE  ReservationReleased'
<1>0. /\ pc[s] = "reserve" /\ pc'[s] = "fill"
      /\ call[s] \in CallType /\ call[s].order \in OrderType
      /\ acct \in [Servers -> AccountType]
      /\ \A t \in Servers \ {s} : pc'[t] = pc[t] /\ call'[t] = call[t] /\ acct'[t] = acct[t]
  BY DEF ReserveRisk, At, TypeInv, TypeOK, CallWellFormed, StepNeeds
<1>1. acct[s].reserved = 0 /\ call[s].estimate \in Raw
  BY <1>0 DEF ReservationReleased, CallType
<1>2. /\ call'[s].estimate = call[s].estimate
      /\ call'[s].order.side = call[s].order.side
  BY <1>0 DEF ReserveRisk, CallType, OrderType, TypeInv, TypeOK
<1>3. AddOr(0, call[s].estimate, 0) = call[s].estimate
  BY <1>1, AddOrZero
<1>4. acct'[s].reserved = IF IsBuy(s) THEN call[s].estimate ELSE 0
  BY <1>0, <1>1, <1>3 DEF ReserveRisk, AccountType
<1> QED BY <1>0, <1>2, <1>4 DEF ReservationReleased, IsBuy

LEMMA FillOrderReserve ==
    ASSUME TypeInv, ReservationReleased, NEW s \in Servers, FillOrder(s)
    PROVE  ReservationReleased'
<1> DEFINE order == call[s].order
           price == SimulateFill(order)
<1>0. /\ pc[s] = "fill" /\ pc'[s] = "release"
      /\ call[s] \in CallType /\ order \in OrderType
      /\ acct \in [Servers -> AccountType]
      /\ \A t \in Servers \ {s} : pc'[t] = pc[t] /\ call'[t] = call[t] /\ acct'[t] = acct[t]
  BY DEF FillOrder, At, TypeInv, TypeOK, CallWellFormed, StepNeeds
<1>1. price \in Raw /\ order.qty \in Raw /\ order.instr \in Instruments
  BY <1>0, SimulateFillType DEF FillOrder, Option, OrderType
<1>2. /\ call'[s].estimate = call[s].estimate
      /\ call'[s].order = OrderWithFill(order, order.qty, price)
  BY <1>0 DEF FillOrder, CallType, TypeInv, TypeOK
<1>3. OrderWithFill(order, order.qty, price).side = order.side
  BY <1>0 DEF OrderWithFill, OrderType
<1>4. acct'[s].reserved = acct[s].reserved
  <2>1. acct'[s] = ApplyFill(acct[s], order.instr, order.side, order.qty, price)
    BY <1>0 DEF FillOrder
  <2> HIDE DEF order, price
  <2> QED BY <1>0, <1>1, <2>1, ApplyFillType
<1> QED BY <1>0, <1>2, <1>3, <1>4 DEF ReservationReleased, IsBuy

LEMMA ReleaseReserve ==
    ASSUME TypeInv, ReservationReleased, NEW s \in Servers, Release(s)
    PROVE  ReservationReleased'
<1>0. /\ pc[s] = "release" /\ pc'[s] = "read"
      /\ call[s] \in CallType
      /\ acct \in [Servers -> AccountType]
      /\ \A t \in Servers \ {s} : pc'[t] = pc[t] /\ call'[t] = call[t] /\ acct'[t] = acct[t]
  BY DEF Release, At, TypeInv, TypeOK
<1>1. /\ call[s].estimate \in Raw
      /\ acct[s].reserved = IF IsBuy(s) THEN call[s].estimate ELSE 0
  BY <1>0 DEF ReservationReleased, CallType
<1>2. SubOr(call[s].estimate, call[s].estimate, 0) = 0
  BY <1>1, SubOrSelf
<1>3. acct'[s].reserved = 0
  BY <1>0, <1>1, <1>2 DEF Release, AccountType
<1> QED BY <1>0, <1>3 DEF ReservationReleased, IsBuy

LEMMA ReservationNext == TypeInv /\ ReservationReleased /\ [Next]_vars => ReservationReleased'
<1> SUFFICES ASSUME TypeInv, ReservationReleased, [Next]_vars
             PROVE  ReservationReleased'
  OBVIOUS
<1>1. ASSUME NEW s \in Servers, LeaveOpen(s)
      PROVE  ReservationReleased'
  BY <1>1 DEF LeaveOpen, At, TypeInv, TypeOK, ReservationReleased, IsBuy
<1>2. ASSUME NEW s \in Servers, Crash(s)
      PROVE  ReservationReleased'
  <2>1. acct'[s].reserved = 0 /\ pc'[s] = "down"
    BY <1>2 DEF Crash, FreshAccount, NewAccount, TypeInv, TypeOK
  <2>2. \A t \in Servers \ {s} : /\ pc'[t] = pc[t] /\ call'[t] = call[t]
                              /\ acct'[t] = acct[t]
    BY <1>2 DEF Crash, FreshAccount, TypeInv, TypeOK
  <2> QED BY <2>1, <2>2 DEF ReservationReleased, IsBuy
<1>3. ASSUME NEW s \in Servers,
             Submit(s) \/ ServerStep(s) \/ Crash(s) \/ Restart(s)
      PROVE  ReservationReleased'
  BY <1>1, <1>2, <1>3, QuietReserve, ReserveRiskReserve, FillOrderReserve,
     ReleaseReserve DEF ServerStep
<1>4. CASE UNCHANGED vars
  BY <1>4 DEF vars, ReservationReleased, IsBuy
<1> QED BY <1>3, <1>4 DEF Next

\* No path through the protocol leaves a reservation behind or changes its
\* amount, with any number of processes, failures and crashes.
THEOREM NoLeakedReservation == Spec => []ReservationReleased
<1>1. Init => ReservationReleased
  BY DEF Init, ReservationReleased, NewAccount
<1> QED BY <1>1, ReservationNext, TypeInvariant, PTL DEF Spec

-----------------------------------------------------------------------------
(* Steps and the table.                                                    *)

\* What an INSERT does to the table.
LEMMA InsertAppends ==
    ASSUME TypeInv, NEW s \in Servers, Insert(s)
    PROVE  /\ DOMAIN rows' = 1..(Len(rows) + 1) /\ DOMAIN rows = 1..Len(rows)
           /\ Len(rows) \in Nat
           /\ \A n \in DOMAIN rows : n \in DOMAIN rows' /\ rows'[n] = rows[n]
           /\ rows'[Len(rows) + 1] = NewRow(RecordOf(s), call[s].prev)
           /\ Len(rows') = Len(rows) + 1
<1> DEFINE row == NewRow(RecordOf(s), call[s].prev)
<1>1. rows \in Seq(RowType) /\ row \in RowType
  BY RecordAtInsert DEF Insert, At, TypeInv, TypeOK
<1>2. rows' = Append(rows, row)
  BY DEF Insert
<1> HIDE DEF row
<1>3. /\ DOMAIN rows' = 1..(Len(rows) + 1) /\ DOMAIN rows = 1..Len(rows)
      /\ Len(rows) \in Nat
      /\ \A n \in DOMAIN rows : n \in DOMAIN rows' /\ rows'[n] = rows[n]
      /\ rows'[Len(rows) + 1] = row
      /\ Len(rows') = Len(rows) + 1
  BY <1>1, <1>2, SMTT(30)
<1> QED BY <1>3 DEF row

\* No step but the INSERT writes the table.
LEMMA OnlyInsertWrites ==
    ASSUME NEW s \in Servers, ~Insert(s),
           Submit(s) \/ ServerStep(s) \/ Crash(s) \/ Restart(s)
    PROVE  rows' = rows
BY DEF ServerStep, Submit, FindHit, FindMiss, Refuse, Accept, RiskReject,
   ReserveRisk, FillOrder, LeaveOpen, Release, ReadPrev, InsertConflict,
   StoreFailure, Reply, Crash, Restart

\* A step of one server leaves the locals of the others alone.
LEMMA OthersKeepCall ==
    ASSUME TypeInv, NEW s \in Servers,
           Submit(s) \/ ServerStep(s) \/ Crash(s) \/ Restart(s)
    PROVE  \A t \in Servers \ {s} : pc'[t] = pc[t] /\ call'[t] = call[t]
<1>0. /\ pc \in [Servers -> Steps \cup {"idle", "down"}]
      /\ call \in [Servers -> CallType]
  BY DEF TypeInv, TypeOK
<1>1. \A t \in Servers \ {s} : pc'[t] = pc[t]
  BY <1>0 DEF ServerStep, At, Submit, FindHit, FindMiss, Refuse, Accept,
     RiskReject, ReserveRisk, FillOrder, LeaveOpen, Release, ReadPrev, Insert,
     InsertConflict, StoreFailure, Reply, Crash, Restart
<1>2. \A t \in Servers \ {s} : call'[t] = call[t]
  BY <1>0 DEF ServerStep, Submit, FindHit, FindMiss, Refuse, Accept,
     RiskReject, ReserveRisk, FillOrder, LeaveOpen, Release, ReadPrev, Insert,
     InsertConflict, StoreFailure, Fail, Reply, Crash, Restart
<1> QED BY <1>1, <1>2

-----------------------------------------------------------------------------
(* Decisions.                                                              *)

LEMMA InsertKeepsDecisions ==
    ASSUME TypeInv, NEW s \in Servers, Insert(s), NEW k, Recorded(rows, k)
    PROVE  /\ Recorded(rows', k)
           /\ FindByIdempotencyKey(rows', k) = FindByIdempotencyKey(rows, k)
<1>1. k # Key(s)
  BY DEF Insert
<1>2. NewRow(RecordOf(s), call[s].prev).rec.key = Key(s)
  BY DEF NewRow, RecordOf
<1>3. RowsOf(rows', k) = RowsOf(rows, k)
  <2>1. \A n \in DOMAIN rows' : n \in DOMAIN rows \/ n = Len(rows) + 1
    BY InsertAppends
  <2> QED BY <1>1, <1>2, <2>1, InsertAppends DEF RowsOf
<1>4. Recorded(rows', k)
  BY <1>3 DEF Recorded
<1> DEFINE found == CHOOSE n \in RowsOf(rows, k) : TRUE
<1>5. found \in RowsOf(rows, k)
  BY DEF Recorded
<1>6. rows'[found] = rows[found]
  BY <1>5, InsertAppends DEF RowsOf
<1>7. /\ FindByIdempotencyKey(rows', k) = rows'[found].rec
      /\ FindByIdempotencyKey(rows, k) = rows[found].rec
  BY <1>3, Zenon DEF FindByIdempotencyKey
<1> QED BY <1>4, <1>6, <1>7

\* Whatever other processes, resubmissions, failures and crashes follow, what
\* find_by_idempotency_key returns for a recorded key never changes.
THEOREM FinalDecision == Spec => DecisionIsFinal
<1> DEFINE Final == \A k \in Keys : Recorded(rows, k) =>
               /\ Recorded(rows', k)
               /\ FindByIdempotencyKey(rows', k) = FindByIdempotencyKey(rows, k)
<1>1. TypeInv /\ [Next]_vars => [Final]_vars
  <2> SUFFICES ASSUME TypeInv, Next PROVE Final
    OBVIOUS
  <2>1. PICK s \in Servers : Submit(s) \/ ServerStep(s) \/ Crash(s) \/ Restart(s)
    BY DEF Next
  <2>2. CASE Insert(s)
    BY <2>2, InsertKeepsDecisions
  <2>3. CASE ~Insert(s)
    <3>1. rows' = rows
      BY <2>1, <2>3, OnlyInsertWrites
    <3> QED BY <3>1
  <2> QED BY <2>2, <2>3
<1> QED BY <1>1, TypeInvariant, PTL DEF Spec, DecisionIsFinal

-----------------------------------------------------------------------------
(* Limits.                                                                 *)

\* A step that writes no row keeps the invariant if its call's order does.
LEMMA LimitQuiet ==
    ASSUME TypeInv, LimitInv, NEW s \in Servers, rows' = rows,
           Submit(s) \/ ServerStep(s) \/ Crash(s) \/ Restart(s),
           WithinLimit(call'[s].order)
    PROVE  LimitInv'
<1>1. \A t \in Servers \ {s} : call'[t] = call[t]
  BY OthersKeepCall
<1>2. \A t \in Servers : WithinLimit(call'[t].order)
  BY <1>1 DEF LimitInv
<1> QED BY <1>2 DEF LimitInv

\* The only fill of a limit order is at a touch its limit admits.
LEMMA FillWithinLimit ==
    ASSUME NEW o \in OrderType, o.fills = << >>, SimulateFill(o) # None
    PROVE  WithinLimit(OrderWithFill(o, o.qty, SimulateFill(o)))
<1> DEFINE price == SimulateFill(o)
           f == OrderWithFill(o, o.qty, price)
<1>1. price \in Raw /\ o.qty \in Raw
  BY SimulateFillType DEF Option, OrderType
<1>2. f.otype = o.otype /\ f.side = o.side /\ f.limit = o.limit
  BY DEF OrderWithFill, OrderType
<1>3. f.fills = Append(o.fills, [qty |-> o.qty, price |-> price])
  BY <1>1, OrderWithFillType
<1>4. DOMAIN f.fills = {1} /\ f.fills[1].price = price
  <2> HIDE DEF f, price
  <2> QED BY <1>3
<1>5. ASSUME o.otype \in {"limit", "limit-on-close"}
      PROVE  IF o.side \in BuySides THEN price <= o.limit ELSE price >= o.limit
  <2>1. /\ price = Touch(o)
        /\ IF o.side \in BuySides THEN o.limit >= Touch(o) ELSE o.limit <= Touch(o)
    BY <1>5 DEF SimulateFill
  <2>2. o.limit # None
    BY <1>5 DEF SimulateFill
  <2>3. o.limit \in Int /\ price \in Int
    BY <1>1, <2>2, RawInt DEF OrderType, Option
  <2>4. IF o.side \in BuySides THEN price <= o.limit ELSE price >= o.limit
    <3> HIDE DEF price
    <3> QED BY <2>1, <2>3
  <2> QED BY <2>4
<1> HIDE DEF f, price
<1>6. WithinLimit(f)
  BY <1>2, <1>4, <1>5 DEF WithinLimit
<1> QED BY <1>6 DEF f, price

LEMMA FillOrderLimit ==
    ASSUME TypeInv, LimitInv, NEW s \in Servers, FillOrder(s)
    PROVE  LimitInv'
<1>1. /\ pc[s] = "fill" /\ SimulateFill(call[s].order) # None
      /\ call[s] \in CallType
  BY DEF FillOrder, At, TypeInv, TypeOK
<1>2. call[s].order \in OrderType /\ call[s].order.fills = << >>
  BY <1>1 DEF TypeInv, CallWellFormed, StepNeeds
<1>3. call'[s].order =
          OrderWithFill(call[s].order, call[s].order.qty, SimulateFill(call[s].order))
  BY <1>1 DEF FillOrder, CallType, TypeInv, TypeOK
<1>4. WithinLimit(call'[s].order)
  BY <1>1, <1>2, <1>3, FillWithinLimit
<1>5. rows' = rows
  BY DEF FillOrder
<1> QED BY <1>4, <1>5, LimitQuiet DEF ServerStep

LEMMA FindHitLimit ==
    ASSUME TypeInv, LimitInv, NEW s \in Servers, FindHit(s)
    PROVE  LimitInv'
<1>1. rows \in Seq(RowType) /\ Recorded(rows, Key(s)) /\ pc[s] = "find"
  BY DEF FindHit, At, TypeInv, TypeOK
<1>2. PICK n \in DOMAIN rows : FindByIdempotencyKey(rows, Key(s)) = rows[n].rec
  BY <1>1, FoundRecord
<1>3. call'[s].order = rows[n].rec.order
  BY <1>2 DEF FindHit, TypeInv, TypeOK, CallType
<1>4. WithinLimit(call'[s].order)
  BY <1>3 DEF LimitInv
<1>5. rows' = rows
  BY DEF FindHit
<1> QED BY <1>4, <1>5, LimitQuiet DEF ServerStep

\* The steps that change at most the state of the order, start it without
\* fills or drop it.
LEMMA QuietLimit ==
    ASSUME TypeInv, LimitInv, NEW s \in Servers,
           Submit(s) \/ FindMiss(s) \/ Refuse(s) \/ Accept(s) \/ RiskReject(s)
           \/ ReserveRisk(s) \/ LeaveOpen(s) \/ Release(s) \/ ReadPrev(s)
           \/ InsertConflict(s) \/ StoreFailure(s) \/ Reply(s) \/ Crash(s)
           \/ Restart(s)
    PROVE  LimitInv'
<1>0. /\ call \in [Servers -> CallType] /\ call[s] \in CallType
      /\ WithinLimit(call[s].order) /\ WithinLimit(None)
  BY DEF TypeInv, TypeOK, LimitInv, WithinLimit
<1>1. ASSUME Submit(s) \/ Reply(s) \/ Crash(s)
      PROVE  call'[s].order = None
  <2>1. CASE Submit(s)
    BY <1>0, <2>1 DEF Submit, NoCall
  <2>2. CASE Reply(s) \/ Crash(s)
    BY <1>0, <2>2 DEF Reply, Crash, NoCall
  <2> QED BY <1>1, <2>1, <2>2
<1>2. ASSUME InsertConflict(s) \/ StoreFailure(s)
      PROVE  call'[s].order = None
  <2>1. Fail(s)
    BY <1>2 DEF InsertConflict, StoreFailure
  <2> QED BY <1>0, <2>1 DEF Fail, CallType
<1>3. ASSUME FindMiss(s) \/ Refuse(s) \/ LeaveOpen(s) \/ Release(s) \/ ReadPrev(s)
             \/ Restart(s)
      PROVE  call'[s].order = call[s].order
  BY <1>0, <1>3 DEF FindMiss, Refuse, LeaveOpen, Release, ReadPrev, Restart, CallType
<1>4. ASSUME RiskReject(s) \/ ReserveRisk(s)
      PROVE  WithinLimit(call'[s].order)
  <2>1. call[s].order \in OrderType
    BY <1>4 DEF RiskReject, ReserveRisk, At, TypeInv, CallWellFormed, StepNeeds
  <2>2. \E st : call'[s].order = [call[s].order EXCEPT !.state = st]
    <3>1. CASE RiskReject(s)
      BY <1>0, <3>1 DEF RiskReject, CallType
    <3>2. CASE ReserveRisk(s)
      BY <1>0, <3>2 DEF ReserveRisk, CallType
    <3> QED BY <1>4, <3>1, <3>2
  <2>3. /\ call'[s].order.otype = call[s].order.otype
        /\ call'[s].order.side = call[s].order.side
        /\ call'[s].order.limit = call[s].order.limit
        /\ call'[s].order.fills = call[s].order.fills
    BY <2>1, <2>2 DEF OrderType
  <2>4. call[s].order # None
    BY <2>1, NoOrderAssumption
  <2> QED BY <1>0, <2>3, <2>4 DEF WithinLimit
<1>5. ASSUME Accept(s)
      PROVE  WithinLimit(call'[s].order)
  <2>1. call'[s].order.fills = << >>
    BY <1>0, <1>5 DEF Accept, NewOrder, CallType
  <2>2. DOMAIN call'[s].order.fills = {}
    BY <2>1
  <2> QED BY <2>2 DEF WithinLimit
<1>6. rows' = rows
  BY DEF Submit, FindMiss, Refuse, Accept, RiskReject, ReserveRisk, LeaveOpen,
     Release, ReadPrev, InsertConflict, StoreFailure, Reply, Crash, Restart
<1>7. WithinLimit(call'[s].order)
  BY <1>0, <1>1, <1>2, <1>3, <1>4, <1>5
<1> QED BY <1>6, <1>7, LimitQuiet DEF ServerStep

LEMMA InsertLimit ==
    ASSUME TypeInv, LimitInv, NEW s \in Servers, Insert(s)
    PROVE  LimitInv'
<1>1. call' = call
  BY DEF Insert
<1>2. NewRow(RecordOf(s), call[s].prev).rec.order = call[s].order
  BY DEF NewRow, RecordOf
<1>3. \A n \in DOMAIN rows' : n \in DOMAIN rows \/ n = Len(rows) + 1
  BY InsertAppends
<1>4. \A n \in DOMAIN rows' : WithinLimit(rows'[n].rec.order)
  BY <1>2, <1>3, InsertAppends DEF LimitInv
<1>5. \A t \in Servers : WithinLimit(call'[t].order)
  BY <1>1 DEF LimitInv
<1> QED BY <1>4, <1>5 DEF LimitInv

LEMMA LimitNext == TypeInv /\ LimitInv /\ [Next]_vars => LimitInv'
<1> SUFFICES ASSUME TypeInv, LimitInv, [Next]_vars PROVE LimitInv'
  OBVIOUS
<1>1. ASSUME NEW s \in Servers,
             Submit(s) \/ ServerStep(s) \/ Crash(s) \/ Restart(s)
      PROVE  LimitInv'
  BY <1>1, QuietLimit, FindHitLimit, FillOrderLimit, InsertLimit DEF ServerStep
<1>2. CASE UNCHANGED vars
  BY <1>2 DEF vars, LimitInv
<1> QED BY <1>1, <1>2 DEF Next

\* No order is ever recorded with a fill beyond its limit, by any process and
\* whatever fails.
THEOREM LimitsRespected == Spec => []LimitHonoured
<1>1. Init => LimitInv
  BY DEF Init, LimitInv, WithinLimit, NoCall
<1>2. LimitInv => LimitHonoured
  BY DEF LimitInv, LimitHonoured, WithinLimit
<1> QED BY <1>1, <1>2, LimitNext, TypeInvariant, PTL DEF Spec

-----------------------------------------------------------------------------
(* Gates.                                                                  *)

\* What passing the gates says of an intent.
LEMMA GatesAdmitPaper ==
    ASSUME NEW i, NEW b, NEW now, IsAllowed(GateOutcome(i, b, now))
    PROVE  i.mode \in PaperModes /\ IsAllowed(ValidateTradeIntent(i, now))
BY DEF GateOutcome, IsAllowed, Refusal

LEMMA GatesPassedNext == TypeInv /\ GatesPassed /\ [Next]_vars => GatesPassed'
<1> SUFFICES ASSUME TypeInv, GatesPassed, [Next]_vars PROVE GatesPassed'
  OBVIOUS
<1>0. /\ pc \in [Servers -> Steps \cup {"idle", "down"}]
      /\ call \in [Servers -> CallType]
  BY DEF TypeInv, TypeOK
<1>1. ASSUME NEW s \in Servers,
             Submit(s) \/ ServerStep(s) \/ Crash(s) \/ Restart(s)
      PROVE  GatesPassed'
  <2>1. \A t \in Servers \ {s} : pc'[t] = pc[t] /\ call'[t] = call[t]
    BY <1>1, OthersKeepCall
  <2>2. CASE Accept(s) \/ ReserveRisk(s) \/ FillOrder(s) \/ LeaveOpen(s)
    <3>1. /\ call'[s].intent = call[s].intent
          /\ call'[s].bundle = call[s].bundle
          /\ call'[s].now = call[s].now
      BY <1>0, <2>2 DEF Accept, ReserveRisk, FillOrder, LeaveOpen, CallType
    <3>2. IsAllowed(GateOutcome(call[s].intent, call[s].bundle, call[s].now))
      BY <2>2 DEF Accept, ReserveRisk, FillOrder, LeaveOpen, At, GatesPassed
    <3> QED BY <2>1, <3>1, <3>2 DEF GatesPassed
  <2>3. CASE ~(Accept(s) \/ ReserveRisk(s) \/ FillOrder(s) \/ LeaveOpen(s))
    <3>1. pc'[s] \notin {"reserve", "fill", "release"}
      BY <1>0, <1>1, <2>3 DEF ServerStep, At, Submit, FindHit, FindMiss, Refuse,
         RiskReject, Release, ReadPrev, Insert, InsertConflict, StoreFailure,
         Reply, Crash, Restart
    <3> QED BY <2>1, <3>1 DEF GatesPassed
  <2> QED BY <2>2, <2>3
<1>2. CASE UNCHANGED vars
  BY <1>2 DEF vars, GatesPassed
<1> QED BY <1>1, <1>2 DEF Next

\* A step that moves the account of a process that stays up.
LEMMA AccountMovers ==
    ASSUME TypeInv, NEW s \in Servers, NEW t \in Servers,
           Submit(s) \/ ServerStep(s) \/ Crash(s) \/ Restart(s),
           acct'[t] # acct[t], pc'[t] # "down"
    PROVE  pc[t] \in {"reserve", "fill", "release"}
<1>0. /\ pc \in [Servers -> Steps \cup {"idle", "down"}]
      /\ acct \in [Servers -> AccountType]
  BY DEF TypeInv, TypeOK
<1>1. CASE ReserveRisk(s) \/ FillOrder(s) \/ Release(s)
  <2>1. t = s
    BY <1>0, <1>1 DEF ReserveRisk, FillOrder, Release
  <2> QED BY <1>1, <2>1 DEF ReserveRisk, FillOrder, Release, At
<1>2. CASE Crash(s)
  BY <1>0, <1>2 DEF Crash, FreshAccount
<1>3. CASE ~(ReserveRisk(s) \/ FillOrder(s) \/ Release(s) \/ Crash(s))
  <2>1. acct' = acct
    BY <1>3 DEF ServerStep, Submit, FindHit, FindMiss, Refuse, Accept, RiskReject,
       LeaveOpen, ReadPrev, Insert, InsertConflict, StoreFailure, Reply, Restart
  <2> QED BY <2>1
<1> QED BY <1>1, <1>2, <1>3

\* While a process runs, nothing moves its account but an intent in a paper
\* mode that was valid at the reading of the clock the call works with.
THEOREM OnlyValidPaperMoves == Spec => OnlyPaperMovesAccount
<1> DEFINE Moved == \A s \in Servers : acct'[s] # acct[s] /\ pc'[s] # "down" =>
               /\ call[s].intent.mode \in PaperModes
               /\ IsAllowed(ValidateTradeIntent(call[s].intent, call[s].now))
<1>1. Init => GatesPassed
  BY DEF Init, GatesPassed
<1>2. TypeInv /\ GatesPassed /\ [Next]_vars => [Moved]_vars
  <2> SUFFICES ASSUME TypeInv, GatesPassed, Next PROVE Moved
    OBVIOUS
  <2>1. PICK s \in Servers : Submit(s) \/ ServerStep(s) \/ Crash(s) \/ Restart(s)
    BY DEF Next
  <2> SUFFICES ASSUME NEW t \in Servers, acct'[t] # acct[t], pc'[t] # "down"
               PROVE  /\ call[t].intent.mode \in PaperModes
                      /\ IsAllowed(ValidateTradeIntent(call[t].intent, call[t].now))
    OBVIOUS
  <2>2. pc[t] \in {"reserve", "fill", "release"}
    BY <2>1, AccountMovers
  <2>3. IsAllowed(GateOutcome(call[t].intent, call[t].bundle, call[t].now))
    BY <2>2 DEF GatesPassed
  <2> QED BY <2>3, GatesAdmitPaper
<1> QED BY <1>1, <1>2, GatesPassedNext, TypeInvariant, PTL
        DEF Spec, OnlyPaperMovesAccount

-----------------------------------------------------------------------------
(* The chain.                                                              *)

LEMMA InsertChain ==
    ASSUME TypeInv, ChainInv, NEW s \in Servers, \A t \in Servers : t = s, Insert(s)
    PROVE  ChainInv'
<1> DEFINE last == Len(rows) + 1
           row == NewRow(RecordOf(s), call[s].prev)
<1>1. call[s].prev = LastContentHash(rows)
  BY DEF Insert, At, ChainInv
<1>2. row.prev = call[s].prev /\ row.hash = ContentHash(row.rec, row.prev)
  BY DEF NewRow
<1> HIDE DEF row
<1>3. /\ DOMAIN rows' = 1..last /\ DOMAIN rows = 1..Len(rows) /\ Len(rows) \in Nat
      /\ \A n \in DOMAIN rows : rows'[n] = rows[n]
      /\ rows'[last] = row
  BY InsertAppends DEF row
<1>4. ASSUME NEW n \in DOMAIN rows
      PROVE  ~ChainBroken(rows', n) /\ ~PayloadTampered(rows', n)
  <2>1. rows'[n] = rows[n] /\ (n # 1 => rows'[n - 1] = rows[n - 1])
    BY <1>3
  <2>2. ~ChainBroken(rows, n) /\ ~PayloadTampered(rows, n)
    BY DEF ChainInv
  <2> QED BY <2>1, <2>2 DEF ChainBroken, ExpectedPrev, PayloadTampered
<1>5. ~ChainBroken(rows', last)
  <2>1. LastContentHash(rows) = ExpectedPrev(rows', last)
    <3>1. CASE rows = << >>
      BY <1>3, <3>1 DEF LastContentHash, ExpectedPrev
    <3>2. CASE rows # << >>
      <4>1. Len(rows) \in DOMAIN rows /\ last # 1 /\ last - 1 = Len(rows)
        BY <1>3, <3>2 DEF TypeInv, TypeOK
      <4>2. rows'[last - 1] = rows[Len(rows)]
        BY <1>3, <4>1
      <4> QED BY <3>2, <4>1, <4>2 DEF LastContentHash, ExpectedPrev
    <3> QED BY <3>1, <3>2
  <2> QED BY <1>1, <1>2, <1>3, <2>1 DEF ChainBroken
<1>6. ~PayloadTampered(rows', last)
  BY <1>2, <1>3 DEF PayloadTampered
<1>7. \A n \in DOMAIN rows' : n \in DOMAIN rows \/ n = last
  BY <1>3
<1>8. \A t \in Servers : pc'[t] # "insert"
  BY DEF Insert, At, TypeInv, TypeOK
<1> QED BY <1>4, <1>5, <1>6, <1>7, <1>8 DEF ChainInv

LEMMA ChainNext ==
    ASSUME OneServer
    PROVE  TypeInv /\ ChainInv /\ [Next]_vars => ChainInv'
<1> SUFFICES ASSUME TypeInv, ChainInv, [Next]_vars PROVE ChainInv'
  OBVIOUS
<1>0. /\ pc \in [Servers -> Steps \cup {"idle", "down"}]
      /\ call \in [Servers -> CallType]
  BY DEF TypeInv, TypeOK
<1>1. ASSUME NEW s \in Servers,
             Submit(s) \/ ServerStep(s) \/ Crash(s) \/ Restart(s)
      PROVE  ChainInv'
  <2>1. \A t \in Servers : t = s
    BY DEF OneServer
  <2>2. CASE Insert(s)
    BY <2>1, <2>2, InsertChain
  <2>3. CASE ReadPrev(s)
    <3>1. rows' = rows /\ call'[s].prev = LastContentHash(rows)
      BY <1>0, <2>3 DEF ReadPrev, CallType
    <3> QED BY <2>1, <3>1 DEF ChainInv
  <2>4. CASE ~(Insert(s) \/ ReadPrev(s))
    <3>1. rows' = rows
      BY <1>1, <2>4, OnlyInsertWrites
    <3>2. pc'[s] # "insert"
      BY <1>0, <1>1, <2>4 DEF ServerStep, At, Submit, FindHit, FindMiss, Refuse,
         Accept, RiskReject, ReserveRisk, FillOrder, LeaveOpen, Release,
         InsertConflict, StoreFailure, Reply, Crash, Restart
    <3> QED BY <2>1, <3>1, <3>2 DEF ChainInv
  <2> QED BY <2>2, <2>3, <2>4
<1>2. CASE UNCHANGED vars
  BY <1>2 DEF vars, ChainInv
<1> QED BY <1>1, <1>2 DEF Next

\* The log one process leaves behind verifies, wherever it was killed and
\* whichever statements failed: its two statements need no transaction.
THEOREM ChainVerifies ==
    ASSUME OneServer
    PROVE  Spec => []ChainIntact
<1>1. Init => ChainInv
  BY DEF Init, ChainInv
<1>2. ChainInv => ChainIntact
  BY DEF ChainInv, ChainIntact, VerifyIntegrity
<1> QED BY <1>1, <1>2, ChainNext, TypeInvariant, PTL DEF Spec

\* What rows are added keeps the hashes that are there.
LEMMA HashesKept ==
    ASSUME TypeInv, NEW s \in Servers,
           Submit(s) \/ ServerStep(s) \/ Crash(s) \/ Restart(s)
    PROVE  /\ Len(rows) \in Nat /\ Len(rows') \in Nat /\ Len(rows) <= Len(rows')
           /\ DOMAIN rows = 1..Len(rows)
           /\ \A n \in 1..Len(rows) : rows'[n] = rows[n]
           /\ \A n \in 0..Len(rows) : HashesUpTo(n)' = HashesUpTo(n)
           /\ HashesUpTo(Len(rows)) \subseteq HashesUpTo(Len(rows))'
<1>1. /\ Len(rows) \in Nat /\ Len(rows') \in Nat /\ Len(rows) <= Len(rows')
      /\ DOMAIN rows = 1..Len(rows)
      /\ \A n \in 1..Len(rows) : rows'[n] = rows[n]
  <2>1. CASE Insert(s)
    BY <2>1, InsertAppends
  <2>2. CASE ~Insert(s)
    <3>1. rows' = rows
      BY <2>2, OnlyInsertWrites
    <3> QED BY <3>1 DEF TypeInv, TypeOK
  <2> QED BY <2>1, <2>2
<1>2. ASSUME NEW n \in 0..Len(rows)
      PROVE  HashesUpTo(n)' = HashesUpTo(n)
  <2>1. \A m \in 1..n : rows'[m].hash = rows[m].hash
    BY <1>1
  <2> QED BY <2>1 DEF HashesUpTo
<1>3. \A m \in 1..Len(rows) : m \in 1..Len(rows') /\ rows'[m].hash = rows[m].hash
  BY <1>1
<1>4. HashesUpTo(Len(rows)) \subseteq HashesUpTo(Len(rows))'
  BY <1>3 DEF HashesUpTo
<1> QED BY <1>1, <1>2, <1>4

LEMMA LastIsAHash ==
    ASSUME TypeInv
    PROVE  LastContentHash(rows) \in HashesUpTo(Len(rows))
<1>1. CASE rows = << >>
  BY <1>1 DEF LastContentHash, HashesUpTo
<1>2. CASE rows # << >>
  <2>1. Len(rows) \in 1..Len(rows)
    BY <1>2 DEF TypeInv, TypeOK
  <2> QED BY <1>2, <2>1 DEF LastContentHash, HashesUpTo
<1> QED BY <1>1, <1>2

LEMMA ForkNext == TypeInv /\ ForkInv /\ [Next]_vars => ForkInv'
<1> SUFFICES ASSUME TypeInv, ForkInv, [Next]_vars PROVE ForkInv'
  OBVIOUS
<1>0. /\ pc \in [Servers -> Steps \cup {"idle", "down"}]
      /\ call \in [Servers -> CallType]
  BY DEF TypeInv, TypeOK
<1>1. ASSUME NEW s \in Servers,
             Submit(s) \/ ServerStep(s) \/ Crash(s) \/ Restart(s)
      PROVE  ForkInv'
  <2> DEFINE Sound(n) == ~PayloadTampered(rows, n) /\ rows[n].prev \in HashesUpTo(n - 1)
  <2>1. /\ Len(rows) \in Nat /\ DOMAIN rows = 1..Len(rows)
        /\ \A n \in 1..Len(rows) : rows'[n] = rows[n]
        /\ \A n \in 0..Len(rows) : HashesUpTo(n)' = HashesUpTo(n)
        /\ HashesUpTo(Len(rows)) \subseteq HashesUpTo(Len(rows))'
    BY <1>1, HashesKept
  <2>2. ASSUME NEW n \in DOMAIN rows PROVE Sound(n)'
    <3>1. n \in 1..Len(rows) /\ n - 1 \in 0..Len(rows)
      BY <2>1
    <3>2. rows'[n] = rows[n] /\ HashesUpTo(n - 1)' = HashesUpTo(n - 1)
      BY <2>1, <3>1
    <3>3. Sound(n)
      BY DEF ForkInv, RaceForksAtMost
    <3> QED BY <3>2, <3>3 DEF PayloadTampered
  <2>3. ASSUME Insert(s), NEW n \in DOMAIN rows', n \notin DOMAIN rows
        PROVE  Sound(n)'
    <3> DEFINE row == NewRow(RecordOf(s), call[s].prev)
    <3>1. n = Len(rows) + 1 /\ rows'[n] = row
      BY <2>3, InsertAppends
    <3>2. call[s].prev \in HashesUpTo(n - 1)'
      <4>1. call[s].prev \in HashesUpTo(Len(rows))
        BY <2>3 DEF Insert, At, ForkInv
      <4>2. n - 1 = Len(rows)
        BY <2>1, <3>1
      <4> QED BY <2>1, <4>1, <4>2
    <3>3. row.prev = call[s].prev /\ row.hash = ContentHash(row.rec, row.prev)
      BY DEF NewRow
    <3> HIDE DEF row
    <3> QED BY <3>1, <3>2, <3>3 DEF PayloadTampered
  <2>4. ASSUME NEW t \in Servers, pc'[t] = "insert"
        PROVE  call'[t].prev \in HashesUpTo(Len(rows))'
    <3>1. CASE pc[t] = "insert" /\ call'[t] = call[t]
      BY <2>1, <3>1 DEF ForkInv
    <3>2. CASE t = s /\ ReadPrev(s)
      <4>1. rows' = rows /\ call'[s].prev = LastContentHash(rows)
        BY <1>0, <3>2 DEF ReadPrev, CallType
      <4>2. LastContentHash(rows) \in HashesUpTo(Len(rows))
        BY LastIsAHash
      <4> QED BY <2>1, <3>2, <4>1, <4>2
    <3>3. CASE t = s /\ ~ReadPrev(s)
      <4>1. pc'[s] # "insert"
        BY <1>0, <1>1, <3>3 DEF ServerStep, At, Submit, FindHit, FindMiss, Refuse,
           Accept, RiskReject, ReserveRisk, FillOrder, LeaveOpen, Release, Insert,
           InsertConflict, StoreFailure, Reply, Crash, Restart
      <4> QED BY <2>4, <3>3, <4>1
    <3>4. CASE t # s
      BY <1>1, <2>4, <3>1, <3>4, OthersKeepCall
    <3> QED BY <3>2, <3>3, <3>4
  <2>5. \A n \in DOMAIN rows' : Sound(n)'
    <3>1. CASE Insert(s)
      BY <2>2, <2>3, <3>1
    <3>2. CASE ~Insert(s)
      <4>1. rows' = rows
        BY <1>1, <3>2, OnlyInsertWrites
      <4> QED BY <2>2, <4>1
    <3> QED BY <3>1, <3>2
  <2> QED BY <2>4, <2>5 DEF ForkInv, RaceForksAtMost
<1>2. CASE UNCHANGED vars
  BY <1>2 DEF vars, ForkInv, RaceForksAtMost, HashesUpTo, PayloadTampered
<1> QED BY <1>1, <1>2 DEF Next

\* However many processes append to the log, and wherever they are killed: no
\* row ever looks edited, and every row continues one that came before it.
THEOREM RaceOnlyForks == Spec => []RaceForksAtMost
<1>1. Init => ForkInv
  BY DEF Init, ForkInv, RaceForksAtMost
<1>2. ForkInv => RaceForksAtMost
  BY DEF ForkInv
<1> QED BY <1>1, <1>2, ForkNext, TypeInvariant, PTL DEF Spec
=============================================================================
