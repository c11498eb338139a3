----------------------------- MODULE Execution -----------------------------
(***************************************************************************)
(* execution.rs, run by one or more trade-guard-server processes over one  *)
(* audit database: authorize_and_submit_paper_order from the tool call to  *)
(* its reply.                                                              *)
(*                                                                         *)
(* A process serves one call at a time (mcp.rs reads a line, handles it,   *)
(* writes the answer), so a server is idle, down, or at one step of one    *)
(* call.  Steps of different servers interleave: find_by_idempotency_key,  *)
(* the SELECT of append and its INSERT are separate SQLite statements,     *)
(* each in a transaction of its own.  A process may die between any two    *)
(* steps; its account dies with it, the rows do not, and the next process  *)
(* starts from a new account.  A caller that misses its answer resubmits,  *)
(* possibly under a changed intent with the same key.                      *)
(***************************************************************************)
EXTENDS PaperSimulator, Account, Policy, AuditStore

CONSTANTS Servers,           \* server processes sharing one database
          Intents,           \* the trade intents callers submit
          Bundles,           \* the evidence bundles they attach
          Times,             \* readings of the wall clock
          AccountAlias,      \* the alias of the account each server holds
          StartingCash,      \* DEFAULT_STARTING_CASH
          MaxStoreFailures   \* bound on failing store statements

ASSUME ExecutionAssumption ==
    /\ Intents \subseteq IntentType /\ None \notin Intents
    /\ Bundles \subseteq BundleType
    /\ Times \subseteq Nat
    /\ AccountAlias \in Aliases
    /\ StartingCash \in Raw /\ StartingCash >= 0
    /\ MaxStoreFailures \in Nat

VARIABLES
    rows,       \* the events table, in seq order
    acct,       \* the AccountSnapshot each process holds
    pc,         \* the step each process is at
    call,       \* the locals of the call it is serving
    failures,   \* store statements that have failed so far
    replied,    \* history: the results handed to callers, per key
    applied,    \* history: fills applied to this account, per key
    booked      \* history: a new account with the orders this process
                \* recorded, and no others, applied in order

vars == <<rows, acct, pc, call, failures, replied, applied, booked>>

ResultType == [outcome : OutcomeType, order : Option(OrderType)]

RecordType == [key : Keys, at : Nat, outcome : OutcomeType,
               order : Option(OrderType)]

RowType == [rec : RecordType, prev : Seq(RecordType), hash : Seq(RecordType)]

Steps == {"find", "gates", "reserve", "fill", "release", "read", "insert",
          "reply"}

CallType ==
    [intent : Option(Intents), bundle : Option(Bundles), now : Nat,
     estimate : Raw, outcome : Option(OutcomeType), order : Option(OrderType),
     prev : Seq(RecordType)]

NoCall == [intent |-> None, bundle |-> None, now |-> 0, estimate |-> 0,
           outcome |-> None, order |-> None, prev |-> GenesisHash]

Key(s) == call[s].intent.key

-----------------------------------------------------------------------------

Init ==
    /\ rows = << >>
    /\ acct = [s \in Servers |-> NewAccount(StartingCash)]
    /\ pc = [s \in Servers |-> "idle"]
    /\ call = [s \in Servers |-> NoCall]
    /\ failures = 0
    /\ replied = [k \in Keys |-> {}]
    /\ applied = [s \in Servers |-> [k \in Keys |-> 0]]
    /\ booked = [s \in Servers |-> NewAccount(StartingCash)]

\* Server s moves from one step to the next.
At(s, from, to) == pc[s] = from /\ pc' = [pc EXCEPT ![s] = to]

\* authorize_and_submit_paper_order_tool: the arguments are parsed and the
\* clock is read once, before anything else.
Submit(s) ==
    /\ At(s, "idle", "find")
    /\ \E i \in Intents, b \in Option(Bundles), t \in Times :
           call' = [call EXCEPT ![s] = [NoCall EXCEPT !.intent = i,
                                                      !.bundle = b,
                                                      !.now = t]]
    /\ UNCHANGED <<rows, acct, failures, replied, applied, booked>>

\* The definitions named Bug... are wrong variants of the definition that
\* follows them: what a property must catch, and never part of Next.

\* The outcome is looked up and the order forgotten.
BugFindHit(s) ==
    /\ At(s, "find", "reply")
    /\ Recorded(rows, Key(s))
    /\ call' = [call EXCEPT ![s].outcome = FindByIdempotencyKey(rows, Key(s)).outcome]
    /\ UNCHANGED <<rows, acct, failures, replied, applied, booked>>

\* The key is recorded: the stored outcome and order are the answer.
FindHit(s) ==
    /\ At(s, "find", "reply")
    /\ Recorded(rows, Key(s))
    /\ LET rec == FindByIdempotencyKey(rows, Key(s))
       IN  call' = [call EXCEPT ![s].outcome = rec.outcome,
                                ![s].order = rec.order]
    /\ UNCHANGED <<rows, acct, failures, replied, applied, booked>>

\* No lookup: UNIQUE is left to catch the duplicate.
BugFindMiss(s) ==
    /\ At(s, "find", "gates")
    /\ UNCHANGED <<rows, acct, call, failures, replied, applied, booked>>

FindMiss(s) ==
    /\ At(s, "find", "gates")
    /\ ~Recorded(rows, Key(s))
    /\ UNCHANGED <<rows, acct, call, failures, replied, applied, booked>>

\* validate_trade_intent is not called.
BugGateOutcome(i, b, now) ==
    IF i.mode \in LiveModes
    THEN Refusal("blocked-by-operator-control", "live-execution-not-implemented")
    ELSE IF i.mode \notin PaperModes
    THEN Refusal("reject", "mode-does-not-request-paper-execution")
    ELSE CheckEvidenceEligibility(i, b, now)

\* The gates before an order exists, in the order of the early returns.
GateOutcome(i, b, now) ==
    IF i.mode \in LiveModes
    THEN Refusal("blocked-by-operator-control", "live-execution-not-implemented")
    ELSE IF i.mode \notin PaperModes
    THEN Refusal("reject", "mode-does-not-request-paper-execution")
    ELSE IF ~IsAllowed(ValidateTradeIntent(i, now))
    THEN ValidateTradeIntent(i, now)
    ELSE IF ~IsAllowed(CheckEvidenceEligibility(i, b, now))
    THEN CheckEvidenceEligibility(i, b, now)
    ELSE IF i.alias # AccountAlias
    THEN Refusal("reject", "account-alias-mismatch")
    ELSE Allow

\* The Order built from an accepted intent.
NewOrder(i) ==
    [key |-> i.key, instr |-> i.instr, venue |-> i.venue, side |-> i.side,
     otype |-> i.otype, qty |-> i.qty, limit |-> i.limit,
     state |-> "validated", filled |-> 0, avg |-> None, fills |-> << >>]

\* The refusal is answered at once, without persist_and_return.
BugRefuse(s) ==
    /\ At(s, "gates", "reply")
    /\ LET o == GateOutcome(call[s].intent, call[s].bundle, call[s].now)
       IN  /\ ~IsAllowed(o)
           /\ call' = [call EXCEPT ![s].outcome = o]
    /\ UNCHANGED <<rows, acct, failures, replied, applied, booked>>

\* A gate refuses: the refusal is recorded, without an order.
Refuse(s) ==
    /\ At(s, "gates", "read")
    /\ LET o == GateOutcome(call[s].intent, call[s].bundle, call[s].now)
       IN  /\ ~IsAllowed(o)
           /\ call' = [call EXCEPT ![s].outcome = o]
    /\ UNCHANGED <<rows, acct, failures, replied, applied, booked>>

\* All gates pass: the order and its estimated cost.
Accept(s) ==
    /\ At(s, "gates", "reserve")
    /\ IsAllowed(GateOutcome(call[s].intent, call[s].bundle, call[s].now))
    /\ LET order == NewOrder(call[s].intent)
       IN  call' = [call EXCEPT ![s].order = order,
                                ![s].estimate = EstimatedNotional(order)]
    /\ UNCHANGED <<rows, acct, failures, replied, applied, booked>>

IsBuy(s) == call[s].order.side \in BuySides

\* The side test is inverted.
BugRiskOutcome(s) ==
    IF IsBuy(s) THEN Allow
                ELSE CheckBuyingPower(BuyingPower(acct[s]), call[s].estimate)

\* check_buying_power for the call of s; only a buy-side order is checked.
RiskOutcome(s) ==
    IF IsBuy(s) THEN CheckBuyingPower(BuyingPower(acct[s]), call[s].estimate)
                ELSE Allow

RiskReject(s) ==
    /\ At(s, "reserve", "read")
    /\ ~IsAllowed(RiskOutcome(s))
    /\ call' = [call EXCEPT ![s].outcome = RiskOutcome(s),
                            ![s].order.state = "rejected"]
    /\ UNCHANGED <<rows, acct, failures, replied, applied, booked>>

\* The estimate is reserved and the order acknowledged.
ReserveRisk(s) ==
    /\ At(s, "reserve", "fill")
    /\ IsAllowed(RiskOutcome(s))
    /\ acct' = IF IsBuy(s)
               THEN [acct EXCEPT ![s].reserved = AddOr(@, call[s].estimate, @)]
               ELSE acct
    /\ call' = [call EXCEPT ![s].order.state = "acknowledged"]
    /\ UNCHANGED <<rows, failures, replied, applied, booked>>

\* The account is charged the estimate instead of the fill.
BugFillOrder(s) ==
    LET order == call[s].order
        price == SimulateFill(order)
    IN  /\ At(s, "fill", "release")
        /\ price # None
        /\ call' = [call EXCEPT ![s].order = OrderWithFill(order, order.qty, price)]
        /\ acct' = [acct EXCEPT ![s] =
                ApplyFill(@, order.instr, order.side, order.qty, EstimatedPrice(order))]
        /\ applied' = [applied EXCEPT ![s][Key(s)] = @ + 1]
        /\ UNCHANGED <<rows, failures, replied, booked>>

\* The simulator fills the whole quantity: order and account follow.
FillOrder(s) ==
    LET order == call[s].order
        price == SimulateFill(order)
    IN  /\ At(s, "fill", "release")
        /\ price # None
        /\ call' = [call EXCEPT ![s].order = OrderWithFill(order, order.qty, price)]
        /\ acct' = [acct EXCEPT ![s] =
                       ApplyFill(@, order.instr, order.side, order.qty, price)]
        /\ applied' = [applied EXCEPT ![s][Key(s)] = @ + 1]
        /\ UNCHANGED <<rows, failures, replied, booked>>

\* The order is not marketable and stays acknowledged.
LeaveOpen(s) ==
    /\ At(s, "fill", "release")
    /\ SimulateFill(call[s].order) = None
    /\ UNCHANGED <<rows, acct, call, failures, replied, applied, booked>>

\* The reservation of a filled order is taken to be spent.
BugRelease(s) ==
    /\ At(s, "release", "read")
    /\ acct' = IF IsBuy(s) /\ call[s].order.state # "filled"
               THEN [acct EXCEPT ![s].reserved = SubOr(@, call[s].estimate, 0)]
               ELSE acct
    /\ call' = [call EXCEPT ![s].outcome =
                   [Allow EXCEPT !.warning = VenueWarning(call[s].order.venue,
                                                          call[s].now)]]
    /\ UNCHANGED <<rows, failures, replied, applied, booked>>

\* The reservation is released, filled or not, and the outcome decided.
Release(s) ==
    /\ At(s, "release", "read")
    /\ acct' = IF IsBuy(s)
               THEN [acct EXCEPT ![s].reserved = SubOr(@, call[s].estimate, 0)]
               ELSE acct
    /\ call' = [call EXCEPT ![s].outcome =
                   [Allow EXCEPT !.warning = VenueWarning(call[s].order.venue,
                                                          call[s].now)]]
    /\ UNCHANGED <<rows, failures, replied, applied, booked>>

\* append, first statement: last_content_hash.
ReadPrev(s) ==
    /\ At(s, "read", "insert")
    /\ call' = [call EXCEPT ![s].prev = LastContentHash(rows)]
    /\ UNCHANGED <<rows, acct, failures, replied, applied, booked>>

\* The account a durably recorded order leaves behind.
ApplyOrder(a, order) ==
    IF order = None \/ order.state # "filled"
    THEN a
    ELSE ApplyFill(a, order.instr, order.side, order.qty, order.fills[1].price)

\* The AuditRecord of persist_and_return.
RecordOf(s) == [key |-> Key(s), at |-> call[s].now,
                outcome |-> call[s].outcome, order |-> call[s].order]

\* The column has no UNIQUE constraint.
BugInsert(s) ==
    /\ At(s, "insert", "reply")
    /\ rows' = Append(rows, NewRow(RecordOf(s), call[s].prev))
    /\ booked' = [booked EXCEPT ![s] = ApplyOrder(@, call[s].order)]
    /\ UNCHANGED <<acct, call, failures, replied, applied>>

\* INSERT OR REPLACE.
BugInsertOrReplace(s) ==
    LET others == SelectSeq(rows, LAMBDA r : r.rec.key # Key(s))
    IN  /\ At(s, "insert", "reply")
        /\ rows' = Append(others, NewRow(RecordOf(s), call[s].prev))
        /\ booked' = [booked EXCEPT ![s] = ApplyOrder(@, call[s].order)]
        /\ UNCHANGED <<acct, call, failures, replied, applied>>

\* The link is read again by the INSERT itself, after the hash was computed.
BugInsertRelinks(s) ==
    /\ At(s, "insert", "reply")
    /\ ~Recorded(rows, Key(s))
    /\ rows' = Append(rows, [NewRow(RecordOf(s), call[s].prev)
                                EXCEPT !.prev = LastContentHash(rows)])
    /\ booked' = [booked EXCEPT ![s] = ApplyOrder(@, call[s].order)]
    /\ UNCHANGED <<acct, call, failures, replied, applied>>

\* append, second statement: the INSERT succeeds.
Insert(s) ==
    /\ At(s, "insert", "reply")
    /\ ~Recorded(rows, Key(s))
    /\ rows' = Append(rows, NewRow(RecordOf(s), call[s].prev))
    /\ booked' = [booked EXCEPT ![s] = ApplyOrder(@, call[s].order)]
    /\ UNCHANGED <<acct, call, failures, replied, applied>>

\* The call ends in an Err: nothing is answered for the key.
Fail(s) == call' = [call EXCEPT ![s].outcome = None, ![s].order = None]

\* DuplicateIdempotencyKey is ignored: the call answers what it computed.
BugInsertConflict(s) ==
    /\ At(s, "insert", "reply")
    /\ Recorded(rows, Key(s))
    /\ UNCHANGED <<rows, acct, call, failures, replied, applied, booked>>

\* The INSERT is tried again.
BugInsertRetry(s) ==
    /\ At(s, "insert", "insert")
    /\ Recorded(rows, Key(s))
    /\ UNCHANGED <<rows, acct, call, failures, replied, applied, booked>>

\* The INSERT violates UNIQUE: DuplicateIdempotencyKey is returned as an error.
InsertConflict(s) ==
    /\ At(s, "insert", "reply")
    /\ Recorded(rows, Key(s))
    /\ Fail(s)
    /\ UNCHANGED <<rows, acct, failures, replied, applied, booked>>

\* A failed statement is ignored: the call answers what it computed.
BugStoreFailure(s) ==
    /\ \E from \in {"find", "read", "insert"} : At(s, from, "reply")
    /\ failures < MaxStoreFailures
    /\ failures' = failures + 1
    /\ UNCHANGED <<rows, acct, call, replied, applied, booked>>

\* A store statement fails (locked, full, unreadable): `?` returns the error.
StoreFailure(s) ==
    /\ \E from \in {"find", "read", "insert"} : At(s, from, "reply")
    /\ failures < MaxStoreFailures
    /\ failures' = failures + 1
    /\ Fail(s)
    /\ UNCHANGED <<rows, acct, replied, applied, booked>>

\* The locals of a call outlive it.
BugReply(s) ==
    /\ At(s, "reply", "idle")
    /\ replied' = [replied EXCEPT ![Key(s)] =
                       @ \cup {[outcome |-> call[s].outcome,
                                order |-> call[s].order]}]
    /\ UNCHANGED <<rows, acct, call, failures, applied, booked>>

\* The answer is written to stdout.
Reply(s) ==
    /\ At(s, "reply", "idle")
    /\ replied' = IF call[s].outcome = None
                  THEN replied
                  ELSE [replied EXCEPT ![Key(s)] =
                           @ \cup {[outcome |-> call[s].outcome,
                                    order |-> call[s].order]}]
    /\ call' = [call EXCEPT ![s] = NoCall]
    /\ UNCHANGED <<rows, acct, failures, applied, booked>>

\* build_state: a process starts with a new account; nothing of the account
\* it follows is read back from the rows.
FreshAccount(s) ==
    /\ acct' = [acct EXCEPT ![s] = NewAccount(StartingCash)]
    /\ booked' = [booked EXCEPT ![s] = NewAccount(StartingCash)]
    /\ applied' = [applied EXCEPT ![s] = [k \in Keys |-> 0]]

\* The process dies: killed, end of input, or stdout no longer writable.
\* Its memory is gone; what the variables hold from here on is what the
\* next process will start with.
Crash(s) ==
    /\ pc[s] # "down"
    /\ pc' = [pc EXCEPT ![s] = "down"]
    /\ call' = [call EXCEPT ![s] = NoCall]
    /\ FreshAccount(s)
    /\ UNCHANGED <<rows, failures, replied>>

\* A new process opens the database.
Restart(s) ==
    /\ At(s, "down", "idle")
    /\ UNCHANGED <<rows, acct, call, failures, replied, applied, booked>>

\* One step of the call server s is serving.
ServerStep(s) ==
    \/ FindHit(s) \/ FindMiss(s)
    \/ Refuse(s) \/ Accept(s)
    \/ RiskReject(s) \/ ReserveRisk(s)
    \/ FillOrder(s) \/ LeaveOpen(s) \/ Release(s)
    \/ ReadPrev(s) \/ Insert(s) \/ InsertConflict(s) \/ StoreFailure(s)
    \/ Reply(s)

Next == \E s \in Servers : Submit(s) \/ ServerStep(s) \/ Crash(s) \/ Restart(s)

Spec == Init /\ [][Next]_vars

\* The code between two reads of stdin is straight-line and its store calls
\* return, so a call that is being served keeps moving; nothing obliges a
\* caller to submit, a process to die or an operator to restart it.
FairSpec == Spec /\ \A s \in Servers : WF_vars(ServerStep(s))

-----------------------------------------------------------------------------

TypeOK ==
    /\ rows \in Seq(RowType)
    /\ acct \in [Servers -> AccountType]
    /\ pc \in [Servers -> Steps \cup {"idle", "down"}]
    /\ call \in [Servers -> CallType]
    /\ failures \in 0..MaxStoreFailures
    /\ replied \in [Keys -> SUBSET ResultType]
    /\ applied \in [Servers -> [Keys -> Nat]]
    /\ booked \in [Servers -> AccountType]
    /\ \A s \in Servers : pc[s] \in Steps <=> call[s].intent # None

\* At most one row per idempotency key ("durably persists exactly one
\* AuditRecord per unique idempotency_key"), whichever process wrote it.
OneRowPerKey ==
    \A m, n \in DOMAIN rows : rows[m].rec.key = rows[n].rec.key => m = n

\* Every result ever handed to a caller for a key is the recorded one: a
\* resubmission "always returns the original outcome", across crashes, lost
\* answers, other processes and intents that reuse the key.
RepliesMatchRecord ==
    \A k \in Keys : \A r \in replied[k] :
        \E n \in DOMAIN rows : /\ rows[n].rec.key = k
                              /\ r.outcome = rows[n].rec.outcome
                              /\ r.order = rows[n].rec.order

\* A reservation is exactly the estimate of the buy order in flight and is
\* gone once the order is filled, open or refused: no path leaks buying
\* power into later calls.
ReservationReleased ==
    \A s \in Servers :
        acct[s].reserved = IF pc[s] \in {"fill", "release"} /\ IsBuy(s)
                           THEN call[s].estimate ELSE 0

\* "Exactly one fill, not two": an account is moved at most once for a key.
AtMostOneFillPerKey ==
    \A s \in Servers, k \in Keys : applied[s][k] <= 1

\* Between calls the account is what the orders this process has recorded
\* make of a new account: no fill without its row, no row without its fill.
AccountMatchesLedger ==
    \A s \in Servers : pc[s] = "idle" => acct[s] = booked[s]

\* "The buying-power check is never optimistic about an order that has not
\* actually filled yet": a buy never fills for more than the estimate that
\* was checked against the buying power.
EstimateCoversFill ==
    \A s \in Servers :
        pc[s] = "release" /\ IsBuy(s) /\ call[s].order.state = "filled" =>
            \A n \in DOMAIN call[s].order.fills :
                DivTrunc(call[s].order.fills[n].qty * call[s].order.fills[n].price,
                         SCALE) <= call[s].estimate

\* Cash never goes below zero, over any sequence of orders, crashes and
\* restarts: what check_buying_power is there for.
CashNotNegative == \A s \in Servers : acct[s].cash >= 0

\* No recorded limit order filled at a price worse than its limit.
LimitHonoured ==
    \A n \in DOMAIN rows :
        LET o == rows[n].rec.order
        IN  o # None /\ o.otype \in {"limit", "limit-on-close"} =>
                \A f \in DOMAIN o.fills :
                    IF o.side \in BuySides THEN o.fills[f].price <= o.limit
                                           ELSE o.fills[f].price >= o.limit

\* verify_integrity finds nothing in a log nobody has tampered with.
ChainIntact == VerifyIntegrity(rows).failure = "none"

\* The hash a row may be chained to: that of any row before it.
HashesUpTo(n) == {GenesisHash} \cup {rows[m].hash : m \in 1..n}

\* PayloadTampered means that "its payload was edited": a log that nobody
\* edits never shows it, however the two statements of several processes'
\* appends interleave.  What their race can do is fork the chain: a row then
\* links to an earlier one that is not its neighbour, and never to nothing.
RaceForksAtMost ==
    \A n \in DOMAIN rows : /\ ~PayloadTampered(rows, n)
                          /\ rows[n].prev \in HashesUpTo(n - 1)

\* "Every live-mode intent is rejected": no call of a live-mode intent is
\* answered with an outcome that permits submission.
LiveModeAlwaysRejected ==
    \A s \in Servers :
        /\ pc[s] = "reply"
        /\ call[s].intent.mode \in LiveModes
        /\ call[s].outcome # None
        => ~IsAllowed(call[s].outcome)

\* A running process changes its account only while it serves an intent
\* whose mode asks for paper execution and that is still valid at the time
\* the call read the clock.
OnlyPaperMovesAccount ==
    [][\A s \in Servers : acct'[s] # acct[s] /\ pc'[s] # "down" =>
          /\ call[s].intent.mode \in PaperModes
          /\ IsAllowed(ValidateTradeIntent(call[s].intent, call[s].now))]_vars

\* Once a key is recorded, what find_by_idempotency_key returns for it never
\* changes again.
DecisionIsFinal ==
    [][\A k \in Keys : Recorded(rows, k) =>
          /\ Recorded(rows', k)
          /\ FindByIdempotencyKey(rows', k) = FindByIdempotencyKey(rows, k)]_vars

\* A submitted key ends up recorded unless the process serving it dies or
\* the call ends in an error: every path that answers with an outcome,
\* refusals included, has gone through persist_and_return.
CallDecides ==
    \A s \in Servers, k \in Keys :
        pc[s] = "find" /\ Key(s) = k ~>
            \/ Recorded(rows, k)
            \/ pc[s] = "down"
            \/ pc[s] = "reply" /\ call[s].outcome = None

\* Every call comes to an answer, an error or the end of its process.
EveryCallEnds ==
    \A s \in Servers : pc[s] \in Steps ~> pc[s] \in {"idle", "down"}
=============================================================================
