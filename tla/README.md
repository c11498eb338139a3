# A TLA+ model of trade-guard-mcp

trade-guard-mcp is a paper-trading guard: a caller sends a `TradeIntent` over a
stdio JSON-RPC transport, the guard validates it, checks the evidence it cites,
checks buying power, simulates a fill, moves an in-memory paper account and
writes one hash-chained audit record per idempotency key to SQLite. This
directory models that program, checks the models with TLC and proves their
central properties with TLAPS. Paths below are relative to
`src/crates/trade-guard-core/src/` unless they start elsewhere.

## 1. Inventory

| Component | State it keeps | Operations | What makes it correct |
| --- | --- | --- | --- |
| `execution.rs` | none of its own; locals of one call | `authorize_and_submit_paper_order`, `persist_and_return` | one durable decision per key; a resubmission gets that decision; the account moves only for an allowed paper order, at most once per key; the reservation is always released |
| `audit.rs` | the `events` table in SQLite | `append` (read the last hash, INSERT), `find_by_idempotency_key`, `get`, `list_recent`, `verify_integrity` | UNIQUE keys; an untouched log verifies; a touched one does not |
| `account.rs` | cash, reserved cash, positions (memory only) | `apply_fill`, `buying_power` | agrees with the recorded orders; cash never negative; nothing left reserved |
| `order.rs`, `providers.rs` | an order and its fills; quotes | `Order::apply_fill`, `simulate_fill`, `quote_for` | a limit is honoured; the estimate covers the fill |
| `policy.rs`, `evidence.rs`, `legal_status.rs`, `policy_decision.rs` | none | `validate_trade_intent`, `check_evidence_eligibility`, `check_buying_power` | verdicts change with the clock in one direction only; live is stricter than paper |
| `jurisdiction_venue.rs` | venue profiles | `check_venue_profile_availability` | warns, never blocks |
| `decimal.rs` | none | checked fixed-point arithmetic, `approx_div`, the decimal grammar | every result stays in range; overflow takes the caller's default |
| `utc_timestamp.rs` | none | `now`, `saturating_diff_seconds`, RFC 3339, civil dates | less than a second of slack; dates right for every day |
| `tools.rs`, `mcp.rs`, `state.rs`, `main.rs` | `GuardState`: account, simulator, store, venues | the stdio loop, 14 tools | one call at a time; a call is answered or the process is gone |
| `auth.rs`, `sha256.rs`, `instrument.rs` | none | constant role, hash, value type | not modelled or abstracted, see section 8 |
| `risk.rs`, `reconciliation.rs`, `admin.rs`, `telemetry.rs` | none | none (doc comments only) | nothing to model |

**How they interact.** `run_stdio` reads a line, `handle_line` dispatches it to
a tool with `&mut GuardState`, the tool calls `authorize_and_submit_paper_order`
synchronously, and the answer is written to stdout. The only durable state is
the SQLite file; account and quotes live in the process. Every store operation
opens its own connection and each statement commits by itself.

**What is hard here.** The account moves *before* the record is appended, so a
failed append and a crash in between are visible. The lookup of a key, the
reading of the previous hash and the INSERT are three separate statements, so a
second process on the same `TRADE_GUARD_DB` interleaves with them. An answer can
be lost after its decision is durable, and the caller comes back with the same
key and perhaps a different intent. A restarted process has forgotten the
account but not the decisions. All arithmetic is checked and every failure
replaced by a default. Every time comparison drops the nanoseconds first. The
full list, line by line, is under `hazards` in `PROJECT.json`.

## 2. Modules

| Module | Models | EXTENDS |
| --- | --- | --- |
| `Decimal` | `decimal.rs` arithmetic at any width and scale | |
| `TradeIntent` | intent, evidence, order records; `saturating_diff_seconds` | `Decimal` |
| `Policy` | the stateless gates and outcomes, the venue warning | `TradeIntent` |
| `PaperSimulator` | quotes, fills, estimate, `Order::apply_fill` | `TradeIntent` |
| `Account` | `AccountSnapshot` | `TradeIntent` |
| `AuditStore` | the table's queries, the chain, `verify_integrity` | |
| `Execution` | the protocol, by several processes with crashes and store failures | all of the above |
| `AtomicSubmission` | the abstract promise: a key is decided once, and the account follows in the same instant | |
| `ExecutionRefinement` | the mapping of `Execution` to `AtomicSubmission` | `Execution` |
| `AuditTamper` | appends next to an editor of the database file | `AuditStore` |
| `PolicyClock` | the gates' verdicts as the clock advances | `Policy` |
| `Calendar` | leap years, month lengths, civil dates to days and back | |
| `Digits`, `DecimalText`, `Timestamp` | digit sequences; the decimal grammar; RFC 3339 and the arithmetic of instants | `Decimal`, `Calendar` |
| `LongRun` | one process kept up for long: its clock day by day, its account fill by fill, both through their texts | `Account`, `DecimalText`, `Timestamp` |
| `Tools` | what each tool except the submission reads and answers | `Account`, `Policy`, `AuditStore` |
| `StdioServer` | `run_stdio` and `handle_line` around `Execution`: lines in, answers out | `Execution`, `Tools` |
| `ExecutionInvariants` | the inductive strengthenings used in the proofs | `Execution` |
| `StdioServerInvariants` | the same for `StdioServer` | `StdioServer`, `ExecutionInvariants` |
| `AccountProofs` | lemmas: the arithmetic stays in range, quotients and products keep their order, a fill leaves an account an account | `Account` |
| `ExecutionProofs` | theorems about `Execution`: its types, its records and its replies | `ExecutionInvariants`, `AccountProofs` |
| `ExecutionAccountProofs` | the account of `Execution`: estimate, cash, ledger, and the refinement of `AtomicSubmission` | `ExecutionProofs`, `ExecutionRefinement` |
| `StdioServerProofs` | theorems about what the callers of any number of processes are told | `StdioServerInvariants`, `ExecutionAccountProofs` |
| `TextProofs` | theorems about the program's conversions alone: every date, instant, amount and text of them | `LongRun`, `AccountProofs` |
| `LongRunProofs` | theorems about a process of any age: its calendar, its account and their texts | `TextProofs` |
| `AuditTamperProofs` | theorems about logs of any length | `AuditTamper` |
| `PolicyClockProofs` | theorems about the gates at any clock resolution | `PolicyClock` |
| `MCExecution`, `MCPolicyClock`, `MCLongRun`, `MCStdioServer` | instances for TLC | |

Definitions named `Bug...` are deliberately wrong variants of the definition
that follows them. Nothing refers to them; the `mutants` table of
`PROJECT.json` says which property notices when one takes the place of the
right one.

### How `Execution` corresponds to the code

| Variable | Code |
| --- | --- |
| `rows` | the `events` table in `seq` order; a row is the record, `prev_hash`, `content_hash` |
| `acct[s]` | `GuardState::account` of process `s` |
| `pc[s]`, `call[s]` | where `authorize_and_submit_paper_order` is, and its locals (`intent`, `evidence`, `now`, `order`, `estimated_notional`, `outcome`, `prev_hash`) |
| `failures` | store statements that failed so far (bounded by `MaxStoreFailures`) |
| `replied`, `applied`, `booked` | history: answers given per key, fills applied per key, and the account the recorded orders alone would give |

| Action | Code |
| --- | --- |
| `Submit` | `tools.rs:204-212`: parse, read the clock once |
| `FindHit`, `FindMiss` | `execution.rs:74-80` |
| `Refuse`, `Accept` | `execution.rs:82-150`: every early return before an order exists; the order and its estimate |
| `RiskReject`, `ReserveRisk` | `execution.rs:156-169` |
| `FillOrder`, `LeaveOpen` | `execution.rs:170-183` |
| `Release` | `execution.rs:192-202` |
| `ReadPrev`, `Insert`, `InsertConflict` | `audit.rs:182-202`, statement by statement; a UNIQUE violation is returned as an error |
| `StoreFailure` | any other SQLite error at any of the three statements |
| `Reply` | the answer reaches stdout |
| `Crash`, `Restart` | the process ends between any two steps; `build_state` starts a new account |

Steps that touch only the process's own memory could be merged; they are kept
apart because a process may die between them and because a reader can put a
finger on the line.

### How `StdioServer` corresponds to the code

| Variable | Code |
| --- | --- |
| `stdin[s]`, `taken[s]` | the lines written to process `s` in its present life, and how many `stdin.lock().lines()` has yielded |
| `stdout[s]` | the lines `run_stdio` has written: the id, the form of the envelope (`result`, `tool-error` for `isError`, `parse-error`, `method-not-found`) and what the text holds |
| `duplicate[s]` | `was_duplicate` of the call being served |

| Action | Code |
| --- | --- |
| `Write` | external: the caller writes a line, whether or not earlier ones are answered |
| `Ignore` | `mcp.rs:55-58` and `65`: blank lines and messages without an id |
| `AnswerAtOnce` | `mcp.rs:60-97`: parse errors, unknown methods, `initialize`, `ping`, `tools/list`, and every tool that runs at most one statement |
| `ReadFails` | the statement of a reading tool returns an error |
| `StartSubmission`, `Serve`, `AnswerSubmission` | `tools.rs:204-232`: `Execution`'s steps, and the text they end in |
| `Undecodable` | `mcp.rs:105`: a line that is not UTF-8 ends `run_stdio`, and the process |
| `Die`, `Start` | the process is killed, or reads the end of its stdin; a new one has new streams |

A line is what the dispatcher tells apart: blank, not UTF-8, not JSON, or a
message with its id, method, tool and arguments. A JSON value that is not an
object, or an object without an id, is a message whose id is absent. Arguments
that a tool cannot read are absent too, which for every tool is an error. The
limits of the listings (200, and the defaults 10 and 50) are constants, so that
a table of two rows exceeds them. `OpenOrders` filters the listing by its index,
in ascending order (`Ascending`), which is what `filter_map` and `filter` do to
a vector. What a caller makes of its answers (`Asked`, `Tells`, `AccountAfter`)
belongs to the properties and stands for no code.

### How `LongRun` corresponds to the code

`clock` and `acct` are the program's values and move by the program's functions
(`checked_add_days`, `AccountSnapshot::apply_fill`), for fills of one
instrument. `date` and `exact` are the
reference: a date counted on from midnight to midnight by the month lengths, and
the cash, position, and lowest and highest entry price in integers without a
bound. `exact.inRange` says whether every product and sum so far fits the
program's integer. Every value also goes through its text, as it does in an
audit record or in an answer. A text is what the scanners make of it (a sign,
digits, a point, digits, a rest; fields, a fraction, a designator, a rest), so
its errors are the code's, in the code's order.

### Abstractions

Identifiers are model values; the chained SHA-256 is an injective
function (a hash *is* the history it commits to); confidence is only in or out
of range; the f64 inside `approx_div` is exact up to the rounding to the scale;
reason codes are shortened; the price-required reasons of the four order types
are one; fields no gate reads are left out.

## 3. Runs

| Run | Instance | Asks |
| --- | --- | --- |
| `one_process` | 1 process, 3 keys, 8 intents, 2 clock readings | types; replies are the record; no leaked reservation; account = what the rows say; the estimate covers the fill; cash never negative; limits honoured; the chain verifies; only valid paper intents move the account; refinement of `AtomicSubmission` |
| `two_processes` | 2 processes, 2 keys, 4 intents, symmetric | one row per key; replies are the record; one fill per key; a decision is final; two appends that race fork the chain at most |
| `store_failures` | 2 processes, 1 key, 3 intents, 1 failing statement, fairness | replies and reservations despite errors; every call ends; every call that does not fail decides its key |
| `tampering` | 4 rows, 2 changes to the file | the prefix `verify_integrity` counts as checked is genuine; edits, exchanges and interior deletions show at once |
| `policy_clock` | 3 s in half-second ticks, 160 intents, 224 bundles or none, 3 venues | one window of acceptance; slack below a second; live strictest; verdicts settle; the venue warning shows exactly outside the profile's period, up to a second |
| `long_running` | 146,000 days, 3 fills of 4 sides, 7 quantities and 4 prices | date and day number agree; instants and amounts are read back from their texts, and nothing else is taken for them; every fill moves cash and position by all of itself or, where a sum or product overflows, not at all; the average lies within the entry prices, and turns negative only at the least integer |
| `stdio_server` | 1 process, 3 lines a life out of 10, 2 intents, 1 failing statement, fairness | one answer per request, in order; every decision told is the recorded one; listings go back from the latest; open orders and snapshots follow from earlier answers; notifications do nothing; the backlog is served |

Five more runs end in a violation, each of a sentence the repository states;
see section 6.

**Bounds.** A raw unit is half a unit of currency (`SCALE = 2`), so truncation
and rounding happen; the cash of 10 pays for one buy of two units at 4.50 and
not for two, so the buying-power check decides both ways in the same behaviour.
Three keys give every order of a buy, a sale and a third order; one key alone is
submitted under four different intents, so key reuse meets every decision. Two
processes are enough for a race on one key: what happens between a lookup and an
INSERT depends only on whether somebody else recorded the key, and a third
process adds nobody new (the theorems hold for any number). One failing
statement is enough to separate account and log, and a second only repeats it.
Three lines a life let a submission, something in between and a read meet, with
the rows of an earlier life already there; with two keys a listing can be full,
and one order is open or refused by the order in which the two are submitted. At
most two lines are unread at a time (`MaxUnread`), so a caller is ahead of the
answers. The calendar's formulas repeat every 400 years, and `long_running`
walks one whole cycle that contains the change of sign of the year and of the
era, then the days around 1970 and around the year 10000; its days are short
(`HoursPerDay` 2), because dates depend on days only. Its integer holds two
sales of a hundred units, the second of which reaches the least value, and not a
third; and the notional of a hundred units at 19.9 overflows, while that of a
hundred at 3 does not. For tampering, four rows leave an interior row on both sides of a change, and
two changes cover a change that hides another. Half-second ticks make the
whole-second truncation visible.

**Fairness.** `FairSpec` asks weak fairness of each process's steps while it
serves a call: the code between two reads of stdin is straight-line and its
store calls return. Nothing obliges callers to submit, processes to die or
operators to restart them. `FairServerSpec` asks the same of everything a
process does with what it has read, because `run_stdio` goes on to the next line
as long as there is one; nothing obliges a caller to write. All liveness
properties count the end of the process as an end of the call.

## 4. The atomic specification

`AtomicSubmission` has two steps: a key is decided and the deciding process's
account takes the effect in the same instant; or a process is replaced by one
with a new account. `Execution` with one process and a working store implements
it (`AtomicRefinement`), with the INSERT as the instant: until then the mapped
account is the one the rows account for. With two processes, or a failing
store, it does not: the loser of a race, or the victim of a failed append, has
moved its account for a decision that is not in the log.

## 5. What is proved

All for every set of processes, keys and intents, every clock, every quote and
every integer width, from the named assumptions of the modules (`SCALE` and
`TicksPerSecond` positive, the constants well typed, half the spread below every
mid price, an absent option distinct from any value: an order, an integer, a
venue, a call's result).

| Theorem | States | Argument |
| --- | --- | --- |
| `TypeCorrect` | `Spec => []TypeOK` | `TypeInv` adds what the middle of a call carries (`CallWellFormed`): an order past the gates is unfilled with a positive quantity, and a filled order has a fill. The arithmetic lemmas of `AccountProofs` show that every default keeps a raw value in range |
| `OneRow` | `Spec => []OneRowPerKey` | `Insert` requires the key to be absent from the rows |
| `OriginalOutcome` | `Spec => []RepliesMatchRecord` | `ReplyInv` adds `AnswerRecorded`: at the point of replying, the answer is in the table. It enters by `FindHit` or `Insert` and rows never leave |
| `OneFill` | `Spec => []AtMostOneFillPerKey`, if no statement fails | `FillInv`: a key that moved this account is recorded or still in this call's hands, so a call past the lookup has not moved it before. Without the condition it is false (run `unrecorded_fill`) |
| `NoLeakedReservation` | `Spec => []ReservationReleased` | the reservation equals the estimate from `ReserveRisk` to `Release`, also where the addition overflows |
| `AccountFollowsLedger` | `Spec => []AccountMatchesLedger`, for one process, if no statement fails | `LedgerInv`: from the fill to the INSERT the account is ahead of what is booked by exactly the order of the call (`AccountTracked`), and that order's key is still free (`KeyStillOpen`), so the INSERT cannot be refused |
| `FinalDecision` | `Spec => DecisionIsFinal` | rows are only appended and keys are unique (`OneRow`), so the row a lookup finds for a key stays the row it finds |
| `LimitsRespected` | `Spec => []LimitHonoured` | `LimitInv`: the order in the hands of a call is within its limit (`WithinLimit`) from the gates on; `FillOrder` is the only step that adds a fill, and `SimulateFill` refuses to cross the limit |
| `OnlyValidPaperMoves` | `Spec => OnlyPaperMovesAccount` | `GatesPassed`: past the gates the intent was valid at the call's own `now`; a fill needs a paper mode |
| `ChainVerifies` | `Spec => []ChainIntact`, for one process | `ChainInv`: the hash `ReadPrev` read is still that of the last row when `Insert` uses it. A second process makes it false, see section 6 |
| `RaceOnlyForks` | `Spec => []RaceForksAtMost`, for any number of processes | `ForkInv`: the hash a call is about to chain to need not be the last one any more, but it is one of the table's (`HashesUpTo`), and rows are only appended (`HashesKept`) |
| `StepsAreAtomic` | `Spec => AtomicRefinement`, for one process, if no statement fails | every step maps to a step of `AtomicSubmission` or to none: the INSERT is the instant of the decision. Uses `AccountFollowsLedger` (what the mapping shows of the account is what the records book) and `OneRow` |
| `EstimateIsCover` | `Spec => []EstimateCoversFill`, if `EstimatesSound` | `EstimateInv`: the estimate of the call in flight is the one its order was given (`SoundEstimate`), which is at least what the order costs at the ask: truncated products keep the order of their factors (`MulMonotone`, `DivMonotone`) |
| `CashStays` | `Spec => []CashNotNegative`, if `EstimatesSound` | `CashInv`: the estimate of a buy about to fill is not more than the cash, and the fill takes no more than the estimate (`EstimateInv`). It says nothing of the reservation, which exceeds the cash between the fill (`execution.rs:182`) and its release (`execution.rs:192`) |
| `EveryLineAnswered` | `ServerSpec => []OneAnswerPerRequest` | `StreamInv`: the requests among the lines taken are the answers given, and one more while a submission is being served (`ServesItsLine`); the next answer goes to the last of them |
| `AnswersAreRecorded` | `ServerSpec => []EveryAnswerRecorded` | `OrderInvariant` and `ReplyInv`: an answer is told from the row of its key, from `FindHit` or from the INSERT, and rows are only appended |
| `ListingsGoBack` | `ServerSpec => []ListingsAreRecent` | `ListingInv`: every listing was made from the log up to some earlier length, and everything its caller had been told before stood in that part |
| `OpenOrdersAreOpen` | `ServerSpec => []OpenOrdersAgree` | `OrderInv`: a recorded order carries the key of its record and is acknowledged, filled or rejected, and only the first of these is not terminal; with `ListingInv` |
| `SnapshotsFollow` | `ServerSpec => []SnapshotFollowsAnswers` | `SnapshotInv`: the account is the sum of the answers given in this life, plus the order of the call in flight once it has filled (`AnswersTracked`, `AnswersAddUp`) |
| `NotificationsAreInert` | `ServerSpec => NotificationsDoNothing` | a message without an id is never served (`ServesItsLine`), and only a call being served moves the account or the log |
| `CalendarsAgree` | `Spec => []DateAgrees`, of `LongRun` | `ClockInv`: the clock stands at the midnight of its date. The day after a date has the next number (`NextDateCounts`, through the length of a year and of each month), and `CivilRoundTrip`: for every date of every year `CivilFromDays(DaysFromCivil(date)) = date`. Years are counted from March and taken apart into 400-year cycles, centuries, rounds of four and years |
| `AmountReadsBack` | for every integer `x`, `Parse(ToDecimalString(x))` accepts `x`, or overflows where the absolute value of `x` is out of the type's range | digits written out denote the number they were written from (`ValueOfPadded`, `ValueOfDigits`), and the zeros trimmed from a fraction are the factor of ten that `parse` puts back |
| `AcceptedTextIsExact` | an accepted text, of any number of digits, denotes a raw value in range whose own text is that text without the trailing zeros of its fraction | the converse: a number's digits are those it was read from (`PaddedOfValue`, `DigitsOfValue`, `TrimOfFilled`) |
| `EveryDayIsADate` | every day number, before or after 1970, is that of a date of the calendar, the one `CivilFromDays` makes of it | counts on from the first of March that begins the 400-year cycle the day is in, one day after the other (`NextDateCounts`) |
| `EveryInstantReadsBack` | every instant is read back from its text to the nanosecond if its year has four digits, and refused otherwise | `EveryDayIsADate`; hours, minutes and seconds are the only ones whose sum is that second of the day; `ValueOfPadded` for the fraction |
| `AcceptedInstantIsExact` | an accepted timestamp text is in UTC, and is the text of its instant up to `Z` and trailing zeros | `CivilRoundTrip`: a date that `is_valid` admits is found again; `PaddedOfValue` for the fraction |
| `AmountTextsAreExact` | `Spec => []DecimalTextExact`, of `LongRun` | `AmountReadsBack` and `AcceptedTextIsExact` for the amounts of the account, which `TotalsInv` keeps integers of the type, and for the texts next to theirs |
| `InstantsReadBack` | `Spec => []InstantReadsBack`, of `LongRun` | `EveryInstantReadsBack`; by `ClockInv` the year of the instant is that of the date counted by hand |
| `NoDateIsMadeUp` | `Spec => []OnlyRealDates`, of `LongRun` | `AcceptedInstantIsExact` for the texts next to that of the clock (`MisspellingsAreTexts`) |
| `TotalsAreExact` | `Spec => []TotalsExact`, of `LongRun` | `TotalsInv`: as long as everything fits, no default of an `unwrap_or` is taken (`SignedFillIs`, `ApplyFillIs`) |
| `AverageIsBetween` | `Spec => []AverageWithinFills`, if `SCALE > 1` | `AverageInv`: a position that is added to gets the blend of two averages (`BlendedAverage`), which truncation only lowers, and not at all for whole units; rounding to the nearest does not pass an integer bound (`RoundDivBetween`) |
| `OverflowIsWhole` | `Spec => OverflowDropsWholeFills`, of `LongRun` | the checked product and the checked sum are followed one after the other (`CashOfFill`, `HeldAfterFill`); a truncated notional is less than one unit of the scale below its product |
| `AverageStaysPositive` | `Spec => AverageKeepsSign`, of `LongRun` | below the least integer's absolute value every product, sum and quotient is one of naturals (`AverageAfterFill`); a position that stays at the least integer is the exception the property names |
| `CheckedIsGenuine` | `Spec => []CheckedPrefixGenuine` | `TamperInv`: a row's hash is a log that was committed to, so a row that verifies stands for the whole log before it (`VerifiedHash`) |
| `NeverFalseAlarm` | `Spec => []NoFalseAlarm` | before the first edit every row links to the row before it and its hash is its own (`Untouched`) |
| `NoSilentEdit` | `Spec => TamperingShows` | a hash determines the log it stands for, so an edited record does not match its own hash and a misplaced one does not match its predecessor |
| `WindowIsUnbroken`, `VerdictsAreStable` | `Spec => []OneWindow`, `Spec => VerdictsSettle` | whole seconds follow the clock (`SecondsFollow`), and the gates compare `now` in one direction each (`IntentPasses`, `EvidencePasses` state the early returns as conjunctions) |
| `SlackIsBounded`, `VenuePeriod` | `Spec => []SlackBelowSecond`, `Spec => []VenueWindow` | an instant in no later second is less than a second later (`SecondsLag`) |
| `LiveNeedsMost` | `Spec => []LiveIsStrictest` | a live mode only adds conditions to `EvidencePasses` |

The hypotheses are honest preconditions, not conveniences. `EstimatesSound` says
that market orders carry no limit price and that quantity times estimated price
fits the integer; without the first the run `market_with_limit` refutes the
property. Without the second the estimate is the default zero
(`execution.rs:147-150`), and a limit buy can be filled at an ask below its limit
for a cost that does fit. `SCALE > 1` (the code has 10^8) is needed for the lower
bound of the average: at a scale of one two notionals that fit can have a sum
that does not. `OneFill`, `AccountFollowsLedger` and `StepsAreAtomic` need a
store that does not fail, and run `unrecorded_fill` shows what happens
otherwise. The theorems about `StdioServer` and `TotalsAreExact` need no
hypothesis beyond the assumptions on constants. `LongRunAssumption` anchors the
calendar (a stretch starts on a real date whose number, by the rule of the
calendar and not by the formulas of the code, is the day it starts on) and
says that quantities and prices come in as texts; that an accepted one is an
i128 is proved (`AcceptedTextIsExact`). `long_running` starts each of its
stretches on a date written out by hand, and TLC evaluates the assumption on it.
The theorems of `TextProofs` need only the assumptions on units: the scale and
the nanoseconds of a second are powers of ten, and a day has some hours of some
minutes of some seconds.

Facts about the first row at which a log goes wrong, about the least line not
yet answered, about the account after a number of answers, or about the digits
of a text need an induction over a length. The library's induction theorems
take an operator as a parameter, which the provers cannot instantiate. The
proofs use a minimal element of a set of naturals instead (`WFMin` with
`NatLessThanWellFounded`): `LeastNumber` in `AuditTamperProofs` and
`StdioServerProofs`, and in `TextProofs` `NatSetInduction`, for which a
statement about numbers is the set of the numbers it holds of. That a recursive
function (`TenTo`, and the prefix values inside `Value`) satisfies the equation
that defines it is proved too (`RecursiveFunction`): functions that satisfy it
up to some number exist for every number and agree where they meet.

Not proved, checked by TLC only: the liveness properties `CallDecides`,
`EveryCallEnds` and `BacklogIsServed`, because liveness under fairness and
ENABLED are out of the prover's reach. Every safety invariant and every action
property of the passing runs is stated by a theorem. `TotalsExact` and
`NoFalseAlarm` are proved and have no run of their own: what they say is close to
`OverflowDropsWholeFills` and to `ChainIntact`. Each inductive invariant
above was checked by TLC on the run's instance before it was proved.

## 6. Where the code and its documents part

| Run | Sentence | What happens |
| --- | --- | --- |
| `unrecorded_fill` | `execution.rs:8-11`, test at `372-373` | the account is filled before `append`; if `append` fails the retry fills it again |
| `market_with_limit` | `execution.rs:131-135` | a market buy with a `limit_price` below the ask is checked at the limit and filled at the ask |
| `live_key_reuse` | `trade_intent.rs:77-79`, `docs/THREAT_MODEL.md:30` | a live intent under an allowed paper intent's key is answered `allow`; it causes no order |
| `tail_deletion` | `audit.rs:15-16`, `docs/CAPABILITY_STATUS.md:29`, `docs/THREAT_MODEL.md:33` | deleting the last rows leaves a log that verifies |
| `nonpublic_evidence` | `legal_status.rs:29-31`, `docs/THREAT_MODEL.md:32` | the gates read `execution_eligible` and never `mnpi_classification` |

More facts that no document contradicts, and that a reader of the code should
know:

- With two processes the chain can fork (`audit.rs:22-23` assumes one request at
  a time; `ChainIntact` is therefore checked with one, and `RaceForksAtMost`
  says what is left with several), and the loser of a race on a key gets an
  error and keeps its fill in memory. `AtMostOneFillPerKey` counts per account
  and does not judge that fill.
- A notional that overflows is estimated as zero and passes the buying-power
  check (`execution.rs:147-150`). The fill costs nothing only if its own product
  overflows as well (`account.rs:109`); otherwise (a limit buy filled at a lower
  ask) it is charged in full, and cash can go below zero: the second hypothesis
  of `EstimateIsCover` excludes it, and no run's instance contains it. After an
  overflow cash and position no longer belong together (`TotalsExact` speaks of
  the time before), but they part by whole fills and never wrap
  (`OverflowDropsWholeFills`).
- A restarted process has a new account while the log remembers its keys
  (`src/README.md:62-65` says so). The models restart as the code does, and ask
  that the account of each life agrees with what that life recorded
  (`AccountMatchesLedger`, `SnapshotFollowsAnswers`).
- The average price of a position turns negative in one case only: a position of
  `i128::MIN`, whose absolute value is negative in a release build
  (`account.rs:156`, `AverageKeepsSign`).
- Notionals are truncated, so the average price of many fractions of a unit
  falls below every price paid, down to zero (`account.rs:148-162`).
  `AverageWithinFills` therefore asks for the lower bound of whole units only.
- `i128::MIN` formats to a text that `Decimal::parse` refuses, and has no
  absolute value (`decimal.rs:161-169`, `212-216`).
- A timestamp outside the years 0 to 9999 formats to a text that is not read
  back; the clock would have to be set there.
- A line that is not UTF-8 ends the process (`mcp.rs:105`), although text that
  is not JSON does not.
- `PolicyOutcome::and` has no caller outside its tests. `allow-with-adjustment`
  combined with `allow` stays as it is, and the reason codes of the outcome it
  replaces are dropped.

## 7. Plan

1. (done) `Decimal` to `Execution`, the atomic specification, the gates over
   time, the audit log under tampering, and the first theorems.
2. (done) The account over sequences of fills at the bounds of its integer, with
   the calendar and both grammars (`LongRun`).
3. (done) The server loop, the envelope and the tools (`StdioServer`, `Tools`).
4. (done) Proofs beyond the protocol's core: the step simulation of
   `AtomicSubmission`, the audit log under tampering, the gates over time.
5. (done) `EstimateCoversFill` and `CashNotNegative` under their honest
   precondition, the safety properties of `StdioServer`, and the calendar and the
   account of `LongRun`.
6. (done) The texts of `LongRun`: amounts and instants of any number of digits
   (`TextProofs`), and with them the last invariants that only TLC had checked.

## 8. Not modelled

An `UPDATE` of the columns of `events` that `verify_integrity` never reads
(`idempotency_key`, `event_id`, `created_at`): such an edit does not show, and
what the documents promise is that changed payloads and gaps do
(`docs/THREAT_MODEL.md:33`); the editor of `AuditTamper` changes `record_json`,
deletes rows or exchanges them. `auth.rs` (one constant role, no tool asks for it), `sha256.rs` (assumed free of
collisions; its vectors are tested), `PolicyOutcome::and` (no caller outside
tests), the session tables of the venue fixtures (data nothing reads), the
syntax of JSON and the schemas of the types (serde's work; what fails to parse
is an absent argument), the error of the f64 in `approx_div`, the width of the
i64 in timestamps, the deferred modules (no code), the installer and the
workflows.
