------------------------------- MODULE Tools -------------------------------
(***************************************************************************)
(* tools.rs without the submission, which is Execution's: what each tool   *)
(* reads and answers, as operators on the events table and the account.    *)
(* A tool's result is [failed, body]; failed is the tool-level isError.    *)
(* The limits of a listing are constants, so that a short table can exceed *)
(* them.                                                                   *)
(***************************************************************************)
EXTENDS Account, Policy, AuditStore

CONSTANTS MaxListed,          \* the most records a listing shows (200)
          DefaultListed,      \* list-recent-decisions without a limit (10)
          DefaultScanned      \* get-open-orders without a limit (50)

ASSUME ListingAssumption ==
    /\ MaxListed \in Nat \ {0}
    /\ DefaultListed \in 1..MaxListed /\ DefaultScanned \in 1..MaxListed

\* The entries of tool_definitions, which capabilities and tool-catalog repeat.
ToolNames ==
    {"health", "capabilities", "tool-catalog", "self-test",
     "validate-trade-intent", "check-evidence-eligibility",
     "get-account-snapshot", "get-positions", "get-open-orders",
     "get-venue-profile", "authorize-and-submit-paper-order",
     "list-recent-decisions", "replay-decision", "audit-integrity"}

\* The tools that read the database.
StoreTools == {"self-test", "get-open-orders", "list-recent-decisions",
               "replay-decision", "audit-integrity"}

\* The arguments of a call; a field that is missing, or that its tool cannot
\* read, is None.  A bundle that cannot be read fails the call like an intent
\* that cannot, and is taken for one.
ArgumentsType ==
    [intent : Option(IntentType), bundle : Option(BundleType),
     limit : Option(Int), key : Option(Keys), venue : Option(Venues)]

Clamp(limit) == Min({MaxListed, Max({1, limit})})

Limit(args, default) == Clamp(IF args.limit = None THEN default ELSE args.limit)

\* ORDER BY seq ASC LIMIT.  (Bug...: a wrong variant of the definition that
\* follows it, which a property must catch.)
BugListRecent(table, limit) ==
    [k \in 1..Min({limit, Len(table)}) |-> table[k].rec]

\* AuditStore::list_recent: newest first.
ListRecent(table, limit) ==
    [k \in 1..Min({limit, Len(table)}) |-> table[Len(table) + 1 - k].rec]

\* A filled order is forgotten.
BugIsTerminal(order) == order.state = "rejected"

\* OrderState::is_terminal, of the states an order is ever in.
IsTerminal(order) == order.state \in {"rejected", "filled"}

\* The members of a finite set of numbers, in ascending order.
Ascending(S) ==
    CHOOSE q \in [1..Cardinality(S) -> S] :
        \A j, k \in DOMAIN q : j < k => q[j] < q[k]

\* get_open_orders, as the records that hold the orders, newest first.
OpenOrders(table, limit) ==
    LET recent == ListRecent(table, limit)
        open   == Ascending({k \in DOMAIN recent :
                                /\ recent[k].order # None
                                /\ ~IsTerminal(recent[k].order)})
    IN  [k \in DOMAIN open |-> recent[open[k]]]

\* The record that was written last.
BugGet(table, key) == table[Len(table)].rec

\* AuditStore::get, for an event id that is recorded.
Get(table, key) == FindByIdempotencyKey(table, key)

Answered(body) == [failed |-> FALSE, body |-> body]

Failed(body) == [failed |-> TRUE, body |-> body]

\* validate_trade_intent_tool and check_evidence_eligibility_tool: a refusal
\* is an answer like any other.
CheckIntent(tool, args, now) ==
    IF args.intent = None THEN Failed(None)
    ELSE Answered(IF tool = "validate-trade-intent"
                  THEN ValidateTradeIntent(args.intent, now)
                  ELSE CheckEvidenceEligibility(args.intent, args.bundle, now))

\* self_test and audit_integrity: a report that finds something is an error.
ReportIntegrity(table) ==
    LET report == VerifyIntegrity(table)
    IN  IF report.failure = "none" THEN Answered(report) ELSE Failed(report)

ReplayDecision(table, args) ==
    IF args.key # None /\ Recorded(table, args.key)
    THEN Answered(Get(table, args.key))
    ELSE Failed(None)

VenueProfile(args) ==
    IF args.venue # None /\ Profiles[args.venue] # None
    THEN Answered(Profiles[args.venue])
    ELSE Failed(None)

\* call_tool for every tool but the submission; health, capabilities and
\* tool-catalog answer with constants.
CallTool(tool, args, table, account, now) ==
    CASE tool \in {"health", "capabilities", "tool-catalog"} -> Answered(None)
      [] tool \in {"validate-trade-intent", "check-evidence-eligibility"} ->
             CheckIntent(tool, args, now)
      [] tool \in {"self-test", "audit-integrity"} -> ReportIntegrity(table)
      [] tool = "get-account-snapshot" -> Answered(account)
      [] tool = "get-positions" -> Answered(account.pos)
      [] tool = "get-open-orders" ->
             Answered(OpenOrders(table, Limit(args, DefaultScanned)))
      [] tool = "list-recent-decisions" ->
             Answered(ListRecent(table, Limit(args, DefaultListed)))
      [] tool = "replay-decision" -> ReplayDecision(table, args)
      [] tool = "get-venue-profile" -> VenueProfile(args)
      [] OTHER -> Failed(None)
=============================================================================
