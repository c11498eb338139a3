------------------------------- MODULE Policy -------------------------------
(***************************************************************************)
(* The stateless gates: policy.rs, the venue warning of                    *)
(* jurisdiction_venue.rs and the outcomes of policy_decision.rs.  A chain  *)
(* of early returns is a chain of IF ... ELSE IF in the same order.        *)
(***************************************************************************)
EXTENDS TradeIntent

CONSTANT Profiles     \* the VenueRegistry: a profile or None per venue

ASSUME VenuesAssumption == None \notin Venues
ASSUME ProfilesAssumption ==
    Profiles \in [Venues -> Option([from : Nat, to : Option(Nat)])]

\* PolicyDecision.
Decisions == {"allow", "allow-with-adjustment", "reject", "expired",
              "blocked-by-source-policy", "blocked-by-jurisdiction",
              "blocked-by-entitlement", "blocked-by-market-state",
              "blocked-by-risk", "blocked-by-operator-control",
              "unknown-pending-reconciliation"}

\* The reason codes of this module and of the protocol in Execution.
Reasons == {"none",
    "quantity-must-be-positive", "idempotency-key-required",
    "confidence-out-of-range", "price-required",
    "decision-time-in-the-future", "intent-already-expired",
    "live-execution-requires-evidence-bundle", "internally-inconsistent",
    "has-quarantined-records", "created-after-decision",
    "future-public-availability-time", "not-live-execution-eligible",
    "insufficient-buying-power", "live-execution-not-implemented",
    "mode-does-not-request-paper-execution", "account-alias-mismatch"}

Warnings == {"none", "no-venue-profile", "venue-profile-not-effective"}

OutcomeType == [decision : Decisions, reason : Reasons, warning : Warnings]

\* PolicyOutcome::allow and PolicyOutcome::reject
Allow == [decision |-> "allow", reason |-> "none", warning |-> "none"]

Refusal(d, r) == [decision |-> d, reason |-> r, warning |-> "none"]

\* PolicyDecision::permits_submission
IsAllowed(o) == o.decision \in {"allow", "allow-with-adjustment"}

\* The three per-order-type price requirements of validate_trade_intent.
MissingPrice(i) ==
    \/ /\ i.otype \in {"limit", "limit-on-close", "stop-limit"}
       /\ ~PositivePrice(i.limit)
    \/ i.otype \in {"stop", "stop-limit"} /\ ~PositivePrice(i.stop)

ValidateTradeIntent(i, now) ==
    IF i.qty <= 0 THEN Refusal("reject", "quantity-must-be-positive")
    ELSE IF i.key \in BlankKeys THEN Refusal("reject", "idempotency-key-required")
    ELSE IF ~i.confident THEN Refusal("reject", "confidence-out-of-range")
    ELSE IF MissingPrice(i) THEN Refusal("reject", "price-required")
    ELSE IF DiffSeconds(i.decided, now) > 0
         THEN Refusal("reject", "decision-time-in-the-future")
    ELSE IF i.expires # None /\ DiffSeconds(i.expires, now) < 0
         THEN Refusal("expired", "intent-already-expired")
    ELSE Allow

\* EvidenceBundle::is_internally_consistent
InternallyConsistent(b) ==
    /\ b.quarantine = 0
    /\ b.allEligible = \A r \in b.records : r.eligible

\* EvidenceBundle::is_live_execution_eligible
LiveExecutionEligible(b) ==
    /\ b.purpose = "live-execution"
    /\ b.allEligible
    /\ b.quarantine = 0
    /\ b.records # {}
    /\ \A r \in b.records : r.eligible

\* A live-eligible bundle is waved through before the checks on its times.
\* (Bug...: a wrong variant of the definition that follows it, which a
\* property must catch.)
BugCheckEvidence(i, b, now) ==
    LET live == i.mode \in LiveModes
        Blocked(r) == Refusal("blocked-by-source-policy", r)
    IN  IF b = None
        THEN IF live THEN Blocked("live-execution-requires-evidence-bundle")
                     ELSE Allow
        ELSE IF live /\ LiveExecutionEligible(b) THEN Allow
        ELSE IF ~InternallyConsistent(b) THEN Blocked("internally-inconsistent")
        ELSE IF DiffSeconds(b.created, i.decided) > 0
             THEN Blocked("created-after-decision")
        ELSE IF \E r \in b.records :
                    r.public # None /\ DiffSeconds(r.public, now) > 0
             THEN Blocked("future-public-availability-time")
        ELSE Allow

CheckEvidenceEligibility(i, b, now) ==
    LET live == i.mode \in LiveModes
        Blocked(r) == Refusal("blocked-by-source-policy", r)
    IN  IF b = None
        THEN IF live THEN Blocked("live-execution-requires-evidence-bundle")
                     ELSE Allow
        ELSE IF ~InternallyConsistent(b) THEN Blocked("internally-inconsistent")
        ELSE IF b.quarantine > 0 THEN Blocked("has-quarantined-records")
        ELSE IF DiffSeconds(b.created, i.decided) > 0
             THEN Blocked("created-after-decision")
        ELSE IF \E r \in b.records :
                    r.public # None /\ DiffSeconds(r.public, now) > 0
             THEN Blocked("future-public-availability-time")
        ELSE IF live /\ ~LiveExecutionEligible(b)
             THEN Blocked("not-live-execution-eligible")
        ELSE Allow

\* check_buying_power, given the account's buying power.
CheckBuyingPower(power, estimate) ==
    IF estimate > power
    THEN Refusal("blocked-by-risk", "insufficient-buying-power")
    ELSE Allow

\* The end of the period is compared the wrong way round.
BugIsEffectiveAt(p, now) ==
    /\ DiffSeconds(p.from, now) <= 0
    /\ p.to = None \/ DiffSeconds(p.to, now) <= 0

\* VenueProfile::is_effective_at
IsEffectiveAt(p, now) ==
    /\ DiffSeconds(p.from, now) <= 0
    /\ p.to = None \/ DiffSeconds(now, p.to) <= 0

\* VenueRegistry::with_demo_fixtures: two venues, effective from one date on
\* without an end.  Their session tables are data nothing reads.
WithDemoFixtures(from) ==
    [v \in Venues |-> IF v \in {"ARCX", "XJPX"} THEN [from |-> from, to |-> None]
                                                ELSE None]

\* check_venue_profile_availability: a warning, never a refusal.
VenueWarning(venue, now) ==
    IF venue = None THEN "none"
    ELSE IF Profiles[venue] = None THEN "no-venue-profile"
    ELSE IF IsEffectiveAt(Profiles[venue], now) THEN "none"
    ELSE "venue-profile-not-effective"
=============================================================================
