---------------------------- MODULE TradeIntent ----------------------------
(***************************************************************************)
(* The vocabulary of trade_intent.rs, order.rs and evidence.rs: what a     *)
(* caller submits and what the guard answers with.  Identifiers are model  *)
(* values; an absent optional field is None.  Times are ticks, of which    *)
(* TicksPerSecond make a second, because the code compares whole seconds   *)
(* of timestamps that also carry nanoseconds.                              *)
(***************************************************************************)
EXTENDS Decimal, Sequences

CONSTANTS None,           \* an absent Option<_>
          Keys,           \* idempotency keys
          BlankKeys,      \* the keys that are empty once trimmed
          Aliases,        \* account aliases
          Instruments,    \* instrument_id values
          Venues,         \* venue_mic values
          TicksPerSecond  \* sub-second resolution of UtcTimestamp

ASSUME NoneAssumption == None \notin Int
ASSUME KeysAssumption == BlankKeys \subseteq Keys
ASSUME TicksAssumption == TicksPerSecond \in Nat \ {0}

Option(S) == S \cup {None}

Sides == {"buy", "sell", "sell-short", "buy-to-cover"}

\* Side::is_buy_side
BuySides == {"buy", "buy-to-cover"}

OrderTypes == {"market", "limit", "stop", "stop-limit", "market-on-close",
               "limit-on-close", "peg", "trailing-stop", "multi-leg", "other"}

Modes == {"observe", "advisory", "paper", "paper-autonomous",
          "guarded-live", "guarded-live-autonomous"}

\* IntentMode::requests_paper_execution
PaperModes == {"paper", "paper-autonomous"}

\* IntentMode::requests_live_execution
LiveModes == {"guarded-live", "guarded-live-autonomous"}

\* The fields of a TradeIntent that some branch of the guard reads.
\* confident says that the f64 confidence lies in 0.0..=1.0.
IntentType ==
    [key : Keys, alias : Aliases, mode : Modes, instr : Instruments,
     venue : Option(Venues), side : Sides, otype : OrderTypes, qty : Raw,
     limit : Option(Raw), stop : Option(Raw), confident : BOOLEAN,
     decided : Nat, expires : Option(Nat)]

MnpiClassifications ==
    {"public-confirmed", "public-but-use-restricted",
     "publication-status-uncertain", "ambiguous-origin",
     "suspected-nonpublic", "known-nonpublic", "prohibited-source"}

BundlePurposes == {"research", "advisory", "paper-execution", "live-execution"}

\* An EvidenceBundle and its EvidenceRecordRefs.
EvidenceRecordType ==
    [public : Option(Nat), eligible : BOOLEAN, mnpi : MnpiClassifications]
BundleType ==
    [created : Nat, records : SUBSET EvidenceRecordType, purpose : BundlePurposes,
     allEligible : BOOLEAN, quarantine : Nat]

OrderStates == {"rejected", "validated", "acknowledged", "filled",
                "partially-filled"}

\* An Order.  RiskReserved is overwritten by Acknowledged with nothing in
\* between; the other OrderStates are never assigned.
FillType == [qty : Raw, price : Raw]
OrderType ==
    [key : Keys, instr : Instruments, venue : Option(Venues), side : Sides,
     otype : OrderTypes, qty : Raw, limit : Option(Raw), state : OrderStates,
     filled : Raw, avg : Option(Raw), fills : Seq(FillType)]

\* An absent order is not an order.
ASSUME NoOrderAssumption == None \notin OrderType

\* Wrong variants of DiffSeconds, which a property must catch: one operand is
\* rounded up; only the part below the second is compared.
BugRoundUp(a, b) ==
    ((a + TicksPerSecond - 1) \div TicksPerSecond) - (b \div TicksPerSecond)
BugNanosOnly(a, b) == (a % TicksPerSecond) - (b % TicksPerSecond)

\* UtcTimestamp::saturating_diff_seconds: the nanoseconds are dropped
\* before the subtraction, not after it.
DiffSeconds(a, b) == (a \div TicksPerSecond) - (b \div TicksPerSecond)

\* The price is present and positive.
PositivePrice(p) == p # None /\ p > 0
=============================================================================
