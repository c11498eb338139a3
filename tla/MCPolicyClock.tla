--------------------------- MODULE MCPolicyClock ---------------------------
(***************************************************************************)
(* Half-second ticks over three seconds, with every decision, expiry and   *)
(* publication time in the first two.                                      *)
(***************************************************************************)
EXTENDS PolicyClock

\* A period without an end, one that ends between two seconds, and none.
MCProfiles ==
    [v \in Venues |-> CASE v = "ARCX" -> [from |-> 3, to |-> None]
                         [] v = "XJPX" -> [from |-> 1, to |-> 3]
                         [] v = "XXXX" -> None]

MCTimes == 0..3

MCIntents ==
    {[key |-> k, alias |-> "paper", mode |-> m, instr |-> "SPY", venue |-> None,
      side |-> "buy", otype |-> "stop-limit", qty |-> 2, limit |-> 2, stop |-> p,
      confident |-> TRUE, decided |-> d, expires |-> e] :
        k \in Keys, m \in {"paper", "guarded-live"}, p \in {2, None},
        d \in MCTimes, e \in Option(MCTimes)}

\* Empty bundles, bundles of one record, and a bundle of two that its
\* producer calls eligible although one of the records is not.
Record(p, e, m) == [public |-> p, eligible |-> e, mnpi |-> m]

Records ==
    {{}} \cup {{Record(p, e, m)} : p \in {None, 1, 2}, e \in BOOLEAN,
                                   m \in {"public-confirmed", "known-nonpublic"}}
         \cup {{Record(None, TRUE, "public-confirmed"),
                Record(3, FALSE, "ambiguous-origin")}}

MCBundles ==
    {[created |-> c, records |-> rs, purpose |-> u, allEligible |-> a,
      quarantine |-> q] :
        c \in {0, 2}, rs \in Records, u \in {"paper-execution", "live-execution"},
        a \in BOOLEAN, q \in {0, 1}}
=============================================================================
