----------------------------- MODULE PolicyClock -----------------------------
(***************************************************************************)
(* The verdicts of policy.rs as the clock moves on.  A caller may validate *)
(* an intent, check its evidence and submit it at different times, so what *)
(* the gates say at one reading of the clock is relied on at a later one.  *)
(***************************************************************************)
EXTENDS Policy

CONSTANTS Intents,    \* the intents a caller may hold
          Bundles,    \* the evidence bundles a caller may attach
          Horizon     \* the last reading of the clock

ASSUME ClockAssumption ==
    /\ Intents \subseteq IntentType /\ Bundles \subseteq BundleType
    /\ Horizon \in Nat

VARIABLES intent, bundle, now

vars == <<intent, bundle, now>>

Init == intent \in Intents /\ bundle \in Option(Bundles) /\ now = 0

\* The system clock advances; the intent and its evidence stay as they are.
Tick == now < Horizon /\ now' = now + 1 /\ UNCHANGED <<intent, bundle>>

Next == Tick

Spec == Init /\ [][Next]_vars

-----------------------------------------------------------------------------

Verdict(t) == ValidateTradeIntent(intent, t)

Evidence(t) == CheckEvidenceEligibility(intent, bundle, t)

Accepted(t) == IsAllowed(Verdict(t)) /\ IsAllowed(Evidence(t))

\* The same intent in the other kind of mode.
InMode(m) == [intent EXCEPT !.mode = m]

\* Both gates agree, at every instant, only on one unbroken window of time:
\* an intent that was accepted once and is refused later is refused for good.
OneWindow ==
    \A u \in 0..now, t \in 0..now :
        u <= t /\ Accepted(u) /\ Accepted(now) => Accepted(t)

\* Whole-second comparison costs less than a second: nothing is accepted a
\* second or more before it was decided, before its evidence is public, or
\* after it has expired.
SlackBelowSecond ==
    Accepted(now) =>
        /\ intent.decided < now + TicksPerSecond
        /\ intent.expires # None => now < intent.expires + TicksPerSecond
        /\ bundle # None =>
               \A r \in bundle.records :
                   r.public # None => r.public < now + TicksPerSecond

\* The gate "correctly distinguishes paper-safe from live-safe evidence and
\* cannot be bypassed by mode": evidence good enough for a live mode is good
\* enough for every other mode, at the same time.
LiveIsStrictest ==
    \A m \in LiveModes :
        IsAllowed(CheckEvidenceEligibility(InMode(m), bundle, now)) =>
            IsAllowed(Evidence(now))

\* Evidence that was acceptable stays acceptable; an expired intent stays
\* expired.
VerdictsSettle ==
    [][/\ IsAllowed(Evidence(now)) => IsAllowed(Evidence(now'))
       /\ Verdict(now).decision = "expired" =>
              Verdict(now').decision = "expired"]_vars

\* Paper simulation carries its "visible limitation" when the profile of the
\* venue is missing or out of its period, and only then: a profile counts on
\* every instant of its period and less than a second outside it.
VenueWindow ==
    \A v \in Venues :
        LET p == Profiles[v]
            Within(slack) == /\ p # None
                             /\ p.from < now + slack
                             /\ p.to # None => now < p.to + slack
        IN  /\ Within(1) => VenueWarning(v, now) = "none"
            /\ VenueWarning(v, now) = "none" => Within(TicksPerSecond)

\* "Only PublicConfirmed records ... may become execution evidence": evidence
\* accepted for a live mode holds no record of another classification.
OnlyPublicConfirmedIsLive ==
    intent.mode \in LiveModes /\ IsAllowed(Evidence(now)) =>
        \A r \in bundle.records : r.mnpi = "public-confirmed"
=============================================================================
