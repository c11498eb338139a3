-------------------------- MODULE PolicyClockProofs --------------------------
(***************************************************************************)
(* Proofs of what the verdicts of policy.rs do as the clock moves on, for  *)
(* every resolution of the clock, every intent and every bundle.  All time *)
(* comparisons go through whole seconds, so all of it rests on two facts   *)
(* about them: they follow the clock, and they lag less than a second.     *)
(***************************************************************************)
EXTENDS PolicyClock, TLAPS

ClockInv == /\ intent \in IntentType
            /\ bundle \in Option(BundleType)
            /\ now \in Nat

-----------------------------------------------------------------------------
(* Whole seconds.                                                          *)

LEMMA FloorBy ==
    ASSUME NEW a \in Nat, NEW d \in Nat \ {0}
    PROVE  a \div d \in Nat /\ d * (a \div d) <= a /\ a < d * (a \div d) + d
<1> DEFINE q == a \div d
           r == a % d
<1>1. /\ q \in Int /\ r \in 0..(d - 1)
      /\ a = d * q + r
  OBVIOUS
<1>2. q >= 0
  <2> SUFFICES ASSUME q <= -1 PROVE FALSE
    BY <1>1
  <2>1. d * q <= d * (-1)
    BY <1>1
  <2> QED BY <1>1, <2>1
<1> QED BY <1>1, <1>2

LEMMA Floor ==
    ASSUME NEW a \in Nat
    PROVE  LET q == a \div TicksPerSecond
           IN  /\ q \in Nat
               /\ TicksPerSecond * q <= a
               /\ a < TicksPerSecond * q + TicksPerSecond
BY TicksAssumption, FloorBy

\* A later instant is in no earlier second.
LEMMA SecondsFollow ==
    ASSUME NEW a \in Nat, NEW b \in Nat, a <= b
    PROVE  a \div TicksPerSecond <= b \div TicksPerSecond
<1> DEFINE d == TicksPerSecond
           p == a \div d
           q == b \div d
<1>1. d \in Nat \ {0} /\ p \in Nat /\ q \in Nat /\ d * p <= a /\ b < d * q + d
  BY TicksAssumption, Floor
<1> HIDE DEF d, p, q
<1> SUFFICES ASSUME q < p PROVE FALSE
  BY <1>1 DEF d, p, q
<1>2. PICK k \in Nat : p = q + 1 + k
  <2>1. p - q - 1 \in Nat /\ p = q + 1 + (p - q - 1)
    BY <1>1
  <2> QED BY <2>1
<1>3. d * p = d * q + d + d * k /\ d * k >= 0
  BY <1>1, <1>2
<1> QED BY <1>1, <1>3

\* An instant in no later second is less than a second later.
LEMMA SecondsLag ==
    ASSUME NEW a \in Nat, NEW b \in Nat,
           a \div TicksPerSecond <= b \div TicksPerSecond
    PROVE  a < b + TicksPerSecond
<1> DEFINE d == TicksPerSecond
           p == a \div d
           q == b \div d
<1>1. /\ d \in Nat \ {0} /\ p \in Nat /\ q \in Nat /\ p <= q
      /\ a < d * p + d /\ d * q <= b
  BY TicksAssumption, Floor
<1> HIDE DEF d, p, q
<1>2. PICK k \in Nat : q = p + k
  <2>1. q - p \in Nat /\ q = p + (q - p)
    BY <1>1
  <2> QED BY <2>1
<1>3. d * q = d * p + d * k /\ d * k >= 0
  BY <1>1, <1>2
<1>4. a < b + d
  BY <1>1, <1>3
<1> QED BY <1>4 DEF d

\* The two facts, as the gates use them.
LEMMA NotAfter ==
    ASSUME NEW a \in Nat, NEW b \in Nat
    PROVE  /\ DiffSeconds(a, b) \in Int
           /\ a <= b => DiffSeconds(a, b) <= 0 /\ DiffSeconds(b, a) >= 0
           /\ DiffSeconds(a, b) <= 0 <=> DiffSeconds(b, a) >= 0
           /\ DiffSeconds(a, b) <= 0 => a < b + TicksPerSecond
           /\ \A c \in Nat : b <= c /\ DiffSeconds(a, b) <= 0 => DiffSeconds(a, c) <= 0
<1> DEFINE p == a \div TicksPerSecond
           q == b \div TicksPerSecond
<1>1. p \in Nat /\ q \in Nat /\ DiffSeconds(a, b) = p - q /\ DiffSeconds(b, a) = q - p
  BY Floor DEF DiffSeconds
<1>2. a <= b => p <= q
  BY SecondsFollow
<1>3. p <= q => a < b + TicksPerSecond
  BY SecondsLag
<1>4. ASSUME NEW c \in Nat, b <= c
      PROVE  LET r == c \div TicksPerSecond
             IN  r \in Nat /\ q <= r /\ DiffSeconds(a, c) = p - r
  BY <1>4, Floor, SecondsFollow DEF DiffSeconds
<1> HIDE DEF p, q
<1>5. DiffSeconds(a, b) <= 0 <=> p <= q
  BY <1>1
<1>6. \A c \in Nat : b <= c /\ DiffSeconds(a, b) <= 0 => DiffSeconds(a, c) <= 0
  <2> SUFFICES ASSUME NEW c \in Nat, b <= c, p <= q PROVE DiffSeconds(a, c) <= 0
    BY <1>5
  <2>1. PICK r \in Nat : q <= r /\ DiffSeconds(a, c) = p - r
    BY <1>4
  <2> QED BY <1>1, <2>1
<1> QED BY <1>1, <1>2, <1>3, <1>5, <1>6

-----------------------------------------------------------------------------
(* What the two gates accept, as a conjunction instead of a chain of early *)
(* returns.                                                                *)

IntentPasses(i, t) ==
    /\ ~(i.qty <= 0) /\ i.key \notin BlankKeys /\ i.confident
    /\ ~MissingPrice(i)
    /\ ~(DiffSeconds(i.decided, t) > 0)
    /\ i.expires # None => ~(DiffSeconds(i.expires, t) < 0)

EvidencePasses(i, b, t) ==
    \/ b = None /\ i.mode \notin LiveModes
    \/ /\ b # None
       /\ InternallyConsistent(b) /\ ~(b.quarantine > 0)
       /\ ~(DiffSeconds(b.created, i.decided) > 0)
       /\ \A r \in b.records :
              r.public # None => ~(DiffSeconds(r.public, t) > 0)
       /\ i.mode \in LiveModes => LiveExecutionEligible(b)

LEMMA IntentAccepted ==
    ASSUME NEW i, NEW t
    PROVE  IsAllowed(ValidateTradeIntent(i, t)) <=> IntentPasses(i, t)
BY DEF IsAllowed, ValidateTradeIntent, Refusal, Allow, IntentPasses

LEMMA EvidenceAccepted ==
    ASSUME NEW i, NEW b, NEW t
    PROVE  IsAllowed(CheckEvidenceEligibility(i, b, t)) <=> EvidencePasses(i, b, t)
BY DEF IsAllowed, CheckEvidenceEligibility, Refusal, Allow, EvidencePasses

\* An intent is expired, and by nothing else, once its expiry lies in an
\* earlier second and every check before that one has passed.
LEMMA IntentExpired ==
    ASSUME NEW i, NEW t
    PROVE  ValidateTradeIntent(i, t).decision = "expired" <=>
               /\ ~(i.qty <= 0) /\ i.key \notin BlankKeys /\ i.confident
               /\ ~MissingPrice(i)
               /\ ~(DiffSeconds(i.decided, t) > 0)
               /\ i.expires # None /\ DiffSeconds(i.expires, t) < 0
BY DEF ValidateTradeIntent, Refusal, Allow

-----------------------------------------------------------------------------

LEMMA IntentTimes ==
    ASSUME NEW i \in IntentType
    PROVE  i.decided \in Nat /\ (i.expires # None => i.expires \in Nat)
BY DEF IntentType, Option

LEMMA BundleTimes ==
    ASSUME NEW b \in Option(BundleType), b # None
    PROVE  /\ b.created \in Nat
           /\ \A r \in b.records : r.public # None => r.public \in Nat
BY DEF Option, BundleType, EvidenceRecordType

\* A verdict on evidence survives the passing of time.
LEMMA EvidenceKeeps ==
    ASSUME NEW i \in IntentType, NEW b \in Option(BundleType),
           NEW s \in Nat, NEW t \in Nat, s <= t,
           EvidencePasses(i, b, s)
    PROVE  EvidencePasses(i, b, t)
<1>1. CASE b = None
  BY <1>1 DEF EvidencePasses
<1>2. CASE b # None
  <2>1. ASSUME NEW r \in b.records, r.public # None
        PROVE  ~(DiffSeconds(r.public, t) > 0)
    <3>1. r.public \in Nat
      BY <1>2, <2>1, BundleTimes
    <3>2. ~(DiffSeconds(r.public, s) > 0)
      BY <1>2, <2>1 DEF EvidencePasses
    <3> QED BY <3>1, <3>2, NotAfter
  <2> QED BY <1>2, <2>1 DEF EvidencePasses
<1> QED BY <1>1, <1>2

\* Every reachable state holds a well-typed intent and bundle.
LEMMA ClockInvariant == Spec => []ClockInv
<1>1. Init => ClockInv
  BY ClockAssumption DEF Init, ClockInv, Option
<1>2. ClockInv /\ [Next]_vars => ClockInv'
  BY DEF ClockInv, Next, Tick, vars
<1> QED BY <1>1, <1>2, PTL DEF Spec

\* Both gates agree only on one unbroken window of time (policy.rs,
\* validate_trade_intent and check_evidence_eligibility): the evidence and the
\* decision time can only become acceptable, the expiry only unacceptable.
THEOREM WindowIsUnbroken == Spec => []OneWindow
<1>1. ClockInv => OneWindow
  <2> SUFFICES ASSUME ClockInv, NEW u \in 0..now, NEW t \in 0..now, u <= t,
                      Accepted(u), Accepted(now)
               PROVE  Accepted(t)
    BY DEF OneWindow
  <2> USE DEF ClockInv
  <2>1. u \in Nat /\ t \in Nat /\ now \in Nat /\ t <= now
    OBVIOUS
  <2>2. /\ IntentPasses(intent, u) /\ IntentPasses(intent, now)
        /\ EvidencePasses(intent, bundle, u)
    BY IntentAccepted, EvidenceAccepted DEF Accepted, Verdict, Evidence
  <2>3. EvidencePasses(intent, bundle, t)
    BY <2>1, <2>2, EvidenceKeeps
  <2>4. ~(DiffSeconds(intent.decided, t) > 0)
    <3>1. DiffSeconds(intent.decided, u) <= 0
      BY <2>1, <2>2, IntentTimes, NotAfter DEF IntentPasses
    <3> QED BY <2>1, <3>1, IntentTimes, NotAfter
  <2>5. ASSUME intent.expires # None
        PROVE  ~(DiffSeconds(intent.expires, t) < 0)
    <3>1. intent.expires \in Nat
      BY <2>5, IntentTimes
    <3>2. DiffSeconds(intent.expires, now) >= 0
      BY <2>1, <2>2, <2>5, <3>1, NotAfter DEF IntentPasses
    <3>3. DiffSeconds(now, intent.expires) <= 0
      BY <2>1, <3>1, <3>2, NotAfter
    <3>4. DiffSeconds(t, intent.expires) <= 0
      BY <2>1, <3>1, <3>3, SecondsFollow, Floor DEF DiffSeconds
    <3> QED BY <2>1, <3>1, <3>4, NotAfter
  <2>6. IntentPasses(intent, t)
    BY <2>2, <2>4, <2>5 DEF IntentPasses
  <2> QED BY <2>3, <2>6, IntentAccepted, EvidenceAccepted
          DEF Accepted, Verdict, Evidence
<1> QED BY <1>1, ClockInvariant, PTL

\* Comparing whole seconds (utc_timestamp.rs, saturating_diff_seconds) accepts
\* nothing a second or more early or late.
THEOREM SlackIsBounded == Spec => []SlackBelowSecond
<1>1. ClockInv => SlackBelowSecond
  <2> SUFFICES ASSUME ClockInv, Accepted(now) PROVE SlackBelowSecond!2
    BY DEF SlackBelowSecond
  <2> USE DEF ClockInv
  <2>1. IntentPasses(intent, now) /\ EvidencePasses(intent, bundle, now)
    BY IntentAccepted, EvidenceAccepted DEF Accepted, Verdict, Evidence
  <2>2. intent.decided < now + TicksPerSecond
    BY <2>1, IntentTimes, NotAfter DEF IntentPasses
  <2>3. ASSUME intent.expires # None
        PROVE  now < intent.expires + TicksPerSecond
    <3>1. intent.expires \in Nat
      BY <2>3, IntentTimes
    <3>2. DiffSeconds(now, intent.expires) <= 0
      BY <2>1, <2>3, <3>1, NotAfter DEF IntentPasses
    <3> QED BY <3>1, <3>2, NotAfter
  <2>4. ASSUME bundle # None, NEW r \in bundle.records, r.public # None
        PROVE  r.public < now + TicksPerSecond
    <3>1. r.public \in Nat
      BY <2>4, BundleTimes
    <3>2. DiffSeconds(r.public, now) <= 0
      BY <2>1, <2>4, <3>1, NotAfter DEF EvidencePasses
    <3> QED BY <3>1, <3>2, NotAfter
  <2> QED BY <2>2, <2>3, <2>4
<1> QED BY <1>1, ClockInvariant, PTL

\* Evidence that a live mode accepts, every other mode accepts at the same
\* time (policy.rs, check_evidence_eligibility).
THEOREM LiveNeedsMost == Spec => []LiveIsStrictest
<1>1. ClockInv => LiveIsStrictest
  <2> SUFFICES ASSUME ClockInv, NEW m \in LiveModes,
                      EvidencePasses(InMode(m), bundle, now)
               PROVE  EvidencePasses(intent, bundle, now)
    BY EvidenceAccepted DEF LiveIsStrictest, Evidence
  <2>1. InMode(m).mode = m /\ InMode(m).decided = intent.decided
    BY DEF InMode, ClockInv, IntentType
  <2> QED BY <2>1 DEF EvidencePasses
<1> QED BY <1>1, ClockInvariant, PTL

\* Accepted evidence stays accepted and an expired intent stays expired
\* (policy.rs, both gates).
THEOREM VerdictsAreStable == Spec => VerdictsSettle
<1> DEFINE Settle == /\ IsAllowed(Evidence(now)) => IsAllowed(Evidence(now'))
                     /\ Verdict(now).decision = "expired" =>
                            Verdict(now').decision = "expired"
<1>1. ClockInv /\ [Next]_vars => [Settle]_vars
  <2> SUFFICES ASSUME ClockInv, Tick PROVE Settle
    BY DEF Next
  <2> USE DEF ClockInv
  <2>1. now' \in Nat /\ now <= now'
    BY DEF Tick
  <2>2. ASSUME IsAllowed(Evidence(now)) PROVE IsAllowed(Evidence(now'))
    BY <2>1, <2>2, EvidenceAccepted, EvidenceKeeps DEF Evidence
  <2>3. ASSUME Verdict(now).decision = "expired"
        PROVE  Verdict(now').decision = "expired"
    <3>1. /\ ~(intent.qty <= 0) /\ intent.key \notin BlankKeys
          /\ intent.confident /\ ~MissingPrice(intent)
          /\ ~(DiffSeconds(intent.decided, now) > 0)
          /\ intent.expires # None /\ DiffSeconds(intent.expires, now) < 0
      BY <2>3, IntentExpired DEF Verdict
    <3>2. ~(DiffSeconds(intent.decided, now') > 0)
      BY <2>1, <3>1, IntentTimes, NotAfter
    <3>3. DiffSeconds(intent.expires, now') < 0
      BY <2>1, <3>1, IntentTimes, SecondsFollow, Floor DEF DiffSeconds
    <3> QED BY <3>1, <3>2, <3>3, IntentExpired DEF Verdict
  <2> QED BY <2>2, <2>3
<1> QED BY <1>1, ClockInvariant, PTL DEF Spec, VerdictsSettle

\* A venue profile counts on every instant of its period, and less than a
\* second outside it (jurisdiction_venue.rs, VenueProfile::is_effective_at).
THEOREM VenuePeriod == Spec => []VenueWindow
<1>1. ClockInv => VenueWindow
  <2> SUFFICES ASSUME ClockInv, NEW v \in Venues PROVE VenueWindow!(v)
    BY DEF VenueWindow
  <2> USE DEF ClockInv
  <2> DEFINE p == Profiles[v]
             Within(slack) == /\ p # None
                              /\ p.from < now + slack
                              /\ p.to # None => now < p.to + slack
  <2>1. v # None /\ (p # None => p.from \in Nat /\ (p.to # None => p.to \in Nat))
    BY VenuesAssumption, ProfilesAssumption DEF Option
  <2>2. VenueWarning(v, now) = "none" <=> p # None /\ IsEffectiveAt(p, now)
    BY <2>1 DEF VenueWarning
  <2>3. ASSUME Within(1) PROVE IsEffectiveAt(p, now)
    <3>1. p.from <= now /\ (p.to # None => now <= p.to)
      BY <2>1, <2>3
    <3> QED BY <2>1, <2>3, <3>1, NotAfter DEF IsEffectiveAt
  <2>4. ASSUME p # None, IsEffectiveAt(p, now) PROVE Within(TicksPerSecond)
    BY <2>1, <2>4, NotAfter DEF IsEffectiveAt
  <2> QED BY <2>2, <2>3, <2>4
<1> QED BY <1>1, ClockInvariant, PTL
=============================================================================
