------------------------- MODULE ExecutionRefinement -------------------------
(***************************************************************************)
(* Execution implements AtomicSubmission when one process uses the         *)
(* database and its statements do not fail: the row's INSERT is the        *)
(* instant at which a submission takes effect.                             *)
(***************************************************************************)
EXTENDS Execution

\* An undecided key is not a decision.
ASSUME NoResultAssumption == None \notin ResultType

\* What the rows say of a key.
DecisionOf(k) ==
    IF Recorded(rows, k)
    THEN LET rec == FindByIdempotencyKey(rows, k)
         IN  [outcome |-> rec.outcome, order |-> rec.order]
    ELSE None

\* From the reservation to the INSERT the account is ahead of the rows, and
\* the submission has not happened yet.
SettledAccount(s) ==
    IF pc[s] \in {"fill", "release", "read", "insert"} THEN booked[s] ELSE acct[s]

ApplyDecision(a, d) == ApplyOrder(a, d.order)

Atomic == INSTANCE AtomicSubmission
    WITH Start   <- NewAccount(StartingCash),
         Effect  <- ApplyDecision,
         decided <- [k \in Keys |-> DecisionOf(k)],
         account <- [s \in Servers |-> SettledAccount(s)]

\* Every behaviour of the stepwise code is one of the atomic specification:
\* account and audit log change together, once per key.
AtomicRefinement == Atomic!Spec
=============================================================================
