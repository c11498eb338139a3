-------------------------- MODULE AtomicSubmission --------------------------
(***************************************************************************)
(* What authorize_and_submit_paper_order promises, without its steps: a    *)
(* key is decided once and for good, and the account of the process that   *)
(* decides it takes the effect of the decision in the same instant.  A     *)
(* process may be replaced at any time by one with a new account.          *)
(***************************************************************************)
CONSTANTS Keys, Servers,
          None,            \* the decision of an undecided key
          Start,           \* the account of a new process
          Effect(_, _)     \* an account after a decision

VARIABLES decided, account

Init ==
    /\ decided = [k \in Keys |-> None]
    /\ account = [s \in Servers |-> Start]

Decide(s, k) ==
    /\ decided[k] = None
    /\ decided'[k] # None
    /\ decided' = [decided EXCEPT ![k] = decided'[k]]
    /\ account' = [account EXCEPT ![s] = Effect(account[s], decided'[k])]

Replace(s) ==
    /\ account' = [account EXCEPT ![s] = Start]
    /\ UNCHANGED decided

Next == \E s \in Servers : Replace(s) \/ \E k \in Keys : Decide(s, k)

Spec == Init /\ [][Next]_<<decided, account>>
=============================================================================
