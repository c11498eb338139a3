----------------------- MODULE StdioServerInvariants -----------------------
(***************************************************************************)
(* The inductive invariants behind the properties of StdioServer: how the  *)
(* streams, the call in progress and the answers already written relate to *)
(* one another and to the rows, at every step of every process.            *)
(***************************************************************************)
EXTENDS StdioServer, ExecutionInvariants

-----------------------------------------------------------------------------
(* Streams.                                                                *)

\* The call a process serves is the one the last line it took asks for.
ServesItsLine(s) ==
    LET line == stdin[s][taken[s]]
    IN  /\ taken[s] > 0
        /\ Asks(line) /\ Submission(line)
        /\ call[s].intent = line.args.intent

StreamInv ==
    /\ stdin \in [Servers -> Seq(Lines)]
    /\ taken \in [Servers -> Nat]
    /\ DOMAIN stdout = Servers
    /\ duplicate \in [Servers -> BOOLEAN]
    /\ \A s \in Servers :
           /\ taken[s] <= Len(stdin[s])
           /\ stdout[s] \in Seq(Range(stdout[s]))
           /\ pc[s] \in Steps => ServesItsLine(s)

-----------------------------------------------------------------------------
(* What the rows say of orders.                                            *)

\* The states an order has once its call is about to be recorded.
RecordedStates == {"rejected", "acknowledged", "filled"}

\* An order belongs to the key it is recorded under, and has come to rest.
OrderInv ==
    /\ \A n \in DOMAIN rows :
           LET o == rows[n].rec.order
           IN  o # None => o.key = rows[n].rec.key /\ o.state \in RecordedStates
    /\ \A s \in Servers :
           LET o == call[s].order
           IN  /\ pc[s] \in {"reserve", "fill", "release", "read", "insert"}
                      /\ o # None => o.key = Key(s)
               /\ pc[s] = "fill" => o.state = "acknowledged"
               /\ pc[s] \in {"release", "read", "insert"} /\ o # None =>
                      o.state \in RecordedStates

-----------------------------------------------------------------------------
(* Listings.                                                               *)

\* The table as it was when it had so many rows.
Earlier(last) == SubSeq(rows, 1, last)

\* The body of a listing made from the table.
ListingOf(tool, args, table) ==
    IF tool = "list-recent-decisions"
    THEN ListRecent(table, Limit(args, DefaultListed))
    ELSE OpenOrders(table, Limit(args, DefaultScanned))

\* A decision as some row of the table has it.
RowTells(d, table) ==
    \E n \in DOMAIN table :
        d = Decision(table[n].rec.key, table[n].rec.outcome, table[n].rec.order)

\* A listing shows the table as it was at some moment, at which everything
\* its caller had been told of before was already in it.
MadeFrom(s, k, table) ==
    /\ stdout[s][k].body = ListingOf(stdout[s][k].tool, Question(s, k).args, table)
    /\ Question(s, k).args \in ArgumentsType
    /\ \A j \in 1..(k - 1) : \A d \in Told(s, j) : RowTells(d, table)

ListingInv ==
    \A s \in Servers : \A k \in DOMAIN stdout[s] :
        stdout[s][k].tool \in Listings /\ stdout[s][k].form = "result" =>
            \E last \in 0..Len(rows) : MadeFrom(s, k, Earlier(last))

-----------------------------------------------------------------------------
(* Snapshots.                                                              *)

AllSettled(answers) == \A j \in DOMAIN answers : ~Unsettled(answers[j])

\* Step by step, how far the account of s is ahead of what its answers say.
AheadOfAnswers(s) ==
    IF \/ pc[s] \in {"release", "read", "insert"}
       \/ pc[s] = "reply" /\ call[s].outcome # None /\ ~duplicate[s]
    THEN ApplyOrder(AccountAfter(stdout[s]), call[s].order)
    ELSE AccountAfter(stdout[s])

\* An error loses track of the account: the caller hears of no outcome.
AnswersTracked ==
    \A s \in Servers :
        /\ ~(pc[s] = "reply" /\ call[s].outcome = None)
        /\ AllSettled(stdout[s])
        => acct[s] = [AheadOfAnswers(s) EXCEPT !.reserved = acct[s].reserved]

\* What the answers add up to is an account with nothing reserved, and so it
\* will be after the answer about to be written.
AnswersAddUp ==
    \A s \in Servers :
        /\ AccountAfter(stdout[s]) \in AccountType
        /\ AccountAfter(stdout[s]).reserved = 0
        /\ pc[s] = "reply" /\ call[s].outcome # None /\ ~duplicate[s] =>
               (call[s].order # None /\ call[s].order.state = "filled" =>
                    call[s].order.fills # << >>)

SnapshotInv ==
    /\ AnswersTracked
    /\ AnswersAddUp
    /\ \A s \in Servers : duplicate[s] => pc[s] = "reply"
=============================================================================
