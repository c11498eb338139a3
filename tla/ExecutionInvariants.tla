------------------------- MODULE ExecutionInvariants -------------------------
(***************************************************************************)
(* The inductive invariants behind the properties of Execution: what holds *)
(* in the middle of a call, from which the properties at its end follow.   *)
(***************************************************************************)
EXTENDS Execution

\* A call c at a step carries what the step needs: no order before the gates
\* pass, an order that is still unfilled until the simulator is asked, a fill
\* in every filled order, and an outcome when the record is about to be
\* written.
StepNeeds(c, step) ==
    /\ step \in {"find", "gates"} => c.order = None
    /\ step \in {"reserve", "fill"} =>
           /\ c.order \in OrderType
           /\ c.order.state # "filled"
           /\ c.order.filled = 0
           /\ c.order.fills = << >>
           /\ c.order.qty > 0
    /\ step = "release" => c.order \in OrderType
    /\ step \in {"release", "read", "insert"} =>
           (c.order # None /\ c.order.state = "filled" => c.order.fills # << >>)
    /\ step \in {"read", "insert"} => c.outcome \in OutcomeType

CallWellFormed == \A s \in Servers : StepNeeds(call[s], pc[s])

TypeInv == TypeOK /\ CallWellFormed

-----------------------------------------------------------------------------
(* What makes a reply the recorded one.                                    *)

\* A row holds what call c is about to answer.
AnswersWith(c, row) == /\ row.rec.key = c.intent.key
                       /\ row.rec.outcome = c.outcome
                       /\ row.rec.order = c.order

\* The answer a call is about to give is already in the table.
AnswerRecorded ==
    \A s \in Servers :
        pc[s] = "reply" /\ call[s].outcome # None =>
            \E n \in DOMAIN rows : AnswersWith(call[s], rows[n])

ReplyInv == OneRowPerKey /\ RepliesMatchRecord /\ AnswerRecorded

-----------------------------------------------------------------------------
(* What keeps a key from being filled twice when the store never fails.    *)

\* A fill's key is recorded, or is about to be by the same call.
FillsAccountedFor ==
    \A s \in Servers, k \in Keys :
        applied[s][k] > 0 =>
            \/ Recorded(rows, k)
            \/ pc[s] \in {"release", "read", "insert"} /\ Key(s) = k

\* A call that got past the lookup has not moved this account before.
FirstFill ==
    \A s \in Servers :
        pc[s] \in {"gates", "reserve", "fill"} => applied[s][Key(s)] = 0

FillInv == AtMostOneFillPerKey /\ FillsAccountedFor /\ FirstFill

-----------------------------------------------------------------------------
(* What keeps a buy within its estimate and the account within its cash.   *)

\* An order whose estimate means something: a market order carries no limit
\* price, and quantity times price fits the integer.
SoundEstimate(o) ==
    /\ o.otype \in {"market", "market-on-close"} => o.limit = None
    /\ Fits(o.qty * EstimatedPrice(o))

\* The hypothesis on the intents callers submit.
EstimatesSound == \A i \in Intents : SoundEstimate(NewOrder(i))

\* The estimate a call holds is that of the order it holds, and a filled
\* order has the one fill the simulator made.
EstimateInv ==
    \A s \in Servers :
        LET o == call[s].order
        IN  /\ pc[s] \in {"reserve", "fill", "release"} =>
                   /\ SoundEstimate(o)
                   /\ o.qty > 0
                   /\ call[s].estimate = EstimatedNotional(o)
            /\ pc[s] = "release" /\ o.state = "filled" =>
                   /\ SimulateFill(o) # None
                   /\ o.fills = << [qty |-> o.qty, price |-> SimulateFill(o)] >>

\* A buy about to be filled can be paid for.
CashInv ==
    \A s \in Servers :
        /\ acct[s].cash >= 0
        /\ pc[s] = "fill" /\ IsBuy(s) => call[s].estimate <= acct[s].cash

-----------------------------------------------------------------------------
(* What ties the account to the rows for a single process.                 *)

OneServer == \A s, t \in Servers : s = t

\* A booked account has nothing reserved.
BookedUnreserved == \A s \in Servers : booked[s].reserved = 0

\* The key of a call past the lookup stays unrecorded until the call
\* records it: there is nobody else to do it.
KeyStillOpen ==
    \A s \in Servers :
        pc[s] \in {"gates", "reserve", "fill", "release", "read", "insert"} =>
            ~Recorded(rows, Key(s))

\* Step by step, how far the account is ahead of what is booked.
AccountAhead(s) ==
    IF pc[s] \in {"release", "read", "insert"}
    THEN ApplyOrder(booked[s], call[s].order)
    ELSE booked[s]

AccountTracked ==
    \A s \in Servers :
        acct[s] = [AccountAhead(s) EXCEPT !.reserved = acct[s].reserved]

LedgerInv == /\ BookedUnreserved /\ KeyStillOpen
             /\ AccountTracked /\ ReservationReleased

-----------------------------------------------------------------------------
(* What the rows have gone through.                                        *)

\* The fills of a limit order respect its limit, wherever the order is.
WithinLimit(o) ==
    o # None /\ o.otype \in {"limit", "limit-on-close"} =>
        \A f \in DOMAIN o.fills :
            IF o.side \in BuySides THEN o.fills[f].price <= o.limit
                                   ELSE o.fills[f].price >= o.limit

LimitInv == /\ \A n \in DOMAIN rows : WithinLimit(rows[n].rec.order)
            /\ \A s \in Servers : WithinLimit(call[s].order)

\* A call that can touch its account has passed the gates with the intent,
\* the bundle and the clock it still holds.
GatesPassed ==
    \A s \in Servers :
        pc[s] \in {"reserve", "fill", "release"} =>
            IsAllowed(GateOutcome(call[s].intent, call[s].bundle, call[s].now))

\* Every row continues its predecessor, and the hash a call is about to
\* chain to is still the last one.
ChainInv ==
    /\ \A n \in DOMAIN rows : ~ChainBroken(rows, n) /\ ~PayloadTampered(rows, n)
    /\ \A s \in Servers : pc[s] = "insert" => call[s].prev = LastContentHash(rows)

\* With other processes in between, the hash a call is about to chain to need
\* not be the last one any more, but it is still one of the table's.
ForkInv ==
    /\ RaceForksAtMost
    /\ \A s \in Servers : pc[s] = "insert" => call[s].prev \in HashesUpTo(Len(rows))
=============================================================================
