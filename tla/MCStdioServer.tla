--------------------------- MODULE MCStdioServer ---------------------------
(***************************************************************************)
(* A small instance of StdioServer, at the scale of MCExecution: a raw     *)
(* unit is a half, the quote is 3.5/4.5, the cash is 10.                   *)
(***************************************************************************)
EXTENDS StdioServer

MCMid == [x \in Instruments |-> 8]

\* The clock never reads less than the date the profiles are effective from.
MCProfiles == WithDemoFixtures(1)

\* A market buy of two units.
Buy == [key |-> "k1", alias |-> "paper", mode |-> "paper", instr |-> "SPY",
        venue |-> None, side |-> "buy", otype |-> "market", qty |-> 4,
        limit |-> None, stop |-> None, confident |-> TRUE, decided |-> 0,
        expires |-> None]

\* A limit order below the market: it stays open, unless the buy has filled
\* before, after which the cash no longer pays for it.
BuyBelow == [Buy EXCEPT !.key = "k2", !.otype = "limit", !.limit = 6]

MCIntents == {Buy, BuyBelow}

NoArguments ==
    [intent |-> None, bundle |-> None, limit |-> None, key |-> None,
     venue |-> None]

\* A tools/call with an id.
Call(tool, args) ==
    [kind |-> "message", id |-> "number", method |-> "tools/call",
     tool |-> tool, args |-> args]

SubmitLine(intent) ==
    Call("authorize-and-submit-paper-order", [NoArguments EXCEPT !.intent = intent])

\* A line without content the server looks at.
Plain(kind) == [Call("unknown", NoArguments) EXCEPT !.kind = kind, !.id = "absent"]

MalformedLines == {Plain("blank"), Plain("undecodable"), Plain("garbage")}

\* A notification that names the submit tool.
Notification == [SubmitLine(Buy) EXCEPT !.id = "absent"]

\* A request whose id is null; its limit is above the most a listing shows.
ListLine ==
    [Call("list-recent-decisions", [NoArguments EXCEPT !.limit = 3])
        EXCEPT !.id = "null"]

ReadLines ==
    {ListLine,
     Call("get-open-orders", NoArguments),
     Call("replay-decision", [NoArguments EXCEPT !.key = "k1"]),
     Call("get-account-snapshot", NoArguments)}

MCLines ==
    MalformedLines \cup {Notification} \cup ReadLines
        \cup {SubmitLine(i) : i \in MCIntents}
=============================================================================
