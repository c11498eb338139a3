---------------------------- MODULE MCExecution ----------------------------
(***************************************************************************)
(* Small instances of Execution.  SCALE is 2, so a raw unit is a half; the *)
(* quote is 3.5/4.5 around a mid of 4 (raw 7 and 9).  The starting cash of *)
(* 10 (raw 20) pays for two units and not for four.                        *)
(***************************************************************************)
EXTENDS ExecutionRefinement, TLC

\* Servers start alike and run the same code.
ServerSymmetry == Permutations(Servers)

MCMid == [x \in Instruments |-> 8]

\* ARCX is effective from second 1 on; XXXX has no profile.
MCProfiles == [v \in Venues |-> IF v = "ARCX" THEN [from |-> 2, to |-> None]
                                             ELSE None]

\* A paper market buy of two units, good at any time.
Base == [key |-> "k1", alias |-> "paper", mode |-> "paper", instr |-> "SPY",
         venue |-> None, side |-> "buy", otype |-> "market", qty |-> 4,
         limit |-> None, stop |-> None, confident |-> TRUE, decided |-> 0,
         expires |-> None]

\* A market buy, and three other uses of the same key: a live intent, a
\* limit order with a limit far above the quote, and an intent that expires
\* within the first second.
KeyOne ==
    {Base,
     [Base EXCEPT !.mode = "guarded-live"],
     [Base EXCEPT !.otype = "limit", !.limit = 10, !.qty = 3, !.venue = "XXXX"],
     [Base EXCEPT !.qty = 2, !.expires = 1, !.venue = "ARCX"]}

\* A sale, a limit buy below the market, a limit sale.
KeyTwo ==
    {[Base EXCEPT !.key = "k2", !.side = "sell", !.qty = 2],
     [Base EXCEPT !.key = "k2", !.otype = "limit", !.limit = 6],
     [Base EXCEPT !.key = "k2", !.otype = "limit", !.limit = 7,
                  !.side = "sell-short", !.qty = 1]}

\* A cover decided in the future of the first clock reading; after a buy
\* under the first key the cash no longer pays for it.
KeyThree == {[Base EXCEPT !.key = "k3", !.decided = 2, !.side = "buy-to-cover"]}

OneServerIntents == KeyOne \cup KeyTwo \cup KeyThree

\* The same key for two buys of different size and for a live intent, and
\* a second key for a sale.
TwoServerIntents ==
    {Base, [Base EXCEPT !.qty = 2], [Base EXCEPT !.mode = "guarded-live"],
     [Base EXCEPT !.key = "k2", !.side = "sell"]}

\* Three uses of one key while the store may fail: a buy, a sale, and an
\* intent for somebody else's account.
FailureIntents ==
    {Base, [Base EXCEPT !.side = "sell"], [Base EXCEPT !.alias = "other"]}

\* A market order that carries a limit price far below the quote: the schema
\* lets any order type have one.
MarketWithLimitIntents == {[Base EXCEPT !.limit = 2]}

\* A bundle that is public from second 1 on.
MCBundles ==
    {[created |-> 0, purpose |-> "research", allEligible |-> TRUE, quarantine |-> 0,
      records |-> {[public |-> 2, eligible |-> TRUE, mnpi |-> "public-confirmed"]}]}
=============================================================================
