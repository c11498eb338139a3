----------------------------- MODULE AuditStore -----------------------------
(***************************************************************************)
(* audit.rs: the append-only, hash-chained events table.  These are the    *)
(* store's queries and the row an append inserts, as operators on the      *)
(* table in seq order; the steps that use them are in Execution and in     *)
(* AuditTamper.                                                            *)
(*                                                                         *)
(* A row is [rec, prev, hash].  A record names its key, from which the     *)
(* code builds event_id, so the two UNIQUE columns are one.  The chained   *)
(* hash is modelled by an injective function: the hash of a record and the *)
(* previous hash is the previous hash with the record appended, so that a  *)
(* hash is the history it commits to and the genesis hash is empty.        *)
(***************************************************************************)
EXTENDS Integers, Sequences, FiniteSetsExt

GenesisHash == << >>

\* canonical_hash(record_json | prev_hash), taken to be free of collisions.
ContentHash(rec, prev) == Append(prev, rec)

\* ORDER BY seq ASC: the link is always to the first row.  (Bug...: a wrong
\* variant of the definition that follows it, which a property must catch.)
BugLastContentHash(rows) == IF rows = << >> THEN GenesisHash ELSE rows[1].hash

\* SELECT content_hash ... ORDER BY seq DESC LIMIT 1
LastContentHash(rows) ==
    IF rows = << >> THEN GenesisHash ELSE rows[Len(rows)].hash

\* The row append inserts, for the previous hash it read.
NewRow(rec, prev) == [rec |-> rec, prev |-> prev, hash |-> ContentHash(rec, prev)]

RowsOf(rows, key) == {n \in DOMAIN rows : rows[n].rec.key = key}

\* The UNIQUE constraints on event_id and idempotency_key.
Recorded(rows, key) == RowsOf(rows, key) # {}

\* find_by_idempotency_key, for a key that is recorded.
FindByIdempotencyKey(rows, key) == rows[CHOOSE n \in RowsOf(rows, key) : TRUE].rec

\* verify_integrity compares with the hash stored in the row before.
ExpectedPrev(rows, n) == IF n = 1 THEN GenesisHash ELSE rows[n - 1].hash

\* The link is not compared; the payload is not hashed again.
BugChainBroken(rows, n) == FALSE
BugPayloadTampered(rows, n) == FALSE

ChainBroken(rows, n) == rows[n].prev # ExpectedPrev(rows, n)

PayloadTampered(rows, n) == rows[n].hash # ContentHash(rows[n].rec, rows[n].prev)

\* verify_integrity: the first row that fails, and how; the link is tested
\* before the payload.
VerifyIntegrity(rows) ==
    LET bad == {n \in DOMAIN rows : ChainBroken(rows, n) \/ PayloadTampered(rows, n)}
    IN  IF bad = {}
        THEN [failure |-> "none", checked |-> Len(rows)]
        ELSE LET n == Min(bad)
             IN  [failure |-> IF ChainBroken(rows, n) THEN "chain-broken"
                                                      ELSE "payload-tampered",
                  checked |-> n - 1]
=============================================================================
