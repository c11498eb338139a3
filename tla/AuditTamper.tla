----------------------------- MODULE AuditTamper -----------------------------
(***************************************************************************)
(* The audit log next to somebody who edits the SQLite file: one process   *)
(* appends records (append, its two statements together because nobody     *)
(* else appends), and rows are edited, deleted and exchanged underneath    *)
(* it, as the tests of audit.rs do with raw SQL.  The editor cannot        *)
(* compute hashes, as the log promises tamper evidence and not signatures. *)
(* An UPDATE of a column that verify_integrity never reads                 *)
(* (idempotency_key, event_id, created_at) is left out: the log promises   *)
(* nothing about it, and a row here has no such columns.                   *)
(***************************************************************************)
EXTENDS AuditStore

CONSTANTS Keys,        \* the idempotency keys of the records
          Payloads,    \* what a record says
          MaxRows,     \* bound on the rows in the table
          MaxEdits     \* bound on the changes made to the file

ASSUME TamperAssumption == MaxRows \in Nat /\ MaxEdits \in Nat

VARIABLES
    rows,      \* the events table, in seq order
    edits,     \* changes made to the file so far
    written    \* history: the logs that appends have committed to

vars == <<rows, edits, written>>

Records == [key : Keys, says : Payloads]

Init == rows = << >> /\ edits = 0 /\ written = {GenesisHash}

\* AuditStore::append by the only process.
AppendRecord(rec) ==
    /\ Len(rows) < MaxRows
    /\ ~Recorded(rows, rec.key)
    /\ LET row == NewRow(rec, LastContentHash(rows))
       IN  /\ rows' = Append(rows, row)
           /\ written' = written \cup {row.hash}
    /\ UNCHANGED edits

Edit == edits < MaxEdits /\ edits' = edits + 1 /\ UNCHANGED written

\* UPDATE events SET record_json = ...
EditPayload(n, payload) ==
    /\ Edit
    /\ rows[n].rec.says # payload
    /\ rows' = [rows EXCEPT ![n].rec.says = payload]

\* DELETE FROM events WHERE ...
DeleteRow(n) ==
    /\ Edit
    /\ rows' = SubSeq(rows, 1, n - 1) \o SubSeq(rows, n + 1, Len(rows))

\* Two rows exchange their places, hashes included.
ExchangeRows(m, n) ==
    /\ Edit
    /\ m < n
    /\ rows' = [rows EXCEPT ![m] = rows[n], ![n] = rows[m]]

Next ==
    \/ \E rec \in Records : AppendRecord(rec)
    \/ \E n \in DOMAIN rows, p \in Payloads : EditPayload(n, p)
    \/ \E n \in DOMAIN rows : DeleteRow(n)
    \/ \E m, n \in DOMAIN rows : ExchangeRows(m, n)

Spec == Init /\ [][Next]_vars

-----------------------------------------------------------------------------

Log(n) == [m \in 1..n |-> rows[m].rec]

\* What verify_integrity vouches for is genuine: the records it counted as
\* checked are, in this order and with nothing missing between them, a log
\* that appends committed to.  It reports a failure no later than at the
\* first row that was edited, exchanged or follows a deleted one, whatever
\* was appended on top since.
CheckedPrefixGenuine == Log(VerifyIntegrity(rows).checked) \in written

\* A failure is real: in a file nobody changed there is none.
NoFalseAlarm == edits = 0 => VerifyIntegrity(rows).failure = "none"

\* "A deleted record breaks the next record's link": deleting a row in front
\* of others, or editing any row's payload, in a log that verifies makes the
\* verification fail there and then.
TamperingShows ==
    [][ /\ VerifyIntegrity(rows).failure = "none"
        /\ edits' # edits
        /\ rows' # SubSeq(rows, 1, Len(rows) - 1)
        => VerifyIntegrity(rows').failure # "none" ]_vars

\* "catching row deletion, not just row modification": a log that verifies
\* no longer verifies once any of its rows is deleted.
DeletionShows ==
    [][ /\ VerifyIntegrity(rows).failure = "none"
        /\ Len(rows') < Len(rows)
        => VerifyIntegrity(rows').failure # "none" ]_vars
=============================================================================
