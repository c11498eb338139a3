-------------------------- MODULE AuditTamperProofs --------------------------
(***************************************************************************)
(* Proofs of what verify_integrity vouches for, for logs of any length and *)
(* any number of edits, deletions, exchanges and appends in any order.  A  *)
(* hash is the history it commits to, so all of it rests on one lemma: as  *)
(* far as the links and the payloads verify, the hash of a row is the list *)
(* of the records up to it.                                                *)
(***************************************************************************)
EXTENDS AuditTamper, SequenceTheorems, WellFoundedInduction, TLAPS

RowType == [rec : Records, prev : Seq(Records), hash : Seq(Records)]

TamperType ==
    /\ rows \in Seq(RowType)
    /\ edits \in Nat

Verifies(n) == ~ChainBroken(rows, n) /\ ~PayloadTampered(rows, n)

\* Every hash in the table was once written by an append.
HashesWritten ==
    /\ GenesisHash \in written
    /\ \A n \in DOMAIN rows : rows[n].hash \in written

Untouched == edits = 0 => \A n \in DOMAIN rows : Verifies(n)

TamperInv == TamperType /\ HashesWritten /\ Untouched

-----------------------------------------------------------------------------
(* Verified prefixes.                                                      *)

LEMMA LeastNumber ==
    ASSUME NEW T \in SUBSET Nat, T # {}
    PROVE  \E x \in T : \A y \in T : x <= y
<1>1. PICK x \in T : \A y \in T : ~(<<y, x>> \in OpToRel(<, Nat))
  BY WFMin, NatLessThanWellFounded
<1>2. ASSUME NEW y \in T, y < x
      PROVE  FALSE
  <2>1. <<y, x>> \in OpToRel(<, Nat)
    BY <1>2 DEF OpToRel
  <2> QED BY <1>1, <2>1
<1> QED BY <1>2

LEMMA RowFields ==
    ASSUME TamperType, NEW n \in 1..Len(rows)
    PROVE  /\ rows[n] \in RowType /\ rows[n].rec \in Records
           /\ rows[n].prev \in Seq(Records) /\ rows[n].hash \in Seq(Records)
<1>1. rows[n] \in RowType
  BY ElementOfSeq DEF TamperType
<1> QED BY <1>1 DEF RowType

LEMMA LogIsSeq ==
    ASSUME TamperType, NEW n \in 0..Len(rows)
    PROVE  /\ Log(n) \in Seq(Records)
           /\ Len(Log(n)) = n
           /\ \A m \in 1..n : Log(n)[m] = rows[m].rec
<1>1. Len(rows) \in Nat
  BY DEF TamperType
<1>2. \A m \in 1..n : rows[m].rec \in Records
  BY <1>1, RowFields
<1> QED BY <1>1, <1>2 DEF Log

LEMMA LogAppend ==
    ASSUME TamperType, NEW n \in 1..Len(rows)
    PROVE  Append(Log(n - 1), rows[n].rec) = Log(n)
<1>1. /\ Len(rows) \in Nat /\ n - 1 \in 0..Len(rows) /\ n \in 0..Len(rows)
      /\ rows[n].rec \in Records
  BY RowFields DEF TamperType
<1>2. /\ Log(n - 1) \in Seq(Records) /\ Len(Log(n - 1)) = n - 1
      /\ \A m \in 1..(n - 1) : Log(n - 1)[m] = rows[m].rec
      /\ Log(n) \in Seq(Records) /\ Len(Log(n)) = n
      /\ \A m \in 1..n : Log(n)[m] = rows[m].rec
  BY <1>1, LogIsSeq
<1> DEFINE longer == Append(Log(n - 1), rows[n].rec)
<1>3. /\ longer \in Seq(Records) /\ Len(longer) = n
      /\ \A m \in 1..(n - 1) : longer[m] = Log(n - 1)[m]
      /\ longer[n] = rows[n].rec
  BY <1>1, <1>2, AppendProperties
<1>4. \A m \in 1..n : longer[m] = Log(n)[m]
  BY <1>1, <1>2, <1>3
<1> HIDE DEF longer
<1>5. longer = Log(n)
  BY <1>2, <1>3, <1>4, SeqEqual
<1> QED BY <1>5 DEF longer

\* As far as every row verifies, a row's hash is the log up to it.
LEMMA VerifiedHash ==
    ASSUME TamperType, NEW k \in 0..Len(rows), \A n \in 1..k : Verifies(n)
    PROVE  \A n \in 1..k : rows[n].hash = Log(n)
<1> DEFINE T == {n \in 1..k : rows[n].hash # Log(n)}
<1> SUFFICES ASSUME T # {} PROVE FALSE
  OBVIOUS
<1>1. Len(rows) \in Nat /\ T \in SUBSET Nat
  BY DEF TamperType
<1>2. PICK n \in T : \A y \in T : n <= y
  <2> HIDE DEF T
  <2> QED BY <1>1, LeastNumber
<1>3. n \in 1..k /\ n \in 1..Len(rows) /\ Verifies(n)
  BY <1>1
<1>4. /\ rows[n].hash = Append(rows[n].prev, rows[n].rec)
      /\ rows[n].prev = ExpectedPrev(rows, n)
  BY <1>3 DEF Verifies, PayloadTampered, ChainBroken, ContentHash
<1>5. ExpectedPrev(rows, n) = Log(n - 1)
  <2>1. CASE n = 1
    BY <2>1 DEF ExpectedPrev, GenesisHash, Log
  <2>2. CASE n # 1
    <3>1. n - 1 \in 1..k /\ n - 1 \notin T
      BY <1>1, <1>2, <1>3, <2>2
    <3>2. rows[n - 1].hash = Log(n - 1)
      BY <3>1
    <3> QED BY <2>2, <3>2 DEF ExpectedPrev
  <2> QED BY <2>1, <2>2
<1>6. rows[n].hash = Log(n)
  BY <1>3, <1>4, <1>5, LogAppend
<1> QED BY <1>2, <1>6

\* What the verification has checked is in order.
LEMMA CheckedVerifies ==
    ASSUME TamperType
    PROVE  LET c == VerifyIntegrity(rows).checked
           IN  /\ c \in 0..Len(rows)
               /\ \A n \in 1..c : Verifies(n)
               /\ VerifyIntegrity(rows).failure = "none" => c = Len(rows)
<1> DEFINE bad == {n \in DOMAIN rows : ChainBroken(rows, n) \/ PayloadTampered(rows, n)}
<1>1. Len(rows) \in Nat /\ DOMAIN rows = 1..Len(rows)
  BY DEF TamperType
<1>2. CASE bad = {}
  <2>1. VerifyIntegrity(rows).checked = Len(rows)
    BY <1>2 DEF VerifyIntegrity
  <2>2. \A n \in 1..Len(rows) : Verifies(n)
    BY <1>1, <1>2 DEF Verifies
  <2> QED BY <1>1, <2>1, <2>2
<1>3. CASE bad # {}
  <2>1. bad \in SUBSET Nat
    BY <1>1
  <2>2. \E x \in bad : \A y \in bad : x <= y
    <3> HIDE DEF bad
    <3> QED BY <1>3, <2>1, LeastNumber
  <2>3. Min(bad) \in bad /\ \A y \in bad : Min(bad) <= y
    <3> HIDE DEF bad
    <3> QED BY <2>2 DEF Min
  <2>4. /\ VerifyIntegrity(rows).checked = Min(bad) - 1
        /\ VerifyIntegrity(rows).failure # "none"
    BY <1>3 DEF VerifyIntegrity
  <2>5. \A n \in 1..(Min(bad) - 1) : n \in DOMAIN rows /\ n \notin bad
    <3>1. bad \subseteq 1..Len(rows)
      BY <1>1
    <3> HIDE DEF bad
    <3>2. Min(bad) \in 1..Len(rows) /\ \A y \in bad : Min(bad) <= y
      BY <2>3, <3>1
    <3> QED BY <1>1, <3>1, <3>2
  <2>6. \A n \in 1..(Min(bad) - 1) : Verifies(n)
    BY <2>5 DEF Verifies
  <2>7. Min(bad) - 1 \in 0..Len(rows)
    <3>1. bad \subseteq 1..Len(rows)
      BY <1>1
    <3> HIDE DEF bad
    <3>2. Min(bad) \in 1..Len(rows)
      BY <2>3, <3>1
    <3> QED BY <1>1, <3>2
  <2> QED BY <2>4, <2>6, <2>7
<1> QED BY <1>2, <1>3

-----------------------------------------------------------------------------
(* The invariant.                                                          *)

\* The row an append inserts verifies, and so do the rows in front of it as
\* far as they did before.
LEMMA AppendKeeps ==
    ASSUME TamperInv, NEW rec \in Records, AppendRecord(rec)
    PROVE  TamperInv'
<1> DEFINE row == NewRow(rec, LastContentHash(rows))
           last == Len(rows) + 1
<1>1. rows \in Seq(RowType) /\ Len(rows) \in Nat /\ DOMAIN rows = 1..Len(rows)
  BY DEF TamperInv, TamperType
<1>2. LastContentHash(rows) \in Seq(Records)
  <2>1. CASE rows = << >>
    BY <2>1 DEF LastContentHash, GenesisHash
  <2>2. CASE rows # << >>
    <3>1. Len(rows) \in 1..Len(rows)
      BY <1>1, <2>2
    <3> QED BY <2>2, <3>1, RowFields DEF LastContentHash, TamperInv
  <2> QED BY <2>1, <2>2
<1>3. row \in RowType
  <2>1. Append(LastContentHash(rows), rec) \in Seq(Records)
    BY <1>2, AppendProperties
  <2> QED BY <1>2, <2>1 DEF NewRow, ContentHash, RowType
<1>4. /\ row.prev = LastContentHash(rows)
      /\ row.hash = ContentHash(row.rec, row.prev)
  BY DEF NewRow
<1>5. rows' = Append(rows, row) /\ written' = written \cup {row.hash} /\ edits' = edits
  BY DEF AppendRecord
<1> HIDE DEF row
<1>6. /\ rows' \in Seq(RowType) /\ Len(rows') = last /\ DOMAIN rows' = 1..last
      /\ \A n \in 1..Len(rows) : rows'[n] = rows[n]
      /\ rows'[last] = row
  BY <1>1, <1>3, <1>5, AppendProperties
<1>7. \A n \in DOMAIN rows' : n \in 1..Len(rows) \/ n = last
  BY <1>1, <1>6
<1>8. TamperType'
  BY <1>5, <1>6 DEF TamperInv, TamperType
<1>9. HashesWritten'
  <2>1. \A n \in 1..Len(rows) : rows'[n].hash \in written'
    BY <1>1, <1>5, <1>6 DEF TamperInv, HashesWritten
  <2>2. rows'[last].hash \in written'
    BY <1>5, <1>6
  <2>3. GenesisHash \in written'
    BY <1>5 DEF TamperInv, HashesWritten
  <2> QED BY <1>7, <2>1, <2>2, <2>3 DEF HashesWritten
<1>10. Untouched'
  <2> SUFFICES ASSUME edits' = 0, NEW n \in DOMAIN rows' PROVE Verifies(n)'
    BY DEF Untouched
  <2>1. CASE n \in 1..Len(rows)
    <3>1. Verifies(n)
      BY <1>1, <1>5, <2>1 DEF TamperInv, Untouched
    <3>2. rows'[n] = rows[n] /\ ExpectedPrev(rows', n) = ExpectedPrev(rows, n)
      BY <1>1, <1>6, <2>1 DEF ExpectedPrev
    <3> QED BY <3>1, <3>2 DEF Verifies, ChainBroken, PayloadTampered
  <2>2. CASE n = last
    <3>1. ExpectedPrev(rows', last) = LastContentHash(rows)
      <4>1. CASE rows = << >>
        BY <1>1, <4>1 DEF ExpectedPrev, LastContentHash
      <4>2. CASE rows # << >>
        <5>1. last # 1 /\ last - 1 = Len(rows) /\ Len(rows) \in 1..Len(rows)
          BY <1>1, <4>2
        <5>2. rows'[last - 1] = rows[Len(rows)]
          BY <1>6, <5>1
        <5> QED BY <4>2, <5>1, <5>2 DEF ExpectedPrev, LastContentHash
      <4> QED BY <4>1, <4>2
    <3> QED BY <1>4, <1>6, <2>2, <3>1 DEF Verifies, ChainBroken, PayloadTampered
  <2> QED BY <1>7, <2>1, <2>2
<1> QED BY <1>8, <1>9, <1>10 DEF TamperInv

\* Deleting row n moves the rows behind it up by one.
LEMMA DeletedRows ==
    ASSUME TamperType, NEW n \in DOMAIN rows, DeleteRow(n)
    PROVE  /\ rows' \in Seq(RowType)
           /\ Len(rows') = Len(rows) - 1
           /\ \A i \in 1..(Len(rows) - 1) :
                  rows'[i] = IF i < n THEN rows[i] ELSE rows[i + 1]
<1> DEFINE front == SubSeq(rows, 1, n - 1)
           back == SubSeq(rows, n + 1, Len(rows))
<1>1. rows \in Seq(RowType) /\ Len(rows) \in Nat /\ n \in 1..Len(rows)
  BY DEF TamperType
<1>2. \A i \in 1..Len(rows) : rows[i] \in RowType
  BY RowFields
<1>3. /\ front \in Seq(RowType) /\ Len(front) = n - 1
      /\ \A i \in 1..(n - 1) : front[i] = rows[i]
  BY <1>1, <1>2, SubSeqProperties
<1>4. /\ back \in Seq(RowType) /\ Len(back) = Len(rows) - n
      /\ \A i \in 1..(Len(rows) - n) : back[i] = rows[n + i]
  BY <1>1, <1>2, SubSeqProperties
<1>5. rows' = front \o back
  BY DEF DeleteRow
<1> HIDE DEF front, back
<1>6. /\ rows' \in Seq(RowType) /\ Len(rows') = Len(rows) - 1
      /\ \A i \in 1..(Len(rows) - 1) :
             rows'[i] = IF i <= n - 1 THEN front[i] ELSE back[i - (n - 1)]
  <2>1. /\ front \o back \in Seq(RowType)
        /\ Len(front \o back) = Len(front) + Len(back)
        /\ \A i \in 1..(Len(front) + Len(back)) :
               (front \o back)[i] = IF i <= Len(front) THEN front[i]
                                    ELSE back[i - Len(front)]
    BY <1>3, <1>4, ConcatProperties
  <2>2. Len(front) + Len(back) = Len(rows) - 1
    BY <1>1, <1>3, <1>4
  <2> QED BY <1>3, <1>5, <2>1, <2>2
<1>7. ASSUME NEW i \in 1..(Len(rows) - 1)
      PROVE  rows'[i] = IF i < n THEN rows[i] ELSE rows[i + 1]
  <2>1. CASE i < n
    BY <1>1, <1>3, <1>6, <2>1
  <2>2. CASE ~(i < n)
    <3> DEFINE j == i - (n - 1)
    <3>1. j \in 1..(Len(rows) - n) /\ n + j = i + 1 /\ ~(i <= n - 1)
      BY <1>1, <2>2
    <3>2. back[j] = rows[n + j]
      BY <1>4, <3>1
    <3>3. rows'[i] = back[j]
      BY <1>6, <3>1
    <3> QED BY <2>2, <3>1, <3>2, <3>3
  <2> QED BY <2>1, <2>2
<1> QED BY <1>6, <1>7

\* The rows an edit leaves behind were rows before, up to their payload.
LEMMA EditRows ==
    ASSUME TamperType,
           \/ \E n \in DOMAIN rows, p \in Payloads : EditPayload(n, p)
           \/ \E n \in DOMAIN rows : DeleteRow(n)
           \/ \E m, n \in DOMAIN rows : ExchangeRows(m, n)
    PROVE  /\ rows' \in Seq(RowType)
           /\ \A i \in DOMAIN rows' : \E j \in DOMAIN rows : rows'[i].hash = rows[j].hash
<1>1. rows \in Seq(RowType) /\ Len(rows) \in Nat /\ DOMAIN rows = 1..Len(rows)
  BY DEF TamperType
<1>2. ASSUME NEW n \in DOMAIN rows, NEW p \in Payloads, EditPayload(n, p)
      PROVE  /\ rows' \in Seq(RowType)
             /\ \A i \in DOMAIN rows' : \E j \in DOMAIN rows : rows'[i].hash = rows[j].hash
  <2> DEFINE row == [rows[n] EXCEPT !.rec.says = p]
  <2>1. rows' = [rows EXCEPT ![n] = row]
    BY <1>2 DEF EditPayload
  <2>2. rows[n] \in RowType /\ rows[n].rec \in Records
    BY <1>1, RowFields
  <2>3. [rows[n].rec EXCEPT !.says = p] \in Records
    BY <2>2 DEF Records
  <2>4. row \in RowType /\ row.hash = rows[n].hash
    BY <2>2, <2>3 DEF RowType
  <2> HIDE DEF row
  <2>5. /\ rows' \in Seq(RowType) /\ DOMAIN rows' = DOMAIN rows
        /\ \A j \in DOMAIN rows : rows'[j] = IF j = n THEN row ELSE rows[j]
    BY <1>1, <2>1, <2>4, ExceptSeq
  <2> QED BY <2>4, <2>5
<1>3. ASSUME NEW n \in DOMAIN rows, DeleteRow(n)
      PROVE  /\ rows' \in Seq(RowType)
             /\ \A i \in DOMAIN rows' : \E j \in DOMAIN rows : rows'[i].hash = rows[j].hash
  <2>1. /\ rows' \in Seq(RowType) /\ Len(rows') = Len(rows) - 1
        /\ \A i \in 1..(Len(rows) - 1) :
               rows'[i] = IF i < n THEN rows[i] ELSE rows[i + 1]
    BY <1>3, DeletedRows
  <2>2. DOMAIN rows' = 1..(Len(rows) - 1)
    BY <2>1
  <2>3. \A i \in 1..(Len(rows) - 1) : i \in DOMAIN rows /\ i + 1 \in DOMAIN rows
    BY <1>1
  <2> QED BY <2>1, <2>2, <2>3
<1>4. ASSUME NEW m \in DOMAIN rows, NEW n \in DOMAIN rows, ExchangeRows(m, n)
      PROVE  /\ rows' \in Seq(RowType)
             /\ \A i \in DOMAIN rows' : \E j \in DOMAIN rows : rows'[i].hash = rows[j].hash
  <2>1. rows' = [rows EXCEPT ![m] = rows[n], ![n] = rows[m]]
    BY <1>4 DEF ExchangeRows
  <2>2. rows[m] \in RowType /\ rows[n] \in RowType
    BY <1>1, RowFields
  <2>3. rows' \in Seq(RowType) /\ DOMAIN rows' = DOMAIN rows
    BY <1>1, <2>1, <2>2, ExceptSeq
  <2>4. \A i \in DOMAIN rows :
            rows'[i] = IF i = n THEN rows[m] ELSE IF i = m THEN rows[n] ELSE rows[i]
    BY <1>1, <2>1
  <2> QED BY <2>3, <2>4
<1> QED BY <1>2, <1>3, <1>4

LEMMA TamperNext == TamperInv /\ [Next]_vars => TamperInv'
<1> SUFFICES ASSUME TamperInv, [Next]_vars PROVE TamperInv'
  OBVIOUS
<1> DEFINE Edits == \/ \E n \in DOMAIN rows, p \in Payloads : EditPayload(n, p)
                    \/ \E n \in DOMAIN rows : DeleteRow(n)
                    \/ \E m, n \in DOMAIN rows : ExchangeRows(m, n)
<1>1. CASE Edits
  <2>1. edits' = edits + 1 /\ written' = written
    BY <1>1 DEF EditPayload, DeleteRow, ExchangeRows, Edit
  <2>2. /\ rows' \in Seq(RowType)
        /\ \A i \in DOMAIN rows' : \E j \in DOMAIN rows : rows'[i].hash = rows[j].hash
    BY <1>1, EditRows DEF TamperInv
  <2>3. TamperType' /\ Untouched'
    BY <2>1, <2>2 DEF TamperInv, TamperType, Untouched
  <2>4. HashesWritten'
    BY <2>1, <2>2 DEF TamperInv, HashesWritten
  <2> QED BY <2>3, <2>4 DEF TamperInv
<1>2. CASE UNCHANGED vars
  BY <1>2 DEF vars, TamperInv, TamperType, HashesWritten, Untouched, Verifies,
     ChainBroken, ExpectedPrev, PayloadTampered
<1> QED BY <1>1, <1>2, AppendKeeps DEF Next

LEMMA TamperInvariant == Spec => []TamperInv
<1>1. Init => TamperInv
  BY DEF Init, TamperInv, TamperType, HashesWritten, Untouched
<1> QED BY <1>1, TamperNext, PTL DEF Spec

\* Whatever is edited, deleted, exchanged and appended, and in whichever
\* order: the records verify_integrity has counted as checked are a log that
\* appends committed to, complete and in order.
THEOREM CheckedIsGenuine == Spec => []CheckedPrefixGenuine
<1>1. TamperInv => CheckedPrefixGenuine
  <2> SUFFICES ASSUME TamperInv PROVE CheckedPrefixGenuine
    OBVIOUS
  <2> DEFINE c == VerifyIntegrity(rows).checked
  <2>1. /\ c \in 0..Len(rows) /\ \A n \in 1..c : Verifies(n)
        /\ Len(rows) \in Nat /\ DOMAIN rows = 1..Len(rows)
    BY CheckedVerifies DEF TamperInv, TamperType
  <2> HIDE DEF c
  <2>2. \A n \in 1..c : rows[n].hash = Log(n)
    BY <2>1, VerifiedHash DEF TamperInv
  <2>3. CASE c = 0
    <3>1. Log(0) = GenesisHash
      BY DEF Log, GenesisHash
    <3> QED BY <2>3, <3>1 DEF TamperInv, HashesWritten, CheckedPrefixGenuine, c
  <2>4. CASE c # 0
    <3>1. c \in 1..c /\ c \in DOMAIN rows
      BY <2>1, <2>4
    <3>2. Log(c) \in written
      BY <2>2, <3>1 DEF TamperInv, HashesWritten
    <3> QED BY <3>2 DEF CheckedPrefixGenuine, c
  <2> QED BY <2>3, <2>4
<1> QED BY <1>1, TamperInvariant, PTL

\* In a log nobody has changed the verification finds nothing.
THEOREM NeverFalseAlarm == Spec => []NoFalseAlarm
<1>1. TamperInv => NoFalseAlarm
  <2> SUFFICES ASSUME TamperInv, edits = 0
               PROVE  VerifyIntegrity(rows).failure = "none"
    BY DEF NoFalseAlarm
  <2>1. {n \in DOMAIN rows : ChainBroken(rows, n) \/ PayloadTampered(rows, n)} = {}
    BY DEF TamperInv, Untouched, Verifies
  <2> QED BY <2>1 DEF VerifyIntegrity
<1> QED BY <1>1, TamperInvariant, PTL

-----------------------------------------------------------------------------
(* Tampering with a log that verifies.                                     *)

\* A row that does not verify is reported.
LEMMA BadRowShows ==
    ASSUME NEW n \in DOMAIN rows, ~Verifies(n)
    PROVE  VerifyIntegrity(rows).failure # "none"
<1>1. {m \in DOMAIN rows : ChainBroken(rows, m) \/ PayloadTampered(rows, m)} # {}
  BY DEF Verifies
<1> QED BY <1>1 DEF VerifyIntegrity

\* In a log that verifies, a row's links tell its place: so many records are
\* in its hash, and one less in its previous hash.
LEMMA HashTellsPlace ==
    ASSUME TamperType, VerifyIntegrity(rows).failure = "none", NEW n \in 1..Len(rows)
    PROVE  Len(rows[n].hash) = n /\ Len(rows[n].prev) = n - 1
<1>1. Len(rows) \in Nat
  BY DEF TamperType
<1>2. \A m \in 1..Len(rows) : Verifies(m)
  BY CheckedVerifies
<1>3. rows[n].hash = Log(n)
  BY <1>1, <1>2, VerifiedHash
<1>4. Len(rows[n].hash) = n
  BY <1>1, <1>3, LogIsSeq
<1>5. rows[n].hash = Append(rows[n].prev, rows[n].rec)
  BY <1>2 DEF Verifies, PayloadTampered, ContentHash
<1>6. Len(rows[n].hash) = Len(rows[n].prev) + 1 /\ Len(rows[n].prev) \in Nat
  BY <1>5, RowFields, AppendProperties
<1> QED BY <1>4, <1>6

\* A row at a place other than its own does not verify there.
LEMMA MisplacedShows ==
    ASSUME TamperType, VerifyIntegrity(rows).failure = "none",
           rows' \in Seq(RowType),
           NEW i \in DOMAIN rows', NEW j \in 1..Len(rows), i # j, rows'[i] = rows[j],
           i # 1 => i - 1 \in 1..Len(rows) /\ rows'[i - 1] = rows[i - 1]
    PROVE  VerifyIntegrity(rows').failure # "none"
<1>1. Len(rows) \in Nat /\ i \in Nat \ {0}
  BY DEF TamperType
<1>2. Len(rows'[i].prev) = j - 1
  BY HashTellsPlace
<1>3. Len(ExpectedPrev(rows', i)) = i - 1
  <2>1. CASE i = 1
    BY <2>1 DEF ExpectedPrev, GenesisHash
  <2>2. CASE i # 1
    <3>1. Len(rows[i - 1].hash) = i - 1
      BY <2>2, HashTellsPlace
    <3> QED BY <2>2, <3>1 DEF ExpectedPrev
  <2> QED BY <2>1, <2>2
<1>4. rows'[i].prev # ExpectedPrev(rows', i)
  BY <1>1, <1>2, <1>3
<1>5. ~Verifies(i)'
  BY <1>4 DEF Verifies, ChainBroken
<1>6. {m \in DOMAIN rows' : ChainBroken(rows', m) \/ PayloadTampered(rows', m)} # {}
  BY <1>5 DEF Verifies
<1> QED BY <1>6 DEF VerifyIntegrity

LEMMA PayloadEditShows ==
    ASSUME TamperType, VerifyIntegrity(rows).failure = "none",
           NEW n \in DOMAIN rows, NEW p \in Payloads, EditPayload(n, p)
    PROVE  VerifyIntegrity(rows').failure # "none"
<1> DEFINE rec == [rows[n].rec EXCEPT !.says = p]
<1>1. /\ rows \in Seq(RowType) /\ Len(rows) \in Nat /\ DOMAIN rows = 1..Len(rows)
      /\ rows[n] \in RowType /\ rows[n].rec \in Records
      /\ rows[n].prev \in Seq(Records)
  BY RowFields DEF TamperType
<1>2. rec \in Records /\ rec # rows[n].rec
  <2>1. rows[n].rec.says # p
    BY DEF EditPayload
  <2>2. rec.says = p
    BY <1>1 DEF Records
  <2>3. rec \in Records
    BY <1>1 DEF Records
  <2> QED BY <2>1, <2>2, <2>3
<1>3. /\ n \in DOMAIN rows' /\ rows'[n].rec = rec
      /\ rows'[n].prev = rows[n].prev /\ rows'[n].hash = rows[n].hash
  BY <1>1 DEF EditPayload, RowType
<1> HIDE DEF rec
<1>4. rows[n].hash = Append(rows[n].prev, rows[n].rec)
  BY <1>1, CheckedVerifies DEF Verifies, PayloadTampered, ContentHash
<1>5. Append(rows[n].prev, rec) # Append(rows[n].prev, rows[n].rec)
  <2> DEFINE k == Len(rows[n].prev) + 1
  <2>1. /\ Append(rows[n].prev, rec)[k] = rec
        /\ Append(rows[n].prev, rows[n].rec)[k] = rows[n].rec
    BY <1>1, <1>2, AppendProperties
  <2> QED BY <1>2, <2>1
<1>6. PayloadTampered(rows', n)
  BY <1>3, <1>4, <1>5 DEF PayloadTampered, ContentHash
<1>7. {m \in DOMAIN rows' : ChainBroken(rows', m) \/ PayloadTampered(rows', m)} # {}
  BY <1>3, <1>6
<1> QED BY <1>7 DEF VerifyIntegrity

LEMMA ExchangeShows ==
    ASSUME TamperType, VerifyIntegrity(rows).failure = "none",
           NEW m \in DOMAIN rows, NEW n \in DOMAIN rows, ExchangeRows(m, n)
    PROVE  VerifyIntegrity(rows').failure # "none"
<1>1. /\ rows \in Seq(RowType) /\ Len(rows) \in Nat /\ DOMAIN rows = 1..Len(rows)
      /\ rows[m] \in RowType /\ rows[n] \in RowType /\ m < n
  BY RowFields DEF TamperType, ExchangeRows
<1>2. rows' = [rows EXCEPT ![m] = rows[n], ![n] = rows[m]]
  BY DEF ExchangeRows
<1>3. rows' \in Seq(RowType) /\ DOMAIN rows' = DOMAIN rows
  BY <1>1, <1>2, ExceptSeq
<1>4. /\ rows'[m] = rows[n]
      /\ m # 1 => m - 1 \in 1..Len(rows) /\ rows'[m - 1] = rows[m - 1]
  BY <1>1, <1>2
<1> QED BY <1>1, <1>3, <1>4, MisplacedShows

\* Every deletion but that of the last row.
LEMMA DeleteShows ==
    ASSUME TamperType, VerifyIntegrity(rows).failure = "none",
           NEW n \in DOMAIN rows, DeleteRow(n), n # Len(rows)
    PROVE  VerifyIntegrity(rows').failure # "none"
<1>1. /\ rows \in Seq(RowType) /\ Len(rows) \in Nat /\ DOMAIN rows = 1..Len(rows)
      /\ n \in 1..(Len(rows) - 1)
  BY DEF TamperType
<1>2. /\ rows' \in Seq(RowType) /\ Len(rows') = Len(rows) - 1
      /\ \A i \in 1..(Len(rows) - 1) :
             rows'[i] = IF i < n THEN rows[i] ELSE rows[i + 1]
  BY DeletedRows
<1>3. n \in DOMAIN rows' /\ n + 1 \in 1..Len(rows) /\ n # n + 1
  BY <1>1, <1>2
<1>4. rows'[n] = rows[n + 1]
  BY <1>1, <1>2
<1>5. n # 1 => n - 1 \in 1..Len(rows) /\ rows'[n - 1] = rows[n - 1]
  BY <1>1, <1>2
<1> QED BY <1>2, <1>3, <1>4, <1>5, MisplacedShows

\* Whatever its length: a log that verifies does not verify any more once a
\* payload is edited, two rows are exchanged, or a row in front of others is
\* deleted.
THEOREM NoSilentEdit == Spec => TamperingShows
<1> DEFINE Shows == /\ VerifyIntegrity(rows).failure = "none"
                    /\ edits' # edits
                    /\ rows' # SubSeq(rows, 1, Len(rows) - 1)
                    => VerifyIntegrity(rows').failure # "none"
<1>1. TamperInv /\ [Next]_vars => [Shows]_vars
  <2> SUFFICES ASSUME TamperInv, Next, edits' # edits,
                      VerifyIntegrity(rows).failure = "none",
                      rows' # SubSeq(rows, 1, Len(rows) - 1)
               PROVE  VerifyIntegrity(rows').failure # "none"
    OBVIOUS
  <2>1. TamperType
    BY DEF TamperInv
  <2>2. CASE \E rec \in Records : AppendRecord(rec)
    BY <2>2 DEF AppendRecord
  <2>3. CASE \E n \in DOMAIN rows, p \in Payloads : EditPayload(n, p)
    BY <2>1, <2>3, PayloadEditShows
  <2>4. CASE \E n \in DOMAIN rows : DeleteRow(n)
    <3>1. PICK n \in DOMAIN rows : DeleteRow(n)
      BY <2>4
    <3>2. n # Len(rows)
      <4> SUFFICES ASSUME n = Len(rows) PROVE FALSE
        OBVIOUS
      <4>1. rows \in Seq(RowType) /\ Len(rows) \in Nat
        BY <2>1 DEF TamperType
      <4>2. SubSeq(rows, n + 1, Len(rows)) = << >>
        BY <4>1, SubSeqEmpty
      <4>3. \A i \in 1..(n - 1) : rows[i] \in RowType
        BY <2>1, <4>1, RowFields
      <4>4. SubSeq(rows, 1, n - 1) \in Seq(RowType)
        BY <4>1, <4>3, SubSeqProperties
      <4>5. rows' = SubSeq(rows, 1, n - 1)
        BY <3>1, <4>2, <4>4, ConcatEmptySeq DEF DeleteRow
      <4> QED BY <4>5
    <3> QED BY <2>1, <3>1, <3>2, DeleteShows
  <2>5. CASE \E m, n \in DOMAIN rows : ExchangeRows(m, n)
    BY <2>1, <2>5, ExchangeShows
  <2> QED BY <2>2, <2>3, <2>4, <2>5 DEF Next
<1> QED BY <1>1, TamperInvariant, PTL DEF Spec, TamperingShows
=============================================================================
