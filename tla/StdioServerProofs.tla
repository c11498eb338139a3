------------------------- MODULE StdioServerProofs -------------------------
(***************************************************************************)
(* Proofs of the safety properties of StdioServer, for any processes, any  *)
(* lines, however far ahead the callers write, and any failures and deaths *)
(* on the way: which lines are answered and under which ids, and that what *)
(* the answers tell is what the rows and the account hold.                 *)
(***************************************************************************)
EXTENDS StdioServerInvariants, ExecutionAccountProofs, FiniteSetTheorems

-----------------------------------------------------------------------------
(* Ascending.                                                              *)

LEMMA LeastNumber ==
    ASSUME NEW T \in SUBSET Nat, T # {}
    PROVE  \E x \in T : \A y \in T : x <= y
<1>1. PICK x \in T : \A y \in T : ~(<<y, x>> \in OpToRel(<, Nat))
  BY WFMin, NatLessThanWellFounded
<1>2. ASSUME NEW y \in T, y < x
      PROVE  FALSE
  <2>1. <<y, x>> \in OpToRel(<, Nat)
    BY <1>2 DEF OpToRel
  <2> QED BY <1>1, <2>1
<1> QED BY <1>2

\* q lists the members of S in ascending order.
IsAscending(q, S) ==
    /\ q \in [1..Cardinality(S) -> S]
    /\ \A j, k \in DOMAIN q : j < k => q[j] < q[k]

\* A set of numbers grows at its end.
LEMMA AscendingSnoc ==
    ASSUME NEW S \in SUBSET Nat, IsFiniteSet(S), NEW q, IsAscending(q, S),
           NEW n \in Nat, \A x \in S : x < n
    PROVE  /\ Cardinality(S) \in Nat
           /\ Cardinality(S \cup {n}) = Cardinality(S) + 1
           /\ IsAscending([k \in 1..(Cardinality(S) + 1) |->
                               IF k = Cardinality(S) + 1 THEN n ELSE q[k]],
                          S \cup {n})
<1> DEFINE c == Cardinality(S)
           r == [k \in 1..(c + 1) |-> IF k = c + 1 THEN n ELSE q[k]]
<1>1. c \in Nat /\ n \notin S
  BY FS_CardinalityType
<1>2. Cardinality(S \cup {n}) = c + 1
  BY <1>1, FS_AddElement
<1>3. q \in [1..c -> S] /\ (\A j, k \in DOMAIN q : j < k => q[j] < q[k])
  BY DEF IsAscending
<1> HIDE DEF c
<1>4. r \in [1..(c + 1) -> S \cup {n}]
  BY <1>1, <1>3
<1>5. ASSUME NEW j \in 1..(c + 1), NEW k \in 1..(c + 1), j < k
      PROVE  r[j] < r[k]
  <2>1. j \in 1..c /\ r[j] = q[j] /\ q[j] \in S
    BY <1>1, <1>3, <1>5
  <2>2. CASE k = c + 1
    BY <2>1, <2>2
  <2>3. CASE k # c + 1
    <3>1. k \in 1..c /\ r[k] = q[k]
      BY <1>1, <2>3
    <3> QED BY <1>3, <1>5, <2>1, <3>1
  <2> QED BY <2>2, <2>3
<1> QED BY <1>1, <1>2, <1>4, <1>5 DEF IsAscending, c

LEMMA AscendingExists ==
    ASSUME NEW m \in Nat, NEW S \in SUBSET (1..m)
    PROVE  IsFiniteSet(S) /\ \E q : IsAscending(q, S)
<1> DEFINE Good(n) == \A T \in SUBSET (1..n) : \E q : IsAscending(q, T)
           Bad == {n \in Nat : ~Good(n)}
<1>1. ASSUME NEW n \in Nat, NEW T \in SUBSET (1..n)
      PROVE  IsFiniteSet(T) /\ T \in SUBSET Nat
  <2>1. IsFiniteSet(1..n)
    BY FS_Interval
  <2>2. IsFiniteSet(T)
    BY <2>1, FS_Subset
  <2> QED BY <2>2
<1>2. ASSUME Bad # {} PROVE FALSE
  <2>1. PICK n \in Bad : \A k \in Bad : n <= k
    BY <1>2, LeastNumber
  <2>2. PICK T \in SUBSET (1..n) : ~\E q : IsAscending(q, T)
    BY <2>1
  <2>3. CASE n \in T
    <3> DEFINE R == T \ {n}
    <3>1. n - 1 \in Nat /\ n - 1 \notin Bad /\ R \in SUBSET (1..(n - 1))
      BY <2>1, <2>3
    <3>2. PICK q : IsAscending(q, R)
      BY <3>1
    <3>3. IsFiniteSet(R) /\ R \in SUBSET Nat
      BY <1>1, <3>1
    <3>5. n \in Nat /\ \A x \in R : x < n
      BY <2>1, <3>1
    <3>4. R \cup {n} = T
      BY <2>3
    <3> QED BY <2>2, <3>2, <3>3, <3>4, <3>5, AscendingSnoc
  <2>4. CASE n \notin T /\ n # 0
    <3>1. n - 1 \in Nat /\ n - 1 \notin Bad /\ T \in SUBSET (1..(n - 1))
      BY <2>1, <2>4
    <3> QED BY <2>2, <3>1
  <2>5. CASE n = 0
    <3>1. T = {}
      BY <2>5
    <3>2. Cardinality(T) = 0
      BY <3>1, FS_EmptySet
    <3>3. [k \in 1..0 |-> k] \in [1..0 -> T]
      OBVIOUS
    <3>4. IsAscending([k \in 1..0 |-> k], T)
      BY <3>2, <3>3 DEF IsAscending
    <3> QED BY <2>2, <3>4
  <2> QED BY <2>3, <2>4, <2>5
<1>3. Good(m)
  BY <1>2
<1> QED BY <1>1, <1>3

\* Ascending lists every member, in order.
LEMMA AscendingLists ==
    ASSUME NEW m \in Nat, NEW S \in SUBSET (1..m)
    PROVE  /\ IsAscending(Ascending(S), S)
           /\ Cardinality(S) \in Nat
           /\ Ascending(S) \in Seq(Nat) /\ Len(Ascending(S)) = Cardinality(S)
           /\ \A x \in S : \E k \in DOMAIN Ascending(S) : Ascending(S)[k] = x
<1> DEFINE q == Ascending(S)
           c == Cardinality(S)
<1>1. IsFiniteSet(S) /\ \E p : IsAscending(p, S)
  BY AscendingExists
<1>2. IsAscending(q, S)
  BY <1>1 DEF IsAscending, Ascending
<1>3. c \in Nat
  BY <1>1, FS_CardinalityType
<1>4. q \in [1..c -> S] /\ \A j, k \in 1..c : j < k => q[j] < q[k]
  BY <1>2 DEF IsAscending
<1> HIDE DEF q, c
<1>5. S \subseteq Nat /\ \A k \in 1..c : q[k] \in S
  BY <1>4
<1>6. q \in Seq(Nat) /\ Len(q) = c
  <2>1. q \in [1..c -> Nat]
    BY <1>4, <1>5
  <2> QED BY <1>3, <2>1
<1>7. q \in Injection(1..c, S)
  <2>1. ASSUME NEW j \in 1..c, NEW k \in 1..c, q[j] = q[k]
        PROVE  j = k
    <3>1. q[j] \in Nat /\ q[k] \in Nat
      BY <1>5
    <3>2. ~(j < k) /\ ~(k < j)
      BY <1>4, <2>1, <3>1
    <3> QED BY <1>3, <3>2
  <2> QED BY <1>4, <2>1 DEF Injection, IsInjective
<1>8. q \in Surjection(1..c, S)
  <2>1. Cardinality(1..c) = c
    BY <1>3, FS_Interval
  <2> QED BY <1>1, <1>7, <2>1, FS_Injection DEF c
<1> QED BY <1>2, <1>3, <1>4, <1>6, <1>8 DEF Surjection, q, c

\* There is one way to list a set.
LEMMA AscendingUnique ==
    ASSUME NEW m \in Nat, NEW S \in SUBSET (1..m), NEW q, IsAscending(q, S)
    PROVE  q = Ascending(S)
<1> DEFINE p == Ascending(S)
           c == Cardinality(S)
           Differ == {k \in 1..c : p[k] # q[k]}
<1>1. /\ c \in Nat /\ p \in [1..c -> S] /\ q \in [1..c -> S]
      /\ \A j, k \in 1..c : j < k => p[j] < p[k]
      /\ \A j, k \in 1..c : j < k => q[j] < q[k]
  BY AscendingLists DEF IsAscending
<1>2. IsFiniteSet(S) /\ S \subseteq Nat
  <2>1. S \subseteq Nat
    OBVIOUS
  <2> QED BY <2>1, AscendingExists
<1>3. \A x \in S : \E k \in 1..c : p[k] = x
  BY <1>1, AscendingLists
<1>4. \A x \in S : \E k \in 1..c : q[k] = x
  <2>1. q \in Injection(1..c, S)
    <3>1. ASSUME NEW j \in 1..c, NEW k \in 1..c, q[j] = q[k]
          PROVE  j = k
      <4>1. q[j] \in Nat /\ q[k] \in Nat
        BY <1>1, <1>2
      <4>2. ~(j < k) /\ ~(k < j)
        BY <1>1, <3>1, <4>1
      <4> QED BY <1>1, <4>2
    <3> QED BY <1>1, <3>1 DEF Injection, IsInjective
  <2>2. Cardinality(1..c) = c
    BY <1>1, FS_Interval
  <2>3. q \in Surjection(1..c, S)
    BY <1>2, <2>1, <2>2, FS_Injection
  <2> QED BY <2>3 DEF Surjection
<1> HIDE DEF p, c
<1>5. ASSUME Differ # {} PROVE FALSE
  <2>1. Differ \in SUBSET Nat
    BY <1>1
  <2>2. PICK k \in Differ : \A j \in Differ : k <= j
    BY <1>5, <2>1, LeastNumber
  <2>3. /\ k \in 1..c /\ p[k] \in S /\ q[k] \in S /\ p[k] # q[k]
        /\ \A j \in 1..c : j < k => p[j] = q[j]
    BY <1>1, <2>2
  <2>4. PICK i \in 1..c : q[i] = p[k]
    BY <1>4, <2>3
  <2>5. PICK j \in 1..c : p[j] = q[k]
    BY <1>3, <2>3
  <2>6. p[k] \in Nat /\ q[k] \in Nat
    BY <1>2, <2>3
  <2>7. i # k /\ j # k /\ ~(i < k) /\ ~(j < k)
    <3>1. i < k => p[i] = p[k] /\ p[i] < p[k]
      BY <1>1, <2>3, <2>4
    <3>2. j < k => q[j] = q[k] /\ q[j] < q[k]
      BY <1>1, <2>3, <2>5
    <3> QED BY <2>3, <2>4, <2>5, <2>6, <3>1, <3>2
  <2>8. k < i /\ k < j
    BY <1>1, <2>3, <2>7
  <2>9. q[k] < q[i] /\ p[k] < p[j]
    BY <1>1, <2>3, <2>8
  <2> QED BY <2>4, <2>5, <2>6, <2>9
<1>6. \A k \in 1..c : p[k] = q[k]
  BY <1>5
<1>7. p = q
  BY <1>1, <1>6
<1> QED BY <1>7 DEF p

LEMMA AscendingAppend ==
    ASSUME NEW m \in Nat, NEW S \in SUBSET (1..m), NEW n \in Nat,
           n > 0, \A x \in S : x < n
    PROVE  Ascending(S \cup {n}) = Append(Ascending(S), n)
<1> DEFINE p == Ascending(S)
           c == Cardinality(S)
           r == [k \in 1..(c + 1) |-> IF k = c + 1 THEN n ELSE p[k]]
<1>1. IsAscending(p, S) /\ c \in Nat /\ p \in Seq(Nat) /\ Len(p) = c
  BY AscendingLists
<1>2. IsFiniteSet(S) /\ S \in SUBSET Nat
  BY AscendingExists
<1>3. IsAscending(r, S \cup {n})
  <2> HIDE DEF p
  <2> QED BY <1>1, <1>2, AscendingSnoc
<1>4. r = Ascending(S \cup {n})
  <2>1. S \cup {n} \in SUBSET (1..(m + n)) /\ m + n \in Nat
    OBVIOUS
  <2> HIDE DEF r
  <2> QED BY <1>3, <2>1, AscendingUnique
<1> HIDE DEF p, c
<1>5. Append(p, n) = r
  <2>1. /\ Append(p, n) \in Seq(Nat) /\ Len(Append(p, n)) = c + 1
        /\ \A k \in 1..(c + 1) :
               Append(p, n)[k] = IF k = c + 1 THEN n ELSE p[k]
    BY <1>1
  <2>2. Append(p, n) = [k \in 1..(c + 1) |-> Append(p, n)[k]]
    <3> DEFINE a == Append(p, n)
    <3>1. a \in Seq(Nat) /\ Len(a) = c + 1
      BY <2>1
    <3> HIDE DEF a
    <3>2. a = [k \in 1..(c + 1) |-> a[k]]
      BY <1>1, <3>1
    <3> QED BY <3>2 DEF a
  <2> QED BY <2>1, <2>2
<1> QED BY <1>4, <1>5 DEF p

LEMMA AscendingEmpty == Ascending({}) = << >> /\ DOMAIN Ascending({}) = {}
<1>1. Cardinality({}) = 0
  BY FS_EmptySet
<1>2. IsAscending(Ascending({}), {})
  BY AscendingLists
<1>3. DOMAIN Ascending({}) = {}
  BY <1>1, <1>2 DEF IsAscending
<1>4. Ascending({}) \in Seq(Nat) /\ Len(Ascending({})) = 0
  BY <1>1, AscendingLists
<1> QED BY <1>3, <1>4

-----------------------------------------------------------------------------
(* The invariants of Execution hold in the server.                         *)

\* What one process does, or its caller.
StepOf(s) == \/ \E line \in Lines : Write(s, line)
             \/ ProcessStep(s)
             \/ Die(s) \/ Start(s)

\* A failing read counts as a failure and is no step of Execution.
OnlyFailures == /\ UNCHANGED <<rows, acct, pc, call, replied, applied, booked>>
                /\ failures < MaxStoreFailures /\ failures' = failures + 1

LEMMA StepProjects ==
    ASSUME NEW s \in Servers, StepOf(s)
    PROVE  \/ Submit(s) \/ ServerStep(s) \/ Crash(s) \/ Restart(s)
           \/ UNCHANGED vars \/ OnlyFailures
BY DEF StepOf, ProcessStep, Write, Ignore, AnswerAtOnce, ReadFails, Undecodable,
   StartSubmission, Serve, AnswerSubmission, ServerStep, Die, Start, OnlyFailures

LEMMA ServerProjects ==
    ASSUME [ServerNext]_allVars
    PROVE  [Next]_vars \/ OnlyFailures
<1>1. ASSUME NEW s \in Servers, StepOf(s) PROVE [Next]_vars \/ OnlyFailures
  BY <1>1, StepProjects DEF Next
<1>2. CASE UNCHANGED allVars
  BY <1>2 DEF allVars
<1> QED BY <1>1, <1>2 DEF ServerNext, StepOf

LEMMA ServerTypeInvariant == ServerSpec => []TypeInv
<1>1. ServerInit => TypeInv
  BY TypeInvInit DEF ServerInit
<1>2. TypeInv /\ [ServerNext]_allVars => TypeInv'
  <2> SUFFICES ASSUME TypeInv, [ServerNext]_allVars PROVE TypeInv'
    OBVIOUS
  <2>1. CASE OnlyFailures
    <3>1. failures' \in 0..MaxStoreFailures
      BY <2>1, ExecutionAssumption DEF OnlyFailures, TypeInv, TypeOK
    <3> QED BY <2>1, <3>1 DEF OnlyFailures, TypeInv, TypeOK, CallWellFormed
  <2> QED BY <2>1, ServerProjects, TypeInvNext
<1> QED BY <1>1, <1>2, PTL DEF ServerSpec

LEMMA ServerReplyInvariant == ServerSpec => []ReplyInv
<1>1. ServerInit => ReplyInv
  BY DEF ServerInit, Init, ReplyInv, OneRowPerKey, RepliesMatchRecord, AnswerRecorded
<1>2. TypeInv /\ ReplyInv /\ [ServerNext]_allVars => ReplyInv'
  <2> SUFFICES ASSUME TypeInv, ReplyInv, [ServerNext]_allVars PROVE ReplyInv'
    OBVIOUS
  <2>1. CASE OnlyFailures
    BY <2>1 DEF OnlyFailures, ReplyInv, OneRowPerKey, RepliesMatchRecord,
       AnswerRecorded, AnswersWith
  <2> QED BY <2>1, ServerProjects, ReplyInvNext
<1> QED BY <1>1, <1>2, ServerTypeInvariant, PTL DEF ServerSpec

LEMMA ServerReservation == ServerSpec => []ReservationReleased
<1>1. ServerInit => ReservationReleased
  BY DEF ServerInit, Init, ReservationReleased, NewAccount
<1>2. TypeInv /\ ReservationReleased /\ [ServerNext]_allVars => ReservationReleased'
  <2> SUFFICES ASSUME TypeInv, ReservationReleased, [ServerNext]_allVars
               PROVE  ReservationReleased'
    OBVIOUS
  <2>1. CASE OnlyFailures
    BY <2>1 DEF OnlyFailures, ReservationReleased, IsBuy
  <2> QED BY <2>1, ServerProjects, ReservationNext
<1> QED BY <1>1, <1>2, ServerTypeInvariant, PTL DEF ServerSpec

-----------------------------------------------------------------------------
(* Streams.                                                                *)

\* A call in progress moves from step to step.
LEMMA ServeSteps ==
    ASSUME TypeInv, NEW s \in Servers, ServerStep(s), pc[s] # "reply"
    PROVE  /\ pc[s] \in Steps /\ pc'[s] \in Steps
           /\ call'[s].intent = call[s].intent
<1>0. /\ pc \in [Servers -> Steps \cup {"idle", "down"}]
      /\ call \in [Servers -> CallType]
  BY DEF TypeInv, TypeOK
<1>1. pc[s] \in Steps /\ pc'[s] \in Steps
  BY <1>0 DEF ServerStep, At, FindHit, FindMiss, Refuse, Accept, RiskReject,
     ReserveRisk, FillOrder, LeaveOpen, Release, ReadPrev, Insert,
     InsertConflict, StoreFailure, Reply, Steps
<1>2. call'[s].intent = call[s].intent
  BY <1>0 DEF ServerStep, At, FindHit, FindMiss, Refuse, Accept, RiskReject,
     ReserveRisk, FillOrder, LeaveOpen, Release, ReadPrev, Insert,
     InsertConflict, StoreFailure, Reply, Fail, CallType
<1> QED BY <1>1, <1>2

\* Appending keeps a sequence one of its own elements.
LEMMA SaySeq ==
    ASSUME NEW q, q \in Seq(Range(q)), NEW a
    PROVE  LET r == Append(q, a)
           IN  /\ r \in Seq(Range(r)) /\ Len(r) = Len(q) + 1
               /\ Len(q) \in Nat /\ DOMAIN q = 1..Len(q)
               /\ DOMAIN r = 1..(Len(q) + 1)
               /\ r[Len(q) + 1] = a /\ \A k \in 1..Len(q) : r[k] = q[k]
<1> DEFINE A == Range(q) \cup {a}
           r == Append(q, a)
<1>1. q \in Seq(A)
  BY DEF Range
<1> HIDE DEF A
<1>2. a \in A
  BY DEF A
<1>3. /\ r \in Seq(A) /\ Len(r) = Len(q) + 1
      /\ Len(q) \in Nat /\ DOMAIN q = 1..Len(q) /\ DOMAIN r = 1..(Len(q) + 1)
      /\ r[Len(q) + 1] = a /\ \A k \in 1..Len(q) : r[k] = q[k]
  BY <1>1, <1>2
<1> HIDE DEF r
<1>4. r \in Seq(Range(r))
  BY <1>3 DEF Range
<1> QED BY <1>3, <1>4 DEF r

\* The three things a step may do to the streams of its process: nothing
\* that calls for an answer, the answer to the next line, or a new start.
Silent(s) ==
    /\ stdout'[s] = stdout[s]
    /\ \A n \in 1..Done(s) : stdin'[s][n] = stdin[s][n]
    /\ \/ Done(s)' = Done(s)
       \/ Done(s)' = Done(s) + 1 /\ ~Asks(stdin'[s][Done(s) + 1])

Answers(s, a) ==
    /\ stdout'[s] = Append(stdout[s], a)
    /\ stdin' = stdin
    /\ rows' = rows
    /\ Done(s)' = Done(s) + 1 /\ Asks(stdin[s][Done(s) + 1])
    /\ a.id = AnswerId(stdin[s][Done(s) + 1], Done(s) + 1)

Ends(s) == Done(s)' = 0 /\ stdout'[s] = << >>

\* A step touches the streams and the call of its own process only.
LEMMA OthersKeepStreams ==
    ASSUME TypeInv, StreamInv, NEW s \in Servers, StepOf(s)
    PROVE  \A t \in Servers \ {s} :
               /\ pc'[t] = pc[t] /\ call'[t] = call[t]
               /\ stdin'[t] = stdin[t] /\ taken'[t] = taken[t]
               /\ stdout'[t] = stdout[t] /\ duplicate'[t] = duplicate[t]
<1>1. \A t \in Servers \ {s} : pc'[t] = pc[t] /\ call'[t] = call[t]
  BY StepProjects, OthersKeepCall DEF vars, OnlyFailures
<1>2. \A t \in Servers \ {s} : /\ stdin'[t] = stdin[t] /\ taken'[t] = taken[t]
                            /\ stdout'[t] = stdout[t]
                            /\ duplicate'[t] = duplicate[t]
  BY DEF StepOf, ProcessStep, Write, Ignore, AnswerAtOnce, ReadFails, Undecodable,
     StartSubmission, Serve, AnswerSubmission, Die, Start, Take, Say, NewStreams,
     serverVars, StreamInv
<1> QED BY <1>1, <1>2

\* What the steps that answer say, and to which line.
LEMMA AnswerAtOnceShape ==
    ASSUME TypeInv, StreamInv, NEW s \in Servers, NEW line \in Lines, NEW a,
           Reads(s, line), Asks(line), Say(s, a), Take(s), rows' = rows,
           pc' = pc, a.id = AnswerId(line, taken[s] + 1)
    PROVE  Answers(s, a) /\ Done(s) = taken[s] /\ line = stdin[s][Done(s) + 1]
<1>1. /\ Done(s) = taken[s] /\ Done(s)' = taken[s] + 1
      /\ line = stdin[s][taken[s] + 1]
  BY DEF Reads, Done, Take, StreamInv, Steps
<1> QED BY <1>1 DEF Answers, Say, Take, StreamInv

LEMMA AnswerSubmissionShape ==
    ASSUME TypeInv, StreamInv, NEW s \in Servers, AnswerSubmission(s)
    PROVE  /\ Answers(s, SubmissionAnswer(s))
           /\ Done(s) + 1 = taken[s] /\ ServesItsLine(s)
<1>1. pc[s] = "reply" /\ pc'[s] = "idle"
  BY DEF AnswerSubmission, Reply, At, TypeInv, TypeOK
<1>2. ServesItsLine(s) /\ taken[s] \in Nat
  BY <1>1 DEF StreamInv, Steps
<1>3. Done(s) + 1 = taken[s] /\ Done(s)' = taken[s]
  BY <1>1, <1>2 DEF Done, Steps, AnswerSubmission
<1>4. SubmissionAnswer(s).id = AnswerId(stdin[s][taken[s]], taken[s])
  BY DEF SubmissionAnswer, Envelope
<1>5. /\ stdin' = stdin /\ rows' = rows
      /\ stdout'[s] = Append(stdout[s], SubmissionAnswer(s))
  BY DEF AnswerSubmission, Reply, Say, StreamInv
<1> QED BY <1>2, <1>3, <1>4, <1>5 DEF Answers, ServesItsLine

LEMMA AnswerToId ==
    ASSUME NEW s, NEW line, NEW n, NEW now, Asks(line)
    PROVE  AnswerTo(s, line, n, now).id = AnswerId(line, n)
BY DEF AnswerTo, Envelope, AnswerId, Asks

LEMMA StepShape ==
    ASSUME TypeInv, StreamInv, NEW s \in Servers, StepOf(s)
    PROVE  Silent(s) \/ Ends(s) \/ \E a : Answers(s, a)
<1>0. /\ stdin \in [Servers -> Seq(Lines)] /\ taken \in [Servers -> Nat]
      /\ DOMAIN stdout = Servers /\ taken[s] \in Nat /\ stdin[s] \in Seq(Lines)
      /\ pc \in [Servers -> Steps \cup {"idle", "down"}]
      /\ taken[s] <= Len(stdin[s]) /\ Len(stdin[s]) \in Nat
      /\ pc[s] \in Steps => taken[s] > 0
      /\ "idle" \notin Steps /\ "down" \notin Steps /\ "find" \in Steps
  BY DEF StreamInv, ServesItsLine, TypeInv, TypeOK, Steps
<1>1. Done(s) \in Nat /\ Done(s) <= taken[s]
  BY <1>0 DEF Done
<1>2. ASSUME NEW line \in Lines, Write(s, line) PROVE Silent(s)
  <2>1. Done(s)' = Done(s) /\ stdout' = stdout
    BY <1>2 DEF Write, Done, vars
  <2>2. \A n \in 1..Len(stdin[s]) : stdin'[s][n] = stdin[s][n]
    BY <1>0, <1>2 DEF Write
  <2> QED BY <1>0, <1>1, <2>1, <2>2 DEF Silent
<1>3. CASE Ignore(s)
  <2>1. PICK line \in Lines : Reads(s, line) /\ ~Asks(line)
    BY <1>3 DEF Ignore
  <2>2. /\ Done(s) = taken[s] /\ Done(s)' = taken[s] + 1
        /\ line = stdin[s][taken[s] + 1] /\ stdin' = stdin /\ stdout' = stdout
    BY <1>0, <1>3, <2>1 DEF Ignore, Reads, Done, Take, vars
  <2> QED BY <2>1, <2>2 DEF Silent
<1>4. CASE AnswerAtOnce(s)
  <2>1. PICK line \in Lines, now \in Times :
            /\ Reads(s, line) /\ Asks(line)
            /\ Say(s, AnswerTo(s, line, taken[s] + 1, now))
    BY <1>4 DEF AnswerAtOnce
  <2>2. Take(s) /\ rows' = rows /\ pc' = pc
    BY <1>4 DEF AnswerAtOnce, vars
  <2> QED BY <2>1, <2>2, AnswerToId, AnswerAtOnceShape
<1>5. CASE ReadFails(s)
  <2>1. PICK line \in Lines :
            /\ Reads(s, line) /\ Asks(line)
            /\ Say(s, Envelope(AnswerId(line, taken[s] + 1), "tool-error",
                               line.tool, None))
    BY <1>5 DEF ReadFails
  <2>2. Take(s) /\ rows' = rows /\ pc' = pc
    BY <1>5 DEF ReadFails
  <2> DEFINE a == Envelope(AnswerId(line, taken[s] + 1), "tool-error", line.tool, None)
  <2>3. a.id = AnswerId(line, taken[s] + 1)
    BY DEF Envelope
  <2> QED BY <2>1, <2>2, <2>3, AnswerAtOnceShape
<1>6. CASE Undecodable(s) \/ Die(s)
  <2>1. pc'[s] = "down" /\ taken'[s] = 0 /\ stdout'[s] = << >>
    BY <1>0, <1>6 DEF Undecodable, Die, Crash, NewStreams
  <2> QED BY <1>0, <2>1 DEF Ends, Done
<1>7. CASE StartSubmission(s)
  <2>1. /\ pc[s] = "idle" /\ pc'[s] = "find" /\ taken'[s] = taken[s] + 1
        /\ stdin' = stdin /\ stdout' = stdout
    BY <1>0, <1>7 DEF StartSubmission, Submit, At, Take
  <2>2. Done(s)' = Done(s)
    BY <1>0, <2>1 DEF Done
  <2> QED BY <2>1, <2>2 DEF Silent
<1>8. CASE Serve(s)
  <2>1. /\ pc[s] \in Steps /\ pc'[s] \in Steps /\ taken' = taken
        /\ stdin' = stdin /\ stdout' = stdout
    BY <1>8, ServeSteps DEF Serve
  <2>2. Done(s)' = Done(s)
    BY <2>1 DEF Done
  <2> QED BY <2>1, <2>2 DEF Silent
<1>9. CASE Start(s)
  <2>1. /\ pc[s] = "down" /\ pc'[s] = "idle" /\ taken' = taken
        /\ stdin' = stdin /\ stdout' = stdout
    BY <1>0, <1>9 DEF Start, Restart, At, serverVars
  <2>2. Done(s)' = Done(s)
    BY <1>0, <2>1 DEF Done
  <2> QED BY <2>1, <2>2 DEF Silent
<1> QED BY <1>2, <1>3, <1>4, <1>5, <1>6, <1>7, <1>8, <1>9, AnswerSubmissionShape
        DEF StepOf, ProcessStep

LEMMA StreamNext ==
    ASSUME TypeInv, StreamInv, NEW s \in Servers, StepOf(s)
    PROVE  StreamInv'
<1>0. /\ stdin \in [Servers -> Seq(Lines)] /\ taken \in [Servers -> Nat]
      /\ DOMAIN stdout = Servers /\ taken[s] \in Nat /\ stdin[s] \in Seq(Lines)
      /\ duplicate \in [Servers -> BOOLEAN]
      /\ pc \in [Servers -> Steps \cup {"idle", "down"}]
      /\ taken[s] <= Len(stdin[s]) /\ Len(stdin[s]) \in Nat
      /\ stdout[s] \in Seq(Range(stdout[s]))
      /\ pc[s] \in Steps => ServesItsLine(s)
      /\ "idle" \notin Steps /\ "down" \notin Steps /\ "find" \in Steps
  BY DEF StreamInv, TypeInv, TypeOK, Steps
<1>1. DOMAIN stdout' = Servers
  BY <1>0 DEF StepOf, ProcessStep, Write, Ignore, AnswerAtOnce, ReadFails,
     Undecodable, StartSubmission, Serve, AnswerSubmission, Die, Start, Say,
     NewStreams, serverVars
<1>2. duplicate' \in [Servers -> BOOLEAN]
  BY <1>0 DEF StepOf, ProcessStep, Write, Ignore, AnswerAtOnce, ReadFails,
     Undecodable, StartSubmission, Serve, AnswerSubmission, Die, Start, Take,
     NewStreams, serverVars
<1>3. stdin' \in [Servers -> Seq(Lines)] /\ taken' \in [Servers -> Nat]
  <2>1. ASSUME NEW line \in Lines, Write(s, line)
        PROVE  stdin' \in [Servers -> Seq(Lines)] /\ taken' = taken
    <3>1. Append(stdin[s], line) \in Seq(Lines)
      BY <1>0
    <3> QED BY <1>0, <2>1, <3>1 DEF Write
  <2>2. CASE Undecodable(s) \/ Die(s)
    <3>1. << >> \in Seq(Lines)
      OBVIOUS
    <3>2. NewStreams(s)
      BY <2>2 DEF Undecodable, Die
    <3>3. taken' \in [Servers -> Nat]
      BY <1>0, <3>2 DEF NewStreams
    <3>4. stdin' = [stdin EXCEPT ![s] = << >>]
      BY <3>2 DEF NewStreams
    <3> QED BY <1>0, <3>1, <3>3, <3>4
  <2>3. CASE ProcessStep(s) /\ ~Undecodable(s)
    <3>1. stdin' = stdin
      BY <2>3 DEF ProcessStep, Ignore, AnswerAtOnce, ReadFails, StartSubmission,
         Serve, AnswerSubmission, Take
    <3>2. taken' = taken \/ taken' = [taken EXCEPT ![s] = @ + 1]
      BY <2>3 DEF ProcessStep, Ignore, AnswerAtOnce, ReadFails, StartSubmission,
         Serve, AnswerSubmission, Take
    <3> QED BY <1>0, <3>1, <3>2
  <2>4. CASE Start(s)
    BY <1>0, <2>4 DEF Start, serverVars
  <2> QED BY <1>0, <2>1, <2>2, <2>3, <2>4 DEF StepOf
<1>4. stdout'[s] \in Seq(Range(stdout'[s]))
  <2>1. CASE Silent(s)
    BY <1>0, <2>1 DEF Silent
  <2>2. CASE Ends(s)
    BY <2>2 DEF Ends, Range
  <2>3. ASSUME NEW a, Answers(s, a) PROVE stdout'[s] \in Seq(Range(stdout'[s]))
    <3>1. stdout'[s] = Append(stdout[s], a)
      BY <2>3 DEF Answers
    <3> QED BY <1>0, <3>1, SaySeq
  <2> QED BY <2>1, <2>2, <2>3, StepShape
<1>5. taken'[s] <= Len(stdin'[s])
  <2>1. ASSUME NEW line \in Lines, Write(s, line) PROVE taken'[s] <= Len(stdin'[s])
    <3>1. taken'[s] = taken[s] /\ stdin'[s] = Append(stdin[s], line)
      BY <1>0, <2>1 DEF Write
    <3>2. Len(Append(stdin[s], line)) = Len(stdin[s]) + 1
      BY <1>0
    <3> QED BY <1>0, <3>1, <3>2
  <2>2. CASE Ignore(s) \/ AnswerAtOnce(s) \/ ReadFails(s) \/ StartSubmission(s)
    <3>1. stdin' = stdin /\ taken'[s] = taken[s] + 1 /\ taken[s] < Len(stdin[s])
      BY <1>0, <2>2 DEF Ignore, AnswerAtOnce, ReadFails, StartSubmission, Take, Reads
    <3> QED BY <1>0, <3>1
  <2>3. CASE Undecodable(s) \/ Die(s)
    <3>1. taken'[s] = 0 /\ stdin'[s] = << >>
      BY <1>0, <2>3 DEF Undecodable, Die, NewStreams
    <3> QED BY <3>1
  <2>4. CASE Serve(s) \/ AnswerSubmission(s) \/ Start(s)
    BY <1>0, <2>4 DEF Serve, AnswerSubmission, Start, serverVars
  <2> QED BY <2>1, <2>2, <2>3, <2>4 DEF StepOf, ProcessStep
<1>6. pc'[s] \in Steps => ServesItsLine(s)'
  <2>1. ASSUME NEW line \in Lines, Write(s, line), pc'[s] \in Steps
        PROVE  ServesItsLine(s)'
    <3>1. /\ taken'[s] = taken[s] /\ call' = call /\ pc[s] \in Steps
          /\ stdin'[s][taken[s]] = stdin[s][taken[s]]
      BY <1>0, <2>1 DEF Write, vars, ServesItsLine
    <3> QED BY <1>0, <3>1 DEF ServesItsLine
  <2>2. CASE Ignore(s) \/ AnswerAtOnce(s) \/ ReadFails(s) \/ Undecodable(s)
             \/ Die(s) \/ Start(s) \/ AnswerSubmission(s)
    <3>1. pc'[s] \notin Steps
      BY <1>0, <2>2 DEF Ignore, AnswerAtOnce, ReadFails, Undecodable, Die, Start,
         AnswerSubmission, Reads, vars, Crash, Restart, Reply, At
    <3> QED BY <3>1
  <2>3. CASE StartSubmission(s)
    <3>1. PICK line \in Lines : /\ Reads(s, line) /\ Asks(line) /\ Submission(line)
                                /\ call'[s].intent = line.args.intent
      BY <2>3 DEF StartSubmission
    <3>2. /\ stdin' = stdin /\ taken'[s] = taken[s] + 1
          /\ line = stdin[s][taken[s] + 1]
      BY <1>0, <2>3, <3>1 DEF StartSubmission, Take, Reads
    <3> QED BY <1>0, <3>1, <3>2 DEF ServesItsLine
  <2>4. CASE Serve(s)
    <3>1. pc[s] \in Steps /\ call'[s].intent = call[s].intent
      BY <2>4, ServeSteps DEF Serve
    <3>2. stdin' = stdin /\ taken' = taken
      BY <2>4 DEF Serve
    <3> QED BY <1>0, <3>1, <3>2 DEF ServesItsLine
  <2> QED BY <2>1, <2>2, <2>3, <2>4 DEF StepOf, ProcessStep
<1>7. ASSUME NEW t \in Servers \ {s}
      PROVE  /\ taken'[t] <= Len(stdin'[t])
             /\ stdout'[t] \in Seq(Range(stdout'[t]))
             /\ pc'[t] \in Steps => ServesItsLine(t)'
  <2>1. /\ pc'[t] = pc[t] /\ call'[t] = call[t]
        /\ stdin'[t] = stdin[t] /\ taken'[t] = taken[t] /\ stdout'[t] = stdout[t]
    BY OthersKeepStreams
  <2> QED BY <2>1 DEF StreamInv, ServesItsLine
<1> QED BY <1>1, <1>2, <1>3, <1>4, <1>5, <1>6, <1>7 DEF StreamInv

LEMMA StreamInvariant == ServerSpec => []StreamInv
<1>1. ServerInit => StreamInv
  BY DEF ServerInit, Init, StreamInv, Steps, Range
<1>2. TypeInv /\ StreamInv /\ [ServerNext]_allVars => StreamInv'
  <2> SUFFICES ASSUME TypeInv, StreamInv, [ServerNext]_allVars PROVE StreamInv'
    OBVIOUS
  <2>1. CASE UNCHANGED allVars
    BY <2>1 DEF allVars, vars, serverVars, StreamInv, ServesItsLine
  <2> QED BY <2>1, StreamNext DEF ServerNext, StepOf
<1> QED BY <1>1, <1>2, ServerTypeInvariant, PTL DEF ServerSpec

-----------------------------------------------------------------------------
(* Requests and answers.                                                   *)

LEMMA AskedFacts ==
    ASSUME TypeInv, StreamInv, NEW s \in Servers
    PROVE  /\ Done(s) \in Nat /\ Done(s) <= taken[s] /\ taken[s] <= Len(stdin[s])
           /\ Asked(s) \in Seq(Nat) /\ Len(Asked(s)) \in Nat
           /\ DOMAIN Asked(s) = 1..Len(Asked(s))
           /\ \A k \in DOMAIN Asked(s) : /\ Asked(s)[k] \in 1..Done(s)
                                         /\ Asks(stdin[s][Asked(s)[k]])
<1> DEFINE S == {n \in 1..Done(s) : Asks(stdin[s][n])}
<1>1. taken[s] \in Nat /\ Done(s) \in Nat /\ Done(s) <= taken[s]
      /\ taken[s] <= Len(stdin[s])
  BY DEF StreamInv, Done, ServesItsLine
<1>2. S \in SUBSET (1..Done(s))
  OBVIOUS
<1>3. /\ IsAscending(Ascending(S), S) /\ Cardinality(S) \in Nat
      /\ Ascending(S) \in Seq(Nat) /\ Len(Ascending(S)) = Cardinality(S)
  <2> HIDE DEF S
  <2> QED BY <1>1, <1>2, AscendingLists
<1>4. DOMAIN Asked(s) = 1..Len(Asked(s)) /\ \A k \in DOMAIN Asked(s) : Asked(s)[k] \in S
  BY <1>3 DEF IsAscending, Asked
<1> QED BY <1>1, <1>3, <1>4 DEF Asked

LEMMA AskedSilent ==
    ASSUME TypeInv, StreamInv, NEW s \in Servers, Silent(s)
    PROVE  Asked(s)' = Asked(s)
<1>1. Done(s) \in Nat
  BY AskedFacts
<1>2. {n \in 1..(Done(s)') : Asks(stdin'[s][n])} = {n \in 1..Done(s) : Asks(stdin[s][n])}
  BY <1>1 DEF Silent
<1> QED BY <1>2 DEF Asked

LEMMA AskedAnswers ==
    ASSUME TypeInv, StreamInv, NEW s \in Servers, NEW a, Answers(s, a)
    PROVE  Asked(s)' = Append(Asked(s), Done(s) + 1)
<1> DEFINE S == {n \in 1..Done(s) : Asks(stdin[s][n])}
           T == {n \in 1..(Done(s)') : Asks(stdin'[s][n])}
<1>1. Done(s) \in Nat
  BY AskedFacts
<1>2. T = S \cup {Done(s) + 1}
  BY <1>1 DEF Answers
<1>3. S \in SUBSET (1..Done(s)) /\ \A x \in S : x < Done(s) + 1
  BY <1>1
<1>4. Asked(s)' = Ascending(T)
  BY DEF Asked
<1> HIDE DEF S, T
<1>5. Ascending(S \cup {Done(s) + 1}) = Append(Ascending(S), Done(s) + 1)
  <2> DEFINE m == Done(s)
             n == Done(s) + 1
  <2>1. m \in Nat /\ n \in Nat /\ n > 0 /\ S \in SUBSET (1..m) /\ \A x \in S : x < n
    BY <1>1, <1>3
  <2> HIDE DEF m, n
  <2>2. Ascending(S \cup {n}) = Append(Ascending(S), n)
    BY <2>1, AscendingAppend
  <2> QED BY <2>2 DEF n
<1> QED BY <1>2, <1>4, <1>5 DEF Asked, S

LEMMA AskedEnds ==
    ASSUME NEW s \in Servers, Ends(s)
    PROVE  Asked(s)' = << >>
<1>1. {n \in 1..(Done(s)') : Asks(stdin'[s][n])} = {}
  BY DEF Ends
<1> QED BY <1>1, AscendingEmpty DEF Asked

LEMMA AskedOthers ==
    ASSUME TypeInv, StreamInv, NEW s \in Servers, StepOf(s), NEW t \in Servers \ {s}
    PROVE  Asked(t)' = Asked(t) /\ Done(t)' = Done(t)
<1>1. pc'[t] = pc[t] /\ stdin'[t] = stdin[t] /\ taken'[t] = taken[t]
  BY OthersKeepStreams
<1> QED BY <1>1 DEF Asked, Done

\* The answers after a step are the answers before it, to the same lines,
\* and at most one more, to the next line.
LEMMA OldOrNew ==
    ASSUME TypeInv, StreamInv, OneAnswerPerRequest, NEW s \in Servers, StepOf(s),
           NEW t \in Servers, NEW k \in DOMAIN stdout'[t]
    PROVE  \/ /\ k \in DOMAIN stdout[t] /\ k \in DOMAIN Asked(t)
              /\ stdout'[t][k] = stdout[t][k]
              /\ Asked(t)'[k] = Asked(t)[k]
              /\ Question(t, k)' = Question(t, k)
           \/ /\ t = s /\ k = Len(stdout[s]) + 1
              /\ Question(s, k)' = stdin[s][Done(s) + 1]
              /\ Asked(s)'[k] = Done(s) + 1
              /\ \E a : Answers(s, a) /\ stdout'[s][k] = a
<1>0. /\ Asked(t) \in Seq(Nat) /\ Len(Asked(t)) \in Nat
      /\ DOMAIN Asked(t) = 1..Len(Asked(t))
      /\ \A j \in DOMAIN Asked(t) : Asked(t)[j] \in 1..Done(t)
      /\ Len(stdout[t]) = Len(Asked(t))
      /\ stdout[t] \in Seq(Range(stdout[t]))
      /\ DOMAIN stdout[t] = 1..Len(stdout[t])
  BY AskedFacts DEF StreamInv, OneAnswerPerRequest
<1>1. CASE t # s
  <2>1. Asked(t)' = Asked(t) /\ stdout'[t] = stdout[t] /\ stdin'[t] = stdin[t]
    BY <1>1, AskedOthers, OthersKeepStreams
  <2> QED BY <1>0, <2>1 DEF Question
<1>2. CASE t = s /\ Silent(s)
  <2>1. Asked(s)' = Asked(s) /\ stdout'[s] = stdout[s]
    BY <1>2, AskedSilent DEF Silent
  <2>2. k \in DOMAIN Asked(s) /\ stdin'[s][Asked(s)[k]] = stdin[s][Asked(s)[k]]
    BY <1>0, <1>2, <2>1 DEF Silent
  <2> QED BY <1>0, <1>2, <2>1, <2>2 DEF Question
<1>3. CASE t = s /\ Ends(s)
  BY <1>3 DEF Ends
<1>4. ASSUME t = s, NEW a, Answers(s, a)
      PROVE  \/ /\ k \in DOMAIN stdout[t] /\ k \in DOMAIN Asked(t)
                /\ stdout'[t][k] = stdout[t][k]
                /\ Asked(t)'[k] = Asked(t)[k]
                /\ Question(t, k)' = Question(t, k)
             \/ /\ k = Len(stdout[s]) + 1 /\ stdout'[s][k] = a
                /\ Asked(s)'[k] = Done(s) + 1
                /\ Question(s, k)' = stdin[s][Done(s) + 1]
  <2>1. /\ Asked(s)' = Append(Asked(s), Done(s) + 1)
        /\ stdout'[s] = Append(stdout[s], a) /\ stdin' = stdin
        /\ Done(s) \in Nat
    BY <1>4, AskedAnswers, AskedFacts DEF Answers
  <2>2. /\ DOMAIN stdout'[s] = 1..(Len(stdout[s]) + 1)
        /\ stdout'[s][Len(stdout[s]) + 1] = a
        /\ \A j \in 1..Len(stdout[s]) : stdout'[s][j] = stdout[s][j]
    BY <1>0, <1>4, <2>1, SaySeq
  <2>3. /\ Append(Asked(s), Done(s) + 1)[Len(Asked(s)) + 1] = Done(s) + 1
        /\ \A j \in 1..Len(Asked(s)) : Append(Asked(s), Done(s) + 1)[j] = Asked(s)[j]
    BY <1>0, <1>4, <2>1
  <2>4. CASE k \in 1..Len(stdout[s])
    BY <1>0, <1>4, <2>1, <2>2, <2>3, <2>4 DEF Question
  <2>5. CASE k = Len(stdout[s]) + 1
    BY <1>0, <1>4, <2>1, <2>2, <2>3, <2>5 DEF Question
  <2> QED BY <1>0, <1>4, <2>2, <2>4, <2>5
<1> QED BY <1>1, <1>2, <1>3, <1>4, StepShape

LEMMA OneAnswerNext ==
    ASSUME TypeInv, StreamInv, OneAnswerPerRequest, NEW s \in Servers, StepOf(s)
    PROVE  OneAnswerPerRequest'
<1> SUFFICES ASSUME NEW t \in Servers
             PROVE  /\ Len(stdout'[t]) = Len(Asked(t)')
                    /\ \A k \in DOMAIN Asked(t)' :
                           stdout'[t][k].id = AnswerId(stdin'[t][Asked(t)'[k]],
                                                       Asked(t)'[k])
  BY DEF OneAnswerPerRequest
<1>0. /\ Asked(t) \in Seq(Nat) /\ Len(Asked(t)) \in Nat
      /\ DOMAIN Asked(t) = 1..Len(Asked(t))
      /\ Len(stdout[t]) = Len(Asked(t)) /\ Done(t) \in Nat
      /\ stdout[t] \in Seq(Range(stdout[t]))
      /\ \A k \in DOMAIN Asked(t) :
             stdout[t][k].id = AnswerId(stdin[t][Asked(t)[k]], Asked(t)[k])
  BY AskedFacts DEF StreamInv, OneAnswerPerRequest
<1>1. Len(stdout'[t]) = Len(Asked(t)') /\ DOMAIN Asked(t)' = DOMAIN stdout'[t]
  <2>1. CASE t # s \/ Silent(s)
    <3>1. Asked(t)' = Asked(t) /\ stdout'[t] = stdout[t]
      BY <2>1, AskedOthers, AskedSilent, OthersKeepStreams DEF Silent
    <3> QED BY <1>0, <3>1
  <2>2. CASE t = s /\ Ends(s)
    BY <2>2, AskedEnds DEF Ends
  <2>3. ASSUME t = s, NEW a, Answers(s, a)
        PROVE  Len(stdout'[t]) = Len(Asked(t)') /\ DOMAIN Asked(t)' = DOMAIN stdout'[t]
    <3>1. /\ Asked(s)' = Append(Asked(s), Done(s) + 1)
          /\ stdout'[s] = Append(stdout[s], a)
      BY <2>3, AskedAnswers DEF Answers
    <3>2. /\ DOMAIN stdout'[s] = 1..(Len(stdout[s]) + 1)
          /\ Len(stdout'[s]) = Len(stdout[s]) + 1
      BY <1>0, <2>3, <3>1, SaySeq
    <3>3. /\ Len(Append(Asked(s), Done(s) + 1)) = Len(Asked(s)) + 1
          /\ DOMAIN Append(Asked(s), Done(s) + 1) = 1..(Len(Asked(s)) + 1)
      BY <1>0, <2>3
    <3> QED BY <1>0, <2>3, <3>1, <3>2, <3>3
  <2> QED BY <2>1, <2>2, <2>3, StepShape
<1>2. ASSUME NEW k \in DOMAIN stdout'[t]
      PROVE  stdout'[t][k].id = AnswerId(stdin'[t][Asked(t)'[k]], Asked(t)'[k])
  <2>1. CASE /\ k \in DOMAIN stdout[t] /\ k \in DOMAIN Asked(t)
             /\ stdout'[t][k] = stdout[t][k]
             /\ Asked(t)'[k] = Asked(t)[k]
             /\ Question(t, k)' = Question(t, k)
    BY <1>0, <2>1 DEF Question
  <2>2. CASE /\ t = s /\ Question(s, k)' = stdin[s][Done(s) + 1]
             /\ Asked(s)'[k] = Done(s) + 1
             /\ \E a : Answers(s, a) /\ stdout'[s][k] = a
    BY <2>2 DEF Question, Answers
  <2> QED BY <2>1, <2>2, OldOrNew
<1> QED BY <1>1, <1>2

\* Whatever the callers write, however far ahead, and whatever other
\* processes do in between: every line that asks has one answer, in order
\* and under its id, and no other line has one.
THEOREM EveryLineAnswered == ServerSpec => []OneAnswerPerRequest
<1>1. ServerInit => OneAnswerPerRequest
  <2> SUFFICES ASSUME ServerInit, NEW s \in Servers
               PROVE  Asked(s) = << >> /\ stdout[s] = << >>
    BY DEF OneAnswerPerRequest
  <2>1. {n \in 1..Done(s) : Asks(stdin[s][n])} = {}
    BY DEF ServerInit, Init, Done, Steps
  <2> QED BY <2>1, AscendingEmpty DEF Asked, ServerInit
<1>2. TypeInv /\ StreamInv /\ OneAnswerPerRequest /\ [ServerNext]_allVars
          => OneAnswerPerRequest'
  <2> SUFFICES ASSUME TypeInv, StreamInv, OneAnswerPerRequest, [ServerNext]_allVars
               PROVE  OneAnswerPerRequest'
    OBVIOUS
  <2>1. CASE UNCHANGED allVars
    BY <2>1 DEF allVars, vars, serverVars, OneAnswerPerRequest, Asked, Done
  <2> QED BY <2>1, OneAnswerNext DEF ServerNext, StepOf
<1> QED BY <1>1, <1>2, ServerTypeInvariant, StreamInvariant, PTL DEF ServerSpec

-----------------------------------------------------------------------------
(* What the answers tell of.                                               *)

\* The table is only ever appended to.
LEMMA RowsGrow ==
    ASSUME TypeInv, NEW s \in Servers, StepOf(s)
    PROVE  /\ Len(rows) \in Nat /\ Len(rows') \in Nat /\ Len(rows) <= Len(rows')
           /\ DOMAIN rows = 1..Len(rows) /\ DOMAIN rows' = 1..Len(rows')
           /\ \A n \in DOMAIN rows : n \in DOMAIN rows' /\ rows'[n] = rows[n]
<1>1. rows \in Seq(RowType)
  BY DEF TypeInv, TypeOK
<1>2. CASE Insert(s)
  BY <1>2, InsertAppends
<1>3. CASE ~Insert(s)
  <2>1. rows' = rows
    BY <1>3, StepProjects, OnlyInsertWrites DEF vars, OnlyFailures
  <2> QED BY <1>1, <2>1
<1> QED BY <1>2, <1>3

\* The three ways an answer comes about.
SaidAtOnce(s, line, now, a) ==
    /\ Reads(s, line) /\ Asks(line) /\ ~Submission(line)
    /\ a = AnswerTo(s, line, taken[s] + 1, now)
    /\ line = stdin[s][Done(s) + 1] /\ Take(s) /\ UNCHANGED vars

SaidReadFails(s, a) ==
    /\ a.form = "tool-error" /\ a.body = None /\ a.tool \in StoreTools
    /\ Take(s) /\ UNCHANGED <<rows, acct, pc, call>>
    /\ pc[s] = "idle"

SaidSubmission(s, a) ==
    /\ AnswerSubmission(s) /\ a = SubmissionAnswer(s)
    /\ Done(s) + 1 = taken[s] /\ ServesItsLine(s)

LEMMA AnswerShape ==
    ASSUME TypeInv, StreamInv, NEW s \in Servers, StepOf(s), NEW a, Answers(s, a)
    PROVE  \/ \E line \in Lines, now \in Times : SaidAtOnce(s, line, now, a)
           \/ SaidReadFails(s, a) \/ SaidSubmission(s, a)
<1>0. /\ stdout[s] \in Seq(Range(stdout[s])) /\ DOMAIN stdout = Servers
      /\ stdout'[s] = Append(stdout[s], a)
  BY DEF StreamInv, Answers
<1>1. /\ stdout'[s] # stdout[s] /\ stdout'[s] # << >>
      /\ \A b : Append(stdout[s], b) = Append(stdout[s], a) => a = b
  <2>1. /\ Len(stdout'[s]) = Len(stdout[s]) + 1 /\ Len(stdout[s]) \in Nat
        /\ Append(stdout[s], a)[Len(stdout[s]) + 1] = a
    BY <1>0, SaySeq
  <2>2. ASSUME NEW b PROVE Append(stdout[s], b)[Len(stdout[s]) + 1] = b
    BY <1>0, SaySeq
  <2>3. Len(<< >>) = 0
    OBVIOUS
  <2> QED BY <2>1, <2>2, <2>3
<1>2. \A b : Say(s, b) => a = b
  BY <1>0, <1>1 DEF Say
<1>3. AnswerAtOnce(s) \/ ReadFails(s) \/ AnswerSubmission(s)
  BY <1>0, <1>1 DEF StepOf, ProcessStep, Write, Ignore, Undecodable,
     StartSubmission, Serve, Die, Start, NewStreams, serverVars
<1>4. CASE AnswerAtOnce(s)
  <2>1. PICK line \in Lines, now \in Times :
            /\ Reads(s, line) /\ Asks(line) /\ ~Submission(line)
            /\ Say(s, AnswerTo(s, line, taken[s] + 1, now))
    BY <1>4 DEF AnswerAtOnce
  <2>2. Take(s) /\ UNCHANGED vars
    BY <1>4 DEF AnswerAtOnce
  <2>3. line = stdin[s][Done(s) + 1]
    BY <2>1 DEF Reads, Done, Steps
  <2> QED BY <1>2, <2>1, <2>2, <2>3 DEF SaidAtOnce
<1>5. CASE ReadFails(s)
  <2>1. PICK line \in Lines :
            /\ Reads(s, line) /\ line.tool \in StoreTools
            /\ Say(s, Envelope(AnswerId(line, taken[s] + 1), "tool-error",
                               line.tool, None))
    BY <1>5 DEF ReadFails
  <2>2. Take(s) /\ UNCHANGED <<rows, acct, pc, call>> /\ pc[s] = "idle"
    BY <1>5, <2>1 DEF ReadFails, Reads
  <2> QED BY <1>2, <2>1, <2>2 DEF SaidReadFails, Envelope
<1>6. CASE AnswerSubmission(s)
  BY <1>2, <1>6, AnswerSubmissionShape DEF AnswerSubmission, SaidSubmission
<1> QED BY <1>3, <1>4, <1>5, <1>6

LEMMA MinOfTwo ==
    ASSUME NEW a \in Int, NEW b \in Int
    PROVE  Min({a, b}) = IF a <= b THEN a ELSE b
<1> DEFINE IsMin(x) == x \in {a, b} /\ \A y \in {a, b} : x <= y
<1>1. \E x : IsMin(x)
  <2>1. IsMin(a) \/ IsMin(b)
    OBVIOUS
  <2> QED BY <2>1
<1>2. Min({a, b}) = CHOOSE x : IsMin(x)
  BY DEF Min
<1>3. IsMin(Min({a, b}))
  BY <1>1, <1>2
<1> QED BY <1>3

\* A listing has the records of the last rows.
LEMMA ListRecentRows ==
    ASSUME NEW table \in Seq(RowType), NEW limit \in Nat
    PROVE  LET r == ListRecent(table, limit)
               l == IF limit <= Len(table) THEN limit ELSE Len(table)
           IN  /\ l \in Nat /\ DOMAIN r = 1..l /\ Len(r) = l
               /\ \A k \in 1..l : /\ Len(table) + 1 - k \in DOMAIN table
                                  /\ r[k] = table[Len(table) + 1 - k].rec
<1> DEFINE l == IF limit <= Len(table) THEN limit ELSE Len(table)
<1>1. Len(table) \in Nat /\ DOMAIN table = 1..Len(table)
  OBVIOUS
<1>2. Min({limit, Len(table)}) = l
  BY <1>1, MinOfTwo
<1>3. ListRecent(table, limit) = [k \in 1..l |-> table[Len(table) + 1 - k].rec]
  BY <1>2 DEF ListRecent
<1> QED BY <1>1, <1>3

LEMMA LimitNat ==
    ASSUME NEW args \in ArgumentsType, NEW default \in Int
    PROVE  Limit(args, default) \in Nat /\ Limit(args, default) >= 1
<1> DEFINE l == IF args.limit = None THEN default ELSE args.limit
<1>1. l \in Int
  BY DEF ArgumentsType, Option
<1> HIDE DEF l
<1>2. Max({1, l}) \in {1, l} /\ Max({1, l}) >= 1
  <2> DEFINE IsMax(x) == x \in {1, l} /\ \A y \in {1, l} : x >= y
  <2>1. \E x : IsMax(x)
    <3>1. IsMax(1) \/ IsMax(l)
      BY <1>1
    <3> QED BY <3>1
  <2>2. Max({1, l}) = CHOOSE x : IsMax(x)
    BY DEF Max
  <2>3. IsMax(Max({1, l}))
    BY <2>1, <2>2
  <2> QED BY <1>1, <2>3
<1>3. Clamp(l) = IF MaxListed <= Max({1, l}) THEN MaxListed ELSE Max({1, l})
  BY <1>1, <1>2, MinOfTwo, ListingAssumption DEF Clamp
<1>4. Limit(args, default) = Clamp(l)
  BY DEF Limit, l
<1> QED BY <1>1, <1>2, <1>3, <1>4, ListingAssumption

\* A scan for open orders finds the open ones among the records listed.
LEMMA OpenOrdersRows ==
    ASSUME NEW table \in Seq(RowType), NEW limit \in Nat
    PROVE  LET recent == ListRecent(table, limit)
               open == OpenOrders(table, limit)
           IN  /\ \A j \in DOMAIN open :
                      \E k \in DOMAIN recent : /\ open[j] = recent[k]
                                               /\ recent[k].order # None
                                               /\ ~IsTerminal(recent[k].order)
               /\ \A k \in DOMAIN recent :
                      recent[k].order # None /\ ~IsTerminal(recent[k].order) =>
                          \E j \in DOMAIN open : open[j] = recent[k]
<1> DEFINE recent == ListRecent(table, limit)
           S == {k \in DOMAIN recent : /\ recent[k].order # None
                                       /\ ~IsTerminal(recent[k].order)}
           q == Ascending(S)
           open == OpenOrders(table, limit)
<1>1. PICK l \in Nat : DOMAIN recent = 1..l
  BY ListRecentRows
<1>2. open = [k \in DOMAIN q |-> recent[q[k]]]
  BY DEF OpenOrders
<1>3. S \in SUBSET (1..l)
  BY <1>1
<1> HIDE DEF recent, open
<1>4. (\A j \in DOMAIN q : q[j] \in S) /\ (\A k \in S : \E j \in DOMAIN q : q[j] = k)
  <2> HIDE DEF S
  <2> QED BY <1>1, <1>3, AscendingLists DEF IsAscending
<1> HIDE DEF q
<1>5. \A j \in DOMAIN open : /\ open[j] = recent[q[j]] /\ q[j] \in DOMAIN recent
                             /\ recent[q[j]].order # None
                             /\ ~IsTerminal(recent[q[j]].order)
  BY <1>2, <1>4
<1>6. ASSUME NEW k \in DOMAIN recent, recent[k].order # None,
             ~IsTerminal(recent[k].order)
      PROVE  \E j \in DOMAIN open : open[j] = recent[k]
  <2>1. PICK j \in DOMAIN q : q[j] = k
    BY <1>4, <1>6
  <2> QED BY <1>2, <2>1
<1> QED BY <1>5, <1>6 DEF recent, open

\* The line that is read next has arguments.
LEMMA ArgumentsTyped ==
    ASSUME NEW line \in Lines
    PROVE  line.args \in ArgumentsType
BY LinesAssumption DEF LineType

\* A listing is made from the table as it is.
LEMMA NewListing ==
    ASSUME TypeInv, StreamInv, NEW s \in Servers, StepOf(s), NEW a, Answers(s, a),
           a.tool \in Listings, a.form = "result"
    PROVE  /\ stdin[s][Done(s) + 1].args \in ArgumentsType
           /\ a.body = ListingOf(a.tool, stdin[s][Done(s) + 1].args, rows)
<1>1. ~SaidReadFails(s, a) /\ ~SaidSubmission(s, a)
  BY DEF SaidReadFails, SaidSubmission, SubmissionAnswer, Envelope, Listings
<1>2. PICK line \in Lines, now \in Times : SaidAtOnce(s, line, now, a)
  BY <1>1, AnswerShape
<1>3. line = stdin[s][Done(s) + 1] /\ a = AnswerTo(s, line, taken[s] + 1, now)
  BY <1>2 DEF SaidAtOnce
<1>4. a.tool = line.tool
      /\ a.body = CallTool(line.tool, line.args, rows, acct[s], now).body
  BY <1>3 DEF AnswerTo, Envelope, Listings
<1>5. line.tool \in Listings
  BY <1>4
<1> QED BY <1>3, <1>4, <1>5, ArgumentsTyped DEF CallTool, Answered, Listings,
        ListingOf

LEMMA RecentTells ==
    ASSUME TypeInv, NEW limit \in Nat
    PROVE  /\ \A r \in Range(ListRecent(rows, limit)) :
                  RowTells(Decision(r.key, r.outcome, r.order), rows)
           /\ \A r \in Range(OpenOrders(rows, limit)) :
                  RowTells(Decision(r.key, r.outcome, r.order), rows)
<1> DEFINE recent == ListRecent(rows, limit)
           open == OpenOrders(rows, limit)
<1>0. rows \in Seq(RowType)
  BY DEF TypeInv, TypeOK
<1>1. \A k \in DOMAIN recent : Len(rows) + 1 - k \in DOMAIN rows
                               /\ recent[k] = rows[Len(rows) + 1 - k].rec
  BY <1>0, ListRecentRows
<1>2. \A j \in DOMAIN open : \E k \in DOMAIN recent : open[j] = recent[k]
  BY <1>0, OpenOrdersRows
<1> HIDE DEF recent, open
<1>3. \A k \in DOMAIN recent :
          RowTells(Decision(recent[k].key, recent[k].outcome, recent[k].order), rows)
  BY <1>1 DEF RowTells
<1>4. \A j \in DOMAIN open :
          RowTells(Decision(open[j].key, open[j].outcome, open[j].order), rows)
  BY <1>2, <1>3
<1> QED BY <1>3, <1>4 DEF Range, recent, open

\* What a new answer tells of is in the table.
LEMMA NewTells ==
    ASSUME TypeInv, StreamInv, ReplyInv, NEW s \in Servers, StepOf(s),
           NEW a, Answers(s, a), NEW d \in Tells(a, stdin[s][Done(s) + 1].args)
    PROVE  RowTells(d, rows)
<1> DEFINE args == stdin[s][Done(s) + 1].args
<1>0. rows \in Seq(RowType)
  BY DEF TypeInv, TypeOK
<1>1. CASE a.tool \in Listings /\ a.form = "result"
  <2>1. \E limit \in Nat : \/ a.body = ListRecent(rows, limit)
                           \/ a.body = OpenOrders(rows, limit)
    <3>1. DefaultListed \in Int /\ DefaultScanned \in Int
      BY ListingAssumption
    <3> QED BY <1>1, <3>1, NewListing, LimitNat DEF ListingOf
  <2>2. \A r \in Range(a.body) : RowTells(Decision(r.key, r.outcome, r.order), rows)
    BY <2>1, RecentTells
  <2>3. PICK r \in Range(a.body) : d = Decision(r.key, r.outcome, r.order)
    <3>1. Tells(a, args) = DecisionsIn(a.body)
      BY <1>1 DEF Tells, Listings
    <3>2. d \in DecisionsIn(a.body)
      BY <3>1
    <3> QED BY <3>2 DEF DecisionsIn
  <2> QED BY <2>2, <2>3
<1>2. CASE a.tool = "replay-decision" /\ a.form = "result"
  <2>1. d = Decision(args.key, a.body.outcome, a.body.order)
    BY <1>2 DEF Tells, Listings
  <2>2. ~SaidReadFails(s, a) /\ ~SaidSubmission(s, a)
    BY <1>2 DEF SaidReadFails, SaidSubmission, SubmissionAnswer, Envelope
  <2>3. PICK line \in Lines, now \in Times : SaidAtOnce(s, line, now, a)
    BY <2>2, AnswerShape
  <2>4. line.args = args /\ a = AnswerTo(s, line, taken[s] + 1, now)
    BY <2>3 DEF SaidAtOnce
  <2> DEFINE r == CallTool("replay-decision", args, rows, acct[s], now)
  <2>5. a.body = r.body /\ ~r.failed
    BY <1>2, <2>4 DEF AnswerTo, Envelope
  <2>6. r = ReplayDecision(rows, args)
    BY DEF CallTool
  <2>7. Recorded(rows, args.key) /\ a.body = FindByIdempotencyKey(rows, args.key)
    BY <2>5, <2>6 DEF ReplayDecision, Answered, Failed, Get
  <2>8. PICK n \in DOMAIN rows : a.body = rows[n].rec /\ rows[n].rec.key = args.key
    BY <1>0, <2>7, FoundRecord
  <2> QED BY <2>1, <2>8 DEF RowTells
<1>3. CASE /\ a.tool = "authorize-and-submit-paper-order" /\ a.body # None
  <2>1. d = Decision(args.intent.key, a.body.outcome, a.body.order)
    BY <1>3 DEF Tells, Listings
  <2>2. ~SaidReadFails(s, a)
    BY <1>3 DEF SaidReadFails
  <2>3. ASSUME NEW line \in Lines, NEW now \in Times, SaidAtOnce(s, line, now, a)
        PROVE  FALSE
    <3>1. a = AnswerTo(s, line, taken[s] + 1, now)
      BY <2>3 DEF SaidAtOnce
    <3>2. a.body = CallTool("authorize-and-submit-paper-order", line.args, rows,
                            acct[s], now).body
      BY <1>3, <3>1 DEF AnswerTo, Envelope
    <3> QED BY <1>3, <3>2 DEF CallTool, Failed
  <2>4. SaidSubmission(s, a)
    BY <2>2, <2>3, AnswerShape
  <2>5. /\ pc[s] = "reply" /\ call[s].outcome # None
        /\ a.body.outcome = call[s].outcome /\ a.body.order = call[s].order
        /\ call[s].intent = args.intent
    BY <1>3, <2>4 DEF SaidSubmission, AnswerSubmission, Reply, At, SubmissionAnswer,
       Envelope, ServesItsLine
  <2>6. PICK n \in DOMAIN rows : AnswersWith(call[s], rows[n])
    BY <2>5 DEF ReplyInv, AnswerRecorded
  <2> QED BY <2>1, <2>5, <2>6 DEF RowTells, AnswersWith
<1>4. \/ a.tool \in Listings /\ a.form = "result"
      \/ a.tool = "replay-decision" /\ a.form = "result"
      \/ a.tool = "authorize-and-submit-paper-order" /\ a.body # None
  <2>1. d \in Tells(a, args)
    OBVIOUS
  <2> QED BY <2>1 DEF Tells
<1> QED BY <1>1, <1>2, <1>3, <1>4

LEMMA UnchangedAnswers ==
    ASSUME UNCHANGED allVars
    PROVE  /\ rows' = rows /\ stdout' = stdout
           /\ \A t \in Servers : \A k : /\ Question(t, k)' = Question(t, k)
                                       /\ Told(t, k)' = Told(t, k)
<1>1. rows' = rows /\ stdout' = stdout /\ stdin' = stdin /\ taken' = taken /\ pc' = pc
  BY DEF allVars, vars, serverVars
<1>2. \A t \in Servers : Asked(t)' = Asked(t)
  BY <1>1 DEF Asked, Done
<1>3. \A t \in Servers : \A k : Question(t, k)' = Question(t, k)
  BY <1>1, <1>2 DEF Question
<1> QED BY <1>1, <1>3 DEF Told

LEMMA EveryAnswerNext ==
    ASSUME TypeInv, StreamInv, ReplyInv, OneAnswerPerRequest, EveryAnswerRecorded,
           NEW s \in Servers, StepOf(s)
    PROVE  EveryAnswerRecorded'
<1>1. \A d : RowTells(d, rows) => RowTells(d, rows')
  BY RowsGrow DEF RowTells
<1>2. ASSUME NEW t \in Servers, NEW k \in DOMAIN stdout'[t], NEW d \in Told(t, k)'
      PROVE  RowTells(d, rows')
  <2>1. CASE /\ k \in DOMAIN stdout[t] /\ stdout'[t][k] = stdout[t][k]
             /\ Question(t, k)' = Question(t, k)
    <3>1. d \in Told(t, k)
      BY <1>2, <2>1 DEF Told
    <3>2. RowTells(d, rows)
      BY <2>1, <3>1 DEF EveryAnswerRecorded, RowTells
    <3> QED BY <1>1, <3>2
  <2>2. ASSUME NEW a, t = s, Question(s, k)' = stdin[s][Done(s) + 1],
               Answers(s, a), stdout'[s][k] = a
        PROVE  RowTells(d, rows')
    <3>1. d \in Tells(a, stdin[s][Done(s) + 1].args)
      BY <1>2, <2>2 DEF Told
    <3>2. RowTells(d, rows)
      BY <2>2, <3>1, NewTells
    <3> QED BY <1>1, <3>2
  <2> QED BY <2>1, <2>2, OldOrNew
<1> QED BY <1>2 DEF EveryAnswerRecorded, RowTells

\* Whichever tool told a caller of a decision, and whichever process made
\* it: it is the recorded one, still, of the key the caller takes it for.
THEOREM AnswersAreRecorded == ServerSpec => []EveryAnswerRecorded
<1>1. ServerInit => EveryAnswerRecorded
  BY DEF ServerInit, EveryAnswerRecorded
<1>2. TypeInv /\ StreamInv /\ ReplyInv /\ OneAnswerPerRequest
          /\ EveryAnswerRecorded /\ [ServerNext]_allVars => EveryAnswerRecorded'
  <2> SUFFICES ASSUME TypeInv, StreamInv, ReplyInv, OneAnswerPerRequest,
                      EveryAnswerRecorded, [ServerNext]_allVars
               PROVE  EveryAnswerRecorded'
    OBVIOUS
  <2>1. CASE UNCHANGED allVars
    BY <2>1, UnchangedAnswers DEF EveryAnswerRecorded
  <2> QED BY <2>1, EveryAnswerNext DEF ServerNext, StepOf
<1> QED BY <1>1, <1>2, ServerTypeInvariant, StreamInvariant, ServerReplyInvariant,
        EveryLineAnswered, PTL DEF ServerSpec

-----------------------------------------------------------------------------
(* Notifications.                                                          *)

\* An account moves in a step of its own process, at a step of a call or at
\* the end of the process.
LEMMA AccountMoves ==
    ASSUME TypeInv, NEW s \in Servers, StepOf(s), NEW t \in Servers,
           acct'[t] # acct[t]
    PROVE  t = s /\ (pc[s] \in Steps \/ pc'[s] = "down")
<1>0. acct \in [Servers -> AccountType]
      /\ pc \in [Servers -> Steps \cup {"idle", "down"}]
  BY DEF TypeInv, TypeOK
<1>1. ReserveRisk(s) \/ FillOrder(s) \/ Release(s) \/ Crash(s)
  BY StepProjects DEF ServerStep, Submit, FindHit, FindMiss, Refuse, Accept,
     RiskReject, LeaveOpen, ReadPrev, Insert, InsertConflict, StoreFailure, Reply,
     Restart, vars, OnlyFailures
<1>2. CASE ReserveRisk(s) \/ FillOrder(s) \/ Release(s)
  <2>1. pc[s] \in Steps
    BY <1>2 DEF ReserveRisk, FillOrder, Release, At, Steps
  <2>2. t = s
    BY <1>0, <1>2 DEF ReserveRisk, FillOrder, Release
  <2> QED BY <2>1, <2>2
<1>3. CASE Crash(s)
  BY <1>0, <1>3 DEF Crash, FreshAccount
<1> QED BY <1>1, <1>2, <1>3

\* A message nobody asks to be answered moves no account and adds no row.
THEOREM NotificationsAreInert == ServerSpec => NotificationsDoNothing
<1> DEFINE Inert ==
        \A s \in Servers : pc'[s] # "down" =>
            /\ acct'[s] # acct[s] => Asks(stdin[s][taken[s]])
            /\ pc[s] = "insert" /\ rows' # rows /\ pc'[s] # "insert" =>
                   Asks(stdin[s][taken[s]])
<1>1. TypeInv /\ StreamInv /\ [ServerNext]_allVars => [Inert]_allVars
  <2> SUFFICES ASSUME TypeInv, StreamInv, ServerNext PROVE Inert
    OBVIOUS
  <2>1. PICK s \in Servers : StepOf(s)
    BY DEF ServerNext, StepOf
  <2>2. \A t \in Servers : pc[t] \in Steps => Asks(stdin[t][taken[t]])
    BY DEF StreamInv, ServesItsLine
  <2>3. ASSUME NEW t \in Servers, pc'[t] # "down", acct'[t] # acct[t]
        PROVE  Asks(stdin[t][taken[t]])
    BY <2>1, <2>2, <2>3, AccountMoves
  <2>4. "insert" \in Steps
    BY DEF Steps
  <2> QED BY <2>2, <2>3, <2>4
<1> QED BY <1>1, ServerTypeInvariant, StreamInvariant, PTL
        DEF ServerSpec, NotificationsDoNothing

-----------------------------------------------------------------------------
(* Listings.                                                               *)

LEMMA OrderNext ==
    ASSUME TypeInv, OrderInv, NEW s \in Servers,
           Submit(s) \/ ServerStep(s) \/ Crash(s) \/ Restart(s)
    PROVE  OrderInv'
<1> DEFINE At5 == {"reserve", "fill", "release", "read", "insert"}
<1>0. /\ pc \in [Servers -> Steps \cup {"idle", "down"}]
      /\ call \in [Servers -> CallType] /\ call[s] \in CallType
      /\ pc[s] \in {"reserve", "fill", "release"} => call[s].order \in OrderType
      /\ pc[s] = "gates" => call[s].order = None
  BY DEF TypeInv, TypeOK, CallWellFormed, StepNeeds
<1>1. ASSUME NEW n \in DOMAIN rows', rows'[n].rec.order # None
      PROVE  /\ rows'[n].rec.order.key = rows'[n].rec.key
             /\ rows'[n].rec.order.state \in RecordedStates
  <2>1. CASE Insert(s)
    <3>1. pc[s] = "insert"
      BY <2>1 DEF Insert, At
    <3>2. CASE n \in DOMAIN rows
      BY <1>1, <2>1, <3>2, InsertAppends DEF OrderInv
    <3>3. CASE n \notin DOMAIN rows
      <4>1. rows'[n].rec = RecordOf(s)
        <5>1. n = Len(rows) + 1
          BY <2>1, <3>3, InsertAppends
        <5>2. rows'[n] = NewRow(RecordOf(s), call[s].prev)
          BY <2>1, <5>1, InsertAppends
        <5> QED BY <5>2 DEF NewRow
      <4> QED BY <1>1, <3>1, <4>1 DEF RecordOf, OrderInv
    <3> QED BY <3>2, <3>3
  <2>2. CASE ~Insert(s)
    <3>1. rows' = rows
      BY <2>2, OnlyInsertWrites
    <3> QED BY <1>1, <3>1 DEF OrderInv
  <2> QED BY <2>1, <2>2
<1>2. /\ pc'[s] \in At5 /\ call'[s].order # None => call'[s].order.key = Key(s)'
      /\ pc'[s] = "fill" => call'[s].order.state = "acknowledged"
      /\ pc'[s] \in {"release", "read", "insert"} /\ call'[s].order # None =>
             call'[s].order.state \in RecordedStates
  <2>1. CASE Submit(s) \/ FindHit(s) \/ FindMiss(s) \/ Insert(s) \/ InsertConflict(s)
             \/ StoreFailure(s) \/ Reply(s) \/ Crash(s) \/ Restart(s)
    <3>1. pc'[s] \notin At5
      BY <1>0, <2>1 DEF Submit, FindHit, FindMiss, Insert, InsertConflict,
         StoreFailure, Reply, Crash, Restart, At
    <3> QED BY <3>1
  <2>2. CASE Refuse(s)
    <3>1. call'[s].order = None
      BY <1>0, <2>2 DEF Refuse, At, CallType
    <3>2. pc'[s] = "read"
      BY <1>0, <2>2 DEF Refuse, At
    <3> QED BY <3>1, <3>2
  <2>3. CASE Accept(s)
    <3>1. /\ call'[s].order = NewOrder(call[s].intent)
          /\ call'[s].intent = call[s].intent /\ pc'[s] = "reserve"
      BY <1>0, <2>3 DEF Accept, At, CallType
    <3>2. NewOrder(call[s].intent).key = Key(s)
      BY DEF NewOrder, Key
    <3> QED BY <3>1, <3>2 DEF Key
  <2>4. CASE RiskReject(s) \/ ReserveRisk(s)
    <3>1. pc[s] = "reserve" /\ call[s].order # None /\ call[s].order \in OrderType
          /\ pc'[s] = (IF RiskReject(s) THEN "read" ELSE "fill")
      BY <1>0, <2>4, NoOrderAssumption DEF RiskReject, ReserveRisk, At
    <3>2. /\ call'[s].order.key = call[s].order.key
          /\ call'[s].intent = call[s].intent
          /\ RiskReject(s) => call'[s].order.state = "rejected"
          /\ ~RiskReject(s) => call'[s].order.state = "acknowledged"
      BY <1>0, <2>4, <3>1 DEF RiskReject, ReserveRisk, CallType, OrderType
    <3> QED BY <3>1, <3>2 DEF OrderInv, Key, RecordedStates
  <2>5. CASE FillOrder(s)
    <3> DEFINE o == call[s].order
               p == SimulateFill(o)
    <3>1. /\ pc[s] = "fill" /\ pc'[s] = "release" /\ o \in OrderType /\ o # None
          /\ o.filled = 0 /\ o.qty \in Raw /\ p \in Raw
      BY <1>0, <2>5, SimulateFillType, NoOrderAssumption
         DEF FillOrder, At, TypeInv, CallWellFormed, StepNeeds, OrderType, Option
    <3>2. call'[s].order = OrderWithFill(o, o.qty, p)
          /\ call'[s].intent = call[s].intent
      BY <1>0, <2>5 DEF FillOrder, CallType
    <3>3. OrderWithFill(o, o.qty, p).key = o.key
      BY <3>1, OrderWithFillType
    <3>4. OrderWithFill(o, o.qty, p).state = "filled"
      <4>1. AddOr(o.filled, o.qty, o.filled) = o.qty
        BY <3>1, AddOrZero
      <4>2. o.qty \in Int
        BY <3>1 DEF Raw
      <4> HIDE DEF p
      <4> QED BY <3>1, <4>1, <4>2 DEF OrderWithFill, OrderType
    <3> QED BY <3>1, <3>2, <3>3, <3>4 DEF OrderInv, Key, RecordedStates
  <2>6. CASE LeaveOpen(s) \/ Release(s) \/ ReadPrev(s)
    <3>1. /\ call'[s].order = call[s].order /\ call'[s].intent = call[s].intent
          /\ pc[s] \in {"fill", "release", "read"}
          /\ pc'[s] \in {"release", "read", "insert"}
      BY <1>0, <2>6 DEF LeaveOpen, Release, ReadPrev, At, CallType
    <3> QED BY <3>1 DEF OrderInv, Key, RecordedStates
  <2> QED BY <2>1, <2>2, <2>3, <2>4, <2>5, <2>6 DEF ServerStep
<1>3. \A t \in Servers \ {s} : pc'[t] = pc[t] /\ call'[t] = call[t]
  BY OthersKeepCall
<1> QED BY <1>1, <1>2, <1>3 DEF OrderInv, Key

LEMMA OrderInvariant == ServerSpec => []OrderInv
<1>1. ServerInit => OrderInv
  BY DEF ServerInit, Init, OrderInv
<1>2. TypeInv /\ OrderInv /\ [ServerNext]_allVars => OrderInv'
  <2> SUFFICES ASSUME TypeInv, OrderInv, [ServerNext]_allVars PROVE OrderInv'
    OBVIOUS
  <2>1. CASE OnlyFailures \/ UNCHANGED vars
    BY <2>1 DEF OnlyFailures, vars, OrderInv, Key
  <2> QED BY <2>1, ServerProjects, OrderNext DEF Next
<1> QED BY <1>1, <1>2, ServerTypeInvariant, PTL DEF ServerSpec

LEMMA EarlierRows ==
    ASSUME TypeInv, NEW last \in 0..Len(rows)
    PROVE  /\ Earlier(last) \in Seq(RowType) /\ Len(Earlier(last)) = last
           /\ DOMAIN Earlier(last) = 1..last /\ last \in Nat
           /\ \A n \in 1..last : n \in DOMAIN rows /\ Earlier(last)[n] = rows[n]
<1>1. rows \in Seq(RowType) /\ Len(rows) \in Nat /\ DOMAIN rows = 1..Len(rows)
  BY DEF TypeInv, TypeOK
<1>2. \A n \in 1..last : n \in DOMAIN rows /\ rows[n] \in RowType
  BY <1>1
<1>3. Earlier(last) = [n \in 1..last |-> rows[n]]
  BY <1>1 DEF Earlier
<1> QED BY <1>1, <1>2, <1>3

\* The table as it was keeps being what it was.
LEMMA EarlierStays ==
    ASSUME TypeInv, NEW s \in Servers, StepOf(s), NEW last \in 0..Len(rows)
    PROVE  last \in 0..Len(rows') /\ Earlier(last)' = Earlier(last)
<1>0. rows \in Seq(RowType) /\ Len(rows) \in Nat
  BY DEF TypeInv, TypeOK
<1>1. /\ Earlier(last) = [n \in 1..last |-> rows[n]]
      /\ Earlier(last)' = [n \in 1..last |-> rows'[n]]
  BY <1>0, RowsGrow DEF Earlier
<1>2. \A n \in 1..last : n \in DOMAIN rows /\ rows'[n] = rows[n]
  BY <1>0, RowsGrow
<1>3. [n \in 1..last |-> rows'[n]] = [n \in 1..last |-> rows[n]]
  BY <1>2
<1> QED BY <1>0, <1>1, <1>2, <1>3, RowsGrow

LEMMA ListingNext ==
    ASSUME TypeInv, StreamInv, StreamInv', OneAnswerPerRequest, EveryAnswerRecorded,
           ListingInv, NEW s \in Servers, StepOf(s)
    PROVE  ListingInv'
<1> SUFFICES ASSUME NEW t \in Servers, NEW k \in DOMAIN stdout'[t],
                    stdout'[t][k].tool \in Listings, stdout'[t][k].form = "result"
             PROVE  \E last \in 0..Len(rows') : MadeFrom(t, k, Earlier(last))'
  BY DEF ListingInv
<1>0. /\ rows \in Seq(RowType) /\ Len(rows) \in Nat /\ DOMAIN rows = 1..Len(rows)
      /\ stdout[t] \in Seq(Range(stdout[t])) /\ DOMAIN stdout[t] = 1..Len(stdout[t])
      /\ stdout'[t] \in Seq(Range(stdout'[t])) /\ DOMAIN stdout'[t] = 1..Len(stdout'[t])
      /\ Len(stdout[t]) \in Nat /\ Len(stdout'[t]) \in Nat
  BY DEF TypeInv, TypeOK, StreamInv
<1>1. ASSUME NEW j \in 1..(k - 1), k <= Len(stdout[t]) + 1
      PROVE  j \in DOMAIN stdout[t] /\ Told(t, j)' = Told(t, j)
  <2>1. j \in DOMAIN stdout[t] /\ j \in DOMAIN stdout'[t] /\ j # Len(stdout[t]) + 1
    BY <1>0, <1>1
  <2>2. stdout'[t][j] = stdout[t][j] /\ Question(t, j)' = Question(t, j)
    BY <2>1, OldOrNew
  <2> QED BY <2>1, <2>2 DEF Told
<1>2. CASE /\ k \in DOMAIN stdout[t] /\ stdout'[t][k] = stdout[t][k]
           /\ Question(t, k)' = Question(t, k)
  <2>1. PICK last \in 0..Len(rows) : MadeFrom(t, k, Earlier(last))
    BY <1>2 DEF ListingInv
  <2>2. last \in 0..Len(rows') /\ Earlier(last)' = Earlier(last)
    BY EarlierStays
  <2>3. \A j \in 1..(k - 1) : Told(t, j)' = Told(t, j)
    BY <1>0, <1>1, <1>2
  <2>4. MadeFrom(t, k, Earlier(last))'
    BY <1>2, <2>1, <2>2, <2>3 DEF MadeFrom
  <2> QED BY <2>2, <2>4
<1>3. ASSUME NEW a, t = s, k = Len(stdout[s]) + 1, Answers(s, a), stdout'[s][k] = a,
             Question(s, k)' = stdin[s][Done(s) + 1]
      PROVE  \E last \in 0..Len(rows') : MadeFrom(t, k, Earlier(last))'
  <2>1. rows' = rows /\ Len(rows) \in 0..Len(rows')
    BY <1>0, <1>3 DEF Answers
  <2>2. Earlier(Len(rows))' = rows
    BY <1>0, <2>1 DEF Earlier
  <2>3. /\ Question(t, k)'.args \in ArgumentsType
        /\ stdout'[t][k].body
               = ListingOf(stdout'[t][k].tool, Question(t, k)'.args, rows)
    BY <1>3, NewListing
  <2>4. ASSUME NEW j \in 1..(k - 1), NEW d \in Told(t, j)'
        PROVE  RowTells(d, rows)
    <3>1. j \in DOMAIN stdout[t] /\ d \in Told(t, j)
      BY <1>1, <1>3, <2>4
    <3> QED BY <3>1 DEF EveryAnswerRecorded, RowTells
  <2>5. MadeFrom(t, k, Earlier(Len(rows)))'
    BY <2>2, <2>3, <2>4 DEF MadeFrom
  <2> QED BY <2>1, <2>5
<1> QED BY <1>2, <1>3, OldOrNew

LEMMA ListingInvariant == ServerSpec => []ListingInv
<1>1. ServerInit => ListingInv
  BY DEF ServerInit, ListingInv
<1>2. TypeInv /\ StreamInv /\ StreamInv' /\ OneAnswerPerRequest
          /\ EveryAnswerRecorded /\ ListingInv /\ [ServerNext]_allVars => ListingInv'
  <2> SUFFICES ASSUME TypeInv, StreamInv, StreamInv', OneAnswerPerRequest,
                      EveryAnswerRecorded, ListingInv, [ServerNext]_allVars
               PROVE  ListingInv'
    OBVIOUS
  <2>1. CASE UNCHANGED allVars
    BY <2>1, UnchangedAnswers DEF ListingInv, MadeFrom, Earlier
  <2> QED BY <2>1, ListingNext DEF ServerNext, StepOf
<1> QED BY <1>1, <1>2, ServerTypeInvariant, StreamInvariant, EveryLineAnswered,
        AnswersAreRecorded, PTL DEF ServerSpec

-----------------------------------------------------------------------------

LEMMA PositionOf ==
    ASSUME ReplyInv, NEW n \in DOMAIN rows
    PROVE  Position(rows[n].rec.key) = n
<1> DEFINE IsPosition(m) == m \in DOMAIN rows /\ rows[m].rec.key = rows[n].rec.key
<1>1. \E m : IsPosition(m)
  OBVIOUS
<1>2. Position(rows[n].rec.key) = CHOOSE m : IsPosition(m)
  BY DEF Position
<1>3. IsPosition(Position(rows[n].rec.key))
  BY <1>1, <1>2
<1> QED BY <1>3 DEF ReplyInv, OneRowPerKey

\* A listing that was made from the table as it was shows its last records,
\* and whatever its caller knew of is among them or before them.
LEMMA ListingShows ==
    ASSUME TypeInv, ReplyInv, NEW last \in 0..Len(rows), NEW limit \in Nat,
           NEW d, RowTells(d, Earlier(last))
    PROVE  LET recent == ListRecent(Earlier(last), limit)
           IN  \E n \in 1..last :
                   /\ n \in DOMAIN rows /\ Position(d.key) = n
                   /\ d = Decision(rows[n].rec.key, rows[n].rec.outcome,
                                   rows[n].rec.order)
                   /\ \/ \E m \in DOMAIN recent : recent[m] = rows[n].rec
                      \/ /\ Len(recent) = limit /\ n + limit <= last
<1> DEFINE recent == ListRecent(Earlier(last), limit)
<1>1. /\ Earlier(last) \in Seq(RowType) /\ Len(Earlier(last)) = last
      /\ DOMAIN Earlier(last) = 1..last /\ last \in Nat
      /\ \A n \in 1..last : n \in DOMAIN rows /\ Earlier(last)[n] = rows[n]
  BY EarlierRows
<1>2. PICK l \in Nat :
          /\ l = IF limit <= last THEN limit ELSE last
          /\ DOMAIN recent = 1..l /\ Len(recent) = l
          /\ \A m \in 1..l : recent[m] = Earlier(last)[last + 1 - m].rec
  BY <1>1, ListRecentRows
<1>3. PICK n \in 1..last : d = Decision(rows[n].rec.key, rows[n].rec.outcome,
                                        rows[n].rec.order)
  BY <1>1 DEF RowTells
<1>4. Position(d.key) = n
  BY <1>1, <1>3, PositionOf DEF Decision
<1> HIDE DEF recent
<1>5. CASE last + 1 - n \in 1..l
  <2>1. last + 1 - (last + 1 - n) = n
    BY <1>1
  <2>2. recent[last + 1 - n] = rows[n].rec
    BY <1>1, <1>2, <1>5, <2>1
  <2> QED BY <1>1, <1>2, <1>3, <1>4, <1>5, <2>2 DEF recent
<1>6. CASE last + 1 - n \notin 1..l
  <2>1. l = limit /\ n + limit <= last
    BY <1>1, <1>2, <1>6
  <2> QED BY <1>1, <1>2, <1>3, <1>4, <2>1 DEF recent
<1> QED BY <1>5, <1>6

LEMMA RecentAgrees ==
    TypeInv /\ ReplyInv /\ ListingInv => ListingsAreRecent
<1> SUFFICES ASSUME TypeInv, ReplyInv, ListingInv,
                    NEW s \in Servers, NEW k \in DOMAIN stdout[s],
                    stdout[s][k].tool = "list-recent-decisions",
                    stdout[s][k].form = "result"
             PROVE  LET listed == stdout[s][k].body
                        limit == Limit(Question(s, k).args, DefaultListed)
                    IN  /\ \A m, n \in DOMAIN listed :
                               m < n => Position(listed[m].key)
                                            > Position(listed[n].key)
                        /\ \A j \in 1..(k - 1) : \A d \in Told(s, j) :
                               \/ \E n \in DOMAIN listed : listed[n].key = d.key
                               \/ /\ Len(listed) = limit
                                  /\ \A n \in DOMAIN listed :
                                         Position(listed[n].key) > Position(d.key)
  BY DEF ListingsAreRecent
<1> DEFINE listed == stdout[s][k].body
           limit == Limit(Question(s, k).args, DefaultListed)
<1>1. PICK last \in 0..Len(rows) : MadeFrom(s, k, Earlier(last))
  BY DEF ListingInv, Listings
<1>2. /\ listed = ListRecent(Earlier(last), limit) /\ limit \in Nat
      /\ \A j \in 1..(k - 1) : \A d \in Told(s, j) : RowTells(d, Earlier(last))
  BY <1>1, LimitNat, ListingAssumption DEF MadeFrom, ListingOf
<1>3. /\ Earlier(last) \in Seq(RowType) /\ Len(Earlier(last)) = last /\ last \in Nat
      /\ \A n \in 1..last : n \in DOMAIN rows /\ Earlier(last)[n] = rows[n]
  BY EarlierRows
<1> HIDE DEF limit, listed
<1>4. PICK l \in Nat :
          /\ l = (IF limit <= last THEN limit ELSE last)
          /\ DOMAIN listed = 1..l /\ Len(listed) = l
          /\ \A m \in 1..l : listed[m] = Earlier(last)[last + 1 - m].rec
  BY <1>2, <1>3, ListRecentRows
<1>5. ASSUME NEW m \in 1..l
      PROVE  Position(listed[m].key) = last + 1 - m
  <2>1. last + 1 - m \in 1..last
    BY <1>2, <1>3, <1>4
  <2>2. last + 1 - m \in DOMAIN rows /\ listed[m] = rows[last + 1 - m].rec
    BY <1>3, <1>4, <2>1
  <2> QED BY <2>2, PositionOf
<1>6. ASSUME NEW m \in DOMAIN listed, NEW n \in DOMAIN listed, m < n
      PROVE  Position(listed[m].key) > Position(listed[n].key)
  <2>1. m \in 1..l /\ n \in 1..l /\ m \in Int /\ n \in Int
    BY <1>4
  <2>2. Position(listed[m].key) = last + 1 - m /\ Position(listed[n].key) = last + 1 - n
    BY <1>5, <2>1
  <2> QED BY <1>3, <1>6, <2>1, <2>2
<1>7. ASSUME NEW j \in 1..(k - 1), NEW d \in Told(s, j)
      PROVE  \/ \E n \in DOMAIN listed : listed[n].key = d.key
             \/ /\ Len(listed) = limit
                /\ \A n \in DOMAIN listed :
                       Position(listed[n].key) > Position(d.key)
  <2>1. PICK n \in 1..last :
            /\ Position(d.key) = n
            /\ d = Decision(rows[n].rec.key, rows[n].rec.outcome, rows[n].rec.order)
            /\ \/ \E m \in DOMAIN listed : listed[m] = rows[n].rec
               \/ Len(listed) = limit /\ n + limit <= last
    BY <1>2, <1>7, ListingShows
  <2>2. d.key = rows[n].rec.key
    BY <2>1 DEF Decision
  <2>3. CASE \E m \in DOMAIN listed : listed[m] = rows[n].rec
    BY <2>2, <2>3
  <2>4. CASE Len(listed) = limit /\ n + limit <= last
    <3>1. ASSUME NEW m \in DOMAIN listed
          PROVE  Position(listed[m].key) > Position(d.key)
      <4>1. m \in 1..l /\ m <= limit
        BY <1>4, <2>4
      <4>2. Position(listed[m].key) = last + 1 - m
        BY <1>5, <4>1
      <4> QED BY <1>2, <1>3, <2>1, <2>4, <4>1, <4>2
    <3> QED BY <2>4, <3>1
  <2> QED BY <2>1, <2>3, <2>4
<1> QED BY <1>6, <1>7 DEF listed, limit

\* A listing goes back in time and leaves out nothing its caller knows of
\* but what is older than all it shows, whatever other processes wrote in
\* between.
THEOREM ListingsGoBack == ServerSpec => []ListingsAreRecent
BY RecentAgrees, ListingInvariant, ServerTypeInvariant, ServerReplyInvariant, PTL

LEMMA OpenAgrees ==
    TypeInv /\ ReplyInv /\ OrderInv /\ ListingInv => OpenOrdersAgree
<1> SUFFICES ASSUME TypeInv, ReplyInv, OrderInv, ListingInv,
                    NEW s \in Servers, NEW k \in DOMAIN stdout[s],
                    stdout[s][k].tool = "get-open-orders",
                    stdout[s][k].form = "result",
                    NEW j \in 1..(k - 1), NEW d \in Told(s, j), d.order # None
             PROVE  LET open == {r.order : r \in Range(stdout[s][k].body)}
                        limit == Limit(Question(s, k).args, DefaultScanned)
                    IN  IF d.order.state = "acknowledged"
                        THEN d.order \in open \/ Len(rows) - Position(d.key) >= limit
                        ELSE \A o \in open : o.key # d.key
  BY DEF OpenOrdersAgree
<1> DEFINE body == stdout[s][k].body
           limit == Limit(Question(s, k).args, DefaultScanned)
<1>1. PICK last \in 0..Len(rows) : MadeFrom(s, k, Earlier(last))
  BY DEF ListingInv, Listings
<1>2. body = OpenOrders(Earlier(last), limit) /\ limit \in Nat
      /\ RowTells(d, Earlier(last))
  <2>1. limit \in Nat
    BY <1>1, LimitNat, ListingAssumption DEF MadeFrom
  <2>2. body = OpenOrders(Earlier(last), limit)
    BY <1>1 DEF MadeFrom, ListingOf
  <2>3. RowTells(d, Earlier(last))
    BY <1>1 DEF MadeFrom
  <2> QED BY <2>1, <2>2, <2>3
<1> HIDE DEF limit
<1> DEFINE recent == ListRecent(Earlier(last), limit)
<1>3. /\ Earlier(last) \in Seq(RowType) /\ Len(Earlier(last)) = last /\ last \in Nat
      /\ \A n \in 1..last : n \in DOMAIN rows /\ Earlier(last)[n] = rows[n]
      /\ Len(rows) \in Nat
  BY EarlierRows DEF TypeInv, TypeOK
<1>4. PICK n \in 1..last :
          /\ n \in DOMAIN rows /\ Position(d.key) = n
          /\ d = Decision(rows[n].rec.key, rows[n].rec.outcome, rows[n].rec.order)
          /\ \/ \E m \in DOMAIN recent : recent[m] = rows[n].rec
             \/ Len(recent) = limit /\ n + limit <= last
  BY <1>2, ListingShows
<1>5. /\ \A i \in DOMAIN body : \E m \in DOMAIN recent :
             /\ body[i] = recent[m] /\ recent[m].order # None
             /\ ~IsTerminal(recent[m].order)
      /\ \A m \in DOMAIN recent :
             recent[m].order # None /\ ~IsTerminal(recent[m].order) =>
                 \E i \in DOMAIN body : body[i] = recent[m]
  BY <1>2, <1>3, OpenOrdersRows
<1>6. \A m \in DOMAIN recent : \E x \in DOMAIN rows : recent[m] = rows[x].rec
  <2>1. PICK l \in Nat :
            /\ l = (IF limit <= last THEN limit ELSE last)
            /\ DOMAIN recent = 1..l
            /\ \A m \in 1..l : recent[m] = Earlier(last)[last + 1 - m].rec
    BY <1>2, <1>3, ListRecentRows
  <2>2. \A m \in 1..l : last + 1 - m \in 1..last
    BY <1>2, <1>3, <2>1
  <2> HIDE DEF recent
  <2> QED BY <1>3, <2>1, <2>2
<1> HIDE DEF recent, body
<1>7. d.order = rows[n].rec.order /\ d.key = rows[n].rec.key
  BY <1>4 DEF Decision
<1>8. CASE d.order.state = "acknowledged"
  <2>1. CASE n + limit <= last
    BY <1>2, <1>3, <1>4, <1>8, <2>1 DEF limit
  <2>2. ASSUME NEW m \in DOMAIN recent, recent[m] = rows[n].rec
        PROVE  \E i \in DOMAIN body : body[i].order = d.order
    <3>1. recent[m].order = d.order /\ ~IsTerminal(d.order)
      BY <1>7, <1>8, <2>2 DEF IsTerminal
    <3> QED BY <1>5, <3>1
  <2>3. CASE \E i \in DOMAIN body : body[i].order = d.order
    BY <1>8, <2>3 DEF Range, body
  <2> QED BY <1>4, <2>1, <2>2, <2>3
<1>9. CASE d.order.state # "acknowledged"
  <2>1. IsTerminal(d.order)
    BY <1>4, <1>7, <1>9 DEF OrderInv, RecordedStates, IsTerminal
  <2>2. ASSUME NEW i \in DOMAIN body PROVE body[i].order.key # d.key
    <3>1. PICK x \in DOMAIN rows : body[i] = rows[x].rec /\ rows[x].rec.order # None
                                   /\ ~IsTerminal(rows[x].rec.order)
      BY <1>5, <1>6
    <3>2. rows[x].rec.order.key = rows[x].rec.key
      BY <3>1 DEF OrderInv
    <3>3. rows[x].rec.key = rows[n].rec.key => x = n
      BY <1>4 DEF ReplyInv, OneRowPerKey
    <3> QED BY <1>7, <2>1, <3>1, <3>2, <3>3
  <2> QED BY <1>9, <2>2 DEF Range, body
<1> QED BY <1>8, <1>9

\* An order its caller was told is filled or refused is not open, and one
\* that rests is, as far as the scan reaches back.
THEOREM OpenOrdersAreOpen == ServerSpec => []OpenOrdersAgree
BY OpenAgrees, ListingInvariant, OrderInvariant, ServerTypeInvariant,
   ServerReplyInvariant, PTL

-----------------------------------------------------------------------------
(* Snapshots: the account the answers add up to.                           *)

\* f is the account after each of the first m answers.
RunsThrough(f, answers, m) ==
    f = [n \in 0..m |-> IF n = 0 THEN NewAccount(StartingCash)
                                 ELSE ApplyAnswer(f[n - 1], answers[n])]

LEMMA RunExists ==
    ASSUME NEW answers, NEW m \in Nat
    PROVE  \E f : RunsThrough(f, answers, m)
<1> DEFINE Bad == {n \in Nat : ~\E f : RunsThrough(f, answers, n)}
<1>1. ASSUME Bad # {} PROVE FALSE
  <2>1. PICK n \in Bad : \A k \in Bad : n <= k
    BY <1>1, LeastNumber
  <2>2. CASE n = 0
    <3> DEFINE f == [k \in 0..0 |-> NewAccount(StartingCash)]
    <3>1. RunsThrough(f, answers, 0)
      <4> DEFINE g == [k \in 0..0 |-> IF k = 0 THEN NewAccount(StartingCash)
                                             ELSE ApplyAnswer(f[k - 1], answers[k])]
      <4>1. f = g
        OBVIOUS
      <4> QED BY <4>1 DEF RunsThrough
    <3> QED BY <2>1, <2>2, <3>1
  <2>3. CASE n # 0
    <3>1. n - 1 \in Nat /\ n - 1 \notin Bad
      BY <2>1, <2>3
    <3>2. PICK f : RunsThrough(f, answers, n - 1)
      BY <3>1
    <3> DEFINE g == [k \in 0..n |-> IF k = n THEN ApplyAnswer(f[n - 1], answers[n])
                                             ELSE f[k]]
               h == [k \in 0..n |-> IF k = 0 THEN NewAccount(StartingCash)
                                             ELSE ApplyAnswer(g[k - 1], answers[k])]
    <3>3. ASSUME NEW k \in 0..n PROVE g[k] = h[k]
      <4>1. CASE k = 0
        BY <2>1, <2>3, <3>1, <3>2, <4>1 DEF RunsThrough
      <4>2. CASE k # 0
        <5>1. k - 1 \in 0..n /\ k - 1 # n /\ g[k - 1] = f[k - 1]
          BY <2>1, <4>2
        <5>2. k # n => f[k] = ApplyAnswer(f[k - 1], answers[k])
          BY <2>1, <3>2, <4>2 DEF RunsThrough
        <5> QED BY <4>2, <5>1, <5>2
      <4> QED BY <4>1, <4>2
    <3>4. g = h
      BY <3>3
    <3>5. RunsThrough(g, answers, n)
      <4> HIDE DEF g
      <4> QED BY <3>4 DEF RunsThrough
    <3> QED BY <2>1, <3>5
  <2> QED BY <2>2, <2>3
<1> QED BY <1>1

LEMMA AccountAfterRun ==
    ASSUME NEW q, Len(q) \in Nat
    PROVE  \E f : RunsThrough(f, q, Len(q)) /\ AccountAfter(q) = f[Len(q)]
<1> DEFINE f == CHOOSE g : RunsThrough(g, q, Len(q))
<1>1. RunsThrough(f, q, Len(q))
  BY RunExists
<1>2. AccountAfter(q) = f[Len(q)]
  BY DEF AccountAfter, RunsThrough
<1> QED BY <1>1, <1>2

LEMMA AccountAfterNone == AccountAfter(<< >>) = NewAccount(StartingCash)
<1>1. Len(<< >>) = 0
  OBVIOUS
<1>2. PICK f : RunsThrough(f, << >>, 0) /\ AccountAfter(<< >>) = f[0]
  BY <1>1, AccountAfterRun
<1> QED BY <1>2 DEF RunsThrough

LEMMA AccountAfterAppend ==
    ASSUME NEW q, q \in Seq(Range(q)), NEW a
    PROVE  AccountAfter(Append(q, a)) = ApplyAnswer(AccountAfter(q), a)
<1> DEFINE r == Append(q, a)
           m == Len(q)
<1>1. /\ Len(r) = m + 1 /\ m \in Nat /\ r[m + 1] = a
      /\ \A k \in 1..m : r[k] = q[k]
  BY SaySeq
<1> HIDE DEF r, m
<1>2. PICK f : RunsThrough(f, q, m) /\ AccountAfter(q) = f[m]
  BY <1>1, AccountAfterRun DEF m
<1>3. PICK g : RunsThrough(g, r, m + 1) /\ AccountAfter(r) = g[m + 1]
  BY <1>1, AccountAfterRun
<1> DEFINE Bad == {n \in 0..m : f[n] # g[n]}
<1>4. ASSUME Bad # {} PROVE FALSE
  <2>1. Bad \in SUBSET Nat
    BY <1>1
  <2>2. PICK n \in Bad : \A k \in Bad : n <= k
    BY <1>4, <2>1, LeastNumber
  <2>3. n # 0
    BY <1>1, <1>2, <1>3, <2>2 DEF RunsThrough
  <2>4. /\ n - 1 \in 0..m /\ n - 1 \notin Bad
        /\ n \in 1..m /\ n \in 0..m /\ n \in 0..(m + 1)
    BY <1>1, <2>2, <2>3
  <2>5. f[n - 1] = g[n - 1] /\ q[n] = r[n]
    BY <1>1, <2>4
  <2>6. f[n] = ApplyAnswer(f[n - 1], q[n]) /\ g[n] = ApplyAnswer(g[n - 1], r[n])
    BY <1>2, <1>3, <2>3, <2>4 DEF RunsThrough
  <2> QED BY <2>2, <2>5, <2>6
<1>6. f[m] = g[m]
  BY <1>1, <1>4
<1>5. g[m + 1] = ApplyAnswer(g[m], r[m + 1])
  BY <1>1, <1>3 DEF RunsThrough
<1> QED BY <1>1, <1>2, <1>3, <1>5, <1>6 DEF r

\* An answer that tells of no submission changes nothing of the sum.
LEMMA OtherAnswersAddNothing ==
    ASSUME NEW account, NEW a,
           a.tool # "authorize-and-submit-paper-order" \/ a.body = None
    PROVE  ApplyAnswer(account, a) = account
BY DEF ApplyAnswer

LEMMA SettledAppend ==
    ASSUME NEW q, q \in Seq(Range(q)), NEW a, AllSettled(Append(q, a))
    PROVE  AllSettled(q) /\ ~Unsettled(a)
<1>1. /\ DOMAIN Append(q, a) = 1..(Len(q) + 1) /\ Len(q) \in Nat
      /\ DOMAIN q = 1..Len(q)
      /\ Append(q, a)[Len(q) + 1] = a
      /\ \A k \in 1..Len(q) : Append(q, a)[k] = q[k]
  BY SaySeq
<1>2. \A j \in 1..(Len(q) + 1) : ~Unsettled(Append(q, a)[j])
  BY <1>1 DEF AllSettled
<1>3. ~Unsettled(a)
  <2>1. Len(q) + 1 \in 1..(Len(q) + 1)
    BY <1>1
  <2> QED BY <1>1, <1>2, <2>1
<1>4. \A j \in 1..Len(q) : ~Unsettled(q[j])
  BY <1>1, <1>2
<1> QED BY <1>1, <1>3, <1>4 DEF AllSettled

Unanswered == {"release", "read", "insert"}

\* What SnapshotInv says of one process.
SnapshotOf(s) ==
    /\ ~(pc[s] = "reply" /\ call[s].outcome = None) /\ AllSettled(stdout[s]) =>
           acct[s] = [AheadOfAnswers(s) EXCEPT !.reserved = acct[s].reserved]
    /\ AccountAfter(stdout[s]) \in AccountType
    /\ AccountAfter(stdout[s]).reserved = 0
    /\ pc[s] = "reply" /\ call[s].outcome # None /\ ~duplicate[s] =>
           (call[s].order # None /\ call[s].order.state = "filled" =>
                call[s].order.fills # << >>)
    /\ duplicate[s] => pc[s] = "reply"

LEMMA SnapshotInvIs == SnapshotInv <=> \A s \in Servers : SnapshotOf(s)
BY DEF SnapshotInv, AnswersTracked, AnswersAddUp, SnapshotOf

\* A step that answers nothing and keeps what the account is ahead by.
LEMMA SnapshotQuiet ==
    ASSUME NEW s \in Servers, SnapshotOf(s),
           stdout'[s] = stdout[s], pc[s] # "reply", pc'[s] # "reply",
           AheadOfAnswers(s)' = AheadOfAnswers(s), acct[s] \in AccountType,
           acct'[s] = [acct[s] EXCEPT !.reserved = acct'[s].reserved],
           ~duplicate'[s], AheadOfAnswers(s) \in AccountType
    PROVE  SnapshotOf(s)'
<1> HIDE DEF AheadOfAnswers
<1>1. AccountAfter(stdout[s])' = AccountAfter(stdout[s])
  BY DEF AccountAfter
<1>2. AllSettled(stdout[s])' = AllSettled(stdout[s])
  BY DEF AllSettled
<1>3. ASSUME AllSettled(stdout[s])
      PROVE  acct'[s] = [AheadOfAnswers(s)' EXCEPT !.reserved = acct'[s].reserved]
  <2>1. acct[s] = [AheadOfAnswers(s) EXCEPT !.reserved = acct[s].reserved]
    BY <1>3 DEF SnapshotOf
  <2> QED BY <2>1 DEF AccountType
<1> QED BY <1>1, <1>2, <1>3 DEF SnapshotOf

\* A read or a line that is ignored: between calls nothing is ahead.
LEMMA SnapshotBetween ==
    ASSUME TypeInv, StreamInv, SnapshotInv, NEW s \in Servers,
           pc[s] \in {"idle", "down"}, pc'[s] \in {"idle", "down", "find"},
           acct'[s] = acct[s], duplicate'[s] = duplicate[s],
           \/ stdout'[s] = stdout[s]
           \/ \E a : /\ stdout'[s] = Append(stdout[s], a)
                     /\ \/ a.tool # "authorize-and-submit-paper-order"
                        \/ a.body = None
    PROVE  SnapshotOf(s)'
<1>0. SnapshotOf(s) /\ ~duplicate[s] /\ stdout[s] \in Seq(Range(stdout[s]))
  BY SnapshotInvIs DEF SnapshotOf, StreamInv
<1>1. AccountAfter(stdout'[s]) = AccountAfter(stdout[s])
      /\ (AllSettled(stdout'[s]) => AllSettled(stdout[s]))
  <2>1. ASSUME NEW a, stdout'[s] = Append(stdout[s], a),
               a.tool # "authorize-and-submit-paper-order" \/ a.body = None
        PROVE  AccountAfter(stdout'[s]) = AccountAfter(stdout[s])
               /\ (AllSettled(stdout'[s]) => AllSettled(stdout[s]))
    BY <1>0, <2>1, AccountAfterAppend, OtherAnswersAddNothing, SettledAppend
  <2> QED BY <2>1
<1>2. AheadOfAnswers(s) = AccountAfter(stdout[s])
      /\ AheadOfAnswers(s)' = AccountAfter(stdout'[s])
  BY DEF AheadOfAnswers
<1> QED BY <1>0, <1>1, <1>2 DEF SnapshotOf

\* The end of a process: the next one has told nothing and has a new account.
LEMMA SnapshotEnd ==
    ASSUME TypeInv, StreamInv, NEW s \in Servers, Crash(s), NewStreams(s)
    PROVE  SnapshotOf(s)'
<1> DEFINE new == NewAccount(StartingCash)
<1>1. /\ pc'[s] = "down" /\ acct'[s] = new /\ stdout'[s] = << >> /\ ~duplicate'[s]
  BY DEF Crash, FreshAccount, NewStreams, TypeInv, TypeOK, StreamInv
<1>2. new \in AccountType /\ new.reserved = 0 /\ AccountAfter(<< >>) = new
  BY NewAccountType, AccountAfterNone DEF NewAccount
<1> HIDE DEF new
<1>3. AheadOfAnswers(s)' = new
  BY <1>1, <1>2 DEF AheadOfAnswers
<1>4. acct'[s] = [AheadOfAnswers(s)' EXCEPT !.reserved = acct'[s].reserved]
  BY <1>1, <1>2, <1>3 DEF AccountType
<1> QED BY <1>1, <1>2, <1>4 DEF SnapshotOf

\* The answer of a submission adds the order it tells of.
LEMMA SnapshotAnswered ==
    ASSUME TypeInv, StreamInv, SnapshotInv, NEW s \in Servers, AnswerSubmission(s)
    PROVE  SnapshotOf(s)'
<1> DEFINE a == SubmissionAnswer(s)
           c == call[s]
           sum == AccountAfter(stdout[s])
<1>0. /\ SnapshotOf(s) /\ stdout[s] \in Seq(Range(stdout[s]))
      /\ pc[s] = "reply" /\ pc'[s] = "idle" /\ acct'[s] = acct[s] /\ ~duplicate'[s]
      /\ stdout'[s] = Append(stdout[s], a) /\ c.order \in Option(OrderType)
  BY SnapshotInvIs DEF StreamInv, AnswerSubmission, Reply, At, Say, TypeInv, TypeOK,
     CallType
<1>1. /\ AccountAfter(stdout'[s]) = ApplyAnswer(sum, a)
      /\ AllSettled(stdout'[s]) => AllSettled(stdout[s]) /\ ~Unsettled(a)
  BY <1>0, AccountAfterAppend, SettledAppend
<1>2. AheadOfAnswers(s)' = AccountAfter(stdout'[s])
  BY <1>0 DEF AheadOfAnswers
<1>3. sum \in AccountType /\ sum.reserved = 0
  BY <1>0 DEF SnapshotOf
<1>4. CASE a.body = None
  <2>1. Unsettled(a)
    BY <1>4 DEF Unsettled, SubmissionAnswer, Envelope
  <2>2. ApplyAnswer(sum, a) = sum
    BY <1>4, OtherAnswersAddNothing
  <2> QED BY <1>0, <1>1, <1>3, <2>1, <2>2 DEF SnapshotOf
<1>5. CASE a.body # None
  <2>1. /\ c.outcome # None /\ a.tool = "authorize-and-submit-paper-order"
        /\ a.body.order = c.order /\ a.body.duplicate = duplicate[s]
    BY <1>5 DEF SubmissionAnswer, Envelope
  <2>2. ApplyAnswer(sum, a) = IF duplicate[s] THEN sum ELSE ApplyOrder(sum, c.order)
    BY <1>5, <2>1 DEF ApplyAnswer
  <2>3. AheadOfAnswers(s) = ApplyAnswer(sum, a)
    BY <1>0, <2>1, <2>2 DEF AheadOfAnswers
  <2>4. /\ ApplyAnswer(sum, a) \in AccountType
        /\ ApplyAnswer(sum, a).reserved = 0
    <3>1. CASE duplicate[s]
      BY <1>3, <2>2, <3>1
    <3>2. CASE ~duplicate[s]
      <4>1. c.order # None /\ c.order.state = "filled" => c.order.fills # << >>
        BY <1>0, <2>1, <3>2 DEF SnapshotOf
      <4> QED BY <1>0, <1>3, <2>2, <3>2, <4>1, ApplyOrderType
    <3> QED BY <3>1, <3>2
  <2>5. AllSettled(stdout[s]) =>
            acct[s] = [AheadOfAnswers(s) EXCEPT !.reserved = acct[s].reserved]
    BY <1>0, <2>1 DEF SnapshotOf
  <2> HIDE DEF a
  <2> QED BY <1>0, <1>1, <1>2, <2>3, <2>4, <2>5 DEF SnapshotOf
<1> QED BY <1>4, <1>5

\* A step of the call: the account moves exactly when the order does.
LEMMA SnapshotServe ==
    ASSUME TypeInv, StreamInv, SnapshotInv, NEW s \in Servers, Serve(s)
    PROVE  SnapshotOf(s)'
<1> DEFINE sum == AccountAfter(stdout[s])
           o == call[s].order
<1>0. /\ pc \in [Servers -> Steps \cup {"idle", "down"}]
      /\ call \in [Servers -> CallType] /\ call[s] \in CallType
      /\ acct \in [Servers -> AccountType] /\ acct[s] \in AccountType
      /\ StepNeeds(call[s], pc[s])
      /\ SnapshotOf(s) /\ pc[s] # "reply" /\ ~duplicate[s] /\ o \in Option(OrderType)
      /\ sum \in AccountType /\ sum.reserved = 0
      /\ AllSettled(stdout[s]) =>
             acct[s] = [AheadOfAnswers(s) EXCEPT !.reserved = acct[s].reserved]
  BY SnapshotInvIs DEF Serve, TypeInv, TypeOK, CallWellFormed, SnapshotOf, CallType
<1>1. /\ stdout'[s] = stdout[s] /\ AccountAfter(stdout'[s]) = sum
      /\ duplicate'[s] = (pc[s] = "find" /\ pc'[s] = "reply")
  BY <1>0 DEF Serve, StreamInv
<1>2. AheadOfAnswers(s) = IF pc[s] \in Unanswered THEN ApplyOrder(sum, o) ELSE sum
  BY <1>0 DEF AheadOfAnswers, Unanswered
<1>3. pc[s] \in {"read", "insert", "release"} =>
          (o # None /\ o.state = "filled" => o.fills # << >>)
  BY <1>0 DEF StepNeeds
<1>4. AheadOfAnswers(s) \in AccountType
  BY <1>0, <1>2, <1>3, ApplyOrderType DEF Unanswered
<1>5. CASE pc'[s] # "reply" /\ ~FillOrder(s)
  <2>1. acct'[s] = [acct[s] EXCEPT !.reserved = acct'[s].reserved]
    <3>0. acct \in [Servers -> AccountType] /\ acct[s] \in AccountType
      BY <1>0
    <3>1. CASE ReserveRisk(s) \/ Release(s)
      BY <3>0, <3>1 DEF ReserveRisk, Release, AccountType
    <3>2. CASE acct' = acct
      BY <3>0, <3>2 DEF AccountType
    <3> QED BY <1>5, <3>1, <3>2 DEF Serve, ServerStep, FindHit, FindMiss, Refuse,
          Accept, RiskReject, LeaveOpen, ReadPrev, Insert, InsertConflict,
          StoreFailure, Reply
  <2>2. AheadOfAnswers(s)' = AheadOfAnswers(s)
    <3>0. AheadOfAnswers(s)' = IF pc'[s] \in Unanswered
                               THEN ApplyOrder(sum, call'[s].order) ELSE sum
      BY <1>1, <1>5 DEF AheadOfAnswers, Unanswered
    <3>1. CASE FindMiss(s) \/ Accept(s) \/ ReserveRisk(s)
      <4>1. pc[s] \notin Unanswered /\ pc'[s] \notin Unanswered
        BY <1>0, <3>1 DEF At, FindMiss, Accept, ReserveRisk, Unanswered
      <4> QED BY <1>2, <3>0, <4>1
    <3>2. CASE Refuse(s) \/ RiskReject(s) \/ LeaveOpen(s)
      <4>1. pc[s] \notin Unanswered /\ pc'[s] \in Unanswered
        BY <1>0, <3>2 DEF At, Refuse, RiskReject, LeaveOpen, Unanswered
      <4>2. call'[s].order = None \/ call'[s].order.state # "filled"
        <5>1. CASE Refuse(s)
          BY <1>0, <5>1 DEF Refuse, At, StepNeeds, CallType
        <5>2. CASE RiskReject(s)
          <6>1. o \in OrderType
            BY <1>0, <5>2 DEF RiskReject, At, StepNeeds
          <6> QED BY <1>0, <5>2, <6>1 DEF RiskReject, CallType, OrderType
        <5>3. CASE LeaveOpen(s)
          BY <1>0, <5>3 DEF LeaveOpen, At, StepNeeds
        <5> QED BY <3>2, <5>1, <5>2, <5>3
      <4> QED BY <1>2, <3>0, <4>1, <4>2 DEF ApplyOrder
    <3>3. CASE Release(s) \/ ReadPrev(s)
      <4>1. /\ pc[s] \in Unanswered /\ pc'[s] \in Unanswered
            /\ call'[s].order = o
        BY <1>0, <3>3 DEF At, Release, ReadPrev, CallType, Unanswered
      <4> QED BY <1>2, <3>0, <4>1
    <3>4. ~(FindHit(s) \/ Insert(s) \/ InsertConflict(s) \/ StoreFailure(s) \/ Reply(s))
      BY <1>0, <1>5 DEF FindHit, Insert, InsertConflict, StoreFailure, Reply, At
    <3> QED BY <1>5, <3>1, <3>2, <3>3, <3>4 DEF Serve, ServerStep
  <2> QED BY <1>0, <1>1, <1>4, <1>5, <2>1, <2>2, SnapshotQuiet
<1>6. CASE FillOrder(s)
  <2> DEFINE p == SimulateFill(o)
             r == acct[s].reserved
             filled == ApplyFill(sum, o.instr, o.side, o.qty, p)
  <2>1. /\ pc[s] = "fill" /\ pc'[s] = "release"
        /\ o \in OrderType /\ o.filled = 0 /\ o.fills = << >>
    BY <1>0, <1>6 DEF FillOrder, At, StepNeeds
  <2>2. p \in Raw /\ o.qty \in Raw /\ o.instr \in Instruments /\ r \in Raw
    BY <1>0, <1>6, <2>1, SimulateFillType DEF FillOrder, Option, OrderType, AccountType
  <2>3. /\ acct'[s] = ApplyFill(acct[s], o.instr, o.side, o.qty, p)
        /\ call'[s].order = OrderWithFill(o, o.qty, p)
    BY <1>0, <1>6 DEF FillOrder, CallType
  <2>4. AllSettled(stdout[s]) => acct[s] = [sum EXCEPT !.reserved = r]
    BY <1>0, <1>2, <2>1 DEF Unanswered
  <2> HIDE DEF o, p, r, sum
  <2>5. ApplyOrder(sum, OrderWithFill(o, o.qty, p)) = filled
    BY <2>1, <2>2, FilledOrderBooks
  <2>6. AheadOfAnswers(s)' = filled
    BY <1>1, <2>1, <2>3, <2>5 DEF AheadOfAnswers
  <2>7. AllSettled(stdout[s]) => acct'[s] = [filled EXCEPT !.reserved = r]
    BY <1>0, <2>2, <2>3, <2>4, ApplyFillReserved
  <2>8. acct'[s].reserved = r
    BY <1>0, <2>2, <2>3, ApplyFillType DEF r
  <2> HIDE DEF filled
  <2> QED BY <1>0, <1>1, <2>1, <2>6, <2>7, <2>8 DEF SnapshotOf
<1>7. CASE pc'[s] = "reply"
  <2>1. FindHit(s) \/ Insert(s) \/ InsertConflict(s) \/ StoreFailure(s)
    BY <1>0, <1>7 DEF Serve, ServerStep, FindMiss, Refuse, Accept, RiskReject,
       ReserveRisk, FillOrder, LeaveOpen, Release, ReadPrev, Reply, At
  <2>2. acct'[s] = acct[s]
    BY <2>1 DEF FindHit, Insert, InsertConflict, StoreFailure
  <2>3. CASE FindHit(s)
    <3>1. pc[s] = "find" /\ duplicate'[s]
      BY <1>1, <1>7, <2>3 DEF FindHit, At
    <3>2. AheadOfAnswers(s)' = sum /\ AheadOfAnswers(s) = sum
      BY <1>1, <1>2, <1>7, <3>1 DEF AheadOfAnswers, Unanswered
    <3> QED BY <1>0, <1>1, <1>7, <2>2, <3>1, <3>2 DEF SnapshotOf
  <2>4. CASE Insert(s)
    <3>1. pc[s] = "insert" /\ call'[s] = call[s] /\ ~duplicate'[s]
      BY <1>1, <2>4 DEF Insert, At
    <3>2. call[s].outcome # None => AheadOfAnswers(s)' = AheadOfAnswers(s)
      BY <1>1, <1>2, <1>7, <3>1 DEF AheadOfAnswers, Unanswered
    <3> QED BY <1>0, <1>1, <1>3, <1>7, <2>2, <3>1, <3>2 DEF SnapshotOf
  <2>5. CASE InsertConflict(s) \/ StoreFailure(s)
    <3>1. call'[s].outcome = None
      BY <1>0, <2>5 DEF InsertConflict, StoreFailure, Fail, CallType
    <3> QED BY <1>0, <1>1, <1>7, <3>1 DEF SnapshotOf
  <2> QED BY <2>1, <2>3, <2>4, <2>5
<1> QED BY <1>5, <1>6, <1>7

LEMMA SnapshotNext ==
    ASSUME TypeInv, StreamInv, SnapshotInv, NEW s \in Servers, StepOf(s)
    PROVE  SnapshotInv'
<1>0. /\ pc \in [Servers -> Steps \cup {"idle", "down"}]
      /\ \A t \in Servers : SnapshotOf(t)
      /\ "idle" \notin Steps /\ "down" \notin Steps /\ DOMAIN stdout = Servers
  BY SnapshotInvIs DEF TypeInv, TypeOK, Steps, StreamInv
<1>1. ASSUME NEW t \in Servers \ {s} PROVE SnapshotOf(t)'
  <2>1. /\ pc'[t] = pc[t] /\ call'[t] = call[t] /\ stdout'[t] = stdout[t]
        /\ duplicate'[t] = duplicate[t] /\ acct'[t] = acct[t]
    BY <1>1, OthersKeepStreams, AccountMoves
  <2>2. AheadOfAnswers(t)' = AheadOfAnswers(t)
    BY <2>1 DEF AheadOfAnswers
  <2> QED BY <1>0, <2>1, <2>2 DEF SnapshotOf
<1>2. SnapshotOf(s)'
  <2>1. ASSUME NEW line \in Lines, Write(s, line) PROVE SnapshotOf(s)'
    <3>1. /\ pc' = pc /\ call' = call /\ stdout' = stdout /\ duplicate' = duplicate
          /\ acct' = acct
      BY <2>1 DEF Write, vars
    <3> QED BY <1>0, <3>1 DEF SnapshotOf, AheadOfAnswers
  <2>2. CASE Ignore(s) \/ Start(s) \/ StartSubmission(s)
    <3>1. /\ pc[s] \in {"idle", "down"} /\ pc'[s] \in {"idle", "down", "find"}
          /\ acct' = acct /\ duplicate' = duplicate /\ stdout' = stdout
      BY <1>0, <2>2 DEF Ignore, Start, StartSubmission, Reads, Take, Restart, Submit,
         At, vars, serverVars
    <3> QED BY <3>1, SnapshotBetween
  <2>3. CASE AnswerAtOnce(s) \/ ReadFails(s)
    <3>1. /\ pc[s] = "idle" /\ pc' = pc /\ acct' = acct /\ duplicate' = duplicate
      BY <1>0, <2>3 DEF AnswerAtOnce, ReadFails, Reads, Take, vars
    <3>2. \E a : /\ stdout'[s] = Append(stdout[s], a)
                 /\ \/ a.tool # "authorize-and-submit-paper-order"
                    \/ a.body = None
      <4>1. ASSUME NEW line \in Lines, NEW now \in Times,
                   Say(s, AnswerTo(s, line, taken[s] + 1, now))
            PROVE  \E a : /\ stdout'[s] = Append(stdout[s], a)
                          /\ \/ a.tool # "authorize-and-submit-paper-order"
                             \/ a.body = None
        <5> DEFINE a == AnswerTo(s, line, taken[s] + 1, now)
        <5>1. a.tool = "authorize-and-submit-paper-order" => a.body = None
          BY DEF AnswerTo, Envelope, CallTool, Failed
        <5>2. stdout'[s] = Append(stdout[s], a)
          BY <1>0, <4>1 DEF Say
        <5> QED BY <5>1, <5>2
      <4>2. ASSUME NEW line \in Lines,
                   Say(s, Envelope(AnswerId(line, taken[s] + 1), "tool-error",
                                   line.tool, None))
            PROVE  \E a : /\ stdout'[s] = Append(stdout[s], a)
                          /\ \/ a.tool # "authorize-and-submit-paper-order"
                             \/ a.body = None
        <5> DEFINE a == Envelope(AnswerId(line, taken[s] + 1), "tool-error",
                                 line.tool, None)
        <5>1. a.body = None
          BY DEF Envelope
        <5>2. stdout'[s] = Append(stdout[s], a)
          BY <1>0, <4>2 DEF Say
        <5> QED BY <5>1, <5>2
      <4> QED BY <2>3, <4>1, <4>2 DEF AnswerAtOnce, ReadFails
    <3> QED BY <3>1, <3>2, SnapshotBetween
  <2>4. CASE Undecodable(s) \/ Die(s)
    BY <2>4, SnapshotEnd DEF Undecodable, Die
  <2> QED BY <2>1, <2>2, <2>3, <2>4, SnapshotServe, SnapshotAnswered
          DEF StepOf, ProcessStep
<1>3. \A t \in Servers : SnapshotOf(t)'
  BY <1>1, <1>2
<1> QED BY <1>3 DEF SnapshotInv, AnswersTracked, AnswersAddUp, SnapshotOf

LEMMA SnapshotInvariant == ServerSpec => []SnapshotInv
<1>1. ServerInit => SnapshotInv
  <2> SUFFICES ASSUME ServerInit, NEW s \in Servers PROVE SnapshotOf(s)
    BY SnapshotInvIs
  <2> DEFINE new == NewAccount(StartingCash)
  <2>1. /\ pc[s] = "idle" /\ acct[s] = new /\ stdout[s] = << >> /\ ~duplicate[s]
    BY DEF ServerInit, Init
  <2>2. new \in AccountType /\ new.reserved = 0 /\ AccountAfter(<< >>) = new
    BY NewAccountType, AccountAfterNone DEF NewAccount
  <2> HIDE DEF new
  <2>3. AheadOfAnswers(s) = new
    BY <2>1, <2>2 DEF AheadOfAnswers
  <2>4. acct[s] = [AheadOfAnswers(s) EXCEPT !.reserved = acct[s].reserved]
    BY <2>1, <2>2, <2>3 DEF AccountType
  <2> QED BY <2>1, <2>2, <2>4 DEF SnapshotOf
<1>2. TypeInv /\ StreamInv /\ SnapshotInv /\ [ServerNext]_allVars => SnapshotInv'
  <2> SUFFICES ASSUME TypeInv, StreamInv, SnapshotInv, [ServerNext]_allVars
               PROVE  SnapshotInv'
    OBVIOUS
  <2>1. CASE UNCHANGED allVars
    BY <2>1 DEF allVars, vars, serverVars, SnapshotInv, AnswersTracked,
       AnswersAddUp, AheadOfAnswers
  <2> QED BY <2>1, SnapshotNext DEF ServerNext, StepOf
<1> QED BY <1>1, <1>2, ServerTypeInvariant, StreamInvariant, PTL DEF ServerSpec

\* Between calls the account is the sum of what was answered.
LEMMA AccountIsSum ==
    ASSUME TypeInv, SnapshotInv, ReservationReleased, NEW s \in Servers,
           pc[s] = "idle", AllSettled(stdout[s])
    PROVE  acct[s] = AccountAfter(stdout[s])
<1>1. /\ acct[s].reserved = 0
      /\ acct[s] = [AheadOfAnswers(s) EXCEPT !.reserved = acct[s].reserved]
      /\ AheadOfAnswers(s) = AccountAfter(stdout[s])
      /\ AccountAfter(stdout[s]) \in AccountType
      /\ AccountAfter(stdout[s]).reserved = 0
  BY SnapshotInvIs DEF SnapshotOf, ReservationReleased, AheadOfAnswers
<1> QED BY <1>1 DEF AccountType

LEMMA SnapshotFollowsNext ==
    ASSUME TypeInv, StreamInv, OneAnswerPerRequest, SnapshotInv, ReservationReleased,
           SnapshotFollowsAnswers, NEW s \in Servers, StepOf(s)
    PROVE  SnapshotFollowsAnswers'
<1> SUFFICES ASSUME NEW t \in Servers, NEW k \in DOMAIN stdout'[t],
                    stdout'[t][k].tool = "get-account-snapshot",
                    AllSettled(SubSeq(stdout'[t], 1, k - 1))
             PROVE  stdout'[t][k].body = AccountAfter(SubSeq(stdout'[t], 1, k - 1))
  BY DEF SnapshotFollowsAnswers, AllSettled
<1>0. stdout[t] \in Seq(Range(stdout[t])) /\ Len(stdout[t]) \in Nat
      /\ DOMAIN stdout[t] = 1..Len(stdout[t])
  BY DEF StreamInv
<1>1. CASE /\ k \in DOMAIN stdout[t] /\ stdout'[t][k] = stdout[t][k]
  <2>1. \A j \in 1..(k - 1) : stdout'[t][j] = stdout[t][j]
    <3>1. CASE t # s
      BY <3>1, OthersKeepStreams
    <3>2. CASE t = s /\ Silent(s)
      BY <3>2 DEF Silent
    <3>3. ASSUME t = s, NEW a, Answers(s, a)
          PROVE  \A j \in 1..(k - 1) : stdout'[t][j] = stdout[t][j]
      <4>1. \A j \in 1..Len(stdout[s]) : Append(stdout[s], a)[j] = stdout[s][j]
        BY <1>0, <3>3, SaySeq
      <4> QED BY <1>0, <1>1, <3>3, <4>1 DEF Answers
    <3>4. CASE t = s /\ Ends(s)
      BY <3>4 DEF Ends
    <3> QED BY <3>1, <3>2, <3>3, <3>4, StepShape
  <2>2. SubSeq(stdout'[t], 1, k - 1) = [j \in 1..(k - 1) |-> stdout'[t][j]]
        /\ SubSeq(stdout[t], 1, k - 1) = [j \in 1..(k - 1) |-> stdout[t][j]]
    BY <1>0, <1>1 DEF SubSeq
  <2>3. SubSeq(stdout'[t], 1, k - 1) = SubSeq(stdout[t], 1, k - 1)
    BY <2>1, <2>2
  <2> QED BY <1>1, <2>3 DEF SnapshotFollowsAnswers, AllSettled
<1>2. ASSUME NEW a, t = s, k = Len(stdout[s]) + 1, Answers(s, a), stdout'[s][k] = a
      PROVE  stdout'[t][k].body = AccountAfter(SubSeq(stdout'[t], 1, k - 1))
  <2>1. SubSeq(stdout'[t], 1, k - 1) = stdout[s]
    <3> DEFINE A == Range(stdout[s]) \cup {a}
    <3>1. stdout[s] \in Seq(A) /\ a \in A
      BY <1>0, <1>2 DEF Range
    <3> HIDE DEF A
    <3> QED BY <1>0, <1>2, <3>1 DEF Answers
  <2>2. ~SaidReadFails(s, a) /\ ~SaidSubmission(s, a)
    BY <1>2 DEF SaidReadFails, StoreTools, SaidSubmission, SubmissionAnswer, Envelope
  <2>3. PICK line \in Lines, now \in Times : SaidAtOnce(s, line, now, a)
    BY <1>2, <2>2, AnswerShape
  <2>4. pc[s] = "idle" /\ a = AnswerTo(s, line, taken[s] + 1, now)
    BY <2>3 DEF SaidAtOnce, Reads
  <2>5. a.body = CallTool("get-account-snapshot", line.args, rows, acct[s], now).body
    BY <1>2, <2>4 DEF AnswerTo, Envelope
  <2>6. a.body = acct[s]
    BY <2>5 DEF CallTool, Answered
  <2> QED BY <1>2, <2>1, <2>4, <2>6, AccountIsSum
<1> QED BY <1>1, <1>2, OldOrNew

\* A caller can compute the account from the answers to its submissions:
\* nothing else, of this process, of an earlier one or of another, is in it.
THEOREM SnapshotsFollow == ServerSpec => []SnapshotFollowsAnswers
<1>1. ServerInit => SnapshotFollowsAnswers
  BY DEF ServerInit, SnapshotFollowsAnswers
<1>2. TypeInv /\ StreamInv /\ OneAnswerPerRequest /\ SnapshotInv
          /\ ReservationReleased /\ SnapshotFollowsAnswers /\ [ServerNext]_allVars
          => SnapshotFollowsAnswers'
  <2> SUFFICES ASSUME TypeInv, StreamInv, OneAnswerPerRequest, SnapshotInv,
                      ReservationReleased, SnapshotFollowsAnswers,
                      [ServerNext]_allVars
               PROVE  SnapshotFollowsAnswers'
    OBVIOUS
  <2>1. CASE UNCHANGED allVars
    BY <2>1 DEF allVars, serverVars, SnapshotFollowsAnswers
  <2> QED BY <2>1, SnapshotFollowsNext DEF ServerNext, StepOf
<1> QED BY <1>1, <1>2, ServerTypeInvariant, StreamInvariant, EveryLineAnswered,
        SnapshotInvariant, ServerReservation, PTL DEF ServerSpec
=============================================================================
