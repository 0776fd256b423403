------------------------ MODULE BulkExecutorProofs ------------------------
(***************************************************************************)
(* Proofs about BulkExecutor, for every plan, schedule and timeout that    *)
(* meets its assumptions.                                                  *)
(***************************************************************************)
EXTENDS BulkExecutor, FiniteSetTheorems, TLAPS

---------------------------------------------------------------------------
(* The order of a resubmission. *)

\* InOrder lists a finite set of item ids, each once.
LEMMA InOrderBijection ==
  ASSUME NEW n \in Nat, NEW S \in SUBSET (1..n)
  PROVE  /\ Cardinality(S) \in Nat
         /\ InOrder(S) \in Bijection(1..Cardinality(S), S)
<1> DEFINE Below(i) == {j \in S : j < i}
           Rank == [i \in S |-> Cardinality(Below(i)) + 1]
           N == Cardinality(S)
<1>1. IsFiniteSet(S) /\ N \in Nat
  <2>1. IsFiniteSet(1..n)
    BY FS_Interval
  <2>2. IsFiniteSet(S)
    BY <2>1, FS_Subset
  <2> QED BY <2>2, FS_CardinalityType
<1>2. ASSUME NEW i \in S
      PROVE  /\ IsFiniteSet(Below(i))
             /\ Cardinality(Below(i)) \in Nat
             /\ Cardinality(Below(i)) < N
  <2>1. Below(i) \in SUBSET S /\ Below(i) # S
    OBVIOUS
  <2>2. IsFiniteSet(Below(i)) /\ Cardinality(Below(i)) <= N
    BY <1>1, <2>1, FS_Subset
  <2>3. Cardinality(Below(i)) \in Nat
    BY <2>2, FS_CardinalityType
  <2>4. Cardinality(Below(i)) # N
    BY <1>1, <2>1, FS_Subset
  <2> QED BY <1>1, <2>2, <2>3, <2>4
<1>3. ASSUME NEW i \in S, NEW k \in S, i < k
      PROVE  Cardinality(Below(i)) < Cardinality(Below(k))
  <2>0. \A j \in S : j \in Int
    OBVIOUS
  <2>1. Below(i) \in SUBSET Below(k) /\ i \in Below(k) /\ i \notin Below(i)
    <3>1. \A j \in S : j < i => j < k
      BY <1>3, <2>0
    <3>2. Below(i) \subseteq Below(k)
      BY <3>1
    <3>3. i \in Below(k) /\ i \notin Below(i)
      BY <1>3, <2>0
    <3> QED BY <3>2, <3>3
  <2>4. IsFiniteSet(Below(k)) /\ Below(i) # Below(k)
    BY <1>2, <2>1
  <2>5. Cardinality(Below(i)) \in Nat /\ Cardinality(Below(k)) \in Nat
    BY <1>2
  <2> HIDE DEF Below
  <2>2. Cardinality(Below(i)) <= Cardinality(Below(k))
    BY <2>1, <2>4, FS_Subset
  <2>3. Cardinality(Below(i)) # Cardinality(Below(k))
    BY <2>1, <2>4, FS_Subset
  <2> QED BY <2>2, <2>3, <2>5
<1>4. Rank \in Injection(S, 1..N)
  <2>1. Rank \in [S -> 1..N]
    BY <1>1, <1>2
  <2>2. ASSUME NEW i \in S, NEW k \in S, Rank[i] = Rank[k] PROVE i = k
    <3>1. i \in Int /\ k \in Int
      OBVIOUS
    <3>2. Cardinality(Below(i)) = Cardinality(Below(k))
      BY <1>2, <2>2
    <3> HIDE DEF Below, Rank
    <3>3. ~(i < k) /\ ~(k < i)
      BY <1>2, <1>3, <3>2
    <3> QED BY <3>1, <3>3
  <2> QED BY <2>1, <2>2 DEF Injection, IsInjective
<1>5. Rank \in Surjection(S, 1..N)
  <2>1. IsFiniteSet(1..N) /\ Cardinality(1..N) = N
    BY <1>1, FS_Interval
  <2> QED BY <1>1, <1>4, <2>1, FS_Injection
<1>6. ASSUME NEW k \in 1..N
      PROVE  InOrder(S)[k] \in S /\ Rank[InOrder(S)[k]] = k
  <2>1. PICK i \in S : Rank[i] = k
    BY <1>5 DEF Surjection
  <2>2. Cardinality(Below(i)) = k - 1
    BY <1>2, <2>1
  <2>3. InOrder(S)[k] = CHOOSE j \in S : Cardinality(Below(j)) = k - 1
    BY DEF InOrder
  <2>4. InOrder(S)[k] \in S /\ Cardinality(Below(InOrder(S)[k])) = k - 1
    BY <2>2, <2>3
  <2> QED BY <2>4
<1>7. InOrder(S) \in [1..N -> S]
  BY <1>6 DEF InOrder
<1>8. \A i, k \in 1..N : InOrder(S)[i] = InOrder(S)[k] => i = k
  BY <1>6
<1>9. \A i \in S : \E k \in 1..N : InOrder(S)[k] = i
  <2> TAKE i \in S
  <2>1. Rank[i] \in 1..N
    BY <1>4 DEF Injection
  <2>2. Rank[InOrder(S)[Rank[i]]] = Rank[i] /\ InOrder(S)[Rank[i]] \in S
    BY <1>6, <2>1
  <2>3. InOrder(S)[Rank[i]] = i
    BY <1>4, <2>2 DEF Injection, IsInjective
  <2> QED BY <2>1, <2>3
<1> QED BY <1>1, <1>7, <1>8, <1>9 DEF Bijection, Injection, Surjection, IsInjective

---------------------------------------------------------------------------
(* Facts about the plan. *)

LEMMA ScheduleFacts ==
  /\ Len(Schedule) \in Nat
  /\ DOMAIN Schedule = 1..Len(Schedule)
  /\ \A c \in DOMAIN Schedule :
       /\ Schedule[c] \in Seq(BulkOp)
       /\ IsInjective(Schedule[c])
       /\ Range(Schedule[c]) \subseteq BulkOp
  /\ \A o \in BulkOp : \E c \in DOMAIN Schedule : o \in Range(Schedule[c])
<1>1. /\ Len(Schedule) \in Nat
      /\ DOMAIN Schedule = 1..Len(Schedule)
      /\ \A c \in DOMAIN Schedule : Schedule[c] \in Seq(BulkOp)
  BY ScheduleAssumption
<1>2. \A s \in Seq(BulkOp) : Range(s) \subseteq BulkOp
  BY DEF Range
<1> QED BY <1>1, <1>2, ScheduleAssumption

\* An operation has one chunk.
LEMMA OneChunk ==
  ASSUME NEW c \in DOMAIN Schedule, NEW d \in DOMAIN Schedule, NEW o,
         o \in Range(Schedule[c]), o \in Range(Schedule[d])
  PROVE  c = d
<1>1. c \in Int /\ d \in Int
  BY ScheduleFacts
<1>2. ~(c < d)
  BY ScheduleAssumption
<1>3. ~(d < c)
  BY ScheduleAssumption
<1> QED BY <1>1, <1>2, <1>3

LEMMA DirectFacts ==
  /\ Len(Direct) \in Nat
  /\ DOMAIN Direct = 1..Len(Direct)
  /\ \A i \in DOMAIN Direct : Direct[i] \in DirectOp /\ Direct[i] \notin BulkOp
  /\ \A i, j \in DOMAIN Direct : Direct[i] = Direct[j] => i = j
  /\ \A o \in DirectOp : \E i \in DOMAIN Direct : Direct[i] = o
BY DirectAssumption, OpAssumption DEF Range, IsInjective

---------------------------------------------------------------------------
(* What a report and a resubmission do. *)

\* A report counts each of its items once and leaves the others alone.
LEMMA ReportEffect ==
  ASSUME IInv, pc \in {"submit", "wait"},
         NEW ids \in SUBSET DOMAIN batch,
         NEW verdict \in [DOMAIN batch -> Verdict],
         Report(ids, verdict)
  PROVE  /\ outcome' \in [Op -> Verdict \cup {"none"}]
         /\ counted' \in [Op -> Nat]
         /\ \A i \in DOMAIN batch : i \in ids =>
              outcome'[batch[i]] = verdict[i] /\ counted'[batch[i]] = 1
         /\ \A o \in Op : (\A i \in ids : batch[i] # o) =>
              outcome'[o] = outcome[o] /\ counted'[o] = counted[o]
<1> DEFINE item(o) == {i \in ids : batch[i] = o}
<1>1. /\ outcome \in [Op -> Verdict \cup {"none"}]
      /\ counted \in [Op -> Nat]
      /\ batch \in Seq(BulkOp)
      /\ IsInjective(batch)
      /\ cursor \in DOMAIN Schedule
      /\ Range(batch) \subseteq Range(Schedule[cursor])
  BY DEF IInv, TypeOK, BatchInv
<1>2. /\ outcome' = [o \in Op |-> IF item(o) = {} THEN outcome[o]
                                  ELSE verdict[CHOOSE i \in item(o) : TRUE]]
      /\ counted' = [o \in Op |-> IF item(o) = {} THEN counted[o]
                                  ELSE counted[o] + 1]
  BY DEF Report, ItemsOf
<1>3. \A o \in Op : item(o) # {} => (CHOOSE i \in item(o) : TRUE) \in item(o)
  OBVIOUS
<1>4. ASSUME NEW i \in ids
      PROVE  /\ batch[i] \in BulkOp
             /\ batch[i] \in Op
             /\ item(batch[i]) = {i}
             /\ counted[batch[i]] = 0
  <2>1. batch[i] \in BulkOp /\ batch[i] \in Op /\ batch[i] \in Range(batch)
    BY <1>1 DEF Op, Range
  <2>2. item(batch[i]) = {i}
    BY <1>1 DEF IsInjective
  <2>3. cursor \in Int
    BY <1>1, ScheduleFacts
  <2>4. counted[batch[i]] = 0
    BY <1>1, <2>1, <2>3 DEF IInv, CountInv
  <2> QED BY <2>1, <2>2, <2>4
<1>5. outcome' \in [Op -> Verdict \cup {"none"}]
  BY <1>1, <1>2, <1>3
<1>6. counted' \in [Op -> Nat]
  BY <1>1, <1>2
<1>7. ASSUME NEW i \in ids
      PROVE  outcome'[batch[i]] = verdict[i] /\ counted'[batch[i]] = 1
  <2>1. (CHOOSE j \in item(batch[i]) : TRUE) = i
    BY <1>4
  <2> HIDE DEF item
  <2> QED BY <1>2, <1>4, <2>1
<1>8. ASSUME NEW o \in Op, \A i \in ids : batch[i] # o
      PROVE  outcome'[o] = outcome[o] /\ counted'[o] = counted[o]
  <2>1. item(o) = {}
    BY <1>8
  <2> QED BY <1>2, <2>1
<1> QED BY <1>4, <1>5, <1>6, <1>7, <1>8

\* The bulk of the retried items holds their operations, each once.
LEMMA RetryBatch ==
  ASSUME NEW b \in Seq(BulkOp), IsInjective(b), NEW S \in SUBSET DOMAIN b
  PROVE  LET r == [k \in 1..Cardinality(S) |-> b[InOrder(S)[k]]]
         IN  /\ r \in Seq(BulkOp)
             /\ IsInjective(r)
             /\ Range(r) = {b[i] : i \in S}
<1> DEFINE N == Cardinality(S)
           r == [k \in 1..N |-> b[InOrder(S)[k]]]
<1>1. /\ N \in Nat
      /\ InOrder(S) \in Bijection(1..N, S)
  <2>1. Len(b) \in Nat /\ S \in SUBSET (1..Len(b))
    OBVIOUS
  <2> QED BY <2>1, InOrderBijection
<1>2. /\ InOrder(S) \in [1..N -> S]
      /\ \A i, k \in 1..N : InOrder(S)[i] = InOrder(S)[k] => i = k
      /\ \A i \in S : \E k \in 1..N : InOrder(S)[k] = i
  BY <1>1 DEF Bijection, Injection, Surjection, IsInjective
<1>3. \A k \in 1..N : b[InOrder(S)[k]] \in BulkOp
  BY <1>2
<1>4. r \in Seq(BulkOp)
  BY <1>1, <1>3
<1>5. IsInjective(r)
  BY <1>2 DEF IsInjective
<1>6. Range(r) = {b[i] : i \in S}
  <2>1. Range(r) = {b[InOrder(S)[k]] : k \in 1..N}
    BY DEF Range
  <2>2. \A k \in 1..N : InOrder(S)[k] \in S
    BY <1>2
  <2> QED BY <1>2, <2>1, <2>2
<1> QED BY <1>4, <1>5, <1>6

---------------------------------------------------------------------------
(* The invariant IInv. *)

LEMMA InitIInv == Init => IInv
<1> SUFFICES ASSUME Init PROVE IInv
  OBVIOUS
<1>1. TypeOK
  BY ScheduleFacts, DirectFacts, TimeoutAssumption
     DEF Init, TypeOK, Attempt, Status, Op, Verdict
<1>2. DirectInv
  BY DirectFacts DEF Init, DirectInv, Op
<1>3. BatchInv
  BY ScheduleFacts DEF Init, BatchInv, IsInjective
<1>4. CountInv
  BY ScheduleFacts DEF Init, CountInv, Op
<1>5. QueueInv
  BY ScheduleFacts DEF Init, QueueInv, Scheduled, Attempt, Range
<1>6. RunningInv
  BY DEF Init, RunningInv, Running, Unsettled
<1>7. VerdictSound /\ \A o \in Op : counted[o] = 0 <=> outcome[o] = "none"
  BY DEF Init, VerdictSound, Op
<1> QED BY <1>1, <1>2, <1>3, <1>4, <1>5, <1>6, <1>7 DEF IInv

\* Every step that ends a bulk, or the direct operations, in verdicts the
\* store bears out keeps the invariant.
LEMMA Advance ==
  ASSUME IInv, pc \in {"direct", "submit", "wait"},
         pc = "direct" => sent = Len(Direct),
         StartChunk, sent' = sent,
         outcome' \in [Op -> Verdict \cup {"none"}],
         counted' \in [Op -> Nat],
         mq' \in [BulkOp -> [Attempt -> Status]],
         unacked' \in SUBSET BulkOp,
         \A o \in Range(batch) : counted'[o] = 1 /\ outcome'[o] \in Verdict,
         \A o \in Op : o \notin Range(batch) =>
           outcome'[o] = outcome[o] /\ counted'[o] = counted[o],
         \A o \in BulkOp : o \notin Range(batch) =>
           mq'[o] = mq[o] /\ (o \in unacked' <=> o \in unacked),
         \A o \in Range(batch) :
           /\ mq'[o][2] # "none" => mq'[o][1] = "retriable"
           /\ (\E a \in Attempt : mq'[o][a] \in Unsettled) =>
                outcome'[o] = "pending" \/ o \in unacked'
           /\ outcome'[o] = "succeeded" => \E a \in Attempt : mq'[o][a] = "complete"
           /\ outcome'[o] = "failed" /\ o \notin unacked' =>
                \A a \in Attempt : mq'[o][a] \notin Unsettled \cup {"complete"}
  PROVE  IInv'
<1>1. /\ cursor \in 0..Len(Schedule)
      /\ cursor \in Int
      /\ batch \in Seq(BulkOp)
      /\ sent = Len(Direct)
      /\ Len(Schedule) \in Nat
      /\ DOMAIN Schedule = 1..Len(Schedule)
  BY ScheduleFacts DEF IInv, TypeOK, BatchInv, DirectInv
<1>2. /\ cursor' = cursor + 1
      /\ attempt' = 1
      /\ rejected' = {}
      /\ elapsed' = 0
      /\ cursor < Len(Schedule) => pc' = "submit" /\ batch' = Schedule[cursor + 1]
      /\ ~(cursor < Len(Schedule)) => pc' = "done" /\ batch' = <<>>
  BY DEF StartChunk
<1>3. Range(batch) \subseteq BulkOp /\ BulkOp \subseteq Op
  BY <1>1 DEF Range, Op
<1>4. \A c \in DOMAIN Schedule : \A o \in Range(Schedule[c]) :
        o \in BulkOp /\ (o \in Range(batch) => c = cursor)
  <2> SUFFICES ASSUME NEW c \in DOMAIN Schedule, NEW o \in Range(Schedule[c]),
                      o \in Range(batch)
               PROVE  c = cursor
    BY ScheduleFacts
  <2>1. batch # <<>>
    BY DEF Range
  <2>2. cursor \in DOMAIN Schedule /\ Range(batch) \subseteq Range(Schedule[cursor])
    BY <2>1 DEF IInv, BatchInv
  <2> QED BY <2>2, OneChunk
<1>5. batch' \in Seq(BulkOp) /\ IsInjective(batch')
  <2>1. CASE cursor < Len(Schedule)
    <3>1. cursor + 1 \in DOMAIN Schedule
      BY <1>1, <2>1
    <3> QED BY <1>2, <2>1, <3>1, ScheduleFacts
  <2>2. CASE ~(cursor < Len(Schedule))
    BY <1>2, <2>2 DEF IsInjective
  <2> QED BY <2>1, <2>2
<1>6. TypeOK'
  BY <1>1, <1>2, <1>5, DirectFacts, TimeoutAssumption DEF TypeOK, Attempt
<1>7. DirectInv'
  <2>1. \A i \in DOMAIN Direct : counted'[Direct[i]] = counted[Direct[i]]
    BY <1>3, DirectFacts DEF Op
  <2>2. \A i \in DOMAIN Direct : counted'[Direct[i]] = IF i <= sent' THEN 1 ELSE 0
    BY <2>1 DEF IInv, DirectInv
  <2> QED BY <1>1, <1>2, <2>2 DEF DirectInv
<1>8. BatchInv'
  <2>1. cursor' \in DOMAIN Schedule <=> cursor < Len(Schedule)
    BY <1>1, <1>2
  <2> QED BY <1>1, <1>2, <1>5, <2>1 DEF BatchInv
<1>9. CountInv'
  <2> SUFFICES ASSUME NEW c \in DOMAIN Schedule, NEW o \in Range(Schedule[c])
               PROVE  counted'[o] = IF c > cursor' \/ (c = cursor' /\ o \in Range(batch'))
                                    THEN 0 ELSE 1
    BY DEF CountInv
  <2>1. o \in Op /\ c \in Int /\ c >= 1 /\ c <= Len(Schedule)
    BY <1>1, <1>3, <1>4
  <2>2. counted[o] = IF c > cursor \/ (c = cursor /\ o \in Range(batch)) THEN 0 ELSE 1
    BY DEF IInv, CountInv
  <2>3. CASE o \in Range(batch)
    BY <1>1, <1>2, <1>4, <2>1, <2>3
  <2>4. CASE o \notin Range(batch) /\ c <= cursor
    <3>1. counted'[o] = 1
      BY <1>1, <2>1, <2>2, <2>4
    <3> QED BY <1>1, <1>2, <2>1, <2>4, <3>1
  <2>5. CASE o \notin Range(batch) /\ c > cursor
    <3>1. counted'[o] = 0
      BY <2>1, <2>2, <2>5
    <3>2. c > cursor + 1 \/ c = cursor + 1
      BY <1>1, <2>1, <2>5
    <3>3. c = cursor + 1 => batch' = Schedule[c]
      BY <1>1, <1>2, <2>1
    <3> QED BY <1>2, <3>1, <3>2, <3>3
  <2> QED BY <1>1, <2>1, <2>3, <2>4, <2>5
<1>10. QueueInv'
  <2>1. \A c \in DOMAIN Schedule : \A o \in Range(Schedule[c]) :
          c > cursor => \A a \in Attempt : mq'[o][a] = "none"
    <3> SUFFICES ASSUME NEW c \in DOMAIN Schedule, NEW o \in Range(Schedule[c]),
                        c > cursor
                 PROVE  \A a \in Attempt : mq'[o][a] = "none"
      OBVIOUS
    <3>1. o \in BulkOp /\ o \notin Range(batch)
      BY <1>1, <1>4
    <3>2. \A a \in Attempt : mq[o][a] = "none"
      BY DEF IInv, QueueInv, Scheduled
    <3> QED BY <3>1, <3>2
  <2>2. \A o \in BulkOp : mq'[o][2] # "none" => mq'[o][1] = "retriable"
    BY DEF IInv, QueueInv
  <2>3. \A o \in Range(batch') : \A a \in Attempt : mq'[o][a] = "none"
    <3>1. CASE cursor < Len(Schedule)
      <4>1. cursor + 1 \in DOMAIN Schedule /\ cursor + 1 > cursor
        BY <1>1, <3>1
      <4> QED BY <1>2, <2>1, <3>1, <4>1
    <3>2. CASE ~(cursor < Len(Schedule))
      BY <1>2, <3>2 DEF Range
    <3> QED BY <3>1, <3>2
  <2>4. \A c \in DOMAIN Schedule : c > cursor' => c > cursor
    BY <1>1, <1>2
  <2>5. pc' # "wait"
    BY <1>2
  <2> QED BY <1>2, <2>1, <2>2, <2>3, <2>4, <2>5 DEF QueueInv, Scheduled, Attempt
<1>11. RunningInv'
  <2> SUFFICES ASSUME NEW o \in BulkOp, \E a \in Attempt : mq'[o][a] \in Unsettled
               PROVE  outcome'[o] = "pending" \/ o \in unacked'
    BY DEF RunningInv, Running
  <2>1. CASE o \in Range(batch)
    BY <2>1
  <2>2. CASE o \notin Range(batch)
    <3>1. Running(o) /\ outcome'[o] = outcome[o] /\ (o \in unacked' <=> o \in unacked)
      BY <1>3, <2>2 DEF Running
    <3> QED BY <2>2, <3>1 DEF IInv, RunningInv
  <2> QED BY <2>1, <2>2
<1>12. \A o \in Op : counted'[o] = 0 <=> outcome'[o] = "none"
  <2> TAKE o \in Op
  <2>1. CASE o \in Range(batch)
    BY <2>1 DEF Verdict
  <2>2. CASE o \notin Range(batch)
    BY <2>2 DEF IInv
  <2> QED BY <2>1, <2>2
<1>13. VerdictSound'
  <2> SUFFICES ASSUME NEW o \in BulkOp
               PROVE  /\ outcome'[o] = "succeeded" =>
                           \E a \in Attempt : mq'[o][a] = "complete"
                      /\ outcome'[o] = "failed" /\ o \notin unacked' =>
                           \A a \in Attempt : mq'[o][a] \notin Unsettled \cup {"complete"}
    BY DEF VerdictSound, Effective
  <2>1. CASE o \in Range(batch)
    BY <2>1
  <2>2. CASE o \notin Range(batch)
    BY <1>3, <2>2 DEF IInv, VerdictSound, Effective
  <2> QED BY <2>1, <2>2
<1> QED BY <1>6, <1>7, <1>8, <1>9, <1>10, <1>11, <1>12, <1>13 DEF IInv

LEMMA SendDirectStep == IInv /\ SendDirect => IInv'
<1> SUFFICES ASSUME IInv, SendDirect PROVE IInv'
  OBVIOUS
<1> DEFINE d == Direct[sent + 1]
<1>1. /\ pc = "direct" /\ pc' = pc
      /\ sent \in Nat /\ sent < Len(Direct) /\ sent' = sent + 1
      /\ counted \in [Op -> Nat]
      /\ outcome \in [Op -> Verdict \cup {"none"}]
      /\ counted' = [counted EXCEPT ![d] = @ + 1]
      /\ UNCHANGED <<cursor, batch, attempt, rejected, elapsed, mq, unacked>>
  BY DirectFacts DEF SendDirect, IInv, TypeOK, wait, magento
<1>2. PICK v \in {"succeeded", "failed"} : outcome' = [outcome EXCEPT ![d] = v]
  BY DEF SendDirect
<1>3. sent + 1 \in DOMAIN Direct /\ d \in DirectOp /\ d \in Op /\ d \notin BulkOp
  BY <1>1, DirectFacts DEF Op
<1>4. counted[d] = 0
  BY <1>1, <1>3 DEF IInv, DirectInv
<1>5. \A o \in BulkOp : counted'[o] = counted[o] /\ outcome'[o] = outcome[o]
  BY <1>1, <1>2, <1>3 DEF Op
<1>6. TypeOK'
  <2>1. sent' \in 0..Len(Direct)
    BY <1>1, DirectFacts
  <2>2. outcome' \in [Op -> Verdict \cup {"none"}]
    BY <1>1, <1>2, <1>3 DEF Verdict
  <2>3. counted' \in [Op -> Nat]
    BY <1>1, <1>3
  <2> QED BY <1>1, <2>1, <2>2, <2>3 DEF IInv, TypeOK
<1>7. DirectInv'
  <2> SUFFICES ASSUME NEW i \in DOMAIN Direct
               PROVE  counted'[Direct[i]] = IF i <= sent + 1 THEN 1 ELSE 0
    BY <1>1 DEF IInv, DirectInv
  <2>1. CASE i = sent + 1
    BY <1>1, <1>3, <1>4, <2>1
  <2>2. CASE i # sent + 1
    <3>1. Direct[i] # d /\ Direct[i] \in Op
      BY <1>3, <2>2, DirectFacts DEF Op
    <3>2. counted'[Direct[i]] = counted[Direct[i]]
      BY <1>1, <3>1
    <3> QED BY <1>1, <2>2, <3>2, DirectFacts DEF IInv, DirectInv
  <2> QED BY <2>1, <2>2
<1>8. BatchInv'
  BY <1>1 DEF IInv, BatchInv
<1>9. CountInv'
  BY <1>1, <1>5, ScheduleFacts DEF IInv, CountInv
<1>10. QueueInv' /\ RunningInv' /\ VerdictSound'
  BY <1>1, <1>5 DEF IInv, QueueInv, RunningInv, VerdictSound, Scheduled, Running, Effective
<1>11. \A o \in Op : counted'[o] = 0 <=> outcome'[o] = "none"
  BY <1>1, <1>2, <1>3, <1>4 DEF IInv
<1> QED BY <1>6, <1>7, <1>8, <1>9, <1>10, <1>11 DEF IInv

LEMMA DirectDoneStep == IInv /\ DirectDone => IInv'
<1> SUFFICES ASSUME IInv, DirectDone PROVE IInv'
  OBVIOUS
<1>1. pc = "direct" /\ sent = Len(Direct) /\ StartChunk /\ sent' = sent
      /\ UNCHANGED <<outcome, counted, mq, unacked>>
  BY DEF DirectDone, result, magento
<1>2. batch = <<>>
  BY <1>1, ScheduleFacts DEF IInv, BatchInv, DirectInv
<1>3. Range(batch) = {}
  BY <1>2 DEF Range
<1>4. TypeOK
  BY DEF IInv
<1> QED BY <1>1, <1>3, <1>4, Advance DEF TypeOK

\* Ending a run in the middle changes nothing the invariant speaks of.
LEMMA AbortStep ==
  ASSUME IInv, pc \in {"direct", "submit", "wait"}, pc' = "aborted",
         UNCHANGED <<sent, cursor, wait, result, magento>>
  PROVE  IInv'
<1>1. UNCHANGED <<sent, cursor, batch, attempt, rejected, elapsed, outcome, counted, mq, unacked>>
  BY DEF wait, result, magento
<1>2. TypeOK' /\ DirectInv' /\ BatchInv' /\ CountInv'
  BY <1>1 DEF IInv, TypeOK, DirectInv, BatchInv, CountInv
<1>3. QueueInv' /\ VerdictSound' /\ \A o \in Op : counted'[o] = 0 <=> outcome'[o] = "none"
  BY <1>1 DEF IInv, QueueInv, VerdictSound, Scheduled, Effective
<1>4. RunningInv'
  BY <1>1 DEF IInv, RunningInv, Running
<1> QED BY <1>2, <1>3, <1>4 DEF IInv

\* What Enqueue(ids) does to Magento's queues before an attempt that has
\* nothing queued yet.
LEMMA EnqueueEffect ==
  ASSUME IInv, pc = "submit", NEW ids \in SUBSET DOMAIN batch, Enqueue(ids)
  PROVE  /\ mq' \in [BulkOp -> [Attempt -> Status]]
         /\ \A i \in ids : mq'[batch[i]][attempt] = "open"
         /\ \A o \in BulkOp : (\A i \in ids : batch[i] # o) => mq'[o] = mq[o]
         /\ \A o \in BulkOp : \A a \in Attempt : a # attempt => mq'[o][a] = mq[o][a]
         /\ \A o \in BulkOp : mq'[o][2] # "none" => mq'[o][1] = "retriable"
<1>1. /\ mq \in [BulkOp -> [Attempt -> Status]] /\ attempt \in Attempt
      /\ batch \in Seq(BulkOp)
  BY DEF IInv, TypeOK
<1>2. mq' = [o \in BulkOp |-> IF {i \in ids : batch[i] = o} = {} THEN mq[o]
                              ELSE [mq[o] EXCEPT ![attempt] = "open"]]
  BY DEF Enqueue, ItemsOf
<1>3. \A o \in BulkOp : [mq[o] EXCEPT ![attempt] = "open"] \in [Attempt -> Status]
  BY <1>1 DEF Status, Unsettled
<1>4. mq' \in [BulkOp -> [Attempt -> Status]]
  BY <1>1, <1>2, <1>3
<1>5. \A i \in ids : batch[i] \in BulkOp /\ batch[i] \in Range(batch)
  BY <1>1 DEF Range
<1>6. \A i \in ids : mq'[batch[i]][attempt] = "open"
  BY <1>1, <1>2, <1>5
<1>7. \A o \in BulkOp : (\A i \in ids : batch[i] # o) => mq'[o] = mq[o]
  BY <1>2
<1>8. \A o \in BulkOp : \A a \in Attempt : a # attempt => mq'[o][a] = mq[o][a]
  BY <1>1, <1>2
<1>9. ASSUME NEW o \in BulkOp, mq'[o][2] # "none" PROVE mq'[o][1] = "retriable"
  <2>1. CASE \A i \in ids : batch[i] # o
    BY <1>7, <1>9, <2>1 DEF IInv, QueueInv
  <2>2. CASE \E i \in ids : batch[i] = o
    <3>1. o \in Range(batch)
      BY <1>5, <2>2
    <3>2. CASE attempt = 1
      <4>1. mq[o][2] = "none"
        BY <3>1, <3>2 DEF IInv, QueueInv
      <4> QED BY <1>8, <1>9, <3>2, <4>1 DEF Attempt
    <3>3. CASE attempt = 2
      <4>1. mq[o][1] = "retriable"
        BY <3>1, <3>3 DEF IInv, QueueInv
      <4> QED BY <1>8, <3>3, <4>1 DEF Attempt
    <3> QED BY <1>1, <3>2, <3>3 DEF Attempt
  <2> QED BY <2>1, <2>2
<1> QED BY <1>4, <1>6, <1>7, <1>8, <1>9

\* The bulk in hand is undecided.
LEMMA Undecided ==
  ASSUME IInv, pc \in {"submit", "wait"}
  PROVE  /\ cursor \in DOMAIN Schedule
         /\ Range(batch) \subseteq BulkOp
         /\ Range(batch) \subseteq Range(Schedule[cursor])
         /\ \A o \in Range(batch) : o \in Op /\ counted[o] = 0 /\ outcome[o] = "none"
         /\ \A c \in DOMAIN Schedule : \A o \in Range(Schedule[c]) :
              c > cursor => o \notin Range(batch)
<1>1. cursor \in DOMAIN Schedule /\ Range(batch) \subseteq Range(Schedule[cursor])
  BY DEF IInv, BatchInv
<1>2. cursor \in Int /\ Range(batch) \subseteq BulkOp /\ BulkOp \subseteq Op
  BY <1>1, ScheduleFacts DEF Op
<1>3. \A o \in Range(batch) : counted[o] = 0
  BY <1>1, <1>2 DEF IInv, CountInv
<1>4. \A o \in Range(batch) : outcome[o] = "none"
  BY <1>2, <1>3 DEF IInv
<1>5. ASSUME NEW c \in DOMAIN Schedule, NEW o \in Range(Schedule[c]), c > cursor
      PROVE  o \notin Range(batch)
  <2>1. c # cursor
    BY <1>2, <1>5
  <2> QED BY <1>1, <2>1, OneChunk
<1> QED BY <1>1, <1>2, <1>3, <1>4, <1>5

LEMMA SubmitStep == IInv /\ Submit => IInv'
<1> SUFFICES ASSUME IInv, Submit PROVE IInv'
  OBVIOUS
<1>1. PICK ids \in SUBSET DOMAIN batch :
        rejected' = ids /\ Enqueue(DOMAIN batch \ ids)
  BY DEF Submit
<1>2. /\ pc = "submit" /\ pc' = "wait" /\ elapsed' = 0
      /\ UNCHANGED <<sent, cursor, batch, attempt, outcome, counted, unacked>>
  BY DEF Submit, result
<1> DEFINE queued == DOMAIN batch \ ids
<1>3. /\ mq' \in [BulkOp -> [Attempt -> Status]]
      /\ \A i \in queued : mq'[batch[i]][attempt] = "open"
      /\ \A o \in BulkOp : (\A i \in queued : batch[i] # o) => mq'[o] = mq[o]
      /\ \A o \in BulkOp : \A a \in Attempt : a # attempt => mq'[o][a] = mq[o][a]
      /\ \A o \in BulkOp : mq'[o][2] # "none" => mq'[o][1] = "retriable"
  <2>1. queued \in SUBSET DOMAIN batch /\ Enqueue(queued)
    BY <1>1
  <2> HIDE DEF queued
  <2> QED BY <1>2, <2>1, EnqueueEffect
<1>4. \A o \in BulkOp : o \notin Range(batch) => mq'[o] = mq[o]
  BY <1>3 DEF Range
<1>5. attempt \in {1, 2} /\ \A i \in DOMAIN batch : batch[i] \in Range(batch)
  BY DEF IInv, TypeOK, Attempt, Range
<1>6. TypeOK'
  BY <1>1, <1>2, <1>3, TimeoutAssumption DEF IInv, TypeOK
<1>7. DirectInv' /\ BatchInv' /\ CountInv'
  BY <1>2 DEF IInv, DirectInv, BatchInv, CountInv
<1>8. QueueInv'
  <2>1. \A c \in DOMAIN Schedule : \A o \in Range(Schedule[c]) :
          c > cursor => \A a \in Attempt : mq'[o][a] = "none"
    <3> SUFFICES ASSUME NEW c \in DOMAIN Schedule, NEW o \in Range(Schedule[c]), c > cursor
                 PROVE  \A a \in Attempt : mq'[o][a] = "none"
      OBVIOUS
    <3>1. o \in BulkOp /\ o \notin Range(batch)
      BY <1>2, Undecided, ScheduleFacts
    <3>2. \A a \in Attempt : mq[o][a] = "none"
      BY DEF IInv, QueueInv, Scheduled
    <3> QED BY <1>4, <3>1, <3>2
  <2>2. attempt = 2 => \A o \in Range(batch) : mq'[o][1] = "retriable"
    BY <1>2, <1>3, Undecided DEF IInv, QueueInv, Attempt
  <2>3. attempt = 1 => \A o \in Range(batch) : mq'[o][2] = "none"
    BY <1>2, <1>3, Undecided DEF IInv, QueueInv, Attempt
  <2>4. ASSUME NEW i \in DOMAIN batch
        PROVE  mq'[batch[i]][attempt] = "none" <=> i \in ids
    <3>1. CASE i \in ids
      <4>1. \A j \in queued : batch[j] # batch[i]
        BY <3>1 DEF IInv, BatchInv, IsInjective
      <4>2. mq'[batch[i]] = mq[batch[i]]
        BY <1>2, <1>3, <1>5, <4>1, Undecided
      <4> QED BY <1>2, <1>5, <3>1, <4>2 DEF IInv, QueueInv
    <3>2. CASE i \notin ids
      BY <1>3, <3>2
    <3> QED BY <3>1, <3>2
  <2> QED BY <1>1, <1>2, <1>3, <2>1, <2>2, <2>3, <2>4 DEF QueueInv, Scheduled
<1>9. RunningInv'
  BY <1>2, <1>4 DEF IInv, RunningInv, Running
<1>10. VerdictSound'
  BY <1>2, <1>4, Undecided DEF IInv, VerdictSound, Effective
<1> QED BY <1>2, <1>6, <1>7, <1>8, <1>9, <1>10 DEF IInv

LEMMA SubmitAbortedStep == IInv /\ SubmitAborted => IInv'
<1> SUFFICES ASSUME IInv, SubmitAborted PROVE IInv'
  OBVIOUS
<1>1. /\ pc = "submit" /\ pc' = "aborted"
      /\ UNCHANGED <<sent, cursor, batch, attempt, rejected, elapsed, outcome, counted, unacked>>
  BY DEF SubmitAborted, wait, result
<1>2. CASE UNCHANGED mq
  BY <1>1, <1>2, AbortStep DEF wait, result, magento
<1>3. CASE Enqueue(DOMAIN batch)
  <2>1. /\ mq' \in [BulkOp -> [Attempt -> Status]]
        /\ \A o \in BulkOp : (\A i \in DOMAIN batch : batch[i] # o) => mq'[o] = mq[o]
        /\ \A o \in BulkOp : \A a \in Attempt : a # attempt => mq'[o][a] = mq[o][a]
        /\ \A o \in BulkOp : mq'[o][2] # "none" => mq'[o][1] = "retriable"
    BY <1>1, <1>3, EnqueueEffect
  <2>2. \A o \in BulkOp : o \notin Range(batch) => mq'[o] = mq[o]
    BY <2>1 DEF Range
  <2>3. TypeOK'
    BY <1>1, <2>1 DEF IInv, TypeOK
  <2>4. DirectInv' /\ BatchInv' /\ CountInv'
    BY <1>1 DEF IInv, DirectInv, BatchInv, CountInv
  <2>5. QueueInv'
    <3>1. \A c \in DOMAIN Schedule : \A o \in Range(Schedule[c]) :
            c > cursor => \A a \in Attempt : mq'[o][a] = "none"
      <4> SUFFICES ASSUME NEW c \in DOMAIN Schedule, NEW o \in Range(Schedule[c]), c > cursor
                   PROVE  \A a \in Attempt : mq'[o][a] = "none"
        OBVIOUS
      <4>1. o \in BulkOp /\ o \notin Range(batch)
        BY <1>1, Undecided, ScheduleFacts
      <4>2. \A a \in Attempt : mq[o][a] = "none"
        BY DEF IInv, QueueInv, Scheduled
      <4> QED BY <2>2, <4>1, <4>2
    <3>2. attempt = 2 => \A o \in Range(batch) : mq'[o][1] = "retriable"
      BY <1>1, <2>1, Undecided DEF IInv, QueueInv, Attempt
    <3> QED BY <1>1, <2>1, <3>1, <3>2 DEF QueueInv, Scheduled
  <2>6. RunningInv'
    BY <1>1, <2>2 DEF IInv, RunningInv, Running
  <2>7. VerdictSound'
    BY <1>1, <2>2, Undecided DEF IInv, VerdictSound, Effective
  <2> QED BY <1>1, <2>3, <2>4, <2>5, <2>6, <2>7 DEF IInv
<1> QED BY <1>2, <1>3 DEF SubmitAborted

\* A failed submission fails the operations of its bulk.
LEMMA FailBatchEffect ==
  ASSUME IInv, FailBatch
  PROVE  /\ outcome' \in [Op -> Verdict \cup {"none"}]
         /\ counted' \in [Op -> Nat]
         /\ \A o \in Range(batch) : outcome'[o] = "failed" /\ counted'[o] = 1
         /\ \A o \in Op : o \notin Range(batch) =>
              outcome'[o] = outcome[o] /\ counted'[o] = counted[o]
<1> DEFINE verdict == [i \in DOMAIN batch |-> "failed"]
<1>1. pc \in {"submit", "wait"} /\ DOMAIN batch \in SUBSET DOMAIN batch
      /\ Report(DOMAIN batch, verdict)
  BY DEF FailBatch
<1>2. verdict \in [DOMAIN batch -> Verdict] /\ \A i \in DOMAIN batch : verdict[i] = "failed"
  BY DEF Verdict
<1> HIDE DEF verdict
<1>3. outcome' \in [Op -> Verdict \cup {"none"}] /\ counted' \in [Op -> Nat]
  BY <1>1, <1>2, ReportEffect
<1>4. \A i \in DOMAIN batch : outcome'[batch[i]] = verdict[i] /\ counted'[batch[i]] = 1
  <2>1. \A v \in [DOMAIN batch -> Verdict] : Report(DOMAIN batch, v) =>
          \A i \in DOMAIN batch : outcome'[batch[i]] = v[i] /\ counted'[batch[i]] = 1
    BY <1>1, ReportEffect, ZenonT(30)
  <2> QED BY <1>1, <1>2, <2>1
<1>5. \A o \in Op : (\A i \in DOMAIN batch : batch[i] # o) =>
        outcome'[o] = outcome[o] /\ counted'[o] = counted[o]
  BY <1>1, <1>2, ReportEffect
<1> QED BY <1>2, <1>3, <1>4, <1>5 DEF Range

\* A failed submission, refused or unacknowledged, decides the whole bulk.
LEMMA FailBatchStep ==
  ASSUME IInv, FailBatch,
         mq' \in [BulkOp -> [Attempt -> Status]],
         unacked' \in SUBSET BulkOp,
         \A o \in BulkOp : o \notin Range(batch) =>
           mq'[o] = mq[o] /\ (o \in unacked' <=> o \in unacked),
         \A o \in Range(batch) :
           /\ mq'[o][2] # "none" => mq'[o][1] = "retriable"
           /\ o \in unacked' \/ \A a \in Attempt : mq'[o][a] \notin Unsettled \cup {"complete"}
  PROVE  IInv'
<1>1. pc = "submit" /\ StartChunk /\ sent' = sent
  BY DEF FailBatch
<1>2. /\ outcome' \in [Op -> Verdict \cup {"none"}]
      /\ counted' \in [Op -> Nat]
      /\ \A o \in Range(batch) : outcome'[o] = "failed" /\ counted'[o] = 1
      /\ \A o \in Op : o \notin Range(batch) =>
           outcome'[o] = outcome[o] /\ counted'[o] = counted[o]
  BY FailBatchEffect
<1>3. \A o \in Range(batch) : counted'[o] = 1 /\ outcome'[o] \in Verdict
  BY <1>2 DEF Verdict
<1>4. \A o \in Range(batch) :
        /\ mq'[o][2] # "none" => mq'[o][1] = "retriable"
        /\ (\E a \in Attempt : mq'[o][a] \in Unsettled) =>
             outcome'[o] = "pending" \/ o \in unacked'
        /\ outcome'[o] = "succeeded" => \E a \in Attempt : mq'[o][a] = "complete"
        /\ outcome'[o] = "failed" /\ o \notin unacked' =>
             \A a \in Attempt : mq'[o][a] \notin Unsettled \cup {"complete"}
  BY <1>2
<1> QED BY <1>1, <1>2, <1>3, <1>4, Advance

LEMMA SubmitRefusedStep == IInv /\ SubmitRefused => IInv'
<1> SUFFICES ASSUME IInv, SubmitRefused PROVE IInv'
  OBVIOUS
<1>1. FailBatch /\ pc = "submit" /\ mq' = mq /\ unacked' = unacked
  BY DEF SubmitRefused, FailBatch, magento
<1>2. mq \in [BulkOp -> [Attempt -> Status]] /\ unacked \in SUBSET BulkOp
      /\ attempt \in {1, 2} /\ Attempt = {1, 2}
  BY DEF IInv, TypeOK, Attempt
<1>3. Range(batch) \subseteq BulkOp
  BY <1>1, Undecided
<1>4. \A o \in Range(batch) : \A a \in Attempt : mq[o][a] \in {"none", "retriable"}
  BY <1>1, <1>2, <1>3 DEF IInv, QueueInv
<1>5. \A o \in Range(batch) :
        /\ mq'[o][2] # "none" => mq'[o][1] = "retriable"
        /\ \A a \in Attempt : mq'[o][a] \notin Unsettled \cup {"complete"}
  BY <1>1, <1>3, <1>4 DEF Unsettled, IInv, QueueInv
<1> QED BY <1>1, <1>2, <1>5, FailBatchStep

LEMMA SubmitUnacknowledgedStep == IInv /\ SubmitUnacknowledged => IInv'
<1> SUFFICES ASSUME IInv, SubmitUnacknowledged PROVE IInv'
  OBVIOUS
<1>1. /\ FailBatch /\ pc = "submit" /\ Enqueue(DOMAIN batch)
      /\ unacked' = unacked \cup Range(batch)
  BY DEF SubmitUnacknowledged, FailBatch
<1>2. /\ mq' \in [BulkOp -> [Attempt -> Status]]
      /\ \A o \in BulkOp : (\A i \in DOMAIN batch : batch[i] # o) => mq'[o] = mq[o]
      /\ \A o \in BulkOp : mq'[o][2] # "none" => mq'[o][1] = "retriable"
  BY <1>1, EnqueueEffect
<1>3. Range(batch) \subseteq BulkOp
  BY <1>1, Undecided
<1>4. unacked' \in SUBSET BulkOp
  BY <1>1, <1>3 DEF IInv, TypeOK
<1>5. \A o \in BulkOp : o \notin Range(batch) =>
        mq'[o] = mq[o] /\ (o \in unacked' <=> o \in unacked)
  BY <1>1, <1>2 DEF Range
<1>6. \A o \in Range(batch) :
        o \in unacked' /\ (mq'[o][2] # "none" => mq'[o][1] = "retriable")
  BY <1>1, <1>2, <1>3
<1> QED BY <1>1, <1>2, <1>4, <1>5, <1>6, FailBatchStep

\* A read says of a scheduled item what Magento holds, or nothing if it has
\* not ended, whatever the order of the list.
LEMMA SeenIsListed ==
  ASSUME IInv, NEW response \in Responses,
         NEW i \in DOMAIN batch, i \notin rejected
  PROVE  LET seen == MapDetailedStatus(response, Len(batch))
         IN  seen[i] = Listed(i) \/ (seen[i] = "missing" /\ Listed(i) = "open")
<1> DEFINE at(j) == {k \in DOMAIN response : response[k].id = j}
           last(j) == CHOOSE k \in at(j) : \A l \in at(j) : l <= k
           seen == MapDetailedStatus(response, Len(batch))
           scheduled == DOMAIN batch \ rejected
           settled == {j \in scheduled : Listed(j) # "open"}
           orders == UNION {Bijection(1..Cardinality(M), M) :
                              M \in {S \in SUBSET scheduled : settled \subseteq S}}
<1>1. Len(batch) \in Nat /\ DOMAIN batch = 1..Len(batch)
  BY DEF IInv, TypeOK
<1>2. PICK f \in orders : response = [k \in DOMAIN f |-> [id |-> f[k], status |-> Listed(f[k])]]
  BY DEF Responses
<1>3. PICK M \in SUBSET scheduled :
        settled \subseteq M /\ f \in Bijection(1..Cardinality(M), M)
  BY <1>2
<1>4. /\ DOMAIN f = 1..Cardinality(M)
      /\ \A k, l \in DOMAIN f : f[k] = f[l] => k = l
      /\ \A j \in M : \E k \in DOMAIN f : f[k] = j
  BY <1>3 DEF Bijection, Injection, Surjection, IsInjective
<1>5. /\ DOMAIN response = DOMAIN f
      /\ \A k \in DOMAIN f : response[k].id = f[k] /\ response[k].status = Listed(f[k])
  BY <1>2
<1>6. seen[i] = IF at(i) = {} THEN "missing" ELSE response[last(i)].status
  BY <1>1 DEF MapDetailedStatus
<1>7. CASE at(i) = {}
  <2>1. i \notin M
    BY <1>4, <1>5, <1>7
  <2>2. Listed(i) = "open"
    BY <1>3, <2>1
  <2> QED BY <1>6, <1>7, <2>2
<1>8. CASE at(i) # {}
  <2>1. PICK k \in DOMAIN f : f[k] = i
    BY <1>5, <1>8
  <2>2. at(i) = {k}
    BY <1>4, <1>5, <2>1
  <2>3. k <= k
    BY <1>4, <2>1
  <2>4. last(i) = k
    BY <2>2, <2>3
  <2>5. response[last(i)].status = Listed(i)
    BY <1>5, <2>1, <2>4
  <2> HIDE DEF last, at
  <2> QED BY <1>6, <1>8, <2>5
<1> QED BY <1>7, <1>8

\* The verdict on each item agrees with Magento's queues at the read.
LEMMA VerdictOfItem ==
  ASSUME IInv, pc = "wait", NEW response \in Responses, NEW i \in DOMAIN batch
  PROVE  LET seen == MapDetailedStatus(response, Len(batch))
         IN  /\ VerdictOf(i, seen) \in Verdict
             /\ i \in Retried(seen) =>
                  attempt = 1 /\ mq[batch[i]][1] = "retriable" /\ mq[batch[i]][2] = "none"
             /\ i \notin Retried(seen) =>
                  /\ Running(batch[i]) <=> VerdictOf(i, seen) = "pending"
                  /\ VerdictOf(i, seen) = "succeeded" =>
                       \E a \in Attempt : mq[batch[i]][a] = "complete"
                  /\ VerdictOf(i, seen) = "failed" =>
                       \A a \in Attempt : mq[batch[i]][a] \notin Unsettled \cup {"complete"}
<1> DEFINE seen == MapDetailedStatus(response, Len(batch))
           o == batch[i]
<1>1. /\ o \in Range(batch) /\ o \in BulkOp
      /\ attempt \in {1, 2} /\ Attempt = {1, 2}
      /\ mq \in [BulkOp -> [Attempt -> Status]]
  BY DEF IInv, TypeOK, Attempt, Range
<1>2. \A a \in Attempt : mq[o][a] \in Status
  BY <1>1
<1>3. \A a \in Attempt : a # attempt => mq[o][a] \in {"none", "retriable"}
  BY <1>1 DEF IInv, QueueInv
<1>4. i \in rejected <=> mq[o][attempt] = "none"
  BY DEF IInv, QueueInv
<1>5. VerdictOf(i, seen) =
        IF i \in rejected THEN "failed"
        ELSE IF seen[i] = "complete" THEN "succeeded"
        ELSE IF seen[i] \in {"open", "missing"} THEN "pending" ELSE "failed"
  BY DEF VerdictOf, StillOpen
<1>6. i \in Retried(seen) <=> i \notin rejected /\ seen[i] = "retriable" /\ attempt = 1
  BY DEF Retried
<1>7. Listed(i) = IF mq[o][attempt] \in Unsettled THEN "open" ELSE mq[o][attempt]
  BY DEF Listed
<1>8. i \notin rejected =>
        seen[i] = Listed(i) \/ (seen[i] = "missing" /\ Listed(i) = "open")
  BY SeenIsListed
<1>9. VerdictOf(i, seen) \in Verdict
  BY <1>5 DEF Verdict
<1> HIDE DEF seen, o
<1>10. ASSUME i \in Retried(seen)
       PROVE  attempt = 1 /\ mq[o][1] = "retriable" /\ mq[o][2] = "none"
  <2>1. attempt = 1 /\ mq[o][1] = "retriable"
    BY <1>6, <1>7, <1>8, <1>10 DEF Unsettled
  <2>2. mq[o][2] = "none"
    BY <1>1, <2>1 DEF IInv, QueueInv
  <2> QED BY <2>1, <2>2
<1>11. CASE i \in rejected
  <2>1. \A a \in Attempt : mq[o][a] \notin Unsettled \cup {"complete"}
    BY <1>1, <1>3, <1>4, <1>11 DEF Unsettled
  <2> QED BY <1>5, <1>9, <1>10, <1>11, <2>1 DEF Running, o, seen
<1>12. CASE i \notin rejected /\ mq[o][attempt] \in Unsettled
  <2>1. VerdictOf(i, seen) = "pending"
    BY <1>5, <1>7, <1>8, <1>12
  <2>2. \E a \in Attempt : mq[o][a] \in Unsettled
    BY <1>1, <1>12
  <2> QED BY <1>9, <1>10, <2>1, <2>2 DEF Running, o, seen
<1>13. CASE i \notin rejected /\ mq[o][attempt] \notin Unsettled
  <2>1. mq[o][attempt] \in Settled
    BY <1>1, <1>2, <1>4, <1>13 DEF Status
  <2>2. seen[i] = mq[o][attempt]
    BY <1>7, <1>8, <1>13, <2>1 DEF Settled
  <2>3. ~ \E a \in Attempt : mq[o][a] \in Unsettled
    BY <1>3, <1>13 DEF Unsettled
  <2>4. VerdictOf(i, seen) = IF mq[o][attempt] = "complete" THEN "succeeded" ELSE "failed"
    BY <1>5, <1>13, <2>1, <2>2 DEF Settled
  <2>5. mq[o][attempt] # "complete" => \A a \in Attempt : mq[o][a] # "complete"
    BY <1>3
  <2> QED BY <1>1, <1>9, <1>10, <2>3, <2>4, <2>5 DEF Running, o, seen
<1> QED BY <1>11, <1>12, <1>13 DEF o, seen

\* Each item of a read gets a verdict.
LEMMA VerdictsOfRead ==
  ASSUME IInv, pc = "wait", NEW response \in Responses
  PROVE  LET seen == MapDetailedStatus(response, Len(batch))
         IN  [i \in DOMAIN batch |-> VerdictOf(i, seen)] \in [DOMAIN batch -> Verdict]
BY VerdictOfItem

\* The end of a wait keeps the invariant, whether it moves on to the next
\* chunk or to a resubmission.
LEMMA ClassifyStep ==
  ASSUME IInv, pc = "wait", NEW response \in Responses,
         Classify(MapDetailedStatus(response, Len(batch))),
         UNCHANGED <<sent, magento>>
  PROVE  IInv'
<1> DEFINE seen == MapDetailedStatus(response, Len(batch))
           again == Retried(seen)
           verdict == [i \in DOMAIN batch |-> VerdictOf(i, seen)]
           done == DOMAIN batch \ again
<1>1. /\ sent' = sent /\ mq' = mq /\ unacked' = unacked
      /\ mq \in [BulkOp -> [Attempt -> Status]] /\ unacked \in SUBSET BulkOp
      /\ Len(batch) \in Nat /\ DOMAIN batch = 1..Len(batch)
      /\ batch \in Seq(BulkOp) /\ IsInjective(batch)
      /\ Attempt = {1, 2}
  BY DEF magento, IInv, TypeOK, BatchInv, Attempt
<1>2. again \in SUBSET DOMAIN batch /\ done \in SUBSET DOMAIN batch
  BY DEF Retried
<1>3. verdict \in [DOMAIN batch -> Verdict]
  BY VerdictsOfRead
<1>4. \A i \in again :
        attempt = 1 /\ mq[batch[i]][1] = "retriable" /\ mq[batch[i]][2] = "none"
  BY <1>2, VerdictOfItem
<1>5. \A i \in done :
        /\ Running(batch[i]) => verdict[i] = "pending"
        /\ verdict[i] = "succeeded" => \E a \in Attempt : mq[batch[i]][a] = "complete"
        /\ verdict[i] = "failed" =>
             \A a \in Attempt : mq[batch[i]][a] \notin Unsettled \cup {"complete"}
        /\ verdict[i] \in Verdict
  BY VerdictOfItem
<1>6. Report(done, verdict)
  BY DEF Classify
<1> HIDE DEF verdict
<1>7. /\ outcome' \in [Op -> Verdict \cup {"none"}]
      /\ counted' \in [Op -> Nat]
      /\ \A i \in DOMAIN batch : i \in done => counted'[batch[i]] = 1
      /\ \A o \in Op : (\A i \in done : batch[i] # o) =>
           outcome'[o] = outcome[o] /\ counted'[o] = counted[o]
  <2> HIDE DEF done
  <2> QED BY <1>2, <1>3, <1>6, ReportEffect
<1>8. \A i \in done : outcome'[batch[i]] = verdict[i]
  <2>1. pc \in {"submit", "wait"}
    OBVIOUS
  <2>2. \A i \in DOMAIN batch : i \in done => outcome'[batch[i]] = verdict[i]
    <3> HIDE DEF done
    <3> QED BY <1>2, <1>3, <1>6, <2>1, ReportEffect, ZenonT(30)
  <2> QED BY <2>2
<1>9. \A o \in Range(batch) : \E i \in DOMAIN batch : o = batch[i]
  BY DEF Range
<1>10. \A i, j \in DOMAIN batch : batch[i] = batch[j] => i = j
  BY <1>1 DEF IsInjective
<1>11. CASE again = {}
  <2>1. done = DOMAIN batch /\ StartChunk
    BY <1>2, <1>11 DEF Classify
  <2>2. \A o \in Range(batch) :
          /\ counted'[o] = 1 /\ outcome'[o] \in Verdict
          /\ mq'[o][2] # "none" => mq'[o][1] = "retriable"
          /\ (\E a \in Attempt : mq'[o][a] \in Unsettled) =>
               outcome'[o] = "pending" \/ o \in unacked'
          /\ outcome'[o] = "succeeded" => \E a \in Attempt : mq'[o][a] = "complete"
          /\ outcome'[o] = "failed" /\ o \notin unacked' =>
               \A a \in Attempt : mq'[o][a] \notin Unsettled \cup {"complete"}
    <3> SUFFICES ASSUME NEW i \in DOMAIN batch
                 PROVE  LET o == batch[i]
                        IN  /\ counted'[o] = 1 /\ outcome'[o] \in Verdict
                            /\ mq'[o][2] # "none" => mq'[o][1] = "retriable"
                            /\ (\E a \in Attempt : mq'[o][a] \in Unsettled) =>
                                 outcome'[o] = "pending" \/ o \in unacked'
                            /\ outcome'[o] = "succeeded" =>
                                 \E a \in Attempt : mq'[o][a] = "complete"
                            /\ outcome'[o] = "failed" /\ o \notin unacked' =>
                                 \A a \in Attempt : mq'[o][a] \notin Unsettled \cup {"complete"}
      BY <1>9
    <3>1. batch[i] \in BulkOp
      BY <1>1
    <3>2. i \in done
      BY <2>1
    <3>3. mq[batch[i]][2] # "none" => mq[batch[i]][1] = "retriable"
      BY <3>1 DEF IInv, QueueInv
    <3> HIDE DEF done
    <3> QED BY <1>1, <1>5, <1>7, <1>8, <3>2, <3>3 DEF Running
  <2>3. \A o \in Op : o \notin Range(batch) =>
          outcome'[o] = outcome[o] /\ counted'[o] = counted[o]
    BY <1>7 DEF Range
  <2> HIDE DEF done, again, seen
  <2> QED BY <1>1, <1>7, <2>1, <2>2, <2>3, Advance
<1>12. CASE again # {}
  <2> DEFINE next == [k \in 1..Cardinality(again) |-> batch[InOrder(again)[k]]]
  <2>1. /\ pc' = "submit" /\ batch' = next /\ attempt' = 2
        /\ rejected' = {} /\ elapsed' = 0 /\ cursor' = cursor
    BY <1>12 DEF Classify
  <2>2. next \in Seq(BulkOp) /\ IsInjective(next) /\ Range(next) = {batch[i] : i \in again}
    <3> HIDE DEF again
    <3> QED BY <1>1, <1>2, RetryBatch
  <2>3. Range(batch') \subseteq Range(batch)
    BY <1>2, <2>1, <2>2 DEF Range
  <2>4. attempt = 1 /\ batch = Schedule[cursor] /\ cursor \in DOMAIN Schedule
    BY <1>4, <1>12 DEF IInv, BatchInv
  <2>5. \A i \in DOMAIN batch : batch[i] \in Range(batch') <=> i \in again
    BY <1>2, <1>10, <2>1, <2>2
  <2> HIDE DEF next
  <2>6. \A o \in Op : o \notin Range(batch) =>
          outcome'[o] = outcome[o] /\ counted'[o] = counted[o]
    BY <1>7 DEF Range
  <2>7. \A i \in again : outcome'[batch[i]] = "none" /\ counted'[batch[i]] = 0
    <3> SUFFICES ASSUME NEW i \in again
                 PROVE  outcome'[batch[i]] = "none" /\ counted'[batch[i]] = 0
      OBVIOUS
    <3>1. i \in DOMAIN batch /\ batch[i] \in Range(batch)
      BY <1>2 DEF Range
    <3>2. \A j \in done : batch[j] # batch[i]
      BY <1>2, <1>10, <3>1
    <3> HIDE DEF done, again
    <3> QED BY <1>7, <3>1, <3>2, Undecided
  <2>8. TypeOK'
    BY <1>1, <1>7, <2>1, <2>2, TimeoutAssumption DEF IInv, TypeOK, Attempt
  <2>9. DirectInv'
    <3>1. \A i \in DOMAIN Direct : Direct[i] \in Op /\ Direct[i] \notin Range(batch)
      BY DirectFacts, Undecided DEF Op
    <3> QED BY <1>1, <2>1, <2>4, <2>6, <3>1, ScheduleFacts DEF IInv, DirectInv
  <2>10. BatchInv'
    BY <2>1, <2>2, <2>3, <2>4, ScheduleFacts DEF IInv, BatchInv
  <2>11. CountInv'
    <3> SUFFICES ASSUME NEW c \in DOMAIN Schedule, NEW o \in Range(Schedule[c])
                 PROVE  counted'[o] = IF c > cursor \/ (c = cursor /\ o \in Range(batch'))
                                      THEN 0 ELSE 1
      BY <2>1 DEF CountInv
    <3>1. CASE o \in Range(batch)
      <4>1. c = cursor /\ ~(c > cursor)
        BY <2>4, <3>1, OneChunk, ScheduleFacts
      <4>2. PICK i \in DOMAIN batch : o = batch[i]
        BY <1>9, <3>1
      <4>3. CASE i \in again
        BY <2>5, <2>7, <4>1, <4>2, <4>3
      <4>4. CASE i \notin again
        <5>1. counted'[o] = 1
          BY <1>7, <4>2, <4>4
        <5> HIDE DEF again
        <5> QED BY <2>5, <4>1, <4>2, <4>4, <5>1
      <4> QED BY <4>3, <4>4
    <3>2. CASE o \notin Range(batch)
      <4>1. o \in Op /\ o \notin Range(batch')
        BY <2>3, <3>2, ScheduleFacts DEF Op
      <4> QED BY <2>4, <2>6, <3>2, <4>1 DEF IInv, CountInv
    <3> QED BY <3>1, <3>2
  <2>12. QueueInv'
    <3>1. \A o \in Range(batch') : mq[o][1] = "retriable" /\ mq[o][2] = "none"
      BY <1>4, <2>1, <2>2
    <3> QED BY <1>1, <2>1, <3>1 DEF IInv, QueueInv, Scheduled
  <2>13. RunningInv'
    <3> SUFFICES ASSUME NEW o \in BulkOp, Running(o)
                 PROVE  outcome'[o] = "pending" \/ o \in unacked
      BY <1>1 DEF RunningInv, Running
    <3>1. CASE o \in Range(batch)
      <4>1. PICK i \in DOMAIN batch : o = batch[i]
        BY <1>9, <3>1
      <4>2. i \notin again
        BY <1>1, <1>4, <4>1 DEF Running, Unsettled
      <4>3. i \in done
        BY <4>2
      <4> HIDE DEF done
      <4> QED BY <1>5, <1>8, <4>1, <4>3
    <3>2. CASE o \notin Range(batch)
      BY <2>6, <3>2 DEF IInv, RunningInv, Op
    <3> QED BY <3>1, <3>2
  <2>14. \A o \in Op : counted'[o] = 0 <=> outcome'[o] = "none"
    <3> TAKE o \in Op
    <3>1. CASE o \in Range(batch)
      <4>1. PICK i \in DOMAIN batch : o = batch[i]
        BY <1>9, <3>1
      <4>2. CASE i \in again
        BY <2>7, <4>1, <4>2
      <4>3. CASE i \notin again
        <5>1. i \in done
          BY <4>3
        <5> HIDE DEF done
        <5> QED BY <1>5, <1>7, <1>8, <4>1, <5>1 DEF Verdict
      <4> QED BY <4>2, <4>3
    <3>2. CASE o \notin Range(batch)
      BY <2>6, <3>2 DEF IInv
    <3> QED BY <3>1, <3>2
  <2>15. VerdictSound'
    <3> SUFFICES ASSUME NEW o \in BulkOp
                 PROVE  /\ outcome'[o] = "succeeded" =>
                             \E a \in Attempt : mq[o][a] = "complete"
                        /\ outcome'[o] = "failed" /\ o \notin unacked =>
                             \A a \in Attempt : mq[o][a] \notin Unsettled \cup {"complete"}
      BY <1>1 DEF VerdictSound, Effective
    <3>1. CASE o \in Range(batch)
      <4>1. PICK i \in DOMAIN batch : o = batch[i]
        BY <1>9, <3>1
      <4>2. CASE i \in again
        BY <2>7, <4>1, <4>2
      <4>3. CASE i \notin again
        <5>1. i \in done
          BY <4>3
        <5> HIDE DEF done
        <5> QED BY <1>5, <1>8, <4>1, <5>1
      <4> QED BY <4>2, <4>3
    <3>2. CASE o \notin Range(batch)
      BY <2>6, <3>2 DEF IInv, VerdictSound, Effective, Op
    <3> QED BY <3>1, <3>2
  <2> QED BY <2>8, <2>9, <2>10, <2>11, <2>12, <2>13, <2>14, <2>15 DEF IInv
<1> QED BY <1>11, <1>12

LEMMA PollAgainStep == IInv /\ PollAgain => IInv'
<1> SUFFICES ASSUME IInv, PollAgain PROVE IInv'
  OBVIOUS
<1>1. /\ pc = "wait"
      /\ UNCHANGED <<pc, sent, cursor, batch, attempt, rejected, outcome, counted, mq, unacked>>
  BY DEF PollAgain, result, magento
<1>2. PICK now \in elapsed..Timeout : now < Timeout /\ elapsed' = now + 1
  BY DEF PollAgain
<1>3. elapsed' \in 0..Timeout
  BY <1>2, TimeoutAssumption DEF IInv, TypeOK
<1>4. TypeOK'
  BY <1>1, <1>3 DEF IInv, TypeOK
<1>5. DirectInv' /\ BatchInv' /\ CountInv'
  BY <1>1 DEF IInv, DirectInv, BatchInv, CountInv
<1>6. QueueInv' /\ RunningInv' /\ VerdictSound'
  BY <1>1 DEF IInv, QueueInv, RunningInv, VerdictSound, Scheduled, Running, Effective
<1> QED BY <1>1, <1>4, <1>5, <1>6 DEF IInv

\* What the consumers do disturbs no verdict already given.
LEMMA ConsumeStep ==
  ASSUME IInv, NEW o \in BulkOp, NEW a \in Attempt,
         NEW s \in Settled \cup {"dropped", "crashed"}, Consume(o, a, s)
  PROVE  IInv'
<1>1. /\ mq[o][a] = "open" /\ mq' = [mq EXCEPT ![o][a] = s]
      /\ UNCHANGED <<pc, sent, cursor, batch, attempt, rejected, elapsed, outcome, counted, unacked>>
  BY DEF Consume, wait, result
<1>2. mq \in [BulkOp -> [Attempt -> Status]] /\ s \in Status /\ s # "none"
  BY DEF IInv, TypeOK, Status, Unsettled, Settled
<1>3. /\ mq' \in [BulkOp -> [Attempt -> Status]]
      /\ mq'[o][a] = s
      /\ \A p \in BulkOp, b \in Attempt : p # o \/ b # a => mq'[p][b] = mq[p][b]
  BY <1>1, <1>2
<1>4. Running(o)
  BY <1>1 DEF Running, Unsettled
<1>5. \A p \in BulkOp, b \in Attempt : mq'[p][b] = "none" <=> mq[p][b] = "none"
  BY <1>1, <1>2, <1>3
<1>6. \A p \in BulkOp : \A b \in Attempt : mq[p][b] = "retriable" => mq'[p][b] = "retriable"
  BY <1>1, <1>3
<1>7. Range(batch) \subseteq BulkOp
  BY DEF IInv, TypeOK, Range
<1>8. TypeOK'
  BY <1>1, <1>3 DEF IInv, TypeOK
<1>9. DirectInv' /\ BatchInv' /\ CountInv'
  BY <1>1 DEF IInv, DirectInv, BatchInv, CountInv
<1>10. QueueInv'
  <2>1. \A c \in DOMAIN Schedule : \A p \in Range(Schedule[c]) :
          c > cursor => \A b \in Attempt : mq'[p][b] = "none"
    BY <1>5, ScheduleFacts DEF IInv, QueueInv, Scheduled
  <2>2. \A p \in BulkOp : mq'[p][2] # "none" => mq'[p][1] = "retriable"
    BY <1>5, <1>6 DEF IInv, QueueInv, Attempt
  <2>3. attempt = 2 => \A p \in Range(batch) : mq'[p][1] = "retriable"
    BY <1>6, <1>7 DEF IInv, QueueInv, Attempt
  <2>4. pc = "submit" => \A p \in Range(batch) : mq'[p][attempt] = "none"
    BY <1>5, <1>7 DEF IInv, QueueInv, TypeOK
  <2>5. pc \in {"submit", "wait"} /\ attempt = 1 => \A p \in Range(batch) : mq'[p][2] = "none"
    BY <1>5, <1>7 DEF IInv, QueueInv, Attempt
  <2>6. pc = "wait" => \A i \in DOMAIN batch : mq'[batch[i]][attempt] = "none" <=> i \in rejected
    BY <1>5, <1>7 DEF IInv, QueueInv, TypeOK, Range
  <2> QED BY <1>1, <2>1, <2>2, <2>3, <2>4, <2>5, <2>6 DEF QueueInv, Scheduled
<1>11. RunningInv'
  <2>1. \A p \in BulkOp : (\E b \in Attempt : mq'[p][b] \in Unsettled) => Running(p)
    BY <1>3, <1>4 DEF Running
  <2> QED BY <1>1, <2>1 DEF IInv, RunningInv, Running
<1>12. VerdictSound'
  <2> SUFFICES ASSUME NEW p \in BulkOp
               PROVE  /\ outcome[p] = "succeeded" =>
                           \E b \in Attempt : mq'[p][b] = "complete"
                      /\ outcome[p] = "failed" /\ p \notin unacked =>
                           \A b \in Attempt : mq'[p][b] \notin Unsettled \cup {"complete"}
    BY <1>1 DEF VerdictSound, Effective
  <2>1. outcome[p] = "succeeded" => \E b \in Attempt : mq'[p][b] = "complete"
    BY <1>1, <1>3 DEF IInv, VerdictSound
  <2>2. outcome[p] = "failed" /\ p \notin unacked =>
          p # o /\ \A b \in Attempt : mq[p][b] \notin Unsettled \cup {"complete"}
    BY <1>1 DEF IInv, VerdictSound, Effective, Unsettled
  <2> QED BY <1>3, <2>1, <2>2
<1> QED BY <1>1, <1>8, <1>9, <1>10, <1>11, <1>12 DEF IInv

LEMMA StutterStep == IInv /\ UNCHANGED vars => IInv'
<1> SUFFICES ASSUME IInv, UNCHANGED vars PROVE IInv'
  OBVIOUS
<1>1. UNCHANGED <<pc, sent, cursor, batch, attempt, rejected, elapsed, outcome, counted, mq, unacked>>
  BY DEF vars, wait, result, magento
<1>2. TypeOK' /\ DirectInv' /\ BatchInv' /\ CountInv'
  BY <1>1 DEF IInv, TypeOK, DirectInv, BatchInv, CountInv
<1>3. QueueInv' /\ RunningInv' /\ VerdictSound'
  BY <1>1 DEF IInv, QueueInv, RunningInv, VerdictSound, Scheduled, Running, Effective
<1> QED BY <1>1, <1>2, <1>3 DEF IInv

LEMMA NextIInv == IInv /\ [Next]_vars => IInv'
<1> SUFFICES ASSUME IInv, [Next]_vars PROVE IInv'
  OBVIOUS
<1>1. CASE SendDirect
  BY <1>1, SendDirectStep
<1>2. CASE DirectDone
  BY <1>2, DirectDoneStep
<1>3. CASE AbortDirect
  BY <1>3, AbortStep DEF AbortDirect
<1>4. CASE Submit
  BY <1>4, SubmitStep
<1>5. CASE SubmitRefused
  BY <1>5, SubmitRefusedStep
<1>6. CASE SubmitUnacknowledged
  BY <1>6, SubmitUnacknowledgedStep
<1>7. CASE SubmitAborted
  BY <1>7, SubmitAbortedStep
<1>8. CASE PollAgain
  BY <1>8, PollAgainStep
<1>9. CASE PollSettled
  BY <1>9, ClassifyStep DEF PollSettled
<1>10. CASE PollExpired
  BY <1>10, ClassifyStep DEF PollExpired
<1>11. CASE PollAborted
  BY <1>11, AbortStep DEF PollAborted
<1>12. CASE ConsumerSettles
  BY <1>12, ConsumeStep DEF ConsumerSettles
<1>13. CASE ConsumerDies
  BY <1>13, ConsumeStep DEF ConsumerDies
<1>14. CASE UNCHANGED vars
  BY <1>14, StutterStep
<1> QED BY <1>1, <1>2, <1>3, <1>4, <1>5, <1>6, <1>7, <1>8, <1>9, <1>10, <1>11, <1>12,
           <1>13, <1>14 DEF Next, Executor

\* The inductive invariant holds in every state.
THEOREM Invariance == Spec => []IInv
<1>1. Init => IInv
  BY InitIInv
<1>2. IInv /\ [Next]_vars => IInv'
  BY NextIInv
<1> QED BY <1>1, <1>2, PTL DEF Spec

---------------------------------------------------------------------------
(* What follows from it. *)

\* Every variable keeps its type.
THEOREM TypeCorrect == Spec => []TypeOK
<1>1. IInv => TypeOK
  BY DEF IInv
<1> QED BY <1>1, Invariance, PTL

\* No operation enters the result twice, and at the end each is in it.
THEOREM EveryOperationCountedOnce == Spec => []CountedOnce
<1>1. IInv => CountedOnce
  <2> SUFFICES ASSUME IInv, NEW o \in Op
               PROVE  /\ counted[o] <= 1
                      /\ counted[o] = 0 <=> outcome[o] = "none"
                      /\ pc = "done" => counted[o] = 1
    BY DEF CountedOnce
  <2>1. CASE o \in DirectOp
    <3>1. PICK i \in DOMAIN Direct : Direct[i] = o
      BY <2>1, DirectFacts
    <3>2. counted[o] = IF i <= sent THEN 1 ELSE 0
      BY <3>1 DEF IInv, DirectInv
    <3>3. pc = "done" => sent = Len(Direct)
      BY ScheduleFacts DEF IInv, DirectInv, BatchInv
    <3>4. i <= Len(Direct)
      BY DirectFacts
    <3> QED BY <3>2, <3>3, <3>4 DEF IInv
  <2>2. CASE o \in BulkOp
    <3>1. PICK c \in DOMAIN Schedule : o \in Range(Schedule[c])
      BY <2>2, ScheduleFacts
    <3>2. counted[o] = IF c > cursor \/ (c = cursor /\ o \in Range(batch)) THEN 0 ELSE 1
      BY <3>1 DEF IInv, CountInv
    <3>3. c \in Int /\ c <= Len(Schedule)
      BY ScheduleFacts
    <3>4. pc = "done" => cursor = Len(Schedule) + 1
      BY DEF IInv, BatchInv
    <3>5. pc = "done" => counted[o] = 1
      BY <3>2, <3>3, <3>4, ScheduleFacts
    <3> QED BY <3>2, <3>5 DEF IInv
  <2> QED BY <2>1, <2>2 DEF Op
<1> QED BY <1>1, Invariance, PTL

\* A success was completed by Magento, a failure it acknowledged has no effect.
THEOREM VerdictsAreSound == Spec => []VerdictSound
<1>1. IInv => VerdictSound
  BY DEF IInv
<1> QED BY <1>1, Invariance, PTL

\* A resubmission never lets Magento save an operation twice.
THEOREM SavedAtMostOnce == Spec => []AtMostOneSave
<1>1. IInv => AtMostOneSave
  BY DEF IInv, QueueInv, AtMostOneSave, Effective, Unsettled, Attempt
<1> QED BY <1>1, Invariance, PTL

\* The result tells of every operation once, and the truth, whatever fails.
THEOREM OutcomesAreSound == Spec => []OutcomesSound
<1>1. CountedOnce /\ VerdictSound => OutcomesSound
  BY DEF OutcomesSound
<1> QED BY <1>1, EveryOperationCountedOnce, VerdictsAreSound, PTL

\* A phase is queued after the earlier ones ended, were given up as pending,
\* or were never acknowledged.
THEOREM PhasesInOrder == Spec => []PhaseBarrier
<1>1. IInv => PhaseBarrier
  <2> SUFFICES ASSUME IInv, NEW o \in BulkOp, NEW p \in BulkOp,
                      Phase[o] < Phase[p], Running(o), Scheduled(p)
               PROVE  outcome[o] = "pending" \/ o \in unacked
    BY DEF PhaseBarrier
  <2>1. PICK c \in DOMAIN Schedule : o \in Range(Schedule[c])
    BY ScheduleFacts
  <2>2. PICK d \in DOMAIN Schedule : p \in Range(Schedule[d])
    BY ScheduleFacts
  <2>3. c \in Int /\ d \in Int /\ cursor \in Int
    BY ScheduleFacts DEF IInv, TypeOK
  <2>4. c < d
    <3>1. Phase[o] \in Int /\ Phase[p] \in Int
      BY ScheduleAssumption
    <3>2. ~(d < c)
      BY <2>1, <2>2, <3>1, ScheduleAssumption
    <3>3. c # d
      BY <2>1, <2>2, <3>1, ScheduleAssumption
    <3> QED BY <2>3, <3>2, <3>3
  <2>5. d <= cursor
    BY <2>2, <2>3 DEF IInv, QueueInv
  <2>6. o \notin Range(batch)
    <3> SUFFICES ASSUME o \in Range(batch) PROVE FALSE
      OBVIOUS
    <3>1. batch # <<>>
      BY DEF Range
    <3>2. cursor \in DOMAIN Schedule /\ o \in Range(Schedule[cursor])
      BY <3>1 DEF IInv, BatchInv
    <3> QED BY <2>1, <2>3, <2>4, <2>5, <3>2, OneChunk
  <2> QED BY <2>6 DEF IInv, RunningInv
<1> QED BY <1>1, Invariance, PTL

---------------------------------------------------------------------------
(* What a step may do. *)

\* The end of a wait decides S: the items of the bulk that are not retried.
\* Each gets the verdict Magento's queues bear out, and the run moves on only
\* when nothing of the bulk is left.
LEMMA ClassifyEffect ==
  ASSUME IInv, pc = "wait", NEW response \in Responses,
         Classify(MapDetailedStatus(response, Len(batch)))
  PROVE  \E S \in SUBSET Range(batch) :
           /\ \A o \in Op : o \notin S => outcome'[o] = outcome[o]
           /\ \A o \in S :
                /\ outcome'[o] \in Verdict
                /\ outcome'[o] = "pending" <=> Running(o)
                /\ outcome'[o] = "succeeded" => \E a \in Attempt : mq[o][a] = "complete"
                /\ outcome'[o] = "failed" => \A a \in Attempt : mq[o][a] # "complete"
           /\ \/ S = Range(batch) /\ StartChunk
              \/ S # Range(batch) /\ pc' = "submit" /\ elapsed' = 0
<1> DEFINE seen == MapDetailedStatus(response, Len(batch))
           again == Retried(seen)
           verdict == [i \in DOMAIN batch |-> VerdictOf(i, seen)]
           done == DOMAIN batch \ again
           S == {batch[i] : i \in done}
<1>1. /\ batch \in Seq(BulkOp) /\ IsInjective(batch)
      /\ again \in SUBSET DOMAIN batch
      /\ \A i \in DOMAIN batch : batch[i] \in Range(batch) /\ batch[i] \in Op
      /\ \A o \in Range(batch) : \E i \in DOMAIN batch : o = batch[i]
  BY DEF IInv, TypeOK, BatchInv, Retried, Range, Op
<1>2. verdict \in [DOMAIN batch -> Verdict] /\ Report(done, verdict)
  BY VerdictsOfRead DEF Classify
<1>3. \A i \in done :
        /\ verdict[i] \in Verdict
        /\ verdict[i] = "pending" <=> Running(batch[i])
        /\ verdict[i] = "succeeded" => \E a \in Attempt : mq[batch[i]][a] = "complete"
        /\ verdict[i] = "failed" => \A a \in Attempt : mq[batch[i]][a] # "complete"
  BY VerdictOfItem
<1> HIDE DEF verdict
<1>4. /\ \A i \in done : outcome'[batch[i]] = verdict[i]
      /\ \A o \in Op : (\A i \in done : batch[i] # o) => outcome'[o] = outcome[o]
  <2>1. pc \in {"submit", "wait"} /\ done \in SUBSET DOMAIN batch
    OBVIOUS
  <2> HIDE DEF done
  <2>2. \A i \in DOMAIN batch : i \in done => outcome'[batch[i]] = verdict[i]
    BY <1>2, <2>1, ReportEffect, ZenonT(30)
  <2>3. \A o \in Op : (\A i \in done : batch[i] # o) => outcome'[o] = outcome[o]
    BY <1>2, <2>1, ReportEffect
  <2> QED BY <2>1, <2>2, <2>3
<1>5. \/ S = Range(batch) /\ StartChunk
      \/ S # Range(batch) /\ pc' = "submit" /\ elapsed' = 0
  <2>1. CASE again = {}
    <3>1. StartChunk
      BY <2>1 DEF Classify
    <3> QED BY <1>1, <2>1, <3>1
  <2>2. CASE again # {}
    <3>1. pc' = "submit" /\ elapsed' = 0
      BY <2>2 DEF Classify
    <3>2. PICK i \in again : TRUE
      BY <2>2
    <3>3. batch[i] \notin S
      BY <1>1, <3>2 DEF IsInjective
    <3>4. batch[i] \in Range(batch)
      BY <1>1, <3>2
    <3> QED BY <3>1, <3>3, <3>4
  <2> QED BY <2>1, <2>2
<1>6. S \in SUBSET Range(batch)
  BY <1>1
<1>7. /\ \A o \in Op : o \notin S => outcome'[o] = outcome[o]
      /\ \A o \in S :
           /\ outcome'[o] \in Verdict
           /\ outcome'[o] = "pending" <=> Running(o)
           /\ outcome'[o] = "succeeded" => \E a \in Attempt : mq[o][a] = "complete"
           /\ outcome'[o] = "failed" => \A a \in Attempt : mq[o][a] # "complete"
  BY <1>3, <1>4
<1> HIDE DEF S
<1> QED BY <1>5, <1>6, <1>7

\* Steps that are neither a report nor a direct operation decide nothing.
LEMMA QuietSteps ==
  ASSUME IInv, \/ DirectDone \/ AbortDirect \/ Submit \/ SubmitAborted \/ PollAgain
               \/ PollAborted \/ ConsumerSettles \/ ConsumerDies \/ UNCHANGED vars
  PROVE  outcome' = outcome
BY DEF DirectDone, AbortDirect, Submit, SubmitAborted, PollAgain, PollAborted,
       ConsumerSettles, ConsumerDies, Consume, vars, result

LEMMA DirectEffect ==
  ASSUME IInv, SendDirect, NEW o \in BulkOp
  PROVE  outcome'[o] = outcome[o]
<1>1. sent + 1 \in DOMAIN Direct
  BY DirectFacts DEF SendDirect, IInv, TypeOK
<1>2. Direct[sent + 1] # o
  BY <1>1, DirectFacts
<1> QED BY <1>2 DEF SendDirect, IInv, TypeOK, Op

\* A verdict is given once, and is pending only for what has not ended.
LEMMA DecidedOnce ==
  ASSUME IInv, [Next]_vars, NEW o \in BulkOp, outcome'[o] # outcome[o]
  PROVE  outcome[o] = "none" /\ (outcome'[o] = "pending" => Running(o))
<1>1. o \in Op
  BY DEF Op
<1>2. CASE SubmitRefused \/ SubmitUnacknowledged
  <2>1. FailBatch /\ pc = "submit"
    BY <1>2 DEF SubmitRefused, SubmitUnacknowledged, FailBatch
  <2>2. o \in Range(batch) /\ outcome'[o] = "failed"
    BY <1>1, <2>1, FailBatchEffect
  <2> QED BY <2>1, <2>2, Undecided
<1>3. CASE PollSettled \/ PollExpired
  <2>1. pc = "wait"
    BY <1>3 DEF PollSettled, PollExpired
  <2>2. PICK response \in Responses : Classify(MapDetailedStatus(response, Len(batch)))
    BY <1>3 DEF PollSettled, PollExpired
  <2>3. PICK S \in SUBSET Range(batch) :
          /\ \A p \in Op : p \notin S => outcome'[p] = outcome[p]
          /\ \A p \in S : outcome'[p] = "pending" <=> Running(p)
    BY <2>1, <2>2, ClassifyEffect
  <2>4. o \in S
    BY <1>1, <2>3
  <2> QED BY <2>1, <2>3, <2>4, Undecided
<1> QED BY <1>2, <1>3, DirectEffect, QuietSteps DEF Next, Executor

\* Another turn of the polling loop is taken for an item that has not ended.
LEMMA WaitHasReason ==
  ASSUME IInv, [Next]_vars, elapsed' > elapsed
  PROVE  \E i \in DOMAIN batch : i \notin rejected /\ mq[batch[i]][attempt] \in Unsettled
<1>1. elapsed \in Nat
  BY TimeoutAssumption DEF IInv, TypeOK
<1>2. PollAgain
  <2>1. StartChunk => elapsed' = 0
    BY DEF StartChunk
  <2>2. pc = "wait" /\ (PollSettled \/ PollExpired) => elapsed' = 0
    BY ClassifyEffect, <2>1 DEF PollSettled, PollExpired
  <2>3. PollSettled \/ PollExpired => elapsed' = 0
    BY <2>2 DEF PollSettled, PollExpired
  <2>4. elapsed' # elapsed /\ elapsed' # 0
    BY <1>1
  <2> QED BY <2>1, <2>3, <2>4
          DEF Next, Executor, SendDirect, DirectDone, AbortDirect, Submit, SubmitRefused,
              SubmitUnacknowledged, FailBatch, SubmitAborted, PollAborted,
              ConsumerSettles, ConsumerDies, Consume, vars, wait
<1>3. PICK response \in Responses : AnyOpen(MapDetailedStatus(response, Len(batch)))
  BY <1>2 DEF PollAgain
<1>4. PICK i \in DOMAIN batch \ rejected :
        MapDetailedStatus(response, Len(batch))[i] \in StillOpen
  BY <1>3 DEF AnyOpen
<1>5. i \in DOMAIN batch /\ i \notin rejected
  BY <1>4
<1>6. Listed(i) = "open" \/ Listed(i) = "missing"
  BY <1>4, <1>5, SeenIsListed DEF StillOpen
<1>7. mq[batch[i]][attempt] \in Status
  BY <1>5 DEF IInv, TypeOK
<1>8. mq[batch[i]][attempt] \in Unsettled
  BY <1>6, <1>7 DEF Listed, Status, Settled, Unsettled
<1> QED BY <1>5, <1>8

\* Verdicts are given once and pending only to what has not ended, and the
\* executor waits only for an item of its bulk that has not ended.
THEOREM PollingIsSound == Spec => StepsSound
<1>1. IInv /\ [Next]_vars =>
        [\A o \in BulkOp :
           outcome'[o] # outcome[o] =>
             /\ outcome[o] = "none"
             /\ outcome'[o] = "pending" => Running(o)]_vars
  BY DecidedOnce
<1>2. IInv /\ [Next]_vars =>
        [elapsed' > elapsed =>
           \E i \in DOMAIN batch :
             i \notin rejected /\ mq[batch[i]][attempt] \in Unsettled]_vars
  BY WaitHasReason
<1> QED BY <1>1, <1>2, Invariance, PTL DEF Spec, StepsSound, VerdictStep, WaitsOnlyForOpen

---------------------------------------------------------------------------
(* The contract: Spec implements BulkContract. *)

\* What the mapping makes of an operation's attempts, of which one at most is
\* not a retriable failure.
LEMMA StoreFacts ==
  ASSUME IInv, NEW o \in BulkOp
  PROVE  /\ ContractStore[o] = StoreOf(o)
         /\ StoreOf(o) = "saved" <=> \E a \in Attempt : mq[o][a] = "complete"
         /\ StoreOf(o) = "queued" <=> Running(o)
         /\ StoreOf(o) \in {"idle", "refused"} <=>
              \A a \in Attempt : mq[o][a] \notin Unsettled \cup {"complete"}
<1>1. Attempt = {1, 2} /\ (mq[o][2] # "none" => mq[o][1] = "retriable")
  BY DEF Attempt, IInv, QueueInv
<1>2. ~((\E a \in Attempt : mq[o][a] = "complete") /\ Running(o))
  BY <1>1 DEF Running, Unsettled
<1> QED BY <1>2 DEF StoreOf, ContractStore, Running

LEMMA InitContract == Init => Contract!Init
<1> SUFFICES ASSUME Init PROVE Contract!Init
  OBVIOUS
<1>1. \A o \in BulkOp : StoreOf(o) = "idle"
  BY DEF Init, StoreOf, Running, Scheduled, Unsettled
<1>2. ContractStore = [o \in BulkOp |-> "idle"]
  BY <1>1 DEF ContractStore
<1>3. ContractVerdict = [o \in BulkOp |-> "none"] /\ ContractCall = "running"
  BY DEF Init, ContractVerdict, ContractCall, Op
<1> QED BY <1>2, <1>3 DEF Contract!Init

\* The contract sees nothing of a step that leaves the queues, the verdicts of
\* bulk operations and the end of the call alone.
LEMMA ContractStutter ==
  ASSUME mq' = mq, \A o \in BulkOp : outcome'[o] = outcome[o], ContractCall' = ContractCall
  PROVE  UNCHANGED Contract!vars
<1>1. ContractStore' = ContractStore
  BY DEF ContractStore, StoreOf, Running, Scheduled
<1>2. ContractVerdict' = ContractVerdict
  BY DEF ContractVerdict
<1> QED BY <1>1, <1>2 DEF Contract!vars

\* The call raises.
LEMMA ContractRaises ==
  ASSUME mq' = mq, outcome' = outcome,
         pc \in {"direct", "submit", "wait"}, pc' = "aborted"
  PROVE  Contract!Next
<1>1. ContractStore' = ContractStore /\ ContractVerdict' = ContractVerdict
  BY DEF ContractStore, StoreOf, Running, Scheduled, ContractVerdict
<1>2. ContractCall = "running" /\ ContractCall' = "raised"
  BY DEF ContractCall
<1> QED BY <1>1, <1>2 DEF Contract!Next, Contract!Stop

\* When the loop over chunks goes on some operation is undecided; when it ends
\* none is.
LEMMA CallEndsDecided ==
  ASSUME IInv', \/ StartChunk /\ cursor \in 0..Len(Schedule)
                \/ pc' = "submit" /\ \E o \in BulkOp : outcome'[o] = "none"
  PROVE  ContractCall' = IF \A o \in BulkOp : outcome'[o] # "none"
                           THEN "returned" ELSE "running"
<1>1. CASE pc' = "submit" /\ \E o \in BulkOp : outcome'[o] = "none"
  BY <1>1 DEF ContractCall
<1>2. CASE StartChunk /\ cursor \in 0..Len(Schedule)
  <2>1. CASE cursor < Len(Schedule)
    <3>1. /\ pc' = "submit" /\ cursor' = cursor + 1 /\ cursor' \in DOMAIN Schedule
          /\ batch' = Schedule[cursor']
      BY <1>2, <2>1, ScheduleFacts DEF StartChunk
    <3>2. Schedule[cursor'] # <<>> /\ Schedule[cursor'] \in Seq(BulkOp)
      BY <3>1, ScheduleAssumption, ScheduleFacts
    <3>3. PICK o \in BulkOp : o \in Range(Schedule[cursor'])
      <4>1. 1 \in DOMAIN Schedule[cursor'] /\ Schedule[cursor'][1] \in BulkOp
        BY <3>2
      <4> QED BY <4>1 DEF Range
    <3>4. counted'[o] = 0 /\ o \in Op
      BY <3>1, <3>3 DEF IInv, CountInv, Op
    <3>5. outcome'[o] = "none"
      BY <3>4 DEF IInv
    <3> QED BY <3>1, <3>5 DEF ContractCall
  <2>2. CASE ~(cursor < Len(Schedule))
    <3>1. pc' = "done" /\ cursor' = Len(Schedule) + 1 /\ batch' = <<>>
      BY <1>2, <2>2, ScheduleFacts DEF StartChunk
    <3>2. ASSUME NEW o \in BulkOp PROVE outcome'[o] # "none"
      <4>1. PICK c \in DOMAIN Schedule : o \in Range(Schedule[c])
        BY ScheduleFacts
      <4>2. ~(c > cursor') /\ c # cursor'
        BY <3>1, ScheduleFacts
      <4>3. counted'[o] = 1 /\ o \in Op
        BY <4>1, <4>2 DEF IInv, CountInv, Op
      <4> QED BY <4>3 DEF IInv
    <3> QED BY <3>1, <3>2 DEF ContractCall
  <2> QED BY <2>1, <2>2
<1> QED BY <1>1, <1>2

\* The bulk in hand, before it is queued, is open and idle or refused.
LEMMA ReadyToQueue ==
  ASSUME IInv, pc = "submit", NEW o \in Range(batch)
  PROVE  /\ o \in BulkOp
         /\ ContractVerdict[o] = "none"
         /\ ContractStore[o] \in {"idle", "refused"}
         /\ ContractCall = "running"
<1>1. o \in BulkOp /\ outcome[o] = "none"
  BY Undecided
<1>2. Attempt = {1, 2} /\ attempt \in {1, 2}
  BY DEF IInv, TypeOK, Attempt
<1>3. \A a \in Attempt : mq[o][a] \in {"none", "retriable"}
  BY <1>2 DEF IInv, QueueInv
<1>4. ContractStore[o] \in {"idle", "refused"}
  BY <1>1, <1>3, StoreFacts DEF Unsettled
<1> QED BY <1>1, <1>4 DEF ContractVerdict, ContractCall

\* What Magento queues of it is queued in the contract.
LEMMA QueuedStore ==
  ASSUME IInv, IInv', pc = "submit", NEW ids \in SUBSET DOMAIN batch, Enqueue(ids)
  PROVE  ContractStore' = [o \in BulkOp |-> IF o \in {batch[i] : i \in ids}
                                              THEN "queued" ELSE ContractStore[o]]
<1>1. /\ \A i \in ids : mq'[batch[i]][attempt] = "open"
      /\ \A o \in BulkOp : (\A i \in ids : batch[i] # o) => mq'[o] = mq[o]
      /\ attempt \in Attempt
  BY EnqueueEffect DEF IInv, TypeOK
<1>2. ASSUME NEW o \in BulkOp
      PROVE  StoreOf(o)' = IF o \in {batch[i] : i \in ids} THEN "queued" ELSE StoreOf(o)
  <2>1. CASE o \in {batch[i] : i \in ids}
    <3>1. Running(o)'
      BY <1>1, <2>1 DEF Running, Unsettled
    <3>2. ~ \E a \in Attempt : mq'[o][a] = "complete"
      <4>1. mq'[o][2] # "none" => mq'[o][1] = "retriable"
        BY DEF IInv, QueueInv
      <4>2. mq'[o][attempt] = "open"
        BY <1>1, <2>1
      <4> QED BY <1>1, <4>1, <4>2 DEF Attempt
    <3>3. StoreOf(o)' = "queued"
      BY <3>1, <3>2 DEF StoreOf
    <3> QED BY <2>1, <3>3
  <2>2. CASE o \notin {batch[i] : i \in ids}
    <3>1. mq'[o] = mq[o]
      BY <1>1, <2>2
    <3>2. StoreOf(o)' = StoreOf(o)
      BY <3>1 DEF StoreOf, Running, Scheduled
    <3> QED BY <2>2, <3>2
  <2> QED BY <2>1, <2>2
<1> QED BY <1>2 DEF ContractStore

\* A submission that raises no HTTPError, or an interrupted one, queues what
\* Magento took of the bulk.
LEMMA SubmitImplements ==
  ASSUME IInv, IInv', Submit \/ SubmitAborted
  PROVE  Contract!Next
<1>1. /\ pc = "submit" /\ outcome' = outcome
      /\ ContractVerdict' = ContractVerdict
      /\ ContractCall' \in {"running", "raised"}
  BY DEF Submit, SubmitAborted, result, ContractVerdict, ContractCall
<1>2. CASE \E ids \in SUBSET DOMAIN batch : Enqueue(ids)
  <2>1. PICK ids \in SUBSET DOMAIN batch : Enqueue(ids)
    BY <1>2
  <2> DEFINE S == {batch[i] : i \in ids}
  <2>2. S \in SUBSET BulkOp /\ S \subseteq Range(batch)
    BY DEF IInv, TypeOK, Range
  <2>3. ContractStore' = [o \in BulkOp |-> IF o \in S THEN "queued" ELSE ContractStore[o]]
    BY <1>1, <2>1, QueuedStore
  <2>4. ContractCall = "running"
    BY <1>1 DEF ContractCall
  <2> HIDE DEF S
  <2>5. Contract!Queue(S)
    BY <1>1, <2>2, <2>3, <2>4, ReadyToQueue DEF Contract!Queue, Contract!Open
  <2> QED BY <2>2, <2>5 DEF Contract!Next
<1>3. CASE SubmitAborted /\ mq' = mq
  <2>1. pc' = "aborted"
    BY <1>3 DEF SubmitAborted
  <2> QED BY <1>1, <1>3, <2>1, ContractRaises
<1>4. Submit => \E ids \in SUBSET DOMAIN batch : Enqueue(ids)
  <2>1. \A ids \in SUBSET DOMAIN batch : DOMAIN batch \ ids \in SUBSET DOMAIN batch
    OBVIOUS
  <2> QED BY <2>1 DEF Submit
<1>5. SubmitAborted => mq' = mq \/ \E ids \in SUBSET DOMAIN batch : Enqueue(ids)
  BY DEF SubmitAborted
<1> QED BY <1>2, <1>3, <1>4, <1>5

\* A refused bulk is decided as failed; a lost answer is the contract's one
\* exception.
LEMMA FailBatchImplements ==
  ASSUME IInv, IInv', SubmitRefused \/ SubmitUnacknowledged
  PROVE  Contract!Next
<1> DEFINE S == Range(batch)
<1>1. /\ FailBatch /\ pc = "submit" /\ StartChunk /\ cursor \in 0..Len(Schedule)
      /\ SubmitRefused => mq' = mq
      /\ SubmitUnacknowledged => Enqueue(DOMAIN batch)
  BY Undecided, ScheduleFacts DEF SubmitRefused, SubmitUnacknowledged, FailBatch, magento
<1>2. S \in SUBSET BulkOp
  BY <1>1, Undecided
<1>3. ContractVerdict' = [o \in BulkOp |-> IF o \in S THEN "failed" ELSE ContractVerdict[o]]
  BY <1>1, FailBatchEffect DEF ContractVerdict, Op
<1>4. ContractCall' = IF \A o \in BulkOp : ContractVerdict'[o] # "none"
                        THEN "returned" ELSE "running"
  BY <1>1, CallEndsDecided DEF ContractVerdict
<1>5. /\ ContractCall = "running"
      /\ \A o \in S : /\ ContractVerdict[o] = "none"
                      /\ ContractStore[o] \in {"idle", "refused"}
  <2>1. ContractCall = "running"
    BY <1>1 DEF ContractCall
  <2> QED BY <1>1, <2>1, ReadyToQueue
<1>6. CASE SubmitRefused
  <2>1. ContractStore' = ContractStore
    BY <1>1, <1>6 DEF ContractStore, StoreOf, Running, Scheduled
  <2> DEFINE v == [o \in S |-> "failed"]
  <2>2. /\ v \in [S -> {"succeeded", "failed", "pending"}]
        /\ \A o \in S : /\ v[o] = "succeeded" <=> ContractStore[o] = "saved"
                        /\ v[o] = "pending" <=> ContractStore[o] = "queued"
        /\ ContractVerdict' = [o \in BulkOp |-> IF o \in S THEN v[o] ELSE ContractVerdict[o]]
    BY <1>3, <1>5
  <2> HIDE DEF v, S
  <2>3. Contract!Decide(S)
    BY <1>4, <1>5, <2>1, <2>2
       DEF Contract!Decide, Contract!Open, Contract!ReturnWhenDecided
  <2> QED BY <1>2, <2>3 DEF Contract!Next
<1>7. CASE SubmitUnacknowledged
  <2>1. S = {batch[i] : i \in DOMAIN batch}
    BY DEF Range
  <2>2. ContractStore' = [o \in BulkOp |-> IF o \in S THEN "queued" ELSE ContractStore[o]]
    BY <1>1, <1>7, <2>1, QueuedStore
  <2> HIDE DEF S
  <2>3. Contract!LoseTrack(S)
    BY <1>3, <1>4, <1>5, <2>2
       DEF Contract!LoseTrack, Contract!Open, Contract!ReturnWhenDecided
  <2> QED BY <1>2, <2>3 DEF Contract!Next
<1> QED BY <1>6, <1>7

\* The end of a wait decides its items as the store stands.
LEMMA ClassifyImplements ==
  ASSUME IInv, IInv', PollSettled \/ PollExpired
  PROVE  Contract!Next
<1>1. /\ pc = "wait" /\ mq' = mq
      /\ \E response \in Responses : Classify(MapDetailedStatus(response, Len(batch)))
  BY DEF PollSettled, PollExpired, magento
<1>2. PICK S \in SUBSET Range(batch) :
        /\ \A o \in Op : o \notin S => outcome'[o] = outcome[o]
        /\ \A o \in S :
             /\ outcome'[o] \in Verdict
             /\ outcome'[o] = "pending" <=> Running(o)
             /\ outcome'[o] = "succeeded" => \E a \in Attempt : mq[o][a] = "complete"
             /\ outcome'[o] = "failed" => \A a \in Attempt : mq[o][a] # "complete"
        /\ \/ S = Range(batch) /\ StartChunk
           \/ S # Range(batch) /\ pc' = "submit" /\ elapsed' = 0
  BY <1>1, ClassifyEffect
<1>3. /\ S \in SUBSET BulkOp /\ cursor \in 0..Len(Schedule)
      /\ \A o \in Range(batch) : o \in BulkOp /\ outcome[o] = "none"
  BY <1>1, Undecided, ScheduleFacts
<1>4. ContractStore' = ContractStore
  BY <1>1 DEF ContractStore, StoreOf, Running, Scheduled
<1> DEFINE v == [o \in S |-> outcome'[o]]
<1>5. ContractVerdict' = [o \in BulkOp |-> IF o \in S THEN v[o] ELSE ContractVerdict[o]]
  BY <1>2 DEF ContractVerdict, Op
<1>6. /\ v \in [S -> {"succeeded", "failed", "pending"}]
      /\ \A o \in S : /\ v[o] = "succeeded" <=> ContractStore[o] = "saved"
                      /\ v[o] = "pending" <=> ContractStore[o] = "queued"
  <2>1. ASSUME NEW o \in S
        PROVE  /\ outcome'[o] = "succeeded" <=> ContractStore[o] = "saved"
               /\ outcome'[o] = "pending" <=> ContractStore[o] = "queued"
    <3>1. /\ ContractStore[o] = StoreOf(o)
          /\ StoreOf(o) = "saved" <=> \E a \in Attempt : mq[o][a] = "complete"
          /\ StoreOf(o) = "queued" <=> Running(o)
      BY <1>3, StoreFacts
    <3> QED BY <1>2, <3>1 DEF Verdict
  <2> QED BY <1>2, <2>1 DEF Verdict
<1>7. ContractCall = "running" /\ \A o \in S : ContractVerdict[o] = "none"
  BY <1>1, <1>3 DEF ContractCall, ContractVerdict
<1>8. ContractCall' = IF \A o \in BulkOp : ContractVerdict'[o] # "none"
                        THEN "returned" ELSE "running"
  <2>1. S # Range(batch) => \E o \in BulkOp : outcome'[o] = "none"
    <3> SUFFICES ASSUME S # Range(batch) PROVE \E o \in BulkOp : outcome'[o] = "none"
      OBVIOUS
    <3>1. PICK o \in Range(batch) : o \notin S
      BY <1>2
    <3>2. o \in BulkOp /\ o \in Op /\ outcome[o] = "none"
      BY <1>3 DEF Op
    <3> QED BY <1>2, <3>1, <3>2
  <2> QED BY <1>2, <1>3, <2>1, CallEndsDecided DEF ContractVerdict
<1> HIDE DEF v
<1>9. Contract!Decide(S)
  BY <1>4, <1>5, <1>6, <1>7, <1>8
     DEF Contract!Decide, Contract!Open, Contract!ReturnWhenDecided
<1> QED BY <1>3, <1>9 DEF Contract!Next

\* A consumer settles the operation, or dies and leaves it queued for ever.
LEMMA ConsumeImplements ==
  ASSUME IInv, IInv', NEW o \in BulkOp, NEW a \in Attempt,
         NEW s \in Settled \cup {"dropped", "crashed"}, Consume(o, a, s)
  PROVE  Contract!Next \/ UNCHANGED Contract!vars
<1>1. /\ mq[o][a] = "open" /\ mq' = [mq EXCEPT ![o][a] = s]
      /\ pc' = pc /\ outcome' = outcome
  BY DEF Consume, result
<1>2. mq \in [BulkOp -> [Attempt -> Status]] /\ Attempt = {1, 2} /\ mq'[o][a] = s
  BY <1>1 DEF IInv, TypeOK, Attempt
<1>3. ContractVerdict' = ContractVerdict /\ ContractCall' = ContractCall
  BY <1>1 DEF ContractVerdict, ContractCall
<1>4. \A p \in BulkOp : p # o => StoreOf(p)' = StoreOf(p)
  <2> SUFFICES ASSUME NEW p \in BulkOp, p # o PROVE StoreOf(p)' = StoreOf(p)
    OBVIOUS
  <2>1. mq'[p] = mq[p]
    BY <1>1, <1>2
  <2> QED BY <2>1 DEF StoreOf, Running, Scheduled
<1>5. StoreOf(o) = "queued"
  BY <1>1, StoreFacts DEF Running, Unsettled
<1>6. \A b \in Attempt : b # a => mq'[o][b] \in {"none", "retriable"}
  <2>1. \A b \in Attempt : b # a => mq'[o][b] = mq[o][b]
    BY <1>1, <1>2
  <2>2. mq[o][2] # "none" => mq[o][1] = "retriable"
    BY DEF IInv, QueueInv
  <2> QED BY <1>1, <1>2, <2>1, <2>2
<1>7. StoreOf(o)' = CASE s = "complete" -> "saved"
                      [] s \in Unsettled -> "queued"
                      [] OTHER -> "refused"
  <2>1. /\ (\E b \in Attempt : mq'[o][b] = "complete") <=> s = "complete"
        /\ (\E b \in Attempt : mq'[o][b] \in Unsettled) <=> s \in Unsettled
        /\ \E b \in Attempt : mq'[o][b] # "none"
    BY <1>2, <1>6 DEF Unsettled, Settled
  <2> QED BY <2>1 DEF StoreOf, Running, Scheduled, Unsettled
<1>8. ContractStore' = [ContractStore EXCEPT ![o] = StoreOf(o)']
  BY <1>4 DEF ContractStore
<1>9. CASE s \in Unsettled
  <2>1. StoreOf(o)' = "queued"
    BY <1>7, <1>9 DEF Unsettled
  <2>2. ContractStore' = ContractStore
    BY <1>4, <1>5, <2>1 DEF ContractStore
  <2> QED BY <1>3, <2>2 DEF Contract!vars
<1>10. CASE s \notin Unsettled
  <2>1. StoreOf(o)' \in {"saved", "refused"}
    BY <1>7, <1>10
  <2>2. ContractStore[o] = "queued"
    BY <1>5 DEF ContractStore
  <2>3. Contract!Settle(o)
    BY <1>3, <1>8, <2>1, <2>2 DEF Contract!Settle
  <2> QED BY <2>3 DEF Contract!Next
<1> QED BY <1>9, <1>10

\* With no bulk the call returns after the direct operations.
LEMMA DirectDoneImplements ==
  ASSUME IInv, IInv', DirectDone
  PROVE  Contract!Next \/ UNCHANGED Contract!vars
<1>1. /\ pc = "direct" /\ StartChunk /\ mq' = mq /\ outcome' = outcome
      /\ cursor = 0
  BY DEF DirectDone, magento, result, IInv, DirectInv
<1>2. CASE 0 < Len(Schedule)
  <2>1. ContractCall' = ContractCall
    BY <1>1, <1>2 DEF StartChunk, ContractCall
  <2> QED BY <1>1, <2>1, ContractStutter
<1>3. CASE ~(0 < Len(Schedule))
  <2>1. BulkOp = {}
    BY <1>3, ScheduleFacts
  <2>2. ContractCall = "running" /\ ContractCall' = "returned"
    BY <1>1, <1>3 DEF StartChunk, ContractCall
  <2>3. ContractStore' = ContractStore /\ ContractVerdict' = ContractVerdict
    BY <1>1 DEF ContractStore, StoreOf, Running, Scheduled, ContractVerdict
  <2> QED BY <2>1, <2>2, <2>3 DEF Contract!Next, Contract!Stop
<1> QED BY <1>2, <1>3

\* Every step of the executor, and of the consumers, is one of the contract or
\* none.
LEMMA NextImplements ==
  ASSUME IInv, IInv', [Next]_vars
  PROVE  [Contract!Next]_Contract!vars
<1>1. CASE SendDirect
  <2>1. mq' = mq /\ pc' = pc
    BY <1>1 DEF SendDirect, magento
  <2>2. ContractCall' = ContractCall
    BY <2>1 DEF ContractCall
  <2> QED BY <1>1, <2>1, <2>2, DirectEffect, ContractStutter
<1>2. CASE DirectDone
  BY <1>2, DirectDoneImplements
<1>3. CASE AbortDirect \/ PollAborted
  BY <1>3, ContractRaises DEF AbortDirect, PollAborted, result, magento
<1>4. CASE Submit \/ SubmitAborted
  BY <1>4, SubmitImplements
<1>5. CASE SubmitRefused \/ SubmitUnacknowledged
  BY <1>5, FailBatchImplements
<1>6. CASE PollAgain \/ UNCHANGED vars
  <2>1. mq' = mq /\ pc' = pc /\ outcome' = outcome
    BY <1>6 DEF PollAgain, vars, result, magento
  <2>2. ContractCall' = ContractCall
    BY <2>1 DEF ContractCall
  <2> QED BY <2>1, <2>2, ContractStutter
<1>7. CASE PollSettled \/ PollExpired
  BY <1>7, ClassifyImplements
<1>8. CASE ConsumerSettles \/ ConsumerDies
  BY <1>8, ConsumeImplements DEF ConsumerSettles, ConsumerDies
<1> QED BY <1>1, <1>2, <1>3, <1>4, <1>5, <1>6, <1>7, <1>8 DEF Next, Executor

\* The bulk mode of execute() implements its contract: one verdict each, true
\* when it is given; nothing queued again that may have been saved.
THEOREM ImplementsContract == Spec => KeepsContract
<1>1. Init => Contract!Init
  BY InitContract
<1>2. IInv /\ IInv' /\ [Next]_vars => [Contract!Next]_Contract!vars
  BY NextImplements
<1> QED BY <1>1, <1>2, Invariance, PTL DEF Spec, KeepsContract, Contract!Spec

=============================================================================
