----------------------- MODULE ExecutionOrderProofs -----------------------
(***************************************************************************)
(* Proofs about ExecutionOrder, for every set of store views, number of    *)
(* rows and chunk size.                                                    *)
(***************************************************************************)
EXTENDS ExecutionOrder, FiniteSetTheorems, SequenceTheorems, WellFoundedInduction, TLAPS

---------------------------------------------------------------------------
(* Types. *)

LEMMA OperationTypes ==
  ASSUME TypeOK
  PROVE  /\ Len(operations) \in Nat /\ DOMAIN operations = 1..Len(operations)
         /\ \A o \in DOMAIN operations :
              /\ operations[o] \in Operation
              /\ operations[o].phase \in {0, 1}
              /\ operations[o].main \in BOOLEAN
<1>1. operations \in Seq(Operation)
  BY DEF TypeOK
<1>2. Len(operations) \in Nat /\ DOMAIN operations = 1..Len(operations)
      /\ \A o \in DOMAIN operations : operations[o] \in Operation
  BY <1>1, LenProperties, ElementOfSeq
<1> QED BY <1>2 DEF Operation

\* The groups, each with the list of its operations.
LEMMA GroupTypes ==
  ASSUME TypeOK
  PROVE  /\ Len(groups) \in Nat /\ DOMAIN groups = 1..Len(groups)
         /\ \A g \in DOMAIN groups :
              /\ groups[g].key \in Key /\ groups[g].key.phase \in {0, 1}
              /\ groups[g].ops \in Seq(DOMAIN operations)
              /\ Len(groups[g].ops) \in Nat
              /\ DOMAIN groups[g].ops = 1..Len(groups[g].ops)
              /\ \A i \in DOMAIN groups[g].ops : groups[g].ops[i] \in DOMAIN operations
<1> DEFINE G == [key: Key, ops: Seq(DOMAIN operations)]
<1>1. groups \in Seq(G)
  BY DEF TypeOK
<1> HIDE DEF G
<1>2. Len(groups) \in Nat /\ DOMAIN groups = 1..Len(groups)
      /\ \A g \in DOMAIN groups : groups[g] \in G
  BY <1>1, LenProperties, ElementOfSeq
<1>3. ASSUME NEW g \in DOMAIN groups
      PROVE  /\ groups[g].key \in Key /\ groups[g].key.phase \in {0, 1}
             /\ groups[g].ops \in Seq(DOMAIN operations)
  <2>1. groups[g].key \in Key /\ groups[g].ops \in Seq(DOMAIN operations)
    BY <1>2 DEF G
  <2> QED BY <2>1 DEF Key
<1>4. \A s \in Seq(DOMAIN operations) :
        /\ Len(s) \in Nat /\ DOMAIN s = 1..Len(s)
        /\ \A i \in DOMAIN s : s[i] \in DOMAIN operations
  BY LenProperties, ElementOfSeq
<1> QED BY <1>2, <1>3, <1>4

LEMMA RequestTypes ==
  ASSUME TypeOK
  PROVE  /\ Len(requests) \in Nat /\ DOMAIN requests = 1..Len(requests)
         /\ \A q \in DOMAIN requests :
              /\ requests[q] \in Seq(DOMAIN operations)
              /\ Len(requests[q]) \in Nat
              /\ DOMAIN requests[q] = 1..Len(requests[q])
              /\ \A i \in DOMAIN requests[q] : requests[q][i] \in DOMAIN operations
<1>1. requests \in Seq(Seq(DOMAIN operations))
  BY DEF TypeOK
<1>2. Len(requests) \in Nat /\ DOMAIN requests = 1..Len(requests)
      /\ \A q \in DOMAIN requests : requests[q] \in Seq(DOMAIN operations)
  BY <1>1, LenProperties, ElementOfSeq
<1>3. \A s \in Seq(DOMAIN operations) :
        /\ Len(s) \in Nat /\ DOMAIN s = 1..Len(s)
        /\ \A i \in DOMAIN s : s[i] \in DOMAIN operations
  BY LenProperties, ElementOfSeq
<1> QED BY <1>2, <1>3

---------------------------------------------------------------------------
(* Least elements, and the places of a stable sort. *)

\* A set of numbers has a least one.
LEMMA LeastNumber ==
  ASSUME NEW S \in SUBSET Nat, S # {}
  PROVE  \E o \in S : \A p \in S : o <= p
<1> DEFINE R == {ss \in Nat \X Nat : ss[1] < ss[2]}
<1>1. IsWellFoundedOn(R, Nat)
  BY NatLessThanWellFounded DEF OpToRel
<1> HIDE DEF R
<1>2. PICK o \in S : \A p \in S : <<p, o>> \notin R
  BY <1>1, WFMin
<1>3. \A p \in S : ~(p < o)
  BY <1>2 DEF R
<1> QED BY <1>3

\* Places of groups are different, and follow the order of the sort.
LEMMA SortedPlaces ==
  ASSUME TypeOK
  PROVE  LET D == DOMAIN groups
             place == [k \in D |-> CHOOSE g \in D : SortedPlace(g) = k]
         IN  /\ place \in [D -> D]
             /\ \A g \in D : \E k \in D : place[k] = g
             /\ \A k, l \in D : k < l => SortedBefore(place[k], place[l])
<1> DEFINE D == DOMAIN groups
           N == Len(groups)
           Below(g) == {h \in D : SortedBefore(h, g)}
           Rank == [g \in D |-> SortedPlace(g)]
           place == [k \in D |-> CHOOSE g \in D : SortedPlace(g) = k]
<1>1. /\ N \in Nat /\ D = 1..N
      /\ IsFiniteSet(D) /\ Cardinality(D) = N
      /\ \A g \in D : groups[g].key.phase \in {0, 1}
  <2>1. N \in Nat /\ D = 1..N /\ \A g \in D : groups[g].key.phase \in {0, 1}
    BY GroupTypes
  <2>2. IsFiniteSet(1..N) /\ Cardinality(1..N) = N
    BY <2>1, FS_Interval
  <2> QED BY <2>1, <2>2
<1>2. /\ \A g \in D : ~SortedBefore(g, g)
      /\ \A g, h \in D : g # h => SortedBefore(g, h) \/ SortedBefore(h, g)
      /\ \A f, g, h \in D : SortedBefore(f, g) /\ SortedBefore(g, h) => SortedBefore(f, h)
  BY <1>1 DEF SortedBefore
<1>3. ASSUME NEW g \in D
      PROVE  /\ IsFiniteSet(Below(g)) /\ Cardinality(Below(g)) \in Nat
             /\ Cardinality(Below(g)) < N
  <2>1. Below(g) \in SUBSET D /\ Below(g) # D
    BY <1>2
  <2>2. IsFiniteSet(Below(g)) /\ Cardinality(Below(g)) <= N /\ Cardinality(Below(g)) # N
    BY <1>1, <2>1, FS_Subset
  <2>3. Cardinality(Below(g)) \in Nat
    BY <2>2, FS_CardinalityType
  <2> QED BY <1>1, <2>2, <2>3
<1>4. ASSUME NEW g \in D, NEW h \in D, SortedBefore(g, h)
      PROVE  Cardinality(Below(g)) < Cardinality(Below(h))
  <2>1. Below(g) \in SUBSET Below(h) /\ Below(g) # Below(h)
    BY <1>2, <1>4
  <2>2. IsFiniteSet(Below(h)) /\ Cardinality(Below(g)) \in Nat /\ Cardinality(Below(h)) \in Nat
    BY <1>3
  <2> HIDE DEF Below
  <2>3. Cardinality(Below(g)) <= Cardinality(Below(h)) /\ Cardinality(Below(g)) # Cardinality(Below(h))
    BY <2>1, <2>2, FS_Subset
  <2> QED BY <2>2, <2>3
<1>5. \A g \in D : Rank[g] = Cardinality(Below(g)) + 1
  BY DEF SortedPlace
<1>6. Rank \in [D -> D] /\ \A g, h \in D : Rank[g] = Rank[h] => g = h
  <2>1. ASSUME NEW g \in D PROVE Rank[g] \in D
    <3>1. Rank[g] = Cardinality(Below(g)) + 1
      BY <1>5
    <3> HIDE DEF Rank, Below
    <3> QED BY <1>1, <1>3, <3>1
  <2>2. \A g, h \in D : SortedBefore(g, h) => Rank[g] < Rank[h]
    <3> HIDE DEF Below, Rank
    <3> QED BY <1>3, <1>4, <1>5
  <2>3. \A g \in D : Rank[g] \in Int
    BY <1>1, <2>1
  <2> HIDE DEF Rank
  <2>4. \A g, h \in D : Rank[g] = Rank[h] => g = h
    BY <1>2, <2>2, <2>3
  <2>5. Rank \in [D -> D]
    BY <2>1 DEF Rank
  <2> QED BY <2>4, <2>5
<1>7. Rank \in Surjection(D, D)
  <2>1. Rank \in Injection(D, D)
    BY <1>6 DEF Injection, IsInjective
  <2> HIDE DEF Rank
  <2> QED BY <1>1, <2>1, FS_Injection
<1>8. ASSUME NEW k \in D PROVE place[k] \in D /\ Rank[place[k]] = k
  <2>1. \E g \in D : SortedPlace(g) = k
    BY <1>7 DEF Surjection
  <2> QED BY <2>1
<1> HIDE DEF place, Below
<1>9. place \in [D -> D]
  BY <1>8 DEF place
<1>10. \A g \in D : \E k \in D : place[k] = g
  BY <1>6, <1>8
<1>11. ASSUME NEW k \in D, NEW l \in D, k < l PROVE SortedBefore(place[k], place[l])
  <2>1. place[k] # place[l]
    <3>1. k # l
      BY <1>1, <1>11
    <3>2. Rank[place[k]] = k /\ Rank[place[l]] = l
      BY <1>8
    <3> HIDE DEF Rank
    <3> QED BY <3>1, <3>2
  <2>2. ~SortedBefore(place[l], place[k])
    <3> SUFFICES ASSUME SortedBefore(place[l], place[k]) PROVE FALSE
      OBVIOUS
    <3>1. Cardinality(Below(place[l])) < Cardinality(Below(place[k]))
      BY <1>4, <1>8
    <3>2. Cardinality(Below(place[l])) + 1 = l /\ Cardinality(Below(place[k])) + 1 = k
      BY <1>5, <1>8
    <3>3. Cardinality(Below(place[l])) \in Nat /\ Cardinality(Below(place[k])) \in Nat
      BY <1>3, <1>8
    <3> QED BY <1>1, <1>11, <3>1, <3>2, <3>3
  <2> QED BY <1>2, <1>8, <2>1, <2>2
<1> QED BY <1>9, <1>10, <1>11 DEF place

---------------------------------------------------------------------------
(* Planning. *)

LEMMA InitIInv == Init => IInv
<1> SUFFICES ASSUME Init PROVE IInv
  OBVIOUS
<1> USE DEF Init
<1>1. TypeOK
  BY EmptySeq DEF TypeOK
<1>2. PlanInv
  BY BoundAssumption DEF PlanInv
<1>3. GroupInv
  BY DEF GroupInv
<1>4. SendInv
  BY DEF SendInv, Sent, Unsent
<1> QED BY <1>1, <1>2, <1>3, <1>4 DEF IInv

\* What a row brings into the plan.
LEMMA RowTypes ==
  ASSUME NEW row \in Row
  PROVE  /\ row.existing \in BOOLEAN /\ row.composite \in BOOLEAN
         /\ row.stores \in Seq(Store)
<1>1. row.existing \in BOOLEAN /\ row.composite \in BOOLEAN
      /\ row.stores \in SetToAllKPermutations(Store)
  BY DEF Row
<1>2. PICK S \in SUBSET Store : row.stores \in SetToSeqs(S)
  BY <1>1 DEF SetToAllKPermutations
<1>3. Cardinality(S) \in Nat
  BY StoreAssumption, FS_Subset, FS_CardinalityType
<1>4. row.stores \in [1..Cardinality(S) -> S]
  BY <1>2 DEF SetToSeqs
<1>5. row.stores \in [1..Cardinality(S) -> Store]
  BY <1>4
<1> QED BY <1>1, <1>3, <1>5, SeqDef

\* The plan after PlanRow: the old one, the main operation, one operation for
\* each store value.
LEMMA PlanRowEffect ==
  ASSUME TypeOK, NEW r \in 1..MaxRows, NEW row \in Row,
         operations' = operations \o <<MainOperation(r, row)>>
                                  \o StoreValueOperations(r, row)
  PROVE  /\ operations' \in Seq(Operation)
         /\ Len(operations) <= Len(operations')
         /\ Len(operations) + 1 \in DOMAIN operations'
         /\ \A o \in DOMAIN operations : o \in DOMAIN operations' /\ operations'[o] = operations[o]
         /\ \A o \in DOMAIN operations' : o > Len(operations) =>
              /\ operations'[o].row = r
              /\ operations'[o].phase = SavePhase(row)
              /\ operations'[o].main <=> o = Len(operations) + 1
              /\ operations'[o].store = Default <=> operations'[o].main
<1> DEFINE L == Len(operations)
           M == MainOperation(r, row)
           V == StoreValueOperations(r, row)
           P == operations \o <<M>>
<1>1. /\ row.stores \in Seq(Store) /\ Len(row.stores) \in Nat
      /\ DOMAIN row.stores = 1..Len(row.stores)
      /\ \A v \in DOMAIN row.stores : row.stores[v] \in Store /\ row.stores[v] # Default
  BY RowTypes, StoreAssumption, LenProperties, ElementOfSeq
<1>2. SavePhase(row) \in 0..1 /\ row.existing \in BOOLEAN
  BY RowTypes DEF SavePhase
<1>3. M \in Operation /\ M.row = r /\ M.phase = SavePhase(row) /\ M.main /\ M.store = Default
  BY <1>2 DEF MainOperation, Operation
<1>4. \A v \in DOMAIN row.stores :
        /\ V[v] \in Operation /\ V[v].row = r /\ V[v].phase = SavePhase(row)
        /\ ~V[v].main /\ V[v].store # Default
  BY <1>1, <1>2 DEF StoreValueOperations, Operation
<1>5. V \in [1..Len(row.stores) -> Operation]
  BY <1>1, <1>4 DEF StoreValueOperations
<1> HIDE DEF M, V
<1>6. V \in Seq(Operation) /\ Len(V) = Len(row.stores)
  <2>1. V \in Seq(Operation)
    BY <1>1, <1>5, SeqDef
  <2>2. Len(V) \in Nat /\ DOMAIN V = 1..Len(V) /\ Len(row.stores) \in Nat
    BY <1>1, <2>1, LenProperties
  <2>3. 1..Len(V) = 1..Len(row.stores)
    BY <1>5, <2>2
  <2>4. \A a, b \in Nat : 1..a = 1..b => a = b
    <3> SUFFICES ASSUME NEW a \in Nat, NEW b \in Nat, 1..a = 1..b PROVE a = b
      OBVIOUS
    <3>1. (a >= 1 => a \in 1..b) /\ (b >= 1 => b \in 1..a)
      OBVIOUS
    <3> QED BY <3>1
  <2>5. Len(V) = Len(row.stores)
    BY <2>2, <2>3, <2>4, Zenon
  <2> QED BY <2>1, <2>5
<1>7. operations \in Seq(Operation) /\ L \in Nat /\ DOMAIN operations = 1..L
  BY OperationTypes DEF TypeOK
<1>8. <<M>> \in Seq(Operation) /\ Len(<<M>>) = 1 /\ <<M>>[1] = M
  BY <1>3
<1>9. /\ P \in Seq(Operation) /\ Len(P) = L + 1
      /\ \A o \in 1..L : P[o] = operations[o]
      /\ P[L + 1] = M
  BY <1>7, <1>8, ConcatProperties
<1> HIDE DEF P
<1>10. operations' = P \o V
  BY DEF P, M, V
<1>11. /\ operations' \in Seq(Operation)
       /\ Len(operations') = L + 1 + Len(V)
       /\ \A o \in 1..(L + 1 + Len(V)) :
            operations'[o] = IF o <= L + 1 THEN P[o] ELSE V[o - (L + 1)]
  <2>1. /\ P \o V \in Seq(Operation)
        /\ Len(P \o V) = Len(P) + Len(V)
        /\ \A o \in 1..(Len(P) + Len(V)) :
             (P \o V)[o] = IF o <= Len(P) THEN P[o] ELSE V[o - Len(P)]
    <3>1. P \in Seq(Operation) /\ V \in Seq(Operation)
      BY <1>6, <1>9
    <3> QED BY <3>1, ConcatProperties, Zenon
  <2> QED BY <1>9, <1>10, <2>1
<1>12. DOMAIN operations' = 1..(L + 1 + Len(V)) /\ Len(V) \in Nat
  BY <1>1, <1>6, <1>11, LenProperties
<1>13. \A o \in DOMAIN operations : o \in DOMAIN operations' /\ operations'[o] = operations[o]
  BY <1>7, <1>9, <1>11, <1>12
<1>14. ASSUME NEW o \in DOMAIN operations', o > L
       PROVE  /\ operations'[o].row = r
              /\ operations'[o].phase = SavePhase(row)
              /\ operations'[o].main <=> o = L + 1
              /\ operations'[o].store = Default <=> operations'[o].main
  <2>1. CASE o = L + 1
    <3>1. operations'[o] = M
      BY <1>7, <1>9, <1>11, <1>12, <2>1
    <3> QED BY <1>3, <2>1, <3>1
  <2>2. CASE o # L + 1
    <3>1. o \in 1..(L + 1 + Len(V)) /\ ~(o <= L + 1)
      BY <1>7, <1>12, <1>14, <2>2
    <3>2. o - (L + 1) \in 1..Len(V) /\ operations'[o] = V[o - (L + 1)]
      BY <1>7, <1>11, <1>12, <3>1
    <3>3. o - (L + 1) \in DOMAIN row.stores
      BY <1>1, <1>6, <3>2
    <3> QED BY <1>4, <2>2, <3>2, <3>3
  <2> QED BY <2>1, <2>2
<1> QED BY <1>7, <1>11, <1>12, <1>13, <1>14

LEMMA PlanRowStep == IInv /\ PlanRow => IInv'
<1> SUFFICES ASSUME IInv, PlanRow PROVE IInv'
  OBVIOUS
<1> DEFINE L == Len(operations)
           r == RowsPlanned + 1
<1>1. PICK row \in Row :
        operations' = operations \o <<MainOperation(r, row)>> \o StoreValueOperations(r, row)
  BY DEF PlanRow
<1>2. /\ pc = "plan" /\ RowsPlanned < MaxRows
      /\ UNCHANGED <<mode, size, pc, grouped, groups, requests>>
      /\ groups = <<>> /\ requests = <<>> /\ grouped = 0
  BY DEF PlanRow, IInv, GroupInv, SendInv
<1>3. PICK k \in 0..MaxRows : {operations[o].row : o \in DOMAIN operations} = 1..k
  BY DEF IInv, PlanInv
<1>4. r = k + 1 /\ r \in 1..MaxRows
  <2>1. k \in Nat /\ k <= MaxRows
    BY BoundAssumption
  <2>2. Cardinality(1..k) = k
    BY <2>1, FS_Interval
  <2>3. RowsPlanned = k
    BY <1>3, <2>2 DEF RowsPlanned
  <2> QED BY <1>2, <2>1, <2>3, BoundAssumption
<1> HIDE DEF r
<1>5. /\ operations' \in Seq(Operation)
      /\ Len(operations) <= Len(operations')
      /\ L + 1 \in DOMAIN operations'
      /\ \A o \in DOMAIN operations : o \in DOMAIN operations' /\ operations'[o] = operations[o]
      /\ \A o \in DOMAIN operations' : o > L =>
           /\ operations'[o].row = r
           /\ operations'[o].phase = SavePhase(row)
           /\ operations'[o].main <=> o = L + 1
           /\ operations'[o].store = Default <=> operations'[o].main
  <2>1. TypeOK /\ r \in 1..MaxRows
    BY <1>4 DEF IInv
  <2>2. operations' = operations \o <<MainOperation(r, row)>> \o StoreValueOperations(r, row)
    BY <1>1 DEF r
  <2> QED BY <2>1, <2>2, PlanRowEffect, Zenon
<1>6. /\ L \in Nat /\ DOMAIN operations = 1..L
      /\ Len(operations') \in Nat /\ DOMAIN operations' = 1..Len(operations')
  BY <1>5, OperationTypes, LenProperties DEF IInv
<1>7. \A o \in DOMAIN operations : operations[o].row \in 1..k
  BY <1>3
<1>8. TypeOK'
  BY <1>2, <1>5, <1>6, EmptySeq DEF IInv, TypeOK
<1>9. PlanInv'
  <2>1. {operations'[o].row : o \in DOMAIN operations'} = 1..(k + 1)
    <3>1. \A o \in DOMAIN operations' : operations'[o].row \in 1..(k + 1)
      BY <1>4, <1>5, <1>6, <1>7
    <3>2. ASSUME NEW s \in 1..(k + 1) PROVE \E o \in DOMAIN operations' : operations'[o].row = s
      <4>1. CASE s = k + 1
        BY <1>4, <1>5, <1>6, <4>1
      <4>2. CASE s # k + 1
        <5>1. s \in 1..k
          BY <4>2
        <5>2. PICK o \in DOMAIN operations : operations[o].row = s
          BY <1>3, <5>1
        <5> QED BY <1>5, <5>2
      <4> QED BY <4>1, <4>2
    <3> QED BY <3>1, <3>2
  <2>2. k + 1 \in 0..MaxRows
    BY <1>4, BoundAssumption
  <2>3. \A o \in DOMAIN operations' : operations'[o].store = Default <=> operations'[o].main
    BY <1>5, <1>6 DEF IInv, PlanInv
  <2>4. ASSUME NEW o \in DOMAIN operations'
        PROVE  \E m \in DOMAIN operations' :
                 operations'[m].main /\ operations'[m].row = operations'[o].row
    <3>1. CASE o \in DOMAIN operations
      <4>1. PICK m \in DOMAIN operations :
              operations[m].main /\ operations[m].row = operations[o].row
        BY <3>1 DEF IInv, PlanInv
      <4> QED BY <1>5, <3>1, <4>1
    <3>2. CASE o \notin DOMAIN operations
      BY <1>5, <1>6, <3>2
    <3> QED BY <3>1, <3>2
  <2>5. ASSUME NEW o \in DOMAIN operations', NEW p \in DOMAIN operations',
               operations'[o].row = operations'[p].row
        PROVE  /\ operations'[o].phase = operations'[p].phase
               /\ operations'[o].main /\ ~operations'[p].main => o < p
    <3>1. CASE o \in DOMAIN operations /\ p \in DOMAIN operations
      <4>1. operations'[o] = operations[o] /\ operations'[p] = operations[p]
        BY <1>5, <3>1
      <4> QED BY <2>5, <3>1, <4>1 DEF IInv, PlanInv
    <3>2. CASE o \notin DOMAIN operations /\ p \notin DOMAIN operations
      BY <1>5, <1>6, <3>2
    <3>3. CASE o \in DOMAIN operations /\ p \notin DOMAIN operations
      BY <1>4, <1>5, <1>6, <1>7, <2>5, <3>3
    <3>4. CASE o \notin DOMAIN operations /\ p \in DOMAIN operations
      BY <1>4, <1>5, <1>6, <1>7, <2>5, <3>4
    <3> QED BY <3>1, <3>2, <3>3, <3>4
  <2> QED BY <2>1, <2>2, <2>3, <2>4, <2>5 DEF PlanInv
<1>10. GroupInv'
  BY <1>2 DEF IInv, GroupInv
<1>11. SendInv'
  BY <1>2 DEF SendInv, Sent, Unsent
<1> QED BY <1>8, <1>9, <1>10, <1>11 DEF IInv

\* The plan and its order stay while the plan does.
LEMMA SamePlan ==
  ASSUME UNCHANGED <<mode, operations>>
  PROVE  /\ PlanInv => PlanInv'
         /\ \A o : KeyOf(o)' = KeyOf(o)
         /\ \A ops : OneGroup(ops)' <=> OneGroup(ops)
         /\ \A ops, others : AllBefore(ops, others)' <=> AllBefore(ops, others)
         /\ \A o, p : Before(o, p)' <=> Before(o, p)
BY DEF PlanInv, KeyOf, OneGroup, Ascending, AllBefore, Before, Leads

LEMMA ExecuteStep == IInv /\ Execute => IInv'
<1> SUFFICES ASSUME IInv, Execute PROVE IInv'
  OBVIOUS
<1>1. /\ UNCHANGED <<mode, size, operations, grouped, groups, requests>>
      /\ pc' = IF mode = "bulk" THEN "group" ELSE "send"
      /\ groups = <<>> /\ requests = <<>> /\ grouped = 0
  BY DEF Execute, IInv, GroupInv, SendInv
<1>2. TypeOK'
  BY <1>1 DEF IInv, TypeOK
<1>3. PlanInv'
  BY <1>1, SamePlan DEF IInv
<1>4. GroupInv'
  BY <1>1 DEF IInv, TypeOK, GroupInv
<1>5. SendInv'
  BY <1>1 DEF SendInv, Sent, Unsent
<1> QED BY <1>2, <1>3, <1>4, <1>5 DEF IInv

---------------------------------------------------------------------------
(* Grouping. *)

LEMMA KeyTypes ==
  ASSUME TypeOK, NEW o \in DOMAIN operations
  PROVE  KeyOf(o) \in Key
BY OperationTypes DEF KeyOf, Key, Operation

\* What _execute_bulk appends to a group stays one group.
LEMMA AppendOperation ==
  ASSUME TypeOK, NEW ops \in Seq(DOMAIN operations), OneGroup(ops),
         NEW o \in DOMAIN operations,
         \A i \in DOMAIN ops : ops[i] < o /\ KeyOf(ops[i]) = KeyOf(o)
  PROVE  LET longer == Append(ops, o)
         IN  /\ longer \in Seq(DOMAIN operations)
             /\ OneGroup(longer)
             /\ longer[1] = ops[1]
             /\ ToSet(longer) = ToSet(ops) \cup {o}
             /\ \A i \in DOMAIN longer : longer[i] \in {o} \cup ToSet(ops)
<1> DEFINE longer == Append(ops, o)
           L == Len(ops)
<1>1. /\ L \in Nat /\ DOMAIN ops = 1..L
      /\ \A i \in 1..L : ops[i] \in DOMAIN operations
  BY LenProperties, ElementOfSeq
<1>2. /\ longer \in Seq(DOMAIN operations) /\ Len(longer) = L + 1
      /\ \A i \in 1..L : longer[i] = ops[i]
      /\ longer[L + 1] = o
  BY AppendProperties
<1>3. DOMAIN longer = 1..(L + 1)
  BY <1>1, <1>2, LenProperties
<1>4. L >= 1
  BY <1>1, EmptySeq DEF OneGroup
<1> HIDE DEF longer
<1>5. \A i \in 1..(L + 1) : i = L + 1 \/ i \in 1..L
  BY <1>1
<1>6. DOMAIN operations \subseteq Nat
  BY OperationTypes
<1>7. Ascending(longer)
  <2> SUFFICES ASSUME NEW i \in 1..(L + 1), NEW j \in 1..(L + 1), i < j
               PROVE  longer[i] < longer[j]
    BY <1>3 DEF Ascending
  <2>1. i \in 1..L
    BY <1>1
  <2>2. CASE j = L + 1
    BY <1>1, <1>2, <2>1, <2>2
  <2>3. CASE j \in 1..L
    BY <1>1, <1>2, <2>1, <2>3 DEF OneGroup, Ascending
  <2> QED BY <1>5, <2>2, <2>3
<1>8. \A i \in DOMAIN longer : KeyOf(longer[i]) = KeyOf(o)
  BY <1>1, <1>2, <1>3, <1>5
<1>9. longer # <<>>
  BY <1>1, <1>2, <1>3, <1>4
<1>10. OneGroup(longer)
  BY <1>7, <1>8, <1>9 DEF OneGroup
<1>11. longer[1] = ops[1]
  BY <1>1, <1>2, <1>4
<1>12. ToSet(longer) = ToSet(ops) \cup {o}
  <2>1. ToSet(longer) = {longer[i] : i \in DOMAIN longer} /\ ToSet(ops) = {ops[i] : i \in DOMAIN ops}
    BY DEF ToSet
  <2>2. DOMAIN longer = DOMAIN ops \cup {L + 1}
    BY <1>1, <1>3
  <2> QED BY <1>1, <1>2, <2>1, <2>2
<1>13. \A i \in DOMAIN longer : longer[i] \in {o} \cup ToSet(ops)
  BY <1>12 DEF ToSet
<1> QED BY <1>2, <1>10, <1>11, <1>12, <1>13 DEF longer

\* The groups after Group, whether the key is new or known.
LEMMA GroupEffect ==
  ASSUME IInv, Group
  PROVE  LET o == grouped + 1
         IN  /\ o \in DOMAIN operations
             /\ groups' \in Seq([key: Key, ops: Seq(DOMAIN operations)])
             /\ DOMAIN groups \subseteq DOMAIN groups'
             /\ \A g \in DOMAIN groups :
                  /\ groups'[g].key = groups[g].key
                  /\ groups'[g].ops = IF groups[g].key = KeyOf(o) THEN Append(groups[g].ops, o)
                                      ELSE groups[g].ops
             /\ \A g \in DOMAIN groups' \ DOMAIN groups :
                  /\ groups'[g].key = KeyOf(o) /\ groups'[g].ops = <<o>>
                  /\ \A h \in DOMAIN groups : h < g /\ groups[h].key # KeyOf(o)
             /\ \A g, h \in DOMAIN groups' : g \notin DOMAIN groups /\ h \notin DOMAIN groups => g = h
             /\ \E g \in DOMAIN groups' : groups'[g].key = KeyOf(o)
<1> DEFINE o == grouped + 1
           known == {g \in DOMAIN groups : groups[g].key = KeyOf(o)}
           G == [key: Key, ops: Seq(DOMAIN operations)]
           N == Len(groups)
           n == [key |-> KeyOf(o), ops |-> <<o>>]
<1>1. TypeOK
  BY DEF IInv
<1>2. groups \in Seq(G) /\ N \in Nat /\ DOMAIN groups = 1..N
  BY <1>1, GroupTypes DEF TypeOK
<1>3. o \in DOMAIN operations
  BY <1>1, OperationTypes DEF Group, TypeOK
<1>4. KeyOf(o) \in Key
  BY <1>1, <1>3, KeyTypes
<1>5. groups' = IF known = {} THEN Append(groups, n)
                ELSE [g \in DOMAIN groups |->
                        IF g \in known THEN [groups[g] EXCEPT !.ops = Append(@, o)]
                        ELSE groups[g]]
  BY DEF Group
<1> HIDE DEF o
<1>6. \A g \in DOMAIN groups :
        /\ groups[g] \in G
        /\ groups[g].ops \in Seq(DOMAIN operations)
  BY <1>1, <1>2, GroupTypes, ElementOfSeq
<1>7. CASE known = {}
  <2>1. n \in G /\ n.key = KeyOf(o) /\ n.ops = <<o>>
    BY <1>3, <1>4
  <2> HIDE DEF n, G
  <2>2. groups' = Append(groups, n)
    BY <1>5, <1>7
  <2>3. /\ groups' \in Seq(G) /\ Len(groups') = N + 1
        /\ \A g \in 1..N : groups'[g] = groups[g]
        /\ groups'[N + 1] = n
    BY <1>2, <2>1, <2>2, AppendProperties
  <2>4. DOMAIN groups' = 1..(N + 1)
    BY <2>3, LenProperties
  <2>5. /\ DOMAIN groups \subseteq DOMAIN groups'
        /\ DOMAIN groups' \ DOMAIN groups = {N + 1}
        /\ N + 1 \in DOMAIN groups'
        /\ \A h \in DOMAIN groups : h < N + 1
    BY <1>2, <2>4
  <2>6. \A g \in DOMAIN groups : groups[g].key # KeyOf(o) /\ groups'[g] = groups[g]
    BY <1>2, <1>7, <2>3
  <2> QED BY <1>3, <2>1, <2>3, <2>5, <2>6 DEF G, o
<1>8. CASE known # {}
  <2>1. groups' = [g \in DOMAIN groups |->
                     IF g \in known THEN [groups[g] EXCEPT !.ops = Append(@, o)]
                     ELSE groups[g]]
    BY <1>5, <1>8
  <2>2. ASSUME NEW g \in DOMAIN groups
        PROVE  /\ groups'[g] \in G
               /\ groups'[g].key = groups[g].key
               /\ groups'[g].ops = IF groups[g].key = KeyOf(o) THEN Append(groups[g].ops, o)
                                   ELSE groups[g].ops
    <3>1. CASE g \in known
      <4>1. groups'[g] = [groups[g] EXCEPT !.ops = Append(@, o)]
        BY <2>1, <3>1
      <4>2. Append(groups[g].ops, o) \in Seq(DOMAIN operations)
        BY <1>3, <1>6, AppendProperties
      <4>3. groups[g] \in G /\ groups[g].key = KeyOf(o)
        BY <1>6, <3>1
      <4> QED BY <4>1, <4>2, <4>3
    <3>2. CASE g \notin known
      <4>1. groups'[g] = groups[g] /\ groups[g].key # KeyOf(o)
        BY <2>1, <3>2
      <4> QED BY <1>6, <4>1
    <3> QED BY <3>1, <3>2
  <2>3. DOMAIN groups' = DOMAIN groups
    BY <2>1
  <2>4. groups' \in [1..N -> G]
    BY <1>2, <2>1, <2>2, <2>3
  <2>5. groups' \in Seq(G)
    <3> HIDE DEF G
    <3> QED BY <1>2, <2>4, SeqDef
  <2>6. \E g \in DOMAIN groups : groups[g].key = KeyOf(o)
    BY <1>8
  <2> QED BY <1>3, <2>2, <2>3, <2>5, <2>6 DEF o
<1> QED BY <1>7, <1>8

LEMMA GroupStep == IInv /\ Group => IInv'
<1> SUFFICES ASSUME IInv, Group PROVE IInv'
  OBVIOUS
<1> DEFINE o == grouped + 1
<1>1. /\ o \in DOMAIN operations
      /\ groups' \in Seq([key: Key, ops: Seq(DOMAIN operations)])
      /\ DOMAIN groups \subseteq DOMAIN groups'
      /\ \A g \in DOMAIN groups :
           /\ groups'[g].key = groups[g].key
           /\ groups'[g].ops = IF groups[g].key = KeyOf(o) THEN Append(groups[g].ops, o)
                               ELSE groups[g].ops
      /\ \A g \in DOMAIN groups' \ DOMAIN groups :
           /\ groups'[g].key = KeyOf(o) /\ groups'[g].ops = <<o>>
           /\ \A h \in DOMAIN groups : h < g /\ groups[h].key # KeyOf(o)
      /\ \A g, h \in DOMAIN groups' : g \notin DOMAIN groups /\ h \notin DOMAIN groups => g = h
      /\ \E g \in DOMAIN groups' : groups'[g].key = KeyOf(o)
  BY GroupEffect
<1>2. /\ UNCHANGED <<mode, size, pc, operations, requests>> /\ grouped' = o
      /\ pc = "group" /\ mode = "bulk" /\ requests = <<>> /\ grouped \in Nat
      /\ o <= Len(operations)
  <2>1. TypeOK
    BY DEF IInv
  <2> QED BY <2>1, OperationTypes DEF Group, IInv, TypeOK, GroupInv, SendInv
<1> HIDE DEF o
<1>3. TypeOK'
  <2>1. o \in Nat /\ Len(operations) \in Nat
    BY <1>2, OperationTypes DEF IInv, o
  <2>2. grouped' \in 0..Len(operations')
    BY <1>2, <2>1
  <2> QED BY <1>1, <1>2, <2>2 DEF IInv, TypeOK
<1>4. \A g \in DOMAIN groups :
        /\ groups[g].ops \in Seq(DOMAIN operations)
        /\ OneGroup(groups[g].ops)
        /\ \A i \in DOMAIN groups[g].ops :
             /\ KeyOf(groups[g].ops[i]) = groups[g].key
             /\ groups[g].ops[i] \in DOMAIN operations
             /\ groups[g].ops[i] <= grouped
  BY <1>2, GroupTypes DEF IInv, GroupInv
<1>5. ASSUME NEW g \in DOMAIN groups'
      PROVE  /\ OneGroup(groups'[g].ops)
             /\ \A i \in DOMAIN groups'[g].ops :
                  /\ KeyOf(groups'[g].ops[i]) = groups'[g].key
                  /\ groups'[g].ops[i] <= o
             /\ g \in DOMAIN groups =>
                  /\ groups'[g].ops[1] = groups[g].ops[1]
                  /\ ToSet(groups[g].ops) \subseteq ToSet(groups'[g].ops)
             /\ g \notin DOMAIN groups => groups'[g].ops[1] = o
             /\ groups'[g].key = KeyOf(o) => o \in ToSet(groups'[g].ops)
  <2>1. CASE g \in DOMAIN groups /\ groups[g].key = KeyOf(o)
    <3>1. \A i \in DOMAIN groups[g].ops :
            groups[g].ops[i] < o /\ KeyOf(groups[g].ops[i]) = KeyOf(o)
      <4>1. \A i \in DOMAIN groups[g].ops : groups[g].ops[i] \in Nat
        BY <1>4, <2>1, OperationTypes DEF IInv
      <4> QED BY <1>2, <1>4, <2>1, <4>1 DEF o
    <3>2. groups'[g].ops = Append(groups[g].ops, o) /\ groups'[g].key = KeyOf(o)
      BY <1>1, <2>1
    <3>3. LET longer == Append(groups[g].ops, o)
          IN  /\ OneGroup(longer)
              /\ longer[1] = groups[g].ops[1]
              /\ ToSet(longer) = ToSet(groups[g].ops) \cup {o}
              /\ \A i \in DOMAIN longer : longer[i] \in {o} \cup ToSet(groups[g].ops)
      BY <1>1, <1>4, <2>1, <3>1, AppendOperation DEF IInv
    <3>4. \A p \in {o} \cup ToSet(groups[g].ops) : KeyOf(p) = KeyOf(o) /\ p <= o
      <4>1. o \in Nat
        BY <1>2 DEF o
      <4>2. \A p \in ToSet(groups[g].ops) :
              KeyOf(p) = KeyOf(o) /\ p < o /\ p \in DOMAIN operations
        BY <1>4, <2>1, <3>1 DEF ToSet
      <4>3. DOMAIN operations \subseteq Nat
        BY OperationTypes DEF IInv
      <4> QED BY <4>1, <4>2, <4>3
    <3> QED BY <2>1, <3>2, <3>3, <3>4
  <2>2. CASE g \in DOMAIN groups /\ groups[g].key # KeyOf(o)
    <3>1. groups'[g].ops = groups[g].ops /\ groups'[g].key = groups[g].key
      BY <1>1, <2>2
    <3>2. \A i \in DOMAIN groups[g].ops : groups[g].ops[i] <= o
      <4>1. \A i \in DOMAIN groups[g].ops : groups[g].ops[i] \in Nat
        BY <1>4, <2>2, OperationTypes DEF IInv
      <4> QED BY <1>2, <1>4, <2>2, <4>1 DEF o
    <3> QED BY <1>4, <2>2, <3>1, <3>2
  <2>3. CASE g \notin DOMAIN groups
    <3>1. groups'[g].ops = <<o>> /\ groups'[g].key = KeyOf(o)
      BY <1>1, <2>3
    <3>2. o \in Nat
      BY <1>2 DEF o
    <3>3. DOMAIN <<o>> = {1} /\ <<o>>[1] = o /\ <<o>> # <<>>
      OBVIOUS
    <3>4. OneGroup(<<o>>)
      BY <3>3 DEF OneGroup, Ascending
    <3>5. ToSet(<<o>>) = {o}
      BY <3>3 DEF ToSet
    <3> QED BY <2>3, <3>1, <3>2, <3>3, <3>4, <3>5
  <2> QED BY <2>1, <2>2, <2>3
<1>6. \A g, h \in DOMAIN groups' : g # h => groups'[g].key # groups'[h].key
  <2>1. \A g, h \in DOMAIN groups : g # h => groups[g].key # groups[h].key
    BY DEF IInv, GroupInv
  <2> QED BY <1>1, <2>1
<1>7. ASSUME NEW p \in 1..o PROVE \E g \in DOMAIN groups' : p \in ToSet(groups'[g].ops)
  <2>1. CASE p = o
    BY <1>1, <1>5, <2>1
  <2>2. CASE p # o
    <3>1. p \in 1..grouped
      BY <1>2, <2>2 DEF o
    <3>2. PICK g \in DOMAIN groups : p \in ToSet(groups[g].ops)
      BY <1>2, <3>1 DEF IInv, GroupInv
    <3> QED BY <1>1, <1>5, <3>2
  <2> QED BY <2>1, <2>2
<1>8. ASSUME NEW g \in DOMAIN groups', NEW h \in DOMAIN groups', g < h
      PROVE  groups'[g].ops[1] < groups'[h].ops[1]
  <2>1. DOMAIN groups \subseteq Nat /\ DOMAIN groups' \subseteq Nat
    <3>1. DOMAIN groups' = 1..Len(groups')
      BY <1>1, LenProperties
    <3> QED BY <3>1, GroupTypes DEF IInv
  <2>2. g \in DOMAIN groups
    <3> SUFFICES ASSUME g \notin DOMAIN groups PROVE FALSE
      OBVIOUS
    <3>1. h \in DOMAIN groups => h < g
      BY <1>1
    <3>2. h \notin DOMAIN groups => g = h
      BY <1>1
    <3> QED BY <1>8, <2>1, <3>1, <3>2
  <2>3. CASE h \in DOMAIN groups
    <3>1. groups[g].ops[1] < groups[h].ops[1]
      BY <1>2, <1>8, <2>2, <2>3 DEF IInv, GroupInv
    <3> QED BY <1>5, <2>2, <2>3, <3>1
  <2>4. CASE h \notin DOMAIN groups
    <3>1. groups[g].ops \in Seq(DOMAIN operations) /\ groups[g].ops # <<>>
      BY <1>4, <2>2 DEF OneGroup
    <3>2. 1 \in DOMAIN groups[g].ops
      BY <3>1, LenProperties, EmptySeq
    <3>3. groups[g].ops[1] <= grouped /\ groups[g].ops[1] \in Nat
      BY <1>4, <2>2, <3>2, OperationTypes DEF IInv
    <3>4. groups[g].ops[1] < o
      BY <1>2, <3>3 DEF o
    <3> QED BY <1>5, <2>2, <2>4, <3>4
  <2> QED BY <2>3, <2>4
<1>9. PlanInv'
  BY <1>2, SamePlan DEF IInv
<1>10. GroupInv'
  <2>1. (\A g \in DOMAIN groups :
           /\ OneGroup(groups[g].ops)
           /\ \A i \in DOMAIN groups[g].ops : KeyOf(groups[g].ops[i]) = groups[g].key)'
    BY <1>2, <1>5 DEF OneGroup, Ascending, KeyOf
  <2>2. (\A g, h \in DOMAIN groups : g # h => groups[g].key # groups[h].key)'
    BY <1>6
  <2>3. (/\ \A g \in DOMAIN groups : \A i \in DOMAIN groups[g].ops : groups[g].ops[i] <= grouped
         /\ \A p \in 1..grouped : \E g \in DOMAIN groups : p \in ToSet(groups[g].ops)
         /\ \A g, h \in DOMAIN groups : g < h => groups[g].ops[1] < groups[h].ops[1])'
    BY <1>2, <1>5, <1>7, <1>8 DEF ToSet
  <2> QED BY <1>2, <2>1, <2>2, <2>3 DEF GroupInv
<1>11. SendInv'
  BY <1>2 DEF SendInv, Sent, Unsent
<1> QED BY <1>3, <1>9, <1>10, <1>11 DEF IInv

---------------------------------------------------------------------------
(* Sorting. *)

\* Of two groups, all of the one that is sorted ahead comes before the other.
LEMMA SortedIsBefore ==
  ASSUME TypeOK, GroupInv, pc = "group", grouped = Len(operations),
         NEW g \in DOMAIN groups, NEW h \in DOMAIN groups, SortedBefore(g, h)
  PROVE  AllBefore(groups[g].ops, groups[h].ops)
<1>1. \A f \in DOMAIN groups :
        /\ OneGroup(groups[f].ops)
        /\ \A i \in DOMAIN groups[f].ops :
             /\ KeyOf(groups[f].ops[i]) = groups[f].key
             /\ groups[f].ops[i] \in DOMAIN operations
        /\ DOMAIN groups[f].ops = 1..Len(groups[f].ops) /\ Len(groups[f].ops) \in Nat
        /\ groups[f].ops \in Seq(DOMAIN operations)
  BY GroupTypes DEF GroupInv
<1>2. DOMAIN operations \subseteq Nat /\ DOMAIN groups \subseteq Nat /\ mode = "bulk"
  BY OperationTypes, GroupTypes DEF GroupInv
<1>3. 1 \in DOMAIN groups[g].ops /\ 1 \in DOMAIN groups[h].ops
  <2>1. Len(groups[g].ops) # 0 /\ Len(groups[h].ops) # 0
    BY <1>1, EmptySeq DEF OneGroup
  <2> QED BY <1>1, <2>1
<1>4. SUFFICES ASSUME NEW i \in DOMAIN groups[g].ops, NEW j \in DOMAIN groups[h].ops
               PROVE  Before(groups[g].ops[i], groups[h].ops[j])
  BY DEF AllBefore
<1> DEFINE o == groups[g].ops[i]
           p == groups[h].ops[j]
           e == groups[g].ops[1]
<1>5. /\ KeyOf(o) = groups[g].key /\ KeyOf(p) = groups[h].key /\ KeyOf(e) = groups[g].key
      /\ o \in DOMAIN operations /\ p \in DOMAIN operations /\ e \in DOMAIN operations
  BY <1>1, <1>3
<1>6. operations[o].phase = groups[g].key.phase /\ operations[p].phase = groups[h].key.phase
  BY <1>5 DEF KeyOf
<1>7. CASE groups[g].key.phase < groups[h].key.phase
  BY <1>6, <1>7 DEF Before
<1>8. CASE groups[g].key.phase = groups[h].key.phase /\ g < h
  <2>1. g # h
    BY <1>2, <1>8
  <2>2. groups[g].key # groups[h].key
    BY <2>1 DEF GroupInv
  <2>3. e < groups[h].ops[1]
    BY <1>8 DEF GroupInv
  <2>4. ASSUME NEW f \in DOMAIN operations, KeyOf(f) = groups[h].key PROVE e < f
    <3>1. f \in 1..grouped
      BY OperationTypes
    <3>2. PICK k \in DOMAIN groups : f \in ToSet(groups[k].ops)
      BY <3>1 DEF GroupInv
    <3>3. PICK l \in DOMAIN groups[k].ops : groups[k].ops[l] = f
      BY <3>2 DEF ToSet
    <3>4. groups[k].key = groups[h].key
      BY <1>1, <2>4, <3>3
    <3>5. k = h
      BY <3>4 DEF GroupInv
    <3>6. l \in DOMAIN groups[h].ops /\ f = groups[h].ops[l] /\ l >= 1
      <4>1. l \in DOMAIN groups[h].ops /\ f = groups[h].ops[l]
        BY <3>3, <3>5
      <4> QED BY <1>1, <4>1
    <3>7. groups[h].ops[1] <= f
      <4>1. groups[h].ops[1] \in Nat /\ f \in Nat
        BY <1>1, <1>2, <1>3
      <4>2. l > 1 => groups[h].ops[1] < f
        BY <1>1, <1>3, <3>6 DEF OneGroup, Ascending
      <4>3. l = 1 \/ l > 1
        BY <1>1, <3>6
      <4> QED BY <3>6, <4>1, <4>2, <4>3
    <3>8. e \in Nat /\ f \in Nat /\ groups[h].ops[1] \in Nat
      BY <1>1, <1>2, <1>3
    <3> HIDE DEF e
    <3> QED BY <2>3, <3>7, <3>8
  <2>5. Leads(o, p)
    BY <1>5, <2>4 DEF Leads
  <2> QED BY <1>2, <1>5, <1>6, <1>8, <2>2, <2>5 DEF Before
<1> QED BY <1>7, <1>8 DEF SortedBefore

LEMMA SortStep == IInv /\ Sort => IInv'
<1> SUFFICES ASSUME IInv, Sort PROVE IInv'
  OBVIOUS
<1> DEFINE D == DOMAIN groups
           place == [k \in D |-> CHOOSE g \in D : SortedPlace(g) = k]
           G == [key: Key, ops: Seq(DOMAIN operations)]
<1>1. /\ UNCHANGED <<mode, size, operations, grouped, requests>>
      /\ pc = "group" /\ pc' = "send" /\ mode = "bulk" /\ requests = <<>>
      /\ grouped = Len(operations)
      /\ TypeOK /\ GroupInv /\ PlanInv /\ SendInv
  BY DEF Sort, IInv, GroupInv, SendInv
<1>2. /\ place \in [D -> D]
      /\ \A g \in D : \E k \in D : place[k] = g
      /\ \A k, l \in D : k < l => SortedBefore(place[k], place[l])
  BY <1>1, SortedPlaces
<1>3. DOMAIN groups' = D /\ \A k \in D : groups'[k] = groups[place[k]]
  BY DEF Sort
<1> HIDE DEF place
<1>4. \A k, l \in D : k < l => place[k] # place[l]
  <2>1. \A g \in D : ~SortedBefore(g, g)
    BY <1>1, GroupTypes DEF SortedBefore
  <2> QED BY <1>2, <2>1
<1>5. D \subseteq Nat /\ Len(groups) \in Nat /\ D = 1..Len(groups)
  BY <1>1, GroupTypes
<1>6. \A k, l \in D : k # l => place[k] # place[l]
  BY <1>4, <1>5
<1>7. groups' \in Seq(G)
  <2>1. \A g \in D : groups[g] \in G
    <3>1. groups \in Seq(G)
      BY <1>1 DEF TypeOK
    <3> QED BY <3>1, ElementOfSeq, <1>5
  <2> HIDE DEF G
  <2>2. groups' \in [D -> G]
    <3>1. \A k \in D : groups'[k] \in G
      BY <1>2, <1>3, <2>1
    <3>2. groups' = [k \in D |-> groups'[k]]
      BY DEF Sort
    <3> QED BY <3>1, <3>2
  <2> QED BY <1>5, <2>2, SeqDef
<1>8. TypeOK'
  BY <1>1, <1>7 DEF TypeOK
<1>9. PlanInv'
  BY <1>1, SamePlan
<1>10. GroupInv'
  <2>1. (\A g \in DOMAIN groups :
           /\ OneGroup(groups[g].ops)
           /\ \A i \in DOMAIN groups[g].ops : KeyOf(groups[g].ops[i]) = groups[g].key)'
    <3>1. \A k \in D :
            /\ OneGroup(groups[place[k]].ops)
            /\ \A i \in DOMAIN groups[place[k]].ops :
                 KeyOf(groups[place[k]].ops[i]) = groups[place[k]].key
      BY <1>1, <1>2 DEF GroupInv
    <3>2. \A k \in D :
            /\ OneGroup(groups'[k].ops)
            /\ \A i \in DOMAIN groups'[k].ops : KeyOf(groups'[k].ops[i]) = groups'[k].key
      BY <1>3, <3>1
    <3> QED BY <1>1, <1>3, <3>2 DEF OneGroup, Ascending, KeyOf
  <2>2. (\A g, h \in DOMAIN groups : g # h => groups[g].key # groups[h].key)'
    BY <1>1, <1>2, <1>3, <1>6 DEF GroupInv
  <2> QED BY <1>1, <2>1, <2>2 DEF GroupInv
<1>11. SendInv'
  <2>1. \A k, l \in D : k < l => AllBefore(groups[place[k]].ops, groups[place[l]].ops)
    BY <1>1, <1>2, SortedIsBefore
  <2>2. (\A g, h \in DOMAIN groups : g < h => AllBefore(groups[g].ops, groups[h].ops))'
    <3>1. \A g, h \in D : g < h => AllBefore(groups'[g].ops, groups'[h].ops)
      BY <1>3, <2>1
    <3> SUFFICES ASSUME NEW g \in DOMAIN groups', NEW h \in DOMAIN groups', g < h,
                        NEW i \in DOMAIN groups'[g].ops, NEW j \in DOMAIN groups'[h].ops
                 PROVE  Before(groups[g].ops[i], groups[h].ops[j])'
      BY DEF AllBefore
    <3>2. Before(groups'[g].ops[i], groups'[h].ops[j])
      BY <1>3, <3>1 DEF AllBefore
    <3> QED BY <1>1, <3>2 DEF Before, Leads, KeyOf
  <2>3. \A o \in DOMAIN operations : \E k \in D : o \in ToSet(groups[place[k]].ops)
    <3>1. \A o \in DOMAIN operations : \E g \in D : o \in ToSet(groups[g].ops)
      BY <1>1, OperationTypes DEF GroupInv
    <3> QED BY <1>2, <3>1
  <2>4. (\A o \in DOMAIN operations : \E g \in DOMAIN groups : o \in ToSet(groups[g].ops))'
    <3> SUFFICES ASSUME NEW o \in DOMAIN operations
                 PROVE  \E g \in D : o \in ToSet(groups'[g].ops)
      BY <1>1, <1>3 DEF ToSet
    <3> QED BY <1>3, <2>3
  <2> QED BY <1>1, <2>2, <2>4 DEF SendInv, Sent, Unsent
<1> QED BY <1>8, <1>9, <1>10, <1>11 DEF IInv

---------------------------------------------------------------------------
(* Sending in bulk mode. *)

\* What goes out last in requests.
LEMMA RequestAppended ==
  ASSUME TypeOK, NEW c \in Seq(DOMAIN operations), requests' = Append(requests, c)
  PROVE  LET N == Len(requests)
         IN  /\ requests' \in Seq(Seq(DOMAIN operations))
             /\ N \in Nat /\ DOMAIN requests = 1..N /\ DOMAIN requests' = 1..(N + 1)
             /\ \A q \in DOMAIN requests : requests'[q] = requests[q]
             /\ requests'[N + 1] = c
             /\ Sent' = Sent \cup ToSet(c)
<1> DEFINE N == Len(requests)
           T == Seq(DOMAIN operations)
<1>1. requests \in Seq(T) /\ N \in Nat /\ DOMAIN requests = 1..N
  BY RequestTypes DEF TypeOK
<1>2. /\ requests' \in Seq(T) /\ Len(requests') = N + 1
      /\ \A q \in 1..N : requests'[q] = requests[q]
      /\ requests'[N + 1] = c
  <2>1. c \in T
    OBVIOUS
  <2> HIDE DEF T
  <2> QED BY <1>1, <2>1, AppendProperties
<1>3. DOMAIN requests' = 1..(N + 1)
  <2> HIDE DEF T
  <2> QED BY <1>2, LenProperties
<1>4. DOMAIN requests' = DOMAIN requests \cup {N + 1}
  BY <1>1, <1>3
<1>5. Sent' = UNION {ToSet(requests'[q]) : q \in DOMAIN requests'}
  BY DEF Sent, ToSet
<1>6. \A q \in DOMAIN requests : requests'[q] = requests[q]
  BY <1>1, <1>2
<1>7. Sent' = Sent \cup ToSet(c)
  <2>1. \A o : o \in Sent <=> \E q \in DOMAIN requests : o \in ToSet(requests[q])
    BY DEF Sent
  <2>2. \A o : o \in Sent' <=> \E q \in DOMAIN requests' : o \in ToSet(requests'[q])
    BY <1>5
  <2>3. requests'[N + 1] = c
    BY <1>2
  <2> HIDE DEF N
  <2>4. \A o : o \in Sent' <=> o \in Sent \/ o \in ToSet(c)
    BY <1>4, <1>6, <2>1, <2>2, <2>3
  <2> QED BY <2>4
<1> QED BY <1>1, <1>2, <1>3, <1>6, <1>7

LEMMA BeforeOfPart ==
  ASSUME NEW a, NEW b, NEW c, NEW d, AllBefore(a, b),
         ToSet(c) \subseteq ToSet(a), ToSet(d) \subseteq ToSet(b)
  PROVE  AllBefore(c, d)
BY DEF AllBefore, ToSet

\* A part of a group is a group.
LEMMA PartOfGroup ==
  ASSUME TypeOK, NEW ops \in Seq(DOMAIN operations), OneGroup(ops),
         NEW m \in 1..Len(ops), NEW n \in m..Len(ops)
  PROVE  LET part == SubSeq(ops, m, n)
         IN  /\ part \in Seq(DOMAIN operations)
             /\ Len(part) = n - m + 1 /\ DOMAIN part = 1..(n - m + 1)
             /\ \A i \in DOMAIN part : i + m - 1 \in DOMAIN ops /\ part[i] = ops[i + m - 1]
             /\ ToSet(part) \subseteq ToSet(ops)
             /\ OneGroup(part)
<1> DEFINE part == SubSeq(ops, m, n)
<1>1. Len(ops) \in Nat /\ DOMAIN ops = 1..Len(ops) /\ m \in Nat /\ n \in Nat
  BY LenProperties
<1>2. /\ part \in Seq(DOMAIN operations)
      /\ Len(part) = n - m + 1
      /\ \A i \in 1..(n - m + 1) : part[i] = ops[m + i - 1]
  <2>1. m \in Int /\ n \in Int /\ m <= n
    BY <1>1
  <2>2. \A i \in m..n : ops[i] \in DOMAIN operations
    BY <1>1, ElementOfSeq
  <2>3. /\ part \in Seq(DOMAIN operations)
        /\ Len(part) = IF m <= n THEN n - m + 1 ELSE 0
        /\ \A i \in 1..(n - m + 1) : part[i] = ops[m + i - 1]
    BY <2>1, <2>2, SubSeqProperties, SMTT(60)
  <2> QED BY <2>1, <2>3
<1>3. DOMAIN part = 1..(n - m + 1)
  BY <1>2, LenProperties
<1> HIDE DEF part
<1>4. \A i \in DOMAIN part : i + m - 1 \in DOMAIN ops /\ part[i] = ops[i + m - 1]
  <2> SUFFICES ASSUME NEW i \in 1..(n - m + 1)
               PROVE  i + m - 1 \in 1..Len(ops) /\ part[i] = ops[i + m - 1]
    BY <1>1, <1>3
  <2>1. i + m - 1 \in 1..Len(ops) /\ m + i - 1 = i + m - 1
    BY <1>1
  <2> QED BY <1>2, <2>1
<1>5. ToSet(part) \subseteq ToSet(ops)
  BY <1>4 DEF ToSet
<1>6. Ascending(part)
  <2> SUFFICES ASSUME NEW i \in DOMAIN part, NEW j \in DOMAIN part, i < j
               PROVE  part[i] < part[j]
    BY DEF Ascending
  <2>1. i + m - 1 < j + m - 1
    BY <1>1, <1>3
  <2> QED BY <1>4, <2>1 DEF OneGroup, Ascending
<1>7. \A i, j \in DOMAIN part : KeyOf(part[i]) = KeyOf(part[j])
  BY <1>4 DEF OneGroup
<1>8. part # <<>>
  BY <1>1, <1>2, EmptySeq
<1> QED BY <1>2, <1>3, <1>4, <1>5, <1>6, <1>7, <1>8 DEF part, OneGroup

\* What SendChunk sends, and what it leaves: each remaining group is one that
\* was there, or the rest of the first one, and comes after the chunk.
LEMMA ChunkEffect ==
  ASSUME IInv, SendChunk
  PROVE  \E chunk \in Seq(DOMAIN operations), old \in [DOMAIN groups' -> DOMAIN groups] :
           /\ requests' = Append(requests, chunk)
           /\ OneGroup(chunk) /\ Len(chunk) <= size
           /\ 1 \in DOMAIN groups /\ ToSet(chunk) \subseteq ToSet(groups[1].ops)
           /\ groups' \in Seq([key: Key, ops: Seq(DOMAIN operations)])
           /\ \A g \in DOMAIN groups' :
                /\ groups'[g].key = groups[old[g]].key
                /\ OneGroup(groups'[g].ops)
                /\ ToSet(groups'[g].ops) \subseteq ToSet(groups[old[g]].ops)
                /\ AllBefore(chunk, groups'[g].ops)
           /\ \A g, h \in DOMAIN groups' : g < h => old[g] < old[h]
           /\ \A h \in DOMAIN groups : \A o \in ToSet(groups[h].ops) :
                \/ o \in ToSet(chunk)
                \/ \E g \in DOMAIN groups' : o \in ToSet(groups'[g].ops)
<1> DEFINE ops == groups[1].ops
           full == Len(ops) > size
           G == [key: Key, ops: Seq(DOMAIN operations)]
           N == Len(groups)
<1>1. TypeOK /\ GroupInv /\ SendInv /\ pc = "send" /\ mode = "bulk" /\ groups # <<>>
      /\ size \in Nat /\ size >= 1
  BY BoundAssumption DEF IInv, SendChunk, TypeOK
<1>2. groups \in Seq(G) /\ N \in Nat /\ DOMAIN groups = 1..N /\ 1 \in DOMAIN groups
  <2>1. groups \in Seq(G)
    BY <1>1 DEF TypeOK
  <2> HIDE DEF G
  <2>2. N \in Nat /\ DOMAIN groups = 1..N /\ N # 0
    BY <1>1, <2>1, LenProperties, EmptySeq
  <2> QED BY <2>1, <2>2
<1>3. \A g \in DOMAIN groups :
        /\ groups[g] \in G
        /\ groups[g].ops \in Seq(DOMAIN operations)
        /\ OneGroup(groups[g].ops)
        /\ \A i \in DOMAIN groups[g].ops :
             /\ groups[g].ops[i] \in DOMAIN operations
             /\ KeyOf(groups[g].ops[i]) = groups[g].key
  BY <1>1, <1>2, GroupTypes, ElementOfSeq DEF GroupInv
<1>4. \A g, h \in DOMAIN groups : g < h => AllBefore(groups[g].ops, groups[h].ops)
  BY <1>1 DEF SendInv
<1>5. /\ requests' = Append(requests, IF full THEN SubSeq(ops, 1, size) ELSE ops)
      /\ groups' = IF full THEN [groups EXCEPT ![1].ops = Rest(ops)] ELSE Tail(groups)
  BY DEF SendChunk
<1>6. ops \in Seq(DOMAIN operations) /\ Len(ops) \in Nat /\ DOMAIN ops = 1..Len(ops) /\ OneGroup(ops)
  BY <1>2, <1>3, LenProperties
<1>7. CASE full
  <2> DEFINE chunk == SubSeq(ops, 1, size)
             rest == SubSeq(ops, size + 1, Len(ops))
             old == [g \in DOMAIN groups |-> g]
  <2>1. 1 \in 1..Len(ops) /\ size \in 1..Len(ops) /\ size + 1 \in 1..Len(ops)
        /\ Len(ops) \in (size + 1)..Len(ops)
    BY <1>1, <1>6, <1>7
  <2>2. /\ chunk \in Seq(DOMAIN operations) /\ OneGroup(chunk)
        /\ Len(chunk) = size - 1 + 1 /\ DOMAIN chunk = 1..(size - 1 + 1)
        /\ \A i \in DOMAIN chunk : i + 1 - 1 \in DOMAIN ops /\ chunk[i] = ops[i + 1 - 1]
        /\ ToSet(chunk) \subseteq ToSet(ops)
    BY <1>1, <1>6, <2>1, PartOfGroup
  <2>3. /\ rest \in Seq(DOMAIN operations) /\ OneGroup(rest)
        /\ DOMAIN rest = 1..(Len(ops) - (size + 1) + 1)
        /\ \A i \in DOMAIN rest :
             i + (size + 1) - 1 \in DOMAIN ops /\ rest[i] = ops[i + (size + 1) - 1]
        /\ ToSet(rest) \subseteq ToSet(ops)
    BY <1>1, <1>6, <2>1, PartOfGroup
  <2>4. requests' = Append(requests, chunk) /\ groups' = [groups EXCEPT ![1].ops = rest]
    BY <1>5, <1>7 DEF Rest
  <2> HIDE DEF chunk, rest
  <2>5. /\ DOMAIN groups' = DOMAIN groups
        /\ groups'[1].key = groups[1].key /\ groups'[1].ops = rest /\ groups'[1] \in G
        /\ \A g \in DOMAIN groups : g # 1 => groups'[g] = groups[g]
    <3>1. groups'[1] = [groups[1] EXCEPT !.ops = rest]
      BY <1>2, <2>4
    <3>2. groups[1] \in G
      BY <1>2, <1>3
    <3>3. /\ DOMAIN groups' = DOMAIN groups
          /\ \A g \in DOMAIN groups : g # 1 => groups'[g] = groups[g]
      BY <2>4
    <3> QED BY <2>3, <3>1, <3>2, <3>3
  <2>6. groups' \in Seq(G)
    <3>1. groups' = [g \in DOMAIN groups |-> groups'[g]]
      BY <2>4
    <3>2. \A g \in DOMAIN groups : groups'[g] \in G
      BY <1>3, <2>5
    <3> HIDE DEF G
    <3>3. groups' \in [1..N -> G]
      BY <1>2, <3>1, <3>2
    <3> QED BY <1>2, <3>3, SeqDef
  <2>7. AllBefore(chunk, rest)
    <3> SUFFICES ASSUME NEW i \in DOMAIN chunk, NEW j \in DOMAIN rest
                 PROVE  Before(chunk[i], rest[j])
      BY DEF AllBefore
    <3>1. i \in DOMAIN ops /\ chunk[i] = ops[i]
      BY <1>1, <2>2
    <3>2. j + size \in DOMAIN ops /\ rest[j] = ops[j + size] /\ i < j + size
      BY <1>1, <1>6, <2>2, <2>3
    <3>3. ops[i] < ops[j + size] /\ KeyOf(ops[i]) = KeyOf(ops[j + size])
      BY <1>6, <3>1, <3>2 DEF OneGroup, Ascending
    <3>4. operations[ops[i]].phase = operations[ops[j + size]].phase
      BY <3>3 DEF KeyOf
    <3> QED BY <3>1, <3>2, <3>3, <3>4 DEF Before
  <2>8. ASSUME NEW g \in DOMAIN groups'
        PROVE  /\ groups'[g].key = groups[g].key
               /\ OneGroup(groups'[g].ops)
               /\ ToSet(groups'[g].ops) \subseteq ToSet(groups[g].ops)
               /\ AllBefore(chunk, groups'[g].ops)
    <3>1. CASE g = 1
      BY <2>3, <2>5, <2>7, <3>1
    <3>2. CASE g # 1
      <4>1. AllBefore(ops, groups[g].ops)
        <5>1. g \in DOMAIN groups /\ 1 < g
          BY <1>2, <2>5, <3>2
        <5> QED BY <1>2, <1>4, <5>1
      <4>2. AllBefore(chunk, groups[g].ops)
        BY <2>2, <4>1, BeforeOfPart
      <4> QED BY <1>3, <2>5, <3>2, <4>2
    <3> QED BY <3>1, <3>2
  <2>9. \A o \in ToSet(ops) : o \in ToSet(chunk) \/ o \in ToSet(rest)
    <3> SUFFICES ASSUME NEW k \in DOMAIN ops
                 PROVE  ops[k] \in ToSet(chunk) \/ ops[k] \in ToSet(rest)
      BY DEF ToSet
    <3>1. CASE k <= size
      <4>1. k \in DOMAIN chunk /\ k + 1 - 1 = k
        BY <1>1, <1>6, <2>2, <3>1
      <4> QED BY <2>2, <4>1 DEF ToSet
    <3>2. CASE k > size
      <4>1. k - size \in DOMAIN rest /\ (k - size) + (size + 1) - 1 = k
        BY <1>1, <1>6, <2>3, <3>2
      <4> QED BY <2>3, <4>1 DEF ToSet
    <3> QED BY <1>1, <1>6, <3>1, <3>2
  <2>10. \A g \in DOMAIN groups : \A o \in ToSet(groups[g].ops) :
           o \in ToSet(chunk) \/ \E h \in DOMAIN groups' : o \in ToSet(groups'[h].ops)
    BY <1>2, <2>5, <2>9
  <2>11. Len(chunk) <= size
    BY <1>1, <2>2
  <2>12. old \in [DOMAIN groups' -> DOMAIN groups] /\ \A g \in DOMAIN groups' : old[g] = g
    BY <2>5
  <2> HIDE DEF old, G
  <2>13. \A g, h \in DOMAIN groups' : g < h => old[g] < old[h]
    BY <2>12
  <2>14. ToSet(chunk) \subseteq ToSet(groups[1].ops)
    BY <2>2
  <2>15. \A g \in DOMAIN groups' : groups'[g].key = groups[old[g]].key
           /\ ToSet(groups'[g].ops) \subseteq ToSet(groups[old[g]].ops)
    BY <2>8, <2>12
  <2>16. groups' \in Seq([key: Key, ops: Seq(DOMAIN operations)])
    BY <2>6 DEF G
  <2> chunk \in Seq(DOMAIN operations) /\ old \in [DOMAIN groups' -> DOMAIN groups]
    BY <2>2, <2>12
  <2> WITNESS chunk \in Seq(DOMAIN operations), old \in [DOMAIN groups' -> DOMAIN groups]
  <2> HIDE DEF ops
  <2> QED BY <1>2, <2>2, <2>4, <2>8, <2>10, <2>11, <2>13, <2>14, <2>15, <2>16
<1>8. CASE ~full
  <2> DEFINE old == [g \in DOMAIN groups' |-> g + 1]
  <2>1. requests' = Append(requests, ops) /\ groups' = Tail(groups) /\ Len(ops) <= size
    BY <1>1, <1>5, <1>6, <1>8
  <2>2. groups' \in Seq(G) /\ Len(groups') = N - 1
        /\ \A g \in 1..(N - 1) : groups'[g] = groups[g + 1]
    <3> HIDE DEF G
    <3> QED BY <1>1, <1>2, <2>1, HeadTailProperties
  <2>3. DOMAIN groups' = 1..(N - 1)
    <3> HIDE DEF G
    <3> QED BY <2>2, LenProperties
  <2>4. /\ old \in [DOMAIN groups' -> DOMAIN groups]
        /\ \A g \in DOMAIN groups' : old[g] = g + 1 /\ old[g] > 1 /\ groups'[g] = groups[old[g]]
    <3>1. ASSUME NEW g \in DOMAIN groups'
          PROVE  /\ g \in 1..(N - 1) /\ g + 1 \in DOMAIN groups /\ g + 1 > 1
                 /\ groups'[g] = groups[g + 1]
      BY <1>2, <2>2, <2>3
    <3> QED BY <3>1
  <2>5. \A g, h \in DOMAIN groups' : g < h => old[g] < old[h]
    BY <1>2, <2>3, <2>4
  <2>6. \A g \in DOMAIN groups : g = 1 \/ \E h \in DOMAIN groups' : groups'[h] = groups[g]
    <3> SUFFICES ASSUME NEW g \in DOMAIN groups, g # 1
                 PROVE  \E h \in DOMAIN groups' : groups'[h] = groups[g]
      OBVIOUS
    <3>1. g - 1 \in DOMAIN groups' /\ (g - 1) + 1 = g
      BY <1>2, <2>3
    <3> QED BY <2>2, <2>3, <3>1
  <2> HIDE DEF old
  <2>7. ASSUME NEW g \in DOMAIN groups'
        PROVE  /\ groups'[g].key = groups[old[g]].key
               /\ OneGroup(groups'[g].ops)
               /\ ToSet(groups'[g].ops) \subseteq ToSet(groups[old[g]].ops)
               /\ AllBefore(ops, groups'[g].ops)
    <3>1. old[g] \in DOMAIN groups /\ 1 < old[g] /\ groups'[g] = groups[old[g]]
      BY <1>2, <2>4
    <3> QED BY <1>2, <1>3, <1>4, <3>1
  <2>8. \A g \in DOMAIN groups : \A o \in ToSet(groups[g].ops) :
          o \in ToSet(ops) \/ \E h \in DOMAIN groups' : o \in ToSet(groups'[h].ops)
    BY <2>6
  <2>9. groups' \in Seq([key: Key, ops: Seq(DOMAIN operations)])
    BY <2>2
  <2> HIDE DEF G
  <2>10. ToSet(ops) \subseteq ToSet(groups[1].ops)
    OBVIOUS
  <2> ops \in Seq(DOMAIN operations) /\ old \in [DOMAIN groups' -> DOMAIN groups]
    BY <1>6, <2>4
  <2> WITNESS ops \in Seq(DOMAIN operations), old \in [DOMAIN groups' -> DOMAIN groups]
  <2> HIDE DEF ops
  <2> QED BY <1>2, <1>6, <2>1, <2>4, <2>5, <2>7, <2>8, <2>9, <2>10
<1> QED BY <1>7, <1>8

LEMMA SendChunkStep == IInv /\ SendChunk => IInv'
<1> SUFFICES ASSUME IInv, SendChunk PROVE IInv'
  OBVIOUS
<1> DEFINE N == Len(requests)
<1>1. /\ UNCHANGED <<mode, size, pc, operations, grouped>>
      /\ pc = "send" /\ mode = "bulk"
      /\ TypeOK /\ PlanInv /\ GroupInv /\ SendInv
  BY DEF SendChunk, IInv
<1>2. PICK chunk \in Seq(DOMAIN operations), old \in [DOMAIN groups' -> DOMAIN groups] :
        /\ requests' = Append(requests, chunk)
        /\ OneGroup(chunk) /\ Len(chunk) <= size
        /\ 1 \in DOMAIN groups /\ ToSet(chunk) \subseteq ToSet(groups[1].ops)
        /\ groups' \in Seq([key: Key, ops: Seq(DOMAIN operations)])
        /\ \A g \in DOMAIN groups' :
             /\ groups'[g].key = groups[old[g]].key
             /\ OneGroup(groups'[g].ops)
             /\ ToSet(groups'[g].ops) \subseteq ToSet(groups[old[g]].ops)
             /\ AllBefore(chunk, groups'[g].ops)
        /\ \A g, h \in DOMAIN groups' : g < h => old[g] < old[h]
        /\ \A h \in DOMAIN groups : \A o \in ToSet(groups[h].ops) :
             \/ o \in ToSet(chunk)
             \/ \E g \in DOMAIN groups' : o \in ToSet(groups'[g].ops)
  BY ChunkEffect
<1>3. /\ requests' \in Seq(Seq(DOMAIN operations))
      /\ N \in Nat /\ DOMAIN requests = 1..N /\ DOMAIN requests' = 1..(N + 1)
      /\ \A q \in DOMAIN requests : requests'[q] = requests[q]
      /\ requests'[N + 1] = chunk
      /\ Sent' = Sent \cup ToSet(chunk)
  BY <1>1, <1>2, RequestAppended
<1>4. TypeOK'
  BY <1>1, <1>2, <1>3 DEF TypeOK
<1>5. PlanInv'
  BY <1>1, SamePlan
<1>6. DOMAIN groups' \subseteq Nat /\ DOMAIN groups \subseteq Nat
  <2>1. DOMAIN groups' = 1..Len(groups')
    BY <1>2, LenProperties
  <2> QED BY <1>1, <2>1, GroupTypes
<1>7. GroupInv'
  <2>1. ASSUME NEW g \in DOMAIN groups', NEW i \in DOMAIN groups'[g].ops
        PROVE  KeyOf(groups'[g].ops[i]) = groups'[g].key
    <3>1. groups'[g].ops[i] \in ToSet(groups[old[g]].ops) /\ old[g] \in DOMAIN groups
      BY <1>2 DEF ToSet
    <3>2. \A o \in ToSet(groups[old[g]].ops) : KeyOf(o) = groups[old[g]].key
      BY <1>1, <3>1 DEF GroupInv, ToSet
    <3> QED BY <1>2, <3>1, <3>2
  <2>2. (\A g \in DOMAIN groups :
           /\ OneGroup(groups[g].ops)
           /\ \A i \in DOMAIN groups[g].ops : KeyOf(groups[g].ops[i]) = groups[g].key)'
    BY <1>1, <1>2, <2>1 DEF OneGroup, Ascending, KeyOf
  <2>3. ASSUME NEW g \in DOMAIN groups', NEW h \in DOMAIN groups', g # h
        PROVE  groups'[g].key # groups'[h].key
    <3>1. old[g] \in DOMAIN groups /\ old[h] \in DOMAIN groups
      BY <1>2
    <3>2. g < h \/ h < g
      BY <1>6, <2>3
    <3>3. old[g] < old[h] \/ old[h] < old[g]
      BY <1>2, <3>2
    <3>4. old[g] # old[h]
      BY <1>6, <3>1, <3>3
    <3> QED BY <1>1, <1>2, <3>1, <3>4 DEF GroupInv
  <2>4. (\A g, h \in DOMAIN groups : g # h => groups[g].key # groups[h].key)'
    BY <2>3
  <2> QED BY <1>1, <2>2, <2>4 DEF GroupInv
<1>8. \A q \in DOMAIN requests' : OneGroup(requests'[q]) /\ Len(requests'[q]) <= size
  <2> SUFFICES ASSUME NEW q \in DOMAIN requests'
               PROVE  OneGroup(requests'[q]) /\ Len(requests'[q]) <= size
    OBVIOUS
  <2>1. q \in DOMAIN requests \/ q = N + 1
    BY <1>3
  <2>2. CASE q \in DOMAIN requests
    BY <1>1, <1>3, <2>2 DEF SendInv
  <2>3. CASE q = N + 1
    BY <1>2, <1>3, <2>3
  <2> QED BY <2>1, <2>2, <2>3
<1>9. ASSUME NEW q \in DOMAIN requests', NEW r \in DOMAIN requests', q < r
      PROVE  AllBefore(requests'[q], requests'[r])
  <2>1. q \in DOMAIN requests /\ requests'[q] = requests[q]
    BY <1>3, <1>9
  <2>2. CASE r \in DOMAIN requests
    BY <1>1, <1>3, <1>9, <2>1, <2>2 DEF SendInv
  <2>3. CASE r = N + 1
    <3>1. AllBefore(requests[q], groups[1].ops)
      BY <1>1, <1>2, <2>1 DEF SendInv
    <3>2. AllBefore(requests[q], chunk)
      BY <1>2, <3>1, BeforeOfPart
    <3> QED BY <1>3, <2>1, <2>3, <3>2
  <2> QED BY <1>3, <2>2, <2>3
<1>10. ASSUME NEW g \in DOMAIN groups', NEW h \in DOMAIN groups', g < h
       PROVE  AllBefore(groups'[g].ops, groups'[h].ops)
  <2>1. old[g] \in DOMAIN groups /\ old[h] \in DOMAIN groups /\ old[g] < old[h]
    BY <1>2, <1>10
  <2>2. AllBefore(groups[old[g]].ops, groups[old[h]].ops)
    BY <1>1, <2>1 DEF SendInv
  <2>3. /\ ToSet(groups'[g].ops) \subseteq ToSet(groups[old[g]].ops)
        /\ ToSet(groups'[h].ops) \subseteq ToSet(groups[old[h]].ops)
    BY <1>2
  <2> QED BY <2>2, <2>3, BeforeOfPart
<1>11. ASSUME NEW q \in DOMAIN requests', NEW g \in DOMAIN groups'
       PROVE  AllBefore(requests'[q], groups'[g].ops)
  <2>1. CASE q \in DOMAIN requests
    <3>1. AllBefore(requests[q], groups[old[g]].ops)
      BY <1>1, <1>2, <2>1 DEF SendInv
    <3>2. ToSet(groups'[g].ops) \subseteq ToSet(groups[old[g]].ops)
      BY <1>2
    <3>3. AllBefore(requests[q], groups'[g].ops)
      BY <3>1, <3>2, BeforeOfPart
    <3> QED BY <1>3, <2>1, <3>3
  <2>2. CASE q = N + 1
    BY <1>2, <1>3, <2>2
  <2> QED BY <1>3, <2>1, <2>2
<1>12. ASSUME NEW o \in DOMAIN operations, o \notin Sent'
       PROVE  \E g \in DOMAIN groups' : o \in ToSet(groups'[g].ops)
  <2>1. o \in Unsent /\ o \notin ToSet(chunk)
    BY <1>3, <1>12 DEF Unsent
  <2>2. PICK h \in DOMAIN groups : o \in ToSet(groups[h].ops)
    BY <1>1, <2>1 DEF SendInv
  <2> QED BY <1>2, <2>1, <2>2
<1>13. SendInv'
  <2>1. (\A q \in DOMAIN requests : OneGroup(requests[q]) /\ Len(requests[q]) <= size)'
    BY <1>1, <1>8 DEF OneGroup, Ascending, KeyOf
  <2>2. (\A q, s \in DOMAIN requests : q < s => AllBefore(requests[q], requests[s]))'
    <3> SUFFICES ASSUME NEW q \in DOMAIN requests', NEW s \in DOMAIN requests', q < s,
                        NEW i \in DOMAIN requests'[q], NEW j \in DOMAIN requests'[s]
                 PROVE  Before(requests[q][i], requests[s][j])'
      BY DEF AllBefore
    <3>1. Before(requests'[q][i], requests'[s][j])
      BY <1>9 DEF AllBefore
    <3> QED BY <1>1, <3>1 DEF Before, Leads, KeyOf
  <2>3. (\A g, h \in DOMAIN groups : g < h => AllBefore(groups[g].ops, groups[h].ops))'
    <3> SUFFICES ASSUME NEW g \in DOMAIN groups', NEW h \in DOMAIN groups', g < h,
                        NEW i \in DOMAIN groups'[g].ops, NEW j \in DOMAIN groups'[h].ops
                 PROVE  Before(groups[g].ops[i], groups[h].ops[j])'
      BY DEF AllBefore
    <3>1. Before(groups'[g].ops[i], groups'[h].ops[j])
      BY <1>10 DEF AllBefore
    <3> QED BY <1>1, <3>1 DEF Before, Leads, KeyOf
  <2>4. (\A q \in DOMAIN requests, g \in DOMAIN groups :
           AllBefore(requests[q], groups[g].ops))'
    <3> SUFFICES ASSUME NEW q \in DOMAIN requests', NEW g \in DOMAIN groups',
                        NEW i \in DOMAIN requests'[q], NEW j \in DOMAIN groups'[g].ops
                 PROVE  Before(requests[q][i], groups[g].ops[j])'
      BY DEF AllBefore
    <3>1. Before(requests'[q][i], groups'[g].ops[j])
      BY <1>11 DEF AllBefore
    <3> QED BY <1>1, <3>1 DEF Before, Leads, KeyOf
  <2>5. (\A o \in Unsent : \E g \in DOMAIN groups : o \in ToSet(groups[g].ops))'
    <3>1. Unsent' = DOMAIN operations \ Sent'
      BY <1>1 DEF Unsent
    <3> QED BY <1>12, <3>1 DEF ToSet
  <2> QED BY <1>1, <2>1, <2>2, <2>3, <2>4, <2>5 DEF SendInv
<1> QED BY <1>4, <1>5, <1>7, <1>13 DEF IInv

---------------------------------------------------------------------------
(* Sending in sync mode, and returning. *)

\* There is a first operation to send: the least of the first phase that has
\* any.
LEMMA FirstUnsentExists ==
  ASSUME TypeOK, Unsent # {}
  PROVE  /\ FirstUnsent \in Unsent
         /\ \A p \in Unsent :
              \/ operations[FirstUnsent].phase < operations[p].phase
              \/ operations[FirstUnsent].phase = operations[p].phase /\ FirstUnsent <= p
<1> DEFINE Early == {p \in Unsent : operations[p].phase = 0}
<1>1. Unsent \in SUBSET Nat /\ \A p \in Unsent : operations[p].phase \in {0, 1}
  BY OperationTypes DEF Unsent
<1>2. \E o \in Unsent :
        \A p \in Unsent :
          \/ operations[o].phase < operations[p].phase
          \/ operations[o].phase = operations[p].phase /\ o <= p
  <2>1. CASE Early # {}
    <3>1. Early \in SUBSET Nat
      BY <1>1
    <3>2. PICK o \in Early : \A p \in Early : o <= p
      BY <2>1, <3>1, LeastNumber
    <3> QED BY <1>1, <3>2
  <2>2. CASE Early = {}
    <3>1. PICK o \in Unsent : \A p \in Unsent : o <= p
      BY <1>1, LeastNumber
    <3> QED BY <1>1, <2>2, <3>1
  <2> QED BY <2>1, <2>2
<1> QED BY <1>2 DEF FirstUnsent

LEMMA SendSingleStep == IInv /\ SendSingle => IInv'
<1> SUFFICES ASSUME IInv, SendSingle PROVE IInv'
  OBVIOUS
<1> DEFINE N == Len(requests)
           o == FirstUnsent
<1>1. /\ UNCHANGED <<mode, size, pc, operations, grouped, groups>>
      /\ requests' = Append(requests, <<o>>)
      /\ pc = "send" /\ mode = "sync" /\ Unsent # {} /\ groups = <<>>
      /\ TypeOK /\ PlanInv /\ GroupInv /\ SendInv /\ size \in Nat /\ size >= 1
  BY BoundAssumption DEF SendSingle, IInv, GroupInv, TypeOK
<1>2. /\ o \in Unsent
      /\ \A p \in Unsent :
           \/ operations[o].phase < operations[p].phase
           \/ operations[o].phase = operations[p].phase /\ o <= p
  BY <1>1, FirstUnsentExists
<1> HIDE DEF o
<1>3. /\ o \in DOMAIN operations /\ <<o>> \in Seq(DOMAIN operations)
      /\ Unsent \subseteq Nat
  BY <1>1, <1>2, OperationTypes DEF Unsent
<1>4. DOMAIN <<o>> = {1} /\ <<o>>[1] = o /\ <<o>> # <<>> /\ Len(<<o>>) = 1
  OBVIOUS
<1>5. ToSet(<<o>>) = {o}
  BY <1>4 DEF ToSet
<1>6. /\ requests' \in Seq(Seq(DOMAIN operations))
      /\ N \in Nat /\ DOMAIN requests = 1..N /\ DOMAIN requests' = 1..(N + 1)
      /\ \A q \in DOMAIN requests : requests'[q] = requests[q]
      /\ requests'[N + 1] = <<o>>
      /\ Sent' = Sent \cup {o}
  BY <1>1, <1>3, <1>5, RequestAppended
<1>7. TypeOK'
  BY <1>1, <1>6 DEF TypeOK
<1>8. PlanInv'
  BY <1>1, SamePlan
<1>9. GroupInv'
  BY <1>1 DEF GroupInv
<1>10. \A q \in DOMAIN requests' : OneGroup(requests'[q]) /\ Len(requests'[q]) <= size
  <2> SUFFICES ASSUME NEW q \in DOMAIN requests'
               PROVE  OneGroup(requests'[q]) /\ Len(requests'[q]) <= size
    OBVIOUS
  <2>1. CASE q \in DOMAIN requests
    BY <1>1, <1>6, <2>1 DEF SendInv
  <2>2. CASE q = N + 1
    <3>1. OneGroup(<<o>>)
      BY <1>4 DEF OneGroup, Ascending
    <3> QED BY <1>1, <1>4, <1>6, <2>2, <3>1
  <2> QED BY <1>6, <2>1, <2>2
<1>11. ASSUME NEW q \in DOMAIN requests', NEW r \in DOMAIN requests', q < r
       PROVE  AllBefore(requests'[q], requests'[r])
  <2>1. q \in DOMAIN requests /\ requests'[q] = requests[q]
    BY <1>6, <1>11
  <2>2. CASE r \in DOMAIN requests
    BY <1>1, <1>6, <1>11, <2>1, <2>2 DEF SendInv
  <2>3. CASE r = N + 1
    <3>1. \A i \in DOMAIN requests[q] : requests[q][i] \in Sent
      BY <2>1 DEF Sent, ToSet
    <3>2. \A i \in DOMAIN requests[q] : Before(requests[q][i], o)
      BY <1>1, <1>2, <3>1 DEF SendInv
    <3> QED BY <1>4, <1>6, <2>1, <2>3, <3>2 DEF AllBefore
  <2> QED BY <1>6, <2>2, <2>3
<1>12. Unsent' = Unsent \ {o}
  BY <1>1, <1>6 DEF Unsent
<1>13. ASSUME NEW s \in Sent', NEW p \in Unsent' PROVE Before(s, p)
  <2>1. p \in Unsent /\ p # o
    BY <1>12
  <2>2. CASE s \in Sent
    BY <1>1, <2>1, <2>2 DEF SendInv
  <2>3. CASE s = o
    <3>1. o \in Nat /\ p \in Nat
      BY <1>2, <1>3, <2>1
    <3>2. \/ operations[o].phase < operations[p].phase
          \/ operations[o].phase = operations[p].phase /\ o < p
      BY <1>2, <2>1, <3>1
    <3> QED BY <1>1, <2>3, <3>2 DEF Before
  <2> QED BY <1>6, <2>2, <2>3
<1>14. SendInv'
  <2>1. (\A q \in DOMAIN requests : OneGroup(requests[q]) /\ Len(requests[q]) <= size)'
    <3>1. size' = size /\ operations' = operations
      BY <1>1
    <3> QED BY <1>10, <3>1 DEF OneGroup, Ascending, KeyOf
  <2>2. (\A q, s \in DOMAIN requests : q < s => AllBefore(requests[q], requests[s]))'
    <3> SUFFICES ASSUME NEW q \in DOMAIN requests', NEW s \in DOMAIN requests', q < s,
                        NEW i \in DOMAIN requests'[q], NEW j \in DOMAIN requests'[s]
                 PROVE  Before(requests[q][i], requests[s][j])'
      BY DEF AllBefore
    <3>1. Before(requests'[q][i], requests'[s][j])
      BY <1>11 DEF AllBefore
    <3> QED BY <1>1, <3>1 DEF Before, Leads, KeyOf
  <2>3. (\A s \in Sent, p \in Unsent : Before(s, p))'
    <3> SUFFICES ASSUME NEW s \in Sent', NEW p \in Unsent' PROVE Before(s, p)'
      OBVIOUS
    <3>1. Before(s, p)
      BY <1>13
    <3> QED BY <1>1, <3>1 DEF Before, Leads, KeyOf
  <2> QED BY <1>1, <2>1, <2>2, <2>3 DEF SendInv
<1> QED BY <1>7, <1>8, <1>9, <1>14 DEF IInv

LEMMA ReturnStep == IInv /\ Return => IInv'
<1> SUFFICES ASSUME IInv, Return PROVE IInv'
  OBVIOUS
<1>1. /\ UNCHANGED <<mode, size, operations, grouped, groups, requests>>
      /\ pc = "send" /\ pc' = "done" /\ mode \in {"sync", "bulk"}
      /\ IF mode = "bulk" THEN groups = <<>> ELSE Unsent = {}
  BY DEF Return, IInv, TypeOK
<1>2. Unsent = {}
  BY <1>1 DEF IInv, SendInv
<1>3. TypeOK'
  BY <1>1 DEF IInv, TypeOK
<1>4. PlanInv'
  BY <1>1, SamePlan DEF IInv
<1>5. GroupInv'
  BY <1>1, SamePlan DEF IInv, GroupInv, OneGroup, Ascending, KeyOf
<1>6. SendInv'
  <2>1. /\ \A q \in DOMAIN requests : OneGroup(requests[q])' /\ Len(requests[q]) <= size
        /\ \A q, s \in DOMAIN requests : q < s => AllBefore(requests[q], requests[s])'
    BY <1>1 DEF IInv, SendInv, OneGroup, Ascending, AllBefore, Before, Leads, KeyOf
  <2> QED BY <1>1, <1>2, <2>1
    DEF SendInv, Sent, Unsent, OneGroup, Ascending, AllBefore, Before, Leads, KeyOf
<1> QED BY <1>3, <1>4, <1>5, <1>6 DEF IInv

LEMMA StutterStep == IInv /\ UNCHANGED vars => IInv'
<1> SUFFICES ASSUME IInv, UNCHANGED vars PROVE IInv'
  OBVIOUS
<1>1. UNCHANGED <<mode, size, pc, operations, grouped, groups, requests>>
  BY DEF vars
<1>2. TypeOK'
  BY <1>1 DEF IInv, TypeOK
<1>3. PlanInv'
  BY <1>1, SamePlan DEF IInv
<1>4. GroupInv'
  BY <1>1 DEF IInv, GroupInv, OneGroup, Ascending, KeyOf
<1>5. SendInv'
  BY <1>1 DEF IInv, SendInv, Sent, Unsent, OneGroup, Ascending, AllBefore, Before, Leads, KeyOf
<1> QED BY <1>2, <1>3, <1>4, <1>5 DEF IInv

\* The invariant the properties rest on.
THEOREM Invariance == Spec => []IInv
<1>1. IInv /\ [Next]_vars => IInv'
  BY PlanRowStep, ExecuteStep, GroupStep, SortStep, SendChunkStep, SendSingleStep,
     ReturnStep, StutterStep DEF Next
<1> QED BY InitIInv, <1>1, PTL DEF Spec

---------------------------------------------------------------------------
(* What the order gives. *)

\* Nothing comes before itself, and of two operations of one key the earlier
\* does.
LEMMA BeforeIsStrict ==
  ASSUME TypeOK, NEW o \in DOMAIN operations, NEW p \in DOMAIN operations, Before(o, p)
  PROVE  /\ o # p
         /\ operations[o].phase <= operations[p].phase
         /\ KeyOf(o) = KeyOf(p) => o < p
<1>1. /\ operations[o].phase \in {0, 1} /\ operations[p].phase \in {0, 1}
      /\ o \in Nat /\ p \in Nat
  BY OperationTypes
<1>2. KeyOf(o) = KeyOf(p) => operations[o].phase = operations[p].phase
  BY DEF KeyOf
<1> QED BY <1>1, <1>2 DEF Before

\* Each operation is in one request, once, and no request is empty or longer
\* than chunk_size; phases ascend; a request has one method and one store.
LEMMA InvSentAsPlanned == IInv => SentAsPlanned
<1> SUFFICES ASSUME IInv PROVE SentAsPlanned
  OBVIOUS
<1>1. TypeOK /\ SendInv
  BY DEF IInv
<1>2. \A q \in DOMAIN requests :
        /\ OneGroup(requests[q]) /\ Len(requests[q]) <= size
        /\ \A i \in DOMAIN requests[q] : requests[q][i] \in DOMAIN operations
  BY <1>1, RequestTypes DEF SendInv
<1>3. DOMAIN operations \subseteq Nat /\ DOMAIN requests \subseteq Nat
      /\ \A q \in DOMAIN requests : DOMAIN requests[q] \subseteq Nat
  BY <1>1, OperationTypes, RequestTypes
<1>4. \A q, s \in DOMAIN requests : q < s =>
        \A o \in ToSet(requests[q]), p \in ToSet(requests[s]) :
          o # p /\ operations[o].phase <= operations[p].phase
  <2> SUFFICES ASSUME NEW q \in DOMAIN requests, NEW s \in DOMAIN requests, q < s,
                      NEW i \in DOMAIN requests[q], NEW j \in DOMAIN requests[s]
               PROVE  /\ requests[q][i] # requests[s][j]
                      /\ operations[requests[q][i]].phase <= operations[requests[s][j]].phase
    BY DEF ToSet
  <2>1. Before(requests[q][i], requests[s][j])
    BY <1>1 DEF SendInv, AllBefore
  <2> QED BY <1>1, <1>2, <2>1, BeforeIsStrict
<1>5. EachSentOnce
  <2>1. ASSUME NEW q \in DOMAIN requests PROVE IsInjective(requests[q])
    <3> SUFFICES ASSUME NEW i \in DOMAIN requests[q], NEW j \in DOMAIN requests[q], i # j
                 PROVE  requests[q][i] # requests[q][j]
      BY DEF IsInjective
    <3>1. i < j \/ j < i
      BY <1>3
    <3>2. requests[q][i] < requests[q][j] \/ requests[q][j] < requests[q][i]
      BY <1>2, <3>1 DEF OneGroup, Ascending
    <3>3. requests[q][i] \in Nat /\ requests[q][j] \in Nat
      BY <1>2, <1>3
    <3> QED BY <3>2, <3>3
  <2>2. \A q \in DOMAIN requests : requests[q] # <<>>
    BY <1>2 DEF OneGroup
  <2>3. ASSUME NEW q \in DOMAIN requests, NEW s \in DOMAIN requests, q # s
        PROVE  ToSet(requests[q]) \cap ToSet(requests[s]) = {}
    <3>1. q < s \/ s < q
      BY <1>3, <2>3
    <3> QED BY <1>4, <3>1
  <2>4. pc = "done" => Sent = DOMAIN operations
    <3>1. Sent \subseteq DOMAIN operations
      BY <1>2 DEF Sent, ToSet
    <3> QED BY <1>1, <3>1 DEF SendInv, Unsent
  <2> QED BY <1>2, <2>1, <2>2, <2>3, <2>4 DEF EachSentOnce
<1>6. \A q \in DOMAIN requests : \A o, p \in ToSet(requests[q]) : KeyOf(o) = KeyOf(p)
  BY <1>2 DEF OneGroup, ToSet
<1>7. PhasesAscend
  <2> SUFFICES ASSUME NEW q \in DOMAIN requests, NEW s \in DOMAIN requests, q <= s,
                      NEW o \in ToSet(requests[q]), NEW p \in ToSet(requests[s])
               PROVE  operations[o].phase <= operations[p].phase
    BY DEF PhasesAscend
  <2>1. CASE q < s
    BY <1>4, <2>1
  <2>2. CASE q = s
    <3>1. operations[o].phase = operations[p].phase
      BY <1>6, <2>2 DEF KeyOf
    <3>2. o \in DOMAIN operations /\ p \in DOMAIN operations
      BY <1>2 DEF ToSet
    <3>3. operations[o].phase \in {0, 1}
      BY <1>1, <3>2, OperationTypes
    <3> QED BY <3>1, <3>3
  <2> QED BY <1>3, <2>1, <2>2
<1>8. OneTarget
  BY <1>6 DEF OneTarget, KeyOf
<1> QED BY <1>5, <1>7, <1>8 DEF SentAsPlanned

\* Two saves of one place leave in plan order.
LEMMA InvKeepsPlanOrder == IInv => KeepsPlanOrder
<1> SUFFICES ASSUME IInv,
                    NEW q \in DOMAIN requests, NEW s \in DOMAIN requests,
                    NEW i \in DOMAIN requests[q], NEW j \in DOMAIN requests[s],
                    KeyOf(requests[q][i]) = KeyOf(requests[s][j]),
                    requests[q][i] < requests[s][j]
             PROVE  q < s \/ (q = s /\ i < j)
  BY DEF KeepsPlanOrder
<1> DEFINE o == requests[q][i]
           p == requests[s][j]
<1>1. /\ TypeOK /\ SendInv
      /\ o \in DOMAIN operations /\ p \in DOMAIN operations /\ o \in Nat /\ p \in Nat
      /\ q \in Nat /\ s \in Nat /\ i \in Nat /\ j \in Nat
  BY RequestTypes, OperationTypes DEF IInv
<1>2. ~(s < q)
  <2> SUFFICES ASSUME s < q PROVE FALSE
    OBVIOUS
  <2>1. Before(p, o)
    BY <1>1 DEF SendInv, AllBefore
  <2>2. p < o
    BY <1>1, <2>1, BeforeIsStrict
  <2> QED BY <1>1, <2>2
<1>3. q = s => i < j
  <2> SUFFICES ASSUME q = s, ~(i < j) PROVE FALSE
    OBVIOUS
  <2>1. i = j \/ j < i
    BY <1>1
  <2>2. j < i => p < o
    BY <1>1 DEF SendInv, OneGroup, Ascending
  <2> QED BY <1>1, <2>1, <2>2
<1> QED BY <1>1, <1>2, <1>3

\* A store value leaves ahead of its row's main save in bulk mode only, and
\* there because a main save of the other method is in the phase: the first
\* value of its group has a main save before it in the plan, which would head
\* the group of the row's main save if the methods were the same.
LEMMA InvStoreValuesFollow == IInv => StoreValuesFollow
<1> SUFFICES ASSUME IInv,
                    NEW q \in DOMAIN requests, NEW s \in DOMAIN requests, q <= s,
                    NEW v \in ToSet(requests[q]), NEW m \in ToSet(requests[s]),
                    operations[m].row = operations[v].row,
                    operations[m].main, ~operations[v].main
             PROVE  /\ mode = "bulk"
                    /\ \E o \in DOMAIN operations :
                         /\ operations[o].main
                         /\ operations[o].phase = operations[m].phase
                         /\ operations[o].method # operations[m].method
  BY DEF StoreValuesFollow
<1>1. /\ TypeOK /\ PlanInv /\ SendInv
      /\ v \in DOMAIN operations /\ m \in DOMAIN operations /\ v \in Nat /\ m \in Nat
      /\ q \in Nat /\ s \in Nat
  BY RequestTypes, OperationTypes DEF IInv, ToSet
<1>2. operations[m].phase = operations[v].phase /\ m < v
  BY <1>1 DEF PlanInv
<1>3. operations[m].store = Default /\ operations[v].store # Default
  BY <1>1 DEF PlanInv
<1>4. KeyOf(v) # KeyOf(m)
  BY <1>3 DEF KeyOf
<1>5. q # s
  BY <1>1, <1>4 DEF SendInv, OneGroup, ToSet
<1>6. Before(v, m)
  BY <1>1, <1>5 DEF SendInv, AllBefore, ToSet
<1>7. operations[v].phase \in {0, 1}
  BY <1>1, OperationTypes
<1>8. mode # "sync" /\ Leads(v, m)
  BY <1>1, <1>2, <1>4, <1>6, <1>7 DEF Before
<1>9. PICK e \in DOMAIN operations :
        /\ KeyOf(e) = KeyOf(v)
        /\ \A f \in DOMAIN operations : KeyOf(f) = KeyOf(m) => e < f
  BY <1>8 DEF Leads
<1>10. operations[e].phase = operations[m].phase /\ ~operations[e].main
  BY <1>1, <1>2, <1>3, <1>9 DEF KeyOf, PlanInv
<1>11. PICK o \in DOMAIN operations : operations[o].main /\ operations[o].row = operations[e].row
  BY <1>1 DEF PlanInv
<1>12. operations[o].phase = operations[e].phase /\ o < e
  BY <1>1, <1>10, <1>11 DEF PlanInv
<1>13. operations[o].method # operations[m].method
  <2> SUFFICES ASSUME operations[o].method = operations[m].method PROVE FALSE
    OBVIOUS
  <2>1. operations[o].store = Default
    BY <1>1, <1>11 DEF PlanInv
  <2>2. KeyOf(o) = KeyOf(m)
    BY <1>3, <1>10, <1>12, <2>1 DEF KeyOf
  <2>3. e < o
    BY <1>9, <2>2
  <2>4. e \in Nat /\ o \in Nat
    BY <1>1, OperationTypes
  <2> QED BY <1>12, <2>3, <2>4
<1> QED BY <1>1, <1>8, <1>10, <1>11, <1>12, <1>13 DEF TypeOK

\* In either mode an import's saves leave once each, by ascending phase, in
\* requests of one method and one store.
THEOREM SavesAsPlanned == Spec => []SentAsPlanned
<1> QED BY Invariance, InvSentAsPlanned, PTL

\* In either mode saves of one place keep plan order, and a row's store values
\* follow its main save unless its phase mixes new and existing rows in bulk.
THEOREM OrderIsKept == Spec => []OrderKept
<1>1. IInv => OrderKept
  BY InvKeepsPlanOrder, InvStoreValuesFollow DEF OrderKept
<1> QED BY Invariance, <1>1, PTL

=============================================================================
