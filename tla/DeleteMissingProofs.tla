------------------------ MODULE DeleteMissingProofs ------------------------
(***************************************************************************)
(* Proofs about DeleteMissing, for every catalog, page size and number of  *)
(* changes other clients make.                                             *)
(***************************************************************************)
EXTENDS DeleteMissing, FiniteSetTheorems, WellFoundedInduction, TLAPS

---------------------------------------------------------------------------
(* Least and greatest numbers. *)

\* What Min returns of a set of numbers.
LEMMA MinIsLeast ==
  ASSUME NEW S \in SUBSET Nat, S # {}
  PROVE  Min(S) \in S /\ \A p \in S : Min(S) <= p
<1> DEFINE R == {ss \in Nat \X Nat : ss[1] < ss[2]}
<1>1. IsWellFoundedOn(R, Nat)
  BY NatLessThanWellFounded DEF OpToRel
<1> HIDE DEF R
<1>2. PICK o \in S : \A p \in S : <<p, o>> \notin R
  BY <1>1, WFMin
<1>3. \A p \in S : ~(p < o)
  BY <1>2 DEF R
<1>4. \A p \in S : o <= p
  BY <1>3
<1> QED BY <1>4 DEF Min

\* What Max returns of a set of numbers below a bound.
LEMMA MaxIsGreatest ==
  ASSUME NEW S \in SUBSET Nat, S # {}, NEW b \in Nat, \A p \in S : p < b
  PROVE  Max(S) \in S /\ \A p \in S : p <= Max(S)
<1> DEFINE T == {b - p : p \in S}
<1>1. T \in SUBSET Nat /\ T # {}
  <2>1. \A p \in S : p \in Nat /\ b - p \in Nat
    OBVIOUS
  <2> QED BY <2>1
<1>2. PICK t \in T : \A u \in T : t <= u
  BY <1>1, MinIsLeast
<1>3. PICK o \in S : t = b - o
  OBVIOUS
<1>4. \A p \in S : b - o <= b - p
  BY <1>2, <1>3
<1>5. ASSUME NEW p \in S PROVE o >= p
  <2>1. o \in Nat /\ p \in Nat /\ b - o <= b - p
    BY <1>4
  <2> QED BY <2>1
<1>6. Max(S) \in S /\ \A p \in S : Max(S) >= p
  BY <1>5, Zenon DEF Max
<1> QED BY <1>6

---------------------------------------------------------------------------
(* The order of entity ids. *)

LEMMA StoreTypes ==
  ASSUME TypeOK
  PROVE  /\ N \in Nat /\ PageSize \in Nat /\ PageSize >= 1 /\ IsFiniteSet(Sku)
         /\ \A s \in Sku : ids[s] \in Nat
         /\ Present \in SUBSET Sku /\ IsFiniteSet(Present)
         /\ nextId \in Nat /\ nextId >= 1
<1>1. N \in Nat /\ PageSize \in Nat /\ PageSize >= 1
  BY ConstantsAssumption
<1>2. IsFiniteSet(Sku)
  BY <1>1, FS_Interval DEF Sku
<1>3. Present \in SUBSET Sku
  BY DEF Present
<1>4. IsFiniteSet(Present)
  BY <1>2, <1>3, FS_Subset
<1> QED BY <1>1, <1>2, <1>3, <1>4 DEF TypeOK

\* Places of products count from 1 on, follow the ids and leave no gap.
LEMMA Places ==
  ASSUME TypeOK, IdsInv, NEW S \in SUBSET Present
  PROVE  /\ IsFiniteSet(S) /\ Cardinality(S) \in Nat
         /\ \A s \in S : Place(S, s) \in 1 .. Cardinality(S)
         /\ \A s, t \in S : ids[s] <= ids[t] => Place(S, s) <= Place(S, t)
         /\ \A k \in 1 .. Cardinality(S) : \E s \in S : Place(S, s) = k
<1> DEFINE n == Cardinality(S)
           To(s) == {t \in S : ids[t] <= ids[s]}
           place == [s \in S |-> Place(S, s)]
<1>1. /\ IsFiniteSet(S) /\ n \in Nat
      /\ \A s \in S : ids[s] \in Nat
      /\ \A s, t \in S : ids[s] = ids[t] => s = t
  <2>1. IsFiniteSet(S)
    BY StoreTypes, FS_Subset
  <2> QED BY <2>1, StoreTypes, FS_CardinalityType DEF IdsInv
<1>2. ASSUME NEW s \in S
      PROVE  IsFiniteSet(To(s)) /\ Cardinality(To(s)) \in 1 .. n
  <2>1. To(s) \in SUBSET S /\ s \in To(s)
    BY <1>1
  <2> HIDE DEF To
  <2>2. IsFiniteSet(To(s)) /\ Cardinality(To(s)) <= n
    BY <1>1, <2>1, FS_Subset
  <2>3. Cardinality(To(s)) \in Nat /\ Cardinality(To(s)) # 0
    BY <2>1, <2>2, FS_CardinalityType, FS_EmptySet
  <2> QED BY <1>1, <2>2, <2>3
<1>3. ASSUME NEW s \in S, NEW t \in S, ids[s] <= ids[t]
      PROVE  /\ Cardinality(To(s)) <= Cardinality(To(t))
             /\ s # t => Cardinality(To(s)) # Cardinality(To(t))
  <2>1. To(s) \in SUBSET To(t) /\ t \in To(t)
    BY <1>1, <1>3
  <2>2. s # t => t \notin To(s)
    BY <1>1, <1>3
  <2>3. IsFiniteSet(To(t))
    BY <1>2
  <2> HIDE DEF To
  <2> QED BY <2>1, <2>2, <2>3, FS_Subset
<1>4. \A s \in S : Place(S, s) = Cardinality(To(s)) /\ place[s] = Place(S, s)
  BY DEF Place
<1> HIDE DEF To, place
<1>5. place \in Injection(S, 1 .. n)
  <2>1. place \in [S -> 1 .. n]
    BY <1>2, <1>4 DEF place
  <2>2. ASSUME NEW s \in S, NEW t \in S, s # t PROVE place[s] # place[t]
    <3>1. ids[s] <= ids[t] \/ ids[t] <= ids[s]
      BY <1>1
    <3> QED BY <1>3, <1>4, <2>2, <3>1
  <2> QED BY <2>1, <2>2 DEF Injection, IsInjective
<1>6. place \in Surjection(S, 1 .. n)
  <2>1. IsFiniteSet(1 .. n) /\ Cardinality(1 .. n) = n
    BY <1>1, FS_Interval
  <2> QED BY <1>5, <2>1, FS_Injection
<1>7. \A k \in 1 .. n : \E s \in S : place[s] = k
  BY <1>6 DEF Surjection
<1> QED BY <1>1, <1>2, <1>3, <1>4, <1>7

---------------------------------------------------------------------------
(* Pages. *)

LEMMA PageTypes ==
  ASSUME TypeOK
  PROVE  /\ Rest \in SUBSET Present /\ Page \in SUBSET Rest /\ Read \in Nat
         /\ IsFiniteSet(Page) /\ Cardinality(Page) \in Nat
<1>1. walk.at \in Nat /\ walk.by \in {"pages", "index"}
  BY DEF TypeOK
<1>2. Read \in Nat
  BY <1>1, StoreTypes DEF Read
<1>3. Rest \in SUBSET Present /\ Page \in SUBSET Rest
  BY DEF Rest, Page
<1>4. IsFiniteSet(Page)
  BY <1>3, StoreTypes, FS_Subset
<1> QED BY <1>2, <1>3, <1>4, FS_CardinalityType

\* A short page holds all that is left.
LEMMA ShortPage ==
  ASSUME TypeOK, IdsInv, Cardinality(Page) < PageSize, NEW s \in Rest
  PROVE  Place(Rest, s) <= Read \/ s \in Page
<1> DEFINE n == Cardinality(Rest)
<1>1. /\ Rest \in SUBSET Present /\ Page \in SUBSET Rest /\ Read \in Nat
      /\ IsFiniteSet(Page) /\ Cardinality(Page) \in Nat
  BY PageTypes
<1>2. /\ n \in Nat
      /\ \A t \in Rest : Place(Rest, t) \in 1 .. n
      /\ \A k \in 1 .. n : \E t \in Rest : Place(Rest, t) = k
  BY <1>1, Places
<1>3. PageSize \in Nat
  BY StoreTypes
<1> SUFFICES ASSUME Place(Rest, s) > Read + PageSize PROVE FALSE
  BY <1>1, <1>2, <1>3 DEF Page
<1>4. \A k \in 1 .. PageSize : \E t \in Page : Place(Rest, t) = Read + k
  <2> SUFFICES ASSUME NEW k \in 1 .. PageSize PROVE \E t \in Page : Place(Rest, t) = Read + k
    OBVIOUS
  <2>1. Read + k \in 1 .. n /\ Read + k \in Read + 1 .. Read + PageSize
    BY <1>1, <1>2, <1>3
  <2>2. PICK t \in Rest : Place(Rest, t) = Read + k
    BY <1>2, <2>1
  <2> QED BY <2>1, <2>2 DEF Page
<1> DEFINE f == [t \in Page |-> Place(Rest, t) - Read]
<1>5. f \in Surjection(Page, 1 .. PageSize)
  <2>1. \A t \in Page : f[t] \in 1 .. PageSize
    <3> SUFFICES ASSUME NEW t \in Page PROVE Place(Rest, t) - Read \in 1 .. PageSize
      OBVIOUS
    <3>1. Place(Rest, t) \in Read + 1 .. Read + PageSize
      BY DEF Page
    <3> QED BY <1>1, <1>3, <3>1
  <2>2. \A k \in 1 .. PageSize : \E t \in Page : f[t] = k
    <3> SUFFICES ASSUME NEW k \in 1 .. PageSize PROVE \E t \in Page : Place(Rest, t) - Read = k
      OBVIOUS
    <3>1. PICK t \in Page : Place(Rest, t) = Read + k
      BY <1>4
    <3>2. Place(Rest, t) - Read = k
      BY <1>1, <1>3, <3>1
    <3> QED BY <3>2
  <2>3. f \in [Page -> 1 .. PageSize]
    BY <2>1
  <2> HIDE DEF f
  <2> QED BY <2>2, <2>3 DEF Surjection
<1> HIDE DEF f
<1>6. Cardinality(1 .. PageSize) <= Cardinality(Page)
  BY <1>1, <1>5, FS_Surjection
<1>7. Cardinality(1 .. PageSize) = PageSize
  BY <1>3, FS_Interval
<1> QED BY <1>1, <1>3, <1>6, <1>7

\* A full page of the index holds all up to its last id.
LEMMA FullPage ==
  ASSUME TypeOK, IdsInv, ~(Cardinality(Page) < PageSize), walk.by = "index"
  PROVE  LET last == Max({ids[s] : s \in Page})
         IN  last \in Nat /\ \A s \in Rest : ids[s] <= last => s \in Page
<1> DEFINE I == {ids[s] : s \in Page}
<1>1. /\ Rest \in SUBSET Present /\ Page \in SUBSET Rest
      /\ IsFiniteSet(Page) /\ Cardinality(Page) \in Nat
      /\ PageSize \in Nat /\ PageSize >= 1 /\ Present \in SUBSET Sku
      /\ Read = 0
  BY PageTypes, StoreTypes DEF Read
<1>2. I \in SUBSET Nat /\ nextId \in Nat /\ \A i \in I : i < nextId
  BY <1>1, StoreTypes DEF IdsInv
<1>3. I # {}
  <2>1. Page # {}
    BY <1>1, FS_EmptySet
  <2> QED BY <2>1
<1>4. Max(I) \in I
  BY <1>2, <1>3, MaxIsGreatest
<1>5. PICK m \in Page : Max(I) = ids[m]
  BY <1>4
<1>6. ASSUME NEW s \in Rest, ids[s] <= ids[m] PROVE s \in Page
  <2>1. /\ Cardinality(Rest) \in Nat /\ Place(Rest, s) \in 1 .. Cardinality(Rest)
        /\ Place(Rest, m) \in 1 .. Cardinality(Rest)
        /\ Place(Rest, s) <= Place(Rest, m)
    BY <1>1, <1>6, Places
  <2>2. Place(Rest, m) \in 0 + 1 .. 0 + PageSize
    BY <1>1 DEF Page
  <2>3. Place(Rest, s) \in 0 + 1 .. 0 + PageSize
    BY <1>1, <2>1, <2>2
  <2> QED BY <1>1, <2>3 DEF Page
<1> QED BY <1>2, <1>4, <1>5, <1>6

---------------------------------------------------------------------------
(* Walks. *)

\* Of the walk, WalkOn changes what it has got and how far it is.
LEMMA WalkOnEffect ==
  ASSUME TypeOK, IdsInv, WalkInv, ~walk.ended, WalkOn, UNCHANGED ids
  PROVE  /\ walk' \in [by: {"pages", "index"}, at: Nat, got: SUBSET Sku, ended: BOOLEAN,
                       since: SUBSET Sku, shrunk: BOOLEAN]
         /\ walk'.by = walk.by /\ walk'.since = walk.since /\ walk'.shrunk = walk.shrunk
         /\ walk'.got = walk.got \cup Page /\ Page \subseteq Present
         /\ WalkInv'
<1> DEFINE W == [by: {"pages", "index"}, at: Nat, got: SUBSET Sku, ended: BOOLEAN,
                 since: SUBSET Sku, shrunk: BOOLEAN]
           short == Cardinality(Page) < PageSize
           last == Max({ids[s] : s \in Page})
           at == IF short THEN walk.at ELSE IF walk.by = "pages" THEN walk.at + 1 ELSE last
<1>1. /\ Rest \in SUBSET Present /\ Page \in SUBSET Rest /\ Read \in Nat
      /\ Present \in SUBSET Sku /\ PageSize \in Nat /\ PageSize >= 1
      /\ walk \in W /\ walk.at \in Nat /\ walk.by \in {"pages", "index"}
      /\ short \in BOOLEAN
  BY PageTypes, StoreTypes DEF TypeOK
<1>2. walk' = [walk EXCEPT !.got = @ \cup Page, !.ended = short, !.at = at]
  BY DEF WalkOn
<1>3. at \in Nat
  BY <1>1, FullPage
<1> HIDE DEF short, at, last
<1>4. /\ walk' \in W
      /\ walk'.by = walk.by /\ walk'.since = walk.since /\ walk'.shrunk = walk.shrunk
      /\ walk'.got = walk.got \cup Page /\ walk'.ended = short /\ walk'.at = at
  BY <1>1, <1>2, <1>3
<1>5. /\ walk.since \subseteq Present
      /\ walk.by = "index" => \A s \in walk.since : ids[s] <= walk.at => s \in walk.got
      /\ walk.by = "pages" /\ ~walk.shrunk =>
           \A s \in walk.since : Place(Present, s) <= Read => s \in walk.got
  BY DEF WalkInv
<1>6. \A s \in Sku : ids[s] \in Nat
  BY StoreTypes
<1>7. Present' = Present
  BY DEF Present
<1>8. ASSUME walk.by = "index" PROVE WalkInv'
  <2>1. Rest = {s \in Present : ids[s] > walk.at} /\ Read = 0
    BY <1>8 DEF Rest, Read
  <2>2. ASSUME NEW s \in walk.since PROVE s \in walk.got \/ s \in Rest
    <3>1. s \in Present /\ ids[s] \in Nat
      BY <1>1, <1>5, <1>6
    <3> QED BY <1>1, <1>5, <1>8, <2>1, <3>1
  <2>3. CASE short
    <3>1. \A s \in Rest : s \in Page
      <4> SUFFICES ASSUME NEW s \in Rest PROVE s \in Page
        OBVIOUS
      <4>1. Place(Rest, s) <= Read \/ s \in Page
        BY <2>3, ShortPage DEF short
      <4>2. Cardinality(Rest) \in Nat /\ Place(Rest, s) \in 1 .. Cardinality(Rest)
        BY <1>1, Places
      <4> QED BY <2>1, <4>1, <4>2
    <3>2. walk'.since \subseteq walk'.got
      BY <1>4, <2>2, <3>1
    <3>3. walk'.ended
      BY <1>1, <1>4, <2>3
    <3> QED BY <3>2, <3>3 DEF WalkInv, WalkMissesNothing
  <2>4. CASE ~short
    <3>1. at = last /\ \A s \in Rest : ids[s] <= last => s \in Page
      BY <1>8, <2>4, FullPage DEF short, at, last
    <3>2. \A s \in walk.since : ids[s] <= at => s \in walk'.got
      BY <1>4, <2>2, <3>1
    <3>3. ~walk'.ended /\ walk'.by # "pages"
      BY <1>1, <1>4, <1>8, <2>4
    <3>4. (walk.since \subseteq Present)'
      BY <1>4, <1>5, <1>7
    <3>5. (walk.by = "index" => \A s \in walk.since : ids[s] <= walk.at => s \in walk.got)'
      BY <1>4, <3>2
    <3> QED BY <3>3, <3>4, <3>5 DEF WalkInv, WalkMissesNothing
  <2> QED BY <2>3, <2>4
<1>9. ASSUME walk.by = "pages" PROVE WalkInv'
  <2>1. Rest = Present /\ Read = walk.at * PageSize
    BY <1>9 DEF Rest, Read
  <2>2. CASE short
    <3>1. ~walk.shrunk => walk.since \subseteq walk'.got
      <4> SUFFICES ASSUME ~walk.shrunk, NEW s \in walk.since PROVE s \in walk'.got
        OBVIOUS
      <4>1. Place(Present, s) <= Read \/ s \in Page
        BY <1>5, <2>1, <2>2, ShortPage DEF short
      <4> QED BY <1>4, <1>5, <1>9, <4>1
    <3>2. walk'.ended /\ walk'.by # "index" /\ (~walk'.shrunk => walk'.since \subseteq walk'.got)
      BY <1>1, <1>4, <1>9, <2>2, <3>1
    <3> QED BY <3>2 DEF WalkInv, WalkMissesNothing
  <2>3. CASE ~short
    <3>1. at = walk.at + 1
      BY <1>9, <2>3 DEF at
    <3>2. Read' = Read + PageSize
      <4>1. Read' = (walk.at + 1) * PageSize
        BY <1>4, <1>9, <3>1 DEF Read
      <4> QED BY <1>1, <2>1, <4>1
    <3>3. ASSUME ~walk.shrunk, NEW s \in walk.since, Place(Present, s) <= Read + PageSize
          PROVE  s \in walk'.got
      <4>1. s \in Present /\ Cardinality(Present) \in Nat
            /\ Place(Present, s) \in 1 .. Cardinality(Present)
        BY <1>5, Places
      <4>2. CASE Place(Present, s) <= Read
        BY <1>4, <1>5, <1>9, <3>3, <4>2
      <4>3. CASE ~(Place(Present, s) <= Read)
        <5>1. Place(Present, s) \in Read + 1 .. Read + PageSize
          BY <1>1, <3>3, <4>1, <4>3
        <5> QED BY <1>4, <2>1, <4>1, <5>1 DEF Page
      <4> QED BY <4>2, <4>3
    <3>4. \A s : Place(Present, s)' = Place(Present, s)
      BY <1>7 DEF Place
    <3>5. (walk.by = "pages" /\ ~walk.shrunk =>
             \A s \in walk.since : Place(Present, s) <= Read => s \in walk.got)'
      BY <1>4, <3>2, <3>3, <3>4
    <3>6. ~walk'.ended /\ walk'.by # "index"
      BY <1>1, <1>4, <1>9, <2>3
    <3>7. (walk.since \subseteq Present)'
      BY <1>4, <1>5, <1>7
    <3> QED BY <3>5, <3>6, <3>7 DEF WalkInv, WalkMissesNothing
  <2> QED BY <2>2, <2>3
<1> QED BY <1>1, <1>4, <1>8, <1>9

---------------------------------------------------------------------------
(* The steps. *)

LEMMA InitIInv == Init => IInv
<1> SUFFICES ASSUME Init PROVE IInv
  OBVIOUS
<1>1. /\ mode \in {"preview", "execute"} /\ scope \in BOOLEAN /\ strict \in BOOLEAN
      /\ offered \in BOOLEAN /\ require \in BOOLEAN
      /\ source \in [Sku -> {"valid", "invalid", "unmapped", "absent"}]
      /\ nextId = N + 1 /\ foreign = 0 /\ quiet = TRUE
      /\ pc \in {"snapshot", "import"} /\ index = NoIndex
      /\ rowsFailed = 0 /\ candidates = {} /\ deleted = {} /\ failed = {}
  BY DEF Init
<1>2. walk.by = "index" /\ walk.at = 0 /\ walk.got = {} /\ ~walk.ended
      /\ walk.since = Present /\ ~walk.shrunk
      /\ walk \in [by: {"pages", "index"}, at: Nat, got: SUBSET Sku, ended: BOOLEAN,
                   since: SUBSET Sku, shrunk: BOOLEAN]
  BY DEF Init, NewWalk, Present
<1>3. PICK there \in SUBSET Sku : ids = [s \in Sku |-> IF s \in there THEN s ELSE 0]
  BY DEF Init
<1>4. N \in Nat /\ Sku = 1 .. N
  BY ConstantsAssumption DEF Sku
<1>5. /\ ids \in [Sku -> Nat]
      /\ \A s \in Sku : ids[s] < N + 1
      /\ \A s \in Present : ids[s] = s /\ ids[s] > 0
  BY <1>3, <1>4 DEF Present
<1>6. TypeOK
  <2>1. nextId \in Nat \ {0}
    BY <1>1, <1>4
  <2>2. pc \in {"snapshot", "import", "check", "list", "candidates", "delete"} \cup Ended
    BY <1>1
  <2>3. candidates \in SUBSET Sku /\ deleted \in SUBSET candidates /\ failed \in SUBSET candidates
    BY <1>1, Zenon
  <2>4. foreign \in Nat /\ quiet \in BOOLEAN /\ rowsFailed \in Nat /\ index \in (SUBSET Sku) \cup {NoIndex}
    BY <1>1
  <2> QED BY <1>1, <1>2, <1>5, <2>1, <2>2, <2>3, <2>4 DEF TypeOK
<1>7. IdsInv
  BY <1>1, <1>5 DEF IdsInv
<1>8. WalkInv
  BY <1>2, <1>5 DEF WalkInv, WalkMissesNothing
<1>9. PhaseInv
  BY <1>1, <1>2 DEF PhaseInv
<1>10. DeletesTheMissing
  BY <1>1 DEF DeletesTheMissing, SourceKept, QuietIsExact, DeletedAreGone, OutcomeSplits, Sent
<1> QED BY <1>6, <1>7, <1>8, <1>9, <1>10 DEF IInv

\* Before the deletes there is nothing to say of them.
LEMMA NothingDeletedYet ==
  ASSUME TypeOK, candidates = {}, pc \notin {"delete", "done"}
  PROVE  DeletesTheMissing
<1>1. deleted = {} /\ failed = {}
  BY DEF TypeOK
<1> QED BY <1>1 DEF DeletesTheMissing, SourceKept, QuietIsExact, DeletedAreGone, OutcomeSplits, Sent

LEMMA SnapshotIndexStep == IInv /\ SnapshotIndex => IInv'
<1> SUFFICES ASSUME IInv, SnapshotIndex PROVE IInv'
  OBVIOUS
<1>1. /\ TypeOK /\ IdsInv /\ WalkInv /\ PhaseInv /\ pc = "snapshot"
      /\ walk.by = "index" /\ index = NoIndex /\ candidates = {}
      /\ UNCHANGED <<inputs, store, outcome>>
  BY DEF SnapshotIndex, IInv, PhaseInv
<1>2. UNCHANGED <<mode, scope, offered, require, strict, source, ids, nextId, foreign, quiet,
                  rowsFailed, candidates, deleted, failed>>
  BY <1>1 DEF inputs, store, outcome
<1>3. Present' = Present /\ IdsInv'
  BY <1>1, <1>2 DEF Present, IdsInv
<1>4. /\ walk' \in [by: {"pages", "index"}, at: Nat, got: SUBSET Sku, ended: BOOLEAN,
                    since: SUBSET Sku, shrunk: BOOLEAN]
      /\ walk'.by = "index" /\ WalkInv'
      /\ pc' \in {"snapshot", "import", "bridge"}
      /\ index' \in (SUBSET Sku) \cup {NoIndex}
      /\ pc' = "snapshot" => index' = NoIndex
      /\ index' # NoIndex => walk'.ended
  <2>1. CASE ~walk.ended /\ WalkOn /\ UNCHANGED <<pc, index>>
    <3>1. UNCHANGED ids
      BY <1>2
    <3>2. /\ walk' \in [by: {"pages", "index"}, at: Nat, got: SUBSET Sku, ended: BOOLEAN,
                         since: SUBSET Sku, shrunk: BOOLEAN]
          /\ walk'.by = walk.by /\ WalkInv'
      BY <1>1, <2>1, <3>1, WalkOnEffect
    <3> QED BY <1>1, <2>1, <3>2
  <2>2. CASE /\ UNCHANGED walk
             /\ \/ walk.ended /\ index' = walk.got /\ pc' = "import"
                \/ index' = index /\ pc' \in {"bridge", "import"}
    <3>1. WalkInv'
      BY <1>1, <1>2, <2>2 DEF WalkInv, WalkMissesNothing, Place, Read, Present
    <3>2. walk.got \in SUBSET Sku
      BY <1>1 DEF TypeOK
    <3>3. index' \in (SUBSET Sku) \cup {NoIndex} /\ (index' # NoIndex => walk'.ended)
      BY <1>1, <2>2, <3>2
    <3>4. walk' = walk /\ pc' \in {"import", "bridge"}
      BY <2>2
    <3> QED BY <1>1, <3>1, <3>3, <3>4 DEF TypeOK
  <2> QED BY <2>1, <2>2 DEF SnapshotIndex
<1>5. TypeOK'
  BY <1>1, <1>2, <1>4 DEF TypeOK, Ended
<1>6. PhaseInv'
  BY <1>1, <1>2, <1>4 DEF PhaseInv
<1>7. DeletesTheMissing'
  BY <1>1, <1>2, <1>4
     DEF TypeOK, DeletesTheMissing, SourceKept, QuietIsExact, DeletedAreGone, OutcomeSplits, Sent
<1> QED BY <1>3, <1>4, <1>5, <1>6, <1>7 DEF IInv

\* The catalog of other clients moves; the walk and the deletes keep what they
\* have.
LEMMA ForeignStep == IInv /\ Foreign => IInv'
<1> SUFFICES ASSUME IInv, Foreign PROVE IInv'
  OBVIOUS
<1> DEFINE W == [by: {"pages", "index"}, at: Nat, got: SUBSET Sku, ended: BOOLEAN,
                 since: SUBSET Sku, shrunk: BOOLEAN]
<1>1. /\ TypeOK /\ IdsInv /\ WalkInv /\ PhaseInv /\ DeletesTheMissing
      /\ pc \notin Ended /\ foreign' = foreign + 1 /\ quiet' = FALSE
      /\ walk \in W
      /\ UNCHANGED <<inputs, pc, index, outcome>>
  BY DEF Foreign, IInv, TypeOK
<1>2. UNCHANGED <<mode, scope, offered, require, strict, source, pc, index,
                  rowsFailed, candidates, deleted, failed>>
  BY <1>1 DEF inputs, outcome
<1>3. /\ Present \in SUBSET Sku /\ \A s \in Sku : ids[s] \in Nat /\ ids[s] < nextId
      /\ nextId \in Nat /\ nextId >= 1 /\ ids \in [Sku -> Nat]
  BY <1>1, StoreTypes DEF IdsInv, TypeOK
<1>4. PICK s \in Sku :
        IF s \in Present
        THEN /\ ids' = [ids EXCEPT ![s] = 0] /\ UNCHANGED nextId
             /\ walk' = [walk EXCEPT !.since = @ \ {s}, !.shrunk = TRUE]
        ELSE /\ ids' = [ids EXCEPT ![s] = nextId] /\ nextId' = nextId + 1
             /\ UNCHANGED walk
  BY DEF Foreign
<1>5. /\ ids' \in [Sku -> Nat] /\ nextId' \in Nat /\ nextId' >= 1 /\ IdsInv'
      /\ walk' \in W /\ walk'.by = walk.by /\ walk'.ended = walk.ended
      /\ WalkInv'
  <2>1. CASE s \in Present
    <3>1. /\ ids' \in [Sku -> Nat] /\ ids'[s] = 0 /\ nextId' = nextId
          /\ \A t \in Sku : t # s => ids'[t] = ids[t]
      BY <1>3, <1>4, <2>1
    <3>2. Present' = Present \ {s}
      BY <1>3, <3>1 DEF Present
    <3>3. /\ walk' \in W /\ walk'.by = walk.by /\ walk'.ended = walk.ended
          /\ walk'.since = walk.since \ {s} /\ walk'.shrunk
          /\ walk'.got = walk.got /\ walk'.at = walk.at
      BY <1>1, <1>4, <2>1
    <3>4. IdsInv'
      BY <1>1, <1>3, <3>1, <3>2 DEF IdsInv
    <3>5. WalkMissesNothing'
      BY <1>1, <3>3 DEF WalkInv, WalkMissesNothing
    <3>6. ~walk.ended =>
            /\ walk'.since \subseteq Present'
            /\ walk.by = "index" => \A t \in walk'.since : ids'[t] <= walk.at => t \in walk.got
      <4> SUFFICES ASSUME ~walk.ended
                   PROVE  /\ walk'.since \subseteq Present'
                          /\ walk.by = "index" =>
                               \A t \in walk'.since : ids'[t] <= walk.at => t \in walk.got
        OBVIOUS
      <4>1. walk.since \subseteq Present
        BY <1>1 DEF WalkInv
      <4>2. \A t \in walk'.since : t \in walk.since /\ t \in Sku /\ t # s /\ ids'[t] = ids[t]
        BY <1>3, <3>1, <3>3, <4>1
      <4>3. walk.by = "index" => \A t \in walk.since : ids[t] <= walk.at => t \in walk.got
        BY <1>1 DEF WalkInv
      <4> QED BY <3>2, <3>3, <4>1, <4>2, <4>3
    <3>7. WalkInv'
      BY <3>3, <3>5, <3>6 DEF WalkInv
    <3> QED BY <1>3, <3>1, <3>3, <3>4, <3>7
  <2>2. CASE s \notin Present
    <3>1. /\ ids' \in [Sku -> Nat] /\ ids'[s] = nextId /\ nextId' = nextId + 1
          /\ \A t \in Sku : t # s => ids'[t] = ids[t]
      BY <1>3, <1>4, <2>2
    <3>2. Present' = Present \cup {s}
      BY <1>3, <3>1 DEF Present
    <3>3. walk' = walk
      BY <1>4, <2>2
    <3>4. \A t \in Sku : ids'[t] < nextId'
      BY <1>3, <3>1
    <3>5. ASSUME NEW t \in Present', NEW u \in Present', ids'[t] = ids'[u] PROVE t = u
      <4>1. CASE t # s /\ u # s
        BY <1>1, <1>3, <3>1, <3>2, <3>5, <4>1 DEF IdsInv
      <4>2. CASE t = s \/ u = s
        <5>1. t \in Sku /\ u \in Sku
          BY <1>3, <3>2
        <5> QED BY <1>3, <3>1, <3>5, <4>2, <5>1
      <4> QED BY <4>1, <4>2
    <3>6. IdsInv'
      BY <3>4, <3>5 DEF IdsInv
    <3>7. ASSUME NEW t \in Present PROVE Place(Present, t)' = Place(Present, t)
      <4>1. {u \in Present' : ids'[u] <= ids'[t]} = {u \in Present : ids[u] <= ids[t]}
        <5>1. ids'[t] = ids[t] /\ ids[t] \in Nat /\ ids[t] < nextId
          BY <1>3, <2>2, <3>1
        <5>2. ~(ids'[s] <= ids'[t])
          BY <1>3, <3>1, <5>1
        <5>3. \A u \in Present : ids'[u] = ids[u]
          BY <1>3, <2>2, <3>1
        <5> QED BY <3>2, <5>1, <5>2, <5>3
      <4> QED BY <4>1 DEF Place
    <3>8. WalkMissesNothing'
      BY <1>1, <3>3 DEF WalkInv, WalkMissesNothing
    <3>9. ~walk.ended =>
            /\ walk.since \subseteq Present'
            /\ walk.by = "index" => \A t \in walk.since : ids'[t] <= walk.at => t \in walk.got
            /\ walk.by = "pages" /\ ~walk.shrunk =>
                 \A t \in walk.since : Place(Present, t)' <= Read => t \in walk.got
      <4> SUFFICES ASSUME ~walk.ended
                   PROVE  /\ walk.since \subseteq Present'
                          /\ walk.by = "index" =>
                               \A t \in walk.since : ids'[t] <= walk.at => t \in walk.got
                          /\ walk.by = "pages" /\ ~walk.shrunk =>
                               \A t \in walk.since : Place(Present, t)' <= Read => t \in walk.got
        OBVIOUS
      <4>1. /\ walk.since \subseteq Present
            /\ walk.by = "index" => \A t \in walk.since : ids[t] <= walk.at => t \in walk.got
            /\ walk.by = "pages" /\ ~walk.shrunk =>
                 \A t \in walk.since : Place(Present, t) <= Read => t \in walk.got
        BY <1>1 DEF WalkInv
      <4>2. \A t \in walk.since : t \in Present /\ ids'[t] = ids[t]
        BY <1>3, <2>2, <3>1, <4>1
      <4>3. \A t \in walk.since : Place(Present, t)' = Place(Present, t)
        BY <3>7, <4>2
      <4> QED BY <3>2, <4>1, <4>2, <4>3
    <3>10. Read' = Read
      BY <3>3 DEF Read
    <3>11. WalkInv'
      BY <3>3, <3>8, <3>9, <3>10 DEF WalkInv
    <3> QED BY <1>1, <1>3, <3>1, <3>3, <3>6, <3>11
  <2> QED BY <2>1, <2>2
<1>6. TypeOK'
  <2>1. foreign' \in Nat
    BY <1>1 DEF TypeOK
  <2>2. nextId' \in Nat \ {0}
    BY <1>5
  <2>3. quiet' \in BOOLEAN
    BY <1>1
  <2>4. /\ mode' \in {"preview", "execute"} /\ scope' \in BOOLEAN /\ strict' \in BOOLEAN
        /\ offered' \in BOOLEAN /\ require' \in BOOLEAN
        /\ source' \in [Sku -> {"valid", "invalid", "unmapped", "absent"}]
        /\ rowsFailed' \in Nat
        /\ candidates' \in SUBSET Sku /\ deleted' \in SUBSET candidates'
        /\ failed' \in SUBSET candidates'
    BY <1>1, <1>2, Zenon DEF TypeOK
  <2>5. /\ pc' \in {"snapshot", "import", "check", "list", "candidates", "delete"} \cup Ended
        /\ index' \in (SUBSET Sku) \cup {NoIndex}
    BY <1>1, <1>2 DEF TypeOK
  <2> QED BY <1>5, <2>1, <2>2, <2>3, <2>4, <2>5, Zenon DEF TypeOK
<1>7. PhaseInv'
  BY <1>1, <1>2, <1>5 DEF PhaseInv, Lists
<1>8. DeletesTheMissing'
  BY <1>1, <1>2 DEF DeletesTheMissing, SourceKept, QuietIsExact, DeletedAreGone, OutcomeSplits, Sent
<1> QED BY <1>5, <1>6, <1>7, <1>8 DEF IInv

\* What the import creates gets the next ids.
LEMMA ImportStep == IInv /\ Import => IInv'
<1> SUFFICES ASSUME IInv, Import PROVE IInv'
  OBVIOUS
<1>1. /\ TypeOK /\ IdsInv /\ WalkInv /\ PhaseInv
      /\ pc = "import" /\ pc' = "check" /\ quiet' = TRUE
      /\ UNCHANGED <<inputs, foreign, index, walk, candidates, deleted, failed>>
      /\ walk.by = "index" /\ candidates = {}
  BY DEF Import, IInv, PhaseInv
<1>2. UNCHANGED <<mode, scope, offered, require, strict, source, foreign, index, walk,
                  candidates, deleted, failed>>
  BY <1>1 DEF inputs
<1>3. /\ Present \in SUBSET Sku /\ \A s \in Sku : ids[s] \in Nat /\ ids[s] < nextId
      /\ nextId \in Nat /\ nextId >= 1 /\ IsFiniteSet(Sku) /\ Sku \subseteq Nat
  BY <1>1, StoreTypes DEF IdsInv, Sku
<1>4. PICK saved \in SUBSET Named("valid") :
        LET new == saved \ Present
        IN /\ ids' = [s \in Sku |-> IF s \in new THEN nextId + Cardinality({t \in new : t < s})
                                    ELSE ids[s]]
           /\ nextId' = nextId + Cardinality(new)
           /\ rowsFailed' = Cardinality(Named("valid") \ saved) + Cardinality(Named("invalid"))
  BY DEF Import
<1> DEFINE new == saved \ Present
           To(s) == {t \in new : t < s}
<1>5. /\ new \in SUBSET Sku /\ new \in SUBSET Nat
      /\ IsFiniteSet(new) /\ Cardinality(new) \in Nat
  <2>1. new \in SUBSET Sku
    BY DEF Named
  <2> HIDE DEF new
  <2>2. new \in SUBSET Nat
    BY <1>3, <2>1
  <2> QED BY <1>3, <2>1, <2>2, FS_Subset, FS_CardinalityType
<1>6. ASSUME NEW s \in new
      PROVE  /\ IsFiniteSet(To(s)) /\ Cardinality(To(s)) \in Nat
             /\ Cardinality(To(s)) < Cardinality(new)
  <2>1. To(s) \in SUBSET new /\ s \notin To(s) /\ To(s) # new
    <3>1. s \in Nat
      BY <1>5, Zenon
    <3>2. ~(s < s)
      BY <3>1
    <3> QED BY <3>2
  <2> HIDE DEF To, new
  <2>2. IsFiniteSet(To(s)) /\ Cardinality(To(s)) <= Cardinality(new)
        /\ Cardinality(To(s)) # Cardinality(new)
    BY <1>5, <2>1, FS_Subset
  <2> QED BY <1>5, <2>2, FS_CardinalityType
<1>7. ASSUME NEW s \in new, NEW t \in new, s < t
      PROVE  Cardinality(To(s)) # Cardinality(To(t))
  <2>1. To(s) \in SUBSET To(t) /\ s \in To(t) /\ s \notin To(s)
    <3>1. s \in Nat /\ t \in Nat /\ \A u \in new : u \in Nat
      BY <1>5, Zenon
    <3>2. ~(s < s) /\ \A u \in new : u < s => u < t
      <4> HIDE DEF new
      <4> QED BY <1>7, <3>1
    <3> QED BY <1>7, <3>2
  <2>2. IsFiniteSet(To(t))
    BY <1>6
  <2> HIDE DEF To, new
  <2> QED BY <2>1, <2>2, FS_Subset
<1>8. /\ DOMAIN ids' = Sku /\ ids' = [s \in Sku |-> ids'[s]]
      /\ \A s \in new : ids'[s] = nextId + Cardinality(To(s))
      /\ \A s \in Sku \ new : ids'[s] = ids[s]
      /\ nextId' = nextId + Cardinality(new)
  BY <1>4, <1>5
<1>9. new \cap Present = {}
  OBVIOUS
<1> HIDE DEF To, new
<1>10. ASSUME NEW s \in new
       PROVE  ids'[s] \in Nat /\ ids'[s] >= nextId /\ ids'[s] < nextId'
  BY <1>3, <1>5, <1>6, <1>8
<1>11. ASSUME NEW s \in Sku \ new PROVE ids'[s] \in Nat /\ ids'[s] < nextId /\ ids'[s] < nextId'
  BY <1>3, <1>5, <1>8
<1>12. nextId' \in Nat /\ nextId' >= 1 /\ ids' \in [Sku -> Nat]
  <2>1. \A s \in Sku : ids'[s] \in Nat
    BY <1>10, <1>11
  <2> QED BY <1>3, <1>5, <1>8, <2>1
<1>13. Present' = Present \cup new
  <2>1. Present' = {s \in Sku : ids'[s] > 0}
    BY DEF Present
  <2>2. \A s \in new : ids'[s] > 0
    BY <1>3, <1>10
  <2>3. \A s \in Sku \ new : ids'[s] > 0 <=> s \in Present
    BY <1>8 DEF Present
  <2> QED BY <1>3, <1>5, <2>1, <2>2, <2>3
<1>14. IdsInv'
  <2>1. ASSUME NEW s \in Present', NEW t \in Present', ids'[s] = ids'[t], s # t PROVE FALSE
    <3>1. s \in Sku /\ t \in Sku /\ s \in Nat /\ t \in Nat
      BY <1>3, <1>5, <1>13
    <3>2. CASE s \in new /\ t \in new
      <4>1. s < t \/ t < s
        BY <2>1, <3>1
      <4>2. Cardinality(To(s)) # Cardinality(To(t))
        BY <1>7, <3>2, <4>1
      <4> QED BY <1>3, <1>6, <1>8, <2>1, <3>2, <4>2
    <3>3. CASE s \notin new /\ t \notin new
      BY <1>1, <1>8, <1>13, <2>1, <3>1, <3>3 DEF IdsInv
    <3>4. CASE s \in new /\ t \notin new
      BY <1>3, <1>10, <1>11, <2>1, <3>1, <3>4
    <3>5. CASE s \notin new /\ t \in new
      BY <1>3, <1>10, <1>11, <2>1, <3>1, <3>5
    <3> QED BY <3>2, <3>3, <3>4, <3>5
  <2>2. \A s \in Sku : ids'[s] < nextId'
    BY <1>10, <1>11
  <2> QED BY <2>1, <2>2 DEF IdsInv
<1>15. WalkInv'
  <2>1. ~walk.ended =>
          /\ walk.since \subseteq Present
          /\ \A s \in walk.since : ids[s] <= walk.at => s \in walk.got
    BY <1>1 DEF WalkInv
  <2>2. ~walk.ended =>
          /\ walk.since \subseteq Present'
          /\ \A s \in walk.since : ids'[s] <= walk.at => s \in walk.got
    BY <1>3, <1>8, <1>9, <1>13, <2>1
  <2>3. WalkMissesNothing'
    BY <1>1, <1>2 DEF WalkInv, WalkMissesNothing
  <2> QED BY <1>1, <1>2, <2>2, <2>3 DEF WalkInv
<1>16. rowsFailed' \in Nat
  <2>1. Named("valid") \ saved \in SUBSET Sku /\ Named("invalid") \in SUBSET Sku
    BY DEF Named
  <2>2. Cardinality(Named("valid") \ saved) \in Nat /\ Cardinality(Named("invalid")) \in Nat
    BY <1>3, <2>1, FS_Subset, FS_CardinalityType
  <2> QED BY <1>4, <2>2
<1>17. TypeOK'
  BY <1>1, <1>2, <1>12, <1>16 DEF TypeOK, Ended
<1>18. PhaseInv'
  BY <1>1, <1>2 DEF PhaseInv
<1>19. DeletesTheMissing'
  BY <1>1, <1>2
     DEF TypeOK, DeletesTheMissing, SourceKept, QuietIsExact, DeletedAreGone, OutcomeSplits, Sent
<1> QED BY <1>14, <1>15, <1>17, <1>18, <1>19 DEF IInv

\* A walk that begins now is sound: nothing was there before it to miss.
LEMMA NewWalkIsSound ==
  ASSUME TypeOK, IdsInv, NEW by \in {"pages", "index"},
         walk' = NewWalk(by), UNCHANGED ids
  PROVE  /\ walk' \in [by: {"pages", "index"}, at: Nat, got: SUBSET Sku, ended: BOOLEAN,
                       since: SUBSET Sku, shrunk: BOOLEAN]
         /\ walk'.by = by /\ ~walk'.ended /\ ~walk'.shrunk /\ walk'.got = {}
         /\ walk'.since = Present /\ Present' = Present
         /\ WalkInv'
<1>1. /\ Present \in SUBSET Sku /\ \A s \in Sku : ids[s] \in Nat
      /\ PageSize \in Nat
  BY StoreTypes
<1>2. Present' = Present /\ \A s : Place(Present, s)' = Place(Present, s)
  BY DEF Present, Place
<1>3. /\ walk'.by = by /\ walk'.at = 0 /\ walk'.got = {} /\ ~walk'.ended
      /\ walk'.since = Present /\ ~walk'.shrunk
      /\ walk' \in [by: {"pages", "index"}, at: Nat, got: SUBSET Sku, ended: BOOLEAN,
                    since: SUBSET Sku, shrunk: BOOLEAN]
  BY <1>1 DEF NewWalk
<1>4. Read' = 0
  BY <1>1, <1>3 DEF Read
<1>5. \A s \in Present : ids[s] > 0 /\ ids[s] \in Nat /\ ids'[s] = ids[s]
  BY <1>1 DEF Present
<1>6. \A s \in Present : ~(Place(Present, s) <= 0)
  <2> SUFFICES ASSUME NEW s \in Present PROVE ~(Place(Present, s) <= 0)
    OBVIOUS
  <2>1. Cardinality(Present) \in Nat /\ Place(Present, s) \in 1 .. Cardinality(Present)
    BY Places
  <2> QED BY <2>1
<1>7. (\A s \in walk.since : ~(ids[s] <= walk.at))'
  BY <1>3, <1>5
<1>8. (\A s \in walk.since : ~(Place(Present, s) <= Read))'
  BY <1>2, <1>3, <1>4, <1>6
<1>9. (walk.since \subseteq Present)'
  BY <1>2, <1>3
<1>10. WalkInv'
  BY <1>3, <1>7, <1>8, <1>9 DEF WalkInv, WalkMissesNothing
<1> QED BY <1>2, <1>3, <1>10

LEMMA CheckRatioStep == IInv /\ CheckRatio => IInv'
<1> SUFFICES ASSUME IInv, CheckRatio PROVE IInv'
  OBVIOUS
<1>1. /\ TypeOK /\ IdsInv /\ WalkInv /\ PhaseInv /\ pc = "check"
      /\ walk.by = "index" /\ candidates = {} /\ (index # NoIndex => walk.ended)
      /\ pc' = (IF strict /\ rowsFailed > 0 THEN "ratio" ELSE IF Lists THEN "list" ELSE "candidates")
      /\ walk' = IF pc' = "list" THEN NewWalk(IF offered /\ ~scope THEN "index" ELSE "pages") ELSE walk
      /\ UNCHANGED <<inputs, store, index, outcome>>
  BY DEF CheckRatio, IInv, PhaseInv, Lists
<1>2. UNCHANGED <<mode, scope, offered, require, strict, source, ids, nextId, foreign, quiet,
                  index, rowsFailed, candidates, deleted, failed>>
  BY <1>1 DEF inputs, store, outcome
<1>3. Present' = Present /\ IdsInv' /\ Lists' = Lists
  BY <1>1, <1>2 DEF Present, IdsInv, Lists
<1>4. /\ walk' \in [by: {"pages", "index"}, at: Nat, got: SUBSET Sku, ended: BOOLEAN,
                    since: SUBSET Sku, shrunk: BOOLEAN]
      /\ WalkInv' /\ pc' \in {"ratio", "list", "candidates"}
      /\ pc' = "list" => Lists /\ walk'.since = Present /\ ~walk'.shrunk /\ walk'.got = {}
      /\ pc' = "candidates" => ~Lists /\ walk'.ended
  <2>1. CASE pc' = "list"
    <3> DEFINE by == IF offered /\ ~scope THEN "index" ELSE "pages"
    <3>1. by \in {"pages", "index"} /\ walk' = NewWalk(by)
      BY <1>1, <2>1
    <3>2. UNCHANGED ids
      BY <1>2
    <3> HIDE DEF by
    <3>3. /\ walk' \in [by: {"pages", "index"}, at: Nat, got: SUBSET Sku, ended: BOOLEAN,
                        since: SUBSET Sku, shrunk: BOOLEAN]
          /\ ~walk'.shrunk /\ walk'.got = {} /\ walk'.since = Present /\ WalkInv'
      BY <1>1, <3>1, <3>2, NewWalkIsSound
    <3>4. Lists
      BY <1>1, <2>1
    <3> QED BY <2>1, <3>3, <3>4
  <2>2. CASE pc' # "list"
    <3>1. walk' = walk /\ pc' \in {"ratio", "candidates"}
      BY <1>1, <2>2
    <3>2. WalkInv'
      BY <1>1, <1>2, <3>1 DEF WalkInv, WalkMissesNothing, Place, Read, Present
    <3>3. pc' = "candidates" => ~Lists
      BY <1>1
    <3>4. ~Lists => walk.ended
      BY <1>1 DEF Lists
    <3> QED BY <1>1, <3>1, <3>2, <3>3, <3>4 DEF TypeOK
  <2> QED BY <2>1, <2>2
<1>5. TypeOK'
  BY <1>1, <1>2, <1>4 DEF TypeOK, Ended
<1>6. PhaseInv'
  BY <1>1, <1>2, <1>3, <1>4 DEF PhaseInv
<1>7. DeletesTheMissing'
  BY <1>1, <1>2, <1>4
     DEF TypeOK, DeletesTheMissing, SourceKept, QuietIsExact, DeletedAreGone, OutcomeSplits, Sent
<1> QED BY <1>3, <1>4, <1>5, <1>6, <1>7 DEF IInv

LEMMA ListStep == IInv /\ List => IInv'
<1> SUFFICES ASSUME IInv, List PROVE IInv'
  OBVIOUS
<1>1. /\ TypeOK /\ IdsInv /\ WalkInv /\ PhaseInv /\ pc = "list" /\ ~walk.ended /\ WalkOn
      /\ candidates = {} /\ Lists
      /\ (quiet => walk.since = Present /\ ~walk.shrunk /\ walk.got \subseteq Present)
      /\ pc' = (IF walk'.ended THEN "candidates" ELSE pc)
      /\ UNCHANGED <<inputs, store, index, outcome>>
  BY DEF List, IInv, PhaseInv
<1>2. UNCHANGED <<mode, scope, offered, require, strict, source, ids, nextId, foreign, quiet,
                  index, rowsFailed, candidates, deleted, failed>>
  BY <1>1 DEF inputs, store, outcome
<1>3. Present' = Present /\ IdsInv' /\ Lists' = Lists
  BY <1>1, <1>2 DEF Present, IdsInv, Lists
<1>4. /\ walk' \in [by: {"pages", "index"}, at: Nat, got: SUBSET Sku, ended: BOOLEAN,
                    since: SUBSET Sku, shrunk: BOOLEAN]
      /\ walk'.since = walk.since /\ walk'.shrunk = walk.shrunk
      /\ walk'.got = walk.got \cup Page /\ Page \subseteq Present /\ WalkInv'
  <2>1. UNCHANGED ids
    BY <1>2
  <2> QED BY <1>1, <2>1, WalkOnEffect
<1>5. /\ pc' \in {"list", "candidates"} /\ (pc' = "candidates" => walk'.ended)
      /\ quiet => walk'.since = Present' /\ ~walk'.shrunk /\ walk'.got \subseteq Present'
  BY <1>1, <1>3, <1>4
<1>6. TypeOK'
  BY <1>1, <1>2, <1>4, <1>5 DEF TypeOK, Ended
<1>7. PhaseInv'
  BY <1>1, <1>2, <1>3, <1>5 DEF PhaseInv
<1>8. DeletesTheMissing'
  BY <1>1, <1>2, <1>5
     DEF TypeOK, DeletesTheMissing, SourceKept, QuietIsExact, DeletedAreGone, OutcomeSplits, Sent
<1> QED BY <1>3, <1>4, <1>6, <1>7, <1>8 DEF IInv

LEMMA ListFailsStep == IInv /\ ListFails => IInv'
<1> SUFFICES ASSUME IInv, ListFails PROVE IInv'
  OBVIOUS
<1>1. /\ TypeOK /\ IdsInv /\ WalkInv /\ PhaseInv /\ pc = "list" /\ candidates = {} /\ Lists
      /\ \/ pc' = "bridge" /\ UNCHANGED walk
         \/ walk' = NewWalk("pages") /\ UNCHANGED pc
      /\ UNCHANGED <<inputs, store, index, outcome>>
  BY DEF ListFails, IInv, PhaseInv
<1>2. UNCHANGED <<mode, scope, offered, require, strict, source, ids, nextId, foreign, quiet,
                  index, rowsFailed, candidates, deleted, failed>>
  BY <1>1 DEF inputs, store, outcome
<1>3. Present' = Present /\ IdsInv' /\ Lists' = Lists
  BY <1>1, <1>2 DEF Present, IdsInv, Lists
<1>4. /\ walk' \in [by: {"pages", "index"}, at: Nat, got: SUBSET Sku, ended: BOOLEAN,
                    since: SUBSET Sku, shrunk: BOOLEAN]
      /\ WalkInv' /\ pc' \in {"bridge", "list"}
      /\ pc' = "list" => walk'.since = Present /\ ~walk'.shrunk /\ walk'.got = {}
  <2>1. CASE pc' = "bridge" /\ UNCHANGED walk
    <3>1. WalkInv'
      BY <1>1, <1>2, <2>1 DEF WalkInv, WalkMissesNothing, Place, Read, Present
    <3> QED BY <1>1, <2>1, <3>1 DEF TypeOK
  <2>2. CASE walk' = NewWalk("pages") /\ UNCHANGED pc
    <3>1. UNCHANGED ids
      BY <1>2
    <3>2. "pages" \in {"pages", "index"}
      OBVIOUS
    <3> QED BY <1>1, <2>2, <3>1, <3>2, NewWalkIsSound
  <2> QED BY <1>1, <2>1, <2>2
<1>5. TypeOK'
  BY <1>1, <1>2, <1>4 DEF TypeOK, Ended
<1>6. PhaseInv'
  BY <1>1, <1>2, <1>3, <1>4 DEF PhaseInv
<1>7. DeletesTheMissing'
  BY <1>1, <1>2, <1>4
     DEF TypeOK, DeletesTheMissing, SourceKept, QuietIsExact, DeletedAreGone, OutcomeSplits, Sent
<1> QED BY <1>3, <1>4, <1>5, <1>6, <1>7 DEF IInv

LEMMA CandidatesStep == IInv /\ Candidates => IInv'
<1> SUFFICES ASSUME IInv, Candidates PROVE IInv'
  OBVIOUS
<1>1. /\ TypeOK /\ IdsInv /\ WalkInv /\ PhaseInv /\ pc = "candidates" /\ candidates = {}
      /\ walk.ended
      /\ (quiet /\ Lists => walk.since = Present /\ ~walk.shrunk /\ walk.got \subseteq Present)
      /\ candidates' = MissingSkus
      /\ pc' = (IF mode = "execute" THEN "delete" ELSE "done")
      /\ UNCHANGED <<inputs, store, index, walk, rowsFailed, deleted, failed>>
  BY DEF Candidates, IInv, PhaseInv
<1>2. UNCHANGED <<mode, scope, offered, require, strict, source, ids, nextId, foreign, quiet,
                  index, walk, rowsFailed, deleted, failed>>
  BY <1>1 DEF inputs, store
<1>3. Present' = Present /\ IdsInv'
  BY <1>1, <1>2 DEF Present, IdsInv
<1>4. WalkInv'
  BY <1>1, <1>2 DEF WalkInv, WalkMissesNothing
<1>5. deleted = {} /\ failed = {} /\ deleted' = {} /\ failed' = {} /\ Sent' = {}
  BY <1>1, <1>2 DEF TypeOK, Sent
<1>6. Listing \in SUBSET Sku /\ MissingSkus \in SUBSET Listing
  <2>1. walk.got \in SUBSET Sku /\ (index # NoIndex => index \in SUBSET Sku)
    BY <1>1 DEF TypeOK
  <2> QED BY <2>1 DEF Listing, MissingSkus
<1>7. TypeOK'
  <2>1. candidates' \in SUBSET Sku /\ deleted' \in SUBSET candidates' /\ failed' \in SUBSET candidates'
    BY <1>1, <1>5, <1>6
  <2>2. pc' \in {"snapshot", "import", "check", "list", "candidates", "delete"} \cup Ended
    BY <1>1 DEF Ended
  <2> QED BY <1>1, <1>2, <2>1, <2>2 DEF TypeOK
<1>8. PhaseInv'
  BY <1>1, <1>2 DEF PhaseInv
<1>9. SourceKept'
  BY <1>1, <1>2, <1>5 DEF SourceKept, MissingSkus, Sent
<1>10. QuietIsExact'
  <2> SUFFICES ASSUME quiet, index = NoIndex \/ scope
               PROVE  MissingSkus = {s \in Present : (scope => s \in InScope)
                                       /\ source[s] \in {"unmapped", "absent"}}
    BY <1>1, <1>2, <1>3 DEF QuietIsExact
  <2>1. Lists /\ Listing = walk.got
    BY DEF Lists, Listing
  <2>2. walk.since \subseteq walk.got
    BY <1>1, <2>1 DEF WalkInv, WalkMissesNothing
  <2>3. Listing = Present
    BY <1>1, <2>1, <2>2
  <2>4. \A s \in Present : source[s] \notin {"valid", "invalid"} <=> source[s] \in {"unmapped", "absent"}
    BY <1>1, StoreTypes DEF TypeOK
  <2> QED BY <2>3, <2>4 DEF MissingSkus
<1>11. DeletedAreGone' /\ OutcomeSplits'
  BY <1>1, <1>2, <1>5 DEF DeletedAreGone, OutcomeSplits
<1> QED BY <1>3, <1>4, <1>7, <1>8, <1>9, <1>10, <1>11 DEF IInv, DeletesTheMissing

\* A delete goes to a candidate that none was sent for.
LEMMA DeleteOneStep == IInv /\ DeleteOne => IInv'
<1> SUFFICES ASSUME IInv, DeleteOne PROVE IInv'
  OBVIOUS
<1>1. /\ TypeOK /\ IdsInv /\ WalkInv /\ PhaseInv /\ DeletesTheMissing
      /\ pc = "delete" /\ Sent # candidates /\ walk.ended
      /\ UNCHANGED <<inputs, nextId, foreign, quiet, pc, index, walk, rowsFailed, candidates>>
  BY DEF DeleteOne, IInv, PhaseInv
<1>2. UNCHANGED <<mode, scope, offered, require, strict, source, nextId, foreign, quiet,
                  pc, index, walk, rowsFailed, candidates>>
  BY <1>1 DEF inputs
<1>3. /\ candidates \in SUBSET Sku /\ deleted \in SUBSET candidates /\ failed \in SUBSET candidates
      /\ ids \in [Sku -> Nat] /\ nextId \in Nat \ {0}
  BY <1>1, Zenon DEF TypeOK
<1>4. NextSku \in candidates /\ NextSku \notin Sent
  <2>1. candidates \ Sent \in SUBSET Nat /\ candidates \ Sent # {}
    <3>1. Sku \subseteq Nat
      BY StoreTypes, <1>1 DEF Sku
    <3> QED BY <1>1, <1>3, <3>1 DEF Sent
  <2>2. Min(candidates \ Sent) \in candidates \ Sent
    BY <2>1, MinIsLeast
  <2> QED BY <2>2 DEF NextSku
<1>5. /\ ids' = ids \/ ids' = [ids EXCEPT ![NextSku] = 0]
      /\ \/ deleted' = deleted \cup {NextSku} /\ failed' = failed /\ ids' = [ids EXCEPT ![NextSku] = 0]
         \/ failed' = failed \cup {NextSku} /\ deleted' = deleted
  BY DEF DeleteOne
<1> HIDE DEF NextSku
<1>6. /\ ids' \in [Sku -> Nat] /\ \A s \in Sku : ids'[s] = 0 \/ ids'[s] = ids[s]
      /\ deleted' = deleted \/ ids'[NextSku] = 0
  BY <1>3, <1>4, <1>5
<1>7. /\ deleted' \in SUBSET candidates' /\ failed' \in SUBSET candidates' /\ Sent' # {}
      /\ deleted' \cap failed' = {} /\ Sent' \in SUBSET candidates
      /\ \A s \in deleted' : s \in deleted \/ (s = NextSku /\ deleted' # deleted)
  <2>1. deleted \cap failed = {}
    BY <1>1 DEF DeletesTheMissing, OutcomeSplits
  <2> QED BY <1>2, <1>3, <1>4, <1>5, <2>1 DEF Sent
<1>8. TypeOK'
  <2>1. candidates' \in SUBSET Sku
    BY <1>2, <1>3
  <2>2. /\ mode' \in {"preview", "execute"} /\ scope' \in BOOLEAN /\ strict' \in BOOLEAN
        /\ offered' \in BOOLEAN /\ require' \in BOOLEAN
        /\ source' \in [Sku -> {"valid", "invalid", "unmapped", "absent"}]
        /\ nextId' \in Nat \ {0} /\ foreign' \in Nat /\ quiet' \in BOOLEAN
        /\ rowsFailed' \in Nat
    BY <1>1, <1>2, Zenon DEF TypeOK
  <2>3. /\ pc' \in {"snapshot", "import", "check", "list", "candidates", "delete"} \cup Ended
        /\ index' \in (SUBSET Sku) \cup {NoIndex}
        /\ walk' \in [by: {"pages", "index"}, at: Nat, got: SUBSET Sku, ended: BOOLEAN,
                      since: SUBSET Sku, shrunk: BOOLEAN]
    BY <1>1, <1>2 DEF TypeOK
  <2> QED BY <1>6, <1>7, <2>1, <2>2, <2>3, Zenon DEF TypeOK
<1>9. IdsInv'
  <2>1. \A s \in Sku : ids'[s] < nextId'
    BY <1>1, <1>2, <1>3, <1>6 DEF IdsInv
  <2>2. \A s \in Present' : s \in Present /\ ids'[s] = ids[s]
    BY <1>6 DEF Present
  <2> QED BY <1>1, <2>1, <2>2 DEF IdsInv
<1>10. WalkInv'
  BY <1>1, <1>2 DEF WalkInv, WalkMissesNothing
<1>11. PhaseInv'
  BY <1>1, <1>2 DEF PhaseInv
<1>12. SourceKept'
  <2>1. \A s \in candidates : source[s] \notin {"valid", "invalid"} /\ (scope => s \in InScope)
    BY <1>1 DEF DeletesTheMissing, SourceKept
  <2> QED BY <1>2, <1>7, <2>1 DEF SourceKept
<1>13. QuietIsExact'
  BY <1>7 DEF QuietIsExact
<1>14. DeletedAreGone'
  <2>1. \A s \in deleted : ids[s] # 0 => ~quiet
    BY <1>1 DEF DeletesTheMissing, DeletedAreGone
  <2>2. \A s \in deleted' : ids'[s] # 0 => ~quiet
    BY <1>3, <1>6, <1>7, <2>1
  <2> QED BY <1>2, <2>2 DEF DeletedAreGone
<1>15. OutcomeSplits'
  BY <1>1, <1>2, <1>7 DEF OutcomeSplits
<1> QED BY <1>8, <1>9, <1>10, <1>11, <1>12, <1>13, <1>14, <1>15 DEF IInv, DeletesTheMissing

LEMMA ReturnStep == IInv /\ Return => IInv'
<1> SUFFICES ASSUME IInv, Return PROVE IInv'
  OBVIOUS
<1>1. /\ TypeOK /\ IdsInv /\ WalkInv /\ PhaseInv /\ DeletesTheMissing
      /\ pc = "delete" /\ Sent = candidates /\ pc' = "done" /\ walk.ended
      /\ UNCHANGED <<inputs, store, index, walk, outcome>>
  BY DEF Return, IInv, PhaseInv
<1>2. UNCHANGED <<mode, scope, offered, require, strict, source, ids, nextId, foreign, quiet,
                  index, walk, rowsFailed, candidates, deleted, failed>>
  BY <1>1 DEF inputs, store, outcome
<1>3. TypeOK'
  BY <1>1, <1>2 DEF TypeOK, Ended
<1>4. IdsInv' /\ WalkInv'
  BY <1>1, <1>2 DEF IdsInv, WalkInv, WalkMissesNothing, Present
<1>5. PhaseInv'
  BY <1>1, <1>2 DEF PhaseInv
<1>6. DeletesTheMissing'
  BY <1>1, <1>2
     DEF DeletesTheMissing, SourceKept, QuietIsExact, DeletedAreGone, OutcomeSplits, Sent
<1> QED BY <1>3, <1>4, <1>5, <1>6 DEF IInv

---------------------------------------------------------------------------
(* The theorems. *)

\* The invariant holds whatever other clients do to the catalog meanwhile.
THEOREM Invariance == Spec => []IInv
<1>1. Init => IInv
  BY InitIInv
<1>2. IInv /\ [Next]_vars => IInv'
  <2> SUFFICES ASSUME IInv, [Next]_vars PROVE IInv'
    OBVIOUS
  <2>1. CASE SnapshotIndex
    BY <2>1, SnapshotIndexStep
  <2>2. CASE Import
    BY <2>2, ImportStep
  <2>3. CASE CheckRatio
    BY <2>3, CheckRatioStep
  <2>4. CASE List
    BY <2>4, ListStep
  <2>5. CASE ListFails
    BY <2>5, ListFailsStep
  <2>6. CASE Candidates
    BY <2>6, CandidatesStep
  <2>7. CASE DeleteOne
    BY <2>7, DeleteOneStep
  <2>8. CASE Return
    BY <2>8, ReturnStep
  <2>9. CASE Foreign
    BY <2>9, ForeignStep
  <2>10. CASE UNCHANGED vars
    <3>1. UNCHANGED <<mode, scope, offered, require, strict, source, ids, nextId, foreign, quiet,
                      pc, index, walk, rowsFailed, candidates, deleted, failed>>
      BY <2>10 DEF vars, inputs, store, outcome
    <3>2. TypeOK'
      BY <3>1 DEF IInv, TypeOK
    <3>3. IdsInv' /\ WalkInv' /\ PhaseInv'
      BY <3>1 DEF IInv, IdsInv, WalkInv, WalkMissesNothing, PhaseInv, Lists, Place, Read, Present
    <3>4. DeletesTheMissing'
      BY <3>1 DEF IInv, DeletesTheMissing, SourceKept, QuietIsExact, DeletedAreGone,
                  OutcomeSplits, Sent, Present
    <3> QED BY <3>2, <3>3, <3>4 DEF IInv
  <2> QED BY <2>1, <2>2, <2>3, <2>4, <2>5, <2>6, <2>7, <2>8, <2>9, <2>10 DEF Next, Step
<1> QED BY <1>1, <1>2, PTL DEF Spec

\* import_products(delete_missing=...) deletes no product that has a row or is
\* out of the scope, all the missing ones when the catalog stands still, and
\* reports each delete as it went (_delete_missing_products, guard_execute).
THEOREM MissingAreDeleted == Spec => []DeletesTheMissing
<1>1. IInv => DeletesTheMissing
  BY DEF IInv
<1> QED BY <1>1, Invariance, PTL

\* product_index misses no product that was there all along, get_paginated
\* none unless another client deletes one meanwhile (resource.py:178-207).
THEOREM WalksMissNothing == Spec => []WalkMissesNothing
<1>1. IInv => WalkMissesNothing
  BY DEF IInv, WalkInv
<1> QED BY <1>1, Invariance, PTL

=============================================================================
