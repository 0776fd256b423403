---------------------------- MODULE MCRowsProofs ----------------------------
(***************************************************************************)
(* Proofs about the parts of MCRows, for every value of their constants.   *)
(* A part takes its steps alone, so each has its own invariant.            *)
(***************************************************************************)
EXTENDS MCRows, Integers, Sequences, FiniteSetTheorems, WellFoundedInduction, TLAPS

---------------------------------------------------------------------------
(* Sets of numbers. *)

\* The provers take the operators of an instance for others than those of the
\* modules it extends.
LEMMA UploadSets ==
  /\ \A S : Upload!Cardinality(S) = Cardinality(S)
  /\ \A S : Upload!IsFiniteSet(S) = IsFiniteSet(S)
BY DEF Upload!Cardinality, Cardinality, Upload!IsFiniteSet, IsFiniteSet

\* Sums that stay.
LEMMA Sums ==
  /\ \A p, q \in Nat : p + (q - p) = q
  /\ \A a, b, c \in Nat : a + (b + c) = (a + c) + b /\ (a + b) + c = (a + c) + b
OBVIOUS

\* The numbers of a finite set have places 1, 2, ... in their order.
LEMMA PlacesOfNumbers ==
  ASSUME NEW S \in SUBSET Nat, IsFiniteSet(S)
  PROVE  /\ Cardinality(S) \in Nat
         /\ \A i \in S : Cardinality({j \in S : j <= i}) \in 1 .. Cardinality(S)
         /\ \A i, j \in S : Cardinality({k \in S : k <= i}) = Cardinality({k \in S : k <= j}) => i = j
         /\ \A n \in 1 .. Cardinality(S) : \E i \in S : Cardinality({j \in S : j <= i}) = n
<1> DEFINE n == Cardinality(S)
           To(i) == {j \in S : j <= i}
           place == [i \in S |-> Cardinality(To(i))]
<1>1. n \in Nat
  BY FS_CardinalityType
<1>2. ASSUME NEW i \in S
      PROVE  IsFiniteSet(To(i)) /\ Cardinality(To(i)) \in 1 .. n
  <2>1. To(i) \in SUBSET S /\ i \in To(i)
    OBVIOUS
  <2> HIDE DEF To
  <2>2. IsFiniteSet(To(i)) /\ Cardinality(To(i)) <= n
    BY <2>1, FS_Subset
  <2>3. Cardinality(To(i)) \in Nat /\ Cardinality(To(i)) # 0
    BY <2>1, <2>2, FS_CardinalityType, FS_EmptySet
  <2> QED BY <1>1, <2>2, <2>3
<1>3. ASSUME NEW i \in S, NEW j \in S, i < j
      PROVE  Cardinality(To(i)) # Cardinality(To(j))
  <2>1. To(i) \in SUBSET To(j) /\ j \in To(j) /\ j \notin To(i)
    <3>1. i \in Nat /\ j \in Nat /\ \A k \in S : k \in Nat
      OBVIOUS
    <3>2. ~(j <= i) /\ j <= j /\ \A k \in S : k <= i => k <= j
      BY <1>3, <3>1
    <3> QED BY <3>2
  <2>2. IsFiniteSet(To(j))
    BY <1>2
  <2> HIDE DEF To
  <2> QED BY <2>1, <2>2, FS_Subset
<1>4. \A i, j \in S : Cardinality(To(i)) = Cardinality(To(j)) => i = j
  <2> SUFFICES ASSUME NEW i \in S, NEW j \in S, i # j
               PROVE  Cardinality(To(i)) # Cardinality(To(j))
    OBVIOUS
  <2>1. i < j \/ j < i
    OBVIOUS
  <2> HIDE DEF To
  <2> QED BY <1>3, <2>1
<1> HIDE DEF To
<1>5. place \in Injection(S, 1 .. n)
  BY <1>2, <1>4 DEF Injection, IsInjective
<1>6. place \in Surjection(S, 1 .. n)
  <2>1. IsFiniteSet(1 .. n) /\ Cardinality(1 .. n) = n
    BY <1>1, FS_Interval
  <2> QED BY <1>5, <2>1, FS_Injection
<1>7. \A k \in 1 .. n : \E i \in S : Cardinality(To(i)) = k
  BY <1>6 DEF Surjection
<1> QED BY <1>1, <1>2, <1>4, <1>7 DEF To

---------------------------------------------------------------------------
(* RowUpload *)

\* The lesser of two numbers.
LEMMA UploadMin ==
  ASSUME NEW a \in Nat, NEW b \in Nat
  PROVE  Upload!Min({a, b}) = IF a <= b THEN a ELSE b
<1>1. CASE a <= b
  <2>1. \E x \in {a, b} : \A y \in {a, b} : x <= y
    BY <1>1
  <2> QED BY <1>1, <2>1 DEF Upload!Min
<1>2. CASE ~(a <= b)
  BY <1>2 DEF Upload!Min
<1> QED BY <1>1, <1>2

\* Where the upload is: rows before are sent, the chunk in hand comes next.
LEMMA UploadPast ==
  ASSUME Upload!TypeOK
  PROVE  /\ N \in Nat /\ Upload!Size \in Nat \ {0} /\ chunk \in Nat
         /\ chunk * Upload!Size \in Nat
         /\ Upload!Past \in 0 .. N
         /\ Upload!More <=> Upload!Past < N
         /\ Upload!More => Upload!First = Upload!Past + 1
<1>1. N \in Nat /\ Upload!Size \in Nat \ {0} /\ chunk \in Nat
  BY RowsAssumption DEF Upload!UploadAssumption, Upload!TypeOK, Upload!Size
<1>2. chunk * Upload!Size \in Nat
  BY <1>1
<1>3. Upload!Past = IF chunk * Upload!Size <= N THEN chunk * Upload!Size ELSE N
  BY <1>1, <1>2, UploadMin DEF Upload!Past
<1> QED BY <1>1, <1>2, <1>3 DEF Upload!More, Upload!First

RowsOf(c, size) == (c * size + 1) .. Upload!Min({(c + 1) * size, N})

\* The chunk in hand is what lies between here and where the upload is next.
LEMMA UploadNext ==
  ASSUME Upload!TypeOK, Upload!More, chunk' = chunk + 1, UNCHANGED <<route, chunkSize>>
  PROVE  /\ Upload!InHand = (Upload!Past + 1) .. Upload!Past'
         /\ Upload!Past < Upload!Past' /\ Upload!Past' \in 0 .. N
         /\ Upload!InHand = RowsOf(chunk, Upload!Size) /\ Upload!Size' = Upload!Size
         /\ IsFiniteSet(Upload!InHand)
         /\ Cardinality(Upload!InHand) = Upload!Past' - Upload!Past
<1> DEFINE a == chunk * Upload!Size
<1>1. /\ N \in Nat /\ Upload!Size \in Nat \ {0} /\ chunk \in Nat /\ a \in Nat
      /\ Upload!Past \in 0 .. N /\ Upload!Past < N /\ Upload!First = Upload!Past + 1
  BY UploadPast
<1>2. Upload!Size' = Upload!Size
  BY DEF Upload!Size
<1>3. (chunk + 1) * Upload!Size = a + Upload!Size
  BY <1>1
<1>4. a = Upload!Past
  BY <1>1 DEF Upload!First
<1>5. Upload!Past' = Upload!Min({a + Upload!Size, N})
  BY <1>2, <1>3 DEF Upload!Past
<1>6. Upload!InHand = (a + 1) .. Upload!Min({a + Upload!Size, N})
  BY <1>3 DEF Upload!InHand, Upload!Chunk
<1>7. Upload!Min({a + Upload!Size, N}) = IF a + Upload!Size <= N THEN a + Upload!Size ELSE N
  <2> HIDE DEF a
  <2> QED BY <1>1, UploadMin
<1>8. Upload!Past < Upload!Past' /\ Upload!Past' \in 0 .. N
  <2> HIDE DEF a
  <2> QED BY <1>1, <1>4, <1>5, <1>7
<1>9. Upload!InHand = (Upload!Past + 1) .. Upload!Past'
  BY <1>4, <1>5, <1>6
<1>10. IsFiniteSet(Upload!InHand) /\ Cardinality(Upload!InHand) = Upload!Past' - Upload!Past
  BY <1>1, <1>8, <1>9, FS_Interval
<1>11. Upload!InHand = RowsOf(chunk, Upload!Size)
  BY DEF Upload!InHand, Upload!Chunk, RowsOf
<1> QED BY <1>2, <1>8, <1>9, <1>10, <1>11

\* The rows that failures E name, and that they name each once.
PlacesIn(E) == UNION {{<<e, k>> : k \in DOMAIN E[e].rows} : e \in DOMAIN E}
NamedIn(E) == {E[p[1]].rows[p[2]] : p \in PlacesIn(E)}
Once(E) == \A e, g \in DOMAIN E : \A k \in DOMAIN E[e].rows, m \in DOMAIN E[g].rows :
             E[e].rows[k] = E[g].rows[m] => e = g /\ k = m

LEMMA NamedInFacts ==
  ASSUME NEW E
  PROVE  /\ \A p : p \in PlacesIn(E) <=>
              \E e \in DOMAIN E : \E k \in DOMAIN E[e].rows : p = <<e, k>>
         /\ \A r : r \in NamedIn(E) <=>
              \E e \in DOMAIN E : \E k \in DOMAIN E[e].rows : r = E[e].rows[k]
         /\ Once(E) <=> \A p, q \in PlacesIn(E) : E[p[1]].rows[p[2]] = E[q[1]].rows[q[2]] => p = q
<1>1. \A p : p \in PlacesIn(E) <=>
        \E e \in DOMAIN E : \E k \in DOMAIN E[e].rows : p = <<e, k>>
  BY DEF PlacesIn
<1>2. ASSUME NEW p \in PlacesIn(E)
      PROVE  p[1] \in DOMAIN E /\ p[2] \in DOMAIN E[p[1]].rows /\ p = <<p[1], p[2]>>
  <2>1. PICK e \in DOMAIN E : \E k \in DOMAIN E[e].rows : p = <<e, k>>
    BY <1>1
  <2>2. PICK k \in DOMAIN E[e].rows : p = <<e, k>>
    BY <2>1
  <2>3. p[1] = e /\ p[2] = k
    BY <2>2
  <2> QED BY <2>2, <2>3
<1>3. ASSUME NEW e \in DOMAIN E, NEW k \in DOMAIN E[e].rows
      PROVE  <<e, k>> \in PlacesIn(E) /\ <<e, k>>[1] = e /\ <<e, k>>[2] = k
  BY <1>1
<1>4. \A r : r \in NamedIn(E) <=>
        \E e \in DOMAIN E : \E k \in DOMAIN E[e].rows : r = E[e].rows[k]
  <2>1. \A r : r \in NamedIn(E) <=> \E p \in PlacesIn(E) : r = E[p[1]].rows[p[2]]
    BY DEF NamedIn
  <2>2. ASSUME NEW r, NEW p \in PlacesIn(E), r = E[p[1]].rows[p[2]]
        PROVE  \E e \in DOMAIN E : \E k \in DOMAIN E[e].rows : r = E[e].rows[k]
    BY <1>2, <2>2
  <2>3. ASSUME NEW e \in DOMAIN E, NEW k \in DOMAIN E[e].rows
        PROVE  \E p \in PlacesIn(E) : E[e].rows[k] = E[p[1]].rows[p[2]]
    BY <1>3
  <2> QED BY <2>1, <2>2, <2>3
<1>5. ASSUME Once(E), NEW p \in PlacesIn(E), NEW q \in PlacesIn(E),
             E[p[1]].rows[p[2]] = E[q[1]].rows[q[2]]
      PROVE  p = q
  <2>1. p[1] = q[1] /\ p[2] = q[2]
    BY <1>2, <1>5 DEF Once
  <2> QED BY <1>2, <2>1
<1>6. ASSUME \A p, q \in PlacesIn(E) : E[p[1]].rows[p[2]] = E[q[1]].rows[q[2]] => p = q,
             NEW e \in DOMAIN E, NEW g \in DOMAIN E,
             NEW k \in DOMAIN E[e].rows, NEW m \in DOMAIN E[g].rows,
             E[e].rows[k] = E[g].rows[m]
      PROVE  e = g /\ k = m
  <2> DEFINE p == <<e, k>>
             q == <<g, m>>
  <2>1. /\ p \in PlacesIn(E) /\ p[1] = e /\ p[2] = k
        /\ q \in PlacesIn(E) /\ q[1] = g /\ q[2] = m
    BY <1>3, <1>6
  <2> HIDE DEF p, q
  <2>2. E[p[1]].rows[p[2]] = E[q[1]].rows[q[2]]
    BY <1>6, <2>1
  <2>3. p = q
    BY <1>6, <2>1, <2>2
  <2> QED BY <2>1, <2>3
<1> QED BY <1>1, <1>4, <1>5, <1>6 DEF Once

\* Failures after failures name the rows of both.
LEMMA NamedInBoth ==
  ASSUME NEW T, NEW E \in Seq(T), NEW F \in Seq(T)
  PROVE  /\ NamedIn(E \o F) = NamedIn(E) \cup NamedIn(F)
         /\ Once(E) /\ Once(F) /\ NamedIn(E) \cap NamedIn(F) = {} => Once(E \o F)
<1> DEFINE n == Len(E)
           G == E \o F
<1>1. /\ n \in Nat /\ Len(F) \in Nat /\ DOMAIN E = 1 .. n /\ DOMAIN F = 1 .. Len(F)
      /\ DOMAIN G = 1 .. (n + Len(F))
  OBVIOUS
<1>2. \A e \in DOMAIN G : \/ e \in DOMAIN E /\ G[e] = E[e]
                          \/ e - n \in DOMAIN F /\ G[e] = F[e - n] /\ e \notin DOMAIN E
  OBVIOUS
<1>3. \A e \in DOMAIN E : e \in DOMAIN G /\ G[e] = E[e]
  OBVIOUS
<1>4. \A f \in DOMAIN F : n + f \in DOMAIN G /\ G[n + f] = F[f]
  OBVIOUS
<1> HIDE DEF n, G
<1>5. ASSUME NEW r PROVE r \in NamedIn(G) <=> r \in NamedIn(E) \/ r \in NamedIn(F)
  <2>1. ASSUME r \in NamedIn(G) PROVE r \in NamedIn(E) \/ r \in NamedIn(F)
    <3>1. PICK e \in DOMAIN G : \E k \in DOMAIN G[e].rows : r = G[e].rows[k]
      BY <2>1, NamedInFacts
    <3>2. CASE e \in DOMAIN E /\ G[e] = E[e]
      BY <3>1, <3>2, NamedInFacts
    <3>3. CASE e - n \in DOMAIN F /\ G[e] = F[e - n]
      BY <3>1, <3>3, NamedInFacts
    <3> QED BY <1>2, <3>2, <3>3
  <2>2. ASSUME r \in NamedIn(E) PROVE r \in NamedIn(G)
    <3>1. PICK e \in DOMAIN E : \E k \in DOMAIN E[e].rows : r = E[e].rows[k]
      BY <2>2, NamedInFacts
    <3> QED BY <1>3, <3>1, NamedInFacts
  <2>3. ASSUME r \in NamedIn(F) PROVE r \in NamedIn(G)
    <3>1. PICK f \in DOMAIN F : \E k \in DOMAIN F[f].rows : r = F[f].rows[k]
      BY <2>3, NamedInFacts
    <3> QED BY <1>4, <3>1, NamedInFacts
  <2> QED BY <2>1, <2>2, <2>3
<1>6. ASSUME Once(E), Once(F), NamedIn(E) \cap NamedIn(F) = {},
             NEW e \in DOMAIN G, NEW g \in DOMAIN G,
             NEW k \in DOMAIN G[e].rows, NEW m \in DOMAIN G[g].rows,
             G[e].rows[k] = G[g].rows[m]
      PROVE  e = g /\ k = m
  <2>1. \A d \in DOMAIN E : \A l \in DOMAIN E[d].rows : E[d].rows[l] \in NamedIn(E)
    BY NamedInFacts
  <2>2. \A d \in DOMAIN F : \A l \in DOMAIN F[d].rows : F[d].rows[l] \in NamedIn(F)
    BY NamedInFacts
  <2>3. CASE e \in DOMAIN E /\ g \in DOMAIN E
    <3>1. G[e] = E[e] /\ G[g] = E[g]
      BY <1>3, <2>3
    <3> QED BY <1>6, <2>3, <3>1 DEF Once
  <2>4. CASE e \notin DOMAIN E /\ g \notin DOMAIN E
    <3>1. G[e] = F[e - n] /\ G[g] = F[g - n] /\ e - n \in DOMAIN F /\ g - n \in DOMAIN F
      BY <1>2, <2>4
    <3>2. e - n = g - n /\ k = m
      BY <1>6, <3>1 DEF Once
    <3> QED BY <1>1, <3>2
  <2>5. CASE e \in DOMAIN E /\ g \notin DOMAIN E
    <3>1. G[e] = E[e] /\ G[g] = F[g - n] /\ g - n \in DOMAIN F
      BY <1>2, <1>3, <2>5
    <3> QED BY <1>6, <2>1, <2>2, <2>5, <3>1
  <2>6. CASE e \notin DOMAIN E /\ g \in DOMAIN E
    <3>1. G[g] = E[g] /\ G[e] = F[e - n] /\ e - n \in DOMAIN F
      BY <1>2, <1>3, <2>6
    <3> QED BY <1>6, <2>1, <2>2, <2>6, <3>1
  <2> QED BY <2>3, <2>4, <2>5, <2>6
<1>7. NamedIn(G) = NamedIn(E) \cup NamedIn(F)
  BY <1>5
<1>8. Once(E) /\ Once(F) /\ NamedIn(E) \cap NamedIn(F) = {} => Once(G)
  BY <1>6 DEF Once
<1> QED BY <1>7, <1>8 DEF G

\* What NamedInv says of these.
LEMMA UploadNamed ==
  /\ Upload!Named = NamedIn(errors) /\ Upload!Named' = NamedIn(errors')
  /\ Upload!Places = PlacesIn(errors) /\ Upload!Places' = PlacesIn(errors')
  /\ Upload!NamedInv <=>
       /\ Once(errors)
       /\ IsFiniteSet(NamedIn(errors)) /\ Cardinality(NamedIn(errors)) = bad
       /\ NamedIn(errors) \subseteq 1 .. Upload!Past
       /\ \A e \in DOMAIN errors : \A k \in DOMAIN errors[e].rows :
            errors[e].rows[k] \in RowsOf(errors[e].chunk, Upload!Size)
  /\ Upload!NamedInv' <=>
       /\ Once(errors')
       /\ IsFiniteSet(NamedIn(errors')) /\ Cardinality(NamedIn(errors')) = bad'
       /\ NamedIn(errors') \subseteq 1 .. Upload!Past'
       /\ \A e \in DOMAIN errors' : \A k \in DOMAIN errors'[e].rows :
            errors'[e].rows[k] \in RowsOf(errors'[e].chunk, Upload!Size')
<1>1. /\ Upload!Named = NamedIn(errors) /\ Upload!Named' = NamedIn(errors')
      /\ Upload!Places = PlacesIn(errors) /\ Upload!Places' = PlacesIn(errors')
  BY DEF Upload!Named, Upload!Places, Upload!RowAt, NamedIn, PlacesIn
<1>2. \A S : /\ Upload!Range(S) = {S[k] : k \in DOMAIN S}
             /\ Upload!IsFiniteSet(S) = IsFiniteSet(S)
             /\ Upload!Cardinality(S) = Cardinality(S)
  BY UploadSets DEF Upload!Range
<1>3. /\ (\A p, q \in Upload!Places : Upload!RowAt(p) = Upload!RowAt(q) => p = q) <=> Once(errors)
      /\ (\A p, q \in Upload!Places : Upload!RowAt(p) = Upload!RowAt(q) => p = q)' <=> Once(errors')
  BY <1>1, NamedInFacts DEF Upload!RowAt
<1>4. (\A e \in DOMAIN errors : Upload!Range(errors[e].rows) \subseteq Upload!Chunk(errors[e].chunk))
        <=> \A e \in DOMAIN errors : \A k \in DOMAIN errors[e].rows :
              errors[e].rows[k] \in RowsOf(errors[e].chunk, Upload!Size)
  BY <1>2 DEF Upload!Chunk, RowsOf
<1>5. (\A e \in DOMAIN errors : Upload!Range(errors[e].rows) \subseteq Upload!Chunk(errors[e].chunk))'
        <=> \A e \in DOMAIN errors' : \A k \in DOMAIN errors'[e].rows :
              errors'[e].rows[k] \in RowsOf(errors'[e].chunk, Upload!Size')
  <2>1. (\A e \in DOMAIN errors : Upload!Range(errors[e].rows) \subseteq Upload!Chunk(errors[e].chunk))'
          <=> \A e \in DOMAIN errors' :
                Upload!Range(errors'[e].rows) \subseteq RowsOf(errors'[e].chunk, Upload!Size')
    BY DEF Upload!Chunk, RowsOf
  <2> QED BY <1>2, <2>1
<1>6. Upload!NamedInv <=>
        /\ Once(errors)
        /\ IsFiniteSet(NamedIn(errors)) /\ Cardinality(NamedIn(errors)) = bad
        /\ NamedIn(errors) \subseteq 1 .. Upload!Past
        /\ \A e \in DOMAIN errors : \A k \in DOMAIN errors[e].rows :
             errors[e].rows[k] \in RowsOf(errors[e].chunk, Upload!Size)
  BY <1>1, <1>2, <1>3, <1>4 DEF Upload!NamedInv
<1>7. Upload!NamedInv' <=>
        /\ Once(errors')
        /\ IsFiniteSet(NamedIn(errors')) /\ Cardinality(NamedIn(errors')) = bad'
        /\ NamedIn(errors') \subseteq 1 .. Upload!Past'
        /\ \A e \in DOMAIN errors' : \A k \in DOMAIN errors'[e].rows :
             errors'[e].rows[k] \in RowsOf(errors'[e].chunk, Upload!Size')
  BY <1>1, <1>2, <1>3, <1>5 DEF Upload!NamedInv
<1> QED BY <1>1, <1>6, <1>7

LEMMA UploadInit == Upload!Init => Upload!IInv
<1> SUFFICES ASSUME Upload!Init PROVE Upload!IInv
  OBVIOUS
<1>1. N \in Nat /\ MaxChunk \in Nat \ {0}
  BY RowsAssumption DEF Upload!UploadAssumption
<1>2. /\ route \in {"rows", "wrapped", "async"} /\ chunkSize \in 1 .. MaxChunk
      /\ chunk = 0 /\ saved = [r \in Upload!Row |-> 0] /\ uuids = 0
      /\ good = 0 /\ bad = 0 /\ errors = <<>> /\ pc = "send"
  BY DEF Upload!Init
<1>3. Upload!TypeOK
  BY <1>1, <1>2 DEF Upload!TypeOK
<1>4. Upload!Past = 0
  <2>1. Upload!Size \in Nat \ {0} /\ 0 * Upload!Size = 0
    BY <1>3, UploadPast
  <2> QED BY <1>1, <1>2, <2>1, UploadMin DEF Upload!Past
<1>5. NamedIn(errors) = {} /\ Once(errors)
  BY <1>2, NamedInFacts DEF Once
<1>6. Upload!NamedInv
  <2>1. IsFiniteSet(NamedIn(errors)) /\ Cardinality(NamedIn(errors)) = bad
    BY <1>2, <1>5, FS_EmptySet
  <2>2. NamedIn(errors) \subseteq 1 .. Upload!Past /\ DOMAIN errors = {}
    BY <1>2, <1>5
  <2> QED BY <1>5, <2>1, <2>2, UploadNamed
<1>7. Upload!SavedInv
  BY <1>2, <1>4 DEF Upload!SavedInv
<1> QED BY <1>2, <1>3, <1>6, <1>7 DEF Upload!IInv

\* Failures that name rows of the chunk in hand, each once, keep the errors in
\* order.
LEMMA UploadFailures ==
  ASSUME Upload!TypeOK, Upload!NamedInv, Upload!More, chunk' = chunk + 1,
         UNCHANGED <<route, chunkSize>>,
         NEW F \in Seq([chunk : Nat, rows : Seq(Upload!Row)]), errors' = errors \o F,
         \A f \in DOMAIN F : F[f].chunk = chunk,
         Once(F), NamedIn(F) \subseteq Upload!InHand, bad' = bad + Cardinality(NamedIn(F))
  PROVE  /\ errors' \in Seq([chunk : Nat, rows : Seq(Upload!Row)])
         /\ bad' \in Nat
         /\ NamedIn(errors') = NamedIn(errors) \cup NamedIn(F)
         /\ Upload!NamedInv'
<1> DEFINE Rec == [chunk : Nat, rows : Seq(Upload!Row)]
           n == Len(errors)
<1>1. errors \in Seq(Rec) /\ bad \in Nat
  BY DEF Upload!TypeOK
<1> HIDE DEF Rec
<1>2. errors' \in Seq(Rec)
  BY <1>1 DEF Rec
<1>3. /\ Once(errors)
      /\ IsFiniteSet(NamedIn(errors)) /\ Cardinality(NamedIn(errors)) = bad
      /\ NamedIn(errors) \subseteq 1 .. Upload!Past
      /\ \A e \in DOMAIN errors : \A k \in DOMAIN errors[e].rows :
           errors[e].rows[k] \in RowsOf(errors[e].chunk, Upload!Size)
  BY UploadNamed
<1>4. /\ Upload!InHand = (Upload!Past + 1) .. Upload!Past'
      /\ Upload!Past < Upload!Past' /\ Upload!Past' \in 0 .. N
      /\ Upload!InHand = RowsOf(chunk, Upload!Size) /\ Upload!Size' = Upload!Size
      /\ IsFiniteSet(Upload!InHand) /\ Upload!Past \in 0 .. N /\ N \in Nat
  BY UploadNext, UploadPast
<1>5. /\ IsFiniteSet(NamedIn(F)) /\ Cardinality(NamedIn(F)) \in Nat
      /\ NamedIn(errors) \cap NamedIn(F) = {}
  <2>1. IsFiniteSet(NamedIn(F))
    BY <1>4, FS_Subset
  <2>2. NamedIn(errors) \cap NamedIn(F) = {}
    BY <1>3, <1>4
  <2> QED BY <2>1, <2>2, FS_CardinalityType
<1>6. NamedIn(errors') = NamedIn(errors) \cup NamedIn(F) /\ Once(errors')
  BY <1>1, <1>3, <1>5, NamedInBoth DEF Rec
<1>7. IsFiniteSet(NamedIn(errors')) /\ Cardinality(NamedIn(errors')) = bad' /\ bad' \in Nat
  <2>1. Cardinality(NamedIn(errors) \cap NamedIn(F)) = 0
    BY <1>5, FS_EmptySet
  <2>2. /\ IsFiniteSet(NamedIn(errors) \cup NamedIn(F))
        /\ Cardinality(NamedIn(errors) \cup NamedIn(F)) = bad + Cardinality(NamedIn(F)) - 0
    BY <1>3, <1>5, <2>1, FS_Union
  <2> QED BY <1>1, <1>5, <1>6, <2>2
<1>8. NamedIn(errors') \subseteq 1 .. Upload!Past'
  <2>1. \A r \in NamedIn(errors) : r \in 1 .. Upload!Past'
    BY <1>3, <1>4
  <2>2. \A r \in NamedIn(F) : r \in 1 .. Upload!Past'
    BY <1>4
  <2> QED BY <1>6, <2>1, <2>2
<1>9. \A e \in DOMAIN errors' : \A k \in DOMAIN errors'[e].rows :
        errors'[e].rows[k] \in RowsOf(errors'[e].chunk, Upload!Size')
  <2> SUFFICES ASSUME NEW e \in DOMAIN errors', NEW k \in DOMAIN errors'[e].rows
               PROVE  errors'[e].rows[k] \in RowsOf(errors'[e].chunk, Upload!Size)
    BY <1>4
  <2>1. CASE e \in DOMAIN errors
    <3>1. errors'[e] = errors[e]
      BY <1>1, <2>1
    <3> QED BY <1>3, <2>1, <3>1
  <2>2. CASE e \notin DOMAIN errors
    <3>1. e - n \in DOMAIN F /\ errors'[e] = F[e - n]
      BY <1>1, <1>2, <2>2
    <3> HIDE DEF n
    <3>2. errors'[e].rows[k] \in NamedIn(F)
      BY <3>1, NamedInFacts
    <3> QED BY <1>4, <3>1, <3>2
  <2> QED BY <2>1, <2>2
<1>10. Upload!NamedInv'
  BY <1>6, <1>7, <1>8, <1>9, UploadNamed
<1> QED BY <1>2, <1>6, <1>7, <1>10 DEF Rec

\* A chunk keeps the count when its rows are saved or named.
LEMMA UploadCounts ==
  ASSUME Upload!TypeOK, Upload!NamedInv, Upload!SavedInv, Upload!More, pc = "send",
         chunk' = chunk + 1, UNCHANGED <<route, chunkSize>>,
         NEW sent \in SUBSET Upload!InHand, Upload!Saves(sent),
         NEW named, NamedIn(errors') = NamedIn(errors) \cup named,
         Upload!InHand \ sent \subseteq named,
         good' \in Nat, bad' \in Nat, good' + bad' = good + bad + Cardinality(Upload!InHand)
  PROVE  /\ saved' \in [Upload!Row -> Nat]
         /\ Upload!SavedInv'
<1>1. /\ N \in Nat /\ saved \in [Upload!Row -> Nat] /\ good \in Nat /\ bad \in Nat
      /\ Upload!Past \in 0 .. N /\ Upload!Past' \in 0 .. N /\ Upload!Past < Upload!Past'
      /\ Upload!InHand = (Upload!Past + 1) .. Upload!Past'
      /\ Cardinality(Upload!InHand) = Upload!Past' - Upload!Past
  BY UploadPast, UploadNext DEF Upload!TypeOK
<1>2. /\ good + bad = Upload!Past
      /\ \A r \in Upload!Row : saved[r] = 0 \/ r <= Upload!Past
      /\ \A r \in (1 .. Upload!Past) \ NamedIn(errors) : saved[r] = 1
  BY UploadNamed DEF Upload!SavedInv
<1>3. saved' = [r \in Upload!Row |-> saved[r] + (IF r \in sent THEN 1 ELSE 0)]
  BY DEF Upload!Saves
<1>4. saved' \in [Upload!Row -> Nat]
  BY <1>1, <1>3
<1>5. good' + bad' = Upload!Past'
  <2>1. /\ good + bad = Upload!Past /\ Upload!Past \in Nat /\ Upload!Past' \in Nat
        /\ Cardinality(Upload!InHand) = Upload!Past' - Upload!Past
    BY <1>1, <1>2
  <2>2. good' + bad' = good + bad + Cardinality(Upload!InHand)
    OBVIOUS
  <2>3. good' + bad' = Upload!Past + (Upload!Past' - Upload!Past)
    BY <2>1, <2>2, Zenon
  <2>4. Upload!Past + (Upload!Past' - Upload!Past) = Upload!Past'
    BY <2>1, Sums, Zenon
  <2> QED BY <2>3, <2>4, Zenon
<1>6. \A r \in Upload!Row : saved'[r] = 0 \/ r <= Upload!Past'
  <2> TAKE r \in Upload!Row
  <2>1. r \in Nat
    BY <1>1 DEF Upload!Row
  <2>2. CASE r \in sent
    BY <1>1, <2>1, <2>2
  <2>3. CASE r \notin sent
    <3>1. saved'[r] = saved[r]
      BY <1>1, <1>3, <2>3
    <3> QED BY <1>1, <1>2, <2>1, <3>1
  <2> QED BY <2>2, <2>3
<1>7. \A r \in (1 .. Upload!Past') \ NamedIn(errors') : saved'[r] = 1
  <2> TAKE r \in (1 .. Upload!Past') \ NamedIn(errors')
  <2>1. r \in Nat /\ r \in Upload!Row
    BY <1>1 DEF Upload!Row
  <2>2. CASE r <= Upload!Past
    <3>1. r \in (1 .. Upload!Past) \ NamedIn(errors) /\ r \notin sent
      BY <1>1, <2>1, <2>2
    <3> QED BY <1>1, <1>2, <1>3, <2>1, <3>1
  <2>3. CASE ~(r <= Upload!Past)
    <3>1. r \in Upload!InHand /\ r \in sent /\ saved[r] = 0
      BY <1>1, <1>2, <2>1, <2>3
    <3> QED BY <1>3, <2>1, <3>1
  <2> QED BY <2>2, <2>3
<1>8. Upload!SavedInv'
  BY <1>5, <1>6, <1>7, UploadNamed DEF Upload!SavedInv, Upload!Row
<1> QED BY <1>4, <1>8

\* What a step that sends a chunk has to show.
LEMMA UploadSent ==
  ASSUME Upload!IInv, Upload!Sending, UNCHANGED <<route, chunkSize, pc>>,
         NEW sent \in SUBSET Upload!InHand, Upload!Saves(sent),
         NEW F \in Seq([chunk : Nat, rows : Seq(Upload!Row)]), errors' = errors \o F,
         \A f \in DOMAIN F : F[f].chunk = chunk,
         Once(F), NamedIn(F) \subseteq Upload!InHand, Upload!InHand \ sent \subseteq NamedIn(F),
         bad' = bad + Cardinality(NamedIn(F)),
         good' \in Nat, good' + Cardinality(NamedIn(F)) = good + Cardinality(Upload!InHand),
         uuids' = uuids \/ uuids' = uuids + 1
  PROVE  Upload!IInv'
<1> DEFINE Rec == [chunk : Nat, rows : Seq(Upload!Row)]
<1>1. Upload!TypeOK /\ Upload!NamedInv /\ Upload!SavedInv /\ Upload!More /\ pc = "send"
      /\ chunk' = chunk + 1
  BY DEF Upload!IInv, Upload!Sending
<1>2. /\ errors' \in Seq(Rec) /\ bad' \in Nat
      /\ NamedIn(errors') = NamedIn(errors) \cup NamedIn(F) /\ Upload!NamedInv'
  BY <1>1, UploadFailures
<1> HIDE DEF Rec
<1>3. good' + bad' = good + bad + Cardinality(Upload!InHand)
  <2>1. IsFiniteSet(Upload!InHand) /\ Cardinality(Upload!InHand) \in Nat
    BY <1>1, UploadNext, FS_CardinalityType
  <2>2. Cardinality(NamedIn(F)) \in Nat
    BY <2>1, FS_Subset, FS_CardinalityType
  <2>3. good \in Nat /\ bad \in Nat /\ good' \in Nat
    BY <1>1 DEF Upload!TypeOK
  <2>4. good' + (bad + Cardinality(NamedIn(F))) = (good' + Cardinality(NamedIn(F))) + bad
    BY <2>2, <2>3, Sums
  <2>5. (good + Cardinality(Upload!InHand)) + bad = (good + bad) + Cardinality(Upload!InHand)
    BY <2>1, <2>3, Sums
  <2> QED BY <2>4, <2>5
<1>4. saved' \in [Upload!Row -> Nat] /\ Upload!SavedInv'
  BY <1>1, <1>2, <1>3, UploadCounts
<1>5. chunk' \in Nat /\ uuids' \in Nat /\ uuids' <= chunk'
  BY <1>1 DEF Upload!TypeOK
<1>6. Upload!TypeOK'
  BY <1>1, <1>2, <1>4, <1>5 DEF Upload!TypeOK, Rec
<1> QED BY <1>1, <1>2, <1>4, <1>6 DEF Upload!IInv

LEMMA UploadAnswered == Upload!IInv /\ Upload!Answered => Upload!IInv'
<1> SUFFICES ASSUME Upload!IInv, Upload!Answered PROVE Upload!IInv'
  OBVIOUS
<1> DEFINE Rec == [chunk : Nat, rows : Seq(Upload!Row)]
           F == <<>>
<1>1. /\ Upload!Sending /\ UNCHANGED <<route, chunkSize, pc>> /\ uuids' = uuids
      /\ Upload!Saves(Upload!InHand) /\ good' = good + Cardinality(Upload!InHand)
      /\ bad' = bad /\ errors' = errors
  BY UploadSets DEF Upload!Answered
<1>2. Upload!TypeOK /\ errors \in Seq(Rec) /\ good \in Nat /\ bad \in Nat
  BY DEF Upload!IInv, Upload!TypeOK
<1>3. F \in Seq(Rec) /\ DOMAIN F = {} /\ errors' = errors \o F
  <2> HIDE DEF Rec
  <2> QED BY <1>1, <1>2
<1>4. NamedIn(F) = {} /\ Once(F) /\ Cardinality(NamedIn(F)) = 0
  BY <1>3, NamedInFacts, FS_EmptySet DEF Once
<1>5. Cardinality(Upload!InHand) \in Nat
  BY <1>1, <1>2, UploadNext, FS_CardinalityType DEF Upload!Sending
<1> HIDE DEF F
<1>6. /\ bad' = bad + Cardinality(NamedIn(F))
      /\ good' \in Nat /\ good' + Cardinality(NamedIn(F)) = good + Cardinality(Upload!InHand)
  BY <1>1, <1>2, <1>4, <1>5
<1> QED BY <1>1, <1>3, <1>4, <1>6, UploadSent

LEMMA UploadHttpError == Upload!IInv /\ Upload!HttpError => Upload!IInv'
<1> SUFFICES ASSUME Upload!IInv, Upload!HttpError PROVE Upload!IInv'
  OBVIOUS
<1> DEFINE Rec == [chunk : Nat, rows : Seq(Upload!Row)]
           c == Cardinality(Upload!InHand)
           all == [i \in 1 .. c |-> Upload!First + i - 1]
           f1 == [chunk |-> chunk, rows |-> all]
           F == <<f1>>
<1>1. PICK sent \in SUBSET Upload!InHand :
        /\ Upload!Sending /\ UNCHANGED <<route, chunkSize, pc>> /\ uuids' = uuids
        /\ Upload!Saves(sent) /\ good' = good /\ bad' = bad + c
        /\ errors' = Append(errors, f1)
  <2>1. (IF route = "async" THEN SUBSET Upload!InHand ELSE {{}, Upload!InHand}) \subseteq SUBSET Upload!InHand
    OBVIOUS
  <2> QED BY <2>1, UploadSets DEF Upload!HttpError, Upload!Failure
<1>2. Upload!TypeOK /\ errors \in Seq(Rec) /\ good \in Nat /\ bad \in Nat /\ chunk \in Nat
  BY DEF Upload!IInv, Upload!TypeOK
<1>3. /\ Upload!Past \in Nat /\ Upload!Past' \in Nat /\ N \in Nat /\ c \in Nat
      /\ c = Upload!Past' - Upload!Past /\ Upload!Past' <= N /\ Upload!First = Upload!Past + 1
      /\ Upload!InHand = (Upload!Past + 1) .. Upload!Past'
  BY <1>1, <1>2, UploadNext, UploadPast DEF Upload!Sending
<1> DEFINE p == Upload!Past
           q == Upload!Past'
<1>n. /\ p \in Nat /\ q \in Nat /\ N \in Nat /\ c \in Nat
      /\ c = q - p /\ q <= N /\ Upload!First = p + 1
  BY <1>3
<1>h. Upload!InHand = (p + 1) .. q
  BY <1>3
<1> HIDE DEF c, p, q
<1>4. /\ all \in Seq(Upload!Row) /\ DOMAIN all = 1 .. c
      /\ \A i \in 1 .. c : all[i] = p + i /\ p + i \in Nat
  <2>1. ASSUME NEW i \in 1 .. c
        PROVE  all[i] = p + i /\ p + i \in Nat /\ all[i] \in Upload!Row
    <3>1. i \in Nat /\ all[i] = Upload!First + i - 1
      BY <1>n
    <3> HIDE DEF all
    <3>2. all[i] = p + i
      BY <1>n, <3>1
    <3>3. p + i \in 1 .. N
      BY <1>n
    <3> QED BY <1>n, <3>2, <3>3 DEF Upload!Row
  <2>2. all \in [1 .. c -> Upload!Row] /\ DOMAIN all = 1 .. c
    BY <2>1
  <2> HIDE DEF all
  <2>3. all \in Seq(Upload!Row)
    BY <1>n, <2>2
  <2> QED BY <2>1, <2>2, <2>3
<1> HIDE DEF all
<1>5. f1 \in Rec /\ f1.rows = all /\ f1.chunk = chunk
  BY <1>2, <1>4
<1> HIDE DEF f1, Rec
<1>6. F \in Seq(Rec) /\ DOMAIN F = {1} /\ F[1] = f1 /\ errors' = errors \o F
  BY <1>1, <1>2, <1>5
<1> HIDE DEF F
<1>7. NamedIn(F) = Upload!InHand
  <2>1. \A r : r \in NamedIn(F) <=> \E k \in 1 .. c : r = all[k]
    <3>1. \A r : r \in NamedIn(F) <=> \E e \in DOMAIN F : \E k \in DOMAIN F[e].rows : r = F[e].rows[k]
      BY NamedInFacts
    <3>2. F[1].rows = all /\ DOMAIN all = 1 .. c /\ DOMAIN F = {1}
      BY <1>4, <1>5, <1>6
    <3> QED BY <3>1, <3>2
  <2>2. ASSUME NEW k \in 1 .. c PROVE all[k] \in Upload!InHand
    <3>1. p + k \in (p + 1) .. q
      BY <1>n
    <3> QED BY <1>h, <1>4, <3>1
  <2>3. ASSUME NEW r \in Upload!InHand PROVE \E k \in 1 .. c : r = all[k]
    <3>1. r \in (p + 1) .. q
      BY <1>h
    <3>2. r - p \in 1 .. c /\ p + (r - p) = r
      BY <1>n, <3>1
    <3> QED BY <1>4, <3>2
  <2> QED BY <2>1, <2>2, <2>3
<1>8. Once(F)
  <2> SUFFICES ASSUME NEW k \in 1 .. c, NEW m \in 1 .. c, all[k] = all[m]
               PROVE  k = m
    BY <1>4, <1>5, <1>6 DEF Once
  <2>1. p + k = p + m
    BY <1>4
  <2> QED BY <1>n, <2>1
<1>9. \A f \in DOMAIN F : F[f].chunk = chunk
  BY <1>5, <1>6
<1> QED BY <1>1, <1>2, <1>6, <1>7, <1>8, <1>9, UploadSent DEF c, Rec

LEMMA UploadBroken == Upload!IInv /\ Upload!Broken => Upload!IInv'
<1> SUFFICES ASSUME Upload!IInv, Upload!Broken PROVE Upload!IInv'
  OBVIOUS
<1> DEFINE Rec == [chunk : Nat, rows : Seq(Upload!Row)]
           F == <<>>
<1>1. PICK sent \in SUBSET Upload!InHand :
        /\ Upload!Sending /\ UNCHANGED <<route, chunkSize, uuids, good, bad, errors>>
        /\ Upload!Saves(sent) /\ pc' = "aborted"
  BY DEF Upload!Broken
<1>2. /\ Upload!TypeOK /\ Upload!NamedInv /\ errors \in Seq(Rec) /\ good \in Nat /\ bad \in Nat
      /\ chunk \in Nat /\ uuids \in Nat /\ uuids <= chunk /\ saved \in [Upload!Row -> Nat]
      /\ Upload!More /\ chunk' = chunk + 1
  BY <1>1 DEF Upload!IInv, Upload!TypeOK, Upload!Sending
<1>3. F \in Seq(Rec) /\ DOMAIN F = {} /\ errors' = errors \o F
  <2> HIDE DEF Rec
  <2> QED BY <1>1, <1>2
<1>4. NamedIn(F) = {} /\ Once(F) /\ Cardinality(NamedIn(F)) = 0
  BY <1>3, NamedInFacts, FS_EmptySet DEF Once
<1> HIDE DEF F
<1>5. bad' = bad + Cardinality(NamedIn(F))
  BY <1>1, <1>2, <1>4
<1>6. Upload!NamedInv'
  BY <1>1, <1>2, <1>3, <1>4, <1>5, UploadFailures
<1>7. saved' \in [Upload!Row -> Nat]
  BY <1>1, <1>2 DEF Upload!Saves
<1>8. Upload!TypeOK'
  BY <1>1, <1>2, <1>7 DEF Upload!TypeOK
<1> QED BY <1>1, <1>6, <1>8 DEF Upload!IInv, Upload!SavedInv

\* Nth numbers the elements of a finite set.
LEMMA UploadNth ==
  ASSUME NEW S \in SUBSET Nat, IsFiniteSet(S)
  PROVE  /\ \A k \in 1 .. Cardinality(S) : Upload!Nth(S, k) \in S
         /\ \A k, m \in 1 .. Cardinality(S) : Upload!Nth(S, k) = Upload!Nth(S, m) => k = m
         /\ \A i \in S : \E k \in 1 .. Cardinality(S) : Upload!Nth(S, k) = i
<1> DEFINE place(i) == Cardinality({j \in S : j <= i})
<1>1. \A k : Upload!Nth(S, k) = CHOOSE i \in S : place(i) = k
  BY UploadSets DEF Upload!Nth
<1>2. /\ \A i \in S : place(i) \in 1 .. Cardinality(S)
      /\ \A i, j \in S : place(i) = place(j) => i = j
      /\ \A n \in 1 .. Cardinality(S) : \E i \in S : place(i) = n
  BY PlacesOfNumbers
<1> HIDE DEF place
<1>3. \A k \in 1 .. Cardinality(S) : Upload!Nth(S, k) \in S /\ place(Upload!Nth(S, k)) = k
  <2> TAKE k \in 1 .. Cardinality(S)
  <2>1. \E i \in S : place(i) = k
    BY <1>2
  <2> QED BY <1>1, <2>1
<1> QED BY <1>2, <1>3

\* The items of an answer are the rows of the chunk, in some order.
LEMMA UploadItems ==
  ASSUME NEW m \in Nat, NEW items \in Upload!Orders(m)
  PROVE  /\ items \in [1 .. m -> 0 .. (m - 1)]
         /\ \A i, j \in 1 .. m : items[i] = items[j] => i = j
         /\ \A n \in 0 .. (m - 1) : \E i \in 1 .. m : items[i] = n
<1>1. /\ items \in [1 .. m -> 0 .. (m - 1)]
      /\ \A i, j \in 1 .. m : items[i] = items[j] => i = j
  BY DEF Upload!Orders, Upload!IsInjective
<1>2. IsFiniteSet(1 .. m) /\ IsFiniteSet(0 .. (m - 1)) /\ Cardinality(1 .. m) = m /\ Cardinality(0 .. (m - 1)) = m
  <2>1. m - 1 \in Int /\ (m - 1) - 0 + 1 = m /\ m - 1 + 1 = m
    OBVIOUS
  <2>2. \A a, b \in Int : IsFiniteSet(a .. b) /\ Cardinality(a .. b) = IF a > b THEN 0 ELSE b - a + 1
    BY FS_Interval
  <2>3. IsFiniteSet(1 .. m) /\ Cardinality(1 .. m) = m
    <3>1. Cardinality(1 .. m) = IF 1 > m THEN 0 ELSE m - 1 + 1
      BY <2>2
    <3> QED BY <2>2, <3>1
  <2>4. IsFiniteSet(0 .. (m - 1)) /\ Cardinality(0 .. (m - 1)) = m
    <3>1. Cardinality(0 .. (m - 1)) = IF 0 > m - 1 THEN 0 ELSE (m - 1) - 0 + 1
      BY <2>1, <2>2
    <3> QED BY <2>1, <2>2, <3>1
  <2> QED BY <2>3, <2>4
<1>3. items \in Surjection(1 .. m, 0 .. (m - 1))
  <2>1. items \in Injection(1 .. m, 0 .. (m - 1))
    BY <1>1 DEF Injection, IsInjective
  <2> QED BY <1>2, <2>1, FS_Injection
<1>4. \A n \in 0 .. (m - 1) : \E i \in 1 .. m : items[i] = n
  BY <1>3 DEF Surjection
<1> QED BY <1>1, <1>4

LEMMA UploadQueued == Upload!IInv /\ Upload!Queued => Upload!IInv'
<1> SUFFICES ASSUME Upload!IInv, Upload!Queued PROVE Upload!IInv'
  OBVIOUS
<1> DEFINE Rec == [chunk : Nat, rows : Seq(Upload!Row)]
           c == Cardinality(Upload!InHand)
<1>1. PICK sent, items :
        LET rejected == {i \in DOMAIN items : Upload!First + items[i] \notin sent}
        IN  /\ sent \in SUBSET Upload!InHand /\ items \in Upload!Orders(c)
            /\ Upload!Saves(sent)
            /\ good' = good + Cardinality(sent) /\ bad' = bad + Cardinality(rejected)
            /\ errors' = errors \o [k \in 1 .. Cardinality(rejected) |->
                 Upload!Failure(<<Upload!RowOf(items, Upload!Nth(rejected, k))>>)]
  BY UploadSets DEF Upload!Queued
<1>2. Upload!Sending /\ UNCHANGED <<route, chunkSize, pc>> /\ uuids' = uuids + 1
  BY DEF Upload!Queued
<1> DEFINE rejected == {i \in DOMAIN items : Upload!First + items[i] \notin sent}
           left == Upload!InHand \ sent
           n == Cardinality(rejected)
           at(k) == Upload!First + items[Upload!Nth(rejected, k)]
           F == [k \in 1 .. n |-> [chunk |-> chunk, rows |-> <<at(k)>>]]
<1>3. /\ sent \in SUBSET Upload!InHand /\ items \in Upload!Orders(c) /\ Upload!Saves(sent)
      /\ good' = good + Cardinality(sent) /\ bad' = bad + n /\ errors' = errors \o F
  BY <1>1 DEF Upload!Failure, Upload!RowOf
<1>4. Upload!TypeOK /\ good \in Nat /\ bad \in Nat /\ chunk \in Nat
  BY DEF Upload!IInv, Upload!TypeOK
<1>5. /\ Upload!Past \in Nat /\ Upload!Past' \in Nat /\ N \in Nat /\ c \in Nat
      /\ c = Upload!Past' - Upload!Past /\ Upload!Past' <= N /\ Upload!First = Upload!Past + 1
      /\ Upload!InHand = (Upload!Past + 1) .. Upload!Past' /\ IsFiniteSet(Upload!InHand)
  BY <1>2, <1>4, UploadNext, UploadPast DEF Upload!Sending
<1>6. Upload!InHand = {Upload!First + i : i \in 0 .. (c - 1)} /\ Upload!InHand \subseteq Upload!Row
  <2> DEFINE p == Upload!Past
             q == Upload!Past'
  <2>1. /\ p \in Nat /\ q \in Nat /\ c \in Nat /\ c = q - p /\ q <= N /\ N \in Nat
        /\ Upload!First = p + 1
    BY <1>5
  <2>2. Upload!InHand = (p + 1) .. q
    BY <1>5
  <2> HIDE DEF p, q, c
  <2>3. ASSUME NEW r \in Upload!InHand PROVE \E i \in 0 .. (c - 1) : r = Upload!First + i
    <3>1. r \in (p + 1) .. q
      BY <2>2
    <3>2. r - (p + 1) \in 0 .. (c - 1) /\ (p + 1) + (r - (p + 1)) = r
      BY <2>1, <3>1
    <3> QED BY <2>1, <3>2
  <2>4. ASSUME NEW i \in 0 .. (c - 1) PROVE Upload!First + i \in Upload!InHand
    <3>1. (p + 1) + i \in (p + 1) .. q
      BY <2>1
    <3> QED BY <2>1, <2>2, <3>1
  <2>5. Upload!InHand \subseteq Upload!Row
    BY <2>1, <2>2 DEF Upload!Row
  <2> QED BY <2>3, <2>4, <2>5
<1> HIDE DEF c, left, rejected
<1>7. /\ DOMAIN items = 1 .. c
      /\ \A i \in rejected : Upload!First + items[i] \in left
      /\ \A i, j \in rejected : Upload!First + items[i] = Upload!First + items[j] => i = j
      /\ \A r \in left : \E i \in rejected : Upload!First + items[i] = r
  <2>1. /\ items \in [1 .. c -> 0 .. (c - 1)] /\ DOMAIN items = 1 .. c
        /\ \A i, j \in 1 .. c : items[i] = items[j] => i = j
        /\ \A m \in 0 .. (c - 1) : \E i \in 1 .. c : items[i] = m
    <3>1. c \in Nat /\ items \in Upload!Orders(c)
      BY <1>3, <1>5
    <3>2. /\ items \in [1 .. c -> 0 .. (c - 1)]
          /\ \A i, j \in 1 .. c : items[i] = items[j] => i = j
          /\ \A m \in 0 .. (c - 1) : \E i \in 1 .. c : items[i] = m
      <4> HIDE DEF F, at, n
      <4> QED BY <3>1, UploadItems, Zenon
    <3> QED BY <3>2
  <2>2. \A i \in rejected : i \in 1 .. c /\ items[i] \in 0 .. (c - 1) /\ items[i] \in Nat
    <3>1. \A x \in 0 .. (c - 1) : x \in Nat
      BY <1>5
    <3> QED BY <2>1, <3>1 DEF rejected
  <2>4. ASSUME NEW i \in rejected PROVE Upload!First + items[i] \in left
    BY <1>6, <2>2 DEF left, rejected
  <2>5. ASSUME NEW r \in left PROVE \E i \in rejected : Upload!First + items[i] = r
    <3>1. PICK m \in 0 .. (c - 1) : r = Upload!First + m
      BY <1>6 DEF left
    <3>2. PICK i \in 1 .. c : items[i] = m
      BY <2>1
    <3> QED BY <2>1, <3>1, <3>2 DEF left, rejected
  <2>3. \A x, y \in Nat : Upload!First + x = Upload!First + y => x = y
    BY <1>5
  <2> QED BY <2>1, <2>2, <2>3, <2>4, <2>5
<1>8. rejected \in SUBSET Nat /\ IsFiniteSet(rejected) /\ n \in Nat
  <2>1. rejected \subseteq 1 .. c
    BY <1>7 DEF rejected
  <2>2. IsFiniteSet(1 .. c)
    BY <1>5, FS_Interval
  <2>3. \A i \in 1 .. c : i \in Nat
    OBVIOUS
  <2> QED BY <2>1, <2>2, <2>3, FS_Subset, FS_CardinalityType
<1>9. n = Cardinality(left) /\ IsFiniteSet(left)
  <2> DEFINE b == [i \in rejected |-> Upload!First + items[i]]
  <2>1. b \in [rejected -> left]
    BY <1>7
  <2>2. \A i, j \in rejected : b[i] = b[j] => i = j
    BY <1>7
  <2>3. \A r \in left : \E i \in rejected : b[i] = r
    BY <1>7
  <2> HIDE DEF b
  <2>4. b \in Bijection(rejected, left)
    BY <2>1, <2>2, <2>3 DEF Bijection, Injection, Surjection, IsInjective
  <2>5. ExistsBijection(rejected, left)
    BY <2>4 DEF ExistsBijection
  <2> QED BY <1>8, <2>5, FS_Bijection
<1>10. /\ \A k \in 1 .. n : at(k) \in left
       /\ \A k, m \in 1 .. n : at(k) = at(m) => k = m
       /\ \A r \in left : \E k \in 1 .. n : at(k) = r
  <2>1. /\ \A k \in 1 .. n : Upload!Nth(rejected, k) \in rejected
        /\ \A k, m \in 1 .. n : Upload!Nth(rejected, k) = Upload!Nth(rejected, m) => k = m
        /\ \A i \in rejected : \E k \in 1 .. n : Upload!Nth(rejected, k) = i
    BY <1>8, UploadNth
  <2> HIDE DEF n
  <2> QED BY <1>7, <2>1
<1> HIDE DEF at, n
<1>11. /\ F \in Seq(Rec) /\ DOMAIN F = 1 .. n
       /\ \A k \in 1 .. n : /\ F[k].chunk = chunk /\ DOMAIN F[k].rows = {1} /\ F[k].rows[1] = at(k)
  <2>1. ASSUME NEW k \in 1 .. n PROVE at(k) \in Upload!Row
    BY <1>6, <1>10 DEF left
  <2>2. ASSUME NEW k \in 1 .. n
        PROVE  /\ F[k] = [chunk |-> chunk, rows |-> <<at(k)>>] /\ F[k] \in Rec
               /\ F[k].chunk = chunk /\ DOMAIN F[k].rows = {1} /\ F[k].rows[1] = at(k)
    <3>1. F[k] = [chunk |-> chunk, rows |-> <<at(k)>>]
      OBVIOUS
    <3> HIDE DEF F
    <3>2. <<at(k)>> \in Seq(Upload!Row) /\ DOMAIN <<at(k)>> = {1} /\ <<at(k)>>[1] = at(k)
      BY <2>1
    <3> QED BY <1>4, <3>1, <3>2
  <2>3. F \in [1 .. n -> Rec] /\ DOMAIN F = 1 .. n
    BY <2>2
  <2> HIDE DEF F, Rec
  <2>4. F \in Seq(Rec)
    BY <1>8, <2>3
  <2> QED BY <2>2, <2>3, <2>4
<1> HIDE DEF F
<1>12. NamedIn(F) = left
  <2>1. \A r : r \in NamedIn(F) <=> \E e \in DOMAIN F : \E k \in DOMAIN F[e].rows : r = F[e].rows[k]
    BY NamedInFacts
  <2>2. \A r : r \in NamedIn(F) <=> \E e \in 1 .. n : r = at(e)
    BY <1>11, <2>1
  <2> QED BY <1>10, <2>2
<1>13. Once(F)
  BY <1>10, <1>11 DEF Once
<1>14. /\ bad' = bad + Cardinality(NamedIn(F)) /\ good' \in Nat
       /\ good' + Cardinality(NamedIn(F)) = good + c
  <2>1. Cardinality(left) = c - Cardinality(sent) /\ Cardinality(sent) \in Nat /\ Cardinality(left) \in Nat
    <3>1. Upload!InHand \cap sent = sent
      BY <1>3
    <3>2. IsFiniteSet(sent)
      BY <1>3, <1>5, FS_Subset
    <3>3. Cardinality(left) = c - Cardinality(sent)
      <4>1. Cardinality(Upload!InHand \ sent) = Cardinality(Upload!InHand) - Cardinality(Upload!InHand \cap sent)
        BY <1>5, FS_Difference, Zenon
      <4> QED BY <3>1, <4>1 DEF left, c
    <3> QED BY <1>9, <3>2, <3>3, FS_CardinalityType
  <2>2. good' = good + Cardinality(sent) /\ bad' = bad + Cardinality(left) /\ good \in Nat /\ c \in Nat
    BY <1>3, <1>4, <1>5, <1>9
  <2>3. good' \in Nat /\ good' + Cardinality(left) = good + c
    BY <2>1, <2>2
  <2> QED BY <1>12, <2>2, <2>3
<1>15. \A f \in DOMAIN F : F[f].chunk = chunk
  BY <1>11
<1>16. NamedIn(F) \subseteq Upload!InHand /\ Upload!InHand \ sent \subseteq NamedIn(F)
  BY <1>12 DEF left
<1> QED BY <1>2, <1>3, <1>11, <1>13, <1>14, <1>15, <1>16, UploadSent DEF c, Rec

LEMMA UploadReturn == Upload!IInv /\ Upload!Return => Upload!IInv'
<1> SUFFICES ASSUME Upload!IInv, Upload!Return PROVE Upload!IInv'
  OBVIOUS
<1> USE DEF Upload!Return
<1>1. Upload!TypeOK'
  BY DEF Upload!IInv, Upload!TypeOK
<1>2. Upload!Size' = Upload!Size
  BY DEF Upload!Size
<1>3. Upload!Past' = Upload!Past
  BY <1>2 DEF Upload!Past
<1>4. Upload!NamedInv'
  BY <1>2, <1>3, UploadNamed DEF Upload!IInv
<1>5. Upload!SavedInv' /\ ~Upload!More'
  BY <1>2, <1>3, UploadNamed DEF Upload!IInv, Upload!SavedInv, Upload!Row, Upload!More
<1> QED BY <1>1, <1>4, <1>5 DEF Upload!IInv

LEMMA UploadUnchanged == Upload!IInv /\ UNCHANGED Upload!vars => Upload!IInv'
<1> SUFFICES ASSUME Upload!IInv, UNCHANGED Upload!vars PROVE Upload!IInv'
  OBVIOUS
<1> USE DEF Upload!vars
<1>1. Upload!TypeOK'
  BY DEF Upload!IInv, Upload!TypeOK
<1>2. Upload!Size' = Upload!Size
  BY DEF Upload!Size
<1>3. Upload!Past' = Upload!Past
  BY <1>2 DEF Upload!Past
<1>4. Upload!NamedInv'
  BY <1>2, <1>3, UploadNamed DEF Upload!IInv
<1>5. Upload!SavedInv' /\ (pc' = "done" => ~Upload!More')
  BY <1>2, <1>3, UploadNamed DEF Upload!IInv, Upload!SavedInv, Upload!Row, Upload!More
<1> QED BY <1>1, <1>4, <1>5 DEF Upload!IInv

\* What the caller gets follows from the invariant.
LEMMA UploadAccounts == Upload!IInv => Upload!EachRowCounted /\ Upload!UnnamedSaved
<1> SUFFICES ASSUME Upload!IInv PROVE Upload!EachRowCounted /\ Upload!UnnamedSaved
  OBVIOUS
<1>1. /\ Upload!TypeOK /\ Upload!NamedInv /\ Upload!SavedInv /\ (pc = "done" => ~Upload!More)
  BY DEF Upload!IInv
<1>2. Upload!Past \in 0 .. N /\ N \in Nat /\ (Upload!More <=> Upload!Past < N)
  BY <1>1, UploadPast
<1>3. pc = "done" => Upload!Past = N
  BY <1>1, <1>2
<1>4. Cardinality(Upload!Places) = bad /\ Cardinality(Upload!Named) = bad
  <2> DEFINE P == Upload!Places
             at == [p \in P |-> Upload!RowAt(p)]
  <2>1. /\ IsFiniteSet(Upload!Named) /\ Cardinality(Upload!Named) = bad
        /\ \A p, q \in P : Upload!RowAt(p) = Upload!RowAt(q) => p = q
    BY <1>1, UploadSets DEF Upload!NamedInv
  <2>2. \A p \in P : at[p] \in Upload!Named
    BY DEF Upload!Named
  <2>3. \A r \in Upload!Named : \E p \in P : at[p] = r
    BY DEF Upload!Named
  <2>4. \A p, q \in P : at[p] = at[q] => p = q
    BY <2>1
  <2>5. at \in [P -> Upload!Named]
    BY <2>2
  <2> HIDE DEF at, P
  <2>6. at \in Injection(P, Upload!Named) /\ at \in Surjection(P, Upload!Named)
    BY <2>3, <2>4, <2>5 DEF Injection, Surjection, IsInjective
  <2>7. Cardinality(P) = Cardinality(Upload!Named)
    BY <2>1, <2>6, FS_Injection
  <2> QED BY <2>1, <2>7 DEF P
<1>5. \A e \in DOMAIN errors : Upload!Range(errors[e].rows) \subseteq Upload!Chunk(errors[e].chunk)
  BY <1>1 DEF Upload!NamedInv
<1>6. pc = "done" => good + bad = N
  BY <1>1, <1>3 DEF Upload!SavedInv
<1>7. Upload!EachRowCounted
  BY <1>4, <1>5, <1>6, UploadSets DEF Upload!EachRowCounted
<1>8. Upload!UnnamedSaved
  BY <1>1, <1>3 DEF Upload!SavedInv, Upload!UnnamedSaved, Upload!Row
<1> QED BY <1>7, <1>8

\* The invariant of the upload holds for any number of rows and size of chunks.
LEMMA UploadInvariance == Spec => [](part = "upload" => Upload!IInv)
<1> DEFINE Inv == part = "upload" => Upload!IInv
<1>1. Init => Inv
  BY UploadInit DEF Init
<1>2. Inv /\ [Next]_<<part, reader, grouping, upload, outcomes, rows, errors, pc>> => Inv'
  <2> SUFFICES ASSUME Inv, [Next]_<<part, reader, grouping, upload, outcomes, rows, errors, pc>>,
                      part' = "upload"
               PROVE  Upload!IInv'
    OBVIOUS
  <2>1. CASE UploadStep
    <3>1. Upload!IInv /\ Upload!Next
      BY <2>1 DEF UploadStep
    <3> QED BY <3>1, UploadAnswered, UploadHttpError, UploadBroken, UploadQueued, UploadReturn
            DEF Upload!Next
  <2>2. CASE ReaderStep \/ GroupingStep \/ OutcomesStep
    BY <2>2 DEF ReaderStep, GroupingStep, OutcomesStep
  <2>3. CASE UNCHANGED <<part, reader, grouping, upload, outcomes, rows, errors, pc>>
    BY <2>3, UploadUnchanged DEF upload, Upload!vars
  <2> QED BY <2>1, <2>2, <2>3 DEF Next
<1> QED BY <1>1, <1>2, PTL DEF Spec

\* A caller of upload_rows or upload_rows_async who sends the rows the errors
\* name again loses none, and every row counts once: for any number of rows
\* and any size of the chunks.
THEOREM UploadLosesNoRow == Spec => []UploadAccountsForRows
<1>1. (part = "upload" => Upload!IInv) => UploadAccountsForRows
  BY UploadAccounts DEF UploadAccountsForRows
<1> QED BY <1>1, UploadInvariance, PTL

---------------------------------------------------------------------------
(* RowOutcomes: what becomes of the rows of an import.  A result tells it of *)
(* the first try and, merged, of both: Tells relates the counts and errors   *)
(* to the rows, for any list of rows.                                        *)

LEMMA OutcomesSets ==
  /\ \A S : Outcomes!Cardinality(S) = Cardinality(S)
BY DEF Outcomes!Cardinality, Cardinality, Outcomes!IsFiniteSet, IsFiniteSet

\* The rows of an import, what became of one, and of those of a list that the
\* second try f has or has not taken.
OpsIn(cat) == IF cat THEN {{"ok"}, {"failed"}, {"pending"}, {"sort"}}
              ELSE SUBSET {"ok", "failed", "pending"} \ {{}}
RowIn(cat) == [ref : Ref, plan : {"op"}, ops : OpsIn(cat)]
  \cup [ref : Ref, plan : {"noop", "failed", "invalid"} \cup (IF cat THEN {} ELSE {"skipped"}), ops : {{}}]
FateIn(cat, r) ==
  IF r.plan \in {"failed", "invalid"} \/ r.ops \cap {"failed", "sort"} # {} THEN "failed"
  ELSE IF "pending" \in r.ops THEN "pending"
  ELSE IF r.plan = "skipped" \/ (r.plan = "noop" /\ ~cat) THEN "skipped"
  ELSE "succeeded"
TriedIn(rs, f, i) == IF rs[i].plan = "op" /\ rs[i].ref \in DOMAIN f THEN f[rs[i].ref] ELSE rs[i]
FatedIn(cat, rs, f, fate) == {i \in DOMAIN rs : FateIn(cat, TriedIn(rs, f, i)) = fate}
DistinctIn(rs) == \A i, j \in DOMAIN rs : rs[i].ref = rs[j].ref => i = j
FailedIn(r) == {e.ref : e \in {x \in r.errors : x.status = "failed"}}

\* A result that tells what became of rows.
Tells(cat, rs, f, r) ==
  /\ DistinctIn(rs) =>
       /\ r.succeeded = Cardinality(FatedIn(cat, rs, f, "succeeded"))
       /\ r.failed = Cardinality(FatedIn(cat, rs, f, "failed"))
       /\ r.pending = Cardinality(FatedIn(cat, rs, f, "pending"))
       /\ r.skipped = Cardinality(FatedIn(cat, rs, f, "skipped"))
       /\ FailedIn(r) = {rs[i].ref : i \in FatedIn(cat, rs, f, "failed")}
  /\ f = <<>> =>
       /\ r.failed >= Cardinality(FatedIn(cat, rs, f, "failed"))
       /\ r.succeeded <= Cardinality(FatedIn(cat, rs, f, "succeeded") \cup FatedIn(cat, rs, f, "skipped"))

\* The errors of a first result over default_sort_by.
SortErrors(rs, r) ==
  /\ {e.ref : e \in {x \in r.errors : x.sort}} = {rs[i].ref : i \in {j \in DOMAIN rs : "sort" \in rs[j].ops}}
  /\ \A e \in r.errors : e.sort => e.status = "failed"

\* What a row is.
LEMMA RowInFacts ==
  ASSUME NEW cat \in BOOLEAN, NEW r \in RowIn(cat)
  PROVE  /\ r.plan \in {"op", "noop", "failed", "invalid", "skipped"}
         /\ r.plan # "op" => r.ops = {}
         /\ r.ops \subseteq {"ok", "failed", "pending", "sort"}
         /\ cat => r.plan # "skipped"
         /\ r.ref \in Ref
BY DEF RowIn, OpsIn

LEMMA OutcomesRow ==
  /\ Outcomes!Row = RowIn(categories)
  /\ \A r : Outcomes!FateOf(r) = FateIn(categories, r)
  /\ \A fate : Outcomes!Fated(fate) = FatedIn(categories, rows, second, fate)
  /\ Outcomes!Distinct <=> DistinctIn(rows)
<1>1. Outcomes!Row = RowIn(categories)
  BY DEF Outcomes!Row, Outcomes!OpOutcomes, RowIn, OpsIn
<1>2. \A r : Outcomes!FateOf(r) = FateIn(categories, r)
  BY DEF Outcomes!FateOf, FateIn, Outcomes!Failing
<1>3. \A i : Outcomes!Tried(i) = TriedIn(rows, second, i)
  BY DEF Outcomes!Tried, TriedIn
<1>4. \A fate : Outcomes!Fated(fate) = FatedIn(categories, rows, second, fate)
  BY <1>2, <1>3 DEF Outcomes!Fated, Outcomes!Fate, FatedIn
<1>5. Outcomes!Distinct <=> DistinctIn(rows)
  BY DEF Outcomes!Distinct, DistinctIn
<1> QED BY <1>1, <1>2, <1>4, <1>5

\* The errors of a first result, one for each row planned in vain and for each
\* operation that did not succeed.
LEMMA OutcomesErrors ==
  ASSUME categories \in BOOLEAN, NEW rs \in Seq(RowIn(categories))
  PROVE  /\ \A i \in DOMAIN rs : rs[i] \in RowIn(categories)
         /\ \A e : e \in Outcomes!ExecErrors(rs) <=>
              \E i \in DOMAIN rs : \E o \in rs[i].ops \ {"ok"} :
                e = [status |-> IF o \in {"failed", "sort"} THEN "failed" ELSE o,
                     ref |-> rs[i].ref, sort |-> o = "sort"]
         /\ \A r : r \in Outcomes!FailedRefs(rs) <=>
              \E i \in DOMAIN rs : /\ rs[i].ref = r
                                   /\ rs[i].plan = "failed" \/ rs[i].ops \cap {"failed", "sort"} # {}
         /\ \A r : r \in Outcomes!PendingRefs(rs) <=>
              \E i \in DOMAIN rs : rs[i].ref = r /\ "pending" \in rs[i].ops
         /\ \A r : r \in {e.ref : e \in {x \in Outcomes!ExecErrors(rs) \cup Outcomes!RowErrors(rs) :
                                           x.status = "failed"}}
              <=> \E i \in DOMAIN rs : /\ rs[i].ref = r
                                       /\ \/ rs[i].plan \in {"failed", "invalid"}
                                          \/ rs[i].ops \cap {"failed", "sort"} # {}
         /\ \A r : r \in {e.ref : e \in {x \in Outcomes!ExecErrors(rs) \cup Outcomes!RowErrors(rs) : x.sort}}
              <=> \E i \in DOMAIN rs : rs[i].ref = r /\ "sort" \in rs[i].ops
         /\ \A e \in Outcomes!ExecErrors(rs) \cup Outcomes!RowErrors(rs) : e.sort => e.status = "failed"
<1> DEFINE D == DOMAIN rs
           Ex == Outcomes!ExecErrors(rs)
           Ro == Outcomes!RowErrors(rs)
           Err(i, o) == [status |-> IF o \in {"failed", "sort"} THEN "failed" ELSE o,
                         ref |-> rs[i].ref, sort |-> o = "sort"]
<1>1. \A i \in D : rs[i] \in RowIn(categories)
  OBVIOUS
<1>2. \A i \in D : rs[i].ops \subseteq {"ok", "failed", "pending", "sort"}
  BY <1>1, RowInFacts
<1>3. \A e : e \in Ex <=> \E i \in D : \E o \in rs[i].ops \ {"ok"} : e = Err(i, o)
  BY DEF Outcomes!ExecErrors, Outcomes!Failing
<1>4. \A i, o : /\ Err(i, o).ref = rs[i].ref
                /\ Err(i, o).sort = (o = "sort")
                /\ Err(i, o).status = IF o \in {"failed", "sort"} THEN "failed" ELSE o
  OBVIOUS
<1>5. \A e : e \in Ro <=> \E i \in D : /\ rs[i].plan \in {"failed", "invalid"}
                                       /\ e = [status |-> "failed", ref |-> rs[i].ref, sort |-> FALSE]
  BY DEF Outcomes!RowErrors, Outcomes!RefsOf, Outcomes!With
<1> HIDE DEF Ex, Ro, Err
<1>6. \A r : (\E e \in Ex : e.status = "failed" /\ e.ref = r) <=>
        \E i \in D : rs[i].ref = r /\ rs[i].ops \cap {"failed", "sort"} # {}
  <2> TAKE r
  <2>1. ASSUME NEW e \in Ex, e.status = "failed", e.ref = r
        PROVE  \E i \in D : rs[i].ref = r /\ rs[i].ops \cap {"failed", "sort"} # {}
    <3>1. PICK i \in D : \E o \in rs[i].ops \ {"ok"} : e = Err(i, o)
      BY <1>3
    <3>2. PICK o \in rs[i].ops \ {"ok"} : e = Err(i, o)
      BY <3>1
    <3>3. o \in {"failed", "sort"} /\ rs[i].ref = r
      BY <1>4, <2>1, <3>2
    <3> QED BY <3>2, <3>3
  <2>2. ASSUME NEW i \in D, rs[i].ref = r, NEW o \in rs[i].ops, o \in {"failed", "sort"}
        PROVE  \E e \in Ex : e.status = "failed" /\ e.ref = r
    <3>1. Err(i, o) \in Ex
      BY <1>3, <2>2
    <3>2. Err(i, o).status = "failed" /\ Err(i, o).ref = r
      BY <1>4, <2>2
    <3> QED BY <3>1, <3>2
  <2> QED BY <2>1, <2>2
<1>7. \A r : (\E e \in Ex : e.status = "pending" /\ e.ref = r) <=>
        \E i \in D : rs[i].ref = r /\ "pending" \in rs[i].ops
  <2> TAKE r
  <2>1. ASSUME NEW e \in Ex, e.status = "pending", e.ref = r
        PROVE  \E i \in D : rs[i].ref = r /\ "pending" \in rs[i].ops
    <3>1. PICK i \in D : \E o \in rs[i].ops \ {"ok"} : e = Err(i, o)
      BY <1>3
    <3>2. PICK o \in rs[i].ops \ {"ok"} : e = Err(i, o)
      BY <3>1
    <3>3. o = "pending" /\ rs[i].ref = r
      BY <1>4, <2>1, <3>2
    <3> QED BY <3>2, <3>3
  <2>2. ASSUME NEW i \in D, rs[i].ref = r, "pending" \in rs[i].ops
        PROVE  \E e \in Ex : e.status = "pending" /\ e.ref = r
    <3>1. Err(i, "pending") \in Ex
      BY <1>3, <2>2
    <3>2. Err(i, "pending").status = "pending" /\ Err(i, "pending").ref = r
      BY <1>4, <2>2
    <3> QED BY <3>1, <3>2
  <2> QED BY <2>1, <2>2
<1>8. \A r : (\E e \in Ex : e.sort /\ e.ref = r) <=> \E i \in D : rs[i].ref = r /\ "sort" \in rs[i].ops
  <2> TAKE r
  <2>1. ASSUME NEW e \in Ex, e.sort, e.ref = r
        PROVE  \E i \in D : rs[i].ref = r /\ "sort" \in rs[i].ops
    <3>1. PICK i \in D : \E o \in rs[i].ops \ {"ok"} : e = Err(i, o)
      BY <1>3
    <3>2. PICK o \in rs[i].ops \ {"ok"} : e = Err(i, o)
      BY <3>1
    <3>3. o = "sort" /\ rs[i].ref = r
      BY <1>4, <2>1, <3>2
    <3> QED BY <3>2, <3>3
  <2>2. ASSUME NEW i \in D, rs[i].ref = r, "sort" \in rs[i].ops
        PROVE  \E e \in Ex : e.sort /\ e.ref = r
    <3>1. Err(i, "sort") \in Ex
      BY <1>3, <2>2
    <3>2. Err(i, "sort").sort /\ Err(i, "sort").ref = r
      BY <1>4, <2>2
    <3> QED BY <3>1, <3>2
  <2> QED BY <2>1, <2>2
<1>9. \A e \in Ex : e.sort => e.status = "failed"
  <2> SUFFICES ASSUME NEW e \in Ex, e.sort PROVE e.status = "failed"
    OBVIOUS
  <2>1. PICK i \in D : \E o \in rs[i].ops \ {"ok"} : e = Err(i, o)
    BY <1>3
  <2>2. PICK o \in rs[i].ops \ {"ok"} : e = Err(i, o)
    BY <2>1
  <2>3. o = "sort"
    BY <1>4, <2>2
  <2> QED BY <1>4, <2>2, <2>3
<1>10. \A e \in Ro : ~e.sort /\ e.status = "failed"
  BY <1>5
<1>11. \A r : (\E e \in Ro : e.ref = r) <=> \E i \in D : rs[i].ref = r /\ rs[i].plan \in {"failed", "invalid"}
  <2> TAKE r
  <2>1. ASSUME NEW e \in Ro, e.ref = r
        PROVE  \E i \in D : rs[i].ref = r /\ rs[i].plan \in {"failed", "invalid"}
    <3>1. PICK i \in D : /\ rs[i].plan \in {"failed", "invalid"}
                         /\ e = [status |-> "failed", ref |-> rs[i].ref, sort |-> FALSE]
      BY <1>5
    <3>2. e.ref = rs[i].ref
      BY <3>1
    <3> QED BY <2>1, <3>1, <3>2
  <2>2. ASSUME NEW i \in D, rs[i].ref = r, rs[i].plan \in {"failed", "invalid"}
        PROVE  \E e \in Ro : e.ref = r
    <3>1. [status |-> "failed", ref |-> rs[i].ref, sort |-> FALSE] \in Ro
      BY <1>5, <2>2
    <3>2. [status |-> "failed", ref |-> rs[i].ref, sort |-> FALSE].ref = r
      BY <2>2
    <3> QED BY <3>1, <3>2
  <2> QED BY <2>1, <2>2
<1>12. \A r : r \in Outcomes!FailedRefs(rs) <=>
         \E i \in D : /\ rs[i].ref = r
                      /\ rs[i].plan = "failed" \/ rs[i].ops \cap {"failed", "sort"} # {}
  <2>1. \A r : r \in Outcomes!FailedRefs(rs) <=>
          \/ \E i \in D : rs[i].plan = "failed" /\ rs[i].ref = r
          \/ \E e \in Ex : e.status = "failed" /\ e.ref = r
    BY DEF Outcomes!FailedRefs, Outcomes!RefsOf, Outcomes!With, Ex
  <2> QED BY <1>6, <2>1
<1>13. \A r : r \in Outcomes!PendingRefs(rs) <=> \E i \in D : rs[i].ref = r /\ "pending" \in rs[i].ops
  <2>1. \A r : r \in Outcomes!PendingRefs(rs) <=> \E e \in Ex : e.status = "pending" /\ e.ref = r
    BY DEF Outcomes!PendingRefs, Ex
  <2> QED BY <1>7, <2>1
<1>14. \A r : r \in {e.ref : e \in {x \in Ex \cup Ro : x.status = "failed"}}
         <=> \E i \in D : /\ rs[i].ref = r
                          /\ \/ rs[i].plan \in {"failed", "invalid"}
                             \/ rs[i].ops \cap {"failed", "sort"} # {}
  <2>1. \A r : r \in {e.ref : e \in {x \in Ex \cup Ro : x.status = "failed"}}
          <=> \/ \E e \in Ex : e.status = "failed" /\ e.ref = r
              \/ \E e \in Ro : e.ref = r
    BY <1>10
  <2>2. ASSUME NEW r
        PROVE  (\/ \E e \in Ex : e.status = "failed" /\ e.ref = r
                \/ \E e \in Ro : e.ref = r) <=>
               \E i \in D : /\ rs[i].ref = r
                            /\ \/ rs[i].plan \in {"failed", "invalid"}
                               \/ rs[i].ops \cap {"failed", "sort"} # {}
    <3>1. (\E e \in Ex : e.status = "failed" /\ e.ref = r) <=>
            \E i \in D : rs[i].ref = r /\ rs[i].ops \cap {"failed", "sort"} # {}
      BY <1>6, Zenon
    <3>2. (\E e \in Ro : e.ref = r) <=> \E i \in D : rs[i].ref = r /\ rs[i].plan \in {"failed", "invalid"}
      BY <1>11, Zenon
    <3> QED BY <3>1, <3>2, Zenon
  <2> QED BY <2>1, <2>2, Zenon
<1>15. \A r : r \in {e.ref : e \in {x \in Ex \cup Ro : x.sort}}
         <=> \E i \in D : rs[i].ref = r /\ "sort" \in rs[i].ops
  <2>1. \A r : r \in {e.ref : e \in {x \in Ex \cup Ro : x.sort}} <=> \E e \in Ex : e.sort /\ e.ref = r
    BY <1>10
  <2> QED BY <1>8, <2>1
<1>16. \A e \in Ex \cup Ro : e.sort => e.status = "failed"
  BY <1>9, <1>10
<1> QED BY <1>1, <1>3, <1>12, <1>13, <1>14, <1>15, <1>16 DEF Ex, Ro, Err

\* A finite set in parts.
LEMMA Parts ==
  ASSUME NEW S, NEW T, NEW U, IsFiniteSet(S), IsFiniteSet(T), S \cap T = {}, U = S \cup T
  PROVE  /\ IsFiniteSet(U) /\ Cardinality(S) \in Nat /\ Cardinality(T) \in Nat
         /\ Cardinality(U) = Cardinality(S) + Cardinality(T)
<1>1. Cardinality(S) \in Nat /\ Cardinality(T) \in Nat
  BY FS_CardinalityType
<1>2. IsFiniteSet(S \cup T) /\ Cardinality(S \cup T) = Cardinality(S) + Cardinality(T) - Cardinality(S \cap T)
  BY FS_Union
<1>3. Cardinality(S \cap T) = 0
  BY FS_EmptySet
<1> QED BY <1>1, <1>2, <1>3

\* The first result tells what became of the rows (_complete, _fold_by_row).
LEMMA OutcomesFolded ==
  ASSUME categories \in BOOLEAN, NEW rs \in Seq(RowIn(categories))
  PROVE  Tells(categories, rs, <<>>, Outcomes!Folded(rs)) /\ SortErrors(rs, Outcomes!Folded(rs))
<1> DEFINE D == DOMAIN rs
           r == Outcomes!Folded(rs)
           ids == Outcomes!RowIds(rs)
           failed == {i \in ids : rs[i].ref \in Outcomes!FailedRefs(rs)}
           pending == {i \in ids \ failed : rs[i].ref \in Outcomes!PendingRefs(rs)}
           alone == {i \in Outcomes!With(rs, "failed") : rs[i].ref \notin Outcomes!RefsOf(rs, ids)}
           invalid == Outcomes!With(rs, "invalid")
           skipped == Outcomes!With(rs, "skipped")
           noop == Outcomes!Noop(rs)
           Of(fate) == FatedIn(categories, rs, <<>>, fate)
<1>1. /\ r.succeeded = Cardinality(ids \ (failed \cup pending))
      /\ r.failed = Cardinality(failed) + Cardinality(alone) + Cardinality(invalid)
      /\ r.pending = Cardinality(pending)
      /\ r.skipped = Cardinality(skipped) + Cardinality(noop)
      /\ r.errors = Outcomes!ExecErrors(rs) \cup Outcomes!RowErrors(rs)
  BY OutcomesSets DEF Outcomes!Folded
<1>2. \A i \in D : rs[i] \in RowIn(categories)
  OBVIOUS
<1>3. IsFiniteSet(D)
  <2>1. D = 1 .. Len(rs) /\ Len(rs) \in Nat
    OBVIOUS
  <2> QED BY <2>1, FS_Interval
<1>4. /\ \A i : i \in ids <=>
           /\ i \in D /\ rs[i].plan # "invalid"
           /\ \/ \E j \in D : rs[j].plan = "op" /\ rs[j].ref = rs[i].ref
              \/ categories /\ \A j \in D : rs[j].ref = rs[i].ref => rs[j].plan \notin {"failed", "skipped"}
      /\ \A i : i \in failed <=> i \in ids /\ rs[i].ref \in Outcomes!FailedRefs(rs)
      /\ \A i : i \in pending <=> i \in ids /\ i \notin failed /\ rs[i].ref \in Outcomes!PendingRefs(rs)
      /\ \A i : i \in alone <=> i \in D /\ rs[i].plan = "failed" /\ \A j \in ids : rs[j].ref # rs[i].ref
      /\ \A i : i \in invalid <=> i \in D /\ rs[i].plan = "invalid"
      /\ \A i : i \in skipped <=> i \in D /\ rs[i].plan = "skipped"
      /\ \A i : i \in noop <=>
           /\ i \in D /\ rs[i].plan # "invalid" /\ i \notin ids
           /\ \A j \in D : rs[j].ref = rs[i].ref => rs[j].plan \notin {"failed", "skipped"}
  BY DEF Outcomes!RowIds, Outcomes!Noop, Outcomes!With, Outcomes!RefsOf
<1>5. \A i \in D : /\ rs[i].plan \in {"op", "noop", "failed", "invalid", "skipped"}
                   /\ rs[i].plan # "op" => rs[i].ops = {}
                   /\ categories => rs[i].plan # "skipped"
  BY <1>2, RowInFacts
<1>6. \A fate : \A i : i \in Of(fate) <=> i \in D /\ FateIn(categories, rs[i]) = fate
  BY DEF FatedIn, TriedIn
<1>7. /\ \A q : q \in Outcomes!FailedRefs(rs) <=>
           \E i \in D : rs[i].ref = q /\ (rs[i].plan = "failed" \/ rs[i].ops \cap {"failed", "sort"} # {})
      /\ \A q : q \in Outcomes!PendingRefs(rs) <=> \E i \in D : rs[i].ref = q /\ "pending" \in rs[i].ops
  BY OutcomesErrors
<1>8. SortErrors(rs, r)
  <2>1. \A q : q \in {e.ref : e \in {x \in r.errors : x.sort}}
          <=> \E i \in D : rs[i].ref = q /\ "sort" \in rs[i].ops
    BY <1>1, OutcomesErrors
  <2>2. \A e \in r.errors : e.sort => e.status = "failed"
    BY <1>1, OutcomesErrors
  <2> HIDE DEF r
  <2> QED BY <2>1, <2>2 DEF SortErrors
<1>9. FailedIn(r) = {rs[i].ref : i \in Of("failed")}
  <2>1. \A q : q \in FailedIn(r) <=>
          \E i \in D : /\ rs[i].ref = q
                       /\ \/ rs[i].plan \in {"failed", "invalid"}
                          \/ rs[i].ops \cap {"failed", "sort"} # {}
    BY <1>1, OutcomesErrors DEF FailedIn
  <2>2. \A i : i \in Of("failed") <=>
          i \in D /\ (rs[i].plan \in {"failed", "invalid"} \/ rs[i].ops \cap {"failed", "sort"} # {})
    BY <1>6 DEF FateIn
  <2> HIDE DEF r, Of
  <2> QED BY <2>1, <2>2
<1> HIDE DEF r, ids, failed, pending, alone, invalid, skipped, noop, Of
<1>10. /\ failed \cap alone = {} /\ (failed \cup alone) \cap invalid = {} /\ skipped \cap noop = {}
       /\ IsFiniteSet(failed) /\ IsFiniteSet(alone) /\ IsFiniteSet(invalid)
       /\ IsFiniteSet(skipped) /\ IsFiniteSet(noop) /\ IsFiniteSet(failed \cup alone)
  <2>1. /\ failed \subseteq D /\ alone \subseteq D /\ invalid \subseteq D /\ skipped \subseteq D /\ noop \subseteq D
        /\ failed \cup alone \subseteq D
    BY <1>4
  <2>2. failed \cap alone = {} /\ (failed \cup alone) \cap invalid = {}
    BY <1>4
  <2>3. skipped \cap noop = {}
    BY <1>4
  <2> QED BY <1>3, <2>1, <2>2, <2>3, FS_Subset
<1>11. /\ r.failed = Cardinality(failed \cup alone \cup invalid)
       /\ r.skipped = Cardinality(skipped \cup noop)
  <2>1. Cardinality(failed \cup alone) = Cardinality(failed) + Cardinality(alone)
    BY <1>10, Parts
  <2>2. Cardinality(failed \cup alone \cup invalid) = Cardinality(failed \cup alone) + Cardinality(invalid)
    <3> DEFINE both == failed \cup alone
    <3>1. IsFiniteSet(both) /\ both \cap invalid = {} /\ IsFiniteSet(invalid)
      BY <1>10
    <3> HIDE DEF both
    <3>2. Cardinality(both \cup invalid) = Cardinality(both) + Cardinality(invalid)
      BY <3>1, Parts
    <3> QED BY <3>2 DEF both
  <2>3. Cardinality(skipped \cup noop) = Cardinality(skipped) + Cardinality(noop)
    BY <1>10, Parts
  <2> QED BY <1>1, <2>1, <2>2, <2>3
<1>12. ASSUME DistinctIn(rs)
       PROVE  /\ ids \ (failed \cup pending) = Of("succeeded")
              /\ failed \cup alone \cup invalid = Of("failed")
              /\ pending = Of("pending")
              /\ skipped \cup noop = Of("skipped")
  <2>1. \A i : i \in ids <=> i \in D /\ (rs[i].plan = "op" \/ (categories /\ rs[i].plan = "noop"))
    BY <1>4, <1>5, <1>12 DEF DistinctIn
  <2>2. \A i \in D : rs[i].ref \in Outcomes!FailedRefs(rs) <=>
          rs[i].plan = "failed" \/ rs[i].ops \cap {"failed", "sort"} # {}
    BY <1>7, <1>12 DEF DistinctIn
  <2>3. \A i \in D : rs[i].ref \in Outcomes!PendingRefs(rs) <=> "pending" \in rs[i].ops
    BY <1>7, <1>12 DEF DistinctIn
  <2>4. \A i : i \in failed <=> i \in D /\ rs[i].ops \cap {"failed", "sort"} # {}
    BY <1>4, <1>5, <2>1, <2>2
  <2>5. \A i : i \in alone <=> i \in D /\ rs[i].plan = "failed"
    BY <1>4, <2>1, <1>12 DEF DistinctIn
  <2>6. \A i : i \in noop <=> i \in D /\ rs[i].plan = "noop" /\ ~categories
    BY <1>4, <1>5, <2>1, <1>12 DEF DistinctIn
  <2>7. \A i : i \in pending <=> i \in D /\ i \notin failed /\ "pending" \in rs[i].ops
    BY <1>4, <1>5, <2>1, <2>3
  <2>8. pending = Of("pending")
    BY <1>5, <1>6, <2>4, <2>7 DEF FateIn
  <2>9. failed \cup alone \cup invalid = Of("failed")
    BY <1>4, <1>6, <2>4, <2>5 DEF FateIn
  <2>10. skipped \cup noop = Of("skipped")
    BY <1>4, <1>5, <1>6, <2>6 DEF FateIn
  <2>11. ids \ (failed \cup pending) = Of("succeeded")
    <3>1. \A i : i \in ids \ (failed \cup pending) <=>
            /\ i \in D
            /\ rs[i].plan = "op" \/ (categories /\ rs[i].plan = "noop")
            /\ rs[i].ops \cap {"failed", "sort"} = {} /\ "pending" \notin rs[i].ops
      BY <2>1, <2>4, <2>7
    <3>2. \A i \in D : FateIn(categories, rs[i]) = "succeeded" <=>
            /\ rs[i].plan = "op" \/ (categories /\ rs[i].plan = "noop")
            /\ rs[i].ops \cap {"failed", "sort"} = {} /\ "pending" \notin rs[i].ops
      BY <1>5 DEF FateIn
    <3> QED BY <1>6, <3>1, <3>2
  <2> QED BY <2>8, <2>9, <2>10, <2>11
<1>13. Of("failed") \subseteq failed \cup alone \cup invalid
  <2> SUFFICES ASSUME NEW i \in D, FateIn(categories, rs[i]) = "failed", i \notin alone, i \notin invalid
               PROVE  i \in failed
    BY <1>6
  <2>1. rs[i].plan # "invalid"
    BY <1>4
  <2>2. rs[i].plan = "failed" \/ rs[i].ops \cap {"failed", "sort"} # {}
    BY <2>1 DEF FateIn
  <2>3. rs[i].ref \in Outcomes!FailedRefs(rs)
    BY <1>7, <2>2
  <2>4. i \in ids
    <3>1. CASE rs[i].plan = "op"
      BY <1>4, <3>1
    <3>2. CASE rs[i].plan = "failed"
      <4>1. PICK j \in ids : rs[j].ref = rs[i].ref
        BY <1>4, <3>2
      <4>2. \E k \in D : rs[k].plan = "op" /\ rs[k].ref = rs[j].ref
        BY <1>4, <3>2, <4>1
      <4> QED BY <1>4, <2>1, <4>1, <4>2
    <3> QED BY <1>5, <2>2, <3>1, <3>2
  <2> QED BY <1>4, <2>3, <2>4
<1>14. ids \ (failed \cup pending) \subseteq Of("succeeded") \cup Of("skipped")
  <2> SUFFICES ASSUME NEW i \in ids, i \notin failed, i \notin pending
               PROVE  FateIn(categories, rs[i]) \in {"succeeded", "skipped"}
    BY <1>4, <1>6
  <2>1. rs[i].plan \notin {"failed", "invalid"} /\ rs[i].ops \cap {"failed", "sort"} = {}
    BY <1>4, <1>7
  <2>2. "pending" \notin rs[i].ops
    BY <1>4, <1>7
  <2> QED BY <2>1, <2>2 DEF FateIn
<1>15. /\ r.failed >= Cardinality(Of("failed"))
       /\ r.succeeded <= Cardinality(Of("succeeded") \cup Of("skipped"))
  <2>1. IsFiniteSet(failed \cup alone \cup invalid) /\ IsFiniteSet(Of("succeeded") \cup Of("skipped"))
    <3>1. Of("succeeded") \cup Of("skipped") \subseteq D
      BY <1>6
    <3> QED BY <1>3, <1>10, <3>1, FS_Subset, FS_Union
  <2>2. Cardinality(Of("failed")) <= Cardinality(failed \cup alone \cup invalid)
    BY <1>13, <2>1, FS_Subset
  <2>3. Cardinality(ids \ (failed \cup pending)) <= Cardinality(Of("succeeded") \cup Of("skipped"))
    BY <1>14, <2>1, FS_Subset
  <2>4. Cardinality(Of("failed")) \in Nat /\ Cardinality(failed \cup alone \cup invalid) \in Nat
    <3>1. Of("failed") \subseteq D
      BY <1>6
    <3> QED BY <1>3, <2>1, <3>1, FS_Subset, FS_CardinalityType
  <2> QED BY <1>1, <1>11, <2>2, <2>3, <2>4
<1>16. Tells(categories, rs, <<>>, r)
  BY <1>1, <1>9, <1>11, <1>12, <1>15 DEF Tells, Of
<1> QED BY <1>8, <1>16 DEF r

\* A set as a list has each element once.
LEMMA OutcomesSetToSeq ==
  ASSUME NEW W, IsFiniteSet(W)
  PROVE  LET q == Outcomes!SetToSeq(W)
         IN  /\ q \in Seq(W)
             /\ \A i, j \in DOMAIN q : q[i] = q[j] => i = j
             /\ \A w \in W : \E i \in DOMAIN q : q[i] = w
<1> DEFINE n == Cardinality(W)
           q == Outcomes!SetToSeq(W)
<1>1. n \in Nat /\ ExistsBijection(1 .. n, W)
  BY FS_CardinalityType
<1>2. q = CHOOSE g \in [1 .. n -> W] : \A i, j \in DOMAIN g : g[i] = g[j] => i = j
  BY OutcomesSets DEF Outcomes!SetToSeq, Outcomes!IsInjective
<1>3. PICK h \in Bijection(1 .. n, W) : TRUE
  BY <1>1 DEF ExistsBijection
<1>4. h \in [1 .. n -> W] /\ \A i, j \in DOMAIN h : h[i] = h[j] => i = j
  BY <1>3 DEF Bijection, Injection, IsInjective
<1>5. q \in [1 .. n -> W] /\ \A i, j \in DOMAIN q : q[i] = q[j] => i = j
  BY <1>2, <1>4
<1> HIDE DEF q
<1>6. IsFiniteSet(1 .. n) /\ Cardinality(1 .. n) = n
  BY <1>1, FS_Interval
<1>7. q \in Surjection(1 .. n, W)
  <2>1. q \in Injection(1 .. n, W)
    BY <1>5 DEF Injection, IsInjective
  <2> QED BY <1>6, <2>1, FS_Injection
<1>8. DOMAIN q = 1 .. n /\ \A w \in W : \E i \in 1 .. n : q[i] = w
  BY <1>5, <1>7 DEF Surjection
<1>9. q \in Seq(W)
  <2> HIDE DEF n
  <2> QED BY <1>1, <1>5
<1> QED BY <1>5, <1>8, <1>9 DEF q

\* The paths of rows of distinct paths that are tried again: of those refused
\* for default_sort_by.
LEMMA OutcomesPaths ==
  ASSUME categories \in BOOLEAN, rows \in Seq(RowIn(categories)), DistinctIn(rows),
         NEW first, SortErrors(rows, first)
  PROVE  LET S == {i \in DOMAIN rows : "sort" \in rows[i].ops}
         IN  /\ \A p : p \in Outcomes!RetriedPaths(first) <=> \E i \in S : rows[i].ref = p
             /\ \A i \in S : rows[i].plan = "op" /\ FateIn(categories, rows[i]) = "failed"
<1> DEFINE D == DOMAIN rows
           S == {i \in D : "sort" \in rows[i].ops}
<1>1. \A i \in D : rows[i] \in RowIn(categories) /\ i \in Nat
  OBVIOUS
<1>2. \A i \in S : rows[i].plan = "op" /\ FateIn(categories, rows[i]) = "failed"
  BY <1>1, RowInFacts DEF FateIn
<1>3. \A p : p \in {e.ref : e \in {x \in first.errors : x.sort}} <=> \E i \in S : rows[i].ref = p
  BY DEF SortErrors
<1>4. ASSUME NEW i \in S
      PROVE  rows[Outcomes!Max({j \in D \ Outcomes!With(rows, "invalid") : rows[j].ref = rows[i].ref})].plan = "op"
  <2>1. {j \in D \ Outcomes!With(rows, "invalid") : rows[j].ref = rows[i].ref} = {i}
    BY <1>2 DEF DistinctIn, Outcomes!With
  <2>2. Outcomes!Max({i}) = i
    <3>1. i \in Nat /\ i >= i
      BY <1>1
    <3> QED BY <3>1 DEF Outcomes!Max
  <2> QED BY <1>2, <2>1, <2>2
<1>5. \A p : p \in Outcomes!RetriedPaths(first) <=> \E i \in S : rows[i].ref = p
  <2> DEFINE last(p) == Outcomes!Max({j \in D \ Outcomes!With(rows, "invalid") : rows[j].ref = p})
             refs == {e.ref : e \in {x \in first.errors : x.sort}}
  <2>1. Outcomes!RetriedPaths(first) = {p \in refs : rows[last(p)].plan = "op"}
    BY DEF Outcomes!RetriedPaths
  <2>2. \A p : p \in refs <=> \E i \in S : rows[i].ref = p
    BY <1>3
  <2>3. \A i \in S : rows[last(rows[i].ref)].plan = "op"
    BY <1>4
  <2> HIDE DEF last, refs, S
  <2> QED BY <2>1, <2>2, <2>3
<1> QED BY <1>2, <1>5

\* The second try replaces the failures of the rows it takes (_merge_retry).
LEMMA OutcomesMerged ==
  ASSUME categories \in BOOLEAN, rows \in Seq(RowIn(categories)), DistinctIn(rows),
         NEW first, Tells(categories, rows, <<>>, first), SortErrors(rows, first),
         NEW paths, paths = Outcomes!RetriedPaths(first),
         NEW f \in [paths -> RowIn(categories)], \A p \in paths : f[p].ref = p,
         NEW retry, retry = Outcomes!Folded(Outcomes!SetToSeq({f[p] : p \in paths})),
         NEW after, after = Outcomes!Merged(first, retry)
  PROVE  Tells(categories, rows, f, after) \/ f = <<>>
<1> DEFINE D == DOMAIN rows
           S == {i \in D : "sort" \in rows[i].ops}
           W == {f[p] : p \in paths}
           q == Outcomes!SetToSeq(W)
           A(fate) == FatedIn(categories, rows, <<>>, fate)
           B(fate) == FatedIn(categories, q, <<>>, fate)
           C(fate) == FatedIn(categories, rows, f, fate)
           M(fate) == {i \in S : FateIn(categories, f[rows[i].ref]) = fate}
           gone == {e \in first.errors : e.status = "failed" /\ e.ref \in paths}
<1> SUFFICES ASSUME f # <<>> PROVE Tells(categories, rows, f, after)
  OBVIOUS
<1>1. /\ \A p : p \in paths <=> \E i \in S : rows[i].ref = p
      /\ \A i \in S : rows[i].plan = "op" /\ FateIn(categories, rows[i]) = "failed"
  BY OutcomesPaths
<1>2. IsFiniteSet(D)
  <2>1. D = 1 .. Len(rows) /\ Len(rows) \in Nat
    OBVIOUS
  <2> QED BY <2>1, FS_Interval
<1>3. \A i, j \in D : rows[i].ref = rows[j].ref => i = j
  BY DEF DistinctIn
<1>4. /\ first.succeeded = Cardinality(A("succeeded")) /\ first.failed = Cardinality(A("failed"))
      /\ first.pending = Cardinality(A("pending")) /\ first.skipped = Cardinality(A("skipped"))
      /\ FailedIn(first) = {rows[i].ref : i \in A("failed")}
  BY DEF Tells
<1>5. IsFiniteSet(S) /\ Cardinality(S) \in Nat
  BY <1>2, FS_Subset, FS_CardinalityType
<1>6. IsFiniteSet(paths) /\ Cardinality(paths) = Cardinality(S)
  <2> DEFINE b == [i \in S |-> rows[i].ref]
  <2>1. b \in [S -> paths]
    BY <1>1
  <2>2. \A i, j \in S : b[i] = b[j] => i = j
    BY <1>3
  <2>3. \A p \in paths : \E i \in S : b[i] = p
    BY <1>1
  <2> HIDE DEF b, S
  <2>4. b \in Bijection(S, paths)
    BY <2>1, <2>2, <2>3 DEF Bijection, Injection, Surjection, IsInjective
  <2>5. ExistsBijection(S, paths)
    BY <2>4 DEF ExistsBijection
  <2> QED BY <1>5, <2>5, FS_Bijection
<1>7. IsFiniteSet(W)
  <2> DEFINE b == [p \in paths |-> f[p]]
  <2>1. b \in [paths -> W] /\ \A w \in W : \E p \in paths : b[p] = w
    OBVIOUS
  <2> HIDE DEF b, W
  <2>2. b \in Surjection(paths, W)
    BY <2>1 DEF Surjection
  <2> QED BY <1>6, <2>2, FS_Surjection
<1>8. /\ q \in Seq(W)
      /\ \A i, j \in DOMAIN q : q[i] = q[j] => i = j
      /\ \A w \in W : \E i \in DOMAIN q : q[i] = w
  BY <1>7, OutcomesSetToSeq
<1>9. retry = Outcomes!Folded(q)
  OBVIOUS
<1> HIDE DEF q
<1>10. q \in Seq(RowIn(categories)) /\ \A j \in DOMAIN q : q[j] \in W /\ q[j].ref \in paths /\ q[j] = f[q[j].ref]
  <2>1. \A w \in W : w \in RowIn(categories) /\ w.ref \in paths /\ w = f[w.ref]
    OBVIOUS
  <2>2. DOMAIN q = 1 .. Len(q) /\ Len(q) \in Nat /\ \A j \in DOMAIN q : q[j] \in W
    BY <1>8
  <2>3. q \in Seq(RowIn(categories))
    <3> HIDE DEF W
    <3> QED BY <1>8, <2>1, <2>2
  <2> QED BY <2>1, <2>2, <2>3
<1>11. DistinctIn(q)
  BY <1>8, <1>10 DEF DistinctIn
<1>12. Tells(categories, q, <<>>, retry)
  BY <1>9, <1>10, OutcomesFolded
<1>13. /\ retry.succeeded = Cardinality(B("succeeded")) /\ retry.failed = Cardinality(B("failed"))
       /\ retry.pending = Cardinality(B("pending")) /\ retry.skipped = Cardinality(B("skipped"))
       /\ FailedIn(retry) = {q[i].ref : i \in B("failed")}
  BY <1>11, <1>12 DEF Tells
<1>14. \A fate : /\ \A i : i \in A(fate) <=> i \in D /\ FateIn(categories, rows[i]) = fate
                 /\ \A j : j \in B(fate) <=> j \in DOMAIN q /\ FateIn(categories, q[j]) = fate
                 /\ \A i : i \in M(fate) <=> i \in S /\ FateIn(categories, f[rows[i].ref]) = fate
  BY DEF FatedIn, TriedIn
<1>15. \A fate : \A i : i \in C(fate) <=>
         \/ i \in S /\ FateIn(categories, f[rows[i].ref]) = fate
         \/ i \in D \ S /\ FateIn(categories, rows[i]) = fate
  <2>1. ASSUME NEW i \in S PROVE TriedIn(rows, f, i) = f[rows[i].ref]
    BY <1>1 DEF TriedIn
  <2>2. ASSUME NEW i \in D \ S PROVE TriedIn(rows, f, i) = rows[i]
    <3>1. rows[i].ref \notin paths
      BY <1>1, <1>3
    <3> QED BY <3>1 DEF TriedIn
  <2>3. \A fate : \A i : i \in C(fate) <=> i \in D /\ FateIn(categories, TriedIn(rows, f, i)) = fate
    BY DEF FatedIn
  <2> HIDE DEF C
  <2> QED BY <2>1, <2>2, <2>3
<1> HIDE DEF A, B, C, M, W
<1>16. ASSUME NEW fate
       PROVE  /\ IsFiniteSet(A(fate)) /\ IsFiniteSet(B(fate)) /\ IsFiniteSet(M(fate))
              /\ Cardinality(M(fate)) = Cardinality(B(fate))
  <2>1. IsFiniteSet(A(fate)) /\ IsFiniteSet(M(fate))
    <3>1. A(fate) \subseteq D /\ M(fate) \subseteq D
      BY <1>14
    <3> QED BY <1>2, <3>1, FS_Subset
  <2> DEFINE to == [i \in M(fate) |-> CHOOSE j \in DOMAIN q : q[j] = f[rows[i].ref]]
  <2>2. \A i \in S : rows[i].ref \in paths /\ f[rows[i].ref] \in W /\ f[rows[i].ref].ref = rows[i].ref
    BY <1>1 DEF W
  <2>3. \A i \in M(fate) : to[i] \in DOMAIN q /\ q[to[i]] = f[rows[i].ref]
    <3> TAKE i \in M(fate)
    <3>1. \E j \in DOMAIN q : q[j] = f[rows[i].ref]
      BY <1>8, <1>14, <2>2
    <3> QED BY <3>1
  <2> HIDE DEF to
  <2>4. \A i \in M(fate) : to[i] \in B(fate)
    BY <1>14, <2>3
  <2>5. \A i, j \in M(fate) : to[i] = to[j] => i = j
    BY <1>3, <1>14, <2>2, <2>3
  <2>6. \A j \in B(fate) : \E i \in M(fate) : to[i] = j
    <3> TAKE j \in B(fate)
    <3>1. j \in DOMAIN q /\ FateIn(categories, q[j]) = fate /\ q[j].ref \in paths /\ q[j] = f[q[j].ref]
      BY <1>10, <1>14
    <3>2. PICK i \in S : rows[i].ref = q[j].ref
      BY <1>1, <3>1
    <3>3. i \in M(fate) /\ q[to[i]] = q[j]
      BY <1>14, <2>3, <3>1, <3>2
    <3> QED BY <1>8, <2>3, <3>1, <3>3
  <2>7. to \in [M(fate) -> B(fate)]
    <3>1. to = [i \in M(fate) |-> to[i]]
      BY DEF to
    <3> QED BY <2>4, <3>1
  <2>8. to \in Bijection(M(fate), B(fate))
    BY <2>5, <2>6, <2>7 DEF Bijection, Injection, Surjection, IsInjective
  <2>9. ExistsBijection(M(fate), B(fate))
    BY <2>8 DEF ExistsBijection
  <2> QED BY <2>1, <2>9, FS_Bijection
<1>17. ASSUME NEW fate \in {"succeeded", "pending", "skipped"}
       PROVE  Cardinality(C(fate)) = Cardinality(A(fate)) + Cardinality(B(fate))
  <2>1. A(fate) \cap M(fate) = {}
    BY <1>1, <1>14
  <2>2. C(fate) = A(fate) \cup M(fate)
    <3>1. \A i \in S : i \notin A(fate)
      BY <1>1, <1>14
    <3> QED BY <1>14, <1>15, <3>1
  <2>3. Cardinality(C(fate)) = Cardinality(A(fate)) + Cardinality(M(fate))
    BY <1>16, <2>1, <2>2, Parts
  <2> QED BY <1>16, <2>3
<1>18. Cardinality(C("failed")) = Cardinality(A("failed")) - Cardinality(paths) + Cardinality(B("failed"))
  <2> DEFINE A0 == A("failed") \ S
  <2>1. IsFiniteSet(A0) /\ A0 \cap S = {} /\ A("failed") = A0 \cup S
    <3>1. S \subseteq A("failed")
      BY <1>1, <1>14
    <3> QED BY <1>16, <3>1, FS_Subset
  <2>2. C("failed") = A0 \cup M("failed") /\ A0 \cap M("failed") = {}
    <3>1. \A i : i \in A0 <=> i \in D \ S /\ FateIn(categories, rows[i]) = "failed"
      BY <1>14
    <3> QED BY <1>14, <1>15, <3>1
  <2> HIDE DEF A0, S
  <2>3. Cardinality(A("failed")) = Cardinality(A0) + Cardinality(S) /\ Cardinality(A0) \in Nat
    BY <1>5, <2>1, Parts
  <2>4. Cardinality(C("failed")) = Cardinality(A0) + Cardinality(M("failed")) /\ Cardinality(M("failed")) \in Nat
    BY <1>16, <2>1, <2>2, Parts
  <2>5. Cardinality(M("failed")) = Cardinality(B("failed")) /\ Cardinality(paths) = Cardinality(S) /\ Cardinality(S) \in Nat
    BY <1>5, <1>6, <1>16
  <2>6. \A a, b, c \in Nat : a + b = (a + c) - c + b
    OBVIOUS
  <2> QED BY <2>3, <2>4, <2>5, <2>6
<1>19. /\ after.succeeded = first.succeeded + retry.succeeded
       /\ after.failed = first.failed - Cardinality({e.ref : e \in gone}) + retry.failed
       /\ after.pending = first.pending + retry.pending
       /\ after.skipped = first.skipped + retry.skipped
       /\ after.errors = (first.errors \ gone) \cup retry.errors
  BY OutcomesSets DEF Outcomes!Merged
<1>20. {e.ref : e \in gone} = paths
  <2>1. ASSUME NEW p \in paths PROVE \E e \in gone : e.ref = p
    <3>1. PICK i \in S : rows[i].ref = p
      BY <1>1
    <3>2. p \in {e.ref : e \in {x \in first.errors : x.sort}}
      BY <3>1 DEF SortErrors
    <3>3. PICK e \in first.errors : e.sort /\ e.ref = p
      BY <3>2
    <3> QED BY <3>3 DEF SortErrors
  <2> QED BY <2>1
<1>21. FailedIn(after) = (FailedIn(first) \ paths) \cup FailedIn(retry)
  <2>1. \A r : \A p : p \in FailedIn(r) <=> \E e \in r.errors : e.status = "failed" /\ e.ref = p
    BY DEF FailedIn
  <2>2. \A e : e \in after.errors <=>
          \/ e \in first.errors /\ ~(e.status = "failed" /\ e.ref \in paths)
          \/ e \in retry.errors
    BY <1>19
  <2> HIDE DEF gone
  <2>3. ASSUME NEW p PROVE p \in FailedIn(after) <=> (p \in FailedIn(first) /\ p \notin paths) \/ p \in FailedIn(retry)
    <3>1. p \in FailedIn(after) <=> \E e \in after.errors : e.status = "failed" /\ e.ref = p
      BY <2>1, Zenon
    <3>2. p \in FailedIn(first) <=> \E e \in first.errors : e.status = "failed" /\ e.ref = p
      BY <2>1, Zenon
    <3>3. p \in FailedIn(retry) <=> \E e \in retry.errors : e.status = "failed" /\ e.ref = p
      BY <2>1, Zenon
    <3> QED BY <2>2, <3>1, <3>2, <3>3, Zenon
  <2> QED BY <2>3
<1>22. FailedIn(after) = {rows[i].ref : i \in C("failed")}
  <2>1. \A p : p \in FailedIn(first) \ paths <=> \E i \in D \ S : rows[i].ref = p /\ FateIn(categories, rows[i]) = "failed"
    <3>1. \A i \in D : rows[i].ref \in paths <=> i \in S
      BY <1>1, <1>3
    <3> QED BY <1>4, <1>14, <3>1
  <2>2. \A p : p \in FailedIn(retry) <=> \E i \in S : rows[i].ref = p /\ FateIn(categories, f[rows[i].ref]) = "failed"
    <3>1. ASSUME NEW j \in B("failed")
          PROVE  \E i \in S : rows[i].ref = q[j].ref /\ FateIn(categories, f[rows[i].ref]) = "failed"
      <4>1. j \in DOMAIN q /\ FateIn(categories, q[j]) = "failed" /\ q[j].ref \in paths /\ q[j] = f[q[j].ref]
        BY <1>10, <1>14
      <4>2. PICK i \in S : rows[i].ref = q[j].ref
        BY <1>1, <4>1
      <4>3. FateIn(categories, f[rows[i].ref]) = "failed"
        BY <4>1, <4>2, Zenon
      <4> QED BY <4>2, <4>3
    <3>2. ASSUME NEW i \in S, FateIn(categories, f[rows[i].ref]) = "failed"
          PROVE  \E j \in B("failed") : q[j].ref = rows[i].ref
      <4>1. rows[i].ref \in paths /\ f[rows[i].ref] \in W /\ f[rows[i].ref].ref = rows[i].ref
        BY <1>1 DEF W
      <4>2. PICK j \in DOMAIN q : q[j] = f[rows[i].ref]
        BY <1>8, <4>1
      <4> QED BY <1>14, <3>2, <4>1, <4>2
    <3> QED BY <1>13, <3>1, <3>2
  <2>3. \A p : p \in FailedIn(after) <=> p \in FailedIn(first) \ paths \/ p \in FailedIn(retry)
    BY <1>21
  <2>4. \A p : p \in {rows[i].ref : i \in C("failed")} <=>
          \/ \E i \in D \ S : rows[i].ref = p /\ FateIn(categories, rows[i]) = "failed"
          \/ \E i \in S : rows[i].ref = p /\ FateIn(categories, f[rows[i].ref]) = "failed"
    BY <1>15
  <2> QED BY <2>1, <2>2, <2>3, <2>4
<1>23. /\ after.succeeded = Cardinality(C("succeeded")) /\ after.pending = Cardinality(C("pending"))
       /\ after.skipped = Cardinality(C("skipped"))
  BY <1>4, <1>13, <1>17, <1>19
<1>24. after.failed = Cardinality(C("failed"))
  BY <1>4, <1>13, <1>18, <1>19, <1>20
<1> QED BY <1>22, <1>23, <1>24 DEF Tells, C

\* RatioExceeded of a limit and a result.
Exceeds(l, r) == l # None /\ r.failed * 100 > l * (r.succeeded + r.failed + r.pending)

\* The inductive invariant of an import: a result tells what became of the
\* rows, of the first try until the second.
OutcomesInv ==
  /\ categories \in BOOLEAN /\ limit \in Percents \cup {None} /\ rows \in Seq(RowIn(categories))
  /\ pc \in {"rows", "retry", "check", "done"}
  /\ pc # "done" => ~raised
  /\ pc \in {"rows", "retry"} => second = <<>>
  /\ pc = "retry" => Tells(categories, rows, <<>>, result) /\ SortErrors(rows, result)
  /\ pc \in {"check", "done"} => Tells(categories, rows, second, result)
  /\ raised => Exceeds(limit, result)

LEMMA OutcomesInit == Outcomes!Init => OutcomesInv
<1> SUFFICES ASSUME Outcomes!Init PROVE OutcomesInv
  OBVIOUS
<1>1. rows \in Seq(RowIn(categories))
  BY DEF Outcomes!Init
<1> QED BY <1>1 DEF Outcomes!Init, OutcomesInv

LEMMA OutcomesAddRow == OutcomesInv /\ Outcomes!AddRow => OutcomesInv'
<1> SUFFICES ASSUME OutcomesInv, Outcomes!AddRow PROVE OutcomesInv'
  OBVIOUS
<1>1. PICK row \in RowIn(categories) : rows' = Append(rows, row)
  BY OutcomesRow DEF Outcomes!AddRow
<1>2. rows' \in Seq(RowIn(categories))
  BY <1>1 DEF OutcomesInv
<1>3. /\ pc = "rows" /\ pc' = pc /\ categories' = categories /\ limit' = limit
      /\ result' = result /\ second' = second /\ raised' = raised
  BY DEF Outcomes!AddRow
<1> QED BY <1>2, <1>3 DEF OutcomesInv

LEMMA OutcomesComplete == OutcomesInv /\ Outcomes!Complete => OutcomesInv'
<1> SUFFICES ASSUME OutcomesInv, Outcomes!Complete PROVE OutcomesInv'
  OBVIOUS
<1>1. /\ pc = "rows" /\ result' = Outcomes!Folded(rows) /\ pc' \in {"retry", "check"}
      /\ categories' = categories /\ limit' = limit /\ rows' = rows /\ second' = second /\ raised' = raised
  BY DEF Outcomes!Complete
<1>2. categories \in BOOLEAN /\ rows \in Seq(RowIn(categories)) /\ second = <<>> /\ ~raised
  BY <1>1 DEF OutcomesInv
<1>3. Tells(categories, rows, <<>>, result') /\ SortErrors(rows, result')
  BY <1>1, <1>2, OutcomesFolded
<1> QED BY <1>1, <1>2, <1>3 DEF OutcomesInv

LEMMA OutcomesRetry == OutcomesInv /\ Outcomes!Retry => OutcomesInv'
<1> SUFFICES ASSUME OutcomesInv, Outcomes!Retry PROVE OutcomesInv'
  OBVIOUS
<1> DEFINE paths == Outcomes!RetriedPaths(result)
           retry == Outcomes!Folded(Outcomes!SetToSeq({second'[p] : p \in paths}))
<1>1. /\ pc = "retry" /\ pc' = "check" /\ categories' = categories /\ limit' = limit
      /\ rows' = rows /\ raised' = raised
  BY DEF Outcomes!Retry
<1>2. /\ second' \in [paths -> RowIn(categories)] /\ \A p \in paths : second'[p].ref = p
      /\ result' = IF paths = {} THEN result ELSE Outcomes!Merged(result, retry)
  BY OutcomesRow DEF Outcomes!Retry
<1>3. /\ categories \in BOOLEAN /\ limit \in Percents \cup {None} /\ rows \in Seq(RowIn(categories)) /\ ~raised
      /\ Tells(categories, rows, <<>>, result) /\ SortErrors(rows, result)
  BY <1>1 DEF OutcomesInv
<1>4. Tells(categories, rows, second', result')
  <2>1. CASE paths = {}
    <3>1. second' = <<>>
      BY <1>2, <2>1
    <3> QED BY <1>2, <1>3, <2>1, <3>1
  <2>2. CASE paths # {}
    <3>1. second' # <<>>
      <4>1. DOMAIN second' = paths
        BY <1>2
      <4> HIDE DEF paths
      <4> QED BY <2>2, <4>1
    <3>2. CASE DistinctIn(rows)
      <4>1. result' = Outcomes!Merged(result, retry)
        BY <1>2, <2>2
      <4> QED BY <1>2, <1>3, <3>1, <3>2, <4>1, OutcomesMerged
    <3>3. CASE ~DistinctIn(rows)
      BY <3>1, <3>3 DEF Tells
    <3> QED BY <3>2, <3>3
  <2> QED BY <2>1, <2>2
<1> QED BY <1>1, <1>3, <1>4 DEF OutcomesInv

LEMMA OutcomesCheck == OutcomesInv /\ Outcomes!Check => OutcomesInv'
<1> SUFFICES ASSUME OutcomesInv, Outcomes!Check PROVE OutcomesInv'
  OBVIOUS
<1>1. /\ pc = "check" /\ pc' = "done" /\ raised' = (raised \/ Exceeds(limit, result))
      /\ categories' = categories /\ limit' = limit /\ rows' = rows
      /\ result' = result /\ second' = second
  BY DEF Outcomes!Check, Outcomes!RatioExceeded, Exceeds
<1> QED BY <1>1 DEF OutcomesInv

LEMMA OutcomesUnchanged == OutcomesInv /\ UNCHANGED Outcomes!vars => OutcomesInv'
BY DEF OutcomesInv, Outcomes!vars

\* What the invariant says of a result.
LEMMA OutcomesCounts ==
  OutcomesInv => /\ Outcomes!CountsAreFates /\ Outcomes!ErrorsNameFailed
                 /\ Outcomes!NoFailureHidden /\ Outcomes!RepairedNeverRaises
<1> SUFFICES ASSUME OutcomesInv
             PROVE  /\ Outcomes!CountsAreFates /\ Outcomes!ErrorsNameFailed
                    /\ Outcomes!NoFailureHidden /\ Outcomes!RepairedNeverRaises
  OBVIOUS
<1>1. /\ \A fate : Outcomes!Fated(fate) = FatedIn(categories, rows, second, fate)
      /\ Outcomes!Distinct <=> DistinctIn(rows)
      /\ \A S : Outcomes!Cardinality(S) = Cardinality(S)
  BY OutcomesRow, OutcomesSets
<1>2. Outcomes!Counted => Tells(categories, rows, second, result)
  BY DEF OutcomesInv, Outcomes!Counted
<1>3. Outcomes!CountsAreFates
  BY <1>1, <1>2 DEF Outcomes!CountsAreFates, Tells
<1>4. Outcomes!ErrorsNameFailed
  BY <1>1, <1>2 DEF Outcomes!ErrorsNameFailed, Outcomes!RefsOf, Tells, FailedIn
<1>5. Outcomes!NoFailureHidden
  BY <1>1, <1>2 DEF Outcomes!NoFailureHidden, Tells
<1>6. Outcomes!RepairedNeverRaises
  <2> SUFFICES ASSUME DistinctIn(rows), FatedIn(categories, rows, second, "failed") = {}, pc = "done", raised
               PROVE  FALSE
    BY <1>1 DEF Outcomes!RepairedNeverRaises
  <2>1. /\ result.succeeded = Cardinality(FatedIn(categories, rows, second, "succeeded"))
        /\ result.failed = 0
        /\ result.pending = Cardinality(FatedIn(categories, rows, second, "pending"))
    <3>1. Cardinality({}) = 0
      BY FS_EmptySet
    <3> QED BY <1>2, <3>1 DEF Outcomes!Counted, Tells
  <2>2. result.succeeded \in Nat /\ result.pending \in Nat
    <3>1. DOMAIN rows = 1 .. Len(rows) /\ Len(rows) \in Nat
      BY DEF OutcomesInv
    <3>2. IsFiniteSet(DOMAIN rows)
      BY <3>1, FS_Interval
    <3>3. \A fate : FatedIn(categories, rows, second, fate) \subseteq DOMAIN rows
      BY DEF FatedIn
    <3> QED BY <2>1, <3>2, <3>3, FS_Subset, FS_CardinalityType
  <2>3. limit \in 0 .. 100 /\ result.failed * 100 > limit * (result.succeeded + result.failed + result.pending)
    BY RowsAssumption DEF OutcomesInv, Exceeds, Outcomes!BoundAssumption
  <2>4. \A l, n \in Nat : ~(0 * 100 > l * n)
    OBVIOUS
  <2>5. result.succeeded + result.failed + result.pending \in Nat /\ limit \in Nat
    BY <2>1, <2>2, <2>3
  <2> QED BY <2>1, <2>3, <2>4, <2>5
<1> QED BY <1>3, <1>4, <1>5, <1>6

LEMMA OutcomesInvariance == Spec => [](part = "outcomes" => OutcomesInv)
<1> DEFINE Inv == part = "outcomes" => OutcomesInv
<1>1. Init => Inv
  BY OutcomesInit DEF Init
<1>2. Inv /\ [Next]_<<part, reader, grouping, upload, outcomes, rows, errors, pc>> => Inv'
  <2> SUFFICES ASSUME Inv, [Next]_<<part, reader, grouping, upload, outcomes, rows, errors, pc>>,
                      part' = "outcomes"
               PROVE  OutcomesInv'
    OBVIOUS
  <2>1. CASE OutcomesStep
    <3>1. OutcomesInv /\ Outcomes!Next
      BY <2>1 DEF OutcomesStep
    <3> QED BY <3>1, OutcomesAddRow, OutcomesComplete, OutcomesRetry, OutcomesCheck DEF Outcomes!Next
  <2>2. CASE ReaderStep \/ GroupingStep \/ UploadStep
    BY <2>2 DEF ReaderStep, GroupingStep, UploadStep
  <2>3. CASE UNCHANGED <<part, reader, grouping, upload, outcomes, rows, errors, pc>>
    BY <2>3, OutcomesUnchanged DEF outcomes, Outcomes!vars
  <2> QED BY <2>1, <2>2, <2>3 DEF Next
<1> QED BY <1>1, <1>2, PTL DEF Spec

\* For rows of any number and any outcomes, the counts of an import are what
\* became of its rows and its errors name those that failed, also when the
\* second try of categories replaces failures of the first (_merge_retry).
THEOREM RowsAreFated == Spec => []CountsAreFates
<1>1. (part = "outcomes" => OutcomesInv) => CountsAreFates
  BY OutcomesCounts DEF CountsAreFates
<1> QED BY <1>1, OutcomesInvariance, PTL

\* Rows that share a reference hide no failure, and rows that the second try
\* repairs never raise (check_error_ratio).
THEOREM FailuresAreSeen == Spec => []NoFailureHidden
<1>1. (part = "outcomes" => OutcomesInv) => NoFailureHidden
  BY OutcomesCounts DEF NoFailureHidden
<1> QED BY <1>1, OutcomesInvariance, PTL

---------------------------------------------------------------------------
(* XmlReader: which rows of a file have been yielded, for any file and any   *)
(* entity asked for.                                                         *)

Kinds == {"field", "nested", "other"}

FileRows == Seq(Entities \X SUBSET Kinds)

\* The rows of an entity in a file.
OfEntity(rs, e) == {p \in DOMAIN rs : rs[p][1] = e}

\* What has been yielded of the rows of the entity asked for, but for its last
\* `missing` ones.
Yields(rs, e, ys, missing) ==
  /\ Len(ys) = Cardinality(OfEntity(rs, e)) - missing
  /\ \A p \in OfEntity(rs, e) :
       LET n == Cardinality({q \in OfEntity(rs, e) : q <= p})
       IN n <= Len(ys) => ys[n] = <<n, e, rs[p][2]>>

\* All rows have been yielded, of whatever entity.
YieldsAll(rs, ys) == Len(ys) = Len(rs) /\ \A i \in DOMAIN rs : ys[i] = <<i, rs[i][1], rs[i][2]>>

\* The inductive invariant of the reader: depth counts the open elements, active
\* is the entity that is open and asked for.
ReaderInv ==
  /\ entity \in Entities \cup {None}
  /\ open \in Seq({"export", "feed", "row", "group"} \cup Entities)
  /\ children \in SUBSET Kinds
  /\ rows \in FileRows
  /\ yielded \in Seq(Nat \X Entities \X SUBSET Kinds)
  /\ Len(open) >= 2 => open[2] \in Entities
  /\ outcome = "reading" =>
       /\ depth = Len(open) /\ ordinal = Len(yielded)
       /\ Len(open) >= 2 => active = IF entity # None /\ open[2] # entity THEN None ELSE open[2]
  /\ outcome = "done" /\ entity # None => entity \in entities
  /\ \A i \in DOMAIN yielded : "nested" \notin yielded[i][3]
  /\ entity # None => Yields(rows, entity, yielded, IF outcome = "nested" THEN 1 ELSE 0)
  /\ entity = None /\ outcome # "nested" => YieldsAll(rows, yielded)

LEMMA ReaderSets ==
  \A S : Reader!Cardinality(S) = Cardinality(S)
BY DEF Reader!Cardinality, Cardinality, Reader!IsFiniteSet, IsFiniteSet

\* A row is appended to a file.
Appended(rs, name, kinds, e, new) ==
  /\ new \in FileRows /\ Len(new) = Len(rs) + 1
  /\ DOMAIN new = DOMAIN rs \cup {Len(rs) + 1}
  /\ new[Len(rs) + 1] = <<name, kinds>>
  /\ \A p \in DOMAIN rs : p < Len(rs) + 1 /\ new[p] = rs[p]
  /\ name # e => OfEntity(new, e) = OfEntity(rs, e)
  /\ name = e => OfEntity(new, e) = OfEntity(rs, e) \cup {Len(rs) + 1}
  /\ IsFiniteSet(OfEntity(rs, e)) /\ Cardinality(OfEntity(rs, e)) \in Nat

LEMMA RowAppended ==
  ASSUME NEW rs \in FileRows, NEW name \in Entities, NEW kinds \in SUBSET Kinds,
         NEW e, NEW new, new = Append(rs, <<name, kinds>>)
  PROVE  Appended(rs, name, kinds, e, new)
<1>1. /\ new \in FileRows /\ Len(new) = Len(rs) + 1
      /\ DOMAIN new = DOMAIN rs \cup {Len(rs) + 1}
      /\ new[Len(rs) + 1] = <<name, kinds>>
      /\ \A p \in DOMAIN rs : p < Len(rs) + 1 /\ new[p] = rs[p]
  BY DEF FileRows
<1>2. IsFiniteSet(OfEntity(rs, e)) /\ Cardinality(OfEntity(rs, e)) \in Nat
  <2>1. DOMAIN rs = 1 .. Len(rs) /\ Len(rs) \in Nat
    BY DEF FileRows
  <2>2. OfEntity(rs, e) \subseteq DOMAIN rs
    BY DEF OfEntity
  <2>3. IsFiniteSet(DOMAIN rs)
    BY <2>1, FS_Interval
  <2>4. IsFiniteSet(OfEntity(rs, e))
    BY <2>2, <2>3, FS_Subset
  <2> QED BY <2>4, FS_CardinalityType
<1>3. name # e => OfEntity(new, e) = OfEntity(rs, e)
  BY <1>1 DEF OfEntity
<1>4. name = e => OfEntity(new, e) = OfEntity(rs, e) \cup {Len(rs) + 1}
  BY <1>1 DEF OfEntity
<1> QED BY <1>1, <1>2, <1>3, <1>4 DEF Appended

\* What has been yielded once a row is appended, of the entity asked for or not.
YieldsNext(new, name, kinds, e, ys) ==
  /\ name # e => Yields(new, e, ys, 0)
  /\ name = e => /\ Yields(new, e, ys, 1)
                 /\ Yields(new, e, Append(ys, <<Len(ys) + 1, e, kinds>>), 0)

\* A row of another entity changes nothing, and one of the entity asked for is
\* the next in number.
LEMMA RowYielded ==
  ASSUME NEW rs \in FileRows, NEW name \in Entities, NEW kinds \in SUBSET Kinds,
         NEW e, NEW ys \in Seq(Nat \X Entities \X SUBSET Kinds), Yields(rs, e, ys, 0),
         NEW new, new = Append(rs, <<name, kinds>>)
  PROVE  YieldsNext(new, name, kinds, e, ys)
<1> DEFINE S == OfEntity(rs, e)
           T == OfEntity(new, e)
           last == Len(rs) + 1
           more == Append(ys, <<Len(ys) + 1, e, kinds>>)
<1>1. /\ DOMAIN new = DOMAIN rs \cup {last} /\ new[last] = <<name, kinds>>
      /\ \A p \in DOMAIN rs : p < last /\ new[p] = rs[p]
      /\ name # e => T = S
      /\ name = e => T = S \cup {last}
      /\ IsFiniteSet(S) /\ Cardinality(S) \in Nat
  <2>0. Appended(rs, name, kinds, e, new)
    BY RowAppended, Zenon
  <2>1. /\ DOMAIN new = DOMAIN rs \cup {Len(rs) + 1}
        /\ new[Len(rs) + 1] = <<name, kinds>>
        /\ \A p \in DOMAIN rs : p < Len(rs) + 1 /\ new[p] = rs[p]
        /\ name # e => OfEntity(new, e) = OfEntity(rs, e)
        /\ name = e => OfEntity(new, e) = OfEntity(rs, e) \cup {Len(rs) + 1}
        /\ IsFiniteSet(OfEntity(rs, e)) /\ Cardinality(OfEntity(rs, e)) \in Nat
    BY <2>0 DEF Appended
  <2> QED BY <2>1, Zenon
<1>2. S \subseteq DOMAIN rs /\ last \in Nat /\ \A p \in DOMAIN rs : p \in Nat
  BY DEF OfEntity, FileRows
<1>3. Len(ys) = Cardinality(S)
  BY <1>1 DEF Yields
<1>4. \A p \in S : LET n == Cardinality({q \in S : q <= p}) IN n <= Len(ys) => ys[n] = <<n, e, rs[p][2]>>
  BY DEF Yields
<1>5. \A p \in S : Cardinality({q \in S : q <= p}) \in 1 .. Cardinality(S)
  <2> TAKE p \in S
  <2> DEFINE Q == {q \in S : q <= p}
  <2>1. IsFiniteSet(Q) /\ Cardinality(Q) <= Cardinality(S) /\ Cardinality(Q) \in Nat
    BY <1>1, FS_Subset, FS_CardinalityType
  <2>2. p \in Q
    BY <1>2
  <2> HIDE DEF Q
  <2>3. Cardinality(Q) # 0
    BY <2>1, <2>2, FS_EmptySet
  <2>4. Cardinality(Q) \in 1 .. Cardinality(S)
    BY <1>1, <2>1, <2>3
  <2> QED BY <2>4 DEF Q
<1>6. CASE name # e
  <2>1. Len(ys) = Cardinality(T) - 0
    BY <1>1, <1>3, <1>6
  <2>2. \A p \in T : LET n == Cardinality({q \in T : q <= p}) IN n <= Len(ys) => ys[n] = <<n, e, new[p][2]>>
    BY <1>1, <1>2, <1>4, <1>6
  <2>3. Yields(new, e, ys, 0)
    BY <2>1, <2>2 DEF Yields
  <2> QED BY <1>6, <2>3 DEF YieldsNext
<1>7. CASE name = e
  <2>1. last \notin S
    BY <1>1, <1>2
  <2>2. Cardinality(T) = Cardinality(S) + 1
    BY <1>1, <1>7, <2>1, FS_AddElement
  <2>3. \A p \in S : {q \in T : q <= p} = {q \in S : q <= p}
    <3> HIDE DEF S, T, last
    <3>1. \A p \in S : p \in Nat /\ p < last /\ ~(last <= p)
      BY <1>1, <1>2
    <3>2. T = S \cup {last}
      BY <1>1, <1>7
    <3> QED BY <3>1, <3>2
  <2>4. {q \in T : q <= last} = T
    <3> HIDE DEF S, T, last
    <3>1. (\A p \in S : p <= last) /\ last <= last
      BY <1>1, <1>2
    <3>2. T = S \cup {last}
      BY <1>1, <1>7
    <3> QED BY <3>1, <3>2
  <2> HIDE DEF S, T, last
  <2>5. /\ \A p \in S : new[p] = rs[p]
        /\ T = S \cup {last} /\ new[last] = <<name, kinds>> /\ Len(ys) \in Nat
    BY <1>1, <1>2, <1>7
  <2>6. Yields(new, e, ys, 1)
    <3>1. Len(ys) = Cardinality(T) - 1
      BY <1>1, <1>3, <2>2
    <3>2. ASSUME NEW p \in T
          PROVE  LET n == Cardinality({q \in T : q <= p}) IN n <= Len(ys) => ys[n] = <<n, e, new[p][2]>>
      <4>1. CASE p \in S
        BY <1>4, <2>3, <2>5, <4>1
      <4>2. CASE p = last
        <5>1. ~(Cardinality(T) <= Len(ys))
          BY <1>1, <1>3, <2>2
        <5> QED BY <2>4, <4>2, <5>1
      <4> QED BY <2>5, <4>1, <4>2
    <3> QED BY <3>1, <3>2 DEF Yields, T
  <2>7. Yields(new, e, more, 0)
    <3>1. /\ Len(more) = Len(ys) + 1 /\ more[Len(ys) + 1] = <<Len(ys) + 1, e, kinds>>
          /\ \A i \in 1 .. Len(ys) : more[i] = ys[i]
      BY <1>7
    <3> HIDE DEF more
    <3>2. Len(more) = Cardinality(T) - 0
      BY <1>1, <1>3, <2>2, <3>1
    <3>3. ASSUME NEW p \in T
          PROVE  LET n == Cardinality({q \in T : q <= p}) IN n <= Len(more) => more[n] = <<n, e, new[p][2]>>
      <4>1. CASE p \in S
        <5> DEFINE n == Cardinality({q \in S : q <= p})
        <5>1. n \in 1 .. Len(ys)
          BY <1>3, <1>5, <4>1
        <5>2. n <= Len(ys) /\ more[n] = ys[n]
          BY <3>1, <5>1, <2>5
        <5> HIDE DEF n
        <5>3. ys[n] = <<n, e, rs[p][2]>>
          BY <1>4, <4>1, <5>2 DEF n
        <5> QED BY <2>3, <2>5, <4>1, <5>2, <5>3 DEF n
      <4>2. CASE p = last
        <5>1. Cardinality({q \in T : q <= p}) = Len(ys) + 1
          BY <1>3, <2>2, <2>4, <4>2
        <5>2. new[p][2] = kinds
          <6>1. new[p] = <<name, kinds>>
            BY <2>5, <4>2
          <6>2. <<name, kinds>>[2] = kinds
            OBVIOUS
          <6> QED BY <6>1, <6>2, Zenon
        <5> QED BY <3>1, <5>1, <5>2
      <4> QED BY <2>5, <4>1, <4>2
    <3> QED BY <3>2, <3>3 DEF Yields, T
  <2> QED BY <1>7, <2>6, <2>7 DEF YieldsNext
<1> QED BY <1>6, <1>7

LEMMA ReaderInit == Reader!Init => ReaderInv
<1> SUFFICES ASSUME Reader!Init PROVE ReaderInv
  OBVIOUS
<1>1. /\ entity \in Entities \cup {None} /\ open = <<>> /\ children = {} /\ rows = <<>>
      /\ yielded = <<>> /\ outcome = "reading" /\ depth = 0 /\ ordinal = 0
  BY DEF Reader!Init
<1>2. OfEntity(rows, entity) = {}
  BY <1>1 DEF OfEntity
<1>3. Yields(rows, entity, yielded, 0)
  <2>1. Cardinality({}) = 0
    BY FS_EmptySet
  <2>2. Len(yielded) = 0
    BY <1>1
  <2> QED BY <1>2, <2>1, <2>2 DEF Yields
<1>4. YieldsAll(rows, yielded)
  BY <1>1 DEF YieldsAll
<1>5. /\ open \in Seq({"export", "feed", "row", "group"} \cup Entities) /\ Len(open) = 0
      /\ rows \in FileRows /\ yielded \in Seq(Nat \X Entities \X SUBSET Kinds) /\ Len(yielded) = 0
      /\ \A i \in DOMAIN yielded : FALSE
  BY <1>1 DEF FileRows
<1> QED BY <1>1, <1>3, <1>4, <1>5 DEF ReaderInv

\* An element starts or a field ends: the rows are what they were.
LEMMA ReaderStarts ==
  ASSUME ReaderInv,
         Reader!StartRoot \/ Reader!StartEntity \/ Reader!StartInner \/ Reader!Field
  PROVE  ReaderInv'
<1> DEFINE Tag == {"export", "feed", "row", "group"} \cup Entities
<1>1. /\ outcome = "reading"
      /\ entity' = entity /\ rows' = rows /\ ordinal' = ordinal /\ yielded' = yielded
      /\ outcome' \in {"reading", "wrong root", "ambiguous"}
  BY DEF Reader!StartRoot, Reader!StartEntity, Reader!StartInner, Reader!Field, Reader!Keeps
<1>2. open \in Seq(Tag) /\ children \in SUBSET Kinds /\ depth = Len(open) /\ ordinal = Len(yielded)
  BY <1>1 DEF ReaderInv
<1>3. children' \in SUBSET Kinds
  BY <1>1, <1>2 DEF Reader!StartRoot, Reader!StartEntity, Reader!StartInner, Reader!Field, Kinds
<1>4. /\ open' \in Seq(Tag)
      /\ Len(open') >= 2 => open'[2] \in Entities
      /\ outcome' = "reading" =>
           /\ depth' = Len(open')
           /\ Len(open') >= 2 => active' = IF entity # None /\ open'[2] # entity THEN None ELSE open'[2]
  <2>1. CASE Reader!StartRoot
    <3>1. PICK tag \in {"export", "feed"} :
            /\ open' = <<tag>>
            /\ IF tag = "export" THEN depth' = 1 /\ UNCHANGED outcome
               ELSE outcome' = "wrong root" /\ UNCHANGED depth
      BY <2>1 DEF Reader!StartRoot
    <3>2. open' \in Seq(Tag) /\ Len(open') = 1
      <4>1. tag \in Tag
        OBVIOUS
      <4> HIDE DEF Tag
      <4>2. <<tag>> \in Seq(Tag) /\ Len(<<tag>>) = 1
        BY <4>1
      <4>3. open' = <<tag>>
        BY <3>1, Zenon
      <4> QED BY <4>2, <4>3, Zenon
    <3>3. outcome' = "reading" => depth' = 1
      BY <3>1
    <3> QED BY <3>2, <3>3
  <2>2. CASE Reader!StartEntity
    <3>1. Len(open) = 1 /\ depth' = depth + 1
      BY <2>2 DEF Reader!StartEntity
    <3>2. PICK name \in Entities :
            /\ open' = Append(open, name)
            /\ outcome' = "reading" => active' = IF entity # None /\ name # entity THEN None ELSE name
      BY <1>1, <2>2 DEF Reader!StartEntity, Reader!ActiveAfter
    <3>3. open' \in Seq(Tag) /\ Len(open') = 2 /\ open'[2] = name
      <4>1. name \in Tag
        OBVIOUS
      <4> HIDE DEF Tag
      <4>2. \A q \in Seq(Tag) : Len(q) = 1 =>
              /\ Append(q, name) \in Seq(Tag) /\ Len(Append(q, name)) = 2
              /\ Append(q, name)[2] = name
        BY <4>1
      <4>3. open' = Append(open, name)
        BY <3>2, Zenon
      <4> QED BY <1>2, <3>1, <4>2, <4>3, Zenon
    <3> QED BY <1>2, <3>1, <3>2, <3>3
  <2>3. CASE Reader!StartInner
    <3>1. /\ Len(open) \in 2..3 /\ depth' = depth + 1 /\ active' = active /\ outcome' = outcome
          /\ \E tag \in {"row", "group"} : open' = Append(open, tag)
      BY <2>3 DEF Reader!StartInner
    <3>2. open' \in Seq(Tag) /\ Len(open') = Len(open) + 1 /\ open'[2] = open[2]
      BY <1>2, <3>1
    <3>3. /\ open[2] \in Entities
          /\ active = IF entity # None /\ open[2] # entity THEN None ELSE open[2]
      BY <1>1, <3>1 DEF ReaderInv
    <3> QED BY <1>2, <3>1, <3>2, <3>3
  <2>4. CASE Reader!Field
    <3>1. open' = open /\ depth' = depth /\ active' = active /\ outcome' = outcome
      BY <2>4 DEF Reader!Field
    <3> QED BY <1>1, <1>2, <3>1 DEF ReaderInv
  <2> QED BY <2>1, <2>2, <2>3, <2>4
<1>5. /\ entity \in Entities \cup {None} /\ rows \in FileRows
      /\ yielded \in Seq(Nat \X Entities \X SUBSET Kinds)
      /\ \A i \in DOMAIN yielded : "nested" \notin yielded[i][3]
      /\ entity # None => Yields(rows, entity, yielded, 0)
      /\ entity = None => YieldsAll(rows, yielded)
  BY <1>1 DEF ReaderInv
<1> QED BY <1>1, <1>2, <1>3, <1>4, <1>5 DEF ReaderInv

\* The end of the file, or of what is well-formed of it.
LEMMA ReaderStops ==
  ASSUME ReaderInv, Reader!EndOfFile \/ Reader!Malformed
  PROVE  ReaderInv'
<1>1. /\ outcome = "reading" /\ outcome' \in {"absent", "done", "malformed"}
      /\ outcome' = "done" /\ entity # None => entity \in entities
      /\ UNCHANGED <<entity, open, starts, children, rows, entities, active, depth, ordinal, yielded>>
  BY DEF Reader!EndOfFile, Reader!Malformed, Reader!file
<1> QED BY <1>1 DEF ReaderInv

\* An element ends, and a row with it where three are open.
LEMMA ReaderEnd ==
  ASSUME ReaderInv, Reader!End, Reader!NoneAssumption
  PROVE  ReaderInv'
<1> DEFINE Tag == {"export", "feed", "row", "group"} \cup Entities
<1>1. /\ outcome = "reading" /\ open # <<>>
      /\ open' = SubSeq(open, 1, Len(open) - 1) /\ depth' = depth - 1
      /\ UNCHANGED <<entity, starts, children, entities, active>>
  BY DEF Reader!End, Reader!Front
<1>2. /\ open \in Seq(Tag) /\ children \in SUBSET Kinds /\ depth = Len(open) /\ ordinal = Len(yielded)
      /\ rows \in FileRows /\ yielded \in Seq(Nat \X Entities \X SUBSET Kinds)
      /\ entity \in Entities \cup {None} /\ None \notin Entities
      /\ \A i \in DOMAIN yielded : "nested" \notin yielded[i][3]
      /\ Len(open) >= 2 => /\ open[2] \in Entities
                           /\ active = IF entity # None /\ open[2] # entity THEN None ELSE open[2]
      /\ entity # None => Yields(rows, entity, yielded, 0)
      /\ entity = None => YieldsAll(rows, yielded)
  BY <1>1 DEF ReaderInv, Reader!NoneAssumption
<1>3. /\ open' \in Seq(Tag) /\ Len(open') = Len(open) - 1
      /\ Len(open') >= 2 => open'[2] = open[2] /\ Len(open) >= 2
  BY <1>1, <1>2
<1>4. CASE ~(Len(open) = 3 /\ open[Len(open)] = "row")
  <2>1. rows' = rows /\ ordinal' = ordinal /\ yielded' = yielded /\ outcome' = outcome
    BY <1>2, <1>4 DEF Reader!End, Reader!IsRow, Reader!Last
  <2> QED BY <1>1, <1>2, <1>3, <2>1 DEF ReaderInv
<1>5. CASE Len(open) = 3 /\ open[Len(open)] = "row"
  <2>1. /\ rows' = Append(rows, <<open[2], children>>)
        /\ open[2] \in Entities
        /\ IF entity = None \/ open[2] = entity
           THEN /\ ordinal' = ordinal + 1
                /\ IF "nested" \in children THEN outcome' = "nested" /\ yielded' = yielded
                   ELSE /\ yielded' = Append(yielded, <<ordinal + 1, open[2], children>>)
                        /\ outcome' = outcome
           ELSE ordinal' = ordinal /\ yielded' = yielded /\ outcome' = outcome
    <3>1. active = IF entity # None /\ open[2] # entity THEN None ELSE open[2]
      BY <1>2, <1>5
    <3>2. open[2] \in Entities /\ (active # None <=> entity = None \/ open[2] = entity)
      BY <1>2, <1>5, <3>1
    <3>3. /\ rows' = Append(rows, <<open[2], children>>)
          /\ IF active # None
             THEN /\ ordinal' = ordinal + 1
                  /\ IF "nested" \in children THEN outcome' = "nested" /\ yielded' = yielded
                     ELSE yielded' = Append(yielded, <<ordinal', active, children>>) /\ outcome' = outcome
             ELSE ordinal' = ordinal /\ yielded' = yielded /\ outcome' = outcome
      BY <1>2, <1>5 DEF Reader!End, Reader!IsRow, Reader!Last, Reader!Refused
    <3> QED BY <3>1, <3>2, <3>3
  <2> DEFINE more == Append(yielded, <<Len(yielded) + 1, open[2], children>>)
  <2>2. /\ rows' \in FileRows /\ Len(rows') = Len(rows) + 1 /\ DOMAIN rows' = DOMAIN rows \cup {Len(rows) + 1}
        /\ rows'[Len(rows) + 1] = <<open[2], children>>
        /\ \A i \in DOMAIN rows : rows'[i] = rows[i]
    <3>1. Appended(rows, open[2], children, entity, rows')
      BY <1>2, <2>1, RowAppended, Zenon
    <3> QED BY <3>1 DEF Appended
  <2>3. /\ more \in Seq(Nat \X Entities \X SUBSET Kinds) /\ Len(more) = Len(yielded) + 1
        /\ DOMAIN more = DOMAIN yielded \cup {Len(yielded) + 1}
        /\ more[Len(yielded) + 1] = <<Len(yielded) + 1, open[2], children>>
        /\ \A i \in DOMAIN yielded : more[i] = yielded[i]
    BY <1>2, <2>1
  <2> HIDE DEF more
  <2>4. entity # None =>
          /\ open[2] # entity => Yields(rows', entity, yielded, 0)
          /\ open[2] = entity => /\ Yields(rows', entity, yielded, 1)
                                 /\ Yields(rows', entity, more, 0)
    <3>1. ASSUME entity # None PROVE
            /\ open[2] # entity => Yields(rows', entity, yielded, 0)
            /\ open[2] = entity => /\ Yields(rows', entity, yielded, 1)
                                   /\ Yields(rows', entity, Append(yielded, <<Len(yielded) + 1, entity, children>>), 0)
      <4>1. Yields(rows, entity, yielded, 0)
        BY <1>2, <3>1
      <4>2. YieldsNext(rows', open[2], children, entity, yielded)
        BY <1>2, <2>1, <4>1, RowYielded, Zenon
      <4> QED BY <4>2 DEF YieldsNext
    <3> QED BY <3>1 DEF more
  <2>5. entity = None => YieldsAll(rows', more)
    <3> SUFFICES ASSUME entity = None PROVE YieldsAll(rows', more)
      OBVIOUS
    <3>1. Len(yielded) = Len(rows) /\ \A i \in DOMAIN rows : yielded[i] = <<i, rows[i][1], rows[i][2]>>
      BY <1>2 DEF YieldsAll
    <3>2. DOMAIN yielded = DOMAIN rows
      BY <1>2, <3>1 DEF FileRows
    <3>3. \A i \in DOMAIN rows : more[i] = <<i, rows'[i][1], rows'[i][2]>>
      BY <2>2, <2>3, <3>1, <3>2
    <3>4. more[Len(rows) + 1] = <<Len(rows) + 1, rows'[Len(rows) + 1][1], rows'[Len(rows) + 1][2]>>
      BY <2>2, <2>3, <3>1
    <3>5. \A i \in DOMAIN rows' : more[i] = <<i, rows'[i][1], rows'[i][2]>>
      BY <2>2, <3>3, <3>4
    <3>6. Len(more) = Len(rows')
      BY <2>2, <2>3, <3>1
    <3> QED BY <3>5, <3>6 DEF YieldsAll
  <2>6. "nested" \notin children => \A i \in DOMAIN more : "nested" \notin more[i][3]
    BY <1>2, <2>3
  <2>7. CASE entity # None /\ open[2] # entity
    BY <1>1, <1>2, <1>3, <2>1, <2>2, <2>4, <2>7 DEF ReaderInv
  <2>8. CASE entity = None \/ open[2] = entity
    <3>1. CASE "nested" \in children
      BY <1>1, <1>2, <1>3, <2>1, <2>2, <2>4, <2>8, <3>1 DEF ReaderInv
    <3>2. CASE "nested" \notin children
      <4>1. yielded' = more /\ outcome' = "reading" /\ ordinal' = ordinal + 1
        BY <1>1, <1>2, <2>1, <2>8, <3>2 DEF more
      <4>2. yielded' \in Seq(Nat \X Entities \X SUBSET Kinds) /\ ordinal' = Len(yielded')
        BY <1>2, <2>3, <4>1
      <4>3. /\ entity # None => Yields(rows', entity, yielded', 0)
            /\ entity = None => YieldsAll(rows', yielded')
            /\ \A i \in DOMAIN yielded' : "nested" \notin yielded'[i][3]
        BY <2>4, <2>5, <2>6, <2>8, <3>2, <4>1
      <4> QED BY <1>1, <1>2, <1>3, <2>2, <4>1, <4>2, <4>3 DEF ReaderInv
    <3> QED BY <3>1, <3>2
  <2> QED BY <2>7, <2>8
<1> QED BY <1>4, <1>5

LEMMA ReaderUnchanged == ReaderInv /\ UNCHANGED Reader!vars => ReaderInv'
BY DEF ReaderInv, Reader!vars, Reader!file

\* What the invariant says of what has been read.
LEMMA ReaderReads ==
  ReaderInv => Reader!SelectedRows /\ Reader!NothingDropped /\ Reader!OneEntityNeedsNoChoice
<1> SUFFICES ASSUME ReaderInv
             PROVE  Reader!SelectedRows /\ Reader!NothingDropped /\ Reader!OneEntityNeedsNoChoice
  OBVIOUS
<1>1. Reader!SelectedRows
  <2>1. /\ Reader!Asked = OfEntity(rows, entity)
        /\ \A p : Reader!Number(p) = Cardinality({q \in OfEntity(rows, entity) : q <= p})
    BY ReaderSets DEF Reader!Asked, Reader!Number, OfEntity
  <2>2. entity # None => Yields(rows, entity, yielded, IF outcome = "nested" THEN 1 ELSE 0)
    BY DEF ReaderInv
  <2> QED BY <2>1, <2>2, ReaderSets DEF Reader!SelectedRows, Yields
<1>2. Reader!NothingDropped
  BY DEF ReaderInv, Reader!NothingDropped
<1>3. Reader!OneEntityNeedsNoChoice
  <2> SUFFICES ASSUME entity = None, outcome = "done"
               PROVE  yielded = [i \in DOMAIN rows |-> <<i, rows[i][1], rows[i][2]>>]
    BY DEF Reader!OneEntityNeedsNoChoice
  <2>1. /\ Len(yielded) = Len(rows) /\ \A i \in DOMAIN rows : yielded[i] = <<i, rows[i][1], rows[i][2]>>
        /\ rows \in FileRows /\ yielded \in Seq(Nat \X Entities \X SUBSET Kinds)
    BY DEF ReaderInv, YieldsAll
  <2>2. DOMAIN yielded = DOMAIN rows /\ yielded = [i \in DOMAIN yielded |-> yielded[i]]
    BY <2>1 DEF FileRows
  <2> QED BY <2>1, <2>2
<1> QED BY <1>1, <1>2, <1>3

\* The rows of the entity asked for arrive whole, in order and numbered from 1,
\* whatever stands around them and wherever the file breaks off
\* (_read_xml_rows).
THEOREM RowsAreRead == Spec => []ReadWhole
<1> DEFINE Inv == part = "reader" => ReaderInv
<1>1. Init => Inv
  BY ReaderInit DEF Init
<1>2. Inv /\ [Next]_<<part, reader, grouping, upload, outcomes, rows, errors, pc>> => Inv'
  <2> SUFFICES ASSUME Inv, [Next]_<<part, reader, grouping, upload, outcomes, rows, errors, pc>>,
                      part' = "reader"
               PROVE  ReaderInv'
    OBVIOUS
  <2>1. CASE ReaderStep
    <3>1. ReaderInv /\ Reader!Next
      BY <2>1 DEF ReaderStep
    <3> QED BY <3>1, RowsAssumption, ReaderStarts, ReaderEnd, ReaderStops DEF Reader!Next
  <2>2. CASE GroupingStep \/ UploadStep \/ OutcomesStep
    BY <2>2 DEF GroupingStep, UploadStep, OutcomesStep
  <2>3. CASE UNCHANGED <<part, reader, grouping, upload, outcomes, rows, errors, pc>>
    BY <2>3, ReaderUnchanged DEF reader, Reader!vars, Reader!file
  <2> QED BY <2>1, <2>2, <2>3 DEF Next
<1>3. Inv => ReadWhole
  BY ReaderReads DEF ReadWhole
<1> QED BY <1>1, <1>2, <1>3, PTL DEF Spec

---------------------------------------------------------------------------
(* RowGrouping: which lines of a file have been read, and where each went,   *)
(* for any file and any keys, views and labels.                              *)

\* Sequences.
Entries(s) == {s[i] : i \in DOMAIN s}
Ascends(s) == \A i, j \in DOMAIN s : i < j => s[i] < s[j]
Unrepeated(s) == \A i, j \in DOMAIN s : s[i] = s[j] => i = j

\* The last line of a set, 0 of none.
IsLast(x, S) == (S = {} /\ x = 0) \/ (x \in S /\ \A y \in S : y <= x)

\* The lines read by now, and what they are for.
Past == {i \in DOMAIN file : i < next}
Blank == {i \in Past : file[i].key = NoKey}
StoreLines == {i \in Past : file[i].key # NoKey /\ file[i].view # Global}
BlankGlobal == {i \in Past : file[i].key = NoKey /\ file[i].view = Global}
GlobalOf(k) == {i \in Past : file[i].key = k /\ file[i].view = Global}
BadGlobal == {i \in Past : file[i].key # NoKey /\ file[i].view = Global /\ file[i].cell = "bad"}
GoodGlobal(k) == {i \in Past : file[i].key = k /\ file[i].view = Global /\ file[i].cell # "bad"}

\* What a file is.
FileInv ==
  /\ kind \in {"folded", "prices", "attributes", "items"}
  /\ DOMAIN file = 1 .. Len(file) /\ Len(file) \in Nat
  /\ \A i \in DOMAIN file :
       /\ file[i].key \in Keys \cup {NoKey} /\ file[i].view \in Views \cup {Global}
       /\ kind = "folded" => file[i].cell \in {"ok", "bad"}
       /\ kind \in {"prices", "items"} =>
            file[i].view = Global /\ file[i].cell \in {"ok", "bad", "invalid"}
       /\ kind = "attributes" => file[i].cell \in {"", "ok", "bad"}
  /\ next \in 1 .. (Len(file) + 1)
  /\ pc \in {"read", "fold", "build", "done", "raised"}
  /\ pc # "read" => next = Len(file) + 1

\* Store-view lines wait in the order of the file, those before them are folded.
Folded == StoreLines \ Entries(waiting)
FoldedOf(k, v) ==
  {i \in Folded : file[i].key = k /\ file[i].view = v /\ file[i].cell # "bad" /\ globals[k] # 0}
NotFolded == {i \in Folded : globals[file[i].key] = 0 \/ file[i].cell = "bad"}

WaitInv ==
  /\ waiting \in Seq(Nat) /\ Ascends(waiting) /\ Entries(waiting) \subseteq StoreLines
  /\ \A i \in Folded, j \in Entries(waiting) : i < j
GlobalsInv == globals \in [Keys -> Nat] /\ \A k \in Keys : IsLast(globals[k], GoodGlobal(k))
OverridesInv ==
  /\ folded \in [Keys \X Views -> Nat]
  /\ \A k \in Keys, v \in Views : IsLast(folded[<<k, v>>], FoldedOf(k, v))
FoldErrors ==
  /\ errors \in Seq(Nat) /\ Unrepeated(errors)
  /\ Entries(errors) = Blank \cup BadGlobal \cup NotFolded
FoldInv ==
  /\ pc \in {"read", "fold", "done"} /\ rows = <<>> /\ order \in Seq(Keys)
  /\ pc = "read" => Folded = {}
  /\ pc = "done" => waiting = <<>>
  /\ WaitInv /\ GlobalsInv /\ OverridesInv /\ FoldErrors

\* No override but in a file of products or categories.
NoneFolded ==
  /\ waiting = <<>>
  /\ globals = [k \in Keys |-> 0] /\ folded = [kv \in Keys \X Views |-> 0]

\* Keys whose turn has come, and those that have a row.
BuiltKeys == {k \in Keys : groups[k] # <<>>} \ Entries(order)
RowKeys == {rows[r].key : r \in DOMAIN rows}

\* The lines that the errors of a SKU name: those that cannot be converted, or
\* the first when the model refuses one.
BadOf(k) == {i \in GlobalOf(k) : file[i].cell = "bad"}
InvalidOf(k) == {i \in GlobalOf(k) : file[i].cell = "invalid"}
PriceErrors(k) ==
  IF BadOf(k) # {} THEN BadOf(k) ELSE IF InvalidOf(k) # {} THEN {groups[k][1]} ELSE {}

\* Options in the order of the file, each label once.
Listed(lines, o) ==
  \A a, b \in DOMAIN o : a < b => o[a] < o[b] /\ lines[o[a]].option # lines[o[b]].option

\* A group holds the lines of its key, the order has each key once whose row is
\* still to build, and a row has its group.
LinesInv ==
  /\ groups \in [Keys -> Seq(Nat)]
  /\ \A k \in Keys : Ascends(groups[k]) /\ Entries(groups[k]) = GlobalOf(k)
OrderInv == order \in Seq(Keys) /\ Unrepeated(order) /\ \A k \in Entries(order) : groups[k] # <<>>
RowsInv ==
  /\ rows \in Seq(Entries(rows))
  /\ \A r \in DOMAIN rows : rows[r].key \in Keys /\ rows[r].lines = groups[rows[r].key]
  /\ \A r, q \in DOMAIN rows : rows[r].key = rows[q].key => r = q
PricesInv ==
  /\ RowKeys = {k \in BuiltKeys : PriceErrors(k) = {}}
  /\ Entries(errors) = BlankGlobal \cup UNION {PriceErrors(k) : k \in BuiltKeys}
AttributesInv ==
  /\ pc # "raised" => RowKeys = BuiltKeys
  /\ Entries(errors) = BlankGlobal
  /\ \A r \in DOMAIN rows : Listed(file, rows[r].options)

GroupInv ==
  /\ pc \in {"read", "build", "done", "raised"} /\ (pc = "raised" => kind = "attributes")
  /\ NoneFolded
  /\ pc = "read" => rows = <<>> /\ BuiltKeys = {}
  /\ pc = "done" => order = <<>>
  /\ LinesInv /\ OrderInv /\ RowsInv
  /\ errors \in Seq(Nat) /\ Unrepeated(errors)
  /\ kind = "prices" => PricesInv
  /\ kind = "attributes" => AttributesInv

\* A source item's line is a row or an error at once.
ItemInv ==
  /\ pc \in {"read", "build", "done"} /\ NoneFolded /\ order = <<>>
  /\ rows \in Seq(Entries(rows))
  /\ \A r \in DOMAIN rows : \E i \in Past : file[i].cell = "ok" /\ rows[r].lines = <<i>>
  /\ \A i \in Past : file[i].cell = "ok" => \E r \in DOMAIN rows : rows[r].lines = <<i>>
  /\ errors \in Seq(Nat) /\ Unrepeated(errors)
  /\ Entries(errors) = {i \in Past : file[i].cell # "ok"}

\* The inductive invariant of grouping.
GroupingInv ==
  /\ FileInv
  /\ kind = "folded" => FoldInv
  /\ kind \in {"prices", "attributes"} => GroupInv
  /\ kind = "items" => ItemInv

LEMMA GroupingSets ==
  /\ \A S : Grouping!Cardinality(S) = Cardinality(S)
  /\ \A s : Grouping!Range(s) = Entries(s)
BY DEF Grouping!Cardinality, Cardinality, Grouping!IsFiniteSet, IsFiniteSet, Grouping!Range, Entries

\* A sequence with an element more.
Longer(s, e, new) ==
  /\ new # <<>> /\ e \in Entries(new) /\ Entries(new) = Entries(s) \cup {e}
  /\ Unrepeated(s) /\ e \notin Entries(s) => Unrepeated(new)
  /\ Ascends(s) /\ (\A x \in Entries(s) : x < e) => Ascends(new)

LEMMA AppendLonger ==
  ASSUME NEW S, NEW s \in Seq(S), NEW e \in S
  PROVE  Append(s, e) \in Seq(S) /\ Longer(s, e, Append(s, e))
<1> DEFINE new == Append(s, e)
<1>1. /\ new \in Seq(S) /\ DOMAIN new = DOMAIN s \cup {Len(s) + 1}
      /\ new[Len(s) + 1] = e /\ Len(s) \in Nat /\ DOMAIN s = 1 .. Len(s)
      /\ \A i \in DOMAIN s : new[i] = s[i] /\ i < Len(s) + 1 /\ ~(Len(s) + 1 < i) /\ i # Len(s) + 1
  OBVIOUS
<1>2. ~(Len(s) + 1 < Len(s) + 1)
  BY <1>1
<1> HIDE DEF new
<1> DEFINE last == Len(s) + 1
<1>3. /\ DOMAIN new = DOMAIN s \cup {last} /\ new[last] = e /\ ~(last < last)
      /\ \A i \in DOMAIN s : new[i] = s[i] /\ i < last /\ ~(last < i) /\ i # last
  BY <1>1, <1>2
<1> HIDE DEF last
<1>4. new # <<>>
  BY <1>3
<1>5. Entries(new) = Entries(s) \cup {e}
  BY <1>3 DEF Entries
<1>6. Unrepeated(s) /\ e \notin Entries(s) => Unrepeated(new)
  BY <1>3 DEF Unrepeated, Entries
<1>7. Ascends(s) /\ (\A x \in Entries(s) : x < e) => Ascends(new)
  BY <1>3 DEF Ascends, Entries
<1>8. Longer(s, e, new)
  BY <1>4, <1>5, <1>6, <1>7 DEF Longer
<1> QED BY <1>1, <1>8 DEF new

\* A sequence without its first element.
Shorter(s, first, new) ==
  /\ first \in Entries(s) /\ Entries(s) = Entries(new) \cup {first}
  /\ Unrepeated(s) => Unrepeated(new) /\ first \notin Entries(new)
  /\ Ascends(s) => Ascends(new) /\ \A x \in Entries(new) : first < x

LEMMA TailShorter ==
  ASSUME NEW S, NEW s \in Seq(S), s # <<>>
  PROVE  Tail(s) \in Seq(S) /\ Head(s) \in S /\ Head(s) = s[1] /\ Shorter(s, Head(s), Tail(s))
<1> DEFINE new == Tail(s)
           first == Head(s)
<1>1. /\ new \in Seq(S) /\ first \in S /\ 1 \in DOMAIN s /\ first = s[1]
      /\ \A i \in DOMAIN new : i + 1 \in DOMAIN s /\ new[i] = s[i + 1] /\ 1 < i + 1 /\ i + 1 # 1
      /\ \A i \in DOMAIN s : i # 1 => i - 1 \in DOMAIN new /\ new[i - 1] = s[i]
      /\ \A i, j \in DOMAIN new : (i < j => i + 1 < j + 1) /\ (i + 1 = j + 1 => i = j)
  OBVIOUS
<1> HIDE DEF new, first
<1>2. Entries(s) = Entries(new) \cup {first} /\ first \in Entries(s)
  BY <1>1 DEF Entries
<1>3. Unrepeated(s) => Unrepeated(new)
  BY <1>1 DEF Unrepeated
<1>4. Unrepeated(s) => first \notin Entries(new)
  BY <1>1 DEF Unrepeated, Entries
<1>5. Ascends(s) => Ascends(new)
  BY <1>1 DEF Ascends
<1>6. Ascends(s) => \A x \in Entries(new) : first < x
  BY <1>1 DEF Ascends, Entries
<1>7. Shorter(s, first, new)
  BY <1>2, <1>3, <1>4, <1>5, <1>6 DEF Shorter
<1> QED BY <1>1, <1>7 DEF new, first

\* Two sequences with no element in common.
Joined(s, t, new) ==
  /\ Entries(new) = Entries(s) \cup Entries(t)
  /\ Unrepeated(s) /\ Unrepeated(t) /\ Entries(s) \cap Entries(t) = {} => Unrepeated(new)

LEMMA ConcatJoined ==
  ASSUME NEW S, NEW s \in Seq(S), NEW t \in Seq(S)
  PROVE  s \o t \in Seq(S) /\ Joined(s, t, s \o t)
<1> DEFINE new == s \o t
           n == Len(s)
<1>1. /\ new \in Seq(S) /\ n \in Nat
      /\ DOMAIN s = 1 .. n /\ DOMAIN t = 1 .. Len(t) /\ Len(t) \in Nat /\ DOMAIN new = 1 .. (n + Len(t))
      /\ \A i \in DOMAIN s : i \in DOMAIN new /\ new[i] = s[i]
      /\ \A i \in DOMAIN t : i + n \in DOMAIN new /\ new[i + n] = t[i]
  OBVIOUS
<1> HIDE DEF new
<1>2. \A i \in DOMAIN new : i \in DOMAIN s \/ (i - n \in DOMAIN t /\ new[i] = t[i - n])
  BY <1>1
<1>3. \A i, j \in DOMAIN new : i - n = j - n => i = j
  BY <1>1
<1> HIDE DEF n
<1>4. Entries(new) = Entries(s) \cup Entries(t)
  BY <1>1, <1>2 DEF Entries
<1>5. Unrepeated(s) /\ Unrepeated(t) /\ Entries(s) \cap Entries(t) = {} => Unrepeated(new)
  <2> SUFFICES ASSUME Unrepeated(s), Unrepeated(t), Entries(s) \cap Entries(t) = {},
                      NEW i \in DOMAIN new, NEW j \in DOMAIN new, new[i] = new[j]
               PROVE  i = j
    BY DEF Unrepeated
  <2>1. CASE i \in DOMAIN s /\ j \in DOMAIN s
    BY <1>1, <2>1 DEF Unrepeated
  <2>2. CASE i \in DOMAIN s /\ j \notin DOMAIN s
    BY <1>1, <1>2, <2>2 DEF Entries
  <2>3. CASE i \notin DOMAIN s /\ j \in DOMAIN s
    BY <1>1, <1>2, <2>3 DEF Entries
  <2>4. CASE i \notin DOMAIN s /\ j \notin DOMAIN s
    BY <1>2, <1>3, <2>4 DEF Unrepeated
  <2> QED BY <2>1, <2>2, <2>3, <2>4
<1>6. Joined(s, t, new)
  BY <1>4, <1>5 DEF Joined
<1> QED BY <1>1, <1>6 DEF new

\* An ascending sequence repeats nothing.
LEMMA AscendsUnrepeated ==
  ASSUME NEW s \in Seq(Nat), Ascends(s)
  PROVE  Unrepeated(s)
<1> SUFFICES ASSUME NEW i \in DOMAIN s, NEW j \in DOMAIN s, s[i] = s[j]
             PROVE  i = j
  BY DEF Unrepeated
<1>1. i \in Nat /\ j \in Nat /\ s[i] \in Nat /\ s[j] \in Nat
  OBVIOUS
<1>2. ~(i < j) /\ ~(j < i)
  BY <1>1 DEF Ascends
<1> QED BY <1>1, <1>2

\* The lines of a set in the order of the file.
LEMMA GroupingInOrder ==
  ASSUME NEW S \in SUBSET Nat, IsFiniteSet(S)
  PROVE  /\ Grouping!InOrder(S) \in Seq(Nat)
         /\ Ascends(Grouping!InOrder(S)) /\ Entries(Grouping!InOrder(S)) = S
<1> DEFINE n == Cardinality(S)
           Place(i) == Cardinality({j \in S : j <= i})
           at == [k \in 1 .. n |-> CHOOSE i \in S : Place(i) = k]
           Rises(s) == \A a, b \in DOMAIN s : a < b => s[a] < s[b]
<1>1. /\ n \in Nat
      /\ \A i \in S : Place(i) \in 1 .. n
      /\ \A i, j \in S : Place(i) = Place(j) => i = j
      /\ \A k \in 1 .. n : \E i \in S : Place(i) = k
  BY PlacesOfNumbers
<1>2. \A i, j \in S : i <= j => Place(i) <= Place(j)
  <2> SUFFICES ASSUME NEW i \in S, NEW j \in S, i <= j
               PROVE  Place(i) <= Place(j)
    OBVIOUS
  <2>1. {k \in S : k <= i} \in SUBSET {k \in S : k <= j}
    <3>1. i \in Nat /\ j \in Nat /\ \A k \in S : k \in Nat
      OBVIOUS
    <3>2. \A k \in S : k <= i => k <= j
      BY <3>1
    <3> QED BY <3>2
  <2>2. IsFiniteSet({k \in S : k <= j})
    BY FS_Subset
  <2> QED BY <2>1, <2>2, FS_Subset
<1> HIDE DEF Place
<1>3. /\ at \in [1 .. n -> S]
      /\ \A k \in 1 .. n : at[k] \in S /\ Place(at[k]) = k
  BY <1>1
<1> HIDE DEF at, n
<1>4. Rises(at)
  <2> SUFFICES ASSUME NEW a \in 1 .. n, NEW b \in 1 .. n, a < b
               PROVE  at[a] < at[b]
    BY <1>3
  <2>1. at[a] \in Nat /\ at[b] \in Nat /\ a \in Nat /\ b \in Nat
    <3>1. n \in Nat /\ at[a] \in S /\ at[b] \in S
      BY <1>1, <1>3
    <3>2. a \in Nat /\ b \in Nat
      BY <3>1
    <3>3. at[a] \in Nat /\ at[b] \in Nat
      BY <3>1, Zenon
    <3> QED BY <3>2, <3>3
  <2>2. ~(at[b] <= at[a])
    BY <1>2, <1>3, <2>1
  <2> QED BY <2>1, <2>2
<1> DEFINE s == Grouping!InOrder(S)
<1>5. s \in [1 .. n -> S] /\ Rises(s)
  BY <1>3, <1>4, GroupingSets DEF Grouping!InOrder, n
<1> HIDE DEF s
<1>6. s \in Seq(Nat) /\ DOMAIN s = 1 .. n
  <2>1. s \in [1 .. n -> Nat]
    BY <1>5
  <2> QED BY <1>1, <2>1
<1>7. Ascends(s)
  BY <1>5 DEF Ascends
<1>8. Entries(s) = S
  <2>1. Unrepeated(s)
    BY <1>6, <1>7, AscendsUnrepeated
  <2>2. s \in Injection(1 .. n, S)
    BY <1>5, <1>6, <2>1 DEF Injection, IsInjective, Unrepeated
  <2>3. IsFiniteSet(1 .. n) /\ Cardinality(1 .. n) = n
    BY <1>1, FS_Interval DEF n
  <2>4. s \in Surjection(1 .. n, S)
    BY <2>2, <2>3, FS_Injection DEF n
  <2> QED BY <1>5, <2>4 DEF Surjection, Entries, n
<1> QED BY <1>6, <1>7, <1>8 DEF s

\* A later line is the last of a set that it joins.
LEMMA LastJoins ==
  ASSUME NEW S \in SUBSET Nat, NEW n \in Nat, \A y \in S : y < n
  PROVE  IsLast(n, S \cup {n})
BY DEF IsLast

\* Errors, lines and keys are appended.
LEMMA NewEntry ==
  ASSUME NEW s \in Seq(Nat), NEW e \in Nat, e \notin Entries(s), Unrepeated(s),
         NEW new, new = Append(s, e)
  PROVE  new \in Seq(Nat) /\ Unrepeated(new) /\ Entries(new) = Entries(s) \cup {e}
BY AppendLonger DEF Longer

LEMMA LaterEntry ==
  ASSUME NEW s \in Seq(Nat), NEW e \in Nat, \A x \in Entries(s) : x < e, Ascends(s),
         NEW new, new = Append(s, e)
  PROVE  new \in Seq(Nat) /\ Ascends(new) /\ Entries(new) = Entries(s) \cup {e}
BY AppendLonger DEF Longer

LEMMA GroupingFileInit == Grouping!Init => FileInv
<1> SUFFICES ASSUME Grouping!Init
             PROVE  FileInv
  OBVIOUS
<1>1. PICK m \in Nat : file \in [1 .. m -> Grouping!LinesOf(kind)]
  BY RowsAssumption DEF Grouping!Init, Grouping!GroupingAssumption, Grouping!BoundedSeq, Grouping!SeqOf
<1>2. DOMAIN file = 1 .. Len(file) /\ Len(file) = m
  <2>1. file \in Seq(Grouping!LinesOf(kind))
    BY <1>1
  <2> QED BY <1>1, <2>1
<1>3. kind \in {"folded", "prices", "attributes", "items"} /\ next = 1 /\ pc = "read"
  BY DEF Grouping!Init
<1>4. \A l \in Grouping!LinesOf(kind) :
        /\ l.key \in Keys \cup {NoKey} /\ l.view \in Views \cup {Global}
        /\ kind = "folded" => l.cell \in {"ok", "bad"}
        /\ kind \in {"prices", "items"} => l.view = Global /\ l.cell \in {"ok", "bad", "invalid"}
        /\ kind = "attributes" => l.cell \in {"", "ok", "bad"}
  BY <1>3 DEF Grouping!LinesOf, Grouping!Plain, Grouping!GlobalLines, Grouping!AttributeLines
<1>5. \A i \in DOMAIN file : file[i] \in Grouping!LinesOf(kind)
  BY <1>1
<1>6. next \in 1 .. (Len(file) + 1)
  BY <1>2, <1>3
<1> QED BY <1>1, <1>2, <1>3, <1>4, <1>5, <1>6 DEF FileInv

\* A line is read: it is none of those before.
LEMMA LineRead ==
  ASSUME FileInv, Grouping!Reading
  PROVE  /\ FileInv'
         /\ Past' = Past \cup {next} /\ next \notin Past /\ \A i \in Past : i < next
         /\ Past \in SUBSET Nat /\ next \in Nat /\ next \in DOMAIN file
         /\ file' = file /\ kind' = kind /\ pc' = "read" /\ pc = "read"
<1>0. /\ next \in 1 .. (Len(file) + 1) /\ Len(file) \in Nat /\ DOMAIN file = 1 .. Len(file)
      /\ next' = next + 1 /\ next <= Len(file)
      /\ file' = file /\ kind' = kind /\ pc' = pc /\ pc = "read"
  BY DEF FileInv, Grouping!Reading
<1>1. next \in Nat /\ next >= 1
  BY <1>0
<1>2. next' \in 1 .. (Len(file) + 1) /\ next \in DOMAIN file
  BY <1>0, <1>1
<1>3. FileInv'
  BY <1>0, <1>2 DEF FileInv
<1>4. \A i \in DOMAIN file : i < next' <=> i < next \/ i = next
  BY <1>0, <1>1
<1>5. Past' = Past \cup {next}
  BY <1>0, <1>2, <1>4 DEF Past
<1>6. ~(next < next) /\ Past \in SUBSET Nat
  BY <1>0, <1>1 DEF Past
<1>7. next \notin Past /\ \A i \in Past : i < next
  BY <1>6 DEF Past
<1> QED BY <1>0, <1>1, <1>2, <1>3, <1>5, <1>6, <1>7

\* The file has been read, or the step is one of those that come then.
LEMMA LinesStay ==
  ASSUME FileInv, UNCHANGED <<kind, file, next>>,
         pc' \in {"read", "fold", "build", "done", "raised"}, pc' # pc \/ pc # "read",
         pc = "read" => next > Len(file), pc' # "read"
  PROVE  FileInv' /\ Past' = Past
<1>0. next \in 1 .. (Len(file) + 1) /\ Len(file) \in Nat
  BY DEF FileInv
<1>1. next' = Len(file') + 1
  <2>1. CASE pc = "read"
    BY <1>0, <2>1
  <2>2. CASE pc # "read"
    BY <2>2 DEF FileInv
  <2> QED BY <2>1, <2>2
<1> QED BY <1>1 DEF FileInv, Past

---------------------------------------------------------------------------

LEMMA FoldInit == Grouping!Init => (kind = "folded" => FoldInv)
<1> SUFFICES ASSUME Grouping!Init, FileInv, kind = "folded"
             PROVE  FoldInv
  BY GroupingFileInit
<1>1. Past = {}
  BY DEF Past, FileInv, Grouping!Init
<1>2. /\ waiting = <<>> /\ rows = <<>> /\ pc = "read" /\ order = <<>> /\ errors = <<>>
      /\ globals = [k \in Keys |-> 0] /\ folded = [k \in Keys \X Views |-> 0]
  BY DEF Grouping!Init
<1>3. Entries(<<>>) = {} /\ Ascends(<<>>) /\ Unrepeated(<<>>)
  BY DEF Entries, Ascends, Unrepeated
<1>4. Blank = {} /\ StoreLines = {} /\ BadGlobal = {} /\ Folded = {} /\ NotFolded = {}
      /\ (\A k \in Keys : GoodGlobal(k) = {})
      /\ \A k \in Keys, v \in Views : FoldedOf(k, v) = {}
  BY <1>1 DEF Blank, StoreLines, BadGlobal, Folded, NotFolded, GoodGlobal, FoldedOf
<1>5. WaitInv
  BY <1>2, <1>3, <1>4 DEF WaitInv
<1>6. GlobalsInv /\ OverridesInv
  BY <1>2, <1>4 DEF GlobalsInv, OverridesInv, IsLast
<1>7. FoldErrors
  BY <1>2, <1>3, <1>4 DEF FoldErrors
<1> QED BY <1>2, <1>4, <1>5, <1>6, <1>7 DEF FoldInv

\* What the lines named by an error are: all have been read.
LEMMA FoldErrorsPast ==
  ASSUME FoldInv
  PROVE  Entries(errors) \subseteq Past /\ Entries(waiting) \subseteq Past
BY DEF FoldInv, WaitInv, FoldErrors, Blank, BadGlobal, NotFolded, Folded, StoreLines

LEMMA FoldNoKey ==
  ASSUME FileInv, kind = "folded", FoldInv, Grouping!NoKeyLine
  PROVE  FoldInv'
<1>1. /\ Past' = Past \cup {next} /\ next \notin Past /\ next \in Nat
      /\ file' = file /\ pc' = "read" /\ pc = "read"
  BY LineRead DEF Grouping!NoKeyLine
<1>2. /\ file[next].key = NoKey /\ errors' = Append(errors, next)
      /\ UNCHANGED <<globals, waiting, folded, order, rows>> /\ NoKey \notin Keys
  BY RowsAssumption DEF Grouping!NoKeyLine, Grouping!Line, Grouping!GroupingAssumption
<1>3. /\ Blank' = Blank \cup {next} /\ StoreLines' = StoreLines /\ BadGlobal' = BadGlobal
      /\ \A k \in Keys : GoodGlobal(k)' = GoodGlobal(k)
  BY <1>1, <1>2 DEF Blank, StoreLines, BadGlobal, GoodGlobal
<1>4. Folded' = Folded
  BY <1>2, <1>3 DEF Folded
<1>5. NotFolded' = NotFolded /\ \A k \in Keys, v \in Views : FoldedOf(k, v)' = FoldedOf(k, v)
  BY <1>1, <1>2, <1>4 DEF NotFolded, FoldedOf
<1>6. errors' \in Seq(Nat) /\ Unrepeated(errors') /\ Entries(errors') = Entries(errors) \cup {next}
  <2>1. errors \in Seq(Nat) /\ Unrepeated(errors) /\ next \notin Entries(errors)
    BY <1>1, FoldErrorsPast DEF FoldInv, FoldErrors
  <2> QED BY <1>1, <1>2, <2>1, NewEntry
<1>7. WaitInv'
  BY <1>2, <1>3, <1>4 DEF FoldInv, WaitInv
<1>8. GlobalsInv' /\ OverridesInv'
  BY <1>2, <1>3, <1>5 DEF FoldInv, GlobalsInv, OverridesInv
<1>9. FoldErrors'
  BY <1>3, <1>5, <1>6 DEF FoldInv, FoldErrors
<1> QED BY <1>1, <1>2, <1>4, <1>7, <1>8, <1>9 DEF FoldInv

LEMMA FoldStore ==
  ASSUME FileInv, kind = "folded", FoldInv, Grouping!StoreLine
  PROVE  FoldInv'
<1>1. /\ Past' = Past \cup {next} /\ next \notin Past /\ next \in Nat /\ \A i \in Past : i < next
      /\ file' = file /\ pc' = "read" /\ pc = "read"
  BY LineRead DEF Grouping!StoreLine
<1>2. /\ file[next].key # NoKey /\ file[next].view # Global /\ waiting' = Append(waiting, next)
      /\ UNCHANGED <<globals, folded, order, rows, errors>>
  BY DEF Grouping!StoreLine, Grouping!Line
<1>3. /\ Blank' = Blank /\ StoreLines' = StoreLines \cup {next} /\ BadGlobal' = BadGlobal
      /\ \A k \in Keys : GoodGlobal(k)' = GoodGlobal(k)
  BY <1>1, <1>2 DEF Blank, StoreLines, BadGlobal, GoodGlobal
<1>4. waiting' \in Seq(Nat) /\ Ascends(waiting') /\ Entries(waiting') = Entries(waiting) \cup {next}
  <2>1. waiting \in Seq(Nat) /\ Ascends(waiting) /\ \A x \in Entries(waiting) : x < next
    BY <1>1, FoldErrorsPast DEF FoldInv, WaitInv
  <2> QED BY <1>1, <1>2, <2>1, LaterEntry
<1>5. Folded' = Folded /\ Folded = {}
  <2>1. Folded = {}
    BY <1>1 DEF FoldInv
  <2>2. Folded' = {}
    BY <1>3, <1>4, <2>1 DEF Folded
  <2> QED BY <2>1, <2>2
<1>6. NotFolded' = NotFolded /\ \A k \in Keys, v \in Views : FoldedOf(k, v)' = FoldedOf(k, v)
  BY <1>1, <1>2, <1>5 DEF NotFolded, FoldedOf
<1>7. WaitInv'
  BY <1>2, <1>3, <1>4, <1>5 DEF FoldInv, WaitInv
<1>8. GlobalsInv' /\ OverridesInv'
  BY <1>2, <1>3, <1>6 DEF FoldInv, GlobalsInv, OverridesInv
<1>9. FoldErrors'
  BY <1>2, <1>3, <1>6 DEF FoldInv, FoldErrors
<1> QED BY <1>1, <1>2, <1>5, <1>7, <1>8, <1>9 DEF FoldInv

LEMMA FoldGlobal ==
  ASSUME FileInv, kind = "folded", FoldInv, Grouping!GlobalLine
  PROVE  FoldInv'
<1> PICK key : key = file[next].key
  OBVIOUS
<1>1. /\ Past' = Past \cup {next} /\ next \notin Past /\ next \in Nat /\ \A i \in Past : i < next
      /\ file' = file /\ pc' = "read" /\ pc = "read" /\ next \in DOMAIN file /\ Past \in SUBSET Nat
  BY LineRead DEF Grouping!GlobalLine
<1>2. /\ key # NoKey /\ file[next].view = Global /\ key \in Keys
      /\ UNCHANGED <<waiting, folded, rows>>
  BY <1>1 DEF Grouping!GlobalLine, Grouping!Line, FileInv
<1>3. /\ Blank' = Blank /\ StoreLines' = StoreLines
      /\ \A k \in Keys : k # key => GoodGlobal(k)' = GoodGlobal(k)
      /\ Folded' = Folded /\ Folded = {}
  BY <1>1, <1>2 DEF Blank, StoreLines, GoodGlobal, Folded, FoldInv
<1>4. NotFolded' = {} /\ NotFolded = {} /\ \A k \in Keys, v \in Views : FoldedOf(k, v)' = {} /\ FoldedOf(k, v) = {}
  BY <1>3 DEF NotFolded, FoldedOf
<1>w. WaitInv' /\ OverridesInv'
  <2>1. WaitInv'
    BY <1>2, <1>3 DEF FoldInv, WaitInv
  <2>2. OverridesInv'
    BY <1>2, <1>4 DEF FoldInv, OverridesInv
  <2> QED BY <2>1, <2>2
<1>5. CASE file[next].cell = "bad"
  <2>1. errors' = Append(errors, next) /\ UNCHANGED <<globals, order>>
    BY <1>5 DEF Grouping!GlobalLine, Grouping!Line
  <2>2. errors' \in Seq(Nat) /\ Unrepeated(errors') /\ Entries(errors') = Entries(errors) \cup {next}
    <3>1. errors \in Seq(Nat) /\ Unrepeated(errors) /\ next \notin Entries(errors)
      BY <1>1, FoldErrorsPast DEF FoldInv, FoldErrors
    <3> QED BY <1>1, <2>1, <3>1, NewEntry
  <2>3. BadGlobal' = BadGlobal \cup {next}
    BY <1>1, <1>2, <1>5 DEF BadGlobal
  <2>4. GoodGlobal(key)' = GoodGlobal(key)
    BY <1>1, <1>5 DEF GoodGlobal
  <2>5. GlobalsInv'
    BY <1>3, <2>1, <2>4 DEF FoldInv, GlobalsInv
  <2>6. FoldErrors'
    BY <1>3, <1>4, <2>2, <2>3 DEF FoldInv, FoldErrors
  <2> QED BY <1>1, <1>2, <1>3, <1>w, <2>1, <2>5, <2>6 DEF FoldInv
<1>6. CASE file[next].cell # "bad"
  <2>1. /\ globals' = [globals EXCEPT ![key] = next]
        /\ order' = Append(order, key) /\ UNCHANGED errors
    BY <1>6 DEF Grouping!GlobalLine, Grouping!Line
  <2>2. BadGlobal' = BadGlobal
    BY <1>1, <1>6 DEF BadGlobal
  <2>3. GoodGlobal(key)' = GoodGlobal(key) \cup {next}
    BY <1>1, <1>2, <1>6 DEF GoodGlobal
  <2>4. IsLast(next, GoodGlobal(key) \cup {next})
    <3>1. GoodGlobal(key) \in SUBSET Nat /\ \A y \in GoodGlobal(key) : y < next
      BY <1>1 DEF GoodGlobal
    <3> QED BY <1>1, <3>1, LastJoins
  <2>5. order' \in Seq(Keys)
    <3>1. order \in Seq(Keys)
      BY DEF FoldInv
    <3> QED BY <1>2, <2>1, <3>1, AppendLonger
  <2>6. GlobalsInv'
    <3>1. globals \in [Keys -> Nat] /\ \A k \in Keys : IsLast(globals[k], GoodGlobal(k))
      BY DEF FoldInv, GlobalsInv
    <3>2. globals' \in [Keys -> Nat]
      BY <1>1, <2>1, <3>1
    <3>3. globals'[key] = next /\ \A k \in Keys : k # key => globals'[k] = globals[k]
      BY <1>2, <2>1, <3>1
    <3>4. ASSUME NEW k \in Keys
          PROVE  IsLast(globals'[k], GoodGlobal(k)')
      <4>1. CASE k = key
        BY <2>3, <2>4, <3>3, <4>1
      <4>2. CASE k # key
        BY <1>3, <3>1, <3>3, <4>2
      <4> QED BY <4>1, <4>2
    <3> QED BY <3>2, <3>4 DEF GlobalsInv
  <2>7. FoldErrors'
    BY <1>3, <1>4, <2>1, <2>2 DEF FoldInv, FoldErrors
  <2> QED BY <1>1, <1>2, <1>3, <1>w, <2>5, <2>6, <2>7 DEF FoldInv
<1> QED BY <1>5, <1>6

LEMMA FoldEnd ==
  ASSUME FileInv, kind = "folded", FoldInv, Grouping!EndOfFile \/ Grouping!Return
  PROVE  FileInv' /\ FoldInv'
<1>1. /\ UNCHANGED <<kind, file, next, globals, waiting, folded, groups, order, rows, errors>>
      /\ pc = "read" => next > Len(file) /\ pc' = "fold"
      /\ pc # "read" => pc' = "done" /\ waiting = <<>>
  BY DEF Grouping!EndOfFile, Grouping!Return, FoldInv
<1>2. FileInv' /\ Past' = Past
  BY <1>1, LinesStay
<1>3. /\ Blank' = Blank /\ StoreLines' = StoreLines /\ BadGlobal' = BadGlobal
      /\ Folded' = Folded /\ NotFolded' = NotFolded
      /\ (\A k \in Keys : GoodGlobal(k)' = GoodGlobal(k))
      /\ \A k \in Keys, v \in Views : FoldedOf(k, v)' = FoldedOf(k, v)
  BY <1>1, <1>2 DEF Blank, StoreLines, BadGlobal, Folded, NotFolded, GoodGlobal, FoldedOf
<1>4. WaitInv' /\ FoldErrors'
  BY <1>1, <1>3 DEF FoldInv, WaitInv, FoldErrors
<1>5. GlobalsInv' /\ OverridesInv'
  BY <1>1, <1>3 DEF FoldInv, GlobalsInv, OverridesInv
<1> QED BY <1>1, <1>2, <1>4, <1>5 DEF FoldInv

\* A store view's line is folded: it is the first that waits.
LEMMA FoldNext ==
  ASSUME FileInv, kind = "folded", FoldInv, Grouping!FoldLine
  PROVE  FileInv' /\ FoldInv'
<1>1. /\ pc = "fold" /\ waiting # <<>> /\ waiting' = Tail(waiting)
      /\ UNCHANGED <<kind, file, next, globals, groups, order, rows, pc>>
  BY DEF Grouping!FoldLine
<1>2. FileInv' /\ Past' = Past
  BY <1>1, LinesStay
<1>3. PICK line : line = Head(waiting)
  OBVIOUS
<1>4. /\ waiting' \in Seq(Nat) /\ Ascends(waiting') /\ line \in Nat /\ line \in Entries(waiting)
      /\ Entries(waiting) = Entries(waiting') \cup {line} /\ line \notin Entries(waiting')
      /\ \A x \in Entries(waiting') : line < x
  <2>1. waiting \in Seq(Nat) /\ Ascends(waiting) /\ Unrepeated(waiting)
    BY AscendsUnrepeated DEF FoldInv, WaitInv
  <2>2. Tail(waiting) \in Seq(Nat) /\ Head(waiting) \in Nat /\ Shorter(waiting, Head(waiting), Tail(waiting))
    BY <1>1, <2>1, TailShorter
  <2> QED BY <1>1, <1>3, <2>1, <2>2 DEF Shorter
<1>5. line \in StoreLines /\ line \notin Folded /\ line \in DOMAIN file
  BY <1>4 DEF FoldInv, WaitInv, Folded, StoreLines, Past
<1>6. /\ Blank' = Blank /\ StoreLines' = StoreLines /\ BadGlobal' = BadGlobal
      /\ \A k \in Keys : GoodGlobal(k)' = GoodGlobal(k)
  BY <1>1, <1>2 DEF Blank, StoreLines, BadGlobal, GoodGlobal
<1>7. Folded' = Folded \cup {line}
  BY <1>4, <1>5, <1>6 DEF Folded
<1>8. WaitInv'
  <2>1. \A i \in Folded, j \in Entries(waiting) : i < j
    BY DEF FoldInv, WaitInv
  <2>2. Entries(waiting') \subseteq StoreLines'
    BY <1>4, <1>6 DEF FoldInv, WaitInv
  <2> QED BY <1>4, <1>7, <2>1, <2>2 DEF WaitInv
<1>9. GlobalsInv'
  BY <1>1, <1>6 DEF FoldInv, GlobalsInv
<1>10. line \notin Entries(errors) /\ errors \in Seq(Nat) /\ Unrepeated(errors)
  BY <1>5 DEF FoldInv, FoldErrors, Blank, BadGlobal, NotFolded, StoreLines
<1>11. CASE globals[file[line].key] = 0 \/ file[line].cell = "bad"
  <2>1. errors' = Append(errors, line) /\ UNCHANGED folded
    BY <1>3, <1>11 DEF Grouping!FoldLine, Grouping!NotFolded
  <2>2. errors' \in Seq(Nat) /\ Unrepeated(errors') /\ Entries(errors') = Entries(errors) \cup {line}
    BY <1>4, <1>10, <2>1, NewEntry
  <2>3. NotFolded' = NotFolded \cup {line}
    BY <1>1, <1>7, <1>11 DEF NotFolded
  <2>4. \A k \in Keys, v \in Views : FoldedOf(k, v)' = FoldedOf(k, v)
    BY <1>1, <1>7, <1>11 DEF FoldedOf
  <2>5. OverridesInv'
    BY <2>1, <2>4 DEF FoldInv, OverridesInv
  <2>6. FoldErrors'
    BY <1>6, <2>2, <2>3 DEF FoldInv, FoldErrors
  <2> QED BY <1>1, <1>2, <1>8, <1>9, <2>5, <2>6 DEF FoldInv
<1>12. CASE ~(globals[file[line].key] = 0 \/ file[line].cell = "bad")
  <2>1. UNCHANGED errors /\ folded' = [folded EXCEPT ![<<file[line].key, file[line].view>>] = line]
    BY <1>3, <1>12 DEF Grouping!FoldLine, Grouping!NotFolded
  <2>2. NotFolded' = NotFolded
    BY <1>1, <1>7, <1>12 DEF NotFolded
  <2>3. PICK key \in Keys, view \in Views : key = file[line].key /\ view = file[line].view
    BY <1>5 DEF FileInv, StoreLines
  <2>4. FoldedOf(key, view)' = FoldedOf(key, view) \cup {line}
    BY <1>1, <1>7, <1>12, <2>3 DEF FoldedOf
  <2>5. \A k \in Keys, v \in Views : <<k, v>> # <<key, view>> => FoldedOf(k, v)' = FoldedOf(k, v)
    BY <1>1, <1>7, <2>3 DEF FoldedOf
  <2>6. IsLast(line, FoldedOf(key, view) \cup {line})
    <3>1. FoldedOf(key, view) \in SUBSET Nat /\ \A y \in FoldedOf(key, view) : y < line
      <4>1. FoldedOf(key, view) \subseteq Folded /\ Folded \subseteq Past
        BY DEF FoldedOf, Folded, StoreLines
      <4>2. \A y \in Folded : y < line
        BY <1>4 DEF FoldInv, WaitInv
      <4>3. Past \subseteq Nat
        BY DEF Past, FileInv
      <4> QED BY <4>1, <4>2, <4>3
    <3> QED BY <1>4, <3>1, LastJoins
  <2>7. OverridesInv'
    <3>1. folded \in [Keys \X Views -> Nat] /\ \A k \in Keys, v \in Views : IsLast(folded[<<k, v>>], FoldedOf(k, v))
      BY DEF FoldInv, OverridesInv
    <3>2. folded' \in [Keys \X Views -> Nat]
      BY <1>4, <2>1, <3>1
    <3>3. /\ folded'[<<key, view>>] = line
          /\ \A k \in Keys, v \in Views : <<k, v>> # <<key, view>> => folded'[<<k, v>>] = folded[<<k, v>>]
      BY <2>1, <2>3, <3>1
    <3>4. ASSUME NEW k \in Keys, NEW v \in Views
          PROVE  IsLast(folded'[<<k, v>>], FoldedOf(k, v)')
      <4>1. CASE <<k, v>> = <<key, view>>
        BY <2>4, <2>6, <3>3, <4>1
      <4>2. CASE <<k, v>> # <<key, view>>
        BY <2>5, <3>1, <3>3, <4>2
      <4> QED BY <4>1, <4>2
    <3> QED BY <3>2, <3>4 DEF OverridesInv
  <2>8. FoldErrors'
    BY <1>6, <2>1, <2>2 DEF FoldInv, FoldErrors
  <2> QED BY <1>1, <1>2, <1>8, <1>9, <2>7, <2>8 DEF FoldInv
<1> QED BY <1>11, <1>12

---------------------------------------------------------------------------

\* A row is returned.
RowAdded(s, row, new) ==
  /\ new \in Seq(Entries(new))
  /\ \E last : /\ last \notin DOMAIN s /\ DOMAIN new = DOMAIN s \cup {last}
               /\ new[last] = row /\ \A r \in DOMAIN s : new[r] = s[r]

LEMMA RowReturned ==
  ASSUME NEW s, s \in Seq(Entries(s)), NEW row, NEW new, new = Append(s, row)
  PROVE  RowAdded(s, row, new)
<1> DEFINE S == Entries(s) \cup {row}
<1>1. s \in Seq(S) /\ row \in S
  OBVIOUS
<1> HIDE DEF S
<1>2. new \in Seq(S) /\ Longer(s, row, new)
  BY <1>1, AppendLonger
<1>3. new \in Seq(Entries(new))
  BY <1>2 DEF Longer, S
<1>4. /\ Len(s) + 1 \notin DOMAIN s /\ DOMAIN new = DOMAIN s \cup {Len(s) + 1}
      /\ new[Len(s) + 1] = row /\ \A r \in DOMAIN s : new[r] = s[r]
  BY <1>1
<1> QED BY <1>3, <1>4 DEF RowAdded

LEMMA NonePast ==
  ASSUME Grouping!Init
  PROVE  Past = {}
<1>1. FileInv
  BY GroupingFileInit
<1>2. next = 1 /\ Len(file) \in Nat /\ DOMAIN file = 1 .. Len(file)
  BY <1>1 DEF FileInv, Grouping!Init
<1>3. \A i \in DOMAIN file : ~(i < next)
  BY <1>2
<1> QED BY <1>3 DEF Past

LEMMA GroupInit == Grouping!Init => (kind \in {"prices", "attributes"} => GroupInv)
<1> SUFFICES ASSUME Grouping!Init, kind \in {"prices", "attributes"}
             PROVE  GroupInv
  OBVIOUS
<1>1. Past = {}
  BY NonePast
<1>2. /\ waiting = <<>> /\ rows = <<>> /\ pc = "read" /\ order = <<>> /\ errors = <<>>
      /\ globals = [k \in Keys |-> 0] /\ folded = [k \in Keys \X Views |-> 0]
      /\ groups = [k \in Keys |-> <<>>]
  BY DEF Grouping!Init
<1>3. Entries(<<>>) = {} /\ Ascends(<<>>) /\ Unrepeated(<<>>) /\ (DOMAIN <<>>) = {}
  BY DEF Entries, Ascends, Unrepeated
<1>4. BlankGlobal = {} /\ BuiltKeys = {} /\ RowKeys = {} /\ \A k \in Keys : GlobalOf(k) = {}
  BY <1>1, <1>2 DEF BlankGlobal, BuiltKeys, RowKeys, GlobalOf
<1>5. LinesInv /\ OrderInv /\ RowsInv
  <2>1. LinesInv
    <3>1. groups \in [Keys -> Seq(Nat)]
      BY <1>2
    <3>2. \A k \in Keys : groups[k] = <<>>
      BY <1>2
    <3> QED BY <1>3, <1>4, <3>1, <3>2 DEF LinesInv
  <2>2. OrderInv
    BY <1>2, <1>3 DEF OrderInv
  <2>3. <<>> \in Seq(Entries(<<>>))
    OBVIOUS
  <2>4. RowsInv
    BY <1>2, <1>3, <2>3 DEF RowsInv
  <2> QED BY <2>1, <2>2, <2>4
<1>6. PricesInv /\ AttributesInv
  BY <1>2, <1>3, <1>4 DEF PricesInv, AttributesInv
<1> QED BY <1>2, <1>3, <1>4, <1>5, <1>6 DEF GroupInv, NoneFolded

\* The errors name lines that were read.
LEMMA GroupErrorsPast ==
  ASSUME kind \in {"prices", "attributes"}, GroupInv, pc = "read"
  PROVE  Entries(errors) = BlankGlobal /\ RowKeys = {} /\ BuiltKeys = {} /\ rows = <<>>
BY DEF GroupInv, PricesInv, AttributesInv, RowKeys

\* As long as the file is read, only the lines without a key have errors.
LEMMA GroupReads ==
  ASSUME kind \in {"prices", "attributes"}, GroupInv, pc = "read", kind' = kind, pc' = "read",
         UNCHANGED <<globals, waiting, folded, rows>>,
         LinesInv', OrderInv', BuiltKeys' = {},
         errors' \in Seq(Nat), Unrepeated(errors'), Entries(errors') = BlankGlobal'
  PROVE  GroupInv'
<1>1. rows = <<>> /\ RowKeys' = {} /\ DOMAIN rows = {}
  BY GroupErrorsPast DEF RowKeys
<1>2. RowsInv'
  BY <1>1, GroupErrorsPast DEF RowsInv, GroupInv
<1>3. PricesInv' /\ AttributesInv'
  BY <1>1 DEF PricesInv, AttributesInv
<1>4. NoneFolded'
  BY DEF NoneFolded, GroupInv
<1> QED BY <1>1, <1>2, <1>3, <1>4 DEF GroupInv

LEMMA GroupSkips ==
  ASSUME FileInv, kind \in {"prices", "attributes"}, GroupInv, Grouping!OtherStore
  PROVE  GroupInv'
<1>1. /\ Past' = Past \cup {next} /\ file' = file /\ kind' = kind /\ pc' = "read" /\ pc = "read"
  BY LineRead DEF Grouping!OtherStore
<1>2. /\ file[next].view # Global
      /\ UNCHANGED <<globals, waiting, folded, groups, order, rows, errors>>
  BY DEF Grouping!OtherStore, Grouping!Line
<1>3. BlankGlobal' = BlankGlobal /\ \A k \in Keys : GlobalOf(k)' = GlobalOf(k)
  BY <1>1, <1>2 DEF BlankGlobal, GlobalOf
<1>4. LinesInv' /\ OrderInv'
  BY <1>2, <1>3 DEF GroupInv, LinesInv, OrderInv
<1>5. BuiltKeys' = {}
  BY <1>1, <1>2, GroupErrorsPast DEF BuiltKeys
<1>6. errors' \in Seq(Nat) /\ Unrepeated(errors') /\ Entries(errors') = BlankGlobal'
  BY <1>1, <1>2, <1>3, GroupErrorsPast DEF GroupInv
<1> QED BY <1>1, <1>2, <1>4, <1>5, <1>6, GroupReads

LEMMA GroupNoKey ==
  ASSUME FileInv, kind \in {"prices", "attributes"}, GroupInv, Grouping!NoKeyLine
  PROVE  GroupInv'
<1>1. /\ Past' = Past \cup {next} /\ next \notin Past /\ next \in Nat /\ next \in DOMAIN file
      /\ file' = file /\ kind' = kind /\ pc' = "read" /\ pc = "read"
  BY LineRead DEF Grouping!NoKeyLine
<1>2. /\ file[next].key = NoKey /\ errors' = Append(errors, next) /\ NoKey \notin Keys
      /\ UNCHANGED <<globals, waiting, folded, groups, order, rows>>
  BY RowsAssumption DEF Grouping!NoKeyLine, Grouping!Line, Grouping!GroupingAssumption
<1>3. file[next].view = Global
  BY <1>1 DEF FileInv, Grouping!NoKeyLine, Grouping!Line
<1>4. BlankGlobal' = BlankGlobal \cup {next} /\ \A k \in Keys : GlobalOf(k)' = GlobalOf(k)
  BY <1>1, <1>2, <1>3 DEF BlankGlobal, GlobalOf
<1>5. LinesInv' /\ OrderInv'
  BY <1>2, <1>4 DEF GroupInv, LinesInv, OrderInv
<1>6. BuiltKeys' = {}
  BY <1>1, <1>2, GroupErrorsPast DEF BuiltKeys
<1>7. errors' \in Seq(Nat) /\ Unrepeated(errors') /\ Entries(errors') = BlankGlobal'
  <2>1. errors \in Seq(Nat) /\ Unrepeated(errors) /\ next \notin Entries(errors)
    BY <1>1, GroupErrorsPast DEF GroupInv, BlankGlobal
  <2>2. errors' \in Seq(Nat) /\ Unrepeated(errors') /\ Entries(errors') = Entries(errors) \cup {next}
    BY <1>1, <1>2, <2>1, NewEntry
  <2> QED BY <1>1, <1>4, <2>2, GroupErrorsPast
<1> QED BY <1>1, <1>2, <1>5, <1>6, <1>7, GroupReads

LEMMA NewKey ==
  ASSUME NEW s \in Seq(Keys), NEW e \in Keys, e \notin Entries(s), Unrepeated(s),
         NEW new, new = Append(s, e)
  PROVE  new \in Seq(Keys) /\ Unrepeated(new) /\ Entries(new) = Entries(s) \cup {e}
BY AppendLonger DEF Longer

LEMMA GroupGrows ==
  ASSUME FileInv, kind \in {"prices", "attributes"}, GroupInv, Grouping!GroupLine
  PROVE  GroupInv'
<1>1. /\ Past' = Past \cup {next} /\ next \notin Past /\ next \in Nat /\ next \in DOMAIN file
      /\ \A i \in Past : i < next
      /\ file' = file /\ kind' = kind /\ pc' = "read" /\ pc = "read"
  BY LineRead DEF Grouping!GroupLine
<1>2. PICK key : key = file[next].key
  OBVIOUS
<1>3. /\ key \in Keys /\ file[next].view = Global /\ NoKey \notin Keys
      /\ groups' = [groups EXCEPT ![key] = Append(@, next)]
      /\ order' = IF groups[key] = <<>> THEN Append(order, key) ELSE order
      /\ UNCHANGED <<globals, waiting, folded, rows, errors>>
  BY <1>1, <1>2, RowsAssumption DEF FileInv, Grouping!GroupLine, Grouping!Line, Grouping!GroupingAssumption
<1>4. /\ BlankGlobal' = BlankGlobal /\ GlobalOf(key)' = GlobalOf(key) \cup {next}
      /\ \A k \in Keys : k # key => GlobalOf(k)' = GlobalOf(k)
  BY <1>1, <1>2, <1>3 DEF BlankGlobal, GlobalOf
<1>5. groups \in [Keys -> Seq(Nat)] /\ \A k \in Keys : Ascends(groups[k]) /\ Entries(groups[k]) = GlobalOf(k)
  BY DEF GroupInv, LinesInv
<1>6. PICK longer : longer = Append(groups[key], next)
  OBVIOUS
<1>7. longer \in Seq(Nat) /\ Ascends(longer) /\ Entries(longer) = GlobalOf(key) \cup {next} /\ longer # <<>>
  <2>1. groups[key] \in Seq(Nat) /\ Ascends(groups[key]) /\ \A x \in Entries(groups[key]) : x < next
    BY <1>1, <1>3, <1>5 DEF GlobalOf
  <2>2. longer \in Seq(Nat) /\ Ascends(longer) /\ Entries(longer) = Entries(groups[key]) \cup {next}
    BY <1>1, <1>6, <2>1, LaterEntry
  <2>3. longer # <<>>
    BY <1>6, <2>1
  <2> QED BY <1>3, <1>5, <2>2, <2>3
<1>8. /\ groups' \in [Keys -> Seq(Nat)] /\ groups'[key] = longer
      /\ \A k \in Keys : k # key => groups'[k] = groups[k]
  BY <1>3, <1>5, <1>6, <1>7
<1>9. LinesInv'
  <2>1. ASSUME NEW k \in Keys
        PROVE  Ascends(groups'[k]) /\ Entries(groups'[k]) = GlobalOf(k)'
    <3>1. CASE k = key
      BY <1>4, <1>7, <1>8, <3>1
    <3>2. CASE k # key
      BY <1>4, <1>5, <1>8, <3>2
    <3> QED BY <3>1, <3>2
  <2> QED BY <1>8, <2>1 DEF LinesInv
<1>10. /\ order \in Seq(Keys) /\ Unrepeated(order) /\ \A k \in Entries(order) : groups[k] # <<>>
       /\ \A k \in Keys : groups[k] # <<>> => k \in Entries(order)
  BY <1>1, GroupErrorsPast DEF GroupInv, OrderInv, BuiltKeys
<1>11. order' \in Seq(Keys) /\ Unrepeated(order') /\ Entries(order') = Entries(order) \cup {key}
  <2>1. CASE groups[key] = <<>>
    BY <1>3, <1>10, <2>1, NewKey
  <2>2. CASE groups[key] # <<>>
    BY <1>3, <1>10, <2>2
  <2> QED BY <2>1, <2>2
<1>12. OrderInv' /\ BuiltKeys' = {}
  <2>1. \A k \in Keys : groups'[k] # <<>> <=> k \in Entries(order')
    BY <1>7, <1>8, <1>10, <1>11
  <2>2. Entries(order') \subseteq Keys
    BY <1>3, <1>10, <1>11 DEF Entries
  <2> QED BY <1>11, <2>1, <2>2 DEF OrderInv, BuiltKeys
<1>13. errors' \in Seq(Nat) /\ Unrepeated(errors') /\ Entries(errors') = BlankGlobal'
  BY <1>1, <1>3, <1>4, GroupErrorsPast DEF GroupInv
<1> QED BY <1>1, <1>3, <1>9, <1>12, <1>13, GroupReads

LEMMA GroupEnd ==
  ASSUME FileInv, kind \in {"prices", "attributes"}, GroupInv, Grouping!EndOfFile \/ Grouping!Return
  PROVE  FileInv' /\ GroupInv'
<1>1. /\ UNCHANGED <<kind, file, next, globals, waiting, folded, groups, order, rows, errors>>
      /\ pc = "read" => next > Len(file) /\ pc' = "build"
      /\ pc # "read" => pc' = "done" /\ pc = "build" /\ order = <<>>
  BY DEF Grouping!EndOfFile, Grouping!Return, GroupInv
<1>2. FileInv' /\ Past' = Past
  BY <1>1, LinesStay
<1>3. /\ BlankGlobal' = BlankGlobal /\ BuiltKeys' = BuiltKeys /\ RowKeys' = RowKeys
      /\ (\A k \in Keys : GlobalOf(k)' = GlobalOf(k))
      /\ \A k \in Keys : PriceErrors(k)' = PriceErrors(k)
  BY <1>1, <1>2 DEF BlankGlobal, BuiltKeys, RowKeys, GlobalOf, PriceErrors, BadOf, InvalidOf
<1>4. LinesInv' /\ OrderInv' /\ RowsInv'
  BY <1>1, <1>3 DEF GroupInv, LinesInv, OrderInv, RowsInv
<1>5. kind = "prices" => PricesInv'
  BY <1>1, <1>3 DEF GroupInv, PricesInv, BuiltKeys
<1>6. kind = "attributes" => AttributesInv'
  BY <1>1, <1>3 DEF GroupInv, AttributesInv
<1> QED BY <1>1, <1>2, <1>4, <1>5, <1>6 DEF GroupInv, NoneFolded

\* The turn of a key: it is the first of the order, and its row or its errors
\* are new.
Turn(key) ==
  /\ key \in Keys /\ key = Head(order) /\ key \notin BuiltKeys /\ key \notin RowKeys
  /\ groups[key] \in Seq(Nat) /\ groups[key] # <<>> /\ Ascends(groups[key])
  /\ Entries(groups[key]) = GlobalOf(key)
  /\ BuiltKeys' = BuiltKeys \cup {key}
  /\ FileInv' /\ LinesInv' /\ OrderInv' /\ NoneFolded' /\ kind' = kind /\ file' = file
  /\ BlankGlobal' = BlankGlobal
  /\ \A k \in Keys : GlobalOf(k)' = GlobalOf(k) /\ PriceErrors(k)' = PriceErrors(k)

LEMMA GroupTurn ==
  ASSUME FileInv, kind \in {"prices", "attributes"}, GroupInv, Grouping!Building,
         UNCHANGED <<kind, file, next, globals, waiting, folded, groups>>, pc' \in {"build", "raised"}
  PROVE  \E key : Turn(key)
<1>1. pc = "build" /\ order # <<>> /\ order' = Tail(order)
  BY DEF Grouping!Building
<1>2. FileInv' /\ Past' = Past
  BY <1>1, LinesStay
<1>3. PICK key : key = Head(order)
  OBVIOUS
<1>4. /\ order' \in Seq(Keys) /\ Unrepeated(order') /\ key \in Keys /\ key \in Entries(order)
      /\ Entries(order) = Entries(order') \cup {key} /\ key \notin Entries(order')
  <2>1. order \in Seq(Keys) /\ Unrepeated(order)
    BY DEF GroupInv, OrderInv
  <2>2. Tail(order) \in Seq(Keys) /\ Head(order) \in Keys /\ Shorter(order, Head(order), Tail(order))
    BY <1>1, <2>1, TailShorter
  <2> QED BY <1>1, <1>3, <2>1, <2>2 DEF Shorter
<1>5. OrderInv' /\ groups[key] # <<>>
  BY <1>4 DEF GroupInv, OrderInv
<1>6. key \notin BuiltKeys /\ BuiltKeys' = BuiltKeys \cup {key}
  BY <1>4, <1>5 DEF BuiltKeys
<1>7. RowKeys \subseteq BuiltKeys
  BY <1>1 DEF GroupInv, PricesInv, AttributesInv
<1>8. /\ BlankGlobal' = BlankGlobal
      /\ \A k \in Keys : GlobalOf(k)' = GlobalOf(k)
  BY <1>2 DEF BlankGlobal, GlobalOf
<1>9. \A k \in Keys : PriceErrors(k)' = PriceErrors(k)
  BY <1>2 DEF GlobalOf, PriceErrors, BadOf, InvalidOf
<1>10. LinesInv'
  BY <1>8 DEF GroupInv, LinesInv
<1>11. groups[key] \in Seq(Nat) /\ Ascends(groups[key]) /\ Entries(groups[key]) = GlobalOf(key)
  BY <1>4 DEF GroupInv, LinesInv
<1>12. NoneFolded'
  BY DEF GroupInv, NoneFolded
<1> QED BY <1>2, <1>3, <1>4, <1>5, <1>6, <1>7, <1>8, <1>9, <1>10, <1>11, <1>12 DEF Turn

\* The key of the turn gets its row.
LEMMA RowGiven ==
  ASSUME RowsInv, NEW key \in Keys, key \notin RowKeys, groups' = groups,
         NEW row, row.key = key, row.lines = groups[key], rows' = Append(rows, row)
  PROVE  /\ RowsInv' /\ RowKeys' = RowKeys \cup {key}
         /\ \A r \in DOMAIN rows' : rows'[r] = row \/ (r \in DOMAIN rows /\ rows'[r] = rows[r])
<1>1. rows \in Seq(Entries(rows))
  BY DEF RowsInv
<1>2. RowAdded(rows, row, rows')
  BY <1>1, RowReturned
<1>3. PICK last : /\ last \notin DOMAIN rows /\ DOMAIN rows' = DOMAIN rows \cup {last}
                  /\ rows'[last] = row /\ \A r \in DOMAIN rows : rows'[r] = rows[r]
  BY <1>2 DEF RowAdded
<1>4. rows' \in Seq(Entries(rows'))
  BY <1>2 DEF RowAdded
<1>5. \A r \in DOMAIN rows' : rows'[r].key \in Keys /\ rows'[r].lines = groups'[rows'[r].key]
  BY <1>3 DEF RowsInv
<1>6. \A r \in DOMAIN rows : rows[r].key # key
  BY DEF RowKeys
<1>7. \A r, q \in DOMAIN rows' : rows'[r].key = rows'[q].key => r = q
  BY <1>3, <1>6 DEF RowsInv
<1>8. RowKeys' = RowKeys \cup {key}
  BY <1>3 DEF RowKeys
<1>9. RowsInv'
  BY <1>4, <1>5, <1>7 DEF RowsInv
<1> QED BY <1>3, <1>8, <1>9

\* Errors of a SKU that is built stand in its lines.
LEMMA PriceErrorsIn ==
  ASSUME LinesInv, NEW k \in Keys, groups[k] # <<>>
  PROVE  PriceErrors(k) \subseteq GlobalOf(k)
<1>1. groups[k] \in Seq(Nat) /\ Entries(groups[k]) = GlobalOf(k)
  BY DEF LinesInv
<1>2. groups[k][1] \in GlobalOf(k)
  <2>1. 1 \in DOMAIN groups[k]
    BY <1>1
  <2> QED BY <1>1, <2>1 DEF Entries
<1> QED BY <1>2 DEF PriceErrors, BadOf, InvalidOf

LEMMA LinesFinite ==
  ASSUME FileInv
  PROVE  DOMAIN file \subseteq Nat /\ IsFiniteSet(DOMAIN file)
<1>1. DOMAIN file = 1 .. Len(file) /\ Len(file) \in Nat
  BY DEF FileInv
<1> QED BY <1>1, FS_Interval

LEMMA GroupPrice ==
  ASSUME FileInv, kind = "prices", GroupInv, Grouping!BuildPrice
  PROVE  FileInv' /\ GroupInv'
<1>1. /\ Grouping!Building
      /\ UNCHANGED <<kind, file, next, globals, waiting, folded, groups, pc>> /\ pc = "build"
  BY DEF Grouping!BuildPrice, Grouping!Building
<1>2. PICK key : Turn(key)
  BY <1>1, GroupTurn
<1>3. Grouping!Group = groups[key] /\ Grouping!Range(groups[key]) = GlobalOf(key)
  BY <1>2, GroupingSets DEF Grouping!Group, Turn
<1>4. Grouping!With({"bad"}) = BadOf(key) /\ Grouping!With({"invalid"}) = InvalidOf(key)
  BY <1>3 DEF Grouping!With, BadOf, InvalidOf
<1>5. /\ errors \in Seq(Nat) /\ Unrepeated(errors) /\ RowsInv /\ LinesInv
      /\ RowKeys = {k \in BuiltKeys : PriceErrors(k) = {}}
      /\ Entries(errors) = BlankGlobal \cup UNION {PriceErrors(k) : k \in BuiltKeys}
  BY DEF GroupInv, PricesInv
<1>6. Entries(errors) \cap GlobalOf(key) = {}
  <2>1. ASSUME NEW k \in BuiltKeys
        PROVE  PriceErrors(k) \cap GlobalOf(key) = {}
    <3>1. k \in Keys /\ groups[k] # <<>> /\ k # key
      BY <1>2 DEF BuiltKeys, Turn
    <3>2. PriceErrors(k) \subseteq GlobalOf(k)
      BY <1>5, <3>1, PriceErrorsIn
    <3> QED BY <3>1, <3>2 DEF GlobalOf
  <2>2. BlankGlobal \cap GlobalOf(key) = {}
    BY <1>2, RowsAssumption DEF BlankGlobal, GlobalOf, Turn, Grouping!GroupingAssumption
  <2> QED BY <1>5, <2>1, <2>2
<1>7. /\ UNION {PriceErrors(k) : k \in BuiltKeys \cup {key}}
           = (UNION {PriceErrors(k) : k \in BuiltKeys}) \cup PriceErrors(key)
      /\ {k \in BuiltKeys \cup {key} : PriceErrors(k) = {}}
           = {k \in BuiltKeys : PriceErrors(k) = {}} \cup (IF PriceErrors(key) = {} THEN {key} ELSE {})
  OBVIOUS
<1>8. /\ UNION {PriceErrors(k)' : k \in BuiltKeys'} = UNION {PriceErrors(k) : k \in BuiltKeys \cup {key}}
      /\ {k \in BuiltKeys' : PriceErrors(k)' = {}} = {k \in BuiltKeys \cup {key} : PriceErrors(k) = {}}
  <2>1. BuiltKeys' = BuiltKeys \cup {key} /\ \A k \in BuiltKeys \cup {key} : PriceErrors(k)' = PriceErrors(k)
    BY <1>2 DEF Turn, BuiltKeys
  <2> QED BY <2>1
<1>9. /\ errors' \in Seq(Nat) /\ Unrepeated(errors') /\ RowsInv'
      /\ RowKeys' = RowKeys \cup (IF PriceErrors(key) = {} THEN {key} ELSE {})
      /\ Entries(errors') = Entries(errors) \cup PriceErrors(key)
  <2>1. CASE BadOf(key) # {}
    <3>1. errors' = errors \o Grouping!InOrder(BadOf(key)) /\ UNCHANGED rows
      BY <1>4, <2>1 DEF Grouping!BuildPrice
    <3>2. PriceErrors(key) = BadOf(key) /\ PriceErrors(key) # {} /\ BadOf(key) \subseteq GlobalOf(key)
      BY <2>1 DEF PriceErrors, BadOf
    <3>3. BadOf(key) \in SUBSET Nat /\ IsFiniteSet(BadOf(key))
      <4>1. DOMAIN file \subseteq Nat /\ IsFiniteSet(DOMAIN file)
        BY LinesFinite
      <4>2. BadOf(key) \subseteq DOMAIN file
        BY DEF BadOf, GlobalOf, Past
      <4> QED BY <4>1, <4>2, FS_Subset
    <3>4. PICK more : more = Grouping!InOrder(BadOf(key))
      OBVIOUS
    <3>5. more \in Seq(Nat) /\ Unrepeated(more) /\ Entries(more) = BadOf(key)
      BY <3>3, <3>4, GroupingInOrder, AscendsUnrepeated
    <3>6. errors \o more \in Seq(Nat) /\ Joined(errors, more, errors \o more)
      BY <1>5, <3>5, ConcatJoined
    <3>7. Entries(errors) \cap Entries(more) = {}
      BY <1>6, <3>2, <3>5
    <3>8. errors' \in Seq(Nat) /\ Unrepeated(errors') /\ Entries(errors') = Entries(errors) \cup BadOf(key)
      BY <1>5, <3>1, <3>4, <3>5, <3>6, <3>7 DEF Joined
    <3>9. RowsInv' /\ RowKeys' = RowKeys
      BY <1>1, <1>5, <3>1 DEF RowsInv, RowKeys
    <3> QED BY <3>2, <3>8, <3>9
  <2>2. CASE BadOf(key) = {} /\ InvalidOf(key) # {}
    <3>1. errors' = Append(errors, groups[key][1]) /\ UNCHANGED rows
      BY <1>2, <1>3, <1>4, <2>2 DEF Grouping!BuildPrice, Turn
    <3>2. PriceErrors(key) = {groups[key][1]} /\ PriceErrors(key) # {}
      BY <2>2 DEF PriceErrors
    <3>3. groups[key][1] \in GlobalOf(key)
      BY <1>2, <1>5, <3>2, PriceErrorsIn DEF Turn
    <3>4. groups[key][1] \in Nat /\ groups[key][1] \notin Entries(errors)
      BY <1>6, <3>3 DEF GlobalOf, Past, FileInv
    <3>5. errors' \in Seq(Nat) /\ Unrepeated(errors') /\ Entries(errors') = Entries(errors) \cup {groups[key][1]}
      BY <1>5, <3>1, <3>4, NewEntry
    <3>6. RowsInv' /\ RowKeys' = RowKeys
      BY <1>1, <1>5, <3>1 DEF RowsInv, RowKeys
    <3> QED BY <3>2, <3>5, <3>6
  <2>3. CASE BadOf(key) = {} /\ InvalidOf(key) = {}
    <3>1. UNCHANGED errors /\ rows' = Append(rows, [key |-> key, lines |-> groups[key]])
      BY <1>2, <1>3, <1>4, <2>3 DEF Grouping!BuildPrice, Turn
    <3>2. PriceErrors(key) = {}
      BY <2>3 DEF PriceErrors
    <3>3. key \in Keys /\ key \notin RowKeys
      BY <1>2 DEF Turn
    <3>4. RowsInv' /\ RowKeys' = RowKeys \cup {key}
      BY <1>1, <1>5, <3>1, <3>3, RowGiven
    <3> QED BY <1>5, <3>1, <3>2, <3>4
  <2> QED BY <2>1, <2>2, <2>3
<1>10. PricesInv'
  <2>1. RowKeys' = {k \in BuiltKeys' : PriceErrors(k)' = {}}
    BY <1>5, <1>7, <1>8, <1>9
  <2>2. Entries(errors') = BlankGlobal' \cup UNION {PriceErrors(k)' : k \in BuiltKeys'}
    BY <1>2, <1>5, <1>7, <1>8, <1>9 DEF Turn
  <2> QED BY <2>1, <2>2 DEF PricesInv
<1> QED BY <1>1, <1>2, <1>9, <1>10 DEF GroupInv, Turn

LEMMA GroupAttribute ==
  ASSUME FileInv, kind = "attributes", GroupInv, Grouping!BuildAttribute
  PROVE  FileInv' /\ GroupInv'
<1>1. /\ Grouping!Building /\ rows' = Append(rows, Grouping!Attribute)
      /\ UNCHANGED <<kind, file, next, globals, waiting, folded, groups, errors, pc>> /\ pc = "build"
  BY DEF Grouping!BuildAttribute, Grouping!Building
<1>2. PICK key : Turn(key)
  BY <1>1, GroupTurn
<1>3. PICK row : row = Grouping!Attribute
  OBVIOUS
<1>4. /\ row.key = key /\ row.lines = groups[key]
      /\ row.options = Grouping!InOrder(Grouping!OptionLines)
  BY <1>2, <1>3 DEF Grouping!Attribute, Grouping!Group, Turn
<1>5. Listed(file, row.options)
  <2>1. Grouping!Range(Grouping!Group) = GlobalOf(key)
    BY <1>2, GroupingSets DEF Grouping!Group, Turn
  <2>2. Grouping!OptionLines \in SUBSET Nat /\ IsFiniteSet(Grouping!OptionLines)
    <3>1. DOMAIN file \subseteq Nat /\ IsFiniteSet(DOMAIN file)
      BY LinesFinite
    <3>2. Grouping!OptionLines \subseteq DOMAIN file
      BY <2>1 DEF Grouping!OptionLines, GlobalOf, Past
    <3> QED BY <3>1, <3>2, FS_Subset
  <2>3. PICK o : o = row.options
    OBVIOUS
  <2>4. Ascends(o) /\ Entries(o) = Grouping!OptionLines
    BY <1>4, <2>2, <2>3, GroupingInOrder
  <2>5. ASSUME NEW a \in DOMAIN o, NEW b \in DOMAIN o, a < b
        PROVE  o[a] < o[b] /\ file[o[a]].option # file[o[b]].option
    <3>1. o[a] < o[b] /\ o[a] \in Grouping!OptionLines /\ o[b] \in Grouping!OptionLines
      BY <2>4, <2>5 DEF Ascends, Entries
    <3>2. o[a] \in Nat /\ o[b] \in Nat
      BY <2>2, <3>1
    <3>3. ~(o[b] <= o[a])
      BY <3>1, <3>2
    <3>4. file[o[a]].option = file[o[b]].option => o[b] <= o[a]
      BY <3>1 DEF Grouping!OptionLines
    <3> QED BY <3>1, <3>3, <3>4
  <2> QED BY <2>3, <2>5 DEF Listed
<1>6. /\ errors \in Seq(Nat) /\ Unrepeated(errors) /\ RowsInv
      /\ RowKeys = BuiltKeys /\ Entries(errors) = BlankGlobal
      /\ \A r \in DOMAIN rows : Listed(file, rows[r].options)
  BY <1>1 DEF GroupInv, AttributesInv
<1>7. /\ RowsInv' /\ RowKeys' = RowKeys \cup {key}
      /\ \A r \in DOMAIN rows' : rows'[r] = row \/ (r \in DOMAIN rows /\ rows'[r] = rows[r])
  <2>1. key \in Keys /\ key \notin RowKeys
    BY <1>2 DEF Turn
  <2> QED BY <1>1, <1>3, <1>4, <1>6, <2>1, RowGiven
<1>8. \A r \in DOMAIN rows' : Listed(file', rows'[r].options)
  BY <1>1, <1>5, <1>6, <1>7
<1>9. AttributesInv'
  <2>1. RowKeys' = BuiltKeys' /\ Entries(errors') = BlankGlobal'
    BY <1>1, <1>2, <1>6, <1>7 DEF Turn
  <2> QED BY <1>8, <2>1 DEF AttributesInv
<1> QED BY <1>1, <1>2, <1>6, <1>7, <1>9 DEF GroupInv, Turn

LEMMA GroupRaises ==
  ASSUME FileInv, kind = "attributes", GroupInv, Grouping!Raises
  PROVE  FileInv' /\ GroupInv'
<1>1. /\ Grouping!Building /\ pc' = "raised" /\ pc = "build"
      /\ UNCHANGED <<kind, file, next, globals, waiting, folded, groups, rows, errors>>
  BY DEF Grouping!Raises, Grouping!Building
<1>2. PICK key : Turn(key)
  BY <1>1, GroupTurn
<1>3. RowsInv'
  BY <1>1 DEF GroupInv, RowsInv
<1>4. AttributesInv'
  BY <1>1, <1>2 DEF GroupInv, AttributesInv, Turn
<1> QED BY <1>1, <1>2, <1>3, <1>4 DEF GroupInv, Turn

---------------------------------------------------------------------------

LEMMA ItemInit == Grouping!Init => (kind = "items" => ItemInv)
<1> SUFFICES ASSUME Grouping!Init, kind = "items"
             PROVE  ItemInv
  OBVIOUS
<1>1. Past = {}
  BY NonePast
<1>2. /\ waiting = <<>> /\ rows = <<>> /\ pc = "read" /\ order = <<>> /\ errors = <<>>
      /\ globals = [k \in Keys |-> 0] /\ folded = [k \in Keys \X Views |-> 0]
  BY DEF Grouping!Init
<1>3. Entries(<<>>) = {} /\ Unrepeated(<<>>) /\ (DOMAIN <<>>) = {}
  BY DEF Entries, Unrepeated
<1>4. <<>> \in Seq(Entries(<<>>)) /\ <<>> \in Seq(Nat)
  OBVIOUS
<1> QED BY <1>1, <1>2, <1>3, <1>4 DEF ItemInv, NoneFolded

LEMMA ItemReads ==
  ASSUME FileInv, kind = "items", ItemInv, Grouping!ItemLine
  PROVE  ItemInv'
<1>1. /\ Past' = Past \cup {next} /\ next \notin Past /\ next \in Nat
      /\ file' = file /\ kind' = kind /\ pc' = "read" /\ pc = "read"
  BY LineRead DEF Grouping!ItemLine
<1>2. UNCHANGED <<globals, waiting, folded, groups, order>>
  BY DEF Grouping!ItemLine
<1>3. /\ errors \in Seq(Nat) /\ Unrepeated(errors) /\ rows \in Seq(Entries(rows))
      /\ Entries(errors) = {i \in Past : file[i].cell # "ok"}
      /\ NoneFolded' /\ order' = <<>>
  BY <1>2 DEF ItemInv, NoneFolded
<1>4. CASE file[next].cell # "ok"
  <2>1. errors' = Append(errors, next) /\ UNCHANGED rows
    BY <1>4 DEF Grouping!ItemLine, Grouping!Line
  <2>2. errors' \in Seq(Nat) /\ Unrepeated(errors') /\ Entries(errors') = Entries(errors) \cup {next}
    BY <1>1, <1>3, <2>1, NewEntry
  <2> QED BY <1>1, <1>3, <1>4, <2>1, <2>2 DEF ItemInv
<1>5. CASE file[next].cell = "ok"
  <2>1. PICK row : row = [key |-> file[next].key, lines |-> <<next>>]
    OBVIOUS
  <2>2. UNCHANGED errors /\ rows' = Append(rows, row) /\ row.lines = <<next>>
    BY <1>5, <2>1 DEF Grouping!ItemLine, Grouping!Line
  <2>3. RowAdded(rows, row, rows')
    BY <1>3, <2>2, RowReturned
  <2>4. PICK last : /\ last \notin DOMAIN rows /\ DOMAIN rows' = DOMAIN rows \cup {last}
                    /\ rows'[last] = row /\ \A r \in DOMAIN rows : rows'[r] = rows[r]
    BY <2>3 DEF RowAdded
  <2>5. rows' \in Seq(Entries(rows'))
    BY <2>3 DEF RowAdded
  <2>6. \A r \in DOMAIN rows' : \E i \in Past' : file'[i].cell = "ok" /\ rows'[r].lines = <<i>>
    BY <1>1, <1>5, <2>2, <2>4 DEF ItemInv
  <2>7. \A i \in Past' : file'[i].cell = "ok" => \E r \in DOMAIN rows' : rows'[r].lines = <<i>>
    <3>1. rows'[last].lines = <<next>> /\ last \in DOMAIN rows'
      BY <2>2, <2>4
    <3>2. \A i \in Past : file[i].cell = "ok" => \E r \in DOMAIN rows : rows[r].lines = <<i>>
      BY DEF ItemInv
    <3>3. \A i \in Past : file[i].cell = "ok" => \E r \in DOMAIN rows' : rows'[r].lines = <<i>>
      BY <2>4, <3>2
    <3> QED BY <1>1, <3>1, <3>3
  <2>8. Entries(errors') = {i \in Past' : file'[i].cell # "ok"} /\ errors' \in Seq(Nat) /\ Unrepeated(errors')
    BY <1>1, <1>3, <1>5, <2>2
  <2> QED BY <1>1, <1>3, <2>5, <2>6, <2>7, <2>8 DEF ItemInv
<1> QED BY <1>4, <1>5

LEMMA ItemEnd ==
  ASSUME FileInv, kind = "items", ItemInv, Grouping!EndOfFile \/ Grouping!Return
  PROVE  FileInv' /\ ItemInv'
<1>1. /\ UNCHANGED <<kind, file, next, globals, waiting, folded, groups, order, rows, errors>>
      /\ pc = "read" => next > Len(file) /\ pc' = "build"
      /\ pc # "read" => pc' = "done"
  BY DEF Grouping!EndOfFile, Grouping!Return, ItemInv
<1>2. FileInv' /\ Past' = Past
  BY <1>1, LinesStay DEF ItemInv
<1> QED BY <1>1, <1>2 DEF ItemInv, NoneFolded

---------------------------------------------------------------------------

LEMMA GroupingInit == Grouping!Init => GroupingInv
BY GroupingFileInit, FoldInit, GroupInit, ItemInit DEF GroupingInv

\* The lines that are read.
LEMMA GroupingReads ==
  ASSUME GroupingInv, Grouping!OtherStore \/ Grouping!NoKeyLine \/ Grouping!StoreLine
                      \/ Grouping!GlobalLine \/ Grouping!GroupLine \/ Grouping!ItemLine
  PROVE  GroupingInv'
<1>1. /\ FileInv /\ Grouping!Reading
      /\ kind = "folded" => FoldInv
      /\ kind \in {"prices", "attributes"} => GroupInv
      /\ kind = "items" => ItemInv
  BY DEF GroupingInv, Grouping!OtherStore, Grouping!NoKeyLine, Grouping!StoreLine,
         Grouping!GlobalLine, Grouping!GroupLine, Grouping!ItemLine
<1>2. FileInv' /\ kind' = kind
  BY <1>1, LineRead
<1>3. CASE kind = "folded"
  <2>1. Grouping!NoKeyLine \/ Grouping!StoreLine \/ Grouping!GlobalLine
    BY <1>3 DEF Grouping!OtherStore, Grouping!GroupLine, Grouping!ItemLine
  <2>2. FoldInv'
    BY <1>1, <1>3, <2>1, FoldNoKey, FoldStore, FoldGlobal
  <2> QED BY <1>2, <1>3, <2>2 DEF GroupingInv
<1>4. CASE kind \in {"prices", "attributes"}
  <2>1. Grouping!OtherStore \/ Grouping!NoKeyLine \/ Grouping!GroupLine
    BY <1>4 DEF Grouping!StoreLine, Grouping!GlobalLine, Grouping!ItemLine
  <2>2. GroupInv'
    BY <1>1, <1>4, <2>1, GroupSkips, GroupNoKey, GroupGrows
  <2> QED BY <1>2, <1>4, <2>2 DEF GroupingInv
<1>5. CASE kind = "items"
  <2>1. Grouping!ItemLine
    BY <1>5 DEF Grouping!OtherStore, Grouping!NoKeyLine, Grouping!StoreLine, Grouping!GlobalLine, Grouping!GroupLine
  <2>2. ItemInv'
    BY <1>1, <1>5, <2>1, ItemReads
  <2> QED BY <1>2, <1>5, <2>2 DEF GroupingInv
<1> QED BY <1>1, <1>3, <1>4, <1>5 DEF FileInv

\* The lines that are folded and the rows that are built, after all are read.
LEMMA GroupingBuilds ==
  ASSUME GroupingInv, Grouping!EndOfFile \/ Grouping!FoldLine \/ Grouping!BuildPrice
                      \/ Grouping!BuildAttribute \/ Grouping!Raises \/ Grouping!Return
  PROVE  GroupingInv'
<1>1. /\ FileInv
      /\ kind = "folded" => FoldInv
      /\ kind \in {"prices", "attributes"} => GroupInv
      /\ kind = "items" => ItemInv
  BY DEF GroupingInv
<1>2. kind' = kind
  BY DEF Grouping!EndOfFile, Grouping!FoldLine, Grouping!BuildPrice, Grouping!BuildAttribute,
         Grouping!Raises, Grouping!Return
<1>3. CASE kind = "folded"
  <2>1. Grouping!EndOfFile \/ Grouping!Return \/ Grouping!FoldLine
    BY <1>3 DEF Grouping!BuildPrice, Grouping!BuildAttribute, Grouping!Raises
  <2>2. FileInv' /\ FoldInv'
    BY <1>1, <1>3, <2>1, FoldEnd, FoldNext
  <2> QED BY <1>2, <1>3, <2>2 DEF GroupingInv
<1>4. CASE kind = "prices"
  <2>1. Grouping!EndOfFile \/ Grouping!Return \/ Grouping!BuildPrice
    BY <1>1, <1>4 DEF Grouping!BuildAttribute, Grouping!Raises, Grouping!FoldLine, GroupInv
  <2>2. FileInv' /\ GroupInv'
    BY <1>1, <1>4, <2>1, GroupEnd, GroupPrice
  <2> QED BY <1>2, <1>4, <2>2 DEF GroupingInv
<1>5. CASE kind = "attributes"
  <2>1. Grouping!EndOfFile \/ Grouping!Return \/ Grouping!BuildAttribute \/ Grouping!Raises
    BY <1>1, <1>5 DEF Grouping!BuildPrice, Grouping!FoldLine, GroupInv
  <2>2. FileInv' /\ GroupInv'
    BY <1>1, <1>5, <2>1, GroupEnd, GroupAttribute, GroupRaises
  <2> QED BY <1>2, <1>5, <2>2 DEF GroupingInv
<1>6. CASE kind = "items"
  <2>1. Grouping!EndOfFile \/ Grouping!Return
    BY <1>1, <1>6 DEF Grouping!BuildPrice, Grouping!BuildAttribute, Grouping!Raises, Grouping!FoldLine, ItemInv
  <2>2. FileInv' /\ ItemInv'
    BY <1>1, <1>6, <2>1, ItemEnd
  <2> QED BY <1>2, <1>6, <2>2 DEF GroupingInv
<1> QED BY <1>1, <1>3, <1>4, <1>5, <1>6 DEF FileInv

LEMMA GroupingUnchanged == GroupingInv /\ UNCHANGED Grouping!vars => GroupingInv'
<1> SUFFICES ASSUME GroupingInv, UNCHANGED Grouping!vars
             PROVE  GroupingInv'
  OBVIOUS
<1>1. UNCHANGED <<kind, file, next, globals, waiting, folded, groups, order, rows, errors, pc>>
  BY DEF Grouping!vars
<1>2. FileInv => FileInv'
  BY <1>1 DEF FileInv
<1>3. Past' = Past
  BY <1>1 DEF Past
<1>4. FoldInv => FoldInv'
  BY <1>1, <1>3 DEF FoldInv, WaitInv, GlobalsInv, OverridesInv, FoldErrors, Blank, StoreLines,
                    BadGlobal, Folded, NotFolded, GoodGlobal, FoldedOf
<1>5. GroupInv => GroupInv'
  <2> SUFFICES ASSUME GroupInv
               PROVE  GroupInv'
    OBVIOUS
  <2>1. /\ BlankGlobal' = BlankGlobal /\ BuiltKeys' = BuiltKeys /\ RowKeys' = RowKeys
        /\ (\A k \in Keys : GlobalOf(k)' = GlobalOf(k))
        /\ \A k \in Keys : PriceErrors(k)' = PriceErrors(k)
    BY <1>1, <1>3 DEF BlankGlobal, BuiltKeys, RowKeys, GlobalOf, PriceErrors, BadOf, InvalidOf
  <2>2. LinesInv' /\ OrderInv' /\ RowsInv' /\ NoneFolded'
    BY <1>1, <2>1 DEF GroupInv, LinesInv, OrderInv, RowsInv, NoneFolded
  <2>3. kind = "prices" => PricesInv'
    BY <1>1, <2>1 DEF GroupInv, PricesInv, BuiltKeys
  <2>4. kind = "attributes" => AttributesInv'
    BY <1>1, <2>1 DEF GroupInv, AttributesInv
  <2> QED BY <1>1, <2>1, <2>2, <2>3, <2>4 DEF GroupInv
<1>6. ItemInv => ItemInv'
  BY <1>1, <1>3 DEF ItemInv, NoneFolded
<1> QED BY <1>1, <1>2, <1>4, <1>5, <1>6 DEF GroupingInv

\* The invariant of grouping holds for any file, keys, views and labels.
LEMMA GroupingInvariance == Spec => [](part = "grouping" => GroupingInv)
<1> DEFINE Inv == part = "grouping" => GroupingInv
<1>1. Init => Inv
  BY GroupingInit DEF Init
<1>2. Inv /\ [Next]_<<part, reader, grouping, upload, outcomes, rows, errors, pc>> => Inv'
  <2> SUFFICES ASSUME Inv, [Next]_<<part, reader, grouping, upload, outcomes, rows, errors, pc>>,
                      part' = "grouping"
               PROVE  GroupingInv'
    OBVIOUS
  <2>1. CASE GroupingStep
    <3>1. GroupingInv /\ Grouping!Next
      BY <2>1 DEF GroupingStep
    <3> QED BY <3>1, GroupingReads, GroupingBuilds DEF Grouping!Next
  <2>2. CASE ReaderStep \/ UploadStep \/ OutcomesStep
    BY <2>2 DEF ReaderStep, UploadStep, OutcomesStep
  <2>3. CASE UNCHANGED <<part, reader, grouping, upload, outcomes, rows, errors, pc>>
    BY <2>3, GroupingUnchanged DEF grouping, Grouping!vars
  <2> QED BY <2>1, <2>2, <2>3 DEF Next
<1> QED BY <1>1, <1>2, PTL DEF Spec

---------------------------------------------------------------------------
(* What the invariant says of a call that has returned. *)

\* Every line has been read.
LEMMA AllPast ==
  ASSUME FileInv, pc = "done"
  PROVE  /\ Past = DOMAIN file /\ Grouping!LineNo = DOMAIN file /\ 0 \notin DOMAIN file
         /\ \A x \in DOMAIN file : x \in Nat
<1>1. next = Len(file) + 1 /\ Len(file) \in Nat /\ DOMAIN file = 1 .. Len(file)
  BY DEF FileInv
<1>2. \A i \in DOMAIN file : i < next
  BY <1>1
<1> QED BY <1>1, <1>2 DEF Past, Grouping!LineNo

\* The largest number of a set.
LEMMA LastIsMax ==
  ASSUME NEW S \in SUBSET Nat, NEW x, IsLast(x, S), S # {}
  PROVE  Grouping!Max(S) = x
<1>1. x \in S /\ \A y \in S : y <= x
  BY DEF IsLast
<1>2. x \in Nat /\ \A y \in S : y \in Nat
  BY <1>1
<1>3. \A z \in S : (\A y \in S : z >= y) => z = x
  BY <1>1, <1>2
<1>4. \A y \in S : x >= y
  BY <1>1, <1>2
<1> QED BY <1>1, <1>3, <1>4 DEF Grouping!Max

\* No line has two errors.
LEMMA NamedOnce ==
  ASSUME errors \in Seq(Nat), Unrepeated(errors), NEW i
  PROVE  Grouping!Cardinality({e \in DOMAIN errors : errors[e] = i}) <= 1
<1> DEFINE S == {e \in DOMAIN errors : errors[e] = i}
<1>1. S # {} => \E e : S = {e}
  BY DEF Unrepeated
<1> HIDE DEF S
<1>2. Cardinality(S) = 0 \/ Cardinality(S) = 1
  BY <1>1, FS_EmptySet, FS_Singleton
<1>3. Grouping!Cardinality(S) = Cardinality(S)
  BY GroupingSets
<1>4. Grouping!Cardinality(S) <= 1
  BY <1>2, <1>3
<1> QED BY <1>4 DEF S

LEMMA FoldedKept ==
  ASSUME FileInv, kind = "folded", FoldInv, pc = "done", NEW i \in DOMAIN file
  PROVE  /\ Grouping!Kept(i) => i \notin Entries(errors)
         /\ Grouping!Kept(i) \/ i \in Entries(errors) \/ Grouping!Superseded(i)
<1>1. /\ Past = DOMAIN file /\ Grouping!LineNo = DOMAIN file /\ 0 \notin DOMAIN file
      /\ \A x \in DOMAIN file : x \in Nat
  BY AllPast
<1>2. /\ rows = <<>> /\ (DOMAIN rows) = {} /\ Folded = StoreLines
      /\ \A k \in Keys : IsLast(globals[k], GoodGlobal(k))
      /\ \A k \in Keys, v \in Views : IsLast(folded[<<k, v>>], FoldedOf(k, v))
      /\ Entries(errors) = Blank \cup BadGlobal \cup NotFolded
  BY DEF FoldInv, GlobalsInv, OverridesInv, FoldErrors, Folded, Entries
<1>3. /\ file[i].key \in Keys \cup {NoKey} /\ file[i].view \in Views \cup {Global}
      /\ \A j \in DOMAIN file : file[j].cell # "bad" <=> file[j].cell = "ok"
      /\ NoKey \notin Keys /\ Global \notin Views
  BY RowsAssumption DEF FileInv, Grouping!GroupingAssumption
<1>4. ASSUME NEW k \in Keys, globals[k] = i
      PROVE  i \in GoodGlobal(k)
  BY <1>1, <1>2, <1>4 DEF IsLast
<1>5. ASSUME NEW k \in Keys, NEW v \in Views, folded[<<k, v>>] = i
      PROVE  i \in FoldedOf(k, v)
  BY <1>1, <1>2, <1>5 DEF IsLast
<1>6. Grouping!Kept(i) => i \notin Entries(errors)
  <2> SUFFICES ASSUME Grouping!Kept(i)
               PROVE  i \notin Entries(errors)
    OBVIOUS
  <2>1. CASE \E k \in Keys : globals[k] = i
    <3>1. PICK k \in Keys : i \in GoodGlobal(k)
      BY <1>4, <2>1
    <3> QED BY <1>2, <1>3, <3>1 DEF GoodGlobal, Blank, BadGlobal, NotFolded, StoreLines
  <2>2. CASE \E kv \in Keys \X Views : folded[kv] = i
    <3>1. PICK k \in Keys, v \in Views : folded[<<k, v>>] = i
      BY <2>2
    <3>2. i \in FoldedOf(k, v)
      BY <1>5, <3>1
    <3> QED BY <1>2, <1>3, <3>2 DEF FoldedOf, Blank, BadGlobal, NotFolded, StoreLines
  <2> QED BY <1>2, <2>1, <2>2 DEF Grouping!Kept
<1>7. Grouping!Kept(i) \/ i \in Entries(errors) \/ Grouping!Superseded(i)
  <2>1. CASE file[i].key = NoKey
    BY <1>1, <1>2, <2>1 DEF Blank
  <2>2. CASE file[i].key # NoKey /\ file[i].view = Global
    <3>1. CASE file[i].cell = "bad"
      BY <1>1, <1>2, <2>2, <3>1 DEF BadGlobal
    <3>2. CASE file[i].cell # "bad"
      <4>1. PICK k \in Keys : k = file[i].key
        BY <1>3, <2>2
      <4>2. i \in GoodGlobal(k)
        BY <1>1, <2>2, <3>2, <4>1 DEF GoodGlobal
      <4>3. PICK j : j = globals[k]
        OBVIOUS
      <4>4. j \in GoodGlobal(k) /\ i <= j
        BY <1>2, <4>2, <4>3 DEF IsLast
      <4>5. j \in DOMAIN file /\ file[j].key = k /\ file[j].view = Global /\ file[j].cell # "bad"
        BY <1>1, <4>4 DEF GoodGlobal
      <4>6. CASE i = j
        BY <4>1, <4>3, <4>6 DEF Grouping!Kept
      <4>7. CASE i # j
        <5>1. j > i
          BY <1>1, <4>4, <4>5, <4>7
        <5> QED BY <1>1, <1>3, <2>2, <4>1, <4>5, <5>1 DEF Grouping!Superseded, Grouping!Valid
      <4> QED BY <4>6, <4>7
    <3> QED BY <3>1, <3>2
  <2>3. CASE file[i].key # NoKey /\ file[i].view # Global
    <3>1. i \in Folded
      BY <1>1, <1>2, <2>3 DEF StoreLines
    <3>2. CASE globals[file[i].key] = 0 \/ file[i].cell = "bad"
      BY <1>2, <3>1, <3>2 DEF NotFolded
    <3>3. CASE ~(globals[file[i].key] = 0 \/ file[i].cell = "bad")
      <4>1. PICK k \in Keys, v \in Views : k = file[i].key /\ v = file[i].view
        BY <1>3, <2>3
      <4>2. i \in FoldedOf(k, v)
        BY <3>1, <3>3, <4>1 DEF FoldedOf
      <4>3. PICK j : j = folded[<<k, v>>]
        OBVIOUS
      <4>4. j \in FoldedOf(k, v) /\ i <= j
        BY <1>2, <4>2, <4>3 DEF IsLast
      <4>5. j \in DOMAIN file /\ file[j].key = k /\ file[j].view = v /\ file[j].cell # "bad"
        BY <1>1, <1>2, <4>4 DEF FoldedOf, StoreLines
      <4>6. CASE i = j
        <5>1. <<k, v>> \in Keys \X Views /\ folded[<<k, v>>] = i
          BY <4>3, <4>6
        <5> QED BY <5>1 DEF Grouping!Kept
      <4>7. CASE i # j
        <5>1. j > i
          BY <1>1, <4>4, <4>5, <4>7
        <5> QED BY <1>1, <1>3, <2>3, <4>1, <4>5, <5>1 DEF Grouping!Superseded, Grouping!Valid
      <4> QED BY <4>6, <4>7
    <3> QED BY <3>2, <3>3
  <2> QED BY <2>1, <2>2, <2>3
<1> QED BY <1>6, <1>7

LEMMA FoldedOverrides ==
  ASSUME FileInv, kind = "folded", FoldInv, pc = "done"
  PROVE  Grouping!OverridesFromAnywhere
<1>1. /\ Past = DOMAIN file /\ Grouping!LineNo = DOMAIN file /\ 0 \notin DOMAIN file
      /\ \A x \in DOMAIN file : x \in Nat
  BY AllPast
<1>2. /\ Folded = StoreLines
      /\ \A k \in Keys : IsLast(globals[k], GoodGlobal(k))
      /\ \A k \in Keys, v \in Views : IsLast(folded[<<k, v>>], FoldedOf(k, v))
  BY DEF FoldInv, GlobalsInv, OverridesInv, Folded, Entries
<1>3. /\ NoKey \notin Keys /\ Global \notin Views
      /\ \A j \in DOMAIN file : file[j].cell # "bad" <=> file[j].cell = "ok"
  BY RowsAssumption DEF FileInv, Grouping!GroupingAssumption
<1> SUFFICES ASSUME NEW k \in Keys, NEW v \in Views
             PROVE  LET lines == {i \in Grouping!LineNo : Grouping!Valid(i) /\ file[i].key = k /\ file[i].view = v}
                        known == \E i \in Grouping!LineNo : Grouping!Valid(i) /\ file[i].key = k /\ file[i].view = Global
                    IN folded[<<k, v>>] = IF known /\ lines # {} THEN Grouping!Max(lines) ELSE 0
  BY DEF Grouping!OverridesFromAnywhere
<1> DEFINE lines == {i \in Grouping!LineNo : Grouping!Valid(i) /\ file[i].key = k /\ file[i].view = v}
           known == \E i \in Grouping!LineNo : Grouping!Valid(i) /\ file[i].key = k /\ file[i].view = Global
<1>4. known <=> GoodGlobal(k) # {}
  BY <1>1, <1>3 DEF GoodGlobal, Grouping!Valid
<1>5. GoodGlobal(k) # {} <=> globals[k] # 0
  BY <1>1, <1>2 DEF IsLast, GoodGlobal
<1>6. FoldedOf(k, v) = IF globals[k] # 0 THEN lines ELSE {}
  BY <1>1, <1>2, <1>3 DEF FoldedOf, StoreLines, Grouping!Valid
<1>7. lines \in SUBSET Nat
  BY <1>1
<1> HIDE DEF lines, known
<1>8. IsLast(folded[<<k, v>>], FoldedOf(k, v))
  BY <1>2
<1>9. folded[<<k, v>>] = IF known /\ lines # {} THEN Grouping!Max(lines) ELSE 0
  <2>1. CASE known /\ lines # {}
    <3>1. FoldedOf(k, v) = lines
      BY <1>4, <1>5, <1>6, <2>1
    <3> QED BY <1>7, <1>8, <2>1, <3>1, LastIsMax
  <2>2. CASE ~(known /\ lines # {})
    <3>1. FoldedOf(k, v) = {}
      BY <1>4, <1>5, <1>6, <2>2
    <3> QED BY <1>8, <2>2, <3>1 DEF IsLast
  <2> QED BY <2>1, <2>2
<1> QED BY <1>9 DEF lines, known

\* A key that has lines has been built, and its row holds them.
LEMMA AllBuilt ==
  ASSUME FileInv, kind \in {"prices", "attributes"}, GroupInv, pc = "done"
  PROVE  /\ \A k \in Keys : GlobalOf(k) # {} => k \in BuiltKeys
         /\ \A k \in BuiltKeys : k \in Keys /\ groups[k] # <<>> /\ Entries(groups[k]) = GlobalOf(k)
         /\ \A r \in DOMAIN rows : /\ rows[r].key \in RowKeys /\ rows[r].key \in Keys
                                   /\ Entries(rows[r].lines) = GlobalOf(rows[r].key)
         /\ \A k \in RowKeys : \E r \in DOMAIN rows : rows[r].key = k
         /\ \A k \in Keys : globals[k] = 0
         /\ \A kv \in Keys \X Views : folded[kv] = 0
<1>1. order = <<>> /\ Entries(order) = {} /\ NoneFolded /\ LinesInv /\ RowsInv
  BY DEF GroupInv, Entries
<1>2. \A k \in Keys : Entries(groups[k]) = GlobalOf(k)
  BY <1>1 DEF LinesInv
<1>3. \A k \in Keys : groups[k] = <<>> => GlobalOf(k) = {}
  BY <1>2 DEF Entries
<1>4. BuiltKeys = {k \in Keys : groups[k] # <<>>}
  BY <1>1 DEF BuiltKeys
<1>5. \A r \in DOMAIN rows : rows[r].key \in Keys /\ rows[r].lines = groups[rows[r].key]
  BY <1>1 DEF RowsInv
<1> QED BY <1>1, <1>2, <1>3, <1>4, <1>5 DEF RowKeys, NoneFolded

LEMMA GroupedKept ==
  ASSUME FileInv, kind \in {"prices", "attributes"}, GroupInv, pc = "done", NEW i \in DOMAIN file
  PROVE  /\ Grouping!Kept(i) => i \notin Entries(errors)
         /\ Grouping!Kept(i) \/ i \in Entries(errors)
            \/ (kind = "prices" /\ \E j \in Entries(errors) : file[j].key = file[i].key)
            \/ (kind = "attributes" /\ file[i].view # Global)
<1>1. /\ Past = DOMAIN file /\ 0 \notin DOMAIN file
  BY AllPast
<1>2. /\ \A k \in Keys : GlobalOf(k) # {} => k \in BuiltKeys
      /\ \A k \in BuiltKeys : k \in Keys /\ groups[k] # <<>> /\ Entries(groups[k]) = GlobalOf(k)
      /\ \A r \in DOMAIN rows : /\ rows[r].key \in RowKeys /\ rows[r].key \in Keys
                                /\ Entries(rows[r].lines) = GlobalOf(rows[r].key)
      /\ \A k \in RowKeys : \E r \in DOMAIN rows : rows[r].key = k
      /\ \A k \in Keys : globals[k] = 0
      /\ \A kv \in Keys \X Views : folded[kv] = 0
  BY AllBuilt
<1>3. /\ kind = "prices" => PricesInv
      /\ kind = "attributes" => RowKeys = BuiltKeys /\ Entries(errors) = BlankGlobal
      /\ LinesInv
  BY DEF GroupInv, AttributesInv
<1>4. /\ file[i].key \in Keys \cup {NoKey} /\ NoKey \notin Keys
      /\ kind = "prices" => file[i].view = Global
  BY RowsAssumption DEF FileInv, Grouping!GroupingAssumption
<1>5. Grouping!Kept(i) <=> \E r \in DOMAIN rows : i \in GlobalOf(rows[r].key)
  <2>1. Grouping!Kept(i) <=> \E r \in DOMAIN rows : i \in Grouping!Range(rows[r].lines)
    BY <1>1, <1>2 DEF Grouping!Kept
  <2> QED BY <1>2, <2>1, GroupingSets
<1>6. \A k \in BuiltKeys : PriceErrors(k) \subseteq GlobalOf(k)
  BY <1>2, <1>3, PriceErrorsIn
<1>7. Grouping!Kept(i) => i \notin Entries(errors)
  <2> SUFFICES ASSUME NEW r \in DOMAIN rows, i \in GlobalOf(rows[r].key)
               PROVE  i \notin Entries(errors)
    BY <1>5
  <2>1. PICK k : k = rows[r].key
    OBVIOUS
  <2>2. k \in RowKeys /\ k \in Keys /\ i \in GlobalOf(k)
    BY <1>2, <2>1
  <2>3. i \notin BlankGlobal
    BY <1>4, <2>2 DEF GlobalOf, BlankGlobal
  <2>4. CASE kind = "prices"
    <3>1. k \in BuiltKeys /\ PriceErrors(k) = {}
      BY <1>3, <2>2, <2>4 DEF PricesInv
    <3>2. \A q \in BuiltKeys : i \in GlobalOf(q) => q = k
      BY <2>2 DEF GlobalOf
    <3>3. Entries(errors) = BlankGlobal \cup UNION {PriceErrors(q) : q \in BuiltKeys}
      BY <1>3, <2>4 DEF PricesInv
    <3>4. \A q \in BuiltKeys : i \notin PriceErrors(q)
      BY <1>6, <3>1, <3>2
    <3> QED BY <2>3, <3>3, <3>4
  <2>5. CASE kind = "attributes"
    BY <1>3, <2>3, <2>5
  <2> QED BY <2>4, <2>5
<1>8. ASSUME ~Grouping!Kept(i), i \notin Entries(errors), ~(kind = "attributes" /\ file[i].view # Global)
      PROVE  kind = "prices" /\ \E j \in Entries(errors) : file[j].key = file[i].key
  <2>1. file[i].view = Global
    BY <1>4, <1>8
  <2>2. file[i].key \in Keys
    <3>1. BlankGlobal \subseteq Entries(errors)
      BY <1>3 DEF PricesInv
    <3> QED BY <1>1, <1>4, <1>8, <2>1, <3>1 DEF BlankGlobal
  <2>3. PICK k \in Keys : k = file[i].key
    BY <2>2
  <2>4. i \in GlobalOf(k) /\ k \in BuiltKeys
    BY <1>1, <1>2, <2>1, <2>3 DEF GlobalOf
  <2>5. k \notin RowKeys
    BY <1>2, <1>5, <1>8, <2>4
  <2>6. kind = "prices" /\ PricesInv
    BY <1>3, <2>4, <2>5
  <2>7. PriceErrors(k) # {} /\ PriceErrors(k) \subseteq Entries(errors)
    BY <2>4, <2>5, <2>6 DEF PricesInv
  <2>8. PICK j : j \in PriceErrors(k)
    BY <2>7
  <2>9. j \in Entries(errors) /\ file[j].key = k
    BY <1>6, <2>4, <2>7, <2>8 DEF GlobalOf
  <2> QED BY <2>3, <2>6, <2>9
<1> QED BY <1>7, <1>8

LEMMA GroupedWhole ==
  ASSUME FileInv, kind \in {"prices", "attributes"}, GroupInv, pc = "done"
  PROVE  Grouping!RowsWhole
<1>1. Past = DOMAIN file /\ Grouping!LineNo = DOMAIN file
  BY AllPast
<1>2. /\ \A r \in DOMAIN rows : /\ rows[r].key \in RowKeys /\ rows[r].key \in Keys
                                /\ Entries(rows[r].lines) = GlobalOf(rows[r].key)
  BY AllBuilt
<1>3. /\ kind = "prices" => \A k \in RowKeys : PriceErrors(k) = {}
      /\ kind = "attributes" => \A r \in DOMAIN rows : Listed(file, rows[r].options)
      /\ \A r, q \in DOMAIN rows : rows[r].key = rows[q].key => r = q
  BY DEF GroupInv, PricesInv, AttributesInv, RowsInv
<1> SUFFICES ASSUME NEW r \in DOMAIN rows
             PROVE  /\ Grouping!Range(rows[r].lines)
                         = {i \in Grouping!LineNo : file[i].key = rows[r].key /\ file[i].view = Global}
                    /\ kind = "prices" => \A i \in Grouping!Range(rows[r].lines) : file[i].cell = "ok"
                    /\ kind = "attributes" => Listed(file, rows[r].options)
                    /\ \A q \in DOMAIN rows : rows[q].key = rows[r].key => q = r
  BY DEF Grouping!RowsWhole, Listed
<1>4. Grouping!Range(rows[r].lines) = GlobalOf(rows[r].key)
  BY <1>2, GroupingSets
<1>5. GlobalOf(rows[r].key) = {i \in Grouping!LineNo : file[i].key = rows[r].key /\ file[i].view = Global}
  BY <1>1 DEF GlobalOf
<1>6. ASSUME kind = "prices", NEW i \in GlobalOf(rows[r].key)
      PROVE  file[i].cell = "ok"
  <2>1. PriceErrors(rows[r].key) = {}
    BY <1>2, <1>3, <1>6
  <2>2. BadOf(rows[r].key) = {} /\ InvalidOf(rows[r].key) = {}
    BY <2>1 DEF PriceErrors
  <2>3. file[i].cell \in {"ok", "bad", "invalid"}
    BY <1>1, <1>6 DEF FileInv, GlobalOf
  <2> QED BY <1>6, <2>2, <2>3 DEF BadOf, InvalidOf
<1> QED BY <1>3, <1>4, <1>5, <1>6

LEMMA ItemsKept ==
  ASSUME FileInv, kind = "items", ItemInv, pc = "done", NEW i \in DOMAIN file
  PROVE  /\ Grouping!Kept(i) => i \notin Entries(errors)
         /\ Grouping!Kept(i) \/ i \in Entries(errors)
<1>1. /\ Past = DOMAIN file /\ 0 \notin DOMAIN file
  BY AllPast
<1>2. /\ \A k \in Keys : globals[k] = 0
      /\ \A kv \in Keys \X Views : folded[kv] = 0
  BY DEF ItemInv, NoneFolded
<1>3. \A j : Grouping!Range(<<j>>) = {j}
  BY DEF Grouping!Range
<1>4. /\ \A r \in DOMAIN rows : \E j \in Past : file[j].cell = "ok" /\ rows[r].lines = <<j>>
      /\ \A j \in Past : file[j].cell = "ok" => \E r \in DOMAIN rows : rows[r].lines = <<j>>
      /\ Entries(errors) = {j \in Past : file[j].cell # "ok"}
  BY DEF ItemInv
<1>5. Grouping!Kept(i) <=> \E r \in DOMAIN rows : i \in Grouping!Range(rows[r].lines)
  BY <1>1, <1>2 DEF Grouping!Kept
<1>6. Grouping!Kept(i) => file[i].cell = "ok"
  <2> SUFFICES ASSUME NEW r \in DOMAIN rows, i \in Grouping!Range(rows[r].lines)
               PROVE  file[i].cell = "ok"
    BY <1>5
  <2>1. PICK j \in Past : file[j].cell = "ok" /\ rows[r].lines = <<j>>
    BY <1>4
  <2>2. i = j
    BY <1>3, <2>1
  <2> QED BY <2>1, <2>2
<1>7. file[i].cell = "ok" => Grouping!Kept(i)
  <2> SUFFICES ASSUME file[i].cell = "ok"
               PROVE  \E r \in DOMAIN rows : i \in Grouping!Range(rows[r].lines)
    BY <1>5
  <2>1. PICK r \in DOMAIN rows : rows[r].lines = <<i>>
    BY <1>1, <1>4
  <2> QED BY <1>3, <2>1
<1> QED BY <1>1, <1>4, <1>6, <1>7

LEMMA GroupingReturns ==
  GroupingInv => Grouping!NoLineLost /\ Grouping!OverridesFromAnywhere /\ Grouping!RowsWhole
<1> SUFFICES ASSUME GroupingInv
             PROVE  Grouping!NoLineLost /\ Grouping!OverridesFromAnywhere /\ Grouping!RowsWhole
  OBVIOUS
<1>1. /\ FileInv
      /\ kind = "folded" => FoldInv
      /\ kind \in {"prices", "attributes"} => GroupInv
      /\ kind = "items" => ItemInv
      /\ kind \in {"folded", "prices", "attributes", "items"}
  BY DEF GroupingInv, FileInv
<1>2. Grouping!NoLineLost
  <2> SUFFICES ASSUME pc = "done", NEW i \in Grouping!LineNo
               PROVE  /\ Grouping!Kept(i) => i \notin Entries(errors)
                      /\ Grouping!Kept(i) \/ i \in Entries(errors)
                         \/ (kind = "folded" /\ Grouping!Superseded(i))
                         \/ (kind = "prices" /\ \E j \in Entries(errors) : file[j].key = file[i].key)
                         \/ (kind = "attributes" /\ file[i].view # Global)
                      /\ Grouping!Cardinality({e \in DOMAIN errors : errors[e] = i}) <= 1
    BY GroupingSets DEF Grouping!NoLineLost
  <2>1. i \in DOMAIN file
    BY <1>1, AllPast
  <2>2. errors \in Seq(Nat) /\ Unrepeated(errors)
    BY <1>1 DEF FoldInv, FoldErrors, GroupInv, ItemInv
  <2>3. Grouping!Cardinality({e \in DOMAIN errors : errors[e] = i}) <= 1
    BY <2>2, NamedOnce
  <2>4. CASE kind = "folded"
    BY <1>1, <2>1, <2>3, <2>4, FoldedKept
  <2>5. CASE kind \in {"prices", "attributes"}
    BY <1>1, <2>1, <2>3, <2>5, GroupedKept
  <2>6. CASE kind = "items"
    BY <1>1, <2>1, <2>3, <2>6, ItemsKept
  <2> QED BY <1>1, <2>4, <2>5, <2>6
<1>3. Grouping!OverridesFromAnywhere
  <2>1. CASE kind = "folded" /\ pc = "done"
    BY <1>1, <2>1, FoldedOverrides
  <2>2. CASE ~(kind = "folded" /\ pc = "done")
    BY <2>2 DEF Grouping!OverridesFromAnywhere
  <2> QED BY <2>1, <2>2
<1>4. Grouping!RowsWhole
  <2>1. CASE kind \in {"prices", "attributes"} /\ pc = "done"
    BY <1>1, <2>1, GroupedWhole
  <2>2. CASE ~(kind \in {"prices", "attributes"} /\ pc = "done")
    BY <2>2 DEF Grouping!RowsWhole
  <2> QED BY <2>1, <2>2
<1> QED BY <1>2, <1>3, <1>4

\* Every line is in a row or in an error, a store view's line counts wherever it
\* stands, and a price or attribute row has all of its lines
\* (formats/catalog.py).
THEOREM LinesAreGrouped == Spec => []LinesReachRows
<1>1. (part = "grouping" => GroupingInv) => LinesReachRows
  BY GroupingReturns DEF LinesReachRows
<1> QED BY <1>1, GroupingInvariance, PTL

LEMMA GroupingTypes == GroupingInv => Grouping!TypeOK
<1> SUFFICES ASSUME GroupingInv
             PROVE  Grouping!TypeOK
  OBVIOUS
<1>1. /\ FileInv
      /\ kind = "folded" => FoldInv
      /\ kind \in {"prices", "attributes"} => GroupInv
      /\ kind = "items" => ItemInv
      /\ kind \in {"folded", "prices", "attributes", "items"}
  BY DEF GroupingInv, FileInv
<1>2. /\ Past \subseteq Grouping!LineNo /\ 0 \notin Grouping!LineNo /\ Grouping!LineNo = DOMAIN file
  <2>1. DOMAIN file = 1 .. Len(file) /\ Len(file) \in Nat
    BY <1>1 DEF FileInv
  <2>2. 0 \notin 1 .. Len(file)
    BY <2>1
  <2> QED BY <2>1, <2>2 DEF Past, Grouping!LineNo
<1>3. CASE kind = "folded"
  <2>1. FoldInv
    BY <1>1, <1>3
  <2>2. \A k \in Keys : globals[k] # 0 => file[globals[k]].view = Global
    BY <2>1 DEF FoldInv, GlobalsInv, IsLast, GoodGlobal
  <2>3. \A k \in Keys, v \in Views : folded[<<k, v>>] # 0 => file[folded[<<k, v>>]].view = v /\ globals[k] # 0
    BY <2>1 DEF FoldInv, OverridesInv, IsLast, FoldedOf
  <2>4. Entries(order) \subseteq Keys /\ Entries(errors) \subseteq Past
    BY <2>1, FoldErrorsPast DEF FoldInv, Entries
  <2>5. \A kv \in Keys \X Views : folded[kv] # 0 => file[folded[kv]].view = kv[2] /\ globals[kv[1]] # 0
    BY <2>3
  <2> QED BY <1>1, <1>2, <2>2, <2>4, <2>5, GroupingSets DEF Grouping!TypeOK, FileInv
<1>4. CASE kind \in {"prices", "attributes"}
  <2>1. GroupInv /\ LinesInv
    BY <1>1, <1>4 DEF GroupInv
  <2>2. Entries(order) \subseteq Keys
    BY <2>1 DEF GroupInv, OrderInv, Entries
  <2>3. ASSUME NEW k \in BuiltKeys
        PROVE  PriceErrors(k) \subseteq Past
    <3>1. k \in Keys /\ groups[k] # <<>>
      BY DEF BuiltKeys
    <3> QED BY <2>1, <3>1, PriceErrorsIn DEF GlobalOf
  <2>4. Entries(errors) \subseteq Past
    BY <1>4, <2>1, <2>3 DEF GroupInv, PricesInv, AttributesInv, BlankGlobal
  <2>5. NoneFolded
    BY <2>1 DEF GroupInv
  <2> QED BY <1>1, <1>2, <2>2, <2>4, <2>5, GroupingSets DEF Grouping!TypeOK, FileInv, NoneFolded
<1>5. CASE kind = "items"
  <2>1. ItemInv
    BY <1>1, <1>5
  <2>2. Entries(order) \subseteq Keys /\ Entries(errors) \subseteq Past /\ NoneFolded
    BY <2>1 DEF ItemInv, Entries
  <2> QED BY <1>1, <1>2, <2>2, GroupingSets DEF Grouping!TypeOK, FileInv, NoneFolded
<1> QED BY <1>1, <1>3, <1>4, <1>5

\* What grouping and upload hold is what it should be: an override stands at a
\* key with a global line, errors name lines of the file and rows of the upload.
THEOREM TypesAreKept == Spec => []TypeOK
<1> DEFINE OnePart == part \in {"reader", "grouping", "upload", "outcomes"}
           Groups == part = "grouping" => GroupingInv
           Uploads == part = "upload" => Upload!IInv
<1>1. Init => OnePart
  BY DEF Init
<1>2. OnePart /\ [Next]_<<part, reader, grouping, upload, outcomes, rows, errors, pc>> => OnePart'
  BY DEF Next, ReaderStep, GroupingStep, UploadStep, OutcomesStep
<1>3. OnePart /\ Groups /\ Uploads => TypeOK
  BY GroupingTypes DEF TypeOK, Upload!IInv
<1>4. Spec => []Groups
  BY GroupingInvariance
<1>5. Spec => []Uploads
  BY UploadInvariance
<1> HIDE DEF OnePart, Groups, Uploads
<1> QED BY <1>1, <1>2, <1>3, <1>4, <1>5, PTL DEF Spec

=============================================================================
