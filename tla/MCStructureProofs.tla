-------------------------- MODULE MCStructureProofs --------------------------
(***************************************************************************)
(* Proofs about the categories, attribute sets and options of a catalog.   *)
(***************************************************************************)
EXTENDS MCStructure, Integers, SequenceTheorems, FiniteSetTheorems, WellFoundedInduction, TLAPS

---------------------------------------------------------------------------
(* Options by their labels *)

\* The key of a label, the ids a result may have.
Ky(job, label) == IF job = "labels" THEN Trim[label] ELSE Norm[label]
Opt == [id : Nat, label : Spelling]
Id == Nat \cup {None}

\* An id is that of an option of a key; of the last option of that key.
Named(opts, job, id, k) == \E i \in DOMAIN opts : opts[i].id = id /\ Ky(job, opts[i].label) = k
LastNamed(opts, job, id, k) ==
  \E i \in DOMAIN opts :
    /\ opts[i].id = id /\ Ky(job, opts[i].label) = k
    /\ \A j \in DOMAIN opts : i < j => Ky(job, opts[j].label) # k

\* What a label may get: of the options, and of the cache.
Fitting(opts, job) ==
  {x \in Id \X Spelling : IF job = "labels" /\ x[2] = Blank THEN x[1] = None
                          ELSE Named(opts, job, x[1], Ky(job, x[2]))}
Caching(c, job) ==
  {x \in Id \X Spelling : IF job = "labels" /\ x[2] = Blank THEN x[1] = None
                          ELSE Ky(job, x[2]) \in DOMAIN c /\ c[Ky(job, x[2])] = x[1]}

\* The ids are those of the places.
Numbered(opts) ==
  /\ opts \in Seq(Opt)
  /\ \A i \in DOMAIN opts : opts[i].id \in 1 .. Len(opts)
  /\ \A i, j \in DOMAIN opts : opts[i].id = opts[j].id => i = j

\* The labels come after the first p options.
Inserted(old, labels, new, p) ==
  /\ Len(new) = Len(old) + Len(labels)
  /\ \A i \in 1 .. p : new[i] = old[i]
  /\ \A i \in 1 .. Len(labels) : new[p + i] = [id |-> Len(old) + i, label |-> labels[i]]
  /\ \A i \in (p + 1) .. Len(old) : new[i + Len(labels)] = old[i]

\* What is kept when options are added.
Grown(old, new, labels) ==
  /\ Numbered(new)
  /\ \A job, id, k : Named(old, job, id, k) => Named(new, job, id, k)
  /\ \A job, id, k : LastNamed(old, job, id, k) /\ (\A l \in DOMAIN labels : Ky(job, labels[l]) # k)
                       => LastNamed(new, job, id, k)

\* The rows so far, each label with an id that suits it.
Walk(rws, ok, a, g, res) ==
  /\ a \in Nat /\ 1 <= a /\ a <= Len(rws) + 1
  /\ g \in Seq(Id) /\ res \in Seq(Seq(Id))
  /\ Len(res) = a - 1
  /\ a <= Len(rws) => Len(g) < Len(rws[a]) /\ \A i \in DOMAIN g : <<g[i], rws[a][i]>> \in ok
  /\ \A r \in DOMAIN res :
       res[r] = Options!Failed
         \/ (Len(res[r]) = Len(rws[r]) /\ \A i \in DOMAIN res[r] : <<res[r][i], rws[r][i]>> \in ok)

\* What is assumed of the constants.
LEMMA OptionConstants ==
  /\ Blank \in Spelling /\ None \notin Nat /\ MaxFault \in Nat /\ MaxForeign \in Nat
  /\ Norm \in [Spelling -> Spelling] /\ Trim \in [Spelling -> Spelling]
  /\ \A label \in Spelling : Trim[label] = Trim[Blank] => label = Blank
  /\ \A in \in OptionInputs :
       /\ in.job \in {"resolve", "labels", "attribute"} /\ in.rows \in Seq(Seq(Spelling))
       /\ in.create \in BOOLEAN
       /\ in.job # "attribute" => \A r \in DOMAIN in.rows : in.rows[r] # <<>>
  /\ \A s \in Attributes : s.exists \in BOOLEAN /\ s.labels \in Seq(Spelling)
BY StructureAssumption DEF Options!OptionAssumption

\* Every label has a key.
LEMMA KeyIs ==
  /\ \A l : Options!Key(l) = Ky(input.job, l)
  /\ \A a, b : Options!Same(a, b) <=> Ky(input.job, a) = Ky(input.job, b)
BY DEF Options!Key, Options!Same, Ky

\* A set of numbers has a least one.
LEMMA LeastNumber ==
  ASSUME NEW S \in SUBSET Nat, S # {}
  PROVE  \E o \in S : \A p \in S : o <= p
<1> DEFINE R == {ss \in Nat \X Nat : ss[1] < ss[2]}
<1>1. IsWellFoundedOn(R, Nat)
  BY NatLessThanWellFounded DEF OpToRel
<1> HIDE DEF R
<1>2. PICK o \in S : \A p \in S : <<p, o>> \notin R
  BY <1>1, WFMin
<1>3. \A p \in S : ~(p < o)
  BY <1>2 DEF R
<1> QED BY <1>3

\* And one below a bound a greatest.
LEMMA GreatestNumber ==
  ASSUME NEW b \in Nat, NEW S \in SUBSET (0 .. b), S # {}
  PROVE  \E o \in S : \A p \in S : p <= o
<1> DEFINE T == {b - p : p \in S}
<1>1. T \in SUBSET Nat /\ T # {}
  <2>1. \A p \in S : p \in Nat /\ b - p \in Nat
    OBVIOUS
  <2> QED BY <2>1
<1>2. PICK t \in T : \A u \in T : t <= u
  BY <1>1, LeastNumber
<1>3. PICK o \in S : t = b - o
  OBVIOUS
<1>4. ASSUME NEW p \in S PROVE p <= o
  <2>1. o \in Nat /\ p \in Nat /\ b - o <= b - p
    BY <1>2, <1>3
  <2> QED BY <2>1
<1> QED BY <1>4

\* An insertion at some place.
LEMMA InsertionInserts ==
  ASSUME Numbered(options), NEW labels \in Seq(Spelling), NEW new \in Options!Insertions(labels)
  PROVE  new \in Seq(Opt) /\ \E p \in 0 .. Len(options) : Inserted(options, labels, new, p)
<1> DEFINE N == Len(options)
           M == Len(labels)
           add == [i \in DOMAIN labels |-> [id |-> Options!NextId + i - 1, label |-> labels[i]]]
<1>1. PICK p \in 0 .. N :
        new = SubSeq(options, 1, p) \o add \o SubSeq(options, p + 1, N)
  BY DEF Options!Insertions
<1> DEFINE u == SubSeq(options, 1, p)
           v == SubSeq(options, p + 1, N)
<1>2. N \in Nat /\ M \in Nat /\ p \in Nat /\ p <= N /\ options \in Seq(Opt) /\ DOMAIN labels = 1 .. M
      /\ \A i \in 1 .. N : options[i] \in Opt
  BY DEF Numbered
<1>3. u \in Seq(Opt) /\ Len(u) = p /\ \A i \in 1 .. p : u[i] = options[i]
  <2>1. \A i \in 1 .. p : options[i] \in Opt
    BY <1>2
  <2>2. /\ u \in Seq(Opt) /\ Len(u) = IF 1 <= p THEN p - 1 + 1 ELSE 0
        /\ \A i \in 1 .. (p - 1 + 1) : u[i] = options[1 + i - 1]
    BY <1>2, <2>1, SubSeqProperties
  <2> QED BY <1>2, <2>2
<1>4. v \in Seq(Opt) /\ Len(v) = N - p /\ \A i \in 1 .. (N - p) : v[i] = options[p + i]
  <2>1. \A i \in (p + 1) .. N : options[i] \in Opt
    BY <1>2
  <2>2. /\ v \in Seq(Opt) /\ Len(v) = IF p + 1 <= N THEN N - (p + 1) + 1 ELSE 0
        /\ \A i \in 1 .. (N - (p + 1) + 1) : v[i] = options[p + 1 + i - 1]
    BY <1>2, <2>1, SubSeqProperties
  <2> QED BY <1>2, <2>2
<1>5. add \in Seq(Opt) /\ Len(add) = M
      /\ \A i \in 1 .. M : add[i] = [id |-> N + i, label |-> labels[i]]
  <2>1. \A i \in 1 .. M : Options!NextId + i - 1 = N + i /\ N + i \in Nat
    BY <1>2 DEF Options!NextId
  <2>2. \A i \in 1 .. M : add[i] = [id |-> N + i, label |-> labels[i]]
    BY <1>2, <2>1
  <2>3. \A i \in 1 .. M : add[i] \in Opt
    BY <1>2, <2>1, <2>2 DEF Opt
  <2>4. DOMAIN add = 1 .. M
    BY <1>2
  <2> HIDE DEF add
  <2>5. add = [i \in 1 .. M |-> add[i]]
    BY <2>4 DEF add
  <2>6. add \in Seq(Opt) /\ Len(add) = M
    BY <1>2, <2>3, <2>4, <2>5
  <2> QED BY <2>2, <2>6
<1> HIDE DEF u, v, add
<1>6. /\ u \o add \in Seq(Opt) /\ Len(u \o add) = p + M
      /\ \A i \in 1 .. (p + M) : (u \o add)[i] = IF i <= p THEN u[i] ELSE add[i - p]
  <2>0. u \in Seq(Opt) /\ add \in Seq(Opt)
    BY <1>3, <1>5
  <2>1. /\ u \o add \in Seq(Opt) /\ Len(u \o add) = Len(u) + Len(add)
        /\ \A i \in 1 .. Len(u) + Len(add) : (u \o add)[i] = IF i <= Len(u) THEN u[i] ELSE add[i - Len(u)]
    BY <2>0, ConcatProperties
  <2> QED BY <2>1, <1>3, <1>5
<1> DEFINE w == u \o add
<1> HIDE DEF w
<1>7. /\ new \in Seq(Opt) /\ Len(new) = (p + M) + (N - p)
      /\ \A i \in 1 .. ((p + M) + (N - p)) : new[i] = IF i <= p + M THEN w[i] ELSE v[i - (p + M)]
  <2>1. new = w \o v
    BY <1>1 DEF u, v, w, add
  <2>2. w \in Seq(Opt) /\ Len(w) = p + M
    BY <1>6 DEF w
  <2>3. /\ w \o v \in Seq(Opt) /\ Len(w \o v) = Len(w) + Len(v)
        /\ \A i \in 1 .. Len(w) + Len(v) : (w \o v)[i] = IF i <= Len(w) THEN w[i] ELSE v[i - Len(w)]
    BY <1>4, <2>2, ConcatProperties
  <2> QED BY <2>1, <2>2, <2>3, <1>4
<1>8. \A i \in 1 .. (p + M) : w[i] = IF i <= p THEN u[i] ELSE add[i - p]
  BY <1>6 DEF w
<1>9. Len(new) = N + M
  BY <1>2, <1>7
<1>10. ASSUME NEW i \in 1 .. p PROVE new[i] = options[i]
  <2>1. i \in 1 .. (p + M) /\ i \in 1 .. ((p + M) + (N - p)) /\ i <= p /\ i <= p + M
    BY <1>2
  <2> QED BY <2>1, <1>7, <1>8, <1>3
<1>11. ASSUME NEW i \in 1 .. M PROVE new[p + i] = [id |-> N + i, label |-> labels[i]]
  <2>1. p + i \in 1 .. (p + M) /\ p + i \in 1 .. ((p + M) + (N - p)) /\ ~(p + i <= p) /\ p + i <= p + M
        /\ (p + i) - p = i
    BY <1>2
  <2> QED BY <2>1, <1>7, <1>8, <1>5
<1>12. ASSUME NEW i \in (p + 1) .. N PROVE new[i + M] = options[i]
  <2>1. /\ i + M \in 1 .. ((p + M) + (N - p)) /\ ~(i + M <= p + M)
        /\ (i + M) - (p + M) = i - p /\ i - p \in 1 .. (N - p) /\ p + (i - p) = i
    BY <1>2
  <2> QED BY <2>1, <1>7, <1>4
<1> QED BY <1>7, <1>9, <1>10, <1>11, <1>12 DEF Inserted

\* Where an option is after an insertion, and which are new.
LEMMA InsertedPlaces ==
  ASSUME NEW old, Numbered(old), NEW labels \in Seq(Spelling), NEW new \in Seq(Opt),
         NEW p \in 0 .. Len(old), Inserted(old, labels, new, p)
  PROVE  LET pl(i) == IF i <= p THEN i ELSE i + Len(labels)
         IN  /\ \A i \in DOMAIN old : pl(i) \in DOMAIN new /\ new[pl(i)] = old[i]
             /\ \A i, j \in DOMAIN old : i < j <=> pl(i) < pl(j)
             /\ \A j \in DOMAIN new : (\E i \in DOMAIN old : j = pl(i))
                  \/ \E l \in DOMAIN labels : j = p + l
             /\ \A l \in DOMAIN labels :
                  p + l \in DOMAIN new /\ new[p + l] = [id |-> Len(old) + l, label |-> labels[l]]
<1> DEFINE pl(i) == IF i <= p THEN i ELSE i + Len(labels)
<1>1. /\ Len(old) \in Nat /\ Len(labels) \in Nat /\ p \in Nat /\ p <= Len(old)
      /\ DOMAIN old = 1 .. Len(old) /\ DOMAIN labels = 1 .. Len(labels) /\ DOMAIN new = 1 .. Len(new)
      /\ Len(new) = Len(old) + Len(labels)
  BY DEF Numbered, Inserted
<1>2. ASSUME NEW i \in DOMAIN old PROVE pl(i) \in DOMAIN new /\ new[pl(i)] = old[i]
  <2>1. CASE i <= p
    BY <1>1, <2>1 DEF Inserted
  <2>2. CASE ~(i <= p)
    <3>1. i \in (p + 1) .. Len(old) /\ i + Len(labels) \in 1 .. Len(new)
      BY <1>1, <2>2
    <3> QED BY <3>1, <1>1, <2>2 DEF Inserted
  <2> QED BY <2>1, <2>2
<1>3. \A i, j \in DOMAIN old : i < j <=> pl(i) < pl(j)
  BY <1>1
<1>4. ASSUME NEW j \in DOMAIN new
      PROVE  (\E i \in DOMAIN old : j = pl(i)) \/ \E l \in DOMAIN labels : j = p + l
  <2>1. CASE j <= p
    <3>1. j \in DOMAIN old /\ j = pl(j)
      BY <1>1, <2>1
    <3> QED BY <3>1
  <2>2. CASE p < j /\ j <= p + Len(labels)
    <3>1. j - p \in DOMAIN labels /\ j = p + (j - p)
      BY <1>1, <2>2
    <3> QED BY <3>1
  <2>3. CASE ~(j <= p + Len(labels))
    <3>1. j - Len(labels) \in DOMAIN old /\ ~(j - Len(labels) <= p) /\ j = (j - Len(labels)) + Len(labels)
      BY <1>1, <2>3
    <3> QED BY <3>1
  <2> QED BY <1>1, <2>1, <2>2, <2>3
<1>5. ASSUME NEW l \in DOMAIN labels
      PROVE  p + l \in DOMAIN new /\ new[p + l] = [id |-> Len(old) + l, label |-> labels[l]]
  BY <1>1 DEF Inserted
<1> QED BY <1>2, <1>3, <1>4, <1>5

\* Options that are added get new ids, keep those there in their order.
LEMMA InsertedKeeps ==
  ASSUME NEW old, Numbered(old), NEW labels \in Seq(Spelling), NEW new \in Seq(Opt),
         NEW p \in 0 .. Len(old), Inserted(old, labels, new, p)
  PROVE  /\ Grown(old, new, labels)
         /\ \A i \in DOMAIN old : \E j \in DOMAIN new : new[j] = old[i]
         /\ \A j \in DOMAIN new : (\E i \in DOMAIN old : new[j] = old[i])
              \/ \E l \in DOMAIN labels : new[j] = [id |-> Len(old) + l, label |-> labels[l]]
         /\ \A l \in DOMAIN labels : \E j \in DOMAIN new :
              new[j] = [id |-> Len(old) + l, label |-> labels[l]]
<1> DEFINE pl(i) == IF i <= p THEN i ELSE i + Len(labels)
           to(l) == p + l
           D == DOMAIN old
           L == DOMAIN labels
<1>1. /\ \A i \in D : pl(i) \in DOMAIN new /\ new[pl(i)] = old[i]
      /\ \A i, j \in D : i < j <=> pl(i) < pl(j)
      /\ \A j \in DOMAIN new : (\E i \in D : j = pl(i)) \/ \E l \in L : j = to(l)
      /\ \A l \in L : l \in Nat /\ to(l) \in DOMAIN new /\ new[to(l)] = [id |-> Len(old) + l, label |-> labels[l]]
  BY InsertedPlaces, \A l \in L : l \in Nat
<1>2. /\ Len(old) \in Nat /\ Len(new) = Len(old) + Len(labels) /\ Len(labels) \in Nat /\ p \in Nat
      /\ \A i \in D : old[i].id \in 1 .. Len(old)
      /\ \A i, j \in D : old[i].id = old[j].id => i = j
      /\ \A l \in L : l \in 1 .. Len(labels)
  BY DEF Numbered, Inserted
<1> HIDE DEF pl, to, D, L
<1>0. ASSUME NEW l \in L PROVE new[to(l)].id = Len(old) + l /\ new[to(l)].label = labels[l]
  <2>1. new[to(l)] = [id |-> Len(old) + l, label |-> labels[l]]
    BY <1>1
  <2> QED BY ONLY <2>1
<1>3. ASSUME NEW j \in DOMAIN new
      PROVE  (\E i \in D : new[j] = old[i])
               \/ \E l \in L : new[j] = [id |-> Len(old) + l, label |-> labels[l]]
  <2>1. CASE \E i \in D : j = pl(i)
    BY <1>1, <2>1
  <2>2. CASE \E l \in L : j = to(l)
    BY <1>1, <2>2
  <2> QED BY <1>1, <2>1, <2>2
<1>4. Numbered(new)
  <2>1. ASSUME NEW j \in DOMAIN new PROVE new[j].id \in 1 .. Len(new)
    <3>1. CASE \E i \in D : new[j] = old[i]
      BY <3>1, <1>2
    <3>2. CASE \E l \in L : new[j] = [id |-> Len(old) + l, label |-> labels[l]]
      <4>1. PICK l \in L : new[j] = [id |-> Len(old) + l, label |-> labels[l]]
        BY <3>2
      <4>2. new[j].id = Len(old) + l
        BY <4>1
      <4> QED BY <4>2, <1>2
    <3> QED BY <3>1, <3>2, <1>3
  <2>2. ASSUME NEW j \in DOMAIN new, NEW k \in DOMAIN new, new[j].id = new[k].id PROVE j = k
    <3>1. ASSUME NEW i \in D, NEW l \in L PROVE new[pl(i)].id # new[to(l)].id
      <4>1. new[to(l)].id = Len(old) + l /\ new[pl(i)].id = old[i].id
        BY <1>0, <1>1
      <4> QED BY <4>1, <1>2
    <3>2. ASSUME NEW i \in D, NEW h \in D, new[pl(i)].id = new[pl(h)].id PROVE i = h
      BY <1>1, <1>2, <3>2
    <3>3. ASSUME NEW l \in L, NEW m \in L, new[to(l)].id = new[to(m)].id PROVE l = m
      <4>1. new[to(l)].id = Len(old) + l /\ new[to(m)].id = Len(old) + m
        BY <1>0
      <4> QED BY <4>1, <1>2, <3>3
    <3>4. (\E i \in D : j = pl(i)) \/ (\E l \in L : j = to(l))
      BY <1>1
    <3>5. (\E i \in D : k = pl(i)) \/ (\E l \in L : k = to(l))
      BY <1>1
    <3> QED BY <2>2, <3>1, <3>2, <3>3, <3>4, <3>5
  <2> QED BY <2>1, <2>2 DEF Numbered
<1>5. ASSUME NEW job, NEW id, NEW k, Named(old, job, id, k) PROVE Named(new, job, id, k)
  <2>1. PICK i \in D : old[i].id = id /\ Ky(job, old[i].label) = k
    BY <1>5 DEF Named, D
  <2> QED BY <1>1, <2>1 DEF Named
<1>6. ASSUME NEW job, NEW id, NEW k, LastNamed(old, job, id, k), \A l \in L : Ky(job, labels[l]) # k
      PROVE  LastNamed(new, job, id, k)
  <2>1. PICK i \in D : /\ old[i].id = id /\ Ky(job, old[i].label) = k
                       /\ \A j \in D : i < j => Ky(job, old[j].label) # k
    BY <1>6 DEF LastNamed, D
  <2>2. ASSUME NEW j \in DOMAIN new, pl(i) < j PROVE Ky(job, new[j].label) # k
    <3>1. CASE \E h \in D : j = pl(h)
      BY <1>1, <2>1, <2>2, <3>1
    <3>2. CASE \E l \in L : j = to(l)
      <4>1. PICK l \in L : j = to(l)
        BY <3>2
      <4>2. new[j].label = labels[l]
        BY <1>0, <4>1
      <4> QED BY <1>6, <4>2
    <3> QED BY <1>1, <3>1, <3>2
  <2>3. pl(i) \in DOMAIN new /\ new[pl(i)] = old[i]
    BY <1>1
  <2> QED BY <2>1, <2>2, <2>3 DEF LastNamed
<1> QED BY <1>1, <1>3, <1>4, <1>5, <1>6 DEF Grown, D, L

\* Every key that is listed gets the id of its last option.
LEMMA IdsAreLast ==
  ASSUME Numbered(options)
  PROVE  /\ \A k : k \in DOMAIN Options!Ids <=> \E i \in DOMAIN options : Ky(input.job, options[i].label) = k
         /\ \A k \in DOMAIN Options!Ids : LastNamed(options, input.job, Options!Ids[k], k)
<1> DEFINE N == Len(options)
           K(i) == Ky(input.job, options[i].label)
           answer == Options!Answer
<1>1. N \in Nat /\ DOMAIN options = 1 .. N /\ options \in Seq(Opt)
      /\ \A i \in 1 .. N : options[i] \in Opt /\ options[i].id \in 1 .. N
  BY DEF Numbered
<1>2. /\ DOMAIN answer = 1 .. (N + 1)
      /\ answer[1].id = 0 /\ \A i \in 1 .. N : answer[i + 1] = options[i]
  <2> DEFINE first == <<[id |-> 0, label |-> Blank]>>
  <2>1. first \in Seq(Opt) /\ Len(first) = 1 /\ first[1].id = 0
    BY OptionConstants DEF Opt
  <2> HIDE DEF first
  <2>2. /\ first \o options \in Seq(Opt) /\ Len(first \o options) = Len(first) + N
        /\ \A i \in 1 .. Len(first) + N :
             (first \o options)[i] = IF i <= Len(first) THEN first[i] ELSE options[i - Len(first)]
    BY <1>1, <2>1, ConcatProperties
  <2>3. answer = first \o options
    BY DEF Options!Answer, first
  <2> QED BY <1>1, <2>1, <2>2, <2>3
<1> HIDE DEF answer, K
<1>3. DOMAIN Options!Ids = {K(i) : i \in 1 .. N}
  BY <1>1, KeyIs DEF Options!Ids, Options!Range, K
<1>4. ASSUME NEW k \in DOMAIN Options!Ids PROVE LastNamed(options, input.job, Options!Ids[k], k)
  <2> DEFINE S == {i \in 1 .. N : K(i) = k}
  <2>1. S # {} /\ S \in SUBSET (0 .. N)
    BY <1>1, <1>3
  <2>2. PICK m \in S : \A i \in S : i <= m
    BY <1>1, <2>1, GreatestNumber
  <2>3. Options!Listed(k) = {i + 1 : i \in S}
    <3>1. ASSUME NEW j \in Options!Listed(k) PROVE \E i \in S : j = i + 1
      <4>1. j \in 1 .. (N + 1) /\ answer[j].id # 0 /\ Ky(input.job, answer[j].label) = k
        BY <1>2, KeyIs DEF Options!Listed, answer
      <4>2. j - 1 \in 1 .. N /\ j = (j - 1) + 1
        BY <1>1, <1>2, <4>1
      <4>3. answer[j] = options[j - 1]
        BY <1>2, <4>2
      <4> QED BY <4>1, <4>2, <4>3 DEF K
    <3>2. ASSUME NEW i \in S PROVE i + 1 \in Options!Listed(k)
      <4>1. i + 1 \in DOMAIN answer /\ answer[i + 1] = options[i] /\ options[i].id # 0
        BY <1>1, <1>2
      <4> QED BY <4>1, KeyIs DEF Options!Listed, answer, K
    <3> QED BY <3>1, <3>2
  <2> DEFINE last == m + 1
  <2>4. last \in Options!Listed(k) /\ \A j \in Options!Listed(k) : j <= last
    BY <1>1, <2>2, <2>3
  <2>5. ASSUME NEW l \in Options!Listed(k), \A j \in Options!Listed(k) : j <= l PROVE l = last
    <3>1. l <= last /\ last <= l /\ l \in Int /\ last \in Int
      BY <1>1, <2>3, <2>4, <2>5
    <3> QED BY <3>1
  <2> HIDE DEF last
  <2>6. Options!LastListed(k) = last
    BY <2>4, <2>5 DEF Options!LastListed
  <2>7. Options!Ids[k] = answer[last].id
    BY <2>6 DEF Options!Ids, answer
  <2>8. Options!Ids[k] = options[m].id
    BY <1>2, <2>7 DEF last
  <2>9. \A j \in DOMAIN options : m < j => K(j) # k
    BY <1>1, <2>2
  <2> QED BY <1>1, <2>2, <2>8, <2>9 DEF LastNamed, K
<1> QED BY <1>1, <1>3, <1>4 DEF K

\* What a request that may be saved leaves behind.
LEMMA SavesAdds ==
  ASSUME Numbered(options), created \subseteq Options!Range(options),
         NEW labels \in Seq(Spelling), NEW saved \in BOOLEAN, Options!Saves(labels, saved)
  PROVE  /\ Grown(options, options', labels)
         /\ created \subseteq created' /\ created' \subseteq Options!Range(options)'
         /\ \A o \in created' \ created : \E l \in DOMAIN labels :
              o = [id |-> Len(options) + l, label |-> labels[l]]
         /\ saved => \A l \in DOMAIN labels : \E j \in DOMAIN options' :
              options'[j] = [id |-> Len(options) + l, label |-> labels[l]]
<1>1. CASE saved
  <2>1. options' \in Options!Insertions(labels)
        /\ created' = created \cup (Options!Range(options') \ Options!Range(options))
    BY <1>1 DEF Options!Saves
  <2>2. PICK new : new = options'
    OBVIOUS
  <2>3. new \in Seq(Opt) /\ \E p \in 0 .. Len(options) : Inserted(options, labels, new, p)
    BY <2>1, <2>2, InsertionInserts
  <2>4. /\ Grown(options, new, labels)
        /\ \A i \in DOMAIN options : \E j \in DOMAIN new : new[j] = options[i]
        /\ \A j \in DOMAIN new : (\E i \in DOMAIN options : new[j] = options[i])
             \/ \E l \in DOMAIN labels : new[j] = [id |-> Len(options) + l, label |-> labels[l]]
        /\ \A l \in DOMAIN labels : \E j \in DOMAIN new :
             new[j] = [id |-> Len(options) + l, label |-> labels[l]]
    BY <2>3, InsertedKeeps
  <2>5. created' = created \cup (Options!Range(new) \ Options!Range(options))
    BY <2>1, <2>2
  <2> DEFINE c == created'
  <2>6. c \subseteq Options!Range(new)
    BY <2>4, <2>5 DEF Options!Range
  <2>7. \A o \in c \ created : \E l \in DOMAIN labels : o = [id |-> Len(options) + l, label |-> labels[l]]
    BY <2>4, <2>5 DEF Options!Range
  <2> QED BY <2>2, <2>4, <2>5, <2>6, <2>7
<1>2. CASE ~saved
  <2>1. options' = options /\ created' = created
    BY <1>2 DEF Options!Saves
  <2> QED BY <1>2, <2>1 DEF Grown
<1> QED BY <1>1, <1>2

\* A label more of a row that is walked.
LEMMA WalkTakes ==
  ASSUME NEW rws \in Seq(Seq(Spelling)), NEW ok, NEW a, NEW g, NEW res, Walk(rws, ok, a, g, res),
         a <= Len(rws), \A r \in DOMAIN rws : rws[r] # <<>>,
         NEW id \in Id, <<id, rws[a][Len(g) + 1]>> \in ok,
         NEW a2, NEW g2, NEW res2,
         IF Len(Append(g, id)) = Len(rws[a]) THEN res2 = Append(res, Append(g, id)) /\ a2 = a + 1 /\ g2 = <<>>
         ELSE g2 = Append(g, id) /\ a2 = a /\ res2 = res
  PROVE  Walk(rws, ok, a2, g2, res2)
<1> DEFINE x == Append(g, id)
<1>1. /\ a \in Nat /\ 1 <= a /\ a <= Len(rws) /\ Len(rws) \in Nat /\ a \in DOMAIN rws
      /\ g \in Seq(Id) /\ res \in Seq(Seq(Id)) /\ Len(res) = a - 1 /\ Len(g) < Len(rws[a])
      /\ (\A i \in DOMAIN g : <<g[i], rws[a][i]>> \in ok)
      /\ DOMAIN rws = 1 .. Len(rws) /\ rws[a] \in Seq(Spelling) /\ Len(rws[a]) \in Nat /\ Len(g) \in Nat
  BY DEF Walk
<1>2. /\ x \in Seq(Id) /\ Len(x) = Len(g) + 1 /\ DOMAIN x = 1 .. (Len(g) + 1)
      /\ \A i \in DOMAIN g : x[i] = g[i]
      /\ x[Len(g) + 1] = id /\ DOMAIN g = 1 .. Len(g)
  BY <1>1
<1> HIDE DEF x
<1>3. ASSUME NEW i \in DOMAIN x PROVE <<x[i], rws[a][i]>> \in ok
  <2>1. i \in DOMAIN g \/ i = Len(g) + 1
    BY <1>1, <1>2
  <2> QED BY <1>1, <1>2, <2>1
<1>4. CASE Len(x) = Len(rws[a])
  <2>1. res2 = Append(res, x) /\ a2 = a + 1 /\ g2 = <<>>
    BY <1>4 DEF x
  <2>2. /\ res2 \in Seq(Seq(Id)) /\ Len(res2) = a /\ DOMAIN res2 = 1 .. a /\ res2[a] = x
        /\ \A r \in DOMAIN res : res2[r] = res[r]
        /\ DOMAIN res = 1 .. (a - 1)
    BY <1>1, <1>2, <2>1
  <2>3. ASSUME NEW r \in DOMAIN res2
        PROVE  res2[r] = Options!Failed
                 \/ (Len(res2[r]) = Len(rws[r]) /\ \A i \in DOMAIN res2[r] : <<res2[r][i], rws[r][i]>> \in ok)
    <3>1. CASE r = a
      BY <1>3, <1>4, <2>2, <3>1
    <3>2. CASE r # a
      <4>0. r \in 1 .. (a - 1)
        <5>1. a \in Nat /\ r \in 1 .. a
          BY <1>1, <2>2
        <5> QED BY <5>1, <3>2
      <4>1. r \in DOMAIN res /\ res2[r] = res[r]
        BY <4>0, <2>2
      <4> QED BY <4>1 DEF Walk
    <3> QED BY <3>1, <3>2
  <2>4. /\ a2 \in Nat /\ 1 <= a2 /\ a2 <= Len(rws) + 1 /\ Len(res2) = a2 - 1
        /\ a2 <= Len(rws) => a2 \in DOMAIN rws
    BY <1>1, <2>1, <2>2
  <2>5. a2 <= Len(rws) => Len(g2) < Len(rws[a2]) /\ (DOMAIN g2) = {}
    <3>1. SUFFICES ASSUME a2 <= Len(rws) PROVE 0 < Len(rws[a2])
      BY <2>1
    <3>2. rws[a2] \in Seq(Spelling) /\ rws[a2] # <<>>
      BY <2>4, <3>1
    <3> QED BY <3>2
  <2>6. g2 \in Seq(Id)
    BY <2>1
  <2> QED BY <2>2, <2>3, <2>4, <2>5, <2>6 DEF Walk
<1>5. CASE Len(x) # Len(rws[a])
  <2>1. g2 = x /\ a2 = a /\ res2 = res
    BY <1>5 DEF x
  <2>2. Len(x) < Len(rws[a])
    BY <1>1, <1>2, <1>5
  <2> QED BY <1>1, <1>2, <1>3, <2>1, <2>2 DEF Walk
<1> QED BY <1>4, <1>5

\* A row that fails.
LEMMA WalkFails ==
  ASSUME NEW rws \in Seq(Seq(Spelling)), NEW ok, NEW a, NEW g, NEW res, Walk(rws, ok, a, g, res),
         a <= Len(rws), \A r \in DOMAIN rws : rws[r] # <<>>
  PROVE  Walk(rws, ok, a + 1, <<>>, Append(res, Options!Failed))
<1> DEFINE res2 == Append(res, Options!Failed)
<1>1. /\ a \in Nat /\ 1 <= a /\ a <= Len(rws) /\ Len(rws) \in Nat
      /\ res \in Seq(Seq(Id)) /\ Len(res) = a - 1 /\ DOMAIN rws = 1 .. Len(rws)
  BY DEF Walk
<1>2. Options!Failed \in Seq(Id)
  BY DEF Options!Failed, Id
<1>3. /\ res2 \in Seq(Seq(Id)) /\ Len(res2) = a /\ DOMAIN res2 = 1 .. a /\ res2[a] = Options!Failed
      /\ \A r \in DOMAIN res : res2[r] = res[r]
      /\ DOMAIN res = 1 .. (a - 1)
  BY <1>1, <1>2
<1> HIDE DEF res2
<1>4. ASSUME NEW r \in DOMAIN res2
      PROVE  res2[r] = Options!Failed
               \/ (Len(res2[r]) = Len(rws[r]) /\ \A i \in DOMAIN res2[r] : <<res2[r][i], rws[r][i]>> \in ok)
  <2>1. CASE r = a
    BY <1>3, <2>1
  <2>2. CASE r # a
    <3>0. r \in 1 .. (a - 1)
      <4>1. a \in Nat /\ r \in 1 .. a
        BY <1>1, <1>3
      <4> QED BY <4>1, <2>2
    <3>1. r \in DOMAIN res /\ res2[r] = res[r]
      BY <3>0, <1>3
    <3> QED BY <3>1 DEF Walk
  <2> QED BY <2>1, <2>2
<1>5. a + 1 <= Len(rws) => 0 < Len(rws[a + 1])
  <2>1. SUFFICES ASSUME a + 1 <= Len(rws) PROVE 0 < Len(rws[a + 1])
    OBVIOUS
  <2>2. a + 1 \in DOMAIN rws
    BY <1>1, <2>1
  <2>3. rws[a + 1] \in Seq(Spelling) /\ rws[a + 1] # <<>>
    BY <2>2
  <2> QED BY <2>3
<1>6. a + 1 \in Nat /\ 1 <= a + 1 /\ a + 1 <= Len(rws) + 1 /\ Len(res2) = (a + 1) - 1
  BY <1>1, <1>3
<1>7. (<<>> \in Seq(Id)) /\ Len(<<>>) = 0 /\ (DOMAIN <<>>) = {}
  OBVIOUS
<1>8. Walk(rws, ok, a + 1, <<>>, res2)
  BY <1>3, <1>4, <1>5, <1>6, <1>7 DEF Walk
<1> QED BY <1>8 DEF res2

\* What suits a label still does when more does.
LEMMA WalkGrows ==
  ASSUME NEW rws, NEW ok, NEW a, NEW g, NEW res, Walk(rws, ok, a, g, res), NEW ok2, ok \subseteq ok2
  PROVE  Walk(rws, ok2, a, g, res)
BY DEF Walk

\* The types; which variables a job uses.
OptionTypes ==
  /\ input \in OptionInputs /\ Numbered(options) /\ exists \in BOOLEAN /\ known \in BOOLEAN
  /\ created \subseteq Options!Range(options)
  /\ foreign \in Nat /\ fault \in Nat
  /\ pc \in {"read", "row", "refresh", "send", "done", "aborted"}
  /\ pc = "read" => at = 1 /\ got = <<>> /\ results = <<>> /\ created = {} /\ cache = <<>> /\ seen = {}
  /\ pc \in {"row", "refresh", "aborted"} => input.job # "attribute"
  /\ pc = "send" => input.job = "attribute"
  /\ pc = "refresh" => input.job = "resolve" /\ at <= Len(input.rows)

\* Every id in a result or in the cache is that of an option of its label.
RightInv ==
  /\ input.job # "attribute" => Walk(input.rows, Fitting(options, input.job), at, got, results)
  /\ \A k \in DOMAIN cache : cache[k] \in Nat /\ Named(options, input.job, cache[k], k)

\* What was there at the first read is in the cache, and never created.
SeenInv ==
  /\ \A k \in seen : \E i \in DOMAIN options : Ky(input.job, options[i].label) = k
  /\ seen \subseteq DOMAIN cache
  /\ \A o \in created : known => Ky(input.job, o.label) \notin seen

\* As long as nobody else adds options, the results are those of the cache, and
\* the cache has what is listed last.
OneInv ==
  foreign = 0 /\ input.job # "attribute" =>
    /\ input.job = "resolve" => \A k \in DOMAIN cache : LastNamed(options, input.job, cache[k], k)
    /\ Walk(input.rows, Caching(cache, input.job), at, got, results)

\* As long as every request is answered, what was created is in the cache.
OnceInv ==
  fault = 0 /\ input.job # "attribute" =>
    /\ \A o, p \in created : Ky(input.job, o.label) = Ky(input.job, p.label) => o = p
    /\ pc = "row" => \A o \in created : Ky(input.job, o.label) \in DOMAIN cache

\* Each label of an attribute is an option or still to be posted.
PostsInv ==
  input.job = "attribute" /\ pc # "read" =>
    /\ DOMAIN results = DOMAIN input.rows
    /\ \A o \in ops : o[1] \in DOMAIN input.rows /\ o[2] \in {0} \cup DOMAIN input.rows[o[1]]
    /\ known => \A o \in ops : o[2] # 0 /\ Ky(input.job, input.rows[o[1]][o[2]]) \notin seen
    /\ \A r \in DOMAIN results : results[r] # Options!Failed =>
         \A i \in DOMAIN input.rows[r] :
           \/ \E j \in DOMAIN options :
                Ky(input.job, options[j].label) = Ky(input.job, input.rows[r][i])
           \/ <<r, 0>> \in ops \/ <<r, i>> \in ops
    /\ pc = "done" => ops = {}

OptionInv == OptionTypes /\ RightInv /\ SeenInv /\ OneInv /\ OnceInv /\ PostsInv

\* The inputs.
LEMMA OptionRows ==
  ASSUME input \in OptionInputs
  PROVE  /\ input.rows \in Seq(Seq(Spelling))
         /\ \A r \in DOMAIN input.rows : input.rows[r] \in Seq(Spelling)
         /\ input.job \in {"resolve", "labels", "attribute"}
         /\ input.job # "attribute" => \A r \in DOMAIN input.rows : input.rows[r] # <<>>
BY OptionConstants

\* At the start there is an attribute and no result.
LEMMA OptionsInit == Options!Init => OptionInv
<1> SUFFICES ASSUME Options!Init PROVE OptionInv
  OBVIOUS
<1>1. PICK s \in Attributes : exists = s.exists
        /\ options = [i \in DOMAIN s.labels |-> [id |-> i, label |-> s.labels[i]]]
  BY DEF Options!Init
<1>2. /\ input \in OptionInputs /\ foreign = 0 /\ fault = 0 /\ created = {} /\ pc = "read" /\ known = FALSE
      /\ cache = <<>> /\ seen = {} /\ at = 1 /\ got = <<>> /\ results = <<>> /\ ops = {}
  BY DEF Options!Init
<1>3. Numbered(options)
  <2> DEFINE n == Len(s.labels)
  <2>1. s.labels \in Seq(Spelling) /\ n \in Nat /\ DOMAIN s.labels = 1 .. n
    BY OptionConstants
  <2>2. \A i \in 1 .. n : options[i] = [id |-> i, label |-> s.labels[i]]
    BY <1>1, <2>1
  <2>3. ASSUME NEW i \in 1 .. n PROVE options[i] \in Opt /\ options[i].id = i
    <3>1. options[i] = [id |-> i, label |-> s.labels[i]]
      BY <2>2
    <3>2. i \in Nat /\ s.labels[i] \in Spelling
      BY <2>1
    <3> QED BY ONLY <3>1, <3>2 DEF Opt
  <2>4. options = [i \in 1 .. n |-> options[i]]
    BY <1>1, <2>1
  <2>5. options \in Seq(Opt) /\ Len(options) = n /\ DOMAIN options = 1 .. n
    BY <2>1, <2>3, <2>4
  <2> QED BY <2>1, <2>3, <2>5 DEF Numbered
<1>4. exists \in BOOLEAN
  BY <1>1, OptionConstants
<1>5. input.rows \in Seq(Seq(Spelling))
      /\ (input.job # "attribute" => \A r \in DOMAIN input.rows : input.rows[r] # <<>>)
  BY <1>2, OptionRows
<1>6. (<<>> \in Seq(Id)) /\ (<<>> \in Seq(Seq(Id))) /\ Len(<<>>) = 0 /\ (DOMAIN <<>>) = {}
  OBVIOUS
<1>7. ASSUME NEW ok, input.job # "attribute" PROVE Walk(input.rows, ok, at, got, results)
  <2>1. 1 <= Len(input.rows) => 0 < Len(input.rows[1])
    <3>1. SUFFICES ASSUME 1 <= Len(input.rows) PROVE 0 < Len(input.rows[1])
      OBVIOUS
    <3>2. 1 \in DOMAIN input.rows /\ input.rows[1] \in Seq(Spelling) /\ input.rows[1] # <<>>
      BY <1>5, <1>7, <3>1
    <3> QED BY <3>2
  <2>2. Len(input.rows) \in Nat /\ 1 <= Len(input.rows) + 1
    BY <1>5
  <2> QED BY <1>2, <1>6, <2>1, <2>2 DEF Walk
<1>8. OptionTypes
  BY <1>2, <1>3, <1>4 DEF OptionTypes
<1>9. RightInv /\ SeenInv /\ OneInv
  BY <1>2, <1>6, <1>7 DEF RightInv, SeenInv, OneInv
<1>10. OnceInv /\ PostsInv
  BY <1>2 DEF OnceInv, PostsInv
<1> QED BY <1>8, <1>9, <1>10 DEF OptionInv

\* Others' options change no result.
LEMMA OptionsForeign == OptionInv /\ Options!Foreign => OptionInv'
<1> SUFFICES ASSUME OptionInv, Options!Foreign PROVE OptionInv'
  OBVIOUS
<1>1. /\ pc \notin {"done", "aborted"} /\ foreign' = foreign + 1
      /\ UNCHANGED <<input, exists, fault, created, pc, known, cache, seen, at, got, results, ops>>
  BY DEF Options!Foreign
<1>2. PICK label \in Spelling \ {Blank} : options' \in Options!Insertions(<<label>>)
  BY DEF Options!Foreign
<1>3. OptionTypes /\ RightInv /\ SeenInv /\ OnceInv /\ PostsInv
  BY DEF OptionInv
<1>4. PICK new : new = options'
  OBVIOUS
<1>5. /\ Grown(options, new, <<label>>)
      /\ \A i \in DOMAIN options : \E j \in DOMAIN new : new[j] = options[i]
  <2>1. <<label>> \in Seq(Spelling) /\ Numbered(options)
    BY <1>3 DEF OptionTypes
  <2>2. new \in Seq(Opt) /\ \E p \in 0 .. Len(options) : Inserted(options, <<label>>, new, p)
    BY <1>2, <1>4, <2>1, InsertionInserts
  <2> QED BY <2>1, <2>2, InsertedKeeps
<1>6. Fitting(options, input.job) \subseteq Fitting(new, input.job)
  BY <1>5 DEF Fitting, Grown
<1>7. OptionTypes'
  <2>1. Options!Range(options) \subseteq Options!Range(new)
    BY <1>5 DEF Options!Range
  <2>2. created \subseteq Options!Range(new) /\ foreign' \in Nat /\ Numbered(new)
    BY <1>1, <1>3, <1>5, <2>1 DEF OptionTypes, Grown
  <2> DEFINE r == Options!Range(new)
  <2>3. Options!Range(options)' = r
    BY <1>4 DEF Options!Range
  <2> QED BY <1>1, <1>3, <1>4, <2>2, <2>3 DEF OptionTypes
<1>8. RightInv'
  <2>1. ASSUME input.job # "attribute" PROVE Walk(input.rows, Fitting(new, input.job), at, got, results)
    BY <1>3, <1>6, <2>1, WalkGrows DEF RightInv
  <2>2. \A k \in DOMAIN cache : cache[k] \in Nat /\ Named(new, input.job, cache[k], k)
    BY <1>3, <1>5 DEF RightInv, Grown
  <2> QED BY <1>1, <1>4, <2>1, <2>2 DEF RightInv
<1>9. SeenInv'
  <2>1. \A k \in seen : \E i \in DOMAIN new : Ky(input.job, new[i].label) = k
    BY <1>3, <1>5 DEF SeenInv
  <2> QED BY <1>1, <1>3, <1>4, <2>1 DEF SeenInv
<1>10. OneInv'
  <2>1. foreign' # 0
    BY <1>1, <1>3 DEF OptionTypes
  <2> QED BY <2>1 DEF OneInv
<1>11. OnceInv'
  BY <1>1, <1>3 DEF OnceInv
<1>12. PostsInv'
  <2>1. \A k : (\E j \in DOMAIN options : Ky(input.job, options[j].label) = k)
                 => \E j \in DOMAIN new : Ky(input.job, new[j].label) = k
    BY <1>5
  <2> QED BY <1>1, <1>3, <1>4, <2>1 DEF PostsInv
<1> QED BY <1>7, <1>8, <1>9, <1>10, <1>11, <1>12 DEF OptionInv

\* The first read fills the cache, and says what is to post.
LEMMA OptionsRead == OptionInv /\ Options!Read => OptionInv'
<1> SUFFICES ASSUME OptionInv, Options!Read PROVE OptionInv'
  OBVIOUS
<1>1. /\ pc = "read" /\ known' = exists /\ cache' = Options!Ids /\ seen' = DOMAIN cache'
      /\ results' = (IF input.job = "attribute" THEN input.rows ELSE <<>>)
      /\ pc' = (IF input.job = "attribute" THEN "send" ELSE "row")
      /\ UNCHANGED <<input, exists, options, foreign, fault, created, at, got>>
  BY DEF Options!Read
<1>2. ops' = IF input.job = "attribute" THEN UNION {Options!RowOps(r) : r \in DOMAIN input.rows} ELSE {}
  BY DEF Options!Read
<1>3. /\ OptionTypes /\ RightInv /\ OneInv /\ input \in OptionInputs
      /\ at = 1 /\ got = <<>> /\ results = <<>> /\ created = {} /\ cache = <<>> /\ seen = {}
  BY <1>1 DEF OptionInv, OptionTypes
<1>4. PICK c : c = cache'
  OBVIOUS
<1>5. /\ \A k : k \in DOMAIN c <=> \E i \in DOMAIN options : Ky(input.job, options[i].label) = k
      /\ \A k \in DOMAIN c : LastNamed(options, input.job, c[k], k)
  BY <1>1, <1>3, <1>4, IdsAreLast DEF OptionTypes
<1>6. \A k \in DOMAIN c : c[k] \in Nat /\ Named(options, input.job, c[k], k)
  <2>1. \A i \in DOMAIN options : options[i].id \in Nat
    BY <1>3 DEF OptionTypes, Numbered
  <2> QED BY <1>5, <2>1 DEF LastNamed, Named
<1>7. /\ input.rows \in Seq(Seq(Spelling)) /\ input.job \in {"resolve", "labels", "attribute"}
  BY <1>3, OptionRows
<1>8. OptionTypes'
  BY <1>1, <1>3, <1>7 DEF OptionTypes, Options!Range
<1>9. RightInv'
  BY <1>1, <1>3, <1>4, <1>6 DEF RightInv
<1>10. SeenInv'
  BY <1>1, <1>3, <1>4, <1>5 DEF SeenInv
<1>11. OneInv'
  <2> SUFFICES ASSUME foreign = 0, input.job # "attribute"
               PROVE  Walk(input.rows, Caching(c, input.job), 1, <<>>, <<>>)
    BY <1>1, <1>3, <1>4, <1>5 DEF OneInv
  <2>1. Walk(input.rows, Fitting(options, input.job), 1, <<>>, <<>>)
    BY <1>3 DEF RightInv
  <2> QED BY <2>1 DEF Walk
<1>12. OnceInv'
  BY <1>1, <1>3 DEF OnceInv
<1>13. PostsInv'
  <2> SUFFICES ASSUME input.job = "attribute" PROVE PostsInv'
    BY <1>1 DEF PostsInv
  <2>1. results' = input.rows /\ pc' = "send" /\ input' = input /\ options' = options
    BY <1>1
  <2> DEFINE O == ops'
             q == known'
  <2>2. O = UNION {Options!RowOps(r) : r \in DOMAIN input.rows}
    BY <1>2
  <2>3. ASSUME NEW r \in DOMAIN input.rows
        PROVE  Options!RowOps(r) = IF ~q THEN {<<r, 0>>}
                 ELSE {<<r, i>> : i \in {j \in DOMAIN input.rows[r] :
                                           Ky(input.job, input.rows[r][j]) \notin DOMAIN c}}
    BY <1>4, KeyIs DEF Options!RowOps
  <2>4. \A o \in O : o[1] \in DOMAIN input.rows /\ o[2] \in {0} \cup DOMAIN input.rows[o[1]]
    BY <2>2, <2>3
  <2>5. q => \A o \in O : o[2] # 0 /\ Ky(input.job, input.rows[o[1]][o[2]]) \notin DOMAIN c
    <3> SUFFICES ASSUME q, NEW o \in O
                 PROVE  o[2] # 0 /\ Ky(input.job, input.rows[o[1]][o[2]]) \notin DOMAIN c
      OBVIOUS
    <3>1. PICK r \in DOMAIN input.rows : o \in Options!RowOps(r)
      BY <2>2
    <3>2. PICK i \in DOMAIN input.rows[r] : o = <<r, i>> /\ Ky(input.job, input.rows[r][i]) \notin DOMAIN c
      BY <2>3, <3>1
    <3>3. input.rows[r] \in Seq(Spelling)
      BY <1>3, OptionRows
    <3>4. i # 0
      BY <3>3
    <3> QED BY <3>2, <3>4
  <2>6. ASSUME NEW r \in DOMAIN input.rows, NEW i \in DOMAIN input.rows[r]
        PROVE  \/ \E j \in DOMAIN options :
                    Ky(input.job, options[j].label) = Ky(input.job, input.rows[r][i])
               \/ <<r, 0>> \in O \/ <<r, i>> \in O
    <3>1. CASE ~q
      BY <2>2, <2>3, <3>1
    <3>2. CASE q /\ Ky(input.job, input.rows[r][i]) \in DOMAIN c
      BY <1>5, <3>2
    <3>3. CASE q /\ Ky(input.job, input.rows[r][i]) \notin DOMAIN c
      <4>1. <<r, i>> \in Options!RowOps(r)
        BY <2>3, <3>3
      <4> QED BY <2>2, <4>1
    <3> QED BY <3>1, <3>2, <3>3
  <2>7. seen' = DOMAIN c
    BY <1>1, <1>4
  <2> QED BY <2>1, <2>4, <2>5, <2>6, <2>7 DEF PostsInv
<1> QED BY <1>8, <1>9, <1>10, <1>11, <1>12, <1>13 DEF OptionInv

\* The label that is next.
LEMMA NextLabel ==
  ASSUME OptionInv, pc \in {"row", "refresh"}, at <= Len(input.rows)
  PROVE  /\ Walk(input.rows, Fitting(options, input.job), at, got, results)
         /\ input.rows \in Seq(Seq(Spelling)) /\ \A r \in DOMAIN input.rows : input.rows[r] # <<>>
         /\ Options!Label \in Spelling /\ input.job \in {"resolve", "labels"}
         /\ Options!Label = input.rows[at][Len(got) + 1]
<1>1. /\ input \in OptionInputs /\ input.job # "attribute"
      /\ Walk(input.rows, Fitting(options, input.job), at, got, results)
  BY DEF OptionInv, OptionTypes, RightInv
<1>2. /\ input.rows \in Seq(Seq(Spelling)) /\ \A r \in DOMAIN input.rows : input.rows[r] # <<>>
      /\ input.job \in {"resolve", "labels", "attribute"}
  BY <1>1, OptionRows
<1>3. at \in DOMAIN input.rows /\ Len(got) < Len(input.rows[at]) /\ got \in Seq(Id)
  BY <1>1, <1>2 DEF Walk
<1>4. input.rows[at] \in Seq(Spelling)
  BY <1>2, <1>3
<1>5. Len(got) + 1 \in DOMAIN input.rows[at]
  BY <1>3, <1>4
<1> QED BY <1>1, <1>2, <1>4, <1>5 DEF Options!Label

\* A hit gives the label the id of the cache.
LEMMA OptionsHit == OptionInv /\ Options!Hit => OptionInv'
<1> SUFFICES ASSUME OptionInv, Options!Hit PROVE OptionInv'
  OBVIOUS
<1> DEFINE lab == Options!Label
           id == IF Options!Skips THEN None ELSE cache[Options!Key(Options!Label)]
<1>1. /\ pc = "row" /\ at <= Len(input.rows) /\ (Options!Skips \/ Options!Key(lab) \in DOMAIN cache)
      /\ Options!Take(id)
      /\ UNCHANGED <<input, exists, options, created, foreign, fault, pc, known, cache, seen, ops>>
  BY DEF Options!Hit, Options!InRow, Options!store
<1>2. OptionTypes /\ RightInv /\ SeenInv /\ OneInv /\ OnceInv /\ PostsInv
  BY DEF OptionInv
<1>3. /\ Walk(input.rows, Fitting(options, input.job), at, got, results)
      /\ input.rows \in Seq(Seq(Spelling)) /\ \A r \in DOMAIN input.rows : input.rows[r] # <<>>
      /\ lab \in Spelling /\ input.job \in {"resolve", "labels"} /\ lab = input.rows[at][Len(got) + 1]
  BY <1>1, NextLabel
<1>4. /\ id \in Id /\ <<id, lab>> \in Fitting(options, input.job)
      /\ <<id, lab>> \in Caching(cache, input.job)
  <2>1. Options!Key(lab) = Ky(input.job, lab) /\ (Options!Skips <=> input.job = "labels" /\ lab = Blank)
    BY KeyIs DEF Options!Skips
  <2>2. CASE Options!Skips
    BY <1>3, <2>1, <2>2 DEF Fitting, Caching, Id
  <2>3. CASE ~Options!Skips
    <3>1. id = cache[Ky(input.job, lab)] /\ Ky(input.job, lab) \in DOMAIN cache
      BY <1>1, <2>1, <2>3
    <3>2. id \in Nat /\ Named(options, input.job, id, Ky(input.job, lab))
      BY <1>2, <3>1 DEF RightInv
    <3> QED BY <1>3, <2>1, <2>3, <3>1, <3>2 DEF Fitting, Caching, Id
  <2> QED BY <2>2, <2>3
<1> HIDE DEF id, lab
<1>5. PICK a2, g2, res2 : a2 = at' /\ g2 = got' /\ res2 = results'
  OBVIOUS
<1>6. IF Len(Append(got, id)) = Len(input.rows[at])
      THEN res2 = Append(results, Append(got, id)) /\ a2 = at + 1 /\ g2 = <<>>
      ELSE g2 = Append(got, id) /\ a2 = at /\ res2 = results
  BY <1>1, <1>5 DEF Options!Take
<1>7. Walk(input.rows, Fitting(options, input.job), a2, g2, res2)
  BY <1>1, <1>3, <1>4, <1>6, WalkTakes
<1>8. foreign = 0 => Walk(input.rows, Caching(cache, input.job), a2, g2, res2)
  <2> SUFFICES ASSUME foreign = 0 PROVE Walk(input.rows, Caching(cache, input.job), a2, g2, res2)
    OBVIOUS
  <2>1. Walk(input.rows, Caching(cache, input.job), at, got, results)
    BY <1>2, <1>3 DEF OneInv
  <2> QED BY <2>1, <1>1, <1>3, <1>4, <1>6, WalkTakes
<1>9. OptionTypes'
  BY <1>1, <1>2 DEF OptionTypes, Options!Range
<1>10. RightInv' /\ SeenInv' /\ OneInv'
  BY <1>1, <1>2, <1>5, <1>7, <1>8 DEF RightInv, SeenInv, OneInv
<1>11. OnceInv' /\ PostsInv'
  BY <1>1, <1>2, <1>3 DEF OnceInv, PostsInv
<1> QED BY <1>9, <1>10, <1>11 DEF OptionInv

\* A row whose label may not be created fails.
LEMMA OptionsUnknown == OptionInv /\ Options!Unknown => OptionInv'
<1> SUFFICES ASSUME OptionInv, Options!Unknown PROVE OptionInv'
  OBVIOUS
<1>1. /\ pc = "row" /\ at <= Len(input.rows) /\ Options!FailRow
      /\ UNCHANGED <<input, exists, options, created, foreign, fault, pc, known, cache, seen, ops>>
  BY DEF Options!Unknown, Options!InRow, Options!store
<1>2. OptionTypes /\ RightInv /\ SeenInv /\ OneInv /\ OnceInv /\ PostsInv
  BY DEF OptionInv
<1>3. /\ Walk(input.rows, Fitting(options, input.job), at, got, results)
      /\ input.rows \in Seq(Seq(Spelling)) /\ \A r \in DOMAIN input.rows : input.rows[r] # <<>>
      /\ input.job \in {"resolve", "labels"}
  BY <1>1, NextLabel
<1>4. results' = Append(results, Options!Failed) /\ at' = at + 1 /\ got' = <<>>
  BY <1>1 DEF Options!FailRow
<1>5. Walk(input.rows, Fitting(options, input.job), at + 1, <<>>, Append(results, Options!Failed))
  BY <1>1, <1>3, WalkFails
<1>6. foreign = 0 => Walk(input.rows, Caching(cache, input.job), at + 1, <<>>, Append(results, Options!Failed))
  <2>1. foreign = 0 => Walk(input.rows, Caching(cache, input.job), at, got, results)
    BY <1>2, <1>3 DEF OneInv
  <2> QED BY <2>1, <1>1, <1>3, WalkFails
<1>7. OptionTypes'
  BY <1>1, <1>2 DEF OptionTypes, Options!Range
<1>8. RightInv' /\ SeenInv' /\ OneInv'
  BY <1>1, <1>2, <1>4, <1>5, <1>6 DEF RightInv, SeenInv, OneInv
<1>9. OnceInv' /\ PostsInv'
  BY <1>1, <1>2, <1>3 DEF OnceInv, PostsInv
<1> QED BY <1>7, <1>8, <1>9 DEF OptionInv

\* What is posted for a label that is not cached changes no label's last option
\* but its own.
LEMMA OptionsPost == OptionInv /\ Options!Post => OptionInv'
<1> SUFFICES ASSUME OptionInv, Options!Post PROVE OptionInv'
  OBVIOUS
<1> DEFINE lab == Options!Label
           k0 == Ky(input.job, lab)
           n == Len(options) + 1
<1>1. PICK saved \in BOOLEAN, answer \in {"id", "id_", "http", "lost"} :
       /\ answer \in {"id", "id_"} => saved
       /\ fault' = IF answer \in {"http", "lost"} THEN fault + 1 ELSE fault
       /\ Options!Saves(<<lab>>, saved)
       /\ \/ /\ input.job = "resolve" /\ answer \in {"id", "id_"}
             /\ pc' = "refresh" /\ UNCHANGED <<cache, at, got, results>>
          \/ /\ input.job = "resolve" /\ answer = "http"
             /\ Options!FailRow /\ UNCHANGED <<pc, cache>>
          \/ /\ input.job = "labels" /\ answer = "id"
             /\ cache' = [k \in DOMAIN cache \cup {Options!Key(lab)} |-> IF k \in DOMAIN cache THEN cache[k] ELSE Options!NextId]
             /\ Options!Take(Options!NextId) /\ UNCHANGED pc
          \/ /\ answer = "lost" \/ (input.job = "labels" /\ answer # "id")
             /\ pc' = "aborted" /\ UNCHANGED <<cache, at, got, results>>
  BY DEF Options!Post
<1>2. /\ pc = "row" /\ at <= Len(input.rows) /\ ~Options!Skips /\ Options!Key(lab) \notin DOMAIN cache
      /\ UNCHANGED <<input, exists, foreign, known, seen, ops>>
  BY DEF Options!Post, Options!InRow
<1>3. OptionTypes /\ RightInv /\ SeenInv /\ OneInv /\ OnceInv
  BY DEF OptionInv
<1>4. /\ Walk(input.rows, Fitting(options, input.job), at, got, results)
      /\ input.rows \in Seq(Seq(Spelling)) /\ \A r \in DOMAIN input.rows : input.rows[r] # <<>>
      /\ lab \in Spelling /\ input.job \in {"resolve", "labels"} /\ lab = input.rows[at][Len(got) + 1]
  BY <1>2, NextLabel
<1>5. /\ k0 \notin DOMAIN cache /\ ~(input.job = "labels" /\ lab = Blank) /\ Options!Key(lab) = k0
  BY <1>2, KeyIs DEF Options!Skips
<1>6. PICK new, made : new = options' /\ made = created'
  OBVIOUS
<1> HIDE DEF lab, k0
<1>7. /\ Grown(options, new, <<lab>>)
      /\ created \subseteq made /\ made \subseteq Options!Range(new)
      /\ \A o \in made \ created : o = [id |-> n, label |-> lab]
      /\ saved => \E j \in DOMAIN new : new[j] = [id |-> n, label |-> lab]
  <2>1. /\ Grown(options, new, <<lab>>)
        /\ created \subseteq made /\ made \subseteq Options!Range(options)'
        /\ \A o \in made \ created : \E l \in DOMAIN <<lab>> :
             o = [id |-> Len(options) + l, label |-> <<lab>>[l]]
        /\ saved => \A l \in DOMAIN <<lab>> : \E j \in DOMAIN new :
             new[j] = [id |-> Len(options) + l, label |-> <<lab>>[l]]
    <3>1. <<lab>> \in Seq(Spelling)
      BY <1>4
    <3>2. Numbered(options) /\ created \subseteq Options!Range(options)
      BY <1>3 DEF OptionTypes
    <3> QED BY <1>1, <1>6, <3>1, <3>2, SavesAdds
  <2>2. (DOMAIN <<lab>>) = {1} /\ <<lab>>[1] = lab
    OBVIOUS
  <2>3. Options!Range(options)' = Options!Range(new)
    BY <1>6 DEF Options!Range
  <2> QED BY <2>1, <2>2, <2>3
<1>8. \A l \in DOMAIN <<lab>> : Ky(input.job, <<lab>>[l]) = k0
  BY DEF k0
<1>9. Fitting(options, input.job) \subseteq Fitting(new, input.job)
  BY <1>7 DEF Fitting, Grown
<1>10. \A k \in DOMAIN cache : cache[k] \in Nat /\ Named(new, input.job, cache[k], k)
  BY <1>3, <1>7 DEF RightInv, Grown
<1>11. Walk(input.rows, Fitting(new, input.job), at, got, results)
  BY <1>4, <1>9, WalkGrows
<1>12. foreign = 0 => Walk(input.rows, Caching(cache, input.job), at, got, results)
  BY <1>3, <1>4 DEF OneInv
<1>13. foreign = 0 /\ input.job = "resolve" => \A k \in DOMAIN cache : LastNamed(new, input.job, cache[k], k)
  <2> SUFFICES ASSUME foreign = 0, input.job = "resolve", NEW k \in DOMAIN cache
               PROVE  LastNamed(new, input.job, cache[k], k)
    OBVIOUS
  <2>1. LastNamed(options, input.job, cache[k], k) /\ k # k0
    BY <1>3, <1>5 DEF OneInv
  <2> QED BY <1>7, <1>8, <2>1 DEF Grown
<1>14. /\ \A k \in seen : \E i \in DOMAIN new : Ky(input.job, new[i].label) = k
       /\ \A o \in made : known => Ky(input.job, o.label) \notin seen
  <2>1. ASSUME NEW k \in seen PROVE \E i \in DOMAIN new : Ky(input.job, new[i].label) = k
    <3>1. PICK i \in DOMAIN options : Ky(input.job, options[i].label) = k
      BY <1>3 DEF SeenInv
    <3>2. Named(options, input.job, options[i].id, k)
      BY <3>1 DEF Named
    <3>3. Named(new, input.job, options[i].id, k)
      BY <1>7, <3>2 DEF Grown
    <3> QED BY <3>3 DEF Named
  <2>2. ASSUME NEW o \in made, known PROVE Ky(input.job, o.label) \notin seen
    <3>1. CASE o \in created
      BY <1>3, <2>2, <3>1 DEF SeenInv
    <3>2. CASE o \notin created
      <4>1. o = [id |-> n, label |-> lab]
        BY <1>7, <3>2
      <4>2. o.label = lab
        BY ONLY <4>1
      <4> QED BY <1>3, <1>5, <4>2 DEF SeenInv, k0
    <3> QED BY <3>1, <3>2
  <2> QED BY <2>1, <2>2
<1>15. \A k \in DOMAIN cache : k \in DOMAIN cache' /\ cache'[k] = cache[k]
  <2>1. CASE cache' = cache
    BY <2>1
  <2>2. CASE cache' = [k \in DOMAIN cache \cup {k0} |-> IF k \in DOMAIN cache THEN cache[k] ELSE Options!NextId]
    BY <1>5, <2>2
  <2> QED BY <1>1, <1>5, <2>1, <2>2
<1>16. ASSUME fault' = 0, NEW o \in made, NEW p \in made, Ky(input.job, o.label) = Ky(input.job, p.label)
       PROVE  o = p
  <2>1. fault = 0
    BY <1>1, <1>3, <1>16 DEF OptionTypes
  <2>2. (\A x, y \in created : Ky(input.job, x.label) = Ky(input.job, y.label) => x = y)
        /\ \A x \in created : Ky(input.job, x.label) \in DOMAIN cache
    BY <1>2, <1>3, <1>4, <2>1 DEF OnceInv
  <2>3. ASSUME NEW x \in made \ created PROVE x.label = lab /\ Ky(input.job, x.label) = k0
    <3>1. x = [id |-> n, label |-> lab]
      BY <1>7
    <3>2. x.label = lab
      BY ONLY <3>1
    <3> QED BY <3>2 DEF k0
  <2>4. CASE o \in created /\ p \in created
    BY <1>16, <2>2, <2>4
  <2>5. CASE o \notin created /\ p \notin created
    BY <1>7, <2>5
  <2>6. CASE o \in created <=> p \notin created
    BY <1>5, <1>16, <2>2, <2>3, <2>6
  <2> QED BY <2>4, <2>5, <2>6
<1>17. CASE input.job = "resolve" /\ answer \in {"id", "id_"}
            /\ pc' = "refresh" /\ UNCHANGED <<cache, at, got, results>>
  <2>1. OptionTypes'
    BY <1>1, <1>2, <1>3, <1>6, <1>7, <1>17 DEF OptionTypes, Grown, Options!Range
  <2>2. RightInv' /\ SeenInv' /\ OneInv'
    BY <1>2, <1>3, <1>6, <1>10, <1>11, <1>12, <1>13, <1>14, <1>17 DEF RightInv, SeenInv, OneInv
  <2>3. OnceInv' /\ PostsInv'
    BY <1>2, <1>4, <1>6, <1>16, <1>17 DEF OnceInv, PostsInv
  <2> QED BY <2>1, <2>2, <2>3 DEF OptionInv
<1>18. CASE answer = "lost" \/ (input.job = "labels" /\ answer # "id")
  <2>1. pc' = "aborted" /\ UNCHANGED <<cache, at, got, results>>
    BY <1>1, <1>18
  <2>2. fault' \in Nat
    BY <1>1, <1>3 DEF OptionTypes
  <2>3. OptionTypes'
    BY <1>2, <1>3, <1>4, <1>6, <1>7, <2>1, <2>2 DEF OptionTypes, Grown, Options!Range
  <2>4. RightInv' /\ SeenInv' /\ OneInv'
    BY <1>2, <1>3, <1>6, <1>10, <1>11, <1>12, <1>13, <1>14, <2>1 DEF RightInv, SeenInv, OneInv
  <2>5. OnceInv' /\ PostsInv'
    BY <1>2, <1>4, <1>6, <1>16, <2>1 DEF OnceInv, PostsInv
  <2> QED BY <2>3, <2>4, <2>5 DEF OptionInv
<1>19. CASE input.job = "resolve" /\ answer = "http"
  <2>1. Options!FailRow /\ pc' = pc /\ cache' = cache /\ fault' = fault + 1
    BY <1>1, <1>19
  <2>2. results' = Append(results, Options!Failed) /\ at' = at + 1 /\ got' = <<>>
    BY <2>1 DEF Options!FailRow
  <2>3. Walk(input.rows, Fitting(new, input.job), at + 1, <<>>, Append(results, Options!Failed))
    BY <1>2, <1>4, <1>11, WalkFails
  <2>4. foreign = 0 => Walk(input.rows, Caching(cache, input.job), at + 1, <<>>, Append(results, Options!Failed))
    BY <1>2, <1>4, <1>12, WalkFails
  <2>5. fault' \in Nat /\ fault' # 0
    BY <1>3, <2>1 DEF OptionTypes
  <2>6. OptionTypes'
    BY <1>2, <1>3, <1>6, <1>7, <2>1, <2>5 DEF OptionTypes, Grown, Options!Range
  <2>7. RightInv' /\ SeenInv' /\ OneInv'
    BY <1>2, <1>3, <1>6, <1>10, <1>13, <1>14, <2>1, <2>2, <2>3, <2>4 DEF RightInv, SeenInv, OneInv
  <2>8. OnceInv' /\ PostsInv'
    BY <1>2, <1>4, <2>5 DEF OnceInv, PostsInv
  <2> QED BY <2>6, <2>7, <2>8 DEF OptionInv
<1>20. CASE input.job = "labels" /\ answer = "id"
  <2>1. /\ cache' = [k \in DOMAIN cache \cup {k0} |-> IF k \in DOMAIN cache THEN cache[k] ELSE Options!NextId] /\ Options!Take(Options!NextId) /\ pc' = pc
        /\ fault' = fault /\ saved
    BY <1>1, <1>5, <1>20
  <2>2. Options!NextId = n /\ n \in Nat
    BY <1>3 DEF Options!NextId, OptionTypes, Numbered
  <2>3. PICK c, a2, g2, res2 : c = cache' /\ a2 = at' /\ g2 = got' /\ res2 = results'
    OBVIOUS
  <2>4. /\ DOMAIN c = DOMAIN cache \cup {k0} /\ c[k0] = n
        /\ \A k \in DOMAIN cache : c[k] = cache[k]
    BY <1>5, <1>15, <2>1, <2>2, <2>3
  <2>5. Named(new, input.job, n, k0)
    <3>1. PICK j \in DOMAIN new : new[j] = [id |-> n, label |-> lab]
      BY <1>7, <2>1
    <3>2. new[j].id = n /\ new[j].label = lab
      BY ONLY <3>1
    <3> QED BY <3>2 DEF Named, k0
  <2>6. n \in Id /\ <<n, lab>> \in Fitting(new, input.job) /\ <<n, lab>> \in Caching(c, input.job)
    BY <1>4, <1>5, <2>2, <2>4, <2>5 DEF Fitting, Caching, Id, k0
  <2>7. IF Len(Append(got, n)) = Len(input.rows[at])
        THEN res2 = Append(results, Append(got, n)) /\ a2 = at + 1 /\ g2 = <<>>
        ELSE g2 = Append(got, n) /\ a2 = at /\ res2 = results
    BY <2>1, <2>2, <2>3 DEF Options!Take
  <2> HIDE DEF n
  <2>8. Walk(input.rows, Fitting(new, input.job), a2, g2, res2)
    BY <1>2, <1>4, <1>11, <2>6, <2>7, WalkTakes
  <2>9. foreign = 0 => Walk(input.rows, Caching(c, input.job), a2, g2, res2)
    <3> SUFFICES ASSUME foreign = 0 PROVE Walk(input.rows, Caching(c, input.job), a2, g2, res2)
      OBVIOUS
    <3>1. Caching(cache, input.job) \subseteq Caching(c, input.job)
      BY <2>4 DEF Caching
    <3>2. Walk(input.rows, Caching(c, input.job), at, got, results)
      BY <1>12, <3>1, WalkGrows
    <3> QED BY <1>2, <1>4, <2>6, <2>7, <3>2, WalkTakes
  <2>10. OptionTypes'
    BY <1>2, <1>3, <1>6, <1>7, <2>1 DEF OptionTypes, Grown, Options!Range
  <2>11. \A k \in DOMAIN c : c[k] \in Nat /\ Named(new, input.job, c[k], k)
    BY <1>10, <2>2, <2>4, <2>5
  <2>12. RightInv'
    BY <1>2, <1>6, <2>3, <2>8, <2>11 DEF RightInv
  <2>13. SeenInv' /\ OneInv'
    BY <1>2, <1>3, <1>6, <1>14, <1>20, <2>3, <2>4, <2>9 DEF SeenInv, OneInv
  <2>14. OnceInv'
    <3>1. ASSUME fault' = 0, NEW o \in made PROVE Ky(input.job, o.label) \in DOMAIN c
      <4>1. CASE o \in created
        BY <1>2, <1>3, <1>4, <2>1, <2>4, <3>1, <4>1 DEF OnceInv
      <4>2. CASE o \notin created
        <5>1. o = [id |-> Len(options) + 1, label |-> lab]
          BY <1>7, <4>2 DEF n
        <5>2. o.label = lab
          BY ONLY <5>1
        <5> QED BY <2>4, <5>2 DEF k0
      <4> QED BY <4>1, <4>2
    <3> QED BY <1>2, <1>6, <1>16, <2>3, <3>1 DEF OnceInv
  <2>15. PostsInv'
    BY <1>2, <1>4 DEF PostsInv
  <2> QED BY <2>10, <2>12, <2>13, <2>14, <2>15 DEF OptionInv
<1> QED BY <1>1, <1>4, <1>17, <1>18, <1>19, <1>20

\* A key has one last option.
LEMMA LastIsOne ==
  ASSUME NEW opts, opts \in Seq(Opt), NEW job, NEW k, NEW a, LastNamed(opts, job, a, k),
         NEW b, LastNamed(opts, job, b, k)
  PROVE  a = b
<1>1. PICK i \in DOMAIN opts : /\ opts[i].id = a /\ Ky(job, opts[i].label) = k
                               /\ \A j \in DOMAIN opts : i < j => Ky(job, opts[j].label) # k
  BY DEF LastNamed
<1>2. PICK j \in DOMAIN opts : /\ opts[j].id = b /\ Ky(job, opts[j].label) = k
                               /\ \A h \in DOMAIN opts : j < h => Ky(job, opts[h].label) # k
  BY DEF LastNamed
<1>3. i \in Nat /\ j \in Nat /\ ~(i < j) /\ ~(j < i)
  BY <1>1, <1>2
<1>4. i = j
  BY <1>3
<1> QED BY <1>1, <1>2, <1>4

\* After a creation the options are read again.
LEMMA OptionsRefresh == OptionInv /\ Options!Refresh => OptionInv'
<1> SUFFICES ASSUME OptionInv, Options!Refresh PROVE OptionInv'
  OBVIOUS
<1> DEFINE lab == Options!Label
           k0 == Ky(input.job, lab)
<1>1. /\ pc = "refresh"
      /\ \/ /\ pc' = "row" /\ cache' = Options!Ids
            /\ IF Options!Key(lab) \in DOMAIN cache'
               THEN Options!Take(cache'[Options!Key(lab)]) ELSE Options!FailRow
            /\ UNCHANGED fault
         \/ /\ fault' = fault + 1 /\ pc' = "aborted" /\ UNCHANGED <<cache, at, got, results>>
      /\ UNCHANGED <<input, exists, options, created, foreign, known, seen, ops>>
  BY DEF Options!Refresh, Options!store
<1>2. /\ OptionTypes /\ RightInv /\ SeenInv /\ OneInv /\ OnceInv /\ PostsInv
      /\ at <= Len(input.rows) /\ input.job = "resolve" /\ Numbered(options) /\ options \in Seq(Opt)
  BY <1>1 DEF OptionInv, OptionTypes, Numbered
<1>3. /\ Walk(input.rows, Fitting(options, input.job), at, got, results)
      /\ input.rows \in Seq(Seq(Spelling)) /\ \A r \in DOMAIN input.rows : input.rows[r] # <<>>
      /\ lab \in Spelling /\ lab = input.rows[at][Len(got) + 1]
  BY <1>1, <1>2, NextLabel
<1>4. Options!Key(lab) = k0
  BY KeyIs
<1> HIDE DEF lab, k0
<1>5. CASE fault' = fault + 1 /\ pc' = "aborted" /\ UNCHANGED <<cache, at, got, results>>
  <2>1. fault' \in Nat /\ fault' # 0
    BY <1>2, <1>5 DEF OptionTypes
  <2>2. OptionTypes'
    BY <1>1, <1>2, <1>5, <2>1 DEF OptionTypes, Options!Range
  <2>3. RightInv' /\ SeenInv' /\ OneInv'
    BY <1>1, <1>2, <1>5 DEF RightInv, SeenInv, OneInv
  <2>4. OnceInv' /\ PostsInv'
    BY <1>1, <1>2, <2>1 DEF OnceInv, PostsInv
  <2> QED BY <2>2, <2>3, <2>4 DEF OptionInv
<1>6. CASE pc' = "row" /\ cache' = Options!Ids
            /\ (IF Options!Key(lab) \in DOMAIN cache'
                THEN Options!Take(cache'[Options!Key(lab)]) ELSE Options!FailRow)
            /\ UNCHANGED fault
  <2>1. PICK c, a2, g2, res2 : c = cache' /\ a2 = at' /\ g2 = got' /\ res2 = results'
    OBVIOUS
  <2>2. /\ \A k : k \in DOMAIN c <=> \E i \in DOMAIN options : Ky(input.job, options[i].label) = k
        /\ \A k \in DOMAIN c : LastNamed(options, input.job, c[k], k)
    BY <1>2, <1>6, <2>1, IdsAreLast
  <2>3. \A k \in DOMAIN c : c[k] \in Nat /\ Named(options, input.job, c[k], k)
    <3>1. \A i \in DOMAIN options : options[i].id \in Nat
      BY <1>2 DEF Numbered
    <3> QED BY <2>2, <3>1 DEF LastNamed, Named
  <2>4. foreign = 0 => Walk(input.rows, Caching(c, input.job), at, got, results)
    <3> SUFFICES ASSUME foreign = 0 PROVE Walk(input.rows, Caching(c, input.job), at, got, results)
      OBVIOUS
    <3>1. Walk(input.rows, Caching(cache, input.job), at, got, results)
          /\ \A k \in DOMAIN cache : LastNamed(options, input.job, cache[k], k)
      BY <1>2 DEF OneInv
    <3>2. ASSUME NEW k \in DOMAIN cache PROVE k \in DOMAIN c /\ c[k] = cache[k]
      <4>1. LastNamed(options, input.job, cache[k], k)
        BY <3>1
      <4>2. k \in DOMAIN c
        BY <2>2, <4>1 DEF LastNamed
      <4>3. LastNamed(options, input.job, c[k], k)
        BY <2>2, <4>2
      <4> QED BY <1>2, <4>1, <4>2, <4>3, LastIsOne
    <3>3. Caching(cache, input.job) \subseteq Caching(c, input.job)
      BY <3>2 DEF Caching
    <3> QED BY <3>1, <3>3, WalkGrows
  <2>5. Walk(input.rows, Fitting(options, input.job), a2, g2, res2)
        /\ (foreign = 0 => Walk(input.rows, Caching(c, input.job), a2, g2, res2))
    <3>1. CASE k0 \in DOMAIN c
      <4> DEFINE id == c[k0]
      <4>1. IF Len(Append(got, id)) = Len(input.rows[at])
            THEN res2 = Append(results, Append(got, id)) /\ a2 = at + 1 /\ g2 = <<>>
            ELSE g2 = Append(got, id) /\ a2 = at /\ res2 = results
        BY <1>4, <1>6, <2>1, <3>1 DEF Options!Take
      <4>2. id \in Id /\ <<id, lab>> \in Fitting(options, input.job) /\ <<id, lab>> \in Caching(c, input.job)
        BY <1>2, <1>3, <2>3, <3>1 DEF Fitting, Caching, Id, k0
      <4> HIDE DEF id
      <4>3. Walk(input.rows, Fitting(options, input.job), a2, g2, res2)
        BY <1>2, <1>3, <4>1, <4>2, WalkTakes
      <4>4. ASSUME foreign = 0 PROVE Walk(input.rows, Caching(c, input.job), a2, g2, res2)
        <5>1. Walk(input.rows, Caching(c, input.job), at, got, results)
          BY <2>4, <4>4
        <5> QED BY <1>2, <1>3, <4>1, <4>2, <5>1, WalkTakes
      <4> QED BY <4>3, <4>4
    <3>2. CASE k0 \notin DOMAIN c
      <4>1. res2 = Append(results, Options!Failed) /\ a2 = at + 1 /\ g2 = <<>>
        BY <1>4, <1>6, <2>1, <3>2 DEF Options!FailRow
      <4>2. Walk(input.rows, Fitting(options, input.job), at + 1, <<>>, Append(results, Options!Failed))
        BY <1>2, <1>3, WalkFails
      <4>3. foreign = 0 => Walk(input.rows, Caching(c, input.job), at + 1, <<>>, Append(results, Options!Failed))
        BY <1>2, <1>3, <2>4, WalkFails
      <4> QED BY <4>1, <4>2, <4>3
    <3> QED BY <3>1, <3>2
  <2>6. OptionTypes'
    BY <1>1, <1>2, <1>6 DEF OptionTypes, Options!Range
  <2>7. RightInv' /\ SeenInv' /\ OneInv'
    BY <1>1, <1>2, <2>1, <2>2, <2>3, <2>5 DEF RightInv, SeenInv, OneInv
  <2>8. OnceInv'
    <3>1. \A o \in created : Ky(input.job, o.label) \in DOMAIN c
      BY <1>2, <2>2 DEF OptionTypes, Options!Range
    <3> QED BY <1>1, <1>2, <1>6, <2>1, <3>1 DEF OnceInv
  <2>9. PostsInv'
    BY <1>1, <1>2 DEF PostsInv
  <2> QED BY <2>6, <2>7, <2>8, <2>9 DEF OptionInv
<1> QED BY <1>1, <1>5, <1>6

\* Whatever becomes of a request of an attribute, its labels are options or
\* its rows have failed.
LEMMA OptionsSend == OptionInv /\ Options!Send => OptionInv'
<1> SUFFICES ASSUME OptionInv, Options!Send PROVE OptionInv'
  OBVIOUS
<1>1. PICK op \in ops, saved \in BOOLEAN, told \in BOOLEAN :
        /\ ops' = ops \ {op}
        /\ fault' = IF (saved /\ told) \/ (op[2] = 0 /\ exists) THEN fault ELSE fault + 1
        /\ Options!Saves(IF op[2] = 0 THEN input.rows[op[1]] ELSE <<input.rows[op[1]][op[2]]>>, saved)
        /\ exists' = (exists \/ saved)
        /\ results' = IF saved /\ told THEN results ELSE [r \in DOMAIN results |-> Options!Failed]
  BY DEF Options!Send
<1>2. pc = "send" /\ UNCHANGED <<input, foreign, pc, known, cache, seen, at, got>>
  BY DEF Options!Send
<1>3. /\ OptionTypes /\ RightInv /\ SeenInv /\ PostsInv /\ input.job = "attribute"
      /\ input \in OptionInputs /\ input.rows \in Seq(Seq(Spelling))
      /\ \A r \in DOMAIN input.rows : input.rows[r] \in Seq(Spelling)
  BY <1>2, OptionRows DEF OptionInv, OptionTypes
<1> DEFINE labels == IF op[2] = 0 THEN input.rows[op[1]] ELSE <<input.rows[op[1]][op[2]]>>
           K(l) == Ky(input.job, l)
<1>4. /\ op[1] \in DOMAIN input.rows /\ op[2] \in {0} \cup DOMAIN input.rows[op[1]]
      /\ known => op[2] # 0 /\ K(input.rows[op[1]][op[2]]) \notin seen
      /\ input.rows[op[1]] \in Seq(Spelling)
  BY <1>2, <1>3 DEF PostsInv
<1>5. /\ labels \in Seq(Spelling)
      /\ op[2] # 0 => (DOMAIN labels) = {1} /\ labels[1] = input.rows[op[1]][op[2]]
      /\ op[2] = 0 => labels = input.rows[op[1]]
  <2>1. CASE op[2] = 0
    BY <1>4, <2>1
  <2>2. CASE op[2] # 0
    <3> DEFINE l == input.rows[op[1]][op[2]]
    <3>1. l \in Spelling
      BY <1>4, <2>2
    <3> HIDE DEF l
    <3>2. (<<l>> \in Seq(Spelling)) /\ (DOMAIN <<l>>) = {1} /\ <<l>>[1] = l
      BY <3>1
    <3>3. labels = <<l>>
      BY <2>2 DEF l
    <3> QED BY <2>2, <3>2, <3>3 DEF l
  <2> QED BY <2>1, <2>2
<1>6. PICK new, made, res2, ops2 : new = options' /\ made = created' /\ res2 = results' /\ ops2 = ops'
  OBVIOUS
<1>7. Options!Saves(labels, saved)
  BY <1>1
<1> HIDE DEF labels
<1>8. /\ Grown(options, new, labels)
      /\ created \subseteq made /\ made \subseteq Options!Range(new)
      /\ \A o \in made \ created : \E l \in DOMAIN labels : o = [id |-> Len(options) + l, label |-> labels[l]]
      /\ saved => \A l \in DOMAIN labels : \E j \in DOMAIN new :
           new[j] = [id |-> Len(options) + l, label |-> labels[l]]
  <2>1. Numbered(options) /\ created \subseteq Options!Range(options)
    BY <1>3 DEF OptionTypes
  <2>2. Options!Range(options)' = Options!Range(new)
    BY <1>6 DEF Options!Range
  <2> QED BY <1>5, <1>6, <1>7, <2>1, <2>2, SavesAdds
<1>9. OptionTypes'
  <2>1. fault' \in Nat /\ exists' \in BOOLEAN
    BY <1>1, <1>3 DEF OptionTypes
  <2>2. Options!Range(options)' = Options!Range(new) /\ Numbered(new)
    BY <1>6, <1>8 DEF Options!Range, Grown
  <2> QED BY <1>2, <1>3, <1>6, <1>8, <2>1, <2>2 DEF OptionTypes
<1>10. RightInv'
  <2>1. \A k \in DOMAIN cache : cache[k] \in Nat /\ Named(new, input.job, cache[k], k)
    BY <1>3, <1>8 DEF RightInv, Grown
  <2> QED BY <1>2, <1>3, <1>6, <2>1 DEF RightInv
<1>11. \A k : (\E i \in DOMAIN options : K(options[i].label) = k) => \E j \in DOMAIN new : K(new[j].label) = k
  <2> SUFFICES ASSUME NEW k, NEW i \in DOMAIN options, K(options[i].label) = k
               PROVE  \E j \in DOMAIN new : K(new[j].label) = k
    OBVIOUS
  <2>1. Named(options, input.job, options[i].id, k)
    BY DEF Named
  <2>2. Named(new, input.job, options[i].id, k)
    BY <1>8, <2>1 DEF Grown
  <2> QED BY <2>2 DEF Named
<1>12. SeenInv'
  <2>1. \A k \in seen : \E i \in DOMAIN new : K(new[i].label) = k
    BY <1>3, <1>11 DEF SeenInv
  <2>2. ASSUME NEW o \in made, known PROVE K(o.label) \notin seen
    <3>1. CASE o \in created
      BY <1>3, <2>2, <3>1 DEF SeenInv
    <3>2. CASE o \notin created
      <4>1. PICK l \in DOMAIN labels : o = [id |-> Len(options) + l, label |-> labels[l]]
        BY <1>8, <3>2
      <4>2. o.label = labels[l]
        BY ONLY <4>1
      <4> QED BY <1>4, <1>5, <2>2, <4>2
    <3> QED BY <3>1, <3>2
  <2> QED BY <1>2, <1>3, <1>6, <2>1, <2>2 DEF SeenInv
<1>13. OneInv' /\ OnceInv'
  BY <1>2, <1>3 DEF OneInv, OnceInv
<1>14. PostsInv'
  <2>1. /\ DOMAIN results = DOMAIN input.rows
        /\ DOMAIN res2 = DOMAIN input.rows
        /\ \A r \in DOMAIN res2 : res2[r] # Options!Failed => saved /\ told /\ res2[r] = results[r]
        /\ ops2 = ops \ {op}
    BY <1>1, <1>2, <1>3, <1>6 DEF PostsInv
  <2>2. \A o \in ops2 : o[1] \in DOMAIN input.rows /\ o[2] \in {0} \cup DOMAIN input.rows[o[1]]
    BY <1>2, <1>3, <2>1 DEF PostsInv
  <2>3. known => \A o \in ops2 : o[2] # 0 /\ K(input.rows[o[1]][o[2]]) \notin seen
    BY <1>2, <1>3, <2>1 DEF PostsInv
  <2>4. ASSUME NEW r \in DOMAIN res2, res2[r] # Options!Failed, NEW i \in DOMAIN input.rows[r]
        PROVE  \/ \E j \in DOMAIN new : K(new[j].label) = K(input.rows[r][i])
               \/ <<r, 0>> \in ops2 \/ <<r, i>> \in ops2
    <3>0. i # 0 /\ r \in DOMAIN results /\ results[r] # Options!Failed /\ saved
      <4>1. input.rows[r] \in Seq(Spelling)
        BY <1>3, <2>1
      <4>2. i # 0
        BY <4>1
      <4> QED BY <2>1, <2>4, <4>2
    <3>1. \/ \E j \in DOMAIN options : K(options[j].label) = K(input.rows[r][i])
          \/ <<r, 0>> \in ops \/ <<r, i>> \in ops
      BY <1>2, <1>3, <3>0 DEF PostsInv
    <3>2. ASSUME op = <<r, 0>> \/ op = <<r, i>>
          PROVE  \E j \in DOMAIN new : K(new[j].label) = K(input.rows[r][i])
      <4>1. PICK l \in DOMAIN labels : labels[l] = input.rows[r][i]
        BY <1>5, <3>0, <3>2
      <4>2. PICK j \in DOMAIN new : new[j] = [id |-> Len(options) + l, label |-> labels[l]]
        BY <1>8, <3>0, <4>1
      <4>3. new[j].label = labels[l]
        BY ONLY <4>2
      <4> QED BY <4>1, <4>3
    <3> QED BY <1>11, <2>1, <3>1, <3>2
  <2> QED BY <1>2, <1>3, <1>6, <2>1, <2>2, <2>3, <2>4 DEF PostsInv
<1> QED BY <1>9, <1>10, <1>12, <1>13, <1>14 DEF OptionInv

\* At the end everything is posted.
LEMMA OptionsReturn == OptionInv /\ Options!Return => OptionInv'
<1> SUFFICES ASSUME OptionInv, Options!Return PROVE OptionInv'
  OBVIOUS
<1>1. /\ pc' = "done"
      /\ UNCHANGED <<input, exists, options, created, foreign, fault, known, cache, seen, at, got, results, ops>>
  BY DEF Options!Return, Options!store
<1>2. pc' = "done" /\ (pc = "row" \/ (pc = "send" /\ ops = {}))
  BY DEF Options!Return
<1>3. OptionTypes /\ RightInv /\ SeenInv /\ OneInv /\ OnceInv /\ PostsInv
  BY DEF OptionInv
<1>4. OptionTypes'
  BY <1>1, <1>2, <1>3 DEF OptionTypes, Options!Range
<1>5. RightInv' /\ SeenInv' /\ OneInv'
  BY <1>1, <1>3 DEF RightInv, SeenInv, OneInv
<1>6. OnceInv' /\ PostsInv'
  BY <1>1, <1>2, <1>3 DEF OnceInv, PostsInv, OptionTypes
<1> QED BY <1>4, <1>5, <1>6 DEF OptionInv

\* Steps of the other imports.
LEMMA OptionsUnchanged ==
  OptionInv /\ UNCHANGED <<input, exists, options, foreign, fault, created, pc, known, cache, seen, at, got, results, ops>>
    => OptionInv'
BY DEF OptionInv, OptionTypes, RightInv, SeenInv, OneInv, OnceInv, PostsInv, Options!Range

\* What the invariant says of the results.
LEMMA ResultOf ==
  ASSUME NEW rws, rws \in Seq(Seq(Spelling)), NEW ok, NEW a, NEW g, NEW res, Walk(rws, ok, a, g, res),
         NEW r \in DOMAIN res, res[r] # Options!Failed
  PROVE  /\ DOMAIN res[r] = DOMAIN rws[r]
         /\ \A i \in DOMAIN res[r] : <<res[r][i], rws[r][i]>> \in ok /\ rws[r][i] \in Spelling
<1>1. /\ a \in Nat /\ 1 <= a /\ a <= Len(rws) + 1 /\ Len(res) = a - 1
      /\ res \in Seq(Seq(Id)) /\ Len(rws) \in Nat
      /\ Len(res[r]) = Len(rws[r]) /\ \A i \in DOMAIN res[r] : <<res[r][i], rws[r][i]>> \in ok
  BY DEF Walk
<1>2. r \in DOMAIN rws
  <2>1. DOMAIN res = 1 .. Len(res) /\ DOMAIN rws = 1 .. Len(rws)
    BY <1>1
  <2> QED BY <1>1, <2>1
<1>3. res[r] \in Seq(Id) /\ rws[r] \in Seq(Spelling)
  BY <1>1, <1>2
<1> QED BY <1>1, <1>3

\* There are as many ids as options.
LEMMA AsManyIds ==
  ASSUME Numbered(options)
  PROVE  Options!Cardinality({o.id : o \in Options!Range(options)}) = Len(options)
<1> DEFINE n == Len(options)
           T == {o.id : o \in Options!Range(options)}
           f == [i \in 1 .. n |-> options[i].id]
<1>1. n \in Nat /\ DOMAIN options = 1 .. n
      /\ \A i, j \in 1 .. n : options[i].id = options[j].id => i = j
  BY DEF Numbered
<1>2. T = {options[i].id : i \in 1 .. n}
  BY <1>1 DEF Options!Range
<1>3. f \in Bijection(1 .. n, T)
  <2>1. f \in [1 .. n -> T] /\ \A i \in 1 .. n : f[i] = options[i].id
    BY <1>2
  <2>2. \A t \in T : \E i \in 1 .. n : f[i] = t
    BY <1>2, <2>1
  <2> HIDE DEF f, T
  <2>3. IsInjective(f)
    BY <1>1, <2>1 DEF IsInjective
  <2> QED BY <2>1, <2>2, <2>3 DEF Bijection, Injection, Surjection
<1>4. IsFiniteSet(1 .. n) /\ Cardinality(1 .. n) = n
  <2>1. Cardinality(1 .. n) = IF 1 > n THEN 0 ELSE n - 1 + 1
    BY <1>1, FS_Interval
  <2> QED BY <1>1, <2>1, FS_Interval
<1> HIDE DEF T, n, f
<1>5. Cardinality(T) = n
  BY <1>3, <1>4, FS_Bijection DEF ExistsBijection
<1>6. Options!Cardinality(T) = Cardinality(T)
  BY DEF Options!Cardinality, Cardinality, Options!IsFiniteSet, IsFiniteSet
<1> QED BY <1>5, <1>6 DEF T, n

\* The invariant implies what the runs check.
LEMMA OptionsSays ==
  OptionInv => /\ Options!TypeOK /\ Options!IdOfItsLabel /\ Options!OneIdPerLabel
               /\ Options!CreatedOnce /\ Options!NamedOptionsExist
<1> SUFFICES ASSUME OptionInv
             PROVE  /\ Options!TypeOK /\ Options!IdOfItsLabel /\ Options!OneIdPerLabel
                    /\ Options!CreatedOnce /\ Options!NamedOptionsExist
  OBVIOUS
<1>1. /\ OptionTypes /\ RightInv /\ SeenInv /\ OneInv /\ OnceInv /\ PostsInv
      /\ Numbered(options) /\ input.rows \in Seq(Seq(Spelling))
  BY OptionRows DEF OptionInv, OptionTypes
<1>2. Options!TypeOK
  <2>1. pc = "row" /\ at <= Len(input.rows) => Len(got) < Len(input.rows[at])
    BY <1>1 DEF OptionTypes, RightInv, Walk
  <2> QED BY <1>1, <2>1, AsManyIds DEF OptionTypes, Options!TypeOK
<1>3. Options!IdOfItsLabel
  <2> SUFFICES ASSUME input.job # "attribute", NEW r \in DOMAIN results, results[r] # Options!Failed,
                      NEW i \in DOMAIN results[r]
               PROVE  \/ results[r][i] = None /\ input.rows[r][i] = Blank
                      \/ /\ results[r][i] \in {o.id : o \in Options!Range(options)}
                         /\ Options!Same(Options!LabelOf(results[r][i]), input.rows[r][i])
    BY DEF Options!IdOfItsLabel
  <2> DEFINE id == results[r][i]
             l == input.rows[r][i]
  <2>1. <<id, l>> \in Fitting(options, input.job)
    BY <1>1, ResultOf DEF RightInv
  <2> HIDE DEF id, l
  <2>2. CASE input.job = "labels" /\ l = Blank
    <3>1. id = None
      BY <2>1, <2>2 DEF Fitting
    <3> QED BY <2>2, <3>1 DEF id, l
  <2>3. CASE ~(input.job = "labels" /\ l = Blank)
    <3>1. Named(options, input.job, id, Ky(input.job, l))
      BY <2>1, <2>3 DEF Fitting
    <3>2. PICK j \in DOMAIN options : options[j].id = id /\ Ky(input.job, options[j].label) = Ky(input.job, l)
      BY <3>1 DEF Named
    <3>3. options[j] \in Options!Range(options)
          /\ \A o \in Options!Range(options) : o.id = id => o = options[j]
      BY <1>1, <3>2 DEF Options!Range, Numbered
    <3>4. Options!LabelOf(id) = options[j].label
      BY <3>2, <3>3 DEF Options!LabelOf
    <3>5. Options!Same(Options!LabelOf(id), l)
      BY <3>2, <3>4, KeyIs
    <3>6. id \in {o.id : o \in Options!Range(options)}
      BY <3>2, <3>3
    <3> QED BY <3>5, <3>6 DEF id, l
  <2> QED BY <2>2, <2>3
<1>4. Options!OneIdPerLabel
  <2> SUFFICES ASSUME input.job # "attribute", foreign = 0,
                      NEW r \in DOMAIN results, NEW q \in DOMAIN results,
                      results[r] # Options!Failed, results[q] # Options!Failed,
                      NEW i \in DOMAIN results[r], NEW j \in DOMAIN results[q],
                      Options!Same(input.rows[r][i], input.rows[q][j])
               PROVE  results[r][i] = results[q][j]
    BY DEF Options!OneIdPerLabel
  <2> DEFINE x == results[r][i]
             y == results[q][j]
             l == input.rows[r][i]
             m == input.rows[q][j]
  <2>1. Walk(input.rows, Caching(cache, input.job), at, got, results)
    BY <1>1 DEF OneInv
  <2>2. <<x, l>> \in Caching(cache, input.job) /\ l \in Spelling
    BY <1>1, <2>1, ResultOf
  <2>3. <<y, m>> \in Caching(cache, input.job) /\ m \in Spelling
    BY <1>1, <2>1, ResultOf
  <2>4. Ky(input.job, l) = Ky(input.job, m)
    BY KeyIs
  <2> HIDE DEF x, y, l, m
  <2>5. input.job = "labels" => (l = Blank <=> m = Blank)
    BY <2>2, <2>3, <2>4, OptionConstants DEF Ky
  <2>6. x = y
    BY <2>2, <2>3, <2>4, <2>5 DEF Caching
  <2> QED BY <2>6 DEF x, y
<1>5. Options!CreatedOnce
  <2>1. \A o \in created : known => Options!Key(o.label) \notin seen
    BY <1>1, KeyIs DEF SeenInv
  <2>2. input.job # "attribute" /\ fault = 0 =>
          \A o, p \in created : Options!Same(o.label, p.label) => o = p
    BY <1>1, KeyIs DEF OnceInv
  <2> QED BY <2>1, <2>2 DEF Options!CreatedOnce
<1>6. Options!NamedOptionsExist
  <2> SUFFICES ASSUME input.job = "attribute", pc = "done", NEW r \in DOMAIN results,
                      results[r] # Options!Failed, NEW i \in DOMAIN input.rows[r]
               PROVE  \E o \in Options!Range(options) : Options!Same(o.label, input.rows[r][i])
    BY DEF Options!NamedOptionsExist
  <2>1. PICK j \in DOMAIN options : Ky(input.job, options[j].label) = Ky(input.job, input.rows[r][i])
    BY <1>1 DEF PostsInv
  <2> QED BY <2>1, KeyIs DEF Options!Range
<1> QED BY <1>2, <1>3, <1>4, <1>5, <1>6

\* In the run.
LEMMA OptionsInvariance == Spec => [](part = "labels" => OptionInv)
<1>1. Init => (part = "labels" => OptionInv)
  BY OptionsInit DEF Init
<1>2. (part = "labels" => OptionInv) /\ [Next]_vars => (part = "labels" => OptionInv)'
  <2> SUFFICES ASSUME part = "labels" => OptionInv, [Next]_vars, part' = "labels" PROVE OptionInv'
    OBVIOUS
  <2>1. CASE LabelsStep
    <3>1. OptionInv /\ Options!Next
      BY <2>1 DEF LabelsStep
    <3> QED BY <3>1, OptionsForeign, OptionsRead, OptionsHit, OptionsUnknown, OptionsPost,
               OptionsRefresh, OptionsSend, OptionsReturn DEF Options!Next
  <2>2. CASE CategoriesStep \/ SetsStep
    BY <2>2 DEF CategoriesStep, SetsStep
  <2>3. CASE UNCHANGED vars
    BY <2>3, OptionsUnchanged DEF vars, labelled
  <2> QED BY <2>1, <2>2, <2>3 DEF Next
<1> QED BY <1>1, <1>2, PTL DEF Spec

\* A label gets the id of its own option, one id in every spelling, created
\* once, and after import_attributes it is an option.
THEOREM LabelsAreResolved == Spec => []LabelsResolve
<1>1. (part = "labels" => OptionInv) => LabelsResolve
  BY OptionsSays DEF LabelsResolve
<1> QED BY <1>1, OptionsInvariance, PTL

---------------------------------------------------------------------------
(* Categories *)

Node == [id : 1 .. MaxId, parent : Nat, path : Seq(Name)]
CategoryRow == [path : Seq(Name), reserved : BOOLEAN, sort : BOOLEAN]
OneById(S) == \A n, o \in S : n.id = o.id => n = o

\* A category of that path and id.
Is(S, path, id) == \E n \in S : n.path = path /\ n.id = id

TreeTypes ==
  /\ bridge \in BOOLEAN /\ rows \in CategoryInputs
  /\ foreign \in Nat /\ lost \in Nat /\ round \in 1 .. 2 /\ whole \in BOOLEAN
  /\ pc \in {"ensure", "load", "walk", "put", "done"}
  /\ batch \subseteq DOMAIN rows /\ \A i \in batch : ~rows[i].reserved
  /\ verdict \in [DOMAIN rows -> {"todo", "ok", "failed", "sort"}]
  /\ DOMAIN ids \subseteq DOMAIN rows

\* No id is used twice; only others take categories away.
TreeInv ==
  /\ had \subseteq Node /\ OneById(had)
  /\ tree \subseteq seen /\ seen \subseteq had
  /\ foreign = 0 => tree = had

\* What the resolver knows was so in this round.
CacheInv ==
  /\ \A p \in DOMAIN cache : Is(seen, p, cache[p])
  /\ \A i \in DOMAIN ids : Is(seen, rows[i].path, ids[i])

\* A row that failed did so over its path, one that succeeded has its category.
FateInv ==
  /\ Categories!FailsForItsPath
  /\ foreign = 0 => \A i \in DOMAIN rows : verdict[i] = "ok" => \E n \in tree : n.path = rows[i].path

\* Natively the cache, once it was read, has every path of the tree.
CacheWhole == DOMAIN cache # {} \/ pc = "walk" => DOMAIN cache = {n.path : n \in tree}
NativeInv == Categories!CreatesOnlyMissing /\ (~bridge /\ lost = 0 /\ foreign = 0 => CacheWhole)

CategoryInv == TreeTypes /\ TreeInv /\ CacheInv /\ FateInv /\ NativeInv

\* What is assumed of the constants.
LEMMA CategoryConstants ==
  /\ MaxId \in Nat /\ MaxForeign \in Nat /\ MaxLost \in Nat
  /\ CategoryInputs \subseteq Seq(CategoryRow)
  /\ \A t \in Trees : t \subseteq Node /\ OneById(t)
BY StructureAssumption DEF Categories!CategoryAssumption, Categories!Row, Categories!Path, Categories!Category,
   Categories!Distinct, CategoryRow, Node, OneById

LEMMA RowFacts ==
  ASSUME rows \in CategoryInputs
  PROVE  /\ rows \in Seq(CategoryRow) /\ DOMAIN rows = 1 .. Len(rows) /\ Len(rows) \in Nat
         /\ \A i \in DOMAIN rows : rows[i] \in CategoryRow /\ rows[i].path \in Seq(Name)
<1>1. rows \in Seq(CategoryRow)
  BY CategoryConstants
<1>2. \A i \in DOMAIN rows : rows[i] \in CategoryRow
  BY <1>1
<1> QED BY <1>1, <1>2 DEF CategoryRow

\* The beginnings of a path.
LEMMA Beginnings ==
  ASSUME NEW p \in Seq(Name)
  PROVE  /\ Len(p) \in Nat /\ SubSeq(p, 1, 0) = <<>> /\ SubSeq(p, 1, Len(p)) = p
         /\ \A k \in 0 .. Len(p) : SubSeq(p, 1, k) \in Seq(Name) /\ Len(SubSeq(p, 1, k)) = k
         /\ \A k \in 1 .. Len(p) : p[k] \in Name /\ SubSeq(p, 1, k) = Append(SubSeq(p, 1, k - 1), p[k])
         /\ Categories!Prefixes(p) = {SubSeq(p, 1, k) : k \in 0 .. Len(p)}
<1>1. Len(p) \in Nat /\ \A k \in 1 .. Len(p) : p[k] \in Name
  OBVIOUS
<1>2. \A k \in 0 .. Len(p) : /\ SubSeq(p, 1, k) \in Seq(Name) /\ Len(SubSeq(p, 1, k)) = k
                             /\ \A i \in 1 .. k : SubSeq(p, 1, k)[i] = p[i]
  <2> TAKE k \in 0 .. Len(p)
  <2>1. \A i \in 1 .. k : p[i] \in Name
    BY <1>1
  <2>2. /\ SubSeq(p, 1, k) \in Seq(Name) /\ Len(SubSeq(p, 1, k)) = IF 1 <= k THEN k - 1 + 1 ELSE 0
        /\ \A i \in 1 .. (k - 1 + 1) : SubSeq(p, 1, k)[i] = p[1 + i - 1]
    BY <1>1, <2>1, SubSeqProperties
  <2> QED BY <1>1, <2>2
<1>3. SubSeq(p, 1, 0) = <<>>
  BY <1>1, <1>2, EmptySeq
<1>4. SubSeq(p, 1, Len(p)) = p
  BY <1>1, <1>2, SeqEqual
<1>5. ASSUME NEW k \in 1 .. Len(p) PROVE SubSeq(p, 1, k) = Append(SubSeq(p, 1, k - 1), p[k])
  <2> DEFINE u == SubSeq(p, 1, k - 1)
             w == SubSeq(p, 1, k)
  <2>1. k - 1 \in 0 .. Len(p) /\ k \in 0 .. Len(p) /\ p[k] \in Name
    BY <1>1
  <2>2. u \in Seq(Name) /\ Len(u) = k - 1 /\ \A i \in 1 .. (k - 1) : u[i] = p[i]
    BY <1>2, <2>1
  <2>3. w \in Seq(Name) /\ Len(w) = k /\ \A i \in 1 .. k : w[i] = p[i]
    BY <1>2, <2>1
  <2> HIDE DEF u, w
  <2>4. Append(u, p[k]) \in Seq(Name) /\ Len(Append(u, p[k])) = k
        /\ \A i \in 1 .. k : Append(u, p[k])[i] = p[i]
    <3>1. Append(u, p[k]) \in Seq(Name) /\ Len(Append(u, p[k])) = k - 1 + 1
      BY <2>1, <2>2
    <3>2. ASSUME NEW i \in 1 .. k PROVE Append(u, p[k])[i] = p[i]
      <4>1. CASE i = k
        BY <2>2, <4>1
      <4>2. CASE i # k
        <5>1. i \in 1 .. (k - 1) /\ i \in 1 .. Len(u)
          BY <2>1, <2>2, <4>2
        <5>2. Append(u, p[k])[i] = u[i]
          BY <2>2, <5>1
        <5> QED BY <2>2, <5>1, <5>2
      <4> QED BY <4>1, <4>2
    <3> QED BY <3>1, <3>2, <2>1
  <2>5. w = Append(u, p[k])
    BY <2>3, <2>4, SeqEqual
  <2> QED BY <2>5 DEF u, w
<1> QED BY <1>1, <1>2, <1>3, <1>4, <1>5 DEF Categories!Prefixes

LEMMA FirstIs ==
  ASSUME TreeTypes, batch # {}
  PROVE  Categories!First \in batch /\ Categories!First \in DOMAIN rows /\ Categories!Asked = rows[Categories!First].path
         /\ Categories!Asked \in Seq(Name)
<1>1. batch \in SUBSET Nat
  BY RowFacts DEF TreeTypes
<1>2. \E i \in batch : \A j \in batch : i <= j
  BY <1>1, LeastNumber
<1>3. Categories!First \in batch
  BY <1>2 DEF Categories!First
<1> QED BY <1>3, RowFacts DEF TreeTypes, Categories!Asked

LEMMA MissingIs ==
  ASSUME TreeTypes, batch # {}, Categories!Asked \notin DOMAIN cache, Categories!Root \in DOMAIN cache
  PROVE  /\ Categories!Missing \in 1 .. Len(Categories!Asked)
         /\ Categories!UpTo(Categories!Missing) \notin DOMAIN cache
         /\ Categories!UpTo(Categories!Missing - 1) \in DOMAIN cache
<1> DEFINE p == Categories!Asked
           S == {k \in 0 .. Len(p) : SubSeq(p, 1, k) \notin DOMAIN cache}
<1>1. p \in Seq(Name)
  BY FirstIs
<1>2. Len(p) \in Nat /\ SubSeq(p, 1, 0) = <<>> /\ SubSeq(p, 1, Len(p)) = p
  BY <1>1, Beginnings
<1>3. Len(p) \in S
  <2>1. Len(p) \in 0 .. Len(p)
    BY <1>2
  <2>2. SubSeq(p, 1, Len(p)) \notin DOMAIN cache
    BY <1>2, Zenon
  <2> QED BY <2>1, <2>2, Zenon
<1>a. S \in SUBSET Nat /\ S # {}
  BY <1>2, <1>3
<1> HIDE DEF S
<1>4. PICK k \in S : \A j \in S : k <= j
  BY <1>a, LeastNumber
<1> USE DEF S
<1>5. k \in 0 .. Len(p) /\ SubSeq(p, 1, k) \notin DOMAIN cache
      /\ \A j \in 0 .. (k - 1) : SubSeq(p, 1, j) \in DOMAIN cache
  BY <1>2, <1>4
<1>6. /\ Categories!Missing \in 0 .. Len(p)
      /\ SubSeq(p, 1, Categories!Missing) \notin DOMAIN cache
      /\ \A j \in 0 .. (Categories!Missing - 1) : SubSeq(p, 1, j) \in DOMAIN cache
  BY <1>5 DEF Categories!Missing, Categories!UpTo
<1>7. Categories!Missing # 0
  BY <1>2, <1>6 DEF Categories!Root
<1>8. Categories!Missing \in 1 .. Len(p) /\ Categories!Missing - 1 \in 0 .. (Categories!Missing - 1)
  BY <1>2, <1>6, <1>7
<1> QED BY <1>6, <1>8 DEF Categories!UpTo

LEMMA FirstOfIs ==
  ASSUME NEW S \in SUBSET Node, S # {}
  PROVE  Categories!FirstOf(S) \in S
<1> DEFINE parents == {n.parent : n \in S}
           top == {n \in S : \A o \in S : n.parent <= o.parent}
           numbers == {n.id : n \in top}
<1>0. \A n \in S : n.parent \in Nat /\ n.id \in Nat
  BY CategoryConstants DEF Node
<1>1. parents \in SUBSET Nat /\ parents # {}
  BY <1>0
<1>2. PICK m \in parents : \A p \in parents : m <= p
  BY <1>1, LeastNumber
<1>3. top # {}
  <2>1. PICK n \in S : n.parent = m
    BY <1>2
  <2>2. \A o \in S : n.parent <= o.parent
    BY <1>2, <2>1
  <2> QED BY <2>2
<1>4. numbers \in SUBSET Nat /\ numbers # {}
  BY <1>0, <1>3
<1>5. PICK k \in numbers : \A j \in numbers : k <= j
  BY <1>4, LeastNumber
<1>6. \E n \in top : \A o \in top : n.id <= o.id
  BY <1>5
<1>7. Categories!FirstOf(S) = CHOOSE n \in top : \A o \in top : n.id <= o.id
  BY DEF Categories!FirstOf
<1>8. Categories!FirstOf(S) \in top
  BY <1>6, <1>7
<1> QED BY <1>8

LEMMA NewIdIs ==
  ASSUME Categories!Free # {}
  PROVE  Categories!NewId \in 1 .. MaxId /\ \A n \in had : n.id # Categories!NewId
<1>1. Categories!Free \in SUBSET Nat
  BY CategoryConstants DEF Categories!Free
<1>2. \E id \in Categories!Free : \A other \in Categories!Free : id <= other
  BY <1>1, LeastNumber
<1>3. Categories!NewId \in Categories!Free
  BY <1>2 DEF Categories!NewId
<1> QED BY <1>3 DEF Categories!Free

\* The tree grows, and every new category has an id of its own.
TreeGrown ==
  /\ tree \subseteq tree' /\ seen \subseteq seen' /\ tree' \subseteq seen' /\ seen' \subseteq had'
  /\ had' \subseteq Node /\ OneById(had')
  /\ tree = had => tree' = had'

LEMMA AddIs ==
  ASSUME TreeInv, NEW n \in tree, NEW name \in Name, Categories!Add(n, name)
  PROVE  /\ TreeGrown
         /\ \E new \in Node : /\ new.path = Append(n.path, name) /\ new.id = Categories!NewId
                              /\ tree' = tree \cup {new} /\ seen' = seen \cup {new}
<1> DEFINE new == [id |-> Categories!NewId, parent |-> n.id, path |-> Append(n.path, name)]
<1>1. /\ Categories!Free # {}
      /\ tree' = tree \cup {new} /\ had' = had \cup {new} /\ seen' = seen \cup {new}
  BY DEF Categories!Add
<1>2. Categories!NewId \in 1 .. MaxId /\ \A o \in had : o.id # Categories!NewId
  BY <1>1, NewIdIs
<1>3. n \in Node /\ n.id \in Nat /\ n.path \in Seq(Name)
  BY CategoryConstants DEF TreeInv, Node
<1>4. Append(n.path, name) \in Seq(Name)
  BY <1>3
<1>5. new \in Node /\ new.path = Append(n.path, name) /\ new.id = Categories!NewId
  BY <1>2, <1>3, <1>4 DEF Node
<1> HIDE DEF new
<1>6. OneById(had')
  BY <1>1, <1>2, <1>5 DEF TreeInv, OneById
<1>7. TreeGrown
  BY <1>1, <1>5, <1>6 DEF TreeGrown, TreeInv
<1> QED BY <1>1, <1>5, <1>7

LEMMA UpsertIs ==
  ASSUME TreeTypes, TreeInv, batch # {}, Categories!Upsert
  PROVE  TreeGrown /\ \A p \in Categories!Wanted : \E n \in tree' : n.path = p
<1> DEFINE M == Categories!MissingOf(Categories!Wanted)
<1>1. PICK new \in Categories!Numberings(M) : tree' = Categories!Completed(new)
  BY DEF Categories!Upsert
<1> DEFINE IdOf(p) == IF p \in DOMAIN new THEN new[p] ELSE (CHOOSE n \in Categories!At(p) : TRUE).id
           Made(p) == [id |-> new[p], parent |-> IdOf(Categories!Front(p)), path |-> p]
<1>2. had' = had \cup tree' /\ seen' = seen \cup tree' /\ Categories!At(<<>>) # {}
  BY DEF Categories!Upsert, Categories!Root
<1>3. new \in [M -> Categories!Free] /\ DOMAIN new = M /\ \A p, q \in M : new[p] = new[q] => p = q
  BY <1>1 DEF Categories!Numberings
<1>4. tree' = tree \cup {Made(p) : p \in M}
  BY <1>1, <1>3 DEF Categories!Completed
<1>5. Categories!Call \subseteq DOMAIN rows
  BY FirstIs DEF Categories!Call, TreeTypes
<1>6. \A p \in Categories!Wanted : p \in Seq(Name)
  BY <1>5, RowFacts DEF Categories!Wanted, TreeTypes
<1>7. ASSUME NEW p \in M
      PROVE  /\ p \in Seq(Name) /\ new[p] \in 1 .. MaxId /\ \A n \in had : n.id # new[p]
             /\ IdOf(Categories!Front(p)) \in Nat
  <2>1. PICK q \in Categories!Wanted : p \in Categories!Prefixes(q)
    BY DEF Categories!MissingOf, Categories!PrefixesOf
  <2>2. q \in Seq(Name)
    BY <1>6
  <2>3. PICK k \in 0 .. Len(q) : p = SubSeq(q, 1, k)
    BY <2>1, <2>2, Beginnings
  <2>4. p \in Seq(Name) /\ Len(p) = k /\ Len(q) \in Nat
    BY <2>2, <2>3, Beginnings
  <2>5. k # 0
    BY <1>2, <2>2, <2>3, Beginnings DEF Categories!MissingOf
  <2>6. k \in 1 .. Len(q) /\ k - 1 \in 0 .. Len(q)
    BY <2>4, <2>5
  <2>7. p = Append(SubSeq(q, 1, k - 1), q[k]) /\ SubSeq(q, 1, k - 1) \in Seq(Name)
    BY <2>2, <2>3, <2>6, Beginnings
  <2>8. Len(SubSeq(q, 1, k - 1)) = k - 1
    BY <2>2, <2>6, Beginnings
  <2>9. Categories!Front(p) = SubSeq(q, 1, k - 1)
    <3> DEFINE u == SubSeq(q, 1, k - 1)
               f == Categories!Front(p)
    <3>1. k - 1 \in 0 .. Len(p)
      BY <2>4, <2>6
    <3>2. f = SubSeq(p, 1, k - 1) /\ f \in Seq(Name) /\ Len(f) = k - 1
      BY <2>4, <3>1, Beginnings DEF Categories!Front
    <3>3. ASSUME NEW i \in 1 .. (k - 1) PROVE f[i] = u[i]
      <4>1. i \in 1 .. k /\ \A j \in 1 .. k : p[j] \in Name
        BY <2>4, <2>6
      <4>2. f[i] = p[1 + i - 1]
        BY <2>4, <3>2, <4>1, SubSeqProperties
      <4>3. \A j \in 1 .. (k - 1) : q[j] \in Name
        BY <2>2, <2>6
      <4>4. u[i] = q[1 + i - 1]
        BY <2>2, <2>6, <4>3, SubSeqProperties
      <4>5. \A j \in 1 .. k : q[j] \in Name
        BY <2>2, <2>6
      <4>6. p[i] = q[1 + i - 1]
        BY <2>2, <2>3, <2>6, <4>1, <4>5, SubSeqProperties
      <4> QED BY <4>2, <4>4, <4>6, <4>1
    <3>4. u \in Seq(Name) /\ Len(u) = k - 1
      BY <2>7, <2>8
    <3> HIDE DEF u, f
    <3>5. f = u
      BY <3>2, <3>3, <3>4, SeqEqual
    <3> QED BY <3>5 DEF u, f
  <2>10. Categories!Front(p) \in Categories!PrefixesOf(Categories!Wanted)
    <3>1. SubSeq(q, 1, k - 1) \in Categories!Prefixes(q)
      BY <2>2, <2>6, Beginnings
    <3> QED BY <2>9, <3>1 DEF Categories!PrefixesOf
  <2>11. new[p] \in Categories!Free
    BY <1>3
  <2>12. new[p] \in 1 .. MaxId /\ \A n \in had : n.id # new[p]
    BY <2>11 DEF Categories!Free
  <2>13. CASE Categories!Front(p) \in M
    <3>1. new[Categories!Front(p)] \in 1 .. MaxId
      BY <1>3, <2>13 DEF Categories!Free
    <3> QED BY <1>3, <2>4, <2>12, <2>13, <3>1, CategoryConstants
  <2>14. CASE Categories!Front(p) \notin M
    <3>1. Categories!At(Categories!Front(p)) # {}
      BY <2>10, <2>14 DEF Categories!MissingOf
    <3>2. (CHOOSE n \in Categories!At(Categories!Front(p)) : TRUE) \in Categories!At(Categories!Front(p))
      BY <3>1
    <3>3. (CHOOSE n \in Categories!At(Categories!Front(p)) : TRUE) \in Node
      BY <3>2 DEF Categories!At, TreeInv
    <3>4. (CHOOSE n \in Categories!At(Categories!Front(p)) : TRUE).id \in Nat
      BY <3>3, CategoryConstants DEF Node
    <3> QED BY <1>3, <2>4, <2>12, <2>14, <3>4
  <2> QED BY <2>13, <2>14
<1>8. \A p \in M : Made(p) \in Node /\ Made(p).id = new[p] /\ Made(p).path = p
  BY <1>7 DEF Node
<1> HIDE DEF IdOf, Made
<1>9. had' = had \cup {Made(p) : p \in M}
  BY <1>2, <1>4 DEF TreeInv
<1>10. had' \subseteq Node
  BY <1>8, <1>9 DEF TreeInv
<1>11. OneById(had')
  BY <1>3, <1>7, <1>8, <1>9 DEF TreeInv, OneById
<1>12. TreeGrown
  BY <1>2, <1>4, <1>9, <1>10, <1>11 DEF TreeInv, TreeGrown
<1>13. ASSUME NEW p \in Categories!Wanted PROVE \E n \in tree' : n.path = p
  <2>1. p \in Seq(Name)
    BY <1>6
  <2>2. Len(p) \in 0 .. Len(p)
    BY <2>1, Beginnings
  <2>3. p \in Categories!Prefixes(p)
    BY <2>1, <2>2, Beginnings
  <2>4. p \in M \/ Categories!At(p) # {}
    BY <2>3 DEF Categories!MissingOf, Categories!PrefixesOf
  <2>5. CASE p \in M
    BY <1>4, <1>8, <2>5
  <2>6. CASE Categories!At(p) # {}
    BY <1>4, <2>6 DEF Categories!At
  <2> QED BY <2>4, <2>5, <2>6
<1> QED BY <1>12, <1>13

\* What steps that add categories at most keep of the parts.
LEMMA TreeGrows ==
  ASSUME TreeInv, TreeGrown, foreign' = foreign \/ foreign' # 0
  PROVE  TreeInv'
BY DEF TreeInv, TreeGrown, OneById

LEMMA TreeKept ==
  ASSUME TreeInv, UNCHANGED <<tree, seen, had>>
  PROVE  TreeGrown
BY DEF TreeInv, TreeGrown, OneById

LEMMA CacheKept ==
  ASSUME CacheInv, TreeGrown, UNCHANGED <<rows, cache, ids>>
  PROVE  CacheInv'
BY DEF CacheInv, TreeGrown, Is

LEMMA FateKept ==
  ASSUME FateInv, TreeGrown, UNCHANGED <<rows, verdict, refused, written>>, foreign' = foreign \/ foreign' # 0
  PROVE  FateInv'
<1>1. \A p : Categories!Prefixes(p)' = Categories!Prefixes(p)
  BY DEF Categories!Prefixes
<1>2. Categories!FailsForItsPath'
  BY <1>1 DEF FateInv, Categories!FailsForItsPath
<1> QED BY <1>2 DEF FateInv, TreeGrown

\* What a changed verdict keeps.
LEMMA NextBatchIs ==
  ASSUME NEW b
  PROVE  Categories!NextBatch(b) \in {"put", "walk", "ensure"}
BY DEF Categories!NextBatch

LEMMA PlannedIs ==
  ASSUME NEW r
  PROVE  Categories!Planned(r) \subseteq DOMAIN rows /\ \A i \in Categories!Planned(r) : ~rows[i].reserved
BY DEF Categories!Planned

LEMMA CategoryInit ==
  ASSUME Categories!Init
  PROVE  CategoryInv
<1>1. tree \subseteq Node /\ OneById(tree)
  BY CategoryConstants DEF Categories!Init
<1>2. TreeTypes
  BY DEF Categories!Init, TreeTypes, Categories!Empty
<1>3. TreeInv
  BY <1>1 DEF Categories!Init, TreeInv
<1>4. CacheInv
  BY DEF Categories!Init, CacheInv, Categories!Empty
<1>5. FateInv
  BY DEF Categories!Init, FateInv, Categories!FailsForItsPath
<1>6. NativeInv
  BY DEF Categories!Init, NativeInv, CacheWhole, Categories!CreatesOnlyMissing, Categories!Empty
<1> QED BY <1>2, <1>3, <1>4, <1>5, <1>6 DEF CategoryInv

LEMMA UpsertOkStep ==
  ASSUME CategoryInv, Categories!UpsertOk
  PROVE  CategoryInv'
<1> DEFINE IdAt(p) == (CHOOSE n \in tree' : n.path = p).id
           found == [p \in Categories!Wanted |-> IdAt(p)]
           mine == [i \in Categories!Call |-> IdAt(rows[i].path)]
<1>1. /\ pc = "ensure" /\ batch # {} /\ bridge /\ Categories!Upsert
      /\ cache' = Categories!Over(found, cache) /\ ids' = Categories!Over(mine, ids)
      /\ batch' = batch \ Categories!Call /\ pc' = Categories!NextBatch(batch')
      /\ UNCHANGED <<bridge, rows, initial, foreign, lost, round, whole, verdict, refused, written>>
  BY DEF Categories!UpsertOk
<1>2. TreeGrown /\ \A p \in Categories!Wanted : \E n \in tree' : n.path = p
  BY <1>1, UpsertIs DEF CategoryInv
<1>3. Categories!Call \subseteq DOMAIN rows
  BY <1>1, FirstIs DEF CategoryInv, Categories!Call, TreeTypes
<1>4. \A p \in Categories!Wanted : Is(seen', p, IdAt(p))
  BY <1>2 DEF Is, TreeGrown
<1>5. \A i \in Categories!Call : rows[i].path \in Categories!Wanted
  BY DEF Categories!Wanted
<1>6. \A p \in DOMAIN cache : Is(seen', p, cache[p])
  BY <1>2 DEF CategoryInv, CacheInv, Is, TreeGrown
<1>7. \A i \in DOMAIN ids : Is(seen', rows[i].path, ids[i])
  BY <1>2 DEF CategoryInv, CacheInv, Is, TreeGrown
<1> HIDE DEF IdAt
<1>8. DOMAIN found = Categories!Wanted /\ \A p \in DOMAIN found : found[p] = IdAt(p)
  OBVIOUS
<1>9. DOMAIN mine = Categories!Call /\ \A i \in DOMAIN mine : mine[i] = IdAt(rows[i].path)
  OBVIOUS
<1> HIDE DEF found, mine
<1>a. \A p \in DOMAIN cache' : /\ p \in DOMAIN found => cache'[p] = found[p]
                               /\ p \notin DOMAIN found => cache'[p] = cache[p] /\ p \in DOMAIN cache
  <2>1. cache' = Categories!Over(found, cache)
    BY <1>1
  <2> QED BY <2>1 DEF Categories!Over
<1>10. ASSUME NEW p \in DOMAIN cache' PROVE Is(seen', p, cache'[p])
  <2>1. CASE p \in DOMAIN found
    <3>1. cache'[p] = IdAt(p) /\ p \in Categories!Wanted
      BY <1>8, <1>a, <2>1
    <3> QED BY <1>4, <3>1
  <2>2. CASE p \notin DOMAIN found
    <3>1. cache'[p] = cache[p] /\ p \in DOMAIN cache
      BY <1>a, <2>2
    <3> QED BY <1>6, <3>1
  <2> QED BY <2>1, <2>2
<1>11. DOMAIN ids' = DOMAIN mine \cup DOMAIN ids
       /\ \A i \in DOMAIN ids' : /\ i \in DOMAIN mine => ids'[i] = mine[i]
                                 /\ i \notin DOMAIN mine => ids'[i] = ids[i] /\ i \in DOMAIN ids
  <2>1. ids' = Categories!Over(mine, ids)
    BY <1>1
  <2> QED BY <2>1 DEF Categories!Over
<1>12. \A i \in DOMAIN ids' : Is(seen', rows[i].path, ids'[i])
  <2> TAKE i \in DOMAIN ids'
  <2>1. CASE i \in DOMAIN mine
    <3>1. ids'[i] = IdAt(rows[i].path) /\ i \in Categories!Call
      BY <1>9, <1>11, <2>1
    <3> QED BY <1>4, <1>5, <3>1
  <2>2. CASE i \notin DOMAIN mine
    <3>1. ids'[i] = ids[i] /\ i \in DOMAIN ids
      BY <1>11, <2>2
    <3> QED BY <1>7, <3>1
  <2> QED BY <2>1, <2>2
<1>13. CacheInv'
  BY <1>1, <1>10, <1>12 DEF CacheInv, Is
<1>14. TreeTypes'
  BY <1>1, <1>3, <1>9, <1>11, NextBatchIs DEF CategoryInv, TreeTypes, Categories!NextBatch
<1>15. TreeInv'
  BY <1>1, <1>2, TreeGrows DEF CategoryInv
<1>16. FateInv'
  BY <1>1, <1>2, FateKept DEF CategoryInv
<1>17. NativeInv'
  BY <1>1 DEF NativeInv, Categories!CreatesOnlyMissing
<1> QED BY <1>13, <1>14, <1>15, <1>16, <1>17 DEF CategoryInv

LEMMA UpsertFailsStep ==
  ASSUME CategoryInv, Categories!UpsertFails
  PROVE  CategoryInv'
<1>1. /\ batch # {} /\ bridge /\ pc' = "load"
      /\ UNCHANGED <<tree, had, seen, lost>> \/ (lost' = lost + 1 /\ Categories!Upsert)
      /\ UNCHANGED <<bridge, rows, initial, foreign, round, batch, cache, ids, whole, verdict, refused, written>>
  BY DEF Categories!UpsertFails, Categories!resolver
<1>2. TreeGrown
  BY <1>1, UpsertIs, TreeKept DEF CategoryInv
<1>3. TreeTypes'
  BY <1>1 DEF CategoryInv, TreeTypes
<1>4. TreeInv'
  BY <1>1, <1>2, TreeGrows DEF CategoryInv
<1>5. FateInv'
  BY <1>1, <1>2, FateKept DEF CategoryInv
<1>6. NativeInv'
  BY <1>1 DEF NativeInv, Categories!CreatesOnlyMissing
<1>7. CacheInv'
  BY <1>1, <1>2, CacheKept DEF CategoryInv
<1> QED BY <1>3, <1>4, <1>5, <1>6, <1>7 DEF CategoryInv

LEMMA LoadStep ==
  ASSUME CategoryInv, Categories!Load
  PROVE  CategoryInv'
<1>1. /\ pc' = "walk"
      /\ UNCHANGED <<bridge, rows, tree, initial, had, seen, foreign, lost, round, whole, batch, ids, verdict, refused, written>>
      /\ DOMAIN cache # {} => cache' = cache
      /\ DOMAIN cache = {} => cache' = [p \in {n.path : n \in tree} |-> Categories!FirstOf(Categories!At(p)).id]
  BY DEF Categories!Load
<1>2. TreeGrown
  BY <1>1, TreeKept DEF CategoryInv
<1>3. TreeTypes'
  BY <1>1 DEF CategoryInv, TreeTypes
<1>4. TreeInv'
  BY <1>1, <1>2, TreeGrows DEF CategoryInv
<1>5. FateInv'
  BY <1>1, <1>2, FateKept DEF CategoryInv
<1>6. Categories!CreatesOnlyMissing'
  BY <1>1 DEF CategoryInv, NativeInv, Categories!CreatesOnlyMissing
<1>7. ASSUME NEW p \in {n.path : n \in tree} PROVE Is(seen, p, Categories!FirstOf(Categories!At(p)).id)
  <2>1. Categories!At(p) \in SUBSET Node /\ Categories!At(p) # {}
    BY DEF Categories!At, CategoryInv, TreeInv
  <2>2. Categories!FirstOf(Categories!At(p)) \in Categories!At(p)
    BY <2>1, FirstOfIs
  <2> QED BY <2>2 DEF Categories!At, Is, CategoryInv, TreeInv
<1>8. CASE DOMAIN cache # {}
  <2>1. CacheInv'
    BY <1>1, <1>2, <1>8, CacheKept DEF CategoryInv
  <2>2. NativeInv'
    BY <1>1, <1>6, <1>8 DEF CategoryInv, NativeInv, CacheWhole
  <2> QED BY <1>3, <1>4, <1>5, <2>1, <2>2 DEF CategoryInv
<1>9. CASE DOMAIN cache = {}
  <2>1. DOMAIN cache' = {n.path : n \in tree} /\ \A p \in DOMAIN cache' : Is(seen, p, cache'[p])
    BY <1>1, <1>7, <1>9
  <2>2. CacheInv'
    BY <1>1, <2>1 DEF CategoryInv, CacheInv, Is
  <2>3. NativeInv'
    BY <1>1, <1>6, <2>1 DEF NativeInv, CacheWhole
  <2> QED BY <1>3, <1>4, <1>5, <2>2, <2>3 DEF CategoryInv
<1> QED BY <1>8, <1>9

LEMMA KnownStep ==
  ASSUME CategoryInv, Categories!Known
  PROVE  CategoryInv'
<1> DEFINE p == Categories!Asked
           mine == [i \in {Categories!First} |-> cache[p]]
<1>1. /\ pc = "walk" /\ batch # {} /\ p \in DOMAIN cache
      /\ ids' = Categories!Over(mine, ids) /\ batch' = batch \ {Categories!First}
      /\ pc' = Categories!NextBatch(batch')
      /\ UNCHANGED <<bridge, rows, tree, initial, had, seen, foreign, lost, round, whole, cache, verdict, refused, written>>
  BY DEF Categories!Known
<1>2. TreeGrown
  BY <1>1, TreeKept DEF CategoryInv
<1>3. Categories!First \in DOMAIN rows /\ p = rows[Categories!First].path
  BY <1>1, FirstIs DEF CategoryInv
<1>4. DOMAIN mine = {Categories!First} /\ \A i \in DOMAIN mine : mine[i] = cache[p]
  OBVIOUS
<1> HIDE DEF mine, p
<1>5. DOMAIN ids' = DOMAIN mine \cup DOMAIN ids
      /\ \A i \in DOMAIN ids' : /\ i \in DOMAIN mine => ids'[i] = mine[i]
                                /\ i \notin DOMAIN mine => ids'[i] = ids[i] /\ i \in DOMAIN ids
  <2>1. ids' = Categories!Over(mine, ids)
    BY <1>1
  <2> QED BY <2>1 DEF Categories!Over
<1>6. \A i \in DOMAIN ids' : Is(seen, rows[i].path, ids'[i])
  <2> TAKE i \in DOMAIN ids'
  <2>1. CASE i \in DOMAIN mine
    <3>1. ids'[i] = cache[p] /\ i = Categories!First
      BY <1>4, <1>5, <2>1
    <3>2. Is(seen, p, cache[p])
      BY <1>1 DEF CategoryInv, CacheInv
    <3> QED BY <1>3, <3>1, <3>2
  <2>2. CASE i \notin DOMAIN mine
    <3>1. ids'[i] = ids[i] /\ i \in DOMAIN ids
      BY <1>5, <2>2
    <3> QED BY <3>1 DEF CategoryInv, CacheInv
  <2> QED BY <2>1, <2>2
<1>7. CacheInv'
  BY <1>1, <1>6 DEF CategoryInv, CacheInv, Is
<1>8. TreeTypes'
  BY <1>1, <1>3, <1>4, <1>5, NextBatchIs DEF CategoryInv, TreeTypes, Categories!NextBatch
<1>9. TreeInv'
  BY <1>1, <1>2, TreeGrows DEF CategoryInv
<1>10. FateInv'
  BY <1>1, <1>2, FateKept DEF CategoryInv
<1>11. NativeInv'
  BY <1>1 DEF CategoryInv, NativeInv, Categories!CreatesOnlyMissing, CacheWhole
<1> QED BY <1>7, <1>8, <1>9, <1>10, <1>11 DEF CategoryInv

\* A resolver that fails over a beginning of the path of the first row.
LEMMA ResolveFailsStep ==
  ASSUME CategoryInv, batch # {}, NEW path \in Categories!Prefixes(Categories!Asked), Categories!ResolveFails(path),
         UNCHANGED <<bridge, rows, foreign, round, cache, written>>, TreeGrown, lost' \in Nat
  PROVE  TreeTypes' /\ TreeInv' /\ CacheInv' /\ FateInv'
<1>1. Categories!First \in DOMAIN rows /\ Categories!Asked = rows[Categories!First].path
  BY FirstIs DEF CategoryInv
<1>2. TreeInv'
  BY TreeGrows DEF CategoryInv
<1>3. \A i \in DOMAIN ids : Is(seen', rows[i].path, ids[i])
  BY DEF CategoryInv, CacheInv, Is, TreeGrown
<1>4. \A p \in DOMAIN cache : Is(seen', p, cache[p])
  BY DEF CategoryInv, CacheInv, Is, TreeGrown
<1>5. \A p : Categories!Prefixes(p)' = Categories!Prefixes(p)
  BY DEF Categories!Prefixes
<1>6. refused' = refused \cup {path}
  BY DEF Categories!ResolveFails
<1>7. CASE whole
  <2>1. whole' = FALSE /\ batch' = Categories!Planned(round) /\ ids' = <<>> /\ pc' = "ensure" /\ verdict' = verdict
    BY <1>7 DEF Categories!ResolveFails, Categories!Empty
  <2>2. TreeTypes'
    <3>1. batch' \subseteq DOMAIN rows /\ \A i \in batch' : ~rows[i].reserved
      BY <2>1, PlannedIs
    <3>2. DOMAIN ids' = {}
      BY <2>1
    <3> QED BY <2>1, <3>1, <3>2 DEF CategoryInv, TreeTypes
  <2>3. CacheInv'
    BY <1>4, <2>1 DEF CacheInv, Is
  <2>4. Categories!FailsForItsPath'
    BY <1>5, <1>6, <2>1 DEF CategoryInv, FateInv, Categories!FailsForItsPath
  <2>5. FateInv'
    BY <2>1, <2>4 DEF CategoryInv, FateInv, TreeGrown
  <2> QED BY <1>2, <2>2, <2>3, <2>5
<1>8. CASE ~whole
  <2>1. /\ verdict' = [verdict EXCEPT ![Categories!First] = "failed"] /\ batch' = batch \ {Categories!First}
        /\ pc' = Categories!NextBatch(batch') /\ whole' = whole /\ ids' = ids
    BY <1>8 DEF Categories!ResolveFails
  <2>2. /\ verdict' \in [DOMAIN rows -> {"todo", "ok", "failed", "sort"}]
        /\ \A i \in DOMAIN rows : i # Categories!First => verdict'[i] = verdict[i]
        /\ verdict'[Categories!First] = "failed"
    BY <1>1, <2>1 DEF CategoryInv, TreeTypes
  <2>3. TreeTypes'
    BY <2>1, <2>2, NextBatchIs DEF CategoryInv, TreeTypes, Categories!NextBatch
  <2>4. CacheInv'
    BY <1>3, <1>4, <2>1 DEF CacheInv, Is
  <2>5. ASSUME NEW i \in DOMAIN rows, ~rows[i].reserved, verdict'[i] = "failed"
        PROVE  (\E w \in written : w[2] = i) \/ Categories!Prefixes(rows[i].path) \cap refused' # {}
    <3>1. CASE i = Categories!First
      BY <1>1, <1>6, <3>1
    <3>2. CASE i # Categories!First
      BY <1>6, <2>2, <2>5, <3>2 DEF CategoryInv, FateInv, Categories!FailsForItsPath
    <3> QED BY <3>1, <3>2
  <2>6. Categories!FailsForItsPath'
    BY <1>5, <2>5 DEF Categories!FailsForItsPath
  <2>7. ASSUME NEW i \in DOMAIN rows, verdict'[i] = "ok", foreign = 0
        PROVE  \E n \in tree' : n.path = rows[i].path
    <3>1. verdict[i] = "ok"
      <4>1. i # Categories!First
        BY <2>2, <2>7
      <4> QED BY <2>2, <2>7, <4>1
    <3>2. PICK n \in tree : n.path = rows[i].path
      BY <2>7, <3>1 DEF CategoryInv, FateInv
    <3> QED BY <3>2 DEF TreeGrown
  <2>8. FateInv'
    BY <2>6, <2>7 DEF FateInv
  <2> QED BY <1>2, <2>3, <2>4, <2>8
<1> QED BY <1>7, <1>8 DEF CategoryInv, TreeTypes

\* Where the row's path leaves the cache.
LEMMA AskedIs ==
  ASSUME CategoryInv, batch # {}
  PROVE  /\ Categories!Root \in Categories!Prefixes(Categories!Asked)
         /\ \A k \in 0 .. Len(Categories!Asked) : Categories!UpTo(k) \in Categories!Prefixes(Categories!Asked)
<1>1. Categories!Asked \in Seq(Name)
  BY FirstIs DEF CategoryInv
<1>2. Len(Categories!Asked) \in Nat /\ SubSeq(Categories!Asked, 1, 0) = <<>>
      /\ Categories!Prefixes(Categories!Asked) = {SubSeq(Categories!Asked, 1, k) : k \in 0 .. Len(Categories!Asked)}
  BY <1>1, Beginnings
<1>3. 0 \in 0 .. Len(Categories!Asked)
  BY <1>2
<1>4. \A k \in 0 .. Len(Categories!Asked) : Categories!UpTo(k) \in Categories!Prefixes(Categories!Asked)
  BY <1>2 DEF Categories!UpTo
<1> QED BY <1>2, <1>3, <1>4 DEF Categories!UpTo, Categories!Root

LEMMA NoRootStep ==
  ASSUME CategoryInv, Categories!NoRoot
  PROVE  CategoryInv'
<1>1. /\ pc = "walk" /\ batch # {} /\ Categories!ResolveFails(Categories!Root)
      /\ UNCHANGED <<bridge, rows, tree, initial, had, seen, foreign, lost, round, cache, written>>
  BY DEF Categories!NoRoot
<1>2. TreeGrown
  BY <1>1, TreeKept DEF CategoryInv
<1>3. TreeTypes' /\ TreeInv' /\ CacheInv' /\ FateInv'
  BY <1>1, <1>2, AskedIs, ResolveFailsStep DEF CategoryInv, TreeTypes
<1>4. NativeInv'
  BY <1>1 DEF CategoryInv, NativeInv, Categories!CreatesOnlyMissing, CacheWhole
<1> QED BY <1>3, <1>4 DEF CategoryInv

\* The category that is created has the path that was missing.
LEMMA CreatedIs ==
  ASSUME CategoryInv, Categories!CanCreate, NEW n \in Categories!Parent, Categories!Add(n, Categories!Asked[Categories!Missing])
  PROVE  /\ TreeGrown
         /\ \E new \in Node : /\ new.path = Categories!UpTo(Categories!Missing) /\ new.id = Categories!NewId
                              /\ tree' = tree \cup {new} /\ seen' = seen \cup {new}
<1> DEFINE p == Categories!Asked
           k == Categories!Missing
<1>1. /\ batch # {} /\ p \notin DOMAIN cache /\ Categories!Root \in DOMAIN cache
      /\ n \in tree /\ n.id = cache[Categories!UpTo(k - 1)]
  BY DEF Categories!CanCreate, Categories!Parent
<1>2. p \in Seq(Name)
  BY <1>1, FirstIs DEF CategoryInv
<1>3. k \in 1 .. Len(p) /\ Categories!UpTo(k - 1) \in DOMAIN cache
  BY <1>1, MissingIs DEF CategoryInv
<1>4. PICK o \in seen : o.path = Categories!UpTo(k - 1) /\ o.id = n.id
  BY <1>1, <1>3 DEF CategoryInv, CacheInv, Is
<1>5. n = o
  BY <1>1, <1>4 DEF CategoryInv, TreeInv, OneById
<1>6. p[k] \in Name /\ SubSeq(p, 1, k) = Append(SubSeq(p, 1, k - 1), p[k])
  BY <1>2, <1>3, Beginnings
<1>7. Append(n.path, p[k]) = Categories!UpTo(k)
  BY <1>4, <1>5, <1>6 DEF Categories!UpTo
<1>8. Categories!Add(n, p[k])
  OBVIOUS
<1> HIDE DEF p, k
<1>9. TreeGrown /\ \E new \in Node : /\ new.path = Append(n.path, p[k]) /\ new.id = Categories!NewId
                                 /\ tree' = tree \cup {new} /\ seen' = seen \cup {new}
  BY <1>1, <1>6, <1>8, AddIs DEF CategoryInv
<1>10. TreeGrown /\ \E new \in Node : /\ new.path = Categories!UpTo(k) /\ new.id = Categories!NewId
                                 /\ tree' = tree \cup {new} /\ seen' = seen \cup {new}
  BY <1>7, <1>9
<1> QED BY <1>10 DEF k

LEMMA CreateSegmentStep ==
  ASSUME CategoryInv, Categories!CreateSegment
  PROVE  CategoryInv'
<1> DEFINE path == Categories!UpTo(Categories!Missing)
           mine == [p \in {path} |-> Categories!NewId]
<1>1. PICK n \in Categories!Parent : Categories!Add(n, Categories!Asked[Categories!Missing])
  BY DEF Categories!CreateSegment
<1>2. /\ Categories!CanCreate /\ cache' = Categories!Over(mine, cache)
      /\ UNCHANGED <<bridge, rows, initial, foreign, lost, pc, round, whole, batch, ids, verdict, refused, written>>
  BY DEF Categories!CreateSegment, Categories!Cached
<1>3. TreeGrown /\ \E new \in Node : /\ new.path = path /\ new.id = Categories!NewId
                                 /\ tree' = tree \cup {new} /\ seen' = seen \cup {new}
  BY <1>1, <1>2, CreatedIs
<1>4. PICK new \in Node : /\ new.path = path /\ new.id = Categories!NewId
                          /\ tree' = tree \cup {new} /\ seen' = seen \cup {new}
  BY <1>3
<1>5. path \notin DOMAIN cache /\ pc = "walk"
  BY <1>2, MissingIs DEF CategoryInv, Categories!CanCreate
<1>6. DOMAIN mine = {path} /\ \A p \in DOMAIN mine : mine[p] = Categories!NewId
  OBVIOUS
<1> HIDE DEF mine, path
<1>a. DOMAIN cache' = DOMAIN mine \cup DOMAIN cache
      /\ \A p \in DOMAIN cache' : /\ p \in DOMAIN mine => cache'[p] = mine[p]
                                  /\ p \notin DOMAIN mine => cache'[p] = cache[p] /\ p \in DOMAIN cache
  <2>1. cache' = Categories!Over(mine, cache)
    BY <1>2
  <2> QED BY <2>1 DEF Categories!Over
<1>7. DOMAIN cache' = DOMAIN cache \cup {path} /\ cache'[path] = Categories!NewId
      /\ \A p \in DOMAIN cache : cache'[p] = cache[p]
  BY <1>5, <1>6, <1>a
<1>8. \A p \in DOMAIN cache : Is(seen', p, cache'[p])
  BY <1>3, <1>7 DEF CategoryInv, CacheInv, Is, TreeGrown
<1>9. Is(seen', path, cache'[path])
  BY <1>4, <1>7 DEF Is
<1>10. \A i \in DOMAIN ids : Is(seen', rows[i].path, ids[i])
  BY <1>3 DEF CategoryInv, CacheInv, Is, TreeGrown
<1>11. CacheInv'
  BY <1>2, <1>7, <1>8, <1>9, <1>10 DEF CacheInv, Is
<1>12. TreeTypes'
  BY <1>2 DEF CategoryInv, TreeTypes
<1>13. TreeInv'
  BY <1>2, <1>3, TreeGrows DEF CategoryInv
<1>14. FateInv'
  BY <1>2, <1>3, FateKept DEF CategoryInv
<1>15. ASSUME ~bridge, lost = 0, foreign = 0
       PROVE  CacheWhole' /\ \A m \in tree' \ initial, o \in tree' : m.path = o.path => m = o
  <2>1. DOMAIN cache = {m.path : m \in tree}
    BY <1>5, <1>15 DEF CategoryInv, NativeInv, CacheWhole
  <2>2. {m.path : m \in tree'} = {m.path : m \in tree} \cup {path}
    BY <1>4
  <2>3. CacheWhole'
    BY <1>7, <2>1, <2>2 DEF CacheWhole
  <2>4. \A m \in tree : m.path # path
    BY <1>5, <2>1
  <2> QED BY <1>4, <1>15, <2>3, <2>4 DEF CategoryInv, NativeInv, Categories!CreatesOnlyMissing
<1>16. NativeInv'
  BY <1>2, <1>15 DEF NativeInv, Categories!CreatesOnlyMissing
<1> QED BY <1>11, <1>12, <1>13, <1>14, <1>16 DEF CategoryInv

LEMMA CreateFailsStep ==
  ASSUME CategoryInv, Categories!CreateFails
  PROVE  CategoryInv'
<1>1. /\ Categories!CanCreate /\ Categories!ResolveFails(Categories!UpTo(Categories!Missing))
      /\ \/ UNCHANGED <<tree, had, seen, lost>>
         \/ lost' = lost + 1 /\ \E n \in Categories!Parent : Categories!Add(n, Categories!Asked[Categories!Missing])
      /\ UNCHANGED <<bridge, rows, initial, foreign, round, cache, written>>
  BY DEF Categories!CreateFails
<1>2. TreeGrown
  BY <1>1, TreeKept, CreatedIs DEF CategoryInv
<1>3. batch # {} /\ Categories!Missing \in 1 .. Len(Categories!Asked) /\ pc = "walk" /\ Categories!Root \in DOMAIN cache
  BY <1>1, MissingIs DEF CategoryInv, Categories!CanCreate
<1>4. Categories!Missing \in 0 .. Len(Categories!Asked)
  BY <1>3
<1>5. TreeTypes' /\ TreeInv' /\ CacheInv' /\ FateInv'
  BY <1>1, <1>2, <1>3, <1>4, AskedIs, ResolveFailsStep DEF CategoryInv, TreeTypes
<1>6. NativeInv'
  <2>1. CASE UNCHANGED <<tree, had, seen, lost>>
    BY <1>1, <1>3, <2>1 DEF CategoryInv, NativeInv, Categories!CreatesOnlyMissing, CacheWhole
  <2>2. CASE lost' = lost + 1
    <3>1. lost' # 0
      BY <2>2 DEF CategoryInv, TreeTypes
    <3> QED BY <3>1 DEF NativeInv, Categories!CreatesOnlyMissing
  <2> QED BY <1>1, <2>1, <2>2
<1> QED BY <1>5, <1>6 DEF CategoryInv

LEMMA PutStep ==
  ASSUME CategoryInv, Categories!Put
  PROVE  CategoryInv'
<1>1. PICK i \in DOMAIN ids : /\ \/ verdict' = [verdict EXCEPT ![i] = "ok"]
                                 \/ verdict' = [verdict EXCEPT ![i] = "failed"]
                                 \/ verdict' = [verdict EXCEPT ![i] = "sort"]
                              /\ written' = written \cup {<<round, i, ids[i]>>}
  BY DEF Categories!Put
<1>2. /\ pc' = "put"
      /\ UNCHANGED <<bridge, rows, tree, initial, had, seen, foreign, lost, round, batch, cache, ids, whole, refused>>
  BY DEF Categories!Put, Categories!resolver
<1>3. i \in DOMAIN rows /\ verdict \in [DOMAIN rows -> {"todo", "ok", "failed", "sort"}]
  BY <1>1 DEF CategoryInv, TreeTypes
<1>4. /\ verdict' \in [DOMAIN rows -> {"todo", "ok", "failed", "sort"}]
      /\ \A j \in DOMAIN rows : j # i => verdict'[j] = verdict[j]
  BY <1>1, <1>3
<1>5. Is(seen, rows[i].path, ids[i])
  BY <1>1 DEF CategoryInv, CacheInv
<1>6. TreeTypes'
  BY <1>2, <1>4 DEF CategoryInv, TreeTypes
<1>7. TreeGrown
  BY <1>2, TreeKept DEF CategoryInv
<1>8. TreeInv'
  BY <1>2, <1>7, TreeGrows DEF CategoryInv
<1>9. CacheInv'
  BY <1>2, <1>7, CacheKept DEF CategoryInv
<1>10. \A p : Categories!Prefixes(p)' = Categories!Prefixes(p)
  BY DEF Categories!Prefixes
<1>11. ASSUME NEW j \in DOMAIN rows, ~rows[j].reserved, verdict'[j] = "failed"
       PROVE  (\E w \in written' : w[2] = j) \/ Categories!Prefixes(rows[j].path) \cap refused # {}
  <2>1. CASE j = i
    <3>1. <<round, i, ids[i]>> \in written' /\ <<round, i, ids[i]>>[2] = i
      BY <1>1
    <3> QED BY <2>1, <3>1
  <2>2. CASE j # i
    <3>1. verdict[j] = "failed"
      BY <1>4, <1>11, <2>2
    <3>2. (\E w \in written : w[2] = j) \/ Categories!Prefixes(rows[j].path) \cap refused # {}
      BY <1>11, <3>1 DEF CategoryInv, FateInv, Categories!FailsForItsPath
    <3> QED BY <1>1, <3>2
  <2> QED BY <2>1, <2>2
<1>12. Categories!FailsForItsPath'
  BY <1>2, <1>10, <1>11 DEF Categories!FailsForItsPath
<1>13. ASSUME NEW j \in DOMAIN rows, verdict'[j] = "ok", foreign = 0
       PROVE  \E n \in tree : n.path = rows[j].path
  <2>1. CASE j = i
    BY <1>5, <1>13, <2>1 DEF Is, CategoryInv, TreeInv
  <2>2. CASE j # i
    BY <1>4, <1>13, <2>2 DEF CategoryInv, FateInv
  <2> QED BY <2>1, <2>2
<1>14. FateInv'
  BY <1>2, <1>12, <1>13 DEF FateInv
<1>15. NativeInv'
  BY <1>2 DEF CategoryInv, NativeInv, Categories!CreatesOnlyMissing, CacheWhole
<1> QED BY <1>6, <1>8, <1>9, <1>14, <1>15 DEF CategoryInv

LEMMA RetryStep ==
  ASSUME CategoryInv, Categories!Retry
  PROVE  CategoryInv'
<1>1. /\ round' = 2 /\ whole' = TRUE /\ batch' = Categories!Planned(2) /\ pc' = "ensure"
      /\ ids' = <<>> /\ cache' = <<>> /\ seen' = tree
      /\ UNCHANGED <<bridge, rows, tree, initial, had, foreign, lost, verdict, refused, written>>
  BY DEF Categories!Retry, Categories!Again, Categories!Empty
<1>2. DOMAIN ids' = {} /\ DOMAIN cache' = {}
  BY <1>1
<1>3. batch' \subseteq DOMAIN rows /\ \A i \in batch' : ~rows[i].reserved
  BY <1>1, PlannedIs
<1>4. TreeTypes'
  BY <1>1, <1>2, <1>3 DEF CategoryInv, TreeTypes
<1>5. TreeInv'
  BY <1>1 DEF CategoryInv, TreeInv, OneById
<1>6. CacheInv'
  BY <1>2 DEF CacheInv
<1>7. \A p : Categories!Prefixes(p)' = Categories!Prefixes(p)
  BY DEF Categories!Prefixes
<1>8. FateInv'
  BY <1>1, <1>7 DEF CategoryInv, FateInv, Categories!FailsForItsPath
<1>9. NativeInv'
  BY <1>1, <1>2 DEF CategoryInv, NativeInv, Categories!CreatesOnlyMissing, CacheWhole
<1> QED BY <1>4, <1>5, <1>6, <1>8, <1>9 DEF CategoryInv

LEMMA ReturnStep ==
  ASSUME CategoryInv,
         UNCHANGED <<bridge, rows, tree, initial, had, seen, foreign, lost, round, batch, cache, ids, whole, verdict,
                     refused, written>>,
         UNCHANGED pc \/ pc' = "done"
  PROVE  CategoryInv'
<1>1. TreeTypes'
  BY DEF CategoryInv, TreeTypes
<1>2. TreeGrown
  BY TreeKept DEF CategoryInv
<1>3. TreeInv' /\ CacheInv' /\ FateInv'
  BY <1>2, TreeGrows, CacheKept, FateKept DEF CategoryInv
<1>4. NativeInv'
  BY DEF CategoryInv, NativeInv, Categories!CreatesOnlyMissing, CacheWhole
<1> QED BY <1>1, <1>3, <1>4 DEF CategoryInv

LEMMA OthersStep ==
  ASSUME CategoryInv, Categories!Foreign
  PROVE  CategoryInv'
<1>1. /\ foreign' = foreign + 1
      /\ UNCHANGED <<bridge, rows, initial, lost, pc, round, batch, cache, ids, whole, verdict, refused, written>>
  BY DEF Categories!Foreign, Categories!resolver
<1>2. foreign' \in Nat /\ foreign' # 0
  BY <1>1 DEF CategoryInv, TreeTypes
<1>3. TreeTypes'
  BY <1>1, <1>2 DEF CategoryInv, TreeTypes
<1>4. NativeInv'
  BY <1>2 DEF NativeInv, Categories!CreatesOnlyMissing
<1>5. CASE \E n \in tree : tree' = tree \ Categories!Below(n.path) /\ UNCHANGED <<had, seen>>
  <2>1. TreeInv'
    BY <1>2, <1>5 DEF CategoryInv, TreeInv, OneById
  <2>2. CacheInv'
    BY <1>1, <1>5 DEF CategoryInv, CacheInv, Is
  <2>3. \A p : Categories!Prefixes(p)' = Categories!Prefixes(p)
    BY DEF Categories!Prefixes
  <2>4. FateInv'
    BY <1>1, <1>2, <2>3 DEF CategoryInv, FateInv, Categories!FailsForItsPath
  <2> QED BY <1>3, <1>4, <2>1, <2>2, <2>4 DEF CategoryInv
<1>6. ASSUME NEW n \in tree, NEW i \in DOMAIN rows, Len(n.path) < Len(rows[i].path),
             Categories!Add(n, rows[i].path[Len(n.path) + 1])
      PROVE  CategoryInv'
  <2>1. n.path \in Seq(Name) /\ rows[i].path \in Seq(Name)
    BY RowFacts DEF CategoryInv, TreeTypes, TreeInv, Node
  <2>2. Len(n.path) + 1 \in 1 .. Len(rows[i].path)
    BY <1>6, <2>1
  <2>3. rows[i].path[Len(n.path) + 1] \in Name
    BY <2>1, <2>2
  <2>4. TreeGrown
    BY <1>6, <2>3, AddIs DEF CategoryInv
  <2>5. TreeInv' /\ CacheInv' /\ FateInv'
    BY <1>1, <1>2, <2>4, TreeGrows, CacheKept, FateKept DEF CategoryInv
  <2> QED BY <1>3, <1>4, <2>5 DEF CategoryInv
<1> QED BY <1>5, <1>6 DEF Categories!Foreign

LEMMA CategoryStep ==
  ASSUME CategoryInv, Categories!Next
  PROVE  CategoryInv'
<1>1. CASE Categories!Return
  BY <1>1, ReturnStep DEF Categories!Return, Categories!resolver
<1> QED BY <1>1, UpsertOkStep, UpsertFailsStep, LoadStep, KnownStep, NoRootStep, CreateSegmentStep, CreateFailsStep,
           PutStep, RetryStep, OthersStep DEF Categories!Next

LEMMA CategorySays ==
  ASSUME CategoryInv
  PROVE  /\ Categories!TypeOK
         /\ Categories!CreatesOnlyMissing /\ Categories!FailsForItsPath /\ Categories!SucceededExists
<1>1. \A p \in DOMAIN cache : cache[p] \in 1 .. MaxId
  BY DEF CategoryInv, CacheInv, Is, TreeInv, Node
<1>2. Categories!TypeOK
  BY <1>1 DEF CategoryInv, TreeTypes, Categories!TypeOK
<1>3. Categories!SucceededExists
  BY DEF CategoryInv, FateInv, Categories!SucceededExists, Categories!At
<1> QED BY <1>2, <1>3 DEF CategoryInv, NativeInv, FateInv

\* Only a PUT writes, to an id the resolver has of the row.
LEMMA CategoryWrites ==
  ASSUME CategoryInv, Categories!Next
  PROVE  Categories!WriteIsOwn
<1>1. CASE written' = written
  BY <1>1 DEF Categories!WriteIsOwn
<1>2. CASE Categories!Put
  <2>1. PICK i \in DOMAIN ids : written' = written \cup {<<round, i, ids[i]>>}
    BY <1>2 DEF Categories!Put
  <2>2. PICK n \in seen : n.path = rows[i].path /\ n.id = ids[i]
    BY DEF CategoryInv, CacheInv, Is
  <2>3. ASSUME NEW w \in written' \ written PROVE n.id = w[3] /\ n.path = rows[w[2]].path
    <3>1. w = <<round, i, ids[i]>>
      BY <2>1
    <3>2. w[2] = i /\ w[3] = ids[i]
      BY <3>1
    <3> QED BY <2>2, <3>2
  <2> QED BY <2>3 DEF Categories!WriteIsOwn
<1>3. Categories!Put \/ written' = written
  BY DEF Categories!Next, Categories!UpsertOk, Categories!UpsertFails, Categories!Load, Categories!Known,
     Categories!NoRoot, Categories!CreateSegment, Categories!CreateFails, Categories!Retry, Categories!Return,
     Categories!Foreign
<1> QED BY <1>1, <1>2, <1>3

\* What the two theorems on categories rest on.
LEMMA CategoryInvariance == Spec => [](part = "categories" => CategoryInv)
<1>1. Init => (part = "categories" => CategoryInv)
  BY CategoryInit DEF Init
<1>2. (part = "categories" => CategoryInv) /\ [Next]_vars => (part = "categories" => CategoryInv)'
  <2> SUFFICES ASSUME part = "categories" => CategoryInv, [Next]_vars, (part = "categories")'
               PROVE  CategoryInv'
    OBVIOUS
  <2>1. CASE CategoriesStep
    BY <2>1, CategoryStep DEF CategoriesStep
  <2>2. CASE SetsStep \/ LabelsStep
    BY <2>2 DEF SetsStep, LabelsStep
  <2>3. CASE UNCHANGED vars
    BY <2>3, ReturnStep DEF vars, trees
  <2> QED BY <2>1, <2>2, <2>3 DEF Next
<1> QED BY <1>1, <1>2, PTL DEF Spec

\* A row of an import of categories fails only over its own path, one that
\* succeeded has its category, and natively no category is created beside one
\* of its path, for every tree, every rows and every number of changes by
\* others and of lost answers (CategoriesAsPlanned of MCStructure).
THEOREM CategoriesArePlanned == Spec => []CategoriesAsPlanned
<1>1. (part = "categories" => CategoryInv) => CategoriesAsPlanned
  BY CategorySays DEF CategoriesAsPlanned
<1>2. Spec => [](part = "categories" => CategoryInv)
  BY CategoryInvariance
<1> QED BY <1>1, <1>2, PTL

\* Every PUT of a category goes to an id that had the path of its row in the
\* round that writes it (WritesOwnCategory of MCStructure).
THEOREM CategoriesWriteTheirOwn == Spec => WritesOwnCategory
<1>1. (part = "categories" => CategoryInv) /\ [Next]_vars => [part = "categories" => Categories!WriteIsOwn]_vars
  <2> SUFFICES ASSUME part = "categories" => CategoryInv, Next, part = "categories"
               PROVE  Categories!WriteIsOwn
    OBVIOUS
  <2>1. CASE CategoriesStep
    BY <2>1, CategoryWrites DEF CategoriesStep
  <2> QED BY <2>1 DEF Next, SetsStep, LabelsStep
<1>2. Spec => [](part = "categories" => CategoryInv)
  BY CategoryInvariance
<1> QED BY <1>1, <1>2, PTL DEF Spec, WritesOwnCategory

---------------------------------------------------------------------------
(* Attribute sets *)

\* An operation that a row plans.
OpOf(op, i) ==
  \/ op = Sets!CreateSet(i)
  \/ \E g \in DOMAIN rows[i].groups :
       \/ op = Sets!CreateGroup(i, g)
       \/ \E c \in DOMAIN rows[i].groups[g].codes : op = Sets!Assign(i, g, c)

\* What it creates is there.
Effect(op) ==
  /\ op.kind = "set" => op.set \in shop.sets
  /\ op.kind = "group" => <<op.set, op.group>> \in shop.groups

GroupOf(i, g) == <<rows[i].name, rows[i].groups[g].name>>

SetTypes ==
  /\ rows \in SetInputs /\ foreign \in Nat
  /\ pc \in {"plan", "send", "fold", "done"} /\ pass \in 1 .. 4 /\ (pc = "send" => pass <= 3)
  /\ shop = [sets |-> shop.sets, groups |-> shop.groups, members |-> shop.members]
  /\ active \subseteq DOMAIN rows
  /\ touched \subseteq Sets!Names /\ failed \subseteq Sets!Names /\ stuck \subseteq Sets!Names
  /\ pc = "plan" => known = <<>>

\* What went out before this pass, of a row that is still in it, is done.
LogInv ==
  /\ \A l \in log : /\ l[1] \in 1 .. pass /\ l[3] \in {"ok", "failed"} /\ \E i \in DOMAIN rows : OpOf(l[2], i)
                    /\ pc = "plan" => l[1] < pass
                    /\ pc = "send" /\ l[1] = pass => <<l[2], l[3]>> \in sent
  /\ \A s \in sent : \E l \in log : s = <<l[2], l[3]>>
  /\ \A op \in done : \E l \in log : l[2] = op /\ l[3] = "ok"
  /\ pc \in {"plan", "send"} =>
       \A l \in log, i \in active : l[1] < pass /\ l[2].set = rows[i].name => l[3] = "ok" /\ l[2] \in done
  /\ Sets!NothingAgain

\* The plan of the pass is what was sent and what is not sent yet.
TodoInv ==
  pc = "send" =>
    /\ todo \subseteq Sets!NewOps(known)
    /\ \A o \in Sets!NewOps(known) : o \in todo \/ \E s \in sent : s[1] = o[2]

\* A row that is dropped failed, and at the end one that has something to do.
DropInv ==
  /\ \A i \in DOMAIN rows : i \notin active => rows[i].name \in failed
  /\ pc \in {"fold", "done"} =>
       Sets!UnknownBase(known) \subseteq failed /\ \A o \in Sets!NewOps(known) : o[2].set \in failed

\* As long as nobody else writes: what was answered well is there, and what
\* was read is still so.
EffectInv ==
  /\ \A s \in sent : s[2] = "ok" => Effect(s[1])
  /\ \A op \in done : Effect(op)
  /\ pc = "send" => known.sets \subseteq shop.sets /\ known.groups \subseteq shop.groups
  /\ pc \in {"fold", "done"} => known.sets = shop.sets /\ known.groups = shop.groups

\* The first pass leaves the sets of the rows that are not dropped, the second
\* their groups, the third nothing.
LevelInv ==
  /\ pass >= 2 => \A i \in active : rows[i].name \in shop.sets /\ (pc = "send" => rows[i].name \in known.sets)
  /\ pass >= 3 => \A i \in active : \A g \in DOMAIN rows[i].groups :
       GroupOf(i, g) \in shop.groups /\ (pc = "send" => GroupOf(i, g) \in known.groups)
  /\ pass >= 4 => \A i \in active : \A g \in DOMAIN rows[i].groups :
       \A c \in DOMAIN rows[i].groups[g].codes : Sets!Assign(i, g, c) \in done
  /\ stuck = {}

\* An attribute that was assigned is where one of the requests put it.
PlaceInv ==
  \A l \in log : l[2].kind = "assign" /\ l[3] = "ok" =>
    \E k \in log : /\ k[2].kind = "assign" /\ k[2].set = l[2].set /\ k[2].code = l[2].code
                   /\ <<k[2].set, k[2].group, k[2].code>> \in shop.members

AloneInv == foreign = 0 => EffectInv /\ LevelInv /\ PlaceInv

SetsInv == SetTypes /\ LogInv /\ TodoInv /\ DropInv /\ AloneInv

LEMMA SetConstants ==
  /\ MaxSetForeign \in Nat
  /\ \A r \in SetInputs : /\ r \in Seq(Sets!Row) /\ Len(r) \in Nat /\ DOMAIN r = 1 .. Len(r)
  /\ \A s \in Shops : s = [sets |-> s.sets, groups |-> s.groups, members |-> s.members]
<1>1. MaxSetForeign \in Nat /\ SetInputs \subseteq Seq(Sets!Row) /\ Shops \subseteq Sets!Shop
  BY StructureAssumption DEF Sets!SetAssumption
<1>2. \A s \in Sets!Shop : s = [sets |-> s.sets, groups |-> s.groups, members |-> s.members]
  BY DEF Sets!Shop
<1>3. \A r \in Seq(Sets!Row) : Len(r) \in Nat /\ DOMAIN r = 1 .. Len(r)
  OBVIOUS
<1> QED BY <1>1, <1>2, <1>3

\* The fields of the operations.
LEMMA OpFields ==
  /\ \A i : Sets!CreateSet(i).kind = "set" /\ Sets!CreateSet(i).set = rows[i].name
  /\ \A i, g : /\ Sets!CreateGroup(i, g).kind = "group" /\ Sets!CreateGroup(i, g).set = rows[i].name
               /\ Sets!CreateGroup(i, g).group = rows[i].groups[g].name
  /\ \A i, g, c : /\ Sets!Assign(i, g, c).kind = "assign" /\ Sets!Assign(i, g, c).set = rows[i].name
                  /\ Sets!Assign(i, g, c).group = rows[i].groups[g].name
                  /\ Sets!Assign(i, g, c).code = rows[i].groups[g].codes[c]
BY DEF Sets!CreateSet, Sets!CreateGroup, Sets!Assign, Sets!Op

LEMMA OpOfRow ==
  ASSUME NEW i, NEW op, OpOf(op, i)
  PROVE  /\ op.set = rows[i].name /\ op.kind \in {"set", "group", "assign"}
         /\ op.kind = "assign" => \E g \in DOMAIN rows[i].groups :
              /\ op.group = rows[i].groups[g].name
              /\ \E c \in DOMAIN rows[i].groups[g].codes : op.code = rows[i].groups[g].codes[c]
<1>1. CASE op = Sets!CreateSet(i)
  BY <1>1, OpFields
<1>2. ASSUME NEW g \in DOMAIN rows[i].groups, op = Sets!CreateGroup(i, g) PROVE op.set = rows[i].name /\ op.kind = "group"
  BY <1>2, OpFields
<1>3. ASSUME NEW g \in DOMAIN rows[i].groups, NEW c \in DOMAIN rows[i].groups[g].codes, op = Sets!Assign(i, g, c)
      PROVE  /\ op.set = rows[i].name /\ op.kind = "assign" /\ op.group = rows[i].groups[g].name
             /\ op.code = rows[i].groups[g].codes[c]
  BY <1>3, OpFields
<1> QED BY <1>1, <1>2, <1>3 DEF OpOf

\* What a row plans of a view.
LEMMA RowPlans ==
  ASSUME NEW i, NEW view
  PROVE  /\ \A o \in Sets!RowOps(i, view) : OpOf(o[2], i) /\ o[2].set = rows[i].name
         /\ rows[i].name \notin view.sets /\ rows[i].based \in view.sets =>
              \E o \in Sets!RowOps(i, view) : o[2] = Sets!CreateSet(i)
         /\ rows[i].name \in view.sets => \A g \in DOMAIN rows[i].groups :
              /\ GroupOf(i, g) \notin view.groups => \E o \in Sets!RowOps(i, view) : o[2] = Sets!CreateGroup(i, g)
              /\ GroupOf(i, g) \in view.groups => \A c \in DOMAIN rows[i].groups[g].codes :
                   \E o \in Sets!RowOps(i, view) : o[2] = Sets!Assign(i, g, c)
<1>1. CASE rows[i].name \in view.sets
  <2>1. Sets!RowOps(i, view) = UNION {Sets!GroupOps(i, g, view) : g \in DOMAIN rows[i].groups}
    BY <1>1 DEF Sets!RowOps
  <2>2. ASSUME NEW o \in Sets!RowOps(i, view) PROVE OpOf(o[2], i)
    <3>1. PICK g \in DOMAIN rows[i].groups : o \in Sets!GroupOps(i, g, view)
      BY <2>1
    <3>2. CASE o = <<<<i, g, 0>>, Sets!CreateGroup(i, g)>>
      BY <3>2 DEF OpOf
    <3>3. ASSUME NEW c \in DOMAIN rows[i].groups[g].codes, o = <<<<i, g, c>>, Sets!Assign(i, g, c)>> PROVE OpOf(o[2], i)
      BY <3>3 DEF OpOf
    <3> QED BY <3>1, <3>2, <3>3 DEF Sets!GroupOps
  <2>3. ASSUME NEW g \in DOMAIN rows[i].groups, GroupOf(i, g) \notin view.groups
        PROVE  \E o \in Sets!RowOps(i, view) : o[2] = Sets!CreateGroup(i, g)
    <3>1. <<<<i, g, 0>>, Sets!CreateGroup(i, g)>> \in Sets!GroupOps(i, g, view)
      BY <2>3 DEF Sets!GroupOps, GroupOf
    <3> QED BY <2>1, <3>1
  <2>4. ASSUME NEW g \in DOMAIN rows[i].groups, GroupOf(i, g) \in view.groups, NEW c \in DOMAIN rows[i].groups[g].codes
        PROVE  \E o \in Sets!RowOps(i, view) : o[2] = Sets!Assign(i, g, c)
    <3>1. <<<<i, g, c>>, Sets!Assign(i, g, c)>> \in Sets!GroupOps(i, g, view)
      BY <2>4 DEF Sets!GroupOps, GroupOf
    <3> QED BY <2>1, <3>1
  <2> QED BY <1>1, <2>2, <2>3, <2>4, OpOfRow
<1>2. CASE rows[i].name \notin view.sets
  <2>1. \A o \in Sets!RowOps(i, view) : o = <<<<i, 0, 0>>, Sets!CreateSet(i)>>
    BY <1>2 DEF Sets!RowOps
  <2>2. \A o \in Sets!RowOps(i, view) : OpOf(o[2], i)
    BY <2>1 DEF OpOf
  <2>3. rows[i].based \in view.sets => <<<<i, 0, 0>>, Sets!CreateSet(i)>> \in Sets!RowOps(i, view)
    BY <1>2 DEF Sets!RowOps
  <2> QED BY <1>2, <2>2, <2>3, OpOfRow
<1> QED BY <1>1, <1>2

\* What a plan asks for.
LEMMA NewOpsAre ==
  ASSUME NEW view, NEW o \in Sets!NewOps(view)
  PROVE  o[2] \notin done /\ \E i \in active : o \in Sets!RowOps(i, view) /\ OpOf(o[2], i) /\ o[2].set = rows[i].name
<1>1. o[2] \notin done /\ \E i \in active : o \in Sets!RowOps(i, view)
  BY DEF Sets!NewOps
<1> QED BY <1>1, RowPlans

LEMMA NewOpsHave ==
  ASSUME NEW view, NEW i \in active, NEW o \in Sets!RowOps(i, view), o[2] \notin done
  PROVE  o \in Sets!NewOps(view)
BY DEF Sets!NewOps

LEMMA PlansKept ==
  ASSUME UNCHANGED <<rows, active, done>>, NEW view
  PROVE  Sets!NewOps(view)' = Sets!NewOps(view) /\ Sets!UnknownBase(view)' = Sets!UnknownBase(view)
BY DEF Sets!NewOps, Sets!UnknownBase, Sets!RowOps, Sets!GroupOps, Sets!CreateSet, Sets!CreateGroup, Sets!Assign, Sets!Op

LEMMA OpsKept ==
  ASSUME UNCHANGED rows
  PROVE  /\ \A i, g, c : Sets!Assign(i, g, c)' = Sets!Assign(i, g, c)
         /\ \A op, i : OpOf(op, i)' = OpOf(op, i)
         /\ \A i, g : GroupOf(i, g)' = GroupOf(i, g)
         /\ Sets!Names' = Sets!Names
BY DEF OpOf, GroupOf, Sets!Names, Sets!CreateSet, Sets!CreateGroup, Sets!Assign, Sets!Op

\* A row whose groups are all seen only assigns.
LEMMA RowAssigns ==
  ASSUME NEW i, NEW view, rows[i].name \in view.sets, \A g \in DOMAIN rows[i].groups : GroupOf(i, g) \in view.groups,
         NEW o \in Sets!RowOps(i, view)
  PROVE  \E g \in DOMAIN rows[i].groups : \E c \in DOMAIN rows[i].groups[g].codes : o[2] = Sets!Assign(i, g, c)
<1>1. PICK g \in DOMAIN rows[i].groups : o \in Sets!GroupOps(i, g, view)
  BY DEF Sets!RowOps
<1>2. \E c \in DOMAIN rows[i].groups[g].codes : o = <<<<i, g, c>>, Sets!Assign(i, g, c)>>
  BY <1>1 DEF Sets!GroupOps, GroupOf
<1> QED BY <1>2

LEMMA UnknownIs ==
  ASSUME SetTypes, NEW view
  PROVE  /\ Sets!UnknownBase(view) \subseteq Sets!Names
         /\ \A i \in active : rows[i].name \notin Sets!UnknownBase(view) =>
              rows[i].name \in view.sets \/ rows[i].based \in view.sets
BY DEF SetTypes, Sets!UnknownBase, Sets!Names

LEMMA PlanNow ==
  ASSUME UNCHANGED <<rows, active, done>>, NEW v, known' = v
  PROVE  Sets!NewOps(known)' = Sets!NewOps(v) /\ Sets!UnknownBase(known)' = Sets!UnknownBase(v)
BY DEF Sets!NewOps, Sets!UnknownBase, Sets!RowOps, Sets!GroupOps, Sets!CreateSet, Sets!CreateGroup, Sets!Assign, Sets!Op

\* A plan sees what Magento has.
LEMMA ViewIs ==
  ASSUME SetTypes, pc = "plan"
  PROVE  Sets!View.sets = shop.sets /\ Sets!View.groups = shop.groups
BY DEF SetTypes, Sets!View, Sets!Unread

LEMMA SetsInit ==
  ASSUME Sets!Init
  PROVE  SetsInv
<1>1. SetTypes
  BY SetConstants DEF Sets!Init, SetTypes, Sets!Unread
<1>2. LogInv
  BY DEF Sets!Init, LogInv, Sets!NothingAgain
<1>3. TodoInv /\ DropInv
  BY DEF Sets!Init, TodoInv, DropInv
<1>4. AloneInv
  BY DEF Sets!Init, AloneInv, EffectInv, LevelInv, PlaceInv
<1> QED BY <1>1, <1>2, <1>3, <1>4 DEF SetsInv

LEMMA PlanStep ==
  ASSUME SetsInv, Sets!Plan
  PROVE  SetsInv'
<1>1. PICK v : v = Sets!View
  OBVIOUS
<1>2. /\ pc = "plan" /\ pass <= 3 /\ known' = v /\ todo' = Sets!NewOps(v)
      /\ failed' = failed \cup Sets!UnknownBase(v) /\ sent' = {}
      /\ pc' = IF todo' = {} THEN "fold" ELSE "send"
      /\ UNCHANGED <<rows, foreign, shop, pass, active, done, touched, stuck, log>>
  BY <1>1 DEF Sets!Plan, Sets!Passes, Sets!quiet
<1>3. v.sets = shop.sets /\ v.groups = shop.groups
  BY <1>1, <1>2, ViewIs DEF SetsInv
<1>4. Sets!NewOps(known)' = Sets!NewOps(v) /\ Sets!UnknownBase(known)' = Sets!UnknownBase(v)
  BY <1>2, PlanNow
<1>5. Sets!UnknownBase(v) \subseteq Sets!Names
  BY UnknownIs DEF SetsInv
<1>6. SetTypes'
  BY <1>2, <1>5, OpsKept DEF SetsInv, SetTypes
<1>7. LogInv'
  BY <1>2, OpsKept DEF SetsInv, LogInv, Sets!NothingAgain
<1>8. TodoInv' /\ DropInv'
  BY <1>2, <1>4 DEF SetsInv, TodoInv, DropInv
<1>9. AloneInv'
  <2>1. foreign = 0 => EffectInv'
    BY <1>2, <1>3 DEF SetsInv, AloneInv, EffectInv, Effect
  <2>2. foreign = 0 => LevelInv'
    BY <1>2, <1>3, OpsKept DEF SetsInv, AloneInv, LevelInv, SetTypes
  <2>3. foreign = 0 => PlaceInv'
    BY <1>2 DEF SetsInv, AloneInv, PlaceInv
  <2> QED BY <1>2, <2>1, <2>2, <2>3 DEF AloneInv
<1> QED BY <1>6, <1>7, <1>8, <1>9 DEF SetsInv

\* What a request leaves of the shop.
LEMMA AppliedIs ==
  ASSUME shop = [sets |-> shop.sets, groups |-> shop.groups, members |-> shop.members],
         NEW op, op.kind \in {"set", "group", "assign"},
         shop' = Sets!Applied(op)
  PROVE  /\ shop' = [sets |-> shop.sets, groups |-> shop.groups, members |-> shop.members]'
         /\ shop.sets \subseteq shop'.sets /\ shop.groups \subseteq shop'.groups /\ Effect(op)'
         /\ op.kind # "assign" => shop.members \subseteq shop'.members
         /\ op.kind = "assign" => /\ <<op.set, op.group, op.code>> \in shop'.members
                                  /\ \A m \in shop.members : m[1] # op.set \/ m[3] # op.code => m \in shop'.members
<1>1. CASE op.kind = "set"
  BY <1>1 DEF Sets!Applied, Effect
<1>2. CASE op.kind = "group"
  BY <1>2 DEF Sets!Applied, Effect
<1>3. CASE op.kind = "assign"
  BY <1>3 DEF Sets!Applied, Effect
<1> QED BY <1>1, <1>2, <1>3

LEMMA SendStep ==
  ASSUME SetsInv, Sets!Send
  PROVE  SetsInv'
<1>1. PICK o \in todo, v \in {"ok", "failed"} :
        /\ \/ shop' = Sets!Applied(o[2])
           \/ v = "failed" /\ UNCHANGED shop
        /\ sent' = sent \cup {<<o[2], v>>} /\ log' = log \cup {<<pass, o[2], v>>}
        /\ touched' = touched \cup {o[2].set} /\ todo' = todo \ {o}
  BY DEF Sets!Send
<1> DEFINE op == o[2]
           l0 == <<pass, op, v>>
<1>2. pc = "send" /\ UNCHANGED <<rows, foreign, pc, pass, known, active, done, failed, stuck>>
  BY DEF Sets!Send
<1>3. o \in Sets!NewOps(known)
  BY <1>1, <1>2 DEF SetsInv, TodoInv
<1>4. op \notin done /\ \E i \in active : OpOf(op, i) /\ op.set = rows[i].name
  BY <1>3, NewOpsAre
<1>5. PICK i \in active : OpOf(op, i) /\ op.set = rows[i].name /\ op.kind \in {"set", "group", "assign"}
  BY <1>4, OpOfRow
<1>6. l0[1] = pass /\ l0[2] = op /\ l0[3] = v /\ <<op, v>>[1] = op /\ <<op, v>>[2] = v
  OBVIOUS
<1>7. i \in DOMAIN rows /\ op.set \in Sets!Names
  BY <1>5 DEF SetsInv, SetTypes, Sets!Names
<1>8. shop = [sets |-> shop.sets, groups |-> shop.groups, members |-> shop.members]
  BY DEF SetsInv, SetTypes
<1>a. log' = log \cup {l0} /\ sent' = sent \cup {<<op, v>>} /\ touched' = touched \cup {op.set}
      /\ (shop' = Sets!Applied(op) \/ (v = "failed" /\ UNCHANGED shop))
  BY <1>1
<1> HIDE DEF op, l0
<1>9. /\ shop' = [sets |-> shop.sets, groups |-> shop.groups, members |-> shop.members]'
      /\ shop.sets \subseteq shop'.sets /\ shop.groups \subseteq shop'.groups /\ (v = "ok" => Effect(op)')
      /\ op.kind # "assign" => shop.members \subseteq shop'.members
      /\ UNCHANGED shop \/
           (op.kind = "assign" => /\ <<op.set, op.group, op.code>> \in shop'.members
                                  /\ \A m \in shop.members : m[1] # op.set \/ m[3] # op.code => m \in shop'.members)
  <2>1. CASE shop' = Sets!Applied(op)
    BY <1>5, <1>8, <2>1, AppliedIs
  <2>2. CASE v = "failed" /\ UNCHANGED shop
    BY <1>8, <2>2
  <2> QED BY <1>a, <2>1, <2>2
<1>10. SetTypes'
  BY <1>2, <1>7, <1>9, <1>a, OpsKept DEF SetsInv, SetTypes
<1>11. LogInv'
  <2>1. ASSUME NEW l \in log'
        PROVE  /\ l[1] \in 1 .. pass /\ l[3] \in {"ok", "failed"} /\ \E j \in DOMAIN rows : OpOf(l[2], j)
               /\ l[1] = pass => <<l[2], l[3]>> \in sent'
    <3>1. pass \in 1 .. pass
      BY DEF SetsInv, SetTypes
    <3>2. CASE l \in log
      BY <1>2, <1>a, <3>2 DEF SetsInv, LogInv
    <3>3. CASE l = l0
      BY <1>5, <1>6, <1>7, <1>a, <3>1, <3>3
    <3> QED BY <1>a, <3>2, <3>3
  <2>2. \A s \in sent' : \E l \in log' : s = <<l[2], l[3]>>
    BY <1>6, <1>a DEF SetsInv, LogInv
  <2>3. \A p \in done : \E l \in log' : l[2] = p /\ l[3] = "ok"
    BY <1>a DEF SetsInv, LogInv
  <2>4. \A l \in log', j \in active : l[1] < pass /\ l[2].set = rows[j].name => l[3] = "ok" /\ l[2] \in done
    BY <1>2, <1>6, <1>a DEF SetsInv, LogInv, SetTypes
  <2>5. ASSUME NEW l \in log', NEW k \in log', l[1] < k[1], l[2].set = k[2].set
        PROVE  l[2] # k[2] /\ l[3] = "ok"
    <3>1. l[1] < pass /\ l \in log
      <4>a. \A x \in log' : x[1] \in 1 .. pass
        BY <2>1
      <4>b. pass \in Nat
        BY DEF SetsInv, SetTypes
      <4>1. l[1] \in 1 .. pass /\ k[1] \in 1 .. pass /\ pass \in Nat
        BY <4>a, <4>b
      <4>2. l[1] < pass
        BY <2>5, <4>1
      <4>3. l # l0
        BY <1>6, <4>1, <4>2
      <4> QED BY <1>a, <4>2, <4>3
    <3>2. CASE k \in log
      BY <2>5, <3>1, <3>2 DEF SetsInv, LogInv, Sets!NothingAgain
    <3>3. CASE k = l0
      BY <1>4, <1>5, <1>6, <2>4, <2>5, <3>1, <3>3
    <3> QED BY <1>a, <3>2, <3>3
  <2>6. Sets!NothingAgain'
    BY <2>5 DEF Sets!NothingAgain
  <2> QED BY <1>2, <2>1, <2>2, <2>3, <2>4, <2>6, OpsKept DEF LogInv
<1>12. TodoInv'
  <2>1. Sets!NewOps(known)' = Sets!NewOps(known)
    BY <1>2, PlanNow
  <2>2. \A n \in Sets!NewOps(known) : n \in todo' \/ \E s \in sent' : s[1] = n[2]
    BY <1>1, <1>2, <1>6, <1>a DEF SetsInv, TodoInv, op
  <2> QED BY <1>1, <1>2, <2>1, <2>2 DEF SetsInv, TodoInv
<1>13. DropInv'
  BY <1>2 DEF SetsInv, DropInv
<1>14. ASSUME foreign = 0 PROVE EffectInv' /\ LevelInv' /\ PlaceInv'
  <2>1. EffectInv /\ LevelInv /\ PlaceInv
    BY <1>14 DEF SetsInv, AloneInv
  <2>2. \A p : Effect(p) => Effect(p)'
    BY <1>9 DEF Effect
  <2>3. EffectInv'
    BY <1>2, <1>6, <1>9, <1>a, <2>1, <2>2 DEF EffectInv
  <2>4. LevelInv'
    BY <1>2, <1>9, <2>1, OpsKept DEF LevelInv
  <2>5. ASSUME NEW l \in log', l[2].kind = "assign", l[3] = "ok"
        PROVE  \E k \in log' : /\ k[2].kind = "assign" /\ k[2].set = l[2].set /\ k[2].code = l[2].code
                               /\ <<k[2].set, k[2].group, k[2].code>> \in shop'.members
    <3>1. CASE l = l0
      <4>1. <<op.set, op.group, op.code>> \in shop'.members
        <5>1. shop' = Sets!Applied(op)
          BY <1>6, <1>a, <2>5, <3>1
        <5> QED BY <1>5, <1>6, <1>8, <2>5, <3>1, <5>1, AppliedIs
      <4> QED BY <1>6, <1>a, <2>5, <3>1, <4>1
    <3>2. CASE l \in log
      <4>1. PICK k \in log : /\ k[2].kind = "assign" /\ k[2].set = l[2].set /\ k[2].code = l[2].code
                             /\ <<k[2].set, k[2].group, k[2].code>> \in shop.members
        BY <2>1, <2>5, <3>2 DEF PlaceInv
      <4>2. CASE <<k[2].set, k[2].group, k[2].code>> \in shop'.members
        BY <1>a, <4>1, <4>2
      <4>3. CASE <<k[2].set, k[2].group, k[2].code>> \notin shop'.members
        <5> DEFINE m == <<k[2].set, k[2].group, k[2].code>>
        <5>1. m[1] = k[2].set /\ m[3] = k[2].code /\ m \in shop.members /\ m \notin shop'.members
          BY <4>1, <4>3
        <5> HIDE DEF m
        <5>2. op.kind = "assign" /\ op.set = k[2].set /\ op.code = k[2].code
              /\ <<op.set, op.group, op.code>> \in shop'.members
          BY <1>9, <5>1
        <5> QED BY <1>6, <1>a, <4>1, <5>2
      <4> QED BY <4>2, <4>3
    <3> QED BY <1>a, <3>1, <3>2
  <2>6. PlaceInv'
    BY <2>5 DEF PlaceInv
  <2> QED BY <2>3, <2>4, <2>6
<1>15. AloneInv'
  BY <1>2, <1>14 DEF AloneInv
<1> QED BY <1>10, <1>11, <1>12, <1>13, <1>15 DEF SetsInv

LEMMA EndPassStep ==
  ASSUME SetsInv, Sets!EndPass
  PROVE  SetsInv'
<1>1. PICK F : F = Sets!FailedRefs
  OBVIOUS
<1>2. /\ pc = "send" /\ todo = {}
      /\ failed' = failed \cup F /\ done' = done \cup {s[1] : s \in {t \in sent : t[1].set \notin F}}
      /\ active' = {i \in active : rows[i].name \notin F}
      /\ known' = <<>> /\ pass' = pass + 1 /\ pc' = "plan"
      /\ UNCHANGED <<rows, foreign, shop, todo, sent, touched, stuck, log>>
  BY <1>1 DEF Sets!EndPass, Sets!Refreshed, Sets!Unread, Sets!quiet, Sets!StaysActive
<1>3. /\ \A s \in sent : s[2] = "failed" => s[1].set \in F
      /\ Sets!UnknownBase(known) \subseteq F
      /\ \A n \in F : n \in Sets!UnknownBase(known) \/ \E s \in sent : s[1].set = n
  BY <1>1 DEF Sets!FailedRefs
<1>4. \A s \in sent : \E l \in log : s = <<l[2], l[3]>> /\ l[3] \in {"ok", "failed"} /\ l[2].set \in Sets!Names
  BY OpOfRow DEF SetsInv, LogInv, Sets!Names
<1>5. \A s \in sent : s[1].set \notin F => s[2] = "ok"
  BY <1>3, <1>4
<1>6. F \subseteq Sets!Names
  BY <1>3, <1>4, UnknownIs DEF SetsInv
<1>7. pass \in 1 .. 3 /\ pass' \in 1 .. 4
  BY <1>2 DEF SetsInv, SetTypes
<1>8. SetTypes'
  BY <1>2, <1>6, <1>7, OpsKept DEF SetsInv, SetTypes
<1>9. \A op \in done' : op \in done \/ \E s \in sent : s[1] = op /\ s[2] = "ok"
  BY <1>2, <1>5
<1>10. \A s \in sent : s[1].set \notin F => s[1] \in done'
  BY <1>2
<1>11. LogInv'
  <2>1. \A l \in log : l[1] \in 1 .. pass' /\ l[1] < pass'
    <3>1. \A l \in log : l[1] \in 1 .. pass
      BY DEF SetsInv, LogInv
    <3> QED BY <1>2, <1>7, <3>1
  <2>2. \A op \in done' : \E l \in log : l[2] = op /\ l[3] = "ok"
    <3> TAKE op \in done'
    <3>1. CASE op \in done
      BY <3>1 DEF SetsInv, LogInv
    <3>2. ASSUME NEW s \in sent, s[1] = op, s[2] = "ok" PROVE \E l \in log : l[2] = op /\ l[3] = "ok"
      <4>1. PICK l \in log : s = <<l[2], l[3]>>
        BY <1>4
      <4> QED BY <3>2, <4>1
    <3> QED BY <1>9, <3>1, <3>2
  <2>3. ASSUME NEW l \in log, NEW i \in active', l[2].set = rows[i].name
        PROVE  l[3] = "ok" /\ l[2] \in done'
    <3>1. i \in active /\ rows[i].name \notin F
      BY <1>2
    <3>2. CASE l[1] < pass
      BY <1>2, <2>3, <3>1, <3>2 DEF SetsInv, LogInv
    <3>3. CASE l[1] = pass
      <4> DEFINE s == <<l[2], l[3]>>
      <4>1. s \in sent /\ s[1] = l[2] /\ s[2] = l[3]
        BY <1>2, <3>3 DEF SetsInv, LogInv
      <4> HIDE DEF s
      <4> QED BY <1>5, <1>10, <2>3, <3>1, <4>1
    <3>4. l[1] \in 1 .. pass
      BY DEF SetsInv, LogInv
    <3> QED BY <1>7, <3>2, <3>3, <3>4
  <2>4. Sets!NothingAgain'
    BY <1>2 DEF SetsInv, LogInv, Sets!NothingAgain
  <2>5. \A l \in log' : l[3] \in {"ok", "failed"} /\ \E i \in DOMAIN rows' : OpOf(l[2], i)'
    <3>1. \A l \in log : l[3] \in {"ok", "failed"} /\ \E i \in DOMAIN rows : OpOf(l[2], i)
      BY DEF SetsInv, LogInv
    <3>2. log' = log /\ rows' = rows
      BY <1>2
    <3>3. \A op, i : OpOf(op, i)' = OpOf(op, i)
      BY <3>2, OpsKept
    <3> QED BY <3>1, <3>2, <3>3
  <2>6. \A s \in sent' : \E l \in log' : s = <<l[2], l[3]>>
    BY <1>2 DEF SetsInv, LogInv
  <2>7. pc' # "send" /\ log' = log /\ rows' = rows
    BY <1>2
  <2> QED BY <2>1, <2>2, <2>3, <2>4, <2>5, <2>6, <2>7 DEF LogInv
<1>12. TodoInv' /\ DropInv'
  BY <1>2 DEF SetsInv, TodoInv, DropInv
<1>13. ASSUME NEW i \in active', NEW o \in Sets!RowOps(i, known)
       PROVE  o[2] \in done'
  <2>1. i \in active /\ rows[i].name \notin F /\ o[2].set = rows[i].name
    BY <1>2, RowPlans
  <2>2. CASE o[2] \in done
    BY <1>2, <2>2
  <2>3. CASE o[2] \notin done
    <3>1. o \in Sets!NewOps(known)
      BY <2>1, <2>3, NewOpsHave
    <3>2. \E s \in sent : s[1] = o[2]
      BY <1>2, <3>1 DEF SetsInv, TodoInv
    <3> QED BY <1>10, <2>1, <3>2
  <2> QED BY <2>2, <2>3
<1>14. ASSUME foreign = 0 PROVE EffectInv' /\ LevelInv' /\ PlaceInv'
  <2>1. EffectInv /\ LevelInv /\ PlaceInv
    BY <1>14 DEF SetsInv, AloneInv
  <2>2. \A op : Effect(op)' <=> Effect(op)
    BY <1>2 DEF Effect
  <2>3. \A op \in done' : Effect(op)
    BY <1>9, <2>1 DEF EffectInv
  <2>4. EffectInv'
    BY <1>2, <2>1, <2>2, <2>3 DEF EffectInv
  <2>5. ASSUME NEW i \in active' PROVE rows[i].name \in shop.sets
    <3>1. i \in active /\ rows[i].name \notin Sets!UnknownBase(known)
      BY <1>2, <1>3
    <3>2. rows[i].name \in known.sets \/ rows[i].based \in known.sets
      BY <3>1, UnknownIs DEF SetsInv
    <3>3. CASE rows[i].name \in known.sets
      BY <1>2, <2>1, <3>3 DEF EffectInv
    <3>4. CASE rows[i].name \notin known.sets
      <4>1. PICK o \in Sets!RowOps(i, known) : o[2] = Sets!CreateSet(i)
        BY <3>2, <3>4, RowPlans
      <4>2. Effect(Sets!CreateSet(i))
        BY <1>13, <2>3, <4>1
      <4> QED BY <4>2, OpFields DEF Effect
    <3> QED BY <3>3, <3>4
  <2>6. ASSUME pass >= 2, NEW i \in active', NEW g \in DOMAIN rows[i].groups PROVE GroupOf(i, g) \in shop.groups
    <3>1. i \in active /\ rows[i].name \in known.sets
      BY <1>2, <2>1, <2>6 DEF LevelInv
    <3>2. CASE GroupOf(i, g) \in known.groups
      BY <1>2, <2>1, <3>2 DEF EffectInv
    <3>3. CASE GroupOf(i, g) \notin known.groups
      <4>1. PICK o \in Sets!RowOps(i, known) : o[2] = Sets!CreateGroup(i, g)
        BY <3>1, <3>3, RowPlans
      <4>2. Effect(Sets!CreateGroup(i, g))
        BY <1>13, <2>3, <4>1
      <4> QED BY <4>2, OpFields DEF Effect, GroupOf
    <3> QED BY <3>2, <3>3
  <2>7. ASSUME pass >= 3, NEW i \in active', NEW g \in DOMAIN rows[i].groups, NEW c \in DOMAIN rows[i].groups[g].codes
        PROVE  Sets!Assign(i, g, c) \in done'
    <3>1. i \in active /\ rows[i].name \in known.sets /\ GroupOf(i, g) \in known.groups
      BY <1>2, <1>7, <2>1, <2>7 DEF LevelInv
    <3>2. PICK o \in Sets!RowOps(i, known) : o[2] = Sets!Assign(i, g, c)
      BY <3>1, RowPlans
    <3> QED BY <1>13, <3>2
  <2>8. (pass' >= 3 => pass >= 2) /\ (pass' >= 4 => pass >= 3)
    BY <1>2, <1>7
  <2>9. LevelInv'
    BY <1>2, <2>1, <2>5, <2>6, <2>7, <2>8, OpsKept DEF LevelInv
  <2>10. PlaceInv'
    BY <1>2, <2>1 DEF PlaceInv
  <2> QED BY <2>4, <2>9, <2>10
<1>15. AloneInv'
  BY <1>2, <1>14 DEF AloneInv
<1> QED BY <1>8, <1>11, <1>12, <1>15 DEF SetsInv

LEMMA CheckStep ==
  ASSUME SetsInv, Sets!Check
  PROVE  SetsInv'
<1>1. PICK v : v = Sets!View
  OBVIOUS
<1>2. /\ pc = "plan" /\ pass > 3 /\ known' = v /\ stuck' = {o[2].set : o \in Sets!NewOps(v)}
      /\ failed' = failed \cup Sets!UnknownBase(v) \cup stuck' /\ pc' = "fold"
      /\ UNCHANGED <<rows, foreign, shop, pass, active, todo, sent, done, touched, log>>
  BY <1>1 DEF Sets!Check, Sets!Passes, Sets!quiet, Sets!Stuck
<1>3. v.sets = shop.sets /\ v.groups = shop.groups
  BY <1>1, <1>2, ViewIs DEF SetsInv
<1>4. Sets!NewOps(known)' = Sets!NewOps(v) /\ Sets!UnknownBase(known)' = Sets!UnknownBase(v)
  BY <1>2, PlanNow
<1>5. Sets!UnknownBase(v) \subseteq Sets!Names
  BY UnknownIs DEF SetsInv
<1>6. stuck' \subseteq Sets!Names
  BY <1>2, NewOpsAre DEF SetsInv, SetTypes, Sets!Names
<1>7. SetTypes'
  BY <1>2, <1>5, <1>6, OpsKept DEF SetsInv, SetTypes
<1>8. LogInv'
  BY <1>2, OpsKept DEF SetsInv, LogInv, Sets!NothingAgain
<1>9. TodoInv' /\ DropInv'
  BY <1>2, <1>4 DEF SetsInv, TodoInv, DropInv
<1>10. ASSUME foreign = 0 PROVE EffectInv' /\ LevelInv' /\ PlaceInv'
  <2>1. EffectInv /\ LevelInv /\ PlaceInv
    BY <1>10 DEF SetsInv, AloneInv
  <2>2. EffectInv'
    BY <1>2, <1>3, <2>1 DEF EffectInv, Effect
  <2>3. PlaceInv'
    BY <1>2, <2>1 DEF PlaceInv
  <2>4. pass \in 1 .. 4
    BY DEF SetsInv, SetTypes
  <2>5. ASSUME NEW o \in Sets!NewOps(v) PROVE FALSE
    <3>1. o[2] \notin done /\ \E i \in active : o \in Sets!RowOps(i, v)
      BY NewOpsAre
    <3>2. PICK i \in active : o \in Sets!RowOps(i, v)
      BY <3>1
    <3>3. rows[i].name \in v.sets /\ \A g \in DOMAIN rows[i].groups : GroupOf(i, g) \in v.groups
      BY <1>2, <1>3, <2>1, <2>4 DEF LevelInv
    <3>4. \E g \in DOMAIN rows[i].groups : \E c \in DOMAIN rows[i].groups[g].codes : o[2] = Sets!Assign(i, g, c)
      BY <3>2, <3>3, RowAssigns
    <3> QED BY <1>2, <2>1, <2>4, <3>1, <3>4 DEF LevelInv
  <2>6. stuck' = {}
    BY <1>2, <2>5
  <2>7. LevelInv'
    <3>1. pc' # "send" /\ pass' = pass /\ active' = active /\ rows' = rows /\ shop' = shop /\ done' = done
      BY <1>2
    <3>2. \A i \in active : rows[i].name \in shop.sets
      BY <1>2, <2>1, <2>4 DEF LevelInv
    <3>3. \A i \in active : \A g \in DOMAIN rows[i].groups : GroupOf(i, g) \in shop.groups
      BY <1>2, <2>1, <2>4 DEF LevelInv
    <3>4. \A i \in active : \A g \in DOMAIN rows[i].groups :
            \A c \in DOMAIN rows[i].groups[g].codes : Sets!Assign(i, g, c) \in done
      BY <1>2, <2>1, <2>4 DEF LevelInv
    <3> QED BY <2>6, <3>1, <3>2, <3>3, <3>4, OpsKept DEF LevelInv
  <2> QED BY <2>2, <2>3, <2>7
<1>11. AloneInv'
  BY <1>2, <1>10 DEF AloneInv
<1> QED BY <1>7, <1>8, <1>9, <1>11 DEF SetsInv

LEMMA SetsReturn ==
  ASSUME SetsInv,
         UNCHANGED <<rows, foreign, shop, pass, known, active, todo, sent, done, touched, failed, stuck, log>>,
         UNCHANGED pc \/ (pc = "fold" /\ pc' = "done")
  PROVE  SetsInv'
<1>1. SetTypes'
  BY OpsKept DEF SetsInv, SetTypes
<1>2. LogInv'
  BY OpsKept DEF SetsInv, LogInv, Sets!NothingAgain
<1>3. Sets!NewOps(known)' = Sets!NewOps(known) /\ Sets!UnknownBase(known)' = Sets!UnknownBase(known)
  BY PlanNow
<1>4. TodoInv' /\ DropInv'
  BY <1>3 DEF SetsInv, TodoInv, DropInv
<1>5. \A op : Effect(op)' <=> Effect(op)
  BY DEF Effect
<1>6. AloneInv'
  BY <1>5, OpsKept DEF SetsInv, AloneInv, EffectInv, LevelInv, PlaceInv
<1> QED BY <1>1, <1>2, <1>4, <1>6 DEF SetsInv

LEMMA SetsForeign ==
  ASSUME SetsInv, Sets!Foreign
  PROVE  SetsInv'
<1>1. /\ foreign' = foreign + 1
      /\ UNCHANGED <<rows, pc, pass, known, active, todo, sent, done, touched, failed, stuck, log>>
  BY DEF Sets!Foreign
<1>2. foreign' \in Nat /\ foreign' # 0
  BY <1>1 DEF SetsInv, SetTypes
<1>3. shop = [sets |-> shop.sets, groups |-> shop.groups, members |-> shop.members]
  BY DEF SetsInv, SetTypes
<1>4. \/ \E x : shop' = [shop EXCEPT !.sets = x]
      \/ \E x : shop' = [shop EXCEPT !.groups = x]
      \/ \E x, y : shop' = [shop EXCEPT !.groups = x, !.members = y]
  BY DEF Sets!Foreign, Sets!WithoutGroup
<1>5. (shop = [sets |-> shop.sets, groups |-> shop.groups, members |-> shop.members])'
  BY <1>3, <1>4
<1>6. SetTypes'
  BY <1>1, <1>2, <1>5, OpsKept DEF SetsInv, SetTypes
<1>7. LogInv'
  BY <1>1, OpsKept DEF SetsInv, LogInv, Sets!NothingAgain
<1>8. Sets!NewOps(known)' = Sets!NewOps(known) /\ Sets!UnknownBase(known)' = Sets!UnknownBase(known)
  BY <1>1, PlanNow
<1>9. TodoInv' /\ DropInv'
  BY <1>1, <1>8 DEF SetsInv, TodoInv, DropInv
<1>10. AloneInv'
  BY <1>2 DEF AloneInv
<1> QED BY <1>6, <1>7, <1>9, <1>10 DEF SetsInv

LEMMA SetsStepKeeps ==
  ASSUME SetsInv, Sets!Next
  PROVE  SetsInv'
<1>1. CASE Sets!Return
  BY <1>1, SetsReturn DEF Sets!Return, Sets!quiet
<1> QED BY <1>1, PlanStep, SendStep, EndPassStep, CheckStep, SetsForeign DEF Sets!Next

LEMMA SetCardinality == \A S : Sets!Cardinality(S) = Cardinality(S)
BY DEF Sets!Cardinality, Cardinality, Sets!IsFiniteSet, IsFiniteSet

LEMMA RowPlaces ==
  ASSUME SetTypes
  PROVE  /\ IsFiniteSet(DOMAIN rows) /\ Cardinality(DOMAIN rows) = Len(rows) /\ Len(rows) \in Nat
         /\ IsFiniteSet(Sets!Names)
<1>1. DOMAIN rows = 1 .. Len(rows) /\ Len(rows) \in Nat
  BY SetConstants DEF SetTypes
<1>2. IsFiniteSet(DOMAIN rows) /\ Cardinality(DOMAIN rows) = Len(rows)
  <2>1. IsFiniteSet(1 .. Len(rows)) /\ Cardinality(1 .. Len(rows)) = Len(rows)
    <3>1. 1 \in Int /\ Len(rows) \in Int /\ Len(rows) = IF 1 > Len(rows) THEN 0 ELSE Len(rows) - 1 + 1
      BY <1>1
    <3> QED BY ONLY <3>1, FS_Interval
  <2> QED BY <1>1, <2>1
<1> DEFINE f == [i \in DOMAIN rows |-> rows[i].name]
<1>3. f \in Surjection(DOMAIN rows, Sets!Names)
  BY DEF Surjection, Sets!Names
<1>4. IsFiniteSet(Sets!Names)
  BY <1>2, <1>3, FS_Surjection
<1> QED BY <1>1, <1>2, <1>4

LEMMA NamesDiffer ==
  ASSUME SetTypes, Sets!Unique
  PROVE  \A i, j \in DOMAIN rows : rows[i].name = rows[j].name => i = j
<1> DEFINE f == [i \in DOMAIN rows |-> rows[i].name]
<1>1. f \in Surjection(DOMAIN rows, Sets!Names)
  BY DEF Surjection, Sets!Names
<1>2. Cardinality(Sets!Names) = Cardinality(DOMAIN rows)
  BY RowPlaces, SetCardinality DEF Sets!Unique
<1>3. f \in Injection(DOMAIN rows, Sets!Names)
  BY <1>1, <1>2, RowPlaces, FS_Surjection
<1> QED BY <1>3 DEF Injection, IsInjective

\* Every row is in one of the three counts.
LEMMA CountsAre ==
  ASSUME SetTypes, Sets!Unique
  PROVE  Sets!Fold.succeeded + Sets!Fold.failed + Sets!Fold.unchanged = Len(rows)
<1> DEFINE T == touched \cup failed
           S == {i \in DOMAIN rows : rows[i].name \in T}
           R == {i \in DOMAIN rows : rows[i].name \notin T}
           f == [i \in S |-> rows[i].name]
<1>1. IsFiniteSet(touched) /\ IsFiniteSet(failed)
  BY RowPlaces, FS_Subset DEF SetTypes
<1>2. f \in Surjection(S, T)
  BY DEF Surjection, SetTypes, Sets!Names
<1>3. f \in Injection(S, T)
  BY NamesDiffer DEF Injection, IsInjective
<1>4. S \in SUBSET DOMAIN rows /\ R = DOMAIN rows \ S /\ DOMAIN rows \cap S = S
  OBVIOUS
<1> HIDE DEF f
<1>5. IsFiniteSet(S)
  BY <1>4, RowPlaces, FS_Subset
<1>6. Cardinality(T) = Cardinality(S) /\ IsFiniteSet(T)
  BY <1>2, <1>3, <1>5, FS_Surjection
<1>7. Cardinality(R) = Len(rows) - Cardinality(S)
  BY <1>4, RowPlaces, FS_Difference
<1>8. Cardinality(T) = Cardinality(touched) + Cardinality(failed) - Cardinality(touched \cap failed)
  BY <1>1, FS_Union
<1>9. Cardinality(touched \ failed) = Cardinality(touched) - Cardinality(touched \cap failed)
  BY <1>1, FS_Difference
<1>10. Cardinality(failed \ touched) = Cardinality(failed) - Cardinality(touched \cap failed)
  <2>1. failed \cap touched = touched \cap failed
    OBVIOUS
  <2> QED BY <1>1, <2>1, FS_Difference
<1>11. /\ Cardinality(touched) \in Nat /\ Cardinality(failed) \in Nat /\ Cardinality(S) \in Nat /\ Len(rows) \in Nat
       /\ Cardinality(touched \cap failed) \in Nat
  <2>1. IsFiniteSet(touched \cap failed)
    BY <1>1, FS_Subset
  <2> QED BY <1>1, <1>5, <2>1, RowPlaces, FS_CardinalityType
<1>12. /\ Sets!Fold.succeeded = Cardinality(touched \ failed)
       /\ Sets!Fold.failed = Cardinality(touched \cap failed) + Cardinality(failed \ touched)
       /\ Sets!Fold.unchanged = Cardinality(R)
  BY SetCardinality DEF Sets!Fold
<1> HIDE DEF S, R, T
<1> DEFINE a == Cardinality(touched)
           b == Cardinality(failed)
           x == Cardinality(touched \cap failed)
           n == Cardinality(S)
<1>13. /\ Sets!Fold.succeeded = a - x /\ Sets!Fold.failed = x + (b - x) /\ Sets!Fold.unchanged = Len(rows) - n
       /\ n = a + b - x
  BY <1>6, <1>7, <1>8, <1>9, <1>10, <1>12
<1>14. a \in Nat /\ b \in Nat /\ x \in Nat /\ n \in Nat /\ Len(rows) \in Nat
  BY <1>11
<1> HIDE DEF a, b, x, n
<1> QED BY <1>13, <1>14

LEMMA RowIsComplete ==
  ASSUME SetsInv, pc = "done", Sets!Unique, foreign = 0, NEW i \in DOMAIN rows, rows[i].name \notin failed
  PROVE  /\ rows[i].name \in shop.sets
         /\ \A g \in DOMAIN rows[i].groups :
              /\ GroupOf(i, g) \in shop.groups
              /\ \A c \in DOMAIN rows[i].groups[g].codes : \E h \in DOMAIN rows[i].groups :
                   /\ \E d \in DOMAIN rows[i].groups[h].codes : rows[i].groups[g].codes[c] = rows[i].groups[h].codes[d]
                   /\ <<rows[i].name, rows[i].groups[h].name, rows[i].groups[g].codes[c]>> \in shop.members
<1>1. EffectInv /\ PlaceInv
  BY DEF SetsInv, AloneInv
<1>2. i \in active /\ rows[i].name \notin Sets!UnknownBase(known)
  BY DEF SetsInv, DropInv
<1>3. known.sets = shop.sets /\ known.groups = shop.groups
  BY <1>1 DEF EffectInv
<1>4. \A o \in Sets!RowOps(i, known) : o[2] \in done
  BY <1>2, RowPlans, NewOpsHave DEF SetsInv, DropInv
<1>5. rows[i].name \in shop.sets
  <2> SUFFICES ASSUME rows[i].name \notin known.sets PROVE FALSE
    BY <1>3
  <2>1. rows[i].based \in known.sets
    BY <1>2, UnknownIs DEF SetsInv
  <2>2. Sets!CreateSet(i) \in done
    BY <1>4, <2>1, RowPlans
  <2> QED BY <1>1, <1>3, <2>2, OpFields DEF EffectInv, Effect
<1>6. ASSUME NEW g \in DOMAIN rows[i].groups PROVE GroupOf(i, g) \in shop.groups
  <2> SUFFICES ASSUME GroupOf(i, g) \notin known.groups PROVE FALSE
    BY <1>3
  <2>1. PICK o \in Sets!RowOps(i, known) : o[2] = Sets!CreateGroup(i, g)
    BY <1>3, <1>5, RowPlans
  <2>2. Effect(Sets!CreateGroup(i, g))
    BY <1>1, <1>4, <2>1 DEF EffectInv
  <2> QED BY <1>3, <2>2, OpFields DEF Effect, GroupOf
<1>7. ASSUME NEW g \in DOMAIN rows[i].groups, NEW c \in DOMAIN rows[i].groups[g].codes
      PROVE  \E h \in DOMAIN rows[i].groups :
               /\ \E d \in DOMAIN rows[i].groups[h].codes : rows[i].groups[g].codes[c] = rows[i].groups[h].codes[d]
               /\ <<rows[i].name, rows[i].groups[h].name, rows[i].groups[g].codes[c]>> \in shop.members
  <2> DEFINE code == rows[i].groups[g].codes[c]
             op == Sets!Assign(i, g, c)
  <2>1. PICK o \in Sets!RowOps(i, known) : o[2] = op
    BY <1>3, <1>5, <1>6, RowPlans
  <2>2. op.kind = "assign" /\ op.set = rows[i].name /\ op.code = code
    BY OpFields
  <2> HIDE DEF op, code
  <2>3. PICK l \in log : l[2] = op /\ l[3] = "ok"
    BY <1>4, <2>1 DEF SetsInv, LogInv
  <2>4. PICK k \in log : /\ k[2].kind = "assign" /\ k[2].set = rows[i].name /\ k[2].code = code
                         /\ <<k[2].set, k[2].group, k[2].code>> \in shop.members
    <3>1. l[2].kind = "assign" /\ l[2].set = rows[i].name /\ l[2].code = code
      BY <2>2, <2>3
    <3>2. \E k \in log : /\ k[2].kind = "assign" /\ k[2].set = l[2].set /\ k[2].code = l[2].code
                         /\ <<k[2].set, k[2].group, k[2].code>> \in shop.members
      BY <1>1, <2>3, <3>1 DEF PlaceInv
    <3> QED BY <3>1, <3>2
  <2>5. PICK j \in DOMAIN rows : OpOf(k[2], j)
    BY DEF SetsInv, LogInv
  <2>6. rows[j].name = rows[i].name
    BY <2>4, <2>5, OpOfRow
  <2>7. j = i
    BY <2>6, NamesDiffer DEF SetsInv
  <2>8. PICK h \in DOMAIN rows[i].groups :
          /\ k[2].group = rows[i].groups[h].name
          /\ \E d \in DOMAIN rows[i].groups[h].codes : k[2].code = rows[i].groups[h].codes[d]
    BY <2>4, <2>5, <2>7, OpOfRow
  <2> QED BY <2>4, <2>8 DEF code
<1> QED BY <1>5, <1>6, <1>7

LEMMA SetsSays ==
  ASSUME SetsInv
  PROVE  Sets!TypeOK /\ Sets!SucceededComplete /\ Sets!ThreeSuffice /\ Sets!NothingAgain /\ Sets!CountsAddUp
<1>1. Sets!TypeOK
  BY DEF SetsInv, SetTypes, LogInv, Sets!TypeOK
<1>2. Sets!SucceededComplete
  BY RowIsComplete DEF Sets!SucceededComplete, Sets!Range, GroupOf
<1>3. Sets!ThreeSuffice
  BY DEF SetsInv, AloneInv, LevelInv, Sets!ThreeSuffice
<1>4. Sets!NothingAgain
  BY DEF SetsInv, LogInv
<1>5. Sets!CountsAddUp
  BY CountsAre DEF SetsInv, Sets!CountsAddUp
<1> QED BY <1>1, <1>2, <1>3, <1>4, <1>5

LEMMA SetsInvariance == Spec => [](part = "sets" => SetsInv)
<1>1. Init => (part = "sets" => SetsInv)
  BY SetsInit DEF Init
<1>2. (part = "sets" => SetsInv) /\ [Next]_vars => (part = "sets" => SetsInv)'
  <2> SUFFICES ASSUME part = "sets" => SetsInv, [Next]_vars, (part = "sets")'
               PROVE  SetsInv'
    OBVIOUS
  <2>1. CASE SetsStep
    BY <2>1, SetsStepKeeps DEF SetsStep
  <2>2. CASE CategoriesStep \/ LabelsStep
    BY <2>2 DEF CategoriesStep, LabelsStep
  <2>3. CASE UNCHANGED vars
    BY <2>3, SetsReturn DEF vars, sets
  <2> QED BY <2>1, <2>2, <2>3 DEF Next
<1> QED BY <1>1, <1>2, PTL DEF Spec

\* Three passes complete every attribute set of a row that did not fail when
\* nobody else writes, nothing done is sent again, and every row is counted
\* once when the names differ, for every import and every shop (SetsComplete
\* of MCStructure).
THEOREM SetsAreComplete == Spec => []SetsComplete
<1>1. (part = "sets" => SetsInv) => SetsComplete
  BY SetsSays DEF SetsComplete
<1>2. Spec => [](part = "sets" => SetsInv)
  BY SetsInvariance
<1> QED BY <1>1, <1>2, PTL

---------------------------------------------------------------------------

\* The types of the three imports (TypeOK of MCStructure).
THEOREM StructureTypes == Spec => []TypeOK
<1>1. /\ part = "categories" => CategoryInv
      /\ part = "sets" => SetsInv
      /\ part = "labels" => OptionInv
      => TypeOK
  BY CategorySays, SetsSays, OptionsSays DEF TypeOK
<1>2. Spec => [](part = "categories" => CategoryInv)
  BY CategoryInvariance
<1>3. Spec => [](part = "sets" => SetsInv)
  BY SetsInvariance
<1>4. Spec => [](part = "labels" => OptionInv)
  BY OptionsInvariance
<1> QED BY <1>1, <1>2, <1>3, <1>4, PTL

=============================================================================
