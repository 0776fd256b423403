--------------------------- MODULE MCProductsProofs ---------------------------
(***************************************************************************)
(* Proofs about import_prices and import_products beside other clients of  *)
(* the store, as MCProducts composes them.  Each import has an invariant   *)
(* of its own (PriceInv, ProductInv): types, what the reads saw, the plan, *)
(* the verdicts, and, while nobody else writes, what the requests left in  *)
(* the store.  A lemma per action shows that it is kept, the theorems of   *)
(* each import follow.                                                     *)
(***************************************************************************)
EXTENDS MCProducts, Integers, WellFoundedInduction, TLAPS

---------------------------------------------------------------------------
(* Prices *)

Keys == Prices!Keys
Tiers0 == [site : Nat, rest : Value]
PriceStore == [base : [Keys -> Value \cup {None}], special : [Keys -> Prices!Special \cup {None}],
               tiers : [PricedSku -> SUBSET Tiers0]]
Lists == {"base", "special", "tiers", "tier-delete"}
TierList == {"tiers", "tier-delete"}

PriceTypes ==
  /\ input \in PriceInputs /\ merged = Prices!Merged
  /\ store \in PriceStore /\ snapshot \in PriceStore /\ store \in held
  /\ pc \in {"base", "special", "tiers", "plan", "send", "done"} /\ foreign \in Nat

\* Each part that was read was in the store, and is there still as long as
\* nobody changed anything.
PriceRead ==
  /\ pc # "base" => \E h \in held : snapshot.base = h.base
  /\ pc \notin {"base", "special"} => \E h \in held : snapshot.special = h.special
  /\ pc \notin {"base", "special", "tiers"} => \E h \in held : snapshot.tiers = h.tiers
  /\ foreign = 0 =>
       /\ pc \in {"special", "tiers", "plan"} => snapshot.base = store.base
       /\ pc \in {"tiers", "plan"} => snapshot.special = store.special
       /\ pc = "plan" => snapshot.tiers = store.tiers

\* What was planned.
PriceOps ==
  IF pc \in {"send", "done"}
  THEN /\ changed \subseteq DOMAIN merged
       /\ \A k \in DOMAIN merged \ changed : Prices!Matches(merged[k])
       /\ ops = UNION {Prices!RowOps(k) : k \in changed}
  ELSE changed = {} /\ ops = {}

\* A list is sent in one request.
PriceVerdicts ==
  pc \in {"send", "done"} =>
    /\ verdict \in [ops -> {"todo", "ok", "failed"}]
    /\ \A o, q \in ops : o[2] = q[2] => (verdict[o] = "todo" <=> verdict[q] = "todo")
    /\ pc = "done" => \A o \in ops : verdict[o] # "todo"

\* While nobody else writes: what was not sent is as it was read, what was
\* answered well is in the store.
BaseInv ==
  \A k \in Keys :
    /\ (\A o \in ops : o[2] = "base" /\ Prices!PlaceOf(o) = k => verdict[o] = "todo")
         => store.base[k] = snapshot.base[k]
    /\ \A o \in ops : o[2] = "base" /\ Prices!PlaceOf(o) = k /\ verdict[o] = "ok"
         => store.base[k] = o[3]

SpecialHas(special, item) ==
  /\ special.price = item.price
  /\ item.from \in {None, special.from} /\ item.to \in {None, special.to}
SpecialInv ==
  \A k \in Keys :
    /\ (\A o \in ops : o[2] = "special" /\ Prices!PlaceOf(o) = k => verdict[o] = "todo")
         => store.special[k] = snapshot.special[k]
    /\ \A o \in ops : o[2] = "special" /\ Prices!PlaceOf(o) = k /\ verdict[o] = "ok"
         => SpecialHas(store.special[k], o[3])

TierInv ==
  \A k \in changed : merged[k].tiers # None /\ ~Prices!Refused(merged[k]) =>
    LET s == merged[k].sku
    IN /\ (\A o \in ops : o[2] \in TierList /\ Prices!SkuOf(o) = s => verdict[o] = "todo")
            => store.tiers[s] = snapshot.tiers[s]
       /\ (\A o \in ops : o[2] \in TierList /\ Prices!SkuOf(o) = s => verdict[o] = "ok")
            => store.tiers[s] = Prices!SiteTiers(merged[k].tiers)

OtherTiersInv ==
  \A s \in PricedSku :
    (\A o \in ops : o[2] \in TierList => Prices!SkuOf(o) # s) => store.tiers[s] = snapshot.tiers[s]

EffectInv ==
  pc \in {"send", "done"} /\ foreign = 0 => BaseInv /\ SpecialInv /\ TierInv /\ OtherTiersInv

PriceInv == PriceTypes /\ PriceRead /\ PriceOps /\ PriceVerdicts /\ EffectInv

---------------------------------------------------------------------------

\* A set of numbers has a least one.
LEMMA LeastNumber ==
  ASSUME NEW S \in SUBSET Nat, S # {}
  PROVE  \E o \in S : \A q \in S : o <= q
<1> DEFINE R == {ss \in Nat \X Nat : ss[1] < ss[2]}
<1>1. IsWellFoundedOn(R, Nat)
  BY NatLessThanWellFounded DEF OpToRel
<1> HIDE DEF R
<1>2. PICK o \in S : \A q \in S : <<q, o>> \notin R
  BY <1>1, WFMin
<1>3. \A q \in S : ~(q < o)
  BY <1>2 DEF R
<1> QED BY <1>3

\* And one below a bound a greatest.
LEMMA GreatestNumber ==
  ASSUME NEW b \in Nat, NEW S \in SUBSET (0 .. b), S # {}
  PROVE  \E o \in S : \A q \in S : q <= o
<1> DEFINE T == {b - q : q \in S}
<1>1. T \in SUBSET Nat /\ T # {}
  <2>1. \A q \in S : q \in Nat /\ b - q \in Nat
    OBVIOUS
  <2> QED BY <2>1
<1>2. PICK t \in T : \A u \in T : t <= u
  BY <1>1, LeastNumber
<1>3. PICK o \in S : t = b - o
  OBVIOUS
<1>4. ASSUME NEW q \in S PROVE q <= o
  <2>1. b - q \in T /\ q \in Nat /\ o \in Nat
    OBVIOUS
  <2>2. t <= b - q
    BY <1>2, <2>1
  <2> QED BY <1>3, <2>1, <2>2
<1> QED BY <1>4

LEMMA PriceConstants ==
  /\ None \notin Value /\ None \notin Nat /\ MaxForeign \in Nat
  /\ Sites \in [DOMAIN Sites -> Nat]
  /\ PriceInputs \subseteq [diff : BOOLEAN, rows : Seq(Prices!Row)]
  /\ PricedStores \subseteq PriceStore
BY ProductsAssumption DEF Prices!PriceAssumption, PriceStore, Keys, Tiers0

\* The rows of the import.
LEMMA PriceRows ==
  ASSUME input \in PriceInputs
  PROVE  /\ Prices!rows \in Seq(Prices!Row)
         /\ Len(Prices!rows) \in Nat /\ DOMAIN Prices!rows = 1 .. Len(Prices!rows)
         /\ \A i \in DOMAIN Prices!rows :
              /\ Prices!rows[i] \in Prices!Row
              /\ Prices!rows[i].sku \in PricedSku /\ Prices!rows[i].store \in {0, 1}
              /\ Prices!KeyOf(Prices!rows[i]) \in Keys
<1>1. Prices!rows \in Seq(Prices!Row)
  BY PriceConstants DEF Prices!rows
<1>2. \A i \in DOMAIN Prices!rows : Prices!rows[i] \in Prices!Row
  BY <1>1
<1>3. \A i \in DOMAIN Prices!rows : Prices!rows[i].sku \in PricedSku /\ Prices!rows[i].store \in {0, 1}
  BY <1>2 DEF Prices!Row, Prices!Scope
<1> QED BY <1>1, <1>2, <1>3 DEF Prices!KeyOf, Keys, Prices!Keys, Prices!Scope

\* The last setting of a field is some row's.
LEMMA LastIsOfARow ==
  ASSUME input \in PriceInputs, NEW S \in SUBSET DOMAIN Prices!rows, NEW field,
         Prices!LastOf(S, field) # None
  PROVE  \E i \in S : Prices!rows[i][field] # None /\ Prices!LastOf(S, field) = Prices!rows[i][field]
<1> DEFINE T == {i \in S : Prices!rows[i][field] # None}
<1>1. T # {} /\ T \in SUBSET (0 .. Len(Prices!rows)) /\ Len(Prices!rows) \in Nat
  BY PriceRows DEF Prices!LastOf
<1>2. \E i \in T : \A j \in T : j <= i
  <2> HIDE DEF T
  <2> QED BY <1>1, GreatestNumber
<1>3. (CHOOSE i \in T : \A j \in T : j <= i) \in T
  BY <1>2
<1>4. Prices!LastOf(S, field) = Prices!rows[CHOOSE i \in T : \A j \in T : j <= i][field]
  BY <1>1 DEF Prices!LastOf
<1> QED BY <1>3, <1>4

\* Who set nothing, nothing is set.
LEMMA NoneIsLast ==
  ASSUME NEW field
  PROVE  Prices!LastOf({}, field) = None
BY DEF Prices!LastOf

---------------------------------------------------------------------------

\* A merged row: its values are settings of rows of its key, its tiers those of
\* its SKU if it is the SKU's first.
LEMMA MergedFacts ==
  ASSUME input \in PriceInputs, merged = Prices!Merged
  PROVE  /\ DOMAIN merged \subseteq DOMAIN Prices!rows /\ DOMAIN merged \subseteq Nat
         /\ \A k \in DOMAIN merged :
              /\ merged[k].sku \in PricedSku /\ Prices!KeyOf(merged[k]) \in Keys
              /\ Prices!KeyOf(merged[k]) = Prices!KeyOf(Prices!rows[k])
              /\ merged[k].sku = Prices!rows[k].sku
              /\ merged[k].price = Prices!LastOf(Prices!OfKey(Prices!KeyOf(merged[k])), "price")
              /\ merged[k].special = Prices!LastOf(Prices!OfKey(Prices!KeyOf(merged[k])), "special")
              /\ merged[k].from = Prices!LastOf(Prices!OfKey(Prices!KeyOf(merged[k])), "from")
              /\ merged[k].to = Prices!LastOf(Prices!OfKey(Prices!KeyOf(merged[k])), "to")
              /\ merged[k].tiers = IF Prices!RidesOn(k) THEN Prices!LastOf(Prices!OfSku(merged[k].sku), "tiers")
                                   ELSE None
              /\ Prices!KeyOf(merged[k])[1] = merged[k].sku
         /\ \A j, k \in DOMAIN merged : Prices!KeyOf(merged[j]) = Prices!KeyOf(merged[k]) => j = k
         /\ \A j, k \in DOMAIN merged :
              merged[j].tiers # None /\ merged[k].tiers # None /\ merged[j].sku = merged[k].sku => j = k
<1>1. DOMAIN merged = Prices!Firsts /\ Prices!Firsts \subseteq DOMAIN Prices!rows
  BY DEF Prices!Merged, Prices!Firsts
<1>2. DOMAIN Prices!rows \subseteq Nat
  BY PriceRows
<1>3. ASSUME NEW k \in DOMAIN merged
      PROVE  /\ merged[k].sku = Prices!rows[k].sku /\ merged[k].store = Prices!rows[k].store
             /\ merged[k].price = Prices!LastOf(Prices!OfKey(Prices!KeyOf(Prices!rows[k])), "price")
             /\ merged[k].special = Prices!LastOf(Prices!OfKey(Prices!KeyOf(Prices!rows[k])), "special")
             /\ merged[k].from = Prices!LastOf(Prices!OfKey(Prices!KeyOf(Prices!rows[k])), "from")
             /\ merged[k].to = Prices!LastOf(Prices!OfKey(Prices!KeyOf(Prices!rows[k])), "to")
             /\ merged[k].tiers = IF Prices!RidesOn(k) THEN Prices!LastOf(Prices!OfSku(Prices!rows[k].sku), "tiers")
                                  ELSE None
  BY <1>1, <1>3 DEF Prices!Merged
<1>4. ASSUME NEW k \in DOMAIN merged
      PROVE  /\ Prices!KeyOf(merged[k]) = Prices!KeyOf(Prices!rows[k])
             /\ Prices!KeyOf(merged[k]) \in Keys /\ merged[k].sku \in PricedSku
             /\ Prices!KeyOf(merged[k])[1] = merged[k].sku
  BY <1>1, <1>3, <1>4, PriceRows DEF Prices!KeyOf
<1>5. ASSUME NEW j \in DOMAIN merged, NEW k \in DOMAIN merged,
             Prices!KeyOf(merged[j]) = Prices!KeyOf(merged[k]), j < k
      PROVE  FALSE
  <2>1. j \in 1 .. k - 1
    BY <1>1, <1>5, PriceRows
  <2>2. Prices!KeyOf(Prices!rows[j]) = Prices!KeyOf(Prices!rows[k])
    BY <1>4, <1>5
  <2> QED BY <1>1, <2>1, <2>2 DEF Prices!Firsts
<1>6. ASSUME NEW j \in DOMAIN merged, NEW k \in DOMAIN merged,
             merged[j].tiers # None, merged[k].tiers # None, merged[j].sku = merged[k].sku, j < k
      PROVE  FALSE
  <2>1. j \in 1 .. k - 1
    BY <1>1, <1>6, PriceRows
  <2>2. Prices!RidesOn(k) /\ Prices!rows[j].sku = Prices!rows[k].sku
    BY <1>3, <1>6
  <2> QED BY <2>1, <2>2 DEF Prices!RidesOn
<1>7. DOMAIN merged \subseteq Nat
  BY <1>1, <1>2
<1>8. \A j, k \in DOMAIN merged : j = k \/ j < k \/ k < j
  BY <1>7
<1>9. \A j, k \in DOMAIN merged : Prices!KeyOf(merged[j]) = Prices!KeyOf(merged[k]) => j = k
  BY <1>5, <1>8
<1>10. \A j, k \in DOMAIN merged :
         merged[j].tiers # None /\ merged[k].tiers # None /\ merged[j].sku = merged[k].sku => j = k
  BY <1>6, <1>8
<1> QED BY <1>1, <1>3, <1>4, <1>7, <1>9, <1>10

\* The types of a merged row's values.
LEMMA MergedTypes ==
  ASSUME input \in PriceInputs, merged = Prices!Merged, NEW k \in DOMAIN merged
  PROVE  /\ merged[k].price \in Value \cup {None} /\ merged[k].special \in Value \cup {None}
         /\ merged[k].from \in Prices!Date /\ merged[k].to \in Prices!Date
         /\ merged[k].tiers # None => merged[k].tiers \in SUBSET [site : STRING, rest : Value]
<1> DEFINE key == Prices!KeyOf(merged[k])
           sku == merged[k].sku
<1>1. Prices!OfKey(key) \in SUBSET DOMAIN Prices!rows /\ Prices!OfSku(sku) \in SUBSET DOMAIN Prices!rows
  BY DEF Prices!OfKey, Prices!OfSku
<1>2. \A i \in DOMAIN Prices!rows :
        /\ Prices!rows[i].price \in Value \cup {None} /\ Prices!rows[i].special \in Value \cup {None}
        /\ Prices!rows[i].from \in Prices!Date /\ Prices!rows[i].to \in Prices!Date
        /\ Prices!rows[i].tiers \in (SUBSET [site : STRING, rest : Value]) \cup {None}
  BY PriceRows DEF Prices!Row
<1>3. None \in Prices!Date
  BY DEF Prices!Date
<1>4. Prices!LastOf(Prices!OfKey(key), "price") \in Value \cup {None}
  BY <1>1, <1>2, LastIsOfARow
<1>5. Prices!LastOf(Prices!OfKey(key), "special") \in Value \cup {None}
  BY <1>1, <1>2, LastIsOfARow
<1>6. Prices!LastOf(Prices!OfKey(key), "from") \in Prices!Date
  BY <1>1, <1>2, <1>3, LastIsOfARow
<1>7. Prices!LastOf(Prices!OfKey(key), "to") \in Prices!Date
  BY <1>1, <1>2, <1>3, LastIsOfARow
<1>8. Prices!LastOf(Prices!OfSku(sku), "tiers") \in (SUBSET [site : STRING, rest : Value]) \cup {None}
  BY <1>1, <1>2, LastIsOfARow
<1>9. /\ merged[k].price = Prices!LastOf(Prices!OfKey(key), "price")
      /\ merged[k].special = Prices!LastOf(Prices!OfKey(key), "special")
      /\ merged[k].from = Prices!LastOf(Prices!OfKey(key), "from")
      /\ merged[k].to = Prices!LastOf(Prices!OfKey(key), "to")
      /\ merged[k].tiers # None => merged[k].tiers = Prices!LastOf(Prices!OfSku(sku), "tiers")
  BY MergedFacts
<1> QED BY <1>4, <1>5, <1>6, <1>7, <1>8, <1>9

\* The operations of a row.
LEMMA RowOpsFacts ==
  ASSUME NEW k, ~Prices!Refused(merged[k])
  PROVE  /\ \A o \in Prices!RowOps(k) :
              /\ o = <<o[1], o[2], o[3]>> /\ o[1] = k
              /\ \/ o[2] = "base" /\ o[3] = merged[k].price /\ o[3] # None
                 \/ o[2] = "special" /\ o[3] = Prices!SpecialOf(merged[k]) /\ merged[k].special # None
                 \/ o[2] = "tiers" /\ merged[k].tiers \notin {None, {}} /\ o[3] \in Prices!SiteTiers(merged[k].tiers)
                 \/ o[2] = "tier-delete" /\ merged[k].tiers = {} /\ merged[k].tiers # None
                    /\ o[3] \in snapshot.tiers[merged[k].sku]
         /\ merged[k].price # None => <<k, "base", merged[k].price>> \in Prices!RowOps(k)
         /\ merged[k].special # None => <<k, "special", Prices!SpecialOf(merged[k])>> \in Prices!RowOps(k)
         /\ merged[k].tiers \notin {None, {}} =>
              \A t \in Prices!SiteTiers(merged[k].tiers) : <<k, "tiers", t>> \in Prices!RowOps(k)
         /\ merged[k].tiers # None /\ merged[k].tiers = {} =>
              \A t \in snapshot.tiers[merged[k].sku] : <<k, "tier-delete", t>> \in Prices!RowOps(k)
BY DEF Prices!RowOps

LEMMA RefusedOps == ASSUME NEW k, Prices!Refused(merged[k]) PROVE Prices!RowOps(k) = {}
BY DEF Prices!RowOps

\* What a website resolves to.
LEMMA SiteFacts ==
  ASSUME NEW code
  PROVE  /\ Prices!SiteOf(code) \in Nat \cup {None}
         /\ "all" \notin DOMAIN Sites => Prices!SiteOf(code) = Prices!DiffSite(code)
BY PriceConstants DEF Prices!SiteOf, Prices!DiffSite

\* The tiers of a row that is not refused.
LEMMA SiteTiersTyped ==
  ASSUME NEW row, row.tiers # None, ~Prices!Refused(row), row.tiers \in SUBSET [site : STRING, rest : Value]
  PROVE  Prices!SiteTiers(row.tiers) \in SUBSET Tiers0
<1> SUFFICES ASSUME NEW t \in row.tiers
             PROVE  [site |-> Prices!SiteOf(t.site), rest |-> t.rest] \in Tiers0
  BY DEF Prices!SiteTiers
<1>1. Prices!SiteOf(t.site) # None
  BY DEF Prices!Refused
<1>2. Prices!SiteOf(t.site) \in Nat
  BY <1>1, SiteFacts
<1>3. t.rest \in Value
  OBVIOUS
<1> QED BY <1>2, <1>3 DEF Tiers0

\* An operation that is planned.
PlannedOp(o) ==
  /\ o[1] \in changed /\ o[1] \in DOMAIN merged /\ ~Prices!Refused(merged[o[1]])
  /\ Prices!PlaceOf(o) \in Keys /\ Prices!SkuOf(o) \in PricedSku /\ o = <<o[1], o[2], o[3]>>
  /\ Prices!PlaceOf(o) = Prices!KeyOf(merged[o[1]]) /\ Prices!SkuOf(o) = merged[o[1]].sku
  /\ \/ o[2] = "base" /\ o[3] = merged[o[1]].price /\ o[3] \in Value /\ o[3] # None
     \/ o[2] = "special" /\ o[3] = Prices!SpecialOf(merged[o[1]]) /\ o[3] \in Prices!Special
        /\ merged[o[1]].special # None
     \/ /\ o[2] = "tiers" /\ merged[o[1]].tiers \notin {None, {}}
        /\ o[3] \in Prices!SiteTiers(merged[o[1]].tiers) /\ o[3] \in Tiers0
     \/ /\ o[2] = "tier-delete" /\ merged[o[1]].tiers = {} /\ merged[o[1]].tiers # None
        /\ o[3] \in snapshot.tiers[merged[o[1]].sku]
LEMMA PlannedOps ==
  ASSUME PriceTypes, PriceOps
  PROVE  \A o \in ops : PlannedOp(o)
<1> SUFFICES ASSUME NEW o \in ops PROVE PlannedOp(o)
  OBVIOUS
<1>1. /\ pc \in {"send", "done"} /\ input \in PriceInputs /\ merged = Prices!Merged
      /\ changed \subseteq DOMAIN merged /\ ops = UNION {Prices!RowOps(k) : k \in changed}
  BY DEF PriceTypes, PriceOps
<1>2. PICK k \in changed : o \in Prices!RowOps(k)
  BY <1>1
<1>3. ~Prices!Refused(merged[k])
  BY <1>2, RefusedOps
<1>4. /\ o = <<o[1], o[2], o[3]>> /\ o[1] = k
      /\ \/ o[2] = "base" /\ o[3] = merged[k].price /\ o[3] # None
         \/ o[2] = "special" /\ o[3] = Prices!SpecialOf(merged[k]) /\ merged[k].special # None
         \/ o[2] = "tiers" /\ merged[k].tiers \notin {None, {}} /\ o[3] \in Prices!SiteTiers(merged[k].tiers)
         \/ o[2] = "tier-delete" /\ merged[k].tiers = {} /\ merged[k].tiers # None
            /\ o[3] \in snapshot.tiers[merged[k].sku]
  BY <1>2, <1>3, RowOpsFacts
<1>5. k \in DOMAIN merged /\ Prices!KeyOf(merged[k]) \in Keys /\ merged[k].sku \in PricedSku
  BY <1>1, MergedFacts
<1>6. Prices!PlaceOf(o) = Prices!KeyOf(merged[k]) /\ Prices!SkuOf(o) = merged[k].sku
  BY <1>4 DEF Prices!PlaceOf, Prices!SkuOf
<1>7. o[2] = "base" => o[3] \in Value
  BY <1>1, <1>4, <1>5, MergedTypes
<1>8. o[2] = "special" => o[3] \in Prices!Special
  <2> SUFFICES ASSUME merged[k].special # None PROVE Prices!SpecialOf(merged[k]) \in Prices!Special
    BY <1>4
  <2>1. merged[k].special \in Value /\ merged[k].from \in Prices!Date /\ merged[k].to \in Prices!Date
    BY <1>1, <1>5, MergedTypes
  <2> QED BY <2>1 DEF Prices!SpecialOf, Prices!Special
<1>9. o[2] = "tiers" => o[3] \in Tiers0
  <2> SUFFICES ASSUME merged[k].tiers # None PROVE Prices!SiteTiers(merged[k].tiers) \in SUBSET Tiers0
    BY <1>4
  <2>1. merged[k].tiers \in SUBSET [site : STRING, rest : Value]
    BY <1>1, <1>5, MergedTypes
  <2> QED BY <1>3, <2>1, SiteTiersTyped
<1> QED BY <1>2, <1>3, <1>4, <1>5, <1>6, <1>7, <1>8, <1>9 DEF PlannedOp

\* Two operations of one list and place are one, and the tiers of a SKU come
\* from one row, in one list.
LEMMA OneOpPerPlace ==
  ASSUME PriceTypes, PriceOps, NEW o \in ops, NEW q \in ops
  PROVE  /\ o[2] = q[2] /\ o[2] \in {"base", "special"} /\ Prices!PlaceOf(o) = Prices!PlaceOf(q) => o = q
         /\ o[2] \in TierList /\ q[2] \in TierList /\ Prices!SkuOf(o) = Prices!SkuOf(q)
              => o[1] = q[1] /\ o[2] = q[2]
<1>1. PlannedOp(o) /\ PlannedOp(q) /\ input \in PriceInputs /\ merged = Prices!Merged
  BY PlannedOps DEF PriceTypes
<1>2. ASSUME o[2] = q[2], o[2] \in {"base", "special"}, Prices!PlaceOf(o) = Prices!PlaceOf(q) PROVE o = q
  <2>1. o[1] = q[1]
    BY <1>1, <1>2, MergedFacts DEF PlannedOp
  <2>2. o[3] = q[3]
    BY <1>1, <1>2, <2>1 DEF PlannedOp
  <2> QED BY <1>1, <1>2, <2>1, <2>2 DEF PlannedOp
<1>3. ASSUME o[2] \in TierList, q[2] \in TierList, Prices!SkuOf(o) = Prices!SkuOf(q)
      PROVE  o[1] = q[1] /\ o[2] = q[2]
  <2>1. merged[o[1]].tiers # None /\ merged[q[1]].tiers # None /\ merged[o[1]].sku = merged[q[1]].sku
    BY <1>1, <1>3 DEF PlannedOp, TierList
  <2>2. o[1] = q[1]
    BY <1>1, <2>1, MergedFacts DEF PlannedOp
  <2> QED BY <1>1, <1>3, <2>2 DEF PlannedOp, TierList
<1> QED BY <1>2, <1>3

---------------------------------------------------------------------------

LEMMA PriceInit == Prices!Init => PriceInv
<1> SUFFICES ASSUME Prices!Init PROVE PriceInv
  OBVIOUS
<1>1. PriceTypes
  <2>1. snapshot \in PriceStore
    BY DEF Prices!Init, PriceStore, Keys
  <2>2. store \in PriceStore
    BY PriceConstants DEF Prices!Init
  <2> QED BY <2>1, <2>2 DEF Prices!Init, PriceTypes
<1> QED BY <1>1 DEF PriceInv, Prices!Init, PriceRead, PriceOps, PriceVerdicts, EffectInv

\* What an action leaves alone that does not write input, snapshot or plan.
LEMMA MergedKept == UNCHANGED input => UNCHANGED Prices!Merged
BY DEF Prices!Merged, Prices!Firsts, Prices!RidesOn, Prices!OfKey, Prices!OfSku, Prices!LastOf, Prices!KeyOf,
  Prices!rows

LEMMA MatchesKept ==
  ASSUME NEW row, UNCHANGED snapshot
  PROVE  Prices!Matches(row) => Prices!Matches(row)'
BY DEF Prices!Matches, Prices!SpecialOf, Prices!DiffTiers, Prices!KeyOf, Prices!DiffSite

LEMMA RowOpsKept ==
  ASSUME NEW k, UNCHANGED <<merged, snapshot>>
  PROVE  Prices!RowOps(k)' = Prices!RowOps(k)
BY DEF Prices!RowOps, Prices!Refused, Prices!SiteOf, Prices!SiteTiers, Prices!SpecialOf

LEMMA PriceOpsKept ==
  ASSUME PriceOps, UNCHANGED <<merged, snapshot, changed, ops>>,
         pc \in {"send", "done"} <=> pc' \in {"send", "done"}
  PROVE  PriceOps'
<1>1. \A k : Prices!Matches(merged[k]) => Prices!Matches(merged[k])'
  <2>1. \A k : merged'[k] = merged[k]
    OBVIOUS
  <2> QED BY <2>1 DEF Prices!Matches, Prices!SpecialOf, Prices!DiffTiers, Prices!KeyOf, Prices!DiffSite
<1>2. \A k : Prices!RowOps(k)' = Prices!RowOps(k)
  BY RowOpsKept
<1>3. UNCHANGED {Prices!RowOps(k) : k \in changed}
  BY <1>2
<1> QED BY <1>1, <1>3 DEF PriceOps

\* A change by others.
LEMMA PriceForeign == PriceInv /\ Prices!Foreign => PriceInv'
<1> SUFFICES ASSUME PriceInv, Prices!Foreign PROVE PriceInv'
  OBVIOUS
<1>1. /\ UNCHANGED <<input, pc, snapshot, merged, changed, ops, verdict>>
      /\ held' = held \cup {store'} /\ foreign' = foreign + 1
  BY DEF Prices!Foreign
<1>2. PriceTypes /\ PriceRead /\ PriceOps /\ PriceVerdicts
  BY DEF PriceInv
<1>3. store' \in PriceStore
  <2>1. PICK s \in PricedSku, v \in Value :
          \/ store' = [store EXCEPT !.base[<<s, 0>>] = v]
          \/ store' = [store EXCEPT !.special[<<s, 0>>] = [price |-> v, from |-> None, to |-> None]]
          \/ store' = [store EXCEPT !.tiers[s] = {[site |-> 0, rest |-> v]}]
    BY DEF Prices!Foreign
  <2>2. store \in PriceStore
    BY <1>2 DEF PriceTypes
  <2>3. [price |-> v, from |-> None, to |-> None] \in Prices!Special
    BY DEF Prices!Special, Prices!Date
  <2>4. {[site |-> 0, rest |-> v]} \in SUBSET Tiers0
    BY DEF Tiers0
  <2>5. CASE store' = [store EXCEPT !.base[<<s, 0>>] = v]
    BY <2>2, <2>5 DEF PriceStore
  <2>6. CASE store' = [store EXCEPT !.special[<<s, 0>>] = [price |-> v, from |-> None, to |-> None]]
    BY <2>2, <2>3, <2>6 DEF PriceStore
  <2>7. CASE store' = [store EXCEPT !.tiers[s] = {[site |-> 0, rest |-> v]}]
    BY <2>2, <2>4, <2>7 DEF PriceStore
  <2> QED BY <2>1, <2>5, <2>6, <2>7
<1>4. PriceTypes'
  BY <1>1, <1>2, <1>3, MergedKept, PriceConstants DEF PriceTypes
<1>5. PriceRead'
  BY <1>1, <1>2 DEF PriceRead, PriceTypes
<1>6. PriceOps'
  BY <1>1, <1>2, PriceOpsKept
<1>7. EffectInv'
  BY <1>1, <1>2 DEF EffectInv, PriceTypes
<1> QED BY <1>1, <1>2, <1>4, <1>5, <1>6, <1>7 DEF PriceInv, PriceVerdicts

\* One of the three reads.
LEMMA PriceReads == PriceInv /\ Prices!Read => PriceInv'
<1> SUFFICES ASSUME PriceInv, Prices!Read PROVE PriceInv'
  OBVIOUS
<1>1. /\ UNCHANGED <<input, foreign, store, held, merged, changed, ops, verdict>>
      /\ snapshot' = [snapshot EXCEPT ![pc] = store[pc]]
      /\ \/ pc = "base" /\ pc' = "special"
         \/ pc = "special" /\ pc' = "tiers"
         \/ pc = "tiers" /\ pc' = "plan"
  BY DEF Prices!Read, Prices!After
<1>2. PriceTypes /\ PriceRead /\ PriceOps
  BY DEF PriceInv
<1>3. store \in PriceStore /\ snapshot \in PriceStore /\ store \in held
  BY <1>2 DEF PriceTypes
<1>4. snapshot' = [base |-> IF pc = "base" THEN store.base ELSE snapshot.base,
                   special |-> IF pc = "special" THEN store.special ELSE snapshot.special,
                   tiers |-> IF pc = "tiers" THEN store.tiers ELSE snapshot.tiers]
  BY <1>1, <1>3 DEF PriceStore
<1>5. /\ snapshot'.base = IF pc = "base" THEN store.base ELSE snapshot.base
      /\ snapshot'.special = IF pc = "special" THEN store.special ELSE snapshot.special
      /\ snapshot'.tiers = IF pc = "tiers" THEN store.tiers ELSE snapshot.tiers
  BY ONLY <1>4
<1>6. snapshot' \in PriceStore
  BY <1>3, <1>4 DEF PriceStore
<1>7. PriceTypes'
  BY <1>1, <1>2, <1>6, MergedKept DEF PriceTypes
<1>8. PriceRead'
  BY <1>1, <1>2, <1>3, <1>5 DEF PriceRead
<1>9. PriceOps'
  BY <1>1, <1>2 DEF PriceOps
<1> QED BY <1>1, <1>7, <1>8, <1>9 DEF PriceInv, PriceVerdicts, EffectInv

\* What the rows that differ become.
LEMMA PricePlans == PriceInv /\ Prices!Plan => PriceInv'
<1> SUFFICES ASSUME PriceInv, Prices!Plan PROVE PriceInv'
  OBVIOUS
<1>1. /\ UNCHANGED <<input, foreign, store, held, snapshot, merged>> /\ pc = "plan" /\ pc' = "send"
      /\ changed' = {k \in DOMAIN merged : Prices!Differs(merged[k])}
      /\ ops' = UNION {Prices!RowOps(k) : k \in changed'} /\ verdict' = [o \in ops' |-> "todo"]
  BY DEF Prices!Plan
<1>2. PriceTypes /\ PriceRead
  BY DEF PriceInv
<1>3. PriceTypes'
  BY <1>1, <1>2, MergedKept DEF PriceTypes
<1>4. PriceRead'
  BY <1>1, <1>2 DEF PriceRead
<1>5. PriceOps'
  <2>1. \A k \in DOMAIN merged \ changed' : Prices!Matches(merged[k])
    BY <1>1 DEF Prices!Differs
  <2>2. \A k : Prices!Matches(merged[k]) => Prices!Matches(merged[k])'
    <3>1. \A k : merged'[k] = merged[k]
      BY <1>1
    <3> QED BY <1>1, <3>1 DEF Prices!Matches, Prices!SpecialOf, Prices!DiffTiers, Prices!KeyOf, Prices!DiffSite
  <2>3. \A k : Prices!RowOps(k)' = Prices!RowOps(k)
    BY <1>1, RowOpsKept
  <2>4. ops' = UNION {Prices!RowOps(k)' : k \in changed'}
    BY <1>1, <2>3
  <2> QED BY <1>1, <2>1, <2>2, <2>4 DEF PriceOps
<1>6. PriceVerdicts'
  BY <1>1 DEF PriceVerdicts
<1>7. PICK news, newo, newv : news = changed' /\ newo = ops' /\ newv = verdict'
  OBVIOUS
<1>8. EffectInv'
  <2> SUFFICES ASSUME foreign = 0 PROVE (BaseInv /\ SpecialInv /\ TierInv /\ OtherTiersInv)'
    BY <1>1 DEF EffectInv
  <2>1. snapshot.base = store.base /\ snapshot.special = store.special /\ snapshot.tiers = store.tiers
    BY <1>1, <1>2 DEF PriceRead
  <2>2. \A o \in ops' : verdict'[o] = "todo"
    BY <1>1
  <2>3. BaseInv' /\ SpecialInv'
    BY <1>1, <2>1, <2>2 DEF BaseInv, SpecialInv
  <2>4. OtherTiersInv'
    BY <1>1, <2>1 DEF OtherTiersInv
  <2>5. ASSUME NEW k \in changed', merged[k].tiers # None, ~Prices!Refused(merged[k]),
               \A o \in ops' : o[2] \in TierList /\ merged[o[1]].sku = merged[k].sku => verdict'[o] = "ok"
        PROVE  store.tiers[merged[k].sku] = Prices!SiteTiers(merged[k].tiers)
    <3>1. Prices!RowOps(k) \subseteq ops'
      BY <1>1, <2>5
    <3>2. \A o \in Prices!RowOps(k) : o[1] = k
      BY <2>5, RowOpsFacts
    <3>3. \A o \in Prices!RowOps(k) : o[2] \notin TierList
      BY <2>2, <2>5, <3>1, <3>2
    <3>4. \A t \in Prices!SiteTiers(merged[k].tiers) : merged[k].tiers = {}
      <4> SUFFICES ASSUME NEW t \in Prices!SiteTiers(merged[k].tiers), merged[k].tiers # {} PROVE FALSE
        OBVIOUS
      <4>1. <<k, "tiers", t>> \in Prices!RowOps(k)
        BY <2>5, RowOpsFacts
      <4> QED BY <3>3, <4>1 DEF TierList
    <3>5. merged[k].tiers = {}
      <4> SUFFICES ASSUME merged[k].tiers # {} PROVE FALSE
        OBVIOUS
      <4>1. k \in DOMAIN merged /\ merged[k].tiers \in SUBSET [site : STRING, rest : Value]
        BY <1>1, <1>2, <2>5, MergedTypes DEF PriceTypes
      <4>2. PICK t \in merged[k].tiers : TRUE
        BY <4>1
      <4>3. [site |-> Prices!SiteOf(t.site), rest |-> t.rest] \in Prices!SiteTiers(merged[k].tiers)
        BY DEF Prices!SiteTiers
      <4> QED BY <3>4, <4>3
    <3>6. \A t \in snapshot.tiers[merged[k].sku] : FALSE
      <4> SUFFICES ASSUME NEW t \in snapshot.tiers[merged[k].sku] PROVE FALSE
        OBVIOUS
      <4>1. <<k, "tier-delete", t>> \in Prices!RowOps(k)
        BY <2>5, <3>5, RowOpsFacts
      <4> QED BY <3>3, <4>1 DEF TierList
    <3>7. Prices!SiteTiers(merged[k].tiers) = {}
      BY <3>5 DEF Prices!SiteTiers
    <3> QED BY <2>1, <3>6, <3>7
  <2>6. TierInv'
    <3>1. \A k : Prices!Refused(merged[k])' = Prices!Refused(merged[k])
             /\ Prices!SiteTiers(merged[k].tiers)' = Prices!SiteTiers(merged[k].tiers)
      BY <1>1 DEF Prices!Refused, Prices!SiteOf, Prices!SiteTiers
    <3>2. \A o : Prices!SkuOf(o)' = merged[o[1]].sku
      BY <1>1 DEF Prices!SkuOf
    <3> QED BY <1>1, <2>1, <2>5, <3>1, <3>2 DEF TierInv
  <2> QED BY <2>3, <2>4, <2>6
<1> QED BY <1>3, <1>4, <1>5, <1>6, <1>8 DEF PriceInv

LEMMA EffectKept ==
  ASSUME UNCHANGED <<store, snapshot, merged, changed, ops, verdict>>
  PROVE  BaseInv /\ SpecialInv /\ TierInv /\ OtherTiersInv => (BaseInv /\ SpecialInv /\ TierInv /\ OtherTiersInv)'
<1>1. \A k : Prices!Refused(merged[k])' = Prices!Refused(merged[k])
           /\ Prices!SiteTiers(merged[k].tiers)' = Prices!SiteTiers(merged[k].tiers)
  BY DEF Prices!Refused, Prices!SiteOf, Prices!SiteTiers
<1>2. \A o : Prices!SkuOf(o)' = Prices!SkuOf(o) /\ Prices!PlaceOf(o)' = Prices!PlaceOf(o)
  BY DEF Prices!SkuOf, Prices!PlaceOf, Prices!KeyOf
<1> QED BY <1>1, <1>2 DEF BaseInv, SpecialInv, TierInv, OtherTiersInv

LEMMA PriceReturn == PriceInv /\ Prices!Return => PriceInv'
<1> SUFFICES ASSUME PriceInv, Prices!Return PROVE PriceInv'
  OBVIOUS
<1>1. /\ UNCHANGED <<input, foreign, store, held, snapshot, merged, changed, ops, verdict>>
      /\ pc = "send" /\ Prices!Todo = {} /\ pc' = "done"
  BY DEF Prices!Return
<1>2. PriceTypes /\ PriceRead /\ PriceOps /\ PriceVerdicts /\ EffectInv
  BY DEF PriceInv
<1>3. PriceTypes' /\ PriceRead' /\ PriceOps'
  BY <1>1, <1>2, MergedKept, PriceOpsKept DEF PriceTypes, PriceRead
<1>4. PriceVerdicts'
  BY <1>1, <1>2 DEF PriceVerdicts, Prices!Todo
<1>5. EffectInv'
  BY <1>1, <1>2, EffectKept DEF EffectInv
<1> QED BY <1>3, <1>4, <1>5 DEF PriceInv

\* The item of an operation is the one its place gets.
LEMMA ItemIsAt ==
  ASSUME PriceTypes, PriceOps, NEW list \in {"base", "special"}, NEW A \in SUBSET ops, \A o \in A : o[2] = list,
         NEW o \in A
  PROVE  Prices!ItemAt(A, Prices!PlaceOf(o)) = o[3]
<1> DEFINE Is(q) == q \in A /\ Prices!PlaceOf(q) = Prices!PlaceOf(o)
<1>1. \A q : Is(q) => q = o
  BY OneOpPerPlace
<1>2. Is(CHOOSE q : Is(q))
  <2>1. Is(o)
    OBVIOUS
  <2> QED BY <2>1
<1>3. (CHOOSE q \in A : Prices!PlaceOf(q) = Prices!PlaceOf(o)) = o
  BY <1>1, <1>2
<1> QED BY <1>3 DEF Prices!ItemAt

\* What a request leaves in the store when the items A of it are saved.
LEMMA BaseSaved ==
  ASSUME PriceTypes, PriceOps, NEW A \in SUBSET ops, \A o \in A : o[2] = "base", NEW new \in Prices!Saved("base", A)
  PROVE  /\ new \in PriceStore /\ new.special = store.special /\ new.tiers = store.tiers
         /\ \A k \in Keys : (\A o \in A : Prices!PlaceOf(o) # k) => new.base[k] = store.base[k]
         /\ \A o \in A : new.base[Prices!PlaceOf(o)] = o[3]
<1> DEFINE places == {Prices!PlaceOf(o) : o \in A}
           Base == [k \in Keys |-> IF k \in places THEN Prices!ItemAt(A, k) ELSE store.base[k]]
<1>1. new = [store EXCEPT !.base = Base]
  BY DEF Prices!Saved, Keys
<1>2. store \in PriceStore
  BY DEF PriceTypes
<1>3. new = [base |-> Base, special |-> store.special, tiers |-> store.tiers]
  BY <1>1, <1>2 DEF PriceStore
<1>4. new.base = Base /\ new.special = store.special /\ new.tiers = store.tiers
  BY ONLY <1>3
<1>5. \A o \in A : o[3] \in Value /\ Prices!PlaceOf(o) \in Keys /\ Prices!ItemAt(A, Prices!PlaceOf(o)) = o[3]
  BY PlannedOps, ItemIsAt DEF PlannedOp
<1>6. Base \in [Keys -> Value \cup {None}]
  BY <1>2, <1>5 DEF PriceStore
<1> QED BY <1>2, <1>3, <1>4, <1>5, <1>6 DEF PriceStore

LEMMA SpecialSaved ==
  ASSUME PriceTypes, PriceOps, NEW A \in SUBSET ops, \A o \in A : o[2] = "special", NEW new \in Prices!Saved("special", A)
  PROVE  /\ new \in PriceStore /\ new.base = store.base /\ new.tiers = store.tiers
         /\ \A k \in Keys : (\A o \in A : Prices!PlaceOf(o) # k) => new.special[k] = store.special[k]
         /\ \A o \in A : SpecialHas(new.special[Prices!PlaceOf(o)], o[3])
<1> DEFINE places == {Prices!PlaceOf(o) : o \in A}
           Specials(k) == IF k \in places THEN Prices!SavedSpecials(k, Prices!ItemAt(A, k)) ELSE {store.special[k]}
<1>1. PICK f \in [Keys -> UNION {Specials(k) : k \in Keys}] :
        (\A k \in Keys : f[k] \in Specials(k)) /\ new = [store EXCEPT !.special = f]
  BY DEF Prices!Saved, Keys
<1>2. store \in PriceStore
  BY DEF PriceTypes
<1>3. new = [base |-> store.base, special |-> f, tiers |-> store.tiers]
  BY <1>1, <1>2 DEF PriceStore
<1>4. new.special = f /\ new.base = store.base /\ new.tiers = store.tiers
  BY ONLY <1>3
<1>5. \A o \in A : /\ o[3] \in Prices!Special /\ Prices!PlaceOf(o) \in Keys
                   /\ Prices!ItemAt(A, Prices!PlaceOf(o)) = o[3]
  BY PlannedOps, ItemIsAt DEF PlannedOp
<1>6. ASSUME NEW k \in Keys, NEW item \in Prices!Special, NEW x \in Prices!SavedSpecials(k, item)
      PROVE  x \in Prices!Special /\ SpecialHas(x, item)
  <2> DEFINE Dates(d, kept) == IF d # None THEN {d} ELSE {None} \cup kept
             from == Dates(item.from, IF store.special[k] = None THEN {} ELSE {store.special[k].from})
             to == Dates(item.to, IF store.special[k] = None THEN {} ELSE {store.special[k].to})
  <2>1. x \in [price : {item.price}, from : from, to : to]
    BY DEF Prices!SavedSpecials
  <2>2. store.special[k] # None =>
          store.special[k].from \in Prices!Date /\ store.special[k].to \in Prices!Date
    BY <1>2 DEF PriceStore, Prices!Special
  <2>3. item.price \in Value /\ item.from \in Prices!Date /\ item.to \in Prices!Date
    BY DEF Prices!Special
  <2>4. from \subseteq Prices!Date /\ to \subseteq Prices!Date
    BY <2>2, <2>3 DEF Prices!Date
  <2>5. (item.from # None => from = {item.from}) /\ (item.to # None => to = {item.to})
    OBVIOUS
  <2> HIDE DEF from, to
  <2>6. x = [price |-> x.price, from |-> x.from, to |-> x.to] /\ x.price = item.price /\ x.from \in from /\ x.to \in to
    BY ONLY <2>1
  <2> QED BY <2>3, <2>4, <2>5, <2>6 DEF Prices!Special, SpecialHas
<1>7. \A o \in A : /\ f[Prices!PlaceOf(o)] \in Prices!SavedSpecials(Prices!PlaceOf(o), o[3])
  BY <1>1, <1>5
<1>8. \A o \in A : f[Prices!PlaceOf(o)] \in Prices!Special /\ SpecialHas(f[Prices!PlaceOf(o)], o[3])
  BY <1>5, <1>6, <1>7
<1>9. \A k \in Keys : (\A o \in A : Prices!PlaceOf(o) # k) => f[k] = store.special[k]
  BY <1>1
<1>10. \A k \in Keys : store.special[k] \in Prices!Special \cup {None}
  BY <1>2 DEF PriceStore
<1>11. \A k \in Keys : f[k] \in Prices!Special \cup {None}
  BY <1>8, <1>9, <1>10
<1>12. f \in [Keys -> Prices!Special \cup {None}]
  BY <1>1, <1>11
<1> QED BY <1>2, <1>3, <1>4, <1>8, <1>9, <1>12 DEF PriceStore

LEMMA TiersSaved ==
  ASSUME PriceTypes, PriceOps, NEW A \in SUBSET ops, \A o \in A : o[2] = "tiers", NEW new \in Prices!Saved("tiers", A)
  PROVE  /\ new \in PriceStore /\ new.base = store.base /\ new.special = store.special
         /\ \A s \in PricedSku : (\A o \in A : Prices!SkuOf(o) # s) => new.tiers[s] = store.tiers[s]
         /\ \A o \in A : new.tiers[Prices!SkuOf(o)] = Prices!ItemsOf(A, Prices!SkuOf(o))
<1> DEFINE skus == {Prices!SkuOf(o) : o \in A}
           NewTiers == [s \in PricedSku |-> IF s \in skus THEN Prices!ItemsOf(A, s) ELSE store.tiers[s]]
<1>1. new = [store EXCEPT !.tiers = NewTiers]
  BY DEF Prices!Saved
<1>2. store \in PriceStore
  BY DEF PriceTypes
<1>3. new = [base |-> store.base, special |-> store.special, tiers |-> NewTiers]
  BY <1>1, <1>2 DEF PriceStore
<1>4. new.base = store.base /\ new.special = store.special /\ new.tiers = NewTiers
  BY ONLY <1>3
<1>5. \A o \in A : o[3] \in Tiers0 /\ Prices!SkuOf(o) \in PricedSku
  BY PlannedOps DEF PlannedOp
<1>6. \A s : Prices!ItemsOf(A, s) \in SUBSET Tiers0
  BY <1>5 DEF Prices!ItemsOf
<1>7. NewTiers \in [PricedSku -> SUBSET Tiers0]
  BY <1>2, <1>6 DEF PriceStore
<1> QED BY <1>2, <1>3, <1>4, <1>5, <1>7 DEF PriceStore

LEMMA TiersDeleted ==
  ASSUME PriceTypes, PriceOps, NEW A \in SUBSET ops, \A o \in A : o[2] = "tier-delete",
         NEW new \in Prices!Saved("tier-delete", A)
  PROVE  /\ new \in PriceStore /\ new.base = store.base /\ new.special = store.special
         /\ \A s \in PricedSku : new.tiers[s] = store.tiers[s] \ Prices!ItemsOf(A, s)
         /\ \A s \in PricedSku : (\A o \in A : Prices!SkuOf(o) # s) => new.tiers[s] = store.tiers[s]
<1> DEFINE NewTiers == [s \in PricedSku |-> store.tiers[s] \ Prices!ItemsOf(A, s)]
<1>1. new = [store EXCEPT !.tiers = NewTiers]
  BY DEF Prices!Saved
<1>2. store \in PriceStore
  BY DEF PriceTypes
<1>3. new = [base |-> store.base, special |-> store.special, tiers |-> NewTiers]
  BY <1>1, <1>2 DEF PriceStore
<1>4. new.base = store.base /\ new.special = store.special /\ new.tiers = NewTiers
  BY ONLY <1>3
<1>5. NewTiers \in [PricedSku -> SUBSET Tiers0]
  BY <1>2 DEF PriceStore
<1>6. \A s \in PricedSku : (\A o \in A : Prices!SkuOf(o) # s) => Prices!ItemsOf(A, s) = {}
  BY DEF Prices!ItemsOf
<1> QED BY <1>2, <1>3, <1>4, <1>5, <1>6 DEF PriceStore

\* What a request does to the operations: all of its list are in it, and are answered.
Answered(list, A, told, new) ==
  /\ list \in Lists /\ A \subseteq ops /\ told \in BOOLEAN /\ \A o \in A : o[2] = list
  /\ \A o \in ops : o[2] = list => verdict[o] = "todo"
  /\ verdict' = [o \in ops |-> IF o[2] # list THEN verdict[o] ELSE IF told /\ o \in A THEN "ok" ELSE "failed"]
  /\ new \in Prices!Saved(list, A) /\ store' = new

LEMMA SendFacts ==
  ASSUME PriceInv, Prices!Send
  PROVE  /\ UNCHANGED <<input, foreign, pc, snapshot, merged, changed, ops>> /\ pc = "send"
         /\ held' = held \cup {store'}
         /\ \E list, A, told, new : Answered(list, A, told, new)
<1> DEFINE request(list) == {o \in Prices!Todo : o[2] = list}
           Answer(list, A, told) == [o \in ops |-> IF o \notin request(list) THEN verdict[o]
                                                  ELSE IF told /\ o \in A THEN "ok" ELSE "failed"]
<1>0. PICK first \in Prices!Todo :
        \E A \in SUBSET request(first[2]), told \in BOOLEAN :
          store' \in Prices!Saved(first[2], A) /\ verdict' = Answer(first[2], A, told)
  BY DEF Prices!Send
<1>1. PICK A \in SUBSET request(first[2]), told \in BOOLEAN :
        store' \in Prices!Saved(first[2], A) /\ verdict' = Answer(first[2], A, told)
  BY <1>0
<1>2. UNCHANGED <<input, foreign, pc, snapshot, merged, changed, ops>> /\ pc = "send" /\ held' = held \cup {store'}
  BY DEF Prices!Send
<1>3. first \in ops /\ verdict[first] = "todo" /\ first[2] \in Lists
  BY PlannedOps DEF Prices!Todo, PriceInv, PlannedOp, Lists
<1>4. \A o \in ops : o[2] = first[2] => verdict[o] = "todo"
  BY <1>2, <1>3 DEF PriceInv, PriceVerdicts
<1>5. \A o \in ops : o \in {q \in Prices!Todo : q[2] = first[2]} <=> o[2] = first[2]
  BY <1>4 DEF Prices!Todo
<1>6. verdict' = [o \in ops |-> IF o[2] # first[2] THEN verdict[o]
                                ELSE IF told /\ o \in A THEN "ok" ELSE "failed"]
  BY <1>1, <1>5
<1>7. A \subseteq ops /\ \A o \in A : o[2] = first[2]
  BY <1>1 DEF Prices!Todo
<1>8. PICK new : new = store'
  OBVIOUS
<1>9. Answered(first[2], A, told, new)
  BY <1>1, <1>3, <1>4, <1>6, <1>7, <1>8 DEF Answered
<1> QED BY <1>2, <1>3, <1>7, <1>9

\* What stays as it is for the operations and their rows.
LEMMA SameNames ==
  ASSUME UNCHANGED <<merged, snapshot>>
  PROVE  /\ \A o : Prices!SkuOf(o)' = Prices!SkuOf(o) /\ Prices!PlaceOf(o)' = Prices!PlaceOf(o)
         /\ \A k : Prices!Refused(merged[k])' = Prices!Refused(merged[k])
              /\ Prices!SiteTiers(merged[k].tiers)' = Prices!SiteTiers(merged[k].tiers)
<1>1. \A k : Prices!Refused(merged[k])' = Prices!Refused(merged[k])
           /\ Prices!SiteTiers(merged[k].tiers)' = Prices!SiteTiers(merged[k].tiers)
  BY DEF Prices!Refused, Prices!SiteOf, Prices!SiteTiers
<1>2. \A o : Prices!SkuOf(o)' = Prices!SkuOf(o) /\ Prices!PlaceOf(o)' = Prices!PlaceOf(o)
  BY DEF Prices!SkuOf, Prices!PlaceOf, Prices!KeyOf
<1> QED BY <1>1, <1>2

\* What a request leaves of each part of EffectInv.
LEMMA SendBase ==
  ASSUME PriceTypes, PriceOps, BaseInv, NEW list, NEW A, NEW told, NEW new, Answered(list, A, told, new),
         UNCHANGED <<merged, snapshot, changed, ops>>
  PROVE  BaseInv'
<1>1. CASE list = "base"
  <2>1. /\ \A k \in Keys : (\A o \in A : Prices!PlaceOf(o) # k) => new.base[k] = store.base[k]
        /\ \A o \in A : new.base[Prices!PlaceOf(o)] = o[3]
    BY <1>1, BaseSaved DEF Answered
  <2>2. ASSUME NEW k \in Keys, \A o \in ops : o[2] = "base" /\ Prices!PlaceOf(o) = k => verdict'[o] = "todo"
        PROVE  new.base[k] = snapshot.base[k]
    <3>1. \A o \in ops : ~(o[2] = "base" /\ Prices!PlaceOf(o) = k)
      BY <1>1, <2>2 DEF Answered
    <3>2. store.base[k] = snapshot.base[k]
      BY <3>1 DEF BaseInv
    <3>3. \A o \in A : Prices!PlaceOf(o) # k
      BY <1>1, <3>1 DEF Answered
    <3> QED BY <2>1, <3>2, <3>3
  <2>3. ASSUME NEW o \in ops, o[2] = "base", verdict'[o] = "ok" PROVE o \in A
    BY <1>1, <2>3 DEF Answered
  <2> QED BY <2>1, <2>2, <2>3, SameNames DEF BaseInv, Answered
<1>2. CASE list # "base"
  <2>1. new.base = store.base
    BY <1>2, SpecialSaved, TiersSaved, TiersDeleted DEF Answered, Lists
  <2>2. \A o \in ops : o[2] = "base" => verdict'[o] = verdict[o]
    BY <1>2 DEF Answered
  <2> QED BY <2>1, <2>2, SameNames DEF BaseInv, Answered
<1> QED BY <1>1, <1>2

LEMMA SendSpecial ==
  ASSUME PriceTypes, PriceOps, SpecialInv, NEW list, NEW A, NEW told, NEW new, Answered(list, A, told, new),
         UNCHANGED <<merged, snapshot, changed, ops>>
  PROVE  SpecialInv'
<1>1. CASE list = "special"
  <2>1. /\ \A k \in Keys : (\A o \in A : Prices!PlaceOf(o) # k) => new.special[k] = store.special[k]
        /\ \A o \in A : SpecialHas(new.special[Prices!PlaceOf(o)], o[3])
    BY <1>1, SpecialSaved DEF Answered
  <2>2. ASSUME NEW k \in Keys, \A o \in ops : o[2] = "special" /\ Prices!PlaceOf(o) = k => verdict'[o] = "todo"
        PROVE  new.special[k] = snapshot.special[k]
    <3>1. \A o \in ops : ~(o[2] = "special" /\ Prices!PlaceOf(o) = k)
      BY <1>1, <2>2 DEF Answered
    <3>2. store.special[k] = snapshot.special[k]
      BY <3>1 DEF SpecialInv
    <3>3. \A o \in A : Prices!PlaceOf(o) # k
      BY <1>1, <3>1 DEF Answered
    <3> QED BY <2>1, <3>2, <3>3
  <2>3. ASSUME NEW o \in ops, o[2] = "special", verdict'[o] = "ok" PROVE o \in A
    BY <1>1, <2>3 DEF Answered
  <2> QED BY <2>1, <2>2, <2>3, SameNames DEF SpecialInv, Answered
<1>2. CASE list # "special"
  <2>1. new.special = store.special
    BY <1>2, BaseSaved, TiersSaved, TiersDeleted DEF Answered, Lists
  <2>2. \A o \in ops : o[2] = "special" => verdict'[o] = verdict[o]
    BY <1>2 DEF Answered
  <2> QED BY <2>1, <2>2, SameNames DEF SpecialInv, Answered
<1> QED BY <1>1, <1>2

\* The SKUs of a row that no operation of a list is about keep their tiers.
LEMMA SendOtherTiers ==
  ASSUME PriceTypes, PriceOps, NEW list, NEW A, NEW told, NEW new, Answered(list, A, told, new),
         NEW s \in PricedSku, \A o \in A : o[2] \in TierList => Prices!SkuOf(o) # s
  PROVE  new.tiers[s] = store.tiers[s]
<1>1. CASE list = "base"
  BY <1>1, BaseSaved DEF Answered
<1>2. CASE list = "special"
  BY <1>2, SpecialSaved DEF Answered
<1>3. CASE list = "tiers"
  BY <1>3, TiersSaved DEF Answered, TierList
<1>4. CASE list = "tier-delete"
  BY <1>4, TiersDeleted DEF Answered, TierList
<1> QED BY <1>1, <1>2, <1>3, <1>4 DEF Answered, Lists

LEMMA SendTiers ==
  ASSUME PriceTypes, PriceOps, TierInv, NEW list, NEW A, NEW told, NEW new, Answered(list, A, told, new),
         UNCHANGED <<merged, snapshot, changed, ops>>
  PROVE  TierInv'
<1> SUFFICES ASSUME NEW k \in changed, merged[k].tiers # None, ~Prices!Refused(merged[k])
             PROVE  LET s == merged[k].sku
                    IN /\ (\A o \in ops : o[2] \in TierList /\ Prices!SkuOf(o) = s => verdict'[o] = "todo")
                            => new.tiers[s] = snapshot.tiers[s]
                       /\ (\A o \in ops : o[2] \in TierList /\ Prices!SkuOf(o) = s => verdict'[o] = "ok")
                            => new.tiers[s] = Prices!SiteTiers(merged[k].tiers)
  BY SameNames DEF TierInv, Answered
<1> DEFINE s == merged[k].sku
           Of(o) == o[2] \in TierList /\ Prices!SkuOf(o) = s
<1>1. s \in PricedSku /\ k \in DOMAIN merged
  BY MergedFacts DEF PriceTypes, PriceOps
<1>2. /\ (\A o \in ops : Of(o) => verdict[o] = "todo") => store.tiers[s] = snapshot.tiers[s]
      /\ (\A o \in ops : Of(o) => verdict[o] = "ok") => store.tiers[s] = Prices!SiteTiers(merged[k].tiers)
  BY DEF TierInv
<1>3. \A o \in ops : Of(o) => /\ o[1] = k
                              /\ \/ o[2] = "tiers" /\ merged[k].tiers # {}
                                 \/ o[2] = "tier-delete" /\ merged[k].tiers = {}
  <2> SUFFICES ASSUME NEW o \in ops, Of(o)
               PROVE  /\ o[1] = k
                      /\ \/ o[2] = "tiers" /\ merged[k].tiers # {}
                         \/ o[2] = "tier-delete" /\ merged[k].tiers = {}
    OBVIOUS
  <2>1. PlannedOp(o)
    BY PlannedOps
  <2>2. merged[o[1]].tiers # None /\ merged[o[1]].sku = s /\ o[1] \in DOMAIN merged
    BY <2>1 DEF PlannedOp, TierList
  <2>3. o[1] = k
    BY <1>1, <2>2, MergedFacts DEF PriceTypes
  <2> QED BY <2>1, <2>3 DEF PlannedOp, TierList
<1>4. CASE \A o \in ops : Of(o) => o[2] # list
  <2>1. new.tiers[s] = store.tiers[s]
    BY <1>1, <1>4, SendOtherTiers DEF Answered
  <2>2. \A o \in ops : Of(o) => verdict'[o] = verdict[o]
    BY <1>4 DEF Answered
  <2> QED BY <1>2, <2>1, <2>2
<1>5. CASE \E o \in ops : Of(o) /\ o[2] = list
  <2>1. PICK q \in ops : Of(q) /\ q[2] = list
    BY <1>5
  <2>2. \A o \in ops : Of(o) => o[2] = list /\ verdict[o] = "todo" /\ verdict'[o] # "todo"
                             /\ (verdict'[o] = "ok" => o \in A)
    BY <1>3, <2>1 DEF Answered
  <2>3. store.tiers[s] = snapshot.tiers[s]
    BY <1>2, <2>2
  <2> SUFFICES ASSUME \A o \in ops : Of(o) => o \in A
               PROVE  new.tiers[s] = Prices!SiteTiers(merged[k].tiers)
    BY <2>1, <2>2
  <2>4. Prices!RowOps(k) \subseteq ops
    BY <1>1 DEF PriceOps
  <2>5. Prices!ItemsOf(A, s) = {o[3] : o \in {p \in ops : Of(p)}}
    BY <2>1, <2>2 DEF Prices!ItemsOf, Answered, TierList
  <2>6. CASE merged[k].tiers # {}
    <3>1. list = "tiers"
      BY <1>3, <2>1, <2>6
    <3>2. \A o \in ops : Of(o) => o[3] \in Prices!SiteTiers(merged[k].tiers)
      BY <1>3, <2>6, PlannedOps DEF PlannedOp
    <3>3. ASSUME NEW t \in Prices!SiteTiers(merged[k].tiers)
          PROVE  \E o \in ops : Of(o) /\ o[3] = t
      <4>1. <<k, "tiers", t>> \in Prices!RowOps(k)
        BY <2>6, RowOpsFacts
      <4>2. Of(<<k, "tiers", t>>)
        BY DEF Prices!SkuOf, TierList
      <4> QED BY <2>4, <4>1, <4>2
    <3>4. Prices!ItemsOf(A, s) = Prices!SiteTiers(merged[k].tiers)
      BY <2>5, <3>2, <3>3
    <3>5. new.tiers[s] = Prices!ItemsOf(A, s)
      BY <2>1, <3>1, TiersSaved DEF Answered
    <3> QED BY <3>4, <3>5
  <2>7. CASE merged[k].tiers = {}
    <3>1. list = "tier-delete"
      BY <1>3, <2>1, <2>7
    <3>2. ASSUME NEW t \in snapshot.tiers[s]
          PROVE  \E o \in ops : Of(o) /\ o[3] = t
      <4>1. <<k, "tier-delete", t>> \in Prices!RowOps(k)
        BY <2>7, RowOpsFacts
      <4>2. Of(<<k, "tier-delete", t>>)
        BY DEF Prices!SkuOf, TierList
      <4> QED BY <2>4, <4>1, <4>2
    <3>3. new.tiers[s] = store.tiers[s] \ Prices!ItemsOf(A, s)
      BY <1>1, <3>1, TiersDeleted DEF Answered
    <3>4. new.tiers[s] = {}
      BY <2>3, <2>5, <3>2, <3>3
    <3>5. Prices!SiteTiers(merged[k].tiers) = {}
      BY <2>7 DEF Prices!SiteTiers
    <3> QED BY <3>4, <3>5
  <2> QED BY <2>6, <2>7
<1> QED BY <1>4, <1>5

LEMMA PriceSends == PriceInv /\ Prices!Send => PriceInv'
<1> SUFFICES ASSUME PriceInv, Prices!Send PROVE PriceInv'
  OBVIOUS
<1>1. /\ UNCHANGED <<input, foreign, pc, snapshot, merged, changed, ops>> /\ pc = "send" /\ pc' = "send"
      /\ held' = held \cup {store'}
  BY SendFacts
<1>2. PICK list, A, told, new : Answered(list, A, told, new)
  BY SendFacts
<1>3. PriceTypes /\ PriceRead /\ PriceOps /\ PriceVerdicts /\ EffectInv
  BY DEF PriceInv
<1>4. new \in PriceStore /\ store' = new
  BY <1>2, <1>3, BaseSaved, SpecialSaved, TiersSaved, TiersDeleted DEF Answered, Lists
<1>5. PriceTypes'
  BY <1>1, <1>3, <1>4, MergedKept DEF PriceTypes
<1>6. PriceRead'
  BY <1>1, <1>3 DEF PriceRead
<1>7. PriceOps'
  BY <1>1, <1>3, PriceOpsKept
<1>8. PriceVerdicts'
  <2>1. verdict \in [ops -> {"todo", "ok", "failed"}]
    BY <1>1, <1>3 DEF PriceVerdicts
  <2>2. verdict' \in [ops -> {"todo", "ok", "failed"}]
    BY <1>2, <2>1 DEF Answered
  <2>3. \A o, q \in ops : o[2] = q[2] => (verdict'[o] = "todo" <=> verdict'[q] = "todo")
    BY <1>1, <1>2, <1>3 DEF PriceVerdicts, Answered
  <2> QED BY <1>1, <2>2, <2>3 DEF PriceVerdicts
<1>9. EffectInv'
  <2> SUFFICES ASSUME foreign = 0 PROVE (BaseInv /\ SpecialInv /\ TierInv /\ OtherTiersInv)'
    BY <1>1 DEF EffectInv
  <2>1. BaseInv /\ SpecialInv /\ TierInv /\ OtherTiersInv
    BY <1>1, <1>3 DEF EffectInv
  <2>2. BaseInv' /\ SpecialInv' /\ TierInv'
    BY <1>1, <1>2, <1>3, <2>1, SendBase, SendSpecial, SendTiers
  <2>3. OtherTiersInv'
    <3>1. \A s \in PricedSku : (\A o \in ops : o[2] \in TierList => Prices!SkuOf(o) # s) => new.tiers[s] = store.tiers[s]
      <4> SUFFICES ASSUME NEW s \in PricedSku, \A o \in ops : o[2] \in TierList => Prices!SkuOf(o) # s
                   PROVE  new.tiers[s] = store.tiers[s]
        OBVIOUS
      <4>1. \A o \in A : o[2] \in TierList => Prices!SkuOf(o) # s
        BY <1>2 DEF Answered
      <4> QED BY <1>2, <1>3, <4>1, SendOtherTiers
    <3> QED BY <1>1, <1>4, <2>1, <3>1, SameNames DEF OtherTiersInv
  <2> QED BY <2>2, <2>3
<1> QED BY <1>5, <1>6, <1>7, <1>8, <1>9 DEF PriceInv

\* What a row sets is in a merged row.
LEMMA FirstOfKey ==
  ASSUME PriceTypes, NEW key, NEW i \in Prices!OfKey(key)
  PROVE  \E j \in DOMAIN merged : Prices!KeyOf(merged[j]) = key
<1>1. Prices!OfKey(key) \in SUBSET Nat /\ Prices!OfKey(key) \subseteq DOMAIN Prices!rows
  BY PriceRows DEF Prices!OfKey, PriceTypes
<1>2. PICK j \in Prices!OfKey(key) : \A q \in Prices!OfKey(key) : j <= q
  BY <1>1, LeastNumber
<1>3. \A q \in 1 .. j - 1 : Prices!KeyOf(Prices!rows[q]) # key
  <2> SUFFICES ASSUME NEW q \in 1 .. j - 1, Prices!KeyOf(Prices!rows[q]) = key PROVE FALSE
    OBVIOUS
  <2>1. j \in 1 .. Len(Prices!rows) /\ Len(Prices!rows) \in Nat /\ DOMAIN Prices!rows = 1 .. Len(Prices!rows)
    BY <1>1, PriceRows DEF PriceTypes
  <2>2. q \in DOMAIN Prices!rows /\ ~(j <= q)
    BY <2>1
  <2> QED BY <1>2, <2>2 DEF Prices!OfKey
<1>4. j \in Prices!Firsts /\ Prices!KeyOf(Prices!rows[j]) = key
  BY <1>1, <1>3 DEF Prices!Firsts, Prices!OfKey
<1>5. j \in DOMAIN merged
  BY <1>4 DEF PriceTypes, Prices!Merged
<1> QED BY <1>4, <1>5, MergedFacts DEF PriceTypes

LEMMA FirstOfSku ==
  ASSUME PriceTypes, NEW s, NEW i \in Prices!OfSku(s)
  PROVE  \E j \in DOMAIN merged : merged[j].sku = s /\ Prices!RidesOn(j)
<1>1. Prices!OfSku(s) \in SUBSET Nat /\ Prices!OfSku(s) \subseteq DOMAIN Prices!rows
  BY PriceRows DEF Prices!OfSku, PriceTypes
<1>2. PICK j \in Prices!OfSku(s) : \A q \in Prices!OfSku(s) : j <= q
  BY <1>1, LeastNumber
<1>3. \A q \in 1 .. j - 1 : Prices!rows[q].sku # s
  <2> SUFFICES ASSUME NEW q \in 1 .. j - 1, Prices!rows[q].sku = s PROVE FALSE
    OBVIOUS
  <2>1. j \in 1 .. Len(Prices!rows) /\ Len(Prices!rows) \in Nat /\ DOMAIN Prices!rows = 1 .. Len(Prices!rows)
    BY <1>1, PriceRows DEF PriceTypes
  <2>2. q \in DOMAIN Prices!rows /\ ~(j <= q)
    BY <2>1
  <2> QED BY <1>2, <2>2 DEF Prices!OfSku
<1>4. Prices!rows[j].sku = s /\ j \in DOMAIN Prices!rows
  BY <1>1 DEF Prices!OfSku
<1>5. \A q \in 1 .. j - 1 : Prices!KeyOf(Prices!rows[q]) # Prices!KeyOf(Prices!rows[j])
  BY <1>3, <1>4 DEF Prices!KeyOf
<1>6. j \in Prices!Firsts /\ Prices!RidesOn(j)
  BY <1>3, <1>4, <1>5 DEF Prices!Firsts, Prices!RidesOn
<1>7. j \in DOMAIN merged
  BY <1>6 DEF PriceTypes, Prices!Merged
<1> QED BY <1>4, <1>6, <1>7, MergedFacts DEF PriceTypes

\* What PriceInv says of prices: their types, the skipped rows, and the SKUs
\* that did not fail when the import is over.
LEMMA PriceTypeOK == PriceInv => Prices!TypeOK
<1> SUFFICES ASSUME PriceInv PROVE Prices!TypeOK
  OBVIOUS
<1>1. \A k \in Prices!Keys : store.base[k] \in Value \cup {None} /\ snapshot.base[k] \in Value \cup {None}
  BY DEF PriceInv, PriceTypes, PriceStore, Keys
<1>2. ASSUME NEW s \in PricedSku, NEW t \in store.tiers[s] PROVE t.site \in Nat
  <2>1. t \in Tiers0
    BY DEF PriceInv, PriceTypes, PriceStore
  <2> QED BY <2>1 DEF Tiers0
<1>3. changed \subseteq DOMAIN merged
  BY DEF PriceInv, PriceOps
<1>4. \A j, k \in DOMAIN merged : Prices!KeyOf(merged[j]) = Prices!KeyOf(merged[k]) => j = k
  BY MergedFacts DEF PriceInv, PriceTypes
<1> QED BY <1>1, <1>2, <1>3, <1>4 DEF Prices!TypeOK, Prices!After, PriceInv, PriceTypes

LEMMA PriceSkips == PriceInv => Prices!SkipJustified
<1> SUFFICES ASSUME PriceInv, pc \in {"send", "done"}, NEW k \in DOMAIN merged \ changed
             PROVE  /\ merged[k].price # None => \E h \in held : h.base[Prices!KeyOf(merged[k])] = merged[k].price
                    /\ merged[k].tiers # None =>
                         \E h \in held : h.tiers[merged[k].sku] = Prices!DiffTiers(merged[k].tiers)
  BY DEF Prices!SkipJustified
<1>1. Prices!Matches(merged[k])
  BY DEF PriceInv, PriceOps
<1>2. (\E h \in held : snapshot.base = h.base) /\ (\E h \in held : snapshot.tiers = h.tiers)
  BY DEF PriceInv, PriceRead
<1> QED BY <1>1, <1>2 DEF Prices!Matches

LEMMA PriceWins == PriceInv => Prices!LastSetWins
<1> SUFFICES ASSUME PriceInv, pc = "done", foreign = 0, NEW s \in PricedSku \ Prices!Failed
             PROVE  /\ \A k \in {s} \X Prices!Scope :
                         LET Last(field) == Prices!LastOf(Prices!OfKey(k), field)
                         IN /\ Last("price") \in {None, store.base[k]}
                            /\ Last("special") # None =>
                                 /\ store.special[k].price = Last("special")
                                 /\ Last("from") \in {None, store.special[k].from}
                                 /\ Last("to") \in {None, store.special[k].to}
                    /\ LET tiers == Prices!LastOf(Prices!OfSku(s), "tiers")
                       IN tiers # None /\ "all" \notin DOMAIN Sites => store.tiers[s] = Prices!SiteTiers(tiers)
  BY DEF Prices!LastSetWins
<1>1. /\ PriceTypes /\ PriceOps /\ PriceVerdicts /\ BaseInv /\ SpecialInv /\ TierInv /\ OtherTiersInv
      /\ input \in PriceInputs /\ merged = Prices!Merged
  BY DEF PriceInv, EffectInv, PriceTypes
<1>2. \A o \in ops : Prices!SkuOf(o) = s => verdict[o] = "ok"
  BY <1>1 DEF PriceVerdicts, Prices!Failed
<1>3. \A k \in changed : merged[k].sku = s => ~Prices!Refused(merged[k])
  BY <1>1 DEF Prices!Failed
<1>4. \A k \in changed : Prices!RowOps(k) \subseteq ops
  BY <1>1 DEF PriceOps
<1>5. \A o \in ops : PlannedOp(o)
  BY <1>1, PlannedOps
<1>6. \A k \in DOMAIN merged \ changed : Prices!Matches(merged[k])
  BY <1>1 DEF PriceOps
<1>7. ASSUME NEW key \in {s} \X Prices!Scope
      PROVE  LET Last(field) == Prices!LastOf(Prices!OfKey(key), field)
             IN /\ Last("price") \in {None, store.base[key]}
                /\ Last("special") # None =>
                     /\ store.special[key].price = Last("special")
                     /\ Last("from") \in {None, store.special[key].from}
                     /\ Last("to") \in {None, store.special[key].to}
  <2> DEFINE Last(field) == Prices!LastOf(Prices!OfKey(key), field)
  <2>1. CASE Prices!OfKey(key) = {}
    BY <2>1, NoneIsLast
  <2>2. CASE Prices!OfKey(key) # {}
    <3>1. PICK j \in DOMAIN merged : Prices!KeyOf(merged[j]) = key
      BY <1>1, <2>2, FirstOfKey
    <3>2. key \in Keys /\ key[1] = s
      BY DEF Keys, Prices!Keys
    <3>3. /\ merged[j].price = Last("price") /\ merged[j].special = Last("special")
          /\ merged[j].from = Last("from") /\ merged[j].to = Last("to") /\ merged[j].sku = s
      BY <1>1, <3>1, <3>2, MergedFacts
    <3>4. \A o \in ops : Prices!PlaceOf(o) = key => o[1] = j
      BY <1>1, <1>5, <3>1, MergedFacts DEF PlannedOp
    <3>5. CASE j \in changed
      <4>1. ~Prices!Refused(merged[j])
        BY <1>3, <3>3, <3>5
      <4>2. ASSUME Last("price") # None PROVE store.base[key] = Last("price")
        <5> DEFINE o == <<j, "base", merged[j].price>>
        <5>1. o \in ops
          BY <1>4, <3>3, <3>5, <4>1, <4>2, RowOpsFacts
        <5>2. Prices!PlaceOf(o) = key /\ Prices!SkuOf(o) = s
          BY <3>1, <3>3 DEF Prices!PlaceOf, Prices!SkuOf
        <5>3. verdict[o] = "ok"
          BY <1>2, <5>1, <5>2
        <5>4. o[2] = "base" /\ o[3] = Last("price")
          BY <3>3
        <5> HIDE DEF o
        <5> QED BY <1>1, <3>2, <5>1, <5>2, <5>3, <5>4 DEF BaseInv
      <4>3. ASSUME Last("special") # None PROVE SpecialHas(store.special[key], Prices!SpecialOf(merged[j]))
        <5> DEFINE o == <<j, "special", Prices!SpecialOf(merged[j])>>
        <5>1. o \in ops
          BY <1>4, <3>3, <3>5, <4>1, <4>3, RowOpsFacts
        <5>2. Prices!PlaceOf(o) = key /\ Prices!SkuOf(o) = s
          BY <3>1, <3>3 DEF Prices!PlaceOf, Prices!SkuOf
        <5>3. verdict[o] = "ok"
          BY <1>2, <5>1, <5>2
        <5>4. o[2] = "special" /\ o[3] = Prices!SpecialOf(merged[j])
          OBVIOUS
        <5> HIDE DEF o
        <5> QED BY <1>1, <3>2, <5>1, <5>2, <5>3, <5>4 DEF SpecialInv
      <4>4. Prices!SpecialOf(merged[j]) = [price |-> Last("special"), from |-> Last("from"), to |-> Last("to")]
        BY <3>3 DEF Prices!SpecialOf
      <4>5. /\ Prices!SpecialOf(merged[j]).price = Last("special")
            /\ Prices!SpecialOf(merged[j]).from = Last("from") /\ Prices!SpecialOf(merged[j]).to = Last("to")
        BY ONLY <4>4
      <4> HIDE DEF Last
      <4>6. Last("special") # None => /\ store.special[key].price = Last("special")
                                      /\ Last("from") \in {None, store.special[key].from}
                                      /\ Last("to") \in {None, store.special[key].to}
        BY <4>3, <4>5 DEF SpecialHas
      <4>7. Last("price") \in {None, store.base[key]}
        BY <4>2
      <4> QED BY <4>6, <4>7 DEF Last
    <3>6. CASE j \notin changed
      <4>1. \A o \in ops : Prices!PlaceOf(o) # key
        BY <1>5, <3>4, <3>6 DEF PlannedOp
      <4>2. store.base[key] = snapshot.base[key] /\ store.special[key] = snapshot.special[key]
        BY <1>1, <3>2, <4>1 DEF BaseInv, SpecialInv
      <4>3. /\ merged[j].price # None => merged[j].price = snapshot.base[key]
            /\ merged[j].special # None => Prices!SpecialOf(merged[j]) = snapshot.special[key]
        BY <1>6, <3>1, <3>6 DEF Prices!Matches
      <4>4. Prices!SpecialOf(merged[j]) = [price |-> Last("special"), from |-> Last("from"), to |-> Last("to")]
        BY <3>3 DEF Prices!SpecialOf
      <4>5. /\ Prices!SpecialOf(merged[j]).price = Last("special")
            /\ Prices!SpecialOf(merged[j]).from = Last("from") /\ Prices!SpecialOf(merged[j]).to = Last("to")
        BY ONLY <4>4
      <4> HIDE DEF Last
      <4>6. Last("special") # None => /\ store.special[key].price = Last("special")
                                      /\ Last("from") = store.special[key].from
                                      /\ Last("to") = store.special[key].to
        BY <3>3, <4>2, <4>3, <4>5
      <4>7. Last("price") \in {None, store.base[key]}
        BY <3>3, <4>2, <4>3
      <4> QED BY <4>6, <4>7 DEF Last
    <3> QED BY <3>5, <3>6
  <2> QED BY <2>1, <2>2
<1>8. ASSUME Prices!LastOf(Prices!OfSku(s), "tiers") # None, "all" \notin DOMAIN Sites
      PROVE  store.tiers[s] = Prices!SiteTiers(Prices!LastOf(Prices!OfSku(s), "tiers"))
  <2> DEFINE tiers == Prices!LastOf(Prices!OfSku(s), "tiers")
  <2>1. Prices!OfSku(s) # {}
    BY <1>8, NoneIsLast
  <2>2. PICK j \in DOMAIN merged : merged[j].sku = s /\ Prices!RidesOn(j)
    BY <1>1, <2>1, FirstOfSku
  <2>3. merged[j].tiers = tiers
    BY <1>1, <2>2, MergedFacts
  <2>4. CASE j \in changed
    <3>1. ~Prices!Refused(merged[j])
      BY <1>3, <2>2, <2>4
    <3> QED BY <1>1, <1>2, <1>8, <2>2, <2>3, <2>4, <3>1 DEF TierInv
  <2>5. CASE j \notin changed
    <3>1. ASSUME NEW o \in ops, o[2] \in TierList, Prices!SkuOf(o) = s PROVE FALSE
      <4>1. PlannedOp(o)
        BY <1>5
      <4>2. merged[o[1]].tiers # None /\ merged[o[1]].sku = s /\ o[1] \in changed
        BY <3>1, <4>1 DEF PlannedOp, TierList
      <4>3. o[1] = j
        BY <1>1, <1>8, <2>2, <2>3, <4>1, <4>2, MergedFacts DEF PlannedOp
      <4> QED BY <2>5, <4>2, <4>3
    <3>2. store.tiers[s] = snapshot.tiers[s]
      BY <1>1, <3>1 DEF OtherTiersInv
    <3>3. Prices!DiffTiers(tiers) = snapshot.tiers[s]
      BY <1>6, <1>8, <2>2, <2>3, <2>5 DEF Prices!Matches
    <3>4. Prices!DiffTiers(tiers) = Prices!SiteTiers(tiers)
      <4>1. \A t : Prices!SiteOf(t.site) = Prices!DiffSite(t.site)
        BY <1>8, SiteFacts
      <4> HIDE DEF tiers
      <4> QED BY <4>1 DEF Prices!DiffTiers, Prices!SiteTiers
    <3> QED BY <3>2, <3>3, <3>4
  <2> QED BY <2>4, <2>5
<1> QED BY <1>7, <1>8

\* The import leaves alone what no row sets.
LEMMA PriceKeeps == PriceInv /\ Prices!Next => Prices!OthersKept
<1> SUFFICES ASSUME PriceInv, Prices!Next, foreign' = foreign
             PROVE  /\ \A k \in Keys : store'.base[k] # store.base[k] =>
                         \E i \in DOMAIN Prices!rows : Prices!KeyOf(Prices!rows[i]) = k /\ Prices!rows[i].price # None
                    /\ \A s \in PricedSku : store'.tiers[s] # store.tiers[s] =>
                         /\ \E i \in DOMAIN Prices!rows : Prices!rows[i].sku = s /\ Prices!rows[i].tiers # None
                         /\ Prices!LastOf(Prices!OfSku(s), "tiers") = {}
                              => store.tiers[s] \ store'.tiers[s] \subseteq snapshot.tiers[s]
  BY DEF Prices!OthersKept, Keys
<1>1. PriceTypes /\ PriceOps /\ input \in PriceInputs /\ merged = Prices!Merged
  BY DEF PriceInv, PriceTypes
<1>2. CASE Prices!Send
  <2>1. PICK list, A, told, new : Answered(list, A, told, new)
    BY <1>2, SendFacts
  <2>2. \A o \in A : PlannedOp(o) /\ o[2] = list
    BY <1>1, <2>1, PlannedOps DEF Answered
  <2>3. ASSUME NEW k \in Keys, new.base[k] # store.base[k]
        PROVE  \E i \in DOMAIN Prices!rows : Prices!KeyOf(Prices!rows[i]) = k /\ Prices!rows[i].price # None
    <3>1. list = "base"
      BY <1>1, <2>1, <2>3, SpecialSaved, TiersSaved, TiersDeleted DEF Answered, Lists
    <3>2. PICK o \in A : Prices!PlaceOf(o) = k
      BY <1>1, <2>1, <2>3, <3>1, BaseSaved DEF Answered
    <3>3. /\ o[1] \in DOMAIN merged /\ Prices!KeyOf(merged[o[1]]) = k
          /\ merged[o[1]].price # None
      BY <2>2, <3>1, <3>2 DEF PlannedOp
    <3>4. Prices!LastOf(Prices!OfKey(k), "price") # None
      BY <1>1, <3>3, MergedFacts
    <3>5. Prices!OfKey(k) \in SUBSET DOMAIN Prices!rows
      BY DEF Prices!OfKey
    <3>6. PICK i \in Prices!OfKey(k) : Prices!rows[i].price # None
      BY <1>1, <3>4, <3>5, LastIsOfARow
    <3> QED BY <3>6 DEF Prices!OfKey
  <2>4. ASSUME NEW s \in PricedSku, new.tiers[s] # store.tiers[s]
        PROVE  /\ \E i \in DOMAIN Prices!rows : Prices!rows[i].sku = s /\ Prices!rows[i].tiers # None
               /\ Prices!LastOf(Prices!OfSku(s), "tiers") = {} => store.tiers[s] \ new.tiers[s] \subseteq snapshot.tiers[s]
    <3>1. PICK o \in A : o[2] \in TierList /\ Prices!SkuOf(o) = s
      BY <1>1, <2>1, <2>4, SendOtherTiers
    <3>2. o[1] \in DOMAIN merged /\ merged[o[1]].sku = s /\ merged[o[1]].tiers # None
      BY <2>2, <3>1 DEF PlannedOp, TierList
    <3>3. merged[o[1]].tiers = Prices!LastOf(Prices!OfSku(s), "tiers")
      BY <1>1, <3>2, MergedFacts
    <3>4. Prices!OfSku(s) \in SUBSET DOMAIN Prices!rows
      BY DEF Prices!OfSku
    <3>5. PICK i \in Prices!OfSku(s) : Prices!rows[i].tiers # None
      BY <1>1, <3>2, <3>3, <3>4, LastIsOfARow
    <3>6. ASSUME Prices!LastOf(Prices!OfSku(s), "tiers") = {}
          PROVE  store.tiers[s] \ new.tiers[s] \subseteq snapshot.tiers[s]
      <4>1. list = "tier-delete"
        BY <2>2, <3>1, <3>3, <3>6 DEF PlannedOp, TierList
      <4>2. new.tiers[s] = store.tiers[s] \ Prices!ItemsOf(A, s)
        BY <1>1, <2>1, <4>1, TiersDeleted DEF Answered
      <4>3. \A q \in A : Prices!SkuOf(q) = s => q[3] \in snapshot.tiers[s]
        BY <2>2, <4>1 DEF PlannedOp
      <4>4. Prices!ItemsOf(A, s) \subseteq snapshot.tiers[s]
        BY <4>3 DEF Prices!ItemsOf
      <4> QED BY <4>2, <4>4
    <3> QED BY <3>5, <3>6 DEF Prices!OfSku
  <2>5. store' = new
    BY <2>1 DEF Answered
  <2> QED BY <2>3, <2>4, <2>5
<1>3. CASE ~Prices!Send
  <2>1. ~Prices!Foreign
    BY <1>1 DEF Prices!Foreign, PriceTypes
  <2>2. store' = store
    BY <1>3, <2>1 DEF Prices!Next, Prices!Read, Prices!Plan, Prices!Return
  <2> QED BY <2>2
<1> QED BY <1>2, <1>3

\* Nor does a step of none of its actions.
LEMMA PriceStutter == PriceInv /\ UNCHANGED vars => PriceInv'
<1> SUFFICES ASSUME PriceInv, UNCHANGED vars PROVE PriceInv'
  OBVIOUS
<1>1. UNCHANGED <<input, foreign, store, held, pc, snapshot, merged, changed, ops, verdict>>
  BY DEF vars, prices
<1>2. PriceTypes /\ PriceRead /\ PriceOps /\ PriceVerdicts /\ EffectInv
  BY DEF PriceInv
<1>3. PriceTypes' /\ PriceRead' /\ PriceOps'
  BY <1>1, <1>2, MergedKept, PriceOpsKept DEF PriceTypes, PriceRead
<1>4. PriceVerdicts'
  BY <1>1, <1>2 DEF PriceVerdicts
<1>5. EffectInv'
  BY <1>1, <1>2, EffectKept DEF EffectInv
<1> QED BY <1>3, <1>4, <1>5 DEF PriceInv

\* Whatever the rows and the other clients do, PriceInv holds of an import of
\* prices.
THEOREM PriceInvariance == Spec => [](part = "prices" => PriceInv)
<1> DEFINE IInv == part = "prices" => PriceInv
<1>1. Init => IInv
  BY PriceInit DEF Init
<1>2. IInv /\ [Next]_vars => IInv'
  <2> SUFFICES ASSUME IInv, [Next]_vars, part' = "prices" PROVE PriceInv'
    OBVIOUS
  <2>1. CASE PricesStep
    BY <2>1, PriceReads, PricePlans, PriceSends, PriceReturn, PriceForeign DEF PricesStep, Prices!Next
  <2>2. CASE ProductsStep
    BY <2>2 DEF ProductsStep
  <2>3. CASE UNCHANGED vars
    <3>1. part = "prices"
      BY <2>3 DEF vars
    <3> QED BY <2>3, <3>1, PriceStutter
  <2> QED BY <2>1, <2>2, <2>3 DEF Next
<1> QED BY <1>1, <1>2, PTL DEF Spec

\* What the last row to set a price, a special price or the tiers of a SKU
\* says is in the store when the import is over, and a skipped row had it there.
THEOREM LastPriceIsThere == Spec => []LastPriceHolds
<1>1. (part = "prices" => PriceInv) => LastPriceHolds
  BY PriceWins, PriceSkips DEF LastPriceHolds
<1> QED BY <1>1, PriceInvariance, PTL

---------------------------------------------------------------------------
(* Products *)

Reading == {"index", "values", "extension", "rest", "plan"}
Shops == [Sku -> Products!Product \cup {None}]
Verdicts == {"todo", "ok", "failed", "pending", "withheld", "attached"}
Operation ==
  [row : Nat, sku : Sku, kind : {"POST", "PUT", "option", "child"}, type : Products!Type \cup {None},
   set : [Products!Field -> Value \cup {None}], child : Sku \cup {None}]

ProductTypes ==
  /\ input \in ProductInputs /\ foreign \in Nat /\ store \in Shops
  /\ snapshot \in [Sku -> Products!Seen \cup {None}]
  /\ pc \in Reading \cup {"saves", "links", "done", "raised"}
  /\ status \in [ops -> Verdicts] /\ late \subseteq ops /\ attached \in [Sku -> (SUBSET Sku) \cup {None}]

\* What was read was there.
ProductSeen ==
  /\ Products!Holds(store) \subseteq held
  /\ \A s \in Sku, f \in Products!Field :
       snapshot[s] # None /\ snapshot[s].set[f] # None => <<s, f, snapshot[s].set[f]>> \in held

\* What was planned.
ProductOps ==
  IF pc \in Reading
  THEN ops = {} /\ \A s \in Sku : attached[s] = None
  ELSE ops = UNION {Products!PlanRow(i) : i \in DOMAIN Products!rows}

\* The verdicts in their order: a save before the children, a child that is
\* sent after saves that went well, one that is withheld for a reason.
ProductVerdicts ==
  /\ \A o \in late : status[o] = "pending"
  /\ \A o \in ops : o.kind \in Products!Saves => status[o] \in {"todo", "ok", "failed", "pending"}
  /\ \A o \in ops : status[o] = "withheld" => \E p \in ops : p.sku = o.sku /\ status[p] \in {"failed", "pending"}
  /\ pc = "saves" => \A o \in ops : o.kind \in Products!FollowUps => status[o] = "todo"
  /\ pc \in {"links", "done"} => \A o \in ops : o.kind \in Products!Saves => status[o] # "todo"
  /\ pc = "links" => \A o, p \in ops :
       status[o] = "todo" /\ p.kind \in Products!Saves /\ p.sku = o.sku => status[p] = "ok"
  /\ pc = "done" => \A o \in ops : status[o] # "todo"

\* While nobody else writes, of a row whose SKU no other row has: the save
\* and the links that went well are in the store, the links to come are not.
RowInv(i) ==
  LET s == Products!SkuOf(i)
      Of(kinds, verdicts) == {o \in ops : o.row = i /\ o.kind \in kinds /\ status[o] \in verdicts}
  IN /\ \A o \in Of(Products!Saves, {"ok"}) :
          /\ store[s] # None
          /\ o.type # None => store[s].type = o.type
          /\ \A f \in Products!Field : o.set[f] \in {None, store[s].set[f]}
     /\ \A o \in Of({"child"}, {"ok", "attached"}) : store[s] # None /\ o.child \in store[s].kids
     /\ pc = "saves" /\ s \notin Products!Existing /\ store[s] # None => store[s].kids = {}
     /\ pc = "links" /\ store[s] # None => \A o \in Of({"child"}, {"todo"}) : o.child \notin store[s].kids

ProductQuiet ==
  foreign = 0 =>
    /\ pc \in {"values", "extension", "plan"} => \A s \in Products!Asked : s \in Products!Existing <=> store[s] # None
    /\ pc \notin Reading => \A i \in DOMAIN Products!rows : Products!Alone(i) => RowInv(i)
    /\ pc = "saves" => \A s \in Sku : attached[s] # None => store[s] # None /\ attached[s] = store[s].kids

ProductInv == ProductTypes /\ ProductSeen /\ ProductOps /\ ProductVerdicts /\ ProductQuiet

LEMMA ProductConstants ==
  /\ None \notin Value /\ None \notin Products!Type /\ None \notin Products!Product /\ None \notin Products!Seen
  /\ Value # {} /\ MaxForeign \in Nat
  /\ ProductInputs \subseteq
       [rows : Seq({row \in Products!Row : row.named \/ row.type = "simple"}), behavior : Products!Behavior,
        diff : BOOLEAN, mode : {"sync", "bulk"}, bridge : BOOLEAN]
  /\ ProductStores \subseteq Shops
BY ProductsAssumption DEF Products!ProductAssumption, Shops

\* The rows of the import.
LEMMA ProductRowFacts ==
  ASSUME input \in ProductInputs
  PROVE  /\ DOMAIN Products!rows \subseteq Nat
         /\ \A i \in DOMAIN Products!rows :
              /\ Products!rows[i] \in Products!Row /\ Products!SkuOf(i) \in Sku
              /\ Products!rows[i].named \/ Products!rows[i].type = "simple"
              /\ Products!rows[i].type \in Products!Type /\ Products!rows[i].kids \in SUBSET Sku
              /\ Products!rows[i].set \in [Products!Field -> Value \cup {None}]
<1>1. Products!rows \in Seq({row \in Products!Row : row.named \/ row.type = "simple"})
  BY ProductConstants DEF Products!rows
<1>2. \A i \in DOMAIN Products!rows : Products!rows[i] \in {row \in Products!Row : row.named \/ row.type = "simple"}
  BY <1>1
<1>3. ASSUME NEW i \in DOMAIN Products!rows
      PROVE  /\ Products!rows[i].sku \in Sku /\ Products!rows[i].type \in Products!Type
             /\ Products!rows[i].kids \in SUBSET Sku
             /\ Products!rows[i].set \in [Products!Field -> Value \cup {None}]
  <2>1. Products!rows[i] \in Products!Row
    BY <1>2
  <2> QED BY <2>1 DEF Products!Row
<1> QED BY <1>1, <1>2, <1>3 DEF Products!SkuOf

\* An operation without more than its row and kind.
LEMMA OpFacts ==
  ASSUME NEW i, NEW kind
  PROVE  /\ Products!Op(i, kind).row = i /\ Products!Op(i, kind).sku = Products!SkuOf(i)
         /\ Products!Op(i, kind).kind = kind /\ Products!Op(i, kind).type = None
         /\ Products!Op(i, kind).set = [f \in Products!Field |-> None] /\ Products!Op(i, kind).child = None
<1>1. Products!Op(i, kind) = [row |-> i, sku |-> Products!SkuOf(i), kind |-> kind, type |-> None,
                              set |-> [f \in Products!Field |-> None], child |-> None]
  BY DEF Products!Op
<1> QED BY ONLY <1>1

\* The save of a row, and a link.
LEMMA MainFacts ==
  ASSUME NEW i
  PROVE  LET main == Products!Main(i)
             existing == Products!SkuOf(i) \in Products!Existing
         IN /\ main.row = i /\ main.sku = Products!SkuOf(i) /\ main.kind = IF existing THEN "PUT" ELSE "POST"
            /\ main.type = IF existing /\ ~Products!rows[i].named THEN None ELSE Products!rows[i].type
            /\ main.set = Products!rows[i].set /\ main.child = None
<1> DEFINE existing == Products!SkuOf(i) \in Products!Existing
           kind == IF existing THEN "PUT" ELSE "POST"
           type == IF existing /\ ~Products!rows[i].named THEN None ELSE Products!rows[i].type
<1>0. Products!Main(i) = [Products!Op(i, kind) EXCEPT !.type = type, !.set = Products!rows[i].set]
  BY DEF Products!Main
<1> HIDE DEF existing, kind, type
<1>1. Products!Main(i) = [row |-> i, sku |-> Products!SkuOf(i), kind |-> kind, type |-> type,
                          set |-> Products!rows[i].set, child |-> None]
  BY <1>0 DEF Products!Op
<1>2. LET main == Products!Main(i)
      IN /\ main.row = i /\ main.sku = Products!SkuOf(i) /\ main.kind = kind /\ main.type = type
         /\ main.set = Products!rows[i].set /\ main.child = None
  BY ONLY <1>1
<1> QED BY <1>2 DEF existing, kind, type

LEMMA DisableFacts ==
  ASSUME NEW i
  PROVE  LET o == Products!Disable(i)
         IN /\ o.row = i /\ o.sku = Products!SkuOf(i) /\ o.kind = "PUT" /\ o.type = None
            /\ o.set \in [Products!Field -> Value \cup {None}] /\ o.child = None
<1> DEFINE set == [[f \in Products!Field |-> None] EXCEPT !["attr"] = Products!Disabled]
<1>1. Products!Disable(i) = [row |-> i, sku |-> Products!SkuOf(i), kind |-> "PUT", type |-> None,
                             set |-> set, child |-> None]
  BY DEF Products!Disable, Products!Op
<1>2. Products!Disabled \in Value
  BY ProductConstants DEF Products!Disabled
<1>3. set \in [Products!Field -> Value \cup {None}]
  BY <1>2
<1> HIDE DEF set
<1>4. LET o == Products!Disable(i)
      IN /\ o.row = i /\ o.sku = Products!SkuOf(i) /\ o.kind = "PUT" /\ o.type = None
         /\ o.set = set /\ o.child = None
  BY ONLY <1>1
<1> QED BY <1>3, <1>4

LEMMA LinkFacts ==
  ASSUME NEW i, NEW c
  PROVE  LET o == Products!Link(i, c)
         IN /\ o.row = i /\ o.sku = Products!SkuOf(i) /\ o.kind = "child" /\ o.type = None
            /\ o.set = [f \in Products!Field |-> None] /\ o.child = c
<1>1. Products!Link(i, c) = [row |-> i, sku |-> Products!SkuOf(i), kind |-> "child", type |-> None,
                             set |-> [f \in Products!Field |-> None], child |-> c]
  BY DEF Products!Link, Products!Op
<1> QED BY ONLY <1>1

\* What a planned operation is.
PlannedProduct(o) ==
  LET i == o.row
      row == Products!rows[i]
      existing == Products!SkuOf(i) \in Products!Existing
  IN /\ i \in DOMAIN Products!rows /\ o.sku = Products!SkuOf(i) /\ o.sku \in Sku
     /\ ~Products!Unchanged(i) /\ ~Products!Skips(i) /\ ~Products!PlanFails(i)
     /\ o.set \in [Products!Field -> Value \cup {None}]
     /\ \/ /\ o = Products!Main(i) /\ input.behavior # "disable" /\ o.set = row.set
           /\ o.kind = IF existing THEN "PUT" ELSE "POST"
           /\ o.type = IF existing /\ ~row.named THEN None ELSE row.type
           /\ o.type \in Products!Type \cup {None} /\ (o.kind = "POST" => o.type \in Products!Type)
        \/ /\ o = Products!Disable(i) /\ input.behavior = "disable" /\ o.kind = "PUT" /\ o.type = None
        \/ /\ input.behavior # "disable" /\ row.type = "configurable" /\ row.kids # {}
           /\ \/ o = Products!Op(i, "option") /\ o.kind = "option"
              \/ o = Products!Link(i, o.child) /\ o.kind = "child" /\ o.child \in row.kids /\ o.child \in Sku

LEMMA PlannedRow ==
  ASSUME input \in ProductInputs, NEW i \in DOMAIN Products!rows, NEW o \in Products!PlanRow(i)
  PROVE  PlannedProduct(o) /\ o.row = i
<1>1. ~Products!Unchanged(i) /\ ~Products!Skips(i) /\ ~Products!PlanFails(i)
  BY DEF Products!PlanRow
<1>2. /\ Products!SkuOf(i) \in Sku /\ Products!rows[i].type \in Products!Type
      /\ Products!rows[i].kids \in SUBSET Sku /\ Products!rows[i].set \in [Products!Field -> Value \cup {None}]
  BY ProductRowFacts
<1>3. CASE input.behavior = "disable"
  <2>1. o = Products!Disable(i)
    BY <1>1, <1>3 DEF Products!PlanRow
  <2> QED BY <1>1, <1>2, <1>3, <2>1, DisableFacts DEF PlannedProduct
<1>4. CASE input.behavior # "disable" /\ o = Products!Main(i)
  BY <1>1, <1>2, <1>4, MainFacts DEF PlannedProduct
<1>5. CASE input.behavior # "disable" /\ o # Products!Main(i)
  <2>1. o \in Products!TypeParts(i)
    BY <1>1, <1>5 DEF Products!PlanRow
  <2>2. /\ Products!rows[i].type = "configurable" /\ Products!rows[i].kids # {}
        /\ o = Products!Op(i, "option") \/ \E c \in Products!rows[i].kids : o = Products!Link(i, c)
    BY <2>1 DEF Products!TypeParts
  <2>3. [f \in Products!Field |-> None] \in [Products!Field -> Value \cup {None}]
    OBVIOUS
  <2>4. CASE o = Products!Op(i, "option")
    BY <1>1, <1>2, <1>5, <2>2, <2>3, <2>4, OpFacts DEF PlannedProduct
  <2>5. CASE \E c \in Products!rows[i].kids : o = Products!Link(i, c)
    BY <1>1, <1>2, <1>5, <2>2, <2>3, <2>5, LinkFacts DEF PlannedProduct
  <2> QED BY <2>2, <2>4, <2>5
<1> QED BY <1>3, <1>4, <1>5

LEMMA PlannedProducts ==
  ASSUME ProductTypes, ProductOps
  PROVE  \A o \in ops : PlannedProduct(o)
BY PlannedRow DEF ProductTypes, ProductOps

\* A row has one save and one link per child.
LEMMA OneOp ==
  ASSUME ProductTypes, ProductOps, NEW o \in ops, NEW p \in ops, o.row = p.row
  PROVE  /\ o.kind \in Products!Saves /\ p.kind \in Products!Saves => o = p
         /\ o.kind = "child" /\ p.kind = "child" /\ o.child = p.child => o = p
BY PlannedProducts DEF PlannedProduct, Products!Saves

\* The plan of a row that is neither skipped nor refused is there.
LEMMA PlanIsThere ==
  ASSUME ProductTypes, ProductOps, pc \notin Reading, NEW i \in DOMAIN Products!rows, input.behavior # "disable",
         ~Products!Unchanged(i), ~Products!Skips(i), ~Products!PlanFails(i)
  PROVE  /\ Products!Main(i) \in ops
         /\ Products!rows[i].type = "configurable" => \A c \in Products!rows[i].kids : Products!Link(i, c) \in ops
<1>1. Products!PlanRow(i) \subseteq ops
  BY DEF ProductOps
<1>2. Products!PlanRow(i) = {Products!Main(i)} \cup Products!TypeParts(i)
  BY DEF Products!PlanRow
<1> QED BY <1>1, <1>2 DEF Products!TypeParts

\* What an operation leaves in the store.
Leaves(o, new) ==
  LET old == store[o.sku]
      now == new[o.sku]
  IN /\ \A s \in Sku \ {o.sku} : new[s] = store[s]
     /\ now # None
     /\ o.kind \in Products!Saves =>
          /\ o.type # None => now.type = o.type
          /\ old # None /\ o.type = None => now.type = old.type
          /\ \A f \in Products!Field : o.set[f] \in {None, now.set[f]}
          /\ now.kids = IF old # None THEN old.kids ELSE {}
     /\ o.kind \in Products!FollowUps =>
          /\ old # None /\ now.type = old.type /\ now.set = old.set
          /\ now.kids = IF o.kind = "child" THEN old.kids \cup {o.child} ELSE old.kids
     /\ o.kind # "POST" => old # None

LEMMA AppliedFacts ==
  ASSUME ProductTypes, NEW o, PlannedProduct(o), Products!Accepts(o), NEW new, new = [store EXCEPT ![o.sku] = Products!Saved(o)]
  PROVE  new \in Shops /\ Leaves(o, new)
<1> DEFINE old == store[o.sku]
           P == Products!Product
<1>1. store \in Shops /\ o.sku \in Sku /\ None \notin P /\ None \notin Products!Type
  BY ProductConstants DEF ProductTypes, PlannedProduct
<1>2. old \in P \cup {None} /\ (Products!Exists(o.sku) <=> old # None)
  BY <1>1 DEF Shops, Products!Exists
<1>3. new[o.sku] = Products!Saved(o) /\ (\A s \in Sku \ {o.sku} : new[s] = store[s]) /\ DOMAIN new = Sku
  BY <1>1 DEF Shops
<1>4. o.kind \in {"POST", "PUT", "option", "child"} /\ o.set \in [Products!Field -> Value \cup {None}]
  BY DEF PlannedProduct
<1>5. CASE o.kind \in Products!Saves /\ old # None
  <2> DEFINE type == IF o.type = None THEN old.type ELSE o.type
             set == Products!Merge(old.set, o.set)
  <2>1. old \in P /\ o.type \in Products!Type \cup {None}
    BY <1>2, <1>4, <1>5 DEF PlannedProduct, Products!Saves
  <2>2. Products!Saved(o) = [old EXCEPT !.type = type, !.set = set]
    BY <1>2, <1>5 DEF Products!Saved, Products!Saves
  <2>3. old = [type |-> old.type, set |-> old.set, option |-> old.option, kids |-> old.kids]
        /\ old.type \in Products!Type /\ old.set \in [Products!Field -> Value \cup {None}] /\ old.option \in BOOLEAN
        /\ old.kids \in SUBSET Sku
    BY <2>1 DEF Products!Product
  <2>4. Products!Saved(o) = [type |-> type, set |-> set, option |-> old.option, kids |-> old.kids]
    BY <2>1, <2>2 DEF Products!Product
  <2>5. set \in [Products!Field -> Value \cup {None}] /\ \A f \in Products!Field : o.set[f] \in {None, set[f]}
    BY <1>4, <2>3 DEF Products!Merge
  <2>6. type \in Products!Type
    BY <2>1, <2>3
  <2> HIDE DEF type, set
  <2>7. Products!Saved(o).type = type /\ Products!Saved(o).set = set /\ Products!Saved(o).kids = old.kids
    BY ONLY <2>4
  <2>8. Products!Saved(o) \in P
    BY <2>3, <2>4, <2>5, <2>6 DEF Products!Product
  <2>9. new \in Shops
    BY <1>1, <2>8 DEF Shops
  <2>10. Leaves(o, new)
    BY <1>1, <1>3, <1>5, <2>5, <2>7, <2>8 DEF Leaves, type, Products!Saves, Products!FollowUps
  <2> QED BY <2>9, <2>10
<1>6. CASE o.kind \in Products!Saves /\ old = None
  <2>1. o.kind = "POST" /\ o.type \in Products!Type
    BY <1>2, <1>6 DEF Products!Accepts, Products!Saves, PlannedProduct
  <2>2. Products!Saved(o) = [type |-> o.type, set |-> o.set, option |-> FALSE, kids |-> {}]
    BY <1>2, <1>6, <2>1 DEF Products!Saved
  <2>3. Products!Saved(o).type = o.type /\ Products!Saved(o).set = o.set /\ Products!Saved(o).kids = {}
    BY ONLY <2>2
  <2>4. Products!Saved(o) \in P
    BY <1>4, <2>1, <2>2 DEF Products!Product
  <2>5. new \in Shops
    BY <1>1, <2>4 DEF Shops
  <2>6. Leaves(o, new)
    BY <1>1, <1>3, <1>6, <2>1, <2>3, <2>4 DEF Leaves, Products!FollowUps
  <2> QED BY <2>5, <2>6
<1>7. CASE o.kind \in Products!FollowUps
  <2> DEFINE kids == IF o.kind = "child" THEN old.kids \cup {o.child} ELSE old.kids
             option == IF o.kind = "option" THEN TRUE ELSE old.option
  <2>1. old # None /\ old \in P
    BY <1>2, <1>7 DEF Products!Accepts, Products!FollowUps
  <2>2. old.type \in Products!Type /\ old.set \in [Products!Field -> Value \cup {None}] /\ old.option \in BOOLEAN
        /\ old.kids \in SUBSET Sku
    BY <2>1 DEF Products!Product
  <2>3. o.kind = "child" => o.child \in Sku
    BY DEF PlannedProduct
  <2>4. Products!Saved(o) = [type |-> old.type, set |-> old.set, option |-> option, kids |-> kids]
    BY <1>7, <2>1 DEF Products!Saved, Products!Product, Products!FollowUps
  <2>5. kids \in SUBSET Sku /\ option \in BOOLEAN
    BY <2>2, <2>3
  <2> HIDE DEF kids, option
  <2>6. Products!Saved(o).type = old.type /\ Products!Saved(o).set = old.set /\ Products!Saved(o).kids = kids
    BY ONLY <2>4
  <2>7. Products!Saved(o) \in P
    BY <2>2, <2>4, <2>5 DEF Products!Product
  <2>8. new \in Shops
    BY <1>1, <2>7 DEF Shops
  <2>9. Leaves(o, new)
    BY <1>1, <1>3, <1>7, <2>1, <2>6, <2>7 DEF Leaves, kids, Products!Saves, Products!FollowUps
  <2> QED BY <2>8, <2>9
<1> QED BY <1>4, <1>5, <1>6, <1>7 DEF Products!Saves, Products!FollowUps

---------------------------------------------------------------------------

\* What an action leaves alone that writes neither input, snapshot nor plan.
LEMMA PlanRowKept ==
  ASSUME UNCHANGED <<input, snapshot>>
  PROVE  \A i : Products!PlanRow(i)' = Products!PlanRow(i)
BY DEF Products!PlanRow, Products!Unchanged, Products!Skips, Products!PlanFails, Products!Main, Products!Disable,
  Products!TypeParts, Products!Link, Products!Op, Products!Matches, Products!SkuOf, Products!rows, Products!Existing,
  Products!Disabled

LEMMA ProductOpsKept ==
  ASSUME ProductOps, UNCHANGED <<input, snapshot, ops>>, pc \in Reading <=> pc' \in Reading,
         pc \in Reading => UNCHANGED attached
  PROVE  ProductOps'
<1>1. \A i : Products!PlanRow(i)' = Products!PlanRow(i)
  BY PlanRowKept
<1>2. UNCHANGED {Products!PlanRow(i) : i \in DOMAIN Products!rows}
  BY <1>1 DEF Products!rows
<1> QED BY <1>2 DEF ProductOps

LEMMA ProductNames ==
  ASSUME UNCHANGED input
  PROVE  /\ UNCHANGED Products!rows /\ UNCHANGED Products!Asked
         /\ \A i : Products!SkuOf(i)' = Products!SkuOf(i) /\ (Products!Alone(i)' <=> Products!Alone(i))
BY DEF Products!rows, Products!Asked, Products!SkuOf, Products!Alone

LEMMA ProductInit == Products!Init => ProductInv
<1> SUFFICES ASSUME Products!Init PROVE ProductInv
  OBVIOUS
<1>1. /\ input \in ProductInputs /\ store \in ProductStores /\ held = Products!Holds(store) /\ foreign = 0
      /\ pc \in {"index", "rest"} /\ snapshot = [s \in Sku |-> None]
      /\ ops = {} /\ status = [o \in {} |-> "todo"] /\ late = {} /\ attached = [s \in Sku |-> None]
  BY DEF Products!Init
<1>2. store \in Shops
  BY <1>1, ProductConstants
<1>3. status \in [ops -> Verdicts]
  BY <1>1
<1>4. ProductTypes
  BY <1>1, <1>2, <1>3 DEF ProductTypes, Reading
<1>5. ProductSeen /\ ProductOps /\ ProductVerdicts
  BY <1>1 DEF ProductSeen, ProductOps, ProductVerdicts, Reading
<1>6. ProductQuiet
  BY <1>1 DEF ProductQuiet, Reading
<1> QED BY <1>4, <1>5, <1>6 DEF ProductInv

LEMMA ProductForeign == ProductInv /\ Products!Foreign => ProductInv'
<1> SUFFICES ASSUME ProductInv, Products!Foreign PROVE ProductInv'
  OBVIOUS
<1>1. /\ UNCHANGED <<input, pc, snapshot, ops, status, late, attached>> /\ foreign' = foreign + 1
      /\ held' = held \cup Products!Holds(store)'
  BY DEF Products!Foreign
<1>2. ProductTypes /\ ProductSeen /\ ProductOps /\ ProductVerdicts
  BY DEF ProductInv
<1>3. store' \in Shops
  <2>1. PICK s \in Sku :
          \/ Products!Exists(s) /\ store' = [store EXCEPT ![s] = None]
          \/ ~Products!Exists(s) /\ \E st \in ProductStores : store' = [store EXCEPT ![s] = st[s]]
          \/ Products!Exists(s) /\ \E f \in Products!Field, v \in Value : store' = [store EXCEPT ![s].set[f] = v]
    BY DEF Products!Foreign
  <2>2. store \in Shops
    BY <1>2 DEF ProductTypes
  <2>3. CASE store' = [store EXCEPT ![s] = None]
    BY <2>2, <2>3 DEF Shops
  <2>4. CASE \E st \in ProductStores : store' = [store EXCEPT ![s] = st[s]]
    <3>1. PICK st \in ProductStores : store' = [store EXCEPT ![s] = st[s]]
      BY <2>4
    <3>2. st \in Shops
      BY ProductConstants
    <3> QED BY <2>2, <3>1, <3>2 DEF Shops
  <2>5. CASE Products!Exists(s) /\ \E f \in Products!Field, v \in Value : store' = [store EXCEPT ![s].set[f] = v]
    <3>1. PICK f \in Products!Field, v \in Value : store' = [store EXCEPT ![s].set[f] = v]
      BY <2>5
    <3>2. store[s] \in Products!Product
      BY <2>2, <2>5 DEF Shops, Products!Exists
    <3>3. [store[s] EXCEPT !.set[f] = v] \in Products!Product
      BY <3>2 DEF Products!Product
    <3>4. store' = [store EXCEPT ![s] = [store[s] EXCEPT !.set[f] = v]]
      BY <3>1
    <3> QED BY <2>2, <3>3, <3>4 DEF Shops
  <2> QED BY <2>1, <2>3, <2>4, <2>5
<1>4. ProductTypes'
  BY <1>1, <1>2, <1>3 DEF ProductTypes
<1>5. ProductSeen'
  BY <1>1, <1>2 DEF ProductSeen
<1>6. ProductOps'
  BY <1>1, <1>2, ProductOpsKept
<1>7. ProductVerdicts'
  BY <1>1, <1>2 DEF ProductVerdicts
<1>8. ProductQuiet'
  BY <1>1, <1>2 DEF ProductQuiet, ProductTypes
<1> QED BY <1>4, <1>5, <1>6, <1>7, <1>8 DEF ProductInv

\* What a read sees is there.
ReadOf(s, x) ==
  /\ x # None => /\ x \in Products!Seen
                 /\ \A f \in Products!Field : x.set[f] # None => <<s, f, x.set[f]>> \in held

LEMMA ReadFacts ==
  ASSUME ProductInv, NEW s \in Sku, NEW fields
  PROVE  LET set == Products!Read(s, fields)
         IN /\ set \in [Products!Field -> Value \cup {None}]
            /\ \A f \in Products!Field : set[f] # None => <<s, f, set[f]>> \in held
            /\ store[s] # None => store[s].type \in Products!Type
<1>1. store \in Shops /\ Products!Holds(store) \subseteq held
  BY DEF ProductInv, ProductTypes, ProductSeen
<1>2. store[s] # None => /\ store[s].set \in [Products!Field -> Value \cup {None}]
                         /\ store[s].type \in Products!Type
  BY <1>1 DEF Shops, Products!Product
<1>3. \A f \in Products!Field : store[s] # None => <<s, f, store[s].set[f]>> \in held
  BY <1>1 DEF Products!Holds
<1> QED BY <1>2, <1>3 DEF Products!Read, Products!Exists

LEMMA SeenFacts ==
  ASSUME NEW type \in Products!Type, NEW set \in [Products!Field -> Value \cup {None}], NEW x,
         x = [type |-> type, set |-> set]
  PROVE  x \in Products!Seen /\ x # None /\ x.set = set
<1>1. x \in Products!Seen
  BY DEF Products!Seen
<1>2. x.set = set
  OBVIOUS
<1> QED BY <1>1, <1>2, ProductConstants

\* The five steps that read: what they leave is typed and was there.
LEMMA ProductReads ==
  ASSUME ProductInv, UNCHANGED <<input, store, held, foreign, ops, status, late, attached>>,
         pc \in Reading, pc' \in Reading,
         snapshot' = [s \in Sku |-> snapshot'[s]], \A s \in Sku : ReadOf(s, snapshot'[s]),
         foreign = 0 /\ pc' \in {"values", "extension", "plan"} =>
           \A s \in Products!Asked : snapshot'[s] # None <=> store[s] # None
  PROVE  ProductInv'
<1>1. ProductTypes /\ ProductSeen /\ ProductOps /\ ProductVerdicts /\ late = {} /\ ops = {}
  BY DEF ProductInv, ProductTypes, ProductOps
<1>2. snapshot' \in [Sku -> Products!Seen \cup {None}]
  BY DEF ReadOf
<1>3. ProductTypes'
  BY <1>1, <1>2 DEF ProductTypes
<1>4. UNCHANGED Products!Holds(store)
  BY DEF Products!Holds
<1>5. ProductSeen'
  BY <1>1, <1>4 DEF ProductSeen, ReadOf
<1>6. ProductOps' /\ ProductVerdicts'
  BY <1>1 DEF ProductOps, ProductVerdicts, Reading
<1>7. ProductQuiet'
  <2> SUFFICES ASSUME foreign = 0
               PROVE  pc' \in {"values", "extension", "plan"} =>
                        \A s \in Products!Asked' : s \in Products!Existing' <=> store[s] # None
    BY DEF ProductQuiet, Reading
  <2>1. Products!Asked' = Products!Asked /\ Products!Asked \subseteq Sku
    BY <1>1, ProductNames, ProductRowFacts DEF Products!Asked, ProductTypes
  <2>2. \A s \in Sku : s \in Products!Existing' <=> snapshot'[s] # None
    BY DEF Products!Existing
  <2> QED BY <2>1, <2>2
<1> QED BY <1>3, <1>5, <1>6, <1>7 DEF ProductInv

LEMMA ProductIndex == ProductInv /\ Products!ReadIndex => ProductInv'
<1> SUFFICES ASSUME ProductInv, Products!ReadIndex PROVE ProductInv'
  OBVIOUS
<1> DEFINE new(s) == [type |-> store[s].type, set |-> Products!Read(s, {})]
<1>1. /\ UNCHANGED <<input, store, held, foreign, ops, status, late, attached>> /\ pc = "index" /\ pc' = "values"
      /\ snapshot' = [s \in Sku |-> IF s \in Products!Asked /\ store[s] # None THEN new(s) ELSE None]
  BY DEF Products!ReadIndex, Products!Exists
<1>2. ASSUME NEW s \in Sku, store[s] # None PROVE new(s) # None /\ ReadOf(s, new(s))
  <2>1. /\ store[s].type \in Products!Type /\ Products!Read(s, {}) \in [Products!Field -> Value \cup {None}]
        /\ \A f \in Products!Field : Products!Read(s, {})[f] # None => <<s, f, Products!Read(s, {})[f]>> \in held
    BY <1>2, ReadFacts
  <2>2. new(s) \in Products!Seen /\ new(s) # None /\ new(s).set = Products!Read(s, {})
    BY <2>1, SeenFacts
  <2> QED BY <2>1, <2>2 DEF ReadOf
<1> HIDE DEF new
<1>3. \A s \in Sku : ReadOf(s, snapshot'[s])
  BY <1>1, <1>2 DEF ReadOf
<1>4. Products!Asked \subseteq Sku
  BY ProductRowFacts DEF Products!Asked, ProductInv, ProductTypes
<1>5. \A s \in Products!Asked : snapshot'[s] # None <=> store[s] # None
  BY <1>1, <1>2, <1>4
<1>6. snapshot' = [s \in Sku |-> snapshot'[s]]
  BY <1>1
<1> QED BY <1>1, <1>3, <1>5, <1>6, ProductReads DEF Reading

LEMMA ProductRest == ProductInv /\ Products!ReadRest => ProductInv'
<1> SUFFICES ASSUME ProductInv, Products!ReadRest PROVE ProductInv'
  OBVIOUS
<1> DEFINE fields == {"attr", "ext"}
           new(s) == [type |-> store[s].type, set |-> Products!Read(s, fields)]
<1>1. /\ UNCHANGED <<input, store, held, foreign, ops, status, late, attached>> /\ pc = "rest" /\ pc' = "plan"
      /\ snapshot' = [s \in Sku |-> IF s \in Products!Asked /\ store[s] # None THEN new(s) ELSE None]
  BY DEF Products!ReadRest, Products!Exists
<1> HIDE DEF fields
<1>2. ASSUME NEW s \in Sku, store[s] # None PROVE new(s) # None /\ ReadOf(s, new(s))
  <2>1. /\ store[s].type \in Products!Type /\ Products!Read(s, fields) \in [Products!Field -> Value \cup {None}]
        /\ \A f \in Products!Field : Products!Read(s, fields)[f] # None => <<s, f, Products!Read(s, fields)[f]>> \in held
    BY <1>2, ReadFacts
  <2>2. new(s) \in Products!Seen /\ new(s) # None /\ new(s).set = Products!Read(s, fields)
    BY <2>1, SeenFacts
  <2> QED BY <2>1, <2>2 DEF ReadOf
<1> HIDE DEF new
<1>3. \A s \in Sku : ReadOf(s, snapshot'[s])
  BY <1>1, <1>2 DEF ReadOf
<1>4. Products!Asked \subseteq Sku
  BY ProductRowFacts DEF Products!Asked, ProductInv, ProductTypes
<1>5. \A s \in Products!Asked : snapshot'[s] # None <=> store[s] # None
  BY <1>1, <1>2, <1>4
<1>6. snapshot' = [s \in Sku |-> snapshot'[s]]
  BY <1>1
<1> QED BY <1>1, <1>3, <1>5, <1>6, ProductReads DEF Reading

\* What is kept of what was read already.
LEMMA StillSeen ==
  ASSUME ProductInv, NEW s \in Sku
  PROVE  ReadOf(s, snapshot[s]) /\ (s \in Products!Existing <=> snapshot[s] # None)
<1>1. snapshot[s] \in Products!Seen \cup {None}
  BY DEF ProductInv, ProductTypes
<1> QED BY <1>1 DEF ProductInv, ProductSeen, ReadOf, Products!Existing

LEMMA ProductValues == ProductInv /\ Products!ReadValues => ProductInv'
<1> SUFFICES ASSUME ProductInv, Products!ReadValues PROVE ProductInv'
  OBVIOUS
<1> DEFINE fields == {"attr"}
           new(s) == [snapshot[s] EXCEPT !.set = Products!Read(s, fields)]
<1>1. /\ UNCHANGED <<input, store, held, foreign, ops, status, late, attached>> /\ pc = "values" /\ pc' = "extension"
      /\ snapshot' = [s \in Sku |-> IF s \in Products!Existing THEN new(s) ELSE None]
  BY DEF Products!ReadValues
<1> HIDE DEF fields
<1>2. ASSUME NEW s \in Sku, snapshot[s] # None PROVE new(s) # None /\ ReadOf(s, new(s))
  <2>1. /\ Products!Read(s, fields) \in [Products!Field -> Value \cup {None}]
        /\ \A f \in Products!Field : Products!Read(s, fields)[f] # None => <<s, f, Products!Read(s, fields)[f]>> \in held
    BY ReadFacts
  <2>2. snapshot[s] \in Products!Seen
    BY <1>2, StillSeen DEF ReadOf
  <2>3. new(s) = [type |-> snapshot[s].type, set |-> Products!Read(s, fields)] /\ snapshot[s].type \in Products!Type
    BY <2>2 DEF Products!Seen
  <2>4. new(s) \in Products!Seen /\ new(s) # None /\ new(s).set = Products!Read(s, fields)
    BY <2>1, <2>3, SeenFacts
  <2> QED BY <2>1, <2>4 DEF ReadOf
<1> HIDE DEF new
<1>3. \A s \in Sku : s \in Products!Existing <=> snapshot[s] # None
  BY StillSeen
<1>4. \A s \in Sku : ReadOf(s, snapshot'[s]) /\ (snapshot'[s] # None <=> snapshot[s] # None)
  BY <1>1, <1>2, <1>3 DEF ReadOf
<1>5. Products!Asked \subseteq Sku
  BY ProductRowFacts DEF Products!Asked, ProductInv, ProductTypes
<1>6. foreign = 0 => \A s \in Products!Asked : snapshot'[s] # None <=> store[s] # None
  BY <1>1, <1>3, <1>4, <1>5 DEF ProductInv, ProductQuiet
<1>7. snapshot' = [s \in Sku |-> snapshot'[s]]
  BY <1>1
<1> QED BY <1>1, <1>4, <1>6, <1>7, ProductReads DEF Reading

LEMMA ProductExtension == ProductInv /\ Products!ReadExtension => ProductInv'
<1> SUFFICES ASSUME ProductInv, Products!ReadExtension PROVE ProductInv'
  OBVIOUS
<1> DEFINE ext(s) == Products!Read(s, {"ext"})["ext"]
           new(s) == [snapshot[s] EXCEPT !.set["ext"] = ext(s)]
<1>1. /\ UNCHANGED <<input, store, held, foreign, ops, status, late, attached>> /\ pc = "extension" /\ pc' = "plan"
      /\ snapshot' = [s \in Sku |-> IF s \in Products!Existing THEN new(s) ELSE None]
  BY DEF Products!ReadExtension
<1> HIDE DEF ext
<1>2. ASSUME NEW s \in Sku, snapshot[s] # None PROVE new(s) # None /\ ReadOf(s, new(s))
  <2> DEFINE set == [snapshot[s].set EXCEPT !["ext"] = ext(s)]
  <2>1. ext(s) \in Value \cup {None} /\ (ext(s) # None => <<s, "ext", ext(s)>> \in held)
    BY ReadFacts DEF ext, Products!Field
  <2>2. snapshot[s] \in Products!Seen
        /\ \A f \in Products!Field : snapshot[s].set[f] # None => <<s, f, snapshot[s].set[f]>> \in held
    BY <1>2, StillSeen DEF ReadOf
  <2>3. snapshot[s].type \in Products!Type /\ snapshot[s].set \in [Products!Field -> Value \cup {None}]
    BY <2>2 DEF Products!Seen
  <2>4. new(s) = [type |-> snapshot[s].type, set |-> set]
    BY <2>2 DEF Products!Seen
  <2>5. set \in [Products!Field -> Value \cup {None}] /\ \A f \in Products!Field : set[f] # None => <<s, f, set[f]>> \in held
    BY <2>1, <2>2, <2>3
  <2>6. new(s) \in Products!Seen /\ new(s) # None /\ new(s).set = set
    BY <2>3, <2>4, <2>5, SeenFacts
  <2> QED BY <2>5, <2>6 DEF ReadOf
<1> HIDE DEF new
<1>3. \A s \in Sku : s \in Products!Existing <=> snapshot[s] # None
  BY StillSeen
<1>4. \A s \in Sku : ReadOf(s, snapshot'[s]) /\ (snapshot'[s] # None <=> snapshot[s] # None)
  BY <1>1, <1>2, <1>3 DEF ReadOf
<1>5. Products!Asked \subseteq Sku
  BY ProductRowFacts DEF Products!Asked, ProductInv, ProductTypes
<1>6. foreign = 0 => \A s \in Products!Asked : snapshot'[s] # None <=> store[s] # None
  BY <1>1, <1>3, <1>4, <1>5 DEF ProductInv, ProductQuiet
<1>7. snapshot' = [s \in Sku |-> snapshot'[s]]
  BY <1>1
<1> QED BY <1>1, <1>4, <1>6, <1>7, ProductReads DEF Reading

LEMMA ProductFallsBack == ProductInv /\ Products!BridgeFails => ProductInv'
<1> SUFFICES ASSUME ProductInv, Products!BridgeFails PROVE ProductInv'
  OBVIOUS
<1>1. /\ UNCHANGED <<input, store, held, foreign, snapshot, ops, status, late, attached>>
      /\ pc \in {"index", "values", "extension"} /\ pc' = "rest"
  BY DEF Products!BridgeFails
<1>2. \A s \in Sku : ReadOf(s, snapshot'[s])
  BY <1>1, StillSeen
<1>3. snapshot' = [s \in Sku |-> snapshot'[s]]
  BY <1>1 DEF ProductInv, ProductTypes
<1> QED BY <1>1, <1>2, <1>3, ProductReads DEF Reading

LEMMA ProductPlan == ProductInv /\ Products!Plan => ProductInv'
<1> SUFFICES ASSUME ProductInv, Products!Plan PROVE ProductInv'
  OBVIOUS
<1>1. /\ UNCHANGED <<input, store, held, foreign, snapshot, late, attached>> /\ pc = "plan" /\ pc' = "saves"
      /\ ops' = UNION {Products!PlanRow(i) : i \in DOMAIN Products!rows}
      /\ status' = [o \in ops' |-> "todo"]
  BY DEF Products!Plan
<1>2. ProductTypes /\ ProductSeen /\ late = {} /\ \A s \in Sku : attached[s] = None
  BY <1>1 DEF ProductInv, ProductTypes, ProductOps, Reading
<1>3. ProductTypes'
  BY <1>1, <1>2 DEF ProductTypes, Verdicts
<1>4. ProductSeen'
  <2>1. UNCHANGED Products!Holds(store)
    BY <1>1 DEF Products!Holds
  <2> QED BY <1>1, <1>2, <2>1 DEF ProductSeen
<1>5. ProductOps'
  <2>1. \A i : Products!PlanRow(i)' = Products!PlanRow(i)
    BY <1>1, PlanRowKept
  <2>2. UNCHANGED {Products!PlanRow(i) : i \in DOMAIN Products!rows}
    BY <1>1, <2>1 DEF Products!rows
  <2> QED BY <1>1, <2>2 DEF ProductOps, Reading
<1>6. ProductVerdicts'
  BY <1>1, <1>2 DEF ProductVerdicts
<1>7. ProductQuiet'
  <2> SUFFICES ASSUME foreign = 0, NEW i \in DOMAIN Products!rows PROVE RowInv(i)'
    BY <1>1, <1>2, ProductNames DEF ProductQuiet, Reading
  <2>1. Products!SkuOf(i) \in Products!Existing <=> store[Products!SkuOf(i)] # None
    BY <1>1 DEF ProductInv, ProductQuiet, Products!Asked
  <2>2. Products!SkuOf(i)' = Products!SkuOf(i) /\ UNCHANGED Products!Existing
    BY <1>1, ProductNames DEF Products!Existing
  <2> QED BY <1>1, <2>1, <2>2 DEF RowInv
<1> QED BY <1>3, <1>4, <1>5, <1>6, <1>7 DEF ProductInv

\* The answer to one operation.
Settled(o, v) ==
  /\ o \in ops /\ status[o] = "todo" /\ o.kind \in IF pc = "saves" THEN Products!Saves ELSE Products!FollowUps
  /\ status' = [status EXCEPT ![o] = v]
  /\ \/ Products!Apply(o) /\ v \in {"ok", "failed"} /\ late' = late
     \/ v = "failed" /\ UNCHANGED <<store, held, late>>
     \/ v = "pending" /\ late' = late \cup {o} /\ UNCHANGED <<store, held>>

LEMMA ProductSendFacts ==
  ASSUME Products!Send
  PROVE  /\ UNCHANGED <<input, foreign, pc, snapshot, ops, attached>> /\ pc \in {"saves", "links"}
         /\ \E o \in ops, v \in {"ok", "failed", "pending"} : Settled(o, v)
<1> DEFINE kinds == IF pc = "saves" THEN Products!Saves ELSE Products!FollowUps
<1>1. Products!Turn(kinds) \subseteq {o \in ops : status[o] = "todo" /\ o.kind \in kinds}
  BY DEF Products!Turn, Products!Todo
<1>2. PICK o \in Products!Turn(kinds) :
        \/ Products!Apply(o) /\ (Products!Settle(o, "ok") \/ Products!Settle(o, "failed")) /\ UNCHANGED late
        \/ Products!Settle(o, "failed") /\ UNCHANGED <<store, held, late>>
        \/ /\ input.mode = "bulk" /\ Products!Settle(o, "pending")
           /\ late' = late \cup {o} /\ UNCHANGED <<store, held>>
  BY DEF Products!Send
<1>3. o \in ops /\ status[o] = "todo" /\ o.kind \in kinds
  BY <1>1
<1>4. Settled(o, "ok") \/ Settled(o, "failed") \/ Settled(o, "pending")
  BY <1>2, <1>3 DEF Settled, Products!Settle
<1> QED BY <1>3, <1>4 DEF Products!Send

\* What an operation that Magento takes leaves.
LEMMA ApplyFacts ==
  ASSUME ProductInv, NEW o \in ops, Products!Apply(o)
  PROVE  /\ held' = held \cup Products!Holds(store)'
         /\ \E new \in Shops : store' = new /\ Leaves(o, new)
<1>1. Products!Accepts(o) /\ store' = [store EXCEPT ![o.sku] = Products!Saved(o)]
      /\ held' = held \cup Products!Holds(store)'
  BY DEF Products!Apply
<1>2. PlannedProduct(o) /\ ProductTypes
  BY PlannedProducts DEF ProductInv
<1>3. PICK new : new = [store EXCEPT ![o.sku] = Products!Saved(o)]
  OBVIOUS
<1> QED BY <1>1, <1>2, <1>3, AppliedFacts

\* What is said of a row when an operation is answered.
LEMMA RowAnswered ==
  ASSUME ProductInv, UNCHANGED <<input, snapshot, ops, pc, store>>,
         \A p \in ops : status'[p] = status[p] \/ status'[p] \in {"failed", "pending"},
         NEW i \in DOMAIN Products!rows, RowInv(i)
  PROVE  RowInv(i)'
<1>1. Products!SkuOf(i)' = Products!SkuOf(i) /\ UNCHANGED Products!Existing
  BY ProductNames DEF Products!Existing
<1> QED BY <1>1 DEF RowInv

\* The same when it is saved.
LEMMA RowApplied ==
  ASSUME ProductInv, UNCHANGED <<input, snapshot, ops, pc>>, NEW o \in ops, NEW new, store' = new, Leaves(o, new),
         \A p \in ops \ {o} : status'[p] = status[p],
         status[o] \in {"todo", "pending"}, status'[o] \in {"ok", "failed", "pending"},
         pc = "saves" => o.kind \in Products!Saves,
         NEW i \in DOMAIN Products!rows, Products!Alone(i), RowInv(i)
  PROVE  RowInv(i)'
<1> DEFINE s == Products!SkuOf(i)
<1>1. Products!SkuOf(i)' = s /\ UNCHANGED Products!Existing
  BY ProductNames DEF Products!Existing
<1>2. \A p \in ops : PlannedProduct(p) /\ ProductTypes /\ ProductOps
  BY PlannedProducts DEF ProductInv
<1>3. s \in Sku
  BY ProductRowFacts DEF ProductInv, ProductTypes
<1>4. CASE o.sku # s
  <2>1. new[s] = store[s]
    BY <1>3, <1>4 DEF Leaves
  <2>2. o.row # i
    BY <1>2, <1>4 DEF PlannedProduct
  <2> QED BY <1>1, <2>1, <2>2 DEF RowInv
<1>5. CASE o.sku = s
  <2>1. o.row = i
    BY <1>2, <1>5 DEF PlannedProduct, Products!Alone
  <2>2. o.kind \in Products!Saves \cup Products!FollowUps
    BY <1>2 DEF PlannedProduct, Products!Saves, Products!FollowUps
  <2>3. ASSUME NEW p \in ops, p.row = i, p.kind \in Products!Saves, status'[p] = "ok"
        PROVE  /\ new[s] # None /\ (p.type # None => new[s].type = p.type)
               /\ \A f \in Products!Field : p.set[f] \in {None, new[s].set[f]}
    <3>1. CASE o.kind \in Products!Saves
      <4>1. p = o
        BY <1>2, <2>1, <2>3, <3>1, OneOp
      <4> QED BY <1>5, <3>1, <4>1 DEF Leaves
    <3>2. CASE o.kind \in Products!FollowUps
      <4>1. p # o
        BY <2>3, <3>2 DEF Products!Saves, Products!FollowUps
      <4>2. /\ store[s] # None /\ (p.type # None => store[s].type = p.type)
            /\ \A f \in Products!Field : p.set[f] \in {None, store[s].set[f]}
        BY <2>3, <4>1 DEF RowInv
      <4> QED BY <1>5, <3>2, <4>2 DEF Leaves
    <3> QED BY <2>2, <3>1, <3>2
  <2>4. ASSUME NEW p \in ops, p.row = i, p.kind = "child", status'[p] \in {"ok", "attached"}
        PROVE  new[s] # None /\ p.child \in new[s].kids
    <3>1. CASE p = o
      BY <1>5, <2>4, <3>1 DEF Leaves, Products!FollowUps
    <3>2. CASE p # o
      <4>1. store[s] # None /\ p.child \in store[s].kids
        BY <2>4, <3>2 DEF RowInv
      <4> QED BY <1>5, <2>2, <4>1 DEF Leaves
    <3> QED BY <3>1, <3>2
  <2>5. ASSUME pc = "saves", s \notin Products!Existing, new[s] # None
        PROVE  new[s].kids = {}
    BY <1>5, <2>5 DEF Leaves, RowInv
  <2>6. ASSUME pc = "links", new[s] # None, NEW p \in ops, p.row = i, p.kind = "child", status'[p] = "todo"
        PROVE  p.child \notin new[s].kids
    <3>1. p # o /\ status[p] = "todo"
      BY <2>6
    <3>2. store[s] # None => p.child \notin store[s].kids
      BY <2>6, <3>1 DEF RowInv
    <3>3. o.kind = "child" => p.child # o.child
      BY <1>2, <2>1, <2>6, <3>1, OneOp
    <3> QED BY <1>5, <2>2, <3>2, <3>3 DEF Leaves
  <2> QED BY <1>1, <2>3, <2>4, <2>5, <2>6 DEF RowInv
<1> QED BY <1>4, <1>5

\* The children read stay true while the saves run.
LEMMA KidsApplied ==
  ASSUME NEW o \in ops, NEW new, Leaves(o, new), o.kind \in Products!Saves, NEW s \in Sku, store[s] # None
  PROVE  new[s] # None /\ new[s].kids = store[s].kids
BY DEF Leaves

LEMMA HoldsKept == UNCHANGED store => UNCHANGED Products!Holds(store)
BY DEF Products!Holds

\* What an action that moves on among the requests keeps.
LEMMA ProductSeenKept ==
  ASSUME ProductSeen, UNCHANGED snapshot, held' = held \cup Products!Holds(store)' \/ UNCHANGED <<store, held>>
  PROVE  ProductSeen'
BY HoldsKept DEF ProductSeen

LEMMA ProductSends == ProductInv /\ Products!Send => ProductInv'
<1> SUFFICES ASSUME ProductInv, Products!Send PROVE ProductInv'
  OBVIOUS
<1>1. UNCHANGED <<input, foreign, pc, snapshot, ops, attached>> /\ pc \in {"saves", "links"}
  BY ProductSendFacts
<1>2. PICK o \in ops, v \in {"ok", "failed", "pending"} : Settled(o, v)
  BY ProductSendFacts
<1>3. ProductTypes /\ ProductSeen /\ ProductOps /\ ProductVerdicts /\ ProductQuiet
  BY DEF ProductInv
<1>4. /\ status[o] = "todo" /\ status' = [status EXCEPT ![o] = v] /\ status'[o] = v
      /\ \A p \in ops \ {o} : status'[p] = status[p]
      /\ o.kind \in IF pc = "saves" THEN Products!Saves ELSE Products!FollowUps
  BY <1>2, <1>3 DEF Settled, ProductTypes
<1>5. /\ \/ UNCHANGED <<store, held>> /\ v # "ok"
         \/ Products!Apply(o)
      /\ late' \subseteq late \cup {o} /\ (o \in late' => v = "pending")
  <2>1. o \notin late
    BY <1>3, <1>4 DEF ProductVerdicts
  <2> QED BY <1>2, <2>1 DEF Settled
<1>6. store' \in Shops
  <2>1. CASE UNCHANGED <<store, held>>
    BY <1>3, <2>1 DEF ProductTypes
  <2>2. CASE Products!Apply(o)
    BY <2>2, ApplyFacts
  <2> QED BY <1>5, <2>1, <2>2
<1>7. ProductTypes'
  BY <1>1, <1>3, <1>4, <1>5, <1>6 DEF ProductTypes, Verdicts
<1>8. ProductSeen'
  BY <1>1, <1>3, <1>5, ApplyFacts, ProductSeenKept
<1>9. ProductOps'
  BY <1>1, <1>3, ProductOpsKept
<1>10. ProductVerdicts'
  <2>1. o.kind \in Products!Saves => o.kind \notin Products!FollowUps
    BY DEF Products!Saves, Products!FollowUps
  <2>2. \A p \in late' : status'[p] = "pending"
    BY <1>3, <1>4, <1>5 DEF ProductVerdicts, ProductTypes
  <2>3. \A p \in ops : p.kind \in Products!Saves => status'[p] \in {"todo", "ok", "failed", "pending"}
    BY <1>3, <1>4 DEF ProductVerdicts
  <2>4. \A p \in ops : status'[p] = "withheld" => \E q \in ops : q.sku = p.sku /\ status'[q] \in {"failed", "pending"}
    <3> SUFFICES ASSUME NEW p \in ops, status'[p] = "withheld"
                 PROVE  \E q \in ops : q.sku = p.sku /\ status'[q] \in {"failed", "pending"}
      OBVIOUS
    <3>1. PICK q \in ops : q.sku = p.sku /\ status[q] \in {"failed", "pending"}
      BY <1>3, <1>4 DEF ProductVerdicts
    <3> QED BY <1>4, <3>1
  <2>5. pc = "saves" => \A p \in ops : p.kind \in Products!FollowUps => status'[p] = "todo"
    BY <1>3, <1>4, <2>1 DEF ProductVerdicts
  <2>6. pc = "links" => \A p \in ops : p.kind \in Products!Saves => status'[p] # "todo"
    BY <1>3, <1>4 DEF ProductVerdicts
  <2>7. pc = "links" => \A q, p \in ops :
          status'[q] = "todo" /\ p.kind \in Products!Saves /\ p.sku = q.sku => status'[p] = "ok"
    <3> SUFFICES ASSUME pc = "links", NEW q \in ops, NEW p \in ops, status'[q] = "todo", p.kind \in Products!Saves,
                        p.sku = q.sku
                 PROVE  status'[p] = "ok"
      OBVIOUS
    <3>1. status[p] = "ok"
      BY <1>3, <1>4 DEF ProductVerdicts
    <3> QED BY <1>4, <3>1
  <2> QED BY <1>1, <2>2, <2>3, <2>4, <2>5, <2>6, <2>7 DEF ProductVerdicts
<1>11. ProductQuiet'
  <2> SUFFICES ASSUME foreign = 0
               PROVE  /\ \A i \in DOMAIN Products!rows : Products!Alone(i) => RowInv(i)'
                      /\ pc = "saves" => \A s \in Sku : attached[s] # None => store'[s] # None /\ attached[s] = store'[s].kids
    BY <1>1, ProductNames DEF ProductQuiet, Reading
  <2>1. \A i \in DOMAIN Products!rows : Products!Alone(i) => RowInv(i)
    BY <1>1, <1>3 DEF ProductQuiet, Reading
  <2>2. pc = "saves" => \A s \in Sku : attached[s] # None => store[s] # None /\ attached[s] = store[s].kids
    BY <1>3 DEF ProductQuiet
  <2>3. CASE UNCHANGED <<store, held>> /\ v # "ok"
    <3>1. \A p \in ops : status'[p] = status[p] \/ status'[p] \in {"failed", "pending"}
      BY <1>4, <2>3
    <3> QED BY <1>1, <2>1, <2>2, <2>3, <3>1, RowAnswered
  <2>4. CASE Products!Apply(o)
    <3>1. PICK new \in Shops : store' = new /\ Leaves(o, new)
      BY <2>4, ApplyFacts
    <3>2. \A i \in DOMAIN Products!rows : Products!Alone(i) => RowInv(i)'
      BY <1>1, <1>4, <2>1, <3>1, RowApplied
    <3>3. pc = "saves" => \A s \in Sku : store[s] # None => new[s] # None /\ new[s].kids = store[s].kids
      BY <1>4, <3>1, KidsApplied
    <3> QED BY <2>2, <3>1, <3>2, <3>3
  <2> QED BY <1>5, <2>3, <2>4
<1> QED BY <1>7, <1>8, <1>9, <1>10, <1>11 DEF ProductInv

LEMMA ProductLate == ProductInv /\ Products!RunLate => ProductInv'
<1> SUFFICES ASSUME ProductInv, Products!RunLate PROVE ProductInv'
  OBVIOUS
<1>1. UNCHANGED <<input, foreign, pc, snapshot, ops, status, attached>>
  BY DEF Products!RunLate
<1>2. PICK o \in late : Products!Apply(o) /\ late' = late \ {o}
  BY DEF Products!RunLate
<1>3. ProductTypes /\ ProductSeen /\ ProductOps /\ ProductVerdicts /\ ProductQuiet
  BY DEF ProductInv
<1>4. o \in ops /\ status[o] = "pending" /\ PlannedProduct(o)
  BY <1>3, PlannedProducts DEF ProductVerdicts, ProductTypes
<1>5. pc \notin Reading
  BY <1>3, <1>4 DEF ProductOps
<1>6. pc = "saves" => o.kind \in Products!Saves
  BY <1>3, <1>4 DEF ProductVerdicts, PlannedProduct, Products!Saves, Products!FollowUps
<1>7. PICK new \in Shops : store' = new /\ Leaves(o, new)
  BY <1>2, <1>4, ApplyFacts
<1>8. ProductTypes'
  BY <1>1, <1>2, <1>3, <1>7 DEF ProductTypes
<1>9. ProductSeen'
  BY <1>1, <1>2, <1>3, <1>4, ApplyFacts, ProductSeenKept
<1>10. ProductOps'
  BY <1>1, <1>3, ProductOpsKept
<1>11. ProductVerdicts'
  BY <1>1, <1>2, <1>3 DEF ProductVerdicts
<1>12. ProductQuiet'
  <2> SUFFICES ASSUME foreign = 0
               PROVE  /\ \A i \in DOMAIN Products!rows : Products!Alone(i) => RowInv(i)'
                      /\ pc = "saves" => \A s \in Sku : attached[s] # None => store'[s] # None /\ attached[s] = store'[s].kids
    BY <1>1, <1>5, ProductNames DEF ProductQuiet, Reading
  <2>1. \A i \in DOMAIN Products!rows : Products!Alone(i) => RowInv(i)
    BY <1>3, <1>5 DEF ProductQuiet
  <2>2. \A i \in DOMAIN Products!rows : Products!Alone(i) => RowInv(i)'
    BY <1>1, <1>4, <1>6, <1>7, <2>1, RowApplied
  <2>3. pc = "saves" => \A s \in Sku : attached[s] # None => store[s] # None /\ attached[s] = store[s].kids
    BY <1>3 DEF ProductQuiet
  <2>4. pc = "saves" => \A s \in Sku : store[s] # None => new[s] # None /\ new[s].kids = store[s].kids
    BY <1>4, <1>6, <1>7, KidsApplied
  <2> QED BY <1>7, <2>2, <2>3, <2>4
<1> QED BY <1>8, <1>9, <1>10, <1>11, <1>12 DEF ProductInv

\* One GET for the children of a parent, or the end of the reads.
LEMMA ProductChildren == ProductInv /\ Products!ReadChildren => ProductInv'
<1> SUFFICES ASSUME ProductInv, Products!ReadChildren PROVE ProductInv'
  OBVIOUS
<1> DEFINE follow == {o \in Products!Todo(Products!FollowUps) : o.sku \notin Products!Unsettled}
           parents == {s \in {o.sku : o \in {p \in follow : p.kind = "child"}} :
                         Products!ReadsChildren(s) /\ attached[s] = None}
<1>1. /\ UNCHANGED <<input, store, held, foreign, snapshot, ops, late>> /\ pc = "saves"
      /\ Products!Todo(Products!Saves) = {}
      /\ IF parents # {}
         THEN /\ \E s \in parents :
                   IF Products!Exists(s) THEN attached' = [attached EXCEPT ![s] = store[s].kids] /\ UNCHANGED pc
                   ELSE pc' = "raised" /\ UNCHANGED attached
              /\ UNCHANGED status
         ELSE /\ status' = [o \in ops |->
                   IF o \in Products!Todo(Products!FollowUps) \ follow THEN "withheld"
                   ELSE IF o \in follow /\ attached[o.sku] # None /\ o.child \in attached[o.sku]
                   THEN "attached" ELSE status[o]]
              /\ pc' = "links"
              /\ UNCHANGED attached
  BY DEF Products!ReadChildren
<1>2. /\ ProductTypes /\ ProductSeen /\ ProductOps /\ ProductVerdicts /\ ProductQuiet
      /\ \A o \in ops : PlannedProduct(o)
  BY PlannedProducts DEF ProductInv
<1>3. ProductSeen'
  BY <1>1, <1>2, ProductSeenKept
<1>4. \A o \in ops : o.kind \in Products!Saves => status[o] \in {"ok", "failed", "pending"}
  BY <1>1, <1>2 DEF Products!Todo, ProductVerdicts
<1>5. Products!Todo(Products!FollowUps) = {o \in ops : status[o] = "todo" /\ o.kind \in Products!FollowUps}
      /\ \A o \in ops : ~(o.kind \in Products!Saves /\ o.kind \in Products!FollowUps)
  BY DEF Products!Todo, Products!Saves, Products!FollowUps
<1>6. UNCHANGED Products!Existing /\ \A i : Products!SkuOf(i)' = Products!SkuOf(i)
  BY <1>1, ProductNames DEF Products!Existing
<1>7. CASE parents # {}
  <2>1. PICK s \in parents :
          IF store[s] # None THEN attached' = [attached EXCEPT ![s] = store[s].kids] /\ UNCHANGED pc
          ELSE pc' = "raised" /\ UNCHANGED attached
    BY <1>1, <1>7 DEF Products!Exists
  <2>2. s \in Sku /\ UNCHANGED status /\ pc' \in {"saves", "raised"}
    BY <1>1, <1>2, <1>5, <1>7, <2>1 DEF PlannedProduct
  <2>3. store[s] # None => store[s].kids \in SUBSET Sku
    BY <1>2, <2>2 DEF ProductTypes, Shops, Products!Product
  <2>4. attached' \in [Sku -> (SUBSET Sku) \cup {None}]
    BY <1>2, <2>1, <2>2, <2>3 DEF ProductTypes
  <2>5. ProductTypes'
    BY <1>1, <1>2, <2>2, <2>4 DEF ProductTypes
  <2>6. ProductOps'
    BY <1>1, <1>2, <2>2, ProductOpsKept DEF Reading
  <2>7. ProductVerdicts'
    BY <1>1, <1>2, <2>2 DEF ProductVerdicts
  <2>8. ProductQuiet'
    <3> SUFFICES ASSUME foreign = 0
                 PROVE  /\ \A i \in DOMAIN Products!rows : Products!Alone(i) => RowInv(i)'
                        /\ pc' = "saves" => \A t \in Sku : attached'[t] # None => store[t] # None /\ attached'[t] = store[t].kids
      BY <1>1, <2>2, ProductNames DEF ProductQuiet, Reading
    <3>1. \A i \in DOMAIN Products!rows : Products!Alone(i) => RowInv(i)
      BY <1>1, <1>2 DEF ProductQuiet, Reading
    <3>2. \A i : RowInv(i) => RowInv(i)'
      BY <1>1, <1>6, <2>2 DEF RowInv
    <3>3. \A t \in Sku : attached[t] # None => store[t] # None /\ attached[t] = store[t].kids
      BY <1>1, <1>2 DEF ProductQuiet
    <3>4. pc' = "saves" => \A t \in Sku : attached'[t] # None => store[t] # None /\ attached'[t] = store[t].kids
      BY <1>1, <1>2, <2>1, <2>2, <3>3 DEF ProductTypes
    <3> QED BY <3>1, <3>2, <3>4
  <2> QED BY <1>3, <2>5, <2>6, <2>7, <2>8 DEF ProductInv
<1>8. CASE parents = {}
  <2>1. /\ status' = [o \in ops |->
             IF o \in Products!Todo(Products!FollowUps) \ follow THEN "withheld"
             ELSE IF o \in follow /\ attached[o.sku] # None /\ o.child \in attached[o.sku]
             THEN "attached" ELSE status[o]]
        /\ pc' = "links" /\ UNCHANGED attached
    BY <1>1, <1>8
  <2>2. ASSUME NEW o \in ops
        PROVE  \/ /\ status'[o] = "withheld" /\ status[o] = "todo" /\ o.kind \in Products!FollowUps
                  /\ o.sku \in Products!Unsettled
               \/ /\ status'[o] = "attached" /\ status[o] = "todo" /\ o.kind \in Products!FollowUps
                  /\ attached[o.sku] # None /\ o.child \in attached[o.sku]
               \/ /\ status'[o] = status[o]
                  /\ status[o] = "todo" =>
                       /\ o \in follow /\ o.kind \in Products!FollowUps /\ o.sku \notin Products!Unsettled
                       /\ attached[o.sku] # None => o.child \notin attached[o.sku]
    <3> DEFINE todo == o \in Products!Todo(Products!FollowUps)
               out == o.sku \in Products!Unsettled
               there == attached[o.sku] # None /\ o.child \in attached[o.sku]
    <3>1. todo <=> status[o] = "todo" /\ o.kind \in Products!FollowUps
      BY <1>5
    <3>2. o \in follow <=> todo /\ ~out
      OBVIOUS
    <3>3. status'[o] = IF todo /\ out THEN "withheld" ELSE IF todo /\ ~out /\ there THEN "attached" ELSE status[o]
      BY <2>1, <3>2
    <3>4. status[o] = "todo" => o.kind \in Products!FollowUps
      BY <1>2, <1>4 DEF PlannedProduct, Products!Saves, Products!FollowUps
    <3> HIDE DEF todo, out, there, follow
    <3>5. \/ status'[o] = "withheld" /\ todo /\ out
          \/ status'[o] = "attached" /\ todo /\ there
          \/ status'[o] = status[o] /\ (todo => ~out /\ ~there)
      BY <3>3
    <3> QED BY <3>1, <3>2, <3>4, <3>5 DEF out, there
  <2> HIDE DEF parents, follow
  <2>3. \A o \in ops : o.kind \in Products!Saves => status'[o] = status[o]
    BY <1>5, <2>2
  <2>4. status' \in [ops -> Verdicts]
    <3>1. \A o \in ops : status'[o] \in Verdicts
      BY <1>2, <2>2 DEF ProductTypes, Verdicts
    <3> QED BY <2>1, <3>1
  <2>5. ProductTypes'
    BY <1>1, <1>2, <2>1, <2>4 DEF ProductTypes
  <2>6. ProductOps'
    BY <1>1, <1>2, <2>1, ProductOpsKept DEF Reading
  <2>7. \A o \in ops : o.sku \in Products!Unsettled <=>
          \E p \in ops : p.sku = o.sku /\ status[p] \in {"failed", "pending"}
    BY DEF Products!Unsettled
  <2>8. \A p \in ops : status[p] \in {"failed", "pending"} => status'[p] = status[p]
    BY <2>2
  <2>9. ProductVerdicts'
    <3>1. \A o \in late' : status'[o] = "pending"
      BY <1>1, <1>2, <2>8 DEF ProductVerdicts, ProductTypes
    <3>2. \A o \in ops : status'[o] = "withheld" => \E p \in ops : p.sku = o.sku /\ status'[p] \in {"failed", "pending"}
      <4> SUFFICES ASSUME NEW o \in ops, status'[o] = "withheld"
                   PROVE  \E p \in ops : p.sku = o.sku /\ status[p] \in {"failed", "pending"}
        BY <2>8
      <4> QED BY <1>2, <2>2, <2>7 DEF ProductVerdicts
    <3>3. \A o, p \in ops : status'[o] = "todo" /\ p.kind \in Products!Saves /\ p.sku = o.sku => status'[p] = "ok"
      BY <1>4, <2>2, <2>3, <2>7
    <3> QED BY <1>1, <1>4, <2>1, <2>3, <3>1, <3>2, <3>3 DEF ProductVerdicts
  <2>10. ProductQuiet'
    <3> SUFFICES ASSUME foreign = 0, NEW i \in DOMAIN Products!rows, Products!Alone(i)
                 PROVE  RowInv(i)'
      BY <1>1, <2>1, ProductNames DEF ProductQuiet, Reading
    <3> DEFINE s == Products!SkuOf(i)
    <3>1. RowInv(i) /\ s \in Sku
      BY <1>1, <1>2, ProductRowFacts DEF ProductQuiet, Reading, ProductTypes
    <3>2. attached[s] # None => store[s] # None /\ attached[s] = store[s].kids
      BY <1>1, <1>2, <3>1 DEF ProductQuiet
    <3>3. ASSUME NEW o \in ops, o.row = i, o.kind = "child", status'[o] \in {"ok", "attached"}
          PROVE  store[s] # None /\ o.child \in store[s].kids
      <4>1. o.sku = s
        BY <1>2, <3>3 DEF PlannedProduct
      <4> QED BY <2>2, <3>1, <3>2, <3>3, <4>1 DEF RowInv
    <3>4. ASSUME NEW o \in ops, o.row = i, o.kind = "child", status'[o] = "todo", store[s] # None
          PROVE  o.child \notin store[s].kids
      <4>1. o.sku = s
        BY <1>2, <3>4 DEF PlannedProduct
      <4>2. o \in follow /\ (attached[s] # None => o.child \notin attached[s])
        BY <2>2, <3>4, <4>1
      <4>3. CASE attached[s] # None
        BY <3>2, <4>2, <4>3
      <4>4. CASE attached[s] = None
        <5>1. s \notin Products!Existing
          BY <1>8, <3>4, <4>1, <4>2, <4>4 DEF parents, Products!ReadsChildren
        <5> QED BY <1>1, <3>1, <3>4, <5>1 DEF RowInv
      <4> QED BY <4>3, <4>4
    <3>5. \A o \in ops : o.kind \in Products!Saves /\ status'[o] = "ok" => status[o] = "ok"
      BY <2>3
    <3> QED BY <1>1, <1>6, <2>1, <3>1, <3>3, <3>4, <3>5 DEF RowInv
  <2> QED BY <1>3, <2>5, <2>6, <2>9, <2>10 DEF ProductInv
<1> QED BY <1>7, <1>8

LEMMA ProductReturn == ProductInv /\ Products!Return => ProductInv'
<1> SUFFICES ASSUME ProductInv, Products!Return PROVE ProductInv'
  OBVIOUS
<1>1. /\ UNCHANGED <<input, store, held, foreign, snapshot, ops, status, late, attached>>
      /\ pc = "links" /\ Products!Todo(Products!FollowUps) = {} /\ pc' = "done"
  BY DEF Products!Return
<1>2. /\ ProductTypes /\ ProductSeen /\ ProductOps /\ ProductVerdicts /\ ProductQuiet
      /\ \A o \in ops : PlannedProduct(o)
  BY PlannedProducts DEF ProductInv
<1>3. ProductTypes' /\ ProductSeen' /\ ProductOps'
  BY <1>1, <1>2, ProductSeenKept, ProductOpsKept DEF ProductTypes, Reading
<1>4. \A o \in ops : status[o] # "todo"
  BY <1>1, <1>2 DEF ProductVerdicts, PlannedProduct, Products!Todo, Products!Saves, Products!FollowUps
<1>5. ProductVerdicts'
  BY <1>1, <1>2, <1>4 DEF ProductVerdicts
<1>6. UNCHANGED Products!Existing /\ \A i : Products!SkuOf(i)' = Products!SkuOf(i)
  BY <1>1, ProductNames DEF Products!Existing
<1>7. \A i : RowInv(i) => RowInv(i)'
  BY <1>1, <1>6 DEF RowInv
<1>8. ProductQuiet'
  BY <1>1, <1>2, <1>7, ProductNames DEF ProductQuiet, Reading
<1> QED BY <1>3, <1>5, <1>8 DEF ProductInv

LEMMA ProductStutter == ProductInv /\ UNCHANGED vars => ProductInv'
<1> SUFFICES ASSUME ProductInv, UNCHANGED vars PROVE ProductInv'
  OBVIOUS
<1>1. UNCHANGED <<input, store, held, foreign, pc, snapshot, ops, status, late, attached>>
  BY DEF vars, products
<1>2. ProductTypes /\ ProductSeen /\ ProductOps /\ ProductVerdicts /\ ProductQuiet
  BY DEF ProductInv
<1>3. ProductTypes' /\ ProductSeen' /\ ProductOps'
  BY <1>1, <1>2, ProductSeenKept, ProductOpsKept DEF ProductTypes
<1>4. ProductVerdicts'
  BY <1>1, <1>2 DEF ProductVerdicts
<1>5. UNCHANGED Products!Existing /\ \A i : Products!SkuOf(i)' = Products!SkuOf(i)
  BY <1>1, ProductNames DEF Products!Existing
<1>6. \A i : RowInv(i) => RowInv(i)'
  BY <1>1, <1>5 DEF RowInv
<1>7. ProductQuiet'
  BY <1>1, <1>2, <1>5, <1>6, ProductNames DEF ProductQuiet
<1> QED BY <1>3, <1>4, <1>7 DEF ProductInv

---------------------------------------------------------------------------

\* What ProductInv says of products.
LEMMA ProductTypeOK == ProductInv => Products!TypeOK
BY DEF ProductInv, ProductTypes, Products!TypeOK, Shops, Verdicts, Reading

LEMMA ProductSkips == ProductInv => Products!SkipJustified
<1> SUFFICES ASSUME ProductInv, input.behavior # "disable", NEW i \in DOMAIN Products!rows, Products!Unchanged(i)
             PROVE  /\ Products!rows[i].kids = {}
                    /\ \A f \in Products!Field : Products!rows[i].set[f] # None =>
                         <<Products!SkuOf(i), f, Products!rows[i].set[f]>> \in held
  BY DEF Products!SkipJustified
<1> DEFINE s == Products!SkuOf(i)
<1>1. s \in Sku /\ s \in Products!Existing /\ Products!Matches(Products!rows[i], snapshot[s])
  BY ProductRowFacts DEF Products!Unchanged, ProductInv, ProductTypes
<1>2. snapshot[s] # None
  BY <1>1, StillSeen
<1>3. \A f \in Products!Field : snapshot[s].set[f] # None => <<s, f, snapshot[s].set[f]>> \in held
  BY <1>1, <1>2 DEF ProductInv, ProductSeen
<1> QED BY <1>1, <1>3 DEF Products!Matches

LEMMA ProductSucceeds == ProductInv => Products!SucceededApplied
<1> SUFFICES ASSUME ProductInv, pc = "done", foreign = 0, input.behavior # "disable", NEW i \in DOMAIN Products!rows,
                    Products!Alone(i), Products!Outcome(i) = "succeeded"
             PROVE  LET s == Products!SkuOf(i)
                        row == Products!rows[i]
                    IN /\ store[s] # None /\ (row.named => store[s].type = row.type)
                       /\ \A f \in Products!Field : row.set[f] \in {None, store[s].set[f]}
                       /\ row.type = "configurable" => row.kids \subseteq store[s].kids
  BY DEF Products!SucceededApplied, Products!Quiet, Products!Exists
<1> DEFINE s == Products!SkuOf(i)
           row == Products!rows[i]
<1>1. /\ ~Products!Unchanged(i) /\ ~Products!Skips(i) /\ ~Products!PlanFails(i)
      /\ Products!OpsOf(s, {"failed"}) = {} /\ Products!OpsOf(s, {"pending"}) = {}
  BY DEF Products!Outcome
<1>2. \A o \in ops : o.sku = s => status[o] \notin {"failed", "pending"}
  BY <1>1 DEF Products!OpsOf
<1>3. ProductTypes /\ ProductOps /\ ProductVerdicts /\ RowInv(i) /\ pc \notin Reading
  BY DEF ProductInv, ProductQuiet, Reading
<1>4. /\ Products!Main(i) \in ops
      /\ row.type = "configurable" => \A c \in row.kids : Products!Link(i, c) \in ops
  BY <1>1, <1>3, PlanIsThere
<1>5. /\ store[s] # None /\ (row.named => store[s].type = row.type)
      /\ \A f \in Products!Field : row.set[f] \in {None, store[s].set[f]}
  <2>1. PICK main \in ops : main = Products!Main(i)
    BY <1>4
  <2>2. /\ main.row = i /\ main.sku = s /\ main.kind \in Products!Saves /\ main.set = row.set
        /\ row.named => main.type = row.type
    BY <2>1, MainFacts DEF Products!Saves
  <2>3. status[main] = "ok"
    BY <1>2, <1>3, <2>2 DEF ProductVerdicts
  <2>4. row.type # None
    BY ProductConstants, ProductRowFacts, <1>3 DEF ProductTypes
  <2> QED BY <1>3, <2>2, <2>3, <2>4 DEF RowInv
<1>6. ASSUME row.type = "configurable", NEW c \in row.kids PROVE c \in store[s].kids
  <2>1. PICK o \in ops : o = Products!Link(i, c)
    BY <1>4, <1>6
  <2>2. o.row = i /\ o.sku = s /\ o.kind = "child" /\ o.child = c
    BY <2>1, LinkFacts
  <2>3. status[o] \in {"ok", "attached"}
    <3>1. status[o] \in Verdicts /\ status[o] # "todo"
      BY <1>3 DEF ProductTypes, ProductVerdicts
    <3>2. status[o] # "withheld"
      BY <1>2, <1>3, <2>2 DEF ProductVerdicts
    <3> QED BY <1>2, <2>2, <3>1, <3>2 DEF Verdicts
  <2> QED BY <1>3, <2>2, <2>3 DEF RowInv
<1> QED BY <1>5, <1>6

\* A save changes no more than its behavior and its rows allow.
LEMMA ProductKeeps == ProductInv /\ Products!Next => Products!SaveKeepsPromises
<1> SUFFICES ASSUME ProductInv, Products!Next, foreign' = foreign, NEW s \in Sku, store'[s] # store[s]
             PROVE  /\ store[s] # None /\ s \in Products!Existing /\ store'[s].type # store[s].type
                         => \E i \in DOMAIN Products!rows : /\ Products!SkuOf(i) = s /\ Products!rows[i].named
                                                            /\ Products!rows[i].type = store'[s].type
                    /\ input.behavior \in {"update_only", "disable"} => store[s] # None
                    /\ input.behavior = "create_only" => s \notin Products!Existing
  BY DEF Products!SaveKeepsPromises, Products!Exists
<1>1. \E o \in ops : Products!Apply(o)
  <2>1. ~Products!Foreign
    BY DEF Products!Foreign, ProductInv, ProductTypes
  <2>2. store' # store
    OBVIOUS
  <2>3. Products!Send \/ Products!RunLate
    BY <2>1, <2>2 DEF Products!Next, Products!ReadIndex, Products!ReadValues, Products!ReadExtension,
      Products!BridgeFails, Products!ReadRest, Products!Plan, Products!ReadChildren, Products!Return
  <2>4. CASE Products!Send
    <3>1. PICK o \in ops, v \in {"ok", "failed", "pending"} : Settled(o, v)
      BY <2>4, ProductSendFacts
    <3> QED BY <2>2, <3>1 DEF Settled
  <2>5. CASE Products!RunLate
    BY <2>5 DEF Products!RunLate, ProductInv, ProductTypes
  <2> QED BY <2>3, <2>4, <2>5
<1>2. PICK o \in ops : Products!Apply(o)
  BY <1>1
<1>3. PICK new \in Shops : store' = new /\ Leaves(o, new)
  BY <1>2, ApplyFacts
<1>4. PlannedProduct(o)
  BY PlannedProducts DEF ProductInv
<1>5. o.sku = s
  BY <1>3 DEF Leaves
<1>6. ASSUME store[s] # None, s \in Products!Existing, new[s].type # store[s].type
      PROVE  \E i \in DOMAIN Products!rows : /\ Products!SkuOf(i) = s /\ Products!rows[i].named
                                             /\ Products!rows[i].type = new[s].type
  <2>1. o.kind \in Products!Saves /\ o.type # None /\ new[s].type = o.type
    BY <1>3, <1>4, <1>5, <1>6 DEF Leaves, PlannedProduct, Products!Saves, Products!FollowUps
  <2>2. Products!rows[o.row].named /\ o.type = Products!rows[o.row].type
    <3>1. o.type = IF Products!SkuOf(o.row) \in Products!Existing /\ ~Products!rows[o.row].named THEN None
                   ELSE Products!rows[o.row].type
      BY <1>4, <2>1 DEF PlannedProduct, Products!Saves
    <3>2. Products!SkuOf(o.row) \in Products!Existing
      BY <1>4, <1>5, <1>6 DEF PlannedProduct
    <3> QED BY <2>1, <3>1, <3>2
  <2> QED BY <1>4, <1>5, <2>1, <2>2 DEF PlannedProduct
<1>7. ASSUME input.behavior \in {"update_only", "disable"} PROVE store[s] # None
  <2>1. o.kind # "POST"
    BY <1>4, <1>7 DEF PlannedProduct, Products!Skips
  <2> QED BY <1>3, <1>5, <2>1 DEF Leaves
<1>8. ASSUME input.behavior = "create_only" PROVE s \notin Products!Existing
  BY <1>4, <1>5, <1>8 DEF PlannedProduct, Products!Skips
<1> QED BY <1>3, <1>6, <1>7, <1>8

\* A follow-up is sent to a parent that is there to take it, a link to one
\* that has not got it.
LEMMA ProductFollows == ProductInv /\ Products!Next => Products!FollowUpFits
<1> SUFFICES ASSUME ProductInv, Products!Next, pc = "links", foreign = 0, NEW o \in ops, status[o] = "todo",
                    Products!Alone(o.row)
             PROVE  /\ store[o.sku] # None /\ store[o.sku].type = "configurable"
                    /\ o.kind = "child" => o.child \notin store[o.sku].kids
  BY DEF Products!FollowUpFits, Products!Quiet, Products!Exists
<1> DEFINE i == o.row
<1>1. ProductTypes /\ ProductOps /\ ProductVerdicts /\ pc \notin Reading /\ PlannedProduct(o)
  BY PlannedProducts DEF ProductInv, Reading
<1>2. o.kind \notin Products!Saves
  BY <1>1 DEF ProductVerdicts
<1>3. /\ i \in DOMAIN Products!rows /\ o.sku = Products!SkuOf(i) /\ input.behavior # "disable"
      /\ Products!rows[i].type = "configurable"
      /\ ~Products!Unchanged(i) /\ ~Products!Skips(i) /\ ~Products!PlanFails(i)
  BY <1>1, <1>2 DEF PlannedProduct, Products!Saves
<1>4. PICK main \in ops : main = Products!Main(i)
  BY <1>1, <1>3, PlanIsThere
<1>5. main.row = i /\ main.sku = o.sku /\ main.kind \in Products!Saves /\ main.type = "configurable"
  BY <1>1, <1>3, <1>4, MainFacts, ProductRowFacts DEF Products!Saves, ProductTypes
<1>6. status[main] = "ok"
  BY <1>1, <1>5 DEF ProductVerdicts
<1>7. RowInv(i)
  BY <1>1, <1>3 DEF ProductInv, ProductQuiet
<1>8. None # "configurable"
  BY ProductConstants DEF Products!Type
<1> QED BY <1>3, <1>5, <1>6, <1>7, <1>8 DEF RowInv

\* Whatever the rows, the behavior, the answers and the other clients do,
\* ProductInv holds of an import of products.
THEOREM ProductInvariance == Spec => [](part = "products" => ProductInv)
<1> DEFINE IInv == part = "products" => ProductInv
<1>1. Init => IInv
  BY ProductInit DEF Init
<1>2. IInv /\ [Next]_vars => IInv'
  <2> SUFFICES ASSUME IInv, [Next]_vars, part' = "products" PROVE ProductInv'
    OBVIOUS
  <2>1. CASE ProductsStep
    BY <2>1, ProductIndex, ProductValues, ProductExtension, ProductFallsBack, ProductRest, ProductPlan, ProductSends,
      ProductChildren, ProductReturn, ProductLate, ProductForeign DEF ProductsStep, Products!Next
  <2>2. CASE PricesStep
    BY <2>2 DEF PricesStep
  <2>3. CASE UNCHANGED vars
    <3>1. part = "products"
      BY <2>3 DEF vars
    <3> QED BY <2>3, <3>1, ProductStutter
  <2> QED BY <2>1, <2>2, <2>3 DEF Next
<1> QED BY <1>1, <1>2, PTL DEF Spec

\* Both imports stay within their types.
THEOREM ProductsTypeCorrect == Spec => []TypeOK
<1>1. (part = "products" => ProductInv) /\ (part = "prices" => PriceInv) => TypeOK
  BY ProductTypeOK, PriceTypeOK DEF TypeOK
<1> QED BY <1>1, ProductInvariance, PriceInvariance, PTL

\* A product row that succeeded is in the store with its type, fields and
\* children, and a skipped one had its values there.
THEOREM ProductRowsAreThere == Spec => []ProductRowsHold
<1>1. (part = "products" => ProductInv) => ProductRowsHold
  BY ProductSucceeds, ProductSkips DEF ProductRowsHold
<1> QED BY <1>1, ProductInvariance, PTL

\* A save changes no more than its behavior and its rows allow, in either
\* import.
THEOREM SavesStayInBounds == Spec => SavesKeepPromises
<1>1. (part = "products" => ProductInv) /\ (part = "prices" => PriceInv) /\ [Next]_vars
        => [/\ (part = "products" => Products!SaveKeepsPromises)
            /\ (part = "prices" => Prices!OthersKept)]_vars
  <2> SUFFICES ASSUME part = "products" => ProductInv, part = "prices" => PriceInv, Next
               PROVE  /\ part = "products" => Products!SaveKeepsPromises
                      /\ part = "prices" => Prices!OthersKept
    OBVIOUS
  <2> QED BY ProductKeeps, PriceKeeps DEF Next, ProductsStep, PricesStep
<1> QED BY <1>1, ProductInvariance, PriceInvariance, PTL DEF Spec, SavesKeepPromises

\* A follow-up is sent only when its parent is there to take it, a link only
\* when it is not there yet.
THEOREM FollowUpsAlwaysFit == Spec => FollowUpsFit
<1>1. (part = "products" => ProductInv) /\ [Next]_vars => [part = "products" => Products!FollowUpFits]_vars
  <2> SUFFICES ASSUME part = "products", ProductInv, Next PROVE Products!FollowUpFits
    OBVIOUS
  <2> QED BY ProductFollows DEF Next, ProductsStep, PricesStep
<1> QED BY <1>1, ProductInvariance, PTL DEF Spec, FollowUpsFit

=============================================================================
