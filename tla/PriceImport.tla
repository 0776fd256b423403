---------------------------- MODULE PriceImport ----------------------------
(***************************************************************************)
(* import_prices beside other clients: rows merge per SKU and store, three *)
(* reads make the snapshot, the rows that differ are planned, and each     *)
(* list endpoint takes one request.                                        *)
(*                                                                         *)
(* A price is an item of Value, a date a number, a tier its website and    *)
(* one item for the rest; a website code resolves to a website as the code *)
(* does it, once in the diff and once in the writer.  Requests are not cut *)
(* (ListChunks); which rows a rejected item names is SyncExecutor's.       *)
(***************************************************************************)
EXTENDS Integers, Sequences, FiniteSets

CONSTANTS
  Sku, None, Value,
  Inputs,     \* the imports: [rows, diff]; a row is [sku, store, price, special,
              \* from, to, tiers], each but the first two None when not set
  Stores,     \* the stores they meet: [base, special, tiers]
  Sites,      \* GET store/websites: code -> id
  MaxForeign  \* bound: changes by others

Scope == {0, 1}
Keys == Sku \X Scope
Date == Nat \cup {None}
Special == [price : Value, from : Date, to : Date]
Row == [sku : Sku, store : Scope, price : Value \cup {None}, special : Value \cup {None},
        from : Date, to : Date, tiers : (SUBSET [site : STRING, rest : Value]) \cup {None}]

\* Of the constants; an ASSUME of the module that instantiates this one.
PriceAssumption ==
  /\ None \notin Value /\ MaxForeign \in Nat /\ Sites \in [DOMAIN Sites -> Nat] /\ None \notin Nat
  /\ Inputs \subseteq [diff : BOOLEAN, rows : Seq(Row)]
  /\ Stores \subseteq [base : [Keys -> Value \cup {None}], special : [Keys -> Special \cup {None}],
                       tiers : [Sku -> SUBSET [site : Nat, rest : Value]]]

VARIABLES input, foreign, store,
  held,       \* history: [base, special, tiers] there were since the start
  pc,
  snapshot,   \* what the three reads answered
  merged,     \* the rows after the merge, by the first of theirs in the file
  changed,    \* those that differ
  ops,        \* <<merged row, list endpoint, item>>
  verdict

vars == <<input, foreign, store, held, pc, snapshot, merged, changed, ops, verdict>>
rows == input.rows

---------------------------------------------------------------------------
(* _merge_prices *)

KeyOf(row) == <<row.sku, row.store>>

OfKey(k) == {i \in DOMAIN rows : KeyOf(rows[i]) = k}
OfSku(sku) == {i \in DOMAIN rows : rows[i].sku = sku}
LastOf(S, field) ==
  LET set == {i \in S : rows[i][field] # None}
  IN IF set = {} THEN None ELSE rows[CHOOSE i \in set : \A j \in set : j <= i][field]

Firsts == {i \in DOMAIN rows : \A j \in 1 .. i - 1 : KeyOf(rows[j]) # KeyOf(rows[i])}
\* The tiers of a SKU ride on its first row.
RidesOn(i) == \A j \in 1 .. i - 1 : rows[j].sku # rows[i].sku

\* Mutant of Merged: the first row of a key wins.
MergedFirst == [i \in Firsts |-> rows[i]]

Merged ==
  [i \in Firsts |->
    LET Last(field) == LastOf(OfKey(KeyOf(rows[i])), field)
    IN [sku |-> rows[i].sku, store |-> rows[i].store, price |-> Last("price"), special |-> Last("special"),
        from |-> Last("from"), to |-> Last("to"),
        tiers |-> IF RidesOn(i) THEN LastOf(OfSku(rows[i].sku), "tiers") ELSE None]]

---------------------------------------------------------------------------
(* The snapshot and the diff *)

Init ==
  /\ input \in Inputs /\ store \in Stores /\ held = {store}
  /\ foreign = 0 /\ pc = "base"
  /\ snapshot = [base |-> [k \in Keys |-> None], special |-> [k \in Keys |-> None],
                 tiers |-> [s \in Sku |-> {}]]
  /\ merged = Merged /\ changed = {} /\ ops = {} /\ verdict = <<>>

Foreign ==
  /\ pc # "done" /\ foreign < MaxForeign
  /\ foreign' = foreign + 1
  /\ \E s \in Sku, v \in Value :
       \/ store' = [store EXCEPT !.base[<<s, 0>>] = v]
       \/ store' = [store EXCEPT !.special[<<s, 0>>] = [price |-> v, from |-> None, to |-> None]]
       \/ store' = [store EXCEPT !.tiers[s] = {[site |-> 0, rest |-> v]}]
  /\ held' = held \cup {store'}
  /\ UNCHANGED <<input, pc, snapshot, merged, changed, ops, verdict>>

After == [base |-> "special", special |-> "tiers", tiers |-> "plan"]

Read ==
  /\ pc \in DOMAIN After
  /\ snapshot' = [snapshot EXCEPT ![pc] = store[pc]]
  /\ pc' = After[pc]
  /\ UNCHANGED <<input, foreign, store, held, merged, changed, ops, verdict>>

Known(sku) ==
  \/ snapshot.tiers[sku] # {}
  \/ \E k \in Keys : k[1] = sku /\ (snapshot.base[k] # None \/ snapshot.special[k] # None)

\* price_matches_snapshot looks a code up in the websites first, the writer
\* takes "all" for 0 first.
DiffSite(code) == IF code \in DOMAIN Sites THEN Sites[code] ELSE IF code = "all" THEN 0 ELSE None
SiteOf(code) == IF code = "all" THEN 0 ELSE IF code \in DOMAIN Sites THEN Sites[code] ELSE None

SpecialOf(row) == [price |-> row.special, from |-> row.from, to |-> row.to]
DiffTiers(tiers) == {[site |-> DiffSite(t.site), rest |-> t.rest] : t \in tiers}
SiteTiers(tiers) == {[site |-> SiteOf(t.site), rest |-> t.rest] : t \in tiers}

Matches(row) ==
  /\ row.price # None => row.price = snapshot.base[KeyOf(row)]
  /\ row.special # None => SpecialOf(row) = snapshot.special[KeyOf(row)]
  /\ row.tiers # None => DiffTiers(row.tiers) = snapshot.tiers[row.sku]

Differs(row) == ~input.diff \/ ~Known(row.sku) \/ ~Matches(row)

---------------------------------------------------------------------------
(* plan_prices *)

Refused(row) == row.tiers # None /\ \E t \in row.tiers : SiteOf(t.site) = None

\* Nothing of a row with an unknown website is sent.
RowOps(k) ==
  LET row == merged[k]
      Ops(list, items) == {<<k, list, item>> : item \in items}
  IN IF Refused(row) THEN {}
     ELSE Ops("base", {row.price} \ {None})
          \cup (IF row.special = None THEN {} ELSE Ops("special", {SpecialOf(row)}))
          \cup (IF row.tiers = None THEN {}
                ELSE IF row.tiers = {} THEN Ops("tier-delete", snapshot.tiers[row.sku])
                ELSE Ops("tiers", SiteTiers(row.tiers)))

Plan ==
  /\ pc = "plan"
  /\ changed' = {k \in DOMAIN merged : Differs(merged[k])}
  /\ ops' = UNION {RowOps(k) : k \in changed'}
  /\ verdict' = [o \in ops' |-> "todo"]
  /\ pc' = "send"
  /\ UNCHANGED <<input, foreign, store, held, snapshot, merged>>

---------------------------------------------------------------------------
(* The requests *)

SkuOf(o) == merged[o[1]].sku
PlaceOf(o) == KeyOf(merged[o[1]])
ItemAt(A, k) == (CHOOSE o \in A : PlaceOf(o) = k)[3]
ItemsOf(A, s) == {o[3] : o \in {p \in A : SkuOf(p) = s}}

\* A date that is left out is kept or cleared.
SavedSpecials(k, item) ==
  LET old == store.special[k]
      Dates(new, kept) == IF new # None THEN {new} ELSE {None} \cup kept
  IN [price : {item.price}, from : Dates(item.from, IF old = None THEN {} ELSE {old.from}),
      to : Dates(item.to, IF old = None THEN {} ELSE {old.to})]

\* The items A of a request to the list are saved: PUT replaces the tiers of the
\* SKUs it names.
Saved(list, A) ==
  LET places == {PlaceOf(o) : o \in A}
      skus == {SkuOf(o) : o \in A}
      Specials(k) == IF k \in places THEN SavedSpecials(k, ItemAt(A, k)) ELSE {store.special[k]}
  IN CASE list = "base" ->
            {[store EXCEPT !.base = [k \in Keys |-> IF k \in places THEN ItemAt(A, k) ELSE store.base[k]]]}
       [] list = "special" ->
            {[store EXCEPT !.special = new] : new \in
               {f \in [Keys -> UNION {Specials(k) : k \in Keys}] : \A k \in Keys : f[k] \in Specials(k)}}
       [] list = "tiers" ->
            {[store EXCEPT !.tiers = [s \in Sku |-> IF s \in skus THEN ItemsOf(A, s) ELSE store.tiers[s]]]}
       [] list = "tier-delete" ->
            {[store EXCEPT !.tiers = [s \in Sku |-> store.tiers[s] \ ItemsOf(A, s)]]}

Todo == {o \in ops : verdict[o] = "todo"}
\* In the order of the plan: by rows, and of a row base, special, tiers.
Before(o, p) ==
  o[1] < p[1] \/ (o[1] = p[1] /\ (o[2] = p[2] \/ o[2] = "base" \/ (o[2] = "special" /\ p[2] # "base")))

\* Some items are saved and the rest rejected, or the request ends in an error
\* before or after it was saved.
Send ==
  /\ pc = "send"
  /\ \E first \in Todo :
       LET request == {o \in Todo : o[2] = first[2]}
       IN /\ \A o \in Todo : Before(first, o)
          /\ \E A \in SUBSET request, told \in BOOLEAN :
               /\ store' \in Saved(first[2], A)
               /\ verdict' = [o \in ops |-> IF o \notin request THEN verdict[o]
                                            ELSE IF told /\ o \in A THEN "ok" ELSE "failed"]
  /\ held' = held \cup {store'}
  /\ UNCHANGED <<input, foreign, pc, snapshot, merged, changed, ops>>

Return ==
  /\ pc = "send" /\ Todo = {} /\ pc' = "done"
  /\ UNCHANGED <<input, foreign, store, held, snapshot, merged, changed, ops, verdict>>

Next == Read \/ Plan \/ Send \/ Return \/ Foreign
Spec == Init /\ [][Next]_vars

---------------------------------------------------------------------------

Failed == {SkuOf(o) : o \in {p \in ops : verdict[p] = "failed"}}
            \cup {merged[k].sku : k \in {j \in changed : Refused(merged[j])}}

TypeOK ==
  /\ pc \in DOMAIN After \cup {"plan", "send", "done"}
  /\ \A k \in Keys : store.base[k] \in Value \cup {None} /\ snapshot.base[k] \in Value \cup {None}
  /\ \A s \in Sku : \A t \in store.tiers[s] : t.site \in Nat
  /\ changed \subseteq DOMAIN merged
  /\ \A j, k \in DOMAIN merged : KeyOf(merged[j]) = KeyOf(merged[k]) => j = k

\* For a SKU that did not fail, what the last row to set it says is in the
\* store: base price, special price and its dates per store, the whole set of
\* tiers of the SKU, whether it was sent or skipped.  The tiers in a store with
\* a website of the code all are left out: SameSite does not hold of them.
LastSetWins ==
  pc = "done" /\ foreign = 0 =>
    \A s \in Sku \ Failed :
      /\ \A k \in {s} \X Scope :
           LET Last(field) == LastOf(OfKey(k), field)
           IN /\ Last("price") \in {None, store.base[k]}
              /\ Last("special") # None =>
                   /\ store.special[k].price = Last("special")
                   /\ Last("from") \in {None, store.special[k].from}
                   /\ Last("to") \in {None, store.special[k].to}
      /\ LET tiers == LastOf(OfSku(s), "tiers")
         IN tiers # None /\ "all" \notin DOMAIN Sites => store.tiers[s] = SiteTiers(tiers)

\* A skipped row had every part it sets at some moment of the import, each
\* part at its own.
SkipJustified ==
  pc \in {"send", "done"} => \A k \in DOMAIN merged \ changed :
    /\ merged[k].price # None => \E h \in held : h.base[KeyOf(merged[k])] = merged[k].price
    /\ merged[k].tiers # None =>
         \E h \in held : h.tiers[merged[k].sku] = DiffTiers(merged[k].tiers)

\* The import leaves alone what no row sets: the other stores of a SKU, its
\* tiers when they are None, tiers that others added while it deletes.
OthersKept ==
  foreign' = foreign =>
    /\ \A k \in Keys : store'.base[k] # store.base[k] =>
         \E i \in DOMAIN rows : KeyOf(rows[i]) = k /\ rows[i].price # None
    /\ \A s \in Sku : store'.tiers[s] # store.tiers[s] =>
         /\ \E i \in DOMAIN rows : rows[i].sku = s /\ rows[i].tiers # None
         /\ LastOf(OfSku(s), "tiers") = {}
              => store.tiers[s] \ store'.tiers[s] \subseteq snapshot.tiers[s]

\* models.py:173-174: Magento stores an inverted range, so the library is the
\* only gate.
NoInvertedRange ==
  \A o \in ops : o[2] = "special" => o[3].from = None \/ o[3].to = None \/ o[3].from <= o[3].to

\* diff.py:471-472: a tier website code resolves as in the pricing writer.
SameSite ==
  pc \in {"send", "done"} => \A k \in DOMAIN merged \ changed :
    merged[k].tiers # None =>
      SiteTiers(merged[k].tiers) = snapshot.tiers[merged[k].sku]
===========================================================================
