------------------------------ MODULE MCProducts ------------------------------
(***************************************************************************)
(* import_products and import_prices, checked in one run: products beside  *)
(* other clients in every behavior, configurables with their children, and *)
(* prices by rows of several stores.  The imports share no state: part     *)
(* says which one a behaviour is of, and the variables only the others     *)
(* have are Unused.                                                        *)
(***************************************************************************)
EXTENDS Naturals, Sequences, FiniteSets, TLC

CONSTANTS
  parent, child, s1, s2, None, Value, MaxForeign,
  Sku, ProductInputs, ProductStores,           \* ProductImport
  PricedSku, PriceInputs, PricedStores, Sites  \* PriceImport

---------------------------------------------------------------------------
(* Inputs *)

Fields(a, e, x) == [f \in {"attr", "ext", "parts"} |-> IF f = "attr" THEN a ELSE IF f = "ext" THEN e ELSE x]
Partial(s, a, e) == [sku |-> s, type |-> "simple", named |-> FALSE, set |-> Fields(a, e, None),
                     kids |-> {}, bad |-> FALSE]
Configurable(s, kids) == [Partial(s, 1, None) EXCEPT !.type = "configurable", !.named = TRUE, !.kids = kids]
Simple(s, a) == [Partial(s, a, None) EXCEPT !.named = TRUE]
Bad(s) == [Partial(s, 1, None) EXCEPT !.bad = TRUE]
WithParts(s) == [Partial(s, 1, None) EXCEPT !.set["parts"] = 1]

Stored(type, a, e, kids) ==
  [type |-> type, set |-> Fields(a, e, None), option |-> kids # {}, kids |-> kids]
Both(x, y) == (parent :> x) @@ (child :> y)

Imports(rowSeqs, behaviors, modes, bridges) ==
  [rows : rowSeqs, behavior : behaviors, diff : BOOLEAN, mode : modes, bridge : bridges]

\* One row, or two SKUs, in every behavior beside other clients.
ProductRows ==
  Imports({<<Partial(child, 1, 2)>>, <<Partial(child, None, 1)>>, <<Simple(child, 1)>>, <<Bad(child)>>, <<WithParts(child)>>,
           <<Simple(child, 2), Partial(parent, 1, None)>>},
          {"upsert", "create_only", "update_only", "disable"}, {"sync", "bulk"}, BOOLEAN)
ProductShops ==
  {Both(x, y) : x \in {None, Stored("configurable", 1, 2, {})},
                y \in {None, Stored("simple", 1, 2, {}), Stored("simple", 2, 1, {})}}

\* A configurable, its child and the other way round; two rows of one SKU.
LinkRows ==
  Imports({<<Configurable(parent, {child}), Simple(child, 1)>>, <<Simple(child, 2), Configurable(parent, {child})>>,
           <<Configurable(parent, {child})>>, <<Partial(child, 2, None), Partial(child, 1, None)>>,
           <<Configurable(child, {}), Partial(child, 2, None)>>}, {"upsert"}, {"sync", "bulk"}, {FALSE})
LinkShops ==
  {Both(x, y) : x \in {None, Stored("simple", 1, 1, {}), Stored("configurable", 1, 1, {}),
                       Stored("configurable", 1, 2, {child})},
                y \in {None, Stored("simple", 1, 1, {})}}
ProductImports == ProductRows \cup LinkRows
Catalogs == ProductShops \cup LinkShops

PriceRow(s, view) ==
  [sku |-> s, store |-> view, price |-> None, special |-> None, from |-> None, to |-> None, tiers |-> None]
Price(s, view, v) == [PriceRow(s, view) EXCEPT !.price = v]
Tiers(s, view, tiers) == [PriceRow(s, view) EXCEPT !.tiers = tiers]
Tier(site, rest) == [site |-> site, rest |-> rest]
SpecialFrom(s, v, from) == [PriceRow(s, 0) EXCEPT !.special = v, !.from = from]
SpecialTo(s, v, to) == [PriceRow(s, 0) EXCEPT !.special = v, !.to = to]

PriceImports == [diff : BOOLEAN, rows : {
  <<Price(s1, 0, 1), Price(s1, 1, 2), [Price(s1, 0, 2) EXCEPT !.tiers = {}]>>,
  <<Price(s1, 1, 1), Tiers(s1, 0, {Tier("all", 1)}), Tiers(s1, 1, {Tier("all", 1), Tier("base", 2)})>>,
  <<Price(s1, 0, 1), Tiers(s1, 0, {Tier("gone", 1)}), Price(s2, 0, 2), Tiers(s2, 0, {Tier("all", 2)})>>,
  <<SpecialFrom(s1, 1, 1), [SpecialTo(s1, 2, 2) EXCEPT !.price = 1]>>,
  <<SpecialFrom(s1, 1, 2), SpecialTo(s1, 1, 1)>>}]

NoPrices == [base |-> [k \in {s1, s2} \X {0, 1} |-> None], special |-> [k \in {s1, s2} \X {0, 1} |-> None],
             tiers |-> [s \in {s1, s2} |-> {}]]
Priced(tiers) == [NoPrices EXCEPT !.base[<<s1, 0>>] = 2, !.base[<<s1, 1>>] = 2, !.base[<<s2, 0>>] = 1,
                                  !.special[<<s1, 0>>] = [price |-> 2, from |-> 1, to |-> 2],
                                  !.tiers[s1] = tiers, !.tiers[s2] = {Tier(0, 1), Tier(2, 1)}]
PriceStores == {NoPrices, Priced({Tier(0, 1)}), Priced({Tier(0, 1), Tier(2, 2)}), Priced({Tier(1, 1)})}

Websites == [base |-> 2]

---------------------------------------------------------------------------

VARIABLES
  part,
  status, late, attached,      \* ProductImport
  merged, changed, verdict,    \* PriceImport
  input, store, held, foreign, pc, snapshot, ops

Products == INSTANCE ProductImport WITH Inputs <- ProductInputs, Stores <- ProductStores
Prices == INSTANCE PriceImport
            WITH Sku <- PricedSku, Inputs <- PriceInputs, Stores <- PricedStores

ASSUME ProductsAssumption ==
  Products!ProductAssumption /\ Prices!PriceAssumption

Unused == "unused"
ProductsIdle == status = Unused /\ late = Unused /\ attached = Unused
PricesIdle == merged = Unused /\ changed = Unused /\ verdict = Unused

Init ==
  \/ part = "products" /\ Products!Init /\ PricesIdle
  \/ part = "prices" /\ Prices!Init /\ ProductsIdle

products == <<status, late, attached>>
prices == <<merged, changed, verdict>>

ProductsStep == part = "products" /\ Products!Next /\ UNCHANGED <<part, prices>>
PricesStep == part = "prices" /\ Prices!Next /\ UNCHANGED <<part, products>>

Next == ProductsStep \/ PricesStep
vars == <<part, products, prices, input, store, held, foreign, pc, snapshot, ops>>
Spec == Init /\ [][Next]_vars

---------------------------------------------------------------------------

\* The type invariants of the parts.
TypeOK ==
  /\ part = "products" => Products!TypeOK
  /\ part = "prices" => Prices!TypeOK

\* A product row that succeeded is in the store with its type, fields and
\* children, and a skipped one had its values there, though other clients
\* write between the reads (import_products, _complete, the diff).
ProductRowsHold ==
  part = "products" => Products!SucceededApplied /\ Products!SkipJustified

\* What the last price row to set something says is in the store of a SKU
\* that did not fail, and a skipped row had it there (import_prices).
LastPriceHolds == part = "prices" => Prices!LastSetWins /\ Prices!SkipJustified

\* A save changes no more than its behavior and its rows allow: no type, no
\* product, no other store's price, no tiers that others added.
SavesKeepPromises ==
  [][/\ (part = "products" => Products!SaveKeepsPromises)
     /\ (part = "prices" => Prices!OthersKept)]_vars

\* A follow-up is sent only when its parent is there to take it, a link only
\* when it is not there yet.
FollowUpsFit == [][(part = "products" => Products!FollowUpFits)]_vars
=============================================================================
