--------------------------- MODULE BridgeSnapshot ---------------------------
(***************************************************************************)
(* The products an import compares its rows with: from the optional bridge *)
(* module (index, attribute values, the rest by REST), or from REST alone, *)
(* in the modes auto, never and require, and with delete_missing the       *)
(* listing at the end.  Every request may fail, other clients change       *)
(* products between them.                                                  *)
(*                                                                         *)
(* A product is a type (the index answers it), a name (an attribute, with  *)
(* a value of its own or not in the store view) and its links (REST only). *)
(* How the index and the listing are walked is DeleteMissing's.            *)
(***************************************************************************)
EXTENDS Naturals, Sequences, FiniteSets

CONSTANTS
  Sku, Comma,    \* all SKUs; those with a comma
  Value, None,
  Wanted,        \* the SKUs of the rows, in order
  Stores,        \* the catalogs the import meets: [Sku -> product or None]
  ChunkSize,     \* _URL_FILTER_CHUNK_SIZE
  MaxSkus,       \* MAX_SKUS_PER_CALL
  MaxForeign     \* bound: changes by others

Product == [type : Value, name : Value \X (Value \cup {None}), links : Value]
Capabilities == {"index", "values"}

\* Of the constants; an ASSUME of the module that instantiates this one.  The
\* SKUs of the rows are without repetitions (dict.fromkeys).
SnapshotAssumption ==
  /\ Comma \subseteq Sku /\ Wanted \in Seq(Sku)
  /\ \A i, j \in DOMAIN Wanted : Wanted[i] = Wanted[j] => i = j
  /\ Stores \subseteq [Sku -> Product \cup {None}]
  /\ None \notin Value /\ None \notin Product
  /\ \A S \in (SUBSET Sku) \cup (SUBSET Capabilities) : S # None
  /\ ChunkSize \in Nat \ {0} /\ MaxSkus \in Nat \ {0} /\ MaxForeign \in Nat

VARIABLES
  mode, offered,  \* input: use_bridge; the capabilities of the store
  view,           \* input: a store view and not the whole catalog
  deletes,        \* input: the import lists the catalog at its end
  store, foreign,
  held,           \* history: what each SKU has been
  pc,
  probed,         \* the capabilities the probe found, or None
  index,          \* the cached index, or None
  todo,           \* the places in Wanted still to be read
  snap,
  listed,         \* the listing: the SKUs, or None
  cause           \* history: how requests failed so far

inputs == <<mode, offered, view, deletes>>
vars == <<inputs, store, foreign, held, pc, probed, index, todo, snap, listed, cause>>

Ended == {"done", "aborted", "refused"}

---------------------------------------------------------------------------
(* Pure parts *)

SkusAt(places) == {Wanted[i] : i \in places}
UpTo(places, i) == {j \in places : j <= i}

\* Mutant of FilterChunk: a SKU with a comma is one like the others.
FilterChunkPlain(places) == {i \in places : Cardinality(UpTo(places, i)) <= ChunkSize}

\* The next chunk of places: the first SKU alone (with eq) when it has a comma,
\* else those before the next one that has, up to a full chunk.
FilterChunk(places) ==
  {i \in places :
     IF Wanted[i] \in Comma THEN UpTo(places, i) = {i}
     ELSE /\ Cardinality(UpTo(places, i)) <= ChunkSize
          /\ \A j \in UpTo(places, i) : Wanted[j] \notin Comma}

\* An "in" filter takes a comma for its separator.
Found(chunk) ==
  {s \in SkusAt(chunk) : store[s] # None /\ (s \in Comma => SkusAt(chunk) = {s})}

ValuesChunk(places) == {i \in places : Cardinality(UpTo(places, i)) <= MaxSkus}

\* Magento: the value of the store view when it has one.
NameOf(p) == IF view /\ p.name[2] # None THEN p.name[2] ELSE p.name[1]
RestEntry(p) == [type |-> p.type, name |-> NameOf(p), links |-> p.links]

---------------------------------------------------------------------------

AfterSnapshot == IF deletes THEN "list" ELSE "done"

\* The native snapshot starts from nothing; of no SKUs it asks nothing.
NativePc == IF Wanted = <<>> THEN AfterSnapshot ELSE "rest"
Native == pc' = NativePc /\ todo' = DOMAIN Wanted /\ snap' = <<>>

Init ==
  /\ mode \in {"auto", "never", "require"} /\ offered \in SUBSET Capabilities
  /\ view \in BOOLEAN /\ deletes \in BOOLEAN /\ store \in Stores
  /\ held = [s \in Sku |-> {store[s]}] /\ foreign = 0
  /\ pc = IF mode = "never" THEN NativePc ELSE "probe"
  /\ probed = None /\ index = None /\ snap = <<>> /\ listed = None /\ cause = {}
  /\ todo = IF mode = "never" THEN DOMAIN Wanted ELSE {}

Foreign ==
  /\ pc \notin Ended /\ foreign < MaxForeign /\ foreign' = foreign + 1
  /\ \E s \in Sku, p \in Product \cup {None} : store' = [store EXCEPT ![s] = p]
  /\ held' = [s \in Sku |-> held[s] \cup {store'[s]}]
  /\ UNCHANGED <<inputs, pc, probed, index, todo, snap, listed, cause>>

Aborts(how) == how \in {"auth", "lost"}

\* Mutant of Required: the flag is not passed on.
RequiredNot == FALSE

Required == mode = "require"

\* Any error but one of authentication means that there is no module.
Probe ==
  /\ pc = "probe"
  /\ \E answer \in {"capabilities", "auth", "error"} :
       /\ cause' = IF answer = "capabilities" THEN cause ELSE cause \cup {answer}
       /\ IF Aborts(answer) THEN pc' = "aborted" /\ UNCHANGED <<probed, todo, snap>>
          ELSE /\ probed' = IF answer = "capabilities" THEN offered ELSE {}
               /\ IF Required /\ probed' # Capabilities THEN pc' = "refused" /\ UNCHANGED <<todo, snap>>
                  ELSE IF "index" \in probed' THEN pc' = "index" /\ UNCHANGED <<todo, snap>>
                  ELSE Native
  /\ UNCHANGED <<inputs, store, foreign, held, index, listed>>

---------------------------------------------------------------------------
(* _products_from_bridge *)

Index ==
  /\ pc = "index"
  /\ index' = {s \in Sku : store[s] # None}
  /\ snap' = [s \in SkusAt(DOMAIN Wanted) \cap index' |->
                [type |-> store[s].type, name |-> None, links |-> None]]
  /\ todo' = {i \in DOMAIN Wanted : Wanted[i] \in index'}
  /\ pc' = IF todo' = {} THEN AfterSnapshot ELSE IF "values" \in probed THEN "values" ELSE "extra"
  /\ UNCHANGED <<inputs, store, foreign, held, probed, listed, cause>>

Values ==
  /\ pc = "values"
  /\ LET chunk == ValuesChunk(todo)
     IN /\ snap' = [s \in DOMAIN snap |->
                      IF s \in SkusAt(chunk) /\ store[s] # None
                      THEN [snap[s] EXCEPT !.name = NameOf(store[s])] ELSE snap[s]]
        /\ IF chunk # todo THEN todo' = todo \ chunk /\ UNCHANGED pc
           ELSE pc' = "extra" /\ todo' = {i \in DOMAIN Wanted : Wanted[i] \in DOMAIN snap}
  /\ UNCHANGED <<inputs, store, foreign, held, probed, index, listed, cause>>

\* The chunk is read; after the last one the snapshot is done.
ChunkRead(chunk) ==
  /\ todo' = todo \ chunk
  /\ pc' = IF todo' = {} THEN AfterSnapshot ELSE pc

\* Mutant of Extra: the chunk after the last is read.
ExtraPast ==
  /\ pc = "extra" /\ todo' = todo \ FilterChunk(todo)
  /\ pc' = IF todo = {} THEN AfterSnapshot ELSE pc
  /\ UNCHANGED <<inputs, store, foreign, held, probed, index, snap, listed, cause>>

WithExtra(s) ==
  [type |-> snap[s].type, links |-> store[s].links,
   name |-> IF "values" \in probed THEN snap[s].name ELSE NameOf(store[s])]

\* REST answers the links, and the name for an older module.
Extra ==
  /\ pc = "extra"
  /\ LET chunk == FilterChunk(todo)
     IN /\ snap' = [s \in DOMAIN snap |-> IF s \in Found(chunk) THEN WithExtra(s) ELSE snap[s]]
        /\ ChunkRead(chunk)
  /\ UNCHANGED <<inputs, store, foreign, held, probed, index, listed, cause>>

\* An HTTP error or an answer of another shape is caught, a lost connection, a
\* timeout and an authentication error are not.
BridgeFails ==
  /\ pc \in {"index", "values", "extra"}
  /\ \E how \in {"http", "lost", "auth"} :
       /\ cause' = cause \cup {how}
       /\ IF Aborts(how) THEN pc' = "aborted" /\ UNCHANGED <<todo, snap>>
          ELSE IF Required THEN pc' = "refused" /\ UNCHANGED <<todo, snap>>
          ELSE Native
  /\ UNCHANGED <<inputs, store, foreign, held, probed, index, listed>>

---------------------------------------------------------------------------
(* _products_from_rest *)

Rest ==
  /\ pc = "rest"
  /\ LET chunk == FilterChunk(todo)
         there == Found(chunk)
     IN /\ snap' = [s \in DOMAIN snap \cup there |->
                      IF s \in there THEN RestEntry(store[s]) ELSE snap[s]]
        /\ ChunkRead(chunk)
  /\ UNCHANGED <<inputs, store, foreign, held, probed, index, listed, cause>>

RestFails ==
  /\ pc \in {"rest", "list-rest"} /\ pc' = "aborted"
  /\ \E how \in {"rest-http", "rest-lost", "rest-auth"} : cause' = cause \cup {how}
  /\ UNCHANGED <<inputs, store, foreign, held, probed, index, todo, snap, listed>>

---------------------------------------------------------------------------
(* delete_candidates without a scope *)

OffersIndex == probed # None /\ "index" \in probed

\* The cached index, or it is read again when the snapshot could not.
ListBridge ==
  /\ pc = "list" /\ OffersIndex
  /\ index' = IF index # None THEN index ELSE {s \in Sku : store[s] # None}
  /\ listed' = index' /\ pc' = "done"
  /\ UNCHANGED <<inputs, store, foreign, held, probed, todo, snap, cause>>

\* Every exception is caught here.
ListFails ==
  /\ pc = "list" /\ OffersIndex /\ index = None
  /\ \E how \in {"http", "lost", "list-auth"} : cause' = cause \cup {how}
  /\ pc' = IF Required THEN "refused" ELSE "list-rest"
  /\ UNCHANGED <<inputs, store, foreign, held, probed, index, todo, snap, listed>>

ListRest ==
  /\ pc = "list-rest" \/ (pc = "list" /\ ~OffersIndex)
  /\ listed' = {s \in Sku : store[s] # None} /\ pc' = "done"
  /\ UNCHANGED <<inputs, store, foreign, held, probed, index, todo, snap, cause>>

Next == Probe \/ Index \/ Values \/ Extra \/ BridgeFails \/ Rest \/ RestFails
          \/ ListBridge \/ ListFails \/ ListRest \/ Foreign
Spec == Init /\ [][Next]_vars

---------------------------------------------------------------------------

TypeOK ==
  /\ pc \in {"probe", "index", "values", "extra", "rest", "list", "list-rest"} \cup Ended
  /\ pc \in {"values", "extra", "rest"} => todo # {}
  /\ DOMAIN snap \subseteq SkusAt(DOMAIN Wanted)

HasSnapshot == pc \in {"list", "list-rest", "done"}

\* Whatever the mode, the capabilities, the store view and the requests that
\* failed on the way, without changes by others the snapshot is what REST alone
\* answers: each SKU asked for once, commas or not.
SnapshotAgrees ==
  HasSnapshot /\ foreign = 0 =>
    snap = [s \in {w \in SkusAt(DOMAIN Wanted) : store[w] # None} |-> RestEntry(store[s])]

\* With changes between the requests each value was there at some moment, a SKU
\* that is missing was missing, and a value that was not answered belongs to a
\* product that was deleted meanwhile.
EachValueHeld ==
  HasSnapshot => \A s \in SkusAt(DOMAIN Wanted) :
    IF s \notin DOMAIN snap THEN None \in held[s]
    ELSE /\ \E p \in held[s] \ {None} : snap[s].type = p.type
         /\ IF snap[s].name = None THEN None \in held[s]
            ELSE \E p \in held[s] \ {None} : snap[s].name = NameOf(p)
         /\ IF snap[s].links = None THEN None \in held[s]
            ELSE \E p \in held[s] \ {None} : snap[s].links = p.links

\* require gets the bridge's answer or an error, also when the first request to
\* fail comes after others that answered.
RequireIsBridge ==
  mode = "require" => /\ pc \notin {"rest", "list-rest"}
                      /\ HasSnapshot => index # None /\ probed = Capabilities

\* An authentication error ends the run wherever the snapshot meets it.
AuthAborts == "auth" \in cause => pc = "aborted"

\* diff.py:144: a bridge failure falls back to REST with a warning.
AutoDegrades ==
  mode = "auto" /\ pc = "aborted" => cause \cap {"auth", "rest-http", "rest-lost", "rest-auth"} # {}

\* catalog.py:60-61: the listing has the contract of snapshot_products.
ListingAuthAborts == "list-auth" \in cause => pc \in {"aborted", "refused"}
=============================================================================
