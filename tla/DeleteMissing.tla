--------------------------- MODULE DeleteMissing ---------------------------
(***************************************************************************)
(* import_products(delete_missing=...): the listing of the catalog, the    *)
(* products the rows do not name, and their deletion, while other clients  *)
(* create and delete products.  The import itself is one step here.        *)
(*                                                                         *)
(* A listing is a walk: REST pages by number, or the index of the bridge   *)
(* from the last id on.  The bridge's index is read for the snapshot and   *)
(* kept.  The arguments are valid: others raise before anything is read.   *)
(***************************************************************************)
EXTENDS Integers, FiniteSets, FiniteSetsExt

CONSTANTS
  N,           \* SKUs 1..N, in the order sorted() puts them
  Parents,     \* configurable, bundle and grouped ones
  InScope,     \* those delete_scope selects
  PageSize,
  MaxForeign   \* bound: creations and deletions by others

Sku == 1..N

ASSUME ConstantsAssumption ==
  /\ N \in Nat /\ PageSize \in Nat \ {0} /\ MaxForeign \in Nat
  /\ Parents \subseteq Sku /\ InScope \subseteq Sku

VARIABLES
  mode, scope, offered, require, strict,  \* inputs; strict: fail_on_error_ratio=0
  source,      \* input: what became of the line of each SKU in the file
  ids,         \* Magento: entity id of a SKU, 0 when there is none
  nextId, foreign, quiet,  \* quiet: no foreign change since the import
  pc,
  index,       \* the cached index: the SKUs, or {0} for none
  walk,        \* the listing being read, or the last one
  rowsFailed,
  candidates,  \* sorted() in the code: deleted in the order of Sku
  deleted, failed

inputs == <<mode, scope, offered, require, strict, source>>
store == <<ids, nextId, foreign, quiet>>
outcome == <<rowsFailed, candidates, deleted, failed>>
vars == <<inputs, store, pc, index, walk, outcome>>

NoIndex == {0}
Present == {s \in Sku : ids[s] > 0}

\* since and shrunk are history: products there all along, a product deleted.
NewWalk(by) == [by |-> by, at |-> 0, got |-> {}, ended |-> FALSE,
                since |-> Present, shrunk |-> FALSE]

Init ==
  /\ mode \in {"preview", "execute"} /\ scope \in BOOLEAN /\ strict \in BOOLEAN
  /\ offered \in BOOLEAN /\ require \in BOOLEAN /\ (require => offered)
  /\ source \in [Sku -> {"valid", "invalid", "unmapped", "absent"}]
  /\ \E there \in SUBSET Sku : ids = [s \in Sku |-> IF s \in there THEN s ELSE 0]
  /\ nextId = N + 1 /\ foreign = 0 /\ quiet = TRUE
  /\ pc = IF offered THEN "snapshot" ELSE "import"
  /\ index = NoIndex
  /\ walk = NewWalk("index")
  /\ rowsFailed = 0 /\ candidates = {} /\ deleted = {} /\ failed = {}

Ended == {"done", "ratio", "bridge"}

---------------------------------------------------------------------------
(* Other clients *)

Foreign ==
  /\ pc \notin Ended /\ foreign < MaxForeign
  /\ foreign' = foreign + 1
  /\ quiet' = FALSE
  /\ \E s \in Sku :
       IF s \in Present
       THEN /\ ids' = [ids EXCEPT ![s] = 0] /\ UNCHANGED nextId
            /\ walk' = [walk EXCEPT !.since = @ \ {s}, !.shrunk = TRUE]
       ELSE /\ ids' = [ids EXCEPT ![s] = nextId] /\ nextId' = nextId + 1
            /\ UNCHANGED walk
  /\ UNCHANGED <<inputs, pc, index, outcome>>

---------------------------------------------------------------------------
(* get_paginated and product_index *)

\* The position of s among S, by entity id.
Place(S, s) == Cardinality({t \in S : ids[t] <= ids[s]})

Rest == IF walk.by = "pages" THEN Present ELSE {s \in Present : ids[s] > walk.at}
Read == IF walk.by = "pages" THEN walk.at * PageSize ELSE 0

\* The page Magento answers to current_page, or to after.
Page == {s \in Rest : Place(Rest, s) \in Read + 1 .. Read + PageSize}

\* Mutants of WalkOn: the first page is all; the page does not advance.
WalkOnOnce ==
  walk' = [walk EXCEPT !.got = @ \cup Page, !.ended = TRUE]
WalkOnSamePage ==
  walk' = [walk EXCEPT !.got = @ \cup Page, !.ended = Cardinality(Page) < PageSize]

\* A short page is the last; the index answers the id to go on from.
WalkOn ==
  LET ended == Cardinality(Page) < PageSize
  IN walk' = [walk EXCEPT
       !.got = @ \cup Page,
       !.ended = ended,
       !.at = IF ended THEN @ ELSE IF walk.by = "pages" THEN @ + 1 ELSE Max({ids[s] : s \in Page})]

\* index_by_sku for the snapshot of the import; on an error the snapshot is
\* taken over REST, in require mode the run ends.
SnapshotIndex ==
  /\ pc = "snapshot"
  /\ \/ /\ ~walk.ended /\ WalkOn /\ UNCHANGED <<pc, index>>
     \/ /\ walk.ended /\ index' = walk.got /\ pc' = "import" /\ UNCHANGED walk
     \/ /\ ~walk.ended /\ pc' = (IF require THEN "bridge" ELSE "import") /\ UNCHANGED <<walk, index>>
  /\ UNCHANGED <<inputs, store, outcome>>

---------------------------------------------------------------------------
(* import_products *)

Named(what) == {s \in Sku : source[s] = what}

\* Valid rows are saved or fail; unmapped lines never reach the importer.
Import ==
  /\ pc = "import"
  /\ \E saved \in SUBSET Named("valid") :
       LET new == saved \ Present
       IN /\ ids' = [s \in Sku |-> IF s \in new THEN nextId + Cardinality({t \in new : t < s})
                                   ELSE ids[s]]
          /\ nextId' = nextId + Cardinality(new)
          /\ rowsFailed' = Cardinality(Named("valid") \ saved) + Cardinality(Named("invalid"))
  /\ quiet' = TRUE
  /\ pc' = "check"
  /\ UNCHANGED <<inputs, foreign, index, walk, candidates, deleted, failed>>

\* _complete applies the ratio, then delete_candidates chooses the listing.
CheckRatio ==
  /\ pc = "check"
  /\ pc' = IF strict /\ rowsFailed > 0 THEN "ratio"
           ELSE IF offered /\ ~scope /\ index # NoIndex THEN "candidates" ELSE "list"
  /\ walk' = IF pc' = "list" THEN NewWalk(IF offered /\ ~scope THEN "index" ELSE "pages") ELSE walk
  /\ UNCHANGED <<inputs, store, index, outcome>>

List ==
  /\ pc = "list"
  /\ ~walk.ended
  /\ WalkOn
  /\ pc' = IF walk'.ended THEN "candidates" ELSE pc
  /\ UNCHANGED <<inputs, store, index, outcome>>

\* The bridge's index failed.
ListFails ==
  /\ pc = "list" /\ ~walk.ended /\ walk.by = "index"
  /\ IF require THEN pc' = "bridge" /\ UNCHANGED walk
     ELSE walk' = NewWalk("pages") /\ UNCHANGED pc
  /\ UNCHANGED <<inputs, store, index, outcome>>

Listing == IF offered /\ ~scope /\ index # NoIndex THEN index ELSE walk.got

\* Mutant of MissingSkus: invalid rows are not subtracted.
MissingNoInvalid == {s \in Listing : (scope => s \in InScope) /\ source[s] # "valid"}

\* candidates_for_delete and missing_skus
MissingSkus ==
  {s \in Listing : (scope => s \in InScope) /\ source[s] \notin {"valid", "invalid"}}

Candidates ==
  /\ pc = "candidates"
  /\ candidates' = MissingSkus
  /\ pc' = IF mode = "execute" THEN "delete" ELSE "done"
  /\ UNCHANGED <<inputs, store, index, walk, rowsFailed, deleted, failed>>

---------------------------------------------------------------------------
(* guard_execute *)

Sent == deleted \cup failed
NextSku == Min(candidates \ Sent)

\* A delete that raises, for whatever reason, is counted: refused, not there,
\* or deleted behind a gateway error, which the retry finds gone (404).
DeleteOne ==
  /\ pc = "delete" /\ Sent # candidates
  /\ \/ /\ NextSku \in Present
        /\ ids' = [ids EXCEPT ![NextSku] = 0]
        /\ \/ deleted' = deleted \cup {NextSku} /\ UNCHANGED failed
           \/ failed' = failed \cup {NextSku} /\ UNCHANGED deleted
     \/ failed' = failed \cup {NextSku} /\ UNCHANGED <<ids, deleted>>
  /\ UNCHANGED <<inputs, nextId, foreign, quiet, pc, index, walk, rowsFailed, candidates>>

\* The result counts the deletes that failed with the rows.
ResultFailed == rowsFailed + Cardinality(failed)

Return ==
  /\ pc = "delete" /\ Sent = candidates
  /\ pc' = "done"
  /\ UNCHANGED <<inputs, store, index, walk, outcome>>

Step == SnapshotIndex \/ Import \/ CheckRatio \/ List \/ ListFails \/ Candidates \/ DeleteOne \/ Return

Next == Step \/ Foreign

\* The program goes on; others may do nothing.
Spec == Init /\ [][Next]_vars /\ WF_vars(Step)

---------------------------------------------------------------------------

\* A product with a row, valid or not, is never deleted however stale the
\* listing is, nor is one outside the scope.
SourceKept ==
  \A s \in candidates \cup Sent :
    source[s] \notin {"valid", "invalid"} /\ (scope => s \in InScope)

\* What is reported deleted this run removed: it is there again only when
\* another client created it since.
DeletedAreGone == \A s \in deleted : ids[s] # 0 => ~quiet

\* A walk by the index misses no product that was there all along; one by
\* pages may only when another client deleted a product meanwhile.
WalkMissesNothing ==
  walk.ended /\ (walk.by = "index" \/ ~walk.shrunk) => walk.since \subseteq walk.got

\* When nothing changed since the import, a fresh listing gives exactly the
\* products to delete.
QuietIsExact ==
  pc = "delete" /\ quiet /\ Sent = {} /\ (index = NoIndex \/ scope) =>
    candidates = {s \in Present : (scope => s \in InScope) /\ source[s] \in {"unmapped", "absent"}}

\* upload.py:34: in execute, deleted and failed split would_delete.
OutcomeSplits ==
  /\ deleted \cap failed = {}
  /\ pc = "done" /\ mode = "execute" => Sent = candidates

\* import_products deletes what has no row, all of it when the catalog stands
\* still, and reports what it deleted (_delete_missing_products, guard_execute).
DeletesTheMissing == SourceKept /\ QuietIsExact /\ DeletedAreGone /\ OutcomeSplits

\* The run ends though the catalog moves under the walk.
RunEnds == <>(pc \in Ended)

\* importers.py:543-545: a failed import still reports what it would delete.
FailedImportReports == pc = "ratio" => candidates = {s \in Present : source[s] = "absent"}

\* docs/Catalog-Importers.md:381-384: the failures reach the error ratio.
RatioSeesDeletes == pc = "done" /\ strict => ResultFailed = 0

\* docs/Catalog-Importers.md:376: children are deleted before parents.
ChildrenFirst ==
  \A s, t \in candidates : s < t /\ s \in Parents => t \in Parents

\* importers.py:543: the listing is read after the import: what was gone by
\* then is no candidate.
ListedAfterImport == pc = "delete" /\ quiet /\ Sent = {} => candidates \subseteq Present

\* importers.py:547-549: a product the caller is trying to repair is kept.
RepairedKept == \A s \in deleted : source[s] # "unmapped"
---------------------------------------------------------------------------
(* The inductive invariant behind DeletesTheMissing and WalkMissesNothing. *)

TypeOK ==
  /\ mode \in {"preview", "execute"} /\ scope \in BOOLEAN /\ strict \in BOOLEAN
  /\ offered \in BOOLEAN /\ require \in BOOLEAN
  /\ source \in [Sku -> {"valid", "invalid", "unmapped", "absent"}]
  /\ ids \in [Sku -> Nat] /\ nextId \in Nat \ {0} /\ foreign \in Nat /\ quiet \in BOOLEAN
  /\ pc \in {"snapshot", "import", "check", "list", "candidates", "delete"} \cup Ended
  /\ index \in (SUBSET Sku) \cup {NoIndex}
  /\ walk \in [by: {"pages", "index"}, at: Nat, got: SUBSET Sku, ended: BOOLEAN,
               since: SUBSET Sku, shrunk: BOOLEAN]
  /\ rowsFailed \in Nat
  /\ candidates \in SUBSET Sku /\ deleted \in SUBSET candidates /\ failed \in SUBSET candidates

\* Magento hands out ascending ids, never one twice.
IdsInv ==
  /\ \A s \in Sku : ids[s] < nextId
  /\ \A s, t \in Present : ids[s] = ids[t] => s = t

\* What a walk has passed it has got: by id, or by place while none goes away.
WalkInv ==
  /\ WalkMissesNothing
  /\ ~walk.ended =>
       /\ walk.since \subseteq Present
       /\ walk.by = "index" => \A s \in walk.since : ids[s] <= walk.at => s \in walk.got
       /\ walk.by = "pages" /\ ~walk.shrunk =>
            \A s \in walk.since : Place(Present, s) <= Read => s \in walk.got

\* The catalog is listed again: there is no index that serves.
Lists == ~(offered /\ ~scope /\ index # NoIndex)

\* Where a run stands, and what it has by then.
PhaseInv ==
  /\ pc \in {"snapshot", "import", "check"} => walk.by = "index"
  /\ pc = "snapshot" => index = NoIndex
  /\ pc \in {"import", "check"} /\ index # NoIndex => walk.ended
  /\ pc = "list" => Lists
  /\ pc \in {"candidates", "delete", "done"} => walk.ended
  /\ pc \notin {"delete", "done"} => candidates = {}
  /\ pc \in {"list", "candidates"} /\ quiet /\ Lists =>
       walk.since = Present /\ ~walk.shrunk /\ walk.got \subseteq Present

IInv == TypeOK /\ IdsInv /\ WalkInv /\ PhaseInv /\ DeletesTheMissing

===========================================================================
