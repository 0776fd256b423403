# Verification of dagster-magento

TLA+ models of the `dagster_magento` library (catalog import into Magento over
REST and the async Bulk API), the TLC runs that check them and the theorems
TLAPS proves about them. Every path below is relative to the repository root
(`src/` stands for the checkout).

## 1. Inventory

The library is one Python process per run: an importer is a function called in
a Dagster asset. There are no threads in it. Concurrency is with the store:
Magento's queue consumers run bulk operations while the importer polls, a
gateway may answer before Magento has finished, the token may expire between
two requests, other clients change the catalog between two reads.

| Component | Source | State it keeps | Operations | What is hard |
| --- | --- | --- | --- | --- |
| Request layer | `resource.py` `_request`, `_fetch_token`, `_send_timed` | cached token; per call: refresh used, retry attempt | get, post, put, delete, submit_bulk | gateway answers after a commit; token expiry at any send; retry budget; which verb may be repeated |
| Pagination, batching | `resource.get_paginated`, `bridge.product_index`, `upload.chunk_rows`, `diff._sku_filter_chunks`, `executor._chunk_list_operations` | page cursor, current chunk | next page, add row, flush | exact multiples, commas in SKUs, units that must stay together, a catalog changing between pages |
| Sync executor | `executor._execute_sync*`, `_send_single`, `_send_list_chunk`, `_find_failed_item` | result so far, groups | send a list chunk, send a single op | attribution of rejected items to rows, phase order, partial failure |
| Bulk executor | `executor._execute_bulk`, `_process_bulk_chunk`, `_partial_submission`, `bulk.wait_bulk`, `map_detailed_status` | schedule of chunks, submitted ids, rejected ids, deadline, result | submit, poll, classify, resubmit once | consumers interleave with polling, lost messages, timeouts, partial rejection, resubmission, phase barrier |
| Row upload | `upload.run_upload`, `bulk.run_async_upload`, `resource.upload_rows*` | counters, errors | send a chunk | failure of one chunk, auth abort |
| Row outcomes | `importers._fold_by_row`, `_complete`, `_merge_prices`, `_last_wins`, `_merge_retry`, `executor.check_error_ratio` | none (pure) | fold, merge, ratio | one outcome per row, duplicates, retries replacing failures |
| Snapshot and diff | `diff.py` | none (pure over what was read) | snapshot, match | stale snapshot, a doubt must read as changed |
| Resolver | `resolvers.py` | caches of attributes, options, sets, groups, categories | lookup, create and refresh | create failing half-way, cache that misses what exists, duplicates |
| Writers | `writers/*.py` | none (pure) | plan_* | ordering of follow-ups, all-or-nothing rows |
| Attribute-set passes | `importers.import_attribute_sets` | done ops, active rows, pass number | pass | convergence in three passes, cache refresh |
| Category import | `importers.import_categories`, `_retry_without_default_sort_by` | result | plan, run, retry | retry merging, per-row re-creation |
| Product import | `importers.import_products`, `_drop_attached_children` | snapshot, plan, parents' outcome | snapshot, parents, follow-ups, delete | follow-ups of unsettled parents, stale snapshot |
| Delete missing | `catalog.py`, `importers._delete_missing_products` | listing, candidates | list, guard, delete | irreversible, stale listing, invalid rows, partial failure |
| Bridge client | `bridge.py` | capabilities, product index (cached per run) | probe, index, values, upsert | failing probe, fallback, stale cache |
| File formats | `formats/*.py` | none (pure) | parse rows | grouping of sibling rows, bad rows |
| Price import | `importers.import_prices`, `_merge_prices`, `writers/pricing.py`, `diff.price_matches_snapshot` | merged rows, snapshot, plan | merge, read, compare, send | several rows of one SKU, tier lists that replace one another |
| Attribute import | `importers.import_attributes`, `writers/attributes.py`, `resource.resolve_attribute_options` | option ids by label | create, update, add options | Magento does not deduplicate options |
| Media import | `importers.import_media`, `writers/media.py` | gallery, planned operations | read, plan, delete, add | a replacement is two calls, reruns after half of it |
| Inventory imports | `importers.import_*source*`, `import_stocks`, `writers/inventory.py` | none | one operation per row | nothing of its own |
| Row models | `models.py` | none (pydantic) | validate | default versus explicit fields |
| Sandbox and compat scripts | `scripts/` | none | run live tests | out of scope |

### How the components interact

An importer (`importers.py`) validates the rows, asks the resolver for ids and
the snapshot for what exists (both through the request layer and, when it is
installed, the bridge), has a writer plan a list of `Operation`s, and hands the
list to `executor.execute`. The executor groups, sorts and cuts the list and
sends each request through the request layer; bulk requests are queued by
Magento and polled. What comes back is an `UploadResult` per chunk, merged, and
folded by the importer to one outcome per row. Shared state is the cached
token, the resolver's caches and the bridge's product index, all of one run;
everything else shared is in the store.

### What makes each component correct

* **Request layer**: one call never makes Magento create or queue something
  twice; its end tells whether it took effect; its effort is bounded; a token
  that ran out between calls costs nothing.
* **Batching**: the requests partition the operations in order; a unit is never
  split; a page walk sees what does not move and ends.
* **Sync executor**: each row is counted once; a rejected row is never reported
  as saved; a row does not fail for another request, nor, when Magento is
  precise, for another row.
* **Bulk executor**: each operation is counted once; a verdict agrees with the
  store; the resubmission cannot save twice; a phase is over before the next;
  the run ends whatever the consumers do.
* **Order of execution**: nothing lost or sent twice, phases ascend, a chunk
  has one target, what goes to one place keeps its order, a row is created
  before it is updated.
* **Row outcomes**: one outcome per row, counts add up, a retry replaces what it
  retried.
* **Resolver, category import**: nothing that exists is created again, a cache
  never holds what does not exist, a failure half-way is resumed.
* **Attribute-set passes**: each row is done or reported, passes end.
* **Product import**: follow-ups only after their parent settled; skipped rows
  are those that need no write; a stale snapshot is survived.
* **Prices, media, options**: the last row to set a value wins; tiers others
  added stay; an image is in place after a run without an error, first or rerun;
  a label has one option.
* **Bridge**: whatever fails, the snapshot is what REST alone would answer.
* **File formats**: no line is lost without an error, rows arrive whole.
* **Delete missing**: only what the listing has and the file has not, nothing in
  preview, never a SKU whose row was invalid.

## 2. Plan

The order in which the modules were written, the most important first, with the
module that checks and the one that proves each. Nothing of it is left to do:
what stays with TLC and what is not modelled is in sections 5 and 7.

1. `BulkExecutor`, `BulkContract`, in `MCBulkExecutor`, `BulkExecutorProofs`
2. `MagentoRequest`, `ListChunks`, and later `BridgeSnapshot`, `MediaImport`, in
   `MCRequests`, `MCRequestsProofs`
3. `ExecutionOrder`, `ExecutionOrderProofs`
4. `SyncExecutor`, in `MCSyncExecutor`, `SyncExecutorProofs`
5. `RowOutcomes`, `RowUpload`, `XmlReader`, `RowGrouping`, in `MCRows`, `MCRowsProofs`
6. `ProductImport`, `PriceImport`, in `MCProducts`, `MCProductsProofs`
7. `DeleteMissing`, `DeleteMissingProofs`
8. `CategoryTree`, `AttributeSetPasses`, `OptionLabels`, in `MCStructure`,
   `MCStructureProofs`

Modules are written for proof: parameters are constants with named assumptions,
one action per handler, invariants are conjunctions of named parts, and no
module declares a RECURSIVE operator.

## 3. Modules and the code

### MagentoRequest (`resource.py` 26-68, 92-146)

One action per step of a call: `Begin` takes the cached token or logs in
(`LoginSucceeds`, `LoginFails`), `Send` is answered and `SendBreaks` is not,
`Refresh` is the one repetition after a 401, `Retry` the backoff loop, `Finish`
`raise_for_status`. `stage` is the place in the code a send comes from. The
environment executes a request and may still answer with a gateway error
(`Outcomes`), lets the token run out (`TokenExpires`) and denies an endpoint to
an account. The waits between retries are steps without duration.

### BulkExecutor (`executor.py` 317-508, `bulk.py` 105-155)

`Schedule` is the list of chunks (what `ExecutionOrder` sends), `Direct` the
operations without a bulk spec. `Submit`, `SubmitRefused`,
`SubmitUnacknowledged`, `SubmitAborted` are the ways a submission ends (part of
the items may be rejected); `PollAgain`, `PollSettled`, `PollExpired` and
`PollAborted` those of one status read, in which Magento lists any subset of
the operations in any order; `Classify` is the loop that turns statuses into
verdicts and collects what is retried once. `ConsumerSettles` and
`ConsumerDies` are Magento's consumers. `mq` is Magento's truth, `outcome` and
`counted` what the result says; `unacked` is a history variable.

`BulkContract` is what the caller may rely on, without chunks, ids or polls.
`Contract` in `BulkExecutor` is the refinement mapping.

### ListChunks (`executor.py` 31-75)

The two nested loops, one action per turn. `chunkOf` is the part an operation
is in, instead of lists of lists. `OpenUnit`, `GrowUnit` and `PlaceUnit` are the
three parts of the body.

### ExecutionOrder (`writers/products.py` 109-118, 191-267; `executor.py` 119-153, 345-364; `upload.py` 86-87)

`PlanRow` plans one row, whatever it is; `Group` puts one operation into the
dict of groups; `Sort` is the stable sort; `SendChunk` and `SendSingle` send.
`requests` is what left the library, in order. `EachSentOnce` and
`PhasesAscend` are the assumption `ScheduleAssumption` of `BulkExecutor`.

### SyncExecutor (`executor.py` 119-314)

`Requests` is what grouping and chunking make of a plan. `SendSingle`,
`SendList`, `RequestFails` and `RequestAborts` are the ways a request ends;
`Attribute` decides from the items of the answer which rows failed. An item is
the operation it is about, which the code does not see, and what it names: a set
of SKUs (several when its placeholders are numbered), a store or source. That is
`_named_parameters` by its effect; texts are left out. `saved`, `refused` and
`broken` are Magento's side and history.

What Magento is assumed to do is in `Honest` and `AnswerTo`: every rejected
operation has an item; an item that names SKUs names its own operation's; a
store or source it names is that operation's.

### RowOutcomes (`importers.py` 130-434, `executor.check_error_ratio`)

`AddRow` gives a row its reference, what became of it in planning and the
outcomes of its operations; `Complete` is `_complete` with `_fold_by_row`,
`Retry` the second try of categories without `default_sort_by` and
`_merge_retry`, `Check` the error ratio. `rows` and `second` are the truth,
`result` what the caller sees.

### RowUpload (`upload.py` 86-122, `bulk.py` 64-100, `resource.py` 249-295)

One action per way a chunk's request ends: `Answered`, `HttpError`, `Broken`
and, on the async route, `Queued`, whose items Magento accepts or rejects one by
one and answers in any order. `saved` is Magento's side.

### XmlReader (`formats/readers.py` 133-213)

The environment writes any well-formed tree, element by element
(`StartRoot`, `StartEntity`, `StartInner`, `Field`, `End`), or breaks it off
(`Malformed`); the same actions are the code's handling of each `iterparse`
event. `file` is what was written, `active`, `depth`, `ordinal` and `yielded`
are the code's locals.

### RowGrouping (`formats/catalog.py`)

`kind` selects the function: products and categories (`GlobalLine`, `StoreLine`,
then `FoldLine` for what waited), prices and attributes (`GroupLine`, then
`BuildPrice`, `BuildAttribute`), source items (`ItemLine`). `NoKeyLine` and
`OtherStore` are the early exits, `Raises` the exception that leaves the
function. A cell is good, bad, or good but refused by the model.

### ProductImport (`importers.py` 443-624, `diff.py` 147-449, `writers/products.py`, `writers/product_types.py`)

`ReadIndex`, `ReadValues`, `ReadExtension`, `BridgeFails` and `ReadRest` take
the snapshot in one read or several; `Plan` compares and plans; `Send` executes
an operation (in bulk mode one of its group, in any order, possibly left
pending and run later by `RunLate`); `ReadChildren` decides the links;
`Return` folds the outcomes. `Foreign` is another client. Chunking, phases and
attribution are the executors' and are not repeated here.

### PriceImport (`importers.py` 627-683, `writers/pricing.py`, `diff.py` 248-503)

`Merged` is what `_merge_prices` makes of the rows of one SKU and store, `Read` one
of the reads of the three price lists, `Plan` compares and plans, `Send` is one list request, `Return` the outcome.
Each list endpoint takes one request, for `ListChunks` models the cutting.

### DeleteMissing (`catalog.py`, `importers.py` 523-594, `resource.get_paginated`, `bridge.product_index`)

A listing is a walk (`walk`, one page per `List`), over REST by page number or through the
bridge's index, which the import read before and keeps. `DeleteOne` fails,
deletes, or deletes and answers an error. `quiet` records that nobody else
changed the catalog, `ids` makes a recreated product a new one.

### CategoryTree (`resolvers.py` 230-393, `writers/categories.py`, `importers.import_categories`)

`UpsertOk` and `UpsertFails` are the module's transaction for all paths, then
per row; `Load`, `Known`, `NoRoot`, `CreateSegment` and `CreateFails` the native
walk, segment by segment with the cache; `Put` the update of each row, `Retry`
the round without `default_sort_by` with a fresh resolver. A creation may be
committed and answer an error (`lost`). `bridge`, whether the store has the
module, is chosen at the start. `batch` holds the rows still to be resolved, of
which the walk takes the lowest; a new category gets the lowest id that was
never used.

### AttributeSetPasses (`importers.import_attribute_sets`, `writers/attribute_sets.py`)

`Plan` reads and plans a pass, `Send` one operation, `EndPass` drops the rows
that failed or are done, `Check` is the final plan, `Return` the fold. `todo`
holds each operation with its place in the plan, and `Before` is the order of
the places in which they go out. Magento keeps an attribute in one group of a
set: of two groups of a row that name it, the one assigned last has it, which is
why `SucceededComplete` speaks of a group of the row that names it.

### OptionLabels (`resolvers.py` 100-170, `resource.py` 300-345, `writers/attributes.py`)

Three users of option labels, by `input.job`: the resolver while products are
planned, `resolve_attribute_options`, and `import_attributes`. `Post` and `Refresh` are the two
calls of a creation; Magento may list a new option anywhere, and save it and
answer an error.

### BridgeSnapshot (`bridge.py`, `diff.snapshot_products`, `catalog.delete_candidates`)

`Probe`, `Index`, `Values`, `Extra` are the module's calls and `BridgeFails`
the fallback; `Rest` the chunked filter read. `todo` is the set of places in the
list of SKUs that are still to be read, a chunk a part of it (`FilterChunk`,
`ValuesChunk`): a SKU with a comma alone, the others up to the size or the next
comma. `ListBridge`, `ListFails`,
`ListRest` the listing that decides deletes. The ways a request fails are those
the `except` clauses tell apart: HTTP errors, unreadable answers, timeouts,
authentication.

### MediaImport (`importers.import_media`, `writers/media.py`)

`Read`, then one action per image (`Skip`, `Replace`, `NotLoaded`), then the
deletes before the adds (`Done`, `Refused`, `Fails`), and `Rerun`: the same
import again on what the first one left.

### Composite checks

| Module | `part` | Instances |
| --- | --- | --- |
| `MCRows` | reader, grouping, upload, outcomes | `XmlReader`, `RowGrouping`, `RowUpload`, `RowOutcomes` |
| `MCRequests` | request, lists, snapshot, media | `MagentoRequest`, `ListChunks`, `BridgeSnapshot`, `MediaImport` |
| `MCStructure` | categories, sets, labels | `CategoryTree`, `AttributeSetPasses`, `OptionLabels` |
| `MCProducts` | products, prices | `ProductImport`, `PriceImport` |

A variable `part`, which never changes, says which module a behaviour is of; the variables of the others hold `Unused`.
Each of their properties is a conjunction of the modules' named ones for its
part, and they ASSUME the assumptions of the modules they instantiate. What
couples the parts in the code is a call with a value (the rows a reader
yields, the operations a plan holds), so the behaviours of one run are the
union of theirs and nothing is lost.

## 4. Runs

| Run | Question | Bounds and why they are enough | States |
| --- | --- | --- | --- |
| `BulkPhases` | counts, verdicts, single saves, phase barrier, contract, termination | a direct operation, a chunk of two, a parent in phase 1, two ticks: two chunks and two phases are the least for the barrier, two items the least for a partial rejection and a partial resubmission | 122 714 |
| `Requests` | one call: double writes, meaning of an ending, expiry, termination; cutting: partition, units, sizes; snapshots; galleries | three calls, so that the token one call leaves meets the next, `_MAX_RETRIES` as in the code; five operations, two keys, sizes 1 to 5: units of 1 to 5, equal keys apart and adjacent, every relation of unit and size; four SKUs, one with a comma, chunks and calls of two: three chunks and two calls; two entries, two images, two faults: both halves of a replacement can fail | 434 396 |
| `ExecutionOrder` | what arrives, in what order, where | three rows, two stores, chunks of 1 and 2: a third row is needed for a group that is opened early and filled late | 433 362 |
| `SyncLists` | attribution, counts | three rows of which two share a SKU, a single, two tiers of one SKU; up to three items: two about one row and one about another | 369 484 |
| `DeleteMissing` | what is deleted, the walk over a moving catalog, termination | two SKUs with every kind of line, pages of one, two changes by others: the second page exists and can move twice | 506 015 |
| `Rows` | reading, grouping, sending and counting of rows | six elements (two entities with two rows, or rows at two depths), three lines of two keys (two of one and one of another in every order), five rows in chunks of 1 to 3 (a full, a partial, a single chunk), three rows of two references | 634 316 |
| `Structure` | categories, sets, options | three rows on a path of two segments that share a parent, two sets of which one is based on the other or both have one name, labels in two spellings each; one change by others (two for sets), one lost answer (two faults for options) | 206 654 |
| `Products` | products, links, prices | one and two product rows of two SKUs, of one, or of parent and child; up to four price rows of two SKUs and stores, with and without tiers; one change by others | 838 917 |
| `SyncNotNamedSucceeds` | violation, section 6 | two items | |
| `DeleteUnmapped` | violation, section 6 | as `DeleteMissing`, one change | |

Every property of a passing run has a mutant in `PROJECT.json`: a plausible
change of the code under which the run fails. The mutants stand beside the
definitions they change, named after them, and are used nowhere else.

Deadlock is not checked: a run of the program ends, and after `done` or
`aborted`, or after the last call, nothing follows.

**Fairness.** `BulkExecutor`, `DeleteMissing` and, as a part of `MCRequests`,
`MagentoRequest` assume weak fairness of the client alone: every request carries a 30 s timeout
(`resource.py` 77-90), so each step of the single thread is taken. Nothing is
assumed of Magento or of other clients: no consumer need run, no token need
last. `Terminates`, `CallEnds` and `RunEnds` hold so; the walk of a listing ends
because the changes of others are bounded, that is because they are slower than
the pages in the long run. The other modules state safety only: their loops run
over a list fixed before, and each step is a call whose end is `MagentoRequest`'s.

## 5. Proofs

All are for every value of the constants under the named assumptions of the
modules: any schedule, any requests, any answers, any list of operations.

* **`BulkExecutorProofs`** proves `IInv`, and from it `TypeOK`, `CountedOnce`,
  `VerdictSound`, `OutcomesSound`, `AtMostOneSave` and `PhaseBarrier`. None is
  inductive alone: a verdict is sound because an operation that is open belongs
  to the bulk in hand (`RunningInv`), because a second attempt exists only after
  a retriable first (`QueueInv`), and because the bulk in hand is a part of the
  chunk under the cursor (`BatchInv`), whose operations are not yet counted
  (`CountInv`). `PollingIsSound` is the action property `StepsSound`, from the same invariant.
  `ImplementsContract` is the refinement `KeepsContract`: the initial states map
  to initial states of `BulkContract`, and each action to one of its actions or
  to a stutter, which is shown action by action: a submission queues the
  operations Magento took (`Queue`), or loses track of them when its answer is
  lost (`LoseTrack`), `Classify` and a refused submission decide a set of them at
  once (`Decide`), a consumer settles one (`Settle`).
* **`ExecutionOrderProofs`** proves `SentAsPlanned` and `OrderKept`. `PlanInv`:
  the operations of a row are of one phase, its creation the first. `GroupInv`:
  groups have different keys and hold what was grouped so far, ascending.
  `SendInv`: what is in a request, or in an earlier group, is `Before` all that
  comes after it, that is of an earlier phase, of a group that began earlier, or
  in one group earlier in the plan. The hard part is the stable sort between the last two.
* **`SyncExecutorProofs`** proves `IInv`, and `TypeOK`, `CountedOnce`,
  `SucceededSaved`, `FailedHasCause`, `RowsAccounted` and `ExactBlame`. The
  argument is the lemma `RejectedIsLost`: an item about a rejected row either
  names it, so the row fails, or names nothing, so it is the first of no row and
  fails all.
* **`DeleteMissingProofs`** proves `DeletesTheMissing` and `WalkMissesNothing`.
  `IdsInv`: ids are distinct and a product created again gets a new one.
  `WalkInv`: what a walk has passed it has, by id always, by place while no
  product went away. `PhaseInv`: which listing stands at which point of the run,
  and that it is the catalog while nobody else changes it.
* **`MCRowsProofs`** proves every invariant of the run `Rows`, part by part.
  Upload: up to the chunk in hand every row is counted and, when no error names
  it, saved once (`SavedInv`, `NamedInv`), which is `UploadAccountsForRows`.
  Outcomes: `OutcomesInv` says that the fold tells of each row what the
  operations of its reference came to (`Tells`), through the second try, which
  gives `CountsAreFates` and `NoFailureHidden`. Reader: `ReaderInv` keeps what
  the tree written so far should yield (`Yields`) beside what was yielded
  (`ReadWhole`). Grouping: `GroupingInv` has a part for each way lines are
  folded, overrides over the last global line (`FoldInv`), groups by key
  (`GroupInv`), lines one by one (`ItemInv`), and one for what is refused
  (`FileInv`), for `LinesReachRows`. `TypeOK` follows from the four.
* **`MCRequestsProofs`** proves every invariant of the run `Requests`, part by part.
  Request: `EffectInv` says that once a request that is not idempotent took
  effect nothing is sent again, `EffortInv` bounds sends by where the call
  stands, `ExpiryInv` says where a 401 comes from; they give `NoDoubleWrite`,
  `EndingTellsEffect` and `ExpiryCostsOneLogin`. Lists: the last `current`
  operations before `i` are the chunk being built (`ChunkInv`), `i` always begins
  a unit (`PositionInv`), and a chunk together with any unit of the next one
  exceeds the size (`FullInv`), for `Partition`, `UnitsTogether` and
  `RequestsFit`.
  `SnapshotInv`: of each SKU what the snapshot says is settled, that is what the
  store says now or said at some moment (`Settled`), or, while the module is
  read, settled but for the parts that are still to come (`Indexed`); the
  fallback to REST drops what the module said and leaves every place to be read
  again. It gives `SnapshotIsStore` and `RequireOrAbort`. `MediaInv`: each image
  planned so far is in the gallery to stay or is to be added (`Placed`), no two
  entries that stay are at one position (`Unique`) and none is where an image
  comes (`Free`); a call that fails ends the claim for its run, one without an
  error takes an operation away and does it. It gives `GalleryAsNamed`.
* **`MCStructureProofs`** proves every safety property of the run `Structure`.
  Categories: ids are never used again (`TreeInv`), so that a path with the id
  the resolver has for it is one category, which was there in this round
  (`CacheInv`); that is what makes a PUT one to the row's own category
  (`WritesOwnCategory`, an action property). Without changes by others and lost
  answers the cache of the native walk is the whole tree (`NativeInv`), so that a
  path it has not is one the tree has not, and nothing is created twice. With
  the fate of each row (`FateInv`) they give `CategoriesAsPlanned`.
  Sets: three passes are enough because each leaves a level behind it
  (`LevelInv`): the first the sets of the rows that are still active, the second
  their groups, the third their assignments. It needs that the plan of a pass is
  what was sent and what is still to be sent (`TodoInv`), that what was answered
  well is there (`EffectInv`), and for `NothingAgain` that whatever went out
  before, of a row still active, is done (`LogInv`). `PlaceInv` says that an
  attribute that was assigned is where one of the requests put it, whichever was
  the last. They give `SetsComplete`.
  Options: every id in a result or in the cache is that of an option of its
  label (`RightInv`), what the first read listed is never created (`SeenInv`),
  while nobody else adds options the results are those of the cache (`OneInv`),
  while every request is answered a created label is in the cache before the
  next row (`OnceInv`), each label of an attribute is an option or still to be
  posted (`PostsInv`). They give `LabelsResolve`.
* **`MCProductsProofs`** proves every property of the run `Products`.
  Prices: `PriceInv` says what the reads saw, that rows left out match it, that
  a list goes out whole, and, while nobody else writes, what each request left
  in the store: a base price (`BaseInv`), a special price, whose dates a row need
  not set (`SpecialInv`), the tiers of a SKU, which are the row's only when every
  request about them went through (`TierInv`), and the tiers of the SKUs no
  request is about (`OtherTiersInv`). With what the merge
  of the rows of one SKU and store yields (each value is that of the last row
  that sets it) it gives `LastPriceHolds`.
  Products: `ProductInv` says what the reads saw, what was planned and in which
  order verdicts come; for a SKU that only one row is about `RowInv` ties them to
  the store: what a save that went well wrote is there, a child that is still to
  be linked is not. It gives `ProductRowsHold` and the action properties
  `SavesKeepPromises` and `FollowUpsFit`.

Of the properties of the passing runs only the liveness ones, `Terminates`,
`CallEnds` and `RunEnds`, are model-checked and not proved: liveness under fairness
is beyond the prover. What the violation runs and the table of section 6 show is
TLC's too.

The theorems about the composite modules hold for every value of their constants
that the assumptions of the modules allow: the inputs and stores that a run
enumerates are constants, of which little more than the types is assumed (the
SKUs of a snapshot are distinct, a row without a type is simple).

What the code computes in a loop over a list is stated in the models by a
property of the result (a set of places, an enumeration in a given order, whose
existence a lemma shows) where a theorem needs it: what a fold computes for every
list would need induction over data.

## 6. Where code and documents disagree

Two runs show one each (`findings` in `PROJECT.json`):

1. `SyncNotNamedSucceeds`: when two items concern one row, or two tiers of one
   SKU, the second is taken for one that names no row and every other row of the
   request is reported failed, contrary to `executor.py` 199-202.
   `FailedHasCause` and `ExactBlame` are what holds.
2. `DeleteUnmapped`: a row that failed validation is to be kept, "a product the
   caller is trying to repair" (`importers.py` 547-549); a line that the mapper
   refused never reaches the importer, so its product is deleted. `SourceKept`
   is what holds.

The formulas below state what a document or comment says and are false of the
code. They stand at the end of their modules and belong to no run: TLC violates
each when it is added to the invariants of the module's run (in a composite run
as `part = "..." => Instance!Formula`; `PartialKeepsType` and
`PostedOnlyMissing` are actions, to be put in `[][...]_vars`; `SameSite` needs a
website of the code `all` in `Sites`).

| Formula | Module | What the document says | What the code does |
| --- | --- | --- | --- |
| `NoParentBesideChildren` | `BulkExecutor` | a parent is never in flight with its children (`executor.py` 351-354, `operation.py` 24-27) | after a wait that timed out it is; `PhaseBarrier` holds |
| `FailedMeansNotScheduled` | `BulkExecutor` | no uuid means nothing was scheduled (`_partial_submission`) | a gateway error after the commit has none either |
| `AnyUnauthorizedRefreshes` | `MagentoRequest` | any 401 is answered by a new token | one that answers a retry of the backoff loop is raised |
| `CreatedBeforeStoreValues` | `ExecutionOrder` | mains before follow-ups (`executor.py` 354-355) | a store value of a new row may be submitted in bulk before the row's creation; `StoreValuesFollow` holds |
| `OneOutcomePerRow` | `RowOutcomes` | every input row is counted once (`importers.py` 4) | a row without operations is left out when another row of its reference failed in planning |
| `FailuresStayNamed` | `RowOutcomes` | the retry replaces the failures of exactly the retried rows (`importers.py` 411-412) | failures are matched by path: of two rows of a path both errors go and one failure stays, unnamed |
| `RejectedNotQueued` | `RowUpload` | rejected means not queued (`bulk.py` 34-35) | an error after the commit, or with the bulk in its body, counts the chunk as rejected |
| `OnlyOneEntity` | `XmlReader` | a file that does not hold exactly one entity is refused (`readers.py` 25-27) | one with a single element of each of two entities is read |
| `RefusedBeforeRows` | `XmlReader` | no row is yielded before the refusal (`readers.py` 144-146) | the rows of the first element are |
| `OtherChildRefused` | `XmlReader` | any child but a field is refused (`readers.py` 140-142) | it is dropped |
| `NeverRaises` | `RowGrouping` | a bad row is an error, never an exception (`catalog.py` 3-9) | a flag cell as `--5` raises a ValueError and the file is lost |
| `EveryBadPriceNamed` | `RowGrouping` | an error per bad line (`File-Formats.md` 431-432) | a bad value type is found after the fold: one error, for the first line |
| `FailedImportReports` | `DeleteMissing` | a failed import still reports what it would delete (`importers.py` 543-545) | the error ratio raises before the listing |
| `RatioSeesDeletes` | `DeleteMissing` | refused deletes reach the error ratio (`Catalog-Importers.md` 381-384) | the ratio is checked before the deletes |
| `ChildrenFirst` | `DeleteMissing` | children are deleted before parents (`Catalog-Importers.md` 376) | the order is that of the SKUs |
| `ListedAfterImport` | `DeleteMissing` | the listing is read after the import (`Catalog-Importers.md` 360) | with the module it is the index the snapshot cached |
| `LastRowWins` | `ProductImport` | of two rows of a SKU the last wins (`Catalog-Importers.md` 72-74) | a last row that equals the snapshot is skipped, the earlier one written |
| `LinkAfterChild` | `ProductImport` | links run when parent and child exist (`Catalog-Importers.md` 322-324) | only the parent is looked at; the child's save may be pending |
| `PartialKeepsType` | `ProductImport` | a partial row never resets a type (`models.py` 89-92) | after the row that created its SKU in the same import it does |
| `IdempotentByPath` | `CategoryTree` | the writer is idempotent by path (`importers.py` 340) | a creation that was saved and answered an error, or by an upsert for another row, is made again |
| `CacheSameShape` | `CategoryTree` | the upsert leaves the cache as the native walk does (`resolvers.py` 265-266) | only the asked paths are in it, not their parents |
| `EveryRowCounted` | `AttributeSetPasses` | every input row is counted once (`Catalog-Importers.md` 9-11) | two rows of one set are counted as one |
| `CacheSeesOwn` | `OptionLabels` | the cache has what the resolver creates (`resolvers.py` 69-71) | not when the creation was saved and answered an error: the option is made twice |
| `PostedOnlyMissing` | `OptionLabels` | one POST per label not yet present (`Catalog-Importers.md` 148) | a label that comes twice is posted twice |
| `NoInvertedRange` | `PriceImport` | an inverted date range never reaches Magento (`models.py` 173-174) | rows that merge are not validated again |
| `SameSite` | `PriceImport` | a website code resolves in the diff as in the writer (`diff.py` 471-472) | a website whose code is `all` does not |
| `AutoDegrades` | `BridgeSnapshot` | a failure of the module falls back to REST (`diff.py` 144) | a timeout or a lost connection ends the import |
| `ListingAuthAborts` | `BridgeSnapshot` | an authentication error aborts (`Optional-Bridge.md` 146-148) | one in the module's listing is logged and REST tried |
| `OldEntryDeleted` | `MediaImport` | an entry of another label at the position is deleted (`Catalog-Importers.md` 483-484) | not on a rerun after its delete failed and the add was saved |
| `MatchingNotPlanned` | `MediaImport` | an image that matches an entry needs no operation (`Catalog-Importers.md` 479-482) | of several entries of a position only the last is seen |

## 7. Not modelled

* **Inventory imports** (`writers/inventory.py`): one operation per row, at most
  one read, sent by the executor of `SyncExecutor`; their rows meet only in
  `_last_wins`.
* **Pure conversions**: the cells of `columns.py`, the csv and xlsx readers (thin
  wrappers of libraries), `normalize_*`, `attribute_set_assignments_from_rows`,
  the field types of `models.py`. Each is a function of one cell or row.
* **Parts of products**: bundle options, grouped links, downloadable files and
  store values are the one field `parts`, which no snapshot reads.
* **`order_for_delete` and `delete_operations`** (`catalog.py`): no importer
  calls them (see `ChildrenFirst`).
* **Arguments**: importers that raise on their arguments do so before any
  request; the arguments are assumed valid.
* **A bulk media add that is still queued** when the rerun reads the gallery, and
  the snapshot of source items.
* Texts of messages and logs, durations, the scripts under `scripts/`.

An exception that leaves `execute()` ends a model's run as `aborted`; that the
outcomes so far are lost with it is the library's documented behaviour for
authentication errors.
