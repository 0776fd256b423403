------------------------------ MODULE MCRequests ------------------------------
(***************************************************************************)
(* An import's requests, checked in one run: one call with its login and   *)
(* retries, the cut of a list of operations into requests, the snapshot of *)
(* the store's products, and a product's gallery.  The four share no       *)
(* state: part says which one a behaviour is of, and the variables of the  *)
(* others are Unused.                                                      *)
(***************************************************************************)
EXTENDS Naturals, Sequences, FiniteSets, TLC

CONSTANTS
  MaxRetries, MaxCalls,                                                     \* MagentoRequest
  Key, NoKey, MaxOps,                                                       \* ListChunks
  Sku, Comma, Value, None, Wanted, Stores, ChunkSize, MaxSkus, MaxForeign,  \* BridgeSnapshot
  Positions, Labels, MaxImages, MaxEntries, MaxFaults                       \* MediaImport

\* For TLC: the rows' SKUs, and a catalog that has most of them and one that has
\* the last alone.
StoredWanted == <<"a", "b,c", "d", "e">>
StoredItem(name, own) == [type |-> 1, name |-> <<name, own>>, links |-> 2]
StoredStores ==
  {("a" :> StoredItem(1, None)) @@ ("b,c" :> StoredItem(1, 2)) @@ ("d" :> StoredItem(2, 1)) @@ ("e" :> None),
   ("a" :> None) @@ ("b,c" :> None) @@ ("d" :> None) @@ ("e" :> StoredItem(2, None))}

VARIABLES
  part,
  stage, method, attempt, reply, ending, begun, token, denied, executed, sends, logins, lapsed,
  keys, size, start, end, filled, closed, chunkOf,
  offered, view, deletes, store, foreign, held, probed, index, todo, snap, listed, cause,
  images, given, gallery, current, run, image, dels, adds, answered, faults,
  mode, pc  \* mode of the last two, pc of all

Request == INSTANCE MagentoRequest WITH answer <- reply, calls <- begun
Lists == INSTANCE ListChunks WITH i <- start, j <- end, current <- filled
Snapshot == INSTANCE BridgeSnapshot
Media == INSTANCE MediaImport WITH deletes <- dels

ASSUME RequestsAssumption ==
  /\ Request!BoundAssumption /\ Lists!BoundAssumption
  /\ Snapshot!SnapshotAssumption /\ Media!MediaAssumption

request == <<stage, method, attempt, reply, ending, begun, token, denied, executed, sends, logins, lapsed>>
lists == <<keys, size, start, end, filled, closed, chunkOf>>
snapshot == <<offered, view, deletes, store, foreign, held, probed, index, todo, snap, listed, cause>>
media == <<images, given, gallery, current, run, image, dels, adds, answered, faults>>
vars == <<part, request, lists, snapshot, media, mode, pc>>

Unused == "unused"
RequestIdle ==
  /\ stage = Unused /\ method = Unused /\ attempt = Unused /\ reply = Unused
  /\ ending = Unused /\ begun = Unused /\ token = Unused /\ denied = Unused
  /\ executed = Unused /\ sends = Unused /\ logins = Unused /\ lapsed = Unused
ListsIdle ==
  /\ keys = Unused /\ size = Unused /\ start = Unused /\ end = Unused
  /\ filled = Unused /\ closed = Unused /\ chunkOf = Unused
SnapshotIdle ==
  /\ offered = Unused /\ view = Unused /\ deletes = Unused /\ store = Unused /\ foreign = Unused
  /\ held = Unused /\ probed = Unused /\ index = Unused /\ todo = Unused /\ snap = Unused
  /\ listed = Unused /\ cause = Unused
MediaIdle ==
  /\ images = Unused /\ given = Unused /\ gallery = Unused /\ current = Unused /\ run = Unused
  /\ image = Unused /\ dels = Unused /\ adds = Unused /\ answered = Unused
  /\ faults = Unused

Init ==
  \/ /\ part = "request" /\ Request!Init
     /\ ListsIdle /\ SnapshotIdle /\ MediaIdle /\ mode = Unused
  \/ /\ part = "lists" /\ Lists!Init
     /\ RequestIdle /\ SnapshotIdle /\ MediaIdle /\ mode = Unused
  \/ part = "snapshot" /\ Snapshot!Init /\ RequestIdle /\ ListsIdle /\ MediaIdle
  \/ part = "media" /\ Media!Init /\ RequestIdle /\ ListsIdle /\ SnapshotIdle

NotRequest == UNCHANGED <<part, lists, snapshot, media, mode>>
RequestStep == part = "request" /\ Request!Next /\ NotRequest
ListsStep == part = "lists" /\ Lists!Next /\ UNCHANGED <<part, request, snapshot, media, mode>>
SnapshotStep == part = "snapshot" /\ Snapshot!Next /\ UNCHANGED <<part, request, lists, media>>
MediaStep == part = "media" /\ Media!Next /\ UNCHANGED <<part, request, lists, snapshot>>

Next == RequestStep \/ ListsStep \/ SnapshotStep \/ MediaStep

\* Requests carry a timeout, so each step of a call is taken.
Spec == Init /\ [][Next]_vars /\ WF_vars(part = "request" /\ Request!Client /\ NotRequest)

---------------------------------------------------------------------------

\* The type invariants of the parts.
TypeOK ==
  /\ part = "request" => Request!TypeOK
  /\ part = "lists" => Lists!TypeOK
  /\ part = "snapshot" => Snapshot!TypeOK
  /\ part = "media" => Media!TypeOK

\* No sequence of refreshes, retries and gateway errors lets Magento create
\* something twice, or run a bulk twice, for one call (_request).
NoDoubleWrite == part = "request" => Request!NoDoubleWrite

\* What a caller may conclude from the end of a call: a success took effect; an
\* error other than 500 and gateway errors, on a request that is not idempotent,
\* did not (_request).  The bulk executor and the row counts rest on it.
EndingTellsEffect == part = "request" => Request!EndingTellsEffect

\* An expired token costs one login and no row (_request).
ExpiryCostsOneLogin == part = "request" => Request!ExpiryCostsOneLogin

\* Every call ends (_request).
CallEnds == part = "request" => Request!CallEnds

\* Every operation is sent in exactly one request, no request is empty, and
\* requests follow the order of the operations (_chunk_list_operations).
Partition == part = "lists" => Lists!Partition

\* A unit is never split: its operations go into one request
\* (_chunk_list_operations).
UnitsTogether == part = "lists" => Lists!UnitsTogether

\* A request is as full as its units allow (_chunk_list_operations).
RequestsFit == part = "lists" => Lists!RequestsFit

\* Whatever mode, capabilities and failed requests: the snapshot is what REST
\* alone answers, and with changes by others each value was there at some
\* moment (snapshot_products, BridgeClient).
SnapshotIsStore == part = "snapshot" => Snapshot!SnapshotAgrees /\ Snapshot!EachValueHeld

\* require gets the module's answer or an error, and an authentication error
\* ends the run.
RequireOrAbort == part = "snapshot" => Snapshot!RequireIsBridge /\ Snapshot!AuthAborts

\* A row's images are in place after a run without an error, first or again
\* after any failure; entries no image is for stay, a row that fails changes
\* nothing, and a rerun of what is in place plans nothing (import_media,
\* plan_media).
GalleryAsNamed ==
  part = "media" => /\ Media!ImagesInPlace /\ Media!OthersLeftAlone
                    /\ Media!FailedRowChangesNothing /\ Media!RerunPlansNothing
=============================================================================
