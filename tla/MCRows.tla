------------------------------- MODULE MCRows -------------------------------
(***************************************************************************)
(* The way of a row, checked in one run: read from an XML file, grouped    *)
(* into the row of its key, sent in chunks, and counted in the result of   *)
(* an import.  The four parts call one another through the caller and      *)
(* share no state: part says which one a behaviour is of, and the          *)
(* variables of the others are Unused.                                     *)
(***************************************************************************)
EXTENDS Naturals, FiniteSets

CONSTANTS
  Entities, MaxStarts,                                 \* XmlReader
  Keys, NoKey, Views, Global, Labels, MaxLines,        \* RowGrouping
  N, MaxChunk,                                         \* RowUpload
  Ref, Percents, MaxRows,                              \* RowOutcomes
  None

VARIABLES
  part,
  entity, open, starts, children, entities, active, depth, ordinal, yielded, outcome,
  kind, file, next, globals, waiting, folded, groups, order,
  route, chunkSize, chunk, saved, uuids, good, bad,
  categories, limit, result, second, raised,
  rows, errors, pc  \* of more than one part

Reader == INSTANCE XmlReader
Grouping == INSTANCE RowGrouping
Upload == INSTANCE RowUpload
Outcomes == INSTANCE RowOutcomes

ASSUME RowsAssumption ==
  /\ Reader!NoneAssumption /\ Grouping!GroupingAssumption
  /\ Upload!UploadAssumption /\ Outcomes!BoundAssumption

Unused == "unused"
ReaderIdle ==
  /\ entity = Unused /\ open = Unused /\ starts = Unused /\ children = Unused /\ entities = Unused
  /\ active = Unused /\ depth = Unused /\ ordinal = Unused /\ yielded = Unused /\ outcome = Unused
GroupingIdle ==
  /\ kind = Unused /\ file = Unused /\ next = Unused /\ globals = Unused
  /\ waiting = Unused /\ folded = Unused /\ groups = Unused /\ order = Unused
UploadIdle ==
  /\ route = Unused /\ chunkSize = Unused /\ chunk = Unused /\ saved = Unused
  /\ uuids = Unused /\ good = Unused /\ bad = Unused
OutcomesIdle ==
  /\ categories = Unused /\ limit = Unused /\ result = Unused /\ second = Unused /\ raised = Unused

Init ==
  \/ /\ part = "reader" /\ Reader!Init
     /\ GroupingIdle /\ UploadIdle /\ OutcomesIdle /\ errors = Unused /\ pc = Unused
  \/ /\ part = "grouping" /\ Grouping!Init
     /\ ReaderIdle /\ UploadIdle /\ OutcomesIdle
  \/ /\ part = "upload" /\ Upload!Init
     /\ ReaderIdle /\ GroupingIdle /\ OutcomesIdle /\ rows = Unused
  \/ /\ part = "outcomes" /\ Outcomes!Init
     /\ ReaderIdle /\ GroupingIdle /\ UploadIdle /\ errors = Unused

reader == <<entity, open, starts, children, entities, active, depth, ordinal, yielded, outcome>>
grouping == <<kind, file, next, globals, waiting, folded, groups, order>>
upload == <<route, chunkSize, chunk, saved, uuids, good, bad>>
outcomes == <<categories, limit, result, second, raised>>

ReaderStep ==
  part = "reader" /\ Reader!Next /\ UNCHANGED <<part, grouping, upload, outcomes, errors, pc>>
GroupingStep ==
  part = "grouping" /\ Grouping!Next /\ UNCHANGED <<part, reader, upload, outcomes>>
UploadStep ==
  part = "upload" /\ Upload!Next /\ UNCHANGED <<part, reader, grouping, outcomes, rows>>
OutcomesStep ==
  part = "outcomes" /\ Outcomes!Next /\ UNCHANGED <<part, reader, grouping, upload, errors>>

Next == ReaderStep \/ GroupingStep \/ UploadStep \/ OutcomesStep
Spec == Init /\ [][Next]_<<part, reader, grouping, upload, outcomes, rows, errors, pc>>

---------------------------------------------------------------------------

\* The type invariants of the parts that have one (formats/catalog.py, bulk.py).
TypeOK ==
  /\ part \in {"reader", "grouping", "upload", "outcomes"}
  /\ part = "grouping" => Grouping!TypeOK
  /\ part = "upload" => Upload!TypeOK

\* The rows of the entity asked for arrive whole, in order and numbered from
\* 1, none with a nested value, and a file of one entity needs no choice
\* (_read_xml_rows).
ReadWhole ==
  part = "reader" => Reader!SelectedRows /\ Reader!NothingDropped /\ Reader!OneEntityNeedsNoChoice

\* Every line is in a row or in an error, a store view's line counts wherever
\* it stands, and a price or attribute row has all of its lines
\* (products_from_rows and the other functions of formats/catalog.py).
LinesReachRows ==
  part = "grouping" => Grouping!NoLineLost /\ Grouping!OverridesFromAnywhere /\ Grouping!RowsWhole

\* A caller that sends the rows the errors name again loses none and counts
\* every row once (upload_rows and upload_rows_async).
UploadAccountsForRows == part = "upload" => Upload!EachRowCounted /\ Upload!UnnamedSaved

\* The counts of an import are what became of its rows, and its errors name
\* the failed ones, also after the second try of categories (_complete,
\* _fold_by_row, _merge_retry).
CountsAreFates == part = "outcomes" => Outcomes!CountsAreFates /\ Outcomes!ErrorsNameFailed

\* Rows that share a reference hide no failure, and rows the second try
\* repairs raise nothing.
NoFailureHidden == part = "outcomes" => Outcomes!NoFailureHidden /\ Outcomes!RepairedNeverRaises
=============================================================================
