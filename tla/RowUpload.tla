----------------------------- MODULE RowUpload -----------------------------
(***************************************************************************)
(* upload_rows and upload_rows_async: rows go out in chunks, one request   *)
(* each, and the result names the rows that failed.  A request may save    *)
(* its rows and still answer with an error; the async route queues each    *)
(* item on its own and may answer with an error that carries the bulk.     *)
(***************************************************************************)
EXTENDS Integers, Sequences, FiniteSets, FiniteSetsExt, Functions

CONSTANTS
  N,        \* rows 1..N
  MaxChunk  \* bound: chunk sizes to call with

\* Of the constants; an ASSUME of the module that instantiates this one.
UploadAssumption == N \in Nat /\ MaxChunk \in Nat \ {0}

Row == 1 .. N

VARIABLES
  route,      \* input: one row per request, wrapped chunks, or async
  chunkSize,  \* input
  chunk,      \* the index of the next chunk, from 0
  saved,      \* Magento: per row, how often it was saved or queued
  uuids,      \* how many bulk uuids the caller gets
  good, bad,  \* succeeded and failed, or accepted and rejected
  errors,     \* [chunk, rows]
  pc

vars == <<route, chunkSize, chunk, saved, uuids, good, bad, errors, pc>>

---------------------------------------------------------------------------

\* chunk_rows; without a wrap key each row is a chunk.
Size == IF route = "rows" THEN 1 ELSE chunkSize
Chunk(c) == (c * Size + 1) .. Min({(c + 1) * Size, N})
More == chunk * Size < N

Init ==
  /\ route \in {"rows", "wrapped", "async"} /\ chunkSize \in 1 .. MaxChunk
  /\ chunk = 0 /\ saved = [r \in Row |-> 0] /\ uuids = 0
  /\ good = 0 /\ bad = 0 /\ errors = <<>> /\ pc = "send"

InHand == Chunk(chunk)
First == chunk * Size + 1
Saves(rows) == saved' = [r \in Row |-> saved[r] + (IF r \in rows THEN 1 ELSE 0)]
Sending == pc = "send" /\ More /\ chunk' = chunk + 1

Answered ==
  /\ Sending /\ route # "async"
  /\ Saves(InHand) /\ good' = good + Cardinality(InHand)
  /\ UNCHANGED <<route, chunkSize, uuids, bad, errors, pc>>

Failure(rows) == [chunk |-> chunk, rows |-> rows]

\* An HTTP error counts the whole chunk, and the next one is sent.
HttpError ==
  /\ Sending
  /\ \E rows \in IF route = "async" THEN SUBSET InHand ELSE {{}, InHand} : Saves(rows)
  /\ bad' = bad + Cardinality(InHand)
  /\ errors' = Append(errors, Failure([i \in 1 .. Cardinality(InHand) |-> First + i - 1]))
  /\ UNCHANGED <<route, chunkSize, uuids, good, pc>>

\* Any other error loses the result of the chunks before.
Broken ==
  /\ Sending /\ pc' = "aborted"
  /\ \E rows \in SUBSET InHand : Saves(rows)
  /\ UNCHANGED <<route, chunkSize, uuids, good, bad, errors>>

\* Mutant of RowOf: the position in the answer is the row's.
RowOfPosition(items, i) == First + i - 1

\* An item of the answer names its row by its id, whatever the order.
RowOf(items, i) == First + items[i]

Orders(n) == {s \in [1 .. n -> 0 .. (n - 1)] : IsInjective(s)}

\* The k-th number of S.
Nth(S, k) == CHOOSE i \in S : Cardinality({j \in S : j <= i}) = k

Queued ==
  /\ Sending /\ route = "async"
  /\ \E rows \in SUBSET InHand, items \in Orders(Cardinality(InHand)) :
       LET rejected == {i \in DOMAIN items : First + items[i] \notin rows}
       IN /\ Saves(rows)
          /\ good' = good + Cardinality(rows) /\ bad' = bad + Cardinality(rejected)
          /\ errors' = errors \o [k \in 1 .. Cardinality(rejected) |->
               Failure(<<RowOf(items, Nth(rejected, k))>>)]
  /\ uuids' = uuids + 1
  /\ UNCHANGED <<route, chunkSize, pc>>

Return ==
  /\ pc = "send" /\ ~More /\ pc' = "done"
  /\ UNCHANGED <<route, chunkSize, chunk, saved, uuids, good, bad, errors>>

Next == Answered \/ HttpError \/ Broken \/ Queued \/ Return
Spec == Init /\ [][Next]_vars

---------------------------------------------------------------------------

\* The places of rows in the errors, and the rows they name.
Places == UNION {{<<e, k>> : k \in DOMAIN errors[e].rows} : e \in DOMAIN errors}
RowAt(place) == errors[place[1]].rows[place[2]]
Named == {RowAt(place) : place \in Places}

TypeOK ==
  /\ route \in {"rows", "wrapped", "async"} /\ chunkSize \in Nat \ {0}
  /\ chunk \in Nat /\ uuids \in Nat /\ good \in Nat /\ bad \in Nat
  /\ saved \in [Row -> Nat]
  /\ errors \in Seq([chunk : Nat, rows : Seq(Row)])
  /\ pc \in {"send", "done", "aborted"} /\ uuids <= chunk

\* Every row is counted exactly once, and the rows that count as bad are those
\* the errors name, each once, with the index of the chunk that had them.
EachRowCounted ==
  /\ pc = "done" => good + bad = N
  /\ Cardinality(Places) = bad /\ Cardinality(Named) = bad
  /\ \A e \in DOMAIN errors : Range(errors[e].rows) \subseteq Chunk(errors[e].chunk)

\* A row that no error names was saved or queued once: a caller that sends the
\* named rows again loses none.
UnnamedSaved == pc = "done" => \A r \in Row \ Named : saved[r] = 1

\* docs/MagentoResource.md:146-147: rejected are the rows of chunks that failed to
\* submit and the items marked rejected, the others are queued.
RejectedNotQueued == \A r \in Named : route = "async" => saved[r] = 0

---------------------------------------------------------------------------
(* The inductive invariant. *)

\* The last row of the chunks that were sent.
Past == Min({chunk * Size, N})

\* No row is named twice, and none before its chunk was sent.
NamedInv ==
  /\ \A p, q \in Places : RowAt(p) = RowAt(q) => p = q
  /\ IsFiniteSet(Named) /\ Cardinality(Named) = bad
  /\ Named \subseteq 1 .. Past
  /\ \A e \in DOMAIN errors : Range(errors[e].rows) \subseteq Chunk(errors[e].chunk)

\* Up to there every row is counted and, when it is not named, saved.
SavedInv ==
  pc # "aborted" =>
    /\ good + bad = Past
    /\ \A r \in Row : saved[r] = 0 \/ r <= Past
    /\ \A r \in (1 .. Past) \ Named : saved[r] = 1

IInv == TypeOK /\ NamedInv /\ SavedInv /\ (pc = "done" => ~More)
=============================================================================
