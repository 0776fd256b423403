---------------------------- MODULE ListChunks ----------------------------
(***************************************************************************)
(* executor._chunk_list_operations: how the operations of one list         *)
(* endpoint are cut into requests.  A run of operations that share a chunk *)
(* key is a unit and never split: a tier-price request in replace mode     *)
(* overwrites the tiers of every SKU it names with what it carries.        *)
(*                                                                         *)
(* Operations are their positions in the input, from 1.  A request is the  *)
(* set of positions that chunkOf maps to its number: the loop appends to   *)
(* the request it builds and never goes back, so position order is the     *)
(* order inside a request.                                                 *)
(***************************************************************************)
EXTENDS Integers, Sequences, FiniteSets

CONSTANTS
  Key,     \* chunk keys
  NoKey,   \* chunk_key is None
  MaxOps   \* bound: operations and chunk sizes considered

BoundAssumption == MaxOps \in Nat /\ NoKey \notin Key

VARIABLES
  keys,         \* input: the chunk key of each operation
  size,         \* input: the chunk size
  pc,           \* loop, unit (the inner loop) or done
  i,            \* the first operation not in a chunk
  j,            \* the end of the unit that starts at i, exclusive
  current,      \* current_size
  closed,       \* chunks appended to the result
  chunkOf       \* number of the chunk an operation is in, 0 for none yet

input == <<keys, size>>
vars == <<input, pc, i, j, current, closed, chunkOf>>

n == Len(keys)

TypeOK ==
  /\ keys \in Seq(Key \cup {NoKey})
  /\ n <= MaxOps
  /\ size \in 1..MaxOps
  /\ pc \in {"loop", "unit", "done"}
  /\ i \in 1..(n + 1)
  /\ j \in 1..(n + 1)
  /\ current \in 0..n
  /\ closed \in 0..n
  /\ chunkOf \in [1..n -> 0..n]

Init ==
  /\ \E m \in 0..MaxOps : keys \in [1..m -> Key \cup {NoKey}]
  /\ size \in 1..MaxOps
  /\ pc = "loop"
  /\ i = 1
  /\ j = 1
  /\ current = 0
  /\ closed = 0
  /\ chunkOf = [p \in 1..n |-> 0]

---------------------------------------------------------------------------

\* The next operation starts a unit.
OpenUnit ==
  /\ pc = "loop"
  /\ i <= n
  /\ j' = i + 1
  /\ pc' = "unit"
  /\ UNCHANGED <<input, i, current, closed, chunkOf>>

\* Mutant of InUnit: chunk_key is ignored.
UnitOfOne == FALSE

InUnit == j <= n /\ keys[i] # NoKey /\ keys[j] = keys[i]


\* The inner loop: the operation at j has the same key.
GrowUnit ==
  /\ pc = "unit"
  /\ InUnit
  /\ j' = j + 1
  /\ UNCHANGED <<input, pc, i, current, closed, chunkOf>>

\* The unit goes into chunk c, which then holds filled operations.
Place(c, filled) ==
  /\ chunkOf' = [p \in 1..n |-> IF p \in i..(j - 1) THEN c ELSE chunkOf[p]]
  /\ closed' = c - 1
  /\ current' = filled
  /\ i' = j
  /\ pc' = "loop"
  /\ UNCHANGED <<input, j>>

\* Mutant of Overflows: a first unit longer than size closes an empty chunk.
OverflowsEmpty == current + (j - i) > size

Overflows == current > 0 /\ current + (j - i) > size

\* Mutant of PlaceUnit: current_size is not reset with the chunk.
PlaceUnitKeepsSize ==
  /\ pc = "unit"
  /\ ~InUnit
  /\ Place(IF Overflows THEN closed + 2 ELSE closed + 1, current + (j - i))

\* The unit is complete: it opens a chunk if it would overflow this one.
PlaceUnit ==
  /\ pc = "unit"
  /\ ~InUnit
  /\ IF Overflows THEN Place(closed + 2, j - i)
     ELSE Place(closed + 1, current + (j - i))

\* The last chunk.
Finish ==
  /\ pc = "loop"
  /\ i > n
  /\ closed' = IF current > 0 THEN closed + 1 ELSE closed
  /\ pc' = "done"
  /\ UNCHANGED <<input, i, j, current, chunkOf>>

Next == OpenUnit \/ GrowUnit \/ PlaceUnit \/ Finish

Spec == Init /\ [][Next]_vars

---------------------------------------------------------------------------
(* Properties. *)

\* Operations p and q, and those between them, are parts of one unit.
SameUnit(p, q) == keys[p] # NoKey /\ \A k \in p..q : keys[k] = keys[p]

\* Every operation is sent in exactly one request, no request is empty, and
\* requests follow the order of the operations.
Partition ==
  pc = "done" =>
    /\ \A p \in 1..n : chunkOf[p] \in 1..closed
    /\ \A c \in 1..closed : \E p \in 1..n : chunkOf[p] = c
    /\ \A p, q \in 1..n : p < q => chunkOf[p] <= chunkOf[q]

\* A unit is never split: its operations go into one request.
UnitsTogether ==
  pc = "done" =>
    \A p, q \in 1..n : p < q /\ SameUnit(p, q) => chunkOf[p] = chunkOf[q]

\* A request holds more than size operations only if they are one unit.
SizeRespected ==
  pc = "done" =>
    \A p, q \in 1..n :
      p <= q /\ chunkOf[p] = chunkOf[q] => q - p < size \/ SameUnit(p, q)

\* A request is closed only when the unit that follows did not fit: between
\* the first operation of a request and the last of the next unit lie more
\* than size.
NoShortRequest ==
  pc = "done" =>
    \A p, q, r \in 1..n :
      /\ p <= q /\ q < r
      /\ chunkOf[r] = chunkOf[p] + 1 /\ chunkOf[q + 1] = chunkOf[r]
      /\ p = 1 \/ chunkOf[p - 1] < chunkOf[p]
      /\ q + 1 = r \/ SameUnit(q + 1, r)
      /\ r = n \/ ~SameUnit(q + 1, r + 1)
      => r - p >= size

\* A request is as full as its units allow (_chunk_list_operations).
RequestsFit == SizeRespected /\ NoShortRequest

---------------------------------------------------------------------------
(* The inductive invariant behind the properties. *)

\* Where the loop stands: i begins a unit, j is inside it.
PositionInv ==
  /\ pc = "unit" => /\ i < j /\ i <= n
                    /\ \A k \in i..(j - 1) : keys[k] = keys[i]
                    /\ j - i > 1 => keys[i] # NoKey
  /\ i > 1 /\ i <= n => keys[i - 1] = NoKey \/ keys[i] # keys[i - 1]
  /\ pc = "done" => i = n + 1

\* Open is the number of the chunk being built.
Open == IF pc = "done" /\ current > 0 THEN closed ELSE closed + 1

\* The operations before i are in chunks 1..Open, the last current of them in
\* the open one, the others not.
ChunkInv ==
  /\ current < i
  /\ closed < i
  /\ current = 0 <=> i = 1
  /\ i = 1 => closed = 0
  /\ \A p \in 1..n : chunkOf[p] = 0 <=> p >= i
  /\ \A p \in 1..n : p < i => chunkOf[p] <= Open /\ chunkOf[p] <= p
  /\ \A p \in 1..n : p < i => (chunkOf[p] = Open <=> p >= i - current)
  /\ \A p, q \in 1..n : p < q /\ q < i => chunkOf[p] <= chunkOf[q]
  /\ \A c \in 1..n : c < Open \/ (c = Open /\ current > 0) =>
       \E p \in 1..n : p < i /\ chunkOf[p] = c

UnitInv ==
  \A p, q \in 1..n : p < q /\ q < i /\ SameUnit(p, q) => chunkOf[p] = chunkOf[q]

SizeInv ==
  \A p, q \in 1..n :
    p <= q /\ q < i /\ chunkOf[p] = chunkOf[q] => q - p < size \/ SameUnit(p, q)

EndsUnit(r) == r = n \/ keys[r] = NoKey \/ keys[r + 1] # keys[r]

\* p begins a chunk: at the end of any unit of the next chunk, size operations
\* have passed.
FullInv ==
  \A p, r \in 1..n :
    /\ p < r /\ r < i
    /\ chunkOf[r] = chunkOf[p] + 1
    /\ p = 1 \/ chunkOf[p - 1] < chunkOf[p]
    /\ EndsUnit(r)
    => r - p >= size

IInv == TypeOK /\ PositionInv /\ ChunkInv /\ UnitInv /\ SizeInv /\ FullInv

=============================================================================
