-------------------------- MODULE ExecutionOrder --------------------------
(***************************************************************************)
(* The order in which the saves of an import leave the library: how        *)
(* plan_products turns rows into operations, and how the executor groups,  *)
(* sorts and cuts them in bulk mode and walks them in sync mode.           *)
(*                                                                         *)
(* Operations are their positions in the plan.  Rows that fail in the      *)
(* writer or are skipped give no operation and are left out, and the one   *)
(* operation of a disable is that of an existing simple row without store  *)
(* values.  The options and children of configurables go to a second       *)
(* execute() and are left out, like the list requests of other importers   *)
(* (ListChunks).  What becomes of a chunk is modelled by BulkExecutor,     *)
(* whose ScheduleAssumption is what this module checks.                    *)
(***************************************************************************)
EXTENDS Integers, Sequences, FiniteSets, SequencesExt

CONSTANTS
  Store,     \* store view codes
  Default,   \* store_code is None
  MaxRows,   \* bound: rows of an import
  MaxSize    \* bound: chunk sizes considered

ASSUME BoundAssumption == MaxRows \in Nat /\ MaxSize \in Nat

ASSUME StoreAssumption == IsFiniteSet(Store) /\ Default \notin Store

VARIABLES
  mode,      \* input: sync or bulk
  size,      \* input: chunk_size
  pc,        \* plan, group, send or done
  operations,
  grouped,   \* operations put into a group so far
  groups,    \* the groups dict: its items in insertion order
  requests   \* what was sent: the chunks, or single operations, in order

vars == <<mode, size, pc, operations, grouped, groups, requests>>

\* existing: the snapshot has the SKU; composite: a grouped parent with links
\* or a bundle with selections; stores: the codes of store_values, in order.
Row == [existing: BOOLEAN, composite: BOOLEAN, stores: SetToAllKPermutations(Store)]

Init ==
  /\ mode \in {"sync", "bulk"}
  /\ size \in 1..MaxSize
  /\ pc = "plan"
  /\ operations = <<>>
  /\ grouped = 0
  /\ groups = <<>>
  /\ requests = <<>>

---------------------------------------------------------------------------
(* plan_products *)

SavePhase(row) == IF row.composite THEN 1 ELSE 0

\* row is the number of its row: each row has one main operation.
MainOperation(r, row) ==
  [row |-> r, main |-> TRUE, method |-> IF row.existing THEN "PUT" ELSE "POST",
   store |-> Default, phase |-> SavePhase(row)]

StoreValueOperations(r, row) ==
  [v \in DOMAIN row.stores |->
     [row |-> r, main |-> FALSE, method |-> "PUT",
      store |-> row.stores[v], phase |-> SavePhase(row)]]

RowsPlanned == Cardinality({operations[o].row : o \in DOMAIN operations})

\* The next row of the input, whatever it is.
PlanRow ==
  /\ pc = "plan"
  /\ RowsPlanned < MaxRows
  /\ \E row \in Row :
       LET r == RowsPlanned + 1
       IN operations' = operations \o <<MainOperation(r, row)>>
                                   \o StoreValueOperations(r, row)
  /\ UNCHANGED <<mode, size, pc, grouped, groups, requests>>

Execute ==
  /\ pc = "plan"
  /\ pc' = IF mode = "bulk" THEN "group" ELSE "send"
  /\ UNCHANGED <<mode, size, operations, grouped, groups, requests>>

---------------------------------------------------------------------------
(* _execute_bulk *)

\* Mutant of KeyOf: the store is not part of the key.
KeyNoStore(o) ==
  [phase |-> operations[o].phase, method |-> operations[o].method, store |-> Default]

\* The method decides the bulk endpoint: products or products/bySku.
KeyOf(o) ==
  [phase |-> operations[o].phase, method |-> operations[o].method,
   store |-> operations[o].store]

\* Mutant of Group: the operation goes before those of its group.
GroupFirst ==
  /\ pc = "group"
  /\ grouped < Len(operations)
  /\ LET o == grouped + 1
         known == {g \in DOMAIN groups : groups[g].key = KeyOf(o)}
     IN groups' = IF known = {} THEN Append(groups, [key |-> KeyOf(o), ops |-> <<o>>])
                  ELSE [g \in DOMAIN groups |->
                          IF g \in known THEN [groups[g] EXCEPT !.ops = <<o>> \o @]
                          ELSE groups[g]]
  /\ grouped' = grouped + 1
  /\ UNCHANGED <<mode, size, pc, operations, requests>>

\* groups.setdefault(key, []).append(op)
Group ==
  /\ pc = "group"
  /\ grouped < Len(operations)
  /\ LET o == grouped + 1
         known == {g \in DOMAIN groups : groups[g].key = KeyOf(o)}
     IN groups' = IF known = {} THEN Append(groups, [key |-> KeyOf(o), ops |-> <<o>>])
                  ELSE [g \in DOMAIN groups |->
                          IF g \in known THEN [groups[g] EXCEPT !.ops = Append(@, o)]
                          ELSE groups[g]]
  /\ grouped' = grouped + 1
  /\ UNCHANGED <<mode, size, pc, operations, requests>>

\* sorted(...) by phase is stable: groups of one phase keep their order.
SortedBefore(h, g) ==
  \/ groups[h].key.phase < groups[g].key.phase
  \/ groups[h].key.phase = groups[g].key.phase /\ h < g

SortedPlace(g) == Cardinality({h \in DOMAIN groups : SortedBefore(h, g)}) + 1

Sort ==
  /\ pc = "group"
  /\ grouped = Len(operations)
  /\ groups' = [k \in DOMAIN groups |->
                  groups[CHOOSE g \in DOMAIN groups : SortedPlace(g) = k]]
  /\ pc' = "send"
  /\ UNCHANGED <<mode, size, operations, grouped, requests>>

\* chunk_rows: what the first chunk leaves of the operations.
Rest(ops) == SubSeq(ops, size + 1, Len(ops))

\* The next chunk of the first group that has one.
SendChunk ==
  /\ pc = "send"
  /\ mode = "bulk"
  /\ groups # <<>>
  /\ LET ops == groups[1].ops
         full == Len(ops) > size
     IN /\ requests' = Append(requests, IF full THEN SubSeq(ops, 1, size) ELSE ops)
        /\ groups' = IF full THEN [groups EXCEPT ![1].ops = Rest(ops)] ELSE Tail(groups)
  /\ UNCHANGED <<mode, size, pc, operations, grouped>>

---------------------------------------------------------------------------
(* _execute_sync *)

Sent == UNION {ToSet(requests[q]) : q \in DOMAIN requests}

Unsent == DOMAIN operations \ Sent

\* Phases ascend and each keeps the plan's order.
FirstUnsent ==
  CHOOSE o \in Unsent :
    \A p \in Unsent :
      \/ operations[o].phase < operations[p].phase
      \/ operations[o].phase = operations[p].phase /\ o <= p

SendSingle ==
  /\ pc = "send"
  /\ mode = "sync"
  /\ Unsent # {}
  /\ requests' = Append(requests, <<FirstUnsent>>)
  /\ UNCHANGED <<mode, size, pc, operations, grouped, groups>>

Return ==
  /\ pc = "send"
  /\ IF mode = "bulk" THEN groups = <<>> ELSE Unsent = {}
  /\ pc' = "done"
  /\ UNCHANGED <<mode, size, operations, grouped, groups, requests>>

Next == PlanRow \/ Execute \/ Group \/ Sort \/ SendChunk \/ SendSingle \/ Return

Spec == Init /\ [][Next]_vars

---------------------------------------------------------------------------
(* Properties. *)

Operation == [row: 1..MaxRows, main: BOOLEAN, method: {"PUT", "POST"},
              store: Store \cup {Default}, phase: 0..1]

Key == [phase: 0..1, method: {"PUT", "POST"}, store: Store \cup {Default}]

TypeOK ==
  /\ mode \in {"sync", "bulk"}
  /\ size \in 1..MaxSize
  /\ pc \in {"plan", "group", "send", "done"}
  /\ operations \in Seq(Operation)
  /\ grouped \in 0..Len(operations)
  /\ groups \in Seq([key: Key, ops: Seq(DOMAIN operations)])
  /\ requests \in Seq(Seq(DOMAIN operations))

\* What BulkExecutor assumes of its schedule: no request is empty or larger
\* than a chunk may be, no operation is sent twice, and in the end each was
\* sent (executor.py 345-362).
EachSentOnce ==
  /\ \A q \in DOMAIN requests :
       requests[q] # <<>> /\ Len(requests[q]) <= size /\ IsInjective(requests[q])
  /\ \A q, s \in DOMAIN requests :
       q # s => ToSet(requests[q]) \cap ToSet(requests[s]) = {}
  /\ pc = "done" => Sent = DOMAIN operations

\* Also assumed by BulkExecutor: phases ascend over the requests, so that no
\* composite parent is sent before a child, in either mode.
PhasesAscend ==
  \A q, s \in DOMAIN requests :
    q <= s => \A o \in ToSet(requests[q]), p \in ToSet(requests[s]) :
                operations[o].phase <= operations[p].phase

\* The method, endpoint and store of a chunk are those of each of its
\* operations: a value for one store view is never written to another.
OneTarget ==
  \A q \in DOMAIN requests :
    \A o, p \in ToSet(requests[q]) :
      /\ operations[o].method = operations[p].method
      /\ operations[o].store = operations[p].store

\* What an executor is given of a plan: all of it, by phase and target
\* (_execute_sync, _execute_bulk).
SentAsPlanned == EachSentOnce /\ PhasesAscend /\ OneTarget

\* Two saves that go to the same place leave in plan order: of two rows with
\* one SKU the later is submitted later.
KeepsPlanOrder ==
  \A q, s \in DOMAIN requests :
    \A i \in DOMAIN requests[q], j \in DOMAIN requests[s] :
      LET o == requests[q][i]
          p == requests[s][j]
      IN KeyOf(o) = KeyOf(p) /\ o < p => q < s \/ (q = s /\ i < j)

\* A row's store values leave after its main save: always in sync mode, and in
\* bulk mode when the rows of its phase are all new or all existing.  A mixed
\* import breaks it (CreatedBeforeStoreValues below).
StoreValuesFollow ==
  \A q, s \in DOMAIN requests :
    q <= s => \A v \in ToSet(requests[q]), m \in ToSet(requests[s]) :
                /\ operations[m].row = operations[v].row
                /\ operations[m].main /\ ~operations[v].main
                => /\ mode = "bulk"
                   /\ \E o \in DOMAIN operations :
                        /\ operations[o].main
                        /\ operations[o].phase = operations[m].phase
                        /\ operations[o].method # operations[m].method

\* The order of what may not overtake: two saves of one place, a row's main
\* save and its store values (sorted at executor.py:356 is stable).
OrderKept == KeepsPlanOrder /\ StoreValuesFollow

\* No store value of a new product leaves before the save that creates it.
\* executor.py 354: "sorted is stable, so same-phase groups keep the writer's
\* order (mains before follow-ups)"; products.py 242: a store-scoped update
\* "needs the product to exist just the same".
CreatedBeforeStoreValues ==
  \A q, s \in DOMAIN requests :
    q < s => \A v \in ToSet(requests[q]), m \in ToSet(requests[s]) :
               ~(/\ operations[m].row = operations[v].row
                 /\ operations[m].main /\ ~operations[v].main
                 /\ operations[m].method = "POST")

---------------------------------------------------------------------------
(* The inductive invariant behind SentAsPlanned and OrderKept. *)

\* Rows are planned in order, each with one phase, its main operation ahead of
\* those of its store values.
PlanInv ==
  /\ \E k \in 0..MaxRows : {operations[o].row : o \in DOMAIN operations} = 1..k
  /\ \A o \in DOMAIN operations :
       operations[o].store = Default <=> operations[o].main
  /\ \A o \in DOMAIN operations :
       \E m \in DOMAIN operations :
         operations[m].main /\ operations[m].row = operations[o].row
  /\ \A o, p \in DOMAIN operations :
       operations[o].row = operations[p].row =>
         /\ operations[o].phase = operations[p].phase
         /\ operations[o].main /\ ~operations[p].main => o < p

Ascending(ops) == \A i, j \in DOMAIN ops : i < j => ops[i] < ops[j]

\* A list of operations that one request may carry.
OneGroup(ops) ==
  /\ ops # <<>>
  /\ Ascending(ops)
  /\ \A i, j \in DOMAIN ops : KeyOf(ops[i]) = KeyOf(ops[j])

\* The key of o occurs in the plan before the key of p.
Leads(o, p) ==
  \E e \in DOMAIN operations :
    /\ KeyOf(e) = KeyOf(o)
    /\ \A f \in DOMAIN operations : KeyOf(f) = KeyOf(p) => e < f

\* The order _execute_bulk sends in: by phase, then by the first operation of
\* the group, then by plan.  _execute_sync has no groups.
Before(o, p) ==
  \/ operations[o].phase < operations[p].phase
  \/ /\ operations[o].phase = operations[p].phase
     /\ IF mode = "sync" \/ KeyOf(o) = KeyOf(p) THEN o < p ELSE Leads(o, p)

AllBefore(ops, others) == \A i \in DOMAIN ops, j \in DOMAIN others : Before(ops[i], others[j])

\* The groups dict: one group to a key, in the order their keys first occur
\* until they are sorted.
GroupInv ==
  /\ pc = "plan" => grouped = 0
  /\ pc = "plan" \/ mode = "sync" => groups = <<>>
  /\ pc = "group" => mode = "bulk"
  /\ \A g \in DOMAIN groups :
       /\ OneGroup(groups[g].ops)
       /\ \A i \in DOMAIN groups[g].ops : KeyOf(groups[g].ops[i]) = groups[g].key
  /\ \A g, h \in DOMAIN groups : g # h => groups[g].key # groups[h].key
  /\ pc = "group" =>
       /\ \A g \in DOMAIN groups : \A i \in DOMAIN groups[g].ops : groups[g].ops[i] <= grouped
       /\ \A o \in 1..grouped : \E g \in DOMAIN groups : o \in ToSet(groups[g].ops)
       /\ \A g, h \in DOMAIN groups : g < h => groups[g].ops[1] < groups[h].ops[1]

\* What was sent is in order, and ahead of what is left.
SendInv ==
  /\ pc \in {"plan", "group"} => requests = <<>>
  /\ \A q \in DOMAIN requests : OneGroup(requests[q]) /\ Len(requests[q]) <= size
  /\ \A q, s \in DOMAIN requests : q < s => AllBefore(requests[q], requests[s])
  /\ mode = "sync" => \A o \in Sent, p \in Unsent : Before(o, p)
  /\ mode = "bulk" /\ pc \in {"send", "done"} =>
       /\ \A g, h \in DOMAIN groups : g < h => AllBefore(groups[g].ops, groups[h].ops)
       /\ \A q \in DOMAIN requests, g \in DOMAIN groups :
            AllBefore(requests[q], groups[g].ops)
       /\ \A o \in Unsent : \E g \in DOMAIN groups : o \in ToSet(groups[g].ops)
  /\ pc = "done" => Unsent = {}

IInv == TypeOK /\ PlanInv /\ GroupInv /\ SendInv

=============================================================================
