--------------------------- MODULE ProductImport ---------------------------
(***************************************************************************)
(* import_products beside other clients of the store: the snapshot in one  *)
(* or several reads, the diff, the plan, the saves, the children of        *)
(* configurables, and one outcome per row.                                 *)
(*                                                                         *)
(* A product is its type, the fields that a row may name, its option and   *)
(* its children.  The fields stand for where a snapshot reads them: attr   *)
(* from the attribute endpoint of the bridge, ext only from REST, parts    *)
(* (bundle, grouped, downloadable parts, store values) from nowhere.       *)
(* Chunks and phases of the saves are ExecutionOrder's, what becomes of a  *)
(* bulk BulkExecutor's, the counts RowOutcomes'.                           *)
(***************************************************************************)
EXTENDS Integers, Sequences

CONSTANTS
  Sku, None, Value,
  Inputs,      \* the imports considered: [rows, behavior, diff, mode, bridge]
  Stores,      \* the stores they meet
  MaxForeign   \* bound: changes by other clients

Field == {"attr", "ext", "parts"}
Type == {"simple", "configurable"}

Behavior == {"upsert", "create_only", "update_only", "disable"}

\* named: the row sets its type, which is simple otherwise; bad: it shadows a
\* key of the writer, or names what the resolver does not know.
Row == [sku : Sku, type : Type, named : BOOLEAN, set : [Field -> Value \cup {None}],
        kids : SUBSET Sku, bad : BOOLEAN]
Product == [type : Type, set : [Field -> Value \cup {None}], option : BOOLEAN, kids : SUBSET Sku]
Seen == [type : Type, set : [Field -> Value \cup {None}]]

\* Of the constants; an ASSUME of the module that instantiates this one.
ProductAssumption ==
  /\ None \notin Value /\ None \notin Type /\ None \notin Product /\ None \notin Seen
  /\ Value # {} /\ MaxForeign \in Nat
  /\ Inputs \subseteq [rows : Seq({row \in Row : row.named \/ row.type = "simple"}), behavior : Behavior,
                       diff : BOOLEAN, mode : {"sync", "bulk"}, bridge : BOOLEAN]
  /\ Stores \subseteq [Sku -> Product \cup {None}]

VARIABLES
  input,     \* the import
  store,     \* Magento: a product or None for each SKU
  held,      \* history: what every field of every SKU was since the start
  foreign,   \* changes by others
  pc,
  snapshot,  \* what was read of each SKU, None for a new row
  ops,       \* the planned operations
  status,    \* of each: todo, ok, failed, pending, or dropped
  late,      \* operations that may still run although given up on
  attached   \* the children read of each parent, None when not read

vars == <<input, store, held, foreign, pc, snapshot, ops, status, late, attached>>

rows == input.rows
SkuOf(i) == rows[i].sku
Existing == {s \in Sku : snapshot[s] # None}
Exists(s) == store[s] # None

Holds(st) == {<<s, f, st[s].set[f]>> : s \in {t \in Sku : st[t] # None}, f \in Field}

Init ==
  /\ input \in Inputs
  /\ store \in Stores
  /\ held = Holds(store)
  /\ foreign = 0
  /\ pc = IF input.bridge THEN "index" ELSE "rest"
  /\ snapshot = [s \in Sku |-> None]
  /\ ops = {} /\ status = [o \in {} |-> "todo"] /\ late = {}
  /\ attached = [s \in Sku |-> None]

---------------------------------------------------------------------------
(* Other clients *)

\* One deletes a product, creates it as some store has it, or writes a field.
Foreign ==
  /\ pc # "done" /\ foreign < MaxForeign
  /\ foreign' = foreign + 1
  /\ \E s \in Sku :
       \/ Exists(s) /\ store' = [store EXCEPT ![s] = None]
       \/ ~Exists(s) /\ \E st \in Stores : store' = [store EXCEPT ![s] = st[s]]
       \/ Exists(s) /\ \E f \in Field, v \in Value : store' = [store EXCEPT ![s].set[f] = v]
  /\ held' = held \cup Holds(store')
  /\ UNCHANGED <<input, pc, snapshot, ops, status, late, attached>>

---------------------------------------------------------------------------
(* snapshot_products *)

Asked == {SkuOf(i) : i \in DOMAIN rows}
Read(s, fields) == [f \in Field |-> IF f \in fields /\ Exists(s) THEN store[s].set[f] ELSE None]

ReadIndex ==
  /\ pc = "index"
  /\ snapshot' = [s \in Sku |-> IF s \in Asked /\ Exists(s)
                                THEN [type |-> store[s].type, set |-> Read(s, {})] ELSE None]
  /\ pc' = "values"
  /\ UNCHANGED <<input, store, held, foreign, ops, status, late, attached>>

ReadValues ==
  /\ pc = "values"
  /\ snapshot' = [s \in Sku |-> IF s \in Existing THEN [snapshot[s] EXCEPT !.set = Read(s, {"attr"})]
                                ELSE None]
  /\ pc' = "extension"
  /\ UNCHANGED <<input, store, held, foreign, ops, status, late, attached>>

ReadExtension ==
  /\ pc = "extension"
  /\ snapshot' = [s \in Sku |-> IF s \in Existing
                                THEN [snapshot[s] EXCEPT !.set["ext"] = Read(s, {"ext"})["ext"]] ELSE None]
  /\ pc' = "plan"
  /\ UNCHANGED <<input, store, held, foreign, ops, status, late, attached>>

BridgeFails ==
  /\ pc \in {"index", "values", "extension"}
  /\ pc' = "rest"
  /\ UNCHANGED <<input, store, held, foreign, snapshot, ops, status, late, attached>>

ReadRest ==
  /\ pc = "rest"
  /\ snapshot' = [s \in Sku |-> IF s \in Asked /\ Exists(s)
                                THEN [type |-> store[s].type, set |-> Read(s, {"attr", "ext"})] ELSE None]
  /\ pc' = "plan"
  /\ UNCHANGED <<input, store, held, foreign, ops, status, late, attached>>

---------------------------------------------------------------------------
(* The diff *)

\* Mutant of Matches: what the snapshot does not cover is not compared.
MatchesCovered(row, snap) ==
  /\ ~row.bad
  /\ row.named => row.type = snap.type
  /\ \A f \in Field \ {"parts"} : row.set[f] # None /\ snap.set[f] # None => row.set[f] = snap.set[f]

\* product_matches_snapshot: a part no snapshot covers, a value that was not
\* read and every doubt mean changed.
Matches(row, snap) ==
  /\ row.kids = {} /\ row.set["parts"] = None
  /\ ~row.bad
  /\ row.named => row.type = snap.type
  /\ \A f \in Field : row.set[f] # None => row.set[f] = snap.set[f]

\* With disable only the status counts: attr stands for it, its disabled
\* value is a model value.
Disabled == CHOOSE v \in Value : TRUE
Unchanged(i) ==
  /\ input.diff /\ SkuOf(i) \in Existing
  /\ IF input.behavior = "disable" THEN snapshot[SkuOf(i)].set["attr"] = Disabled
     ELSE Matches(rows[i], snapshot[SkuOf(i)])

---------------------------------------------------------------------------
(* plan_products *)

Skips(i) ==
  \/ input.behavior = "create_only" /\ SkuOf(i) \in Existing
  \/ input.behavior = "update_only" /\ SkuOf(i) \notin Existing
PlanFails(i) ==
  \/ input.behavior = "disable" /\ SkuOf(i) \notin Existing
  \/ input.behavior # "disable" /\ rows[i].bad

Op(i, kind) == [row |-> i, sku |-> SkuOf(i), kind |-> kind, type |-> None,
                set |-> [f \in Field |-> None], child |-> None]

\* Mutants of Main: the defaults go with an update too; a creation leaves out
\* what the row does not name.
MainWithDefaults(i) ==
  [Op(i, IF SkuOf(i) \in Existing THEN "PUT" ELSE "POST")
     EXCEPT !.type = rows[i].type, !.set = rows[i].set]
MainNamedOnly(i) ==
  [Op(i, IF SkuOf(i) \in Existing THEN "PUT" ELSE "POST")
     EXCEPT !.type = IF rows[i].named THEN rows[i].type ELSE None, !.set = rows[i].set]

\* _main_operation with _product_body: the type goes with a creation, with
\* an update only when the row names it.
Main(i) ==
  LET existing == SkuOf(i) \in Existing
  IN [Op(i, IF existing THEN "PUT" ELSE "POST") EXCEPT
        !.type = IF existing /\ ~rows[i].named THEN None ELSE rows[i].type,
        !.set = rows[i].set]

Disable(i) == [Op(i, "PUT") EXCEPT !.set["attr"] = Disabled]

\* apply_type_parts of a configurable: its option, then a link per variation.
Link(i, c) == [Op(i, "child") EXCEPT !.child = c]
TypeParts(i) ==
  IF rows[i].type = "configurable" /\ rows[i].kids # {}
  THEN {Op(i, "option")} \cup {Link(i, c) : c \in rows[i].kids}
  ELSE {}

PlanRow(i) ==
  IF Unchanged(i) \/ Skips(i) \/ PlanFails(i) THEN {}
  ELSE IF input.behavior = "disable" THEN {Disable(i)}
  ELSE {Main(i)} \cup TypeParts(i)

Plan ==
  /\ pc = "plan"
  /\ ops' = UNION {PlanRow(i) : i \in DOMAIN rows}
  /\ status' = [o \in ops' |-> "todo"]
  /\ pc' = "saves"
  /\ UNCHANGED <<input, store, held, foreign, snapshot, late, attached>>

---------------------------------------------------------------------------
(* What Magento does with an operation *)

Merge(old, new) == [f \in Field |-> IF new[f] = None THEN old[f] ELSE new[f]]

Accepts(op) ==
  CASE op.kind = "POST" -> TRUE
    [] op.kind = "PUT" -> Exists(op.sku)
    [] op.kind = "option" -> Exists(op.sku) /\ store[op.sku].type = "configurable"
    [] op.kind = "child" -> /\ Exists(op.sku) /\ Exists(op.child)
                            /\ store[op.sku].type = "configurable" /\ store[op.sku].option
                            /\ op.child \notin store[op.sku].kids

\* A POST of a SKU that is there saves over it.
Saved(op) ==
  IF op.kind = "option" THEN [store[op.sku] EXCEPT !.option = TRUE]
  ELSE IF op.kind = "child" THEN [store[op.sku] EXCEPT !.kids = @ \cup {op.child}]
  ELSE IF Exists(op.sku)
  THEN [store[op.sku] EXCEPT !.type = IF op.type = None THEN @ ELSE op.type,
                             !.set = Merge(@, op.set)]
  ELSE [type |-> op.type, set |-> op.set, option |-> FALSE, kids |-> {}]

Apply(o) ==
  /\ Accepts(o)
  /\ store' = [store EXCEPT ![o.sku] = Saved(o)]
  /\ held' = held \cup Holds(store')

---------------------------------------------------------------------------
(* execute *)

Todo(kinds) == {o \in ops : status[o] = "todo" /\ o.kind \in kinds}
Saves == {"POST", "PUT"}
FollowUps == {"option", "child"}
\* In the order of the plan: by rows, and of a row the option before the links.
Before(o, p) == o.row < p.row \/ (o.row = p.row /\ (o.kind = p.kind \/ o.kind = "option"))

\* Sync takes the next one; in bulk the consumers take any of its group.
Turn(kinds) ==
  LET first == {o \in Todo(kinds) : \A p \in Todo(kinds) : Before(o, p)}
  IN IF input.mode = "sync" THEN first
     ELSE {o \in Todo(kinds) : \E p \in first : o.kind = p.kind}

Settle(o, verdict) == status' = [status EXCEPT ![o] = verdict]

\* It is saved, rejected, or saved behind a lost answer; a bulk operation may
\* also stay open until the wait is over, and run later or never.
Send ==
  /\ pc \in {"saves", "links"}
  /\ LET kinds == IF pc = "saves" THEN Saves ELSE FollowUps
     IN /\ Todo(kinds) # {}
        /\ \E o \in Turn(kinds) :
             \/ Apply(o) /\ (Settle(o, "ok") \/ Settle(o, "failed")) /\ UNCHANGED late
             \/ Settle(o, "failed") /\ UNCHANGED <<store, held, late>>
             \/ /\ input.mode = "bulk" /\ Settle(o, "pending")
                /\ late' = late \cup {o} /\ UNCHANGED <<store, held>>
  /\ UNCHANGED <<input, foreign, pc, snapshot, ops, attached>>

RunLate ==
  /\ \E o \in late : Apply(o) /\ late' = late \ {o}
  /\ UNCHANGED <<input, foreign, pc, snapshot, ops, status, attached>>

---------------------------------------------------------------------------
(* The children *)

Unsettled == {o.sku : o \in {p \in ops : status[p] \in {"failed", "pending"}}}

\* Mutant of ReadsChildren: a new parent's children are read, one that was
\* there is taken to have none.
ReadsChildrenOfNew(s) == s \notin Existing

ReadsChildren(s) == s \in Existing

\* _drop_attached_children: one GET per parent that was there before; an
\* error of it ends the import.
ReadChildren ==
  /\ pc = "saves" /\ Todo(Saves) = {}
  /\ LET follow == {o \in Todo(FollowUps) : o.sku \notin Unsettled}
         parents == {s \in {o.sku : o \in {p \in follow : p.kind = "child"}} :
                       ReadsChildren(s) /\ attached[s] = None}
     IN IF parents # {}
        THEN /\ \E s \in parents :
                  IF Exists(s) THEN attached' = [attached EXCEPT ![s] = store[s].kids] /\ UNCHANGED pc
                  ELSE pc' = "raised" /\ UNCHANGED attached
             /\ UNCHANGED status
        ELSE /\ status' = [o \in ops |->
                  IF o \in Todo(FollowUps) \ follow THEN "withheld"
                  ELSE IF o \in follow /\ attached[o.sku] # None /\ o.child \in attached[o.sku]
                  THEN "attached" ELSE status[o]]
             /\ pc' = "links"
             /\ UNCHANGED attached
  /\ UNCHANGED <<input, store, held, foreign, snapshot, ops, late>>

Return ==
  /\ pc = "links" /\ Todo(FollowUps) = {}
  /\ pc' = "done"
  /\ UNCHANGED <<input, store, held, foreign, snapshot, ops, status, late, attached>>

Next ==
  \/ ReadIndex \/ ReadValues \/ ReadExtension \/ BridgeFails \/ ReadRest
  \/ Plan \/ Send \/ ReadChildren \/ Return
  \/ RunLate \/ Foreign

Spec == Init /\ [][Next]_vars

---------------------------------------------------------------------------

OpsOf(s, verdicts) == {o \in ops : o.sku = s /\ status[o] \in verdicts}

\* _complete: all rows of a SKU share its operations.
Outcome(i) ==
  IF Unchanged(i) \/ Skips(i) THEN "skipped"
  ELSE IF PlanFails(i) \/ OpsOf(SkuOf(i), {"failed"}) # {} THEN "failed"
  ELSE IF OpsOf(SkuOf(i), {"pending"}) # {} THEN "pending"
  ELSE "succeeded"

Alone(i) == \A j \in DOMAIN rows : SkuOf(j) = SkuOf(i) => j = i
Quiet == foreign = 0

TypeOK ==
  /\ store \in [Sku -> Product \cup {None}]
  /\ pc \in {"index", "values", "extension", "rest", "plan", "saves", "links", "done", "raised"}
  /\ status \in [ops -> {"todo", "ok", "failed", "pending", "withheld", "attached"}]
  /\ late \subseteq ops

\* What a row that succeeded names is in the store when the import returns:
\* its type, its fields, and every child of a configurable, whether linked now
\* or before.
SucceededApplied ==
  pc = "done" /\ Quiet /\ input.behavior # "disable" =>
    \A i \in DOMAIN rows : Alone(i) /\ Outcome(i) = "succeeded" =>
      /\ Exists(SkuOf(i))
      /\ rows[i].named => store[SkuOf(i)].type = rows[i].type
      /\ \A f \in Field : rows[i].set[f] \in {None, store[SkuOf(i)].set[f]}
      /\ rows[i].type = "configurable" => rows[i].kids \subseteq store[SkuOf(i)].kids

\* No update is dropped: every field of a row skipped as unchanged had the
\* row's value at some moment of the import, though other clients write
\* between the reads of the snapshot and delete what the index listed.
SkipJustified ==
  pc \notin {"index", "values", "extension", "rest"} /\ input.behavior # "disable" =>
    \A i \in DOMAIN rows : Unchanged(i) =>
      /\ rows[i].kids = {}
      /\ \A f \in Field : rows[i].set[f] # None => <<SkuOf(i), f, rows[i].set[f]>> \in held

\* A save of this import never turns a product the snapshot saw into another
\* type unless a row says so, and never creates one under update_only and
\* disable nor touches one the snapshot saw under create_only.
SaveKeepsPromises ==
  foreign' = foreign => \A s \in Sku : store'[s] # store[s] =>
    /\ Exists(s) /\ s \in Existing /\ store'[s].type # store[s].type
         => \E i \in DOMAIN rows : SkuOf(i) = s /\ rows[i].named /\ rows[i].type = store'[s].type
    /\ input.behavior \in {"update_only", "disable"} => Exists(s)
    /\ input.behavior = "create_only" => s \notin Existing

\* A follow-up is sent only when its parent is there to take it, and a link
\* only when it is not there yet.
FollowUpFits ==
  pc = "links" /\ Quiet /\ foreign' = 0 =>
    \A o \in ops : status[o] = "todo" /\ status'[o] # "todo" /\ Alone(o.row) =>
      /\ Exists(o.sku) /\ store[o.sku].type = "configurable"
      /\ o.kind = "child" => o.child \notin store[o.sku].kids

\* docs/Catalog-Importers.md:72-74: every duplicate SKU row is written in
\* order, and the last one wins in Magento.
LastRowWins ==
  pc = "done" /\ Quiet /\ input.behavior = "upsert"
    /\ (\A i \in DOMAIN rows : Outcome(i) \in {"succeeded", "skipped"}) =>
    \A i \in DOMAIN rows, f \in Field :
      rows[i].set[f] # None /\ (\A j \in DOMAIN rows : j > i => SkuOf(j) # SkuOf(i))
        => store[SkuOf(i)].set[f] = rows[i].set[f]

\* docs/Catalog-Importers.md:322-324: child links run only after all main
\* saves, because parent and child must both exist.
LinkAfterChild ==
  \A o \in ops : o.kind = "child" /\ status[o] \in {"ok", "failed", "pending"} =>
    OpsOf(o.child, {"pending"}) = {}

\* models.py:89-92: a row naming a few columns must never reset an existing
\* configurable to a simple.
PartialKeepsType ==
  foreign' = foreign => \A s \in Sku :
    Exists(s) /\ store'[s] # None /\ store'[s].type # store[s].type
      => \E i \in DOMAIN rows : SkuOf(i) = s /\ rows[i].named /\ rows[i].type = store'[s].type
===========================================================================
