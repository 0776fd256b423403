------------------------- MODULE AttributeSetPasses -------------------------
(***************************************************************************)
(* import_attribute_sets: up to three passes that create the missing sets, *)
(* then their groups, then the assignments, each planned from what Magento *)
(* has by then, and the fold of the outcomes.                              *)
(*                                                                         *)
(* Names stand for ids: a set or a group that is deleted and created again *)
(* keeps its name.  The reads of one plan are one step.  All operations    *)
(* are single requests in the order of the plan.                           *)
(***************************************************************************)
EXTENDS Integers, Sequences, FiniteSets, Functions

CONSTANTS
  Inputs,       \* the imports: sequences of rows
  Shops,        \* what they meet
  MaxForeign    \* bound: changes by others

Row == [name : STRING, based : STRING, groups : Seq([name : STRING, codes : Seq(STRING)])]
Shop == [sets : SUBSET STRING, groups : SUBSET (STRING \X STRING),
         members : SUBSET (STRING \X STRING \X STRING)]

\* Of the constants; an ASSUME of the module that instantiates this one.
SetAssumption == MaxForeign \in Nat /\ Inputs \subseteq Seq(Row) /\ Shops \subseteq Shop

Passes == 3
Unread == <<>>

VARIABLES
  rows, foreign,
  shop,      \* Magento: sets, groups <<set, group>>, members <<set, group, code>>
  pc, pass,
  known,     \* the resolver's sets and groups, Unread when refreshed
  active,    \* rows that no failure dropped
  todo,      \* new_ops that are not sent yet, each with its place in the plan
  sent,      \* operations of this pass with their verdict
  done, touched, failed,
  stuck,     \* rows that still had something to do at the end
  log        \* history: <<pass, operation, verdict>> of every request

vars == <<rows, foreign, shop, pc, pass, known, active, todo, sent, done, touched, failed, stuck, log>>
quiet == <<rows, foreign, shop>>

Init ==
  /\ rows \in Inputs /\ foreign = 0 /\ shop \in Shops
  /\ pc = "plan" /\ pass = 1 /\ known = Unread
  /\ active = DOMAIN rows
  /\ todo = {} /\ sent = {} /\ done = {} /\ touched = {} /\ failed = {} /\ stuck = {} /\ log = {}

---------------------------------------------------------------------------
(* Magento *)

WithoutGroup(g) ==
  [shop EXCEPT !.groups = @ \ {g}, !.members = {m \in @ : <<m[1], m[2]>> # g}]

\* Another client creates a set, or creates or deletes a group.
Foreign ==
  /\ pc # "done" /\ foreign < MaxForeign
  /\ foreign' = foreign + 1
  /\ \E i \in DOMAIN rows :
       \/ shop' = [shop EXCEPT !.sets = @ \cup {rows[i].name}]
       \/ \E g \in Range(rows[i].groups) :
            LET group == <<rows[i].name, g.name>>
            IN IF group \in shop.groups THEN shop' = WithoutGroup(group)
               ELSE rows[i].name \in shop.sets /\ shop' = [shop EXCEPT !.groups = @ \cup {group}]
  /\ shop' # shop
  /\ UNCHANGED <<rows, pc, pass, known, active, todo, sent, done, touched, failed, stuck, log>>

Accepts(op) ==
  CASE op.kind = "set" -> op.set \notin shop.sets /\ op.skeleton \in shop.sets
    [] op.kind = "group" -> op.set \in shop.sets /\ <<op.set, op.group>> \notin shop.groups
    [] op.kind = "assign" -> <<op.set, op.group>> \in shop.groups

\* A set starts with the groups and attributes of its skeleton; an attribute
\* is in one group of a set.
Applied(op) ==
  CASE op.kind = "set" ->
         [sets |-> shop.sets \cup {op.set},
          groups |-> shop.groups \cup {<<op.set, g[2]>> : g \in {h \in shop.groups : h[1] = op.skeleton}},
          members |-> shop.members \cup
            {<<op.set, m[2], m[3]>> : m \in {n \in shop.members : n[1] = op.skeleton}}]
    [] op.kind = "group" -> [shop EXCEPT !.groups = @ \cup {<<op.set, op.group>>}]
    [] op.kind = "assign" ->
         [shop EXCEPT !.members = {m \in @ : m[1] # op.set \/ m[3] # op.code}
                                    \cup {<<op.set, op.group, op.code>>}]

---------------------------------------------------------------------------
(* plan_attribute_sets *)

\* row_refs of an operation is its set.
Op(i, kind) == [kind |-> kind, set |-> rows[i].name, skeleton |-> "", group |-> "", code |-> "", order |-> 0]
CreateSet(i) == [Op(i, "set") EXCEPT !.skeleton = rows[i].based]
CreateGroup(i, g) == [Op(i, "group") EXCEPT !.group = rows[i].groups[g].name]
Assign(i, g, c) == [Op(i, "assign") EXCEPT !.group = rows[i].groups[g].name,
                                           !.code = rows[i].groups[g].codes[c], !.order = c]

GroupOps(i, g, view) ==
  IF <<rows[i].name, rows[i].groups[g].name>> \notin view.groups
  THEN {<<<<i, g, 0>>, CreateGroup(i, g)>>}
  ELSE {<<<<i, g, c>>, Assign(i, g, c)>> : c \in DOMAIN rows[i].groups[g].codes}

RowOps(i, view) ==
  IF rows[i].name \in view.sets THEN UNION {GroupOps(i, g, view) : g \in DOMAIN rows[i].groups}
  ELSE IF rows[i].based \in view.sets THEN {<<<<i, 0, 0>>, CreateSet(i)>>} ELSE {}

UnknownBase(view) ==
  {rows[i].name : i \in {j \in active : rows[j].name \notin view.sets /\ rows[j].based \notin view.sets}}

View == IF known = Unread THEN [sets |-> shop.sets, groups |-> shop.groups] ELSE known

NewOps(view) == {o \in UNION {RowOps(i, view) : i \in active} : o[2] \notin done}

---------------------------------------------------------------------------
(* The passes *)

\* A pass without new operations ends the loop before it drops anything.
Plan ==
  /\ pc = "plan" /\ pass <= Passes
  /\ known' = View
  /\ todo' = NewOps(View)
  /\ failed' = failed \cup UnknownBase(View)
  /\ sent' = {}
  /\ pc' = IF todo' = {} THEN "fold" ELSE "send"
  /\ UNCHANGED <<quiet, pass, active, done, touched, stuck, log>>

\* In the order of the plan: by rows, groups and codes.
Before(p, q) ==
  p[1] < q[1] \/ (p[1] = q[1] /\ (p[2] < q[2] \/ (p[2] = q[2] /\ p[3] <= q[3])))

\* It is done, refused, or done with its answer lost.
Send ==
  /\ pc = "send"
  /\ \E o \in todo, verdict \in {"ok", "failed"} :
       LET op == o[2]
       IN /\ \A other \in todo : Before(o[1], other[1])
          /\ \/ Accepts(op) /\ shop' = Applied(op)
             \/ verdict = "failed" /\ UNCHANGED shop
          /\ sent' = sent \cup {<<op, verdict>>}
          /\ log' = log \cup {<<pass, op, verdict>>}
          /\ touched' = touched \cup {op.set}
          /\ todo' = todo \ {o}
  /\ UNCHANGED <<rows, foreign, pc, pass, known, active, done, failed, stuck>>

FailedRefs == {s[1].set : s \in {t \in sent : t[2] = "failed"}} \cup UnknownBase(known)

StaysActive(i) == rows[i].name \notin FailedRefs

\* Mutant of Refreshed: the caches are kept.
RefreshedNot == known

Refreshed == Unread

EndPass ==
  /\ pc = "send" /\ todo = {}
  /\ failed' = failed \cup FailedRefs
  /\ done' = done \cup {s[1] : s \in {t \in sent : t[1].set \notin FailedRefs}}
  /\ active' = {i \in active : StaysActive(i)}
  /\ known' = Refreshed
  /\ pass' = pass + 1
  /\ pc' = "plan"
  /\ UNCHANGED <<quiet, todo, sent, touched, stuck, log>>

Stuck(view) == {o[2].set : o \in NewOps(view)}

\* The loop ran out: a fourth plan, nothing of which is sent.
Check ==
  /\ pc = "plan" /\ pass > Passes
  /\ known' = View
  /\ stuck' = Stuck(View)
  /\ failed' = failed \cup UnknownBase(View) \cup stuck'
  /\ pc' = "fold"
  /\ UNCHANGED <<quiet, pass, active, todo, sent, done, touched, log>>

Names == {rows[i].name : i \in DOMAIN rows}

Fold ==
  [succeeded |-> Cardinality(touched \ failed),
   failed |-> Cardinality(touched \cap failed) + Cardinality(failed \ touched),
   unchanged |-> Cardinality({i \in DOMAIN rows : rows[i].name \notin touched \cup failed})]

Return ==
  /\ pc = "fold" /\ pc' = "done"
  /\ UNCHANGED <<quiet, pass, known, active, todo, sent, done, touched, failed, stuck, log>>

Next == Plan \/ Send \/ EndPass \/ Check \/ Return \/ Foreign
Spec == Init /\ [][Next]_vars

---------------------------------------------------------------------------

Unique == Cardinality(Names) = Len(rows)

TypeOK ==
  /\ pc \in {"plan", "send", "fold", "done"} /\ pass \in 1..4
  /\ active \subseteq DOMAIN rows
  /\ touched \subseteq Names /\ failed \subseteq Names /\ stuck \subseteq Names
  /\ {s[1] : s \in sent} \subseteq {l[2] : l \in log} /\ done \subseteq {l[2] : l \in log}

\* A row that did not fail has its set, its groups, and each attribute in a
\* group that names it, although each pass sees only what the one before created.
SucceededComplete ==
  pc = "done" /\ Unique /\ foreign = 0 =>
    \A i \in DOMAIN rows : rows[i].name \notin failed =>
      /\ rows[i].name \in shop.sets
      /\ \A g \in DOMAIN rows[i].groups :
           /\ <<rows[i].name, rows[i].groups[g].name>> \in shop.groups
           /\ \A c \in Range(rows[i].groups[g].codes) : \E h \in DOMAIN rows[i].groups :
                /\ c \in Range(rows[i].groups[h].codes)
                /\ <<rows[i].name, rows[i].groups[h].name, c>> \in shop.members

\* Three passes are enough: a row is out of passes only if others changed its
\* set meanwhile.
ThreeSuffice == foreign = 0 => stuck = {}

\* No request that was answered well is sent in a later pass, and none of a
\* row after a pass in which one of its requests failed.
NothingAgain ==
  \A l, k \in log : l[1] < k[1] /\ l[2].set = k[2].set => l[2] # k[2] /\ l[3] = "ok"

\* With names that differ every row is counted once.
CountsAddUp ==
  pc = "done" /\ Unique => Fold.succeeded + Fold.failed + Fold.unchanged = Len(rows)

\* docs/Catalog-Importers.md: every input row ends up in exactly one count.
EveryRowCounted == pc = "done" => Fold.succeeded + Fold.failed + Fold.unchanged = Len(rows)
===========================================================================
