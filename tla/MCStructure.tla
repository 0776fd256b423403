----------------------------- MODULE MCStructure -----------------------------
(***************************************************************************)
(* What a catalog needs before its products, checked in one run: category  *)
(* trees in a store without and with the module, attribute sets, and       *)
(* options by their labels.  The imports share no state: part says which   *)
(* one a behaviour is of, and the variables of the others are Unused.      *)
(***************************************************************************)
EXTENDS Naturals, Sequences, FiniteSets, TLC

CONSTANTS
  MaxId, MaxForeign, MaxSetForeign, MaxLost, MaxFault,
  men, tops, red, Red, bw, bAmpW, blank, None,
  Name, CategoryInputs, Trees,                           \* CategoryTree
  SetInputs, Shops,                                      \* AttributeSetPasses
  Spelling, Blank, Norm, Trim, OptionInputs, Attributes  \* OptionLabels

---------------------------------------------------------------------------
(* Inputs *)

Plain(path) == [path |-> path, reserved |-> FALSE, sort |-> FALSE]
CategoryRows ==
  {<<Plain(<<men, tops>>), [Plain(<<men>>) EXCEPT !.sort = TRUE]>>,
   <<[Plain(<<tops>>) EXCEPT !.reserved = TRUE], [Plain(<<men, tops>>) EXCEPT !.sort = TRUE]>>,
   <<Plain(<<men>>), Plain(<<tops>>), Plain(<<men, tops>>)>>}

RootNode == [id |-> 1, parent |-> 0, path |-> <<>>]
Men(id) == [id |-> id, parent |-> 1, path |-> <<men>>]
\* Nothing, a root, one category, two siblings that differ by case.
Forests == {{}, {RootNode}, {RootNode, Men(2)}, {RootNode, Men(2), Men(3),
            [id |-> 4, parent |-> 3, path |-> <<men, tops>>]}}

Group(name, codes) == [name |-> name, codes |-> codes]
SetRow(name, based, groups) == [name |-> name, based |-> based, groups |-> groups]
\* A set with two groups that share an attribute, a set based on one of the
\* same import, one based on nothing, two rows of one set.
SetRows ==
  {<<SetRow("A", "Default", <<Group("g", <<"x", "y">>), Group("h", <<"x">>)>>)>>,
   <<SetRow("A", "Default", <<Group("g", <<"x">>)>>), SetRow("B", "A", <<Group("h", <<"y">>)>>)>>,
   <<SetRow("B", "Other", <<>>), SetRow("A", "Default", <<Group("general", <<"x">>)>>)>>,
   <<SetRow("A", "Default", <<Group("g", <<"x">>)>>), SetRow("A", "Default", <<Group("h", <<>>)>>)>>}

Fresh == [sets |-> {"Default"}, groups |-> {<<"Default", "general">>},
          members |-> {<<"Default", "general", "x">>}]
Started(group) == [Fresh EXCEPT !.sets = @ \cup {"A"}, !.groups = @ \cup {<<"A", group>>}]
ShopStates == {Fresh, Started("g"), Started("h")}

Spellings == {red, Red, bw, bAmpW, blank}
Normalized == (red :> red) @@ (Red :> red) @@ (bw :> bw) @@ (bAmpW :> bw) @@ (blank :> blank)
\* The entity is not unescaped.
Trimmed == (red :> red) @@ (Red :> red) @@ (bw :> bw) @@ (bAmpW :> bAmpW) @@ (blank :> blank)

Job(job, rws) == [job |-> job, rows |-> rws, create |-> TRUE]
LabelRows ==
  {Job("resolve", <<<<Red, bw>>, <<red>>, <<bAmpW>>>>), Job("resolve", <<<<blank>>, <<Red>>, <<red, blank>>>>),
   [Job("resolve", <<<<bAmpW, red>>, <<Red>>>>) EXCEPT !.create = FALSE],
   Job("resolve", <<<<red>>, <<Red>>>>),
   Job("labels", <<<<Red, blank, bAmpW, red>>>>), Job("labels", <<<<bw, red, Red>>>>),
   Job("attribute", <<<<Red, bw>>, <<bAmpW>>>>), Job("attribute", <<<<bAmpW, red>>>>)}

Attribute(labels) == [exists |-> TRUE, labels |-> labels]
AttributeStores ==
  {Attribute(<<>>), Attribute(<<bw>>), Attribute(<<red, bAmpW>>), Attribute(<<red, Red>>),
   [exists |-> FALSE, labels |-> <<>>]}

---------------------------------------------------------------------------

VARIABLES
  part,
  bridge, tree, initial, had, lost, round, whole, batch, ids, verdict, refused, written,
  shop, pass, active, todo, sent, done, touched, failed, stuck, log,
  input, exists, options, fault, created, at, got, results, ops,
  rows, foreign, known, cache, seen, pc  \* of more than one part

Categories == INSTANCE CategoryTree WITH Inputs <- CategoryInputs
Sets == INSTANCE AttributeSetPasses WITH Inputs <- SetInputs, MaxForeign <- MaxSetForeign
Options == INSTANCE OptionLabels WITH Inputs <- OptionInputs, Stores <- Attributes

ASSUME StructureAssumption ==
  /\ Categories!CategoryAssumption
  /\ Sets!SetAssumption /\ Options!OptionAssumption

Unused == "unused"
TreeIdle ==
  /\ bridge = Unused /\ tree = Unused /\ initial = Unused /\ had = Unused /\ lost = Unused /\ round = Unused /\ whole = Unused
  /\ batch = Unused /\ ids = Unused /\ verdict = Unused /\ refused = Unused /\ written = Unused
SetsIdle ==
  /\ shop = Unused /\ pass = Unused /\ active = Unused /\ todo = Unused /\ sent = Unused
  /\ done = Unused /\ touched = Unused /\ failed = Unused /\ stuck = Unused /\ log = Unused
LabelsIdle ==
  /\ input = Unused /\ exists = Unused /\ options = Unused /\ fault = Unused /\ created = Unused
  /\ at = Unused /\ got = Unused /\ results = Unused /\ ops = Unused

Init ==
  \/ /\ part = "categories" /\ Categories!Init
     /\ SetsIdle /\ LabelsIdle /\ known = Unused
  \/ /\ part = "sets" /\ Sets!Init
     /\ TreeIdle /\ LabelsIdle /\ cache = Unused /\ seen = Unused
  \/ /\ part = "labels" /\ Options!Init
     /\ TreeIdle /\ SetsIdle /\ rows = Unused

trees == <<bridge, tree, initial, had, lost, round, whole, batch, ids, verdict, refused, written>>
sets == <<shop, pass, active, todo, sent, done, touched, failed, stuck, log>>
labelled == <<input, exists, options, fault, created, at, got, results, ops>>

CategoriesStep == part = "categories" /\ Categories!Next /\ UNCHANGED <<part, sets, labelled, known>>
SetsStep == part = "sets" /\ Sets!Next /\ UNCHANGED <<part, trees, labelled, cache, seen>>
LabelsStep == part = "labels" /\ Options!Next /\ UNCHANGED <<part, trees, sets, rows>>

Next == CategoriesStep \/ SetsStep \/ LabelsStep
vars == <<part, trees, sets, labelled, rows, foreign, known, cache, seen, pc>>
Spec == Init /\ [][Next]_vars

---------------------------------------------------------------------------

\* The type invariants of the parts.
TypeOK ==
  /\ part = "categories" => Categories!TypeOK
  /\ part = "sets" => Sets!TypeOK
  /\ part = "labels" => Options!TypeOK

\* A row fails only over its own path, and one that succeeded has its
\* category, natively and through the module; natively no category is created
\* beside one of its path (Resolver.ensure_categories, plan_categories).
CategoriesAsPlanned ==
  part = "categories" =>
    Categories!CreatesOnlyMissing /\ Categories!FailsForItsPath /\ Categories!SucceededExists

\* Every PUT of a category goes to one that had the row's path in this round.
WritesOwnCategory == [][(part = "categories" => Categories!WriteIsOwn)]_vars

\* Three passes complete every attribute set that did not fail, nothing done
\* is sent again, and every row is counted (import_attribute_sets).
SetsComplete ==
  part = "sets" =>
    Sets!SucceededComplete /\ Sets!ThreeSuffice /\ Sets!NothingAgain /\ Sets!CountsAddUp

\* A label gets the id of its own option, one id in every spelling, created
\* once (Resolver.option_id, bulk_options_map, plan_attributes).
LabelsResolve ==
  part = "labels" =>
    Options!IdOfItsLabel /\ Options!OneIdPerLabel /\ Options!CreatedOnce /\ Options!NamedOptionsExist
=============================================================================
