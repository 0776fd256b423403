---------------------------- MODULE OptionLabels ----------------------------
(***************************************************************************)
(* The options of one attribute, found by label and created when missing:  *)
(* by the resolver while products are planned, by resolve_attribute_options *)
(* and by import_attributes, beside other clients that add options.        *)
(*                                                                         *)
(* Magento does not deduplicate options, may list a new one anywhere, and  *)
(* may save one and still answer with an error or not at all.  The value   *)
(* "" of the placeholder is the id 0.                                      *)
(***************************************************************************)
EXTENDS Integers, Sequences, FiniteSets, Functions

CONSTANTS
  Spelling, Blank,  \* labels as written; the one that is empty when stripped
  Norm, Trim,       \* what normalize_label and strip().casefold() make of them
  None,
  Inputs,           \* [job, rows, create]: the labels of each row, and whether
                    \* the caller lets a label be created
  Stores,           \* [exists, labels]: the attribute and its options
  MaxForeign, MaxFault  \* bounds: options by others, requests that go wrong

\* Of the constants; an ASSUME of the module that instantiates this one.
OptionAssumption ==
  /\ Blank \in Spelling /\ MaxForeign \in Nat /\ MaxFault \in Nat /\ None \notin Nat
  /\ Norm \in [Spelling -> Spelling] /\ Trim \in [Spelling -> Spelling]
  /\ \A label \in Spelling : Trim[label] = Trim[Blank] => label = Blank
  /\ Inputs \subseteq [job : {"resolve", "labels", "attribute"}, rows : Seq(Seq(Spelling)), create : BOOLEAN]
  /\ \A in \in Inputs : in.job # "attribute" => \A r \in DOMAIN in.rows : in.rows[r] # <<>>
  /\ Stores \subseteq [exists : BOOLEAN, labels : Seq(Spelling)]

VARIABLES
  input, exists,
  options,   \* what the store lists: [id, label]
  foreign, fault,
  created,   \* history: the options this run created
  pc,
  known,     \* the attribute was there at the read
  cache,     \* key -> id
  seen,      \* history: the keys of the first read
  at,        \* the row that is next
  got,       \* the ids of its labels so far
  results,   \* per row: its ids, or Failed
  ops        \* import_attributes: what is to post, <<row, label>> by their numbers,
             \* 0 for all labels of a row

vars == <<input, exists, options, foreign, fault, created, pc, known, cache, seen, at, got, results, ops>>
store == <<exists, options, created>>
Failed == <<None>>

---------------------------------------------------------------------------
(* Labels and the cache *)

\* Mutant of Key: labels are compared as they are written.
KeyRaw(label) == label

Key(label) == IF input.job = "labels" THEN Trim[label] ELSE Norm[label]

\* The answer begins with the placeholder, which both loops leave out.
Answer == <<[id |-> 0, label |-> Blank]>> \o options
Listed(k) == {i \in DOMAIN Answer : Answer[i].id # 0 /\ Key(Answer[i].label) = k}

\* Of two options of one key the last one listed counts.
LastListed(k) == CHOOSE i \in Listed(k) : \A j \in Listed(k) : j <= i
Ids == [k \in {Key(o.label) : o \in Range(options)} |-> Answer[LastListed(k)].id]

\* No option is ever deleted: the ids are 1 .. Len(options).
NextId == 1 + Len(options)
Insertions(labels) ==
  LET new == [i \in DOMAIN labels |-> [id |-> NextId + i - 1, label |-> labels[i]]]
  IN {SubSeq(options, 1, p) \o new \o SubSeq(options, p + 1, Len(options)) : p \in 0 .. Len(options)}

---------------------------------------------------------------------------

Init ==
  /\ input \in Inputs
  /\ \E s \in Stores : /\ s.exists \/ input.job = "attribute"  \* else an error at once
                       /\ exists = s.exists
                       /\ options = [i \in DOMAIN s.labels |-> [id |-> i, label |-> s.labels[i]]]
  /\ foreign = 0 /\ fault = 0 /\ created = {} /\ pc = "read" /\ known = FALSE
  /\ cache = <<>> /\ seen = {} /\ at = 1 /\ got = <<>> /\ results = <<>> /\ ops = {}

Foreign ==
  /\ pc \notin {"done", "aborted"} /\ foreign < MaxForeign /\ exists
  /\ foreign' = foreign + 1
  /\ \E label \in Spelling \ {Blank} : options' \in Insertions(<<label>>)
  /\ UNCHANGED <<input, exists, fault, created, pc, known, cache, seen, at, got, results, ops>>

RowOps(r) ==
  IF ~known' THEN {<<r, 0>>}
  ELSE {<<r, i>> : i \in {j \in DOMAIN input.rows[r] : Key(input.rows[r][j]) \notin DOMAIN cache'}}

\* preload_attributes, or the GET of resolve_attribute_options.
Read ==
  /\ pc = "read"
  /\ known' = exists /\ cache' = Ids /\ seen' = DOMAIN cache'
  /\ ops' = IF input.job = "attribute" THEN UNION {RowOps(r) : r \in DOMAIN input.rows} ELSE {}
  /\ results' = IF input.job = "attribute" THEN input.rows ELSE <<>>
  /\ pc' = IF input.job = "attribute" THEN "send" ELSE "row"
  /\ UNCHANGED <<input, exists, options, foreign, fault, created, at, got>>

---------------------------------------------------------------------------
(* One label after the other *)

InRow == pc = "row" /\ at <= Len(input.rows)
Label == input.rows[at][Len(got) + 1]
Skips == input.job = "labels" /\ Label = Blank

Take(id) ==
  LET ids == Append(got, id)
  IN IF Len(ids) = Len(input.rows[at])
     THEN results' = Append(results, ids) /\ at' = at + 1 /\ got' = <<>>
     ELSE got' = ids /\ UNCHANGED <<at, results>>

\* A ResolveError fails the row; what the row has created stays.
FailRow == results' = Append(results, Failed) /\ at' = at + 1 /\ got' = <<>>

Hit ==
  /\ InRow /\ (Skips \/ Key(Label) \in DOMAIN cache)
  /\ Take(IF Skips THEN None ELSE cache[Key(Label)])
  /\ UNCHANGED <<input, store, foreign, fault, pc, known, cache, seen, ops>>

\* diff.py: the row counts as changed.
Unknown ==
  /\ InRow /\ ~Skips /\ Key(Label) \notin DOMAIN cache /\ ~input.create
  /\ FailRow
  /\ UNCHANGED <<input, store, foreign, fault, pc, known, cache, seen, ops>>

\* The option is saved or not.
Saves(labels, saved) ==
  IF saved THEN options' \in Insertions(labels) /\ created' = created \cup (Range(options') \ Range(options))
  ELSE UNCHANGED <<options, created>>

\* An HTTP error fails the row, a lost connection the run.  The create response
\* is the id or "id_<n>": the resolver does not read it, int() raises on it.
Post ==
  /\ InRow /\ ~Skips /\ Key(Label) \notin DOMAIN cache /\ input.create
  /\ \E saved \in BOOLEAN, answer \in {"id", "id_", "http", "lost"} :
       /\ answer \in {"id", "id_"} => saved
       /\ answer \in {"http", "lost"} => fault < MaxFault
       /\ fault' = IF answer \in {"http", "lost"} THEN fault + 1 ELSE fault
       /\ Saves(<<Label>>, saved)
       /\ \/ /\ input.job = "resolve" /\ answer \in {"id", "id_"}
             /\ pc' = "refresh" /\ UNCHANGED <<cache, at, got, results>>
          \/ /\ input.job = "resolve" /\ answer = "http"
             /\ FailRow /\ UNCHANGED <<pc, cache>>
          \/ /\ input.job = "labels" /\ answer = "id"
             /\ cache' = [k \in DOMAIN cache \cup {Key(Label)} |-> IF k \in DOMAIN cache THEN cache[k] ELSE NextId]
             /\ Take(NextId) /\ UNCHANGED pc
          \/ /\ answer = "lost" \/ (input.job = "labels" /\ answer # "id")
             /\ pc' = "aborted" /\ UNCHANGED <<cache, at, got, results>>
  /\ UNCHANGED <<input, exists, foreign, known, seen, ops>>

\* Errors of the GET are not caught.
Refresh ==
  /\ pc = "refresh"
  /\ \/ /\ pc' = "row" /\ cache' = Ids
        /\ IF Key(Label) \in DOMAIN cache' THEN Take(cache'[Key(Label)]) ELSE FailRow
        /\ UNCHANGED fault
     \/ /\ fault < MaxFault /\ fault' = fault + 1 /\ pc' = "aborted"
        /\ UNCHANGED <<cache, at, got, results>>
  /\ UNCHANGED <<input, store, foreign, known, seen, ops>>

---------------------------------------------------------------------------
(* import_attributes *)

\* A new attribute is posted with all its options, a second one of its code
\* refused.  All rows here are of one attribute, and fail together.
Send ==
  /\ pc = "send"
  /\ \E op \in ops, saved, told \in BOOLEAN :
       LET labels == IF op[2] = 0 THEN input.rows[op[1]] ELSE <<input.rows[op[1]][op[2]]>>
           refused == op[2] = 0 /\ exists
       IN /\ \A o \in ops : op[1] < o[1] \/ (op[1] = o[1] /\ op[2] <= o[2])
          /\ ops' = ops \ {op}
          /\ refused => ~saved
          /\ (saved /\ told) \/ refused \/ fault < MaxFault
          /\ fault' = IF (saved /\ told) \/ refused THEN fault ELSE fault + 1
          /\ Saves(labels, saved)
          /\ exists' = (exists \/ saved)
          /\ results' = IF saved /\ told THEN results ELSE [r \in DOMAIN results |-> Failed]
  /\ UNCHANGED <<input, foreign, pc, known, cache, seen, at, got>>

Return ==
  /\ (pc = "row" /\ at > Len(input.rows)) \/ (pc = "send" /\ ops = {})
  /\ pc' = "done"
  /\ UNCHANGED <<input, store, foreign, fault, known, cache, seen, at, got, results, ops>>

Next == Read \/ Hit \/ Unknown \/ Post \/ Refresh \/ Send \/ Return \/ Foreign
Spec == Init /\ [][Next]_vars

---------------------------------------------------------------------------

TypeOK ==
  /\ pc \in {"read", "row", "refresh", "send", "done", "aborted"}
  /\ pc = "row" /\ at <= Len(input.rows) => Len(got) < Len(input.rows[at])
  /\ created \subseteq Range(options)
  /\ Cardinality({o.id : o \in Range(options)}) = Len(options)

Same(a, b) == IF input.job = "labels" THEN Trim[a] = Trim[b] ELSE Norm[a] = Norm[b]
LabelOf(id) == (CHOOSE o \in Range(options) : o.id = id).label

\* A row that did not fail has, label by label, the id of an option of that
\* label, never the placeholder's, whoever created it and wherever it is listed.
IdOfItsLabel ==
  input.job # "attribute" => \A r \in DOMAIN results :
    results[r] # Failed => \A i \in DOMAIN results[r] :
      \/ results[r][i] = None /\ input.rows[r][i] = Blank
      \/ /\ results[r][i] \in {o.id : o \in Range(options)}
         /\ Same(LabelOf(results[r][i]), input.rows[r][i])

\* Products that name one option in any spelling get one id as long as nobody
\* else adds options, also after some requests were lost.
OneIdPerLabel ==
  input.job # "attribute" /\ foreign = 0 => \A r, q \in DOMAIN results :
    results[r] # Failed /\ results[q] # Failed =>
      \A i \in DOMAIN results[r], j \in DOMAIN results[q] :
        Same(input.rows[r][i], input.rows[q][j]) => results[r][i] = results[q][j]

\* One label is created once when every request is answered, and not at all
\* when the first read had it.
CreatedOnce ==
  /\ \A o \in created : known => Key(o.label) \notin seen
  /\ input.job # "attribute" /\ fault = 0 => \A o, p \in created : Same(o.label, p.label) => o = p

\* After import_attributes the labels of a attribute that did not fail are
\* options, whatever was there before and in whatever spelling.
NamedOptionsExist ==
  input.job = "attribute" /\ pc = "done" => \A r \in DOMAIN results :
    results[r] # Failed => \A i \in DOMAIN input.rows[r] :
      \E o \in Range(options) : Same(o.label, input.rows[r][i])

\* resolvers.py:69-70: the cache is updated in place whenever this resolver
\* creates something itself.
CacheSeesOwn ==
  input.job = "resolve" /\ pc = "row" => \A o \in created : Key(o.label) \in DOMAIN cache

\* docs/Catalog-Importers.md:148: a POST per option label not yet present.
PostedOnlyMissing ==
  pc = "send" /\ foreign = 0 /\ known =>
    \A o \in created' \ created : \A p \in Range(options) : ~Same(p.label, o.label)
=============================================================================
