---------------------------- MODULE CategoryTree ----------------------------
(***************************************************************************)
(* import_categories: the rows' paths are ensured in the tree through the  *)
(* bridge or one POST per missing segment, with the resolver's cache, then *)
(* each row is PUT, and rows refused over default_sort_by are planned      *)
(* again by a fresh resolver without that key.                             *)
(*                                                                         *)
(* A path is the sequence of its lower-cased segments below the root; the  *)
(* root is <<>>.  Siblings that differ by case have one path.  Ids are     *)
(* never used again.  What the attributes are is left out.                 *)
(***************************************************************************)
EXTENDS Integers, Sequences, SequencesExt

CONSTANTS
  Name,        \* what a segment is
  Inputs,      \* the imports: sequences of rows
  Trees,       \* the trees they meet
  MaxId, MaxForeign, MaxLost   \* bounds: ids, changes by others, lost answers

Path == Seq(Name)
Row == [path : Path, reserved : BOOLEAN, sort : BOOLEAN]
Category == [id : 1..MaxId, parent : Nat, path : Path]
Distinct(set) == \A n, o \in set : n.id = o.id => n = o

\* Of the constants; an ASSUME of the module that instantiates this one.
CategoryAssumption ==
  /\ MaxId \in Nat /\ MaxForeign \in Nat /\ MaxLost \in Nat
  /\ Inputs \subseteq Seq(Row)
  /\ \A t \in Trees : t \subseteq Category /\ Distinct(t)

VARIABLES
  bridge,   \* whether the store has the module
  rows,     \* of the import
  tree,     \* Magento: the categories, [id, parent, path]
  initial,  \* history: the tree at the start
  had,      \* history: every category there was
  seen,     \* history: every category there was in this round
  foreign, lost,
  pc,
  round,    \* 1, or 2 for the rows without default_sort_by
  whole,    \* all paths in one call, or one call per row
  batch,    \* the rows whose path is still to be ensured
  cache,    \* Resolver._categories: path -> id
  ids,      \* path_ids: row -> id
  verdict,  \* of each row: todo, ok, failed, or sort when refused over the key
  refused,  \* history: the paths whose creation failed, <<>> without a root
  written   \* history: <<round, row, id>> of every PUT

vars == <<bridge, rows, tree, initial, had, seen, foreign, lost, pc, round, whole, batch, cache, ids, verdict, refused,
          written>>
resolver == <<batch, cache, ids, whole>>

Root == <<>>
Empty == <<>>
At(path) == {n \in tree : n.path = path}
Free == 1..MaxId \ {n.id : n \in had}
NewId == CHOOSE id \in Free : \A other \in Free : id <= other
Over(new, old) == [p \in DOMAIN new \cup DOMAIN old |-> IF p \in DOMAIN new THEN new[p] ELSE old[p]]

\* Rows of the round that shadow no key of the writer.
Planned(r) == {i \in DOMAIN rows : ~rows[i].reserved /\ (r = 2 => verdict[i] = "sort")}

Init ==
  /\ bridge \in BOOLEAN /\ rows \in Inputs
  /\ tree \in Trees /\ initial = tree /\ had = tree /\ seen = tree
  /\ foreign = 0 /\ lost = 0
  /\ pc = "ensure" /\ round = 1 /\ whole = TRUE
  /\ verdict = [i \in DOMAIN rows |-> IF rows[i].reserved THEN "failed" ELSE "todo"]
  /\ batch = {i \in DOMAIN rows : ~rows[i].reserved}
  /\ cache = Empty /\ ids = Empty /\ refused = {} /\ written = {}

---------------------------------------------------------------------------
(* Other clients *)

Below(path) == {n \in tree : Len(n.path) >= Len(path) /\ SubSeq(n.path, 1, Len(path)) = path}
Add(parent, name) ==
  LET new == [id |-> NewId, parent |-> parent.id, path |-> Append(parent.path, name)]
  IN /\ Free # {}
     /\ tree' = tree \cup {new} /\ had' = had \cup {new} /\ seen' = seen \cup {new}

Foreign ==
  /\ pc # "done" /\ foreign < MaxForeign
  /\ foreign' = foreign + 1
  /\ \/ \E n \in tree : n.path # Root /\ tree' = tree \ Below(n.path) /\ UNCHANGED <<had, seen>>
     \/ \E n \in tree, i \in DOMAIN rows :
          /\ Len(n.path) < Len(rows[i].path)
          /\ Add(n, rows[i].path[Len(n.path) + 1])
  /\ UNCHANGED <<bridge, rows, initial, lost, pc, round, resolver, verdict, refused, written>>

---------------------------------------------------------------------------
(* ensure_categories through the bridge *)

First == CHOOSE i \in batch : \A j \in batch : i <= j
Call == IF whole THEN batch ELSE {First}
Wanted == {rows[i].path : i \in Call}
NextBatch(b) == IF b = {} THEN "put" ELSE IF whole THEN "walk" ELSE "ensure"

PrefixesOf(paths) == UNION {Prefixes(p) : p \in paths}
MissingOf(paths) == {p \in PrefixesOf(paths) : At(p) = {}}
\* New ids for paths, the lowest free ones, a parent's before its children's.
Numberings(missing) ==
  {new \in [missing -> Free] :
     /\ \A p, q \in missing : new[p] = new[q] => p = q
     /\ \A p, q \in missing : Len(p) < Len(q) => new[p] < new[q]
     /\ \A p \in missing, id \in Free : id < new[p] => \E q \in missing : new[q] = id}
\* The module creates what is missing in one transaction.
Completed(new) ==
  LET IdOf(p) == IF p \in DOMAIN new THEN new[p] ELSE (CHOOSE n \in At(p) : TRUE).id
  IN tree \cup {[id |-> new[p], parent |-> IdOf(Front(p)), path |-> p] : p \in DOMAIN new}
Upsert ==
  /\ At(Root) # {}
  /\ \E new \in Numberings(MissingOf(Wanted)) : tree' = Completed(new)
  /\ had' = had \cup tree' /\ seen' = seen \cup tree'

\* Only the requested paths are answered, and cached.
UpsertOk ==
  /\ pc = "ensure" /\ batch # {} /\ bridge /\ Upsert
  /\ LET IdAt(p) == (CHOOSE n \in tree' : n.path = p).id
     IN /\ cache' = Over([p \in Wanted |-> IdAt(p)], cache)
        /\ ids' = Over([i \in Call |-> IdAt(rows[i].path)], ids)
  /\ batch' = batch \ Call
  /\ pc' = NextBatch(batch')
  /\ UNCHANGED <<bridge, rows, initial, foreign, lost, round, whole, verdict, refused, written>>

\* It is refused, or its answer is lost once it is committed; the native way
\* takes over unless the module is required.
UpsertFails ==
  /\ pc = "ensure" /\ batch # {} /\ bridge
  /\ \/ UNCHANGED <<tree, had, seen, lost>>
     \/ lost < MaxLost /\ lost' = lost + 1 /\ Upsert
  /\ pc' = "load"
  /\ UNCHANGED <<bridge, rows, initial, foreign, round, resolver, verdict, refused, written>>

---------------------------------------------------------------------------
(* ensure_categories without it *)

\* Mutant of FirstOf: a category is taken for its parent.
FirstOfParent(S) == LET n == CHOOSE n \in S : TRUE IN [n EXCEPT !.id = n.parent]

\* Siblings of one path: the first in tree order stays the target.
FirstOf(S) ==
  LET top == {n \in S : \A o \in S : n.parent <= o.parent}
  IN CHOOSE n \in top : \A o \in top : n.id <= o.id

\* The tree is read once per resolver.
Load ==
  /\ pc = "load" \/ (pc = "ensure" /\ ~bridge /\ batch # {})
  /\ cache' = IF DOMAIN cache # {} THEN cache
              ELSE [p \in {n.path : n \in tree} |-> FirstOf(At(p)).id]
  /\ pc' = "walk"
  /\ UNCHANGED <<bridge, rows, tree, initial, had, seen, foreign, lost, round, whole, batch, ids, verdict, refused, written>>

Asked == rows[First].path
UpTo(k) == SubSeq(Asked, 1, k)
\* The first segment whose path is not known.
Missing == CHOOSE k \in 0..Len(Asked) :
             UpTo(k) \notin DOMAIN cache /\ \A j \in 0..(k - 1) : UpTo(j) \in DOMAIN cache

Known ==
  /\ pc = "walk" /\ batch # {} /\ Asked \in DOMAIN cache
  /\ ids' = Over([i \in {First} |-> cache[Asked]], ids)
  /\ batch' = batch \ {First}
  /\ pc' = NextBatch(batch')
  /\ UNCHANGED <<bridge, rows, tree, initial, had, seen, foreign, lost, round, whole, cache, verdict, refused, written>>

\* A ResolveError: the call for all rows is followed by one per row, the
\* error of that one fails the row.  The cache keeps what was created.
ResolveFails(path) ==
  /\ refused' = refused \cup {path}
  /\ IF whole
     THEN /\ whole' = FALSE /\ batch' = Planned(round) /\ ids' = Empty
          /\ pc' = "ensure" /\ UNCHANGED verdict
     ELSE /\ verdict' = [verdict EXCEPT ![First] = "failed"]
          /\ batch' = batch \ {First} /\ pc' = NextBatch(batch')
          /\ UNCHANGED <<whole, ids>>

NoRoot ==
  /\ pc = "walk" /\ batch # {} /\ Asked \notin DOMAIN cache
  /\ Root \notin DOMAIN cache
  /\ ResolveFails(Root)
  /\ UNCHANGED <<bridge, rows, tree, initial, had, seen, foreign, lost, round, cache, written>>

\* Mutant of Cached: a segment is cached only when it ends the path.
CachedAtEnd(path, id) ==
  IF path = Asked THEN Over([p \in {path} |-> id], cache) ELSE cache

Cached(path, id) == Over([p \in {path} |-> id], cache)

\* The parent of a path that is created: the cached prefix.
Parent == {n \in tree : n.id = cache[UpTo(Missing - 1)]}
CanCreate ==
  pc = "walk" /\ batch # {} /\ Asked \notin DOMAIN cache /\ Root \in DOMAIN cache

CreateSegment ==
  /\ CanCreate
  /\ \E n \in Parent : Add(n, Asked[Missing])
  /\ cache' = Cached(UpTo(Missing), NewId)
  /\ UNCHANGED <<bridge, rows, initial, foreign, lost, pc, round, whole, batch, ids, verdict, refused, written>>

\* Magento refuses it, or its answer is lost once it is committed.
CreateFails ==
  /\ CanCreate
  /\ \/ UNCHANGED <<tree, had, seen, lost>>
     \/ lost < MaxLost /\ lost' = lost + 1 /\ \E n \in Parent : Add(n, Asked[Missing])
  /\ ResolveFails(UpTo(Missing))
  /\ UNCHANGED <<bridge, rows, initial, foreign, round, cache, written>>

---------------------------------------------------------------------------
(* The attributes of the rows *)

\* A row without attributes has no operation; a default_sort_by is refused
\* by some releases.
Put ==
  /\ pc \in {"ensure", "put"} /\ batch = {}
  /\ \E i \in DOMAIN ids :
       /\ verdict[i] = IF round = 1 THEN "todo" ELSE "sort"
       /\ \A j \in DOMAIN ids : verdict[j] = verdict[i] => i <= j
       /\ \/ verdict' = [verdict EXCEPT ![i] = "ok"]
          \/ verdict' = [verdict EXCEPT ![i] = "failed"]
          \/ round = 1 /\ rows[i].sort /\ verdict' = [verdict EXCEPT ![i] = "sort"]
       /\ written' = written \cup {<<round, i, ids[i]>>}
  /\ pc' = "put"
  /\ UNCHANGED <<bridge, rows, tree, initial, had, seen, foreign, lost, round, resolver, refused>>

Settled == \A i \in DOMAIN rows : verdict[i] # (IF round = 1 THEN "todo" ELSE "sort")

\* Mutant of Again: the rows keep the resolver, and its cache, of the first
\* round.
AgainSameCache ==
  /\ round' = 2 /\ whole' = TRUE /\ batch' = Planned(2) /\ pc' = "ensure"
  /\ ids' = Empty /\ UNCHANGED cache

Again ==
  /\ round' = 2 /\ whole' = TRUE /\ batch' = Planned(2) /\ pc' = "ensure"
  /\ ids' = Empty /\ cache' = Empty

Retry ==
  /\ pc \in {"ensure", "put"} /\ batch = {} /\ Settled /\ round = 1
  /\ \E i \in DOMAIN rows : verdict[i] = "sort"
  /\ Again /\ seen' = tree
  /\ UNCHANGED <<bridge, rows, tree, initial, had, foreign, lost, verdict, refused, written>>

Return ==
  /\ pc \in {"ensure", "put"} /\ batch = {} /\ Settled
  /\ \A i \in DOMAIN rows : verdict[i] # "sort"
  /\ pc' = "done"
  /\ UNCHANGED <<bridge, rows, tree, initial, had, seen, foreign, lost, round, resolver, verdict, refused, written>>

Next ==
  \/ UpsertOk \/ UpsertFails \/ Load \/ Known \/ NoRoot \/ CreateSegment \/ CreateFails
  \/ Put \/ Retry \/ Return \/ Foreign

Spec == Init /\ [][Next]_vars

---------------------------------------------------------------------------

TypeOK ==
  /\ pc \in {"ensure", "load", "walk", "put", "done"}
  /\ round \in 1..2 /\ whole \in BOOLEAN
  /\ batch \subseteq DOMAIN rows /\ DOMAIN ids \subseteq DOMAIN rows
  /\ verdict \in [DOMAIN rows -> {"todo", "ok", "failed", "sort"}]
  /\ \A p \in DOMAIN cache : cache[p] \in 1..MaxId

\* Every PUT goes to a category that had the path of its row at some moment
\* of the round: not to the other rows', not to one deleted before.
WriteIsOwn ==
  \A w \in written' \ written : \E n \in seen : n.id = w[3] /\ n.path = rows[w[2]].path

\* As long as no answer is lost and nobody else writes, no category is
\* created beside one of its path: not by the call per row after the call
\* for all, not by the fresh resolver of the second round.
CreatesOnlyMissing ==
  ~bridge /\ lost = 0 /\ foreign = 0 =>
    \A n \in tree \ initial, o \in tree : n.path = o.path => n = o

\* A row fails to be planned only over a segment of its own path: no other
\* row's refusal reaches it.
FailsForItsPath ==
  \A i \in DOMAIN rows :
    ~rows[i].reserved /\ verdict[i] = "failed" =>
      (\E w \in written : w[2] = i) \/ Prefixes(rows[i].path) \cap refused # {}

\* Every row that is counted as succeeded has its category.
SucceededExists ==
  pc = "done" /\ foreign = 0 => \A i \in DOMAIN rows : verdict[i] = "ok" => At(rows[i].path) # {}

\* importers.py:340: the writer is idempotent by path.
IdempotentByPath ==
  foreign = 0 => \A n \in tree \ initial, o \in tree : n.path = o.path => n = o

\* resolvers.py:265-266: after an upsert the cache has the shape the native
\* way maintains, which knows every prefix of a path it knows.
CacheSameShape == \A p \in DOMAIN cache : Prefixes(p) \subseteq DOMAIN cache
===========================================================================
