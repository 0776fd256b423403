---------------------------- MODULE RowGrouping ----------------------------
(***************************************************************************)
(* formats/catalog.py: the lines of a file become rows.  Product and       *)
(* category files hold a global line per key and store-view lines, which   *)
(* wait for the whole file and are folded into it; price and attribute     *)
(* files hold several lines per key; a source item is one line.            *)
(***************************************************************************)
EXTENDS Integers, Sequences, FiniteSets, SequencesExt

CONSTANTS
  Keys,      \* SKUs, category paths or attribute codes
  NoKey,     \* the key's cell is blank
  Views,     \* store views
  Global,    \* the view of a global line
  Labels,    \* option labels
  MaxLines   \* bound: lines of a file

\* Of the constants; an ASSUME of the module that instantiates this one.
GroupingAssumption == NoKey \notin Keys /\ Global \notin Views /\ MaxLines \in Nat

VARIABLES
  kind,     \* input: what the file holds
  file,     \* input: [key, view, cell, filled, option]
  next,     \* the line to read
  globals,  \* key -> the line its row was read from, 0 for none
  waiting,  \* store-view lines, until the file is read
  folded,   \* <<key, view>> -> the line of the override, 0 for none
  groups,   \* key -> its lines
  order,    \* keys, an entry for each row to return
  rows,     \* the rows of prices, attributes and items
  errors,   \* lines that a RowError names
  pc

vars == <<kind, file, next, globals, waiting, folded, groups, order, rows, errors, pc>>

---------------------------------------------------------------------------

\* cell: "ok"; "bad", which cannot be converted; "invalid", which the row's model
\* refuses.  Of an attribute it is an integer flag: blank, a number, or a text
\* such as "--5", which int refuses.
Plain == [key : Keys \cup {NoKey}, view : Views \cup {Global}, cell : {"ok", "bad"},
          filled : {FALSE}, option : {""}]
GlobalLines == [key : Keys \cup {NoKey}, view : {Global}, cell : {"ok", "bad", "invalid"},
                filled : {FALSE}, option : {""}]
AttributeLines ==
  {l \in Plain : l.cell = "ok" /\ (l.key = NoKey \/ l.view # Global)}
    \cup [key : Keys, view : {Global}, cell : {"", "ok", "bad"},
          filled : BOOLEAN, option : Labels \cup {""}]
LinesOf(k) ==
  CASE k = "folded" -> Plain
    [] k \in {"prices", "items"} -> GlobalLines
    [] k = "attributes" -> AttributeLines

Init ==
  /\ kind \in {"folded", "prices", "attributes", "items"}
  /\ file \in BoundedSeq(LinesOf(kind), MaxLines)
  /\ next = 1 /\ globals = [k \in Keys |-> 0] /\ waiting = <<>>
  /\ folded = [k \in Keys \X Views |-> 0] /\ groups = [k \in Keys |-> <<>>]
  /\ order = <<>> /\ rows = <<>> /\ errors = <<>> /\ pc = "read"

Line == file[next]
Reading == pc = "read" /\ next <= Len(file) /\ next' = next + 1 /\ UNCHANGED <<kind, file, pc>>

\* An attribute's line of another store is skipped before its code is looked at.
OtherStore ==
  /\ Reading /\ kind = "attributes" /\ Line.view # Global
  /\ UNCHANGED <<globals, waiting, folded, groups, order, rows, errors>>

NoKeyLine ==
  /\ Reading /\ Line.key = NoKey /\ kind # "items"
  /\ kind = "attributes" => Line.view = Global
  /\ errors' = Append(errors, next)
  /\ UNCHANGED <<globals, waiting, folded, groups, order, rows>>

\* Mutant of StoreLine: a line before its product is unknown at once.
StoreLineAtOnce ==
  /\ Reading /\ kind = "folded" /\ Line.key # NoKey /\ Line.view # Global
  /\ IF globals[Line.key] = 0
     THEN errors' = Append(errors, next) /\ UNCHANGED waiting
     ELSE waiting' = Append(waiting, next) /\ UNCHANGED errors
  /\ UNCHANGED <<globals, folded, groups, order, rows>>

StoreLine ==
  /\ Reading /\ kind = "folded" /\ Line.key # NoKey /\ Line.view # Global
  /\ waiting' = Append(waiting, next)
  /\ UNCHANGED <<globals, folded, groups, order, rows, errors>>

\* A second global line replaces the first, and the row is returned twice.
GlobalLine ==
  /\ Reading /\ kind = "folded" /\ Line.key # NoKey /\ Line.view = Global
  /\ IF Line.cell = "bad"
     THEN errors' = Append(errors, next) /\ UNCHANGED <<globals, order>>
     ELSE /\ globals' = [globals EXCEPT ![Line.key] = next]
          /\ order' = Append(order, Line.key) /\ UNCHANGED errors
  /\ UNCHANGED <<waiting, folded, groups, rows>>

GroupLine ==
  /\ Reading /\ kind \in {"prices", "attributes"} /\ Line.key # NoKey /\ Line.view = Global
  /\ groups' = [groups EXCEPT ![Line.key] = Append(@, next)]
  /\ order' = IF groups[Line.key] = <<>> THEN Append(order, Line.key) ELSE order
  /\ UNCHANGED <<globals, waiting, folded, rows, errors>>

\* A blank SKU passes; only a cell that is blank or no number is an error.
ItemLine ==
  /\ Reading /\ kind = "items"
  /\ IF Line.cell # "ok"
     THEN errors' = Append(errors, next) /\ UNCHANGED rows
     ELSE rows' = Append(rows, [key |-> Line.key, lines |-> <<next>>]) /\ UNCHANGED errors
  /\ UNCHANGED <<globals, waiting, folded, groups, order>>

EndOfFile ==
  /\ pc = "read" /\ next > Len(file)
  /\ pc' = IF kind = "folded" THEN "fold" ELSE "build"
  /\ UNCHANGED <<kind, file, next, globals, waiting, folded, groups, order, rows, errors>>

\* Mutant of NotFolded: an override of an unknown key is kept.
NotFoldedBad(i) == file[i].cell = "bad"

\* A store view's line: of an unknown key, or with a cell that cannot be converted.
NotFolded(i) == globals[file[i].key] = 0 \/ file[i].cell = "bad"

\* The override of a view is replaced, and its product is the last one read.
FoldLine ==
  /\ pc = "fold" /\ waiting # <<>> /\ waiting' = Tail(waiting)
  /\ LET i == Head(waiting)
     IN IF NotFolded(i)
        THEN errors' = Append(errors, i) /\ UNCHANGED folded
        ELSE folded' = [folded EXCEPT ![<<file[i].key, file[i].view>>] = i] /\ UNCHANGED errors
  /\ UNCHANGED <<kind, file, next, globals, groups, order, rows, pc>>

Building == pc = "build" /\ order # <<>> /\ order' = Tail(order)
Group == groups[Head(order)]
With(cells) == {i \in Range(Group) : file[i].cell \in cells}

\* Lines in the order of the file.
InOrder(lines) ==
  CHOOSE s \in [1 .. Cardinality(lines) -> lines] : \A a, b \in DOMAIN s : a < b => s[a] < s[b]

\* A line that cannot be converted drops its SKU.  A line that the model refuses
\* does so too, once all are converted, and the error names the first line.
BuildPrice ==
  /\ Building /\ kind = "prices"
  /\ \/ /\ With({"bad"}) # {} /\ errors' = errors \o InOrder(With({"bad"})) /\ UNCHANGED rows
     \/ /\ With({"bad"}) = {}
        /\ IF With({"invalid"}) # {}
           THEN errors' = Append(errors, Head(Group)) /\ UNCHANGED rows
           ELSE rows' = Append(rows, [key |-> Head(order), lines |-> Group]) /\ UNCHANGED errors
  /\ UNCHANGED <<kind, file, next, globals, waiting, folded, groups, pc>>

First(lines) == IF lines = {} THEN 0 ELSE Min(lines)
Final(lines) == IF lines = {} THEN 0 ELSE Max(lines)
Flag == First(With({"ok", "bad"}))
Filled == {i \in Range(Group) : file[i].filled}

\* The first line of each option label.
OptionLines ==
  {i \in Range(Group) :
     /\ file[i].option # ""
     /\ \A j \in Range(Group) : file[j].option = file[i].option => i <= j}

\* The label and the flag of the first line that has one, the scope of the last.
Attribute ==
  [key |-> Head(order), lines |-> Group,
   label |-> First(Filled), scope |-> Final(Filled),
   flag |-> Flag, options |-> InOrder(OptionLines)]

\* No attribute's conversion is tried: an integer that int refuses ends the call.
BuildAttribute ==
  /\ Building /\ kind = "attributes"
  /\ (Flag # 0 => file[Flag].cell = "ok")
  /\ rows' = Append(rows, Attribute)
  /\ UNCHANGED <<kind, file, next, globals, waiting, folded, groups, errors, pc>>

Raises ==
  /\ Building /\ kind = "attributes" /\ Flag # 0 /\ file[Flag].cell = "bad"
  /\ pc' = "raised"
  /\ UNCHANGED <<kind, file, next, globals, waiting, folded, groups, rows, errors>>

Return ==
  /\ (pc = "fold" /\ waiting = <<>>) \/ (pc = "build" /\ order = <<>>)
  /\ pc' = "done"
  /\ UNCHANGED <<kind, file, next, globals, waiting, folded, groups, order, rows, errors>>

Next ==
  \/ OtherStore \/ NoKeyLine \/ StoreLine \/ GlobalLine \/ GroupLine \/ ItemLine \/ EndOfFile
  \/ FoldLine \/ BuildPrice \/ BuildAttribute \/ Raises \/ Return

Spec == Init /\ [][Next]_vars

---------------------------------------------------------------------------

LineNo == 1 .. Len(file)

TypeOK ==
  /\ pc \in {"read", "fold", "build", "done", "raised"} /\ next \in 1 .. (Len(file) + 1)
  /\ \A k \in Keys : globals[k] # 0 => file[globals[k]].view = Global
  /\ \A kv \in Keys \X Views : folded[kv] # 0 => file[folded[kv]].view = kv[2] /\ globals[kv[1]] # 0
  /\ Range(order) \subseteq Keys /\ Range(errors) \subseteq LineNo

Valid(i) == file[i].cell = "ok" /\ file[i].key # NoKey
Superseded(i) ==
  \E j \in LineNo : j > i /\ Valid(j) /\ file[j].key = file[i].key /\ file[j].view = file[i].view
Kept(i) ==
  \/ \E k \in Keys : globals[k] = i
  \/ \E kv \in Keys \X Views : folded[kv] = i
  \/ \E r \in DOMAIN rows : i \in Range(rows[r].lines)

\* A line that no error names is part of a returned row, unless a later line of
\* the same key and view replaced it, an error names another line of its SKU,
\* or it is an attribute's line of another store; and no line is both.
NoLineLost ==
  pc = "done" =>
    \A i \in LineNo :
      /\ Kept(i) => i \notin Range(errors)
      /\ Kept(i) \/ i \in Range(errors)
         \/ (kind = "folded" /\ Superseded(i))
         \/ (kind = "prices" /\ \E j \in Range(errors) : file[j].key = file[i].key)
         \/ (kind = "attributes" /\ file[i].view # Global)
      /\ Cardinality({e \in DOMAIN errors : errors[e] = i}) <= 1

\* Where a store view's line stands in the file does not matter: a product's
\* override of a view is its last valid line, before or after the global one.
OverridesFromAnywhere ==
  (kind = "folded" /\ pc = "done") =>
    \A k \in Keys, v \in Views :
      LET lines == {i \in LineNo : Valid(i) /\ file[i].key = k /\ file[i].view = v}
          known == \E i \in LineNo : Valid(i) /\ file[i].key = k /\ file[i].view = Global
      IN folded[<<k, v>>] = IF known /\ lines # {} THEN Max(lines) ELSE 0

\* A price row replaces the SKU's tiers, so it holds all of the SKU's lines or is
\* not returned; an attribute has each option label once, in file order; and a
\* key has one row.
RowsWhole ==
  (kind \in {"prices", "attributes"} /\ pc = "done") =>
    \A r \in DOMAIN rows :
      /\ Range(rows[r].lines) = {i \in LineNo : file[i].key = rows[r].key /\ file[i].view = Global}
      /\ kind = "prices" => \A i \in Range(rows[r].lines) : file[i].cell = "ok"
      /\ kind = "attributes" =>
           LET o == rows[r].options
           IN \A a, b \in DOMAIN o : a < b => o[a] < o[b] /\ file[o[a]].option # file[o[b]].option
      /\ \A q \in DOMAIN rows : rows[q].key = rows[r].key => q = r

\* formats/catalog.py:3-9: a bad row becomes an error, never an exception.
NeverRaises == pc # "raised"

\* docs/File-Formats.md:431-432: an error per bad line of a price file.
EveryBadPriceNamed ==
  (kind = "prices" /\ pc = "done") =>
    \A i \in LineNo : file[i].cell # "ok" => i \in Range(errors)

=============================================================================
