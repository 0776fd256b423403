----------------------------- MODULE XmlReader -----------------------------
(***************************************************************************)
(* _read_xml_rows: the rows of a Magento export file, read from the start  *)
(* and end events of iterparse.  The file is any well-formed tree, or one  *)
(* that breaks off; a row is what the children of its element are.         *)
(***************************************************************************)
EXTENDS Integers, Sequences, FiniteSets, SequencesExt

CONSTANTS
  Entities,   \* names of entity elements
  None,       \* entity=None
  MaxStarts   \* bound: elements of a file

\* Of the constants; an ASSUME of the module that instantiates this one.
NoneAssumption == None \notin Entities /\ MaxStarts \in Nat

VARIABLES
  entity,     \* input: the entity asked for
  open,       \* the file: the tags of the open elements
  starts,     \* the file: elements so far
  children,   \* the file: the kinds of children of the open row
  rows,       \* the file: its rows so far, as <<entity, kinds of children>>
  entities, active, depth, ordinal,
  yielded,    \* what the caller got, as <<ordinal, entity, kinds>>
  outcome     \* reading, done, or the ValueError

file == <<open, starts, children, rows>>
vars == <<entity, file, entities, active, depth, ordinal, yielded, outcome>>

Init ==
  /\ entity \in Entities \cup {None}
  /\ open = <<>> /\ starts = 0 /\ children = {} /\ rows = <<>>
  /\ entities = {} /\ active = None /\ depth = 0 /\ ordinal = 0
  /\ yielded = <<>> /\ outcome = "reading"

Keeps == UNCHANGED <<entity, ordinal, yielded>>

StartRoot ==
  /\ outcome = "reading" /\ open = <<>> /\ starts = 0
  /\ \E tag \in {"export", "feed"} :
       /\ open' = <<tag>> /\ starts' = 1
       /\ IF tag = "export" THEN depth' = 1 /\ UNCHANGED outcome
          ELSE outcome' = "wrong root" /\ UNCHANGED depth
  /\ UNCHANGED <<children, rows, entities, active>> /\ Keeps

\* Mutant of ActiveAfter: the last entity stays active.
ActiveKept(name) == IF entity # None /\ name # entity THEN active ELSE name

Ambiguous(name) == entity = None /\ name \in entities
ActiveAfter(name) == IF entity # None /\ name # entity THEN None ELSE name

StartEntity ==
  /\ outcome = "reading" /\ Len(open) = 1 /\ starts < MaxStarts
  /\ \E name \in Entities :
       /\ open' = Append(open, name) /\ starts' = starts + 1
       /\ IF Ambiguous(name) THEN outcome' = "ambiguous" /\ UNCHANGED <<entities, active>>
          ELSE entities' = entities \cup {name} /\ active' = ActiveAfter(name) /\ UNCHANGED outcome
  /\ depth' = depth + 1
  /\ UNCHANGED <<children, rows>> /\ Keeps

\* A row, or an element that is none, inside an entity or inside each other.
StartInner ==
  /\ outcome = "reading" /\ Len(open) \in 2..3 /\ starts < MaxStarts
  /\ \E tag \in {"row", "group"} : open' = Append(open, tag)
  /\ starts' = starts + 1
  /\ depth' = depth + 1
  /\ children' = IF Len(open) = 2 THEN {} ELSE children \cup {"other"}
  /\ UNCHANGED <<rows, entities, active, outcome>> /\ Keeps

\* A field of a row, from its start to its end.
Field ==
  /\ outcome = "reading" /\ Len(open) = 3
  /\ \E kind \in {"field", "nested"} \ children : children' = children \cup {kind}
  /\ UNCHANGED <<entity, open, starts, rows, entities, active, depth, ordinal, yielded, outcome>>

IsRow == depth = 3 /\ Last(open) = "row"

\* _xml_row_dict raises
Refused == "nested" \in children

End ==
  /\ outcome = "reading" /\ open # <<>>
  /\ open' = Front(open)
  /\ rows' = IF Len(open) = 3 /\ Last(open) = "row"
             THEN Append(rows, <<open[2], children>>) ELSE rows
  /\ depth' = depth - 1
  /\ IF IsRow /\ active # None
     THEN /\ ordinal' = ordinal + 1
          /\ IF Refused THEN outcome' = "nested" /\ UNCHANGED yielded
             ELSE /\ yielded' = Append(yielded, <<ordinal', active, children>>)
                  /\ UNCHANGED outcome
     ELSE UNCHANGED <<ordinal, yielded, outcome>>
  /\ UNCHANGED <<entity, starts, children, entities, active>>

EndOfFile ==
  /\ outcome = "reading" /\ open = <<>> /\ starts > 0
  /\ outcome' = IF entity # None /\ entity \notin entities THEN "absent" ELSE "done"
  /\ UNCHANGED <<entity, file, entities, active, depth, ordinal, yielded>>

\* ET.ParseError
Malformed ==
  /\ outcome = "reading" /\ open # <<>>
  /\ outcome' = "malformed"
  /\ UNCHANGED <<entity, file, entities, active, depth, ordinal, yielded>>

Next == StartRoot \/ StartEntity \/ StartInner \/ Field \/ End \/ EndOfFile \/ Malformed

Spec == Init /\ [][Next]_vars

---------------------------------------------------------------------------

\* The rows of the entity asked for, and the number of one among them.
Asked == {p \in DOMAIN rows : rows[p][1] = entity}
Number(p) == Cardinality({q \in Asked : q <= p})

\* With an entity asked for, the caller has got exactly that entity's rows,
\* however often its element is opened and closed around others, numbered
\* from 1 inside the entity, whole when the reader ends.
SelectedRows ==
  entity # None =>
    /\ Len(yielded) = Cardinality(Asked) - (IF outcome = "nested" THEN 1 ELSE 0)
    /\ \A p \in Asked :
         Number(p) <= Len(yielded) => yielded[Number(p)] = <<Number(p), entity, rows[p][2]>>

\* A file is accepted only when it holds the entity asked for, and no row
\* with a nested value is ever yielded.
NothingDropped ==
  /\ outcome = "done" /\ entity # None => entity \in entities
  /\ \A i \in DOMAIN yielded : "nested" \notin yielded[i][3]

\* Files of one entity need no choice: they are read like with it.
OneEntityNeedsNoChoice ==
  entity = None /\ Cardinality(entities) = 1 /\ outcome = "done" =>
    yielded = [i \in DOMAIN rows |-> <<i, rows[i][1], rows[i][2]>>]

\* readers.py:25-27: a file that does not hold exactly one entity is refused
\* when none is asked for.
OnlyOneEntity ==
  entity = None /\ outcome = "done" => Cardinality({rows[i][1] : i \in DOMAIN rows}) <= 1

\* readers.py:144-146: a refused file never yields rows before it fails.
RefusedBeforeRows == outcome = "ambiguous" => yielded = <<>>

\* readers.py:140-142: any other element of a row is refused.
OtherChildRefused == \A i \in DOMAIN yielded : "other" \notin yielded[i][3]
===========================================================================
