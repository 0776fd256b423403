---------------------------- MODULE RowOutcomes ----------------------------
(***************************************************************************)
(* From the outcomes of operations to one outcome per row: _complete and   *)
(* _fold_by_row, the second try of categories a store refuses for their    *)
(* default_sort_by, _merge_retry and the error ratio.                      *)
(*                                                                         *)
(* A row is a reference (SKU, path, code), what became of it in planning   *)
(* and the outcomes of its operations.  The errors of a result are a set:  *)
(* nothing counts them.                                                    *)
(***************************************************************************)
EXTENDS Integers, Sequences, FiniteSets, SequencesExt

CONSTANTS
  Ref,       \* references of rows
  None,      \* no ratio
  Percents,  \* fail_on_error_ratio, in percent
  MaxRows    \* bound: rows of an import

\* Of the constants; an ASSUME of the module that instantiates this one.
BoundAssumption == MaxRows \in Nat /\ Percents \subseteq 0..100 /\ None \notin Percents

VARIABLES
  categories,  \* input: import_categories, or an importer without a retry
  limit,       \* input: fail_on_error_ratio
  pc,
  rows,        \* the input rows, in order, with what happens to them
  result,      \* the UploadResult
  second,      \* what the second try makes of the rows it takes, by path
  raised       \* MagentoImportError

vars == <<categories, limit, pc, rows, result, second, raised>>

\* What the executor may say of a row's operations; "sort" is the 400 over
\* default_sort_by, of a category's only operation.
OpOutcomes == IF categories THEN {{"ok"}, {"failed"}, {"pending"}, {"sort"}}
              ELSE SUBSET {"ok", "failed", "pending"} \ {{}}

\* Planned: with operations, without any, not at all, left alone by a
\* behavior; or the row never passed its model.
Row == [ref : Ref, plan : {"op"}, ops : OpOutcomes]
  \cup [ref : Ref, plan : {"noop", "failed", "invalid"} \cup
                          (IF categories THEN {} ELSE {"skipped"}), ops : {{}}]

Empty == [succeeded |-> 0, failed |-> 0, pending |-> 0, skipped |-> 0, errors |-> {}]

Init ==
  /\ categories \in BOOLEAN
  /\ limit \in Percents \cup {None}
  /\ pc = "rows"
  /\ rows = <<>>
  /\ result = Empty
  /\ second = <<>>
  /\ raised = FALSE

\* A behavior leaves a row alone for what exists: all rows of the SKU alike.
AddRow ==
  /\ pc = "rows" /\ Len(rows) < MaxRows
  /\ \E row \in Row :
       /\ \A i \in DOMAIN rows : rows[i].ref = row.ref /\ "invalid" \notin {rows[i].plan, row.plan}
                                   => (rows[i].plan = "skipped") = (row.plan = "skipped")
       /\ rows' = Append(rows, row)
  /\ UNCHANGED <<categories, limit, pc, result, second, raised>>

---------------------------------------------------------------------------

With(rs, plan) == {i \in DOMAIN rs : rs[i].plan = plan}
RefsOf(rs, is) == {rs[i].ref : i \in is}

Failing == {"failed", "sort"}

\* The executor's errors, and _row_error_dict of rows planned or validated in
\* vain: the sort error is told from others by its status and message.
ExecErrors(rs) ==
  UNION {{[status |-> IF o \in Failing THEN "failed" ELSE o, ref |-> rs[i].ref, sort |-> o = "sort"] :
            o \in rs[i].ops \ {"ok"}} : i \in DOMAIN rs}
RowErrors(rs) ==
  {[status |-> "failed", ref |-> r, sort |-> FALSE] :
     r \in RefsOf(rs, With(rs, "failed") \cup With(rs, "invalid"))}

\* Mutant of FailedRefs: a row planned in vain is not a failure of its
\* reference.
FailedRefsExecuted(rs) == {e.ref : e \in {x \in ExecErrors(rs) : x.status = "failed"}}

FailedRefs(rs) ==
  RefsOf(rs, With(rs, "failed")) \cup {e.ref : e \in {x \in ExecErrors(rs) : x.status = "failed"}}
PendingRefs(rs) == {e.ref : e \in {x \in ExecErrors(rs) : x.status = "pending"}}

\* _complete: the rows to count by their operations, and those that are in
\* the desired state already.
RowIds(rs) ==
  LET settled == RefsOf(rs, With(rs, "failed") \cup With(rs, "skipped"))
  IN {i \in DOMAIN rs \ With(rs, "invalid") :
        \/ rs[i].ref \in RefsOf(rs, With(rs, "op"))
        \/ categories /\ rs[i].ref \notin settled}
Noop(rs) ==
  {i \in DOMAIN rs \ (With(rs, "invalid") \cup RowIds(rs)) :
     rs[i].ref \notin RefsOf(rs, With(rs, "failed") \cup With(rs, "skipped"))}

\* _fold_by_row
Folded(rs) ==
  LET ids == RowIds(rs)
      failed == {i \in ids : rs[i].ref \in FailedRefs(rs)}
      pending == {i \in ids \ failed : rs[i].ref \in PendingRefs(rs)}
      alone == {i \in With(rs, "failed") : rs[i].ref \notin RefsOf(rs, ids)}
  IN [succeeded |-> Cardinality(ids \ (failed \cup pending)),
      failed |-> Cardinality(failed) + Cardinality(alone) + Cardinality(With(rs, "invalid")),
      pending |-> Cardinality(pending),
      skipped |-> Cardinality(With(rs, "skipped")) + Cardinality(Noop(rs)),
      errors |-> ExecErrors(rs) \cup RowErrors(rs)]

\* check_error_ratio
RatioExceeded(r) ==
  /\ limit # None
  /\ r.failed * 100 > limit * (r.succeeded + r.failed + r.pending)

Complete ==
  /\ pc = "rows"
  /\ result' = Folded(rows)
  /\ pc' = IF categories THEN "retry" ELSE "check"
  /\ UNCHANGED <<categories, limit, rows, second, raised>>

---------------------------------------------------------------------------
(* _retry_without_default_sort_by *)

\* by_path: the last valid row of the path must carry the key; only a row
\* with an operation does.
RetriedPaths(first) ==
  {p \in {e.ref : e \in {x \in first.errors : x.sort}} :
     rows[Max({i \in DOMAIN rows \ With(rows, "invalid") : rows[i].ref = p})].plan = "op"}

\* Mutant of Merged: every failure of the first result is dropped.
MergedDropsAll(first, retry) ==
  [succeeded |-> first.succeeded + retry.succeeded,
   failed |-> first.failed - Cardinality(RetriedPaths(first)) + retry.failed,
   pending |-> first.pending + retry.pending, skipped |-> first.skipped + retry.skipped,
   errors |-> {e \in first.errors : e.status # "failed"} \cup retry.errors]

\* _merge_retry
Merged(first, retry) ==
  LET gone == {e \in first.errors : e.status = "failed" /\ e.ref \in RetriedPaths(first)}
  IN [succeeded |-> first.succeeded + retry.succeeded,
      failed |-> first.failed - Cardinality({e.ref : e \in gone}) + retry.failed,
      pending |-> first.pending + retry.pending,
      skipped |-> first.skipped + retry.skipped,
      errors |-> (first.errors \ gone) \cup retry.errors]

\* The stripped rows are planned and executed again: without the key the
\* type error cannot recur; a row may have nothing left to write.
Retry ==
  /\ pc = "retry"
  /\ LET paths == RetriedPaths(result)
     IN /\ second' \in {f \in [paths -> Row] :
             \A p \in paths : f[p].ref = p /\ f[p].plan # "invalid" /\ "sort" \notin f[p].ops}
        /\ result' = IF paths = {} THEN result
                     ELSE Merged(result, Folded(SetToSeq({second'[p] : p \in paths})))
  /\ pc' = "check"
  /\ UNCHANGED <<categories, limit, rows, raised>>

Check ==
  /\ pc = "check"
  /\ raised' = (raised \/ RatioExceeded(result))
  /\ pc' = "done"
  /\ UNCHANGED <<categories, limit, rows, result, second>>

Next == AddRow \/ Complete \/ Retry \/ Check

Spec == Init /\ [][Next]_vars

---------------------------------------------------------------------------

\* What really became of a row: of its second try where there was one.
Tried(i) == IF rows[i].plan = "op" /\ rows[i].ref \in DOMAIN second
           THEN second[rows[i].ref] ELSE rows[i]
FateOf(r) ==
  IF r.plan \in {"failed", "invalid"} \/ r.ops \cap Failing # {} THEN "failed"
  ELSE IF "pending" \in r.ops THEN "pending"
  ELSE IF r.plan = "skipped" \/ (r.plan = "noop" /\ ~categories) THEN "skipped"
  ELSE "succeeded"
Fate(i) == FateOf(Tried(i))

Fated(fate) == {i \in DOMAIN rows : Fate(i) = fate}
Distinct == \A i, j \in DOMAIN rows : rows[i].ref = rows[j].ref => i = j
Counted == pc \in {"check", "done"}

\* Every row of distinct references is counted once, as what became of it,
\* however many operations it had and whether or not it was tried again.
CountsAreFates ==
  Distinct /\ Counted =>
    /\ result.succeeded = Cardinality(Fated("succeeded"))
    /\ result.failed = Cardinality(Fated("failed"))
    /\ result.pending = Cardinality(Fated("pending"))
    /\ result.skipped = Cardinality(Fated("skipped"))

\* Also when rows share a reference: every row that failed itself is counted
\* as failed, and none that failed or is pending as succeeded.
NoFailureHidden ==
  Counted /\ second = <<>> =>
    /\ result.failed >= Cardinality(Fated("failed"))
    /\ result.succeeded <= Cardinality(Fated("succeeded") \cup Fated("skipped"))

\* The errors name exactly the rows that failed, of the try that counts.
ErrorsNameFailed ==
  Distinct /\ Counted =>
    {e.ref : e \in {x \in result.errors : x.status = "failed"}} = RefsOf(rows, Fated("failed"))

\* importers.py:352-353: a row the retry repairs never counts as a failure.
RepairedNeverRaises == Distinct /\ Fated("failed") = {} /\ pc = "done" => ~raised

\* importers.py:4: every importer counts one outcome per row.
OneOutcomePerRow ==
  Counted => result.succeeded + result.failed + result.pending + result.skipped = Len(rows)

\* importers.py:411-412: the original failures of exactly the retried rows
\* are replaced, so what is still counted as failed is still named.
FailuresStayNamed ==
  Counted /\ result.failed > 0 => \E e \in result.errors : e.status = "failed"
===========================================================================
