--------------------------- MODULE SyncExecutor ---------------------------
(***************************************************************************)
(* executor._execute_sync: requests sent one after the other, single ones  *)
(* and lists.  A list endpoint answers 2xx with the items it rejected; the *)
(* executor has to find out which rows those are about from what an item   *)
(* names, and must never report a rejected row as succeeded.               *)
(*                                                                         *)
(* Requests is what phases, grouping (ExecutionOrder) and chunking         *)
(* (ListChunks) make of a plan.  One send is one call of the request layer *)
(* (MagentoRequest), which ends whatever the store does.                   *)
(***************************************************************************)
EXTENDS Integers, Sequences, FiniteSets, Functions

CONSTANTS
  Op,        \* operations
  Requests,  \* the requests in order: [list |-> BOOLEAN, ops |-> a sequence]
  Sku,       \* SKUs
  SkuOf,     \* the SKU of an operation: its payload's, or its row_refs
  Scope,     \* stores and sources
  NoScope,   \* none named, or the payload has no such field
  ScopeOf,   \* the store or source in an operation's payload
  MaxItems   \* bound: items in an answer

OpsOf(r) == Range(Requests[r].ops)

ASSUME RequestsAssumption ==
  /\ Requests \in Seq([list: BOOLEAN, ops: Seq(Op)])
  /\ \A r \in DOMAIN Requests :
       /\ Requests[r].ops # <<>> /\ IsInjective(Requests[r].ops)
       /\ ~Requests[r].list => Len(Requests[r].ops) = 1
  /\ \A r, s \in DOMAIN Requests : r # s => OpsOf(r) \cap OpsOf(s) = {}
  /\ Op = UNION {OpsOf(r) : r \in DOMAIN Requests}

ASSUME NamesAssumption ==
  /\ SkuOf \in [Op -> Sku]
  /\ NoScope \notin Scope
  /\ ScopeOf \in [Op -> Scope \cup {NoScope}]
  /\ MaxItems \in Nat

VARIABLES
  pc,         \* send, attribute, done or aborted
  cursor,     \* requests sent so far
  answer,     \* the failed items of the last request, if it was a list
  succeeded,  \* operations the result counts as succeeded
  failed,     \* operations the result counts as failed
  saved,      \* Magento has saved the operation
  refused,    \* Magento has rejected it in the answer to a list
  broken      \* requests that ended with an HTTP error

result == <<succeeded, failed>>
magento == <<saved, refused, broken>>
vars == <<pc, cursor, answer, result, magento>>

\* A failed item: the operation it is about and what it names: SKUs (several
\* when its placeholders are numbered), a store or source.
Item == [about: Op, skus: SUBSET Sku, scope: Scope \cup {NoScope}]

TypeOK ==
  /\ pc \in {"send", "attribute", "done", "aborted"}
  /\ cursor \in 0..Len(Requests)
  /\ pc = "attribute" => cursor > 0 /\ Requests[cursor].list
  /\ answer \in Seq(Item)
  /\ succeeded \subseteq Op
  /\ failed \subseteq Op
  /\ saved \subseteq Op
  /\ refused \subseteq Op
  /\ broken \subseteq DOMAIN Requests

Init ==
  /\ pc = "send"
  /\ cursor = 0
  /\ answer = <<>>
  /\ succeeded = {}
  /\ failed = {}
  /\ saved = {}
  /\ refused = {}
  /\ broken = {}

---------------------------------------------------------------------------
(* Magento's answer to a list. *)

\* An item names nothing, or its own operation's SKU, perhaps among other
\* values, and then that operation's store or source or none.
Honest(item) ==
  /\ item.skus # {} => SkuOf[item.about] \in item.skus
  /\ item.scope \in {NoScope, ScopeOf[item.about]}
  /\ item.scope # NoScope => item.skus \subseteq {SkuOf[item.about]}

HonestItem == {item \in Item : Honest(item)}

\* Every rejected operation has an item, some more than one.
AnswerTo(rejected, items) ==
  /\ \A k \in DOMAIN items : Honest(items[k]) /\ items[k].about \in rejected
  /\ \A o \in rejected : \E k \in DOMAIN items : items[k].about = o

---------------------------------------------------------------------------
(* The executor. *)

\* The request that is sent next.
Following == cursor + 1

SendNext(isList) ==
  /\ pc = "send"
  /\ cursor < Len(Requests)
  /\ Requests[Following].list = isList
  /\ cursor' = Following

\* A single request that succeeds.
SendSingle ==
  /\ SendNext(FALSE)
  /\ saved' = saved \cup OpsOf(Following)
  /\ succeeded' = succeeded \cup OpsOf(Following)
  /\ answer' = <<>>
  /\ UNCHANGED <<pc, failed, refused, broken>>

\* A list answered 2xx: what is not rejected is saved.
SendList ==
  /\ SendNext(TRUE)
  /\ \E rejected \in SUBSET OpsOf(Following) :
       /\ \E k \in 0..MaxItems :
            answer' \in [1..k -> {item \in HonestItem : item.about \in rejected}]
       /\ AnswerTo(rejected, answer')
       /\ saved' = saved \cup (OpsOf(Following) \ rejected)
       /\ refused' = refused \cup rejected
  /\ pc' = "attribute"
  /\ UNCHANGED <<result, broken>>

\* An HTTP error fails the rows of the request, whatever Magento saved of
\* them before it, or before a gateway, answered.
RequestFails ==
  /\ \E isList \in BOOLEAN : SendNext(isList)
  /\ \E done \in SUBSET OpsOf(Following) : saved' = saved \cup done
  /\ failed' = failed \cup OpsOf(Following)
  /\ broken' = broken \cup {Following}
  /\ answer' = <<>>
  /\ UNCHANGED <<pc, succeeded, refused>>

\* An authentication or connection error leaves execute().
RequestAborts ==
  /\ \E isList \in BOOLEAN : SendNext(isList)
  /\ \E done \in SUBSET OpsOf(Following) : saved' = saved \cup done
  /\ pc' = "aborted"
  /\ UNCHANGED <<answer, result, refused, broken>>

\* Mutant of Names: a store or source the item names is ignored.
NamesAnyScope(item, o) == SkuOf[o] \in item.skus

\* _item_names_operation
Names(item, o) ==
  /\ SkuOf[o] \in item.skus
  /\ \/ NoScope \in {item.scope, ScopeOf[o]}
     \/ item.scope = ScopeOf[o]

NamedIn(items, o) == \E k \in DOMAIN items : Names(items[k], o)

\* _find_failed_item: item k is the first that names operation o.
IsFirst(items, k, o) == Names(items[k], o) /\ \A j \in 1..(k - 1) : ~Names(items[j], o)

\* Mutant of Unattributed: an item that names no row is passed over.
UnattributedNone(items, ops) == {}

\* The items that are the first for no operation.
Unattributed(items, ops) ==
  {k \in DOMAIN items : \A o \in ops : ~IsFirst(items, k, o)}

\* Each named operation fails; an item left over fails all the others.
Lost(items, ops) ==
  IF Unattributed(items, ops) # {} THEN ops ELSE {o \in ops : NamedIn(items, o)}

Attribute ==
  /\ pc = "attribute"
  /\ LET ops == OpsOf(cursor)
         lost == Lost(answer, ops)
     IN /\ failed' = failed \cup lost
        /\ succeeded' = succeeded \cup (ops \ lost)
  /\ pc' = "send"
  /\ UNCHANGED <<cursor, answer, magento>>

\* A 2xx body that is not JSON: response.json() raises.
AttributeAborts ==
  /\ pc = "attribute"
  /\ pc' = "aborted"
  /\ UNCHANGED <<cursor, answer, result, magento>>

Return ==
  /\ pc = "send"
  /\ cursor = Len(Requests)
  /\ pc' = "done"
  /\ UNCHANGED <<cursor, answer, result, magento>>

Next ==
  \/ SendSingle \/ SendList \/ RequestFails \/ RequestAborts
  \/ Attribute \/ AttributeAborts \/ Return

Spec == Init /\ [][Next]_vars

---------------------------------------------------------------------------
(* Properties. *)

\* Every operation is counted, and as one of succeeded and failed only.
CountedOnce ==
  /\ succeeded \cap failed = {}
  /\ pc = "done" => succeeded \cup failed = Op

\* What the result counts as succeeded is saved: no rejection is hidden,
\* whatever the items name (executor.py 223-226).
SucceededSaved == succeeded \subseteq saved

\* An operation fails only for what happened to its own request: an error, or
\* a rejected item.
FailedHasCause ==
  \A r \in DOMAIN Requests :
    OpsOf(r) \cap failed # {} => r \in broken \/ OpsOf(r) \cap refused # {}

\* The result tells of every row what became of it (_send_single,
\* _send_list_chunk).
RowsAccounted == CountedOnce /\ SucceededSaved /\ FailedHasCause

\* The items of the last list have been attributed.
Attributed ==
  /\ pc \in {"send", "done"}
  /\ cursor > 0
  /\ Requests[cursor].list
  /\ cursor \notin broken

FullyNamed(item) == item.skus = {SkuOf[item.about]} /\ item.scope = ScopeOf[item.about]

\* Two operations of a request that a SKU with a store or source tells apart.
Distinguished(o, p) ==
  SkuOf[o] = SkuOf[p] => /\ NoScope \notin {ScopeOf[o], ScopeOf[p]}
                         /\ ScopeOf[o] # ScopeOf[p]

\* When Magento names SKU and scope in full, once per rejected row, and no two
\* rows of the request bear the same, exactly the rejected rows fail: "a
\* failure for SKU X on store 1 must not fail X's store 0 operation"
\* (executor.py 243-245).
ExactBlame ==
  /\ Attributed
  /\ \A k \in DOMAIN answer : FullyNamed(answer[k])
  /\ \A j, k \in DOMAIN answer : j # k => answer[j].about # answer[k].about
  /\ \A o, p \in OpsOf(cursor) : o # p => Distinguished(o, p)
  => failed \cap OpsOf(cursor) = refused \cap OpsOf(cursor)

\* executor.py 199-202: "An item is attributed to the operation whose SKU it
\* names [...]; everything not named succeeded."  So when every item names a
\* row of the request, no other row fails.
NotNamedSucceeds ==
  /\ Attributed
  /\ \A k \in DOMAIN answer : \E o \in OpsOf(cursor) : Names(answer[k], o)
  => \A o \in failed \cap OpsOf(cursor) : NamedIn(answer, o)

---------------------------------------------------------------------------
(* The inductive invariant behind the properties. *)

\* Nothing is known of the requests to come; those of the past are counted.
SentInv ==
  /\ \A r \in DOMAIN Requests : r > cursor =>
       /\ OpsOf(r) \cap (succeeded \cup failed \cup saved \cup refused) = {}
       /\ r \notin broken
  /\ \A r \in DOMAIN Requests : r < cursor => OpsOf(r) \subseteq succeeded \cup failed
  /\ pc \in {"send", "done"} /\ cursor > 0 => OpsOf(cursor) \subseteq succeeded \cup failed
  /\ pc = "attribute" => OpsOf(cursor) \cap (succeeded \cup failed) = {}
  /\ pc = "done" => cursor = Len(Requests)

\* The answer at hand is one to the request at hand.
AnswerInv ==
  pc = "attribute" \/ Attributed =>
    /\ cursor \notin broken
    /\ AnswerTo(refused \cap OpsOf(cursor), answer)
    /\ OpsOf(cursor) \ refused \subseteq saved

BlameInv == Attributed => failed \cap OpsOf(cursor) = Lost(answer, OpsOf(cursor))

IInv ==
  /\ TypeOK
  /\ SentInv
  /\ CountedOnce
  /\ AnswerInv
  /\ SucceededSaved
  /\ FailedHasCause
  /\ BlameInv

=============================================================================
