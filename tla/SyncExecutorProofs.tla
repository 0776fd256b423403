------------------------ MODULE SyncExecutorProofs ------------------------
(***************************************************************************)
(* Proofs about SyncExecutor, for any requests, SKUs, scopes and answers.  *)
(***************************************************************************)
EXTENDS SyncExecutor, TLAPS

\* The elements of a sequence.
LEMMA SeqElement ==
  ASSUME NEW S, NEW q \in Seq(S), NEW i \in DOMAIN q
  PROVE  q[i] \in S
  OBVIOUS

\* What the assumption says of one request.
LEMMA RequestFacts ==
  ASSUME NEW r \in DOMAIN Requests
  PROVE  /\ Requests[r].list \in BOOLEAN
         /\ OpsOf(r) \subseteq Op
         /\ \A s \in DOMAIN Requests : s # r => OpsOf(r) \cap OpsOf(s) = {}
  <1>1. Requests[r] \in [list: BOOLEAN, ops: Seq(Op)]
    BY SeqElement, RequestsAssumption
  <1>2. Requests[r].ops \in Seq(Op)
    BY <1>1
  <1>3. OpsOf(r) \subseteq Op
    BY <1>2 DEF OpsOf, Range
  <1> QED
    BY <1>1, <1>3, RequestsAssumption

\* The positions of Requests.
LEMMA Positions ==
  /\ Len(Requests) \in Nat
  /\ DOMAIN Requests = 1..Len(Requests)
  BY RequestsAssumption

\* An item that names a SKU names its own operation.
LEMMA HonestNames ==
  ASSUME NEW item, Honest(item), item.skus # {}
  PROVE  Names(item, item.about)
  BY DEF Honest, Names

\* Attribution never spares a rejected operation, whatever its items name
\* (executor.py 223-226).
LEMMA RejectedIsLost ==
  ASSUME NEW ops, NEW rejected \in SUBSET ops, NEW items,
         AnswerTo(rejected, items)
  PROVE  rejected \subseteq Lost(items, ops)
  <1> SUFFICES ASSUME NEW o \in rejected
               PROVE  o \in Lost(items, ops)
    OBVIOUS
  <1>1. PICK k \in DOMAIN items : items[k].about = o
    BY DEF AnswerTo
  <1>2. Honest(items[k])
    BY DEF AnswerTo
  <1>3. CASE items[k].skus = {}
    <2>1. \A p \in ops : ~Names(items[k], p)
      BY <1>3 DEF Names
    <2>2. k \in Unattributed(items, ops)
      BY <2>1 DEF Unattributed, IsFirst
    <2> QED
      BY <2>2 DEF Lost
  <1>4. CASE items[k].skus # {}
    <2>1. Names(items[k], o)
      BY <1>1, <1>2, <1>4, HonestNames
    <2> QED
      BY <2>1 DEF Lost, NamedIn
  <1> QED
    BY <1>3, <1>4

\* Only operations of the request are failed, and only if one was rejected.
LEMMA LostBounds ==
  ASSUME NEW ops, NEW rejected, NEW items, AnswerTo(rejected, items)
  PROVE  /\ Lost(items, ops) \subseteq ops
         /\ Lost(items, ops) # {} => rejected # {}
  <1>1. Lost(items, ops) \subseteq ops
    BY DEF Lost
  <1>2. Lost(items, ops) # {} => DOMAIN items # {}
    BY DEF Lost, Unattributed, NamedIn
  <1> QED
    BY <1>1, <1>2 DEF AnswerTo

\* When the items name each rejected row in full, once, and the rows of the
\* request can be told apart, exactly the rejected ones are failed.
LEMMA FullNamesBlameExactly ==
  ASSUME NEW ops, NEW rejected \in SUBSET ops, NEW items \in Seq(Item),
         AnswerTo(rejected, items),
         \A k \in DOMAIN items : FullyNamed(items[k]),
         \A j, k \in DOMAIN items : j # k => items[j].about # items[k].about,
         \A o, p \in ops : o # p => Distinguished(o, p)
  PROVE  Lost(items, ops) = rejected
  <1>1. ASSUME NEW k \in DOMAIN items, NEW o \in ops
        PROVE  Names(items[k], o) <=> o = items[k].about
    <2>1. items[k].about \in ops /\ FullyNamed(items[k])
      BY DEF AnswerTo
    <2> QED
      BY <2>1 DEF Names, FullyNamed, Distinguished
  <1>2. ASSUME NEW k \in DOMAIN items
        PROVE  IsFirst(items, k, items[k].about)
    <2>1. items[k].about \in ops
      BY DEF AnswerTo
    <2>2. \A j \in 1..(k - 1) : j \in DOMAIN items /\ j # k
      OBVIOUS
    <2>3. \A j \in 1..(k - 1) : ~Names(items[j], items[k].about)
      BY <1>1, <2>1, <2>2
    <2> QED
      BY <1>1, <2>1, <2>3 DEF IsFirst
  <1>3. Unattributed(items, ops) = {}
    BY <1>2 DEF Unattributed, AnswerTo
  <1>4. {o \in ops : NamedIn(items, o)} = rejected
    BY <1>1 DEF NamedIn, AnswerTo
  <1> QED
    BY <1>3, <1>4 DEF Lost

---------------------------------------------------------------------------
(* The inductive invariant. *)

\* It holds before the first request.
LEMMA InitIInv == Init => IInv
  <1> SUFFICES ASSUME Init PROVE IInv
    OBVIOUS
  <1>1. TypeOK
    BY Positions DEF Init, TypeOK
  <1>2. SentInv
    BY Positions DEF Init, SentInv
  <1>3. CountedOnce /\ AnswerInv /\ SucceededSaved /\ FailedHasCause /\ BlameInv
    BY DEF Init, CountedOnce, AnswerInv, SucceededSaved, FailedHasCause, BlameInv,
           Attributed
  <1> QED
    BY <1>1, <1>2, <1>3 DEF IInv

\* What holds of the request that is sent next.
LEMMA FollowingFacts ==
  ASSUME IInv, NEW isList \in BOOLEAN, SendNext(isList)
  PROVE  /\ Following \in DOMAIN Requests /\ Following \in 1..Len(Requests)
         /\ OpsOf(Following) \subseteq Op
         /\ OpsOf(Following) \cap (succeeded \cup failed \cup saved \cup refused) = {}
         /\ Following \notin broken
         /\ cursor' = cursor + 1 /\ cursor' = Following
         /\ Requests[Following].list = isList
  BY Positions, RequestFacts DEF IInv, TypeOK, SentInv, SendNext, Following

\* A single request that succeeds.
LEMMA SendSingleStep == IInv /\ SendSingle => IInv'
  <1> SUFFICES ASSUME IInv, SendSingle PROVE IInv'
    OBVIOUS
  <1> DEFINE r == Following
             ops == OpsOf(Following)
  <1>1. SendNext(FALSE)
    BY DEF SendSingle
  <1>2. /\ r \in DOMAIN Requests /\ r \in 1..Len(Requests) /\ ops \subseteq Op
        /\ ops \cap (succeeded \cup failed \cup saved \cup refused) = {}
        /\ r \notin broken /\ cursor' = cursor + 1 /\ cursor' = r
        /\ ~Requests[r].list
    BY <1>1, FollowingFacts
  <1>3. /\ pc = "send" /\ pc' = "send" /\ saved' = saved \cup ops
        /\ succeeded' = succeeded \cup ops /\ answer' = <<>>
        /\ UNCHANGED <<failed, refused, broken>>
    BY DEF SendSingle, SendNext
  <1>4. /\ \A s \in DOMAIN Requests : s # r => OpsOf(s) \cap ops = {}
        /\ \A s \in DOMAIN Requests : s < cursor' => s <= cursor
        /\ \A s \in DOMAIN Requests : s > cursor' => s > cursor /\ s # r
    BY <1>2, RequestFacts, Positions DEF IInv, TypeOK
  <1> HIDE DEF r, ops
  <1>5. TypeOK'
    BY <1>2, <1>3 DEF IInv, TypeOK
  <1>6. SentInv'
    BY <1>2, <1>3, <1>4, Positions DEF IInv, TypeOK, SentInv, r, ops
  <1>7. CountedOnce' /\ SucceededSaved'
    BY <1>2, <1>3 DEF IInv, CountedOnce, SucceededSaved
  <1>8. FailedHasCause'
    BY <1>3 DEF IInv, FailedHasCause
  <1>9. AnswerInv' /\ BlameInv'
    BY <1>2, <1>3 DEF AnswerInv, BlameInv, Attributed
  <1> QED
    BY <1>5, <1>6, <1>7, <1>8, <1>9 DEF IInv

\* A list that is answered 2xx.
LEMMA SendListStep == IInv /\ SendList => IInv'
  <1> SUFFICES ASSUME IInv, SendList PROVE IInv'
    OBVIOUS
  <1> DEFINE r == Following
             ops == OpsOf(Following)
  <1>1. SendNext(TRUE)
    BY DEF SendList
  <1>2. /\ r \in DOMAIN Requests /\ r \in 1..Len(Requests) /\ ops \subseteq Op
        /\ ops \cap (succeeded \cup failed \cup saved \cup refused) = {}
        /\ r \notin broken /\ cursor' = cursor + 1 /\ cursor' = r
        /\ Requests[r].list
    BY <1>1, FollowingFacts
  <1>3. PICK rejected \in SUBSET ops :
          /\ \E k \in 0..MaxItems :
               answer' \in [1..k -> {item \in HonestItem : item.about \in rejected}]
          /\ AnswerTo(rejected, answer')
          /\ saved' = saved \cup (ops \ rejected)
          /\ refused' = refused \cup rejected
    BY DEF SendList
  <1>4. /\ pc = "send" /\ pc' = "attribute"
        /\ UNCHANGED <<succeeded, failed, broken>>
    BY DEF SendList, SendNext, result
  <1>5. /\ \A s \in DOMAIN Requests : s # r => OpsOf(s) \cap ops = {}
        /\ \A s \in DOMAIN Requests : s < cursor' => s <= cursor
        /\ \A s \in DOMAIN Requests : s > cursor' => s > cursor /\ s # r
    BY <1>2, RequestFacts, Positions DEF IInv, TypeOK
  <1>6. answer' \in Seq(Item)
    <2>1. PICK k \in 0..MaxItems :
            answer' \in [1..k -> {item \in HonestItem : item.about \in rejected}]
      BY <1>3
    <2>2. answer' \in [1..k -> Item] /\ k \in Nat
      BY <2>1, NamesAssumption DEF HonestItem
    <2> QED
      BY <2>2
  <1> HIDE DEF r, ops
  <1>7. TypeOK'
    BY <1>2, <1>3, <1>4, <1>6 DEF IInv, TypeOK
  <1>8. SentInv'
    BY <1>2, <1>3, <1>4, <1>5, Positions DEF IInv, TypeOK, SentInv, r, ops
  <1>9. CountedOnce' /\ SucceededSaved'
    BY <1>2, <1>3, <1>4 DEF IInv, CountedOnce, SucceededSaved
  <1>10. FailedHasCause'
    BY <1>3, <1>4 DEF IInv, FailedHasCause
  <1>11. AnswerInv'
    <2>1. refused' \cap ops = rejected
      BY <1>2, <1>3
    <2>2. cursor' \notin broken'
      BY <1>2, <1>4
    <2>3. OpsOf(cursor)' = ops
      BY <1>2 DEF OpsOf, r, ops
    <2>4. OpsOf(cursor)' \ refused' \subseteq saved'
      BY <2>1, <2>3, <1>3
    <2>5. AnswerTo(refused' \cap OpsOf(cursor)', answer')
      BY <2>1, <2>3, <1>3
    <2>6. AnswerTo(refused \cap OpsOf(cursor), answer)'
      BY <2>5 DEF AnswerTo
    <2> QED
      BY <2>2, <2>4, <2>6 DEF AnswerInv
  <1>12. BlameInv'
    BY <1>4 DEF BlameInv, Attributed
  <1> QED
    BY <1>7, <1>8, <1>9, <1>10, <1>11, <1>12 DEF IInv

\* A request that ends with an HTTP error.
LEMMA RequestFailsStep == IInv /\ RequestFails => IInv'
  <1> SUFFICES ASSUME IInv, RequestFails PROVE IInv'
    OBVIOUS
  <1> DEFINE r == Following
             ops == OpsOf(Following)
  <1>1. PICK isList \in BOOLEAN : SendNext(isList)
    BY DEF RequestFails
  <1>2. /\ r \in DOMAIN Requests /\ r \in 1..Len(Requests) /\ ops \subseteq Op
        /\ ops \cap (succeeded \cup failed \cup saved \cup refused) = {}
        /\ r \notin broken /\ cursor' = cursor + 1 /\ cursor' = r
    BY <1>1, FollowingFacts
  <1>3. PICK done \in SUBSET ops : saved' = saved \cup done
    BY DEF RequestFails
  <1>4. /\ pc = "send" /\ pc' = "send" /\ failed' = failed \cup ops
        /\ broken' = broken \cup {r} /\ answer' = <<>>
        /\ UNCHANGED <<succeeded, refused>>
    BY <1>1 DEF RequestFails, SendNext
  <1>5. /\ \A s \in DOMAIN Requests : s # r => OpsOf(s) \cap ops = {}
        /\ \A s \in DOMAIN Requests : s < cursor' => s <= cursor
        /\ \A s \in DOMAIN Requests : s > cursor' => s > cursor /\ s # r
    BY <1>2, RequestFacts, Positions DEF IInv, TypeOK
  <1> HIDE DEF r, ops
  <1>6. TypeOK'
    BY <1>2, <1>3, <1>4 DEF IInv, TypeOK
  <1>7. SentInv'
    BY <1>2, <1>3, <1>4, <1>5, Positions DEF IInv, TypeOK, SentInv, r, ops
  <1>8. CountedOnce' /\ SucceededSaved'
    BY <1>2, <1>3, <1>4 DEF IInv, CountedOnce, SucceededSaved
  <1>9. FailedHasCause'
    BY <1>4, <1>5 DEF IInv, FailedHasCause
  <1>10. AnswerInv' /\ BlameInv'
    BY <1>2, <1>4 DEF AnswerInv, BlameInv, Attributed
  <1> QED
    BY <1>6, <1>7, <1>8, <1>9, <1>10 DEF IInv

\* A request that leaves execute().
LEMMA RequestAbortsStep == IInv /\ RequestAborts => IInv'
  <1> SUFFICES ASSUME IInv, RequestAborts PROVE IInv'
    OBVIOUS
  <1> DEFINE r == Following
             ops == OpsOf(Following)
  <1>1. PICK isList \in BOOLEAN : SendNext(isList)
    BY DEF RequestAborts
  <1>2. /\ r \in DOMAIN Requests /\ r \in 1..Len(Requests) /\ ops \subseteq Op
        /\ cursor' = cursor + 1 /\ cursor' = r
    BY <1>1, FollowingFacts
  <1>3. PICK done \in SUBSET ops : saved' = saved \cup done
    BY DEF RequestAborts
  <1>4. /\ pc = "send" /\ pc' = "aborted"
        /\ UNCHANGED <<answer, succeeded, failed, refused, broken>>
    BY <1>1 DEF RequestAborts, SendNext, result
  <1>5. /\ \A s \in DOMAIN Requests : s # r => OpsOf(s) \cap ops = {}
        /\ \A s \in DOMAIN Requests : s < cursor' => s <= cursor
        /\ \A s \in DOMAIN Requests : s > cursor' => s > cursor /\ s # r
    BY <1>2, RequestFacts, Positions DEF IInv, TypeOK
  <1> HIDE DEF r, ops
  <1>6. TypeOK'
    BY <1>2, <1>3, <1>4 DEF IInv, TypeOK
  <1>7. SentInv'
    BY <1>2, <1>3, <1>4, <1>5, Positions DEF IInv, TypeOK, SentInv, r, ops
  <1>8. CountedOnce' /\ SucceededSaved'
    BY <1>3, <1>4 DEF IInv, CountedOnce, SucceededSaved
  <1>9. FailedHasCause'
    BY <1>4 DEF IInv, FailedHasCause
  <1>10. AnswerInv' /\ BlameInv'
    BY <1>4 DEF AnswerInv, BlameInv, Attributed
  <1> QED
    BY <1>6, <1>7, <1>8, <1>9, <1>10 DEF IInv

\* The items of a list are attributed.
LEMMA AttributeStep == IInv /\ Attribute => IInv'
  <1> SUFFICES ASSUME IInv, Attribute PROVE IInv'
    OBVIOUS
  <1> DEFINE ops == OpsOf(cursor)
             lost == Lost(answer, ops)
             rejected == refused \cap ops
  <1>1. /\ pc = "attribute" /\ pc' = "send"
        /\ failed' = failed \cup lost
        /\ succeeded' = succeeded \cup (ops \ lost)
        /\ UNCHANGED <<cursor, answer, saved, refused, broken>>
    BY DEF Attribute, magento
  <1>2. cursor \in DOMAIN Requests /\ cursor \in 1..Len(Requests) /\ ops \subseteq Op
    BY <1>1, Positions, RequestFacts DEF IInv, TypeOK
  <1>3. /\ ops \cap (succeeded \cup failed) = {}
        /\ cursor \notin broken
        /\ AnswerTo(rejected, answer)
        /\ ops \ refused \subseteq saved
    BY <1>1 DEF IInv, SentInv, AnswerInv
  <1>4. rejected \subseteq lost
    BY <1>3, RejectedIsLost
  <1>5. lost \subseteq ops /\ (lost # {} => rejected # {})
    BY <1>3, LostBounds
  <1>6. \A s \in DOMAIN Requests : s # cursor => OpsOf(s) \cap ops = {}
    BY <1>2, RequestFacts
  <1>7. OpsOf(cursor)' = ops /\ Lost(answer, OpsOf(cursor))' = lost
    BY <1>1 DEF OpsOf, Lost, Unattributed, NamedIn, IsFirst, Names
  <1> HIDE DEF ops, lost, rejected
  <1>8. TypeOK'
    BY <1>1, <1>2, <1>5 DEF IInv, TypeOK
  <1>9. SentInv'
    BY <1>1, <1>2, <1>5, <1>6, Positions DEF IInv, TypeOK, SentInv, ops
  <1>10. CountedOnce'
    BY <1>1, <1>3, <1>5 DEF IInv, CountedOnce
  <1>11. SucceededSaved'
    BY <1>1, <1>3, <1>4 DEF IInv, SucceededSaved, rejected
  <1>12. FailedHasCause'
    BY <1>1, <1>5, <1>6 DEF IInv, FailedHasCause, ops, rejected
  <1>13. AnswerInv'
    <2>1. AnswerTo(refused \cap OpsOf(cursor), answer)'
      BY <1>1, <1>3, <1>7 DEF AnswerTo, rejected, ops
    <2> QED
      BY <2>1, <1>1, <1>3, <1>7 DEF AnswerInv
  <1>14. BlameInv'
    BY <1>1, <1>3, <1>5, <1>7 DEF BlameInv
  <1> QED
    BY <1>8, <1>9, <1>10, <1>11, <1>12, <1>13, <1>14 DEF IInv

\* Leaving execute(), with a result or without.
LEMMA EndStep == IInv /\ (AttributeAborts \/ Return) => IInv'
  <1> SUFFICES ASSUME IInv, AttributeAborts \/ Return PROVE IInv'
    OBVIOUS
  <1>1. /\ pc' \in {"aborted", "done"}
        /\ pc' = "done" => pc = "send" /\ cursor = Len(Requests)
        /\ UNCHANGED <<cursor, answer, succeeded, failed, saved, refused, broken>>
    BY DEF AttributeAborts, Return, result, magento
  <1>2. TypeOK'
    BY <1>1 DEF IInv, TypeOK
  <1>3. SentInv'
    BY <1>1, Positions DEF IInv, TypeOK, SentInv, OpsOf
  <1>4. CountedOnce'
    <2>1. ASSUME pc' = "done" PROVE Op \subseteq succeeded \cup failed
      BY <1>1, <2>1, Positions, RequestsAssumption DEF IInv, TypeOK, SentInv
    <2>2. succeeded \cup failed \subseteq Op
      BY DEF IInv, TypeOK
    <2> QED
      BY <1>1, <2>1, <2>2 DEF IInv, CountedOnce
  <1>5. SucceededSaved' /\ FailedHasCause'
    BY <1>1 DEF IInv, SucceededSaved, FailedHasCause, OpsOf
  <1>6. Attributed' => Attributed
    BY <1>1 DEF Attributed
  <1>7. AnswerInv' /\ BlameInv'
    BY <1>1, <1>6 DEF IInv, AnswerInv, BlameInv, Attributed, OpsOf, AnswerTo, Lost,
       Unattributed, NamedIn, IsFirst, Names
  <1> QED
    BY <1>2, <1>3, <1>4, <1>5, <1>7 DEF IInv

\* Every step keeps the invariant.
LEMMA StepIInv == IInv /\ [Next]_vars => IInv'
  <1>1. ASSUME IInv, UNCHANGED vars PROVE IInv'
    <2>1. UNCHANGED <<pc, cursor, answer, succeeded, failed, saved, refused, broken>>
      BY <1>1 DEF vars, result, magento
    <2>2. TypeOK' /\ SentInv'
      BY <1>1, <2>1 DEF IInv, TypeOK, SentInv, OpsOf
    <2>3. CountedOnce' /\ SucceededSaved' /\ FailedHasCause'
      BY <1>1, <2>1 DEF IInv, CountedOnce, SucceededSaved, FailedHasCause, OpsOf
    <2>4. AnswerInv'
      BY <1>1, <2>1 DEF IInv, AnswerInv, Attributed, OpsOf, AnswerTo
    <2>5. BlameInv'
      BY <1>1, <2>1 DEF IInv, BlameInv, Attributed, OpsOf, Lost, Unattributed, NamedIn,
         IsFirst, Names
    <2> QED
      BY <2>2, <2>3, <2>4, <2>5 DEF IInv
  <1> QED
    BY <1>1, SendSingleStep, SendListStep, RequestFailsStep, RequestAbortsStep,
       AttributeStep, EndStep DEF Next

---------------------------------------------------------------------------
(* The theorems. *)

\* The invariant holds of every run, whatever the requests and the answers.
THEOREM Invariance == Spec => []IInv
  BY InitIInv, StepIInv, PTL DEF Spec

\* Type correctness of the sync executor.
THEOREM TypeCorrect == Spec => []TypeOK
  <1>1. IInv => TypeOK
    BY DEF IInv
  <1> QED
    BY <1>1, Invariance, PTL

\* Each operation is counted, and as one of succeeded and failed only.
THEOREM EveryOperationCounted == Spec => []CountedOnce
  <1>1. IInv => CountedOnce
    BY DEF IInv
  <1> QED
    BY <1>1, Invariance, PTL

\* No rejection is hidden: what the result counts as succeeded is saved,
\* whatever Magento's items name.
THEOREM NoRejectionHidden == Spec => []SucceededSaved
  <1>1. IInv => SucceededSaved
    BY DEF IInv
  <1> QED
    BY <1>1, Invariance, PTL

\* Failures stay within the request that caused them.
THEOREM FailuresAreLocal == Spec => []FailedHasCause
  <1>1. IInv => FailedHasCause
    BY DEF IInv
  <1> QED
    BY <1>1, Invariance, PTL

\* The result tells of every row what became of it, whatever Magento answers.
THEOREM RowsAreAccounted == Spec => []RowsAccounted
  <1>1. CountedOnce /\ SucceededSaved /\ FailedHasCause => RowsAccounted
    BY DEF RowsAccounted
  <1> QED
    BY <1>1, EveryOperationCounted, NoRejectionHidden, FailuresAreLocal, PTL

\* Items that name SKU and scope in full fail exactly the rejected rows.
THEOREM BlameIsExact == Spec => []ExactBlame
  <1>1. IInv => ExactBlame
    <2> SUFFICES ASSUME IInv, Attributed,
                        \A k \in DOMAIN answer : FullyNamed(answer[k]),
                        \A j, k \in DOMAIN answer :
                          j # k => answer[j].about # answer[k].about,
                        \A o, p \in OpsOf(cursor) : o # p => Distinguished(o, p)
                 PROVE  failed \cap OpsOf(cursor) = refused \cap OpsOf(cursor)
      BY DEF ExactBlame
    <2>1. answer \in Seq(Item) /\ AnswerTo(refused \cap OpsOf(cursor), answer)
      BY DEF IInv, TypeOK, AnswerInv
    <2>2. Lost(answer, OpsOf(cursor)) = refused \cap OpsOf(cursor)
      BY <2>1, FullNamesBlameExactly
    <2> QED
      BY <2>2 DEF IInv, BlameInv
  <1> QED
    BY <1>1, Invariance, PTL

=============================================================================
