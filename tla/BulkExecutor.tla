--------------------------- MODULE BulkExecutor ---------------------------
(***************************************************************************)
(* The bulk mode of execute(): executor._execute_bulk, _process_bulk_chunk *)
(* and _partial_submission, with bulk.wait_bulk and map_detailed_status,   *)
(* running against Magento's message queue consumers.                      *)
(*                                                                         *)
(* The importer first sends the operations that have no bulk form.  It     *)
(* then takes the chunks of Schedule in order.  A chunk is submitted as    *)
(* one bulk, polled until nothing in it is open or the wait ends, and      *)
(* classified; what failed retriably is submitted once more in a bulk of   *)
(* its own before the next chunk.  Consumers run the queued operations at  *)
(* any time, in any order, and may die half-way.                           *)
(*                                                                         *)
(* One tick of the wait's clock is one poll_interval_s.  Item ids, which   *)
(* the code counts from 0, are positions in the bulk and count from 1.     *)
(***************************************************************************)
EXTENDS Integers, Sequences, FiniteSets, Functions

CONSTANTS
  DirectOp,   \* operations with no bulk form (op.bulk is None)
  BulkOp,     \* operations with one
  Direct,     \* the former, in the order they are sent
  Schedule,   \* the chunks of the latter, in the order they are submitted
  Phase,      \* BulkSpec.phase of each operation of BulkOp
  Timeout     \* ticks a wait lasts (bulk_timeout_s / poll_interval_s)

ASSUME OpAssumption == DirectOp \cap BulkOp = {}

ASSUME DirectAssumption ==
  /\ Direct \in Seq(DirectOp)
  /\ IsInjective(Direct)
  /\ Range(Direct) = DirectOp

\* What grouping, the stable sort by phase and chunk_rows make of a plan.
ASSUME ScheduleAssumption ==
  /\ Phase \in [BulkOp -> Nat]
  /\ Schedule \in Seq(Seq(BulkOp))
  /\ \A c \in DOMAIN Schedule : Schedule[c] # <<>> /\ IsInjective(Schedule[c])
  /\ \A c \in DOMAIN Schedule : \A o, p \in Range(Schedule[c]) : Phase[o] = Phase[p]
  /\ \A o \in BulkOp : \E c \in DOMAIN Schedule : o \in Range(Schedule[c])
  /\ \A c, d \in DOMAIN Schedule :
       c < d => /\ Range(Schedule[c]) \cap Range(Schedule[d]) = {}
                /\ \A o \in Range(Schedule[c]), p \in Range(Schedule[d]) :
                     Phase[o] <= Phase[p]

ASSUME TimeoutAssumption == Timeout \in Nat

VARIABLES
  pc,         \* where the importer is
  sent,       \* operations of Direct sent so far
  cursor,     \* the chunk being worked on
  batch,      \* the bulk being built or polled: a chunk, or its retried items
  attempt,    \* 1 while allow_retry, 2 for the resubmission
  rejected,   \* item ids Magento rejected at submission
  elapsed,    \* ticks since the wait began
  outcome,    \* the last verdict the result holds for an operation
  counted,    \* how often the result counts it
  mq,         \* Magento: state of an operation in the bulk of each attempt
  unacked     \* history: scheduled by a submission that raised no uuid

wait == <<batch, attempt, rejected, elapsed>>
result == <<outcome, counted>>
magento == <<mq, unacked>>
vars == <<pc, sent, cursor, wait, result, magento>>

Op == DirectOp \cup BulkOp
Verdict == {"succeeded", "failed", "pending"}
Attempt == {1, 2}

\* "dropped" lost its message before any effect, "crashed" saved but died
\* before it wrote its status; the detailed status lists both as open.
\* "failed" stands for the statuses 3 and 5.
Unsettled == {"open", "dropped", "crashed"}
Settled == {"complete", "retriable", "failed"}
Status == {"none"} \cup Unsettled \cup Settled

TypeOK ==
  /\ pc \in {"direct", "submit", "wait", "done", "aborted"}
  /\ sent \in 0..Len(Direct)
  /\ cursor \in 0..(Len(Schedule) + 1)
  /\ batch \in Seq(BulkOp)
  /\ attempt \in Attempt
  /\ rejected \subseteq DOMAIN batch
  /\ elapsed \in 0..Timeout
  /\ outcome \in [Op -> Verdict \cup {"none"}]
  /\ counted \in [Op -> Nat]
  /\ mq \in [BulkOp -> [Attempt -> Status]]
  /\ unacked \subseteq BulkOp

Init ==
  /\ pc = "direct"
  /\ sent = 0
  /\ cursor = 0
  /\ batch = <<>>
  /\ attempt = 1
  /\ rejected = {}
  /\ elapsed = 0
  /\ outcome = [o \in Op |-> "none"]
  /\ counted = [o \in Op |-> 0]
  /\ mq = [o \in BulkOp |-> [a \in Attempt |-> "none"]]
  /\ unacked = {}

---------------------------------------------------------------------------
(* Steps shared by the handlers. *)

\* The next turn of the loop over chunks, or the end of the run.
StartChunk ==
  /\ cursor' = cursor + 1
  /\ attempt' = 1
  /\ rejected' = {}
  /\ elapsed' = 0
  /\ IF cursor < Len(Schedule)
       THEN pc' = "submit" /\ batch' = Schedule[cursor + 1]
       ELSE pc' = "done" /\ batch' = <<>>

\* Those of the items ids that are operation o.
ItemsOf(o, ids) == {i \in ids : batch[i] = o}

\* The items ids of the bulk enter the result, item i with verdict[i].
Report(ids, verdict) ==
  /\ outcome' = [o \in Op |-> IF ItemsOf(o, ids) = {} THEN outcome[o]
                              ELSE verdict[CHOOSE i \in ItemsOf(o, ids) : TRUE]]
  /\ counted' = [o \in Op |-> IF ItemsOf(o, ids) = {} THEN counted[o]
                              ELSE counted[o] + 1]

\* Magento schedules the items ids of the bulk.
Enqueue(ids) ==
  mq' = [o \in BulkOp |-> IF ItemsOf(o, ids) = {} THEN mq[o]
                          ELSE [mq[o] EXCEPT ![attempt] = "open"]]

\* The members of S in ascending order.
InOrder(S) ==
  [k \in 1..Cardinality(S) |->
     CHOOSE i \in S : Cardinality({j \in S : j < i}) = k - 1]

---------------------------------------------------------------------------
(* Operations without a bulk form, before any bulk.  Module SyncExecutor     *)
(* models their requests; here each is answered by itself.                 *)

\* The request is answered: 2xx, or a refusal that fails the operation.
SendDirect ==
  /\ pc = "direct"
  /\ sent < Len(Direct)
  /\ sent' = sent + 1
  /\ \E v \in {"succeeded", "failed"} :
       outcome' = [outcome EXCEPT ![Direct[sent + 1]] = v]
  /\ counted' = [counted EXCEPT ![Direct[sent + 1]] = @ + 1]
  /\ UNCHANGED <<pc, cursor, wait, magento>>

DirectDone ==
  /\ pc = "direct"
  /\ sent = Len(Direct)
  /\ StartChunk
  /\ UNCHANGED <<sent, result, magento>>

\* MagentoAuthError, a timeout or a connection error is no HTTPError: it
\* leaves execute().
AbortDirect ==
  /\ pc = "direct"
  /\ sent < Len(Direct)
  /\ pc' = "aborted"
  /\ UNCHANGED <<sent, cursor, wait, result, magento>>

---------------------------------------------------------------------------
(* Submission of a bulk. *)

\* A uuid comes back: with a 2xx (no item rejected), or in the body of an
\* error answered after the accepted items were scheduled.
Submit ==
  /\ pc = "submit"
  /\ \E ids \in SUBSET DOMAIN batch :
       /\ rejected' = ids
       /\ Enqueue(DOMAIN batch \ ids)
  /\ pc' = "wait"
  /\ elapsed' = 0
  /\ UNCHANGED <<sent, cursor, batch, attempt, result, unacked>>

\* An HTTPError without a uuid fails every row of the bulk.
FailBatch ==
  /\ pc = "submit"
  /\ Report(DOMAIN batch, [i \in DOMAIN batch |-> "failed"])
  /\ StartChunk
  /\ UNCHANGED sent

\* Magento refused the bulk.
SubmitRefused ==
  /\ FailBatch
  /\ UNCHANGED magento

\* A gateway answered 502, 503 or 504 for a bulk Magento did schedule.
SubmitUnacknowledged ==
  /\ FailBatch
  /\ Enqueue(DOMAIN batch)
  /\ unacked' = unacked \cup Range(batch)

\* No HTTPError: the run ends, whether or not Magento took the bulk.
SubmitAborted ==
  /\ pc = "submit"
  /\ pc' = "aborted"
  /\ Enqueue(DOMAIN batch) \/ UNCHANGED mq
  /\ UNCHANGED <<sent, cursor, wait, result, unacked>>

---------------------------------------------------------------------------
(* Polling the bulk. *)

\* What a read of the detailed status says of item i.
Listed(i) ==
  LET s == mq[batch[i]][attempt] IN IF s \in Unsettled THEN "open" ELSE s

\* The lists a read may return: every settled item and any of the open ones,
\* in any order.  Rejected items have no operation to list.
Responses ==
  LET scheduled == DOMAIN batch \ rejected
      settled == {i \in scheduled : Listed(i) # "open"}
      orders == UNION {Bijection(1..Cardinality(M), M) :
                         M \in {S \in SUBSET scheduled : settled \subseteq S}}
  IN  {[k \in DOMAIN f |-> [id |-> f[k], status |-> Listed(f[k])]] :
         f \in orders}

\* Status of items 1..n by operation id, never by position; the last entry
\* of an id wins, an id without an entry is missing.
MapDetailedStatus(response, n) ==
  LET at(i) == {k \in DOMAIN response : response[k].id = i}
      last(i) == CHOOSE k \in at(i) : \A l \in at(i) : l <= k
  IN  [i \in 1..n |-> IF at(i) = {} THEN "missing" ELSE response[last(i)].status]

StillOpen == {"open", "missing"}

\* Mutant of AnyOpen: waits for rejected items too.
AnyOpenOfAll(seen) == \E i \in DOMAIN batch : seen[i] \in StillOpen

AnyOpen(seen) == \E i \in DOMAIN batch \ rejected : seen[i] \in StillOpen

\* Mutant of Retried: resubmits what is still open as well.
RetriedWithOpen(seen) ==
  {i \in DOMAIN batch \ rejected : seen[i] \in {"retriable"} \cup StillOpen /\ attempt = 1}

\* Items of the bulk to submit again.
Retried(seen) ==
  {i \in DOMAIN batch \ rejected : seen[i] = "retriable" /\ attempt = 1}

\* Mutant of VerdictOf: the second retriable failure is left pending.
VerdictRetriablePends(i, seen) ==
  CASE i \in rejected -> "failed"
    [] i \notin rejected /\ seen[i] = "complete" -> "succeeded"
    [] i \notin rejected /\ seen[i] \in StillOpen \cup {"retriable"} -> "pending"
    [] OTHER -> "failed"

VerdictOf(i, seen) ==
  CASE i \in rejected -> "failed"
    [] i \notin rejected /\ seen[i] = "complete" -> "succeeded"
    [] i \notin rejected /\ seen[i] \in StillOpen -> "pending"
    [] OTHER -> "failed"

\* Mutant of Classify: items count before they are resubmitted, and again after.
ClassifyCountsRetried(seen) ==
  LET again == Retried(seen)
  IN  /\ Report(DOMAIN batch, [i \in DOMAIN batch |-> VerdictOf(i, seen)])
      /\ IF again = {}
           THEN StartChunk
           ELSE /\ pc' = "submit" /\ attempt' = 2
                /\ batch' = [k \in 1..Cardinality(again) |-> batch[InOrder(again)[k]]]
                /\ rejected' = {} /\ elapsed' = 0 /\ UNCHANGED cursor

\* The bulk is over: its items enter the result, except those that get a
\* second bulk, in their order and with new ids.
Classify(seen) ==
  LET again == Retried(seen)
  IN  /\ Report(DOMAIN batch \ again,
                [i \in DOMAIN batch |-> VerdictOf(i, seen)])
      /\ IF again = {}
           THEN StartChunk
           ELSE /\ pc' = "submit"
                /\ batch' = [k \in 1..Cardinality(again) |-> batch[InOrder(again)[k]]]
                /\ attempt' = 2
                /\ rejected' = {}
                /\ elapsed' = 0
                /\ UNCHANGED cursor

\* Mutant of PollAgain: the deadline is set anew inside the loop.
PollForever ==
  /\ pc = "wait"
  /\ \E response \in Responses : AnyOpen(MapDetailedStatus(response, Len(batch)))
  /\ elapsed' = IF elapsed + 1 < Timeout THEN elapsed + 1 ELSE 0
  /\ UNCHANGED <<pc, sent, cursor, batch, attempt, rejected, result, magento>>

\* A read finds something open before the deadline: sleep, read again.
\* now is the clock after the request, which takes any time.
PollAgain ==
  /\ pc = "wait"
  /\ \E response \in Responses, now \in elapsed..Timeout :
       /\ AnyOpen(MapDetailedStatus(response, Len(batch)))
       /\ now < Timeout
       /\ elapsed' = now + 1
  /\ UNCHANGED <<pc, sent, cursor, batch, attempt, rejected, result, magento>>

\* A read finds nothing open: the wait returns early.
PollSettled ==
  /\ pc = "wait"
  /\ \E response \in Responses :
       LET seen == MapDetailedStatus(response, Len(batch))
       IN  ~AnyOpen(seen) /\ Classify(seen)
  /\ UNCHANGED <<sent, magento>>

\* A read finds something open, and the deadline has passed.
PollExpired ==
  /\ pc = "wait"
  /\ \E response \in Responses :
       LET seen == MapDetailedStatus(response, Len(batch))
       IN  AnyOpen(seen) /\ Classify(seen)
  /\ UNCHANGED <<sent, magento>>

\* Mutant of PollAborted: an error of the read gives the chunk up.
PollErrorSkipsChunk ==
  /\ pc = "wait"
  /\ StartChunk
  /\ UNCHANGED <<sent, result, magento>>

\* Nothing catches an error of the read.
PollAborted ==
  /\ pc = "wait"
  /\ pc' = "aborted"
  /\ UNCHANGED <<sent, cursor, wait, result, magento>>

---------------------------------------------------------------------------
(* Magento's consumers, as the executor has to expect them. *)

Consume(o, a, s) ==
  /\ mq[o][a] = "open"
  /\ mq' = [mq EXCEPT ![o][a] = s]
  /\ UNCHANGED <<pc, sent, cursor, wait, result, unacked>>

\* A consumer runs the operation and writes its status.
ConsumerSettles ==
  \E o \in BulkOp, a \in Attempt, s \in Settled : Consume(o, a, s)

\* The message is lost, or its consumer dies before or after the save.
ConsumerDies ==
  \E o \in BulkOp, a \in Attempt, s \in {"dropped", "crashed"} : Consume(o, a, s)

---------------------------------------------------------------------------

Executor ==
  \/ SendDirect \/ DirectDone \/ AbortDirect
  \/ Submit \/ SubmitRefused \/ SubmitUnacknowledged \/ SubmitAborted
  \/ PollAgain \/ PollSettled \/ PollExpired \/ PollAborted

Next == Executor \/ ConsumerSettles \/ ConsumerDies

\* Every request of the executor ends: requests are sent with a timeout.
\* Nothing is assumed of the consumers.
Spec == Init /\ [][Next]_vars /\ WF_vars(Executor)

---------------------------------------------------------------------------
(* Properties. *)

\* A consumer may still change the store for this attempt, or already did.
Effective(o, a) == mq[o][a] \in Unsettled \cup {"complete"}

Scheduled(o) == \E a \in Attempt : mq[o][a] # "none"
Running(o) == \E a \in Attempt : mq[o][a] \in Unsettled

\* However chunks fail, are rejected in part, resubmitted or time out, no
\* operation enters the result twice, and at the end each is in it.
CountedOnce ==
  \A o \in Op : /\ counted[o] <= 1
                /\ counted[o] = 0 <=> outcome[o] = "none"
                /\ pc = "done" => counted[o] = 1

\* A bulk operation reported succeeded was completed by Magento.  One
\* reported failed never changes the store, unless its submission was
\* scheduled without the executor learning the uuid.
VerdictSound ==
  \A o \in BulkOp :
    /\ outcome[o] = "succeeded" => \E a \in Attempt : mq[o][a] = "complete"
    /\ outcome[o] = "failed" /\ o \notin unacked =>
         \A a \in Attempt : ~Effective(o, a)

\* The result of execute() tells of every operation, once and the truth
\* (_process_bulk_chunk, map_detailed_status).
OutcomesSound == CountedOnce /\ VerdictSound

\* The one resubmission never gives Magento a second chance to save an
\* operation whose first attempt was saved or still may be.
AtMostOneSave ==
  \A o \in BulkOp : \A a, b \in Attempt :
    Effective(o, a) /\ Effective(o, b) => a = b

\* When an operation is queued, those of lower phases have ended, except the
\* ones the result reports as pending or whose submission went unacknowledged.
PhaseBarrier ==
  \A o, p \in BulkOp :
    Phase[o] < Phase[p] /\ Running(o) /\ Scheduled(p) =>
      outcome[o] = "pending" \/ o \in unacked

\* An operation becomes pending only in a read that finds it not ended, and
\* what is decided is never decided again.
VerdictStep ==
  [][\A o \in BulkOp :
       outcome'[o] # outcome[o] =>
         /\ outcome[o] = "none"
         /\ outcome'[o] = "pending" => Running(o)]_vars

\* The wait goes on only for an item of this bulk that has not ended: never
\* for one rejected at submission, which no read will ever list.
WaitsOnlyForOpen ==
  [][elapsed' > elapsed =>
       \E i \in DOMAIN batch : i \notin rejected /\ mq[batch[i]][attempt] \in Unsettled]_vars

\* Both of the polling loop (wait_bulk): what it waits for and what it decides.
StepsSound == VerdictStep /\ WaitsOnlyForOpen

\* execute() ends whatever the consumers do, none of them running included.
Terminates == <>(pc \in {"done", "aborted"})

\* Phases as documented at the sort in _execute_bulk and in BulkSpec: a parent
\* save never runs while its children's saves are still in flight.
NoParentBesideChildren ==
  \A o, p \in BulkOp : Phase[o] < Phase[p] /\ Scheduled(p) => ~Running(o)

\* _partial_submission as documented: no uuid when nothing was scheduled, so
\* an operation that failed has nothing in Magento's queues.
FailedMeansNotScheduled ==
  \A o \in BulkOp : outcome[o] = "failed" => \A a \in Attempt : ~Effective(o, a)

\* What the contract can see of Magento's queues.
StoreOf(o) ==
  CASE \E a \in Attempt : mq[o][a] = "complete" -> "saved"
    [] Running(o) -> "queued"
    [] OTHER -> IF Scheduled(o) THEN "refused" ELSE "idle"

ContractStore == [o \in BulkOp |-> StoreOf(o)]
ContractVerdict == [o \in BulkOp |-> outcome[o]]
ContractCall ==
  CASE pc = "done" -> "returned" [] pc = "aborted" -> "raised" [] OTHER -> "running"

Contract == INSTANCE BulkContract WITH
  store <- ContractStore, verdict <- ContractVerdict, call <- ContractCall

\* The executor keeps the contract of module BulkContract.
KeepsContract == Contract!Spec

---------------------------------------------------------------------------
(* The inductive invariant behind CountedOnce, VerdictSound, AtMostOneSave, *)
(* PhaseBarrier, StepsSound and the steps of the contract.                 *)

\* The direct operations sent so far are counted, the others are not.
DirectInv ==
  /\ \A i \in DOMAIN Direct : counted[Direct[i]] = IF i <= sent THEN 1 ELSE 0
  /\ pc = "direct" => cursor = 0
  /\ cursor = 0 => pc \in {"direct", "aborted"}
  /\ cursor > 0 => sent = Len(Direct)

\* The bulk in hand is the chunk under the cursor, or part of it.
BatchInv ==
  /\ IsInjective(batch)
  /\ cursor \in DOMAIN Schedule => Range(batch) \subseteq Range(Schedule[cursor])
  /\ cursor \notin DOMAIN Schedule => batch = <<>>
  /\ cursor \in DOMAIN Schedule /\ attempt = 1 => batch = Schedule[cursor]
  /\ pc \in {"submit", "wait"} => cursor \in DOMAIN Schedule
  /\ pc = "done" => cursor = Len(Schedule) + 1

\* Of the bulk operations, those of earlier chunks are counted, and those of
\* this chunk that are not in the bulk in hand.
CountInv ==
  \A c \in DOMAIN Schedule : \A o \in Range(Schedule[c]) :
    counted[o] = IF c > cursor \/ (c = cursor /\ o \in Range(batch)) THEN 0 ELSE 1

\* Nothing is queued before its chunk's turn, nor the bulk in hand before it
\* is submitted; a second attempt follows a retriable failure of the first.
QueueInv ==
  /\ \A c \in DOMAIN Schedule : \A o \in Range(Schedule[c]) :
       c > cursor => ~Scheduled(o)
  /\ \A o \in BulkOp : mq[o][2] # "none" => mq[o][1] = "retriable"
  /\ attempt = 2 => \A o \in Range(batch) : mq[o][1] = "retriable"
  /\ pc = "submit" => \A o \in Range(batch) : mq[o][attempt] = "none"
  /\ pc \in {"submit", "wait"} /\ attempt = 1 =>
       \A o \in Range(batch) : mq[o][2] = "none"
  /\ pc = "wait" => \A i \in DOMAIN batch :
       mq[batch[i]][attempt] = "none" <=> i \in rejected

\* What still runs is in the bulk in hand, was given up as pending, or was
\* never acknowledged.
RunningInv ==
  \A o \in BulkOp :
    Running(o) => \/ outcome[o] = "pending"
                  \/ o \in unacked
                  \/ pc \in {"wait", "aborted"} /\ o \in Range(batch)

IInv ==
  /\ TypeOK
  /\ DirectInv
  /\ BatchInv
  /\ CountInv
  /\ QueueInv
  /\ RunningInv
  /\ \A o \in Op : counted[o] = 0 <=> outcome[o] = "none"
  /\ VerdictSound

=============================================================================
