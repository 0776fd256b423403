--------------------------- MODULE BulkContract ---------------------------
(***************************************************************************)
(* What execute(mode="bulk") promises its caller about a set of bulk       *)
(* operations, with no word on chunks, polls, item ids or attempts: the    *)
(* result holds one verdict for each, given once; a success is a save,     *)
(* a failure is no save, pending is a promise of nothing; and an           *)
(* operation is queued again only after it is known to have failed.        *)
(***************************************************************************)
CONSTANT BulkOp

VARIABLES
  store,    \* Magento's side: idle, queued, saved or refused
  verdict,  \* the caller's side: none, succeeded, failed or pending
  call      \* the call: running, returned or raised

vars == <<store, verdict, call>>

Init ==
  /\ store = [o \in BulkOp |-> "idle"]
  /\ verdict = [o \in BulkOp |-> "none"]
  /\ call = "running"

Open(S) == call = "running" /\ \A o \in S : verdict[o] = "none"

\* The call returns with the verdict of the last operation.
ReturnWhenDecided ==
  call' = IF \A o \in BulkOp : verdict'[o] # "none" THEN "returned" ELSE "running"

\* Operations without a verdict are queued, or queued again after a refusal.
Queue(S) ==
  /\ Open(S)
  /\ \A o \in S : store[o] \in {"idle", "refused"}
  /\ store' = [o \in BulkOp |-> IF o \in S THEN "queued" ELSE store[o]]
  /\ UNCHANGED verdict
  /\ call' \in {"running", "raised"}

\* Verdicts that agree with the store at this moment.
Decide(S) ==
  /\ Open(S)
  /\ \E v \in [S -> {"succeeded", "failed", "pending"}] :
       /\ \A o \in S : /\ v[o] = "succeeded" <=> store[o] = "saved"
                       /\ v[o] = "pending" <=> store[o] = "queued"
       /\ verdict' = [o \in BulkOp |-> IF o \in S THEN v[o] ELSE verdict[o]]
  /\ UNCHANGED store
  /\ ReturnWhenDecided

\* The one exception: a submission whose answer was lost is reported failed
\* although Magento queued it.
LoseTrack(S) ==
  /\ Open(S)
  /\ \A o \in S : store[o] \in {"idle", "refused"}
  /\ store' = [o \in BulkOp |-> IF o \in S THEN "queued" ELSE store[o]]
  /\ verdict' = [o \in BulkOp |-> IF o \in S THEN "failed" ELSE verdict[o]]
  /\ ReturnWhenDecided

\* The call raises, at any time, or returns because there was nothing to do.
Stop ==
  /\ call = "running"
  /\ \/ call' = "raised"
     \/ call' = "returned" /\ BulkOp = {}
  /\ UNCHANGED <<store, verdict>>

\* Magento ends a queued operation, before or after the call returns.
Settle(o) ==
  /\ store[o] = "queued"
  /\ \E s \in {"saved", "refused"} : store' = [store EXCEPT ![o] = s]
  /\ UNCHANGED <<verdict, call>>

Next ==
  \/ \E S \in SUBSET BulkOp : Queue(S) \/ Decide(S) \/ LoseTrack(S)
  \/ Stop
  \/ \E o \in BulkOp : Settle(o)

Spec == Init /\ [][Next]_vars

=============================================================================
