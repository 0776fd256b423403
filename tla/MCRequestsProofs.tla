-------------------------- MODULE MCRequestsProofs --------------------------
(***************************************************************************)
(* Proofs about an import's requests: a call takes effect at most once,    *)
(* a list is cut into full requests, the snapshot is what REST alone       *)
(* answers, require gets the module or an error, and a gallery has the     *)
(* images of its row.                                                      *)
(***************************************************************************)
EXTENDS MCRequests, Integers, FiniteSetTheorems, TLAPS

---------------------------------------------------------------------------
(* A request *)

LEMMA RequestConstants == MaxRetries \in Nat /\ MaxCalls \in Nat
BY RequestsAssumption DEF Request!BoundAssumption


LEMMA RequestInit == Request!Init => Request!IInv
<1> SUFFICES ASSUME Request!Init PROVE Request!IInv
  OBVIOUS
<1>1. Request!TypeOK
  <2>1. denied \in BOOLEAN /\ lapsed \in BOOLEAN
    BY DEF Request!Init
  <2>2. attempt \in 0..MaxRetries /\ begun \in 0..MaxCalls
    BY RequestConstants DEF Request!Init
  <2> QED BY <2>1, <2>2 DEF Request!Init, Request!TypeOK, Request!Method, Request!Answer, Request!Ending
<1>2. Request!EffectInv /\ Request!ExpiryInv /\ Request!EndingTellsEffect
  BY DEF Request!Init, Request!EffectInv, Request!ExpiryInv, Request!EndingTellsEffect, Request!Ended
<1>3. Request!EffortInv
  BY RequestConstants DEF Request!Init, Request!EffortInv
<1> QED BY <1>1, <1>2, <1>3 DEF Request!IInv

\* An outcome is a status with its effect: a 200 took effect, an effect comes
\* with 200, 500 or a gateway error, and a 401 only without a valid token or
\* from an endpoint denied to the account.
LEMMA OutcomeFacts ==
  ASSUME NEW r \in Request!Outcomes
  PROVE  /\ r.status \in Request!Answer
         /\ r.effect \in {0, 1}
         /\ r.status = "200" => r.effect = 1
         /\ r.effect = 1 => r.status \in {"200", "500", "gateway"}
         /\ r.status = "401" => token # "valid" \/ denied
BY DEF Request!Outcomes, Request!Answer

LEMMA RequestBegin == Request!IInv /\ Request!Begin => Request!IInv'
<1> SUFFICES ASSUME Request!IInv, Request!Begin PROVE Request!IInv'
  OBVIOUS
<1>1. /\ pc' \in {"login", "send"} /\ stage' = "first" /\ attempt' = 0
      /\ ending' = "none" /\ executed' = 0 /\ sends' = 0 /\ logins' = 0
      /\ lapsed' = FALSE /\ method' \in Request!Method /\ denied' \in BOOLEAN
      /\ begun' = begun + 1 /\ begun < MaxCalls
      /\ UNCHANGED <<reply, token>>
  BY DEF Request!Begin
<1>2. Request!TypeOK'
  <2>1. attempt' \in 0..MaxRetries /\ begun' \in 0..MaxCalls
    BY <1>1, RequestConstants DEF Request!IInv, Request!TypeOK
  <2>2. lapsed' \in BOOLEAN
    BY <1>1
  <2> QED BY <1>1, <2>1, <2>2 DEF Request!IInv, Request!TypeOK, Request!Ending
<1>3. Request!EffectInv' /\ Request!ExpiryInv' /\ Request!EndingTellsEffect'
  BY <1>1 DEF Request!EffectInv, Request!ExpiryInv, Request!EndingTellsEffect, Request!Ended
<1>4. Request!EffortInv'
  BY <1>1 DEF Request!EffortInv
<1> QED BY <1>2, <1>3, <1>4 DEF Request!IInv

LEMMA RequestLogin == Request!IInv /\ (Request!LoginSucceeds \/ Request!LoginFails) => Request!IInv'
<1> SUFFICES ASSUME Request!IInv, Request!LoginSucceeds \/ Request!LoginFails PROVE Request!IInv'
  OBVIOUS
<1>1. /\ pc = "login" /\ logins' = logins + 1
      /\ UNCHANGED <<stage, attempt, method, denied, begun, reply, executed, sends, lapsed>>
      /\ \/ pc' = "send" /\ token' = "valid" /\ ending' = ending
         \/ pc' = "idle" /\ ending' \in {"autherror", "transport"} /\ token' = token
  BY DEF Request!LoginSucceeds, Request!LoginFails, Request!EndCall, Request!progress, Request!call
<1>2. Request!TypeOK'
  BY <1>1 DEF Request!IInv, Request!TypeOK, Request!Ending
<1>3. Request!EffectInv' /\ Request!ExpiryInv' /\ Request!EndingTellsEffect'
  BY <1>1 DEF Request!IInv, Request!TypeOK, Request!EffectInv, Request!ExpiryInv, Request!EndingTellsEffect, Request!Ended, Request!NotIdempotent
<1>4. Request!EffortInv'
  BY <1>1, RequestConstants DEF Request!IInv, Request!TypeOK, Request!EffortInv
<1> QED BY <1>2, <1>3, <1>4 DEF Request!IInv

\* A request not answered yet has, if it is not idempotent, no effect yet.
LEMMA RequestSend == Request!IInv /\ (Request!Send \/ Request!SendBreaks) => Request!IInv'
<1> SUFFICES ASSUME Request!IInv, Request!Send \/ Request!SendBreaks PROVE Request!IInv'
  OBVIOUS
<1>1. /\ pc = "send" /\ sends' = sends + 1
      /\ UNCHANGED <<stage, attempt, method, denied, begun, token, logins, lapsed>>
  BY DEF Request!Send, Request!SendBreaks, Request!progress, Request!call
<1>2. PICK r \in Request!Outcomes :
        /\ executed' = executed + r.effect
        /\ \/ pc' = "answered" /\ reply' = r.status /\ ending' = ending
           \/ pc' = "idle" /\ ending' = "transport" /\ reply' = reply
  BY DEF Request!Send, Request!SendBreaks, Request!EndCall
<1>3. Request!NotIdempotent(method) => executed = 0
  BY <1>1 DEF Request!IInv, Request!EffectInv, Request!TypeOK
<1>4. executed' \in Nat
  BY <1>2, OutcomeFacts DEF Request!IInv, Request!TypeOK
<1>5. Request!TypeOK'
  BY <1>1, <1>2, <1>4, OutcomeFacts DEF Request!IInv, Request!TypeOK, Request!Ending
<1>6. Request!EffectInv'
  <2>1. pc' = "answered" /\ reply' = "200" => executed' >= 1
    BY <1>2, OutcomeFacts DEF Request!IInv, Request!TypeOK
  <2>2. Request!NotIdempotent(method) /\ executed' > 0 =>
          executed' = 1 /\ pc' \in {"answered", "idle"}
          /\ (pc' = "answered" => reply' \in {"200", "500", "gateway"})
    BY <1>2, <1>3, OutcomeFacts
  <2> QED BY <1>1, <2>1, <2>2 DEF Request!EffectInv, Request!NotIdempotent
<1>7. Request!EffortInv'
  BY <1>1, <1>2, RequestConstants DEF Request!IInv, Request!TypeOK, Request!EffortInv
<1>8. Request!ExpiryInv' /\ Request!EndingTellsEffect'
  BY <1>1, <1>2, OutcomeFacts DEF Request!IInv, Request!ExpiryInv, Request!EndingTellsEffect, Request!Ended
<1> QED BY <1>5, <1>6, <1>7, <1>8 DEF Request!IInv

LEMMA RequestRefresh == Request!IInv /\ Request!Refresh => Request!IInv'
<1> SUFFICES ASSUME Request!IInv, Request!Refresh PROVE Request!IInv'
  OBVIOUS
<1>1. /\ pc = "answered" /\ stage = "first" /\ reply = "401"
      /\ pc' = "login" /\ stage' = "resend"
      /\ UNCHANGED <<attempt, method, denied, begun, reply, ending, token,
                     executed, sends, logins, lapsed>>
  BY DEF Request!Refresh, Request!call, Request!history
<1>2. Request!TypeOK'
  BY <1>1 DEF Request!IInv, Request!TypeOK
<1>3. Request!EffectInv' /\ Request!ExpiryInv' /\ Request!EndingTellsEffect'
  BY <1>1 DEF Request!IInv, Request!TypeOK, Request!EffectInv, Request!ExpiryInv, Request!EndingTellsEffect, Request!Ended, Request!NotIdempotent
<1>4. Request!EffortInv'
  BY <1>1 DEF Request!IInv, Request!TypeOK, Request!EffortInv
<1> QED BY <1>2, <1>3, <1>4 DEF Request!IInv

LEMMA RequestRetry == Request!IInv /\ Request!Retry => Request!IInv'
<1> SUFFICES ASSUME Request!IInv, Request!Retry PROVE Request!IInv'
  OBVIOUS
<1>1. /\ pc = "answered" /\ reply \in Request!RetryStatuses(method) /\ attempt < MaxRetries
      /\ attempt' = attempt + 1 /\ stage' = "backoff" /\ pc' = "send"
      /\ UNCHANGED <<method, denied, begun, reply, ending, token,
                     executed, sends, logins, lapsed>>
  BY DEF Request!Retry, Request!call, Request!history
<1>2. Request!NotIdempotent(method) => executed = 0
  BY <1>1 DEF Request!IInv, Request!EffectInv, Request!RetryStatuses, Request!TypeOK
<1>3. Request!TypeOK'
  BY <1>1, RequestConstants DEF Request!IInv, Request!TypeOK
<1>4. Request!EffectInv' /\ Request!ExpiryInv' /\ Request!EndingTellsEffect'
  BY <1>1, <1>2 DEF Request!EffectInv, Request!ExpiryInv, Request!EndingTellsEffect, Request!Ended, Request!NotIdempotent
<1>5. Request!EffortInv'
  BY <1>1, RequestConstants DEF Request!IInv, Request!TypeOK, Request!EffortInv
<1> QED BY <1>3, <1>4, <1>5 DEF Request!IInv

LEMMA RequestFinish == Request!IInv /\ Request!Finish => Request!IInv'
<1> SUFFICES ASSUME Request!IInv, Request!Finish PROVE Request!IInv'
  OBVIOUS
<1>1. /\ pc = "answered" /\ pc' = "idle" /\ ~(stage = "first" /\ reply = "401")
      /\ ending' = IF reply = "200" THEN "ok" ELSE "error"
      /\ UNCHANGED <<stage, attempt, method, denied, begun, reply, token,
                     executed, sends, logins, lapsed>>
  BY DEF Request!Finish, Request!EndCall, Request!progress, Request!call, Request!history
<1>2. Request!TypeOK'
  BY <1>1 DEF Request!IInv, Request!TypeOK, Request!Ending
<1>3. Request!EffectInv' /\ Request!ExpiryInv' /\ Request!EndingTellsEffect'
  BY <1>1 DEF Request!IInv, Request!TypeOK, Request!EffectInv, Request!ExpiryInv, Request!EndingTellsEffect, Request!Ended, Request!NotIdempotent
<1>4. Request!EffortInv'
  BY <1>1, RequestConstants DEF Request!IInv, Request!TypeOK, Request!EffortInv
<1> QED BY <1>2, <1>3, <1>4 DEF Request!IInv

LEMMA RequestQuiet == Request!IInv /\ (Request!TokenExpires \/ UNCHANGED Request!vars) => Request!IInv'
<1> SUFFICES ASSUME Request!IInv, Request!TokenExpires \/ UNCHANGED Request!vars PROVE Request!IInv'
  OBVIOUS
<1>1. /\ UNCHANGED <<pc, stage, attempt, method, denied, begun, reply, ending,
                     executed, sends, logins>>
      /\ \/ token' = token /\ lapsed' = lapsed
         \/ token = "valid" /\ token' = "expired" /\ lapsed' = (pc # "idle")
  BY DEF Request!TokenExpires, Request!vars, Request!progress, Request!call, Request!history, Request!IInv, Request!TypeOK
<1>2. Request!TypeOK'
  BY <1>1 DEF Request!IInv, Request!TypeOK
<1>3. Request!EffectInv' /\ Request!EffortInv' /\ Request!EndingTellsEffect'
  BY <1>1 DEF Request!IInv, Request!EffectInv, Request!EffortInv, Request!EndingTellsEffect, Request!Ended, Request!NotIdempotent
<1>4. Request!ExpiryInv'
  BY <1>1 DEF Request!IInv, Request!ExpiryInv, Request!Ended
<1> QED BY <1>2, <1>3, <1>4 DEF Request!IInv

\* The inductive invariant of a call, for any number of retries and calls.
LEMMA RequestInvariance == Spec => [](part = "request" => Request!IInv)
<1> DEFINE Inv == part = "request" => Request!IInv
<1>1. Init => Inv
  BY RequestInit DEF Init
<1>2. Inv /\ [Next]_vars => Inv'
  <2> SUFFICES ASSUME Inv, [Next]_vars, part' = "request" PROVE Request!IInv'
    OBVIOUS
  <2>1. CASE RequestStep
    <3>1. Request!IInv /\ Request!Next
      BY <2>1 DEF RequestStep
    <3> QED
      BY <3>1, RequestBegin, RequestLogin, RequestSend, RequestRefresh, RequestRetry, RequestFinish,
         RequestQuiet DEF Request!Next, Request!Client
  <2>2. CASE ListsStep
    BY <2>2 DEF ListsStep
  <2>3. CASE SnapshotStep
    BY <2>3 DEF SnapshotStep
  <2>4. CASE MediaStep
    BY <2>4 DEF MediaStep
  <2>5. CASE UNCHANGED vars
    <3>1. Request!IInv /\ UNCHANGED Request!vars
      BY <2>5 DEF vars, request, Request!vars, Request!progress, Request!call, Request!history
    <3> QED BY <3>1, RequestQuiet
  <2> QED BY <2>1, <2>2, <2>3, <2>4, <2>5 DEF Next
<1> QED
  BY <1>1, <1>2, PTL DEF Spec

\* A request that is not idempotent takes effect at most once (_request).
THEOREM NotIdempotentOnce == Spec => []NoDoubleWrite
<1>1. (part = "request" => Request!IInv) => NoDoubleWrite
  BY DEF Request!IInv, Request!TypeOK, Request!EffectInv, Request!NoDoubleWrite, NoDoubleWrite
<1> QED BY <1>1, RequestInvariance, PTL

\* A success took effect, and an error other than 500 and gateway errors did
\* not unless the request is idempotent (_request).
THEOREM EndingIsInformative == Spec => []EndingTellsEffect
<1>1. (part = "request" => Request!IInv) => EndingTellsEffect
  BY DEF Request!IInv, EndingTellsEffect
<1> QED BY <1>1, RequestInvariance, PTL

\* One refresh and MaxRetries retries are all a call may cost, and a token that
\* expired before the call costs it that refresh and not its row: on an endpoint
\* open to the account a call fails on 401 only if a token expired during it or
\* the 401 answered a retry of the backoff loop (_request).
THEOREM ExpiryIsRecovered == Spec => []ExpiryCostsOneLogin
<1>1. Request!IInv => Request!BoundedEffort
  BY RequestConstants DEF Request!IInv, Request!TypeOK, Request!EffortInv, Request!BoundedEffort
<1>2. Request!IInv => Request!ExpiryRecovers
  BY DEF Request!IInv, Request!ExpiryInv, Request!ExpiryRecovers
<1>3. (part = "request" => Request!IInv) => ExpiryCostsOneLogin
  BY <1>1, <1>2 DEF ExpiryCostsOneLogin, Request!ExpiryCostsOneLogin
<1> QED BY <1>3, RequestInvariance, PTL

---------------------------------------------------------------------------
(* The requests of a list *)

LEMMA ListsConstants == MaxOps \in Nat /\ NoKey \notin Key
BY RequestsAssumption DEF Lists!BoundAssumption


\* The invariant holds before the loop.
LEMMA ListsInit == Lists!Init => Lists!IInv
<1> SUFFICES ASSUME Lists!Init PROVE Lists!IInv
  OBVIOUS
<1>1. PICK m \in 0..MaxOps : keys \in [1..m -> Key \cup {NoKey}]
  BY DEF Lists!Init
<1>2. Lists!n = m /\ keys \in Seq(Key \cup {NoKey}) /\ Lists!n \in Nat /\ m <= MaxOps
  BY <1>1, ListsConstants DEF Lists!n
<1>3. Lists!TypeOK
  BY <1>2, ListsConstants DEF Lists!Init, Lists!TypeOK
<1>4. Lists!PositionInv /\ Lists!UnitInv /\ Lists!SizeInv /\ Lists!FullInv
  BY <1>2 DEF Lists!Init, Lists!PositionInv, Lists!UnitInv, Lists!SizeInv, Lists!FullInv
<1>5. Lists!ChunkInv
  BY <1>2 DEF Lists!Init, Lists!ChunkInv, Lists!Open
<1> QED BY <1>3, <1>4, <1>5 DEF Lists!IInv

\* The length of the input, and what stays while the input does.
LEMMA ListsLength ==
  ASSUME Lists!TypeOK
  PROVE  /\ Lists!n \in Nat
         /\ UNCHANGED Lists!input => Lists!n' = Lists!n
BY DEF Lists!TypeOK, Lists!n, Lists!input

\* Starting a unit.
LEMMA ListsOpenUnit == Lists!IInv /\ Lists!OpenUnit => Lists!IInv'
<1> SUFFICES ASSUME Lists!IInv, Lists!OpenUnit PROVE Lists!IInv'
  OBVIOUS
<1> USE DEF Lists!OpenUnit
<1>0. Lists!n \in Nat /\ Lists!n' = Lists!n
  BY ListsLength DEF Lists!IInv
<1>1. Lists!TypeOK'
  BY <1>0 DEF Lists!IInv, Lists!TypeOK, Lists!input
<1>2. Lists!PositionInv'
  BY <1>0 DEF Lists!IInv, Lists!TypeOK, Lists!PositionInv, Lists!input
<1>3. Lists!ChunkInv'
  BY <1>0 DEF Lists!IInv, Lists!TypeOK, Lists!ChunkInv, Lists!Open, Lists!input
<1>4. Lists!UnitInv' /\ Lists!SizeInv' /\ Lists!FullInv'
  BY <1>0 DEF Lists!IInv, Lists!TypeOK, Lists!UnitInv, Lists!SizeInv, Lists!FullInv, Lists!SameUnit, Lists!EndsUnit, Lists!input
<1> QED BY <1>1, <1>2, <1>3, <1>4 DEF Lists!IInv

\* Growing it.
LEMMA ListsGrowUnit == Lists!IInv /\ Lists!GrowUnit => Lists!IInv'
<1> SUFFICES ASSUME Lists!IInv, Lists!GrowUnit PROVE Lists!IInv'
  OBVIOUS
<1> USE DEF Lists!GrowUnit, Lists!InUnit
<1>0. Lists!n \in Nat /\ Lists!n' = Lists!n
  BY ListsLength DEF Lists!IInv
<1>1. Lists!TypeOK'
  BY <1>0 DEF Lists!IInv, Lists!TypeOK, Lists!input
<1>2. Lists!PositionInv'
  BY <1>0 DEF Lists!IInv, Lists!TypeOK, Lists!PositionInv, Lists!input
<1>3. Lists!ChunkInv'
  BY <1>0 DEF Lists!IInv, Lists!TypeOK, Lists!ChunkInv, Lists!Open, Lists!input
<1>4. Lists!UnitInv' /\ Lists!SizeInv' /\ Lists!FullInv'
  BY <1>0 DEF Lists!IInv, Lists!TypeOK, Lists!UnitInv, Lists!SizeInv, Lists!FullInv, Lists!SameUnit, Lists!EndsUnit, Lists!input
<1> QED BY <1>1, <1>2, <1>3, <1>4 DEF Lists!IInv

\* The last chunk.
LEMMA ListsFinish == Lists!IInv /\ Lists!Finish => Lists!IInv'
<1> SUFFICES ASSUME Lists!IInv, Lists!Finish PROVE Lists!IInv'
  OBVIOUS
<1> USE DEF Lists!Finish
<1>0. Lists!n \in Nat /\ Lists!n' = Lists!n
  BY ListsLength DEF Lists!IInv
<1>1. start = Lists!n + 1 /\ filled \in 0..Lists!n /\ closed \in 0..Lists!n /\ closed < start
  BY <1>0 DEF Lists!IInv, Lists!TypeOK, Lists!ChunkInv
<1>2. closed + 1 <= Lists!n \/ filled = 0
  <2> SUFFICES ASSUME filled > 0 PROVE closed + 1 <= Lists!n
    BY <1>0, <1>1
  <2>1. Lists!n \in 1..Lists!n /\ Lists!n < start /\ Lists!n >= start - filled
    BY <1>0, <1>1 DEF Lists!IInv, Lists!ChunkInv
  <2>2. chunkOf[Lists!n] = closed + 1 /\ chunkOf[Lists!n] \in 0..Lists!n
    BY <2>1 DEF Lists!IInv, Lists!TypeOK, Lists!ChunkInv, Lists!Open
  <2> QED BY <1>0, <2>2
<1>3. Lists!TypeOK'
  BY <1>0, <1>1, <1>2 DEF Lists!IInv, Lists!TypeOK, Lists!input
<1>4. Lists!PositionInv'
  BY <1>0, <1>1 DEF Lists!IInv, Lists!TypeOK, Lists!PositionInv, Lists!input
<1>5. Lists!ChunkInv'
  BY <1>0, <1>1, <1>2 DEF Lists!IInv, Lists!TypeOK, Lists!ChunkInv, Lists!Open, Lists!input
<1>6. Lists!UnitInv' /\ Lists!SizeInv' /\ Lists!FullInv'
  BY <1>0 DEF Lists!IInv, Lists!TypeOK, Lists!UnitInv, Lists!SizeInv, Lists!FullInv, Lists!SameUnit, Lists!EndsUnit, Lists!input
<1> QED BY <1>3, <1>4, <1>5, <1>6 DEF Lists!IInv

\* Placing a unit in chunk c, the open one or the one after it.
LEMMA ListsPlace ==
  ASSUME Lists!IInv, pc = "unit", ~Lists!InUnit, NEW c, NEW amount, Lists!Place(c, amount),
         \/ Lists!Overflows /\ c = closed + 2 /\ amount = end - start
         \/ ~Lists!Overflows /\ c = closed + 1 /\ amount = filled + (end - start)
  PROVE  Lists!IInv'
<1> USE DEF Lists!Place
<1>0. Lists!n \in Nat /\ Lists!n' = Lists!n
  BY ListsLength DEF Lists!IInv
<1>1. /\ start \in 1..Lists!n /\ end \in 1..(Lists!n + 1) /\ start < end
      /\ filled \in 0..Lists!n /\ closed \in 0..Lists!n /\ size \in Nat /\ size > 0
      /\ filled < start /\ (filled = 0 <=> start = 1) /\ (start = 1 => closed = 0)
  BY <1>0 DEF Lists!IInv, Lists!TypeOK, Lists!PositionInv, Lists!ChunkInv
<1>2. /\ chunkOf \in [1..Lists!n -> 0..Lists!n]
      /\ \A p \in 1..Lists!n : chunkOf[p] = 0 <=> p >= start
      /\ \A p \in 1..Lists!n : p < start => chunkOf[p] <= closed + 1 /\ chunkOf[p] <= p
      /\ \A p \in 1..Lists!n : p < start => (chunkOf[p] = closed + 1 <=> p >= start - filled)
      /\ \A p, q \in 1..Lists!n : p < q /\ q < start => chunkOf[p] <= chunkOf[q]
      /\ \A d \in 1..Lists!n : d < closed + 1 \/ (d = closed + 1 /\ filled > 0) =>
           \E p \in 1..Lists!n : p < start /\ chunkOf[p] = d
  BY DEF Lists!IInv, Lists!TypeOK, Lists!ChunkInv, Lists!Open
<1>3. filled > 0 => closed + 1 < start
  <2> SUFFICES ASSUME filled > 0 PROVE closed + 1 < start
    OBVIOUS
  <2>1. start - filled \in 1..Lists!n /\ start - filled < start
    BY <1>0, <1>1
  <2>2. chunkOf[start - filled] = closed + 1 /\ chunkOf[start - filled] <= start - filled
    BY <1>2, <2>1
  <2> QED BY <1>1, <2>1, <2>2
<1>4. /\ c \in 1..Lists!n /\ c <= start
      /\ amount \in 1..Lists!n /\ amount < end
      /\ c >= closed + 1
      /\ \A p \in 1..Lists!n : p < start => (chunkOf[p] = c <=> p >= end - amount)
  <2>1. CASE Lists!Overflows /\ c = closed + 2 /\ amount = end - start
    BY <1>0, <1>1, <1>2, <1>3, <2>1 DEF Lists!Overflows
  <2>2. CASE ~Lists!Overflows /\ c = closed + 1 /\ amount = filled + (end - start)
    BY <1>0, <1>1, <1>2, <1>3, <2>2
  <2> QED BY <2>1, <2>2
<1>5. /\ chunkOf' \in [1..Lists!n -> 0..Lists!n]
      /\ \A p \in 1..Lists!n : p < start => chunkOf'[p] = chunkOf[p]
      /\ \A p \in 1..Lists!n : p >= start /\ p < end => chunkOf'[p] = c
      /\ \A p \in 1..Lists!n : p >= end => chunkOf'[p] = 0
  BY <1>0, <1>1, <1>2, <1>4
<1>6. Lists!Open' = c
  BY <1>1, <1>4 DEF Lists!Open
<1>7. Lists!TypeOK'
  BY <1>0, <1>1, <1>4, <1>5 DEF Lists!IInv, Lists!TypeOK, Lists!input
<1>8. Lists!PositionInv'
  <2>1. \A k \in start..(end - 1) : keys[k] = keys[start]
    BY DEF Lists!IInv, Lists!PositionInv
  <2>2. keys[end - 1] = keys[start]
    BY <1>1, <2>1
  <2>3. end <= Lists!n => keys[end - 1] = NoKey \/ keys[end] # keys[end - 1]
    BY <2>2 DEF Lists!InUnit
  <2> QED BY <1>0, <1>1, <2>3 DEF Lists!PositionInv, Lists!input
<1>9. Lists!ChunkInv'
  <2>1. \A p \in 1..Lists!n : p < end => chunkOf'[p] <= c /\ chunkOf'[p] <= p
    BY <1>1, <1>2, <1>4, <1>5
  <2>2. \A p \in 1..Lists!n : p < end => (chunkOf'[p] = c <=> p >= end - amount)
    BY <1>1, <1>2, <1>4, <1>5
  <2>3. \A p, q \in 1..Lists!n : p < q /\ q < end => chunkOf'[p] <= chunkOf'[q]
    BY <1>1, <1>2, <1>4, <1>5
  <2>4. ASSUME NEW d \in 1..Lists!n, d <= c
        PROVE  \E p \in 1..Lists!n : p < end /\ chunkOf'[p] = d
    <3>1. CASE d = c
      BY <1>1, <1>5, <3>1
    <3>2. CASE d < c
      <4>1. d < closed + 1 \/ (d = closed + 1 /\ filled > 0)
        BY <1>1, <3>2 DEF Lists!Overflows
      <4>2. PICK p \in 1..Lists!n : p < start /\ chunkOf[p] = d
        BY <1>2, <4>1
      <4> QED BY <1>1, <1>5, <4>2
    <3> QED BY <1>4, <2>4, <3>1, <3>2
  <2>5. \A p \in 1..Lists!n : chunkOf'[p] = 0 <=> p >= end
    BY <1>1, <1>2, <1>4, <1>5
  <2>6. filled' < start' /\ closed' < start' /\ (filled' = 0 <=> start' = 1) /\ (start' = 1 => closed' = 0)
    BY <1>1, <1>4
  <2> QED BY <1>0, <1>1, <1>4, <1>6, <2>1, <2>2, <2>3, <2>4, <2>5, <2>6 DEF Lists!ChunkInv
<1>10. Lists!UnitInv'
  <2> SUFFICES ASSUME NEW p \in 1..Lists!n, NEW q \in 1..Lists!n, p < q, q < end, Lists!SameUnit(p, q)
               PROVE  chunkOf'[p] = chunkOf'[q]
    BY <1>0 DEF Lists!UnitInv, Lists!SameUnit, Lists!input
  <2>1. CASE q < start
    BY <1>0, <1>1, <1>5, <2>1 DEF Lists!IInv, Lists!UnitInv
  <2>2. CASE p >= start
    BY <1>0, <1>1, <1>5, <2>2
  <2>3. CASE p < start /\ q >= start
    <3>1. start - 1 \in p..q /\ start \in p..q /\ start > 1 /\ start <= Lists!n
      BY <1>1, <2>3
    <3>2. keys[start - 1] = keys[p] /\ keys[start] = keys[p] /\ keys[p] # NoKey
      BY <3>1 DEF Lists!SameUnit
    <3> QED BY <3>1, <3>2 DEF Lists!IInv, Lists!PositionInv
  <2> QED BY <1>1, <2>1, <2>2, <2>3
<1>11. Lists!SizeInv'
  <2> SUFFICES ASSUME NEW p \in 1..Lists!n, NEW q \in 1..Lists!n, p <= q, q < end,
                      chunkOf'[p] = chunkOf'[q], ~Lists!SameUnit(p, q)
               PROVE  q - p < size
    BY <1>0 DEF Lists!SizeInv, Lists!SameUnit, Lists!input
  <2>1. CASE q < start
    BY <1>0, <1>1, <1>5, <2>1 DEF Lists!IInv, Lists!SizeInv
  <2>2. CASE p >= start
    <3>1. \A k \in start..(end - 1) : keys[k] = keys[start]
      BY DEF Lists!IInv, Lists!PositionInv
    <3>2. \A k \in p..q : keys[k] = keys[p]
      BY <1>1, <2>2, <3>1
    <3>3. keys[start] = NoKey
      BY <1>1, <2>2, <3>1, <3>2 DEF Lists!SameUnit
    <3>4. end - start <= 1
      BY <1>1, <3>3 DEF Lists!IInv, Lists!PositionInv
    <3> QED BY <1>1, <2>2, <3>4
  <2>3. CASE p < start /\ q >= start
    <3>1. chunkOf[p] = c /\ p >= end - amount
      BY <1>1, <1>4, <1>5, <2>3
    <3>2. filled > 0 /\ ~Lists!Overflows /\ amount = filled + (end - start)
      BY <1>1, <2>3, <3>1
    <3> QED BY <1>1, <3>1, <3>2 DEF Lists!Overflows
  <2> QED BY <1>1, <2>1, <2>2, <2>3
<1>12. Lists!FullInv'
  <2> SUFFICES ASSUME NEW p \in 1..Lists!n, NEW r \in 1..Lists!n, p < r, r < end,
                      chunkOf'[r] = chunkOf'[p] + 1,
                      p = 1 \/ chunkOf'[p - 1] < chunkOf'[p],
                      Lists!EndsUnit(r)
               PROVE  r - p >= size
    BY <1>0 DEF Lists!FullInv, Lists!EndsUnit, Lists!input
  <2>1. CASE r < start
    <3>1. /\ chunkOf[r] = chunkOf[p] + 1
          /\ p = 1 \/ chunkOf[p - 1] < chunkOf[p]
      BY <1>0, <1>1, <1>5, <2>1
    <3> QED BY <2>1, <3>1 DEF Lists!IInv, Lists!FullInv
  <2>2. CASE r >= start
    <3>1. chunkOf'[r] = c /\ p < start /\ chunkOf[p] = c - 1
      <4>1. chunkOf'[r] = c /\ c \in Nat
        BY <1>1, <1>4, <1>5, <2>2
      <4>2. chunkOf'[p] \in Nat /\ chunkOf'[p] # c
        BY <1>0, <1>5, <4>1
      <4>3. p < start
        BY <1>0, <1>1, <1>5, <4>2
      <4> QED BY <1>5, <4>1, <4>2, <4>3
    <3>2. p = 1 \/ chunkOf[p - 1] < chunkOf[p]
      BY <1>0, <1>1, <1>5, <3>1
    <3>3. CASE Lists!Overflows
      <4>1. c = closed + 2 /\ filled > 0 /\ filled + (end - start) > size
        BY <1>1, <3>3 DEF Lists!Overflows
      <4>2. p = start - filled
        BY <1>0, <1>1, <1>2, <3>1, <3>2, <4>1
      <4>3. r = end - 1
        <5>1. \A k \in start..(end - 1) : keys[k] = keys[start]
          BY DEF Lists!IInv, Lists!PositionInv
        <5>2. end - start > 1 => keys[start] # NoKey
          BY DEF Lists!IInv, Lists!PositionInv
        <5>3. SUFFICES ASSUME r < end - 1 PROVE FALSE
          BY <1>1, <2>2
        <5>4. keys[r] = keys[start] /\ keys[r + 1] = keys[start] /\ keys[start] # NoKey /\ r # Lists!n
          BY <1>0, <1>1, <2>2, <5>1, <5>2, <5>3
        <5> QED BY <5>4 DEF Lists!EndsUnit
      <4> QED BY <1>1, <4>1, <4>2, <4>3
    <3>4. CASE ~Lists!Overflows
      <4>1. c = closed + 1 /\ filled > 0 /\ start > 1
        BY <1>1, <3>1, <3>4
      <4>2. start - 1 \in 1..Lists!n /\ chunkOf[start - 1] = c
        BY <1>0, <1>1, <1>2, <4>1
      <4>3. p < start - 1
        BY <1>1, <3>1, <4>2
      <4>4. Lists!EndsUnit(start - 1)
        BY <1>1, <4>1 DEF Lists!IInv, Lists!PositionInv, Lists!EndsUnit
      <4>5. start - 1 - p >= size
        <5>1. chunkOf[start - 1] = chunkOf[p] + 1
          BY <1>1, <1>4, <3>1, <4>2
        <5> QED BY <1>1, <3>2, <4>2, <4>3, <4>4, <5>1 DEF Lists!IInv, Lists!FullInv
      <4> QED BY <1>1, <2>2, <4>5
    <3> QED BY <3>3, <3>4
  <2> QED BY <1>1, <2>1, <2>2
<1> QED BY <1>7, <1>8, <1>9, <1>10, <1>11, <1>12 DEF Lists!IInv

LEMMA ListsPlaceUnit == Lists!IInv /\ Lists!PlaceUnit => Lists!IInv'
<1> SUFFICES ASSUME Lists!IInv, Lists!PlaceUnit PROVE Lists!IInv'
  OBVIOUS
<1>1. CASE Lists!Overflows
  BY <1>1, ListsPlace DEF Lists!PlaceUnit
<1>2. CASE ~Lists!Overflows
  BY <1>2, ListsPlace DEF Lists!PlaceUnit
<1> QED BY <1>1, <1>2

\* A stutter.
LEMMA ListsQuiet == Lists!IInv /\ UNCHANGED Lists!vars => Lists!IInv'
<1> SUFFICES ASSUME Lists!IInv, UNCHANGED Lists!vars PROVE Lists!IInv'
  OBVIOUS
<1> USE DEF Lists!vars, Lists!input
<1>1. Lists!n' = Lists!n
  BY DEF Lists!n
<1> QED BY <1>1 DEF Lists!IInv, Lists!TypeOK, Lists!PositionInv, Lists!ChunkInv, Lists!Open,
                    Lists!UnitInv, Lists!SizeInv, Lists!FullInv, Lists!SameUnit, Lists!EndsUnit

\* The inductive invariant of the loop, for every list of operations and size.
LEMMA ListsInvariance == Spec => [](part = "lists" => Lists!IInv)
<1> DEFINE Inv == part = "lists" => Lists!IInv
<1>1. Init => Inv
  BY ListsInit DEF Init
<1>2. Inv /\ [Next]_vars => Inv'
  <2> SUFFICES ASSUME Inv, [Next]_vars, part' = "lists" PROVE Lists!IInv'
    OBVIOUS
  <2>1. CASE ListsStep
    <3>1. Lists!IInv /\ Lists!Next
      BY <2>1 DEF ListsStep
    <3> QED
      BY <3>1, ListsOpenUnit, ListsGrowUnit, ListsPlaceUnit, ListsFinish DEF Lists!Next
  <2>2. CASE RequestStep
    BY <2>2 DEF RequestStep, NotRequest
  <2>3. CASE SnapshotStep
    BY <2>3 DEF SnapshotStep
  <2>4. CASE MediaStep
    BY <2>4 DEF MediaStep
  <2>5. CASE UNCHANGED vars
    <3>1. Lists!IInv /\ UNCHANGED Lists!vars
      BY <2>5 DEF vars, lists, Lists!vars, Lists!input
    <3> QED BY <3>1, ListsQuiet
  <2> QED BY <2>1, <2>2, <2>3, <2>4, <2>5 DEF Next
<1> QED
  BY <1>1, <1>2, PTL DEF Spec

\* At the end the chunks are complete.
LEMMA ListsDone ==
  ASSUME Lists!IInv, pc = "done"
  PROVE  /\ start = Lists!n + 1 /\ Lists!n \in Nat
         /\ Lists!n > 0 => Lists!Open = closed /\ filled > 0
         /\ Lists!n = 0 => closed = 0
<1>1. Lists!n \in Nat /\ start = Lists!n + 1
  BY ListsLength DEF Lists!IInv, Lists!PositionInv
<1>2. filled \in 0..Lists!n /\ closed \in 0..Lists!n /\ (filled = 0 <=> start = 1)
  BY <1>1 DEF Lists!IInv, Lists!TypeOK, Lists!ChunkInv
<1> QED BY <1>1, <1>2 DEF Lists!Open

\* A request longer than the chunk size is one unit.
LEMMA SizeIsRespected == Lists!IInv => Lists!SizeRespected
BY ListsDone DEF Lists!IInv, Lists!SizeInv, Lists!SizeRespected

\* A request is closed only when the next unit did not fit.
LEMMA NoRequestIsShort == Lists!IInv => Lists!NoShortRequest
<1> SUFFICES ASSUME Lists!IInv, pc = "done",
                    NEW p \in 1..Lists!n, NEW q \in 1..Lists!n, NEW r \in 1..Lists!n,
                    p <= q, q < r, chunkOf[r] = chunkOf[p] + 1,
                    p = 1 \/ chunkOf[p - 1] < chunkOf[p],
                    q + 1 = r \/ Lists!SameUnit(q + 1, r),
                    r = Lists!n \/ ~Lists!SameUnit(q + 1, r + 1)
             PROVE  r - p >= size
  BY DEF Lists!NoShortRequest
<1>1. Lists!n \in Nat /\ r < start /\ p < r
  BY ListsDone
<1>2. Lists!EndsUnit(r)
  <2> SUFFICES ASSUME r # Lists!n, keys[r] # NoKey, keys[r + 1] = keys[r] PROVE FALSE
    BY DEF Lists!EndsUnit
  <2>1. keys[q + 1] = keys[r] /\ \A k \in (q + 1)..r : keys[k] = keys[q + 1]
    BY <1>1 DEF Lists!SameUnit
  <2>2. \A k \in (q + 1)..(r + 1) : keys[k] = keys[q + 1]
    BY <1>1, <2>1
  <2> QED BY <2>1, <2>2 DEF Lists!SameUnit
<1> QED BY <1>1, <1>2 DEF Lists!IInv, Lists!FullInv

\* Every operation goes into exactly one request, none of them empty, in the
\* order of the plan (_chunk_list_operations).
THEOREM ChunksPartition == Spec => []Partition
<1>1. Lists!IInv => Lists!Partition
  <2> SUFFICES ASSUME Lists!IInv, pc = "done" PROVE Lists!Partition
    BY DEF Lists!Partition
  <2>1. start = Lists!n + 1 /\ Lists!n \in Nat /\ (Lists!n > 0 => Lists!Open = closed /\ filled > 0)
    BY ListsDone
  <2>2. chunkOf \in [1..Lists!n -> 0..Lists!n] /\ closed \in 0..Lists!n
    BY DEF Lists!IInv, Lists!TypeOK
  <2>3. ASSUME NEW p \in 1..Lists!n PROVE chunkOf[p] \in 1..closed
    BY <2>1, <2>2, <2>3 DEF Lists!IInv, Lists!ChunkInv
  <2>4. ASSUME NEW d \in 1..closed PROVE \E p \in 1..Lists!n : chunkOf[p] = d
    BY <2>1, <2>2, <2>4 DEF Lists!IInv, Lists!ChunkInv
  <2>5. ASSUME NEW p \in 1..Lists!n, NEW q \in 1..Lists!n, p < q PROVE chunkOf[p] <= chunkOf[q]
    BY <2>1, <2>5 DEF Lists!IInv, Lists!ChunkInv
  <2> QED BY <2>3, <2>4, <2>5 DEF Lists!Partition
<1>2. (part = "lists" => Lists!IInv) => Partition
  BY <1>1 DEF Partition
<1> QED BY <1>2, ListsInvariance, PTL

\* Tier prices of one SKU in replace mode go out in one request
\* (_chunk_list_operations).
THEOREM UnitsNeverSplit == Spec => []UnitsTogether
<1>1. (part = "lists" => Lists!IInv) => UnitsTogether
  BY ListsDone DEF Lists!IInv, Lists!UnitInv, Lists!UnitsTogether, UnitsTogether
<1> QED BY <1>1, ListsInvariance, PTL

\* A request holds what its units allow and no more: it passes the chunk size
\* only as one unit and is closed only when the next unit did not fit
\* (_chunk_list_operations).
THEOREM RequestsAreFull == Spec => []RequestsFit
<1>1. (part = "lists" => Lists!IInv) => RequestsFit
  BY SizeIsRespected, NoRequestIsShort DEF Lists!RequestsFit, RequestsFit
<1> QED BY <1>1, ListsInvariance, PTL


---------------------------------------------------------------------------
(* The snapshot *)

Product == Snapshot!Product
Entry == [type : Value, name : Value \cup {None}, links : Value \cup {None}]
Skus == {Wanted[i] : i \in DOMAIN Wanted}

NameIn(v, p) == IF v /\ p.name[2] # None THEN p.name[2] ELSE p.name[1]
Answer(v, p) == [type |-> p.type, name |-> NameIn(v, p), links |-> p.links]

\* The parts of an entry were those of a product a SKU has been (held), or are
\* missing because it has been none.
TypeHeld(e, h) == \E p \in h \ {None} : e.type = p.type
NameHeld(v, e, h) ==
  IF e.name = None THEN None \in h ELSE \E p \in h \ {None} : e.name = NameIn(v, p)
LinksHeld(e, h) ==
  IF e.links = None THEN None \in h ELSE \E p \in h \ {None} : e.links = p.links

\* What the snapshot says of SKU s, which is st and has been h; f changes by others.
Settled(st, h, f, v, s, sn) ==
  /\ IF s \in DOMAIN sn THEN TypeHeld(sn[s], h) /\ NameHeld(v, sn[s], h) /\ LinksHeld(sn[s], h)
     ELSE None \in h
  /\ f = 0 => IF st = None THEN s \notin DOMAIN sn ELSE s \in DOMAIN sn /\ sn[s] = Answer(v, st)

\* The same while the module is read: the name and the links may be to come.
Indexed(st, h, f, v, s, sn, named, linked) ==
  IF s \notin DOMAIN sn THEN None \in h /\ (f = 0 => st = None)
  ELSE /\ TypeHeld(sn[s], h) /\ (f = 0 => st # None /\ sn[s].type = st.type)
       /\ IF named THEN NameHeld(v, sn[s], h) /\ (f = 0 => sn[s].name = NameIn(v, st))
          ELSE sn[s].name = None
       /\ IF linked THEN LinksHeld(sn[s], h) /\ (f = 0 => sn[s].links = st.links)
          ELSE sn[s].links = None

StoreInv ==
  /\ mode \in {"auto", "never", "require"} /\ offered \in SUBSET Snapshot!Capabilities
  /\ store \in [Sku -> Product \cup {None}]
  /\ held \in [Sku -> SUBSET (Product \cup {None})]
  /\ \A s \in Sku : store[s] \in held[s]
  /\ foreign \in Nat
  /\ probed = None \/ probed \in SUBSET Snapshot!Capabilities
  /\ index = None \/ index \in SUBSET Sku

SnapInv ==
  /\ todo \subseteq DOMAIN Wanted
  /\ DOMAIN snap \subseteq Skus
  /\ snap \in [DOMAIN snap -> Entry]
  /\ pc \in {"probe", "index", "values", "extra", "rest", "list", "list-rest"} \cup Snapshot!Ended
  /\ pc \in {"values", "extra", "rest"} => todo # {}

RestInv ==
  pc = "rest" =>
    /\ \A i \in todo : Wanted[i] \notin DOMAIN snap
    /\ \A i \in DOMAIN Wanted \ todo :
         Settled(store[Wanted[i]], held[Wanted[i]], foreign, view, Wanted[i], snap)

BridgeInv ==
  pc \in {"values", "extra"} =>
    /\ \A i \in todo : Wanted[i] \in DOMAIN snap
    /\ pc = "values" => "values" \in probed
    /\ \A i \in DOMAIN Wanted :
         Indexed(store[Wanted[i]], held[Wanted[i]], foreign, view, Wanted[i], snap,
                 i \notin todo \/ (pc = "extra" /\ "values" \in probed),
                 pc = "extra" /\ i \notin todo)

FinalInv ==
  pc \in {"list", "list-rest", "done"} =>
    \A i \in DOMAIN Wanted :
      Settled(store[Wanted[i]], held[Wanted[i]], foreign, view, Wanted[i], snap)

RequireInv ==
  mode = "require" =>
    /\ pc \notin {"rest", "list-rest"}
    /\ pc \notin {"probe", "aborted", "refused"} => probed = Snapshot!Capabilities
    /\ pc \in {"values", "extra", "list", "done"} => index # None

SnapshotInv ==
  StoreInv /\ SnapInv /\ RestInv /\ BridgeInv /\ FinalInv /\ RequireInv /\ Snapshot!AuthAborts

\* What is assumed of the constants.
LEMMA SnapshotConstants ==
  /\ Comma \subseteq Sku /\ Wanted \in Seq(Sku)
  /\ \A i, j \in DOMAIN Wanted : Wanted[i] = Wanted[j] => i = j
  /\ Stores \subseteq [Sku -> Product \cup {None}]
  /\ None \notin Value /\ None \notin Product
  /\ \A S \in SUBSET Sku : S # None
  /\ \A S \in SUBSET Snapshot!Capabilities : S # None
BY RequestsAssumption DEF Snapshot!SnapshotAssumption, Product

\* Every place holds a SKU.
LEMMA WantedSkus == \A i \in DOMAIN Wanted : Wanted[i] \in Sku
BY SnapshotConstants

\* The parts of a product.
LEMMA ProductParts ==
  \A p \in Product : \A v :
    /\ p # None /\ p.type \in Value /\ p.links \in Value /\ NameIn(v, p) \in Value
    /\ p.type # None /\ p.links # None /\ NameIn(v, p) # None
<1> SUFFICES ASSUME NEW p \in Product, NEW v
             PROVE  /\ p # None /\ p.type \in Value /\ p.links \in Value
                    /\ NameIn(v, p) \in Value
  BY SnapshotConstants
<1>1. p \in [type : Value, name : Value \X (Value \cup {None}), links : Value]
  BY DEF Product, Snapshot!Product
<1>2. p.name[1] \in Value /\ p.name[2] \in Value \cup {None}
  BY <1>1
<1> QED
  BY <1>1, <1>2, SnapshotConstants DEF NameIn

\* What is read of a product has an entry's type.
LEMMA AnswerIsEntry == \A p \in Product : \A v : Answer(v, p) \in Entry
<1> SUFFICES ASSUME NEW p \in Product, NEW v PROVE Answer(v, p) \in Entry
  OBVIOUS
<1>1. p.type \in Value /\ p.links \in Value /\ NameIn(v, p) \in Value
  BY ProductParts
<1> QED BY <1>1 DEF Answer, Entry

\* A chunk is of places still to be read, and a SKU with a comma is alone in it:
\* so everything there is of it is found.
LEMMA ChunkIsFound ==
  ASSUME NEW P \in SUBSET DOMAIN Wanted
  PROVE  /\ Snapshot!FilterChunk(P) \subseteq P
         /\ Snapshot!Found(Snapshot!FilterChunk(P)) =
              {s \in Snapshot!SkusAt(Snapshot!FilterChunk(P)) : store[s] # None}
<1> DEFINE C == Snapshot!FilterChunk(P)
<1>1. C \subseteq P
  BY DEF Snapshot!FilterChunk
<1>2. ASSUME NEW i \in C, Wanted[i] \in Comma PROVE C = {i}
  <2>1. Snapshot!UpTo(P, i) = {i}
    BY <1>2 DEF Snapshot!FilterChunk
  <2>2. ASSUME NEW j \in C, j # i PROVE FALSE
    <3>1. i \in Int /\ j \in Int /\ i \in P /\ j \in P
      BY <1>1, SnapshotConstants
    <3>2. ~(j <= i)
      BY <2>1, <2>2, <3>1 DEF Snapshot!UpTo
    <3>3. i \in Snapshot!UpTo(P, j)
      BY <3>1, <3>2 DEF Snapshot!UpTo
    <3>4. CASE Wanted[j] \in Comma
      <4>1. Snapshot!UpTo(P, j) = {j}
        BY <3>4, <2>2 DEF Snapshot!FilterChunk
      <4> QED BY <4>1, <3>3, <2>2
    <3>5. CASE Wanted[j] \notin Comma
      <4>1. \A k \in Snapshot!UpTo(P, j) : Wanted[k] \notin Comma
        BY <3>5, <2>2 DEF Snapshot!FilterChunk
      <4> QED BY <4>1, <3>3, <1>2
    <3> QED BY <3>4, <3>5
  <2> QED BY <2>2, <1>2
<1>3. ASSUME NEW s \in Snapshot!SkusAt(C), s \in Comma PROVE Snapshot!SkusAt(C) = {s}
  <2>1. PICK i \in C : s = Wanted[i]
    BY <1>3 DEF Snapshot!SkusAt
  <2>2. C = {i}
    BY <2>1, <1>2, <1>3
  <2> QED
    BY <2>1, <2>2 DEF Snapshot!SkusAt
<1> QED
  BY <1>1, <1>3 DEF Snapshot!Found

\* An entry that is settled stays so when others change the store.
LEMMA SettledGrows ==
  ASSUME NEW st, NEW h, NEW f, NEW v, NEW s, NEW sn, Settled(st, h, f, v, s, sn),
         NEW st2, NEW h2, NEW f2, h \subseteq h2, f2 # 0
  PROVE  Settled(st2, h2, f2, v, s, sn)
BY DEF Settled, TypeHeld, NameHeld, LinksHeld

\* As does one of the index that is not settled yet.
LEMMA IndexedGrows ==
  ASSUME NEW st, NEW h, NEW f, NEW v, NEW s, NEW sn, NEW n, NEW l,
         Indexed(st, h, f, v, s, sn, n, l),
         NEW st2, NEW h2, NEW f2, h \subseteq h2, f2 # 0
  PROVE  Indexed(st2, h2, f2, v, s, sn, n, l)
BY DEF Indexed, TypeHeld, NameHeld, LinksHeld

\* It depends on the entry of its own SKU only.
LEMMA SettledOwn ==
  ASSUME NEW st, NEW h, NEW f, NEW v, NEW s, NEW sn, Settled(st, h, f, v, s, sn),
         NEW new, s \in DOMAIN new <=> s \in DOMAIN sn, s \in DOMAIN sn => new[s] = sn[s]
  PROVE  Settled(st, h, f, v, s, new)
BY DEF Settled

\* What REST answers of a SKU settles it.
LEMMA SettledByRest ==
  ASSUME NEW h, NEW st \in h, NEW f, NEW v, NEW s, NEW sn, h \subseteq Product \cup {None},
         IF st = None THEN s \notin DOMAIN sn ELSE s \in DOMAIN sn /\ sn[s] = Answer(v, st)
  PROVE  Settled(st, h, f, v, s, sn)
<1>1. CASE st = None
  BY <1>1 DEF Settled
<1>2. CASE st # None
  <2>1. st \in Product
    BY <1>2
  <2>2. sn[s].type = st.type /\ sn[s].links = st.links /\ sn[s].name = NameIn(v, st)
    BY <1>2 DEF Answer
  <2>3. TypeHeld(sn[s], h) /\ NameHeld(v, sn[s], h) /\ LinksHeld(sn[s], h)
    BY <2>1, <2>2, <1>2, ProductParts DEF TypeHeld, NameHeld, LinksHeld
  <2> QED BY <2>3, <1>2 DEF Settled
<1> QED BY <1>1, <1>2

\* When name and links are there, the entry of the module is settled.
LEMMA IndexedSettles ==
  ASSUME NEW st, NEW h, NEW f, NEW v, NEW s, NEW sn, Indexed(st, h, f, v, s, sn, TRUE, TRUE),
         s \in DOMAIN sn => sn[s] \in Entry
  PROVE  Settled(st, h, f, v, s, sn)
<1>1. CASE s \notin DOMAIN sn
  BY <1>1 DEF Indexed, Settled
<1>2. CASE s \in DOMAIN sn
  <2>1. TypeHeld(sn[s], h) /\ NameHeld(v, sn[s], h) /\ LinksHeld(sn[s], h)
    BY <1>2 DEF Indexed
  <2>2. ASSUME f = 0 PROVE st # None /\ sn[s] = Answer(v, st)
    <3>1. st # None /\ sn[s].type = st.type /\ sn[s].name = NameIn(v, st) /\ sn[s].links = st.links
      BY <1>2, <2>2 DEF Indexed
    <3>2. sn[s] = [type |-> sn[s].type, name |-> sn[s].name, links |-> sn[s].links]
      BY <1>2 DEF Entry
    <3> QED BY <3>1, <3>2 DEF Answer
  <2> QED BY <1>2, <2>1, <2>2 DEF Settled
<1> QED BY <1>1, <1>2

\* So does this.
LEMMA IndexedOwn ==
  ASSUME NEW st, NEW h, NEW f, NEW v, NEW s, NEW sn, NEW n, NEW l,
         Indexed(st, h, f, v, s, sn, n, l),
         NEW new, s \in DOMAIN new <=> s \in DOMAIN sn, s \in DOMAIN sn => new[s] = sn[s]
  PROVE  Indexed(st, h, f, v, s, new, n, l)
BY DEF Indexed

\* The module's values give an entry its name.
LEMMA IndexedNamed ==
  ASSUME NEW h \in SUBSET (Product \cup {None}), NEW st \in h, NEW f, NEW v, NEW s, NEW sn,
         Indexed(st, h, f, v, s, sn, FALSE, FALSE), s \in DOMAIN sn, sn[s] \in Entry,
         NEW new, s \in DOMAIN new,
         new[s] = IF st # None THEN [sn[s] EXCEPT !.name = NameIn(v, st)] ELSE sn[s]
  PROVE  Indexed(st, h, f, v, s, new, TRUE, FALSE)
<1>1. TypeHeld(sn[s], h) /\ (f = 0 => st # None /\ sn[s].type = st.type)
      /\ sn[s].name = None /\ sn[s].links = None
  BY DEF Indexed
<1>2. CASE st = None
  <2>1. new[s] = sn[s]
    BY <1>2
  <2>2. NameHeld(v, new[s], h)
    BY <1>1, <1>2, <2>1 DEF NameHeld
  <2> QED BY <1>1, <1>2, <2>1, <2>2 DEF Indexed
<1>3. CASE st # None
  <2>1. new[s].type = sn[s].type /\ new[s].links = sn[s].links /\ new[s].name = NameIn(v, st)
    BY <1>3 DEF Entry
  <2>2. NameHeld(v, new[s], h)
    BY <1>3, <2>1, ProductParts DEF NameHeld
  <2>3. TypeHeld(new[s], h)
    BY <1>1, <2>1 DEF TypeHeld
  <2> QED BY <1>1, <2>1, <2>2, <2>3 DEF Indexed
<1> QED BY <1>2, <1>3

\* The REST read after it gives it its links, and its name when it has none yet.
LEMMA IndexedLinked ==
  ASSUME NEW h \in SUBSET (Product \cup {None}), NEW st \in h, NEW f, NEW v, NEW s, NEW sn,
         NEW n \in BOOLEAN,
         Indexed(st, h, f, v, s, sn, n, FALSE), s \in DOMAIN sn, sn[s] \in Entry,
         NEW new, s \in DOMAIN new,
         new[s] = IF st # None
                  THEN [type |-> sn[s].type, links |-> st.links,
                        name |-> IF n THEN sn[s].name ELSE NameIn(v, st)]
                  ELSE sn[s]
  PROVE  Indexed(st, h, f, v, s, new, TRUE, TRUE)
<1>1. TypeHeld(sn[s], h) /\ (f = 0 => st # None /\ sn[s].type = st.type) /\ sn[s].links = None
  BY DEF Indexed
<1>2. n => NameHeld(v, sn[s], h) /\ (f = 0 => sn[s].name = NameIn(v, st))
  BY DEF Indexed
<1>3. ~n => sn[s].name = None
  BY DEF Indexed
<1>4. CASE st = None
  <2>1. new[s] = sn[s]
    BY <1>4
  <2>2. NameHeld(v, new[s], h) /\ LinksHeld(new[s], h)
    BY <1>1, <1>2, <1>3, <1>4, <2>1 DEF NameHeld, LinksHeld
  <2> QED BY <1>1, <1>4, <2>1, <2>2 DEF Indexed
<1>5. CASE st # None
  <2>1. new[s].type = sn[s].type /\ new[s].links = st.links
        /\ new[s].name = IF n THEN sn[s].name ELSE NameIn(v, st)
    BY <1>5
  <2>2. NameHeld(v, new[s], h) /\ (f = 0 => new[s].name = NameIn(v, st))
    BY <1>2, <1>5, <2>1, ProductParts DEF NameHeld
  <2>3. TypeHeld(new[s], h)
    BY <1>1, <2>1 DEF TypeHeld
  <2>4. LinksHeld(new[s], h)
    BY <1>5, <2>1, ProductParts DEF LinksHeld
  <2> QED BY <1>1, <2>1, <2>2, <2>3, <2>4 DEF Indexed
<1> QED BY <1>4, <1>5

\* It holds before anything is read.
LEMMA SnapshotInit == Snapshot!Init => SnapshotInv
<1> SUFFICES ASSUME Snapshot!Init PROVE SnapshotInv
  OBVIOUS
<1>1. /\ mode \in {"auto", "never", "require"} /\ store \in Stores
      /\ offered \in SUBSET Snapshot!Capabilities
      /\ held = [s \in Sku |-> {store[s]}] /\ foreign = 0
      /\ pc = IF mode = "never" THEN Snapshot!NativePc ELSE "probe"
      /\ probed = None /\ index = None /\ snap = <<>> /\ cause = {}
      /\ todo = IF mode = "never" THEN DOMAIN Wanted ELSE {}
  BY DEF Snapshot!Init
<1>2. StoreInv
  BY <1>1, SnapshotConstants DEF StoreInv
<1>3. (DOMAIN snap) = {} /\ snap \in [{} -> Entry]
  BY <1>1
<1>4. pc \in {"list", "done"} => Wanted = <<>>
  BY <1>1 DEF Snapshot!NativePc, Snapshot!AfterSnapshot
<1>5. Wanted = <<>> <=> (DOMAIN Wanted) = {}
  BY SnapshotConstants
<1>6. pc \in {"probe", "rest", "list", "done"} /\ (pc = "rest" => mode = "never" /\ Wanted # <<>>)
  BY <1>1 DEF Snapshot!NativePc, Snapshot!AfterSnapshot
<1>7. SnapInv
  BY <1>1, <1>3, <1>5, <1>6 DEF SnapInv, Snapshot!Ended
<1>8. RestInv /\ BridgeInv /\ FinalInv
  BY <1>1, <1>3, <1>4, <1>5, <1>6 DEF RestInv, BridgeInv, FinalInv
<1>9. RequireInv /\ Snapshot!AuthAborts
  BY <1>1, <1>6 DEF RequireInv, Snapshot!AuthAborts
<1> QED
  BY <1>2, <1>7, <1>8, <1>9 DEF SnapshotInv

\* Another's change is held from then on, and what was held is still.
LEMMA SnapshotForeign == SnapshotInv /\ Snapshot!Foreign => SnapshotInv'
<1> SUFFICES ASSUME SnapshotInv, Snapshot!Foreign PROVE SnapshotInv'
  OBVIOUS
<1>1. /\ pc \notin Snapshot!Ended /\ foreign' = foreign + 1
      /\ \E s \in Sku, p \in Product \cup {None} : store' = [store EXCEPT ![s] = p]
      /\ held' = [s \in Sku |-> held[s] \cup {store'[s]}]
      /\ UNCHANGED <<mode, offered, view, pc, probed, index, todo, snap, cause>>
  BY DEF Snapshot!Foreign, Snapshot!inputs, Product
<1>2. StoreInv /\ SnapInv
  BY DEF SnapshotInv
<1>3. StoreInv'
  BY <1>1, <1>2 DEF StoreInv
<1>4. SnapInv'
  BY <1>1, <1>2 DEF SnapInv
<1>5. foreign' # 0 /\ \A i \in DOMAIN Wanted : held[Wanted[i]] \subseteq held'[Wanted[i]]
  BY <1>1, <1>2, WantedSkus DEF StoreInv
<1>6. RestInv'
  BY <1>1, <1>5, SettledGrows DEF RestInv, SnapshotInv
<1>7. BridgeInv'
  BY <1>1, <1>5, IndexedGrows DEF BridgeInv, SnapshotInv
<1>8. FinalInv'
  BY <1>1, <1>5, SettledGrows DEF FinalInv, SnapshotInv
<1>9. RequireInv' /\ Snapshot!AuthAborts'
  BY <1>1 DEF RequireInv, Snapshot!AuthAborts, SnapshotInv
<1> QED
  BY <1>3, <1>4, <1>6, <1>7, <1>8, <1>9 DEF SnapshotInv

\* The fallback starts from nothing.
LEMMA SnapshotNative ==
  SnapshotInv /\ Snapshot!Native => SnapInv' /\ RestInv' /\ BridgeInv' /\ FinalInv'
<1> SUFFICES ASSUME SnapshotInv, Snapshot!Native
             PROVE  SnapInv' /\ RestInv' /\ BridgeInv' /\ FinalInv'
  OBVIOUS
<1>1. pc' = Snapshot!NativePc /\ todo' = DOMAIN Wanted /\ snap' = <<>>
  BY DEF Snapshot!Native
<1>2. (DOMAIN snap') = {} /\ snap' \in [{} -> Entry]
  BY <1>1
<1>3. Wanted = <<>> <=> (DOMAIN Wanted) = {}
  BY SnapshotConstants
<1>4. pc' \in {"rest", "list", "done"} /\ (pc' \in {"list", "done"} <=> Wanted = <<>>)
  BY <1>1 DEF Snapshot!NativePc, Snapshot!AfterSnapshot
<1>5. SnapInv'
  BY <1>1, <1>2, <1>3, <1>4 DEF SnapInv, Snapshot!Ended
<1> QED
  BY <1>1, <1>2, <1>3, <1>4, <1>5 DEF RestInv, BridgeInv, FinalInv

\* A step that changes none of the snapshot, and goes where nothing more is asked of it.
LEMMA SnapshotStands ==
  ASSUME SnapshotInv,
         UNCHANGED <<mode, offered, view, store, foreign, held, todo, snap>>,
         pc' \in {"index", "list-rest", "done", "aborted", "refused"},
         pc' \in {"list-rest", "done"} => pc \in {"list", "list-rest"}
  PROVE  SnapInv' /\ RestInv' /\ BridgeInv' /\ FinalInv'
<1>1. SnapInv'
  BY DEF SnapshotInv, SnapInv, Snapshot!Ended
<1>2. RestInv' /\ BridgeInv'
  BY DEF RestInv, BridgeInv
<1>3. FinalInv'
  BY DEF SnapshotInv, FinalInv
<1> QED BY <1>1, <1>2, <1>3

\* The probe reads nothing of the store.
LEMMA SnapshotProbe == SnapshotInv /\ Snapshot!Probe => SnapshotInv'
<1> SUFFICES ASSUME SnapshotInv, Snapshot!Probe PROVE SnapshotInv'
  OBVIOUS
<1>1. pc = "probe" /\ UNCHANGED <<mode, offered, view, store, foreign, held, index>>
  BY DEF Snapshot!Probe, Snapshot!inputs
<1>2. PICK answer \in {"capabilities", "auth", "error"} :
        /\ cause' = IF answer = "capabilities" THEN cause ELSE cause \cup {answer}
        /\ IF Snapshot!Aborts(answer) THEN pc' = "aborted" /\ UNCHANGED <<probed, todo, snap>>
           ELSE /\ probed' = IF answer = "capabilities" THEN offered ELSE {}
                /\ IF Snapshot!Required /\ probed' # Snapshot!Capabilities
                   THEN pc' = "refused" /\ UNCHANGED <<todo, snap>>
                   ELSE IF "index" \in probed' THEN pc' = "index" /\ UNCHANGED <<todo, snap>>
                   ELSE Snapshot!Native
  BY DEF Snapshot!Probe
<1>3. StoreInv'
  <2>1. probed' = probed \/ probed' \in SUBSET Snapshot!Capabilities
    BY <1>2 DEF SnapshotInv, StoreInv, Snapshot!Native
  <2> QED BY <1>1, <2>1 DEF SnapshotInv, StoreInv
<1>4. \/ pc' \in {"aborted", "refused"} /\ UNCHANGED <<todo, snap>>
      \/ /\ pc' = "index" /\ UNCHANGED <<todo, snap>> /\ answer # "auth"
         /\ mode = "require" => probed' = Snapshot!Capabilities
      \/ Snapshot!Native /\ answer # "auth" /\ mode # "require"
  BY <1>2 DEF Snapshot!Aborts, Snapshot!Required, Snapshot!Capabilities
<1>5. SnapInv' /\ RestInv' /\ BridgeInv' /\ FinalInv'
  BY <1>1, <1>4, SnapshotNative, SnapshotStands
<1>6. RequireInv'
  BY <1>1, <1>4 DEF RequireInv
<1>7. Snapshot!AuthAborts'
  <2>1. "auth" \notin cause
    BY <1>1 DEF SnapshotInv, Snapshot!AuthAborts
  <2>2. CASE answer = "auth"
    BY <2>2, <1>2 DEF Snapshot!Aborts, Snapshot!AuthAborts
  <2>3. CASE answer # "auth"
    BY <2>1, <2>3, <1>2 DEF Snapshot!AuthAborts
  <2> QED BY <2>2, <2>3
<1> QED
  BY <1>3, <1>5, <1>6, <1>7 DEF SnapshotInv

\* A failing module leaves what stood: REST reads everything again.
LEMMA SnapshotBridgeFails == SnapshotInv /\ Snapshot!BridgeFails => SnapshotInv'
<1> SUFFICES ASSUME SnapshotInv, Snapshot!BridgeFails PROVE SnapshotInv'
  OBVIOUS
<1>1. /\ pc \in {"index", "values", "extra"}
      /\ UNCHANGED <<mode, offered, view, store, foreign, held, probed, index>>
  BY DEF Snapshot!BridgeFails, Snapshot!inputs
<1>2. PICK how \in {"http", "lost", "auth"} :
        /\ cause' = cause \cup {how}
        /\ IF Snapshot!Aborts(how) THEN pc' = "aborted" /\ UNCHANGED <<todo, snap>>
           ELSE IF Snapshot!Required THEN pc' = "refused" /\ UNCHANGED <<todo, snap>>
           ELSE Snapshot!Native
  BY DEF Snapshot!BridgeFails
<1>3. StoreInv'
  BY <1>1 DEF SnapshotInv, StoreInv
<1>4. \/ pc' \in {"aborted", "refused"} /\ UNCHANGED <<todo, snap>>
      \/ Snapshot!Native /\ mode # "require"
  BY <1>2 DEF Snapshot!Required
<1>5. SnapInv' /\ RestInv' /\ BridgeInv' /\ FinalInv'
  BY <1>1, <1>4, SnapshotNative, SnapshotStands
<1>6. RequireInv'
  BY <1>1, <1>4 DEF RequireInv
<1>7. Snapshot!AuthAborts'
  <2>1. "auth" \notin cause
    BY <1>1 DEF SnapshotInv, Snapshot!AuthAborts
  <2>2. how = "auth" => pc' = "aborted"
    BY <1>2 DEF Snapshot!Aborts
  <2> QED BY <1>2, <2>1, <2>2 DEF Snapshot!AuthAborts
<1> QED
  BY <1>3, <1>5, <1>6, <1>7 DEF SnapshotInv

\* A failing REST request ends the import.
LEMMA SnapshotRestFails == SnapshotInv /\ Snapshot!RestFails => SnapshotInv'
<1> SUFFICES ASSUME SnapshotInv, Snapshot!RestFails PROVE SnapshotInv'
  OBVIOUS
<1>1. /\ pc \in {"rest", "list-rest"} /\ pc' = "aborted"
      /\ UNCHANGED <<mode, offered, view, store, foreign, held, probed, index, todo, snap>>
  BY DEF Snapshot!RestFails, Snapshot!inputs
<1>2. StoreInv'
  BY <1>1 DEF SnapshotInv, StoreInv
<1>3. SnapInv' /\ RestInv' /\ BridgeInv' /\ FinalInv'
  BY <1>1, SnapshotStands
<1>4. RequireInv' /\ Snapshot!AuthAborts'
  BY <1>1 DEF RequireInv, Snapshot!AuthAborts
<1> QED
  BY <1>2, <1>3, <1>4 DEF SnapshotInv

\* The listing of a deleting import leaves the snapshot as it is.
LEMMA SnapshotListing ==
  SnapshotInv /\ (Snapshot!ListBridge \/ Snapshot!ListFails \/ Snapshot!ListRest) => SnapshotInv'
<1> SUFFICES ASSUME SnapshotInv, Snapshot!ListBridge \/ Snapshot!ListFails \/ Snapshot!ListRest
             PROVE  SnapshotInv'
  OBVIOUS
<1>1. /\ pc \in {"list", "list-rest"} /\ pc' \in {"done", "refused", "list-rest"}
      /\ UNCHANGED <<mode, offered, view, store, foreign, held, probed, todo, snap>>
      /\ "auth" \in cause' => "auth" \in cause
  BY DEF Snapshot!ListBridge, Snapshot!ListFails, Snapshot!ListRest, Snapshot!inputs
<1>2. index' = index \/ (index' \in SUBSET Sku /\ (index # None => index' = index))
  BY DEF Snapshot!ListBridge, Snapshot!ListFails, Snapshot!ListRest
<1>3. StoreInv'
  BY <1>1, <1>2 DEF SnapshotInv, StoreInv
<1>4. SnapInv' /\ RestInv' /\ BridgeInv' /\ FinalInv'
  BY <1>1, SnapshotStands
<1>5. mode = "require" => pc' # "list-rest"
  BY <1>1 DEF Snapshot!ListBridge, Snapshot!ListFails, Snapshot!ListRest, Snapshot!Required
<1>6. RequireInv'
  <2> SUFFICES ASSUME mode = "require"
               PROVE  /\ pc' \notin {"rest", "list-rest"}
                      /\ probed' = Snapshot!Capabilities /\ index' # None
    BY <1>1 DEF RequireInv
  <2>1. pc = "list" /\ index # None /\ probed = Snapshot!Capabilities
    BY <1>1 DEF SnapshotInv, RequireInv
  <2> QED BY <1>1, <1>2, <1>5, <2>1
<1>7. Snapshot!AuthAborts'
  BY <1>1 DEF SnapshotInv, Snapshot!AuthAborts
<1> QED
  BY <1>3, <1>4, <1>6, <1>7 DEF SnapshotInv

\* A stutter.
LEMMA SnapshotUnchanged == SnapshotInv /\ UNCHANGED Snapshot!vars => SnapshotInv'
BY DEF SnapshotInv, StoreInv, SnapInv, RestInv, BridgeInv, FinalInv, RequireInv,
       Snapshot!AuthAborts, Snapshot!vars, Snapshot!inputs

\* Places are where their SKUs are.
LEMMA SkusAtPlaces ==
  \A P \in SUBSET DOMAIN Wanted : \A i \in DOMAIN Wanted :
    Wanted[i] \in Snapshot!SkusAt(P) <=> i \in P
BY SnapshotConstants DEF Snapshot!SkusAt

\* What the store has been of the SKU at a place.
LEMMA StoredAt ==
  ASSUME StoreInv, NEW i \in DOMAIN Wanted
  PROVE  /\ held[Wanted[i]] \in SUBSET (Product \cup {None})
         /\ store[Wanted[i]] \in held[Wanted[i]]
BY WantedSkus DEF StoreInv

\* A page of the native reading settles the SKUs of its chunk.
LEMMA SnapshotRest == SnapshotInv /\ Snapshot!Rest => SnapshotInv'
<1> SUFFICES ASSUME SnapshotInv, Snapshot!Rest PROVE SnapshotInv'
  OBVIOUS
<1> DEFINE C == Snapshot!FilterChunk(todo)
           there == {s \in Snapshot!SkusAt(C) : store[s] # None}
<1>1. /\ pc = "rest" /\ UNCHANGED <<mode, offered, view, store, foreign, held, probed, index, cause>>
      /\ snap' = [s \in DOMAIN snap \cup Snapshot!Found(C) |->
                   IF s \in Snapshot!Found(C) THEN Snapshot!RestEntry(store[s]) ELSE snap[s]]
      /\ todo' = todo \ C
      /\ pc' = IF todo' = {} THEN Snapshot!AfterSnapshot ELSE pc
  BY DEF Snapshot!Rest, Snapshot!ChunkRead, Snapshot!inputs
<1>2. StoreInv /\ SnapInv /\ RestInv
  BY DEF SnapshotInv
<1>3. C \subseteq todo /\ Snapshot!Found(C) = there /\ todo \subseteq DOMAIN Wanted
  BY <1>2, ChunkIsFound DEF SnapInv
<1>4. \A p : Snapshot!RestEntry(p) = Answer(view, p)
  BY DEF Snapshot!RestEntry, Snapshot!NameOf, Answer, NameIn
<1> HIDE DEF C
<1>5. /\ DOMAIN snap' = DOMAIN snap \cup there
      /\ \A s \in there : snap'[s] = Answer(view, store[s])
      /\ \A s \in (DOMAIN snap) \ there : snap'[s] = snap[s]
  BY <1>1, <1>3, <1>4
<1>6. \A s \in there : s \in Skus /\ s \in Sku /\ store[s] \in Product
  BY <1>2, <1>3, WantedSkus DEF StoreInv, Snapshot!SkusAt, Skus
<1>7. pc' = "rest" \/ pc' \in {"list", "done"}
  BY <1>1 DEF Snapshot!AfterSnapshot
<1>8. SnapInv'
  <2>1. \A s \in there : snap'[s] \in Entry
    BY <1>5, <1>6, AnswerIsEntry
  <2>2. \A s \in DOMAIN snap' : snap'[s] \in Entry
    BY <1>2, <1>5, <2>1 DEF SnapInv
  <2>3. snap' \in [DOMAIN snap' -> Entry]
    BY <1>1, <2>2
  <2>4. DOMAIN snap' \subseteq Skus
    BY <1>2, <1>5, <1>6 DEF SnapInv
  <2>5. pc' = "rest" => todo' # {}
    BY <1>1 DEF Snapshot!AfterSnapshot
  <2> QED
    BY <1>1, <1>2, <1>3, <1>7, <2>3, <2>4, <2>5 DEF SnapInv, Snapshot!Ended
<1>9. \A i \in DOMAIN Wanted \ todo' :
        Settled(store[Wanted[i]], held[Wanted[i]], foreign, view, Wanted[i], snap')
  <2> TAKE i \in DOMAIN Wanted \ todo'
  <2>1. Wanted[i] \in Snapshot!SkusAt(C) <=> i \in C
    BY <1>3, SkusAtPlaces
  <2>2. CASE i \in C
    <3>1. Wanted[i] \notin DOMAIN snap
      BY <1>1, <1>2, <1>3, <2>2 DEF RestInv
    <3>2. Wanted[i] \in there <=> store[Wanted[i]] # None
      BY <2>1, <2>2
    <3>3. IF store[Wanted[i]] = None THEN Wanted[i] \notin DOMAIN snap'
          ELSE Wanted[i] \in DOMAIN snap' /\ snap'[Wanted[i]] = Answer(view, store[Wanted[i]])
      BY <1>5, <3>1, <3>2
    <3> QED BY <1>2, <3>3, StoredAt, SettledByRest
  <2>3. CASE i \notin C
    <3>1. Settled(store[Wanted[i]], held[Wanted[i]], foreign, view, Wanted[i], snap)
      BY <1>1, <1>2, <2>3 DEF RestInv
    <3>2. /\ Wanted[i] \in DOMAIN snap' <=> Wanted[i] \in DOMAIN snap
          /\ Wanted[i] \in DOMAIN snap => snap'[Wanted[i]] = snap[Wanted[i]]
      BY <1>5, <2>1, <2>3
    <3> QED BY <3>1, <3>2, SettledOwn
  <2> QED BY <2>2, <2>3
<1>10. \A i \in todo' : Wanted[i] \notin DOMAIN snap'
  <2> TAKE i \in todo'
  <2>1. Wanted[i] \notin Snapshot!SkusAt(C) /\ Wanted[i] \notin DOMAIN snap
    BY <1>1, <1>2, <1>3, SkusAtPlaces DEF RestInv
  <2> QED BY <1>5, <2>1
<1>11. RestInv' /\ BridgeInv'
  BY <1>1, <1>7, <1>9, <1>10 DEF RestInv, BridgeInv
<1>12. FinalInv'
  BY <1>1, <1>9 DEF FinalInv
<1>13. StoreInv' /\ RequireInv' /\ Snapshot!AuthAborts'
  BY <1>1 DEF SnapshotInv, StoreInv, RequireInv, Snapshot!AuthAborts
<1> QED
  BY <1>8, <1>11, <1>12, <1>13 DEF SnapshotInv

\* The index settles which products are there.
LEMMA SnapshotIndex == SnapshotInv /\ Snapshot!Index => SnapshotInv'
<1> SUFFICES ASSUME SnapshotInv, Snapshot!Index PROVE SnapshotInv'
  OBVIOUS
<1>1. /\ pc = "index" /\ UNCHANGED <<mode, offered, view, store, foreign, held, probed, cause>>
      /\ index' = {s \in Sku : store[s] # None}
      /\ snap' = [s \in Skus \cap index' |->
                   [type |-> store[s].type, name |-> None, links |-> None]]
      /\ todo' = {i \in DOMAIN Wanted : Wanted[i] \in index'}
      /\ pc' = IF todo' = {} THEN Snapshot!AfterSnapshot
               ELSE IF "values" \in probed THEN "values" ELSE "extra"
  BY DEF Snapshot!Index, Snapshot!inputs, Snapshot!SkusAt, Skus
<1>2. StoreInv
  BY DEF SnapshotInv
<1>3. \A s \in index' : store[s] \in Product /\ s \in Sku
  BY <1>1, <1>2 DEF StoreInv
<1>4. /\ DOMAIN snap' = Skus \cap index'
      /\ \A s \in Skus \cap index' :
           snap'[s].type = store[s].type /\ snap'[s].name = None /\ snap'[s].links = None
  BY <1>1
<1>5. index' # None /\ index' \in SUBSET Sku
  BY <1>1, SnapshotConstants
<1>6. (pc' \in {"list", "done"} /\ todo' = {}) \/ (pc' \in {"values", "extra"} /\ todo' # {})
  BY <1>1 DEF Snapshot!AfterSnapshot
<1>7. SnapInv'
  <2>1. snap' \in [DOMAIN snap' -> Entry]
    BY <1>1, <1>3, ProductParts DEF Entry
  <2> QED
    BY <1>1, <1>4, <1>6, <2>1 DEF SnapInv, Snapshot!Ended
<1>8. \A i \in DOMAIN Wanted :
        /\ Wanted[i] \in DOMAIN snap' <=> i \in todo'
        /\ Wanted[i] \in DOMAIN snap' <=> store[Wanted[i]] # None
  BY <1>1, <1>4, WantedSkus DEF Skus
<1>9. BridgeInv'
  <2>1. \A i \in DOMAIN Wanted : \A n, l \in BOOLEAN : (i \in todo' => ~n /\ ~l) =>
          Indexed(store[Wanted[i]], held[Wanted[i]], foreign, view, Wanted[i], snap', n, l)
    <3> TAKE i \in DOMAIN Wanted
    <3> TAKE n, l \in BOOLEAN
    <3> HAVE i \in todo' => ~n /\ ~l
    <3>1. store[Wanted[i]] \in held[Wanted[i]]
      BY <1>2, StoredAt
    <3>2. CASE store[Wanted[i]] = None
      BY <3>1, <3>2, <1>8 DEF Indexed
    <3>3. CASE store[Wanted[i]] # None
      <4>1. Wanted[i] \in DOMAIN snap' /\ ~n /\ ~l
        BY <1>8, <3>3
      <4>2. TypeHeld(snap'[Wanted[i]], held[Wanted[i]])
        BY <1>4, <3>1, <3>3, <4>1 DEF TypeHeld
      <4> QED BY <1>4, <3>3, <4>1, <4>2 DEF Indexed
    <3> QED BY <3>2, <3>3
  <2>2. pc' = "values" => "values" \in probed
    BY <1>1 DEF Snapshot!AfterSnapshot
  <2>3. pc' = "extra" => "values" \notin probed
    BY <1>1 DEF Snapshot!AfterSnapshot
  <2>4. \A i \in DOMAIN Wanted :
         pc' \in {"values", "extra"} =>
          Indexed(store[Wanted[i]], held[Wanted[i]], foreign, view, Wanted[i], snap',
                  i \notin todo' \/ (pc' = "extra" /\ "values" \in probed),
                  pc' = "extra" /\ i \notin todo')
    BY <2>1, <2>3
  <2> QED BY <1>1, <1>8, <2>2, <2>4 DEF BridgeInv
<1>10. RestInv'
  BY <1>6 DEF RestInv
<1>11. FinalInv'
  <2> SUFFICES ASSUME pc' \in {"list", "list-rest", "done"}, NEW i \in DOMAIN Wanted
               PROVE  Settled(store[Wanted[i]], held[Wanted[i]], foreign, view, Wanted[i], snap')
    BY <1>1 DEF FinalInv
  <2>1. store[Wanted[i]] = None /\ Wanted[i] \notin DOMAIN snap'
    BY <1>6, <1>8
  <2> QED BY <1>2, <2>1, StoredAt, SettledByRest
<1>12. StoreInv' /\ RequireInv' /\ Snapshot!AuthAborts'
  BY <1>1, <1>5, <1>6 DEF SnapshotInv, StoreInv, RequireInv, Snapshot!AuthAborts
<1> QED
  BY <1>7, <1>9, <1>10, <1>11, <1>12 DEF SnapshotInv

\* A chunk of values settles the names of its places.
LEMMA SnapshotValues == SnapshotInv /\ Snapshot!Values => SnapshotInv'
<1> SUFFICES ASSUME SnapshotInv, Snapshot!Values PROVE SnapshotInv'
  OBVIOUS
<1> DEFINE C == Snapshot!ValuesChunk(todo)
<1>1. /\ pc = "values" /\ UNCHANGED <<mode, offered, view, store, foreign, held, probed, index, cause>>
      /\ snap' = [s \in DOMAIN snap |->
                   IF s \in Snapshot!SkusAt(C) /\ store[s] # None
                   THEN [snap[s] EXCEPT !.name = NameIn(view, store[s])] ELSE snap[s]]
      /\ IF C # todo THEN todo' = todo \ C /\ UNCHANGED pc
         ELSE pc' = "extra" /\ todo' = {i \in DOMAIN Wanted : Wanted[i] \in DOMAIN snap}
  BY DEF Snapshot!Values, Snapshot!inputs, Snapshot!NameOf, NameIn
<1>2. StoreInv /\ SnapInv /\ BridgeInv
  BY DEF SnapshotInv
<1>3. C \subseteq todo /\ todo \subseteq DOMAIN Wanted
  BY <1>2 DEF SnapInv, Snapshot!ValuesChunk
<1> HIDE DEF C
<1>4. DOMAIN snap' = DOMAIN snap
  BY <1>1
<1>5. \A i \in todo : Wanted[i] \in DOMAIN snap
  BY <1>1, <1>2 DEF BridgeInv
<1>6. \A i \in DOMAIN Wanted :
        Indexed(store[Wanted[i]], held[Wanted[i]], foreign, view, Wanted[i], snap,
                i \notin todo, FALSE)
  BY <1>1, <1>2 DEF BridgeInv
<1>7. pc' \in {"values", "extra"} /\ todo' # {}
  <2>1. todo # {}
    BY <1>1, <1>2 DEF SnapInv
  <2>2. PICK i \in todo : TRUE
    BY <2>1
  <2>3. i \in {j \in DOMAIN Wanted : Wanted[j] \in DOMAIN snap}
    BY <1>3, <1>5
  <2> QED BY <1>1, <1>3, <2>3
<1>8. \A s \in DOMAIN snap : snap[s] \in Entry /\ s \in Skus /\ s \in Sku
  BY <1>2, WantedSkus DEF SnapInv, Skus
<1>9. SnapInv'
  <2>1. ASSUME NEW s \in DOMAIN snap PROVE snap'[s] \in Entry
    <3>1. CASE s \in Snapshot!SkusAt(C) /\ store[s] # None
      <4>1. store[s] \in Product
        BY <1>2, <1>8, <3>1 DEF StoreInv
      <4>2. NameIn(view, store[s]) \in Value
        BY <4>1, ProductParts
      <4> QED BY <1>1, <1>8, <3>1, <4>2 DEF Entry
    <3>2. CASE ~(s \in Snapshot!SkusAt(C) /\ store[s] # None)
      BY <1>1, <1>8, <3>2
    <3> QED BY <3>1, <3>2
  <2>2. snap' \in [DOMAIN snap' -> Entry]
    BY <1>1, <1>4, <2>1
  <2>3. todo' \subseteq DOMAIN Wanted
    BY <1>1, <1>3
  <2> QED BY <1>2, <1>4, <1>7, <2>2, <2>3 DEF SnapInv
<1>10. \A i \in DOMAIN Wanted :
         Indexed(store[Wanted[i]], held[Wanted[i]], foreign, view, Wanted[i], snap',
                 i \notin todo \ C, FALSE)
  <2> TAKE i \in DOMAIN Wanted
  <2>1. Wanted[i] \in Snapshot!SkusAt(C) <=> i \in C
    BY <1>3, SkusAtPlaces
  <2>2. CASE i \in C
    <3>1. Wanted[i] \in DOMAIN snap /\ Wanted[i] \in DOMAIN snap' /\ snap[Wanted[i]] \in Entry
      BY <1>3, <1>4, <1>5, <1>8, <2>2
    <3>2. snap'[Wanted[i]] = IF store[Wanted[i]] # None
            THEN [snap[Wanted[i]] EXCEPT !.name = NameIn(view, store[Wanted[i]])]
            ELSE snap[Wanted[i]]
      BY <1>1, <2>1, <2>2, <3>1
    <3>3. Indexed(store[Wanted[i]], held[Wanted[i]], foreign, view, Wanted[i], snap, FALSE, FALSE)
      BY <1>3, <1>6, <2>2
    <3>4. Indexed(store[Wanted[i]], held[Wanted[i]], foreign, view, Wanted[i], snap', TRUE, FALSE)
      BY <1>2, <3>1, <3>2, <3>3, StoredAt, IndexedNamed
    <3> QED BY <2>2, <3>4
  <2>3. CASE i \notin C
    <3>1. /\ Wanted[i] \in DOMAIN snap' <=> Wanted[i] \in DOMAIN snap
          /\ Wanted[i] \in DOMAIN snap => snap'[Wanted[i]] = snap[Wanted[i]]
      BY <1>1, <2>1, <2>3
    <3>2. i \notin todo \ C <=> i \notin todo
      BY <2>3
    <3>3. Indexed(store[Wanted[i]], held[Wanted[i]], foreign, view, Wanted[i], snap,
                  i \notin todo \ C, FALSE)
      BY <1>6, <3>2
    <3> QED BY <3>1, <3>3, IndexedOwn
  <2> QED BY <2>2, <2>3
<1>11. BridgeInv'
  <2>1. "values" \in probed
    BY <1>1, <1>2 DEF BridgeInv
  <2>2. CASE C # todo
    <3>1. todo' = todo \ C /\ pc' = "values"
      BY <1>1, <2>2
    <3> QED BY <1>1, <1>4, <1>5, <1>10, <2>1, <3>1 DEF BridgeInv
  <2>3. CASE C = todo
    <3>1. todo' = {i \in DOMAIN Wanted : Wanted[i] \in DOMAIN snap} /\ pc' = "extra"
      BY <1>1, <2>3
    <3>2. \A i \in DOMAIN Wanted :
            Indexed(store[Wanted[i]], held[Wanted[i]], foreign, view, Wanted[i], snap', TRUE, FALSE)
      BY <1>10, <2>3
    <3>3. \A i \in DOMAIN Wanted :
            Indexed(store[Wanted[i]], held[Wanted[i]], foreign, view, Wanted[i], snap', TRUE,
                    i \notin todo')
      <4> TAKE i \in DOMAIN Wanted
      <4>1. CASE i \in todo'
        BY <3>2, <4>1
      <4>2. CASE i \notin todo'
        BY <1>4, <3>1, <3>2, <4>2 DEF Indexed
      <4> QED BY <4>1, <4>2
    <3> QED BY <1>1, <1>4, <2>1, <3>1, <3>3 DEF BridgeInv
  <2> QED BY <2>2, <2>3
<1>12. RestInv' /\ FinalInv'
  BY <1>7 DEF RestInv, FinalInv
<1>13. StoreInv' /\ RequireInv' /\ Snapshot!AuthAborts'
  BY <1>1, <1>7 DEF SnapshotInv, StoreInv, RequireInv, Snapshot!AuthAborts
<1> QED
  BY <1>9, <1>11, <1>12, <1>13 DEF SnapshotInv

\* What the module has no field for is read over REST.
LEMMA SnapshotExtra == SnapshotInv /\ Snapshot!Extra => SnapshotInv'
<1> SUFFICES ASSUME SnapshotInv, Snapshot!Extra PROVE SnapshotInv'
  OBVIOUS
<1> DEFINE C == Snapshot!FilterChunk(todo)
           Named == "values" \in probed
<1>1. /\ pc = "extra" /\ UNCHANGED <<mode, offered, view, store, foreign, held, probed, index, cause>>
      /\ snap' = [s \in DOMAIN snap |->
                   IF s \in Snapshot!Found(C)
                   THEN [type |-> snap[s].type, links |-> store[s].links,
                         name |-> IF Named THEN snap[s].name ELSE NameIn(view, store[s])]
                   ELSE snap[s]]
      /\ todo' = todo \ C
      /\ pc' = IF todo' = {} THEN Snapshot!AfterSnapshot ELSE pc
  BY DEF Snapshot!Extra, Snapshot!ChunkRead, Snapshot!inputs, Snapshot!WithExtra,
         Snapshot!NameOf, NameIn
<1>2. StoreInv /\ SnapInv /\ BridgeInv
  BY DEF SnapshotInv
<1>3. /\ C \subseteq todo /\ todo \subseteq DOMAIN Wanted
      /\ Snapshot!Found(C) = {s \in Snapshot!SkusAt(C) : store[s] # None}
  BY <1>2, ChunkIsFound DEF SnapInv
<1> HIDE DEF C
<1>4. DOMAIN snap' = DOMAIN snap
  BY <1>1
<1>5. \A i \in todo : Wanted[i] \in DOMAIN snap
  BY <1>1, <1>2 DEF BridgeInv
<1>6. \A i \in DOMAIN Wanted :
        Indexed(store[Wanted[i]], held[Wanted[i]], foreign, view, Wanted[i], snap,
                i \notin todo \/ Named, i \notin todo)
  BY <1>1, <1>2 DEF BridgeInv
<1>7. (pc' = "extra" /\ todo' # {}) \/ (pc' \in {"list", "done"} /\ todo' = {})
  BY <1>1 DEF Snapshot!AfterSnapshot
<1>8. \A s \in DOMAIN snap : snap[s] \in Entry /\ s \in Skus /\ s \in Sku
  BY <1>2, WantedSkus DEF SnapInv, Skus
<1>9. SnapInv'
  <2>1. ASSUME NEW s \in DOMAIN snap PROVE snap'[s] \in Entry
    <3>1. CASE s \in Snapshot!Found(C)
      <4>1. store[s] \in Product
        BY <1>2, <1>3, <1>8, <3>1 DEF StoreInv
      <4>2. NameIn(view, store[s]) \in Value /\ store[s].links \in Value
        BY <4>1, ProductParts
      <4>3. snap'[s] = [type |-> snap[s].type, links |-> store[s].links,
                        name |-> IF Named THEN snap[s].name ELSE NameIn(view, store[s])]
        BY <1>1, <3>1
      <4>4. snap[s].type \in Value /\ snap[s].name \in Value \cup {None}
        BY <1>8 DEF Entry
      <4> HIDE DEF Named
      <4> QED BY <4>2, <4>3, <4>4 DEF Entry
    <3>2. CASE s \notin Snapshot!Found(C)
      BY <1>1, <1>8, <3>2
    <3> QED BY <3>1, <3>2
  <2>2. snap' \in [DOMAIN snap' -> Entry]
    BY <1>1, <1>4, <2>1
  <2> QED BY <1>1, <1>2, <1>3, <1>4, <1>7, <2>2 DEF SnapInv, Snapshot!Ended
<1>10. \A i \in DOMAIN Wanted :
         Indexed(store[Wanted[i]], held[Wanted[i]], foreign, view, Wanted[i], snap',
                 i \notin todo' \/ Named, i \notin todo')
  <2> TAKE i \in DOMAIN Wanted
  <2>1. Wanted[i] \in Snapshot!SkusAt(C) <=> i \in C
    BY <1>3, SkusAtPlaces
  <2>2. CASE i \in C
    <3>1. Wanted[i] \in DOMAIN snap /\ Wanted[i] \in DOMAIN snap' /\ snap[Wanted[i]] \in Entry
      BY <1>3, <1>4, <1>5, <1>8, <2>2
    <3>2. Wanted[i] \in Snapshot!Found(C) <=> store[Wanted[i]] # None
      BY <1>3, <2>1, <2>2
    <3>3. snap'[Wanted[i]] =
            IF store[Wanted[i]] # None
            THEN [type |-> snap[Wanted[i]].type, links |-> store[Wanted[i]].links,
                  name |-> IF Named THEN snap[Wanted[i]].name ELSE NameIn(view, store[Wanted[i]])]
            ELSE snap[Wanted[i]]
      BY <1>1, <3>1, <3>2
    <3>4. Indexed(store[Wanted[i]], held[Wanted[i]], foreign, view, Wanted[i], snap, Named, FALSE)
      <4>1. (i \notin todo) = FALSE
        BY <1>3, <2>2
      <4>2. (i \notin todo \/ Named) = Named
        BY <4>1
      <4>3. Indexed(store[Wanted[i]], held[Wanted[i]], foreign, view, Wanted[i], snap,
                    i \notin todo \/ Named, i \notin todo)
        BY <1>6
      <4> QED BY <4>1, <4>2, <4>3
    <3>5. Named \in BOOLEAN
      OBVIOUS
    <3>6. Indexed(store[Wanted[i]], held[Wanted[i]], foreign, view, Wanted[i], snap', TRUE, TRUE)
      <4> HIDE DEF Named
      <4> QED BY <1>2, <3>1, <3>3, <3>4, <3>5, StoredAt, IndexedLinked
    <3>7. i \notin todo'
      BY <1>1, <2>2
    <3> QED BY <3>6, <3>7
  <2>3. CASE i \notin C
    <3>1. /\ Wanted[i] \in DOMAIN snap' <=> Wanted[i] \in DOMAIN snap
          /\ Wanted[i] \in DOMAIN snap => snap'[Wanted[i]] = snap[Wanted[i]]
      BY <1>1, <1>3, <2>1, <2>3
    <3>2. i \notin todo' <=> i \notin todo
      BY <1>1, <2>3
    <3>3. Indexed(store[Wanted[i]], held[Wanted[i]], foreign, view, Wanted[i], snap,
                  i \notin todo' \/ Named, i \notin todo')
      BY <1>6, <3>2
    <3> QED BY <3>1, <3>3, IndexedOwn
  <2> QED BY <2>2, <2>3
<1>11. BridgeInv'
  BY <1>1, <1>4, <1>5, <1>7, <1>10 DEF BridgeInv
<1>12. RestInv'
  BY <1>7 DEF RestInv
<1>13. FinalInv'
  <2> SUFFICES ASSUME pc' \in {"list", "list-rest", "done"}, NEW i \in DOMAIN Wanted
               PROVE  Settled(store[Wanted[i]], held[Wanted[i]], foreign, view, Wanted[i], snap')
    BY <1>1 DEF FinalInv
  <2>1. Indexed(store[Wanted[i]], held[Wanted[i]], foreign, view, Wanted[i], snap', TRUE, TRUE)
    BY <1>7, <1>10
  <2>2. Wanted[i] \in DOMAIN snap' => snap'[Wanted[i]] \in Entry
    BY <1>9 DEF SnapInv
  <2> QED BY <2>1, <2>2, IndexedSettles
<1>14. StoreInv' /\ RequireInv' /\ Snapshot!AuthAborts'
  BY <1>1, <1>7 DEF SnapshotInv, StoreInv, RequireInv, Snapshot!AuthAborts
<1> QED
  BY <1>9, <1>11, <1>12, <1>13, <1>14 DEF SnapshotInv

\* The invariant says what is checked.
LEMMA SnapshotSays ==
  SnapshotInv => /\ Snapshot!TypeOK /\ Snapshot!SnapshotAgrees /\ Snapshot!EachValueHeld
                 /\ Snapshot!RequireIsBridge /\ Snapshot!AuthAborts
<1> SUFFICES ASSUME SnapshotInv
             PROVE  /\ Snapshot!TypeOK /\ Snapshot!SnapshotAgrees /\ Snapshot!EachValueHeld
                    /\ Snapshot!RequireIsBridge
  BY DEF SnapshotInv
<1>1. SnapInv /\ StoreInv
  BY DEF SnapshotInv
<1>2. Snapshot!SkusAt(DOMAIN Wanted) = Skus
  BY DEF Snapshot!SkusAt, Skus
<1>3. Snapshot!TypeOK
  BY <1>1, <1>2 DEF SnapInv, Snapshot!TypeOK
<1>4. \A p : Snapshot!NameOf(p) = NameIn(view, p) /\ Snapshot!RestEntry(p) = Answer(view, p)
  BY DEF Snapshot!NameOf, NameIn, Snapshot!RestEntry, Answer
<1>5. Snapshot!HasSnapshot => \A s \in Skus :
        Settled(store[s], held[s], foreign, view, s, snap)
  BY DEF SnapshotInv, FinalInv, Snapshot!HasSnapshot, Skus
<1>6. Snapshot!SnapshotAgrees
  <2> SUFFICES ASSUME Snapshot!HasSnapshot, foreign = 0
               PROVE  snap = [s \in {w \in Skus : store[w] # None} |-> Answer(view, store[s])]
    BY <1>2, <1>4 DEF Snapshot!SnapshotAgrees
  <2>1. \A s \in Skus : IF store[s] = None THEN s \notin DOMAIN snap
                        ELSE s \in DOMAIN snap /\ snap[s] = Answer(view, store[s])
    BY <1>5 DEF Settled
  <2>2. DOMAIN snap = {w \in Skus : store[w] # None}
    BY <1>1, <2>1 DEF SnapInv
  <2> QED BY <1>1, <2>1, <2>2 DEF SnapInv
<1>7. Snapshot!EachValueHeld
  <2> SUFFICES ASSUME Snapshot!HasSnapshot, NEW s \in Skus
               PROVE  IF s \notin DOMAIN snap THEN None \in held[s]
                      ELSE /\ TypeHeld(snap[s], held[s])
                           /\ NameHeld(view, snap[s], held[s])
                           /\ LinksHeld(snap[s], held[s])
    BY <1>2, <1>4 DEF Snapshot!EachValueHeld, TypeHeld, NameHeld, LinksHeld
  <2> QED BY <1>5 DEF Settled
<1>8. Snapshot!RequireIsBridge
  BY DEF SnapshotInv, RequireInv, Snapshot!RequireIsBridge, Snapshot!HasSnapshot
<1> QED
  BY <1>3, <1>6, <1>7, <1>8

\* The inductive invariant of the snapshot, for every catalog, rows, sizes of
\* chunks, capabilities, failures and changes by others.
LEMMA SnapshotInvariance == Spec => [](part = "snapshot" => SnapshotInv)
<1> DEFINE Inv == part = "snapshot" => SnapshotInv
<1>1. Init => Inv
  BY SnapshotInit DEF Init
<1>2. Inv /\ [Next]_vars => Inv'
  <2> SUFFICES ASSUME Inv, [Next]_vars, part' = "snapshot"
               PROVE  SnapshotInv'
    OBVIOUS
  <2>1. CASE SnapshotStep
    <3>1. SnapshotInv /\ Snapshot!Next
      BY <2>1 DEF SnapshotStep
    <3> QED
      BY <3>1, SnapshotProbe, SnapshotIndex, SnapshotValues, SnapshotExtra, SnapshotBridgeFails,
         SnapshotRest, SnapshotRestFails, SnapshotListing, SnapshotForeign DEF Snapshot!Next
  <2>2. CASE RequestStep \/ ListsStep \/ MediaStep
    BY <2>2 DEF RequestStep, ListsStep, MediaStep, NotRequest
  <2>3. CASE UNCHANGED vars
    <3>1. SnapshotInv /\ UNCHANGED Snapshot!vars
      BY <2>3 DEF vars, snapshot, Snapshot!vars, Snapshot!inputs
    <3> QED BY <3>1, SnapshotUnchanged
  <2> QED BY <2>1, <2>2, <2>3 DEF Next
<1> QED
  BY <1>1, <1>2, PTL DEF Spec

\* Whatever the mode, the module's capabilities and the requests that fail on
\* the way: the snapshot is what REST alone answers when nobody changes the
\* store meanwhile, and each of its values was there at some moment when
\* somebody does (snapshot_products, BridgeClient).
THEOREM SnapshotsAreTrue == Spec => []SnapshotIsStore
<1>1. (part = "snapshot" => SnapshotInv) => SnapshotIsStore
  BY SnapshotSays DEF SnapshotIsStore
<1> QED
  BY <1>1, SnapshotInvariance, PTL

\* require gets the module's answer or an error, never that of REST, and an
\* authentication error met while the snapshot is read ends the import.
THEOREM RequireIsKept == Spec => []RequireOrAbort
<1>1. (part = "snapshot" => SnapshotInv) => RequireOrAbort
  BY SnapshotSays DEF RequireOrAbort
<1> QED
  BY <1>1, SnapshotInvariance, PTL

---------------------------------------------------------------------------
(* The gallery *)

Image == [position : Positions, label : Labels]
Gone == [position |-> -1, label |-> "gone"]
Elements(s) == {s[i] : i \in DOMAIN s}
Apart(s) == \A i, j \in DOMAIN s : s[i].position = s[j].position => i = j
Clear == Apart(images) /\ Apart(given)

\* The entries of gallery g that stay when those of D are deleted.
Staying(g, D) == {e \in DOMAIN g : g[e] # Gone /\ e \notin D}

\* No two of them are at one position, and none at that of an add.
Unique(g, D) == \A e, f \in Staying(g, D) : g[e].position = g[f].position => e = f
Free(g, D, a) == \A e \in Staying(g, D), x \in Elements(a) : g[e].position # x.position

\* An image is in the gallery to stay, or to be added.
Placed(im, g, D, a) == im \in Elements(a) \/ \E e \in DOMAIN g \ D : g[e] = im

MediaTypes ==
  /\ mode \in {"sync", "bulk"} /\ images \in Seq(Image) /\ given \in Seq(Image)
  /\ gallery \in Seq(Image \cup {Gone}) /\ current \in Seq(Image \cup {Gone})
  /\ Len(given) <= Len(gallery)
  /\ run \in 1 .. 2 /\ image \in 1 .. (Len(images) + 1) /\ faults \in Nat /\ faults <= MaxFaults
  /\ dels \in Seq(Nat) /\ Elements(dels) \subseteq DOMAIN current /\ adds \in Seq(Image)
  /\ answered \in [1 .. 2 -> BOOLEAN]
  /\ pc \in {"read", "plan", "send", "done"}

PhaseInv ==
  /\ pc = "plan" => current = gallery
  /\ pc = "send" => image > Len(images)
  /\ run = 1 /\ (pc \in {"read", "plan"} \/ (pc = "done" /\ image <= Len(images))) => gallery = given

OthersInv ==
  /\ Media!OthersLeftAlone
  /\ pc \in {"plan", "send"} => \A d \in Elements(dels) :
       /\ d \in DOMAIN gallery
       /\ d \in DOMAIN given => \E i \in DOMAIN images : images[i].position = given[d].position

\* Every operation planned is of an image before the next; those images are placed.
PlanInv ==
  pc = "plan" =>
    /\ Len(adds) < image
    /\ \A x \in Elements(adds) : \E j \in DOMAIN images : j < image /\ x = images[j]
    /\ \A d \in Elements(dels) :
         \E j \in DOMAIN images : j < image /\ current[d].position = images[j].position
    /\ Clear => \A i \in DOMAIN images : i < image => Placed(images[i], gallery, Elements(dels), adds)

SendInv ==
  Clear /\ answered[run] =>
    /\ pc = "send" => \A i \in DOMAIN images : Placed(images[i], gallery, Elements(dels), adds)
    /\ pc = "done" => \A i \in DOMAIN images : Placed(images[i], gallery, {}, <<>>)

\* The first run keeps one entry at a position.
FirstInv ==
  Clear /\ run = 1 /\ answered[1] =>
    /\ pc \in {"plan", "send"} =>
         Unique(gallery, Elements(dels)) /\ Free(gallery, Elements(dels), adds) /\ Apart(adds)
    /\ pc = "done" => Unique(gallery, {})

\* After it a rerun finds what it would write.
RerunInv ==
  Clear /\ run = 2 /\ answered[1] =>
    /\ pc \in {"read", "plan", "send"} =>
         Unique(gallery, {}) /\ \A i \in DOMAIN images : Placed(images[i], gallery, {}, <<>>)
    /\ pc \in {"plan", "send"} => dels = <<>> /\ adds = <<>>

MediaInv ==
  MediaTypes /\ PhaseInv /\ OthersInv /\ PlanInv /\ SendInv /\ FirstInv /\ RerunInv

\* A sequence with one more at its end.
Added(s, x, new) ==
  /\ DOMAIN new = DOMAIN s \cup {Len(s) + 1} /\ Len(s) + 1 \notin DOMAIN s
  /\ new[Len(s) + 1] = x /\ \A i \in DOMAIN s : new[i] = s[i]
  /\ Len(new) = Len(s) + 1
  /\ Elements(new) = Elements(s) \cup {x}
  /\ Apart(s) /\ (\A y \in Elements(s) : y.position # x.position) => Apart(new)

\* What Append does to the elements.
LEMMA AppendAdds ==
  ASSUME NEW S, NEW s \in Seq(S), NEW x \in S
  PROVE  Append(s, x) \in Seq(S) /\ Added(s, x, Append(s, x))
<1> DEFINE new == Append(s, x)
           n == Len(s) + 1
<1>1. /\ new \in Seq(S) /\ DOMAIN new = DOMAIN s \cup {n} /\ n \notin DOMAIN s
      /\ new[n] = x /\ \A i \in DOMAIN s : new[i] = s[i]
      /\ Len(new) = n
  OBVIOUS
<1> HIDE DEF new, n
<1>2. Elements(new) = Elements(s) \cup {x}
  BY <1>1 DEF Elements
<1>3. Apart(s) /\ (\A y \in Elements(s) : y.position # x.position) => Apart(new)
  BY <1>1 DEF Apart, Elements
<1> QED BY <1>1, <1>2, <1>3 DEF Added, n, new

\* A sequence without the element at a place.
Without(s, a, new) ==
  /\ Elements(s) = Elements(new) \cup {s[a]}
  /\ Apart(s) => Apart(new) /\ \A y \in Elements(new) : y.position # s[a].position

\* What Tail does to them.
LEMMA TailRemoves ==
  ASSUME NEW S, NEW s \in Seq(S), s # <<>>
  PROVE  Tail(s) \in Seq(S) /\ Head(s) = s[1] /\ Without(s, 1, Tail(s))
<1> DEFINE new == Tail(s)
<1>1. /\ new \in Seq(S) /\ 1 \in DOMAIN s /\ Head(s) = s[1]
      /\ \A i \in DOMAIN new : i + 1 \in DOMAIN s /\ new[i] = s[i + 1] /\ i + 1 # 1
      /\ \A i \in DOMAIN s : i # 1 => i - 1 \in DOMAIN new /\ new[i - 1] = s[i]
      /\ \A i, j \in DOMAIN new : i + 1 = j + 1 => i = j
  OBVIOUS
<1> HIDE DEF new
<1>2. Elements(s) = Elements(new) \cup {s[1]}
  BY <1>1 DEF Elements
<1>3. Apart(s) => Apart(new)
  BY <1>1 DEF Apart
<1>4. Apart(s) => \A y \in Elements(new) : y.position # s[1].position
  BY <1>1 DEF Apart, Elements
<1> QED BY <1>1, <1>2, <1>3, <1>4 DEF Without, new

\* What RemoveAt does to them.
LEMMA RemoveAtRemoves ==
  ASSUME NEW S, NEW s \in Seq(S), NEW a \in DOMAIN s
  PROVE  Media!RemoveAt(s, a) \in Seq(S) /\ Without(s, a, Media!RemoveAt(s, a))
<1> DEFINE new == Media!RemoveAt(s, a)
           at(i) == IF i < a THEN i ELSE i + 1
<1>1. new = SubSeq(s, 1, a - 1) \o SubSeq(s, a + 1, Len(s))
  BY DEF Media!RemoveAt
<1>2. a \in Nat /\ 1 <= a /\ a <= Len(s) /\ Len(s) \in Nat /\ DOMAIN s = 1 .. Len(s)
  OBVIOUS
<1>3. /\ SubSeq(s, 1, a - 1) \in Seq(S) /\ Len(SubSeq(s, 1, a - 1)) = a - 1
      /\ \A i \in 1 .. (a - 1) : SubSeq(s, 1, a - 1)[i] = s[i]
  BY <1>2
<1>4. /\ SubSeq(s, a + 1, Len(s)) \in Seq(S) /\ Len(SubSeq(s, a + 1, Len(s))) = Len(s) - a
      /\ \A i \in 1 .. (Len(s) - a) : SubSeq(s, a + 1, Len(s))[i] = s[i + a]
  BY <1>2
<1>5. /\ new \in Seq(S) /\ Len(new) = Len(s) - 1
      /\ \A i \in 1 .. (Len(s) - 1) : new[i] = s[at(i)]
  <2> DEFINE u == SubSeq(s, 1, a - 1)
             v == SubSeq(s, a + 1, Len(s))
  <2>1. new = u \o v /\ u \in Seq(S) /\ v \in Seq(S)
    BY <1>1, <1>3, <1>4
  <2>2. Len(u) = a - 1 /\ \A i \in 1 .. (a - 1) : u[i] = s[i]
    BY <1>3
  <2>3. Len(v) = Len(s) - a /\ \A i \in 1 .. (Len(s) - a) : v[i] = s[i + a]
    BY <1>4
  <2> HIDE DEF u, v, new
  <2>4. new \in Seq(S) /\ Len(new) = Len(u) + Len(v)
        /\ \A i \in 1 .. (Len(u) + Len(v)) : new[i] = IF i <= Len(u) THEN u[i] ELSE v[i - Len(u)]
    BY <2>1
  <2>5. Len(new) = Len(s) - 1
    BY <1>2, <2>2, <2>3, <2>4
  <2>6. ASSUME NEW i \in 1 .. (Len(s) - 1) PROVE new[i] = s[at(i)]
    <3>1. CASE i < a
      <4>1. i \in 1 .. (a - 1) /\ i <= Len(u) /\ i \in 1 .. (Len(u) + Len(v))
        BY <1>2, <2>2, <2>3, <3>1
      <4> QED BY <2>2, <2>4, <3>1, <4>1
    <3>2. CASE ~(i < a)
      <4>1. i - (a - 1) \in 1 .. (Len(s) - a) /\ ~(i <= Len(u)) /\ i \in 1 .. (Len(u) + Len(v))
            /\ i - (a - 1) + a = i + 1
        BY <1>2, <2>2, <2>3, <3>2
      <4> QED BY <2>2, <2>3, <2>4, <3>2, <4>1
    <3> QED BY <3>1, <3>2
  <2> QED BY <2>4, <2>5, <2>6
<1> HIDE DEF new
<1>6. /\ \A i \in DOMAIN new : at(i) \in DOMAIN s /\ new[i] = s[at(i)] /\ at(i) # a
      /\ \A i, j \in DOMAIN new : at(i) = at(j) => i = j
  BY <1>2, <1>5
<1>7. \A k \in DOMAIN s : k # a => \E i \in DOMAIN new : k = at(i)
  <2> TAKE k \in DOMAIN s
  <2> HAVE k # a
  <2>1. CASE k < a
    BY <1>2, <1>5, <2>1
  <2>2. CASE k > a
    <3>1. k - 1 \in DOMAIN new /\ at(k - 1) = k
      BY <1>2, <1>5, <2>2
    <3> QED BY <3>1
  <2> QED BY <1>2, <2>1, <2>2
<1> HIDE DEF at
<1>8. Elements(s) = Elements(new) \cup {s[a]}
  BY <1>6, <1>7 DEF Elements
<1>9. Apart(s) => Apart(new)
  BY <1>6 DEF Apart
<1>10. Apart(s) => \A y \in Elements(new) : y.position # s[a].position
  BY <1>6 DEF Apart, Elements
<1> QED BY <1>5, <1>8, <1>9, <1>10 DEF Without, new

\* An image is never a gone entry.
LEMMA ImagesAreThere == \A im \in Image : im # Gone /\ im.position # -1 /\ im.position \in Nat
<1> SUFFICES ASSUME NEW im \in Image PROVE im # Gone /\ im.position # -1 /\ im.position \in Nat
  OBVIOUS
<1>1. im.position \in Nat
  BY RequestsAssumption DEF Media!MediaAssumption, Image
<1>2. im.position # -1
  BY <1>1
<1>3. Gone.position = -1
  BY DEF Gone
<1> QED BY <1>1, <1>2, <1>3

\* A delete takes an entry away that was to go; the others are as they were.
LEMMA DeleteKeeps ==
  ASSUME NEW g \in Seq(Image \cup {Gone}), NEW d \in DOMAIN g, NEW D, NEW E, E = D \cup {d},
         NEW a
  PROVE  LET new == [g EXCEPT ![d] = Gone]
         IN /\ new \in Seq(Image \cup {Gone}) /\ Len(new) = Len(g)
            /\ Unique(g, E) => Unique(new, D)
            /\ Free(g, E, a) => Free(new, D, a)
            /\ \A im \in Image : Placed(im, g, E, a) => Placed(im, new, D, a)
<1> DEFINE new == [g EXCEPT ![d] = Gone]
<1>1. /\ new \in Seq(Image \cup {Gone}) /\ Len(new) = Len(g) /\ DOMAIN new = DOMAIN g
      /\ new[d] = Gone /\ \A e \in DOMAIN g : e # d => new[e] = g[e]
  OBVIOUS
<1> HIDE DEF new
<1>2. Staying(new, D) = Staying(g, E) /\ \A e \in Staying(g, E) : new[e] = g[e]
  BY <1>1 DEF Staying
<1>3. Unique(g, E) => Unique(new, D)
  BY <1>2 DEF Unique
<1>4. Free(g, E, a) => Free(new, D, a)
  BY <1>2 DEF Free
<1>5. \A im \in Image : Placed(im, g, E, a) => Placed(im, new, D, a)
  BY <1>1 DEF Placed
<1> QED BY <1>1, <1>3, <1>4, <1>5 DEF new

\* An add puts its image into the gallery; what was there stays.
LEMMA AddKeeps ==
  ASSUME NEW g \in Seq(Image \cup {Gone}), NEW x \in Image, NEW a, NEW b,
         Elements(a) = Elements(b) \cup {x}
  PROVE  LET new == Append(g, x)
         IN /\ new \in Seq(Image \cup {Gone}) /\ Len(new) = Len(g) + 1
            /\ Unique(g, {}) /\ Free(g, {}, a) => Unique(new, {})
            /\ Free(g, {}, a) /\ (\A y \in Elements(b) : y.position # x.position) => Free(new, {}, b)
            /\ \A im \in Image : Placed(im, g, {}, a) => Placed(im, new, {}, b)
<1> DEFINE new == Append(g, x)
           n == Len(g) + 1
<1>1. /\ new \in Seq(Image \cup {Gone}) /\ Len(new) = n /\ DOMAIN new = DOMAIN g \cup {n}
      /\ n \notin DOMAIN g /\ new[n] = x /\ \A e \in DOMAIN g : new[e] = g[e]
  BY AppendAdds DEF Added
<1> HIDE DEF new, n
<1>2. Staying(new, {}) = Staying(g, {}) \cup {n} /\ \A e \in Staying(g, {}) : new[e] = g[e]
  BY <1>1, ImagesAreThere DEF Staying
<1>3. Unique(g, {}) /\ Free(g, {}, a) => Unique(new, {})
  BY <1>1, <1>2 DEF Unique, Free
<1>4. Free(g, {}, a) /\ (\A y \in Elements(b) : y.position # x.position) => Free(new, {}, b)
  BY <1>1, <1>2 DEF Free
<1>5. \A im \in Image : Placed(im, g, {}, a) => Placed(im, new, {}, b)
  BY <1>1 DEF Placed
<1> QED BY <1>1, <1>3, <1>4, <1>5 DEF new, n

\* It holds before the first run.
LEMMA MediaInit == Media!Init => MediaInv
<1> SUFFICES ASSUME Media!Init PROVE MediaInv
  OBVIOUS
<1>1. /\ images \in Media!BoundedSeq(Image, MaxImages) /\ mode \in {"sync", "bulk"}
      /\ given \in Media!BoundedSeq(Image, MaxEntries) /\ gallery = given
      /\ current = <<>> /\ run = 1 /\ image = 1 /\ dels = <<>> /\ adds = <<>>
      /\ answered = [r \in 1 .. 2 |-> TRUE] /\ faults = 0 /\ pc = "read"
  BY DEF Media!Init, Media!Image, Image
<1>2. images \in Seq(Image) /\ given \in Seq(Image)
  BY <1>1, RequestsAssumption DEF Media!MediaAssumption, Media!BoundedSeq, Media!SeqOf
<1>3. MediaTypes
  <2>1. Len(images) \in Nat /\ Len(given) \in Nat /\ 0 <= MaxFaults
    BY <1>2, RequestsAssumption DEF Media!MediaAssumption
  <2>2. given \in Seq(Image \cup {Gone})
    BY <1>2
  <2>3. (DOMAIN dels) = {} /\ Elements(dels) = {}
    BY <1>1 DEF Elements
  <2> QED BY <1>1, <1>2, <2>1, <2>2, <2>3 DEF MediaTypes
<1>4. OthersInv
  BY <1>1 DEF OthersInv, Media!OthersLeftAlone
<1>5. PhaseInv /\ PlanInv /\ SendInv /\ FirstInv /\ RerunInv
  BY <1>1 DEF PhaseInv, PlanInv, SendInv, FirstInv, RerunInv
<1> QED BY <1>3, <1>4, <1>5 DEF MediaInv

\* The rows and the gallery before stay as they are.
LEMMA MediaInput ==
  Media!Input => /\ UNCHANGED <<images, mode, given>>
                 /\ Clear' = Clear
                 /\ Media!OthersLeftAlone /\ UNCHANGED gallery => Media!OthersLeftAlone'
BY DEF Media!Input, Clear, Apart, Media!OthersLeftAlone, Media!AnImageFor

\* A position keeps being no other's.
LEMMA OthersStay ==
  ASSUME MediaInv, Media!Input,
         \A e \in DOMAIN given :
           gallery'[e] = gallery[e] \/ \E i \in DOMAIN images : images[i].position = given[e].position
  PROVE  Media!OthersLeftAlone'
BY MediaInput DEF MediaInv, OthersInv, Media!OthersLeftAlone, Media!AnImageFor

\* The gallery is read: no image is planned yet.
LEMMA MediaRead == MediaInv /\ Media!Read => MediaInv'
<1> SUFFICES ASSUME MediaInv, Media!Read PROVE MediaInv'
  OBVIOUS
<1>1. /\ pc = "read" /\ images # <<>> /\ pc' = "plan" /\ Media!Input
      /\ current' = gallery /\ image' = 1 /\ dels' = <<>> /\ adds' = <<>>
      /\ UNCHANGED <<gallery, run, answered, faults>>
  BY DEF Media!Read
<1>2. UNCHANGED <<images, mode, given>> /\ Clear' = Clear
  BY <1>1, MediaInput
<1>3. MediaTypes /\ PhaseInv /\ OthersInv
  BY DEF MediaInv
<1>4. (DOMAIN dels') = {} /\ Elements(dels') = {} /\ (DOMAIN adds') = {} /\ Elements(adds') = {}
      /\ Len(adds') = 0 /\ dels' \in Seq(Nat) /\ adds' \in Seq(Image)
  BY <1>1 DEF Elements
<1>5. Len(images) \in Nat /\ 1 \in 1 .. (Len(images) + 1)
  BY <1>3 DEF MediaTypes
<1>6. MediaTypes'
  BY <1>1, <1>2, <1>3, <1>4, <1>5 DEF MediaTypes
<1>7. PhaseInv'
  BY <1>1, <1>2, <1>3 DEF PhaseInv
<1>8. OthersInv'
  BY <1>1, <1>3, <1>4, MediaInput DEF OthersInv
<1>9. PlanInv'
  <2>1. \A i \in DOMAIN images : ~(i < 1)
    BY <1>3 DEF MediaTypes
  <2> QED BY <1>1, <1>2, <1>4, <2>1 DEF PlanInv
<1>10. SendInv'
  BY <1>1 DEF SendInv
<1>11. FirstInv'
  <2> SUFFICES ASSUME Clear, run = 1
               PROVE  Unique(gallery, {}) /\ Free(gallery, {}, adds') /\ Apart(adds')
    BY <1>1, <1>2, <1>4 DEF FirstInv
  <2>1. gallery = given
    BY <1>1, <1>3 DEF PhaseInv
  <2> QED BY <1>4, <2>1 DEF Clear, Apart, Unique, Free, Staying
<1>12. RerunInv'
  BY <1>1, <1>2 DEF MediaInv, RerunInv
<1> QED BY <1>6, <1>7, <1>8, <1>9, <1>10, <1>11, <1>12 DEF MediaInv

\* A row that fails before anything is sent.
LEMMA MediaRowFails == MediaInv /\ (Media!Unreadable \/ Media!NotLoaded) => MediaInv'
<1> SUFFICES ASSUME MediaInv, Media!Unreadable \/ Media!NotLoaded PROVE MediaInv'
  OBVIOUS
<1>1. /\ pc \in {"read", "plan"} /\ pc' = "done" /\ Media!Input
      /\ faults < MaxFaults /\ faults' = faults + 1
      /\ answered' = [answered EXCEPT ![run] = FALSE]
      /\ UNCHANGED <<gallery, current, run, image, dels, adds>>
  BY DEF Media!Unreadable, Media!NotLoaded, Media!Planning
<1>2. UNCHANGED <<images, mode, given>> /\ Clear' = Clear
  BY <1>1, MediaInput
<1>3. MediaTypes /\ PhaseInv /\ OthersInv
  BY DEF MediaInv
<1>4. answered' \in [1 .. 2 -> BOOLEAN] /\ answered'[run] = FALSE
  BY <1>1, <1>3 DEF MediaTypes
<1>5. faults' \in Nat /\ faults' <= MaxFaults
  BY <1>1, <1>3, RequestsAssumption DEF MediaTypes, Media!MediaAssumption
<1>6. MediaTypes'
  BY <1>1, <1>2, <1>3, <1>4, <1>5 DEF MediaTypes
<1>7. PhaseInv'
  BY <1>1, <1>2, <1>3 DEF PhaseInv
<1>8. OthersInv'
  BY <1>1, <1>3, MediaInput DEF OthersInv
<1>9. PlanInv' /\ SendInv' /\ FirstInv' /\ RerunInv'
  BY <1>1, <1>4 DEF PlanInv, SendInv, FirstInv, RerunInv
<1> QED BY <1>6, <1>7, <1>8, <1>9 DEF MediaInv

\* A row without images is done.
LEMMA MediaNoImages == MediaInv /\ Media!NoImages => MediaInv'
<1> SUFFICES ASSUME MediaInv, Media!NoImages PROVE MediaInv'
  OBVIOUS
<1>1. /\ pc = "read" /\ images = <<>> /\ pc' = "done" /\ Media!Input
      /\ UNCHANGED <<gallery, current, run, image, dels, adds, answered, faults>>
  BY DEF Media!NoImages
<1>2. UNCHANGED <<images, mode, given>> /\ Clear' = Clear
  BY <1>1, MediaInput
<1>3. MediaTypes /\ PhaseInv /\ OthersInv
  BY DEF MediaInv
<1>4. MediaTypes' /\ PhaseInv'
  BY <1>1, <1>2, <1>3 DEF MediaTypes, PhaseInv
<1>5. OthersInv'
  BY <1>1, <1>3, MediaInput DEF OthersInv
<1>6. (DOMAIN images) = {}
  BY <1>1
<1>7. PlanInv' /\ SendInv' /\ RerunInv'
  BY <1>1, <1>2, <1>6 DEF PlanInv, SendInv, RerunInv
<1>8. FirstInv'
  <2> SUFFICES ASSUME Clear, run = 1 PROVE Unique(gallery, {})
    BY <1>1, <1>2 DEF FirstInv
  <2>1. gallery = given
    BY <1>1, <1>3 DEF PhaseInv
  <2> QED BY <2>1 DEF Clear, Apart, Unique, Staying
<1> QED BY <1>4, <1>5, <1>7, <1>8 DEF MediaInv

\* Every image is planned.
LEMMA MediaPlanned == MediaInv /\ Media!Planned => MediaInv'
<1> SUFFICES ASSUME MediaInv, Media!Planned PROVE MediaInv'
  OBVIOUS
<1>1. /\ pc = "plan" /\ image > Len(images) /\ pc' = "send" /\ Media!Input
      /\ UNCHANGED <<gallery, current, run, image, dels, adds, answered, faults>>
  BY DEF Media!Planned
<1>2. UNCHANGED <<images, mode, given>> /\ Clear' = Clear
  BY <1>1, MediaInput
<1>3. MediaTypes /\ PhaseInv /\ OthersInv /\ PlanInv
  BY DEF MediaInv
<1>4. MediaTypes' /\ PhaseInv'
  BY <1>1, <1>2, <1>3 DEF MediaTypes, PhaseInv
<1>5. OthersInv'
  BY <1>1, <1>2, <1>3, MediaInput DEF OthersInv
<1>6. \A i \in DOMAIN images : i < image
  BY <1>1, <1>3 DEF MediaTypes
<1>7. PlanInv' /\ SendInv'
  BY <1>1, <1>2, <1>3, <1>6 DEF PlanInv, SendInv
<1>8. FirstInv' /\ RerunInv'
  BY <1>1, <1>2 DEF MediaInv, FirstInv, RerunInv
<1> QED BY <1>4, <1>5, <1>7, <1>8 DEF MediaInv

\* Every operation is sent.
LEMMA MediaComplete == MediaInv /\ Media!Complete => MediaInv'
<1> SUFFICES ASSUME MediaInv, Media!Complete PROVE MediaInv'
  OBVIOUS
<1>1. /\ pc = "send" /\ dels = <<>> /\ adds = <<>> /\ pc' = "done" /\ Media!Input
      /\ UNCHANGED <<gallery, current, run, image, dels, adds, answered, faults>>
  BY DEF Media!Complete
<1>2. UNCHANGED <<images, mode, given>> /\ Clear' = Clear
  BY <1>1, MediaInput
<1>3. MediaTypes /\ PhaseInv /\ OthersInv
  BY DEF MediaInv
<1>4. MediaTypes'
  BY <1>1, <1>2, <1>3 DEF MediaTypes
<1>5. PhaseInv'
  <2>1. ~(image <= Len(images))
    BY <1>1, <1>3 DEF PhaseInv, MediaTypes
  <2> QED BY <1>1, <1>2, <2>1 DEF PhaseInv
<1>6. OthersInv'
  BY <1>1, <1>3, MediaInput DEF OthersInv
<1>7. Elements(dels) = {}
  BY <1>1 DEF Elements
<1>8. PlanInv' /\ SendInv' /\ FirstInv' /\ RerunInv'
  BY <1>1, <1>2, <1>7 DEF MediaInv, PlanInv, SendInv, FirstInv, RerunInv
<1> QED BY <1>4, <1>5, <1>6, <1>8 DEF MediaInv

\* The run starts again with the gallery as it is.
LEMMA MediaRerun == MediaInv /\ Media!Rerun => MediaInv'
<1> SUFFICES ASSUME MediaInv, Media!Rerun PROVE MediaInv'
  OBVIOUS
<1>1. /\ pc = "done" /\ run = 1 /\ run' = 2 /\ pc' = "read" /\ Media!Input
      /\ UNCHANGED <<gallery, current, image, dels, adds, answered, faults>>
  BY DEF Media!Rerun
<1>2. UNCHANGED <<images, mode, given>> /\ Clear' = Clear
  BY <1>1, MediaInput
<1>3. MediaTypes /\ PhaseInv /\ OthersInv
  BY DEF MediaInv
<1>4. MediaTypes' /\ PhaseInv'
  BY <1>1, <1>2, <1>3 DEF MediaTypes, PhaseInv
<1>5. OthersInv'
  BY <1>1, <1>3, MediaInput DEF OthersInv
<1>6. PlanInv' /\ SendInv' /\ FirstInv' /\ RerunInv'
  BY <1>1, <1>2 DEF MediaInv, PlanInv, SendInv, FirstInv, RerunInv
<1> QED BY <1>4, <1>5, <1>6 DEF MediaInv

\* The entry at an image's position: one of them, and the only one when there is one.
LEMMA ExistingAt ==
  ASSUME NEW i \in DOMAIN images
  PROVE  /\ \A e \in Media!Existing(i) :
              e \in DOMAIN current /\ current[e].position = images[i].position
         /\ current \in Seq(Image \cup {Gone}) =>
              \A e \in DOMAIN current :
                /\ current[e].position = images[i].position
                /\ \A f \in DOMAIN current : current[f].position = images[i].position => f = e
                => Media!Existing(i) = {e}
<1>1. \A e \in Media!Existing(i) :
        e \in DOMAIN current /\ current[e].position = images[i].position
  BY DEF Media!Existing
<1>2. ASSUME current \in Seq(Image \cup {Gone}), NEW e \in DOMAIN current,
             current[e].position = images[i].position,
             \A f \in DOMAIN current : current[f].position = images[i].position => f = e
      PROVE  Media!Existing(i) = {e}
  <2>1. {f \in DOMAIN current : current[f].position = images[i].position} = {e}
    BY <1>2
  <2>2. e \in Nat
    BY <1>2
  <2>3. e <= e
    BY <2>2
  <2> QED BY <2>1, <2>3 DEF Media!Existing
<1> QED BY <1>1, <1>2

\* An image that is there stays: no delete is of its position.
LEMMA MediaSkip == MediaInv /\ Media!Skip => MediaInv'
<1> SUFFICES ASSUME MediaInv, Media!Skip PROVE MediaInv'
  OBVIOUS
<1>1. /\ pc = "plan" /\ image <= Len(images) /\ Media!Matches(image) /\ image' = image + 1
      /\ Media!Input /\ UNCHANGED <<gallery, current, run, dels, adds, answered, faults, pc>>
  BY DEF Media!Skip, Media!Planning
<1>2. UNCHANGED <<images, mode, given>> /\ Clear' = Clear
  BY <1>1, MediaInput
<1>3. MediaTypes /\ PhaseInv /\ OthersInv /\ PlanInv
  BY DEF MediaInv
<1>4. /\ image \in Nat /\ image' \in 1 .. (Len(images) + 1) /\ image \in DOMAIN images
      /\ \A i \in DOMAIN images : i \in Nat /\ (i < image' <=> i < image \/ i = image)
      /\ Len(adds) \in Nat
  BY <1>1, <1>3 DEF MediaTypes
<1>5. MediaTypes' /\ PhaseInv'
  BY <1>1, <1>2, <1>3, <1>4 DEF MediaTypes, PhaseInv
<1>6. OthersInv'
  BY <1>1, <1>2, <1>3, MediaInput DEF OthersInv
<1>7. PICK e \in DOMAIN current : current[e] = images[image]
  <2>1. PICK e \in Media!Existing(image) : current[e].label = images[image].label
    BY <1>1 DEF Media!Matches
  <2>2. e \in DOMAIN current /\ current[e].position = images[image].position
    BY <1>4, <2>1, ExistingAt
  <2>3. images[image] \in Image /\ current[e] \in Image \cup {Gone}
    BY <1>3, <1>4, <2>2 DEF MediaTypes
  <2>4. current[e] \in Image
    BY <2>2, <2>3, ImagesAreThere DEF Gone
  <2>5. current[e] = images[image]
    BY <2>1, <2>2, <2>3, <2>4 DEF Image
  <2> QED BY <2>2, <2>5
<1>8. Clear => Placed(images[image], gallery, Elements(dels), adds)
  <2> HAVE Clear
  <2>1. gallery = current
    BY <1>1, <1>3 DEF PhaseInv
  <2>2. e \notin Elements(dels)
    <3> SUFFICES ASSUME e \in Elements(dels) PROVE FALSE
      OBVIOUS
    <3>1. PICK j \in DOMAIN images : j < image /\ images[image].position = images[j].position
      BY <1>1, <1>3, <1>7 DEF PlanInv
    <3>2. j = image
      BY <1>4, <3>1 DEF Clear, Apart
    <3> QED BY <1>4, <3>1, <3>2
  <2> QED BY <1>7, <2>1, <2>2 DEF Placed
<1>9. PlanInv'
  <2>1. Len(adds) < image'
    BY <1>1, <1>3, <1>4 DEF PlanInv
  <2> QED BY <1>1, <1>2, <1>3, <1>4, <1>8, <2>1 DEF PlanInv
<1>10. SendInv' /\ FirstInv' /\ RerunInv'
  BY <1>1, <1>2 DEF MediaInv, SendInv, FirstInv, RerunInv
<1> QED BY <1>5, <1>6, <1>9, <1>10 DEF MediaInv

\* The entry at the position is to go, the image to come.
LEMMA MediaReplace == MediaInv /\ Media!Replace => MediaInv'
<1> SUFFICES ASSUME MediaInv, Media!Replace PROVE MediaInv'
  OBVIOUS
<1>1. /\ pc = "plan" /\ image <= Len(images) /\ ~Media!Matches(image) /\ image' = image + 1
      /\ \/ Media!Existing(image) = {} /\ UNCHANGED dels
         \/ \E e \in Media!Existing(image) : dels' = Append(dels, e)
      /\ adds' = Append(adds, images[image])
      /\ Media!Input /\ UNCHANGED <<gallery, current, run, answered, faults, pc>>
  BY DEF Media!Replace, Media!Planning
<1>2. UNCHANGED <<images, mode, given>> /\ Clear' = Clear
  BY <1>1, MediaInput
<1>3. MediaTypes /\ PhaseInv /\ OthersInv /\ PlanInv
  BY DEF MediaInv
<1>4. /\ image \in Nat /\ image' \in 1 .. (Len(images) + 1) /\ image \in DOMAIN images
      /\ \A i \in DOMAIN images : i \in Nat /\ (i < image' <=> i < image \/ i = image)
      /\ images[image] \in Image /\ Len(adds) \in Nat /\ current = gallery
  <2>1. /\ image \in Nat /\ image' \in 1 .. (Len(images) + 1) /\ image \in DOMAIN images
        /\ \A i \in DOMAIN images : i \in Nat /\ (i < image' <=> i < image \/ i = image)
        /\ Len(adds) \in Nat
    BY <1>1, <1>3 DEF MediaTypes
  <2>2. images[image] \in Image
    BY <1>3, <2>1 DEF MediaTypes
  <2>3. current = gallery
    BY <1>1, <1>3 DEF PhaseInv
  <2> QED BY <2>1, <2>2, <2>3
<1>5. adds \in Seq(Image) /\ dels \in Seq(Nat) /\ gallery \in Seq(Image \cup {Gone})
  BY <1>3 DEF MediaTypes
<1>6. adds' \in Seq(Image) /\ Added(adds, images[image], adds')
  BY <1>1, <1>4, <1>5, AppendAdds
<1>7. \A e \in Media!Existing(image) :
        e \in DOMAIN gallery /\ gallery[e].position = images[image].position /\ e \in Nat
  BY <1>4, <1>5, ExistingAt
<1>8. /\ dels' \in Seq(Nat)
      /\ Elements(dels) \subseteq Elements(dels')
      /\ Elements(dels') \subseteq Elements(dels) \cup Media!Existing(image)
      /\ \A e : Media!Existing(image) = {e} => e \in Elements(dels')
  <2>1. CASE Media!Existing(image) = {} /\ UNCHANGED dels
    BY <1>5, <2>1
  <2>2. ASSUME NEW e \in Media!Existing(image), dels' = Append(dels, e)
        PROVE  /\ dels' \in Seq(Nat) /\ Elements(dels') = Elements(dels) \cup {e}
    <3>1. e \in Nat
      BY <1>7
    <3>2. dels' \in Seq(Nat) /\ Added(dels, e, dels')
      BY <1>5, <2>2, <3>1, AppendAdds
    <3> QED BY <3>2 DEF Added
  <2> QED BY <1>1, <2>1, <2>2
<1>9. MediaTypes'
  BY <1>1, <1>2, <1>3, <1>4, <1>6, <1>7, <1>8 DEF MediaTypes
<1>10. PhaseInv'
  BY <1>1, <1>2, <1>3 DEF PhaseInv
<1>11. OthersInv'
  <2>1. ASSUME NEW d \in Media!Existing(image), d \in DOMAIN given
        PROVE  \E i \in DOMAIN images : images[i].position = given[d].position
    <3>1. (~\E i \in DOMAIN images : images[i].position = given[d].position)
            => gallery[d] = given[d]
      BY <1>3, <2>1 DEF OthersInv, Media!OthersLeftAlone, Media!AnImageFor
    <3> QED BY <1>4, <1>7, <2>1, <3>1
  <2>2. Media!OthersLeftAlone'
    BY <1>1, <1>3, MediaInput DEF OthersInv
  <2> QED BY <1>1, <1>2, <1>3, <1>7, <1>8, <2>1, <2>2 DEF OthersInv
<1>12. PlanInv'
  <2>1. Len(adds') < image'
    BY <1>1, <1>3, <1>4, <1>6 DEF PlanInv, Added
  <2>2. \A x \in Elements(adds') : \E j \in DOMAIN images : j < image' /\ x = images[j]
    BY <1>1, <1>3, <1>4, <1>6 DEF PlanInv, Added
  <2>3. \A d \in Elements(dels') :
          \E j \in DOMAIN images : j < image' /\ current[d].position = images[j].position
    BY <1>1, <1>3, <1>4, <1>7, <1>8 DEF PlanInv
  <2>4. ASSUME Clear, NEW i \in DOMAIN images, i < image'
        PROVE  Placed(images[i], gallery, Elements(dels'), adds')
    <3>1. CASE i = image
      BY <1>6, <3>1 DEF Placed, Added
    <3>2. CASE i # image
      <4>1. Placed(images[i], gallery, Elements(dels), adds)
        BY <1>1, <1>3, <1>4, <2>4, <3>2 DEF PlanInv
      <4>2. \A d \in Media!Existing(image) : gallery[d] # images[i]
        BY <1>4, <1>7, <2>4, <3>2 DEF Clear, Apart
      <4> QED BY <1>6, <1>8, <4>1, <4>2 DEF Placed, Added
    <3> QED BY <3>1, <3>2
  <2> QED BY <1>1, <1>2, <2>1, <2>2, <2>3, <2>4 DEF PlanInv
<1>13. SendInv'
  BY <1>1 DEF SendInv
<1>14. FirstInv'
  <2> SUFFICES ASSUME Clear, run = 1, answered[1]
               PROVE  /\ Unique(gallery, Elements(dels')) /\ Free(gallery, Elements(dels'), adds')
                      /\ Apart(adds')
    BY <1>1, <1>2 DEF FirstInv
  <2>1. Unique(gallery, Elements(dels)) /\ Free(gallery, Elements(dels), adds) /\ Apart(adds)
    BY <1>1 DEF MediaInv, FirstInv
  <2>2. Staying(gallery, Elements(dels')) \subseteq Staying(gallery, Elements(dels))
    BY <1>8 DEF Staying
  <2>3. Unique(gallery, Elements(dels'))
    BY <2>1, <2>2 DEF Unique
  <2>4. \A e \in Staying(gallery, Elements(dels')) : gallery[e].position # images[image].position
    <3> SUFFICES ASSUME NEW e \in Staying(gallery, Elements(dels')),
                        gallery[e].position = images[image].position
                 PROVE  FALSE
      OBVIOUS
    <3>1. gallery = given /\ e \in DOMAIN current /\ e \notin Elements(dels')
      BY <1>1, <1>3, <1>4 DEF PhaseInv, Staying
    <3>2. \A f \in DOMAIN current : current[f].position = images[image].position => f = e
      BY <1>4, <3>1 DEF Clear, Apart
    <3>3. Media!Existing(image) = {e}
      BY <1>4, <1>5, <3>1, <3>2, ExistingAt
    <3> QED BY <1>8, <3>1, <3>3
  <2>5. Free(gallery, Elements(dels'), adds')
    BY <1>6, <2>1, <2>2, <2>4 DEF Free, Added
  <2>6. \A y \in Elements(adds) : y.position # images[image].position
    <3> TAKE y \in Elements(adds)
    <3>1. PICK j \in DOMAIN images : j < image /\ y = images[j]
      BY <1>1, <1>3 DEF PlanInv
    <3>2. j # image
      BY <1>4, <3>1
    <3> QED BY <1>4, <3>1, <3>2 DEF Clear, Apart
  <2>7. Apart(adds')
    BY <1>6, <2>1, <2>6 DEF Added
  <2> QED BY <2>3, <2>5, <2>7
<1>15. RerunInv'
  <2> SUFFICES ASSUME Clear, run = 2, answered[1] PROVE FALSE
    BY <1>1, <1>2 DEF RerunInv
  <2>1. Unique(gallery, {}) /\ Placed(images[image], gallery, {}, <<>>)
    BY <1>1, <1>4 DEF MediaInv, RerunInv
  <2>2. Elements(<<>>) = {}
    BY DEF Elements
  <2>3. PICK e \in DOMAIN gallery : gallery[e] = images[image]
    BY <2>1, <2>2 DEF Placed
  <2>4. \A f \in DOMAIN gallery : gallery[f].position = images[image].position => f = e
    <3> TAKE f \in DOMAIN gallery
    <3> HAVE gallery[f].position = images[image].position
    <3>1. gallery[f] # Gone /\ gallery[e] # Gone
      BY <1>4, <2>3, ImagesAreThere DEF Gone
    <3> QED BY <2>1, <2>3, <3>1 DEF Unique, Staying
  <2>5. Media!Existing(image) = {e}
    BY <1>4, <1>5, <2>3, <2>4, ExistingAt
  <2>6. Media!Matches(image)
    BY <1>4, <2>3, <2>5 DEF Media!Matches
  <2> QED BY <1>1, <2>6
<1> QED BY <1>9, <1>10, <1>11, <1>12, <1>13, <1>14, <1>15 DEF MediaInv

---------------------------------------------------------------------------

\* A call that is sent: it takes effect, or is answered an error.
Sent ==
  \/ Media!NextDelete /\ (Media!Deletes \/ (UNCHANGED gallery /\ answered'[run] = FALSE))
  \/ \E a \in DOMAIN adds :
       Media!NextAdd(a) /\ (Media!Adds(a) \/ (UNCHANGED gallery /\ answered'[run] = FALSE))

SendStep ==
  /\ Sent
  /\ answered' = answered \/ answered' = [answered EXCEPT ![run] = FALSE]
  /\ faults' \in Nat /\ faults' <= MaxFaults
  /\ Media!Input /\ UNCHANGED <<current, run, image, pc>>

\* Each of the three ways a call goes is such a step.
LEMMA MediaSends ==
  MediaInv /\ (Media!Done \/ Media!Refused \/ Media!Fails) => SendStep
<1> SUFFICES ASSUME MediaInv, Media!Done \/ Media!Refused \/ Media!Fails PROVE SendStep
  OBVIOUS
<1>1. /\ answered \in [1 .. 2 -> BOOLEAN] /\ run \in 1 .. 2 /\ faults \in Nat /\ faults <= MaxFaults
      /\ gallery \in Seq(Image \cup {Gone}) /\ MaxFaults \in Nat
  BY RequestsAssumption DEF MediaInv, MediaTypes, Media!MediaAssumption
<1>2. answered' = [answered EXCEPT ![run] = FALSE] => answered'[run] = FALSE
  BY <1>1
<1>3. CASE Media!Done
  BY <1>1, <1>3 DEF Media!Done, SendStep, Sent
<1>4. CASE Media!Refused
  <2>1. /\ Media!NextDelete /\ Media!Missing /\ answered' = [answered EXCEPT ![run] = FALSE]
        /\ Media!Input /\ UNCHANGED <<gallery, current, run, image, faults, pc>>
    BY <1>4 DEF Media!Refused
  <2> QED BY <1>1, <1>2, <2>1 DEF SendStep, Sent
<1>5. CASE Media!Fails
  <2>1. faults' \in Nat /\ faults' <= MaxFaults
    BY <1>1, <1>5 DEF Media!Fails
  <2> QED BY <1>1, <1>2, <1>5, <2>1 DEF Media!Fails, SendStep, Sent
<1> QED BY <1>3, <1>4, <1>5

\* What every call that is sent leaves as it was.
LEMMA SendKeeps ==
  ASSUME MediaInv, SendStep
  PROVE  /\ pc = "send" /\ pc' = "send" /\ image' = image /\ image > Len(images)
         /\ UNCHANGED <<images, mode, given, current, run>> /\ Clear' = Clear
         /\ answered' \in [1 .. 2 -> BOOLEAN] /\ \A r \in 1 .. 2 : answered'[r] => answered[r]
         /\ run \in 1 .. 2
<1>1. pc = "send" /\ MediaTypes /\ PhaseInv
  BY DEF SendStep, Sent, Media!NextDelete, Media!NextAdd, MediaInv
<1>2. UNCHANGED <<images, mode, given>> /\ Clear' = Clear
  BY MediaInput DEF SendStep
<1>3. answered' \in [1 .. 2 -> BOOLEAN] /\ \A r \in 1 .. 2 : answered'[r] => answered[r]
  BY <1>1 DEF MediaTypes, SendStep
<1> QED BY <1>1, <1>2, <1>3 DEF SendStep, MediaTypes, PhaseInv

\* A delete that is sent, done or not.
LEMMA MediaDeletes ==
  ASSUME MediaInv, SendStep, Media!NextDelete,
         Media!Deletes \/ (UNCHANGED gallery /\ answered'[run] = FALSE)
  PROVE  MediaInv'
<1> DEFINE d == dels[1]
           D == Elements(dels')
<1>1. MediaTypes /\ PhaseInv /\ OthersInv
  BY DEF MediaInv
<1>2. /\ pc = "send" /\ pc' = "send" /\ image' = image /\ image > Len(images)
      /\ UNCHANGED <<images, mode, given, current, run>> /\ Clear' = Clear
      /\ answered' \in [1 .. 2 -> BOOLEAN] /\ (\A r \in 1 .. 2 : answered'[r] => answered[r])
      /\ run \in 1 .. 2
  BY SendKeeps
<1>3. dels # <<>> /\ dels' = Tail(dels) /\ adds' = adds /\ dels \in Seq(Nat) /\ adds \in Seq(Image)
  BY <1>1 DEF Media!NextDelete, MediaTypes
<1>4. dels' \in Seq(Nat) /\ Head(dels) = d /\ Elements(dels) = D \cup {d}
  BY <1>3, TailRemoves DEF Without
<1>5. gallery \in Seq(Image \cup {Gone}) /\ d \in DOMAIN gallery
  BY <1>1, <1>2, <1>4 DEF MediaTypes, OthersInv
<1> HIDE DEF d, D
<1>6. \/ gallery' = [gallery EXCEPT ![d] = Gone]
      \/ gallery' = gallery /\ answered'[run] = FALSE
  BY <1>4 DEF Media!Deletes, Media!Gone, Gone
<1>7. ASSUME gallery' = [gallery EXCEPT ![d] = Gone]
      PROVE  /\ gallery' \in Seq(Image \cup {Gone}) /\ Len(gallery') = Len(gallery)
             /\ Unique(gallery, Elements(dels)) => Unique(gallery', D)
             /\ Free(gallery, Elements(dels), adds) => Free(gallery', D, adds)
             /\ \A im \in Image : Placed(im, gallery, Elements(dels), adds) => Placed(im, gallery', D, adds)
  BY <1>4, <1>5, <1>7, DeleteKeeps
<1>8. /\ gallery' \in Seq(Image \cup {Gone}) /\ Len(gallery') = Len(gallery)
      /\ DOMAIN gallery' = DOMAIN gallery
      /\ \A e \in DOMAIN gallery : gallery'[e] = gallery[e] \/ e = d
  BY <1>5, <1>6
<1>9. MediaTypes'
  <2>1. Elements(dels') \subseteq DOMAIN current
    BY <1>1, <1>4 DEF MediaTypes, D
  <2>2. faults' \in Nat /\ faults' <= MaxFaults
    BY DEF SendStep
  <2> QED BY <1>1, <1>2, <1>3, <1>4, <1>8, <2>1, <2>2 DEF MediaTypes
<1>10. PhaseInv'
  BY <1>2 DEF PhaseInv
<1>11. OthersInv'
  <2>1. \A x \in Elements(dels) : x \in DOMAIN gallery
          /\ (x \in DOMAIN given => \E i \in DOMAIN images : images[i].position = given[x].position)
    BY <1>1, <1>2 DEF OthersInv
  <2>2. \A e \in DOMAIN given : e \in DOMAIN gallery
    BY <1>1 DEF MediaTypes
  <2>3. Media!OthersLeftAlone'
    <3>1. \A e \in DOMAIN given :
            gallery'[e] = gallery[e] \/ \E i \in DOMAIN images : images[i].position = given[e].position
      BY <1>4, <1>8, <2>1, <2>2
    <3>2. Media!Input
      BY DEF SendStep
    <3> QED BY <3>1, <3>2, OthersStay
  <2> QED BY <1>2, <1>4, <1>8, <2>1, <2>3 DEF OthersInv, D
<1>12. PlanInv'
  BY <1>2 DEF PlanInv
<1>13. SendInv'
  <2> SUFFICES ASSUME Clear, answered'[run], NEW i \in DOMAIN images
               PROVE  Placed(images[i], gallery', D, adds)
    BY <1>2, <1>3 DEF SendInv, D
  <2>1. gallery' = [gallery EXCEPT ![d] = Gone] /\ answered[run]
    BY <1>2, <1>6
  <2>2. Placed(images[i], gallery, Elements(dels), adds)
    BY <1>2, <2>1 DEF MediaInv, SendInv
  <2>3. images[i] \in Image
    BY <1>1 DEF MediaTypes
  <2> QED BY <1>7, <2>1, <2>2, <2>3
<1>14. FirstInv'
  <2> SUFFICES ASSUME Clear, run = 1, answered'[1]
               PROVE  Unique(gallery', D) /\ Free(gallery', D, adds) /\ Apart(adds)
    BY <1>2, <1>3 DEF FirstInv, D
  <2>1. gallery' = [gallery EXCEPT ![d] = Gone] /\ answered[1]
    BY <1>2, <1>6
  <2>2. Unique(gallery, Elements(dels)) /\ Free(gallery, Elements(dels), adds) /\ Apart(adds)
    BY <1>2, <2>1 DEF MediaInv, FirstInv
  <2> QED BY <1>7, <2>1, <2>2
<1>15. RerunInv'
  <2> SUFFICES ASSUME Clear, run = 2, answered[1] PROVE FALSE
    BY <1>2 DEF RerunInv
  <2>1. dels = <<>>
    BY <1>2 DEF MediaInv, RerunInv
  <2> QED BY <1>3, <2>1
<1> QED BY <1>9, <1>10, <1>11, <1>12, <1>13, <1>14, <1>15 DEF MediaInv

\* An add that is sent, done or not.
LEMMA MediaAdds ==
  ASSUME MediaInv, SendStep, NEW a \in DOMAIN adds, Media!NextAdd(a),
         Media!Adds(a) \/ (UNCHANGED gallery /\ answered'[run] = FALSE)
  PROVE  MediaInv'
<1> DEFINE x == adds[a]
<1>1. MediaTypes /\ PhaseInv /\ OthersInv
  BY DEF MediaInv
<1>2. /\ pc = "send" /\ pc' = "send" /\ image' = image /\ image > Len(images)
      /\ UNCHANGED <<images, mode, given, current, run>> /\ Clear' = Clear
      /\ answered' \in [1 .. 2 -> BOOLEAN] /\ (\A r \in 1 .. 2 : answered'[r] => answered[r])
      /\ run \in 1 .. 2
  BY SendKeeps
<1>3. dels = <<>> /\ dels' = dels /\ adds' = Media!RemoveAt(adds, a)
      /\ adds \in Seq(Image) /\ gallery \in Seq(Image \cup {Gone}) /\ x \in Image
  BY <1>1 DEF Media!NextAdd, MediaTypes
<1>4. Elements(dels) = {} /\ Elements(dels') = {}
  BY <1>3 DEF Elements
<1>5. adds' \in Seq(Image) /\ Elements(adds) = Elements(adds') \cup {x}
      /\ (Apart(adds) => Apart(adds') /\ \A y \in Elements(adds') : y.position # x.position)
  BY <1>3, RemoveAtRemoves DEF Without
<1> HIDE DEF x
<1>6. gallery' = Append(gallery, x) \/ (gallery' = gallery /\ answered'[run] = FALSE)
  BY DEF Media!Adds, x
<1>7. ASSUME gallery' = Append(gallery, x)
      PROVE  /\ gallery' \in Seq(Image \cup {Gone}) /\ Len(gallery') = Len(gallery) + 1
             /\ Unique(gallery, {}) /\ Free(gallery, {}, adds) => Unique(gallery', {})
             /\ Free(gallery, {}, adds) /\ (\A y \in Elements(adds') : y.position # x.position)
                  => Free(gallery', {}, adds')
             /\ \A im \in Image : Placed(im, gallery, {}, adds) => Placed(im, gallery', {}, adds')
  BY <1>3, <1>5, <1>7, AddKeeps
<1>8. /\ gallery' \in Seq(Image \cup {Gone}) /\ Len(gallery) <= Len(gallery')
      /\ \A e \in DOMAIN gallery : gallery'[e] = gallery[e]
  BY <1>3, <1>6
<1>9. MediaTypes'
  <2>1. Len(given) <= Len(gallery')
    BY <1>1, <1>3, <1>8 DEF MediaTypes
  <2>2. faults' \in Nat /\ faults' <= MaxFaults
    BY DEF SendStep
  <2> QED BY <1>1, <1>2, <1>3, <1>4, <1>5, <1>8, <2>1, <2>2 DEF MediaTypes
<1>10. PhaseInv'
  BY <1>2 DEF PhaseInv
<1>11. OthersInv'
  <2>1. \A e \in DOMAIN given : e \in DOMAIN gallery
    BY <1>1 DEF MediaTypes
  <2>2. Media!OthersLeftAlone'
    <3>1. Media!Input
      BY DEF SendStep
    <3> QED BY <1>8, <2>1, <3>1, OthersStay
  <2> QED BY <1>4, <2>2 DEF OthersInv
<1>12. PlanInv'
  BY <1>2 DEF PlanInv
<1>13. SendInv'
  <2> SUFFICES ASSUME Clear, answered'[run], NEW i \in DOMAIN images
               PROVE  Placed(images[i], gallery', {}, adds')
    BY <1>2, <1>4 DEF SendInv
  <2>1. gallery' = Append(gallery, x) /\ answered[run]
    BY <1>2, <1>6
  <2>2. Placed(images[i], gallery, {}, adds)
    BY <1>2, <1>4, <2>1 DEF MediaInv, SendInv
  <2>3. images[i] \in Image
    BY <1>1 DEF MediaTypes
  <2> QED BY <1>7, <2>1, <2>2, <2>3
<1>14. FirstInv'
  <2> SUFFICES ASSUME Clear, run = 1, answered'[1]
               PROVE  Unique(gallery', {}) /\ Free(gallery', {}, adds') /\ Apart(adds')
    BY <1>2, <1>4 DEF FirstInv
  <2>1. gallery' = Append(gallery, x) /\ answered[1]
    BY <1>2, <1>6
  <2>2. Unique(gallery, {}) /\ Free(gallery, {}, adds) /\ Apart(adds)
    BY <1>2, <1>4, <2>1 DEF MediaInv, FirstInv
  <2> QED BY <1>5, <1>7, <2>1, <2>2
<1>15. RerunInv'
  <2> SUFFICES ASSUME Clear, run = 2, answered[1] PROVE FALSE
    BY <1>2 DEF RerunInv
  <2>1. adds = <<>>
    BY <1>2 DEF MediaInv, RerunInv
  <2> QED BY <2>1
<1> QED BY <1>9, <1>10, <1>11, <1>12, <1>13, <1>14, <1>15 DEF MediaInv

\* A call is one of the two.
LEMMA MediaSent ==
  MediaInv /\ (Media!Done \/ Media!Refused \/ Media!Fails) => MediaInv'
<1> SUFFICES ASSUME MediaInv, Media!Done \/ Media!Refused \/ Media!Fails PROVE MediaInv'
  OBVIOUS
<1>1. SendStep /\ Sent
  BY MediaSends DEF SendStep
<1>2. CASE Media!NextDelete /\ (Media!Deletes \/ (UNCHANGED gallery /\ answered'[run] = FALSE))
  BY <1>1, <1>2, MediaDeletes
<1>3. ASSUME NEW a \in DOMAIN adds, Media!NextAdd(a),
             Media!Adds(a) \/ (UNCHANGED gallery /\ answered'[run] = FALSE)
      PROVE  MediaInv'
  BY <1>1, <1>3, MediaAdds
<1> QED BY <1>1, <1>2, <1>3 DEF Sent

\* A stutter.
LEMMA MediaUnchanged == MediaInv /\ UNCHANGED Media!vars => MediaInv'
<1> SUFFICES ASSUME MediaInv, UNCHANGED Media!vars PROVE MediaInv'
  OBVIOUS
<1>1. /\ UNCHANGED <<images, mode, given, gallery, current, run, image, dels, adds>>
      /\ UNCHANGED <<answered, faults, pc>> /\ Media!Input
  BY DEF Media!vars, Media!Input
<1>2. OthersInv'
  BY <1>1, MediaInput DEF MediaInv, OthersInv
<1>3. MediaTypes' /\ PhaseInv' /\ PlanInv' /\ SendInv' /\ FirstInv' /\ RerunInv'
  BY <1>1 DEF MediaInv, MediaTypes, PhaseInv, PlanInv, SendInv, FirstInv, RerunInv, Clear, Apart
<1> QED BY <1>2, <1>3 DEF MediaInv

\* A set of one has one element.
LEMMA OneOf ==
  ASSUME NEW S, NEW e, S = {e}
  PROVE  Media!Cardinality(S) = 1
<1>1. Media!Cardinality(S) = Cardinality(S)
  BY DEF Media!Cardinality, Cardinality, Media!IsFiniteSet, IsFiniteSet
<1> QED BY <1>1, FS_Singleton

\* The invariant says what is checked.
LEMMA MediaSays ==
  MediaInv => /\ Media!TypeOK /\ Media!ImagesInPlace /\ Media!OthersLeftAlone
              /\ Media!FailedRowChangesNothing /\ Media!RerunPlansNothing
<1> SUFFICES ASSUME MediaInv
             PROVE  /\ Media!TypeOK /\ Media!ImagesInPlace /\ Media!OthersLeftAlone
                    /\ Media!FailedRowChangesNothing /\ Media!RerunPlansNothing
  OBVIOUS
<1>1. MediaTypes /\ PhaseInv /\ OthersInv /\ PlanInv
  BY DEF MediaInv
<1>2. \A s : Media!Range(s) = Elements(s)
  BY DEF Media!Range, Elements
<1>3. Media!Clear <=> Clear
  BY DEF Media!Clear, Media!Distinct, Clear, Apart
<1>4. Media!TypeOK
  <2>1. Elements(adds) \subseteq Image
    BY <1>1 DEF MediaTypes, Elements
  <2>2. \A e \in DOMAIN gallery : gallery[e] \in Image \cup {Gone}
    BY <1>1 DEF MediaTypes
  <2>3. pc = "plan" => Len(adds) < image
    BY <1>1 DEF PlanInv
  <2> QED BY <1>1, <1>2, <2>1, <2>2, <2>3
       DEF MediaTypes, Media!TypeOK, Media!Image, Image, Media!Gone, Gone
<1>5. Media!FailedRowChangesNothing
  BY <1>1 DEF PhaseInv, Media!FailedRowChangesNothing
<1>6. Media!RerunPlansNothing
  BY <1>3 DEF MediaInv, RerunInv, Media!RerunPlansNothing
<1>7. Media!ImagesInPlace
  <2> SUFFICES ASSUME Clear, pc = "done", answered[run], NEW i \in DOMAIN images
               PROVE  /\ images[i] \in Elements(gallery)
                      /\ run = 1 => Media!Cardinality(Media!At(images[i].position)) = 1
    BY <1>2, <1>3 DEF Media!ImagesInPlace
  <2>1. Elements(<<>>) = {}
    BY DEF Elements
  <2>2. PICK e \in DOMAIN gallery : gallery[e] = images[i]
    BY <2>1 DEF MediaInv, SendInv, Placed
  <2>3. images[i] # Gone
    BY <1>1, ImagesAreThere DEF MediaTypes
  <2>4. ASSUME run = 1 PROVE Media!Cardinality(Media!At(images[i].position)) = 1
    <3>1. Unique(gallery, {})
      BY <2>4 DEF MediaInv, FirstInv
    <3>2. Media!Entries(gallery) = Staying(gallery, {})
      BY DEF Media!Entries, Staying, Media!Gone, Gone
    <3>3. Media!At(images[i].position) = {e}
      BY <2>2, <2>3, <3>1, <3>2 DEF Media!At, Unique, Staying
    <3> QED BY <3>3, OneOf
  <2> QED BY <2>2, <2>4 DEF Elements
<1> QED BY <1>1, <1>4, <1>5, <1>6, <1>7 DEF OthersInv

\* The inductive invariant of the gallery, for every row of images, gallery
\* before, mode, and calls that fail with or without effect.
LEMMA MediaInvariance == Spec => [](part = "media" => MediaInv)
<1> DEFINE Inv == part = "media" => MediaInv
<1>1. Init => Inv
  BY MediaInit DEF Init
<1>2. Inv /\ [Next]_vars => Inv'
  <2> SUFFICES ASSUME Inv, [Next]_vars, part' = "media"
               PROVE  MediaInv'
    OBVIOUS
  <2>1. CASE MediaStep
    <3>1. MediaInv /\ Media!Next
      BY <2>1 DEF MediaStep
    <3> QED
      BY <3>1, MediaRead, MediaRowFails, MediaNoImages, MediaSkip, MediaReplace, MediaPlanned,
         MediaSent, MediaComplete, MediaRerun DEF Media!Next
  <2>2. CASE RequestStep \/ ListsStep \/ SnapshotStep
    BY <2>2 DEF RequestStep, ListsStep, SnapshotStep, NotRequest
  <2>3. CASE UNCHANGED vars
    <3>1. MediaInv /\ UNCHANGED Media!vars
      BY <2>3 DEF vars, media, Media!vars
    <3> QED BY <3>1, MediaUnchanged
  <2> QED BY <2>1, <2>2, <2>3 DEF Next
<1> QED
  BY <1>1, <1>2, PTL DEF Spec

\* Whichever calls fail, with or without effect: after a run whose calls were
\* answered well a row's images are in the gallery, once each after the first;
\* entries no image is for stay, a row that fails before its calls changes
\* nothing, and a rerun of what is in place plans nothing (plan_media,
\* import_media).
THEOREM GalleryIsAsNamed == Spec => []GalleryAsNamed
<1>1. (part = "media" => MediaInv) => GalleryAsNamed
  BY MediaSays DEF GalleryAsNamed
<1> QED
  BY <1>1, MediaInvariance, PTL

\* The variables of every part keep their types.
THEOREM TypesAreKept == Spec => []TypeOK
<1>1. /\ part = "request" => Request!IInv
      /\ part = "lists" => Lists!IInv
      /\ part = "snapshot" => SnapshotInv
      /\ part = "media" => MediaInv
      => TypeOK
  BY SnapshotSays, MediaSays DEF TypeOK, Request!IInv, Lists!IInv
<1> QED
  BY <1>1, RequestInvariance, ListsInvariance, SnapshotInvariance, MediaInvariance, PTL

=============================================================================
