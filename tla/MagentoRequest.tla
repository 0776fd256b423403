-------------------------- MODULE MagentoRequest --------------------------
(***************************************************************************)
(* MagentoResource._request: one HTTP call with its login, its one refresh *)
(* of an expired token and its retries, and the calls that follow it on    *)
(* the same resource, which keeps the token.                               *)
(*                                                                         *)
(* Magento may execute a request and have its answer replaced by a gateway *)
(* error; the token may expire at any moment; an endpoint may be denied to *)
(* the account whatever its token.                                         *)
(***************************************************************************)
EXTENDS Naturals

CONSTANTS
  MaxRetries,   \* _MAX_RETRIES
  MaxCalls      \* bound: calls made on the resource

BoundAssumption == MaxRetries \in Nat /\ MaxCalls \in Nat

VARIABLES
  pc,        \* idle, login, send or answered
  stage,     \* which send: first, resend (after the refresh) or backoff
  method,    \* the request: BULK is any verb under async/bulk
  attempt,   \* retries of the backoff loop so far
  answer,    \* status of the last response
  ending,    \* how the last call ended
  calls,     \* calls begun
  token,     \* the cached token, as Magento sees it
  denied,    \* Magento: this endpoint answers 401 to this account
  executed,  \* Magento: times this call's request took effect
  sends,     \* history: requests sent by this call
  logins,    \* history: token requests sent by this call
  lapsed     \* history: a token expired during this call

call == <<method, denied, calls>>
progress == <<stage, attempt>>
history == <<executed, sends, logins, lapsed>>
vars == <<pc, progress, call, answer, ending, token, history>>

Method == {"GET", "PUT", "DELETE", "POST", "BULK"}

\* "gateway" stands for 502, 503 and 504, "500" for a failure inside Magento,
\* "400" for every other refusal.
Answer == {"200", "400", "401", "404", "429", "500", "gateway"}
Ending == {"none", "ok", "error", "autherror", "transport"}

TypeOK ==
  /\ pc \in {"idle", "login", "send", "answered"}
  /\ stage \in {"first", "resend", "backoff"}
  /\ method \in Method
  /\ attempt \in 0..MaxRetries
  /\ answer \in Answer
  /\ ending \in Ending
  /\ calls \in 0..MaxCalls
  /\ token \in {"none", "valid", "expired"}
  /\ denied \in BOOLEAN
  /\ executed \in Nat
  /\ sends \in Nat
  /\ logins \in Nat
  /\ lapsed \in BOOLEAN

Init ==
  /\ pc = "idle"
  /\ stage = "first"
  /\ method = "GET"
  /\ attempt = 0
  /\ answer = "200"
  /\ ending = "none"
  /\ calls = 0
  /\ token = "none"
  /\ denied = FALSE
  /\ executed = 0
  /\ sends = 0
  /\ logins = 0
  /\ lapsed = FALSE

NotIdempotent(m) == m \in {"POST", "BULK"}

\* Mutant of RetryStatuses: one list for every verb.
RetryStatusesAny(m) == {"429", "gateway"}

RetryStatuses(m) == IF NotIdempotent(m) THEN {"429"} ELSE {"429", "gateway"}

---------------------------------------------------------------------------
(* A call, step by step. *)

Begin ==
  /\ pc = "idle"
  /\ calls < MaxCalls
  /\ calls' = calls + 1
  /\ method' \in Method
  /\ denied' \in BOOLEAN
  /\ pc' = IF token = "none" THEN "login" ELSE "send"
  /\ stage' = "first"
  /\ attempt' = 0
  /\ ending' = "none"
  /\ executed' = 0
  /\ sends' = 0
  /\ logins' = 0
  /\ lapsed' = FALSE
  /\ UNCHANGED <<answer, token>>

EndCall(e) == pc' = "idle" /\ ending' = e

\* _fetch_token answers.
LoginSucceeds ==
  /\ pc = "login"
  /\ pc' = "send"
  /\ token' = "valid"
  /\ logins' = logins + 1
  /\ UNCHANGED <<progress, call, answer, ending, executed, sends, lapsed>>

\* An HTTPError becomes MagentoAuthError, another error passes; the cache
\* keeps what it had.
LoginFails ==
  /\ pc = "login"
  /\ \E e \in {"autherror", "transport"} : EndCall(e)
  /\ logins' = logins + 1
  /\ UNCHANGED <<progress, call, answer, token, executed, sends, lapsed>>

\* What Magento may make of one request: the status the client gets and how
\* often the request took effect.  429 comes before any processing; what is
\* deleted already is not found.
Outcomes ==
  LET reply(statuses, n) == {[status |-> s, effect |-> n] : s \in statuses}
      gone == method = "DELETE" /\ executed > 0
  IN  IF token # "valid" \/ denied
        THEN reply({"401", "429", "gateway"}, 0)
        ELSE reply({"400", "404", "429", "500", "gateway"}, 0)
             \cup IF gone THEN {} ELSE reply({"200", "500", "gateway"}, 1)

\* _send_timed returns a response.
Send ==
  /\ pc = "send"
  /\ \E r \in Outcomes : answer' = r.status /\ executed' = executed + r.effect
  /\ pc' = "answered"
  /\ sends' = sends + 1
  /\ UNCHANGED <<progress, call, ending, token, logins, lapsed>>

\* A timeout or a lost connection raises from the send.
SendBreaks ==
  /\ pc = "send"
  /\ \E r \in Outcomes : executed' = executed + r.effect
  /\ EndCall("transport")
  /\ sends' = sends + 1
  /\ UNCHANGED <<progress, call, answer, token, logins, lapsed>>

\* Mutant of Refresh: without a new login.
RefreshKeepsToken ==
  /\ pc = "answered"
  /\ stage = "first"
  /\ answer = "401"
  /\ pc' = "send"
  /\ stage' = "resend"
  /\ UNCHANGED <<attempt, call, answer, ending, token, history>>

\* 401 on the first send: log in again and send once more.
Refresh ==
  /\ pc = "answered"
  /\ stage = "first"
  /\ answer = "401"
  /\ pc' = "login"
  /\ stage' = "resend"
  /\ UNCHANGED <<attempt, call, answer, ending, token, history>>

\* The while loop: sleep and send again.
Retry ==
  /\ pc = "answered"
  /\ answer \in RetryStatuses(method)
  /\ attempt < MaxRetries
  /\ attempt' = attempt + 1
  /\ stage' = "backoff"
  /\ pc' = "send"
  /\ UNCHANGED <<call, answer, ending, token, history>>

\* Mutants of Finish: no raise_for_status; no way out when the retries are
\* used up.
FinishNeverRaises ==
  /\ pc = "answered"
  /\ ~(stage = "first" /\ answer = "401")
  /\ ~(answer \in RetryStatuses(method) /\ attempt < MaxRetries)
  /\ EndCall("ok")
  /\ UNCHANGED <<progress, call, answer, token, history>>

FinishUnlessRetriable ==
  /\ pc = "answered"
  /\ ~(stage = "first" /\ answer = "401")
  /\ answer \notin RetryStatuses(method)
  /\ EndCall(IF answer = "200" THEN "ok" ELSE "error")
  /\ UNCHANGED <<progress, call, answer, token, history>>

\* Nothing to refresh and nothing to retry: raise_for_status.
Finish ==
  /\ pc = "answered"
  /\ ~(stage = "first" /\ answer = "401")
  /\ ~(answer \in RetryStatuses(method) /\ attempt < MaxRetries)
  /\ EndCall(IF answer = "200" THEN "ok" ELSE "error")
  /\ UNCHANGED <<progress, call, answer, token, history>>

\* Magento's token lifetime runs out.
TokenExpires ==
  /\ token = "valid"
  /\ token' = "expired"
  /\ lapsed' = (pc # "idle")
  /\ UNCHANGED <<pc, progress, call, answer, ending, executed, sends, logins>>

---------------------------------------------------------------------------

Client ==
  \/ Begin \/ LoginSucceeds \/ LoginFails \/ Send \/ SendBreaks
  \/ Refresh \/ Retry \/ Finish

Next == Client \/ TokenExpires

\* Requests carry a timeout, so each step of a call is taken.
Spec == Init /\ [][Next]_vars /\ WF_vars(Client)

---------------------------------------------------------------------------
(* Properties. *)

Ended == pc = "idle" /\ ending # "none"

\* No sequence of refreshes, retries and gateway errors lets Magento create
\* something twice, or run a bulk twice, for one call.
NoDoubleWrite == NotIdempotent(method) => executed <= 1

\* What a caller may conclude from the end of a call: a success took effect;
\* an error other than 500 and gateway errors, on a request that is not
\* idempotent, did not.  The bulk executor and the row counts rest on it.
EndingTellsEffect ==
  /\ Ended /\ ending = "ok" => executed >= 1
  /\ Ended /\ ending = "error" /\ NotIdempotent(method) /\ executed > 0 =>
       answer \in {"500", "gateway"}

\* A call costs at most one refresh and MaxRetries retries, whatever it meets.
BoundedEffort ==
  /\ sends <= MaxRetries + 2
  /\ logins <= 2

\* A token that expired between two calls costs no row: on an endpoint open to
\* the account a call fails on 401 only if a token expired during the call, or
\* if the 401 answered a retry of the backoff loop.
ExpiryRecovers ==
  Ended /\ ending = "error" /\ answer = "401" /\ ~denied =>
    lapsed \/ stage = "backoff"

\* An expired token costs one login and no row (_request).
ExpiryCostsOneLogin == ExpiryRecovers /\ BoundedEffort

\* Every call ends.
CallEnds == (pc # "idle") ~> (pc = "idle")

---------------------------------------------------------------------------
(* The inductive invariant behind NoDoubleWrite, EndingTellsEffect and      *)
(* ExpiryCostsOneLogin.                                                    *)

\* Once a request that is not idempotent took effect, nothing is sent again.
EffectInv ==
  /\ pc = "answered" /\ answer = "200" => executed >= 1
  /\ NotIdempotent(method) /\ executed > 0 =>
       /\ executed = 1
       /\ pc \in {"answered", "idle"}
       /\ pc = "answered" => answer \in {"200", "500", "gateway"}

\* How far sends and logins can be at each point of a call.
EffortInv ==
  /\ stage \in {"first", "resend"} => attempt = 0
  /\ pc = "login" => stage \in {"first", "resend"}
  /\ sends <= CASE pc = "idle" -> MaxRetries + 2
               [] pc # "idle" /\ stage = "first" -> IF pc = "answered" THEN 1 ELSE 0
               [] pc # "idle" /\ stage = "resend" -> IF pc = "answered" THEN 2 ELSE 1
               [] OTHER -> IF pc = "answered" THEN attempt + 2 ELSE attempt + 1
  /\ logins <= CASE pc = "login" -> IF stage = "first" THEN 0 ELSE 1
                [] pc \in {"send", "answered"} /\ stage = "first" -> 1
                [] OTHER -> 2

\* Where a 401 comes from: the token of the second send is the one just
\* fetched, unless it expired since, and a 401 to an account that is not denied
\* met a token that is still not valid.
ExpiryInv ==
  /\ pc = "send" /\ stage = "resend" => token = "valid" \/ lapsed
  /\ pc = "answered" /\ answer = "401" /\ ~denied =>
       token # "valid" /\ (stage = "resend" => lapsed)
  /\ Ended /\ ending = "error" /\ answer = "401" /\ ~denied =>
       token # "valid" /\ (stage = "backoff" \/ lapsed)

IInv == TypeOK /\ EffectInv /\ EffortInv /\ ExpiryInv /\ EndingTellsEffect

---------------------------------------------------------------------------
(* A documented claim the code does not keep. *)

\* As documented: a 401 from any endpoint fetches a new token and repeats the
\* request, so a call whose token expired before it began does not fail on it.
AnyUnauthorizedRefreshes ==
  Ended /\ ending = "error" /\ answer = "401" /\ ~denied => lapsed

=============================================================================
