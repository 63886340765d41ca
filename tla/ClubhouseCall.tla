---------------------------- MODULE ClubhouseCall ----------------------------
(***************************************************************************)
(* One call of the Clubhouse API, as every operation of the adapter makes   *)
(* it: requestJson, wrapClubhouseCall and withRetry, with the refresh of    *)
(* the token that a rejected request triggers inside its first attempt.     *)
(*                                                                         *)
(* Calls share nothing but the token of the profile. The platform may       *)
(* accept or reject whatever token it gets, so that one call at a time is   *)
(* enough. A step is a request with its outcome, or a pause.                *)
(***************************************************************************)
EXTENDS Integers

CONSTANTS
  MaxAttempts,   \* maxAttempts
  BaseDelay,     \* baseDelayMs
  Factor,        \* factor
  MaxDelay,      \* maxDelayMs
  MaxRetryAfter, \* maxRetryAfterMs
  Hints          \* bound: the Retry-After values the platform sends; 0 is none

ASSUME CallAssumption ==
  /\ MaxAttempts \in Nat \ {0} /\ BaseDelay \in Nat \ {0} /\ Factor \in Nat \ {0}
  /\ MaxDelay \in Nat \ {0} /\ MaxRetryAfter \in Nat
  /\ Hints \subseteq Nat

VARIABLES
  refreshable,     \* is there a refresh token?
  pc,              \* what the call waits for
  attempt,         \* attemptNumber of withRetry for the operation
  refreshAttempt,  \* attemptNumber of withRetry for the refresh
  pause,           \* the delay of the sleep the call is in, or 0
  outcome,         \* what the last call returned
  answer,          \* kept for the properties: what the platform last said to the operation
  performed,       \* ... how often it performed the operation for this call
  requests,        \* ... how many requests the call has made for the operation
  pauses,          \* ... how often the call has slept
  fate             \* ... "open" once a request has failed in a way that is worth a retry

history == <<answer, performed, requests, pauses, fate>>
vars == <<refreshable, pc, attempt, refreshAttempt, pause, outcome, history>>

\* The kinds of ClubhouseApiError: "retryable" stands for rate_limited, transient,
\* network and timeout, "permanent" for not_found, conflict and request.
Failure == {"authentication", "retryable", "permanent"}

\* "request": the operation; "repeat": the operation once more, within the attempt whose
\* request was rejected; "backoff" and "refreshBackoff": sleep.
TypeOK ==
  /\ refreshable \in BOOLEAN
  /\ pc \in {"idle", "request", "backoff", "refresh", "refreshBackoff", "repeat"}
  /\ attempt \in 1..MaxAttempts /\ refreshAttempt \in 0..MaxAttempts
  /\ pause \in Nat
  /\ outcome \in Failure \cup {"none", "ok"}
  /\ answer \in Failure \cup {"none", "ok"}
  /\ performed \in Nat /\ requests \in Nat /\ pauses \in Nat
  /\ fate \in {"certain", "open"}

Fresh ==
  /\ attempt = 1 /\ refreshAttempt = 0 /\ pause = 0
  /\ answer = "none" /\ performed = 0 /\ requests = 0 /\ pauses = 0
  /\ fate = "certain"

Init ==
  /\ refreshable \in BOOLEAN
  /\ pc = "idle"
  /\ outcome = "none"
  /\ Fresh

-----------------------------------------------------------------------------

Smaller(a, b) == IF a <= b THEN a ELSE b
Larger(a, b) == IF a >= b THEN a ELSE b

Exponential(n) == BaseDelay * Factor ^ (n - 1)

\* computeBackoffMs: any delay up to the capped exponential one (jitter), at least 1,
\* and at least the platform's hint as far as that is honoured.
Delays(n, hint) ==
  {Larger(d, Smaller(hint, MaxRetryAfter)) :
     d \in {d \in 1..MaxDelay : d = 1 \/ d <= Exponential(n)}}

\* The counters kept for the properties stop here, beyond what any call reaches.
Counted(n) == Smaller(n + 1, MaxAttempts + 2)

Ask(at) == pc' = at /\ requests' = Counted(requests)

Return(result) == pc' = "idle" /\ outcome' = result

Sleep(at, n) ==
  /\ pc' = at
  /\ \E hint \in Hints : pause' \in Delays(n, hint)
  /\ pauses' = Counted(pauses)

\* An operation of the adapter is called.
Call ==
  /\ pc = "idle"
  /\ pc' = "request"
  /\ requests' = 1
  /\ attempt' = 1 /\ refreshAttempt' = 0 /\ pause' = 0
  /\ outcome' = "none" /\ answer' = "none"
  /\ performed' = 0 /\ pauses' = 0 /\ fate' = "certain"
  /\ UNCHANGED refreshable

\* Variant of Succeed: the answer to the repeated request is not passed on.
SucceedUnheard ==
  /\ pc \in {"request", "repeat"}
  /\ performed' = Counted(performed)
  /\ answer' = "ok"
  /\ Return(IF pc = "request" THEN "ok" ELSE "authentication")
  /\ UNCHANGED <<refreshable, attempt, refreshAttempt, pause, requests, pauses, fate>>

\* The platform performs the operation and says so.
Succeed ==
  /\ pc \in {"request", "repeat"}
  /\ performed' = Counted(performed)
  /\ answer' = "ok"
  /\ Return("ok")
  /\ UNCHANGED <<refreshable, attempt, refreshAttempt, pause, requests, pauses, fate>>

\* The request fails with kind; a request whose answer is late or lost, or that ends
\* in a server error, may have been performed.
Fails(kind) ==
  /\ answer' = kind
  /\ fate' = IF kind = "retryable" THEN "open" ELSE fate
  /\ performed' \in IF kind = "retryable" THEN {performed, Counted(performed)} ELSE {performed}

\* The first request is rejected: the token is refreshed.
Reject ==
  /\ pc = "request"
  /\ attempt = 1
  /\ refreshable
  /\ Fails("authentication")
  /\ pc' = "refresh"
  /\ refreshAttempt' = 1
  /\ UNCHANGED <<refreshable, attempt, pause, outcome, requests, pauses>>

\* The request fails and withRetry returns the error, or sleeps before the next one.
Fail(kind) ==
  /\ pc = "request"
  /\ kind = "authentication" => attempt > 1 \/ ~refreshable
  /\ Fails(kind)
  /\ \/ /\ kind = "retryable" /\ attempt < MaxAttempts
        /\ Sleep("backoff", attempt)
        /\ UNCHANGED outcome
     \/ /\ kind # "retryable" \/ attempt >= MaxAttempts
        /\ Return(kind)
        /\ UNCHANGED <<pause, pauses>>
  /\ UNCHANGED <<refreshable, attempt, refreshAttempt, requests>>

\* Variant of Retry: the attempts are not counted.
RetryUncounted ==
  /\ pc = "backoff"
  /\ Ask("request")
  /\ pause' = 0
  /\ UNCHANGED <<refreshable, attempt, refreshAttempt, outcome, answer, performed, pauses,
                 fate>>

\* The sleep ends and withRetry makes its next attempt.
Retry ==
  /\ pc = "backoff"
  /\ Ask("request")
  /\ attempt' = attempt + 1
  /\ pause' = 0
  /\ UNCHANGED <<refreshable, refreshAttempt, outcome, answer, performed, pauses, fate>>

-----------------------------------------------------------------------------

\* refreshAccessToken returns a token: the operation is repeated with it.
Refreshed ==
  /\ pc = "refresh"
  /\ Ask("repeat")
  /\ UNCHANGED <<refreshable, attempt, refreshAttempt, pause, outcome, answer, performed,
                 pauses, fate>>

\* The refresh gets no token, or fails for good: the original error is returned.
RefreshFails ==
  /\ pc = "refresh"
  /\ Return("authentication")
  /\ UNCHANGED <<refreshable, attempt, refreshAttempt, pause, history>>

\* Variant of RefreshDelayed: one attempt too many.
RefreshDelayedOnce ==
  /\ pc = "refresh"
  /\ refreshAttempt <= MaxAttempts
  /\ Sleep("refreshBackoff", refreshAttempt)
  /\ UNCHANGED <<refreshable, attempt, refreshAttempt, outcome, answer, performed, requests,
                 fate>>

\* The refresh is itself retried, with the same policy.
RefreshDelayed ==
  /\ pc = "refresh"
  /\ refreshAttempt < MaxAttempts
  /\ Sleep("refreshBackoff", refreshAttempt)
  /\ UNCHANGED <<refreshable, attempt, refreshAttempt, outcome, answer, performed, requests,
                 fate>>

RefreshAgain ==
  /\ pc = "refreshBackoff"
  /\ pc' = "refresh"
  /\ refreshAttempt' = refreshAttempt + 1
  /\ pause' = 0
  /\ UNCHANGED <<refreshable, attempt, outcome, history>>

\* Variant of RepeatFails: the error of the repeated request is what withRetry sees.
RepeatThrows(kind) ==
  /\ pc = "repeat"
  /\ Fails(kind)
  /\ \/ /\ kind = "retryable" /\ attempt < MaxAttempts
        /\ Sleep("backoff", attempt)
        /\ UNCHANGED outcome
     \/ /\ kind # "retryable" \/ attempt >= MaxAttempts
        /\ Return(kind)
        /\ UNCHANGED <<pause, pauses>>
  /\ UNCHANGED <<refreshable, attempt, refreshAttempt, requests>>

\* The repeated request fails: the handler that is meant for a failing refresh catches
\* its error too, and the original one is returned.
RepeatFails(kind) ==
  /\ pc = "repeat"
  /\ Fails(kind)
  /\ Return("authentication")
  /\ UNCHANGED <<refreshable, attempt, refreshAttempt, pause, requests, pauses>>

Step ==
  \/ Succeed
  \/ Reject
  \/ \E kind \in Failure : Fail(kind) \/ RepeatFails(kind)
  \/ Retry
  \/ Refreshed \/ RefreshFails \/ RefreshDelayed \/ RefreshAgain

Next == Call \/ Step

Spec == Init /\ [][Next]_vars

\* Every request is answered or fails, and every sleep ends.
FairSpec == Spec /\ WF_vars(Step)

-----------------------------------------------------------------------------

\* What a call has spent is what its program counter says.
IInv ==
  /\ TypeOK
  /\ pc = "request" => requests = attempt /\ pauses = attempt - 1 /\ refreshAttempt = 0
  /\ pc = "backoff" =>
       requests = attempt /\ pauses = attempt /\ attempt < MaxAttempts /\ refreshAttempt = 0
  /\ pc = "refresh" =>
       requests = 1 /\ attempt = 1 /\ refreshAttempt >= 1 /\ pauses = refreshAttempt - 1
  /\ pc = "refreshBackoff" =>
       /\ requests = 1 /\ attempt = 1
       /\ refreshAttempt >= 1 /\ refreshAttempt < MaxAttempts /\ pauses = refreshAttempt
  /\ pc = "repeat" => requests = 2 /\ attempt = 1 /\ pauses < MaxAttempts
  /\ requests <= Larger(MaxAttempts, 2)
  /\ pauses < MaxAttempts
  /\ pause <= Larger(MaxDelay, MaxRetryAfter)
  /\ fate = "certain" => performed = IF pc = "idle" /\ outcome = "ok" THEN 1 ELSE 0

\* "Consumes a retry budget slot to stay bounded" (http.ts:114). retry.ts:11-12 says that
\* an endpoint never stalls the room loop "for more than a few seconds"; two honoured hints
\* of maxRetryAfterMs make it a minute, but the bound is the policy's own: however the
\* refresh nested in an attempt and the retries around it combine, the operation is
\* requested at most MaxAttempts times, or twice; the pauses of both together are fewer
\* than MaxAttempts, and none is longer than the longest delay.
BudgetKept ==
  /\ requests <= Larger(MaxAttempts, 2)
  /\ pauses < MaxAttempts
  /\ pause <= Larger(MaxDelay, MaxRetryAfter)

\* A caller that is told no, or to authenticate, has changed nothing on the platform, and
\* one that is told yes has changed it once, unless a request failed in a way that leaves
\* it open (adapter.ts:93, which the rules rely on when they send).
OutcomeTruthful ==
  pc = "idle" /\ fate = "certain" => performed = IF outcome = "ok" THEN 1 ELSE 0

\* Every call returns, whatever the platform answers (withRetry).
CallReturns == pc # "idle" ~> pc = "idle"

\* "Refresh itself failed; fall through to the original auth error" (http.ts:126): a call
\* reports an authentication failure only if the operation was last rejected. Not so:
\* TLC refutes it.
AuthIsReal == outcome = "authentication" => answer = "authentication"
=============================================================================
