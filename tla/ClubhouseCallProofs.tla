------------------------- MODULE ClubhouseCallProofs -------------------------
(***************************************************************************)
(* What a call of the platform may spend and what its outcome says, for     *)
(* every number of attempts, every delay and every hint.                    *)
(***************************************************************************)
EXTENDS ClubhouseCall, TLAPS

Longest == Larger(MaxDelay, MaxRetryAfter)

\* A delay is a natural number and no longer than the longest one, whatever the
\* exponential delay and the hint are (computeBackoffMs).
LEMMA DelayBounded ==
  ASSUME NEW n, NEW hint \in Nat
  PROVE  \A d \in Delays(n, hint) : d \in Nat /\ d <= Longest
BY CallAssumption, SMT DEF Delays, Larger, Smaller, Longest

\* A sleep is as long as one of these delays.
LEMMA SleepBounded ==
  ASSUME NEW n, NEW at, Sleep(at, n)
  PROVE  pause' \in Nat /\ pause' <= Longest
<1>1. PICK hint \in Hints : pause' \in Delays(n, hint)
  BY DEF Sleep
<1>2. hint \in Nat
  BY CallAssumption
<1> QED
  BY <1>1, <1>2, DelayBounded

\* Nothing has been spent before the first call.
LEMMA InitHolds == Init => IInv
BY CallAssumption DEF Init, Fresh, IInv, TypeOK, Failure, Larger

\* Every step spends what the program counter then says: one step per action.
LEMMA StepHolds == IInv /\ [Next]_vars => IInv'
<1> SUFFICES ASSUME IInv, [Next]_vars PROVE IInv'
  OBVIOUS
<1> USE CallAssumption DEF IInv, TypeOK, Failure, Counted, Smaller
<1>1. CASE Call
  BY <1>1 DEF Call, Larger
<1>2. CASE Succeed
  BY <1>2 DEF Succeed, Return, Larger
<1>3. CASE Reject
  BY <1>3 DEF Reject, Fails, Larger
<1>4. ASSUME NEW kind \in Failure, Fail(kind) PROVE IInv'
  <2>1. CASE kind = "retryable" /\ attempt < MaxAttempts /\ Sleep("backoff", attempt)
                /\ UNCHANGED outcome
    <3>1. pause' \in Nat /\ pause' <= Larger(MaxDelay, MaxRetryAfter)
      BY <2>1, SleepBounded DEF Longest
    <3>2. pc' = "backoff" /\ pauses' = attempt /\ attempt' = attempt
          /\ requests' = requests /\ refreshAttempt' = refreshAttempt /\ fate' = "open"
          /\ refreshable' = refreshable /\ outcome' = outcome /\ answer' = kind
          /\ performed' \in Nat
      BY <1>4, <2>1 DEF Fail, Fails, Sleep
    <3> QED
      BY <1>4, <2>1, <3>1, <3>2 DEF Larger, Fail
  <2>2. CASE (kind # "retryable" \/ attempt >= MaxAttempts) /\ Return(kind)
                /\ UNCHANGED <<pause, pauses>>
    BY <1>4, <2>2 DEF Fail, Fails, Return, Larger
  <2> QED
    BY <1>4, <2>1, <2>2 DEF Fail
<1>5. ASSUME NEW kind \in Failure, RepeatFails(kind) PROVE IInv'
  BY <1>5 DEF RepeatFails, Fails, Return, Larger
<1>6. CASE Retry
  BY <1>6 DEF Retry, Ask, Larger
<1>7. CASE Refreshed
  BY <1>7 DEF Refreshed, Ask, Larger
<1>8. CASE RefreshFails
  BY <1>8 DEF RefreshFails, Return, history, Larger
<1>9. CASE RefreshDelayed
  <2>1. pause' \in Nat /\ pause' <= Larger(MaxDelay, MaxRetryAfter)
    BY <1>9, SleepBounded DEF RefreshDelayed, Longest
  <2>2. pc' = "refreshBackoff" /\ pauses' = refreshAttempt
    BY <1>9 DEF RefreshDelayed, Sleep
  <2> QED
    BY <1>9, <2>1, <2>2 DEF RefreshDelayed, Larger
<1>10. CASE RefreshAgain
  BY <1>10 DEF RefreshAgain, history, Larger
<1>11. CASE UNCHANGED vars
  BY <1>11 DEF vars, history
<1> QED
  BY <1>1, <1>2, <1>3, <1>4, <1>5, <1>6, <1>7, <1>8, <1>9, <1>10, <1>11 DEF Next, Step

\* IInv holds in every state of every call.
THEOREM Inductive == Spec => []IInv
BY InitHolds, StepHolds, PTL DEF Spec

\* The state of a call keeps its shape.
THEOREM TypeInvariant == Spec => []TypeOK
<1>1. IInv => TypeOK
  BY DEF IInv
<1> QED
  BY <1>1, Inductive, PTL

\* However the refresh and the retries combine, an operation is requested at most
\* MaxAttempts times, or twice, and the call sleeps less than MaxAttempts times and never
\* longer than the longest delay.
THEOREM BudgetKeptHolds == Spec => []BudgetKept
<1>1. IInv => BudgetKept
  BY DEF IInv, BudgetKept
<1> QED
  BY <1>1, Inductive, PTL

\* Unless a request failed in a way that leaves it open, the outcome says whether the
\* operation was performed.
THEOREM OutcomeTruthfulHolds == Spec => []OutcomeTruthful
<1>1. IInv => OutcomeTruthful
  BY DEF IInv, OutcomeTruthful
<1> QED
  BY <1>1, Inductive, PTL
=============================================================================
