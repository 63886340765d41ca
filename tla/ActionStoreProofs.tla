-------------------------- MODULE ActionStoreProofs --------------------------
(***************************************************************************)
(* Proofs about ActionStore, for any number of actions and tokens, any     *)
(* finite number of rule runs and any limits.                              *)
(***************************************************************************)
EXTENDS ActionStore, FiniteSetTheorems, TLAPS

\* The records the actions write are records and caller states.
LEMMA Shapes ==
  /\ Idle \in CallerState
  /\ Idle.pc = "idle"
  /\ Idle.now = 0
  /\ Absent \in Record
  /\ Absent.status = "absent"
BY DEF Idle, CallerState, Absent, Record

LEMMA NotedShape ==
  ASSUME NEW h \in History, NEW s \in Nat, NEW x \in Nat
  PROVE  Noted(h, s, x) \in History
BY DEF Noted, History

\* What the actions do to the history keeps its shape.
LEMMA HistoryStep == TypeOK /\ [Next]_vars => history' \in [Key -> History]
<1> SUFFICES ASSUME TypeOK, [Next]_vars PROVE history' \in [Key -> History]
  OBVIOUS
<1>1. \A k \in Key : \A s, x \in {0, 1} : Noted(history[k], s, x) \in History
  BY NotedShape DEF TypeOK
<1>2. CASE UNCHANGED history
  BY <1>2 DEF TypeOK
<1>3. ASSUME NEW c \in Caller,
             Send(c) \/ Throw(c) \/ MarkExecuted(c) \/ Release(c) \/ Crash(c)
      PROVE  history' \in [Key -> History]
  <2>1. caller[c].key \in Key
    BY <1>3 DEF Send, Throw, MarkExecuted, Release, Crash, TypeOK
  <2>2. CASE Send(c)
    BY <1>1, <2>1, <2>2 DEF Send, TypeOK
  <2>3. CASE Throw(c)
    BY <1>1, <2>1, <2>3 DEF Throw, TypeOK
  <2>4. CASE MarkExecuted(c)
    BY <1>1, <2>1, <2>4 DEF MarkExecuted, TypeOK
  <2>5. CASE Release(c)
    BY <1>1, <2>1, <2>5 DEF Release, TypeOK
  <2>6. CASE Crash(c)
    BY <1>1, <2>1, <2>6 DEF Crash, TypeOK
  <2>7. QED BY <1>3, <2>2, <2>3, <2>4, <2>5, <2>6
<1>4. QED
  BY <1>2, <1>3 DEF Next, vars, Tick, Claim, Upsert, MarkFailedRead, MarkFailedWrite

-----------------------------------------------------------------------------

\* Time passes and a lease may run out: nothing else changes.
LEMMA TickStep == IInv /\ Tick => IInv'
<1> SUFFICES ASSUME IInv, Tick PROVE IInv'
  OBVIOUS
<1>1. TypeOK /\ history' \in [Key -> History]
  BY HistoryStep DEF IInv, Next
<1>2. TypeOK'
  BY <1>1 DEF TypeOK, Tick
<1>3. \A c \in Caller : caller[c].now \in Nat /\ caller[c].until \in Nat
  BY <1>1 DEF TypeOK, CallerState
<1>4. clock \in Nat /\ clock' = clock + 1
  BY <1>1 DEF Tick, TypeOK
<1>5. ClaimAgrees'
  BY <1>3, <1>4 DEF IInv, ClaimAgrees, Holds, Active, Tick
<1>6. LeaseHeld'
  <2>1. SUFFICES ASSUME NEW c \in Caller, Active(c), caller[c].until > clock + 1
                 PROVE  Owns(c, record[caller[c].key], clock + 1)
    BY <1>4 DEF LeaseHeld, Active, Owns, Tick
  <2>2. Owns(c, record[caller[c].key], clock)
    BY <1>3, <1>4, <2>1 DEF IInv, LeaseHeld
  <2>3. caller[c].key \in Key
    BY <1>1, <2>1 DEF TypeOK, Active
  <2>4. record[caller[c].key].leaseUntil = caller[c].until
    BY <2>1, <2>2 DEF IInv, ClaimAgrees, Holds, Owns
  <2>5. QED BY <2>1, <2>2, <2>4 DEF Owns
<1>7. FailedIsSpent'
  BY DEF IInv, FailedIsSpent, Tick
<1>8. QED BY <1>2, <1>5, <1>6, <1>7 DEF IInv

\* A run wins its claim with a fresh token, on a record that is absent, claimable or
\* whose lease had run out when the call read the time: no live owner loses it.
LEMMA WinStep ==
  ASSUME IInv, NEW c \in Caller, NEW k \in Key, NEW now \in Nat, now <= clock,
         ~Active(c), Win(c, k, now),
         record[k].status = "absent" \/ Claimable(record[k], now),
         UNCHANGED <<clock, history>>
  PROVE  IInv'
<1>1. TypeOK
  BY DEF IInv
<1>2. PICK t \in Token :
        /\ FreshToken(t)
        /\ record' = [record EXCEPT ![k] =
                        [status |-> "processing", attempts |-> record[k].attempts + 1,
                         claimId |-> t, leaseUntil |-> now + LeaseTime]]
        /\ caller' = [caller EXCEPT ![c] =
                        [pc |-> "working", key |-> k, claimId |-> t, now |-> 0,
                         until |-> now + LeaseTime, seen |-> 0]]
  BY DEF Win
<1>3. /\ \A j \in Key : j # k => record'[j] = record[j]
      /\ \A b \in Caller : b # c => caller'[b] = caller[b]
      /\ record'[k] = [status |-> "processing", attempts |-> record[k].attempts + 1,
                       claimId |-> t, leaseUntil |-> now + LeaseTime]
      /\ caller'[c] = [pc |-> "working", key |-> k, claimId |-> t, now |-> 0,
                       until |-> now + LeaseTime, seen |-> 0]
  BY <1>1, <1>2 DEF TypeOK
<1>4. TypeOK'
  <2>1. record[k].attempts \in Nat /\ clock \in Nat
    BY <1>1 DEF TypeOK, Record
  <2>2. record'[k] \in Record
    BY <1>3, <2>1, NumberAssumption DEF Record
  <2>3. caller'[c] \in CallerState
    BY <1>3, NumberAssumption DEF CallerState
  <2>4. record' \in [Key -> Record]
    BY <1>1, <1>2, <1>3, <2>2 DEF TypeOK
  <2>5. caller' \in [Caller -> CallerState]
    BY <1>1, <1>2, <1>3, <2>3 DEF TypeOK
  <2>6. QED BY <1>1, <1>3, <2>1, <2>4, <2>5 DEF TypeOK
<1>5. /\ Active(c)'
      /\ \A b \in Caller : b # c => Active(b)' = Active(b)
  BY <1>3 DEF Active
<1>6. \A b \in Caller : Active(b) => caller[b].key \in Key
  BY <1>1 DEF TypeOK, Active
<1>7. \A b \in Caller : b # c => caller[b].claimId # t
  BY <1>2 DEF FreshToken
<1>8. \A b \in Caller :
        b # c /\ Active(b) /\ caller[b].until > clock => caller[b].key # k
  \* a live owner's record is not claimable
  <2>1. SUFFICES ASSUME NEW b \in Caller, b # c, Active(b), caller[b].until > clock,
                        caller[b].key = k
                 PROVE  FALSE
    OBVIOUS
  <2>2. Owns(b, record[k], clock)
    BY <2>1 DEF IInv, LeaseHeld
  <2>3. record[k].leaseUntil \in Nat /\ clock \in Nat
    BY <1>1 DEF TypeOK, Record
  <2>4. QED BY <2>2, <2>3 DEF Owns, Claimable
<1>9. ClaimAgrees'
  <2>1. caller'[c].now <= clock'
    BY <1>1, <1>3 DEF TypeOK
  <2>2. /\ record'[k].leaseUntil = caller'[c].until
        /\ caller'[c].key = k
        /\ caller'[c].pc # "failing"
        /\ caller'[c].claimId = t
    BY <1>3
  <2>3. \A b \in Caller : b # c /\ Holds(b, caller[b].key)' =>
          caller[b].key # k /\ Holds(b, caller[b].key)
    BY <1>3, <1>5, <1>6, <1>7 DEF Holds
  <2>4. \A b \in Caller : b # c /\ Holds(b, caller[b].key)' =>
          /\ record'[caller[b].key] = record[caller[b].key]
          /\ Holds(b, caller[b].key)
    BY <1>3, <1>6, <2>3 DEF Holds
  <2>5. \A b \in Caller : b # c =>
          /\ caller'[b].now <= clock'
          /\ Holds(b, caller[b].key)' =>
               /\ record'[caller'[b].key].leaseUntil = caller'[b].until
               /\ caller'[b].pc = "failing" =>
                    caller'[b].seen = record'[caller'[b].key].attempts
    BY <1>3, <2>4 DEF IInv, ClaimAgrees
  <2>6. \A a, b \in Caller :
          a # b /\ Active(a)' /\ Active(b)' => caller'[a].claimId # caller'[b].claimId
    BY <1>3, <1>5, <1>7, <2>2 DEF IInv, ClaimAgrees
  <2>7. \A b \in Caller : b # c => caller'[b].key = caller[b].key
    BY <1>3
  <2>8. QED BY <2>1, <2>2, <2>5, <2>6, <2>7 DEF ClaimAgrees
<1>10. LeaseHeld'
  <2>1. SUFFICES ASSUME NEW b \in Caller, Active(b)', caller'[b].until > clock
                 PROVE  Owns(b, record[caller[b].key], clock)'
    BY DEF LeaseHeld
  <2>2. CASE b = c
    BY <1>3, <2>1, <2>2 DEF Owns
  <2>3. CASE b # c
    <3>1. Active(b) /\ caller[b].until > clock /\ caller'[b] = caller[b]
      BY <1>3, <1>5, <2>1, <2>3
    <3>2. caller[b].key # k /\ caller[b].key \in Key
      BY <1>6, <1>8, <2>3, <3>1
    <3>3. Owns(b, record[caller[b].key], clock)
      BY <3>1 DEF IInv, LeaseHeld
    <3>4. QED BY <1>3, <3>1, <3>2, <3>3 DEF Owns
  <2>4. QED BY <2>2, <2>3
<1>11. FailedIsSpent'
  BY <1>3 DEF IInv, FailedIsSpent
<1>12. QED BY <1>4, <1>9, <1>10, <1>11 DEF IInv

\* A run moves on without touching the records.
LEMMA MoveStep ==
  ASSUME IInv, NEW c \in Caller, NEW r \in CallerState,
         caller' = [caller EXCEPT ![c] = r],
         UNCHANGED <<record, clock>>, history' \in [Key -> History],
         r.now <= clock,
         \/ r.pc = "idle"
         \/ r.pc = "upserting" /\ r.key \in Key
         \/ /\ Active(c)
            /\ r.pc \in {"working", "sent", "thrown", "failing"}
            /\ r.key = caller[c].key
            /\ r.claimId = caller[c].claimId
            /\ r.until = caller[c].until
            /\ r.pc = "failing" => r.seen = record[caller[c].key].attempts
  PROVE  IInv'
<1>1. TypeOK
  BY DEF IInv
<1>2. /\ \A b \in Caller : b # c => caller'[b] = caller[b]
      /\ caller'[c] = r
  BY <1>1 DEF TypeOK
<1>3. /\ caller' \in [Caller -> CallerState]
      /\ record' \in [Key -> Record]
      /\ clock' \in Nat
  BY <1>1 DEF TypeOK
<1>4. /\ \A b \in Caller : b # c => Active(b)' = Active(b)
      /\ Active(c)' => /\ Active(c)
                       /\ caller'[c].key = caller[c].key
                       /\ caller'[c].claimId = caller[c].claimId
                       /\ caller'[c].until = caller[c].until
  BY <1>2 DEF Active
<1>5. TypeOK'
  <2>1. caller'[c].pc # "idle" => caller'[c].key \in Key
    BY <1>1, <1>2 DEF TypeOK, Active
  <2>2. caller'[c].pc \notin {"idle", "upserting"} => caller'[c].claimId \in Token
    BY <1>1, <1>2 DEF TypeOK, Active
  <2>3. QED BY <1>1, <1>2, <1>3, <2>1, <2>2 DEF TypeOK
<1>6. \A b \in Caller : Active(b)' =>
        /\ Holds(b, caller[b].key)' => Holds(b, caller[b].key)
        /\ caller'[b].key = caller[b].key
        /\ caller'[b].until = caller[b].until
        /\ caller'[b].claimId = caller[b].claimId
  BY <1>2, <1>4 DEF Holds
<1>7. ClaimAgrees'
  <2>1. \A b \in Caller : caller'[b].now <= clock'
    BY <1>2 DEF IInv, ClaimAgrees
  <2>2. \A b \in Caller : Holds(b, caller[b].key)' =>
          record'[caller'[b].key].leaseUntil = caller'[b].until
    BY <1>6 DEF IInv, ClaimAgrees, Holds
  <2>3. \A b \in Caller : Holds(b, caller[b].key)' /\ caller'[b].pc = "failing" =>
          caller'[b].seen = record'[caller'[b].key].attempts
    <3>1. \A b \in Caller : b # c /\ Holds(b, caller[b].key)' => Holds(b, caller[b].key)
      BY <1>6 DEF Holds
    <3>2. caller'[c].pc = "failing" => caller'[c].seen = record'[caller'[c].key].attempts
      BY <1>2
    <3>3. QED BY <1>2, <3>1, <3>2 DEF IInv, ClaimAgrees
  <2>4. \A a, b \in Caller :
          a # b /\ Active(a)' /\ Active(b)' => caller'[a].claimId # caller'[b].claimId
    BY <1>4, <1>6 DEF IInv, ClaimAgrees
  <2>5. QED BY <2>1, <2>2, <2>3, <2>4 DEF ClaimAgrees
<1>8. LeaseHeld'
  <2>1. \A b \in Caller : Active(b)' => Active(b)
    BY <1>4
  <2>2. QED BY <1>6, <2>1 DEF IInv, LeaseHeld, Owns
<1>9. FailedIsSpent'
  BY DEF IInv, FailedIsSpent
<1>10. QED BY <1>5, <1>7, <1>8, <1>9 DEF IInv

\* A run ends without touching the records.
LEMMA StopStep ==
  ASSUME IInv, NEW c \in Caller,
         caller' = [caller EXCEPT ![c] = Idle],
         UNCHANGED <<record, clock>>, history' \in [Key -> History]
  PROVE  IInv'
<1>1. Idle.now <= clock
  BY Shapes DEF IInv, TypeOK
<1>2. QED BY <1>1, Shapes, MoveStep

\* A run closes its record, or finds that it does not own it, and ends.
LEMMA CloseStep ==
  ASSUME IInv, NEW c \in Caller, Active(c), NEW now \in Nat,
         NEW s \in {"pending", "executed", "failed"},
         CloseAs(c, s, now), history' \in [Key -> History],
         Owns(c, record[caller[c].key], now) /\ s = "failed" =>
           record[caller[c].key].attempts >= MaxAttempts
  PROVE  IInv'
<1> DEFINE k == caller[c].key
<1>1. TypeOK /\ k \in Key
  BY DEF IInv, TypeOK, Active
<1>2. CASE ~Owns(c, record[k], now)
  <2>1. caller' = [caller EXCEPT ![c] = Idle] /\ UNCHANGED <<record, clock>>
    BY <1>2 DEF CloseAs
  <2>2. QED BY <2>1, StopStep
<1>3. CASE Owns(c, record[k], now)
  <2>1. /\ record' = [record EXCEPT ![k] = [record[k] EXCEPT !.status = s,
                                                             !.leaseUntil = 0]]
        /\ caller' = [caller EXCEPT ![c] = Idle]
        /\ UNCHANGED clock
    BY <1>3 DEF CloseAs
  <2>2. /\ record'[k] = [record[k] EXCEPT !.status = s, !.leaseUntil = 0]
        /\ \A j \in Key : j # k => record'[j] = record[j]
        /\ caller'[c] = Idle
        /\ \A b \in Caller : b # c => caller'[b] = caller[b]
    BY <1>1, <2>1 DEF TypeOK
  <2>3. /\ record'[k] \in Record
        /\ record'[k].status = s
        /\ record'[k].attempts = record[k].attempts
    <3>1. record[k] \in Record
      BY <1>1 DEF TypeOK
    <3>2. \A r \in Record :
            /\ [r EXCEPT !.status = s, !.leaseUntil = 0] \in Record
            /\ [r EXCEPT !.status = s, !.leaseUntil = 0].status = s
            /\ [r EXCEPT !.status = s, !.leaseUntil = 0].attempts = r.attempts
      BY DEF Record
    <3>3. QED BY <2>2, <3>1, <3>2
  <2>4. TypeOK'
    <3>1. record' \in [Key -> Record]
      BY <1>1, <2>1, <2>2, <2>3 DEF TypeOK
    <3>2. caller' \in [Caller -> CallerState]
      BY <1>1, <2>1, Shapes DEF TypeOK
    <3>3. QED BY <1>1, <2>1, <2>2, <3>1, <3>2, Shapes DEF TypeOK
  <2>5. ~Active(c)' /\ \A b \in Caller : b # c => Active(b)' = Active(b)
    BY <2>2, Shapes DEF Active
  <2>6. \A b \in Caller : b # c /\ Active(b) =>
          ~(caller[b].key = k /\ record[k].claimId = caller[b].claimId)
    BY <1>3 DEF IInv, ClaimAgrees, Owns
  <2>7. \A b \in Caller : Active(b) => caller[b].key \in Key
    BY <1>1 DEF TypeOK, Active
  <2>8. \A b \in Caller : b # c /\ Holds(b, caller[b].key)' =>
          caller[b].key # k /\ Holds(b, caller[b].key)
    <3>1. ASSUME NEW b \in Caller, b # c, Holds(b, caller[b].key)'
          PROVE  caller[b].key # k /\ Holds(b, caller[b].key)
      <4>1. Active(b) /\ caller'[b] = caller[b] /\ caller[b].key \in Key
        BY <2>2, <2>5, <2>7, <3>1 DEF Holds
      <4>2. s # "processing"
        OBVIOUS
      <4>3. caller[b].key # k
        BY <2>3, <3>1, <4>1, <4>2 DEF Holds
      <4>4. record'[caller[b].key] = record[caller[b].key]
        BY <2>2, <4>1, <4>3
      <4>5. QED BY <3>1, <4>1, <4>3, <4>4 DEF Holds
    <3>2. QED BY <3>1
  <2>9. ClaimAgrees'
    <3>1. caller'[c].now <= clock'
      BY <1>1, <2>1, <2>2, Shapes DEF TypeOK
    <3>2. ~Holds(c, caller[c].key)'
      BY <2>5 DEF Holds
    <3>3. \A b \in Caller : Holds(b, caller[b].key)' =>
            /\ record'[caller'[b].key].leaseUntil = caller'[b].until
            /\ caller'[b].pc = "failing" => caller'[b].seen = record'[caller'[b].key].attempts
      <4>1. \A b \in Caller : Holds(b, caller[b].key)' =>
              /\ b # c
              /\ caller'[b] = caller[b]
              /\ record'[caller[b].key] = record[caller[b].key]
              /\ Holds(b, caller[b].key)
        BY <2>2, <2>7, <2>8, <3>2 DEF Holds
      <4>2. QED BY <4>1 DEF IInv, ClaimAgrees
    <3>4. QED BY <2>1, <2>2, <2>5, <3>1, <3>3 DEF IInv, ClaimAgrees
  <2>10. LeaseHeld'
    <3>1. SUFFICES ASSUME NEW b \in Caller, b # c, Active(b), caller[b].until > clock
                   PROVE  Owns(b, record[caller[b].key], clock)'
      BY <2>1, <2>2, <2>5 DEF LeaseHeld
    <3>2. Owns(b, record[caller[b].key], clock)
      BY <3>1 DEF IInv, LeaseHeld
    <3>3. caller[b].key # k
      BY <2>6, <3>1, <3>2 DEF Owns
    <3>4. QED BY <2>1, <2>2, <2>7, <3>1, <3>2, <3>3 DEF Owns
  <2>11. FailedIsSpent'
    BY <1>3, <2>2, <2>3 DEF IInv, FailedIsSpent
  <2>12. QED BY <2>4, <2>9, <2>10, <2>11 DEF IInv
<1>4. QED BY <1>2, <1>3

LEMMA InductiveStep == IInv /\ [Next]_vars => IInv'
<1> SUFFICES ASSUME IInv, [Next]_vars PROVE IInv'
  OBVIOUS
<1>t. TypeOK /\ history' \in [Key -> History] /\ clock \in Nat
  BY HistoryStep DEF IInv, TypeOK
<1>0. CASE Tick
  BY <1>0, TickStep
<1>1. ASSUME NEW c \in Caller, NEW k \in Key, Claim(c, k) PROVE IInv'
  <2>1. ~Active(c)
    BY <1>1 DEF Claim, Active
  <2>2. CASE Claimable(record[k], clock)
    BY <1>1, <1>t, <2>1, <2>2, WinStep DEF Claim
  <2>3. CASE ~Claimable(record[k], clock)
    <3> DEFINE r == [pc |-> "upserting", key |-> k, claimId |-> None, now |-> clock,
                     until |-> 0, seen |-> 0]
    <3>1. r \in CallerState /\ r.pc = "upserting" /\ r.key = k /\ r.now <= clock
      BY <1>t DEF CallerState
    <3>2. caller' = [caller EXCEPT ![c] = r] /\ UNCHANGED <<record, clock>>
      BY <1>1, <2>3 DEF Claim
    <3> HIDE DEF r
    <3>3. QED BY <1>t, <3>1, <3>2, MoveStep
  <2>4. QED BY <2>2, <2>3
<1>2. ASSUME NEW c \in Caller, Upsert(c) PROVE IInv'
  <2>1. ~Active(c) /\ caller[c].key \in Key
    BY <1>2, <1>t DEF Upsert, Active, TypeOK
  <2>2. caller[c].now \in Nat /\ caller[c].now <= clock
    BY <1>t DEF TypeOK, CallerState, IInv, ClaimAgrees
  <2>3. CASE record[caller[c].key].status = "absent"
             \/ Claimable(record[caller[c].key], caller[c].now)
    BY <1>2, <2>1, <2>2, <2>3, WinStep DEF Upsert
  <2>4. CASE ~(record[caller[c].key].status = "absent"
               \/ Claimable(record[caller[c].key], caller[c].now))
    <3>1. caller' = [caller EXCEPT ![c] = Idle] /\ UNCHANGED <<record, clock>>
      BY <1>2, <2>4 DEF Upsert
    <3>2. QED BY <1>t, <3>1, StopStep
  <2>5. QED BY <2>3, <2>4
<1>3. ASSUME NEW c \in Caller, Send(c) \/ Throw(c) PROVE IInv'
  <2>1. Active(c)
    BY <1>3 DEF Send, Throw, Active
  <2>2. PICK pc \in {"sent", "thrown"} :
          caller' = [caller EXCEPT ![c] = [caller[c] EXCEPT !.pc = pc]]
    BY <1>3 DEF Send, Throw
  <2>3. /\ caller[c] \in CallerState
        /\ caller[c].now <= clock
        /\ UNCHANGED <<record, clock>>
    BY <1>3, <1>t DEF Send, Throw, TypeOK, IInv, ClaimAgrees
  <2> DEFINE r == [caller[c] EXCEPT !.pc = pc]
  <2>4. /\ r \in CallerState /\ r.pc = pc /\ r.key = caller[c].key
        /\ r.claimId = caller[c].claimId /\ r.until = caller[c].until
        /\ r.now = caller[c].now
    BY <2>3 DEF CallerState
  <2> HIDE DEF r
  <2>5. caller' = [caller EXCEPT ![c] = r]
    BY <2>2 DEF r
  <2>6. QED BY <1>t, <2>1, <2>3, <2>4, <2>5, MoveStep
<1>4. ASSUME NEW c \in Caller, MarkExecuted(c) PROVE IInv'
  BY <1>4, <1>t, CloseStep DEF MarkExecuted, Active
<1>5. ASSUME NEW c \in Caller, MarkFailedRead(c) PROVE IInv'
  <2> DEFINE k == caller[c].key
             r == [caller[c] EXCEPT !.pc = "failing", !.now = clock,
                                    !.seen = record[k].attempts]
  <2>1. Active(c) /\ k \in Key /\ UNCHANGED <<record, clock>>
    BY <1>5, <1>t DEF MarkFailedRead, Active, TypeOK
  <2>2. CASE Owns(c, record[k], clock)
    <3>1. caller[c] \in CallerState /\ record[k].attempts \in Nat
      BY <1>t, <2>1 DEF TypeOK, Record
    <3>2. /\ r \in CallerState /\ r.pc = "failing" /\ r.key = caller[c].key
          /\ r.claimId = caller[c].claimId /\ r.until = caller[c].until
          /\ r.now = clock /\ r.seen = record[caller[c].key].attempts
      BY <1>t, <3>1 DEF CallerState
    <3>3. caller' = [caller EXCEPT ![c] = r]
      BY <1>5, <2>2 DEF MarkFailedRead
    <3> HIDE DEF r
    <3>4. r.now <= clock
      BY <1>t, <3>2
    <3>5. QED BY <1>t, <2>1, <3>2, <3>3, <3>4, MoveStep
  <2>3. CASE ~Owns(c, record[k], clock)
    <3>1. caller' = [caller EXCEPT ![c] = Idle]
      BY <1>5, <2>3 DEF MarkFailedRead
    <3>2. QED BY <1>t, <2>1, <3>1, StopStep
  <2>4. QED BY <2>2, <2>3
<1>6. ASSUME NEW c \in Caller, MarkFailedWrite(c) PROVE IInv'
  <2> DEFINE s == IF caller[c].seen >= MaxAttempts THEN "failed" ELSE "pending"
  <2>1. Active(c) /\ caller[c].pc = "failing" /\ CloseAs(c, s, caller[c].now)
    BY <1>6 DEF MarkFailedWrite, Active
  <2>2. s \in {"pending", "executed", "failed"} /\ caller[c].now \in Nat
    BY <1>t DEF TypeOK, CallerState
  <2>3. Owns(c, record[caller[c].key], caller[c].now) =>
          caller[c].seen = record[caller[c].key].attempts
    BY <2>1 DEF IInv, ClaimAgrees, Owns, Holds
  <2>4. s = "failed" => caller[c].seen >= MaxAttempts
    OBVIOUS
  <2> HIDE DEF s
  <2>5. QED BY <1>t, <2>1, <2>2, <2>3, <2>4, CloseStep
<1>7. ASSUME NEW c \in Caller, Release(c) PROVE IInv'
  BY <1>7, <1>t, CloseStep DEF Release, Active
<1>8. ASSUME NEW c \in Caller, Crash(c) PROVE IInv'
  <2>1. caller' = [caller EXCEPT ![c] = Idle] /\ UNCHANGED <<record, clock>>
    BY <1>8 DEF Crash
  <2>2. QED BY <1>t, <2>1, StopStep
<1>9. CASE UNCHANGED vars
  BY <1>9 DEF vars, IInv, TypeOK, ClaimAgrees, LeaseHeld, FailedIsSpent, Holds, Owns, Active
<1>10. QED
  BY <1>0, <1>1, <1>2, <1>3, <1>4, <1>5, <1>6, <1>7, <1>8, <1>9 DEF Next

\* The inductive invariant holds: a run whose lease has not run out still owns its
\* record, and what it remembers of the record is right.
THEOREM Inductive == Spec => []IInv
<1>1. Init => IInv
  <2>1. SUFFICES ASSUME Init PROVE IInv
    OBVIOUS
  <2>2. TypeOK
    BY <2>1, Shapes DEF Init, TypeOK, History
  <2>3. /\ \A c \in Caller : ~Active(c) /\ caller[c].now <= clock
        /\ \A k \in Key : record[k].status = "absent"
    BY <2>1, Shapes DEF Init, Active
  <2>4. QED BY <2>2, <2>3 DEF IInv, ClaimAgrees, LeaseHeld, FailedIsSpent, Holds
<1>2. QED BY <1>1, InductiveStep, PTL DEF Spec

\* Records and rule runs keep the shape the schema and the code give them.
THEOREM TypeInvariant == Spec => []TypeOK
<1>1. IInv => TypeOK
  BY DEF IInv
<1>2. QED BY <1>1, Inductive, PTL

\* Two runs that own one record hold one token, which no two runs do.
LEMMA OwnersExclude == IInv => ExclusiveWork
<1> SUFFICES ASSUME IInv PROVE ExclusiveWork
  OBVIOUS
<1>1. SUFFICES ASSUME NEW b \in Caller, NEW c \in Caller, b # c, Active(b), Active(c),
                      caller[b].key = caller[c].key,
                      caller[b].until > clock, caller[c].until > clock
               PROVE  FALSE
  <2>1. clock \in Nat /\ \A c \in Caller : caller[c].until \in Nat
    BY DEF IInv, TypeOK, CallerState
  <2>2. QED BY <2>1 DEF ExclusiveWork
<1>2. caller[b].claimId = caller[c].claimId
  BY <1>1 DEF IInv, LeaseHeld, Owns
<1>3. QED BY <1>1, <1>2 DEF IInv, ClaimAgrees

\* Two runs are between claim and the end of one action only after one of them has
\* overrun its lease.
THEOREM ExclusiveWorkHolds == Spec => []ExclusiveWork
BY OwnersExclude, Inductive, PTL

\* An executed or failed action is never touched again.
THEOREM TerminalIsFinalHolds == Spec => TerminalIsFinal
<1> DEFINE Final == \A k \in Key :
             record[k].status \in {"executed", "failed"} => record'[k] = record[k]
<1>1. ASSUME IInv, [Next]_vars PROVE Final
  <2>t. TypeOK
    BY <1>1 DEF IInv
  <2>1. SUFFICES ASSUME NEW k \in Key, record[k].status \in {"executed", "failed"}
                 PROVE  record'[k] = record[k]
    OBVIOUS
  <2>2. ASSUME NEW now PROVE ~Claimable(record[k], now) /\ record[k].status # "absent"
    <3>1. record[k].attempts \in Nat
      BY <2>t DEF TypeOK, Record
    <3>2. record[k].status = "failed" => record[k].attempts >= MaxAttempts
      BY <1>1 DEF IInv, FailedIsSpent
    <3>3. QED BY <2>1, <3>1, <3>2, NumberAssumption DEF Claimable
  <2>3. ASSUME NEW c \in Caller, NEW s, NEW now, CloseAs(c, s, now)
        PROVE  record'[k] = record[k]
    <3>1. CASE caller[c].key = k
      BY <2>1, <2>3, <3>1 DEF CloseAs, Owns
    <3>2. CASE caller[c].key # k
      BY <2>3, <2>t, <3>2 DEF CloseAs, TypeOK
    <3>3. QED BY <3>1, <3>2
  <2>4. ASSUME NEW c \in Caller, NEW j \in Key, NEW now, Win(c, j, now), j # k
        PROVE  record'[k] = record[k]
    BY <2>4, <2>t DEF Win, TypeOK
  <2>5. ASSUME NEW c \in Caller, NEW j \in Key, Claim(c, j) PROVE record'[k] = record[k]
    BY <2>2, <2>4, <2>5 DEF Claim
  <2>6. ASSUME NEW c \in Caller, Upsert(c) PROVE record'[k] = record[k]
    <3>1. caller[c].key \in Key
      BY <2>6, <2>t DEF Upsert, TypeOK
    <3>2. QED BY <2>2, <2>4, <2>6, <3>1 DEF Upsert
  <2>7. ASSUME NEW c \in Caller, MarkExecuted(c) \/ MarkFailedWrite(c) \/ Release(c)
        PROVE  record'[k] = record[k]
    BY <2>3, <2>7 DEF MarkExecuted, MarkFailedWrite, Release
  <2>8. ASSUME NEW c \in Caller, Send(c) \/ Throw(c) \/ MarkFailedRead(c) \/ Crash(c)
        PROVE  record'[k] = record[k]
    BY <2>8 DEF Send, Throw, MarkFailedRead, Crash
  <2>9. CASE Tick \/ UNCHANGED vars
    BY <2>9 DEF Tick, vars
  <2>10. QED BY <1>1, <2>5, <2>6, <2>7, <2>8, <2>9 DEF Next
<1>2. IInv /\ [Next]_vars => [Final]_vars
  BY <1>1
<1>3. QED BY <1>2, Inductive, PTL DEF Spec, TerminalIsFinal

-----------------------------------------------------------------------------

\* Effects are counted: the runs that have still to record theirs are finitely many.
LEMMA PerformedFinite ==
  \A k : IsFiniteSet(Performed(k)) /\ Cardinality(Performed(k)) \in Nat
<1>1. ASSUME NEW k PROVE IsFiniteSet(Performed(k))
  BY FS_Subset, FiniteAssumption DEF Performed
<1>2. QED BY <1>1, FS_CardinalityType

\* How a step that sets one run changes their number.
Counts(r, k) == IF r.pc = "sent" /\ r.key = k THEN 1 ELSE 0

LEMMA OnePerforms ==
  ASSUME TypeOK, NEW c \in Caller, NEW r, caller' = [caller EXCEPT ![c] = r],
         NEW k \in Key
  PROVE  Cardinality(Performed(k)') =
           Cardinality(Performed(k)) + Counts(r, k) - Counts(caller[c], k)
<1> DEFINE is == r.pc = "sent" /\ r.key = k
<1>1. Performed(k)' = (IF is THEN Performed(k) \cup {c} ELSE Performed(k) \ {c})
  BY DEF TypeOK, Performed
<1>2. c \in Performed(k) <=> caller[c].pc = "sent" /\ caller[c].key = k
  BY DEF Performed
<1>3. IsFiniteSet(Performed(k)) /\ Cardinality(Performed(k)) \in Nat
  BY PerformedFinite
<1>4. /\ Cardinality(Performed(k) \cup {c}) =
           IF c \in Performed(k) THEN Cardinality(Performed(k))
                                 ELSE Cardinality(Performed(k)) + 1
      /\ Cardinality(Performed(k) \ {c}) =
           IF c \in Performed(k) THEN Cardinality(Performed(k)) - 1
                                 ELSE Cardinality(Performed(k))
  BY <1>3, FS_AddElement, FS_RemoveElement
<1>5. CASE is
  BY <1>1, <1>2, <1>3, <1>4, <1>5 DEF Counts
<1>6. CASE ~is
  BY <1>1, <1>2, <1>3, <1>4, <1>6 DEF Counts
<1>7. QED BY <1>5, <1>6

\* What EffectsAccounted says of one key.
Recorded(k) == IF record[k].status = "executed" THEN 1 ELSE 0

Accounted(k) == history[k].sent = history[k].excused + Cardinality(Performed(k)) + Recorded(k)

LEMMA AccountedNumbers ==
  TypeOK => \A k \in Key : /\ history[k].sent \in Nat /\ history[k].excused \in Nat
                           /\ Cardinality(Performed(k)) \in Nat /\ Recorded(k) \in Nat
BY PerformedFinite DEF TypeOK, History, Recorded

\* A step of a run that performs nothing and has nothing to record.
LEMMA NothingPerformed ==
  ASSUME TypeOK, NEW c \in Caller, NEW r, caller' = [caller EXCEPT ![c] = r],
         caller[c].pc # "sent", r.pc # "sent", UNCHANGED history,
         NEW k \in Key, Recorded(k)' = Recorded(k), Accounted(k)
  PROVE  Accounted(k)'
<1>1. Cardinality(Performed(k)') = Cardinality(Performed(k))
  <2>1. Cardinality(Performed(k)') =
          Cardinality(Performed(k)) + Counts(r, k) - Counts(caller[c], k)
    BY OnePerforms
  <2>2. Counts(r, k) = 0 /\ Counts(caller[c], k) = 0
    BY DEF Counts
  <2>3. QED BY <2>1, <2>2, AccountedNumbers
<1>2. QED BY <1>1 DEF Accounted

\* A step of a run that has performed its effect and goes on without having recorded it,
\* or with its record closed.
LEMMA PerformedEnds ==
  ASSUME TypeOK, NEW c \in Caller, NEW r, caller' = [caller EXCEPT ![c] = r],
         caller[c].pc = "sent", r.pc # "sent",
         NEW j \in Key, j = caller[c].key, NEW n \in {0, 1},
         history' = [history EXCEPT ![j] = Noted(history[j], 0, n)],
         NEW k \in Key, Accounted(k),
         Recorded(k)' = IF k = j THEN Recorded(k) + (1 - n) ELSE Recorded(k)
  PROVE  Accounted(k)'
<1>1. Cardinality(Performed(k)') =
        IF k = j THEN Cardinality(Performed(k)) - 1 ELSE Cardinality(Performed(k))
  <2>1. Cardinality(Performed(k)') =
          Cardinality(Performed(k)) + Counts(r, k) - Counts(caller[c], k)
    BY OnePerforms
  <2>2. Counts(r, k) = 0 /\ Counts(caller[c], k) = (IF k = j THEN 1 ELSE 0)
    BY DEF Counts
  <2>3. QED BY <2>1, <2>2, AccountedNumbers
<1>2. /\ history'[k].sent = history[k].sent
      /\ history'[k].excused = IF k = j THEN history[k].excused + n ELSE history[k].excused
  BY AccountedNumbers DEF TypeOK, Noted
<1>3. QED BY <1>1, <1>2, AccountedNumbers DEF Accounted

\* Every effect is accounted for, whatever the runs do.
LEMMA EffectsStep == IInv /\ EffectsAccounted /\ [Next]_vars => EffectsAccounted'
<1> SUFFICES ASSUME IInv, EffectsAccounted, [Next]_vars, NEW k \in Key PROVE Accounted(k)'
  BY DEF EffectsAccounted, Accounted, Recorded
<1>t. TypeOK /\ Accounted(k)
  BY DEF IInv, EffectsAccounted, Accounted, Recorded
<1>s. UNCHANGED record => Recorded(k)' = Recorded(k)
  BY DEF Recorded
<1>u. UNCHANGED <<record, caller, history>> => Accounted(k)'
  BY <1>t DEF Accounted, Recorded, Performed
<1>w. ASSUME NEW c \in Caller, NEW j \in Key, NEW now, Win(c, j, now),
             record[j].status = "absent" \/ Claimable(record[j], now),
             caller[c].pc # "sent", UNCHANGED history
      PROVE  Accounted(k)'
  <2> DEFINE q(token) == [pc |-> "working", key |-> j, claimId |-> token, now |-> 0,
                          until |-> now + LeaseTime, seen |-> 0]
  <2>1. PICK token \in Token :
          /\ record' = [record EXCEPT ![j] =
                          [status |-> "processing", attempts |-> record[j].attempts + 1,
                           claimId |-> token, leaseUntil |-> now + LeaseTime]]
          /\ caller' = [caller EXCEPT ![c] = q(token)]
    BY <1>w DEF Win
  <2>2. q(token).pc # "sent"
    OBVIOUS
  <2> HIDE DEF q
  <2>3. Recorded(k)' = Recorded(k)
    BY <1>t, <1>w, <2>1 DEF TypeOK, Recorded, Claimable
  <2>4. QED BY <1>t, <1>w, <2>1, <2>2, <2>3, NothingPerformed
<1>i. Idle.pc # "sent"
  BY Shapes
<1>1. ASSUME NEW c \in Caller, NEW j \in Key, Claim(c, j) PROVE Accounted(k)'
  <2>1. CASE Claimable(record[j], clock)
    BY <1>1, <1>w, <2>1 DEF Claim
  <2>2. CASE ~Claimable(record[j], clock)
    <3> DEFINE q == [pc |-> "upserting", key |-> j, claimId |-> None, now |-> clock,
                     until |-> 0, seen |-> 0]
    <3>1. caller' = [caller EXCEPT ![c] = q] /\ UNCHANGED <<record, history>>
          /\ caller[c].pc # "sent"
      BY <1>1, <2>2 DEF Claim
    <3>2. q.pc # "sent"
      OBVIOUS
    <3> HIDE DEF q
    <3>3. QED BY <1>s, <1>t, <3>1, <3>2, NothingPerformed
  <2>3. QED BY <2>1, <2>2
<1>2. ASSUME NEW c \in Caller, Upsert(c) PROVE Accounted(k)'
  <2>1. caller[c].key \in Key /\ caller[c].pc # "sent"
    BY <1>2, <1>t DEF Upsert, TypeOK
  <2>2. CASE record[caller[c].key].status = "absent"
             \/ Claimable(record[caller[c].key], caller[c].now)
    BY <1>2, <1>w, <2>1, <2>2 DEF Upsert
  <2>3. CASE ~(record[caller[c].key].status = "absent"
               \/ Claimable(record[caller[c].key], caller[c].now))
    BY <1>2, <1>i, <1>s, <1>t, <2>1, <2>3, NothingPerformed DEF Upsert
  <2>4. QED BY <2>2, <2>3
<1>3. ASSUME NEW c \in Caller, Send(c) PROVE Accounted(k)'
  <2>1. PICK j \in Key : j = caller[c].key
    BY <1>3, <1>t DEF Send, TypeOK
  <2>2. PICK lost \in BOOLEAN :
          /\ caller' = [caller EXCEPT ![c] = [caller[c] EXCEPT !.pc = IF lost THEN "thrown"
                                                                              ELSE "sent"]]
          /\ history' = [history EXCEPT ![j] = Noted(history[j], 1, IF lost THEN 1 ELSE 0)]
    BY <1>3, <2>1 DEF Send
  <2> DEFINE q == [caller[c] EXCEPT !.pc = IF lost THEN "thrown" ELSE "sent"]
  <2>3. q.pc = (IF lost THEN "thrown" ELSE "sent") /\ q.key = j
    BY <1>t, <2>1 DEF TypeOK, CallerState
  <2>4. caller' = [caller EXCEPT ![c] = q] /\ caller[c].pc # "sent" /\ UNCHANGED record
    BY <1>3, <2>2 DEF Send
  <2> HIDE DEF q
  <2>5. Cardinality(Performed(k)') =
          IF k = j /\ ~lost THEN Cardinality(Performed(k)) + 1 ELSE Cardinality(Performed(k))
    <3>1. Cardinality(Performed(k)') =
            Cardinality(Performed(k)) + Counts(q, k) - Counts(caller[c], k)
      BY <1>t, <2>4, OnePerforms
    <3>2. Counts(q, k) = (IF k = j /\ ~lost THEN 1 ELSE 0) /\ Counts(caller[c], k) = 0
      BY <2>3, <2>4 DEF Counts
    <3>3. QED BY <1>t, <3>1, <3>2, AccountedNumbers
  <2>6. /\ history'[k].sent = IF k = j THEN history[k].sent + 1 ELSE history[k].sent
        /\ history'[k].excused =
             IF k = j /\ lost THEN history[k].excused + 1 ELSE history[k].excused
    BY <1>t, <2>2, AccountedNumbers DEF TypeOK, Noted
  <2>7. QED BY <1>s, <1>t, <2>4, <2>5, <2>6, AccountedNumbers DEF Accounted
<1>4. ASSUME NEW c \in Caller, Throw(c) PROVE Accounted(k)'
  <2>1. PICK j \in Key : j = caller[c].key
    BY <1>4, <1>t DEF Throw, TypeOK
  <2> DEFINE q == [caller[c] EXCEPT !.pc = "thrown"]
  <2>2. q.pc = "thrown"
    BY <1>t DEF TypeOK, CallerState
  <2>3. /\ caller' = [caller EXCEPT ![c] = q] /\ UNCHANGED record
        /\ history' = [history EXCEPT ![j] =
                         Noted(history[j], 0, IF caller[c].pc = "sent" THEN 1 ELSE 0)]
    BY <1>4, <2>1 DEF Throw
  <2> HIDE DEF q
  <2>4. CASE caller[c].pc = "sent"
    <3>1. Recorded(k)' = IF k = j THEN Recorded(k) + (1 - 1) ELSE Recorded(k)
      BY <1>s, <1>t, <2>3, AccountedNumbers
    <3>2. history' = [history EXCEPT ![j] = Noted(history[j], 0, 1)] /\ q.pc # "sent"
      BY <2>2, <2>3, <2>4
    <3>3. QED BY <1>t, <2>1, <2>3, <2>4, <3>1, <3>2, PerformedEnds
  <2>5. CASE caller[c].pc # "sent"
    <3>1. history[j] \in History
      BY <1>t DEF TypeOK
    <3>2. Noted(history[j], 0, 0) = history[j]
      BY <3>1 DEF Noted, History
    <3>3. UNCHANGED history
      BY <1>t, <2>3, <2>5, <3>2 DEF TypeOK
    <3>4. QED BY <1>s, <1>t, <2>2, <2>3, <2>5, <3>3, NothingPerformed
  <2>6. QED BY <2>4, <2>5
<1>5. ASSUME NEW c \in Caller, MarkExecuted(c) PROVE Accounted(k)'
  <2>1. PICK j \in Key : j = caller[c].key
    BY <1>5, <1>t DEF MarkExecuted, TypeOK
  <2>2. /\ caller[c].pc = "sent" /\ caller' = [caller EXCEPT ![c] = Idle]
        /\ history' = [history EXCEPT ![j] =
                         Noted(history[j], 0, IF caller[c].until <= clock THEN 1 ELSE 0)]
        /\ record' = IF Owns(c, record[j], clock)
                     THEN [record EXCEPT ![j] = [record[j] EXCEPT !.status = "executed",
                                                                  !.leaseUntil = 0]]
                     ELSE record
    BY <1>5, <2>1 DEF MarkExecuted, CloseAs
  <2>3. Owns(c, record[j], clock) <=> caller[c].until > clock
    BY <2>1, <2>2 DEF IInv, LeaseHeld, ClaimAgrees, Holds, Owns, Active
  <2>4. caller[c].until \in Nat /\ clock \in Nat /\ record[j] \in Record
    BY <1>t DEF TypeOK, CallerState
  <2>5. CASE Owns(c, record[j], clock)
    <3>1. record[j].status = "processing"
      BY <2>5 DEF Owns
    <3>2. Recorded(k)' = IF k = j THEN Recorded(k) + (1 - 0) ELSE Recorded(k)
      BY <1>t, <2>2, <2>5, <3>1 DEF TypeOK, Record, Recorded
    <3>3. history' = [history EXCEPT ![j] = Noted(history[j], 0, 0)]
      <4>1. ~(caller[c].until <= clock)
        BY <2>3, <2>4, <2>5
      <4>2. QED BY <2>2, <4>1
    <3>4. QED BY <1>i, <1>t, <2>1, <2>2, <3>2, <3>3, PerformedEnds
  <2>6. CASE ~Owns(c, record[j], clock)
    <3>1. Recorded(k)' = IF k = j THEN Recorded(k) + (1 - 1) ELSE Recorded(k)
      BY <1>s, <1>t, <2>2, <2>6, AccountedNumbers
    <3>2. history' = [history EXCEPT ![j] = Noted(history[j], 0, 1)]
      <4>1. caller[c].until <= clock
        BY <2>3, <2>4, <2>6
      <4>2. QED BY <2>2, <4>1
    <3>3. QED BY <1>i, <1>t, <2>1, <2>2, <3>1, <3>2, PerformedEnds
  <2>7. QED BY <2>5, <2>6
<1>6. ASSUME NEW c \in Caller, MarkFailedRead(c) PROVE Accounted(k)'
  <2>1. caller[c].pc = "thrown" /\ UNCHANGED <<record, history>> /\ caller[c] \in CallerState
    BY <1>6, <1>t DEF MarkFailedRead, TypeOK
  <2>2. CASE caller' = [caller EXCEPT ![c] = Idle]
    BY <1>i, <1>s, <1>t, <2>1, <2>2, NothingPerformed
  <2>3. ASSUME NEW seen, caller' = [caller EXCEPT ![c] =
                           [caller[c] EXCEPT !.pc = "failing", !.now = clock, !.seen = seen]]
        PROVE  Accounted(k)'
    <3>1. [caller[c] EXCEPT !.pc = "failing", !.now = clock, !.seen = seen].pc # "sent"
      BY <2>1 DEF CallerState
    <3>2. QED BY <1>s, <1>t, <2>1, <2>3, <3>1, NothingPerformed
  <2>4. QED BY <1>6, <2>2, <2>3 DEF MarkFailedRead
<1>7. ASSUME NEW c \in Caller, MarkFailedWrite(c) \/ Release(c) PROVE Accounted(k)'
  <2>1. PICK status \in {"pending", "failed"} : \E now : CloseAs(c, status, now)
    BY <1>7 DEF MarkFailedWrite, Release
  <2>2. caller[c].pc # "sent" /\ UNCHANGED history /\ caller[c].key \in Key
    BY <1>7, <1>t DEF MarkFailedWrite, Release, TypeOK
  <2>3. Recorded(k)' = Recorded(k)
    BY <1>t, <2>1, <2>2 DEF CloseAs, Owns, TypeOK, Record, Recorded
  <2>4. caller' = [caller EXCEPT ![c] = Idle]
    BY <2>1 DEF CloseAs
  <2>5. QED BY <1>i, <1>t, <2>2, <2>3, <2>4, NothingPerformed
<1>8. ASSUME NEW c \in Caller, Crash(c) PROVE Accounted(k)'
  <2>1. PICK j \in Key : j = caller[c].key
    BY <1>8, <1>t DEF Crash, TypeOK
  <2>2. caller' = [caller EXCEPT ![c] = Idle] /\ UNCHANGED record
    BY <1>8 DEF Crash
  <2>3. CASE caller[c].pc = "sent"
    <3>1. Recorded(k)' = IF k = j THEN Recorded(k) + (1 - 1) ELSE Recorded(k)
      BY <1>s, <1>t, <2>2, AccountedNumbers
    <3>2. history' = [history EXCEPT ![j] = Noted(history[j], 0, 1)]
      BY <1>8, <2>1, <2>3 DEF Crash
    <3>3. QED BY <1>i, <1>t, <2>1, <2>2, <2>3, <3>1, <3>2, PerformedEnds
  <2>4. CASE caller[c].pc # "sent"
    BY <1>8, <1>i, <1>s, <1>t, <2>2, <2>4, NothingPerformed DEF Crash
  <2>5. QED BY <2>3, <2>4
<1>9. CASE Tick \/ UNCHANGED vars
  BY <1>9, <1>u DEF Tick, vars
<1>10. QED
  BY <1>1, <1>2, <1>3, <1>4, <1>5, <1>6, <1>7, <1>8, <1>9 DEF Next

\* No effect is performed a second time without a cause: of the effects that are neither
\* excused nor overrun, at most one is still to be recorded, and none if one is recorded.
THEOREM DuplicateNeedsIncidentHolds == Spec => []DuplicateNeedsIncident
<1>1. Init => EffectsAccounted
  <2>1. ASSUME Init, NEW k \in Key PROVE Performed(k) = {}
    BY <2>1, Shapes DEF Init, Performed
  <2>2. ASSUME Init, NEW k \in Key PROVE Accounted(k)
    <3>1. Cardinality(Performed(k)) = 0
      BY <2>1, <2>2, FS_EmptySet
    <3>2. record[k] = Absent /\ history[k].sent = 0 /\ history[k].excused = 0
      BY <2>2 DEF Init
    <3>3. QED BY <3>1, <3>2, Shapes DEF Accounted, Recorded
  <2>3. QED BY <2>2 DEF EffectsAccounted, Accounted, Recorded
<1>2. ASSUME IInv, EffectsAccounted, NEW k \in Key
      PROVE  history[k].sent <= 1 + history[k].excused + Cardinality(Overrun(k))
  <2>1. TypeOK /\ Accounted(k) /\ Overrun(k) \subseteq Performed(k)
    BY <1>2 DEF IInv, EffectsAccounted, Accounted, Recorded, Overrun
  <2>2. IsFiniteSet(Overrun(k)) /\ Cardinality(Overrun(k)) \in Nat
    BY <2>1, FS_Subset, FS_CardinalityType, PerformedFinite
  <2>3. clock \in Nat /\ \A c \in Caller : caller[c].until \in Nat
    BY <2>1 DEF TypeOK, CallerState
  <2>4. CASE Performed(k) = Overrun(k)
    BY <2>1, <2>4, AccountedNumbers DEF Accounted, Recorded
  <2>5. ASSUME NEW c \in Performed(k), c \notin Overrun(k)
        PROVE  history[k].sent <= 1 + history[k].excused + Cardinality(Overrun(k))
    <3>1. ASSUME NEW b \in Performed(k), b # c PROVE b \in Overrun(k)
      BY <1>2, <2>3, <2>5, <3>1, OwnersExclude
         DEF ExclusiveWork, Active, Performed, Overrun
    <3>2. Performed(k) = Overrun(k) \cup {c}
      BY <2>1, <2>5, <3>1
    <3>3. Cardinality(Performed(k)) = Cardinality(Overrun(k)) + 1
      BY <2>2, <2>5, <3>2, FS_AddElement
    <3>4. record[k].status # "executed"
      BY <1>2, <2>3, <2>5 DEF IInv, LeaseHeld, Owns, Active, Performed, Overrun
    <3>5. QED BY <2>1, <2>2, <3>3, <3>4, AccountedNumbers DEF Accounted, Recorded
  <2>6. QED BY <2>1, <2>4, <2>5
<1>3. IInv /\ EffectsAccounted => DuplicateNeedsIncident
  BY <1>2 DEF DuplicateNeedsIncident
<1>4. QED BY <1>1, <1>3, EffectsStep, Inductive, PTL DEF Spec

-----------------------------------------------------------------------------

\* ActionStore implements LeasedTask: every step of the store and of the rule runs
\* is a step of the abstract lease, or changes nothing of it.

OwnerIsHolder ==
  \A k \in Key :
    /\ \A c \in Caller : Holds(c, k) => OwnerOf(k) = c
    /\ (\A c \in Caller : ~Holds(c, k)) => OwnerOf(k) = None

\* The owner of a record is the one run whose token the record carries, before a
\* step and after it.
LEMMA OwnerUnique == IInv => OwnerIsHolder
<1>1. ASSUME IInv, NEW k \in Key
      PROVE  \A b, c \in Caller : Holds(b, k) /\ Holds(c, k) => b = c
  BY <1>1 DEF IInv, ClaimAgrees, Holds
<1>2. QED BY <1>1 DEF OwnerOf, OwnerIsHolder

LEMMA OwnerUniqueNext == IInv' => OwnerIsHolder'
BY OwnerUnique, PTL

LEMMA OwnerSame ==
  ASSUME IInv, IInv', NEW k \in Key,
         \A c \in Caller : Holds(c, k)' <=> Holds(c, k)
  PROVE  OwnerOf(k)' = OwnerOf(k)
BY OwnerUnique, OwnerUniqueNext DEF OwnerIsHolder

\* A step that changes the lease of one record sets it.
LEMMA LeaseSet ==
  ASSUME NEW k \in Key, NEW s, NEW w, NEW l \in BOOLEAN,
         LeaseState(k)' = s, OwnerOf(k)' = w, Late(k)' <=> l,
         \A j \in Key : j # k => /\ LeaseState(j)' = LeaseState(j)
                                 /\ OwnerOf(j)' = OwnerOf(j)
                                 /\ Late(j)' = Late(j)
  PROVE  Lease!Set(k, s, w, l)
<1>1. Late(k)' = l
  BY DEF Late
<1>2. QED BY <1>1 DEF Lease!Set

\* Only the claimed record and its key's owner change when one record is written.
LEMMA OthersSame ==
  ASSUME IInv, IInv', NEW c \in Caller, NEW k \in Key,
         \A j \in Key : j # k => record'[j] = record[j],
         \A b \in Caller : b # c => caller'[b] = caller[b],
         UNCHANGED clock,
         Active(c) => caller[c].key = k,
         Active(c)' => caller'[c].key = k
  PROVE  \A j \in Key : j # k => /\ LeaseState(j)' = LeaseState(j)
                                 /\ OwnerOf(j)' = OwnerOf(j)
                                 /\ Late(j)' = Late(j)
<1>1. ASSUME NEW j \in Key, j # k
      PROVE  /\ LeaseState(j)' = LeaseState(j)
             /\ Late(j)' = Late(j)
  BY <1>1 DEF LeaseState, Late
<1>2. \A j \in Key, b \in Caller : j # k => (Holds(b, j)' <=> Holds(b, j))
  BY DEF Holds, Active
<1>3. \A j \in Key : j # k => OwnerOf(j)' = OwnerOf(j)
  BY <1>2, OwnerSame
<1>4. QED BY <1>1, <1>3

\* A run that takes a step of its own, still active with the same claim or still
\* without one, is not seen by the lease.
LEMMA PrivateStep ==
  ASSUME IInv, IInv', NEW c \in Caller, NEW r,
         caller' = [caller EXCEPT ![c] = r], UNCHANGED <<record, clock>>,
         Active(c)' <=> Active(c),
         Active(c) => r.key = caller[c].key /\ r.claimId = caller[c].claimId
  PROVE  UNCHANGED Lease!vars
<1>1. /\ caller'[c] = r
      /\ \A b \in Caller : b # c => caller'[b] = caller[b]
  BY DEF IInv, TypeOK
<1>2. \A k \in Key, b \in Caller : Holds(b, k)' <=> Holds(b, k)
  BY <1>1 DEF Holds, Active
<1>3. \A k \in Key : OwnerOf(k)' = OwnerOf(k)
  BY <1>2, OwnerSame
<1>4. QED BY <1>3 DEF Lease!vars, LeaseState, Late

\* A run that leaves without touching the records vanishes from the lease.
LEMMA VanishStep ==
  ASSUME IInv, IInv', NEW c \in Caller,
         caller' = [caller EXCEPT ![c] = Idle], UNCHANGED <<record, clock>>
  PROVE  Lease!Next
<1>1. /\ ~Active(c)'
      /\ \A b \in Caller : b # c => caller'[b] = caller[b]
  BY Shapes DEF IInv, TypeOK, Active
<1>2. ASSUME NEW k \in Key
      PROVE OwnerOf(k)' = IF OwnerOf(k) \in {c} THEN None ELSE OwnerOf(k)
  <2>1. \A b \in Caller : Holds(b, k)' <=> b # c /\ Holds(b, k)
    BY <1>1 DEF Holds, Active
  <2>2. /\ \A b \in Caller : Holds(b, k) => OwnerOf(k) = b
        /\ (\A b \in Caller : ~Holds(b, k)) => OwnerOf(k) = None
    BY OwnerUnique DEF OwnerIsHolder
  <2>3. /\ \A b \in Caller : Holds(b, k)' => OwnerOf(k)' = b
        /\ (\A b \in Caller : ~Holds(b, k)') => OwnerOf(k)' = None
    BY OwnerUniqueNext DEF OwnerIsHolder
  <2>4. None # c
    BY NoneAssumption
  <2>5. QED BY <2>1, <2>2, <2>3, <2>4
<1>3. \A k \in Key : LeaseState(k)' = LeaseState(k) /\ Late(k)' = Late(k)
  BY DEF LeaseState, Late
<1>4. Lease!Vanish({c})
  BY <1>2, <1>3 DEF Lease!Vanish
<1>5. QED BY <1>4 DEF Lease!Next

-----------------------------------------------------------------------------

\* Winning a claim acquires the lease; a record that is absent or claimable is open,
\* or held under a lease that has run out.
LEMMA AcquireStep ==
  ASSUME IInv, IInv', NEW c \in Caller, NEW k \in Key, NEW now \in Nat, now <= clock,
         ~Active(c), Win(c, k, now), UNCHANGED clock,
         record[k].status = "absent" \/ Claimable(record[k], now)
  PROVE  Lease!Acquire(c, k)
<1>t. TypeOK
  BY DEF IInv
<1>1. PICK t \in Token :
        /\ record' = [record EXCEPT ![k] =
                        [status |-> "processing", attempts |-> record[k].attempts + 1,
                         claimId |-> t, leaseUntil |-> now + LeaseTime]]
        /\ caller' = [caller EXCEPT ![c] =
                        [pc |-> "working", key |-> k, claimId |-> t, now |-> 0,
                         until |-> now + LeaseTime, seen |-> 0]]
  BY DEF Win
<1>2. /\ \A j \in Key : j # k => record'[j] = record[j]
      /\ \A b \in Caller : b # c => caller'[b] = caller[b]
      /\ record'[k].status = "processing" /\ record'[k].claimId = t
      /\ caller'[c].pc = "working" /\ caller'[c].key = k /\ caller'[c].claimId = t
  BY <1>t, <1>1 DEF TypeOK
<1>3. OwnerOf(k)' = c
  BY <1>2, OwnerUniqueNext DEF OwnerIsHolder, Holds, Active
<1>4. LeaseState(k)' = "held"
  BY <1>2 DEF LeaseState
<1>5. \A j \in Key : j # k => /\ LeaseState(j)' = LeaseState(j)
                              /\ OwnerOf(j)' = OwnerOf(j)
                              /\ Late(j)' = Late(j)
  BY <1>2, OthersSame
<1>6. PICK l \in BOOLEAN : Late(k)' <=> l
  OBVIOUS
<1>7. Lease!Set(k, "held", c, l)
  BY <1>3, <1>4, <1>5, <1>6, LeaseSet
<1>8. LeaseState(k) = "open" \/ (LeaseState(k) = "held" /\ Late(k))
  <2>1. record[k].attempts \in Nat /\ record[k].leaseUntil \in Nat /\ clock \in Nat
    BY <1>t DEF TypeOK, Record
  <2>2. record[k].status # "failed" \/ record[k].attempts >= MaxAttempts
    BY DEF IInv, FailedIsSpent
  <2>3. record[k].status \in {"absent", "pending"} \/ Late(k)
    BY <2>1, <2>2, NumberAssumption DEF Claimable, Late
  <2>4. QED BY <2>3 DEF LeaseState, Late
<1>9. QED BY <1>7, <1>8 DEF Lease!Acquire

\* A run that ends by closing its record completes it or gives it up, the former only
\* while its lease runs; a run that no longer owns its record vanishes.
LEMMA EndStep ==
  ASSUME IInv, IInv', NEW c \in Caller, Active(c), NEW now \in Nat,
         NEW s \in {"pending", "executed", "failed"},
         CloseAs(c, s, now), s = "executed" => now = clock
  PROVE  Lease!Next
<1>t. TypeOK
  BY DEF IInv
<1>1. PICK k \in Key : caller[c].key = k
  BY <1>t DEF TypeOK, Active
<1>2. CASE ~Owns(c, record[k], now)
  <2>1. caller' = [caller EXCEPT ![c] = Idle] /\ UNCHANGED <<record, clock>>
    BY <1>1, <1>2 DEF CloseAs
  <2>2. QED BY <2>1, VanishStep
<1>3. CASE Owns(c, record[k], now)
  <2>1. /\ record' = [record EXCEPT ![k] = [record[k] EXCEPT !.status = s,
                                                             !.leaseUntil = 0]]
        /\ caller' = [caller EXCEPT ![c] = Idle]
        /\ UNCHANGED clock
    BY <1>1, <1>3 DEF CloseAs
  <2>2. \A r \in Record : [r EXCEPT !.status = s, !.leaseUntil = 0].status = s
    BY DEF Record
  <2>3. /\ record'[k].status = s
        /\ \A j \in Key : j # k => record'[j] = record[j]
        /\ ~Active(c)'
        /\ \A b \in Caller : b # c => caller'[b] = caller[b]
    BY <1>t, <2>1, <2>2, Shapes DEF TypeOK, Active
  <2>4. OwnerOf(k) = c /\ LeaseState(k) = "held"
    BY <1>1, <1>3, OwnerUnique DEF OwnerIsHolder, Holds, Owns, LeaseState
  <2>5. OwnerOf(k)' = None /\ ~Late(k)'
    BY <2>3, OwnerUniqueNext DEF OwnerIsHolder, Holds, Late
  <2>6. \A j \in Key : j # k => /\ LeaseState(j)' = LeaseState(j)
                                /\ OwnerOf(j)' = OwnerOf(j)
                                /\ Late(j)' = Late(j)
    BY <1>1, <2>1, <2>3, OthersSame
  <2>7. ASSUME NEW w, LeaseState(k)' = w PROVE Lease!Set(k, w, None, FALSE)
    BY <2>5, <2>6, <2>7, LeaseSet
  <2>8. CASE s = "executed"
    <3>1. LeaseState(k)' = "done"
      BY <2>3, <2>8 DEF LeaseState
    <3>2. ~Late(k)
      <4>1. record[k].leaseUntil > clock
        BY <1>3, <2>8 DEF Owns
      <4>2. record[k].leaseUntil \in Nat /\ clock \in Nat
        BY <1>t DEF TypeOK, Record
      <4>3. QED BY <4>1, <4>2 DEF Late
    <3>3. Lease!Complete(c, k)
      BY <2>4, <2>7, <3>1, <3>2 DEF Lease!Complete
    <3>4. QED BY <3>3 DEF Lease!Next
  <2>9. CASE s # "executed"
    <3>1. LeaseState(k)' = "open" \/ LeaseState(k)' = "dead"
      BY <2>3, <2>9 DEF LeaseState
    <3>2. Lease!GiveUp(c, k)
      BY <2>4, <2>7, <3>1 DEF Lease!GiveUp
    <3>3. QED BY <3>2 DEF Lease!Next
  <2>10. QED BY <2>8, <2>9
<1>4. QED BY <1>2, <1>3

\* Time passes: the leases that it overtakes are late.
LEMMA RunOutStep ==
  ASSUME IInv, IInv', Tick PROVE Lease!Next
<1>t. TypeOK
  BY DEF IInv
<1>1. \A k \in Key : OwnerOf(k)' = OwnerOf(k) /\ LeaseState(k)' = LeaseState(k)
  <2>1. \A k \in Key, c \in Caller : Holds(c, k)' <=> Holds(c, k)
    BY DEF Tick, Holds, Active
  <2>2. QED BY <2>1, OwnerSame DEF Tick, LeaseState
<1>2. \A k \in Key : Late(k) => Late(k)'
  <2>1. clock \in Nat /\ \A k \in Key : record[k].leaseUntil \in Nat
    BY <1>t DEF TypeOK, Record
  <2>2. QED BY <2>1 DEF Tick, Late
<1> DEFINE S == {k \in Key : Late(k)'}
<1>3. \A k \in Key : Late(k)' <=> Late(k) \/ k \in S
  BY <1>2
<1>4. \A k \in S : LeaseState(k) = "held"
  BY DEF Tick, Late, LeaseState
<1>5. S \in SUBSET {k \in Key : [j \in Key |-> LeaseState(j)][k] = "held"}
  BY <1>4
<1> HIDE DEF S
<1>6. Lease!RunOut
  BY <1>1, <1>3, <1>5 DEF Lease!RunOut, Late
<1>7. QED BY <1>6 DEF Lease!Next

-----------------------------------------------------------------------------

\* Each action of the store, seen through the refinement mapping.
LEMMA RefineStep ==
  ASSUME IInv, IInv', [Next]_vars
  PROVE  [Lease!Next]_(Lease!vars)
<1>t. TypeOK /\ clock \in Nat
  BY DEF IInv, TypeOK
<1>1. CASE Tick
  BY <1>1, RunOutStep
<1>2. ASSUME NEW c \in Caller, NEW k \in Key, Claim(c, k)
      PROVE  [Lease!Next]_(Lease!vars)
  <2>1. ~Active(c)
    BY <1>2 DEF Claim, Active
  <2>2. CASE Claimable(record[k], clock)
    <3>1. Lease!Acquire(c, k)
      BY <1>2, <1>t, <2>1, <2>2, AcquireStep DEF Claim
    <3>2. QED BY <3>1 DEF Lease!Next
  <2>3. CASE ~Claimable(record[k], clock)
    <3>1. PICK r : /\ r.pc = "upserting"
                   /\ caller' = [caller EXCEPT ![c] = r]
                   /\ UNCHANGED <<record, clock>>
      BY <1>2, <2>3 DEF Claim
    <3>2. ~Active(c)'
      BY <1>t, <3>1 DEF TypeOK, Active
    <3>3. QED BY <2>1, <3>1, <3>2, PrivateStep
  <2>4. QED BY <2>2, <2>3
<1>3. ASSUME NEW c \in Caller, Upsert(c) PROVE Lease!Next
  <2>1. ~Active(c) /\ caller[c].key \in Key
    BY <1>3, <1>t DEF Upsert, Active, TypeOK
  <2>2. caller[c].now \in Nat /\ caller[c].now <= clock
    BY <1>t DEF TypeOK, CallerState, IInv, ClaimAgrees
  <2>3. CASE record[caller[c].key].status = "absent"
             \/ Claimable(record[caller[c].key], caller[c].now)
    <3>1. Lease!Acquire(c, caller[c].key)
      BY <1>3, <2>1, <2>2, <2>3, AcquireStep DEF Upsert
    <3>2. QED BY <2>1, <3>1 DEF Lease!Next
  <2>4. CASE ~(record[caller[c].key].status = "absent"
               \/ Claimable(record[caller[c].key], caller[c].now))
    <3>1. caller' = [caller EXCEPT ![c] = Idle] /\ UNCHANGED <<record, clock>>
      BY <1>3, <2>4 DEF Upsert
    <3>2. QED BY <3>1, VanishStep
  <2>5. QED BY <2>3, <2>4
<1>4. ASSUME NEW c \in Caller, Send(c) \/ Throw(c) PROVE UNCHANGED Lease!vars
  <2>1. PICK pc \in {"sent", "thrown"} :
          /\ caller' = [caller EXCEPT ![c] = [caller[c] EXCEPT !.pc = pc]]
          /\ UNCHANGED <<record, clock>>
          /\ Active(c)
    BY <1>4 DEF Send, Throw, Active
  <2>2. \A r \in CallerState : /\ [r EXCEPT !.pc = pc].pc = pc
                               /\ [r EXCEPT !.pc = pc].key = r.key
                               /\ [r EXCEPT !.pc = pc].claimId = r.claimId
    BY DEF CallerState
  <2>3. PICK r : /\ caller' = [caller EXCEPT ![c] = r]
                 /\ r.pc = pc /\ r.key = caller[c].key /\ r.claimId = caller[c].claimId
    BY <1>t, <2>1, <2>2 DEF TypeOK
  <2>4. Active(c)'
    BY <1>t, <2>3 DEF TypeOK, Active
  <2>5. QED BY <2>1, <2>3, <2>4, PrivateStep
<1>5. ASSUME NEW c \in Caller, MarkExecuted(c) PROVE Lease!Next
  BY <1>5, <1>t, EndStep DEF MarkExecuted, Active
<1>6. ASSUME NEW c \in Caller, MarkFailedRead(c) PROVE [Lease!Next]_(Lease!vars)
  <2>1. CASE Owns(c, record[caller[c].key], clock)
    <3>1. /\ caller' = [caller EXCEPT ![c] =
                [caller[c] EXCEPT !.pc = "failing", !.now = clock,
                                  !.seen = record[caller[c].key].attempts]]
          /\ UNCHANGED <<record, clock>>
          /\ Active(c)
      BY <1>6, <2>1 DEF MarkFailedRead, Active
    <3> DEFINE r == [caller[c] EXCEPT !.pc = "failing", !.now = clock,
                                      !.seen = record[caller[c].key].attempts]
    <3>2. r.pc = "failing" /\ r.key = caller[c].key /\ r.claimId = caller[c].claimId
      BY <1>t DEF TypeOK, CallerState
    <3>3. caller' = [caller EXCEPT ![c] = r]
      BY <3>1
    <3> HIDE DEF r
    <3>4. Active(c)'
      BY <1>t, <3>2, <3>3 DEF TypeOK, Active
    <3>5. QED BY <3>1, <3>2, <3>3, <3>4, PrivateStep
  <2>2. CASE ~Owns(c, record[caller[c].key], clock)
    <3>1. caller' = [caller EXCEPT ![c] = Idle] /\ UNCHANGED <<record, clock>>
      BY <1>6, <2>2 DEF MarkFailedRead
    <3>2. QED BY <3>1, VanishStep
  <2>3. QED BY <2>1, <2>2
<1>7. ASSUME NEW c \in Caller, MarkFailedWrite(c) PROVE Lease!Next
  <2> DEFINE s == IF caller[c].seen >= MaxAttempts THEN "failed" ELSE "pending"
  <2>1. Active(c) /\ CloseAs(c, s, caller[c].now)
    BY <1>7 DEF MarkFailedWrite, Active
  <2>2. s \in {"pending", "executed", "failed"} /\ s # "executed" /\ caller[c].now \in Nat
    BY <1>t DEF TypeOK, CallerState
  <2> HIDE DEF s
  <2>3. QED BY <2>1, <2>2, EndStep
<1>8. ASSUME NEW c \in Caller, Release(c) PROVE Lease!Next
  BY <1>8, <1>t, EndStep DEF Release, Active
<1>9. ASSUME NEW c \in Caller, Crash(c) PROVE Lease!Next
  <2>1. caller' = [caller EXCEPT ![c] = Idle] /\ UNCHANGED <<record, clock>>
    BY <1>9 DEF Crash
  <2>2. QED BY <2>1, VanishStep
<1>10. CASE UNCHANGED vars
  BY <1>10 DEF vars, Lease!vars, LeaseState, OwnerOf, Holds, Active, Late
<1>11. QED
  BY <1>1, <1>2, <1>3, <1>4, <1>5, <1>6, <1>7, <1>8, <1>9, <1>10 DEF Next

\* The action store implements the lease: only the run that holds a live claim
\* records an action as executed, and a claim changes hands only after it was given
\* up, given back or ran out.
THEOREM ActionsImplementLease == Spec => ImplementsLease
<1>1. Init => Lease!Init
  <2>1. SUFFICES ASSUME Init PROVE Lease!Init
    OBVIOUS
  <2>2. \A c \in Caller : ~Active(c)
    BY <2>1, Shapes DEF Init, Active
  <2>3. \A k \in Key : /\ record[k].status = "absent"
                       /\ LeaseState(k) = "open"
                       /\ OwnerOf(k) = None
    BY <2>1, <2>2, Shapes DEF Init, LeaseState, OwnerOf, Holds
  <2>4. QED BY <2>3 DEF Lease!Init, Late
<1>2. IInv /\ IInv' /\ [Next]_vars => [Lease!Next]_(Lease!vars)
  BY RefineStep
<1>3. QED BY <1>1, <1>2, Inductive, PTL DEF Spec, ImplementsLease, Lease!Spec
=============================================================================
