-------------------------- MODULE EventStoreProofs --------------------------
(***************************************************************************)
(* Proofs about EventStore, for any number of events, tenants, handlers    *)
(* and tokens and any limits.                                              *)
(***************************************************************************)
EXTENDS EventStore, TLAPS

\* A just written document is of age zero, and time keeps ages in range and in order.
LEMMA Ages ==
  /\ 0 \in Age
  /\ \A a \in Age : Older(a) \in Age
  /\ \A a, b \in Age : a <= b => Older(a) <= Older(b)
BY NumberAssumption DEF Age, Older

\* The records the actions write are documents and handler states.
LEMMA Shapes ==
  /\ Idle \in HandlerState
  /\ Absent \in Document
  /\ \A t \in Tenant : [Absent EXCEPT !.status = "pending", !.tenant = t] \in Document
  /\ \A d \in Document, s \in Status : [d EXCEPT !.status = s, !.age = 0] \in Document
  /\ \A d \in Document, k \in Token : Claimed(d, k) \in Document
  /\ \A d \in Document : [d EXCEPT !.age = 0] \in Document
<1>1. Idle \in HandlerState
  BY Ages DEF Idle, HandlerState
<1>2. Absent \in Document
  BY Ages DEF Absent, Document, Status
<1>3. ASSUME NEW t \in Tenant
      PROVE [Absent EXCEPT !.status = "pending", !.tenant = t] \in Document
  BY Ages DEF Absent, Document, Status
<1>4. ASSUME NEW d \in Document, NEW s \in Status
      PROVE [d EXCEPT !.status = s, !.age = 0] \in Document
  BY Ages DEF Document
<1>5. ASSUME NEW d \in Document, NEW k \in Token
      PROVE Claimed(d, k) \in Document
  BY Ages DEF Claimed, Document, Status
<1>6. ASSUME NEW d \in Document
      PROVE [d EXCEPT !.age = 0] \in Document
  BY Ages DEF Document
<1>7. QED BY <1>1, <1>2, <1>3, <1>4, <1>5, <1>6

\* Every step keeps the shape of documents and handlers.
LEMMA TypeStep == TypeOK /\ [Next]_vars => TypeOK'
<1> SUFFICES ASSUME TypeOK, [Next]_vars PROVE TypeOK'
  OBVIOUS
<1>i. Idle \in HandlerState /\ Absent \in Document /\ Idle.pc = "idle"
  <2>1. Idle.pc = "idle"
    BY DEF Idle
  <2>2. QED BY <2>1, Shapes
<1>1. CASE Tick
  <2>1. \A d \in Document : [d EXCEPT !.age = Older(d.age)] \in Document
    BY Ages DEF Document
  <2>2. \A r \in HandlerState : [r EXCEPT !.held = Older(r.held)] \in HandlerState
    BY Ages DEF HandlerState
  <2>3. doc' \in [Event -> Document] /\ handler' \in [Handler -> HandlerState]
    BY <1>1, <2>1, <2>2 DEF Tick, TypeOK
  <2>4. \A h \in Handler : /\ handler'[h].pc = handler[h].pc
                           /\ handler'[h].event = handler[h].event
                           /\ handler'[h].claimId = handler[h].claimId
    BY <1>1 DEF Tick, TypeOK, HandlerState
  <2>5. QED BY <2>3, <2>4 DEF TypeOK
<1>2. ASSUME NEW e \in Event, Expire(e) PROVE TypeOK'
  BY <1>2, <1>i DEF Expire, TypeOK
<1>3. ASSUME NEW e \in Event, NEW t \in Tenant, Persist(e, t) PROVE TypeOK'
  BY <1>3, Shapes DEF Persist, TypeOK
<1>4. ASSUME NEW e \in Event, NEW t \in Tenant, NEW h \in Handler, Claim(h, e, t)
      PROVE TypeOK'
  <2>1. PICK token \in Token :
          /\ doc' = [doc EXCEPT ![e] = Claimed(doc[e], token)]
          /\ handler' = [handler EXCEPT
                           ![h] = [pc |-> "running", event |-> e, tenant |-> t,
                                   claimId |-> token, held |-> 0, seen |-> 0]]
    BY <1>4 DEF Claim
  <2>2. [pc |-> "running", event |-> e, tenant |-> t,
         claimId |-> token, held |-> 0, seen |-> 0] \in HandlerState
    BY Ages DEF HandlerState
  <2>3. doc' \in [Event -> Document]
    BY <2>1, Shapes DEF TypeOK
  <2>4. QED BY <2>1, <2>2, <2>3 DEF TypeOK
<1>5. ASSUME NEW h \in Handler, MarkProcessed(h) PROVE TypeOK'
  BY <1>5, <1>i, Shapes DEF MarkProcessed, TypeOK, Status
<1>6. ASSUME NEW h \in Handler, MarkFailedRead(h) PROVE TypeOK'
  <2>1. handler[h].event \in Event /\ handler[h].claimId \in Token
    BY <1>6 DEF MarkFailedRead, TypeOK
  <2>2. doc[handler[h].event].attempts \in Nat
    BY <2>1 DEF TypeOK, Document
  <2>3. [handler[h] EXCEPT !.pc = "failing", !.seen = doc[handler[h].event].attempts]
          \in HandlerState
    BY <2>2 DEF TypeOK, HandlerState
  <2>4. handler' \in [Handler -> HandlerState]
    BY <1>6, <1>i, <2>3 DEF MarkFailedRead, TypeOK
  <2>5. handler'[h].pc # "idle" => /\ handler'[h].event = handler[h].event
                                   /\ handler'[h].claimId = handler[h].claimId
    BY <1>6, <1>i DEF MarkFailedRead, TypeOK, HandlerState
  <2>6. \A g \in Handler : g # h => handler'[g] = handler[g]
    BY <1>6 DEF MarkFailedRead, TypeOK
  <2>7. QED BY <1>6, <2>1, <2>4, <2>5, <2>6 DEF MarkFailedRead, TypeOK
<1>7. ASSUME NEW h \in Handler, MarkFailedWrite(h) PROVE TypeOK'
  BY <1>7, <1>i, Shapes DEF MarkFailedWrite, TypeOK, Status
<1>8. ASSUME NEW h \in Handler, Crash(h) PROVE TypeOK'
  BY <1>8, <1>i DEF Crash, TypeOK
<1>9. CASE UNCHANGED vars
  BY <1>9 DEF vars, TypeOK
<1>10. QED
  BY <1>1, <1>2, <1>3, <1>4, <1>5, <1>6, <1>7, <1>8, <1>9 DEF Next

\* Documents and handlers have the shape the schema and the code give them, in
\* every reachable state.
THEOREM TypeInvariant == Spec => []TypeOK
<1>1. Init => TypeOK
  <2>1. Idle.pc = "idle"
    BY DEF Idle
  <2>2. QED BY <2>1, Shapes DEF Init, TypeOK
<1>2. QED BY <1>1, TypeStep, PTL DEF Spec

-----------------------------------------------------------------------------

\* The inductive step, action by action. The reasons are few: a fresh token
\* matches nobody's; a document whose owner's claim has not run out is not
\* claimable, because its age is at most the time the owner has held it; and a
\* handler that passes the ownership filter is the only one that does.
LEMMA TickStep == IInv /\ Tick => IInv'
<1> SUFFICES ASSUME IInv, Tick PROVE IInv'
  OBVIOUS
<1>t. TypeOK /\ TypeOK'
  BY TypeStep DEF Next, IInv
<1>1. \A h \in Handler :
        /\ handler'[h].pc = handler[h].pc
        /\ handler'[h].event = handler[h].event
        /\ handler'[h].tenant = handler[h].tenant
        /\ handler'[h].claimId = handler[h].claimId
        /\ handler'[h].seen = handler[h].seen
        /\ Active(h) => handler'[h].held = Older(handler[h].held)
  BY <1>t DEF Tick, TypeOK, HandlerState, Active
<1>2. \A e \in Event :
        /\ doc'[e].status = doc[e].status
        /\ doc'[e].tenant = doc[e].tenant
        /\ doc'[e].attempts = doc[e].attempts
        /\ doc'[e].claimId = doc[e].claimId
        /\ doc[e].status = "processing" => doc'[e].age = Older(doc[e].age)
        /\ doc[e].status # "processing" => doc'[e].age = doc[e].age
  BY <1>t DEF Tick, TypeOK, Document
<1>3. \A h \in Handler : Active(h) => handler[h].event \in Event
  BY <1>t DEF TypeOK, Active
<1>4. \A h \in Handler : Active(h)' = Active(h)
  BY <1>1 DEF Active
<1>5. \A h \in Handler : Active(h) =>
        Owns(h, doc[handler[h].event])' = Owns(h, doc[handler[h].event])
  BY <1>1, <1>2, <1>3 DEF Owns
<1>6. ClaimAgrees'
  <2>1. \A h \in Handler : Active(h) /\ Owns(h, doc[handler[h].event]) =>
          doc'[handler[h].event].age <= handler'[h].held
    <3>1. SUFFICES ASSUME NEW h \in Handler, Active(h), Owns(h, doc[handler[h].event])
                   PROVE doc'[handler[h].event].age <= handler'[h].held
      OBVIOUS
    <3>2. doc[handler[h].event].age <= handler[h].held
      BY <3>1 DEF IInv, ClaimAgrees
    <3>3. doc[handler[h].event].age \in Age /\ handler[h].held \in Age
      BY <1>t, <1>3, <3>1 DEF TypeOK, Document, HandlerState
    <3>4. doc'[handler[h].event].age = Older(doc[handler[h].event].age)
      BY <1>2, <1>3, <3>1 DEF Owns
    <3>5. QED BY <1>1, <3>1, <3>2, <3>3, <3>4, Ages
  <2>2. QED
    BY <1>1, <1>2, <1>3, <1>4, <1>5, <2>1 DEF IInv, ClaimAgrees
<1>7. LeaseHeld'
  <2>1. \A a \in Age : Older(a) <= StaleAfter => a <= StaleAfter
    BY NumberAssumption DEF Age, Older
  <2>2. \A h \in Handler : handler[h].held \in Age
    BY <1>t DEF TypeOK, HandlerState
  <2>3. QED BY <1>1, <1>3, <1>4, <1>5, <2>1, <2>2 DEF IInv, LeaseHeld
<1>8. BudgetRespected'
  BY <1>2 DEF IInv, BudgetRespected
<1>9. TenantBoundary'
  BY <1>1, <1>2, <1>3, <1>4, <1>5 DEF IInv, TenantBoundary
<1>10. OnlyClaimsAge'
  BY <1>2 DEF IInv, OnlyClaimsAge
<1>11. QED BY <1>t, <1>6, <1>7, <1>8, <1>9, <1>10 DEF IInv

\* A step that leaves the handlers alone, and the documents that are being
\* processed: Persist of a new event, and Expire.
LEMMA DocStep ==
  ASSUME IInv, NEW e \in Event, NEW d,
         doc[e].status # "processing",
         doc' = [doc EXCEPT ![e] = d],
         TypeOK',
         d.status = "pending" => d.attempts < MaxAttempts,
         d.status \notin {"processing", "failed"},
         d.age = 0,
         UNCHANGED handler
  PROVE  IInv'
<1>1. TypeOK
  BY DEF IInv
<1>2. \A f \in Event : f # e => doc'[f] = doc[f]
  BY <1>1 DEF TypeOK
<1>3. doc'[e] = d
  BY <1>1 DEF TypeOK
<1>4. \A h \in Handler : Active(h) => handler[h].event \in Event
  BY <1>1 DEF TypeOK, Active
<1>5. \A h \in Handler : Active(h)' = Active(h)
  BY DEF Active
<1>6. \A h \in Handler : Active(h) /\ Owns(h, doc[handler[h].event]) =>
        handler[h].event # e
  BY DEF Owns
<1>7. \A h \in Handler : Active(h) =>
        Owns(h, doc[handler[h].event])' = Owns(h, doc[handler[h].event])
  BY <1>2, <1>3, <1>4 DEF Owns
<1>8. ClaimAgrees'
  BY <1>2, <1>4, <1>5, <1>6, <1>7 DEF IInv, ClaimAgrees
<1>9. LeaseHeld'
  BY <1>5, <1>7 DEF IInv, LeaseHeld
<1>10. BudgetRespected'
  BY <1>2, <1>3 DEF IInv, BudgetRespected
<1>11. TenantBoundary'
  BY <1>2, <1>4, <1>5, <1>6, <1>7 DEF IInv, TenantBoundary
<1>12. OnlyClaimsAge'
  BY <1>2, <1>3 DEF IInv, OnlyClaimsAge
<1>13. QED BY <1>8, <1>9, <1>10, <1>11, <1>12 DEF IInv

\* A duplicate persist only makes a document younger: what holds of its owner and its
\* status still does.
LEMMA RefreshStep ==
  ASSUME IInv, TypeOK', NEW e \in Event,
         doc' = [doc EXCEPT ![e] = [doc[e] EXCEPT !.age = 0]],
         UNCHANGED handler
  PROVE  IInv'
<1>1. TypeOK
  BY DEF IInv
<1>2. \A f \in Event : /\ doc'[f].status = doc[f].status
                        /\ doc'[f].tenant = doc[f].tenant
                        /\ doc'[f].attempts = doc[f].attempts
                        /\ doc'[f].claimId = doc[f].claimId
                        /\ doc'[f].age \in {doc[f].age, 0}
  BY <1>1 DEF TypeOK, Document
<1>3. \A h \in Handler : Active(h) => handler[h].event \in Event
  BY <1>1 DEF TypeOK, Active
<1>4. \A h \in Handler : Active(h)' = Active(h)
  BY DEF Active
<1>5. \A h \in Handler : Active(h) =>
        Owns(h, doc[handler[h].event])' = Owns(h, doc[handler[h].event])
  BY <1>2, <1>3 DEF Owns
<1>6. ClaimAgrees'
  <2>1. \A h \in Handler : handler[h].held \in Nat
    BY <1>1, NumberAssumption DEF TypeOK, HandlerState, Age
  <2>2. \A h \in Handler : Active(h) /\ Owns(h, doc[handler[h].event]) =>
          /\ doc'[handler[h].event].age <= handler[h].held
          /\ handler[h].pc = "failing" =>
               handler[h].seen = doc'[handler[h].event].attempts
    <3>1. SUFFICES ASSUME NEW h \in Handler, Active(h), Owns(h, doc[handler[h].event])
                   PROVE /\ doc'[handler[h].event].age <= handler[h].held
                         /\ handler[h].pc = "failing" =>
                              handler[h].seen = doc'[handler[h].event].attempts
      OBVIOUS
    <3>2. /\ doc[handler[h].event].age <= handler[h].held
          /\ handler[h].pc = "failing" =>
               handler[h].seen = doc[handler[h].event].attempts
      BY <3>1 DEF IInv, ClaimAgrees
    <3>3. QED BY <1>2, <1>3, <2>1, <3>1, <3>2
  <2>3. QED BY <1>4, <1>5, <2>2 DEF IInv, ClaimAgrees
<1>7. LeaseHeld'
  BY <1>4, <1>5 DEF IInv, LeaseHeld
<1>8. BudgetRespected'
  BY <1>2 DEF IInv, BudgetRespected
<1>9. TenantBoundary'
  BY <1>2, <1>3, <1>4, <1>5 DEF IInv, TenantBoundary
<1>10. OnlyClaimsAge'
  BY <1>2 DEF IInv, OnlyClaimsAge
<1>11. QED BY <1>6, <1>7, <1>8, <1>9, <1>10 DEF IInv

LEMMA ClaimStep ==
  ASSUME IInv, TypeOK', NEW e \in Event, NEW t \in Tenant, NEW h \in Handler, Claim(h, e, t)
  PROVE  IInv'
<1>1. TypeOK
  BY DEF IInv
<1>2. PICK token \in Token :
        /\ FreshToken(token)
        /\ doc' = [doc EXCEPT ![e] = Claimed(doc[e], token)]
        /\ handler' = [handler EXCEPT
                         ![h] = [pc |-> "running", event |-> e, tenant |-> t,
                                 claimId |-> token, held |-> 0, seen |-> 0]]
  BY DEF Claim
<1>3. \A f \in Event : f # e => doc'[f] = doc[f]
  BY <1>1, <1>2 DEF TypeOK
<1>4. doc'[e] = Claimed(doc[e], token)
  BY <1>1, <1>2 DEF TypeOK
<1>5. \A g \in Handler : g # h => handler'[g] = handler[g]
  BY <1>1, <1>2 DEF TypeOK
<1>6. handler'[h] = [pc |-> "running", event |-> e, tenant |-> t,
                     claimId |-> token, held |-> 0, seen |-> 0]
  BY <1>1, <1>2 DEF TypeOK
<1>7. Active(h)' /\ Owns(h, doc[handler[h].event])' /\ handler'[h].event = e
  BY <1>4, <1>6 DEF Active, Owns, Claimed
<1>8. \A g \in Handler : g # h => Active(g)' = Active(g)
  BY <1>5 DEF Active
<1>9. \A g \in Handler : Active(g) => handler[g].event \in Event
  BY <1>1 DEF TypeOK, Active
<1>10. \A g \in Handler : g # h /\ Active(g) /\ Owns(g, doc[handler[g].event])' =>
         /\ handler[g].event # e
         /\ Owns(g, doc[handler[g].event])
  BY <1>2, <1>3, <1>4, <1>5, <1>9 DEF Owns, Claimed, FreshToken
<1>11. \A g \in Handler :
         g # h /\ Active(g) /\ handler[g].held <= StaleAfter => handler[g].event # e
  \* e is claimable, and a live owner's document is not
  <2>1. SUFFICES ASSUME NEW g \in Handler, g # h, Active(g),
                        handler[g].held <= StaleAfter, handler[g].event = e
                 PROVE FALSE
    OBVIOUS
  <2>2. Owns(g, doc[e]) /\ doc[e].age <= handler[g].held
    BY <2>1 DEF IInv, LeaseHeld, ClaimAgrees
  <2>3. ~Stale(doc[e])
    BY <1>1, <2>1, <2>2, NumberAssumption DEF Stale, TypeOK, Document, HandlerState, Age
  <2>4. Claimable(doc[e])
    BY DEF Claim
  <2>5. QED BY <2>2, <2>3, <2>4 DEF Claimable, Owns
<1>12. ClaimAgrees'
  <2>1. doc'[e].age <= handler'[h].held /\ handler'[h].pc # "failing"
    BY <1>4, <1>6 DEF Claimed
  <2>2. \A g \in Handler : g # h => handler[g].claimId # handler'[h].claimId
    BY <1>2, <1>6 DEF FreshToken
  <2>3. QED
    BY <1>3, <1>5, <1>7, <1>8, <1>9, <1>10, <2>1, <2>2 DEF IInv, ClaimAgrees
<1>13. LeaseHeld'
  <2>1. SUFFICES ASSUME NEW g \in Handler, g # h, Active(g),
                        handler[g].held <= StaleAfter
                 PROVE Owns(g, doc[handler[g].event])'
    BY <1>5, <1>7, <1>8 DEF LeaseHeld
  <2>2. handler[g].event # e /\ Owns(g, doc[handler[g].event])
    BY <1>11, <2>1 DEF IInv, LeaseHeld
  <2>3. QED BY <1>3, <1>5, <1>9, <2>1, <2>2 DEF Owns
<1>14. BudgetRespected'
  BY <1>3, <1>4 DEF IInv, BudgetRespected, Claimed
<1>15. TenantBoundary'
  <2>1. doc'[e].tenant = t /\ handler'[h].tenant = t
    BY <1>4, <1>6 DEF Claim, Claimed
  <2>2. QED
    BY <1>3, <1>5, <1>7, <1>8, <1>9, <1>10, <2>1 DEF IInv, TenantBoundary
<1>16. OnlyClaimsAge'
  BY <1>3, <1>4 DEF IInv, OnlyClaimsAge, Claimed
<1>17. QED BY <1>12, <1>13, <1>14, <1>15, <1>16 DEF IInv

\* A handler ends: it crashed, its update matched nothing, or it closed the
\* document it owns.
LEMMA EndStep ==
  ASSUME IInv, TypeOK', NEW h \in Handler, Active(h), NEW s \in Status,
         handler' = [handler EXCEPT ![h] = Idle],
         \/ UNCHANGED doc
         \/ /\ Owns(h, doc[handler[h].event])
            /\ doc' = [doc EXCEPT ![handler[h].event] =
                         [doc[handler[h].event] EXCEPT !.status = s, !.age = 0]],
         s # "processing",
         s = "pending" => doc[handler[h].event].attempts < MaxAttempts,
         s = "failed" => doc[handler[h].event].attempts >= MaxAttempts
  PROVE  IInv'
<1> DEFINE e == handler[h].event
<1>1. TypeOK /\ e \in Event
  BY DEF IInv, TypeOK, Active
<1>2. \A f \in Event : f # e => doc'[f] = doc[f]
  BY <1>1 DEF TypeOK
<1>3. \/ doc'[e] = doc[e]
      \/ /\ Owns(h, doc[e])
         /\ doc'[e].status = s
         /\ doc'[e].attempts = doc[e].attempts
         /\ doc'[e].age = 0
  <2>1. \A d \in Document : /\ [d EXCEPT !.status = s, !.age = 0].status = s
                            /\ [d EXCEPT !.status = s, !.age = 0].attempts = d.attempts
                            /\ [d EXCEPT !.status = s, !.age = 0].age = 0
    BY DEF Document
  <2>2. CASE UNCHANGED doc
    BY <2>2
  <2>3. CASE /\ Owns(h, doc[e])
             /\ doc' = [doc EXCEPT ![e] = [doc[e] EXCEPT !.status = s, !.age = 0]]
    <3>1. doc'[e] = [doc[e] EXCEPT !.status = s, !.age = 0] /\ doc[e] \in Document
      BY <1>1, <2>3 DEF TypeOK
    <3>2. QED BY <2>1, <2>3, <3>1
  <2>4. QED BY <2>2, <2>3
<1>4. \A g \in Handler : g # h => handler'[g] = handler[g]
  BY <1>1 DEF TypeOK
<1>5. ~Active(h)'
  BY <1>1 DEF TypeOK, Active, Idle
<1>6. \A g \in Handler : g # h => Active(g)' = Active(g)
  BY <1>4 DEF Active
<1>7. \A g \in Handler : Active(g) => handler[g].event \in Event
  BY <1>1 DEF TypeOK, Active
<1>8. \A g \in Handler :
        g # h /\ Active(g) /\ Owns(g, doc[handler[g].event]) =>
          doc'[handler[g].event] = doc[handler[g].event]
  \* where h is the owner, no other handler is
  <2>1. SUFFICES ASSUME NEW g \in Handler, g # h, Active(g), Owns(g, doc[handler[g].event]),
                        handler[g].event = e, Owns(h, doc[e])
                 PROVE FALSE
    BY <1>2, <1>3, <1>7
  <2>2. handler[g].claimId = handler[h].claimId
    BY <2>1 DEF Owns
  <2>3. QED BY <2>1, <2>2 DEF IInv, ClaimAgrees
<1>9. \A g \in Handler :
        g # h /\ Active(g) /\ Owns(g, doc[handler[g].event])' =>
          /\ Owns(g, doc[handler[g].event])
          /\ doc'[handler[g].event] = doc[handler[g].event]
  BY <1>2, <1>3, <1>4, <1>7 DEF Owns
<1>10. ClaimAgrees'
  BY <1>4, <1>5, <1>6, <1>9 DEF IInv, ClaimAgrees
<1>11. LeaseHeld'
  BY <1>4, <1>5, <1>6, <1>8 DEF IInv, LeaseHeld, Owns
<1>12. BudgetRespected'
  BY <1>1, <1>2, <1>3 DEF IInv, BudgetRespected
<1>13. TenantBoundary'
  BY <1>4, <1>5, <1>6, <1>9 DEF IInv, TenantBoundary
<1>14. OnlyClaimsAge'
  BY <1>1, <1>2, <1>3 DEF IInv, OnlyClaimsAge
<1>15. QED BY <1>10, <1>11, <1>12, <1>13, <1>14 DEF IInv

\* markFailed's read remembers the attempts of the document it owns.
LEMMA ReadStep ==
  ASSUME IInv, TypeOK', NEW h \in Handler,
         handler[h].pc = "running",
         Owns(h, doc[handler[h].event]),
         handler' = [handler EXCEPT ![h] =
                       [handler[h] EXCEPT !.pc = "failing",
                                          !.seen = doc[handler[h].event].attempts]],
         UNCHANGED doc
  PROVE  IInv'
<1>1. TypeOK
  BY DEF IInv
<1>2. \A g \in Handler : /\ handler'[g].event = handler[g].event
                         /\ handler'[g].claimId = handler[g].claimId
                         /\ handler'[g].tenant = handler[g].tenant
                         /\ handler'[g].held = handler[g].held
                         /\ Active(g)' = Active(g)
  BY <1>1 DEF TypeOK, HandlerState, Active
<1>3. \A g \in Handler : Owns(g, doc[handler[g].event])' = Owns(g, doc[handler[g].event])
  BY <1>2 DEF Owns
<1>4. /\ handler'[h].seen = doc[handler[h].event].attempts
      /\ \A g \in Handler : g # h => handler'[g] = handler[g]
  BY <1>1 DEF TypeOK, HandlerState
<1>5. ClaimAgrees'
  BY <1>2, <1>3, <1>4 DEF IInv, ClaimAgrees
<1>6. LeaseHeld' /\ BudgetRespected' /\ TenantBoundary' /\ OnlyClaimsAge'
  BY <1>2, <1>3 DEF IInv, LeaseHeld, BudgetRespected, TenantBoundary, OnlyClaimsAge
<1>7. QED BY <1>5, <1>6 DEF IInv

LEMMA InductiveStep == IInv /\ [Next]_vars => IInv'
<1> SUFFICES ASSUME IInv, [Next]_vars PROVE IInv'
  OBVIOUS
<1>t. TypeOK /\ TypeOK'
  BY TypeStep DEF IInv
<1>1. CASE Tick
  BY <1>1, TickStep
<1>2. ASSUME NEW e \in Event, Expire(e) PROVE IInv'
  <2>1. Absent.status = "absent" /\ Absent.age = 0
    BY DEF Absent
  <2>2. QED BY <1>2, <1>t, <2>1, DocStep DEF Expire
<1>3. ASSUME NEW e \in Event, NEW t \in Tenant, Persist(e, t) PROVE IInv'
  <2> DEFINE d == [Absent EXCEPT !.status = "pending", !.tenant = t]
  <2>1. CASE doc[e].status = "absent"
    <3>1. d.status = "pending" /\ d.attempts = 0 /\ d.age = 0
      BY DEF Absent
    <3>2. d.attempts < MaxAttempts
      BY <3>1, NumberAssumption
    <3>3. doc' = [doc EXCEPT ![e] = d] /\ UNCHANGED handler
      BY <1>3, <2>1 DEF Persist
    <3> HIDE DEF d
    <3>4. QED BY <1>t, <2>1, <3>1, <3>2, <3>3, DocStep
  <2>2. CASE doc[e].status # "absent"
    BY <1>3, <1>t, <2>2, RefreshStep DEF Persist
  <2>3. QED BY <2>1, <2>2
<1>4. ASSUME NEW e \in Event, NEW t \in Tenant, NEW h \in Handler, Claim(h, e, t)
      PROVE IInv'
  BY <1>4, <1>t, ClaimStep
<1>5. ASSUME NEW h \in Handler, MarkProcessed(h) PROVE IInv'
  <2>1. "processed" \in Status /\ Active(h)
    BY <1>5 DEF Status, Active, MarkProcessed
  <2>2. QED BY <1>5, <1>t, <2>1, EndStep DEF MarkProcessed
<1>6. ASSUME NEW h \in Handler, MarkFailedRead(h) PROVE IInv'
  <2>1. CASE Owns(h, doc[handler[h].event]) /\ ~Stale(doc[handler[h].event])
    BY <1>6, <1>t, <2>1, ReadStep DEF MarkFailedRead
  <2>2. CASE ~(Owns(h, doc[handler[h].event]) /\ ~Stale(doc[handler[h].event]))
    <3>1. "processed" \in Status /\ Active(h)
      BY <1>6 DEF Status, Active, MarkFailedRead
    <3>2. handler' = [handler EXCEPT ![h] = Idle] /\ UNCHANGED doc
      BY <1>6, <2>2 DEF MarkFailedRead
    <3>3. QED BY <1>t, <3>1, <3>2, EndStep
  <2>3. QED BY <2>1, <2>2
<1>7. ASSUME NEW h \in Handler, MarkFailedWrite(h) PROVE IInv'
  <2> DEFINE e == handler[h].event
             next == IF handler[h].seen >= MaxAttempts THEN "failed" ELSE "pending"
  <2>1. next \in Status /\ Active(h) /\ handler[h].pc = "failing"
    BY <1>7 DEF Status, Active, MarkFailedWrite
  <2>2. CASE Owns(h, doc[e])
    <3>1. handler[h].seen = doc[e].attempts
      BY <2>1, <2>2 DEF IInv, ClaimAgrees
    <3>2. doc[e].attempts \in Nat
      BY <1>t, <2>1 DEF TypeOK, Document, Active
    <3>3. /\ next = "pending" => doc[e].attempts < MaxAttempts
          /\ next = "failed" => doc[e].attempts >= MaxAttempts
      BY <3>1, <3>2, NumberAssumption
    <3>4. /\ doc' = [doc EXCEPT ![e] = [doc[e] EXCEPT !.status = next, !.age = 0]]
          /\ handler' = [handler EXCEPT ![h] = Idle]
      BY <1>7, <2>2 DEF MarkFailedWrite
    <3>5. next # "processing"
      OBVIOUS
    <3> HIDE DEF next
    <3>6. QED BY <1>t, <2>1, <2>2, <3>3, <3>4, <3>5, EndStep
  <2>3. CASE ~Owns(h, doc[e])
    <3>1. "processed" \in Status
      BY DEF Status
    <3>2. handler' = [handler EXCEPT ![h] = Idle] /\ UNCHANGED doc
      BY <1>7, <2>3 DEF MarkFailedWrite
    <3>3. QED BY <1>t, <2>1, <3>1, <3>2, EndStep
  <2>4. QED BY <2>2, <2>3
<1>8. ASSUME NEW h \in Handler, Crash(h) PROVE IInv'
  <2>1. "processed" \in Status
    BY DEF Status
  <2>2. QED BY <1>8, <1>t, <2>1, EndStep DEF Crash
<1>9. CASE UNCHANGED vars
  BY <1>9 DEF vars, IInv, TypeOK, ClaimAgrees, LeaseHeld, BudgetRespected,
              TenantBoundary, OnlyClaimsAge, Owns, Active
<1>10. QED
  BY <1>1, <1>2, <1>3, <1>4, <1>5, <1>6, <1>7, <1>8, <1>9 DEF Next

\* Nothing is stored and nobody works at first.
LEMMA InitialInvariant == Init => IInv
<1> SUFFICES ASSUME Init PROVE IInv
  OBVIOUS
<1>1. Idle.pc = "idle" /\ Absent.status = "absent" /\ Absent.age = 0
  BY DEF Idle, Absent
<1>2. TypeOK
  BY <1>1, Shapes DEF Init, TypeOK
<1>3. /\ \A h \in Handler : ~Active(h)
      /\ \A e \in Event : doc[e].status = "absent" /\ doc[e].age = 0
  BY <1>1 DEF Init, Active
<1>4. QED
  BY <1>2, <1>3 DEF IInv, ClaimAgrees, LeaseHeld, BudgetRespected, TenantBoundary,
                    OnlyClaimsAge

\* The inductive invariant holds: a handler whose claim has not run out still
\* owns its document, and what it remembers of the document is right.
THEOREM Inductive == Spec => []IInv
BY InitialInvariant, InductiveStep, PTL DEF Spec

\* Two handlers that own one document hold one token, which no two handlers do.
LEMMA OwnersExclude == IInv => ExclusiveWork
<1> SUFFICES ASSUME IInv PROVE ExclusiveWork
  OBVIOUS
<1>1. \A k \in Handler : handler[k].held \in Age
  BY DEF IInv, TypeOK, HandlerState
<1>2. SUFFICES ASSUME NEW g \in Handler, NEW h \in Handler, g # h,
                      Active(g), Active(h), handler[g].event = handler[h].event,
                      handler[g].held <= StaleAfter, handler[h].held <= StaleAfter
               PROVE FALSE
  BY <1>1, NumberAssumption DEF ExclusiveWork, Age
<1>3. handler[g].claimId = handler[h].claimId
  BY <1>2 DEF IInv, LeaseHeld, Owns
<1>4. QED BY <1>2, <1>3 DEF IInv, ClaimAgrees

\* The stages of one event are run by two handlers at once only after one of them
\* has overrun its claim.
THEOREM ExclusiveWorkHolds == Spec => []ExclusiveWork
BY OwnersExclude, Inductive, PTL

\* A pending event has an attempt left and a failed one none, in every state.
THEOREM BudgetRespectedHolds == Spec => []BudgetRespected
<1>1. IInv => BudgetRespected
  BY DEF IInv
<1>2. QED BY <1>1, Inductive, PTL

\* A handler owns only events of the tenant it works for.
THEOREM TenantBoundaryHolds == Spec => []TenantBoundary
<1>1. IInv => TenantBoundary
  BY DEF IInv
<1>2. QED BY <1>1, Inductive, PTL

\* A processed event only ever disappears, and a failed one never changes: a
\* failed event has no attempt left, so it is not claimable, and the filters of
\* markProcessed and markFailed match processing events alone.
THEOREM TerminalIsFinalHolds == Spec => TerminalIsFinal
<1> DEFINE Final(e) == /\ doc[e].status = "processed" => doc'[e] \in {doc[e], Absent}
                       /\ doc[e].status = "failed" => doc'[e] = doc[e]
<1>1. ASSUME IInv, [Next]_vars, NEW e \in Event PROVE Final(e)
  <2> SUFFICES ASSUME doc[e].status \in {"processed", "failed"} PROVE Final(e)
    OBVIOUS
  <2>t. TypeOK /\ doc[e].attempts \in Nat
    BY <1>1 DEF IInv, TypeOK, Document
  <2>1. CASE Tick
    BY <2>1, <2>t DEF Tick, TypeOK
  <2>2. ASSUME NEW f \in Event, Expire(f) PROVE Final(e)
    BY <2>2, <2>t DEF Expire, TypeOK
  <2>3. ASSUME NEW f \in Event, NEW t \in Tenant, Persist(f, t) PROVE Final(e)
    \* refreshing it changes nothing: only a document being processed has aged
    <3>1. \A d \in Document : d.age = 0 => [d EXCEPT !.age = 0] = d
      BY DEF Document
    <3>2. doc[e] \in Document /\ doc[e].age = 0
      BY <1>1, <2>t DEF IInv, OnlyClaimsAge, TypeOK
    <3>3. doc'[e] = doc[e]
      BY <2>3, <2>t, <3>1, <3>2 DEF Persist, TypeOK
    <3>4. QED BY <3>3
  <2>4. ASSUME NEW f \in Event, NEW t \in Tenant, NEW h \in Handler, Claim(h, f, t)
        PROVE Final(e)
    <3>1. doc[e].status = "failed" => doc[e].attempts >= MaxAttempts
      BY <1>1 DEF IInv, BudgetRespected
    <3>2. ~Claimable(doc[e])
      BY <2>t, <3>1, NumberAssumption DEF Claimable
    <3>3. e # f
      BY <2>4, <3>2 DEF Claim
    <3>4. QED BY <2>4, <2>t, <3>3 DEF Claim, TypeOK
  <2>5. ASSUME NEW h \in Handler, MarkProcessed(h) PROVE Final(e)
    BY <2>5, <2>t DEF MarkProcessed, Owns, TypeOK
  <2>6. ASSUME NEW h \in Handler, MarkFailedRead(h) \/ Crash(h) PROVE Final(e)
    BY <2>6 DEF MarkFailedRead, Crash
  <2>7. ASSUME NEW h \in Handler, MarkFailedWrite(h) PROVE Final(e)
    BY <2>7, <2>t DEF MarkFailedWrite, Owns, TypeOK
  <2>8. CASE UNCHANGED vars
    BY <2>8 DEF vars
  <2>9. QED
    BY <1>1, <2>1, <2>2, <2>3, <2>4, <2>5, <2>6, <2>7, <2>8 DEF Next
<1>2. IInv /\ [Next]_vars => [\A e \in Event : Final(e)]_vars
  BY <1>1
<1>3. QED BY <1>2, Inductive, PTL DEF Spec, TerminalIsFinal

-----------------------------------------------------------------------------

\* EventStore implements LeasedTask: every step of the store is a step of the
\* abstract lease, or changes nothing of it.

Late(e) == doc[e].status = "processing" /\ Stale(doc[e])

Holds(h, e) == Active(h) /\ handler[h].event = e /\ Owns(h, doc[e])

OwnerIsHolder ==
  \A e \in Event :
    /\ \A h \in Handler : Holds(h, e) => OwnerOf(e) = h
    /\ (\A h \in Handler : ~Holds(h, e)) => OwnerOf(e) = None

\* The owner of an event is the one handler whose token the document carries,
\* before a step and after it.
LEMMA OwnerUnique == IInv => OwnerIsHolder
<1>1. ASSUME IInv, NEW e \in Event
      PROVE  \A g, h \in Handler : Holds(g, e) /\ Holds(h, e) => g = h
  BY <1>1 DEF IInv, ClaimAgrees, Holds, Owns
<1>2. QED BY <1>1 DEF OwnerOf, Holds, OwnerIsHolder

LEMMA OwnerUniqueNext == IInv' => OwnerIsHolder'
BY OwnerUnique, PTL

\* A step that changes the lease of one event sets it.
LEMMA LeaseSet ==
  ASSUME NEW k \in Event, NEW s, NEW w,
         LeaseState(k)' = s, OwnerOf(k)' = w, ~Late(k)',
         \A e \in Event : e # k => /\ LeaseState(e)' = LeaseState(e)
                                   /\ OwnerOf(e)' = OwnerOf(e)
                                   /\ Late(e)' = Late(e)
  PROVE  Lease!Set(k, s, w, FALSE)
BY DEF Lease!Set, Late

LEMMA OwnerSame ==
  ASSUME IInv, IInv', NEW e \in Event,
         \A h \in Handler : Holds(h, e)' <=> Holds(h, e)
  PROVE  OwnerOf(e)' = OwnerOf(e)
BY OwnerUnique, OwnerUniqueNext DEF OwnerIsHolder

\* Handlers that leave without touching the documents vanish from the lease.
LEMMA VanishStep ==
  ASSUME IInv, IInv', NEW W \in SUBSET Handler, UNCHANGED doc,
         \A h \in Handler : handler'[h] = IF h \in W THEN Idle ELSE handler[h]
  PROVE  Lease!Next
<1>1. \A h \in Handler : h \in W => ~Active(h)'
  BY DEF Active, Idle
<1>2. ASSUME NEW e \in Event
      PROVE OwnerOf(e)' = IF OwnerOf(e) \in W THEN None ELSE OwnerOf(e)
  <2>1. \A g \in Handler : Holds(g, e)' <=> g \notin W /\ Holds(g, e)
    BY <1>1 DEF Holds, Active, Owns
  <2>2. /\ \A g \in Handler : Holds(g, e) => OwnerOf(e) = g
        /\ (\A g \in Handler : ~Holds(g, e)) => OwnerOf(e) = None
    BY OwnerUnique DEF OwnerIsHolder
  <2>3. /\ \A g \in Handler : Holds(g, e)' => OwnerOf(e)' = g
        /\ (\A g \in Handler : ~Holds(g, e)') => OwnerOf(e)' = None
    BY OwnerUniqueNext DEF OwnerIsHolder
  <2>4. None \notin W
    BY NoneAssumption
  <2>5. QED BY <2>1, <2>2, <2>3, <2>4
<1>3. \A e \in Event : LeaseState(e)' = LeaseState(e) /\ Late(e)' = Late(e)
  BY DEF LeaseState, Late, Stale
<1>4. Lease!Vanish(W)
  BY <1>2, <1>3 DEF Lease!Vanish, Late
<1>5. QED BY <1>4 DEF Lease!Next

\* One handler leaves.
LEMMA LeaveStep ==
  ASSUME IInv, IInv', NEW h \in Handler,
         handler' = [handler EXCEPT ![h] = Idle], UNCHANGED doc
  PROVE  Lease!Next
<1>1. \A g \in Handler : handler'[g] = IF g \in {h} THEN Idle ELSE handler[g]
  BY DEF IInv, TypeOK
<1>2. QED BY <1>1, VanishStep

\* All handlers leave, as they do with their process.
LEMMA DeathStep ==
  ASSUME IInv, IInv', UNCHANGED doc, handler' = [h \in Handler |-> Idle]
  PROVE  Lease!Next
BY VanishStep

\* A handler that closes the document it owns sets the lease of that event.
LEMMA CloseStep ==
  ASSUME IInv, IInv', NEW h \in Handler, Active(h), NEW s \in Status, s # "processing",
         NEW e \in Event, handler[h].event = e, Owns(h, doc[e]),
         handler' = [handler EXCEPT ![h] = Idle],
         doc' = [doc EXCEPT ![e] = [doc[e] EXCEPT !.status = s, !.age = 0]]
  PROVE  /\ \A r : LeaseState(e)' = r => Lease!Set(e, r, None, FALSE)
         /\ doc'[e].status = s
         /\ OwnerOf(e) = h
         /\ LeaseState(e) = "held"
<1>1. TypeOK
  BY DEF IInv
<1>2. \A d \in Document : [d EXCEPT !.status = s, !.age = 0].status = s
  BY DEF Document
<1>3. doc'[e].status = s /\ \A f \in Event : f # e => doc'[f] = doc[f]
  BY <1>1, <1>2 DEF TypeOK
<1>4. /\ ~Active(h)'
      /\ \A g \in Handler : g # h => handler'[g] = handler[g]
  BY <1>1 DEF TypeOK, Active, Idle
<1>5. \A f \in Event : f # e => /\ LeaseState(f)' = LeaseState(f)
                                /\ Late(f)' = Late(f)
  BY <1>3 DEF LeaseState, Late, Stale
<1>6. \A f \in Event : f # e => OwnerOf(f)' = OwnerOf(f)
  <2>1. \A f \in Event, g \in Handler : f # e => (Holds(g, f)' <=> Holds(g, f))
    BY <1>3, <1>4 DEF Holds, Active, Owns
  <2>2. QED BY <2>1, OwnerSame
<1>7. OwnerOf(e)' = None
  <2>1. \A g \in Handler : ~Holds(g, e)'
    BY <1>3 DEF Holds, Owns
  <2>2. QED BY <1>1, <2>1, OwnerUniqueNext DEF OwnerIsHolder
<1>8. OwnerOf(e) = h
  BY <1>1, OwnerUnique DEF OwnerIsHolder, Holds
<1>9. ~Late(e)'
  BY <1>3 DEF Late
<1>10. \A r : LeaseState(e)' = r => Lease!Set(e, r, None, FALSE)
  BY <1>5, <1>6, <1>7, <1>9, LeaseSet
<1>11. LeaseState(e) = "held"
  BY DEF LeaseState, Owns
<1>12. QED BY <1>3, <1>8, <1>10, <1>11

\* Each action of the store, seen through the refinement mapping.
LEMMA RefineStep ==
  ASSUME IInv, IInv', [Next]_vars
  PROVE  [Lease!Next]_(Lease!vars)
<1>t. TypeOK
  BY DEF IInv
<1>1. CASE Tick
  <2>1. \A h \in Handler : /\ handler'[h].event = handler[h].event
                           /\ handler'[h].claimId = handler[h].claimId
                           /\ Active(h)' = Active(h)
    BY <1>1, <1>t DEF Tick, TypeOK, HandlerState, Active
  <2>2. \A e \in Event : /\ doc'[e].status = doc[e].status
                         /\ doc'[e].claimId = doc[e].claimId
                         /\ doc[e].status = "processing" => doc'[e].age = Older(doc[e].age)
    BY <1>1, <1>t DEF Tick, TypeOK, Document
  <2>3. \A e \in Event, h \in Handler : Holds(h, e)' <=> Holds(h, e)
    BY <2>1, <2>2 DEF Holds, Owns
  <2>4. \A e \in Event : OwnerOf(e)' = OwnerOf(e) /\ LeaseState(e)' = LeaseState(e)
    BY <2>2, <2>3, OwnerSame DEF LeaseState
  <2>5. \A e \in Event : Late(e) => Late(e)'
    BY <2>2, <1>t DEF Late, Stale, Older, TypeOK, Document
  <2> DEFINE S == {e \in Event : Late(e)'}
  <2>6. \A e \in Event : Late(e)' <=> Late(e) \/ e \in S
    BY <2>5
  <2>7. \A e \in S : LeaseState(e) = "held"
    BY <2>2 DEF Late, LeaseState
  <2>8. S \in SUBSET {e \in Event : [f \in Event |-> LeaseState(f)][e] = "held"}
    BY <2>7
  <2> HIDE DEF S
  <2>9. Lease!RunOut
    BY <2>4, <2>6, <2>8 DEF Lease!RunOut, Late
  <2>10. QED BY <2>9 DEF Lease!Next
<1>2. ASSUME NEW e \in Event, Expire(e) PROVE Lease!Next
  <2>1. /\ doc'[e].status = "absent"
        /\ \A f \in Event : f # e => doc'[f] = doc[f]
    BY <1>2, <1>t DEF Expire, TypeOK, Absent
  <2>2. \A f \in Event, h \in Handler : Holds(h, f)' <=> Holds(h, f)
    BY <1>2, <2>1 DEF Expire, Holds, Owns, Active
  <2>3. \A f \in Event : OwnerOf(f)' = OwnerOf(f)
    BY <2>2, OwnerSame
  <2>4. OwnerOf(e)' = None
    BY <2>1, OwnerUniqueNext DEF OwnerIsHolder, Holds, Owns
  <2>5. LeaseState(e)' = "none" /\ ~Late(e)' /\ LeaseState(e) = "done"
    BY <1>2, <2>1 DEF LeaseState, Late, Expire
  <2>6. \A f \in Event : f # e => LeaseState(f)' = LeaseState(f) /\ Late(f)' = Late(f)
    BY <2>1 DEF LeaseState, Late, Stale
  <2>7. Lease!Set(e, "none", None, FALSE)
    BY <2>3, <2>4, <2>5, <2>6, LeaseSet
  <2>8. QED BY <2>5, <2>7 DEF Lease!Next, Lease!Forget
<1>3. ASSUME NEW e \in Event, NEW t \in Tenant, Persist(e, t)
      PROVE [Lease!Next]_(Lease!vars)
  <2>1. CASE doc[e].status = "absent"
    <3>1. /\ doc'[e].status = "pending"
          /\ \A f \in Event : f # e => doc'[f] = doc[f]
          /\ UNCHANGED handler
      BY <1>3, <1>t, <2>1 DEF Persist, TypeOK, Absent
    <3>2. \A f \in Event, h \in Handler : Holds(h, f)' <=> Holds(h, f)
      BY <2>1, <3>1 DEF Holds, Owns, Active
    <3>3. \A f \in Event : OwnerOf(f)' = OwnerOf(f)
      BY <3>2, OwnerSame
    <3>4. OwnerOf(e)' = None
      BY <3>1, OwnerUniqueNext DEF OwnerIsHolder, Holds, Owns
    <3>5. LeaseState(e)' = "open" /\ ~Late(e)' /\ LeaseState(e) = "none"
      BY <2>1, <3>1 DEF LeaseState, Late
    <3>6. \A f \in Event : f # e => LeaseState(f)' = LeaseState(f) /\ Late(f)' = Late(f)
      BY <3>1 DEF LeaseState, Late, Stale
    <3>7. Lease!Set(e, "open", None, FALSE)
      BY <3>3, <3>4, <3>5, <3>6, LeaseSet
    <3>8. QED BY <3>5, <3>7 DEF Lease!Next, Lease!Create
  <2>2. CASE doc[e].status # "absent"
    <3>1. /\ doc'[e].age = 0
          /\ \A f \in Event : /\ doc'[f].status = doc[f].status
                              /\ doc'[f].claimId = doc[f].claimId
                              /\ f # e => doc'[f] = doc[f]
          /\ UNCHANGED handler
      BY <1>3, <1>t, <2>2 DEF Persist, TypeOK, Document
    <3>2. \A f \in Event, h \in Handler : Holds(h, f)' <=> Holds(h, f)
      BY <3>1 DEF Holds, Owns, Active
    <3>3. \A f \in Event : OwnerOf(f)' = OwnerOf(f) /\ LeaseState(f)' = LeaseState(f)
      BY <3>1, <3>2, OwnerSame DEF LeaseState
    <3>4. ~Late(e)' /\ \A f \in Event : f # e => Late(f)' = Late(f)
      BY <3>1, NumberAssumption DEF Late, Stale
    <3>5. CASE doc[e].status = "processing"
      <4>1. LeaseState(e) = "held"
        BY <3>5 DEF LeaseState
      <4>2. Lease!Renew(e)
        BY <3>3, <3>4, <4>1 DEF Lease!Renew, Late
      <4>3. QED BY <4>2 DEF Lease!Next
    <3>6. CASE doc[e].status # "processing"
      <4>1. ~Late(e)
        BY <3>6 DEF Late
      <4>2. QED BY <3>3, <3>4, <4>1 DEF Lease!vars, Late
    <3>7. QED BY <3>5, <3>6
  <2>3. QED BY <2>1, <2>2
<1>4. ASSUME NEW e \in Event, NEW t \in Tenant, NEW h \in Handler, Claim(h, e, t)
      PROVE Lease!Next
  <2>1. PICK token \in Token :
          /\ FreshToken(token)
          /\ doc' = [doc EXCEPT ![e] = Claimed(doc[e], token)]
          /\ handler' = [handler EXCEPT
                           ![h] = [pc |-> "running", event |-> e, tenant |-> t,
                                   claimId |-> token, held |-> 0, seen |-> 0]]
    BY <1>4 DEF Claim
  <2>2. /\ \A f \in Event : f # e => doc'[f] = doc[f]
        /\ doc'[e] = Claimed(doc[e], token)
        /\ \A g \in Handler : g # h => handler'[g] = handler[g]
        /\ handler'[h] = [pc |-> "running", event |-> e, tenant |-> t,
                          claimId |-> token, held |-> 0, seen |-> 0]
    BY <1>t, <2>1 DEF TypeOK
  <2>3. /\ doc'[e].status = "processing" /\ doc'[e].claimId = token /\ doc'[e].age = 0
        /\ handler'[h].event = e /\ handler'[h].claimId = token /\ Active(h)'
    BY <2>2 DEF Claimed, Active
  <2>4. \A f \in Event, g \in Handler : f # e => (Holds(g, f)' <=> Holds(g, f))
    BY <1>4, <2>2, <2>3 DEF Holds, Owns, Active, Claim
  <2>5. \A f \in Event : f # e => OwnerOf(f)' = OwnerOf(f)
    BY <2>4, OwnerSame
  <2>6. OwnerOf(e)' = h
    BY <2>3, OwnerUniqueNext DEF OwnerIsHolder, Holds, Owns
  <2>7. LeaseState(e)' = "held" /\ ~Late(e)'
    BY <2>3, NumberAssumption DEF LeaseState, Late, Stale
  <2>8. LeaseState(e) = "open" \/ (LeaseState(e) = "held" /\ Late(e))
    <3>1. doc[e].status # "failed" \/ doc[e].attempts >= MaxAttempts
      BY DEF IInv, BudgetRespected
    <3>2. doc[e].attempts \in Nat
      BY <1>t DEF TypeOK, Document
    <3>3. doc[e].status = "pending" \/ Late(e)
      BY <1>4, <3>1, <3>2, NumberAssumption DEF Claim, Claimable, Late
    <3>4. QED BY <3>3 DEF LeaseState, Late
  <2>9. \A f \in Event : f # e => LeaseState(f)' = LeaseState(f) /\ Late(f)' = Late(f)
    BY <2>2 DEF LeaseState, Late, Stale
  <2>10. Lease!Set(e, "held", h, FALSE)
    BY <2>5, <2>6, <2>7, <2>9, LeaseSet
  <2>11. Lease!Acquire(h, e)
    BY <2>8, <2>10 DEF Lease!Acquire, Late
  <2>12. QED BY <2>11 DEF Lease!Next
<1>5. ASSUME NEW h \in Handler, MarkProcessed(h) PROVE Lease!Next
  <2>1. Active(h)
    BY <1>5 DEF Active, MarkProcessed
  <2>2. PICK e \in Event : handler[h].event = e
    BY <1>t, <2>1 DEF TypeOK, Active
  <2>3. CASE Owns(h, doc[e]) /\ ~Stale(doc[e])
    <3>1. "processed" \in Status
      BY DEF Status
    <3>2. /\ doc' = [doc EXCEPT ![e] = [doc[e] EXCEPT !.status = "processed", !.age = 0]]
          /\ handler' = [handler EXCEPT ![h] = Idle]
      BY <1>5, <2>2, <2>3 DEF MarkProcessed
    <3>3. /\ \A r : LeaseState(e)' = r => Lease!Set(e, r, None, FALSE)
          /\ doc'[e].status = "processed"
          /\ OwnerOf(e) = h
          /\ LeaseState(e) = "held"
      BY <2>1, <2>2, <2>3, <3>1, <3>2, CloseStep
    <3>4. LeaseState(e)' = "done"
      BY <3>3 DEF LeaseState
    <3>5. Lease!Complete(h, e)
      BY <2>3, <3>3, <3>4 DEF Lease!Complete
    <3>6. QED BY <3>5 DEF Lease!Next
  <2>4. CASE ~(Owns(h, doc[e]) /\ ~Stale(doc[e]))
    <3>1. handler' = [handler EXCEPT ![h] = Idle] /\ UNCHANGED doc
      BY <1>5, <2>2, <2>4 DEF MarkProcessed
    <3>2. QED BY <3>1, LeaveStep
  <2>5. QED BY <2>3, <2>4
<1>6. ASSUME NEW h \in Handler, MarkFailedRead(h) PROVE [Lease!Next]_(Lease!vars)
  <2>1. CASE Owns(h, doc[handler[h].event]) /\ ~Stale(doc[handler[h].event])
    <3>1. /\ UNCHANGED doc
          /\ \A g \in Handler : /\ handler'[g].event = handler[g].event
                                /\ handler'[g].claimId = handler[g].claimId
                                /\ Active(g)' = Active(g)
      BY <1>6, <1>t, <2>1 DEF MarkFailedRead, TypeOK, HandlerState, Active
    <3>2. \A f \in Event, g \in Handler : Holds(g, f)' <=> Holds(g, f)
      BY <3>1 DEF Holds, Owns
    <3>3. \A f \in Event : OwnerOf(f)' = OwnerOf(f)
      BY <3>2, OwnerSame
    <3>4. QED BY <3>1, <3>3 DEF Lease!vars, LeaseState, Stale
  <2>2. CASE ~(Owns(h, doc[handler[h].event]) /\ ~Stale(doc[handler[h].event]))
    <3>1. handler' = [handler EXCEPT ![h] = Idle] /\ UNCHANGED doc
      BY <1>6, <2>2 DEF MarkFailedRead
    <3>2. QED BY <3>1, LeaveStep
  <2>3. QED BY <2>1, <2>2
<1>7. ASSUME NEW h \in Handler, MarkFailedWrite(h) PROVE Lease!Next
  <2>1. Active(h)
    BY <1>7 DEF Active, MarkFailedWrite
  <2>2. PICK e \in Event : handler[h].event = e
    BY <1>t, <2>1 DEF TypeOK, Active
  <2>3. CASE Owns(h, doc[e])
    <3>1. PICK s \in {"failed", "pending"} :
            /\ doc' = [doc EXCEPT ![e] = [doc[e] EXCEPT !.status = s, !.age = 0]]
            /\ handler' = [handler EXCEPT ![h] = Idle]
      BY <1>7, <2>2, <2>3 DEF MarkFailedWrite
    <3>2. s \in Status /\ s # "processing"
      BY DEF Status
    <3>3. /\ \A r : LeaseState(e)' = r => Lease!Set(e, r, None, FALSE)
          /\ doc'[e].status = s
          /\ OwnerOf(e) = h
          /\ LeaseState(e) = "held"
      BY <2>1, <2>2, <2>3, <3>1, <3>2, CloseStep
    <3>4. LeaseState(e)' = "open" \/ LeaseState(e)' = "dead"
      BY <3>3 DEF LeaseState
    <3>5. Lease!GiveUp(h, e)
      BY <3>3, <3>4 DEF Lease!GiveUp
    <3>6. QED BY <3>5 DEF Lease!Next
  <2>4. CASE ~Owns(h, doc[e])
    <3>1. handler' = [handler EXCEPT ![h] = Idle] /\ UNCHANGED doc
      BY <1>7, <2>2, <2>4 DEF MarkFailedWrite
    <3>2. QED BY <3>1, LeaveStep
  <2>5. QED BY <2>3, <2>4
<1>8. ASSUME NEW h \in Handler, Crash(h) PROVE Lease!Next
  BY <1>8, LeaveStep DEF Crash
<1>9. CASE UNCHANGED vars
  BY <1>9 DEF vars, Lease!vars, LeaseState, OwnerOf, Active, Owns, Stale
<1>10. QED
  BY <1>1, <1>2, <1>3, <1>4, <1>5, <1>6, <1>7, <1>8, <1>9 DEF Next

\* At first nothing is leased.
LEMMA InitialLease == Init => Lease!Init
<1>1. SUFFICES ASSUME Init PROVE Lease!Init
  OBVIOUS
<1>2. Idle.pc = "idle" /\ Absent.status = "absent"
  BY DEF Idle, Absent
<1>3. \A h \in Handler : ~Active(h)
  BY <1>1, <1>2 DEF Init, Active
<1>4. \A e \in Event : /\ doc[e].status = "absent"
                       /\ LeaseState(e) = "none"
                       /\ OwnerOf(e) = None
  BY <1>1, <1>2, <1>3 DEF Init, LeaseState, OwnerOf
<1>5. QED BY <1>4 DEF Lease!Init

\* The event store implements the lease: only the owner of a live claim completes
\* an event, and a claim changes hands only after it was given up, or ran out and was
\* not renewed by a duplicate persist.
THEOREM StoreImplementsLease == Spec => ImplementsLease
<1>1. IInv /\ IInv' /\ [Next]_vars => [Lease!Next]_(Lease!vars)
  BY RefineStep
<1>2. QED BY <1>1, InitialLease, Inductive, PTL DEF Spec, ImplementsLease, Lease!Spec
=============================================================================
