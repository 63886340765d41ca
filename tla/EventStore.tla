----------------------------- MODULE EventStore -----------------------------
(***************************************************************************)
(* The durable event store (MongoEventStore) and the calls of              *)
(* EventProcessor.handle that use it. Every store operation is one atomic  *)
(* MongoDB command, except markFailed, which reads the document and then   *)
(* updates it.                                                             *)
(*                                                                         *)
(* Time is kept as ages: the time since a document was last written and    *)
(* since a handler was granted its claim, both saturating one unit past    *)
(* STALE_PROCESSING_MS, the only duration the store compares with. Every   *)
(* write sets updatedAt (the schema's timestamps), and only the age of a   *)
(* document that is being processed is ever compared, so only that grows.  *)
(***************************************************************************)
EXTENDS Integers

CONSTANTS
  Event,        \* deterministic event ids (deriveEventId), the documents' _id
  Tenant,
  Handler,      \* calls of EventProcessor.handle in flight, in any process
  Token,        \* the values randomUUID can return
  None,         \* no event, no tenant, no token
  MaxAttempts,  \* MAX_EVENT_ATTEMPTS
  StaleAfter,   \* STALE_PROCESSING_MS, in units of Tick
  AttemptCap    \* bound: an event is claimed at most this often

ASSUME NoneAssumption ==
  /\ None \notin Event
  /\ None \notin Tenant
  /\ None \notin Token
  /\ None \notin Handler
ASSUME NumberAssumption ==
  /\ MaxAttempts \in Nat \ {0}
  /\ StaleAfter \in Nat
  /\ AttemptCap \in Nat

VARIABLES
  doc,      \* the communityEvents collection, by _id
  handler   \* the handlers' local state

vars == <<doc, handler>>

Status == {"absent", "pending", "processing", "processed", "failed"}

Age == 0 .. StaleAfter + 1

Document ==
  [status : Status, tenant : Tenant \cup {None}, attempts : Nat,
   claimId : Token \cup {None}, age : Age]

Absent == [status |-> "absent", tenant |-> None, attempts |-> 0,
           claimId |-> None, age |-> 0]

\* "running": the stages run under the claim. "failing": markFailed has read the
\* document and not yet updated it; seen is the attempt count it read.
HandlerState ==
  [pc : {"idle", "running", "failing"}, event : Event \cup {None},
   tenant : Tenant \cup {None}, claimId : Token \cup {None}, held : Age, seen : Nat]

Idle == [pc |-> "idle", event |-> None, tenant |-> None, claimId |-> None,
         held |-> 0, seen |-> 0]

\* Documents and handlers keep the shape the schema and the handlers' local
\* variables give them; a handler at work has an event and a token.
TypeOK ==
  /\ doc \in [Event -> Document]
  /\ handler \in [Handler -> HandlerState]
  /\ \A h \in Handler :
       handler[h].pc # "idle" => handler[h].event \in Event /\ handler[h].claimId \in Token

Init ==
  /\ doc = [e \in Event |-> Absent]
  /\ handler = [h \in Handler |-> Idle]

-----------------------------------------------------------------------------

Active(h) == handler[h].pc # "idle"

\* updatedAt < now - STALE_PROCESSING_MS
Stale(d) == d.age > StaleAfter

\* Variants of Claimable: the staleness condition dropped; the attempt bound
\* off by one.
ClaimableWhileFresh(d) == d.status \in {"pending", "processing"}

ClaimableAtLimit(d) ==
  \/ d.status = "pending"
  \/ d.status = "processing" /\ Stale(d)
  \/ d.status = "failed" /\ d.attempts <= MaxAttempts

\* The filter that claim, and recover, put on a document.
Claimable(d) ==
  \/ d.status = "pending"
  \/ d.status = "processing" /\ Stale(d)
  \/ d.status = "failed" /\ d.attempts < MaxAttempts

\* Variant of Owns: the claimId condition dropped.
OwnsAnyClaim(h, d) == d.status = "processing"

\* The filter of markProcessed and markFailed: the caller's token is still the
\* document's.
Owns(h, d) ==
  /\ d.status = "processing"
  /\ d.claimId = handler[h].claimId

\* randomUUID: a token no document and no call in flight knows of.
FreshToken(t) ==
  /\ \A e \in Event : doc[e].claimId # t
  /\ \A h \in Handler : handler[h].claimId # t

\* The upsert of an event. One that exists keeps its fields but for updatedAt, which
\* Mongoose sets with every update of a schema that has timestamps: a claim on it is as
\* good as new. (An upsert that loses against another one with a duplicate key comes
\* right after it, when there is nothing to refresh.)
Persist(e, t) ==
  /\ doc' = [doc EXCEPT ![e] =
               IF doc[e].status = "absent"
               THEN [Absent EXCEPT !.status = "pending", !.tenant = t]
               ELSE [doc[e] EXCEPT !.age = 0]]
  /\ UNCHANGED handler

\* What claim's findOneAndUpdate makes of the document.
Claimed(d, token) ==
  [status |-> "processing", tenant |-> d.tenant, attempts |-> d.attempts + 1,
   claimId |-> token, age |-> 0]

\* Variant of Claim: the tenantId condition dropped.
ClaimAcrossTenants(h, e, t) ==
  /\ ~Active(h)
  /\ Claimable(doc[e])
  /\ doc[e].attempts < AttemptCap
  /\ \E token \in Token :
       /\ FreshToken(token)
       /\ doc' = [doc EXCEPT ![e] = Claimed(doc[e], token)]
       /\ handler' = [handler EXCEPT ![h] = [pc |-> "running", event |-> e, tenant |-> t,
                                             claimId |-> token, held |-> 0, seen |-> 0]]

\* A handler of tenant t wins the claim on e. (A refused claim changes nothing.)
Claim(h, e, t) ==
  /\ ~Active(h)
  /\ doc[e].tenant = t
  /\ Claimable(doc[e])
  /\ doc[e].attempts < AttemptCap
  /\ \E token \in Token :
       /\ FreshToken(token)
       /\ doc' = [doc EXCEPT ![e] = Claimed(doc[e], token)]
       /\ handler' = [handler EXCEPT ![h] = [pc |-> "running", event |-> e, tenant |-> t,
                                             claimId |-> token, held |-> 0, seen |-> 0]]

\* Variant of MarkProcessed: the updatedAt condition dropped.
MarkProcessedLate(h) ==
  LET e == handler[h].event IN
  /\ handler[h].pc = "running"
  /\ doc' = IF Owns(h, doc[e])
            THEN [doc EXCEPT ![e] = [doc[e] EXCEPT !.status = "processed", !.age = 0]]
            ELSE doc
  /\ handler' = [handler EXCEPT ![h] = Idle]

\* The handler's stages are done. The update matches only while its claim is live.
MarkProcessed(h) ==
  LET e == handler[h].event IN
  /\ handler[h].pc = "running"
  /\ doc' = IF Owns(h, doc[e]) /\ ~Stale(doc[e])
            THEN [doc EXCEPT ![e] = [doc[e] EXCEPT !.status = "processed", !.age = 0]]
            ELSE doc
  /\ handler' = [handler EXCEPT ![h] = Idle]

\* Variant of MarkFailedRead: the null check dropped, so that the attempts of no
\* document are read.
MarkFailedReadUnchecked(h) ==
  LET e == handler[h].event IN
  /\ handler[h].pc = "running"
  /\ handler' = [handler EXCEPT ![h] =
                   [handler[h] EXCEPT
                      !.pc = "failing",
                      !.seen = IF Owns(h, doc[e]) /\ ~Stale(doc[e])
                               THEN doc[e].attempts ELSE None]]
  /\ UNCHANGED doc

\* A stage failed or threw: markFailed's findOne. Without a live claim it returns.
MarkFailedRead(h) ==
  LET e == handler[h].event IN
  /\ handler[h].pc = "running"
  /\ handler' = [handler EXCEPT ![h] =
                   IF Owns(h, doc[e]) /\ ~Stale(doc[e])
                   THEN [handler[h] EXCEPT !.pc = "failing", !.seen = doc[e].attempts]
                   ELSE Idle]
  /\ UNCHANGED doc

\* markFailed's updateOne. Its staleBefore was computed before the read, and updatedAt
\* only grows: where the token still matches, so does the filter's updatedAt condition.
MarkFailedWrite(h) ==
  LET e == handler[h].event
      next == IF handler[h].seen >= MaxAttempts THEN "failed" ELSE "pending"
  IN
  /\ handler[h].pc = "failing"
  /\ doc' = IF Owns(h, doc[e])
            THEN [doc EXCEPT ![e] = [doc[e] EXCEPT !.status = next, !.age = 0]]
            ELSE doc
  /\ handler' = [handler EXCEPT ![h] = Idle]

\* The process of h dies, or a store call of h itself fails (markFailed may throw).
Crash(h) ==
  /\ Active(h)
  /\ handler' = [handler EXCEPT ![h] = Idle]
  /\ UNCHANGED doc

\* MongoDB's TTL monitor removes a processed document; no other status has an
\* expiresAt (computeExpiry).
Expire(e) ==
  /\ doc[e].status = "processed"
  /\ doc' = [doc EXCEPT ![e] = Absent]
  /\ UNCHANGED handler

Older(a) == IF a > StaleAfter THEN a ELSE a + 1

\* Time passes.
Tick ==
  /\ doc' = [e \in Event |-> IF doc[e].status = "processing"
                             THEN [doc[e] EXCEPT !.age = Older(doc[e].age)]
                             ELSE doc[e]]
  /\ handler' = [h \in Handler |-> IF Active(h)
                                   THEN [handler[h] EXCEPT !.held = Older(handler[h].held)]
                                   ELSE handler[h]]

Next ==
  \/ Tick
  \/ \E e \in Event :
       \/ Expire(e)
       \/ \E t \in Tenant : Persist(e, t) \/ \E h \in Handler : Claim(h, e, t)
  \/ \E h \in Handler :
       MarkProcessed(h) \/ MarkFailedRead(h) \/ MarkFailedWrite(h) \/ Crash(h)

Spec == Init /\ [][Next]_vars

-----------------------------------------------------------------------------

\* A handler whose claim has not run out is still the owner of its document:
\* nobody took the claim over, and nothing closed the document behind its back
\* (claim, markProcessed and markFailed of every other handler).
LeaseHeld ==
  \A h \in Handler :
    Active(h) /\ handler[h].held <= StaleAfter => Owns(h, doc[handler[h].event])

\* Two handlers run the stages of one event at the same time only after one of
\* them has overrun its claim (event-store.ts: the claim lets workers process
\* the same store without overlap).
ExclusiveWork ==
  \A g, h \in Handler :
    g # h /\ Active(g) /\ Active(h) /\ handler[g].event = handler[h].event
      => handler[g].held > StaleAfter \/ handler[h].held > StaleAfter

\* A pending event always has an attempt left and a failed one has none: the
\* decision markFailed takes on the attempt count it read is still the right one
\* when it writes, whatever other handlers did in between.
BudgetRespected ==
  \A e \in Event :
    /\ doc[e].status = "pending" => doc[e].attempts < MaxAttempts
    /\ doc[e].status = "failed" => doc[e].attempts >= MaxAttempts

\* A handler works only on events of the tenant it claimed for: claim's tenantId
\* filter, with ids that do not tell tenants apart.
TenantBoundary ==
  \A h \in Handler :
    Active(h) /\ Owns(h, doc[handler[h].event])
      => doc[handler[h].event].tenant = handler[h].tenant

\* No handler, however late, reopens a finished event: a processed one stays
\* until the TTL monitor removes it, a failed one is never touched again,
\* although claim's filter admits failed events with attempts left.
TerminalIsFinal ==
  [][\A e \in Event :
       /\ doc[e].status = "processed" => doc'[e] \in {doc[e], Absent}
       /\ doc[e].status = "failed" => doc'[e] = doc[e]]_vars

\* What a handler remembers of its claim agrees with the document as long as it
\* is the owner, and no two handlers hold one token. The document may be younger than
\* the claim: a duplicate persist has refreshed it.
ClaimAgrees ==
  /\ \A h \in Handler :
       Active(h) /\ Owns(h, doc[handler[h].event]) =>
           /\ doc[handler[h].event].age <= handler[h].held
           /\ handler[h].pc = "failing" =>
                handler[h].seen = doc[handler[h].event].attempts
  /\ \A g, h \in Handler :
       g # h /\ Active(g) /\ Active(h) => handler[g].claimId # handler[h].claimId

\* Only a document that is being processed ages, so that refreshing another one changes
\* nothing of it.
OnlyClaimsAge == \A e \in Event : doc[e].status # "processing" => doc[e].age = 0

\* The inductive invariant behind the safety properties above.
IInv ==
  /\ TypeOK /\ ClaimAgrees /\ LeaseHeld /\ BudgetRespected /\ TenantBoundary
  /\ OnlyClaimsAge

\* event-store.impl.ts:25-27: a duplicate event leaves the existing record untouched.
\* It does not: TLC refutes this with a claim that a persist refreshes.
DuplicateIsNoOp ==
  [][\A e \in Event, t \in Tenant :
       Persist(e, t) /\ doc[e].status # "absent" => UNCHANGED doc]_vars

\* The store implements the lease that LeasedTask specifies: an event is held by
\* the handler whose token the document carries, and late once it is stale; whoever
\* persists it once more renews the lease.
OwnerOf(e) ==
  IF \E h \in Handler : Active(h) /\ handler[h].event = e /\ Owns(h, doc[e])
  THEN CHOOSE h \in Handler : Active(h) /\ handler[h].event = e /\ Owns(h, doc[e])
  ELSE None

LeaseState(e) ==
  CASE doc[e].status = "absent" -> "none"
    [] doc[e].status = "pending" -> "open"
    [] doc[e].status = "processing" -> "held"
    [] doc[e].status = "processed" -> "done"
    [] doc[e].status = "failed" -> "dead"

Lease == INSTANCE LeasedTask WITH
  Task <- Event, Worker <- Handler, NoWorker <- None, Renewable <- Event,
  state <- [e \in Event |-> LeaseState(e)],
  owner <- [e \in Event |-> OwnerOf(e)],
  late <- [e \in Event |-> doc[e].status = "processing" /\ Stale(doc[e])]

\* Every step of the store is a step of LeasedTask, or none: only the owner completes an
\* event, while its lease runs, and the lease changes hands only after it was given up or
\* has run out and was not renewed.
ImplementsLease == Lease!Spec
=============================================================================
