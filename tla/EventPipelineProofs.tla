------------------------- MODULE EventPipelineProofs -------------------------
(***************************************************************************)
(* Proofs about EventPipeline, for any number of events, messages, syncs   *)
(* and tokens, finitely many handlers, and any limits. What the store      *)
(* guarantees is taken from EventStoreProofs.                              *)
(***************************************************************************)
EXTENDS EventPipeline, FiniteSetTheorems, TLAPS

Facts == INSTANCE EventStoreProofs

LEMMA StoreAssumptions == Facts!NoneAssumption /\ Facts!NumberAssumption
BY PipelineAssumption DEF Facts!NoneAssumption, Facts!NumberAssumption

\* The store of the pipeline is the one EventStoreProofs is about.
LEMMA SameInvariant == Store!IInv <=> Facts!IInv
BY DEF Store!IInv, Store!TypeOK, Store!ClaimAgrees, Store!LeaseHeld, Store!BudgetRespected,
       Store!TenantBoundary, Store!OnlyClaimsAge, Store!Document, Store!HandlerState,
       Store!Active, Store!Owns, Store!Status, Store!Age,
       Facts!IInv, Facts!TypeOK, Facts!ClaimAgrees, Facts!LeaseHeld, Facts!BudgetRespected,
       Facts!TenantBoundary, Facts!OnlyClaimsAge, Facts!Document, Facts!HandlerState,
       Facts!Active, Facts!Owns, Facts!Status, Facts!Age

LEMMA SameInvariantNext == Store!IInv' <=> Facts!IInv'
BY DEF Store!IInv, Store!TypeOK, Store!ClaimAgrees, Store!LeaseHeld, Store!BudgetRespected,
       Store!TenantBoundary, Store!OnlyClaimsAge, Store!Document, Store!HandlerState,
       Store!Active, Store!Owns, Store!Status, Store!Age,
       Facts!IInv, Facts!TypeOK, Facts!ClaimAgrees, Facts!LeaseHeld, Facts!BudgetRespected,
       Facts!TenantBoundary, Facts!OnlyClaimsAge, Facts!Document, Facts!HandlerState,
       Facts!Active, Facts!Owns, Facts!Status, Facts!Age

LEMMA SameSteps ==
  /\ Store!Init <=> Facts!Init
  /\ Store!Next <=> Facts!Next
BY DEF Store!Init, Store!Next, Store!Tick, Store!Expire, Store!Persist, Store!Claim,
       Store!MarkProcessed, Store!MarkFailedRead, Store!MarkFailedWrite, Store!Crash,
       Store!Older, Store!Absent, Store!Idle, Store!Claimable, Store!Claimed, Store!Owns,
       Store!Stale, Store!FreshToken, Store!Active,
       Facts!Init, Facts!Next, Facts!Tick, Facts!Expire, Facts!Persist, Facts!Claim,
       Facts!MarkProcessed, Facts!MarkFailedRead, Facts!MarkFailedWrite, Facts!Crash,
       Facts!Older, Facts!Absent, Facts!Idle, Facts!Claimable, Facts!Claimed, Facts!Owns,
       Facts!Stale, Facts!FreshToken, Facts!Active

\* What a step of the store, or none, leaves of its invariant.
LEMMA StoreKeeps ==
  ASSUME Store!IInv, Store!Next \/ UNCHANGED <<doc, handler>>
  PROVE  Store!IInv'
<1>1. [Facts!Next]_Facts!vars
  BY SameSteps DEF Facts!vars
<1>2. QED
  BY <1>1, StoreAssumptions, SameInvariant, SameInvariantNext, Facts!InductiveStep

LEMMA StoreExcludes ==
  Store!IInv =>
    \A g, h \in Handler :
      g # h /\ Store!Active(g) /\ Store!Active(h) /\ handler[g].event = handler[h].event
        => handler[g].held > StaleAfter \/ handler[h].held > StaleAfter
BY StoreAssumptions, SameInvariant, Facts!OwnersExclude
   DEF Facts!ExclusiveWork, Facts!Active, Store!Active

LEMMA StoreBegins == Store!Init => Store!IInv
BY StoreAssumptions, SameInvariant, SameSteps, Facts!InitialInvariant

-----------------------------------------------------------------------------

\* An idle handler has no event, an idle sync no message, and an absent document has
\* neither owner nor attempts.
LEMMA Shapes ==
  /\ Store!Idle.pc = "idle" /\ Store!Idle.event = None /\ Store!Absent.status = "absent"
  /\ Idle.pc = "idle" /\ Idle \in SyncState
BY DEF Store!Idle, Store!Absent, Idle, SyncState

\* What the store's part of TypeOK says, as the proofs below use it.
LEMMA StoreShapes ==
  IInv => /\ doc \in [Event -> Store!Document]
          /\ handler \in [Handler -> Store!HandlerState]
          /\ \A h \in Handler : handler[h].pc # "idle" =>
               handler[h].event \in Event /\ handler[h].claimId \in Token
BY DEF IInv, Store!IInv, Store!TypeOK

\* An event that a sync call is to persist or publish is one.
LEMMA EventOfSync ==
  TypeOK => \A s \in Sync : sync[s].pc # "idle" => EventOf(s) \in Event
<1> SUFFICES ASSUME TypeOK, NEW s \in Sync, sync[s].pc # "idle" PROVE EventOf(s) \in Event
  OBVIOUS
<1>1. sync[s].message \in Message /\ Message \subseteq Event
  BY PipelineAssumption DEF TypeOK
<1>2. sync[s].pc \in {"announcing", "announced"} => Joined[sync[s].message] \in Event
  BY DEF TypeOK
<1>3. QED BY <1>1, <1>2 DEF EventOf

\* Deliveries are of events that were given, or that waited already.
LEMMA DeliveredOf ==
  ASSUME TypeOK, NEW batch \in SUBSET Event, bus' = Delivered(batch)
  PROVE  /\ bus' \in [Event -> 0 .. DeliveryCap]
         /\ \A e \in Event : bus'[e] > 0 => bus[e] > 0 \/ e \in batch
<1>1. ASSUME NEW e \in Event
      PROVE  /\ Delivered(batch)[e] \in 0 .. DeliveryCap
             /\ Delivered(batch)[e] > 0 => bus[e] > 0 \/ e \in batch
  BY PipelineAssumption DEF TypeOK, Delivered
<1>2. QED BY <1>1 DEF Delivered

\* A delivery that is taken from the bus.
LEMMA Taken ==
  ASSUME TypeOK, NEW e \in Event, bus[e] > 0, bus' = [bus EXCEPT ![e] = @ - 1]
  PROVE  /\ bus' \in [Event -> 0 .. DeliveryCap]
         /\ \A f \in Event : bus'[f] > 0 => bus[f] > 0
BY PipelineAssumption DEF TypeOK

\* Every step is one of the store, or leaves it alone, or is the end of the process.
LEMMA StoreStep ==
  TypeOK /\ [Next]_vars =>
    \/ Store!Next \/ UNCHANGED <<doc, handler>>
    \/ UNCHANGED doc /\ handler' = [h \in Handler |-> Store!Idle]
<1> SUFFICES ASSUME TypeOK, [Next]_vars
             PROVE  \/ Store!Next \/ UNCHANGED <<doc, handler>>
                    \/ UNCHANGED doc /\ handler' = [h \in Handler |-> Store!Idle]
  OBVIOUS
<1>1. Home \in Tenant
  BY PipelineAssumption
<1>2. ASSUME NEW s \in Sync, Persist(s) PROVE Store!Next
  BY <1>1, <1>2, EventOfSync DEF Persist, Store!Next
<1>3. ASSUME NEW h \in Handler, NEW e \in Event, Take(h, e)
      PROVE  Store!Next \/ UNCHANGED <<doc, handler>>
  BY <1>1, <1>3 DEF Take, Store!Next
<1>4. ASSUME NEW h \in Handler, Finish(h) \/ Fail(h) \/ FailWrite(h) \/ Drop(h)
      PROVE  Store!Next
  BY <1>4 DEF Finish, Fail, FailWrite, Drop, Store!Next
<1>5. CASE Tick
  BY <1>5 DEF Tick, Store!Next
<1>6. CASE Crash
  BY <1>6 DEF Crash, stored
<1>7. CASE Boot \/ Recover \/ RecoverFails
  BY <1>7 DEF Boot, Recover, RecoverTurn, RecoverFails, stored
<1>8. ASSUME NEW s \in Sync,
             \/ \E m \in Message : Fetch(s, m)
             \/ Mark(s) \/ See(s) \/ Publish(s) \/ Abort(s)
      PROVE  UNCHANGED <<doc, handler>>
  BY <1>8 DEF Fetch, Mark, See, Publish, Abort, stored
<1>9. ASSUME \/ \E m \in Message : Forget(m)
             \/ \E e \in Event : Miss(e)
      PROVE  UNCHANGED <<doc, handler>>
  BY <1>9 DEF Forget, Miss, stored
<1>10. CASE UNCHANGED vars
  BY <1>10 DEF vars, stored
<1>11. QED BY <1>2, <1>3, <1>4, <1>5, <1>6, <1>7, <1>8, <1>9, <1>10 DEF Next

\* The store's invariant outlives the process: nobody works when it has died.
LEMMA StoreInvariantStep == TypeOK /\ Store!IInv /\ [Next]_vars => Store!IInv'
<1>1. ASSUME Store!IInv, UNCHANGED doc, handler' = [h \in Handler |-> Store!Idle]
      PROVE  Store!IInv'
  <2>1. \A h \in Handler : ~Store!Active(h)'
    BY <1>1, Shapes DEF Store!Active
  <2>2. \A h \in Handler : handler'[h] = Store!Idle
    BY <1>1
  <2>3. Store!Idle \in Store!HandlerState
    BY StoreAssumptions
       DEF Store!Idle, Store!HandlerState, Store!Age, Facts!NumberAssumption
  <2>4. Store!TypeOK'
    BY <1>1, <2>3, Shapes DEF Store!TypeOK, Store!IInv
  <2>5. Store!BudgetRespected'
    BY <1>1 DEF Store!BudgetRespected, Store!IInv
  <2>6. Store!OnlyClaimsAge'
    BY <1>1 DEF Store!OnlyClaimsAge, Store!IInv
  <2>7. QED
    BY <2>1, <2>4, <2>5, <2>6
       DEF Store!IInv, Store!ClaimAgrees, Store!LeaseHeld, Store!TenantBoundary
<1>2. QED BY <1>1, StoreKeeps, StoreStep

-----------------------------------------------------------------------------

\* What one step may do to a document: it never takes one away, reopens none that is
\* processed, and what it closes as processed was claimed.
DocumentMoves(e) ==
  /\ doc[e].status # "absent" => doc'[e].status # "absent"
  /\ doc[e].status = "processed" => doc'[e] = doc[e]

LEMMA DocumentStep ==
  IInv /\ [Next]_vars => \A e \in Event : DocumentMoves(e)
<1> SUFFICES ASSUME IInv, [Next]_vars, NEW e \in Event PROVE DocumentMoves(e)
  OBVIOUS
<1>d. doc \in [Event -> Store!Document]
  BY StoreShapes
<1>u. UNCHANGED doc => DocumentMoves(e)
  BY DEF DocumentMoves
<1>1. ASSUME NEW s \in Sync, Persist(s) PROVE DocumentMoves(e)
  \* a refreshed document is what it was, unless it is being processed
  <2>1. /\ [doc[e] EXCEPT !.age = 0].status = doc[e].status
        /\ doc[e].age = 0 => [doc[e] EXCEPT !.age = 0] = doc[e]
    BY <1>d DEF Store!Document
  <2>2. doc[e].status = "processed" => doc[e].age = 0
    BY DEF IInv, Store!IInv, Store!OnlyClaimsAge
  <2>3. \/ doc'[e] = doc[e]
        \/ doc[e].status = "absent"
        \/ doc'[e] = [doc[e] EXCEPT !.age = 0]
    BY <1>1, <1>d DEF Persist, Store!Persist
  <2>4. CASE doc[e].status = "absent"
    BY <2>4 DEF DocumentMoves
  <2>5. CASE doc[e].status # "absent" /\ doc'[e] = [doc[e] EXCEPT !.age = 0]
    BY <2>1, <2>2, <2>5 DEF DocumentMoves
  <2>6. CASE doc'[e] = doc[e]
    BY <2>6 DEF DocumentMoves
  <2>7. QED BY <2>3, <2>4, <2>5, <2>6
<1>2. ASSUME NEW h \in Handler, NEW f \in Event, Take(h, f) PROVE DocumentMoves(e)
  BY <1>2, <1>d, <1>u
     DEF Take, Store!Claim, Store!Claimable, Store!Claimed, DocumentMoves
<1>3. ASSUME NEW h \in Handler, Finish(h) PROVE DocumentMoves(e)
  BY <1>3, <1>d DEF Finish, Store!MarkProcessed, Store!Owns, Store!Document, DocumentMoves
<1>4. ASSUME NEW h \in Handler, Fail(h) \/ Drop(h) PROVE DocumentMoves(e)
  BY <1>4, <1>u DEF Fail, Store!MarkFailedRead, Drop, Store!Crash
<1>5. ASSUME NEW h \in Handler, FailWrite(h) PROVE DocumentMoves(e)
  BY <1>5, <1>d
     DEF FailWrite, Store!MarkFailedWrite, Store!Owns, Store!Document, DocumentMoves
<1>6. CASE Tick
  BY <1>6, <1>d DEF Tick, Store!Tick, Store!Document, DocumentMoves
<1>7. CASE Crash \/ Boot \/ Recover \/ RecoverFails
  BY <1>7, <1>u DEF Crash, Boot, Recover, RecoverTurn, RecoverFails, stored
<1>8. ASSUME NEW s \in Sync,
             \/ \E m \in Message : Fetch(s, m)
             \/ Mark(s) \/ See(s) \/ Publish(s) \/ Abort(s)
      PROVE  DocumentMoves(e)
  BY <1>8, <1>u DEF Fetch, Mark, See, Publish, Abort, stored
<1>9. ASSUME \/ \E m \in Message : Forget(m)
             \/ \E f \in Event : Miss(f)
      PROVE  DocumentMoves(e)
  BY <1>9, <1>u DEF Forget, Miss, stored
<1>10. CASE UNCHANGED vars
  BY <1>10, <1>u DEF vars, stored
<1>11. QED
  BY <1>1, <1>2, <1>3, <1>4, <1>5, <1>6, <1>7, <1>8, <1>9, <1>10 DEF Next

\* A handler comes to an event only through a claim, of a document that exists.
LEMMA HandlerStep ==
  IInv /\ [Next]_vars =>
    \A h \in Handler, e \in Event :
      handler'[h].event = e => handler[h].event = e \/ doc[e].status # "absent"
<1> SUFFICES ASSUME IInv, [Next]_vars, NEW h \in Handler, NEW e \in Event,
                    handler'[h].event = e, handler[h].event # e
             PROVE  doc[e].status # "absent"
  OBVIOUS
<1>d. handler \in [Handler -> Store!HandlerState] /\ Store!Idle.event # e
  BY StoreShapes, Shapes, PipelineAssumption
<1>1. ASSUME NEW g \in Handler, NEW f \in Event, Take(g, f) PROVE doc[e].status # "absent"
  BY <1>1, <1>d DEF Take, Store!Claim, Store!Claimable
<1>2. ASSUME NEW g \in Handler, Finish(g) \/ Fail(g) \/ FailWrite(g) \/ Drop(g) PROVE FALSE
  <2>1. CASE handler' = [handler EXCEPT ![g] = Store!Idle]
    BY <1>d, <2>1
  <2>2. ASSUME NEW n, handler' = [handler EXCEPT ![g] =
                                    [handler[g] EXCEPT !.pc = "failing", !.seen = n]]
        PROVE  FALSE
    BY <1>d, <2>2 DEF Store!HandlerState
  <2>3. QED
    BY <1>2, <2>1, <2>2 DEF Finish, Fail, FailWrite, Drop, Store!MarkProcessed,
       Store!MarkFailedRead, Store!MarkFailedWrite, Store!Crash
<1>3. CASE Tick
  BY <1>3, <1>d DEF Tick, Store!Tick, Store!HandlerState
<1>4. CASE Crash
  BY <1>4, <1>d DEF Crash
<1>5. CASE UNCHANGED handler
  BY <1>5
<1>6. ASSUME NEW s \in Sync,
             \/ \E m \in Message : Fetch(s, m)
             \/ Mark(s) \/ See(s) \/ Persist(s) \/ Publish(s) \/ Abort(s)
      PROVE  UNCHANGED handler
  BY <1>6 DEF Fetch, Mark, See, Persist, Store!Persist, Publish, Abort
<1>7. QED
  BY <1>1, <1>2, <1>3, <1>4, <1>5, <1>6
     DEF Next, Boot, Recover, RecoverTurn, RecoverFails, Forget, Miss, vars

\* A delivery is of an event that is persisted: the one a sync call has persisted, or
\* what recover has found.
LEMMA BusStep ==
  IInv /\ [Next]_vars =>
    /\ bus' \in [Event -> 0 .. DeliveryCap]
    /\ \A e \in Event : bus'[e] > 0 => bus[e] > 0 \/ doc[e].status # "absent"
<1> DEFINE Good == /\ bus' \in [Event -> 0 .. DeliveryCap]
                   /\ \A e \in Event : bus'[e] > 0 => bus[e] > 0 \/ doc[e].status # "absent"
<1> SUFFICES ASSUME IInv, [Next]_vars PROVE Good
  OBVIOUS
<1>t. TypeOK
  BY DEF IInv
<1>u. UNCHANGED bus => Good
  BY <1>t DEF TypeOK
<1>1. ASSUME NEW s \in Sync, Publish(s) PROVE Good
  <2>1. sync[s].pc # "idle" /\ EventOf(s) \in Event
    BY <1>1, <1>t, EventOfSync DEF Publish
  <2>2. doc[EventOf(s)].status # "absent"
    BY <1>1 DEF Publish, IInv
  <2>3. {EventOf(s)} \in SUBSET Event /\ bus' = Delivered({EventOf(s)})
    BY <1>1, <2>1 DEF Publish
  <2>4. QED BY <1>t, <2>2, <2>3, DeliveredOf
<1>2. CASE Recover
  <2>1. PICK batch \in SUBSET Backlog : bus' = Delivered(batch)
    BY <1>2 DEF Recover, RecoverTurn
  <2>2. batch \in SUBSET Event /\ \A e \in batch : doc[e].status # "absent"
    BY <2>1 DEF Backlog, Store!Claimable
  <2>3. QED BY <1>t, <2>1, <2>2, DeliveredOf
<1>3. ASSUME NEW e \in Event, Miss(e) \/ \E h \in Handler : Take(h, e) PROVE Good
  <2>1. bus[e] > 0 /\ bus' = [bus EXCEPT ![e] = @ - 1]
    BY <1>3 DEF Miss, Take
  <2>2. QED BY <1>t, <2>1, Taken
<1>4. CASE Crash
  BY <1>4, PipelineAssumption DEF Crash
<1>5. ASSUME NEW s \in Sync,
             \/ \E m \in Message : Fetch(s, m)
             \/ Mark(s) \/ See(s) \/ Persist(s) \/ Abort(s)
      PROVE  UNCHANGED bus
  BY <1>5 DEF Fetch, Mark, See, Persist, Abort
<1>6. ASSUME NEW h \in Handler, Finish(h) \/ Fail(h) \/ FailWrite(h) \/ Drop(h)
      PROVE  UNCHANGED bus
  BY <1>6 DEF Finish, Fail, FailWrite, Drop
<1>7. Boot \/ RecoverFails \/ Tick \/ UNCHANGED vars \/ (\E m \in Message : Forget(m))
        => UNCHANGED bus
  BY DEF Boot, RecoverFails, Tick, Forget, vars
<1>8. QED BY <1>1, <1>2, <1>3, <1>4, <1>5, <1>6, <1>7, <1>u DEF Next

-----------------------------------------------------------------------------

\* What IInv says of a sync call, given the known users and the persisted events.
SyncFine(k, known, kept) ==
  /\ k \in SyncState
  /\ k.pc # "idle" => k.message \in Message
  /\ k.pc \in {"announcing", "announced"} => Joined[k.message] \in known
  /\ k.pc = "announced" => Joined[k.message] \in kept
  /\ k.pc = "posted" => k.message \in kept

Kept == {e \in Event : doc[e].status # "absent"}

SyncsFine == sync \in [Sync -> SyncState] /\ \A s \in Sync : SyncFine(sync[s], seen, Kept)

LEMMA IdleSync == \A known, kept : SyncFine(Idle, known, kept)
BY Shapes DEF SyncFine, Idle

\* IInv, with what it says of the sync calls taken together.
LEMMA InvariantParts ==
  IInv <=> /\ Store!IInv /\ DurableFirst /\ RunsAccounted /\ SyncsFine
           /\ marked \subseteq Message /\ seen \subseteq Event \ Message
           /\ bus \in [Event -> 0 .. DeliveryCap]
           /\ recovery \in {"down", "running", "done", "failed"}
           /\ runs \in [Event -> Nat] /\ excused \in [Event -> Nat]
<1>1. Store!IInv => Store!TypeOK
  BY DEF Store!IInv
<1>2. Message \subseteq Event
  BY PipelineAssumption
<1>3. QED
  BY <1>1, <1>2 DEF IInv, TypeOK, SyncsFine, SyncFine, Kept, EventOf

LEMMA InvariantPartsNext ==
  IInv' <=> /\ Store!IInv' /\ DurableFirst' /\ RunsAccounted' /\ SyncsFine'
            /\ marked' \subseteq Message /\ seen' \subseteq Event \ Message
            /\ bus' \in [Event -> 0 .. DeliveryCap]
            /\ recovery' \in {"down", "running", "done", "failed"}
            /\ runs' \in [Event -> Nat] /\ excused' \in [Event -> Nat]
<1>1. Store!IInv' => Store!TypeOK'
  BY DEF Store!IInv
<1>2. Message \subseteq Event
  BY PipelineAssumption
<1>3. QED
  BY <1>1, <1>2 DEF IInv, TypeOK, SyncsFine, SyncFine, Kept, EventOf

\* Known users stay known and persisted events persisted: a sync call that does nothing,
\* or one that goes on as it should, leaves all of them fine.
LEMMA OneSync ==
  ASSUME SyncsFine, seen \subseteq seen', \A e \in Event : DocumentMoves(e),
         \/ UNCHANGED sync
         \/ \E s \in Sync : \E k : SyncFine(k, seen', Kept') /\ sync' = [sync EXCEPT ![s] = k]
  PROVE  SyncsFine'
<1>1. Kept \subseteq Kept'
  BY DEF Kept, DocumentMoves
<1>2. \A s \in Sync : SyncFine(sync[s], seen', Kept')
  BY <1>1 DEF SyncsFine, SyncFine
<1>3. \A s \in Sync : SyncFine(sync'[s], seen', Kept')
  BY <1>2 DEF SyncsFine
<1>4. \A s \in Sync : sync'[s] \in SyncState
  BY <1>3 DEF SyncFine
<1>5. sync' \in [Sync -> SyncState]
  BY <1>4 DEF SyncsFine
<1>6. QED BY <1>3, <1>5 DEF SyncsFine

LEMMA SyncStep ==
  IInv /\ [Next]_vars =>
    SyncsFine' /\ marked' \subseteq Message /\ seen' \subseteq Event \ Message
<1> DEFINE Good == SyncsFine' /\ marked' \subseteq Message /\ seen' \subseteq Event \ Message
<1> SUFFICES ASSUME IInv, [Next]_vars PROVE Good
  OBVIOUS
<1>i. SyncsFine /\ marked \subseteq Message /\ seen \subseteq Event \ Message
  BY InvariantParts
<1>m. \A e \in Event : DocumentMoves(e)
  BY DocumentStep
<1>k. \A s \in Sync : SyncFine(sync[s], seen, Kept)
  BY <1>i DEF SyncsFine
<1>g. ASSUME NEW s \in Sync, NEW pc, GoOn(s, pc)
      PROVE  sync' = [sync EXCEPT ![s] = [sync[s] EXCEPT !.pc = pc]]
  BY <1>g, <1>i DEF GoOn, SyncsFine
<1>1. ASSUME NEW s \in Sync, NEW m \in Message, Fetch(s, m) PROVE Good
  <2>1. SyncFine([pc |-> "marking", message |-> m], seen, Kept')
    BY DEF SyncFine, SyncState
  <2>2. sync' = [sync EXCEPT ![s] = [pc |-> "marking", message |-> m]] /\ UNCHANGED stored
    BY <1>1 DEF Fetch
  <2>3. QED BY <1>i, <1>m, <2>1, <2>2, OneSync DEF stored
<1>2. ASSUME NEW s \in Sync, Mark(s) PROVE Good
  <2>1. SyncFine([sync[s] EXCEPT !.pc = "seeing"], seen', Kept')
    BY <1>2, <1>k DEF Mark, SyncFine, SyncState
  <2>2. sync[s].message \in Message
    BY <1>2, <1>k DEF Mark, SyncFine
  <2>3. QED BY <1>2, <1>g, <1>i, <1>m, <2>1, <2>2, OneSync DEF Mark
<1>3. ASSUME NEW s \in Sync, See(s) PROVE Good
  <2> DEFINE u == Joined[sync[s].message]
  <2>1. sync[s].message \in Message /\ sync[s].pc = "seeing"
    BY <1>3, <1>k DEF See, SyncFine
  <2>2. u \in (Event \ Message) \cup {None}
    BY <2>1, PipelineAssumption
  <2>3. CASE u = None \/ u \in seen
    <3>1. SyncFine([sync[s] EXCEPT !.pc = "posting"], seen', Kept')
      BY <1>k, <2>1 DEF SyncFine, SyncState
    <3>2. QED BY <1>3, <1>g, <1>i, <1>m, <2>3, <3>1, OneSync DEF See
  <2>4. CASE ~(u = None \/ u \in seen)
    <3>1. seen' = seen \cup {u} /\ GoOn(s, "announcing") /\ UNCHANGED marked
      BY <1>3, <2>4 DEF See
    <3>2. SyncFine([sync[s] EXCEPT !.pc = "announcing"], seen', Kept')
      BY <1>k, <2>1, <3>1 DEF SyncFine, SyncState
    <3>3. QED BY <1>g, <1>i, <1>m, <2>2, <2>4, <3>1, <3>2, OneSync
  <2>5. QED BY <2>3, <2>4
<1>4. ASSUME NEW s \in Sync, Persist(s) PROVE Good
  <2>1. sync[s].pc \in {"announcing", "posting"} /\ sync[s].message \in Message
    BY <1>4, <1>k DEF Persist, SyncFine
  <2>2. EventOf(s) \in Event
    BY <2>1, EventOfSync DEF IInv
  <2>3. EventOf(s) \in Kept'
    BY <1>4, <2>2, StoreShapes
       DEF Persist, Store!Persist, Store!Absent, Store!Document, Kept
  <2>4. UNCHANGED <<marked, seen>>
    BY <1>4 DEF Persist
  <2>5. CASE sync[s].pc = "announcing"
    <3>1. SyncFine([sync[s] EXCEPT !.pc = "announced"], seen', Kept')
      BY <1>k, <2>1, <2>3, <2>4, <2>5 DEF SyncFine, SyncState, EventOf
    <3>2. QED BY <1>4, <1>g, <1>i, <1>m, <2>4, <2>5, <3>1, OneSync DEF Persist
  <2>6. CASE sync[s].pc = "posting"
    <3>1. SyncFine([sync[s] EXCEPT !.pc = "posted"], seen', Kept')
      BY <1>k, <2>1, <2>3, <2>4, <2>6 DEF SyncFine, SyncState, EventOf
    <3>2. QED BY <1>4, <1>g, <1>i, <1>m, <2>4, <2>6, <3>1, OneSync DEF Persist
  <2>7. QED BY <2>1, <2>5, <2>6
<1>5. ASSUME NEW s \in Sync, Publish(s) PROVE Good
  <2>1. UNCHANGED <<marked, seen>>
    BY <1>5 DEF Publish, stored
  <2>2. CASE sync[s].pc = "announced"
    <3>1. SyncFine([sync[s] EXCEPT !.pc = "posting"], seen', Kept')
      BY <1>k, <2>1, <2>2 DEF SyncFine, SyncState
    <3>2. QED BY <1>5, <1>g, <1>i, <1>m, <2>1, <2>2, <3>1, OneSync DEF Publish
  <2>3. CASE sync[s].pc # "announced"
    BY <1>5, <1>i, <1>m, <2>1, <2>3, IdleSync, OneSync DEF Publish
  <2>4. QED BY <2>2, <2>3
<1>6. ASSUME NEW s \in Sync, Abort(s) PROVE Good
  BY <1>6, <1>i, <1>m, IdleSync, OneSync DEF Abort, stored
<1>7. CASE Crash
  <2>1. \A s \in Sync : sync'[s] = Idle
    BY <1>7 DEF Crash
  <2>2. SyncsFine'
    BY <1>7, <2>1, IdleSync, Shapes DEF Crash, SyncsFine
  <2>3. QED BY <1>7, <1>i, <2>2 DEF Crash, stored
<1>8. ASSUME NEW m \in Message, Forget(m) PROVE Good
  BY <1>8, <1>i, <1>m, OneSync DEF Forget
<1>9. CASE UNCHANGED <<sync, seen, marked>>
  BY <1>9, <1>i, <1>m, OneSync
<1>10. ASSUME NEW h \in Handler, Finish(h) \/ Fail(h) \/ FailWrite(h) \/ Drop(h)
                                \/ \E e \in Event : Take(h, e)
       PROVE  UNCHANGED <<sync, seen, marked>>
  BY <1>10 DEF Finish, Fail, FailWrite, Drop, Take
<1>11. Boot \/ Recover \/ RecoverFails \/ Tick \/ UNCHANGED vars \/ (\E e \in Event : Miss(e))
         => UNCHANGED <<sync, seen, marked>>
  BY DEF Boot, Recover, RecoverTurn, RecoverFails, Tick, Miss, vars, stored
<1>12. QED
  BY <1>1, <1>2, <1>3, <1>4, <1>5, <1>6, <1>7, <1>8, <1>9, <1>10, <1>11 DEF Next

-----------------------------------------------------------------------------

\* The runs of an event are finitely many.
LEMMA RunningFinite ==
  \A e : IsFiniteSet(Running(e)) /\ Cardinality(Running(e)) \in Nat
<1>1. ASSUME NEW e PROVE IsFiniteSet(Running(e))
  BY FS_Subset, PipelineAssumption DEF Running
<1>2. QED BY <1>1, FS_CardinalityType

\* How a step that sets one handler changes the runs.
LEMMA OneRun ==
  ASSUME handler \in [Handler -> Store!HandlerState], NEW h \in Handler, NEW k,
         handler' = [handler EXCEPT ![h] = k]
  PROVE  \A e : Running(e)' = IF k.pc = "running" /\ k.event = e
                              THEN Running(e) \cup {h} ELSE Running(e) \ {h}
BY DEF Running

\* What RunsAccounted says of one event.
Open(e) == IF doc[e].status = "processed" THEN 1 ELSE 0

Accounted(e) == runs[e] = excused[e] + Cardinality(Running(e)) + Open(e)

\* A run of h that ends is excused, or else closes its event.
LEMMA RunEnds ==
  ASSUME IInv, NEW h \in Handler, handler[h].pc = "running", NEW k, k.pc # "running",
         handler' = [handler EXCEPT ![h] = k], UNCHANGED runs,
         NEW f \in Event, f = handler[h].event,
         \A e \in Event : e # f => Open(e)' = Open(e),
         \/ UNCHANGED excused /\ Open(f)' = Open(f) + 1
         \/ Excuse(f) /\ Open(f)' = Open(f)
  PROVE  \A e \in Event : Accounted(e)' /\ excused'[e] \in Nat
<1>1. handler \in [Handler -> Store!HandlerState]
  BY StoreShapes
<1>2. ASSUME NEW e \in Event PROVE Accounted(e)' /\ excused'[e] \in Nat
  <2>1. Running(e)' = Running(e) \ {h} /\ (h \in Running(e) <=> e = f)
    BY <1>1, OneRun DEF Running
  <2>2. Cardinality(Running(e)') =
          IF e = f THEN Cardinality(Running(e)) - 1 ELSE Cardinality(Running(e))
    BY <2>1, FS_RemoveElement, RunningFinite
  <2>3. Accounted(e) /\ runs[e] \in Nat /\ excused[e] \in Nat
        /\ excused \in [Event -> Nat] /\ Cardinality(Running(e)) \in Nat /\ Open(e) \in Nat
    BY InvariantParts, RunningFinite DEF RunsAccounted, Accounted, Open
  <2>4. excused'[e] = IF e = f /\ Open(f)' = Open(f) THEN excused[e] + 1 ELSE excused[e]
    BY <1>1, <2>3 DEF Excuse, Open
  <2>5. Open(e)' = IF e = f /\ Open(f)' # Open(f) THEN Open(e) + 1 ELSE Open(e)
    BY <2>3 DEF Open
  <2>6. Cardinality(Running(e)') \in Int /\ Open(e)' \in Nat
    BY <2>2, <2>3, <2>5
  <2>7. runs'[e] = excused'[e] + Cardinality(Running(e)') + Open(e)'
    BY <2>2, <2>3, <2>4, <2>5 DEF Accounted
  <2>8. QED BY <2>3, <2>4, <2>7 DEF Accounted
<1>3. QED BY <1>2

\* Steps that start and end no run.
LEMMA RunsStay ==
  ASSUME IInv, \A e \in Event : Running(e)' = Running(e) /\ Open(e)' = Open(e),
         UNCHANGED <<runs, excused>>
  PROVE  \A e \in Event : Accounted(e)' /\ excused'[e] \in Nat
BY InvariantParts DEF RunsAccounted, Accounted, Open

LEMMA AccountStep ==
  IInv /\ [Next]_vars =>
    RunsAccounted' /\ runs' \in [Event -> Nat] /\ excused' \in [Event -> Nat]
<1> DEFINE Good == \A e \in Event : Accounted(e)' /\ excused'[e] \in Nat
<1> SUFFICES ASSUME IInv, [Next]_vars
             PROVE  Good /\ runs' \in [Event -> Nat]
                    /\ excused' \in [Event -> Nat]
  BY DEF RunsAccounted, Accounted, Open
<1>d. /\ doc \in [Event -> Store!Document] /\ handler \in [Handler -> Store!HandlerState]
      /\ runs \in [Event -> Nat] /\ excused \in [Event -> Nat]
      /\ \A e \in Event : Accounted(e)
      /\ \A h \in Handler : handler[h].pc # "idle" => handler[h].event \in Event
  BY StoreShapes, InvariantParts DEF RunsAccounted, Accounted, Open
<1>s. UNCHANGED doc => \A e \in Event : Open(e)' = Open(e)
  BY DEF Open
<1>u. UNCHANGED <<doc, handler, runs, excused>> => Good
  BY <1>s, RunsStay DEF Running
<1>r. UNCHANGED runs \/ \E e \in Event : runs' = [runs EXCEPT ![e] = @ + 1]
  BY DEF Next, Crash, Boot, Recover, RecoverTurn, RecoverFails, Tick, Fetch, Mark, See, Persist,
         Publish, Abort, Forget, Miss, Take, Finish, Fail, FailWrite, Drop, vars, ghost
<1>x. excused' \in [Event -> Nat]
  <2>1. CASE Crash
    BY <1>d, <2>1, RunningFinite DEF Crash
  <2>2. CASE UNCHANGED excused \/ \E e \in Event : Excuse(e)
    BY <1>d, <2>2 DEF Excuse
  <2>3. ASSUME NEW h \in Handler, Finish(h) \/ Fail(h) \/ FailWrite(h) \/ Drop(h)
        PROVE  UNCHANGED excused \/ \E e \in Event : Excuse(e)
    BY <1>d, <2>3 DEF Finish, Fail, FailWrite, Drop, Store!MarkProcessed, Store!MarkFailedRead,
                      ghost
  <2>4. QED
    BY <2>1, <2>2, <2>3 DEF Next, Boot, Recover, RecoverTurn, RecoverFails, Tick, Fetch, Mark,
       See, Persist, Publish, Abort, Forget, Miss, Take, vars, ghost
<1>1. ASSUME NEW h \in Handler, NEW f \in Event, Take(h, f) PROVE Good
  <2>1. CASE UNCHANGED <<doc, handler, runs>>
    BY <1>1, <1>u, <2>1 DEF Take
  <2>2. CASE Store!Claim(h, f, Home) /\ runs' = [runs EXCEPT ![f] = @ + 1]
    <3>1. PICK token \in Token : \E k :
            /\ doc' = [doc EXCEPT ![f] = Store!Claimed(doc[f], token)]
            /\ handler' = [handler EXCEPT ![h] = k]
            /\ k.pc = "running" /\ k.event = f
      <4> DEFINE k(token) == [pc |-> "running", event |-> f, tenant |-> Home,
                              claimId |-> token, held |-> 0, seen |-> 0]
      <4>1. PICK token \in Token :
              /\ doc' = [doc EXCEPT ![f] = Store!Claimed(doc[f], token)]
              /\ handler' = [handler EXCEPT ![h] = k(token)]
        BY <2>2 DEF Store!Claim
      <4>2. k(token).pc = "running" /\ k(token).event = f
        OBVIOUS
      <4> HIDE DEF k
      <4>3. QED BY <4>1, <4>2
    <3>2. handler[h].pc = "idle" /\ doc[f].status # "processed"
      BY <2>2 DEF Store!Claim, Store!Active, Store!Claimable
    <3>3. \A e \in Event : Open(e)' = Open(e)
      BY <1>d, <3>1, <3>2 DEF Open, Store!Claimed
    <3>4. ASSUME NEW e \in Event PROVE Accounted(e)' /\ excused'[e] \in Nat
      <4>1. Running(e)' = IF e = f THEN Running(e) \cup {h} ELSE Running(e) \ {h}
        BY <1>d, <3>1, OneRun
      <4>2. h \notin Running(e)
        BY <3>2 DEF Running
      <4>3. Cardinality(Running(e)') =
              IF e = f THEN Cardinality(Running(e)) + 1 ELSE Cardinality(Running(e))
        BY <4>1, <4>2, FS_AddElement, FS_RemoveElement, RunningFinite
      <4>4. runs'[e] = IF e = f THEN runs[e] + 1 ELSE runs[e]
        BY <1>d, <2>2
      <4>5. Cardinality(Running(e)) \in Nat /\ runs[e] \in Nat /\ excused[e] \in Nat
            /\ Open(e) \in Nat /\ UNCHANGED excused
        BY <1>1, <1>d, RunningFinite DEF Open, Take
      <4>6. QED BY <1>d, <3>3, <4>3, <4>4, <4>5 DEF Accounted
    <3>5. QED BY <3>4
  <2>3. QED BY <1>1, <2>1, <2>2 DEF Take
<1>2. ASSUME NEW h \in Handler, Finish(h) PROVE Good
  <2>p. PICK f \in Event : f = handler[h].event
    BY <1>2, <1>d DEF Finish, Store!MarkProcessed
  <2>1. /\ handler[h].pc = "running" /\ UNCHANGED runs
        /\ handler' = [handler EXCEPT ![h] = Store!Idle]
    BY <1>2, <1>d DEF Finish, Store!MarkProcessed
  <2>2. CASE Store!Owns(h, doc[f]) /\ ~Store!Stale(doc[f])
    <3>1. doc' = [doc EXCEPT ![f] = [doc[f] EXCEPT !.status = "processed", !.age = 0]]
          /\ UNCHANGED excused
      BY <1>2, <2>2, <2>p DEF Finish, Store!MarkProcessed
    <3>2. doc[f].status = "processing"
      BY <2>2 DEF Store!Owns
    <3>3. doc'[f].status = "processed" /\ \A e \in Event : e # f => doc'[e] = doc[e]
      BY <1>d, <2>1, <3>1 DEF Store!Document
    <3>4. Open(f)' = Open(f) + 1 /\ \A e \in Event : e # f => Open(e)' = Open(e)
      BY <3>2, <3>3 DEF Open
    <3>5. QED BY <2>1, <2>p, <3>1, <3>4, RunEnds, Shapes
  <2>3. CASE ~(Store!Owns(h, doc[f]) /\ ~Store!Stale(doc[f]))
    <3>1. UNCHANGED doc /\ Excuse(f)
      BY <1>2, <2>3, <2>p DEF Finish, Store!MarkProcessed
    <3>2. QED BY <1>s, <2>1, <2>p, <3>1, RunEnds, Shapes
  <2>4. QED BY <2>2, <2>3
<1>3. ASSUME NEW h \in Handler, Fail(h) PROVE Good
  <2>p. PICK f \in Event : f = handler[h].event
    BY <1>3, <1>d DEF Fail, Store!MarkFailedRead
  <2>1. handler[h].pc = "running" /\ UNCHANGED <<doc, runs>> /\ Excuse(f)
    BY <1>3, <2>p DEF Fail, Store!MarkFailedRead
  <2>2. CASE handler' = [handler EXCEPT ![h] = Store!Idle]
    BY <1>s, <2>1, <2>2, <2>p, RunEnds, Shapes
  <2>3. ASSUME NEW n, handler' = [handler EXCEPT ![h] =
                                    [handler[h] EXCEPT !.pc = "failing", !.seen = n]]
        PROVE  Good
    <3>1. [handler[h] EXCEPT !.pc = "failing", !.seen = n].pc # "running"
      BY <1>d DEF Store!HandlerState
    <3>2. QED BY <1>s, <2>1, <2>3, <2>p, <3>1, RunEnds
  <2>4. QED BY <1>3, <2>2, <2>3 DEF Fail, Store!MarkFailedRead
<1>4. ASSUME NEW h \in Handler, FailWrite(h) PROVE Good
  <2>1. handler[h].pc = "failing" /\ UNCHANGED <<runs, excused>>
        /\ handler' = [handler EXCEPT ![h] = Store!Idle]
    BY <1>4 DEF FailWrite, Store!MarkFailedWrite, ghost
  <2>2. \A e \in Event : Running(e)' = Running(e)
    BY <1>d, <2>1, OneRun, Shapes DEF Running
  <2>3. \A e \in Event : Open(e)' = Open(e)
    BY <1>4, <1>d DEF FailWrite, Store!MarkFailedWrite, Store!Owns, Store!Document, Open
  <2>4. QED BY <2>1, <2>2, <2>3, RunsStay
<1>5. ASSUME NEW h \in Handler, Drop(h) PROVE Good
  <2>1. UNCHANGED <<doc, runs>> /\ handler' = [handler EXCEPT ![h] = Store!Idle]
    BY <1>5 DEF Drop, Store!Crash
  <2>2. CASE handler[h].pc = "running"
    <3>1. PICK f \in Event : f = handler[h].event
      BY <1>d, <2>2
    <3>2. Excuse(f)
      BY <1>5, <2>2, <3>1 DEF Drop
    <3>3. QED BY <1>s, <2>1, <2>2, <3>1, <3>2, RunEnds, Shapes
  <2>3. CASE handler[h].pc # "running"
    <3>1. \A e \in Event : Running(e)' = Running(e)
      BY <1>d, <2>1, <2>3, OneRun, Shapes DEF Running
    <3>2. UNCHANGED excused
      BY <1>5, <2>3 DEF Drop
    <3>3. QED BY <1>s, <2>1, <3>1, <3>2, RunsStay
  <2>4. QED BY <2>2, <2>3
<1>6. ASSUME Crash PROVE Good
  <2>1. ASSUME NEW e \in Event PROVE Accounted(e)' /\ excused'[e] \in Nat
    <3>1. Running(e)' = {} /\ UNCHANGED runs /\ Open(e)' = Open(e)
      BY <1>6, Shapes DEF Crash, Running, stored, Open
    <3>2. Cardinality(Running(e)') = 0
      BY <3>1, FS_EmptySet
    <3>3. excused'[e] = excused[e] + Cardinality(Running(e))
      BY <1>6 DEF Crash
    <3>4. excused[e] \in Nat /\ Cardinality(Running(e)) \in Nat /\ Open(e) \in Nat
      BY <1>d, RunningFinite DEF Open
    <3>5. QED BY <1>d, <3>1, <3>2, <3>3, <3>4 DEF Accounted
  <2>2. QED BY <2>1
<1>7. ASSUME Tick PROVE Good
  <2>1. \A h \in Handler : handler'[h].pc = handler[h].pc /\ handler'[h].event = handler[h].event
    BY <1>7, <1>d DEF Tick, Store!Tick, Store!HandlerState
  <2>2. \A e \in Event : Running(e)' = Running(e)
    BY <2>1 DEF Running
  <2>3. \A e \in Event : Open(e)' = Open(e)
    BY <1>7, <1>d DEF Tick, Store!Tick, Store!Document, Open
  <2>4. QED BY <1>7, <2>2, <2>3, RunsStay DEF Tick, ghost
<1>8. ASSUME NEW s \in Sync, Persist(s) PROVE Good
  <2>1. UNCHANGED <<handler, runs, excused>>
    BY <1>8 DEF Persist, Store!Persist, ghost
  <2>2. \A e \in Event : Open(e)' = Open(e)
    BY <1>8, <1>d DEF Persist, Store!Persist, Store!Absent, Store!Document, Open
  <2>3. QED BY <2>1, <2>2, RunsStay DEF Running
<1>9. ASSUME UNCHANGED <<stored, handler, ghost>> PROVE Good
  BY <1>9, <1>u DEF stored, ghost
<1>10. ASSUME UNCHANGED <<doc, handler, ghost>> PROVE Good
  BY <1>10, <1>u DEF ghost
<1>11. QED
  <2>1. runs' \in [Event -> Nat]
    BY <1>d, <1>r
  <2>2. Good
    BY <1>1, <1>2, <1>3, <1>4, <1>5, <1>6, <1>7, <1>8, <1>9, <1>10
       DEF Next, Boot, Recover, RecoverTurn, RecoverFails, Fetch, Mark, See, Publish, Abort,
           Forget, Miss, vars
  <2>3. QED BY <1>x, <2>1, <2>2

-----------------------------------------------------------------------------

LEMMA InductiveStep == IInv /\ [Next]_vars => IInv'
<1> SUFFICES ASSUME IInv, [Next]_vars PROVE IInv'
  OBVIOUS
<1>1. Store!IInv'
  BY StoreInvariantStep DEF IInv
<1>2. DurableFirst'
  <2>1. SUFFICES ASSUME NEW e \in Event,
                        bus'[e] > 0 \/ \E h \in Handler : handler'[h].event = e
                 PROVE  doc'[e].status # "absent"
    BY DEF DurableFirst
  <2>2. bus[e] > 0 \/ (\E h \in Handler : handler[h].event = e) => doc[e].status # "absent"
    BY DEF IInv, DurableFirst
  <2>3. doc[e].status # "absent"
    BY <2>1, <2>2, BusStep, HandlerStep
  <2>4. QED BY <2>3, DocumentStep DEF DocumentMoves
<1>3. recovery' \in {"down", "running", "done", "failed"}
  BY DEF IInv, TypeOK, Next, Crash, Boot, Recover, RecoverTurn, RecoverFails, Tick, Fetch, Mark,
         See, Persist, Publish, Abort, Forget, Miss, Take, Finish, Fail, FailWrite, Drop, vars
<1>4. QED BY <1>1, <1>2, <1>3, AccountStep, BusStep, SyncStep, InvariantPartsNext

LEMMA InitialInvariant == Init => IInv
<1> SUFFICES ASSUME Init PROVE IInv
  OBVIOUS
<1>1. Store!IInv
  BY StoreBegins DEF Init
<1>2. /\ \A h \in Handler : handler[h] = Store!Idle
      /\ \A e \in Event : doc[e] = Store!Absent
  BY DEF Init, Store!Init
<1>3. DurableFirst
  BY <1>2, Shapes, PipelineAssumption DEF Init, DurableFirst
<1>4. ASSUME NEW e \in Event PROVE Accounted(e)
  <2>1. Running(e) = {}
    BY <1>2, Shapes DEF Running
  <2>2. QED BY <1>2, <2>1, FS_EmptySet, Shapes DEF Init, Accounted, Open
<1>5. SyncsFine
  BY IdleSync, Shapes DEF Init, SyncsFine
<1>6. QED
  BY <1>1, <1>3, <1>4, <1>5, InvariantParts, PipelineAssumption
     DEF Init, RunsAccounted, Accounted, Open

\* The inductive invariant holds: every entry of the stages is accounted for, and what is
\* on its way is persisted, through any crashes of the process.
THEOREM Inductive == Spec => []IInv
BY InitialInvariant, InductiveStep, PTL DEF Spec

\* Documents and calls keep their shapes.
THEOREM TypeInvariant == Spec => []TypeOK
<1>1. IInv => TypeOK
  BY DEF IInv
<1>2. QED BY <1>1, Inductive, PTL

\* room.service.ts:132-137: whatever is on the bus or in a handler is in the store.
THEOREM DurableFirstHolds == Spec => []DurableFirst
<1>1. IInv => DurableFirst
  BY DEF IInv
<1>2. QED BY <1>1, Inductive, PTL

\* event-store.ts:37-39: the stages of an event run again only after a run that failed,
\* died or overran its claim. At most one of the runs that go on has not overrun it, and
\* none if the event is processed.
THEOREM RerunNeedsCauseHolds == Spec => []RerunNeedsCause
<1>1. ASSUME IInv, NEW e \in Event
      PROVE  runs[e] <= 1 + excused[e] + Cardinality(Overrunning(e))
  <2>1. Overrunning(e) \subseteq Running(e)
    BY DEF Overrunning
  <2>2. IsFiniteSet(Overrunning(e)) /\ Cardinality(Overrunning(e)) \in Nat
    BY <2>1, FS_Subset, FS_CardinalityType, RunningFinite
  <2>3. runs[e] = excused[e] + Cardinality(Running(e)) + Open(e)
        /\ runs[e] \in Nat /\ excused[e] \in Nat /\ Cardinality(Running(e)) \in Nat
    BY <1>1, InvariantParts, RunningFinite DEF RunsAccounted, Open
  <2>4. \A h \in Handler : handler[h].held \in Nat
    BY <1>1, StoreShapes, PipelineAssumption DEF Store!HandlerState, Store!Age
  <2>5. CASE doc[e].status = "processed"
    <3>1. ASSUME NEW h \in Running(e) PROVE h \in Overrunning(e)
      BY <1>1, <2>4, <2>5, PipelineAssumption
         DEF IInv, Store!IInv, Store!LeaseHeld, Store!Active, Store!Owns, Running, Overrunning
    <3>2. Running(e) = Overrunning(e)
      BY <2>1, <3>1
    <3>3. QED BY <2>3, <2>5, <3>2 DEF Open
  <2>6. CASE doc[e].status # "processed"
    <3>1. CASE Running(e) = Overrunning(e)
      BY <2>3, <2>6, <3>1 DEF Open
    <3>2. ASSUME NEW h \in Running(e), h \notin Overrunning(e)
          PROVE  runs[e] <= 1 + excused[e] + Cardinality(Overrunning(e))
      <4>1. ASSUME NEW g \in Running(e), g # h PROVE g \in Overrunning(e)
        BY <1>1, <3>2, <4>1, StoreExcludes DEF IInv, Store!Active, Running, Overrunning
      <4>2. Running(e) = Overrunning(e) \cup {h}
        BY <2>1, <3>2, <4>1
      <4>3. Cardinality(Running(e)) = Cardinality(Overrunning(e)) + 1
        BY <2>2, <3>2, <4>2, FS_AddElement
      <4>4. QED BY <2>2, <2>3, <2>6, <4>3 DEF Open
    <3>3. QED BY <2>1, <3>1, <3>2
  <2>7. QED BY <2>5, <2>6
<1>2. IInv => RerunNeedsCause
  BY <1>1 DEF RerunNeedsCause
<1>3. QED BY <1>2, Inductive, PTL

\* A processed event is never delivered to the stages again: its document stays, and no
\* claim is granted on it.
THEOREM ProcessedIsFinalHolds == Spec => ProcessedIsFinal
<1> DEFINE Final == \A e \in Event :
                      doc[e].status = "processed" => doc'[e] = doc[e] /\ runs'[e] = runs[e]
<1>1. ASSUME IInv, [Next]_vars PROVE Final
  <2>1. SUFFICES ASSUME NEW e \in Event, doc[e].status = "processed"
                 PROVE  doc'[e] = doc[e] /\ runs'[e] = runs[e]
    OBVIOUS
  <2>2. doc'[e] = doc[e]
    BY <1>1, <2>1, DocumentStep DEF DocumentMoves
  <2>3. runs \in [Event -> Nat]
    BY <1>1, InvariantParts
  <2>4. ASSUME NEW h \in Handler, NEW f \in Event, Take(h, f) PROVE runs'[e] = runs[e]
    BY <2>1, <2>3, <2>4 DEF Take, Store!Claim, Store!Claimable
  <2>5. runs'[e] = runs[e]
    BY <1>1, <2>4
       DEF Next, Crash, Boot, Recover, RecoverTurn, RecoverFails, Tick, Fetch, Mark, See, Persist,
           Publish, Abort, Forget, Miss, Finish, Fail, FailWrite, Drop, vars, ghost
  <2>6. QED BY <2>2, <2>5
<1>2. IInv /\ [Next]_vars => [Final]_vars
  BY <1>1
<1>3. QED BY <1>2, Inductive, PTL DEF Spec, ProcessedIsFinal

-----------------------------------------------------------------------------

\* The pipeline's store is mapped onto the lease as EventStore maps its own.
LEMMA SameLease ==
  /\ Store!Lease!Init <=> Facts!Lease!Init
  /\ Store!Lease!Next <=> Facts!Lease!Next
  /\ UNCHANGED Store!Lease!vars <=> UNCHANGED Facts!Lease!vars
BY DEF Store!Lease!Init, Store!Lease!Next, Store!Lease!vars, Store!Lease!RunOut, Store!Lease!Create,
       Store!Lease!Forget, Store!Lease!Vanish, Store!Lease!Acquire, Store!Lease!Complete,
       Store!Lease!GiveUp, Store!Lease!Renew, Store!Lease!Set, Store!LeaseState, Store!OwnerOf,
       Store!Active, Store!Owns, Store!Stale,
       Facts!Lease!Init, Facts!Lease!Next, Facts!Lease!vars, Facts!Lease!RunOut, Facts!Lease!Create,
       Facts!Lease!Forget, Facts!Lease!Vanish, Facts!Lease!Acquire, Facts!Lease!Complete,
       Facts!Lease!GiveUp, Facts!Lease!Renew, Facts!Lease!Set, Facts!LeaseState, Facts!OwnerOf,
       Facts!Active, Facts!Owns, Facts!Stale

\* The pipeline implements the lease: whatever syncs, deliveries, recovery and the death
\* of the process do, only the owner of a live claim completes an event, and a claim
\* changes hands only after it was given up, or has run out and no duplicate persist
\* renewed it.
THEOREM PipelineImplementsLease == Spec => Store!ImplementsLease
<1>1. Init => Store!Lease!Init
  BY StoreAssumptions, SameSteps, SameLease, Facts!InitialLease DEF Init
<1>2. IInv /\ IInv' /\ [Next]_vars => [Store!Lease!Next]_(Store!Lease!vars)
  <2> SUFFICES ASSUME IInv, IInv', [Next]_vars
               PROVE  [Facts!Lease!Next]_(Facts!Lease!vars)
    BY SameLease
  <2>1. Facts!IInv /\ Facts!IInv'
    BY SameInvariant, SameInvariantNext DEF IInv
  <2>2. CASE Store!Next \/ UNCHANGED <<doc, handler>>
    <3>1. [Facts!Next]_Facts!vars
      BY <2>2, SameSteps DEF Facts!vars
    <3>2. QED BY <2>1, <3>1, StoreAssumptions, Facts!RefineStep
  <2>3. CASE UNCHANGED doc /\ handler' = [h \in Handler |-> Store!Idle]
    <3>1. Store!Idle = Facts!Idle
      BY DEF Store!Idle, Facts!Idle
    <3>2. QED BY <2>1, <2>3, <3>1, StoreAssumptions, Facts!DeathStep
  <2>4. QED BY <2>2, <2>3, StoreStep DEF IInv
<1>3. QED
  BY <1>1, <1>2, Inductive, PTL
     DEF Spec, Store!ImplementsLease, Store!Lease!Spec
=============================================================================
