---------------------------- MODULE EventPipeline ----------------------------
(***************************************************************************)
(* One process of the platform between a room's messages and the event     *)
(* store: syncRoom marks a message as seen, persists its events and        *)
(* publishes them on the in-memory bus; EventProcessor.handle takes them   *)
(* from the bus and claims them in the store (EventStore); after a crash   *)
(* the process boots and recovers what the store still has to process.     *)
(*                                                                         *)
(* The store and the marks survive a crash, everything else is lost.       *)
(***************************************************************************)
EXTENDS Integers, FiniteSets, FiniteSetsExt

CONSTANTS
  Event, Tenant, Handler, Token, None, MaxAttempts, StaleAfter, AttemptCap,  \* EventStore
  Message,       \* the message.created events, one for each message of the room
  Joined,        \* per message, the user.joined event of its author; None for no author
  Sync,          \* calls of RoomService.syncRoom in flight
  Home,          \* the tenant of the room
  MayThrow,      \* whether calls of the database may throw
  RecoverLimit,  \* the batch size of EventProcessor.recover
  DeliveryCap    \* bound: deliveries of one event that wait, beyond it they coincide

ASSUME PipelineAssumption ==
  /\ None \notin Event \cup Tenant \cup Token \cup Handler
  /\ MaxAttempts \in Nat \ {0} /\ StaleAfter \in Nat /\ AttemptCap \in Nat
  /\ IsFiniteSet(Handler)
  /\ Message \subseteq Event
  /\ Joined \in [Message -> (Event \ Message) \cup {None}]
  /\ Home \in Tenant
  /\ MayThrow \in BOOLEAN
  /\ RecoverLimit \in Nat \ {0}
  /\ DeliveryCap \in Nat \ {0}

VARIABLES
  doc, handler,  \* EventStore: the documents and the calls of handle
  marked,        \* the processedMessages collection
  seen,          \* the roomMembers collection: users whose joining is known
  sync,          \* the sync calls' local state
  bus,           \* per event, deliveries to handle that have not reached claim
  recovery,      \* "down": no process; else how far EventProcessor.recover is
  runs,          \* per event, how often its stages were entered: for the properties
  excused        \* per event, how many of these runs failed, died or overran

stored == <<doc, marked, seen>>
ghost == <<runs, excused>>
vars == <<stored, handler, sync, bus, recovery, ghost>>

Store == INSTANCE EventStore

\* What a sync call does next with its message: mark it, look its author up, persist
\* and then publish the author's user.joined, persist and then publish the message.
SyncState ==
  [pc : {"idle", "marking", "seeing", "announcing", "announced", "posting", "posted"},
   message : Message \cup {None}]

Idle == [pc |-> "idle", message |-> None]

\* Documents and calls keep their shapes; a sync call at work has a message, and
\* announces only an author it has.
TypeOK ==
  /\ Store!TypeOK
  /\ marked \subseteq Message
  /\ seen \subseteq Event \ Message
  /\ sync \in [Sync -> SyncState]
  /\ bus \in [Event -> 0 .. DeliveryCap]
  /\ recovery \in {"down", "running", "done", "failed"}
  /\ runs \in [Event -> Nat]
  /\ excused \in [Event -> Nat]
  /\ \A s \in Sync :
       /\ sync[s].pc # "idle" => sync[s].message \in Message
       /\ sync[s].pc \in {"announcing", "announced"} => Joined[sync[s].message] \in seen

Init ==
  /\ Store!Init
  /\ marked = {}
  /\ seen = {}
  /\ sync = [s \in Sync |-> Idle]
  /\ bus = [e \in Event |-> 0]
  /\ recovery = "down"
  /\ runs = [e \in Event |-> 0]
  /\ excused = [e \in Event |-> 0]

-----------------------------------------------------------------------------

Up == recovery # "down"

\* The event that the sync call s is about to persist or to publish.
EventOf(s) ==
  IF sync[s].pc \in {"announcing", "announced"} THEN Joined[sync[s].message]
  ELSE sync[s].message

GoOn(s, pc) == sync' = [sync EXCEPT ![s].pc = pc]

\* One more delivery of each event of batch.
Delivered(batch) ==
  [e \in Event |-> IF e \in batch /\ bus[e] < DeliveryCap THEN bus[e] + 1 ELSE bus[e]]

\* syncRoom comes to a message that has no mark. (One with a mark is skipped.)
Fetch(s, m) ==
  /\ Up
  /\ sync[s].pc = "idle"
  /\ m \notin marked
  /\ sync' = [sync EXCEPT ![s] = [pc |-> "marking", message |-> m]]
  /\ UNCHANGED <<stored, handler, bus, recovery, ghost>>

\* markProcessed: a mark that another call has set meanwhile is no obstacle.
Mark(s) ==
  /\ sync[s].pc = "marking"
  /\ marked' = marked \cup {sync[s].message}
  /\ GoOn(s, "seeing")
  /\ UNCHANGED <<doc, seen, handler, bus, recovery, ghost>>

\* Variant of See: the new member is not recorded.
SeeUnrecorded(s) ==
  LET u == Joined[sync[s].message] IN
  /\ sync[s].pc = "seeing"
  /\ GoOn(s, IF u = None \/ u \in seen THEN "posting" ELSE "announcing")
  /\ UNCHANGED <<doc, marked, seen, handler, bus, recovery, ghost>>

\* ensureSeen: one of the calls that meet a new author creates the member.
See(s) ==
  LET u == Joined[sync[s].message] IN
  /\ sync[s].pc = "seeing"
  /\ IF u = None \/ u \in seen
     THEN GoOn(s, "posting") /\ UNCHANGED seen
     ELSE GoOn(s, "announcing") /\ seen' = seen \cup {u}
  /\ UNCHANGED <<doc, marked, handler, bus, recovery, ghost>>

\* Variants of Persist: the write is lost; a document that exists is overwritten.
PersistLost(s) ==
  /\ sync[s].pc \in {"announcing", "posting"}
  /\ GoOn(s, IF sync[s].pc = "announcing" THEN "announced" ELSE "posted")
  /\ UNCHANGED <<stored, handler, bus, recovery, ghost>>

PersistOver(s) ==
  /\ sync[s].pc \in {"announcing", "posting"}
  /\ doc' = [doc EXCEPT ![EventOf(s)] =
                [Store!Absent EXCEPT !.status = "pending", !.tenant = Home]]
  /\ GoOn(s, IF sync[s].pc = "announcing" THEN "announced" ELSE "posted")
  /\ UNCHANGED <<marked, seen, handler, bus, recovery, ghost>>

\* publish, first half: the event is persisted.
Persist(s) ==
  /\ sync[s].pc \in {"announcing", "posting"}
  /\ Store!Persist(EventOf(s), Home)
  /\ GoOn(s, IF sync[s].pc = "announcing" THEN "announced" ELSE "posted")
  /\ UNCHANGED <<marked, seen, bus, recovery, ghost>>

\* publish, second half: the event goes to the bus, which calls handle.
Publish(s) ==
  /\ sync[s].pc \in {"announced", "posted"}
  /\ bus' = Delivered({EventOf(s)})
  /\ IF sync[s].pc = "announced" THEN GoOn(s, "posting")
     ELSE sync' = [sync EXCEPT ![s] = Idle]
  /\ UNCHANGED <<stored, handler, recovery, ghost>>

\* A store call throws and with it syncRoom; the next interval starts over.
Abort(s) ==
  /\ MayThrow
  /\ sync[s].pc \in {"marking", "seeing", "announcing", "posting"}
  /\ sync' = [sync EXCEPT ![s] = Idle]
  /\ UNCHANGED <<stored, handler, bus, recovery, ghost>>

\* The mark expires after a day: the message is fetched anew if it is still listed.
Forget(m) ==
  /\ marked' = marked \ {m}
  /\ m \in marked
  /\ UNCHANGED <<doc, seen, handler, sync, bus, recovery, ghost>>

-----------------------------------------------------------------------------

Excuse(e) == excused' = [excused EXCEPT ![e] = @ + 1]

\* handle reaches the store: the stages run if claim is granted, and the delivery is
\* dropped if not.
Take(h, e) ==
  /\ Up
  /\ bus[e] > 0
  /\ bus' = [bus EXCEPT ![e] = @ - 1]
  /\ \/ Store!Claim(h, e, Home) /\ runs' = [runs EXCEPT ![e] = @ + 1]
     \/ /\ ~Store!Active(h)
        /\ ~Store!Claimable(doc[e])
        /\ UNCHANGED <<doc, handler, runs>>
  /\ UNCHANGED <<marked, seen, sync, recovery, excused>>

\* claim throws, and nobody waits for handle (void this.handle(event)): the rejection is
\* unhandled, which server.ts:71 reports, and the delivery is lost.
Miss(e) ==
  /\ MayThrow
  /\ Up
  /\ bus[e] > 0
  /\ bus' = [bus EXCEPT ![e] = @ - 1]
  /\ UNCHANGED <<stored, handler, sync, recovery, ghost>>

\* Every stage continued or one blocked: the event is processed, if the claim is live.
Finish(h) ==
  /\ Store!MarkProcessed(h)
  /\ IF Store!Owns(h, doc[handler[h].event]) /\ ~Store!Stale(doc[handler[h].event])
     THEN UNCHANGED excused ELSE Excuse(handler[h].event)
  /\ UNCHANGED <<marked, seen, sync, bus, recovery, runs>>

\* A stage asked for a retry, failed or threw: markFailed reads and then writes.
Fail(h) ==
  /\ Store!MarkFailedRead(h)
  /\ Excuse(handler[h].event)
  /\ UNCHANGED <<marked, seen, sync, bus, recovery, runs>>

FailWrite(h) ==
  /\ Store!MarkFailedWrite(h)
  /\ UNCHANGED <<marked, seen, sync, bus, recovery, ghost>>

\* The store rejects a command of handle, and then markFailed.
Drop(h) ==
  /\ MayThrow
  /\ Store!Crash(h)
  /\ IF handler[h].pc = "running" THEN Excuse(handler[h].event) ELSE UNCHANGED excused
  /\ UNCHANGED <<marked, seen, sync, bus, recovery, runs>>

-----------------------------------------------------------------------------

\* The runs that end with the process.
Running(e) == {h \in Handler : handler[h].pc = "running" /\ handler[h].event = e}

\* The process dies or is told to stop: bus, syncs and handlers are gone.
Crash ==
  /\ Up
  /\ recovery' = "down"
  /\ handler' = [h \in Handler |-> Store!Idle]
  /\ sync' = [s \in Sync |-> Idle]
  /\ bus' = [e \in Event |-> 0]
  /\ excused' = [e \in Event |-> excused[e] + Cardinality(Running(e))]
  /\ UNCHANGED <<stored, runs>>

\* configureEventPipeline: the processor subscribes and starts to recover.
Boot ==
  /\ ~Up
  /\ recovery' = "running"
  /\ UNCHANGED <<stored, handler, sync, bus, ghost>>

\* What EventStore.recover can find.
Backlog == {e \in Event : Store!Claimable(doc[e])}

\* One turn of recover's loop, which ends with a batch smaller than full. (Which
\* events come first is left open.)
RecoverTurn(full) ==
  /\ recovery = "running"
  /\ \E batch \in SUBSET Backlog :
       /\ Cardinality(batch) = Min({RecoverLimit, Cardinality(Backlog)})
       /\ bus' = Delivered(batch)
       /\ recovery' = IF Cardinality(batch) < full THEN "done" ELSE "running"
  /\ UNCHANGED <<stored, handler, sync, ghost>>

\* Variant of Recover: a full batch ends the loop too.
RecoverOnce == RecoverTurn(RecoverLimit + 1)

\* The loop ends with a batch that is not full.
Recover == RecoverTurn(RecoverLimit)

\* The query throws: recover logs it and gives up.
RecoverFails ==
  /\ MayThrow
  /\ recovery = "running"
  /\ recovery' = "failed"
  /\ UNCHANGED <<stored, handler, sync, bus, ghost>>

Tick ==
  /\ Store!Tick
  /\ UNCHANGED <<marked, seen, sync, bus, recovery, ghost>>

Next ==
  \/ Crash \/ Boot \/ Recover \/ RecoverFails \/ Tick
  \/ \E s \in Sync :
       \/ \E m \in Message : Fetch(s, m)
       \/ Mark(s) \/ See(s) \/ Persist(s) \/ Publish(s) \/ Abort(s)
  \/ \E m \in Message : Forget(m)
  \/ \E e \in Event : Miss(e)
  \/ \E h \in Handler :
       \/ \E e \in Event : Take(h, e)
       \/ Finish(h) \/ Fail(h) \/ FailWrite(h) \/ Drop(h)

Spec == Init /\ [][Next]_vars

\* A process that is up goes on: recover's query answers, every delivery reaches the
\* store and every run of the stages ends. The calls of the database have timeouts, those
\* of the platform have none (agent.ts:88): that they end is an assumption.
FairSpec ==
  /\ Spec
  /\ WF_vars(Recover)
  /\ \A h \in Handler :
       /\ WF_vars(Finish(h) \/ Fail(h)) /\ WF_vars(FailWrite(h))
       /\ \A e \in Event : SF_vars(Take(h, e))

-----------------------------------------------------------------------------

\* room.service.ts:132-137: whatever is on the bus or in a handler is in the store: the
\* store is written first.
DurableFirst ==
  \A e \in Event :
    bus[e] > 0 \/ (\E h \in Handler : handler[h].event = e) => doc[e].status # "absent"

Overrunning(e) == {h \in Running(e) : handler[h].held > StaleAfter}

\* event-store.ts:37-39: duplicate platform events never produce duplicate processing.
\* Overlapping syncs, expired marks and recovery deliver an event again and again; its
\* stages run again only after a run that failed, died or overran its claim.
RerunNeedsCause ==
  \A e \in Event : runs[e] <= 1 + excused[e] + Cardinality(Overrunning(e))

\* Every entry of the stages has ended well, which closes the event, or is excused, or
\* still goes on.
RunsAccounted ==
  \A e \in Event :
    runs[e] = excused[e] + Cardinality(Running(e))
              + (IF doc[e].status = "processed" THEN 1 ELSE 0)

\* The inductive invariant behind DurableFirst and RerunNeedsCause. It contains that of
\* the store; what a sync call is about to publish is persisted.
IInv ==
  /\ TypeOK /\ Store!IInv
  /\ DurableFirst /\ RunsAccounted
  /\ \A s \in Sync :
       sync[s].pc \in {"announced", "posted"} => doc[EventOf(s)].status # "absent"

\* A processed event is never delivered to the stages again.
ProcessedIsFinal ==
  [][\A e \in Event :
       doc[e].status = "processed" => doc'[e] = doc[e] /\ runs'[e] = runs[e]]_vars

\* The duplicate persists end: the mark of a message keeps it from being persisted again
\* for a day, while a recovery takes seconds.
DuplicatesEnd ==
  <>[][~\E s \in Sync : Persist(s) /\ doc[EventOf(s)].status # "absent"]_vars

\* event-processor.ts:80-83: recover drains the backlog, however much larger than a
\* batch it is. Provided that duplicate persists end, what it finds claimable is claimed,
\* or made fresh by one of them and left to its claim, unless the process dies or a call
\* throws (or the model's AttemptCap is reached).
RecoveryDrains ==
  DuplicatesEnd =>
    \A e \in Event :
      recovery = "running" /\ e \in Backlog
        ~> e \notin Backlog \/ recovery = "down" \/ doc[e].attempts >= AttemptCap

\* room.service.ts:136-137: a process crash can never lose an event it already
\* accepted. A message that is marked is in the store or in the hands of a sync call.
AcceptedIsKept ==
  \A m \in marked :
    \/ doc[m].status # "absent"
    \/ \E s \in Sync : sync[s].message = m
=============================================================================
