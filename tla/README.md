# Verification of the Clubhouse bot platform

TLA+ models of the concurrent core of this repository, TLC runs that check them on
small instances, and TLAPS proofs for every value of the constants. Line numbers refer
to the commit the project was written against.

## The system

One Node.js process runs the bots of several tenants. Everything below interleaves at
`await`s; the only state that outlives the process is in MongoDB. Several processes may
share the database (the stores are written for that).

| component | state | operations | talks to |
|---|---|---|---|
| bot manager (`core/bots/bot-manager.ts`) | `startup`, `runtimes`, `roomTimers` maps, in memory | startBot, stopBot, joinRoom, startAll, syncRoom, pingRoom, handleAuthFailure | bots, rooms, credentials (MongoDB), the platform, room service |
| room service (`core/rooms`) | rooms, members (MongoDB) | join, leave, syncRoom, publish | dedup, members, event store, bus |
| message dedup (`infrastructure/deduplication`) | processedMessages, with a TTL of a day | isProcessed, markProcessed | |
| event store (`core/events/event-store*.ts`) | communityEvents | persist, claim, markProcessed, markFailed, recover | |
| event bus, event processor (`core/events`) | subscribers, in memory | publish; start, recover, handle | event store, stages |
| pipeline stages (`moderation`, `automation`, `usage`) | rate-limit windows in memory, usage events | handle | rules, bot manager (resolveContext) |
| action records (`core/events/action-idempotency.ts`) | actionRecords | claim, markExecuted, markFailed, release | |
| automation rules (`core/automation/rules`) | none | welcome, speaker, AI: claim, effect, record | action records, platform, AI agent |
| AI agent (`core/ai`) | cooldowns in memory | canRespond, generateResponse, markResponded | AI providers |
| AI providers (`core/ai/*.provider.ts`) | none | a completion with its attempts | the remote model |
| Clubhouse platform (`platforms/clubhouse`) | none | API calls with bounded retries | the remote API |
| queue and worker (`infrastructure/queue`, `workers`) | jobs and timers, in memory; no entry point starts them yet (worker.ts) | enqueue, start, stop, drain; a handler per job | bot manager, AI agent, platform |
| bots, credentials (`core/bots`, `core/credentials`) | bots, botCredentials (MongoDB) | create, find, update, delete, each by tenant | |
| HTTP API (`api`, `app.ts`) | none | authenticate, load the documents a route names, handle | repositories, bot manager, room service, platform, AI agent |
| tenants, usage | tenants, usageEvents (MongoDB) | find by key; append, count, list | |

How they interact: an interval of the bot manager calls `syncRoom`, which marks each new
message, persists its events and publishes them on the bus. The bus calls
`EventProcessor.handle` (never awaited), which claims the event in the store, runs the
stages and closes the event as processed, pending or failed. The automation stage runs
rules, and each rule claims an action record before it sends anything. At boot the
processor recovers what the store still has to process, and the manager restarts the bots.
Requests of the HTTP API read and write the same documents and drive the same manager: the
middleware loads what a route names, for the tenant of the key, and the handler works with
what was loaded.

What is hard here, and what has to hold:

* **Event store and action records.** Concurrent claims, owners that answer after their
  lease has run out, a read and a later write in `markFailed`, crashes with a claim held.
  Correct: one owner at a time until its lease runs out, a bounded number of attempts,
  nothing finished is reopened, no tenant touches another one's events, no effect is
  repeated without an incident the store cannot see.
* **Pipeline.** Overlapping syncs, marks that expire, the same event delivered several
  times, a crash between any two writes. Correct: an event is in the store before
  anything handles it, duplicates are absorbed, recovery drains the backlog, nothing that
  was accepted is lost.
* **Bot manager.** Starts, stops, joins, leaves, intervals and authentication failures
  overtake each other; a generation counter decides which transition counts. Correct: a
  stop is never undone by a late start, there is one runtime and it is the current one,
  nobody waits for a promise that is never settled, a failed credential stops everything.
* **Moderation, automation, AI agent.** Handlers of several messages share the buckets of
  the rate limiter and the cooldowns between their awaits; a reservation can run out, be
  released by somebody else, or be left behind by a call that throws. Correct: answers to
  one user are made one at a time and a cooldown apart, every reservation is given back,
  the rate limit holds in every window, an executed action is not repeated.
* **Platform calls.** A refresh with its own retries runs inside an attempt of the operation
  it serves; answers get lost. Correct: requests and pauses stay bounded, the outcome is
  true of what was performed, a call always returns, an authentication failure is one.
* **HTTP API.** Handlers hold documents that other requests change, remove or restart
  meanwhile; no call of a repository relates two documents. Correct: no request reaches
  what is another tenant's, patches do not undo each other, and what is removed leaves
  nothing running.
* **Queue and worker.** Pushes, timers, starts and stops meet the one loop `drain` at its
  await. Correct: no job is lost, doubled or attempted too often, the loop never sleeps on
  a job, a retried AI response does not answer twice.

`PROJECT.json` lists every component, and under "hazards" each of these at its line.

## Modules

* **LeasedTask** is the abstract specification of a lease: a task is open, held by one
  worker, done or dead; only the holder closes it, only before the lease runs out, and
  the lease changes hands only when it was given back or has run out. No tokens, clocks
  or counters. Workers may vanish together, as they do with their process. The lease of a
  task in `Renewable` may begin anew while it is held: those of events may, because a
  duplicate persist refreshes them, those of actions may not. Both stores implement it, and
  so does EventPipeline.
* **EventStore** is `MongoEventStore` with the calls of `handle`. `doc` is the collection,
  `handler` the local state of the calls in flight. Each MongoDB command is one action
  (`Persist`, `Claim`, `MarkProcessed`, `Expire`); `markFailed` is two (`MarkFailedRead`,
  `MarkFailedWrite`). A `Persist` of an event that exists keeps everything of it but
  `updatedAt`: the schema has `timestamps` (communityEvent.ts:56), so Mongoose adds it to every
  update, the upsert of event-store.impl.ts:28 included. Time is kept as ages that saturate one unit past
  `STALE_PROCESSING_MS`: the code compares ages with nothing else. `Claim` takes any
  unused token (`randomUUID`). A refused claim changes nothing and is no action.
* **ActionStore** is `MongoActionIdempotencyStore` with the protocol that the three rules
  share. It has a clock, because `claim` makes two commands with one time read before
  both (`Claim`, `Upsert`), and likewise `markFailed`. `Send` may perform the effect and
  lose the answer. `history` counts effects and incidents and exists for the properties.
* **BotManager** is one bot (the manager's maps are keyed by bot). `startup` is the
  `StartupEntry`; instead of a promise it names the call the promise belongs to. `runtime`
  is the generation that set the `RuntimeEntry`. Each call in flight is a program counter
  that stands for the `await` it is at; the code between two awaits is one action. Calls
  that only read, or only write, several documents in a row are one await, and so are the
  room an interval callback looks up and the runtime it looked up before. That the promise of
  a transition settles and that startBot stores the result is one action, because only
  microtasks lie between the two. `handleAuthFailure` is two awaits, one before the new
  generation is computed and one before it is stored, because that is where it matters. The
  adapter, bot names and the content of rooms are left out. `startAll` is a start
  request; `stopAll` is followed by the exit of the process and is not modelled.
* **EventPipeline** composes `RoomService.syncRoom` and `publish`, the bus,
  `EventProcessor` and an instance of `EventStore` in one process that crashes and boots.
  `sync` is where each sync call is with its message, `bus` counts the deliveries of an
  event that have not reached `claim`, `recovery` says how far `recover` is and whether there
  is a process. The events of a room are those of its messages and the `user.joined` of
  their authors (`Joined`); a message of no user announces nobody. A store call that throws
  ends a sync (`Abort`), a delivery (`Miss`), a run of the stages (`Drop`) or the recovery
  (`RecoverFails`). Which
  of the oldest events a batch holds is left open. Processed events are not expired here:
  they live thirty times as long as a mark, longer than a room lists its messages. `MayThrow`
  switches the calls that throw on and off.
* **Repositories** has the collections of bots, rooms and credentials and the calls of their
  repositories, one MongoDB command each. An id is free, live or gone; ids are never used
  again (ObjectIds). The fields of a document are the ones that decide who may see it, plus the
  set of fields of `aiConfig` or `settings` that somebody has set. The rooms are
  configurations of one external room.
* **TenantApi** composes Repositories with the routes of `v1.routes.ts` and a bot manager
  whose platform and store do not fail. `request` is where each handler is, the documents the
  middleware attached to it and what it answers. A request that is refused is no action.
  `requireBot` and `requireRoom`, which load one after the other, are one step (`Admit`), and
  so are a handler's last write and its answer. Routes that do the same with state share a name: `bots.get` and
  `rooms.get` stand for what shows a loaded document, `users.get` for what only asks the
  platform with the bot's credential, `rooms.messages` for reading and for sending.
  `bots.me` reads the credential twice (`ReadAccount`, `CreateAdapter`), as the code
  does. Starts, joins and stops are those of BotManager, per bot; interval callbacks and
  failures are left to it. `incidents` and `promised` are history.
* **JobQueue** is `InMemoryQueue`, `Worker` and the handlers of `workers/handlers.ts`.
  Because `drain` is synchronous between two awaits of a handler, a push, a start and the end
  of a handler contain the loop up to the next job (`Drain`). A job for the bot manager is one
  await, an AI response has the awaits of its handler; all of them concern one user, who
  has one cooldown. No entry point of the program starts a worker yet (`worker.ts` calls it future
  infrastructure), so the environment is whoever constructs one: it enqueues, starts and stops
  when it likes. `runs`, `sent` and `lapsed` are history. The intervals of the
  scheduler enqueue nothing and are left out.
* **Automation** is what one process does with the messages of a room: `gate` to `closing`
  are the awaits of `EventProcessor.handle` with the stages inlined (`ModerationStage` with
  its limiter, `AutomationStage`, the engine, the AI rule and `AgentService`). `cooldown` and
  `bucket` are the two maps in memory; the event and action records are reduced to what
  EventStore and ActionStore let a handler see that stays within its leases: a refused claim is
  `Skip`, a crash or a `markFailed` that throws leaves the event `orphaned`. `admitted`,
  `evicted`, `stuck` and the flags of a run are history for the properties. A user whose
  messages are not followed only fills a bucket (`LimitOther`). The
  welcome and speaker rules do not match messages, and the bot's own messages touch nothing that is shared.
  A bucket is the set of its hits, a hit its instant and how many were there before it: `isAllowed`
  asks the array only for its length and its last hit, and no hit is added twice (`HitIsNew`, proved).
  `Content` says what a message consists of as far as `TriggerMode` and the
  mention of the bot (`Account`) tell messages apart, and `requests` counts the attempts of the
  provider (`MaxRequests`).
* **ClubhouseCall** is `wrapClubhouseCall` around `withRetry`, with the hook `requestJson`
  gives it: every operation of the adapter is such a call. `pc` says which request or sleep
  the call is in; `attempt` and `refreshAttempt` are the loop counters of the two nested
  `withRetry`. The platform answers as it likes; a retryable failure may have performed the
  operation. Calls share only the token, and any token may be refused, so there is one call.
* **EventStoreProofs, ActionStoreProofs, BotManagerProofs, EventPipelineProofs, AutomationProofs,
  ClubhouseCallProofs, JobQueueProofs, TenantApiProofs** hold the theorems.
* **MC...** modules add only symmetry sets and constants for TLC.

Next to some actions stands a *variant*, an operator that changes the action the way a
plausible bug would. Every property of a passing run names in `PROJECT.json` a variant
that violates it.

## Runs

| run | shows | bounds |
|---|---|---|
| `event_store` | claims are exclusive until they run out, a pending event has an attempt left and a failed one has none, tenants are separate, finished is final, the store implements LeasedTask, with claims that a duplicate persist renews | one event, persisted again at will, two tenants, three handlers, two attempts, four claims (`AttemptCap`) |
| `action_store` | the same for actions, and that an effect is repeated only after an incident the store cannot see (`DuplicateNeedsIncident`) | one key, three runs, two attempts, four ticks (`Horizon`), three claims |
| `bot_lifecycle` | a bot that is stopping or stopped has no runtime and no timer, one start is current, the runtime is that of the current generation | two rooms, three calls, requests up to generation three, no failures |
| `bot_failures` | every call returns, with every failure of platform, store and credential | one room, two calls |
| `bot_restart` | *violated*: a late abort deletes the runtime of the next start | one room, three calls |
| `pipeline` | the store is written before anything is dispatched, duplicates are absorbed, processed is final | one message and its author, two syncs, two handlers, two claims per event |
| `pipeline_recovery` | recovery drains a backlog larger than its batch: each event is claimed, or made fresh by a duplicate persist, provided that these end | two events, batch of one, three claims per event, nothing throws |
| `automation` | answers to one user are made one at a time and a cooldown apart unless a reservation ran out or was released, reservations are given back, the rate limit holds | two questions and a remark of one user, another user in the room, one crash, two claims per event, two requests to the provider per answer, three instants |
| `clubhouse_call` | requests and pauses of a call are bounded however its retries and the refresh combine, the outcome is true of what was performed, every call returns | three attempts, delays that reach their cap, hints below, at and above what is honoured |
| `tenant_api` | no request holds, uses, shows or changes what is another tenant's; patches that do not overlap keep each other's fields; what is removed leaves no runtime and no timer | two tenants, two bots, a room, a credential, two fields, three requests of which two are in flight (`MaxInFlight`), every initial ownership |
| `job_queue` | the queue never sleeps on a job, no job is lost, doubled or attempted too often, a reply is posted twice only after its cooldown, every job is settled unless the worker stops | three jobs (`MaxJobs`), two attempts |
| `pipeline_lost` | *violated*: a crash between mark and persist loses the message | one sync |

Why the bounds are enough: a claim store never relates two documents to each other, so one
event or key shows everything; three workers are an owner, a successor and a bystander;
two attempts are a first and a last one; a lease of one unit can be running, at its end and
past it. Four or five tokens are as many as documents and calls can hold at once, and one
more. Three calls of the bot manager are a transition, one that supersedes it and one that
waits; two rooms make `doStartBot` come back to its loop. Two events are more than a batch of
one. In `automation` a remark can release the reservation of one question before the other
one is decided; three instants are the start of a window of two, its inside and its end, and with one bucket
a second user makes `prune` work. In `tenant_api` two requests in flight are an
interference, and the third meets what they have left behind. Three jobs are
one in hand, one in the queue and one with a timer. `Horizon` stops the clock, `AttemptCap`, `MaxGen`, `MaxJobs` and the number of
requests stop what arrives: only there `CHECK_DEADLOCK` is off.

The bot lifecycle properties are checked without failures on purpose: with them
`StoppedIsQuiet` does not hold, because `startBot`'s catch overwrites
the entry of whoever superseded it (hazards, bot-manager.ts:132).

### Fairness

Safety needs none. `BotManager!FairSpec` is weakly fair for the steps of each call in flight:
every await of MongoDB or of the platform ends; requests and interval callbacks are not fair.
The MongoDB driver has timeouts. The platform client has none (`agent.ts:88`): that its requests end
is an assumption there and in `ClubhouseCall!FairSpec`, which is weakly fair for the steps of
the call and not for the next call. `CallsReturn` is about finitely many requests (`MaxGen`):
a start can be overtaken by stops as long as stops keep coming.
`EventPipeline!FairSpec` is weakly fair for recovery's query and for the end of every run
of the stages. `Take` is strongly fair because the model has few handlers: in the
code every delivery is a call of its own and its claim reaches the store. Neither crashes,
boots, syncs nor time are fair. `JobQueue!FairSpec` is weakly fair for the steps of the handler and for every timer; nobody has
to enqueue, start or stop, and `JobsSettle` lets go when the worker stops.
`RecoveryDrains` asks that an event leaves the backlog, by a claim or because a duplicate
persist makes it fresh. It has a premise, `DuplicatesEnd`: duplicate persists of events end.
Without it TLC finds one event that is refreshed between recovery's query and its claim, goes
stale, is found again, and so on for ever, filling every batch while the other event waits. A
mark keeps a message from being persisted again for a day and a recovery takes seconds, so
the premise costs nothing. The property lets go when the process dies or the model's
`AttemptCap` is reached, and is checked with calls that do not throw: a `claim` or a
recovery query that throws leaves its event until the next boot.

## Proofs

Every invariant and every action property that a passing run checks is also proved, for all
values of the constants; `PROJECT.json` lists the theorems. A theorem rests on nothing but
the `ASSUME`s of its module, which TLC evaluates on every run: that "none" is no event, token,
worker or document, that limits are naturals, positive where the code's are, and that
handlers, rule runs and calls in flight are finitely many where they are counted. The only
exceptions are three results about the bot manager, whose hypothesis is stated below. The
properties are seldom inductive; each module states, next to its properties, what has to be
added (`IInv`, `Inv` or `Quietness`), TLC checked that before it was proved, and the proof has
one lemma per action, or per group of actions that do the same.

**Stores.** `EventStoreProofs` and `ActionStoreProofs` prove type correctness, exclusive work and the
finality of closed documents (and, for events, attempts and tenants). `IInv` adds
that a handler whose claim is younger than the limit *is* the owner in the document
(`LeaseHeld`), because the document is at most as old as the claim of its owner (`ClaimAgrees`; it
is younger after a duplicate persist), and that no two calls hold one token. Only a document that
is being processed has an age at all (`OnlyClaimsAge`), so that refreshing a closed one changes
nothing that counts: that is why `TerminalIsFinal` survives duplicates. Exclusive work follows: two owners by token of one document would hold
the same token. `BudgetRespected` needs that the attempt count which `markFailed` has read is
still the document's when its write matches, again by the token. `DuplicateNeedsIncident` counts:
`EffectsAccounted` says that every effect is recorded, which closes the record for good, or is
excused by an incident, or is that of a run still about to record it, and of those only one
can be within its lease.

**Refinement.** Every step of a store is a step of LeasedTask or changes nothing of it:
`StoreImplementsLease`, `ActionsImplementLease`. Both rest on one fact: at most one call holds
the token a document carries (`OwnerUnique`), so that the owner the mapping names is the call
the code lets close the document. A read, an effect or the first, empty half of `claim` stutters;
a call that ends without closing anything is a `Vanish`; a duplicate persist is a `Renew`
of an event that is held and stutters otherwise; a claim won with a time read a lease
ago is an `Acquire` of a lease that has already run out. `PipelineImplementsLease` composes: each step
of the pipeline is one of its store, leaves it alone, or is the death of the process, which is a
`Vanish` of all handlers at once (`StoreStep`, `DeathStep`).

**Pipeline.** `EventPipelineProofs` takes the store's lemmas by an INSTANCE of EventStoreProofs and shows
that the store's invariant outlives the process (`StoreInvariantStep`). `DurableFirst` needs that what a
sync call is about to publish has been persisted, `RerunNeedsCause` that every entry of the stages
closed the event, is excused or goes on (`RunsAccounted`), together with the store's exclusion.

**Bot manager.** Two results hold whatever fails: the types, and that whoever waits, and the entry
itself, waits for a call in transition that is still to settle the promise
(`PromisesPendingHolds`). That is the safety half of `CallsReturn`; that such a call goes on is
its fairness. `StoppedIsQuiet`, `OneCurrentStart` and `RuntimeIsCurrent` are proved under
`[]NoFailure`: up to the first start that throws or credential that is refused. The
hypothesis is needed, because the two handlers of failures overwrite the entry without asking what
it has become, and satisfied: `NothingFails` derives it from `Failures = {}`, the setting of
`bot_lifecycle`. The invariant is `GenerationsAgree`: no call is of a generation to come, and a stop or join
that is still current finds the entry as it left it.

**Automation.** Two messages of one user are answered at once only after one has lost its reservation,
because those that have not hold the user's one entry (`AskersExclude`); `AnswersAreSpaced`
needs, for an answer that nobody shared, that it still is alone and that the user's last answer is a
window ago (`AloneUnlessShared`). The limiter counts its bucket, the property what was admitted:
`BucketsKnow` says that for a user whom `prune` has spared the two agree within the window, and
that a new hit is a new element of the bucket; `AdmittedIsBounded` keeps the sets finite.

**Platform call.** `ClubhouseCallProofs` proves the bounds and the truth of the outcome for every number of
attempts, delay and hint. Its `IInv` ties what a call has spent to its program counter:
within the refresh the operation has been requested once, within the repetition twice, and
the attempts of refresh and operation never add up, because the repetition ends the call.

**Queue.** `JobQueueProofs` proves every invariant of its run for any number of jobs and attempts.
`QueueInv` says where a job is without counting (`Placed`: distinct entries of the queue, in
the queue or with a timer or in hand), ties `runs` to `attempts` and the fate of the job
(`Counted`), and keeps for each job whose cooldown has not lapsed that it has posted at most
one reply and that the user's entry still says so (`OneReply`). One lemma says what the loop
of `drain` makes of a queue (`DrainResult`), a second that a step which ends with it
keeps the invariant (`DrainKeeps`); each action is then a few facts about its queue.

**API.** `TenantApiProofs` proves that tenants stay apart (`Isolation`, `WritesInside`) for any tenants,
documents and requests in flight. Its `Inv` adds to types and isolation
that a free id has no owner and that an owned room or credential has a tenant (`Owned`), and
that each handler has what the middlewares of its route attach (`Sane`): whatever a handler
holds is then owned, and no command takes an owned document from its owner (`OwnersKept`), so
what a handler loaded once stays its tenant's across every await. One lemma per call
of a repository (`BotStep`, `RoomStep`, `CredentialStep`, ...) shows that, and `Combine` turns it into
the invariant.

`PatchesKept` and `RemovedIsQuiet` allow for incidents, notes that two requests which disturb
each other were in flight together. `Quietness` starts from what that means for any two handlers
(`MeetingsNoted`). An update that has met no other one then writes at least what was answered
before (`PatchesTold`): its copy was read when nobody else was about to write. For removals,
`StartsOutdated` says that unless noted no start of a bot is ahead of the entry, and that from
the moment a removal begins every start of the bot is behind it, so that no such start puts a
runtime or a timer back after the removal has stopped the bot; `TimersKnown` says the same of
rooms: whoever may arm the timer of a room works with one that is live, or the meeting
was noted.

**Left to TLC.** The liveness properties `CallsReturn`, `RecoveryDrains`, `CallReturns` and
`JobsSettle`: fairness and ENABLED are out of the proof system's reach. `AcceptedIsKept` and
`ActiveHasRuntime` are what the documentation says and TLC refutes.

## Assumptions and what is left out

Facts the models contain and no property forbids:

* persisting an event again is no no-op, as event-store.impl.ts:25-27 and event-store.ts:37-39
  say: it refreshes `updatedAt` (communityEvent.ts:56), so that the claim of a dead handler is
  refused to everybody for another `STALE_PROCESSING_MS`, and a handler that overran its claim may
  close the event after all. TLC refutes `DuplicateIsNoOp` of EventStore, which stays in the
  module without a run. `ImplementsLease`, `ExclusiveWork` and `RerunNeedsCause` say what a
  refresh does not do: hand the event over, close it or let its stages run again;
* a claim takes a stale event over whatever its attempts are, so that only `markFailed` enforces
  the limit (event-store.impl.ts:70);
* `claim` counts an attempt that `release` does not give back, so that an action whose runner
  declined a few times fails for good at its first failure (action-idempotency.ts:123);
* an authentication failure does not tear down what a start in flight still builds
  (bot-manager.ts:540), and an error of the request repeated after a refresh is reported as an
  authentication failure (http.ts:125): TLC refutes `FailureTearsDown` of BotManager and
  `AuthIsReal` of ClubhouseCall, which stay in the modules without a run;
* a leave while a start goes through the rooms loses against it (bot-manager.ts:171);
* a reservation that has run out or was released by a message without a trigger no longer keeps
  others out (in-memory-cooldown.ts:71, agent.service.ts:53), and `prune` may drop a bucket too early:
  the properties of Automation except these meetings by name and bound what comes of them;
* patches that overlap undo each other, of `aiConfig` (bots.controller.ts:93) as of room
  settings (room.repository.ts:71): TLC refutes `PatchesMerge`, and `PatchesKept` is what is left of it;
* a removed bot keeps its rooms and credentials, and more may be created for it by requests
  that had loaded it; a start between the stop and the deletion leaves a runtime
  without a bot (bots.controller.ts:109); a start that fails late lowers the generation;
* `credentials.remove` does not ask whether the credential is that of the bot in the path,
  only whether it is the tenant's (authorization.ts:83);
* a job that throws after the worker was stopped goes back into the emptied queue and is
  handled when the worker starts again (in-memory-queue.ts:107); `maxAttempts` counts attempts, where
  queue.ts:22 speaks of retries; the retry of an AI response is declined by the
  reservation of its first attempt while that lasts, so that the job ends as done;
* an AI response for which the provider returned nothing is posted all the same (handlers.ts:89).

* All processes and MongoDB share one clock, and a single store command is applied at the
  time its call has read. A command delayed beyond a lease is the same as an owner that
  overran.
* `event-store.memory.ts` and the in-memory action store are twins for tests. They differ (the
  event twin claims documents it does not know; the action twin takes over at the equal
  instant) and are not modelled.
* MongoDB, the HTTP client and the platform are modelled by their outcomes.
* The text of messages, prompts, encryption, validation, bodies and error formats are left out. So
  are the OpenAPI document, the types and the configuration, which are data, and the HTTP
  rate limits, which are a library's.
* How long the provider takes is free: the client library retries on its own, so that its timeout
  is no bound.

## Plan

1. Done: LeasedTask, EventStore, ActionStore, BotManager, EventPipeline, Automation,
   ClubhouseCall, Repositories, TenantApi, JobQueue; proofs of every invariant and action
   property, of the refinements of both stores and of the pipeline.
2. *AutomationPipeline*: EventStore and ActionStore on one clock with Automation in between,
   and the boot order of recovery and bots. Hazards: an action whose lease outlives the
   event's claim, recovered events that find no runtime.
3. The token that concurrent platform calls share, once it is known what the platform
   does with an older one.
4. BotManager: what a failed start and a failed stop leave behind, if the code comes to say so.
5. Proofs: what remains true of the bot manager after a failure, as an invariant that does not
   need `[]NoFailure`; an abstract lease for the cooldown reservations that Automation and JobQueue
   share, with both shown to implement it.
