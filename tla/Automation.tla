----------------------------- MODULE Automation -----------------------------
(***************************************************************************)
(* What one process does with the messages of one room, once their events  *)
(* are stored: the moderation stage with its rate limiter, the automation  *)
(* stage, and the AI rule with the agent and its cooldown.                  *)
(*                                                                         *)
(* Every message has an event and an action record. Their stores are       *)
(* reduced here to what a handler that stays within its leases sees of     *)
(* them (LeasedTask, which both stores implement). The cooldown and the    *)
(* rate limiter live in memory, are shared by all handlers, and are read   *)
(* and written between two awaits. A step is the code between two awaits;  *)
(* calls that share nothing with other messages are one await.             *)
(***************************************************************************)
EXTENDS Integers, FiniteSets

CONSTANTS
  Message,     \* the messages that are followed, by their event; none is the bot's own
  User,        \* who writes in the room
  Author,      \* the author of each message
  Content,     \* what of each message the triggers look at
  TriggerMode, \* aiConfig.triggerMode of the bot
  Account,     \* what is known of the bot's account: nothing, its id, or its name as well
  Window,      \* cooldownSeconds; 0 would switch the cooldown off
  RateMax,     \* messageRateLimit.max; with 0 every message is refused
  RateWindow,  \* messageRateLimit.windowSeconds
  IdleTime,    \* the five minutes after which prune drops a bucket
  MaxBuckets,  \* maxBuckets
  MaxAttempts, \* MAX_EVENT_ATTEMPTS
  MaxRequests, \* MAX_ATTEMPTS of the AI providers
  Epoch,       \* the time of the boot, far from 0
  Horizon,     \* bound: the clock stops here
  ClaimCap,    \* bound: an event is claimed at most this often
  MaxCrashes   \* bound: the process dies at most this often

ASSUME MessageAssumption ==
  /\ Author \in [Message -> User]
  /\ Content \in [Message -> SUBSET {"prefix", "mentioned id", "mentioned name", "question"}]
  /\ TriggerMode \in {"manual", "prefix", "mention", "keyword", "question"}
  /\ Account \in {"unknown", "id", "named"}
ASSUME NumberAssumption ==
  /\ Window \in Nat \ {0} /\ RateMax \in Nat \ {0} /\ RateWindow \in Nat \ {0}
  /\ IdleTime \in Nat /\ MaxBuckets \in Nat /\ MaxAttempts \in Nat \ {0}
  /\ MaxRequests \in Nat \ {0}
  /\ Epoch \in Nat /\ Epoch >= Window
  /\ Horizon \in Nat /\ ClaimCap \in Nat /\ MaxCrashes \in Nat

VARIABLES
  clock,
  cooldown,   \* the entries of InMemoryAiCooldownStore; 0 stands for no time
  bucket,     \* the buckets of InMemoryMessageRateLimiter, for the users that have one
  run,        \* the handler of each event, while it runs
  event,      \* the documents of the event store
  executed,   \* messages whose action record says executed
  delivered,  \* events that this process has handed to a handler
  crashes,
  admitted,   \* kept for the properties: when the limiter let messages of a user through
  evicted,    \* ... users whose bucket prune has dropped; admitted forgets them
  stuck       \* ... users whose reservation a throwing call has left behind

memory == <<cooldown, bucket, admitted, evicted, stuck>>
vars == <<clock, memory, run, event, executed, delivered, crashes>>

Entry == [respondedAt : Nat, reservedUntil : Nat]

\* A hit of the rate limiter: when it came, and how many were in the bucket before it,
\* which tells the hits of one time apart. The limiter asks a bucket only for the number
\* of its hits and for its last one, so that a set of them stands for the array.
Hit == [at : Nat, nr : Nat]

\* pc names the await a handler is at. "gate": getRoom. "context": resolveContext,
\* the rules before the AI rule, claim. "asking": usage and the provider. "posting":
\* usage and sendMessage. "posted": markExecuted. "closing": release or markFailed of
\* the action, the rest of the stages and markProcessed.
\* requests counts what the provider was asked for, while it is asked.
\* until is the end of the cooldown reservation; freed says that somebody else has
\* released it, shared that another answer to the user was in the making.
Run ==
  [pc : {"idle", "gate", "context", "asking", "posting", "posted", "closing"},
   requests : 0..MaxRequests, until : Nat, freed : BOOLEAN, shared : BOOLEAN]

At(pc) == [pc |-> pc, requests |-> 0, until |-> 0, freed |-> FALSE, shared |-> FALSE]

\* "orphaned": claimed by a process that has died, or whose markFailed has thrown.
EventState ==
  [status : {"pending", "running", "orphaned", "processed", "failed"}, attempts : Nat]

\* Entries, buckets, handlers and documents keep their shape; an event has a handler
\* exactly while it is running.
TypeOK ==
  /\ clock \in Nat /\ crashes \in Nat
  /\ cooldown \in [User -> Entry]
  /\ DOMAIN bucket \subseteq User
  /\ \A u \in DOMAIN bucket : bucket[u] \subseteq Hit
  /\ run \in [Message -> Run]
  /\ event \in [Message -> EventState]
  /\ executed \subseteq Message
  /\ delivered \subseteq Message
  /\ admitted \in [User -> SUBSET Hit]
  /\ evicted \subseteq User /\ stuck \subseteq User
  /\ \A m \in Message : run[m].pc # "idle" <=> event[m].status = "running"

Init ==
  /\ clock = Epoch /\ crashes = 0
  /\ cooldown = [u \in User |-> [respondedAt |-> 0, reservedUntil |-> 0]]
  /\ bucket = <<>>
  /\ run = [m \in Message |-> At("idle")]
  /\ event = [m \in Message |-> [status |-> "pending", attempts |-> 0]]
  /\ executed = {}
  /\ delivered = {}
  /\ admitted = [u \in User |-> {}]
  /\ evicted = {} /\ stuck = {}

-----------------------------------------------------------------------------

Go(m, pc) == run' = [run EXCEPT ![m] = At(pc)]

\* Variant of Close: the handler is not let go.
CloseRunning(m, status) ==
  /\ event' = [event EXCEPT ![m].status = status]
  /\ Go(m, "closing")

\* The event gets its status and the handler ends.
Close(m, status) ==
  /\ event' = [event EXCEPT ![m].status = status]
  /\ Go(m, "idle")

\* markFailed of the event: a stage has asked for a retry or a call has thrown. If it
\* throws as well, nobody closes the event.
SendBack(m) ==
  \/ Close(m, IF event[m].attempts < MaxAttempts THEN "pending" ELSE "failed")
  \/ Close(m, "orphaned")

\* The bus or the recovery delivers an event, and the handler claims it.
Deliver(m) ==
  /\ m \notin delivered
  /\ event[m].status \in {"pending", "orphaned"}
  /\ event[m].attempts < ClaimCap
  /\ event' = [event EXCEPT ![m] = [status |-> "running", attempts |-> @.attempts + 1]]
  /\ Go(m, "gate")
  /\ delivered' = delivered \cup {m}
  /\ UNCHANGED <<clock, memory, executed, crashes>>

-----------------------------------------------------------------------------

\* ModerationStage.handle and InMemoryMessageRateLimiter

\* Variant of Recent: a hit at the very edge of the window is kept out too early.
RecentShort(hits) == {h \in hits : clock - h.at < RateWindow - 1}

\* The hits inside the window.
Recent(hits) == {h \in hits : clock - h.at < RateWindow}

\* The buckets that prune drops from b, once there are too many: those without a hit,
\* and those whose last hit, and with it every one, is too old.
Prunable(b) ==
  IF Cardinality(DOMAIN b) <= MaxBuckets THEN {}
  ELSE {u \in DOMAIN b : \A h \in b[u] : clock - h.at > IdleTime}

\* The hits of the last RateWindow units, for the history.
WithinWindow(hits) == {h \in hits : h.at + RateWindow > clock}

\* isAllowed(u): a new bucket is stored empty, prune runs, and the hit goes into the
\* bucket, which prune may have dropped just before.
IsAllowed(u, allowed) ==
  LET new  == u \notin DOMAIN bucket
      b    == [v \in DOMAIN bucket \cup {u} |-> IF v \in DOMAIN bucket THEN bucket[v] ELSE {}]
      gone == IF new THEN Prunable(b) ELSE {}
      hits == Recent(b[u])
      hit  == [at |-> clock, nr |-> Cardinality(hits)]
  IN /\ allowed = (Cardinality(hits) < RateMax)
     /\ bucket' = [v \in DOMAIN b \ gone |->
                     IF v # u THEN b[v] ELSE IF allowed THEN hits \cup {hit} ELSE hits]
     /\ evicted' = evicted \cup gone
     /\ admitted' = [v \in User |->
                       IF v \in evicted' THEN {}
                       ELSE IF v = u /\ allowed THEN WithinWindow(admitted[v]) \cup {hit}
                       ELSE admitted[v]]

\* The room is not moderated, or could not be read: the message goes through.
Pass(m) ==
  /\ run[m].pc = "gate"
  /\ Go(m, "context")
  /\ UNCHANGED <<clock, memory, event, executed, delivered, crashes>>

\* A blocked user or keyword: the rest of the stages is skipped.
Block(m) ==
  /\ run[m].pc = "gate"
  /\ Go(m, "closing")
  /\ UNCHANGED <<clock, memory, event, executed, delivered, crashes>>

\* The rate limit decides.
Limit(m) ==
  /\ run[m].pc = "gate"
  /\ \E allowed \in BOOLEAN :
       /\ IsAllowed(Author[m], allowed)
       /\ Go(m, IF allowed THEN "context" ELSE "closing")
  /\ UNCHANGED <<clock, cooldown, stuck, event, executed, delivered, crashes>>

\* A message of a user whose messages are not followed any further.
LimitOther(u) ==
  /\ \A m \in Message : Author[m] # u
  /\ \E allowed \in BOOLEAN : IsAllowed(u, allowed)
  /\ UNCHANGED <<clock, cooldown, stuck, run, event, executed, delivered, crashes>>

-----------------------------------------------------------------------------

\* AutomationStage.handle, AutomationEngine.evaluate, createAiRule, AgentService

\* resolveContext throws: the stage asks for a retry.
NoContext(m) ==
  /\ run[m].pc = "context"
  /\ SendBack(m)
  /\ UNCHANGED <<clock, memory, executed, delivered, crashes>>

\* No runtime, AI switched off, the claim refused, or claim throws, which the engine
\* only logs: nothing is answered. A refused claim is one whose action is executed, or
\* held by a process that has died.
Skip(m) ==
  /\ run[m].pc = "context"
  /\ Go(m, "closing")
  /\ UNCHANGED <<clock, memory, event, executed, delivered, crashes>>

\* MentionDetector: by the id in the platform's own list of mentions, or by the name in
\* the text, if the bot's is known.
IsMentioned(m) ==
  \/ Account # "unknown" /\ "mentioned id" \in Content[m]
  \/ Account = "named" /\ "mentioned name" \in Content[m]

\* AiService.decide, with AI switched on
Decide(m) ==
  CASE TriggerMode = "prefix" -> "prefix" \in Content[m]
    [] TriggerMode = "mention" -> IsMentioned(m)
    [] TriggerMode \in {"keyword", "question"} -> "question" \in Content[m]
    [] OTHER -> FALSE

\* claim may succeed unless the action is executed; what the lease of another run
\* adds to that is in ActionStore.
Acquirable(m) == m \notin executed

\* Variant of CanReserve: the reservation of another message is ignored.
CanReserveAnyway(u) == clock - cooldown[u].respondedAt >= Window

\* tryReserve: no answer within the window and no other one in the making.
CanReserve(u) ==
  /\ clock - cooldown[u].respondedAt >= Window
  /\ cooldown[u].reservedUntil <= clock

Asking(u) == {m \in Message : Author[m] = u /\ run[m].pc = "asking"}

\* The claim is won and the agent decides to ask the provider.
Reserve(m) ==
  LET u == Author[m] IN
  /\ run[m].pc = "context"
  /\ Acquirable(m)
  /\ Decide(m)
  /\ CanReserve(u)
  /\ cooldown' = [cooldown EXCEPT ![u].reservedUntil = clock + Window]
  /\ stuck' = stuck \ {u}
  /\ run' = [run EXCEPT ![m] = [pc |-> "asking", requests |-> 0,
                                until |-> clock + Window, freed |-> FALSE, shared |-> Asking(u) # {}]]
  /\ UNCHANGED <<clock, bucket, admitted, evicted, event, executed, delivered, crashes>>

\* release: whoever holds the reservation of u loses it.
ReleaseCooldown(u) ==
  /\ cooldown' = [cooldown EXCEPT ![u].reservedUntil = 0]
  /\ stuck' = stuck \ {u}

\* The handler m goes on at pc, and the other answers to u in the making have lost
\* their reservation.
FreeOthers(m, u, pc) ==
  run' = [n \in Message |->
            IF n = m THEN At(pc)
            ELSE IF n \in Asking(u) THEN [run[n] EXCEPT !.freed = TRUE] ELSE run[n]]

\* The claim is won and the agent declines because of the cooldown.
Decline(m) ==
  /\ run[m].pc = "context"
  /\ Acquirable(m)
  /\ Decide(m)
  /\ ~CanReserve(Author[m])
  /\ Go(m, "closing")
  /\ UNCHANGED <<clock, memory, event, executed, delivered, crashes>>

\* The claim is won and there is no trigger: the agent declines and releases the
\* cooldown of the author all the same.
NoTrigger(m) ==
  /\ run[m].pc = "context"
  /\ Acquirable(m)
  /\ ~Decide(m)
  /\ ReleaseCooldown(Author[m])
  /\ FreeOthers(m, Author[m], "closing")
  /\ UNCHANGED <<clock, bucket, admitted, evicted, event, executed, delivered, crashes>>

\* usage.record throws before the provider is asked: the reservation stays.
AskThrows(m) ==
  /\ run[m].pc = "asking" /\ run[m].requests = 0
  /\ Go(m, "closing")
  /\ stuck' = stuck \cup {Author[m]}
  /\ UNCHANGED <<clock, cooldown, bucket, admitted, evicted, event, executed, delivered,
                 crashes>>

\* The provider is asked, and again after an error that is transient.
Request(m) ==
  /\ run[m].pc = "asking" /\ run[m].requests < MaxRequests
  /\ run' = [run EXCEPT ![m].requests = @ + 1]
  /\ UNCHANGED <<clock, memory, event, executed, delivered, crashes>>

\* Variant of NoAnswer: the cooldown is not released.
NoAnswerKept(m) ==
  /\ run[m].pc = "asking" /\ run[m].requests > 0
  /\ Go(m, "closing")
  /\ UNCHANGED <<clock, memory, event, executed, delivered, crashes>>

\* The provider returns nothing, which is also what it makes of its last error: the
\* cooldown and the claim are given back.
NoAnswer(m) ==
  /\ run[m].pc = "asking" /\ run[m].requests > 0
  /\ ReleaseCooldown(Author[m])
  /\ FreeOthers(m, Author[m], "closing")
  /\ UNCHANGED <<clock, bucket, admitted, evicted, event, executed, delivered, crashes>>

\* The provider has answered: markResponded arms the cooldown.
Respond(m) ==
  LET u == Author[m] IN
  /\ run[m].pc = "asking" /\ run[m].requests > 0
  /\ cooldown' = [cooldown EXCEPT ![u] = [respondedAt |-> clock, reservedUntil |-> 0]]
  /\ stuck' = stuck \ {u}
  /\ Go(m, "posting")
  /\ UNCHANGED <<clock, bucket, admitted, evicted, event, executed, delivered, crashes>>

\* usage.record and sendMessage, which may throw, whether the message was posted or
\* not.
Post(m) ==
  /\ run[m].pc = "posting"
  /\ Go(m, "posted") \/ Go(m, "closing")
  /\ UNCHANGED <<clock, memory, event, executed, delivered, crashes>>

\* markExecuted, which may throw.
MarkExecuted(m) ==
  /\ run[m].pc = "posted"
  /\ executed' \in {executed, executed \cup {m}}
  /\ Go(m, "closing")
  /\ UNCHANGED <<clock, memory, event, delivered, crashes>>

\* The action is released or marked failed, the rest of the stages and markProcessed;
\* the usage of an action or markProcessed may throw, and the event is sent back. What
\* the rule throws is only logged by the engine, which reports no action for it, so
\* that the stage asks for no retry.
Finish(m) ==
  /\ run[m].pc = "closing"
  /\ Close(m, "processed") \/ SendBack(m)
  /\ UNCHANGED <<clock, memory, executed, delivered, crashes>>

-----------------------------------------------------------------------------

Tick ==
  /\ clock < Horizon
  /\ clock' = clock + 1
  /\ UNCHANGED <<memory, run, event, executed, delivered, crashes>>

\* The process dies and is started anew: what was in memory is gone, and what a
\* handler had claimed is held by nobody.
Crash ==
  /\ crashes < MaxCrashes
  /\ crashes' = crashes + 1
  /\ cooldown' = [u \in User |-> [respondedAt |-> 0, reservedUntil |-> 0]]
  /\ bucket' = <<>>
  /\ run' = [m \in Message |-> At("idle")]
  /\ event' = [m \in Message |->
                 IF event[m].status = "running" THEN [event[m] EXCEPT !.status = "orphaned"]
                 ELSE event[m]]
  /\ delivered' = {}
  /\ admitted' = [u \in User |-> {}]
  /\ evicted' = {} /\ stuck' = {}
  /\ UNCHANGED <<clock, executed>>

Next ==
  \/ Tick
  \/ Crash
  \/ \E u \in User : LimitOther(u)
  \/ \E m \in Message :
       \/ Deliver(m)
       \/ Pass(m) \/ Block(m) \/ Limit(m)
       \/ NoContext(m) \/ Skip(m)
       \/ Reserve(m) \/ Decline(m) \/ NoTrigger(m)
       \/ AskThrows(m) \/ Request(m) \/ NoAnswer(m) \/ Respond(m)
       \/ Post(m) \/ MarkExecuted(m) \/ Finish(m)

Spec == Init /\ [][Next]_vars

-----------------------------------------------------------------------------

\* The reservation of m no longer keeps other messages of its author out.
Lost(m) == run[m].freed \/ run[m].until <= clock

\* "Uses atomic reservation so concurrent messages from the same user cannot bypass
\* the window" (ai.service.ts:92): the provider works on two messages of one user at
\* once only after one of them has lost its reservation, which ran out or which the
\* refusal of a third message released.
OneAnswerInTheMaking ==
  \A m, n \in Message :
    m # n /\ Author[m] = Author[n] /\ {run[m].pc, run[n].pc} = {"asking"}
      => Lost(m) \/ Lost(n)

\* A user is answered twice within the cooldown only if the second answer was in the
\* making together with another one, or has lost its reservation (markResponded,
\* tryReserve).
AnswersAreSpaced ==
  [][\A m \in Message :
       run[m].pc = "asking" /\ run'[m].pc = "posting"
         => \/ clock - cooldown[Author[m]].respondedAt >= Window
            \/ run[m].shared
            \/ Lost(m)]_vars

\* A reservation that still keeps a user out belongs to an answer in the making; only
\* a call that threw leaves one behind (every return of the runner gives it back).
ReservationsReturned ==
  \A u \in User :
    cooldown[u].reservedUntil > clock => Asking(u) # {} \/ u \in stuck

\* The limiter never lets more than RateMax messages of a user through in any window
\* (moderation-stage.ts:35); of a user whose bucket prune has dropped nothing is said.
RateRespected == \A u \in User : Cardinality(admitted[u]) <= RateMax

-----------------------------------------------------------------------------

\* The inductive invariant. A handler that asks the provider and has not lost its
\* reservation either holds it still, or the user was answered so late since that the
\* cooldown outlasts it: in both cases nobody else can reserve before it is lost.
AskersExclude ==
  \A m \in Message :
    LET c == cooldown[Author[m]] IN
    run[m].pc = "asking" /\ ~Lost(m)
      => /\ run[m].until <= clock + Window
         /\ c.reservedUntil = run[m].until \/ run[m].until <= c.respondedAt + Window

\* One that asks alone since it began, and has not lost its reservation, is still alone,
\* holds it, and the user has not been answered within the cooldown.
AloneUnlessShared ==
  \A m \in Message :
    LET c == cooldown[Author[m]] IN
    run[m].pc = "asking" /\ ~run[m].shared /\ ~Lost(m)
      => /\ Asking(Author[m]) = {m}
         /\ c.reservedUntil = run[m].until
         /\ clock - c.respondedAt >= Window

\* The bucket of a user whom prune has spared knows every hit of the window that was
\* let through, and no other; no hit lies in the future, and a hit of this moment was
\* counted when it came, so that the next one is a new element.
BucketsKnow ==
  /\ \A u \in User \ evicted :
       WithinWindow(admitted[u]) = IF u \in DOMAIN bucket THEN Recent(bucket[u]) ELSE {}
  /\ \A u \in DOMAIN bucket :
       /\ IsFiniteSet(bucket[u])
       /\ \A h \in bucket[u] :
            h.at <= clock /\ (h.at = clock => h.nr < Cardinality(Recent(bucket[u])))

\* What no user is admitted beyond, with the sets finite.
AdmittedIsBounded ==
  \A u \in User : IsFiniteSet(admitted[u]) /\ Cardinality(admitted[u]) <= RateMax

\* Together they are preserved by every step.
IInv ==
  /\ TypeOK
  /\ OneAnswerInTheMaking /\ AskersExclude /\ AloneUnlessShared /\ ReservationsReturned
  /\ BucketsKnow /\ AdmittedIsBounded
=============================================================================
