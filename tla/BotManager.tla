----------------------------- MODULE BotManager -----------------------------
(***************************************************************************)
(* The lifecycle of one bot in BotManager: starts, stops, joins, leaves,   *)
(* timers and authentication failures as calls that interleave at every    *)
(* await. The maps of the manager are keyed by bot, so bots do not         *)
(* interfere. Code between two awaits is one action; a call that only      *)
(* reads (or only writes) several documents in a row is one await.         *)
(***************************************************************************)
EXTENDS Integers

CONSTANTS
  Room,      \* the rooms configured for the bot
  Call,      \* the calls in flight: requests, interval callbacks, startAll
  None,      \* no room, no call
  Requests,  \* which of "start", "stop", "join", "leave" are asked for
  Failures,  \* which of "auth", "platform", "store" may fail
  MaxGen     \* bound: nothing is requested of the bot from this generation on

ASSUME ConstantAssumption ==
  /\ None \notin Room \cup Call
  /\ MaxGen \in Nat

VARIABLES
  startup,     \* the bot's StartupEntry; by is the call its promise belongs to
  runtime,     \* the bot's RuntimeEntry, as the generation that set it; 0 if none
  timers,      \* the rooms with armed intervals
  bot,         \* persisted: the bot's status
  room,        \* persisted: the rooms' statuses
  credential,  \* persisted: the bot has an active credential
  call         \* the calls' local state

memory == <<startup, runtime, timers>>
stored == <<bot, room, credential>>
vars == <<memory, stored, call>>

\* "stopping" without by is a stop whose promise has rejected.
StartupEntry ==
  [status : {"none", "starting", "active", "stopping", "stopped", "error"},
   gen : Nat, by : Call \cup {None}]

\* What a call awaits. "starting" is the part of startBot before the credential is
\* read and "building" the part after it; "waiting" another call's promise.
Await ==
  {"idle", "waiting", "woken", "starting", "building", "listing", "verifying",
   "entering", "joining", "checking", "pinging", "activating", "stopping",
   "leaving", "left", "syncing", "closing", "revoking", "failing", "refused"}

\* task: what the call does about its room; goal: the room joinRoom goes on to once
\* startBot has returned; todo: the rooms doStartBot has still to visit; after: what
\* an authentication failure interrupted; next: the generation it will set.
CallState ==
  [pc : Await, task : {"none", "start", "join", "timer"}, gen : Nat,
   on : Call \cup {None}, goal : Room \cup {None}, room : Room \cup {None},
   todo : SUBSET Room, after : {"none", "verifying", "pinging"}, next : Nat]

Idle == [pc |-> "idle", task |-> "none", gen |-> 0, on |-> None, goal |-> None,
         room |-> None, todo |-> {}, after |-> "none", next |-> 0]

RoomStatus == {"joining", "active", "inactive", "error"}

\* Memory, documents and calls keep the shapes the code gives them, and a call at
\* work on a room has one.
TypeOK ==
  /\ startup \in StartupEntry
  /\ runtime \in Nat
  /\ timers \subseteq Room
  /\ bot \in {"active", "stopped", "error"}
  /\ room \in [Room -> RoomStatus]
  /\ credential \in BOOLEAN
  /\ call \in [Call -> CallState]
  /\ \A c \in Call :
       /\ call[c].pc = "waiting" => call[c].on \in Call
       /\ call[c].pc \in {"verifying", "entering", "joining", "checking", "pinging",
                          "leaving", "left", "syncing", "closing", "revoking", "failing",
                          "refused"} => call[c].room \in Room

Init ==
  /\ startup = [status |-> "none", gen |-> 0, by |-> None]
  /\ runtime = 0
  /\ timers = {}
  /\ bot = "stopped"
  /\ room \in [Room -> {"active", "inactive"}]
  /\ credential = TRUE
  /\ call = [c \in Call |-> Idle]

-----------------------------------------------------------------------------

\* isCurrentGeneration
Current(c) == startup.gen = call[c].gen

\* Variant of Settle: the calls that wait on c are not woken.
SettleAlone(c, next, ok) == [call EXCEPT ![c] = next]

\* The promise of c's transition settles and c goes on as next. Calls that await it
\* look at the bot again, or throw.
Settle(c, next, ok) ==
  [d \in Call |->
     IF d = c THEN next
     ELSE IF call[d].pc = "waiting" /\ call[d].on = c
          THEN IF ok THEN [call[d] EXCEPT !.pc = "woken"] ELSE Idle
          ELSE call[d]]

GoOn(c, pc) == call' = [call EXCEPT ![c].pc = pc]
Return(c) == call' = [call EXCEPT ![c] = Idle]

\* A new request can come in as c.
Free(c) == call[c].pc = "idle" /\ startup.gen < MaxGen

\* Variant of Started: what startBot returns to is not looked at.
StartedForAll(goal, rt, gen) ==
  IF rt = 0 THEN Idle
  ELSE [Idle EXCEPT !.pc = "entering", !.task = "join", !.gen = gen, !.room = goal]

\* startBot has returned: joinRoom goes on if there is a runtime, and throws if not.
Started(goal, rt, gen) ==
  IF goal = None \/ rt = 0 THEN Idle
  ELSE [Idle EXCEPT !.pc = "entering", !.task = "join", !.gen = gen, !.room = goal]

\* doStartBot is called, under a new generation.
BeginAtOnce(c, goal) ==
  /\ startup' = [status |-> "starting", gen |-> startup.gen + 1, by |-> c]
  /\ call' = [call EXCEPT ![c] = [Idle EXCEPT !.pc = "starting", !.task = "start",
                                              !.gen = startup.gen + 1, !.goal = goal]]

\* One turn of startBot's loop: it waits for a transition in flight, finds the bot
\* active, or starts it under a new generation.
Begin(c, goal) ==
  \/ /\ startup.status \in {"starting", "stopping"}
     /\ call' = [call EXCEPT ![c] =
                   IF startup.by = None THEN Idle
                   ELSE [Idle EXCEPT !.pc = "waiting", !.on = startup.by, !.goal = goal]]
     /\ UNCHANGED startup
  \/ /\ startup.status = "active" /\ runtime # 0
     /\ call' = [call EXCEPT ![c] = Started(goal, runtime, startup.gen)]
     /\ UNCHANGED startup
  \/ /\ startup.status \notin {"starting", "stopping"}
     /\ ~(startup.status = "active" /\ runtime # 0)
     /\ BeginAtOnce(c, goal)

StartRequest(c) ==
  /\ "start" \in Requests
  /\ Free(c)
  /\ Begin(c, None)
  /\ UNCHANGED <<runtime, timers, stored>>

JoinRequest(c, r) ==
  /\ "join" \in Requests
  /\ Free(c)
  /\ Begin(c, r)
  /\ UNCHANGED <<runtime, timers, stored>>

Wake(c) ==
  /\ call[c].pc = "woken"
  /\ Begin(c, call[c].goal)
  /\ UNCHANGED <<runtime, timers, stored>>

\* startBot's catch: the entry is overwritten, whatever has happened since.
StartFails(c) ==
  /\ startup' = [status |-> "error", gen |-> call[c].gen, by |-> None]
  /\ call' = Settle(c, Idle, FALSE)
  /\ UNCHANGED <<runtime, timers, stored>>

\* The bot and its credential are read.
Load(c) ==
  /\ call[c].pc = "starting"
  /\ credential
  /\ GoOn(c, "building")
  /\ UNCHANGED <<memory, stored>>

\* createAdapter finds no credential, or a read fails.
LoadFails(c) ==
  /\ call[c].pc = "starting"
  /\ ~credential \/ "store" \in Failures
  /\ StartFails(c)

\* Variant of Build: the generation is not looked at.
BuildAnyway(c) ==
  /\ call[c].pc = "building"
  /\ runtime' = call[c].gen /\ GoOn(c, "listing")
  /\ UNCHANGED <<startup, timers, stored>>

\* The adapter is built. A start that was superseded returns.
Build(c) ==
  /\ call[c].pc = "building"
  /\ IF Current(c)
     THEN runtime' = call[c].gen /\ GoOn(c, "listing")
     ELSE /\ call' = Settle(c, Started(call[c].goal, runtime, startup.gen), TRUE)
          /\ UNCHANGED runtime
  /\ UNCHANGED <<startup, timers, stored>>

\* doStartBot goes on with its rooms: a superseded start deletes the bot's runtime.
Advance(c, todo) ==
  IF ~Current(c)
  THEN runtime' = 0 /\ call' = Settle(c, Idle, TRUE)
  ELSE /\ UNCHANGED runtime
       /\ \/ todo = {} /\ GoOn(c, "activating")
          \/ \E r \in todo :
               call' = [call EXCEPT ![c] = [call[c] EXCEPT !.pc = "verifying", !.room = r,
                                                           !.todo = todo \ {r}]]

\* The rooms are read; those not active are never visited.
ListRooms(c) ==
  /\ call[c].pc = "listing"
  /\ Advance(c, {r \in Room : room[r] = "active"})
  /\ UNCHANGED <<startup, timers, stored>>

\* getRoom answers: the room is live, gone, or its state is unknown.
Verify(c) ==
  /\ call[c].pc = "verifying"
  /\ \/ GoOn(c, "joining") /\ UNCHANGED runtime
     \/ GoOn(c, "closing") /\ UNCHANGED runtime
     \/ Advance(c, call[c].todo)
  /\ UNCHANGED <<startup, timers, stored>>

\* joinRoom reads its room, and marks it joining unless it is active.
Enter(c) ==
  LET r == call[c].room IN
  /\ call[c].pc = "entering"
  /\ IF room[r] = "active"
     THEN GoOn(c, "checking") /\ UNCHANGED room
     ELSE GoOn(c, "joining") /\ room' = [room EXCEPT ![r] = "joining"]
  /\ UNCHANGED <<memory, bot, credential>>

\* RoomService.join
Join(c) ==
  /\ call[c].pc = "joining"
  /\ room' = [room EXCEPT ![call[c].room] = "active"]
  /\ GoOn(c, "checking")
  /\ UNCHANGED <<memory, bot, credential>>

JoinFails(c) ==
  /\ call[c].pc = "joining"
  /\ "platform" \in Failures
  /\ IF call[c].task = "start" THEN StartFails(c)
     ELSE Return(c) /\ UNCHANGED <<memory, stored>>

\* ensureRoomRuntime reads the room again.
Check(c) ==
  /\ call[c].pc = "checking"
  /\ IF room[call[c].room] = "active" THEN GoOn(c, "pinging") /\ UNCHANGED runtime
     ELSE IF call[c].task = "start" THEN Advance(c, call[c].todo)
     ELSE Return(c) /\ UNCHANGED runtime
  /\ UNCHANGED <<startup, timers, stored>>

\* The end of ensureRoomRuntime: a current call arms the room's timers, another one
\* deletes the bot's runtime.
Arm(c) ==
  /\ timers' = IF Current(c) THEN timers \cup {call[c].room} ELSE timers
  /\ IF call[c].task = "start" THEN Advance(c, call[c].todo)
     ELSE runtime' = (IF Current(c) THEN runtime ELSE 0) /\ Return(c)

\* The ping, or the last of the join ping's bounded retries, is done.
Ping(c) ==
  /\ call[c].pc = "pinging"
  /\ IF call[c].task = "timer" THEN Return(c) /\ UNCHANGED <<runtime, timers>>
     ELSE Arm(c)
  /\ UNCHANGED <<startup, stored>>

\* Variant of Activate: the generation is not looked at.
ActivateAnyway(c) ==
  /\ call[c].pc = "activating"
  /\ bot' = "active"
  /\ startup' = [status |-> "active", gen |-> call[c].gen, by |-> None]
  /\ call' = Settle(c, Started(call[c].goal, runtime, startup.gen), TRUE)
  /\ UNCHANGED <<runtime, timers, room, credential>>

\* The bot is persisted as active; startBot completes if it is still current.
Activate(c) ==
  /\ call[c].pc = "activating"
  /\ bot' = "active"
  /\ startup' = IF Current(c) THEN [status |-> "active", gen |-> call[c].gen, by |-> None]
                ELSE startup
  /\ call' = Settle(c, Started(call[c].goal, runtime, startup.gen), TRUE)
  /\ UNCHANGED <<runtime, timers, room, credential>>

\* A read or an update of the store throws, and with it the call: startBot has a
\* catch, the other calls change nothing more. (A store that fails while the failure
\* of a credential is being recorded is left out.)
StoreFails(c) ==
  /\ call[c].pc \in {"listing", "entering", "checking", "activating", "closing", "leaving"}
  /\ "store" \in Failures
  /\ IF call[c].task = "start" THEN StartFails(c)
     ELSE Return(c) /\ UNCHANGED <<memory, stored>>

\* Variant of StopRequest: the timers stay armed.
StopRequestNoClear(c) ==
  /\ "stop" \in Requests
  /\ Free(c)
  /\ startup' = [status |-> "stopping", gen |-> startup.gen + 1, by |-> c]
  /\ runtime' = 0
  /\ call' = [call EXCEPT ![c] = [Idle EXCEPT !.pc = "stopping", !.gen = startup.gen + 1]]
  /\ UNCHANGED <<timers, stored>>

\* stopBot does not wait for anything: timers and runtime go at once.
StopRequest(c) ==
  /\ "stop" \in Requests
  /\ Free(c)
  /\ startup' = [status |-> "stopping", gen |-> startup.gen + 1, by |-> c]
  /\ runtime' = 0
  /\ timers' = {}
  /\ call' = [call EXCEPT ![c] = [Idle EXCEPT !.pc = "stopping", !.gen = startup.gen + 1]]
  /\ UNCHANGED <<stored>>

\* The bot is persisted as stopped; the stop completes if it is still current.
Stop(c) ==
  /\ call[c].pc = "stopping"
  /\ bot' = "stopped"
  /\ startup' = IF Current(c) THEN [status |-> "stopped", gen |-> call[c].gen, by |-> None]
                ELSE startup
  /\ call' = Settle(c, Idle, TRUE)
  /\ UNCHANGED <<runtime, timers, room, credential>>

\* The update fails and stopBot throws; its rejected promise stays in the entry.
StopFails(c) ==
  /\ call[c].pc = "stopping"
  /\ "store" \in Failures
  /\ startup' = IF startup.by = c THEN [startup EXCEPT !.by = None] ELSE startup
  /\ call' = Settle(c, Idle, FALSE)
  /\ UNCHANGED <<runtime, timers, stored>>

-----------------------------------------------------------------------------

\* The leave handler: the platform is told, the room is persisted as inactive, and
\* at last its timers are stopped.
LeaveRequest(c, r) ==
  /\ "leave" \in Requests
  /\ call[c].pc = "idle"
  /\ credential
  /\ call' = [call EXCEPT ![c] = [Idle EXCEPT !.pc = "leaving", !.room = r]]
  /\ UNCHANGED <<memory, stored>>

\* RoomService.leave persists the room as inactive even if the platform throws; the
\* handler then does not reach the timers.
Leave(c) ==
  /\ call[c].pc = "leaving"
  /\ room' = [room EXCEPT ![call[c].room] = "inactive"]
  /\ \/ GoOn(c, "left")
     \/ "platform" \in Failures /\ Return(c)
  /\ UNCHANGED <<memory, bot, credential>>

ClearLeft(c) ==
  /\ call[c].pc = "left"
  /\ timers' = timers \ {call[c].room}
  /\ Return(c)
  /\ UNCHANGED <<startup, runtime, stored>>

\* An interval fires: syncRoom or pingRoom, of a room that is active.
Tick(c, r, pc) ==
  /\ call[c].pc = "idle"
  /\ r \in timers
  /\ runtime # 0
  /\ room[r] = "active"
  /\ call' = [call EXCEPT ![c] = [Idle EXCEPT !.pc = pc, !.task = "timer", !.room = r]]
  /\ UNCHANGED <<memory, stored>>

\* The messages are read and published, an error is left to the next interval, or
\* the platform reports the room gone.
Sync(c) ==
  /\ call[c].pc = "syncing"
  /\ Return(c) \/ GoOn(c, "closing")
  /\ UNCHANGED <<memory, stored>>

\* A room the platform has ended is persisted as inactive; syncRoom then stops its
\* timers, doStartBot goes on.
Close(c) ==
  LET r == call[c].room IN
  /\ call[c].pc = "closing"
  /\ room' = [room EXCEPT ![r] = "inactive"]
  /\ IF call[c].task = "start"
     THEN Advance(c, call[c].todo) /\ UNCHANGED timers
     ELSE Return(c) /\ timers' = timers \ {r} /\ UNCHANGED runtime
  /\ UNCHANGED <<startup, bot, credential>>

\* The platform refuses the credential to getRoom or ping.
Refuse(c) ==
  /\ "auth" \in Failures
  /\ call[c].pc \in {"verifying", "pinging"}
  /\ call' = [call EXCEPT ![c] = [call[c] EXCEPT !.pc = "revoking", !.after = call[c].pc]]
  /\ UNCHANGED <<memory, stored>>

\* handleAuthFailure: the credential is marked invalid; timers and runtime go. The
\* next generation is computed here and set at the end.
Revoke(c) ==
  /\ call[c].pc = "revoking"
  /\ credential' = FALSE
  /\ timers' = {}
  /\ runtime' = 0
  /\ call' = [call EXCEPT ![c] = [call[c] EXCEPT !.pc = "failing", !.next = startup.gen + 1]]
  /\ UNCHANGED <<startup, bot, room>>

\* The bot and its rooms are persisted as failed, and the new generation is set.
FailBot(c) ==
  /\ call[c].pc = "failing"
  /\ bot' = "error"
  /\ room' = [r \in Room |-> IF room[r] \in {"active", "joining"} THEN "error" ELSE room[r]]
  /\ startup' = [status |-> "error", gen |-> call[c].next, by |-> None]
  /\ IF call[c].task = "timer" THEN Return(c) ELSE GoOn(c, "refused")
  /\ UNCHANGED <<runtime, timers, credential>>

\* The interrupted start or join resumes.
Resume(c) ==
  /\ call[c].pc = "refused"
  /\ IF call[c].after = "pinging" THEN Arm(c)
     ELSE Advance(c, call[c].todo) /\ UNCHANGED timers
  /\ UNCHANGED <<startup, stored>>

\* What happens once a call is in flight.
Step(c) ==
  \/ Wake(c) \/ Load(c) \/ LoadFails(c) \/ Build(c) \/ ListRooms(c) \/ Verify(c)
  \/ Enter(c) \/ Join(c) \/ JoinFails(c) \/ Check(c) \/ Ping(c)
  \/ Activate(c) \/ StoreFails(c) \/ Stop(c) \/ StopFails(c)
  \/ Leave(c) \/ ClearLeft(c) \/ Sync(c) \/ Close(c)
  \/ Refuse(c) \/ Revoke(c) \/ FailBot(c) \/ Resume(c)

Next ==
  \E c \in Call :
    \/ Step(c)
    \/ StartRequest(c)
    \/ StopRequest(c)
    \/ \E r \in Room :
         \/ JoinRequest(c, r) \/ LeaveRequest(c, r)
         \/ Tick(c, r, "syncing") \/ Tick(c, r, "pinging")

Spec == Init /\ [][Next]_vars

\* Every await of a store or of the platform ends. The database's driver has timeouts; the
\* platform's client has none (agent.ts:88), so for its requests this is an assumption.
FairSpec == Spec /\ \A c \in Call : WF_vars(Step(c))

-----------------------------------------------------------------------------

Starting(c) ==
  call[c].pc \in {"starting", "building", "listing", "verifying", "joining", "checking",
                  "pinging", "activating", "closing", "revoking", "failing", "refused"}
  /\ call[c].task = "start"

\* bot-manager.ts:66-69: a stop that wins the race is never undone by a late start. A
\* bot that is stopping or stopped has no runtime and no armed timer, however many
\* starts, joins and interval callbacks it has overtaken.
StoppedIsQuiet ==
  startup.status \in {"stopping", "stopped"} => runtime = 0 /\ timers = {}

\* At most one start in flight is the current one, and it is the one the entry names:
\* any other start in flight will abort at its next checkpoint.
OneCurrentStart ==
  \A c \in Call :
    Starting(c) /\ Current(c) => startup.status = "starting" /\ startup.by = c

\* The runtime in use is never that of a superseded start.
RuntimeIsCurrent == runtime # 0 => runtime = startup.gen

\* A call whose promise others may await: a start or a stop in flight.
InTransition(c) == Starting(c) \/ call[c].pc = "stopping"

\* The promise in the entry, and every promise that a call awaits, is that of a start or
\* stop in flight, which settles it whatever happens: the safety half of CallsReturn.
PromisesPending ==
  /\ startup.status = "starting" => startup.by # None /\ Starting(startup.by)
  /\ startup.by # None =>
       InTransition(startup.by) /\ startup.gen = call[startup.by].gen
  /\ \A c \in Call : call[c].pc = "waiting" => InTransition(call[c].on)

\* No call is of a generation to come, a stop that is still current is the one the entry
\* names, and a join that is still current has found the bot starting or active.
GenerationsAgree ==
  \A c \in Call :
    /\ call[c].gen <= startup.gen
    /\ call[c].pc = "stopping" /\ Current(c) =>
         startup.status = "stopping" /\ startup.by = c
    /\ call[c].task = "join" /\ Current(c) => startup.status \in {"starting", "active"}

\* What a call may be about where it is.
Tasked(k) ==
  /\ k.pc \in {"starting", "building", "listing", "verifying", "activating"} =>
       k.task = "start"
  /\ k.pc = "entering" => k.task = "join"
  /\ k.pc \in {"joining", "checking", "refused"} => k.task \in {"start", "join"}
  /\ k.pc = "pinging" => k.task # "none"
  /\ k.pc = "syncing" => k.task = "timer"
  /\ k.pc \in {"revoking", "failing", "refused"} =>
       k.task = "start" \/ (k.after = "pinging" /\ k.task # "none")

TasksAgree == \A c \in Call : Tasked(call[c])

\* The inductive invariant behind StoppedIsQuiet: it holds until a start or a credential
\* fails, which sets the entry without asking what it has become.
IInv ==
  /\ TypeOK /\ TasksAgree
  /\ GenerationsAgree /\ OneCurrentStart /\ RuntimeIsCurrent /\ StoppedIsQuiet
  /\ startup.status = "none" => runtime = 0

\* bot-manager.ts:112-115: every call returns. However starts, stops and failures
\* overtake each other, no start is left waiting for the promise of a transition that
\* nobody settles (of finitely many requests: MaxGen).
CallsReturn == \A c \in Call : call[c].pc # "idle" ~> call[c].pc = "idle"

\* tests/bot-manager.test.ts:236: stop then start restores the bot active. An active
\* bot has a runtime.
ActiveHasRuntime == startup.status = "active" => runtime # 0

\* bot-manager.ts:526-527: after an authentication failure any start in flight aborts
\* and every timer of the bot is torn down. Not so: TLC refutes it.
FailureTearsDown == startup.status = "error" => timers = {}
=============================================================================
