----------------------------- MODULE TenantApi -----------------------------
(***************************************************************************)
(* The HTTP API: requests of several tenants that are authenticated, load  *)
(* the documents they name, and work with what they loaded while other     *)
(* requests go on. A request that is refused (401, 404) changes nothing    *)
(* and is no action. Starts, stops and joins of the bot manager have their *)
(* reads, writes and checks here; timers that fire and failures of the     *)
(* platform or of the store are left to BotManager.                        *)
(***************************************************************************)
EXTENDS FiniteSets, Naturals, Repositories

CONSTANTS
  Request,     \* the requests that arrive; each is handled once
  MaxInFlight  \* bound: requests handled at one time

VARIABLES
  startup,  \* per bot, the StartupEntry of the bot manager
  runtime,  \* per bot, the tenant of its RuntimeEntry
  timers,   \* rooms with armed intervals
  request,  \* the local state of the handlers
  incidents,\* history: what disturbed which document
  promised  \* history: per document, the fields whose update was answered

manager == <<startup, runtime, timers>>
history == <<incidents, promised>>
vars == <<documents, manager, request, history>>

StartupEntry ==
  [status : {"none", "starting", "active", "stopping", "stopped", "error"}, gen : Nat]

\* The routes, by controller and handler. "bots.get" and "rooms.get" stand for the
\* handlers that show what the middleware has loaded, "users.get" for all that only
\* ask the platform with the bot's credential, and "rooms.messages" for reading and
\* for sending messages, which need an active room.
BotRoute ==
  {"bots.get", "bots.remove", "bots.start", "bots.stop", "bots.me", "users.get",
   "credentials.list", "credentials.create", "rooms.list", "rooms.create",
   "rooms.listBotMembers", "usage.summary", "usage.events"}

RoomRoute ==
  {"rooms.get", "rooms.remove", "rooms.join", "rooms.leave", "rooms.messages",
   "rooms.listMembers", "rooms.acceptInvite", "rooms.analyze"}

Route ==
  BotRoute \cup RoomRoute
    \cup {"bots.list", "bots.create", "bots.update", "rooms.update", "credentials.remove"}

\* What a handler awaits next.
Await ==
  {"new", "admitted", "loading", "building", "listing", "verifying", "rejoining",
   "reconfirming", "repinging", "activating", "stopping", "deleting", "finding",
   "marking", "entering", "confirming", "pinging", "leaving", "left", "erasing",
   "merging", "adapting", "calling", "analyzing", "counting", "gathering", "answered"}

\* tenant to credential: what the middleware attached; copy and was: the configuration
\* or settings and the room status it loaded; field: what the body patches; gen: the
\* generation of the start or stop it waits for; shown: the documents of the response,
\* a member by its room and a usage event by its bot.
\* A start keeps in room the active room that it takes up again.
RequestState ==
  [pc : Await, route : Route \cup {"none"}, tenant : Tenant \cup {None},
   bot : Bot \cup {None}, room : Room \cup {None}, credential : Credential \cup {None},
   field : Field \cup {"none"}, copy : SUBSET Field, was : RoomStatus, gen : Nat,
   shown : SUBSET (Bot \cup Room \cup Credential)]

New == [pc |-> "new", route |-> "none", tenant |-> None, bot |-> None, room |-> None,
        credential |-> None, field |-> "none", copy |-> {}, was |-> "configured",
        gen |-> 0, shown |-> {}]

Incident == {"patch", "restart", "rearm", "overwrite"}

\* Documents, the manager's maps and the handlers keep their shapes, and a handler
\* past a middleware has the document it loads.
TypeOK ==
  /\ DocumentsOK
  /\ startup \in [Bot -> StartupEntry]
  /\ runtime \in [Bot -> Tenant \cup {None}]
  /\ timers \subseteq Room
  /\ request \in [Request -> RequestState]
  /\ incidents \subseteq Incident \X (Bot \cup Room)
  /\ promised \in [Bot \cup Room -> SUBSET Field]
  /\ \A r \in Request :
       /\ request[r].pc \in {"loading", "building", "stopping", "deleting"}
            => request[r].bot \in Bot
       /\ request[r].pc \in {"finding", "verifying", "pinging", "leaving", "erasing", "merging"}
            => request[r].room \in Room

DocumentOf(owner) == IF owner = None THEN "free" ELSE "live"

\* Some bots exist, some of them with a room and credentials. No bot runs yet.
Init ==
  /\ \E home \in [Bot -> Tenant \cup {None}], host \in [Room -> Bot \cup {None}],
        holder \in [Credential -> Bot \cup {None}], status \in [Room -> RoomStatus] :
       LET Home(b) == IF b = None THEN None ELSE home[b] IN
       /\ \A x \in Room :
            /\ host[x] # None => Home(host[x]) # None /\ status[x] \in {"configured", "active"}
            /\ host[x] = None => status[x] = "configured"
            /\ \A y \in Room \ {x} : host[x] # None => host[y] # host[x]
       /\ \A c \in Credential : holder[c] # None => Home(holder[c]) # None
       /\ bots = [b \in Bot |-> [state |-> DocumentOf(home[b]), tenant |-> home[b],
                                 config |-> {}]]
       /\ rooms = [x \in Room |-> [state |-> DocumentOf(host[x]), tenant |-> Home(host[x]),
                                   bot |-> host[x], status |-> status[x], settings |-> {}]]
       /\ credentials = [c \in Credential |-> [state |-> DocumentOf(holder[c]),
                                               tenant |-> Home(holder[c]),
                                               bot |-> holder[c]]]
  /\ startup = [b \in Bot |-> [status |-> "none", gen |-> 0]]
  /\ runtime = [b \in Bot |-> None]
  /\ timers = {}
  /\ request = [r \in Request |-> New]
  /\ incidents = {}
  /\ promised = [d \in Bot \cup Room |-> {}]

-----------------------------------------------------------------------------

\* Refused, failed or answered without documents: the request is over.
Over == [New EXCEPT !.pc = "answered"]

GoOn(r, pc) == request' = [request EXCEPT ![r].pc = pc]
End(r) == request' = [request EXCEPT ![r] = Over]
Show(r, shown) == request' = [request EXCEPT ![r] = [Over EXCEPT !.tenant = request[r].tenant,
                                                                !.shown = shown]]
At(r, route, pc) == request[r].route = route /\ request[r].pc = pc

Target(p) == IF p.room = None THEN p.bot ELSE p.room

InFlight(q) == request[q].pc \notin {"new", "answered"}

\* Two updates of one document; a removal of a room and what may arm its timers.
Disturbs(k, p, q) ==
  \/ k = "patch" /\ p.route = q.route /\ p.route \in {"bots.update", "rooms.update"}
     /\ Target(p) = Target(q)
  \/ k = "rearm" /\ p.route = "rooms.remove" /\ p.bot = q.bot
     /\ q.route \in {"bots.start", "rooms.join"}

Meetings(r, p) ==
  {i \in Incident \X (Bot \cup Room) : \E q \in Request \ {r} :
     /\ InFlight(q)
     /\ \/ Disturbs(i[1], p, request[q]) /\ i[2] = Target(p)
        \/ Disturbs(i[1], request[q], p) /\ i[2] = Target(request[q])}

\* The middleware lets the request through with the documents it has loaded.
Enter(r, p) ==
  /\ request' = [request EXCEPT ![r] = p]
  /\ incidents' = incidents \cup Meetings(r, p)
  /\ UNCHANGED <<documents, manager, promised>>

\* authentication: the key is that of a tenant.
Authenticated(t, route) == [New EXCEPT !.pc = "admitted", !.tenant = t, !.route = route]

AdmitTenant(r, t) ==
  \E route \in {"bots.list", "bots.create"} : Enter(r, Authenticated(t, route))

\* requireBot
AdmitBot(r, t) ==
  \E b \in BotsOf(t) :
    \/ \E route \in BotRoute :
         Enter(r, [Authenticated(t, route) EXCEPT !.bot = b])
    \/ \E f \in Field :
         Enter(r, [Authenticated(t, "bots.update") EXCEPT
                     !.bot = b, !.field = f, !.copy = bots[b].config])

\* requireRoom, after requireBot
AdmitRoom(r, t) ==
  \E b \in BotsOf(t), x \in Room :
    /\ FindRoom(t, b, x)
    /\ \/ \E route \in RoomRoute :
            Enter(r, [Authenticated(t, route) EXCEPT
                        !.bot = b, !.room = x, !.was = rooms[x].status])
       \/ \E f \in Field :
            Enter(r, [Authenticated(t, "rooms.update") EXCEPT
                        !.bot = b, !.room = x, !.field = f])

\* requireCredential, after requireBot: whose of the tenant's bots it is is not asked.
AdmitCredential(r, t) ==
  \E b \in BotsOf(t), c \in Credential :
    /\ FindCredential(t, c)
    /\ Enter(r, [Authenticated(t, "credentials.remove") EXCEPT !.bot = b, !.credential = c])

Admit(r) ==
  /\ request[r].pc = "new"
  /\ Cardinality({q \in Request : InFlight(q)}) < MaxInFlight
  /\ \E t \in Tenant :
       AdmitTenant(r, t) \/ AdmitBot(r, t) \/ AdmitRoom(r, t) \/ AdmitCredential(r, t)

-----------------------------------------------------------------------------
(* Documents                                                               *)

ListBots(r) ==
  /\ At(r, "bots.list", "admitted")
  /\ Show(r, BotsOf(request[r].tenant))
  /\ UNCHANGED <<documents, manager, history>>

ListCredentials(r) ==
  /\ At(r, "credentials.list", "admitted")
  /\ Show(r, CredentialsOf(request[r].tenant, request[r].bot))
  /\ UNCHANGED <<documents, manager, history>>

ListRooms(r) ==
  /\ At(r, "rooms.list", "admitted")
  /\ Show(r, RoomsOf(request[r].tenant, request[r].bot))
  /\ UNCHANGED <<documents, manager, history>>

ShowLoaded(r) ==
  /\ request[r].pc = "admitted" /\ request[r].route \in {"bots.get", "rooms.get"}
  /\ Show(r, {Target(request[r])})
  /\ UNCHANGED <<documents, manager, history>>

\* usage.events: the usage events of the bot and tenant.
ShowUsage(r) ==
  /\ At(r, "usage.events", "admitted")
  /\ Show(r, {request[r].bot})
  /\ UNCHANGED <<documents, manager, history>>

\* usage.summary counts them ...
CountUsage(r) ==
  /\ At(r, "usage.summary", "admitted")
  /\ GoOn(r, "counting")
  /\ UNCHANGED <<documents, manager, history>>

\* ... and then, as rooms.listBotMembers does, reads the bot's rooms ...
GatherRooms(r) ==
  /\ At(r, "usage.summary", "counting") \/ At(r, "rooms.listBotMembers", "admitted")
  /\ request' = [request EXCEPT ![r].pc = "gathering",
                               ![r].shown = RoomsOf(request[r].tenant, request[r].bot)]
  /\ UNCHANGED <<documents, manager, history>>

\* ... for their members, who are found by the ids of rooms alone.
ShowMembers(r) ==
  /\ \/ At(r, "rooms.listMembers", "admitted") /\ Show(r, {request[r].room})
     \/ request[r].pc = "gathering" /\ Show(r, request[r].shown)
  /\ UNCHANGED <<documents, manager, history>>

CreateBot(r) ==
  /\ At(r, "bots.create", "admitted")
  /\ \E b \in Bot :
       /\ InsertBot(request[r].tenant, b)
       /\ Show(r, {b})
  /\ UNCHANGED <<rooms, credentials, manager, history>>

\* That the bot is still there is not asked again.
CreateCredential(r) ==
  /\ At(r, "credentials.create", "admitted")
  /\ \E c \in Credential :
       /\ InsertCredential(request[r].tenant, request[r].bot, c)
       /\ Show(r, {c})
  /\ UNCHANGED <<bots, rooms, manager, history>>

CreateRoom(r) ==
  /\ At(r, "rooms.create", "admitted")
  /\ \E x \in Room :
       /\ InsertRoom(request[r].tenant, request[r].bot, x)
       /\ Show(r, {x})
  /\ UNCHANGED <<bots, credentials, manager, history>>

\* An insert that an index or the store refuses.
CreateFails(r) ==
  /\ request[r].route \in {"bots.create", "credentials.create", "rooms.create"}
  /\ request[r].pc = "admitted"
  /\ End(r)
  /\ UNCHANGED <<documents, manager, history>>

\* deleteCredential reads again and is silent if the credential is gone.
RemoveCredential(r) ==
  /\ At(r, "credentials.remove", "admitted")
  /\ DeleteCredential(request[r].tenant, request[r].credential)
  /\ End(r)
  /\ UNCHANGED <<bots, rooms, manager, history>>

\* Variant of PatchBot: the repository gets the fields of the body only.
PatchBotAlone(r) ==
  /\ At(r, "bots.update", "admitted")
  /\ UpdateBot(request[r].tenant, request[r].bot, {request[r].field})
  /\ promised' = [promised EXCEPT ![request[r].bot] = @ \cup {request[r].field}]
  /\ End(r)
  /\ UNCHANGED <<rooms, credentials, manager, incidents>>

\* The fields of the body are merged into the aiConfig that requireBot has loaded.
PatchBot(r) ==
  /\ At(r, "bots.update", "admitted")
  /\ UpdateBot(request[r].tenant, request[r].bot, request[r].copy \cup {request[r].field})
  /\ promised' = [promised EXCEPT ![request[r].bot] = @ \cup {request[r].field}]
  /\ End(r)
  /\ UNCHANGED <<rooms, credentials, manager, incidents>>

\* update of the room repository reads the settings ...
ReadSettings(r) ==
  /\ At(r, "rooms.update", "admitted")
  /\ LET x == request[r].room IN
     request' = [request EXCEPT
       ![r].pc = "merging",
       ![r].copy = IF rooms[x].state = "live" /\ rooms[x].tenant = request[r].tenant
                   THEN rooms[x].settings ELSE {}]
  /\ UNCHANGED <<documents, manager, history>>

\* ... and writes them with the patch.
PatchRoom(r) ==
  /\ At(r, "rooms.update", "merging")
  /\ UpdateSettings(request[r].tenant, request[r].room,
                    request[r].copy \cup {request[r].field})
  /\ promised' = [promised EXCEPT ![request[r].room] = @ \cup {request[r].field}]
  /\ End(r)
  /\ UNCHANGED <<bots, credentials, manager, incidents>>

-----------------------------------------------------------------------------
(* The bot manager                                                         *)

Busy(b) == startup[b].status \in {"starting", "stopping"}
Running(b) == startup[b].status = "active" /\ runtime[b] # None
Current(r) == startup[request[r].bot].gen = request[r].gen

\* Variant of Started: whoever has started the bot goes on like joinRoom.
StartedForAll(r, owner, gen) ==
  request' = [request EXCEPT ![r] =
    IF owner # None /\ owner = @.tenant THEN [@ EXCEPT !.pc = "finding", !.gen = gen] ELSE Over]

\* startBot has returned, with the runtime and the entry there are now: joinRoom goes
\* on if there is a runtime of the tenant, and throws if not.
Started(r, owner, gen) ==
  request' = [request EXCEPT ![r] =
    IF @.route = "rooms.join" /\ owner # None /\ owner = @.tenant
    THEN [@ EXCEPT !.pc = "finding", !.gen = gen]
    ELSE Over]

StartAgain(r) ==
  /\ request[r].pc = "admitted" /\ request[r].route \in {"bots.start", "rooms.join"}
  /\ LET b == request[r].bot IN
     /\ Running(b)
     /\ Started(r, runtime[b], startup[b].gen)
  /\ UNCHANGED <<documents, manager, history>>

\* A start that begins while a removal of the bot is past its stop is noted.
StartBegin(r) ==
  /\ request[r].pc = "admitted" /\ request[r].route \in {"bots.start", "rooms.join"}
  /\ LET b == request[r].bot
         gen == startup[b].gen + 1 IN
     /\ ~Busy(b) /\ ~Running(b)
     /\ startup' = [startup EXCEPT ![b] = [status |-> "starting", gen |-> gen]]
     /\ request' = [request EXCEPT ![r].pc = "loading", ![r].gen = gen]
     /\ incidents' = incidents \cup
          {<<"restart", b>> : q \in {q \in Request :
             /\ request[q].route = "bots.remove" /\ request[q].bot = b
             /\ request[q].pc \in {"stopping", "deleting"}}}
  /\ UNCHANGED <<documents, runtime, timers, promised>>

\* doStartBot finds the bot and an active credential ...
Load(r) ==
  /\ request[r].pc = "loading"
  /\ FindBot(request[r].tenant, request[r].bot)
  /\ \E c \in Credential :
       /\ ActiveCredential(request[r].tenant, request[r].bot, c)
       /\ request' = [request EXCEPT ![r].pc = "building", ![r].credential = c]
  /\ UNCHANGED <<documents, manager, history>>

\* ... or throws, and the catch of startBot sets the entry, whose ever it is now.
LoadFails(r) ==
  /\ request[r].pc = "loading"
  /\ LET b == request[r].bot IN
     /\ ~FindBot(request[r].tenant, b) \/ CredentialsOf(request[r].tenant, b) = {}
     /\ startup' = [startup EXCEPT ![b] = [status |-> "error", gen |-> request[r].gen]]
     /\ incidents' = IF Current(r) THEN incidents ELSE incidents \cup {<<"overwrite", b>>}
  /\ End(r)
  /\ UNCHANGED <<documents, runtime, timers, promised>>

Build(r) ==
  /\ request[r].pc = "building"
  /\ Current(r)
  /\ runtime' = [runtime EXCEPT ![request[r].bot] = request[r].tenant]
  /\ GoOn(r, "listing")
  /\ UNCHANGED <<documents, startup, timers, history>>

\* Superseded before there is a runtime.
GiveUp(r) ==
  /\ request[r].pc = "building"
  /\ ~Current(r)
  /\ Started(r, runtime[request[r].bot], startup[request[r].bot].gen)
  /\ UNCHANGED <<documents, manager, history>>

\* Superseded after that: the runtime goes, whose ever it is now.
DropRuntime(r) ==
  /\ runtime' = [runtime EXCEPT ![request[r].bot] = None]
  /\ Started(r, None, startup[request[r].bot].gen)

\* The rooms are read; one that is active is looked up on the platform.
ListForStart(r) ==
  /\ request[r].pc = "listing"
  /\ LET active == {x \in RoomsOf(request[r].tenant, request[r].bot) : rooms[x].status = "active"} IN
     IF ~Current(r) THEN DropRuntime(r)
     ELSE /\ \/ active = {} /\ GoOn(r, "activating")
             \/ \E x \in active :
                  request' = [request EXCEPT ![r].pc = "verifying", ![r].room = x]
          /\ UNCHANGED runtime
  /\ UNCHANGED <<documents, startup, timers, history>>

\* reconcileActiveRoom: the platform has the room, ...
Verified(r) ==
  /\ request[r].pc = "verifying"
  /\ GoOn(r, "rejoining")
  /\ UNCHANGED <<documents, manager, history>>

Checked(r) ==
  IF Current(r) THEN GoOn(r, "activating") /\ UNCHANGED runtime ELSE DropRuntime(r)

\* ... does not have it any more, or cannot tell.
NotVerified(r) ==
  /\ request[r].pc = "verifying"
  /\ \/ UpdateRoomStatus(request[r].tenant, request[r].room, "inactive")
     \/ UNCHANGED rooms
  /\ Checked(r)
  /\ UNCHANGED <<bots, credentials, startup, timers, history>>

Activate(r) ==
  /\ request[r].pc = "activating"
  /\ startup' = IF Current(r) THEN [startup EXCEPT ![request[r].bot].status = "active"]
                ELSE startup
  /\ Started(r, runtime[request[r].bot], startup[request[r].bot].gen)
  /\ UNCHANGED <<documents, runtime, timers, history>>

\* Variant of Stop: the bot is removed without being stopped.
StopNothing(r) ==
  /\ request[r].pc = "admitted" /\ request[r].route \in {"bots.stop", "bots.remove"}
  /\ IF request[r].route = "bots.remove" THEN GoOn(r, "deleting") ELSE End(r)
  /\ UNCHANGED <<documents, manager, history>>

\* stopBot, up to its update of the bot.
Stop(r) ==
  /\ request[r].pc = "admitted" /\ request[r].route \in {"bots.stop", "bots.remove"}
  /\ LET b == request[r].bot
         gen == startup[b].gen + 1 IN
     /\ timers' = {x \in timers : rooms[x].bot # b}
     /\ runtime' = [runtime EXCEPT ![b] = None]
     /\ startup' = [startup EXCEPT ![b] = [status |-> "stopping", gen |-> gen]]
     /\ request' = [request EXCEPT ![r].pc = "stopping", ![r].gen = gen]
  /\ UNCHANGED <<documents, history>>

Stopped(r) ==
  /\ request[r].pc = "stopping"
  /\ startup' = IF Current(r) THEN [startup EXCEPT ![request[r].bot].status = "stopped"]
                ELSE startup
  /\ IF request[r].route = "bots.remove" THEN GoOn(r, "deleting") ELSE End(r)
  /\ UNCHANGED <<documents, runtime, timers, history>>

\* The bot's rooms and credentials stay.
RemoveBot(r) ==
  /\ request[r].pc = "deleting"
  /\ DeleteBot(request[r].tenant, request[r].bot)
  /\ End(r)
  /\ UNCHANGED <<rooms, credentials, manager, history>>

-----------------------------------------------------------------------------
(* Rooms                                                                   *)

\* joinRoom after startBot
Find(r) ==
  /\ request[r].pc = "finding"
  /\ LET x == request[r].room IN
     IF FindRoom(request[r].tenant, request[r].bot, x)
     THEN GoOn(r, IF rooms[x].status = "active" THEN "confirming" ELSE "marking")
     ELSE End(r)
  /\ UNCHANGED <<documents, manager, history>>

Mark(r) ==
  /\ request[r].pc = "marking"
  /\ UpdateRoomStatus(request[r].tenant, request[r].room, "joining")
  /\ GoOn(r, "entering")
  /\ UNCHANGED <<bots, credentials, manager, history>>

\* RoomService.join, for joinRoom or for a start
Join(r) ==
  /\ request[r].pc \in {"entering", "rejoining"}
  /\ UpdateRoomStatus(request[r].tenant, request[r].room, "active")
  /\ GoOn(r, IF request[r].pc = "entering" THEN "confirming" ELSE "reconfirming")
  /\ UNCHANGED <<bots, credentials, manager, history>>

StillActive(r) ==
  LET x == request[r].room IN
  FindRoom(request[r].tenant, request[r].bot, x) /\ rooms[x].status = "active"

\* joinRoom and ensureRoomRuntime read the room again.
Confirm(r) ==
  /\ request[r].pc = "confirming"
  /\ IF StillActive(r) THEN GoOn(r, "pinging") ELSE End(r)
  /\ UNCHANGED <<documents, manager, history>>

Reconfirm(r) ==
  /\ request[r].pc = "reconfirming"
  /\ IF StillActive(r) THEN GoOn(r, "repinging") /\ UNCHANGED runtime ELSE Checked(r)
  /\ UNCHANGED <<documents, startup, timers, history>>

\* The end of ensureRoomRuntime; a start checks its generation once more.
Arm(r) ==
  /\ request[r].pc \in {"pinging", "repinging"}
  /\ timers' = IF Current(r) THEN timers \cup {request[r].room} ELSE timers
  /\ IF request[r].pc = "repinging" THEN Checked(r)
     ELSE /\ runtime' = IF Current(r) THEN runtime
                        ELSE [runtime EXCEPT ![request[r].bot] = None]
          /\ End(r)
  /\ UNCHANGED <<documents, startup, history>>

\* Which routes need an adapter, and what they do with it. Leaving depends on the
\* status that requireRoom has loaded, and so do reading and sending messages.
Needs(p) ==
  CASE p.route = "rooms.leave" -> "leaving"
    [] p.route = "rooms.remove" /\ p.was \in {"active", "joining"} -> "leaving"
    [] p.route \in {"rooms.messages", "rooms.analyze"} /\ p.was = "active" -> "calling"
    [] p.route \in {"rooms.acceptInvite", "users.get", "bots.me"} -> "calling"
    [] OTHER -> "none"

\* The request goes on with one of the bot's active credentials, or is refused.
WithCredential(r, pc) ==
  LET own == CredentialsOf(request[r].tenant, request[r].bot) IN
  \/ own = {} /\ End(r)
  \/ \E c \in own : request' = [request EXCEPT ![r].pc = pc, ![r].credential = c]

\* bots.me first reads the bot's account from its active credential.
ReadAccount(r) ==
  /\ At(r, "bots.me", "admitted")
  /\ WithCredential(r, "adapting")
  /\ UNCHANGED <<documents, manager, history>>

\* createAdapter reads the bot's active credential, or throws.
CreateAdapter(r) ==
  /\ request[r].pc = IF request[r].route = "bots.me" THEN "adapting" ELSE "admitted"
  /\ Needs(request[r]) # "none"
  /\ WithCredential(r, Needs(request[r]))
  /\ UNCHANGED <<documents, manager, history>>

\* 400: the room is to be joined first.
NotJoined(r) ==
  /\ request[r].pc = "admitted" /\ request[r].route \in {"rooms.messages", "rooms.analyze"}
  /\ Needs(request[r]) = "none"
  /\ End(r)
  /\ UNCHANGED <<documents, manager, history>>

\* The platform has answered, with whatever, or the provider has analyzed it.
Called(r) ==
  /\ request[r].pc \in {"calling", "analyzing"}
  /\ End(r)
  /\ UNCHANGED <<documents, manager, history>>

\* The messages of the room go to the AI provider, if there are any.
Analyze(r) ==
  /\ At(r, "rooms.analyze", "calling")
  /\ GoOn(r, "analyzing")
  /\ UNCHANGED <<documents, manager, history>>

\* RoomService.leave writes the status even if the platform has thrown.
Leave(r) ==
  /\ request[r].pc = "leaving"
  /\ UpdateRoomStatus(request[r].tenant, request[r].room, "inactive")
  /\ GoOn(r, "left")
  /\ UNCHANGED <<bots, credentials, manager, history>>

\* onRoomInactive, after a leave that did not throw.
Left(r) ==
  /\ At(r, "rooms.leave", "left")
  /\ timers' = timers \ {request[r].room}
  /\ End(r)
  /\ UNCHANGED <<documents, startup, runtime, history>>

\* A leave that throws ends the request before onRoomInactive, and a room that was
\* to be removed is kept.
LeaveFails(r) ==
  /\ request[r].pc = "left"
  /\ End(r)
  /\ UNCHANGED <<documents, manager, history>>

\* Variant of Disarm: the timers stay.
DisarmNothing(r) ==
  /\ \/ At(r, "rooms.remove", "left")
     \/ At(r, "rooms.remove", "admitted") /\ Needs(request[r]) = "none"
  /\ GoOn(r, "erasing")
  /\ UNCHANGED <<documents, manager, history>>

Disarm(r) ==
  /\ \/ At(r, "rooms.remove", "left")
     \/ At(r, "rooms.remove", "admitted") /\ Needs(request[r]) = "none"
  /\ timers' = timers \ {request[r].room}
  /\ GoOn(r, "erasing")
  /\ UNCHANGED <<documents, startup, runtime, history>>

RemoveRoom(r) ==
  /\ request[r].pc = "erasing"
  /\ DeleteRoom(request[r].tenant, request[r].room)
  /\ End(r)
  /\ UNCHANGED <<bots, credentials, manager, history>>

-----------------------------------------------------------------------------

Handle(r) ==
  \/ ListBots(r) \/ ListCredentials(r) \/ ListRooms(r) \/ ShowLoaded(r)
  \/ ShowUsage(r) \/ CountUsage(r) \/ GatherRooms(r) \/ ShowMembers(r)
  \/ CreateBot(r) \/ CreateCredential(r) \/ CreateRoom(r) \/ CreateFails(r)
  \/ RemoveCredential(r) \/ PatchBot(r) \/ ReadSettings(r) \/ PatchRoom(r)
  \/ Stop(r) \/ Stopped(r) \/ RemoveBot(r)
  \/ ReadAccount(r) \/ CreateAdapter(r) \/ NotJoined(r) \/ Called(r) \/ Analyze(r)
  \/ Leave(r) \/ Left(r) \/ LeaveFails(r) \/ Disarm(r) \/ RemoveRoom(r)

Start(r) ==
  \/ StartAgain(r) \/ StartBegin(r) \/ Load(r) \/ LoadFails(r) \/ Build(r) \/ GiveUp(r)
  \/ ListForStart(r) \/ Verified(r) \/ NotVerified(r) \/ Reconfirm(r) \/ Activate(r)
  \/ Find(r) \/ Mark(r) \/ Join(r) \/ Confirm(r) \/ Arm(r)

Next == \E r \in Request : Admit(r) \/ Handle(r) \/ Start(r)

Spec == Init /\ [][Next]_vars

-----------------------------------------------------------------------------

BotIsOf(b, t) == bots[b].tenant = t
RoomIsOf(x, t) == rooms[x].tenant = t
CredentialIsOf(c, t) == credentials[c].tenant = t

\* Whatever a request holds, uses or answers belongs to its tenant, rooms and
\* credentials to the tenant of their bot, and a running bot to the tenant whose
\* credential runs it; and a bot acts on the platform with a credential of its own.
Isolation ==
  /\ \A x \in Room : rooms[x].bot # None =>
       rooms[x].bot \in Bot /\ BotIsOf(rooms[x].bot, rooms[x].tenant)
  /\ \A c \in Credential : credentials[c].bot # None =>
       credentials[c].bot \in Bot /\ BotIsOf(credentials[c].bot, credentials[c].tenant)
  /\ \A b \in Bot : runtime[b] # None => BotIsOf(b, runtime[b])
  /\ \A r \in Request : LET p == request[r] IN
       /\ p.bot # None => BotIsOf(p.bot, p.tenant)
       /\ p.room # None => RoomIsOf(p.room, p.tenant) /\ rooms[p.room].bot = p.bot
       /\ p.credential # None =>
            /\ CredentialIsOf(p.credential, p.tenant)
            /\ p.route # "credentials.remove" => credentials[p.credential].bot = p.bot
       /\ \A d \in p.shown : /\ d \in Bot => BotIsOf(d, p.tenant)
                             /\ d \in Room => RoomIsOf(d, p.tenant)
                             /\ d \in Credential => CredentialIsOf(d, p.tenant)

\* A step of a request changes documents of its tenant only, and only those become
\* its tenant's that nobody had.
WritesInside ==
  [][\A r \in Request : request[r] # request'[r] =>
       LET t == request[r].tenant IN
       /\ \A b \in Bot : bots[b] # bots'[b] =>
            bots'[b].tenant = t /\ (bots[b].state = "free" \/ bots[b].tenant = t)
       /\ \A x \in Room : rooms[x] # rooms'[x] =>
            rooms'[x].tenant = t /\ (rooms[x].state = "free" \/ rooms[x].tenant = t)
       /\ \A c \in Credential : credentials[c] # credentials'[c] =>
            credentials'[c].tenant = t
            /\ (credentials[c].state = "free" \/ credentials[c].tenant = t)]_vars

\* A field whose update was answered stays set unless two updates of the same bot or
\* room were in flight together: handlers merge a patch into what they read before.
PatchesKept ==
  /\ \A b \in Bot : bots[b].state = "live" /\ <<"patch", b>> \notin incidents
       => promised[b] \subseteq bots[b].config
  /\ \A x \in Room : rooms[x].state = "live" /\ <<"patch", x>> \notin incidents
       => promised[x] \subseteq rooms[x].settings

\* What bots.controller.ts says: a patch does not wipe the fields it does not set.
PatchesMerge ==
  \A b \in Bot : bots[b].state = "live" => promised[b] \subseteq bots[b].config

\* A removed bot has no runtime and no timers unless a start began between the stop
\* and the deletion, or a start that failed late had lowered the bot's generation. A
\* removed room has no timers unless a start or join of its bot was in flight.
RemovedIsQuiet ==
  /\ \A b \in Bot :
       bots[b].state = "gone" /\ {<<"restart", b>>, <<"overwrite", b>>} \cap incidents = {}
       => runtime[b] = None /\ \A x \in timers : rooms[x].bot # b
  /\ \A x \in timers : rooms[x].state = "gone" => <<"rearm", x>> \in incidents

-----------------------------------------------------------------------------

\* What the proofs of the last two need in addition. Which route is at an await:
StartAwait ==
  {"loading", "building", "listing", "verifying", "rejoining", "reconfirming", "repinging",
   "activating", "finding", "marking", "entering", "confirming", "pinging"}

Routed ==
  \A r \in Request : LET p == request[r] IN
    /\ p.pc \in StartAwait => p.route \in {"bots.start", "rooms.join"}
    /\ p.pc \in {"stopping", "deleting"} => p.route \in {"bots.stop", "bots.remove"}
    /\ p.pc = "deleting" => p.route = "bots.remove"
    /\ p.pc = "erasing" => p.route = "rooms.remove"
    /\ p.pc = "merging" => p.route = "rooms.update"
    /\ p.route = "bots.update" => p.room = None

\* Two requests in flight that disturb each other have been noted when the later came.
MeetingsNoted ==
  \A r, q \in Request, k \in Incident :
    r # q /\ InFlight(r) /\ InFlight(q) /\ Disturbs(k, request[r], request[q])
      => <<k, Target(request[r])>> \in incidents

\* An update that met no other one writes at least what has been answered before.
PatchesTold ==
  /\ \A b \in Bot : bots[b].tenant = None => promised[b] = {}
  /\ \A x \in Room : rooms[x].tenant = None => promised[x] = {}
  /\ \A r \in Request : LET p == request[r] IN
       /\ InFlight(r) /\ p.route = "bots.update" /\ bots[p.bot].state = "live"
          /\ <<"patch", p.bot>> \notin incidents
            => promised[p.bot] \subseteq p.copy
       /\ p.pc = "merging" /\ rooms[p.room].state = "live" /\ <<"patch", p.room>> \notin incidents
            => promised[p.room] \subseteq p.copy

\* A room with timers has or had a bot; one that is being erased, or that a start or a
\* join works with although it is gone, has been noted or has no timers.
TimersKnown ==
  /\ \A x \in timers : rooms[x].bot # None
  /\ \A r \in Request : LET p == request[r] IN
       /\ p.pc = "erasing" /\ p.room \in timers => <<"rearm", p.room>> \in incidents
       /\ InFlight(r) /\ p.route \in {"bots.start", "rooms.join"} /\ p.room # None =>
            \/ rooms[p.room].state = "live"
            \/ <<"rearm", p.room>> \in incidents

\* A bot that is removed, or about to be once its stop is done.
Removing(b) ==
  \/ bots[b].state = "gone"
  \/ \E q \in Request : /\ request[q].route = "bots.remove" /\ request[q].bot = b
                        /\ request[q].pc \in {"stopping", "deleting"}

\* Unless noted, no start of such a bot is current any more; one that began after the
\* removal does not find the bot.
StartsOutdated ==
  \A b \in Bot :
    /\ <<"overwrite", b>> \notin incidents =>
         \A r \in Request : request[r].pc \in StartAwait /\ request[r].bot = b
           => request[r].gen <= startup[b].gen
    /\ Removing(b) /\ {<<"restart", b>>, <<"overwrite", b>>} \cap incidents = {} =>
         /\ runtime[b] = None
         /\ \A x \in timers : rooms[x].bot # b
         /\ \A r \in Request :
              request[r].pc \in StartAwait /\ request[r].bot = b
                => \/ request[r].gen < startup[b].gen
                   \/ bots[b].state = "gone" /\ request[r].pc = "loading"

\* With the shapes and the ownership (TenantApiProofs) they are preserved by every step.
Quietness ==
  Routed /\ MeetingsNoted /\ PatchesTold /\ PatchesKept
    /\ TimersKnown /\ StartsOutdated /\ RemovedIsQuiet
=============================================================================
