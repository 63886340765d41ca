--------------------------- MODULE TenantApiProofs ---------------------------
(***************************************************************************)
(* Proofs about TenantApi, for any tenants, documents and requests.        *)
(***************************************************************************)
EXTENDS TenantApi, TLAPS

\* Nobody owns a free id, an owned room or credential has a tenant, and its bot is of
\* that tenant.
Owned ==
  /\ \A b \in Bot : bots[b].state = "free" => bots[b].tenant = None
  /\ \A x \in Room :
       /\ rooms[x].state = "free" => rooms[x].tenant = None /\ rooms[x].bot = None
       /\ rooms[x].bot # None => /\ rooms[x].tenant # None
                                 /\ bots[rooms[x].bot].tenant = rooms[x].tenant
  /\ \A c \in Credential :
       /\ credentials[c].state = "free" => credentials[c].tenant = None /\ credentials[c].bot = None
       /\ credentials[c].bot # None => /\ credentials[c].tenant # None
                                       /\ bots[credentials[c].bot].tenant = credentials[c].tenant

ManagerOK ==
  /\ startup \in [Bot -> StartupEntry]
  /\ runtime \in [Bot -> Tenant \cup {None}]
  /\ timers \subseteq Room
  /\ \A b \in Bot : runtime[b] # None => bots[b].tenant = runtime[b]

HistoryOK ==
  /\ incidents \subseteq Incident \X (Bot \cup Room)
  /\ promised \in [Bot \cup Room -> SUBSET Field]

\* Where a handler works with a room.
RoomAwait ==
  {"verifying", "rejoining", "reconfirming", "repinging", "finding", "marking", "entering",
   "confirming", "pinging", "leaving", "left", "erasing", "merging"}

TenantRoute == {"bots.list", "bots.create"}

\* A request has what the middlewares of its route attach.
Sane(p) ==
  /\ p.tenant = None => p.bot = None /\ p.room = None /\ p.credential = None /\ p.shown = {}
  /\ p.pc \notin {"new", "answered"} =>
       p.tenant \in Tenant /\ (p.bot \in Bot \/ (p.pc = "admitted" /\ p.route \in TenantRoute))
  /\ p.pc \in RoomAwait \/ p.route \in RoomRoute \cup {"rooms.update"} => p.room \in Room
  /\ p.route \in {"bots.update", "rooms.update"} => p.field \in Field

\* The documents a request has are its tenant's.
Mine(p) ==
  /\ p.bot # None => bots[p.bot].tenant = p.tenant
  /\ p.room # None => rooms[p.room].tenant = p.tenant /\ rooms[p.room].bot = p.bot
  /\ p.credential # None =>
       /\ credentials[p.credential].tenant = p.tenant
       /\ p.route # "credentials.remove" => credentials[p.credential].bot = p.bot
  /\ \A d \in p.shown : /\ d \in Bot => bots[d].tenant = p.tenant
                        /\ d \in Room => rooms[d].tenant = p.tenant
                        /\ d \in Credential => credentials[d].tenant = p.tenant

\* The same after a step.
MineNext(p) ==
  /\ p.bot # None => bots'[p.bot].tenant = p.tenant
  /\ p.room # None => rooms'[p.room].tenant = p.tenant /\ rooms'[p.room].bot = p.bot
  /\ p.credential # None =>
       /\ credentials'[p.credential].tenant = p.tenant
       /\ p.route # "credentials.remove" => credentials'[p.credential].bot = p.bot
  /\ \A d \in p.shown : /\ d \in Bot => bots'[d].tenant = p.tenant
                        /\ d \in Room => rooms'[d].tenant = p.tenant
                        /\ d \in Credential => credentials'[d].tenant = p.tenant

RequestsOK ==
  /\ request \in [Request -> RequestState]
  /\ \A r \in Request : Sane(request[r]) /\ Mine(request[r])

\* The inductive invariant of the API.
Inv == DocumentsOK /\ Owned /\ ManagerOK /\ HistoryOK /\ RequestsOK

\* A step keeps the shape of the documents and takes no document from its owner.
OwnersKept ==
  /\ \A b \in Bot : bots[b].tenant # None => bots'[b].tenant = bots[b].tenant
  /\ \A x \in Room : rooms[x].tenant # None =>
       rooms'[x].tenant = rooms[x].tenant /\ rooms'[x].bot = rooms[x].bot
  /\ \A c \in Credential : credentials[c].tenant # None =>
       credentials'[c].tenant = credentials[c].tenant /\ credentials'[c].bot = credentials[c].bot

DocsKept == DocumentsOK' /\ Owned' /\ OwnersKept

\* It changes documents of tenant t only, or makes free ones t's.
Inside(t) ==
  /\ \A b \in Bot : bots[b] # bots'[b] =>
       bots'[b].tenant = t /\ (bots[b].state = "free" \/ bots[b].tenant = t)
  /\ \A x \in Room : rooms[x] # rooms'[x] =>
       rooms'[x].tenant = t /\ (rooms[x].state = "free" \/ rooms[x].tenant = t)
  /\ \A c \in Credential : credentials[c] # credentials'[c] =>
       credentials'[c].tenant = t
       /\ (credentials[c].state = "free" \/ credentials[c].tenant = t)

\* What a step of request r does to the documents ...
Docs(r) == DocsKept /\ Inside(request[r].tenant)

\* ... and altogether.
Kept(r) ==
  /\ Inv'
  /\ Inside(request[r].tenant)
  /\ \A q \in Request \ {r} : request'[q] = request[q]

-----------------------------------------------------------------------------

\* The invariant implies the two properties of the run.
LEMMA InvGivesTypeOK == Inv => TypeOK
<1> SUFFICES ASSUME Inv PROVE TypeOK
  OBVIOUS
<1>1. \A r \in Request :
        /\ request[r].pc \in {"loading", "building", "stopping", "deleting"}
             => request[r].bot \in Bot
        /\ request[r].pc \in {"finding", "verifying", "pinging", "leaving", "erasing", "merging"}
             => request[r].room \in Room
  BY DEF Inv, RequestsOK, Sane, RoomAwait
<1> QED
  BY <1>1 DEF Inv, TypeOK, ManagerOK, HistoryOK, RequestsOK

LEMMA InvGivesIsolation == Inv => Isolation
<1> SUFFICES ASSUME Inv PROVE Isolation
  OBVIOUS
<1>1. \A x \in Room : rooms[x].bot # None =>
        rooms[x].bot \in Bot /\ BotIsOf(rooms[x].bot, rooms[x].tenant)
  BY DEF Inv, DocumentsOK, RoomDoc, Owned, BotIsOf
<1>2. \A c \in Credential : credentials[c].bot # None =>
        credentials[c].bot \in Bot /\ BotIsOf(credentials[c].bot, credentials[c].tenant)
  BY DEF Inv, DocumentsOK, CredentialDoc, Owned, BotIsOf
<1>3. \A b \in Bot : runtime[b] # None => BotIsOf(b, runtime[b])
  BY DEF Inv, ManagerOK, BotIsOf
<1>4. \A r \in Request : Mine(request[r])
  BY DEF Inv, RequestsOK
<1> QED
  BY <1>1, <1>2, <1>3, <1>4 DEF Isolation, Mine, BotIsOf, RoomIsOf, CredentialIsOf

\* What is the tenant's before a step, is so after it.
LEMMA MineStays ==
  ASSUME Inv, DocsKept, NEW p \in RequestState, Sane(p), Mine(p)
  PROVE  MineNext(p)
<1>1. p.tenant = None => p.bot = None /\ p.room = None /\ p.credential = None /\ p.shown = {}
  BY DEF Sane
<1>2. /\ p.bot \in Bot \cup {None} /\ p.room \in Room \cup {None}
      /\ p.credential \in Credential \cup {None}
  BY DEF RequestState
<1> QED
  BY <1>1, <1>2 DEF Mine, MineNext, DocsKept, OwnersKept

\* What the request of another handler has stays its tenant's.
LEMMA OthersKept ==
  ASSUME Inv, DocsKept, NEW q \in Request
  PROVE  MineNext(request[q])
<1>1. /\ request[q] \in RequestState /\ Sane(request[q]) /\ Mine(request[q])
  BY DEF Inv, RequestsOK
<1> QED
  BY <1>1, MineStays

\* A step of a request keeps the invariant if it takes no document from its owner and
\* leaves the request sane and with documents of its own tenant.
LEMMA Combine ==
  ASSUME Inv, NEW r \in Request, NEW p \in RequestState, Docs(r), ManagerOK', HistoryOK',
         Sane(p), MineNext(p), request' = [request EXCEPT ![r] = p]
  PROVE  Kept(r)
<1> DocsKept /\ Inside(request[r].tenant)
  BY DEF Docs
<1>1. request' \in [Request -> RequestState]
  BY DEF Inv, RequestsOK
<1>2. \A q \in Request \ {r} : request'[q] = request[q]
  BY DEF Inv, RequestsOK
<1>3. ASSUME NEW q \in Request PROVE Sane(request'[q]) /\ MineNext(request'[q])
  <2>1. CASE q = r
    BY <2>1 DEF Inv, RequestsOK
  <2>2. CASE q # r
    BY <1>2, <2>2, OthersKept DEF Inv, RequestsOK
  <2> QED
    BY <2>1, <2>2
<1>4. RequestsOK'
  BY <1>1, <1>3 DEF RequestsOK, Mine, MineNext, Sane
<1>5. Inv'
  BY <1>4 DEF Inv, DocsKept
<1> QED
  BY <1>2, <1>5 DEF Kept

LEMMA DocsSame ==
  ASSUME Inv, UNCHANGED documents, NEW r \in Request
  PROVE  Docs(r)
<1>1. bots' = bots /\ rooms' = rooms /\ credentials' = credentials
  BY DEF documents
<1>2. DocsKept
  BY <1>1 DEF Inv, DocsKept, DocumentsOK, Owned, OwnersKept
<1> QED
  BY <1>1, <1>2 DEF Docs, Inside

LEMMA ManagerSame ==
  ASSUME Inv, NEW r \in Request, Docs(r), UNCHANGED manager
  PROVE  ManagerOK'
<1>1. startup' = startup /\ runtime' = runtime /\ timers' = timers
  BY DEF manager
<1>2. \A b \in Bot : runtime[b] # None => bots'[b].tenant = runtime[b]
  BY DEF Inv, ManagerOK, Docs, DocsKept, OwnersKept
<1> QED
  BY <1>1, <1>2 DEF Inv, ManagerOK

LEMMA HistorySame ==
  ASSUME Inv, UNCHANGED history
  PROVE  HistoryOK'
BY DEF Inv, HistoryOK, history

-----------------------------------------------------------------------------
(* How a handler goes on                                                   *)

\* A record of a request, field by field.
LEMMA RequestFields ==
  ASSUME Inv, NEW r \in Request
  PROVE  LET p == request[r] IN
         /\ p \in RequestState /\ Sane(p) /\ Mine(p)
         /\ p.pc \in Await /\ p.tenant \in Tenant \cup {None} /\ p.bot \in Bot \cup {None}
         /\ p.room \in Room \cup {None} /\ p.credential \in Credential \cup {None}
         /\ p.route \in Route \cup {"none"} /\ p.gen \in Nat /\ p.copy \in SUBSET Field
         /\ p.field \in Field \cup {"none"} /\ p.was \in RoomStatus
         /\ p.shown \in SUBSET (Bot \cup Room \cup Credential)
BY DEF Inv, RequestsOK, RequestState

\* A request of a bot's route that is being handled has a tenant and a bot.
LEMMA InBot ==
  ASSUME Inv, NEW r \in Request, request[r].pc \notin {"new", "answered"},
         request[r].pc # "admitted" \/ request[r].route \notin TenantRoute
  PROVE  /\ request[r].tenant \in Tenant /\ request[r].bot \in Bot
         /\ bots[request[r].bot].tenant = request[r].tenant
         /\ request[r].tenant # None /\ request[r].bot # None
<1>1. request[r].tenant \in Tenant /\ request[r].bot \in Bot
  BY RequestFields DEF Sane
<1>2. request[r].tenant # None /\ request[r].bot # None
  BY <1>1, NoneAssumption
<1> QED
  BY <1>1, <1>2, RequestFields DEF Mine

\* The request goes to another await with what it has, or with more that is its
\* tenant's.
LEMMA MoveStep ==
  ASSUME Inv, NEW r \in Request, Docs(r), ManagerOK', HistoryOK',
         request[r].pc \notin {"new", "answered"}, request[r].bot \in Bot,
         NEW p \in RequestState, p.pc \notin {"new", "admitted"},
         p.route = request[r].route, p.tenant = request[r].tenant, p.bot = request[r].bot,
         p.field = request[r].field,
         Mine(p), p.room = request[r].room \/ p.room \in Room,
         p.pc \in RoomAwait => p.room \in Room,
         request' = [request EXCEPT ![r] = p]
  PROVE  Kept(r)
<1>1. p.tenant \in Tenant
  BY RequestFields DEF Sane
<1>2. /\ p.route \in RoomRoute \cup {"rooms.update"} => p.room \in Room
      /\ p.route \in {"bots.update", "rooms.update"} => p.field \in Field
  BY RequestFields DEF Sane
<1>3. Sane(p)
  BY <1>1, <1>2, NoneAssumption DEF Sane
<1>4. MineNext(p)
  BY <1>3, MineStays DEF Docs
<1> QED
  BY <1>3, <1>4, Combine

\* The request goes to another await with what it has.
LEMMA GoOnStep ==
  ASSUME Inv, NEW r \in Request, Docs(r), ManagerOK', HistoryOK',
         request[r].pc \notin {"new", "answered"}, request[r].bot \in Bot,
         NEW pc \in Await, pc \notin {"new", "admitted"},
         pc \in RoomAwait => request[r].room \in Room,
         GoOn(r, pc)
  PROVE  Kept(r)
<1> DEFINE old == request[r]
           p == [old EXCEPT !.pc = pc]
<1>1. old \in RequestState /\ Mine(old)
  BY RequestFields
<1>2. request' = [request EXCEPT ![r] = p]
  BY DEF GoOn
<1> HIDE DEF old
<1>3. /\ p \in RequestState /\ p.pc = pc
      /\ p.route = old.route /\ p.tenant = old.tenant /\ p.bot = old.bot /\ p.field = old.field
      /\ p.room = old.room /\ p.credential = old.credential /\ p.shown = old.shown
  <2>1. p \in RequestState
    BY <1>1 DEF RequestState
  <2>2. /\ p.pc = pc
        /\ p.route = old.route /\ p.tenant = old.tenant /\ p.bot = old.bot /\ p.field = old.field
        /\ p.room = old.room /\ p.credential = old.credential /\ p.shown = old.shown
    BY <1>1 DEF RequestState
  <2> QED
    BY <2>1, <2>2
<1> HIDE DEF p
<1>4. Mine(p)
  BY <1>1, <1>3 DEF Mine
<1> USE DEF old
<1> QED
  BY <1>2, <1>3, <1>4, MoveStep

\* The request goes on with another generation.
LEMMA GenStep ==
  ASSUME Inv, NEW r \in Request, Docs(r), ManagerOK', HistoryOK',
         request[r].pc \notin {"new", "answered"}, request[r].bot \in Bot,
         NEW pc \in Await, pc \notin {"new", "admitted"}, NEW gen \in Nat,
         pc \in RoomAwait => request[r].room \in Room,
         request' = [request EXCEPT ![r] = [request[r] EXCEPT !.pc = pc, !.gen = gen]]
  PROVE  Kept(r)
<1> DEFINE old == request[r]
           p == [old EXCEPT !.pc = pc, !.gen = gen]
<1>1. old \in RequestState /\ Mine(old)
  BY RequestFields
<1>2. request' = [request EXCEPT ![r] = p]
  OBVIOUS
<1> HIDE DEF old
<1>3. /\ p \in RequestState /\ p.pc = pc
      /\ p.route = old.route /\ p.tenant = old.tenant /\ p.bot = old.bot /\ p.field = old.field
      /\ p.room = old.room /\ p.credential = old.credential /\ p.shown = old.shown
  <2>1. p \in RequestState
    BY <1>1 DEF RequestState
  <2>2. /\ p.pc = pc
        /\ p.route = old.route /\ p.tenant = old.tenant /\ p.bot = old.bot /\ p.field = old.field
        /\ p.room = old.room /\ p.credential = old.credential /\ p.shown = old.shown
    BY <1>1 DEF RequestState
  <2> QED
    BY <2>1, <2>2
<1> HIDE DEF p
<1>4. Mine(p)
  BY <1>1, <1>3 DEF Mine
<1> USE DEF old
<1> QED
  BY <1>2, <1>3, <1>4, MoveStep

\* The request ends without an answer.
LEMMA EndStep ==
  ASSUME Inv, NEW r \in Request, Docs(r), ManagerOK', HistoryOK', End(r)
  PROVE  Kept(r)
<1> DEFINE p == Over
<1>1. /\ p.pc = "answered" /\ p.route = "none" /\ p.tenant = None /\ p.bot = None
      /\ p.room = None /\ p.credential = None /\ p.shown = {} /\ p \in RequestState
  BY DEF Over, New, RequestState, Await, RoomStatus
<1>2. request' = [request EXCEPT ![r] = p]
  BY DEF End
<1> HIDE DEF p
<1>3. Sane(p)
  BY <1>1 DEF Sane, RoomAwait, RoomRoute
<1>4. MineNext(p)
  BY <1>1 DEF MineNext
<1> QED
  BY <1>1, <1>2, <1>3, <1>4, Combine

\* The request ends with documents of its tenant.
LEMMA ShowStep ==
  ASSUME Inv, NEW r \in Request, Docs(r), ManagerOK', HistoryOK',
         request[r].pc \notin {"new", "answered"},
         NEW shown \in SUBSET (Bot \cup Room \cup Credential), Show(r, shown),
         \A d \in shown : /\ d \in Bot => bots'[d].tenant = request[r].tenant
                          /\ d \in Room => rooms'[d].tenant = request[r].tenant
                          /\ d \in Credential => credentials'[d].tenant = request[r].tenant
  PROVE  Kept(r)
<1> DEFINE t == request[r].tenant
           p == [Over EXCEPT !.tenant = t, !.shown = shown]
<1>1. t \in Tenant
  BY RequestFields DEF Sane
<1>2. request' = [request EXCEPT ![r] = p]
  BY DEF Show
<1> HIDE DEF t
<1>3. /\ p.pc = "answered" /\ p.route = "none" /\ p.tenant = t /\ p.bot = None
      /\ p.room = None /\ p.credential = None /\ p.shown = shown /\ p \in RequestState
  BY <1>1 DEF Over, New, RequestState, Await, RoomStatus
<1> HIDE DEF p
<1>4. Sane(p)
  BY <1>1, <1>3, NoneAssumption DEF Sane, RoomAwait, RoomRoute
<1>5. MineNext(p)
  BY <1>3 DEF MineNext, t
<1> QED
  BY <1>2, <1>3, <1>4, <1>5, Combine

-----------------------------------------------------------------------------
(* What the calls of the repositories do                                   *)

\* A step that only changes bot b, which is t's or becomes t's.
LEMMA BotStep ==
  ASSUME Inv, NEW r \in Request, NEW b \in Bot, NEW d \in BotDoc,
         bots' = [bots EXCEPT ![b] = d], UNCHANGED <<rooms, credentials>>,
         d.state # "free", d.tenant = request[r].tenant,
         bots[b].state = "free" \/ bots[b].tenant = request[r].tenant
  PROVE  Docs(r)
<1>1. bots' \in [Bot -> BotDoc] /\ \A a \in Bot : bots'[a] = IF a = b THEN d ELSE bots[a]
  BY DEF Inv, DocumentsOK
<1>2. DocumentsOK'
  BY <1>1 DEF Inv, DocumentsOK
<1>3. \A a \in Bot : bots[a].tenant # None => bots'[a].tenant = bots[a].tenant
  BY <1>1 DEF Inv, Owned
<1>4. OwnersKept
  BY <1>3 DEF OwnersKept
<1>5. \A a \in Bot : bots'[a].state = "free" => bots'[a].tenant = None
  BY <1>1 DEF Inv, Owned
<1>6. ASSUME NEW x \in Room, rooms[x].bot # None
      PROVE  bots'[rooms[x].bot].tenant = rooms[x].tenant
  <2>1. rooms[x].bot \in Bot
    BY <1>6 DEF Inv, DocumentsOK, RoomDoc
  <2> QED
    BY <1>3, <1>6, <2>1 DEF Inv, Owned
<1>7. ASSUME NEW c \in Credential, credentials[c].bot # None
      PROVE  bots'[credentials[c].bot].tenant = credentials[c].tenant
  <2>1. credentials[c].bot \in Bot
    BY <1>7 DEF Inv, DocumentsOK, CredentialDoc
  <2> QED
    BY <1>3, <1>7, <2>1 DEF Inv, Owned
<1>8. Owned'
  BY <1>5, <1>6, <1>7 DEF Inv, Owned
<1>9. Inside(request[r].tenant)
  BY <1>1 DEF Inside
<1> QED
  BY <1>2, <1>4, <1>8, <1>9 DEF Docs, DocsKept

\* A step that only changes room x, which is t's and keeps its bot or becomes t's with
\* a bot of t.
LEMMA RoomStep ==
  ASSUME Inv, NEW r \in Request, NEW x \in Room, NEW d \in RoomDoc,
         rooms' = [rooms EXCEPT ![x] = d], UNCHANGED <<bots, credentials>>,
         request[r].tenant # None, d.state # "free", d.tenant = request[r].tenant,
         \/ rooms[x].tenant = request[r].tenant /\ d.bot = rooms[x].bot
         \/ rooms[x].state = "free" /\ d.bot \in Bot /\ bots[d.bot].tenant = d.tenant
  PROVE  Docs(r)
<1>1. rooms' \in [Room -> RoomDoc] /\ \A y \in Room : rooms'[y] = IF y = x THEN d ELSE rooms[y]
  BY DEF Inv, DocumentsOK
<1>2. DocumentsOK'
  BY <1>1 DEF Inv, DocumentsOK
<1>3. \A y \in Room : rooms[y].tenant # None =>
        rooms'[y].tenant = rooms[y].tenant /\ rooms'[y].bot = rooms[y].bot
  BY <1>1 DEF Inv, Owned
<1>4. OwnersKept
  BY <1>3 DEF OwnersKept
<1>5. \A y \in Room :
        /\ rooms'[y].state = "free" => rooms'[y].tenant = None /\ rooms'[y].bot = None
        /\ rooms'[y].bot # None => /\ rooms'[y].tenant # None
                                   /\ bots[rooms'[y].bot].tenant = rooms'[y].tenant
  BY <1>1 DEF Inv, Owned
<1>6. Owned'
  BY <1>5 DEF Inv, Owned
<1>7. Inside(request[r].tenant)
  BY <1>1 DEF Inside
<1> QED
  BY <1>2, <1>4, <1>6, <1>7 DEF Docs, DocsKept

\* The same for a credential.
LEMMA CredentialStep ==
  ASSUME Inv, NEW r \in Request, NEW c \in Credential, NEW d \in CredentialDoc,
         credentials' = [credentials EXCEPT ![c] = d], UNCHANGED <<bots, rooms>>,
         request[r].tenant # None, d.state # "free", d.tenant = request[r].tenant,
         \/ credentials[c].tenant = request[r].tenant /\ d.bot = credentials[c].bot
         \/ credentials[c].state = "free" /\ d.bot \in Bot /\ bots[d.bot].tenant = d.tenant
  PROVE  Docs(r)
<1>1. /\ credentials' \in [Credential -> CredentialDoc]
      /\ \A y \in Credential : credentials'[y] = IF y = c THEN d ELSE credentials[y]
  BY DEF Inv, DocumentsOK
<1>2. DocumentsOK'
  BY <1>1 DEF Inv, DocumentsOK
<1>3. \A y \in Credential : credentials[y].tenant # None =>
        credentials'[y].tenant = credentials[y].tenant /\ credentials'[y].bot = credentials[y].bot
  BY <1>1 DEF Inv, Owned
<1>4. OwnersKept
  BY <1>3 DEF OwnersKept
<1>5. \A y \in Credential :
        /\ credentials'[y].state = "free" => credentials'[y].tenant = None /\ credentials'[y].bot = None
        /\ credentials'[y].bot # None => /\ credentials'[y].tenant # None
                                         /\ bots[credentials'[y].bot].tenant = credentials'[y].tenant
  BY <1>1 DEF Inv, Owned
<1>6. Owned'
  BY <1>5 DEF Inv, Owned
<1>7. Inside(request[r].tenant)
  BY <1>1 DEF Inside
<1> QED
  BY <1>2, <1>4, <1>6, <1>7 DEF Docs, DocsKept

\* An update or a removal names the tenant of the request, and changes nothing if the
\* document is not live and that tenant's.
LEMMA BotUpdated ==
  ASSUME Inv, NEW r \in Request, NEW b \in Bot, UNCHANGED <<rooms, credentials>>,
         \/ \E config \in SUBSET Field : UpdateBot(request[r].tenant, b, config)
         \/ DeleteBot(request[r].tenant, b)
  PROVE  Docs(r)
<1>1. CASE bots' = bots
  BY <1>1, DocsSame DEF documents
<1>2. ASSUME NEW d \in BotDoc, bots' = [bots EXCEPT ![b] = d], FindBot(request[r].tenant, b),
             d.state # "free", d.tenant = bots[b].tenant
      PROVE  Docs(r)
  BY <1>2, BotStep DEF FindBot
<1>3. bots[b] \in BotDoc
  BY DEF Inv, DocumentsOK
<1>4. ASSUME NEW config \in SUBSET Field, UpdateBot(request[r].tenant, b, config), bots' # bots
      PROVE  Docs(r)
  <2> DEFINE d == [bots[b] EXCEPT !.config = config]
  <2>1. d \in BotDoc /\ d.state = bots[b].state /\ d.tenant = bots[b].tenant
    BY <1>3 DEF BotDoc
  <2>2. FindBot(request[r].tenant, b) /\ bots' = [bots EXCEPT ![b] = d]
    BY <1>4 DEF UpdateBot
  <2> HIDE DEF d
  <2> QED
    BY <1>2, <2>1, <2>2 DEF FindBot
<1>5. ASSUME DeleteBot(request[r].tenant, b), bots' # bots PROVE Docs(r)
  <2> DEFINE d == [bots[b] EXCEPT !.state = "gone"]
  <2>1. d \in BotDoc /\ d.state = "gone" /\ d.tenant = bots[b].tenant
    BY <1>3 DEF BotDoc, DocumentState
  <2>2. FindBot(request[r].tenant, b) /\ bots' = [bots EXCEPT ![b] = d]
    BY <1>5 DEF DeleteBot
  <2> HIDE DEF d
  <2> QED
    BY <1>2, <2>1, <2>2
<1> QED
  BY <1>1, <1>4, <1>5

LEMMA RoomUpdated ==
  ASSUME Inv, NEW r \in Request, NEW x \in Room, UNCHANGED <<bots, credentials>>,
         request[r].tenant # None,
         \/ \E status \in RoomStatus : UpdateRoomStatus(request[r].tenant, x, status)
         \/ \E settings \in SUBSET Field : UpdateSettings(request[r].tenant, x, settings)
         \/ DeleteRoom(request[r].tenant, x)
  PROVE  Docs(r)
<1>1. CASE rooms' = rooms
  BY <1>1, DocsSame DEF documents
<1>2. ASSUME NEW d \in RoomDoc, rooms' = [rooms EXCEPT ![x] = d],
             rooms[x].tenant = request[r].tenant,
             d.state # "free", d.tenant = rooms[x].tenant, d.bot = rooms[x].bot
      PROVE  Docs(r)
  BY <1>2, RoomStep
<1>3. rooms[x] \in RoomDoc
  BY DEF Inv, DocumentsOK
<1>4. ASSUME NEW status \in RoomStatus, rooms' # rooms,
             UpdateRoomStatus(request[r].tenant, x, status)
      PROVE  Docs(r)
  <2> DEFINE d == [rooms[x] EXCEPT !.status = status]
  <2>1. d \in RoomDoc /\ d.state = rooms[x].state /\ d.tenant = rooms[x].tenant /\ d.bot = rooms[x].bot
    BY <1>3 DEF RoomDoc
  <2>2. /\ rooms[x].state = "live" /\ rooms[x].tenant = request[r].tenant
        /\ rooms' = [rooms EXCEPT ![x] = d]
    BY <1>4 DEF UpdateRoomStatus
  <2> HIDE DEF d
  <2> QED
    BY <1>2, <2>1, <2>2
<1>5. ASSUME NEW settings \in SUBSET Field, rooms' # rooms,
             UpdateSettings(request[r].tenant, x, settings)
      PROVE  Docs(r)
  <2> DEFINE d == [rooms[x] EXCEPT !.settings = settings]
  <2>1. d \in RoomDoc /\ d.state = rooms[x].state /\ d.tenant = rooms[x].tenant /\ d.bot = rooms[x].bot
    BY <1>3 DEF RoomDoc
  <2>2. /\ rooms[x].state = "live" /\ rooms[x].tenant = request[r].tenant
        /\ rooms' = [rooms EXCEPT ![x] = d]
    BY <1>5 DEF UpdateSettings
  <2> HIDE DEF d
  <2> QED
    BY <1>2, <2>1, <2>2
<1>6. ASSUME DeleteRoom(request[r].tenant, x), rooms' # rooms PROVE Docs(r)
  <2> DEFINE d == [rooms[x] EXCEPT !.state = "gone"]
  <2>1. d \in RoomDoc /\ d.state = "gone" /\ d.tenant = rooms[x].tenant /\ d.bot = rooms[x].bot
    BY <1>3 DEF RoomDoc, DocumentState
  <2>2. rooms[x].tenant = request[r].tenant /\ rooms' = [rooms EXCEPT ![x] = d]
    BY <1>6 DEF DeleteRoom
  <2> HIDE DEF d
  <2> QED
    BY <1>2, <2>1, <2>2
<1> QED
  BY <1>1, <1>4, <1>5, <1>6

-----------------------------------------------------------------------------
(* Documents                                                               *)

\* A step that changes nothing but the request.
LEMMA QuietStep ==
  ASSUME Inv, NEW r \in Request, UNCHANGED <<documents, manager, history>>
  PROVE  Docs(r) /\ ManagerOK' /\ HistoryOK'
<1>1. Docs(r)
  BY DocsSame
<1> QED
  BY <1>1, ManagerSame, HistorySame

\* What the finds of the repositories return is the tenant's.
LEMMA FoundIsOwn ==
  ASSUME NEW t, NEW b
  PROVE  /\ \A a \in BotsOf(t) : a \in Bot /\ bots[a].tenant = t
         /\ \A x \in RoomsOf(t, b) : x \in Room /\ rooms[x].tenant = t /\ rooms[x].bot = b
         /\ \A c \in CredentialsOf(t, b) :
              c \in Credential /\ credentials[c].tenant = t /\ credentials[c].bot = b
BY DEF BotsOf, FindBot, RoomsOf, FindRoom, CredentialsOf, ActiveCredential, FindCredential

\* The requests that answer what they find.
LEMMA ListsKept ==
  ASSUME Inv, NEW r \in Request, ListBots(r) \/ ListCredentials(r) \/ ListRooms(r)
  PROVE  Kept(r)
<1> DEFINE t == request[r].tenant
           b == request[r].bot
<1>1. /\ UNCHANGED <<documents, manager, history>>
      /\ Show(r, BotsOf(t)) \/ Show(r, CredentialsOf(t, b)) \/ Show(r, RoomsOf(t, b))
      /\ request[r].pc = "admitted"
  BY DEF ListBots, ListCredentials, ListRooms, At
<1>2. bots' = bots /\ rooms' = rooms /\ credentials' = credentials
  BY <1>1 DEF documents
<1>3. Docs(r) /\ ManagerOK' /\ HistoryOK'
  BY <1>1, QuietStep
<1>4. ASSUME NEW shown \in SUBSET (Bot \cup Room \cup Credential), Show(r, shown),
             \A d \in shown : \/ d \in Bot /\ bots[d].tenant = t
                              \/ d \in Room /\ rooms[d].tenant = t
                              \/ d \in Credential /\ credentials[d].tenant = t
      PROVE  Kept(r)
  <2>1. \A d \in shown : /\ d \in Bot => bots'[d].tenant = t
                         /\ d \in Room => rooms'[d].tenant = t
                         /\ d \in Credential => credentials'[d].tenant = t
    BY <1>2, <1>4, IdAssumption
  <2> QED
    BY <1>1, <1>3, <1>4, <2>1, ShowStep
<1>5. CASE Show(r, BotsOf(t))
  BY <1>4, <1>5, FoundIsOwn
<1>6. CASE Show(r, CredentialsOf(t, b))
  BY <1>4, <1>6, FoundIsOwn
<1>7. CASE Show(r, RoomsOf(t, b))
  BY <1>4, <1>7, FoundIsOwn
<1> QED
  BY <1>1, <1>5, <1>6, <1>7

\* A set of documents the request already holds can be answered.
LEMMA ShowOwn ==
  ASSUME Inv, NEW r \in Request, UNCHANGED <<documents, manager, history>>,
         request[r].pc \notin {"new", "answered"},
         NEW shown \in SUBSET (Bot \cup Room \cup Credential), Show(r, shown),
         \A d \in shown : d \in request[r].shown \/ d = request[r].bot \/ d = request[r].room
  PROVE  Kept(r)
<1>1. bots' = bots /\ rooms' = rooms /\ credentials' = credentials
  BY DEF documents
<1>2. Docs(r) /\ ManagerOK' /\ HistoryOK'
  BY QuietStep
<1>3. Mine(request[r])
  BY RequestFields
<1>4. /\ request[r].bot \in Bot \cup {None} /\ request[r].room \in Room \cup {None}
  BY RequestFields
<1>5. \A d \in shown :
        /\ d \in Bot => bots'[d].tenant = request[r].tenant
        /\ d \in Room => rooms'[d].tenant = request[r].tenant
        /\ d \in Credential => credentials'[d].tenant = request[r].tenant
  BY <1>1, <1>3, <1>4, IdAssumption, NoneAssumption DEF Mine
<1> QED
  BY <1>2, <1>5, ShowStep

LEMMA ShowsKept ==
  ASSUME Inv, NEW r \in Request, ShowLoaded(r) \/ ShowUsage(r) \/ ShowMembers(r)
  PROVE  Kept(r)
<1> DEFINE p == request[r]
<1>1. /\ UNCHANGED <<documents, manager, history>>
      /\ p.pc \notin {"new", "answered"}
  BY DEF ShowLoaded, ShowUsage, ShowMembers, At
<1>2. p.bot \in Bot
  BY InBot DEF ShowLoaded, ShowUsage, ShowMembers, At, TenantRoute
<1>3. ASSUME ShowLoaded(r) PROVE Kept(r)
  <2>1. Show(r, {Target(p)}) /\ Target(p) \in {p.bot, p.room} /\ Target(p) \in Bot \cup Room
    BY <1>2, <1>3, RequestFields DEF ShowLoaded, Target
  <2> QED
    BY <1>1, <2>1, ShowOwn
<1>4. ASSUME ShowUsage(r) PROVE Kept(r)
  BY <1>1, <1>2, <1>4, ShowOwn DEF ShowUsage
<1>5. ASSUME ShowMembers(r) PROVE Kept(r)
  <2>1. CASE At(r, "rooms.listMembers", "admitted") /\ Show(r, {p.room})
    <3>1. p.room \in Room
      BY <2>1, RequestFields DEF At, Sane, RoomRoute
    <3> QED
      BY <1>1, <2>1, <3>1, ShowOwn
  <2>2. CASE Show(r, p.shown)
    BY <1>1, <2>2, RequestFields, ShowOwn
  <2> QED
    BY <1>5, <2>1, <2>2 DEF ShowMembers
<1> QED
  BY <1>3, <1>4, <1>5

\* The requests that go from one read to the next.
LEMMA CountsKept ==
  ASSUME Inv, NEW r \in Request, CountUsage(r) \/ Analyze(r) \/ Verified(r)
  PROVE  Kept(r)
<1>1. /\ UNCHANGED <<documents, manager, history>>
      /\ GoOn(r, "counting") \/ GoOn(r, "analyzing") \/ GoOn(r, "rejoining")
      /\ request[r].pc \notin {"new", "answered"}
      /\ request[r].pc # "admitted" \/ request[r].route \notin TenantRoute
  BY DEF CountUsage, Analyze, Verified, At, TenantRoute
<1>2. request[r].bot \in Bot
  BY <1>1, InBot
<1>3. Docs(r) /\ ManagerOK' /\ HistoryOK'
  BY <1>1, QuietStep
<1>4. ASSUME CountUsage(r) PROVE Kept(r)
  BY <1>1, <1>2, <1>3, <1>4, GoOnStep DEF CountUsage, Await, RoomAwait
<1>5. ASSUME Analyze(r) PROVE Kept(r)
  BY <1>1, <1>2, <1>3, <1>5, GoOnStep DEF Analyze, Await, RoomAwait
<1>6. ASSUME Verified(r) PROVE Kept(r)
  <2>1. request[r].room \in Room
    BY <1>6, RequestFields DEF Verified, Sane, RoomAwait
  <2> QED
    BY <1>1, <1>2, <1>3, <1>6, <2>1, GoOnStep DEF Verified, Await, RoomAwait
<1> QED
  BY <1>4, <1>5, <1>6

LEMMA GatherKept ==
  ASSUME Inv, NEW r \in Request, GatherRooms(r)
  PROVE  Kept(r)
<1> DEFINE old == request[r]
           found == RoomsOf(old.tenant, old.bot)
           p == [old EXCEPT !.pc = "gathering", !.shown = found]
<1>1. /\ UNCHANGED <<documents, manager, history>>
      /\ request' = [request EXCEPT ![r] = p]
      /\ request[r].pc \notin {"new", "answered"}
      /\ request[r].pc # "admitted" \/ request[r].route \notin TenantRoute
  BY DEF GatherRooms, At, TenantRoute
<1>2. old.bot \in Bot
  BY <1>1, InBot
<1>3. Docs(r) /\ ManagerOK' /\ HistoryOK'
  BY <1>1, QuietStep
<1>4. old \in RequestState /\ Mine(old)
  BY RequestFields
<1>5. \A d \in found : d \in Room /\ rooms[d].tenant = old.tenant
  BY FoundIsOwn
<1>6. found \in SUBSET (Bot \cup Room \cup Credential)
  BY <1>5
<1> HIDE DEF old, found
<1>7. /\ p.pc = "gathering" /\ p.shown = found
      /\ p.route = old.route /\ p.tenant = old.tenant /\ p.bot = old.bot /\ p.field = old.field
      /\ p.room = old.room /\ p.credential = old.credential
  BY <1>4 DEF RequestState
<1>8. p \in RequestState
  BY <1>4, <1>6 DEF RequestState, Await
<1> HIDE DEF p
<1>9. Mine(p)
  BY <1>4, <1>5, <1>7, IdAssumption DEF Mine
<1> USE DEF old
<1> QED
  BY <1>1, <1>2, <1>3, <1>7, <1>8, <1>9, MoveStep DEF RoomAwait

\* The requests that fail or end without having changed anything.
LEMMA EndsKept ==
  ASSUME Inv, NEW r \in Request,
         CreateFails(r) \/ NotJoined(r) \/ Called(r) \/ LeaveFails(r)
  PROVE  Kept(r)
<1>1. UNCHANGED <<documents, manager, history>> /\ End(r)
  BY DEF CreateFails, NotJoined, Called, LeaveFails
<1> QED
  BY <1>1, QuietStep, EndStep

\* An insert gives the request's tenant a document nobody had, for a bot of that
\* tenant.
LEMMA CreatesKept ==
  ASSUME Inv, NEW r \in Request, CreateBot(r) \/ CreateCredential(r) \/ CreateRoom(r)
  PROVE  Kept(r)
<1> DEFINE t == request[r].tenant
           b == request[r].bot
<1>1. UNCHANGED <<manager, history>> /\ request[r].pc = "admitted"
  BY DEF CreateBot, CreateCredential, CreateRoom, At
<1>2. t \in Tenant /\ t # None
  BY <1>1, RequestFields, NoneAssumption DEF Sane
<1>3. HistoryOK'
  BY <1>1, HistorySame
<1>4. ASSUME NEW d \in Bot \cup Room \cup Credential, Docs(r), Show(r, {d}),
             /\ d \in Bot => bots'[d].tenant = t
             /\ d \in Room => rooms'[d].tenant = t
             /\ d \in Credential => credentials'[d].tenant = t
      PROVE  Kept(r)
  <2>1. ManagerOK'
    BY <1>1, <1>4, ManagerSame
  <2> QED
    BY <1>1, <1>3, <1>4, <2>1, ShowStep
<1>5. ASSUME CreateBot(r) PROVE Kept(r)
  <2>1. PICK a \in Bot : InsertBot(t, a) /\ Show(r, {a})
    BY <1>5 DEF CreateBot
  <2> DEFINE d == [state |-> "live", tenant |-> t, config |-> {}]
  <2>2. d \in BotDoc /\ d.state # "free" /\ d.tenant = t
    BY <1>2 DEF BotDoc, DocumentState
  <2>3. bots[a].state = "free" /\ bots' = [bots EXCEPT ![a] = d]
    BY <2>1 DEF InsertBot
  <2>4. UNCHANGED <<rooms, credentials>>
    BY <1>5 DEF CreateBot
  <2> HIDE DEF d
  <2>5. Docs(r)
    BY <2>2, <2>3, <2>4, BotStep
  <2>6. bots'[a].tenant = t
    BY <2>2, <2>3 DEF Inv, DocumentsOK
  <2> QED
    BY <1>4, <2>1, <2>5, <2>6, IdAssumption
<1>6. ASSUME CreateCredential(r) PROVE Kept(r)
  <2>1. PICK c \in Credential : InsertCredential(t, b, c) /\ Show(r, {c})
    BY <1>6 DEF CreateCredential
  <2> DEFINE d == [state |-> "live", tenant |-> t, bot |-> b]
  <2>2. b \in Bot /\ bots[b].tenant = t
    BY <1>1, <1>6, InBot DEF CreateCredential, At, TenantRoute
  <2>3. d \in CredentialDoc /\ d.state # "free" /\ d.tenant = t /\ d.bot = b
    BY <1>2, <2>2 DEF CredentialDoc, DocumentState
  <2>4. credentials[c].state = "free" /\ credentials' = [credentials EXCEPT ![c] = d]
    BY <2>1 DEF InsertCredential
  <2>5. UNCHANGED <<bots, rooms>>
    BY <1>6 DEF CreateCredential
  <2> HIDE DEF d
  <2>6. Docs(r)
    BY <1>2, <2>2, <2>3, <2>4, <2>5, CredentialStep
  <2>7. credentials'[c].tenant = t
    BY <2>3, <2>4 DEF Inv, DocumentsOK
  <2> QED
    BY <1>4, <2>1, <2>6, <2>7, IdAssumption
<1>7. ASSUME CreateRoom(r) PROVE Kept(r)
  <2>1. PICK x \in Room : InsertRoom(t, b, x) /\ Show(r, {x})
    BY <1>7 DEF CreateRoom
  <2> DEFINE d == [state |-> "live", tenant |-> t, bot |-> b, status |-> "configured",
                   settings |-> {}]
  <2>2. b \in Bot /\ bots[b].tenant = t
    BY <1>1, <1>7, InBot DEF CreateRoom, At, TenantRoute
  <2>3. d \in RoomDoc /\ d.state # "free" /\ d.tenant = t /\ d.bot = b
    BY <1>2, <2>2 DEF RoomDoc, DocumentState, RoomStatus
  <2>4. rooms[x].state = "free" /\ rooms' = [rooms EXCEPT ![x] = d]
    BY <2>1 DEF InsertRoom
  <2>5. UNCHANGED <<bots, credentials>>
    BY <1>7 DEF CreateRoom
  <2> HIDE DEF d
  <2>6. Docs(r)
    BY <1>2, <2>2, <2>3, <2>4, <2>5, RoomStep
  <2>7. rooms'[x].tenant = t
    BY <2>3, <2>4 DEF Inv, DocumentsOK
  <2> QED
    BY <1>4, <2>1, <2>6, <2>7, IdAssumption
<1> QED
  BY <1>5, <1>6, <1>7

LEMMA RemoveCredentialKept ==
  ASSUME Inv, NEW r \in Request, RemoveCredential(r)
  PROVE  Kept(r)
<1> DEFINE t == request[r].tenant
           c == request[r].credential
           d == [credentials[c] EXCEPT !.state = "gone"]
<1>1. /\ UNCHANGED <<manager, history>> /\ End(r) /\ UNCHANGED <<bots, rooms>>
      /\ request[r].pc = "admitted"
      /\ credentials' = IF FindCredential(t, c) THEN [credentials EXCEPT ![c] = d] ELSE credentials
  BY DEF RemoveCredential, At, DeleteCredential
<1>2. t # None
  BY <1>1, RequestFields, NoneAssumption DEF Sane
<1>3. Docs(r)
  <2>1. CASE credentials' = credentials
    BY <1>1, <2>1, DocsSame DEF documents
  <2>2. CASE c \in Credential /\ FindCredential(t, c)
    <3>1. credentials[c] \in CredentialDoc
      BY <2>2 DEF Inv, DocumentsOK
    <3>2. d \in CredentialDoc /\ d.state = "gone" /\ d.tenant = credentials[c].tenant
          /\ d.bot = credentials[c].bot
      BY <3>1 DEF CredentialDoc, DocumentState
    <3>3. credentials' = [credentials EXCEPT ![c] = d] /\ credentials[c].tenant = t
      BY <1>1, <2>2 DEF FindCredential
    <3> HIDE DEF d
    <3> QED
      BY <1>1, <1>2, <2>2, <3>2, <3>3, CredentialStep
  <2>3. c \notin Credential => [credentials EXCEPT ![c] = d] = credentials
    BY DEF Inv, DocumentsOK
  <2> QED
    BY <1>1, <2>1, <2>2, <2>3
<1>4. ManagerOK' /\ HistoryOK'
  BY <1>1, <1>3, ManagerSame, HistorySame
<1> QED
  BY <1>1, <1>3, <1>4, EndStep

\* What was promised of bot or room d grows by a field.
LEMMA PromiseStep ==
  ASSUME Inv, NEW d \in Bot \cup Room, NEW f \in Field, UNCHANGED incidents,
         promised' = [promised EXCEPT ![d] = @ \cup {f}]
  PROVE  HistoryOK'
BY DEF Inv, HistoryOK

LEMMA ReadSettingsKept ==
  ASSUME Inv, NEW r \in Request, ReadSettings(r)
  PROVE  Kept(r)
<1> DEFINE old == request[r]
           x == old.room
           copy == IF rooms[x].state = "live" /\ rooms[x].tenant = old.tenant
                   THEN rooms[x].settings ELSE {}
           p == [old EXCEPT !.pc = "merging", !.copy = copy]
<1>1. /\ UNCHANGED <<documents, manager, history>>
      /\ request' = [request EXCEPT ![r] = p]
      /\ old.pc = "admitted" /\ old.route = "rooms.update"
  BY DEF ReadSettings, At
<1>2. old.bot \in Bot
  BY <1>1, InBot DEF TenantRoute
<1>3. Docs(r) /\ ManagerOK' /\ HistoryOK'
  BY <1>1, QuietStep
<1>4. old \in RequestState /\ Mine(old) /\ x \in Room
  BY <1>1, RequestFields DEF Sane
<1>5. copy \in SUBSET Field
  BY <1>4 DEF Inv, DocumentsOK, RoomDoc
<1> HIDE DEF old, x, copy
<1>6. /\ p \in RequestState /\ p.pc = "merging" /\ p.shown = old.shown
      /\ p.route = old.route /\ p.tenant = old.tenant /\ p.bot = old.bot /\ p.field = old.field
      /\ p.room = old.room /\ p.credential = old.credential
  <2>1. p \in RequestState
    BY <1>4, <1>5 DEF RequestState, Await
  <2>2. /\ p.pc = "merging" /\ p.shown = old.shown
        /\ p.route = old.route /\ p.tenant = old.tenant /\ p.bot = old.bot /\ p.field = old.field
        /\ p.room = old.room /\ p.credential = old.credential
    BY <1>4, <1>5 DEF RequestState, Await
  <2> QED
    BY <2>1, <2>2
<1> HIDE DEF p
<1>7. Mine(p)
  BY <1>4, <1>6 DEF Mine
<1> USE DEF old, x
<1> QED
  BY <1>1, <1>2, <1>3, <1>4, <1>6, <1>7, MoveStep

LEMMA PatchesKeepInv ==
  ASSUME Inv, NEW r \in Request, PatchBot(r) \/ PatchRoom(r)
  PROVE  Kept(r)
<1> DEFINE old == request[r]
           f == old.field
           patched == old.copy \cup {f}
<1>1. UNCHANGED <<manager, incidents>> /\ End(r) /\ old.pc \in {"admitted", "merging"}
      /\ old.route \in {"bots.update", "rooms.update"}
  BY DEF PatchBot, PatchRoom, At
<1>2. /\ f \in Field /\ patched \in SUBSET Field /\ old.bot \in Bot
      /\ old.tenant # None
  BY <1>1, RequestFields, InBot DEF Sane, TenantRoute
<1>3. ASSUME Docs(r), HistoryOK' PROVE Kept(r)
  <2>1. ManagerOK'
    BY <1>1, <1>3, ManagerSame
  <2> QED
    BY <1>1, <1>3, <2>1, EndStep
<1>4. ASSUME PatchBot(r) PROVE Kept(r)
  <2>1. /\ UpdateBot(old.tenant, old.bot, patched) /\ UNCHANGED <<rooms, credentials>>
        /\ promised' = [promised EXCEPT ![old.bot] = @ \cup {f}]
    BY <1>4 DEF PatchBot
  <2>2. Docs(r)
    BY <1>2, <2>1, BotUpdated
  <2>3. HistoryOK'
    BY <1>1, <1>2, <2>1, PromiseStep
  <2> QED
    BY <1>3, <2>2, <2>3
<1>5. ASSUME PatchRoom(r) PROVE Kept(r)
  <2>1. /\ UpdateSettings(old.tenant, old.room, patched) /\ UNCHANGED <<bots, credentials>>
        /\ promised' = [promised EXCEPT ![old.room] = @ \cup {f}]
    BY <1>5 DEF PatchRoom
  <2>2. old.room \in Room
    BY <1>5, RequestFields DEF PatchRoom, At, Sane
  <2>3. Docs(r)
    BY <1>2, <2>1, <2>2, RoomUpdated
  <2>4. HistoryOK'
    BY <1>1, <1>2, <2>1, <2>2, PromiseStep
  <2> QED
    BY <1>3, <2>3, <2>4
<1> QED
  BY <1>4, <1>5

-----------------------------------------------------------------------------
(* The bot manager                                                         *)

\* A step of the manager for the bot of request r, with the documents as they are or
\* changed for the request's tenant: the runtime stays, goes, or becomes the tenant's.
LEMMA ManagerStep ==
  ASSUME Inv, NEW r \in Request, Docs(r), NEW b \in Bot,
         startup' \in [Bot -> StartupEntry], timers' \subseteq Room,
         \/ UNCHANGED runtime
         \/ runtime' = [runtime EXCEPT ![b] = None]
         \/ /\ runtime' = [runtime EXCEPT ![b] = bots[b].tenant]
            /\ bots[b].tenant \in Tenant
  PROVE  ManagerOK'
<1>1. runtime' \in [Bot -> Tenant \cup {None}]
  BY DEF Inv, ManagerOK
<1>2. \A a \in Bot : bots[a].tenant # None => bots'[a].tenant = bots[a].tenant
  BY DEF Docs, DocsKept, OwnersKept
<1>3. \A a \in Bot : runtime'[a] # None => bots[a].tenant = runtime'[a]
  BY DEF Inv, ManagerOK
<1> QED
  BY <1>1, <1>2, <1>3 DEF ManagerOK

\* After a transition, joinRoom goes on and everything else ends.
LEMMA StartedStep ==
  ASSUME Inv, NEW r \in Request, Docs(r), ManagerOK', HistoryOK',
         request[r].pc \notin {"new", "answered"}, request[r].bot \in Bot,
         NEW owner, NEW gen \in Nat, Started(r, owner, gen)
  PROVE  Kept(r)
<1> DEFINE old == request[r]
           goes == old.route = "rooms.join" /\ owner # None /\ owner = old.tenant
<1>0. request \in [Request -> RequestState]
  BY DEF Inv, RequestsOK
<1>1. CASE goes
  <2>1. old.room \in Room
    BY <1>1, RequestFields DEF Sane, RoomRoute
  <2>2. request' = [request EXCEPT ![r] = [old EXCEPT !.pc = "finding", !.gen = gen]]
    BY <1>0, <1>1 DEF Started
  <2> QED
    BY <2>1, <2>2, GenStep DEF Await
<1>2. CASE ~goes
  <2>1. End(r)
    BY <1>0, <1>2 DEF Started, End
  <2> QED
    BY <2>1, EndStep
<1> QED
  BY <1>1, <1>2

\* The entry of a bot.
LEMMA EntryFields ==
  ASSUME Inv, NEW b \in Bot
  PROVE  /\ startup[b] \in StartupEntry /\ startup[b].gen \in Nat
         /\ \A status \in {"none", "starting", "active", "stopping", "stopped", "error"} :
              /\ [startup EXCEPT ![b].status = status] \in [Bot -> StartupEntry]
              /\ \A gen \in Nat : [startup EXCEPT ![b] = [status |-> status, gen |-> gen]]
                                  \in [Bot -> StartupEntry]
<1>1. startup \in [Bot -> StartupEntry] /\ startup[b] \in StartupEntry
  BY DEF Inv, ManagerOK
<1>2. ASSUME NEW status \in {"none", "starting", "active", "stopping", "stopped", "error"},
             NEW gen \in Nat
      PROVE  [startup EXCEPT ![b] = [status |-> status, gen |-> gen]] \in [Bot -> StartupEntry]
  <2>1. [status |-> status, gen |-> gen] \in StartupEntry
    BY DEF StartupEntry
  <2>2. \A e \in StartupEntry : [startup EXCEPT ![b] = e] \in [Bot -> StartupEntry]
    BY <1>1
  <2> QED
    BY <2>1, <2>2
<1>3. ASSUME NEW status \in {"none", "starting", "active", "stopping", "stopped", "error"}
      PROVE  [startup EXCEPT ![b].status = status] \in [Bot -> StartupEntry]
  <2> DEFINE e == [startup[b] EXCEPT !.status = status]
  <2>1. e \in StartupEntry
    BY <1>1 DEF StartupEntry
  <2>2. [startup EXCEPT ![b].status = status] = [startup EXCEPT ![b] = e]
    BY <1>1
  <2> HIDE DEF e
  <2> QED
    BY <1>1, <2>1, <2>2
<1> QED
  BY <1>1, <1>2, <1>3 DEF StartupEntry

\* The end of a transition marks its entry, or leaves it to its successor.
LEMMA EntryMarked ==
  ASSUME Inv, NEW b \in Bot,
         NEW status \in {"none", "starting", "active", "stopping", "stopped", "error"},
         startup' = startup \/ startup' = [startup EXCEPT ![b].status = status]
  PROVE  startup' \in [Bot -> StartupEntry]
<1>1. startup \in [Bot -> StartupEntry]
  BY DEF Inv, ManagerOK
<1>2. [startup EXCEPT ![b].status = status] \in [Bot -> StartupEntry]
  BY EntryFields
<1> QED
  BY <1>1, <1>2

LEMMA StartAgainKept ==
  ASSUME Inv, NEW r \in Request, StartAgain(r) \/ GiveUp(r)
  PROVE  Kept(r)
<1> DEFINE b == request[r].bot
<1>1. /\ UNCHANGED <<documents, manager, history>>
      /\ request[r].pc \in {"admitted", "building"}
      /\ request[r].pc = "admitted" => request[r].route \notin TenantRoute
      /\ Started(r, runtime[b], startup[b].gen)
  BY DEF StartAgain, GiveUp, TenantRoute
<1>2. b \in Bot
  BY <1>1, InBot
<1>3. startup[b].gen \in Nat
  BY <1>2, EntryFields
<1> QED
  BY <1>1, <1>2, <1>3, QuietStep, StartedStep

LEMMA StartBeginKept ==
  ASSUME Inv, NEW r \in Request, StartBegin(r)
  PROVE  Kept(r)
<1> DEFINE b == request[r].bot
           gen == startup[b].gen + 1
<1>1. /\ UNCHANGED documents /\ UNCHANGED <<runtime, timers, promised>>
      /\ request[r].pc = "admitted" /\ request[r].route \notin TenantRoute
      /\ startup' = [startup EXCEPT ![b] = [status |-> "starting", gen |-> gen]]
      /\ request' = [request EXCEPT ![r].pc = "loading", ![r].gen = gen]
      /\ incidents' \subseteq incidents \cup {<<"restart", b>>}
  BY DEF StartBegin, TenantRoute
<1>2. b \in Bot
  BY <1>1, InBot
<1>3. startup[b].gen \in Nat
  BY <1>2, EntryFields
<1>4. gen \in Nat
  BY <1>3
<1> HIDE DEF gen
<1>5. startup' \in [Bot -> StartupEntry]
  BY <1>1, <1>2, <1>4, EntryFields
<1>6. Docs(r)
  BY <1>1, DocsSame
<1>7. ManagerOK'
  BY <1>1, <1>2, <1>5, <1>6, ManagerStep DEF Inv, ManagerOK
<1>8. HistoryOK'
  BY <1>1, <1>2 DEF Inv, HistoryOK, Incident
<1>9. request' = [request EXCEPT ![r] = [request[r] EXCEPT !.pc = "loading", !.gen = gen]]
  BY <1>1
<1> QED
  BY <1>1, <1>2, <1>4, <1>6, <1>7, <1>8, <1>9, GenStep DEF Await, RoomAwait

\* A credential of the bot is taken along.
LEMMA CredentialTaken ==
  ASSUME Inv, NEW r \in Request, UNCHANGED <<documents, manager, history>>,
         request[r].pc \notin {"new", "answered"}, request[r].bot \in Bot,
         NEW pc \in Await, pc \notin {"new", "admitted"},
         pc \in RoomAwait => request[r].room \in Room,
         NEW c \in CredentialsOf(request[r].tenant, request[r].bot),
         request' = [request EXCEPT ![r] = [request[r] EXCEPT !.pc = pc, !.credential = c]]
  PROVE  Kept(r)
<1> DEFINE old == request[r]
           p == [old EXCEPT !.pc = pc, !.credential = c]
<1>1. request' = [request EXCEPT ![r] = p]
  OBVIOUS
<1>2. Docs(r) /\ ManagerOK' /\ HistoryOK'
  BY QuietStep
<1>3. old \in RequestState /\ Mine(old)
  BY RequestFields
<1>4. /\ c \in Credential /\ credentials[c].tenant = old.tenant
      /\ credentials[c].bot = old.bot
  BY FoundIsOwn
<1> HIDE DEF old
<1>5. /\ p \in RequestState /\ p.pc = pc /\ p.shown = old.shown
      /\ p.route = old.route /\ p.tenant = old.tenant /\ p.bot = old.bot /\ p.field = old.field
      /\ p.room = old.room /\ p.credential = c
  <2>1. p \in RequestState
    BY <1>3, <1>4 DEF RequestState
  <2>2. /\ p.pc = pc /\ p.shown = old.shown
        /\ p.route = old.route /\ p.tenant = old.tenant /\ p.bot = old.bot /\ p.field = old.field
        /\ p.room = old.room /\ p.credential = c
    BY <1>3, <1>4 DEF RequestState
  <2> QED
    BY <2>1, <2>2
<1> HIDE DEF p
<1>6. Mine(p)
  BY <1>3, <1>4, <1>5 DEF Mine
<1> USE DEF old
<1> QED
  BY <1>1, <1>2, <1>5, <1>6, MoveStep

LEMMA LoadKept ==
  ASSUME Inv, NEW r \in Request, Load(r)
  PROVE  Kept(r)
<1>1. PICK c \in Credential :
        /\ ActiveCredential(request[r].tenant, request[r].bot, c)
        /\ request' = [request EXCEPT ![r].pc = "building", ![r].credential = c]
  BY DEF Load
<1>2. UNCHANGED <<documents, manager, history>> /\ request[r].pc = "loading"
  BY DEF Load
<1>3. request[r].bot \in Bot
  BY <1>2, InBot
<1>4. c \in CredentialsOf(request[r].tenant, request[r].bot)
  BY <1>1 DEF CredentialsOf
<1>5. request' = [request EXCEPT ![r] = [request[r] EXCEPT !.pc = "building", !.credential = c]]
  BY <1>1
<1> QED
  BY <1>2, <1>3, <1>4, <1>5, CredentialTaken DEF Await, RoomAwait

LEMMA LoadFailsKept ==
  ASSUME Inv, NEW r \in Request, LoadFails(r)
  PROVE  Kept(r)
<1> DEFINE b == request[r].bot
           gen == request[r].gen
<1>1. /\ UNCHANGED documents /\ UNCHANGED <<runtime, timers, promised>> /\ End(r)
      /\ request[r].pc = "loading"
      /\ startup' = [startup EXCEPT ![b] = [status |-> "error", gen |-> gen]]
      /\ incidents' \subseteq incidents \cup {<<"overwrite", b>>}
  BY DEF LoadFails
<1>2. b \in Bot /\ gen \in Nat
  BY <1>1, InBot, RequestFields
<1>3. startup' \in [Bot -> StartupEntry]
  BY <1>1, <1>2, EntryFields
<1>4. Docs(r)
  BY <1>1, DocsSame
<1>5. ManagerOK'
  BY <1>1, <1>2, <1>3, <1>4, ManagerStep DEF Inv, ManagerOK
<1>6. HistoryOK'
  BY <1>1, <1>2 DEF Inv, HistoryOK, Incident
<1> QED
  BY <1>1, <1>4, <1>5, <1>6, EndStep

LEMMA BuildKept ==
  ASSUME Inv, NEW r \in Request, Build(r)
  PROVE  Kept(r)
<1> DEFINE b == request[r].bot
<1>1. /\ UNCHANGED documents /\ UNCHANGED <<startup, timers>> /\ UNCHANGED history
      /\ request[r].pc = "building" /\ GoOn(r, "listing")
      /\ runtime' = [runtime EXCEPT ![b] = request[r].tenant]
  BY DEF Build
<1>2. /\ b \in Bot /\ request[r].tenant \in Tenant
      /\ bots[b].tenant = request[r].tenant
  BY <1>1, InBot
<1>3. Docs(r)
  BY <1>1, DocsSame
<1>4. ManagerOK'
  BY <1>1, <1>2, <1>3, ManagerStep DEF Inv, ManagerOK
<1> QED
  BY <1>1, <1>2, <1>3, <1>4, HistorySame, GoOnStep DEF Await, RoomAwait

\* The runtime of the bot is dropped, and the start returns.
LEMMA DropStep ==
  ASSUME Inv, NEW r \in Request, Docs(r), UNCHANGED history, UNCHANGED startup,
         timers' \subseteq Room, request[r].pc \notin {"new", "answered", "admitted"},
         DropRuntime(r)
  PROVE  Kept(r)
<1> DEFINE b == request[r].bot
<1>1. b \in Bot
  BY InBot
<1>2. startup[b].gen \in Nat
  BY <1>1, EntryFields
<1>3. runtime' = [runtime EXCEPT ![b] = None] /\ Started(r, None, startup[b].gen)
  BY DEF DropRuntime
<1>4. ManagerOK'
  BY <1>1, <1>3, ManagerStep DEF Inv, ManagerOK
<1>5. HistoryOK'
  BY HistorySame
<1> QED
  BY <1>1, <1>2, <1>3, <1>4, <1>5, StartedStep

LEMMA CheckedStep ==
  ASSUME Inv, NEW r \in Request, Docs(r), UNCHANGED history, UNCHANGED startup,
         timers' \subseteq Room, request[r].pc \notin {"new", "answered", "admitted"},
         Checked(r)
  PROVE  Kept(r)
<1>1. CASE GoOn(r, "activating") /\ UNCHANGED runtime
  <2>1. request[r].bot \in Bot
    BY InBot
  <2>2. ManagerOK'
    BY <1>1, <2>1, ManagerStep DEF Inv, ManagerOK
  <2> QED
    BY <1>1, <2>1, <2>2, HistorySame, GoOnStep DEF Await, RoomAwait
<1>2. CASE DropRuntime(r)
  BY <1>2, DropStep
<1> QED
  BY <1>1, <1>2 DEF Checked

\* A handler that works with a room has one, a bot and a tenant.
LEMMA InRoom ==
  ASSUME Inv, NEW r \in Request, request[r].pc \in RoomAwait
  PROVE  /\ request[r].room \in Room /\ request[r].bot \in Bot
         /\ request[r].tenant \in Tenant /\ request[r].tenant # None
         /\ request[r].pc \notin {"new", "answered", "admitted"}
<1>1. request[r].pc \notin {"new", "answered", "admitted"}
  BY DEF RoomAwait
<1> QED
  BY <1>1, RequestFields, InBot DEF Sane

LEMMA ListForStartKept ==
  ASSUME Inv, NEW r \in Request, ListForStart(r)
  PROVE  Kept(r)
<1> DEFINE old == request[r]
           active == {x \in RoomsOf(old.tenant, old.bot) : rooms[x].status = "active"}
<1>1. /\ UNCHANGED documents /\ UNCHANGED <<startup, timers>> /\ UNCHANGED history
      /\ old.pc = "listing"
  BY DEF ListForStart
<1>2. old.bot \in Bot
  BY <1>1, InBot
<1>3. Docs(r)
  BY <1>1, DocsSame
<1>4. CASE DropRuntime(r)
  BY <1>1, <1>3, <1>4, DropStep DEF Inv, ManagerOK
<1>5. ASSUME UNCHANGED runtime PROVE ManagerOK' /\ HistoryOK'
  BY <1>1, <1>3, <1>5, ManagerSame, HistorySame DEF manager
<1>6. CASE UNCHANGED runtime /\ GoOn(r, "activating")
  BY <1>1, <1>2, <1>3, <1>5, <1>6, GoOnStep DEF Await, RoomAwait
<1>7. ASSUME UNCHANGED runtime, NEW x \in active,
             request' = [request EXCEPT ![r].pc = "verifying", ![r].room = x]
      PROVE  Kept(r)
  <2> DEFINE p == [old EXCEPT !.pc = "verifying", !.room = x]
  <2>1. request' = [request EXCEPT ![r] = p]
    BY <1>7
  <2>2. old \in RequestState /\ Mine(old)
    BY RequestFields
  <2>3. x \in Room /\ rooms[x].tenant = old.tenant /\ rooms[x].bot = old.bot
    BY FoundIsOwn
  <2> HIDE DEF old
  <2>4. /\ p \in RequestState /\ p.pc = "verifying" /\ p.shown = old.shown
        /\ p.route = old.route /\ p.tenant = old.tenant /\ p.bot = old.bot
        /\ p.field = old.field /\ p.room = x /\ p.credential = old.credential
    <3>1. p \in RequestState
      BY <2>2, <2>3 DEF RequestState, Await
    <3>2. /\ p.pc = "verifying" /\ p.shown = old.shown
          /\ p.route = old.route /\ p.tenant = old.tenant /\ p.bot = old.bot
          /\ p.field = old.field /\ p.room = x /\ p.credential = old.credential
      BY <2>2, <2>3 DEF RequestState, Await
    <3> QED
      BY <3>1, <3>2
  <2> HIDE DEF p
  <2>5. Mine(p)
    BY <2>2, <2>3, <2>4 DEF Mine
  <2> USE DEF old
  <2> QED
    BY <1>1, <1>2, <1>3, <1>5, <1>7, <2>1, <2>3, <2>4, <2>5, MoveStep
<1> QED
  BY <1>4, <1>6, <1>7 DEF ListForStart

LEMMA NotVerifiedKept ==
  ASSUME Inv, NEW r \in Request, NotVerified(r)
  PROVE  Kept(r)
<1>1. /\ UNCHANGED <<bots, credentials>> /\ UNCHANGED <<startup, timers>> /\ UNCHANGED history
      /\ request[r].pc = "verifying" /\ Checked(r)
      /\ UpdateRoomStatus(request[r].tenant, request[r].room, "inactive") \/ UNCHANGED rooms
  BY DEF NotVerified
<1>2. request[r].room \in Room /\ request[r].tenant # None
  BY <1>1, InRoom DEF RoomAwait
<1>3. Docs(r)
  <2>1. CASE UNCHANGED rooms
    BY <1>1, <2>1, DocsSame DEF documents
  <2>2. CASE UpdateRoomStatus(request[r].tenant, request[r].room, "inactive")
    BY <1>1, <1>2, <2>2, RoomUpdated DEF RoomStatus
  <2> QED
    BY <1>1, <2>1, <2>2
<1> QED
  BY <1>1, <1>3, CheckedStep DEF Inv, ManagerOK

LEMMA ReconfirmKept ==
  ASSUME Inv, NEW r \in Request, Reconfirm(r)
  PROVE  Kept(r)
<1>1. /\ UNCHANGED documents /\ UNCHANGED <<startup, timers>> /\ UNCHANGED history
      /\ request[r].pc = "reconfirming"
  BY DEF Reconfirm
<1>2. /\ request[r].room \in Room /\ request[r].bot \in Bot
      /\ request[r].pc \notin {"new", "answered", "admitted"}
  BY <1>1, InRoom DEF RoomAwait
<1>3. Docs(r)
  BY <1>1, DocsSame
<1>4. CASE GoOn(r, "repinging") /\ UNCHANGED runtime
  <2>1. ManagerOK' /\ HistoryOK'
    BY <1>1, <1>3, <1>4, ManagerSame, HistorySame DEF manager
  <2> QED
    BY <1>2, <1>3, <1>4, <2>1, GoOnStep DEF Await
<1>5. CASE Checked(r)
  BY <1>1, <1>2, <1>3, <1>5, CheckedStep DEF Inv, ManagerOK
<1> QED
  BY <1>4, <1>5 DEF Reconfirm

LEMMA ActivateKept ==
  ASSUME Inv, NEW r \in Request, Activate(r)
  PROVE  Kept(r)
<1> DEFINE b == request[r].bot
<1>1. /\ UNCHANGED documents /\ UNCHANGED <<runtime, timers>> /\ UNCHANGED history
      /\ request[r].pc = "activating"
      /\ startup' = startup \/ startup' = [startup EXCEPT ![b].status = "active"]
      /\ Started(r, runtime[b], startup[b].gen)
  BY DEF Activate
<1>2. b \in Bot
  BY <1>1, InBot
<1>3. startup' \in [Bot -> StartupEntry]
  BY <1>1, <1>2, EntryMarked
<1>4. startup[b].gen \in Nat
  BY <1>2, EntryFields
<1>5. Docs(r)
  BY <1>1, DocsSame
<1>6. ManagerOK'
  BY <1>1, <1>2, <1>3, <1>5, ManagerStep DEF Inv, ManagerOK
<1> QED
  BY <1>1, <1>2, <1>4, <1>5, <1>6, HistorySame, StartedStep

LEMMA StopKept ==
  ASSUME Inv, NEW r \in Request, Stop(r)
  PROVE  Kept(r)
<1> DEFINE b == request[r].bot
           gen == startup[b].gen + 1
<1>1. /\ UNCHANGED documents /\ UNCHANGED history
      /\ request[r].pc = "admitted" /\ request[r].route \notin TenantRoute
      /\ timers' \subseteq timers
      /\ runtime' = [runtime EXCEPT ![b] = None]
      /\ startup' = [startup EXCEPT ![b] = [status |-> "stopping", gen |-> gen]]
      /\ request' = [request EXCEPT ![r].pc = "stopping", ![r].gen = gen]
  BY DEF Stop, TenantRoute
<1>2. b \in Bot
  BY <1>1, InBot
<1>3. startup[b].gen \in Nat
  BY <1>2, EntryFields
<1>4. gen \in Nat
  BY <1>3
<1> HIDE DEF gen
<1>5. startup' \in [Bot -> StartupEntry]
  BY <1>1, <1>2, <1>4, EntryFields
<1>6. Docs(r)
  BY <1>1, DocsSame
<1>7. ManagerOK'
  BY <1>1, <1>2, <1>5, <1>6, ManagerStep DEF Inv, ManagerOK
<1>8. HistoryOK'
  BY <1>1, HistorySame
<1>9. request' = [request EXCEPT ![r] = [request[r] EXCEPT !.pc = "stopping", !.gen = gen]]
  BY <1>1
<1> QED
  BY <1>1, <1>2, <1>4, <1>6, <1>7, <1>8, <1>9, GenStep DEF Await, RoomAwait

LEMMA StoppedKept ==
  ASSUME Inv, NEW r \in Request, Stopped(r)
  PROVE  Kept(r)
<1> DEFINE b == request[r].bot
<1>1. /\ UNCHANGED documents /\ UNCHANGED <<runtime, timers>> /\ UNCHANGED history
      /\ request[r].pc = "stopping"
      /\ startup' = startup \/ startup' = [startup EXCEPT ![b].status = "stopped"]
      /\ GoOn(r, "deleting") \/ End(r)
  BY DEF Stopped
<1>2. b \in Bot
  BY <1>1, InBot
<1>3. startup' \in [Bot -> StartupEntry]
  BY <1>1, <1>2, EntryMarked
<1>4. Docs(r)
  BY <1>1, DocsSame
<1>5. ManagerOK' /\ HistoryOK'
  BY <1>1, <1>2, <1>3, <1>4, ManagerStep, HistorySame DEF Inv, ManagerOK
<1>6. CASE GoOn(r, "deleting")
  BY <1>1, <1>2, <1>4, <1>5, <1>6, GoOnStep DEF Await, RoomAwait
<1>7. CASE End(r)
  BY <1>4, <1>5, <1>7, EndStep
<1> QED
  BY <1>1, <1>6, <1>7

LEMMA RemoveBotKept ==
  ASSUME Inv, NEW r \in Request, RemoveBot(r)
  PROVE  Kept(r)
<1>1. /\ DeleteBot(request[r].tenant, request[r].bot) /\ End(r)
      /\ UNCHANGED <<rooms, credentials>> /\ UNCHANGED manager /\ UNCHANGED history
      /\ request[r].pc = "deleting"
  BY DEF RemoveBot
<1>2. request[r].bot \in Bot
  BY <1>1, InBot
<1>3. Docs(r)
  BY <1>1, <1>2, BotUpdated
<1> QED
  BY <1>1, <1>3, ManagerSame, HistorySame, EndStep

-----------------------------------------------------------------------------
(* Rooms                                                                   *)

\* The reads of joinRoom and ensureRoomRuntime.
LEMMA RoomReadsKept ==
  ASSUME Inv, NEW r \in Request, Find(r) \/ Confirm(r)
  PROVE  Kept(r)
<1>1. /\ UNCHANGED <<documents, manager, history>>
      /\ request[r].pc \in {"finding", "confirming"}
      /\ \/ GoOn(r, "confirming") \/ GoOn(r, "marking") \/ GoOn(r, "pinging") \/ End(r)
  BY DEF Find, Confirm
<1>2. /\ request[r].room \in Room /\ request[r].bot \in Bot
      /\ request[r].pc \notin {"new", "answered", "admitted"}
  BY <1>1, InRoom DEF RoomAwait
<1>3. Docs(r) /\ ManagerOK' /\ HistoryOK'
  BY <1>1, QuietStep
<1>4. ASSUME NEW pc \in {"confirming", "marking", "pinging"}, GoOn(r, pc) PROVE Kept(r)
  <2>1. pc \in Await /\ pc \notin {"new", "admitted"}
    BY DEF Await
  <2> QED
    BY <1>2, <1>3, <1>4, <2>1, GoOnStep
<1>5. CASE End(r)
  BY <1>3, <1>5, EndStep
<1> QED
  BY <1>1, <1>4, <1>5

\* The writes of joinRoom, of RoomService.join and of RoomService.leave.
LEMMA RoomWritesKept ==
  ASSUME Inv, NEW r \in Request, Mark(r) \/ Join(r) \/ Leave(r)
  PROVE  Kept(r)
<1>1. /\ UNCHANGED <<bots, credentials>> /\ UNCHANGED manager /\ UNCHANGED history
      /\ request[r].pc \in {"marking", "entering", "rejoining", "leaving"}
      /\ \E status \in RoomStatus :
           UpdateRoomStatus(request[r].tenant, request[r].room, status)
      /\ \E pc \in {"entering", "confirming", "reconfirming", "left"} : GoOn(r, pc)
  BY DEF Mark, Join, Leave, RoomStatus
<1>2. /\ request[r].room \in Room /\ request[r].bot \in Bot /\ request[r].tenant # None
      /\ request[r].pc \notin {"new", "answered", "admitted"}
  BY <1>1, InRoom DEF RoomAwait
<1>3. Docs(r)
  BY <1>1, <1>2, RoomUpdated
<1>4. ManagerOK' /\ HistoryOK'
  BY <1>1, <1>3, ManagerSame, HistorySame
<1>5. PICK pc \in {"entering", "confirming", "reconfirming", "left"} : GoOn(r, pc)
  BY <1>1
<1>6. pc \in Await /\ pc \notin {"new", "admitted"}
  BY DEF Await
<1> QED
  BY <1>2, <1>3, <1>4, <1>5, <1>6, GoOnStep

LEMMA ArmKept ==
  ASSUME Inv, NEW r \in Request, Arm(r)
  PROVE  Kept(r)
<1>1. /\ UNCHANGED documents /\ UNCHANGED startup /\ UNCHANGED history
      /\ request[r].pc \in {"pinging", "repinging"}
      /\ timers' = timers \/ timers' = timers \cup {request[r].room}
  BY DEF Arm
<1>2. /\ request[r].room \in Room /\ request[r].bot \in Bot
      /\ request[r].pc \notin {"new", "answered", "admitted"}
  BY <1>1, InRoom DEF RoomAwait
<1>3. timers' \subseteq Room
  BY <1>1, <1>2 DEF Inv, ManagerOK
<1>4. Docs(r)
  BY <1>1, DocsSame
<1>5. CASE Checked(r)
  BY <1>1, <1>2, <1>3, <1>4, <1>5, CheckedStep
<1>6. CASE /\ runtime' = runtime \/ runtime' = [runtime EXCEPT ![request[r].bot] = None]
           /\ End(r)
  <2>1. ManagerOK'
    BY <1>1, <1>2, <1>3, <1>4, <1>6, ManagerStep DEF Inv, ManagerOK
  <2> QED
    BY <1>1, <1>4, <1>6, <2>1, HistorySame, EndStep
<1> QED
  BY <1>5, <1>6 DEF Arm

\* The adapter of the bot.
LEMMA AdapterKept ==
  ASSUME Inv, NEW r \in Request, ReadAccount(r) \/ CreateAdapter(r)
  PROVE  Kept(r)
<1> DEFINE old == request[r]
<1>1. /\ UNCHANGED <<documents, manager, history>>
      /\ old.pc \in {"admitted", "adapting"}
      /\ ReadAccount(r) => old.route = "bots.me" /\ WithCredential(r, "adapting")
      /\ CreateAdapter(r) => Needs(old) # "none" /\ WithCredential(r, Needs(old))
  BY DEF ReadAccount, CreateAdapter, At
<1>2. Needs(old) # "none" =>
        /\ Needs(old) \in {"leaving", "calling"} /\ old.route \notin TenantRoute
        /\ Needs(old) = "leaving" => old.route \in RoomRoute
  BY DEF Needs, TenantRoute, RoomRoute
<1>3. old.bot \in Bot
  BY <1>1, <1>2, InBot DEF TenantRoute
<1>4. old.route \in RoomRoute => old.room \in Room
  BY RequestFields DEF Sane
<1>5. PICK pc \in {"adapting", "leaving", "calling"} :
        WithCredential(r, pc) /\ (pc = "leaving" => old.room \in Room)
  BY <1>1, <1>2, <1>4
<1>6. pc \in Await /\ pc \notin {"new", "admitted"} /\ (pc \in RoomAwait => old.room \in Room)
  BY <1>5 DEF Await, RoomAwait
<1>7. CASE End(r)
  BY <1>1, <1>7, QuietStep, EndStep
<1>8. ASSUME NEW c \in CredentialsOf(old.tenant, old.bot),
             request' = [request EXCEPT ![r].pc = pc, ![r].credential = c]
      PROVE  Kept(r)
  <2>1. request' = [request EXCEPT ![r] = [old EXCEPT !.pc = pc, !.credential = c]]
    BY <1>8
  <2> QED
    BY <1>1, <1>3, <1>6, <2>1, CredentialTaken
<1> QED
  BY <1>5, <1>7, <1>8 DEF WithCredential

\* onRoomInactive of a leave and of a removal.
LEMMA DisarmsKept ==
  ASSUME Inv, NEW r \in Request, Left(r) \/ Disarm(r)
  PROVE  Kept(r)
<1>1. /\ UNCHANGED documents /\ UNCHANGED <<startup, runtime>> /\ UNCHANGED history
      /\ timers' = timers \ {request[r].room}
      /\ request[r].pc \in {"left", "admitted"} /\ request[r].route \in RoomRoute
      /\ End(r) \/ GoOn(r, "erasing")
  BY DEF Left, Disarm, At, RoomRoute
<1>2. request[r].bot \in Bot /\ request[r].room \in Room
  BY <1>1, InBot, RequestFields DEF Sane, TenantRoute, RoomRoute
<1>3. Docs(r)
  BY <1>1, DocsSame
<1>4. timers' \subseteq Room
  BY <1>1 DEF Inv, ManagerOK
<1>5. ManagerOK' /\ HistoryOK'
  BY <1>1, <1>2, <1>3, <1>4, ManagerStep, HistorySame DEF Inv, ManagerOK
<1>6. CASE End(r)
  BY <1>3, <1>5, <1>6, EndStep
<1>7. CASE GoOn(r, "erasing")
  BY <1>1, <1>2, <1>3, <1>5, <1>7, GoOnStep DEF Await
<1> QED
  BY <1>1, <1>6, <1>7

LEMMA RemoveRoomKept ==
  ASSUME Inv, NEW r \in Request, RemoveRoom(r)
  PROVE  Kept(r)
<1>1. /\ DeleteRoom(request[r].tenant, request[r].room) /\ End(r)
      /\ UNCHANGED <<bots, credentials>> /\ UNCHANGED manager /\ UNCHANGED history
      /\ request[r].pc = "erasing"
  BY DEF RemoveRoom
<1>2. request[r].room \in Room /\ request[r].tenant # None
  BY <1>1, InRoom DEF RoomAwait
<1>3. Docs(r)
  BY <1>1, <1>2, RoomUpdated
<1> QED
  BY <1>1, <1>3, ManagerSame, HistorySame, EndStep

-----------------------------------------------------------------------------
(* Admission                                                               *)

\* A request enters with documents of the tenant it has been authenticated for.
LEMMA EnterStep ==
  ASSUME Inv, NEW r \in Request, NEW p \in RequestState, Sane(p), Mine(p), Enter(r, p)
  PROVE  Kept(r)
<1>1. /\ request' = [request EXCEPT ![r] = p]
      /\ incidents' = incidents \cup Meetings(r, p)
      /\ UNCHANGED documents /\ UNCHANGED manager /\ UNCHANGED promised
  BY DEF Enter
<1>2. Docs(r)
  BY <1>1, DocsSame
<1>3. ManagerOK'
  BY <1>1, <1>2, ManagerSame
<1>4. Meetings(r, p) \subseteq Incident \X (Bot \cup Room)
  BY DEF Meetings
<1>5. HistoryOK'
  BY <1>1, <1>4 DEF Inv, HistoryOK
<1>6. MineNext(p)
  BY <1>2, MineStays DEF Docs
<1> QED
  BY <1>1, <1>2, <1>3, <1>5, <1>6, Combine

\* The fields of an authenticated request.
LEMMA AuthenticatedFields ==
  ASSUME NEW t \in Tenant, NEW route \in Route
  PROVE  LET p == Authenticated(t, route) IN
         /\ p \in RequestState /\ p.pc = "admitted" /\ p.route = route /\ p.tenant = t
         /\ p.bot = None /\ p.room = None /\ p.credential = None /\ p.field = "none"
         /\ p.shown = {}
<1> DEFINE p == Authenticated(t, route)
<1>1. /\ p.pc = "admitted" /\ p.route = route /\ p.tenant = t
      /\ p.bot = None /\ p.room = None /\ p.credential = None /\ p.field = "none"
      /\ p.shown = {}
  BY DEF Authenticated, New
<1>2. p \in RequestState
  BY DEF Authenticated, New, RequestState, Await, RoomStatus
<1> QED
  BY <1>1, <1>2

LEMMA AdmitKept ==
  ASSUME Inv, NEW r \in Request, Admit(r)
  PROVE  Kept(r)
<1>1. PICK t \in Tenant :
        AdmitTenant(r, t) \/ AdmitBot(r, t) \/ AdmitRoom(r, t) \/ AdmitCredential(r, t)
  BY DEF Admit
<1>2. t # None
  BY NoneAssumption
<1>3. CASE AdmitTenant(r, t)
  <2>1. PICK route \in {"bots.list", "bots.create"} : Enter(r, Authenticated(t, route))
    BY <1>3 DEF AdmitTenant
  <2> DEFINE p == Authenticated(t, route)
  <2>2. route \in Route
    BY DEF Route
  <2>3. /\ p \in RequestState /\ p.pc = "admitted" /\ p.route = route /\ p.tenant = t
        /\ p.bot = None /\ p.room = None /\ p.credential = None /\ p.shown = {}
    BY <2>2, AuthenticatedFields
  <2>4. Enter(r, p)
    BY <2>1
  <2> HIDE DEF p
  <2>5. Sane(p)
    BY <1>2, <2>3 DEF Sane, RoomAwait, RoomRoute, TenantRoute
  <2>6. Mine(p)
    BY <2>3 DEF Mine
  <2> QED
    BY <2>3, <2>4, <2>5, <2>6, EnterStep
<1>4. CASE AdmitBot(r, t)
  <2>1. PICK b \in BotsOf(t) :
          \/ \E route \in BotRoute : Enter(r, [Authenticated(t, route) EXCEPT !.bot = b])
          \/ \E f \in Field :
               Enter(r, [Authenticated(t, "bots.update") EXCEPT
                           !.bot = b, !.field = f, !.copy = bots[b].config])
    BY <1>4 DEF AdmitBot
  <2>2. b \in Bot /\ bots[b].tenant = t /\ bots[b].config \in SUBSET Field
    BY FoundIsOwn DEF Inv, DocumentsOK, BotDoc
  <2>3. ASSUME NEW p \in RequestState, Enter(r, p), p.pc = "admitted", p.tenant = t, p.bot = b,
               p.route \in BotRoute \/ (p.route = "bots.update" /\ p.field \in Field),
               p.room = None, p.credential = None, p.shown = {}
        PROVE  Kept(r)
    <3>1. p.route \notin RoomRoute \cup {"rooms.update"}
      BY <2>3 DEF BotRoute, RoomRoute
    <3>2. p.route \in {"bots.update", "rooms.update"} => p.field \in Field
      BY <2>3 DEF BotRoute
    <3>3. Sane(p)
      BY <1>2, <2>2, <2>3, <3>1, <3>2 DEF Sane, RoomAwait
    <3>4. Mine(p)
      BY <2>2, <2>3 DEF Mine
    <3> QED
      BY <2>3, <3>3, <3>4, EnterStep
  <2>4. ASSUME NEW route \in BotRoute, Enter(r, [Authenticated(t, route) EXCEPT !.bot = b])
        PROVE  Kept(r)
    <3> DEFINE a == Authenticated(t, route)
               p == [a EXCEPT !.bot = b]
    <3>1. route \in Route
      BY DEF Route
    <3>2. /\ a \in RequestState /\ a.pc = "admitted" /\ a.route = route /\ a.tenant = t
          /\ a.room = None /\ a.credential = None /\ a.shown = {}
      BY <3>1, AuthenticatedFields
    <3>3. Enter(r, p)
      BY <2>4
    <3> HIDE DEF a
    <3>4. /\ p \in RequestState /\ p.pc = "admitted" /\ p.route = route /\ p.tenant = t
          /\ p.bot = b /\ p.room = None /\ p.credential = None /\ p.shown = {}
      BY <2>2, <3>2 DEF RequestState
    <3> HIDE DEF p
    <3> QED
      BY <2>3, <3>3, <3>4
  <2>5. ASSUME NEW f \in Field,
               Enter(r, [Authenticated(t, "bots.update") EXCEPT
                           !.bot = b, !.field = f, !.copy = bots[b].config])
        PROVE  Kept(r)
    <3> DEFINE a == Authenticated(t, "bots.update")
               config == bots[b].config
               p == [a EXCEPT !.bot = b, !.field = f, !.copy = config]
    <3>1. "bots.update" \in Route
      BY DEF Route
    <3>2. /\ a \in RequestState /\ a.pc = "admitted" /\ a.route = "bots.update" /\ a.tenant = t
          /\ a.room = None /\ a.credential = None /\ a.shown = {}
      BY <3>1, AuthenticatedFields
    <3>3. Enter(r, p)
      BY <2>5
    <3>4. config \in SUBSET Field
      BY <2>2
    <3> HIDE DEF a, config
    <3>5. /\ p \in RequestState /\ p.pc = "admitted" /\ p.route = "bots.update" /\ p.tenant = t
          /\ p.bot = b /\ p.room = None /\ p.credential = None /\ p.shown = {} /\ p.field = f
      <4>1. p \in RequestState
        BY <2>2, <3>2, <3>4 DEF RequestState
      <4>2. /\ p.pc = "admitted" /\ p.route = "bots.update" /\ p.tenant = t
            /\ p.bot = b /\ p.room = None /\ p.credential = None /\ p.shown = {} /\ p.field = f
        BY <2>2, <3>2, <3>4 DEF RequestState
      <4> QED
        BY <4>1, <4>2
    <3> HIDE DEF p
    <3> QED
      BY <2>3, <3>3, <3>5
  <2> QED
    BY <2>1, <2>4, <2>5
<1>5. CASE AdmitRoom(r, t)
  <2>1. PICK b \in BotsOf(t), x \in Room :
          /\ FindRoom(t, b, x)
          /\ \/ \E route \in RoomRoute :
                  Enter(r, [Authenticated(t, route) EXCEPT
                              !.bot = b, !.room = x, !.was = rooms[x].status])
             \/ \E f \in Field :
                  Enter(r, [Authenticated(t, "rooms.update") EXCEPT
                              !.bot = b, !.room = x, !.field = f])
    BY <1>5 DEF AdmitRoom
  <2>2. /\ b \in Bot /\ bots[b].tenant = t
        /\ rooms[x].tenant = t /\ rooms[x].bot = b /\ rooms[x].status \in RoomStatus
    BY <2>1, FoundIsOwn DEF FindRoom, Inv, DocumentsOK, RoomDoc
  <2>3. ASSUME NEW p \in RequestState, Enter(r, p), p.pc = "admitted", p.tenant = t, p.bot = b,
               p.route \in RoomRoute \/ (p.route = "rooms.update" /\ p.field \in Field),
               p.room = x, p.credential = None, p.shown = {}
        PROVE  Kept(r)
    <3>1. p.route \in {"bots.update", "rooms.update"} => p.field \in Field
      BY <2>3 DEF RoomRoute
    <3>2. Sane(p)
      BY <1>2, <2>2, <2>3, <3>1 DEF Sane
    <3>3. Mine(p)
      BY <2>2, <2>3 DEF Mine
    <3> QED
      BY <2>3, <3>2, <3>3, EnterStep
  <2>4. ASSUME NEW route \in RoomRoute,
               Enter(r, [Authenticated(t, route) EXCEPT
                           !.bot = b, !.room = x, !.was = rooms[x].status])
        PROVE  Kept(r)
    <3> DEFINE a == Authenticated(t, route)
               was == rooms[x].status
               p == [a EXCEPT !.bot = b, !.room = x, !.was = was]
    <3>1. route \in Route
      BY DEF Route
    <3>2. /\ a \in RequestState /\ a.pc = "admitted" /\ a.route = route /\ a.tenant = t
          /\ a.credential = None /\ a.shown = {}
      BY <3>1, AuthenticatedFields
    <3>3. Enter(r, p)
      BY <2>4
    <3>4. was \in RoomStatus
      BY <2>2
    <3> HIDE DEF a, was
    <3>5. /\ p \in RequestState /\ p.pc = "admitted" /\ p.route = route /\ p.tenant = t
          /\ p.bot = b /\ p.room = x /\ p.credential = None /\ p.shown = {}
      <4>1. p \in RequestState
        BY <2>2, <3>2, <3>4 DEF RequestState
      <4>2. /\ p.pc = "admitted" /\ p.route = route /\ p.tenant = t
            /\ p.bot = b /\ p.room = x /\ p.credential = None /\ p.shown = {}
        BY <2>2, <3>2, <3>4 DEF RequestState
      <4> QED
        BY <4>1, <4>2
    <3> HIDE DEF p
    <3> QED
      BY <2>3, <3>3, <3>5
  <2>5. ASSUME NEW f \in Field,
               Enter(r, [Authenticated(t, "rooms.update") EXCEPT
                           !.bot = b, !.room = x, !.field = f])
        PROVE  Kept(r)
    <3> DEFINE a == Authenticated(t, "rooms.update")
               p == [a EXCEPT !.bot = b, !.room = x, !.field = f]
    <3>1. "rooms.update" \in Route
      BY DEF Route
    <3>2. /\ a \in RequestState /\ a.pc = "admitted" /\ a.route = "rooms.update" /\ a.tenant = t
          /\ a.credential = None /\ a.shown = {}
      BY <3>1, AuthenticatedFields
    <3>3. Enter(r, p)
      BY <2>5
    <3> HIDE DEF a
    <3>4. /\ p \in RequestState /\ p.pc = "admitted" /\ p.route = "rooms.update" /\ p.tenant = t
          /\ p.bot = b /\ p.room = x /\ p.credential = None /\ p.shown = {} /\ p.field = f
      <4>1. p \in RequestState
        BY <2>2, <3>2 DEF RequestState
      <4>2. /\ p.pc = "admitted" /\ p.route = "rooms.update" /\ p.tenant = t
            /\ p.bot = b /\ p.room = x /\ p.credential = None /\ p.shown = {} /\ p.field = f
        BY <2>2, <3>2 DEF RequestState
      <4> QED
        BY <4>1, <4>2
    <3> HIDE DEF p
    <3> QED
      BY <2>3, <3>3, <3>4
  <2> QED
    BY <2>1, <2>4, <2>5
<1>6. CASE AdmitCredential(r, t)
  <2>1. PICK b \in BotsOf(t), c \in Credential :
          /\ FindCredential(t, c)
          /\ Enter(r, [Authenticated(t, "credentials.remove") EXCEPT !.bot = b, !.credential = c])
    BY <1>6 DEF AdmitCredential
  <2>2. b \in Bot /\ bots[b].tenant = t /\ credentials[c].tenant = t
    BY <2>1, FoundIsOwn DEF FindCredential
  <2> DEFINE a == Authenticated(t, "credentials.remove")
             p == [a EXCEPT !.bot = b, !.credential = c]
  <2>3. "credentials.remove" \in Route
    BY DEF Route
  <2>4. /\ a \in RequestState /\ a.pc = "admitted" /\ a.route = "credentials.remove"
        /\ a.tenant = t /\ a.room = None /\ a.shown = {}
    BY <2>3, AuthenticatedFields
  <2>5. Enter(r, p)
    BY <2>1
  <2> HIDE DEF a
  <2>6. /\ p \in RequestState /\ p.pc = "admitted" /\ p.route = "credentials.remove"
        /\ p.tenant = t /\ p.bot = b /\ p.room = None /\ p.credential = c /\ p.shown = {}
    <3>1. p \in RequestState
      BY <2>2, <2>4 DEF RequestState
    <3>2. /\ p.pc = "admitted" /\ p.route = "credentials.remove"
          /\ p.tenant = t /\ p.bot = b /\ p.room = None /\ p.credential = c /\ p.shown = {}
      BY <2>2, <2>4 DEF RequestState
    <3> QED
      BY <3>1, <3>2
  <2> HIDE DEF p
  <2>7. Sane(p)
    BY <1>2, <2>2, <2>6 DEF Sane, RoomAwait, RoomRoute
  <2>8. Mine(p)
    BY <2>2, <2>6 DEF Mine
  <2> QED
    BY <2>5, <2>6, <2>7, <2>8, EnterStep
<1> QED
  BY <1>1, <1>3, <1>4, <1>5, <1>6

-----------------------------------------------------------------------------
(* The theorems of isolation                                               *)

\* Every step of a request keeps the invariant and stays with its tenant.
LEMMA StepKept ==
  ASSUME Inv, NEW r \in Request, Admit(r) \/ Handle(r) \/ Start(r)
  PROVE  Kept(r)
<1>1. CASE Admit(r)
  BY <1>1, AdmitKept
<1>2. CASE Handle(r)
  BY <1>2, ListsKept, ShowsKept, CountsKept, GatherKept, CreatesKept, EndsKept,
     RemoveCredentialKept, PatchesKeepInv, ReadSettingsKept, StopKept, StoppedKept,
     RemoveBotKept, AdapterKept, RoomWritesKept, DisarmsKept, RemoveRoomKept DEF Handle
<1>3. CASE Start(r)
  BY <1>3, StartAgainKept, StartBeginKept, LoadKept, LoadFailsKept, BuildKept,
     ListForStartKept, CountsKept, NotVerifiedKept, ReconfirmKept, ActivateKept,
     RoomReadsKept, RoomWritesKept, ArmKept DEF Start
<1> QED
  BY <1>1, <1>2, <1>3

LEMMA InitInv == Init => Inv
<1> SUFFICES ASSUME Init PROVE Inv
  OBVIOUS
<1>1. PICK home \in [Bot -> Tenant \cup {None}], host \in [Room -> Bot \cup {None}],
           holder \in [Credential -> Bot \cup {None}], status \in [Room -> RoomStatus] :
        LET Home(b) == IF b = None THEN None ELSE home[b] IN
        /\ \A x \in Room :
             /\ host[x] # None => Home(host[x]) # None /\ status[x] \in {"configured", "active"}
             /\ host[x] = None => status[x] = "configured"
             /\ \A y \in Room \ {x} : host[x] # None => host[y] # host[x]
        /\ \A c \in Credential : holder[c] # None => Home(holder[c]) # None
        /\ bots = [b \in Bot |-> [state |-> DocumentOf(home[b]), tenant |-> home[b],
                                  config |-> {}]]
        /\ rooms = [x \in Room |-> [state |-> DocumentOf(host[x]), tenant |-> Home(host[x]),
                                    bot |-> host[x], status |-> status[x], settings |-> {}]]
        /\ credentials = [c \in Credential |-> [state |-> DocumentOf(holder[c]),
                                                tenant |-> Home(holder[c]),
                                                bot |-> holder[c]]]
  BY DEF Init
<1> DEFINE Home(b) == IF b = None THEN None ELSE home[b]
<1>2. \A b \in Bot \cup {None} : Home(b) \in Tenant \cup {None}
  OBVIOUS
<1>3. \A i : DocumentOf(i) \in DocumentState /\ (DocumentOf(i) = "free" => i = None)
  BY DEF DocumentOf, DocumentState
<1>4. DocumentsOK
  BY <1>1, <1>2, <1>3 DEF DocumentsOK, BotDoc, RoomDoc, CredentialDoc
<1>5. Owned
  <2>1. \A b \in Bot : b # None
    BY NoneAssumption
  <2> QED
    BY <1>1, <1>3, <2>1 DEF Owned
<1>6. /\ startup = [b \in Bot |-> [status |-> "none", gen |-> 0]]
      /\ runtime = [b \in Bot |-> None] /\ timers = {} /\ incidents = {}
      /\ promised = [d \in Bot \cup Room |-> {}] /\ request = [r \in Request |-> New]
  BY DEF Init
<1>7. ManagerOK
  BY <1>6 DEF ManagerOK, StartupEntry
<1>8. HistoryOK
  BY <1>6 DEF HistoryOK
<1>9. RequestsOK
  <2> DEFINE p == New
  <2>1. /\ p \in RequestState /\ p.pc = "new" /\ p.route = "none" /\ p.tenant = None
        /\ p.bot = None /\ p.room = None /\ p.credential = None /\ p.shown = {}
    BY DEF New, RequestState, Await, RoomStatus
  <2>2. request = [r \in Request |-> p]
    BY <1>6
  <2> HIDE DEF p
  <2>3. Sane(p) /\ Mine(p)
    BY <2>1 DEF Sane, Mine, RoomAwait, RoomRoute
  <2> QED
    BY <2>1, <2>2, <2>3 DEF RequestsOK
<1> QED
  BY <1>4, <1>5, <1>7, <1>8, <1>9 DEF Inv

LEMMA NextKeepsInv == Inv /\ [Next]_vars => Inv'
<1> SUFFICES ASSUME Inv, [Next]_vars PROVE Inv'
  OBVIOUS
<1>1. CASE Next
  BY <1>1, StepKept DEF Next, Kept
<1>2. CASE UNCHANGED vars
  BY <1>2 DEF vars, documents, manager, history, Inv, DocumentsOK, Owned, ManagerOK,
     HistoryOK, RequestsOK, Mine, Sane
<1> QED
  BY <1>1, <1>2

\* Every reachable state satisfies the invariant, for any tenants, documents and
\* requests, however many of them are in flight.
THEOREM Inductive == Spec => []Inv
<1> QED
  BY InitInv, NextKeepsInv, PTL DEF Spec

\* Documents, manager and handlers keep their shapes, and a handler has what its
\* middlewares attach.
THEOREM TypeInvariant == Spec => []TypeOK
<1> QED
  BY Inductive, InvGivesTypeOK, PTL

\* No request holds, uses or answers what is another tenant's, and no bot is run for a
\* tenant that does not own it or with another bot's credential.
THEOREM IsolationHolds == Spec => []Isolation
<1> QED
  BY Inductive, InvGivesIsolation, PTL

\* No request changes a document of another tenant.
THEOREM WritesInsideHolds == Spec => WritesInside
<1> DEFINE Step == \A r \in Request : request[r] # request'[r] => Inside(request[r].tenant)
<1>1. Inv /\ [Next]_vars => [Step]_vars
  <2> SUFFICES ASSUME Inv, Next PROVE Step
    OBVIOUS
  <2>1. PICK r \in Request : Kept(r)
    BY StepKept DEF Next
  <2> QED
    BY <2>1 DEF Kept
<1>2. Spec => [][Step]_vars
  BY Inductive, <1>1, PTL DEF Spec
<1> QED
  BY <1>2 DEF WritesInside, Inside

-----------------------------------------------------------------------------
(* How the request of a step moves                                         *)

\* Two states of a request that is handled: its route, bot and patch stay.
Same(p, q) == q.route = p.route /\ q.bot = p.bot /\ q.field = p.field

Unmoved(p, q) == Same(p, q) /\ q.room = p.room /\ q.copy = p.copy

Ended(q) == q.pc = "answered" /\ q.route = "none" /\ q.bot = None /\ q.room = None

\* The await of a request that goes on.
Onward == Await \ {"new", "admitted", "answered"}

\* A request is at an await of its route, or its route has none of those.
RoutedOne(p) ==
  /\ p.pc \in StartAwait => p.route \in {"bots.start", "rooms.join"}
  /\ p.pc \in {"stopping", "deleting"} => p.route \in {"bots.stop", "bots.remove"}
  /\ p.pc = "deleting" => p.route = "bots.remove"
  /\ p.pc = "erasing" => p.route = "rooms.remove"
  /\ p.pc = "merging" => p.route = "rooms.update"
  /\ p.route = "bots.update" => p.room = None

LEMMA RoutedEach ==
  /\ Routed <=> \A r \in Request : RoutedOne(request[r])
  /\ Routed' <=> \A r \in Request : RoutedOne(request'[r])
BY DEF Routed, RoutedOne

\* A step of a handler answers, or goes on with what it has; a start may take a room that is
\* there, an update of settings a copy of them.
Moved(p, q) ==
  \/ Ended(q)
  \/ /\ q.pc \in Onward /\ Same(p, q)
     /\ q.room = p.room \/ (p.pc = "listing" /\ rooms[q.room].state = "live")
     /\ q.copy = p.copy \/ q.pc = "merging"

\* Where a request comes from that is at one of these awaits now: a start goes on with its
\* generation, begins, or has found a runtime.
Entered(r) ==
  LET p == request[r]
      q == request'[r] IN
  /\ q.pc = "merging" => ReadSettings(r)
  /\ q.pc = "erasing" => Disarm(r)
  /\ q.pc = "deleting" => Stopped(r)
  /\ q.pc = "stopping" => Stop(r)
  /\ q.pc \in StartAwait =>
       \/ /\ p.pc \in StartAwait /\ q.gen = p.gen
          /\ p.pc = "loading" => bots[p.bot].state = "live"
       \/ StartBegin(r) /\ q.pc = "loading" /\ q.gen = startup[p.bot].gen + 1
       \/ q.gen = startup[p.bot].gen /\ runtime[p.bot] # None

LEMMA EndEntered ==
  ASSUME NEW r \in Request, Ended(request'[r])
  PROVE  Entered(r)
BY DEF Entered, Ended, StartAwait

\* What the ways to go on do to the request.
LEMMA Forms ==
  ASSUME Inv, NEW r \in Request
  PROVE  /\ \A pc \in Await : GoOn(r, pc) =>
              /\ request'[r].pc = pc /\ Unmoved(request[r], request'[r])
              /\ request'[r].gen = request[r].gen
         /\ End(r) => Ended(request'[r])
         /\ \A shown : Show(r, shown) => Ended(request'[r])
<1>1. request \in [Request -> RequestState] /\ request[r] \in RequestState
  BY DEF Inv, RequestsOK
<1>2. ASSUME NEW pc \in Await, GoOn(r, pc)
      PROVE  /\ request'[r].pc = pc /\ Unmoved(request[r], request'[r])
             /\ request'[r].gen = request[r].gen
  <2>1. request'[r] = [request[r] EXCEPT !.pc = pc]
    BY <1>1, <1>2 DEF GoOn
  <2>2. QED BY <1>1, <2>1 DEF RequestState, Unmoved, Same
<1>3. ASSUME End(r) PROVE Ended(request'[r])
  BY <1>1, <1>3 DEF End, Ended, Over, New
<1>4. ASSUME NEW shown, Show(r, shown) PROVE Ended(request'[r])
  BY <1>1, <1>4 DEF Show, Ended, Over, New
<1>5. QED BY <1>2, <1>3, <1>4

\* What Started does to it: it ends, or goes on as joinRoom.
LEMMA StartedForms ==
  ASSUME Inv, NEW r \in Request, NEW owner, NEW gen \in Nat, Started(r, owner, gen)
  PROVE  \/ Ended(request'[r])
         \/ /\ owner # None /\ request[r].route = "rooms.join"
            /\ request'[r].pc = "finding" /\ request'[r].gen = gen
            /\ Unmoved(request[r], request'[r])
<1>1. request \in [Request -> RequestState] /\ request[r] \in RequestState
  BY DEF Inv, RequestsOK
<1>2. request'[r] = IF request[r].route = "rooms.join" /\ owner # None /\ owner = request[r].tenant
                    THEN [request[r] EXCEPT !.pc = "finding", !.gen = gen] ELSE Over
  BY <1>1 DEF Started
<1>3. CASE request'[r] = Over
  BY <1>3 DEF Ended, Over, New
<1>4. CASE /\ request[r].route = "rooms.join" /\ owner # None
           /\ request'[r] = [request[r] EXCEPT !.pc = "finding", !.gen = gen]
  BY <1>1, <1>4 DEF RequestState, Unmoved, Same
<1>5. QED BY <1>2, <1>3, <1>4

\* A runtime that is dropped ends the start.
LEMMA DropForms ==
  ASSUME Inv, NEW r \in Request, request[r].pc \notin {"new", "answered", "admitted"},
         DropRuntime(r) \/ Checked(r)
  PROVE  \/ /\ Ended(request'[r])
            /\ runtime' = [runtime EXCEPT ![request[r].bot] = None]
         \/ /\ request'[r].pc = "activating" /\ Unmoved(request[r], request'[r])
            /\ request'[r].gen = request[r].gen /\ UNCHANGED runtime
<1>1. startup[request[r].bot].gen \in Nat
  BY InBot, EntryFields
<1>2. CASE DropRuntime(r)
  BY <1>1, <1>2, StartedForms DEF DropRuntime
<1>3. CASE ~DropRuntime(r)
  BY <1>3, Forms DEF Checked, Await
<1>4. QED BY <1>2, <1>3

\* The steps that answer.
LEMMA Answers ==
  ASSUME Inv, NEW r \in Request,
         \/ ListBots(r) \/ ListCredentials(r) \/ ListRooms(r) \/ ShowLoaded(r)
         \/ ShowUsage(r) \/ ShowMembers(r) \/ CreateBot(r) \/ CreateCredential(r)
         \/ CreateRoom(r) \/ CreateFails(r) \/ RemoveCredential(r) \/ PatchBot(r)
         \/ PatchRoom(r) \/ RemoveBot(r) \/ NotJoined(r) \/ Called(r) \/ Left(r)
         \/ LeaveFails(r) \/ RemoveRoom(r) \/ LoadFails(r)
  PROVE  Ended(request'[r])
BY Forms DEF ListBots, ListCredentials, ListRooms, ShowLoaded, ShowUsage, ShowMembers,
  CreateBot, CreateCredential, CreateRoom, CreateFails, RemoveCredential, PatchBot,
  PatchRoom, RemoveBot, NotJoined, Called, Left, LeaveFails, RemoveRoom, LoadFails

\* A request goes on, and gathers what it will show, ...
LEMMA ShownForm ==
  ASSUME Inv, NEW r \in Request, NEW pc \in Await, NEW shown,
         request' = [request EXCEPT ![r].pc = pc, ![r].shown = shown]
  PROVE  /\ request'[r].pc = pc /\ Unmoved(request[r], request'[r])
         /\ request'[r].gen = request[r].gen
<1>1. request \in [Request -> RequestState] /\ request[r] \in RequestState
  BY DEF Inv, RequestsOK
<1>2. request'[r] = [request[r] EXCEPT !.pc = pc, !.shown = shown]
  BY <1>1
<1>3. QED BY <1>1, <1>2 DEF RequestState, Unmoved, Same

\* ... takes a credential, ...
LEMMA CredentialForm ==
  ASSUME Inv, NEW r \in Request, NEW pc \in Await, NEW c,
         request' = [request EXCEPT ![r].pc = pc, ![r].credential = c]
  PROVE  /\ request'[r].pc = pc /\ Unmoved(request[r], request'[r])
         /\ request'[r].gen = request[r].gen
<1>1. request \in [Request -> RequestState] /\ request[r] \in RequestState
  BY DEF Inv, RequestsOK
<1>2. request'[r] = [request[r] EXCEPT !.pc = pc, !.credential = c]
  BY <1>1
<1>3. QED BY <1>1, <1>2 DEF RequestState, Unmoved, Same

\* ... gets a generation, ...
LEMMA GenForm ==
  ASSUME Inv, NEW r \in Request, NEW pc \in Await, NEW gen,
         request' = [request EXCEPT ![r].pc = pc, ![r].gen = gen]
  PROVE  /\ request'[r].pc = pc /\ Unmoved(request[r], request'[r])
         /\ request'[r].gen = gen
<1>1. request \in [Request -> RequestState] /\ request[r] \in RequestState
  BY DEF Inv, RequestsOK
<1>2. request'[r] = [request[r] EXCEPT !.pc = pc, !.gen = gen]
  BY <1>1
<1>3. QED BY <1>1, <1>2 DEF RequestState, Unmoved, Same

\* ... takes a room, ...
LEMMA RoomForm ==
  ASSUME Inv, NEW r \in Request, NEW pc \in Await, NEW x,
         request' = [request EXCEPT ![r].pc = pc, ![r].room = x]
  PROVE  /\ request'[r].pc = pc /\ Same(request[r], request'[r])
         /\ request'[r].gen = request[r].gen
         /\ request'[r].room = x /\ request'[r].copy = request[r].copy
<1>1. request \in [Request -> RequestState] /\ request[r] \in RequestState
  BY DEF Inv, RequestsOK
<1>2. request'[r] = [request[r] EXCEPT !.pc = pc, !.room = x]
  BY <1>1
<1>3. QED BY <1>1, <1>2 DEF RequestState, Unmoved, Same

\* ... or reads what it will write.
LEMMA CopyForm ==
  ASSUME Inv, NEW r \in Request, NEW pc \in Await, NEW read,
         request' = [request EXCEPT ![r].pc = pc, ![r].copy = read]
  PROVE  /\ request'[r].pc = pc /\ Same(request[r], request'[r])
         /\ request'[r].gen = request[r].gen
         /\ request'[r].copy = read /\ request'[r].room = request[r].room
<1>1. request \in [Request -> RequestState] /\ request[r] \in RequestState
  BY DEF Inv, RequestsOK
<1>2. request'[r] = [request[r] EXCEPT !.pc = pc, !.copy = read]
  BY <1>1
<1>3. QED BY <1>1, <1>2 DEF RequestState, Unmoved, Same

\* The steps that only go on, or answer.
LEMMA WalksMove ==
  ASSUME Inv, Routed, NEW r \in Request,
         \/ CountUsage(r) \/ Analyze(r) \/ Verified(r) \/ Mark(r) \/ Join(r) \/ Leave(r)
         \/ Disarm(r) \/ Build(r) \/ Stopped(r) \/ Find(r) \/ Confirm(r)
  PROVE  /\ request[r].pc \notin {"new", "answered"}
         /\ Moved(request[r], request'[r]) /\ RoutedOne(request'[r]) /\ Entered(r)
<1>1. RoutedOne(request[r])
  BY RoutedEach
<1>2. request[r].pc \notin {"new", "answered"}
  BY DEF CountUsage, Analyze, Verified, Mark, Join, Leave, Disarm, Build, Stopped, Find,
    Confirm, At
<1>3. CASE End(r)
  BY <1>2, <1>3, Forms, EndEntered DEF Moved, RoutedOne, Ended, StartAwait
<1>4. ASSUME NEW pc \in Onward, GoOn(r, pc),
             pc \in StartAwait => request[r].pc \in StartAwait /\ request[r].pc # "loading",
             pc \notin {"stopping", "merging"},
             pc = "deleting" => Stopped(r) /\ request[r].route = "bots.remove",
             pc = "erasing" => Disarm(r) /\ request[r].route = "rooms.remove"
      PROVE  Moved(request[r], request'[r]) /\ RoutedOne(request'[r]) /\ Entered(r)
  <2>1. /\ request'[r].pc = pc /\ Unmoved(request[r], request'[r])
        /\ request'[r].gen = request[r].gen
    BY <1>4, Forms DEF Onward
  <2>2. Entered(r)
    BY <1>4, <2>1 DEF Entered
  <2>3. QED BY <1>1, <1>4, <2>1, <2>2 DEF Moved, RoutedOne, Unmoved, Same
<1>5. CASE CountUsage(r) \/ Analyze(r) \/ Leave(r)
  BY <1>2, <1>4, <1>5 DEF CountUsage, Analyze, Leave, Onward, Await, StartAwait
<1>6. CASE Verified(r) \/ Mark(r) \/ Join(r) \/ Build(r)
  BY <1>2, <1>4, <1>6 DEF Verified, Mark, Join, Build, Onward, Await, StartAwait
<1>7. CASE Disarm(r)
  BY <1>2, <1>4, <1>7 DEF Disarm, At, Onward, Await, StartAwait
<1>8. CASE Stopped(r) \/ Find(r) \/ Confirm(r)
  BY <1>2, <1>3, <1>4, <1>8 DEF Stopped, Find, Confirm, Onward, Await, StartAwait
<1>9. QED BY <1>5, <1>6, <1>7, <1>8

\* The steps that take something along.
LEMMA TakersMove ==
  ASSUME Inv, Routed, NEW r \in Request,
         \/ GatherRooms(r) \/ ReadSettings(r) \/ ReadAccount(r) \/ CreateAdapter(r)
         \/ Load(r) \/ StartBegin(r) \/ Stop(r)
  PROVE  /\ request[r].pc \notin {"new", "answered"}
         /\ Moved(request[r], request'[r]) /\ RoutedOne(request'[r]) /\ Entered(r)
<1>1. RoutedOne(request[r])
  BY RoutedEach
<1>2. request[r].pc \notin {"new", "answered"}
  BY DEF GatherRooms, ReadSettings, ReadAccount, CreateAdapter, Load, StartBegin, Stop, At
<1>3. CASE End(r)
  BY <1>2, <1>3, Forms, EndEntered DEF Moved, RoutedOne, Ended, StartAwait
<1>4. ASSUME NEW pc \in Onward, request'[r].pc = pc, Entered(r),
             Unmoved(request[r], request'[r])
               \/ (pc = "merging" /\ Same(request[r], request'[r])
                   /\ request'[r].room = request[r].room),
             pc \in StartAwait => request[r].route \in {"bots.start", "rooms.join"},
             pc = "stopping" => request[r].route \in {"bots.stop", "bots.remove"},
             pc = "merging" => request[r].route = "rooms.update",
             pc \notin {"deleting", "erasing"}
      PROVE  Moved(request[r], request'[r]) /\ RoutedOne(request'[r]) /\ Entered(r)
  BY <1>1, <1>4 DEF Moved, RoutedOne, Unmoved, Same
<1>5. CASE GatherRooms(r)
  <2>1. request'[r].pc = "gathering" /\ Unmoved(request[r], request'[r])
    <3> DEFINE shown == RoomsOf(request[r].tenant, request[r].bot)
    <3>1. request' = [request EXCEPT ![r].pc = "gathering", ![r].shown = shown]
      BY <1>5 DEF GatherRooms
    <3> HIDE DEF shown
    <3>2. QED BY <3>1, ShownForm DEF Await
  <2>2. Entered(r)
    BY <2>1 DEF Entered, StartAwait
  <2>3. QED BY <1>2, <1>4, <2>1, <2>2 DEF Onward, Await, StartAwait
<1>6. CASE ReadSettings(r)
  <2>1. /\ request'[r].pc = "merging" /\ Same(request[r], request'[r])
        /\ request'[r].room = request[r].room /\ request[r].route = "rooms.update"
    <3>1. \E copy : request' = [request EXCEPT ![r].pc = "merging", ![r].copy = copy]
      BY <1>6 DEF ReadSettings
    <3>2. request[r].route = "rooms.update"
      BY <1>6 DEF ReadSettings, At
    <3>3. QED BY <3>1, <3>2, CopyForm DEF Await
  <2>2. Entered(r)
    BY <1>6, <2>1 DEF Entered, StartAwait
  <2>3. QED BY <1>2, <1>4, <2>1, <2>2 DEF Onward, Await, StartAwait
<1>7. CASE ReadAccount(r) \/ CreateAdapter(r)
  <2>1. \E pc \in {"adapting", "leaving", "calling"} : WithCredential(r, pc)
    BY <1>7 DEF ReadAccount, CreateAdapter, Needs
  <2>2. PICK pc \in {"adapting", "leaving", "calling"} : WithCredential(r, pc)
    BY <2>1
  <2>3. pc \in Onward /\ pc \in Await /\ pc \notin StartAwait
    BY DEF Onward, Await, StartAwait
  <2>4. CASE ~End(r)
    <3>1. request'[r].pc = pc /\ Unmoved(request[r], request'[r])
      BY <2>2, <2>3, <2>4, CredentialForm DEF WithCredential
    <3>2. Entered(r)
      BY <2>2, <2>3, <3>1 DEF Entered
    <3>3. QED BY <1>2, <1>4, <2>2, <2>3, <3>1, <3>2
  <2>5. QED BY <1>2, <1>3, <2>4
<1>8. CASE Load(r)
  <2>1. /\ request'[r].pc = "building" /\ Unmoved(request[r], request'[r])
        /\ request'[r].gen = request[r].gen
    BY <1>8, CredentialForm DEF Load, Await
  <2>2. request[r].route \in {"bots.start", "rooms.join"}
    BY <1>1, <1>8 DEF Load, RoutedOne, StartAwait
  <2>3. Entered(r)
    BY <1>8, <2>1 DEF Load, FindBot, Entered, StartAwait
  <2>4. QED BY <1>2, <1>4, <2>1, <2>2, <2>3 DEF Onward, Await, StartAwait
<1>9. CASE StartBegin(r)
  <2>1. /\ request'[r].pc = "loading" /\ Unmoved(request[r], request'[r])
        /\ request'[r].gen = startup[request[r].bot].gen + 1
    BY <1>9, GenForm DEF StartBegin, Await
  <2>2. request[r].route \in {"bots.start", "rooms.join"}
    BY <1>9 DEF StartBegin
  <2>3. Entered(r)
    BY <1>9, <2>1 DEF Entered, StartAwait
  <2>4. QED BY <1>2, <1>4, <2>1, <2>2, <2>3 DEF Onward, Await, StartAwait
<1>10. CASE Stop(r)
  <2>1. request'[r].pc = "stopping" /\ Unmoved(request[r], request'[r])
    BY <1>10, GenForm DEF Stop, Await
  <2>2. request[r].route \in {"bots.stop", "bots.remove"}
    BY <1>10 DEF Stop
  <2>3. Entered(r)
    BY <1>10, <2>1 DEF Entered, StartAwait
  <2>4. QED BY <1>2, <1>4, <2>1, <2>2, <2>3 DEF Onward, Await, StartAwait
<1>11. QED BY <1>5, <1>6, <1>7, <1>8, <1>9, <1>10

\* The steps of a start that may be told to give up.
LEMMA StartsMove ==
  ASSUME Inv, Routed, NEW r \in Request,
         \/ StartAgain(r) \/ GiveUp(r) \/ Activate(r)
         \/ ListForStart(r) \/ NotVerified(r) \/ Reconfirm(r) \/ Arm(r)
  PROVE  /\ request[r].pc \notin {"new", "answered"}
         /\ Moved(request[r], request'[r]) /\ RoutedOne(request'[r]) /\ Entered(r)
<1>1. RoutedOne(request[r])
  BY RoutedEach
<1>2. request[r].pc \notin {"new", "answered"}
  BY DEF StartAgain, GiveUp, Activate, ListForStart, NotVerified, Reconfirm, Arm
<1>3. CASE Ended(request'[r])
  BY <1>2, <1>3, EndEntered DEF Moved, RoutedOne, Ended, StartAwait
<1>4. CASE StartAgain(r) \/ GiveUp(r) \/ Activate(r)
  <2>1. request[r].bot \in Bot
    BY <1>2, <1>4, InBot DEF StartAgain, GiveUp, Activate, TenantRoute
  <2>2. startup[request[r].bot].gen \in Nat
    BY <2>1, EntryFields
  <2>3. Started(r, runtime[request[r].bot], startup[request[r].bot].gen)
    BY <1>4 DEF StartAgain, GiveUp, Activate
  <2>4. CASE /\ request[r].route = "rooms.join" /\ request'[r].pc = "finding"
             /\ request'[r].gen = startup[request[r].bot].gen
             /\ runtime[request[r].bot] # None /\ Unmoved(request[r], request'[r])
    <3>1. Entered(r)
      BY <2>4 DEF Entered, StartAwait
    <3>2. QED BY <1>1, <1>2, <2>4, <3>1 DEF Moved, RoutedOne, Unmoved, Same, Onward, Await,
            StartAwait
  <2>5. QED BY <1>3, <2>2, <2>3, <2>4, StartedForms
<1>5. ASSUME request[r].pc \in StartAwait, request[r].pc # "loading",
             request'[r].gen = request[r].gen, NEW pc \in StartAwait, request'[r].pc = pc,
             Same(request[r], request'[r]), request'[r].copy = request[r].copy,
             \/ request'[r].room = request[r].room
             \/ request[r].pc = "listing" /\ rooms[request'[r].room].state = "live"
      PROVE  Moved(request[r], request'[r]) /\ RoutedOne(request'[r]) /\ Entered(r)
  <2>1. pc \in Onward
    BY DEF StartAwait, Onward, Await
  <2>2. request[r].route \in {"bots.start", "rooms.join"}
    BY <1>1, <1>5 DEF RoutedOne
  <2>3. pc \notin {"stopping", "deleting", "erasing", "merging"}
    BY DEF StartAwait
  <2>4. Entered(r)
    BY <1>5, <2>3 DEF Entered
  <2>5. QED BY <1>5, <2>1, <2>2, <2>3, <2>4 DEF Moved, RoutedOne, Same
<1>6. ASSUME DropRuntime(r) \/ Checked(r), request[r].pc \in StartAwait,
             request[r].pc # "loading"
      PROVE  Moved(request[r], request'[r]) /\ RoutedOne(request'[r]) /\ Entered(r)
  <2>1. request[r].pc \notin {"new", "answered", "admitted"}
    BY <1>6 DEF StartAwait
  <2>2. CASE /\ request'[r].pc = "activating" /\ Unmoved(request[r], request'[r])
             /\ request'[r].gen = request[r].gen
    BY <1>5, <1>6, <2>2 DEF Unmoved, StartAwait
  <2>3. QED BY <1>3, <1>6, <2>1, <2>2, DropForms
<1>7. CASE NotVerified(r)
  BY <1>2, <1>6, <1>7 DEF NotVerified, StartAwait
<1>8. CASE Reconfirm(r)
  <2>1. CASE GoOn(r, "repinging")
    <3>1. /\ request'[r].pc = "repinging" /\ Unmoved(request[r], request'[r])
          /\ request'[r].gen = request[r].gen
      BY <2>1, Forms DEF Await
    <3>2. QED BY <1>2, <1>5, <1>8, <3>1 DEF Reconfirm, Unmoved, StartAwait
  <2>2. QED BY <1>2, <1>6, <1>8, <2>1 DEF Reconfirm, StartAwait
<1>9. CASE Arm(r)
  BY <1>2, <1>3, <1>6, <1>9, Forms DEF Arm, StartAwait
<1>10. CASE ListForStart(r)
  <2>1. CASE DropRuntime(r)
    BY <1>2, <1>6, <1>10, <2>1 DEF ListForStart, StartAwait
  <2>2. CASE GoOn(r, "activating")
    <3>1. /\ request'[r].pc = "activating" /\ Unmoved(request[r], request'[r])
          /\ request'[r].gen = request[r].gen
      BY <2>2, Forms DEF Await
    <3>2. QED BY <1>2, <1>5, <1>10, <3>1 DEF ListForStart, Unmoved, StartAwait
  <2>3. ASSUME NEW x \in RoomsOf(request[r].tenant, request[r].bot),
               request' = [request EXCEPT ![r].pc = "verifying", ![r].room = x]
        PROVE  Moved(request[r], request'[r]) /\ RoutedOne(request'[r]) /\ Entered(r)
    <3>1. /\ request'[r].pc = "verifying" /\ Same(request[r], request'[r])
          /\ request'[r].copy = request[r].copy /\ request'[r].gen = request[r].gen
          /\ request'[r].room = x
      BY <2>3, RoomForm DEF Await
    <3>2. rooms[x].state = "live"
      BY <2>3 DEF RoomsOf, FindRoom
    <3>3. QED BY <1>2, <1>5, <1>10, <3>1, <3>2 DEF ListForStart, StartAwait
  <2>4. QED BY <1>2, <1>10, <2>1, <2>2, <2>3 DEF ListForStart
<1>11. QED BY <1>4, <1>7, <1>8, <1>9, <1>10

\* Every step of a handler moves its request so.
LEMMA HandlersMove ==
  ASSUME Inv, Routed, NEW r \in Request, Handle(r) \/ Start(r)
  PROVE  /\ request[r].pc \notin {"new", "answered"}
         /\ Moved(request[r], request'[r]) /\ RoutedOne(request'[r]) /\ Entered(r)
<1>1. CASE \/ ListBots(r) \/ ListCredentials(r) \/ ListRooms(r) \/ ShowLoaded(r)
           \/ ShowUsage(r) \/ ShowMembers(r) \/ CreateBot(r) \/ CreateCredential(r)
           \/ CreateRoom(r) \/ CreateFails(r) \/ RemoveCredential(r) \/ PatchBot(r)
           \/ PatchRoom(r) \/ RemoveBot(r) \/ NotJoined(r) \/ Called(r) \/ Left(r)
           \/ LeaveFails(r) \/ RemoveRoom(r) \/ LoadFails(r)
  <2>1. Ended(request'[r])
    BY <1>1, Answers
  <2>2. request[r].pc \notin {"new", "answered"}
    BY <1>1 DEF ListBots, ListCredentials, ListRooms, ShowLoaded, ShowUsage, ShowMembers,
      CreateBot, CreateCredential, CreateRoom, CreateFails, RemoveCredential, PatchBot,
      PatchRoom, RemoveBot, NotJoined, Called, Left, LeaveFails, RemoveRoom, LoadFails, At
  <2>3. QED BY <2>1, <2>2, EndEntered DEF Moved, RoutedOne, Ended, StartAwait
<1>2. QED BY <1>1, WalksMove, TakersMove, StartsMove DEF Handle, Start

-----------------------------------------------------------------------------
(* Who meets whom                                                          *)

\* A request that is let through.
LEMMA Enters ==
  ASSUME Inv, NEW r \in Request, Admit(r)
  PROVE  \E p : /\ Enter(r, p) /\ request'[r] = p /\ p.pc = "admitted"
                /\ p.route = "bots.update" =>
                     p.room = None /\ p.bot \in Bot /\ p.copy = bots[p.bot].config
                /\ p.room # None => rooms[p.room].state = "live"
<1>0. ASSUME NEW p, Enter(r, p) PROVE request'[r] = p
  BY <1>0 DEF Enter, Inv, RequestsOK
<1>1. PICK t \in Tenant :
        AdmitTenant(r, t) \/ AdmitBot(r, t) \/ AdmitRoom(r, t) \/ AdmitCredential(r, t)
  BY DEF Admit
<1>2. ASSUME NEW p, Enter(r, p), p.pc = "admitted", p.route # "bots.update",
             p.room # None => rooms[p.room].state = "live"
      PROVE  \E q : /\ Enter(r, q) /\ request'[r] = q /\ q.pc = "admitted"
                    /\ q.route = "bots.update" =>
                         q.room = None /\ q.bot \in Bot /\ q.copy = bots[q.bot].config
                    /\ q.room # None => rooms[q.room].state = "live"
  BY <1>0, <1>2
<1>3. \A route : /\ Authenticated(t, route).pc = "admitted"
                 /\ Authenticated(t, route).route = route
                 /\ Authenticated(t, route).room = None
  BY DEF Authenticated, New
<1>4. CASE AdmitTenant(r, t)
  <2>1. PICK route \in {"bots.list", "bots.create"} : Enter(r, Authenticated(t, route))
    BY <1>4 DEF AdmitTenant
  <2>2. QED BY <1>2, <1>3, <2>1
<1>5. CASE AdmitBot(r, t)
  <2>1. PICK b \in BotsOf(t) :
          \/ \E route \in BotRoute : Enter(r, [Authenticated(t, route) EXCEPT !.bot = b])
          \/ \E f \in Field :
               Enter(r, [Authenticated(t, "bots.update") EXCEPT
                           !.bot = b, !.field = f, !.copy = bots[b].config])
    BY <1>5 DEF AdmitBot
  <2>2. b \in Bot
    BY FoundIsOwn
  <2>3. ASSUME NEW route \in BotRoute, Enter(r, [Authenticated(t, route) EXCEPT !.bot = b])
        PROVE  \E p : /\ Enter(r, p) /\ request'[r] = p /\ p.pc = "admitted"
                      /\ p.route = "bots.update" =>
                           p.room = None /\ p.bot \in Bot /\ p.copy = bots[p.bot].config
                      /\ p.room # None => rooms[p.room].state = "live"
    <3>1. /\ [Authenticated(t, route) EXCEPT !.bot = b].pc = "admitted"
          /\ [Authenticated(t, route) EXCEPT !.bot = b].route = route
          /\ [Authenticated(t, route) EXCEPT !.bot = b].room = None
      BY DEF Authenticated, New
    <3>2. route # "bots.update"
      BY DEF BotRoute
    <3>3. QED BY <1>2, <2>3, <3>1, <3>2
  <2>4. ASSUME NEW f \in Field,
               Enter(r, [Authenticated(t, "bots.update") EXCEPT
                           !.bot = b, !.field = f, !.copy = bots[b].config])
        PROVE  \E p : /\ Enter(r, p) /\ request'[r] = p /\ p.pc = "admitted"
                      /\ p.route = "bots.update" =>
                           p.room = None /\ p.bot \in Bot /\ p.copy = bots[p.bot].config
                      /\ p.room # None => rooms[p.room].state = "live"
    <3> DEFINE config == bots[b].config
               p == [Authenticated(t, "bots.update") EXCEPT
                       !.bot = b, !.field = f, !.copy = config]
    <3>1. Enter(r, p)
      BY <2>4
    <3> HIDE DEF config
    <3>2. p.pc = "admitted" /\ p.room = None /\ p.bot = b /\ p.copy = config
      BY DEF Authenticated, New
    <3> HIDE DEF p
    <3>3. QED BY <1>0, <2>2, <3>1, <3>2 DEF config
  <2>5. QED BY <2>1, <2>3, <2>4
<1>6. CASE AdmitRoom(r, t)
  <2>1. PICK b \in BotsOf(t), x \in Room :
          /\ rooms[x].state = "live"
          /\ \/ \E route \in RoomRoute :
                  Enter(r, [Authenticated(t, route) EXCEPT
                              !.bot = b, !.room = x, !.was = rooms[x].status])
             \/ \E f \in Field :
                  Enter(r, [Authenticated(t, "rooms.update") EXCEPT
                              !.bot = b, !.room = x, !.field = f])
    BY <1>6 DEF AdmitRoom, FindRoom
  <2>2. ASSUME NEW route \in RoomRoute, NEW was
        PROVE  LET p == [Authenticated(t, route) EXCEPT !.bot = b, !.room = x, !.was = was]
               IN  p.pc = "admitted" /\ p.route # "bots.update" /\ p.room = x
    BY DEF Authenticated, New, RoomRoute
  <2>3. ASSUME NEW f \in Field
        PROVE  LET p == [Authenticated(t, "rooms.update") EXCEPT !.bot = b, !.room = x, !.field = f]
               IN  p.pc = "admitted" /\ p.route # "bots.update" /\ p.room = x
    BY DEF Authenticated, New
  <2>4. QED BY <1>2, <2>1, <2>2, <2>3
<1>7. CASE AdmitCredential(r, t)
  <2>1. PICK b \in BotsOf(t), c \in Credential :
          Enter(r, [Authenticated(t, "credentials.remove") EXCEPT !.bot = b, !.credential = c])
    BY <1>7 DEF AdmitCredential
  <2>2. LET p == [Authenticated(t, "credentials.remove") EXCEPT !.bot = b, !.credential = c]
        IN  p.pc = "admitted" /\ p.route # "bots.update" /\ p.room = None
    BY DEF Authenticated, New
  <2>3. QED BY <1>2, <2>1, <2>2
<1>8. QED BY <1>1, <1>4, <1>5, <1>6, <1>7

\* What has been noted stays noted.
LEMMA IncidentsGrow ==
  ASSUME NEW r \in Request, Admit(r) \/ Handle(r) \/ Start(r)
  PROVE  incidents \subseteq incidents'
<1>1. CASE Admit(r)
  BY <1>1 DEF Admit, AdmitTenant, AdmitBot, AdmitRoom, AdmitCredential, Enter
<1>2. CASE Handle(r)
  BY <1>2 DEF Handle, history, ListBots, ListCredentials, ListRooms, ShowLoaded, ShowUsage,
    CountUsage, GatherRooms, ShowMembers, CreateBot, CreateCredential, CreateRoom,
    CreateFails, RemoveCredential, PatchBot, ReadSettings, PatchRoom, Stop, Stopped,
    RemoveBot, ReadAccount, CreateAdapter, NotJoined, Called, Analyze, Leave, Left,
    LeaveFails, Disarm, RemoveRoom
<1>3. CASE Start(r)
  BY <1>3 DEF Start, history, StartAgain, StartBegin, Load, LoadFails, Build, GiveUp,
    ListForStart, Verified, NotVerified, Reconfirm, Activate, Find, Mark, Join, Confirm, Arm
<1>4. QED BY <1>1, <1>2, <1>3

\* A document that an update or a removal of a room is about.
LEMMA TargetIsDocument ==
  ASSUME Inv, NEW r \in Request, InFlight(r),
         request[r].route \in {"bots.update", "rooms.update", "rooms.remove"}
  PROVE  /\ Target(request[r]) \in Bot \cup Room
         /\ request[r].route # "bots.update" =>
              request[r].room \in Room /\ Target(request[r]) = request[r].room
<1>1. request[r].bot \in Bot
  BY InBot DEF InFlight, TenantRoute
<1>2. request[r].room \in Room \cup {None}
  BY RequestFields
<1>3. request[r].route # "bots.update" => request[r].room \in Room
  BY RequestFields DEF Sane, RoomRoute
<1>4. QED BY <1>1, <1>2, <1>3, NoneAssumption DEF Target

\* Every step keeps the notes of the meetings.
LEMMA MeetingsStep ==
  ASSUME Inv, Routed, MeetingsNoted, NEW r \in Request, Admit(r) \/ Handle(r) \/ Start(r)
  PROVE  Routed' /\ MeetingsNoted'
<1>k. Kept(r)
  BY StepKept
<1>1. \A q \in Request \ {r} : request'[q] = request[q]
  BY <1>k DEF Kept
<1>2. incidents \subseteq incidents'
  BY IncidentsGrow
<1>3. CASE Admit(r)
  <2>1. PICK p : /\ Enter(r, p) /\ request'[r] = p /\ p.pc = "admitted"
                 /\ p.route = "bots.update" => p.room = None
    BY <1>3, Enters
  <2>2. Routed'
    <3>1. RoutedOne(p)
      BY <2>1 DEF RoutedOne, StartAwait
    <3>2. QED BY <1>1, <2>1, <3>1, RoutedEach
  <2>3. ASSUME NEW q \in Request \ {r}, NEW k \in Incident, InFlight(q),
               Disturbs(k, p, request[q])
        PROVE  <<k, Target(p)>> \in incidents'
    <3>1. Inv' /\ InFlight(r)'
      BY <1>k, <2>1 DEF Kept, InFlight
    <3>2. p.route \in {"bots.update", "rooms.update", "rooms.remove"}
      BY <2>3 DEF Disturbs
    <3>3. p \in RequestState /\ Sane(p)
      BY <2>1, <3>1 DEF Inv, RequestsOK
    <3>4. Target(p) \in Bot \cup Room
      <4>1. p.bot \in Bot
        BY <2>1, <3>2, <3>3 DEF Sane, TenantRoute
      <4>2. p.room \in Room \cup {None}
        BY <3>3 DEF RequestState
      <4>3. QED BY <4>1, <4>2 DEF Target
    <3>5. <<k, Target(p)>> \in Meetings(r, p)
      BY <2>3, <3>4 DEF Meetings
    <3>6. QED BY <2>1, <3>5 DEF Enter
  <2>4. ASSUME NEW q \in Request \ {r}, NEW k \in Incident, InFlight(q),
               Disturbs(k, request[q], p)
        PROVE  <<k, Target(request[q])>> \in incidents'
    <3>1. request[q].route \in {"bots.update", "rooms.update", "rooms.remove"}
      BY <2>4 DEF Disturbs
    <3>2. Target(request[q]) \in Bot \cup Room
      BY <2>4, <3>1, TargetIsDocument
    <3>3. <<k, Target(request[q])>> \in Meetings(r, p)
      BY <2>4, <3>2 DEF Meetings
    <3>4. QED BY <2>1, <3>3 DEF Enter
  <2>5. MeetingsNoted'
    <3>1. SUFFICES ASSUME NEW a \in Request, NEW q \in Request, NEW k \in Incident, a # q,
                          InFlight(a)', InFlight(q)', Disturbs(k, request'[a], request'[q])
                   PROVE  <<k, Target(request'[a])>> \in incidents'
      BY DEF MeetingsNoted
    <3>2. CASE a = r
      BY <1>1, <2>1, <2>3, <3>1, <3>2 DEF InFlight
    <3>3. CASE q = r
      BY <1>1, <2>1, <2>4, <3>1, <3>3 DEF InFlight
    <3>4. CASE a # r /\ q # r
      BY <1>1, <1>2, <3>1, <3>4 DEF InFlight, MeetingsNoted
    <3>5. QED BY <3>2, <3>3, <3>4
  <2>6. QED BY <2>2, <2>5
<1>4. CASE Handle(r) \/ Start(r)
  <2>1. /\ request[r].pc \notin {"new", "answered"} /\ Moved(request[r], request'[r])
        /\ RoutedOne(request'[r])
    BY <1>4, HandlersMove
  <2>2. Routed'
    BY <1>1, <2>1, RoutedEach
  <2>3. request[r].pc = "listing" => request[r].route \in {"bots.start", "rooms.join"}
    BY RoutedEach DEF RoutedOne, StartAwait
  <2>4. \A q \in Request : InFlight(q)' =>
          /\ InFlight(q) /\ Same(request[q], request'[q])
          /\ request[q].route \in {"bots.update", "rooms.update", "rooms.remove"} =>
               Target(request'[q]) = Target(request[q])
    BY <1>1, <2>1, <2>3 DEF InFlight, Moved, Same, Ended, Target
  <2>5. MeetingsNoted'
    <3>1. SUFFICES ASSUME NEW a \in Request, NEW q \in Request, NEW k \in Incident, a # q,
                          InFlight(a)', InFlight(q)', Disturbs(k, request'[a], request'[q])
                   PROVE  <<k, Target(request'[a])>> \in incidents'
      BY DEF MeetingsNoted
    <3>2. /\ Disturbs(k, request[a], request[q]) /\ InFlight(a) /\ InFlight(q)
          /\ Target(request'[a]) = Target(request[a])
      BY <2>4, <3>1 DEF Disturbs, Same
    <3>3. QED BY <1>2, <3>1, <3>2 DEF MeetingsNoted
  <2>6. QED BY <2>2, <2>5
<1>5. QED BY <1>3, <1>4

-----------------------------------------------------------------------------
(* Who writes what                                                         *)

\* The steps that write bots, ...
LEMMA BotsWritten ==
  ASSUME NEW r \in Request, Admit(r) \/ Handle(r) \/ Start(r)
  PROVE  UNCHANGED bots \/ CreateBot(r) \/ PatchBot(r) \/ RemoveBot(r)
<1>1. CASE Admit(r)
  BY <1>1 DEF Admit, AdmitTenant, AdmitBot, AdmitRoom, AdmitCredential, Enter, documents
<1>2. CASE Handle(r)
  BY <1>2 DEF Handle, documents, ListBots, ListCredentials, ListRooms, ShowLoaded, ShowUsage,
    CountUsage, GatherRooms, ShowMembers, CreateCredential, CreateRoom,
    CreateFails, RemoveCredential, ReadSettings, PatchRoom, Stop, Stopped,
    ReadAccount, CreateAdapter, NotJoined, Called, Analyze, Leave, Left,
    LeaveFails, Disarm, RemoveRoom
<1>3. CASE Start(r)
  BY <1>3 DEF Start, documents, StartAgain, StartBegin, Load, LoadFails, Build, GiveUp,
    ListForStart, Verified, NotVerified, Reconfirm, Activate, Find, Mark, Join, Confirm, Arm
<1>4. QED BY <1>1, <1>2, <1>3

\* ... rooms, ...
LEMMA RoomsWritten ==
  ASSUME NEW r \in Request, Admit(r) \/ Handle(r) \/ Start(r)
  PROVE  \/ UNCHANGED rooms \/ CreateRoom(r) \/ PatchRoom(r) \/ RemoveRoom(r)
         \/ \E status \in RoomStatus : UpdateRoomStatus(request[r].tenant, request[r].room, status)
<1>1. CASE Admit(r)
  BY <1>1 DEF Admit, AdmitTenant, AdmitBot, AdmitRoom, AdmitCredential, Enter, documents
<1>2. CASE Handle(r)
  BY <1>2 DEF Handle, documents, ListBots, ListCredentials, ListRooms, ShowLoaded, ShowUsage,
    CountUsage, GatherRooms, ShowMembers, CreateBot, CreateCredential,
    CreateFails, RemoveCredential, PatchBot, ReadSettings, Stop, Stopped, RemoveBot,
    ReadAccount, CreateAdapter, NotJoined, Called, Analyze, Leave, Left,
    LeaveFails, Disarm, RoomStatus
<1>3. CASE Start(r)
  BY <1>3 DEF Start, documents, StartAgain, StartBegin, Load, LoadFails, Build, GiveUp,
    ListForStart, Verified, NotVerified, Reconfirm, Activate, Find, Mark, Join, Confirm, Arm,
    RoomStatus
<1>4. QED BY <1>1, <1>2, <1>3

\* ... answer an update, ...
LEMMA PromisesWritten ==
  ASSUME NEW r \in Request, Admit(r) \/ Handle(r) \/ Start(r)
  PROVE  UNCHANGED promised \/ PatchBot(r) \/ PatchRoom(r)
<1>1. CASE Admit(r)
  BY <1>1 DEF Admit, AdmitTenant, AdmitBot, AdmitRoom, AdmitCredential, Enter
<1>2. CASE Handle(r)
  BY <1>2 DEF Handle, history, ListBots, ListCredentials, ListRooms, ShowLoaded, ShowUsage,
    CountUsage, GatherRooms, ShowMembers, CreateBot, CreateCredential, CreateRoom,
    CreateFails, RemoveCredential, ReadSettings, Stop, Stopped,
    RemoveBot, ReadAccount, CreateAdapter, NotJoined, Called, Analyze, Leave, Left,
    LeaveFails, Disarm, RemoveRoom
<1>3. CASE Start(r)
  BY <1>3 DEF Start, history, StartAgain, StartBegin, Load, LoadFails, Build, GiveUp,
    ListForStart, Verified, NotVerified, Reconfirm, Activate, Find, Mark, Join, Confirm, Arm
<1>4. QED BY <1>1, <1>2, <1>3

\* ... and the maps of the manager.
LEMMA StartupWritten ==
  ASSUME NEW r \in Request, Admit(r) \/ Handle(r) \/ Start(r)
  PROVE  \/ UNCHANGED startup \/ StartBegin(r) \/ LoadFails(r) \/ Stop(r)
         \/ \E status \in {"active", "stopped"} :
              startup' = [startup EXCEPT ![request[r].bot].status = status]
<1>1. CASE Admit(r)
  BY <1>1 DEF Admit, AdmitTenant, AdmitBot, AdmitRoom, AdmitCredential, Enter, manager
<1>2. CASE Handle(r)
  BY <1>2 DEF Handle, manager, ListBots, ListCredentials, ListRooms, ShowLoaded, ShowUsage,
    CountUsage, GatherRooms, ShowMembers, CreateBot, CreateCredential, CreateRoom,
    CreateFails, RemoveCredential, PatchBot, ReadSettings, PatchRoom, Stopped,
    RemoveBot, ReadAccount, CreateAdapter, NotJoined, Called, Analyze, Leave, Left,
    LeaveFails, Disarm, RemoveRoom
<1>3. CASE Start(r)
  BY <1>3 DEF Start, manager, StartAgain, Load, Build, GiveUp,
    ListForStart, Verified, NotVerified, Reconfirm, Activate, Find, Mark, Join, Confirm, Arm
<1>4. QED BY <1>1, <1>2, <1>3

LEMMA RuntimeWritten ==
  ASSUME NEW r \in Request, Admit(r) \/ Handle(r) \/ Start(r)
  PROVE  \/ UNCHANGED runtime \/ Build(r)
         \/ runtime' = [runtime EXCEPT ![request[r].bot] = None]
<1>1. CASE Admit(r)
  BY <1>1 DEF Admit, AdmitTenant, AdmitBot, AdmitRoom, AdmitCredential, Enter, manager
<1>2. CASE Handle(r)
  BY <1>2 DEF Handle, manager, ListBots, ListCredentials, ListRooms, ShowLoaded, ShowUsage,
    CountUsage, GatherRooms, ShowMembers, CreateBot, CreateCredential, CreateRoom,
    CreateFails, RemoveCredential, PatchBot, ReadSettings, PatchRoom, Stop, Stopped,
    RemoveBot, ReadAccount, CreateAdapter, NotJoined, Called, Analyze, Leave, Left,
    LeaveFails, Disarm, RemoveRoom
<1>3. CASE Start(r)
  BY <1>3 DEF Start, manager, StartAgain, StartBegin, Load, LoadFails, GiveUp, DropRuntime,
    Checked, ListForStart, Verified, NotVerified, Reconfirm, Activate, Find, Mark, Join,
    Confirm, Arm
<1>4. QED BY <1>1, <1>2, <1>3

LEMMA TimersWritten ==
  ASSUME NEW r \in Request, Admit(r) \/ Handle(r) \/ Start(r)
  PROVE  timers' \subseteq timers \/ Arm(r)
<1>1. CASE Admit(r)
  BY <1>1 DEF Admit, AdmitTenant, AdmitBot, AdmitRoom, AdmitCredential, Enter, manager
<1>2. CASE Handle(r)
  BY <1>2 DEF Handle, manager, ListBots, ListCredentials, ListRooms, ShowLoaded, ShowUsage,
    CountUsage, GatherRooms, ShowMembers, CreateBot, CreateCredential, CreateRoom,
    CreateFails, RemoveCredential, PatchBot, ReadSettings, PatchRoom, Stop, Stopped,
    RemoveBot, ReadAccount, CreateAdapter, NotJoined, Called, Analyze, Leave, Left,
    LeaveFails, Disarm, RemoveRoom
<1>3. CASE Start(r)
  BY <1>3 DEF Start, manager, StartAgain, StartBegin, Load, LoadFails, Build, GiveUp,
    ListForStart, Verified, NotVerified, Reconfirm, Activate, Find, Mark, Join, Confirm
<1>4. QED BY <1>1, <1>2, <1>3

\* What that does to a bot: only its update changes what is set, and no other step than
\* its removal takes it away.
LEMMA BotChanges ==
  ASSUME Inv, NEW r \in Request, Admit(r) \/ Handle(r) \/ Start(r), NEW b \in Bot
  PROVE  /\ bots'[b].state = "live" => bots[b].state \in {"live", "free"}
         /\ bots[b].state = "gone" => bots'[b].state = "gone"
         /\ bots'[b].state = "gone" =>
              bots[b].state = "gone" \/ (RemoveBot(r) /\ b = request[r].bot)
         /\ \/ bots[b].state = "free"
            \/ bots'[b].config = bots[b].config
            \/ PatchBot(r) /\ b = request[r].bot
<1>1. bots \in [Bot -> BotDoc] /\ bots[b] \in BotDoc /\ bots[b].state \in {"live", "free", "gone"}
  BY DEF Inv, DocumentsOK, BotDoc, DocumentState
<1>2. CASE UNCHANGED bots
  BY <1>1, <1>2
<1>3. CASE CreateBot(r)
  <2>1. PICK c \in Bot : InsertBot(request[r].tenant, c)
    BY <1>3 DEF CreateBot
  <2>2. CASE b = c
    BY <1>1, <2>1, <2>2 DEF InsertBot
  <2>3. CASE b # c
    BY <1>1, <2>1, <2>3 DEF InsertBot
  <2>4. QED BY <2>2, <2>3
<1>4. CASE PatchBot(r)
  <2>1. PICK config : UpdateBot(request[r].tenant, request[r].bot, config)
    BY <1>4 DEF PatchBot
  <2>2. bots'[b].state = bots[b].state /\ (bots'[b].config = bots[b].config \/ b = request[r].bot)
    BY <1>1, <2>1 DEF UpdateBot, BotDoc
  <2>3. QED BY <1>1, <1>4, <2>2
<1>5. CASE RemoveBot(r)
  <2>1. DeleteBot(request[r].tenant, request[r].bot)
    BY <1>5 DEF RemoveBot
  <2>2. CASE bots' = bots
    BY <1>1, <2>2
  <2>3. CASE /\ bots' = [bots EXCEPT ![request[r].bot].state = "gone"]
             /\ FindBot(request[r].tenant, request[r].bot)
    <3>1. CASE b = request[r].bot
      <4>1. bots'[b] = [bots[b] EXCEPT !.state = "gone"] /\ bots[b].state = "live"
        BY <1>1, <2>3, <3>1 DEF FindBot
      <4>2. bots'[b].state = "gone" /\ bots'[b].config = bots[b].config
        BY <1>1, <4>1 DEF BotDoc
      <4>3. QED BY <1>5, <3>1, <4>1, <4>2
    <3>2. CASE b # request[r].bot
      BY <1>1, <2>3, <3>2
    <3>3. QED BY <3>1, <3>2
  <2>4. QED BY <2>1, <2>2, <2>3 DEF DeleteBot
<1>6. QED BY <1>2, <1>3, <1>4, <1>5, BotsWritten

\* The same for a room.
LEMMA RoomChanges ==
  ASSUME Inv, NEW r \in Request, Admit(r) \/ Handle(r) \/ Start(r), NEW x \in Room
  PROVE  /\ rooms'[x].state = "live" => rooms[x].state \in {"live", "free"}
         /\ rooms[x].state = "gone" => rooms'[x].state = "gone"
         /\ rooms[x].state # rooms'[x].state =>
              rooms[x].state = "free" \/ (RemoveRoom(r) /\ x = request[r].room)
         /\ \/ rooms[x].state = "free"
            \/ rooms'[x].settings = rooms[x].settings
            \/ PatchRoom(r) /\ x = request[r].room
<1>1. /\ rooms \in [Room -> RoomDoc] /\ rooms[x] \in RoomDoc
      /\ rooms[x].state \in {"live", "free", "gone"}
  BY DEF Inv, DocumentsOK, RoomDoc, DocumentState
<1>2. CASE UNCHANGED rooms
  BY <1>1, <1>2
<1>3. CASE CreateRoom(r)
  <2>1. PICK y \in Room : InsertRoom(request[r].tenant, request[r].bot, y)
    BY <1>3 DEF CreateRoom
  <2>2. CASE x = y
    BY <1>1, <2>1, <2>2 DEF InsertRoom
  <2>3. CASE x # y
    BY <1>1, <2>1, <2>3 DEF InsertRoom
  <2>4. QED BY <2>2, <2>3
<1>4. CASE PatchRoom(r)
  <2>1. PICK settings : UpdateSettings(request[r].tenant, request[r].room, settings)
    BY <1>4 DEF PatchRoom
  <2>2. /\ rooms'[x].state = rooms[x].state
        /\ rooms'[x].settings = rooms[x].settings \/ x = request[r].room
    BY <1>1, <2>1 DEF UpdateSettings, RoomDoc
  <2>3. QED BY <1>1, <1>4, <2>2
<1>5. CASE RemoveRoom(r)
  <2>1. DeleteRoom(request[r].tenant, request[r].room)
    BY <1>5 DEF RemoveRoom
  <2>2. CASE rooms' = rooms
    BY <1>1, <2>2
  <2>3. CASE /\ rooms' = [rooms EXCEPT ![request[r].room].state = "gone"]
             /\ rooms[request[r].room].state = "live"
    <3>1. CASE x = request[r].room
      <4>1. rooms'[x] = [rooms[x] EXCEPT !.state = "gone"] /\ rooms[x].state = "live"
        BY <1>1, <2>3, <3>1
      <4>2. rooms'[x].state = "gone" /\ rooms'[x].settings = rooms[x].settings
        BY <1>1, <4>1 DEF RoomDoc
      <4>3. QED BY <1>5, <3>1, <4>1, <4>2
    <3>2. CASE x # request[r].room
      BY <1>1, <2>3, <3>2
    <3>3. QED BY <3>1, <3>2
  <2>4. QED BY <2>1, <2>2, <2>3 DEF DeleteRoom
<1>6. ASSUME NEW status \in RoomStatus,
             UpdateRoomStatus(request[r].tenant, request[r].room, status)
      PROVE  rooms'[x].state = rooms[x].state /\ rooms'[x].settings = rooms[x].settings
  BY <1>1, <1>6 DEF UpdateRoomStatus, RoomDoc
<1>7. QED BY <1>1, <1>2, <1>3, <1>4, <1>5, <1>6, RoomsWritten

\* A start or a stop raises the generation, and only a start that fails late lowers it.
LEMMA GenChanges ==
  ASSUME Inv, NEW r \in Request, Admit(r) \/ Handle(r) \/ Start(r), NEW b \in Bot
  PROVE  /\ startup'[b].gen >= startup[b].gen \/ <<"overwrite", b>> \in incidents'
         /\ (StartBegin(r) \/ Stop(r)) /\ b = request[r].bot
              => startup'[b].gen = startup[b].gen + 1
<1>1. startup \in [Bot -> StartupEntry] /\ startup[b] \in StartupEntry /\ startup[b].gen \in Nat
  BY EntryFields DEF Inv, ManagerOK
<1>2. CASE UNCHANGED startup /\ ~StartBegin(r) /\ ~Stop(r)
  BY <1>1, <1>2
<1>3. CASE StartBegin(r) \/ Stop(r)
  <2>1. PICK status : startup' = [startup EXCEPT ![request[r].bot] =
                        [status |-> status, gen |-> startup[request[r].bot].gen + 1]]
    BY <1>3 DEF StartBegin, Stop
  <2>2. QED BY <1>1, <2>1
<1>4. CASE LoadFails(r) /\ ~StartBegin(r) /\ ~Stop(r)
  <2>1. /\ startup' = [startup EXCEPT ![request[r].bot] =
                         [status |-> "error", gen |-> request[r].gen]]
        /\ incidents' = IF Current(r) THEN incidents
                        ELSE incidents \cup {<<"overwrite", request[r].bot>>}
    BY <1>4 DEF LoadFails
  <2>2. CASE b = request[r].bot
    BY <1>1, <1>4, <2>1, <2>2 DEF Current
  <2>3. CASE b # request[r].bot
    BY <1>1, <1>4, <2>1, <2>3
  <2>4. QED BY <2>2, <2>3
<1>5. ASSUME NEW status \in {"active", "stopped"}, ~StartBegin(r), ~Stop(r),
             startup' = [startup EXCEPT ![request[r].bot].status = status]
      PROVE  startup'[b].gen = startup[b].gen
  BY <1>1, <1>5 DEF StartupEntry
<1>6. QED BY <1>1, <1>2, <1>3, <1>4, <1>5, StartupWritten

-----------------------------------------------------------------------------
(* Patches                                                                 *)

\* An update of a document has met every other one that is in flight.
LEMMA PatchesMeet ==
  ASSUME Inv, MeetingsNoted, NEW r \in Request, NEW q \in Request, r # q,
         InFlight(r), InFlight(q), request[r].route = request[q].route,
         request[r].route \in {"bots.update", "rooms.update"},
         Target(request[r]) = Target(request[q])
  PROVE  <<"patch", Target(request[q])>> \in incidents
<1>1. Disturbs("patch", request[q], request[r])
  BY DEF Disturbs
<1>2. QED BY <1>1 DEF MeetingsNoted, Incident

\* What an answered update of a bot has promised and written.
LEMMA BotPatched ==
  ASSUME Inv, Routed, NEW r \in Request, PatchBot(r)
  PROVE  LET b == request[r].bot
             written == request[r].copy \cup {request[r].field} IN
         /\ InFlight(r) /\ request[r].route = "bots.update" /\ Target(request[r]) = b /\ b \in Bot
         /\ bots[b].tenant # None
         /\ bots[b].state = "live" => bots'[b].config = written
         /\ \A d \in Bot \cup Room :
              promised'[d] = IF d = b THEN promised[d] \cup {request[r].field} ELSE promised[d]
<1> DEFINE b == request[r].bot
           written == request[r].copy \cup {request[r].field}
<1>1. InFlight(r) /\ request[r].route = "bots.update" /\ request[r].pc = "admitted"
  BY DEF PatchBot, At, InFlight
<1>2. /\ b \in Bot /\ bots[b].tenant = request[r].tenant /\ request[r].tenant # None
  BY <1>1, InBot DEF InFlight, TenantRoute
<1>3. request[r].room = None
  BY <1>1 DEF Routed
<1>4. bots \in [Bot -> BotDoc] /\ promised \in [Bot \cup Room -> SUBSET Field]
  BY DEF Inv, DocumentsOK, HistoryOK
<1>5. ASSUME bots[b].state = "live" PROVE bots'[b].config = written
  <2>1. bots' = [bots EXCEPT ![b].config = written]
    BY <1>2, <1>5 DEF PatchBot, UpdateBot, FindBot
  <2>2. bots'[b] = [bots[b] EXCEPT !.config = written] /\ bots[b] \in BotDoc
    BY <1>2, <1>4, <2>1
  <2> HIDE DEF written
  <2>3. QED BY <2>2 DEF BotDoc
<1>6. promised' = [promised EXCEPT ![b] = @ \cup {request[r].field}]
  BY DEF PatchBot
<1>7. \A d \in Bot \cup Room :
        promised'[d] = IF d = b THEN promised[d] \cup {request[r].field} ELSE promised[d]
  BY <1>2, <1>4, <1>6
<1>8. QED BY <1>1, <1>2, <1>3, <1>5, <1>7 DEF Target

\* The same for the settings of a room.
LEMMA RoomPatched ==
  ASSUME Inv, Routed, NEW r \in Request, PatchRoom(r)
  PROVE  LET x == request[r].room
             written == request[r].copy \cup {request[r].field} IN
         /\ InFlight(r) /\ request[r].route = "rooms.update" /\ Target(request[r]) = x /\ x \in Room
         /\ request[r].pc = "merging" /\ rooms[x].tenant # None
         /\ rooms[x].state = "live" => rooms'[x].settings = written
         /\ \A d \in Bot \cup Room :
              promised'[d] = IF d = x THEN promised[d] \cup {request[r].field} ELSE promised[d]
<1> DEFINE x == request[r].room
           written == request[r].copy \cup {request[r].field}
<1>1. InFlight(r) /\ request[r].route = "rooms.update" /\ request[r].pc = "merging"
  BY DEF PatchRoom, At, InFlight
<1>2. x \in Room /\ request[r].tenant # None
  BY <1>1, InRoom DEF RoomAwait
<1>3. x # None /\ rooms[x].tenant = request[r].tenant
  BY <1>2, RequestFields, NoneAssumption DEF Mine
<1>4. rooms \in [Room -> RoomDoc] /\ promised \in [Bot \cup Room -> SUBSET Field]
  BY DEF Inv, DocumentsOK, HistoryOK
<1>5. ASSUME rooms[x].state = "live" PROVE rooms'[x].settings = written
  <2>1. rooms' = [rooms EXCEPT ![x].settings = written]
    BY <1>3, <1>5 DEF PatchRoom, UpdateSettings
  <2>2. rooms'[x] = [rooms[x] EXCEPT !.settings = written] /\ rooms[x] \in RoomDoc
    BY <1>2, <1>4, <2>1
  <2> HIDE DEF written
  <2>3. QED BY <2>2 DEF RoomDoc
<1>6. promised' = [promised EXCEPT ![x] = @ \cup {request[r].field}]
  BY DEF PatchRoom
<1>7. \A d \in Bot \cup Room :
        promised'[d] = IF d = x THEN promised[d] \cup {request[r].field} ELSE promised[d]
  BY <1>2, <1>4, <1>6
<1>8. QED BY <1>1, <1>2, <1>3, <1>5, <1>7 DEF Target

\* Whom a step promises something: a bot or a room whose update it answers.
LEMMA Promised ==
  ASSUME Inv, Routed, NEW r \in Request, Admit(r) \/ Handle(r) \/ Start(r),
         NEW d \in Bot \cup Room
  PROVE  \/ promised'[d] = promised[d]
         \/ PatchBot(r) /\ d = request[r].bot
         \/ PatchRoom(r) /\ d = request[r].room
<1>1. CASE UNCHANGED promised
  BY <1>1
<1>2. CASE PatchBot(r)
  BY <1>2, BotPatched
<1>3. CASE PatchRoom(r)
  BY <1>3, RoomPatched
<1>4. QED BY <1>1, <1>2, <1>3, PromisesWritten

\* A step keeps the patches of the bots, ...
LEMMA BotPatchesStep ==
  ASSUME Inv, Routed, MeetingsNoted, PatchesTold, PatchesKept,
         NEW r \in Request, Admit(r) \/ Handle(r) \/ Start(r), NEW b \in Bot
  PROVE  /\ bots'[b].tenant = None => promised'[b] = {}
         /\ bots'[b].state = "live" /\ <<"patch", b>> \notin incidents'
              => promised'[b] \subseteq bots'[b].config
<1>k. Kept(r) /\ b \notin Room
  BY StepKept, IdAssumption
<1>1. incidents \subseteq incidents'
  BY IncidentsGrow
<1>2. ~(PatchRoom(r) /\ b = request[r].room)
  BY <1>k, RoomPatched
<1>3. ASSUME bots'[b].tenant = None PROVE promised'[b] = {}
  <2>1. bots[b].tenant = None
    <3>1. CASE UNCHANGED bots
      BY <1>3, <3>1
    <3>2. CASE bots[b] # bots'[b]
      BY <1>3, <1>k, <3>2, RequestFields DEF Kept, Inside, Inv, Owned
    <3>3. QED BY <1>3, <3>2
  <2>2. promised[b] = {}
    BY <2>1 DEF PatchesTold
  <2>3. ~(PatchBot(r) /\ b = request[r].bot)
    BY <2>1, BotPatched
  <2>4. QED BY <1>2, <2>2, <2>3, Promised
<1>4. ASSUME bots'[b].state = "live", <<"patch", b>> \notin incidents'
      PROVE  promised'[b] \subseteq bots'[b].config
  <2>1. bots[b].state \in {"live", "free"} /\ <<"patch", b>> \notin incidents
    BY <1>1, <1>4, BotChanges
  <2>2. CASE PatchBot(r) /\ b = request[r].bot
    <3>1. /\ InFlight(r) /\ request[r].route = "bots.update" /\ bots[b].tenant # None
          /\ bots[b].state = "live" => bots'[b].config = request[r].copy \cup {request[r].field}
          /\ promised'[b] = promised[b] \cup {request[r].field}
      BY <2>2, BotPatched
    <3>2. bots[b].state = "live"
      BY <2>1, <3>1 DEF Inv, Owned
    <3>3. promised[b] \subseteq request[r].copy
      BY <2>1, <2>2, <3>1, <3>2 DEF PatchesTold
    <3>4. QED BY <3>1, <3>2, <3>3
  <2>3. CASE ~(PatchBot(r) /\ b = request[r].bot)
    <3>1. promised'[b] = promised[b]
      BY <1>2, <2>3, Promised
    <3>2. CASE bots[b].state = "live"
      <4>1. bots'[b].config = bots[b].config
        BY <2>3, <3>2, BotChanges
      <4>2. promised[b] \subseteq bots[b].config
        BY <2>1, <3>2 DEF PatchesKept
      <4>3. QED BY <3>1, <4>1, <4>2
    <3>3. CASE bots[b].state = "free"
      BY <3>1, <3>3 DEF Inv, Owned, PatchesTold
    <3>4. QED BY <2>1, <3>2, <3>3
  <2>4. QED BY <2>2, <2>3
<1>5. QED BY <1>3, <1>4

\* ... and of the rooms, ...
LEMMA RoomPatchesStep ==
  ASSUME Inv, Routed, MeetingsNoted, PatchesTold, PatchesKept,
         NEW r \in Request, Admit(r) \/ Handle(r) \/ Start(r), NEW x \in Room
  PROVE  /\ rooms'[x].tenant = None => promised'[x] = {}
         /\ rooms'[x].state = "live" /\ <<"patch", x>> \notin incidents'
              => promised'[x] \subseteq rooms'[x].settings
<1>k. Kept(r) /\ x \notin Bot
  BY StepKept, IdAssumption
<1>1. incidents \subseteq incidents'
  BY IncidentsGrow
<1>2. ~(PatchBot(r) /\ x = request[r].bot)
  BY <1>k, BotPatched
<1>3. ASSUME rooms'[x].tenant = None PROVE promised'[x] = {}
  <2>1. rooms[x].tenant = None
    BY <1>3, <1>k DEF Kept, Inside, Inv, Owned
  <2>2. promised[x] = {}
    BY <2>1 DEF PatchesTold
  <2>3. ~(PatchRoom(r) /\ x = request[r].room)
    BY <2>1, RoomPatched
  <2>4. QED BY <1>2, <2>2, <2>3, Promised
<1>4. ASSUME rooms'[x].state = "live", <<"patch", x>> \notin incidents'
      PROVE  promised'[x] \subseteq rooms'[x].settings
  <2>1. rooms[x].state \in {"live", "free"} /\ <<"patch", x>> \notin incidents
    BY <1>1, <1>4, RoomChanges
  <2>2. CASE PatchRoom(r) /\ x = request[r].room
    <3>1. /\ request[r].pc = "merging" /\ rooms[x].tenant # None
          /\ rooms[x].state = "live" => rooms'[x].settings = request[r].copy \cup {request[r].field}
          /\ promised'[x] = promised[x] \cup {request[r].field}
      BY <2>2, RoomPatched
    <3>2. rooms[x].state = "live"
      BY <2>1, <3>1 DEF Inv, Owned
    <3>3. promised[x] \subseteq request[r].copy
      BY <2>1, <2>2, <3>1, <3>2 DEF PatchesTold
    <3>4. QED BY <3>1, <3>2, <3>3
  <2>3. CASE ~(PatchRoom(r) /\ x = request[r].room)
    <3>1. promised'[x] = promised[x]
      BY <1>2, <2>3, Promised
    <3>2. CASE rooms[x].state = "live"
      <4>1. rooms'[x].settings = rooms[x].settings
        BY <2>3, <3>2, RoomChanges
      <4>2. promised[x] \subseteq rooms[x].settings
        BY <2>1, <3>2 DEF PatchesKept
      <4>3. QED BY <3>1, <4>1, <4>2
    <3>3. CASE rooms[x].state = "free"
      BY <3>1, <3>3 DEF Inv, Owned, PatchesTold
    <3>4. QED BY <2>1, <3>2, <3>3
  <2>4. QED BY <2>2, <2>3
<1>5. QED BY <1>3, <1>4

\* The settings that an update reads.
LEMMA ReadForm ==
  ASSUME Inv, NEW r \in Request, ReadSettings(r)
  PROVE  LET x == request[r].room IN
         /\ request'[r].room = x
         /\ request'[r].copy = IF rooms[x].state = "live" /\ rooms[x].tenant = request[r].tenant
                               THEN rooms[x].settings ELSE {}
<1> DEFINE x == request[r].room
           read == IF rooms[x].state = "live" /\ rooms[x].tenant = request[r].tenant
                   THEN rooms[x].settings ELSE {}
<1>1. request' = [request EXCEPT ![r].pc = "merging", ![r].copy = read]
  BY DEF ReadSettings
<1> HIDE DEF read
<1>2. request \in [Request -> RequestState] /\ request[r] \in RequestState
  BY DEF Inv, RequestsOK
<1>3. request'[r].copy = read /\ request'[r].room = x
  <2>1. request'[r] = [request[r] EXCEPT !.pc = "merging", !.copy = read]
    BY <1>1, <1>2
  <2>2. QED BY <1>2, <2>1 DEF RequestState
<1>4. QED BY <1>3 DEF read

\* ... and what every update in flight has read covers them.
LEMMA CopiesStep ==
  ASSUME Inv, Routed, MeetingsNoted, PatchesTold, PatchesKept,
         NEW r \in Request, Admit(r) \/ Handle(r) \/ Start(r), NEW q \in Request
  PROVE  LET p == request'[q] IN
         /\ InFlight(q)' /\ p.route = "bots.update" /\ bots'[p.bot].state = "live"
            /\ <<"patch", p.bot>> \notin incidents'
              => promised'[p.bot] \subseteq p.copy
         /\ p.pc = "merging" /\ rooms'[p.room].state = "live"
            /\ <<"patch", p.room>> \notin incidents'
              => promised'[p.room] \subseteq p.copy
<1> DEFINE p == request'[q]
<1>k. Kept(r)
  BY StepKept
<1>1. incidents \subseteq incidents' /\ (q # r => p = request[q])
  BY <1>k, IncidentsGrow DEF Kept
<1>2. ASSUME InFlight(q)', p.route = "bots.update", bots'[p.bot].state = "live",
             <<"patch", p.bot>> \notin incidents'
      PROVE  promised'[p.bot] \subseteq p.copy
  <2>1. CASE q # r
    <3>1. /\ InFlight(q) /\ p = request[q] /\ p.bot \in Bot /\ bots[p.bot].tenant # None
          /\ p.room = None
      BY <1>1, <1>2, <2>1, InBot DEF InFlight, TenantRoute, Routed
    <3>2. bots[p.bot].state = "live"
      BY <1>2, <3>1, BotChanges DEF Inv, Owned
    <3>3. promised[p.bot] \subseteq p.copy
      BY <1>1, <1>2, <3>1, <3>2 DEF PatchesTold
    <3>4. ~(PatchRoom(r) /\ p.bot = request[r].room)
      BY <3>1, RoomPatched, IdAssumption
    <3>5. ~(PatchBot(r) /\ p.bot = request[r].bot)
      <4>1. SUFFICES ASSUME PatchBot(r), p.bot = request[r].bot PROVE FALSE
        OBVIOUS
      <4>2. /\ InFlight(r) /\ request[r].route = "bots.update"
            /\ Target(request[r]) = p.bot /\ Target(request[q]) = p.bot
        BY <3>1, <4>1, BotPatched DEF Target
      <4>3. <<"patch", p.bot>> \in incidents
        BY <1>2, <2>1, <3>1, <4>2, PatchesMeet
      <4>4. QED BY <1>1, <1>2, <4>3
    <3>6. QED BY <3>1, <3>3, <3>4, <3>5, Promised
  <2>2. CASE q = r /\ Admit(r)
    <3>1. p.bot \in Bot /\ p.copy = bots[p.bot].config
      BY <1>2, <2>2, Enters
    <3>2. UNCHANGED <<bots, promised>>
      BY <2>2 DEF Admit, AdmitTenant, AdmitBot, AdmitRoom, AdmitCredential, Enter, documents
    <3>3. promised[p.bot] \subseteq bots[p.bot].config
      BY <1>1, <1>2, <3>1, <3>2 DEF PatchesKept
    <3>4. QED BY <3>1, <3>2, <3>3
  <2>3. CASE q = r /\ ~Admit(r)
    <3>1. /\ request[r].pc \notin {"new", "answered"} /\ Moved(request[r], p) /\ RoutedOne(p)
      BY <2>3, HandlersMove
    <3>2. ~Ended(p)
      BY <1>2 DEF Ended
    <3>3. /\ p.bot = request[r].bot /\ p.copy = request[r].copy
          /\ request[r].route = "bots.update"
      BY <1>2, <3>1, <3>2 DEF Moved, RoutedOne, Same
    <3>4. InFlight(r) /\ p.bot \in Bot /\ bots[p.bot].tenant # None
      BY <3>1, <3>3, InBot DEF InFlight, TenantRoute
    <3>5. bots[p.bot].state = "live"
      BY <1>2, <3>4, BotChanges DEF Inv, Owned
    <3>6. promised[p.bot] \subseteq p.copy
      BY <1>1, <1>2, <3>3, <3>4, <3>5 DEF PatchesTold
    <3>7. ~PatchBot(r) /\ ~PatchRoom(r)
      BY <2>3, <3>2, Answers
    <3>8. QED BY <3>4, <3>6, <3>7, Promised
  <2>4. QED BY <2>1, <2>2, <2>3
<1>3. ASSUME p.pc = "merging", rooms'[p.room].state = "live",
             <<"patch", p.room>> \notin incidents'
      PROVE  promised'[p.room] \subseteq p.copy
  <2>1. CASE q # r
    <3>1. /\ InFlight(q) /\ p = request[q] /\ p.room \in Room /\ p.route = "rooms.update"
          /\ p.room # None
      BY <1>1, <1>3, <2>1, InRoom, NoneAssumption DEF InFlight, RoomAwait, Routed
    <3>2. rooms[p.room].tenant # None
      BY <1>3, <3>1, InRoom, RequestFields DEF Mine, RoomAwait
    <3>3. rooms[p.room].state = "live"
      BY <1>3, <3>1, <3>2, RoomChanges DEF Inv, Owned
    <3>4. promised[p.room] \subseteq p.copy
      BY <1>1, <1>3, <3>1, <3>3 DEF PatchesTold
    <3>5. ~(PatchBot(r) /\ p.room = request[r].bot)
      BY <3>1, BotPatched, IdAssumption
    <3>6. ~(PatchRoom(r) /\ p.room = request[r].room)
      <4>1. SUFFICES ASSUME PatchRoom(r), p.room = request[r].room PROVE FALSE
        OBVIOUS
      <4>2. /\ InFlight(r) /\ request[r].route = "rooms.update"
            /\ Target(request[r]) = p.room /\ Target(request[q]) = p.room
        BY <3>1, <4>1, RoomPatched DEF Target
      <4>3. <<"patch", p.room>> \in incidents
        BY <1>3, <2>1, <3>1, <4>2, PatchesMeet
      <4>4. QED BY <1>1, <1>3, <4>3
    <3>7. QED BY <3>1, <3>4, <3>5, <3>6, Promised
  <2>2. CASE q = r
    <3>1. ~Admit(r)
      BY <1>3, <2>2, Enters
    <3>2. /\ request[r].pc \notin {"new", "answered"} /\ RoutedOne(p) /\ Entered(r)
      BY <2>2, <3>1, HandlersMove
    <3>3. ReadSettings(r)
      BY <1>3, <2>2, <3>2 DEF Entered
    <3>4. request[r].route = "rooms.update" /\ request[r].pc = "admitted"
      BY <3>3 DEF ReadSettings, At
    <3>5. request[r].room \in Room
      BY <3>4, RequestFields DEF Sane
    <3>6. rooms[request[r].room].tenant = request[r].tenant
      BY <3>5, RequestFields, NoneAssumption DEF Mine
    <3> DEFINE x == request[r].room
               read == IF rooms[x].state = "live" /\ rooms[x].tenant = request[r].tenant
                       THEN rooms[x].settings ELSE {}
    <3>7. UNCHANGED <<rooms, promised>>
      BY <3>3 DEF ReadSettings, documents, history
    <3> HIDE DEF read
    <3>8. p.copy = read /\ p.room = x
      BY <2>2, <3>3, ReadForm DEF read
    <3>9. rooms[x].state = "live" /\ read = rooms[x].settings
      BY <1>3, <3>6, <3>7, <3>8 DEF read
    <3>10. promised[x] \subseteq rooms[x].settings
      BY <1>1, <1>3, <3>5, <3>8, <3>9 DEF PatchesKept
    <3>11. QED BY <3>7, <3>8, <3>9, <3>10
  <2>3. QED BY <2>1, <2>2
<1>4. QED BY <1>2, <1>3

LEMMA PatchesStep ==
  ASSUME Inv, Routed, MeetingsNoted, PatchesTold, PatchesKept,
         NEW r \in Request, Admit(r) \/ Handle(r) \/ Start(r)
  PROVE  PatchesTold' /\ PatchesKept'
<1>1. PatchesKept'
  BY BotPatchesStep, RoomPatchesStep DEF PatchesKept
<1>2. PatchesTold'
  BY BotPatchesStep, RoomPatchesStep, CopiesStep DEF PatchesTold
<1>3. QED BY <1>1, <1>2

-----------------------------------------------------------------------------
(* Removals                                                                *)

\* What arms the timers of a room: a start or a join of its bot that is current.
LEMMA ArmedBy ==
  ASSUME Inv, Routed, NEW r \in Request, Arm(r)
  PROVE  LET x == request[r].room IN
         /\ InFlight(r) /\ request[r].pc \in StartAwait /\ request[r].pc # "loading"
         /\ request[r].route \in {"bots.start", "rooms.join"}
         /\ x \in Room /\ x # None /\ rooms[x].bot = request[r].bot
         /\ request[r].bot \in Bot /\ request[r].bot # None
         /\ timers' \subseteq timers \cup {x}
         /\ ~Current(r) => timers' \subseteq timers
<1>1. request[r].pc \in {"pinging", "repinging"}
  BY DEF Arm
<1>2. /\ request[r].room \in Room /\ request[r].bot \in Bot
  BY <1>1, InRoom DEF RoomAwait
<1>3. request[r].room # None /\ request[r].bot # None
  BY <1>2, NoneAssumption
<1>4. rooms[request[r].room].bot = request[r].bot
  BY <1>3, RequestFields DEF Mine
<1>5. request[r].pc \in StartAwait /\ InFlight(r) /\ request[r].pc # "loading"
  BY <1>1 DEF StartAwait, InFlight
<1>6. request[r].route \in {"bots.start", "rooms.join"}
  BY <1>5 DEF Routed
<1>7. timers' = IF Current(r) THEN timers \cup {request[r].room} ELSE timers
  BY DEF Arm
<1>8. QED BY <1>2, <1>3, <1>4, <1>5, <1>6, <1>7

\* A room that has or had a bot keeps it.
LEMMA HostKept ==
  ASSUME Inv, NEW r \in Request, Admit(r) \/ Handle(r) \/ Start(r), NEW x \in Room,
         rooms[x].bot # None
  PROVE  rooms'[x].bot = rooms[x].bot /\ rooms[x].tenant # None /\ rooms[x].state # "free"
<1>1. Inv' /\ Inside(request[r].tenant)
  BY StepKept DEF Kept
<1>2. rooms[x].tenant # None /\ rooms[x].state # "free"
  BY DEF Inv, Owned
<1>3. rooms \in [Room -> RoomDoc] /\ rooms[x] \in RoomDoc
  BY DEF Inv, DocumentsOK
<1>4. CASE CreateRoom(r)
  <2>1. PICK y \in Room : InsertRoom(request[r].tenant, request[r].bot, y)
    BY <1>4 DEF CreateRoom
  <2>2. x # y
    BY <1>2, <2>1 DEF InsertRoom
  <2>3. rooms'[x] = rooms[x]
    BY <1>3, <2>1, <2>2 DEF InsertRoom
  <2>4. QED BY <1>2, <2>3
<1>5. CASE PatchRoom(r)
  BY <1>2, <1>3, <1>5 DEF PatchRoom, UpdateSettings, RoomDoc
<1>6. CASE RemoveRoom(r)
  BY <1>2, <1>3, <1>6 DEF RemoveRoom, DeleteRoom, RoomDoc
<1>7. ASSUME NEW status \in RoomStatus,
             UpdateRoomStatus(request[r].tenant, request[r].room, status)
      PROVE  rooms'[x].bot = rooms[x].bot
  BY <1>3, <1>7 DEF UpdateRoomStatus, RoomDoc
<1>8. QED BY <1>2, <1>4, <1>5, <1>6, <1>7, RoomsWritten

\* A removal of a room has met every start and join of its bot that is in flight.
LEMMA RemovalsMeet ==
  ASSUME Inv, MeetingsNoted, NEW r \in Request, NEW q \in Request, r # q,
         InFlight(r), InFlight(q), request[q].route = "rooms.remove",
         request[r].route \in {"bots.start", "rooms.join"}, request[q].bot = request[r].bot
  PROVE  <<"rearm", request[q].room>> \in incidents
<1>1. Disturbs("rearm", request[q], request[r])
  BY DEF Disturbs
<1>2. <<"rearm", Target(request[q])>> \in incidents
  BY <1>1 DEF MeetingsNoted, Incident
<1>3. QED BY <1>2, TargetIsDocument

\* Who removes a room.
LEMMA RemovedBy ==
  ASSUME Inv, Routed, NEW r \in Request, RemoveRoom(r)
  PROVE  /\ InFlight(r) /\ request[r].pc = "erasing" /\ request[r].route = "rooms.remove"
         /\ request[r].room \in Room /\ rooms[request[r].room].bot = request[r].bot
         /\ Ended(request'[r]) /\ timers' = timers
<1>1. request[r].pc = "erasing"
  BY DEF RemoveRoom
<1>2. request[r].room \in Room
  BY <1>1, InRoom DEF RoomAwait
<1>3. rooms[request[r].room].bot = request[r].bot
  BY <1>2, RequestFields, NoneAssumption DEF Mine
<1>4. QED BY <1>1, <1>2, <1>3, Answers DEF Routed, InFlight, RemoveRoom, manager

\* A step keeps what is known of the timers.
LEMMA TimersStep ==
  ASSUME Inv, Routed, MeetingsNoted, TimersKnown,
         \A x \in timers : rooms[x].state = "gone" => <<"rearm", x>> \in incidents,
         NEW r \in Request, Admit(r) \/ Handle(r) \/ Start(r)
  PROVE  /\ TimersKnown'
         /\ \A x \in timers' : rooms'[x].state = "gone" => <<"rearm", x>> \in incidents'
<1>k. Kept(r)
  BY StepKept
<1>1. /\ incidents \subseteq incidents'
      /\ \A q \in Request \ {r} : request'[q] = request[q]
      /\ timers \subseteq Room /\ timers' \subseteq Room
  BY <1>k, IncidentsGrow DEF Kept, Inv, ManagerOK
<1>2. ASSUME NEW x \in timers' PROVE rooms[x].bot # None
  BY <1>1, <1>2, TimersWritten, ArmedBy DEF TimersKnown
<1>3. ASSUME NEW x \in timers' PROVE rooms'[x].bot # None
  BY <1>1, <1>2, <1>3, HostKept
<1>4. ASSUME NEW q \in Request, request'[q].pc = "erasing", request'[q].room \in timers'
      PROVE  <<"rearm", request'[q].room>> \in incidents'
  <2>1. CASE q # r
    <3>1. request'[q] = request[q] /\ request[q].route = "rooms.remove" /\ InFlight(q)
      BY <1>1, <1>4, <2>1 DEF Routed, InFlight
    <3>2. CASE request[q].room \in timers
      BY <1>1, <1>4, <3>1, <3>2 DEF TimersKnown
    <3>3. CASE request[q].room \notin timers
      <4>1. Arm(r) /\ request[q].room = request[r].room
        BY <1>4, <3>1, <3>3, TimersWritten, ArmedBy
      <4>2. request[q].bot = request[r].bot
        BY <4>1, ArmedBy, RequestFields DEF Mine
      <4>3. <<"rearm", request[q].room>> \in incidents
        BY <2>1, <3>1, <4>1, <4>2, ArmedBy, RemovalsMeet
      <4>4. QED BY <1>1, <3>1, <4>3
    <3>4. QED BY <3>2, <3>3
  <2>2. CASE q = r
    <3>1. ~Admit(r)
      BY <1>4, <2>2, Enters
    <3>2. Disarm(r)
      BY <1>4, <2>2, <3>1, HandlersMove DEF Entered
    <3>3. request'[r].room = request[r].room
      BY <3>2, Forms DEF Disarm, Unmoved, Await
    <3>4. QED BY <1>4, <2>2, <3>2, <3>3 DEF Disarm
  <2>3. QED BY <2>1, <2>2
<1>5. ASSUME NEW q \in Request, InFlight(q), request[q].route \in {"bots.start", "rooms.join"},
             request[q].room # None
      PROVE  \/ rooms'[request[q].room].state = "live"
             \/ <<"rearm", request[q].room>> \in incidents'
  <2>1. CASE <<"rearm", request[q].room>> \in incidents
    BY <1>1, <2>1
  <2>2. CASE rooms[request[q].room].state = "live" /\ ~RemoveRoom(r)
    BY <1>5, <2>2, RoomChanges, RequestFields
  <2>3. CASE RemoveRoom(r) /\ request[q].room # request[r].room
    BY <1>1, <1>5, <2>3, RoomChanges, RequestFields DEF TimersKnown
  <2>4. CASE RemoveRoom(r) /\ request[q].room = request[r].room
    <3>1. request[q].bot = request[r].bot
      BY <1>5, <2>4, RemovedBy, RequestFields DEF Mine
    <3>2. <<"rearm", request[r].room>> \in incidents
      BY <1>5, <2>4, <3>1, RemovedBy, RemovalsMeet
    <3>3. QED BY <1>1, <2>4, <3>2
  <2>5. QED BY <1>5, <2>1, <2>2, <2>3, <2>4 DEF TimersKnown
<1>6. ASSUME NEW q \in Request, InFlight(q)',
             request'[q].route \in {"bots.start", "rooms.join"}, request'[q].room # None
      PROVE  \/ rooms'[request'[q].room].state = "live"
             \/ <<"rearm", request'[q].room>> \in incidents'
  <2>1. CASE q # r
    BY <1>1, <1>5, <1>6, <2>1 DEF InFlight
  <2>2. CASE q = r /\ Admit(r)
    BY <1>6, <2>2, Enters DEF Enter, documents
  <2>3. CASE q = r /\ ~Admit(r)
    <3>1. request[r].pc \notin {"new", "answered"} /\ Moved(request[r], request'[r])
      BY <2>3, HandlersMove
    <3>2. ~Ended(request'[r])
      BY <1>6, <2>3 DEF Ended
    <3>3. CASE request'[r].room = request[r].room
      BY <1>5, <1>6, <2>3, <3>1, <3>2, <3>3 DEF Moved, Same, InFlight
    <3>4. CASE request[r].pc = "listing" /\ rooms[request'[r].room].state = "live"
      <4>1. ~RemoveRoom(r)
        BY <3>4, RemovedBy
      <4>2. request'[r].room \in Room
        BY <1>6, <1>k, <2>3 DEF Kept, Inv, RequestsOK, RequestState
      <4>3. QED BY <2>3, <3>4, <4>1, <4>2, RoomChanges
    <3>5. QED BY <3>1, <3>2, <3>3, <3>4 DEF Moved
  <2>4. QED BY <2>1, <2>2, <2>3
<1>7. ASSUME NEW x \in timers', rooms'[x].state = "gone"
      PROVE  <<"rearm", x>> \in incidents'
  <2>1. x \in Room /\ rooms[x].bot # None /\ rooms[x].state # "free"
    BY <1>1, <1>2, <1>7, HostKept
  <2>2. CASE rooms[x].state = "gone" /\ x \in timers
    BY <1>1, <2>2
  <2>3. CASE rooms[x].state # "gone"
    <3>1. RemoveRoom(r) /\ x = request[r].room
      BY <1>7, <2>1, <2>3, RoomChanges
    <3>2. request[r].pc = "erasing" /\ x \in timers
      BY <1>7, <3>1, RemovedBy
    <3>3. QED BY <1>1, <3>1, <3>2 DEF TimersKnown
  <2>4. CASE x \notin timers
    <3>1. Arm(r) /\ x = request[r].room
      BY <1>7, <2>4, TimersWritten, ArmedBy
    <3>2. rooms'[x].state = "live" \/ <<"rearm", x>> \in incidents'
      BY <1>5, <3>1, ArmedBy
    <3>3. QED BY <1>7, <3>2
  <2>5. QED BY <2>2, <2>3, <2>4
<1>8. TimersKnown'
  BY <1>3, <1>4, <1>6 DEF TimersKnown
<1>9. QED BY <1>7, <1>8

\* Whatever removes a bot has been at it before, and it begins with a stop.
LEMMA RemovingFrom ==
  ASSUME Inv, Routed, NEW r \in Request, Admit(r) \/ Handle(r) \/ Start(r), NEW b \in Bot,
         Removing(b)', ~Removing(b)
  PROVE  Stop(r) /\ request[r].bot = b /\ request'[r].pc = "stopping"
<1>1. \A q \in Request \ {r} : request'[q] = request[q]
  BY StepKept DEF Kept
<1>2. bots'[b].state # "gone"
  <2>1. SUFFICES ASSUME RemoveBot(r), b = request[r].bot PROVE FALSE
    BY BotChanges DEF Removing
  <2>2. request[r].pc = "deleting" /\ request[r].route = "bots.remove"
    BY <2>1 DEF RemoveBot, Routed
  <2>3. QED BY <2>1, <2>2 DEF Removing
<1>3. PICK q \in Request : /\ request'[q].route = "bots.remove" /\ request'[q].bot = b
                           /\ request'[q].pc \in {"stopping", "deleting"}
  BY <1>2 DEF Removing
<1>4. q = r
  BY <1>1, <1>3 DEF Removing
<1>5. ~Admit(r)
  BY <1>3, <1>4, Enters
<1>6. /\ Moved(request[r], request'[r]) /\ Entered(r) /\ ~Ended(request'[r])
  BY <1>3, <1>4, <1>5, HandlersMove DEF Ended
<1>7. request[r].route = "bots.remove" /\ request[r].bot = b
  BY <1>3, <1>4, <1>6 DEF Moved, Same
<1>8. ~Stopped(r)
  BY <1>7 DEF Stopped, Removing
<1>9. QED BY <1>3, <1>4, <1>6, <1>7, <1>8 DEF Entered

\* No step but a stop makes a removal, and none lets a current start go on with it.
LEMMA StartsStep ==
  ASSUME Inv, Routed, TimersKnown, StartsOutdated,
         NEW r \in Request, Admit(r) \/ Handle(r) \/ Start(r), NEW b \in Bot,
         <<"overwrite", b>> \notin incidents'
  PROVE  /\ \A q \in Request : request'[q].pc \in StartAwait /\ request'[q].bot = b
              => request'[q].gen <= startup'[b].gen
         /\ Removing(b)' /\ <<"restart", b>> \notin incidents' =>
              /\ runtime'[b] = None
              /\ \A x \in timers' : rooms'[x].bot # b
              /\ \A q \in Request : request'[q].pc \in StartAwait /\ request'[q].bot = b
                   => \/ request'[q].gen < startup'[b].gen
                      \/ bots'[b].state = "gone" /\ request'[q].pc = "loading"
<1>k. Kept(r)
  BY StepKept
<1>1. /\ incidents \subseteq incidents'
      /\ \A q \in Request \ {r} : request'[q] = request[q]
      /\ timers \subseteq Room /\ timers' \subseteq Room
      /\ runtime \in [Bot -> Tenant \cup {None}]
  BY <1>k, IncidentsGrow DEF Kept, Inv, ManagerOK
<1>2. <<"overwrite", b>> \notin incidents
  BY <1>1
<1>3. /\ startup[b].gen \in Nat /\ startup'[b].gen \in Nat
      /\ startup'[b].gen >= startup[b].gen
  BY <1>k, EntryFields, GenChanges DEF Kept, Inv, ManagerOK, StartupEntry
<1>4. \A q \in Request : request[q].gen \in Nat /\ request'[q].gen \in Nat
  BY <1>k DEF Kept, Inv, RequestsOK, RequestState
<1>5. \A q \in Request : request[q].pc \in StartAwait /\ request[q].bot = b
        => request[q].gen <= startup[b].gen
  BY <1>2 DEF StartsOutdated
<1>6. ASSUME request'[r].pc \in StartAwait, request'[r].bot = b
      PROVE  Entered(r) /\ request[r].bot = b
  <2>1. ~Admit(r)
    BY <1>6, Enters DEF StartAwait
  <2>2. Moved(request[r], request'[r]) /\ Entered(r)
    BY <2>1, HandlersMove
  <2>3. ~Ended(request'[r])
    BY <1>6 DEF Ended, StartAwait
  <2>4. QED BY <1>6, <2>2, <2>3 DEF Moved, Same
<1>7. ASSUME NEW q \in Request, request'[q].pc \in StartAwait, request'[q].bot = b
      PROVE  request'[q].gen <= startup'[b].gen
  <2>1. CASE q # r
    BY <1>1, <1>3, <1>4, <1>5, <1>7, <2>1
  <2>2. CASE q = r
    <3>1. Entered(r) /\ request[r].bot = b
      BY <1>6, <1>7, <2>2
    <3>2. CASE request[r].pc \in StartAwait /\ request'[r].gen = request[r].gen
      BY <1>3, <1>4, <1>5, <2>2, <3>1, <3>2
    <3>3. CASE StartBegin(r) /\ request'[r].gen = startup[b].gen + 1
      BY <1>3, <2>2, <3>1, <3>3, GenChanges
    <3>4. CASE request'[r].gen = startup[b].gen
      BY <1>3, <2>2, <3>4
    <3>5. QED BY <1>7, <2>2, <3>1, <3>2, <3>3, <3>4 DEF Entered
  <2>3. QED BY <2>1, <2>2
<1>8. ASSUME Removing(b)', <<"restart", b>> \notin incidents', Removing(b)
      PROVE  /\ runtime'[b] = None
             /\ \A x \in timers' : rooms'[x].bot # b
             /\ \A q \in Request : request'[q].pc \in StartAwait /\ request'[q].bot = b
                  => \/ request'[q].gen < startup'[b].gen
                     \/ bots'[b].state = "gone" /\ request'[q].pc = "loading"
  <2>1. /\ runtime[b] = None
        /\ \A x \in timers : rooms[x].bot # b
        /\ \A q \in Request : request[q].pc \in StartAwait /\ request[q].bot = b
             => \/ request[q].gen < startup[b].gen
                \/ bots[b].state = "gone" /\ request[q].pc = "loading"
    BY <1>1, <1>2, <1>8 DEF StartsOutdated
  <2>2. ASSUME request[r].pc \in StartAwait, request[r].pc # "loading", request[r].bot = b
        PROVE  ~Current(r)
    BY <1>3, <1>4, <2>1, <2>2 DEF Current
  <2>3. runtime'[b] = None
    <3>1. CASE Build(r)
      <4>1. /\ request[r].pc \in StartAwait /\ request[r].pc # "loading" /\ Current(r)
            /\ runtime' = [runtime EXCEPT ![request[r].bot] = request[r].tenant]
        BY <3>1 DEF Build, StartAwait
      <4>2. request[r].bot # b
        BY <2>2, <4>1
      <4>3. QED BY <1>1, <2>1, <4>1, <4>2
    <3>2. CASE UNCHANGED runtime \/ runtime' = [runtime EXCEPT ![request[r].bot] = None]
      BY <1>1, <2>1, <3>2
    <3>3. QED BY <3>1, <3>2, RuntimeWritten
  <2>4. ASSUME NEW x \in timers' PROVE rooms'[x].bot # b
    <3>1. CASE x \in timers
      <4>1. rooms[x].bot # b /\ rooms[x].bot # None /\ x \in Room
        BY <1>1, <2>1, <3>1 DEF TimersKnown
      <4>2. QED BY <4>1, HostKept
    <3>2. CASE x \notin timers
      <4>1. Arm(r) /\ Current(r) /\ x = request[r].room
        BY <2>4, <3>2, TimersWritten, ArmedBy
      <4>2. request[r].bot # b
        BY <2>2, <4>1, ArmedBy
      <4>3. rooms'[x].bot = request[r].bot
        BY <4>1, ArmedBy, HostKept
      <4>4. QED BY <4>2, <4>3
    <3>3. QED BY <3>1, <3>2
  <2>5. ASSUME NEW q \in Request, request'[q].pc \in StartAwait, request'[q].bot = b
        PROVE  \/ request'[q].gen < startup'[b].gen
               \/ bots'[b].state = "gone" /\ request'[q].pc = "loading"
    <3>1. CASE q # r
      BY <1>1, <1>3, <1>4, <2>1, <2>5, <3>1, BotChanges
    <3>2. CASE q = r
      <4>1. Entered(r) /\ request[r].bot = b
        BY <1>6, <2>5, <3>2
      <4>2. CASE /\ request[r].pc \in StartAwait /\ request'[r].gen = request[r].gen
                 /\ request[r].pc = "loading" => bots[b].state = "live"
        BY <1>3, <1>4, <2>1, <3>2, <4>1, <4>2
      <4>3. CASE StartBegin(r) /\ request'[r].pc = "loading"
        <5>1. CASE bots[b].state = "gone"
          BY <3>2, <4>3, <5>1, BotChanges
        <5>2. CASE bots[b].state # "gone"
          <6>1. PICK a \in Request : /\ request[a].route = "bots.remove" /\ request[a].bot = b
                                     /\ request[a].pc \in {"stopping", "deleting"}
            BY <1>8, <5>2 DEF Removing
          <6>2. <<"restart", b>> \in incidents'
            BY <4>1, <4>3, <6>1 DEF StartBegin
          <6>3. QED BY <1>8, <6>2
        <5>3. QED BY <5>1, <5>2
      <4>4. QED BY <2>1, <2>5, <3>2, <4>1, <4>2, <4>3 DEF Entered
    <3>3. QED BY <3>1, <3>2
  <2>6. QED BY <2>3, <2>4, <2>5
<1>9. ASSUME Removing(b)', ~Removing(b)
      PROVE  /\ runtime'[b] = None
             /\ \A x \in timers' : rooms'[x].bot # b
             /\ \A q \in Request : request'[q].pc \in StartAwait /\ request'[q].bot = b
                  => request'[q].gen < startup'[b].gen
  <2>1. Stop(r) /\ request[r].bot = b /\ request'[r].pc = "stopping"
    BY <1>9, RemovingFrom
  <2>2. startup'[b].gen = startup[b].gen + 1
    BY <2>1, GenChanges
  <2>3. runtime'[b] = None
    BY <1>1, <2>1 DEF Stop
  <2>4. \A x \in timers' : rooms'[x].bot # b
    BY <2>1 DEF Stop, documents
  <2>5. ASSUME NEW q \in Request, request'[q].pc \in StartAwait, request'[q].bot = b
        PROVE  request'[q].gen < startup'[b].gen
    <3>1. q # r
      BY <2>1, <2>5 DEF StartAwait
    <3>2. QED BY <1>1, <1>3, <1>4, <1>5, <2>2, <2>5, <3>1
  <2>6. QED BY <2>3, <2>4, <2>5
<1>10. QED BY <1>7, <1>8, <1>9

-----------------------------------------------------------------------------
(* The theorems of updates and removals                                    *)

LEMMA InitialQuietness == Init => Quietness
<1>1. SUFFICES ASSUME Init PROVE Quietness
  OBVIOUS
<1>2. /\ runtime = [b \in Bot |-> None] /\ timers = {} /\ incidents = {}
      /\ promised = [d \in Bot \cup Room |-> {}]
      /\ \A r \in Request : request[r].pc = "new" /\ request[r].room = None
  BY <1>1 DEF Init, New
<1>3. \A b \in Bot : ~Removing(b)
  <2>1. \A b \in Bot : bots[b].state # "gone"
    BY <1>1 DEF Init, DocumentOf
  <2>2. QED BY <1>2, <2>1 DEF Removing
<1>4. Routed /\ MeetingsNoted
  BY <1>2 DEF Routed, MeetingsNoted, InFlight, StartAwait
<1>5. PatchesTold /\ PatchesKept
  BY <1>2 DEF PatchesTold, PatchesKept, InFlight
<1>6. TimersKnown /\ StartsOutdated /\ RemovedIsQuiet
  BY <1>2, <1>3 DEF TimersKnown, StartsOutdated, RemovedIsQuiet, InFlight, StartAwait
<1>7. QED BY <1>4, <1>5, <1>6 DEF Quietness

LEMMA QuietnessStep == Inv /\ Quietness /\ [Next]_vars => Quietness'
<1>1. SUFFICES ASSUME Inv, Quietness, [Next]_vars PROVE Quietness'
  OBVIOUS
<1>2. CASE Next
  <2>1. PICK r \in Request : Admit(r) \/ Handle(r) \/ Start(r)
    BY <1>2 DEF Next
  <2>2. Routed' /\ MeetingsNoted'
    BY <1>1, <2>1, MeetingsStep DEF Quietness
  <2>3. PatchesTold' /\ PatchesKept'
    BY <1>1, <2>1, PatchesStep DEF Quietness
  <2>4. /\ TimersKnown'
        /\ \A x \in timers' : rooms'[x].state = "gone" => <<"rearm", x>> \in incidents'
    BY <1>1, <2>1, TimersStep DEF Quietness, RemovedIsQuiet
  <2>5. StartsOutdated'
    BY <1>1, <2>1, StartsStep DEF Quietness, StartsOutdated
  <2>6. RemovedIsQuiet'
    BY <2>4, <2>5 DEF RemovedIsQuiet, StartsOutdated, Removing
  <2>7. QED BY <2>2, <2>3, <2>4, <2>5, <2>6 DEF Quietness
<1>3. CASE UNCHANGED vars
  <2>1. /\ UNCHANGED <<bots, rooms, startup, runtime, timers, request, incidents, promised>>
    BY <1>3 DEF vars, documents, manager, history
  <2>2. (Routed /\ MeetingsNoted /\ PatchesTold /\ PatchesKept)'
    BY <1>1, <2>1 DEF Quietness, Routed, MeetingsNoted, PatchesTold, PatchesKept, InFlight
  <2>3. (TimersKnown /\ StartsOutdated /\ RemovedIsQuiet)'
    BY <1>1, <2>1 DEF Quietness, TimersKnown, StartsOutdated, RemovedIsQuiet, Removing, InFlight
  <2>4. QED BY <2>2, <2>3 DEF Quietness
<1>4. QED BY <1>1, <1>2, <1>3

\* What is known of meetings, copies, timers and generations holds in every reachable
\* state.
THEOREM QuietnessHolds == Spec => []Quietness
<1>1. QED BY Inductive, InitialQuietness, QuietnessStep, PTL DEF Spec

\* A field whose update was answered stays set, however many updates there were, unless
\* two updates of the same bot or room were in flight together.
THEOREM PatchesKeptHolds == Spec => []PatchesKept
<1>1. Quietness => PatchesKept
  BY DEF Quietness
<1>2. QED BY <1>1, QuietnessHolds, PTL

\* A removed bot has no runtime and no timers, and a removed room no timers, unless one of
\* the three incidents let a start outlive the removal.
THEOREM RemovedIsQuietHolds == Spec => []RemovedIsQuiet
<1>1. Quietness => RemovedIsQuiet
  BY DEF Quietness
<1>2. QED BY <1>1, QuietnessHolds, PTL

=============================================================================
