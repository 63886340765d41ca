---------------------------- MODULE Repositories ----------------------------
(***************************************************************************)
(* The collections of bots, rooms and credentials, and the calls of their  *)
(* repositories: every one is a single MongoDB command that names the      *)
(* tenant. Ids are never used again. All rooms here are configurations of  *)
(* one external room, which several bots may have.                         *)
(***************************************************************************)
CONSTANTS
  Tenant, Bot, Room, Credential,  \* ids
  Field,                          \* the fields of an aiConfig and of room settings
  None                            \* no id

ASSUME NoneAssumption == None \notin Tenant \cup Bot \cup Room \cup Credential

\* No document of one collection has the id of one of another.
ASSUME IdAssumption ==
  Bot \cap Room = {} /\ Bot \cap Credential = {} /\ Room \cap Credential = {}

VARIABLES bots, rooms, credentials

documents == <<bots, rooms, credentials>>

\* An id nobody has yet, a document, a deleted one.
DocumentState == {"free", "live", "gone"}

RoomStatus == {"configured", "joining", "active", "inactive"}

\* config and settings are the fields that somebody has set.
BotDoc == [state : DocumentState, tenant : Tenant \cup {None}, config : SUBSET Field]

RoomDoc == [state : DocumentState, tenant : Tenant \cup {None}, bot : Bot \cup {None},
            status : RoomStatus, settings : SUBSET Field]

CredentialDoc == [state : DocumentState, tenant : Tenant \cup {None},
                  bot : Bot \cup {None}]

DocumentsOK ==
  /\ bots \in [Bot -> BotDoc]
  /\ rooms \in [Room -> RoomDoc]
  /\ credentials \in [Credential -> CredentialDoc]

-----------------------------------------------------------------------------

\* Variant of FindBot: the id alone decides.
FindBotById(t, b) == bots[b].state = "live"

\* findByIdAndTenant of the bots
FindBot(t, b) == bots[b].state = "live" /\ bots[b].tenant = t

\* findByIdAndTenantAndBot and, all rooms being for one external room,
\* findByExternalRoomId
FindRoom(t, b, x) ==
  rooms[x].state = "live" /\ rooms[x].tenant = t /\ rooms[x].bot = b

\* Variant of FindCredential: the id alone decides.
FindCredentialById(t, c) == credentials[c].state = "live"

\* findByIdAndTenant of the credentials, which does not ask for the bot
FindCredential(t, c) == credentials[c].state = "live" /\ credentials[c].tenant = t

\* findActiveByBot returns the newest of these
ActiveCredential(t, b, c) == FindCredential(t, c) /\ credentials[c].bot = b

BotsOf(t) == {b \in Bot : FindBot(t, b)}

RoomsOf(t, b) == {x \in Room : FindRoom(t, b, x)}

CredentialsOf(t, b) == {c \in Credential : ActiveCredential(t, b, c)}

-----------------------------------------------------------------------------

InsertBot(t, b) ==
  /\ bots[b].state = "free"
  /\ bots' = [bots EXCEPT ![b] = [state |-> "live", tenant |-> t, config |-> {}]]

\* The unique index allows a bot one room per external room.
InsertRoom(t, b, x) ==
  /\ rooms[x].state = "free"
  /\ RoomsOf(t, b) = {}
  /\ rooms' = [rooms EXCEPT ![x] = [state |-> "live", tenant |-> t, bot |-> b,
                                    status |-> "configured", settings |-> {}]]

InsertCredential(t, b, c) ==
  /\ credentials[c].state = "free"
  /\ credentials' = [credentials EXCEPT ![c] =
                       [state |-> "live", tenant |-> t, bot |-> b]]

\* An update of a document that is not there, or not the tenant's, changes nothing.
UpdateBot(t, b, config) ==
  bots' = IF FindBot(t, b) THEN [bots EXCEPT ![b].config = config] ELSE bots

UpdateRoomStatus(t, x, status) ==
  rooms' = IF rooms[x].state = "live" /\ rooms[x].tenant = t
           THEN [rooms EXCEPT ![x].status = status]
           ELSE rooms

\* The second command of an update of settings: current is what the first one read.
UpdateSettings(t, x, settings) ==
  rooms' = IF rooms[x].state = "live" /\ rooms[x].tenant = t
           THEN [rooms EXCEPT ![x].settings = settings]
           ELSE rooms

DeleteBot(t, b) ==
  bots' = IF FindBot(t, b) THEN [bots EXCEPT ![b].state = "gone"] ELSE bots

DeleteRoom(t, x) ==
  rooms' = IF rooms[x].state = "live" /\ rooms[x].tenant = t
           THEN [rooms EXCEPT ![x].state = "gone"]
           ELSE rooms

DeleteCredential(t, c) ==
  credentials' = IF FindCredential(t, c)
                 THEN [credentials EXCEPT ![c].state = "gone"]
                 ELSE credentials
=============================================================================
