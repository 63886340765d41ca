-------------------------- MODULE BotManagerProofs --------------------------
(***************************************************************************)
(* Proofs about BotManager, for any number of rooms and calls and any set  *)
(* of requests and failures.                                               *)
(***************************************************************************)
EXTENDS BotManager, TLAPS

AtRoom == {"verifying", "entering", "joining", "checking", "pinging", "leaving", "left",
           "syncing", "closing", "revoking", "failing", "refused"}

\* What TypeOK asks of one call.
Sound(k) ==
  /\ k \in CallState
  /\ k.pc = "waiting" => k.on \in Call
  /\ k.pc \in AtRoom => k.room \in Room

\* The type invariant, call by call.
LEMMA TypeByCall ==
  TypeOK <=> /\ startup \in StartupEntry
             /\ runtime \in Nat
             /\ timers \subseteq Room
             /\ bot \in {"active", "stopped", "error"}
             /\ room \in [Room -> RoomStatus]
             /\ credential \in BOOLEAN
             /\ call \in [Call -> CallState]
             /\ \A c \in Call : Sound(call[c])
BY DEF TypeOK, Sound, AtRoom

LEMMA TypeByCallNext ==
  TypeOK' <=> /\ startup' \in StartupEntry
              /\ runtime' \in Nat
              /\ timers' \subseteq Room
              /\ bot' \in {"active", "stopped", "error"}
              /\ room' \in [Room -> RoomStatus]
              /\ credential' \in BOOLEAN
              /\ call' \in [Call -> CallState]
              /\ \A c \in Call : Sound(call'[c])
BY DEF TypeOK, Sound, AtRoom

\* A call that is idle, or one that has just got its room, is sound.
LEMMA IdleSound ==
  /\ Idle \in CallState /\ Sound(Idle)
  /\ Idle.pc = "idle" /\ Idle.task = "none" /\ Idle.gen = 0
BY DEF Idle, CallState, Await, Sound, AtRoom

\* A call that goes on, with the room it has or to a step that needs none, is sound.
LEMMA GoOnSound ==
  ASSUME NEW k, Sound(k), NEW pc \in Await, pc # "waiting",
         pc \in AtRoom => k.room \in Room
  PROVE  Sound([k EXCEPT !.pc = pc])
BY DEF Sound, CallState

\* A step that changes one call leaves all calls sound if it leaves that one sound.
LEMMA OneCall ==
  ASSUME TypeOK, NEW c \in Call, NEW k, Sound(k), call' = [call EXCEPT ![c] = k]
  PROVE  /\ call' \in [Call -> CallState]
         /\ \A d \in Call : Sound(call'[d])
         /\ call'[c] = k
         /\ \A d \in Call : d # c => call'[d] = call[d]
BY TypeByCall DEF Sound

\* The same for a call that goes on.
LEMMA OneGoesOn ==
  ASSUME TypeOK, NEW c \in Call, NEW pc \in Await, pc # "waiting",
         pc \in AtRoom => call[c].room \in Room, GoOn(c, pc)
  PROVE  /\ call' \in [Call -> CallState]
         /\ \A d \in Call : Sound(call'[d])
         /\ call'[c] = [call[c] EXCEPT !.pc = pc]
         /\ \A d \in Call : d # c => call'[d] = call[d]
<1>1. call' = [call EXCEPT ![c] = [call[c] EXCEPT !.pc = pc]]
  BY TypeByCall DEF GoOn
<1>2. Sound([call[c] EXCEPT !.pc = pc])
  BY GoOnSound, TypeByCall
<1>3. QED BY <1>1, <1>2, OneCall

\* What has become of another call d when the promise of c settles.
Woken(c, d, ok) ==
  IF call[d].pc = "waiting" /\ call[d].on = c
  THEN IF ok THEN [call[d] EXCEPT !.pc = "woken"] ELSE Idle
  ELSE call[d]

\* A promise that settles leaves all calls sound.
LEMMA Settled ==
  ASSUME TypeOK, NEW c \in Call, NEW k, Sound(k), NEW ok \in BOOLEAN,
         call' = Settle(c, k, ok)
  PROVE  /\ call' \in [Call -> CallState]
         /\ \A d \in Call : Sound(call'[d])
         /\ call'[c] = k
         /\ \A d \in Call : d # c => call'[d] = Woken(c, d, ok)
<1>1. call'[c] = k /\ \A d \in Call : d # c => call'[d] = Woken(c, d, ok)
  BY DEF Settle, Woken
<1>2. ASSUME NEW d \in Call PROVE Sound(Woken(c, d, ok))
  <2>1. "woken" \in Await /\ "woken" \notin AtRoom
    BY DEF Await, AtRoom
  <2>2. Sound([call[d] EXCEPT !.pc = "woken"])
    BY <2>1, GoOnSound, TypeByCall
  <2>3. QED BY <2>2, IdleSound, TypeByCall DEF Woken
<1>3. \A d \in Call : Sound(call'[d])
  BY <1>1, <1>2
<1>4. QED BY <1>1, <1>3 DEF Settle, Sound

\* A caller of startBot that has got its answer is sound.
LEMMA StartedSound ==
  ASSUME NEW goal \in Room \cup {None}, NEW rt \in Nat, NEW gen \in Nat
  PROVE  Sound(Started(goal, rt, gen))
BY IdleSound DEF Started, Sound, CallState, Idle, Await, AtRoom

\* A start that begins is sound.
LEMMA StartingSound ==
  ASSUME NEW goal \in Room \cup {None}, NEW gen \in Nat
  PROVE  Sound([Idle EXCEPT !.pc = "starting", !.task = "start", !.gen = gen, !.goal = goal])
BY DEF Sound, CallState, Idle, Await, AtRoom

LEMMA StartupFields ==
  TypeOK => /\ startup.gen \in Nat
            /\ startup.by \in Call \cup {None}
            /\ \A c \in Call : call[c].gen \in Nat /\ call[c].next \in Nat
                               /\ call[c].goal \in Room \cup {None}
                               /\ call[c].todo \subseteq Room
BY TypeByCall DEF StartupEntry, CallState

-----------------------------------------------------------------------------

\* Every action keeps the types. What is shared by several actions comes first.
LEMMA BeginType ==
  ASSUME TypeOK, NEW c \in Call, NEW goal \in Room \cup {None}, Begin(c, goal)
  PROVE  /\ startup' \in StartupEntry
         /\ call' \in [Call -> CallState]
         /\ \A d \in Call : Sound(call'[d])
<1>1. CASE /\ startup.status \in {"starting", "stopping"}
           /\ call' = [call EXCEPT ![c] =
                         IF startup.by = None THEN Idle
                         ELSE [Idle EXCEPT !.pc = "waiting", !.on = startup.by, !.goal = goal]]
           /\ UNCHANGED startup
  <2>1. startup.by # None =>
          Sound([Idle EXCEPT !.pc = "waiting", !.on = startup.by, !.goal = goal])
    BY StartupFields DEF Sound, CallState, Idle, Await, AtRoom
  <2>2. Sound(IF startup.by = None THEN Idle
              ELSE [Idle EXCEPT !.pc = "waiting", !.on = startup.by, !.goal = goal])
    BY <2>1, IdleSound
  <2>3. QED BY <1>1, <2>2, OneCall, TypeByCall
<1>2. CASE /\ startup.status = "active" /\ runtime # 0
           /\ call' = [call EXCEPT ![c] = Started(goal, runtime, startup.gen)]
           /\ UNCHANGED startup
  <2>1. Sound(Started(goal, runtime, startup.gen))
    BY StartedSound, StartupFields, TypeByCall
  <2>2. QED BY <1>2, <2>1, OneCall, TypeByCall
<1>3. CASE BeginAtOnce(c, goal)
  <2> DEFINE k == [Idle EXCEPT !.pc = "starting", !.task = "start",
                               !.gen = startup.gen + 1, !.goal = goal]
  <2>n. startup.gen + 1 \in Nat
    BY StartupFields
  <2>1. Sound(k)
    BY <2>n, StartingSound
  <2> HIDE DEF k
  <2>2. startup' \in StartupEntry
    BY <1>3, StartupFields DEF BeginAtOnce, StartupEntry
  <2>3. call' = [call EXCEPT ![c] = k]
    BY <1>3 DEF BeginAtOnce, k
  <2>4. QED BY <2>1, <2>2, <2>3, OneCall
<1>4. QED BY <1>1, <1>2, <1>3 DEF Begin

LEMMA StartFailsType ==
  ASSUME TypeOK, NEW c \in Call, StartFails(c)
  PROVE  TypeOK'
<1>1. startup' \in StartupEntry
  BY StartupFields DEF StartFails, StartupEntry
<1>2. call' \in [Call -> CallState] /\ \A d \in Call : Sound(call'[d])
  BY Settled, IdleSound DEF StartFails
<1>3. QED BY <1>1, <1>2, TypeByCall, TypeByCallNext DEF StartFails, stored

LEMMA ReturnType ==
  ASSUME TypeOK, NEW c \in Call, Return(c)
  PROVE  /\ call' \in [Call -> CallState]
         /\ \A d \in Call : Sound(call'[d])
BY IdleSound, OneCall DEF Return

LEMMA AdvanceType ==
  ASSUME TypeOK, NEW c \in Call, NEW todo \in SUBSET Room, Advance(c, todo)
  PROVE  /\ runtime' \in Nat
         /\ call' \in [Call -> CallState]
         /\ \A d \in Call : Sound(call'[d])
<1>1. CASE ~Current(c)
  <2>1. runtime' = 0 /\ call' = Settle(c, Idle, TRUE)
    BY <1>1 DEF Advance
  <2>2. QED BY <2>1, Settled, IdleSound
<1>2. CASE Current(c) /\ GoOn(c, "activating")
  BY <1>2, OneGoesOn, TypeByCall DEF Advance, Await, AtRoom
<1>3. CASE Current(c) /\ \E r \in todo :
             call' = [call EXCEPT ![c] = [call[c] EXCEPT !.pc = "verifying", !.room = r,
                                                         !.todo = todo \ {r}]]
  <2>1. PICK r \in todo :
             call' = [call EXCEPT ![c] = [call[c] EXCEPT !.pc = "verifying", !.room = r,
                                                         !.todo = todo \ {r}]]
    BY <1>3
  <2>2. call[c] \in CallState
    BY TypeByCall
  <2>3. Sound([call[c] EXCEPT !.pc = "verifying", !.room = r, !.todo = todo \ {r}])
    BY <2>2 DEF Sound, CallState, Await
  <2>4. QED BY <1>3, <2>1, <2>3, OneCall, TypeByCall DEF Advance
<1>4. QED BY <1>1, <1>2, <1>3 DEF Advance

LEMMA ArmType ==
  ASSUME TypeOK, NEW c \in Call, call[c].room \in Room, Arm(c)
  PROVE  /\ runtime' \in Nat
         /\ timers' \subseteq Room
         /\ call' \in [Call -> CallState]
         /\ \A d \in Call : Sound(call'[d])
<1>1. timers' \subseteq Room
  BY TypeByCall DEF Arm
<1>2. CASE call[c].task = "start"
  BY <1>1, <1>2, AdvanceType, StartupFields DEF Arm
<1>3. CASE call[c].task # "start"
  BY <1>1, <1>3, ReturnType, TypeByCall DEF Arm
<1>4. QED BY <1>2, <1>3

\* Where a call is, it has what it needs.
LEMMA HasRoom == TypeOK => \A c \in Call : call[c].pc \in AtRoom => call[c].room \in Room
BY TypeByCall DEF Sound

\* A start, and whatever it waits for, keeps the types.
LEMMA StartStepType ==
  ASSUME TypeOK, NEW c \in Call,
         \/ Wake(c) \/ Load(c) \/ LoadFails(c) \/ Build(c) \/ ListRooms(c) \/ Verify(c)
         \/ Activate(c) \/ StoreFails(c) \/ Stop(c) \/ StopFails(c)
  PROVE  TypeOK'
<1>1. CASE Wake(c)
  BY <1>1, BeginType, StartupFields, TypeByCall, TypeByCallNext DEF Wake, stored
<1>2. CASE Load(c)
  <2>1. "building" \in Await /\ "building" \notin AtRoom
    BY DEF Await, AtRoom
  <2>2. QED BY <1>2, <2>1, OneGoesOn, TypeByCall, TypeByCallNext DEF Load, memory, stored
<1>3. CASE LoadFails(c)
  BY <1>3, StartFailsType DEF LoadFails
<1>4. CASE Build(c)
  <2>1. CASE Current(c)
    <3>1. "listing" \in Await /\ "listing" \notin AtRoom
      BY DEF Await, AtRoom
    <3>2. call' \in [Call -> CallState] /\ \A d \in Call : Sound(call'[d])
      BY <1>4, <2>1, <3>1, OneGoesOn DEF Build
    <3>3. runtime' \in Nat
      BY <1>4, <2>1, StartupFields DEF Build
    <3>4. QED BY <1>4, <3>2, <3>3, TypeByCall, TypeByCallNext DEF Build, stored
  <2>2. CASE ~Current(c)
    <3>1. Sound(Started(call[c].goal, runtime, startup.gen))
      BY StartedSound, StartupFields, TypeByCall
    <3>2. call' \in [Call -> CallState] /\ \A d \in Call : Sound(call'[d])
      BY <1>4, <2>2, <3>1, Settled DEF Build
    <3>3. QED BY <1>4, <2>2, <3>2, TypeByCall, TypeByCallNext DEF Build, stored
  <2>3. QED BY <2>1, <2>2
<1>5. CASE ListRooms(c)
  <2>1. {r \in Room : room[r] = "active"} \in SUBSET Room
    OBVIOUS
  <2>2. QED BY <1>5, <2>1, AdvanceType, TypeByCall, TypeByCallNext DEF ListRooms, stored
<1>6. CASE Verify(c)
  <2>1. call[c].room \in Room
    BY <1>6, HasRoom DEF Verify, AtRoom
  <2>2. {"joining", "closing"} \subseteq Await \ {"waiting"}
    BY DEF Await
  <2>3. runtime' \in Nat /\ call' \in [Call -> CallState] /\ \A d \in Call : Sound(call'[d])
    BY <1>6, <2>1, <2>2, OneGoesOn, AdvanceType, StartupFields, TypeByCall DEF Verify
  <2>4. QED BY <1>6, <2>3, TypeByCall, TypeByCallNext DEF Verify, stored
<1>7. CASE Activate(c)
  <2>1. Sound(Started(call[c].goal, runtime, startup.gen))
    BY StartedSound, StartupFields, TypeByCall
  <2>2. startup' \in StartupEntry
    BY <1>7, StartupFields, TypeByCall DEF Activate, StartupEntry
  <2>3. call' \in [Call -> CallState] /\ \A d \in Call : Sound(call'[d])
    BY <1>7, <2>1, Settled DEF Activate
  <2>4. QED BY <1>7, <2>2, <2>3, TypeByCall, TypeByCallNext DEF Activate
<1>8. CASE StoreFails(c)
  BY <1>8, StartFailsType, ReturnType, TypeByCall, TypeByCallNext
     DEF StoreFails, memory, stored
<1>9. CASE Stop(c)
  <2>1. startup' \in StartupEntry
    BY <1>9, StartupFields, TypeByCall DEF Stop, StartupEntry
  <2>2. call' \in [Call -> CallState] /\ \A d \in Call : Sound(call'[d])
    BY <1>9, Settled, IdleSound DEF Stop
  <2>3. QED BY <1>9, <2>1, <2>2, TypeByCall, TypeByCallNext DEF Stop
<1>10. CASE StopFails(c)
  <2>1. startup' \in StartupEntry
    BY <1>10, TypeByCall DEF StopFails, StartupEntry
  <2>2. call' \in [Call -> CallState] /\ \A d \in Call : Sound(call'[d])
    BY <1>10, Settled, IdleSound DEF StopFails
  <2>3. QED BY <1>10, <2>1, <2>2, TypeByCall, TypeByCallNext DEF StopFails, stored
<1>11. QED
  BY <1>1, <1>2, <1>3, <1>4, <1>5, <1>6, <1>7, <1>8, <1>9, <1>10

\* A call at work on a room keeps the types.
LEMMA RoomStepType ==
  ASSUME TypeOK, NEW c \in Call,
         \/ Enter(c) \/ Join(c) \/ JoinFails(c) \/ Check(c) \/ Ping(c)
         \/ Leave(c) \/ ClearLeft(c) \/ Sync(c) \/ Close(c)
         \/ Refuse(c) \/ Revoke(c) \/ FailBot(c) \/ Resume(c)
  PROVE  TypeOK'
<1> DEFINE CallsTyped == call' \in [Call -> CallState] /\ \A d \in Call : Sound(call'[d])
<1>r. call[c].room \in Room
  <2>1. call[c].pc \in AtRoom
    BY DEF Enter, Join, JoinFails, Check, Ping, Leave, ClearLeft, Sync, Close, Refuse,
           Revoke, FailBot, Resume, AtRoom
  <2>2. QED BY <2>1, HasRoom
<1>a. AtRoom \subseteq Await \ {"waiting"}
  BY DEF AtRoom, Await
<1>g. \A pc \in AtRoom : GoOn(c, pc) => CallsTyped
  BY <1>r, <1>a, OneGoesOn
<1>s. RoomStatus = {"joining", "active", "inactive", "error"}
  BY DEF RoomStatus
<1>1. CASE Enter(c)
  BY <1>1, <1>g, <1>s, TypeByCall, TypeByCallNext DEF Enter, memory, AtRoom
<1>2. CASE Join(c)
  BY <1>2, <1>g, <1>s, TypeByCall, TypeByCallNext DEF Join, memory, AtRoom
<1>3. CASE JoinFails(c)
  BY <1>3, StartFailsType, ReturnType, TypeByCall, TypeByCallNext
     DEF JoinFails, memory, stored
<1>4. CASE Check(c)
  <2>1. runtime' \in Nat /\ CallsTyped
    BY <1>4, <1>g, AdvanceType, ReturnType, StartupFields, TypeByCall DEF Check, AtRoom
  <2>2. QED BY <1>4, <2>1, TypeByCall, TypeByCallNext DEF Check, stored
<1>5. CASE Ping(c)
  <2>1. runtime' \in Nat /\ timers' \subseteq Room /\ CallsTyped
    BY <1>5, <1>r, ArmType, ReturnType, TypeByCall DEF Ping
  <2>2. QED BY <1>5, <2>1, TypeByCall, TypeByCallNext DEF Ping, stored
<1>6. CASE Leave(c)
  <2>1. CallsTyped
    BY <1>6, <1>g, ReturnType DEF Leave, AtRoom
  <2>2. QED BY <1>6, <1>s, <2>1, TypeByCall, TypeByCallNext DEF Leave, memory
<1>7. CASE ClearLeft(c)
  BY <1>7, ReturnType, TypeByCall, TypeByCallNext DEF ClearLeft, stored
<1>8. CASE Sync(c)
  <2>1. CallsTyped
    BY <1>8, <1>g, ReturnType DEF Sync, AtRoom
  <2>2. QED BY <1>8, <2>1, TypeByCall, TypeByCallNext DEF Sync, memory, stored
<1>9. CASE Close(c)
  <2>1. CallsTyped /\ runtime' \in Nat /\ timers' \subseteq Room
    BY <1>9, AdvanceType, ReturnType, StartupFields, TypeByCall DEF Close
  <2>2. QED BY <1>9, <1>s, <2>1, TypeByCall, TypeByCallNext DEF Close
<1>10. CASE Refuse(c)
  <2>1. Sound([call[c] EXCEPT !.pc = "revoking", !.after = call[c].pc])
    BY <1>10, <1>r, TypeByCall DEF Refuse, Sound, CallState, Await
  <2>2. CallsTyped
    BY <1>10, <2>1, OneCall DEF Refuse
  <2>3. QED BY <1>10, <2>2, TypeByCall, TypeByCallNext DEF Refuse, memory, stored
<1>11. CASE Revoke(c)
  <2>1. startup.gen + 1 \in Nat
    BY StartupFields
  <2>2. Sound([call[c] EXCEPT !.pc = "failing", !.next = startup.gen + 1])
    BY <1>r, <2>1, TypeByCall DEF Sound, CallState, Await
  <2>3. CallsTyped
    BY <1>11, <2>2, OneCall DEF Revoke
  <2>4. QED BY <1>11, <2>3, TypeByCall, TypeByCallNext DEF Revoke
<1>12. CASE FailBot(c)
  <2>1. CallsTyped
    BY <1>12, <1>g, ReturnType DEF FailBot, AtRoom
  <2>2. startup' \in StartupEntry
    BY <1>12, StartupFields DEF FailBot, StartupEntry
  <2>3. room' \in [Room -> RoomStatus]
    BY <1>12, <1>s, TypeByCall DEF FailBot
  <2>4. QED BY <1>12, <2>1, <2>2, <2>3, TypeByCall, TypeByCallNext DEF FailBot
<1>13. CASE Resume(c)
  <2>1. runtime' \in Nat /\ timers' \subseteq Room /\ CallsTyped
    BY <1>13, <1>r, ArmType, AdvanceType, StartupFields, TypeByCall DEF Resume
  <2>2. QED BY <1>13, <2>1, TypeByCall, TypeByCallNext DEF Resume, stored
<1>14. QED
  BY <1>1, <1>2, <1>3, <1>4, <1>5, <1>6, <1>7, <1>8, <1>9, <1>10, <1>11, <1>12, <1>13

\* A request, or an interval that fires, keeps the types.
LEMMA RequestType ==
  ASSUME TypeOK, NEW c \in Call,
         \/ StartRequest(c) \/ StopRequest(c)
         \/ \E r \in Room : \/ JoinRequest(c, r) \/ LeaveRequest(c, r)
                            \/ Tick(c, r, "syncing") \/ Tick(c, r, "pinging")
  PROVE  TypeOK'
<1>1. CASE StartRequest(c)
  BY <1>1, BeginType, TypeByCall, TypeByCallNext DEF StartRequest, stored
<1>2. CASE StopRequest(c)
  <2>1. startup.gen + 1 \in Nat
    BY StartupFields
  <2>2. startup' \in StartupEntry
    BY <1>2, <2>1 DEF StopRequest, StartupEntry
  <2>3. Sound([Idle EXCEPT !.pc = "stopping", !.gen = startup.gen + 1])
    BY <2>1 DEF Sound, CallState, Idle, Await, AtRoom
  <2>4. call' \in [Call -> CallState] /\ \A d \in Call : Sound(call'[d])
    BY <1>2, <2>3, OneCall DEF StopRequest
  <2>5. QED BY <1>2, <2>2, <2>4, TypeByCall, TypeByCallNext DEF StopRequest, stored
<1>3. ASSUME NEW r \in Room, JoinRequest(c, r) PROVE TypeOK'
  BY <1>3, BeginType, TypeByCall, TypeByCallNext DEF JoinRequest, stored
<1>4. ASSUME NEW r \in Room, LeaveRequest(c, r) PROVE TypeOK'
  <2>1. Sound([Idle EXCEPT !.pc = "leaving", !.room = r])
    BY DEF Sound, CallState, Idle, Await, AtRoom
  <2>2. QED
    BY <1>4, <2>1, OneCall, TypeByCall, TypeByCallNext DEF LeaveRequest, memory, stored
<1>5. ASSUME NEW r \in Room, NEW pc \in {"syncing", "pinging"}, Tick(c, r, pc)
      PROVE  TypeOK'
  <2>1. Sound([Idle EXCEPT !.pc = pc, !.task = "timer", !.room = r])
    BY DEF Sound, CallState, Idle, Await, AtRoom
  <2>2. QED BY <1>5, <2>1, OneCall, TypeByCall, TypeByCallNext DEF Tick, memory, stored
<1>6. QED BY <1>1, <1>2, <1>3, <1>4, <1>5

LEMMA TypeStep == TypeOK /\ [Next]_vars => TypeOK'
<1>1. ASSUME TypeOK, NEW c \in Call, Step(c) PROVE TypeOK'
  BY <1>1, StartStepType, RoomStepType DEF Step
<1>2. TypeOK /\ UNCHANGED vars => TypeOK'
  BY DEF TypeOK, vars, memory, stored
<1>3. QED BY <1>1, <1>2, RequestType DEF Next

\* Memory, documents and calls keep the shapes the code gives them, whatever fails.
THEOREM TypeInvariant == Spec => []TypeOK
<1>1. Init => TypeOK
  BY IdleSound, TypeByCall DEF Init, StartupEntry, RoomStatus
<1>2. QED BY <1>1, TypeStep, PTL DEF Spec

-----------------------------------------------------------------------------

\* What a call is about, wherever it is: a start, a join, an interval or nothing.
LEMMA IdleTasked ==
  /\ Tasked(Idle)
  /\ \A goal \in Room \cup {None}, rt, gen \in Nat : Tasked(Started(goal, rt, gen))
  /\ \A k : k.pc \in {"idle", "waiting", "woken", "stopping", "leaving", "left",
                     "closing"} => Tasked(k)
BY DEF Tasked, Started, Idle

LEMMA OneTasked ==
  ASSUME TypeOK, TasksAgree, NEW c \in Call, NEW k, Tasked(k), call' = [call EXCEPT ![c] = k]
  PROVE  TasksAgree'
<1>1. call'[c] = k /\ \A d \in Call : d # c => call'[d] = call[d]
  BY TypeByCall
<1>2. QED BY <1>1 DEF TasksAgree, Tasked

LEMMA GoOnTasked ==
  ASSUME TypeOK, TasksAgree, NEW c \in Call, NEW pc, GoOn(c, pc),
         pc \in {"building", "listing", "verifying", "activating"} => call[c].task = "start",
         pc \in {"joining", "checking", "refused"} => call[c].task \in {"start", "join"},
         pc = "pinging" => call[c].task # "none",
         pc \notin {"starting", "entering", "revoking", "failing", "syncing"},
         pc = "refused" => call[c].task = "start" \/ call[c].after = "pinging"
  PROVE  TasksAgree'
<1>1. call' = [call EXCEPT ![c] = [call[c] EXCEPT !.pc = pc]] /\ call[c] \in CallState
  BY TypeByCall DEF GoOn
<1>2. Tasked([call[c] EXCEPT !.pc = pc])
  BY <1>1 DEF Tasked, CallState
<1>3. QED BY <1>1, <1>2, OneTasked

LEMMA SettleTasked ==
  ASSUME TypeOK, TasksAgree, NEW c \in Call, NEW k, Sound(k), Tasked(k), NEW ok \in BOOLEAN,
         call' = Settle(c, k, ok)
  PROVE  TasksAgree'
<1>1. ASSUME NEW d \in Call, d # c PROVE Tasked(call'[d])
  <2>1. Tasked([call[d] EXCEPT !.pc = "woken"])
    BY TypeByCall DEF Tasked, CallState
  <2>2. call'[d] = Woken(c, d, ok)
    BY <1>1, Settled
  <2>3. QED BY <2>1, <2>2, IdleTasked DEF Woken, TasksAgree
<1>2. call'[c] = k
  BY Settled
<1>3. QED BY <1>1, <1>2 DEF TasksAgree, Tasked

LEMMA ReturnTasked ==
  ASSUME TypeOK, TasksAgree, NEW c \in Call, Return(c)
  PROVE  TasksAgree'
BY IdleTasked, OneTasked DEF Return

LEMMA StartFailsTasked ==
  ASSUME TypeOK, TasksAgree, NEW c \in Call, StartFails(c)
  PROVE  TasksAgree'
BY IdleTasked, IdleSound, SettleTasked DEF StartFails

LEMMA BeginTasked ==
  ASSUME TypeOK, TasksAgree, NEW c \in Call, NEW goal \in Room \cup {None}, Begin(c, goal)
  PROVE  TasksAgree'
<1>1. Tasked(Started(goal, runtime, startup.gen)) /\ Tasked(Idle)
  BY IdleTasked, StartupFields, TypeByCall
<1>2. Tasked([Idle EXCEPT !.pc = "waiting", !.on = startup.by, !.goal = goal])
  BY DEF Tasked, Idle
<1>3. Tasked([Idle EXCEPT !.pc = "starting", !.task = "start", !.gen = startup.gen + 1,
                          !.goal = goal])
  BY DEF Tasked, Idle
<1>4. QED BY <1>1, <1>2, <1>3, OneTasked DEF Begin, BeginAtOnce

LEMMA AdvanceTasked ==
  ASSUME TypeOK, TasksAgree, NEW c \in Call, NEW todo \in SUBSET Room, Advance(c, todo),
         call[c].task = "start"
  PROVE  TasksAgree'
<1>1. CASE ~Current(c)
  <2>1. call' = Settle(c, Idle, TRUE)
    BY <1>1 DEF Advance
  <2>2. QED BY <2>1, IdleSound, IdleTasked, SettleTasked
<1>2. CASE Current(c) /\ GoOn(c, "activating")
  BY <1>2, GoOnTasked
<1>3. CASE Current(c) /\ \E r \in todo :
             call' = [call EXCEPT ![c] = [call[c] EXCEPT !.pc = "verifying", !.room = r,
                                                         !.todo = todo \ {r}]]
  <2>1. PICK r \in todo :
             call' = [call EXCEPT ![c] = [call[c] EXCEPT !.pc = "verifying", !.room = r,
                                                         !.todo = todo \ {r}]]
    BY <1>3
  <2>2. Tasked([call[c] EXCEPT !.pc = "verifying", !.room = r, !.todo = todo \ {r}])
    BY TypeByCall DEF Tasked, CallState
  <2>3. QED BY <2>1, <2>2, OneTasked
<1>4. QED BY <1>1, <1>2, <1>3 DEF Advance

LEMMA ArmTasked ==
  ASSUME TypeOK, TasksAgree, NEW c \in Call, Arm(c)
  PROVE  TasksAgree'
BY AdvanceTasked, ReturnTasked, StartupFields DEF Arm

LEMMA TasksStep == TypeOK /\ TasksAgree /\ [Next]_vars => TasksAgree'
<1> SUFFICES ASSUME TypeOK, TasksAgree, [Next]_vars PROVE TasksAgree'
  OBVIOUS
<1>k. \A c \in Call : Tasked(call[c]) /\ call[c] \in CallState
  BY TypeByCall DEF TasksAgree
<1>1. ASSUME NEW c \in Call, Wake(c) PROVE TasksAgree'
  BY <1>1, BeginTasked, StartupFields DEF Wake
<1>2. ASSUME NEW c \in Call, Load(c) PROVE TasksAgree'
  BY <1>2, <1>k, GoOnTasked DEF Load, Tasked
<1>3. ASSUME NEW c \in Call, LoadFails(c) PROVE TasksAgree'
  BY <1>3, StartFailsTasked DEF LoadFails
<1>4. ASSUME NEW c \in Call, Build(c) PROVE TasksAgree'
  <2>1. CASE Current(c)
    BY <1>4, <1>k, <2>1, GoOnTasked DEF Build, Tasked
  <2>2. CASE ~Current(c)
    <3>1. Sound(Started(call[c].goal, runtime, startup.gen))
          /\ Tasked(Started(call[c].goal, runtime, startup.gen))
      BY StartedSound, IdleTasked, StartupFields, TypeByCall
    <3>2. QED BY <1>4, <2>2, <3>1, SettleTasked DEF Build
  <2>3. QED BY <2>1, <2>2
<1>5. ASSUME NEW c \in Call, ListRooms(c) PROVE TasksAgree'
  <2>1. {r \in Room : room[r] = "active"} \in SUBSET Room
    OBVIOUS
  <2>2. QED BY <1>5, <1>k, <2>1, AdvanceTasked DEF ListRooms, Tasked
<1>6. ASSUME NEW c \in Call, Verify(c) PROVE TasksAgree'
  BY <1>6, <1>k, AdvanceTasked, GoOnTasked, StartupFields DEF Verify, Tasked
<1>7. ASSUME NEW c \in Call, Activate(c) PROVE TasksAgree'
  <2>1. Sound(Started(call[c].goal, runtime, startup.gen))
        /\ Tasked(Started(call[c].goal, runtime, startup.gen))
    BY StartedSound, IdleTasked, StartupFields, TypeByCall
  <2>2. QED BY <1>7, <2>1, SettleTasked DEF Activate
<1>8. ASSUME NEW c \in Call, StoreFails(c) PROVE TasksAgree'
  BY <1>8, StartFailsTasked, ReturnTasked DEF StoreFails
<1>9. ASSUME NEW c \in Call, Stop(c) \/ StopFails(c) PROVE TasksAgree'
  BY <1>9, IdleSound, IdleTasked, SettleTasked DEF Stop, StopFails
<1>10. ASSUME NEW c \in Call, Enter(c) PROVE TasksAgree'
  BY <1>10, <1>k, GoOnTasked DEF Enter, Tasked
<1>11. ASSUME NEW c \in Call, Join(c) PROVE TasksAgree'
  BY <1>11, <1>k, GoOnTasked DEF Join, Tasked
<1>12. ASSUME NEW c \in Call, JoinFails(c) PROVE TasksAgree'
  BY <1>12, StartFailsTasked, ReturnTasked DEF JoinFails
<1>13. ASSUME NEW c \in Call, Check(c) PROVE TasksAgree'
  BY <1>13, <1>k, GoOnTasked, AdvanceTasked, ReturnTasked, StartupFields DEF Check, Tasked
<1>14. ASSUME NEW c \in Call, Ping(c) PROVE TasksAgree'
  BY <1>14, ArmTasked, ReturnTasked DEF Ping
<1>15. ASSUME NEW c \in Call, Leave(c) PROVE TasksAgree'
  BY <1>15, GoOnTasked, ReturnTasked DEF Leave
<1>16. ASSUME NEW c \in Call, ClearLeft(c) PROVE TasksAgree'
  BY <1>16, ReturnTasked DEF ClearLeft
<1>17. ASSUME NEW c \in Call, Sync(c) PROVE TasksAgree'
  BY <1>17, GoOnTasked, ReturnTasked DEF Sync
<1>18. ASSUME NEW c \in Call, Close(c) PROVE TasksAgree'
  BY <1>18, AdvanceTasked, ReturnTasked, StartupFields DEF Close
<1>19. ASSUME NEW c \in Call, Refuse(c) PROVE TasksAgree'
  <2>1. Tasked([call[c] EXCEPT !.pc = "revoking", !.after = call[c].pc])
    BY <1>19, <1>k DEF Refuse, Tasked, CallState
  <2>2. QED BY <1>19, <2>1, OneTasked DEF Refuse
<1>20. ASSUME NEW c \in Call, Revoke(c) PROVE TasksAgree'
  <2>1. Tasked([call[c] EXCEPT !.pc = "failing", !.next = startup.gen + 1])
    BY <1>20, <1>k DEF Revoke, Tasked, CallState
  <2>2. QED BY <1>20, <2>1, OneTasked DEF Revoke
<1>21. ASSUME NEW c \in Call, FailBot(c) PROVE TasksAgree'
  <2>1. call[c].task # "timer" => call[c].task \in {"start", "join"}
    BY <1>21, <1>k DEF FailBot, Tasked, CallState
  <2>2. call[c].task = "start" \/ call[c].after = "pinging"
    BY <1>21, <1>k DEF FailBot, Tasked
  <2>3. QED BY <1>21, <2>1, <2>2, GoOnTasked, ReturnTasked DEF FailBot
<1>22. ASSUME NEW c \in Call, Resume(c) PROVE TasksAgree'
  BY <1>22, <1>k, ArmTasked, AdvanceTasked, StartupFields DEF Resume, Tasked
<1>23. ASSUME NEW c \in Call, StartRequest(c) PROVE TasksAgree'
  BY <1>23, BeginTasked DEF StartRequest
<1>24. ASSUME NEW c \in Call, StopRequest(c) PROVE TasksAgree'
  <2>1. Tasked([Idle EXCEPT !.pc = "stopping", !.gen = startup.gen + 1])
    BY DEF Tasked, Idle
  <2>2. QED BY <1>24, <2>1, OneTasked DEF StopRequest
<1>25. ASSUME NEW c \in Call, NEW r \in Room, JoinRequest(c, r) PROVE TasksAgree'
  BY <1>25, BeginTasked DEF JoinRequest
<1>26. ASSUME NEW c \in Call, NEW r \in Room, LeaveRequest(c, r) PROVE TasksAgree'
  <2>1. Tasked([Idle EXCEPT !.pc = "leaving", !.room = r])
    BY DEF Tasked, Idle
  <2>2. QED BY <1>26, <2>1, OneTasked DEF LeaveRequest
<1>27. ASSUME NEW c \in Call, NEW r \in Room, NEW pc \in {"syncing", "pinging"}, Tick(c, r, pc)
       PROVE  TasksAgree'
  <2>1. Tasked([Idle EXCEPT !.pc = pc, !.task = "timer", !.room = r])
    BY DEF Tasked, Idle
  <2>2. QED BY <1>27, <2>1, OneTasked DEF Tick
<1>28. CASE UNCHANGED vars
  BY <1>28 DEF TasksAgree, Tasked, vars
<1>29. QED
  BY <1>1, <1>2, <1>3, <1>4, <1>5, <1>6, <1>7, <1>8, <1>9, <1>10, <1>11, <1>12, <1>13,
     <1>14, <1>15, <1>16, <1>17, <1>18, <1>19, <1>20, <1>21, <1>22, <1>23, <1>24, <1>25,
     <1>26, <1>27, <1>28 DEF Next, Step

-----------------------------------------------------------------------------

\* A start that has not returned, as Starting says of the call.
StartAwaits ==
  {"starting", "building", "listing", "verifying", "joining", "checking", "pinging",
   "activating", "closing", "revoking", "failing", "refused"}

Begun(k) == k.pc \in StartAwaits /\ k.task = "start"

LEMMA StartingIsBegun == \A c \in Call : Starting(c) <=> Begun(call[c])
BY DEF Starting, Begun, StartAwaits

\* What a call may become while the entry stays as it is: a call that no transition
\* concerns, the same call later on, or a join that has found the bot running.
Calm(k) == k.gen = 0 /\ k.task \in {"none", "timer"} /\ k.pc # "stopping"

Follows(k, j) ==
  /\ k.gen = j.gen /\ k.task = j.task
  /\ k.pc = "stopping" => j.pc = "stopping"
  /\ Begun(k) => Begun(j)

Joins(k) ==
  /\ k.task = "join" /\ k.gen = startup.gen /\ k.pc # "stopping"
  /\ startup.status \in {"starting", "active"}

Goes(d) == Calm(call'[d]) \/ Follows(call'[d], call[d]) \/ Joins(call'[d])

\* Such steps keep what is said of the generations.
LEMMA CallsGo ==
  ASSUME TypeOK, GenerationsAgree, OneCurrentStart, UNCHANGED startup,
         \A d \in Call : Goes(d)
  PROVE  GenerationsAgree' /\ OneCurrentStart'
<1> SUFFICES ASSUME NEW d \in Call
             PROVE  /\ call'[d].gen <= startup.gen
                    /\ call'[d].pc = "stopping" /\ call'[d].gen = startup.gen =>
                         startup.status = "stopping" /\ startup.by = d
                    /\ call'[d].task = "join" /\ call'[d].gen = startup.gen =>
                         startup.status \in {"starting", "active"}
                    /\ Begun(call'[d]) /\ call'[d].gen = startup.gen =>
                         startup.status = "starting" /\ startup.by = d
  BY DEF GenerationsAgree, OneCurrentStart, Starting, Begun, StartAwaits, Current
<1>1. startup.gen \in Nat
  BY StartupFields
<1>2. CASE Calm(call'[d])
  BY <1>1, <1>2 DEF Calm, Begun
<1>3. CASE Follows(call'[d], call[d])
  BY <1>3, StartingIsBegun DEF Follows, GenerationsAgree, OneCurrentStart, Current
<1>4. CASE Joins(call'[d])
  BY <1>1, <1>4 DEF Joins, Begun
<1>5. QED BY <1>2, <1>3, <1>4 DEF Goes

\* A step of one call, to which every other call is indifferent.
LEMMA OneGoes ==
  ASSUME TypeOK, NEW c \in Call, NEW k, Sound(k), call' = [call EXCEPT ![c] = k],
         Calm(k) \/ Follows(k, call[c]) \/ Joins(k)
  PROVE  \A d \in Call : Goes(d)
<1>1. \A d \in Call : Follows(call[d], call[d])
  BY DEF Follows
<1>2. QED BY <1>1, OneCall DEF Goes

LEMMA IdleCalm == Calm(Idle)
BY IdleSound DEF Calm

LEMMA ReturnGoes ==
  ASSUME TypeOK, NEW c \in Call, Return(c)
  PROVE  \A d \in Call : Goes(d)
BY IdleSound, IdleCalm, OneGoes DEF Return

\* A call that goes on to a step of its own kind.
LEMMA GoOnGoes ==
  ASSUME TypeOK, NEW c \in Call, NEW pc \in Await, pc \notin {"waiting", "stopping"},
         pc \in AtRoom => call[c].room \in Room,
         call[c].task = "start" /\ pc \in StartAwaits => call[c].pc \in StartAwaits,
         GoOn(c, pc)
  PROVE  \A d \in Call : Goes(d)
<1>1. Follows([call[c] EXCEPT !.pc = pc], call[c])
  BY TypeByCall DEF Follows, Begun, CallState
<1>2. \A d \in Call : Follows(call[d], call[d])
  BY DEF Follows
<1>3. QED BY <1>1, <1>2, OneGoesOn DEF Goes

LEMMA SettleGoes ==
  ASSUME TypeOK, NEW c \in Call, NEW k, Sound(k), NEW ok \in BOOLEAN,
         call' = Settle(c, k, ok),
         Calm(k) \/ Follows(k, call[c]) \/ Joins(k)
  PROVE  \A d \in Call : Goes(d)
<1>1. ASSUME NEW d \in Call, d # c PROVE Calm(call'[d]) \/ Follows(call'[d], call[d])
  <2>1. Follows([call[d] EXCEPT !.pc = "woken"], call[d]) /\ Follows(call[d], call[d])
    BY TypeByCall DEF Follows, Begun, StartAwaits, CallState
  <2>2. call'[d] = Woken(c, d, ok)
    BY <1>1, Settled
  <2>3. QED BY <2>1, <2>2, IdleCalm DEF Woken
<1>2. QED BY <1>1, Settled DEF Goes

LEMMA AdvanceGoes ==
  ASSUME TypeOK, NEW c \in Call, NEW todo \in SUBSET Room, Advance(c, todo),
         call[c].pc \in StartAwaits
  PROVE  (\A d \in Call : Goes(d)) /\ runtime' \in {runtime, 0}
<1>1. CASE ~Current(c)
  <2>1. runtime' = 0 /\ call' = Settle(c, Idle, TRUE)
    BY <1>1 DEF Advance
  <2>2. QED BY <2>1, IdleSound, IdleCalm, SettleGoes
<1>2. CASE Current(c) /\ GoOn(c, "activating")
  <2>1. "activating" \in Await \ {"waiting", "stopping"} /\ "activating" \notin AtRoom
    BY DEF Await, AtRoom
  <2>2. QED BY <1>2, <2>1, GoOnGoes DEF Advance
<1>3. CASE Current(c) /\ \E r \in todo :
             call' = [call EXCEPT ![c] = [call[c] EXCEPT !.pc = "verifying", !.room = r,
                                                         !.todo = todo \ {r}]]
  <2>1. PICK r \in todo :
             call' = [call EXCEPT ![c] = [call[c] EXCEPT !.pc = "verifying", !.room = r,
                                                         !.todo = todo \ {r}]]
    BY <1>3
  <2>2. call[c] \in CallState
    BY TypeByCall
  <2> DEFINE k == [call[c] EXCEPT !.pc = "verifying", !.room = r, !.todo = todo \ {r}]
  <2>3. Sound(k)
    BY <2>2 DEF Sound, CallState, Await
  <2>4. Follows(k, call[c])
    BY <2>2 DEF Follows, Begun, CallState
  <2>5. \A d \in Call : Goes(d)
    BY <2>1, <2>3, <2>4, OneGoes
  <2>6. QED BY <1>3, <2>5 DEF Advance
<1>4. QED BY <1>1, <1>2, <1>3 DEF Advance

\* What startBot returns to: nothing, or a join, if there is a runtime.
LEMMA StartedGoes ==
  ASSUME IInv, startup.status # "error", NEW goal \in Room \cup {None}
  PROVE  Calm(Started(goal, runtime, startup.gen)) \/ Joins(Started(goal, runtime, startup.gen))
<1>1. CASE runtime = 0 \/ goal = None
  BY <1>1, IdleCalm DEF Started
<1>2. CASE runtime # 0 /\ goal # None
  <2>1. startup.status \in {"starting", "active"}
    BY <1>2, TypeByCall DEF IInv, StoppedIsQuiet, StartupEntry
  <2>2. QED BY <1>2, <2>1, IdleSound DEF Started, Joins, Idle
<1>3. QED BY <1>1, <1>2

-----------------------------------------------------------------------------

\* The inductive step up to the first failure of a start or of a credential. While
\* the entry stays as it is, timers may be armed only for a bot that is running.
LEMMA EntryStays ==
  ASSUME IInv, TypeOK', TasksAgree', UNCHANGED startup, \A d \in Call : Goes(d),
         runtime' \in {runtime, 0},
         timers' \subseteq timers \/ startup.status \notin {"stopping", "stopped"}
  PROVE  IInv'
<1>1. GenerationsAgree' /\ OneCurrentStart'
  BY CallsGo DEF IInv
<1>2. RuntimeIsCurrent' /\ StoppedIsQuiet' /\ (startup.status = "none" => runtime = 0)'
  BY DEF IInv, RuntimeIsCurrent, StoppedIsQuiet
<1>3. QED BY <1>1, <1>2 DEF IInv

\* A step that starts or stops the bot under a new generation: every other call is of
\* an earlier one.
LEMMA NewGeneration ==
  ASSUME IInv, TypeOK', TasksAgree', NEW c \in Call, NEW k, Sound(k), runtime' = 0,
         call' = [call EXCEPT ![c] = k], k.gen = startup.gen + 1,
         \/ /\ startup' = [status |-> "starting", gen |-> startup.gen + 1, by |-> c]
            /\ Begun(k) /\ k.pc # "stopping"
         \/ /\ startup' = [status |-> "stopping", gen |-> startup.gen + 1, by |-> c]
            /\ k.pc = "stopping" /\ k.task = "none" /\ timers' = {}
  PROVE  IInv'
<1>1. TypeOK /\ startup.gen \in Nat /\ startup'.gen = startup.gen + 1
  BY StartupFields DEF IInv
<1>2. call'[c] = k /\ \A d \in Call : d # c => call'[d] = call[d]
  BY <1>1, OneCall
<1>3. \A d \in Call : d # c => call'[d].gen \in Nat /\ call'[d].gen < startup'.gen
  BY <1>1, <1>2, StartupFields DEF IInv, GenerationsAgree
<1>4. GenerationsAgree'
  BY <1>1, <1>2, <1>3 DEF GenerationsAgree, Current, Begun
<1>5. OneCurrentStart'
  <2>1. \A d \in Call : Starting(d)' <=> Begun(call'[d])
    BY DEF Starting, Begun, StartAwaits
  <2>2. \A d \in Call : d # c => ~Current(d)'
    BY <1>1, <1>3 DEF Current
  <2>3. QED BY <1>2, <2>1, <2>2 DEF OneCurrentStart, Begun
<1>6. RuntimeIsCurrent' /\ StoppedIsQuiet' /\ (startup.status = "none" => runtime = 0)'
  BY DEF RuntimeIsCurrent, StoppedIsQuiet
<1>7. QED BY <1>4, <1>5, <1>6 DEF IInv

LEMMA BeginStep ==
  ASSUME IInv, TypeOK', TasksAgree', startup.status # "error", NEW c \in Call,
         NEW goal \in Room \cup {None}, Begin(c, goal),
         UNCHANGED <<runtime, timers>>
  PROVE  IInv'
<1>t. TypeOK
  BY DEF IInv
<1>1. CASE /\ startup.status \in {"starting", "stopping"}
           /\ call' = [call EXCEPT ![c] =
                         IF startup.by = None THEN Idle
                         ELSE [Idle EXCEPT !.pc = "waiting", !.on = startup.by, !.goal = goal]]
           /\ UNCHANGED startup
  <2> DEFINE k == IF startup.by = None THEN Idle
                  ELSE [Idle EXCEPT !.pc = "waiting", !.on = startup.by, !.goal = goal]
  <2>1. Sound(k)
    <3>1. startup.by # None =>
            Sound([Idle EXCEPT !.pc = "waiting", !.on = startup.by, !.goal = goal])
      BY <1>t, StartupFields DEF Sound, CallState, Idle, Await, AtRoom
    <3>2. QED BY <3>1, IdleSound
  <2>2. Calm(k)
    BY IdleCalm DEF Calm, Idle
  <2> HIDE DEF k
  <2>3. \A d \in Call : Goes(d)
    BY <1>t, <1>1, <2>1, <2>2, OneGoes DEF k
  <2>4. QED BY <1>1, <2>3, EntryStays
<1>2. CASE /\ startup.status = "active" /\ runtime # 0
           /\ call' = [call EXCEPT ![c] = Started(goal, runtime, startup.gen)]
           /\ UNCHANGED startup
  <2>1. Sound(Started(goal, runtime, startup.gen))
    BY <1>t, StartedSound, StartupFields, TypeByCall
  <2>2. \A d \in Call : Goes(d)
    BY <1>t, <1>2, <2>1, StartedGoes, OneGoes
  <2>3. QED BY <1>2, <2>2, EntryStays
<1>3. CASE /\ startup.status \notin {"starting", "stopping"}
           /\ ~(startup.status = "active" /\ runtime # 0)
           /\ BeginAtOnce(c, goal)
  <2> DEFINE k == [Idle EXCEPT !.pc = "starting", !.task = "start",
                               !.gen = startup.gen + 1, !.goal = goal]
  <2>1. startup.gen + 1 \in Nat
    BY <1>t, StartupFields
  <2>2. Sound(k)
    BY <2>1, StartingSound
  <2>3. Begun(k) /\ k.pc # "stopping" /\ k.gen = startup.gen + 1
    BY DEF Begun, StartAwaits, Idle
  <2>4. runtime = 0
    \* a bot that is stopped, was never started or runs without a runtime has none
    BY <1>t, <1>3, TypeByCall DEF IInv, StoppedIsQuiet, StartupEntry
  <2> HIDE DEF k
  <2>5. QED BY <1>3, <2>2, <2>3, <2>4, NewGeneration DEF BeginAtOnce, k
<1>4. QED BY <1>1, <1>2, <1>3 DEF Begin

LEMMA ActivateStep ==
  ASSUME IInv, TypeOK', TasksAgree', startup.status # "error", NEW c \in Call, call[c].task = "start",
         Activate(c)
  PROVE  IInv'
<1>t. TypeOK
  BY DEF IInv
<1>s. Sound(Started(call[c].goal, runtime, startup.gen))
  BY <1>t, StartedSound, StartupFields, TypeByCall
<1>g. /\ Calm(Started(call[c].goal, runtime, startup.gen))
         \/ Joins(Started(call[c].goal, runtime, startup.gen))
  BY <1>t, StartedGoes, StartupFields
<1>1. \A d \in Call : Goes(d)
  BY <1>t, <1>s, <1>g, SettleGoes DEF Activate
<1>2. CASE ~Current(c)
  BY <1>1, <1>2, EntryStays DEF Activate
<1>3. CASE Current(c)
  <2>1. startup.status = "starting" /\ startup.by = c /\ Starting(c)
    BY <1>3 DEF IInv, OneCurrentStart, Starting, Activate
  <2>2. startup' = [status |-> "active", gen |-> startup.gen, by |-> None]
    BY <1>3 DEF Activate, Current
  <2>3. \A d \in Call : d # c => Calm(call'[d]) \/ Follows(call'[d], call[d])
    <3>1. ASSUME NEW d \in Call, d # c
          PROVE  Calm(call'[d]) \/ Follows(call'[d], call[d])
      <4>1. call'[d] = Woken(c, d, TRUE)
        BY <1>t, <1>s, <3>1, Settled DEF Activate
      <4>2. Follows([call[d] EXCEPT !.pc = "woken"], call[d]) /\ Follows(call[d], call[d])
        BY <1>t, TypeByCall DEF Follows, Begun, StartAwaits, CallState
      <4>3. QED BY <4>1, <4>2 DEF Woken
    <3>2. QED BY <3>1
  <2>4. call'[c] = Started(call[c].goal, runtime, startup.gen)
    BY <1>t, <1>s, Settled DEF Activate
  <2>5. startup.gen \in Nat
    BY <1>t, StartupFields
  <2>6. ASSUME NEW d \in Call
        PROVE  /\ call'[d].gen <= startup.gen
               /\ ~(call'[d].pc = "stopping" /\ call'[d].gen = startup.gen)
               /\ ~(Begun(call'[d]) /\ call'[d].gen = startup.gen)
    <3>1. CASE Calm(call'[d])
      <4>1. call[c].gen = startup.gen /\ call'[d].gen = 0
        BY <1>3, <3>1 DEF Current, Calm
      <4>2. QED BY <2>5, <3>1, <4>1 DEF Calm, Begun
    <3>2. CASE d # c /\ Follows(call'[d], call[d])
      BY <2>1, <3>2, StartingIsBegun
         DEF Follows, IInv, GenerationsAgree, OneCurrentStart, Current
    <3>3. CASE d = c /\ Joins(call'[d])
      BY <2>5, <3>3 DEF Joins, Begun
    <3>4. QED BY <1>g, <2>3, <2>4, <3>1, <3>2, <3>3
  <2>7. GenerationsAgree'
    BY <2>2, <2>6 DEF GenerationsAgree, Current
  <2>8. OneCurrentStart'
    <3>1. \A d \in Call : Starting(d)' <=> Begun(call'[d])
      BY DEF Starting, Begun, StartAwaits
    <3>2. QED BY <2>2, <2>6, <3>1 DEF OneCurrentStart, Current
  <2>9. RuntimeIsCurrent' /\ StoppedIsQuiet' /\ (startup.status = "none" => runtime = 0)'
    BY <2>2 DEF Activate, IInv, RuntimeIsCurrent, StoppedIsQuiet
  <2>10. QED BY <2>7, <2>8, <2>9 DEF IInv
<1>4. QED BY <1>2, <1>3

\* A stop ends, or throws: what it leaves in the entry is quiet.
LEMMA StopEnds ==
  ASSUME IInv, TypeOK', TasksAgree', NEW c \in Call, call[c].pc = "stopping", NEW ok \in BOOLEAN,
         call' = Settle(c, Idle, ok), UNCHANGED <<runtime, timers>>,
         \/ UNCHANGED startup
         \/ Current(c) /\ startup' = [status |-> "stopped", gen |-> startup.gen, by |-> None]
         \/ startup.by = c /\ startup' = [startup EXCEPT !.by = None]
  PROVE  IInv'
<1>t. TypeOK /\ startup \in StartupEntry
  BY TypeByCall DEF IInv
<1>1. \A d \in Call : Goes(d)
  BY <1>t, IdleSound, IdleCalm, SettleGoes
<1>2. CASE UNCHANGED startup
  BY <1>1, <1>2, EntryStays
<1>3. ASSUME NEW d \in Call PROVE Calm(call'[d]) \/ (d # c /\ Follows(call'[d], call[d]))
  <2>1. Follows([call[d] EXCEPT !.pc = "woken"], call[d]) /\ Follows(call[d], call[d])
    BY <1>t, TypeByCall DEF Follows, Begun, StartAwaits, CallState
  <2>2. CASE d = c
    BY <1>t, <2>2, IdleSound, IdleCalm, Settled
  <2>3. CASE d # c
    <3>1. call'[d] = Woken(c, d, ok)
      BY <1>t, <2>3, IdleSound, Settled
    <3>2. QED BY <2>1, <2>3, <3>1, IdleCalm DEF Woken
  <2>4. QED BY <2>2, <2>3
<1>4. CASE \/ Current(c) /\ startup' = [status |-> "stopped", gen |-> startup.gen, by |-> None]
           \/ startup.by = c /\ startup' = [startup EXCEPT !.by = None]
  <2>1. startup.gen \in Nat /\ startup'.gen = startup.gen
    BY <1>t, <1>4 DEF StartupEntry
  <2>2. \/ startup.status = "stopping" /\ startup.by = c /\ startup'.status = "stopped"
        \/ startup.by = c /\ startup'.status = startup.status /\ startup'.by = None
    BY <1>t, <1>4 DEF IInv, GenerationsAgree, StartupEntry
  <2>3. ~Begun(call[c])
    BY DEF Begun, StartAwaits
  \* no other start or stop is current, for the entry names c
  <2>4. ASSUME NEW d \in Call
        PROVE  /\ call'[d].gen <= startup.gen
               /\ ~(call'[d].pc = "stopping" /\ call'[d].gen = startup.gen)
               /\ ~(Begun(call'[d]) /\ call'[d].gen = startup.gen)
               /\ call'[d].task = "join" /\ call'[d].gen = startup.gen =>
                    startup.status \in {"starting", "active"}
    <3>1. CASE Calm(call'[d])
      BY <2>1, <3>1 DEF Calm, Begun
    <3>2. CASE d # c /\ Follows(call'[d], call[d])
      BY <2>2, <2>3, <3>2, StartingIsBegun
         DEF Follows, IInv, GenerationsAgree, OneCurrentStart, Current
    <3>3. QED BY <1>3, <3>1, <3>2
  <2>5. GenerationsAgree'
    BY <2>1, <2>2, <2>4 DEF GenerationsAgree, Current
  <2>6. OneCurrentStart'
    <3>1. \A d \in Call : Starting(d)' <=> Begun(call'[d])
      BY DEF Starting, Begun, StartAwaits
    <3>2. QED BY <2>1, <2>4, <3>1 DEF OneCurrentStart, Current
  <2>7. RuntimeIsCurrent' /\ StoppedIsQuiet' /\ (startup.status = "none" => runtime = 0)'
    BY <2>1, <2>2 DEF IInv, RuntimeIsCurrent, StoppedIsQuiet
  <2>8. QED BY <2>5, <2>6, <2>7 DEF IInv
<1>5. QED BY <1>2, <1>4

\* The end of ensureRoomRuntime, of a start or of a join that is current or not.
LEMMA ArmStep ==
  ASSUME IInv, TypeOK', TasksAgree', startup.status # "error", NEW c \in Call,
         call[c].pc \in StartAwaits, call[c].task \in {"start", "join"},
         Arm(c), UNCHANGED startup
  PROVE  IInv'
<1>t. TypeOK
  BY DEF IInv
<1>1. timers' \subseteq timers \/ startup.status \notin {"stopping", "stopped"}
  <2>1. CASE ~Current(c)
    BY <2>1 DEF Arm
  <2>2. CASE Current(c)
    BY <2>2, StartingIsBegun DEF IInv, GenerationsAgree, OneCurrentStart, Begun
  <2>3. QED BY <2>1, <2>2
<1>2. runtime' \in {runtime, 0} /\ \A d \in Call : Goes(d)
  BY <1>t, AdvanceGoes, ReturnGoes, StartupFields DEF Arm
<1>3. QED BY <1>1, <1>2, EntryStays

\* A start goes on.
LEMMA StartStep ==
  ASSUME IInv, TypeOK', TasksAgree', startup.status # "error", startup'.status # "error",
         NEW c \in Call,
         \/ Wake(c) \/ Load(c) \/ LoadFails(c) \/ Build(c) \/ ListRooms(c) \/ Verify(c)
         \/ Activate(c) \/ StoreFails(c) \/ Stop(c) \/ StopFails(c)
  PROVE  IInv'
<1>t. TypeOK /\ Tasked(call[c])
  BY DEF IInv, TasksAgree
<1>f. ~StartFails(c)
  <2>1. StartFails(c) => startup' = [status |-> "error", gen |-> call[c].gen, by |-> None]
    BY DEF StartFails
  <2>2. QED BY <2>1
<1>1. CASE Wake(c)
  BY <1>1, <1>t, BeginStep, StartupFields DEF Wake
<1>2. CASE Load(c)
  <2>1. "building" \in Await \ {"waiting", "stopping"} /\ "building" \notin AtRoom
        /\ "starting" \in StartAwaits
    BY DEF Await, AtRoom, StartAwaits
  <2>2. \A d \in Call : Goes(d)
    BY <1>2, <1>t, <2>1, GoOnGoes DEF Load
  <2>3. QED BY <1>2, <2>2, EntryStays DEF Load, memory
<1>3. CASE LoadFails(c)
  BY <1>3, <1>f DEF LoadFails
<1>4. CASE Build(c)
  <2>1. CASE Current(c)
    <3>1. "listing" \in Await \ {"waiting", "stopping"} /\ "listing" \notin AtRoom
          /\ "building" \in StartAwaits
      BY DEF Await, AtRoom, StartAwaits
    <3>2. \A d \in Call : Goes(d)
      BY <1>4, <1>t, <2>1, <3>1, GoOnGoes DEF Build
    <3>3. GenerationsAgree' /\ OneCurrentStart'
      BY <1>4, <1>t, <3>2, CallsGo DEF Build, IInv
    <3>4. Starting(c)
      BY <1>4, <1>t DEF Build, Starting, Tasked
    <3>5. startup.status = "starting"
      BY <2>1, <3>4 DEF IInv, OneCurrentStart
    <3>6. runtime' = startup.gen
      BY <1>4, <2>1 DEF Build, Current
    <3>7. RuntimeIsCurrent' /\ StoppedIsQuiet' /\ (startup.status = "none" => runtime = 0)'
      BY <1>4, <3>5, <3>6 DEF Build, RuntimeIsCurrent, StoppedIsQuiet
    <3>8. QED BY <3>3, <3>7 DEF IInv
  <2>2. CASE ~Current(c)
    <3>1. Sound(Started(call[c].goal, runtime, startup.gen))
      BY <1>t, StartedSound, StartupFields, TypeByCall
    <3>2. \/ Calm(Started(call[c].goal, runtime, startup.gen))
          \/ Joins(Started(call[c].goal, runtime, startup.gen))
      BY <1>t, StartedGoes, StartupFields
    <3>3. \A d \in Call : Goes(d)
      BY <1>4, <1>t, <2>2, <3>1, <3>2, SettleGoes DEF Build
    <3>4. QED BY <1>4, <2>2, <3>3, EntryStays DEF Build
  <2>3. QED BY <2>1, <2>2
<1>5. CASE ListRooms(c)
  <2>1. {r \in Room : room[r] = "active"} \in SUBSET Room
    OBVIOUS
  <2>2. (\A d \in Call : Goes(d)) /\ runtime' \in {runtime, 0}
    BY <1>5, <1>t, <2>1, AdvanceGoes DEF ListRooms, StartAwaits
  <2>3. QED BY <1>5, <2>2, EntryStays DEF ListRooms
<1>6. CASE Verify(c)
  <2>1. call[c].room \in Room
    BY <1>6, <1>t, HasRoom DEF Verify, AtRoom
  <2>2. {"joining", "closing"} \subseteq Await \ {"waiting", "stopping"}
        /\ "verifying" \in StartAwaits
    BY DEF Await, StartAwaits
  <2>3. (\A d \in Call : Goes(d)) /\ runtime' \in {runtime, 0}
    BY <1>6, <1>t, <2>1, <2>2, AdvanceGoes, GoOnGoes, StartupFields DEF Verify
  <2>4. QED BY <1>6, <2>3, EntryStays DEF Verify
<1>7. CASE Activate(c)
  BY <1>7, <1>t, ActivateStep DEF Activate, Tasked
<1>8. CASE StoreFails(c)
  BY <1>8, <1>f, <1>t, ReturnGoes, EntryStays DEF StoreFails, memory
<1>9. CASE Stop(c)
  <2>1. \/ UNCHANGED startup
        \/ Current(c) /\ startup' = [status |-> "stopped", gen |-> startup.gen, by |-> None]
    BY <1>9 DEF Stop, Current
  <2>2. QED BY <1>9, <2>1, StopEnds DEF Stop
<1>10. CASE StopFails(c)
  BY <1>10, StopEnds DEF StopFails
<1>11. QED
  BY <1>1, <1>2, <1>3, <1>4, <1>5, <1>6, <1>7, <1>8, <1>9, <1>10

\* A call at work on a room goes on.
LEMMA RoomStep ==
  ASSUME IInv, TypeOK', TasksAgree', startup.status # "error", startup'.status # "error",
         NEW c \in Call,
         \/ Enter(c) \/ Join(c) \/ JoinFails(c) \/ Check(c) \/ Ping(c)
         \/ Leave(c) \/ ClearLeft(c) \/ Sync(c) \/ Close(c)
         \/ Refuse(c) \/ Revoke(c) \/ FailBot(c) \/ Resume(c)
  PROVE  IInv'
<1>t. TypeOK /\ Tasked(call[c])
  BY DEF IInv, TasksAgree
<1>f. ~StartFails(c)
  <2>1. StartFails(c) => startup' = [status |-> "error", gen |-> call[c].gen, by |-> None]
    BY DEF StartFails
  <2>2. QED BY <2>1
<1>r. call[c].room \in Room
  <2>1. call[c].pc \in AtRoom
    BY DEF Enter, Join, JoinFails, Check, Ping, Leave, ClearLeft, Sync, Close, Refuse,
           Revoke, FailBot, Resume, AtRoom
  <2>2. QED BY <1>t, <2>1, HasRoom
<1>a. AtRoom \subseteq Await \ {"waiting", "stopping"}
  BY DEF AtRoom, Await
<1>g. \A pc \in AtRoom :
        GoOn(c, pc) /\ (call[c].task = "start" /\ pc \in StartAwaits => call[c].pc \in StartAwaits)
          => \A d \in Call : Goes(d)
  BY <1>t, <1>r, <1>a, GoOnGoes
<1>1. CASE Enter(c)
  <2>1. call[c].task = "start" => FALSE
    BY <1>1, <1>t DEF Enter, Tasked
  <2>2. \A d \in Call : Goes(d)
    BY <1>1, <1>g, <2>1 DEF Enter, AtRoom
  <2>3. QED BY <1>1, <2>2, EntryStays DEF Enter, memory
<1>2. CASE Join(c)
  <2>1. \A d \in Call : Goes(d)
    BY <1>2, <1>g DEF Join, AtRoom, StartAwaits
  <2>2. QED BY <1>2, <2>1, EntryStays DEF Join, memory
<1>3. CASE JoinFails(c)
  BY <1>3, <1>f, <1>t, ReturnGoes, EntryStays DEF JoinFails, memory
<1>4. CASE Check(c)
  <2>1. (\A d \in Call : Goes(d)) /\ runtime' \in {runtime, 0}
    BY <1>4, <1>g, <1>t, AdvanceGoes, ReturnGoes, StartupFields DEF Check, AtRoom, StartAwaits
  <2>2. QED BY <1>4, <2>1, EntryStays DEF Check
<1>5. CASE Ping(c)
  <2>1. CASE call[c].task = "timer"
    BY <1>5, <1>t, <2>1, ReturnGoes, EntryStays DEF Ping
  <2>2. CASE call[c].task # "timer"
    <3>1. call[c].task \in {"start", "join"} /\ call[c].pc \in StartAwaits
      BY <1>5, <1>t, <2>2, TypeByCall DEF Ping, Tasked, CallState, StartAwaits
    <3>2. QED BY <1>5, <2>2, <3>1, ArmStep DEF Ping
  <2>3. QED BY <2>1, <2>2
<1>6. CASE Leave(c)
  <2>1. \A d \in Call : Goes(d)
    BY <1>6, <1>g, <1>t, ReturnGoes DEF Leave, AtRoom, StartAwaits
  <2>2. QED BY <1>6, <2>1, EntryStays DEF Leave, memory
<1>7. CASE ClearLeft(c)
  <2>1. timers' \subseteq timers
    BY <1>7 DEF ClearLeft
  <2>2. QED BY <1>7, <1>t, <2>1, ReturnGoes, EntryStays DEF ClearLeft
<1>8. CASE Sync(c)
  <2>1. \A d \in Call : Goes(d)
    BY <1>8, <1>g, <1>t, ReturnGoes DEF Sync, AtRoom, StartAwaits, Tasked
  <2>2. QED BY <1>8, <2>1, EntryStays DEF Sync, memory
<1>9. CASE Close(c)
  <2>1. (\A d \in Call : Goes(d)) /\ runtime' \in {runtime, 0}
    BY <1>9, <1>t, AdvanceGoes, ReturnGoes, StartupFields DEF Close, StartAwaits
  <2>2. timers' \subseteq timers
    BY <1>9 DEF Close
  <2>3. QED BY <1>9, <2>1, <2>2, EntryStays DEF Close
<1>10. CASE Refuse(c)
  <2> DEFINE k == [call[c] EXCEPT !.pc = "revoking", !.after = call[c].pc]
  <2>1. Sound(k)
    BY <1>10, <1>t, <1>r, TypeByCall DEF Refuse, Sound, CallState, Await
  <2>2. Follows(k, call[c])
    BY <1>10, <1>t, TypeByCall DEF Refuse, Follows, Begun, StartAwaits, CallState
  <2>3. \A d \in Call : Goes(d)
    BY <1>10, <1>t, <2>1, <2>2, OneGoes DEF Refuse
  <2>4. QED BY <1>10, <2>3, EntryStays DEF Refuse, memory
<1>11. CASE Revoke(c)
  <2> DEFINE k == [call[c] EXCEPT !.pc = "failing", !.next = startup.gen + 1]
  <2>n. startup.gen + 1 \in Nat
    BY <1>t, StartupFields
  <2>1. Sound(k)
    BY <1>t, <1>r, <2>n, TypeByCall DEF Sound, CallState, Await
  <2>2. Follows(k, call[c])
    BY <1>11, <1>t, TypeByCall DEF Revoke, Follows, Begun, StartAwaits, CallState
  <2> HIDE DEF k
  <2>3. \A d \in Call : Goes(d)
    BY <1>11, <1>t, <2>1, <2>2, OneGoes DEF Revoke, k
  <2>4. QED BY <1>11, <2>3, EntryStays DEF Revoke
<1>12. CASE FailBot(c)
  BY <1>12 DEF FailBot
<1>13. CASE Resume(c)
  <2>1. call[c].pc \in StartAwaits /\ call[c].task \in {"start", "join"}
    BY <1>13, <1>t DEF Resume, StartAwaits, Tasked
  <2>2. CASE call[c].after = "pinging"
    BY <1>13, <2>1, <2>2, ArmStep DEF Resume
  <2>3. CASE call[c].after # "pinging"
    BY <1>13, <1>t, <2>1, <2>3, AdvanceGoes, EntryStays, StartupFields DEF Resume
  <2>4. QED BY <2>2, <2>3
<1>14. QED
  BY <1>1, <1>2, <1>3, <1>4, <1>5, <1>6, <1>7, <1>8, <1>9, <1>10, <1>11, <1>12, <1>13

\* A request comes in, or an interval fires.
LEMMA RequestStep ==
  ASSUME IInv, TypeOK', TasksAgree', startup.status # "error", NEW c \in Call,
         \/ StartRequest(c) \/ StopRequest(c)
         \/ \E r \in Room : \/ JoinRequest(c, r) \/ LeaveRequest(c, r)
                            \/ Tick(c, r, "syncing") \/ Tick(c, r, "pinging")
  PROVE  IInv'
<1>t. TypeOK
  BY DEF IInv
<1>1. CASE StartRequest(c)
  BY <1>1, BeginStep DEF StartRequest
<1>2. CASE StopRequest(c)
  <2> DEFINE k == [Idle EXCEPT !.pc = "stopping", !.gen = startup.gen + 1]
  <2>1. startup.gen + 1 \in Nat
    BY <1>t, StartupFields
  <2>2. Sound(k)
    BY <2>1 DEF Sound, CallState, Idle, Await, AtRoom
  <2>3. k.pc = "stopping" /\ k.task = "none" /\ k.gen = startup.gen + 1
    BY DEF Idle
  <2> HIDE DEF k
  <2>4. QED BY <1>2, <2>2, <2>3, NewGeneration DEF StopRequest, k
<1>3. ASSUME NEW r \in Room, JoinRequest(c, r) PROVE IInv'
  BY <1>3, BeginStep DEF JoinRequest
<1>4. ASSUME NEW r \in Room, LeaveRequest(c, r) PROVE IInv'
  <2> DEFINE k == [Idle EXCEPT !.pc = "leaving", !.room = r]
  <2>1. Sound(k) /\ Calm(k)
    BY DEF Sound, CallState, Idle, Await, AtRoom, Calm
  <2>2. \A d \in Call : Goes(d)
    BY <1>4, <1>t, <2>1, OneGoes DEF LeaveRequest
  <2>3. QED BY <1>4, <2>2, EntryStays DEF LeaveRequest, memory
<1>5. ASSUME NEW r \in Room, NEW pc \in {"syncing", "pinging"}, Tick(c, r, pc)
      PROVE  IInv'
  <2> DEFINE k == [Idle EXCEPT !.pc = pc, !.task = "timer", !.room = r]
  <2>1. Sound(k) /\ Calm(k)
    BY DEF Sound, CallState, Idle, Await, AtRoom, Calm
  <2>2. \A d \in Call : Goes(d)
    BY <1>5, <1>t, <2>1, OneGoes DEF Tick
  <2>3. QED BY <1>5, <2>2, EntryStays DEF Tick, memory
<1>6. QED BY <1>1, <1>2, <1>3, <1>4, <1>5

LEMMA SafeStep ==
  IInv /\ startup.status # "error" /\ startup'.status # "error" /\ [Next]_vars => IInv'
<1> SUFFICES ASSUME IInv, startup.status # "error", startup'.status # "error", [Next]_vars
             PROVE  IInv'
  OBVIOUS
<1>1. TypeOK' /\ TasksAgree'
  BY TypeStep, TasksStep DEF IInv
<1>2. CASE UNCHANGED vars
  BY <1>2 DEF vars, memory, stored, IInv, TypeOK, TasksAgree, Tasked, GenerationsAgree,
              OneCurrentStart, Starting, Current, RuntimeIsCurrent, StoppedIsQuiet
<1>3. ASSUME NEW c \in Call, Step(c) PROVE IInv'
  BY <1>1, <1>3, StartStep, RoomStep DEF Step
<1>4. QED BY <1>1, <1>2, <1>3, RequestStep DEF Next

-----------------------------------------------------------------------------

\* No start has thrown, and the bot's credential has not been refused.
NoFailure == startup.status # "error"

\* As long as nothing has failed, the entry of the bot is that of its last transition.
THEOREM UntilFailure == Spec /\ []NoFailure => []IInv
<1>1. Init => IInv
  <2>1. Init => TypeOK
    BY IdleSound, TypeByCall DEF Init, StartupEntry, RoomStatus
  <2>2. Init => TasksAgree
    BY IdleTasked DEF Init, TasksAgree
  <2>3. Init => /\ GenerationsAgree /\ OneCurrentStart /\ RuntimeIsCurrent /\ StoppedIsQuiet
                /\ startup.status = "none" => runtime = 0
    BY IdleSound DEF Init, GenerationsAgree, OneCurrentStart, Starting, RuntimeIsCurrent,
                     StoppedIsQuiet
  <2>4. QED BY <2>1, <2>2, <2>3 DEF IInv
<1>2. IInv /\ NoFailure /\ NoFailure' /\ [Next]_vars => IInv'
  BY SafeStep DEF NoFailure
<1>3. QED BY <1>1, <1>2, PTL DEF Spec

\* A bot that is stopping or stopped has no runtime and no armed timer, whatever starts,
\* joins, leaves and intervals are in flight: until the first failure, a stop that wins
\* the race is never undone by a late start.
THEOREM StoppedIsQuietHolds == Spec /\ []NoFailure => []StoppedIsQuiet
<1>1. IInv => StoppedIsQuiet
  BY DEF IInv
<1>2. QED BY <1>1, UntilFailure, PTL

\* At most one start in flight is the current one, the one that the entry names.
THEOREM OneCurrentStartHolds == Spec /\ []NoFailure => []OneCurrentStart
<1>1. IInv => OneCurrentStart
  BY DEF IInv
<1>2. QED BY <1>1, UntilFailure, PTL

\* The runtime in use is never that of a superseded start.
THEOREM RuntimeIsCurrentHolds == Spec /\ []NoFailure => []RuntimeIsCurrent
<1>1. IInv => RuntimeIsCurrent
  BY DEF IInv
<1>2. QED BY <1>1, UntilFailure, PTL

\* No call has met a refused credential.
Fine(k) == k.pc \notin {"revoking", "failing"}

Well == NoFailure /\ credential /\ \A c \in Call : Fine(call[c])

LEMMA OneFine ==
  ASSUME TypeOK, Well, NEW c \in Call, NEW k, Fine(k), call' = [call EXCEPT ![c] = k]
  PROVE  \A d \in Call : Fine(call'[d])
BY TypeByCall DEF Well

LEMMA GoOnFine ==
  ASSUME TypeOK, Well, NEW c \in Call, NEW pc \in Await \ {"revoking", "failing"}, GoOn(c, pc)
  PROVE  \A d \in Call : Fine(call'[d])
<1>1. call' = [call EXCEPT ![c] = [call[c] EXCEPT !.pc = pc]] /\ call[c] \in CallState
  BY TypeByCall DEF GoOn
<1>2. Fine([call[c] EXCEPT !.pc = pc])
  BY <1>1 DEF Fine, CallState
<1>3. QED BY <1>1, <1>2, OneFine

LEMMA SettleFine ==
  ASSUME TypeOK, Well, NEW c \in Call, NEW k, Sound(k), Fine(k), NEW ok \in BOOLEAN,
         call' = Settle(c, k, ok)
  PROVE  \A d \in Call : Fine(call'[d])
<1>1. ASSUME NEW d \in Call, d # c PROVE Fine(call'[d])
  <2>1. Fine([call[d] EXCEPT !.pc = "woken"]) /\ Fine(Idle)
    BY TypeByCall, IdleSound DEF Fine, CallState
  <2>2. call'[d] = Woken(c, d, ok)
    BY <1>1, Settled
  <2>3. QED BY <2>1, <2>2 DEF Woken, Well
<1>2. QED BY <1>1, Settled

LEMMA ReturnFine ==
  ASSUME TypeOK, Well, NEW c \in Call, Return(c)
  PROVE  \A d \in Call : Fine(call'[d])
<1>1. Fine(Idle)
  BY IdleSound DEF Fine
<1>2. QED BY <1>1, OneFine DEF Return

LEMMA StartedFine ==
  \A goal \in Room \cup {None}, rt, gen \in Nat : Fine(Started(goal, rt, gen))
BY DEF Fine, Started, Idle

LEMMA BeginFine ==
  ASSUME TypeOK, Well, NEW c \in Call, NEW goal \in Room \cup {None}, Begin(c, goal)
  PROVE  NoFailure' /\ \A d \in Call : Fine(call'[d])
<1>1. Fine(Started(goal, runtime, startup.gen)) /\ Fine(Idle)
  BY StartedFine, IdleSound, StartupFields, TypeByCall DEF Fine
<1>2. Fine([Idle EXCEPT !.pc = "waiting", !.on = startup.by, !.goal = goal])
  BY DEF Fine, Idle
<1>3. Fine([Idle EXCEPT !.pc = "starting", !.task = "start", !.gen = startup.gen + 1,
                        !.goal = goal])
  BY DEF Fine, Idle
<1>4. \A d \in Call : Fine(call'[d])
  BY <1>1, <1>2, <1>3, OneFine DEF Begin, BeginAtOnce
<1>5. NoFailure'
  BY DEF Begin, BeginAtOnce, Well, NoFailure
<1>6. QED BY <1>4, <1>5

LEMMA AdvanceFine ==
  ASSUME TypeOK, Well, NEW c \in Call, NEW todo \in SUBSET Room, Advance(c, todo)
  PROVE  \A d \in Call : Fine(call'[d])
<1>1. CASE ~Current(c)
  <2>1. call' = Settle(c, Idle, TRUE)
    BY <1>1 DEF Advance
  <2>2. Fine(Idle)
    BY IdleSound DEF Fine
  <2>3. QED BY <2>1, <2>2, IdleSound, SettleFine
<1>2. CASE Current(c) /\ GoOn(c, "activating")
  BY <1>2, GoOnFine DEF Await
<1>3. CASE Current(c) /\ \E r \in todo :
             call' = [call EXCEPT ![c] = [call[c] EXCEPT !.pc = "verifying", !.room = r,
                                                         !.todo = todo \ {r}]]
  <2>1. PICK r \in todo :
             call' = [call EXCEPT ![c] = [call[c] EXCEPT !.pc = "verifying", !.room = r,
                                                         !.todo = todo \ {r}]]
    BY <1>3
  <2>2. Fine([call[c] EXCEPT !.pc = "verifying", !.room = r, !.todo = todo \ {r}])
    BY TypeByCall DEF Fine, CallState
  <2>3. QED BY <2>1, <2>2, OneFine
<1>4. QED BY <1>1, <1>2, <1>3 DEF Advance

LEMMA ArmFine ==
  ASSUME TypeOK, Well, NEW c \in Call, Arm(c)
  PROVE  \A d \in Call : Fine(call'[d])
BY AdvanceFine, ReturnFine, StartupFields DEF Arm

\* Without failures nothing throws, and no credential is refused.
LEMMA WellStep ==
  ASSUME Failures = {}
  PROVE  TypeOK /\ Well /\ [Next]_vars => Well'
<1> SUFFICES ASSUME TypeOK, Well, [Next]_vars PROVE Well'
  OBVIOUS
<1>k. Well' <=> NoFailure' /\ credential' /\ \A c \in Call : Fine(call'[c])
  BY DEF Well, Fine
<1>u. NoFailure /\ credential /\ (UNCHANGED startup => NoFailure')
  BY DEF Well, NoFailure
<1>a. AtRoom \ {"revoking", "failing"} \subseteq Await \ {"revoking", "failing"}
  BY DEF AtRoom, Await
<1>s. \A c \in Call : Sound(Started(call[c].goal, runtime, startup.gen))
                      /\ Fine(Started(call[c].goal, runtime, startup.gen))
  BY StartedSound, StartedFine, StartupFields, TypeByCall
<1>i. Fine(Idle) /\ Sound(Idle)
  BY IdleSound DEF Fine
<1>1. ASSUME NEW c \in Call, Wake(c) PROVE Well'
  BY <1>1, <1>k, <1>u, BeginFine, StartupFields DEF Wake, stored
<1>2. ASSUME NEW c \in Call, Load(c) PROVE Well'
  BY <1>2, <1>k, <1>u, GoOnFine DEF Load, Await, memory, stored
<1>3. ASSUME NEW c \in Call, LoadFails(c) \/ JoinFails(c) \/ StoreFails(c) \/ StopFails(c)
                            \/ Refuse(c) \/ Revoke(c) \/ FailBot(c)
      PROVE  FALSE
  BY <1>3, <1>u DEF LoadFails, JoinFails, StoreFails, StopFails, Refuse, Revoke, FailBot,
                    Well, Fine
<1>4. ASSUME NEW c \in Call, Build(c) PROVE Well'
  <2>1. CASE Current(c)
    BY <1>4, <1>k, <1>u, <2>1, GoOnFine DEF Build, Await, stored
  <2>2. CASE ~Current(c)
    BY <1>4, <1>k, <1>s, <1>u, <2>2, SettleFine DEF Build, stored
  <2>3. QED BY <2>1, <2>2
<1>5. ASSUME NEW c \in Call, ListRooms(c) PROVE Well'
  <2>1. {r \in Room : room[r] = "active"} \in SUBSET Room
    OBVIOUS
  <2>2. QED BY <1>5, <1>k, <1>u, <2>1, AdvanceFine DEF ListRooms, stored
<1>6. ASSUME NEW c \in Call, Verify(c) PROVE Well'
  BY <1>6, <1>k, <1>u, AdvanceFine, GoOnFine, StartupFields DEF Verify, Await, stored
<1>7. ASSUME NEW c \in Call, Activate(c) PROVE Well'
  <2>1. \A d \in Call : Fine(call'[d])
    BY <1>7, <1>s, SettleFine DEF Activate
  <2>2. QED BY <1>7, <1>k, <1>u, <2>1 DEF Activate, NoFailure
<1>8. ASSUME NEW c \in Call, Stop(c) PROVE Well'
  <2>1. \A d \in Call : Fine(call'[d])
    BY <1>8, <1>i, SettleFine DEF Stop
  <2>2. QED BY <1>8, <1>k, <1>u, <2>1 DEF Stop, NoFailure
<1>9. ASSUME NEW c \in Call, Enter(c) \/ Join(c) PROVE Well'
  BY <1>9, <1>k, <1>u, GoOnFine DEF Enter, Join, Await, memory
<1>10. ASSUME NEW c \in Call, Check(c) PROVE Well'
  BY <1>10, <1>k, <1>u, AdvanceFine, GoOnFine, ReturnFine, StartupFields DEF Check, Await, stored
<1>11. ASSUME NEW c \in Call, Ping(c) PROVE Well'
  BY <1>11, <1>k, <1>u, ArmFine, ReturnFine DEF Ping, stored
<1>12. ASSUME NEW c \in Call, Leave(c) PROVE Well'
  BY <1>12, <1>k, <1>u, GoOnFine, ReturnFine DEF Leave, Await, memory
<1>13. ASSUME NEW c \in Call, ClearLeft(c) PROVE Well'
  BY <1>13, <1>k, <1>u, ReturnFine DEF ClearLeft, stored
<1>14. ASSUME NEW c \in Call, Sync(c) PROVE Well'
  BY <1>14, <1>k, <1>u, GoOnFine, ReturnFine DEF Sync, Await, memory, stored
<1>15. ASSUME NEW c \in Call, Close(c) PROVE Well'
  BY <1>15, <1>k, <1>u, AdvanceFine, ReturnFine, StartupFields DEF Close
<1>16. ASSUME NEW c \in Call, Resume(c) PROVE Well'
  BY <1>16, <1>k, <1>u, ArmFine, AdvanceFine, StartupFields DEF Resume, stored
<1>17. ASSUME NEW c \in Call, StartRequest(c) PROVE Well'
  BY <1>17, <1>k, <1>u, BeginFine DEF StartRequest, stored
<1>18. ASSUME NEW c \in Call, StopRequest(c) PROVE Well'
  <2>1. Fine([Idle EXCEPT !.pc = "stopping", !.gen = startup.gen + 1])
    BY DEF Fine, Idle
  <2>2. \A d \in Call : Fine(call'[d])
    BY <1>18, <2>1, OneFine DEF StopRequest
  <2>3. QED BY <1>18, <1>k, <1>u, <2>2 DEF StopRequest, NoFailure, stored
<1>19. ASSUME NEW c \in Call, NEW r \in Room, JoinRequest(c, r) PROVE Well'
  BY <1>19, <1>k, <1>u, BeginFine DEF JoinRequest, stored
<1>20. ASSUME NEW c \in Call, NEW r \in Room, LeaveRequest(c, r) PROVE Well'
  <2>1. Fine([Idle EXCEPT !.pc = "leaving", !.room = r])
    BY DEF Fine, Idle
  <2>2. QED BY <1>20, <1>k, <1>u, <2>1, OneFine DEF LeaveRequest, memory, stored
<1>21. ASSUME NEW c \in Call, NEW r \in Room, NEW pc \in {"syncing", "pinging"}, Tick(c, r, pc)
       PROVE  Well'
  <2>1. Fine([Idle EXCEPT !.pc = pc, !.task = "timer", !.room = r])
    BY DEF Fine, Idle
  <2>2. QED BY <1>21, <1>k, <1>u, <2>1, OneFine DEF Tick, memory, stored
<1>22. CASE UNCHANGED vars
  BY <1>22 DEF vars, memory, stored, Well, NoFailure, Fine
<1>23. QED
  BY <1>1, <1>2, <1>3, <1>4, <1>5, <1>6, <1>7, <1>8, <1>9, <1>10, <1>11, <1>12, <1>13,
     <1>14, <1>15, <1>16, <1>17, <1>18, <1>19, <1>20, <1>21, <1>22 DEF Next, Step

\* Without failures of the platform and of the store nothing fails: the three above
\* then hold in every reachable state.
THEOREM NothingFails ==
  ASSUME Failures = {}
  PROVE  Spec => []NoFailure
<1>1. Init => Well
  BY IdleSound DEF Init, Well, NoFailure, Fine
<1>2. TypeOK /\ Well /\ [Next]_vars => Well'
  BY WellStep
<1>3. Well => NoFailure
  BY DEF Well
<1>4. QED BY <1>1, <1>2, <1>3, TypeInvariant, PTL DEF Spec

-----------------------------------------------------------------------------

\* The promise that a call gives is pending until it settles.
Awaited(k) == Begun(k) \/ k.pc = "stopping"

LEMMA TransitionIsAwaited == \A c \in Call : InTransition(c) <=> Awaited(call[c])
BY StartingIsBegun DEF InTransition, Awaited

\* A call that has not returned, for those that wait for it.
Stays(d) ==
  /\ Awaited(call[d]) => /\ Awaited(call'[d]) /\ call'[d].gen = call[d].gen
                         /\ Begun(call[d]) => Begun(call'[d])
  /\ call'[d].pc = "waiting" => call[d].pc = "waiting" /\ call'[d].on = call[d].on

\* An entry without a promise: nothing is in flight for it.
Settles == startup'.by = None /\ startup'.status # "starting"

\* PromisesPending, call by call.
LEMMA PromisesByCall ==
  PromisesPending <=>
    /\ startup.status = "starting" => startup.by # None /\ Begun(call[startup.by])
    /\ startup.by # None =>
         Awaited(call[startup.by]) /\ startup.gen = call[startup.by].gen
    /\ \A c \in Call : call[c].pc = "waiting" => Awaited(call[call[c].on])
BY DEF PromisesPending, InTransition, Starting, Awaited, Begun, StartAwaits

LEMMA PromisesByCallNext ==
  PromisesPending' <=>
    /\ startup'.status = "starting" => startup'.by # None /\ Begun(call'[startup'.by])
    /\ startup'.by # None =>
         Awaited(call'[startup'.by]) /\ startup'.gen = call'[startup'.by].gen
    /\ \A c \in Call : call'[c].pc = "waiting" => Awaited(call'[call'[c].on])
BY DEF PromisesPending, InTransition, Starting, Awaited, Begun, StartAwaits

\* Who is waited for is a call.
LEMMA WaitedFor ==
  TypeOK => /\ startup.by \in Call \cup {None}
            /\ \A d \in Call : call[d].pc = "waiting" => call[d].on \in Call
BY TypeByCall, StartupFields DEF Sound

LEMMA PromisesStay ==
  ASSUME TypeOK, PromisesPending, UNCHANGED startup \/ Settles, \A d \in Call : Stays(d)
  PROVE  PromisesPending'
<1>1. \A d \in Call : call'[d].pc = "waiting" => Awaited(call'[call'[d].on])
  BY WaitedFor, PromisesByCall DEF Stays
<1>2. CASE UNCHANGED startup
  BY <1>1, <1>2, WaitedFor, PromisesByCall, PromisesByCallNext DEF Stays
<1>3. CASE Settles
  BY <1>1, <1>3, PromisesByCallNext DEF Settles
<1>4. QED BY <1>2, <1>3

\* A step of one call, of which others may have the promise.
LEMMA OneStays ==
  ASSUME TypeOK, NEW c \in Call, NEW k, call' = [call EXCEPT ![c] = k], k.pc # "waiting",
         Awaited(call[c]) => /\ Awaited(k) /\ k.gen = call[c].gen
                             /\ Begun(call[c]) => Begun(k)
  PROVE  \A d \in Call : Stays(d)
<1>1. call'[c] = k /\ \A d \in Call : d # c => call'[d] = call[d]
  BY TypeByCall
<1>2. QED BY <1>1 DEF Stays

LEMMA GoOnStays ==
  ASSUME TypeOK, NEW c \in Call, NEW pc, GoOn(c, pc), pc # "waiting",
         Begun(call[c]) => pc \in StartAwaits, call[c].pc # "stopping"
  PROVE  \A d \in Call : Stays(d)
<1>1. call' = [call EXCEPT ![c] = [call[c] EXCEPT !.pc = pc]] /\ call[c] \in CallState
  BY TypeByCall DEF GoOn
<1>2. [call[c] EXCEPT !.pc = pc].pc = pc /\ [call[c] EXCEPT !.pc = pc].gen = call[c].gen
      /\ [call[c] EXCEPT !.pc = pc].task = call[c].task
  BY <1>1 DEF CallState
<1>3. QED BY <1>1, <1>2, OneStays DEF Awaited, Begun

LEMMA ReturnStays ==
  ASSUME TypeOK, NEW c \in Call, Return(c), ~Awaited(call[c])
  PROVE  \A d \in Call : Stays(d)
BY IdleSound, OneStays DEF Return

\* A promise that settles is no longer in the entry, and nobody waits for it.
LEMMA PromiseSettles ==
  ASSUME TypeOK, PromisesPending, NEW c \in Call, NEW k, Sound(k), k.pc # "waiting",
         NEW ok \in BOOLEAN, call' = Settle(c, k, ok),
         (UNCHANGED startup /\ startup.by # c) \/ Settles
  PROVE  PromisesPending'
<1>1. call'[c] = k /\ \A d \in Call : d # c => call'[d] = Woken(c, d, ok)
  BY Settled
<1>2. \A d \in Call : d # c => /\ Awaited(call[d]) => call'[d] = call[d]
                               /\ call'[d].pc = "waiting" =>
                                    call'[d] = call[d] /\ call[d].on # c
  <2>1. SUFFICES ASSUME NEW d \in Call, d # c
                 PROVE  /\ Awaited(call[d]) => call'[d] = call[d]
                        /\ call'[d].pc = "waiting" => call'[d] = call[d] /\ call[d].on # c
    OBVIOUS
  <2>2. call[d] \in CallState /\ call'[d] = Woken(c, d, ok)
    BY <1>1, <2>1, TypeByCall
  <2>3. CASE call[d].pc = "waiting" /\ call[d].on = c
    <3>1. call'[d].pc # "waiting"
      BY <2>2, <2>3, IdleSound DEF Woken, CallState
    <3>2. ~Awaited(call[d])
      BY <2>3 DEF Awaited, Begun, StartAwaits
    <3>3. QED BY <3>1, <3>2
  <2>4. CASE ~(call[d].pc = "waiting" /\ call[d].on = c)
    BY <2>2, <2>4 DEF Woken
  <2>5. QED BY <2>3, <2>4
<1>3. \A d \in Call : call'[d].pc = "waiting" => Awaited(call'[call'[d].on])
  BY <1>1, <1>2, WaitedFor, PromisesByCall
<1>4. CASE UNCHANGED startup /\ startup.by # c
  <2>1. startup.by # None => call'[startup.by] = call[startup.by]
    BY <1>2, <1>4, WaitedFor, PromisesByCall
  <2>2. QED BY <1>3, <1>4, <2>1, PromisesByCall, PromisesByCallNext
<1>5. CASE Settles
  BY <1>3, <1>5, PromisesByCallNext DEF Settles
<1>6. QED BY <1>4, <1>5

\* A call that has not begun to be awaited becomes the transition the entry names.
LEMMA PromiseBegins ==
  ASSUME TypeOK, PromisesPending, NEW c \in Call, NEW k, call' = [call EXCEPT ![c] = k],
         ~Awaited(call[c]), Awaited(k), k.pc # "waiting",
         startup'.by = c, startup'.gen = k.gen, startup'.status = "starting" => Begun(k)
  PROVE  PromisesPending'
<1>1. call'[c] = k /\ \A d \in Call : d # c => call'[d] = call[d]
  BY TypeByCall
<1>2. \A d \in Call : call'[d].pc = "waiting" => Awaited(call'[call'[d].on])
  BY <1>1, WaitedFor, PromisesByCall
<1>3. call'[startup'.by] = k /\ c # None
  BY <1>1, ConstantAssumption
<1>4. QED BY <1>2, <1>3, PromisesByCallNext

\* A start that gives up is not in the entry any more: its generation has passed.
LEMMA SupersededSettles ==
  ASSUME PromisesPending, NEW c \in Call, ~Current(c)
  PROVE  startup.by # c
BY ConstantAssumption DEF PromisesPending, Current

LEMMA BeginPromises ==
  ASSUME TypeOK, PromisesPending, NEW c \in Call, call[c].pc \in {"idle", "woken"},
         NEW goal \in Room \cup {None}, Begin(c, goal)
  PROVE  PromisesPending'
<1>a. ~Awaited(call[c])
  BY DEF Awaited, Begun, StartAwaits
<1>1. CASE /\ startup.status \in {"starting", "stopping"}
           /\ call' = [call EXCEPT ![c] =
                         IF startup.by = None THEN Idle
                         ELSE [Idle EXCEPT !.pc = "waiting", !.on = startup.by, !.goal = goal]]
           /\ UNCHANGED startup
  <2>1. CASE startup.by = None
    BY <1>1, <1>a, <2>1, IdleSound, OneStays, PromisesStay
  <2>2. CASE startup.by # None
    <3> DEFINE w == [Idle EXCEPT !.pc = "waiting", !.on = startup.by, !.goal = goal]
    <3>1. startup.by \in Call /\ Awaited(call[startup.by]) /\ startup.by # c
      BY <1>a, <2>2, WaitedFor, PromisesByCall
    <3>2. call'[c] = w /\ \A d \in Call : d # c => call'[d] = call[d]
      BY <1>1, <2>2, TypeByCall
    <3>3. w.on = startup.by
      BY DEF Idle
    <3> HIDE DEF w
    <3>4. \A d \in Call : call'[d].pc = "waiting" => Awaited(call'[call'[d].on])
      BY <1>a, <3>1, <3>2, <3>3, WaitedFor, PromisesByCall
    <3>5. QED BY <1>1, <3>1, <3>2, <3>4, PromisesByCall, PromisesByCallNext
  <2>3. QED BY <2>1, <2>2
<1>2. CASE /\ startup.status = "active" /\ runtime # 0
           /\ call' = [call EXCEPT ![c] = Started(goal, runtime, startup.gen)]
           /\ UNCHANGED startup
  <2>1. Started(goal, runtime, startup.gen).pc # "waiting"
    BY IdleSound DEF Started, Idle
  <2>2. QED BY <1>2, <1>a, <2>1, OneStays, PromisesStay
<1>3. CASE BeginAtOnce(c, goal)
  <2> DEFINE k == [Idle EXCEPT !.pc = "starting", !.task = "start",
                               !.gen = startup.gen + 1, !.goal = goal]
  <2>1. k.pc = "starting" /\ k.gen = startup.gen + 1 /\ Begun(k)
    BY DEF Idle, Begun, StartAwaits
  <2>2. call' = [call EXCEPT ![c] = k] /\ startup'.by = c /\ startup'.gen = startup.gen + 1
    BY <1>3 DEF BeginAtOnce
  <2> HIDE DEF k
  <2>3. QED BY <1>a, <2>1, <2>2, PromiseBegins DEF Awaited
<1>4. QED BY <1>1, <1>2, <1>3 DEF Begin

LEMMA StartFailsPromises ==
  ASSUME TypeOK, PromisesPending, NEW c \in Call, StartFails(c)
  PROVE  PromisesPending'
BY IdleSound, PromiseSettles DEF StartFails, Settles

LEMMA AdvancePromises ==
  ASSUME TypeOK, PromisesPending, NEW c \in Call, NEW todo \in SUBSET Room,
         Advance(c, todo), call[c].pc # "stopping", UNCHANGED startup
  PROVE  PromisesPending'
<1>1. CASE ~Current(c)
  <2>1. call' = Settle(c, Idle, TRUE)
    BY <1>1 DEF Advance
  <2>2. QED BY <1>1, <2>1, IdleSound, PromiseSettles, SupersededSettles
<1>2. CASE Current(c) /\ GoOn(c, "activating")
  BY <1>2, GoOnStays, PromisesStay DEF StartAwaits
<1>3. CASE Current(c) /\ \E r \in todo :
             call' = [call EXCEPT ![c] = [call[c] EXCEPT !.pc = "verifying", !.room = r,
                                                         !.todo = todo \ {r}]]
  <2>1. PICK r \in todo :
             call' = [call EXCEPT ![c] = [call[c] EXCEPT !.pc = "verifying", !.room = r,
                                                         !.todo = todo \ {r}]]
    BY <1>3
  <2> DEFINE k == [call[c] EXCEPT !.pc = "verifying", !.room = r, !.todo = todo \ {r}]
  <2>2. k.pc = "verifying" /\ k.gen = call[c].gen /\ k.task = call[c].task
    BY TypeByCall DEF CallState
  <2> HIDE DEF k
  <2>3. Awaited(call[c]) => Awaited(k) /\ (Begun(call[c]) => Begun(k))
    BY <2>2 DEF Awaited, Begun, StartAwaits
  <2>4. call' = [call EXCEPT ![c] = k]
    BY <2>1 DEF k
  <2>5. QED BY <2>2, <2>3, <2>4, OneStays, PromisesStay
<1>4. QED BY <1>1, <1>2, <1>3 DEF Advance

LEMMA ReturnPromises ==
  ASSUME TypeOK, PromisesPending, NEW c \in Call, Return(c), call[c].pc # "stopping",
         call[c].task # "start", UNCHANGED startup \/ Settles
  PROVE  PromisesPending'
BY ReturnStays, PromisesStay DEF Awaited, Begun

LEMMA GoOnPromises ==
  ASSUME TypeOK, PromisesPending, NEW c \in Call, NEW pc \in StartAwaits, GoOn(c, pc),
         call[c].pc # "stopping", UNCHANGED startup \/ Settles
  PROVE  PromisesPending'
<1>1. pc # "waiting"
  BY DEF StartAwaits
<1>2. QED BY <1>1, GoOnStays, PromisesStay

LEMMA ArmPromises ==
  ASSUME TypeOK, PromisesPending, NEW c \in Call, Arm(c), call[c].pc # "stopping",
         UNCHANGED startup
  PROVE  PromisesPending'
BY AdvancePromises, ReturnPromises, StartupFields DEF Arm

\* Whatever a call does, and whatever fails, the promises that are awaited stay pending.
LEMMA PromisesStep == TypeOK /\ TasksAgree /\ PromisesPending /\ [Next]_vars => PromisesPending'
<1> SUFFICES ASSUME TypeOK, TasksAgree, PromisesPending, [Next]_vars PROVE PromisesPending'
  OBVIOUS
<1>k. \A c \in Call : Tasked(call[c]) /\ call[c] \in CallState
  BY TypeByCall DEF TasksAgree
<1>u. memory' = memory => UNCHANGED startup
  BY DEF memory
<1>s. \A c \in Call : Sound(Started(call[c].goal, runtime, startup.gen))
                      /\ Started(call[c].goal, runtime, startup.gen).pc # "waiting"
  <2>1. \A c \in Call : Started(call[c].goal, runtime, startup.gen).pc # "waiting"
    BY DEF Started, Idle
  <2>2. QED BY <2>1, StartedSound, StartupFields, TypeByCall
<1>1. ASSUME NEW c \in Call, Wake(c) PROVE PromisesPending'
  BY <1>1, BeginPromises, StartupFields DEF Wake
<1>2. ASSUME NEW c \in Call, Load(c) PROVE PromisesPending'
  BY <1>2, <1>u, GoOnPromises DEF Load, StartAwaits
<1>3. ASSUME NEW c \in Call, LoadFails(c) PROVE PromisesPending'
  BY <1>3, StartFailsPromises DEF LoadFails
<1>4. ASSUME NEW c \in Call, Build(c) PROVE PromisesPending'
  <2>1. CASE Current(c)
    BY <1>4, <2>1, GoOnPromises DEF Build, StartAwaits
  <2>2. CASE ~Current(c)
    BY <1>4, <1>s, <2>2, PromiseSettles, SupersededSettles DEF Build
  <2>3. QED BY <2>1, <2>2
<1>5. ASSUME NEW c \in Call, ListRooms(c) PROVE PromisesPending'
  <2>1. {r \in Room : room[r] = "active"} \in SUBSET Room
    OBVIOUS
  <2>2. QED BY <1>5, <2>1, AdvancePromises DEF ListRooms
<1>6. ASSUME NEW c \in Call, Verify(c) PROVE PromisesPending'
  BY <1>6, AdvancePromises, GoOnPromises, StartupFields DEF Verify, StartAwaits
<1>7. ASSUME NEW c \in Call, Activate(c) PROVE PromisesPending'
  <2>1. CASE Current(c)
    <3>1. Settles
      BY <1>7, <2>1 DEF Activate, Settles
    <3>2. QED BY <1>7, <1>s, <3>1, PromiseSettles DEF Activate
  <2>2. CASE ~Current(c)
    BY <1>7, <1>s, <2>2, PromiseSettles, SupersededSettles DEF Activate
  <2>3. QED BY <2>1, <2>2
<1>8. ASSUME NEW c \in Call, StoreFails(c) PROVE PromisesPending'
  BY <1>8, <1>u, StartFailsPromises, ReturnPromises DEF StoreFails
<1>9. ASSUME NEW c \in Call, Stop(c) PROVE PromisesPending'
  <2>1. CASE Current(c)
    <3>1. Settles
      BY <1>9, <2>1 DEF Stop, Settles
    <3>2. QED BY <1>9, <3>1, IdleSound, PromiseSettles DEF Stop
  <2>2. CASE ~Current(c)
    BY <1>9, <2>2, IdleSound, PromiseSettles, SupersededSettles DEF Stop
  <2>3. QED BY <2>1, <2>2
<1>10. ASSUME NEW c \in Call, StopFails(c) PROVE PromisesPending'
  <2>1. CASE startup.by = c
    <3>1. startup.status # "starting"
      BY <1>10, <2>1, PromisesByCall DEF StopFails, Begun, StartAwaits
    <3>2. Settles
      BY <1>10, <2>1, <3>1, TypeByCall DEF StopFails, StartupEntry, Settles
    <3>3. QED BY <1>10, <3>2, IdleSound, PromiseSettles DEF StopFails
  <2>2. CASE startup.by # c
    BY <1>10, <2>2, IdleSound, PromiseSettles DEF StopFails
  <2>3. QED BY <2>1, <2>2
<1>11. ASSUME NEW c \in Call, Enter(c) \/ Join(c) PROVE PromisesPending'
  BY <1>11, <1>u, GoOnPromises DEF Enter, Join, StartAwaits
<1>12. ASSUME NEW c \in Call, JoinFails(c) PROVE PromisesPending'
  BY <1>12, <1>u, StartFailsPromises, ReturnPromises DEF JoinFails
<1>13. ASSUME NEW c \in Call, Check(c) PROVE PromisesPending'
  BY <1>13, GoOnPromises, AdvancePromises, ReturnPromises, StartupFields
     DEF Check, StartAwaits
<1>14. ASSUME NEW c \in Call, Ping(c) PROVE PromisesPending'
  BY <1>14, ArmPromises, ReturnPromises DEF Ping
<1>15. ASSUME NEW c \in Call, Leave(c) PROVE PromisesPending'
  <2>1. ~Begun(call[c]) /\ call[c].pc # "stopping"
    BY <1>15 DEF Leave, Begun, StartAwaits
  <2>2. ~Awaited(call[c])
    BY <2>1 DEF Awaited
  <2>3. \A d \in Call : Stays(d)
    BY <1>15, <2>1, <2>2, GoOnStays, ReturnStays DEF Leave
  <2>4. QED BY <1>15, <1>u, <2>3, PromisesStay DEF Leave
<1>16. ASSUME NEW c \in Call, ClearLeft(c) PROVE PromisesPending'
  <2>1. ~Awaited(call[c])
    BY <1>16 DEF ClearLeft, Awaited, Begun, StartAwaits
  <2>2. QED BY <1>16, <2>1, ReturnStays, PromisesStay DEF ClearLeft
<1>17. ASSUME NEW c \in Call, Sync(c) PROVE PromisesPending'
  BY <1>17, <1>k, <1>u, GoOnPromises, ReturnPromises DEF Sync, Tasked, StartAwaits
<1>18. ASSUME NEW c \in Call, Close(c) PROVE PromisesPending'
  BY <1>18, AdvancePromises, ReturnPromises, StartupFields DEF Close
<1>19. ASSUME NEW c \in Call, Refuse(c) PROVE PromisesPending'
  <2> DEFINE k == [call[c] EXCEPT !.pc = "revoking", !.after = call[c].pc]
  <2>1. k.pc = "revoking" /\ k.gen = call[c].gen /\ k.task = call[c].task
    BY <1>k DEF CallState
  <2>2. call' = [call EXCEPT ![c] = k]
    BY <1>19 DEF Refuse
  <2> HIDE DEF k
  <2>3. Awaited(call[c]) => Awaited(k) /\ (Begun(call[c]) => Begun(k))
    BY <1>19, <2>1 DEF Refuse, Awaited, Begun, StartAwaits
  <2>4. QED BY <1>19, <1>u, <2>1, <2>2, <2>3, OneStays, PromisesStay DEF Refuse
<1>20. ASSUME NEW c \in Call, Revoke(c) PROVE PromisesPending'
  <2> DEFINE k == [call[c] EXCEPT !.pc = "failing", !.next = startup.gen + 1]
  <2>1. k.pc = "failing" /\ k.gen = call[c].gen /\ k.task = call[c].task
    BY <1>k DEF CallState
  <2>2. call' = [call EXCEPT ![c] = k]
    BY <1>20 DEF Revoke
  <2> HIDE DEF k
  <2>3. Awaited(call[c]) => Awaited(k) /\ (Begun(call[c]) => Begun(k))
    BY <1>20, <2>1 DEF Revoke, Awaited, Begun, StartAwaits
  <2>4. QED BY <1>20, <2>1, <2>2, <2>3, OneStays, PromisesStay DEF Revoke
<1>21. ASSUME NEW c \in Call, FailBot(c) PROVE PromisesPending'
  <2>1. Settles
    BY <1>21 DEF FailBot, Settles
  <2>2. QED BY <1>21, <2>1, GoOnPromises, ReturnPromises DEF FailBot, StartAwaits
<1>22. ASSUME NEW c \in Call, Resume(c) PROVE PromisesPending'
  BY <1>22, ArmPromises, AdvancePromises, StartupFields DEF Resume
<1>23. ASSUME NEW c \in Call, StartRequest(c) PROVE PromisesPending'
  BY <1>23, BeginPromises DEF StartRequest, Free
<1>24. ASSUME NEW c \in Call, StopRequest(c) PROVE PromisesPending'
  <2> DEFINE k == [Idle EXCEPT !.pc = "stopping", !.gen = startup.gen + 1]
  <2>1. k.pc = "stopping" /\ k.gen = startup.gen + 1
    BY DEF Idle
  <2>2. /\ call' = [call EXCEPT ![c] = k]
        /\ startup' = [status |-> "stopping", gen |-> startup.gen + 1, by |-> c]
    BY <1>24 DEF StopRequest
  <2> HIDE DEF k
  <2>3. ~Awaited(call[c])
    BY <1>24 DEF StopRequest, Free, Awaited, Begun, StartAwaits
  <2>4. QED BY <2>1, <2>2, <2>3, PromiseBegins DEF Awaited
<1>25. ASSUME NEW c \in Call, NEW r \in Room, JoinRequest(c, r) PROVE PromisesPending'
  BY <1>25, BeginPromises DEF JoinRequest, Free
<1>26. ASSUME NEW c \in Call, NEW r \in Room, LeaveRequest(c, r) PROVE PromisesPending'
  <2>1. [Idle EXCEPT !.pc = "leaving", !.room = r].pc = "leaving"
    BY DEF Idle
  <2>2. ~Awaited(call[c])
    BY <1>26 DEF LeaveRequest, Awaited, Begun, StartAwaits
  <2>3. QED BY <1>26, <1>u, <2>1, <2>2, OneStays, PromisesStay DEF LeaveRequest
<1>27. ASSUME NEW c \in Call, NEW r \in Room, NEW pc \in {"syncing", "pinging"}, Tick(c, r, pc)
       PROVE  PromisesPending'
  <2>1. [Idle EXCEPT !.pc = pc, !.task = "timer", !.room = r].pc = pc
    BY DEF Idle
  <2>2. ~Awaited(call[c])
    BY <1>27 DEF Tick, Awaited, Begun, StartAwaits
  <2>3. QED BY <1>27, <1>u, <2>1, <2>2, OneStays, PromisesStay DEF Tick
<1>28. CASE UNCHANGED vars
  BY <1>28, PromisesByCall, PromisesByCallNext DEF vars, memory
<1>29. QED
  BY <1>1, <1>2, <1>3, <1>4, <1>5, <1>6, <1>7, <1>8, <1>9, <1>10, <1>11, <1>12, <1>13,
     <1>14, <1>15, <1>16, <1>17, <1>18, <1>19, <1>20, <1>21, <1>22, <1>23, <1>24, <1>25,
     <1>26, <1>27, <1>28 DEF Next, Step

\* bot-manager.ts:112-115: nobody waits for a promise that no call in flight will settle,
\* whatever fails and however starts and stops overtake each other. It is the safety half
\* of CallsReturn.
THEOREM PromisesPendingHolds == Spec => []PromisesPending
<1>1. Init => TasksAgree /\ PromisesPending
  <2>1. ASSUME Init, NEW c \in Call PROVE call[c] = Idle
    BY <2>1 DEF Init
  <2>2. Init => TasksAgree
    BY <2>1, IdleTasked DEF TasksAgree
  <2>3. Init => PromisesPending
    BY <2>1, IdleSound, PromisesByCall DEF Init
  <2>4. QED BY <2>2, <2>3
<1>2. TypeOK /\ TasksAgree /\ PromisesPending /\ [Next]_vars => (TasksAgree /\ PromisesPending)'
  BY TasksStep, PromisesStep
<1>3. QED BY <1>1, <1>2, TypeInvariant, PTL DEF Spec
=============================================================================
