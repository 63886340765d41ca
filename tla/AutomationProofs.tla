-------------------------- MODULE AutomationProofs --------------------------
(***************************************************************************)
(* Proofs about Automation, for any number of messages, users, retries and *)
(* deaths of the process, and any limit and window.                         *)
(***************************************************************************)
EXTENDS Automation, FiniteSetTheorems, TLAPS

Awaits == {"idle", "gate", "context", "asking", "posting", "posted", "closing"}

-----------------------------------------------------------------------------

\* The handlers, the documents and the cooldown, without the limiter.
HandlersOK ==
  /\ clock \in Nat /\ crashes \in Nat
  /\ cooldown \in [User -> Entry]
  /\ run \in [Message -> Run]
  /\ event \in [Message -> EventState]
  /\ executed \subseteq Message
  /\ delivered \subseteq Message
  /\ stuck \subseteq User
  /\ \A m \in Message : run[m].pc # "idle" <=> event[m].status = "running"

\* The limiter, with what its buckets know.
LimiterOK ==
  /\ clock \in Nat
  /\ DOMAIN bucket \subseteq User
  /\ \A u \in DOMAIN bucket : bucket[u] \subseteq Hit
  /\ admitted \in [User -> SUBSET Hit]
  /\ evicted \subseteq User
  /\ BucketsKnow
  /\ AdmittedIsBounded

\* The cooldown, with the answers in the making.
CooldownOK ==
  /\ OneAnswerInTheMaking /\ AskersExclude /\ AloneUnlessShared /\ ReservationsReturned

\* The three parts are the inductive invariant.
LEMMA Parts == IInv <=> HandlersOK /\ LimiterOK /\ CooldownOK
BY DEF IInv, TypeOK, HandlersOK, LimiterOK, CooldownOK

\* The same of the next state.
LEMMA PartsNext == IInv' <=> HandlersOK' /\ LimiterOK' /\ CooldownOK'
BY DEF IInv, TypeOK, HandlersOK, LimiterOK, CooldownOK

\* The author of a message is a user.
LEMMA AuthorIsUser == \A m \in Message : Author[m] \in User
BY MessageAssumption

-----------------------------------------------------------------------------

\* A handler that has just come to an await is one.
LEMMA AtIsRun == \A pc \in Awaits : At(pc) \in Run /\ At(pc).pc = pc
BY NumberAssumption DEF Awaits, At, Run

\* What Go does to the handlers.
LEMMA Goes ==
  ASSUME HandlersOK, NEW m \in Message, NEW pc \in Awaits, Go(m, pc)
  PROVE  /\ run' \in [Message -> Run]
         /\ run'[m].pc = pc
         /\ \A n \in Message : n # m => run'[n] = run[n]
BY AtIsRun DEF HandlersOK, Go

\* What FreeOthers does to the handlers.
LEMMA Frees ==
  ASSUME HandlersOK, NEW m \in Message, NEW u \in User, NEW pc \in Awaits,
         FreeOthers(m, u, pc)
  PROVE  /\ run' \in [Message -> Run]
         /\ run'[m].pc = pc
         /\ \A n \in Message : n # m =>
              /\ run'[n].pc = run[n].pc
              /\ n \in Asking(u) => run'[n].freed
              /\ n \notin Asking(u) => run'[n] = run[n]
<1>1. \A n \in Message : [run[n] EXCEPT !.freed = TRUE] \in Run
  BY DEF HandlersOK, Run
<1>2. \A n \in Message : [run[n] EXCEPT !.freed = TRUE].pc = run[n].pc
                         /\ [run[n] EXCEPT !.freed = TRUE].freed
  BY DEF HandlersOK, Run
<1>3. QED BY <1>1, <1>2, AtIsRun DEF HandlersOK, FreeOthers

\* What the end of a handler does to it and to its event.
LEMMA Closes ==
  ASSUME HandlersOK, NEW m \in Message, NEW status, Close(m, status),
         status \in {"pending", "orphaned", "processed", "failed"}
  PROVE  /\ run' \in [Message -> Run]
         /\ run'[m].pc = "idle"
         /\ \A n \in Message : n # m => run'[n] = run[n]
         /\ event' \in [Message -> EventState]
         /\ event'[m].status # "running"
         /\ \A n \in Message : n # m => event'[n] = event[n]
<1>1. "idle" \in Awaits
  BY DEF Awaits
<1>2. [event[m] EXCEPT !.status = status] \in EventState
      /\ [event[m] EXCEPT !.status = status].status # "running"
  BY DEF HandlersOK, EventState
<1>3. event' = [event EXCEPT ![m] = [event[m] EXCEPT !.status = status]]
  BY DEF Close, HandlersOK
<1>4. QED BY <1>1, <1>2, <1>3, Goes DEF Close, HandlersOK

\* SendBack is one of two ends.
LEMMA SentBack ==
  ASSUME HandlersOK, NEW m \in Message, SendBack(m)
  PROVE  \E status \in {"pending", "failed", "orphaned"} : Close(m, status)
BY DEF SendBack

-----------------------------------------------------------------------------

\* The steps that move one handler from an await to another, neither the first, and
\* leave its event alone.
LEMMA MovesOn ==
  ASSUME HandlersOK, NEW m \in Message,
         run[m].pc # "idle", run' \in [Message -> Run], run'[m].pc # "idle",
         \A n \in Message : n # m => (run'[n].pc = run[n].pc),
         clock' \in Nat, crashes' = crashes, event' = event, delivered' = delivered,
         cooldown' \in [User -> Entry], stuck' \subseteq User, executed' \subseteq Message
  PROVE  HandlersOK'
<1>1. \A n \in Message : run'[n].pc # "idle" <=> event'[n].status = "running"
  BY DEF HandlersOK
<1>2. QED BY <1>1 DEF HandlersOK

\* The handlers keep their types, and an event has a handler exactly while it runs.
LEMMA HandlersStep ==
  ASSUME HandlersOK, [Next]_vars
  PROVE  HandlersOK'
<1> USE AuthorIsUser
<1>0. /\ "gate" \in Awaits /\ "context" \in Awaits /\ "closing" \in Awaits
      /\ "posting" \in Awaits /\ "posted" \in Awaits /\ "asking" \in Awaits
  BY DEF Awaits
<1>1. CASE UNCHANGED vars
  BY <1>1 DEF vars, memory, HandlersOK
<1>2. CASE Tick
  BY <1>2 DEF Tick, memory, HandlersOK
<1>3. CASE Crash
  <2>1. run' \in [Message -> Run] /\ \A n \in Message : run'[n].pc = "idle"
    BY <1>3, AtIsRun DEF Crash, Awaits
  <2>2. \A n \in Message : [event[n] EXCEPT !.status = "orphaned"] \in EventState
                           /\ [event[n] EXCEPT !.status = "orphaned"].status = "orphaned"
    BY DEF HandlersOK, EventState
  <2>3. event' \in [Message -> EventState]
        /\ \A n \in Message : event'[n].status # "running"
    BY <1>3, <2>2 DEF Crash, HandlersOK
  <2>4. cooldown' \in [User -> Entry]
    BY <1>3 DEF Crash, Entry
  <2>5. QED BY <1>3, <2>1, <2>3, <2>4 DEF Crash, HandlersOK
<1>4. ASSUME NEW u \in User, LimitOther(u) PROVE HandlersOK'
  BY <1>4 DEF LimitOther, HandlersOK
<1>5. ASSUME NEW m \in Message, Deliver(m) PROVE HandlersOK'
  <2>1. run' \in [Message -> Run] /\ run'[m].pc = "gate"
        /\ \A n \in Message : n # m => run'[n] = run[n]
    BY <1>0, <1>5, Goes DEF Deliver
  <2>2. [status |-> "running", attempts |-> event[m].attempts + 1] \in EventState
    BY DEF HandlersOK, EventState
  <2>3. event' \in [Message -> EventState] /\ event'[m].status = "running"
        /\ \A n \in Message : n # m => event'[n] = event[n]
    BY <1>5, <2>2 DEF Deliver, HandlersOK
  <2>4. QED BY <1>5, <2>1, <2>3 DEF Deliver, HandlersOK, memory
<1>6. ASSUME NEW m \in Message, Pass(m) \/ Block(m) \/ Skip(m) \/ Decline(m) \/ Post(m)
      PROVE  HandlersOK'
  <2>1. run[m].pc # "idle"
    BY <1>6 DEF Pass, Block, Skip, Decline, Post
  <2>2. Go(m, "context") \/ Go(m, "closing") \/ Go(m, "posted")
    BY <1>6 DEF Pass, Block, Skip, Decline, Post
  <2>3. UNCHANGED <<clock, cooldown, stuck, event, executed, delivered, crashes>>
    BY <1>6 DEF Pass, Block, Skip, Decline, Post, memory
  <2>4. run' \in [Message -> Run] /\ run'[m].pc # "idle"
        /\ \A n \in Message : n # m => run'[n] = run[n]
    BY <1>0, <2>2, Goes
  <2>5. QED BY <2>1, <2>3, <2>4, MovesOn DEF HandlersOK
<1>7. ASSUME NEW m \in Message, Limit(m) PROVE HandlersOK'
  <2>1. Go(m, "context") \/ Go(m, "closing")
    BY <1>7 DEF Limit
  <2>2. run' \in [Message -> Run] /\ run'[m].pc # "idle"
        /\ \A n \in Message : n # m => run'[n] = run[n]
    BY <1>0, <2>1, Goes
  <2>3. QED BY <1>7, <2>2, MovesOn DEF Limit, HandlersOK
<1>8. ASSUME NEW m \in Message, NoContext(m) \/ Finish(m) PROVE HandlersOK'
  <2>1. \E status \in {"pending", "orphaned", "processed", "failed"} : Close(m, status)
    BY <1>8, SentBack DEF NoContext, Finish
  <2>2. UNCHANGED <<clock, cooldown, stuck, executed, delivered, crashes>>
    BY <1>8 DEF NoContext, Finish, memory
  <2>3. /\ run' \in [Message -> Run] /\ run'[m].pc = "idle"
        /\ \A n \in Message : n # m => run'[n] = run[n]
        /\ event' \in [Message -> EventState] /\ event'[m].status # "running"
        /\ \A n \in Message : n # m => event'[n] = event[n]
    BY <2>1, Closes
  <2>4. QED BY <2>2, <2>3 DEF HandlersOK
<1>9. ASSUME NEW m \in Message, Reserve(m) PROVE HandlersOK'
  <2>1. [pc |-> "asking", requests |-> 0, until |-> clock + Window, freed |-> FALSE,
         shared |-> Asking(Author[m]) # {}] \in Run
    BY NumberAssumption DEF HandlersOK, Run
  <2>2. run' \in [Message -> Run] /\ run'[m].pc # "idle"
        /\ \A n \in Message : n # m => run'[n] = run[n]
    BY <1>9, <2>1 DEF Reserve, HandlersOK
  <2>3. [cooldown[Author[m]] EXCEPT !.reservedUntil = clock + Window] \in Entry
    BY NumberAssumption DEF HandlersOK, Entry
  <2>4. cooldown' \in [User -> Entry]
    BY <1>9, <2>3 DEF Reserve, HandlersOK
  <2>5. QED BY <1>9, <2>2, <2>4, MovesOn DEF Reserve, HandlersOK
<1>10. ASSUME NEW m \in Message, NoTrigger(m) \/ NoAnswer(m) PROVE HandlersOK'
  <2>1. run[m].pc # "idle" /\ FreeOthers(m, Author[m], "closing")
        /\ ReleaseCooldown(Author[m])
    BY <1>10 DEF NoTrigger, NoAnswer
  <2>2. run' \in [Message -> Run] /\ run'[m].pc # "idle"
        /\ \A n \in Message : n # m => run'[n].pc = run[n].pc
    BY <1>0, <2>1, Frees
  <2>3. [cooldown[Author[m]] EXCEPT !.reservedUntil = 0] \in Entry
    BY DEF HandlersOK, Entry
  <2>4. cooldown' \in [User -> Entry] /\ stuck' \subseteq User
    BY <2>1, <2>3 DEF ReleaseCooldown, HandlersOK
  <2>5. QED BY <1>10, <2>1, <2>2, <2>4, MovesOn DEF NoTrigger, NoAnswer, HandlersOK
<1>11. ASSUME NEW m \in Message, AskThrows(m) PROVE HandlersOK'
  <2>1. run' \in [Message -> Run] /\ run'[m].pc # "idle"
        /\ \A n \in Message : n # m => run'[n] = run[n]
    BY <1>0, <1>11, Goes DEF AskThrows
  <2>2. QED BY <1>11, <2>1, MovesOn DEF AskThrows, HandlersOK
<1>12. ASSUME NEW m \in Message, Request(m) PROVE HandlersOK'
  <2>1. [run[m] EXCEPT !.requests = run[m].requests + 1] \in Run
        /\ [run[m] EXCEPT !.requests = run[m].requests + 1].pc = "asking"
    BY <1>12, NumberAssumption DEF Request, HandlersOK, Run
  <2>2. run' = [run EXCEPT ![m] = [run[m] EXCEPT !.requests = run[m].requests + 1]]
    BY <1>12 DEF Request, HandlersOK
  <2>3. run' \in [Message -> Run] /\ run'[m].pc # "idle"
        /\ \A n \in Message : n # m => run'[n] = run[n]
    BY <2>1, <2>2 DEF HandlersOK
  <2>4. QED BY <1>12, <2>3, MovesOn DEF Request, HandlersOK, memory
<1>13. ASSUME NEW m \in Message, Respond(m) PROVE HandlersOK'
  <2>1. run' \in [Message -> Run] /\ run'[m].pc # "idle"
        /\ \A n \in Message : n # m => run'[n] = run[n]
    BY <1>0, <1>13, Goes DEF Respond
  <2>2. cooldown' \in [User -> Entry]
    BY <1>13 DEF Respond, HandlersOK, Entry
  <2>3. QED BY <1>13, <2>1, <2>2, MovesOn DEF Respond, HandlersOK
<1>14. ASSUME NEW m \in Message, MarkExecuted(m) PROVE HandlersOK'
  <2>1. run' \in [Message -> Run] /\ run'[m].pc # "idle"
        /\ \A n \in Message : n # m => run'[n] = run[n]
    BY <1>0, <1>14, Goes DEF MarkExecuted
  <2>2. executed' \subseteq Message
    BY <1>14 DEF MarkExecuted, HandlersOK
  <2>3. QED BY <1>14, <2>1, <2>2, MovesOn DEF MarkExecuted, HandlersOK, memory
<1>15. QED
  BY <1>1, <1>2, <1>3, <1>4, <1>5, <1>6, <1>7, <1>8, <1>9, <1>10, <1>11, <1>12, <1>13,
     <1>14 DEF Next

-----------------------------------------------------------------------------

\* A step that neither starts nor ends an answer, nor touches the cooldown.
Quiet ==
  /\ UNCHANGED <<clock, cooldown, stuck>>
  /\ \A n \in Message :
       run'[n] = run[n] \/ (run[n].pc # "asking" /\ run'[n].pc # "asking")

\* Most steps are of that kind.
LEMMA QuietSteps ==
  ASSUME HandlersOK, NEW m \in Message,
         \/ Deliver(m) \/ Pass(m) \/ Block(m) \/ Limit(m) \/ NoContext(m) \/ Skip(m)
         \/ Decline(m) \/ Post(m) \/ MarkExecuted(m) \/ Finish(m)
  PROVE  Quiet
<1>1. UNCHANGED <<clock, cooldown, stuck>>
  BY DEF Deliver, Pass, Block, Limit, NoContext, Skip, Decline, Post, MarkExecuted, Finish,
         memory
<1>2. run[m].pc # "asking"
  BY DEF Deliver, Pass, Block, Limit, NoContext, Skip, Decline, Post, MarkExecuted, Finish,
         HandlersOK
<1>3. \E pc \in Awaits : pc # "asking" /\ Go(m, pc)
  <2>1. CASE NoContext(m) \/ Finish(m)
    <3>1. \E status \in {"pending", "orphaned", "processed", "failed"} : Close(m, status)
      BY <2>1, SentBack DEF NoContext, Finish
    <3>2. QED BY <3>1 DEF Close, Awaits
  <2>2. CASE ~(NoContext(m) \/ Finish(m))
    BY <2>2 DEF Deliver, Pass, Block, Limit, Skip, Decline, Post, MarkExecuted, Awaits
  <2>3. QED BY <2>1, <2>2
<1>4. QED BY <1>1, <1>2, <1>3, Goes DEF Quiet

\* The kinds of steps the cooldown can tell apart.
LEMMA CooldownSteps ==
  ASSUME HandlersOK, [Next]_vars
  PROVE  \/ Quiet \/ Tick \/ Crash
         \/ \E m \in Message : \/ Reserve(m) \/ Request(m) \/ AskThrows(m) \/ Respond(m)
                               \/ NoTrigger(m) \/ NoAnswer(m)
<1>1. CASE UNCHANGED vars
  BY <1>1 DEF vars, memory, Quiet
<1>2. ASSUME NEW u \in User, LimitOther(u) PROVE Quiet
  BY <1>2 DEF LimitOther, Quiet
<1>3. QED BY <1>1, <1>2, QuietSteps DEF Next

\* The two invariants of the answers in the making, of one handler.
Excludes(m) ==
  LET c == cooldown[Author[m]] IN
  run[m].pc = "asking" /\ ~Lost(m)
    => /\ run[m].until <= clock + Window
       /\ c.reservedUntil = run[m].until \/ run[m].until <= c.respondedAt + Window

Alone(m) ==
  LET c == cooldown[Author[m]] IN
  run[m].pc = "asking" /\ ~run[m].shared /\ ~Lost(m)
    => /\ Asking(Author[m]) = {m}
       /\ c.reservedUntil = run[m].until
       /\ clock - c.respondedAt >= Window

LEMMA OneByOne ==
  /\ AskersExclude <=> \A m \in Message : Excludes(m)
  /\ AskersExclude' <=> \A m \in Message : Excludes(m)'
  /\ AloneUnlessShared <=> \A m \in Message : Alone(m)
  /\ AloneUnlessShared' <=> \A m \in Message : Alone(m)'
BY DEF AskersExclude, Excludes, AloneUnlessShared, Alone

\* While a handler that asks has not lost its reservation, nobody can reserve.
LEMMA NobodyReserves ==
  ASSUME HandlersOK, AskersExclude, NEW m \in Message, run[m].pc = "asking",
         CanReserve(Author[m])
  PROVE  Lost(m)
<1>1. cooldown[Author[m]] \in Entry /\ run[m] \in Run /\ clock \in Nat
  BY AuthorIsUser DEF HandlersOK
<1>2. Excludes(m)
  BY OneByOne
<1>3. QED BY <1>1, <1>2, NumberAssumption DEF Excludes, CanReserve, Lost, Entry, Run

\* A quiet step.
LEMMA CooldownQuiet ==
  ASSUME HandlersOK, CooldownOK, Quiet
  PROVE  CooldownOK'
<1>1. \A n \in Message : run[n].pc = "asking" \/ run'[n].pc = "asking" => run'[n] = run[n]
  BY DEF Quiet
<1>2. \A u \in User : Asking(u)' = Asking(u)
  BY <1>1 DEF Asking
<1>3. \A n \in Message : run'[n].pc = "asking" => run[n].pc = "asking" /\ Lost(n)' = Lost(n)
  BY <1>1 DEF Lost, Quiet
<1>4. OneAnswerInTheMaking'
  BY <1>3 DEF CooldownOK, OneAnswerInTheMaking
<1>5. \A n \in Message : Excludes(n)' /\ Alone(n)'
  BY <1>1, <1>2, <1>3, OneByOne, AuthorIsUser DEF CooldownOK, Excludes, Alone, Quiet
<1>6. ReservationsReturned'
  BY <1>2 DEF CooldownOK, ReservationsReturned, Quiet
<1>7. QED BY <1>4, <1>5, <1>6, OneByOne DEF CooldownOK

\* The clock goes on.
LEMMA CooldownTick ==
  ASSUME HandlersOK, CooldownOK, Tick
  PROVE  CooldownOK'
<1>1. clock' = clock + 1 /\ cooldown' = cooldown /\ run' = run /\ stuck' = stuck
  BY DEF Tick, memory
<1>2. \A u \in User : Asking(u)' = Asking(u)
  BY <1>1 DEF Asking
<1>3. \A n \in Message : run[n] \in Run /\ cooldown[Author[n]] \in Entry
  BY AuthorIsUser DEF HandlersOK
<1>4. \A n \in Message : ~Lost(n)' => ~Lost(n)
  BY <1>1, <1>3 DEF Lost, HandlersOK, Run
<1>5. OneAnswerInTheMaking'
  BY <1>1, <1>4 DEF CooldownOK, OneAnswerInTheMaking
<1>6. ASSUME NEW n \in Message PROVE Excludes(n)' /\ Alone(n)'
  <2>1. Excludes(n) /\ Alone(n)
    BY OneByOne DEF CooldownOK
  <2>2. run[n] \in Run /\ cooldown[Author[n]] \in Entry /\ Author[n] \in User /\ clock \in Nat
    BY <1>3, AuthorIsUser DEF HandlersOK
  <2>3. Excludes(n)'
    BY <1>1, <1>4, <2>1, <2>2, NumberAssumption DEF Excludes, Run, Entry
  <2>4. Alone(n)'
    BY <1>1, <1>2, <1>4, <2>1, <2>2, NumberAssumption DEF Alone, Run, Entry
  <2>5. QED BY <2>3, <2>4
<1>7. ReservationsReturned'
  <2>1. \A u \in User : cooldown[u].reservedUntil \in Nat
    BY DEF HandlersOK, Entry
  <2>2. QED BY <1>1, <1>2, <2>1 DEF CooldownOK, ReservationsReturned, HandlersOK
<1>8. QED BY <1>5, <1>6, <1>7, OneByOne DEF CooldownOK

\* The process dies.
LEMMA CooldownCrash ==
  ASSUME HandlersOK, Crash
  PROVE  CooldownOK'
<1>1. \A n \in Message : run'[n].pc = "idle"
  BY AtIsRun DEF Crash, Awaits
<1>2. \A u \in User : cooldown'[u].reservedUntil = 0
  BY DEF Crash
<1>3. clock' \in Nat
  BY DEF Crash, HandlersOK
<1>4. OneAnswerInTheMaking'
  BY <1>1 DEF OneAnswerInTheMaking
<1>5. \A n \in Message : Excludes(n)' /\ Alone(n)'
  BY <1>1 DEF Excludes, Alone
<1>6. ReservationsReturned'
  BY <1>2, <1>3 DEF ReservationsReturned
<1>7. QED BY <1>4, <1>5, <1>6, OneByOne DEF CooldownOK

\* A handler reserves: every other that asks for the same user has lost its
\* reservation.
LEMMA CooldownReserve ==
  ASSUME HandlersOK, CooldownOK, NEW m \in Message, Reserve(m)
  PROVE  CooldownOK'
<1> DEFINE u == Author[m]
<1>0. u \in User /\ clock \in Nat /\ cooldown[u] \in Entry
  BY AuthorIsUser DEF HandlersOK
<1>1. /\ run'[m] = [pc |-> "asking", requests |-> 0, until |-> clock + Window,
                    freed |-> FALSE, shared |-> Asking(u) # {}]
      /\ \A n \in Message : n # m => run'[n] = run[n]
  BY DEF Reserve, HandlersOK
<1>2. /\ clock' = clock
      /\ cooldown'[u].reservedUntil = clock + Window
      /\ cooldown'[u].respondedAt = cooldown[u].respondedAt
      /\ \A v \in User : v # u => cooldown'[v] = cooldown[v]
      /\ stuck' = stuck \ {u}
  BY <1>0 DEF Reserve, HandlersOK, Entry
<1>3. CanReserve(u) /\ run[m].pc = "context"
  BY DEF Reserve
<1>4. \A n \in Asking(u) : Lost(n)
  BY <1>3, NobodyReserves DEF Asking, CooldownOK
<1>5. \A n \in Message : n # m => Lost(n)' = Lost(n)
  BY <1>1, <1>2 DEF Lost
<1>6. \A n \in Message : n # m /\ Author[n] = u /\ run'[n].pc = "asking" => Lost(n)'
  BY <1>1, <1>4, <1>5 DEF Asking
<1>7. OneAnswerInTheMaking'
  BY <1>1, <1>5, <1>6 DEF CooldownOK, OneAnswerInTheMaking
<1>8. Excludes(m)'
  BY <1>0, <1>1, <1>2, NumberAssumption DEF Excludes, Entry
<1>9. Asking(u)' = Asking(u) \cup {m}
  BY <1>1 DEF Asking
<1>10. Alone(m)'
  <2>1. ~run'[m].shared => Asking(u)' = {m}
    <3>1. CASE Asking(u) = {}
      BY <1>9, <3>1
    <3>2. CASE Asking(u) # {}
      <4>1. (Asking(u) # {}) = TRUE
        BY <3>2, Zenon
      <4>2. run'[m] = [pc |-> "asking", requests |-> 0, until |-> clock + Window,
                       freed |-> FALSE, shared |-> TRUE]
        BY <1>1, <4>1, Zenon
      <4>3. QED BY <4>2
    <3>3. QED BY <3>1, <3>2
  <2>2. run'[m].until = clock + Window
    BY <1>1
  <2>3. clock' - cooldown'[u].respondedAt >= Window
    BY <1>2, <1>3 DEF CanReserve
  <2>4. QED BY <1>2, <2>1, <2>2, <2>3 DEF Alone
<1>11. ASSUME NEW n \in Message, n # m PROVE Excludes(n)' /\ Alone(n)'
  <2>1. CASE Author[n] = u
    BY <1>6, <1>11, <2>1 DEF Excludes, Alone
  <2>2. CASE Author[n] # u
    <3>1. Author[n] \in User /\ Asking(Author[n])' = Asking(Author[n])
      BY <1>1, <1>3, <2>2, AuthorIsUser DEF Asking
    <3>2. Excludes(n) /\ Alone(n)
      BY OneByOne DEF CooldownOK
    <3>3. QED BY <1>1, <1>2, <1>5, <1>11, <2>2, <3>1, <3>2 DEF Excludes, Alone
  <2>3. QED BY <2>1, <2>2
<1>12. ReservationsReturned'
  <2>1. \A v \in User : v # u => Asking(v)' = Asking(v)
    BY <1>1, <1>3 DEF Asking
  <2>2. QED BY <1>2, <1>9, <2>1 DEF CooldownOK, ReservationsReturned
<1>13. QED BY <1>7, <1>8, <1>10, <1>11, <1>12, OneByOne DEF CooldownOK

\* The provider is asked once more.
LEMMA CooldownRequest ==
  ASSUME HandlersOK, CooldownOK, NEW m \in Message, Request(m)
  PROVE  CooldownOK'
<1>1. UNCHANGED <<clock, cooldown, stuck>>
  BY DEF Request, memory
<1>2. \A n \in Message : /\ run'[n].pc = run[n].pc /\ run'[n].until = run[n].until
                         /\ run'[n].freed = run[n].freed /\ run'[n].shared = run[n].shared
  <2>1. run' = [run EXCEPT ![m] = [run[m] EXCEPT !.requests = run[m].requests + 1]]
    BY DEF Request, HandlersOK
  <2>2. QED BY <2>1 DEF HandlersOK, Run
<1>3. \A n \in Message : Lost(n)' = Lost(n)
  BY <1>1, <1>2 DEF Lost
<1>4. \A u \in User : Asking(u)' = Asking(u)
  BY <1>2 DEF Asking
<1>5. OneAnswerInTheMaking'
  BY <1>2, <1>3 DEF CooldownOK, OneAnswerInTheMaking
<1>6. \A n \in Message : Excludes(n)' /\ Alone(n)'
  BY <1>1, <1>2, <1>3, <1>4, OneByOne, AuthorIsUser DEF CooldownOK, Excludes, Alone
<1>7. ReservationsReturned'
  BY <1>1, <1>4 DEF CooldownOK, ReservationsReturned
<1>8. QED BY <1>5, <1>6, <1>7, OneByOne DEF CooldownOK

\* A handler stops asking because a call has thrown: it leaves the reservation behind.
LEMMA CooldownAskThrows ==
  ASSUME HandlersOK, CooldownOK, NEW m \in Message, AskThrows(m)
  PROVE  CooldownOK'
<1>1. UNCHANGED <<clock, cooldown>> /\ stuck' = stuck \cup {Author[m]}
  BY DEF AskThrows
<1>2. run'[m].pc = "closing" /\ \A n \in Message : n # m => run'[n] = run[n]
  BY Goes DEF AskThrows, Awaits
<1>3. \A n \in Message : run'[n].pc = "asking" => n # m /\ run'[n] = run[n] /\ Lost(n)' = Lost(n)
  BY <1>1, <1>2 DEF Lost
<1>4. \A v \in User : v # Author[m] => Asking(v)' = Asking(v)
  BY <1>2 DEF Asking
<1>5. OneAnswerInTheMaking'
  BY <1>3 DEF CooldownOK, OneAnswerInTheMaking
<1>6. ASSUME NEW n \in Message PROVE Excludes(n)' /\ Alone(n)'
  <2>1. Excludes(n) /\ Alone(n)
    BY OneByOne DEF CooldownOK
  <2>2. Excludes(n)'
    BY <1>1, <1>3, <2>1 DEF Excludes
  <2>3. Alone(n)'
    <3>1. SUFFICES ASSUME run'[n].pc = "asking", ~run'[n].shared, ~Lost(n)'
                   PROVE  /\ Asking(Author[n])' = {n}
                          /\ cooldown[Author[n]].reservedUntil = run[n].until
                          /\ clock - cooldown[Author[n]].respondedAt >= Window
      BY <1>1, <1>3 DEF Alone
    <3>2. n # m /\ Asking(Author[n]) = {n}
      BY <1>3, <2>1, <3>1 DEF Alone
    <3>3. Author[n] # Author[m]
      BY <3>2 DEF Asking, AskThrows
    <3>4. QED BY <1>3, <1>4, <2>1, <3>1, <3>2, <3>3, AuthorIsUser DEF Alone
  <2>4. QED BY <2>2, <2>3
<1>7. ReservationsReturned'
  BY <1>1, <1>4 DEF CooldownOK, ReservationsReturned
<1>8. QED BY <1>5, <1>6, <1>7, OneByOne DEF CooldownOK

\* A handler gives the reservation back, its own or another's.
LEMMA CooldownReleased ==
  ASSUME HandlersOK, CooldownOK, NEW m \in Message, UNCHANGED clock,
         ReleaseCooldown(Author[m]), FreeOthers(m, Author[m], "closing")
  PROVE  CooldownOK'
<1> DEFINE u == Author[m]
<1>0. u \in User /\ clock \in Nat /\ cooldown[u] \in Entry /\ "closing" \in Awaits
  BY AuthorIsUser DEF HandlersOK, Awaits
<1>1. /\ cooldown'[u].reservedUntil = 0
      /\ \A v \in User : v # u => cooldown'[v] = cooldown[v]
      /\ stuck' = stuck \ {u}
  BY <1>0 DEF ReleaseCooldown, HandlersOK, Entry
<1>2. /\ run'[m].pc = "closing"
      /\ \A n \in Message : n # m =>
           /\ run'[n].pc = run[n].pc
           /\ n \in Asking(u) => run'[n].freed
           /\ n \notin Asking(u) => run'[n] = run[n]
  BY <1>0, Frees
<1>3. \A n \in Message : Author[n] = u /\ run'[n].pc = "asking" => Lost(n)'
  BY <1>2 DEF Asking, Lost
<1>4. \A n \in Message : Author[n] # u => run'[n] = run[n] /\ Lost(n)' = Lost(n)
  BY <1>2 DEF Asking, Lost
<1>5. \A v \in User : v # u => Asking(v)' = Asking(v)
  BY <1>4 DEF Asking
<1>6. OneAnswerInTheMaking'
  BY <1>3, <1>4 DEF CooldownOK, OneAnswerInTheMaking
<1>7. ASSUME NEW n \in Message PROVE Excludes(n)' /\ Alone(n)'
  <2>1. CASE Author[n] = u
    BY <1>3, <2>1 DEF Excludes, Alone
  <2>2. CASE Author[n] # u
    BY <1>1, <1>4, <1>5, <2>2, OneByOne, AuthorIsUser DEF CooldownOK, Excludes, Alone
  <2>3. QED BY <2>1, <2>2
<1>8. ReservationsReturned'
  BY <1>0, <1>1, <1>5 DEF CooldownOK, ReservationsReturned
<1>9. QED BY <1>6, <1>7, <1>8, OneByOne DEF CooldownOK

\* An answer arms the cooldown: an older one in the making keeps its reservation, but the
\* cooldown outlasts it.
LEMMA CooldownRespond ==
  ASSUME HandlersOK, CooldownOK, NEW m \in Message, Respond(m)
  PROVE  CooldownOK'
<1> DEFINE u == Author[m]
<1>0. u \in User /\ clock \in Nat /\ "posting" \in Awaits
  BY AuthorIsUser DEF HandlersOK, Awaits
<1>1. /\ clock' = clock
      /\ cooldown'[u].reservedUntil = 0 /\ cooldown'[u].respondedAt = clock
      /\ \A v \in User : v # u => cooldown'[v] = cooldown[v]
      /\ stuck' = stuck \ {u}
  BY <1>0 DEF Respond, HandlersOK
<1>2. run'[m].pc = "posting" /\ \A n \in Message : n # m => run'[n] = run[n]
  BY <1>0, Goes DEF Respond
<1>3. \A n \in Message : run'[n].pc = "asking" => n # m /\ run'[n] = run[n] /\ Lost(n)' = Lost(n)
  BY <1>1, <1>2 DEF Lost
<1>4. \A v \in User : v # u => Asking(v)' = Asking(v)
  BY <1>2 DEF Asking
<1>5. OneAnswerInTheMaking'
  BY <1>3 DEF CooldownOK, OneAnswerInTheMaking
<1>6. ASSUME NEW n \in Message PROVE Excludes(n)' /\ Alone(n)'
  <2>1. Excludes(n) /\ Alone(n)
    BY OneByOne DEF CooldownOK
  <2>2. CASE Author[n] = u
    <3>1. Excludes(n)'
      BY <1>1, <1>3, <2>1, <2>2 DEF Excludes
    <3>2. ~(run'[n].pc = "asking" /\ ~run'[n].shared /\ ~Lost(n)')
      <4>1. SUFFICES ASSUME run'[n].pc = "asking", ~run'[n].shared, ~Lost(n)'
                     PROVE  FALSE
        OBVIOUS
      <4>2. n # m /\ Asking(u) = {n}
        BY <1>3, <2>1, <2>2, <4>1 DEF Alone
      <4>3. m \in Asking(u)
        BY DEF Respond, Asking
      <4>4. QED BY <4>2, <4>3
    <3>3. QED BY <3>1, <3>2 DEF Alone
  <2>3. CASE Author[n] # u
    BY <1>1, <1>3, <1>4, <2>1, <2>3, AuthorIsUser DEF Excludes, Alone
  <2>4. QED BY <2>2, <2>3
<1>7. ReservationsReturned'
  BY <1>0, <1>1, <1>4 DEF CooldownOK, ReservationsReturned
<1>8. QED BY <1>5, <1>6, <1>7, OneByOne DEF CooldownOK

\* Every step keeps the cooldown.
LEMMA CooldownStep ==
  ASSUME HandlersOK, CooldownOK, [Next]_vars
  PROVE  CooldownOK'
<1>1. ASSUME NEW m \in Message, NoTrigger(m) \/ NoAnswer(m) PROVE CooldownOK'
  BY <1>1, CooldownReleased DEF NoTrigger, NoAnswer
<1>2. QED
  BY <1>1, CooldownSteps, CooldownQuiet, CooldownTick, CooldownCrash, CooldownReserve,
     CooldownRequest, CooldownAskThrows, CooldownRespond

-----------------------------------------------------------------------------

\* What the limiter knows of a user before a message of his: nothing, if he has no bucket.
Known(u) == IF u \in DOMAIN bucket THEN bucket[u] ELSE {}

\* Its hit, when the ones of the window are hits.
NewHit(hits) == [at |-> clock, nr |-> Cardinality(hits)]

\* What is let through is a new hit, not one of those that are counted already: counting
\* the set is counting the array.
LEMMA HitIsNew ==
  ASSUME LimiterOK, NEW u \in User
  PROVE  /\ Recent(Known(u)) \subseteq Hit /\ IsFiniteSet(Recent(Known(u)))
         /\ Cardinality(Recent(Known(u))) \in Nat
         /\ NewHit(Recent(Known(u))) \in Hit
         /\ NewHit(Recent(Known(u))) \notin Recent(Known(u))
         /\ \A h \in Recent(Known(u)) :
              h.at <= clock /\ (h.at = clock => h.nr < Cardinality(Recent(Known(u))))
<1> DEFINE hits == Recent(Known(u))
<1>1. hits \subseteq Known(u)
  BY DEF Recent
<1>2. Known(u) \subseteq Hit /\ IsFiniteSet(Known(u))
  BY FS_EmptySet DEF Known, LimiterOK, BucketsKnow
<1>3. hits \subseteq Hit /\ IsFiniteSet(hits)
  BY <1>1, <1>2, FS_Subset
<1>4. Cardinality(hits) \in Nat
  BY <1>3, FS_CardinalityType
<1>5. NewHit(hits) \in Hit
  BY <1>4 DEF NewHit, Hit, LimiterOK
<1>6. ASSUME NEW h \in hits
      PROVE  h.at <= clock /\ (h.at = clock => h.nr < Cardinality(hits))
  <2>1. u \in DOMAIN bucket /\ h \in bucket[u] /\ hits = Recent(bucket[u])
    BY <1>1, <1>6 DEF Known
  <2>2. QED BY <2>1 DEF LimiterOK, BucketsKnow
<1>7. NewHit(hits) \notin hits
  <2>1. SUFFICES ASSUME NewHit(hits) \in hits PROVE FALSE
    OBVIOUS
  <2>2. NewHit(hits).at = clock /\ NewHit(hits).nr = Cardinality(hits)
    BY DEF NewHit
  <2>3. NewHit(hits).nr < Cardinality(hits)
    BY <1>6, <2>1, <2>2
  <2>4. QED BY <1>4, <2>2, <2>3
<1>8. QED BY <1>3, <1>4, <1>5, <1>6, <1>7

\* isAllowed(u) in the terms of the proof: the buckets that are dropped, the one of u, and
\* the others.
LEMMA Limited ==
  ASSUME NEW u \in User, NEW allowed \in BOOLEAN, IsAllowed(u, allowed)
  PROVE  LET hits == Recent(Known(u)) IN
         /\ allowed <=> Cardinality(hits) < RateMax
         /\ \E gone \in SUBSET (DOMAIN bucket \cup {u}) :
              /\ DOMAIN bucket' = (DOMAIN bucket \cup {u}) \ gone
              /\ \A v \in DOMAIN bucket' :
                   bucket'[v] = IF v # u THEN bucket[v]
                                ELSE IF allowed THEN hits \cup {NewHit(hits)} ELSE hits
              /\ evicted' = evicted \cup gone
              /\ admitted' = [v \in User |->
                                IF v \in evicted' THEN {}
                                ELSE IF v = u /\ allowed
                                     THEN WithinWindow(admitted[v]) \cup {NewHit(hits)}
                                ELSE admitted[v]]
<1> DEFINE b == [v \in DOMAIN bucket \cup {u} |-> IF v \in DOMAIN bucket THEN bucket[v] ELSE {}]
           gone == IF u \notin DOMAIN bucket THEN Prunable(b) ELSE {}
           hits == Recent(Known(u))
<1>1. b[u] = Known(u) /\ DOMAIN b = DOMAIN bucket \cup {u}
  BY DEF Known
<1>2. gone \subseteq DOMAIN bucket \cup {u}
  BY <1>1 DEF Prunable
<1>3. Recent(b[u]) = hits
  BY <1>1
<1>4. /\ allowed = (Cardinality(hits) < RateMax)
      /\ bucket' = [v \in DOMAIN b \ gone |->
                     IF v # u THEN b[v]
                     ELSE IF allowed THEN hits \cup {NewHit(hits)} ELSE hits]
      /\ evicted' = evicted \cup gone
      /\ admitted' = [v \in User |->
                       IF v \in evicted' THEN {}
                       ELSE IF v = u /\ allowed
                            THEN WithinWindow(admitted[v]) \cup {NewHit(hits)}
                       ELSE admitted[v]]
  BY <1>3 DEF IsAllowed, NewHit
<1> HIDE DEF gone, hits
<1>5. \A v \in DOMAIN bucket' :
        bucket'[v] = IF v # u THEN bucket[v]
                     ELSE IF allowed THEN hits \cup {NewHit(hits)} ELSE hits
  BY <1>1, <1>4
<1>6. DOMAIN bucket' = (DOMAIN bucket \cup {u}) \ gone
  BY <1>1, <1>4
<1>7. QED BY <1>2, <1>4, <1>5, <1>6 DEF hits

\* The limiter decides about a message.
LEMMA LimiterDecides ==
  ASSUME LimiterOK, NEW u \in User, NEW allowed \in BOOLEAN, IsAllowed(u, allowed),
         clock' = clock
  PROVE  LimiterOK'
<1> DEFINE hits == Recent(Known(u))
           hit  == NewHit(hits)
<1>1. PICK gone \in SUBSET (DOMAIN bucket \cup {u}) :
        /\ DOMAIN bucket' = (DOMAIN bucket \cup {u}) \ gone
        /\ \A v \in DOMAIN bucket' :
             bucket'[v] = IF v # u THEN bucket[v]
                          ELSE IF allowed THEN hits \cup {hit} ELSE hits
        /\ evicted' = evicted \cup gone
        /\ admitted' = [v \in User |->
                          IF v \in evicted' THEN {}
                          ELSE IF v = u /\ allowed
                               THEN WithinWindow(admitted[v]) \cup {hit}
                          ELSE admitted[v]]
  BY Limited
<1>2. /\ hits \subseteq Hit /\ IsFiniteSet(hits) /\ Cardinality(hits) \in Nat
      /\ hit \in Hit /\ hit \notin hits
      /\ \A h \in hits : h.at <= clock /\ (h.at = clock => h.nr < Cardinality(hits))
      /\ hit.at = clock /\ hit.nr = Cardinality(hits)
  BY HitIsNew DEF NewHit
<1>3. allowed <=> Cardinality(hits) < RateMax
  BY Limited
<1>4. IsFiniteSet(hits \cup {hit}) /\ Cardinality(hits \cup {hit}) = Cardinality(hits) + 1
  BY <1>2, FS_AddElement
<1>5. \A h \in hits : clock - h.at < RateWindow
  BY DEF Recent
<1>6. /\ {h \in hits : clock - h.at < RateWindow} = hits
      /\ {h \in hits \cup {hit} : clock - h.at < RateWindow} = hits \cup {hit}
  <2>1. clock - hit.at < RateWindow
    BY <1>2, NumberAssumption DEF LimiterOK
  <2>2. QED BY <1>5, <2>1
<1>7. u \notin evicted => WithinWindow(admitted[u]) = hits
  <2>1. u \notin DOMAIN bucket => hits = {}
    BY DEF Known, Recent
  <2>2. QED BY <2>1 DEF LimiterOK, BucketsKnow, Known
<1> HIDE DEF hits, hit
<1>8. \A v \in DOMAIN bucket' : Recent(bucket[v])' = {h \in bucket'[v] : clock - h.at < RateWindow}
  BY DEF Recent
<1>9. \A v \in DOMAIN bucket' :
        /\ v # u => v \in DOMAIN bucket /\ bucket'[v] = bucket[v]
                    /\ Recent(bucket[v])' = Recent(bucket[v])
        /\ v = u => /\ bucket'[v] = IF allowed THEN hits \cup {hit} ELSE hits
                    /\ Recent(bucket[v])' = bucket'[v]
  BY <1>1, <1>6, <1>8 DEF Recent
<1>10. \A v \in User \ evicted' :
         /\ v \notin evicted /\ v \notin gone
         /\ v # u => admitted'[v] = admitted[v]
         /\ v = u => admitted'[v] = IF allowed THEN hits \cup {hit} ELSE admitted[v]
  BY <1>1, <1>7
<1>11. ASSUME NEW v \in User \ evicted'
       PROVE  WithinWindow(admitted[v])'
                = IF v \in DOMAIN bucket' THEN Recent(bucket[v])' ELSE {}
  <2>1. WithinWindow(admitted[v])' = {h \in admitted'[v] : h.at + RateWindow > clock}
    BY DEF WithinWindow
  <2>2. CASE v # u
    <3>1. WithinWindow(admitted[v])' = WithinWindow(admitted[v])
      BY <1>10, <2>1, <2>2 DEF WithinWindow
    <3>2. v \in DOMAIN bucket <=> v \in DOMAIN bucket'
      BY <1>1, <1>10, <2>2
    <3>3. QED BY <1>9, <1>10, <2>2, <3>1, <3>2 DEF LimiterOK, BucketsKnow
  <2>3. CASE v = u /\ allowed
    <3>1. u \in DOMAIN bucket' /\ Recent(bucket[u])' = hits \cup {hit}
      BY <1>1, <1>9, <1>10, <2>3
    <3>2. \A h \in hits \cup {hit} : h.at + RateWindow > clock
      BY <1>2, <1>5, NumberAssumption DEF LimiterOK, Hit
    <3>3. QED BY <1>10, <2>1, <2>3, <3>1, <3>2
  <2>4. CASE v = u /\ ~allowed
    <3>1. u \in DOMAIN bucket' /\ Recent(bucket[u])' = hits
      BY <1>1, <1>9, <1>10, <2>4
    <3>2. WithinWindow(admitted[u])' = WithinWindow(admitted[u])
      BY <1>10, <2>1, <2>4 DEF WithinWindow
    <3>3. QED BY <1>7, <1>10, <2>4, <3>1, <3>2
  <2>5. QED BY <2>2, <2>3, <2>4
<1>12. ASSUME NEW v \in DOMAIN bucket'
       PROVE  /\ bucket'[v] \subseteq Hit
              /\ IsFiniteSet(bucket'[v])
              /\ \A h \in bucket'[v] :
                   h.at <= clock /\ (h.at = clock => h.nr < Cardinality(Recent(bucket[v])'))
  <2>1. CASE v # u
    BY <1>9, <2>1 DEF LimiterOK, BucketsKnow
  <2>2. CASE v = u /\ allowed
    <3>1. bucket'[v] = hits \cup {hit} /\ Recent(bucket[v])' = hits \cup {hit}
      BY <1>9, <2>2
    <3>2. \A h \in hits \cup {hit} :
            h.at <= clock /\ (h.at = clock => h.nr < Cardinality(hits \cup {hit}))
      BY <1>2, <1>4 DEF Hit, LimiterOK
    <3>3. QED BY <1>2, <1>4, <3>1, <3>2
  <2>3. CASE v = u /\ ~allowed
    BY <1>2, <1>9, <2>3
  <2>4. QED BY <2>1, <2>2, <2>3
<1>13. ASSUME NEW v \in User
       PROVE  /\ admitted'[v] \subseteq Hit /\ IsFiniteSet(admitted'[v])
              /\ Cardinality(admitted'[v]) <= RateMax
  <2>1. CASE v \in evicted'
    BY <1>1, <2>1, FS_EmptySet, NumberAssumption
  <2>2. CASE v \notin evicted' /\ v = u /\ allowed
    <3>1. admitted'[v] = hits \cup {hit}
      BY <1>10, <2>2
    <3>2. Cardinality(hits) < RateMax
      BY <1>3, <2>2
    <3>3. Cardinality(hits \cup {hit}) <= RateMax
      BY <1>2, <1>4, <3>2, NumberAssumption
    <3>4. QED BY <1>2, <1>4, <3>1, <3>3
  <2>3. CASE v \notin evicted' /\ ~(v = u /\ allowed)
    BY <1>10, <2>3 DEF LimiterOK, AdmittedIsBounded
  <2>4. QED BY <2>1, <2>2, <2>3
<1>14. BucketsKnow'
  BY <1>11, <1>12 DEF BucketsKnow
<1>15. AdmittedIsBounded'
  BY <1>13 DEF AdmittedIsBounded
<1>16. DOMAIN bucket' \subseteq User /\ evicted' \subseteq User
  BY <1>1 DEF LimiterOK
<1>17. admitted' \in [User -> SUBSET Hit]
  BY <1>1, <1>13
<1>18. QED BY <1>12, <1>14, <1>15, <1>16, <1>17 DEF LimiterOK

\* The clock goes on: what is in the window afterwards was in it before.
LEMMA LimiterTick ==
  ASSUME LimiterOK, Tick
  PROVE  LimiterOK'
<1>1. clock' = clock + 1 /\ bucket' = bucket /\ admitted' = admitted /\ evicted' = evicted
  BY DEF Tick, memory
<1>2. ASSUME NEW u \in User \ evicted
      PROVE  WithinWindow(admitted[u])'
               = IF u \in DOMAIN bucket THEN Recent(bucket[u])' ELSE {}
  <2>1. WithinWindow(admitted[u])' = {h \in WithinWindow(admitted[u]) : h.at + RateWindow > clock + 1}
    BY <1>1, NumberAssumption DEF WithinWindow, LimiterOK, Hit
  <2>2. u \in DOMAIN bucket =>
          Recent(bucket[u])' = {h \in Recent(bucket[u]) : h.at + RateWindow > clock + 1}
    BY <1>1, NumberAssumption DEF Recent, LimiterOK, Hit
  <2>3. QED BY <2>1, <2>2 DEF LimiterOK, BucketsKnow
<1>3. ASSUME NEW u \in DOMAIN bucket, NEW h \in bucket[u]
      PROVE  h.at <= clock + 1 /\ h.at # clock + 1
  BY DEF LimiterOK, BucketsKnow, Hit
<1>4. BucketsKnow'
  BY <1>1, <1>2, <1>3 DEF BucketsKnow, LimiterOK
<1>5. QED BY <1>1, <1>4 DEF LimiterOK, AdmittedIsBounded

\* Without a bucket and without anyone let through.
LEMMA LimiterEmpty ==
  ASSUME clock \in Nat, bucket = <<>>, admitted = [u \in User |-> {}], evicted = {}
  PROVE  LimiterOK
<1>1. DOMAIN bucket = {}
  OBVIOUS
<1>2. BucketsKnow
  BY <1>1 DEF BucketsKnow, WithinWindow
<1>3. AdmittedIsBounded
  BY FS_EmptySet, NumberAssumption DEF AdmittedIsBounded
<1>4. QED BY <1>1, <1>2, <1>3 DEF LimiterOK

\* Every step keeps the limiter.
LEMMA LimiterStep ==
  ASSUME LimiterOK, [Next]_vars
  PROVE  LimiterOK'
<1>1. CASE UNCHANGED <<clock, bucket, admitted, evicted>>
  BY <1>1 DEF LimiterOK, BucketsKnow, AdmittedIsBounded, Recent, WithinWindow
<1>2. CASE Crash
  <2>1. clock' \in Nat /\ bucket' = <<>> /\ admitted' = [u \in User |-> {}] /\ evicted' = {}
    BY <1>2 DEF Crash, LimiterOK
  <2>2. DOMAIN bucket' = {}
    BY <2>1
  <2>3. BucketsKnow'
    BY <2>1, <2>2 DEF BucketsKnow, WithinWindow
  <2>4. AdmittedIsBounded'
    BY <2>1, FS_EmptySet, NumberAssumption DEF AdmittedIsBounded
  <2>5. QED BY <2>1, <2>2, <2>3, <2>4 DEF LimiterOK
<1>3. ASSUME NEW m \in Message, Limit(m) PROVE LimiterOK'
  BY <1>3, AuthorIsUser, LimiterDecides DEF Limit
<1>4. ASSUME NEW u \in User, LimitOther(u) PROVE LimiterOK'
  BY <1>4, LimiterDecides DEF LimitOther
<1>5. ASSUME NEW m \in Message,
             \/ Deliver(m) \/ Pass(m) \/ Block(m) \/ NoContext(m) \/ Skip(m) \/ Reserve(m)
             \/ Decline(m) \/ NoTrigger(m) \/ AskThrows(m) \/ Request(m) \/ NoAnswer(m)
             \/ Respond(m) \/ Post(m) \/ MarkExecuted(m) \/ Finish(m)
      PROVE  UNCHANGED <<clock, bucket, admitted, evicted>>
  BY <1>5 DEF Deliver, Pass, Block, NoContext, Skip, Reserve, Decline, NoTrigger, AskThrows,
    Request, NoAnswer, Respond, Post, MarkExecuted, Finish, memory
<1>6. QED
  BY <1>1, <1>2, <1>3, <1>4, <1>5, LimiterTick DEF Next, vars, memory

-----------------------------------------------------------------------------

LEMMA InitialInvariant == Init => IInv
<1> SUFFICES ASSUME Init PROVE IInv
  OBVIOUS
<1>1. run \in [Message -> Run] /\ \A m \in Message : run[m].pc = "idle"
  BY AtIsRun DEF Init, Awaits
<1>2. HandlersOK
  BY <1>1, NumberAssumption DEF Init, HandlersOK, Entry, EventState
<1>3. LimiterOK
  BY LimiterEmpty, NumberAssumption DEF Init
<1>4. CooldownOK
  <2>1. OneAnswerInTheMaking /\ AskersExclude /\ AloneUnlessShared
    BY <1>1 DEF OneAnswerInTheMaking, AskersExclude, AloneUnlessShared
  <2>2. ReservationsReturned
    BY NumberAssumption DEF Init, ReservationsReturned
  <2>3. QED BY <2>1, <2>2 DEF CooldownOK
<1>5. QED BY <1>2, <1>3, <1>4, Parts

\* IInv holds in every reachable state, whatever throws, is refused or dies.
THEOREM Inductive == Spec => []IInv
<1>1. IInv /\ [Next]_vars => IInv'
  BY Parts, PartsNext, HandlersStep, LimiterStep, CooldownStep
<1>2. QED BY <1>1, InitialInvariant, PTL DEF Spec

\* Entries, buckets, handlers and documents keep their shape, and an event has a handler
\* exactly while it is running.
THEOREM TypeInvariant == Spec => []TypeOK
<1>1. IInv => TypeOK
  BY DEF IInv
<1>2. QED BY <1>1, Inductive, PTL

\* "concurrent messages from the same user cannot bypass the window" (ai.service.ts:92):
\* two messages of one user are answered at once only after one has lost its reservation.
THEOREM OneAnswerInTheMakingHolds == Spec => []OneAnswerInTheMaking
<1>1. IInv => OneAnswerInTheMaking
  BY DEF IInv
<1>2. QED BY <1>1, Inductive, PTL

\* A reservation that keeps a user out belongs to an answer in the making or to a call
\* that threw.
THEOREM ReservationsReturnedHolds == Spec => []ReservationsReturned
<1>1. IInv => ReservationsReturned
  BY DEF IInv
<1>2. QED BY <1>1, Inductive, PTL

\* The limiter lets no more than RateMax messages of a user through in any window, unless
\* prune has dropped the user's bucket.
THEOREM RateRespectedHolds == Spec => []RateRespected
<1>1. IInv => RateRespected
  BY DEF IInv, AdmittedIsBounded, RateRespected
<1>2. QED BY <1>1, Inductive, PTL

\* A user is answered twice within the cooldown only by an answer that was in the making
\* together with another, or has lost its reservation.
THEOREM AnswersAreSpacedHolds == Spec => AnswersAreSpaced
<1> DEFINE Spaced ==
      \A m \in Message :
        run[m].pc = "asking" /\ run'[m].pc = "posting"
          => \/ clock - cooldown[Author[m]].respondedAt >= Window
             \/ run[m].shared
             \/ Lost(m)
<1>1. IInv => Spaced
  BY DEF IInv, AloneUnlessShared
<1>2. IInv /\ [Next]_vars => [Spaced]_vars
  BY <1>1
<1> HIDE DEF Spaced
<1>3. Spec => [][Spaced]_vars
  BY <1>2, Inductive, PTL DEF Spec
<1>4. QED BY <1>3 DEF AnswersAreSpaced, Spaced
=============================================================================
