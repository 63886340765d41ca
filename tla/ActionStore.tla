----------------------------- MODULE ActionStore -----------------------------
(***************************************************************************)
(* The durable idempotency records of automation actions                   *)
(* (MongoActionIdempotencyStore) and the rules (welcome, speaker, AI) that *)
(* perform one external effect under a claim: claim the record, send, mark *)
(* it executed; on any error mark it failed.                               *)
(*                                                                         *)
(* Every store command is atomic. claim and markFailed are two commands    *)
(* that share the time read before the first one; every other command is   *)
(* applied at the time its call read.                                      *)
(***************************************************************************)
EXTENDS Integers, FiniteSets

CONSTANTS
  Key,          \* action keys (buildActionKey); a key contains its tenant
  Caller,       \* rule runs in flight, in any process
  Token,        \* the values randomUUID can return
  None,         \* no key, no token
  MaxAttempts,  \* MAX_ACTION_ATTEMPTS
  LeaseTime,    \* ACTION_LEASE_MS, in units of Tick
  Horizon,      \* bound: the clock stops here
  AttemptCap    \* bound: a record is claimed at most this often

ASSUME NoneAssumption == None \notin Key \cup Token \cup Caller
ASSUME NumberAssumption ==
  /\ MaxAttempts \in Nat \ {0}
  /\ LeaseTime \in Nat \ {0}
  /\ Horizon \in Nat
  /\ AttemptCap \in Nat

ASSUME FiniteAssumption == IsFiniteSet(Caller)

VARIABLES
  record,   \* the actionRecords collection, by _id
  caller,   \* the rule runs' local state
  clock,    \* what every process reads as the time
  history   \* per key, what happened outside the store: kept for the properties

vars == <<record, caller, clock, history>>

\* leaseUntil is 0 where the document has null or nothing.
Record ==
  [status : {"absent", "pending", "processing", "executed", "failed"},
   attempts : Nat, claimId : Token \cup {None}, leaseUntil : Nat]

Absent == [status |-> "absent", attempts |-> 0, claimId |-> None, leaseUntil |-> 0]

\* "upserting": claim's first command matched nothing. "working": the claim is
\* won. "sent": the effect is performed. "failing": markFailed has read the
\* record; seen is the attempt count it read. now is the time the call in
\* progress has read, until the end of the lease the run holds.
CallerState ==
  [pc : {"idle", "upserting", "working", "sent", "thrown", "failing"},
   key : Key \cup {None}, claimId : Token \cup {None},
   now : Nat, until : Nat, seen : Nat]

Idle == [pc |-> "idle", key |-> None, claimId |-> None, now |-> 0, until |-> 0, seen |-> 0]

\* sent: how often the effect was performed; excused: how many of these were
\* followed by an incident that kept the store from learning of it.
History == [sent : Nat, excused : Nat]

\* Records and rule runs keep the shape the schema and the calls' local variables
\* give them; a run that won its claim has a key and a token.
TypeOK ==
  /\ record \in [Key -> Record]
  /\ caller \in [Caller -> CallerState]
  /\ clock \in Nat
  /\ history \in [Key -> History]
  /\ \A c \in Caller :
       /\ caller[c].pc # "idle" => caller[c].key \in Key
       /\ caller[c].pc \notin {"idle", "upserting"} => caller[c].claimId \in Token

Init ==
  /\ record = [k \in Key |-> Absent]
  /\ caller = [c \in Caller |-> Idle]
  /\ clock = 0
  /\ history = [k \in Key |-> [sent |-> 0, excused |-> 0]]

-----------------------------------------------------------------------------

\* The run has won a claim and has not returned.
Active(c) == caller[c].pc \in {"working", "sent", "thrown", "failing"}

\* Variants of Claimable: the lease condition dropped; the attempt bound dropped.
ClaimableWhileLeased(r, now) == r.status \in {"pending", "processing"}

ClaimableUnbounded(r, now) ==
  \/ r.status \in {"pending", "failed"}
  \/ r.status = "processing" /\ r.leaseUntil < now

\* The filter of both commands of claim.
Claimable(r, now) ==
  \/ r.status = "pending"
  \/ r.status = "failed" /\ r.attempts < MaxAttempts
  \/ r.status = "processing" /\ r.leaseUntil < now

\* Variant of Owns: the claimId condition dropped.
OwnsAnyClaim(c, r, now) == r.status = "processing" /\ r.leaseUntil > now

\* The filter of markExecuted, markFailed and release.
Owns(c, r, now) ==
  /\ r.status = "processing"
  /\ r.claimId = caller[c].claimId
  /\ r.leaseUntil > now

FreshToken(t) ==
  /\ \A k \in Key : record[k].claimId # t
  /\ \A c \in Caller : caller[c].claimId # t

\* claim succeeds for c on k; the lease counts from the time the call read.
Win(c, k, now) ==
  /\ record[k].attempts < AttemptCap
  /\ \E t \in Token :
       /\ FreshToken(t)
       /\ record' = [record EXCEPT ![k] =
                       [status |-> "processing", attempts |-> record[k].attempts + 1,
                        claimId |-> t, leaseUntil |-> now + LeaseTime]]
       /\ caller' = [caller EXCEPT ![c] =
                       [pc |-> "working", key |-> k, claimId |-> t, now |-> 0,
                        until |-> now + LeaseTime, seen |-> 0]]

\* A rule matches an event: claim's first command wins an existing record, or
\* matches nothing.
Claim(c, k) ==
  /\ caller[c].pc = "idle"
  /\ IF Claimable(record[k], clock)
     THEN Win(c, k, clock)
     ELSE /\ caller' = [caller EXCEPT ![c] =
                          [pc |-> "upserting", key |-> k, claimId |-> None, now |-> clock,
                           until |-> 0, seen |-> 0]]
          /\ UNCHANGED record
  /\ UNCHANGED <<clock, history>>

\* claim's second command: the same filter with upsert. It creates a record,
\* wins one that has become claimable meanwhile, or loses with a duplicate key;
\* the loser only reads the reason and returns.
Upsert(c) ==
  LET k == caller[c].key IN
  /\ caller[c].pc = "upserting"
  /\ IF record[k].status = "absent" \/ Claimable(record[k], caller[c].now)
     THEN Win(c, k, caller[c].now)
     ELSE caller' = [caller EXCEPT ![c] = Idle] /\ UNCHANGED record
  /\ UNCHANGED <<clock, history>>

\* The history of a key after more effects and excuses.
Noted(h, sent, excused) == [sent |-> h.sent + sent, excused |-> h.excused + excused]

\* context.sendMessage or context.inviteSpeaker. It may perform the effect and yet
\* reject (the answer was lost): the store will not learn of the effect.
Send(c) ==
  LET k == caller[c].key IN
  /\ caller[c].pc = "working"
  /\ \E lost \in BOOLEAN :
       /\ caller' = [caller EXCEPT ![c] = [caller[c] EXCEPT !.pc = IF lost THEN "thrown"
                                                                           ELSE "sent"]]
       /\ history' = [history EXCEPT ![k] = Noted(history[k], 1, IF lost THEN 1 ELSE 0)]
  /\ UNCHANGED <<record, clock>>

\* The runner, the effect or release rejects without having done anything, or
\* markExecuted does after the effect.
Throw(c) ==
  LET k == caller[c].key IN
  /\ caller[c].pc \in {"working", "sent"}
  /\ caller' = [caller EXCEPT ![c] = [caller[c] EXCEPT !.pc = "thrown"]]
  /\ history' = [history EXCEPT ![k] =
                   Noted(history[k], 0, IF caller[c].pc = "sent" THEN 1 ELSE 0)]
  /\ UNCHANGED <<record, clock>>

\* The end of the run: it closes its record as status, if it still owns it.
CloseAs(c, status, now) ==
  LET k == caller[c].key IN
  /\ record' = IF Owns(c, record[k], now)
               THEN [record EXCEPT ![k] = [record[k] EXCEPT !.status = status,
                                                            !.leaseUntil = 0]]
               ELSE record
  /\ caller' = [caller EXCEPT ![c] = Idle]
  /\ UNCHANGED clock

\* The effect is performed and recorded, unless the lease has run out.
MarkExecuted(c) ==
  LET k == caller[c].key IN
  /\ caller[c].pc = "sent"
  /\ CloseAs(c, "executed", clock)
  /\ history' = [history EXCEPT ![k] =
                   Noted(history[k], 0, IF caller[c].until <= clock THEN 1 ELSE 0)]

\* Variant of MarkFailedRead: the null check dropped, so that the attempts of no
\* document are read.
MarkFailedReadUnchecked(c) ==
  LET k == caller[c].key IN
  /\ caller[c].pc = "thrown"
  /\ caller' = [caller EXCEPT ![c] =
                  [caller[c] EXCEPT !.pc = "failing", !.now = clock,
                                    !.seen = IF Owns(c, record[k], clock)
                                             THEN record[k].attempts ELSE None]]
  /\ UNCHANGED <<record, clock, history>>

\* markFailed's findOne. Without a live claim it returns.
MarkFailedRead(c) ==
  LET k == caller[c].key IN
  /\ caller[c].pc = "thrown"
  /\ caller' = [caller EXCEPT ![c] =
                  IF Owns(c, record[k], clock)
                  THEN [caller[c] EXCEPT !.pc = "failing", !.now = clock,
                                         !.seen = record[k].attempts]
                  ELSE Idle]
  /\ UNCHANGED <<record, clock, history>>

\* markFailed's updateOne.
MarkFailedWrite(c) ==
  /\ caller[c].pc = "failing"
  /\ CloseAs(c, IF caller[c].seen >= MaxAttempts THEN "failed" ELSE "pending",
             caller[c].now)
  /\ UNCHANGED history

\* Variant of Release: the update does not ask for the caller's claim.
ReleaseAny(c) ==
  LET k == caller[c].key IN
  /\ caller[c].pc = "working"
  /\ record' = IF record[k].status = "processing"
               THEN [record EXCEPT ![k] = [record[k] EXCEPT !.status = "pending",
                                                            !.leaseUntil = 0]]
               ELSE record
  /\ caller' = [caller EXCEPT ![c] = Idle]
  /\ UNCHANGED <<clock, history>>

\* The AI runner has no answer: the claim is given back.
Release(c) ==
  LET k == caller[c].key IN
  /\ caller[c].pc = "working"
  /\ CloseAs(c, "pending", clock)
  /\ UNCHANGED history

\* The process of c dies, or markFailed itself rejects.
Crash(c) ==
  LET k == caller[c].key IN
  /\ caller[c].pc # "idle"
  /\ caller' = [caller EXCEPT ![c] = Idle]
  /\ history' = IF caller[c].pc = "sent"
                THEN [history EXCEPT ![k] = Noted(history[k], 0, 1)]
                ELSE history
  /\ UNCHANGED <<record, clock>>

Tick ==
  /\ clock < Horizon
  /\ clock' = clock + 1
  /\ UNCHANGED <<record, caller, history>>

Next ==
  \/ Tick
  \/ \E c \in Caller :
       \/ \E k \in Key : Claim(c, k)
       \/ Upsert(c)
       \/ Send(c)
       \/ Throw(c)
       \/ MarkExecuted(c)
       \/ MarkFailedRead(c)
       \/ MarkFailedWrite(c)
       \/ Release(c)
       \/ Crash(c)

Spec == Init /\ [][Next]_vars

-----------------------------------------------------------------------------

\* A run whose lease has not run out still owns its record: no other run took the
\* claim over, closed it or gave it back (claim, markExecuted, markFailed, release
\* of every other run).
LeaseHeld ==
  \A c \in Caller :
    Active(c) /\ caller[c].until > clock => Owns(c, record[caller[c].key], clock)

\* "Exactly one concurrent caller receives acquired: true" (action-idempotency.ts:
\* 35): two runs may perform the effect of one key only after one of them has
\* overrun its lease.
ExclusiveWork ==
  \A b, c \in Caller :
    b # c /\ Active(b) /\ Active(c) /\ caller[b].key = caller[c].key
      => caller[b].until <= clock \/ caller[c].until <= clock

\* The runs that have performed the effect of k and not recorded it yet; those of them
\* that have overrun their lease.
Performed(k) == {c \in Caller : caller[c].pc = "sent" /\ caller[c].key = k}

Overrun(k) == {c \in Performed(k) : caller[c].until <= clock}

\* No effect is performed a second time without a cause: every effect but one is
\* accounted for by an incident (the process died between the effect and
\* markExecuted, an answer was lost, markExecuted failed, the run overran its lease).
DuplicateNeedsIncident ==
  \A k \in Key : history[k].sent <= 1 + history[k].excused + Cardinality(Overrun(k))

\* An executed action is never performed again, and neither is a failed one,
\* although claim's filter admits failed records with attempts left.
TerminalIsFinal ==
  [][\A k \in Key :
       record[k].status \in {"executed", "failed"} => record'[k] = record[k]]_vars

\* A failed record has no attempt left.
FailedIsSpent ==
  \A k \in Key : record[k].status = "failed" => record[k].attempts >= MaxAttempts

\* A record is held by the run whose token it carries.
Holds(c, k) ==
  /\ Active(c)
  /\ caller[c].key = k
  /\ record[k].status = "processing"
  /\ record[k].claimId = caller[c].claimId

\* What a run remembers of its claim agrees with the record it owns, no two runs
\* hold one token, a record under an unexpired lease was claimed, and nobody has
\* read a time that is still to come.
ClaimAgrees ==
  /\ \A c \in Caller :
       /\ caller[c].now <= clock
       /\ Holds(c, caller[c].key) =>
            /\ record[caller[c].key].leaseUntil = caller[c].until
            /\ caller[c].pc = "failing" => caller[c].seen = record[caller[c].key].attempts
  /\ \A b, c \in Caller :
       b # c /\ Active(b) /\ Active(c) => caller[b].claimId # caller[c].claimId

\* The inductive invariant behind the safety properties above.
IInv == TypeOK /\ ClaimAgrees /\ LeaseHeld /\ FailedIsSpent

\* Every effect is recorded, which closes the record, or is excused, or is still to be
\* recorded: what DuplicateNeedsIncident rests on.
EffectsAccounted ==
  \A k \in Key :
    history[k].sent = history[k].excused + Cardinality(Performed(k))
                      + (IF record[k].status = "executed" THEN 1 ELSE 0)

OwnerOf(k) ==
  IF \E c \in Caller : Holds(c, k) THEN CHOOSE c \in Caller : Holds(c, k) ELSE None

LeaseState(k) ==
  CASE record[k].status \in {"absent", "pending"} -> "open"
    [] record[k].status = "processing" -> "held"
    [] record[k].status = "executed" -> "done"
    [] record[k].status = "failed" -> "dead"

Late(k) == record[k].status = "processing" /\ record[k].leaseUntil <= clock

Lease == INSTANCE LeasedTask WITH
  Task <- Key, Worker <- Caller, Renewable <- {}, NoWorker <- None,
  state <- [k \in Key |-> LeaseState(k)],
  owner <- [k \in Key |-> OwnerOf(k)],
  late <- [k \in Key |-> Late(k)]

\* Every step of the store is a step of LeasedTask, or none.
ImplementsLease == Lease!Spec
=============================================================================
