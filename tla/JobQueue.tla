------------------------------ MODULE JobQueue ------------------------------
(***************************************************************************)
(* InMemoryQueue with the Worker and its handlers. Between two awaits of a *)
(* handler everything is synchronous: a push, a start and the end of a     *)
(* handler run the loop of drain up to the next job. Jobs of the bot       *)
(* manager are one call; an AI response has the awaits of its handler. All *)
(* AI responses are to one user of one room, who shares one cooldown.      *)
(***************************************************************************)
EXTENDS Naturals, Sequences

CONSTANTS
  MaxJobs,     \* bound: jobs that are enqueued
  MaxAttempts  \* bound: the largest maxAttempts that is asked for

ASSUME NumberAssumption == MaxJobs \in Nat /\ MaxAttempts \in Nat \ {0}

\* The ids of jobs are numbered as they are enqueued.
Job == 1 .. MaxJobs

None == 0

VARIABLES
  worker,    \* running, of the worker and of its queue
  pending,   \* the queue
  delayed,   \* jobs with an armed timer
  current,   \* the job that drain has handed to the handler
  await,     \* what the handler of the current job awaits
  job,       \* the jobs, and what became of them
  cooldown,  \* the entry of the user in the cooldown store
  runs,      \* history: how often a job was handled
  sent,      \* history: how many replies an AI response has posted
  lapsed     \* history: jobs at work, or that had posted, when the cooldown ended

queue == <<worker, pending, delayed, current, await, job>>
vars == <<queue, cooldown, runs, sent, lapsed>>

\* By the name of the job: a call of the bot manager, or none, or an AI response.
Kind == {"manager", "ai"}

Fate == {"new", "accepted", "done", "failed", "dropped"}

JobState ==
  [fate : Fate, kind : Kind, attempts : 0 .. MaxAttempts, max : 1 .. MaxAttempts]

\* Queue, jobs and handler keep their shapes, and no attempt goes uncounted past the
\* largest limit.
TypeOK ==
  /\ worker \in {"stopped", "running"}
  /\ pending \in Seq(Job)
  /\ delayed \in SUBSET Job
  /\ current \in Job \cup {None}
  /\ await \in {"none", "manager", "context", "completion", "post"}
  /\ job \in [Job -> JobState]
  /\ cooldown \in {"free", "reserved", "responded"}
  /\ runs \in [Job -> Nat]
  /\ sent \in [Job -> Nat]
  /\ lapsed \in SUBSET Job

Init ==
  /\ worker = "stopped"
  /\ pending = <<>>
  /\ delayed = {}
  /\ current = None
  /\ await = "none"
  /\ job = [j \in Job |-> [fate |-> "new", kind |-> "manager", attempts |-> 0, max |-> 1]]
  /\ cooldown = "free"
  /\ runs = [j \in Job |-> 0]
  /\ sent = [j \in Job |-> 0]
  /\ lapsed = {}

-----------------------------------------------------------------------------

FirstAwait(j) == IF job'[j].kind = "ai" THEN "context" ELSE "manager"

\* Nothing is taken from the queue.
Rest(waiting) ==
  /\ pending' = waiting
  /\ current' = None
  /\ await' = "none"
  /\ runs' = runs

Hand(waiting) ==
  /\ pending' = Tail(waiting)
  /\ current' = Head(waiting)
  /\ await' = FirstAwait(Head(waiting))
  /\ runs' = [runs EXCEPT ![Head(waiting)] = @ + 1]

\* The loop of drain, with the queue as it is now and no job in hand.
Drain(waiting) ==
  IF worker' = "running" /\ waiting # <<>> THEN Hand(waiting) ELSE Rest(waiting)

\* push: a drain in progress will come to the job.
Push(j) ==
  IF current = None THEN Drain(Append(pending, j))
  ELSE /\ pending' = Append(pending, j)
       /\ UNCHANGED <<current, await, runs>>

Enqueue(j) ==
  /\ job[j].fate = "new" /\ \A i \in 1 .. j - 1 : job[i].fate # "new"
  /\ \E kind \in Kind, max \in 1 .. MaxAttempts :
       job' = [job EXCEPT ![j] = [fate |-> "accepted", kind |-> kind, attempts |-> 0, max |-> max]]
  /\ UNCHANGED <<worker, cooldown, sent, lapsed>>
  /\ \/ Push(j) /\ UNCHANGED delayed
     \/ delayed' = delayed \cup {j} /\ UNCHANGED <<pending, current, await, runs>>

\* The timer of a delayed job.
Fire(j) ==
  /\ j \in delayed
  /\ delayed' = delayed \ {j}
  /\ UNCHANGED <<worker, job, cooldown, sent, lapsed>>
  /\ Push(j)

\* Variant of Start: what has been pushed waits for the next push.
StartQuietly ==
  /\ worker = "stopped"
  /\ worker' = "running"
  /\ UNCHANGED <<delayed, job, cooldown, sent, lapsed, pending, current, await, runs>>

\* A drain that the stop has not ended yet goes on.
Start ==
  /\ worker = "stopped"
  /\ worker' = "running"
  /\ UNCHANGED <<delayed, job, cooldown, sent, lapsed>>
  /\ IF current = None THEN Drain(pending) ELSE UNCHANGED <<pending, current, await, runs>>

Waiting(j) == j \in delayed \/ \E i \in DOMAIN pending : pending[i] = j

\* The job in hand is not interrupted.
Stop ==
  /\ worker' = "stopped"
  /\ pending' = <<>>
  /\ delayed' = {}
  /\ job' = [j \in Job |-> IF Waiting(j) THEN [job[j] EXCEPT !.fate = "dropped"] ELSE job[j]]
  /\ UNCHANGED <<current, await, cooldown, runs, sent, lapsed>>

-----------------------------------------------------------------------------

\* The handler has returned.
Finish ==
  /\ job' = [job EXCEPT ![current].fate = "done"]
  /\ UNCHANGED <<worker, delayed>>
  /\ Drain(pending)

\* Variant of RetriesLeft: maxAttempts counts retries.
RetriesAnew(j) == job[j].attempts < job[j].max

\* Compared after the attempt has been counted.
RetriesLeft(j) == job[j].attempts + 1 < job[j].max

\* The handler has thrown: the job goes to the end of the queue, also when the worker
\* was stopped meanwhile.
Fail ==
  /\ UNCHANGED <<worker, delayed>>
  /\ IF RetriesLeft(current)
     THEN /\ job' = [job EXCEPT ![current].attempts = @ + 1]
          /\ Drain(Append(pending, current))
     ELSE /\ job' = [job EXCEPT ![current].attempts = @ + 1, ![current].fate = "failed"]
          /\ Drain(pending)

\* No context or no handler for the job, or the bot manager has done it.
Complete ==
  /\ await \in {"manager", "context"}
  /\ Finish
  /\ UNCHANGED <<cooldown, sent, lapsed>>

\* No tenant in the data, or the store or the platform has thrown.
Throw ==
  /\ await \in {"manager", "context"}
  /\ Fail
  /\ UNCHANGED <<cooldown, sent, lapsed>>

\* Variant of CanReserve: only the trigger decides.
CanReserveAnyway == TRUE

\* tryReserve
CanReserve == cooldown = "free"

\* canRespond reserves the cooldown. Without a trigger, or without the reservation,
\* the job is done: Complete.
Respond ==
  /\ await = "context"
  /\ CanReserve
  /\ cooldown' = "reserved"
  /\ await' = "completion"
  /\ UNCHANGED <<worker, pending, delayed, current, job, runs, sent, lapsed>>

\* The provider answers, with nothing if it fails.
Generated ==
  /\ await = "completion"
  /\ await' = "post"
  /\ UNCHANGED <<worker, pending, delayed, current, job, cooldown, runs, sent, lapsed>>

Posted == sent' = [sent EXCEPT ![current] = @ + 1]

\* markResponded
Answer ==
  /\ await = "post"
  /\ Posted
  /\ cooldown' = "responded"
  /\ Finish
  /\ UNCHANGED lapsed

\* sendMessage throws, after the reply has been posted or not. The reservation stays.
AnswerFails ==
  /\ await = "post"
  /\ Posted \/ UNCHANGED sent
  /\ Fail
  /\ UNCHANGED <<cooldown, lapsed>>

\* The window has passed, or the agent has released the user's entry.
Lapse ==
  /\ cooldown # "free"
  /\ cooldown' = "free"
  /\ lapsed' = lapsed \cup {j \in Job : sent[j] > 0 \/ j = current}
  /\ UNCHANGED <<queue, runs, sent>>

Handle == Complete \/ Throw \/ Respond \/ Generated \/ Answer \/ AnswerFails

Next ==
  \/ \E j \in Job : Enqueue(j) \/ Fire(j)
  \/ Start \/ Stop \/ Handle \/ Lapse

Spec == Init /\ [][Next]_vars

\* Every await of a handler ends and every timer fires. Nobody has to enqueue, start
\* or stop.
FairSpec == Spec /\ WF_vars(Handle) /\ \A j \in Job : WF_vars(Fire(j))

-----------------------------------------------------------------------------

\* While the worker runs and a job is in the queue, drain has a job in hand: no push,
\* start, stop or end of a handler leaves the queue asleep.
NothingIdle == worker = "running" /\ pending # <<>> => current # None

Places(j) ==
  (IF j \in delayed THEN {"timer"} ELSE {}) \cup (IF current = j THEN {"hand"} ELSE {})
    \cup {"queue" : i \in {i \in DOMAIN pending : pending[i] = j}}

\* An accepted job is in exactly one place, at most once in the queue and nowhere when
\* it has been settled or dropped; it has been handled as often as its attempts say and
\* never more often than it asked for, whenever the worker is stopped and started.
JobsAccounted ==
  /\ \A i, k \in DOMAIN pending : pending[i] = pending[k] => i = k
  /\ \A j \in Job :
       /\ job[j].fate = "accepted" <=> \E place \in {"timer", "hand", "queue"} : Places(j) = {place}
       /\ job[j].fate # "accepted" => Places(j) = {}
       /\ runs[j] = job[j].attempts + IF current = j \/ job[j].fate = "done" THEN 1 ELSE 0
       /\ runs[j] <= job[j].max
       /\ job[j].fate = "failed" => runs[j] = job[j].max

\* A reply is posted twice only if the cooldown has ended after the job's first attempt
\* had reserved it: until then the retry is refused by the job's own reservation.
RepliesSpaced == \A j \in Job : sent[j] > 1 => j \in lapsed

Settled(j) == job[j].fate \in {"done", "failed", "dropped"}

\* An accepted job is settled, or the worker stops.
JobsSettle ==
  \A j \in Job : job[j].fate = "accepted" ~> Settled(j) \/ worker = "stopped"
=============================================================================
