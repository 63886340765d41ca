--------------------------- MODULE JobQueueProofs ---------------------------
(***************************************************************************)
(* Proofs about JobQueue, for any number of jobs and any limit of attempts. *)
(***************************************************************************)
EXTENDS JobQueue, TLAPS

Distinct(s) == \A i, k \in DOMAIN s : s[i] = s[k] => i = k
In(s, j) == \E i \in DOMAIN s : s[i] = j

\* A job is in one place only, and the accepted ones are those that are somewhere.
Placed ==
  /\ Distinct(pending)
  /\ current \notin delayed
  /\ \A j \in Job : In(pending, j) => j \notin delayed /\ current # j
  /\ \A j \in Job :
       job[j].fate = "accepted" <=> (In(pending, j) \/ j \in delayed \/ current = j)

\* Every run but the one in hand has been counted as an attempt or has ended the job.
Counted ==
  \A j \in Job :
    /\ runs[j] = job[j].attempts + (IF current = j \/ job[j].fate = "done" THEN 1 ELSE 0)
    /\ job[j].fate # "failed" => job[j].attempts < job[j].max
    /\ job[j].fate = "failed" => job[j].attempts = job[j].max
    /\ job[j].fate = "new" => job[j].attempts = 0

InHand == current = None <=> await = "none"

\* Until the cooldown of its first reply has ended, a job has posted one reply at most,
\* and the user's entry still says so.
OneReply ==
  /\ \A j \in Job : j \notin lapsed => sent[j] = 0 \/ (sent[j] = 1 /\ cooldown # "free")
  /\ await \in {"completion", "post"} /\ current \notin lapsed
       => cooldown # "free" /\ sent[current] = 0

\* The inductive invariant of the queue.
QueueInv == TypeOK /\ NothingIdle /\ Placed /\ Counted /\ InHand /\ OneReply

-----------------------------------------------------------------------------

\* No job is None.
LEMMA NoneIsNoJob == None \notin Job
BY NumberAssumption DEF None, Job

\* A job that is pushed is in the queue once.
LEMMA AppendResult ==
  ASSUME NEW s \in Seq(Job), NEW j \in Job, Distinct(s), ~In(s, j)
  PROVE  /\ Append(s, j) \in Seq(Job)
         /\ Distinct(Append(s, j))
         /\ \A k \in Job : In(Append(s, j), k) <=> (In(s, k) \/ k = j)
<1> DEFINE t == Append(s, j)
<1>1. /\ t \in Seq(Job) /\ Len(s) \in Nat
      /\ DOMAIN s = 1 .. Len(s) /\ DOMAIN t = 1 .. (Len(s) + 1)
      /\ t[Len(s) + 1] = j /\ \A i \in 1 .. Len(s) : t[i] = s[i]
  OBVIOUS
<1>2. Distinct(t)
  BY <1>1 DEF Distinct, In
<1>3. ASSUME NEW k \in Job PROVE In(t, k) <=> (In(s, k) \/ k = j)
  BY <1>1 DEF In
<1> QED
  BY <1>1, <1>2, <1>3

\* The job that is taken leaves the queue, the others stay.
LEMMA TailResult ==
  ASSUME NEW s \in Seq(Job), s # <<>>, Distinct(s)
  PROVE  /\ Head(s) \in Job /\ Tail(s) \in Seq(Job)
         /\ Distinct(Tail(s))
         /\ ~In(Tail(s), Head(s))
         /\ \A k \in Job : In(s, k) <=> (In(Tail(s), k) \/ k = Head(s))
<1> DEFINE t == Tail(s)
<1>1. /\ t \in Seq(Job) /\ Head(s) \in Job /\ Len(s) \in Nat \ {0} /\ Head(s) = s[1]
      /\ DOMAIN s = 1 .. Len(s) /\ DOMAIN t = 1 .. (Len(s) - 1)
      /\ \A i \in 1 .. (Len(s) - 1) : t[i] = s[i + 1]
  OBVIOUS
<1>2. Distinct(t) /\ ~In(t, Head(s))
  BY <1>1 DEF Distinct, In
<1>3. ASSUME NEW k \in Job PROVE In(s, k) <=> (In(t, k) \/ k = Head(s))
  <2>1. ASSUME In(s, k) PROVE In(t, k) \/ k = Head(s)
    <3>1. PICK i \in 1 .. Len(s) : s[i] = k
      BY <1>1, <2>1 DEF In
    <3>2. CASE i = 1
      BY <1>1, <3>1, <3>2
    <3>3. CASE i # 1
      <4>1. (i - 1) \in 1 .. (Len(s) - 1) /\ t[i - 1] = k
        BY <1>1, <3>1, <3>3
      <4> QED
        BY <1>1, <4>1 DEF In
    <3> QED
      BY <3>2, <3>3
  <2>2. ASSUME In(t, k) PROVE In(s, k)
    <3>1. PICK i \in 1 .. (Len(s) - 1) : t[i] = k
      BY <1>1, <2>2 DEF In
    <3>2. (i + 1) \in 1 .. Len(s) /\ s[i + 1] = k
      BY <1>1, <3>1
    <3> QED
      BY <1>1, <3>2 DEF In
  <2>3. ASSUME k = Head(s) PROVE In(s, k)
    BY <1>1, <2>3 DEF In
  <2> QED
    BY <2>1, <2>2, <2>3
<1> QED
  BY <1>1, <1>2, <1>3

\* What the loop of drain does with a queue: nothing, unless the worker runs and there
\* is a job.
LEMMA DrainResult ==
  ASSUME NEW w \in Seq(Job), Distinct(w), Drain(w), runs \in [Job -> Nat]
  PROVE  /\ pending' \in Seq(Job) /\ Distinct(pending')
         /\ current' \in Job \cup {None} /\ await' \in {"none", "manager", "context"}
         /\ current' = None <=> await' = "none"
         /\ NothingIdle'
         /\ \A j \in Job : In(w, j) <=> (In(pending', j) \/ current' = j)
         /\ \A j \in Job : In(pending', j) => current' # j
         /\ runs' \in [Job -> Nat]
         /\ \A j \in Job : runs'[j] = runs[j] + (IF current' = j THEN 1 ELSE 0)
<1>1. CASE worker' = "running" /\ w # <<>>
  <2>1. /\ pending' = Tail(w) /\ current' = Head(w)
        /\ await' \in {"manager", "context"}
        /\ runs' = [runs EXCEPT ![Head(w)] = @ + 1]
    BY <1>1 DEF Drain, Hand, FirstAwait
  <2>2. Head(w) \in Job /\ Head(w) # None
    BY <1>1, TailResult, NoneIsNoJob
  <2>3. NothingIdle'
    BY <2>1, <2>2 DEF NothingIdle
  <2>4. /\ runs' \in [Job -> Nat]
        /\ \A j \in Job : runs'[j] = runs[j] + (IF current' = j THEN 1 ELSE 0)
    BY <2>1, <2>2
  <2> QED
    BY <1>1, <2>1, <2>2, <2>3, <2>4, TailResult
<1>2. CASE ~(worker' = "running" /\ w # <<>>)
  <2>1. pending' = w /\ current' = None /\ await' = "none" /\ runs' = runs
    BY <1>2 DEF Drain, Rest
  <2>2. NothingIdle'
    BY <1>2, <2>1 DEF NothingIdle
  <2> QED
    BY <2>1, <2>2, NoneIsNoJob
<1> QED
  BY <1>1, <1>2

-----------------------------------------------------------------------------

\* A step that ends with the loop of drain keeps the invariant if the queue w the loop
\* finds, the timers and the settled jobs account for all jobs, and no job is in hand
\* any more.
LEMMA DrainKeeps ==
  ASSUME TypeOK, NEW w \in Seq(Job), Distinct(w), Drain(w),
         worker' \in {"stopped", "running"}, delayed' \in SUBSET Job,
         job' \in [Job -> JobState],
         cooldown' \in {"free", "reserved", "responded"}, sent' \in [Job -> Nat],
         lapsed' \in SUBSET Job,
         \A j \in Job : In(w, j) => j \notin delayed',
         \A j \in Job : job'[j].fate = "accepted" <=> (In(w, j) \/ j \in delayed'),
         \A j \in Job :
           /\ runs[j] = job'[j].attempts + (IF job'[j].fate = "done" THEN 1 ELSE 0)
           /\ job'[j].fate # "failed" => job'[j].attempts < job'[j].max
           /\ job'[j].fate = "failed" => job'[j].attempts = job'[j].max
           /\ job'[j].fate = "new" => job'[j].attempts = 0,
         \A j \in Job :
           j \notin lapsed' => sent'[j] = 0 \/ (sent'[j] = 1 /\ cooldown' # "free")
  PROVE  QueueInv'
<1>0. runs \in [Job -> Nat]
  BY DEF TypeOK
<1>1. /\ pending' \in Seq(Job) /\ Distinct(pending')
      /\ current' \in Job \cup {None} /\ await' \in {"none", "manager", "context"}
      /\ NothingIdle' /\ runs' \in [Job -> Nat]
  BY <1>0, DrainResult
<1>2. current' = None <=> await' = "none"
  BY <1>0, DrainResult
<1>3. \A j \in Job : In(w, j) <=> (In(pending', j) \/ current' = j)
  BY <1>0, DrainResult
<1>4. \A j \in Job : In(pending', j) => current' # j
  BY <1>0, DrainResult
<1>5. \A j \in Job : runs'[j] = runs[j] + (IF current' = j THEN 1 ELSE 0)
  BY <1>0, DrainResult
<1>6. TypeOK'
  BY <1>1 DEF TypeOK
<1>7. Placed'
  <2>1. current' \notin delayed'
    BY <1>1, <1>3, NoneIsNoJob
  <2>2. \A j \in Job : In(pending', j) => j \notin delayed' /\ current' # j
    BY <1>3, <1>4
  <2>3. \A j \in Job : job'[j].fate = "accepted"
                       <=> (In(pending', j) \/ j \in delayed' \/ current' = j)
    BY <1>3
  <2> QED
    BY <1>1, <2>1, <2>2, <2>3 DEF Placed
<1>8. Counted'
  <2> SUFFICES ASSUME NEW j \in Job
               PROVE  runs'[j] = job'[j].attempts
                        + (IF current' = j \/ job'[j].fate = "done" THEN 1 ELSE 0)
    BY DEF Counted
  <2>1. current' = j => job'[j].fate = "accepted"
    BY <1>3
  <2>2. job'[j].attempts \in Nat /\ runs[j] \in Nat
    BY <1>0 DEF JobState
  <2> QED
    BY <1>5, <2>1, <2>2
<1>9. InHand'
  BY <1>2 DEF InHand
<1>10. OneReply'
  BY <1>1 DEF OneReply
<1> QED
  BY <1>1, <1>6, <1>7, <1>8, <1>9, <1>10 DEF QueueInv

\* A step that leaves the job in hand where it is.
LEMMA HeldKeeps ==
  ASSUME QueueInv, current # None, UNCHANGED <<current, await, runs, cooldown, sent, lapsed>>,
         worker' \in {"stopped", "running"}, pending' \in Seq(Job), Distinct(pending'),
         delayed' \in SUBSET Job, job' \in [Job -> JobState],
         current \notin delayed',
         \A j \in Job : In(pending', j) => j \notin delayed' /\ current # j,
         \A j \in Job : job'[j].fate = "accepted"
                          <=> (In(pending', j) \/ j \in delayed' \/ current = j),
         \A j \in Job :
           \/ job'[j] = job[j]
           \/ /\ runs[j] = job'[j].attempts /\ job'[j].fate \in {"accepted", "dropped"}
              /\ current # j /\ job'[j].attempts < job'[j].max
  PROVE  QueueInv'
<1>1. TypeOK'
  BY DEF TypeOK, QueueInv
<1>2. NothingIdle'
  BY DEF NothingIdle
<1>3. Placed'
  BY DEF Placed
<1>4. Counted'
  <2> SUFFICES ASSUME NEW j \in Job
      PROVE /\ runs'[j] = job'[j].attempts
                 + (IF current' = j \/ job'[j].fate = "done" THEN 1 ELSE 0)
            /\ job'[j].fate # "failed" => job'[j].attempts < job'[j].max
            /\ job'[j].fate = "failed" => job'[j].attempts = job'[j].max
            /\ job'[j].fate = "new" => job'[j].attempts = 0
    BY DEF Counted
  <2>1. CASE job'[j] = job[j]
    BY <2>1 DEF Counted, QueueInv
  <2>2. CASE job'[j] # job[j]
    <3>1. job'[j].attempts \in Nat
      BY DEF JobState
    <3> QED
      BY <2>2, <3>1
  <2> QED
    BY <2>1, <2>2
<1>5. InHand' /\ OneReply'
  BY DEF InHand, OneReply, QueueInv
<1> QED
  BY <1>1, <1>2, <1>3, <1>4, <1>5 DEF QueueInv
-----------------------------------------------------------------------------

\* A job that is accepted and pushed, or whose timer fires, is in no other place.
LEMMA PushKeeps ==
  ASSUME QueueInv, NEW j \in Job, Push(j), UNCHANGED <<worker, cooldown, sent, lapsed>>,
         ~In(pending, j), current # j, delayed' \in SUBSET Job, j \notin delayed',
         \A k \in Job \ {j} : k \in delayed' <=> k \in delayed,
         job' \in [Job -> JobState], \A k \in Job \ {j} : job'[k] = job[k],
         job'[j].fate = "accepted", runs[j] = job'[j].attempts,
         job'[j].attempts < job'[j].max
  PROVE  QueueInv'
<1> DEFINE w == Append(pending, j)
<1>1. pending \in Seq(Job) /\ Distinct(pending)
  BY DEF QueueInv, TypeOK, Placed
<1>2. /\ w \in Seq(Job) /\ Distinct(w)
      /\ \A k \in Job : In(w, k) <=> (In(pending, k) \/ k = j)
  BY <1>1, AppendResult
<1> HIDE DEF w
<1>3. \A k \in Job : In(w, k) => k \notin delayed'
  BY <1>2 DEF QueueInv, Placed
<1>4. worker' \in {"stopped", "running"}
  BY DEF QueueInv, TypeOK
<1>5. CASE current = None
  <2>1. Drain(w)
    BY <1>5 DEF Push, w
  <2>2. \A k \in Job : job'[k].fate = "accepted" <=> (In(w, k) \/ k \in delayed')
    BY <1>2, <1>5, NoneIsNoJob DEF QueueInv, Placed
  <2>3. \A k \in Job :
          /\ runs[k] = job'[k].attempts + (IF job'[k].fate = "done" THEN 1 ELSE 0)
          /\ job'[k].fate # "failed" => job'[k].attempts < job'[k].max
          /\ job'[k].fate = "failed" => job'[k].attempts = job'[k].max
          /\ job'[k].fate = "new" => job'[k].attempts = 0
    <3> SUFFICES ASSUME NEW k \in Job
        PROVE /\ runs[k] = job'[k].attempts + (IF job'[k].fate = "done" THEN 1 ELSE 0)
              /\ job'[k].fate # "failed" => job'[k].attempts < job'[k].max
              /\ job'[k].fate = "failed" => job'[k].attempts = job'[k].max
              /\ job'[k].fate = "new" => job'[k].attempts = 0
      OBVIOUS
    <3>1. CASE k = j
      BY <3>1 DEF JobState
    <3>2. CASE k # j
      BY <3>2, <1>5, NoneIsNoJob DEF QueueInv, Counted
    <3> QED
      BY <3>1, <3>2
  <2>4. /\ TypeOK /\ cooldown' \in {"free", "reserved", "responded"}
        /\ sent' \in [Job -> Nat] /\ lapsed' \in SUBSET Job
        /\ \A k \in Job :
             k \notin lapsed' => sent'[k] = 0 \/ (sent'[k] = 1 /\ cooldown' # "free")
    BY DEF QueueInv, TypeOK, OneReply
  <2> QED
    BY <1>2, <1>3, <1>4, <2>1, <2>2, <2>3, <2>4, DrainKeeps
<1>6. CASE current # None
  <2>1. pending' = w /\ UNCHANGED <<current, await, runs>>
    BY <1>6 DEF Push, w
  <2>2. current \notin delayed'
    BY <1>6 DEF QueueInv, Placed, TypeOK
  <2>3. \A k \in Job : In(pending', k) => k \notin delayed' /\ current # k
    BY <1>2, <1>3, <2>1 DEF QueueInv, Placed
  <2>4. \A k \in Job : job'[k].fate = "accepted"
                        <=> (In(pending', k) \/ k \in delayed' \/ current = k)
    BY <1>2, <2>1 DEF QueueInv, Placed
  <2>5. \A k \in Job :
          \/ job'[k] = job[k]
          \/ /\ runs[k] = job'[k].attempts /\ job'[k].fate \in {"accepted", "dropped"}
             /\ current # k /\ job'[k].attempts < job'[k].max
    OBVIOUS
  <2> QED
    BY <1>2, <1>4, <1>6, <2>1, <2>2, <2>3, <2>4, <2>5, HeldKeeps
<1> QED
  BY <1>5, <1>6

\* A new job is pushed or gets a timer.
LEMMA EnqueueKeeps ==
  ASSUME QueueInv, NEW j \in Job, Enqueue(j)
  PROVE  QueueInv'
<1>1. /\ job \in [Job -> JobState] /\ delayed \in SUBSET Job /\ pending \in Seq(Job)
      /\ runs \in [Job -> Nat]
  BY DEF QueueInv, TypeOK
<1>2. PICK kind \in Kind, max \in 1 .. MaxAttempts :
        job' = [job EXCEPT ![j] = [fate |-> "accepted", kind |-> kind, attempts |-> 0,
                                   max |-> max]]
  BY DEF Enqueue
<1>3. [fate |-> "accepted", kind |-> kind, attempts |-> 0, max |-> max] \in JobState
  BY NumberAssumption DEF JobState, Fate
<1>4. /\ job' \in [Job -> JobState] /\ \A k \in Job \ {j} : job'[k] = job[k]
      /\ job'[j].fate = "accepted" /\ job'[j].attempts = 0 /\ 0 < job'[j].max
  BY <1>1, <1>2, <1>3
<1>5. ~In(pending, j) /\ j \notin delayed /\ current # j
  BY DEF Enqueue, QueueInv, Placed
<1>6. runs[j] = 0
  <2>1. /\ runs[j] = job[j].attempts + (IF current = j \/ job[j].fate = "done" THEN 1 ELSE 0)
        /\ job[j].fate = "new" /\ job[j].attempts = 0
    BY DEF Enqueue, QueueInv, Counted
  <2> QED
    BY <2>1, <1>5
<1>7. UNCHANGED <<worker, cooldown, sent, lapsed>>
  BY DEF Enqueue
<1>8. CASE Push(j) /\ UNCHANGED delayed
  BY <1>1, <1>4, <1>5, <1>6, <1>7, <1>8, PushKeeps
<1>9. CASE /\ delayed' = delayed \cup {j}
           /\ UNCHANGED <<pending, current, await, runs>>
  <2>1. TypeOK'
    BY <1>1, <1>4, <1>7, <1>9 DEF QueueInv, TypeOK
  <2>2. NothingIdle' /\ InHand' /\ OneReply'
    BY <1>7, <1>9 DEF QueueInv, NothingIdle, InHand, OneReply
  <2>3. Placed'
    BY <1>4, <1>5, <1>9 DEF QueueInv, Placed
  <2>4. Counted'
    BY <1>4, <1>5, <1>6, <1>9 DEF QueueInv, Counted
  <2> QED
    BY <2>1, <2>2, <2>3, <2>4 DEF QueueInv
<1> QED
  BY <1>7, <1>8, <1>9 DEF Enqueue

\* An accepted job whose timer fires.
LEMMA FireKeeps ==
  ASSUME QueueInv, NEW j \in Job, Fire(j)
  PROVE  QueueInv'
<1>1. /\ j \in delayed /\ delayed' = delayed \ {j} /\ Push(j)
      /\ UNCHANGED <<worker, job, cooldown, sent, lapsed>>
      /\ job \in [Job -> JobState] /\ delayed \in SUBSET Job
  BY DEF Fire, QueueInv, TypeOK
<1>2. ~In(pending, j) /\ current # j /\ job[j].fate = "accepted"
  BY <1>1 DEF QueueInv, Placed
<1>3. job[j].attempts < job[j].max /\ runs[j] = job[j].attempts
  <2>1. job[j].attempts \in Nat
    BY <1>1 DEF JobState
  <2> QED
    BY <1>2, <2>1 DEF QueueInv, Counted
<1> QED
  BY <1>1, <1>2, <1>3, PushKeeps

\* What a job in hand, or none, means for the rest.
LEMMA HandFacts ==
  ASSUME QueueInv
  PROVE  /\ pending \in Seq(Job) /\ Distinct(pending) /\ delayed \in SUBSET Job
         /\ job \in [Job -> JobState] /\ worker \in {"stopped", "running"}
         /\ await # "none" => current \in Job /\ job[current].fate = "accepted"
         /\ \A j \in Job : In(pending, j) => j \notin delayed /\ current # j
         /\ current \notin delayed
BY NoneIsNoJob DEF QueueInv, TypeOK, Placed, InHand

\* A start of the worker.
LEMMA StartKeeps ==
  ASSUME QueueInv, Start
  PROVE  QueueInv'
<1>1. /\ worker' = "running" /\ UNCHANGED <<delayed, job, cooldown, sent, lapsed>>
      /\ IF current = None THEN Drain(pending) ELSE UNCHANGED <<pending, current, await, runs>>
  BY DEF Start
<1>2. CASE current = None
  <2>1. \A j \in Job : job[j].fate = "accepted" <=> (In(pending, j) \/ j \in delayed)
    BY <1>2, NoneIsNoJob DEF QueueInv, Placed
  <2>2. \A j \in Job :
          /\ runs[j] = job[j].attempts + (IF job[j].fate = "done" THEN 1 ELSE 0)
          /\ job[j].fate # "failed" => job[j].attempts < job[j].max
          /\ job[j].fate = "failed" => job[j].attempts = job[j].max
          /\ job[j].fate = "new" => job[j].attempts = 0
    BY <1>2, NoneIsNoJob DEF QueueInv, Counted
  <2>3. TypeOK /\ \A j \in Job : j \notin lapsed => sent[j] = 0 \/ (sent[j] = 1 /\ cooldown # "free")
    BY DEF QueueInv, OneReply
  <2>4. cooldown \in {"free", "reserved", "responded"} /\ sent \in [Job -> Nat]
        /\ lapsed \in SUBSET Job
    BY <2>3 DEF TypeOK
  <2> QED
    BY <1>1, <1>2, <2>1, <2>2, <2>3, <2>4, HandFacts, DrainKeeps
<1>3. CASE current # None
  <2>1. \A j \in Job : job[j].fate = "accepted"
                       <=> (In(pending, j) \/ j \in delayed \/ current = j)
    BY DEF QueueInv, Placed
  <2> QED
    BY <1>1, <1>3, <2>1, HandFacts, HeldKeeps
<1> QED
  BY <1>2, <1>3

\* A stop drops what waits and lets the job in hand go on.
LEMMA StopKeeps ==
  ASSUME QueueInv, Stop
  PROVE  QueueInv'
<1>1. /\ worker' = "stopped" /\ pending' = <<>> /\ delayed' = {}
      /\ UNCHANGED <<current, await, cooldown, runs, sent, lapsed>>
      /\ job' = [j \in Job |-> IF Waiting(j) THEN [job[j] EXCEPT !.fate = "dropped"] ELSE job[j]]
  BY DEF Stop
<1>2. \A j \in Job : Waiting(j) <=> (j \in delayed \/ In(pending, j))
  BY DEF Waiting, In
<1>3. \A j \in Job : ~In(<<>>, j)
  BY DEF In
<1>4. <<>> \in Seq(Job) /\ Distinct(<<>>)
  BY DEF Distinct
<1>5. \A j \in Job :
        /\ ~Waiting(j) => job'[j] = job[j]
        /\ Waiting(j) => /\ job'[j].fate = "dropped" /\ job'[j].max = job[j].max
                         /\ job'[j].attempts = job[j].attempts
  BY <1>1, HandFacts DEF JobState
<1>6. job' \in [Job -> JobState]
  BY <1>1, HandFacts DEF JobState, Fate
<1>7. \A j \in Job : job'[j].fate = "accepted" <=> current = j
  <2> SUFFICES ASSUME NEW j \in Job PROVE job'[j].fate = "accepted" <=> current = j
    OBVIOUS
  <2>1. job[j].fate = "accepted" <=> (In(pending, j) \/ j \in delayed \/ current = j)
    BY DEF QueueInv, Placed
  <2>2. current = j => ~Waiting(j)
    BY <1>2, HandFacts
  <2> QED
    BY <1>2, <1>5, <2>1, <2>2
<1>8. \A j \in Job : Waiting(j) =>
        runs[j] = job[j].attempts /\ job[j].attempts < job[j].max /\ current # j
  <2> SUFFICES ASSUME NEW j \in Job, Waiting(j)
      PROVE runs[j] = job[j].attempts /\ job[j].attempts < job[j].max /\ current # j
    OBVIOUS
  <2>1. current # j /\ job[j].fate = "accepted"
    BY <1>2, HandFacts DEF QueueInv, Placed
  <2>2. job[j].attempts \in Nat
    BY HandFacts DEF JobState
  <2> QED
    BY <2>1, <2>2 DEF QueueInv, Counted
<1>9. CASE current # None
  <2>1. \A j \in Job :
          \/ job'[j] = job[j]
          \/ /\ runs[j] = job'[j].attempts /\ job'[j].fate \in {"accepted", "dropped"}
             /\ current # j /\ job'[j].attempts < job'[j].max
    BY <1>5, <1>8
  <2> QED
    BY <1>1, <1>3, <1>4, <1>6, <1>7, <1>9, <2>1, HeldKeeps
<1>10. CASE current = None
  <2>1. Drain(<<>>)
    BY <1>1, <1>10 DEF Drain, Rest, QueueInv, InHand
  <2>2. \A j \in Job : job'[j].fate = "accepted" <=> (In(<<>>, j) \/ j \in delayed')
    BY <1>1, <1>3, <1>7, <1>10, NoneIsNoJob
  <2>3. \A j \in Job :
          /\ runs[j] = job'[j].attempts + (IF job'[j].fate = "done" THEN 1 ELSE 0)
          /\ job'[j].fate # "failed" => job'[j].attempts < job'[j].max
          /\ job'[j].fate = "failed" => job'[j].attempts = job'[j].max
          /\ job'[j].fate = "new" => job'[j].attempts = 0
    <3> SUFFICES ASSUME NEW j \in Job
        PROVE /\ runs[j] = job'[j].attempts + (IF job'[j].fate = "done" THEN 1 ELSE 0)
              /\ job'[j].fate # "failed" => job'[j].attempts < job'[j].max
              /\ job'[j].fate = "failed" => job'[j].attempts = job'[j].max
              /\ job'[j].fate = "new" => job'[j].attempts = 0
      OBVIOUS
    <3>1. CASE Waiting(j)
      BY <1>5, <1>8, <3>1, HandFacts DEF JobState
    <3>2. CASE ~Waiting(j)
      BY <1>5, <1>10, <3>2, NoneIsNoJob DEF QueueInv, Counted
    <3> QED
      BY <3>1, <3>2
  <2>4. TypeOK /\ \A j \in Job : j \notin lapsed => sent[j] = 0 \/ (sent[j] = 1 /\ cooldown # "free")
    BY DEF QueueInv, OneReply
  <2>5. cooldown \in {"free", "reserved", "responded"} /\ sent \in [Job -> Nat]
        /\ lapsed \in SUBSET Job
    BY <2>4 DEF TypeOK
  <2> QED
    BY <1>1, <1>3, <1>4, <1>6, <2>1, <2>2, <2>3, <2>4, <2>5, DrainKeeps
<1> QED
  BY <1>9, <1>10
-----------------------------------------------------------------------------

\* The handler returns.
LEMMA FinishKeeps ==
  ASSUME QueueInv, await # "none", Finish,
         cooldown' \in {"free", "reserved", "responded"}, sent' \in [Job -> Nat],
         lapsed' \in SUBSET Job,
         \A j \in Job :
           j \notin lapsed' => sent'[j] = 0 \/ (sent'[j] = 1 /\ cooldown' # "free")
  PROVE  QueueInv'
<1>1. /\ job' = [job EXCEPT ![current].fate = "done"]
      /\ UNCHANGED <<worker, delayed>> /\ Drain(pending)
  BY DEF Finish
<1>2. /\ job' \in [Job -> JobState] /\ job'[current].fate = "done"
      /\ job'[current].attempts = job[current].attempts
      /\ job'[current].max = job[current].max
      /\ \A j \in Job : j # current => job'[j] = job[j]
  BY <1>1, HandFacts DEF JobState, Fate
<1>3. \A j \in Job : job'[j].fate = "accepted" <=> (In(pending, j) \/ j \in delayed')
  BY <1>1, <1>2, HandFacts DEF QueueInv, Placed
<1>4. \A j \in Job :
        /\ runs[j] = job'[j].attempts + (IF job'[j].fate = "done" THEN 1 ELSE 0)
        /\ job'[j].fate # "failed" => job'[j].attempts < job'[j].max
        /\ job'[j].fate = "failed" => job'[j].attempts = job'[j].max
        /\ job'[j].fate = "new" => job'[j].attempts = 0
  BY <1>2, HandFacts DEF QueueInv, Counted
<1>5. TypeOK
  BY DEF QueueInv
<1> QED
  BY <1>1, <1>2, <1>3, <1>4, <1>5, HandFacts, DrainKeeps

\* The handler throws: its job is pushed again, or has failed.
LEMMA FailKeeps ==
  ASSUME QueueInv, await # "none", Fail,
         cooldown' \in {"free", "reserved", "responded"}, sent' \in [Job -> Nat],
         lapsed' \in SUBSET Job,
         \A j \in Job :
           j \notin lapsed' => sent'[j] = 0 \/ (sent'[j] = 1 /\ cooldown' # "free")
  PROVE  QueueInv'
<1>1. /\ UNCHANGED <<worker, delayed>> /\ TypeOK
      /\ current \in Job /\ job[current].fate = "accepted"
      /\ job[current].attempts \in Nat /\ job[current].max \in 1 .. MaxAttempts
      /\ job[current].attempts < job[current].max
      /\ runs[current] = job[current].attempts + 1
      /\ ~In(pending, current)
  BY HandFacts DEF Fail, QueueInv, Counted, JobState
<1>2. CASE RetriesLeft(current)
  <2> DEFINE w == Append(pending, current)
  <2>1. job' = [job EXCEPT ![current].attempts = @ + 1] /\ Drain(w)
    BY <1>2 DEF Fail
  <2>2. /\ w \in Seq(Job) /\ Distinct(w)
        /\ \A j \in Job : In(w, j) <=> (In(pending, j) \/ j = current)
    BY <1>1, HandFacts, AppendResult
  <2> HIDE DEF w
  <2>3. job[current].attempts + 1 < job[current].max
    BY <1>2 DEF RetriesLeft
  <2>4. /\ job' \in [Job -> JobState] /\ job'[current].fate = "accepted"
        /\ job'[current].attempts = job[current].attempts + 1
        /\ job'[current].max = job[current].max
        /\ \A j \in Job : j # current => job'[j] = job[j]
    <3>1. job[current].attempts + 1 \in 0 .. MaxAttempts
      BY <1>1, <2>3, NumberAssumption
    <3> DEFINE d == [job[current] EXCEPT !.attempts = job[current].attempts + 1]
    <3>2. /\ d \in JobState /\ d.fate = "accepted"
          /\ d.attempts = job[current].attempts + 1 /\ d.max = job[current].max
      BY <1>1, <3>1, HandFacts DEF JobState
    <3>3. job' = [job EXCEPT ![current] = d]
      BY <2>1
    <3> HIDE DEF d
    <3> QED
      BY <1>1, <3>2, <3>3, HandFacts
  <2>5. \A j \in Job : In(w, j) => j \notin delayed'
    BY <1>1, <2>2, HandFacts
  <2>6. \A j \in Job : job'[j].fate = "accepted" <=> (In(w, j) \/ j \in delayed')
    BY <1>1, <2>2, <2>4, HandFacts DEF QueueInv, Placed
  <2>7. \A j \in Job :
          /\ runs[j] = job'[j].attempts + (IF job'[j].fate = "done" THEN 1 ELSE 0)
          /\ job'[j].fate # "failed" => job'[j].attempts < job'[j].max
          /\ job'[j].fate = "failed" => job'[j].attempts = job'[j].max
          /\ job'[j].fate = "new" => job'[j].attempts = 0
    BY <1>1, <2>3, <2>4 DEF QueueInv, Counted
  <2> QED
    BY <1>1, <2>1, <2>2, <2>4, <2>5, <2>6, <2>7, HandFacts, DrainKeeps
<1>3. CASE ~RetriesLeft(current)
  <2>1. /\ job' = [job EXCEPT ![current].attempts = @ + 1, ![current].fate = "failed"]
        /\ Drain(pending)
    BY <1>3 DEF Fail
  <2>2. job[current].attempts + 1 = job[current].max
    BY <1>1, <1>3 DEF RetriesLeft
  <2>3. /\ job' \in [Job -> JobState] /\ job'[current].fate = "failed"
        /\ job'[current].attempts = job[current].attempts + 1
        /\ job'[current].max = job[current].max
        /\ \A j \in Job : j # current => job'[j] = job[j]
    <3>1. job[current].attempts + 1 \in 0 .. MaxAttempts
      BY <1>1, <2>2, NumberAssumption
    <3> DEFINE d == [job[current] EXCEPT !.attempts = @ + 1, !.fate = "failed"]
    <3>2. /\ d \in JobState /\ d.fate = "failed"
          /\ d.attempts = job[current].attempts + 1 /\ d.max = job[current].max
      BY <1>1, <3>1, HandFacts DEF JobState, Fate
    <3>3. job' = [job EXCEPT ![current] = d]
      BY <2>1
    <3> HIDE DEF d
    <3> QED
      BY <1>1, <3>2, <3>3, HandFacts
  <2>4. \A j \in Job : In(pending, j) => j \notin delayed'
    BY <1>1, HandFacts
  <2>5. \A j \in Job : job'[j].fate = "accepted" <=> (In(pending, j) \/ j \in delayed')
    BY <1>1, <2>3, HandFacts DEF QueueInv, Placed
  <2>6. \A j \in Job :
          /\ runs[j] = job'[j].attempts + (IF job'[j].fate = "done" THEN 1 ELSE 0)
          /\ job'[j].fate # "failed" => job'[j].attempts < job'[j].max
          /\ job'[j].fate = "failed" => job'[j].attempts = job'[j].max
          /\ job'[j].fate = "new" => job'[j].attempts = 0
    BY <1>1, <2>2, <2>3 DEF QueueInv, Counted
  <2> QED
    BY <1>1, <2>1, <2>3, <2>4, <2>5, <2>6, HandFacts, DrainKeeps
<1> QED
  BY <1>2, <1>3

\* A handler goes on to its next await, or the cooldown ends: the queue is not touched.
LEMMA QueueUntouched ==
  ASSUME QueueInv, UNCHANGED <<worker, pending, delayed, current, job, runs>>,
         await' \in {"none", "manager", "context", "completion", "post"},
         await = "none" <=> await' = "none",
         cooldown' \in {"free", "reserved", "responded"}, sent' \in [Job -> Nat],
         lapsed' \in SUBSET Job, OneReply'
  PROVE  QueueInv'
<1>1. TypeOK'
  BY DEF QueueInv, TypeOK
<1>2. NothingIdle' /\ Placed' /\ Counted' /\ InHand'
  BY DEF QueueInv, NothingIdle, Placed, Counted, InHand
<1> QED
  BY <1>1, <1>2 DEF QueueInv

\* A handler reserves the cooldown only when no job has posted a reply that it still
\* remembers.
LEMMA RespondKeeps ==
  ASSUME QueueInv, Respond
  PROVE  QueueInv'
<1>1. /\ await = "context" /\ cooldown = "free" /\ cooldown' = "reserved"
      /\ await' = "completion"
      /\ UNCHANGED <<worker, pending, delayed, current, job, runs, sent, lapsed>>
  BY DEF Respond, CanReserve
<1>2. current \in Job /\ sent \in [Job -> Nat] /\ lapsed \in SUBSET Job
  BY <1>1, HandFacts DEF QueueInv, TypeOK
<1>3. \A j \in Job : j \notin lapsed => sent[j] = 0
  BY <1>1 DEF QueueInv, OneReply
<1>4. OneReply'
  BY <1>1, <1>2, <1>3 DEF OneReply
<1> QED
  BY <1>1, <1>2, <1>4, QueueUntouched

\* The provider has answered.
LEMMA GeneratedKeeps ==
  ASSUME QueueInv, Generated
  PROVE  QueueInv'
<1>1. /\ await = "completion" /\ await' = "post"
      /\ UNCHANGED <<worker, pending, delayed, current, job, cooldown, runs, sent, lapsed>>
  BY DEF Generated
<1>2. OneReply'
  BY <1>1 DEF QueueInv, OneReply
<1>3. /\ cooldown \in {"free", "reserved", "responded"} /\ sent \in [Job -> Nat]
      /\ lapsed \in SUBSET Job
  BY DEF QueueInv, TypeOK
<1> QED
  BY <1>1, <1>2, <1>3, QueueUntouched

\* The end of the cooldown is noted for every job that has posted or is at work.
LEMMA LapseKeeps ==
  ASSUME QueueInv, Lapse
  PROVE  QueueInv'
<1>1. /\ cooldown' = "free"
      /\ lapsed' = lapsed \cup {j \in Job : sent[j] > 0 \/ j = current}
      /\ UNCHANGED <<worker, pending, delayed, current, await, job, runs, sent>>
  BY DEF Lapse, queue
<1>2. /\ sent \in [Job -> Nat] /\ lapsed \in SUBSET Job
      /\ await \in {"none", "manager", "context", "completion", "post"}
      /\ await # "none" => current \in Job
  BY HandFacts DEF QueueInv, TypeOK
<1>3. OneReply'
  BY <1>1, <1>2 DEF QueueInv, OneReply
<1> QED
  BY <1>1, <1>2, <1>3, QueueUntouched

\* A reply that is posted is the first one of its job, or the cooldown has ended.
LEMMA PostKeeps ==
  ASSUME QueueInv, await = "post", Posted \/ UNCHANGED sent, UNCHANGED lapsed,
         cooldown' \in {cooldown, "responded"}
  PROVE  /\ sent' \in [Job -> Nat] /\ lapsed' \in SUBSET Job
         /\ cooldown' \in {"free", "reserved", "responded"}
         /\ \A j \in Job :
              j \notin lapsed' => sent'[j] = 0 \/ (sent'[j] = 1 /\ cooldown' # "free")
<1>1. /\ sent \in [Job -> Nat] /\ lapsed \in SUBSET Job /\ current \in Job
      /\ cooldown \in {"free", "reserved", "responded"}
  BY HandFacts DEF QueueInv, TypeOK
<1>2. current \notin lapsed => cooldown # "free" /\ sent[current] = 0
  BY DEF QueueInv, OneReply
<1>3. \A j \in Job : j \notin lapsed => sent[j] = 0 \/ (sent[j] = 1 /\ cooldown # "free")
  BY DEF QueueInv, OneReply
<1>4. CASE sent' = [sent EXCEPT ![current] = @ + 1]
  BY <1>1, <1>2, <1>3, <1>4
<1>5. CASE UNCHANGED sent
  BY <1>1, <1>3, <1>5
<1> QED
  BY <1>4, <1>5 DEF Posted

\* The end of a handler's await.
LEMMA HandleKeeps ==
  ASSUME QueueInv, Handle
  PROVE  QueueInv'
<1>0. /\ cooldown \in {"free", "reserved", "responded"} /\ sent \in [Job -> Nat]
      /\ lapsed \in SUBSET Job
      /\ \A j \in Job : j \notin lapsed => sent[j] = 0 \/ (sent[j] = 1 /\ cooldown # "free")
  BY DEF QueueInv, TypeOK, OneReply
<1>1. CASE Complete
  BY <1>0, <1>1, FinishKeeps DEF Complete
<1>2. CASE Throw
  BY <1>0, <1>2, FailKeeps DEF Throw
<1>3. CASE Respond
  BY <1>3, RespondKeeps
<1>4. CASE Generated
  BY <1>4, GeneratedKeeps
<1>5. CASE Answer
  <2>1. await = "post" /\ Posted /\ cooldown' = "responded" /\ Finish /\ UNCHANGED lapsed
    BY <1>5 DEF Answer
  <2> QED
    BY <2>1, PostKeeps, FinishKeeps
<1>6. CASE AnswerFails
  <2>1. /\ await = "post"
        /\ Posted \/ UNCHANGED sent
        /\ Fail /\ UNCHANGED <<cooldown, lapsed>>
    BY <1>6 DEF AnswerFails
  <2> QED
    BY <2>1, PostKeeps, FailKeeps
<1> QED
  BY <1>1, <1>2, <1>3, <1>4, <1>5, <1>6 DEF Handle

\* An empty queue and new jobs.
LEMMA InitHolds == Init => QueueInv
<1> SUFFICES ASSUME Init PROVE QueueInv
  OBVIOUS
<1>1. [fate |-> "new", kind |-> "manager", attempts |-> 0, max |-> 1] \in JobState
  BY NumberAssumption DEF JobState, Fate, Kind
<1>2. TypeOK
  BY <1>1 DEF Init, TypeOK
<1>3. NothingIdle /\ InHand /\ OneReply
  BY DEF Init, NothingIdle, InHand, OneReply
<1>4. Placed
  BY NoneIsNoJob DEF Init, Placed, Distinct, In
<1>5. Counted
  BY NoneIsNoJob DEF Init, Counted
<1> QED
  BY <1>2, <1>3, <1>4, <1>5 DEF QueueInv

\* Every step keeps the invariant.
LEMMA StepHolds == QueueInv /\ [Next]_vars => QueueInv'
<1> SUFFICES ASSUME QueueInv, [Next]_vars PROVE QueueInv'
  OBVIOUS
<1>1. CASE UNCHANGED vars
  BY <1>1 DEF vars, queue, QueueInv, TypeOK, NothingIdle, Placed, Counted, InHand, OneReply
<1>2. CASE Next
  BY <1>2, EnqueueKeeps, FireKeeps, StartKeeps, StopKeeps, HandleKeeps, LapseKeeps DEF Next
<1> QED
  BY <1>1, <1>2

-----------------------------------------------------------------------------

\* The jobs, their places and their runs agree in every state, however enqueues, timers,
\* handlers, starts and stops of the worker interleave.
THEOREM Inductive == Spec => []QueueInv
BY InitHolds, StepHolds, PTL DEF Spec

\* Queue, jobs and handler keep their shapes.
THEOREM TypeInvariant == Spec => []TypeOK
<1>1. QueueInv => TypeOK
  BY DEF QueueInv
<1> QED
  BY <1>1, Inductive, PTL

\* The queue never sleeps on a job while the worker runs (drain, push, start, stop).
THEOREM NothingIdleHolds == Spec => []NothingIdle
<1>1. QueueInv => NothingIdle
  BY DEF QueueInv
<1> QED
  BY <1>1, Inductive, PTL

\* A job posts a second reply only after the cooldown of the first one has ended.
THEOREM RepliesSpacedHolds == Spec => []RepliesSpaced
<1>1. QueueInv => RepliesSpaced
  <2> SUFFICES ASSUME QueueInv, NEW j \in Job, sent[j] > 1, j \notin lapsed PROVE FALSE
    BY DEF RepliesSpaced
  <2>1. sent[j] = 0 \/ sent[j] = 1
    BY DEF QueueInv, OneReply
  <2> QED
    BY <2>1
<1> QED
  BY <1>1, Inductive, PTL
\* An accepted job is in exactly one place, a settled one in none, and each has been
\* handled as often as its attempts say and never more often than it asked for.
THEOREM JobsAccountedHolds == Spec => []JobsAccounted
<1>1. QueueInv => JobsAccounted
  <2> SUFFICES ASSUME QueueInv PROVE JobsAccounted
    OBVIOUS
  <2>1. \A i, k \in DOMAIN pending : pending[i] = pending[k] => i = k
    BY DEF QueueInv, Placed, Distinct
  <2>2. ASSUME NEW j \in Job
        PROVE  /\ job[j].fate = "accepted"
                    <=> \E place \in {"timer", "hand", "queue"} : Places(j) = {place}
               /\ job[j].fate # "accepted" => Places(j) = {}
    <3>1. /\ "timer" \in Places(j) <=> j \in delayed
          /\ "hand" \in Places(j) <=> current = j
          /\ "queue" \in Places(j) <=> In(pending, j)
          /\ Places(j) \subseteq {"timer", "hand", "queue"}
      BY DEF Places, In
    <3>2. /\ job[j].fate = "accepted" <=> (In(pending, j) \/ j \in delayed \/ current = j)
          /\ In(pending, j) => j \notin delayed /\ current # j
          /\ current = j => j \notin delayed
      BY DEF QueueInv, Placed
    <3> QED
      BY <3>1, <3>2
  <2>3. ASSUME NEW j \in Job
        PROVE  /\ runs[j] = job[j].attempts
                             + IF current = j \/ job[j].fate = "done" THEN 1 ELSE 0
               /\ runs[j] <= job[j].max
               /\ job[j].fate = "failed" => runs[j] = job[j].max
    <3>1. job[j].attempts \in Nat /\ job[j].max \in Nat
      BY DEF QueueInv, TypeOK, JobState
    <3>2. current = j => job[j].fate = "accepted"
      BY DEF QueueInv, Placed
    <3> QED
      BY <3>1, <3>2 DEF QueueInv, Counted
  <2> QED
    BY <2>1, <2>2, <2>3 DEF JobsAccounted
<1> QED
  BY <1>1, Inductive, PTL
=============================================================================
