----------------------------- MODULE LeasedTask -----------------------------
(***************************************************************************)
(* What the two durable claim stores of the bot promise, stated without    *)
(* tokens, timestamps or attempt counters: a task is worked on under a     *)
(* lease, only the worker that holds the lease can close it, and a lease   *)
(* changes hands only after it was given back or has run out.              *)
(*                                                                         *)
(* EventStore and ActionStore are both shown to implement this             *)
(* specification under a refinement mapping. A lease that can be renewed   *)
(* begins anew without a claim: whoever holds the task is in time again.   *)
(***************************************************************************)
CONSTANTS
  Task,      \* what is leased: an event document, an action record
  Worker,    \* who may hold a lease: a call in flight in some process
  Renewable, \* the tasks whose lease somebody else than the owner may renew
  NoWorker   \* nobody: the worker that held the lease is gone

VARIABLES
  state,     \* "none", "open", "held", "done" or "dead"
  owner,     \* the worker whose result counts while the task is held
  late       \* whether the lease of a held task has run out

vars == <<state, owner, late>>

TypeOK ==
  /\ state \in [Task -> {"none", "open", "held", "done", "dead"}]
  /\ owner \in [Task -> Worker \cup {NoWorker}]
  /\ late \in [Task -> BOOLEAN]

Set(k, s, w, l) ==
  /\ state' = [state EXCEPT ![k] = s]
  /\ owner' = [owner EXCEPT ![k] = w]
  /\ late'  = [late EXCEPT ![k] = l]

Init ==
  /\ state \in [Task -> {"none", "open"}]
  /\ owner = [k \in Task |-> NoWorker]
  /\ late  = [k \in Task |-> FALSE]

Create(k) == state[k] = "none" /\ Set(k, "open", NoWorker, FALSE)

\* The lease runs from the moment it was asked for: a worker that was slow to ask
\* may find it already run out.
Acquire(w, k) ==
  /\ \/ state[k] = "open"
     \/ state[k] = "held" /\ late[k]
  /\ \E l \in BOOLEAN : Set(k, "held", w, l)

\* Only the owner closes a task, and only while its lease runs.
Complete(w, k) ==
  /\ state[k] = "held"
  /\ owner[k] = w
  /\ ~late[k]
  /\ Set(k, "done", NoWorker, FALSE)

\* The owner reports a failure or gives the task back: it is open again, or
\* dead once its budget is spent.
GiveUp(w, k) ==
  /\ state[k] = "held"
  /\ owner[k] = w
  /\ Set(k, "open", NoWorker, FALSE) \/ Set(k, "dead", NoWorker, FALSE)

\* A worker finds its lease run out and walks away, or a process dies with all the
\* workers W in it: their tasks stay held by nobody until the leases have run out.
Vanish(W) ==
  /\ owner' = [k \in Task |-> IF owner[k] \in W THEN NoWorker ELSE owner[k]]
  /\ UNCHANGED <<state, late>>

RunOut ==
  /\ \E S \in SUBSET {k \in Task : state[k] = "held"} :
       late' = [k \in Task |-> late[k] \/ k \in S]
  /\ UNCHANGED <<state, owner>>

\* The lease begins anew, for the owner it has, even one that overran it, or for nobody.
Renew(k) ==
  /\ k \in Renewable
  /\ state[k] = "held"
  /\ late' = [late EXCEPT ![k] = FALSE]
  /\ UNCHANGED <<state, owner>>

\* A finished task may be forgotten, and its id then created anew.
Forget(k) == state[k] = "done" /\ Set(k, "none", NoWorker, FALSE)

Next ==
  \/ RunOut
  \/ \E k \in Task : Create(k) \/ Renew(k) \/ Forget(k)
  \/ \E W \in SUBSET Worker : Vanish(W)
  \/ \E w \in Worker, k \in Task : Acquire(w, k) \/ Complete(w, k) \/ GiveUp(w, k)

Spec == Init /\ [][Next]_vars
=============================================================================
