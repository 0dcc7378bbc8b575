------------------------------ MODULE Scheduler ------------------------------
(***************************************************************************)
(* The job scheduler (crates/queue/src/scheduler.rs) over the in-process   *)
(* MemoryStore (crates/queue/src/store.rs), with admin handlers enqueueing *)
(* jobs and moving the virtual clock while poll loops run.                 *)
(*                                                                         *)
(* A poll loop is a sequential task; every place where another thread can  *)
(* run between two of its effects is a step of its own: reading the clock, *)
(* the claim under the store's mutex, the Running event, the handler, the  *)
(* write back, the final event.  The clock is the pair of wall time and    *)
(* accumulated offset, its operations atomic (Clock.tla takes them apart); *)
(* a frozen clock is one on which Elapse does not happen.                  *)
(***************************************************************************)
EXTENDS Integers, Sequences, FiniteSets

CONSTANTS
  Jobs,         \* job ids
  Pollers,      \* poll loops sharing the store (one per process in main.rs)
  MaxAttempts,  \* [Jobs -> Nat]
  Backoff,      \* [Jobs -> Seq(Nat)], Job::backoff_ms
  Outcomes,     \* [Jobs -> SUBSET BOOLEAN]: what the job's handler may answer
  Delays,       \* the delay_ms an enqueue may ask for
  Advances,     \* the ms a clock/advance may ask for
  Horizon,      \* bound: virtual time is not followed past it
  MaxResets,    \* bound: resets of the clock
  NoJob, NoRecord

ASSUME SchedulerAssumption ==
  /\ MaxAttempts \in [Jobs -> Nat]
  /\ Backoff \in [Jobs -> Seq(Nat)]
  /\ Outcomes \in [Jobs -> SUBSET BOOLEAN]
  /\ Delays \subseteq Nat
  /\ Advances \subseteq Nat
  /\ Horizon \in Nat
  /\ MaxResets \in Nat
  /\ NoJob \notin Jobs
  /\ NoRecord \notin [state : {"scheduled", "running", "succeeded", "dead"},
                     attempt : Nat, dueAt : Nat]

VARIABLES
  store,     \* MemoryStore::jobs, NoRecord where the map has no entry
  wall,      \* virtual time without the offset
  offset,    \* what clock/advance added since boot or the last reset
  resets,    \* resets so far
  pc,        \* where each poll loop stands
  seen,      \* the virtual time the loop's current tick read, 0 between ticks
  held,      \* the claimed copies the loop has still to finish, by job id
  current,   \* the job the loop is executing
  log,       \* the JobTransition events on the bus, per job, in bus order
  failedAt   \* history: virtual time of the job's last failed attempt

storeVars == <<store, log, failedAt>>
clockVars == <<wall, offset, resets>>
loopVars == <<pc, seen, held, current>>
vars == <<storeVars, clockVars, loopVars>>

now == wall + offset

States == {"scheduled", "running", "succeeded", "dead"}
Final == {"succeeded", "dead"}
Record == [state : States, attempt : Nat, dueAt : Nat]

-----------------------------------------------------------------------------
(* The job's own arithmetic (job.rs).                                      *)

CanRetryAtLimit(j, job) == job.attempt <= MaxAttempts[j]
CanRetry(j, job) == job.attempt < MaxAttempts[j]

\* Indexed by the attempt just made, the last entry repeated past the end.
NextBackoff(j, job) ==
  LET b == Backoff[j]
  IN  CASE b = <<>> -> 0
        [] b # <<>> /\ job.attempt = 0 -> b[1]
        [] b # <<>> /\ job.attempt \in 1 .. Len(b) -> b[job.attempt]
        [] OTHER -> b[Len(b)]

RetryDueFromTick(p, j, job) == seen[p] + NextBackoff(j, job)
\* In ms: a backoff too large for the code's i64 is outside the model.
RetryDue(p, j, job) == now + NextBackoff(j, job)

-----------------------------------------------------------------------------
(* The store.                                                              *)

DueStrictly(j, t) ==
  store[j] # NoRecord /\ store[j].state = "scheduled" /\ store[j].dueAt < t
Due(j, t) ==
  /\ store[j] # NoRecord
  /\ store[j].state = "scheduled"
  /\ store[j].dueAt <= t

MarkCountedOnly(job) == [job EXCEPT !.attempt = @ + 1]
MarkRunning(job) == [job EXCEPT !.state = "running", !.attempt = @ + 1]

Put(j, job) == store' = [store EXCEPT ![j] = job]

-----------------------------------------------------------------------------
(* The bus.                                                                *)

Transition(job, from, to) == [from |-> from, to |-> to, attempt |-> job.attempt]

EmitUnlessRetry(j, t) ==
  log' = IF t.to = "scheduled" THEN log ELSE [log EXCEPT ![j] = Append(@, t)]
Emit(j, t) == log' = [log EXCEPT ![j] = Append(@, t)]

-----------------------------------------------------------------------------
(* The poll loop.                                                          *)

\* tick: the virtual time this pass compares against is read first.
ReadClock(p) ==
  /\ pc[p] = "idle"
  /\ pc' = [pc EXCEPT ![p] = "claim"]
  /\ seen' = [seen EXCEPT ![p] = now]
  /\ UNCHANGED <<storeVars, clockVars, held, current>>

\* claim_due: selection and state change under one lock.
Claim(p) ==
  LET due == {j \in Jobs : Due(j, seen[p])}
  IN  /\ pc[p] = "claim"
      /\ store' = [j \in Jobs |-> IF j \in due THEN MarkRunning(store[j]) ELSE store[j]]
      /\ held' = [held EXCEPT ![p] = [j \in due |-> MarkRunning(store[j])]]
      /\ pc' = [pc EXCEPT ![p] = IF due = {} THEN "idle" ELSE "next"]
      /\ seen' = [seen EXCEPT ![p] = IF due = {} THEN 0 ELSE @]
      /\ UNCHANGED <<log, failedAt, clockVars, current>>

\* execute: take the next claimed copy and announce that it runs.
Start(p) ==
  /\ pc[p] = "next"
  /\ \E j \in DOMAIN held[p] :
       /\ current' = [current EXCEPT ![p] = j]
       /\ Emit(j, Transition(held[p][j], "scheduled", "running"))
  /\ pc' = [pc EXCEPT ![p] = "handle"]
  /\ UNCHANGED <<store, failedAt, clockVars, seen, held>>

\* What the record becomes once the handler has answered.
Settled(p, j, job, ok) ==
  IF ok THEN [job EXCEPT !.state = "succeeded"]
  ELSE IF CanRetry(j, job)
       THEN [job EXCEPT !.state = "scheduled", !.dueAt = RetryDue(p, j, job)]
       ELSE [job EXCEPT !.state = "dead"]

Handle(p) ==
  LET j == current[p]
  IN  /\ pc[p] = "handle"
      /\ \E ok \in Outcomes[j] :
           /\ held' = [held EXCEPT ![p][j] = Settled(p, j, held[p][j], ok)]
           /\ failedAt' = IF ok THEN failedAt ELSE [failedAt EXCEPT ![j] = now]
      /\ pc' = [pc EXCEPT ![p] = "persist"]
      /\ UNCHANGED <<store, log, clockVars, seen, current>>

Persist(p) ==
  LET j == current[p]
  IN  /\ pc[p] = "persist"
      /\ Put(j, held[p][j])
      /\ pc' = [pc EXCEPT ![p] = "announce"]
      /\ UNCHANGED <<log, failedAt, clockVars, seen, held, current>>

\* The final event; then the next claimed copy, or the next tick.
Announce(p) ==
  LET j == current[p]
      rest == DOMAIN held[p] \ {j}
  IN  /\ pc[p] = "announce"
      /\ Emit(j, Transition(held[p][j], "running", held[p][j].state))
      /\ held' = [held EXCEPT ![p] = [k \in rest |-> held[p][k]]]
      /\ current' = [current EXCEPT ![p] = NoJob]
      /\ pc' = [pc EXCEPT ![p] = IF rest = {} THEN "idle" ELSE "next"]
      /\ seen' = [seen EXCEPT ![p] = IF rest = {} THEN 0 ELSE @]
      /\ UNCHANGED <<store, failedAt, clockVars>>

-----------------------------------------------------------------------------
(* Everyone else.                                                          *)

\* POST /_admin/jobs: a fresh id, due delay_ms after virtual now.
Enqueue(j, delay) ==
  /\ store[j] = NoRecord
  /\ Put(j, [state |-> "scheduled", attempt |-> 0, dueAt |-> now + delay])
  /\ UNCHANGED <<log, failedAt, clockVars, loopVars>>

Elapse ==
  /\ now < Horizon
  /\ wall' = wall + 1
  /\ UNCHANGED <<storeVars, offset, resets, loopVars>>

Advance(ms) ==
  /\ now + ms <= Horizon
  /\ offset' = offset + ms
  /\ UNCHANGED <<storeVars, wall, resets, loopVars>>

\* POST /_admin/reset returns the clock to wall time: virtual time may go back.
ResetClock ==
  /\ resets < MaxResets
  /\ offset' = 0
  /\ resets' = resets + 1
  /\ UNCHANGED <<storeVars, wall, loopVars>>

-----------------------------------------------------------------------------
Init ==
  /\ store = [j \in Jobs |-> NoRecord]
  /\ wall = 0 /\ offset = 0 /\ resets = 0
  /\ pc = [p \in Pollers |-> "idle"]
  /\ seen = [p \in Pollers |-> 0]
  /\ held = [p \in Pollers |-> [j \in {} |-> NoRecord]]
  /\ current = [p \in Pollers |-> NoJob]
  /\ log = [j \in Jobs |-> <<>>]
  /\ failedAt = [j \in Jobs |-> 0]

Poll(p) ==
  \/ ReadClock(p)
  \/ Claim(p)
  \/ Start(p)
  \/ Handle(p)
  \/ Persist(p)
  \/ Announce(p)

Next ==
  \/ \E p \in Pollers : Poll(p)
  \/ \E j \in Jobs, delay \in Delays : Enqueue(j, delay)
  \/ Elapse
  \/ \E ms \in Advances : Advance(ms)
  \/ ResetClock

Spec == Init /\ [][Next]_vars

\* run_forever never stops ticking, and the clock is not left frozen for ever.
Fairness == WF_vars(Elapse) /\ \A p \in Pollers : WF_vars(Poll(p))
FairSpec == Spec /\ Fairness

-----------------------------------------------------------------------------
(* Properties.                                                             *)

AttemptLimit(j) == IF MaxAttempts[j] = 0 THEN 1 ELSE MaxAttempts[j]
Times == 0 .. Horizon
Stages == {"idle", "claim", "next", "handle", "persist", "announce"}
JobRecord(j) == {r \in Record : r.attempt <= AttemptLimit(j)}
Transitions(j) == [from : States, to : States, attempt : 0 .. AttemptLimit(j)]

Enqueued(j) == store[j] # NoRecord
Executing(p, j) == current[p] = j /\ pc[p] \in {"handle", "persist", "announce"}
Answered(p, j) == Executing(p, j) /\ pc[p] # "handle"
Written(p, j) == Executing(p, j) /\ pc[p] = "announce"
\* p claimed j and has not yet written the outcome of the attempt.
Owns(p, j) == j \in DOMAIN held[p] /\ ~Written(p, j)

\* Every variable keeps its type; in particular no record is ever attempted more
\* often than its limit allows, a limit of 0 still giving one attempt.
TypeOK ==
  /\ DOMAIN store = Jobs
  /\ \A j \in Jobs : store[j] \in JobRecord(j) \cup {NoRecord}
  /\ wall \in Nat /\ offset \in Nat /\ now \in Times
  /\ resets \in 0 .. MaxResets
  /\ pc \in [Pollers -> Stages]
  /\ seen \in [Pollers -> Times]
  /\ DOMAIN held = Pollers
  /\ \A p \in Pollers :
       /\ DOMAIN held[p] \subseteq Jobs
       /\ held[p] = [j \in DOMAIN held[p] |-> held[p][j]]
       /\ \A j \in DOMAIN held[p] : held[p][j] \in JobRecord(j)
  /\ current \in [Pollers -> Jobs \cup {NoJob}]
  /\ DOMAIN log = Jobs
  /\ \A j \in Jobs : log[j] \in Seq(Transitions(j))
  /\ failedAt \in [Jobs -> Times]

\* Trap T3 and the JobStore contract, "two schedulers polling the same store must
\* never both receive the same job": a record is marked running exactly while one
\* loop, and only one, still has its outcome to write, and that loop's copy is the
\* stored record until the handler has answered.
ExclusiveRun ==
  \A j \in Jobs :
    /\ \A p, q \in Pollers : Owns(p, j) /\ Owns(q, j) => p = q
    /\ (\E p \in Pollers : Owns(p, j)) <=> (Enqueued(j) /\ store[j].state = "running")
    /\ \A p \in Pollers : Owns(p, j) /\ ~Answered(p, j) => held[p][j] = store[j]

\* What the loops' stages say of their copies, and the attempts a scheduled record
\* still has: with TypeOK and ExclusiveRun it is inductive.
StagesAgree ==
  /\ \A p \in Pollers :
       /\ pc[p] \in {"idle", "claim"} => DOMAIN held[p] = {}
       /\ pc[p] \in {"handle", "persist", "announce"} => current[p] \in DOMAIN held[p]
       /\ \A j \in DOMAIN held[p] :
            /\ held[p][j].attempt >= 1
            /\ ~Answered(p, j) => held[p][j].state = "running"
            /\ Answered(p, j) => held[p][j].state # "running"
            /\ held[p][j].state = "scheduled" => held[p][j].attempt < MaxAttempts[j]
            /\ held[p][j].state = "dead" => held[p][j].attempt >= MaxAttempts[j]
            /\ Owns(p, j) => Enqueued(j) /\ held[p][j].attempt = store[j].attempt
  /\ \A j \in Jobs :
       Enqueued(j) /\ store[j].state = "scheduled" => store[j].attempt < AttemptLimit(j)

\* The entries of the job's log that end an attempt, the attempts they end, those a
\* loop has written and is about to announce, and those the store says are over.
EndsOn(j) == {i \in 1 .. Len(log[j]) : log[j][i].from = "running"}
Told(j) == {log[j][i].attempt : i \in EndsOn(j)}
Owed(j) == {held[p][j].attempt : p \in {q \in Pollers : Written(q, j)}}
Over(j) ==
  1 .. (IF store[j].state = "running" THEN store[j].attempt - 1 ELSE store[j].attempt)
AnnouncedRunning(j, n, before) ==
  \E k \in 1 .. before : log[j][k].to = "running" /\ log[j][k].attempt = n

\* Invariant 4, "every transition is both an event and a span": the attempts whose
\* end is on the bus are the attempts the store says have ended, less those a loop
\* has written and is about to announce; none is announced twice, none before it
\* was announced as running, and the last one announced names the stored state.
BusMatchesStore ==
  \A j \in Jobs : Enqueued(j) =>
    /\ Told(j) \cap Owed(j) = {}
    /\ Told(j) \cup Owed(j) = Over(j)
    /\ \A i, k \in EndsOn(j) : log[j][i].attempt = log[j][k].attempt => i = k
    /\ \A i \in EndsOn(j) :
         /\ AnnouncedRunning(j, log[j][i].attempt, i - 1)
         /\ log[j][i].attempt = store[j].attempt => log[j][i].to = store[j].state

\* The wait a job's configuration asks for after its n-th attempt failed: the n-th
\* entry of its ladder, the last one past the ladder's end, none without a ladder.
Waits(j, n) ==
  LET b == Backoff[j]
  IN  IF b = <<>> THEN 0 ELSE b[IF n <= Len(b) THEN n ELSE Len(b)]

\* A retry runs no earlier than its backoff after the failure it follows, in
\* virtual time, whatever the clock did between: the backoff is counted from the
\* failure and not from the tick the failing attempt was claimed by.
RetryWaits(p, j) ==
  (Owns(p, j)' /\ ~Owns(p, j) /\ store[j].attempt > 0) =>
    seen[p] >= failedAt[j] + Waits(j, store[j].attempt)
RetriesWaitTheirBackoff == [][\A j \in Jobs, p \in Pollers : RetryWaits(p, j)]_vars

\* The queue implements its promise.
Lifecycle == INSTANCE JobLifecycle WITH
  phase <- [j \in Jobs |-> IF store[j] = NoRecord THEN "absent" ELSE store[j].state],
  attempts <- [j \in Jobs |-> IF store[j] = NoRecord THEN 0 ELSE store[j].attempt]
ImplementsLifecycle == Lifecycle!LifecycleSpec

\* A job due within the time followed does not stay behind: once enqueued it ends,
\* or waits for a time past the horizon.
JobsEnd ==
  \A j \in Jobs :
    Enqueued(j) ~>
      Enqueued(j) /\ (store[j].state \in Final \/ store[j].dueAt > Horizon)
=============================================================================
