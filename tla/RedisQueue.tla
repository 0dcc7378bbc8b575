----------------------------- MODULE RedisQueue -----------------------------
(***************************************************************************)
(* The job queue over Redis (queue/src/redis_store.rs): the claim script   *)
(* and put's transaction, each executed by Redis in one step, and the      *)
(* processes that send them, which crash and restart, lose replies and     *)
(* fail to decode what they get back.                                      *)
(*                                                                         *)
(* Each process has a virtual clock of its own, advanced and reset at any  *)
(* time, so a claim or a retry may read any time up to the horizon.  The   *)
(* loop's events are in Scheduler; here its life is claim, handle, write.  *)
(***************************************************************************)
EXTENDS Integers, FiniteSets

CONSTANTS
  Jobs,
  Procs,        \* processes of one run, restored from one snapshot
  MaxAttempts,  \* [Jobs -> Nat]
  NoBackoff,    \* the jobs whose backoff list is empty
  Outcomes,     \* [Jobs -> SUBSET BOOLEAN]: what the handler may answer
  PerMilli,     \* instants to the millisecond, the resolution of a score
  Horizon,      \* bound: the times clocks show are 0 .. Horizon
  MaxFailures,  \* bound: crashes, and commands lost or unanswered
  NoJob, NoRecord

ASSUME RedisAssumption ==
  /\ MaxAttempts \in [Jobs -> Nat]
  /\ NoBackoff \subseteq Jobs
  /\ Outcomes \in [Jobs -> SUBSET BOOLEAN]
  /\ PerMilli \in Nat \ {0} /\ Horizon \in Nat /\ MaxFailures \in Nat
  /\ NoJob \notin Jobs
  /\ NoRecord \notin [state : {"scheduled", "running", "succeeded", "dead"},
                     attempt : Nat, dueAt : Nat, readable : BOOLEAN]

VARIABLES
  hash,     \* <prefix>:jobs
  due,      \* <prefix>:due, from the ids it holds to their scores
  up,       \* the processes that run
  held,     \* the copies each process has claimed and not yet written back
  writing,  \* the job whose outcome each process is about to write
  failures,
  harmed    \* history: the jobs a failure hit while they were claimed

vars == <<hash, due, up, held, writing, failures, harmed>>

Times == 0 .. Horizon
NoCopies == [j \in {} |-> NoRecord]

-----------------------------------------------------------------------------
(* Redis.                                                                  *)

\* What the script writes back: an empty list goes through cjson as an object, which
\* the process cannot decode; whoever wrote the record before.
Marked(j, job) ==
  [job EXCEPT !.state = "running", !.attempt = @ + 1,
              !.readable = @ /\ j \notin NoBackoff]

\* Scores are whole milliseconds: a job may be claimed within its millisecond, early.
Score(t) == t \div PerMilli

ByScore(t) == {j \in DOMAIN due : due[j] <= Score(t)}

DueAfterAlways(j, job) ==
  [k \in DOMAIN due \cup {j} |-> IF k = j THEN Score(job.dueAt) ELSE due[k]]

\* put: the record, and its place in the due set, in one MULTI.
DueAfter(j, job) ==
  IF job.state = "scheduled"
  THEN [k \in DOMAIN due \cup {j} |-> IF k = j THEN Score(job.dueAt) ELSE due[k]]
  ELSE [k \in DOMAIN due \ {j} |-> due[k]]

Put(j, job) ==
  /\ hash' = [hash EXCEPT ![j] = job]
  /\ due' = DueAfter(j, job)

-----------------------------------------------------------------------------
(* The processes.                                                          *)

Enqueue(p, j, t) ==
  /\ p \in up /\ hash[j] = NoRecord
  /\ Put(j, [state |-> "scheduled", attempt |-> 0, dueAt |-> t, readable |-> TRUE])
  /\ UNCHANGED <<up, held, writing, failures, harmed>>

ScriptKeepingDue(t) ==
  /\ hash' = [j \in Jobs |-> IF j \in ByScore(t) THEN Marked(j, hash[j]) ELSE hash[j]]
  /\ UNCHANGED due

\* The script selects and marks, all or nothing.
Script(t) ==
  /\ hash' = [j \in Jobs |-> IF j \in ByScore(t) THEN Marked(j, hash[j]) ELSE hash[j]]
  /\ due' = [j \in DOMAIN due \ ByScore(t) |-> due[j]]

Ready(p) == p \in up /\ DOMAIN held[p] = {}

\* One record that does not decode fails the batch.  Backoffs below 10^14 ms: cjson writes
\* larger ones with an exponent, which do not decode either.
Undecodable(S) == \E j \in S : ~hash[j].readable \/ j \in NoBackoff

Claim(p, t) ==
  LET batch == ByScore(t)
  IN  /\ Ready(p) /\ batch # {}
      /\ Script(t)
      /\ IF Undecodable(batch)
         THEN /\ harmed' = harmed \cup batch
              /\ UNCHANGED held
         ELSE /\ held' = [held EXCEPT ![p] = [j \in batch |-> Marked(j, hash[j])]]
              /\ UNCHANGED harmed
      /\ UNCHANGED <<up, writing, failures>>

\* The script ran, and its reply was lost.
ClaimUnanswered(p, t) ==
  /\ Ready(p) /\ ByScore(t) # {} /\ failures < MaxFailures
  /\ Script(t)
  /\ harmed' = harmed \cup ByScore(t)
  /\ failures' = failures + 1
  /\ UNCHANGED <<up, held, writing>>

CanRetryAtLimit(j, job) == job.attempt <= MaxAttempts[j]

CanRetry(j, job) == job.attempt < MaxAttempts[j]

Settled(j, job, ok, t) ==
  IF ok THEN [job EXCEPT !.state = "succeeded"]
  ELSE IF CanRetry(j, job) THEN [job EXCEPT !.state = "scheduled", !.dueAt = t]
  ELSE [job EXCEPT !.state = "dead"]

\* execute, up to the write: the claimed jobs one after the other.
Handle(p, j, t) ==
  /\ p \in up /\ writing[p] = NoJob /\ j \in DOMAIN held[p]
  /\ \E ok \in Outcomes[j] : held' = [held EXCEPT ![p][j] = Settled(j, held[p][j], ok, t)]
  /\ writing' = [writing EXCEPT ![p] = j]
  /\ UNCHANGED <<hash, due, up, failures, harmed>>

Written(p) ==
  /\ held' = [held EXCEPT ![p] = [k \in DOMAIN held[p] \ {writing[p]} |-> held[p][k]]]
  /\ writing' = [writing EXCEPT ![p] = NoJob]

Persist(p) ==
  /\ p \in up /\ writing[p] # NoJob
  /\ Put(writing[p], held[p][writing[p]])
  /\ Written(p)
  /\ UNCHANGED <<up, failures, harmed>>

\* The write never reached Redis: logged, and not tried again.
PersistFails(p) ==
  /\ p \in up /\ writing[p] # NoJob /\ failures < MaxFailures
  /\ Written(p)
  /\ harmed' = harmed \cup {writing[p]}
  /\ failures' = failures + 1
  /\ UNCHANGED <<hash, due, up>>

Crash(p) ==
  /\ p \in up /\ failures < MaxFailures
  /\ up' = up \ {p}
  /\ harmed' = harmed \cup DOMAIN held[p]
  /\ held' = [held EXCEPT ![p] = NoCopies]
  /\ writing' = [writing EXCEPT ![p] = NoJob]
  /\ failures' = failures + 1
  /\ UNCHANGED <<hash, due>>

Restart(p) ==
  /\ p \notin up
  /\ up' = up \cup {p}
  /\ UNCHANGED <<hash, due, held, writing, failures, harmed>>

-----------------------------------------------------------------------------
Init ==
  /\ hash = [j \in Jobs |-> NoRecord]
  /\ due = [j \in {} |-> 0]
  /\ up = Procs
  /\ held = [p \in Procs |-> NoCopies]
  /\ writing = [p \in Procs |-> NoJob]
  /\ failures = 0
  /\ harmed = {}

Next ==
  \/ \E p \in Procs, j \in Jobs, t \in Times : Enqueue(p, j, t) \/ Handle(p, j, t)
  \/ \E p \in Procs, t \in Times : Claim(p, t) \/ ClaimUnanswered(p, t)
  \/ \E p \in Procs : Persist(p) \/ PersistFails(p) \/ Crash(p) \/ Restart(p)

Spec == Init /\ [][Next]_vars

-----------------------------------------------------------------------------
(* Properties.                                                             *)

States == {"scheduled", "running", "succeeded", "dead"}
AttemptLimit(j) == IF MaxAttempts[j] = 0 THEN 1 ELSE MaxAttempts[j]
JobRecord(j) == [state : States, attempt : 0 .. AttemptLimit(j), dueAt : Times,
                 readable : BOOLEAN]
Stored == {j \in Jobs : hash[j] # NoRecord}

\* Every variable keeps its type: no record is ever attempted more often than its
\* limit allows, whichever processes took it.
TypeOK ==
  /\ DOMAIN hash = Jobs
  /\ \A j \in Stored : hash[j] \in JobRecord(j)
  /\ DOMAIN due \subseteq Jobs
  /\ due = [j \in DOMAIN due |-> due[j]]
  /\ up \subseteq Procs
  /\ DOMAIN held = Procs
  /\ \A p \in Procs :
       /\ DOMAIN held[p] \subseteq Jobs
       /\ held[p] = [j \in DOMAIN held[p] |-> held[p][j]]
       /\ \A j \in DOMAIN held[p] : held[p][j] \in JobRecord(j)
  /\ writing \in [Procs -> Jobs \cup {NoJob}]
  /\ failures \in 0 .. MaxFailures
  /\ harmed \subseteq Jobs

\* The two keys agree at every moment, crashes included: the due set holds exactly the
\* scheduled jobs, at their due times, so no finished or running job can be claimed
\* and no scheduled one is forgotten; and only a job without backoff is unreadable.
\* (TypeOK with it: the attempt limits.)
KeysAgree ==
  /\ TypeOK
  /\ DOMAIN due = {j \in Stored : hash[j].state = "scheduled"}
  /\ \A j \in DOMAIN due : due[j] = Score(hash[j].dueAt)
  /\ \A j \in Stored : ~hash[j].readable => j \in NoBackoff /\ hash[j].attempt > 0

\* Trap T3 between processes: a job is held by at most one, which holds the stored
\* attempt and nobody else can write; and a running job that nobody holds is one that
\* a crash, a lost reply, a lost write or an undecodable batch left behind.
RunningIsHeld ==
  /\ \A p, q \in Procs : DOMAIN held[p] \cap DOMAIN held[q] # {} => p = q
  /\ \A p \in Procs : \A j \in DOMAIN held[p] :
       /\ p \in up
       /\ j \in Stored /\ hash[j].state = "running" /\ held[p][j].attempt = hash[j].attempt
       /\ writing[p] # j => held[p][j] = hash[j]
  /\ \A j \in Stored \ harmed :
       hash[j].state = "running" => \E p \in Procs : j \in DOMAIN held[p]

\* The queue keeps its promise across processes and failures: attempts within the
\* limit, one at a time, dead only when used up, and never again once ended.
Lifecycle == INSTANCE JobLifecycle WITH
  phase <- [j \in Jobs |-> IF hash[j] = NoRecord THEN "absent" ELSE hash[j].state],
  attempts <- [j \in Jobs |-> IF hash[j] = NoRecord THEN 0 ELSE hash[j].attempt]
ImplementsLifecycle == Lifecycle!LifecycleSpec
=============================================================================
