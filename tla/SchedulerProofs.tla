--------------------------- MODULE SchedulerProofs ---------------------------
(* Machine-checked proofs about Scheduler, for every set of jobs and of    *)
(* poll loops, every retry limit, backoff, handler and clock movement.     *)
EXTENDS Scheduler, TLAPS

Inv == TypeOK /\ ExclusiveRun /\ StagesAgree

\* Every job is allowed an attempt.
LEMMA AttemptLimitType == \A j \in Jobs : AttemptLimit(j) \in Nat /\ AttemptLimit(j) >= 1
<1>1. \A j \in Jobs : MaxAttempts[j] \in Nat
  BY SchedulerAssumption
<1>2. QED
  BY <1>1 DEF AttemptLimit

\* A job's backoff is a natural number, whatever attempt it follows.
LEMMA NextBackoffType ==
  ASSUME NEW j \in Jobs, NEW job \in Record
  PROVE  NextBackoff(j, job) \in Nat
<1> DEFINE b == Backoff[j]
<1>1. b \in Seq(Nat)
  BY SchedulerAssumption
<1>2. CASE b = <<>>
  BY <1>2 DEF NextBackoff
<1>3. CASE b # <<>>
  <2>1. Len(b) \in Nat /\ Len(b) >= 1 /\ \A i \in 1 .. Len(b) : b[i] \in Nat
    BY <1>1, <1>3
  <2>2. job.attempt \in Nat
    BY DEF Record
  <2>3. QED
    BY <1>3, <2>1, <2>2 DEF NextBackoff
<1>4. QED
  BY <1>2, <1>3

\* What the handler's answer makes of a running record: it ends, keeps its attempt,
\* is rescheduled only with attempts left and dies only without.
LEMMA SettledType ==
  ASSUME NEW p \in Pollers, NEW j \in Jobs, NEW job \in JobRecord(j), NEW ok \in BOOLEAN,
         now \in Nat
  PROVE  /\ Settled(p, j, job, ok) \in JobRecord(j)
         /\ Settled(p, j, job, ok).state # "running"
         /\ Settled(p, j, job, ok).attempt = job.attempt
         /\ Settled(p, j, job, ok).state = "scheduled" => job.attempt < MaxAttempts[j]
         /\ Settled(p, j, job, ok).state = "dead" => job.attempt >= MaxAttempts[j]
<1>1. RetryDue(p, j, job) \in Nat
  BY NextBackoffType DEF RetryDue, JobRecord
<1>2. MaxAttempts[j] \in Nat
  BY SchedulerAssumption
<1>3. /\ job \in Record /\ job.attempt \in Nat /\ job.attempt <= AttemptLimit(j)
      /\ job.dueAt \in Nat /\ job.state \in States
  BY DEF JobRecord, Record
<1> HIDE DEF AttemptLimit
<1>4. CASE ok
  <2>1. Settled(p, j, job, ok) = [job EXCEPT !.state = "succeeded"]
    BY <1>4 DEF Settled
  <2>2. QED
    BY <1>3, <2>1 DEF JobRecord, Record, States
<1>5. CASE ~ok /\ job.attempt < MaxAttempts[j]
  <2>1. Settled(p, j, job, ok)
          = [job EXCEPT !.state = "scheduled", !.dueAt = RetryDue(p, j, job)]
    BY <1>5 DEF Settled, CanRetry
  <2>2. QED
    BY <1>1, <1>3, <1>5, <2>1 DEF JobRecord, Record, States
<1>6. CASE ~ok /\ ~(job.attempt < MaxAttempts[j])
  <2>1. Settled(p, j, job, ok) = [job EXCEPT !.state = "dead"]
    BY <1>6 DEF Settled, CanRetry
  <2>2. QED
    BY <1>2, <1>3, <1>6, <2>1 DEF JobRecord, Record, States
<1>7. QED
  BY <1>4, <1>5, <1>6

\* What marking a record running makes of it.
LEMMA MarkRunningType ==
  ASSUME NEW j \in Jobs, NEW job \in JobRecord(j), job.attempt < AttemptLimit(j)
  PROVE  /\ MarkRunning(job) \in JobRecord(j)
         /\ MarkRunning(job).state = "running"
         /\ MarkRunning(job).attempt = job.attempt + 1
         /\ MarkRunning(job) # NoRecord
<1>1. /\ job \in Record /\ job.attempt \in Nat /\ job.dueAt \in Nat
      /\ job = [state |-> job.state, attempt |-> job.attempt, dueAt |-> job.dueAt]
  BY DEF JobRecord, Record
<1>2. AttemptLimit(j) \in Nat
  BY AttemptLimitType
<1>3. MarkRunning(job) = [state |-> "running", attempt |-> job.attempt + 1, dueAt |-> job.dueAt]
  <2> DEFINE running == [job EXCEPT !.state = "running"]
  <2>1. running = [state |-> "running", attempt |-> job.attempt, dueAt |-> job.dueAt]
    BY <1>1
  <2>2. MarkRunning(job) = [running EXCEPT !.attempt = job.attempt + 1]
    BY DEF MarkRunning
  <2> HIDE DEF running
  <2>3. QED
    BY <2>1, <2>2
<1> HIDE DEF AttemptLimit
<1>4. MarkRunning(job) \in Record
  BY <1>1, <1>3 DEF Record, States
<1>5. MarkRunning(job) # NoRecord
  BY <1>4, SchedulerAssumption DEF Record, States
<1>6. QED
  BY <1>1, <1>2, <1>3, <1>4, <1>5 DEF JobRecord

LEMMA InitInv == Init => Inv
<1> SUFFICES ASSUME Init PROVE Inv
  OBVIOUS
<1> USE SchedulerAssumption
<1>1. TypeOK
  BY DEF Init, TypeOK, now, Times, Stages
<1>2. ExclusiveRun
  BY DEF Init, ExclusiveRun, Owns, Enqueued
<1>3. StagesAgree
  BY DEF Init, StagesAgree, Owns, Enqueued
<1>4. QED
  BY <1>1, <1>2, <1>3 DEF Inv

\* The invariant reads the clock only through its bounds.
LEMMA ClockStepInv ==
  ASSUME Inv, Elapse \/ (\E ms \in Advances : Advance(ms)) \/ ResetClock
  PROVE  Inv'
<1> USE SchedulerAssumption
<1>1. /\ UNCHANGED <<storeVars, loopVars>>
      /\ wall' \in Nat /\ offset' \in Nat /\ now' \in Times /\ resets' \in 0 .. MaxResets
  BY DEF Inv, TypeOK, Times, now, Elapse, Advance, ResetClock
<1>2. TypeOK'
  BY <1>1 DEF Inv, TypeOK, storeVars, loopVars
<1>3. ExclusiveRun'
  BY <1>1 DEF Inv, ExclusiveRun, Owns, Answered, Written, Executing, Enqueued, storeVars, loopVars
<1>4. StagesAgree'
  BY <1>1 DEF Inv, StagesAgree, Owns, Answered, Written, Executing, Enqueued, storeVars, loopVars
<1>5. QED
  BY <1>2, <1>3, <1>4 DEF Inv

LEMMA StutterInv == ASSUME Inv, UNCHANGED vars PROVE Inv'
<1>1. UNCHANGED <<storeVars, loopVars, clockVars>>
  BY DEF vars
<1>2. TypeOK'
  BY <1>1 DEF Inv, TypeOK, storeVars, loopVars, clockVars, now
<1>3. ExclusiveRun'
  BY <1>1 DEF Inv, ExclusiveRun, Owns, Answered, Written, Executing, Enqueued, storeVars, loopVars
<1>4. StagesAgree'
  BY <1>1 DEF Inv, StagesAgree, Owns, Answered, Written, Executing, Enqueued, storeVars, loopVars
<1>5. QED
  BY <1>2, <1>3, <1>4 DEF Inv

LEMMA ReadClockInv == ASSUME Inv, NEW p \in Pollers, ReadClock(p) PROVE Inv'
<1>1. /\ pc[p] = "idle" /\ pc' = [pc EXCEPT ![p] = "claim"]
      /\ seen' = [seen EXCEPT ![p] = now]
      /\ UNCHANGED <<store, log, failedAt, wall, offset, resets, held, current>>
  BY DEF ReadClock, storeVars, clockVars
<1>2. TypeOK'
  BY <1>1 DEF Inv, TypeOK, Stages, now
<1>3. \A q \in Pollers, j \in Jobs :
        /\ Executing(q, j)' <=> Executing(q, j)
        /\ Answered(q, j)' <=> Answered(q, j)
        /\ Written(q, j)' <=> Written(q, j)
        /\ Owns(q, j)' <=> Owns(q, j)
  BY <1>1 DEF Inv, TypeOK, Owns, Answered, Written, Executing
<1>4. ExclusiveRun'
  BY <1>1, <1>3 DEF Inv, ExclusiveRun, Enqueued
<1>5. StagesAgree'
  BY <1>1, <1>3 DEF Inv, TypeOK, StagesAgree, Enqueued
<1>6. QED
  BY <1>2, <1>4, <1>5 DEF Inv

\* A claim takes scheduled records only, which no loop owns, and gives each to p.
LEMMA ClaimInv == ASSUME Inv, NEW p \in Pollers, Claim(p) PROVE Inv'
<1> USE SchedulerAssumption
<1> DEFINE due == {j \in Jobs : Due(j, seen[p])}
<1>1. /\ pc[p] = "claim" /\ DOMAIN held[p] = {}
      /\ store' = [j \in Jobs |-> IF j \in due THEN MarkRunning(store[j]) ELSE store[j]]
      /\ held' = [held EXCEPT ![p] = [j \in due |-> MarkRunning(store[j])]]
      /\ pc' = [pc EXCEPT ![p] = IF due = {} THEN "idle" ELSE "next"]
      /\ seen' = [seen EXCEPT ![p] = IF due = {} THEN 0 ELSE @]
      /\ UNCHANGED <<log, failedAt, wall, offset, resets, current>>
  BY DEF Claim, clockVars, Inv, StagesAgree
<1>2. \A j \in due : /\ j \in Jobs /\ Enqueued(j) /\ store[j] \in JobRecord(j) /\ store[j].state = "scheduled"
                     /\ store[j].attempt \in Nat /\ store[j].attempt < AttemptLimit(j)
  BY DEF Due, Inv, TypeOK, StagesAgree, Enqueued, JobRecord, Record
<1>3. \A j \in due : /\ MarkRunning(store[j]) \in JobRecord(j)
                     /\ MarkRunning(store[j]).state = "running"
                     /\ MarkRunning(store[j]).attempt = store[j].attempt + 1
                     /\ MarkRunning(store[j]) # NoRecord
  <2> SUFFICES ASSUME NEW j \in due
               PROVE  /\ MarkRunning(store[j]) \in JobRecord(j)
                      /\ MarkRunning(store[j]).state = "running"
                      /\ MarkRunning(store[j]).attempt = store[j].attempt + 1
                      /\ MarkRunning(store[j]) # NoRecord
    OBVIOUS
  <2>1. QED
    BY <1>2, MarkRunningType
<1>4. /\ DOMAIN held' = Pollers /\ DOMAIN held'[p] = due /\ due \subseteq Jobs
      /\ \A q \in Pollers \ {p} : held'[q] = held[q] /\ pc'[q] = pc[q]
      /\ \A j \in due : held'[p][j] = MarkRunning(store[j]) /\ store'[j] = MarkRunning(store[j])
      /\ \A j \in Jobs \ due : store'[j] = store[j]
      /\ pc'[p] = (IF due = {} THEN "idle" ELSE "next")
  BY <1>1 DEF Inv, TypeOK
<1> HIDE DEF due
<1>5. TypeOK'
  <2>1. \A j \in Jobs : store'[j] \in JobRecord(j) \cup {NoRecord}
    BY <1>3, <1>4 DEF Inv, TypeOK
  <2>2. \A q \in Pollers : /\ DOMAIN held'[q] \subseteq Jobs
                           /\ held'[q] = [j \in DOMAIN held'[q] |-> held'[q][j]]
                           /\ \A j \in DOMAIN held'[q] : held'[q][j] \in JobRecord(j)
    <3>1. /\ DOMAIN held'[p] \subseteq Jobs
          /\ held'[p] = [j \in DOMAIN held'[p] |-> held'[p][j]]
          /\ \A j \in DOMAIN held'[p] : held'[p][j] \in JobRecord(j)
      BY <1>1, <1>3, <1>4 DEF Inv, TypeOK
    <3>2. QED
      BY <1>4, <3>1 DEF Inv, TypeOK
  <2>3. seen' \in [Pollers -> Times] /\ pc' \in [Pollers -> Stages]
    BY <1>1 DEF Inv, TypeOK, Stages, Times
  <2>4. UNCHANGED <<wall, offset, now, resets, current, log, failedAt>> /\ DOMAIN store' = Jobs
    BY <1>1 DEF now
  <2>5. QED
    BY <1>4, <2>1, <2>2, <2>3, <2>4 DEF Inv, TypeOK
<1>6. /\ \A q \in Pollers \ {p}, j \in Jobs :
           /\ Answered(q, j)' <=> Answered(q, j)
           /\ Owns(q, j)' <=> Owns(q, j)
      /\ \A j \in Jobs : ~Answered(p, j)' /\ ~Owns(p, j) /\ (Owns(p, j)' <=> j \in due)
      /\ \A j \in due, q \in Pollers : ~Owns(q, j)
  <2>1. \A q \in Pollers \ {p}, j \in Jobs :
           /\ Answered(q, j)' <=> Answered(q, j)
           /\ Owns(q, j)' <=> Owns(q, j)
    BY <1>1, <1>4 DEF Owns, Answered, Written, Executing
  <2>2. pc'[p] \in {"idle", "next"}
    BY <1>4
  <2>3. \A j \in Jobs : ~Answered(p, j)' /\ ~Owns(p, j) /\ (Owns(p, j)' <=> j \in due)
    BY <1>1, <1>4, <2>2 DEF Owns, Answered, Written, Executing
  <2>4. \A j \in due, q \in Pollers : ~Owns(q, j)
    BY <1>2, <1>4 DEF Inv, ExclusiveRun
  <2>5. QED
    BY <2>1, <2>3, <2>4
<1>7. ExclusiveRun'
  <2> SUFFICES ASSUME NEW j \in Jobs
               PROVE  /\ \A q, r \in Pollers : Owns(q, j)' /\ Owns(r, j)' => q = r
                      /\ (\E q \in Pollers : Owns(q, j)') <=> (Enqueued(j) /\ store[j].state = "running")'
                      /\ \A q \in Pollers : Owns(q, j)' /\ ~Answered(q, j)' => held'[q][j] = store'[j]
    BY DEF ExclusiveRun
  <2>1. CASE j \in due
    BY <1>3, <1>4, <1>6, <2>1 DEF Enqueued
  <2>2. CASE j \notin due
    <3>1. /\ store'[j] = store[j] /\ ~Owns(p, j) /\ ~Owns(p, j)'
          /\ \A q \in Pollers : Owns(q, j)' <=> Owns(q, j)
          /\ \A q \in Pollers : Owns(q, j)' => held'[q] = held[q] /\ (Answered(q, j)' <=> Answered(q, j))
      BY <1>4, <1>6, <2>2
    <3>2. QED
      BY <3>1 DEF Inv, ExclusiveRun, Enqueued
  <2>3. QED
    BY <2>1, <2>2
<1>8. StagesAgree'
  <2>1. ASSUME NEW q \in Pollers
        PROVE  /\ pc'[q] \in {"idle", "claim"} => DOMAIN held'[q] = {}
               /\ pc'[q] \in {"handle", "persist", "announce"} => current'[q] \in DOMAIN held'[q]
    BY <1>1, <1>4 DEF Inv, StagesAgree
  <2>2. ASSUME NEW q \in Pollers, NEW j \in DOMAIN held'[q]
        PROVE  /\ held'[q][j].attempt >= 1
               /\ ~Answered(q, j)' => held'[q][j].state = "running"
               /\ Answered(q, j)' => held'[q][j].state # "running"
               /\ held'[q][j].state = "scheduled" => held'[q][j].attempt < MaxAttempts[j]
               /\ held'[q][j].state = "dead" => held'[q][j].attempt >= MaxAttempts[j]
               /\ Owns(q, j)' => Enqueued(j)' /\ held'[q][j].attempt = store'[j].attempt
    <3>1. CASE q = p
      <4>1. j \in due /\ j \in Jobs /\ held'[q][j] = MarkRunning(store[j])
        BY <1>4, <3>1
      <4>2. ~Answered(q, j)' /\ held'[q][j].state = "running" /\ held'[q][j].attempt >= 1
        <5>1. pc'[p] = "next"
          BY <1>4, <4>1
        <5>2. ~Answered(q, j)'
          BY <3>1, <5>1 DEF Answered, Executing
        <5>3. held'[q][j].state = "running" /\ held'[q][j].attempt = store[j].attempt + 1
          BY <1>3, <4>1
        <5>4. QED
          BY <1>2, <4>1, <5>2, <5>3
      <4>3. Enqueued(j)' /\ held'[q][j].attempt = store'[j].attempt
        BY <1>3, <1>4, <4>1 DEF Enqueued
      <4>4. QED
        BY <4>2, <4>3
    <3>2. CASE q # p
      <4>1. j \in DOMAIN held[q] /\ j \in Jobs /\ held'[q][j] = held[q][j]
        BY <1>4, <3>2 DEF Inv, TypeOK
      <4>2. Owns(q, j) => j \notin due /\ store'[j] = store[j]
        BY <1>4, <1>6, <4>1
      <4>3. QED
        BY <1>6, <3>2, <4>1, <4>2 DEF Inv, StagesAgree, Enqueued
    <3>3. QED
      BY <3>1, <3>2
  <2>3. ASSUME NEW j \in Jobs, Enqueued(j)', store'[j].state = "scheduled"
        PROVE  store'[j].attempt < AttemptLimit(j)
    BY <1>3, <1>4, <2>3 DEF Inv, StagesAgree, Enqueued
  <2>4. QED
    BY <2>1, <2>2, <2>3 DEF StagesAgree
<1>9. QED
  BY <1>5, <1>7, <1>8 DEF Inv

\* What a loop puts on the bus is a transition of the job's.
LEMMA TransitionType ==
  ASSUME NEW j \in Jobs, NEW job \in JobRecord(j), NEW from \in States, NEW to \in States
  PROVE  Transition(job, from, to) \in Transitions(j)
<1>1. job.attempt \in 0 .. AttemptLimit(j)
  BY AttemptLimitType DEF JobRecord, Record
<1>2. QED
  BY <1>1 DEF Transition, Transitions

LEMMA EmitType ==
  ASSUME TypeOK, NEW j \in Jobs, NEW t \in Transitions(j), Emit(j, t)
  PROVE  DOMAIN log' = Jobs /\ \A k \in Jobs : log'[k] \in Seq(Transitions(k))
<1>1. /\ log' = [log EXCEPT ![j] = Append(log[j], t)]
      /\ DOMAIN log = Jobs /\ log[j] \in Seq(Transitions(j))
  BY DEF Emit, TypeOK
<1>2. Append(log[j], t) \in Seq(Transitions(j))
  BY <1>1
<1>3. DOMAIN log' = Jobs /\ log'[j] = Append(log[j], t) /\ \A k \in Jobs \ {j} : log'[k] = log[k]
  BY <1>1
<1>4. QED
  BY <1>2, <1>3 DEF TypeOK

\* Picking a claimed copy and announcing it changes nobody's ownership.
LEMMA StartInv == ASSUME Inv, NEW p \in Pollers, Start(p) PROVE Inv'
<1>1. PICK j \in DOMAIN held[p] :
        /\ pc[p] = "next"
        /\ current' = [current EXCEPT ![p] = j]
        /\ Emit(j, Transition(held[p][j], "scheduled", "running"))
        /\ pc' = [pc EXCEPT ![p] = "handle"]
        /\ UNCHANGED <<store, failedAt, wall, offset, resets, seen, held>>
  BY DEF Start, clockVars
<1>2. j \in Jobs /\ held[p][j] \in JobRecord(j)
  BY DEF Inv, TypeOK
<1>3. TypeOK'
  <2>1. Transition(held[p][j], "scheduled", "running") \in Transitions(j)
    BY <1>2, TransitionType DEF States
  <2>2. DOMAIN log' = Jobs /\ \A k \in Jobs : log'[k] \in Seq(Transitions(k))
    BY <1>1, <1>2, <2>1, EmitType DEF Inv
  <2>3. current' \in [Pollers -> Jobs \cup {NoJob}] /\ pc' \in [Pollers -> Stages]
    BY <1>1, <1>2 DEF Inv, TypeOK, Stages
  <2>4. QED
    BY <1>1, <2>2, <2>3 DEF Inv, TypeOK, now
<1>4. \A q \in Pollers, k \in Jobs :
        /\ Answered(q, k)' <=> Answered(q, k)
        /\ Owns(q, k)' <=> Owns(q, k)
  BY <1>1 DEF Inv, TypeOK, Owns, Answered, Written, Executing
<1>5. ExclusiveRun'
  BY <1>1, <1>4 DEF Inv, ExclusiveRun, Enqueued
<1>6. StagesAgree'
  <2>1. \A q \in Pollers : /\ pc'[q] \in {"idle", "claim"} => DOMAIN held'[q] = {}
                           /\ pc'[q] \in {"handle", "persist", "announce"}
                                => current'[q] \in DOMAIN held'[q]
    BY <1>1 DEF Inv, TypeOK, StagesAgree
  <2>2. QED
    BY <1>1, <1>4, <2>1 DEF Inv, TypeOK, StagesAgree, Enqueued
<1>7. QED
  BY <1>3, <1>5, <1>6 DEF Inv

\* The handler's answer changes p's copy only, which the store no longer has to match.
LEMMA HandleInv == ASSUME Inv, NEW p \in Pollers, Handle(p) PROVE Inv'
<1>0. PICK j \in Jobs : j = current[p] /\ j \in DOMAIN held[p] /\ held[p][j] \in JobRecord(j)
  BY DEF Inv, TypeOK, StagesAgree, Handle
<1>1. PICK ok \in Outcomes[j] :
        /\ pc[p] = "handle"
        /\ held' = [held EXCEPT ![p][j] = Settled(p, j, held[p][j], ok)]
        /\ failedAt' = IF ok THEN failedAt ELSE [failedAt EXCEPT ![j] = now]
        /\ pc' = [pc EXCEPT ![p] = "persist"]
        /\ UNCHANGED <<store, log, wall, offset, resets, seen, current>>
  BY <1>0 DEF Handle, clockVars
<1>2. j \in DOMAIN held[p] /\ current[p] = j /\ current'[p] = j /\ held[p][j] \in JobRecord(j)
  BY <1>0, <1>1
<1>3. ok \in BOOLEAN
  BY <1>1, <1>2, SchedulerAssumption
<1>4. now \in Nat /\ now \in Times
  BY DEF Inv, TypeOK, Times, now
<1> DEFINE done == Settled(p, j, held[p][j], ok)
<1>5. /\ done \in JobRecord(j) /\ done.state # "running" /\ done.attempt = held[p][j].attempt
      /\ done.state = "scheduled" => held[p][j].attempt < MaxAttempts[j]
      /\ done.state = "dead" => held[p][j].attempt >= MaxAttempts[j]
  BY <1>2, <1>3, <1>4, SettledType
<1>6. /\ DOMAIN held' = Pollers
      /\ \A q \in Pollers : DOMAIN held'[q] = DOMAIN held[q]
      /\ \A q \in Pollers \ {p} : held'[q] = held[q] /\ pc'[q] = pc[q]
      /\ held'[p] = [held[p] EXCEPT ![j] = done]
      /\ held'[p][j] = done
      /\ \A k \in DOMAIN held[p] \ {j} : held'[p][k] = held[p][k]
      /\ pc'[p] = "persist"
  BY <1>1, <1>2 DEF Inv, TypeOK
<1> HIDE DEF done
<1>7. TypeOK'
  <2>1. \A q \in Pollers : /\ DOMAIN held'[q] \subseteq Jobs
                           /\ held'[q] = [k \in DOMAIN held'[q] |-> held'[q][k]]
                           /\ \A k \in DOMAIN held'[q] : held'[q][k] \in JobRecord(k)
    BY <1>5, <1>6 DEF Inv, TypeOK
  <2>2. failedAt' \in [Jobs -> Times] /\ pc' \in [Pollers -> Stages]
    BY <1>1, <1>2, <1>4 DEF Inv, TypeOK, Stages
  <2>3. QED
    BY <1>1, <1>6, <2>1, <2>2 DEF Inv, TypeOK, now
<1>8. /\ \A q \in Pollers, k \in Jobs : Owns(q, k)' <=> Owns(q, k)
      /\ \A q \in Pollers \ {p}, k \in Jobs : Answered(q, k)' <=> Answered(q, k)
      /\ \A k \in Jobs \ {j} : ~Answered(p, k)' /\ ~Answered(p, k)
      /\ Answered(p, j)'
  <2>1. \A q \in Pollers \ {p}, k \in Jobs :
          /\ Owns(q, k)' <=> Owns(q, k)
          /\ Answered(q, k)' <=> Answered(q, k)
    BY <1>1, <1>6 DEF Owns, Answered, Written, Executing
  <2>2. \A k \in Jobs : Owns(p, k)' <=> Owns(p, k)
    BY <1>1, <1>6 DEF Owns, Written, Executing
  <2>3. /\ \A k \in Jobs \ {j} : ~Answered(p, k)' /\ ~Answered(p, k)
        /\ Answered(p, j)'
    BY <1>1, <1>2, <1>6 DEF Answered, Executing
  <2>4. QED
    BY <2>1, <2>2, <2>3
<1>9. ExclusiveRun'
  <2>1. ASSUME NEW q \in Pollers, NEW k \in Jobs, Owns(q, k)', ~Answered(q, k)'
        PROVE  held'[q][k] = store'[k]
    <3>1. Owns(q, k) /\ ~(q = p /\ k = j)
      BY <1>8, <2>1
    <3>2. k \in DOMAIN held[q]
      BY <3>1 DEF Owns
    <3>3. ~Answered(q, k)
      <4>1. CASE q = p
        BY <1>8, <3>1, <4>1
      <4>2. CASE q # p
        <5>1. Answered(q, k)' <=> Answered(q, k)
          BY <1>8, <4>2
        <5>2. QED
          BY <2>1, <5>1
      <4>3. QED
        BY <4>1, <4>2
    <3>4. held'[q][k] = held[q][k]
      BY <1>6, <3>1, <3>2
    <3>5. QED
      BY <1>1, <3>1, <3>3, <3>4 DEF Inv, ExclusiveRun
  <2>2. QED
    BY <1>1, <1>8, <2>1 DEF Inv, ExclusiveRun, Enqueued
<1>10. StagesAgree'
  <2>1. ASSUME NEW q \in Pollers
        PROVE  /\ pc'[q] \in {"idle", "claim"} => DOMAIN held'[q] = {}
               /\ pc'[q] \in {"handle", "persist", "announce"} => current'[q] \in DOMAIN held'[q]
    BY <1>1, <1>2, <1>6 DEF Inv, StagesAgree
  <2>2. ASSUME NEW q \in Pollers, NEW k \in DOMAIN held'[q]
        PROVE  /\ held'[q][k].attempt >= 1
               /\ ~Answered(q, k)' => held'[q][k].state = "running"
               /\ Answered(q, k)' => held'[q][k].state # "running"
               /\ held'[q][k].state = "scheduled" => held'[q][k].attempt < MaxAttempts[k]
               /\ held'[q][k].state = "dead" => held'[q][k].attempt >= MaxAttempts[k]
               /\ Owns(q, k)' => Enqueued(k)' /\ held'[q][k].attempt = store'[k].attempt
    <3>1. k \in DOMAIN held[q] /\ k \in Jobs
      BY <1>6 DEF Inv, TypeOK
    <3>2. CASE q = p /\ k = j
      BY <1>1, <1>2, <1>5, <1>6, <1>8, <3>2 DEF Inv, StagesAgree, Enqueued
    <3>3. CASE ~(q = p /\ k = j)
      <4>1. held'[q][k] = held[q][k]
        BY <1>6, <3>1, <3>3
      <4>2. Answered(q, k)' <=> Answered(q, k)
        <5>1. CASE q = p
          BY <1>8, <3>1, <3>3, <5>1
        <5>2. CASE q # p
          BY <1>8, <3>1, <5>2
        <5>3. QED
          BY <5>1, <5>2
      <4>3. QED
        BY <1>1, <1>8, <3>1, <4>1, <4>2 DEF Inv, StagesAgree, Enqueued
    <3>4. QED
      BY <3>2, <3>3
  <2>3. QED
    BY <1>1, <2>1, <2>2 DEF Inv, StagesAgree, Enqueued
<1>11. QED
  BY <1>7, <1>9, <1>10 DEF Inv

\* Writing the outcome gives the job up: from here on it may be claimed again.
LEMMA PersistInv == ASSUME Inv, NEW p \in Pollers, Persist(p) PROVE Inv'
<1>1. PICK j \in Jobs : j = current[p] /\ j \in DOMAIN held[p] /\ held[p][j] \in JobRecord(j)
  BY DEF Inv, TypeOK, StagesAgree, Persist
<1>2. /\ pc[p] = "persist" /\ pc' = [pc EXCEPT ![p] = "announce"]
      /\ store' = [store EXCEPT ![j] = held[p][j]]
      /\ UNCHANGED <<log, failedAt, wall, offset, resets, seen, held, current>>
  BY <1>1 DEF Persist, Put, clockVars
<1>3. /\ current[p] = j /\ pc'[p] = "announce" /\ \A q \in Pollers \ {p} : pc'[q] = pc[q]
      /\ store'[j] = held[p][j] /\ \A k \in Jobs \ {j} : store'[k] = store[k]
  BY <1>1, <1>2 DEF Inv, TypeOK
<1>4. held[p][j].state # "running" /\ store'[j] # NoRecord
  <2>1. Answered(p, j)
    BY <1>1, <1>2 DEF Answered, Executing
  <2>2. held[p][j].state # "running"
    BY <1>1, <2>1 DEF Inv, StagesAgree
  <2>3. held[p][j] # NoRecord
    BY <1>1, SchedulerAssumption DEF JobRecord, Record, States
  <2>4. QED
    BY <1>3, <2>2, <2>3
<1>5. /\ \A q \in Pollers, k \in Jobs : Answered(q, k)' <=> Answered(q, k)
      /\ \A q \in Pollers \ {p}, k \in Jobs : Owns(q, k)' <=> Owns(q, k)
      /\ \A k \in Jobs \ {j} : Owns(p, k)' <=> Owns(p, k)
      /\ Owns(p, j)
      /\ \A q \in Pollers : ~Owns(q, j)'
  <2>1. \A q \in Pollers \ {p}, k \in Jobs : /\ Answered(q, k)' <=> Answered(q, k)
                                             /\ Owns(q, k)' <=> Owns(q, k)
    BY <1>2, <1>3 DEF Owns, Answered, Written, Executing
  <2>2. \A k \in Jobs : Answered(p, k)' <=> Answered(p, k)
    BY <1>2, <1>3 DEF Answered, Executing
  <2>3. \A k \in Jobs \ {j} : Owns(p, k)' <=> Owns(p, k)
    BY <1>2, <1>3 DEF Owns, Written, Executing
  <2>4. Owns(p, j) /\ ~Owns(p, j)'
    BY <1>1, <1>2, <1>3 DEF Owns, Written, Executing
  <2>5. \A q \in Pollers \ {p} : ~Owns(q, j)
    BY <2>4 DEF Inv, ExclusiveRun
  <2>6. \A q \in Pollers : ~Owns(q, j)'
    BY <2>1, <2>4, <2>5
  <2>7. QED
    BY <2>1, <2>2, <2>3, <2>4, <2>6
<1>6. TypeOK'
  <2>1. DOMAIN store' = Jobs /\ \A k \in Jobs : store'[k] \in JobRecord(k) \cup {NoRecord}
    BY <1>1, <1>2 DEF Inv, TypeOK
  <2>2. pc' \in [Pollers -> Stages]
    BY <1>2 DEF Inv, TypeOK, Stages
  <2>3. QED
    BY <1>2, <2>1, <2>2 DEF Inv, TypeOK, now
<1>7. ExclusiveRun'
  <2> SUFFICES ASSUME NEW k \in Jobs
               PROVE  /\ \A q, r \in Pollers : Owns(q, k)' /\ Owns(r, k)' => q = r
                      /\ (\E q \in Pollers : Owns(q, k)') <=> (Enqueued(k) /\ store[k].state = "running")'
                      /\ \A q \in Pollers : Owns(q, k)' /\ ~Answered(q, k)' => held'[q][k] = store'[k]
    BY DEF ExclusiveRun
  <2>1. CASE k = j
    BY <1>3, <1>4, <1>5, <2>1
  <2>2. CASE k # j
    <3>1. \A q \in Pollers : Owns(q, k)' <=> Owns(q, k)
      BY <1>5, <2>2
    <3>2. QED
      BY <1>2, <1>3, <1>5, <2>2, <3>1 DEF Inv, ExclusiveRun, Enqueued
  <2>3. QED
    BY <2>1, <2>2
<1>8. StagesAgree'
  <2>1. ASSUME NEW q \in Pollers
        PROVE  /\ pc'[q] \in {"idle", "claim"} => DOMAIN held'[q] = {}
               /\ pc'[q] \in {"handle", "persist", "announce"} => current'[q] \in DOMAIN held'[q]
    BY <1>1, <1>2, <1>3 DEF Inv, StagesAgree
  <2>2. ASSUME NEW q \in Pollers, NEW k \in DOMAIN held'[q]
        PROVE  /\ held'[q][k].attempt >= 1
               /\ ~Answered(q, k)' => held'[q][k].state = "running"
               /\ Answered(q, k)' => held'[q][k].state # "running"
               /\ held'[q][k].state = "scheduled" => held'[q][k].attempt < MaxAttempts[k]
               /\ held'[q][k].state = "dead" => held'[q][k].attempt >= MaxAttempts[k]
               /\ Owns(q, k)' => Enqueued(k)' /\ held'[q][k].attempt = store'[k].attempt
    <3>1. k \in DOMAIN held[q] /\ k \in Jobs
      BY <1>2 DEF Inv, TypeOK
    <3>2. Owns(q, k)' => k # j
      BY <1>5
    <3>3. Owns(q, k)' => Owns(q, k) /\ store'[k] = store[k]
      <4>1. CASE q = p
        BY <1>3, <1>5, <3>1, <3>2, <4>1
      <4>2. CASE q # p
        BY <1>3, <1>5, <3>1, <3>2, <4>2
      <4>3. QED
        BY <4>1, <4>2
    <3>4. QED
      BY <1>2, <1>5, <3>1, <3>3 DEF Inv, StagesAgree, Enqueued
  <2>3. ASSUME NEW k \in Jobs, Enqueued(k)', store'[k].state = "scheduled"
        PROVE  store'[k].attempt < AttemptLimit(k)
    <3>1. CASE k = j
      <4>1. store'[k].attempt < MaxAttempts[k] /\ store'[k].attempt \in Nat /\ MaxAttempts[k] \in Nat
        BY <1>1, <1>3, <2>3, <3>1, SchedulerAssumption DEF Inv, StagesAgree, JobRecord, Record
      <4>2. QED
        BY <4>1 DEF AttemptLimit
    <3>2. CASE k # j
      BY <1>3, <2>3, <3>2 DEF Inv, StagesAgree, Enqueued
    <3>3. QED
      BY <3>1, <3>2
  <2>4. QED
    BY <2>1, <2>2, <2>3 DEF StagesAgree
<1>9. QED
  BY <1>6, <1>7, <1>8 DEF Inv

\* Dropping the copy of a job already written takes nothing from anyone.
LEMMA AnnounceInv == ASSUME Inv, NEW p \in Pollers, Announce(p) PROVE Inv'
<1>1. PICK j \in Jobs : j = current[p] /\ j \in DOMAIN held[p] /\ held[p][j] \in JobRecord(j)
  BY DEF Inv, TypeOK, StagesAgree, Announce
<1> DEFINE rest == DOMAIN held[p] \ {j}
<1>2. /\ pc[p] = "announce"
      /\ Emit(j, Transition(held[p][j], "running", held[p][j].state))
      /\ held' = [held EXCEPT ![p] = [k \in rest |-> held[p][k]]]
      /\ current' = [current EXCEPT ![p] = NoJob]
      /\ pc' = [pc EXCEPT ![p] = IF rest = {} THEN "idle" ELSE "next"]
      /\ seen' = [seen EXCEPT ![p] = IF rest = {} THEN 0 ELSE @]
      /\ UNCHANGED <<store, failedAt, wall, offset, resets>>
  BY <1>1 DEF Announce, clockVars
<1>3. /\ DOMAIN held' = Pollers
      /\ \A q \in Pollers \ {p} : held'[q] = held[q] /\ pc'[q] = pc[q] /\ current'[q] = current[q]
      /\ held'[p] = [k \in rest |-> held[p][k]]
      /\ DOMAIN held'[p] = rest /\ \A k \in rest : held'[p][k] = held[p][k]
      /\ pc'[p] = (IF rest = {} THEN "idle" ELSE "next")
      /\ pc'[p] \in {"idle", "next"}
      /\ rest \subseteq Jobs /\ j \notin rest
      /\ rest \subseteq DOMAIN held[p]
      /\ current[p] = j
  BY <1>1, <1>2 DEF Inv, TypeOK
<1>4. TypeOK'
  <2>1. Transition(held[p][j], "running", held[p][j].state) \in Transitions(j)
    BY <1>1, TransitionType DEF States, JobRecord, Record
  <2>2. DOMAIN log' = Jobs /\ \A k \in Jobs : log'[k] \in Seq(Transitions(k))
    BY <1>2, <2>1, EmitType DEF Inv
  <2>3. /\ current' \in [Pollers -> Jobs \cup {NoJob}] /\ pc' \in [Pollers -> Stages]
        /\ seen' \in [Pollers -> Times]
    BY <1>2, SchedulerAssumption DEF Inv, TypeOK, Stages, Times
  <2>4. \A q \in Pollers : /\ DOMAIN held'[q] \subseteq Jobs
                           /\ held'[q] = [k \in DOMAIN held'[q] |-> held'[q][k]]
                           /\ \A k \in DOMAIN held'[q] : held'[q][k] \in JobRecord(k)
    <3>1. /\ DOMAIN held'[p] \subseteq Jobs
          /\ held'[p] = [k \in DOMAIN held'[p] |-> held'[p][k]]
          /\ \A k \in DOMAIN held'[p] : held'[p][k] \in JobRecord(k)
      BY <1>3 DEF Inv, TypeOK
    <3>2. QED
      BY <1>3, <3>1 DEF Inv, TypeOK
  <2>5. QED
    BY <1>2, <1>3, <2>2, <2>3, <2>4 DEF Inv, TypeOK, now
<1> HIDE DEF rest
<1>5. /\ \A q \in Pollers \ {p}, k \in Jobs : /\ Answered(q, k)' <=> Answered(q, k)
                                              /\ Owns(q, k)' <=> Owns(q, k)
      /\ \A k \in Jobs : ~Answered(p, k)' /\ (Owns(p, k)' <=> Owns(p, k))
      /\ \A k \in rest : ~Answered(p, k) /\ Owns(p, k)
  <2>1. \A q \in Pollers \ {p}, k \in Jobs : /\ Answered(q, k)' <=> Answered(q, k)
                                             /\ Owns(q, k)' <=> Owns(q, k)
    BY <1>3 DEF Owns, Answered, Written, Executing
  <2>2. \A k \in Jobs : ~Answered(p, k)' /\ (Owns(p, k)' <=> k \in rest)
    BY <1>3 DEF Owns, Answered, Written, Executing
  <2>3. \A k \in Jobs : Owns(p, k) <=> k \in rest
    BY <1>1, <1>2 DEF Owns, Written, Executing, rest
  <2>4. \A k \in rest : ~Answered(p, k)
    BY <1>3 DEF Answered, Executing
  <2>5. QED
    BY <1>3, <2>1, <2>2, <2>3, <2>4
<1>6. ExclusiveRun'
  <2>1. \A q \in Pollers, k \in Jobs : Owns(q, k)' <=> Owns(q, k)
    BY <1>5
  <2>2. ASSUME NEW q \in Pollers, NEW k \in Jobs, Owns(q, k)', ~Answered(q, k)'
        PROVE  held'[q][k] = store'[k]
    <3>1. CASE q = p
      <4>1. Owns(p, k) /\ k \in rest
        <5>1. Owns(p, k)
          BY <2>1, <2>2, <3>1
        <5>2. QED
          BY <1>1, <1>2, <5>1 DEF Owns, Written, Executing, rest
      <4>2. QED
        BY <1>2, <1>3, <1>5, <3>1, <4>1 DEF Inv, ExclusiveRun
    <3>2. CASE q # p
      <4>1. held'[q] = held[q] /\ Owns(q, k) /\ ~Answered(q, k)
        BY <1>3, <1>5, <2>2, <3>2
      <4>2. QED
        BY <1>2, <4>1 DEF Inv, ExclusiveRun
    <3>3. QED
      BY <3>1, <3>2
  <2>3. QED
    BY <1>2, <2>1, <2>2 DEF Inv, ExclusiveRun, Enqueued
<1>7. StagesAgree'
  <2>1. ASSUME NEW q \in Pollers
        PROVE  /\ pc'[q] \in {"idle", "claim"} => DOMAIN held'[q] = {}
               /\ pc'[q] \in {"handle", "persist", "announce"} => current'[q] \in DOMAIN held'[q]
    BY <1>3 DEF Inv, StagesAgree
  <2>2. ASSUME NEW q \in Pollers, NEW k \in DOMAIN held'[q]
        PROVE  /\ held'[q][k].attempt >= 1
               /\ ~Answered(q, k)' => held'[q][k].state = "running"
               /\ Answered(q, k)' => held'[q][k].state # "running"
               /\ held'[q][k].state = "scheduled" => held'[q][k].attempt < MaxAttempts[k]
               /\ held'[q][k].state = "dead" => held'[q][k].attempt >= MaxAttempts[k]
               /\ Owns(q, k)' => Enqueued(k)' /\ held'[q][k].attempt = store'[k].attempt
    <3>1. k \in DOMAIN held[q] /\ k \in Jobs /\ held'[q][k] = held[q][k]
      <4>1. CASE q = p
        BY <1>3, <4>1
      <4>2. CASE q # p
        BY <1>3, <4>2 DEF Inv, TypeOK
      <4>3. QED
        BY <4>1, <4>2
    <3>2. Owns(q, k)' <=> Owns(q, k)
      BY <1>5, <3>1
    <3>3. Answered(q, k)' <=> Answered(q, k)
      <4>1. CASE q = p
        <5>1. k \in rest
          BY <1>3, <4>1
        <5>2. QED
          BY <1>5, <3>1, <4>1, <5>1
      <4>2. CASE q # p
        BY <1>5, <3>1, <4>2
      <4>3. QED
        BY <4>1, <4>2
    <3>4. QED
      BY <1>2, <3>1, <3>2, <3>3 DEF Inv, StagesAgree, Enqueued
  <2>3. QED
    BY <1>2, <2>1, <2>2 DEF Inv, StagesAgree, Enqueued
<1>8. QED
  BY <1>4, <1>6, <1>7 DEF Inv

\* A new record is scheduled, untried, and nobody's.
LEMMA EnqueueInv ==
  ASSUME Inv, NEW j \in Jobs, NEW delay \in Delays, Enqueue(j, delay)
  PROVE  Inv'
<1> DEFINE new == [state |-> "scheduled", attempt |-> 0, dueAt |-> now + delay]
<1>1. /\ store[j] = NoRecord /\ store' = [store EXCEPT ![j] = new]
      /\ UNCHANGED <<log, failedAt, wall, offset, resets, pc, seen, held, current>>
  BY DEF Enqueue, Put, clockVars, loopVars
<1>2. new \in JobRecord(j) /\ new # NoRecord /\ 0 < AttemptLimit(j)
  <2>1. now + delay \in Nat
    BY SchedulerAssumption DEF Inv, TypeOK, now
  <2>2. new \in Record
    BY <2>1 DEF Record, States
  <2>3. new # NoRecord
    BY <2>2, SchedulerAssumption DEF Record, States
  <2>4. QED
    BY <2>2, <2>3, AttemptLimitType DEF JobRecord
<1>3. /\ store'[j] = new /\ \A k \in Jobs \ {j} : store'[k] = store[k]
      /\ DOMAIN store' = Jobs
      /\ new.state = "scheduled" /\ new.attempt = 0
  BY <1>1 DEF Inv, TypeOK
<1> HIDE DEF new
<1>4. TypeOK'
  BY <1>1, <1>2, <1>3 DEF Inv, TypeOK, now
<1>5. \A q \in Pollers, k \in Jobs :
        /\ Answered(q, k)' <=> Answered(q, k)
        /\ Owns(q, k)' <=> Owns(q, k)
  BY <1>1 DEF Owns, Answered, Written, Executing
<1>6. \A q \in Pollers : ~Owns(q, j)
  BY <1>1 DEF Inv, ExclusiveRun, Enqueued
<1>7. ExclusiveRun'
  BY <1>1, <1>2, <1>3, <1>5, <1>6 DEF Inv, ExclusiveRun, Enqueued
<1>8. StagesAgree'
  <2>1. ASSUME NEW q \in Pollers, NEW k \in DOMAIN held[q]
        PROVE  Owns(q, k)' => Enqueued(k)' /\ held[q][k].attempt = store'[k].attempt
    <3>1. k \in Jobs
      BY DEF Inv, TypeOK
    <3>2. Owns(q, k)' => Owns(q, k) /\ k # j
      BY <1>5, <1>6, <3>1
    <3>3. QED
      BY <1>3, <3>1, <3>2 DEF Inv, StagesAgree, Enqueued
  <2>2. \A q \in Pollers : \A k \in DOMAIN held[q] : k \in Jobs
    BY DEF Inv, TypeOK
  <2>3. QED
    BY <1>1, <1>2, <1>3, <1>5, <2>1, <2>2 DEF Inv, StagesAgree, Enqueued
<1>9. QED
  BY <1>4, <1>7, <1>8 DEF Inv

-----------------------------------------------------------------------------
LEMMA PollInv == ASSUME Inv, NEW p \in Pollers, Poll(p) PROVE Inv'
<1>1. QED
  BY ReadClockInv, ClaimInv, StartInv, HandleInv, PersistInv, AnnounceInv DEF Poll

LEMMA NextInv == Inv /\ [Next]_vars => Inv'
<1> SUFFICES ASSUME Inv, [Next]_vars PROVE Inv'
  OBVIOUS
<1>1. CASE \E p \in Pollers : Poll(p)
  BY <1>1, PollInv
<1>2. CASE \E j \in Jobs, delay \in Delays : Enqueue(j, delay)
  BY <1>2, EnqueueInv
<1>3. CASE Elapse \/ (\E ms \in Advances : Advance(ms)) \/ ResetClock
  BY <1>3, ClockStepInv
<1>4. CASE UNCHANGED vars
  BY <1>4, StutterInv
<1>5. QED
  BY <1>1, <1>2, <1>3, <1>4 DEF Next

\* The inductive invariant holds in every behaviour of the scheduler.
THEOREM SchedulerInv == Spec => []Inv
<1>1. QED
  BY InitInv, NextInv, PTL DEF Spec

\* Type correctness, with the limit on attempts it includes.
THEOREM SchedulerTypeOK == Spec => []TypeOK
<1>1. Inv => TypeOK
  BY DEF Inv
<1>2. QED
  BY <1>1, SchedulerInv, PTL

\* Two poll loops over one store never both hold the same job, whatever their number
\* (the JobStore contract, store.rs).
THEOREM SchedulerExclusiveRun == Spec => []ExclusiveRun
<1>1. Inv => ExclusiveRun
  BY DEF Inv
<1>2. QED
  BY <1>1, SchedulerInv, PTL

\* What each stage of a poll loop implies about its copies and the stored records.
THEOREM SchedulerStagesAgree == Spec => []StagesAgree
<1>1. Inv => StagesAgree
  BY DEF Inv
<1>2. QED
  BY <1>1, SchedulerInv, PTL

-----------------------------------------------------------------------------
(* The scheduler implements JobLifecycle: a claim begins an attempt of all  *)
(* it takes, a write back ends one, an enqueue schedules one; every other   *)
(* step leaves the stored phases and attempt counts alone.                  *)

Phase(j) == IF store[j] = NoRecord THEN "absent" ELSE store[j].state
Attempts(j) == IF store[j] = NoRecord THEN 0 ELSE store[j].attempt

LEMMA InitRefines == Init => Lifecycle!LifecycleInit
<1>1. QED
  BY DEF Init, Lifecycle!LifecycleInit

LEMMA ClaimBegins ==
  ASSUME Inv, NEW p \in Pollers, Claim(p)
  PROVE  \E S \in SUBSET Jobs : Lifecycle!Begun(S)
<1>1. PICK S \in SUBSET Jobs :
        /\ S = {j \in Jobs : Due(j, seen[p])}
        /\ store' = [j \in Jobs |-> IF j \in S THEN MarkRunning(store[j]) ELSE store[j]]
  BY DEF Claim
<1>2. \A j \in S : /\ j \in Jobs /\ store[j] # NoRecord /\ store[j] \in JobRecord(j)
                   /\ store[j].state = "scheduled" /\ store[j].attempt < AttemptLimit(j)
  BY <1>1 DEF Due, Inv, TypeOK, StagesAgree, Enqueued
<1>3. \A j \in S : /\ Phase(j) = "scheduled" /\ Phase(j)' = "running"
                   /\ Attempts(j)' = Attempts(j) + 1
  <2> SUFFICES ASSUME NEW j \in S
               PROVE  /\ Phase(j) = "scheduled" /\ Phase(j)' = "running"
                      /\ Attempts(j)' = Attempts(j) + 1
    OBVIOUS
  <2>1. store'[j] = MarkRunning(store[j])
    BY <1>1
  <2>2. /\ store'[j] # NoRecord /\ store'[j].state = "running"
        /\ store'[j].attempt = store[j].attempt + 1
    BY <1>2, <2>1, MarkRunningType
  <2>3. QED
    BY <1>2, <2>2 DEF Phase, Attempts
<1>4. \A j \in Jobs \ S : Phase(j)' = Phase(j) /\ Attempts(j)' = Attempts(j)
  BY <1>1 DEF Phase, Attempts
<1>5. Lifecycle!Begun(S)
  BY <1>3, <1>4 DEF Lifecycle!Begun, Phase, Attempts
<1>6. QED
  BY <1>5

LEMMA PersistEnds ==
  ASSUME Inv, NEW p \in Pollers, Persist(p)
  PROVE  \E j \in Jobs, to \in Lifecycle!Terminal \cup {"scheduled"} : Lifecycle!Ended(j, to)
<1>1. PICK j \in Jobs : j = current[p] /\ j \in DOMAIN held[p] /\ held[p][j] \in JobRecord(j)
  BY DEF Inv, TypeOK, StagesAgree, Persist
<1>2. pc[p] = "persist" /\ store' = [store EXCEPT ![j] = held[p][j]]
  BY <1>1 DEF Persist, Put
<1>3. Owns(p, j) /\ Answered(p, j)
  BY <1>1, <1>2 DEF Owns, Answered, Written, Executing
<1>4. /\ store[j] # NoRecord /\ store[j].state = "running"
      /\ held[p][j].attempt = store[j].attempt /\ held[p][j].state # "running"
      /\ held[p][j].state = "scheduled" => held[p][j].attempt < MaxAttempts[j]
      /\ held[p][j].state = "dead" => held[p][j].attempt >= MaxAttempts[j]
      /\ held[p][j].state \in States /\ held[p][j] # NoRecord
  <2>1. store[j] # NoRecord /\ store[j].state = "running"
    BY <1>3 DEF Inv, ExclusiveRun, Enqueued
  <2>2. /\ held[p][j].attempt = store[j].attempt /\ held[p][j].state # "running"
        /\ held[p][j].state = "scheduled" => held[p][j].attempt < MaxAttempts[j]
        /\ held[p][j].state = "dead" => held[p][j].attempt >= MaxAttempts[j]
    BY <1>1, <1>3 DEF Inv, StagesAgree
  <2>3. held[p][j].state \in States /\ held[p][j] # NoRecord
    BY <1>1, SchedulerAssumption DEF JobRecord, Record, States
  <2>4. QED
    BY <2>1, <2>2, <2>3
<1>5. PICK to \in Lifecycle!Terminal \cup {"scheduled"} : to = held[p][j].state
  BY <1>4 DEF Lifecycle!Terminal, States
<1>6. /\ Phase(j) = "running" /\ Phase(j)' = to /\ Attempts(j)' = Attempts(j)
      /\ Attempts(j) = held[p][j].attempt
      /\ \A k \in Jobs \ {j} : Phase(k)' = Phase(k) /\ Attempts(k)' = Attempts(k)
  BY <1>2, <1>4, <1>5 DEF Phase, Attempts, Inv, TypeOK
<1>7. Lifecycle!Ended(j, to)
  BY <1>4, <1>5, <1>6 DEF Lifecycle!Ended, Phase, Attempts
<1>8. QED
  BY <1>7

LEMMA EnqueueSchedules ==
  ASSUME Inv, NEW j \in Jobs, NEW delay \in Delays, Enqueue(j, delay)
  PROVE  Lifecycle!Enqueued(j)
<1>1. PICK new \in Record : /\ new.state = "scheduled" /\ new.attempt = 0
                            /\ store[j] = NoRecord /\ store' = [store EXCEPT ![j] = new]
  <2>1. now + delay \in Nat
    BY SchedulerAssumption DEF Inv, TypeOK, now
  <2>2. [state |-> "scheduled", attempt |-> 0, dueAt |-> now + delay] \in Record
    BY <2>1 DEF Record, States
  <2>3. QED
    BY <2>2 DEF Enqueue, Put
<1>2. new # NoRecord
  BY SchedulerAssumption DEF Record, States
<1>3. /\ Phase(j) = "absent" /\ Phase(j)' = "scheduled" /\ Attempts(j)' = Attempts(j)
      /\ \A k \in Jobs \ {j} : Phase(k)' = Phase(k) /\ Attempts(k)' = Attempts(k)
  BY <1>1, <1>2 DEF Phase, Attempts, Inv, TypeOK
<1>4. QED
  BY <1>3 DEF Lifecycle!Enqueued, Phase, Attempts

LEMMA QuietStep == UNCHANGED store => UNCHANGED Lifecycle!lifecycleVars
<1>1. QED
  BY DEF Lifecycle!lifecycleVars

LEMMA NextRefines ==
  Inv /\ [Next]_vars => [Lifecycle!LifecycleNext]_(Lifecycle!lifecycleVars)
<1> SUFFICES ASSUME Inv, [Next]_vars
             PROVE  [Lifecycle!LifecycleNext]_(Lifecycle!lifecycleVars)
  OBVIOUS
<1>1. ASSUME NEW p \in Pollers, Poll(p)
      PROVE  [Lifecycle!LifecycleNext]_(Lifecycle!lifecycleVars)
  <2>1. CASE Claim(p)
    BY <2>1, ClaimBegins DEF Lifecycle!LifecycleNext
  <2>2. CASE Persist(p)
    BY <2>2, PersistEnds DEF Lifecycle!LifecycleNext
  <2>3. CASE ReadClock(p) \/ Start(p) \/ Handle(p) \/ Announce(p)
    BY <2>3, QuietStep DEF ReadClock, Start, Handle, Announce, storeVars
  <2>4. QED
    BY <1>1, <2>1, <2>2, <2>3 DEF Poll
<1>2. ASSUME NEW j \in Jobs, NEW delay \in Delays, Enqueue(j, delay)
      PROVE  [Lifecycle!LifecycleNext]_(Lifecycle!lifecycleVars)
  BY <1>2, EnqueueSchedules DEF Lifecycle!LifecycleNext
<1>3. CASE Elapse \/ (\E ms \in Advances : Advance(ms)) \/ ResetClock \/ UNCHANGED vars
  BY <1>3, QuietStep DEF Elapse, Advance, ResetClock, vars, storeVars
<1>4. QED
  BY <1>1, <1>2, <1>3 DEF Next

\* The poll loops over the in-process store implement the job lifecycle: attempts one
\* at a time and within the limit, terminal records final.
THEOREM SchedulerImplementsLifecycle == Spec => ImplementsLifecycle
<1>1. QED
  BY InitRefines, NextRefines, SchedulerInv, PTL
     DEF Spec, ImplementsLifecycle, Lifecycle!LifecycleSpec

-----------------------------------------------------------------------------
(* Retries wait.  A scheduled record that was attempted before is due its   *)
(* backoff after its last failure, in the store and in the copy a loop is   *)
(* about to write; a claim takes it only at a tick that has reached that.   *)

StoredWaits ==
  \A j \in Jobs :
    Enqueued(j) /\ store[j].state = "scheduled" /\ store[j].attempt > 0
      => store[j].dueAt = failedAt[j] + Waits(j, store[j].attempt)
HeldWaits ==
  \A p \in Pollers, j \in Jobs :
    Owns(p, j) /\ Answered(p, j) /\ held[p][j].state = "scheduled"
      => held[p][j].dueAt = failedAt[j] + Waits(j, held[p][j].attempt)
WaitInv == StoredWaits /\ HeldWaits

\* The code's backoff after an attempt is the wait the configuration asks for.
LEMMA NextBackoffWaits ==
  ASSUME NEW j \in Jobs, NEW job \in Record, job.attempt >= 1
  PROVE  NextBackoff(j, job) = Waits(j, job.attempt)
<1> DEFINE b == Backoff[j]
<1>1. b \in Seq(Nat) /\ job.attempt \in Nat
  BY SchedulerAssumption DEF Record
<1>2. CASE b = <<>>
  BY <1>2 DEF NextBackoff, Waits
<1>3. CASE b # <<>>
  <2>1. Len(b) \in Nat /\ Len(b) >= 1
    BY <1>1, <1>3
  <2>2. QED
    BY <1>1, <1>3, <2>1 DEF NextBackoff, Waits
<1>4. QED
  BY <1>2, <1>3

\* What a step that neither claims, answers nor writes leaves of a loop's claims:
\* nothing new, and the copies of what remains as they were.
KeepsClaims ==
  \A q \in Pollers, k \in Jobs :
    Owns(q, k)' => /\ Owns(q, k)
                   /\ Answered(q, k)' => Answered(q, k) /\ held'[q][k] = held[q][k]

LEMMA QuietWaits ==
  ASSUME WaitInv, UNCHANGED <<store, failedAt>>, KeepsClaims
  PROVE  WaitInv'
<1>1. StoredWaits'
  BY DEF WaitInv, StoredWaits, Enqueued
<1>2. HeldWaits'
  BY DEF WaitInv, HeldWaits, KeepsClaims
<1>3. QED
  BY <1>1, <1>2 DEF WaitInv

LEMMA QuietKeepsClaims ==
  ASSUME Inv, UNCHANGED <<pc, held, current>>
  PROVE  KeepsClaims
<1>1. QED
  BY DEF KeepsClaims, Owns, Answered, Written, Executing

LEMMA ReadClockKeepsClaims ==
  ASSUME Inv, NEW p \in Pollers, ReadClock(p)
  PROVE  KeepsClaims
<1>1. /\ pc[p] = "idle" /\ pc' = [pc EXCEPT ![p] = "claim"]
      /\ UNCHANGED <<held, current>>
  BY DEF ReadClock
<1>2. QED
  BY <1>1 DEF Inv, TypeOK, KeepsClaims, Owns, Answered, Written, Executing

LEMMA StartKeepsClaims ==
  ASSUME Inv, NEW p \in Pollers, Start(p)
  PROVE  KeepsClaims
<1>1. PICK j \in Jobs :
        /\ pc[p] = "next" /\ pc' = [pc EXCEPT ![p] = "handle"]
        /\ current' = [current EXCEPT ![p] = j]
        /\ UNCHANGED held
  BY DEF Start, Inv, TypeOK
<1>2. QED
  BY <1>1 DEF Inv, TypeOK, KeepsClaims, Owns, Answered, Written, Executing

LEMMA AnnounceKeepsClaims ==
  ASSUME Inv, NEW p \in Pollers, Announce(p)
  PROVE  KeepsClaims
<1> DEFINE rest == DOMAIN held[p] \ {current[p]}
<1>1. /\ pc[p] = "announce"
      /\ pc' = [pc EXCEPT ![p] = IF rest = {} THEN "idle" ELSE "next"]
      /\ held' = [held EXCEPT ![p] = [k \in rest |-> held[p][k]]]
      /\ current' = [current EXCEPT ![p] = NoJob]
  BY DEF Announce
<1>2. /\ \A q \in Pollers \ {p} : held'[q] = held[q] /\ pc'[q] = pc[q] /\ current'[q] = current[q]
      /\ DOMAIN held'[p] = rest /\ pc'[p] \in {"idle", "next"}
  BY <1>1 DEF Inv, TypeOK
<1>3. ASSUME NEW k \in Jobs, Owns(p, k)' PROVE Owns(p, k) /\ ~Answered(p, k)'
  <2>1. k \in rest
    BY <1>2, <1>3 DEF Owns
  <2>2. QED
    BY <1>2, <2>1 DEF Owns, Answered, Written, Executing
<1>4. ASSUME NEW q \in Pollers \ {p}, NEW k \in Jobs, Owns(q, k)'
      PROVE  Owns(q, k) /\ (Answered(q, k)' => Answered(q, k) /\ held'[q][k] = held[q][k])
  BY <1>2, <1>4 DEF Owns, Answered, Written, Executing
<1>5. QED
  BY <1>3, <1>4 DEF KeepsClaims

\* A claim marks what it takes running, so nothing it touches is scheduled any more.
LEMMA ClaimWaits ==
  ASSUME Inv, Inv', WaitInv, NEW p \in Pollers, Claim(p)
  PROVE  WaitInv' /\ \A j \in Jobs, q \in Pollers : RetryWaits(q, j)
<1> DEFINE due == {j \in Jobs : Due(j, seen[p])}
<1>1. /\ pc[p] = "claim" /\ pc' = [pc EXCEPT ![p] = IF due = {} THEN "idle" ELSE "next"]
      /\ store' = [j \in Jobs |-> IF j \in due THEN MarkRunning(store[j]) ELSE store[j]]
      /\ held' = [held EXCEPT ![p] = [j \in due |-> MarkRunning(store[j])]]
      /\ UNCHANGED <<failedAt, current>>
  BY DEF Claim
<1>2. /\ pc'[p] \in {"idle", "next"} /\ DOMAIN held'[p] = due
      /\ \A q \in Pollers \ {p} : held'[q] = held[q] /\ pc'[q] = pc[q]
      /\ \A j \in due : store'[j] = MarkRunning(store[j])
      /\ \A j \in Jobs \ due : store'[j] = store[j]
  BY <1>1 DEF Inv, TypeOK
<1>3. \A j \in due : store'[j].state = "running"
  <2> SUFFICES ASSUME NEW j \in due PROVE store'[j].state = "running"
    OBVIOUS
  <2>1. j \in Jobs /\ store[j] \in JobRecord(j) /\ store[j].attempt < AttemptLimit(j)
    BY DEF Due, Inv, TypeOK, StagesAgree, Enqueued
  <2>2. QED
    BY <1>2, <2>1, MarkRunningType
<1>4. \A q \in Pollers \ {p}, k \in Jobs :
        /\ Owns(q, k)' <=> Owns(q, k)
        /\ Answered(q, k)' <=> Answered(q, k)
  BY <1>1, <1>2 DEF Owns, Answered, Written, Executing
<1>5. \A k \in Jobs : ~Answered(p, k)'
  BY <1>2 DEF Answered, Executing
<1>6. StoredWaits'
  BY <1>1, <1>2, <1>3 DEF WaitInv, StoredWaits, Enqueued
<1>7. HeldWaits'
  BY <1>1, <1>2, <1>4, <1>5 DEF WaitInv, HeldWaits
<1>8. ASSUME NEW j \in Jobs, NEW q \in Pollers, Owns(q, j)', ~Owns(q, j), store[j].attempt > 0
      PROVE  seen[q] >= failedAt[j] + Waits(j, store[j].attempt)
  <2>1. q = p
    BY <1>4, <1>8
  <2>2. j \in due
    BY <1>2, <1>8, <2>1 DEF Owns
  <2>3. /\ Enqueued(j) /\ store[j].state = "scheduled" /\ store[j].dueAt <= seen[p]
    BY <2>2 DEF Due, Enqueued
  <2>4. /\ store[j].dueAt = failedAt[j] + Waits(j, store[j].attempt)
        /\ store[j].dueAt \in Nat /\ seen[p] \in Nat
    BY <1>8, <2>3 DEF WaitInv, StoredWaits, Inv, TypeOK, JobRecord, Record, Times, Enqueued
  <2>5. QED
    BY <2>1, <2>3, <2>4
<1>9. QED
  BY <1>6, <1>7, <1>8 DEF WaitInv, RetryWaits

\* A failing answer dates the failure and the retry by the same reading of the clock.
LEMMA HandleWaits ==
  ASSUME Inv, Inv', WaitInv, NEW p \in Pollers, Handle(p)
  PROVE  WaitInv' /\ \A j \in Jobs, q \in Pollers : RetryWaits(q, j)
<1>0. PICK j \in Jobs : j = current[p] /\ j \in DOMAIN held[p] /\ held[p][j] \in JobRecord(j)
  BY DEF Inv, TypeOK, StagesAgree, Handle
<1>1. PICK ok \in Outcomes[j] :
        /\ pc[p] = "handle" /\ pc' = [pc EXCEPT ![p] = "persist"]
        /\ held' = [held EXCEPT ![p][j] = Settled(p, j, held[p][j], ok)]
        /\ failedAt' = IF ok THEN failedAt ELSE [failedAt EXCEPT ![j] = now]
        /\ UNCHANGED <<store, current>>
  BY <1>0 DEF Handle
<1>2. /\ \A q \in Pollers : DOMAIN held'[q] = DOMAIN held[q]
      /\ \A q \in Pollers \ {p} : held'[q] = held[q] /\ pc'[q] = pc[q]
      /\ held'[p][j] = Settled(p, j, held[p][j], ok)
      /\ pc'[p] = "persist"
      /\ \A k \in Jobs \ {j} : failedAt'[k] = failedAt[k]
  BY <1>0, <1>1 DEF Inv, TypeOK
<1>3. Owns(p, j) /\ (\A q \in Pollers \ {p} : ~Owns(q, j)) /\ store[j].state = "running"
  <2>1. Owns(p, j)
    BY <1>0, <1>1 DEF Owns, Written, Executing
  <2>2. QED
    BY <2>1 DEF Inv, ExclusiveRun
<1>4. \A q \in Pollers, k \in Jobs :
        /\ Owns(q, k)' <=> Owns(q, k)
        /\ q # p => (Answered(q, k)' <=> Answered(q, k))
        /\ k # j => ~Answered(p, k)'
  <2>1. \A q \in Pollers \ {p}, k \in Jobs :
          (Owns(q, k)' <=> Owns(q, k)) /\ (Answered(q, k)' <=> Answered(q, k))
    BY <1>1, <1>2 DEF Owns, Answered, Written, Executing
  <2>2. \A k \in Jobs : (Owns(p, k)' <=> Owns(p, k)) /\ (k # j => ~Answered(p, k)')
    BY <1>0, <1>1, <1>2 DEF Owns, Answered, Written, Executing
  <2>3. QED
    BY <2>1, <2>2
<1>5. StoredWaits'
  BY <1>1, <1>2, <1>3 DEF WaitInv, StoredWaits, Enqueued
<1>6. ASSUME held'[p][j].state = "scheduled"
      PROVE  held'[p][j].dueAt = failedAt'[j] + Waits(j, held'[p][j].attempt)
  <2>1. ok \in BOOLEAN
    BY <1>1, SchedulerAssumption
  <2>2. /\ held[p][j] \in Record /\ held[p][j].attempt >= 1 /\ held[p][j].attempt \in Nat
        /\ held[p][j].state = "running"
    BY <1>0, <1>1 DEF Inv, StagesAgree, Answered, JobRecord, Record
  <2>3. ~ok /\ CanRetry(j, held[p][j])
    BY <1>2, <1>6, <2>2 DEF Settled, Record
  <2>4. held'[p][j] = [held[p][j] EXCEPT !.state = "scheduled",
                                         !.dueAt = now + NextBackoff(j, held[p][j])]
    BY <1>2, <2>3 DEF Settled, RetryDue
  <2>5. held'[p][j].dueAt = now + Waits(j, held[p][j].attempt)
    BY <2>2, <2>4, NextBackoffWaits DEF Record
  <2>6. held'[p][j].attempt = held[p][j].attempt
    BY <2>2, <2>4 DEF Record
  <2>7. failedAt'[j] = now
    BY <1>1, <2>3 DEF Inv, TypeOK
  <2>8. QED
    BY <2>5, <2>6, <2>7
<1>7. HeldWaits'
  <2> SUFFICES ASSUME NEW q \in Pollers, NEW k \in Jobs,
                      Owns(q, k)', Answered(q, k)', held'[q][k].state = "scheduled"
               PROVE  held'[q][k].dueAt = failedAt'[k] + Waits(k, held'[q][k].attempt)
    BY DEF HeldWaits
  <2>1. CASE q = p
    BY <1>4, <1>6, <2>1
  <2>2. CASE q # p
    <3>1. k # j /\ Owns(q, k) /\ Answered(q, k)
      BY <1>3, <1>4, <2>2
    <3>2. QED
      BY <1>2, <2>2, <3>1 DEF WaitInv, HeldWaits
  <2>3. QED
    BY <2>1, <2>2
<1>8. QED
  BY <1>4, <1>5, <1>7 DEF WaitInv, RetryWaits

\* The write back puts the copy's due time in the store and gives the job up.
LEMMA PersistWaits ==
  ASSUME Inv, Inv', WaitInv, NEW p \in Pollers, Persist(p)
  PROVE  WaitInv' /\ \A j \in Jobs, q \in Pollers : RetryWaits(q, j)
<1>1. PICK j \in Jobs : j = current[p] /\ j \in DOMAIN held[p]
  BY DEF Inv, TypeOK, StagesAgree, Persist
<1>2. /\ pc[p] = "persist" /\ pc' = [pc EXCEPT ![p] = "announce"]
      /\ store' = [store EXCEPT ![j] = held[p][j]]
      /\ UNCHANGED <<failedAt, held, current>>
  BY <1>1 DEF Persist, Put
<1>3. Owns(p, j) /\ Answered(p, j)
  BY <1>1, <1>2 DEF Owns, Answered, Written, Executing
<1>4. \A q \in Pollers, k \in Jobs :
        /\ Owns(q, k)' => Owns(q, k)
        /\ Answered(q, k)' <=> Answered(q, k)
  BY <1>1, <1>2 DEF Inv, TypeOK, Owns, Answered, Written, Executing
<1>5. StoredWaits'
  BY <1>2, <1>3 DEF WaitInv, StoredWaits, HeldWaits, Enqueued, Inv, TypeOK
<1>6. HeldWaits'
  BY <1>2, <1>4 DEF WaitInv, HeldWaits
<1>7. QED
  BY <1>4, <1>5, <1>6 DEF WaitInv, RetryWaits

\* A new record has not been attempted.
LEMMA EnqueueWaits ==
  ASSUME Inv, WaitInv, NEW j \in Jobs, NEW delay \in Delays, Enqueue(j, delay)
  PROVE  WaitInv' /\ \A k \in Jobs, q \in Pollers : RetryWaits(q, k)
<1> DEFINE new == [state |-> "scheduled", attempt |-> 0, dueAt |-> now + delay]
<1>1. /\ store' = [store EXCEPT ![j] = new]
      /\ UNCHANGED <<failedAt, pc, held, current>>
  BY DEF Enqueue, Put, loopVars
<1>2. store'[j].attempt = 0 /\ \A k \in Jobs \ {j} : store'[k] = store[k]
  BY <1>1 DEF Inv, TypeOK
<1>3. \A q \in Pollers, k \in Jobs :
        (Owns(q, k)' <=> Owns(q, k)) /\ (Answered(q, k)' <=> Answered(q, k))
  BY <1>1 DEF Owns, Answered, Written, Executing
<1>4. StoredWaits'
  BY <1>1, <1>2 DEF WaitInv, StoredWaits, Enqueued
<1>5. HeldWaits'
  BY <1>1, <1>3 DEF WaitInv, HeldWaits
<1>6. QED
  BY <1>3, <1>4, <1>5 DEF WaitInv, RetryWaits

LEMMA NextWaits ==
  Inv /\ Inv' /\ WaitInv /\ [Next]_vars
    => WaitInv' /\ \A j \in Jobs, q \in Pollers : RetryWaits(q, j)
<1> SUFFICES ASSUME Inv, Inv', WaitInv, [Next]_vars
             PROVE  WaitInv' /\ \A j \in Jobs, q \in Pollers : RetryWaits(q, j)
  OBVIOUS
<1> DEFINE Goal == WaitInv' /\ \A j \in Jobs, q \in Pollers : RetryWaits(q, j)
<1>1. UNCHANGED <<store, failedAt>> /\ KeepsClaims => Goal
  BY QuietWaits DEF KeepsClaims, RetryWaits
<1>2. ASSUME NEW p \in Pollers, Poll(p) PROVE Goal
  <2>1. CASE Claim(p)
    BY <2>1, ClaimWaits
  <2>2. CASE Handle(p)
    BY <2>2, HandleWaits
  <2>3. CASE Persist(p)
    BY <2>3, PersistWaits
  <2>4. CASE ReadClock(p)
    <3>1. UNCHANGED <<store, failedAt>>
      BY <2>4 DEF ReadClock, storeVars
    <3>2. QED
      BY <1>1, <2>4, <3>1, ReadClockKeepsClaims
  <2>5. CASE Start(p)
    <3>1. UNCHANGED <<store, failedAt>>
      BY <2>5 DEF Start
    <3>2. QED
      BY <1>1, <2>5, <3>1, StartKeepsClaims
  <2>6. CASE Announce(p)
    <3>1. UNCHANGED <<store, failedAt>>
      BY <2>6 DEF Announce
    <3>2. QED
      BY <1>1, <2>6, <3>1, AnnounceKeepsClaims
  <2>7. QED
    BY <1>2, <2>1, <2>2, <2>3, <2>4, <2>5, <2>6 DEF Poll
<1>3. CASE \E j \in Jobs, delay \in Delays : Enqueue(j, delay)
  BY <1>3, EnqueueWaits
<1>4. CASE Elapse \/ (\E ms \in Advances : Advance(ms)) \/ ResetClock \/ UNCHANGED vars
  <2>1. UNCHANGED <<store, failedAt, pc, held, current>>
    BY <1>4 DEF Elapse, Advance, ResetClock, vars, storeVars, loopVars
  <2>2. QED
    BY <1>1, <2>1, QuietKeepsClaims
<1>5. QED
  BY <1>2, <1>3, <1>4 DEF Next

LEMMA InitWaits == Init => WaitInv
<1>1. QED
  BY DEF Init, WaitInv, StoredWaits, HeldWaits, Enqueued, Owns

LEMMA SchedulerWaitInv == Spec => [](Inv /\ WaitInv)
<1>1. Inv /\ WaitInv /\ [Next]_vars => (Inv /\ WaitInv)'
  BY NextInv, NextWaits
<1>2. QED
  BY <1>1, InitInv, InitWaits, PTL DEF Spec

\* No loop takes a failed job before its backoff has passed since the failure, however
\* the clock was advanced or reset in between.
THEOREM SchedulerRetriesWaitTheirBackoff == Spec => RetriesWaitTheirBackoff
<1>1. Inv /\ Inv' /\ WaitInv /\ [Next]_vars
        => [\A j \in Jobs, p \in Pollers : RetryWaits(p, j)]_vars
  BY NextWaits
<1>2. QED
  BY <1>1, SchedulerWaitInv, PTL DEF Spec, RetriesWaitTheirBackoff

-----------------------------------------------------------------------------
(* The bus matches the store.  Beside the property itself: a job that was   *)
(* never enqueued left no trace, the attempt a loop executes was announced, *)
(* loops about to announce the same job ended different attempts of it, and *)
(* the last of them wrote the state the store still has.                    *)

UntouchedBefore ==
  \A j \in Jobs : ~Enqueued(j) => log[j] = <<>> /\ \A p \in Pollers : j \notin DOMAIN held[p]
RunsAnnounced ==
  \A p \in Pollers, j \in Jobs :
    Executing(p, j) => AnnouncedRunning(j, held[p][j].attempt, Len(log[j]))
OneWriter ==
  \A p, q \in Pollers, j \in Jobs :
    Written(p, j) /\ Written(q, j) /\ held[p][j].attempt = held[q][j].attempt => p = q
WrittenIsStored ==
  \A p \in Pollers, j \in Jobs :
    Written(p, j) /\ held[p][j].attempt = store[j].attempt => held[p][j].state = store[j].state
BusInv ==
  /\ BusMatchesStore
  /\ UntouchedBefore /\ RunsAnnounced /\ OneWriter /\ WrittenIsStored

\* The per-job part of the property.
JobMatches(j) ==
  /\ Told(j) \cap Owed(j) = {}
  /\ Told(j) \cup Owed(j) = Over(j)
  /\ \A i, k \in EndsOn(j) : log[j][i].attempt = log[j][k].attempt => i = k
  /\ \A i \in EndsOn(j) :
       /\ AnnouncedRunning(j, log[j][i].attempt, i - 1)
       /\ log[j][i].attempt = store[j].attempt => log[j][i].to = store[j].state

LEMMA InitBus == Init => BusInv
<1>1. QED
  BY SchedulerAssumption
     DEF Init, BusInv, BusMatchesStore, UntouchedBefore, RunsAnnounced, OneWriter,
         WrittenIsStored, Enqueued, Written, Executing

\* The whole of BusInv reads this much of the state.
LEMMA QuietBus ==
  ASSUME Inv, BusInv, UNCHANGED <<store, log>>,
         \A q \in Pollers, k \in Jobs :
           /\ Written(q, k)' <=> Written(q, k)
           /\ Executing(q, k)' => Executing(q, k)
           /\ k \in DOMAIN held'[q] => k \in DOMAIN held[q]
           /\ k \in DOMAIN held[q] =>
                /\ held'[q][k].attempt = held[q][k].attempt
                /\ Written(q, k) => held'[q][k].state = held[q][k].state
  PROVE  BusInv'
<1>1. \A q \in Pollers, k \in Jobs : Executing(q, k) => k \in DOMAIN held[q]
  BY DEF Executing, Inv, StagesAgree
<1>2. \A j \in Jobs : /\ EndsOn(j)' = EndsOn(j) /\ Told(j)' = Told(j) /\ Over(j)' = Over(j)
                      /\ Enqueued(j)' <=> Enqueued(j)
  BY DEF EndsOn, Told, Over, Enqueued
<1>3. \A j \in Jobs : Owed(j)' = Owed(j)
  BY <1>1 DEF Owed, Written
<1>4. BusMatchesStore'
  BY <1>2, <1>3 DEF BusInv, BusMatchesStore, AnnouncedRunning
<1>5. UntouchedBefore' /\ OneWriter' /\ WrittenIsStored' /\ RunsAnnounced'
  BY <1>1, <1>2
     DEF BusInv, UntouchedBefore, OneWriter, WrittenIsStored, RunsAnnounced, Written,
         AnnouncedRunning
<1>6. QED
  BY <1>4, <1>5 DEF BusInv

LEMMA ReadClockBus ==
  ASSUME Inv, BusInv, NEW p \in Pollers, ReadClock(p)
  PROVE  BusInv'
<1>1. /\ pc[p] = "idle" /\ pc' = [pc EXCEPT ![p] = "claim"]
      /\ UNCHANGED <<store, log, held, current>>
  BY DEF ReadClock, storeVars
<1>2. \A q \in Pollers, k \in Jobs :
        (Written(q, k)' <=> Written(q, k)) /\ (Executing(q, k)' <=> Executing(q, k))
  BY <1>1 DEF Inv, TypeOK, Written, Executing
<1>3. QED
  BY <1>1, <1>2, QuietBus

LEMMA HandleBus ==
  ASSUME Inv, BusInv, NEW p \in Pollers, Handle(p)
  PROVE  BusInv'
<1>0. PICK j \in Jobs : j = current[p] /\ j \in DOMAIN held[p] /\ held[p][j] \in JobRecord(j)
  BY DEF Inv, TypeOK, StagesAgree, Handle
<1>1. PICK ok \in Outcomes[j] :
        /\ pc[p] = "handle" /\ pc' = [pc EXCEPT ![p] = "persist"]
        /\ held' = [held EXCEPT ![p][j] = Settled(p, j, held[p][j], ok)]
        /\ UNCHANGED <<store, log, current>>
  BY <1>0 DEF Handle
<1>2. /\ \A q \in Pollers : DOMAIN held'[q] = DOMAIN held[q]
      /\ \A q \in Pollers \ {p} : held'[q] = held[q]
      /\ \A k \in DOMAIN held[p] \ {j} : held'[p][k] = held[p][k]
      /\ held'[p][j] = Settled(p, j, held[p][j], ok)
  BY <1>0, <1>1 DEF Inv, TypeOK
<1>3. held'[p][j].attempt = held[p][j].attempt
  <2>1. ok \in BOOLEAN /\ now \in Nat
    BY <1>1, SchedulerAssumption DEF Inv, TypeOK, Times, now
  <2>2. QED
    BY <1>0, <1>2, <2>1, SettledType
<1>4. \A q \in Pollers, k \in Jobs :
        (Written(q, k)' <=> Written(q, k)) /\ (Executing(q, k)' <=> Executing(q, k))
  BY <1>1 DEF Inv, TypeOK, Written, Executing
<1>5. ~Written(p, j)
  BY <1>1 DEF Written
<1>6. ASSUME NEW q \in Pollers, NEW k \in DOMAIN held[q]
      PROVE  /\ held'[q][k].attempt = held[q][k].attempt
             /\ Written(q, k) => held'[q][k].state = held[q][k].state
  BY <1>2, <1>3, <1>5
<1>7. QED
  BY <1>1, <1>2, <1>4, <1>6, QuietBus

\* A claim opens a new attempt of what it takes: those that are over stay over.
LEMMA ClaimBus ==
  ASSUME Inv, BusInv, NEW p \in Pollers, Claim(p)
  PROVE  BusInv'
<1> DEFINE due == {j \in Jobs : Due(j, seen[p])}
<1>1. /\ pc[p] = "claim" /\ pc' = [pc EXCEPT ![p] = IF due = {} THEN "idle" ELSE "next"]
      /\ store' = [j \in Jobs |-> IF j \in due THEN MarkRunning(store[j]) ELSE store[j]]
      /\ held' = [held EXCEPT ![p] = [j \in due |-> MarkRunning(store[j])]]
      /\ UNCHANGED <<log, current>>
  BY DEF Claim
<1>2. /\ pc'[p] \in {"idle", "next"} /\ DOMAIN held'[p] = due
      /\ \A q \in Pollers \ {p} : held'[q] = held[q] /\ pc'[q] = pc[q]
      /\ \A j \in due : store'[j] = MarkRunning(store[j])
      /\ \A j \in Jobs \ due : store'[j] = store[j]
  BY <1>1 DEF Inv, TypeOK
<1>3. \A j \in due : /\ j \in Jobs /\ Enqueued(j) /\ Enqueued(j)' /\ store[j].state = "scheduled"
                     /\ store'[j].state = "running"
                     /\ store[j].attempt \in Nat /\ store'[j].attempt = store[j].attempt + 1
  <2> SUFFICES ASSUME NEW j \in due
               PROVE  /\ j \in Jobs /\ Enqueued(j) /\ Enqueued(j)' /\ store[j].state = "scheduled"
                      /\ store'[j].state = "running"
                      /\ store[j].attempt \in Nat /\ store'[j].attempt = store[j].attempt + 1
    OBVIOUS
  <2>1. /\ j \in Jobs /\ store[j] \in JobRecord(j) /\ store[j].attempt < AttemptLimit(j)
        /\ Enqueued(j) /\ store[j].state = "scheduled" /\ store[j].attempt \in Nat
    BY DEF Due, Inv, TypeOK, StagesAgree, Enqueued, JobRecord, Record
  <2>2. QED
    BY <1>2, <2>1, MarkRunningType DEF Enqueued
<1>4. \A q \in Pollers, k \in Jobs :
        /\ Written(q, k)' <=> Written(q, k)
        /\ Executing(q, k)' <=> Executing(q, k)
        /\ Executing(q, k) => q # p /\ held'[q] = held[q]
  BY <1>1, <1>2 DEF Written, Executing
<1>5. \A j \in Jobs : /\ EndsOn(j)' = EndsOn(j) /\ Told(j)' = Told(j)
                      /\ Enqueued(j)' <=> Enqueued(j)
  BY <1>1, <1>2, <1>3 DEF EndsOn, Told, Enqueued
<1>6. \A j \in Jobs : Owed(j)' = Owed(j)
  BY <1>4 DEF Owed, Written
<1>7. \A j \in due : Over(j)' = Over(j)
  BY <1>3 DEF Over
<1> HIDE DEF due
<1>8. BusMatchesStore'
  <2> SUFFICES ASSUME NEW j \in Jobs, Enqueued(j)
               PROVE  JobMatches(j)'
    BY <1>5 DEF BusMatchesStore, JobMatches
  <2>1. JobMatches(j)
    BY DEF BusInv, BusMatchesStore, JobMatches
  <2>2. CASE j \notin due
    <3>1. store'[j] = store[j] /\ Over(j)' = Over(j)
      BY <1>2, <2>2 DEF Over
    <3>2. QED
      BY <1>1, <1>5, <1>6, <2>1, <3>1 DEF JobMatches, AnnouncedRunning
  <2>3. CASE j \in due
    <3>1. \A i \in EndsOn(j) : log[j][i].attempt # store'[j].attempt
      <4>1. \A n \in Told(j) : n \in 1 .. store[j].attempt
        BY <1>3, <2>1, <2>3 DEF JobMatches, Over
      <4>2. QED
        BY <1>3, <2>3, <4>1 DEF Told
    <3>2. QED
      BY <1>1, <1>5, <1>6, <1>7, <2>1, <2>3, <3>1 DEF JobMatches, AnnouncedRunning
  <2>4. QED
    BY <2>2, <2>3
<1>9. UntouchedBefore'
  <2>1. \A j \in Jobs : ~Enqueued(j) => j \notin due
    BY <1>3
  <2>2. QED
    BY <1>1, <1>2, <1>5, <2>1 DEF BusInv, UntouchedBefore
<1>10. RunsAnnounced'
  BY <1>1, <1>4 DEF BusInv, RunsAnnounced, AnnouncedRunning
<1>11. OneWriter'
  BY <1>4 DEF BusInv, OneWriter, Written
<1>12. WrittenIsStored'
  <2> SUFFICES ASSUME NEW q \in Pollers, NEW j \in Jobs, Written(q, j)',
                      held'[q][j].attempt = store'[j].attempt
               PROVE  held'[q][j].state = store'[j].state
    BY DEF WrittenIsStored
  <2>1. Written(q, j) /\ held'[q] = held[q]
    BY <1>4 DEF Written
  <2>2. CASE j \notin due
    BY <1>2, <2>1, <2>2 DEF BusInv, WrittenIsStored
  <2>3. CASE j \in due
    <3>1. held[q][j].attempt \in Over(j)
      BY <1>3, <2>1, <2>3 DEF BusInv, BusMatchesStore, Owed
    <3>2. held[q][j].attempt <= store[j].attempt
      BY <1>3, <2>3, <3>1 DEF Over
    <3>3. QED
      BY <1>3, <2>1, <2>3, <3>1, <3>2 DEF Over
  <2>4. QED
    BY <2>2, <2>3
<1>13. QED
  BY <1>8, <1>9, <1>10, <1>11, <1>12 DEF BusInv

\* The entries of a log survive an append.
LEMMA AppendKeeps ==
  ASSUME Inv, NEW j \in Jobs, NEW t \in Transitions(j), Emit(j, t)
  PROVE  /\ Len(log[j]) \in Nat /\ Len(log'[j]) = Len(log[j]) + 1
         /\ log'[j][Len(log[j]) + 1] = t
         /\ \A i \in 1 .. Len(log[j]) : log'[j][i] = log[j][i]
         /\ \A k \in Jobs \ {j} : log'[k] = log[k]
         /\ log'[j] # <<>>
<1>1. log' = [log EXCEPT ![j] = Append(log[j], t)] /\ log[j] \in Seq(Transitions(j))
  BY DEF Emit, Inv, TypeOK
<1>2. log'[j] = Append(log[j], t) /\ \A k \in Jobs \ {j} : log'[k] = log[k]
  BY <1>1 DEF Inv, TypeOK
<1>3. Len(log[j]) \in Nat /\ Len(log'[j]) = Len(log[j]) + 1
  BY <1>1, <1>2
<1>4. log'[j][Len(log[j]) + 1] = t /\ \A i \in 1 .. Len(log[j]) : log'[j][i] = log[j][i]
  BY <1>1, <1>2
<1>5. log'[j] # <<>>
  BY <1>3
<1>6. QED
  BY <1>2, <1>3, <1>4, <1>5

LEMMA StartBus ==
  ASSUME Inv, BusInv, NEW p \in Pollers, Start(p)
  PROVE  BusInv'
<1>1. PICK j \in DOMAIN held[p] :
        /\ pc[p] = "next" /\ pc' = [pc EXCEPT ![p] = "handle"]
        /\ current' = [current EXCEPT ![p] = j]
        /\ Emit(j, Transition(held[p][j], "scheduled", "running"))
        /\ UNCHANGED <<store, held>>
  BY DEF Start
<1> DEFINE t == Transition(held[p][j], "scheduled", "running")
<1>2. j \in Jobs /\ t \in Transitions(j) /\ Enqueued(j)
  <2>1. j \in Jobs /\ held[p][j] \in JobRecord(j)
    BY DEF Inv, TypeOK
  <2>2. QED
    BY <2>1, TransitionType DEF States, BusInv, UntouchedBefore
<1>3. t.from = "scheduled" /\ t.to = "running" /\ t.attempt = held[p][j].attempt
  BY DEF Transition
<1> HIDE DEF t
<1>4. /\ Len(log[j]) \in Nat /\ Len(log'[j]) = Len(log[j]) + 1
      /\ log'[j][Len(log[j]) + 1] = t
      /\ \A i \in 1 .. Len(log[j]) : log'[j][i] = log[j][i]
      /\ \A k \in Jobs \ {j} : log'[k] = log[k]
  BY <1>1, <1>2, AppendKeeps DEF t
<1>5. \A q \in Pollers, k \in Jobs :
        /\ Written(q, k)' <=> Written(q, k)
        /\ Executing(q, k)' => Executing(q, k) \/ (q = p /\ k = j)
  BY <1>1 DEF Inv, TypeOK, Written, Executing
<1>6. \A k \in Jobs : EndsOn(k)' = EndsOn(k)
  BY <1>3, <1>4 DEF EndsOn
<1>7. \A k \in Jobs : \A i \in EndsOn(k) : i \in 1 .. Len(log[k]) /\ log'[k][i] = log[k][i]
  BY <1>4 DEF EndsOn
<1>8. \A k \in Jobs : Told(k)' = Told(k) /\ Owed(k)' = Owed(k) /\ Over(k)' = Over(k)
  BY <1>1, <1>5, <1>6, <1>7 DEF Told, Owed, Over
<1>9. \A k \in Jobs : Len(log[k]) \in Nat /\ \A i \in 1 .. Len(log[k]) : log'[k][i] = log[k][i]
  BY <1>4 DEF Inv, TypeOK
<1>10. ASSUME NEW k \in Jobs, Enqueued(k)
       PROVE  JobMatches(k)'
  <2>1. JobMatches(k)
    BY <1>10 DEF BusInv, BusMatchesStore, JobMatches
  <2>2. \A i \in EndsOn(k) : AnnouncedRunning(k, log[k][i].attempt, i - 1)'
    <3> SUFFICES ASSUME NEW i \in EndsOn(k)
                 PROVE  AnnouncedRunning(k, log[k][i].attempt, i - 1)'
      OBVIOUS
    <3>1. i \in 1 .. Len(log[k]) /\ log'[k][i] = log[k][i]
      BY <1>7
    <3>2. PICK b \in 1 .. i - 1 :
            log[k][b].to = "running" /\ log[k][b].attempt = log[k][i].attempt
      BY <2>1 DEF JobMatches, AnnouncedRunning
    <3>3. log'[k][b] = log[k][b]
      BY <1>9, <3>1
    <3>4. QED
      BY <3>1, <3>2, <3>3 DEF AnnouncedRunning
  <2>3. QED
    BY <1>1, <1>6, <1>7, <1>8, <2>1, <2>2 DEF JobMatches
<1>11. BusMatchesStore'
  BY <1>1, <1>10 DEF BusMatchesStore, JobMatches, Enqueued
<1>12. UntouchedBefore'
  BY <1>1, <1>2, <1>4 DEF BusInv, UntouchedBefore, Enqueued
<1>13. RunsAnnounced'
  <2> SUFFICES ASSUME NEW q \in Pollers, NEW k \in Jobs, Executing(q, k)'
               PROVE  \E b \in 1 .. Len(log'[k]) : /\ log'[k][b].to = "running"
                                                   /\ log'[k][b].attempt = held[q][k].attempt
    BY <1>1 DEF RunsAnnounced, AnnouncedRunning
  <2>1. CASE q = p /\ k = j
    <3>1. Len(log[j]) + 1 \in 1 .. Len(log'[j])
      BY <1>4
    <3>2. QED
      BY <1>3, <1>4, <2>1, <3>1
  <2>2. CASE ~(q = p /\ k = j)
    <3>1. PICK b \in 1 .. Len(log[k]) :
            log[k][b].to = "running" /\ log[k][b].attempt = held[q][k].attempt
      BY <1>5, <2>2 DEF BusInv, RunsAnnounced, AnnouncedRunning
    <3>2. log'[k][b] = log[k][b] /\ b \in 1 .. Len(log'[k])
      BY <1>4, <1>9, <3>1
    <3>3. QED
      BY <3>1, <3>2
  <2>3. QED
    BY <2>1, <2>2
<1>14. OneWriter' /\ WrittenIsStored'
  BY <1>1, <1>5 DEF BusInv, OneWriter, WrittenIsStored
<1>15. QED
  BY <1>11, <1>12, <1>13, <1>14 DEF BusInv

\* The write back closes the attempt the store has open: p owes its announcement, and
\* nobody else told or owes that one.
LEMMA PersistBus ==
  ASSUME Inv, Inv', BusInv, NEW p \in Pollers, Persist(p)
  PROVE  BusInv'
<1>1. PICK j \in Jobs : j = current[p] /\ j \in DOMAIN held[p] /\ held[p][j] \in JobRecord(j)
  BY DEF Inv, TypeOK, StagesAgree, Persist
<1>2. /\ pc[p] = "persist" /\ pc' = [pc EXCEPT ![p] = "announce"]
      /\ store' = [store EXCEPT ![j] = held[p][j]]
      /\ UNCHANGED <<log, held, current>>
  BY <1>1 DEF Persist, Put
<1>3. Owns(p, j) /\ Answered(p, j)
  BY <1>1, <1>2 DEF Owns, Answered, Written, Executing
<1> DEFINE n == store[j].attempt
<1>4. /\ Enqueued(j) /\ store[j].state = "running" /\ n \in Nat /\ n >= 1
      /\ held[p][j].attempt = n /\ held[p][j].state # "running"
      /\ held[p][j] # NoRecord
  <2>1. Enqueued(j) /\ store[j].state = "running"
    BY <1>3 DEF Inv, ExclusiveRun
  <2>2. held[p][j].attempt = n /\ held[p][j].attempt >= 1 /\ held[p][j].state # "running"
    BY <1>1, <1>3 DEF Inv, StagesAgree
  <2>3. held[p][j].attempt \in Nat /\ held[p][j] # NoRecord
    BY <1>1, SchedulerAssumption DEF JobRecord, Record, States
  <2>4. QED
    BY <2>1, <2>2, <2>3
<1>5. /\ store'[j] = held[p][j]
      /\ \A k \in Jobs \ {j} : store'[k] = store[k]
      /\ \A k \in Jobs : Enqueued(k)' <=> Enqueued(k)
  BY <1>2, <1>4 DEF Inv, TypeOK, Enqueued
<1>6. /\ \A q \in Pollers, k \in Jobs : Executing(q, k)' <=> Executing(q, k)
      /\ \A q \in Pollers, k \in Jobs :
           Written(q, k)' <=> (Written(q, k) \/ (q = p /\ k = j))
      /\ ~Written(p, j)
  BY <1>1, <1>2 DEF Inv, TypeOK, Written, Executing
<1>7. \A k \in Jobs : EndsOn(k)' = EndsOn(k) /\ Told(k)' = Told(k)
  BY <1>2 DEF EndsOn, Told
<1>8. \A k \in Jobs \ {j} : Owed(k)' = Owed(k) /\ Over(k)' = Over(k)
  BY <1>2, <1>5, <1>6 DEF Owed, Over
<1>9. Owed(j)' = Owed(j) \cup {n} /\ Over(j)' = Over(j) \cup {n}
  <2>1. Owed(j)' = Owed(j) \cup {n}
    BY <1>2, <1>4, <1>6 DEF Owed
  <2>2. Over(j) = 1 .. (n - 1) /\ Over(j)' = 1 .. n
    BY <1>4, <1>5 DEF Over
  <2>3. QED
    BY <1>4, <2>1, <2>2
<1>10. n \notin Told(j) /\ n \notin Owed(j)
  <2>1. n \notin Over(j)
    BY <1>4 DEF Over
  <2>2. QED
    BY <1>4, <2>1 DEF BusInv, BusMatchesStore
<1> HIDE DEF n
<1>11. BusMatchesStore'
  <2> SUFFICES ASSUME NEW k \in Jobs, Enqueued(k)
               PROVE  JobMatches(k)'
    BY <1>5 DEF BusMatchesStore, JobMatches
  <2>1. JobMatches(k)
    BY DEF BusInv, BusMatchesStore, JobMatches
  <2>2. CASE k # j
    BY <1>2, <1>5, <1>7, <1>8, <2>1, <2>2 DEF JobMatches, AnnouncedRunning
  <2>3. CASE k = j
    <3>1. \A i \in EndsOn(j) : log[j][i].attempt # store'[j].attempt
      BY <1>4, <1>5, <1>10 DEF Told, n
    <3>2. Told(j)' \cap Owed(j)' = {} /\ Told(j)' \cup Owed(j)' = Over(j)'
      BY <1>7, <1>9, <1>10, <2>1, <2>3 DEF JobMatches
    <3>3. QED
      BY <1>2, <1>7, <2>1, <2>3, <3>1, <3>2 DEF JobMatches, AnnouncedRunning
  <2>4. QED
    BY <2>2, <2>3
<1>12. UntouchedBefore' /\ RunsAnnounced'
  BY <1>2, <1>5, <1>6 DEF BusInv, UntouchedBefore, RunsAnnounced, AnnouncedRunning
<1>13. OneWriter'
  <2> SUFFICES ASSUME NEW q \in Pollers, NEW r \in Pollers, NEW k \in Jobs,
                      Written(q, k)', Written(r, k)', held[q][k].attempt = held[r][k].attempt
               PROVE  q = r
    BY <1>2 DEF OneWriter
  <2>1. CASE Written(q, k) /\ Written(r, k)
    BY <2>1 DEF BusInv, OneWriter
  <2>2. CASE k = j /\ (q = p \/ r = p)
    <3>1. \A u \in Pollers : Written(u, j) => held[u][j].attempt # n
      BY <1>10 DEF Owed
    <3>2. QED
      BY <1>4, <1>6, <2>2, <3>1 DEF n
  <2>3. QED
    BY <1>6, <2>1, <2>2
<1>14. WrittenIsStored'
  <2> SUFFICES ASSUME NEW q \in Pollers, NEW k \in Jobs, Written(q, k)',
                      held[q][k].attempt = store'[k].attempt
               PROVE  held[q][k].state = store'[k].state
    BY <1>2 DEF WrittenIsStored
  <2>1. CASE k # j
    BY <1>5, <1>6, <2>1 DEF BusInv, WrittenIsStored
  <2>2. CASE k = j /\ q = p
    BY <1>5, <2>2
  <2>3. CASE k = j /\ q # p
    <3>1. Written(q, j) /\ held[q][j].attempt = n
      BY <1>4, <1>5, <1>6, <2>3 DEF n
    <3>2. QED
      BY <1>10, <3>1 DEF Owed
  <2>4. QED
    BY <2>1, <2>2, <2>3
<1>15. QED
  BY <1>11, <1>12, <1>13, <1>14 DEF BusInv

\* The announcement moves p's attempt from the owed to the told.
LEMMA AnnounceBus ==
  ASSUME Inv, Inv', BusInv, NEW p \in Pollers, Announce(p)
  PROVE  BusInv'
<1>1. PICK j \in Jobs : j = current[p] /\ j \in DOMAIN held[p] /\ held[p][j] \in JobRecord(j)
  BY DEF Inv, TypeOK, StagesAgree, Announce
<1> DEFINE rest == DOMAIN held[p] \ {j}
           t == Transition(held[p][j], "running", held[p][j].state)
           n == held[p][j].attempt
<1>2. /\ pc[p] = "announce" /\ Emit(j, t)
      /\ held' = [held EXCEPT ![p] = [k \in rest |-> held[p][k]]]
      /\ current' = [current EXCEPT ![p] = NoJob]
      /\ pc' = [pc EXCEPT ![p] = IF rest = {} THEN "idle" ELSE "next"]
      /\ UNCHANGED store
  BY <1>1 DEF Announce
<1>3. /\ t \in Transitions(j) /\ t.from = "running" /\ t.to = held[p][j].state
      /\ t.attempt = n /\ n \in Nat
  <2>1. t \in Transitions(j) /\ n \in Nat
    BY <1>1, TransitionType DEF JobRecord, Record, States
  <2>2. QED
    BY <2>1 DEF Transition
<1>4. /\ \A q \in Pollers \ {p} : held'[q] = held[q] /\ pc'[q] = pc[q] /\ current'[q] = current[q]
      /\ DOMAIN held'[p] = rest /\ pc'[p] \in {"idle", "next"}
  BY <1>2 DEF Inv, TypeOK
<1>5. /\ Written(p, j) /\ \A k \in Jobs : ~Executing(p, k)' /\ (Written(p, k) => k = j)
      /\ \A q \in Pollers \ {p}, k \in Jobs :
           (Executing(q, k)' <=> Executing(q, k)) /\ (Written(q, k)' <=> Written(q, k))
  BY <1>1, <1>2, <1>4 DEF Written, Executing
<1>6. Enqueued(j)
  BY <1>1 DEF BusInv, UntouchedBefore
<1> HIDE DEF t
<1>7. /\ Len(log[j]) \in Nat /\ Len(log'[j]) = Len(log[j]) + 1
      /\ log'[j][Len(log[j]) + 1] = t
      /\ \A i \in 1 .. Len(log[j]) : log'[j][i] = log[j][i]
      /\ \A k \in Jobs \ {j} : log'[k] = log[k]
  <2>1. t \in Transitions(j) /\ Emit(j, t)
    BY <1>2, <1>3
  <2>2. QED
    BY <2>1, AppendKeeps
<1> DEFINE last == Len(log[j]) + 1
<1>8. \A k \in Jobs : Len(log[k]) \in Nat /\ \A i \in 1 .. Len(log[k]) : log'[k][i] = log[k][i]
  <2>1. \A k \in Jobs : log[k] \in Seq(Transitions(k))
    BY DEF Inv, TypeOK
  <2>2. \A k \in Jobs : Len(log[k]) \in Nat
    BY <2>1
  <2>3. QED
    BY <1>7, <2>2
<1>9. EndsOn(j)' = EndsOn(j) \cup {last} /\ last \notin EndsOn(j)
  BY <1>3, <1>7 DEF EndsOn
<1>10. \A i \in EndsOn(j) : i \in 1 .. Len(log[j]) /\ log'[j][i] = log[j][i]
  BY <1>7 DEF EndsOn
<1> HIDE DEF last, rest, n
<1>11. Told(j)' = Told(j) \cup {n}
  BY <1>3, <1>7, <1>9, <1>10 DEF Told, last
<1>12. Owed(j)' = Owed(j) \ {n} /\ n \in Owed(j)
  <2>1. \A q \in Pollers : Written(q, j)' <=> (Written(q, j) /\ q # p)
    BY <1>5 DEF Written
  <2>2. \A q \in Pollers : Written(q, j) /\ held[q][j].attempt = n => q = p
    BY <1>5 DEF BusInv, OneWriter, n
  <2>3. n \in Owed(j)
    BY <1>5 DEF Owed, n
  <2>4. \A q \in Pollers \ {p} : held'[q] = held[q]
    BY <1>4
  <2>5. \A m \in Owed(j)' : m \in Owed(j) /\ m # n
    BY <2>1, <2>2, <2>4 DEF Owed
  <2>6. \A m \in Owed(j) : m # n => m \in Owed(j)'
    BY <2>1, <2>4 DEF Owed, n
  <2>7. QED
    BY <2>3, <2>5, <2>6
<1>13. \A k \in Jobs \ {j} : /\ EndsOn(k)' = EndsOn(k) /\ Told(k)' = Told(k)
                             /\ Owed(k)' = Owed(k)
  <2>1. \A k \in Jobs \ {j} : EndsOn(k)' = EndsOn(k) /\ Told(k)' = Told(k)
    BY <1>7 DEF EndsOn, Told
  <2>2. \A k \in Jobs \ {j}, q \in Pollers :
          (Written(q, k)' <=> Written(q, k)) /\ (Written(q, k) => held'[q] = held[q])
    BY <1>4, <1>5 DEF Written
  <2>3. \A k \in Jobs \ {j} : Owed(k)' = Owed(k)
    BY <2>2 DEF Owed
  <2>4. QED
    BY <2>1, <2>3
<1>14. \A k \in Jobs : Over(k)' = Over(k) /\ (Enqueued(k)' <=> Enqueued(k))
  BY <1>2 DEF Over, Enqueued
<1>15. BusMatchesStore'
  <2> SUFFICES ASSUME NEW k \in Jobs, Enqueued(k)
               PROVE  JobMatches(k)'
    BY <1>14 DEF BusMatchesStore, JobMatches
  <2>1. JobMatches(k)
    BY DEF BusInv, BusMatchesStore, JobMatches
  <2>2. CASE k # j
    BY <1>2, <1>7, <1>13, <1>14, <2>1, <2>2 DEF JobMatches, AnnouncedRunning
  <2>3. CASE k = j
    <3>1. Told(j)' \cap Owed(j)' = {} /\ Told(j)' \cup Owed(j)' = Over(j)'
      BY <1>11, <1>12, <1>14, <2>1, <2>3 DEF JobMatches
    <3>2. n \notin Told(j)
      BY <1>12, <2>1, <2>3 DEF JobMatches
    <3>3. \A i, m \in EndsOn(j)' : log'[j][i].attempt = log'[j][m].attempt => i = m
      <4>1. \A i \in EndsOn(j) : log'[j][i].attempt # n
        BY <1>10, <3>2 DEF Told
      <4>2. log'[j][last].attempt = n
        BY <1>3, <1>7 DEF last
      <4>3. \A i, m \in EndsOn(j) : log'[j][i].attempt = log'[j][m].attempt => i = m
        BY <1>10, <2>1, <2>3 DEF JobMatches
      <4>4. QED
        BY <1>9, <4>1, <4>2, <4>3
    <3>4. \A i \in EndsOn(j)' : \E b \in 1 .. i - 1 : /\ log'[j][b].to = "running"
                                                     /\ log'[j][b].attempt = log'[j][i].attempt
      <4>1. ASSUME NEW i \in EndsOn(j)
            PROVE  \E b \in 1 .. i - 1 : /\ log'[j][b].to = "running"
                                         /\ log'[j][b].attempt = log'[j][i].attempt
        <5>1. AnnouncedRunning(j, log[j][i].attempt, i - 1)
          BY <2>1, <2>3 DEF JobMatches
        <5>2. log[j][i].attempt \in Nat /\ i - 1 \in 0 .. Len(log[j])
          <6>1. log[j] \in Seq(Transitions(j)) /\ i \in 1 .. Len(log[j]) /\ AttemptLimit(j) \in Nat
            BY <1>10, AttemptLimitType DEF Inv, TypeOK
          <6>2. log[j][i] \in Transitions(j)
            BY <6>1
          <6>3. QED
            BY <6>1, <6>2 DEF Transitions
        <5>3. log'[j][i] = log[j][i]
          BY <1>10
        <5>4. PICK b \in 1 .. i - 1 : /\ log[j][b].to = "running"
                                     /\ log[j][b].attempt = log[j][i].attempt
          BY <5>1 DEF AnnouncedRunning
        <5>5. log'[j][b] = log[j][b]
          BY <1>8, <5>2
        <5>6. QED
          BY <5>3, <5>4, <5>5
      <4>2. \E b \in 1 .. last - 1 : /\ log'[j][b].to = "running"
                                    /\ log'[j][b].attempt = log'[j][last].attempt
        <5>1. AnnouncedRunning(j, n, Len(log[j]))
          BY <1>5 DEF BusInv, RunsAnnounced, Written, n
        <5>2. PICK b \in 1 .. Len(log[j]) : log[j][b].to = "running" /\ log[j][b].attempt = n
          BY <5>1 DEF AnnouncedRunning
        <5>3. log'[j][b] = log[j][b] /\ b \in 1 .. last - 1 /\ log'[j][last].attempt = n
          BY <1>3, <1>7, <1>8 DEF last
        <5>4. QED
          BY <5>2, <5>3
      <4>3. QED
        BY <1>9, <4>1, <4>2
    <3>5. \A i \in EndsOn(j)' :
            log'[j][i].attempt = store'[j].attempt => log'[j][i].to = store'[j].state
      <4>1. n = store[j].attempt => held[p][j].state = store[j].state
        BY <1>5 DEF BusInv, WrittenIsStored, n
      <4>2. QED
        BY <1>2, <1>3, <1>7, <1>9, <1>10, <2>1, <2>3, <4>1 DEF JobMatches, last
    <3>6. QED
      BY <2>3, <3>1, <3>3, <3>4, <3>5 DEF JobMatches, AnnouncedRunning
  <2>4. QED
    BY <2>2, <2>3
<1>16. UntouchedBefore'
  <2>1. rest \subseteq DOMAIN held[p]
    BY DEF rest
  <2>2. QED
    BY <1>4, <1>6, <1>7, <1>14, <2>1 DEF BusInv, UntouchedBefore
<1>17. RunsAnnounced'
  <2> SUFFICES ASSUME NEW q \in Pollers, NEW k \in Jobs, Executing(q, k)'
               PROVE  AnnouncedRunning(k, held[q][k].attempt, Len(log[k]))'
    BY DEF RunsAnnounced
  <2>1. Executing(q, k) /\ held'[q] = held[q]
    BY <1>4, <1>5
  <2>2. PICK b \in 1 .. Len(log[k]) :
          log[k][b].to = "running" /\ log[k][b].attempt = held[q][k].attempt
    BY <2>1 DEF BusInv, RunsAnnounced, AnnouncedRunning
  <2>3. log'[k][b] = log[k][b] /\ b \in 1 .. Len(log'[k])
    BY <1>7, <1>8, <2>2
  <2>4. QED
    BY <2>1, <2>2, <2>3 DEF AnnouncedRunning
<1>18. OneWriter' /\ WrittenIsStored'
  <2>1. \A q \in Pollers, k \in Jobs : Written(q, k)' => Written(q, k) /\ held'[q] = held[q]
    BY <1>4, <1>5 DEF Written
  <2>2. QED
    BY <1>2, <2>1 DEF BusInv, OneWriter, WrittenIsStored
<1>19. QED
  BY <1>15, <1>16, <1>17, <1>18 DEF BusInv

\* A new record has no attempt behind it, and its job no trace on the bus.
LEMMA EnqueueBus ==
  ASSUME Inv, BusInv, NEW j \in Jobs, NEW delay \in Delays, Enqueue(j, delay)
  PROVE  BusInv'
<1> DEFINE new == [state |-> "scheduled", attempt |-> 0, dueAt |-> now + delay]
<1>1. /\ store[j] = NoRecord /\ store' = [store EXCEPT ![j] = new]
      /\ UNCHANGED <<log, pc, held, current>>
  BY DEF Enqueue, Put, loopVars
<1>2. /\ store'[j].attempt = 0 /\ store'[j].state = "scheduled"
      /\ \A k \in Jobs \ {j} : store'[k] = store[k]
      /\ \A k \in Jobs \ {j} : Enqueued(k)' <=> Enqueued(k)
  BY <1>1 DEF Inv, TypeOK, Enqueued
<1>3. \A q \in Pollers, k \in Jobs :
        (Written(q, k)' <=> Written(q, k)) /\ (Executing(q, k)' <=> Executing(q, k))
  BY <1>1 DEF Written, Executing
<1>4. log[j] = <<>> /\ \A q \in Pollers : j \notin DOMAIN held[q] /\ ~Written(q, j)
  BY <1>1 DEF BusInv, UntouchedBefore, Enqueued, Inv, StagesAgree, Written, Executing
<1>5. \A k \in Jobs : EndsOn(k)' = EndsOn(k) /\ Told(k)' = Told(k) /\ Owed(k)' = Owed(k)
  BY <1>1, <1>3 DEF EndsOn, Told, Owed
<1>6. EndsOn(j) = {} /\ Told(j) = {} /\ Owed(j) = {} /\ Over(j)' = {}
  BY <1>2, <1>4 DEF EndsOn, Told, Owed, Over
<1>7. BusMatchesStore'
  <2> SUFFICES ASSUME NEW k \in Jobs, Enqueued(k)'
               PROVE  JobMatches(k)'
    BY DEF BusMatchesStore, JobMatches
  <2>1. CASE k = j
    BY <1>5, <1>6, <2>1 DEF JobMatches
  <2>2. CASE k # j
    <3>1. JobMatches(k) /\ store'[k] = store[k] /\ Over(k)' = Over(k)
      BY <1>2, <2>2 DEF BusInv, BusMatchesStore, JobMatches, Over
    <3>2. QED
      BY <1>1, <1>5, <3>1 DEF JobMatches, AnnouncedRunning
  <2>3. QED
    BY <2>1, <2>2
<1>8. UntouchedBefore' /\ RunsAnnounced' /\ OneWriter'
  BY <1>1, <1>2, <1>3, <1>4
     DEF BusInv, UntouchedBefore, RunsAnnounced, OneWriter, AnnouncedRunning, Enqueued
<1>9. WrittenIsStored'
  BY <1>1, <1>2, <1>3, <1>4 DEF BusInv, WrittenIsStored
<1>10. QED
  BY <1>7, <1>8, <1>9 DEF BusInv

LEMMA NextBus == Inv /\ Inv' /\ BusInv /\ [Next]_vars => BusInv'
<1> SUFFICES ASSUME Inv, Inv', BusInv, [Next]_vars PROVE BusInv'
  OBVIOUS
<1>1. ASSUME NEW p \in Pollers, Poll(p) PROVE BusInv'
  BY <1>1, ReadClockBus, ClaimBus, StartBus, HandleBus, PersistBus, AnnounceBus DEF Poll
<1>2. CASE \E j \in Jobs, delay \in Delays : Enqueue(j, delay)
  BY <1>2, EnqueueBus
<1>3. CASE Elapse \/ (\E ms \in Advances : Advance(ms)) \/ ResetClock \/ UNCHANGED vars
  <2>1. UNCHANGED <<store, log, pc, held, current>>
    BY <1>3 DEF Elapse, Advance, ResetClock, vars, storeVars, loopVars
  <2>2. \A q \in Pollers, k \in Jobs :
          (Written(q, k)' <=> Written(q, k)) /\ (Executing(q, k)' <=> Executing(q, k))
    BY <2>1 DEF Written, Executing
  <2>3. QED
    BY <2>1, <2>2, QuietBus
<1>4. QED
  BY <1>1, <1>2, <1>3 DEF Next

\* Whatever loops share the store and however their steps fall, the bus tells every
\* attempt that ended, once, after its start, and the last one with the state the
\* store has (Invariant 4, scheduler.rs).
THEOREM SchedulerBusMatchesStore == Spec => []BusMatchesStore
<1>1. Inv /\ BusInv /\ [Next]_vars => (Inv /\ BusInv)'
  BY NextInv, NextBus
<1>2. BusInv => BusMatchesStore
  BY DEF BusInv
<1>3. QED
  BY <1>1, <1>2, InitInv, InitBus, PTL DEF Spec
=============================================================================
