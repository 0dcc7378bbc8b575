-------------------------- MODULE RedisQueueProofs --------------------------
(* Machine-checked proofs about RedisQueue, for every set of jobs and of    *)
(* processes, every retry limit, handler, resolution of the scores and      *)
(* number of crashes and of lost commands, replies and writes.              *)
EXTENDS RedisQueue, TLAPS

\* What the copies in the processes and the scheduled records promise: a copy whose
\* outcome is about to be written has ended, and is rescheduled only with attempts left.
CopiesAgree ==
  /\ \A p \in Procs : writing[p] # NoJob => writing[p] \in DOMAIN held[p]
  /\ \A p \in Procs : \A j \in DOMAIN held[p] :
       /\ held[p][j].readable
       /\ writing[p] = j =>
            /\ held[p][j].state # "running"
            /\ held[p][j].state = "scheduled" => held[p][j].attempt < MaxAttempts[j]
            /\ held[p][j].state = "dead" => held[p][j].attempt >= MaxAttempts[j]
  /\ \A j \in Stored : hash[j].state = "scheduled" => hash[j].attempt < AttemptLimit(j)

Inv == KeysAgree /\ RunningIsHeld /\ CopiesAgree

\* The invariant, taken apart by what it speaks of: the two keys alone, and the
\* processes with what they hold.
KeysInv ==
  /\ DOMAIN hash = Jobs
  /\ \A j \in Stored : hash[j] \in JobRecord(j)
  /\ DOMAIN due \subseteq Jobs
  /\ due = [j \in DOMAIN due |-> due[j]]
  /\ DOMAIN due = {j \in Stored : hash[j].state = "scheduled"}
  /\ \A j \in DOMAIN due : due[j] = Score(hash[j].dueAt)
  /\ \A j \in Stored : ~hash[j].readable => j \in NoBackoff /\ hash[j].attempt > 0
  /\ \A j \in Stored : hash[j].state = "scheduled" => hash[j].attempt < AttemptLimit(j)

ProcsTyped ==
  /\ up \subseteq Procs
  /\ DOMAIN held = Procs
  /\ \A p \in Procs :
       /\ DOMAIN held[p] \subseteq Jobs
       /\ held[p] = [j \in DOMAIN held[p] |-> held[p][j]]
       /\ \A j \in DOMAIN held[p] : held[p][j] \in JobRecord(j)
  /\ writing \in [Procs -> Jobs \cup {NoJob}]
  /\ failures \in 0 .. MaxFailures
  /\ harmed \subseteq Jobs

Copies ==
  /\ \A p \in Procs : writing[p] # NoJob => writing[p] \in DOMAIN held[p]
  /\ \A p \in Procs : \A j \in DOMAIN held[p] :
       /\ held[p][j].readable
       /\ writing[p] = j =>
            /\ held[p][j].state # "running"
            /\ held[p][j].state = "scheduled" => held[p][j].attempt < MaxAttempts[j]
            /\ held[p][j].state = "dead" => held[p][j].attempt >= MaxAttempts[j]

LEMMA InvParts == Inv <=> KeysInv /\ ProcsTyped /\ RunningIsHeld /\ Copies
<1>1. QED
  BY Zenon DEF Inv, KeysAgree, TypeOK, CopiesAgree, KeysInv, ProcsTyped, Copies

LEMMA InvPartsPrimed == Inv' <=> KeysInv' /\ ProcsTyped' /\ RunningIsHeld' /\ Copies'
<1>1. QED
  BY Zenon DEF Inv, KeysAgree, TypeOK, CopiesAgree, KeysInv, ProcsTyped, Copies

LEMMA AttemptLimitType ==
  \A j \in Jobs : /\ MaxAttempts[j] \in Nat /\ AttemptLimit(j) \in Nat
                  /\ AttemptLimit(j) >= 1 /\ AttemptLimit(j) >= MaxAttempts[j]
<1>1. \A j \in Jobs : MaxAttempts[j] \in Nat
  BY RedisAssumption
<1>2. QED
  BY <1>1 DEF AttemptLimit

\* A stored or claimed record is no NoRecord.
LEMMA RecordIsOne == \A j \in Jobs : NoRecord \notin JobRecord(j)
<1>1. \A j \in Jobs : JobRecord(j) \subseteq
        [state : {"scheduled", "running", "succeeded", "dead"}, attempt : Nat, dueAt : Nat,
         readable : BOOLEAN]
  BY AttemptLimitType, RedisAssumption DEF JobRecord, States, Times
<1>2. QED
  BY <1>1, RedisAssumption

\* What the script writes back for a record it takes.
LEMMA MarkedType ==
  ASSUME NEW j \in Jobs, NEW job \in JobRecord(j), job.attempt < AttemptLimit(j)
  PROVE  /\ Marked(j, job) \in JobRecord(j)
         /\ Marked(j, job).state = "running"
         /\ Marked(j, job).attempt = job.attempt + 1
         /\ Marked(j, job).dueAt = job.dueAt
         /\ Marked(j, job).readable <=> job.readable /\ j \notin NoBackoff
<1>1. /\ job = [state |-> job.state, attempt |-> job.attempt, dueAt |-> job.dueAt,
                readable |-> job.readable]
      /\ job.attempt \in 0 .. AttemptLimit(j) /\ job.dueAt \in Times
      /\ job.readable \in BOOLEAN
  BY DEF JobRecord
<1>2. AttemptLimit(j) \in Nat
  BY AttemptLimitType
<1> HIDE DEF AttemptLimit, Times
<1>3. PICK r \in BOOLEAN : r = (job.readable /\ j \notin NoBackoff)
  BY Zenon
<1>4. Marked(j, job) = [job EXCEPT !.state = "running", !.attempt = job.attempt + 1, !.readable = r]
  BY <1>3, Zenon DEF Marked
<1>5. job.attempt + 1 \in 0 .. AttemptLimit(j)
  BY <1>1, <1>2
<1>6. Marked(j, job) = [state |-> "running", attempt |-> job.attempt + 1, dueAt |-> job.dueAt,
                        readable |-> r]
  BY <1>1, <1>4
<1>7. Marked(j, job) \in JobRecord(j)
  BY <1>1, <1>5, <1>6 DEF JobRecord, States
<1>8. Marked(j, job).readable = r
  BY <1>6
<1>9. /\ Marked(j, job).state = "running"
      /\ Marked(j, job).attempt = job.attempt + 1
      /\ Marked(j, job).dueAt = job.dueAt
  BY <1>6
<1>10. Marked(j, job).readable <=> job.readable /\ j \notin NoBackoff
  BY <1>3, <1>8, Zenon
<1>11. QED
  BY <1>7, <1>9, <1>10, Zenon

\* What the handler's answer makes of a copy.
LEMMA SettledType ==
  ASSUME NEW j \in Jobs, NEW job \in JobRecord(j), NEW ok \in BOOLEAN, NEW t \in Times
  PROVE  /\ Settled(j, job, ok, t) \in JobRecord(j)
         /\ Settled(j, job, ok, t).state # "running"
         /\ Settled(j, job, ok, t).attempt = job.attempt
         /\ Settled(j, job, ok, t).readable = job.readable
         /\ Settled(j, job, ok, t).state = "scheduled" => job.attempt < MaxAttempts[j]
         /\ Settled(j, job, ok, t).state = "dead" => job.attempt >= MaxAttempts[j]
<1>1. /\ job.attempt \in 0 .. AttemptLimit(j) /\ job.dueAt \in Times /\ job.state \in States
      /\ job.readable \in BOOLEAN
      /\ job = [state |-> job.state, attempt |-> job.attempt, dueAt |-> job.dueAt,
                readable |-> job.readable]
      /\ MaxAttempts[j] \in Nat /\ AttemptLimit(j) \in Nat
  BY AttemptLimitType DEF JobRecord
<1> HIDE DEF AttemptLimit, Times
<1>2. CASE ok
  BY <1>1, <1>2 DEF Settled, JobRecord, States
<1>3. CASE ~ok /\ job.attempt < MaxAttempts[j]
  BY <1>1, <1>3 DEF Settled, CanRetry, JobRecord, States
<1>4. CASE ~ok /\ ~(job.attempt < MaxAttempts[j])
  BY <1>1, <1>4 DEF Settled, CanRetry, JobRecord, States
<1>5. QED
  BY <1>2, <1>3, <1>4

LEMMA InitInv == Init => Inv
<1> SUFFICES ASSUME Init PROVE Inv
  OBVIOUS
<1>1. TypeOK
  BY RedisAssumption DEF Init, TypeOK, Stored, NoCopies
<1>2. KeysAgree
  BY <1>1 DEF Init, KeysAgree, Stored
<1>3. RunningIsHeld
  BY DEF Init, RunningIsHeld, Stored, NoCopies
<1>4. CopiesAgree
  BY DEF Init, CopiesAgree, Stored, NoCopies
<1>5. QED
  BY <1>2, <1>3, <1>4 DEF Inv

-----------------------------------------------------------------------------
(* What the script and put do to the two keys.                             *)

\* The script takes scheduled records that nobody holds, and leaves the others alone.
LEMMA ScriptStep ==
  ASSUME Inv, NEW t \in Times, Script(t)
  PROVE  /\ ByScore(t) \subseteq Jobs
         /\ \A j \in ByScore(t) :
              /\ hash[j] # NoRecord /\ hash[j] \in JobRecord(j)
              /\ hash[j].state = "scheduled" /\ hash[j].attempt < AttemptLimit(j)
              /\ hash'[j] = Marked(j, hash[j]) /\ hash'[j] # NoRecord
              /\ hash'[j] \in JobRecord(j)
              /\ hash'[j].state = "running" /\ hash'[j].attempt = hash[j].attempt + 1
              /\ hash'[j].readable <=> hash[j].readable /\ j \notin NoBackoff
              /\ \A q \in Procs : j \notin DOMAIN held[q]
         /\ \A j \in Jobs \ ByScore(t) : hash'[j] = hash[j]
         /\ DOMAIN hash' = Jobs
         /\ due' = [j \in DOMAIN due \ ByScore(t) |-> due[j]]
<1> DEFINE S == ByScore(t)
<1>1. S \subseteq DOMAIN due /\ S \subseteq Jobs
  BY InvParts DEF KeysInv, ByScore
<1>2. /\ hash' = [j \in Jobs |-> IF j \in S THEN Marked(j, hash[j]) ELSE hash[j]]
      /\ due' = [j \in DOMAIN due \ S |-> due[j]]
  BY DEF Script
<1> HIDE DEF S
<1>3. \A j \in S : /\ hash[j] # NoRecord /\ hash[j] \in JobRecord(j)
                   /\ hash[j].state = "scheduled" /\ hash[j].attempt < AttemptLimit(j)
  BY <1>1, InvParts DEF KeysInv, Stored
<1>4. \A j \in S : \A q \in Procs : j \notin DOMAIN held[q]
  BY <1>1, <1>3, InvParts DEF RunningIsHeld
<1>5. ASSUME NEW j \in S
      PROVE  /\ hash'[j] = Marked(j, hash[j]) /\ hash'[j] # NoRecord
             /\ hash'[j] \in JobRecord(j)
             /\ hash'[j].state = "running" /\ hash'[j].attempt = hash[j].attempt + 1
             /\ hash'[j].readable <=> hash[j].readable /\ j \notin NoBackoff
  <2>1. j \in Jobs /\ hash[j] \in JobRecord(j) /\ hash[j].attempt < AttemptLimit(j)
    BY <1>1, <1>3
  <2>2. hash'[j] = Marked(j, hash[j])
    BY <1>2, <2>1
  <2>3. /\ Marked(j, hash[j]) \in JobRecord(j)
        /\ Marked(j, hash[j]).state = "running"
        /\ Marked(j, hash[j]).attempt = hash[j].attempt + 1
        /\ Marked(j, hash[j]).readable <=> hash[j].readable /\ j \notin NoBackoff
    BY <2>1, MarkedType, Zenon
  <2>4. Marked(j, hash[j]) # NoRecord
    BY <2>1, <2>3, RecordIsOne
  <2>5. QED
    BY <2>2, <2>3, <2>4, Zenon
<1>6. /\ DOMAIN hash' = Jobs /\ \A j \in Jobs \ S : hash'[j] = hash[j]
  BY <1>2
<1>7. QED
  BY <1>1, <1>2, <1>3, <1>4, <1>5, <1>6, Zenon DEF S

\* The keys agree after the script.
LEMMA ScriptKeys ==
  ASSUME Inv, NEW t \in Times, Script(t)
  PROVE  KeysInv'
<1> DEFINE S == ByScore(t)
<1>1. /\ S \subseteq Jobs
      /\ \A j \in S : /\ hash[j] # NoRecord /\ hash[j] \in JobRecord(j)
                      /\ hash'[j] # NoRecord /\ hash'[j] \in JobRecord(j)
                      /\ hash'[j].state = "running" /\ hash'[j].attempt = hash[j].attempt + 1
      /\ \A j \in Jobs \ S : hash'[j] = hash[j]
      /\ DOMAIN hash' = Jobs
      /\ due' = [j \in DOMAIN due \ S |-> due[j]]
  BY ScriptStep
<1>2. \A j \in S : /\ hash'[j].readable <=> hash[j].readable /\ j \notin NoBackoff
                   /\ hash[j].readable \/ j \in NoBackoff
                   /\ hash'[j].attempt > 0
  <2>1. \A j \in S : hash'[j].readable <=> hash[j].readable /\ j \notin NoBackoff
    BY ScriptStep, Zenon
  <2>2. \A j \in S : hash[j].readable \/ j \in NoBackoff
    BY <1>1, InvParts, Zenon DEF KeysInv, Stored
  <2>3. \A j \in S : hash[j].attempt \in Nat
    BY <1>1, AttemptLimitType DEF JobRecord
  <2>4. QED
    BY <1>1, <2>1, <2>2, <2>3
<1> HIDE DEF S
<1>3. \A j \in Stored' : hash'[j] \in JobRecord(j)
  BY <1>1, InvParts DEF KeysInv, Stored
<1>4. DOMAIN due' \subseteq Jobs /\ due' = [j \in DOMAIN due' |-> due'[j]]
  BY <1>1, InvParts DEF KeysInv
<1>5. DOMAIN due' = {j \in Stored' : hash'[j].state = "scheduled"}
  BY <1>1, InvParts DEF KeysInv, Stored
<1>6. \A j \in DOMAIN due' : due'[j] = Score(hash'[j].dueAt)
  <2>1. \A j \in DOMAIN due' : j \in DOMAIN due /\ j \in Jobs \ S /\ due'[j] = due[j]
    BY <1>1, InvParts DEF KeysInv
  <2>2. QED
    BY <1>1, <2>1, InvParts, Zenon DEF KeysInv
<1>7. \A j \in Stored' : ~hash'[j].readable => j \in NoBackoff /\ hash'[j].attempt > 0
  <2>1. ASSUME NEW j \in Stored', ~hash'[j].readable
        PROVE  j \in NoBackoff /\ hash'[j].attempt > 0
    <3>1. CASE j \in S
      BY <1>2, <2>1, <3>1, Zenon
    <3>2. CASE j \notin S
      <4>1. j \in Stored /\ hash'[j] = hash[j]
        BY <1>1, <3>2 DEF Stored
      <4>2. QED
        BY <2>1, <4>1, InvParts, Zenon DEF KeysInv
    <3>3. QED
      BY <3>1, <3>2
  <2>2. QED
    BY <2>1
<1>8. \A j \in Stored' : hash'[j].state = "scheduled" => hash'[j].attempt < AttemptLimit(j)
  BY <1>1, InvParts DEF KeysInv, Stored
<1>9. QED
  BY <1>1, <1>3, <1>4, <1>5, <1>6, <1>7, <1>8, Zenon DEF KeysInv

\* The keys agree after a put of a readable record that is scheduled with attempts
\* left, or ended.
LEMMA PutKeys ==
  ASSUME Inv, NEW j \in Jobs, NEW job \in JobRecord(j), Put(j, job), job.readable,
         job.state = "scheduled" => job.attempt < AttemptLimit(j)
  PROVE  /\ KeysInv'
         /\ hash'[j] = job /\ hash'[j] # NoRecord /\ j \in Stored'
         /\ \A k \in Jobs \ {j} : hash'[k] = hash[k]
<1>1. job # NoRecord
  BY RecordIsOne
<1>2. /\ DOMAIN hash' = Jobs /\ hash'[j] = job
      /\ \A k \in Jobs \ {j} : hash'[k] = hash[k]
  BY InvParts DEF KeysInv, Put
<1>3. /\ DOMAIN due' = IF job.state = "scheduled" THEN DOMAIN due \cup {j} ELSE DOMAIN due \ {j}
      /\ \A k \in DOMAIN due' : due'[k] = IF k = j THEN Score(job.dueAt) ELSE due[k]
      /\ due' = [k \in DOMAIN due' |-> due'[k]]
  BY DEF Put, DueAfter
<1> HIDE DEF Score
<1>4. j \in Stored' /\ \A k \in Jobs \ {j} : k \in Stored' <=> k \in Stored
  BY <1>1, <1>2 DEF Stored
<1>5. Stored' \subseteq Jobs
  BY DEF Stored
<1>6. \A k \in Stored' : hash'[k] \in JobRecord(k)
  BY <1>2, <1>4, <1>5, InvParts DEF KeysInv
<1>7. DOMAIN due' \subseteq Jobs
  BY <1>3, InvParts DEF KeysInv
<1>8. DOMAIN due' = {k \in Stored' : hash'[k].state = "scheduled"}
  <2>1. DOMAIN due = {k \in Stored : hash[k].state = "scheduled"}
    BY InvParts DEF KeysInv
  <2>2. ASSUME NEW k \in Jobs
        PROVE  k \in DOMAIN due' <=> k \in Stored' /\ hash'[k].state = "scheduled"
    <3>1. CASE k = j
      BY <1>2, <1>3, <1>4, <3>1
    <3>2. CASE k # j
      BY <1>2, <1>3, <1>4, <2>1, <3>2
    <3>3. QED
      BY <3>1, <3>2
  <2>3. QED
    BY <1>5, <1>7, <2>2
<1>9. \A k \in DOMAIN due' : due'[k] = Score(hash'[k].dueAt)
  <2>1. ASSUME NEW k \in DOMAIN due' PROVE due'[k] = Score(hash'[k].dueAt)
    <3>1. CASE k = j
      BY <1>2, <1>3, <3>1
    <3>2. CASE k # j
      <4>1. k \in DOMAIN due /\ due'[k] = due[k] /\ hash'[k] = hash[k]
        BY <1>2, <1>3, <1>7, <3>2
      <4>2. due[k] = Score(hash[k].dueAt)
        BY <4>1, InvParts DEF KeysInv
      <4>3. QED
        BY <4>1, <4>2
    <3>3. QED
      BY <3>1, <3>2
  <2>2. QED
    BY <2>1
<1>10. \A k \in Stored' : ~hash'[k].readable => k \in NoBackoff /\ hash'[k].attempt > 0
  <2>1. ASSUME NEW k \in Stored', ~hash'[k].readable, k # j
        PROVE  k \in NoBackoff /\ hash'[k].attempt > 0
    <3>1. k \in Stored /\ hash'[k] = hash[k]
      BY <1>2, <1>4, <1>5, <2>1
    <3>2. QED
      BY <2>1, <3>1, InvParts, Zenon DEF KeysInv
  <2>2. hash'[j].readable
    BY <1>2, Zenon
  <2>3. QED
    BY <2>1, <2>2, Zenon
<1>11. \A k \in Stored' : hash'[k].state = "scheduled" => hash'[k].attempt < AttemptLimit(k)
  BY <1>2, <1>4, <1>5, InvParts DEF KeysInv
<1>12. KeysInv'
  BY <1>2, <1>3, <1>6, <1>7, <1>8, <1>9, <1>10, <1>11, Zenon DEF KeysInv
<1>13. QED
  BY <1>1, <1>2, <1>4, <1>12, Zenon

\* Steps that leave Redis alone.
LEMMA SameKeys == ASSUME Inv, UNCHANGED <<hash, due>> PROVE KeysInv' /\ Stored' = Stored
<1>1. hash' = hash /\ due' = due
  OBVIOUS
<1>2. Stored' = Stored
  BY <1>1 DEF Stored
<1>3. QED
  BY <1>1, <1>2, InvParts, Zenon DEF KeysInv

-----------------------------------------------------------------------------
(* Every step keeps the invariant.                                         *)

LEMMA EnqueueInv ==
  ASSUME Inv, NEW p \in Procs, NEW j \in Jobs, NEW t \in Times, Enqueue(p, j, t)
  PROVE  Inv'
<1> DEFINE new == [state |-> "scheduled", attempt |-> 0, dueAt |-> t, readable |-> TRUE]
<1>1. /\ hash[j] = NoRecord /\ Put(j, new)
      /\ up' = up /\ held' = held /\ writing' = writing
      /\ failures' = failures /\ harmed' = harmed
  BY DEF Enqueue
<1>2. /\ new \in JobRecord(j) /\ new.readable
      /\ new.state = "scheduled" /\ new.attempt < AttemptLimit(j)
  BY AttemptLimitType DEF JobRecord, States
<1> HIDE DEF new
<1>3. /\ KeysInv' /\ hash'[j] = new
      /\ \A k \in Jobs \ {j} : hash'[k] = hash[k]
  BY <1>1, <1>2, PutKeys
<1>4. \A q \in Procs : j \notin DOMAIN held[q]
  BY <1>1, InvParts DEF RunningIsHeld, Stored
<1>5. ProcsTyped' /\ Copies'
  BY <1>1, InvParts, Zenon DEF ProcsTyped, Copies
<1>6. RunningIsHeld'
  <2>1. \A k \in Stored' \ harmed' :
          hash'[k].state = "running" => \E q \in Procs : k \in DOMAIN held'[q]
    BY <1>1, <1>2, <1>3, InvParts DEF RunningIsHeld, Stored
  <2>2. ASSUME NEW q \in Procs, NEW k \in DOMAIN held'[q]
        PROVE  /\ q \in up'
               /\ k \in Stored' /\ hash'[k].state = "running"
               /\ held'[q][k].attempt = hash'[k].attempt
               /\ writing'[q] # k => held'[q][k] = hash'[k]
    <3>1. k \in DOMAIN held[q] /\ k \in Jobs \ {j} /\ hash'[k] = hash[k]
      BY <1>1, <1>3, <1>4, InvParts DEF ProcsTyped
    <3>2. QED
      BY <1>1, <3>1, InvParts DEF RunningIsHeld, Stored
  <2>3. \A q, r \in Procs : DOMAIN held'[q] \cap DOMAIN held'[r] # {} => q = r
    BY <1>1, InvParts DEF RunningIsHeld
  <2>4. QED
    BY <2>1, <2>2, <2>3 DEF RunningIsHeld
<1>7. QED
  BY <1>3, <1>5, <1>6, InvPartsPrimed

\* The process that claims held nothing; what it takes, nobody held.
LEMMA ClaimHolds ==
  ASSUME Inv, NEW p \in Procs, NEW t \in Times, Claim(p, t), ~Undecodable(ByScore(t))
  PROVE  ProcsTyped' /\ RunningIsHeld' /\ Copies'
<1> DEFINE S == ByScore(t)
<1>1. /\ p \in up /\ DOMAIN held[p] = {}
      /\ held' = [held EXCEPT ![p] = [j \in S |-> Marked(j, hash[j])]]
      /\ up' = up /\ writing' = writing /\ failures' = failures /\ harmed' = harmed
      /\ Script(t)
  BY DEF Claim, Ready
<1>2. /\ S \subseteq Jobs
      /\ \A j \in S : /\ hash'[j] = Marked(j, hash[j]) /\ hash'[j] # NoRecord
                      /\ hash'[j] \in JobRecord(j) /\ hash'[j].state = "running"
                      /\ \A q \in Procs : j \notin DOMAIN held[q]
      /\ \A j \in Jobs \ S : hash'[j] = hash[j]
  BY <1>1, ScriptStep
<1>3. \A j \in S : hash'[j].readable
  <2>1. \A j \in S : hash[j].readable /\ j \notin NoBackoff
    BY Zenon DEF Undecodable
  <2>2. QED
    BY <1>1, <2>1, ScriptStep, Zenon
<1> HIDE DEF S
<1>4. /\ DOMAIN held' = Procs
      /\ held'[p] = [j \in S |-> hash'[j]]
      /\ \A q \in Procs \ {p} : held'[q] = held[q]
  BY <1>1, <1>2, InvParts DEF ProcsTyped
<1>5. writing[p] = NoJob
  BY <1>1, InvParts DEF Copies, ProcsTyped
<1>6. ASSUME NEW q \in Procs, NEW k \in DOMAIN held'[q], q # p
      PROVE  k \in DOMAIN held[q] /\ held'[q][k] = held[q][k] /\ k \in Jobs \ S
             /\ hash'[k] = hash[k]
  BY <1>2, <1>4, <1>6, InvParts DEF ProcsTyped
<1>7. ProcsTyped'
  <2>1. ASSUME NEW q \in Procs
        PROVE  /\ DOMAIN held'[q] \subseteq Jobs
               /\ held'[q] = [j \in DOMAIN held'[q] |-> held'[q][j]]
               /\ \A j \in DOMAIN held'[q] : held'[q][j] \in JobRecord(j)
    <3>1. CASE q = p
      BY <1>2, <1>4, <3>1
    <3>2. CASE q # p
      BY <1>4, <3>2, InvParts DEF ProcsTyped
    <3>3. QED
      BY <3>1, <3>2
  <2>2. QED
    BY <1>1, <1>4, <2>1, InvParts DEF ProcsTyped
<1>8. Copies'
  <2>1. \A q \in Procs : writing'[q] # NoJob => writing'[q] \in DOMAIN held'[q]
    BY <1>1, <1>4, <1>5, InvParts DEF Copies
  <2>2. ASSUME NEW q \in Procs, NEW k \in DOMAIN held'[q]
        PROVE  /\ held'[q][k].readable
               /\ writing'[q] = k =>
                    /\ held'[q][k].state # "running"
                    /\ held'[q][k].state = "scheduled" => held'[q][k].attempt < MaxAttempts[k]
                    /\ held'[q][k].state = "dead" => held'[q][k].attempt >= MaxAttempts[k]
    <3>1. CASE q = p
      <4>1. k \in S /\ held'[q][k] = hash'[k] /\ k # NoJob
        BY <1>2, <1>4, <3>1, RedisAssumption
      <4>2. writing'[q] # k
        BY <1>1, <1>5, <3>1, <4>1
      <4>3. QED
        BY <1>3, <4>1, <4>2, Zenon
    <3>2. CASE q # p
      <4>1. k \in DOMAIN held[q] /\ held'[q][k] = held[q][k]
        BY <1>6, <3>2
      <4>2. QED
        BY <1>1, <4>1, InvParts, Zenon DEF Copies
    <3>3. QED
      BY <3>1, <3>2
  <2>3. QED
    BY <2>1, <2>2, Zenon DEF Copies
<1>9. RunningIsHeld'
  <2>1. ASSUME NEW q \in Procs, NEW r \in Procs, q # r
        PROVE  DOMAIN held'[q] \cap DOMAIN held'[r] = {}
    <3>1. DOMAIN held[q] \cap DOMAIN held[r] = {}
      BY <2>1, InvParts DEF RunningIsHeld
    <3>2. QED
      BY <1>2, <1>4, <2>1, <3>1
  <2>2. ASSUME NEW q \in Procs, NEW k \in DOMAIN held'[q]
        PROVE  /\ q \in up'
               /\ k \in Stored' /\ hash'[k].state = "running"
               /\ held'[q][k].attempt = hash'[k].attempt
               /\ writing'[q] # k => held'[q][k] = hash'[k]
    <3>1. CASE q = p
      BY <1>1, <1>2, <1>4, <3>1 DEF Stored
    <3>2. CASE q # p
      BY <1>1, <1>6, <3>2, InvParts DEF RunningIsHeld, Stored
    <3>3. QED
      BY <3>1, <3>2
  <2>3. ASSUME NEW k \in Stored' \ harmed', hash'[k].state = "running"
        PROVE  \E q \in Procs : k \in DOMAIN held'[q]
    <3>1. CASE k \in S
      BY <1>4, <3>1
    <3>2. CASE k \notin S
      <4>1. k \in Stored \ harmed /\ hash[k].state = "running"
        BY <1>1, <1>2, <2>3, <3>2 DEF Stored
      <4>2. PICK q \in Procs : k \in DOMAIN held[q]
        BY <4>1, InvParts DEF RunningIsHeld
      <4>3. q # p
        BY <1>1, <4>2
      <4>4. QED
        BY <1>4, <4>2, <4>3
    <3>3. QED
      BY <3>1, <3>2
  <2>4. QED
    BY <2>1, <2>2, <2>3, Zenon DEF RunningIsHeld
<1>10. QED
  BY <1>7, <1>8, <1>9

\* A claim whose batch is lost, by a reply that never came or does not decode.
LEMMA ClaimLost ==
  ASSUME Inv, NEW t \in Times, Script(t),
         up' = up, held' = held, writing' = writing, failures' \in 0 .. MaxFailures,
         harmed' = harmed \cup ByScore(t)
  PROVE  ProcsTyped' /\ RunningIsHeld' /\ Copies'
<1> DEFINE S == ByScore(t)
<1>1. /\ S \subseteq Jobs
      /\ \A j \in S : \A q \in Procs : j \notin DOMAIN held[q]
      /\ \A j \in Jobs \ S : hash'[j] = hash[j]
  BY ScriptStep
<1> HIDE DEF S
<1>2. ProcsTyped' /\ Copies'
  <2>1. ProcsTyped'
    BY <1>1, InvParts DEF ProcsTyped, S
  <2>2. Copies'
    BY InvParts, Zenon DEF Copies
  <2>3. QED
    BY <2>1, <2>2
<1>3. ASSUME NEW q \in Procs, NEW k \in DOMAIN held[q]
      PROVE  k \in Jobs \ S /\ hash'[k] = hash[k]
  BY <1>1, InvParts DEF ProcsTyped
<1>4. \A k \in Stored' \ harmed' : hash'[k] = hash[k] /\ k \in Stored \ harmed
  BY <1>1 DEF Stored, S
<1>5. RunningIsHeld'
  <2>1. ASSUME NEW q \in Procs, NEW k \in DOMAIN held'[q]
        PROVE  /\ q \in up'
               /\ k \in Stored' /\ hash'[k].state = "running"
               /\ held'[q][k].attempt = hash'[k].attempt
               /\ writing'[q] # k => held'[q][k] = hash'[k]
    BY <1>3, InvParts DEF RunningIsHeld, Stored
  <2>2. \A k \in Stored' \ harmed' :
          hash'[k].state = "running" => \E q \in Procs : k \in DOMAIN held'[q]
    BY <1>4, InvParts, Zenon DEF RunningIsHeld
  <2>3. \A q, r \in Procs : DOMAIN held'[q] \cap DOMAIN held'[r] # {} => q = r
    BY InvParts, Zenon DEF RunningIsHeld
  <2>4. QED
    BY <2>1, <2>2, <2>3 DEF RunningIsHeld
<1>6. QED
  BY <1>2, <1>5

LEMMA ClaimInv ==
  ASSUME Inv, NEW p \in Procs, NEW t \in Times, Claim(p, t) \/ ClaimUnanswered(p, t)
  PROVE  Inv'
<1>1. Script(t)
  BY DEF Claim, ClaimUnanswered
<1>2. KeysInv'
  BY <1>1, ScriptKeys
<1>3. ProcsTyped' /\ RunningIsHeld' /\ Copies'
  <2>1. CASE Claim(p, t) /\ ~Undecodable(ByScore(t))
    BY <2>1, ClaimHolds
  <2>2. CASE Claim(p, t) /\ Undecodable(ByScore(t))
    <3>1. /\ up' = up /\ held' = held /\ writing' = writing /\ failures' = failures
          /\ harmed' = harmed \cup ByScore(t)
      BY <2>2 DEF Claim
    <3>2. failures' \in 0 .. MaxFailures
      BY <3>1, InvParts DEF ProcsTyped
    <3>3. QED
      BY <1>1, <3>1, <3>2, ClaimLost
  <2>3. CASE ClaimUnanswered(p, t)
    <3>1. /\ up' = up /\ held' = held /\ writing' = writing
          /\ failures' = failures + 1 /\ failures < MaxFailures
          /\ harmed' = harmed \cup ByScore(t)
      BY <2>3 DEF ClaimUnanswered
    <3>2. failures' \in 0 .. MaxFailures
      BY <3>1, InvParts, RedisAssumption DEF ProcsTyped
    <3>3. QED
      BY <1>1, <3>1, <3>2, ClaimLost
  <2>4. QED
    BY <2>1, <2>2, <2>3
<1>4. QED
  BY <1>2, <1>3, InvPartsPrimed

\* Only the copy of the job it handles changes, and only in what it may.
LEMMA HandleInv ==
  ASSUME Inv, NEW p \in Procs, NEW j \in Jobs, NEW t \in Times, Handle(p, j, t)
  PROVE  Inv'
<1>1. /\ p \in up /\ writing[p] = NoJob /\ j \in DOMAIN held[p]
      /\ writing' = [writing EXCEPT ![p] = j]
      /\ hash' = hash /\ due' = due /\ up' = up /\ failures' = failures /\ harmed' = harmed
  BY DEF Handle
<1>2. PICK ok \in BOOLEAN : held' = [held EXCEPT ![p][j] = Settled(j, held[p][j], ok, t)]
  <2>1. Outcomes[j] \subseteq BOOLEAN
    BY RedisAssumption
  <2>2. QED
    BY <2>1 DEF Handle
<1> DEFINE new == Settled(j, held[p][j], ok, t)
<1>3. held[p][j] \in JobRecord(j) /\ held[p][j].readable
  BY <1>1, InvParts, Zenon DEF ProcsTyped, Copies
<1>4. /\ new \in JobRecord(j) /\ new.state # "running"
      /\ new.attempt = held[p][j].attempt
      /\ new.state = "scheduled" => new.attempt < MaxAttempts[j]
      /\ new.state = "dead" => new.attempt >= MaxAttempts[j]
  BY <1>3, SettledType
<1>5. new.readable
  BY <1>3, SettledType, Zenon
<1>6. held' = [held EXCEPT ![p][j] = new]
  BY <1>2
<1> HIDE DEF new
<1>7. /\ DOMAIN held = Procs /\ DOMAIN held' = Procs
      /\ \A q \in Procs : DOMAIN held'[q] = DOMAIN held[q] /\ DOMAIN held[q] \subseteq Jobs
      /\ held'[p][j] = new
      /\ held'[p] = [k \in DOMAIN held[p] |-> held'[p][k]]
      /\ \A k \in DOMAIN held[p] \ {j} : held'[p][k] = held[p][k]
      /\ \A q \in Procs \ {p} : held'[q] = held[q]
  BY <1>1, <1>6, InvParts DEF ProcsTyped
<1>8. /\ writing' \in [Procs -> Jobs \cup {NoJob}] /\ writing'[p] = j
      /\ \A q \in Procs \ {p} : writing'[q] = writing[q]
  BY <1>1, InvParts DEF ProcsTyped
<1>9. Stored' = Stored /\ KeysInv'
  BY <1>1, SameKeys
<1>10. ProcsTyped'
  BY <1>1, <1>4, <1>7, <1>8, InvParts DEF ProcsTyped
<1>11. Copies'
  <2>1. \A q \in Procs : writing'[q] # NoJob => writing'[q] \in DOMAIN held'[q]
    BY <1>1, <1>7, <1>8, InvParts DEF Copies
  <2>2. ASSUME NEW q \in Procs, NEW k \in DOMAIN held'[q]
        PROVE  /\ held'[q][k].readable
               /\ writing'[q] = k =>
                    /\ held'[q][k].state # "running"
                    /\ held'[q][k].state = "scheduled" => held'[q][k].attempt < MaxAttempts[k]
                    /\ held'[q][k].state = "dead" => held'[q][k].attempt >= MaxAttempts[k]
    <3>1. CASE q = p /\ k = j
      <4>1. held'[q][k] = new
        BY <1>7, <3>1
      <4>2. QED
        BY <1>4, <1>5, <3>1, <4>1, Zenon
    <3>2. CASE q = p /\ k # j
      <4>1. k \in DOMAIN held[q] /\ held'[q][k] = held[q][k] /\ writing'[q] # k
        BY <1>7, <1>8, <3>2
      <4>2. held[q][k].readable
        BY <4>1, InvParts, Zenon DEF Copies
      <4>3. QED
        BY <4>1, <4>2, Zenon
    <3>3. CASE q # p
      <4>1. k \in DOMAIN held[q] /\ held'[q][k] = held[q][k] /\ writing'[q] = writing[q]
        BY <1>7, <1>8, <3>3
      <4>2. QED
        BY <4>1, InvParts, Zenon DEF Copies
    <3>4. QED
      BY <3>1, <3>2, <3>3
  <2>3. QED
    BY <2>1, <2>2, Zenon DEF Copies
<1>12. RunningIsHeld'
  <2>1. ASSUME NEW q \in Procs, NEW k \in DOMAIN held'[q]
        PROVE  /\ q \in up'
               /\ k \in Stored' /\ hash'[k].state = "running"
               /\ held'[q][k].attempt = hash'[k].attempt
               /\ writing'[q] # k => held'[q][k] = hash'[k]
    <3>1. k \in DOMAIN held[q]
      BY <1>7
    <3>2. CASE q = p /\ k = j
      BY <1>1, <1>4, <1>7, <1>8, <1>9, <3>1, <3>2, InvParts DEF RunningIsHeld
    <3>3. CASE q = p /\ k # j
      <4>1. held'[q][k] = held[q][k] /\ writing[q] # k
        BY <1>1, <1>7, <3>1, <3>3, RedisAssumption
      <4>2. QED
        BY <1>1, <1>9, <3>1, <4>1, InvParts DEF RunningIsHeld
    <3>4. CASE q # p
      BY <1>1, <1>7, <1>8, <1>9, <3>1, <3>4, InvParts DEF RunningIsHeld
    <3>5. QED
      BY <3>2, <3>3, <3>4
  <2>2. \A q, r \in Procs : DOMAIN held'[q] \cap DOMAIN held'[r] # {} => q = r
    BY <1>7, InvParts DEF RunningIsHeld
  <2>3. \A k \in Stored' \ harmed' :
          hash'[k].state = "running" => \E q \in Procs : k \in DOMAIN held'[q]
    BY <1>1, <1>7, <1>9, InvParts DEF RunningIsHeld
  <2>4. QED
    BY <2>1, <2>2, <2>3, Zenon DEF RunningIsHeld
<1>13. QED
  BY <1>9, <1>10, <1>11, <1>12, InvPartsPrimed

\* A process lets go of the copy it wrote, or failed to: nobody else holds that job,
\* and it is no longer running unless a failure hit it.
LEMMA WrittenStep ==
  ASSUME Inv, NEW p \in Procs, p \in up, writing[p] # NoJob, Written(p),
         \A k \in Jobs \ {writing[p]} : hash'[k] = hash[k],
         hash'[writing[p]].state # "running" \/ writing[p] \in harmed',
         up' = up, failures' \in 0 .. MaxFailures,
         harmed \subseteq harmed', harmed' \subseteq Jobs
  PROVE  ProcsTyped' /\ RunningIsHeld' /\ Copies'
<1>1. PICK j \in Jobs : j = writing[p] /\ j \in DOMAIN held[p]
  BY InvParts DEF ProcsTyped, Copies
<1>2. /\ held' = [held EXCEPT ![p] = [k \in DOMAIN held[p] \ {j} |-> held[p][k]]]
      /\ writing' = [writing EXCEPT ![p] = NoJob]
  BY <1>1 DEF Written
<1>3. /\ DOMAIN held = Procs /\ DOMAIN held' = Procs
      /\ held'[p] = [k \in DOMAIN held[p] \ {j} |-> held[p][k]]
      /\ \A q \in Procs \ {p} : held'[q] = held[q]
      /\ \A q \in Procs : DOMAIN held[q] \subseteq Jobs
  BY <1>2, InvParts DEF ProcsTyped
<1>4. /\ writing' \in [Procs -> Jobs \cup {NoJob}] /\ writing'[p] = NoJob
      /\ \A q \in Procs \ {p} : writing'[q] = writing[q]
  BY <1>2, InvParts DEF ProcsTyped
<1>5. ASSUME NEW q \in Procs, NEW k \in DOMAIN held'[q]
      PROVE  /\ k \in DOMAIN held[q] /\ held'[q][k] = held[q][k]
             /\ k \in Jobs \ {j} /\ hash'[k] = hash[k]
  <2>1. k \in DOMAIN held[q] /\ held'[q][k] = held[q][k] /\ (q = p => k # j)
    BY <1>3
  <2>2. q # p => k # j
    BY <1>1, <2>1, InvParts DEF RunningIsHeld
  <2>3. QED
    BY <1>1, <1>3, <2>1, <2>2
<1>6. ProcsTyped'
  <2>1. ASSUME NEW q \in Procs
        PROVE  /\ DOMAIN held'[q] \subseteq Jobs
               /\ held'[q] = [k \in DOMAIN held'[q] |-> held'[q][k]]
               /\ \A k \in DOMAIN held'[q] : held'[q][k] \in JobRecord(k)
    <3>1. CASE q = p
      BY <1>3, <3>1, InvParts DEF ProcsTyped
    <3>2. CASE q # p
      BY <1>3, <3>2, InvParts DEF ProcsTyped
    <3>3. QED
      BY <3>1, <3>2
  <2>2. QED
    BY <1>3, <1>4, <2>1, InvParts DEF ProcsTyped
<1>7. Copies'
  <2>1. \A q \in Procs : writing'[q] # NoJob => writing'[q] \in DOMAIN held'[q]
    BY <1>3, <1>4, InvParts DEF Copies
  <2>2. ASSUME NEW q \in Procs, NEW k \in DOMAIN held'[q]
        PROVE  /\ held'[q][k].readable
               /\ writing'[q] = k =>
                    /\ held'[q][k].state # "running"
                    /\ held'[q][k].state = "scheduled" => held'[q][k].attempt < MaxAttempts[k]
                    /\ held'[q][k].state = "dead" => held'[q][k].attempt >= MaxAttempts[k]
    <3>1. k \in DOMAIN held[q] /\ held'[q][k] = held[q][k] /\ k \in Jobs
      BY <1>5
    <3>2. writing'[q] = k => writing[q] = k
      BY <1>4, <3>1, RedisAssumption
    <3>3. QED
      BY <3>1, <3>2, InvParts, Zenon DEF Copies
  <2>3. QED
    BY <2>1, <2>2, Zenon DEF Copies
<1>8. RunningIsHeld'
  <2>1. \A q, r \in Procs : DOMAIN held'[q] \cap DOMAIN held'[r] # {} => q = r
    BY <1>5, InvParts DEF RunningIsHeld
  <2>2. ASSUME NEW q \in Procs, NEW k \in DOMAIN held'[q]
        PROVE  /\ q \in up'
               /\ k \in Stored' /\ hash'[k].state = "running"
               /\ held'[q][k].attempt = hash'[k].attempt
               /\ writing'[q] # k => held'[q][k] = hash'[k]
    <3>1. k \in DOMAIN held[q] /\ held'[q][k] = held[q][k] /\ k \in Jobs \ {j} /\ hash'[k] = hash[k]
      BY <1>5
    <3>2. writing'[q] # k => writing[q] # k
      BY <1>1, <1>4, <3>1
    <3>3. QED
      BY <3>1, <3>2, InvParts DEF RunningIsHeld, Stored
  <2>3. ASSUME NEW k \in Stored' \ harmed', hash'[k].state = "running"
        PROVE  \E q \in Procs : k \in DOMAIN held'[q]
    <3>1. k # j /\ k \in Jobs
      BY <1>1, <2>3 DEF Stored
    <3>2. k \in Stored \ harmed /\ hash[k].state = "running"
      BY <1>1, <2>3, <3>1 DEF Stored
    <3>3. PICK q \in Procs : k \in DOMAIN held[q]
      BY <3>2, InvParts DEF RunningIsHeld
    <3>4. QED
      BY <1>3, <3>1, <3>3
  <2>4. QED
    BY <2>1, <2>2, <2>3 DEF RunningIsHeld
<1>9. QED
  BY <1>6, <1>7, <1>8

\* What a process writes back.
LEMMA OutcomeType ==
  ASSUME Inv, NEW p \in Procs, writing[p] # NoJob
  PROVE  /\ writing[p] \in Jobs /\ writing[p] \in DOMAIN held[p]
         /\ held[p][writing[p]] \in JobRecord(writing[p])
         /\ held[p][writing[p]].readable
         /\ held[p][writing[p]].state # "running"
         /\ held[p][writing[p]].state = "scheduled" =>
              /\ held[p][writing[p]].attempt < MaxAttempts[writing[p]]
              /\ held[p][writing[p]].attempt < AttemptLimit(writing[p])
         /\ held[p][writing[p]].state = "dead" =>
              held[p][writing[p]].attempt >= MaxAttempts[writing[p]]
<1>1. PICK j : j = writing[p]
  OBVIOUS
<1>2. j \in Jobs /\ j \in DOMAIN held[p] /\ held[p][j] \in JobRecord(j)
  BY <1>1, InvParts DEF ProcsTyped, Copies
<1>3. /\ held[p][j].readable
      /\ held[p][j].state # "running"
      /\ held[p][j].state = "scheduled" => held[p][j].attempt < MaxAttempts[j]
      /\ held[p][j].state = "dead" => held[p][j].attempt >= MaxAttempts[j]
  BY <1>1, <1>2, InvParts, Zenon DEF Copies
<1>4. held[p][j].attempt \in Nat
  BY <1>2, AttemptLimitType DEF JobRecord
<1>5. held[p][j].attempt < MaxAttempts[j] => held[p][j].attempt < AttemptLimit(j)
  BY <1>2, <1>4, AttemptLimitType
<1>6. QED
  BY <1>1, <1>2, <1>3, <1>5, Zenon

LEMMA PersistInv ==
  ASSUME Inv, NEW p \in Procs, Persist(p)
  PROVE  Inv'
<1>1. /\ p \in up /\ writing[p] # NoJob /\ Put(writing[p], held[p][writing[p]])
      /\ Written(p) /\ up' = up /\ failures' = failures /\ harmed' = harmed
  BY DEF Persist
<1>2. /\ KeysInv' /\ hash'[writing[p]] = held[p][writing[p]]
      /\ \A k \in Jobs \ {writing[p]} : hash'[k] = hash[k]
  <2>1. /\ writing[p] \in Jobs
        /\ held[p][writing[p]] \in JobRecord(writing[p]) /\ held[p][writing[p]].readable
        /\ held[p][writing[p]].state = "scheduled" =>
             held[p][writing[p]].attempt < AttemptLimit(writing[p])
    BY <1>1, OutcomeType, Zenon
  <2>2. QED
    BY <1>1, <2>1, PutKeys, Zenon
<1>3. hash'[writing[p]].state # "running"
  BY <1>1, <1>2, OutcomeType, Zenon
<1>4. failures' \in 0 .. MaxFailures /\ harmed \subseteq harmed' /\ harmed' \subseteq Jobs
  BY <1>1, InvParts DEF ProcsTyped
<1>5. ProcsTyped' /\ RunningIsHeld' /\ Copies'
  BY <1>1, <1>2, <1>3, <1>4, WrittenStep
<1>6. QED
  BY <1>2, <1>5, InvPartsPrimed

LEMMA PersistFailsInv ==
  ASSUME Inv, NEW p \in Procs, PersistFails(p)
  PROVE  Inv'
<1>1. /\ p \in up /\ writing[p] # NoJob /\ Written(p)
      /\ hash' = hash /\ due' = due /\ up' = up
      /\ failures' = failures + 1 /\ failures < MaxFailures
      /\ harmed' = harmed \cup {writing[p]}
  BY DEF PersistFails
<1>2. writing[p] \in Jobs
  BY <1>1, OutcomeType, Zenon
<1>3. failures' \in 0 .. MaxFailures /\ harmed \subseteq harmed' /\ harmed' \subseteq Jobs
  BY <1>1, <1>2, InvParts, RedisAssumption DEF ProcsTyped
<1>4. ProcsTyped' /\ RunningIsHeld' /\ Copies'
  BY <1>1, <1>3, WrittenStep
<1>5. KeysInv'
  BY <1>1, SameKeys
<1>6. QED
  BY <1>4, <1>5, InvPartsPrimed

\* A crash forgets the copies, and harms the jobs they were of.
LEMMA CrashInv ==
  ASSUME Inv, NEW p \in Procs, Crash(p)
  PROVE  Inv'
<1>1. /\ up' = up \ {p} /\ hash' = hash /\ due' = due
      /\ held' = [held EXCEPT ![p] = NoCopies]
      /\ writing' = [writing EXCEPT ![p] = NoJob]
      /\ harmed' = harmed \cup DOMAIN held[p]
      /\ failures' = failures + 1 /\ failures < MaxFailures
  BY DEF Crash
<1>2. /\ DOMAIN held' = Procs /\ DOMAIN held'[p] = {} /\ held'[p] = [k \in {} |-> NoRecord]
      /\ \A q \in Procs \ {p} : held'[q] = held[q]
      /\ \A q \in Procs : DOMAIN held[q] \subseteq Jobs
  BY <1>1, InvParts DEF ProcsTyped, NoCopies
<1>3. /\ writing' \in [Procs -> Jobs \cup {NoJob}] /\ writing'[p] = NoJob
      /\ \A q \in Procs \ {p} : writing'[q] = writing[q]
  BY <1>1, InvParts DEF ProcsTyped
<1>4. KeysInv' /\ Stored' = Stored
  BY <1>1, SameKeys
<1>5. ASSUME NEW q \in Procs, NEW k \in DOMAIN held'[q]
      PROVE  q # p /\ k \in DOMAIN held[q] /\ held'[q][k] = held[q][k]
  BY <1>2
<1>6. ProcsTyped'
  <2>1. ASSUME NEW q \in Procs
        PROVE  /\ DOMAIN held'[q] \subseteq Jobs
               /\ held'[q] = [k \in DOMAIN held'[q] |-> held'[q][k]]
               /\ \A k \in DOMAIN held'[q] : held'[q][k] \in JobRecord(k)
    <3>1. CASE q = p
      BY <1>2, <3>1
    <3>2. CASE q # p
      BY <1>2, <3>2, InvParts DEF ProcsTyped
    <3>3. QED
      BY <3>1, <3>2
  <2>2. failures' \in 0 .. MaxFailures /\ harmed' \subseteq Jobs /\ up' \subseteq Procs
    BY <1>1, <1>2, InvParts, RedisAssumption DEF ProcsTyped
  <2>3. QED
    BY <1>2, <1>3, <2>1, <2>2 DEF ProcsTyped
<1>7. Copies'
  <2>1. \A q \in Procs : writing'[q] # NoJob => writing'[q] \in DOMAIN held'[q]
    BY <1>2, <1>3, InvParts DEF Copies
  <2>2. ASSUME NEW q \in Procs, NEW k \in DOMAIN held'[q]
        PROVE  /\ held'[q][k].readable
               /\ writing'[q] = k =>
                    /\ held'[q][k].state # "running"
                    /\ held'[q][k].state = "scheduled" => held'[q][k].attempt < MaxAttempts[k]
                    /\ held'[q][k].state = "dead" => held'[q][k].attempt >= MaxAttempts[k]
    <3>1. k \in DOMAIN held[q] /\ held'[q][k] = held[q][k] /\ writing'[q] = writing[q]
      BY <1>3, <1>5
    <3>2. QED
      BY <3>1, InvParts, Zenon DEF Copies
  <2>3. QED
    BY <2>1, <2>2, Zenon DEF Copies
<1>8. RunningIsHeld'
  <2>1. \A q, r \in Procs : DOMAIN held'[q] \cap DOMAIN held'[r] # {} => q = r
    BY <1>5, InvParts DEF RunningIsHeld
  <2>2. ASSUME NEW q \in Procs, NEW k \in DOMAIN held'[q]
        PROVE  /\ q \in up'
               /\ k \in Stored' /\ hash'[k].state = "running"
               /\ held'[q][k].attempt = hash'[k].attempt
               /\ writing'[q] # k => held'[q][k] = hash'[k]
    <3>1. q # p /\ k \in DOMAIN held[q] /\ held'[q][k] = held[q][k] /\ writing'[q] = writing[q]
      BY <1>3, <1>5
    <3>2. QED
      BY <1>1, <1>4, <3>1, InvParts DEF RunningIsHeld
  <2>3. ASSUME NEW k \in Stored' \ harmed', hash'[k].state = "running"
        PROVE  \E q \in Procs : k \in DOMAIN held'[q]
    <3>1. PICK q \in Procs : k \in DOMAIN held[q]
      BY <1>1, <1>4, <2>3, InvParts DEF RunningIsHeld
    <3>2. q # p
      BY <1>1, <2>3, <3>1
    <3>3. QED
      BY <1>2, <3>1, <3>2
  <2>4. QED
    BY <2>1, <2>2, <2>3 DEF RunningIsHeld
<1>9. QED
  BY <1>4, <1>6, <1>7, <1>8, InvPartsPrimed

LEMMA RestartInv ==
  ASSUME Inv, NEW p \in Procs, Restart(p)
  PROVE  Inv'
<1>1. /\ up' = up \cup {p} /\ hash' = hash /\ due' = due /\ held' = held
      /\ writing' = writing /\ failures' = failures /\ harmed' = harmed
  BY DEF Restart
<1>2. KeysInv' /\ Stored' = Stored
  BY <1>1, SameKeys
<1>3. ProcsTyped'
  BY <1>1, InvParts DEF ProcsTyped
<1>4. Copies'
  BY <1>1, InvParts DEF Copies
<1>5. RunningIsHeld'
  BY <1>1, <1>2, InvParts DEF RunningIsHeld
<1>6. QED
  BY <1>2, <1>3, <1>4, <1>5, InvPartsPrimed

LEMMA StutterInv == ASSUME Inv, UNCHANGED vars PROVE Inv'
<1>1. /\ up' = up /\ hash' = hash /\ due' = due /\ held' = held
      /\ writing' = writing /\ failures' = failures /\ harmed' = harmed
  BY DEF vars
<1>2. KeysInv' /\ Stored' = Stored
  BY <1>1, SameKeys
<1>3. ProcsTyped' /\ Copies'
  BY <1>1, InvParts DEF ProcsTyped, Copies
<1>4. RunningIsHeld'
  BY <1>1, <1>2, InvParts DEF RunningIsHeld
<1>5. QED
  BY <1>2, <1>3, <1>4, InvPartsPrimed

LEMMA NextInv == Inv /\ [Next]_vars => Inv'
<1> SUFFICES ASSUME Inv, [Next]_vars PROVE Inv'
  OBVIOUS
<1>1. CASE \E p \in Procs, j \in Jobs, t \in Times : Enqueue(p, j, t) \/ Handle(p, j, t)
  BY <1>1, EnqueueInv, HandleInv
<1>2. CASE \E p \in Procs, t \in Times : Claim(p, t) \/ ClaimUnanswered(p, t)
  BY <1>2, ClaimInv
<1>3. CASE \E p \in Procs : Persist(p) \/ PersistFails(p) \/ Crash(p) \/ Restart(p)
  BY <1>3, PersistInv, PersistFailsInv, CrashInv, RestartInv
<1>4. CASE UNCHANGED vars
  BY <1>4, StutterInv
<1>5. QED
  BY <1>1, <1>2, <1>3, <1>4 DEF Next

\* The inductive invariant holds in every behaviour of the queue over Redis.
THEOREM RedisInv == Spec => []Inv
<1>1. QED
  BY InitInv, NextInv, PTL DEF Spec

\* The hash and the due set agree at every moment, whatever crashes and whatever is
\* lost (the script of redis_store.rs and put's MULTI); attempts stay in their limits.
THEOREM RedisKeysAgree == Spec => []KeysAgree
<1>1. Inv => KeysAgree
  BY DEF Inv
<1>2. QED
  BY <1>1, RedisInv, PTL

\* No job is held by two processes, and a running job nobody holds was hit by a
\* failure (the JobStore contract of store.rs, between processes).
THEOREM RedisRunningIsHeld == Spec => []RunningIsHeld
<1>1. Inv => RunningIsHeld
  BY DEF Inv
<1>2. QED
  BY <1>1, RedisInv, PTL

-----------------------------------------------------------------------------
(* The queue over Redis implements JobLifecycle: the script begins an       *)
(* attempt of all it takes, whether or not a process learns of it.          *)

Phase(j) == IF hash[j] = NoRecord THEN "absent" ELSE hash[j].state
Attempts(j) == IF hash[j] = NoRecord THEN 0 ELSE hash[j].attempt

LEMMA InitRefines == Init => Lifecycle!LifecycleInit
<1>1. QED
  BY DEF Init, Lifecycle!LifecycleInit

LEMMA ScriptBegins ==
  ASSUME Inv, NEW t \in Times, Script(t)
  PROVE  \E S \in SUBSET Jobs : Lifecycle!Begun(S)
<1>1. PICK S \in SUBSET Jobs :
        /\ \A j \in S : /\ hash[j] # NoRecord /\ hash[j] \in JobRecord(j)
                        /\ hash[j].state = "scheduled"
                        /\ hash'[j] # NoRecord /\ hash'[j].state = "running"
                        /\ hash'[j].attempt = hash[j].attempt + 1
        /\ \A j \in Jobs \ S : hash'[j] = hash[j]
  BY ScriptStep
<1>2. \A j \in S : /\ Phase(j) = "scheduled" /\ Phase(j)' = "running"
                   /\ Attempts(j)' = Attempts(j) + 1
  BY <1>1 DEF Phase, Attempts
<1>3. \A j \in Jobs \ S : Phase(j)' = Phase(j) /\ Attempts(j)' = Attempts(j)
  BY <1>1 DEF Phase, Attempts
<1>4. Lifecycle!Begun(S)
  BY <1>2, <1>3 DEF Lifecycle!Begun, Phase, Attempts
<1>5. QED
  BY <1>4

LEMMA PersistEnds ==
  ASSUME Inv, NEW p \in Procs, Persist(p)
  PROVE  \E j \in Jobs, to \in Lifecycle!Terminal \cup {"scheduled"} : Lifecycle!Ended(j, to)
<1>1. PICK j \in Jobs : j = writing[p] /\ j \in DOMAIN held[p]
  BY OutcomeType, Zenon DEF Persist
<1>2. /\ held[p][j] \in JobRecord(j) /\ held[p][j].state # "running"
      /\ held[p][j].state = "scheduled" => held[p][j].attempt < MaxAttempts[j]
      /\ held[p][j].state = "dead" => held[p][j].attempt >= MaxAttempts[j]
      /\ held[p][j] # NoRecord
  <2>1. writing[p] # NoJob
    BY DEF Persist
  <2>2. QED
    BY <1>1, <2>1, OutcomeType, RecordIsOne, Zenon
<1>3. /\ hash[j] # NoRecord /\ hash[j].state = "running"
      /\ held[p][j].attempt = hash[j].attempt
  BY <1>1, InvParts DEF RunningIsHeld, Stored
<1>4. hash' = [hash EXCEPT ![j] = held[p][j]] /\ DOMAIN hash = Jobs
  BY <1>1, InvParts DEF Persist, Put, KeysInv
<1>5. PICK to \in Lifecycle!Terminal \cup {"scheduled"} : to = held[p][j].state
  <2>1. held[p][j].state \in States
    BY <1>2 DEF JobRecord
  <2>2. QED
    BY <1>2, <2>1 DEF Lifecycle!Terminal, States
<1>6. /\ Phase(j) = "running" /\ Phase(j)' = to /\ Attempts(j)' = Attempts(j)
      /\ Attempts(j) = held[p][j].attempt
      /\ \A k \in Jobs \ {j} : Phase(k)' = Phase(k) /\ Attempts(k)' = Attempts(k)
  BY <1>2, <1>3, <1>4, <1>5 DEF Phase, Attempts
<1>7. Lifecycle!Ended(j, to)
  BY <1>2, <1>5, <1>6 DEF Lifecycle!Ended, Phase, Attempts
<1>8. QED
  BY <1>7

LEMMA EnqueueSchedules ==
  ASSUME Inv, NEW p \in Procs, NEW j \in Jobs, NEW t \in Times, Enqueue(p, j, t)
  PROVE  Lifecycle!Enqueued(j)
<1> DEFINE new == [state |-> "scheduled", attempt |-> 0, dueAt |-> t, readable |-> TRUE]
<1>1. /\ new \in JobRecord(j) /\ new.state = "scheduled" /\ new.attempt = 0
  BY AttemptLimitType DEF JobRecord, States
<1>2. new # NoRecord
  BY <1>1, RecordIsOne
<1>3. hash[j] = NoRecord /\ hash' = [hash EXCEPT ![j] = new] /\ DOMAIN hash = Jobs
  BY InvParts DEF Enqueue, Put, KeysInv
<1> HIDE DEF new
<1>4. /\ Phase(j) = "absent" /\ Phase(j)' = "scheduled" /\ Attempts(j)' = Attempts(j)
      /\ \A k \in Jobs \ {j} : Phase(k)' = Phase(k) /\ Attempts(k)' = Attempts(k)
  BY <1>1, <1>2, <1>3 DEF Phase, Attempts
<1>5. QED
  BY <1>4 DEF Lifecycle!Enqueued, Phase, Attempts

LEMMA QuietStep == UNCHANGED hash => UNCHANGED Lifecycle!lifecycleVars
<1>1. QED
  BY DEF Lifecycle!lifecycleVars

LEMMA NextRefines ==
  Inv /\ [Next]_vars => [Lifecycle!LifecycleNext]_(Lifecycle!lifecycleVars)
<1> SUFFICES ASSUME Inv, [Next]_vars
             PROVE  [Lifecycle!LifecycleNext]_(Lifecycle!lifecycleVars)
  OBVIOUS
<1>1. ASSUME NEW p \in Procs, NEW j \in Jobs, NEW t \in Times, Enqueue(p, j, t)
      PROVE  [Lifecycle!LifecycleNext]_(Lifecycle!lifecycleVars)
  BY <1>1, EnqueueSchedules DEF Lifecycle!LifecycleNext
<1>2. ASSUME NEW p \in Procs, NEW t \in Times, Claim(p, t) \/ ClaimUnanswered(p, t)
      PROVE  [Lifecycle!LifecycleNext]_(Lifecycle!lifecycleVars)
  <2>1. Script(t)
    BY <1>2 DEF Claim, ClaimUnanswered
  <2>2. QED
    BY <2>1, ScriptBegins DEF Lifecycle!LifecycleNext
<1>3. ASSUME NEW p \in Procs, Persist(p)
      PROVE  [Lifecycle!LifecycleNext]_(Lifecycle!lifecycleVars)
  BY <1>3, PersistEnds DEF Lifecycle!LifecycleNext
<1>4. ASSUME NEW p \in Procs,
             \/ \E j \in Jobs, t \in Times : Handle(p, j, t)
             \/ PersistFails(p) \/ Crash(p) \/ Restart(p)
      PROVE  [Lifecycle!LifecycleNext]_(Lifecycle!lifecycleVars)
  <2>1. UNCHANGED hash
    BY <1>4 DEF Handle, PersistFails, Crash, Restart
  <2>2. QED
    BY <2>1, QuietStep
<1>5. CASE UNCHANGED vars
  <2>1. UNCHANGED hash
    BY <1>5 DEF vars
  <2>2. QED
    BY <2>1, QuietStep
<1>6. QED
  BY <1>1, <1>2, <1>3, <1>4, <1>5 DEF Next

\* Processes over one Redis implement the job lifecycle through crashes and losses:
\* attempts one at a time and within the limit, terminal records final.
THEOREM RedisImplementsLifecycle == Spec => ImplementsLifecycle
<1>1. QED
  BY InitRefines, NextRefines, RedisInv, PTL
     DEF Spec, ImplementsLifecycle, Lifecycle!LifecycleSpec
=============================================================================
