---------------------------- MODULE WebhooksProofs ----------------------------
(***************************************************************************)
(* What the webhook sender and the capture inbox guarantee for any number  *)
(* of deliveries, endpoints and callers, whatever the backoffs.            *)
(***************************************************************************)
EXTENDS Webhooks, FiniteSetTheorems, SequenceTheorems, TLAPS

(* The inductive invariant.                                               *)

Attempts == Deliveries \X Nat
Posts == Callers \cup Attempts
Typed ==
  /\ TypeOK
  /\ entry = [d \in Deliveries |-> entry[d]]
  /\ posts \in [sent : SUBSET Posts, recorded : SUBSET Posts, announced : SUBSET Posts,
                faulted : SUBSET Posts]
  /\ captures \in [Endpoints -> Seq(Posts)]
  /\ history \in [Endpoints -> Seq(Posts)]
  /\ received \subseteq Attempts
  /\ pc \in {"idle", "collect"} => DOMAIN batch = {}

\* What the queue and the loop's copies say, beyond OnSchedule.
CopyAgrees(d) ==
  /\ Ended(d) > 0 => entry[d].status = log[d][Ended(d)].status
  /\ d \in DOMAIN batch /\ ~Busy(d) => ~batch[d].done /\ batch[d].dueAt <= seen
  /\ Busy(d) => batch[d].enqueuedAt = entry[d].enqueuedAt /\ ~entry[d].done
  /\ Busy(d) /\ pc # "replace" => ~batch[d].done
  /\ Busy(d) /\ pc = "settle" => batch[d].status # "none"
  /\ Busy(d) /\ pc = "replace" => batch[d].status = log[d][Len(log[d])].status
CopiesAgree ==
  /\ \A d \in Deliveries \ Enqueued : log[d] = <<>>
  /\ \A d \in Enqueued : OnSchedule(d) /\ CopyAgrees(d)

\* A post of the sender's, on its way or handled, was attempted and not failed first.
Made(r) == r[1] \in Enqueued /\ r[2] > FailFirst[r[1]] /\ r[2] <= Begun(r[1])
PostsMade ==
  \A r \in posts.sent \cup posts.recorded \cup posts.announced \cup posts.faulted \cup received :
    r \notin Callers => Made(r)
\* What the inbox recorded is handled, so an ok the sender reads there is true.
PostsHandled ==
  \A r \in posts.recorded \cup posts.announced : r \notin Callers => r \in received
\* A post is on its way, handled, or answered for by the fault layer: never two of them.
PostsApart ==
  /\ received \cap posts.faulted = {}
  /\ received \cap posts.sent = {}
  /\ posts.sent \cap posts.faulted = {}
  /\ \A r \in posts.sent \cup posts.faulted : r \notin Callers => Target[r[1]] # Elsewhere
\* Why attempt n of d may be called a success.
Explained(d, n) ==
  <<d, n>> \in received \/ (Target[d] # Elsewhere /\ <<d, n>> \in posts.faulted)
\* The attempt under way.
InFlight ==
  /\ pc = "wait" => Made(Post)
  /\ pc = "settle" /\ batch[current].status = "ok" => Explained(current, batch[current].attempt)
PostsAreMade == PostsMade /\ PostsHandled /\ PostsApart /\ InFlight
OksAreExplained ==
  \A d \in Deliveries : \A i \in 1 .. Len(log[d]) : log[d][i].status = "ok" => Explained(d, i)

Inv == Typed /\ CopiesAgree /\ PostsAreMade /\ OksAreExplained

-----------------------------------------------------------------------------
(* The ladder's arithmetic.                                                *)

LEMMA BackoffFacts ==
  ASSUME NEW d \in Deliveries
  PROVE  Backoff(d) \in Seq(Nat) /\ MaxAttempts(d) \in Nat /\ MaxAttempts(d) >= 1
<1>1. Backoff(d) \in Seq(Nat)
  BY WebhooksAssumption DEF Backoff
<1>2. QED
  BY <1>1 DEF MaxAttempts

LEMMA OffsetFacts ==
  ASSUME NEW d \in Deliveries
  PROVE  (\A n \in Int : Offset(d, n) \in Nat) /\ Offset(d, 1) = 0
<1>1. Backoff(d) \in Seq(Nat) /\ Len(Backoff(d)) \in Nat
  BY BackoffFacts
<1>2. ASSUME NEW n \in Int
      PROVE  Offset(d, n) \in Nat
  <2> DEFINE I == Before(d, n)
             Waits(i) == {i} \X (1 .. Backoff(d)[i])
             f == [i \in I |-> Waits(i)]
             W == {Waits(i) : i \in I}
  <2>1. IsFiniteSet(1 .. Len(Backoff(d))) /\ I \subseteq 1 .. Len(Backoff(d))
    BY <1>1, FS_Interval DEF Before
  <2>2. IsFiniteSet(I)
    BY <2>1, FS_Subset
  <2>3. \A i \in I : IsFiniteSet(Waits(i))
    <3>1. ASSUME NEW i \in I PROVE IsFiniteSet(Waits(i))
      <4>1. Backoff(d)[i] \in Int /\ 1 \in Int
        BY <1>1, <2>1
      <4>2. IsFiniteSet(1 .. Backoff(d)[i])
        BY ONLY <4>1, FS_Interval
      <4>3. IsFiniteSet({i})
        BY FS_Singleton
      <4>4. QED
        BY <4>2, <4>3, FS_Product
    <3>2. QED
      BY <3>1
  <2>4. f \in Surjection(I, W)
    BY DEF Surjection
  <2> HIDE DEF f, I
  <2>5. IsFiniteSet(W)
    BY <2>2, <2>4, FS_Surjection
  <2>6. \A T \in W : IsFiniteSet(T)
    BY <2>3
  <2> HIDE DEF W
  <2>7. IsFiniteSet(UNION W)
    BY <2>5, <2>6, FS_UNION
  <2>8. Cardinality(UNION W) \in Nat
    BY <2>7, FS_CardinalityType
  <2>9. QED
    BY <2>8 DEF Offset, W, I
<1>3. Offset(d, 1) = 0
  <2>1. Before(d, 1) = {}
    BY <1>1 DEF Before
  <2>2. UNION {{i} \X (1 .. Backoff(d)[i]) : i \in Before(d, 1)} = {}
    BY <2>1
  <2>3. QED
    BY <2>2, FS_EmptySet DEF Offset
<1>4. QED
  BY <1>2, <1>3

LEMMA EntryFacts ==
  ASSUME NEW d \in Deliveries, NEW job \in Entries(d), Horizon \in Nat
  PROVE  /\ job # NoEntry
         /\ job.enqueuedAt \in Nat /\ job.enqueuedAt \in 0 .. Horizon
         /\ job.attempt \in Nat /\ job.attempt <= MaxAttempts(d)
         /\ job.dueAt \in Nat /\ job.done \in BOOLEAN /\ job.status \in Statuses
<1>1. MaxAttempts(d) \in Nat
  BY BackoffFacts
<1>2. job \in [enqueuedAt : Nat, attempt : Nat, dueAt : Int,
               done : BOOLEAN, status : {"none", "ok", "failed"}]
  BY <1>1 DEF Entries, Statuses
<1>3. QED
  BY <1>1, <1>2, WebhooksAssumption DEF Entries

\* A field of a copy changed.
LEMMA EntryExcept ==
  ASSUME NEW d \in Deliveries, NEW job \in Entries(d)
  PROVE  /\ \A n \in 0 .. MaxAttempts(d) : [job EXCEPT !.attempt = n] \in Entries(d)
         /\ \A st \in Statuses : [job EXCEPT !.status = st] \in Entries(d)
         /\ \A t \in Nat : [job EXCEPT !.dueAt = t] \in Entries(d)
         /\ [job EXCEPT !.done = TRUE] \in Entries(d)
<1>1. QED
  BY DEF Entries

\* What attempt makes of a copy whose outcome is known.
LEMMA SettledFacts ==
  ASSUME NEW d \in Deliveries, NEW job \in Entries(d), NEW status \in Statuses, ~job.done
  PROVE  /\ Settled(d, job, status) \in Entries(d)
         /\ Settled(d, job, status).enqueuedAt = job.enqueuedAt
         /\ Settled(d, job, status).attempt = job.attempt
         /\ Settled(d, job, status).status = status
         /\ Settled(d, job, status).done <=> status = "ok" \/ job.attempt = MaxAttempts(d)
         /\ ~Settled(d, job, status).done =>
              Settled(d, job, status).dueAt = job.enqueuedAt + Offset(d, job.attempt + 1)
<1>1. /\ job.enqueuedAt \in Nat /\ job.attempt \in Nat /\ job.attempt <= MaxAttempts(d)
      /\ MaxAttempts(d) \in Nat
  BY EntryFacts, BackoffFacts, WebhooksAssumption
<1>2. job.attempt + 1 \in Int /\ Offset(d, job.attempt + 1) \in Nat
  BY <1>1, OffsetFacts
<1>3. DueFor(d, job, job.attempt + 1) = job.enqueuedAt + Offset(d, job.attempt + 1)
  BY DEF DueFor
<1>4. job.enqueuedAt + Offset(d, job.attempt + 1) \in Nat
  BY <1>1, <1>2
<1>5. GivesUp(d, job) <=> job.attempt = MaxAttempts(d)
  BY <1>1 DEF GivesUp
<1>6. PICK due \in Nat : due = DueFor(d, job, job.attempt + 1)
  BY <1>3, <1>4
<1>7. CASE Succeeds(status) \/ GivesUp(d, job)
  <2>1. Settled(d, job, status) = [job EXCEPT !.status = status, !.done = TRUE]
    BY <1>7 DEF Settled
  <2>2. QED
    BY <1>5, <1>7, <2>1 DEF Entries, Succeeds
<1>8. CASE ~(Succeeds(status) \/ GivesUp(d, job))
  <2>1. Settled(d, job, status) = [job EXCEPT !.status = status, !.dueAt = due]
    BY <1>6, <1>8 DEF Settled
  <2>2. QED
    BY <1>3, <1>5, <1>6, <1>8, <2>1 DEF Entries, Succeeds
<1>9. QED
  BY <1>7, <1>8

-----------------------------------------------------------------------------
(* Types.                                                                  *)

Events == [attempt : Nat, status : Statuses, last : BOOLEAN]
PostSets == [sent : SUBSET Posts, recorded : SUBSET Posts, announced : SUBSET Posts,
             faulted : SUBSET Posts]

LEMMA WebhookTypes ==
  ASSUME Typed
  PROVE  /\ Horizon \in Nat /\ now \in 0 .. Horizon /\ seen \in 0 .. Horizon
         /\ Enqueued \subseteq Deliveries
         /\ \A d \in Deliveries : log[d] \in Seq(Events) /\ Len(log[d]) \in Nat
         /\ \A d \in Enqueued : entry[d] \in Entries(d)
         /\ \A d \in DOMAIN batch : d \in Enqueued /\ d \in Deliveries /\ batch[d] \in Entries(d)
         /\ Attempting => current \in DOMAIN batch
         /\ posts.sent \subseteq Posts /\ posts.recorded \subseteq Posts
         /\ posts.announced \subseteq Posts /\ posts.faulted \subseteq Posts
<1>1. Horizon \in Nat /\ now \in 0 .. Horizon /\ seen \in 0 .. Horizon /\ Enqueued \subseteq Deliveries
  BY WebhooksAssumption DEF Typed, TypeOK, Enqueued
<1>2. \A d \in Deliveries : log[d] \in Seq(Events) /\ Len(log[d]) \in Nat
  <2>1. log \in [Deliveries -> Seq([attempt : Nat, status : Statuses, last : BOOLEAN])]
    BY DEF Typed, TypeOK
  <2>2. log \in [Deliveries -> Seq(Events)]
    BY <2>1 DEF Events
  <2>3. QED
    BY <2>2
<1>3. \A d \in Enqueued : entry[d] \in Entries(d)
  BY DEF Typed, TypeOK
<1>4. \A d \in DOMAIN batch : d \in Enqueued /\ d \in Deliveries /\ batch[d] \in Entries(d)
  BY <1>1 DEF Typed, TypeOK
<1>5. Attempting => current \in DOMAIN batch
  BY DEF Typed, TypeOK
<1>6. /\ posts.sent \subseteq Posts /\ posts.recorded \subseteq Posts
      /\ posts.announced \subseteq Posts /\ posts.faulted \subseteq Posts
  BY DEF Typed
<1>7. QED
  BY <1>1, <1>2, <1>3, <1>4, <1>5, <1>6

LEMMA LogType == Typed => log \in [Deliveries -> Seq(Events)]
<1>1. Typed => log \in [Deliveries -> Seq([attempt : Nat, status : Statuses, last : BOOLEAN])]
  BY DEF Typed, TypeOK
<1>2. QED
  BY <1>1 DEF Events

\* A step of the sender: what it writes is of its type.
LEMMA SenderTyped ==
  ASSUME Typed, UNCHANGED <<clockVars, captures, history, clears>>,
         queue' \in Seq(Deliveries),
         entry' = [d \in Deliveries |-> entry'[d]],
         \A d \in Deliveries : entry'[d] # NoEntry => entry'[d] \in Entries(d),
         pc' \in Stages, seen' \in 0 .. Horizon,
         batch' = [d \in DOMAIN batch' |-> batch'[d]],
         \A d \in DOMAIN batch' :
           d \in Deliveries /\ entry'[d] # NoEntry /\ batch'[d] \in Entries(d),
         current' \in Deliveries \cup {NoDelivery},
         pc' \in {"wait", "settle", "replace"} => current' \in DOMAIN batch',
         log' \in [Deliveries -> Seq(Events)],
         posts' \in PostSets, received' \subseteq Attempts,
         pc' \in {"idle", "collect"} => DOMAIN batch' = {}
  PROVE  Typed'
<1>1. UNCHANGED <<wall, offset, resets, captures, history, clears>>
  BY DEF clockVars
<1>2. DOMAIN entry' = Deliveries
  BY Zenon
<1>3. Enqueued' = {d \in Deliveries : entry'[d] # NoEntry}
  BY DEF Enqueued
<1>4. wall' + offset' \in 0 .. Horizon /\ wall' \in Nat /\ offset' \in Nat
  BY <1>1 DEF Typed, TypeOK, now
<1>5. /\ resets' \in 0 .. MaxAdmin /\ clears' \in 0 .. MaxAdmin
      /\ DOMAIN captures' = Endpoints /\ DOMAIN history' = Endpoints
      /\ captures' \in [Endpoints -> Seq(Posts)] /\ history' \in [Endpoints -> Seq(Posts)]
  BY <1>1 DEF Typed, TypeOK
<1>6. TypeOK'
  BY <1>2, <1>3, <1>4, <1>5 DEF TypeOK, now, Attempting, Events
<1>7. QED
  BY <1>5, <1>6 DEF Typed, PostSets

\* A step that leaves the sender alone.
LEMMA BesideTyped ==
  ASSUME Typed, UNCHANGED senderVars,
         wall' \in Nat, offset' \in Nat, wall' + offset' \in 0 .. Horizon,
         resets' \in 0 .. MaxAdmin, clears' \in 0 .. MaxAdmin,
         posts' \in PostSets, received' \subseteq Attempts,
         captures' \in [Endpoints -> Seq(Posts)], history' \in [Endpoints -> Seq(Posts)]
  PROVE  Typed'
<1>1. UNCHANGED <<queue, entry, pc, seen, batch, current, log>>
  BY DEF senderVars
<1>2. Enqueued' = Enqueued
  BY <1>1 DEF Enqueued
<1>3. TypeOK'
  BY <1>1, <1>2 DEF Typed, TypeOK, now, Attempting
<1>4. QED
  BY <1>1, <1>3 DEF Typed, PostSets

LEMMA WebhookTypeInit == Init => Typed
<1> SUFFICES ASSUME Init PROVE Typed
  OBVIOUS
<1>1. Enqueued = {}
  BY DEF Enqueued, Init
<1>2. batch = [d \in DOMAIN batch |-> batch[d]] /\ DOMAIN batch = {}
  BY DEF Init
<1>3. log \in [Deliveries -> Seq([attempt : Nat, status : Statuses, last : BOOLEAN])]
  BY DEF Init
<1>4. TypeOK
  BY <1>1, <1>2, <1>3, WebhooksAssumption DEF Init, TypeOK, now, Stages, Attempting
<1>5. QED
  BY <1>2, <1>4 DEF Init, Typed

-----------------------------------------------------------------------------
(* A delivery the step is not about.                                       *)

LEMMA WaitingFacts ==
  ASSUME Inv, NEW d \in DOMAIN batch, ~Busy(d)
  PROVE  batch[d] = entry[d] /\ ~entry[d].done /\ entry[d].dueAt <= seen
<1>1. d \in Enqueued
  BY WebhookTypes DEF Inv
<1>2. OnSchedule(d) /\ CopyAgrees(d)
  BY <1>1 DEF Inv, CopiesAgree
<1>3. QED
  BY <1>2 DEF OnSchedule, CopyAgrees

LEMMA OtherKept ==
  ASSUME Inv, NEW d \in Enqueued, ~Busy(d), ~Busy(d)',
         entry'[d] = entry[d], log'[d] = log[d],
         d \in DOMAIN batch' =>
           batch'[d] = entry[d] /\ ~entry[d].done /\ entry[d].dueAt <= seen'
  PROVE  OnSchedule(d)' /\ CopyAgrees(d)'
<1>1. OnSchedule(d) /\ CopyAgrees(d)
  BY DEF Inv, CopiesAgree
<1>2. Ended(d) = Len(log[d]) /\ Ended(d)' = Len(log[d])
  BY DEF Ended
<1>3. OnLadder(d, entry[d], Len(log[d]))
  BY <1>1, <1>2 DEF OnSchedule
<1>4. /\ entry'[d].enqueuedAt = entry'[d].enqueuedAt
      /\ entry'[d].attempt = Len(log[d])
      /\ entry'[d].done <=>
           Len(log[d]) > 0 /\ (entry'[d].status = "ok" \/ Len(log[d]) = MaxAttempts(d))
      /\ ~entry'[d].done => entry'[d].dueAt = entry'[d].enqueuedAt + Offset(d, Len(log[d]) + 1)
  BY <1>3 DEF OnLadder
<1>5. OnLadder(d, entry[d], Ended(d))'
  BY <1>2, <1>4 DEF OnLadder
<1>6. OnSchedule(d)'
  BY <1>1, <1>5 DEF OnSchedule
<1>7. CopyAgrees(d)'
  BY <1>1, <1>2 DEF CopyAgrees
<1>8. QED
  BY <1>6, <1>7

LEMMA SameKept ==
  ASSUME Inv, NEW d \in Enqueued, UNCHANGED <<pc, seen, batch, current, log>>, entry'[d] = entry[d]
  PROVE  OnSchedule(d)' /\ CopyAgrees(d)' /\ Begun(d)' = Begun(d)
<1>1. OnSchedule(d) /\ CopyAgrees(d)
  BY DEF Inv, CopiesAgree
<1>2. (Busy(d)' <=> Busy(d)) /\ Ended(d)' = Ended(d)
  BY DEF Busy, Ended, Attempting
<1>3. QED
  BY <1>1, <1>2 DEF OnSchedule, OnLadder, CopyAgrees, Begun

LEMMA CopiesKept ==
  ASSUME Inv, UNCHANGED senderVars
  PROVE  CopiesAgree' /\ Enqueued' = Enqueued /\ \A d \in Enqueued : Begun(d)' = Begun(d)
<1>1. UNCHANGED <<queue, entry, pc, seen, batch, current, log>>
  BY DEF senderVars
<1>2. Enqueued' = Enqueued
  BY <1>1 DEF Enqueued
<1>3. \A d \in Enqueued : OnSchedule(d)' /\ CopyAgrees(d)' /\ Begun(d)' = Begun(d)
  BY <1>1, SameKept
<1>4. QED
  BY <1>1, <1>2, <1>3 DEF Inv, CopiesAgree

\* All deliveries but the one attempted are left alone by the loop's step.
LEMMA CopiesButOne ==
  ASSUME Inv, NEW c \in Enqueued, Enqueued' = Enqueued,
         OnSchedule(c)' /\ CopyAgrees(c)',
         \A d \in Deliveries \ {c} :
           /\ ~Busy(d) /\ ~Busy(d)' /\ entry'[d] = entry[d] /\ log'[d] = log[d]
           /\ d \in DOMAIN batch' => d \in DOMAIN batch /\ batch'[d] = batch[d] /\ seen' = seen
  PROVE  CopiesAgree'
<1>1. \A d \in Enqueued : d \in Deliveries
  BY DEF Enqueued
<1>2. \A d \in Enqueued \ {c} : OnSchedule(d)' /\ CopyAgrees(d)'
  <2>1. ASSUME NEW d \in Enqueued \ {c} PROVE OnSchedule(d)' /\ CopyAgrees(d)'
    <3>1. /\ ~Busy(d) /\ ~Busy(d)' /\ entry'[d] = entry[d] /\ log'[d] = log[d]
          /\ d \in DOMAIN batch' => d \in DOMAIN batch /\ batch'[d] = batch[d] /\ seen' = seen
      BY <1>1
    <3>2. d \in DOMAIN batch' => batch'[d] = entry[d] /\ ~entry[d].done /\ entry[d].dueAt <= seen'
      BY <3>1, WaitingFacts
    <3>3. QED
      BY <3>1, <3>2, OtherKept
  <2>2. QED
    BY <2>1
<1>3. \A d \in Deliveries \ Enqueued : log'[d] = <<>>
  BY DEF Inv, CopiesAgree
<1>4. QED
  BY <1>2, <1>3 DEF CopiesAgree

LEMMA BegunType ==
  ASSUME Typed, NEW d \in Enqueued
  PROVE  Begun(d) \in Nat
<1>1. d \in Deliveries /\ Horizon \in Nat /\ entry[d] \in Entries(d)
      /\ (d \in DOMAIN batch => batch[d] \in Entries(d))
  BY WebhookTypes
<1>2. entry[d].attempt \in Nat /\ (d \in DOMAIN batch => batch[d].attempt \in Nat)
  BY <1>1, EntryFacts
<1>3. QED
  BY <1>2 DEF Begun

LEMMA MadeKept ==
  ASSUME NEW r \in Attempts, Made(r), Typed, Typed', Enqueued \subseteq Enqueued',
         \A d \in Enqueued : Begun(d) <= Begun(d)'
  PROVE  Made(r)'
<1>1. PICK d \in Enqueued : d = r[1]
  BY DEF Made
<1>2. Begun(d) \in Nat
  BY BegunType
<1>3. Begun(d)' \in Nat
  <2>1. d \in Deliveries /\ Horizon \in Nat
    BY WebhooksAssumption DEF Enqueued
  <2>2. entry'[d] \in Entries(d) /\ (d \in DOMAIN batch' => batch'[d] \in Entries(d))
    <3>1. d \in Enqueued'
      OBVIOUS
    <3>2. QED
      BY <3>1 DEF Typed, TypeOK
  <2>3. entry'[d].attempt \in Nat /\ (d \in DOMAIN batch' => batch'[d].attempt \in Nat)
    BY <2>1, <2>2, EntryFacts
  <2>4. QED
    BY <2>3 DEF Begun
<1>4. r[2] \in Nat /\ r[2] <= Begun(d) /\ Begun(d) <= Begun(d)'
  BY <1>1 DEF Made, Attempts
<1>5. r[2] <= Begun(d)'
  BY <1>2, <1>3, <1>4
<1>6. QED
  BY <1>1, <1>5 DEF Made

-----------------------------------------------------------------------------
(* Enqueue, wake and collect.                                              *)

LEMMA EnqueueInv ==
  ASSUME Inv, NEW d \in Deliveries, Enqueue(d)
  PROVE  Inv'
<1> DEFINE job == [enqueuedAt |-> now, attempt |-> 0, dueAt |-> now, done |-> FALSE, status |-> "none"]
<1>0. Typed /\ now \in 0 .. Horizon /\ now \in Nat /\ Horizon \in Nat
  BY WebhookTypes DEF Inv
<1>1. /\ entry[d] = NoEntry /\ entry' = [entry EXCEPT ![d] = job]
      /\ queue' = Append(queue, d)
      /\ UNCHANGED <<clockVars, pc, seen, batch, current, log, posts, captures, history, clears, received>>
  BY DEF Enqueue, inboxVars
<1>2. job \in Entries(d) /\ job # NoEntry
  <2>1. job \in Entries(d)
    BY <1>0, BackoffFacts DEF Entries, Statuses
  <2>2. QED
    BY <1>0, <2>1, EntryFacts
<1> HIDE DEF job
<1>3. /\ entry'[d] = job /\ \A x \in Deliveries \ {d} : entry'[x] = entry[x]
      /\ entry' = [x \in Deliveries |-> entry'[x]]
  BY <1>0, <1>1 DEF Typed
<1>4. Enqueued' = Enqueued \cup {d} /\ d \notin Enqueued
  BY <1>1, <1>2, <1>3 DEF Enqueued
<1>5. d \notin DOMAIN batch /\ ~Busy(d) /\ ~Busy(d)' /\ \A x \in DOMAIN batch : x # d /\ x \in Enqueued
  BY <1>0, <1>1, <1>4, WebhookTypes DEF Busy, Attempting
<1>6. Typed'
  <2>1. queue' \in Seq(Deliveries)
    BY <1>0, <1>1 DEF Typed, TypeOK
  <2>2. \A x \in Deliveries : entry'[x] # NoEntry => entry'[x] \in Entries(x)
    BY <1>0, <1>2, <1>3, WebhookTypes DEF Enqueued
  <2>3. \A x \in DOMAIN batch' : x \in Deliveries /\ entry'[x] # NoEntry /\ batch'[x] \in Entries(x)
    BY <1>0, <1>1, <1>3, <1>5, WebhookTypes DEF Enqueued
  <2>4. /\ pc' \in Stages /\ seen' \in 0 .. Horizon /\ batch' = [x \in DOMAIN batch' |-> batch'[x]]
        /\ current' \in Deliveries \cup {NoDelivery}
        /\ pc' \in {"wait", "settle", "replace"} => current' \in DOMAIN batch'
        /\ posts' \in PostSets /\ received' \subseteq Attempts
        /\ pc' \in {"idle", "collect"} => DOMAIN batch' = {}
    BY <1>0, <1>1 DEF Typed, TypeOK, Attempting, PostSets
  <2>5. log' \in [Deliveries -> Seq(Events)]
    BY <1>0, <1>1, LogType
  <2>6. QED
    BY <1>0, <1>1, <1>3, <2>1, <2>2, <2>3, <2>4, <2>5, SenderTyped
<1>7. \A x \in Enqueued : OnSchedule(x)' /\ CopyAgrees(x)' /\ Begun(x)' = Begun(x)
  BY <1>1, <1>3, <1>4, SameKept DEF Enqueued
<1>8. OnSchedule(d)' /\ CopyAgrees(d)'
  <2>1. log'[d] = <<>>
    BY <1>1, <1>4 DEF Inv, CopiesAgree
  <2>2. Len(log'[d]) = 0 /\ Ended(d)' = 0
    BY <1>5, <2>1 DEF Ended
  <2>3. now = now + Offset(d, 0 + 1)
    BY <1>0, OffsetFacts
  <2>4. OnLadder(d, entry[d], Ended(d))'
    BY <1>3, <2>2, <2>3 DEF OnLadder, job
  <2>5. QED
    BY <1>1, <1>5, <2>2, <2>4 DEF OnSchedule, CopyAgrees
<1>9. CopiesAgree'
  BY <1>1, <1>4, <1>7, <1>8 DEF Inv, CopiesAgree
<1>10. PostsAreMade'
  <2>1. \A r : Made(r) => Made(r)'
    BY <1>4, <1>7 DEF Made
  <2>2. pc' = pc /\ batch' = batch /\ Post' = Post /\ posts' = posts /\ received' = received
        /\ current' = current
    BY <1>1 DEF Post
  <2>3. QED
    BY <2>1, <2>2 DEF Inv, PostsAreMade, PostsMade, PostsHandled, PostsApart, InFlight, Explained
<1>11. OksAreExplained'
  BY <1>1 DEF Inv, OksAreExplained, Explained
<1>12. QED
  BY <1>6, <1>9, <1>10, <1>11 DEF Inv


\* The posts that were made or handled before the step still are.
LEMMA PostsKept ==
  ASSUME Inv, Typed', Enqueued \subseteq Enqueued', \A d \in Enqueued : Begun(d) <= Begun(d)',
         \A r \in posts'.sent \cup posts'.recorded \cup posts'.announced \cup posts'.faulted
                \cup received' :
           \/ r \in posts.sent \cup posts.recorded \cup posts.announced \cup posts.faulted
                  \cup received
           \/ r \in Callers
           \/ r \in Attempts /\ (Made(r) \/ Made(r)'),
         \A r \in posts'.recorded \cup posts'.announced :
           \/ r \in posts.recorded \cup posts.announced
           \/ r \in Callers
           \/ r \in received',
         received \subseteq received'
  PROVE  PostsMade' /\ PostsHandled'
<1>1. Typed /\ PostsMade /\ PostsHandled
  BY DEF Inv, PostsAreMade
<1>2. \A r \in posts.sent \cup posts.recorded \cup posts.announced \cup posts.faulted \cup received :
        r \notin Callers => r \in Attempts
  BY <1>1, WebhookTypes DEF Typed, Posts
<1>3. ASSUME NEW r \in posts'.sent \cup posts'.recorded \cup posts'.announced
                       \cup posts'.faulted \cup received',
             r \notin Callers
      PROVE  Made(r)'
  <2>1. Made(r)' \/ (r \in Attempts /\ Made(r))
    BY <1>1, <1>2, <1>3 DEF PostsMade
  <2>2. QED
    BY <1>1, <2>1, MadeKept
<1>4. PostsMade'
  BY <1>3 DEF PostsMade
<1>5. PostsHandled'
  BY <1>1 DEF PostsHandled
<1>6. QED
  BY <1>4, <1>5

LEMMA WakeInv ==
  ASSUME Inv, Wake
  PROVE  Inv'
<1>0. Typed /\ now \in 0 .. Horizon
  BY WebhookTypes DEF Inv
<1>1. /\ pc = "idle" /\ pc' = "collect" /\ seen' = now
      /\ UNCHANGED <<clockVars, queue, entry, batch, current, log, posts, captures, history, clears, received>>
  BY DEF Wake, inboxVars
<1>2. DOMAIN batch = {} /\ DOMAIN batch' = {} /\ Enqueued' = Enqueued
  BY <1>0, <1>1 DEF Typed, Enqueued
<1>3. Typed'
  <2>1. /\ queue' \in Seq(Deliveries) /\ entry' = [x \in Deliveries |-> entry'[x]]
        /\ \A x \in Deliveries : entry'[x] # NoEntry => entry'[x] \in Entries(x)
    BY <1>0, <1>1 DEF Typed, TypeOK, Enqueued
  <2>2. /\ pc' \in Stages /\ seen' \in 0 .. Horizon /\ batch' = [x \in DOMAIN batch' |-> batch'[x]]
        /\ current' \in Deliveries \cup {NoDelivery}
        /\ pc' \in {"wait", "settle", "replace"} => current' \in DOMAIN batch'
        /\ posts' \in PostSets /\ received' \subseteq Attempts
    BY <1>0, <1>1 DEF Typed, TypeOK, PostSets, Stages
  <2>3. log' \in [Deliveries -> Seq(Events)]
    BY <1>0, <1>1, LogType
  <2>4. QED
    BY <1>0, <1>1, <1>2, <2>1, <2>2, <2>3, SenderTyped
<1>4. CopiesAgree'
  <2>1. \A d : ~Busy(d) /\ ~Busy(d)'
    BY <1>1 DEF Busy, Attempting
  <2>2. \A d \in Enqueued : OnSchedule(d)' /\ CopyAgrees(d)'
    BY <1>1, <1>2, <2>1, OtherKept
  <2>3. QED
    BY <1>1, <1>2, <2>2 DEF Inv, CopiesAgree
<1>5. PostsMade' /\ PostsHandled'
  <2>1. \A d \in Enqueued : Begun(d) <= Begun(d)'
    <3>1. \A d \in Enqueued : Begun(d) \in Nat /\ Begun(d)' = Begun(d)
      BY <1>0, <1>1, BegunType DEF Begun
    <3>2. QED
      BY <3>1
  <2>2. QED
    BY <1>1, <1>2, <1>3, <2>1, PostsKept
<1>6. PostsApart' /\ InFlight' /\ OksAreExplained'
  BY <1>1 DEF InFlight, Inv, PostsAreMade, PostsApart, OksAreExplained, Explained
<1>7. QED
  BY <1>3, <1>4, <1>5, <1>6 DEF Inv, PostsAreMade

LEMMA CollectInv ==
  ASSUME Inv, Collect
  PROVE  Inv'
<1>0. Typed /\ now \in 0 .. Horizon /\ seen \in 0 .. Horizon /\ Horizon \in Nat
  BY WebhookTypes DEF Inv
<1> DEFINE D == {e \in Deliveries : Due(e)}
<1>1. /\ pc = "collect" /\ batch' = [d \in D |-> entry[d]]
      /\ pc' = IF DOMAIN batch' = {} THEN "idle" ELSE "attempt"
      /\ seen' = IF DOMAIN batch' = {} THEN 0 ELSE seen
      /\ UNCHANGED <<clockVars, queue, entry, current, log, posts, captures, history, clears, received>>
  BY DEF Collect, inboxVars
<1>2. /\ DOMAIN batch = {} /\ DOMAIN batch' = D /\ \A d \in D : batch'[d] = entry[d]
      /\ Enqueued' = Enqueued
      /\ \A d \in D : d \in Enqueued /\ ~entry[d].done /\ entry[d].dueAt <= seen
  BY <1>0, <1>1 DEF Typed, Enqueued, Due
<1>3. pc' \in {"idle", "attempt"} /\ (D # {} => seen' = seen) /\ (pc' = "idle" => D = {})
  BY <1>1, <1>2
<1>4. Typed'
  <2>1. /\ queue' \in Seq(Deliveries) /\ entry' = [x \in Deliveries |-> entry'[x]]
        /\ \A x \in Deliveries : entry'[x] # NoEntry => entry'[x] \in Entries(x)
    BY <1>0, <1>1 DEF Typed, TypeOK, Enqueued
  <2>2. /\ pc' \in Stages /\ seen' \in 0 .. Horizon
        /\ current' \in Deliveries \cup {NoDelivery}
        /\ ~(pc' \in {"wait", "settle", "replace"})
        /\ posts' \in PostSets /\ received' \subseteq Attempts
        /\ pc' \in {"idle", "collect"} => DOMAIN batch' = {}
    BY <1>0, <1>1, <1>2, <1>3 DEF Typed, TypeOK, PostSets, Stages
  <2>3. log' \in [Deliveries -> Seq(Events)]
    BY <1>0, <1>1, LogType
  <2>4. \A x \in DOMAIN batch' : x \in Deliveries /\ entry'[x] # NoEntry /\ batch'[x] \in Entries(x)
    BY <1>1, <1>2, <2>1 DEF Enqueued
  <2>5. batch' = [x \in DOMAIN batch' |-> batch'[x]]
    BY <1>1
  <2>6. QED
    BY <1>0, <1>1, <2>1, <2>2, <2>3, <2>4, <2>5, SenderTyped
<1> HIDE DEF D
<1>5. CopiesAgree'
  <2>1. \A d : ~Busy(d) /\ ~Busy(d)'
    BY <1>1, <1>3 DEF Busy, Attempting
  <2>2. \A d \in Enqueued : OnSchedule(d)' /\ CopyAgrees(d)'
    BY <1>1, <1>2, <1>3, <2>1, OtherKept
  <2>3. QED
    BY <1>1, <1>2, <2>2 DEF Inv, CopiesAgree
<1>6. PostsMade' /\ PostsHandled'
  <2>1. \A d \in Enqueued : Begun(d) <= Begun(d)'
    <3>1. \A d \in Enqueued : Begun(d) \in Nat /\ Begun(d)' = Begun(d)
      BY <1>0, <1>1, <1>2, BegunType DEF Begun
    <3>2. QED
      BY <3>1
  <2>2. QED
    BY <1>1, <1>2, <1>4, <2>1, PostsKept
<1>7. PostsApart' /\ InFlight' /\ OksAreExplained'
  BY <1>1, <1>3 DEF InFlight, Inv, PostsAreMade, PostsApart, OksAreExplained, Explained
<1>8. QED
  BY <1>4, <1>5, <1>6, <1>7 DEF Inv, PostsAreMade


-----------------------------------------------------------------------------
(* An attempt and its answer.                                              *)

\* The next attempt of a copy that is not done.
LEMMA NextAttempt ==
  ASSUME Inv, NEW d \in DOMAIN batch, ~Busy(d)
  PROVE  /\ d \in Enqueued /\ d \in Deliveries /\ batch[d] = entry[d] /\ batch[d] \in Entries(d)
         /\ ~batch[d].done
         /\ batch[d].attempt = Len(log[d]) /\ Ended(d) = Len(log[d])
         /\ batch[d].attempt + 1 \in 1 .. MaxAttempts(d)
         /\ seen >= entry[d].enqueuedAt + Offset(d, batch[d].attempt + 1)
<1>1. Typed /\ d \in Enqueued /\ d \in Deliveries /\ batch[d] \in Entries(d) /\ seen \in 0 .. Horizon
      /\ Horizon \in Nat /\ Len(log[d]) \in Nat
  BY WebhookTypes DEF Inv
<1>2. batch[d] = entry[d] /\ ~entry[d].done /\ entry[d].dueAt <= seen
  BY WaitingFacts
<1>3. OnSchedule(d) /\ Ended(d) = Len(log[d])
  BY <1>1 DEF Inv, CopiesAgree, Ended
<1>4. OnLadder(d, entry[d], Len(log[d]))
  BY <1>3 DEF OnSchedule
<1>5. MaxAttempts(d) \in Nat /\ MaxAttempts(d) >= 1
      /\ batch[d].attempt \in Nat /\ batch[d].attempt <= MaxAttempts(d)
  BY <1>1, BackoffFacts, EntryFacts
<1>6. /\ entry[d].attempt = Len(log[d])
      /\ ~(Len(log[d]) > 0 /\ Len(log[d]) = MaxAttempts(d))
      /\ entry[d].dueAt = entry[d].enqueuedAt + Offset(d, Len(log[d]) + 1)
  BY <1>2, <1>4 DEF OnLadder
<1>7. batch[d].attempt + 1 \in 1 .. MaxAttempts(d)
  BY <1>1, <1>2, <1>5, <1>6
<1>8. QED
  BY <1>1, <1>2, <1>3, <1>6, <1>7

LEMMA AttemptInv ==
  ASSUME Inv, Attempt
  PROVE  Inv'
<1>0. Typed /\ seen \in 0 .. Horizon /\ Horizon \in Nat
  BY WebhookTypes DEF Inv
<1>1. PICK c \in DOMAIN batch :
        /\ pc = "attempt" /\ current' = c
        /\ batch' = [batch EXCEPT ![c].attempt = batch[c].attempt + 1,
                                  ![c].status = IF FailsFirst(c, batch[c].attempt + 1)
                                                THEN "failed" ELSE @]
        /\ pc' = IF FailsFirst(c, batch[c].attempt + 1) THEN "settle" ELSE "wait"
        /\ posts' = IF FailsFirst(c, batch[c].attempt + 1) \/ Target[c] = Elsewhere THEN posts
                    ELSE [posts EXCEPT !.sent = @ \cup {<<c, batch[c].attempt + 1>>}]
        /\ UNCHANGED <<clockVars, queue, entry, seen, log, captures, history, clears, received>>
  BY Zenon DEF Attempt
<1>2. \A d : ~Busy(d)
  BY <1>1 DEF Busy, Attempting
<1>3. /\ c \in Enqueued /\ c \in Deliveries /\ batch[c] = entry[c] /\ batch[c] \in Entries(c)
      /\ ~batch[c].done
      /\ batch[c].attempt = Len(log[c]) /\ Ended(c) = Len(log[c])
      /\ batch[c].attempt + 1 \in 1 .. MaxAttempts(c)
      /\ seen >= entry[c].enqueuedAt + Offset(c, batch[c].attempt + 1)
  BY <1>2, NextAttempt
<1>4. MaxAttempts(c) \in Nat
  BY <1>3, BackoffFacts
<1>5. PICK n \in 1 .. MaxAttempts(c) : n = batch[c].attempt + 1
  BY <1>3
<1>6. n \in Nat /\ n \in 0 .. MaxAttempts(c) /\ n > 0
  BY <1>4
<1>7. PICK st \in Statuses : /\ st = IF FailsFirst(c, n) THEN "failed" ELSE batch[c].status
  BY <1>0, <1>3, EntryFacts DEF Statuses
<1>8. /\ DOMAIN batch' = DOMAIN batch
      /\ batch'[c] = [batch[c] EXCEPT !.attempt = n, !.status = st]
      /\ \A d \in DOMAIN batch \ {c} : batch'[d] = batch[d]
      /\ batch' = [d \in DOMAIN batch' |-> batch'[d]]
  BY <1>0, <1>1, <1>5, <1>7 DEF Typed, TypeOK
<1>9. batch'[c] \in Entries(c)
  BY <1>3, <1>6, <1>8 DEF Entries
<1>10. /\ batch'[c].attempt = n /\ batch'[c].status = st /\ ~batch'[c].done
       /\ batch'[c].enqueuedAt = batch[c].enqueuedAt
  BY <1>3, <1>8 DEF Entries
<1>11. /\ current' = c
       /\ pc' = IF FailsFirst(c, n) THEN "settle" ELSE "wait"
       /\ posts' = IF FailsFirst(c, n) \/ Target[c] = Elsewhere THEN posts
                   ELSE [posts EXCEPT !.sent = @ \cup {<<c, n>>}]
       /\ UNCHANGED <<clockVars, queue, entry, seen, log, captures, history, clears, received>>
  BY <1>1, <1>5
<1>12. Enqueued' = Enqueued
  BY <1>11 DEF Enqueued
<1>13. <<c, n>> \in Attempts /\ <<c, n>> \in Posts
  BY <1>3, <1>6 DEF Attempts, Posts
<1>14. Typed'
  <2>1. /\ queue' \in Seq(Deliveries) /\ entry' = [x \in Deliveries |-> entry'[x]]
        /\ \A x \in Deliveries : entry'[x] # NoEntry => entry'[x] \in Entries(x)
    BY <1>0, <1>11 DEF Typed, TypeOK, Enqueued
  <2>2. /\ pc' \in Stages /\ seen' \in 0 .. Horizon
        /\ current' \in Deliveries \cup {NoDelivery} /\ current' \in DOMAIN batch'
        /\ received' \subseteq Attempts /\ ~(pc' \in {"idle", "collect"})
    BY <1>0, <1>3, <1>8, <1>11 DEF Typed, Stages
  <2>3. log' \in [Deliveries -> Seq(Events)]
    BY <1>0, <1>11, LogType
  <2>4. \A x \in DOMAIN batch' : x \in Deliveries /\ entry'[x] # NoEntry /\ batch'[x] \in Entries(x)
    BY <1>0, <1>8, <1>9, <1>11, WebhookTypes DEF Enqueued
  <2>5. posts' \in PostSets
    BY <1>0, <1>11, <1>13 DEF Typed, PostSets
  <2>6. QED
    BY <1>0, <1>8, <1>11, <2>1, <2>2, <2>3, <2>4, <2>5, SenderTyped
<1>15. CopiesAgree'
  <2>1. OnLadder(c, entry[c], Len(log[c]))
    BY <1>3 DEF Inv, CopiesAgree, OnSchedule
  <2>2. Busy(c)' /\ pc' # "replace" /\ Ended(c)' = Len(log[c])
    BY <1>11 DEF Busy, Attempting, Ended
  <2>3. OnLadder(c, entry[c], Ended(c))'
    BY <1>11, <2>1, <2>2 DEF OnLadder
  <2>4. seen' >= entry'[c].enqueuedAt + Offset(c, batch'[c].attempt)
    BY <1>3, <1>5, <1>10, <1>11
  <2>5. batch'[c].attempt = Len(log'[c]) + 1
    BY <1>3, <1>5, <1>10, <1>11
  <2>6. \A i \in 1 .. Len(log'[c]) :
          /\ log'[c][i].attempt = i
          /\ log'[c][i].last <=> log'[c][i].status = "ok" \/ i = MaxAttempts(c)
          /\ log'[c][i].last => i = Len(log'[c])
    BY <1>3, <1>11 DEF Inv, CopiesAgree, OnSchedule
  <2>7. OnSchedule(c)'
    BY <2>2, <2>3, <2>4, <2>5, <2>6 DEF OnSchedule
  <2>8. Ended(c) > 0 => entry[c].status = log[c][Ended(c)].status
    BY <1>3 DEF Inv, CopiesAgree, CopyAgrees
  <2>9. pc' = "settle" => batch'[c].status # "none"
    BY <1>7, <1>10, <1>11
  <2>10. CopyAgrees(c)'
    BY <1>3, <1>10, <1>11, <2>2, <2>8, <2>9 DEF CopyAgrees
  <2>11. \A d \in Deliveries \ {c} :
           /\ ~Busy(d) /\ ~Busy(d)' /\ entry'[d] = entry[d] /\ log'[d] = log[d]
           /\ d \in DOMAIN batch' => d \in DOMAIN batch /\ batch'[d] = batch[d] /\ seen' = seen
    BY <1>2, <1>8, <1>11 DEF Busy
  <2>12. QED
    BY <1>3, <1>12, <2>7, <2>10, <2>11, CopiesButOne
<1>16. Begun(c)' = n
  BY <1>3, <1>8, <1>10 DEF Begun
<1>17. ~FailsFirst(c, n) => Made(<<c, n>>)'
  <2>1. FailFirst[c] \in Nat
    BY <1>3, WebhooksAssumption
  <2>2. QED
    BY <1>3, <1>6, <1>12, <1>16, <2>1 DEF Made, FailsFirst
<1>18. PostsMade' /\ PostsHandled'
  <2>1. \A d \in Enqueued : Begun(d) <= Begun(d)'
    <3>1. \A d \in Enqueued \ {c} : Begun(d) \in Nat /\ Begun(d)' = Begun(d)
      BY <1>0, <1>8, <1>11, BegunType DEF Begun
    <3>2. Begun(c) \in Nat /\ Begun(c) + 1 = n
      BY <1>0, <1>3, <1>5, BegunType DEF Begun
    <3>3. QED
      BY <1>16, <3>1, <3>2
  <2>2. /\ posts'.recorded = posts.recorded /\ posts'.announced = posts.announced
        /\ posts'.faulted = posts.faulted
        /\ \A r \in posts'.sent : r \in posts.sent \/ (~FailsFirst(c, n) /\ r = <<c, n>>)
    BY <1>0, <1>11 DEF Typed
  <2>3. QED
    BY <1>11, <1>12, <1>13, <1>14, <1>17, <2>1, <2>2, PostsKept
<1>19. InFlight'
  <2>1. Post' = <<c, n>>
    BY <1>10, <1>11 DEF Post
  <2>2. pc' = "wait" => Made(<<c, n>>)'
    BY <1>11, <1>17
  <2>3. pc' = "wait" => Made(Post)'
    BY <2>1, <2>2 DEF Made
  <2>4. pc' = "settle" => batch'[current'].status # "ok"
    BY <1>7, <1>10, <1>11
  <2>5. QED
    BY <2>3, <2>4 DEF InFlight
<1>20. OksAreExplained'
  BY <1>0, <1>11 DEF Inv, Typed, OksAreExplained, Explained
<1>21. PostsApart'
  <2>1. ~Made(<<c, n>>)
    <3>1. Begun(c) \in Nat /\ Begun(c) + 1 = n
      BY <1>0, <1>3, <1>5, BegunType DEF Begun
    <3>2. QED
      BY <3>1 DEF Made
  <2>2. <<c, n>> \notin Callers
    BY <1>13, WebhooksAssumption DEF Attempts
  <2>3. <<c, n>> \notin posts.faulted \cup received
    BY <2>1, <2>2 DEF Inv, PostsAreMade, PostsMade
  <2>4. /\ posts'.faulted = posts.faulted /\ received' = received
        /\ \A r \in posts'.sent : r \in posts.sent \/ (Target[c] # Elsewhere /\ r = <<c, n>>)
    BY <1>0, <1>11 DEF Typed
  <2>5. QED
    BY <2>3, <2>4 DEF Inv, PostsAreMade, PostsApart
<1>22. QED
  BY <1>14, <1>15, <1>18, <1>19, <1>20, <1>21 DEF Inv, PostsAreMade


\* The attempt under way is made, and the queue has not heard of it.
LEMMA UnderWay ==
  ASSUME Inv, Attempting
  PROVE  /\ current \in DOMAIN batch /\ current \in Enqueued /\ current \in Deliveries
         /\ Busy(current) /\ batch[current] \in Entries(current)
         /\ batch[current].attempt \in Nat
         /\ OnSchedule(current) /\ CopyAgrees(current)
<1>1. current \in DOMAIN batch /\ current \in Enqueued /\ current \in Deliveries
      /\ batch[current] \in Entries(current) /\ Horizon \in Nat
  BY WebhookTypes DEF Inv
<1>2. batch[current].attempt \in Nat
  BY <1>1, EntryFacts
<1>3. OnSchedule(current) /\ CopyAgrees(current)
  BY <1>1 DEF Inv, CopiesAgree
<1>4. QED
  BY <1>1, <1>2, <1>3 DEF Busy

LEMMA AnsweredInv ==
  ASSUME Inv, pc = "wait", NEW st \in {"ok", "failed"}, Answered(st),
         posts' = posts,
         \/ received' = received
         \/ Target[current] = Elsewhere /\ received' = received \cup {Post},
         st = "ok" => Post \in received' \/ (Target[current] # Elsewhere /\ Post \in posts.faulted)
  PROVE  Inv'
<1>0. Typed /\ seen \in 0 .. Horizon /\ Horizon \in Nat
  BY WebhookTypes DEF Inv
<1>1. /\ current \in DOMAIN batch /\ current \in Enqueued /\ current \in Deliveries
      /\ Busy(current) /\ batch[current] \in Entries(current)
      /\ batch[current].attempt \in Nat
      /\ OnSchedule(current) /\ CopyAgrees(current)
  BY UnderWay DEF Attempting
<1>2. PICK c \in DOMAIN batch : c = current
  BY <1>1
<1>3. /\ batch' = [batch EXCEPT ![c].status = st] /\ pc' = "settle"
      /\ UNCHANGED <<clockVars, queue, entry, seen, current, log, captures, history, clears>>
  BY <1>2 DEF Answered
<1>4. /\ DOMAIN batch' = DOMAIN batch
      /\ batch'[c] = [batch[c] EXCEPT !.status = st]
      /\ \A d \in DOMAIN batch \ {c} : batch'[d] = batch[d]
      /\ batch' = [d \in DOMAIN batch' |-> batch'[d]]
  BY <1>0, <1>3 DEF Typed, TypeOK
<1>5. /\ batch'[c] \in Entries(c) /\ batch'[c].status = st
      /\ batch'[c].attempt = batch[c].attempt /\ batch'[c].done = batch[c].done
      /\ batch'[c].enqueuedAt = batch[c].enqueuedAt
  BY <1>1, <1>2, <1>4 DEF Entries, Statuses
<1>6. Enqueued' = Enqueued /\ Post' = Post
  BY <1>2, <1>3, <1>5 DEF Enqueued, Post
<1>7. Post \in Attempts /\ Made(Post)
  BY <1>0, <1>1 DEF Inv, PostsAreMade, InFlight, Post, Attempts
<1>8. Typed'
  <2>1. /\ queue' \in Seq(Deliveries) /\ entry' = [x \in Deliveries |-> entry'[x]]
        /\ \A x \in Deliveries : entry'[x] # NoEntry => entry'[x] \in Entries(x)
    BY <1>0, <1>3 DEF Typed, TypeOK, Enqueued
  <2>2. /\ pc' \in Stages /\ seen' \in 0 .. Horizon
        /\ current' \in Deliveries \cup {NoDelivery} /\ current' \in DOMAIN batch'
        /\ received' \subseteq Attempts /\ ~(pc' \in {"idle", "collect"})
    BY <1>0, <1>1, <1>2, <1>3, <1>4, <1>7 DEF Typed, Stages
  <2>3. log' \in [Deliveries -> Seq(Events)]
    BY <1>0, <1>3, LogType
  <2>4. \A x \in DOMAIN batch' : x \in Deliveries /\ entry'[x] # NoEntry /\ batch'[x] \in Entries(x)
    BY <1>0, <1>3, <1>4, <1>5, WebhookTypes DEF Enqueued
  <2>5. posts' \in PostSets
    BY <1>0 DEF Typed, PostSets
  <2>6. QED
    BY <1>0, <1>3, <1>4, <2>1, <2>2, <2>3, <2>4, <2>5, SenderTyped
<1>9. CopiesAgree'
  <2>1. Busy(c) /\ Busy(c)' /\ Ended(c) = Len(log[c]) /\ Ended(c)' = Len(log[c])
    BY <1>1, <1>2, <1>3 DEF Busy, Attempting, Ended
  <2>2. OnLadder(c, entry[c], Ended(c))'
    BY <1>1, <1>2, <1>3, <2>1 DEF OnSchedule, OnLadder
  <2>3. /\ seen' >= entry'[c].enqueuedAt + Offset(c, batch'[c].attempt)
        /\ batch'[c].attempt = Len(log'[c]) + 1
        /\ \A i \in 1 .. Len(log'[c]) :
             /\ log'[c][i].attempt = i
             /\ log'[c][i].last <=> log'[c][i].status = "ok" \/ i = MaxAttempts(c)
             /\ log'[c][i].last => i = Len(log'[c])
    BY <1>1, <1>2, <1>3, <1>5, <2>1 DEF OnSchedule
  <2>4. OnSchedule(c)'
    BY <1>3, <2>1, <2>2, <2>3 DEF OnSchedule
  <2>5. CopyAgrees(c)'
    BY <1>1, <1>2, <1>3, <1>5, <2>1 DEF CopyAgrees
  <2>6. \A d \in Deliveries \ {c} :
          /\ ~Busy(d) /\ ~Busy(d)' /\ entry'[d] = entry[d] /\ log'[d] = log[d]
          /\ d \in DOMAIN batch' => d \in DOMAIN batch /\ batch'[d] = batch[d] /\ seen' = seen
    BY <1>2, <1>3, <1>4 DEF Busy
  <2>7. QED
    BY <1>1, <1>2, <1>6, <2>4, <2>5, <2>6, CopiesButOne
<1>10. PostsMade' /\ PostsHandled'
  <2>1. \A d \in Enqueued : Begun(d) <= Begun(d)'
    <3>1. \A d \in Enqueued : Begun(d) \in Nat /\ Begun(d)' = Begun(d)
      BY <1>0, <1>3, <1>4, <1>5, BegunType DEF Begun
    <3>2. QED
      BY <3>1
  <2>2. \A r \in received' : r \in received \/ r = Post
    OBVIOUS
  <2>3. QED
    BY <1>6, <1>7, <1>8, <2>1, <2>2, PostsKept
<1>11. InFlight'
  <2>1. PICK n : n = batch[c].attempt
    OBVIOUS
  <2>2. Post = <<c, n>> /\ current' = c /\ batch'[c].attempt = n /\ batch'[c].status = st
    BY <1>2, <1>3, <1>5, <2>1 DEF Post
  <2>3. st = "ok" => Explained(c, n)'
    BY <1>2, <2>2 DEF Explained
  <2>4. QED
    BY <1>3, <2>2, <2>3 DEF InFlight, Explained
<1>12. OksAreExplained'
  BY <1>3 DEF Inv, OksAreExplained, Explained
<1>13. PostsApart'
  <2>1. Target[current] = Elsewhere => Post \notin posts.sent \cup posts.faulted
    <3>1. Post \notin Callers /\ Post[1] = current
      BY <1>7, WebhooksAssumption DEF Attempts, Post
    <3>2. QED
      BY <3>1 DEF Inv, PostsAreMade, PostsApart
  <2>2. QED
    BY <2>1 DEF Inv, PostsAreMade, PostsApart
<1>14. QED
  BY <1>8, <1>9, <1>10, <1>11, <1>12, <1>13 DEF Inv, PostsAreMade

\* The three ways an attempt ends.
LEMMA AnswerElsewhereInv ==
  ASSUME Inv, AnswerElsewhere
  PROVE  Inv'
<1>1. pc = "wait" /\ posts' = posts /\ Target[current] = Elsewhere
  BY DEF AnswerElsewhere
<1>2. CASE Answered("ok") /\ received' = received \cup {Post}
  BY <1>1, <1>2, AnsweredInv
<1>3. CASE Answered("failed") /\ received' \in {received, received \cup {Post}}
  BY <1>1, <1>3, AnsweredInv
<1>4. QED
  BY <1>2, <1>3 DEF AnswerElsewhere

LEMMA AnswerInboxInv ==
  ASSUME Inv, AnswerInbox
  PROVE  Inv'
<1>1. pc = "wait" /\ Target[current] # Elsewhere /\ posts' = posts /\ received' = received
  BY DEF AnswerInbox
<1>2. CASE Post \in posts.announced /\ Answered("ok")
  <2>1. Post \in Deliveries \X Nat
    BY <1>1, UnderWay DEF Post, Attempting
  <2>2. Post \notin Callers
    BY <2>1, WebhooksAssumption
  <2>3. Post \in received
    BY <1>2, <2>2 DEF Inv, PostsAreMade, PostsHandled
  <2>4. QED
    BY <1>1, <1>2, <2>3, AnsweredInv
<1>3. CASE Post \in posts.faulted /\ (Answered("ok") \/ Answered("failed"))
  BY <1>1, <1>3, AnsweredInv
<1>4. QED
  BY <1>2, <1>3 DEF AnswerInbox

LEMMA TimeOutInv ==
  ASSUME Inv, TimeOut
  PROVE  Inv'
<1>1. pc = "wait" /\ Answered("failed") /\ received' = received /\ posts' = posts
  BY DEF TimeOut
<1>2. QED
  BY <1>1, AnsweredInv


\* No event before the attempt under way said it was the last.
LEMMA NotOverYet ==
  ASSUME Inv, Attempting, pc # "replace"
  PROVE  \A i \in 1 .. Len(log[current]) : ~log[current][i].last
<1>1. /\ current \in Enqueued /\ Busy(current)
      /\ OnSchedule(current) /\ CopyAgrees(current)
  BY UnderWay
<1>2. PICK c : c = current
  OBVIOUS
<1>3. Ended(c) = Len(log[c]) /\ ~entry[c].done
  BY <1>1, <1>2 DEF Ended, CopyAgrees
<1>4. Len(log[c]) > 0 =>
        entry[c].status = log[c][Len(log[c])].status
        /\ ~(entry[c].status = "ok" \/ Len(log[c]) = MaxAttempts(c))
  BY <1>1, <1>2, <1>3 DEF OnSchedule, OnLadder, CopyAgrees
<1>5. Len(log[c]) \in Nat
  BY <1>1, <1>2, WebhookTypes DEF Inv
<1>6. ASSUME NEW i \in 1 .. Len(log[c]), log[c][i].last PROVE FALSE
  <2>1. /\ i = Len(log[c]) /\ Len(log[c]) > 0
        /\ log[c][i].status = "ok" \/ i = MaxAttempts(c)
    BY <1>1, <1>2, <1>5, <1>6 DEF OnSchedule
  <2>2. QED
    BY <1>4, <2>1
<1>7. QED
  BY <1>2, <1>6

LEMMA SettleInv ==
  ASSUME Inv, Settle
  PROVE  Inv'
<1>0. Typed /\ seen \in 0 .. Horizon /\ Horizon \in Nat
  BY WebhookTypes DEF Inv
<1>1. pc = "settle" /\ Attempting
  BY DEF Settle, Attempting
<1>2. PICK c \in DOMAIN batch : c = current
  BY <1>1, UnderWay
<1>3. /\ c \in Enqueued /\ c \in Deliveries /\ Busy(c) /\ batch[c] \in Entries(c)
      /\ batch[c].attempt \in Nat /\ OnSchedule(c) /\ CopyAgrees(c)
  BY <1>1, <1>2, UnderWay
<1> DEFINE job == Settled(c, batch[c], batch[c].status)
           event == [attempt |-> job.attempt, status |-> job.status, last |-> job.done]
<1>4. /\ batch' = [batch EXCEPT ![c] = job]
      /\ log' = [log EXCEPT ![c] = Append(@, event)]
      /\ pc' = "replace"
      /\ UNCHANGED <<clockVars, queue, entry, seen, current, posts, captures, history, clears, received>>
  BY <1>2 DEF Settle, inboxVars
<1>5. /\ batch[c].status \in Statuses /\ batch[c].status # "none" /\ ~batch[c].done
      /\ Ended(c) = Len(log[c]) /\ batch[c].attempt = Len(log[c]) + 1
      /\ batch[c].enqueuedAt = entry[c].enqueuedAt
  BY <1>0, <1>1, <1>3, EntryFacts DEF OnSchedule, CopyAgrees, Ended
<1>6. /\ job \in Entries(c) /\ job.enqueuedAt = batch[c].enqueuedAt
      /\ job.attempt = batch[c].attempt /\ job.status = batch[c].status
      /\ job.done <=> batch[c].status = "ok" \/ batch[c].attempt = MaxAttempts(c)
      /\ ~job.done => job.dueAt = batch[c].enqueuedAt + Offset(c, batch[c].attempt + 1)
  BY <1>3, <1>5, SettledFacts
<1>7. job.done \in BOOLEAN
  BY <1>0, <1>3, <1>6, EntryFacts
<1> HIDE DEF job
<1>8. PICK m \in Nat : m = Len(log[c])
  BY <1>0, <1>3, WebhookTypes
<1>9. event \in Events
  BY <1>3, <1>5, <1>6, <1>7 DEF Events
<1>10. /\ DOMAIN batch' = DOMAIN batch /\ batch'[c] = job
       /\ \A d \in DOMAIN batch \ {c} : batch'[d] = batch[d]
       /\ batch' = [d \in DOMAIN batch' |-> batch'[d]]
  BY <1>0, <1>4 DEF Typed, TypeOK
<1>11. log \in [Deliveries -> Seq(Events)] /\ log[c] \in Seq(Events)
  BY <1>0, <1>3, LogType
<1>12. /\ log' \in [Deliveries -> Seq(Events)] /\ log'[c] = Append(log[c], event)
       /\ \A d \in Deliveries \ {c} : log'[d] = log[d]
  BY <1>3, <1>4, <1>9, <1>11
<1>13. event.attempt = m + 1 /\ event.status = batch[c].status
       /\ (event.last <=> batch[c].status = "ok" \/ m + 1 = MaxAttempts(c))
  BY <1>5, <1>6, <1>8
<1> HIDE DEF event
<1>14. /\ Len(log'[c]) = m + 1 /\ log'[c][m + 1] = event
       /\ \A i \in 1 .. m : log'[c][i] = log[c][i]
  BY <1>8, <1>9, <1>11, <1>12
<1>15. Enqueued' = Enqueued
  BY <1>4 DEF Enqueued
<1>16. Typed'
  <2>1. /\ queue' \in Seq(Deliveries) /\ entry' = [x \in Deliveries |-> entry'[x]]
        /\ \A x \in Deliveries : entry'[x] # NoEntry => entry'[x] \in Entries(x)
    BY <1>0, <1>4 DEF Typed, TypeOK, Enqueued
  <2>2. /\ pc' \in Stages /\ seen' \in 0 .. Horizon
        /\ current' \in Deliveries \cup {NoDelivery} /\ current' \in DOMAIN batch'
        /\ received' \subseteq Attempts /\ ~(pc' \in {"idle", "collect"})
    BY <1>0, <1>2, <1>3, <1>4, <1>10 DEF Typed, Stages
  <2>3. \A x \in DOMAIN batch' : x \in Deliveries /\ entry'[x] # NoEntry /\ batch'[x] \in Entries(x)
    BY <1>0, <1>4, <1>6, <1>10, WebhookTypes DEF Enqueued
  <2>4. posts' \in PostSets
    BY <1>0, <1>4 DEF Typed, PostSets
  <2>5. QED
    BY <1>0, <1>4, <1>10, <1>12, <2>1, <2>2, <2>3, <2>4, SenderTyped
<1>17. OnSchedule(c)'
  <2>1. Busy(c)' /\ pc' = "replace" /\ Ended(c)' = m
    BY <1>2, <1>4, <1>14 DEF Busy, Attempting, Ended
  <2>2. OnLadder(c, entry[c], m)
    BY <1>3, <1>5, <1>8 DEF OnSchedule
  <2>3. OnLadder(c, entry[c], Ended(c))'
    BY <1>4, <2>1, <2>2 DEF OnLadder
  <2>4. /\ job.enqueuedAt = entry'[c].enqueuedAt
        /\ job.attempt = m + 1
        /\ job.done <=> m + 1 > 0 /\ (job.status = "ok" \/ m + 1 = MaxAttempts(c))
        /\ ~job.done => job.dueAt = entry'[c].enqueuedAt + Offset(c, m + 1 + 1)
    BY <1>4, <1>5, <1>6, <1>8
  <2>5. OnLadder(c, batch[c], Len(log[c]))'
    BY <1>10, <1>14, <2>4 DEF OnLadder
  <2>6. seen' >= entry'[c].enqueuedAt + Offset(c, batch'[c].attempt)
    BY <1>3, <1>4, <1>6, <1>10 DEF OnSchedule
  <2>7. ASSUME NEW i \in 1 .. Len(log'[c])
        PROVE  /\ log'[c][i].attempt = i
               /\ log'[c][i].last <=> log'[c][i].status = "ok" \/ i = MaxAttempts(c)
               /\ log'[c][i].last => i = Len(log'[c])
    <3>1. CASE i \in 1 .. m
      <4>1. log'[c][i] = log[c][i] /\ ~log[c][i].last
        BY <1>1, <1>2, <1>8, <1>14, <3>1, NotOverYet
      <4>2. /\ log[c][i].attempt = i
            /\ log[c][i].last <=> log[c][i].status = "ok" \/ i = MaxAttempts(c)
        BY <1>3, <1>8, <3>1 DEF OnSchedule
      <4>3. QED
        BY <4>1, <4>2
    <3>2. CASE i = m + 1
      BY <1>13, <1>14, <3>2
    <3>3. QED
      BY <1>14, <3>1, <3>2
  <2>8. QED
    BY <2>1, <2>3, <2>5, <2>6, <2>7 DEF OnSchedule
<1>18. CopyAgrees(c)'
  <2>1. Busy(c)' /\ pc' = "replace" /\ Ended(c)' = m
    BY <1>2, <1>4, <1>14 DEF Busy, Attempting, Ended
  <2>2. m > 0 => entry'[c].status = log'[c][m].status
    BY <1>3, <1>4, <1>5, <1>8, <1>14 DEF CopyAgrees
  <2>3. batch'[c].enqueuedAt = entry'[c].enqueuedAt /\ ~entry'[c].done
    BY <1>3, <1>4, <1>5, <1>6, <1>10 DEF CopyAgrees
  <2>4. batch'[c].status = log'[c][Len(log'[c])].status
    BY <1>6, <1>10, <1>13, <1>14
  <2>5. QED
    BY <2>1, <2>2, <2>3, <2>4 DEF CopyAgrees
<1>19. CopiesAgree'
  <2>1. \A d \in Deliveries \ {c} :
          /\ ~Busy(d) /\ ~Busy(d)' /\ entry'[d] = entry[d] /\ log'[d] = log[d]
          /\ d \in DOMAIN batch' => d \in DOMAIN batch /\ batch'[d] = batch[d] /\ seen' = seen
    BY <1>2, <1>4, <1>10, <1>12 DEF Busy
  <2>2. QED
    BY <1>3, <1>15, <1>17, <1>18, <2>1, CopiesButOne
<1>20. PostsMade' /\ PostsHandled'
  <2>1. \A d \in Enqueued : Begun(d) <= Begun(d)'
    <3>1. \A d \in Enqueued : Begun(d) \in Nat /\ Begun(d)' = Begun(d)
      BY <1>0, <1>4, <1>6, <1>10, BegunType DEF Begun
    <3>2. QED
      BY <3>1
  <2>2. QED
    BY <1>4, <1>15, <1>16, <2>1, PostsKept
<1>21. InFlight'
  BY <1>4 DEF InFlight
<1>22. OksAreExplained'
  <2>1. batch[c].status = "ok" => Explained(c, m + 1)
    BY <1>1, <1>2, <1>5, <1>8 DEF Inv, PostsAreMade, InFlight
  <2>2. ASSUME NEW d \in Deliveries, NEW i \in 1 .. Len(log'[d]), log'[d][i].status = "ok"
        PROVE  Explained(d, i)
    <3>1. CASE d # c
      BY <1>12, <2>2, <3>1 DEF Inv, OksAreExplained
    <3>2. CASE d = c /\ i \in 1 .. m
      BY <1>8, <1>14, <2>2, <3>2 DEF Inv, OksAreExplained
    <3>3. CASE d = c /\ i = m + 1
      BY <1>13, <1>14, <2>1, <2>2, <3>3
    <3>4. QED
      BY <1>14, <3>1, <3>2, <3>3
  <2>3. QED
    BY <1>4, <2>2 DEF OksAreExplained, Explained
<1>23. PostsApart'
  BY <1>4 DEF Inv, PostsAreMade, PostsApart
<1>24. QED
  BY <1>16, <1>19, <1>20, <1>21, <1>22, <1>23 DEF Inv, PostsAreMade


LEMMA ReplaceInv ==
  ASSUME Inv, Replace
  PROVE  Inv'
<1>0. Typed /\ seen \in 0 .. Horizon /\ Horizon \in Nat
  BY WebhookTypes DEF Inv
<1>1. pc = "replace" /\ Attempting
  BY DEF Replace, Attempting
<1>2. PICK c \in DOMAIN batch : c = current
  BY <1>1, UnderWay
<1>3. /\ c \in Enqueued /\ c \in Deliveries /\ Busy(c) /\ batch[c] \in Entries(c)
      /\ batch[c].attempt \in Nat /\ OnSchedule(c) /\ CopyAgrees(c)
  BY <1>1, <1>2, UnderWay
<1>4. /\ entry' = [entry EXCEPT ![c] = batch[c]]
      /\ batch' = [d \in DOMAIN batch \ {c} |-> batch[d]]
      /\ current' = NoDelivery
      /\ pc' = IF DOMAIN batch \ {c} = {} THEN "idle" ELSE "attempt"
      /\ seen' = IF DOMAIN batch \ {c} = {} THEN 0 ELSE seen
      /\ UNCHANGED <<clockVars, queue, log, posts, captures, history, clears, received>>
  BY <1>2 DEF Replace, inboxVars
<1>5. batch[c] # NoEntry /\ entry[c] # NoEntry
  BY <1>0, <1>3, EntryFacts DEF Enqueued
<1>6. /\ entry'[c] = batch[c] /\ \A d \in Deliveries \ {c} : entry'[d] = entry[d]
      /\ entry' = [d \in Deliveries |-> entry'[d]]
  BY <1>0, <1>3, <1>4 DEF Typed
<1>7. Enqueued' = Enqueued
  BY <1>5, <1>6 DEF Enqueued
<1>8. /\ DOMAIN batch' = DOMAIN batch \ {c}
      /\ \A d \in DOMAIN batch' : batch'[d] = batch[d] /\ seen' = seen
      /\ batch' = [d \in DOMAIN batch' |-> batch'[d]]
      /\ pc' \in {"idle", "attempt"} /\ (pc' = "idle" => DOMAIN batch' = {})
  BY <1>4
<1>9. Typed'
  <2>1. \A x \in Deliveries : entry'[x] # NoEntry => entry'[x] \in Entries(x)
    BY <1>0, <1>3, <1>6, WebhookTypes DEF Enqueued
  <2>2. /\ pc' \in Stages /\ seen' \in 0 .. Horizon /\ queue' \in Seq(Deliveries)
        /\ current' \in Deliveries \cup {NoDelivery} /\ ~(pc' \in {"wait", "settle", "replace"})
        /\ received' \subseteq Attempts /\ (pc' \in {"idle", "collect"} => DOMAIN batch' = {})
    BY <1>0, <1>4, <1>8 DEF Typed, TypeOK, Stages
  <2>3. \A x \in DOMAIN batch' : x \in Deliveries /\ entry'[x] # NoEntry /\ batch'[x] \in Entries(x)
    BY <1>0, <1>6, <1>8, WebhookTypes DEF Enqueued
  <2>4. posts' \in PostSets
    BY <1>0, <1>4 DEF Typed, PostSets
  <2>5. log' \in [Deliveries -> Seq(Events)]
    BY <1>0, <1>4, LogType
  <2>6. QED
    BY <1>0, <1>4, <1>6, <1>8, <2>1, <2>2, <2>3, <2>4, <2>5, SenderTyped
<1>10. Len(log[c]) \in Nat
  BY <1>0, <1>3, WebhookTypes
<1>11. CopiesAgree'
  <2>1. ~Busy(c)' /\ Ended(c)' = Len(log[c]) /\ c \notin DOMAIN batch'
    BY <1>4, <1>8 DEF Busy, Attempting, Ended
  <2>2. OnLadder(c, batch[c], Len(log[c])) /\ batch[c].enqueuedAt = entry[c].enqueuedAt
    BY <1>1, <1>3 DEF OnSchedule, CopyAgrees
  <2>3. OnLadder(c, entry[c], Ended(c))'
    BY <1>6, <2>1, <2>2 DEF OnLadder
  <2>4. OnSchedule(c)'
    BY <1>3, <1>4, <2>1, <2>3 DEF OnSchedule
  <2>5. CopyAgrees(c)'
    BY <1>1, <1>3, <1>4, <1>6, <2>1 DEF CopyAgrees
  <2>6. \A d \in Deliveries \ {c} :
          /\ ~Busy(d) /\ ~Busy(d)' /\ entry'[d] = entry[d] /\ log'[d] = log[d]
          /\ d \in DOMAIN batch' => d \in DOMAIN batch /\ batch'[d] = batch[d] /\ seen' = seen
    BY <1>2, <1>4, <1>6, <1>8 DEF Busy, Attempting
  <2>7. QED
    BY <1>3, <1>7, <2>4, <2>5, <2>6, CopiesButOne
<1>12. PostsMade' /\ PostsHandled'
  <2>1. \A d \in Enqueued : Begun(d) <= Begun(d)'
    <3>1. \A d \in Enqueued : Begun(d) \in Nat /\ Begun(d)' = Begun(d)
      BY <1>0, <1>6, <1>8, BegunType DEF Begun, Enqueued
    <3>2. QED
      BY <3>1
  <2>2. QED
    BY <1>4, <1>7, <1>9, <2>1, PostsKept
<1>13. PostsApart' /\ InFlight' /\ OksAreExplained'
  BY <1>4, <1>8 DEF InFlight, Inv, PostsAreMade, PostsApart, OksAreExplained, Explained
<1>14. QED
  BY <1>9, <1>11, <1>12, <1>13 DEF Inv, PostsAreMade

-----------------------------------------------------------------------------
(* What happens beside the sender.                                         *)

LEMMA BesideInv ==
  ASSUME Inv, Typed', PostsApart', UNCHANGED senderVars,
         received \subseteq received', posts.faulted \subseteq posts'.faulted,
         \A r \in posts'.sent \cup posts'.recorded \cup posts'.announced \cup posts'.faulted
                \cup received' :
           \/ r \in posts.sent \cup posts.recorded \cup posts.announced \cup posts.faulted
                  \cup received
           \/ r \in Callers,
         \A r \in posts'.recorded \cup posts'.announced :
           \/ r \in posts.recorded \cup posts.announced
           \/ r \in Callers
           \/ r \in received'
  PROVE  Inv'
<1>1. CopiesAgree' /\ Enqueued' = Enqueued /\ \A d \in Enqueued : Begun(d)' = Begun(d)
  BY CopiesKept
<1>2. Typed /\ UNCHANGED <<queue, entry, pc, seen, batch, current, log>>
  BY DEF senderVars, Inv
<1>3. \A d \in Enqueued : Begun(d) <= Begun(d)'
  <2>1. \A d \in Enqueued : Begun(d) \in Nat /\ Begun(d)' = Begun(d)
    BY <1>1, <1>2, BegunType
  <2>2. QED
    BY <2>1
<1>4. PostsMade' /\ PostsHandled'
  BY <1>1, <1>3, PostsKept
<1>5. Post' = Post /\ (Made(Post) => Made(Post)')
  BY <1>1, <1>2 DEF Post, Made
<1>6. InFlight'
  BY <1>2, <1>5 DEF Inv, PostsAreMade, InFlight, Explained
<1>7. OksAreExplained'
  BY <1>2 DEF Inv, OksAreExplained, Explained
<1>8. QED
  BY <1>1, <1>4, <1>6, <1>7 DEF Inv, PostsAreMade

LEMMA ApartKept ==
  ASSUME Inv, UNCHANGED <<posts, received>>
  PROVE  PostsApart'
BY DEF Inv, PostsAreMade, PostsApart

\* The clock's types, for the steps that leave it alone.
LEMMA ClockTyped ==
  ASSUME Inv
  PROVE  /\ wall \in Nat /\ offset \in Nat /\ wall + offset \in 0 .. Horizon
         /\ resets \in 0 .. MaxAdmin /\ clears \in 0 .. MaxAdmin
         /\ posts \in PostSets /\ received \subseteq Attempts
         /\ captures \in [Endpoints -> Seq(Posts)] /\ history \in [Endpoints -> Seq(Posts)]
         /\ Horizon \in Nat /\ MaxAdmin \in Nat
  BY WebhooksAssumption DEF Inv, Typed, TypeOK, now, PostSets

\* The newest Capacity of a list are its last.
LEMMA NewestFacts ==
  ASSUME NEW S, NEW s \in Seq(S)
  PROVE  /\ NewestOf(s) \in Seq(S)
         /\ Len(NewestOf(s)) = IF Len(s) <= Capacity THEN Len(s) ELSE Capacity
         /\ \A i \in 1 .. Len(NewestOf(s)) :
              NewestOf(s)[i] = s[Len(s) - Len(NewestOf(s)) + i]
<1>1. Capacity \in Nat /\ Capacity >= 1 /\ Len(s) \in Nat
  BY WebhooksAssumption
<1>2. CASE Len(s) <= Capacity
  BY <1>1, <1>2 DEF NewestOf
<1>3. CASE ~(Len(s) <= Capacity)
  <2>1. /\ NewestOf(s) = SubSeq(s, Len(s) - Capacity + 1, Len(s))
        /\ Len(s) - Capacity + 1 \in 1 .. Len(s) + 1
        /\ Len(s) \in Len(s) - Capacity + 1 - 1 .. Len(s)
    BY <1>1, <1>3 DEF NewestOf
  <2>2. PICK m \in 1 .. Len(s) + 1 : m = Len(s) - Capacity + 1
    BY <2>1
  <2>3. NewestOf(s) = SubSeq(s, m, Len(s)) /\ Len(s) \in m - 1 .. Len(s) /\ m \in Int
    BY <1>1, <2>1, <2>2
  <2>4. /\ SubSeq(s, m, Len(s)) \in Seq(S)
        /\ Len(SubSeq(s, m, Len(s))) = IF m <= Len(s) THEN Len(s) - m + 1 ELSE 0
        /\ \A i \in 1 .. Len(s) - m + 1 : SubSeq(s, m, Len(s))[i] = s[m + i - 1]
    BY <1>1, <2>2, <2>3, SubSeqProperties
  <2>5. Len(NewestOf(s)) = Capacity
    BY <1>1, <1>3, <2>2, <2>3, <2>4
  <2>6. \A i \in 1 .. Capacity : NewestOf(s)[i] = s[m + i - 1] /\ m + i - 1 = Len(s) - Capacity + i
    BY <1>1, <2>2, <2>3, <2>4
  <2>7. QED
    BY <1>3, <2>3, <2>4, <2>5, <2>6
<1>4. QED
  BY <1>2, <1>3

LEMMA RequestInv ==
  ASSUME Inv, NEW r \in Requests,
         (r \in Callers /\ Call(r)) \/ Record(r) \/ Announce(r) \/ AnswerInPlace(r)
  PROVE  Inv'
<1>0. Typed /\ UNCHANGED <<clockVars, senderVars, clears>>
  BY DEF Inv, Call, Record, Announce, AnswerInPlace
<1>1. /\ wall' \in Nat /\ offset' \in Nat /\ wall' + offset' \in 0 .. Horizon
      /\ resets' \in 0 .. MaxAdmin /\ clears' \in 0 .. MaxAdmin
  BY <1>0, ClockTyped DEF clockVars
<1>2. r \in Posts
  BY <1>0, WebhookTypes DEF Requests, Posts
<1>apart. PostsApart /\ posts \in PostSets /\ received \subseteq Attempts /\ Callers \cap Attempts = {}
  BY ClockTyped, WebhooksAssumption DEF Inv, PostsAreMade, Attempts
<1>3. CASE r \in Callers /\ Call(r)
  <2>1. /\ r \in Callers /\ posts' = [posts EXCEPT !.sent = @ \cup {r}]
        /\ UNCHANGED <<captures, history, received>>
    BY <1>3 DEF Call
  <2>new. r \notin posts.faulted
    BY <1>3 DEF Call
  <2>2. posts' \in PostSets
    BY <1>2, <2>1, ClockTyped DEF PostSets
  <2>3. /\ posts'.sent = posts.sent \cup {r} /\ posts'.recorded = posts.recorded
        /\ posts'.announced = posts.announced /\ posts'.faulted = posts.faulted
    BY <2>1, ClockTyped DEF PostSets
  <2>4. Typed'
    BY <1>0, <1>1, <2>1, <2>2, ClockTyped, BesideTyped
  <2>5. PostsApart'
    BY <1>apart, <2>1, <2>3, <2>new DEF PostsApart
  <2>6. QED
    BY <1>0, <2>1, <2>3, <2>4, <2>5, BesideInv
<1>4. CASE Record(r)
  <2>1. PICK e : e = EndpointOf(r)
    OBVIOUS
  <2>2. /\ r \in posts.sent
        /\ captures' = [captures EXCEPT ![e] = NewestOf(Append(@, r))]
        /\ history' = [history EXCEPT ![e] = Append(@, r)]
        /\ posts' = [posts EXCEPT !.sent = @ \ {r}, !.recorded = @ \cup {r}]
        /\ received' = IF r \in Callers THEN received ELSE received \cup {r}
    BY <1>4, <2>1 DEF Record
  <2>3. posts' \in PostSets
    BY <1>2, <2>2, ClockTyped DEF PostSets
  <2>4. /\ posts'.sent = posts.sent \ {r} /\ posts'.recorded = posts.recorded \cup {r}
        /\ posts'.announced = posts.announced /\ posts'.faulted = posts.faulted
    BY <2>2, ClockTyped DEF PostSets
  <2>5. received' \subseteq Attempts /\ received \subseteq received'
    BY <1>2, <2>2, ClockTyped DEF Posts
  <2>6. history' \in [Endpoints -> Seq(Posts)]
    <3>1. \A s \in Seq(Posts) : Append(s, r) \in Seq(Posts)
      BY <1>2
    <3>2. history \in [Endpoints -> Seq(Posts)]
      BY ClockTyped
    <3>3. DOMAIN history' = Endpoints /\ history' = [x \in Endpoints |-> history'[x]]
      BY <2>2, <3>2
    <3>4. \A x \in Endpoints : history'[x] \in Seq(Posts)
      BY <2>2, <3>1, <3>2
    <3>5. QED
      BY <3>3, <3>4
  <2>7. captures' \in [Endpoints -> Seq(Posts)]
    <3>1. ASSUME NEW s \in Seq(Posts)
          PROVE  NewestOf(Append(s, r)) \in Seq(Posts)
      <4>1. Append(s, r) \in Seq(Posts)
        BY <1>2
      <4>2. QED
        BY <4>1, NewestFacts
    <3>2. captures \in [Endpoints -> Seq(Posts)]
      BY ClockTyped
    <3>3. DOMAIN captures' = Endpoints /\ captures' = [x \in Endpoints |-> captures'[x]]
      BY <2>2, <3>2
    <3>4. \A x \in Endpoints : captures'[x] \in Seq(Posts)
      BY <2>2, <3>1, <3>2
    <3>5. QED
      BY <3>3, <3>4
  <2>8. Typed'
    BY <1>0, <1>1, <2>3, <2>5, <2>6, <2>7, BesideTyped
  <2>9. PostsApart'
    BY <1>apart, <2>2, <2>4 DEF PostsApart
  <2>10. QED
    BY <1>0, <2>2, <2>4, <2>5, <2>8, <2>9, BesideInv
<1>5. CASE Announce(r)
  <2>1. /\ r \in posts.recorded
        /\ posts' = [posts EXCEPT !.recorded = @ \ {r}, !.announced = @ \cup {r}]
        /\ UNCHANGED <<captures, history, received>>
    BY <1>5 DEF Announce
  <2>2. posts' \in PostSets
    BY <1>2, <2>1, ClockTyped DEF PostSets
  <2>3. /\ posts'.sent = posts.sent /\ posts'.recorded = posts.recorded \ {r}
        /\ posts'.announced = posts.announced \cup {r} /\ posts'.faulted = posts.faulted
    BY <2>1, ClockTyped DEF PostSets
  <2>4. Typed'
    BY <1>0, <1>1, <2>1, <2>2, ClockTyped, BesideTyped
  <2>5. PostsApart'
    BY <1>apart, <2>1, <2>3 DEF PostsApart
  <2>6. QED
    BY <1>0, <2>1, <2>3, <2>4, <2>5, BesideInv
<1>6. CASE AnswerInPlace(r)
  <2>1. /\ r \in posts.sent
        /\ posts' = [posts EXCEPT !.sent = @ \ {r}, !.faulted = @ \cup {r}]
        /\ UNCHANGED <<captures, history, received>>
    BY <1>6 DEF AnswerInPlace
  <2>2. posts' \in PostSets
    BY <1>2, <2>1, ClockTyped DEF PostSets
  <2>3. /\ posts'.sent = posts.sent \ {r} /\ posts'.recorded = posts.recorded
        /\ posts'.announced = posts.announced /\ posts'.faulted = posts.faulted \cup {r}
    BY <2>1, ClockTyped DEF PostSets
  <2>4. Typed'
    BY <1>0, <1>1, <2>1, <2>2, ClockTyped, BesideTyped
  <2>5. PostsApart'
    BY <1>apart, <2>1, <2>3 DEF PostsApart
  <2>6. QED
    BY <1>0, <2>1, <2>3, <2>4, <2>5, BesideInv
<1>7. QED
  BY <1>3, <1>4, <1>5, <1>6

LEMMA ClearInv ==
  ASSUME Inv, NEW e \in Endpoints, Clear(e)
  PROVE  Inv'
<1>1. /\ clears + resets < MaxAdmin /\ clears' = clears + 1
      /\ captures' = [captures EXCEPT ![e] = <<>>] /\ history' = [history EXCEPT ![e] = <<>>]
      /\ UNCHANGED <<wall, offset, resets, senderVars, posts, received>>
  BY DEF Clear, clockVars
<1>2. clears' \in 0 .. MaxAdmin
  BY <1>1, ClockTyped
<1>3. captures' \in [Endpoints -> Seq(Posts)] /\ history' \in [Endpoints -> Seq(Posts)]
  BY <1>1, ClockTyped
<1>4. Typed'
  BY <1>1, <1>2, <1>3, ClockTyped, BesideTyped DEF Inv
<1>5. QED
  BY <1>1, <1>4, ApartKept, BesideInv

LEMMA TimeInv ==
  ASSUME Inv, Elapse \/ (\E ms \in Advances : Advance(ms)) \/ ResetClock
  PROVE  Inv'
<1>1. UNCHANGED <<senderVars, posts, captures, history, clears, received>>
  BY DEF Elapse, Advance, ResetClock, inboxVars
<1>2. /\ wall' \in Nat /\ offset' \in Nat /\ wall' + offset' \in 0 .. Horizon
      /\ resets' \in 0 .. MaxAdmin
  <2>1. CASE Elapse
    BY <2>1, ClockTyped DEF Elapse, now
  <2>2. CASE \E ms \in Advances : Advance(ms)
    <3>1. PICK ms \in Advances : Advance(ms)
      BY <2>2
    <3>2. ms \in Nat
      BY WebhooksAssumption
    <3>3. wall' = wall /\ resets' = resets /\ offset' = offset + ms /\ wall + offset + ms <= Horizon
      BY <3>1 DEF Advance, now
    <3>4. QED
      BY <3>2, <3>3, ClockTyped
  <2>3. CASE ResetClock
    BY <2>3, ClockTyped DEF ResetClock, now
  <2>4. QED
    BY <2>1, <2>2, <2>3
<1>3. Typed'
  BY <1>1, <1>2, ClockTyped, BesideTyped DEF Inv
<1>4. QED
  BY <1>1, <1>3, ApartKept, BesideInv


-----------------------------------------------------------------------------
(* The invariant.                                                          *)

LEMMA WebhooksInit == Init => Inv
<1> SUFFICES ASSUME Init PROVE Inv
  OBVIOUS
<1>1. Typed
  BY WebhookTypeInit
<1>2. Enqueued = {} /\ \A d \in Deliveries : log[d] = <<>>
  BY DEF Init, Enqueued
<1>3. CopiesAgree
  BY <1>2 DEF CopiesAgree
<1>4. /\ posts.sent = {} /\ posts.recorded = {} /\ posts.announced = {} /\ posts.faulted = {}
      /\ received = {} /\ pc = "idle"
  BY DEF Init
<1>5. PostsAreMade
  BY <1>4 DEF PostsAreMade, PostsMade, PostsHandled, PostsApart, InFlight
<1>6. OksAreExplained
  BY <1>2 DEF OksAreExplained
<1>7. QED
  BY <1>1, <1>3, <1>5, <1>6 DEF Inv

LEMMA WebhooksNext ==
  ASSUME Inv, Next
  PROVE  Inv'
<1>1. CASE Send
  BY <1>1, WakeInv, CollectInv, AttemptInv, AnswerElsewhereInv, AnswerInboxInv, TimeOutInv,
     SettleInv, ReplaceInv DEF Send
<1>2. CASE \E d \in Deliveries : Enqueue(d)
  BY <1>2, EnqueueInv
<1>3. CASE \E c \in Callers : Call(c)
  BY <1>3, RequestInv DEF Requests
<1>4. CASE \E r \in Requests : Record(r) \/ Announce(r) \/ AnswerInPlace(r)
  BY <1>4, RequestInv
<1>5. CASE \E e \in Endpoints : Clear(e)
  BY <1>5, ClearInv
<1>6. CASE Elapse \/ (\E ms \in Advances : Advance(ms)) \/ ResetClock
  BY <1>6, TimeInv
<1>7. QED
  BY <1>1, <1>2, <1>3, <1>4, <1>5, <1>6 DEF Next

LEMMA WebhooksStutter ==
  ASSUME Inv, UNCHANGED vars
  PROVE  Inv'
<1>1. /\ UNCHANGED <<senderVars, posts, captures, history, clears, received>>
      /\ UNCHANGED <<wall, offset, resets>>
  BY DEF vars, inboxVars, clockVars
<1>2. Typed'
  BY <1>1, ClockTyped, BesideTyped DEF Inv
<1>3. QED
  BY <1>1, <1>2, ApartKept, BesideInv

\* Queue, copies, bus and posts agree in every reachable state, at each of the points where
\* outbound.rs's loop awaits or gives up its lock.
THEOREM WebhooksInv == Spec => []Inv
<1>1. Inv /\ [Next]_vars => Inv'
  BY WebhooksNext, WebhooksStutter
<1>2. QED
  BY WebhooksInit, <1>1, PTL DEF Spec

\* Whoever holds a delivery, the queue, the loop or the bus, holds the same rung of its
\* ladder, measured from the enqueue, however often the clock is set: outbound.rs's tick
\* works on copies the queue does not see until each attempt is over.
THEOREM WebhooksLadderHolds == Spec => []LadderHolds
<1>1. Inv => LadderHolds
  BY DEF Inv, Typed, CopiesAgree, LadderHolds
<1>2. QED
  BY WebhooksInv, <1>1, PTL

\* A success the sender records was handled by the receiver in that attempt, or answered
\* for by the fault layer in front of our own inbox, and then no handler sees that post,
\* however long it outlives its timeout; nothing the sender did not attempt, or failed by
\* fail_first, reached a receiver.
THEOREM WebhooksSuccessIsExplained == Spec => []SuccessIsExplained
<1>1. Inv => SuccessIsExplained
  <2> SUFFICES ASSUME Inv PROVE SuccessIsExplained
    OBVIOUS
  <2>1. \A r \in received : r \notin Callers
    BY WebhooksAssumption DEF Inv, Typed, Attempts
  <2>2. \A r \in received : r[1] \in Enqueued /\ r[2] > FailFirst[r[1]] /\ r[2] <= Begun(r[1])
    BY <2>1 DEF Inv, PostsAreMade, PostsMade, Made
  <2>3. received \cap posts.faulted = {}
    BY DEF Inv, PostsAreMade, PostsApart
  <2>4. QED
    BY <2>2, <2>3 DEF Inv, OksAreExplained, Explained, SuccessIsExplained
<1>2. QED
  BY WebhooksInv, <1>1, PTL

-----------------------------------------------------------------------------
(* The inbox at its limit.                                                 *)

\* A list holds the newest of another, and as many of them as fit.
NewestIn(kept, all) ==
  /\ Len(kept) = IF Len(all) <= Capacity THEN Len(all) ELSE Capacity
  /\ \A i \in 1 .. Len(kept) : kept[i] = all[Len(all) - Len(kept) + i]

LEMMA InboxIsNewest ==
  InboxKeepsTheNewest <=> \A e \in Endpoints : NewestIn(captures[e], history[e])
BY DEF InboxKeepsTheNewest, NewestIn

LEMMA AppendFacts ==
  ASSUME NEW S, NEW s \in Seq(S), NEW r \in S, NEW n \in Nat, n = Len(s)
  PROVE  /\ Append(s, r) \in Seq(S)
         /\ Len(Append(s, r)) = n + 1 /\ Append(s, r)[n + 1] = r
         /\ \A i \in 1 .. n : Append(s, r)[i] = s[i]
OBVIOUS

\* A list that holds the newest of another still does after both are appended to and the
\* first is drained.
LEMMA NewestAppended ==
  ASSUME NEW S, NEW kept \in Seq(S), NEW all \in Seq(S), NEW r \in S, NewestIn(kept, all)
  PROVE  NewestIn(NewestOf(Append(kept, r)), Append(all, r))
<1>1. Capacity \in Nat /\ Capacity >= 1
  BY WebhooksAssumption
<1>2. PICK k, a \in Nat : k = Len(kept) /\ a = Len(all)
  OBVIOUS
<1>3. k = IF a <= Capacity THEN a ELSE Capacity
  BY <1>2 DEF NewestIn
<1>4. \A i \in 1 .. k : kept[i] = all[a - k + i]
  BY <1>2 DEF NewestIn
<1> DEFINE more == Append(kept, r)
           whole == Append(all, r)
           then == NewestOf(more)
<1>5. /\ more \in Seq(S) /\ Len(more) = k + 1 /\ more[k + 1] = r
      /\ \A i \in 1 .. k : more[i] = kept[i]
  BY <1>2, AppendFacts
<1>6. /\ Len(whole) = a + 1 /\ whole[a + 1] = r
      /\ \A i \in 1 .. a : whole[i] = all[i]
  BY <1>2, AppendFacts
<1> HIDE DEF more, whole
<1>7. /\ Len(then) = IF Len(more) <= Capacity THEN Len(more) ELSE Capacity
      /\ \A i \in 1 .. Len(then) : then[i] = more[Len(more) - Len(then) + i]
  BY <1>5, NewestFacts
<1> HIDE DEF then
<1>8. PICK t \in Nat : t = Len(then)
  BY <1>1, <1>5, <1>7
<1>9. t = IF a + 1 <= Capacity THEN a + 1 ELSE Capacity
  BY <1>1, <1>3, <1>5, <1>7, <1>8
<1>10. t <= k + 1
  BY <1>1, <1>3, <1>9
<1>11. ASSUME NEW j \in 1 .. k PROVE more[j] = whole[a - k + j]
  <2>1. a - k + j \in 1 .. a
    BY <1>1, <1>3
  <2>2. QED
    BY <1>4, <1>5, <1>6, <2>1
<1>12. ASSUME NEW i \in 1 .. t PROVE then[i] = whole[a + 1 - t + i]
  <2>1. PICK j \in 1 .. k + 1 : j = k + 1 - t + i
    <3>1. k + 1 - t + i \in 1 .. k + 1
      BY <1>10
    <3>2. QED
      BY <3>1
  <2>2. then[i] = more[j]
    <3>1. i \in 1 .. Len(then) /\ Len(more) - Len(then) + i = j
      BY <1>5, <1>8, <2>1
    <3>2. QED
      BY <1>7, <3>1
  <2>3. a + 1 - t + i = a - k + j
    BY <2>1
  <2>4. CASE j = k + 1
    <3>1. a - k + j = a + 1
      BY <2>4
    <3>2. QED
      BY <1>5, <1>6, <2>2, <2>3, <2>4, <3>1
  <2>5. CASE j \in 1 .. k
    BY <1>11, <2>2, <2>3, <2>5
  <2>6. QED
    BY <2>1, <2>4, <2>5
<1>13. Len(then) = IF Len(whole) <= Capacity THEN Len(whole) ELSE Capacity
  BY <1>6, <1>8, <1>9
<1>14. \A i \in 1 .. Len(then) : then[i] = whole[Len(whole) - Len(then) + i]
  BY <1>6, <1>8, <1>12
<1>15. QED
  BY <1>13, <1>14 DEF NewestIn, more, whole, then

LEMMA InboxNext ==
  ASSUME Inv, InboxKeepsTheNewest, [Next]_vars
  PROVE  InboxKeepsTheNewest'
<1>0. \A e \in Endpoints : NewestIn(captures[e], history[e])
  BY InboxIsNewest
<1>1. captures \in [Endpoints -> Seq(Posts)] /\ history \in [Endpoints -> Seq(Posts)]
  BY ClockTyped
<1>2. SUFFICES \A e \in Endpoints : NewestIn(captures'[e], history'[e])
  BY DEF InboxKeepsTheNewest, NewestIn
<1>3. ASSUME NEW c \in Endpoints, Clear(c), NEW e \in Endpoints
      PROVE  NewestIn(captures'[e], history'[e])
  <2>1. /\ captures' = [captures EXCEPT ![c] = <<>>]
        /\ history' = [history EXCEPT ![c] = <<>>]
    BY <1>3 DEF Clear
  <2>2. CASE e # c
    BY <1>0, <1>1, <2>1, <2>2
  <2>3. CASE e = c
    <3>1. captures'[e] = <<>> /\ history'[e] = <<>>
      BY <1>1, <2>1, <2>3
    <3>2. 0 <= Capacity /\ Len(<<>>) = 0
      BY WebhooksAssumption
    <3>3. QED
      BY <3>1, <3>2 DEF NewestIn
  <2>4. QED
    BY <2>2, <2>3
<1>4. ASSUME NEW r \in Requests, Record(r), NEW e \in Endpoints
      PROVE  NewestIn(captures'[e], history'[e])
  <2>1. PICK c : c = EndpointOf(r)
    OBVIOUS
  <2>2. /\ captures' = [captures EXCEPT ![c] = NewestOf(Append(@, r))]
        /\ history' = [history EXCEPT ![c] = Append(@, r)]
        /\ r \in posts.sent
    BY <1>4, <2>1 DEF Record
  <2>3. r \in Posts
    BY <2>2, ClockTyped DEF PostSets
  <2>4. CASE e # c
    BY <1>0, <1>1, <2>2, <2>4
  <2>5. CASE e = c
    <3>1. captures'[e] = NewestOf(Append(captures[e], r)) /\ history'[e] = Append(history[e], r)
      BY <1>1, <2>2, <2>5
    <3>2. captures[e] \in Seq(Posts) /\ history[e] \in Seq(Posts)
      BY <1>1
    <3>3. QED
      BY <1>0, <2>3, <3>1, <3>2, NewestAppended
  <2>6. QED
    BY <2>4, <2>5
<1>5. CASE UNCHANGED <<captures, history>>
  BY <1>0, <1>5
<1>6. CASE Send \/ (\E d \in Deliveries : Enqueue(d)) \/ (\E c \in Callers : Call(c))
  <2>1. UNCHANGED <<captures, history>>
    BY <1>6 DEF Send, Wake, Collect, Attempt, AnswerElsewhere, AnswerInbox, TimeOut, Answered,
         Settle, Replace, Enqueue, Call, inboxVars
  <2>2. QED
    BY <1>5, <2>1
<1>7. CASE (\E r \in Requests : Announce(r) \/ AnswerInPlace(r)) \/ Elapse \/ (\E ms \in Advances : Advance(ms))
           \/ ResetClock \/ UNCHANGED vars
  <2>1. UNCHANGED <<captures, history>>
    BY <1>7 DEF Announce, AnswerInPlace, Elapse, Advance, ResetClock, vars, inboxVars
  <2>2. QED
    BY <1>5, <2>1
<1>8. QED
  BY <1>3, <1>4, <1>6, <1>7 DEF Next

\* An endpoint of the inbox keeps the newest CAPACITY of what was recorded at it since its
\* last clear, in the order recorded: inbound.rs's record pushes and drains under one lock.
THEOREM WebhooksInboxKeepsTheNewest == Spec => []InboxKeepsTheNewest
<1>1. Init => InboxKeepsTheNewest
  <2> SUFFICES ASSUME Init PROVE InboxKeepsTheNewest
    OBVIOUS
  <2>1. \A e \in Endpoints : captures[e] = <<>> /\ history[e] = <<>>
    BY DEF Init
  <2>2. 0 <= Capacity /\ Len(<<>>) = 0
    BY WebhooksAssumption
  <2>3. NewestIn(<<>>, <<>>)
    BY <2>2 DEF NewestIn
  <2>4. \A e \in Endpoints : NewestIn(captures[e], history[e])
    BY <2>1, <2>3
  <2>5. QED
    BY <2>4, InboxIsNewest
<1>2. Inv /\ InboxKeepsTheNewest /\ [Next]_vars => InboxKeepsTheNewest'
  BY InboxNext
<1>3. QED
  BY WebhooksInv, <1>1, <1>2, PTL DEF Spec
=============================================================================
