------------------------------ MODULE Webhooks ------------------------------
(***************************************************************************)
(* Webhooks, both directions: the outbound sender (hooks/src/outbound.rs)  *)
(* with its queue and its retry ladder in virtual time, and the capture    *)
(* inbox (hooks/src/inbound.rs), which the sender may be pointed at.       *)
(*                                                                         *)
(* The sender is one task; the inbox's handlers, the receivers elsewhere   *)
(* and the admin requests run beside it.  A post the sender gave up on may *)
(* still arrive, and a receiver may have handled a post whose answer is    *)
(* lost.  The inbox is mounted behind the fault layer, which may answer in *)
(* its place, with any status, a success too; its rules are those of       *)
(* FaultLayer, of which only the answer matters here.                      *)
(***************************************************************************)
EXTENDS Integers, Sequences, FiniteSets

CONSTANTS
  Deliveries,      \* ids of the deliveries a test may enqueue
  Endpoints,       \* names of the capture inbox
  Elsewhere,       \* the target that is not the inbox
  Target,          \* [Deliveries -> Endpoints \cup {Elsewhere}]
  BackoffMs,       \* [Deliveries -> Seq(Nat)]: WebhookEndpoint::backoff_ms
  DefaultBackoff,  \* DEFAULT_BACKOFF_MS
  FailFirst,       \* [Deliveries -> Nat]
  Callers,         \* posts to the inbox by others, one each
  CallerTarget,    \* [Callers -> Endpoints]
  Capacity,        \* CAPACITY: captures kept per endpoint
  Advances,        \* the ms a clock/advance may ask for
  Horizon,         \* bound: virtual time is not followed past it
  MaxAdmin,        \* bound: resets of the clock, and clears of the inbox
  NoDelivery, NoEntry

ASSUME WebhooksAssumption ==
  /\ Target \in [Deliveries -> Endpoints \cup {Elsewhere}]
  /\ Elsewhere \notin Endpoints
  /\ BackoffMs \in [Deliveries -> Seq(Nat)]
  /\ DefaultBackoff \in Seq(Nat)
  /\ FailFirst \in [Deliveries -> Nat]
  /\ CallerTarget \in [Callers -> Endpoints]
  /\ Callers \cap (Deliveries \X Nat) = {}
  /\ Capacity \in Nat \ {0}
  /\ Advances \subseteq Nat
  /\ Horizon \in Nat /\ MaxAdmin \in Nat
  /\ NoDelivery \notin Deliveries
  /\ NoEntry \notin [enqueuedAt : Nat, attempt : Nat, dueAt : Int,
                     done : BOOLEAN, status : {"none", "ok", "failed"}]

VARIABLES
  wall, offset, resets,  \* virtual time is wall + offset, as in Scheduler
  queue,     \* Sender::queue: the ids in the order they were pushed
  entry,     \* ... and the Delivery of each, NoEntry before it is enqueued
  pc,        \* where the sender's loop stands
  seen,      \* the virtual time its current tick read, 0 between ticks
  batch,     \* the copies the tick has still to attempt, by id
  current,   \* the delivery being attempted
  log,       \* the WebhookOut events on the bus, per delivery
  posts,     \* the requests to an inbox, by what became of them so far
  captures,  \* Inbox::endpoints
  history,   \* history: everything recorded at an endpoint since its last clear
  received,  \* history: the sender's posts some receiver handled
  clears     \* clears so far

clockVars == <<wall, offset, resets>>
senderVars == <<queue, entry, pc, seen, batch, current, log>>
inboxVars == <<posts, captures, history, clears>>
vars == <<clockVars, senderVars, inboxVars, received>>

now == wall + offset

-----------------------------------------------------------------------------
(* A delivery's own arithmetic.  Of last_status and last_error only whether *)
(* the attempt succeeded is kept.                                          *)

Backoff(d) == IF BackoffMs[d] = <<>> THEN DefaultBackoff ELSE BackoffMs[d]
MaxAttempts(d) == Len(Backoff(d)) + 1

\* What attempt n waits for, counted from the enqueue: the sum of the first n - 1
\* backoffs, as the number of ms they hold.
Before(d, n) == {i \in 1 .. Len(Backoff(d)) : i < n}
Offset(d, n) == Cardinality(UNION {{i} \X (1 .. Backoff(d)[i]) : i \in Before(d, n)})

DueForFromTick(d, job, n) == seen + Backoff(d)[n - 1]

\* A ladder too long for the code's i64 is outside the model.
DueFor(d, job, n) == job.enqueuedAt + Offset(d, n)

Succeeds(status) == status = "ok"

GivesUp(d, job) == job.attempt >= MaxAttempts(d)

\* attempt, once the outcome is known.
Settled(d, job, status) ==
  IF Succeeds(status) \/ GivesUp(d, job)
  THEN [job EXCEPT !.status = status, !.done = TRUE]
  ELSE [job EXCEPT !.status = status, !.dueAt = DueFor(d, job, job.attempt + 1)]

-----------------------------------------------------------------------------
(* The sender's loop.                                                      *)

Enqueue(d) ==
  /\ entry[d] = NoEntry
  /\ entry' = [entry EXCEPT ![d] = [enqueuedAt |-> now, attempt |-> 0, dueAt |-> now,
                                    done |-> FALSE, status |-> "none"]]
  /\ queue' = Append(queue, d)
  /\ UNCHANGED <<clockVars, pc, seen, batch, current, log, inboxVars, received>>

\* tick reads the clock, then filters the queue under its lock.
Wake ==
  /\ pc = "idle"
  /\ pc' = "collect"
  /\ seen' = now
  /\ UNCHANGED <<clockVars, queue, entry, batch, current, log, inboxVars, received>>

DueStrictly(d) == entry[d] # NoEntry /\ ~entry[d].done /\ entry[d].dueAt < seen

Due(d) == entry[d] # NoEntry /\ ~entry[d].done /\ entry[d].dueAt <= seen

Collect ==
  /\ pc = "collect"
  /\ batch' = [d \in {e \in Deliveries : Due(e)} |-> entry[d]]
  /\ pc' = IF DOMAIN batch' = {} THEN "idle" ELSE "attempt"
  /\ seen' = IF DOMAIN batch' = {} THEN 0 ELSE seen
  /\ UNCHANGED <<clockVars, queue, entry, current, log, inboxVars, received>>

\* The next copy, in queue order; fail_first answers before any request is made.
FirstIn(S, d) ==
  \E i \in 1 .. Len(queue) :
    queue[i] = d /\ d \in S /\ \A k \in 1 .. i - 1 : queue[k] \notin S

FailsFirst(d, n) == n <= FailFirst[d]

Attempt ==
  /\ pc = "attempt"
  /\ \E d \in DOMAIN batch :
       LET n == batch[d].attempt + 1
       IN  /\ FirstIn(DOMAIN batch, d)
           /\ current' = d
           /\ batch' = [batch EXCEPT ![d].attempt = n,
                                  ![d].status = IF FailsFirst(d, n) THEN "failed" ELSE @]
           /\ pc' = IF FailsFirst(d, n) THEN "settle" ELSE "wait"
           /\ posts' = IF FailsFirst(d, n) \/ Target[d] = Elsewhere THEN posts
                       ELSE [posts EXCEPT !.sent = @ \cup {<<d, n>>}]
  /\ UNCHANGED <<clockVars, queue, entry, seen, log, captures, history, clears, received>>

Answered(status) ==
  /\ batch' = [batch EXCEPT ![current].status = status]
  /\ pc' = "settle"
  /\ UNCHANGED <<clockVars, queue, entry, seen, current, log, captures, history, clears>>

Post == <<current, batch[current].attempt>>

\* A receiver elsewhere: it answers, fails, or handles the post and is not heard.
AnswerElsewhere ==
  /\ pc = "wait" /\ Target[current] = Elsewhere
  /\ \/ Answered("ok") /\ received' = received \cup {Post}
     \/ Answered("failed") /\ received' \in {received, received \cup {Post}}
  /\ UNCHANGED posts

\* Our own inbox answers once its handler is through; the fault layer in its place with
\* the status of its rule, or with 200 and no body.
AnswerInbox ==
  /\ pc = "wait" /\ Target[current] # Elsewhere
  /\ \/ Post \in posts.announced /\ Answered("ok")
     \/ Post \in posts.faulted /\ (Answered("ok") \/ Answered("failed"))
  /\ UNCHANGED <<posts, received>>

\* The client's timeout, or a connection that breaks: the post stays on its way.
TimeOut ==
  /\ pc = "wait" /\ Target[current] # Elsewhere
  /\ Answered("failed")
  /\ UNCHANGED <<posts, received>>

\* The outcome is decided on the copy and announced; the queue is written next.
Settle ==
  LET job == Settled(current, batch[current], batch[current].status)
  IN  /\ pc = "settle"
      /\ batch' = [batch EXCEPT ![current] = job]
      /\ log' = [log EXCEPT ![current] =
                   Append(@, [attempt |-> job.attempt, status |-> job.status,
                              last |-> job.done])]
      /\ pc' = "replace"
      /\ UNCHANGED <<clockVars, queue, entry, seen, current, inboxVars, received>>

Replace ==
  LET rest == DOMAIN batch \ {current}
  IN  /\ pc = "replace"
      /\ entry' = [entry EXCEPT ![current] = batch[current]]
      /\ batch' = [d \in rest |-> batch[d]]
      /\ current' = NoDelivery
      /\ pc' = IF rest = {} THEN "idle" ELSE "attempt"
      /\ seen' = IF rest = {} THEN 0 ELSE seen
      /\ UNCHANGED <<clockVars, queue, log, inboxVars, received>>

-----------------------------------------------------------------------------
(* The inbox.  A post nobody records or answers for any more was lost.     *)

EndpointOf(r) == IF r \in Callers THEN CallerTarget[r] ELSE Target[r[1]]

Call(c) ==
  /\ c \notin posts.sent \cup posts.recorded \cup posts.announced \cup posts.faulted
  /\ posts' = [posts EXCEPT !.sent = @ \cup {c}]
  /\ UNCHANGED <<clockVars, senderVars, captures, history, clears, received>>

\* Without the early return, the request goes on to the handler.
AnswerAndRun(r) ==
  /\ r \in posts.sent
  /\ posts' = [posts EXCEPT !.faulted = @ \cup {r}]
  /\ UNCHANGED <<clockVars, senderVars, captures, history, clears, received>>

\* The fault layer in front of the inbox: a status or a drop, and the handler never runs.
AnswerInPlace(r) ==
  /\ r \in posts.sent
  /\ posts' = [posts EXCEPT !.sent = @ \ {r}, !.faulted = @ \cup {r}]
  /\ UNCHANGED <<clockVars, senderVars, captures, history, clears, received>>

\* The newest Capacity of a list: the oldest are drained.
OldestOf(s) == IF Len(s) <= Capacity THEN s ELSE SubSeq(s, 1, Capacity)

NewestOf(s) == IF Len(s) <= Capacity THEN s ELSE SubSeq(s, Len(s) - Capacity + 1, Len(s))

\* Inbox::record, under the inbox's lock.
Record(r) ==
  LET e == EndpointOf(r)
  IN  /\ r \in posts.sent
      /\ captures' = [captures EXCEPT ![e] = NewestOf(Append(@, r))]
      /\ history' = [history EXCEPT ![e] = Append(@, r)]
      /\ posts' = [posts EXCEPT !.sent = @ \ {r}, !.recorded = @ \cup {r}]
      /\ received' = IF r \in Callers THEN received ELSE received \cup {r}
      /\ UNCHANGED <<clockVars, senderVars, clears>>

\* The WebhookIn event, after the lock is released; then the answer.
Announce(r) ==
  /\ r \in posts.recorded
  /\ posts' = [posts EXCEPT !.recorded = @ \ {r}, !.announced = @ \cup {r}]
  /\ UNCHANGED <<clockVars, senderVars, captures, history, clears, received>>

\* DELETE /_admin/hooks/in/{id}.
Clear(e) ==
  /\ clears + resets < MaxAdmin
  /\ captures' = [captures EXCEPT ![e] = <<>>]
  /\ history' = [history EXCEPT ![e] = <<>>]
  /\ clears' = clears + 1
  /\ UNCHANGED <<clockVars, senderVars, posts, received>>

-----------------------------------------------------------------------------
(* The clock.                                                              *)

Elapse ==
  /\ now < Horizon
  /\ wall' = wall + 1
  /\ UNCHANGED <<offset, resets, senderVars, inboxVars, received>>

Advance(ms) ==
  /\ now + ms <= Horizon
  /\ offset' = offset + ms
  /\ UNCHANGED <<wall, resets, senderVars, inboxVars, received>>

ResetClock ==
  /\ clears + resets < MaxAdmin
  /\ offset' = 0
  /\ resets' = resets + 1
  /\ UNCHANGED <<wall, senderVars, inboxVars, received>>

-----------------------------------------------------------------------------
Init ==
  /\ wall = 0 /\ offset = 0 /\ resets = 0
  /\ queue = <<>>
  /\ entry = [d \in Deliveries |-> NoEntry]
  /\ pc = "idle" /\ seen = 0 /\ current = NoDelivery
  /\ batch = [d \in {} |-> NoEntry]
  /\ log = [d \in Deliveries |-> <<>>]
  /\ posts = [sent |-> {}, recorded |-> {}, announced |-> {}, faulted |-> {}]
  /\ captures = [e \in Endpoints |-> <<>>]
  /\ history = captures
  /\ received = {}
  /\ clears = 0

Send ==
  \/ Wake \/ Collect \/ Attempt
  \/ AnswerElsewhere \/ AnswerInbox \/ TimeOut
  \/ Settle \/ Replace

Requests == Callers \cup posts.sent \cup posts.recorded

Next ==
  \/ Send
  \/ \E d \in Deliveries : Enqueue(d)
  \/ \E c \in Callers : Call(c)
  \/ \E r \in Requests : Record(r) \/ Announce(r) \/ AnswerInPlace(r)
  \/ \E e \in Endpoints : Clear(e)
  \/ Elapse
  \/ \E ms \in Advances : Advance(ms)
  \/ ResetClock

Spec == Init /\ [][Next]_vars

\* run_forever has no exit and every request ends by its timeout; time passes.
FairSpec == Spec /\ WF_vars(Send) /\ WF_vars(Elapse)

-----------------------------------------------------------------------------
(* Properties.                                                             *)

Statuses == {"none", "ok", "failed"}
Stages == {"idle", "collect", "attempt", "wait", "settle", "replace"}
Attempting == pc \in {"wait", "settle", "replace"}
Enqueued == {d \in Deliveries : entry[d] # NoEntry}
Begun(d) == IF d \in DOMAIN batch THEN batch[d].attempt ELSE entry[d].attempt
Entries(d) == [enqueuedAt : 0 .. Horizon, attempt : 0 .. MaxAttempts(d), dueAt : Nat,
               done : BOOLEAN, status : Statuses]

\* Every variable keeps its type: among others, no delivery is attempted more
\* often than once and once again per backoff.
TypeOK ==
  /\ wall \in Nat /\ offset \in Nat /\ now \in 0 .. Horizon
  /\ resets \in 0 .. MaxAdmin /\ clears \in 0 .. MaxAdmin
  /\ queue \in Seq(Deliveries)
  /\ DOMAIN entry = Deliveries
  /\ \A d \in Enqueued : entry[d] \in Entries(d)
  /\ pc \in Stages
  /\ seen \in 0 .. Horizon
  /\ DOMAIN batch \subseteq Enqueued
  /\ batch = [d \in DOMAIN batch |-> batch[d]]
  /\ \A d \in DOMAIN batch : batch[d] \in Entries(d)
  /\ current \in Deliveries \cup {NoDelivery}
  /\ Attempting => current \in DOMAIN batch
  /\ log \in [Deliveries -> Seq([attempt : Nat, status : Statuses, last : BOOLEAN])]
  /\ DOMAIN captures = Endpoints
  /\ DOMAIN history = Endpoints

Busy(d) == current = d /\ Attempting

\* The attempts of d the queue knows the outcome of: all that were announced, or all
\* but the one the loop is about to write.
Ended(d) == IF Busy(d) /\ pc = "replace" THEN Len(log[d]) - 1 ELSE Len(log[d])

\* A copy of d after so many attempts.
OnLadder(d, job, ended) ==
  /\ job.enqueuedAt = entry[d].enqueuedAt
  /\ job.attempt = ended
  /\ job.done <=> ended > 0 /\ (job.status = "ok" \/ ended = MaxAttempts(d))
  /\ ~job.done => job.dueAt = entry[d].enqueuedAt + Offset(d, ended + 1)

\* What the queue, the loop and the bus hold of an enqueued delivery.
OnSchedule(d) ==
  /\ OnLadder(d, entry[d], Ended(d))
  /\ Busy(d) /\ pc = "replace" => OnLadder(d, batch[d], Len(log[d]))
  /\ Busy(d) /\ pc # "replace" => batch[d].attempt = Len(log[d]) + 1
  /\ d \in DOMAIN batch /\ ~Busy(d) => batch[d] = entry[d]
  /\ Busy(d) => seen >= entry[d].enqueuedAt + Offset(d, batch[d].attempt)
  /\ \A i \in 1 .. Len(log[d]) :
       /\ log[d][i].attempt = i
       /\ log[d][i].last <=> log[d][i].status = "ok" \/ i = MaxAttempts(d)
       /\ log[d][i].last => i = Len(log[d])

\* "Retry offsets are measured from the enqueue": whoever holds a delivery, queue or
\* loop, its next attempt is due the whole ladder of backoffs after the enqueue,
\* whatever the clock did since; it is done exactly when an attempt succeeded or the
\* ladder is used up.  "Every attempt is an event": the events number the attempts
\* 1, 2, 3, ..., only the last says there is no next retry, and the queue is behind
\* the bus by at most the attempt the loop is about to write.  No attempt is made before
\* the backoffs so far have passed, in the time its tick read, though the clock went back.
\* (TypeOK with it.)
LadderHolds ==
  /\ TypeOK
  /\ \A d \in Enqueued : OnSchedule(d)

\* A delivery the sender calls successful was handled by its receiver in that very
\* attempt, or answered for by the fault layer in front of our own inbox, and then no
\* handler ever sees that post, though it outlived its timeout; what reached a receiver
\* is an attempt the sender made, and none that fail_first failed "regardless of the
\* receiver".
SuccessIsExplained ==
  /\ \A d \in Deliveries : \A i \in 1 .. Len(log[d]) :
       log[d][i].status = "ok" =>
         <<d, i>> \in received \/ (Target[d] # Elsewhere /\ <<d, i>> \in posts.faulted)
  /\ received \cap posts.faulted = {}
  /\ \A r \in received : r[1] \in Enqueued /\ r[2] > FailFirst[r[1]] /\ r[2] <= Begun(r[1])

\* The inbox at its limit: whatever order handlers, the sender's posts and clears come
\* in, an endpoint holds the newest captures since it was last cleared, and as many of
\* them as fit; a clear of one endpoint leaves the others alone.
InboxKeepsTheNewest ==
  \A e \in Endpoints :
    LET kept == Len(captures[e])
        all == Len(history[e])
    IN  /\ kept = IF all <= Capacity THEN all ELSE Capacity
        /\ \A i \in 1 .. kept : captures[e][i] = history[e][all - kept + i]

\* Every delivery ends, or its next attempt is due past the time followed; a receiver
\* that never answers holds the others up by no more than its timeouts.
DeliveriesEnd ==
  \A d \in Deliveries :
    d \in Enqueued ~> d \in Enqueued /\ (entry[d].done \/ entry[d].dueAt > Horizon)
=============================================================================
