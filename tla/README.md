# servr: a verification project

TLA+ models of `servr`, a fault-injecting test server (crates `core`, `queue`,
`admin`, `http`, `hooks`, `ws`, `stream`, `mail`, `telemetry`, and the binary in
`server`), the TLC configurations that check them, and TLAPS proofs about them.
Paths below are relative to the repository's `crates/` unless they say `server/`.

## The system

One process serves a *data plane* (items, webhooks, sockets, streams) whose
behaviour a test configures through a *control plane* (`/_admin/*`). Everything
that is scheduled is scheduled in **virtual time**, which the control plane can
advance, freeze, resume and reset. Everything that happens is published on an
**event bus** that a test follows.

| Component | Code | State | Operations | Talks to |
|---|---|---|---|---|
| Virtual clock | `core/src/clock.rs` | three atomics: offset, frozen flag, frozen elapsed | `now`, `advance`, `freeze`, `resume`, `reset`, `restore` | read by every other component |
| Event bus | `core/src/bus.rs`, `event.rs` | id counter, bounded broadcast channel, dropped counter | `emit`, `subscribe`, `dropped` | called by everyone; read by `/_admin/events` |
| Control-plane state | `core/src/state.rs`, `config.rs` | base scenario, overlay, resolved, write mutex | `mutate`, `reset`, `resolved` | written by admin handlers, read on every request and export |
| Snapshot | `core/src/snapshot.rs` | one row in a SQLite file | `capture`, `write`, `read` | control-plane state and clock; boot |
| Job queue | `queue/src/scheduler.rs`, `store.rs`, `job.rs` | the stored jobs, each loop's claimed copies | `put`, `claim_due`, `tick`, `execute` | clock, bus, admin |
| Redis store | `queue/src/redis_store.rs` | a hash of jobs and a sorted set of due ids | `put`, `claim_due` (a script) | shared between processes and restarts |
| Fault layer | `core/src/fault.rs`, `http/src/fault.rs` | none of its own | `Effects::resolve`, `layer` | reads resolved faults, emits on the bus |
| Data plane | `http/src/data.rs`, `items.rs` | pools per run, schemas in Postgres | `create_run`, `drop_run`, `pool` | admin `/runs`, item routes |
| Webhooks | `hooks/src/outbound.rs`, `inbound.rs`, `sign.rs` | the sender's queue, the inbox | `enqueue`, `tick`, `attempt`; `record`, `clear` | clock, bus, receivers |
| WebSocket hub | `ws/src/hub.rs`, `conn.rs` | topics and their members, a queue per connection | `join`, `leave`, `publish`, `kill`; `pump` | bus, clients |
| Streams | `stream/src/*.rs` | a position per stream | paced chunks, injected failure | clock, bus, client |
| Mail | `mail/src/*.rs` | in an external sink | `send`, `for_run`, `purge` | the sink |
| Telemetry | `telemetry/src/*.rs` | recorder and exporter | `export`, `corrupt_metrics` | reads resolved telemetry faults |

What is hard about it:

* **Lock-free sharing.** The clock is three atomics with no lock around a
  `freeze` or a `resume`; the bus takes an id and sends in two steps; readers of
  the control plane take no lock and see each store as it happens.
* **Several loops over one store.** The queue's contract is that any number of
  loops may poll one store (trap T3).
* **Virtual time that jumps.** A job is claimed against one reading of the clock
  and its retry is counted from another; a reset moves time backwards.
* **Loss that must be announced.** A slow subscriber loses events and has to be
  told exactly how many (trap T4).
* **Crashes.** The control plane comes back from a snapshot, or not at all; a
  claimed job's process may die with it.
* **Clients that go away.** A request's future is dropped at any await, with the
  lock, the connection or the pool it holds (items, streams).
* **Fan-out outside the lock.** The hub finds a topic's members under its lock and
  reaches them after releasing it, while others kill and leave (trap T6).
* **An end that must come.** A stopping process drains its requests and flushes its
  last spans before it exits (trap T11); closing handshakes and streams end.

`PROJECT.json` lists these as hazards, each at the line where it bites, with the
properties that would catch it going wrong, or why none does.

## Modules

| Module | Models | Configurations |
|---|---|---|
| `JobLifecycle` | what the queue promises, with no store, clock or loop | as a property of `Scheduler` |
| `Scheduler`, `MCScheduler`, `SchedulerProofs` | the poll loops, the in-process store, the job arithmetic, the enqueue, advance and reset handlers | `Scheduler.cfg` |
| `Clock`, `MCClock`, `ClockProofs` | the clock, one atomic access a step | `Clock.cfg`, `ClockFreezeTwice.cfg` |
| `EventBus`, `MCEventBus`, `CoreProofs` | `emit` as its two steps, the subscribers' streams, lag and Gap events | `Core.cfg`, `EventBusOrder.cfg` |
| `ControlPlane`, `MCControlPlane`, `CoreProofs` | the admin requests that write the control plane, the write lock, snapshots, crash and boot | `Core.cfg`, `ControlPlaneLostFault.cfg` |
| `MCCore` | the event bus and the control plane in one run | `Core.cfg` |
| `RedisQueue`, `MCRedisQueue`, `RedisQueueProofs` | the claim script and `put`'s transaction, and processes that crash, restart and lose replies and writes | `RedisQueue.cfg` |
| `Webhooks`, `MCWebhooks`, `WebhooksProofs` | the sender with its retry ladder, the bounded inbox | `Webhooks.cfg` |
| `WsHub`, `MCWsHub`, `WsHubProofs` | topics and members, publishes and kills member by member, the connection's loop and closing handshake | `WsHub.cfg` |
| `FaultLayer` | the rules, and the layer around every handler | through `HttpPlane` |
| `DataPlane` | runs, pools, schemas and the item handlers | through `HttpPlane` |
| `Streams` | chat completions and scripted streams | through `HttpPlane` |
| `HttpPlane`, `MCHttpPlane`, `HttpPlaneProofs` | the three composed: one request, its layer, its handler, its client | `HttpPlane.cfg`, `HttpPlaneTokens.cfg` |
| `Mail` | send, filtered listing, purge | through `Process` |
| `Telemetry` | spans from their end to the collector, scrapes | through `Process` |
| `Process`, `MCProcess`, `ProcessProofs` | boot, serving, shutdown, kill and restart around the two | `Process.cfg` |

An operator named like another with a word added or changed (`CanRetryAtLimit` before
`CanRetry`, `ReceiveHead` before `Receive`) is a mistaken variant of it. No
specification uses it; it is there to show that a property of the run would
notice the mistake. `PROJECT.json` pairs each with the property it breaks.

### Scheduler

A poll loop is a sequential task, so its program counter has one stage for each
place where another task can run: reading the clock (`ReadClock`), the claim
under the store's mutex (`Claim`), the Running event (`Start`), the handler's
answer and the decision to retry (`Handle`), the write back (`Persist`) and the
final event (`Announce`). `held[p]` are the copies `claim_due` returned to loop
p and `current[p]` the one it is executing. Jobs are taken in any order: the
claim iterates over a hash map. A handler is the set of answers it may give. The
clock is wall time plus offset, its operations atomic here; freezing is `Elapse`
not happening.

* `ExclusiveRun`: a record is running exactly while one loop has its outcome to
  write, and that loop's copy is the record.
* `StagesAgree`: retries are scheduled only with attempts left, jobs dead-lettered
  only with none; each loop's copies say what its stage says.
* `BusMatchesStore`: the attempts whose end is on the bus are those the store says
  are over, less those a loop has written and not yet announced; no end is announced
  twice, none before its attempt was announced as running, and the end of the stored
  attempt names the stored state.
* `RetriesWaitTheirBackoff`: a retry is claimed no earlier than its backoff after
  the failure, whatever the clock did.
* `ImplementsLifecycle`: the refinement of `JobLifecycle`, with phase and attempts
  read off the store.
* `JobsEnd`: every enqueued job ends, or is due past the horizon.

Bounds: two loops, two jobs (one that may fail and has two attempts with a
backoff, one that always fails and is allowed no retry and no backoff), delays 0
and 1, virtual time up to 2, one reset. Two loops are what exclusivity is about;
two jobs make batches of zero, one and two; a reset after an advance makes time
go backwards. `JobsEnd` needs the loops to be scheduled (`run_forever` has no exit)
and time to pass (the clock is not left frozen for ever).

### Clock

Each task's call is a sequence of single loads, stores, swaps and adds; `reg` is
the local it computes in. `overlap` and `entry` are history variables: which
control calls overlapped the call, and what the clock showed when it began
(`entry[t].lows` are the times the clock showed when the call, and each freeze then
under way, began: the earliest is the least a `now()` may return).

* `NowIsNeverStale`: a `now()` no resume or reset overlaps returns a time between
  what the clock showed at its call (or at the call of a freeze then under way)
  and what a running clock would show at its end. This is the promise of the
  comment in `freeze`, and it breaks if the flag is flipped first.
* `ControlKeepsTime`: a freeze of a running clock, or a resume, that no other
  control call overlaps keeps virtual time, up to the real time it took and the
  advances made meanwhile.
* `FrozenTimeStands` is what the doc of `freeze` says, and **does not hold**:
  freezing a frozen clock captures again, and the frozen time jumps forward by
  the real time since the first freeze (`ClockFreezeTwice.cfg`).

What the two passing properties exclude is real too: between `resume`'s swap and
its subtraction, `now()` shows the frozen span as passed, and a `reset` that
overlaps a `freeze` can leave the clock frozen at elapsed 0. No doc says
otherwise; both are listed as hazards.

Bounds: two tasks, one advance of 1, real time up to 2. A call meets one other
call at every point and any number of later ones; a frozen span of 1 or 2 is
enough to be lost or counted twice.

### Event bus

`sent` is the whole history of the channel, of which a subscriber can read the
last `Capacity` events; `next[s]` is the position its receiver stands at. A
receiver further behind gets `Lagged`, which is taken apart into the jump
(`Lag`), the counter's update (`CountDropped`) and the Gap event (`YieldGap`).
`Send` drops the event when nobody is subscribed, as the channel does; `unheard`
remembers it. `got[s]` records what the stream yielded and the position it
reached by it.

* `IdsAreDense`: every id below the counter belongs to exactly one event.
* `LossIsAccounted`: a stream accounts for every event since it subscribed, in
  channel order, by the event itself or by a Gap of exactly the size jumped.
* `DroppedIsWhatGapsSay`: the counter is the number of events that all Gaps, the one
  under way included, say were lost.
* `EmitNeverStalls`: an emitter that took an id sends, whatever subscribers do.
* `SubscribersCatchUp`: a stream whose client keeps reading accounts for every
  event, unless it disconnects.
* `StreamIdsIncrease` is the doc of the event's id, and **does not hold**: ids
  are taken and events sent in two steps, so two emitters can swap, and a stream
  that lost nothing yields id 1 before id 0 (`EventBusOrder.cfg`).

Bounds: two emitters, two streams of which one may stop reading, a channel of
two, four events. Two emitters swap; four events over a channel of two make a
stream lag, also by more than one, and lag again while its Gap is being made.
The process's capacity of 1024 differs only in how long that takes. The four
events run out and the streams then wait, so these runs do not check deadlock.

The bus and the control plane are the two halves of the core crate that other parts
call into, and share no state. `MCCore` checks both in one run (`Core.cfg`): whichever
half takes the first step goes on alone, so that the run covers every behaviour of each
and not the product of the two.

### Control plane

A request runs the steps of its handler: `Begin` (where `add_fault` reads the
effective list, before the lock), `Lock`, the two stores of `mutate` or `reset`
(`StoreResolved`, `StoreOverlay`), and for `reset` the clock. A snapshot reads the
clock, then the overlay, and replaces the file's row. `Restart` is a crash at any
point, with the requests in flight, and a boot from the scenario or from the
file. `wanted` is history: each field as it was last asked for.

* `ResolvedFollowsOverlay`: while nobody writes, readers see the overlay resolved.
* `NoFieldIsClobbered`: while nobody writes, each field is as the last request
  that wrote it asked; a write to one field never undoes another's.
* `ResetReachesTheScenario`: after a reset readers see the scenario file's
  configuration, in a restored process too (invariant 2 of the code's docs).
* `EveryRequestEnds`: every request is answered or dies with its process.
* `NoFaultIsLost` is what the lock's comment and a test say of concurrent
  additions, and **does not hold**: the handler edits a list it read before it
  took the lock (`ControlPlaneLostFault.cfg`). The test calls `mutate` with a
  closure that reads inside the lock, which the handler does not do.

Bounds: three requests of any of the seven kinds over a scenario that seeds one
fault, one crash. Three requests make a writer wait behind one and be followed
by another, and a snapshot race two writers. The requests are a fixed number and
end, so these runs do not check deadlock. Fairness: a handler that has begun is
run on by the executor, and the mutex is held for finitely many steps.

### Redis store

`Script` and `Put` are one step each: Redis runs a script and a MULTI without
interruption. `hash` and `due` are the two keys, `held[p]` the copies a process
claimed and has not written back. A claim may lose its reply (`ClaimUnanswered`), or
fail as a whole because one record does not decode (`Undecodable`): an empty backoff
list goes through the script's JSON and comes back as an object. A write may be lost
(`PersistFails`), a process may crash at any point and restart. Each process has a
clock of its own, so any time up to the horizon may be read; scores are whole
milliseconds, so a job may be claimed early within its millisecond. The events of the
loop are `Scheduler`'s subject and are left out here.

* `KeysAgree`: the due set holds exactly the scheduled jobs, at their due times,
  whatever was lost; only a job without backoff is ever unreadable.
* `RunningIsHeld`: trap T3 between processes. No job is held by two, what is held is
  the stored attempt, and a running job nobody holds was hit by a failure. The last
  part says exactly how jobs get stuck: nothing in the code takes them up again.
* `ImplementsLifecycle`: the same refinement as the in-process store's.

Bounds: two processes, a job with two attempts and one without backoff, three
failures, a resolution of two instants to the millisecond, times up to 3 (7,628
states). Two processes and one job are enough to claim twice; the third failure
allows a crash of both and a lost write of what one claimed after.

### Webhooks

The sender is one task; `batch` are the copies its tick works on, `entry` the queue's.
The tick reads the clock (`Wake`), filters (`Collect`), and for each copy attempts,
waits for the answer, announces (`Settle`) and writes back (`Replace`). A post on its
way is in `posts`, and outlives the timeout of the sender that gave up on it. The inbox
is mounted behind the fault layer, which may answer in its place (`AnswerInPlace`): with
the status of its rule, a success if that is one, or with 200 and no body for a dropped
connection, which the sender reads as a success or as a failure. `inbox.clear` of every
endpoint is called by tests only and has no action.

* `LadderHolds`: retries are due their whole ladder after the enqueue whatever the
  clock did, attempts are numbered without gaps, the last event alone ends a delivery,
  and queue, copies and bus differ by at most the attempt under way.
* `SuccessIsExplained`: a delivery called successful was handled by its receiver in
  that attempt, or answered for by the fault layer in front of our own inbox, and then no
  handler ever sees that post, even one that outlived its timeout; nothing reached a
  receiver that `fail_first` failed. So "ok" alone does not say that somebody has the
  webhook: a fault rule on `/hooks/in/*` with a status of 200 makes a success of nothing.
* `InboxKeepsTheNewest`: at its limit, an endpoint holds the newest captures since its
  last clear.
* `DeliveriesEnd`: every delivery ends or is due past the time followed. Fairness: the
  loop runs on, each request ends by its timeout, time passes.

Bounds: one delivery to the process's own inbox with one backoff of 0, one elsewhere on
a default ladder of one and failed once by `fail_first`, a caller, one capture per
endpoint, time up to 1, one reset or clear (294,312 states). Two deliveries share a tick
and wait for each other; the capacity of one is reached by the second post.

### WebSocket hub

The hub's lock is held for one read or write of `topics`. A publish finds its targets
(`fanout`) and then sends to each and announces each frame in steps of their own; a kill
removes the members first and asks each to close after. `stage[c]` is where the
connection's task stands; the loop is biased, so a queued frame goes before an inbound
one. A send to a task that has returned fails. Binary frames only announce themselves and
are left out.

* `PresenceIsExact`: a connection is listed, under its own topic, from its join to its
  departure, unless killed.
* `CloseComesLast`: trap T6. Only a kill asks for a Close, once; a killed member is not
  left without one, and it is the last frame its client is sent. A publish that found
  the member before the kill may queue a text behind the Close: it is announced on the
  bus and never written.
* `FramesMatchEvents`: clients are sent what their queue accepted, in order, none twice,
  never their own; the bus has an Out frame for exactly the accepted ones.
* `KillsComplete`: every killed member whose client reads and stays is sent the Close,
  and the handshake ends though the client never echoes. Fairness: tasks and calls that
  have begun are run on; only clients in `Readers` read on.

Bounds: two connections on one topic, one polite and able to leave, one that talks and
never echoes; one admin publish, one kill, a socket that holds one unread frame (99,391
states). Two members are what one departure could wrongly unlist; the window of one
blocks a writer.

### HTTP surface

`FaultLayer` has a request's path from arrival (`Arrive`, with the rules read once and
their coins tossed) through the delay, slept in real time, to the short circuit or the
handler, and the event and the answer. `DataPlane` has the item handlers and the run
routes, one step between two awaits, over Postgres' schemas and the map of pools;
`Streams` the paced bodies, under a clock that may be advanced, frozen, resumed and reset
while one is written, each of these one step here (`ClockStep`; their interleavings are
`Clock`'s). `HttpPlane` composes them, with clients that leave at any moment: the future is
dropped, with its lock, connection or pool; or that stay and stop reading. Real time is
followed only while somebody waits for it.

* `OnePoolPerRun`: racing requests end up with one pool per run, and the map never holds
  a closed one.
* `ServerErrorsAreExplained`: a 500 of a data handler has a cause in its own run or in
  Postgres (a 500 that a fault rule put in its place is told apart by its body).
* `StreamsSayTheReply`, in two halves. `StreamsEndWhereTold`: chunks on the bus are those
  of the body, in order, before the request's own event or after it as the layer had the
  body; an injected failure breaks it exactly where told, and without one it ends with
  its last chunk. And a whole chat stream's deltas join to the reply if and only if that
  text is tidy.
* `DeltasReproduceTheText` is what the doc of `tokenize` says, that concatenating every
  delta reproduces the input exactly, and **does not hold**: the code splits at white space
  and puts one space back, so a text with two spaces, or one at an end, comes back changed
  (`HttpPlaneTokens.cfg`).
* `AnswersAreReported`: what fired is what the rules say, by a plain definition of glob
  matching (`FiredAsListed`); status, body and latency follow from it (`ReportedAsFired`).
  Its first part, `EventsTellTheAnswer`: each answered request behind the layer has one
  event, with the answer's status and the faults put to it; one whose client left before
  has none.
* `RequestsEnd`: every request ends, under the fairness of polled tasks, a Postgres that
  answers and real time that passes, but for a stream its client does not read (`Unread`:
  hyper polls the body as the socket takes it) and a stream whose own next chunk a frozen
  clock holds up, again and again (`Held`: `wait_until` then polls for ever). Clients,
  coins and the admin are free, to leave the clock frozen too: neither holds up anybody
  else's request.

Bounds: thirteen scenes of two or three requests, each chosen for a race or an order: two
pools for one run while it is dropped, a run created, used and dropped, an item
created, read and deleted, layered rules that overlap, streams cut, failed, paced and not
read, under a clock that is set meanwhile, and a rule list replaced meanwhile (65,123
states). What is left out: the race of two
`CREATE SCHEMA IF NOT EXISTS` inside Postgres, the pool's limit of five connections, the
400 of a chat body that does not parse, and `echo`, which does what `ping` does. Two
things the model shows and no property forbids: a pool made between the two steps of a
drop stays, under a run that is gone, and is listed; and a run is listed before it is
migrated.

### Process, mail and telemetry

`Process` boots in the code's order, with each backend there or missing, serves, stops on
a signal (it waits for the open responses, then flushes), may be killed, and restarts
with a fresh run or from a snapshot that a client kept. `Mail` fetches its listing header
by header while others send and purge; `Telemetry` follows each span from its end through
the batch queue and the lying exporter to the collector. Batch processor, collector and
mail server are external.

* `MailTellsTheTruth`: a filtered listing is exactly the messages sent as that run among
  those it read (trap T7); announced mail is there; a relay sends only to listed
  recipients, by a definition of "listed" that does not scan as the code does.
* `LiesAreConfigured`: what the collector and a scrape show is honest unless a fault
  current at some moment between the span's end and its arrival says otherwise.
* `StopsAndFlushes`: trap T11. A process told to stop ends, and no ended span stays in it,
  unless somebody holds a response open for ever (`HoldsOpen`): a subscriber of
  `/_admin/events`, a clock left frozen in front of a paced stream's next chunk (the
  handler's, or the fault layer's, which reads the body first to truncate it), or a client
  that does not read its stream. Nobody can undo the second any more: a stopping process
  takes no request that would set the clock.

The doc of `shutdown_signal` (main.rs:400) wants the flush from the signal itself; the
code flushes once every response is over (main.rs:313-323), so an open stream keeps it
from that. `StopsAndFlushes` is what the code does.

`frozen` is what the virtual clock is to a stream: standing still, short of the chunks
still to come, or not. It comes back with a snapshot, as the run and the faults do. A
request behind the fault layer is in `work` until its handler, and the delay of a rule, are
through; its client may leave meanwhile, which ends its span uncounted.

Fairness: the process runs; the mail server answers or is gone (`MailProgress`: the mail
client has no timeout, so a server that hangs hangs the request); what is behind the fault
layer ends unless it waits for the clock (`WorkEnds`; delays are slept in real time,
Postgres answers); a stream that is read is written as the clock allows (`StreamEnds`); an
export ends. Clients, signals, kills and restarts are free.

What these leave out is real: a second Ctrl-C is swallowed while a response holds the
shutdown up; a lost SMTP reply delivers without an event; one purged candidate fails a
listing with 502; the run filter sees only the newest messages of all runs; without
`--restore` a restart has another run and sees neither the mail nor the redis jobs of the
former.

Bounds: twenty-one scenes of up to four requests and an environment each, two boots, a
batch queue of two (222,937 states).

## Proofs

The theorems hold for every value of the constants that meets the module's
named assumption (`SchedulerAssumption`, `BusAssumption`, `ControlAssumption`,
`RedisAssumption`, `WsHubAssumption`, `DataAssumption`, `LayerAssumption`,
`StreamsAssumption`, `ClockAssumption`, `WebhooksAssumption`, `MailAssumption`,
`TelemetryAssumption`, `ProcessAssumption`; TLC evaluates each on its run's constants).
What they ask is the range of each parameter, the type of what a scene's requests ask,
and that the values standing for "nothing" (`Idle`, `NoJob`, `NoEntry`, `None`, ...) are
none of the things they stand in for. A fault list is any sequence of rules of the code's
type, a path any sequence of characters, and a chat message any finite text in which no
two words touch: a word is what stands between white space.

* **SchedulerProofs.** The invariant is `TypeOK /\ ExclusiveRun /\ StagesAgree`.
  `ExclusiveRun` alone is not inductive: that a loop writes an outcome back to a
  record nobody else owns needs the copies' states to follow the stages, and
  the bound on attempts needs that a scheduled record has attempts left. From it
  follow the three parts, and `SchedulerImplementsLifecycle`: every step maps to
  one of `JobLifecycle` (a claim of several records to `Begun` of their set, a
  write-back to `Ended`, an enqueue to `Enqueued`) or to a stutter. Two further
  invariants rest on it. `WaitInv` says of each scheduled record, stored or in a loop's
  hands, that its due time is the failure's time plus the backoff of that attempt; then
  no claim can be early (`SchedulerRetriesWaitTheirBackoff`), whatever the clock did
  between. `BusInv` adds to `BusMatchesStore` that the attempt a loop executes was
  announced as running (`RunsAnnounced`), and, since between a loop's write and its event
  another loop may claim, run and write the retry, that loops about to announce the same
  job ended different attempts (`OneWriter`) and the one that ended the stored attempt
  wrote the stored state (`WrittenIsStored`).
* **CoreProofs**, of the control plane. The invariant adds to the checked properties what holds
  inside the critical section: before the overlay is stored the holder's draft
  is its edit of the current overlay, between the two stores what is resolved is
  the draft resolved, and the file holds the scenario as its base.
* **CoreProofs**, of the event bus. The invariant is `BusTypeOK /\ IdsAreDense /\ LossIsAccounted`
  and that a stream not yet subscribed has yielded nothing. `YieldAccount` is the
  lemma that appending one right entry keeps a stream's account; every stream
  step is an instance of it or changes none of what it reads. `DroppedInv` keeps
  the losses as a finite set, an element for each event a Gap of a stream says was lost:
  `CountDropped` adds a set as large as its jump, which no loss said before is in, and
  the Gap's event turns what was about to be said into what was said.
* **ClockProofs.** Of any number of calls. The invariant says, per call and per access
  it stands at, what its register is worth while no other control call overlaps it:
  the flag and the frozen elapsed it read are still the clock's (`FreezeInStep`,
  `ResumeInStep`), two calls that each believe themselves alone began together with the
  same clock (`CleanTogether`, `AloneTogether`), and the offset, counted with the call's
  register, never fell below one of `lows` (`NothingEarlier`) nor ran ahead of a running
  clock (`NothingLater`). `NowIsNeverStale` alone is not inductive since a freeze under
  way has already taken the elapsed a later `now()` will be answered with. The two
  action properties follow from it step by step.
* **RedisQueueProofs.** `RunningIsHeld` is not inductive: that writing a copy back
  keeps the keys in agreement needs that a copy about to be written has ended, is
  readable, and is rescheduled only with attempts left (`CopiesAgree`). The invariant is
  taken apart into what it says of the keys (`KeysInv`, kept by `ScriptKeys` and
  `PutKeys`) and of the processes. `RedisImplementsLifecycle` maps the script to `Begun`
  of the jobs it took, whether or not a process ever learns of it.
* **WsHubProofs.** Presence needs that only connections that had joined are killed. From
  it, `CloseInv` says per connection what the frames written and those queued hold;
  that a kill finds no member twice is where it rests on presence. `FramesInv` takes
  `FramesMatchEvents` apart: what is written and queued, Close left out, is what was
  accepted (`WireAccepted`, `FrontQueued`), no queue accepted its own text (`OwnTexts`),
  a fan-out still to be run holds no member it reached (`FanoutOnce`), and the bus is
  behind the queues by what is owed (`EventsAgree`).
* **WebhooksProofs.** For any deliveries and backoffs. `OnSchedule` says what queue and
  bus hold of a delivery; the invariant adds what the copy in the loop's hands agrees
  with at each stage (`CopyAgrees`: the queue's status is the last the bus was told, and
  an entry under attempt is not done, so no earlier event said it was the last), that
  every post on its way or handled is an attempt begun and not failed first
  (`PostsMade`), that what the inbox recorded was handled (`PostsHandled`), and that a post
  the fault layer answered for is on no other way and reaches no handler (`PostsApart`):
  an "ok" is read from the one or from the other (`Explained`). Steps beside the sender are instances of
  `BesideInv`, steps of the loop leave all deliveries but one alone (`CopiesButOne`).
  `InboxKeepsTheNewest` is kept by each append and drain (`NewestAppended`). The sum of
  a ladder's first backoffs is written as the size of a set, so that its sign is a fact
  of finite sets; its value is defined, not computed by induction.
* **HttpPlaneProofs.** First the two properties of the data plane, whatever the requests ask
  for and whatever the fault list says. `OnePoolPerRun` needs that an open pool a handler
  has is its run's one in the map (`OneOpen`), which needs that a pool's name is nowhere
  before its request inserts it, and then only under that request's run (`PoolsNamed`).
  The excuses follow: a handler whose pool is closed was at work when a drop of its run
  closed it. The data handlers' steps are instances of two lemmas, `EndKeeps` and
  `GoKeeps`, but for the three that move pools; the write lock that a drop holds while
  its pool closes is not used. `TellInv` is a second invariant, of what a request has put
  on the bus, yielded and been answered: before an answer the log is the chunks sent, and
  after it the same chunks with the one answer in front (a body still to be streamed when
  the layer let it through) or behind (a body the layer or the handler had whole), which
  is `LogRight`; the stage says which (`StageRight`), and how far a stream may have got
  (`StreamRight`). The layer, every data handler and a cut stream answer by the one
  operator `Respond`, so `RespondTells` covers them. A log is typed by its own elements
  (`IsSeq`), so nothing is asked of what the chunks hold.

  `RuleInv` is a third one, for `AnswersAreReported`: the rules in force are typed
  (`RulesTyped`), those that fired are those the list read at arrival has for the path
  (`Routed`), the effects are what these come to (`Says`), the request stands where they
  let it, after the delay they ask for (`Suffered`), and its answer is the one they leave
  (`Answered`). A list replaced meanwhile changes none of it: the rules were read once. Two
  loops are under it. `GlobMatches`: `glob_match`'s scan, which remembers one star to come
  back to, accepts exactly the paths that a star's plain meaning allows; each turn lowers a
  bounded rank (`RankFalls`), and giving an earlier star more reaches nothing that the last
  one, given more, does not (`MoreIsFurther`), so one star to come back to is enough. `ResolveSays`: after the last turn of the loop in
  `Effects::resolve`, the delay is the sum over the fired delays, the status the last
  valid one, the rest whether some fired rule asked for it.
  The fourth, `SayInv`, is for `StreamsSayTheReply`: what a chat stream yielded is the
  front of its reply's pieces (`Said`). `PiecesJoin` adds what those pieces come to:
  joined, they are the words with one space between (`TokensJoin`), which is the text
  itself exactly if that is tidy (`JoinedIfTidy`). The last user message exists whenever
  any does (`ReplyIsText`).
* **ProcessProofs.** For any scenes and any number of boots; two invariants, each of the
  steps it is about. `MailInv` is needed because what a request is told was decided steps
  before: that a send past the allowlist writes to a named recipient (`StageFits`), that
  what boot wired follows the environment (`Booted`), and that a message carries the run
  its request acts as, which no later request changes (`Posted`, `Boxes`). A filtered
  listing is then exact at every header it fetches: what it kept is a pick (`Picks`) of
  the candidates seen so far, namely those sent as its run (`Ours`), and `PicksNext`
  carries that one candidate further. The allowlist decides by the last "@";
  `PermitsNamed` shows that this is the list naming the recipient, for addresses of any
  length. `SpanInv` says of each span which faults may have touched it: a batch under way
  has the fault of a moment since its spans ended (`Fated`), and a request that has not
  reached its span's end has no fate yet (`Fresh`). An old fault stays visible because
  the faults set so far are only ever appended to (`Kept`).

The library's induction theorems take an operator as a parameter and cannot be used here,
so induction over data goes by sets: `LeastNatural` takes the least element of a set of
naturals from the library's facts about well-founded relations, which are sets, and the
rest follow from a least counterexample. `Climb` is a loop over 0 .. N (the set of the
turns after which something holds), `Loop` says that a function defined by such a loop is
what its definition says, and `RankInduction` and `RecursiveFunction` do both for the
functions of `FaultLayer` whose argument moves a bounded rank.

Only model-checked: liveness (`JobsEnd`, `EmitNeverStalls`, `SubscribersCatchUp`,
`EveryRequestEnds`, `DeliveriesEnd`, `KillsComplete`, `RequestsEnd`, `StopsAndFlushes`),
which the prover cannot do under fairness. Every invariant and every action property of a
passing run is a theorem. The four properties expected to be violated are refuted, not
proved.

## Not modelled

Signatures are cryptography, and Postgres, Mailpit, the OpenTelemetry batch processor,
the collector and the broadcast channel are external: they appear by what the code
sees of them. Of telemetry, the propagation of contexts, span links and histograms are
left out: they only label what is recorded. Scenario parsing, router assembly, logging
and addresses are pure I/O or wiring. Routes that only read a component are no actions.
Within the modelled parts: payloads and stamps of events, the snapshot's encoding and a
failed write of it, and numbers at the edge of their types. Those are the integer widths of
the clock; the casts of a backoff or of a ladder's sum from u64 to i64
(`queue/src/scheduler.rs`, line 152, `hooks/src/outbound.rs`, line 92), where a huge one
turns negative and is due at once; and backoffs of 10^14 ms and more, which the claim
script's JSON writes with an exponent and which then do not decode
(`queue/src/redis_store.rs`, lines 51 and 140).

Of sockets, a read error on a connection whose client is still there, which ends it too
(`ws/src/conn.rs`, lines 164 to 167); and the TCP reset that `finish_close` waits to avoid
(lines 82 to 87): in the model what was written stays readable after the task returned, so
`KillsComplete` shows that the Close is sent and the wait ends, not that waiting saves it.
Of mail addresses, display names and quoted local parts, which the parser takes too
(`mail/src/send.rs`, lines 139 to 149). `Process` has the fault layer's delay and its
buffering, not its rules, which are `FaultLayer`'s.

## Plan

1. Integer widths: an `advance` that wraps the offset or leaves the date type's range, a
   backoff that turns negative.
2. Larger instances of `Webhooks` (two retries each) and `WsHub` (two topics in use).
