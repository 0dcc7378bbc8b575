------------------------------ MODULE Process ------------------------------
(***************************************************************************)
(* The process (server/src/main.rs) around the mail surface and the        *)
(* telemetry spine: boot, which wires what it finds and degrades where it  *)
(* finds nothing; the serving phase; a graceful shutdown that waits for    *)
(* every open response, a stream's to its last chunk, and then flushes the *)
(* last spans (trap T11); a kill; and a restart, with a fresh run or from  *)
(* a snapshot.                                                             *)
(*                                                                         *)
(* Logging, ports and addresses are left out; what each dependency answers *)
(* at boot is part of the environment.                                     *)
(***************************************************************************)
EXTENDS Mail, Telemetry

CONSTANTS
  Scenes,        \* environments with the requests made in them
  MaxBoots       \* boots in a behaviour

ASSUME ProcessAssumption ==
  /\ Requests \subseteq Spans
  /\ \A scene \in Scenes :
       /\ \A r \in Requests :
            LET ask == scene.asks[r]
            IN  /\ ask.op \in {"send", "list"} => ask.run \in Nat \cup {None}
                /\ ask.op = "send" => ask.to \in Seq(STRING)
                /\ ask.op = "list" => ask.limit \in Nat
                /\ ask.op = "telemetry" => ask.fault \in Faults \cup {None}
                /\ ask.op = "stream" =>
                     {ask.paced, ask.buffered, ask.reads} \subseteq BOOLEAN
                /\ ask.op = "clock" => ask.frozen \in BOOLEAN
       /\ scene.env.telemetry \in Faults
       /\ \A entry \in scene.env.allowed :
            /\ entry.kind \in {"any", "domain", "address"}
            /\ entry.kind = "domain" => entry.of \in Seq(STRING)

VARIABLES
  phase,         \* boot's next step, "serving", "stopping", "flushing" or "exited"
  code,          \* the exit code, or None
  boots,         \* processes started
  wired,         \* Surfaces: what GET / says is connected
  frozen,        \* the virtual clock stands still, short of the chunks still to come
  saved          \* the snapshot a client keeps: [run, telemetry, frozen], or None

processVars == <<phase, code, boots, wired, frozen, saved>>
vars == <<requestVars, run, mailer, mailVars, telemetryVars, processVars>>

Nowhere == [postgres |-> FALSE, redis |-> FALSE, mailpit |-> FALSE, tracing |-> FALSE]

Init ==
  /\ \E scene \in Scenes : asks = scene.asks /\ env = scene.env
  /\ run = None /\ mailer = "none"
  /\ stage = [r \in Requests |-> "idle"]
  /\ reply = [r \in Requests |-> None]
  /\ MailInit /\ TelemetryInit
  /\ phase = "control" /\ code = None /\ boots = 1
  /\ wired = Nowhere
  /\ frozen = FALSE /\ saved = None

-----------------------------------------------------------------------------
(* Boot, in main's order.                                                  *)

Exit(n) == phase' = "exited" /\ code' = n
GoOn(p) == phase' = p /\ UNCHANGED code

\* A bad command line, no snapshot to restore, or no scenario to read is fatal.
RefusesToBoot ==
  \/ env.args = "bad"
  \/ env.args = "restore" /\ boots > 1 /\ saved = None
  \/ env.args # "restore" /\ env.scenario = "bad"

Restores == env.args = "restore" /\ boots > 1

\* The control plane: from the snapshot, with its run, its faults and its clock, or from
\* the scenario, with a run of its own and a clock that moves.
ReadControl ==
  /\ phase = "control"
  /\ IF RefusesToBoot
     THEN Exit(1) /\ UNCHANGED <<run, configs, frozen>>
     ELSE /\ GoOn("telemetry")
          /\ run' = IF Restores THEN saved.run ELSE boots
          /\ configs' = Append(configs, IF Restores THEN saved.telemetry ELSE env.telemetry)
          /\ frozen' = (Restores /\ saved.frozen)
  /\ UNCHANGED <<requestVars, mailer, mailVars, exporting, endedIn, fate, shown, arrivedIn,
                 batch, requests, scrape, boots, wired, saved>>

\* Spans are exported if that is not switched off and something listens there.
InstallTelemetry ==
  /\ phase = "telemetry"
  /\ exporting' = (env.collector = "up")
  /\ GoOn("data")
  /\ UNCHANGED <<requestVars, run, mailer, mailVars, configs, endedIn, fate, shown, arrivedIn,
                 batch, requests, scrape, boots, wired, frozen, saved>>

\* Postgres unset or unreachable is a warning, and so is a schema that cannot be prepared.
ConnectData ==
  /\ phase = "data"
  /\ wired' = [wired EXCEPT !.postgres = env.database \in {"up", "unprepared"}]
  /\ GoOn("queue")
  /\ UNCHANGED <<requestVars, run, mailer, mailVars, telemetryVars, boots, frozen, saved>>

ConnectQueue ==
  /\ phase = "queue"
  /\ wired' = [wired EXCEPT !.redis = env.redis = "up"]
  /\ GoOn("mail")
  /\ UNCHANGED <<requestVars, run, mailer, mailVars, telemetryVars, boots, frozen, saved>>

\* The probe is a real request: no answer, no mail surface.
ProbeMail ==
  /\ phase = "mail"
  /\ mailer' = IF ~env.mailConfig \/ ~reachable THEN "none"
               ELSE IF env.relay THEN "relay" ELSE "mailpit"
  /\ GoOn("bind")
  /\ UNCHANGED <<requestVars, run, mailVars, telemetryVars, boots, wired, frozen, saved>>

\* Dual-stack, else IPv4 only, else a panic; the index is told what was wired.
Bind ==
  /\ phase = "bind"
  /\ IF env.port = "taken" THEN Exit(101) ELSE GoOn("serving")
  /\ wired' = [wired EXCEPT !.mailpit = (mailer # "none"), !.tracing = exporting]
  /\ UNCHANGED <<requestVars, run, mailer, mailVars, telemetryVars, boots, frozen, saved>>

Boot == ReadControl \/ InstallTelemetry \/ ConnectData \/ ConnectQueue \/ ProbeMail \/ Bind

-----------------------------------------------------------------------------
(* Requests.                                                               *)

InFlightTillAnswered(r) == stage[r] \notin {"idle", "done", "cut"}

\* A response is open until it is answered, its client leaves or the process dies.
InFlight(r) == stage[r] \notin {"idle", "done", "left", "cut"}

\* mail.send's span, from past the allowlist to the answer or the handler's drop; and the
\* fault layer's, while what is behind it works.
InSpan(r) == stage[r] \in {"send", "handed", "work"}
SpanFollows(r) ==
  IF InSpan(r) /\ ~InSpan(r)'
  THEN SpanEnds(r) /\ UNCHANGED requests
  ELSE UNCHANGED telemetryVars

Arrives(r, ops) == phase = "serving" /\ stage[r] = "idle" /\ asks[r].op \in ops

MailRequest(r) ==
  /\ phase = "serving" /\ MailArrive(r)
  /\ UNCHANGED <<asks, env, run, mailer, telemetryVars, processVars>>

MailProgress(r) ==
  /\ phase \in {"serving", "stopping"} /\ MailServe(r) /\ SpanFollows(r)
  /\ UNCHANGED <<run, mailer, processVars>>

\* wait_until lets no chunk go before it is due, and under a clock that stands still a
\* paced stream's next one never is: the handler's stream waits, or the fault layer does,
\* which reads the whole body first under a truncate_body_at rule.
Waits(r) ==
  /\ asks[r].op = "stream" /\ asks[r].paced /\ frozen
  /\ stage[r] = IF asks[r].buffered THEN "work" ELSE "streaming"

\* Anything behind the fault layer, /api/items or a stream say, takes its time ...
Work(r) ==
  /\ Arrives(r, {"items", "stream"}) /\ Go(r, "work")
  /\ UNCHANGED <<asks, env, run, mailer, mailVars, telemetryVars, processVars>>

\* ... and is answered, 503 without Postgres; of a stream these are the headers.
WorkEnds(r) ==
  /\ phase \in {"serving", "stopping"} /\ stage[r] = "work" /\ ~Waits(r)
  /\ IF asks[r].op = "stream" THEN Go(r, "streaming")
     ELSE Answer(r, IF wired.postgres THEN 200 ELSE 503, None)
  /\ Recorded(r)
  /\ UNCHANGED <<asks, env, run, mailer, mailVars, processVars>>

\* The last chunk is written, and the client has it.
StreamEnds(r) ==
  /\ phase \in {"serving", "stopping"} /\ stage[r] = "streaming" /\ ~Waits(r)
  /\ Answer(r, 200, None)
  /\ UNCHANGED <<asks, env, run, mailer, mailVars, telemetryVars, processVars>>

\* GET / and GET /_admin/health, and a path no router claims.
Page(r) ==
  /\ Arrives(r, {"index", "nowhere"})
  /\ IF asks[r].op = "index" THEN Answer(r, 200, [run |-> run, connected |-> wired])
                             ELSE Answer(r, 404, None)
  /\ UNCHANGED <<asks, env, run, mailer, mailVars, telemetryVars, processVars>>

Subscribers == {r \in Requests : stage[r] = "events"}

\* GET /_admin/events: a response that never ends by itself.
Subscribe(r) ==
  /\ Arrives(r, {"events"}) /\ Go(r, "events")
  /\ UNCHANGED <<asks, env, run, mailer, mailVars, telemetryVars, processVars>>

Metrics(r) ==
  /\ Arrives(r, {"metrics"}) /\ Scrape(r, Cardinality(Subscribers)) /\ Answer(r, 200, None)
  /\ UNCHANGED <<asks, env, run, mailer, mailVars, processVars>>

\* POST and DELETE /_admin/telemetry/faults: the second returns to the scenario's.
SetTelemetry(r) ==
  /\ Arrives(r, {"telemetry"})
  /\ Configure(IF asks[r].fault = None THEN env.telemetry ELSE asks[r].fault)
  /\ Answer(r, 200, None)
  /\ UNCHANGED <<asks, env, run, mailer, mailVars, processVars>>

\* A freeze, or what lets the streams go: a resume, an advance past their chunks.
SetClock(r) ==
  /\ Arrives(r, {"clock"})
  /\ frozen' = asks[r].frozen
  /\ Answer(r, 200, None)
  /\ UNCHANGED <<asks, env, run, mailer, mailVars, telemetryVars, phase, code, boots, wired, saved>>

\* POST /_admin/reset: the scenario's faults again, and a clock that moves.
Reset(r) ==
  /\ Arrives(r, {"reset"})
  /\ Configure(env.telemetry) /\ frozen' = FALSE
  /\ Answer(r, 200, None)
  /\ UNCHANGED <<asks, env, run, mailer, mailVars, phase, code, boots, wired, saved>>

Save(r) ==
  /\ Arrives(r, {"snapshot"})
  /\ saved' = [run |-> run, telemetry |-> Current, frozen |-> frozen]
  /\ Answer(r, 200, None)
  /\ UNCHANGED <<asks, env, run, mailer, mailVars, telemetryVars, phase, code, boots, wired,
                 frozen>>

Serve(r) ==
  \/ MailRequest(r) \/ MailProgress(r)
  \/ Work(r) \/ WorkEnds(r) \/ StreamEnds(r)
  \/ Page(r) \/ Subscribe(r) \/ Metrics(r) \/ SetTelemetry(r) \/ SetClock(r) \/ Reset(r)
  \/ Save(r)

\* The client hangs up: its handler is dropped where it waits.
Leave(r) ==
  /\ InFlight(r) /\ ~asks[r].patient
  /\ Go(r, "left") /\ SpanFollows(r)
  /\ UNCHANGED <<asks, env, run, mailer, mailVars, processVars>>

-----------------------------------------------------------------------------
(* The end of a process, and the next one.                                 *)

\* SIGINT or SIGTERM: nothing new is accepted.
Signal ==
  /\ phase = "serving" /\ GoOn("stopping")
  /\ UNCHANGED <<requestVars, run, mailer, mailVars, telemetryVars, boots, wired, frozen, saved>>

\* Graceful shutdown returns once every response is over.
Drained ==
  /\ phase = "stopping" /\ \A r \in Requests : ~InFlight(r)
  /\ GoOn("flushing")
  /\ UNCHANGED <<requestVars, run, mailer, mailVars, telemetryVars, boots, wired, frozen, saved>>

\* Telemetry::shutdown: the processor exports all it holds, through the shim ...
Flushed ==
  /\ phase = "flushing" /\ Queued = {} /\ batch = Absent
  /\ Exit(0)
  /\ UNCHANGED <<requestVars, run, mailer, mailVars, telemetryVars, boots, wired, frozen, saved>>

\* ... unless a stalled export outlasts the SDK's patience.
FlushTimesOut ==
  /\ phase = "flushing" /\ batch # Absent /\ batch.stalled
  /\ Exit(0) /\ SpansLost
  /\ UNCHANGED <<requestVars, run, mailer, mailVars, exporting, requests, boots, wired, frozen,
                 saved>>

\* Killed: every response is cut, and what was not exported is gone.
Kill ==
  /\ phase \in {"serving", "stopping", "flushing"}
  /\ Exit(137) /\ SpansLost
  /\ stage' = [r \in Requests |-> IF InFlight(r) THEN "cut" ELSE stage[r]]
  /\ UNCHANGED <<asks, env, reply, run, mailer, mailVars, exporting, requests, boots, wired, frozen,
                 saved>>

\* Nothing in memory survives; Mailpit's messages and the client's snapshot do.
Restart ==
  /\ phase = "exited" /\ boots < MaxBoots
  /\ phase' = "control" /\ code' = None /\ boots' = boots + 1
  /\ run' = None /\ mailer' = "none" /\ wired' = Nowhere /\ frozen' = FALSE
  /\ exporting' = FALSE /\ requests' = 0
  /\ UNCHANGED <<requestVars, mailVars, configs, endedIn, fate, shown, arrivedIn, batch, scrape,
                 saved>>

Exports ==
  /\ phase \in {"serving", "stopping", "flushing"} /\ Export
  /\ UNCHANGED <<requestVars, run, mailer, mailVars, processVars>>

World ==
  /\ phase \in {"serving", "stopping"}
  /\ ForeignMail \/ MailServerStops
  /\ UNCHANGED <<run, mailer, telemetryVars, processVars>>

Next ==
  \/ Boot \/ Exports \/ World
  \/ \E r \in Requests : Serve(r) \/ Leave(r)
  \/ Signal \/ Drained \/ Flushed \/ FlushTimesOut \/ Kill \/ Restart

Spec == Init /\ [][Next]_vars

\* The process runs, the mail server answers or is gone, what is behind the fault layer
\* and an export end, and a stream that is read is written as the clock allows; clients,
\* signals, kills and restarts are free.
FairSpec ==
  /\ Spec
  /\ WF_vars(Boot) /\ WF_vars(Exports) /\ WF_vars(Drained) /\ WF_vars(Flushed)
  /\ \A r \in Requests :
       /\ WF_vars(MailProgress(r)) /\ WF_vars(WorkEnds(r))
       /\ WF_vars(StreamEnds(r) /\ asks[r].reads)

-----------------------------------------------------------------------------
(* Properties.                                                             *)

\* The responses a graceful shutdown may wait for without end: an event stream, a paced
\* stream under a clock that stands still, a stream its client does not read.
HoldsOpen(r) ==
  stage[r] = "events" \/ Waits(r) \/ (stage[r] = "streaming" /\ ~asks[r].reads)

\* Trap T11, as far as it goes: once told to stop, a process ends, and no ended span is
\* left in it: each is exported, dropped by a fault, or lost to a failure that says so.
\* Only a response somebody holds open for ever keeps it from ending.
StopsAndFlushes ==
  [](phase = "stopping" => \/ <>(phase = "exited" /\ Queued \union Leaving = {})
                           \/ <>[](\E r \in Requests : HoldsOpen(r)))

=============================================================================
