----------------------------- MODULE Telemetry -----------------------------
(***************************************************************************)
(* The telemetry spine (crates/telemetry): spans that ended wait in the    *)
(* batch processor, leave through the exporter shim, which may be told to  *)
(* stall, drop or corrupt them, and reach the collector or not; a scrape   *)
(* renders the recorder and corrupts the text (invariant 11: at export,    *)
(* never at instrumentation).  The OpenTelemetry batch processor and the   *)
(* collector are external.                                                 *)
(*                                                                         *)
(* A span is named by the request it belongs to.  A rate is "always" (1),  *)
(* "maybe" (between) or "never" (0).                                       *)
(***************************************************************************)
EXTENDS Integers, FiniteSets, Sequences

CONSTANTS
  Spans,         \* the requests that may have a span
  Absent,        \* absent
  QueueBound,    \* the batch processor's queue (2048 in the SDK)
  MaxSkew        \* MAX_SKEW_MS, in the unit of the scenes

ASSUME TelemetryAssumption ==
  QueueBound \in Nat \ {0} /\ MaxSkew \in Nat /\ IsFiniteSet(Spans)

VARIABLES
  exporting,     \* Telemetry::exporting: spans are exported at all
  configs,       \* the resolved telemetry faults so far, the current one last
  endedIn,       \* which of configs a span ended, or a scrape was taken, under
  fate,          \* where each span is
  shown,         \* what the collector has of it
  arrivedIn,     \* which of configs it got there under
  batch,         \* the export under way: [fault, stalled], or Absent
  requests,      \* the recorder's testbed_http_requests_total
  scrape         \* each scrape's text: [requests, subscribers, junk], or Absent

telemetryVars ==
  <<exporting, configs, endedIn, fate, shown, arrivedIn, batch, requests, scrape>>

Faults ==
  [rate : {"always", "maybe", "never"}, latency : BOOLEAN, drop : BOOLEAN, orphan : BOOLEAN,
   skew : Int \cup {Absent}, bloat : Nat, reset : BOOLEAN, bomb : Nat]
NoFault ==
  [rate |-> "never", latency |-> FALSE, drop |-> FALSE, orphan |-> FALSE, skew |-> Absent,
   bloat |-> 0, reset |-> FALSE, bomb |-> 0]

Current == configs[Len(configs)]
Now == Len(configs)
Honest == [orphan |-> FALSE, skew |-> 0, bloat |-> 0]
Queued == {s \in Spans : fate[s] = "queued"}
Leaving == {s \in Spans : fate[s] = "leaving"}

TelemetryInit ==
  /\ exporting = FALSE
  /\ configs = <<NoFault>>
  /\ endedIn = [s \in Spans |-> Absent]
  /\ fate = [s \in Spans |-> "none"]
  /\ shown = [s \in Spans |-> Absent]
  /\ arrivedIn = [s \in Spans |-> Absent]
  /\ batch = Absent
  /\ requests = 0
  /\ scrape = [s \in Spans |-> Absent]

\* What an overlay or a reset leaves resolved.
Configure(fault) ==
  /\ configs' = Append(configs, fault)
  /\ UNCHANGED <<exporting, endedIn, fate, shown, arrivedIn, batch, requests, scrape>>

-----------------------------------------------------------------------------
(* The spans.                                                              *)

\* A span ends: into the queue, or nowhere when that is full or nothing is exported.
SpanEnds(s) ==
  /\ endedIn' = [endedIn EXCEPT ![s] = Now]
  /\ fate' = [fate EXCEPT ![s] = IF ~exporting THEN "unexported"
                                 ELSE IF Cardinality(Queued) < QueueBound THEN "queued"
                                 ELSE "overflowed"]
  /\ UNCHANGED <<exporting, configs, shown, arrivedIn, batch, scrape>>

FiresWhenSet(fault, coin) == fault # NoFault /\ coin

\* The rate is a coin per batch, whatever the fault's fields say.
Fires(fault, coin) ==
  \/ fault.rate = "always"
  \/ fault.rate = "maybe" /\ coin

\* ChaosExporter::export: the fault is read once, as the batch comes in, and a batch it
\* does not fire for goes out untouched.
ExportBegins ==
  /\ exporting /\ batch = Absent /\ Queued # {}
  /\ \E coin \in BOOLEAN :
       LET fault == IF Fires(Current, coin) THEN Current ELSE NoFault
       IN  batch' = [fault |-> fault, stalled |-> fault.latency]
  /\ fate' = [s \in Spans |-> IF s \in Queued THEN "leaving" ELSE fate[s]]
  /\ UNCHANGED <<exporting, configs, endedIn, shown, arrivedIn, requests, scrape>>

StallEnds ==
  /\ batch # Absent /\ batch.stalled
  /\ batch' = [batch EXCEPT !.stalled = FALSE]
  /\ UNCHANGED <<exporting, configs, endedIn, fate, shown, arrivedIn, requests, scrape>>

BatchIs(what) ==
  /\ batch # Absent /\ ~batch.stalled
  /\ batch' = Absent
  /\ fate' = [s \in Spans |-> IF s \in Leaving THEN what ELSE fate[s]]
  /\ UNCHANGED <<exporting, configs, endedIn, requests, scrape>>

\* drop_export reports success.
ExportDropped ==
  batch # Absent /\ batch.fault.drop /\ BatchIs("dropped") /\ UNCHANGED <<shown, arrivedIn>>

Clamp(ms) == IF ms > MaxSkew THEN MaxSkew ELSE IF ms < -MaxSkew THEN -MaxSkew ELSE ms

Corrupted(fault) ==
  [orphan |-> fault.orphan,
   skew |-> IF fault.skew = Absent THEN 0 ELSE Clamp(fault.skew),
   bloat |-> fault.bloat]

\* The inner exporter delivers the batch, corrupted or not ...
ExportArrives ==
  /\ batch # Absent /\ ~batch.fault.drop
  /\ BatchIs("received")
  /\ shown' = [s \in Spans |-> IF s \in Leaving THEN Corrupted(batch.fault) ELSE shown[s]]
  /\ arrivedIn' = [s \in Spans |-> IF s \in Leaving THEN Now ELSE arrivedIn[s]]

\* ... or fails, and nobody tries again.
ExportFails ==
  batch # Absent /\ ~batch.fault.drop /\ BatchIs("failed") /\ UNCHANGED <<shown, arrivedIn>>

Export == ExportBegins \/ StallEnds \/ ExportDropped \/ ExportArrives \/ ExportFails

\* The process is gone, and with it what had not left.
SpansLost ==
  /\ batch' = Absent
  /\ fate' = [s \in Spans |-> IF s \in Queued \union Leaving THEN "lost" ELSE fate[s]]
  /\ UNCHANGED <<configs, endedIn, shown, arrivedIn, scrape>>

-----------------------------------------------------------------------------
(* The scrape.                                                             *)

\* A request behind the fault layer: counted, and its span ends.
Recorded(s) == requests' = requests + 1 /\ SpanEnds(s)

\* The text: every sample is set to 1 if the counters are to look reset, then the bomb.
Rendered(subscribers, fault) ==
  [requests |-> IF fault.reset THEN 1 ELSE requests,
   subscribers |-> IF fault.reset THEN 1 ELSE subscribers,
   junk |-> fault.bomb]

\* metrics: the gauges are set as they are now, and the fault of now corrupts the text.
Scrape(s, subscribers) ==
  /\ \E coin \in BOOLEAN :
       LET fault == IF Fires(Current, coin) THEN Current ELSE NoFault
       IN  scrape' = [scrape EXCEPT ![s] = Rendered(subscribers, fault)]
  /\ endedIn' = [endedIn EXCEPT ![s] = Now]
  /\ UNCHANGED <<exporting, configs, fate, shown, arrivedIn, batch, requests>>

-----------------------------------------------------------------------------
(* Properties.                                                             *)

Window(s) == {configs[i] : i \in endedIn[s] .. arrivedIn[s]}
\* The faults that may still be at work on a span that ended.
Since(s) == {configs[i] : i \in endedIn[s] .. Now}
AtWork(faults) == {f \in faults : f.rate # "never"}

\* What the collector has of a span is the span, unless a fault that was configured and
\* could fire between its end and its arrival says otherwise, and then exactly as that one
\* fault says; a span is dropped on purpose only by such a fault; a skew stays in bounds;
\* and a scrape lies only under a fault that was current then.
LiesAreConfigured ==
  \A s \in Spans :
    /\ fate[s] = "received" =>
         /\ shown[s] = Honest \/ \E f \in AtWork(Window(s)) : shown[s] = Corrupted(f)
         /\ shown[s].skew \in -MaxSkew .. MaxSkew
    /\ fate[s] = "dropped" => \E f \in AtWork(Since(s)) : f.drop
    /\ scrape[s] # Absent =>
         LET now == AtWork({configs[endedIn[s]]})
         IN  /\ scrape[s].junk > 0 => \E f \in now : scrape[s].junk = f.bomb
             /\ scrape[s].requests > Cardinality({t \in Spans : fate[t] # "none"}) => \E f \in now : f.reset
=============================================================================
