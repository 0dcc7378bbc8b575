----------------------------- MODULE FaultLayer -----------------------------
(***************************************************************************)
(* The fault injection layer (http/src/fault.rs) and the rules it applies  *)
(* (core/src/fault.rs): the rules are read once, when a request arrives,   *)
(* each matching one tosses its coin, the delay is slept in real time, and *)
(* the request is put on the bus when its response is known.               *)
(*                                                                         *)
(* The handlers behind the layer are DataPlane's and Streams'; HttpPlane   *)
(* composes the three.  A client may go away at any moment.                *)
(***************************************************************************)
EXTENDS Integers, Sequences, FiniteSets, SequencesExt

CONSTANTS
  Requests,
  Scenes,     \* [asks, first, later, boot]: what each request asks for, the fault list
              \* it may find, the one the control plane may put in its place, and how
              \* the data plane came out of the boot
  Statuses,   \* the numbers StatusCode::from_u16 accepts
  None        \* the absent optional field

\* What a fault rule says; None where it says nothing.
Rules ==
  [route : Seq(STRING), rate : {"always", "maybe", "never"}, latency : Nat \cup {None},
   jitter : Nat \cup {None}, status : Int \cup {None}, truncate : BOOLEAN, drop : BOOLEAN]

ASSUME LayerAssumption ==
  /\ None \notin Int /\ None \notin Seq(Rules) /\ Statuses \subseteq Int
  /\ \A s \in Scenes :
       /\ s.first \in Seq(Rules) /\ s.later \in Seq(Rules) \cup {None}
       /\ \A r \in Requests : s.asks[r].path \in Seq(STRING)

VARIABLES
  asks,     \* what each request asks for, fixed from the start
  rules,    \* state.resolved().faults
  pending,  \* bound: the one list that may yet replace them, or None
  boot,     \* the data plane at the start: "unconfigured", "unprepared" or "ready"
  wall,     \* real time
  stage,    \* where each request stands
  since,    \* when each arrived, in real time
  effects,  \* Effects::resolve's result for each
  reply,    \* the status and the body each was answered with
  log,      \* the events each request put on the bus, in order
  drawn     \* history: the rules each request saw, and those that fired for it

layerVars == <<asks, rules, pending, boot, wall, stage, since, effects, reply, log, drawn>>

-----------------------------------------------------------------------------
(* The rules.                                                              *)

GlobWithoutBacktrack(pattern, text) ==
  \E n \in 0 .. Len(pattern) :
    /\ n <= Len(text)
    /\ \A k \in 1 .. n : pattern[k] = text[k]
    /\ IF n = Len(pattern) THEN n = Len(text)
       ELSE pattern[n + 1] = "*" /\ n + 1 = Len(pattern)

\* A turn of glob_match's loop: where it stands in the pattern and the text, the last star
\* it met, 0 before any, and where what that one swallowed ends.
Turn(p, t, star, resume) == [p |-> p, t |-> t, star |-> star, resume |-> resume]
Turns(pattern, text) ==
  {turn \in [p : 1 .. Len(pattern) + 1, t : 1 .. Len(text) + 1,
             star : 0 .. Len(pattern), resume : 1 .. Len(text) + 1] :
     turn.star < turn.p /\ turn.resume <= turn.t}

\* glob_match: a star swallows as little as it can and is given more on a mismatch.
Glob(pattern, text) ==
  LET Scan[turn \in Turns(pattern, text)] ==
        LET p == turn.p
            t == turn.t
        IN  IF t > Len(text) THEN \A k \in p .. Len(pattern) : pattern[k] = "*"
            ELSE IF p <= Len(pattern) /\ pattern[p] = "*" THEN Scan[Turn(p + 1, t, p, t)]
            ELSE IF p <= Len(pattern) /\ pattern[p] = text[t]
                 THEN Scan[Turn(p + 1, t + 1, turn.star, turn.resume)]
            ELSE turn.star # 0
                 /\ Scan[Turn(turn.star + 1, turn.resume + 1, turn.star, turn.resume + 1)]
  IN  Scan[Turn(1, 1, 0, 1)]

FaultsFor(path) == {i \in DOMAIN rules : Glob(rules[i].route, path)}

\* delay_ms, for a roll below 1.
Delays(spec) ==
  IF spec.latency = None THEN {0}
  ELSE spec.latency .. spec.latency + (IF spec.jitter = None \/ spec.jitter = 0 THEN 0
                                       ELSE spec.jitter - 1)

\* FaultSpec::effects: the names, whether or not a field came to matter.
EffectNames(spec) ==
  (IF spec.latency # None THEN <<"latency">> ELSE <<>>) \o
  (IF spec.status # None THEN <<"status">> ELSE <<>>) \o
  (IF spec.truncate THEN <<"truncate">> ELSE <<>>) \o
  (IF spec.drop THEN <<"drop">> ELSE <<>>)

NoEffects == [delay |-> 0, status |-> None, truncate |-> FALSE, drop |-> FALSE, names |-> <<>>]

\* One turn of resolve's loop, for a rule that fired with this delay.
Apply(acc, spec, delay) ==
  [delay |-> acc.delay + delay,
   status |-> IF spec.status \in Statuses THEN spec.status ELSE acc.status,
   truncate |-> acc.truncate \/ spec.truncate,
   drop |-> acc.drop \/ spec.drop,
   names |-> acc.names \o EffectNames(spec)]

\* resolve's loop over the rules, in list order, those that fired with the delay they drew.
Resolve(fired, delay) ==
  LET After[n \in 0 .. Len(rules)] ==
        IF n = 0 THEN NoEffects
        ELSE IF n \in fired THEN Apply(After[n - 1], rules[n], delay[n])
        ELSE After[n - 1]
  IN  After[Len(rules)]

-----------------------------------------------------------------------------
(* A request's way through the layer.                                      *)

AdminOps == {"createRun", "dropRun", "listRuns"}
Guarded(r) == asks[r].op \notin AdminOps

NoReply == [status |-> None, body |-> "none"]

\* The coins: a rate of 0 never fires, a rate of 1 always.
MayFire(matching) ==
  {F \in SUBSET matching : \A i \in matching : /\ rules[i].rate = "always" => i \in F
                                               /\ rules[i].rate = "never" => i \notin F}

Arrive(r) ==
  /\ stage[r] = "idle" /\ asks[r].op # "nothing"
  /\ since' = [since EXCEPT ![r] = wall]
  /\ IF Guarded(r)
     THEN \E F \in MayFire(FaultsFor(asks[r].path)) :
          \E delay \in [F -> UNION {Delays(rules[i]) : i \in F}] :
            /\ \A i \in F : delay[i] \in Delays(rules[i])
            /\ effects' = [effects EXCEPT ![r] = Resolve(F, delay)]
            /\ drawn' = [drawn EXCEPT ![r] = [rules |-> rules, fired |-> F]]
            /\ stage' = [stage EXCEPT ![r] = "delayed"]
     ELSE /\ stage' = [stage EXCEPT ![r] = "handler"]
          /\ UNCHANGED <<effects, drawn>>
  /\ UNCHANGED <<asks, rules, pending, boot, wall, reply, log>>

\* What the layer does once the response is known, without another wait: the event,
\* then the response.
Respond(r, status, body) ==
  /\ reply' = [reply EXCEPT ![r] = [status |-> status, body |-> body]]
  /\ stage' = [stage EXCEPT ![r] = IF body = "stream" THEN "streaming" ELSE "answered"]
  /\ log' = IF ~Guarded(r) THEN log
            ELSE [log EXCEPT ![r] = Append(@, [kind |-> "http", status |-> status,
                                               latency |-> wall - since[r],
                                               faults |-> effects[r].names])]
  /\ UNCHANGED <<asks, rules, pending, boot, wall, since, effects, drawn>>

\* The sleep is over: a drop beats a status, and a status the handler.
Awake(r) == stage[r] = "delayed" /\ wall >= since[r] + effects[r].delay

Asleep(r) == stage[r] = "delayed" /\ ~Awake(r)

ShortCircuit(r) ==
  /\ Awake(r)
  /\ \/ /\ effects[r].drop
        /\ Respond(r, IF effects[r].status = None THEN 200 ELSE effects[r].status, "broken")
     \/ /\ ~effects[r].drop /\ effects[r].status # None
        /\ Respond(r, effects[r].status, "fault")

EnterHandler(r) ==
  /\ Awake(r) /\ ~effects[r].drop /\ effects[r].status = None
  /\ stage' = [stage EXCEPT ![r] = "handler"]
  /\ UNCHANGED <<asks, rules, pending, boot, wall, since, effects, reply, log, drawn>>

\* A handler returned a whole body, which the layer may cut.
Handled(r, status) == Respond(r, status, IF effects[r].truncate THEN "cut" ELSE "json")

Ping(r) == stage[r] = "handler" /\ asks[r].op = "ping" /\ Handled(r, 200)

InFlight(r) == stage[r] \in {"delayed", "handler", "buffering", "streaming"}

\* The client goes away, and the request's future is dropped with all it held.
Abandon(r) ==
  /\ InFlight(r)
  /\ stage' = [stage EXCEPT ![r] = "gone"]
  /\ UNCHANGED <<asks, rules, pending, boot, wall, since, effects, reply, log, drawn>>

SetFaults ==
  /\ pending # None
  /\ rules' = pending
  /\ pending' = None
  /\ UNCHANGED <<asks, boot, wall, stage, since, effects, reply, log, drawn>>

\* Real time passes; only while a request waits for it, which bounds it.
Tick(waiting) ==
  /\ \E r \in Requests : waiting[r]
  /\ wall' = wall + 1
  /\ UNCHANGED <<asks, rules, pending, boot, stage, since, effects, reply, log, drawn>>

LayerInit ==
  /\ \E s \in Scenes : asks = s.asks /\ rules = s.first /\ pending = s.later /\ boot = s.boot
  /\ wall = 0
  /\ stage = [r \in Requests |-> "idle"]
  /\ since = [r \in Requests |-> 0]
  /\ effects = [r \in Requests |-> NoEffects]
  /\ reply = [r \in Requests |-> NoReply]
  /\ log = [r \in Requests |-> <<>>]
  /\ drawn = [r \in Requests |-> [rules |-> <<>>, fired |-> {}]]

\* Where a request's log has its answer, and where its chunks.
HttpAt(r) == {i \in 1 .. Len(log[r]) : log[r][i].kind = "http"}
ChunkAt(r) == {i \in 1 .. Len(log[r]) : log[r][i].kind = "chunk"}
=============================================================================
