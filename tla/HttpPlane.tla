----------------------------- MODULE HttpPlane -----------------------------
(***************************************************************************)
(* The HTTP surface: the fault layer around the item and stream handlers,  *)
(* beside the admin routes that are outside it (http/src/lib.rs, and the   *)
(* router built by server/src/main.rs).                                    *)
(***************************************************************************)
EXTENDS DataPlane, Streams

vars == <<layerVars, dataVars, streamVars>>

Init == LayerInit /\ DataInit /\ StreamInit

\* What any request may do next, its client aside.
LayerStep(r) == Arrive(r) \/ ShortCircuit(r) \/ EnterHandler(r) \/ Ping(r)
Serve(r) ==
  \/ LayerStep(r) /\ UNCHANGED <<dataVars, streamVars>>
  \/ DataStep(r) /\ UNCHANGED streamVars
  \/ StreamStep(r) /\ UNCHANGED dataVars

Time == Tick([r \in Requests |-> Asleep(r) \/ Pausing(r)])

Leave(r) == Abandon(r) /\ HandlerDropped(r) /\ UNCHANGED streamVars

Next ==
  \/ \E r \in Requests : \/ Serve(r)
                         \/ Leave(r)
                         \/ Refused(r) /\ UNCHANGED streamVars
  \/ (SetFaults \/ Time) /\ UNCHANGED <<dataVars, streamVars>>
  \/ ClockStep /\ UNCHANGED dataVars

Spec == Init /\ [][Next]_vars

\* A body on the wire is polled while its client reads; one the layer cuts, by the layer.
Unread(r) == stage[r] = "streaming" /\ ~asks[r].reads

\* The tasks are polled, Postgres answers and time passes; clients, coins and the admin are
\* free, to leave the clock frozen too.
FairSpec ==
  /\ Spec
  /\ WF_vars(Time /\ UNCHANGED <<dataVars, streamVars>>)
  /\ \A r \in Requests : WF_vars(stage[r] # "idle" /\ ~Unread(r) /\ Serve(r))

-----------------------------------------------------------------------------
(* Properties.                                                             *)

\* What a star means: any run of characters, none included.
Matches(pattern, text) ==
  LET M[place \in (1 .. Len(pattern) + 1) \X (1 .. Len(text) + 1)] ==
        LET p == place[1]
            t == place[2]
        IN  IF p > Len(pattern) THEN t > Len(text)
            ELSE IF pattern[p] = "*" THEN \E k \in t .. Len(text) + 1 : M[<<p + 1, k>>]
            ELSE t <= Len(text) /\ pattern[p] = text[t] /\ M[<<p + 1, t + 1>>]
  IN  M[<<1, 1>>]

\* The sum of the counts in f, as the size of a set.
SetSum(f) == Cardinality(UNION {{i} \X (1 .. f[i]) : i \in DOMAIN f})

\* The bus tells the answer: a request behind the layer has one event if it was answered,
\* and none if its client left before, with the status it was answered with and the
\* effects it was put to.
EventsTellTheAnswer ==
  \A r \in Requests :
    /\ HttpAt(r) # {} <=> reply[r].status # None /\ Guarded(r)
    /\ \A i, k \in HttpAt(r) : i = k
    /\ \A i \in HttpAt(r) : /\ log[r][i].status = reply[r].status
                            /\ log[r][i].faults = effects[r].names

FiredAsListed(r) ==
  LET seen == drawn[r].rules
      fired == drawn[r].fired
  IN  \A i \in DOMAIN seen :
        LET hit == Matches(seen[i].route, asks[r].path)
        IN  /\ i \in fired => hit /\ seen[i].rate # "never"
            /\ hit /\ seen[i].rate = "always" => i \in fired

ReportedAsFired(r) ==
  LET seen == drawn[r].rules
      fired == drawn[r].fired
      delayed == {i \in fired : seen[i].latency # None}
      valid == {i \in fired : seen[i].status \in Statuses}
      dropped == \E i \in fired : seen[i].drop
      cut == \E i \in fired : seen[i].truncate
  IN
  /\ \A i \in HttpAt(r) :
       /\ log[r][i].latency >= SetSum([k \in delayed |-> seen[k].latency])
       /\ Len(log[r][i].faults) = SetSum([k \in fired |-> Len(EffectNames(seen[k]))])
  /\ valid # {} => reply[r].status = seen[Max(valid)].status
  /\ dropped \/ valid # {} => /\ reply[r].body = IF dropped THEN "broken" ELSE "fault"
                              /\ sent[r] = <<>> /\ \A u \in Runs : r \notin rows[u]
  /\ dropped /\ valid = {} => reply[r].status = 200
  /\ ~dropped /\ valid = {} => (cut <=> reply[r].body \in {"cut", "empty"})

\* Every answer is what the rules say and what the bus says: the rules that fired are
\* those of the list at the request's arrival whose route matches by the plain meaning of
\* a star; the delay is all of theirs, the status the last valid one, a drop beats it and
\* it beats the handler; and the event has that status, those names and at least that
\* latency.
AnswersAreReported ==
  /\ EventsTellTheAnswer
  /\ \A r \in Requests : FiredAsListed(r) /\ (HttpAt(r) # {} => ReportedAsFired(r))

\* The stream's next chunk is due at a time the clock does not reach, being frozen.
Held(r) == Reading(r) /\ More(r) /\ frozenAt # None /\ ~ChunkDue(r)

\* Whoever comes and goes, sets the clock or drops a run meanwhile, every request that
\* arrived is over in the end: nobody waits for the pools for ever, nor for another's
\* stream.  Only a stream may stay, its own client not reading it, or its own next chunk
\* held up, again and again, by a clock that is frozen.
RequestsEnd ==
  \A r \in Requests :
    \/ stage[r] # "idle" ~> ~InFlight(r) \/ Unread(r)
    \/ []<>Held(r)
=============================================================================
