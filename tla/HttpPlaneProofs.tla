--------------------------- MODULE HttpPlaneProofs ---------------------------
(* Machine-checked proofs about HttpPlane: its data plane, its streams, the *)
(* events of its layer and the rules it applies, for every set of requests  *)
(* and runs, everything the requests may ask for, every fault list and any  *)
(* number of refused connections.                                           *)
EXTENDS HttpPlane, FiniteSetTheorems, SequenceTheorems, WellFoundedInduction, TLAPS

Pools == Requests \cup {BootPool}
Places == {"idle", "look", "connect", "insert", "acquire", "query", "closing", "dropSchema"}
Stages == {"idle", "delayed", "handler", "buffering", "streaming", "answered", "gone"}

DataTyped ==
  /\ stage \in [Requests -> Stages]
  /\ at \in [Requests -> Places]
  /\ mine \in [Requests -> Pools \cup {None}]
  /\ pools \in [Runs -> Pools \cup {None}]
  /\ closed \subseteq Pools
  /\ DOMAIN schema = Runs
  /\ DOMAIN reply = Requests
  /\ \A r \in Requests : DOMAIN reply[r] = {"status", "body"}
  /\ \A r \in Requests : RunOf(r) \in Runs \cup {None}

\* Only a data handler that named a run is on its way, and only it has a pool.
Working ==
  \A r \in Requests : /\ at[r] # "idle" => InHandler(r) /\ RunOf(r) \in Runs
                      /\ mine[r] # None => at[r] # "idle"

\* The request is past the insertion of the pool it may have built.
Past(r) == stage[r] \in {"answered", "gone"}
           \/ at[r] \in {"acquire", "query", "closing", "dropSchema"}

\* A pool is that of the run of the request that built it, and of no other: the name of
\* a pool not yet inserted is nowhere.
PoolsNamed ==
  /\ \A u \in Runs : \A q \in Requests : pools[u] = q => Past(q) /\ RunOf(q) = u
  /\ \A u \in Runs : pools[u] = BootPool => u = DefaultRun
  /\ \A r \in Requests : \A q \in Requests : mine[r] = q => Past(q)
  /\ \A q \in Requests : q \in closed => Past(q)

\* A pool in the map is open, and an open pool that a handler has is its run's one in
\* the map.
OneOpen ==
  /\ \A u \in Runs : pools[u] \notin closed
  /\ \A r \in Requests : mine[r] # None /\ mine[r] \notin closed => mine[r] = pools[RunOf(r)]

\* A handler whose pool is closed, or whose run has no tables, met an excuse on the way.
Excuses ==
  \A r \in Requests :
    /\ mine[r] \in closed => r \in excused
    /\ at[r] # "idle" /\ r \notin excused =>
         /\ asks[r].op \in ItemOps => schema[RunOf(r)] = "ready"
         /\ asks[r].op = "createRun" => schema[RunOf(r)] # "none"

Inv == /\ DataTyped /\ Working /\ PoolsNamed /\ OneOpen
       /\ Excuses /\ ServerErrorsAreExplained

-----------------------------------------------------------------------------
(* What the steps have in common.                                          *)

LEMMA RunsStay ==
  ASSUME asks' = asks
  PROVE  \A q \in Requests : /\ RunOf(q)' = RunOf(q)
                             /\ InHandler(q)' <=> stage'[q] = "handler" /\ asks[q].op \in DataOps
<1>1. QED
  BY DEF RunOf, InHandler

\* What a step may do to the schemas, for the sake of the other handlers.
SchemaKept(r) ==
  /\ DOMAIN schema' = Runs
  /\ excused \subseteq excused'
  /\ \A q \in Requests : q # r /\ at[q] # "idle" /\ q \notin excused' =>
       /\ asks[q].op \in ItemOps /\ schema[RunOf(q)] = "ready" => schema'[RunOf(q)] = "ready"
       /\ asks[q].op = "createRun" /\ schema[RunOf(q)] # "none" => schema'[RunOf(q)] # "none"

LEMMA NoneIsNoPool == None \notin Pools
<1>1. QED
  BY DataAssumption DEF Pools

\* Steps of the layer, of the streams and of the clocks: no data handler moves, and none
\* answers.
LEMMA OtherSteps ==
  ASSUME Inv, UNCHANGED <<dataVars, asks>>, stage' \in [Requests -> Stages],
         DOMAIN reply' = Requests,
         \A q \in Requests :
           /\ DOMAIN reply'[q] = {"status", "body"}
           /\ stage'[q] # stage[q] => stage[q] \notin {"answered", "gone"} /\ ~InHandler(q)
           /\ reply'[q] = reply[q] \/ asks[q].op \notin DataOps
              \/ reply'[q].status # 500 \/ reply'[q].body \notin {"json", "cut"}
  PROVE  Inv'
<1>1. \A q \in Requests : /\ RunOf(q)' = RunOf(q)
                          /\ InHandler(q)' <=> stage'[q] = "handler" /\ asks[q].op \in DataOps
  BY RunsStay
<1>2. /\ schema' = schema /\ pools' = pools /\ closed' = closed /\ at' = at /\ mine' = mine
      /\ excused' = excused /\ asks' = asks
  BY DEF dataVars
<1>3. \A q \in Requests : (Past(q) => Past(q)') /\ (InHandler(q) => InHandler(q)')
  BY <1>1, <1>2 DEF Past, InHandler
<1>4. DataTyped'
  BY <1>1, <1>2 DEF Inv, DataTyped
<1>5. Working'
  BY <1>1, <1>2, <1>3 DEF Inv, Working
<1>6. PoolsNamed'
  BY <1>1, <1>2, <1>3 DEF Inv, PoolsNamed
<1>7. OneOpen'
  BY <1>1, <1>2 DEF Inv, OneOpen
<1>8. Excuses'
  BY <1>1, <1>2 DEF Inv, Excuses
<1>9. ServerErrorsAreExplained'
  BY <1>2 DEF Inv, ServerErrorsAreExplained
<1>10. QED
  BY <1>4, <1>5, <1>6, <1>7, <1>8, <1>9 DEF Inv

\* What Ends says, for a data handler.
LEMMA EndsMeans ==
  ASSUME DataTyped, NEW r \in Requests, NEW s, InHandler(r), Ends(r, s)
  PROVE  /\ asks' = asks
         /\ stage' = [stage EXCEPT ![r] = "answered"]
         /\ at' = [at EXCEPT ![r] = "idle"]
         /\ mine' = [mine EXCEPT ![r] = None]
         /\ DOMAIN reply' = Requests
         /\ \A q \in Requests : DOMAIN reply'[q] = {"status", "body"}
         /\ \A q \in Requests : q # r => reply'[q] = reply[q]
         /\ reply'[r].status = s
<1>1. PICK b \in {"cut", "json"} : Respond(r, s, b)
  BY DEF Ends, Handled
<1>2. QED
  BY <1>1 DEF Respond, Ends, DataTyped

\* A data handler answers, and leaves the pools alone.
LEMMA EndKeeps ==
  ASSUME Inv, NEW r \in Requests, NEW s, InHandler(r), Ends(r, s), SchemaKept(r),
         s = 500 => r \in excused', UNCHANGED <<pools, closed>>
  PROVE  Inv'
<1>1. /\ asks' = asks
      /\ stage' = [stage EXCEPT ![r] = "answered"]
      /\ at' = [at EXCEPT ![r] = "idle"]
      /\ mine' = [mine EXCEPT ![r] = None]
      /\ DOMAIN reply' = Requests
      /\ \A q \in Requests : DOMAIN reply'[q] = {"status", "body"}
      /\ \A q \in Requests : q # r => reply'[q] = reply[q]
      /\ reply'[r].status = s
  BY EndsMeans DEF Inv
<1>2. \A q \in Requests : /\ RunOf(q)' = RunOf(q)
                          /\ InHandler(q)' <=> stage'[q] = "handler" /\ asks[q].op \in DataOps
  BY <1>1, RunsStay
<1>3. \A q \in Requests :
        /\ stage'[q] = IF q = r THEN "answered" ELSE stage[q]
        /\ at'[q] = IF q = r THEN "idle" ELSE at[q]
        /\ mine'[q] = IF q = r THEN None ELSE mine[q]
  BY <1>1 DEF Inv, DataTyped
<1>4. \A q \in Requests : Past(q) => Past(q)'
  BY <1>3 DEF Past
<1>5. DataTyped'
  BY <1>1, <1>2 DEF Inv, DataTyped, SchemaKept, Stages, Places
<1>6. Working'
  BY <1>2, <1>3 DEF Inv, Working, InHandler
<1>7. PoolsNamed'
  BY <1>2, <1>3, <1>4, NoneIsNoPool DEF Inv, PoolsNamed, Pools
<1>8. OneOpen'
  BY <1>2, <1>3 DEF Inv, OneOpen
<1>9. Excuses'
  BY <1>1, <1>2, <1>3, NoneIsNoPool DEF Inv, Excuses, SchemaKept, DataTyped
<1>10. ServerErrorsAreExplained'
  BY <1>1 DEF Inv, ServerErrorsAreExplained, SchemaKept
<1>11. QED
  BY <1>5, <1>6, <1>7, <1>8, <1>9, <1>10 DEF Inv

\* A data handler goes on to its next place, and leaves the pools alone.
LEMMA GoKeeps ==
  ASSUME Inv, NEW r \in Requests, NEW to \in Places, InHandler(r), RunOf(r) \in Runs,
         to # "idle", Goes(r, to), SchemaKept(r), UNCHANGED <<pools, closed>>,
         \/ mine' = mine
         \/ mine' = [mine EXCEPT ![r] = pools[RunOf(r)]],
         Past(r) => to \in {"acquire", "query", "closing", "dropSchema"},
         r \notin excused' =>
           /\ asks[r].op \in ItemOps => schema'[RunOf(r)] = "ready"
           /\ asks[r].op = "createRun" => schema'[RunOf(r)] # "none"
  PROVE  Inv'
<1>1. /\ asks' = asks /\ stage' = stage /\ reply' = reply
      /\ at' = [at EXCEPT ![r] = to]
  BY DEF Goes, layerVars
<1>2. \A q \in Requests : RunOf(q)' = RunOf(q) /\ (InHandler(q)' <=> InHandler(q))
  BY <1>1, RunsStay DEF InHandler
<1>3. \A q \in Requests :
        /\ at'[q] = IF q = r THEN to ELSE at[q]
        /\ mine'[q] = mine[q] \/ (q = r /\ mine'[q] = pools[RunOf(r)])
  BY <1>1 DEF Inv, DataTyped
<1>4. \A q \in Requests : Past(q) => Past(q)'
  BY <1>1, <1>3 DEF Past
<1>5. DataTyped'
  <2>1. mine' \in [Requests -> Pools \cup {None}] /\ at' \in [Requests -> Places]
    BY <1>1 DEF Inv, DataTyped
  <2>2. QED
    BY <1>1, <1>2, <2>1 DEF Inv, DataTyped, SchemaKept
<1>6. Working'
  BY <1>2, <1>3 DEF Inv, Working
<1>7. PoolsNamed'
  BY <1>2, <1>3, <1>4 DEF Inv, PoolsNamed
<1>8. OneOpen'
  BY <1>2, <1>3 DEF Inv, OneOpen
<1>9. Excuses'
  BY <1>1, <1>2, <1>3 DEF Inv, Excuses, SchemaKept, OneOpen
<1>10. ServerErrorsAreExplained'
  BY <1>1 DEF Inv, ServerErrorsAreExplained, SchemaKept
<1>11. QED
  BY <1>5, <1>6, <1>7, <1>8, <1>9, <1>10 DEF Inv

-----------------------------------------------------------------------------
(* The steps that move pools.                                              *)

LEMMA LeaveKeeps == ASSUME Inv, NEW r \in Requests, Leave(r) PROVE Inv'
<1>1. /\ asks' = asks /\ reply' = reply /\ schema' = schema /\ pools' = pools
      /\ excused' = excused
      /\ stage[r] \notin {"answered", "gone"}
      /\ stage' = [stage EXCEPT ![r] = "gone"]
      /\ at' = [at EXCEPT ![r] = "idle"]
      /\ mine' = [mine EXCEPT ![r] = None]
      /\ closed' = IF at[r] = "insert" THEN closed \cup {r} ELSE closed
  BY DEF Leave, Abandon, InFlight, HandlerDropped
<1>2. \A q \in Requests : /\ RunOf(q)' = RunOf(q)
                          /\ InHandler(q)' <=> stage'[q] = "handler" /\ asks[q].op \in DataOps
  BY <1>1, RunsStay
<1>3. \A q \in Requests :
        /\ stage'[q] = IF q = r THEN "gone" ELSE stage[q]
        /\ at'[q] = IF q = r THEN "idle" ELSE at[q]
        /\ mine'[q] = IF q = r THEN None ELSE mine[q]
  BY <1>1 DEF Inv, DataTyped
<1>4. \A q \in Requests : Past(q) => Past(q)'
  BY <1>3 DEF Past
<1>5. \A p \in closed' : p \in closed \/ (p = r /\ at[r] = "insert")
  BY <1>1
<1>6. at[r] = "insert" => ~Past(r)
  BY <1>1 DEF Past
<1>7. DataTyped'
  BY <1>1, <1>2 DEF Inv, DataTyped, Stages, Places, Pools
<1>8. Working'
  BY <1>2, <1>3 DEF Inv, Working, InHandler
<1>9. PoolsNamed'
  <2>1. Past(r)'
    BY <1>3 DEF Past
  <2>2. QED
    BY <1>1, <1>2, <1>3, <1>4, <1>5, <2>1, NoneIsNoPool DEF Inv, PoolsNamed, Pools
<1>10. OneOpen'
  BY <1>1, <1>2, <1>3, <1>5, <1>6 DEF Inv, OneOpen, PoolsNamed
<1>11. Excuses'
  <2>1. None \notin closed'
    BY <1>7, NoneIsNoPool DEF DataTyped
  <2>2. QED
    BY <1>1, <1>2, <1>3, <1>5, <1>6, <2>1 DEF Inv, Excuses, PoolsNamed
<1>12. ServerErrorsAreExplained'
  BY <1>1 DEF Inv, ServerErrorsAreExplained
<1>13. QED
  BY <1>7, <1>8, <1>9, <1>10, <1>11, <1>12 DEF Inv

\* The pool a request built is inserted, or closed because another landed first.
LEMMA InsertKeeps == ASSUME Inv, NEW r \in Requests, Insert(r) PROVE Inv'
<1> DEFINE u == RunOf(r)
<1>1. /\ InHandler(r) /\ at[r] = "insert"
      /\ pools' = Inserted(u, r)
      /\ mine' = [mine EXCEPT ![r] = pools'[u]]
      /\ closed' = IF pools'[u] = r THEN closed ELSE closed \cup {r}
      /\ at' = [at EXCEPT ![r] = "acquire"]
      /\ asks' = asks /\ stage' = stage /\ reply' = reply /\ schema' = schema
      /\ excused' = excused
  BY DEF Insert, Goes, layerVars
<1>2. \A q \in Requests : RunOf(q)' = RunOf(q) /\ (InHandler(q)' <=> InHandler(q))
  BY <1>1, RunsStay DEF InHandler
<1>3. u \in Runs /\ ~Past(r)
  BY <1>1 DEF Inv, Working, Past, InHandler
<1>4. /\ pools' \in [Runs -> Pools \cup {None}]
      /\ \A v \in Runs : v # u => pools'[v] = pools[v]
      /\ pools'[u] = IF pools[u] = None THEN r ELSE pools[u]
  BY <1>1, <1>3 DEF Inv, DataTyped, Inserted, Pools
<1> HIDE DEF u
<1>5. \A q \in Requests :
        /\ at'[q] = IF q = r THEN "acquire" ELSE at[q]
        /\ mine'[q] = IF q = r THEN pools'[u] ELSE mine[q]
  BY <1>1 DEF Inv, DataTyped
<1>6. r \notin closed /\ \A q \in Requests : mine[q] # r
  BY <1>3 DEF Inv, PoolsNamed
<1>7. \A v \in Runs : pools[v] # r
  BY <1>3 DEF Inv, PoolsNamed
<1>8. r # None /\ r # BootPool
  BY DataAssumption
<1>9. \A q \in Requests : Past(q) => Past(q)'
  BY <1>1, <1>5 DEF Past
<1>10. Past(r)'
  BY <1>5 DEF Past
<1>11. DataTyped'
  <2>1. closed' \subseteq Pools
    BY <1>1 DEF Inv, DataTyped, Pools
  <2>2. mine' \in [Requests -> Pools \cup {None}] /\ at' \in [Requests -> Places]
    BY <1>1, <1>3, <1>4 DEF Inv, DataTyped, Places
  <2>3. QED
    BY <1>1, <1>2, <1>4, <2>1, <2>2 DEF Inv, DataTyped
<1>12. Working'
  BY <1>1, <1>2, <1>3, <1>5 DEF Inv, Working, u
<1>13. PoolsNamed'
  <2>1. \A v \in Runs : \A q \in Requests : pools'[v] = q => Past(q)' /\ RunOf(q)' = v
    BY <1>2, <1>4, <1>9, <1>10 DEF Inv, PoolsNamed, u
  <2>2. \A v \in Runs : pools'[v] = BootPool => v = DefaultRun
    BY <1>4, <1>8 DEF Inv, PoolsNamed
  <2>3. \A q, p \in Requests : mine'[q] = p => Past(p)'
    BY <1>3, <1>5, <1>9, <2>1 DEF Inv, PoolsNamed
  <2>4. \A q \in Requests : q \in closed' => Past(q)'
    BY <1>1, <1>9, <1>10 DEF Inv, PoolsNamed
  <2>5. QED
    BY <2>1, <2>2, <2>3, <2>4 DEF PoolsNamed
<1>14. OneOpen'
  <2>1. \A v \in Runs : pools'[v] \notin closed'
    BY <1>1, <1>3, <1>4, <1>6, <1>7, <1>8 DEF Inv, OneOpen
  <2>2. ASSUME NEW q \in Requests, mine'[q] # None, mine'[q] \notin closed'
        PROVE  mine'[q] = pools'[RunOf(q)]
    <3>1. CASE q = r
      BY <1>5, <3>1 DEF u
    <3>2. CASE q # r
      <4>1. mine[q] # None /\ mine[q] \notin closed
        BY <1>1, <1>5, <2>2, <3>2
      <4>2. mine[q] = pools[RunOf(q)] /\ RunOf(q) \in Runs
        BY <4>1 DEF Inv, OneOpen, Working
      <4>3. QED
        BY <1>4, <1>5, <3>2, <4>1, <4>2
    <3>3. QED
      BY <3>1, <3>2
  <2>3. QED
    BY <1>2, <2>1, <2>2 DEF OneOpen
<1>15. Excuses'
  <2>1. \A q \in Requests : mine'[q] \in closed' => q \in excused
    BY <1>1, <1>3, <1>5, <1>6, <1>14 DEF Inv, Excuses, OneOpen
  <2>2. QED
    BY <1>1, <1>2, <1>5, <2>1 DEF Inv, Excuses
<1>16. ServerErrorsAreExplained'
  BY <1>1 DEF Inv, ServerErrorsAreExplained
<1>17. QED
  BY <1>11, <1>12, <1>13, <1>14, <1>15, <1>16 DEF Inv

\* The dropped run's pool leaves the map and closes; whoever has it is excused.
LEMMA RemovePoolKeeps == ASSUME Inv, NEW r \in Requests, RemovePool(r) PROVE Inv'
<1> DEFINE u == RunOf(r)
<1> DEFINE to == IF pools[u] = None THEN "dropSchema" ELSE "closing"
<1>1. /\ InHandler(r) /\ at[r] = "idle" /\ asks[r].op = "dropRun" /\ u # None
      /\ pools' = [pools EXCEPT ![u] = None]
      /\ closed' = closed \cup ({pools[u]} \ {None})
      /\ mine' = [mine EXCEPT ![r] = pools[u]]
      /\ excused' = excused \cup {q \in OfRun(u) : InHandler(q)}
      /\ at' = [at EXCEPT ![r] = to]
      /\ asks' = asks /\ stage' = stage /\ reply' = reply /\ schema' = schema
  BY DEF RemovePool, Accepted, Start, Goes, layerVars
<1>2. \A q \in Requests : RunOf(q)' = RunOf(q) /\ (InHandler(q)' <=> InHandler(q))
  BY <1>1, RunsStay DEF InHandler
<1>3. u \in Runs /\ to \in {"closing", "dropSchema"}
  BY <1>1 DEF Inv, DataTyped
<1>4. r \in excused'
  BY <1>1 DEF OfRun, InHandler
<1> HIDE DEF u, to
<1>5. /\ pools' \in [Runs -> Pools \cup {None}]
      /\ \A v \in Runs : pools'[v] = IF v = u THEN None ELSE pools[v]
  BY <1>1, <1>3 DEF Inv, DataTyped
<1>6. \A q \in Requests :
        /\ at'[q] = IF q = r THEN to ELSE at[q]
        /\ mine'[q] = IF q = r THEN pools[u] ELSE mine[q]
  BY <1>1 DEF Inv, DataTyped
<1>7. \A q \in Requests : Past(q) => Past(q)'
  BY <1>1, <1>3, <1>6 DEF Past
<1>8. pools[u] \in Pools \cup {None} /\ pools[u] \notin closed
  BY <1>3 DEF Inv, DataTyped, OneOpen
<1>9. \A v \in Runs : v # u /\ pools[v] # None => pools[v] # pools[u]
  BY <1>3 DEF Inv, DataTyped, PoolsNamed, Pools
<1>10. DataTyped'
  <2>1. closed' \subseteq Pools
    BY <1>1, <1>8 DEF Inv, DataTyped
  <2>2. mine' \in [Requests -> Pools \cup {None}] /\ at' \in [Requests -> Places]
    BY <1>1, <1>3, <1>8 DEF Inv, DataTyped, Places
  <2>3. QED
    BY <1>1, <1>2, <1>5, <2>1, <2>2 DEF Inv, DataTyped
<1>11. Working'
  BY <1>1, <1>2, <1>3, <1>6 DEF Inv, Working, u
<1>12. PoolsNamed'
  BY <1>1, <1>2, <1>3, <1>5, <1>6, <1>7, <1>8, NoneIsNoPool DEF Inv, PoolsNamed, Pools
<1>13. OneOpen'
  <2>1. \A v \in Runs : pools'[v] \notin closed'
    BY <1>1, <1>5, <1>9, <1>10, NoneIsNoPool DEF Inv, OneOpen, DataTyped
  <2>2. ASSUME NEW q \in Requests, mine'[q] # None, mine'[q] \notin closed'
        PROVE  mine'[q] = pools'[RunOf(q)]
    <3>1. q # r
      BY <1>1, <1>6, <2>2
    <3>2. mine[q] # None /\ mine[q] \notin closed /\ mine[q] # pools[u]
      BY <1>1, <1>6, <2>2, <3>1
    <3>3. mine[q] = pools[RunOf(q)] /\ RunOf(q) \in Runs
      BY <3>2 DEF Inv, OneOpen, Working
    <3>4. QED
      BY <1>5, <1>6, <3>1, <3>2, <3>3
  <2>3. QED
    BY <1>2, <2>1, <2>2 DEF OneOpen
<1>14. Excuses'
  <2>1. ASSUME NEW q \in Requests, mine'[q] \in closed'
        PROVE  q \in excused'
    <3>1. mine'[q] # None
      BY <1>10, <2>1, NoneIsNoPool DEF DataTyped
    <3>2. CASE q = r
      BY <1>4, <3>2
    <3>3. CASE q # r /\ mine[q] \in closed
      BY <1>1, <3>3 DEF Inv, Excuses
    <3>4. CASE q # r /\ mine[q] \notin closed
      <4>1. mine[q] = pools[u] /\ mine[q] # None
        BY <1>1, <1>6, <2>1, <3>1, <3>4
      <4>2. mine[q] = pools[RunOf(q)] /\ RunOf(q) \in Runs /\ InHandler(q)
        BY <3>4, <4>1 DEF Inv, OneOpen, Working
      <4>3. RunOf(q) = u
        BY <1>9, <4>1, <4>2
      <4>4. QED
        BY <1>1, <4>2, <4>3 DEF OfRun, InHandler
    <3>5. QED
      BY <3>2, <3>3, <3>4
  <2>2. QED
    BY <1>1, <1>2, <1>4, <1>6, <2>1 DEF Inv, Excuses
<1>15. ServerErrorsAreExplained'
  BY <1>1 DEF Inv, ServerErrorsAreExplained
<1>16. QED
  BY <1>10, <1>11, <1>12, <1>13, <1>14, <1>15 DEF Inv

-----------------------------------------------------------------------------
(* Every step.                                                             *)

LEMMA InitInv == Init => Inv
<1> SUFFICES ASSUME Init PROVE Inv
  OBVIOUS
<1>1. PICK s \in Scenes : asks = s.asks
  BY DEF Init, LayerInit
<1>2. /\ stage = [r \in Requests |-> "idle"] /\ reply = [r \in Requests |-> NoReply]
      /\ at = [r \in Requests |-> "idle"] /\ mine = [r \in Requests |-> None]
      /\ closed = {}
      /\ schema = [u \in Runs |-> IF u = DefaultRun /\ boot = "ready" THEN "ready" ELSE "none"]
      /\ pools = [u \in Runs |-> IF u = DefaultRun /\ boot = "ready" THEN BootPool ELSE None]
  BY DEF Init, LayerInit, DataInit
<1>3. DataTyped
  <2>1. \A r \in Requests : RunOf(r) \in Runs \cup {None}
    BY <1>1, DataAssumption DEF RunOf
  <2>2. \A r \in Requests : DOMAIN reply[r] = {"status", "body"}
    BY <1>2 DEF NoReply
  <2>3. QED
    BY <1>2, <2>1, <2>2 DEF DataTyped, Stages, Places, Pools
<1>4. Working /\ OneOpen /\ Excuses
  BY <1>2, DataAssumption DEF Working, OneOpen, Excuses
<1>5. PoolsNamed
  BY <1>2, DataAssumption DEF PoolsNamed
<1>6. ServerErrorsAreExplained
  BY <1>2 DEF ServerErrorsAreExplained, NoReply
<1>7. QED
  BY <1>3, <1>4, <1>5, <1>6 DEF Inv

\* The layer's own steps.
LEMMA LayerKeeps ==
  ASSUME Inv, NEW r \in Requests, LayerStep(r), UNCHANGED dataVars
  PROVE  Inv'
<1>1. DataTyped
  BY DEF Inv
<1>2. CASE Arrive(r)
  <2>1. /\ asks' = asks /\ reply' = reply /\ stage[r] = "idle"
        /\ \/ stage' = [stage EXCEPT ![r] = "handler"]
           \/ stage' = [stage EXCEPT ![r] = "delayed"]
    BY <1>2 DEF Arrive
  <2>2. QED
    BY <1>1, <2>1, OtherSteps DEF DataTyped, Stages, InHandler
<1>3. CASE ShortCircuit(r)
  <2>1. PICK s, b : Respond(r, s, b) /\ b \in {"broken", "fault"} /\ stage[r] = "delayed"
    BY <1>3 DEF ShortCircuit, Awake
  <2>2. /\ asks' = asks /\ stage' = [stage EXCEPT ![r] = "answered"]
        /\ reply' = [reply EXCEPT ![r] = [status |-> s, body |-> b]]
    BY <2>1 DEF Respond
  <2>3. QED
    BY <1>1, <2>1, <2>2, OtherSteps DEF DataTyped, Stages, InHandler
<1>4. CASE EnterHandler(r)
  <2>1. /\ asks' = asks /\ reply' = reply /\ stage[r] = "delayed"
        /\ stage' = [stage EXCEPT ![r] = "handler"]
    BY <1>4 DEF EnterHandler, Awake
  <2>2. QED
    BY <1>1, <2>1, OtherSteps DEF DataTyped, Stages, InHandler
<1>5. CASE Ping(r)
  <2>1. PICK b \in {"cut", "json"} : Respond(r, 200, b)
    BY <1>5 DEF Ping, Handled
  <2>2. /\ asks' = asks /\ stage' = [stage EXCEPT ![r] = "answered"]
        /\ reply' = [reply EXCEPT ![r] = [status |-> 200, body |-> b]]
    BY <2>1 DEF Respond
  <2>3. stage[r] = "handler" /\ asks[r].op \notin DataOps
    BY <1>5 DEF Ping, DataOps, ItemOps, AdminOps
  <2>4. QED
    BY <1>1, <2>2, <2>3, OtherSteps DEF DataTyped, Stages, InHandler
<1>6. QED
  BY <1>2, <1>3, <1>4, <1>5 DEF LayerStep

\* The streams' steps.
LEMMA StreamKeeps ==
  ASSUME Inv, NEW r \in Requests, StreamStep(r), UNCHANGED dataVars
  PROVE  Inv'
<1>1. DataTyped
  BY DEF Inv
<1>2. CASE Complete(r)
  <2>1. PICK b \in {"cut", "json"} : reply' = [reply EXCEPT ![r] = [status |-> 200, body |-> b]]
    BY <1>2 DEF Complete
  <2>2. /\ asks' = asks /\ stage' = [stage EXCEPT ![r] = "answered"]
        /\ stage[r] = "handler" /\ asks[r].op \notin DataOps
    BY <1>2 DEF Complete, DataOps, ItemOps, AdminOps
  <2>3. QED
    BY <1>1, <2>1, <2>2, OtherSteps DEF DataTyped, Stages, InHandler
<1>3. CASE Open(r)
  <2>1. /\ asks' = asks /\ stage[r] = "handler" /\ asks[r].op \notin DataOps
        /\ \/ stage' = [stage EXCEPT ![r] = "buffering"] /\ reply' = reply
           \/ /\ stage' = [stage EXCEPT ![r] = "streaming"]
              /\ reply' = [reply EXCEPT ![r] = [status |-> 200, body |-> "stream"]]
    BY <1>3 DEF Open, Respond, Streamed, StreamOp, DataOps, ItemOps, AdminOps
  <2>2. QED
    BY <1>1, <2>1, OtherSteps DEF DataTyped, Stages, InHandler
<1>4. CASE Write(r)
  <2>1. asks' = asks /\ stage' = stage /\ reply' = reply
    BY <1>4 DEF Write
  <2>2. QED
    BY <1>1, <2>1, OtherSteps DEF DataTyped
<1>5. CASE EndStream(r)
  <2>1. /\ asks' = asks /\ stage[r] \in {"buffering", "streaming"}
        /\ stage' = [stage EXCEPT ![r] = "answered"]
    BY <1>5 DEF EndStream, Reading, Respond
  <2>2. /\ DOMAIN reply' = Requests
        /\ \A q \in Requests : q # r => reply'[q] = reply[q]
        /\ DOMAIN reply'[r] = {"status", "body"}
        /\ reply'[r].status # 500 \/ reply'[r].body \notin {"json", "cut"}
    <3>1. CASE stage[r] = "buffering"
      <4>1. \/ reply' = [reply EXCEPT ![r] = [status |-> 500, body |-> "empty"]]
            \/ reply' = [reply EXCEPT ![r] = [status |-> 200, body |-> "cut"]]
        BY <1>5, <3>1 DEF EndStream, Respond
      <4>2. QED
        BY <1>1, <4>1 DEF DataTyped
    <3>2. CASE stage[r] # "buffering"
      <4>1. \/ reply' = [reply EXCEPT ![r].body = "broken"]
            \/ reply' = [reply EXCEPT ![r].body = "whole"]
        BY <1>5, <3>2 DEF EndStream
      <4>2. QED
        BY <1>1, <4>1 DEF DataTyped
    <3>3. QED
      BY <3>1, <3>2
  <2>3. QED
    BY <1>1, <2>1, <2>2, OtherSteps DEF DataTyped, Stages, InHandler
<1>6. QED
  BY <1>2, <1>3, <1>4, <1>5 DEF StreamStep

\* A data handler's steps.
LEMMA DataKeeps == ASSUME Inv, NEW r \in Requests, DataStep(r) PROVE Inv'
<1>1. RunOf(r) \in Runs \cup {None}
  BY DEF Inv, DataTyped
<1>2. \A u \in Runs : u # None
  BY DataAssumption
<1>3. CASE Reject(r)
  <2>1. PICK s \in {400, 503} : Ends(r, s)
    BY <1>3 DEF Reject
  <2>2. InHandler(r) /\ SchemaKept(r) /\ UNCHANGED <<pools, closed>>
    BY <1>3 DEF Reject, Start, SchemaKept, Inv, DataTyped
  <2>3. QED
    BY <2>1, <2>2, EndKeeps
<1>4. CASE Begin(r)
  <2>1. /\ InHandler(r) /\ RunOf(r) \in Runs /\ Goes(r, "look") /\ at[r] = "idle"
        /\ SchemaKept(r) /\ UNCHANGED <<pools, closed, mine>>
        /\ r \notin excused' => schema'[RunOf(r)] = "ready"
        /\ asks[r].op # "createRun"
    BY <1>1, <1>4 DEF Begin, Accepted, Start, SchemaKept, Inv, DataTyped, ItemOps
  <2>2. ~Past(r)
    BY <2>1 DEF Past, InHandler
  <2>3. QED
    BY <2>1, <2>2, GoKeeps DEF Places
<1>5. CASE CreateSchema(r)
  <2>1. /\ InHandler(r) /\ RunOf(r) \in Runs /\ Goes(r, "look") /\ at[r] = "idle"
        /\ UNCHANGED <<pools, closed, mine>> /\ excused \subseteq excused'
        /\ asks[r].op \notin ItemOps
        /\ DOMAIN schema' = Runs
        /\ \A u \in Runs :
             schema'[u] = IF u = RunOf(r) /\ schema[u] = "none" THEN "bare" ELSE schema[u]
    BY <1>1, <1>5 DEF CreateSchema, Accepted, Start, Inv, DataTyped, ItemOps
  <2>2. SchemaKept(r)
    BY <2>1 DEF SchemaKept, Inv, Working
  <2>3. schema'[RunOf(r)] # "none" /\ ~Past(r)
    BY <2>1 DEF Past, InHandler
  <2>4. QED
    BY <2>1, <2>2, <2>3, GoKeeps DEF Places
<1>6. CASE ListRuns(r)
  <2>1. /\ InHandler(r) /\ SchemaKept(r) /\ UNCHANGED <<pools, closed>> /\ Ends(r, 200)
    BY <1>6 DEF ListRuns, Accepted, Start, SchemaKept, Inv, DataTyped
  <2>2. QED
    BY <2>1, EndKeeps
<1>7. ASSUME NEW to \in Places, InHandler(r), at[r] # "idle", Goes(r, to), to # "idle",
             UNCHANGED <<schema, pools, closed, excused>>,
             \/ mine' = mine
             \/ mine' = [mine EXCEPT ![r] = pools[RunOf(r)]],
             Past(r) => to \in {"acquire", "query", "closing", "dropSchema"}
      PROVE  Inv'
  <2>1. RunOf(r) \in Runs /\ SchemaKept(r)
    BY <1>7 DEF Inv, DataTyped, Working, SchemaKept
  <2>2. r \notin excused' =>
          /\ asks[r].op \in ItemOps => schema'[RunOf(r)] = "ready"
          /\ asks[r].op = "createRun" => schema'[RunOf(r)] # "none"
    BY <1>7 DEF Inv, Excuses
  <2>3. QED
    BY <1>7, <2>1, <2>2, GoKeeps
<1>8. CASE Look(r)
  <2>1. PICK to \in {"connect", "acquire"} : Goes(r, to)
    BY <1>8 DEF Look
  <2>2. ~Past(r)
    BY <1>8 DEF Look, Past, InHandler
  <2>3. QED
    BY <1>7, <1>8, <2>1, <2>2 DEF Look, Places
<1>9. CASE Connect(r)
  <2>1. ~Past(r)
    BY <1>9 DEF Connect, Past, InHandler
  <2>2. QED
    BY <1>7, <1>9, <2>1 DEF Connect, Places
<1>10. CASE Insert(r)
  BY <1>10, InsertKeeps
<1>11. CASE Acquire(r)
  <2>1. CASE mine[r] \in closed
    <3>1. /\ InHandler(r) /\ SchemaKept(r) /\ UNCHANGED <<pools, closed, excused>>
          /\ Ends(r, 500)
      BY <1>11, <2>1 DEF Acquire, SchemaKept, Inv, DataTyped
    <3>2. r \in excused'
      BY <2>1, <3>1 DEF Inv, Excuses
    <3>3. QED
      BY <3>1, <3>2, EndKeeps
  <2>2. CASE mine[r] \notin closed
    BY <1>7, <1>11, <2>2 DEF Acquire, Places
  <2>3. QED
    BY <2>1, <2>2
<1>12. CASE Execute(r)
  <2>1. /\ InHandler(r) /\ SchemaKept(r) /\ UNCHANGED <<schema, pools, closed, excused>>
        /\ Ends(r, ItemStatus(r)) /\ at[r] = "query" /\ asks[r].op \in ItemOps
    BY <1>12 DEF Execute, SchemaKept, Inv, DataTyped
  <2>2. r \notin excused => schema[RunOf(r)] = "ready"
    BY <2>1 DEF Inv, Excuses
  <2>3. ItemStatus(r) = 500 => schema[RunOf(r)] # "ready"
    BY <2>1 DEF ItemStatus
  <2>4. QED
    BY <2>1, <2>2, <2>3, EndKeeps
<1>13. CASE Migrate(r)
  <2>1. /\ InHandler(r) /\ at[r] = "query" /\ asks[r].op = "createRun"
        /\ UNCHANGED <<pools, closed, excused>> /\ DOMAIN schema' = Runs
        /\ \A u \in Runs :
             schema'[u] = IF u = RunOf(r) /\ schema[u] # "none" THEN "ready" ELSE schema[u]
        /\ Ends(r, IF schema[RunOf(r)] = "none" THEN 500 ELSE 200)
    BY <1>13 DEF Migrate, Inv, DataTyped
  <2>2. SchemaKept(r)
    BY <2>1 DEF SchemaKept, Inv, Working
  <2>3. r \notin excused => schema[RunOf(r)] # "none"
    BY <2>1 DEF Inv, Excuses
  <2>4. QED
    BY <2>1, <2>2, <2>3, EndKeeps
<1>14. CASE RemovePool(r)
  BY <1>14, RemovePoolKeeps
<1>15. CASE PoolClosed(r)
  BY <1>7, <1>15 DEF PoolClosed, Places
<1>16. CASE DropSchema(r)
  <2>1. /\ InHandler(r) /\ UNCHANGED <<pools, closed>> /\ Ends(r, 200)
        /\ excused' = excused \cup {q \in OfRun(RunOf(r)) : InHandler(q)}
        /\ DOMAIN schema' = Runs
        /\ \A u \in Runs : u # RunOf(r) => schema'[u] = schema[u]
    BY <1>16 DEF DropSchema, Inv, DataTyped
  <2>2. ASSUME NEW q \in Requests, at[q] # "idle", q \notin excused'
        PROVE  schema'[RunOf(q)] = schema[RunOf(q)]
    <3>1. InHandler(q) /\ RunOf(q) \in Runs
      BY <2>2 DEF Inv, Working
    <3>2. RunOf(q) # RunOf(r)
      BY <2>1, <2>2, <3>1 DEF OfRun, InHandler
    <3>3. QED
      BY <2>1, <3>1, <3>2
  <2>3. SchemaKept(r)
    BY <2>1, <2>2 DEF SchemaKept
  <2>4. QED
    BY <2>1, <2>3, EndKeeps
<1>17. QED
  BY <1>3, <1>4, <1>5, <1>6, <1>8, <1>9, <1>10, <1>11, <1>12, <1>13, <1>14, <1>15, <1>16
     DEF DataStep

LEMMA RefusedKeeps == ASSUME Inv, NEW r \in Requests, Refused(r) PROVE Inv'
<1>1. /\ InHandler(r) /\ SchemaKept(r) /\ UNCHANGED <<pools, closed>>
      /\ Ends(r, 500) /\ r \in excused'
  BY DEF Refused, SchemaKept, Inv, DataTyped
<1>2. QED
  BY <1>1, EndKeeps

LEMMA NextInv == Inv /\ [Next]_vars => Inv'
<1> SUFFICES ASSUME Inv, [Next]_vars PROVE Inv'
  OBVIOUS
<1>1. DataTyped
  BY DEF Inv
<1>2. ASSUME NEW r \in Requests, Serve(r) PROVE Inv'
  BY <1>2, LayerKeeps, DataKeeps, StreamKeeps DEF Serve
<1>3. ASSUME NEW r \in Requests, Leave(r) PROVE Inv'
  BY <1>3, LeaveKeeps
<1>4. ASSUME NEW r \in Requests, Refused(r) PROVE Inv'
  BY <1>4, RefusedKeeps
<1>5. ASSUME UNCHANGED <<asks, stage, reply, dataVars>> PROVE Inv'
  BY <1>1, <1>5, OtherSteps DEF DataTyped
<1>6. CASE (SetFaults \/ Time) /\ UNCHANGED <<dataVars, streamVars>>
  BY <1>5, <1>6 DEF SetFaults, Time, Tick
<1>7. CASE ClockStep /\ UNCHANGED dataVars
  BY <1>5, <1>7 DEF ClockStep, Advance, Freeze, Resume, ResetClock, layerVars
<1>8. CASE UNCHANGED vars
  BY <1>5, <1>8 DEF vars, layerVars
<1>9. QED
  BY <1>2, <1>3, <1>4, <1>6, <1>7, <1>8 DEF Next

-----------------------------------------------------------------------------
(* The theorems.                                                           *)

\* Where every data handler stands, which pools there are and who has them.
THEOREM HttpPlaneInv == Spec => []Inv
<1>1. Init => Inv
  BY InitInv
<1>2. Inv /\ [Next]_vars => Inv'
  BY NextInv
<1>3. QED
  BY <1>1, <1>2, PTL DEF Spec

\* However creations, drops, item requests and departing clients of a run interleave,
\* DataPlane::pool and remove never leave the run with two open pools, or with a closed
\* one in the map.
THEOREM HttpPlaneOnePoolPerRun == Spec => []OnePoolPerRun
<1>1. Inv => OnePoolPerRun
  <2> SUFFICES ASSUME Inv, NEW u \in Runs
               PROVE  Cardinality(Handles(u)) <= 1 /\ pools[u] \notin closed
    BY DEF OnePoolPerRun
  <2>1. \A p \in Handles(u) : p = pools[u]
    BY DEF Inv, OneOpen, Handles, OfRun
  <2>2. Handles(u) = {} \/ Handles(u) = {pools[u]}
    BY <2>1
  <2>3. Cardinality(Handles(u)) \in {0, 1}
    BY <2>2, FS_EmptySet, FS_Singleton
  <2>4. QED
    BY <2>3 DEF Inv, OneOpen
<1>2. QED
  BY <1>1, HttpPlaneInv, PTL

\* A 500 of a data handler always has a cause in its own run or in Postgres.
THEOREM HttpPlaneServerErrorsAreExplained == Spec => []ServerErrorsAreExplained
<1>1. Inv => ServerErrorsAreExplained
  BY DEF Inv
<1>2. QED
  BY <1>1, HttpPlaneInv, PTL


-----------------------------------------------------------------------------
(* What the bus says of the requests.  The bodies' chunks may be anything,  *)
(* so a sequence is typed by its own elements (IsSeq).                      *)

LEMMA SeqIsSeq == ASSUME NEW S, NEW s \in Seq(S) PROVE IsSeq(s)
<1>1. Len(s) \in Nat /\ s = [i \in 1 .. Len(s) |-> s[i]]
  OBVIOUS
<1>2. s \in [1 .. Len(s) -> {s[i] : i \in 1 .. Len(s)}]
  BY <1>1
<1>3. QED
  BY <1>1, <1>2, SeqDef DEF IsSeq

LEMMA SeqLen == ASSUME NEW s, IsSeq(s) PROVE Len(s) \in Nat /\ (Len(s) = 0 <=> s = <<>>)
<1>1. QED
  BY DEF IsSeq

LEMMA SeqAppend ==
  ASSUME NEW s, NEW x, IsSeq(s)
  PROVE  /\ IsSeq(Append(s, x))
         /\ Len(Append(s, x)) = Len(s) + 1
         /\ \A i \in 1 .. Len(s) : Append(s, x)[i] = s[i]
         /\ Append(s, x)[Len(s) + 1] = x
<1> DEFINE T == {s[i] : i \in 1 .. Len(s)} \cup {x}
<1>1. s \in Seq(T) /\ x \in T
  <2>1. s \in Seq({s[i] : i \in 1 .. Len(s)})
    BY DEF IsSeq
  <2>2. QED
    BY <2>1, SeqMonotonic
<1> HIDE DEF T
<1>2. /\ Append(s, x) \in Seq(T)
      /\ Len(Append(s, x)) = Len(s) + 1
      /\ \A i \in 1 .. Len(s) : Append(s, x)[i] = s[i]
      /\ Append(s, x)[Len(s) + 1] = x
  BY <1>1
<1>3. QED
  BY <1>2, SeqIsSeq

LEMMA SeqOne == ASSUME NEW x PROVE IsSeq(<<x>>) /\ Len(<<x>>) = 1 /\ <<x>>[1] = x
<1>1. <<x>> \in Seq({x})
  OBVIOUS
<1>2. QED
  BY <1>1, SeqIsSeq

LEMMA SeqNil == IsSeq(<<>>) /\ Len(<<>>) = 0
<1>1. <<>> \in Seq({})
  OBVIOUS
<1>2. QED
  BY <1>1, SeqIsSeq

\* A concatenation to an empty log is two appends.
LEMMA SeqTwo ==
  ASSUME NEW s, NEW x, NEW y, s = <<>>
  PROVE  /\ IsSeq(s \o <<x, y>>) /\ Len(s \o <<x, y>>) = 2
         /\ (s \o <<x, y>>)[1] = x /\ (s \o <<x, y>>)[2] = y
<1>1. <<x, y>> \in Seq({x, y}) /\ s \in Seq({x, y})
  OBVIOUS
<1>2. s \o <<x, y>> = <<x, y>>
  BY <1>1, ConcatEmptySeq
<1>3. IsSeq(<<x, y>>)
  BY <1>1, SeqIsSeq
<1>4. Len(<<x, y>>) = 2 /\ <<x, y>>[1] = x /\ <<x, y>>[2] = y
  OBVIOUS
<1>5. QED
  BY <1>2, <1>3, <1>4

-----------------------------------------------------------------------------
(* The inductive invariant.                                                *)

\* The event precedes the chunks, or the layer's answer follows them.
Lead(r) == reply[r].body \in {"stream", "broken", "whole"}

IsChunk(e, n) == e.kind = "chunk" /\ e.seq = n
IsAnswer(e, status, faults) == e.kind = "http" /\ e.status = status /\ e.faults = faults

\* A request's log: a chunk event for each chunk sent, and the answer before or after.
LogRight(r) ==
  LET m == Len(sent[r])
  IN  /\ reply[r].status = None =>
           Len(log[r]) = m /\ \A i \in 1 .. m : IsChunk(log[r][i], i - 1)
      /\ reply[r].status # None /\ ~Guarded(r) => log[r] = <<>>
      /\ reply[r].status # None /\ Guarded(r) /\ Lead(r) =>
           /\ Len(log[r]) = m + 1 /\ IsAnswer(log[r][1], reply[r].status, effects[r].names)
           /\ \A i \in 1 .. m : IsChunk(log[r][i + 1], i - 1)
      /\ reply[r].status # None /\ Guarded(r) /\ ~Lead(r) =>
           /\ Len(log[r]) = m + 1 /\ IsAnswer(log[r][m + 1], reply[r].status, effects[r].names)
           /\ \A i \in 1 .. m : IsChunk(log[r][i], i - 1)

\* What a request has been told, by the stage it is in.
StageRight(r) ==
  /\ stage[r] \in {"idle", "delayed", "handler"} =>
       log[r] = <<>> /\ sent[r] = <<>> /\ reply[r].status = None
  /\ stage[r] = "buffering" => reply[r].status = None /\ Streamed(r)
  /\ stage[r] = "streaming" => reply[r].status # None /\ reply[r].body = "stream" /\ Streamed(r)
  /\ ~StreamOp(r) => sent[r] = <<>>
  /\ reply[r].status = None => reply[r].body = "none"

\* How far a stream got, against what it was told.
StreamRight(r) ==
  /\ Reading(r) =>
       /\ asks[r].failAt # None => Len(sent[r]) <= asks[r].failAt
       /\ asks[r].op = "scripted" => Len(sent[r]) <= asks[r].chunks
  /\ reply[r].body = "whole" =>
       /\ asks[r].failAt # None => asks[r].failAt >= Len(sent[r])
       /\ asks[r].op = "scripted" => Len(sent[r]) = asks[r].chunks
  /\ sent[r] # <<>> /\ reply[r].body \in {"broken", "empty"} =>
       asks[r].failAt # None /\ Len(sent[r]) = asks[r].failAt

Counts(r) == /\ StreamOp(r) => asks[r].failAt \in Nat \cup {None}
             /\ asks[r].op = "scripted" => asks[r].chunks \in Nat

Tells(r) == /\ IsSeq(log[r]) /\ IsSeq(sent[r])
            /\ LogRight(r) /\ StageRight(r)
            /\ StreamOp(r) => StreamRight(r)

Domains == DOMAIN log = Requests /\ DOMAIN sent = Requests /\ DOMAIN effects = Requests

TellInv == Domains /\ \A r \in Requests : Counts(r) /\ Tells(r)

Same(q) == /\ stage'[q] = stage[q] /\ reply'[q] = reply[q] /\ log'[q] = log[q]
           /\ sent'[q] = sent[q] /\ effects'[q] = effects[q]

LEMMA SameTells == ASSUME NEW q, asks' = asks, Same(q), Tells(q) PROVE Tells(q)'
<1>1. /\ Guarded(q)' = Guarded(q) /\ StreamOp(q)' = StreamOp(q) /\ Streamed(q)' = Streamed(q)
  BY DEF Guarded, StreamOp, Streamed
<1>2. LogRight(q)' = LogRight(q)
  BY <1>1 DEF Same, LogRight, Lead, IsChunk, IsAnswer
<1>3. StageRight(q)' = StageRight(q)
  BY <1>1 DEF Same, StageRight
<1>4. StreamRight(q)' = StreamRight(q)
  BY DEF Same, StreamRight, Reading
<1>5. QED
  BY <1>1, <1>2, <1>3, <1>4 DEF Tells, Same

\* A step of one request is seen in what is told of that one.
LEMMA OneTells ==
  ASSUME TellInv, NEW r \in Requests, asks' = asks, Domains',
         \A q \in Requests : q # r => Same(q),
         Tells(r)'
  PROVE  TellInv'
<1>1. \A q \in Requests : Counts(q)'
  BY DEF TellInv, Counts, StreamOp
<1>2. \A q \in Requests : q # r => Tells(q)'
  BY SameTells DEF TellInv
<1>3. QED
  BY <1>1, <1>2 DEF TellInv

LEMMA NoneTells ==
  ASSUME TellInv, asks' = asks, Domains', \A q \in Requests : Same(q)
  PROVE  TellInv'
<1>1. \A q \in Requests : Counts(q)'
  BY DEF TellInv, Counts, StreamOp
<1>2. \A q \in Requests : Tells(q)'
  BY SameTells DEF TellInv
<1>3. QED
  BY <1>1, <1>2 DEF TellInv

\* A request moves on without an answer: it has been told what it had.
LEMMA MoveTells ==
  ASSUME TellInv, DataTyped, NEW r \in Requests, asks' = asks,
         NEW to, stage' = [stage EXCEPT ![r] = to],
         UNCHANGED <<reply, log, sent>>, DOMAIN effects' = Requests,
         \A q \in Requests : q # r => effects'[q] = effects[q],
         effects'[r] = effects[r] \/ stage[r] = "idle",
         \/ to = "gone"
         \/ to \in {"delayed", "handler"} /\ stage[r] \in {"idle", "delayed"}
         \/ to = "buffering" /\ stage[r] = "handler" /\ Streamed(r)
  PROVE  TellInv'
<1>1. /\ Guarded(r)' = Guarded(r) /\ StreamOp(r)' = StreamOp(r) /\ Streamed(r)' = Streamed(r)
  BY DEF Guarded, StreamOp, Streamed
<1>2. Domains' /\ \A q \in Requests : q # r => Same(q)
  BY DEF Domains, Same, TellInv, DataTyped
<1>3. stage'[r] = to
  BY DEF DataTyped
<1>4. Counts(r) /\ IsSeq(log[r]) /\ IsSeq(sent[r]) /\ LogRight(r) /\ StageRight(r)
      /\ (StreamOp(r) => StreamRight(r))
  BY DEF TellInv, Tells
<1>5. stage[r] = "idle" => reply[r].status = None
  BY <1>4 DEF StageRight
<1>6. LogRight(r)'
  <2>1. CASE effects'[r] = effects[r]
    BY <1>1, <1>4, <2>1 DEF LogRight, Lead, IsChunk, IsAnswer
  <2>2. CASE reply[r].status = None
    BY <1>4, <2>2 DEF LogRight, IsChunk
  <2>3. QED
    BY <1>5, <2>1, <2>2
<1>7. StageRight(r)'
  BY <1>1, <1>3, <1>4 DEF StageRight
<1>8. StreamOp(r) => StreamRight(r)'
  <2>1. to = "buffering" => Len(sent[r]) = 0
    BY <1>4, SeqLen DEF StageRight
  <2>2. QED
    BY <1>3, <1>4, <2>1 DEF StreamRight, Reading, Counts
<1>9. Tells(r)'
  BY <1>1, <1>4, <1>6, <1>7, <1>8 DEF Tells
<1>10. QED
  BY <1>2, <1>9, OneTells

\* The layer puts the answer on the bus and gives it.
LEMMA RespondTells ==
  ASSUME TellInv, DataTyped, NEW r \in Requests, NEW s, NEW b, Respond(r, s, b),
         s # None, sent' = sent, stage[r] \in {"delayed", "handler", "buffering"},
         b # "whole",
         b = "stream" => Streamed(r),
         b \in {"stream", "broken"} => sent[r] = <<>>,
         b = "empty" => sent[r] = <<>>
                        \/ (asks[r].failAt # None /\ Len(sent[r]) = asks[r].failAt)
  PROVE  TellInv'
<1> DEFINE e == [kind |-> "http", status |-> s, latency |-> wall - since[r],
                 faults |-> effects[r].names]
<1> DEFINE m == Len(sent[r])
<1>1. /\ asks' = asks /\ effects' = effects
      /\ reply' = [reply EXCEPT ![r] = [status |-> s, body |-> b]]
      /\ stage' = [stage EXCEPT ![r] = IF b = "stream" THEN "streaming" ELSE "answered"]
      /\ log' = IF ~Guarded(r) THEN log ELSE [log EXCEPT ![r] = Append(@, e)]
  BY DEF Respond
<1>2. /\ Guarded(r)' = Guarded(r) /\ StreamOp(r)' = StreamOp(r) /\ Streamed(r)' = Streamed(r)
  BY <1>1 DEF Guarded, StreamOp, Streamed
<1>3. e.kind = "http" /\ e.status = s /\ e.faults = effects[r].names
  OBVIOUS
<1> HIDE DEF e
<1>4. Domains
  BY DEF TellInv
<1>5. Domains' /\ \A q \in Requests : q # r => Same(q)
  BY <1>1, <1>4 DEF Domains, Same, DataTyped
<1>6. /\ reply'[r].status = s /\ reply'[r].body = b
      /\ stage'[r] = (IF b = "stream" THEN "streaming" ELSE "answered")
      /\ log'[r] = IF Guarded(r) THEN Append(log[r], e) ELSE log[r]
      /\ sent'[r] = sent[r] /\ effects'[r] = effects[r]
  BY <1>1, <1>4 DEF DataTyped, Domains
<1>7. /\ Counts(r) /\ IsSeq(log[r]) /\ IsSeq(sent[r]) /\ LogRight(r) /\ StageRight(r)
      /\ StreamOp(r) => StreamRight(r)
  BY DEF TellInv, Tells
<1>8. /\ reply[r].status = None
      /\ ~StreamOp(r) => sent[r] = <<>>
  BY <1>7 DEF StageRight
<1>9. m \in Nat /\ (m = 0 <=> sent[r] = <<>>)
  BY <1>7, SeqLen
<1>10. /\ Len(log[r]) = m /\ \A i \in 1 .. m : IsChunk(log[r][i], i - 1)
  BY <1>7, <1>8 DEF LogRight
<1>11. ~Guarded(r) => log[r] = <<>>
  <2>1. ~Guarded(r) => ~StreamOp(r)
    BY DEF Guarded, AdminOps, StreamOp
  <2>2. QED
    BY <2>1, <1>7, <1>8, <1>9, <1>10, SeqLen
<1>12. IsSeq(log'[r])
  BY <1>6, <1>7, SeqAppend
<1>13. LogRight(r)'
  <2>1. reply'[r].status # None /\ sent'[r] = sent[r]
    BY <1>6
  <2>2. ~Guarded(r) => log'[r] = <<>>
    BY <1>6, <1>11
  <2>3. ASSUME Guarded(r)
        PROVE  /\ Len(log'[r]) = m + 1 /\ IsAnswer(log'[r][m + 1], s, effects[r].names)
               /\ \A i \in 1 .. m : IsChunk(log'[r][i], i - 1)
    <3>1. /\ Len(log'[r]) = m + 1 /\ log'[r][m + 1] = e
          /\ \A i \in 1 .. m : log'[r][i] = log[r][i]
      BY <1>6, <1>7, <1>10, <2>3, SeqAppend
    <3>2. QED
      BY <1>3, <1>6, <1>10, <3>1 DEF IsAnswer
  <2>4. Lead(r)' => m = 0
    BY <1>6, <1>9 DEF Lead
  <2> HIDE DEF m
  <2>5. ASSUME Guarded(r), Lead(r)'
        PROVE  /\ Len(log'[r]) = m + 1 /\ IsAnswer(log'[r][1], s, effects[r].names)
               /\ \A i \in 1 .. m : IsChunk(log'[r][i + 1], i - 1)
    <3>1. m = 0 /\ m + 1 = 1
      BY <2>4, <2>5
    <3>2. QED
      BY <2>3, <2>5, <3>1
  <2> USE DEF m
  <2>6. QED
    BY <1>2, <1>6, <2>1, <2>2, <2>3, <2>5 DEF LogRight
<1>14. StageRight(r)'
  BY <1>2, <1>6, <1>8 DEF StageRight
<1>15. StreamOp(r) => StreamRight(r)'
  <2>1. b = "stream" => Len(sent[r]) = 0
    BY <1>9
  <2>2. QED
    BY <1>1, <1>6, <1>7, <2>1 DEF StreamRight, Reading, Counts
<1>16. Tells(r)'
  BY <1>2, <1>6, <1>7, <1>12, <1>13, <1>14, <1>15 DEF Tells
<1>17. QED
  BY <1>1, <1>5, <1>16, OneTells

\* What holds of a request that has not been answered, and of a handler's.
LEMMA Untold ==
  ASSUME TellInv, NEW r \in Requests, stage[r] \in {"idle", "delayed", "handler"}
  PROVE  log[r] = <<>> /\ sent[r] = <<>> /\ reply[r].status = None
<1>1. QED
  BY DEF TellInv, Tells, StageRight

\* A completion in one piece: a chunk, then the answer.
LEMMA CompleteTells ==
  ASSUME TellInv, DataTyped, NEW r \in Requests, Complete(r)
  PROVE  TellInv'
<1> DEFINE e == [kind |-> "http", status |-> 200, latency |-> wall - since[r],
                 faults |-> effects[r].names]
<1> DEFINE c == [kind |-> "chunk", seq |-> 0]
<1> DEFINE x == Chunk("token", ReplyText(asks[r]))
<1> DEFINE b == IF effects[r].truncate THEN "cut" ELSE "json"
<1>1. /\ asks' = asks /\ effects' = effects /\ stage[r] = "handler" /\ asks[r].op = "chat"
      /\ reply' = [reply EXCEPT ![r] = [status |-> 200, body |-> b]]
      /\ stage' = [stage EXCEPT ![r] = "answered"]
      /\ sent' = [sent EXCEPT ![r] = <<x>>]
      /\ log' = [log EXCEPT ![r] = @ \o <<c, e>>]
  BY DEF Complete
<1>2. /\ Guarded(r)' /\ StreamOp(r)'
  BY <1>1 DEF Guarded, StreamOp, AdminOps
<1>3. IsAnswer(e, 200, effects[r].names) /\ IsChunk(c, 0) /\ b \in {"cut", "json"}
  BY DEF IsAnswer, IsChunk
<1> HIDE DEF e, c, x, b
<1>4. Domains
  BY DEF TellInv
<1>5. Domains' /\ \A q \in Requests : q # r => Same(q)
  BY <1>1, <1>4 DEF Domains, Same, DataTyped
<1>6. /\ reply'[r].status = 200 /\ reply'[r].body = b
      /\ stage'[r] = "answered"
      /\ log'[r] = log[r] \o <<c, e>>
      /\ sent'[r] = <<x>> /\ effects'[r] = effects[r]
  BY <1>1, <1>4 DEF DataTyped, Domains
<1>7. 200 # None
  BY LayerAssumption
<1>8. IsSeq(sent'[r]) /\ Len(sent'[r]) = 1
  BY <1>6, SeqOne
<1>9. /\ IsSeq(log'[r]) /\ Len(log'[r]) = 2 /\ log'[r][1] = c /\ log'[r][2] = e
  BY <1>1, <1>6, Untold, SeqTwo
<1>10. LogRight(r)'
  <2>1. Len(log'[r]) = Len(sent'[r]) + 1 /\ log'[r][Len(sent'[r]) + 1] = e
    BY <1>8, <1>9
  <2>2. \A i \in 1 .. Len(sent'[r]) : IsChunk(log'[r][i], i - 1)
    BY <1>3, <1>8, <1>9
  <2>3. ~Lead(r)'
    BY <1>3, <1>6 DEF Lead
  <2>4. QED
    BY <1>2, <1>3, <1>6, <1>7, <2>1, <2>2, <2>3 DEF LogRight
<1>11. StageRight(r)'
  BY <1>2, <1>6, <1>7 DEF StageRight
<1>12. StreamRight(r)'
  BY <1>3, <1>6 DEF StreamRight, Reading
<1>13. Tells(r)'
  BY <1>8, <1>9, <1>10, <1>11, <1>12 DEF Tells
<1>14. QED
  BY <1>1, <1>5, <1>13, OneTells

\* A chunk goes out, and onto the bus.
LEMMA WriteTells ==
  ASSUME TellInv, DataTyped, NEW r \in Requests, Write(r)
  PROVE  TellInv'
<1> DEFINE m == Len(sent[r])
<1> DEFINE c == [kind |-> "chunk", seq |-> m]
<1> DEFINE x == Pieces(asks[r])[m + 1]
<1>1. /\ asks' = asks /\ effects' = effects /\ stage' = stage /\ reply' = reply
      /\ Reading(r) /\ More(r) /\ ~FailsHere(r)
      /\ sent' = [sent EXCEPT ![r] = Append(@, x)]
      /\ log' = [log EXCEPT ![r] = Append(@, c)]
  BY DEF Write, Seq0
<1>2. /\ Guarded(r)' = Guarded(r) /\ StreamOp(r)' = StreamOp(r) /\ Streamed(r)' = Streamed(r)
  BY <1>1 DEF Guarded, StreamOp, Streamed
<1>3. IsChunk(c, m)
  BY DEF IsChunk
<1> HIDE DEF c, x
<1>4. Domains
  BY DEF TellInv
<1>5. Domains' /\ \A q \in Requests : q # r => Same(q)
  BY <1>1, <1>4 DEF Domains, Same, DataTyped
<1>6. /\ reply'[r] = reply[r] /\ stage'[r] = stage[r]
      /\ log'[r] = Append(log[r], c)
      /\ sent'[r] = Append(sent[r], x) /\ effects'[r] = effects[r]
  BY <1>1, <1>4 DEF DataTyped, Domains
<1>7. /\ Counts(r) /\ IsSeq(log[r]) /\ IsSeq(sent[r]) /\ LogRight(r) /\ StageRight(r)
      /\ StreamOp(r) => StreamRight(r)
  BY DEF TellInv, Tells
<1>8. /\ Streamed(r) /\ StreamOp(r) /\ Guarded(r)
      /\ reply[r].body \in {"none", "stream"}
      /\ reply[r].status = None <=> reply[r].body = "none"
  <2>1. Streamed(r)
    BY <1>1, <1>7 DEF StageRight, Reading
  <2>2. StreamOp(r) /\ Guarded(r)
    BY <2>1 DEF Streamed, StreamOp, Guarded, AdminOps
  <2>3. QED
    BY <1>1, <1>7, <2>1, <2>2 DEF StageRight, Reading
<1>9. m \in Nat
  BY <1>7, SeqLen
<1>10. IsSeq(sent'[r]) /\ Len(sent'[r]) = m + 1
  BY <1>6, <1>7, SeqAppend
<1>11. /\ IsSeq(log'[r]) /\ Len(log'[r]) = Len(log[r]) + 1
       /\ \A i \in 1 .. Len(log[r]) : log'[r][i] = log[r][i]
       /\ log'[r][Len(log[r]) + 1] = c
  BY <1>6, <1>7, SeqAppend
<1>12. LogRight(r)'
  <2> HIDE DEF m
  <2>1. CASE reply[r].status = None
    <3>1. Len(log[r]) = m /\ \A i \in 1 .. m : IsChunk(log[r][i], i - 1)
      BY <1>7, <2>1 DEF LogRight, m
    <3>2. \A i \in 1 .. m + 1 : IsChunk(log'[r][i], i - 1)
      <4> SUFFICES ASSUME NEW i \in 1 .. m + 1 PROVE IsChunk(log'[r][i], i - 1)
        OBVIOUS
      <4>1. i \in 1 .. m \/ (i = m + 1 /\ i - 1 = m)
        BY <1>9
      <4>2. QED
        BY <1>3, <1>11, <3>1, <4>1
    <3>3. Len(log'[r]) = m + 1
      BY <1>11, <3>1
    <3>4. QED
      BY <1>6, <1>10, <2>1, <3>2, <3>3 DEF LogRight
  <2>2. CASE reply[r].status # None
    <3>1. Lead(r) /\ Lead(r)'
      BY <1>6, <1>8, <2>2 DEF Lead
    <3>2. /\ Len(log[r]) = m + 1 /\ IsAnswer(log[r][1], reply[r].status, effects[r].names)
          /\ \A i \in 1 .. m : IsChunk(log[r][i + 1], i - 1)
      BY <1>7, <1>8, <2>2, <3>1 DEF LogRight, m
    <3>3. \A i \in 1 .. m + 1 : IsChunk(log'[r][i + 1], i - 1)
      <4> SUFFICES ASSUME NEW i \in 1 .. m + 1 PROVE IsChunk(log'[r][i + 1], i - 1)
        OBVIOUS
      <4>1. (i \in 1 .. m /\ i + 1 \in 1 .. Len(log[r]))
            \/ (i + 1 = Len(log[r]) + 1 /\ i - 1 = m)
        BY <1>9, <3>2
      <4>2. QED
        BY <1>3, <1>11, <3>2, <4>1
    <3>4. log'[r][1] = log[r][1]
      BY <1>9, <1>11, <3>2
    <3>5. Len(log'[r]) = m + 1 + 1
      BY <1>11, <3>2
    <3>6. QED
      BY <1>2, <1>6, <1>8, <1>10, <2>2, <3>1, <3>2, <3>3, <3>4, <3>5 DEF LogRight
  <2>3. QED
    BY <2>1, <2>2
<1>13. StageRight(r)'
  BY <1>1, <1>2, <1>6, <1>7, <1>8 DEF StageRight, Reading
<1>14. StreamRight(r)'
  <2>1. asks[r].failAt # None => asks[r].failAt \in Nat /\ m + 1 <= asks[r].failAt
    BY <1>1, <1>7, <1>8, <1>9 DEF FailsHere, Seq0, Counts
  <2>2. asks[r].op = "scripted" => m + 1 <= asks[r].chunks
    <3>1. ASSUME asks[r].op = "scripted" PROVE Len(Pieces(asks[r])) = asks[r].chunks
      <4>1. asks[r].chunks \in Nat
        BY <1>7, <3>1 DEF Counts
      <4>2. Pieces(asks[r]) = [i \in 1 .. asks[r].chunks |-> Chunk("scripted", <<>>)]
        BY <3>1 DEF Pieces
      <4>3. QED
        BY <4>1, <4>2
    <3>2. QED
      BY <1>1, <1>7, <1>9, <3>1 DEF More, Seq0, Counts
  <2>3. QED
    BY <1>1, <1>6, <1>8, <1>10, <2>1, <2>2 DEF StreamRight
<1>15. Tells(r)'
  BY <1>2, <1>10, <1>11, <1>12, <1>13, <1>14 DEF Tells
<1>16. QED
  BY <1>1, <1>5, <1>15, OneTells

LEMMA OpenTells ==
  ASSUME TellInv, DataTyped, NEW r \in Requests, Open(r)
  PROVE  TellInv'
<1>1. /\ stage[r] = "handler" /\ Streamed(r) /\ sent' = sent
      /\ \/ Respond(r, 200, "stream")
         \/ /\ stage' = [stage EXCEPT ![r] = "buffering"]
            /\ UNCHANGED <<asks, reply, log, effects>>
  BY DEF Open
<1>2. 200 # None /\ sent[r] = <<>> /\ reply[r].status = None /\ DOMAIN effects = Requests
  BY <1>1, Untold, LayerAssumption DEF TellInv, Domains
<1>3. QED
  BY <1>1, <1>2, RespondTells, MoveTells

\* A stream ends with its last chunk, or breaks where it was told to.
LEMMA EndStreamTells ==
  ASSUME TellInv, DataTyped, NEW r \in Requests, EndStream(r)
  PROVE  TellInv'
<1> DEFINE m == Len(sent[r])
<1>1. /\ Reading(r) /\ (~More(r) \/ FailsHere(r)) /\ sent' = sent
  BY DEF EndStream, streamVars
<1>2. /\ Counts(r) /\ IsSeq(log[r]) /\ IsSeq(sent[r]) /\ LogRight(r) /\ StageRight(r)
      /\ StreamOp(r) => StreamRight(r)
  BY DEF TellInv, Tells
<1>3. Streamed(r) /\ StreamOp(r) /\ StreamRight(r) /\ m \in Nat
  BY <1>1, <1>2, SeqLen DEF StageRight, Reading, Streamed
<1>4. FailsHere(r) => asks[r].failAt # None /\ m = asks[r].failAt
  BY <1>1, <1>2, <1>3 DEF FailsHere, Seq0, StreamRight, Counts
<1>5. CASE stage[r] = "buffering"
  <2>1. reply[r].status = None
    BY <1>2, <1>5 DEF StageRight
  <2>2. \/ Respond(r, 500, "empty") /\ FailsHere(r)
        \/ Respond(r, 200, "cut")
    BY <1>1, <1>5 DEF EndStream
  <2>3. 500 # None /\ 200 # None
    BY LayerAssumption
  <2>4. CASE Respond(r, 500, "empty") /\ FailsHere(r)
    BY <1>1, <1>4, <1>5, <2>1, <2>3, <2>4, RespondTells
  <2>5. CASE Respond(r, 200, "cut")
    BY <1>1, <1>5, <2>1, <2>3, <2>5, RespondTells
  <2>6. QED
    BY <2>2, <2>4, <2>5
<1>6. CASE stage[r] = "streaming"
  <2> DEFINE b == IF More(r) THEN "broken" ELSE "whole"
  <2>1. /\ asks' = asks /\ effects' = effects /\ log' = log
        /\ stage' = [stage EXCEPT ![r] = "answered"]
        /\ reply' = [reply EXCEPT ![r].body = b]
    BY <1>6 DEF EndStream
  <2>2. /\ Guarded(r)' = Guarded(r) /\ StreamOp(r)' = StreamOp(r) /\ Guarded(r)
    BY <1>3, <2>1 DEF Guarded, StreamOp, AdminOps
  <2>3. /\ b = "broken" => More(r)
        /\ b = "whole" => ~More(r)
        /\ b \in {"broken", "whole"}
    OBVIOUS
  <2> HIDE DEF b
  <2>4. Domains
    BY DEF TellInv
  <2>5. Domains' /\ \A q \in Requests : q # r => Same(q)
    BY <1>1, <2>1, <2>4 DEF Domains, Same, DataTyped
  <2>6. /\ reply'[r].status = reply[r].status /\ reply'[r].body = b
        /\ stage'[r] = "answered" /\ log'[r] = log[r]
        /\ sent'[r] = sent[r] /\ effects'[r] = effects[r]
    BY <1>1, <2>1 DEF DataTyped
  <2>7. reply[r].status # None /\ reply[r].body = "stream"
    BY <1>2, <1>6 DEF StageRight
  <2>8. LogRight(r)'
    <3>1. Lead(r) /\ Lead(r)'
      BY <2>3, <2>6, <2>7 DEF Lead
    <3>2. QED
      BY <1>2, <2>2, <2>6, <2>7, <3>1 DEF LogRight
  <2>9. StageRight(r)'
    BY <1>3, <2>2, <2>6, <2>7 DEF StageRight
  <2>10. StreamRight(r)'
    <3>1. b = "whole" /\ asks[r].failAt # None => asks[r].failAt >= m
      BY <1>1, <1>2, <1>3 DEF StreamRight, Counts
    <3>2. ASSUME b = "whole", asks[r].op = "scripted" PROVE m = asks[r].chunks
      <4>1. asks[r].chunks \in Nat
        BY <1>2, <3>2 DEF Counts
      <4>2. Pieces(asks[r]) = [i \in 1 .. asks[r].chunks |-> Chunk("scripted", <<>>)]
        BY <3>2 DEF Pieces
      <4>3. Len(Pieces(asks[r])) = asks[r].chunks
        BY <4>1, <4>2
      <4>4. m <= asks[r].chunks
        BY <1>1, <1>3, <3>2 DEF StreamRight
      <4>5. ~(m < asks[r].chunks)
        BY <2>3, <3>2, <4>3 DEF More, Seq0
      <4>6. QED
        BY <1>3, <4>1, <4>4, <4>5
    <3>3. b = "broken" => asks[r].failAt # None /\ m = asks[r].failAt
      BY <1>1, <1>4, <2>3
    <3>4. QED
      BY <2>1, <2>3, <2>6, <3>1, <3>2, <3>3 DEF StreamRight, Reading
  <2>11. Tells(r)'
    BY <1>2, <2>2, <2>6, <2>8, <2>9, <2>10 DEF Tells
  <2>12. QED
    BY <2>1, <2>5, <2>11, OneTells
<1>7. QED
  BY <1>1, <1>5, <1>6 DEF Reading

LEMMA LayerTells ==
  ASSUME TellInv, DataTyped, NEW r \in Requests, LayerStep(r), sent' = sent
  PROVE  TellInv'
<1>1. DOMAIN effects = Requests
  BY DEF TellInv, Domains
<1>2. CASE Arrive(r)
  <2>1. PICK to \in {"delayed", "handler"} :
          /\ asks' = asks /\ stage[r] = "idle" /\ stage' = [stage EXCEPT ![r] = to]
          /\ UNCHANGED <<reply, log>>
    BY <1>2 DEF Arrive
  <2>2. effects' = effects \/ \E x : effects' = [effects EXCEPT ![r] = x]
    BY <1>2 DEF Arrive
  <2>3. DOMAIN effects' = Requests /\ \A q \in Requests : q # r => effects'[q] = effects[q]
    BY <1>1, <2>2
  <2>4. QED
    BY <2>1, <2>3, MoveTells
<1>3. CASE ShortCircuit(r)
  <2>1. PICK s, b : /\ Respond(r, s, b) /\ stage[r] = "delayed"
                    /\ b \in {"broken", "fault"} /\ s # None
    BY <1>3, LayerAssumption DEF ShortCircuit, Awake
  <2>2. sent[r] = <<>> /\ reply[r].status = None
    BY <2>1, Untold
  <2>3. QED
    BY <2>1, <2>2, RespondTells
<1>4. CASE EnterHandler(r)
  <2>1. /\ asks' = asks /\ stage[r] = "delayed" /\ stage' = [stage EXCEPT ![r] = "handler"]
        /\ UNCHANGED <<reply, log, effects>>
    BY <1>4 DEF EnterHandler, Awake
  <2>2. QED
    BY <1>1, <2>1, MoveTells
<1>5. CASE Ping(r)
  <2>1. PICK b \in {"cut", "json"} : Respond(r, 200, b)
    BY <1>5 DEF Ping, Handled
  <2>2. stage[r] = "handler" /\ 200 # None
    BY <1>5, LayerAssumption DEF Ping
  <2>3. reply[r].status = None
    BY <2>2, Untold
  <2>4. QED
    BY <2>1, <2>2, <2>3, RespondTells
<1>6. QED
  BY <1>2, <1>3, <1>4, <1>5 DEF LayerStep

\* A data handler answers, and sends no chunk.
LEMMA EndsTells ==
  ASSUME TellInv, DataTyped, NEW r \in Requests, NEW s \in Int,
         InHandler(r), Ends(r, s), sent' = sent
  PROVE  TellInv'
<1>1. PICK b \in {"cut", "json"} : Respond(r, s, b)
  BY DEF Ends, Handled
<1>2. stage[r] = "handler" /\ s # None
  BY LayerAssumption DEF InHandler
<1>3. reply[r].status = None
  BY <1>2, Untold
<1>4. QED
  BY <1>1, <1>2, <1>3, RespondTells

LEMMA StillTells ==
  ASSUME TellInv, UNCHANGED <<asks, stage, reply, log, effects, sent>>
  PROVE  TellInv'
<1>1. Domains' /\ \A q \in Requests : Same(q)
  BY DEF TellInv, Domains, Same
<1>2. QED
  BY <1>1, NoneTells

LEMMA DataTells ==
  ASSUME TellInv, DataTyped, NEW r \in Requests, DataStep(r), sent' = sent
  PROVE  TellInv'
<1>1. ASSUME NEW to, Goes(r, to) PROVE TellInv'
  BY <1>1, StillTells DEF Goes, layerVars
<1>2. CASE Reject(r)
  <2>1. PICK s \in {400, 503} : Ends(r, s)
    BY <1>2 DEF Reject
  <2>2. InHandler(r)
    BY <1>2 DEF Reject, Start
  <2>3. QED
    BY <2>1, <2>2, EndsTells
<1>3. CASE ListRuns(r)
  BY <1>3, EndsTells DEF ListRuns, Accepted, Start
<1>4. CASE Acquire(r)
  BY <1>1, <1>4, EndsTells DEF Acquire
<1>5. CASE Execute(r)
  <2>1. ItemStatus(r) \in Int
    BY DEF ItemStatus
  <2>2. QED
    BY <1>5, <2>1, EndsTells DEF Execute
<1>6. CASE Migrate(r)
  <2>1. PICK s \in {500, 200} : Ends(r, s)
    BY <1>6 DEF Migrate
  <2>2. QED
    BY <1>6, <2>1, EndsTells DEF Migrate
<1>7. CASE DropSchema(r)
  BY <1>7, EndsTells DEF DropSchema
<1>8. CASE Begin(r) \/ CreateSchema(r) \/ Look(r) \/ Connect(r) \/ Insert(r)
           \/ RemovePool(r) \/ PoolClosed(r)
  <2>1. \E to : Goes(r, to)
    BY <1>8 DEF Begin, CreateSchema, Look, Connect, Insert, RemovePool, PoolClosed
  <2>2. QED
    BY <1>1, <2>1
<1>9. QED
  BY <1>2, <1>3, <1>4, <1>5, <1>6, <1>7, <1>8 DEF DataStep

LEMMA NextTells == Inv /\ TellInv /\ [Next]_vars => TellInv'
<1> SUFFICES ASSUME Inv, TellInv, [Next]_vars PROVE TellInv'
  OBVIOUS
<1>1. DataTyped
  BY DEF Inv
<1>2. ASSUME NEW r \in Requests, Serve(r) PROVE TellInv'
  <2>1. CASE LayerStep(r) /\ UNCHANGED <<dataVars, streamVars>>
    BY <1>1, <2>1, LayerTells DEF streamVars
  <2>2. CASE DataStep(r) /\ UNCHANGED streamVars
    BY <1>1, <2>2, DataTells DEF streamVars
  <2>3. CASE StreamStep(r)
    BY <1>1, <2>3, CompleteTells, OpenTells, WriteTells, EndStreamTells DEF StreamStep
  <2>4. QED
    BY <1>2, <2>1, <2>2, <2>3 DEF Serve
<1>3. ASSUME NEW r \in Requests, Leave(r) PROVE TellInv'
  <2>1. /\ asks' = asks /\ stage' = [stage EXCEPT ![r] = "gone"]
        /\ UNCHANGED <<reply, log, effects, sent>>
    BY <1>3 DEF Leave, Abandon, streamVars
  <2>2. DOMAIN effects' = Requests
    BY <2>1 DEF TellInv, Domains
  <2>3. QED
    BY <1>1, <2>1, <2>2, MoveTells
<1>4. ASSUME NEW r \in Requests, Refused(r), UNCHANGED streamVars PROVE TellInv'
  BY <1>1, <1>4, EndsTells DEF Refused, streamVars
<1>5. CASE (SetFaults \/ Time) /\ UNCHANGED <<dataVars, streamVars>>
  BY <1>5, StillTells DEF SetFaults, Time, Tick, streamVars
<1>6. CASE ClockStep /\ UNCHANGED dataVars
  BY <1>6, StillTells DEF ClockStep, Advance, Freeze, Resume, ResetClock, layerVars
<1>7. CASE UNCHANGED vars
  BY <1>7, StillTells DEF vars, layerVars, streamVars
<1>8. QED
  BY <1>2, <1>3, <1>4, <1>5, <1>6, <1>7 DEF Next

LEMMA InitTells == Init => TellInv
<1> SUFFICES ASSUME Init PROVE TellInv
  OBVIOUS
<1>1. PICK s \in Scenes : asks = s.asks
  BY DEF Init, LayerInit
<1>2. /\ stage = [r \in Requests |-> "idle"] /\ reply = [r \in Requests |-> NoReply]
      /\ log = [r \in Requests |-> <<>>] /\ sent = [r \in Requests |-> <<>>]
      /\ effects = [r \in Requests |-> NoEffects]
  BY DEF Init, LayerInit, StreamInit
<1>3. \A r \in Requests : Counts(r)
  BY <1>1, StreamsAssumption DEF Counts, StreamOp
<1>4. ASSUME NEW r \in Requests PROVE Tells(r)
  <2>1. /\ stage[r] = "idle" /\ reply[r].status = None /\ reply[r].body = "none"
        /\ log[r] = <<>> /\ sent[r] = <<>>
    BY <1>2 DEF NoReply
  <2>2. QED
    BY <2>1, SeqNil DEF Tells, LogRight, StageRight, StreamRight, Reading
<1>5. QED
  BY <1>2, <1>3, <1>4 DEF TellInv, Domains

-----------------------------------------------------------------------------
(* What the log says, from where its chunks and its answer are.            *)

\* The answer's place in the log, and those of the chunks.
LEMMA WhereInTheLog ==
  ASSUME TellInv, NEW r \in Requests
  PROVE  LET m == Len(sent[r])
         IN  /\ m \in Nat
             /\ reply[r].status = None => HttpAt(r) = {} /\ ChunkAt(r) = 1 .. m
             /\ reply[r].status # None /\ ~Guarded(r) => HttpAt(r) = {} /\ ChunkAt(r) = {} /\ m = 0
             /\ reply[r].status # None /\ Guarded(r) /\ Lead(r) =>
                  HttpAt(r) = {1} /\ ChunkAt(r) = 2 .. m + 1
             /\ reply[r].status # None /\ Guarded(r) /\ ~Lead(r) =>
                  HttpAt(r) = {m + 1} /\ ChunkAt(r) = 1 .. m
<1> DEFINE m == Len(sent[r])
<1>1. IsSeq(log[r]) /\ IsSeq(sent[r]) /\ LogRight(r) /\ StageRight(r)
  BY DEF TellInv, Tells
<1>2. m \in Nat /\ (m = 0 <=> sent[r] = <<>>)
  BY <1>1, SeqLen
<1>3. CASE reply[r].status = None
  <2>1. Len(log[r]) = m /\ \A i \in 1 .. m : log[r][i].kind = "chunk"
    BY <1>1, <1>3 DEF LogRight, IsChunk
  <2>2. QED
    BY <1>2, <1>3, <2>1 DEF HttpAt, ChunkAt
<1>4. CASE reply[r].status # None /\ ~Guarded(r)
  <2>1. log[r] = <<>>
    BY <1>1, <1>4 DEF LogRight
  <2>2. Len(log[r]) = 0
    BY <2>1
  <2>3. m = 0
    BY <1>1, <1>2, <1>4 DEF StageRight, Guarded, AdminOps, StreamOp
  <2>4. QED
    BY <1>4, <1>2, <2>2, <2>3 DEF HttpAt, ChunkAt
<1>5. CASE reply[r].status # None /\ Guarded(r) /\ Lead(r)
  <2>1. /\ Len(log[r]) = m + 1 /\ log[r][1].kind = "http"
        /\ \A i \in 1 .. m : log[r][i + 1].kind = "chunk"
    BY <1>1, <1>5 DEF LogRight, IsChunk, IsAnswer
  <2>2. \A i \in 2 .. m + 1 : log[r][i].kind = "chunk"
    <3>1. \A i \in 2 .. m + 1 : i - 1 \in 1 .. m /\ (i - 1) + 1 = i
      BY <1>2
    <3>2. QED
      BY <2>1, <3>1
  <2> HIDE DEF m
  <2>3. \A i \in 1 .. m + 1 : i = 1 \/ i \in 2 .. m + 1
    BY <1>2
  <2>4. HttpAt(r) = {1}
    BY <1>2, <2>1, <2>2, <2>3 DEF HttpAt
  <2>5. ChunkAt(r) = 2 .. m + 1
    BY <1>2, <2>1, <2>2, <2>3 DEF ChunkAt
  <2>6. QED
    BY <1>2, <1>5, <2>4, <2>5 DEF m
<1>6. CASE reply[r].status # None /\ Guarded(r) /\ ~Lead(r)
  <2>1. /\ Len(log[r]) = m + 1 /\ log[r][m + 1].kind = "http"
        /\ \A i \in 1 .. m : log[r][i].kind = "chunk"
    BY <1>1, <1>6 DEF LogRight, IsChunk, IsAnswer
  <2> HIDE DEF m
  <2>2. \A i \in 1 .. m + 1 : i = m + 1 \/ i \in 1 .. m
    BY <1>2
  <2>3. HttpAt(r) = {m + 1}
    BY <1>2, <2>1, <2>2 DEF HttpAt
  <2>4. ChunkAt(r) = 1 .. m
    BY <1>2, <2>1, <2>2 DEF ChunkAt
  <2>5. QED
    BY <1>2, <1>6, <2>3, <2>4 DEF m
<1>7. QED
  BY <1>2, <1>3, <1>4, <1>5, <1>6

\* The chunks are in the log one after the other, and numbered so.
LEMMA ChunksInARow ==
  ASSUME TellInv, NEW r \in Requests
  PROVE  \E d \in {0, 1} : /\ ChunkAt(r) = 1 + d .. Len(sent[r]) + d
                           /\ \A i \in ChunkAt(r) : log[r][i].seq = i - d - 1
<1> DEFINE m == Len(sent[r])
<1>1. LogRight(r)
  BY DEF TellInv, Tells
<1>2. m \in Nat
  BY WhereInTheLog
<1>3. CASE reply[r].status # None /\ Guarded(r) /\ Lead(r)
  <2>1. ChunkAt(r) = 1 + 1 .. m + 1
    BY <1>3, WhereInTheLog
  <2>2. \A i \in 1 .. m : log[r][i + 1].seq = i - 1
    BY <1>1, <1>3 DEF LogRight, IsChunk
  <2>3. \A i \in ChunkAt(r) : i - 1 \in 1 .. m /\ (i - 1) + 1 = i /\ (i - 1) - 1 = i - 1 - 1
    BY <1>2, <2>1
  <2>4. \A i \in ChunkAt(r) : log[r][i].seq = i - 1 - 1
    BY <2>2, <2>3
  <2>5. QED
    BY <2>1, <2>4
<1>4. CASE reply[r].status # None /\ ~Guarded(r)
  <2>1. ChunkAt(r) = {} /\ m = 0
    BY <1>4, WhereInTheLog
  <2>2. 1 + 0 .. 0 + 0 = {}
    OBVIOUS
  <2>3. QED
    BY <2>1, <2>2
<1>5. CASE reply[r].status = None \/ (Guarded(r) /\ ~Lead(r))
  <2>1. ChunkAt(r) = 1 .. m
    BY <1>5, WhereInTheLog
  <2>2. \A i \in 1 .. m : log[r][i].seq = i - 1
    BY <1>1, <1>5 DEF LogRight, IsChunk
  <2>3. 1 + 0 = 1 /\ m + 0 = m /\ \A i \in 1 .. m : i - 0 - 1 = i - 1
    BY <1>2
  <2>4. QED
    BY <2>1, <2>2, <2>3
<1>6. QED
  BY <1>3, <1>4, <1>5

LEMMA TellsEvents == TellInv => EventsTellTheAnswer
<1> SUFFICES ASSUME TellInv, NEW r \in Requests
             PROVE  /\ HttpAt(r) # {} <=> reply[r].status # None /\ Guarded(r)
                    /\ \A i, k \in HttpAt(r) : i = k
                    /\ \A i \in HttpAt(r) : /\ log[r][i].status = reply[r].status
                                            /\ log[r][i].faults = effects[r].names
  BY DEF EventsTellTheAnswer
<1> DEFINE m == Len(sent[r])
<1>1. LogRight(r)
  BY DEF TellInv, Tells
<1>2. CASE reply[r].status = None \/ ~Guarded(r)
  BY <1>2, WhereInTheLog
<1>3. CASE reply[r].status # None /\ Guarded(r) /\ Lead(r)
  <2>1. HttpAt(r) = {1}
    BY <1>3, WhereInTheLog
  <2>2. IsAnswer(log[r][1], reply[r].status, effects[r].names)
    BY <1>1, <1>3 DEF LogRight
  <2>3. QED
    BY <1>3, <2>1, <2>2 DEF IsAnswer
<1>4. CASE reply[r].status # None /\ Guarded(r) /\ ~Lead(r)
  <2>1. HttpAt(r) = {m + 1}
    BY <1>4, WhereInTheLog
  <2>2. IsAnswer(log[r][m + 1], reply[r].status, effects[r].names)
    BY <1>1, <1>4 DEF LogRight
  <2>3. QED
    BY <1>4, <2>1, <2>2 DEF IsAnswer
<1>5. QED
  BY <1>2, <1>3, <1>4

LEMMA TellsStreams == TellInv => StreamsEndWhereTold
<1> SUFFICES ASSUME TellInv, NEW r \in Requests, StreamOp(r)
    PROVE  /\ {log[r][i].seq : i \in ChunkAt(r)} = 0 .. Len(sent[r]) - 1
           /\ \A i, k \in ChunkAt(r) : i < k => log[r][i].seq < log[r][k].seq
           /\ \A i \in HttpAt(r), k \in ChunkAt(r) :
                i < k <=> reply[r].body \in {"stream", "broken", "whole"}
           /\ reply[r].body = "whole" =>
                /\ asks[r].failAt # None => asks[r].failAt >= Len(sent[r])
                /\ asks[r].op = "scripted" => Len(sent[r]) = asks[r].chunks
           /\ (sent[r] # <<>> /\ reply[r].body \in {"broken", "empty"}) =>
                Len(sent[r]) = asks[r].failAt
  BY DEF StreamsEndWhereTold
<1> DEFINE m == Len(sent[r])
<1>1. StreamRight(r) /\ Guarded(r)
  BY DEF TellInv, Tells, StreamOp, Guarded, AdminOps
<1>2. m \in Nat
  BY WhereInTheLog
<1>3. PICK d \in {0, 1} : /\ ChunkAt(r) = 1 + d .. m + d
                          /\ \A i \in ChunkAt(r) : log[r][i].seq = i - d - 1
  BY ChunksInARow
<1> HIDE DEF m
<1>4. {log[r][i].seq : i \in ChunkAt(r)} = 0 .. m - 1
  <2>1. {log[r][i].seq : i \in ChunkAt(r)} = {i - d - 1 : i \in 1 + d .. m + d}
    BY <1>3
  <2>2. ASSUME NEW n \in 0 .. m - 1 PROVE n \in {i - d - 1 : i \in 1 + d .. m + d}
    <3>1. n + d + 1 \in 1 + d .. m + d /\ (n + d + 1) - d - 1 = n
      BY <1>2
    <3>2. QED
      BY <3>1
  <2>3. \A i \in 1 + d .. m + d : i - d - 1 \in 0 .. m - 1
    BY <1>2
  <2>4. QED
    BY <2>1, <2>2, <2>3
<1>5. \A i, k \in ChunkAt(r) : i < k => log[r][i].seq < log[r][k].seq
  <2>1. \A i, k \in 1 + d .. m + d : i < k => i - d - 1 < k - d - 1
    BY <1>2
  <2>2. QED
    BY <1>3, <2>1
<1>6. \A i \in HttpAt(r), k \in ChunkAt(r) : i < k <=> Lead(r)
  <2>1. CASE reply[r].status = None
    BY <2>1, WhereInTheLog
  <2>2. CASE reply[r].status # None /\ Lead(r)
    <3>1. HttpAt(r) = {1} /\ ChunkAt(r) = 2 .. m + 1
      BY <1>1, <2>2, WhereInTheLog DEF m
    <3>2. QED
      BY <1>2, <2>2, <3>1
  <2>3. CASE reply[r].status # None /\ ~Lead(r)
    <3>1. HttpAt(r) = {m + 1} /\ ChunkAt(r) = 1 .. m
      BY <1>1, <2>3, WhereInTheLog DEF m
    <3>2. QED
      BY <1>2, <2>3, <3>1
  <2>4. QED
    BY <2>1, <2>2, <2>3
<1>7. /\ reply[r].body = "whole" =>
           /\ asks[r].failAt # None => asks[r].failAt >= m
           /\ asks[r].op = "scripted" => m = asks[r].chunks
      /\ (sent[r] # <<>> /\ reply[r].body \in {"broken", "empty"}) => m = asks[r].failAt
  BY <1>1 DEF StreamRight, m
<1>8. QED
  BY <1>4, <1>5, <1>6, <1>7 DEF Lead, m

-----------------------------------------------------------------------------
(* The theorems about the streams and the bus.                             *)

\* What each request has been answered, what its body yielded and what the bus was told
\* of both agree at every moment of its way through the layer and the handlers.
THEOREM HttpPlaneTellInv == Spec => []TellInv
<1>1. Init => TellInv
  BY InitTells
<1>2. Inv /\ TellInv /\ [Next]_vars => TellInv'
  BY NextTells
<1>3. QED
  BY <1>1, <1>2, HttpPlaneInv, PTL DEF Spec

\* Each request behind the fault layer that was answered, by the layer, by a handler or by
\* a stream, is on the bus exactly once, with its status and the faults put to it; one
\* whose client left before, and an admin one, never is.
THEOREM HttpPlaneEventsTellTheAnswer == Spec => []EventsTellTheAnswer
<1>1. QED
  BY HttpPlaneTellInv, TellsEvents, PTL

\* However its chunks interleave with the clock's moves and the rules put to it, a stream
\* announces its chunks in order, before or after its answer as the layer had the body,
\* and ends with its last chunk or breaks after exactly failAt of them.
THEOREM HttpPlaneStreamsEndWhereTold == Spec => []StreamsEndWhereTold
<1>1. QED
  BY HttpPlaneTellInv, TellsStreams, PTL

-----------------------------------------------------------------------------
(* Recursion over data: what a function is at a point, or says there,       *)
(* follows from what it does at points of lower rank, a bounded natural.    *)

\* A set of naturals that is not empty has a least element.
LEMMA LeastNatural ==
  ASSUME NEW T \in SUBSET Nat, T # {}
  PROVE  \E x \in T : \A y \in T : x <= y
<1> DEFINE R == OpToRel(<, Nat)
<1>1. IsWellFoundedOn(R, Nat)
  BY NatLessThanWellFounded
<1>2. \A x, y \in Nat : <<x, y>> \in R <=> x < y
  BY DEF OpToRel
<1> HIDE DEF R
<1>3. PICK x \in T : \A y \in T : ~(<<y, x>> \in R)
  BY <1>1, WFMin
<1>4. ASSUME NEW y \in T PROVE x <= y
  <2>1. x \in Nat /\ y \in Nat
    OBVIOUS
  <2>2. ~(y < x)
    BY <1>2, <1>3, <2>1
  <2>3. QED
    BY <2>1, <2>2
<1>5. QED
  BY <1>4

\* What a function is at a point follows from what it is at points of lower rank.
Recursion(S, V, step, rank, bound) ==
  /\ V # {} /\ step \in [[S -> V] \X S -> V]
  /\ bound \in Nat /\ rank \in [S -> 0 .. bound]
  /\ \A f, g \in [S -> V], x \in S :
       (\A y \in S : rank[y] < rank[x] => f[y] = g[y]) => step[<<f, x>>] = step[<<g, x>>]

\* There is a function that is so at every point.
LEMMA RecursiveFunction ==
  ASSUME NEW S, NEW V, NEW step, NEW rank, NEW bound, Recursion(S, V, step, rank, bound)
  PROVE  \E f \in [S -> V] : \A x \in S : f[x] = step[<<f, x>>]
<1>0. /\ V # {} /\ step \in [[S -> V] \X S -> V]
      /\ bound \in Nat /\ rank \in [S -> 0 .. bound]
      /\ \A f, g \in [S -> V], x \in S :
           (\A y \in S : rank[y] < rank[x] => f[y] = g[y]) => step[<<f, x>>] = step[<<g, x>>]
  BY DEF Recursion
<1> PICK v \in V : TRUE
  BY <1>0
<1> USE <1>0
<1> DEFINE Upto(n) == \E f \in [S -> V] : \A x \in S : rank[x] < n => f[x] = step[<<f, x>>]
           Failing == {n \in Nat : ~Upto(n)}
<1>1. Upto(0)
  <2>1. [x \in S |-> v] \in [S -> V] /\ \A x \in S : ~(rank[x] < 0)
    OBVIOUS
  <2>2. QED
    BY <2>1
<1>2. ASSUME NEW n \in Nat, Upto(n) PROVE Upto(n + 1)
  <2>1. PICK f \in [S -> V] : \A x \in S : rank[x] < n => f[x] = step[<<f, x>>]
    BY <1>2
  <2> DEFINE g == [x \in S |-> step[<<f, x>>]]
  <2>2. g \in [S -> V]
    OBVIOUS
  <2>3. ASSUME NEW x \in S, rank[x] < n + 1 PROVE g[x] = step[<<g, x>>]
    <3>1. \A y \in S : rank[y] < rank[x] => f[y] = g[y]
      BY <2>1, <2>3
    <3> HIDE DEF g
    <3>2. step[<<f, x>>] = step[<<g, x>>]
      BY <2>2, <3>1
    <3>3. QED
      BY <3>2 DEF g
  <2> HIDE DEF g
  <2>4. QED
    BY <2>2, <2>3
<1> HIDE DEF Upto
<1>3. Failing = {}
  <2> SUFFICES ASSUME Failing # {} PROVE FALSE
    OBVIOUS
  <2>1. PICK n \in Failing : \A m \in Failing : n <= m
    BY LeastNatural
  <2>2. n \in Nat \ {0} /\ n - 1 \in Nat /\ n - 1 < n /\ (n - 1) + 1 = n
    BY <1>1
  <2>3. Upto(n - 1)
    BY <2>1, <2>2
  <2>4. QED
    BY <1>2, <2>2, <2>3
<1>4. PICK f \in [S -> V] : \A x \in S : rank[x] < bound + 1 => f[x] = step[<<f, x>>]
  <2>1. bound + 1 \in Nat
    OBVIOUS
  <2>2. Upto(bound + 1)
    BY <1>3, <2>1
  <2>3. QED
    BY <2>2 DEF Upto
<1>5. \A x \in S : f[x] = step[<<f, x>>]
  BY <1>4
<1>6. QED
  BY <1>5

\* What holds at a point if it does at all points of lower rank.
Inductive(S, good, rank, bound) ==
  /\ good \in [S -> BOOLEAN] /\ bound \in Nat /\ rank \in [S -> 0 .. bound]
  /\ \A x \in S : (\A y \in S : rank[y] < rank[x] => good[y]) => good[x]

\* It holds at every point.
LEMMA RankInduction ==
  ASSUME NEW S, NEW good, NEW rank, NEW bound, Inductive(S, good, rank, bound)
  PROVE  \A x \in S : good[x]
<1> DEFINE Bad == {x \in S : ~good[x]}
           T == {rank[x] : x \in Bad}
<1> SUFFICES ASSUME Bad # {} PROVE FALSE
  OBVIOUS
<1>0. /\ good \in [S -> BOOLEAN] /\ bound \in Nat /\ rank \in [S -> 0 .. bound]
      /\ \A x \in S : (\A y \in S : rank[y] < rank[x] => good[y]) => good[x]
  BY DEF Inductive
<1>1. T \in SUBSET Nat /\ T # {}
  BY <1>0
<1>2. PICK n \in T : \A m \in T : n <= m
  <2> HIDE DEF T
  <2>1. QED
    BY <1>1, LeastNatural
<1>3. PICK x \in Bad : rank[x] = n
  BY <1>2
<1>4. \A y \in Bad : rank[x] <= rank[y]
  BY <1>2, <1>3
<1>5. ASSUME NEW y \in S, rank[y] < rank[x] PROVE good[y]
  <2>1. rank[y] \in Int /\ rank[x] \in Int
    BY <1>0
  <2>2. QED
    BY <1>4, <1>5, <2>1
<1>6. QED
  BY <1>0, <1>5

-----------------------------------------------------------------------------
(* Routes: the scan and what a star means.                                 *)

Turning(scan, pattern, text, turn) ==
  LET p == turn.p
      t == turn.t
  IN  IF t > Len(text) THEN \A k \in p .. Len(pattern) : pattern[k] = "*"
      ELSE IF p <= Len(pattern) /\ pattern[p] = "*" THEN scan[Turn(p + 1, t, p, t)]
      ELSE IF p <= Len(pattern) /\ pattern[p] = text[t]
           THEN scan[Turn(p + 1, t + 1, turn.star, turn.resume)]
      ELSE turn.star # 0
           /\ scan[Turn(turn.star + 1, turn.resume + 1, turn.star, turn.resume + 1)]

\* Each turn of the loop meets a later star, gives the last one more, or goes on in the text.
Weight(P, T, t, star, resume) == (P + T + 1 - star - resume) * (T + 2) + (T + 1 - t)
Rank(pattern, text, turn) == Weight(Len(pattern), Len(text), turn.t, turn.star, turn.resume)

LEMMA RankFalls ==
  ASSUME NEW a \in Nat, NEW b \in Nat, NEW width \in Nat, NEW c \in 0 .. width, NEW d \in 0 .. width
  PROVE  /\ a * (width + 1) + c \in Nat
         /\ a <= b => a * (width + 1) + c <= b * (width + 1) + width
         /\ a < b => a * (width + 1) + c < b * (width + 1) + d
<1>1. a * (width + 1) \in Nat /\ b * (width + 1) \in Nat
  OBVIOUS
<1>2. a <= b => a * (width + 1) <= b * (width + 1)
  OBVIOUS
<1>3. a < b => a * (width + 1) + (width + 1) <= b * (width + 1)
  <2> SUFFICES ASSUME a < b PROVE a * (width + 1) + (width + 1) <= b * (width + 1)
    OBVIOUS
  <2>1. PICK e \in Nat : b = a + 1 + e
    <3>1. b - a - 1 \in Nat /\ b = a + 1 + (b - a - 1)
      OBVIOUS
    <3>2. QED
      BY <3>1
  <2>2. b * (width + 1) = a * (width + 1) + (width + 1) + e * (width + 1)
    BY <2>1
  <2>3. e * (width + 1) \in Nat
    BY <2>1
  <2>4. QED
    BY <1>1, <2>2, <2>3
<1>4. QED
  BY <1>1, <1>2, <1>3

LEMMA WeightFalls ==
  ASSUME NEW P \in Nat, NEW T \in Nat, NEW p \in 1 .. P + 1, NEW t \in 1 .. T + 1,
         NEW star \in 0 .. P, NEW resume \in 1 .. T + 1, star < p, resume <= t
  PROVE  /\ Weight(P, T, t, star, resume) \in 0 .. (P + T + 1) * (T + 2) + (T + 1)
         /\ t <= T /\ p <= P =>
              /\ Weight(P, T, t, p, t) < Weight(P, T, t, star, resume)
              /\ Weight(P, T, t + 1, star, resume) < Weight(P, T, t, star, resume)
         /\ t <= T =>
              Weight(P, T, resume + 1, star, resume + 1) < Weight(P, T, t, star, resume)
<1> DEFINE width == T + 1
           left(s, r) == P + T + 1 - s - r
<1>1. /\ width \in Nat /\ width + 1 = T + 2 /\ P + T + 1 \in Nat
      /\ \A x \in 1 .. T + 1 : T + 1 - x \in 0 .. width
      /\ left(star, resume) \in Nat /\ left(star, resume) <= P + T + 1
  OBVIOUS
<1>2. \A x, s, r : Weight(P, T, x, s, r) = left(s, r) * (width + 1) + (T + 1 - x)
  BY <1>1 DEF Weight
<1>3. Weight(P, T, t, star, resume) \in 0 .. (P + T + 1) * (T + 2) + (T + 1)
  <2> PICK a, c : a = left(star, resume) /\ c = T + 1 - t
    OBVIOUS
  <2>1. a \in Nat /\ c \in 0 .. width /\ a <= P + T + 1
    BY <1>1
  <2> PICK b \in Nat : b = P + T + 1
    BY <1>1
  <2>2. /\ a * (width + 1) + c \in Nat
        /\ a * (width + 1) + c <= b * (width + 1) + width
    BY <1>1, <2>1, RankFalls
  <2>3. b * (width + 1) + width \in Nat
    BY <1>1
  <2>4. QED
    BY <1>1, <1>2, <2>2, <2>3
<1>4. ASSUME NEW s \in Nat, NEW r \in Nat, NEW x \in 1 .. T + 1, left(s, r) \in Nat,
             left(s, r) < left(star, resume)
      PROVE  Weight(P, T, x, s, r) < Weight(P, T, t, star, resume)
  <2> PICK a, b, c, d : a = left(s, r) /\ b = left(star, resume) /\ c = T + 1 - x /\ d = T + 1 - t
    OBVIOUS
  <2>1. a \in Nat /\ b \in Nat /\ a < b /\ c \in 0 .. width /\ d \in 0 .. width
    BY <1>1, <1>4
  <2>2. a * (width + 1) + c < b * (width + 1) + d
    <3> HIDE DEF width
    <3>1. QED
      BY <1>1, <2>1, RankFalls
  <2>3. QED
    BY <1>2, <2>2
<1>5. ASSUME t <= T, p <= P PROVE Weight(P, T, t, p, t) < Weight(P, T, t, star, resume)
  <2>1. left(p, t) \in Nat /\ left(p, t) < left(star, resume)
    BY <1>5
  <2>2. QED
    BY <1>4, <2>1
<1>6. ASSUME t <= T PROVE Weight(P, T, t + 1, star, resume) < Weight(P, T, t, star, resume)
  <2> PICK a \in Nat : a = left(star, resume) * (width + 1)
    BY <1>1
  <2>1. a + (T + 1 - (t + 1)) < a + (T + 1 - t)
    OBVIOUS
  <2>2. QED
    BY <1>2, <2>1
<1>7. ASSUME t <= T PROVE Weight(P, T, resume + 1, star, resume + 1) < Weight(P, T, t, star, resume)
  <2>1. left(star, resume + 1) \in Nat /\ left(star, resume + 1) < left(star, resume)
        /\ resume + 1 \in 1 .. T + 1
    BY <1>7
  <2>2. QED
    BY <1>4, <2>1
<1>8. QED
  BY <1>3, <1>5, <1>6, <1>7

LEMMA TurnIs ==
  ASSUME NEW pattern \in Seq(STRING), NEW text \in Seq(STRING),
         NEW p \in 1 .. Len(pattern) + 1, NEW t \in 1 .. Len(text) + 1,
         NEW star \in 0 .. Len(pattern), NEW resume \in 1 .. Len(text) + 1,
         star < p, resume <= t
  PROVE  LET u == Turn(p, t, star, resume)
         IN  /\ u \in Turns(pattern, text)
             /\ u.p = p /\ u.t = t /\ u.star = star /\ u.resume = resume
             /\ Rank(pattern, text, u) = Weight(Len(pattern), Len(text), t, star, resume)
BY DEF Turn, Turns, Rank

LEMMA TurnHas ==
  ASSUME NEW pattern \in Seq(STRING), NEW text \in Seq(STRING), NEW turn \in Turns(pattern, text)
  PROVE  /\ turn.p \in 1 .. Len(pattern) + 1 /\ turn.t \in 1 .. Len(text) + 1
         /\ turn.star \in 0 .. Len(pattern) /\ turn.resume \in 1 .. Len(text) + 1
         /\ turn.star < turn.p /\ turn.resume <= turn.t
         /\ Len(pattern) \in Nat /\ Len(text) \in Nat
BY DEF Turns

LEMMA TurnsClosed ==
  ASSUME NEW pattern \in Seq(STRING), NEW text \in Seq(STRING), NEW turn \in Turns(pattern, text)
  PROVE  LET P == Len(pattern)
             T == Len(text)
             p == turn.p
             t == turn.t
             R == Rank(pattern, text, turn)
         IN  /\ R \in 0 .. (P + T + 1) * (T + 2) + (T + 1)
             /\ t <= T /\ p <= P =>
                  /\ Turn(p + 1, t, p, t) \in Turns(pattern, text)
                  /\ Rank(pattern, text, Turn(p + 1, t, p, t)) < R
                  /\ Turn(p + 1, t + 1, turn.star, turn.resume) \in Turns(pattern, text)
                  /\ Rank(pattern, text, Turn(p + 1, t + 1, turn.star, turn.resume)) < R
             /\ t <= T =>
                  LET again == Turn(turn.star + 1, turn.resume + 1, turn.star, turn.resume + 1)
                  IN  again \in Turns(pattern, text) /\ Rank(pattern, text, again) < R
<1> PICK P, T : P = Len(pattern) /\ T = Len(text)
  OBVIOUS
<1> PICK p, t, star, resume :
      p = turn.p /\ t = turn.t /\ star = turn.star /\ resume = turn.resume
  OBVIOUS
<1>1. /\ P \in Nat /\ T \in Nat /\ p \in 1 .. P + 1 /\ t \in 1 .. T + 1 /\ star \in 0 .. P
      /\ resume \in 1 .. T + 1 /\ star < p /\ resume <= t
  BY TurnHas
<1>2. Rank(pattern, text, turn) = Weight(P, T, t, star, resume)
  BY DEF Rank
<1>3. ASSUME t <= T, p <= P
      PROVE  /\ Turn(p + 1, t, p, t) \in Turns(pattern, text)
             /\ Rank(pattern, text, Turn(p + 1, t, p, t)) = Weight(P, T, t, p, t)
             /\ Turn(p + 1, t + 1, star, resume) \in Turns(pattern, text)
             /\ Rank(pattern, text, Turn(p + 1, t + 1, star, resume)) = Weight(P, T, t + 1, star, resume)
  <2>1. /\ p + 1 \in 1 .. P + 1 /\ p \in 0 .. P /\ p < p + 1 /\ t <= t
        /\ t + 1 \in 1 .. T + 1 /\ star < p + 1 /\ resume <= t + 1
    BY <1>1, <1>3
  <2>2. QED
    BY <1>1, <2>1, TurnIs
<1>4. ASSUME t <= T
      PROVE  LET again == Turn(star + 1, resume + 1, star, resume + 1)
             IN  /\ again \in Turns(pattern, text)
                 /\ Rank(pattern, text, again) = Weight(P, T, resume + 1, star, resume + 1)
  <2>1. /\ star + 1 \in 1 .. P + 1 /\ star < star + 1 /\ resume + 1 \in 1 .. T + 1
        /\ resume + 1 <= resume + 1
    BY <1>1, <1>4
  <2>2. QED
    BY <1>1, <2>1, TurnIs
<1>5. /\ Weight(P, T, t, star, resume) \in 0 .. (P + T + 1) * (T + 2) + (T + 1)
      /\ t <= T /\ p <= P =>
           /\ Weight(P, T, t, p, t) < Weight(P, T, t, star, resume)
           /\ Weight(P, T, t + 1, star, resume) < Weight(P, T, t, star, resume)
      /\ t <= T =>
           Weight(P, T, resume + 1, star, resume + 1) < Weight(P, T, t, star, resume)
  BY <1>1, WeightFalls
<1>6. /\ Rank(pattern, text, turn) \in 0 .. (P + T + 1) * (T + 2) + (T + 1)
      /\ t <= T /\ p <= P =>
           /\ Rank(pattern, text, Turn(p + 1, t, p, t)) < Rank(pattern, text, turn)
           /\ Rank(pattern, text, Turn(p + 1, t + 1, star, resume)) < Rank(pattern, text, turn)
      /\ t <= T => Rank(pattern, text, Turn(star + 1, resume + 1, star, resume + 1))
                     < Rank(pattern, text, turn)
  BY <1>2, <1>3, <1>4, <1>5, Zenon
<1>7. QED
  BY <1>3, <1>4, <1>6, Zenon

LEMMA GlobScans ==
  ASSUME NEW pattern \in Seq(STRING), NEW text \in Seq(STRING)
  PROVE  \E scan \in [Turns(pattern, text) -> BOOLEAN] :
           /\ \A turn \in Turns(pattern, text) : scan[turn] = Turning(scan, pattern, text, turn)
           /\ Glob(pattern, text) = scan[Turn(1, 1, 0, 1)]
<1> DEFINE S == Turns(pattern, text)
           step == [fx \in [S -> BOOLEAN] \X S |-> Turning(fx[1], pattern, text, fx[2])]
           rank == [turn \in S |-> Rank(pattern, text, turn)]
           bound == (Len(pattern) + Len(text) + 1) * (Len(text) + 2) + (Len(text) + 1)
           Scan[turn \in Turns(pattern, text)] ==
             LET p == turn.p
                 t == turn.t
             IN  IF t > Len(text) THEN \A k \in p .. Len(pattern) : pattern[k] = "*"
                 ELSE IF p <= Len(pattern) /\ pattern[p] = "*" THEN Scan[Turn(p + 1, t, p, t)]
                 ELSE IF p <= Len(pattern) /\ pattern[p] = text[t]
                      THEN Scan[Turn(p + 1, t + 1, turn.star, turn.resume)]
                 ELSE turn.star # 0
                      /\ Scan[Turn(turn.star + 1, turn.resume + 1, turn.star, turn.resume + 1)]
<1>1. bound \in Nat /\ Turn(1, 1, 0, 1) \in S
  BY DEF Turn, Turns
<1>2. ASSUME NEW turn \in S
      PROVE  /\ turn.t <= Len(text) \/ turn.t > Len(text)
             /\ Rank(pattern, text, turn) \in 0 .. bound
             /\ turn.t <= Len(text) /\ turn.p <= Len(pattern) =>
                  /\ Turn(turn.p + 1, turn.t, turn.p, turn.t) \in S
                  /\ Rank(pattern, text, Turn(turn.p + 1, turn.t, turn.p, turn.t))
                       < Rank(pattern, text, turn)
                  /\ Turn(turn.p + 1, turn.t + 1, turn.star, turn.resume) \in S
                  /\ Rank(pattern, text, Turn(turn.p + 1, turn.t + 1, turn.star, turn.resume))
                       < Rank(pattern, text, turn)
             /\ turn.t <= Len(text) =>
                  /\ Turn(turn.star + 1, turn.resume + 1, turn.star, turn.resume + 1) \in S
                  /\ Rank(pattern, text, Turn(turn.star + 1, turn.resume + 1, turn.star, turn.resume + 1))
                       < Rank(pattern, text, turn)
  <2>1. turn.t <= Len(text) \/ turn.t > Len(text)
    BY TurnHas
  <2>2. QED
    BY <2>1, TurnsClosed, Zenon
<1> HIDE DEF bound
<1>3. rank \in [S -> 0 .. bound]
  BY <1>2
<1>4. ASSUME NEW f \in [S -> BOOLEAN], NEW turn \in S
      PROVE  Turning(f, pattern, text, turn) \in BOOLEAN
  BY <1>2 DEF Turning
<1>5. step \in [[S -> BOOLEAN] \X S -> BOOLEAN]
  <2>1. \A fx \in [S -> BOOLEAN] \X S : Turning(fx[1], pattern, text, fx[2]) \in BOOLEAN
    <3> HIDE DEF S
    <3>1. QED
      BY <1>4
  <2> HIDE DEF S
  <2>2. QED
    BY <2>1
<1>6. ASSUME NEW f \in [S -> BOOLEAN], NEW g \in [S -> BOOLEAN], NEW turn \in S,
             \A y \in S : rank[y] < rank[turn] => f[y] = g[y]
      PROVE  step[<<f, turn>>] = step[<<g, turn>>]
  <2>1. \A y \in S : Rank(pattern, text, y) < Rank(pattern, text, turn) => f[y] = g[y]
    BY <1>6
  <2>2. Turning(f, pattern, text, turn) = Turning(g, pattern, text, turn)
    BY <1>2, <2>1 DEF Turning
  <2> HIDE DEF S
  <2>3. step[<<f, turn>>] = Turning(f, pattern, text, turn)
        /\ step[<<g, turn>>] = Turning(g, pattern, text, turn)
    OBVIOUS
  <2>4. QED
    BY <2>2, <2>3
<1>7. PICK f \in [S -> BOOLEAN] : \A turn \in S : f[turn] = step[<<f, turn>>]
  <2> HIDE DEF S, step, rank
  <2>1. Recursion(S, BOOLEAN, step, rank, bound)
    BY <1>1, <1>3, <1>5, <1>6 DEF Recursion
  <2>2. QED
    BY <2>1, RecursiveFunction
<1>8. \A turn \in S : f[turn] = Turning(f, pattern, text, turn)
  <2> HIDE DEF S
  <2>1. \A turn \in S : step[<<f, turn>>] = Turning(f, pattern, text, turn)
    BY <1>7
  <2>2. QED
    BY <1>7, <2>1
<1>9. \E h : h = [turn \in S |-> Turning(h, pattern, text, turn)]
  BY <1>7, <1>8
<1>10. Scan = [turn \in S |-> Turning(Scan, pattern, text, turn)]
  BY <1>9 DEF Turning
<1>11. Glob(pattern, text) = Scan[Turn(1, 1, 0, 1)]
  BY DEF Glob
<1>12. \A turn \in S : Scan[turn] = Turning(Scan, pattern, text, turn)
  BY <1>10
<1> HIDE DEF Scan
<1>13. \A turn \in S : Scan[turn] \in BOOLEAN
  <2> DEFINE good == [turn \in S |-> Scan[turn] \in BOOLEAN]
  <2>1. ASSUME NEW turn \in S,
               \A y \in S : Rank(pattern, text, y) < Rank(pattern, text, turn) => Scan[y] \in BOOLEAN
        PROVE  Scan[turn] \in BOOLEAN
    <3>1. Turning(Scan, pattern, text, turn) \in BOOLEAN
      BY <1>2, <2>1 DEF Turning
    <3>2. QED
      BY <1>12, <3>1
  <2>2. good \in [S -> BOOLEAN] /\ \A turn \in S : good[turn] = (Scan[turn] \in BOOLEAN)
    <3> HIDE DEF S
    <3>1. QED
      OBVIOUS
  <2>3. \A turn \in S : (\A y \in S : rank[y] < rank[turn] => good[y]) => good[turn]
    BY <2>1, <2>2
  <2> HIDE DEF good, S, rank
  <2>4. Inductive(S, good, rank, bound)
    BY <1>1, <1>3, <2>2, <2>3 DEF Inductive
  <2>5. QED
    BY <2>2, <2>4, RankInduction
<1>14. Scan \in [S -> BOOLEAN]
  <2> HIDE DEF S
  <2>1. QED
    BY <1>10, <1>13
<1>15. QED
  BY <1>11, <1>12, <1>14

Meaning(m, pattern, text, p, t) ==
  IF p > Len(pattern) THEN t > Len(text)
  ELSE IF pattern[p] = "*" THEN \E k \in t .. Len(text) + 1 : m[<<p + 1, k>>]
  ELSE t <= Len(text) /\ pattern[p] = text[t] /\ m[<<p + 1, t + 1>>]

Means(m, pattern, text) ==
  /\ m \in [(1 .. Len(pattern) + 1) \X (1 .. Len(text) + 1) -> BOOLEAN]
  /\ \A p \in 1 .. Len(pattern) + 1, t \in 1 .. Len(text) + 1 :
       m[<<p, t>>] = Meaning(m, pattern, text, p, t)

LEMMA MatchesMeans ==
  ASSUME NEW pattern \in Seq(STRING), NEW text \in Seq(STRING)
  PROVE  \E m : Means(m, pattern, text) /\ Matches(pattern, text) = m[<<1, 1>>]
<1> DEFINE S == (1 .. Len(pattern) + 1) \X (1 .. Len(text) + 1)
           step == [fx \in [S -> BOOLEAN] \X S |->
                      Meaning(fx[1], pattern, text, fx[2][1], fx[2][2])]
           bound == Len(pattern) + 1
           rank == [place \in S |-> Len(pattern) + 1 - place[1]]
           M[place \in (1 .. Len(pattern) + 1) \X (1 .. Len(text) + 1)] ==
             LET p == place[1]
                 t == place[2]
             IN  IF p > Len(pattern) THEN t > Len(text)
                 ELSE IF pattern[p] = "*" THEN \E k \in t .. Len(text) + 1 : M[<<p + 1, k>>]
                 ELSE t <= Len(text) /\ pattern[p] = text[t] /\ M[<<p + 1, t + 1>>]
<1>1. bound \in Nat /\ <<1, 1>> \in S /\ rank \in [S -> 0 .. bound]
  OBVIOUS
<1>2. ASSUME NEW m, NEW x \in S, \A y \in S : rank[y] < rank[x] => m[y] \in BOOLEAN
      PROVE  Meaning(m, pattern, text, x[1], x[2]) \in BOOLEAN
  <2> PICK p \in 1 .. Len(pattern) + 1, t \in 1 .. Len(text) + 1 : x = <<p, t>>
    OBVIOUS
  <2>1. p <= Len(pattern) /\ t <= Len(text) => m[<<p + 1, t + 1>>] \in BOOLEAN
    <3> SUFFICES ASSUME p <= Len(pattern), t <= Len(text) PROVE m[<<p + 1, t + 1>>] \in BOOLEAN
      OBVIOUS
    <3>1. <<p + 1, t + 1>> \in S /\ rank[<<p + 1, t + 1>>] < rank[x]
      OBVIOUS
    <3> HIDE DEF S, rank
    <3>2. QED
      BY <1>2, <3>1
  <2>2. Meaning(m, pattern, text, p, t) \in BOOLEAN
    <3>1. CASE p > Len(pattern)
      <4>1. Meaning(m, pattern, text, p, t) = (t > Len(text))
        BY <3>1 DEF Meaning
      <4>2. QED
        BY <4>1
    <3>2. CASE p <= Len(pattern) /\ pattern[p] = "*"
      <4>1. ~(p > Len(pattern))
        BY <3>2
      <4>2. Meaning(m, pattern, text, p, t) = \E k \in t .. Len(text) + 1 : m[<<p + 1, k>>]
        BY <3>2, <4>1, Zenon DEF Meaning
      <4>3. QED
        BY <4>2
    <3>3. CASE p <= Len(pattern) /\ pattern[p] # "*"
      <4>1. Meaning(m, pattern, text, p, t)
              = (t <= Len(text) /\ pattern[p] = text[t] /\ m[<<p + 1, t + 1>>])
        BY <3>3 DEF Meaning
      <4>2. QED
        BY <2>1, <3>3, <4>1
    <3>4. QED
      BY <3>1, <3>2, <3>3
  <2>3. QED
    BY <2>2
<1>3. step \in [[S -> BOOLEAN] \X S -> BOOLEAN]
  <2> HIDE DEF S, rank
  <2>1. \A fx \in [S -> BOOLEAN] \X S : Meaning(fx[1], pattern, text, fx[2][1], fx[2][2]) \in BOOLEAN
    BY <1>2
  <2>2. QED
    BY <2>1
<1>4. ASSUME NEW f \in [S -> BOOLEAN], NEW g \in [S -> BOOLEAN], NEW x \in S,
             \A y \in S : rank[y] < rank[x] => f[y] = g[y]
      PROVE  step[<<f, x>>] = step[<<g, x>>]
  <2> PICK p \in 1 .. Len(pattern) + 1, t \in 1 .. Len(text) + 1 : x = <<p, t>>
    OBVIOUS
  <2>1. ASSUME p <= Len(pattern)
        PROVE  \A k \in t .. Len(text) + 1 : f[<<p + 1, k>>] = g[<<p + 1, k>>]
    <3>1. ASSUME NEW k \in t .. Len(text) + 1
          PROVE  <<p + 1, k>> \in S /\ rank[<<p + 1, k>>] < rank[x]
      BY <2>1
    <3> HIDE DEF S, rank
    <3>2. QED
      BY <1>4, <3>1
  <2>2. t <= Len(text) => t + 1 \in t .. Len(text) + 1
    OBVIOUS
  <2>3. Meaning(f, pattern, text, p, t) = Meaning(g, pattern, text, p, t)
    <3>1. CASE p > Len(pattern)
      BY <3>1 DEF Meaning
    <3>2. CASE p <= Len(pattern) /\ pattern[p] = "*"
      BY <2>1, <3>2 DEF Meaning
    <3>3. CASE p <= Len(pattern) /\ pattern[p] # "*" /\ t <= Len(text)
      <4>1. f[<<p + 1, t + 1>>] = g[<<p + 1, t + 1>>]
        BY <2>1, <2>2, <3>3
      <4>2. QED
        BY <3>3, <4>1 DEF Meaning
    <3>4. CASE p <= Len(pattern) /\ pattern[p] # "*" /\ ~(t <= Len(text))
      BY <3>4 DEF Meaning
    <3>5. QED
      BY <3>1, <3>2, <3>3, <3>4
  <2>4. x[1] = p /\ x[2] = t
    OBVIOUS
  <2> HIDE DEF S
  <2>5. /\ step[<<f, x>>] = Meaning(f, pattern, text, x[1], x[2])
        /\ step[<<g, x>>] = Meaning(g, pattern, text, x[1], x[2])
    OBVIOUS
  <2>6. QED
    BY <2>3, <2>4, <2>5
<1>5. PICK f \in [S -> BOOLEAN] : \A x \in S : f[x] = step[<<f, x>>]
  <2> HIDE DEF S, step, rank, bound
  <2>1. Recursion(S, BOOLEAN, step, rank, bound)
    BY <1>1, <1>3, <1>4 DEF Recursion
  <2>2. QED
    BY <2>1, RecursiveFunction
<1>6. \A x \in S : f[x] = Meaning(f, pattern, text, x[1], x[2])
  <2> HIDE DEF S
  <2>1. \A x \in S : step[<<f, x>>] = Meaning(f, pattern, text, x[1], x[2])
    OBVIOUS
  <2>2. QED
    BY <1>5, <2>1
<1>7. \E h : h = [x \in S |-> Meaning(h, pattern, text, x[1], x[2])]
  <2> HIDE DEF S
  <2>1. f = [x \in S |-> Meaning(f, pattern, text, x[1], x[2])]
    BY <1>6
  <2>2. QED
    BY <2>1
<1>8. M = [x \in S |-> Meaning(M, pattern, text, x[1], x[2])]
  BY <1>7 DEF Meaning
<1>9. Matches(pattern, text) = M[<<1, 1>>]
  BY DEF Matches
<1> HIDE DEF M
<1>10. M \in [S -> BOOLEAN]
  <2> DEFINE good == [x \in S |-> M[x] \in BOOLEAN]
  <2> HIDE DEF S, rank, bound
  <2>1. good \in [S -> BOOLEAN] /\ \A x \in S : good[x] = (M[x] \in BOOLEAN)
    OBVIOUS
  <2>2. \A x \in S : M[x] = Meaning(M, pattern, text, x[1], x[2])
    BY <1>8
  <2>3. \A x \in S : (\A y \in S : rank[y] < rank[x] => good[y]) => good[x]
    BY <1>2, <2>1, <2>2
  <2> HIDE DEF good
  <2>4. Inductive(S, good, rank, bound)
    BY <1>1, <2>1, <2>3 DEF Inductive
  <2>5. QED
    BY <1>8, <2>1, <2>4, RankInduction
<1>11. \A p \in 1 .. Len(pattern) + 1, t \in 1 .. Len(text) + 1 :
         M[<<p, t>>] = Meaning(M, pattern, text, p, t)
  BY <1>8
<1>12. QED
  BY <1>9, <1>10, <1>11 DEF Means

LEMMA MeansCases ==
  ASSUME NEW pattern \in Seq(STRING), NEW text \in Seq(STRING), NEW m, Means(m, pattern, text),
         NEW p \in 1 .. Len(pattern) + 1, NEW t \in 1 .. Len(text) + 1
  PROVE  /\ m[<<p, t>>] \in BOOLEAN
         /\ p > Len(pattern) => (m[<<p, t>>] <=> t > Len(text))
         /\ p <= Len(pattern) /\ pattern[p] = "*" =>
              (m[<<p, t>>] <=> \E k \in t .. Len(text) + 1 : m[<<p + 1, k>>])
         /\ p <= Len(pattern) /\ pattern[p] # "*" =>
              (m[<<p, t>>] <=> t <= Len(text) /\ pattern[p] = text[t] /\ m[<<p + 1, t + 1>>])
<1>1. m[<<p, t>>] \in BOOLEAN
  BY DEF Means
<1>2. m[<<p, t>>] = Meaning(m, pattern, text, p, t)
  BY DEF Means
<1>3. p <= Len(pattern) => ~(p > Len(pattern))
  OBVIOUS
<1>4. QED
  BY <1>1, <1>2, <1>3, Zenon DEF Meaning

\* What has no star consumes one character of the text each.
LEMMA StarlessSegment ==
  ASSUME NEW pattern \in Seq(STRING), NEW text \in Seq(STRING), NEW m, Means(m, pattern, text)
  PROVE  \A n \in 0 .. Len(pattern) :
           \A a \in 1 .. Len(pattern) + 1, u \in 1 .. Len(text) + 1 :
             /\ a + n <= Len(pattern) + 1
             /\ \A k \in a .. a + n - 1 : pattern[k] # "*"
             /\ m[<<a, u>>]
             => u + n <= Len(text) + 1 /\ m[<<a + n, u + n>>]
<1> DEFINE P == Len(pattern)
           T == Len(text)
           S == 0 .. P
           Consumes(n) == \A a \in 1 .. P + 1, u \in 1 .. T + 1 :
                            /\ a + n <= P + 1
                            /\ \A k \in a .. a + n - 1 : pattern[k] # "*"
                            /\ m[<<a, u>>]
                            => u + n <= T + 1 /\ m[<<a + n, u + n>>]
           good == [n \in S |-> Consumes(n)]
           rank == [n \in S |-> n]
<1>1. P \in Nat /\ T \in Nat
  OBVIOUS
<1>2. rank \in [S -> 0 .. P] /\ good \in [S -> BOOLEAN] /\ \A n \in S : good[n] = Consumes(n)
  OBVIOUS
<1>3. Consumes(0)
  <2> SUFFICES ASSUME NEW a \in 1 .. P + 1, NEW u \in 1 .. T + 1, m[<<a, u>>]
               PROVE  u + 0 <= T + 1 /\ m[<<a + 0, u + 0>>]
    OBVIOUS
  <2>1. a + 0 = a /\ u + 0 = u /\ u <= T + 1
    OBVIOUS
  <2> QED
    BY <2>1
<1>4. ASSUME NEW n \in S, n # 0, Consumes(n - 1) PROVE Consumes(n)
  <2> SUFFICES ASSUME NEW a \in 1 .. P + 1, NEW u \in 1 .. T + 1, a + n <= P + 1,
                      \A k \in a .. a + n - 1 : pattern[k] # "*", m[<<a, u>>]
               PROVE  u + n <= T + 1 /\ m[<<a + n, u + n>>]
    OBVIOUS
  <2>1. a <= P /\ pattern[a] # "*"
    BY <1>1, <1>4
  <2>2. u <= T /\ m[<<a + 1, u + 1>>]
    BY <2>1, MeansCases
  <2>3. a + 1 \in 1 .. P + 1 /\ u + 1 \in 1 .. T + 1
    BY <1>1, <2>1, <2>2
  <2>4. (a + 1) + (n - 1) <= P + 1 /\ \A k \in a + 1 .. (a + 1) + (n - 1) - 1 : pattern[k] # "*"
    BY <1>1
  <2>5. (u + 1) + (n - 1) <= T + 1 /\ m[<<(a + 1) + (n - 1), (u + 1) + (n - 1)>>]
    BY <1>4, <2>2, <2>3, <2>4
  <2>6. (a + 1) + (n - 1) = a + n /\ (u + 1) + (n - 1) = u + n
    BY <1>1
  <2>7. QED
    BY <2>5, <2>6
<1> HIDE DEF Consumes
<1>5. \A n \in S : (\A y \in S : rank[y] < rank[n] => good[y]) => good[n]
  <2> SUFFICES ASSUME NEW n \in S, \A y \in S : rank[y] < rank[n] => good[y] PROVE Consumes(n)
    BY <1>2
  <2>1. CASE n = 0
    BY <1>3, <2>1
  <2>2. CASE n # 0
    <3>1. n - 1 \in S /\ rank[n - 1] < rank[n]
      BY <1>1, <2>2
    <3>2. Consumes(n - 1)
      BY <1>2, <3>1
    <3>3. QED
      BY <1>4, <2>2, <3>2
  <2>3. QED
    BY <2>1, <2>2
<1>6. \A n \in S : Consumes(n)
  <2> HIDE DEF S, rank, good
  <2>1. Inductive(S, good, rank, P)
    BY <1>1, <1>2, <1>5 DEF Inductive
  <2>2. QED
    BY <1>2, <2>1, RankInduction
<1>7. QED
  BY <1>6 DEF Consumes

\* At the end of the text only stars may be left.
LEMMA OnlyStarsLeft ==
  ASSUME NEW pattern \in Seq(STRING), NEW text \in Seq(STRING), NEW m, Means(m, pattern, text)
  PROVE  \A p \in 1 .. Len(pattern) + 1 :
           m[<<p, Len(text) + 1>>] <=> \A k \in p .. Len(pattern) : pattern[k] = "*"
<1> PICK e \in 1 .. Len(text) + 1 : e = Len(text) + 1
  OBVIOUS
<1> DEFINE P == Len(pattern)
           T == Len(text)
           S == 1 .. P + 1
           Left(p) == m[<<p, e>>] <=> \A k \in p .. P : pattern[k] = "*"
           good == [p \in S |-> Left(p)]
           rank == [p \in S |-> P + 1 - p]
<1>1. P \in Nat /\ T \in Nat /\ e \in 1 .. T + 1 /\ e = T + 1
  OBVIOUS
<1>2. rank \in [S -> 0 .. P] /\ good \in [S -> BOOLEAN] /\ \A p \in S : good[p] = Left(p)
  OBVIOUS
<1>3. Left(P + 1)
  <2>1. m[<<P + 1, e>>]
    <3>1. P + 1 \in 1 .. P + 1 /\ P + 1 > P /\ e > T
      BY <1>1
    <3>2. QED
      BY <1>1, <3>1, MeansCases
  <2>2. \A k \in P + 1 .. P : pattern[k] = "*"
    BY <1>1
  <2>3. QED
    BY <2>1, <2>2
<1>4. ASSUME NEW p \in 1 .. P, Left(p + 1) PROVE Left(p)
  <2>1. p \in 1 .. P + 1 /\ p <= P /\ ~(e <= T)
    BY <1>1
  <2>2. CASE pattern[p] = "*"
    <3>1. m[<<p, e>>] <=> \E k \in e .. T + 1 : m[<<p + 1, k>>]
      BY <1>1, <2>1, <2>2, MeansCases
    <3>2. \A k \in e .. T + 1 : k = e
      BY <1>1
    <3>3. m[<<p, e>>] <=> m[<<p + 1, e>>]
      BY <1>1, <3>1, <3>2
    <3>4. (\A k \in p .. P : pattern[k] = "*") <=> \A k \in p + 1 .. P : pattern[k] = "*"
      BY <1>1, <2>2
    <3>5. QED
      BY <1>4, <3>3, <3>4
  <2>3. CASE pattern[p] # "*"
    <3>1. ~m[<<p, e>>]
      BY <1>1, <2>1, <2>3, MeansCases
    <3>2. p \in p .. P
      BY <2>1
    <3>3. QED
      BY <2>3, <3>1, <3>2
  <2>4. QED
    BY <2>2, <2>3
<1> HIDE DEF Left
<1>5. \A p \in S : (\A y \in S : rank[y] < rank[p] => good[y]) => good[p]
  <2> SUFFICES ASSUME NEW p \in S, \A y \in S : rank[y] < rank[p] => good[y] PROVE Left(p)
    BY <1>2
  <2>1. CASE p = P + 1
    BY <1>3, <2>1
  <2>2. CASE p # P + 1
    <3>1. p \in 1 .. P /\ p + 1 \in S /\ rank[p + 1] < rank[p]
      BY <1>1, <2>2
    <3>2. Left(p + 1)
      BY <1>2, <3>1
    <3>3. QED
      BY <1>4, <3>1, <3>2
  <2>3. QED
    BY <2>1, <2>2
<1>6. \A p \in S : Left(p)
  <2> HIDE DEF S, rank, good
  <2>1. Inductive(S, good, rank, P)
    BY <1>1, <1>2, <1>5 DEF Inductive
  <2>2. QED
    BY <1>2, <2>1, RankInduction
<1>7. QED
  BY <1>6 DEF Left

\* Between the last star met and where the loop stands, one character each, none a star.
Reached(pattern, p, t, star, resume) ==
  star # 0 => (\A k \in star + 1 .. p - 1 : pattern[k] # "*") /\ p - 1 - star = t - resume

\* The last star may yet be given more.
GivesMore(m, text, star, resume) ==
  star # 0 /\ \E u \in resume + 1 .. Len(text) + 1 : m[<<star + 1, u>>]

\* If the last star is given more, the loop's place is matched further on.
LEMMA MoreIsFurther ==
  ASSUME NEW pattern \in Seq(STRING), NEW text \in Seq(STRING), NEW m, Means(m, pattern, text),
         NEW p \in 1 .. Len(pattern) + 1, NEW t \in 1 .. Len(text) + 1,
         NEW star \in 0 .. Len(pattern), NEW resume \in 1 .. Len(text) + 1, star < p, resume <= t,
         Reached(pattern, p, t, star, resume), GivesMore(m, text, star, resume)
  PROVE  \E k \in t + 1 .. Len(text) + 1 : m[<<p, k>>]
<1> DEFINE P == Len(pattern)
           T == Len(text)
           n == p - 1 - star
<1>1. P \in Nat /\ T \in Nat
  OBVIOUS
<1>2. PICK u \in resume + 1 .. T + 1 : star # 0 /\ m[<<star + 1, u>>]
  BY DEF GivesMore
<1>3. /\ \A k \in star + 1 .. p - 1 : pattern[k] # "*"
      /\ n = t - resume
  BY <1>2 DEF Reached
<1>4. /\ n \in 0 .. P /\ star + 1 \in 1 .. P + 1 /\ u \in 1 .. T + 1
      /\ (star + 1) + n <= P + 1 /\ (star + 1) + n = p
      /\ \A k \in star + 1 .. (star + 1) + n - 1 : pattern[k] # "*"
  <2>1. star \in Int /\ p \in Int /\ 0 <= star /\ star < p /\ p <= P + 1
    BY <1>1
  <2>2. n \in 0 .. P /\ (star + 1) + n = p /\ star + 1 \in 1 .. P + 1
    BY <1>1, <2>1
  <2>3. resume + 1 >= 1
    BY <1>1
  <2>4. u \in 1 .. T + 1
    BY <1>1, <1>2, <2>3
  <2>5. p <= P + 1 /\ (star + 1) + n - 1 = p - 1
    BY <2>1, <2>2
  <2> QED
    BY <1>3, <2>2, <2>4, <2>5
<1>5. u + n <= T + 1 /\ m[<<(star + 1) + n, u + n>>]
  <2> HIDE DEF n
  <2>1. QED
    BY <1>2, <1>4, StarlessSegment
<1>6. u + n \in t + 1 .. T + 1
  <2>1. u + (t - resume) <= T + 1
    BY <1>3, <1>5
  <2>2. u + (t - resume) \in t + 1 .. T + 1
    BY <1>1, <2>1
  <2>3. QED
    BY <1>3, <2>2
<1>7. QED
  BY <1>4, <1>5, <1>6

\* What the loop decides at each turn.
Scans(scan, pattern, text) ==
  \A p \in 1 .. Len(pattern) + 1, t \in 1 .. Len(text) + 1,
     star \in 0 .. Len(pattern), resume \in 1 .. Len(text) + 1 :
    star < p /\ resume <= t =>
      scan[Turn(p, t, star, resume)] =
        IF t > Len(text) THEN \A k \in p .. Len(pattern) : pattern[k] = "*"
        ELSE IF p <= Len(pattern) /\ pattern[p] = "*" THEN scan[Turn(p + 1, t, p, t)]
        ELSE IF p <= Len(pattern) /\ pattern[p] = text[t] THEN scan[Turn(p + 1, t + 1, star, resume)]
        ELSE star # 0 /\ scan[Turn(star + 1, resume + 1, star, resume + 1)]

\* The loop gets from this turn to an answer if the text from here on matches the pattern
\* from here on, or will once the last star is given more.
Decides(scan, m, pattern, text, p, t, star, resume) ==
  Reached(pattern, p, t, star, resume) =>
    (scan[Turn(p, t, star, resume)] <=> m[<<p, t>>] \/ GivesMore(m, text, star, resume))

LEMMA ScanMeans ==
  ASSUME NEW pattern \in Seq(STRING), NEW text \in Seq(STRING), NEW m, Means(m, pattern, text),
         NEW scan, Scans(scan, pattern, text),
         NEW p \in 1 .. Len(pattern) + 1, NEW t \in 1 .. Len(text) + 1,
         NEW star \in 0 .. Len(pattern), NEW resume \in 1 .. Len(text) + 1, star < p, resume <= t,
         \A q \in 1 .. Len(pattern) + 1, u \in 1 .. Len(text) + 1,
            s \in 0 .. Len(pattern), r \in 1 .. Len(text) + 1 :
           /\ s < q /\ r <= u
           /\ Weight(Len(pattern), Len(text), u, s, r) < Weight(Len(pattern), Len(text), t, star, resume)
           => Decides(scan, m, pattern, text, q, u, s, r)
  PROVE  Decides(scan, m, pattern, text, p, t, star, resume)
<1> DEFINE P == Len(pattern)
           T == Len(text)
<1> SUFFICES ASSUME Reached(pattern, p, t, star, resume)
             PROVE  scan[Turn(p, t, star, resume)] <=> m[<<p, t>>] \/ GivesMore(m, text, star, resume)
  BY DEF Decides
<1>1. P \in Nat /\ T \in Nat
  OBVIOUS
<1>2. scan[Turn(p, t, star, resume)] =
        IF t > T THEN \A k \in p .. P : pattern[k] = "*"
        ELSE IF p <= P /\ pattern[p] = "*" THEN scan[Turn(p + 1, t, p, t)]
        ELSE IF p <= P /\ pattern[p] = text[t] THEN scan[Turn(p + 1, t + 1, star, resume)]
        ELSE star # 0 /\ scan[Turn(star + 1, resume + 1, star, resume + 1)]
  BY DEF Scans
<1>3. star # 0 => /\ \A k \in star + 1 .. p - 1 : pattern[k] # "*"
                  /\ p - 1 - star = t - resume
  BY DEF Reached
<1>4. GivesMore(m, text, star, resume) => \E k \in t + 1 .. T + 1 : m[<<p, k>>]
  BY MoreIsFurther
<1>5. CASE t > T
  <2>1. t = T + 1
    BY <1>1, <1>5
  <2>2. ~GivesMore(m, text, star, resume)
    <3>1. t + 1 .. T + 1 = {}
      BY <1>1, <1>5
    <3>2. QED
      BY <1>4, <3>1
  <2>3. scan[Turn(p, t, star, resume)] = \A k \in p .. P : pattern[k] = "*"
    BY <1>2, <1>5
  <2>4. m[<<p, t>>] <=> \A k \in p .. P : pattern[k] = "*"
    BY <1>1, <2>1, OnlyStarsLeft
  <2>5. QED
    BY <2>2, <2>3, <2>4
<1>6. CASE t <= T /\ p <= P /\ pattern[p] = "*"
  <2>1. p + 1 \in 1 .. P + 1 /\ p \in 0 .. P /\ p < p + 1 /\ t <= t /\ p # 0 /\ ~(t > T)
    BY <1>1, <1>6
  <2>2. Weight(P, T, t, p, t) < Weight(P, T, t, star, resume)
    BY <1>1, <1>6, WeightFalls
  <2>3. Reached(pattern, p + 1, t, p, t)
    BY <1>1 DEF Reached
  <2>4. scan[Turn(p, t, star, resume)] = scan[Turn(p + 1, t, p, t)]
    BY <1>2, <1>6, <2>1
  <2>5. Decides(scan, m, pattern, text, p + 1, t, p, t)
    BY <2>1, <2>2
  <2>6. scan[Turn(p, t, star, resume)]
          <=> m[<<p + 1, t>>] \/ \E u \in t + 1 .. T + 1 : m[<<p + 1, u>>]
    BY <2>1, <2>3, <2>4, <2>5 DEF Decides, GivesMore
  <2>7. m[<<p, t>>] <=> \E k \in t .. T + 1 : m[<<p + 1, k>>]
    BY <1>1, <1>6, MeansCases
  <2>8. scan[Turn(p, t, star, resume)] <=> m[<<p, t>>]
    <3>1. \A k : k \in t .. T + 1 <=> k = t \/ k \in t + 1 .. T + 1
      BY <1>1
    <3>2. QED
      BY <2>6, <2>7, <3>1, Zenon
  <2>9. ASSUME GivesMore(m, text, star, resume) PROVE m[<<p, t>>]
    <3>1. PICK k \in t + 1 .. T + 1 : m[<<p, k>>]
      BY <1>4, <2>9
    <3>2. k \in 1 .. T + 1 /\ \A j \in k .. T + 1 : j \in t .. T + 1
      BY <1>1
    <3>3. \E j \in k .. T + 1 : m[<<p + 1, j>>]
      BY <1>1, <1>6, <3>1, <3>2, MeansCases
    <3>4. QED
      BY <2>7, <3>2, <3>3
  <2>10. QED
    BY <2>8, <2>9
<1>7. CASE t <= T /\ p <= P /\ pattern[p] # "*" /\ pattern[p] = text[t]
  <2>1. /\ p + 1 \in 1 .. P + 1 /\ t + 1 \in 1 .. T + 1 /\ star < p + 1 /\ resume <= t + 1
        /\ ~(t > T)
    BY <1>1, <1>7
  <2>2. Weight(P, T, t + 1, star, resume) < Weight(P, T, t, star, resume)
    BY <1>1, <1>7, WeightFalls
  <2>3. Reached(pattern, p + 1, t + 1, star, resume)
    <3>1. ASSUME star # 0
          PROVE  /\ \A k \in star + 1 .. (p + 1) - 1 : pattern[k] # "*"
                 /\ (p + 1) - 1 - star = (t + 1) - resume
      <4>1. \A k \in star + 1 .. (p + 1) - 1 : k \in star + 1 .. p - 1 \/ k = p
        BY <1>1
      <4>2. (p + 1) - 1 - star = (t + 1) - resume
        BY <1>1, <1>3, <3>1
      <4>3. QED
        BY <1>3, <1>7, <3>1, <4>1, <4>2
    <3>2. QED
      BY <3>1 DEF Reached
  <2>4. scan[Turn(p, t, star, resume)] = scan[Turn(p + 1, t + 1, star, resume)]
    BY <1>2, <1>7, <2>1
  <2>5. Decides(scan, m, pattern, text, p + 1, t + 1, star, resume)
    BY <2>1, <2>2
  <2>6. scan[Turn(p, t, star, resume)] <=> m[<<p + 1, t + 1>>] \/ GivesMore(m, text, star, resume)
    BY <2>3, <2>4, <2>5 DEF Decides
  <2>7. m[<<p, t>>] <=> m[<<p + 1, t + 1>>]
    BY <1>1, <1>7, MeansCases
  <2>8. QED
    BY <2>6, <2>7
<1>8. CASE t <= T /\ ~(p <= P /\ (pattern[p] = "*" \/ pattern[p] = text[t]))
  <2>1. ~m[<<p, t>>]
    <3>1. CASE p > P
      <4>1. ~(t > T)
        BY <1>1, <1>8
      <4>2. QED
        BY <3>1, <4>1, MeansCases
    <3>2. CASE p <= P
      <4>1. pattern[p] # "*" /\ pattern[p] # text[t]
        BY <1>8, <3>2
      <4>2. m[<<p, t>>] <=> t <= T /\ pattern[p] = text[t] /\ m[<<p + 1, t + 1>>]
        BY <3>2, <4>1, MeansCases
      <4>3. QED
        BY <4>1, <4>2
    <3>3. QED
      BY <1>1, <3>1, <3>2
  <2>2. scan[Turn(p, t, star, resume)]
          = (star # 0 /\ scan[Turn(star + 1, resume + 1, star, resume + 1)])
    <3>1. ~(t > T)
      BY <1>1, <1>8
    <3>2. QED
      BY <1>2, <1>8, <3>1
  <2>3. CASE star = 0
    BY <2>1, <2>2, <2>3 DEF GivesMore
  <2>4. CASE star # 0
    <3>1. /\ star + 1 \in 1 .. P + 1 /\ resume + 1 \in 1 .. T + 1 /\ star < star + 1
          /\ resume + 1 <= resume + 1
      BY <1>1, <1>8
    <3>2. Weight(P, T, resume + 1, star, resume + 1) < Weight(P, T, t, star, resume)
      BY <1>1, <1>8, WeightFalls
    <3>3. Reached(pattern, star + 1, resume + 1, star, resume + 1)
      BY <1>1 DEF Reached
    <3>4. Decides(scan, m, pattern, text, star + 1, resume + 1, star, resume + 1)
      BY <3>1, <3>2
    <3>5. scan[Turn(p, t, star, resume)]
            <=> m[<<star + 1, resume + 1>>]
                \/ \E u \in (resume + 1) + 1 .. T + 1 : m[<<star + 1, u>>]
      BY <2>2, <2>4, <3>3, <3>4 DEF Decides, GivesMore
    <3>6. \A u : u \in resume + 1 .. T + 1 <=> u = resume + 1 \/ u \in (resume + 1) + 1 .. T + 1
      BY <1>1, <3>1
    <3>7. GivesMore(m, text, star, resume) <=> \E u \in resume + 1 .. T + 1 : m[<<star + 1, u>>]
      BY <2>4 DEF GivesMore
    <3>8. scan[Turn(p, t, star, resume)] <=> GivesMore(m, text, star, resume)
      BY <3>5, <3>6, <3>7, Zenon
    <3>9. QED
      BY <2>1, <3>8
  <2>5. QED
    BY <2>3, <2>4
<1>9. QED
  BY <1>1, <1>5, <1>6, <1>7, <1>8

\* The loop that lets a star swallow little and gives it more on a mismatch finds a match
\* whenever there is one.
LEMMA GlobMatches ==
  ASSUME NEW pattern \in Seq(STRING), NEW text \in Seq(STRING)
  PROVE  Glob(pattern, text) <=> Matches(pattern, text)
<1> DEFINE P == Len(pattern)
           T == Len(text)
           S == Turns(pattern, text)
           bound == (P + T + 1) * (T + 2) + (T + 1)
           rank == [turn \in S |-> Rank(pattern, text, turn)]
<1>1. PICK m : Means(m, pattern, text) /\ Matches(pattern, text) = m[<<1, 1>>]
  BY MatchesMeans
<1>2. PICK scan \in [S -> BOOLEAN] :
        /\ \A turn \in S : scan[turn] = Turning(scan, pattern, text, turn)
        /\ Glob(pattern, text) = scan[Turn(1, 1, 0, 1)]
  BY GlobScans
<1>3. Scans(scan, pattern, text)
  <2> SUFFICES ASSUME NEW p \in 1 .. P + 1, NEW t \in 1 .. T + 1, NEW star \in 0 .. P,
                      NEW resume \in 1 .. T + 1, star < p, resume <= t
               PROVE  scan[Turn(p, t, star, resume)] =
                        IF t > T THEN \A k \in p .. P : pattern[k] = "*"
                        ELSE IF p <= P /\ pattern[p] = "*" THEN scan[Turn(p + 1, t, p, t)]
                        ELSE IF p <= P /\ pattern[p] = text[t]
                             THEN scan[Turn(p + 1, t + 1, star, resume)]
                        ELSE star # 0 /\ scan[Turn(star + 1, resume + 1, star, resume + 1)]
    BY DEF Scans
  <2> PICK turn \in S : /\ turn = Turn(p, t, star, resume) /\ turn.p = p /\ turn.t = t
                        /\ turn.star = star /\ turn.resume = resume
    BY TurnIs
  <2>1. scan[turn] = Turning(scan, pattern, text, turn)
    BY <1>2
  <2>2. QED
    BY <2>1, Zenon DEF Turning
<1> DEFINE good == [turn \in S |->
                      Decides(scan, m, pattern, text, turn.p, turn.t, turn.star, turn.resume)]
<1>4. bound \in Nat /\ rank \in [S -> 0 .. bound]
  <2>1. bound \in Nat
    OBVIOUS
  <2> HIDE DEF bound
  <2>2. \A turn \in S : Rank(pattern, text, turn) \in 0 .. bound
    BY TurnsClosed, Zenon DEF bound
  <2>3. QED
    BY <2>1, <2>2
<1>5. \A turn \in S : (\A y \in S : rank[y] < rank[turn] => good[y]) => good[turn]
  <2> SUFFICES ASSUME NEW turn \in S, \A y \in S : rank[y] < rank[turn] => good[y]
               PROVE  Decides(scan, m, pattern, text, turn.p, turn.t, turn.star, turn.resume)
    OBVIOUS
  <2>1. ASSUME NEW q \in 1 .. P + 1, NEW u \in 1 .. T + 1, NEW s \in 0 .. P,
               NEW r \in 1 .. T + 1, s < q, r <= u,
               Weight(P, T, u, s, r) < Weight(P, T, turn.t, turn.star, turn.resume)
        PROVE  Decides(scan, m, pattern, text, q, u, s, r)
    <3> PICK y \in S : /\ y.p = q /\ y.t = u /\ y.star = s /\ y.resume = r
                       /\ Rank(pattern, text, y) = Weight(P, T, u, s, r)
      BY <2>1, TurnIs
    <3>1. Rank(pattern, text, turn) = Weight(P, T, turn.t, turn.star, turn.resume)
      BY DEF Rank
    <3>2. rank[y] < rank[turn]
      BY <2>1, <3>1
    <3> HIDE DEF rank
    <3>3. good[y]
      BY <3>2
    <3>4. QED
      BY <3>3
  <2>2. QED
    <3> HIDE DEF rank, good
    <3>1. QED
      BY <1>1, <1>3, <2>1, TurnHas, ScanMeans
<1>6. Decides(scan, m, pattern, text, 1, 1, 0, 1)
  <2>1. \A turn \in S : good[turn]
    <3>1. good \in [S -> BOOLEAN]
      <4>1. \A turn \in S :
              Decides(scan, m, pattern, text, turn.p, turn.t, turn.star, turn.resume) \in BOOLEAN
        BY DEF Decides
      <4> HIDE DEF S
      <4>2. QED
        BY <4>1
    <3> HIDE DEF S, rank, bound, good
    <3>2. Inductive(S, good, rank, bound)
      BY <1>4, <1>5, <3>1 DEF Inductive
    <3>3. QED
      BY <3>2, RankInduction
  <2>2. PICK turn \in S : turn.p = 1 /\ turn.t = 1 /\ turn.star = 0 /\ turn.resume = 1
    <3>1. 1 \in 1 .. P + 1 /\ 1 \in 1 .. T + 1 /\ 0 \in 0 .. P /\ 0 < 1 /\ 1 <= 1
      OBVIOUS
    <3>2. QED
      BY <3>1, TurnIs
  <2>3. QED
    BY <2>1, <2>2
<1>7. scan[Turn(1, 1, 0, 1)] <=> m[<<1, 1>>]
  BY <1>6 DEF Decides, Reached, GivesMore
<1>8. QED
  BY <1>1, <1>2, <1>7

-----------------------------------------------------------------------------
(* What the rules that fired come to.                                      *)

Kinds == {"latency", "status", "truncate", "drop"}
Effects == [delay : Nat, status : Int \cup {None}, truncate : BOOLEAN, drop : BOOLEAN,
            names : Seq(Kinds)]

LEMMA DelaysAre ==
  ASSUME NEW rule \in Rules, NEW d \in Delays(rule)
  PROVE  d \in Nat /\ (rule.latency # None => rule.latency \in Nat /\ rule.latency <= d)
<1>1. /\ rule.latency \in Nat \cup {None} /\ rule.jitter \in Nat \cup {None}
      /\ None \notin Int
  BY LayerAssumption DEF Rules
<1>2. CASE rule.latency = None
  BY <1>2 DEF Delays
<1>3. CASE rule.latency # None
  <2>1. rule.latency \in Nat
    BY <1>1, <1>3
  <2>2. d \in rule.latency .. rule.latency + (IF rule.jitter = None \/ rule.jitter = 0 THEN 0
                                             ELSE rule.jitter - 1)
    BY <1>3 DEF Delays
  <2>3. (IF rule.jitter = None \/ rule.jitter = 0 THEN 0 ELSE rule.jitter - 1) \in Nat
    BY <1>1
  <2> PICK more \in Nat :
        more = IF rule.jitter = None \/ rule.jitter = 0 THEN 0 ELSE rule.jitter - 1
    BY <2>3
  <2>4. d \in rule.latency .. rule.latency + more
    BY <2>2
  <2>5. QED
    BY <2>1, <2>4
<1>4. QED
  BY <1>2, <1>3

LEMMA NamesAre ==
  ASSUME NEW rule \in Rules
  PROVE  EffectNames(rule) \in Seq(Kinds)
<1> PICK a, b, c, d \in Seq(Kinds) :
      /\ a = IF rule.latency # None THEN <<"latency">> ELSE <<>>
      /\ b = IF rule.status # None THEN <<"status">> ELSE <<>>
      /\ c = IF rule.truncate THEN <<"truncate">> ELSE <<>>
      /\ d = IF rule.drop THEN <<"drop">> ELSE <<>>
  <2>1. \A x \in Kinds : <<x>> \in Seq(Kinds)
    OBVIOUS
  <2>2. <<>> \in Seq(Kinds)
    OBVIOUS
  <2>3. /\ (IF rule.latency # None THEN <<"latency">> ELSE <<>>) \in Seq(Kinds)
        /\ (IF rule.status # None THEN <<"status">> ELSE <<>>) \in Seq(Kinds)
        /\ (IF rule.truncate THEN <<"truncate">> ELSE <<>>) \in Seq(Kinds)
        /\ (IF rule.drop THEN <<"drop">> ELSE <<>>) \in Seq(Kinds)
    BY <2>1, <2>2 DEF Kinds
  <2>4. QED
    BY <2>3
<1>1. EffectNames(rule) = a \o b \o c \o d
  BY DEF EffectNames
<1> HIDE DEF Kinds
<1>2. a \o b \o c \o d \in Seq(Kinds)
  OBVIOUS
<1>3. QED
  BY <1>1, <1>2

LEMMA ApplyIs ==
  ASSUME NEW acc \in Effects, NEW rule \in Rules, NEW d \in Nat
  PROVE  /\ Apply(acc, rule, d) \in Effects
         /\ Len(Apply(acc, rule, d).names) = Len(acc.names) + Len(EffectNames(rule))
<1>1. EffectNames(rule) \in Seq(Kinds) /\ acc.names \in Seq(Kinds)
  BY NamesAre DEF Effects
<1>2. /\ acc.names \o EffectNames(rule) \in Seq(Kinds)
      /\ Len(acc.names \o EffectNames(rule)) = Len(acc.names) + Len(EffectNames(rule))
  BY <1>1
<1>3. /\ (IF rule.status \in Statuses THEN rule.status ELSE acc.status) \in Int \cup {None}
      /\ acc.delay + d \in Nat /\ (acc.truncate \/ rule.truncate) \in BOOLEAN
      /\ (acc.drop \/ rule.drop) \in BOOLEAN
  BY DEF Effects, Rules
<1>4. QED
  BY <1>2, <1>3 DEF Apply, Effects

\* resolve's loop, turn by turn.
TurnByTurn(after, fired, delay) ==
  /\ after \in [0 .. Len(rules) -> Effects] /\ after[0] = NoEffects
  /\ \A n \in 1 .. Len(rules) :
       after[n] = IF n \in fired THEN Apply(after[n - 1], rules[n], delay[n]) ELSE after[n - 1]
  /\ Resolve(fired, delay) = after[Len(rules)]

\* The rules that fired, each with a delay it may draw.
Drew(fired, delay) ==
  /\ rules \in Seq(Rules) /\ fired \in SUBSET (1 .. Len(rules))
  /\ \A i \in fired : delay[i] \in Delays(rules[i])

LEMMA ResolveTurns ==
  ASSUME NEW fired, NEW delay, Drew(fired, delay)
  PROVE  \E after : TurnByTurn(after, fired, delay)
<1> DEFINE N == Len(rules)
           S == 0 .. N
           Turned(f, n) == IF n = 0 THEN NoEffects
                           ELSE IF n \in fired THEN Apply(f[n - 1], rules[n], delay[n])
                           ELSE f[n - 1]
           step == [fx \in [S -> Effects] \X S |-> Turned(fx[1], fx[2])]
           rank == [n \in S |-> n]
           After[n \in 0 .. Len(rules)] ==
             IF n = 0 THEN NoEffects
             ELSE IF n \in fired THEN Apply(After[n - 1], rules[n], delay[n])
             ELSE After[n - 1]
<1>0. /\ rules \in Seq(Rules) /\ fired \in SUBSET (1 .. Len(rules))
      /\ \A i \in fired : delay[i] \in Delays(rules[i])
  BY DEF Drew
<1> USE <1>0
<1>1. N \in Nat /\ NoEffects \in Effects
  BY DEF NoEffects, Effects
<1>2. rank \in [S -> 0 .. N] /\ \A n \in S : rank[n] = n
  OBVIOUS
<1>3. ASSUME NEW f, NEW n \in S, \A y \in S : rank[y] < rank[n] => f[y] \in Effects
      PROVE  Turned(f, n) \in Effects
  <2>1. CASE n = 0
    BY <1>1, <2>1
  <2>2. CASE n # 0
    <3>1. n - 1 \in S /\ rank[n - 1] < rank[n] /\ n \in 1 .. N
      BY <1>1, <2>2
    <3>2. f[n - 1] \in Effects
      BY <1>3, <3>1
    <3>3. rules[n] \in Rules
      BY <3>1
    <3>4. n \in fired => Apply(f[n - 1], rules[n], delay[n]) \in Effects
      BY <3>2, <3>3, DelaysAre, ApplyIs
    <3>5. QED
      BY <2>2, <3>2, <3>4
  <2>3. QED
    BY <2>1, <2>2
<1>4. step \in [[S -> Effects] \X S -> Effects]
  <2> HIDE DEF S, rank, Turned
  <2>1. \A fx \in [S -> Effects] \X S : Turned(fx[1], fx[2]) \in Effects
    BY <1>3
  <2>2. QED
    BY <2>1
<1>5. ASSUME NEW f \in [S -> Effects], NEW g \in [S -> Effects], NEW n \in S,
             \A y \in S : rank[y] < rank[n] => f[y] = g[y]
      PROVE  step[<<f, n>>] = step[<<g, n>>]
  <2>1. n # 0 => f[n - 1] = g[n - 1]
    <3>1. n # 0 => n - 1 \in S /\ rank[n - 1] < rank[n]
      BY <1>1
    <3> HIDE DEF S, rank
    <3>2. QED
      BY <1>5, <3>1
  <2>2. Turned(f, n) = Turned(g, n)
    BY <2>1
  <2> HIDE DEF S, Turned
  <2>3. step[<<f, n>>] = Turned(f, n) /\ step[<<g, n>>] = Turned(g, n)
    OBVIOUS
  <2>4. QED
    BY <2>2, <2>3
<1>6. PICK f \in [S -> Effects] : \A n \in S : f[n] = step[<<f, n>>]
  <2> HIDE DEF S, step, rank, N
  <2>1. Recursion(S, Effects, step, rank, N)
    BY <1>1, <1>2, <1>4, <1>5 DEF Recursion
  <2>2. QED
    BY <2>1, RecursiveFunction
<1>7. \E h : h = [n \in S |-> Turned(h, n)]
  <2> HIDE DEF S, Turned
  <2>1. \A n \in S : step[<<f, n>>] = Turned(f, n)
    OBVIOUS
  <2>2. f = [n \in S |-> Turned(f, n)]
    BY <1>6, <2>1
  <2>3. QED
    BY <2>2
<1>8. After = [n \in S |-> Turned(After, n)]
  BY <1>7
<1>9. Resolve(fired, delay) = After[N]
  BY DEF Resolve
<1> HIDE DEF After
<1>10. After \in [S -> Effects]
  <2> DEFINE good == [n \in S |-> After[n] \in Effects]
  <2> HIDE DEF S, rank, Turned, N
  <2>1. good \in [S -> BOOLEAN] /\ \A n \in S : good[n] = (After[n] \in Effects)
    OBVIOUS
  <2>2. \A n \in S : After[n] = Turned(After, n)
    BY <1>8
  <2>3. \A n \in S : (\A y \in S : rank[y] < rank[n] => good[y]) => good[n]
    BY <1>3, <2>1, <2>2
  <2> HIDE DEF good
  <2>4. Inductive(S, good, rank, N)
    BY <1>1, <1>2, <2>1, <2>3 DEF Inductive
  <2>5. QED
    BY <1>8, <2>1, <2>4, RankInduction
<1>11. After[0] = NoEffects
  <2>1. 0 \in S
    BY <1>1
  <2>2. QED
    BY <1>8, <2>1
<1>12. ASSUME NEW n \in 1 .. N
       PROVE  After[n] = IF n \in fired THEN Apply(After[n - 1], rules[n], delay[n]) ELSE After[n - 1]
  <2>1. n \in S /\ n # 0
    BY <1>1
  <2>2. QED
    BY <1>8, <2>1
<1>13. QED
  BY <1>9, <1>10, <1>11, <1>12 DEF TurnByTurn

Pairs(f) == UNION {{i} \X (1 .. f[i]) : i \in DOMAIN f}

LEMMA SumNone == ASSUME NEW f, DOMAIN f = {} PROVE IsFiniteSet(Pairs(f)) /\ SetSum(f) = 0
<1>1. Pairs(f) = {}
  BY DEF Pairs
<1>2. QED
  BY <1>1, FS_EmptySet DEF Pairs, SetSum

\* The function g has one count more than f.
Extended(f, g, D, i) ==
  i \notin D /\ f \in [D -> Nat] /\ g \in [D \cup {i} -> Nat] /\ \A x \in D : g[x] = f[x]

LEMMA SumMore ==
  ASSUME NEW D, NEW i, NEW f, NEW g, Extended(f, g, D, i), IsFiniteSet(Pairs(f))
  PROVE  IsFiniteSet(Pairs(g)) /\ SetSum(f) \in Nat /\ SetSum(g) = SetSum(f) + g[i]
<1>0. i \notin D /\ f \in [D -> Nat] /\ g \in [D \cup {i} -> Nat] /\ \A x \in D : g[x] = f[x]
  BY DEF Extended
<1> USE <1>0
<1> DEFINE New == {i} \X (1 .. g[i])
<1>1. g[i] \in Nat
  OBVIOUS
<1>2. IsFiniteSet(1 .. g[i]) /\ Cardinality(1 .. g[i]) = g[i]
  BY <1>1, FS_Interval
<1>3. IsFiniteSet({i}) /\ Cardinality({i}) = 1
  BY FS_Singleton
<1>4. IsFiniteSet(New) /\ Cardinality(New) = g[i]
  <2>1. IsFiniteSet(New) /\ Cardinality(New) = Cardinality({i}) * Cardinality(1 .. g[i])
    BY <1>2, <1>3, FS_Product
  <2>2. QED
    BY <1>1, <1>2, <1>3, <2>1
<1>5. Pairs(g) = Pairs(f) \cup New
  BY DEF Pairs
<1>6. Pairs(f) \cap New = {}
  BY DEF Pairs
<1> HIDE DEF New
<1>7. /\ IsFiniteSet(Pairs(f) \cup New)
      /\ Cardinality(Pairs(f) \cup New)
           = Cardinality(Pairs(f)) + Cardinality(New) - Cardinality(Pairs(f) \cap New)
  BY <1>4, FS_Union
<1>8. Cardinality(Pairs(f) \cap New) = 0 /\ Cardinality(Pairs(f)) \in Nat
  BY <1>6, FS_EmptySet, FS_CardinalityType
<1>9. SetSum(f) = Cardinality(Pairs(f)) /\ SetSum(g) = Cardinality(Pairs(g))
  BY DEF SetSum, Pairs
<1>10. QED
  BY <1>1, <1>4, <1>5, <1>7, <1>8, <1>9

Latencies(seen, fired) == [i \in {i \in fired : seen[i].latency # None} |-> seen[i].latency]
Names(seen, fired) == [i \in fired |-> Len(EffectNames(seen[i]))]
Valid(seen, fired) == {i \in fired : seen[i].status \in Statuses}

\* These effects are what these rules come to.
Says(e, seen, fired) ==
  /\ e \in Effects
  /\ IsFiniteSet(Pairs(Latencies(seen, fired))) /\ e.delay >= SetSum(Latencies(seen, fired))
  /\ IsFiniteSet(Pairs(Names(seen, fired))) /\ Len(e.names) = SetSum(Names(seen, fired))
  /\ \/ Valid(seen, fired) = {} /\ e.status = None
     \/ \E i \in Valid(seen, fired) :
          e.status = seen[i].status /\ \A k \in Valid(seen, fired) : k <= i
  /\ e.drop <=> \E i \in fired : seen[i].drop
  /\ e.truncate <=> \E i \in fired : seen[i].truncate

LEMMA SaysNothing == ASSUME NEW seen PROVE Says(NoEffects, seen, {})
<1>1. DOMAIN Latencies(seen, {}) = {} /\ DOMAIN Names(seen, {}) = {} /\ Valid(seen, {}) = {}
  BY DEF Latencies, Names, Valid
<1>2. /\ IsFiniteSet(Pairs(Latencies(seen, {}))) /\ SetSum(Latencies(seen, {})) = 0
      /\ IsFiniteSet(Pairs(Names(seen, {}))) /\ SetSum(Names(seen, {})) = 0
  BY <1>1, SumNone
<1>3. NoEffects \in Effects /\ NoEffects.delay = 0 /\ Len(NoEffects.names) = 0
  BY DEF NoEffects, Effects
<1>4. NoEffects.status = None /\ NoEffects.drop = FALSE /\ NoEffects.truncate = FALSE
  BY DEF NoEffects
<1>5. QED
  BY <1>1, <1>2, <1>3, <1>4 DEF Says

LEMMA SaysMore ==
  ASSUME NEW seen \in Seq(Rules), NEW n \in 1 .. Len(seen), NEW fired \in SUBSET (1 .. n - 1),
         NEW acc, Says(acc, seen, fired), NEW d \in Delays(seen[n])
  PROVE  Says(Apply(acc, seen[n], d), seen, fired \cup {n})
<1> DEFINE rule == seen[n]
           now == fired \cup {n}
           e == Apply(acc, rule, d)
<1>1. /\ rule \in Rules /\ n \in Nat /\ n \notin fired /\ Len(seen) \in Nat
      /\ \A i \in fired : i \in Nat /\ i <= n /\ i \in 1 .. Len(seen) /\ seen[i] \in Rules
  OBVIOUS
<1>2. d \in Nat /\ (rule.latency # None => rule.latency \in Nat /\ rule.latency <= d)
  BY <1>1, DelaysAre
<1>3. acc \in Effects /\ e \in Effects /\ Len(e.names) = Len(acc.names) + Len(EffectNames(rule))
  BY <1>1, <1>2, ApplyIs DEF Says
<1>4. /\ e.delay = acc.delay + d
      /\ e.status = IF rule.status \in Statuses THEN rule.status ELSE acc.status
      /\ e.truncate = (acc.truncate \/ rule.truncate) /\ e.drop = (acc.drop \/ rule.drop)
  BY DEF Apply
<1>5. acc.delay \in Nat /\ rule.latency \in Nat \cup {None} /\ Len(acc.names) \in Nat
  BY <1>1, <1>3 DEF Effects, Rules
<1>6. Len(EffectNames(rule)) \in Nat
  BY <1>1, NamesAre
<1> HIDE DEF e
<1>7. IsFiniteSet(Pairs(Latencies(seen, now))) /\ e.delay >= SetSum(Latencies(seen, now))
  <2> DEFINE D == {i \in fired : seen[i].latency # None}
             f == Latencies(seen, fired)
             g == Latencies(seen, now)
  <2>1. f \in [D -> Nat]
    BY <1>1 DEF Latencies, Rules
  <2>2. IsFiniteSet(Pairs(f)) /\ acc.delay >= SetSum(f)
    BY DEF Says
  <2>3. CASE rule.latency = None
    <3>1. g = f
      BY <1>1, <2>3 DEF Latencies
    <3>2. SetSum(f) \in Nat
      BY <2>2, FS_CardinalityType DEF SetSum, Pairs
    <3>3. QED
      BY <1>2, <1>4, <1>5, <2>2, <3>1, <3>2
  <2>4. CASE rule.latency # None
    <3>1. n \notin D /\ {i \in now : seen[i].latency # None} = D \cup {n}
      BY <1>1, <2>4
    <3>2. g = [i \in D \cup {n} |-> seen[i].latency]
      BY <3>1 DEF Latencies
    <3>3. g \in [D \cup {n} -> Nat] /\ (\A x \in D : g[x] = f[x]) /\ g[n] = rule.latency
      BY <1>1, <1>2, <2>1, <2>4, <3>2 DEF Latencies
    <3> HIDE DEF D, f, g
    <3>4. IsFiniteSet(Pairs(g)) /\ SetSum(f) \in Nat /\ SetSum(g) = SetSum(f) + g[n]
      <4>1. Extended(f, g, D, n)
        BY <2>1, <3>1, <3>3 DEF Extended
      <4>2. QED
        BY <2>2, <4>1, SumMore
    <3>5. QED
      BY <1>2, <1>4, <1>5, <2>2, <2>4, <3>3, <3>4 DEF g
  <2>5. QED
    BY <2>3, <2>4
<1>8. IsFiniteSet(Pairs(Names(seen, now))) /\ Len(e.names) = SetSum(Names(seen, now))
  <2> DEFINE f == Names(seen, fired)
             g == Names(seen, now)
  <2>1. f \in [fired -> Nat] /\ g \in [now -> Nat]
    <3>1. \A i \in now : Len(EffectNames(seen[i])) \in Nat
      BY <1>1, NamesAre
    <3>2. QED
      BY <3>1 DEF Names
  <2>2. (\A x \in fired : g[x] = f[x]) /\ g[n] = Len(EffectNames(rule))
    BY DEF Names
  <2>3. IsFiniteSet(Pairs(f)) /\ Len(acc.names) = SetSum(f)
    BY DEF Says
  <2> HIDE DEF f, g
  <2>4. IsFiniteSet(Pairs(g)) /\ SetSum(f) \in Nat /\ SetSum(g) = SetSum(f) + g[n]
    <3>1. Extended(f, g, fired, n)
      BY <1>1, <2>1, <2>2 DEF Extended
    <3>2. QED
      BY <2>3, <3>1, SumMore
  <2>5. QED
    BY <1>3, <2>2, <2>3, <2>4 DEF g
<1>9. \/ Valid(seen, now) = {} /\ e.status = None
      \/ \E i \in Valid(seen, now) :
           e.status = seen[i].status /\ \A k \in Valid(seen, now) : k <= i
  <2>1. CASE rule.status \in Statuses
    <3>1. n \in Valid(seen, now) /\ \A k \in Valid(seen, now) : k <= n
      BY <1>1, <2>1 DEF Valid
    <3>2. QED
      BY <1>4, <2>1, <3>1
  <2>2. CASE rule.status \notin Statuses
    <3>1. Valid(seen, now) = Valid(seen, fired) /\ e.status = acc.status
      BY <1>4, <2>2 DEF Valid
    <3>2. QED
      BY <3>1 DEF Says
  <2>3. QED
    BY <2>1, <2>2
<1>10. /\ e.drop <=> \E i \in now : seen[i].drop
       /\ e.truncate <=> \E i \in now : seen[i].truncate
  <2>1. /\ acc.drop <=> \E i \in fired : seen[i].drop
        /\ acc.truncate <=> \E i \in fired : seen[i].truncate
    BY DEF Says
  <2>2. QED
    BY <1>4, <2>1
<1>11. QED
  BY <1>3, <1>7, <1>8, <1>9, <1>10 DEF Says, e

LEMMA ResolveSays ==
  ASSUME NEW fired, NEW delay, Drew(fired, delay)
  PROVE  Says(Resolve(fired, delay), rules, fired)
<1> DEFINE N == Len(rules)
           S == 0 .. N
           upto(n) == fired \cap (1 .. n)
           rank == [n \in S |-> n]
<1>0. /\ rules \in Seq(Rules) /\ fired \in SUBSET (1 .. Len(rules))
      /\ \A i \in fired : delay[i] \in Delays(rules[i])
  BY DEF Drew
<1> USE <1>0
<1> PICK after : TurnByTurn(after, fired, delay)
  BY ResolveTurns
<1>1. /\ after \in [0 .. N -> Effects] /\ after[0] = NoEffects
      /\ \A n \in 1 .. N :
           after[n] = IF n \in fired THEN Apply(after[n - 1], rules[n], delay[n]) ELSE after[n - 1]
      /\ Resolve(fired, delay) = after[N]
  BY DEF TurnByTurn
<1> DEFINE good == [n \in S |-> Says(after[n], rules, upto(n))]
<1>2. N \in Nat
  OBVIOUS
<1>3. /\ rank \in [S -> 0 .. N] /\ \A n \in S : rank[n] = n
      /\ \A n \in S : good[n] = Says(after[n], rules, upto(n))
  OBVIOUS
<1>4. good \in [S -> BOOLEAN]
  <2>1. \A n \in S : Says(after[n], rules, upto(n)) \in BOOLEAN
    BY DEF Says
  <2>2. QED
    BY <2>1
<1>5. Says(after[0], rules, upto(0))
  <2>1. upto(0) = {}
    OBVIOUS
  <2>2. QED
    BY <1>1, <2>1, SaysNothing
<1>6. ASSUME NEW n \in 1 .. N, Says(after[n - 1], rules, upto(n - 1))
      PROVE  Says(after[n], rules, upto(n))
  <2>1. CASE n \in fired
    <3>1. upto(n - 1) \in SUBSET (1 .. n - 1) /\ upto(n) = upto(n - 1) \cup {n}
      BY <1>2, <2>1
    <3>2. after[n] = Apply(after[n - 1], rules[n], delay[n]) /\ delay[n] \in Delays(rules[n])
      BY <1>1, <2>1
    <3> PICK F, acc : F = upto(n - 1) /\ acc = after[n - 1]
      OBVIOUS
    <3>3. F \in SUBSET (1 .. n - 1) /\ Says(acc, rules, F)
      BY <1>6, <3>1
    <3>4. Says(Apply(acc, rules[n], delay[n]), rules, F \cup {n})
      BY <3>2, <3>3, SaysMore
    <3> HIDE DEF upto
    <3>5. QED
      BY <3>1, <3>2, <3>4
  <2>2. CASE n \notin fired
    <3>1. upto(n) = upto(n - 1)
      BY <1>2, <2>2
    <3>2. after[n] = after[n - 1]
      BY <1>1, <2>2
    <3> HIDE DEF upto
    <3>3. QED
      BY <1>6, <3>1, <3>2
  <2>3. QED
    BY <2>1, <2>2
<1>7. \A n \in S : (\A y \in S : rank[y] < rank[n] => good[y]) => good[n]
  <2> SUFFICES ASSUME NEW n \in S, \A y \in S : rank[y] < rank[n] => good[y]
               PROVE  Says(after[n], rules, upto(n))
    BY <1>3
  <2>1. CASE n = 0
    BY <1>5, <2>1
  <2>2. CASE n # 0
    <3>1. n \in 1 .. N /\ n - 1 \in S /\ rank[n - 1] < rank[n]
      BY <1>2, <2>2
    <3>2. Says(after[n - 1], rules, upto(n - 1))
      BY <1>3, <3>1
    <3>3. QED
      BY <1>6, <3>1, <3>2
  <2>3. QED
    BY <2>1, <2>2
<1>8. Says(after[N], rules, upto(N))
  <2>1. N \in S
    BY <1>2
  <2> HIDE DEF S, rank, good, N
  <2>2. Inductive(S, good, rank, N)
    BY <1>2, <1>3, <1>4, <1>7 DEF Inductive
  <2>3. QED
    BY <1>3, <2>1, <2>2, RankInduction
<1>9. upto(N) = fired
  OBVIOUS
<1>10. QED
  BY <1>1, <1>8, <1>9

-----------------------------------------------------------------------------
(* The inductive invariant.                                                *)

RulesTyped ==
  /\ rules \in Seq(Rules) /\ pending \in Seq(Rules) \cup {None}
  /\ wall \in Nat /\ since \in [Requests -> Nat]
  /\ DOMAIN effects = Requests /\ DOMAIN drawn = Requests /\ DOMAIN rows = Runs
  /\ \A r \in Requests : asks[r].path \in Seq(STRING)

\* The rules that fired for a request are those the list it saw has for its path.
Routed(r) ==
  /\ drawn[r].rules \in Seq(Rules) /\ drawn[r].fired \subseteq 1 .. Len(drawn[r].rules)
  /\ \A i \in 1 .. Len(drawn[r].rules) :
       LET hit == Matches(drawn[r].rules[i].route, asks[r].path)
       IN  /\ i \in drawn[r].fired => hit /\ drawn[r].rules[i].rate # "never"
           /\ hit /\ drawn[r].rules[i].rate = "always" => i \in drawn[r].fired

\* The layer answers in the handler's place.
Faulty(r) == effects[r].drop \/ effects[r].status # None

\* What the effects have come to, by the stage a request is in.
Suffered(r) ==
  /\ Guarded(r) /\ stage[r] \in {"handler", "buffering", "streaming"} =>
       ~Faulty(r) /\ wall >= since[r] + effects[r].delay
  /\ stage[r] = "buffering" => effects[r].truncate
  /\ stage[r] = "streaming" => ~effects[r].truncate
  /\ stage[r] \in {"idle", "delayed"} \/ Faulty(r) => \A u \in Runs : r \notin rows[u]
  /\ Faulty(r) => sent[r] = <<>>

\* The answer a request got, and its event.
Answered(r) ==
  /\ reply[r].status # None /\ Guarded(r) =>
       /\ effects[r].drop =>
            /\ reply[r].body = "broken"
            /\ reply[r].status = IF effects[r].status = None THEN 200 ELSE effects[r].status
       /\ ~effects[r].drop /\ effects[r].status # None =>
            reply[r].body = "fault" /\ reply[r].status = effects[r].status
       /\ ~Faulty(r) => (effects[r].truncate <=> reply[r].body \in {"cut", "empty"})
  /\ \A i \in 1 .. Len(log[r]) : log[r][i].kind = "http" =>
       log[r][i].latency \in Nat /\ log[r][i].latency >= effects[r].delay

Ruled(r) == /\ Routed(r) /\ Says(effects[r], drawn[r].rules, drawn[r].fired)
            /\ Suffered(r) /\ Answered(r)

RuleInv == RulesTyped /\ \A r \in Requests : Ruled(r)

Kept(q) == /\ Same(q) /\ drawn'[q] = drawn[q] /\ since'[q] = since[q]
           /\ \A u \in Runs : q \in rows'[u] => q \in rows[u]

LEMMA RoutedStays ==
  ASSUME NEW q, asks' = asks, drawn'[q] = drawn[q], effects'[q] = effects[q],
         Routed(q), Says(effects[q], drawn[q].rules, drawn[q].fired)
  PROVE  Routed(q)' /\ Says(effects[q], drawn[q].rules, drawn[q].fired)'
<1>1. Routed(q)'
  BY DEF Routed
<1>2. Says(effects'[q], drawn'[q].rules, drawn'[q].fired)
  BY Zenon
<1>3. QED
  BY <1>1, <1>2 DEF Says, Effects

LEMMA KeptRuled ==
  ASSUME NEW q \in Requests, RulesTyped, asks' = asks, wall' \in Nat, wall' >= wall, Kept(q), Ruled(q)
  PROVE  Ruled(q)'
<1>1. Routed(q)' /\ Says(effects[q], drawn[q].rules, drawn[q].fired)'
  BY RoutedStays DEF Ruled, Kept, Same
<1>2. Guarded(q)' = Guarded(q) /\ Faulty(q)' = Faulty(q)
  BY DEF Guarded, Faulty, Kept, Same
<1>3. Suffered(q)'
  <2>1. wall >= since[q] + effects[q].delay => wall' >= since'[q] + effects'[q].delay
    <3>1. since[q] \in Nat /\ effects[q].delay \in Nat /\ wall \in Nat
      BY DEF RulesTyped, Ruled, Says, Effects
    <3>2. QED
      BY <3>1 DEF Kept, Same
  <2>2. QED
    BY <1>2, <2>1 DEF Suffered, Ruled, Kept, Same
<1>4. Answered(q)'
  BY <1>2 DEF Answered, Ruled, Kept, Same
<1>5. QED
  BY <1>1, <1>3, <1>4 DEF Ruled

LEMMA OneRuled ==
  ASSUME RuleInv, NEW r \in Requests, asks' = asks, RulesTyped', wall' >= wall,
         \A q \in Requests : q # r => Kept(q), Ruled(r)'
  PROVE  RuleInv'
<1>1. \A q \in Requests : q # r => Ruled(q)'
  BY KeptRuled DEF RuleInv, RulesTyped
<1>2. QED
  BY <1>1 DEF RuleInv

LEMMA NoneRuled ==
  ASSUME RuleInv, asks' = asks, RulesTyped', wall' >= wall, \A q \in Requests : Kept(q)
  PROVE  RuleInv'
<1>1. \A q \in Requests : Ruled(q)'
  BY KeptRuled DEF RuleInv, RulesTyped
<1>2. QED
  BY <1>1 DEF RuleInv

\* The layer gives an answer that is what the effects say.
LEMMA RespondRuled ==
  ASSUME RuleInv, TellInv, DataTyped, NEW r \in Requests, NEW s, NEW b, Respond(r, s, b), s # None,
         sent' = sent, DOMAIN rows' = Runs,
         \A u \in Runs : \A q \in Requests :
           q \in rows'[u] => q \in rows[u] \/ (q = r /\ ~Faulty(r)),
         b = "stream" => ~effects[r].truncate /\ Guarded(r),
         Guarded(r) =>
           /\ wall >= since[r] + effects[r].delay
           /\ effects[r].drop =>
                b = "broken" /\ s = IF effects[r].status = None THEN 200 ELSE effects[r].status
           /\ ~effects[r].drop /\ effects[r].status # None => b = "fault" /\ s = effects[r].status
           /\ ~Faulty(r) => (effects[r].truncate <=> b \in {"cut", "empty"})
  PROVE  RuleInv'
<1> DEFINE e == [kind |-> "http", status |-> s, latency |-> wall - since[r],
                 faults |-> effects[r].names]
<1>1. /\ asks' = asks /\ effects' = effects /\ drawn' = drawn /\ since' = since /\ wall' = wall
      /\ rules' = rules /\ pending' = pending
      /\ reply' = [reply EXCEPT ![r] = [status |-> s, body |-> b]]
      /\ stage' = [stage EXCEPT ![r] = IF b = "stream" THEN "streaming" ELSE "answered"]
      /\ log' = IF ~Guarded(r) THEN log ELSE [log EXCEPT ![r] = Append(@, e)]
  BY DEF Respond
<1>2. e.latency = wall - since[r]
  OBVIOUS
<1> HIDE DEF e
<1>3. RulesTyped /\ Ruled(r) /\ IsSeq(log[r]) /\ Domains
  BY DEF RuleInv, TellInv, Tells
<1>4. RulesTyped' /\ wall' >= wall
  BY <1>1, <1>3 DEF RulesTyped
<1>5. \A q \in Requests : q # r => Kept(q)
  BY <1>1, <1>3 DEF Kept, Same, DataTyped, Domains
<1>6. /\ reply'[r].status = s /\ reply'[r].body = b
      /\ stage'[r] = (IF b = "stream" THEN "streaming" ELSE "answered")
      /\ log'[r] = IF Guarded(r) THEN Append(log[r], e) ELSE log[r]
  BY <1>1, <1>3 DEF DataTyped, Domains
<1>7. Guarded(r)' = Guarded(r) /\ Faulty(r)' = Faulty(r)
  BY <1>1 DEF Guarded, Faulty
<1>8. Routed(r)' /\ Says(effects[r], drawn[r].rules, drawn[r].fired)'
  BY <1>1, <1>3, RoutedStays DEF Ruled
<1>9. wall \in Nat /\ since[r] \in Nat /\ effects[r].delay \in Nat
  BY <1>3 DEF RulesTyped, Ruled, Says, Effects
<1>10. Suffered(r)'
  <2>1. b = "stream" => ~Faulty(r)
    BY DEF Faulty
  <2>2. Faulty(r) => sent'[r] = <<>> /\ \A u \in Runs : r \notin rows'[u]
    BY <1>3 DEF Ruled, Suffered
  <2>3. QED
    BY <1>1, <1>6, <1>7, <2>1, <2>2 DEF Suffered
<1>11. Answered(r)'
  <2>1. \A i \in 1 .. Len(log'[r]) :
          log'[r][i].kind = "http" => log'[r][i].latency \in Nat /\ log'[r][i].latency >= effects[r].delay
    <3>1. \A i \in 1 .. Len(log[r]) :
            log[r][i].kind = "http" =>
       log[r][i].latency \in Nat /\ log[r][i].latency >= effects[r].delay
      BY <1>3 DEF Ruled, Answered
    <3>2. CASE ~Guarded(r)
      BY <1>6, <3>1, <3>2
    <3>3. CASE Guarded(r)
      <4>1. e.latency \in Nat /\ e.latency >= effects[r].delay
        BY <1>2, <1>9, <3>3
      <4>2. /\ Len(log'[r]) = Len(log[r]) + 1 /\ Len(log[r]) \in Nat
            /\ \A i \in 1 .. Len(log[r]) : log'[r][i] = log[r][i]
            /\ log'[r][Len(log[r]) + 1] = e
        BY <1>3, <1>6, <3>3, SeqAppend, SeqLen
      <4>3. \A i \in 1 .. Len(log'[r]) : i \in 1 .. Len(log[r]) \/ i = Len(log[r]) + 1
        BY <4>2
      <4>4. QED
        BY <3>1, <4>1, <4>2, <4>3
    <3>4. QED
      BY <3>2, <3>3
  <2>2. QED
    BY <1>1, <1>6, <1>7, <2>1 DEF Answered
<1>12. Ruled(r)'
  BY <1>8, <1>10, <1>11 DEF Ruled
<1>13. QED
  BY <1>1, <1>4, <1>5, <1>12, OneRuled

\* A request moves on unanswered.
LEMMA MoveRuled ==
  ASSUME RuleInv, TellInv, DataTyped, NEW r \in Requests, NEW to,
         stage' = [stage EXCEPT ![r] = to], UNCHANGED <<asks, rules, pending, wall, since, effects,
         reply, log, drawn, rows, sent>>,
         \/ to = "gone"
         \/ /\ to \in {"handler", "buffering"}
            /\ Guarded(r) => ~Faulty(r) /\ wall >= since[r] + effects[r].delay
            /\ to = "buffering" => effects[r].truncate
  PROVE  RuleInv'
<1>1. RulesTyped /\ Ruled(r)
  BY DEF RuleInv
<1>2. RulesTyped' /\ wall' >= wall
  BY <1>1 DEF RulesTyped
<1>3. \A q \in Requests : q # r => Kept(q)
  BY DEF Kept, Same, DataTyped
<1>4. stage'[r] = to
  BY DEF DataTyped
<1>5. Guarded(r)' = Guarded(r) /\ Faulty(r)' = Faulty(r)
  BY DEF Guarded, Faulty
<1>6. Routed(r)' /\ Says(effects[r], drawn[r].rules, drawn[r].fired)'
  BY <1>1, RoutedStays DEF Ruled
<1>7. Suffered(r)'
  BY <1>1, <1>4, <1>5 DEF Suffered, Ruled
<1>8. Answered(r)'
  BY <1>1, <1>5 DEF Answered, Ruled
<1>9. QED
  BY <1>2, <1>3, <1>6, <1>7, <1>8, OneRuled DEF Ruled

\* A request arrives: the rules are read and tossed for, or it goes past the layer.
LEMMA ArriveRuled ==
  ASSUME RuleInv, TellInv, DataTyped, NEW r \in Requests, Arrive(r), UNCHANGED <<rows, sent>>
  PROVE  RuleInv'
<1>1. /\ UNCHANGED <<asks, rules, pending, wall, reply, log>> /\ stage[r] = "idle"
      /\ since' = [since EXCEPT ![r] = wall]
  BY DEF Arrive
<1>2. RulesTyped /\ Ruled(r) /\ Domains
  BY DEF RuleInv, TellInv
<1>3. /\ Guarded(r)' = Guarded(r) /\ asks[r].path \in Seq(STRING) /\ rules \in Seq(Rules)
      /\ wall \in Nat /\ wall' >= wall /\ since'[r] = wall
  BY <1>1, <1>2 DEF Guarded, RulesTyped
<1>4. log[r] = <<>> /\ sent[r] = <<>> /\ reply[r].status = None /\ Len(log[r]) = 0
  BY <1>1, Untold, SeqNil
<1>5. Answered(r)'
  BY <1>1, <1>4 DEF Answered
<1>6. \A u \in Runs : r \notin rows[u]
  BY <1>1, <1>2 DEF Ruled, Suffered
<1>7. CASE ~Guarded(r)
  <2>1. stage' = [stage EXCEPT ![r] = "handler"] /\ UNCHANGED <<effects, drawn>>
    BY <1>7 DEF Arrive
  <2>2. RulesTyped'
    BY <1>1, <1>2, <1>3, <2>1 DEF RulesTyped
  <2>3. \A q \in Requests : q # r => Kept(q)
    BY <1>1, <1>2, <2>1 DEF Kept, Same, DataTyped, RulesTyped
  <2>4. Routed(r)' /\ Says(effects[r], drawn[r].rules, drawn[r].fired)'
    BY <1>1, <1>2, <2>1, RoutedStays DEF Ruled
  <2>5. stage'[r] = "handler"
    BY <2>1 DEF DataTyped
  <2>6. Suffered(r)'
    BY <1>3, <1>4, <1>6, <1>7, <2>5 DEF Suffered
  <2>7. QED
    BY <1>1, <1>3, <1>5, <2>2, <2>3, <2>4, <2>6, OneRuled DEF Ruled
<1>8. CASE Guarded(r)
  <2>1. PICK F \in MayFire(FaultsFor(asks[r].path)) :
          \E delay \in [F -> UNION {Delays(rules[i]) : i \in F}] :
            /\ \A i \in F : delay[i] \in Delays(rules[i])
            /\ effects' = [effects EXCEPT ![r] = Resolve(F, delay)]
            /\ drawn' = [drawn EXCEPT ![r] = [rules |-> rules, fired |-> F]]
            /\ stage' = [stage EXCEPT ![r] = "delayed"]
    BY <1>8 DEF Arrive
  <2>2. PICK delay : /\ \A i \in F : delay[i] \in Delays(rules[i])
                     /\ effects' = [effects EXCEPT ![r] = Resolve(F, delay)]
                     /\ drawn' = [drawn EXCEPT ![r] = [rules |-> rules, fired |-> F]]
                     /\ stage' = [stage EXCEPT ![r] = "delayed"]
    BY <2>1
  <2>3. /\ effects'[r] = Resolve(F, delay)
        /\ drawn'[r].rules = rules /\ drawn'[r].fired = F /\ stage'[r] = "delayed"
    BY <1>2, <2>2 DEF DataTyped, RulesTyped
  <2>4. RulesTyped'
    BY <1>1, <1>2, <1>3, <2>2 DEF RulesTyped
  <2>5. \A q \in Requests : q # r => Kept(q)
    BY <1>1, <1>2, <2>2 DEF Kept, Same, DataTyped, RulesTyped
  <2>6. /\ F \subseteq FaultsFor(asks[r].path)
        /\ \A i \in FaultsFor(asks[r].path) : /\ rules[i].rate = "always" => i \in F
                                              /\ rules[i].rate = "never" => i \notin F
    BY <2>1 DEF MayFire
  <2>7. \A i \in 1 .. Len(rules) : /\ rules[i].route \in Seq(STRING)
                                   /\ Glob(rules[i].route, asks[r].path)
                                        <=> Matches(rules[i].route, asks[r].path)
    <3>1. \A i \in 1 .. Len(rules) : rules[i] \in Rules
      BY <1>3
    <3>2. \A i \in 1 .. Len(rules) : rules[i].route \in Seq(STRING)
      BY <3>1 DEF Rules
    <3>3. QED
      BY <1>3, <3>2, GlobMatches
  <2>8. \A i : i \in FaultsFor(asks[r].path)
                 <=> i \in 1 .. Len(rules) /\ Matches(rules[i].route, asks[r].path)
    <3>1. DOMAIN rules = 1 .. Len(rules)
      BY <1>3
    <3>2. QED
      BY <2>7, <3>1 DEF FaultsFor
  <2>9. F \subseteq 1 .. Len(rules) /\ Drew(F, delay)
    BY <1>3, <2>2, <2>6, <2>8 DEF Drew
  <2>10. Routed(r)'
    <3>1. \A i \in 1 .. Len(rules) :
            LET hit == Matches(rules[i].route, asks[r].path)
            IN  /\ i \in F => hit /\ rules[i].rate # "never"
                /\ hit /\ rules[i].rate = "always" => i \in F
      BY <2>6, <2>8
    <3>2. QED
      BY <1>1, <1>3, <2>3, <2>9, <3>1 DEF Routed
  <2>11. Says(effects'[r], drawn'[r].rules, drawn'[r].fired)
    <3>1. Says(Resolve(F, delay), rules, F)
      BY <2>9, ResolveSays
    <3>2. QED
      BY <2>3, <3>1, Zenon
  <2>12. Says(effects[r], drawn[r].rules, drawn[r].fired)'
    BY <2>11 DEF Says, Effects
  <2>13. Suffered(r)'
    BY <1>4, <1>6, <2>3 DEF Suffered
  <2>14. QED
    BY <1>1, <1>3, <1>5, <2>4, <2>5, <2>10, <2>12, <2>13, OneRuled DEF Ruled
<1>9. QED
  BY <1>7, <1>8

LEMMA LayerRuled ==
  ASSUME RuleInv, TellInv, DataTyped, NEW r \in Requests, LayerStep(r), UNCHANGED <<rows, sent>>
  PROVE  RuleInv'
<1>1. RulesTyped /\ Ruled(r)
  BY DEF RuleInv
<1>2. DOMAIN rows' = Runs
  BY <1>1 DEF RulesTyped
<1>3. CASE Arrive(r)
  BY <1>3, ArriveRuled
<1>4. CASE ShortCircuit(r)
  <2>1. wall >= since[r] + effects[r].delay
    BY <1>4 DEF ShortCircuit, Awake
  <2>2. CASE /\ effects[r].drop
             /\ Respond(r, IF effects[r].status = None THEN 200 ELSE effects[r].status, "broken")
    <3>1. (IF effects[r].status = None THEN 200 ELSE effects[r].status) # None
      BY LayerAssumption
    <3>2. QED
      BY <1>2, <2>1, <2>2, <3>1, RespondRuled DEF Faulty
  <2>3. CASE /\ ~effects[r].drop /\ effects[r].status # None
             /\ Respond(r, effects[r].status, "fault")
    BY <1>2, <2>1, <2>3, RespondRuled DEF Faulty
  <2>4. QED
    BY <1>4, <2>2, <2>3 DEF ShortCircuit
<1>5. CASE EnterHandler(r)
  BY <1>5, MoveRuled DEF EnterHandler, Awake, Faulty
<1>6. CASE Ping(r)
  <2>1. /\ stage[r] = "handler" /\ Respond(r, 200, IF effects[r].truncate THEN "cut" ELSE "json")
    BY <1>6 DEF Ping, Handled
  <2>2. 200 # None
    BY LayerAssumption
  <2>3. Guarded(r) => ~Faulty(r) /\ wall >= since[r] + effects[r].delay
    BY <1>1, <2>1 DEF Ruled, Suffered
  <2>4. QED
    BY <1>2, <2>1, <2>2, <2>3, RespondRuled DEF Faulty
<1>7. QED
  BY <1>3, <1>4, <1>5, <1>6 DEF LayerStep

\* A handler that had the whole body answers.
LEMMA HandledRuled ==
  ASSUME RuleInv, TellInv, DataTyped, NEW r \in Requests, NEW s \in Int, stage[r] = "handler",
         Handled(r, s), sent' = sent, DOMAIN rows' = Runs,
         \A u \in Runs : \A q \in Requests :
           q \in rows'[u] => q \in rows[u] \/ (q = r /\ Guarded(r))
  PROVE  RuleInv'
<1>1. Respond(r, s, IF effects[r].truncate THEN "cut" ELSE "json")
  BY DEF Handled
<1>2. s # None
  BY LayerAssumption
<1>3. Guarded(r) => ~Faulty(r) /\ wall >= since[r] + effects[r].delay
  BY DEF RuleInv, Ruled, Suffered
<1>4. QED
  BY <1>1, <1>2, <1>3, RespondRuled DEF Faulty

LEMMA StillRuled ==
  ASSUME RuleInv, RulesTyped', wall' >= wall,
         UNCHANGED <<asks, stage, since, effects, reply, log, drawn, rows, sent>>
  PROVE  RuleInv'
<1>1. \A q \in Requests : Kept(q)
  BY DEF Kept, Same
<1>2. QED
  BY <1>1, NoneRuled

LEMMA DataRuled ==
  ASSUME RuleInv, TellInv, DataTyped, NEW r \in Requests, DataStep(r), sent' = sent
  PROVE  RuleInv'
<1>1. RulesTyped
  BY DEF RuleInv
<1>2. ASSUME NEW to, Goes(r, to), rows' = rows PROVE RuleInv'
  <2>1. UNCHANGED <<layerVars, rows>>
    BY <1>2 DEF Goes
  <2>2. RulesTyped' /\ wall' >= wall
    BY <1>1, <2>1 DEF RulesTyped, layerVars
  <2>3. QED
    BY <2>1, <2>2, StillRuled DEF layerVars
<1>3. ASSUME NEW s \in Int, InHandler(r), Ends(r, s), DOMAIN rows' = Runs,
             \A u \in Runs : \A q \in Requests :
               q \in rows'[u] => q \in rows[u] \/ (q = r /\ Guarded(r))
      PROVE  RuleInv'
  BY <1>3, HandledRuled DEF Ends, InHandler
<1>4. ASSUME NEW s \in Int, InHandler(r), Ends(r, s), rows' = rows PROVE RuleInv'
  BY <1>1, <1>3, <1>4 DEF RulesTyped
<1>5. CASE Reject(r)
  <2>1. PICK s \in {400, 503} : Ends(r, s)
    BY <1>5 DEF Reject
  <2>2. InHandler(r) /\ rows' = rows
    BY <1>5 DEF Reject, Start
  <2>3. QED
    BY <1>4, <2>1, <2>2
<1>6. CASE ListRuns(r)
  BY <1>4, <1>6 DEF ListRuns, Accepted, Start
<1>7. CASE Acquire(r)
  BY <1>2, <1>4, <1>7 DEF Acquire
<1>8. CASE Execute(r)
  <2>1. ItemStatus(r) \in Int
    BY DEF ItemStatus
  <2>2. InHandler(r) /\ asks[r].op \in ItemOps /\ Ends(r, ItemStatus(r))
    BY <1>8 DEF Execute
  <2>3. Guarded(r)
    BY <2>2 DEF Guarded, ItemOps, AdminOps
  <2>4. \/ rows' = [rows EXCEPT ![RunOf(r)] = @ \cup {r}]
        \/ rows' = [rows EXCEPT ![RunOf(r)] = @ \ {asks[r].item}]
        \/ rows' = rows
    BY <1>8 DEF Execute
  <2>5. /\ DOMAIN rows' = Runs
        /\ \A u \in Runs : \A q \in Requests : q \in rows'[u] => q \in rows[u] \/ q = r
    BY <1>1, <2>4 DEF RulesTyped
  <2>6. QED
    BY <1>3, <2>1, <2>2, <2>3, <2>5
<1>9. CASE Migrate(r)
  <2>1. PICK s \in {500, 200} : Ends(r, s)
    BY <1>9 DEF Migrate
  <2>2. QED
    BY <1>4, <1>9, <2>1 DEF Migrate
<1>10. CASE DropSchema(r)
  <2>1. InHandler(r) /\ Ends(r, 200) /\ rows' = [rows EXCEPT ![RunOf(r)] = {}]
    BY <1>10 DEF DropSchema
  <2>2. /\ DOMAIN rows' = Runs
        /\ \A u \in Runs : \A q \in Requests : q \in rows'[u] => q \in rows[u]
    BY <1>1, <2>1 DEF RulesTyped
  <2>3. QED
    BY <1>3, <2>1, <2>2
<1>11. CASE Begin(r) \/ CreateSchema(r) \/ Look(r) \/ Connect(r) \/ Insert(r)
            \/ RemovePool(r) \/ PoolClosed(r)
  <2>1. rows' = rows /\ \E to : Goes(r, to)
    BY <1>11 DEF Begin, CreateSchema, Look, Connect, Insert, RemovePool, PoolClosed
  <2>2. QED
    BY <1>2, <2>1
<1>12. QED
  BY <1>5, <1>6, <1>7, <1>8, <1>9, <1>10, <1>11 DEF DataStep

LEMMA CompleteRuled ==
  ASSUME RuleInv, TellInv, DataTyped, NEW r \in Requests, Complete(r), rows' = rows
  PROVE  RuleInv'
<1> DEFINE e == [kind |-> "http", status |-> 200, latency |-> wall - since[r],
                 faults |-> effects[r].names]
           c == [kind |-> "chunk", seq |-> 0]
           x == Chunk("token", ReplyText(asks[r]))
           b == IF effects[r].truncate THEN "cut" ELSE "json"
<1>1. /\ UNCHANGED <<asks, rules, pending, wall, since, effects, drawn>>
      /\ stage[r] = "handler" /\ asks[r].op = "chat"
      /\ reply' = [reply EXCEPT ![r] = [status |-> 200, body |-> b]]
      /\ stage' = [stage EXCEPT ![r] = "answered"]
      /\ sent' = [sent EXCEPT ![r] = <<x>>]
      /\ log' = [log EXCEPT ![r] = @ \o <<c, e>>]
  BY DEF Complete
<1>2. e.latency = wall - since[r] /\ c.kind # "http"
  OBVIOUS
<1>3. effects[r].truncate <=> b \in {"cut", "empty"}
  OBVIOUS
<1> HIDE DEF e, c, x, b
<1>4. RulesTyped /\ Ruled(r) /\ Domains
  BY DEF RuleInv, TellInv
<1>5. Guarded(r) /\ Guarded(r)' /\ Faulty(r)' = Faulty(r)
  BY <1>1 DEF Guarded, AdminOps, Faulty
<1>6. ~Faulty(r) /\ wall >= since[r] + effects[r].delay
  BY <1>1, <1>4, <1>5 DEF Ruled, Suffered
<1>7. wall \in Nat /\ since[r] \in Nat /\ effects[r].delay \in Nat
  BY <1>4 DEF RulesTyped, Ruled, Says, Effects
<1>8. RulesTyped' /\ wall' >= wall
  BY <1>1, <1>4, <1>7 DEF RulesTyped
<1>9. \A q \in Requests : q # r => Kept(q)
  BY <1>1, <1>4 DEF Kept, Same, DataTyped, Domains
<1>10. /\ reply'[r].body = b /\ stage'[r] = "answered" /\ log'[r] = log[r] \o <<c, e>>
  BY <1>1, <1>4 DEF DataTyped, Domains
<1>11. Len(log'[r]) = 2 /\ log'[r][1] = c /\ log'[r][2] = e
  BY <1>1, <1>10, Untold, SeqTwo
<1>12. Routed(r)' /\ Says(effects[r], drawn[r].rules, drawn[r].fired)'
  BY <1>1, <1>4, RoutedStays DEF Ruled
<1>13. Suffered(r)'
  BY <1>5, <1>6, <1>10 DEF Suffered
<1>14. Answered(r)'
  <2>1. e.latency \in Nat /\ e.latency >= effects[r].delay
    BY <1>2, <1>6, <1>7
  <2>2. \A i \in 1 .. Len(log'[r]) : log'[r][i].kind = "http" => log'[r][i].latency \in Nat /\ log'[r][i].latency >= effects[r].delay
    <3>1. \A i \in 1 .. Len(log'[r]) : i = 1 \/ i = 2
      BY <1>11
    <3>2. QED
      BY <1>2, <1>11, <2>1, <3>1
  <2>3. QED
    BY <1>1, <1>3, <1>5, <1>6, <1>10, <2>2 DEF Answered, Faulty
<1>15. QED
  BY <1>1, <1>8, <1>9, <1>12, <1>13, <1>14, OneRuled DEF Ruled

LEMMA OpenRuled ==
  ASSUME RuleInv, TellInv, DataTyped, NEW r \in Requests, Open(r), rows' = rows
  PROVE  RuleInv'
<1>1. /\ stage[r] = "handler" /\ Streamed(r) /\ sent' = sent
  BY DEF Open
<1>2. Guarded(r) /\ 200 # None
  BY <1>1, LayerAssumption DEF Streamed, StreamOp, Guarded, AdminOps
<1>3. ~Faulty(r) /\ wall >= since[r] + effects[r].delay /\ DOMAIN rows' = Runs
  BY <1>1, <1>2 DEF RuleInv, Ruled, Suffered, RulesTyped
<1>4. CASE effects[r].truncate
  <2>1. /\ stage' = [stage EXCEPT ![r] = "buffering"]
        /\ UNCHANGED <<asks, rules, pending, wall, since, effects, reply, log, drawn>>
    BY <1>4 DEF Open
  <2>2. QED
    BY <1>1, <1>3, <1>4, <2>1, MoveRuled
<1>5. CASE ~effects[r].truncate
  <2>1. Respond(r, 200, "stream")
    BY <1>5 DEF Open
  <2>2. QED
    BY <1>1, <1>2, <1>3, <1>5, <2>1, RespondRuled DEF Faulty
<1>6. QED
  BY <1>4, <1>5

LEMMA WriteRuled ==
  ASSUME RuleInv, TellInv, DataTyped, NEW r \in Requests, Write(r), rows' = rows
  PROVE  RuleInv'
<1> DEFINE c == [kind |-> "chunk", seq |-> Seq0(r)]
           x == Pieces(asks[r])[Seq0(r) + 1]
<1>1. /\ UNCHANGED <<asks, rules, pending, wall, stage, since, effects, reply, drawn>>
      /\ Reading(r)
      /\ sent' = [sent EXCEPT ![r] = Append(@, x)]
      /\ log' = [log EXCEPT ![r] = Append(@, c)]
  BY DEF Write
<1>2. c.kind # "http"
  OBVIOUS
<1> HIDE DEF c, x
<1>3. RulesTyped /\ Ruled(r) /\ Domains /\ IsSeq(log[r]) /\ StageRight(r)
  BY DEF RuleInv, TellInv, Tells
<1>4. Guarded(r) /\ Guarded(r)' /\ Faulty(r)' = Faulty(r)
  BY <1>1, <1>3 DEF StageRight, Reading, Streamed, StreamOp, Guarded, AdminOps, Faulty
<1>5. ~Faulty(r)
  BY <1>1, <1>3, <1>4 DEF Ruled, Suffered, Reading
<1>6. RulesTyped' /\ wall' >= wall
  BY <1>1, <1>3 DEF RulesTyped
<1>7. \A q \in Requests : q # r => Kept(q)
  BY <1>1, <1>3 DEF Kept, Same, Domains
<1>8. log'[r] = Append(log[r], c)
  BY <1>1, <1>3 DEF Domains
<1>9. /\ Len(log'[r]) = Len(log[r]) + 1 /\ Len(log[r]) \in Nat
      /\ \A i \in 1 .. Len(log[r]) : log'[r][i] = log[r][i]
      /\ log'[r][Len(log[r]) + 1] = c
  BY <1>3, <1>8, SeqAppend, SeqLen
<1>10. Routed(r)' /\ Says(effects[r], drawn[r].rules, drawn[r].fired)'
  BY <1>1, <1>3, RoutedStays DEF Ruled
<1>11. Suffered(r)'
  BY <1>1, <1>3, <1>4, <1>5 DEF Suffered, Ruled
<1>12. Answered(r)'
  <2>1. \A i \in 1 .. Len(log'[r]) : i \in 1 .. Len(log[r]) \/ i = Len(log[r]) + 1
    BY <1>9
  <2>2. \A i \in 1 .. Len(log'[r]) : log'[r][i].kind = "http" => log'[r][i].latency \in Nat /\ log'[r][i].latency >= effects[r].delay
    BY <1>2, <1>3, <1>9, <2>1 DEF Ruled, Answered
  <2>3. QED
    BY <1>1, <1>3, <1>4, <2>2 DEF Answered, Ruled
<1>13. QED
  BY <1>1, <1>6, <1>7, <1>10, <1>11, <1>12, OneRuled DEF Ruled

LEMMA EndStreamRuled ==
  ASSUME RuleInv, TellInv, DataTyped, NEW r \in Requests, EndStream(r), rows' = rows
  PROVE  RuleInv'
<1>1. Reading(r) /\ sent' = sent
  BY DEF EndStream, streamVars
<1>2. RulesTyped /\ Ruled(r) /\ Domains /\ StageRight(r)
  BY DEF RuleInv, TellInv, Tells
<1>3. Guarded(r) /\ 500 # None /\ 200 # None
  BY <1>1, <1>2, LayerAssumption DEF StageRight, Reading, Streamed, StreamOp, Guarded, AdminOps
<1>4. ~Faulty(r) /\ wall >= since[r] + effects[r].delay /\ DOMAIN rows' = Runs
  BY <1>1, <1>2, <1>3 DEF Ruled, Suffered, RulesTyped, Reading
<1>5. CASE stage[r] = "buffering"
  <2>1. effects[r].truncate
    BY <1>2, <1>5 DEF Ruled, Suffered
  <2>2. Respond(r, 500, "empty") \/ Respond(r, 200, "cut")
    BY <1>5 DEF EndStream
  <2>3. QED
    BY <1>1, <1>3, <1>4, <2>1, <2>2, RespondRuled DEF Faulty
<1>6. CASE stage[r] # "buffering"
  <2>1. PICK b \in {"broken", "whole"} :
          /\ UNCHANGED <<asks, rules, pending, wall, since, effects, log, drawn>>
          /\ stage' = [stage EXCEPT ![r] = "answered"]
          /\ reply' = [reply EXCEPT ![r].body = b]
    BY <1>6 DEF EndStream
  <2>2. stage[r] = "streaming" /\ ~effects[r].truncate
    BY <1>1, <1>2, <1>6 DEF Reading, Ruled, Suffered
  <2>3. /\ reply'[r].body = b /\ reply'[r].status = reply[r].status /\ stage'[r] = "answered"
    BY <2>1 DEF DataTyped
  <2>4. Guarded(r)' = Guarded(r) /\ Faulty(r)' = Faulty(r)
    BY <2>1 DEF Guarded, Faulty
  <2>5. RulesTyped' /\ wall' >= wall
    BY <1>2, <2>1 DEF RulesTyped
  <2>6. \A q \in Requests : q # r => Kept(q)
    BY <1>1, <2>1 DEF Kept, Same, DataTyped
  <2>7. Routed(r)' /\ Says(effects[r], drawn[r].rules, drawn[r].fired)'
    BY <1>2, <2>1, RoutedStays DEF Ruled
  <2>8. Suffered(r)'
    BY <1>4, <2>3, <2>4 DEF Suffered
  <2>9. Answered(r)'
    BY <1>2, <1>4, <2>1, <2>2, <2>3, <2>4 DEF Answered, Ruled, Faulty
  <2>10. QED
    BY <2>1, <2>5, <2>6, <2>7, <2>8, <2>9, OneRuled DEF Ruled
<1>7. QED
  BY <1>5, <1>6

LEMMA NextRuled == Inv /\ TellInv /\ RuleInv /\ [Next]_vars => RuleInv'
<1> SUFFICES ASSUME Inv, TellInv, RuleInv, [Next]_vars PROVE RuleInv'
  OBVIOUS
<1>1. DataTyped /\ RulesTyped
  BY DEF Inv, RuleInv
<1>2. ASSUME NEW r \in Requests, Serve(r) PROVE RuleInv'
  <2>1. CASE LayerStep(r) /\ UNCHANGED <<dataVars, streamVars>>
    BY <1>1, <2>1, LayerRuled DEF streamVars, dataVars
  <2>2. CASE DataStep(r) /\ UNCHANGED streamVars
    BY <1>1, <2>2, DataRuled DEF streamVars
  <2>3. CASE StreamStep(r) /\ UNCHANGED dataVars
    BY <1>1, <2>3, CompleteRuled, OpenRuled, WriteRuled, EndStreamRuled DEF StreamStep, dataVars
  <2>4. QED
    BY <1>2, <2>1, <2>2, <2>3 DEF Serve
<1>3. ASSUME NEW r \in Requests, Leave(r) PROVE RuleInv'
  <2>1. /\ stage' = [stage EXCEPT ![r] = "gone"]
        /\ UNCHANGED <<asks, rules, pending, wall, since, effects, reply, log, drawn, rows, sent>>
    BY <1>3 DEF Leave, Abandon, HandlerDropped, streamVars
  <2>2. QED
    BY <1>1, <2>1, MoveRuled
<1>4. ASSUME NEW r \in Requests, Refused(r), UNCHANGED streamVars PROVE RuleInv'
  <2>1. /\ stage[r] = "handler" /\ Handled(r, 500) /\ sent' = sent /\ rows' = rows
    BY <1>4 DEF Refused, Ends, InHandler, streamVars
  <2>2. DOMAIN rows' = Runs
    BY <1>1, <2>1 DEF RulesTyped
  <2>3. QED
    BY <1>1, <2>1, <2>2, HandledRuled
<1>5. CASE SetFaults /\ UNCHANGED <<dataVars, streamVars>>
  <2>1. /\ rules' = pending /\ pending' = None /\ pending # None
        /\ UNCHANGED <<asks, wall, stage, since, effects, reply, log, drawn, rows, sent>>
    BY <1>5 DEF SetFaults, dataVars, streamVars
  <2>2. RulesTyped' /\ wall' >= wall
    BY <1>1, <2>1 DEF RulesTyped
  <2>3. QED
    BY <2>1, <2>2, StillRuled
<1>6. CASE Time /\ UNCHANGED <<dataVars, streamVars>>
  <2>1. /\ wall' = wall + 1
        /\ UNCHANGED <<asks, rules, pending, stage, since, effects, reply, log, drawn, rows, sent>>
    BY <1>6 DEF Time, Tick, dataVars, streamVars
  <2>2. RulesTyped' /\ wall' >= wall
    BY <1>1, <2>1 DEF RulesTyped
  <2>3. QED
    BY <2>1, <2>2, StillRuled
<1>7. ASSUME UNCHANGED <<layerVars, dataVars, sent>> PROVE RuleInv'
  <2>1. RulesTyped' /\ wall' >= wall
    BY <1>1, <1>7 DEF RulesTyped, layerVars, dataVars
  <2>2. QED
    BY <1>7, <2>1, StillRuled DEF layerVars, dataVars
<1>8. CASE ClockStep /\ UNCHANGED dataVars
  BY <1>7, <1>8 DEF ClockStep, Advance, Freeze, Resume, ResetClock
<1>9. CASE UNCHANGED vars
  BY <1>7, <1>9 DEF vars, streamVars
<1>10. QED
  BY <1>2, <1>3, <1>4, <1>5, <1>6, <1>8, <1>9 DEF Next

LEMMA InitRuled == Init => RuleInv
<1> SUFFICES ASSUME Init PROVE RuleInv
  OBVIOUS
<1>1. PICK s \in Scenes : asks = s.asks /\ rules = s.first /\ pending = s.later
  BY DEF Init, LayerInit
<1>2. /\ stage = [r \in Requests |-> "idle"] /\ reply = [r \in Requests |-> NoReply]
      /\ log = [r \in Requests |-> <<>>] /\ sent = [r \in Requests |-> <<>>]
      /\ effects = [r \in Requests |-> NoEffects] /\ since = [r \in Requests |-> 0] /\ wall = 0
      /\ drawn = [r \in Requests |-> [rules |-> <<>>, fired |-> {}]]
      /\ rows = [u \in Runs |-> {}]
  BY DEF Init, LayerInit, StreamInit, DataInit
<1>3. RulesTyped
  BY <1>1, <1>2, LayerAssumption DEF RulesTyped
<1>4. ASSUME NEW r \in Requests PROVE Ruled(r)
  <2>1. /\ stage[r] = "idle" /\ reply[r].status = None /\ log[r] = <<>> /\ sent[r] = <<>>
        /\ effects[r] = NoEffects /\ drawn[r].rules = <<>> /\ drawn[r].fired = {}
        /\ \A u \in Runs : rows[u] = {}
    BY <1>2 DEF NoReply
  <2>2. Says(effects[r], drawn[r].rules, drawn[r].fired)
    BY <2>1, SaysNothing
  <2>3. Routed(r)
    <3>1. <<>> \in Seq(Rules) /\ Len(<<>>) = 0
      OBVIOUS
    <3>2. QED
      BY <2>1, <3>1 DEF Routed
  <2>4. Suffered(r)
    BY <2>1 DEF Suffered
  <2>5. Answered(r)
    BY <2>1, SeqNil DEF Answered
  <2>6. QED
    BY <2>2, <2>3, <2>4, <2>5 DEF Ruled
<1>5. QED
  BY <1>3, <1>4 DEF RuleInv

-----------------------------------------------------------------------------
(* What the answers say of the rules.                                      *)

LEMMA RuledFires == ASSUME RuleInv, NEW r \in Requests PROVE FiredAsListed(r)
<1>1. Routed(r)
  BY DEF RuleInv, Ruled
<1>2. QED
  BY <1>1 DEF Routed, FiredAsListed

LEMMA RuledAnswers ==
  ASSUME TellInv, RuleInv, NEW r \in Requests, HttpAt(r) # {}
  PROVE  ReportedAsFired(r)
<1>0. reply[r].status # None /\ Guarded(r)
  BY TellsEvents DEF EventsTellTheAnswer
<1>1. Routed(r) /\ Says(effects[r], drawn[r].rules, drawn[r].fired) /\ Suffered(r) /\ Answered(r)
  BY DEF RuleInv, Ruled
<1> DEFINE seen == drawn[r].rules
           fired == drawn[r].fired
           valid == Valid(seen, fired)
           dropped == \E i \in fired : seen[i].drop
           cut == \E i \in fired : seen[i].truncate
<1>3. (effects[r].drop <=> dropped) /\ (effects[r].truncate <=> cut)
  BY <1>1 DEF Says, Effects
<1>4. effects[r].status = None <=> valid = {}
  <2>1. \A i \in valid : seen[i].status # None
    BY LayerAssumption DEF Valid
  <2>2. QED
    BY <1>1, <2>1 DEF Says
<1>5. valid # {} => effects[r].status = seen[Max(valid)].status
  <2> SUFFICES ASSUME valid # {} PROVE effects[r].status = seen[Max(valid)].status
    OBVIOUS
  <2>1. PICK i \in valid : effects[r].status = seen[i].status /\ \A k \in valid : k <= i
    BY <1>1 DEF Says
  <2>2. valid \subseteq Int
    BY <1>1 DEF Routed, Valid
  <2> HIDE DEF valid
  <2>3. Max(valid) = i
    <3>1. \A k \in valid : i >= k
      BY <2>1, <2>2
    <3>2. Max(valid) \in valid /\ \A k \in valid : Max(valid) >= k
      BY <3>1 DEF Max
    <3>3. i >= Max(valid) /\ Max(valid) >= i /\ i \in Int /\ Max(valid) \in Int
      BY <2>1, <2>2, <3>1, <3>2
    <3>4. QED
      BY <3>3
  <2>4. QED
    BY <2>1, <2>3
<1>6. ASSUME NEW i \in HttpAt(r)
      PROVE  /\ log[r][i].latency >= SetSum(Latencies(seen, fired))
             /\ Len(log[r][i].faults) = SetSum(Names(seen, fired))
  <2> DEFINE event == log[r][i]
  <2>2. event.faults = effects[r].names
    BY TellsEvents DEF EventsTellTheAnswer
  <2>3. event.latency \in Nat /\ event.latency >= effects[r].delay
    BY <1>1 DEF Answered, HttpAt
  <2>4. /\ effects[r].delay \in Nat /\ effects[r].delay >= SetSum(Latencies(seen, fired))
        /\ Len(effects[r].names) = SetSum(Names(seen, fired))
    BY <1>1 DEF Says, Effects
  <2>5. SetSum(Latencies(seen, fired)) \in Nat
    <3>1. IsFiniteSet(Pairs(Latencies(seen, fired)))
      BY <1>1 DEF Says
    <3>2. Cardinality(Pairs(Latencies(seen, fired))) \in Nat
      BY <3>1, FS_CardinalityType
    <3>3. QED
      BY <3>2 DEF Pairs, SetSum
  <2> HIDE DEF seen, fired, event
  <2>6. \A a, b, c \in Nat : a >= b /\ b >= c => a >= c
    OBVIOUS
  <2>7. event.latency >= SetSum(Latencies(seen, fired))
    BY <2>3, <2>4, <2>5, <2>6
  <2>8. QED
    BY <2>2, <2>4, <2>7 DEF event
<1>7. Faulty(r) <=> dropped \/ valid # {}
  BY <1>3, <1>4 DEF Faulty
<1>8. /\ dropped =>
           /\ reply[r].body = "broken"
           /\ reply[r].status = IF valid = {} THEN 200 ELSE effects[r].status
      /\ ~dropped /\ valid # {} => reply[r].body = "fault" /\ reply[r].status = effects[r].status
      /\ ~dropped /\ valid = {} => (cut <=> reply[r].body \in {"cut", "empty"})
  <2> HIDE DEF seen, fired, valid, dropped, cut
  <2>1. QED
    BY <1>0, <1>1, <1>3, <1>4, <1>7 DEF Answered
<1>9. dropped \/ valid # {} => sent[r] = <<>> /\ \A u \in Runs : r \notin rows[u]
  <2> HIDE DEF seen, fired, valid, dropped, cut
  <2>1. QED
    BY <1>1, <1>7 DEF Suffered
<1>10. /\ Latencies(seen, fired) = [k \in {i \in fired : seen[i].latency # None} |-> seen[k].latency]
       /\ Names(seen, fired) = [k \in fired |-> Len(EffectNames(seen[k]))]
       /\ valid = {i \in fired : seen[i].status \in Statuses}
  BY DEF Latencies, Names, Valid
<1> HIDE DEF seen, fired, valid, dropped, cut
<1>11. /\ valid # {} => reply[r].status = seen[Max(valid)].status
       /\ dropped \/ valid # {} => /\ reply[r].body = IF dropped THEN "broken" ELSE "fault"
                                   /\ sent[r] = <<>> /\ \A u \in Runs : r \notin rows[u]
       /\ dropped /\ valid = {} => reply[r].status = 200
       /\ ~dropped /\ valid = {} => (cut <=> reply[r].body \in {"cut", "empty"})
  BY <1>5, <1>8, <1>9
<1>12. \A i \in HttpAt(r) :
         /\ log[r][i].latency >=
              SetSum([k \in {n \in fired : seen[n].latency # None} |-> seen[k].latency])
         /\ Len(log[r][i].faults) = SetSum([k \in fired |-> Len(EffectNames(seen[k]))])
  BY <1>6, <1>10
<1>13. QED
  BY <1>11, <1>12 DEF ReportedAsFired, Valid, seen, fired, valid, dropped, cut

LEMMA RuledReports == TellInv /\ RuleInv => AnswersAreReported
<1>1. TellInv => EventsTellTheAnswer
  BY TellsEvents
<1>2. QED
  BY <1>1, RuledFires, RuledAnswers DEF AnswersAreReported

-----------------------------------------------------------------------------
(* The theorems about the rules.                                           *)

\* However the list changes, the clients leave and real time passes, what each request is
\* put to is what the rules that fired for it at its arrival come to, and what the layer
\* does with the request, before, instead of and after its handler, is what those effects
\* say.
THEOREM HttpPlaneRuleInv == Spec => []RuleInv
<1>1. Init => RuleInv
  BY InitRuled
<1>2. Inv /\ TellInv /\ RuleInv /\ [Next]_vars => RuleInv'
  BY NextRuled
<1>3. QED
  BY <1>1, <1>2, HttpPlaneInv, HttpPlaneTellInv, PTL DEF Spec

\* For every list of rules and every path, glob_match and Effects::resolve loops included:
\* a rule fires only for a route it matches by the plain meaning of a star, and always for
\* one if its rate is 1; all the delays of those that fired are slept, the last valid
\* status is the one answered, a drop beats it and it beats the handler, which then has
\* done nothing; and the event on the bus has that status, all of their names and at least
\* that latency.
THEOREM HttpPlaneAnswersAreReported == Spec => []AnswersAreReported
<1>1. QED
  BY HttpPlaneRuleInv, HttpPlaneTellInv, RuledReports, PTL

-----------------------------------------------------------------------------
(* The texts the streams say.                                              *)

\* What holds at the start of a loop, and after each turn if it did before.
LEMMA Climb ==
  ASSUME NEW N \in Nat, NEW Good, 0 \in Good, \A n \in 1 .. N : n - 1 \in Good => n \in Good
  PROVE  \A n \in 0 .. N : n \in Good
<1> DEFINE Bad == {n \in 0 .. N : n \notin Good}
<1> SUFFICES ASSUME Bad # {} PROVE FALSE
  OBVIOUS
<1>2. Bad \in SUBSET Nat
  OBVIOUS
<1>3. PICK n \in Bad : \A m \in Bad : n <= m
  BY <1>2, LeastNatural
<1>4. n \in 1 .. N /\ n \notin Good
  OBVIOUS
<1>5. n - 1 \in 0 .. N /\ ~(n <= n - 1)
  BY <1>4
<1>6. n - 1 \in Good
  BY <1>3, <1>5
<1>7. QED
  BY <1>4, <1>6

\* A loop that starts from base and makes N turns.
Looping(N, V, base, turn) == N \in Nat /\ base \in V /\ turn \in [V \X (1 .. N) -> V]

LEMMA Loop ==
  ASSUME NEW N, NEW V, NEW base, NEW turn, Looping(N, V, base, turn)
  PROVE  \E f \in [0 .. N -> V] : f[0] = base /\ \A n \in 1 .. N : f[n] = turn[<<f[n - 1], n>>]
<1> DEFINE S == 0 .. N
           Turned(f, n) == IF n = 0 THEN base ELSE turn[<<f[n - 1], n>>]
           step == [fx \in [S -> V] \X S |-> Turned(fx[1], fx[2])]
           rank == [n \in S |-> n]
<1>0. N \in Nat /\ base \in V /\ turn \in [V \X (1 .. N) -> V]
  BY DEF Looping
<1> USE <1>0
<1>1. rank \in [S -> 0 .. N] /\ \A n \in S : rank[n] = n
  OBVIOUS
<1>2. \A n \in S : n = 0 \/ (n \in 1 .. N /\ n - 1 \in S /\ rank[n - 1] < rank[n])
  OBVIOUS
<1>3. \A f \in [S -> V], n \in S : Turned(f, n) \in V
  <2> SUFFICES ASSUME NEW f \in [S -> V], NEW n \in S PROVE Turned(f, n) \in V
    OBVIOUS
  <2>1. CASE n = 0
    BY <2>1
  <2>2. CASE n # 0
    <3>1. n \in 1 .. N /\ f[n - 1] \in V
      BY <1>2, <2>2
    <3>2. <<f[n - 1], n>> \in V \X (1 .. N)
      BY <3>1
    <3>3. turn[<<f[n - 1], n>>] \in V
      BY <3>2
    <3>4. QED
      BY <2>2, <3>3
  <2>3. QED
    BY <2>1, <2>2
<1>4. step \in [[S -> V] \X S -> V]
  <2> HIDE DEF S, Turned
  <2>1. QED
    BY <1>3
<1>5. \A f \in [S -> V], n \in S : step[<<f, n>>] = Turned(f, n)
  <2> HIDE DEF S, Turned
  <2>1. QED
    OBVIOUS
<1>6. ASSUME NEW f \in [S -> V], NEW g \in [S -> V], NEW n \in S,
             \A y \in S : rank[y] < rank[n] => f[y] = g[y]
      PROVE  step[<<f, n>>] = step[<<g, n>>]
  <2>1. n = 0 \/ f[n - 1] = g[n - 1]
    <3> HIDE DEF S, rank, Turned, step
    <3>1. QED
      BY <1>2, <1>6
  <2>2. Turned(f, n) = Turned(g, n)
    BY <2>1
  <2> HIDE DEF S, Turned, step
  <2>3. QED
    BY <1>5, <2>2
<1>7. PICK f \in [S -> V] : \A n \in S : f[n] = step[<<f, n>>]
  <2>1. V # {}
    OBVIOUS
  <2> HIDE DEF S, step, rank
  <2>2. Recursion(S, V, step, rank, N)
    BY <1>1, <1>4, <1>6, <2>1 DEF Recursion
  <2>3. QED
    BY <2>2, RecursiveFunction
<1>8. \A n \in S : f[n] = Turned(f, n)
  <2> HIDE DEF S, Turned, step
  <2>1. QED
    BY <1>5, <1>7
<1>9. f[0] = base /\ \A n \in 1 .. N : f[n] = turn[<<f[n - 1], n>>]
  <2>1. 0 \in S /\ \A n \in 1 .. N : n \in S /\ n # 0
    OBVIOUS
  <2> HIDE DEF S
  <2>2. QED
    BY <1>8, <2>1
<1>10. QED
  BY <1>9

\* The function g is what FlattenSeq computes, turn by turn.
Flattens(g, s) ==
  /\ Len(s) \in Nat /\ Len(s) # 0
  /\ g = [i \in 1 .. Len(s) |-> IF i = 1 THEN s[i] ELSE g[i - 1] \o s[i]]

LEMMA FlattenIs == ASSUME NEW s, NEW g, Flattens(g, s) PROVE FlattenSeq(s) = g[Len(s)]
<1> DEFINE N == Len(s)
           Turned(h, i) == IF i = 1 THEN s[i] ELSE h[i - 1] \o s[i]
           flatten[i \in 1 .. Len(s)] == IF i = 1 THEN s[i] ELSE flatten[i - 1] \o s[i]
<1>0. N \in Nat /\ N # 0 /\ g = [i \in 1 .. N |-> Turned(g, i)]
  BY DEF Flattens
<1>1. \E h : h = [i \in 1 .. N |-> Turned(h, i)]
  BY <1>0
<1>2. flatten = [i \in 1 .. N |-> Turned(flatten, i)]
  BY <1>1
<1>3. FlattenSeq(s) = flatten[N]
  BY <1>0 DEF FlattenSeq
<1> HIDE DEF flatten
<1> DEFINE Good == {n \in 0 .. N : n = 0 \/ flatten[n] = g[n]}
<1>4. ASSUME NEW n \in 1 .. N, n - 1 \in Good PROVE n \in Good
  <2>1. n = 1 \/ flatten[n - 1] = g[n - 1]
    BY <1>4
  <2>2. Turned(flatten, n) = Turned(g, n)
    BY <2>1
  <2>3. flatten[n] = Turned(flatten, n) /\ g[n] = Turned(g, n)
    BY <1>0, <1>2
  <2>4. QED
    BY <2>2, <2>3
<1>5. N \in Good
  <2> HIDE DEF Good
  <2>1. 0 \in Good
    BY <1>0 DEF Good
  <2>2. \A n \in 1 .. N : n - 1 \in Good => n \in Good
    BY <1>4
  <2>3. N \in Nat /\ N \in 0 .. N
    BY <1>0
  <2> HIDE DEF N
  <2>4. QED
    BY <2>1, <2>2, <2>3, Climb
<1>6. QED
  BY <1>0, <1>3, <1>5

Alphabet(text) == {text[i] : i \in 1 .. Len(text)} \cup {Space}

\* A turn of tokenize's loop.
Taken(tokens, x) ==
  IF x = Space THEN tokens
  ELSE Append(tokens, IF tokens = <<>> THEN <<x>> ELSE <<Space, x>>)

TokenTurns(upto, text) ==
  /\ upto \in [0 .. Len(text) -> Seq(Seq(Alphabet(text)))] /\ upto[0] = <<>>
  /\ \A n \in 1 .. Len(text) : upto[n] = Taken(upto[n - 1], text[n])
  /\ upto[Len(text)] = Tokens(text)

LEMMA TakenIs ==
  ASSUME NEW A, NEW tokens \in Seq(Seq(A)), NEW x \in A, Space \in A
  PROVE  Taken(tokens, x) \in Seq(Seq(A))
<1>1. <<x>> \in Seq(A) /\ <<Space, x>> \in Seq(A)
  OBVIOUS
<1>2. QED
  BY <1>1 DEF Taken

LEMMA TokensTurn == ASSUME NEW text, IsSeq(text) PROVE \E upto : TokenTurns(upto, text)
<1> DEFINE N == Len(text)
           A == Alphabet(text)
           V == Seq(Seq(A))
           turn == [vn \in V \X (1 .. N) |-> Taken(vn[1], text[vn[2]])]
           Turned(h, n) ==
             IF n = 0 THEN <<>>
             ELSE IF text[n] = Space THEN h[n - 1]
             ELSE Append(h[n - 1], IF h[n - 1] = <<>> THEN <<text[n]>> ELSE <<Space, text[n]>>)
           Upto[n \in 0 .. Len(text)] ==
             IF n = 0 THEN <<>>
             ELSE IF text[n] = Space THEN Upto[n - 1]
             ELSE Append(Upto[n - 1],
                         IF Upto[n - 1] = <<>> THEN <<text[n]>> ELSE <<Space, text[n]>>)
<1>1. N \in Nat /\ <<>> \in V
  BY SeqLen
<1>2. Space \in A /\ \A n \in 1 .. N : text[n] \in A
  BY DEF Alphabet
<1>3. turn \in [V \X (1 .. N) -> V] /\ \A v \in V, n \in 1 .. N : turn[<<v, n>>] = Taken(v, text[n])
  <2> HIDE DEF A, N
  <2>1. \A v \in V, n \in 1 .. N : Taken(v, text[n]) \in V
    BY <1>2, TakenIs
  <2> HIDE DEF V
  <2>2. \A vn \in V \X (1 .. N) : Taken(vn[1], text[vn[2]]) \in V
    BY <2>1
  <2>3. QED
    BY <2>2
<1>4. PICK f \in [0 .. N -> V] : f[0] = <<>> /\ \A n \in 1 .. N : f[n] = turn[<<f[n - 1], n>>]
  <2> HIDE DEF turn, V, N
  <2>1. Looping(N, V, <<>>, turn)
    BY <1>1, <1>3 DEF Looping
  <2>2. QED
    BY <2>1, Loop
<1>5. \A n \in 1 .. N : f[n] = Taken(f[n - 1], text[n])
  <2> HIDE DEF turn, V
  <2>1. \A n \in 1 .. N : f[n - 1] \in V
    BY <1>1
  <2>2. QED
    BY <1>3, <1>4, <2>1
<1>6. \A n \in 1 .. N : Taken(f[n - 1], text[n]) = Turned(f, n)
  BY DEF Taken
<1>7. f = [n \in 0 .. N |-> Turned(f, n)]
  <2>1. \A n \in 0 .. N : n = 0 \/ n \in 1 .. N
    BY <1>1
  <2>2. \A n \in 0 .. N : f[n] = Turned(f, n)
    <3> SUFFICES ASSUME NEW n \in 0 .. N PROVE f[n] = Turned(f, n)
      OBVIOUS
    <3>1. CASE n = 0
      BY <1>4, <3>1
    <3>2. CASE n \in 1 .. N
      <4> HIDE DEF Turned
      <4>1. QED
        BY <1>5, <1>6, <3>2
    <3>3. QED
      BY <2>1, <3>1, <3>2
  <2> HIDE DEF Turned, V, N
  <2>3. QED
    BY <2>2
<1>8. \E h : h = [n \in 0 .. N |-> Turned(h, n)]
  <2> HIDE DEF Turned
  <2>1. QED
    BY <1>7
<1>9. Upto = [n \in 0 .. N |-> Turned(Upto, n)]
  BY <1>8
<1>10. Tokens(text) = Upto[N]
  BY DEF Tokens
<1> HIDE DEF Upto
<1> DEFINE Good == {n \in 0 .. N : Upto[n] = f[n]}
<1>11. 0 \in Good
  BY <1>1, <1>4, <1>9
<1>12. \A n \in 1 .. N : n - 1 \in Good => n \in Good
  <2> SUFFICES ASSUME NEW n \in 1 .. N, n - 1 \in Good PROVE n \in Good
    OBVIOUS
  <2>1. n \in 0 .. N /\ Upto[n - 1] = f[n - 1]
    BY <1>1
  <2>2. Turned(Upto, n) = Turned(f, n)
    BY <2>1
  <2> HIDE DEF Turned
  <2>3. Upto[n] = Turned(Upto, n) /\ f[n] = Turned(f, n)
    BY <1>5, <1>6, <1>9, <2>1
  <2>4. QED
    BY <2>1, <2>2, <2>3
<1>13. Upto[N] = f[N]
  <2>1. N \in 0 .. N
    BY <1>1
  <2>2. N \in Good
    <3> HIDE DEF Good, N
    <3>1. QED
      BY <1>1, <1>11, <1>12, <2>1, Climb
  <2>3. QED
    BY <2>2
<1>14. QED
  BY <1>4, <1>5, <1>10, <1>13 DEF TokenTurns

\* What a client has joined after each of the tokens.
Joins(f, tokens, joined, A) ==
  /\ f \in [0 .. Len(tokens) -> Seq(A)] /\ f[0] = <<>> /\ f[Len(tokens)] = joined
  /\ \A k \in 1 .. Len(tokens) : f[k] = f[k - 1] \o tokens[k]

\* The first n of a text are tidy, but for a Space that may end them.
TidySoFar(text, n) ==
  /\ n > 0 => text[1] # Space
  /\ \A i \in 1 .. n - 1 : text[i] = Space => text[i + 1] # Space

\* They are what is joined, but for that Space.
Reads(joined, text, n) ==
  /\ Len(joined) = IF n > 0 /\ text[n] = Space THEN n - 1 ELSE n
  /\ \A i \in 1 .. Len(joined) : joined[i] = text[i]

JoinedAs(joined, tokens, text, n) ==
  /\ joined \in Seq(Alphabet(text)) /\ \E f : Joins(f, tokens, joined, Alphabet(text))
  /\ joined = <<>> <=> tokens = <<>>
  /\ Tidy(joined)
  /\ TidySoFar(text, n) => Reads(joined, text, n)

LEMMA JoinMore ==
  ASSUME NEW A, NEW tokens \in Seq(Seq(A)), NEW joined \in Seq(A), NEW t \in Seq(A),
         NEW f, Joins(f, tokens, joined, A)
  PROVE  \E g : Joins(g, Append(tokens, t), joined \o t, A)
<1> DEFINE m == Len(tokens)
           more == Append(tokens, t)
           g == [k \in 0 .. m + 1 |-> IF k <= m THEN f[k] ELSE joined \o t]
<1>1. m \in Nat /\ Len(more) = m + 1 /\ more[m + 1] = t /\ \A k \in 1 .. m : more[k] = tokens[k]
  OBVIOUS
<1>2. /\ f \in [0 .. m -> Seq(A)] /\ f[0] = <<>> /\ f[m] = joined
      /\ \A k \in 1 .. m : f[k] = f[k - 1] \o tokens[k]
  BY DEF Joins
<1>3. joined \o t \in Seq(A)
  OBVIOUS
<1> HIDE DEF m, more
<1>4. g \in [0 .. m + 1 -> Seq(A)] /\ g[0] = <<>> /\ g[m + 1] = joined \o t
  BY <1>1, <1>2, <1>3
<1>5. ASSUME NEW k \in 1 .. m + 1 PROVE g[k] = g[k - 1] \o more[k]
  <2>1. CASE k = m + 1
    <3>1. g[k] = joined \o t /\ g[k - 1] = f[m] /\ more[k] = t
      BY <1>1, <2>1
    <3>2. QED
      BY <1>2, <3>1
  <2>2. CASE k # m + 1
    <3>1. k \in 1 .. m /\ g[k] = f[k] /\ g[k - 1] = f[k - 1]
      BY <1>1, <2>2
    <3> HIDE DEF g
    <3>2. QED
      BY <1>1, <1>2, <3>1
  <2>3. QED
    BY <2>1, <2>2
<1> HIDE DEF g
<1>6. Joins(g, more, joined \o t, A)
  BY <1>1, <1>4, <1>5 DEF Joins
<1>7. QED
  BY <1>6 DEF more

\* The first word of a text.
LEMMA FirstWord ==
  ASSUME NEW text, Text(text), NEW n \in 1 .. Len(text), NEW tokens \in Seq(Seq(Alphabet(text))),
         NEW joined, JoinedAs(joined, tokens, text, n - 1), text[n] # Space, tokens = <<>>
  PROVE  JoinedAs(<<text[n]>>, Taken(tokens, text[n]), text, n)
<1> DEFINE A == Alphabet(text)
           x == text[n]
<1>1. x \in A /\ Space \in A /\ <<x>> \in Seq(A) /\ Len(text) \in Nat
  BY SeqLen DEF Alphabet, Text
<1>2. joined = <<>> /\ joined \in Seq(A) /\ joined \o <<x>> = <<x>>
  <2>1. joined = <<>> /\ joined \in Seq(A)
    BY DEF JoinedAs
  <2> HIDE DEF A, x
  <2>2. QED
    BY <1>1, <2>1
<1>3. Taken(tokens, x) = Append(tokens, <<x>>)
  BY DEF Taken
<1>4. \E f : Joins(f, Taken(tokens, x), <<x>>, A)
  <2>1. PICK f : Joins(f, tokens, joined, A)
    BY DEF JoinedAs
  <2> HIDE DEF A, x
  <2>2. QED
    BY <1>1, <1>2, <1>3, <2>1, JoinMore DEF A
<1>5. Taken(tokens, x) # <<>>
  <2>1. tokens \in Seq(Seq(A)) /\ <<x>> \in Seq(A)
    BY <1>1
  <2> HIDE DEF A, x
  <2>2. Len(Append(tokens, <<x>>)) # 0
    BY <2>1
  <2>3. Len(<<>>) = 0
    OBVIOUS
  <2>4. QED
    BY <1>3, <2>2, <2>3
<1>6. Tidy(<<x>>)
  BY DEF Tidy
<1>7. ASSUME TidySoFar(text, n) PROVE Reads(<<x>>, text, n)
  <2>1. n = 1
    <3> SUFFICES ASSUME n # 1 PROVE FALSE
      OBVIOUS
    <3>1. n - 1 > 0 /\ n - 1 \in Nat /\ n > 0
      BY <1>1
    <3>2. TidySoFar(text, n - 1)
      BY <1>1, <1>7, <3>1 DEF TidySoFar
    <3>3. Len(joined) = 0 /\ Reads(joined, text, n - 1)
      BY <1>2, <3>2 DEF JoinedAs
    <3>4. n - 1 = 1 /\ text[n - 1] = Space
      BY <3>1, <3>3 DEF Reads
    <3>5. QED
      BY <1>7, <3>1, <3>4 DEF TidySoFar
  <2>2. QED
    BY <2>1 DEF Reads
<1>8. QED
  BY <1>1, <1>4, <1>5, <1>6, <1>7 DEF JoinedAs

\* A word after others.
LEMMA NextWord ==
  ASSUME NEW text, Text(text), NEW n \in 1 .. Len(text), NEW tokens \in Seq(Seq(Alphabet(text))),
         NEW joined, JoinedAs(joined, tokens, text, n - 1), text[n] # Space, tokens # <<>>
  PROVE  JoinedAs(joined \o <<Space, text[n]>>, Taken(tokens, text[n]), text, n)
<1> DEFINE A == Alphabet(text)
           x == text[n]
           more == joined \o <<Space, x>>
           m == Len(joined)
<1>1. x \in A /\ Space \in A /\ x # Space /\ Len(text) \in Nat
  BY SeqLen DEF Alphabet, Text
<1>2. joined # <<>> /\ joined \in Seq(A) /\ Tidy(joined)
  BY DEF JoinedAs
<1>3. Taken(tokens, x) = Append(tokens, <<Space, x>>)
  BY DEF Taken
<1> HIDE DEF A, x
<1>4. /\ more \in Seq(A) /\ m \in Nat \ {0} /\ Len(more) = m + 2
      /\ \A i \in 1 .. m : more[i] = joined[i]
      /\ more[m + 1] = Space /\ more[m + 2] = x
  BY <1>1, <1>2
<1>5. \E f : Joins(f, Taken(tokens, x), more, A)
  <2>1. PICK f : Joins(f, tokens, joined, A)
    BY DEF JoinedAs, A
  <2>2. <<Space, x>> \in Seq(A)
    BY <1>1
  <2>3. QED
    BY <1>2, <1>3, <2>1, <2>2, JoinMore DEF A
<1>6. Taken(tokens, x) # <<>>
  <2>1. <<Space, x>> \in Seq(A)
    BY <1>1
  <2>2. QED
    BY <1>3, <2>1 DEF A
<1> HIDE DEF more, m
<1>7. Tidy(more)
  <2>1. /\ joined[1] # Space /\ joined[m] # Space
        /\ \A i \in 1 .. m - 1 : joined[i] = Space => joined[i + 1] # Space
    BY <1>2 DEF Tidy, m
  <2>2. more[1] # Space /\ more[m + 2] # Space
    BY <1>1, <1>4, <2>1
  <2>3. ASSUME NEW i \in 1 .. m + 1, more[i] = Space PROVE more[i + 1] # Space
    <3>1. CASE i \in 1 .. m - 1
      <4>1. i \in 1 .. m /\ i + 1 \in 1 .. m
        BY <1>4, <3>1
      <4>2. QED
        BY <1>4, <2>1, <2>3, <3>1, <4>1
    <3>2. CASE i = m
      BY <1>4, <2>1, <2>3, <3>2
    <3>3. CASE i = m + 1
      BY <1>1, <1>4, <3>3
    <3>4. QED
      BY <1>4, <3>1, <3>2, <3>3
  <2>4. Len(more) - 1 = m + 1
    BY <1>4
  <2>5. QED
    BY <1>4, <2>2, <2>3, <2>4 DEF Tidy
<1>8. ASSUME TidySoFar(text, n) PROVE Reads(more, text, n)
  <2>1. TidySoFar(text, n - 1)
    BY <1>1, <1>8 DEF TidySoFar
  <2>2. Reads(joined, text, n - 1)
    BY <2>1 DEF JoinedAs
  <2>3. n - 1 > 0 /\ n - 1 \in 1 .. Len(text) - 1
    BY <1>1, <1>4, <2>2 DEF Reads, m
  <2>4. text[n - 1] = Space
    BY <1>1, <2>3 DEF Text, x
  <2>5. m = n - 2 /\ \A i \in 1 .. m : joined[i] = text[i]
    BY <1>1, <2>2, <2>3, <2>4 DEF Reads, m
  <2>6. Len(more) = n /\ more[n - 1] = text[n - 1] /\ more[n] = text[n]
    BY <1>1, <1>4, <2>4, <2>5 DEF x
  <2>7. \A i \in 1 .. n : i \in 1 .. m \/ i = n - 1 \/ i = n
    BY <1>1, <2>5
  <2>8. QED
    BY <1>1, <1>4, <2>5, <2>6, <2>7 DEF Reads, x
<1>9. QED
  BY <1>4, <1>5, <1>6, <1>7, <1>8 DEF JoinedAs, A, x, more

\* What tokenize makes of a text joins to the text if that is tidy, and to a tidy one.
LEMMA TokensJoin ==
  ASSUME NEW text, Text(text)
  PROVE  /\ Tokens(text) \in Seq(Seq(Alphabet(text)))
         /\ \E joined : JoinedAs(joined, Tokens(text), text, Len(text))
<1> DEFINE N == Len(text)
           A == Alphabet(text)
<1>1. N \in Nat
  BY SeqLen DEF Text
<1>2. PICK upto : TokenTurns(upto, text)
  BY TokensTurn DEF Text
<1> DEFINE Good == {n \in 0 .. N : \E joined : JoinedAs(joined, upto[n], text, n)}
<1>3. 0 \in Good
  <2>1. upto[0] = <<>>
    BY <1>2 DEF TokenTurns
  <2>2. JoinedAs(<<>>, <<>>, text, 0)
    <3>1. Joins([k \in 0 .. 0 |-> <<>>], <<>>, <<>>, A)
      <4>1. Len(<<>>) = 0 /\ <<>> \in Seq(A)
        OBVIOUS
      <4> HIDE DEF A
      <4>2. QED
        BY <4>1 DEF Joins
    <3>2. Tidy(<<>>) /\ Reads(<<>>, text, 0) /\ <<>> \in Seq(A)
      BY DEF Tidy, Reads
    <3>3. QED
      BY <3>1, <3>2 DEF JoinedAs
  <2>3. 0 \in 0 .. N
    BY <1>1
  <2>4. QED
    BY <2>1, <2>2, <2>3
<1>4. ASSUME NEW n \in 1 .. N, n - 1 \in Good PROVE n \in Good
  <2>1. PICK joined : JoinedAs(joined, upto[n - 1], text, n - 1)
    BY <1>4
  <2>2. upto[n] = Taken(upto[n - 1], text[n]) /\ upto[n - 1] \in Seq(Seq(A)) /\ n \in 0 .. N
    <3>1. n - 1 \in 0 .. N /\ n \in 0 .. N
      BY <1>1
    <3>2. QED
      BY <1>2, <3>1 DEF TokenTurns
  <2> HIDE DEF A, Good
  <2>3. \E more : JoinedAs(more, upto[n], text, n)
    <3>1. CASE text[n] # Space
      <4>1. CASE upto[n - 1] = <<>>
        BY <2>1, <2>2, <3>1, <4>1, FirstWord DEF A
      <4>2. CASE upto[n - 1] # <<>>
        BY <2>1, <2>2, <3>1, <4>2, NextWord DEF A
      <4>3. QED
        BY <4>1, <4>2
    <3>2. CASE text[n] = Space
      <4>1. upto[n] = upto[n - 1]
        BY <2>2, <3>2 DEF Taken
      <4>2. ASSUME TidySoFar(text, n) PROVE Reads(joined, text, n)
        <5>1. n - 1 > 0 /\ text[n - 1] # Space /\ n - 1 \in 1 .. n - 1
          <6>1. n # 1
            BY <1>1, <3>2, <4>2 DEF TidySoFar
          <6>2. n - 1 \in 1 .. n - 1 /\ n - 1 > 0 /\ (n - 1) + 1 = n
            BY <1>1, <6>1
          <6>3. QED
            BY <3>2, <4>2, <6>2 DEF TidySoFar
        <5>2. TidySoFar(text, n - 1)
          BY <1>1, <4>2, <5>1 DEF TidySoFar
        <5>3. Reads(joined, text, n - 1)
          BY <2>1, <5>2 DEF JoinedAs
        <5>4. QED
          BY <1>1, <3>2, <5>1, <5>3 DEF Reads
      <4>3. JoinedAs(joined, upto[n], text, n)
        BY <2>1, <4>1, <4>2 DEF JoinedAs
      <4>4. QED
        BY <4>3
    <3>3. QED
      BY <3>1, <3>2
  <2>4. QED
    BY <2>2, <2>3 DEF Good
<1>5. N \in Good
  <2> HIDE DEF Good
  <2>1. \A n \in 1 .. N : n - 1 \in Good => n \in Good
    BY <1>4
  <2>2. N \in 0 .. N
    BY <1>1
  <2> HIDE DEF N
  <2>3. QED
    BY <1>1, <1>3, <2>1, <2>2, Climb
<1>6. upto[N] = Tokens(text) /\ upto[N] \in Seq(Seq(A))
  BY <1>1, <1>2 DEF TokenTurns
<1>7. QED
  BY <1>5, <1>6

\* A tidy text is what its tokens join to; no other is.
LEMMA JoinedIfTidy ==
  ASSUME NEW text, Text(text), NEW joined, JoinedAs(joined, Tokens(text), text, Len(text))
  PROVE  joined = text <=> Tidy(text)
<1> DEFINE N == Len(text)
<1>1. N \in Nat /\ text \in Seq(Alphabet(text)) /\ (N = 0 <=> text = <<>>)
  <2>1. IsSeq(text)
    BY DEF Text
  <2>2. text \in Seq(Alphabet(text))
    <3> DEFINE T == {text[i] : i \in 1 .. Len(text)}
    <3>1. text \in Seq(T) /\ T \subseteq Alphabet(text)
      BY <2>1 DEF IsSeq, Alphabet
    <3> HIDE DEF T
    <3>2. QED
      BY <3>1, SeqMonotonic
  <2>3. QED
    BY <2>1, <2>2, SeqLen
<1>2. joined \in Seq(Alphabet(text)) /\ Tidy(joined)
  BY DEF JoinedAs
<1>3. ASSUME Tidy(text) PROVE joined = text
  <2>1. TidySoFar(text, N) /\ (N > 0 => text[N] # Space)
    BY <1>1, <1>3 DEF Tidy, TidySoFar
  <2>2. Reads(joined, text, N)
    BY <2>1 DEF JoinedAs
  <2>3. Len(joined) = Len(text) /\ \A i \in 1 .. Len(joined) : joined[i] = text[i]
    BY <2>1, <2>2 DEF Reads
  <2>4. QED
    BY <1>1, <1>2, <2>3, SeqEqual
<1>4. QED
  BY <1>2, <1>3

LEMMA MaxIs == ASSUME NEW n \in Nat, NEW S \in SUBSET (1 .. n), S # {} PROVE Max(S) \in S
<1> DEFINE T == {n - x : x \in S}
<1>1. T \in SUBSET Nat /\ T # {}
  <2>1. \A x \in S : n - x \in Nat
    OBVIOUS
  <2>2. QED
    BY <2>1
<1>2. PICK least \in T : \A y \in T : least <= y
  BY <1>1, LeastNatural
<1>3. PICK x \in S : least = n - x
  OBVIOUS
<1>4. \A y \in S : x >= y
  <2>1. \A y \in S : n - x <= n - y
    BY <1>2, <1>3
  <2>2. QED
    BY <2>1
<1>5. QED
  BY <1>4 DEF Max

\* What a chat's messages are.
Messages(ask) ==
  IsSeq(ask.messages) /\ \A i \in 1 .. Len(ask.messages) : Text(ask.messages[i].text)

LEMMA ReplyIsText == ASSUME NEW ask, Messages(ask) PROVE Text(ReplyText(ask))
<1> DEFINE N == Len(ask.messages)
           user == {i \in DOMAIN ask.messages : ask.messages[i].role = "user"}
<1>1. N \in Nat /\ DOMAIN ask.messages = 1 .. N
  BY DEF Messages, IsSeq
<1>2. CASE user # {}
  <2>1. Max(user) \in 1 .. N
    BY <1>1, <1>2, MaxIs
  <2>2. ReplyText(ask) = ask.messages[Max(user)].text
    BY <1>2 DEF ReplyText
  <2> HIDE DEF user
  <2>3. QED
    BY <2>1, <2>2 DEF Messages
<1>3. CASE user = {} /\ DOMAIN ask.messages # {}
  <2>1. Max(DOMAIN ask.messages) \in 1 .. N
    BY <1>1, <1>3, MaxIs
  <2>2. ReplyText(ask) = ask.messages[Max(DOMAIN ask.messages)].text
    BY <1>3 DEF ReplyText
  <2>3. QED
    BY <2>1, <2>2 DEF Messages
<1>4. CASE user = {} /\ DOMAIN ask.messages = {}
  <2>1. ReplyText(ask) = <<>>
    BY <1>4 DEF ReplyText
  <2>2. Text(<<>>)
    BY SeqNil DEF Text
  <2>3. QED
    BY <2>1, <2>2
<1>5. QED
  BY <1>2, <1>3, <1>4

\* The sequence u is s, then t.
Concat(u, s, t, S) ==
  /\ u \in Seq(S) /\ Len(u) = Len(s) + Len(t)
  /\ \A i \in 1 .. Len(s) : u[i] = s[i]
  /\ \A i \in 1 .. Len(t) : u[Len(s) + i] = t[i]

LEMMA SeqConcat ==
  ASSUME NEW S, NEW s \in Seq(S), NEW t \in Seq(S) PROVE Concat(s \o t, s, t, S)
<1>1. \A i \in 1 .. Len(s) : i \in 1 .. Len(s) + Len(t)
  OBVIOUS
<1>2. \A i \in 1 .. Len(t) : Len(s) + i \in 1 .. Len(s) + Len(t) /\ ~(Len(s) + i <= Len(s))
                            /\ Len(s) + i - Len(s) = i
  OBVIOUS
<1>3. QED
  BY <1>1, <1>2, ConcatProperties DEF Concat

\* The chunks of a chat stream.
LEMMA PiecesAre ==
  ASSUME NEW ask, ask.op = "chat", NEW m, m = Len(Tokens(ReplyText(ask))), Text(ReplyText(ask))
  PROVE  /\ m \in Nat /\ Len(Pieces(ask)) = m + 3 /\ IsSeq(Pieces(ask))
         /\ Pieces(ask)[1] = Chunk("role", <<>>)
         /\ \A i \in 1 .. m : Pieces(ask)[i + 1] = Chunk("token", Tokens(ReplyText(ask))[i])
         /\ Pieces(ask)[m + 2] = Chunk("stop", <<>>) /\ Pieces(ask)[m + 3] = Chunk("DONE", <<>>)
<1> DEFINE tokens == Tokens(ReplyText(ask))
           A == Alphabet(ReplyText(ask))
           C == [kind : {"role", "token", "stop", "DONE"}, delta : Seq(A)]
           mid == [i \in DOMAIN tokens |-> Chunk("token", tokens[i])]
           first == <<Chunk("role", <<>>)>>
           last == <<Chunk("stop", <<>>), Chunk("DONE", <<>>)>>
<1>1. tokens \in Seq(Seq(A))
  BY TokensJoin
<1>2. Pieces(ask) = first \o mid \o last
  BY DEF Pieces
<1> HIDE DEF A, tokens
<1>3. m \in Nat /\ DOMAIN tokens = 1 .. m
  BY <1>1 DEF tokens
<1>4. /\ \A i \in 1 .. m : Chunk("token", tokens[i]) \in C
      /\ Chunk("role", <<>>) \in C /\ Chunk("stop", <<>>) \in C /\ Chunk("DONE", <<>>) \in C
  BY <1>1, <1>3 DEF Chunk, tokens
<1> HIDE DEF C
<1>5. mid \in [1 .. m -> C] /\ \A i \in 1 .. m : mid[i] = Chunk("token", tokens[i])
  BY <1>3, <1>4
<1>6. mid \in Seq(C) /\ Len(mid) = m
  <2> HIDE DEF mid
  <2>1. QED
    BY <1>3, <1>5, IsASeq
<1>7. /\ first \in Seq(C) /\ Len(first) = 1 /\ first[1] = Chunk("role", <<>>)
      /\ last \in Seq(C) /\ Len(last) = 2
      /\ last[1] = Chunk("stop", <<>>) /\ last[2] = Chunk("DONE", <<>>)
  BY <1>4
<1> HIDE DEF mid, first, last
<1>8. /\ first \o mid \in Seq(C) /\ Len(first \o mid) = m + 1 /\ (first \o mid)[1] = first[1]
      /\ \A i \in 1 .. m : (first \o mid)[i + 1] = mid[i]
  <2>1. /\ first \o mid \in Seq(C) /\ Len(first \o mid) = 1 + m
        /\ \A i \in 1 .. 1 : (first \o mid)[i] = first[i]
        /\ \A i \in 1 .. m : (first \o mid)[1 + i] = mid[i]
    <3>1. first \in Seq(C) /\ mid \in Seq(C)
      BY <1>6, <1>7
    <3>2. Concat(first \o mid, first, mid, C)
      BY <3>1, SeqConcat
    <3>3. QED
      BY <1>6, <1>7, <3>2 DEF Concat
  <2>2. 1 + m = m + 1 /\ \A i \in 1 .. m : 1 + i = i + 1
    BY <1>3
  <2>3. QED
    BY <2>1, <2>2
<1>9. /\ first \o mid \o last \in Seq(C) /\ Len(first \o mid \o last) = m + 3
      /\ \A i \in 1 .. m + 1 : (first \o mid \o last)[i] = (first \o mid)[i]
      /\ (first \o mid \o last)[m + 2] = last[1] /\ (first \o mid \o last)[m + 3] = last[2]
  <2> DEFINE front == first \o mid
  <2>1. front \in Seq(C) /\ Len(front) = m + 1
    BY <1>8
  <2> HIDE DEF front
  <2>2. /\ front \o last \in Seq(C) /\ Len(front \o last) = m + 3
        /\ \A i \in 1 .. m + 1 : (front \o last)[i] = front[i]
        /\ (front \o last)[m + 2] = last[1] /\ (front \o last)[m + 3] = last[2]
    <3>1. /\ front \o last \in Seq(C) /\ Len(front \o last) = m + 1 + 2
          /\ \A i \in 1 .. m + 1 : (front \o last)[i] = front[i]
          /\ \A i \in 1 .. 2 : (front \o last)[m + 1 + i] = last[i]
      <4>1. last \in Seq(C)
        BY <1>7
      <4>2. Concat(front \o last, front, last, C)
        BY <2>1, <4>1, SeqConcat
      <4>3. QED
        BY <1>7, <2>1, <4>2 DEF Concat
    <3>2. m + 1 + 2 = m + 3 /\ m + 1 + 1 = m + 2 /\ 1 \in 1 .. 2 /\ 2 \in 1 .. 2
      BY <1>3
    <3>3. QED
      BY <3>1, <3>2
  <2>3. QED
    BY <2>2 DEF front
<1>10. IsSeq(Pieces(ask))
  BY <1>2, <1>9, SeqIsSeq
<1>11. 1 \in 1 .. m + 1 /\ \A i \in 1 .. m : i + 1 \in 1 .. m + 1
  BY <1>3
<1>12. QED
  BY <1>2, <1>3, <1>5, <1>7, <1>8, <1>9, <1>10, <1>11 DEF tokens

\* What a client joins from the chunks of a whole chat stream.
LEMMA PiecesJoin ==
  ASSUME NEW ask, ask.op = "chat", Text(ReplyText(ask)),
         NEW deltas, deltas = [i \in 1 .. Len(Pieces(ask)) |-> Pieces(ask)[i].delta]
  PROVE  FlattenSeq(deltas) = ReplyText(ask) <=> Tidy(ReplyText(ask))
<1> DEFINE text == ReplyText(ask)
           tokens == Tokens(text)
           A == Alphabet(text)
           m == Len(tokens)
<1>1. tokens \in Seq(Seq(A)) /\ m \in Nat
  BY TokensJoin
<1>2. PICK joined : JoinedAs(joined, tokens, text, Len(text))
  BY TokensJoin
<1>3. PICK f : Joins(f, tokens, joined, A)
  BY <1>2 DEF JoinedAs
<1>4. /\ Len(Pieces(ask)) = m + 3
      /\ Pieces(ask)[1] = Chunk("role", <<>>)
      /\ \A i \in 1 .. m : Pieces(ask)[i + 1] = Chunk("token", tokens[i])
      /\ Pieces(ask)[m + 2] = Chunk("stop", <<>>) /\ Pieces(ask)[m + 3] = Chunk("DONE", <<>>)
  BY PiecesAre
<1>5. joined = text <=> Tidy(text)
  BY <1>2, JoinedIfTidy
<1> HIDE DEF text, tokens, A, m
<1>6. /\ deltas[1] = <<>> /\ deltas[m + 2] = <<>> /\ deltas[m + 3] = <<>>
      /\ \A i \in 1 .. m : deltas[i + 1] = tokens[i]
  <2>1. /\ 1 \in 1 .. m + 3 /\ m + 2 \in 1 .. m + 3 /\ m + 3 \in 1 .. m + 3
        /\ \A i \in 1 .. m : i + 1 \in 1 .. m + 3
    BY <1>1
  <2>2. \A i \in 1 .. m + 3 : deltas[i] = Pieces(ask)[i].delta
    BY <1>4
  <2>3. \A kind, delta : Chunk(kind, delta).delta = delta
    BY DEF Chunk
  <2>4. QED
    BY <1>4, <2>1, <2>2, <2>3
<1>7. Len(deltas) = m + 3
  <2>1. \A i \in 1 .. m + 3 : i = 1 \/ i = m + 2 \/ i = m + 3 \/ (i - 1 \in 1 .. m /\ (i - 1) + 1 = i)
    BY <1>1
  <2>2. \A i \in 1 .. m : tokens[i] \in Seq(A)
    BY <1>1 DEF m
  <2>3. \A i \in 1 .. m + 3 : deltas[i] \in Seq(A)
    <3> SUFFICES ASSUME NEW i \in 1 .. m + 3 PROVE deltas[i] \in Seq(A)
      OBVIOUS
    <3>1. <<>> \in Seq(A)
      OBVIOUS
    <3>2. CASE i = 1 \/ i = m + 2 \/ i = m + 3
      BY <1>6, <3>1, <3>2
    <3>3. CASE i - 1 \in 1 .. m /\ (i - 1) + 1 = i
      BY <1>6, <2>2, <3>3
    <3>4. QED
      BY <2>1, <3>2, <3>3
  <2>4. deltas \in [1 .. m + 3 -> Seq(A)]
    BY <1>4, <2>3
  <2>5. QED
    BY <1>1, <2>4, IsASeq
<1>8. /\ f \in [0 .. m -> Seq(A)] /\ f[0] = <<>> /\ f[m] = joined
      /\ \A k \in 1 .. m : f[k] = f[k - 1] \o tokens[k]
  BY <1>3 DEF Joins, m
<1> DEFINE g == [i \in 1 .. m + 3 |-> IF i <= m + 1 THEN f[i - 1] ELSE joined]
           Turned(h, i) == IF i = 1 THEN deltas[i] ELSE h[i - 1] \o deltas[i]
<1>9. joined \o <<>> = joined
  <2>1. joined \in Seq(A)
    BY <1>1, <1>8
  <2>2. QED
    BY <2>1
<1>10. ASSUME NEW i \in 1 .. m + 3 PROVE g[i] = Turned(g, i)
  <2>1. CASE i = 1
    BY <1>1, <1>6, <1>8, <2>1
  <2>2. CASE i \in 2 .. m + 1
    <3>1. i - 1 \in 1 .. m /\ (i - 1) + 1 = i /\ (i - 1) - 1 = i - 2 /\ i # 1
      BY <1>1, <2>2
    <3>2. g[i] = f[i - 1] /\ g[i - 1] = f[i - 2]
      BY <1>1, <2>2
    <3> HIDE DEF g
    <3>3. f[i - 1] = f[i - 2] \o tokens[i - 1] /\ deltas[i] = tokens[i - 1]
      BY <1>6, <1>8, <3>1
    <3>4. QED
      BY <3>1, <3>2, <3>3
  <2>3. CASE i \in {m + 2, m + 3}
    <3>1. i # 1 /\ deltas[i] = <<>> /\ g[i] = joined
      BY <1>1, <1>6, <2>3
    <3>2. g[i - 1] = joined
      <4>1. CASE i = m + 2
        <5>1. i - 1 = m + 1 /\ i - 1 \in 1 .. m + 3 /\ i - 1 <= m + 1 /\ (i - 1) - 1 = m
          BY <1>1, <4>1
        <5>2. QED
          BY <1>8, <5>1
      <4>2. CASE i = m + 3
        <5>1. i - 1 \in 1 .. m + 3 /\ ~(i - 1 <= m + 1)
          BY <1>1, <4>2
        <5>2. QED
          BY <5>1
      <4>3. QED
        BY <2>3, <4>1, <4>2
    <3> HIDE DEF g
    <3>3. QED
      BY <1>9, <3>1, <3>2
  <2>4. i = 1 \/ i \in 2 .. m + 1 \/ i \in {m + 2, m + 3}
    BY <1>1
  <2>5. QED
    BY <2>1, <2>2, <2>3, <2>4
<1>11. g[m + 3] = joined
  BY <1>1
<1>12. g = [i \in 1 .. m + 3 |-> Turned(g, i)]
  <2> HIDE DEF Turned
  <2>1. g = [i \in 1 .. m + 3 |-> g[i]]
    OBVIOUS
  <2> HIDE DEF g
  <2>2. QED
    BY <1>10, <2>1
<1> HIDE DEF g
<1>13. FlattenSeq(deltas) = g[m + 3]
  <2>1. m + 3 \in Nat /\ m + 3 # 0
    BY <1>1
  <2>2. Flattens(g, deltas)
    BY <1>7, <1>12, <2>1 DEF Flattens
  <2>3. QED
    BY <1>7, <2>2, FlattenIs
<1>14. QED
  BY <1>5, <1>11, <1>13 DEF text

-----------------------------------------------------------------------------
(* What a chat has said, and that it is the reply.                         *)

\* A stream has said its chunks so far, and all of them if it is whole; a completion in
\* one piece is the reply.
Said(r) ==
  asks[r].op = "chat" =>
    /\ Messages(asks[r])
    /\ asks[r].stream => /\ Len(sent[r]) <= Len(Pieces(asks[r]))
                         /\ \A i \in 1 .. Len(sent[r]) : sent[r][i] = Pieces(asks[r])[i]
    /\ reply[r].body = "whole" => asks[r].stream /\ Len(sent[r]) = Len(Pieces(asks[r]))
    /\ reply[r].body = "json" => sent[r] = <<Chunk("token", ReplyText(asks[r]))>>

SayInv == \A r \in Requests : Said(r)

\* The body is none that tells what was said.
Silent(r, body) == asks[r].op # "chat" \/ body \notin {"whole", "json"}

LEMMA SaidStays ==
  ASSUME NEW r, asks' = asks, sent'[r] = sent[r], Said(r),
         reply'[r].body = reply[r].body \/ Silent(r, reply'[r].body)
  PROVE  Said(r)'
<1>1. QED
  BY DEF Said, Silent, Messages

LEMMA OneSays ==
  ASSUME SayInv, asks' = asks, NEW r \in Requests, Said(r)',
         \A q \in Requests : q # r => sent'[q] = sent[q] /\ reply'[q] = reply[q]
  PROVE  SayInv'
<1>1. \A q \in Requests : q # r => Said(q)'
  BY SaidStays DEF SayInv
<1>2. QED
  BY <1>1 DEF SayInv

LEMMA NoneSays == ASSUME SayInv, asks' = asks, sent' = sent, reply' = reply PROVE SayInv'
<1>1. \A q \in Requests : Said(q)'
  BY SaidStays DEF SayInv
<1>2. QED
  BY <1>1 DEF SayInv

LEMMA RespondSays ==
  ASSUME SayInv, DataTyped, NEW r \in Requests, NEW s, NEW b, Respond(r, s, b), sent' = sent,
         Silent(r, b)
  PROVE  SayInv'
<1>1. asks' = asks /\ reply' = [reply EXCEPT ![r] = [status |-> s, body |-> b]]
  BY DEF Respond
<1>2. reply'[r].body = b /\ \A q \in Requests : q # r => reply'[q] = reply[q]
  BY <1>1 DEF DataTyped
<1>3. Said(r)'
  BY <1>1, <1>2, SaidStays DEF SayInv
<1>4. QED
  BY <1>1, <1>2, <1>3, OneSays

LEMMA LayerSays ==
  ASSUME SayInv, DataTyped, NEW r \in Requests, LayerStep(r), sent' = sent
  PROVE  SayInv'
<1>1. CASE Arrive(r)
  BY <1>1, NoneSays DEF Arrive
<1>2. CASE ShortCircuit(r)
  <2>1. PICK b \in {"broken", "fault"} : \E s : Respond(r, s, b)
    BY <1>2 DEF ShortCircuit
  <2>2. QED
    BY <2>1, RespondSays DEF Silent
<1>3. CASE EnterHandler(r)
  BY <1>3, NoneSays DEF EnterHandler
<1>4. CASE Ping(r)
  <2>1. asks[r].op = "ping" /\ Handled(r, 200)
    BY <1>4 DEF Ping
  <2>2. QED
    BY <2>1, RespondSays DEF Silent, Handled
<1>5. QED
  BY <1>1, <1>2, <1>3, <1>4 DEF LayerStep

LEMMA EndsSays ==
  ASSUME SayInv, DataTyped, NEW r \in Requests, NEW s, InHandler(r), Ends(r, s), sent' = sent
  PROVE  SayInv'
<1>1. asks[r].op # "chat"
  BY DEF InHandler, DataOps, ItemOps, AdminOps
<1>2. QED
  BY <1>1, RespondSays DEF Ends, Handled, Silent

LEMMA DataSays ==
  ASSUME SayInv, DataTyped, NEW r \in Requests, DataStep(r), sent' = sent
  PROVE  SayInv'
<1>1. ASSUME NEW to, Goes(r, to) PROVE SayInv'
  BY <1>1, NoneSays DEF Goes, layerVars
<1>2. CASE \E s : InHandler(r) /\ Ends(r, s)
  BY <1>2, EndsSays
<1>3. (\E to : Goes(r, to)) \/ \E s : InHandler(r) /\ Ends(r, s)
  BY DEF DataStep, Reject, Begin, CreateSchema, ListRuns, Look, Connect, Insert, Acquire,
         Execute, Migrate, RemovePool, PoolClosed, DropSchema, Start, Accepted
<1>4. QED
  BY <1>1, <1>2, <1>3

LEMMA CompleteSays ==
  ASSUME SayInv, DataTyped, Domains, NEW r \in Requests, Complete(r)
  PROVE  SayInv'
<1> DEFINE x == Chunk("token", ReplyText(asks[r]))
           b == IF effects[r].truncate THEN "cut" ELSE "json"
<1>1. /\ asks' = asks /\ asks[r].op = "chat" /\ ~asks[r].stream
      /\ reply' = [reply EXCEPT ![r] = [status |-> 200, body |-> b]]
      /\ sent' = [sent EXCEPT ![r] = <<x>>]
  BY DEF Complete
<1>2. b # "whole"
  OBVIOUS
<1> HIDE DEF b
<1>3. /\ reply'[r].body = b /\ sent'[r] = <<x>>
      /\ \A q \in Requests : q # r => reply'[q] = reply[q] /\ sent'[q] = sent[q]
  BY <1>1 DEF DataTyped, Domains
<1>4. Messages(asks[r])
  BY <1>1 DEF SayInv, Said
<1>5. Said(r)'
  BY <1>1, <1>2, <1>3, <1>4 DEF Said, Messages
<1>6. QED
  BY <1>1, <1>3, <1>5, OneSays

LEMMA OpenSays ==
  ASSUME SayInv, DataTyped, NEW r \in Requests, Open(r)
  PROVE  SayInv'
<1>1. sent' = sent
  BY DEF Open
<1>2. CASE effects[r].truncate
  BY <1>1, <1>2, NoneSays DEF Open
<1>3. CASE ~effects[r].truncate
  <2>1. Respond(r, 200, "stream")
    BY <1>3 DEF Open
  <2>2. QED
    BY <1>1, <2>1, RespondSays DEF Silent
<1>4. QED
  BY <1>2, <1>3

\* A stream still read has been told nothing of its end.
LEMMA ReadingIsOpen ==
  ASSUME TellInv, NEW r \in Requests, Reading(r)
  PROVE  /\ IsSeq(sent[r]) /\ reply[r].body \in {"none", "stream"}
         /\ asks[r].op = "chat" => asks[r].stream
<1>1. Tells(r)
  BY DEF TellInv
<1>2. QED
  BY <1>1 DEF Tells, StageRight, Reading, Streamed

LEMMA WriteSays ==
  ASSUME SayInv, TellInv, NEW r \in Requests, Write(r)
  PROVE  SayInv'
<1> DEFINE n == Len(sent[r])
           x == Pieces(asks[r])[n + 1]
<1>1. /\ asks' = asks /\ reply' = reply /\ Reading(r) /\ n < Len(Pieces(asks[r]))
      /\ sent' = [sent EXCEPT ![r] = Append(@, x)]
  BY DEF Write, More, Seq0
<1>2. sent'[r] = Append(sent[r], x) /\ \A q \in Requests : q # r => sent'[q] = sent[q]
  BY <1>1 DEF TellInv, Domains
<1>3. /\ IsSeq(sent[r]) /\ reply[r].body \in {"none", "stream"}
      /\ asks[r].op = "chat" => asks[r].stream
  BY <1>1, ReadingIsOpen
<1> HIDE DEF x
<1>4. /\ n \in Nat /\ Len(sent'[r]) = n + 1 /\ sent'[r][n + 1] = x
      /\ \A i \in 1 .. n : sent'[r][i] = sent[r][i]
  BY <1>2, <1>3, SeqLen, SeqAppend
<1>5. ASSUME asks[r].op = "chat"
      PROVE  /\ Messages(asks[r]) /\ Len(sent'[r]) <= Len(Pieces(asks[r]))
             /\ \A i \in 1 .. Len(sent'[r]) : sent'[r][i] = Pieces(asks[r])[i]
  <2>1. Messages(asks[r]) /\ \A i \in 1 .. n : sent[r][i] = Pieces(asks[r])[i]
    BY <1>3, <1>5 DEF SayInv, Said
  <2>2. Len(Pieces(asks[r])) \in Nat
    <3>1. Text(ReplyText(asks[r]))
      BY <2>1, ReplyIsText
    <3>2. IsSeq(Pieces(asks[r]))
      BY <1>5, <3>1, PiecesAre
    <3>3. QED
      BY <3>2, SeqLen
  <2>3. \A i \in 1 .. n + 1 : i \in 1 .. n \/ i = n + 1
    BY <1>4
  <2> HIDE DEF n
  <2>4. Len(sent'[r]) <= Len(Pieces(asks[r]))
    BY <1>1, <1>4, <2>2
  <2>5. QED
    BY <1>4, <2>1, <2>3, <2>4 DEF x
<1>6. Said(r)'
  BY <1>1, <1>3, <1>5 DEF Said, Messages
<1>7. QED
  BY <1>1, <1>2, <1>6, OneSays

LEMMA EndStreamSays ==
  ASSUME SayInv, TellInv, DataTyped, NEW r \in Requests, EndStream(r)
  PROVE  SayInv'
<1>1. Reading(r) /\ sent' = sent
  BY DEF EndStream, streamVars
<1>2. CASE stage[r] = "buffering"
  <2>1. Respond(r, 500, "empty") \/ Respond(r, 200, "cut")
    BY <1>2 DEF EndStream
  <2>2. QED
    BY <1>1, <2>1, RespondSays DEF Silent
<1>3. CASE stage[r] # "buffering"
  <2> DEFINE b == IF More(r) THEN "broken" ELSE "whole"
  <2>1. asks' = asks /\ reply' = [reply EXCEPT ![r].body = b]
    BY <1>3 DEF EndStream
  <2>2. b = "broken" \/ (b = "whole" /\ ~(Len(sent[r]) < Len(Pieces(asks[r]))))
    BY DEF More, Seq0
  <2> HIDE DEF b
  <2>3. reply'[r].body = b /\ \A q \in Requests : q # r => reply'[q] = reply[q]
    BY <2>1 DEF DataTyped
  <2>4. Said(r)
    BY DEF SayInv
  <2>5. CASE asks[r].op # "chat" \/ b = "broken"
    <3>1. Silent(r, reply'[r].body)
      BY <2>3, <2>5 DEF Silent
    <3>2. Said(r)'
      BY <1>1, <2>1, <2>4, <3>1, SaidStays
    <3>3. QED
      BY <1>1, <2>1, <2>3, <3>2, OneSays
  <2>6. CASE asks[r].op = "chat" /\ b = "whole"
    <3>1. IsSeq(sent[r]) /\ asks[r].stream
      BY <1>1, <2>6, ReadingIsOpen
    <3>2. Messages(asks[r]) /\ Len(sent[r]) <= Len(Pieces(asks[r]))
      BY <2>4, <2>6, <3>1 DEF Said
    <3>3. Len(Pieces(asks[r])) \in Nat /\ Len(sent[r]) \in Nat
      <4>1. Text(ReplyText(asks[r]))
        BY <3>2, ReplyIsText
      <4>2. IsSeq(Pieces(asks[r]))
        BY <2>6, <4>1, PiecesAre
      <4>3. QED
        BY <3>1, <4>2, SeqLen
    <3>4. Len(sent[r]) = Len(Pieces(asks[r]))
      BY <2>2, <2>6, <3>2, <3>3
    <3>5. Said(r)'
      BY <1>1, <2>1, <2>3, <2>4, <2>6, <3>1, <3>4 DEF Said, Messages
    <3>6. QED
      BY <1>1, <2>1, <2>3, <3>5, OneSays
  <2>7. QED
    BY <2>2, <2>5, <2>6
<1>4. QED
  BY <1>2, <1>3

LEMMA NextSays == Inv /\ TellInv /\ SayInv /\ [Next]_vars => SayInv'
<1> SUFFICES ASSUME Inv, TellInv, SayInv, [Next]_vars PROVE SayInv'
  OBVIOUS
<1>1. DataTyped /\ Domains
  BY DEF Inv, TellInv
<1>2. ASSUME NEW r \in Requests, Serve(r) PROVE SayInv'
  <2>1. CASE LayerStep(r) /\ UNCHANGED <<dataVars, streamVars>>
    BY <1>1, <2>1, LayerSays DEF streamVars
  <2>2. CASE DataStep(r) /\ UNCHANGED streamVars
    BY <1>1, <2>2, DataSays DEF streamVars
  <2>3. CASE StreamStep(r) /\ UNCHANGED dataVars
    BY <1>1, <2>3, CompleteSays, OpenSays, WriteSays, EndStreamSays DEF StreamStep
  <2>4. QED
    BY <1>2, <2>1, <2>2, <2>3 DEF Serve
<1>3. ASSUME NEW r \in Requests, Leave(r) PROVE SayInv'
  BY <1>3, NoneSays DEF Leave, Abandon, streamVars
<1>4. ASSUME NEW r \in Requests, Refused(r), UNCHANGED streamVars PROVE SayInv'
  BY <1>1, <1>4, EndsSays DEF Refused, streamVars
<1>5. CASE (SetFaults \/ Time) /\ UNCHANGED <<dataVars, streamVars>>
  BY <1>5, NoneSays DEF SetFaults, Time, Tick, streamVars
<1>6. CASE ClockStep /\ UNCHANGED dataVars
  BY <1>6, NoneSays DEF ClockStep, Advance, Freeze, Resume, ResetClock, layerVars
<1>7. CASE UNCHANGED vars
  BY <1>7, NoneSays DEF vars, layerVars, streamVars
<1>8. QED
  BY <1>2, <1>3, <1>4, <1>5, <1>6, <1>7 DEF Next

LEMMA InitSays == Init => SayInv
<1> SUFFICES ASSUME Init, NEW r \in Requests PROVE Said(r)
  BY DEF SayInv
<1>1. PICK s \in Scenes : asks = s.asks
  BY DEF Init, LayerInit
<1>2. sent[r] = <<>> /\ reply[r].body = "none"
  BY DEF Init, LayerInit, StreamInit, NoReply
<1>3. asks[r].op = "chat" => Messages(asks[r])
  BY <1>1, StreamsAssumption DEF Messages
<1>4. asks[r].op = "chat" => Len(Pieces(asks[r])) \in Nat
  <2> SUFFICES ASSUME asks[r].op = "chat" PROVE Len(Pieces(asks[r])) \in Nat
    OBVIOUS
  <2>1. Text(ReplyText(asks[r]))
    BY <1>3, ReplyIsText
  <2>2. IsSeq(Pieces(asks[r]))
    BY <2>1, PiecesAre
  <2>3. QED
    BY <2>2, SeqLen
<1>5. Len(<<>>) = 0
  OBVIOUS
<1>6. QED
  BY <1>2, <1>3, <1>4, <1>5 DEF Said

LEMMA SaysStreams == TellInv /\ SayInv => StreamsSayTheReply
<1> SUFFICES ASSUME TellInv, SayInv, NEW r \in Requests, asks[r].op = "chat"
    PROVE  /\ reply[r].body = "whole" =>
                /\ \A i \in 1 .. Len(sent[r]) - 3 : sent[r][i].kind \in {"role", "token"}
                /\ sent[r][Len(sent[r]) - 1].kind = "stop" /\ sent[r][Len(sent[r])].kind = "DONE"
                /\ (Assembled(r) = ReplyText(asks[r])) <=> Tidy(ReplyText(asks[r]))
           /\ reply[r].body = "json" => Assembled(r) = ReplyText(asks[r])
  BY TellsStreams DEF StreamsSayTheReply
<1> DEFINE text == ReplyText(asks[r])
           m == Len(Tokens(text))
<1>1. Said(r) /\ IsSeq(sent[r])
  BY DEF TellInv, Tells, SayInv
<1>2. Text(text)
  BY <1>1, ReplyIsText DEF Said
<1>3. /\ m \in Nat /\ Len(Pieces(asks[r])) = m + 3
      /\ Pieces(asks[r])[1] = Chunk("role", <<>>)
      /\ \A i \in 1 .. m : Pieces(asks[r])[i + 1] = Chunk("token", Tokens(text)[i])
      /\ Pieces(asks[r])[m + 2] = Chunk("stop", <<>>) /\ Pieces(asks[r])[m + 3] = Chunk("DONE", <<>>)
  BY <1>2, PiecesAre
<1> HIDE DEF text, m
<1>4. \A kind, delta : Chunk(kind, delta).kind = kind /\ Chunk(kind, delta).delta = delta
  BY DEF Chunk
<1>5. DOMAIN sent[r] = 1 .. Len(sent[r])
  BY <1>1 DEF IsSeq
<1>6. ASSUME reply[r].body = "whole"
      PROVE  /\ \A i \in 1 .. Len(sent[r]) - 3 : sent[r][i].kind \in {"role", "token"}
             /\ sent[r][Len(sent[r]) - 1].kind = "stop" /\ sent[r][Len(sent[r])].kind = "DONE"
             /\ (Assembled(r) = text) <=> Tidy(text)
  <2>1. Len(sent[r]) = m + 3 /\ \A i \in 1 .. m + 3 : sent[r][i] = Pieces(asks[r])[i]
    BY <1>1, <1>3, <1>6 DEF Said
  <2>2. /\ m + 3 - 3 = m /\ m + 3 - 1 = m + 2 /\ m + 2 \in 1 .. m + 3 /\ m + 3 \in 1 .. m + 3
        /\ \A i \in 1 .. m : /\ i \in 1 .. m + 3
                             /\ i = 1 \/ (i - 1 \in 1 .. m /\ (i - 1) + 1 = i)
    BY <1>3
  <2>3. \A i \in 1 .. m : sent[r][i].kind \in {"role", "token"}
    <3> SUFFICES ASSUME NEW i \in 1 .. m PROVE sent[r][i].kind \in {"role", "token"}
      OBVIOUS
    <3>1. sent[r][i] = Pieces(asks[r])[i]
      BY <2>1, <2>2
    <3>2. CASE i = 1
      BY <1>3, <1>4, <3>1, <3>2
    <3>3. CASE i - 1 \in 1 .. m /\ (i - 1) + 1 = i
      <4>1. Pieces(asks[r])[i] = Chunk("token", Tokens(text)[i - 1])
        BY <1>3, <3>3
      <4>2. QED
        BY <1>4, <3>1, <4>1
    <3>4. QED
      BY <2>2, <3>2, <3>3
  <2>4. /\ sent[r][Len(sent[r]) - 1] = Chunk("stop", <<>>)
        /\ sent[r][Len(sent[r])] = Chunk("DONE", <<>>)
    BY <1>3, <2>1, <2>2
  <2>5. (Assembled(r) = text) <=> Tidy(text)
    <3> DEFINE deltas == [i \in 1 .. Len(Pieces(asks[r])) |-> Pieces(asks[r])[i].delta]
    <3>1. [i \in DOMAIN sent[r] |-> sent[r][i].delta] = deltas
      BY <1>3, <1>5, <2>1
    <3>2. Assembled(r) = FlattenSeq(deltas)
      BY <3>1 DEF Assembled
    <3> HIDE DEF deltas
    <3>3. FlattenSeq(deltas) = text <=> Tidy(text)
      BY <1>2, PiecesJoin DEF deltas, text
    <3>4. QED
      BY <3>2, <3>3
  <2>6. Len(sent[r]) - 3 = m
    BY <1>3, <2>1
  <2>7. \A i \in 1 .. Len(sent[r]) - 3 : sent[r][i].kind \in {"role", "token"}
    BY <2>3, <2>6
  <2>8. sent[r][Len(sent[r]) - 1].kind = "stop" /\ sent[r][Len(sent[r])].kind = "DONE"
    BY <1>4, <2>4
  <2>9. QED
    BY <2>5, <2>7, <2>8
<1>7. ASSUME reply[r].body = "json" PROVE Assembled(r) = text
  <2> DEFINE deltas == [i \in DOMAIN sent[r] |-> sent[r][i].delta]
  <2>1. sent[r] = <<Chunk("token", text)>>
    BY <1>1, <1>7 DEF Said, text
  <2>2. Len(sent[r]) = 1 /\ sent[r][1].delta = text
    BY <1>4, <2>1
  <2>3. deltas = [i \in 1 .. 1 |-> text]
    BY <1>5, <2>2
  <2> HIDE DEF deltas
  <2>4. deltas \in [1 .. 1 -> {text}] /\ deltas[1] = text
    BY <2>3
  <2>5. Len(deltas) = 1
    BY <2>4, IsASeq
  <2>6. deltas = [i \in 1 .. 1 |-> IF i = 1 THEN deltas[i] ELSE deltas[i - 1] \o deltas[i]]
    BY <2>3, <2>4
  <2>7. Flattens(deltas, deltas)
    BY <2>5, <2>6 DEF Flattens
  <2>8. FlattenSeq(deltas) = deltas[1]
    BY <2>5, <2>7, FlattenIs
  <2>9. QED
    BY <2>4, <2>8 DEF Assembled, deltas
<1>8. QED
  BY <1>6, <1>7 DEF text

-----------------------------------------------------------------------------
(* The theorems about what is said.                                        *)

\* Each chat stream has said, chunk for chunk, what its reply is cut into; it is whole only
\* when it has said all of it, and a completion in one piece is the reply.
THEOREM HttpPlaneSayInv == Spec => []SayInv
<1>1. Init => SayInv
  BY InitSays
<1>2. Inv /\ TellInv /\ SayInv /\ [Next]_vars => SayInv'
  BY NextSays
<1>3. QED
  BY <1>1, <1>2, HttpPlaneInv, HttpPlaneTellInv, PTL DEF Spec

\* For any conversation, of any length: the deltas of a whole chat stream join to the reply
\* if and only if that is tidy, which is what tokenize keeps of white space, and a
\* completion in one piece is the reply as it stands.
THEOREM HttpPlaneStreamsSayTheReply == Spec => []StreamsSayTheReply
<1>1. QED
  BY HttpPlaneSayInv, HttpPlaneTellInv, SaysStreams, PTL
=============================================================================
