------------------------------ MODULE DataPlane ------------------------------
(***************************************************************************)
(* The Postgres data plane (http/src/data.rs), the /api/items handlers     *)
(* (http/src/items.rs) and the admin routes that create and drop runs: a   *)
(* schema and a pool per run.  Postgres executes each statement in one     *)
(* step; between two statements, and between the reading and the writing   *)
(* of the map of pools, other requests run.                                *)
(***************************************************************************)
EXTENDS FaultLayer

CONSTANTS
  Runs,
  DefaultRun,   \* the process's own run, that of a request without the header
  MaxRefusals   \* bound: connections Postgres refuses

VARIABLES
  schema,      \* Postgres: a run's schema is "none", "bare" of tables or "ready"
  rows,        \* ... and the items in it, by the request that created them
  pools,       \* DataPlane::pools; a pool is named for the request that built it
  closed,      \* the pools that are closed
  locked,      \* the request that holds the pools' write lock, or None
  at,          \* where each handler stands
  mine,        \* the pool each handler works with, or None
  refusals,
  excused      \* history: the requests that met a drop, an unready run or a refusal

dataVars == <<schema, rows, pools, closed, locked, at, mine, refusals, excused>>

\* The process's own pool of its run, built at boot.
BootPool == "boot"

\* The requests ask for runs, or for none.  Pools are named apart from the absent one, and
\* the one built at boot apart from those that requests build.
ASSUME DataAssumption ==
  /\ DefaultRun \in Runs
  /\ None \notin Runs \cup Requests \cup {BootPool}
  /\ BootPool \notin Requests
  /\ \A s \in Scenes, r \in Requests :
       "run" \in DOMAIN s.asks[r] => s.asks[r].run \in Runs \cup {None}

\* MaybeData is Some.
configured == boot # "unconfigured"

ItemOps == {"list", "create", "get", "delete"}
DataOps == ItemOps \cup AdminOps

\* The Run extractor; a header that is not a run id is asked for with the run None.
RunOf(r) == IF "run" \in DOMAIN asks[r] THEN asks[r].run ELSE DefaultRun

OfRun(u) == {r \in Requests : asks[r].op \in DataOps /\ RunOf(r) = u}
InHandler(r) == stage[r] = "handler" /\ asks[r].op \in DataOps
Dropping(u) == {r \in OfRun(u) : InHandler(r) /\ at[r] \in {"closing", "dropSchema"}}

\* A data handler ends, and lets go of what it held.
Ends(r, status) ==
  /\ Handled(r, status)
  /\ at' = [at EXCEPT ![r] = "idle"]
  /\ mine' = [mine EXCEPT ![r] = None]

Goes(r, to) ==
  /\ at' = [at EXCEPT ![r] = to]
  /\ UNCHANGED layerVars

-----------------------------------------------------------------------------
(* The handlers' first step: the plane, the run, the map of pools.         *)

Start(r) == InHandler(r) /\ at[r] = "idle"

\* No data plane, or a header or path that names no run.
Reject(r) ==
  /\ Start(r)
  /\ ~configured \/ (asks[r].op # "listRuns" /\ RunOf(r) = None)
  /\ Ends(r, IF RunOf(r) = None /\ (configured \/ asks[r].op \in ItemOps) THEN 400 ELSE 503)
  /\ UNCHANGED <<schema, rows, pools, closed, locked, refusals, excused>>

Accepted(r) == Start(r) /\ configured /\ (asks[r].op = "listRuns" \/ RunOf(r) # None)

Begin(r) ==
  LET u == RunOf(r)
  IN  /\ Accepted(r) /\ asks[r].op \in ItemOps
      /\ excused' = IF schema[u] # "ready" \/ Dropping(u) # {} THEN excused \cup {r} ELSE excused
      /\ Goes(r, "look")
      /\ UNCHANGED <<schema, rows, pools, closed, locked, mine, refusals>>

\* create_run: its own connection first, and a run nobody was told of yet.
CreateSchema(r) ==
  LET u == RunOf(r)
  IN  /\ Accepted(r) /\ asks[r].op = "createRun"
      /\ schema' = [schema EXCEPT ![u] = IF @ = "none" THEN "bare" ELSE @]
      /\ excused' = IF Dropping(u) # {} THEN excused \cup {r} ELSE excused
      /\ Goes(r, "look")
      /\ UNCHANGED <<rows, pools, closed, locked, mine, refusals>>

\* runs: a run is listed from the insertion of its pool on, migrated or not.
ListRuns(r) ==
  /\ Accepted(r) /\ asks[r].op = "listRuns" /\ locked = None
  /\ Ends(r, 200)
  /\ UNCHANGED <<schema, rows, pools, closed, locked, refusals, excused>>

\* pool: under the read lock.
Look(r) ==
  LET u == RunOf(r)
  IN  /\ InHandler(r) /\ at[r] = "look" /\ locked = None
      /\ Goes(r, IF pools[u] = None THEN "connect" ELSE "acquire")
      /\ mine' = [mine EXCEPT ![r] = pools[u]]
      /\ UNCHANGED <<schema, rows, pools, closed, locked, refusals, excused>>

Connect(r) ==
  /\ InHandler(r) /\ at[r] = "connect"
  /\ Goes(r, "insert")
  /\ UNCHANGED <<schema, rows, pools, closed, locked, mine, refusals, excused>>

\* Postgres refuses a connection: one of the pool's, or the admin one of a create or a
\* drop.
Refused(r) ==
  /\ InHandler(r) /\ refusals < MaxRefusals
  /\ \/ at[r] \in {"connect", "acquire", "dropSchema"}
     \/ Accepted(r) /\ asks[r].op = "createRun"
  /\ refusals' = refusals + 1
  /\ excused' = excused \cup {r}
  /\ Ends(r, 500)
  /\ UNCHANGED <<schema, rows, pools, closed, locked>>

InsertedLast(u, p) == [pools EXCEPT ![u] = p]

\* The map after or_insert: whichever pool landed first stays.
Inserted(u, p) == IF pools[u] = None THEN [pools EXCEPT ![u] = p] ELSE pools

Insert(r) ==
  LET u == RunOf(r)
  IN  /\ InHandler(r) /\ at[r] = "insert" /\ locked = None
      /\ pools' = Inserted(u, r)
      /\ mine' = [mine EXCEPT ![r] = pools'[u]]
      /\ closed' = IF pools'[u] = r THEN closed ELSE closed \cup {r}
      /\ Goes(r, "acquire")
      /\ UNCHANGED <<schema, rows, locked, refusals, excused>>

-----------------------------------------------------------------------------
(* The statements.                                                         *)

\* A connection of the run's pool, with its search_path set; none from a closed pool.
Acquire(r) ==
  /\ InHandler(r) /\ at[r] = "acquire"
  /\ IF mine[r] \in closed
     THEN Ends(r, 500)
     ELSE Goes(r, "query") /\ UNCHANGED mine
  /\ UNCHANGED <<schema, rows, pools, closed, locked, refusals, excused>>

Missing(r) == asks[r].op \in {"get", "delete"} /\ asks[r].item \notin rows[RunOf(r)]

ItemStatus(r) ==
  IF schema[RunOf(r)] # "ready" THEN 500
  ELSE IF Missing(r) THEN 404
  ELSE CASE asks[r].op = "create" -> 201
         [] asks[r].op = "delete" -> 204
         [] OTHER -> 200

Execute(r) ==
  LET u == RunOf(r)
  IN  /\ InHandler(r) /\ at[r] = "query" /\ asks[r].op \in ItemOps
      /\ Ends(r, ItemStatus(r))
      /\ rows' = CASE ItemStatus(r) = 201 -> [rows EXCEPT ![u] = @ \cup {r}]
                   [] ItemStatus(r) = 204 -> [rows EXCEPT ![u] = @ \ {asks[r].item}]
                   [] OTHER -> rows
      /\ UNCHANGED <<schema, pools, closed, locked, refusals, excused>>

Migrate(r) ==
  LET u == RunOf(r)
  IN  /\ InHandler(r) /\ at[r] = "query" /\ asks[r].op = "createRun"
      /\ schema' = [schema EXCEPT ![u] = IF @ = "none" THEN @ ELSE "ready"]
      /\ Ends(r, IF schema[u] = "none" THEN 500 ELSE 200)
      /\ UNCHANGED <<rows, pools, closed, locked, refusals, excused>>

-----------------------------------------------------------------------------
(* drop_run.                                                               *)

RemovePoolByGet(r) ==
  LET u == RunOf(r)
  IN  /\ Accepted(r) /\ asks[r].op = "dropRun" /\ locked = None
      /\ closed' = closed \cup ({pools[u]} \ {None})
      /\ locked' = IF pools[u] = None THEN None ELSE r
      /\ mine' = [mine EXCEPT ![r] = pools[u]]
      /\ excused' = excused \cup {q \in OfRun(u) : InHandler(q)}
      /\ Goes(r, IF pools[u] = None THEN "dropSchema" ELSE "closing")
      /\ UNCHANGED <<schema, rows, pools, refusals>>

\* The pool leaves the map and stops giving connections out; the write lock is a
\* temporary of the `if let` and lives until close has returned.
RemovePool(r) ==
  LET u == RunOf(r)
  IN  /\ Accepted(r) /\ asks[r].op = "dropRun" /\ locked = None
      /\ pools' = [pools EXCEPT ![u] = None]
      /\ closed' = closed \cup ({pools[u]} \ {None})
      /\ locked' = IF pools[u] = None THEN None ELSE r
      /\ mine' = [mine EXCEPT ![r] = pools[u]]
      /\ excused' = excused \cup {q \in OfRun(u) : InHandler(q)}
      /\ Goes(r, IF pools[u] = None THEN "dropSchema" ELSE "closing")
      /\ UNCHANGED <<schema, rows, refusals>>

PoolClosedStillLocked(r) ==
  /\ InHandler(r) /\ at[r] = "closing"
  /\ \A q \in Requests : at[q] = "query" => mine[q] # mine[r]
  /\ Goes(r, "dropSchema")
  /\ UNCHANGED <<schema, rows, pools, closed, locked, mine, refusals, excused>>

\* close waits for the connections that are out.
PoolClosed(r) ==
  /\ InHandler(r) /\ at[r] = "closing"
  /\ \A q \in Requests : at[q] = "query" => mine[q] # mine[r]
  /\ locked' = None
  /\ Goes(r, "dropSchema")
  /\ UNCHANGED <<schema, rows, pools, closed, mine, refusals, excused>>

DropSchema(r) ==
  LET u == RunOf(r)
  IN  /\ InHandler(r) /\ at[r] = "dropSchema"
      /\ schema' = [schema EXCEPT ![u] = "none"]
      /\ rows' = [rows EXCEPT ![u] = {}]
      /\ Ends(r, 200)
      /\ excused' = excused \cup {q \in OfRun(u) : InHandler(q)}
      /\ UNCHANGED <<pools, closed, locked, refusals>>

-----------------------------------------------------------------------------
\* The future of an abandoned handler is dropped: its lock is released, its connection
\* returned, and a pool it had built and not handed on is closed.
HandlerDropped(r) ==
  /\ at' = [at EXCEPT ![r] = "idle"]
  /\ mine' = [mine EXCEPT ![r] = None]
  /\ locked' = IF locked = r THEN None ELSE locked
  /\ closed' = IF at[r] = "insert" THEN closed \cup {r} ELSE closed
  /\ UNCHANGED <<schema, rows, pools, refusals, excused>>

\* A process at the end of its boot: without Postgres, with its own run prepared, or
\* with Postgres having failed it there.
DataInit ==
  /\ schema = [u \in Runs |-> IF u = DefaultRun /\ boot = "ready" THEN "ready" ELSE "none"]
  /\ pools = [u \in Runs |-> IF u = DefaultRun /\ boot = "ready" THEN BootPool ELSE None]
  /\ rows = [u \in Runs |-> {}]
  /\ closed = {}
  /\ locked = None
  /\ at = [r \in Requests |-> "idle"]
  /\ mine = [r \in Requests |-> None]
  /\ refusals = 0
  /\ excused = {}

DataStep(r) ==
  \/ Reject(r) \/ Begin(r) \/ CreateSchema(r) \/ ListRuns(r) \/ Look(r) \/ Connect(r)
  \/ Insert(r) \/ Acquire(r) \/ Execute(r) \/ Migrate(r)
  \/ RemovePool(r) \/ PoolClosed(r) \/ DropSchema(r)

-----------------------------------------------------------------------------
(* Properties.                                                             *)

Handles(u) == ({pools[u]} \cup {mine[r] : r \in OfRun(u)}) \ ({None} \cup closed)

\* A run never ends up with two pools: of the pools that requests of a run work with and
\* the one in the map, at most one is open; and a pool in the map is open, so a request
\* that is given one after a drop was not given the dropped one.
OnePoolPerRun ==
  \A u \in Runs : /\ Cardinality(Handles(u)) <= 1
                  /\ pools[u] \notin closed

\* A data handler answers 500 only if, while it was at work, its run was not ready, a drop
\* of its run was under way, or Postgres refused: never because of what the requests of
\* other runs, or other requests of its run, did.  (A status the layer put in the
\* handler's place has another body.)
ServerErrorsAreExplained ==
  \A r \in Requests :
    /\ asks[r].op \in DataOps
    /\ reply[r].status = 500
    /\ reply[r].body \in {"json", "cut"}
    => r \in excused
=============================================================================
