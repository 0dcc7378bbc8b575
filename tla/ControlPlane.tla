----------------------------- MODULE ControlPlane -----------------------------
(***************************************************************************)
(* The control plane's state (crates/core/src/state.rs) under concurrent   *)
(* admin requests (crates/admin/src/lib.rs), with snapshots                *)
(* (crates/core/src/snapshot.rs) and restarts from them (server/main.rs).  *)
(*                                                                         *)
(* Base is fixed at boot, the overlay is what requests have written over   *)
(* it, resolved is what everyone reads.  Writers hold the write lock;      *)
(* readers take none and see each store as it happens.  A request is known *)
(* by its id, which also names the fault it adds or the telemetry it sets. *)
(* The clock is its offset alone: Clock.tla has the rest.                  *)
(***************************************************************************)
EXTENDS Naturals, Sequences, Functions

CONSTANTS
  Requests,         \* admin requests, each handled once
  Kinds,            \* the handlers they may be for
  Seeds,            \* the names of the faults a scenario may seed
  SeededFaults,     \* the scenario's faults, in order
  SeededTelemetry,  \* the scenario's telemetry fault
  Honest,           \* TelemetryFault::default()
  Unset,            \* None in the overlay: defer to base
  NoOne, NoFile,
  MaxRestarts       \* bound: crashes followed

Handlers == {"add", "clear", "set", "honest", "reset", "advance", "snapshot"}
Rules == Requests \cup Seeds
Settings == Requests \cup {SeededTelemetry, Honest}
Configs == [faults : Seq(Rules), telemetry : Settings]
Overlays == [faults : Seq(Rules) \cup {Unset}, telemetry : Settings \cup {Unset}]

ASSUME ControlAssumption ==
  /\ Kinds \subseteq Handlers
  /\ SeededFaults \in Seq(Seeds)
  /\ NoOne \notin Requests
  /\ MaxRestarts \in Nat

VARIABLES
  base,      \* the scenario this process booted from
  overlay, resolved,
  lock,      \* the holder of the write mutex
  offset,    \* the clock's offset: 1 once advanced
  file,      \* the snapshot on disk
  restarts,
  kind,      \* the handler each request is for, "none" until it begins
  pc,        \* its next step
  list,      \* add_fault: the fault list it has read and added to
  draft,     \* the overlay it is about to publish, or has captured
  shot,      \* write_snapshot: the offset it has captured
  wanted     \* history: each field of the overlay as it was last asked for

stateVars == <<base, overlay, resolved, lock, offset>>
callVars == <<kind, list, draft, shot>>
vars == <<stateVars, file, restarts, callVars, pc, wanted>>

Empty == [faults |-> Unset, telemetry |-> Unset]
Scenario == [faults |-> SeededFaults, telemetry |-> SeededTelemetry]

Resolve(b, o) ==
  [faults |-> IF o.faults = Unset THEN b.faults ELSE o.faults,
   telemetry |-> IF o.telemetry = Unset THEN b.telemetry ELSE o.telemetry]

Goto(r, from, to) == pc[r] = from /\ pc' = [pc EXCEPT ![r] = to]
Writers == {"add", "clear", "set", "honest", "reset"}

-----------------------------------------------------------------------------
(* Handlers.                                                               *)

\* A handler begins; add_fault reads the effective list before it takes the lock.
Begin(r, k) ==
  /\ Goto(r, "new", CASE k \in Writers -> "lock"
                      [] k = "snapshot" -> "capture"
                      [] k = "advance" -> "advance")
  /\ kind' = [kind EXCEPT ![r] = k]
  /\ list' = IF k = "add" THEN [list EXCEPT ![r] = Append(resolved.faults, r)] ELSE list
  /\ UNCHANGED <<stateVars, file, restarts, draft, shot, wanted>>

\* What the closure given to mutate, or reset, makes of the overlay.
Edited(r, o) ==
  CASE kind[r] = "add"    -> [o EXCEPT !.faults = list[r]]
    [] kind[r] = "clear"  -> [o EXCEPT !.faults = <<>>]
    [] kind[r] = "set"    -> [o EXCEPT !.telemetry = r]
    [] kind[r] = "honest" -> [o EXCEPT !.telemetry = Honest]
    [] OTHER              -> Empty

\* mutate: under the lock, edit a copy, publish what it resolves to, then the copy.
LockIgnored(r) ==
  /\ Goto(r, "lock", "resolve")
  /\ lock' = r
  /\ draft' = [draft EXCEPT ![r] = Edited(r, overlay)]
  /\ UNCHANGED <<base, overlay, resolved, offset, file, restarts, kind, list, shot, wanted>>
Lock(r) ==
  /\ Goto(r, "lock", "resolve")
  /\ lock = NoOne
  /\ lock' = r
  /\ draft' = [draft EXCEPT ![r] = Edited(r, overlay)]
  /\ UNCHANGED <<base, overlay, resolved, offset, file, restarts, kind, list, shot, wanted>>

StoreResolvedOfOld(r) ==
  /\ Goto(r, "resolve", "store")
  /\ resolved' = Resolve(base, overlay)
  /\ UNCHANGED <<base, overlay, lock, offset, file, restarts, callVars, wanted>>
StoreResolved(r) ==
  /\ Goto(r, "resolve", "store")
  /\ resolved' = Resolve(base, draft[r])
  /\ UNCHANGED <<base, overlay, lock, offset, file, restarts, callVars, wanted>>

\* What r asked for, as opposed to what its copy of the overlay says.
Asked(r) ==
  CASE kind[r] \in {"add", "clear"}  -> [wanted EXCEPT !.faults = draft[r].faults]
    [] kind[r] \in {"set", "honest"} -> [wanted EXCEPT !.telemetry = draft[r].telemetry]
    [] OTHER                         -> Empty

\* The overlay, and the guard's drop unless reset has the clock to do as well.
StoreOverlayThenMutate(r) ==
  /\ Goto(r, "store", IF kind[r] = "reset" THEN "lock" ELSE "done")
  /\ overlay' = draft[r]
  /\ lock' = IF kind[r] = "reset" THEN lock ELSE NoOne
  /\ wanted' = Asked(r)
  /\ UNCHANGED <<base, resolved, offset, file, restarts, callVars>>
StoreOverlay(r) ==
  /\ Goto(r, "store", IF kind[r] = "reset" THEN "clock" ELSE "done")
  /\ overlay' = draft[r]
  /\ lock' = IF kind[r] = "reset" THEN lock ELSE NoOne
  /\ wanted' = Asked(r)
  /\ UNCHANGED <<base, resolved, offset, file, restarts, callVars>>

ResetClock(r) ==
  /\ Goto(r, "clock", "done")
  /\ offset' = 0
  /\ lock' = NoOne
  /\ UNCHANGED <<base, overlay, resolved, file, restarts, callVars, wanted>>

\* POST /_admin/clock/advance takes no lock.
Advance(r) ==
  /\ Goto(r, "advance", "done")
  /\ offset' = 1
  /\ UNCHANGED <<base, overlay, resolved, lock, file, restarts, callVars, wanted>>

\* write_snapshot reads the clock, then the overlay, then replaces the file's row.
CaptureClock(r) ==
  /\ Goto(r, "capture", "captureOverlay")
  /\ shot' = [shot EXCEPT ![r] = offset]
  /\ UNCHANGED <<stateVars, file, restarts, kind, list, draft, wanted>>

CaptureOverlay(r) ==
  /\ Goto(r, "captureOverlay", "write")
  /\ draft' = [draft EXCEPT ![r] = overlay]
  /\ UNCHANGED <<stateVars, file, restarts, kind, list, shot, wanted>>

WriteEffective(r) ==
  /\ Goto(r, "write", "done")
  /\ file' = [base |-> Resolve(base, draft[r]), overlay |-> draft[r], offset |-> shot[r]]
  /\ UNCHANGED <<stateVars, restarts, callVars, wanted>>
Write(r) ==
  /\ Goto(r, "write", "done")
  /\ file' = [base |-> base, overlay |-> draft[r], offset |-> shot[r]]
  /\ UNCHANGED <<stateVars, restarts, callVars, wanted>>

-----------------------------------------------------------------------------
\* The process dies, with the requests it was handling, and boots again: from the
\* snapshot if one is named, whose overlay is applied over its base, else anew.
Restart(restore) ==
  LET b == IF restore THEN file.base ELSE Scenario
      o == IF restore THEN file.overlay ELSE Empty
  IN  /\ restarts < MaxRestarts
      /\ restarts' = restarts + 1
      /\ restore => file # NoFile
      /\ base' = b /\ overlay' = o /\ resolved' = Resolve(b, o) /\ wanted' = o
      /\ offset' = IF restore THEN file.offset ELSE 0
      /\ lock' = NoOne
      /\ pc' = [r \in Requests |-> IF pc[r] \in {"new", "done"} THEN pc[r] ELSE "aborted"]
      /\ UNCHANGED <<file, callVars>>

Init ==
  /\ base = Scenario /\ overlay = Empty /\ resolved = Resolve(Scenario, Empty)
  /\ lock = NoOne /\ offset = 0
  /\ file = NoFile /\ restarts = 0
  /\ kind = [r \in Requests |-> "none"]
  /\ pc = [r \in Requests |-> "new"]
  /\ list = [r \in Requests |-> <<>>]
  /\ draft = [r \in Requests |-> Empty]
  /\ shot = [r \in Requests |-> 0]
  /\ wanted = Empty

Handle(r) ==
  \/ Lock(r) \/ StoreResolved(r) \/ StoreOverlay(r) \/ ResetClock(r)
  \/ Advance(r)
  \/ CaptureClock(r) \/ CaptureOverlay(r) \/ Write(r)

Next ==
  \/ \E r \in Requests, k \in Kinds : Begin(r, k)
  \/ \E r \in Requests : Handle(r)
  \/ \E restore \in BOOLEAN : Restart(restore)

Spec == Init /\ [][Next]_vars
\* A handler that has begun runs on, the lock being free often enough.
FairSpec == Spec /\ \A r \in Requests : WF_vars(Handle(r))

-----------------------------------------------------------------------------
(* Properties.                                                             *)

UnderLock == {"resolve", "store", "clock"}
Steps == {"new", "lock", "advance", "capture", "captureOverlay", "write", "done", "aborted"}
           \cup UnderLock
Snapshots == [base : Configs, overlay : Overlays, offset : {0, 1}]

\* Every variable keeps its type, and the write lock is held by exactly the request
\* that stands between taking and releasing it.
TypeOK ==
  /\ base \in Configs /\ resolved \in Configs
  /\ overlay \in Overlays /\ wanted \in Overlays
  /\ lock \in Requests \cup {NoOne}
  /\ offset \in {0, 1}
  /\ file \in Snapshots \cup {NoFile}
  /\ restarts \in 0 .. MaxRestarts
  /\ kind \in [Requests -> Handlers \cup {"none"}]
  /\ pc \in [Requests -> Steps]
  /\ list \in [Requests -> Seq(Rules)]
  /\ draft \in [Requests -> Overlays]
  /\ shot \in [Requests -> {0, 1}]
  /\ \A r \in Requests : lock = r <=> pc[r] \in UnderLock

\* While nobody writes, what readers see is exactly the overlay resolved over base.
ResolvedFollowsOverlay == lock = NoOne => resolved = Resolve(base, overlay)

\* The reason for the write lock (state.rs:33): a write to one field is never lost to
\* a concurrent write to another; each field is as the last request that wrote it
\* asked, whatever interleaved, across resets and restores.
NoFieldIsClobbered == lock = NoOne => overlay = wanted

\* Invariant 2, "the entire basis of test isolation" (state.rs:11): once a reset has
\* dropped what was asked for and nothing has been asked since, readers see the
\* scenario file's configuration, in a process restored from a snapshot too.
ResetReachesTheScenario == lock = NoOne /\ wanted = Empty => resolved = Scenario

\* Every request that begins is answered, or dies with its process: no handler waits
\* on the lock for ever, and none waits on itself.
EveryRequestEnds ==
  \A r \in Requests : pc[r] # "new" ~> pc[r] \in {"done", "aborted"}

\* state.rs:33 and the test at state.rs:315: concurrent calls of /_admin/faults do
\* not lose one another's writes. An answered add is in effect if no request has
\* done anything but add.
NoFaultIsLost ==
  (\A q \in Requests : kind[q] \in {"none", "add"}) =>
    \A r \in Requests :
      kind[r] = "add" /\ pc[r] = "done" /\ lock = NoOne => r \in Range(resolved.faults)
=============================================================================
