----------------------------- MODULE CoreProofs -----------------------------
(* Machine-checked proofs about the core crate: ControlPlane, for every    *)
(* set of requests, every mix of handlers and every scenario, and          *)
(* EventBus, for every set of emitters and of streams and every channel    *)
(* capacity.                                                               *)
EXTENDS ControlPlane, EventBus, FiniteSetTheorems, TLAPS

-----------------------------------------------------------------------------
(* The control plane (state.rs, snapshot.rs).                              *)

\* A restored process has the scenario the first one booted from.
BaseIsTheScenario ==
  /\ base = Scenario
  /\ file # NoFile => file.base = Scenario

\* The overlay is as asked for until the lock's holder publishes its copy, and readers
\* see it resolved until the holder publishes what the copy resolves to.
WriterStages ==
  /\ lock = NoOne => overlay = wanted /\ resolved = Resolve(base, overlay)
  /\ \A r \in Requests :
       /\ pc[r] \in {"lock"} \cup UnderLock => kind[r] \in Writers
       /\ pc[r] \in UnderLock => overlay = wanted
       /\ pc[r] \in {"resolve", "store"} => draft[r] = Edited(r, overlay)
       /\ pc[r] = "resolve" => resolved = Resolve(base, overlay)
       /\ pc[r] = "store" => resolved = Resolve(base, draft[r])
       /\ pc[r] = "clock" => resolved = Resolve(base, overlay)

Inv == TypeOK /\ BaseIsTheScenario /\ WriterStages

LEMMA ScenarioType == Scenario \in Configs /\ Empty \in Overlays
<1>1. SeededFaults \in Seq(Rules)
  BY ControlAssumption DEF Rules
<1>2. QED
  BY <1>1 DEF Scenario, Configs, Settings, Empty, Overlays

\* Resolving an overlay over a configuration gives a configuration.
LEMMA ResolveType ==
  ASSUME NEW b \in Configs, NEW o \in Overlays
  PROVE  Resolve(b, o) \in Configs
<1>1. QED
  BY DEF Resolve, Configs, Overlays

\* The scenario with nothing over it is itself.
LEMMA ResolveEmpty == Resolve(Scenario, Empty) = Scenario
<1>1. QED
  BY DEF Resolve, Scenario, Empty

\* What a writer makes of an overlay is one.
LEMMA EditedType ==
  ASSUME TypeOK, NEW r \in Requests, NEW o \in Overlays
  PROVE  Edited(r, o) \in Overlays
<1>1. /\ list[r] \in Seq(Rules) /\ <<>> \in Seq(Rules)
      /\ r \in Settings /\ Honest \in Settings /\ Empty \in Overlays
  BY ScenarioType DEF TypeOK, Settings
<1>2. CASE kind[r] = "add"
  BY <1>1, <1>2 DEF Edited, Overlays
<1>3. CASE kind[r] = "clear"
  BY <1>1, <1>3 DEF Edited, Overlays
<1>4. CASE kind[r] = "set"
  BY <1>1, <1>4 DEF Edited, Overlays
<1>5. CASE kind[r] = "honest"
  BY <1>1, <1>5 DEF Edited, Overlays
<1>6. CASE kind[r] \notin {"add", "clear", "set", "honest"}
  BY <1>1, <1>6 DEF Edited
<1>7. QED
  BY <1>2, <1>3, <1>4, <1>5, <1>6

LEMMA InitInv == Init => Inv
<1> SUFFICES ASSUME Init PROVE Inv
  OBVIOUS
<1>1. TypeOK
  <2>1. Resolve(Scenario, Empty) \in Configs
    BY ScenarioType, ResolveType
  <2>2. lock = NoOne /\ \A r \in Requests : lock # r /\ pc[r] = "new"
    BY ControlAssumption DEF Init
  <2>3. 0 \in 0 .. MaxRestarts
    BY ControlAssumption
  <2>4. QED
    BY <2>1, <2>2, <2>3, ScenarioType DEF Init, TypeOK, Steps, UnderLock
<1>2. BaseIsTheScenario
  BY DEF Init, BaseIsTheScenario
<1>3. WriterStages
  BY DEF Init, WriterStages, UnderLock
<1>4. QED
  BY <1>1, <1>2, <1>3 DEF Inv

\* A request that moves between steps outside the lock changes nothing the lock
\* protects.
LEMMA BeginInv == ASSUME Inv, NEW r \in Requests, NEW k \in Kinds, Begin(r, k) PROVE Inv'
<1>1. /\ pc[r] = "new" /\ k \in Handlers
      /\ kind' = [kind EXCEPT ![r] = k]
      /\ list' = IF k = "add" THEN [list EXCEPT ![r] = Append(resolved.faults, r)] ELSE list
      /\ UNCHANGED <<base, overlay, resolved, lock, offset, file, restarts, draft, shot, wanted>>
  BY ControlAssumption DEF Begin, Goto, stateVars
<1>2. PICK to \in {"lock", "capture", "advance"} :
        pc' = [pc EXCEPT ![r] = to] /\ (to = "lock" => k \in Writers)
  BY <1>1 DEF Begin, Goto, Handlers, Writers
<1>3. Append(resolved.faults, r) \in Seq(Rules)
  <2>1. resolved.faults \in Seq(Rules) /\ r \in Rules
    BY DEF Inv, TypeOK, Configs, Rules
  <2>2. QED
    BY <2>1
<1>4. TypeOK'
  <2>1. list' \in [Requests -> Seq(Rules)]
    BY <1>1, <1>3 DEF Inv, TypeOK
  <2>2. kind' \in [Requests -> Handlers \cup {"none"}] /\ pc' \in [Requests -> Steps]
    BY <1>1, <1>2 DEF Inv, TypeOK, Steps
  <2>3. \A q \in Requests : pc'[q] \in UnderLock <=> pc[q] \in UnderLock
    BY <1>1, <1>2 DEF Inv, TypeOK, UnderLock
  <2>4. QED
    BY <1>1, <2>1, <2>2, <2>3 DEF Inv, TypeOK
<1>5. BaseIsTheScenario'
  BY <1>1 DEF Inv, BaseIsTheScenario
<1>6. WriterStages'
  <2>1. \A q \in Requests \ {r} : pc'[q] = pc[q] /\ kind'[q] = kind[q] /\ list'[q] = list[q]
    BY <1>1, <1>2 DEF Inv, TypeOK
  <2>2. \A q \in Requests \ {r} : Edited(q, overlay)' = Edited(q, overlay)
    BY <1>1, <2>1 DEF Edited
  <2>3. pc'[r] = to /\ kind'[r] = k
    BY <1>1, <1>2 DEF Inv, TypeOK
  <2>4. QED
    BY <1>1, <1>2, <2>1, <2>2, <2>3 DEF Inv, WriterStages, UnderLock
<1>7. QED
  BY <1>4, <1>5, <1>6 DEF Inv

\* Only one request is ever under the lock.
LEMMA OneUnderLock ==
  ASSUME TypeOK, NEW r \in Requests, pc[r] \in UnderLock
  PROVE  lock = r /\ \A q \in Requests \ {r} : pc[q] \notin UnderLock
<1>1. QED
  BY DEF TypeOK

LEMMA LockInv == ASSUME Inv, NEW r \in Requests, Lock(r) PROVE Inv'
<1>1. /\ pc[r] = "lock" /\ pc' = [pc EXCEPT ![r] = "resolve"]
      /\ lock = NoOne /\ lock' = r
      /\ draft' = [draft EXCEPT ![r] = Edited(r, overlay)]
      /\ UNCHANGED <<base, overlay, resolved, offset, file, restarts, kind, list, shot, wanted>>
  BY DEF Lock, Goto
<1>2. Edited(r, overlay) \in Overlays
  BY EditedType DEF Inv, TypeOK
<1>3. \A q \in Requests : pc[q] \notin UnderLock
  BY <1>1, ControlAssumption DEF Inv, TypeOK
<1>4. /\ pc'[r] = "resolve" /\ draft'[r] = Edited(r, overlay)
      /\ \A q \in Requests \ {r} : pc'[q] = pc[q]
  BY <1>1 DEF Inv, TypeOK
<1>5. TypeOK'
  <2>1. draft' \in [Requests -> Overlays] /\ pc' \in [Requests -> Steps]
    BY <1>1, <1>2 DEF Inv, TypeOK, Steps, UnderLock
  <2>2. \A q \in Requests : lock' = q <=> pc'[q] \in UnderLock
    BY <1>1, <1>3, <1>4 DEF UnderLock
  <2>3. QED
    BY <1>1, <2>1, <2>2 DEF Inv, TypeOK
<1>6. BaseIsTheScenario'
  BY <1>1 DEF Inv, BaseIsTheScenario
<1>7. WriterStages'
  <2>1. Edited(r, overlay)' = Edited(r, overlay)
    BY <1>1 DEF Edited
  <2>2. overlay = wanted /\ resolved = Resolve(base, overlay)
    BY <1>1 DEF Inv, WriterStages
  <2>3. lock' # NoOne
    BY <1>1, ControlAssumption
  <2>4. QED
    BY <1>1, <1>3, <1>4, <2>1, <2>2, <2>3 DEF Inv, WriterStages, UnderLock
<1>8. QED
  BY <1>5, <1>6, <1>7 DEF Inv

LEMMA StoreResolvedInv == ASSUME Inv, NEW r \in Requests, StoreResolved(r) PROVE Inv'
<1>1. /\ pc[r] = "resolve" /\ pc' = [pc EXCEPT ![r] = "store"]
      /\ resolved' = Resolve(base, draft[r])
      /\ UNCHANGED <<base, overlay, lock, offset, file, restarts, kind, list, draft, shot, wanted>>
  BY DEF StoreResolved, Goto, callVars
<1>2. lock = r /\ lock # NoOne /\ \A q \in Requests \ {r} : pc[q] \notin UnderLock
  BY <1>1, OneUnderLock, ControlAssumption DEF Inv, UnderLock
<1>3. pc'[r] = "store" /\ \A q \in Requests \ {r} : pc'[q] = pc[q]
  BY <1>1 DEF Inv, TypeOK
<1>4. TypeOK'
  <2>1. resolved' \in Configs
    BY <1>1, ResolveType DEF Inv, TypeOK
  <2>2. pc' \in [Requests -> Steps]
    BY <1>1 DEF Inv, TypeOK, Steps, UnderLock
  <2>3. \A q \in Requests : lock' = q <=> pc'[q] \in UnderLock
    BY <1>1, <1>2, <1>3 DEF UnderLock
  <2>4. QED
    BY <1>1, <2>1, <2>2, <2>3 DEF Inv, TypeOK
<1>5. BaseIsTheScenario'
  BY <1>1 DEF Inv, BaseIsTheScenario
<1>6. WriterStages'
  <2>1. Edited(r, overlay)' = Edited(r, overlay)
    BY <1>1 DEF Edited
  <2>2. resolved' = Resolve(base', draft'[r])
    BY <1>1
  <2>3. QED
    BY <1>1, <1>2, <1>3, <2>1, <2>2 DEF Inv, WriterStages, UnderLock
<1>7. QED
  BY <1>4, <1>5, <1>6 DEF Inv

\* The copy published is the overlay as it was asked for, with the writer's own field
\* as it asks for it: nothing else can have moved since the copy was made.
LEMMA StoreOverlayInv == ASSUME Inv, NEW r \in Requests, StoreOverlay(r) PROVE Inv'
<1>1. /\ pc[r] = "store"
      /\ pc' = [pc EXCEPT ![r] = IF kind[r] = "reset" THEN "clock" ELSE "done"]
      /\ overlay' = draft[r]
      /\ lock' = (IF kind[r] = "reset" THEN lock ELSE NoOne)
      /\ wanted' = Asked(r)
      /\ UNCHANGED <<base, resolved, offset, file, restarts, kind, list, draft, shot>>
  BY DEF StoreOverlay, Goto, callVars
<1>2. lock = r /\ lock # NoOne /\ \A q \in Requests \ {r} : pc[q] \notin UnderLock
  BY <1>1, OneUnderLock, ControlAssumption DEF Inv, UnderLock
<1>3. /\ kind[r] \in Writers /\ overlay = wanted
      /\ draft[r] = Edited(r, overlay) /\ resolved = Resolve(base, draft[r])
      /\ draft[r] \in Overlays /\ overlay \in Overlays
  BY <1>1 DEF Inv, TypeOK, WriterStages, UnderLock
<1>4. Asked(r) = draft[r]
  <2>1. CASE kind[r] = "add"
    BY <1>3, <2>1 DEF Asked, Edited, Overlays
  <2>2. CASE kind[r] = "clear"
    BY <1>3, <2>2 DEF Asked, Edited, Overlays
  <2>3. CASE kind[r] = "set"
    BY <1>3, <2>3 DEF Asked, Edited, Overlays
  <2>4. CASE kind[r] = "honest"
    BY <1>3, <2>4 DEF Asked, Edited, Overlays
  <2>5. CASE kind[r] = "reset"
    BY <1>3, <2>5 DEF Asked, Edited
  <2>6. QED
    BY <1>3, <2>1, <2>2, <2>3, <2>4, <2>5 DEF Writers
<1>5. /\ pc'[r] = (IF kind[r] = "reset" THEN "clock" ELSE "done")
      /\ \A q \in Requests \ {r} : pc'[q] = pc[q]
  BY <1>1 DEF Inv, TypeOK
<1>6. TypeOK'
  <2>1. pc' \in [Requests -> Steps]
    BY <1>1 DEF Inv, TypeOK, Steps, UnderLock
  <2>2. lock' \in Requests \cup {NoOne} /\ \A q \in Requests : lock' = q <=> pc'[q] \in UnderLock
    BY <1>1, <1>2, <1>5, ControlAssumption DEF UnderLock
  <2>3. overlay' \in Overlays /\ wanted' \in Overlays
    BY <1>1, <1>3, <1>4
  <2>4. QED
    BY <1>1, <2>1, <2>2, <2>3 DEF Inv, TypeOK
<1>7. BaseIsTheScenario'
  BY <1>1 DEF Inv, BaseIsTheScenario
<1>8. WriterStages'
  <2>1. overlay' = wanted' /\ resolved' = Resolve(base', overlay')
    BY <1>1, <1>3, <1>4
  <2>2. QED
    BY <1>1, <1>2, <1>3, <1>5, <2>1 DEF Inv, WriterStages, UnderLock
<1>9. QED
  BY <1>6, <1>7, <1>8 DEF Inv

LEMMA ResetClockInv == ASSUME Inv, NEW r \in Requests, ResetClock(r) PROVE Inv'
<1>1. /\ pc[r] = "clock" /\ pc' = [pc EXCEPT ![r] = "done"]
      /\ offset' = 0 /\ lock' = NoOne
      /\ UNCHANGED <<base, overlay, resolved, file, restarts, kind, list, draft, shot, wanted>>
  BY DEF ResetClock, Goto, callVars
<1>2. \A q \in Requests \ {r} : pc[q] \notin UnderLock /\ pc'[q] = pc[q]
  BY <1>1, OneUnderLock DEF Inv, TypeOK, UnderLock
<1>3. pc'[r] = "done" /\ overlay = wanted /\ resolved = Resolve(base, overlay)
  BY <1>1 DEF Inv, TypeOK, WriterStages, UnderLock
<1>4. TypeOK'
  <2>1. pc' \in [Requests -> Steps] /\ offset' \in {0, 1}
    BY <1>1 DEF Inv, TypeOK, Steps
  <2>2. \A q \in Requests : lock' = q <=> pc'[q] \in UnderLock
    BY <1>1, <1>2, <1>3, ControlAssumption DEF UnderLock
  <2>3. QED
    BY <1>1, <2>1, <2>2 DEF Inv, TypeOK
<1>5. BaseIsTheScenario'
  BY <1>1 DEF Inv, BaseIsTheScenario
<1>6. WriterStages'
  BY <1>1, <1>2, <1>3 DEF Inv, WriterStages, UnderLock
<1>7. QED
  BY <1>4, <1>5, <1>6 DEF Inv

\* The handlers that take no lock write no overlay.
LEMMA UnlockedInv ==
  ASSUME Inv, NEW r \in Requests,
         Advance(r) \/ CaptureClock(r) \/ CaptureOverlay(r) \/ Write(r)
  PROVE  Inv'
<1>1. PICK from \in {"advance", "capture", "captureOverlay", "write"},
           to \in {"captureOverlay", "write", "done"} :
        pc[r] = from /\ pc' = [pc EXCEPT ![r] = to]
  BY DEF Advance, CaptureClock, CaptureOverlay, Write, Goto
<1>2. /\ UNCHANGED <<base, overlay, resolved, lock, restarts, kind, list, wanted>>
      /\ \A q \in Requests \ {r} : draft'[q] = draft[q]
      /\ draft' \in [Requests -> Overlays] /\ shot' \in [Requests -> {0, 1}]
      /\ offset' \in {0, 1}
  BY DEF Advance, CaptureClock, CaptureOverlay, Write, stateVars, callVars, Inv, TypeOK
<1>3. pc'[r] = to /\ \A q \in Requests \ {r} : pc'[q] = pc[q]
  BY <1>1 DEF Inv, TypeOK
<1>4. /\ file' \in Snapshots \cup {NoFile}
      /\ file' # NoFile => file'.base = Scenario
  <2>1. CASE Write(r)
    <3>1. /\ draft[r] \in Overlays /\ shot[r] \in {0, 1} /\ base \in Configs
          /\ file' = [base |-> base, overlay |-> draft[r], offset |-> shot[r]]
      BY <2>1 DEF Write, Inv, TypeOK
    <3>2. QED
      BY <3>1 DEF Inv, BaseIsTheScenario, Snapshots
  <2>2. CASE file' = file
    BY <2>2 DEF Inv, TypeOK, BaseIsTheScenario
  <2>3. QED
    BY <2>1, <2>2 DEF Advance, CaptureClock, CaptureOverlay
<1>5. TypeOK'
  <2>1. pc' \in [Requests -> Steps]
    BY <1>1 DEF Inv, TypeOK, Steps
  <2>2. \A q \in Requests : pc'[q] \in UnderLock <=> pc[q] \in UnderLock
    BY <1>1, <1>3 DEF UnderLock
  <2>3. QED
    BY <1>2, <1>4, <2>1, <2>2 DEF Inv, TypeOK
<1>6. BaseIsTheScenario'
  BY <1>2, <1>4 DEF Inv, BaseIsTheScenario
<1>7. WriterStages'
  <2>1. \A q \in Requests : Edited(q, overlay)' = Edited(q, overlay)
    BY <1>2 DEF Edited
  <2>2. QED
    BY <1>1, <1>2, <1>3, <2>1 DEF Inv, WriterStages, UnderLock
<1>8. QED
  BY <1>5, <1>6, <1>7 DEF Inv

LEMMA RestartInv == ASSUME Inv, NEW restore \in BOOLEAN, Restart(restore) PROVE Inv'
<1> DEFINE b == IF restore THEN file.base ELSE Scenario
           o == IF restore THEN file.overlay ELSE Empty
<1>1. /\ restarts < MaxRestarts /\ restarts' = restarts + 1
      /\ restore => file # NoFile
      /\ base' = b /\ overlay' = o /\ resolved' = Resolve(b, o) /\ wanted' = o
      /\ offset' = (IF restore THEN file.offset ELSE 0)
      /\ lock' = NoOne
      /\ pc' = [r \in Requests |-> IF pc[r] \in {"new", "done"} THEN pc[r] ELSE "aborted"]
      /\ UNCHANGED <<file, kind, list, draft, shot>>
  BY DEF Restart, callVars
<1>2. b = Scenario /\ b \in Configs /\ o \in Overlays /\ offset' \in {0, 1}
  BY <1>1, ScenarioType DEF Inv, TypeOK, BaseIsTheScenario, Snapshots
<1> HIDE DEF b, o
<1>3. \A r \in Requests : pc'[r] \in {"new", "done", "aborted"}
  BY <1>1
<1>4. TypeOK'
  <2>1. resolved' \in Configs
    BY <1>1, <1>2, ResolveType
  <2>2. restarts' \in 0 .. MaxRestarts
    BY <1>1, ControlAssumption DEF Inv, TypeOK
  <2>3. pc' \in [Requests -> Steps]
    BY <1>1, <1>3 DEF Steps
  <2>4. \A r \in Requests : lock' = r <=> pc'[r] \in UnderLock
    BY <1>1, <1>3, ControlAssumption DEF UnderLock
  <2>5. QED
    BY <1>1, <1>2, <2>1, <2>2, <2>3, <2>4 DEF Inv, TypeOK
<1>5. BaseIsTheScenario'
  BY <1>1, <1>2 DEF Inv, BaseIsTheScenario
<1>6. WriterStages'
  BY <1>1, <1>3 DEF WriterStages, UnderLock
<1>7. QED
  BY <1>4, <1>5, <1>6 DEF Inv

LEMMA StutterInv == ASSUME Inv, UNCHANGED vars PROVE Inv'
<1>1. UNCHANGED <<base, overlay, resolved, lock, offset, file, restarts, kind, list, draft,
                  shot, pc, wanted>>
  BY DEF vars, stateVars, callVars
<1>2. TypeOK' /\ BaseIsTheScenario'
  BY <1>1 DEF Inv, TypeOK, BaseIsTheScenario
<1>3. \A r \in Requests : Edited(r, overlay)' = Edited(r, overlay)
  BY <1>1 DEF Edited
<1>4. WriterStages'
  BY <1>1, <1>3 DEF Inv, WriterStages
<1>5. QED
  BY <1>2, <1>4 DEF Inv

LEMMA NextInv == Inv /\ [Next]_vars => Inv'
<1> SUFFICES ASSUME Inv, [Next]_vars PROVE Inv'
  OBVIOUS
<1>1. ASSUME NEW r \in Requests, Handle(r) PROVE Inv'
  BY <1>1, LockInv, StoreResolvedInv, StoreOverlayInv, ResetClockInv, UnlockedInv DEF Handle
<1>2. CASE \E r \in Requests, k \in Kinds : Begin(r, k)
  BY <1>2, BeginInv
<1>3. CASE \E restore \in BOOLEAN : Restart(restore)
  BY <1>3, RestartInv
<1>4. CASE UNCHANGED vars
  BY <1>4, StutterInv
<1>5. QED
  BY <1>1, <1>2, <1>3, <1>4 DEF Next

\* The inductive invariant of the control plane.
THEOREM ControlPlaneInv == Spec => []Inv
<1>1. QED
  BY InitInv, NextInv, PTL DEF Spec

\* Type correctness, with the mutual exclusion of writers it includes.
THEOREM ControlPlaneTypeOK == Spec => []TypeOK
<1>1. Inv => TypeOK
  BY DEF Inv
<1>2. QED
  BY <1>1, ControlPlaneInv, PTL

\* Between writes, readers see the overlay resolved over base (state.rs, mutate).
THEOREM ControlPlaneResolved == Spec => []ResolvedFollowsOverlay
<1>1. Inv => ResolvedFollowsOverlay
  BY DEF Inv, WriterStages, ResolvedFollowsOverlay
<1>2. QED
  BY <1>1, ControlPlaneInv, PTL

\* Concurrent writes to different fields never clobber one another.
THEOREM ControlPlaneNoFieldIsClobbered == Spec => []NoFieldIsClobbered
<1>1. Inv => NoFieldIsClobbered
  BY DEF Inv, WriterStages, NoFieldIsClobbered
<1>2. QED
  BY <1>1, ControlPlaneInv, PTL

\* Once reset, with nothing asked since, the configuration is the scenario's, across
\* restarts from snapshots (state.rs, reset).
THEOREM ControlPlaneReset == Spec => []ResetReachesTheScenario
<1>1. Inv => ResetReachesTheScenario
  BY ResolveEmpty DEF Inv, WriterStages, BaseIsTheScenario, ResetReachesTheScenario
<1>2. QED
  BY <1>1, ControlPlaneInv, PTL

-----------------------------------------------------------------------------
(* The event bus (bus.rs).                                                 *)

\* A stream that has not been subscribed has yielded nothing.
NewStreams == \A s \in Subs : stage[s] = "new" => got[s] = <<>>

BusInv == BusTypeOK /\ IdsAreDense /\ LossIsAccounted /\ NewStreams

\* One stream's part of LossIsAccounted.
Accounted(s) ==
  /\ \A i \in 1 .. Len(got[s]) :
       LET from == Before(s, i)
       IN  IF got[s][i].lost = 0
           THEN got[s][i].upto = from + 1 /\ from < End /\ got[s][i].id = sent[from]
           ELSE got[s][i].upto = from + got[s][i].lost
  /\ Before(s, Len(got[s]) + 1) + missed[s] = next[s]

LEMMA AccountedAll == LossIsAccounted <=> \A s \in Subs : Accounted(s)
<1>1. QED
  BY DEF LossIsAccounted, Accounted

\* A stream always stands at a position of the channel.
LEMMA BeforeType ==
  ASSUME BusTypeOK, NEW s \in Subs, NEW i \in 1 .. Len(got[s]) + 1
  PROVE  Before(s, i) \in Nat \ {0}
<1>1. got[s] \in Seq(Entry) /\ start[s] \in Nat \ {0}
  BY DEF BusTypeOK
<1>2. CASE i = 1
  BY <1>1, <1>2 DEF Before
<1>3. CASE i # 1
  <2>1. i - 1 \in 1 .. Len(got[s])
    BY <1>1, <1>3
  <2>2. got[s][i - 1] \in Entry
    BY <1>1, <2>1
  <2>3. QED
    BY <1>3, <2>2 DEF Before, Entry
<1>4. QED
  BY <1>2, <1>3

LEMMA BusInitInv == BusInit => BusInv
<1> SUFFICES ASSUME BusInit PROVE BusInv
  OBVIOUS
<1>1. sent = <<>> /\ Len(sent) = 0 /\ <<>> \in Seq(Nat) /\ <<>> \in Seq(Entry)
  BY DEF BusInit
<1>2. BusTypeOK
  BY <1>1, BusAssumption DEF BusInit, BusTypeOK, End
<1>3. IdsAreDense
  <2>1. Sent = {} /\ InFlight = {} /\ unheard = {} /\ Ids = {}
    BY <1>1 DEF BusInit, Sent, InFlight, Ids
  <2>2. QED
    BY <1>1, <2>1 DEF IdsAreDense, BusInit
<1>4. LossIsAccounted
  BY <1>1 DEF BusInit, LossIsAccounted, Before
<1>5. NewStreams
  BY DEF BusInit, NewStreams
<1>6. QED
  BY <1>2, <1>3, <1>4, <1>5 DEF BusInv

\* The streams' part of the invariant does not depend on the emitters' variables.
LEMMA StreamsUntouched ==
  ASSUME BusInv, UNCHANGED <<sent, streamVars>>
  PROVE  LossIsAccounted' /\ NewStreams'
<1>1. UNCHANGED <<sent, stage, next, missed, start, got>>
  BY DEF streamVars
<1>2. LossIsAccounted'
  BY <1>1 DEF BusInv, LossIsAccounted, Before, End
<1>3. NewStreams'
  BY <1>1 DEF BusInv, NewStreams
<1>4. QED
  BY <1>2, <1>3

\* The ids' part does not depend on the streams.
LEMMA IdsUntouched ==
  ASSUME BusInv, UNCHANGED <<emitVars, sent, unheard>>
  PROVE  IdsAreDense'
<1>1. QED
  BY DEF BusInv, IdsAreDense, Sent, InFlight, Ids, emitVars

\* A new id is above every id in use.
LEMMA TakeIdInv == ASSUME BusInv, NEW e \in Emitters, TakeId(e) PROVE BusInv'
<1>1. /\ claimed[e] = NoId /\ seq < MaxEvents
      /\ claimed' = [claimed EXCEPT ![e] = seq] /\ seq' = seq + 1
      /\ UNCHANGED <<sent, unheard, stage, next, missed, start, got, dropped>>
  BY DEF TakeId, streamVars
<1>2. seq \in Nat /\ seq # NoId /\ seq' \in 0 .. MaxEvents
  BY <1>1, BusAssumption DEF BusInv, BusTypeOK
<1>3. claimed'[e] = seq /\ \A f \in Emitters \ {e} : claimed'[f] = claimed[f]
  BY <1>1 DEF BusInv, BusTypeOK
<1>4. BusTypeOK'
  <2>1. claimed' \in [Emitters -> Nat \cup {NoId}]
    BY <1>1, <1>2 DEF BusInv, BusTypeOK
  <2>2. QED
    BY <1>1, <1>2, <2>1 DEF BusInv, BusTypeOK, End
<1>5. /\ Sent' = Sent /\ InFlight' = InFlight \cup {seq} /\ Ids' = Ids \cup {seq}
      /\ seq \notin Ids
  <2>1. Sent' = Sent
    BY <1>1 DEF Sent
  <2>2. InFlight' = InFlight \cup {seq}
    BY <1>1, <1>2, <1>3 DEF InFlight
  <2>3. Ids' = Ids \cup {seq} /\ seq \notin Ids
    BY <1>1, <1>2 DEF Ids
  <2>4. QED
    BY <2>1, <2>2, <2>3
<1>6. IdsAreDense'
  <2>1. \A f \in Emitters : claimed[f] # seq
    BY <1>2, <1>5 DEF BusInv, IdsAreDense, InFlight
  <2>2. \A f, g \in Emitters : claimed'[f] = claimed'[g] /\ claimed'[f] # NoId => f = g
    BY <1>3, <2>1 DEF BusInv, IdsAreDense
  <2>3. /\ Sent' \cup InFlight' \cup unheard' = Ids'
        /\ Sent' \cap InFlight' = {} /\ Sent' \cap unheard' = {} /\ InFlight' \cap unheard' = {}
    BY <1>1, <1>5 DEF BusInv, IdsAreDense
  <2>4. \A i, k \in 1 .. Len(sent') : sent'[i] = sent'[k] => i = k
    BY <1>1 DEF BusInv, IdsAreDense
  <2>5. QED
    BY <2>2, <2>3, <2>4 DEF IdsAreDense
<1>7. LossIsAccounted' /\ NewStreams'
  BY <1>1, StreamsUntouched DEF streamVars
<1>8. QED
  BY <1>4, <1>6, <1>7 DEF BusInv

\* Sending moves the id from the emitter to the channel, or to nobody.
LEMMA SendIds ==
  ASSUME BusInv, NEW e \in Emitters, Send(e)
  PROVE  IdsAreDense'
<1>1. PICK id \in Nat :
        /\ id = claimed[e] /\ id # NoId
        /\ claimed' = [claimed EXCEPT ![e] = NoId]
        /\ UNCHANGED seq
  BY DEF Send, BusInv, BusTypeOK
<1>2. claimed'[e] = NoId /\ \A f \in Emitters \ {e} : claimed'[f] = claimed[f] /\ claimed[f] # id
  BY <1>1 DEF BusInv, BusTypeOK, IdsAreDense
<1>3. InFlight' = InFlight \ {id} /\ id \in InFlight /\ Ids' = Ids
  BY <1>1, <1>2 DEF InFlight, Ids
<1>4. \A f, g \in Emitters : claimed'[f] = claimed'[g] /\ claimed'[f] # NoId => f = g
  BY <1>2 DEF BusInv, IdsAreDense
<1>5. sent \in Seq(Nat)
  BY DEF BusInv, BusTypeOK
<1>6. CASE sent' = Append(sent, id) /\ UNCHANGED unheard
  <2>1. /\ Len(sent') = Len(sent) + 1 /\ sent'[Len(sent) + 1] = id
        /\ \A i \in 1 .. Len(sent) : sent'[i] = sent[i]
    BY <1>5, <1>6
  <2>2. Sent' = Sent \cup {id}
    BY <1>5, <2>1 DEF Sent
  <2>3. id \notin Sent
    BY <1>3 DEF BusInv, IdsAreDense
  <2>4. \A i, k \in 1 .. Len(sent') : sent'[i] = sent'[k] => i = k
    <3>1. \A i \in 1 .. Len(sent) : sent[i] # id
      BY <2>3 DEF Sent
    <3>2. QED
      BY <1>5, <2>1, <3>1 DEF BusInv, IdsAreDense
  <2>5. /\ Sent' \cup InFlight' \cup unheard' = Ids'
        /\ Sent' \cap InFlight' = {} /\ Sent' \cap unheard' = {} /\ InFlight' \cap unheard' = {}
    BY <1>3, <1>6, <2>2 DEF BusInv, IdsAreDense
  <2>6. QED
    BY <1>4, <2>4, <2>5 DEF IdsAreDense
<1>7. CASE unheard' = unheard \cup {id} /\ UNCHANGED sent
  <2>1. Sent' = Sent
    BY <1>7 DEF Sent
  <2>2. /\ Sent' \cup InFlight' \cup unheard' = Ids'
        /\ Sent' \cap InFlight' = {} /\ Sent' \cap unheard' = {} /\ InFlight' \cap unheard' = {}
    BY <1>3, <1>7, <2>1 DEF BusInv, IdsAreDense
  <2>3. \A i, k \in 1 .. Len(sent') : sent'[i] = sent'[k] => i = k
    BY <1>7 DEF BusInv, IdsAreDense
  <2>4. QED
    BY <1>4, <2>2, <2>3 DEF IdsAreDense
<1>8. QED
  BY <1>1, <1>6, <1>7 DEF Send

LEMMA SendInv == ASSUME BusInv, NEW e \in Emitters, Send(e) PROVE BusInv'
<1>1. /\ claimed[e] \in Nat /\ claimed' = [claimed EXCEPT ![e] = NoId]
      /\ \/ sent' = Append(sent, claimed[e]) /\ UNCHANGED unheard
         \/ unheard' = unheard \cup {claimed[e]} /\ UNCHANGED sent
      /\ UNCHANGED <<seq, stage, next, missed, start, got, dropped>>
  BY DEF Send, streamVars, BusInv, BusTypeOK
<1>2. /\ sent \in Seq(Nat) /\ sent' \in Seq(Nat) /\ Len(sent) <= Len(sent')
      /\ \A i \in 1 .. Len(sent) : sent'[i] = sent[i]
  <2>1. sent \in Seq(Nat)
    BY DEF BusInv, BusTypeOK
  <2>2. CASE sent' = Append(sent, claimed[e])
    BY <1>1, <2>1, <2>2
  <2>3. CASE UNCHANGED sent
    BY <2>1, <2>3
  <2>4. QED
    BY <1>1, <2>2, <2>3
<1>3. BusTypeOK'
  <2>1. claimed' \in [Emitters -> Nat \cup {NoId}] /\ unheard' \subseteq Nat
    BY <1>1 DEF BusInv, BusTypeOK
  <2>2. \A s \in Subs : next[s] <= End'
    BY <1>2 DEF BusInv, BusTypeOK, End
  <2>3. QED
    BY <1>1, <1>2, <2>1, <2>2 DEF BusInv, BusTypeOK
<1>4. LossIsAccounted'
  <2>1. ASSUME NEW s \in Subs PROVE Accounted(s)'
    <3>1. \A i \in 1 .. Len(got[s]) + 1 : Before(s, i)' = Before(s, i)
      BY <1>1 DEF Before
    <3>2. got[s] \in Seq(Entry) /\ Len(got[s]) \in Nat
      BY DEF BusInv, BusTypeOK
    <3>3. ASSUME NEW i \in 1 .. Len(got[s])
          PROVE  IF got[s][i].lost = 0
                 THEN /\ got[s][i].upto = Before(s, i) + 1
                      /\ Before(s, i) < End' /\ got[s][i].id = sent'[Before(s, i)]
                 ELSE got[s][i].upto = Before(s, i) + got[s][i].lost
      <4>1. Before(s, i) \in Nat \ {0}
        BY <3>2, BeforeType DEF BusInv
      <4>2. IF got[s][i].lost = 0
            THEN /\ got[s][i].upto = Before(s, i) + 1
                 /\ Before(s, i) < End /\ got[s][i].id = sent[Before(s, i)]
            ELSE got[s][i].upto = Before(s, i) + got[s][i].lost
        BY DEF BusInv, LossIsAccounted
      <4>3. End <= End' /\ End \in Int /\ End' \in Int /\ Len(sent) \in Nat
        BY <1>2 DEF End
      <4>4. Before(s, i) < End => Before(s, i) \in 1 .. Len(sent)
        BY <4>1, <4>3 DEF End
      <4>5. Before(s, i) < End => /\ sent'[Before(s, i)] = sent[Before(s, i)]
                                 /\ Before(s, i) < End'
        BY <1>2, <4>1, <4>3, <4>4
      <4>6. QED
        BY <4>2, <4>5
    <3>4. Before(s, Len(got[s]) + 1) + missed[s] = next[s]
      BY DEF BusInv, LossIsAccounted
    <3>5. QED
      BY <1>1, <3>1, <3>2, <3>3, <3>4 DEF Accounted
  <2>2. QED
    BY <2>1 DEF LossIsAccounted, Accounted
<1>5. NewStreams'
  BY <1>1 DEF BusInv, NewStreams
<1>6. QED
  BY <1>3, <1>4, <1>5, SendIds DEF BusInv

\* A step of the stream s leaves the other streams' accounts alone.
LEMMA OthersUntouched ==
  ASSUME BusInv, NEW s \in Subs, UNCHANGED sent,
         \A q \in Subs \ {s} : /\ got'[q] = got[q] /\ start'[q] = start[q]
                               /\ next'[q] = next[q] /\ missed'[q] = missed[q],
         Accounted(s)'
  PROVE  LossIsAccounted'
<1>1. ASSUME NEW q \in Subs \ {s} PROVE Accounted(q)'
  <2>1. Accounted(q)
    BY AccountedAll DEF BusInv
  <2>2. QED
    BY <2>1 DEF Accounted, Before, End
<1>2. \A q \in Subs : Accounted(q)'
  BY <1>1
<1>3. QED
  BY <1>2 DEF LossIsAccounted, Accounted

LEMMA SubscribeInv == ASSUME BusInv, NEW s \in Subs, Subscribe(s) PROVE BusInv'
<1>1. /\ stage[s] = "new" /\ stage' = [stage EXCEPT ![s] = "open"]
      /\ next' = [next EXCEPT ![s] = End] /\ start' = [start EXCEPT ![s] = End]
      /\ UNCHANGED <<emitVars, sent, unheard, missed, got, dropped>>
  BY DEF Subscribe
<1>2. End \in Nat \ {0} /\ End' = End /\ missed[s] = 0 /\ got[s] = <<>>
  <2>1. Len(sent) \in Nat
    BY DEF BusInv, BusTypeOK
  <2>2. missed[s] \in Nat /\ ~ (missed[s] > 0)
    BY <1>1 DEF BusInv, BusTypeOK
  <2>3. got[s] = <<>>
    BY <1>1 DEF BusInv, NewStreams
  <2>4. End' = End
    BY <1>1 DEF End
  <2>5. QED
    BY <2>1, <2>2, <2>3, <2>4 DEF End
<1>3. BusTypeOK'
  BY <1>1, <1>2 DEF BusInv, BusTypeOK, emitVars
<1>4. LossIsAccounted'
  <2>1. Accounted(s)'
    BY <1>1, <1>2 DEF BusInv, BusTypeOK, Accounted, Before
  <2>2. QED
    BY <1>1, <2>1, OthersUntouched DEF BusInv, BusTypeOK
<1>5. NewStreams'
  BY <1>1 DEF BusInv, BusTypeOK, NewStreams
<1>6. QED
  BY <1>1, <1>3, <1>4, <1>5, IdsUntouched DEF BusInv

\* What yielding an entry does to the stream's account.
LEMMA YieldAccount ==
  ASSUME BusInv, NEW s \in Subs, NEW id \in Nat, NEW lost \in Nat, NEW upto \in Nat \ {0},
         Yield(s, id, lost, upto), UNCHANGED <<sent, start>>,
         IF lost = 0
         THEN /\ upto = Before(s, Len(got[s]) + 1) + 1
              /\ Before(s, Len(got[s]) + 1) < End
              /\ id = sent[Before(s, Len(got[s]) + 1)]
         ELSE upto = Before(s, Len(got[s]) + 1) + lost,
         next'[s] = upto, missed'[s] = 0
  PROVE  /\ Accounted(s)'
         /\ got' \in [Subs -> Seq(Entry)]
         /\ \A q \in Subs \ {s} : got'[q] = got[q]
<1>a. PICK new \in Entry : new = [id |-> id, lost |-> lost, upto |-> upto]
  BY DEF Entry
<1>b. PICK n \in Nat : n = Len(got[s])
  BY DEF BusInv, BusTypeOK
<1>1. got[s] \in Seq(Entry)
  BY DEF BusInv, BusTypeOK
<1>2. /\ got' = [got EXCEPT ![s] = Append(got[s], new)]
      /\ got'[s] = Append(got[s], new)
      /\ \A q \in Subs \ {s} : got'[q] = got[q]
  BY <1>a DEF Yield, BusInv, BusTypeOK
<1>3. got' \in [Subs -> Seq(Entry)]
  <2>1. Append(got[s], new) \in Seq(Entry)
    BY <1>1
  <2>2. QED
    BY <1>2, <2>1 DEF BusInv, BusTypeOK
<1>4. /\ Len(got'[s]) = n + 1 /\ got'[s][n + 1] = new
      /\ \A i \in 1 .. n : got'[s][i] = got[s][i]
  BY <1>1, <1>2, <1>b
<1>5. new.id = id /\ new.lost = lost /\ new.upto = upto
  BY <1>a
<1>6. \A i \in 1 .. n + 1 : Before(s, i)' = Before(s, i)
  <2>1. ASSUME NEW i \in 1 .. n + 1 PROVE Before(s, i)' = Before(s, i)
    <3>1. CASE i = 1
      BY <3>1 DEF Before
    <3>2. CASE i # 1
      <4>1. i - 1 \in 1 .. n
        BY <3>2
      <4>2. got'[s][i - 1] = got[s][i - 1]
        BY <1>4, <4>1
      <4>3. QED
        BY <3>2, <4>2 DEF Before
    <3>3. QED
      BY <3>1, <3>2
  <2>2. QED
    BY <2>1
<1>8. Accounted(s)
  BY AccountedAll DEF BusInv
<1>9. ASSUME NEW i \in 1 .. n + 1
      PROVE  IF got'[s][i].lost = 0
             THEN /\ got'[s][i].upto = Before(s, i) + 1
                  /\ Before(s, i) < End /\ got'[s][i].id = sent[Before(s, i)]
             ELSE got'[s][i].upto = Before(s, i) + got'[s][i].lost
  <2>1. CASE i = n + 1
    BY <1>4, <1>5, <1>b, <2>1
  <2>2. CASE i # n + 1
    <3>1. i \in 1 .. n
      BY <1>1, <2>2
    <3>2. QED
      BY <1>4, <1>8, <1>b, <3>1 DEF Accounted
  <2>3. QED
    BY <2>1, <2>2
<1>10. Accounted(s)'
  <2>1. End' = End
    BY DEF End
  <2>2. \A i \in 1 .. Len(got'[s]) : i \in 1 .. n + 1
    BY <1>4
  <2>3. Before(s, Len(got[s]) + 1)' = upto
    <3>1. Len(got'[s]) + 1 = n + 2 /\ n + 2 # 1 /\ n + 2 - 1 = n + 1
      BY <1>4
    <3>2. QED
      BY <1>4, <1>5, <3>1 DEF Before
  <2>4. QED
    <3>1. \A i \in 1 .. n + 1 :
            IF got'[s][i].lost = 0
            THEN /\ got'[s][i].upto = Before(s, i)' + 1
                 /\ Before(s, i)' < End' /\ got'[s][i].id = sent'[Before(s, i)']
            ELSE got'[s][i].upto = Before(s, i)' + got'[s][i].lost
      BY <1>6, <1>9, <2>1
    <3>2. Before(s, Len(got[s]) + 1)' + missed'[s] = next'[s]
      BY <2>3
    <3>3. QED
      BY <2>2, <3>1, <3>2 DEF Accounted
<1>11. QED
  BY <1>2, <1>3, <1>10

\* The type invariant after a step that changes one stream.
LEMMA StreamType ==
  ASSUME BusInv, NEW s \in Subs, UNCHANGED <<emitVars, sent, unheard, start>>,
         NEW st \in {"new", "open", "count", "gap", "closed"},
         NEW p \in Nat \ {0}, NEW m \in Nat,
         next[s] <= p, p <= End, m > 0 <=> st \in {"count", "gap"},
         stage' = [stage EXCEPT ![s] = st], next' = [next EXCEPT ![s] = p],
         missed' = [missed EXCEPT ![s] = m],
         got' \in [Subs -> Seq(Entry)], dropped' \in Nat
  PROVE  BusTypeOK'
<1>1. End' = End /\ End \in Nat
  BY DEF BusInv, BusTypeOK, End
<1>2. UNCHANGED <<seq, claimed, sent, unheard, start>>
  BY DEF emitVars
<1>3. /\ stage' \in [Subs -> {"new", "open", "count", "gap", "closed"}]
      /\ next' \in [Subs -> Nat \ {0}] /\ missed' \in [Subs -> Nat]
  BY DEF BusInv, BusTypeOK
<1>4. ASSUME NEW q \in Subs
      PROVE  /\ start'[q] <= next'[q] /\ next'[q] <= End'
             /\ missed'[q] > 0 <=> stage'[q] \in {"count", "gap"}
  <2>1. CASE q = s
    <3>1. next'[q] = p /\ missed'[q] = m /\ stage'[q] = st
      BY <2>1 DEF BusInv, BusTypeOK
    <3>2. start'[q] <= next[s] /\ start'[q] \in Nat /\ next[s] \in Nat
      BY <1>2, <2>1 DEF BusInv, BusTypeOK
    <3>3. QED
      BY <1>1, <3>1, <3>2
  <2>2. CASE q # s
    <3>1. next'[q] = next[q] /\ missed'[q] = missed[q] /\ stage'[q] = stage[q]
      BY <2>2 DEF BusInv, BusTypeOK
    <3>2. QED
      BY <1>1, <1>2, <3>1 DEF BusInv, BusTypeOK
  <2>3. QED
    BY <2>1, <2>2
<1>5. QED
  BY <1>2, <1>3, <1>4 DEF BusInv, BusTypeOK

\* Before it yields, a stream that is open stands where it reads next.
LEMMA OpenStands ==
  ASSUME BusInv, NEW s \in Subs
  PROVE  /\ stage[s] = "open" => missed[s] = 0
         /\ Before(s, Len(got[s]) + 1) + missed[s] = next[s]
         /\ Before(s, Len(got[s]) + 1) \in Nat \ {0}
         /\ Before(s, Len(got[s]) + 1) <= End
<1>1. missed[s] \in Nat /\ (missed[s] > 0 <=> stage[s] \in {"count", "gap"})
  BY DEF BusInv, BusTypeOK
<1>2. Len(got[s]) + 1 \in 1 .. Len(got[s]) + 1
  BY DEF BusInv, BusTypeOK
<1>3. Before(s, Len(got[s]) + 1) \in Nat \ {0}
  BY <1>2, BeforeType DEF BusInv
<1>4. Before(s, Len(got[s]) + 1) + missed[s] = next[s]
  BY DEF BusInv, LossIsAccounted
<1>5. next[s] <= End /\ next[s] \in Nat /\ End \in Nat
  BY DEF BusInv, BusTypeOK, End
<1>6. QED
  BY <1>1, <1>3, <1>4, <1>5

LEMMA ReceiveInv == ASSUME BusInv, NEW s \in Subs, Receive(s) PROVE BusInv'
<1>1. PICK p \in Nat \ {0} :
        /\ p = next[s] /\ p < End /\ stage[s] = "open"
        /\ Yield(s, sent[p], 0, p + 1) /\ next' = [next EXCEPT ![s] = p + 1]
        /\ UNCHANGED <<emitVars, sent, unheard, stage, missed, start, dropped>>
  BY DEF Receive, BusInv, BusTypeOK
<1>2. missed[s] = 0 /\ Before(s, Len(got[s]) + 1) = p
  BY <1>1, OpenStands
<1>3. sent[p] \in Nat /\ End \in Nat
  BY <1>1 DEF BusInv, BusTypeOK, End
<1>4. next'[s] = p + 1 /\ missed'[s] = 0 /\ p + 1 \in Nat \ {0} /\ 0 \in Nat
  BY <1>1, <1>2 DEF BusInv, BusTypeOK
<1>5. UNCHANGED <<sent, start>>
  BY <1>1
<1>6. PICK id \in Nat : id = sent[p]
  BY <1>3
<1>7. /\ Accounted(s)' /\ got' \in [Subs -> Seq(Entry)]
      /\ \A q \in Subs \ {s} : got'[q] = got[q]
  <2>1. PICK upto \in Nat \ {0}, lost \in Nat : upto = p + 1 /\ lost = 0
    BY <1>4
  <2>2. Yield(s, id, lost, upto)
    BY <1>1, <1>6, <2>1
  <2>3. IF lost = 0
        THEN /\ upto = Before(s, Len(got[s]) + 1) + 1
             /\ Before(s, Len(got[s]) + 1) < End
             /\ id = sent[Before(s, Len(got[s]) + 1)]
        ELSE upto = Before(s, Len(got[s]) + 1) + lost
    BY <1>1, <1>2, <1>6, <2>1
  <2>4. next'[s] = upto /\ missed'[s] = 0
    BY <1>4, <2>1
  <2>5. QED
    BY <1>5, <2>2, <2>3, <2>4, YieldAccount
<1>8. BusTypeOK'
  <2>1. /\ stage' = [stage EXCEPT ![s] = "open"] /\ missed' = [missed EXCEPT ![s] = 0]
        /\ dropped' \in Nat
    BY <1>1, <1>2 DEF BusInv, BusTypeOK
  <2>2. next[s] <= p + 1 /\ p + 1 <= End
    BY <1>1, <1>3
  <2>3. UNCHANGED <<emitVars, sent, unheard, start>>
    BY <1>1
  <2>4. PICK st \in {"new", "open", "count", "gap", "closed"}, m \in Nat, to \in Nat \ {0} :
          st = "open" /\ m = 0 /\ to = p + 1
    BY <1>4
  <2>5. /\ stage' = [stage EXCEPT ![s] = st] /\ missed' = [missed EXCEPT ![s] = m]
        /\ next' = [next EXCEPT ![s] = to]
    BY <1>1, <2>1, <2>4
  <2>6. (m > 0 <=> st \in {"count", "gap"}) /\ next[s] <= to /\ to <= End
    BY <2>2, <2>4
  <2>7. QED
    BY <1>7, <2>1, <2>3, <2>5, <2>6, StreamType
<1>9. LossIsAccounted'
  <2>1. \A q \in Subs \ {s} : /\ start'[q] = start[q] /\ next'[q] = next[q]
                              /\ missed'[q] = missed[q]
    BY <1>1 DEF BusInv, BusTypeOK
  <2>2. QED
    BY <1>5, <1>7, <2>1, OthersUntouched
<1>10. NewStreams'
  BY <1>1, <1>7 DEF BusInv, NewStreams
<1>11. QED
  BY <1>1, <1>8, <1>9, <1>10, IdsUntouched DEF BusInv

\* recv jumps to the oldest event held: what it jumped is exactly what is missed.
LEMMA LagInv == ASSUME BusInv, NEW s \in Subs, Lag(s) PROVE BusInv'
<1>1. PICK p \in Nat \ {0}, m \in Nat \ {0} :
        /\ p = Oldest /\ m = p - next[s] /\ p <= End /\ stage[s] = "open"
        /\ missed' = [missed EXCEPT ![s] = m] /\ next' = [next EXCEPT ![s] = p]
        /\ stage' = [stage EXCEPT ![s] = "count"]
        /\ UNCHANGED <<emitVars, sent, unheard, start, got, dropped>>
  <2>1. Len(sent) \in Nat /\ Capacity \in Nat \ {0} /\ next[s] \in Nat \ {0}
    BY BusAssumption DEF BusInv, BusTypeOK
  <2>2. Oldest \in Nat \ {0} /\ Oldest <= End
    BY <2>1 DEF Oldest, End
  <2>3. Oldest - next[s] \in Nat \ {0}
    BY <2>1, <2>2 DEF Lag
  <2>4. QED
    BY <2>2, <2>3 DEF Lag
<1>2. missed[s] = 0 /\ Before(s, Len(got[s]) + 1) = next[s] /\ next[s] \in Nat
  BY <1>1, OpenStands DEF BusInv, BusTypeOK
<1>3. next'[s] = p /\ missed'[s] = m
  BY <1>1 DEF BusInv, BusTypeOK
<1>4. BusTypeOK'
  <2>1. next[s] <= p
    BY <1>1, <1>2
  <2>2. UNCHANGED <<emitVars, sent, unheard, start>> /\ dropped' \in Nat
        /\ got' \in [Subs -> Seq(Entry)]
    BY <1>1 DEF BusInv, BusTypeOK
  <2>3. PICK st \in {"new", "open", "count", "gap", "closed"} : st = "count"
    OBVIOUS
  <2>4. (m > 0 <=> st \in {"count", "gap"}) /\ stage' = [stage EXCEPT ![s] = st]
    BY <1>1, <2>3
  <2>5. QED
    BY <1>1, <2>1, <2>2, <2>4, StreamType
<1>5. Accounted(s)'
  <2>1. Accounted(s) /\ UNCHANGED <<sent, start, got>>
    BY <1>1, AccountedAll DEF BusInv
  <2>2. Before(s, Len(got[s]) + 1)' = next[s]
    BY <1>2, <2>1 DEF Before
  <2>3. Before(s, Len(got[s]) + 1)' + missed'[s] = next'[s]
    BY <1>1, <1>2, <1>3, <2>2
  <2>4. QED
    BY <2>1, <2>3 DEF Accounted, Before, End
<1>6. LossIsAccounted'
  <2>1. \A q \in Subs \ {s} : /\ got'[q] = got[q] /\ start'[q] = start[q]
                              /\ next'[q] = next[q] /\ missed'[q] = missed[q]
    BY <1>1 DEF BusInv, BusTypeOK
  <2>2. UNCHANGED sent
    BY <1>1
  <2>3. QED
    BY <1>5, <2>1, <2>2, OthersUntouched
<1>7. NewStreams'
  BY <1>1 DEF BusInv, BusTypeOK, NewStreams
<1>8. QED
  BY <1>1, <1>4, <1>6, <1>7, IdsUntouched DEF BusInv

\* Counting, and leaving, touch no stream's account.
LEMMA RestageInv ==
  ASSUME BusInv, NEW s \in Subs, CountDropped(s) \/ Unsubscribe(s)
  PROVE  BusInv'
<1>1. /\ UNCHANGED <<emitVars, sent, unheard, next, missed, start, got>>
      /\ dropped' \in Nat
  BY DEF CountDropped, Unsubscribe, BusInv, BusTypeOK
<1>2. \/ stage[s] = "count" /\ stage' = [stage EXCEPT ![s] = "gap"]
      \/ stage[s] = "open" /\ stage' = [stage EXCEPT ![s] = "closed"]
  BY DEF CountDropped, Unsubscribe
<1>3. BusTypeOK'
  BY <1>1, <1>2 DEF BusInv, BusTypeOK, emitVars, End
<1>4. LossIsAccounted'
  BY <1>1 DEF BusInv, LossIsAccounted, Before, End
<1>5. NewStreams'
  BY <1>1, <1>2 DEF BusInv, BusTypeOK, NewStreams
<1>6. QED
  BY <1>1, <1>3, <1>4, <1>5, IdsUntouched DEF BusInv

LEMMA YieldGapInv == ASSUME BusInv, NEW s \in Subs, YieldGap(s) PROVE BusInv'
<1>1. PICK p \in Nat \ {0}, m \in Nat \ {0}, id \in Nat :
        /\ p = next[s] /\ m = missed[s] /\ id = seq /\ stage[s] = "gap"
        /\ Yield(s, id, m, p) /\ missed' = [missed EXCEPT ![s] = 0]
        /\ stage' = [stage EXCEPT ![s] = "open"]
        /\ UNCHANGED <<emitVars, sent, unheard, next, start, dropped>>
  <2>1. next[s] \in Nat \ {0} /\ missed[s] \in Nat \ {0} /\ seq \in Nat
    BY BusAssumption DEF YieldGap, BusInv, BusTypeOK
  <2>2. QED
    BY <2>1 DEF YieldGap
<1>2. p = Before(s, Len(got[s]) + 1) + m /\ p <= End
  BY <1>1, OpenStands DEF BusInv, BusTypeOK
<1>3. next'[s] = p /\ missed'[s] = 0 /\ UNCHANGED <<sent, start>>
  BY <1>1 DEF BusInv, BusTypeOK
<1>4. /\ Accounted(s)' /\ got' \in [Subs -> Seq(Entry)]
      /\ \A q \in Subs \ {s} : got'[q] = got[q]
  <2>1. IF m = 0
        THEN /\ p = Before(s, Len(got[s]) + 1) + 1
             /\ Before(s, Len(got[s]) + 1) < End
             /\ id = sent[Before(s, Len(got[s]) + 1)]
        ELSE p = Before(s, Len(got[s]) + 1) + m
    BY <1>2
  <2>2. Yield(s, id, m, p) /\ m \in Nat
    BY <1>1
  <2>3. QED
    BY <1>3, <2>1, <2>2, YieldAccount
<1>5. BusTypeOK'
  <2>1. next' = [next EXCEPT ![s] = p] /\ next[s] <= p /\ 0 \in Nat /\ dropped' \in Nat
    BY <1>1 DEF BusInv, BusTypeOK
  <2>2. UNCHANGED <<emitVars, sent, unheard, start>>
    BY <1>1
  <2>3. PICK st \in {"new", "open", "count", "gap", "closed"}, k \in Nat :
          st = "open" /\ k = 0
    OBVIOUS
  <2>4. (k > 0 <=> st \in {"count", "gap"}) /\ stage' = [stage EXCEPT ![s] = st]
        /\ missed' = [missed EXCEPT ![s] = k]
    BY <1>1, <2>3
  <2>5. QED
    BY <1>2, <1>4, <2>1, <2>2, <2>4, StreamType
<1>6. LossIsAccounted'
  <2>1. \A q \in Subs \ {s} : /\ start'[q] = start[q] /\ next'[q] = next[q]
                              /\ missed'[q] = missed[q]
    BY <1>1 DEF BusInv, BusTypeOK
  <2>2. QED
    BY <1>3, <1>4, <2>1, OthersUntouched
<1>7. NewStreams'
  BY <1>1, <1>4 DEF BusInv, BusTypeOK, NewStreams
<1>8. QED
  BY <1>1, <1>5, <1>6, <1>7, IdsUntouched DEF BusInv

LEMMA BusStutterInv == ASSUME BusInv, UNCHANGED busVars PROVE BusInv'
<1>1. UNCHANGED <<seq, claimed, sent, unheard, stage, next, missed, start, got, dropped>>
  BY DEF busVars, emitVars, streamVars
<1>2. BusTypeOK'
  BY <1>1 DEF BusInv, BusTypeOK, End
<1>3. QED
  BY <1>1, <1>2, StreamsUntouched, IdsUntouched DEF BusInv, emitVars, streamVars

LEMMA BusNextInv == BusInv /\ [BusNext]_busVars => BusInv'
<1> SUFFICES ASSUME BusInv, [BusNext]_busVars PROVE BusInv'
  OBVIOUS
<1>1. ASSUME NEW e \in Emitters, Emit(e) PROVE BusInv'
  BY <1>1, TakeIdInv, SendInv DEF Emit
<1>2. ASSUME NEW s \in Subs, Subscribe(s) \/ Progress(s) \/ Unsubscribe(s) PROVE BusInv'
  BY <1>2, SubscribeInv, ReceiveInv, LagInv, RestageInv, YieldGapInv DEF Progress
<1>3. CASE UNCHANGED busVars
  BY <1>3, BusStutterInv
<1>4. QED
  BY <1>1, <1>2, <1>3 DEF BusNext

\* The strengthened invariant holds in every reachable state.
THEOREM EventBusInv == BusSpec => []BusInv
<1>1. QED
  BY BusInitInv, BusNextInv, PTL DEF BusSpec

\* Every variable keeps its type; no stream is ahead of the channel.
THEOREM EventBusTypeOK == BusSpec => []BusTypeOK
<1>1. BusInv => BusTypeOK
  BY DEF BusInv
<1>2. QED
  BY <1>1, EventBusInv, PTL

\* However the two steps of many emits interleave, every id below the counter
\* belongs to exactly one event.
THEOREM EventBusIdsAreDense == BusSpec => []IdsAreDense
<1>1. BusInv => IdsAreDense
  BY DEF BusInv
<1>2. QED
  BY <1>1, EventBusInv, PTL

\* A stream accounts for every event since it subscribed, in channel order, whatever
\* the capacity of the channel and however far behind it falls.
THEOREM EventBusLossIsAccounted == BusSpec => []LossIsAccounted
<1>1. BusInv => LossIsAccounted
  BY DEF BusInv
<1>2. QED
  BY <1>1, EventBusInv, PTL

-----------------------------------------------------------------------------
(* The counter of dropped events.  Counting a Gap adds as many losses as    *)
(* the counter grows by, all of them new; yielding it and every other step  *)
(* leave the set of losses alone.  The set is finite whatever Subs is.      *)

DroppedInv == IsFiniteSet(Losses) /\ DroppedIsWhatGapsSay

LEMMA LossMember ==
  \A x : x \in Losses <=>
    \E s \in Subs : \E i \in 1 .. Len(got[s]) + 1 : \E k \in 1 .. SaidLost(s, i) :
      x = <<<<s, i>>, k>>
<1>1. \A s, i, x : x \in {<<s, i>>} \X (1 .. SaidLost(s, i)) <=>
                     \E k \in 1 .. SaidLost(s, i) : x = <<<<s, i>>, k>>
  OBVIOUS
<1>2. \A s, x : x \in LossesOf(s) <=>
        \E i \in 1 .. Len(got[s]) + 1 : \E k \in 1 .. SaidLost(s, i) : x = <<<<s, i>>, k>>
  BY <1>1 DEF LossesOf
<1>3. QED
  BY <1>2 DEF Losses

\* The losses depend on what each place of each stream says was lost only.
LEMMA SameLosses ==
  ASSUME \A s \in Subs, i \in Nat :
           (i \in 1 .. Len(got'[s]) + 1 /\ SaidLost(s, i)' > 0)
             <=> (i \in 1 .. Len(got[s]) + 1 /\ SaidLost(s, i) > 0),
         \A s \in Subs : Len(got[s]) \in Nat /\ Len(got'[s]) \in Nat,
         \A s \in Subs : \A i \in 1 .. Len(got[s]) + 1 : SaidLost(s, i) > 0
            => SaidLost(s, i)' = SaidLost(s, i),
         \A s \in Subs : \A i \in 1 .. Len(got[s]) + 1 : SaidLost(s, i) \in Nat,
         \A s \in Subs : \A i \in 1 .. Len(got'[s]) + 1 : SaidLost(s, i)' \in Nat
  PROVE  Losses' = Losses
<1>1. ASSUME NEW s \in Subs, NEW i, NEW k
      PROVE  (i \in 1 .. Len(got[s]) + 1 /\ k \in 1 .. SaidLost(s, i)) <=>
             (i \in 1 .. Len(got'[s]) + 1 /\ k \in 1 .. SaidLost(s, i)')
  <2>1. ASSUME i \in 1 .. Len(got[s]) + 1, k \in 1 .. SaidLost(s, i)
        PROVE  i \in 1 .. Len(got'[s]) + 1 /\ k \in 1 .. SaidLost(s, i)'
    BY <2>1
  <2>2. ASSUME i \in 1 .. Len(got'[s]) + 1, k \in 1 .. SaidLost(s, i)'
        PROVE  i \in 1 .. Len(got[s]) + 1 /\ k \in 1 .. SaidLost(s, i)
    BY <2>2
  <2>3. QED
    BY <2>1, <2>2
<1>2. \A x : x \in Losses' <=>
        \E s \in Subs : \E i \in 1 .. Len(got'[s]) + 1 : \E k \in 1 .. SaidLost(s, i)' :
          x = <<<<s, i>>, k>>
  <2>1. \A s, i, x : x \in {<<s, i>>} \X (1 .. SaidLost(s, i)') <=>
                       \E k \in 1 .. SaidLost(s, i)' : x = <<<<s, i>>, k>>
    OBVIOUS
  <2>2. \A s, x : x \in LossesOf(s)' <=>
          \E i \in 1 .. Len(got'[s]) + 1 : \E k \in 1 .. SaidLost(s, i)' : x = <<<<s, i>>, k>>
    BY <2>1 DEF LossesOf
  <2>3. QED
    BY <2>2 DEF Losses
<1>3. \A x : x \in Losses' <=> x \in Losses
  BY <1>1, <1>2, LossMember
<1>4. QED
  BY <1>3

LEMMA SaidLostType ==
  ASSUME BusTypeOK, NEW s \in Subs
  PROVE  /\ Len(got[s]) \in Nat /\ DOMAIN got[s] = 1 .. Len(got[s])
         /\ \A i : SaidLost(s, i) \in Nat
<1>1. got[s] \in Seq(Entry) /\ missed[s] \in Nat
  BY DEF BusTypeOK
<1>2. Len(got[s]) \in Nat /\ DOMAIN got[s] = 1 .. Len(got[s])
  BY <1>1
<1>3. \A i \in DOMAIN got[s] : got[s][i] \in Entry
  BY <1>1
<1>4. QED
  BY <1>1, <1>2, <1>3 DEF SaidLost, Entry

\* Steps that leave the streams' reports alone.
LEMMA QuietDropped ==
  ASSUME BusInv, BusInv', DroppedInv, UNCHANGED <<got, missed, dropped>>,
         \A s \in Subs : stage'[s] = "gap" <=> stage[s] = "gap"
  PROVE  DroppedInv'
<1>1. \A s \in Subs : Len(got[s]) \in Nat /\ \A i : SaidLost(s, i) \in Nat
  BY SaidLostType DEF BusInv
<1>2. \A s \in Subs : \A i : SaidLost(s, i)' = SaidLost(s, i)
  BY DEF SaidLost
<1>3. Losses' = Losses
  BY <1>1, <1>2, SameLosses
<1>4. QED
  BY <1>3 DEF DroppedInv, DroppedIsWhatGapsSay

\* A report is what its entry says, and past the reports of a stream that is not about
\* to yield a Gap nothing is said.
LEMMA YieldDropped ==
  ASSUME BusInv, BusInv', DroppedInv, NEW s \in Subs, NEW id, NEW lost \in Nat, NEW upto,
         Yield(s, id, lost, upto), UNCHANGED dropped,
         \A q \in Subs \ {s} : stage'[q] = stage[q] /\ missed'[q] = missed[q],
         stage'[s] = "open", lost = (IF stage[s] = "gap" THEN missed[s] ELSE 0)
  PROVE  DroppedInv'
<1>0. Len(got[s]) + 1 \in Nat
  BY SaidLostType DEF BusInv
<1> PICK n \in Nat : n = Len(got[s]) + 1
  BY <1>0
<1> DEFINE entry == [id |-> id, lost |-> lost, upto |-> upto]
<1>1. got' = [got EXCEPT ![s] = Append(got[s], entry)]
  BY DEF Yield
<1>2. got'[s] = Append(got[s], entry) /\ \A q \in Subs \ {s} : got'[q] = got[q]
  BY <1>1 DEF BusInv, BusTypeOK
<1>3. \A q \in Subs : /\ Len(got[q]) \in Nat /\ DOMAIN got[q] = 1 .. Len(got[q])
                      /\ \A i : SaidLost(q, i) \in Nat
  BY SaidLostType DEF BusInv
<1>4. \A q \in Subs : /\ Len(got'[q]) \in Nat /\ DOMAIN got'[q] = 1 .. Len(got'[q])
                      /\ \A i : SaidLost(q, i)' \in Nat
  <2>1. BusTypeOK'
    BY DEF BusInv
  <2>2. \A q \in Subs : missed'[q] \in Nat /\ got'[q] \in Seq(Entry)
    BY <2>1 DEF BusTypeOK
  <2>3. \A q \in Subs : Len(got'[q]) \in Nat /\ DOMAIN got'[q] = 1 .. Len(got'[q])
    BY <2>2
  <2>4. ASSUME NEW q \in Subs, NEW i \in DOMAIN got'[q] PROVE got'[q][i].lost \in Nat
    <3>1. got'[q][i] \in Entry
      BY <2>2
    <3>2. QED
      BY <3>1 DEF Entry
  <2>5. QED
    BY <2>2, <2>3, <2>4 DEF SaidLost
<1>5. /\ Len(got'[s]) = n /\ got'[s][n] = entry
      /\ \A i \in 1 .. Len(got[s]) : got'[s][i] = got[s][i]
  <2>1. got[s] \in Seq(Entry)
    BY DEF BusInv, BusTypeOK
  <2>2. Len(got'[s]) = n
    BY <1>2, <2>1
  <2>3. got'[s][n] = entry /\ \A i \in 1 .. Len(got[s]) : got'[s][i] = got[s][i]
    BY <1>2, <2>1
  <2>4. QED
    BY <2>2, <2>3
<1>6. entry.lost = lost
  OBVIOUS
<1> HIDE DEF entry
<1>7. /\ \A i \in 1 .. Len(got[s]) : SaidLost(s, i)' = SaidLost(s, i)
      /\ SaidLost(s, n)' = lost /\ SaidLost(s, n) = lost
      /\ SaidLost(s, n + 1)' = 0
  <2>1. \A i \in 1 .. Len(got[s]) : SaidLost(s, i)' = SaidLost(s, i)
    BY <1>3, <1>4, <1>5 DEF SaidLost
  <2>2. SaidLost(s, n)' = lost /\ SaidLost(s, n) = lost
    BY <1>3, <1>4, <1>5, <1>6 DEF SaidLost
  <2>3. SaidLost(s, n + 1)' = 0
    BY <1>3, <1>4, <1>5 DEF SaidLost
  <2>4. QED
    BY <2>1, <2>2, <2>3
<1>8. \A q \in Subs \ {s} : Len(got'[q]) = Len(got[q]) /\ \A i : SaidLost(q, i)' = SaidLost(q, i)
  BY <1>2 DEF SaidLost
<1>9. ASSUME NEW q \in Subs, NEW i \in Nat
      PROVE  /\ (i \in 1 .. Len(got'[q]) + 1 /\ SaidLost(q, i)' > 0)
                  <=> (i \in 1 .. Len(got[q]) + 1 /\ SaidLost(q, i) > 0)
             /\ i \in 1 .. Len(got[q]) + 1 => SaidLost(q, i)' = SaidLost(q, i)
  <2>1. CASE q # s
    BY <1>8, <2>1
  <2>2. CASE q = s
    <3>1. i \in 1 .. n => SaidLost(s, i)' = SaidLost(s, i)
      BY <1>3, <1>7
    <3>2. i \in 1 .. Len(got'[s]) + 1 <=> (i \in 1 .. n \/ i = n + 1)
      BY <1>3, <1>5
    <3>3. n + 1 \notin 1 .. n
      BY <1>3
    <3>4. QED
      BY <1>7, <2>2, <3>1, <3>2, <3>3
  <2>3. QED
    BY <2>1, <2>2
<1>10. Losses' = Losses
  <2>1. \A q \in Subs : \A i \in 1 .. Len(got[q]) + 1 : i \in Nat
    BY <1>3
  <2>2. QED
    BY <1>3, <1>4, <1>9, <2>1, SameLosses
<1>11. QED
  BY <1>10 DEF DroppedInv, DroppedIsWhatGapsSay

\* Counting a Gap: the losses it is about to say are new and as many as are counted.
LEMMA CountDroppedDropped ==
  ASSUME BusInv, BusInv', DroppedInv, NEW s \in Subs, CountDropped(s)
  PROVE  DroppedInv'
<1>0. Len(got[s]) + 1 \in Nat
  BY SaidLostType DEF BusInv
<1> PICK n \in Nat : n = Len(got[s]) + 1
  BY <1>0
<1> DEFINE new == {<<s, n>>} \X (1 .. missed[s])
<1>1. /\ stage[s] = "count" /\ dropped' = dropped + missed[s]
      /\ stage' = [stage EXCEPT ![s] = "gap"]
      /\ UNCHANGED <<missed, got>>
  BY DEF CountDropped
<1>2. missed[s] \in Nat /\ dropped \in Nat
  BY DEF BusInv, BusTypeOK
<1>3. \A q \in Subs : /\ Len(got[q]) \in Nat /\ DOMAIN got[q] = 1 .. Len(got[q])
                      /\ \A i : SaidLost(q, i) \in Nat
  BY SaidLostType DEF BusInv
<1>4. stage'[s] = "gap" /\ \A q \in Subs \ {s} : stage'[q] = stage[q]
  BY <1>1 DEF BusInv, BusTypeOK
<1>5. /\ SaidLost(s, n) = 0 /\ SaidLost(s, n)' = missed[s]
      /\ \A i \in 1 .. Len(got[s]) : SaidLost(s, i)' = SaidLost(s, i)
      /\ \A q \in Subs \ {s} : \A i : SaidLost(q, i)' = SaidLost(q, i)
  <2>1. n \notin DOMAIN got[s]
    BY <1>3
  <2>2. SaidLost(s, n) = 0 /\ SaidLost(s, n)' = missed[s]
    BY <1>1, <1>4, <2>1 DEF SaidLost
  <2>3. \A i \in 1 .. Len(got[s]) : SaidLost(s, i)' = SaidLost(s, i)
    BY <1>1, <1>3 DEF SaidLost
  <2>4. \A q \in Subs \ {s} : \A i : SaidLost(q, i)' = SaidLost(q, i)
    BY <1>1, <1>4 DEF SaidLost
  <2>5. QED
    BY <2>2, <2>3, <2>4
<1>6. /\ n \in 1 .. Len(got[s]) + 1
      /\ \A i \in 1 .. Len(got[s]) + 1 : i = n \/ i \in 1 .. Len(got[s])
  BY <1>3
<1>7. \A x : x \in new <=> \E k \in 1 .. missed[s] : x = <<<<s, n>>, k>>
  OBVIOUS
<1>8. \A x : x \in Losses' <=>
        \E q \in Subs : \E i \in 1 .. Len(got[q]) + 1 : \E k \in 1 .. SaidLost(q, i)' :
          x = <<<<q, i>>, k>>
  <2>1. \A q, i, x : x \in {<<q, i>>} \X (1 .. SaidLost(q, i)') <=>
                       \E k \in 1 .. SaidLost(q, i)' : x = <<<<q, i>>, k>>
    OBVIOUS
  <2>2. \A q, x : x \in LossesOf(q)' <=>
          \E i \in 1 .. Len(got[q]) + 1 : \E k \in 1 .. SaidLost(q, i)' : x = <<<<q, i>>, k>>
    BY <1>1, <2>1 DEF LossesOf
  <2>3. QED
    BY <2>2 DEF Losses
<1> HIDE DEF new
<1>9. Losses' = Losses \cup new
  <2>1. ASSUME NEW x \in Losses' PROVE x \in Losses \cup new
    <3>1. PICK q \in Subs : \E i \in 1 .. Len(got[q]) + 1 : \E k \in 1 .. SaidLost(q, i)' :
                              x = <<<<q, i>>, k>>
      BY <1>8
    <3>2. PICK i \in 1 .. Len(got[q]) + 1 : \E k \in 1 .. SaidLost(q, i)' : x = <<<<q, i>>, k>>
      BY <3>1
    <3>3. CASE q = s /\ i = n
      BY <1>5, <1>7, <3>2, <3>3
    <3>4. CASE ~(q = s /\ i = n)
      <4>1. SaidLost(q, i)' = SaidLost(q, i)
        BY <1>5, <1>6, <3>4
      <4>2. QED
        BY <3>2, <4>1, LossMember
    <3>5. QED
      BY <3>3, <3>4
  <2>2. ASSUME NEW x \in Losses PROVE x \in Losses'
    <3>1. PICK q \in Subs : \E i \in 1 .. Len(got[q]) + 1 : \E k \in 1 .. SaidLost(q, i) :
                              x = <<<<q, i>>, k>>
      BY LossMember
    <3>2. PICK i \in 1 .. Len(got[q]) + 1 : \E k \in 1 .. SaidLost(q, i) : x = <<<<q, i>>, k>>
      BY <3>1
    <3>3. ~(q = s /\ i = n)
      BY <1>5, <3>2
    <3>4. SaidLost(q, i)' = SaidLost(q, i)
      BY <1>5, <1>6, <3>3
    <3>5. QED
      BY <1>8, <3>2, <3>4
  <2>3. ASSUME NEW x \in new PROVE x \in Losses'
    BY <1>5, <1>6, <1>7, <1>8
  <2>4. QED
    BY <2>1, <2>2, <2>3
<1>10. new \cap Losses = {}
  <2>1. ASSUME NEW x \in new, x \in Losses PROVE FALSE
    <3>1. PICK k \in 1 .. missed[s] : x = <<<<s, n>>, k>>
      BY <1>7
    <3>2. PICK q \in Subs : \E i \in 1 .. Len(got[q]) + 1 : \E m \in 1 .. SaidLost(q, i) :
                              x = <<<<q, i>>, m>>
      BY <2>1, LossMember
    <3>3. PICK i \in 1 .. Len(got[q]) + 1 : \E m \in 1 .. SaidLost(q, i) : x = <<<<q, i>>, m>>
      BY <3>2
    <3>4. q = s /\ i = n
      BY <3>1, <3>3
    <3>5. QED
      BY <1>5, <3>3, <3>4
  <2>2. QED
    BY <2>1
<1>11. IsFiniteSet(new) /\ Cardinality(new) = missed[s]
  <2> DEFINE place == {<<s, n>>}
             many == 1 .. missed[s]
  <2>1. IsFiniteSet(place) /\ Cardinality(place) = 1
    BY FS_Singleton
  <2>2. IsFiniteSet(many) /\ Cardinality(many) = missed[s]
    <3>1. 0 \in Int /\ 1 \in Int /\ missed[s] \in Int
      BY <1>2
    <3>2. /\ IsFiniteSet(1 .. missed[s])
          /\ Cardinality(1 .. missed[s]) = IF 1 > missed[s] THEN 0 ELSE missed[s] - 1 + 1
      BY ONLY <3>1, FS_Interval
    <3>3. QED
      BY <1>2, <3>2
  <2>3. new = place \X many
    BY DEF new
  <2> HIDE DEF place, many
  <2>4. /\ IsFiniteSet(place \X many)
        /\ Cardinality(place \X many) = Cardinality(place) * Cardinality(many)
    BY <2>1, <2>2, FS_Product
  <2>5. QED
    BY <1>2, <2>1, <2>2, <2>3, <2>4
<1>12. IsFiniteSet(Losses') /\ Cardinality(Losses') = Cardinality(Losses) + missed[s]
  <2>1. IsFiniteSet(Losses) /\ Cardinality(Losses) \in Nat
    BY FS_CardinalityType DEF DroppedInv
  <2>2. /\ IsFiniteSet(Losses \cup new)
        /\ Cardinality(Losses \cup new)
             = Cardinality(Losses) + Cardinality(new) - Cardinality(Losses \cap new)
    BY <1>11, <2>1, FS_Union
  <2>3. Cardinality(Losses \cap new) = 0
    BY <1>10, FS_EmptySet
  <2>4. QED
    BY <1>2, <1>9, <1>11, <2>1, <2>2, <2>3
<1>13. QED
  BY <1>1, <1>12 DEF DroppedInv, DroppedIsWhatGapsSay

LEMMA AdvanceDropped ==
  ASSUME BusInv, BusInv', DroppedInv, NEW s \in Subs, Progress(s)
  PROVE  DroppedInv'
<1>1. CASE Receive(s)
  <2>1. /\ stage[s] = "open" /\ UNCHANGED <<stage, missed, dropped>>
        /\ Yield(s, sent[next[s]], 0, next[s] + 1)
    BY <1>1 DEF Receive
  <2>2. QED
    BY <2>1, YieldDropped
<1>2. CASE Lag(s)
  <2>1. /\ stage[s] = "open" /\ stage' = [stage EXCEPT ![s] = "count"]
        /\ UNCHANGED <<got, dropped>>
        /\ missed' = [missed EXCEPT ![s] = Oldest - next[s]]
    BY <1>2 DEF Lag
  <2>2. \A q \in Subs : /\ stage'[q] = "gap" <=> stage[q] = "gap"
                        /\ stage[q] = "gap" => missed'[q] = missed[q]
    BY <2>1 DEF BusInv, BusTypeOK
  <2>3. \A q \in Subs : \A i : SaidLost(q, i)' = SaidLost(q, i)
    BY <2>1, <2>2 DEF SaidLost
  <2>4. \A q \in Subs : Len(got[q]) \in Nat /\ \A i : SaidLost(q, i) \in Nat
    BY SaidLostType DEF BusInv
  <2>5. Losses' = Losses
    BY <2>1, <2>3, <2>4, SameLosses
  <2>6. QED
    BY <2>1, <2>5 DEF DroppedInv, DroppedIsWhatGapsSay
<1>3. CASE CountDropped(s)
  BY <1>3, CountDroppedDropped
<1>4. CASE YieldGap(s)
  <2>1. /\ stage[s] = "gap" /\ stage' = [stage EXCEPT ![s] = "open"]
        /\ missed' = [missed EXCEPT ![s] = 0] /\ UNCHANGED dropped
        /\ Yield(s, seq, missed[s], next[s])
    BY <1>4 DEF YieldGap
  <2>2. /\ stage'[s] = "open" /\ missed[s] \in Nat
        /\ \A q \in Subs \ {s} : stage'[q] = stage[q] /\ missed'[q] = missed[q]
    BY <2>1 DEF BusInv, BusTypeOK
  <2>3. QED
    BY <2>1, <2>2, YieldDropped
<1>5. QED
  BY <1>1, <1>2, <1>3, <1>4 DEF Progress

LEMMA NextDropped == BusInv /\ BusInv' /\ DroppedInv /\ [BusNext]_busVars => DroppedInv'
<1> SUFFICES ASSUME BusInv, BusInv', DroppedInv, [BusNext]_busVars PROVE DroppedInv'
  OBVIOUS
<1>1. ASSUME NEW e \in Emitters, Emit(e) PROVE DroppedInv'
  <2>1. UNCHANGED <<got, missed, dropped, stage>>
    BY <1>1 DEF Emit, TakeId, Send, streamVars
  <2>2. QED
    BY <2>1, QuietDropped
<1>2. ASSUME NEW s \in Subs, Subscribe(s) \/ Unsubscribe(s) PROVE DroppedInv'
  <2>1. UNCHANGED <<got, missed, dropped>>
    BY <1>2 DEF Subscribe, Unsubscribe
  <2>2. \A q \in Subs : stage'[q] = "gap" <=> stage[q] = "gap"
    BY <1>2 DEF Subscribe, Unsubscribe, BusInv, BusTypeOK
  <2>3. QED
    BY <2>1, <2>2, QuietDropped
<1>3. ASSUME NEW s \in Subs, Progress(s) PROVE DroppedInv'
  BY <1>3, AdvanceDropped
<1>4. CASE UNCHANGED busVars
  <2>1. UNCHANGED <<got, missed, dropped, stage>>
    BY <1>4 DEF busVars, streamVars
  <2>2. QED
    BY <2>1, QuietDropped
<1>5. QED
  BY <1>1, <1>2, <1>3, <1>4 DEF BusNext

LEMMA InitDropped == BusInit => DroppedInv
<1> SUFFICES ASSUME BusInit PROVE DroppedInv
  OBVIOUS
<1>1. \A s \in Subs : \A i : SaidLost(s, i) = 0
  BY DEF BusInit, SaidLost
<1>2. Losses = {}
  BY <1>1, LossMember
<1>3. QED
  BY <1>2, FS_EmptySet DEF DroppedInv, DroppedIsWhatGapsSay, BusInit

\* The counter of dropped events is, at every moment, the number of losses the streams'
\* Gaps have said or are about to say, for any set of streams (bus.rs:56).
THEOREM EventBusDroppedIsWhatGapsSay == BusSpec => []DroppedIsWhatGapsSay
<1>1. BusInv /\ DroppedInv /\ [BusNext]_busVars => (BusInv /\ DroppedInv)'
  BY BusNextInv, NextDropped
<1>2. DroppedInv => DroppedIsWhatGapsSay
  BY DEF DroppedInv
<1>3. QED
  BY <1>1, <1>2, BusInitInv, InitDropped, PTL DEF BusSpec

=============================================================================
