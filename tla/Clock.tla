-------------------------------- MODULE Clock --------------------------------
(***************************************************************************)
(* The virtual clock (crates/core/src/clock.rs): three atomics shared by   *)
(* every task of the process with no lock around them.  Each load, store,  *)
(* swap or add is a step of its own, so the calls of several tasks         *)
(* interleave at every point the code lets them.                           *)
(***************************************************************************)
EXTENDS Integers

CONSTANTS
  Tasks,       \* admin handlers and the poll loops reading the time
  Restored,    \* offsets a clock may be restored with (Clock::restore), 0 for a new one
  Advances,    \* the ms a clock/advance may ask for
  MaxElapsed,  \* bound: real time followed
  MaxOffset    \* bound: advances past it are not followed

ASSUME ClockAssumption ==
  /\ Restored \subseteq Int
  /\ Advances \subseteq Nat
  /\ MaxElapsed \in Nat
  /\ MaxOffset \in Int

VARIABLES
  elapsed,        \* real ms since the epoch (running_elapsed_ms)
  offset,         \* offset_ms
  frozen,         \* the flag
  frozenElapsed,  \* frozen_elapsed_ms
  at,             \* the next step of each task's call, "idle" between calls
  reg,            \* the value the call holds in a local
  overlap,        \* history: the kinds of control call that overlapped this call
  entry           \* history: what the clock showed when the call began, and since

clockVars == <<elapsed, offset, frozen, frozenElapsed>>
callVars == <<at, reg>>
historyVars == <<overlap, entry>>
vars == <<clockVars, callVars, historyVars>>

\* What a now() that nothing disturbs returns.
Virtual == (IF frozen THEN frozenElapsed ELSE elapsed) + offset

Freezing == {"freezeStore", "freezeFlag"}
Resuming == {"resumeMeasure", "resumeLoad", "resumeRoll"}
Resetting == {"resetFlag", "resetElapsed"}
Kind(stage) == CASE stage \in Freezing -> {"freeze"}
                 [] stage \in Resuming -> {"resume"}
                 [] stage \in Resetting -> {"reset"}
                 [] OTHER -> {}

-----------------------------------------------------------------------------
(* History: kept for the properties, never read by the clock.              *)

NoEntry == [virtual |-> 0, elapsed |-> 0, frozen |-> FALSE, lows |-> {}]

\* The times the freezes under way may still pin, else the time shown.
Pinnable(t) ==
  LET freezing == {u \in Tasks \ {t} : at[u] \in Freezing}
  IN  IF freezing = {} THEN {Virtual} ELSE UNION {entry[u].lows : u \in freezing}

\* The call of t begins, of the given kind ({} for a now()). It inherits what has
\* overlapped the control calls it finds under way.
Begin(t, kind) ==
  LET control == {u \in Tasks \ {t} : Kind(at[u]) # {}}
  IN  /\ overlap' = [u \in Tasks |->
           IF u = t THEN UNION {Kind(at[v]) \cup overlap[v] : v \in control}
           ELSE IF at[u] = "idle" THEN {} ELSE overlap[u] \cup kind]
      /\ entry' = [u \in Tasks |->
           IF u = t THEN [virtual |-> Virtual, elapsed |-> elapsed, frozen |-> frozen,
                          lows |-> Pinnable(t)]
           ELSE IF overlap'[u] \subseteq {"freeze"} THEN entry[u] ELSE NoEntry]

\* A later step of the call of t, the last one if the task is idle after it.
Within(t) ==
  /\ entry' = IF at'[t] = "idle" THEN [entry EXCEPT ![t] = NoEntry] ELSE entry
  /\ overlap' = IF at'[t] = "idle" THEN [overlap EXCEPT ![t] = {}] ELSE overlap

Goto(t, from, to) == at[t] = from /\ at' = [at EXCEPT ![t] = to]
Hold(t, value) == reg' = [reg EXCEPT ![t] = value]

-----------------------------------------------------------------------------
(* freeze: capture, then flip the flag.                                    *)

FreezeCaptureVirtual(t) ==
  /\ Goto(t, "idle", "freezeStore")
  /\ Hold(t, elapsed + offset)
  /\ Begin(t, {"freeze"})
  /\ UNCHANGED clockVars
FreezeFlagFirst(t) ==
  /\ Goto(t, "idle", "freezeStore")
  /\ Hold(t, elapsed)
  /\ frozen' = TRUE
  /\ Begin(t, {"freeze"})
  /\ UNCHANGED <<elapsed, offset, frozenElapsed>>
FreezeMeasure(t) ==
  /\ Goto(t, "idle", "freezeStore")
  /\ Hold(t, elapsed)
  /\ Begin(t, {"freeze"})
  /\ UNCHANGED clockVars

FreezeStore(t) ==
  /\ Goto(t, "freezeStore", "freezeFlag")
  /\ frozenElapsed' = reg[t]
  /\ UNCHANGED <<elapsed, offset, frozen, reg>>
  /\ Within(t)

FreezeFlag(t) ==
  /\ Goto(t, "freezeFlag", "idle")
  /\ frozen' = TRUE
  /\ Hold(t, 0)
  /\ UNCHANGED <<elapsed, offset, frozenElapsed>>
  /\ Within(t)

-----------------------------------------------------------------------------
(* resume: flip the flag, then roll what the freeze skipped into the       *)
(* offset.  Between the two the clock runs with the freeze unaccounted.    *)

ResumeSwap(t) ==
  /\ Goto(t, "idle", IF frozen THEN "resumeMeasure" ELSE "idle")
  /\ frozen' = FALSE
  /\ IF frozen THEN Begin(t, {"resume"}) ELSE UNCHANGED historyVars
  /\ UNCHANGED <<elapsed, offset, frozenElapsed, reg>>

ResumeMeasure(t) ==
  /\ Goto(t, "resumeMeasure", "resumeLoad")
  /\ Hold(t, elapsed)
  /\ UNCHANGED clockVars
  /\ Within(t)

ResumeLoad(t) ==
  /\ Goto(t, "resumeLoad", "resumeRoll")
  /\ Hold(t, reg[t] - frozenElapsed)
  /\ UNCHANGED clockVars
  /\ Within(t)

ResumeRollMeasured(t) ==
  /\ Goto(t, "resumeRoll", "idle")
  /\ offset' = 0 - reg[t]
  /\ Hold(t, 0)
  /\ UNCHANGED <<elapsed, frozen, frozenElapsed>>
  /\ Within(t)
ResumeRoll(t) ==
  /\ Goto(t, "resumeRoll", "idle")
  /\ offset' = offset - reg[t]
  /\ Hold(t, 0)
  /\ UNCHANGED <<elapsed, frozen, frozenElapsed>>
  /\ Within(t)

-----------------------------------------------------------------------------
(* reset: three stores.                                                    *)

ResetOffset(t) ==
  /\ Goto(t, "idle", "resetFlag")
  /\ offset' = 0
  /\ Begin(t, {"reset"})
  /\ UNCHANGED <<elapsed, frozen, frozenElapsed, reg>>

ResetFlag(t) ==
  /\ Goto(t, "resetFlag", "resetElapsed")
  /\ frozen' = FALSE
  /\ UNCHANGED <<elapsed, offset, frozenElapsed, reg>>
  /\ Within(t)

ResetElapsed(t) ==
  /\ Goto(t, "resetElapsed", "idle")
  /\ frozenElapsed' = 0
  /\ UNCHANGED <<elapsed, offset, frozen, reg>>
  /\ Within(t)

-----------------------------------------------------------------------------
(* now: the flag, the elapsed time it chooses, the offset.                 *)

NowFlag(t) ==
  /\ Goto(t, "idle", IF frozen THEN "nowFrozen" ELSE "nowRunning")
  /\ Begin(t, {})
  /\ UNCHANGED <<clockVars, reg>>

NowElapsed(t) ==
  /\ \/ Goto(t, "nowFrozen", "nowOffset") /\ Hold(t, frozenElapsed)
     \/ Goto(t, "nowRunning", "nowOffset") /\ Hold(t, elapsed)
  /\ UNCHANGED clockVars
  /\ Within(t)

\* What now() returns at its last load.
Result(t) == reg[t] + offset
NowOffset(t) ==
  /\ Goto(t, "nowOffset", "idle")
  /\ Hold(t, 0)
  /\ UNCHANGED clockVars
  /\ Within(t)

-----------------------------------------------------------------------------
\* advance is one atomic add; the open calls' entries move with it.
Advance(ms) ==
  /\ offset + ms <= MaxOffset
  /\ offset' = offset + ms
  /\ entry' = [t \in Tasks |-> IF at[t] = "idle" \/ ~(overlap[t] \subseteq {"freeze"})
                               THEN entry[t] ELSE [entry[t] EXCEPT !.virtual = @ + ms]]
  /\ UNCHANGED <<elapsed, frozen, frozenElapsed, callVars, overlap>>

Elapse ==
  /\ elapsed < MaxElapsed
  /\ elapsed' = elapsed + 1
  /\ UNCHANGED <<offset, frozen, frozenElapsed, callVars, historyVars>>

\* Clock::new, frozen_at and restore: the freeze of a clock just built captures 0.
Init ==
  /\ elapsed = 0
  /\ offset \in Restored
  /\ frozen \in BOOLEAN
  /\ frozenElapsed = 0
  /\ at = [t \in Tasks |-> "idle"]
  /\ reg = [t \in Tasks |-> 0]
  /\ overlap = [t \in Tasks |-> {}]
  /\ entry = [t \in Tasks |-> NoEntry]

Call(t) ==
  \/ FreezeMeasure(t) \/ FreezeStore(t) \/ FreezeFlag(t)
  \/ ResumeSwap(t) \/ ResumeMeasure(t) \/ ResumeLoad(t) \/ ResumeRoll(t)
  \/ ResetOffset(t) \/ ResetFlag(t) \/ ResetElapsed(t)
  \/ NowFlag(t) \/ NowElapsed(t) \/ NowOffset(t)

Next ==
  \/ \E t \in Tasks : Call(t)
  \/ \E ms \in Advances : Advance(ms)
  \/ Elapse

Spec == Init /\ [][Next]_vars

-----------------------------------------------------------------------------
(* Properties.                                                             *)

\* Every variable keeps its type, and what a freeze captured is never later than
\* the real time it was captured at: a capture is elapsed time, not virtual time.
TypeOK ==
  /\ elapsed \in 0 .. MaxElapsed
  /\ offset \in Int
  /\ frozen \in BOOLEAN
  /\ frozenElapsed \in 0 .. elapsed
  /\ \A t \in Tasks : at[t] \in {"freezeStore", "resumeLoad"} => reg[t] \in 0 .. elapsed
  /\ reg \in [Tasks -> Int]
  /\ overlap \in [Tasks -> SUBSET {"freeze", "resume", "reset"}]

\* A now() that no resume and no reset overlaps ("a concurrent now() either sees the
\* running clock or a fully-written frozen value", clock.rs:90) returns no less than
\* what the clock showed when it was called, or than what the first of the freezes then
\* under way was called at, and no more than a running clock would show at its end.
NowIsNeverStale ==
  [][\A t \in Tasks :
       NowOffset(t) /\ overlap[t] \subseteq {"freeze"} =>
         /\ \E low \in entry[t].lows : low <= Result(t)
         /\ Result(t) <= elapsed + offset]_vars

\* A freeze of a running clock, or a resume, that no other freeze, resume or reset
\* overlaps leaves virtual time where the call found it, give or take the real time
\* the call itself took and the advances made meanwhile: the freeze is not replayed
\* by the resume, and no concurrent advance is lost.
ControlKeepsTime ==
  [][\A t \in Tasks :
       ((FreezeFlag(t) /\ ~entry[t].frozen) \/ ResumeRoll(t)) /\ overlap[t] = {} =>
         /\ entry[t].virtual <= Virtual'
         /\ Virtual' <= entry[t].virtual + (elapsed - entry[t].elapsed)]_vars

\* clock.rs:87: "Stops virtual time. now() returns the same instant until resume,
\* though advance still moves it": while the flag stays up and no advance or reset
\* moves the offset, the time shown does not change.
FrozenTimeStands ==
  [][frozen /\ frozen' /\ offset' = offset => Virtual' = Virtual]_vars
=============================================================================
