------------------------------ MODULE ClockProofs ------------------------------
(***************************************************************************)
(* What the virtual clock guarantees for any number of tasks calling it at *)
(* once, though nothing but its three atomics holds the calls apart.       *)
(***************************************************************************)
EXTENDS Clock, TLAPS

Control == Freezing \cup Resuming \cup Resetting
Stages == {"idle", "nowFrozen", "nowRunning", "nowOffset"} \cup Control
Kinds == {"freeze", "resume", "reset"}

Entries == [virtual : Int, elapsed : Int, frozen : BOOLEAN, lows : SUBSET Int]
Typed ==
  /\ TypeOK
  /\ at \in [Tasks -> Stages]
  /\ entry \in [Tasks -> Entries]

Calling(t) == at[t] # "idle"

\* A now() or a freeze under way that no resume and no reset overlaps.
Clean(t) == Calling(t) /\ at[t] \notin Resuming \cup Resetting /\ overlap[t] \subseteq {"freeze"}

\* Beside a clean call only clean freezes are under way, and the flag it found
\* set stays set.
CleanTogether ==
  \A t \in Tasks : Clean(t) =>
    /\ \A u \in Tasks \ {t} : at[u] \in Control =>
         at[u] \in Freezing /\ overlap[u] \subseteq {"freeze"}
    /\ at[t] = "nowFrozen" => frozen

\* Some time the call may be told lies at or before n.
Since(t, n) == \E low \in entry[t].lows : low <= n

\* No elapsed time that a clean call may yet add the offset to is too early for it:
\* the running one, the frozen one once it shows, one still in a freeze's local.
NothingEarlier ==
  \A t \in Tasks : Clean(t) =>
    /\ Since(t, elapsed + offset)
    /\ frozen => Since(t, frozenElapsed + offset)
    /\ \A u \in Tasks : at[u] = "freezeStore" => Since(t, reg[u] + offset)
    /\ \A u \in Tasks : at[u] = "freezeFlag" => Since(t, frozenElapsed + offset)
    /\ at[t] = "nowOffset" => Since(t, reg[t] + offset)

NothingLater == \A t \in Tasks : at[t] = "nowOffset" => reg[t] <= elapsed

\* A control call that no other control call overlaps.
Alone(t) == at[t] \in Control /\ overlap[t] = {}
AloneTogether ==
  \A t \in Tasks : Calling(t) /\ overlap[t] = {} =>
    \A u \in Tasks \ {t} : at[u] \notin Control

FreezeInStep ==
  \A t \in Tasks : Alone(t) /\ at[t] \in Freezing /\ ~entry[t].frozen =>
    /\ ~frozen
    /\ entry[t].elapsed <= elapsed
    /\ entry[t].virtual = entry[t].elapsed + offset
    /\ at[t] = "freezeStore" => reg[t] = entry[t].elapsed
    /\ at[t] = "freezeFlag" => frozenElapsed = entry[t].elapsed

ResumeInStep ==
  \A t \in Tasks : Alone(t) /\ at[t] \in Resuming =>
    /\ ~frozen
    /\ entry[t].elapsed <= elapsed
    /\ entry[t].virtual = frozenElapsed + offset
    /\ at[t] = "resumeLoad" => reg[t] \in entry[t].elapsed .. elapsed
    /\ at[t] = "resumeRoll" => reg[t] + frozenElapsed \in entry[t].elapsed .. elapsed

Inv ==
  /\ Typed /\ CleanTogether /\ NothingEarlier /\ NothingLater
  /\ AloneTogether /\ FreezeInStep /\ ResumeInStep

-----------------------------------------------------------------------------
(* Steps that begin a call and steps within one.                           *)

LEMMA Disjoint ==
  /\ Freezing \cap Resuming = {} /\ Freezing \cap Resetting = {} /\ Resuming \cap Resetting = {}
  /\ \A s \in {"idle", "nowFrozen", "nowRunning", "nowOffset"} : s \notin Control
  /\ \A s \in Stages : /\ s \in Freezing => Kind(s) = {"freeze"}
                       /\ s \in Resuming => Kind(s) = {"resume"}
                       /\ s \in Resetting => Kind(s) = {"reset"}
                       /\ s \notin Control => Kind(s) = {}
<1>1. QED
  BY DEF Freezing, Resuming, Resetting, Control, Stages, Kind

LEMMA KindFacts ==
  ASSUME NEW s \in Stages
  PROVE  /\ Kind(s) \in SUBSET Kinds
         /\ s \in Control <=> Kind(s) # {}
         /\ Kind(s) \subseteq {"freeze"} <=> s \notin Resuming \cup Resetting
<1>1. QED
  BY Disjoint DEF Control, Kinds, Stages

LEMMA HoldFacts ==
  ASSUME Typed, NEW t \in Tasks, NEW v \in Int, Hold(t, v)
  PROVE  /\ reg' \in [Tasks -> Int] /\ reg'[t] = v
         /\ \A u \in Tasks \ {t} : reg'[u] = reg[u]
<1>1. QED
  BY DEF Typed, TypeOK, Hold

LEMMA WithinFacts ==
  ASSUME Typed, NEW t \in Tasks, NEW s \in Stages, at' = [at EXCEPT ![t] = s], Within(t)
  PROVE  /\ at' \in [Tasks -> Stages] /\ overlap' \in [Tasks -> SUBSET Kinds]
         /\ entry' \in [Tasks -> Entries]
         /\ at'[t] = s
         /\ s # "idle" => overlap'[t] = overlap[t] /\ entry'[t] = entry[t]
         /\ \A u \in Tasks \ {t} :
              at'[u] = at[u] /\ overlap'[u] = overlap[u] /\ entry'[u] = entry[u]
<1>1. at' \in [Tasks -> Stages] /\ at'[t] = s /\ \A u \in Tasks \ {t} : at'[u] = at[u]
  BY DEF Typed
<1>2. NoEntry \in Entries /\ overlap \in [Tasks -> SUBSET Kinds] /\ entry \in [Tasks -> Entries]
  BY DEF NoEntry, Entries, Typed, TypeOK, Kinds
<1>3. QED
  BY <1>1, <1>2 DEF Within

LEMMA VirtualIsInt == Typed => Virtual \in Int /\ Virtual <= elapsed + offset /\ elapsed \in Int
<1>1. QED
  BY ClockAssumption DEF Typed, TypeOK, Virtual

LEMMA BeginFacts ==
  ASSUME Typed, NEW t \in Tasks, NEW kind \in SUBSET Kinds, Begin(t, kind)
  PROVE  /\ overlap' \in [Tasks -> SUBSET Kinds] /\ entry' \in [Tasks -> Entries]
         /\ \A k : k \in overlap'[t] <=>
              \E v \in Tasks \ {t} : at[v] \in Control /\ k \in Kind(at[v]) \cup overlap[v]
         /\ entry'[t].virtual = Virtual /\ entry'[t].elapsed = elapsed
         /\ entry'[t].frozen = frozen /\ entry'[t].lows = Pinnable(t)
         /\ \A u \in Tasks \ {t} :
              /\ overlap'[u] = IF at[u] = "idle" THEN {} ELSE overlap[u] \cup kind
              /\ overlap'[u] \subseteq {"freeze"} => entry'[u] = entry[u]
<1> DEFINE control == {u \in Tasks \ {t} : Kind(at[u]) # {}}
           mine == UNION {Kind(at[v]) \cup overlap[v] : v \in control}
<1>1. at \in [Tasks -> Stages] /\ overlap \in [Tasks -> SUBSET Kinds] /\ entry \in [Tasks -> Entries]
  BY DEF Typed, TypeOK, Kinds
<1>2. control = {u \in Tasks \ {t} : at[u] \in Control}
  BY <1>1, KindFacts
<1>3. mine \subseteq Kinds
  BY <1>1, KindFacts
<1>4. \A k : k \in mine <=>
        \E v \in Tasks \ {t} : at[v] \in Control /\ k \in Kind(at[v]) \cup overlap[v]
  BY <1>2
<1>5. /\ overlap' = [u \in Tasks |-> IF u = t THEN mine
                                     ELSE IF at[u] = "idle" THEN {} ELSE overlap[u] \cup kind]
      /\ entry' = [u \in Tasks |->
           IF u = t THEN [virtual |-> Virtual, elapsed |-> elapsed, frozen |-> frozen,
                          lows |-> Pinnable(t)]
           ELSE IF overlap'[u] \subseteq {"freeze"} THEN entry[u] ELSE NoEntry]
  BY DEF Begin
<1>6. Pinnable(t) \in SUBSET Int
  BY <1>1, VirtualIsInt DEF Pinnable, Entries
<1>7. /\ [virtual |-> Virtual, elapsed |-> elapsed, frozen |-> frozen, lows |-> Pinnable(t)] \in Entries
      /\ NoEntry \in Entries
  BY <1>6, VirtualIsInt DEF Entries, NoEntry, Typed, TypeOK
<1> HIDE DEF mine, control
<1>8. overlap' \in [Tasks -> SUBSET Kinds] /\ overlap'[t] = mine
  BY <1>1, <1>3, <1>5
<1>9. entry' \in [Tasks -> Entries]
  BY <1>1, <1>5, <1>7
<1>10. /\ entry'[t].virtual = Virtual /\ entry'[t].elapsed = elapsed
       /\ entry'[t].frozen = frozen /\ entry'[t].lows = Pinnable(t)
  BY <1>5
<1>11. \A u \in Tasks \ {t} :
              /\ overlap'[u] = IF at[u] = "idle" THEN {} ELSE overlap[u] \cup kind
              /\ overlap'[u] \subseteq {"freeze"} => entry'[u] = entry[u]
  BY <1>5
<1>12. QED
  BY <1>4, <1>8, <1>9, <1>10, <1>11

LEMMA BeginOthers ==
  ASSUME Typed, NEW t \in Tasks, NEW kind \in SUBSET Kinds, Begin(t, kind),
         NEW u \in Tasks \ {t}
  PROVE  /\ overlap'[u] = IF at[u] = "idle" THEN {} ELSE overlap[u] \cup kind
         /\ overlap'[u] \subseteq {"freeze"} => entry'[u] = entry[u]
<1>1. QED
  BY BeginFacts

\* A call that begins clean found only clean freezes under way, and one that begins
\* alone found no control call at all.
LEMMA BeginApart ==
  ASSUME Typed, NEW t \in Tasks, NEW kind \in SUBSET Kinds, Begin(t, kind)
  PROVE  /\ overlap'[t] \subseteq {"freeze"} => \A u \in Tasks \ {t} : at[u] \in Control =>
              at[u] \in Freezing /\ overlap[u] \subseteq {"freeze"}
         /\ overlap'[t] = {} => \A u \in Tasks \ {t} : at[u] \notin Control
<1>1. \A k : k \in overlap'[t] <=>
        \E v \in Tasks \ {t} : at[v] \in Control /\ k \in Kind(at[v]) \cup overlap[v]
  BY BeginFacts
<1>2. \A u \in Tasks : at[u] \in Stages
  BY DEF Typed
<1>3. \A u \in Tasks : at[u] \in Control => Kind(at[u]) # {}
  BY <1>2, KindFacts
<1>4. \A u \in Tasks : at[u] \in Control /\ Kind(at[u]) \subseteq {"freeze"} => at[u] \in Freezing
  BY <1>2, KindFacts DEF Control
<1>5. QED
  BY <1>1, <1>3, <1>4

-----------------------------------------------------------------------------
(* Who may be under way beside whom.                                       *)

LEMMA TogetherBegin ==
  ASSUME Inv, NEW t \in Tasks, NEW s \in Stages,
         at' = [at EXCEPT ![t] = s], Begin(t, Kind(s)),
         frozen' = frozen \/ s \in Resuming, s = "nowFrozen" => frozen'
  PROVE  CleanTogether' /\ AloneTogether'
<1>1. PICK kind \in SUBSET Kinds :
        /\ Begin(t, kind)
        /\ s \in Control <=> kind # {}
        /\ kind \subseteq {"freeze"} <=> s \notin Resuming \cup Resetting
  BY KindFacts
<1>2. Typed /\ CleanTogether /\ AloneTogether
  BY DEF Inv
<1>3. at'[t] = s /\ \A u \in Tasks \ {t} : at'[u] = at[u] /\ at[u] \in Stages
  BY <1>2 DEF Typed
<1>4. /\ \A k : k \in overlap'[t] <=>
           \E v \in Tasks \ {t} : at[v] \in Control /\ k \in Kind(at[v]) \cup overlap[v]
      /\ \A u \in Tasks \ {t} :
           overlap'[u] = IF at[u] = "idle" THEN {} ELSE overlap[u] \cup kind
  <2>1. Typed /\ Begin(t, kind)
    BY <1>1, <1>2
  <2>2. \A k : k \in overlap'[t] <=>
           \E v \in Tasks \ {t} : at[v] \in Control /\ k \in Kind(at[v]) \cup overlap[v]
    BY ONLY <2>1, BeginFacts, t \in Tasks, kind \in SUBSET Kinds
  <2>3. ASSUME NEW u \in Tasks \ {t}
        PROVE overlap'[u] = IF at[u] = "idle" THEN {} ELSE overlap[u] \cup kind
    BY <2>1, BeginOthers
  <2>4. QED
    BY <2>2, <2>3
<1>5. /\ overlap'[t] \subseteq {"freeze"} => \A u \in Tasks \ {t} : at[u] \in Control =>
           at[u] \in Freezing /\ overlap[u] \subseteq {"freeze"}
      /\ overlap'[t] = {} => \A u \in Tasks \ {t} : at[u] \notin Control
  BY <1>1, <1>2, BeginApart
<1>6. "idle" \notin Control
  BY Disjoint
<1>7. ASSUME NEW x \in Tasks, Clean(x)', NEW u \in Tasks \ {x}, at'[u] \in Control
      PROVE  at'[u] \in Freezing /\ overlap'[u] \subseteq {"freeze"}
  <2>0. /\ at'[x] # "idle" /\ at'[x] \notin Resuming \cup Resetting
        /\ overlap'[x] \subseteq {"freeze"}
    BY <1>7 DEF Clean, Calling
  <2>1. CASE x = t
    <3>1. at[u] \in Freezing /\ overlap[u] \subseteq {"freeze"} /\ kind \subseteq {"freeze"}
      BY <1>1, <1>3, <1>5, <1>7, <2>0, <2>1
    <3>2. QED
      BY <1>3, <1>4, <1>7, <2>1, <3>1
  <2>2. CASE x # t
    <3>1. at'[x] = at[x] /\ overlap'[x] = overlap[x] \cup kind
      BY <1>3, <1>4, <2>0, <2>2
    <3>2. kind \subseteq {"freeze"} /\ Clean(x)
      BY <2>0, <3>1 DEF Clean, Calling
    <3>3. \A v \in Tasks \ {x} : at[v] \in Control =>
            at[v] \in Freezing /\ overlap[v] \subseteq {"freeze"}
      BY <1>2, <3>2 DEF CleanTogether
    <3>4. CASE u # t
      BY <1>3, <1>4, <1>7, <3>2, <3>3, <3>4
    <3>5. CASE u = t
      <4>1. s \in Freezing
        BY <1>1, <1>3, <1>7, <3>2, <3>5 DEF Control
      <4>2. \A v \in Tasks \ {t} : at[v] \in Control =>
              Kind(at[v]) \subseteq {"freeze"} /\ overlap[v] \subseteq {"freeze"}
        <5>1. ASSUME NEW v \in Tasks \ {t}, at[v] \in Control
              PROVE  at[v] \notin Resuming \cup Resetting /\ overlap[v] \subseteq {"freeze"}
          <6>1. CASE v = x
            BY <2>0, <3>1, <6>1
          <6>2. CASE v # x
            BY <3>3, <5>1, <6>2, Disjoint
          <6>3. QED
            BY <6>1, <6>2
        <5>2. QED
          BY <1>3, <5>1, KindFacts
      <4>3. QED
        BY <1>3, <1>4, <3>5, <4>1, <4>2
    <3>6. QED
      BY <3>4, <3>5
  <2>3. QED
    BY <2>1, <2>2
<1>8. ASSUME NEW x \in Tasks, Clean(x)', at'[x] = "nowFrozen" PROVE frozen'
  <2>1. CASE x = t
    BY <1>3, <1>8, <2>1
  <2>2. CASE x # t
    <3>1. overlap'[x] \subseteq {"freeze"} /\ at[x] = "nowFrozen"
      BY <1>3, <1>8, <2>2 DEF Clean
    <3>2. kind \subseteq {"freeze"} /\ overlap[x] \subseteq {"freeze"}
      BY <1>4, <2>2, <3>1
    <3>3. frozen' = frozen
      BY <1>1, <3>2
    <3>4. Clean(x)
      BY <3>1, <3>2 DEF Clean, Calling, Resuming, Resetting
    <3>5. QED
      BY <1>2, <3>1, <3>3, <3>4 DEF CleanTogether
  <2>3. QED
    BY <2>1, <2>2
<1>9. ASSUME NEW x \in Tasks, Calling(x)', overlap'[x] = {}, NEW u \in Tasks \ {x}
      PROVE  at'[u] \notin Control
  <2>1. CASE x = t
    BY <1>3, <1>5, <1>9, <2>1
  <2>2. CASE x # t
    <3>1. Calling(x) /\ overlap[x] = {} /\ kind = {}
      BY <1>3, <1>4, <1>9, <2>2 DEF Calling
    <3>2. at[u] \notin Control
      BY <1>2, <3>1 DEF AloneTogether
    <3>3. QED
      BY <1>1, <1>3, <3>1, <3>2
  <2>3. QED
    BY <2>1, <2>2
<1>10. QED
  BY <1>7, <1>8, <1>9 DEF CleanTogether, AloneTogether

\* A step within a call keeps the call's kind, and only a reset takes the flag down.
LEMMA TogetherWithin ==
  ASSUME Inv, NEW t \in Tasks, NEW s \in Stages,
         at' = [at EXCEPT ![t] = s], Within(t),
         \/ s = "idle"
         \/ s = "nowOffset" /\ at[t] \in {"nowFrozen", "nowRunning"}
         \/ s \in Freezing /\ at[t] \in Freezing
         \/ s \in Resuming \cup Resetting /\ at[t] \in Resuming \cup Resetting,
         frozen' = frozen \/ frozen' = TRUE \/ at[t] \in Resetting
  PROVE  CleanTogether' /\ AloneTogether'
<1>1. Typed /\ CleanTogether /\ AloneTogether
  BY DEF Inv
<1>2. /\ at'[t] = s
      /\ s # "idle" => overlap'[t] = overlap[t]
      /\ \A u \in Tasks \ {t} : at'[u] = at[u] /\ overlap'[u] = overlap[u]
  BY <1>1, WithinFacts
<1>3. /\ s \in Control => at[t] \in Control /\ (at[t] \in Freezing => s \in Freezing)
      /\ s # "idle" => at[t] # "idle"
      /\ s # "idle" /\ s \notin Resuming \cup Resetting => at[t] \notin Resuming \cup Resetting
      /\ s # "nowFrozen" /\ "idle" \notin Control
  BY Disjoint DEF Control, Freezing, Resuming, Resetting
<1>4. \A x \in Tasks : Clean(x)' => Clean(x) /\ overlap'[x] = overlap[x]
  BY <1>2, <1>3 DEF Clean, Calling
<1>5. \A u \in Tasks : at'[u] \in Control =>
        /\ at[u] \in Control /\ overlap'[u] = overlap[u]
        /\ at[u] \in Freezing => at'[u] \in Freezing
  BY <1>2, <1>3
<1>6. \A x \in Tasks : \A u \in Tasks \ {x} : Clean(x)' /\ at'[u] \in Control =>
        at'[u] \in Freezing /\ overlap'[u] \subseteq {"freeze"}
  BY <1>1, <1>4, <1>5 DEF CleanTogether
<1>7. ASSUME NEW x \in Tasks, Clean(x)', at'[x] = "nowFrozen" PROVE frozen'
  <2>1. x # t /\ at[x] = "nowFrozen" /\ Clean(x)
    BY <1>2, <1>3, <1>4, <1>7
  <2>2. frozen /\ (at[t] \in Control => at[t] \in Freezing)
    BY <1>1, <2>1 DEF CleanTogether
  <2>3. at[t] \notin Resetting
    BY <2>2, Disjoint DEF Control
  <2>4. QED
    BY <2>2, <2>3
<1>8. \A x \in Tasks : \A u \in Tasks \ {x} : Calling(x)' /\ overlap'[x] = {} => at'[u] \notin Control
  <2>1. \A x \in Tasks : Calling(x)' => Calling(x) /\ overlap'[x] = overlap[x]
    BY <1>2, <1>3 DEF Calling
  <2>2. QED
    BY <1>1, <1>5, <2>1 DEF AloneTogether
<1>9. QED
  BY <1>6, <1>7, <1>8 DEF CleanTogether, AloneTogether

-----------------------------------------------------------------------------
(* Types.                                                                  *)

LEMMA ClockTypes ==
  Typed => /\ elapsed \in Nat /\ elapsed \in Int /\ offset \in Int /\ frozen \in BOOLEAN
           /\ frozenElapsed \in 0 .. elapsed /\ frozenElapsed \in Int
           /\ \A t \in Tasks : /\ reg[t] \in Int /\ at[t] \in Stages
                               /\ entry[t].virtual \in Int /\ entry[t].elapsed \in Int
                               /\ entry[t].frozen \in BOOLEAN /\ entry[t].lows \subseteq Int
                               /\ overlap[t] \subseteq Kinds
<1>1. QED
  BY ClockAssumption DEF Typed, TypeOK, Entries, Kinds

LEMMA ClockTypeInit == Init => Typed
<1>1. NoEntry \in Entries
  BY DEF NoEntry, Entries
<1>2. QED
  BY <1>1, ClockAssumption DEF Init, Typed, TypeOK, Stages, Kinds

\* A step whose locals and captures stay elapsed times of the past keeps the types.
LEMMA TypedStep ==
  ASSUME at' \in [Tasks -> Stages], overlap' \in [Tasks -> SUBSET Kinds],
         entry' \in [Tasks -> Entries], reg' \in [Tasks -> Int],
         elapsed' \in 0 .. MaxElapsed, offset' \in Int, frozen' \in BOOLEAN,
         frozenElapsed' \in 0 .. elapsed',
         \A t \in Tasks : at'[t] \in {"freezeStore", "resumeLoad"} => reg'[t] \in 0 .. elapsed'
  PROVE  Typed'
<1>1. QED
  BY DEF Typed, TypeOK, Kinds

LEMMA BeginTyped ==
  ASSUME Typed, NEW t \in Tasks, NEW s \in Stages,
         at' = [at EXCEPT ![t] = s], Begin(t, Kind(s)),
         elapsed' = elapsed, frozenElapsed' = frozenElapsed, offset' \in Int, frozen' \in BOOLEAN,
         (s = "freezeStore" /\ Hold(t, elapsed)) \/ (s \notin {"freezeStore", "resumeLoad"} /\ reg' = reg)
  PROVE  Typed'
<1>1. overlap' \in [Tasks -> SUBSET Kinds] /\ entry' \in [Tasks -> Entries]
  BY KindFacts, BeginFacts
<1>2. at' \in [Tasks -> Stages] /\ at'[t] = s /\ \A u \in Tasks \ {t} : at'[u] = at[u]
  BY DEF Typed
<1>3. /\ elapsed \in 0 .. MaxElapsed /\ elapsed \in Int /\ elapsed \in 0 .. elapsed
      /\ reg \in [Tasks -> Int]
      /\ frozenElapsed \in 0 .. elapsed
      /\ \A u \in Tasks : at[u] \in {"freezeStore", "resumeLoad"} => reg[u] \in 0 .. elapsed
  BY ClockAssumption DEF Typed, TypeOK
<1>4. /\ reg' \in [Tasks -> Int] /\ \A u \in Tasks \ {t} : reg'[u] = reg[u]
      /\ s \in {"freezeStore", "resumeLoad"} => reg'[t] \in 0 .. elapsed
  BY <1>3, HoldFacts
<1>5. \A u \in Tasks : at'[u] \in {"freezeStore", "resumeLoad"} => reg'[u] \in 0 .. elapsed'
  BY <1>2, <1>3, <1>4
<1>6. QED
  BY <1>1, <1>2, <1>3, <1>4, <1>5, TypedStep

LEMMA WithinTyped ==
  ASSUME Typed, NEW t \in Tasks, NEW s \in Stages, NEW v \in Int,
         at' = [at EXCEPT ![t] = s], Within(t), Hold(t, v) \/ reg' = reg,
         s \in {"freezeStore", "resumeLoad"} => Hold(t, v) /\ v \in 0 .. elapsed,
         elapsed' = elapsed, frozenElapsed' \in 0 .. elapsed, offset' \in Int, frozen' \in BOOLEAN
  PROVE  Typed'
<1>1. /\ at' \in [Tasks -> Stages] /\ overlap' \in [Tasks -> SUBSET Kinds]
      /\ entry' \in [Tasks -> Entries]
      /\ at'[t] = s /\ \A u \in Tasks \ {t} : at'[u] = at[u]
  BY WithinFacts
<1>2. /\ elapsed \in 0 .. MaxElapsed /\ reg \in [Tasks -> Int]
      /\ \A u \in Tasks : at[u] \in {"freezeStore", "resumeLoad"} => reg[u] \in 0 .. elapsed
  BY DEF Typed, TypeOK
<1>3. /\ reg' \in [Tasks -> Int] /\ \A u \in Tasks \ {t} : reg'[u] = reg[u]
      /\ s \in {"freezeStore", "resumeLoad"} => reg'[t] \in 0 .. elapsed
  BY <1>2, HoldFacts
<1>4. \A u \in Tasks : at'[u] \in {"freezeStore", "resumeLoad"} => reg'[u] \in 0 .. elapsed'
  BY <1>1, <1>2, <1>3
<1>5. QED
  BY <1>1, <1>2, <1>3, <1>4, TypedStep

-----------------------------------------------------------------------------
(* Which steps leave a part of the invariant without anyone it speaks of.  *)

\* A resume or a reset that begins spoils every call under way.
LEMMA BeginSpoils ==
  ASSUME Inv, NEW t \in Tasks, NEW s \in Resuming \cup Resetting,
         at' = [at EXCEPT ![t] = s], Begin(t, Kind(s))
  PROVE  \A x \in Tasks : ~Clean(x)'
<1>0. s \in Stages /\ Typed
  BY DEF Inv, Stages, Control
<1>1. PICK kind \in SUBSET Kinds :
        Begin(t, kind) /\ ~(kind \subseteq {"freeze"})
  BY <1>0, KindFacts
<1>2. at'[t] = s /\ \A u \in Tasks \ {t} : at'[u] = at[u]
  BY <1>0 DEF Typed
<1>3. ASSUME NEW u \in Tasks \ {t}
      PROVE  overlap'[u] = IF at[u] = "idle" THEN {} ELSE overlap[u] \cup kind
  BY <1>0, <1>1, BeginOthers
<1>4. QED
  BY <1>1, <1>2, <1>3 DEF Clean, Calling

\* Beside a control call that begins no other is alone.
LEMMA BeginAccompanied ==
  ASSUME Inv, NEW t \in Tasks, NEW s \in Control, at' = [at EXCEPT ![t] = s], Begin(t, Kind(s))
  PROVE  \A x \in Tasks \ {t} : ~Alone(x)'
<1>0. s \in Stages /\ Typed
  BY DEF Inv, Stages
<1>1. PICK kind \in SUBSET Kinds : Begin(t, kind) /\ kind # {}
  BY <1>0, KindFacts
<1>2. \A u \in Tasks \ {t} : at'[u] = at[u]
  BY <1>0 DEF Typed
<1>3. ASSUME NEW u \in Tasks \ {t}
      PROVE  overlap'[u] = IF at[u] = "idle" THEN {} ELSE overlap[u] \cup kind
  BY <1>0, <1>1, BeginOthers
<1>4. "idle" \notin Control
  BY Disjoint
<1>5. QED
  BY <1>1, <1>2, <1>3, <1>4 DEF Alone

\* Within a resume or a reset nobody else is clean.
LEMMA WithinSpoiled ==
  ASSUME Inv, NEW t \in Tasks, NEW s \in Resuming \cup Resetting \cup {"idle"},
         at[t] \in Resuming \cup Resetting, at' = [at EXCEPT ![t] = s], Within(t)
  PROVE  \A x \in Tasks : ~Clean(x)'
<1>1. s \in Stages /\ Typed /\ CleanTogether
  BY DEF Inv, Stages, Control
<1>2. /\ at'[t] = s
      /\ \A u \in Tasks \ {t} : at'[u] = at[u] /\ overlap'[u] = overlap[u]
  BY <1>1, WithinFacts
<1>3. \A x \in Tasks \ {t} : ~Clean(x)
  <2>1. at[t] \in Control /\ at[t] \notin Freezing
    BY Disjoint DEF Control
  <2>2. QED
    BY <1>1, <2>1 DEF CleanTogether
<1>4. ~Clean(t)'
  BY <1>2 DEF Clean, Calling
<1>5. QED
  BY <1>2, <1>3, <1>4 DEF Clean, Calling

\* Within a control call no other one is alone.
LEMMA WithinApart ==
  ASSUME Inv, NEW t \in Tasks, NEW s \in Stages,
         at[t] \in Control, at' = [at EXCEPT ![t] = s], Within(t)
  PROVE  \A x \in Tasks \ {t} : ~Alone(x)'
<1>1. Typed /\ AloneTogether /\ "idle" \notin Control
  BY Disjoint DEF Inv
<1>2. \A u \in Tasks \ {t} : at'[u] = at[u] /\ overlap'[u] = overlap[u]
  BY <1>1, WithinFacts
<1>3. QED
  BY <1>1, <1>2 DEF Alone, AloneTogether, Calling

-----------------------------------------------------------------------------
(* No time too early.                                                      *)

LEMMA SinceLater ==
  ASSUME Typed, NEW t \in Tasks, NEW m \in Int, NEW n \in Int, m <= n, Since(t, m)
  PROVE  Since(t, n)
<1>1. QED
  BY ClockTypes DEF Since

\* A now() or a freeze begins: it starts from the time shown, or from where the
\* freezes it finds started.
LEMMA EarlierBegin ==
  ASSUME Inv, NEW t \in Tasks, NEW s \in {"freezeStore", "nowFrozen", "nowRunning"},
         at' = [at EXCEPT ![t] = s], Begin(t, Kind(s)), UNCHANGED clockVars,
         (s = "freezeStore" /\ Hold(t, elapsed)) \/ (s # "freezeStore" /\ reg' = reg)
  PROVE  NothingEarlier'
<1>0. Typed /\ CleanTogether /\ NothingEarlier /\ s \in Stages /\ at[t] \in Stages
  BY ClockTypes DEF Inv, Stages, Control, Freezing
<1>1. PICK kind \in SUBSET Kinds : Begin(t, kind)
  BY <1>0, KindFacts
<1>2. /\ at'[t] = s /\ \A u \in Tasks \ {t} : at'[u] = at[u] /\ reg'[u] = reg[u]
      /\ s = "freezeStore" => reg'[t] = elapsed
  BY <1>0, ClockTypes, HoldFacts DEF Typed
<1>3. /\ offset' = offset /\ elapsed' = elapsed /\ frozen' = frozen
      /\ frozenElapsed' = frozenElapsed
  BY DEF clockVars
<1> DEFINE After(x, n) == \E low \in entry'[x].lows : low <= n
<1>4. ASSUME NEW x \in Tasks, Clean(x)'
      PROVE  /\ After(x, elapsed + offset)
             /\ frozen => After(x, frozenElapsed + offset)
             /\ \A u \in Tasks \ {t} : at[u] = "freezeStore" => After(x, reg[u] + offset)
             /\ \A u \in Tasks \ {t} : at[u] = "freezeFlag" => After(x, frozenElapsed + offset)
             /\ x # t /\ at[x] = "nowOffset" => After(x, reg[x] + offset)
  <2>1. CASE x # t
    <3>1. at'[x] = at[x] /\ overlap'[x] = IF at[x] = "idle" THEN {} ELSE overlap[x] \cup kind
      BY <1>0, <1>1, <1>2, <2>1, BeginFacts
    <3>2. Clean(x) /\ overlap'[x] \subseteq {"freeze"}
      BY <1>4, <3>1 DEF Clean, Calling
    <3>3. entry'[x] = entry[x]
      BY <1>0, <1>1, <2>1, <3>2, BeginFacts
    <3>4. /\ Since(x, elapsed + offset)
          /\ frozen => Since(x, frozenElapsed + offset)
          /\ \A u \in Tasks : at[u] = "freezeStore" => Since(x, reg[u] + offset)
          /\ \A u \in Tasks : at[u] = "freezeFlag" => Since(x, frozenElapsed + offset)
          /\ at[x] = "nowOffset" => Since(x, reg[x] + offset)
      BY <1>0, <3>2 DEF NothingEarlier
    <3>5. QED
      BY <2>1, <3>3, <3>4 DEF Since
  <2>2. CASE x = t
    <3>1. overlap'[t] \subseteq {"freeze"}
      BY <1>4, <2>2 DEF Clean
    <3>2. \A u \in Tasks \ {t} : at[u] \in Control =>
            at[u] \in Freezing /\ overlap[u] \subseteq {"freeze"}
      BY <1>0, <1>1, <3>1, BeginApart
    <3>3. entry'[t].lows = Pinnable(t)
      BY <1>0, <1>1, BeginFacts
    <3>4. CASE \A u \in Tasks \ {t} : at[u] \notin Freezing
      <4>1. {u \in Tasks \ {t} : at[u] \in Freezing} = {}
        BY <3>4
      <4>2. After(t, Virtual)
        BY <1>0, <3>3, <4>1, VirtualIsInt DEF Pinnable
      <4>3. /\ Virtual \in Int /\ Virtual <= elapsed + offset
            /\ frozen => Virtual = frozenElapsed + offset
        BY <1>0, VirtualIsInt DEF Virtual
      <4>4. After(t, elapsed + offset)
        BY <1>0, <1>1, <4>2, <4>3, BeginFacts, ClockTypes DEF Entries
      <4>5. QED
        BY <2>2, <3>4, <4>2, <4>3, <4>4 DEF Freezing
    <3>5. CASE \E u \in Tasks \ {t} : at[u] \in Freezing
      <4>1. PICK v \in Tasks \ {t} : at[v] \in Freezing
        BY <3>5
      <4>2. Clean(v)
        BY <3>2, <4>1, Disjoint DEF Clean, Calling, Control
      <4>3. entry[v].lows \subseteq entry'[t].lows
        BY <3>3, <4>1 DEF Pinnable
      <4>4. /\ Since(v, elapsed + offset)
            /\ frozen => Since(v, frozenElapsed + offset)
            /\ \A u \in Tasks : at[u] = "freezeStore" => Since(v, reg[u] + offset)
            /\ \A u \in Tasks : at[u] = "freezeFlag" => Since(v, frozenElapsed + offset)
        BY <1>0, <4>2 DEF NothingEarlier
      <4>5. QED
        BY <2>2, <4>3, <4>4 DEF Since
    <3>6. QED
      BY <3>4, <3>5
  <2>3. QED
    BY <2>1, <2>2
<1>5. ASSUME NEW x \in Tasks, Clean(x)'
      PROVE  /\ After(x, elapsed' + offset')
             /\ frozen' => After(x, frozenElapsed' + offset')
             /\ \A u \in Tasks : at'[u] = "freezeStore" => After(x, reg'[u] + offset')
             /\ \A u \in Tasks : at'[u] = "freezeFlag" => After(x, frozenElapsed' + offset')
             /\ at'[x] = "nowOffset" => After(x, reg'[x] + offset')
  BY <1>2, <1>3, <1>4, <1>5
<1>6. QED
  BY <1>5 DEF NothingEarlier, Since

\* A freeze stores an elapsed time that is early for nobody, and then shows it; a
\* now() loads one that is not.
LEMMA EarlierWithin ==
  ASSUME Inv, NEW t \in Tasks, FreezeStore(t) \/ FreezeFlag(t) \/ NowElapsed(t) \/ NowOffset(t)
  PROVE  NothingEarlier'
<1>0. Typed /\ CleanTogether /\ NothingEarlier
  BY DEF Inv
<1>1. PICK s \in Stages :
        /\ at' = [at EXCEPT ![t] = s] /\ Within(t) /\ at[t] # "idle"
        /\ at[t] \notin Resuming \cup Resetting /\ s \notin {"freezeStore", "nowFrozen"}
  BY DEF FreezeStore, FreezeFlag, NowElapsed, NowOffset, Goto, Stages, Control, Freezing,
         Resuming, Resetting
<1>2. /\ at'[t] = s
      /\ s # "idle" => overlap'[t] = overlap[t] /\ entry'[t] = entry[t]
      /\ \A u \in Tasks \ {t} :
           at'[u] = at[u] /\ overlap'[u] = overlap[u] /\ entry'[u] = entry[u]
  BY <1>0, <1>1, WithinFacts
<1>3. /\ offset' = offset /\ elapsed' = elapsed /\ \A u \in Tasks \ {t} : reg'[u] = reg[u]
      /\ frozen' = frozen \/ (at[t] = "freezeFlag" /\ frozen' = TRUE)
      /\ frozenElapsed' = frozenElapsed \/ (at[t] = "freezeStore" /\ frozenElapsed' = reg[t])
      /\ at'[t] = "freezeFlag" => frozenElapsed' = reg[t] /\ at[t] = "freezeStore"
      /\ at'[t] = "nowOffset" => \/ at[t] = "nowFrozen" /\ reg'[t] = frozenElapsed
                                 \/ at[t] = "nowRunning" /\ reg'[t] = elapsed
  BY <1>0 DEF FreezeStore, FreezeFlag, NowElapsed, NowOffset, Goto, Hold, clockVars, Typed, TypeOK
<1>4. ASSUME NEW x \in Tasks, Clean(x)'
      PROVE  Clean(x) /\ entry'[x] = entry[x] /\ (at'[x] = "nowFrozen" => at[x] = "nowFrozen")
  BY <1>1, <1>2, <1>3, <1>4 DEF Clean, Calling
<1>5. ASSUME NEW x \in Tasks, Clean(x)'
      PROVE  /\ Since(x, elapsed' + offset')
             /\ frozen' => Since(x, frozenElapsed' + offset')
             /\ \A u \in Tasks : at'[u] = "freezeStore" => Since(x, reg'[u] + offset')
             /\ \A u \in Tasks : at'[u] = "freezeFlag" => Since(x, frozenElapsed' + offset')
             /\ at'[x] = "nowOffset" => Since(x, reg'[x] + offset')
  <2>1. /\ Since(x, elapsed + offset)
        /\ frozen => Since(x, frozenElapsed + offset)
        /\ \A u \in Tasks : at[u] = "freezeStore" => Since(x, reg[u] + offset)
        /\ \A u \in Tasks : at[u] = "freezeFlag" => Since(x, frozenElapsed + offset)
        /\ at[x] = "nowOffset" => Since(x, reg[x] + offset)
        /\ at[x] = "nowFrozen" => frozen
    BY <1>0, <1>4, <1>5 DEF NothingEarlier, CleanTogether
  <2>2. frozen' => Since(x, frozenElapsed' + offset')
    BY <1>3, <2>1
  <2>3. \A u \in Tasks : at'[u] = "freezeStore" => Since(x, reg'[u] + offset')
    BY <1>1, <1>2, <1>3, <2>1
  <2>4. \A u \in Tasks : at'[u] = "freezeFlag" => Since(x, frozenElapsed' + offset')
    BY <1>2, <1>3, <2>1
  <2>5. at'[x] = "nowOffset" => Since(x, reg'[x] + offset')
    BY <1>2, <1>3, <2>1
  <2>6. QED
    BY <1>3, <2>1, <2>2, <2>3, <2>4, <2>5
<1>6. QED
  BY <1>4, <1>5 DEF NothingEarlier, Since

LEMMA EarlierNobody ==
  ASSUME \A x \in Tasks : ~Clean(x)'
  PROVE  NothingEarlier'
<1>1. QED
  BY DEF NothingEarlier

-----------------------------------------------------------------------------
(* A control call that is alone keeps time.                                *)

AloneInStep == NothingLater /\ FreezeInStep /\ ResumeInStep

\* What the parts of a call that is alone read: its own locals and history, and the clock.
LEMMA AloneOne ==
  ASSUME Inv, NEW t \in Tasks, \A x \in Tasks \ {t} : ~Alone(x)',
         \A x \in Tasks : at'[x] = "nowOffset" => reg'[x] <= elapsed',
         Alone(t)' /\ at'[t] \in Freezing /\ ~entry'[t].frozen =>
           /\ ~frozen'
           /\ entry'[t].elapsed <= elapsed'
           /\ entry'[t].virtual = entry'[t].elapsed + offset'
           /\ at'[t] = "freezeStore" => reg'[t] = entry'[t].elapsed
           /\ at'[t] = "freezeFlag" => frozenElapsed' = entry'[t].elapsed,
         Alone(t)' /\ at'[t] \in Resuming =>
           /\ ~frozen'
           /\ entry'[t].elapsed <= elapsed'
           /\ entry'[t].virtual = frozenElapsed' + offset'
           /\ at'[t] = "resumeLoad" => reg'[t] \in entry'[t].elapsed .. elapsed'
           /\ at'[t] = "resumeRoll" => reg'[t] + frozenElapsed' \in entry'[t].elapsed .. elapsed'
  PROVE  AloneInStep'
<1>1. QED
  BY DEF AloneInStep, NothingLater, FreezeInStep, ResumeInStep

LEMMA AloneAtBegin ==
  ASSUME Inv, NEW t \in Tasks, NEW s \in Control, at' = [at EXCEPT ![t] = s], Begin(t, Kind(s)),
         elapsed' = elapsed, frozenElapsed' = frozenElapsed,
         \/ s = "freezeStore" /\ Hold(t, elapsed) /\ frozen' = frozen /\ offset' = offset
         \/ s = "resumeMeasure" /\ frozen /\ frozen' = FALSE /\ reg' = reg /\ offset' = offset
         \/ s = "resetFlag" /\ reg' = reg
  PROVE  AloneInStep'
<1>0. Typed /\ NothingLater /\ s \in Stages /\ s # "nowOffset"
  BY Disjoint DEF Inv, Stages
<1>1. \A x \in Tasks \ {t} : ~Alone(x)'
  BY BeginAccompanied
<1>2. PICK kind \in SUBSET Kinds : Begin(t, kind)
  BY <1>0, KindFacts
<1>3. /\ entry'[t].virtual = Virtual /\ entry'[t].elapsed = elapsed
      /\ entry'[t].frozen = frozen
  BY ONLY <1>0, <1>2, BeginFacts, t \in Tasks, kind \in SUBSET Kinds
<1>4. at'[t] = s /\ \A u \in Tasks \ {t} : at'[u] = at[u] /\ reg'[u] = reg[u]
  BY <1>0, ClockTypes, HoldFacts DEF Typed
<1>5. \A x \in Tasks : at'[x] = "nowOffset" => reg'[x] <= elapsed'
  BY <1>0, <1>4 DEF NothingLater
<1>6. elapsed \in Int /\ (s = "freezeStore" => reg'[t] = elapsed)
  BY <1>0, ClockTypes, HoldFacts
<1>7. /\ s = "freezeStore" /\ ~frozen => Virtual = elapsed + offset
      /\ s = "resumeMeasure" => Virtual = frozenElapsed + offset
  BY DEF Virtual
<1>8. s = "freezeStore" \/ s \notin Freezing
  BY DEF Freezing
<1>9. s = "resumeMeasure" \/ s \notin Resuming
  BY DEF Resuming
<1>10. Alone(t)' /\ at'[t] \in Freezing /\ ~entry'[t].frozen =>
           /\ ~frozen'
           /\ entry'[t].elapsed <= elapsed'
           /\ entry'[t].virtual = entry'[t].elapsed + offset'
           /\ at'[t] = "freezeStore" => reg'[t] = entry'[t].elapsed
           /\ at'[t] = "freezeFlag" => frozenElapsed' = entry'[t].elapsed
  BY <1>3, <1>4, <1>6, <1>7, <1>8
<1>11. Alone(t)' /\ at'[t] \in Resuming =>
           /\ ~frozen'
           /\ entry'[t].elapsed <= elapsed'
           /\ entry'[t].virtual = frozenElapsed' + offset'
           /\ at'[t] = "resumeLoad" => reg'[t] \in entry'[t].elapsed .. elapsed'
           /\ at'[t] = "resumeRoll" => reg'[t] + frozenElapsed' \in entry'[t].elapsed .. elapsed'
  BY <1>3, <1>4, <1>6, <1>7, <1>9
<1>12. QED
  BY <1>1, <1>5, <1>10, <1>11, AloneOne

LEMMA AloneWithin ==
  ASSUME Inv, NEW t \in Tasks,
         \/ FreezeStore(t) \/ FreezeFlag(t)
         \/ ResumeMeasure(t) \/ ResumeLoad(t) \/ ResumeRoll(t)
         \/ ResetFlag(t) \/ ResetElapsed(t)
  PROVE  AloneInStep'
<1>0. Typed /\ NothingLater /\ FreezeInStep /\ ResumeInStep
  BY DEF Inv
<1>1. PICK s \in Stages :
        /\ at' = [at EXCEPT ![t] = s] /\ Within(t) /\ at[t] \in Control /\ s # "nowOffset"
        /\ \/ s = "freezeFlag" /\ at[t] = "freezeStore" /\ frozenElapsed' = reg[t]
              /\ frozen' = frozen /\ reg' = reg /\ offset' = offset
           \/ s = "resumeLoad" /\ at[t] = "resumeMeasure" /\ Hold(t, elapsed)
              /\ frozen' = frozen /\ frozenElapsed' = frozenElapsed /\ offset' = offset
           \/ s = "resumeRoll" /\ at[t] = "resumeLoad" /\ Hold(t, reg[t] - frozenElapsed)
              /\ frozen' = frozen /\ frozenElapsed' = frozenElapsed /\ offset' = offset
           \/ s \notin Freezing \cup Resuming
        /\ elapsed' = elapsed
        /\ reg' = reg \/ Hold(t, 0) \/ Hold(t, elapsed) \/ Hold(t, reg[t] - frozenElapsed)
  BY DEF FreezeStore, FreezeFlag, ResumeMeasure, ResumeLoad, ResumeRoll, ResetFlag, ResetElapsed,
         Goto, Stages, Control, Freezing, Resuming, Resetting, clockVars
<1>2. \A x \in Tasks \ {t} : ~Alone(x)'
  BY <1>1, WithinApart
<1>3. /\ at'[t] = s
      /\ s # "idle" => overlap'[t] = overlap[t] /\ entry'[t] = entry[t]
      /\ \A u \in Tasks \ {t} : at'[u] = at[u]
  BY <1>0, <1>1, WithinFacts
<1>4. /\ reg[t] \in Int /\ frozenElapsed \in Int /\ elapsed \in Int /\ offset \in Int
      /\ entry[t].elapsed \in Int /\ entry[t].virtual \in Int
  BY <1>0, ClockTypes
<1>5. \A u \in Tasks \ {t} : reg'[u] = reg[u]
  BY <1>0, <1>1, <1>4, HoldFacts
<1>6. \A x \in Tasks : at'[x] = "nowOffset" => reg'[x] <= elapsed'
  BY <1>0, <1>1, <1>3, <1>5 DEF NothingLater
<1>7. /\ s = "resumeLoad" => reg'[t] = elapsed
      /\ s = "resumeRoll" => reg'[t] = reg[t] - frozenElapsed
  <2>1. s = "resumeLoad" => Hold(t, elapsed)
    BY <1>1 DEF Freezing, Resuming
  <2>2. s = "resumeRoll" => Hold(t, reg[t] - frozenElapsed)
    BY <1>1 DEF Freezing, Resuming
  <2>3. reg[t] - frozenElapsed \in Int
    BY <1>4
  <2>4. QED
    BY <1>0, <1>4, <2>1, <2>2, <2>3, HoldFacts
<1>8. ASSUME Alone(t)', at'[t] \in Freezing, ~entry'[t].frozen
      PROVE  /\ ~frozen'
             /\ entry'[t].elapsed <= elapsed'
             /\ entry'[t].virtual = entry'[t].elapsed + offset'
             /\ at'[t] = "freezeStore" => reg'[t] = entry'[t].elapsed
             /\ at'[t] = "freezeFlag" => frozenElapsed' = entry'[t].elapsed
  <2>1. /\ s = "freezeFlag" /\ at[t] = "freezeStore" /\ frozenElapsed' = reg[t]
        /\ frozen' = frozen /\ offset' = offset /\ elapsed' = elapsed
    BY <1>1, <1>3, <1>8 DEF Freezing
  <2>2. entry'[t] = entry[t] /\ Alone(t) /\ at[t] \in Freezing
    BY <1>1, <1>3, <1>8, <2>1 DEF Alone, Freezing
  <2>3. /\ ~frozen /\ entry[t].elapsed <= elapsed /\ entry[t].virtual = entry[t].elapsed + offset
        /\ reg[t] = entry[t].elapsed
    BY <1>0, <1>8, <2>1, <2>2 DEF FreezeInStep
  <2>4. QED
    BY <1>3, <2>1, <2>2, <2>3
<1>9. ASSUME Alone(t)', at'[t] \in Resuming
      PROVE  /\ ~frozen'
             /\ entry'[t].elapsed <= elapsed'
             /\ entry'[t].virtual = frozenElapsed' + offset'
             /\ at'[t] = "resumeLoad" => reg'[t] \in entry'[t].elapsed .. elapsed'
             /\ at'[t] = "resumeRoll" => reg'[t] + frozenElapsed' \in entry'[t].elapsed .. elapsed'
  <2>1. /\ \/ s = "resumeLoad" /\ at[t] = "resumeMeasure"
           \/ s = "resumeRoll" /\ at[t] = "resumeLoad"
        /\ frozen' = frozen /\ frozenElapsed' = frozenElapsed /\ offset' = offset
        /\ elapsed' = elapsed
    BY <1>1, <1>3, <1>9 DEF Resuming
  <2>2. entry'[t] = entry[t] /\ Alone(t) /\ at[t] \in Resuming
    BY <1>1, <1>3, <1>9, <2>1 DEF Alone, Resuming
  <2>3. /\ ~frozen /\ entry[t].elapsed <= elapsed /\ entry[t].virtual = frozenElapsed + offset
        /\ at[t] = "resumeLoad" => reg[t] \in entry[t].elapsed .. elapsed
    BY <1>0, <2>2 DEF ResumeInStep
  <2>4. CASE s = "resumeLoad"
    BY <1>3, <1>4, <1>7, <2>1, <2>2, <2>3, <2>4
  <2>5. CASE s = "resumeRoll"
    <3>1. reg'[t] + frozenElapsed = reg[t]
      BY <1>4, <1>7, <2>5
    <3>2. QED
      BY <1>3, <2>1, <2>2, <2>3, <2>5, <3>1
  <2>6. QED
    BY <2>1, <2>4, <2>5
<1>10. QED
  BY <1>2, <1>6, <1>8, <1>9, AloneOne

\* A now() touches nothing a control call reads.
LEMMA AloneBesideNow ==
  ASSUME Inv, NEW t \in Tasks, NowFlag(t) \/ NowElapsed(t) \/ NowOffset(t)
  PROVE  AloneInStep'
<1>0. Typed /\ NothingLater /\ FreezeInStep /\ ResumeInStep
  BY DEF Inv
<1>1. PICK s \in Stages : at' = [at EXCEPT ![t] = s] /\ s \notin Control
  BY Disjoint DEF NowFlag, NowElapsed, NowOffset, Goto, Stages
<1>2. /\ at'[t] = s /\ \A u \in Tasks \ {t} : at'[u] = at[u] /\ reg'[u] = reg[u]
      /\ s = "nowOffset" => reg'[t] \in {frozenElapsed, elapsed}
      /\ UNCHANGED clockVars
  BY <1>0, <1>1 DEF NowFlag, NowElapsed, NowOffset, Goto, Hold, Typed, TypeOK
<1>3. ASSUME NEW u \in Tasks \ {t}, Alone(u)'
      PROVE  Alone(u) /\ entry'[u] = entry[u]
  <2>1. CASE NowFlag(t)
    <3>1. PICK kind \in SUBSET Kinds : Begin(t, kind)
      BY <2>1 DEF NowFlag
    <3>2. /\ overlap'[u] = IF at[u] = "idle" THEN {} ELSE overlap[u] \cup kind
          /\ overlap'[u] \subseteq {"freeze"} => entry'[u] = entry[u]
      <4>1. Typed /\ Begin(t, kind)
        BY <1>0, <3>1
      <4>2. QED
        BY ONLY <4>1, BeginOthers, t \in Tasks, u \in Tasks \ {t}, kind \in SUBSET Kinds
    <3>4. overlap'[u] = {} /\ at'[u] \in Control /\ at[u] = at'[u] /\ "idle" \notin Control
      BY <1>2, <1>3, Disjoint DEF Alone
    <3>5. overlap[u] = {}
      BY <3>2, <3>4
    <3>6. QED
      BY <3>2, <3>4, <3>5 DEF Alone
  <2>2. CASE NowElapsed(t) \/ NowOffset(t)
    <3>1. Within(t)
      BY <2>2 DEF NowElapsed, NowOffset
    <3>2. overlap'[u] = overlap[u] /\ entry'[u] = entry[u]
      BY <1>0, <1>1, <3>1, WithinFacts
    <3>3. QED
      BY <1>2, <1>3, <3>2 DEF Alone
  <2>3. QED
    BY <2>1, <2>2
<1>4. NothingLater'
  BY <1>0, <1>2, ClockTypes DEF NothingLater, clockVars
<1>5. ~Alone(t)'
  BY <1>1, <1>2 DEF Alone
<1>6. FreezeInStep' /\ ResumeInStep'
  BY <1>0, <1>2, <1>3, <1>5 DEF FreezeInStep, ResumeInStep, clockVars
<1>7. QED
  BY <1>4, <1>6 DEF AloneInStep

-----------------------------------------------------------------------------
(* The steps that are no call's, and all of them.                          *)

LEMMA AdvanceInv ==
  ASSUME Inv, NEW ms \in Advances, Advance(ms)
  PROVE  Inv'
<1>0. Inv /\ Typed /\ ms \in Nat
  BY ClockAssumption DEF Inv
<1>1. /\ offset' = offset + ms /\ UNCHANGED <<elapsed, frozen, frozenElapsed, at, reg, overlap>>
      /\ \A x \in Tasks : /\ entry'[x].lows = entry[x].lows /\ entry'[x].elapsed = entry[x].elapsed
                          /\ entry'[x].frozen = entry[x].frozen
                          /\ Alone(x) => entry'[x].virtual = entry[x].virtual + ms
      /\ entry' \in [Tasks -> Entries]
  BY <1>0, Disjoint DEF Advance, callVars, Typed, Entries, Alone
<1>2. Typed'
  BY <1>0, <1>1 DEF Typed, TypeOK
<1>3. CleanTogether' /\ AloneTogether' /\ NothingLater'
  BY <1>0, <1>1 DEF Inv, CleanTogether, AloneTogether, NothingLater, Clean, Calling
<1>4. NothingEarlier'
  <2>1. \A x \in Tasks : \A m \in Int : Since(x, m + offset) =>
          \E low \in entry'[x].lows : low <= m + offset'
    BY <1>0, <1>1, ClockTypes DEF Since
  <2>2. \A x \in Tasks : Clean(x)' => Clean(x)
    BY <1>1 DEF Clean, Calling
  <2>3. /\ elapsed \in Int /\ frozenElapsed \in Int /\ \A u \in Tasks : reg[u] \in Int
    BY <1>0, ClockTypes
  <2>4. ASSUME NEW x \in Tasks, Clean(x)'
        PROVE  /\ \E low \in entry'[x].lows : low <= elapsed + offset'
               /\ frozen => \E low \in entry'[x].lows : low <= frozenElapsed + offset'
               /\ \A u \in Tasks : at[u] = "freezeStore" =>
                    \E low \in entry'[x].lows : low <= reg[u] + offset'
               /\ \A u \in Tasks : at[u] = "freezeFlag" =>
                    \E low \in entry'[x].lows : low <= frozenElapsed + offset'
               /\ at[x] = "nowOffset" => \E low \in entry'[x].lows : low <= reg[x] + offset'
    BY <1>0, <2>1, <2>2, <2>3, <2>4 DEF Inv, NothingEarlier
  <2>5. QED
    BY <1>1, <2>4 DEF NothingEarlier, Since
<1>5. FreezeInStep' /\ ResumeInStep'
  <2>1. \A x \in Tasks : Alone(x)' => Alone(x) /\ entry'[x].virtual = entry[x].virtual + ms
    BY <1>1 DEF Alone
  <2>2. ASSUME NEW x \in Tasks
        PROVE  \A n \in Int : entry[x].virtual = n + offset =>
                 entry[x].virtual + ms = n + offset'
    BY <1>0, <1>1, ClockTypes
  <2>3. FreezeInStep'
    BY <1>0, <1>1, <2>1, <2>2, ClockTypes DEF Inv, FreezeInStep
  <2>4. ResumeInStep'
    BY <1>0, <1>1, <2>1, <2>2, ClockTypes DEF Inv, ResumeInStep
  <2>5. QED
    BY <2>3, <2>4
<1>6. QED
  BY <1>2, <1>3, <1>4, <1>5 DEF Inv

LEMMA ElapseInv ==
  ASSUME Inv, Elapse
  PROVE  Inv'
<1>0. Inv /\ Typed
  BY DEF Inv
<1>1. elapsed' = elapsed + 1 /\ elapsed < MaxElapsed
      /\ UNCHANGED <<offset, frozen, frozenElapsed, at, reg, overlap, entry>>
  BY DEF Elapse, callVars, historyVars
<1>2. elapsed \in Int /\ elapsed' \in Int /\ elapsed <= elapsed' /\ offset \in Int
  BY <1>0, <1>1, ClockTypes
<1>3. Typed'
  BY <1>0, <1>1, ClockAssumption DEF Typed, TypeOK
<1>4. CleanTogether' /\ AloneTogether'
  BY <1>0, <1>1 DEF Inv, CleanTogether, AloneTogether, Clean, Calling
<1>5. NothingLater'
  BY <1>0, <1>1, <1>2, ClockTypes DEF Inv, NothingLater
<1>6. NothingEarlier'
  <2>1. \A x \in Tasks : Since(x, elapsed + offset) => Since(x, elapsed' + offset)
    BY <1>0, <1>2, SinceLater
  <2>2. \A x \in Tasks : Clean(x)' => Clean(x)
    BY <1>1 DEF Clean, Calling
  <2>3. ASSUME NEW x \in Tasks, Clean(x)'
        PROVE  /\ Since(x, elapsed' + offset)
               /\ frozen => Since(x, frozenElapsed + offset)
               /\ \A u \in Tasks : at[u] = "freezeStore" => Since(x, reg[u] + offset)
               /\ \A u \in Tasks : at[u] = "freezeFlag" => Since(x, frozenElapsed + offset)
               /\ at[x] = "nowOffset" => Since(x, reg[x] + offset)
    BY <1>0, <2>1, <2>2, <2>3 DEF Inv, NothingEarlier
  <2>4. QED
    BY <1>1, <2>3 DEF NothingEarlier, Since
<1>7. FreezeInStep' /\ ResumeInStep'
  <2>1. \A x \in Tasks : Alone(x)' <=> Alone(x)
    BY <1>1 DEF Alone
  <2>2. \A x \in Tasks : /\ entry[x].elapsed \in Int
                         /\ entry[x].elapsed <= elapsed => entry[x].elapsed <= elapsed'
                         /\ \A n \in entry[x].elapsed .. elapsed : n \in entry[x].elapsed .. elapsed'
    BY <1>0, <1>2, ClockTypes
  <2>3. QED
    BY <1>0, <1>1, <2>1, <2>2 DEF Inv, FreezeInStep, ResumeInStep
<1>8. QED
  BY <1>3, <1>4, <1>5, <1>6, <1>7 DEF Inv

LEMMA StutterInv ==
  ASSUME Inv, UNCHANGED vars
  PROVE  Inv'
<1>1. UNCHANGED <<elapsed, offset, frozen, frozenElapsed, at, reg, overlap, entry>>
  BY DEF vars, clockVars, callVars, historyVars
<1>2. Typed' /\ CleanTogether' /\ AloneTogether' /\ NothingLater'
  BY <1>1 DEF Inv, Typed, TypeOK, CleanTogether, AloneTogether, NothingLater, Clean, Calling
<1>3. NothingEarlier'
  BY <1>1 DEF Inv, NothingEarlier, Clean, Calling, Since
<1>4. FreezeInStep' /\ ResumeInStep'
  BY <1>1 DEF Inv, FreezeInStep, ResumeInStep, Alone
<1>5. QED
  BY <1>2, <1>3, <1>4 DEF Inv

-----------------------------------------------------------------------------
(* Every step.                                                             *)

LEMMA FreezeMeasureInv ==
  ASSUME Inv, NEW t \in Tasks, FreezeMeasure(t)
  PROVE  Inv'
<1>0. Kind("freezeStore") = {"freeze"}
  BY DEF Kind, Freezing, Resuming, Resetting
<1>1. /\ "freezeStore" \in Stages /\ "freezeStore" \in Control /\ Kind("freezeStore") = {"freeze"}
      /\ Begin(t, Kind("freezeStore")) /\ at' = [at EXCEPT ![t] = "freezeStore"]
      /\ Hold(t, elapsed) /\ UNCHANGED <<elapsed, offset, frozen, frozenElapsed>> /\ UNCHANGED clockVars
  BY <1>0 DEF FreezeMeasure, Goto, Stages, Control, Freezing, clockVars
<1>2. Typed /\ offset \in Int /\ frozen \in BOOLEAN
  BY ClockTypes DEF Inv
<1>3. Typed'
  BY <1>1, <1>2, BeginTyped
<1>4. CleanTogether' /\ AloneTogether'
  BY <1>1, TogetherBegin
<1>5. NothingEarlier'
  BY <1>1, EarlierBegin
<1>6. AloneInStep'
  BY <1>1, AloneAtBegin
<1>7. QED
  BY <1>3, <1>4, <1>5, <1>6 DEF Inv, AloneInStep

\* A resume of a running clock is no call: it changes nothing.
LEMMA ResumeSwapInv ==
  ASSUME Inv, NEW t \in Tasks, ResumeSwap(t)
  PROVE  Inv'
<1>0. Typed /\ offset \in Int
  BY ClockTypes DEF Inv
<1>1. CASE frozen
  <2>0. Kind("resumeMeasure") = {"resume"}
    BY DEF Kind, Freezing, Resuming, Resetting
  <2>1. /\ "resumeMeasure" \in Stages /\ "resumeMeasure" \in Control /\ "resumeMeasure" \in Resuming
        /\ Kind("resumeMeasure") = {"resume"}
        /\ Begin(t, Kind("resumeMeasure")) /\ at' = [at EXCEPT ![t] = "resumeMeasure"]
        /\ frozen' = FALSE /\ reg' = reg /\ UNCHANGED <<elapsed, offset, frozenElapsed>>
    BY <1>1, <2>0 DEF ResumeSwap, Goto, Stages, Control, Resuming
  <2>2. Typed'
    BY <1>0, <2>1, BeginTyped
  <2>3. CleanTogether' /\ AloneTogether'
    BY <2>1, TogetherBegin
  <2>4. NothingEarlier'
    BY <2>1, BeginSpoils, EarlierNobody
  <2>5. AloneInStep'
    BY <1>1, <2>1, AloneAtBegin
  <2>6. QED
    BY <2>2, <2>3, <2>4, <2>5 DEF Inv, AloneInStep
<1>2. CASE ~frozen
  <2>1. UNCHANGED vars
    BY <1>0, <1>2 DEF ResumeSwap, Goto, vars, clockVars, callVars, historyVars, Typed, TypeOK
  <2>2. QED
    BY <2>1, StutterInv
<1>3. QED
  BY <1>1, <1>2

LEMMA ResetOffsetInv ==
  ASSUME Inv, NEW t \in Tasks, ResetOffset(t)
  PROVE  Inv'
<1>0. Kind("resetFlag") = {"reset"}
  BY DEF Kind, Freezing, Resuming, Resetting
<1>1. /\ "resetFlag" \in Stages /\ "resetFlag" \in Control /\ "resetFlag" \in Resetting
      /\ Kind("resetFlag") = {"reset"}
      /\ Begin(t, Kind("resetFlag")) /\ at' = [at EXCEPT ![t] = "resetFlag"]
      /\ offset' = 0 /\ reg' = reg /\ UNCHANGED <<elapsed, frozen, frozenElapsed>>
  BY <1>0 DEF ResetOffset, Goto, Stages, Control, Resetting
<1>2. Typed /\ frozen \in BOOLEAN /\ 0 \in Int
  BY ClockTypes DEF Inv
<1>3. Typed'
  BY <1>1, <1>2, BeginTyped
<1>4. CleanTogether' /\ AloneTogether'
  BY <1>1, TogetherBegin
<1>5. NothingEarlier'
  BY <1>1, BeginSpoils, EarlierNobody
<1>6. AloneInStep'
  BY <1>1, AloneAtBegin
<1>7. QED
  BY <1>3, <1>4, <1>5, <1>6 DEF Inv, AloneInStep

LEMMA NowFlagInv ==
  ASSUME Inv, NEW t \in Tasks, NowFlag(t)
  PROVE  Inv'
<1>0. Typed /\ offset \in Int /\ frozen \in BOOLEAN
  BY ClockTypes DEF Inv
<1>1. PICK s \in {"nowFrozen", "nowRunning"} :
        /\ s \in Stages /\ Kind(s) = {} /\ Begin(t, Kind(s)) /\ at' = [at EXCEPT ![t] = s]
        /\ s = "nowFrozen" => frozen
        /\ reg' = reg /\ UNCHANGED clockVars
  BY DEF NowFlag, Goto, Kind, Stages, Control, Freezing, Resuming, Resetting
<1>2. UNCHANGED <<elapsed, offset, frozen, frozenElapsed>>
  BY <1>1 DEF clockVars
<1>3. Typed'
  BY <1>0, <1>1, <1>2, BeginTyped
<1>4. CleanTogether' /\ AloneTogether'
  BY <1>1, <1>2, TogetherBegin
<1>5. NothingEarlier'
  BY <1>1, EarlierBegin
<1>6. AloneInStep'
  BY AloneBesideNow
<1>7. QED
  BY <1>3, <1>4, <1>5, <1>6 DEF Inv, AloneInStep

LEMMA FreezeStepInv ==
  ASSUME Inv, NEW t \in Tasks, FreezeStore(t) \/ FreezeFlag(t)
  PROVE  Inv'
<1>0. /\ Typed /\ offset \in Int /\ frozen \in BOOLEAN /\ reg[t] \in Int
      /\ frozenElapsed \in 0 .. elapsed
      /\ at[t] = "freezeStore" => reg[t] \in 0 .. elapsed
  BY ClockTypes DEF Inv, Typed, TypeOK
<1>1. PICK s \in Stages :
        /\ at' = [at EXCEPT ![t] = s] /\ Within(t) /\ s \notin {"freezeStore", "resumeLoad"}
        /\ s = "idle" \/ (s \in Freezing /\ at[t] \in Freezing)
        /\ frozen' = frozen \/ frozen' = TRUE
        /\ reg' = reg \/ Hold(t, 0)
        /\ elapsed' = elapsed /\ offset' = offset
        /\ frozenElapsed' = frozenElapsed \/ (at[t] = "freezeStore" /\ frozenElapsed' = reg[t])
  BY DEF FreezeStore, FreezeFlag, Goto, Stages, Control, Freezing
<1>2. Typed'
  BY <1>0, <1>1, WithinTyped, 0 \in Int
<1>3. CleanTogether' /\ AloneTogether'
  BY <1>1, TogetherWithin
<1>4. NothingEarlier'
  BY EarlierWithin
<1>5. AloneInStep'
  BY AloneWithin
<1>6. QED
  BY <1>2, <1>3, <1>4, <1>5 DEF Inv, AloneInStep

LEMMA ResumeStepInv ==
  ASSUME Inv, NEW t \in Tasks, ResumeMeasure(t) \/ ResumeLoad(t) \/ ResumeRoll(t)
  PROVE  Inv'
<1>0. /\ Typed /\ offset \in Int /\ frozen \in BOOLEAN /\ reg[t] \in Int /\ elapsed \in Nat
      /\ elapsed \in Int /\ frozenElapsed \in 0 .. elapsed /\ frozenElapsed \in Int
  BY ClockTypes DEF Inv
<1>1. PICK s \in Stages, v \in Int :
        /\ at' = [at EXCEPT ![t] = s] /\ Within(t) /\ s # "freezeStore" /\ Hold(t, v)
        /\ s = "resumeLoad" => v = elapsed
        /\ at[t] \in Resuming /\ s \in Resuming \cup {"idle"}
        /\ frozen' = frozen /\ elapsed' = elapsed /\ frozenElapsed' = frozenElapsed
        /\ offset' = offset \/ offset' = offset - reg[t]
  <2>1. reg[t] - frozenElapsed \in Int /\ 0 \in Int
    BY <1>0
  <2>2. {"resumeLoad", "resumeRoll", "idle"} \subseteq Stages
    BY DEF Stages, Control, Resuming
  <2>3. CASE ResumeMeasure(t)
    BY <1>0, <2>2, <2>3 DEF ResumeMeasure, Goto, Resuming, clockVars
  <2>4. CASE ResumeLoad(t)
    BY <2>1, <2>2, <2>4 DEF ResumeLoad, Goto, Resuming, clockVars
  <2>5. CASE ResumeRoll(t)
    BY <2>1, <2>2, <2>5 DEF ResumeRoll, Goto, Resuming
  <2>6. QED
    BY <2>3, <2>4, <2>5
<1>2. elapsed \in 0 .. elapsed /\ offset' \in Int
  BY <1>0, <1>1
<1>3. Typed'
  BY <1>0, <1>1, <1>2, WithinTyped
<1>4. CleanTogether' /\ AloneTogether'
  BY <1>1, TogetherWithin
<1>5. NothingEarlier'
  BY <1>1, WithinSpoiled, EarlierNobody
<1>6. AloneInStep'
  BY AloneWithin
<1>7. QED
  BY <1>3, <1>4, <1>5, <1>6 DEF Inv, AloneInStep

LEMMA ResetStepInv ==
  ASSUME Inv, NEW t \in Tasks, ResetFlag(t) \/ ResetElapsed(t)
  PROVE  Inv'
<1>0. /\ Typed /\ offset \in Int /\ frozen \in BOOLEAN /\ frozenElapsed \in 0 .. elapsed
      /\ elapsed \in Nat /\ 0 \in Int
  BY ClockTypes DEF Inv
<1>1. PICK s \in Stages :
        /\ at' = [at EXCEPT ![t] = s] /\ Within(t) /\ s \notin {"freezeStore", "resumeLoad"}
        /\ at[t] \in Resetting /\ s \in Resetting \cup {"idle"} /\ reg' = reg
        /\ frozen' \in {frozen, FALSE} /\ elapsed' = elapsed /\ offset' = offset
        /\ frozenElapsed' \in {frozenElapsed, 0}
  BY DEF ResetFlag, ResetElapsed, Goto, Stages, Control, Resetting
<1>2. frozenElapsed' \in 0 .. elapsed
  BY <1>0, <1>1
<1>3. Typed'
  BY <1>0, <1>1, <1>2, WithinTyped
<1>4. CleanTogether' /\ AloneTogether'
  BY <1>1, TogetherWithin
<1>5. NothingEarlier'
  BY <1>1, WithinSpoiled, EarlierNobody
<1>6. AloneInStep'
  BY AloneWithin
<1>7. QED
  BY <1>3, <1>4, <1>5, <1>6 DEF Inv, AloneInStep

LEMMA NowStepInv ==
  ASSUME Inv, NEW t \in Tasks, NowElapsed(t) \/ NowOffset(t)
  PROVE  Inv'
<1>0. /\ Typed /\ offset \in Int /\ frozen \in BOOLEAN /\ frozenElapsed \in 0 .. elapsed
      /\ elapsed \in Int /\ frozenElapsed \in Int /\ 0 \in Int
  BY ClockTypes DEF Inv
<1>1. PICK s \in {"nowOffset", "idle"}, v \in Int :
        /\ at' = [at EXCEPT ![t] = s] /\ Within(t) /\ Hold(t, v)
        /\ s = "nowOffset" => at[t] \in {"nowFrozen", "nowRunning"}
        /\ UNCHANGED <<elapsed, offset, frozen, frozenElapsed>>
  <2>1. CASE NowElapsed(t)
    BY <1>0, <2>1 DEF NowElapsed, Goto, clockVars
  <2>2. CASE NowOffset(t)
    BY <1>0, <2>2 DEF NowOffset, Goto, clockVars
  <2>3. QED
    BY <2>1, <2>2
<1>2. s \in Stages
  BY DEF Stages
<1>3. Typed'
  BY <1>0, <1>1, <1>2, WithinTyped
<1>4. CleanTogether' /\ AloneTogether'
  BY <1>1, <1>2, TogetherWithin
<1>5. NothingEarlier'
  BY EarlierWithin
<1>6. AloneInStep'
  BY AloneBesideNow
<1>7. QED
  BY <1>3, <1>4, <1>5, <1>6 DEF Inv, AloneInStep

LEMMA InitInv == Init => Inv
<1>1. Init => Typed
  BY ClockTypeInit
<1>2. Init => \A t \in Tasks : at[t] = "idle"
  BY DEF Init
<1>3. "idle" \notin Control
  BY Disjoint
<1>4. QED
  BY <1>1, <1>2, <1>3 DEF Inv, CleanTogether, NothingEarlier, NothingLater, AloneTogether,
     FreezeInStep, ResumeInStep, Clean, Alone, Calling

LEMMA NextInv == Inv /\ [Next]_vars => Inv'
<1> SUFFICES ASSUME Inv, [Next]_vars PROVE Inv'
  OBVIOUS
<1>1. ASSUME NEW t \in Tasks, Call(t) PROVE Inv'
  BY <1>1, FreezeMeasureInv, FreezeStepInv, ResumeSwapInv, ResumeStepInv, ResetOffsetInv,
     ResetStepInv, NowFlagInv, NowStepInv DEF Call
<1>2. ASSUME NEW ms \in Advances, Advance(ms) PROVE Inv'
  BY <1>2, AdvanceInv
<1>3. CASE Elapse
  BY <1>3, ElapseInv
<1>4. CASE UNCHANGED vars
  BY <1>4, StutterInv
<1>5. QED
  BY <1>1, <1>2, <1>3, <1>4 DEF Next

LEMMA ClockInv == Spec => []Inv
<1>1. QED
  BY InitInv, NextInv, PTL DEF Spec

\* Every variable keeps its type, and what a freeze captured is elapsed time, never
\* later than the real time, whatever advances, resumes and resets have come between.
THEOREM ClockTypeOK == Spec => []TypeOK
<1>1. Inv => TypeOK
  BY DEF Inv, Typed
<1>2. QED
  BY <1>1, ClockInv, PTL

\* A now() that no resume and no reset overlaps returns a time between the call and
\* its end, though any number of freezes write the flag and the capture meanwhile
\* (clock.rs:90).
THEOREM ClockNowIsNeverStale == Spec => NowIsNeverStale
<1>1. ASSUME Inv, NEW t \in Tasks, NowOffset(t), overlap[t] \subseteq {"freeze"}
      PROVE  /\ \E low \in entry[t].lows : low <= Result(t)
             /\ Result(t) <= elapsed + offset
  <2>1. at[t] = "nowOffset"
    BY <1>1 DEF NowOffset, Goto
  <2>2. Clean(t)
    BY <1>1, <2>1 DEF Clean, Calling, Resuming, Resetting
  <2>3. Since(t, reg[t] + offset) /\ reg[t] <= elapsed
    BY <1>1, <2>1, <2>2 DEF Inv, NothingEarlier, NothingLater
  <2>4. reg[t] \in Int /\ offset \in Int /\ elapsed \in Int
    BY <1>1, ClockTypes DEF Inv
  <2>5. QED
    BY <2>3, <2>4 DEF Since, Result
<1>2. Inv /\ [Next]_vars =>
        [\A t \in Tasks : NowOffset(t) /\ overlap[t] \subseteq {"freeze"} =>
           /\ \E low \in entry[t].lows : low <= Result(t)
           /\ Result(t) <= elapsed + offset]_vars
  BY <1>1
<1>3. QED
  BY <1>2, ClockInv, PTL DEF Spec, NowIsNeverStale

\* A freeze of a running clock, or a resume, that no other control call overlaps
\* neither loses nor replays time: what it took shows, an advance meanwhile stays
\* (clock.rs:87-106).
THEOREM ClockControlKeepsTime == Spec => ControlKeepsTime
<1>1. ASSUME Inv, NEW t \in Tasks, overlap[t] = {},
             (FreezeFlag(t) /\ ~entry[t].frozen) \/ ResumeRoll(t)
      PROVE  /\ entry[t].virtual <= Virtual'
             /\ Virtual' <= entry[t].virtual + (elapsed - entry[t].elapsed)
  <2>1. /\ reg[t] \in Int /\ offset \in Int /\ elapsed \in Int /\ frozenElapsed \in Int
        /\ entry[t].virtual \in Int /\ entry[t].elapsed \in Int
    BY <1>1, ClockTypes DEF Inv
  <2>2. CASE FreezeFlag(t) /\ ~entry[t].frozen
    <3>1. at[t] = "freezeFlag" /\ frozen' = TRUE /\ UNCHANGED <<offset, frozenElapsed>>
      BY <2>2 DEF FreezeFlag, Goto
    <3>2. Alone(t) /\ at[t] \in Freezing
      BY <1>1, <3>1 DEF Alone, Control, Freezing
    <3>3. /\ entry[t].elapsed <= elapsed /\ entry[t].virtual = entry[t].elapsed + offset
          /\ frozenElapsed = entry[t].elapsed
      BY <1>1, <2>2, <3>1, <3>2 DEF Inv, FreezeInStep
    <3>4. Virtual' = frozenElapsed + offset
      BY <3>1 DEF Virtual
    <3>5. QED
      BY <2>1, <3>3, <3>4
  <2>3. CASE ResumeRoll(t)
    <3>1. /\ at[t] = "resumeRoll" /\ offset' = offset - reg[t]
          /\ UNCHANGED <<elapsed, frozen, frozenElapsed>>
      BY <2>3 DEF ResumeRoll, Goto
    <3>2. Alone(t) /\ at[t] \in Resuming
      BY <1>1, <3>1 DEF Alone, Control, Resuming
    <3>3. /\ ~frozen /\ entry[t].elapsed <= elapsed /\ entry[t].virtual = frozenElapsed + offset
          /\ reg[t] + frozenElapsed \in entry[t].elapsed .. elapsed
      BY <1>1, <3>1, <3>2 DEF Inv, ResumeInStep
    <3>4. Virtual' = elapsed + (offset - reg[t])
      BY <3>1, <3>3 DEF Virtual
    <3>5. QED
      BY <2>1, <3>3, <3>4
  <2>4. QED
    BY <1>1, <2>2, <2>3
<1>2. Inv /\ [Next]_vars =>
        [\A t \in Tasks :
           ((FreezeFlag(t) /\ ~entry[t].frozen) \/ ResumeRoll(t)) /\ overlap[t] = {} =>
             /\ entry[t].virtual <= Virtual'
             /\ Virtual' <= entry[t].virtual + (elapsed - entry[t].elapsed)]_vars
  BY <1>1
<1>3. QED
  BY <1>2, ClockInv, PTL DEF Spec, ControlKeepsTime
=============================================================================
