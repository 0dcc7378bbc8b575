---------------------------- MODULE ProcessProofs ----------------------------
(* Machine-checked proofs about Process, for every set of scenes: what the *)
(* mail surface tells is true, and what the telemetry shows is configured. *)
EXTENDS Process, FiniteSetTheorems, SequenceTheorems, WellFoundedInduction, TLAPS

-----------------------------------------------------------------------------
(* Recipients.                                                             *)

\* A set of naturals that is not empty has a least element.
LEMMA LeastNatural ==
  ASSUME NEW T \in SUBSET Nat, T # {}
  PROVE  \E x \in T : \A y \in T : x <= y
<1> DEFINE Less == OpToRel(<, Nat)
<1>1. IsWellFoundedOn(Less, Nat)
  BY NatLessThanWellFounded
<1>2. \A x, y \in Nat : <<x, y>> \in Less <=> x < y
  BY DEF OpToRel
<1> HIDE DEF Less
<1>3. PICK x \in T : \A y \in T : ~ (<<y, x>> \in Less)
  BY <1>1, WFMin
<1>4. ASSUME NEW y \in T PROVE x <= y
  <2>1. x \in Nat /\ y \in Nat
    OBVIOUS
  <2>2. ~ (y < x)
    BY <1>2, <1>3, <2>1
  <2>3. QED
    BY <2>1, <2>2
<1>5. QED
  BY <1>4

\* A set of positions that is not empty has a last one.
LEMMA LastPosition ==
  ASSUME NEW n \in Nat, NEW I \in SUBSET (1 .. n), I # {}
  PROVE  Max(I) \in I /\ \A i \in I : i <= Max(I)
<1> DEFINE Back == {n - i : i \in I}
<1>1. Back \in SUBSET Nat /\ Back # {}
  <2>1. \A i \in I : n - i \in Nat
    OBVIOUS
  <2>2. QED
    BY <2>1
<1>2. PICK b \in Back : \A a \in Back : b <= a
  <2> HIDE DEF Back
  <2>1. QED
    BY <1>1, LeastNatural
<1>3. PICK last \in I : b = n - last
  OBVIOUS
<1>4. \A i \in I : last >= i
  <2> TAKE i \in I
  <2>1. n - i \in Back
    OBVIOUS
  <2>2. i \in 1 .. n /\ last \in 1 .. n /\ n - last <= n - i
    BY <2>1, <1>2, <1>3
  <2>3. QED
    BY <2>2
<1>5. \E x \in I : \A y \in I : x >= y
  BY <1>4
<1>6. Max(I) \in I /\ \A y \in I : Max(I) >= y
  BY <1>5 DEF Max
<1>7. QED
  BY <1>1, <1>6

\* The domain DomainOf takes is what follows the only "@" with none behind it.
LEMMA DomainAfter ==
  ASSUME NEW address \in Seq(STRING), NEW k \in DOMAIN address, address[k] = "@",
         "@" \notin Range(SubSeq(address, k + 1, Len(address)))
  PROVE  DomainOf(address) = SubSeq(address, k + 1, Len(address))
<1> DEFINE I == {i \in 1 .. Len(address) : address[i] = "@"}
<1>1. Len(address) \in Nat /\ DOMAIN address = 1 .. Len(address)
  OBVIOUS
<1>2. "@" \in Range(address) /\ k \in I /\ I \in SUBSET (1 .. Len(address))
  BY <1>1 DEF Range
<1>3. \A i \in I : i <= k
  <2> SUFFICES ASSUME NEW i \in I, i > k PROVE FALSE
    BY <1>1
  <2> DEFINE rest == SubSeq(address, k + 1, Len(address))
  <2>1. /\ Len(rest) = Len(address) - k
        /\ rest \in Seq(STRING)
        /\ i - k \in 1 .. Len(rest)
    BY <1>1
  <2>2. rest[i - k] = address[i]
    BY <1>1, <2>1
  <2> HIDE DEF rest
  <2>3. "@" \in Range(rest)
    BY <2>1, <2>2 DEF Range, I
  <2>4. QED
    BY <2>3 DEF rest
<1> HIDE DEF I
<1>4. Max(I) \in I /\ \A i \in I : i <= Max(I)
  BY <1>1, <1>2, LastPosition
<1>5. Max(I) = k
  BY <1>1, <1>2, <1>3, <1>4
<1>6. QED
  BY <1>2, <1>5 DEF DomainOf, SelectLastInSeq, I

\* An address with an "@" has a last one.
LEMMA LastAt ==
  ASSUME NEW address \in Seq(STRING), "@" \in Range(address)
  PROVE  \E k \in DOMAIN address :
           address[k] = "@" /\ "@" \notin Range(SubSeq(address, k + 1, Len(address)))
<1> DEFINE I == {i \in 1 .. Len(address) : address[i] = "@"}
<1>1. Len(address) \in Nat /\ DOMAIN address = 1 .. Len(address)
  OBVIOUS
<1>2. I \in SUBSET (1 .. Len(address)) /\ I # {}
  BY <1>1 DEF Range
<1>3. PICK k \in I : \A i \in I : i <= k
  <2> HIDE DEF I
  <2>1. QED
    BY <1>1, <1>2, LastPosition
<1>4. ASSUME "@" \in Range(SubSeq(address, k + 1, Len(address))) PROVE FALSE
  <2> DEFINE rest == SubSeq(address, k + 1, Len(address))
  <2>1. PICK j \in DOMAIN rest : rest[j] = "@"
    BY <1>4 DEF Range
  <2>2. j \in 1 .. Len(address) - k
    BY <1>1
  <2>3. rest[j] = address[k + j]
    BY <1>1, <2>2
  <2>4. k + j \in I /\ k + j > k
    BY <1>1, <2>1, <2>2, <2>3
  <2>5. QED
    BY <2>4, <1>3
<1>5. QED
  BY <1>1, <1>3, <1>4

\* An address is what is up to a position and what follows it, and only that.
LEMMA SplitAddress ==
  ASSUME NEW address \in Seq(STRING), NEW k \in DOMAIN address, NEW d \in Seq(STRING)
  PROVE  address = SubSeq(address, 1, k) \o d <=> d = SubSeq(address, k + 1, Len(address))
<1> DEFINE front == SubSeq(address, 1, k)
           rest == SubSeq(address, k + 1, Len(address))
<1>1. /\ Len(address) \in Nat /\ k \in 1 .. Len(address)
      /\ 1 \in 1 .. Len(address) + 1 /\ k \in 1 - 1 .. Len(address)
      /\ Len(address) \in k .. Len(address)
  OBVIOUS
<1>2. front \in Seq(STRING) /\ rest \in Seq(STRING)
  BY <1>1
<1>3. front \o rest = SubSeq(address, 1, Len(address))
  BY <1>1, ConcatAdjacentSubSeq
<1>4. front \o rest = address
  BY <1>3, SubSeqFull
<1> HIDE DEF front, rest
<1>5. front \o rest = front \o d => rest = d
  BY <1>2, ConcatSimplifications
<1>6. QED
  BY <1>4, <1>5 DEF front, rest

\* The list permits exactly the addresses it names.
LEMMA PermitsNamed ==
  ASSUME NEW address \in Seq(STRING),
         \A entry \in env.allowed : /\ entry.kind \in {"any", "domain", "address"}
                                    /\ entry.kind = "domain" => entry.of \in Seq(STRING)
  PROVE  Permits(env.allowed, address) <=> Named(address)
<1>1. CASE "@" \notin Range(address)
  BY <1>1 DEF Permits, DomainOf, Named, Range
<1>2. CASE "@" \in Range(address)
  <2>1. PICK k \in DOMAIN address :
          address[k] = "@" /\ "@" \notin Range(SubSeq(address, k + 1, Len(address)))
    BY <1>2, LastAt
  <2> DEFINE Final(i) ==
        address[i] = "@" /\ "@" \notin Range(SubSeq(address, i + 1, Len(address)))
      Match(entry, i) ==
        CASE entry.kind = "any" -> TRUE
          [] entry.kind = "domain" -> address = SubSeq(address, 1, i) \o entry.of
          [] entry.kind = "address" -> address = entry.of
  <2>2. \A i \in DOMAIN address :
          Final(i) => DomainOf(address) = SubSeq(address, i + 1, Len(address))
    BY DomainAfter
  <2>3. DomainOf(address) # None
    <3>1. SubSeq(address, k + 1, Len(address)) \in Seq(STRING)
      OBVIOUS
    <3>2. QED
      BY <2>1, <2>2, <3>1, MailAssumption
  <2>4. ASSUME NEW entry \in env.allowed, NEW i \in DOMAIN address, Final(i)
        PROVE  Match(entry, i) <=> \/ entry.kind = "any"
                                   \/ entry.kind = "domain" /\ DomainOf(address) = entry.of
                                   \/ entry.kind = "address" /\ address = entry.of
    <3>1. CASE entry.kind = "any"
      BY <3>1
    <3>2. CASE entry.kind = "address"
      BY <3>2
    <3>3. CASE entry.kind = "domain"
      <4>1. entry.of \in Seq(STRING)
        BY <3>3
      <4>2. DomainOf(address) = SubSeq(address, i + 1, Len(address))
        BY <2>2, <2>4
      <4>3. address = SubSeq(address, 1, i) \o entry.of
              <=> entry.of = SubSeq(address, i + 1, Len(address))
        BY <4>1, SplitAddress
      <4>4. QED
        BY <3>3, <4>2, <4>3
    <3>4. QED
      BY <3>1, <3>2, <3>3
  <2> HIDE DEF Match, Final
  <2>5. Named(address) <=> \E entry \in env.allowed, i \in DOMAIN address : Final(i) /\ Match(entry, i)
    BY DEF Named, Match, Final
  <2>6. QED
    BY <2>1, <2>3, <2>4, <2>5 DEF Permits, Final
<1>3. QED
  BY <1>1, <1>2

-----------------------------------------------------------------------------
(* The mail surface.                                                       *)

Stages ==
  {"idle", "send", "handed", "list", "headers", "purge", "work", "streaming", "events",
   "done", "left", "cut"}
Messages == [id : Requests \cup {None}, run : Nat \cup {None}]

FromAScene == \E scene \in Scenes : asks = scene.asks /\ env = scene.env

RequestsTyped ==
  /\ stage \in [Requests -> Stages] /\ DOMAIN reply = Requests
  /\ acting \in [Requests -> Nat \cup {None}]

\* What boot leaves to the serving phase: a run, and the mail surface its relay says.
Booted ==
  /\ boots \in Nat
  /\ run \in Nat \cup {None}
  /\ phase \in {"telemetry", "data", "queue", "mail", "bind", "serving"} => run \in Nat
  /\ saved # None => saved.run \in Nat
  /\ mailer \in {"none", "mailpit", "relay"}
  /\ mailer = "mailpit" => ~env.relay
  /\ mailer = "relay" => env.relay

\* A message is tagged with the run its request acts as, which is past arriving, or is
\* nobody's.
Posted(m) ==
  \/ m.id = None /\ m.run = None
  \/ /\ m.id \in Requests
     /\ m.run = acting[m.id]
     /\ stage[m.id] \notin {"idle", "send"}

Boxes ==
  /\ mailpit \in Seq(Messages)
  /\ listed \in [Requests -> Seq(Messages)] /\ kept \in [Requests -> Seq(Messages)]
  /\ at \in [Requests -> Nat \ {0}]
  /\ \A i \in DOMAIN mailpit : Posted(mailpit[i])
  /\ \A r \in Requests : \A i \in DOMAIN listed[r] : Posted(listed[r][i])
  /\ \A i, k \in DOMAIN mailpit :
       mailpit[i].id = mailpit[k].id /\ mailpit[i].id # None => i = k
  /\ env.relay => mailpit = <<>>

\* Where a request behind the fault layer is.
Behind == {"work", "streaming"}

\* Where a request is says what it asked for and what was decided of it on the way.
StageFits(r) ==
  /\ reply[r] # None => stage[r] = "done"
  /\ stage[r] \in {"send", "handed"} => asks[r].op = "send"
  /\ stage[r] \in {"list", "headers"} => asks[r].op = "list" /\ ~env.relay
  /\ stage[r] = "purge" => asks[r].op = "purge"
  /\ stage[r] \in Behind => asks[r].op \in {"items", "stream"}
  /\ stage[r] \in {"send", "handed", "list", "headers"} => acting[r] \in Nat
  /\ stage[r] = "send" /\ env.relay => Permits(env.allowed, asks[r].to)
  /\ stage[r] = "handed" => r \in accepted
  /\ stage[r] \in {"idle", "list"} => at[r] = 1 /\ kept[r] = <<>>
  /\ stage[r] = "headers" =>
       /\ at[r] <= Len(listed[r]) + 1
       /\ Picks(kept[r], listed[r], Ours(r, at[r] - 1))

\* MailTellsTheTruth of one request, but for what Mailpit holds.
Told(r) ==
  /\ Answered(r, "list", 200) =>
       ~env.relay /\ (~asks[r].all => Picks(reply[r].body, listed[r], Ours(r, Len(listed[r]))))
  /\ Answered(r, "send", 200) => r \in announced /\ reply[r].body = acting[r]
  /\ Answered(r, "send", 403) => env.relay /\ ~Named(asks[r].to)
  /\ r \in announced => r \in accepted
  /\ r \in accepted /\ env.relay => Named(asks[r].to)

MailInv ==
  /\ FromAScene /\ RequestsTyped /\ Booted /\ Boxes
  /\ \A r \in Requests : StageFits(r) /\ Told(r)

-----------------------------------------------------------------------------
(* The spans.                                                              *)

Fates == {"none", "queued", "unexported", "overflowed", "leaving", "dropped", "received",
          "failed", "lost"}
Shows == [orphan : BOOLEAN, skew : -MaxSkew .. MaxSkew, bloat : Nat]
Texts == [requests : Nat, subscribers : Nat, junk : Nat]

TelemetryTyped ==
  /\ exporting \in BOOLEAN
  /\ configs \in Seq(Faults) /\ configs # <<>>
  /\ endedIn \in [Spans -> Nat \cup {Absent}] /\ arrivedIn \in [Spans -> Nat \cup {Absent}]
  /\ fate \in [Spans -> Fates]
  /\ shown \in [Spans -> Shows \cup {Absent}]
  /\ batch \in [fault : Faults, stalled : BOOLEAN] \cup {Absent}
  /\ requests \in Nat
  /\ scrape \in [Spans -> Texts \cup {Absent}]
  /\ saved # None => saved.telemetry \in Faults

Ended == {s \in Spans : fate[s] # "none"}

CanFire(fault) == fault.rate # "never"

\* The stages before a span ends or a scrape is taken.
Fresh == {"idle", "send", "handed", "work"}

\* A batch leaves, arrives or is dropped as the faults since a span's end say.
Fated(s) ==
  /\ fate[s] = "leaving" /\ batch # Absent =>
       \/ batch.fault = NoFault
       \/ \E j \in endedIn[s] .. Now : CanFire(configs[j]) /\ batch.fault = configs[j]
  /\ fate[s] = "received" =>
       /\ arrivedIn[s] \in 1 .. Now
       /\ shown[s] \in Shows
       /\ \/ shown[s] = Honest
          \/ \E j \in endedIn[s] .. arrivedIn[s] :
               CanFire(configs[j]) /\ shown[s] = Corrupted(configs[j])
  /\ fate[s] = "dropped" => \E j \in endedIn[s] .. Now : CanFire(configs[j]) /\ configs[j].drop

\* Up to the end of a request's span nothing befell it; from then on what befell it is what the faults of its time say.
SpanTold(s) ==
  /\ s \in Requests /\ stage[s] \in Fresh =>
       fate[s] = "none" /\ scrape[s] = Absent
  /\ fate[s] # "none" \/ scrape[s] # Absent => endedIn[s] \in 1 .. Now
  /\ Fated(s)
  /\ scrape[s] # Absent =>
       LET now == configs[endedIn[s]]
       IN  /\ scrape[s].junk > 0 => CanFire(now) /\ scrape[s].junk = now.bomb
           /\ scrape[s].requests > Cardinality(Ended) => CanFire(now) /\ now.reset

SpanInv ==
  /\ FromAScene /\ stage \in [Requests -> Stages] /\ TelemetryTyped
  /\ requests <= Cardinality(Ended)
  /\ \A s \in Spans : SpanTold(s)

LEMMA SceneTyped ==
  ASSUME FromAScene
  PROVE  /\ \A r \in Requests :
              /\ asks[r].op \in {"send", "list"} => asks[r].run \in Nat \cup {None}
              /\ asks[r].op = "send" => asks[r].to \in Seq(STRING)
              /\ asks[r].op = "list" => asks[r].limit \in Nat
              /\ asks[r].op = "telemetry" => asks[r].fault \in Faults \cup {None}
         /\ env.telemetry \in Faults
         /\ \A entry \in env.allowed : /\ entry.kind \in {"any", "domain", "address"}
                                       /\ entry.kind = "domain" => entry.of \in Seq(STRING)
  BY ProcessAssumption DEF FromAScene

LEMMA NoFaultType == NoFault \in Faults
  BY DEF NoFault, Faults

LEMMA CurrentType ==
  ASSUME TelemetryTyped
  PROVE  Now \in Nat \ {0} /\ Current \in Faults /\ \A i \in 1 .. Now : configs[i] \in Faults
<1>1. configs \in Seq(Faults) /\ configs # <<>>
  BY DEF TelemetryTyped
<1>2. Len(configs) \in Nat \ {0}
  BY <1>1
<1>3. QED
  BY <1>1, <1>2 DEF Current, Now

LEMMA EndedFinite == IsFiniteSet(Ended) /\ Cardinality(Ended) \in Nat /\ Ended \subseteq Spans
<1>1. Ended \in SUBSET Spans
  BY DEF Ended
<1>2. IsFiniteSet(Ended)
  BY <1>1, TelemetryAssumption, FS_Subset
<1>3. QED
  BY <1>1, <1>2, FS_CardinalityType

\* No span comes back from its fate, so there are ever more.
LEMMA EndedGrows ==
  ASSUME \A s \in Spans : fate[s] # "none" => fate'[s] # "none"
  PROVE  Cardinality(Ended) <= Cardinality(Ended')
<1>1. Ended \in SUBSET (Ended') /\ Ended' \in SUBSET Spans
  BY DEF Ended
<1>2. IsFiniteSet(Ended')
  BY <1>1, TelemetryAssumption, FS_Subset
<1>3. QED
  BY <1>1, <1>2, FS_Subset

\* The configurations so far stay where they are.
Kept == Now <= Now' /\ \A i \in 1 .. Now : configs'[i] = configs[i]

LEMMA KeptWhenSame ==
  ASSUME TelemetryTyped, configs' = configs
  PROVE  Kept
  BY CurrentType DEF Kept, Now

LEMMA KeptWhenAppended ==
  ASSUME TelemetryTyped, NEW f \in Faults, configs' = Append(configs, f)
  PROVE  Kept /\ configs' \in Seq(Faults) /\ configs' # <<>>
<1>1. configs \in Seq(Faults) /\ Len(configs) \in Nat
  BY DEF TelemetryTyped
<1>2. /\ configs' \in Seq(Faults) /\ Len(configs') = Len(configs) + 1
      /\ \A i \in 1 .. Len(configs) : configs'[i] = configs[i]
  BY <1>1
<1>3. QED
  BY <1>1, <1>2 DEF Kept, Now

\* A span a step leaves alone is told as before.
LEMMA SpanSame ==
  ASSUME SpanInv, NEW s \in Spans, Kept, Now' \in Nat,
         fate'[s] = fate[s], endedIn'[s] = endedIn[s], shown'[s] = shown[s],
         arrivedIn'[s] = arrivedIn[s], scrape'[s] = scrape[s],
         fate[s] = "leaving" /\ batch' # Absent => batch # Absent /\ batch'.fault = batch.fault,
         s \in Requests /\ stage'[s] \in Fresh => stage[s] \in Fresh,
         Cardinality(Ended) <= Cardinality(Ended')
  PROVE  SpanTold(s)'
<1>1. SpanTold(s) /\ Now \in Nat \ {0}
  BY CurrentType DEF SpanInv
<1>2. s \in Requests /\ stage'[s] \in Fresh => fate'[s] = "none" /\ scrape'[s] = Absent
  BY <1>1 DEF SpanTold
<1>3. fate[s] # "none" \/ scrape[s] # Absent => endedIn[s] \in 1 .. Now /\ endedIn[s] \in 1 .. Now'
  BY <1>1 DEF SpanTold, Kept
<1>4. fate[s] \in {"leaving", "dropped"} =>
        \A j \in endedIn[s] .. Now : j \in endedIn[s] .. Now' /\ configs'[j] = configs[j]
  BY <1>1, <1>3 DEF Kept
<1>5. fate'[s] = "leaving" /\ batch' # Absent =>
        \/ batch'.fault = NoFault
        \/ \E j \in endedIn'[s] .. Now' : CanFire(configs'[j]) /\ batch'.fault = configs'[j]
  BY <1>1, <1>4 DEF SpanTold, Fated
<1>6. fate'[s] = "dropped" => \E j \in endedIn'[s] .. Now' : CanFire(configs'[j]) /\ configs'[j].drop
  BY <1>1, <1>4 DEF SpanTold, Fated
<1>7. ASSUME fate'[s] = "received"
      PROVE  /\ arrivedIn'[s] \in 1 .. Now'
             /\ shown'[s] \in Shows
             /\ \/ shown'[s] = Honest
                \/ \E j \in endedIn'[s] .. arrivedIn'[s] :
                     CanFire(configs'[j]) /\ shown'[s] = Corrupted(configs'[j])
  <2>1. arrivedIn[s] \in 1 .. Now /\ arrivedIn[s] \in 1 .. Now' /\ endedIn[s] \in 1 .. Now
    BY <1>1, <1>3, <1>7 DEF SpanTold, Fated, Kept
  <2>2. \A j \in endedIn[s] .. arrivedIn[s] : configs'[j] = configs[j]
    BY <1>1, <2>1 DEF Kept
  <2>3. QED
    BY <1>1, <1>7, <2>1, <2>2 DEF SpanTold, Fated
<1>8. ASSUME scrape'[s] # Absent
      PROVE  LET now == configs'[endedIn'[s]]
             IN  /\ scrape'[s].junk > 0 => CanFire(now) /\ scrape'[s].junk = now.bomb
                 /\ scrape'[s].requests > Cardinality(Ended') => CanFire(now) /\ now.reset
  <2>1. configs'[endedIn'[s]] = configs[endedIn[s]]
    BY <1>3, <1>8 DEF Kept
  <2>2. scrape[s] \in Texts /\ scrape[s].requests \in Nat
    BY <1>8 DEF SpanInv, TelemetryTyped, Texts
  <2>3. Cardinality(Ended) \in Nat /\ Cardinality(Ended') \in Nat
    <3>1. IsFiniteSet(Ended')
      <4>1. Ended' \in SUBSET Spans
        BY DEF Ended
      <4>2. QED
        BY <4>1, TelemetryAssumption, FS_Subset
    <3>2. QED
      BY <3>1, EndedFinite, FS_CardinalityType
  <2>4. scrape'[s].requests > Cardinality(Ended') => scrape[s].requests > Cardinality(Ended)
    BY <2>2, <2>3
  <2>5. QED
    BY <1>1, <1>8, <2>1, <2>4 DEF SpanTold
<1>9. Fated(s)'
  BY <1>5, <1>6, <1>7 DEF Fated
<1>10. QED
  BY <1>2, <1>3, <1>8, <1>9 DEF SpanTold

\* What every step does but those that end spans, move them, or scrape.
LEMMA SpansQuiet ==
  ASSUME SpanInv, UNCHANGED <<asks, env, endedIn, fate, shown, arrivedIn, batch, scrape>>,
         exporting' \in BOOLEAN, requests' \in {0, requests},
         configs' = configs \/ \E f \in Faults : configs' = Append(configs, f),
         stage' \in [Requests -> Stages],
         \A r \in Requests : stage'[r] \in Fresh => stage[r] \in Fresh,
         saved' # None => saved'.telemetry \in Faults
  PROVE  SpanInv'
<1>1. TelemetryTyped /\ FromAScene /\ requests \in Nat
  BY DEF SpanInv, TelemetryTyped
<1>2. Kept /\ configs' \in Seq(Faults) /\ configs' # <<>>
  <2>1. CASE configs' = configs
    BY <1>1, <2>1, KeptWhenSame DEF TelemetryTyped
  <2>2. CASE \E f \in Faults : configs' = Append(configs, f)
    BY <1>1, <2>2, KeptWhenAppended
  <2>3. QED
    BY <2>1, <2>2
<1>3. Now' \in Nat
  BY <1>2 DEF Now
<1>4. TelemetryTyped'
  BY <1>1, <1>2 DEF TelemetryTyped
<1>5. FromAScene'
  BY <1>1 DEF FromAScene
<1>6. Ended' = Ended
  BY DEF Ended
<1>7. requests' <= Cardinality(Ended')
  <2>1. requests <= Cardinality(Ended) /\ Cardinality(Ended) \in Nat
    BY EndedFinite DEF SpanInv
  <2>2. QED
    BY <1>1, <1>6, <2>1
<1>8. ASSUME NEW s \in Spans PROVE SpanTold(s)'
  <2>1. Cardinality(Ended) <= Cardinality(Ended')
    BY <1>6, EndedFinite
  <2>2. QED
    BY <1>2, <1>3, <2>1, SpanSame
<1>9. QED
  BY <1>4, <1>5, <1>7, <1>8 DEF SpanInv

\* A span that was still open ends; its request may be counted with it.
LEMMA SpanEndsInv ==
  ASSUME SpanInv, NEW s \in Spans, SpanEnds(s), UNCHANGED <<asks, env, saved>>,
         fate[s] = "none", scrape[s] = Absent,
         requests' \in {requests, requests + 1},
         stage' \in [Requests -> Stages],
         \A r \in Requests : stage'[r] \in Fresh => stage[r] \in Fresh /\ r # s
  PROVE  SpanInv'
<1>1. TelemetryTyped /\ FromAScene /\ requests \in Nat /\ Now \in Nat \ {0}
  BY CurrentType DEF SpanInv, TelemetryTyped
<1>2. UNCHANGED <<exporting, configs, shown, arrivedIn, batch, scrape>>
  BY DEF SpanEnds
<1>3. PICK f \in Fates \ {"none", "leaving", "received", "dropped"} :
        fate' = [fate EXCEPT ![s] = f]
  BY DEF SpanEnds, Fates
<1>4. endedIn' = [endedIn EXCEPT ![s] = Now]
  BY DEF SpanEnds
<1>5. TelemetryTyped'
  BY <1>1, <1>2, <1>3, <1>4 DEF TelemetryTyped
<1>6. FromAScene'
  BY <1>1 DEF FromAScene
<1>7. Kept /\ Now' \in Nat /\ Now' = Now
  BY <1>1, <1>2, KeptWhenSame DEF Now
<1>8. fate'[s] = f /\ \A t \in Spans \ {s} : fate'[t] = fate[t] /\ endedIn'[t] = endedIn[t]
  BY <1>1, <1>3, <1>4 DEF TelemetryTyped
<1>9. Ended' = Ended \cup {s} /\ s \notin Ended
  BY <1>3, <1>8 DEF Ended
<1>10. Cardinality(Ended') = Cardinality(Ended) + 1 /\ Cardinality(Ended) \in Nat
  BY <1>9, EndedFinite, FS_AddElement
<1>11. requests' <= Cardinality(Ended')
  <2>1. requests <= Cardinality(Ended)
    BY DEF SpanInv
  <2>2. QED
    BY <1>1, <1>10, <2>1
<1>12. ASSUME NEW t \in Spans, t # s PROVE SpanTold(t)'
  <2>1. Cardinality(Ended) <= Cardinality(Ended')
    BY <1>10
  <2>2. batch' = batch /\ shown'[t] = shown[t] /\ arrivedIn'[t] = arrivedIn[t] /\ scrape'[t] = scrape[t]
    BY <1>2
  <2>3. QED
    BY <1>7, <1>8, <1>12, <2>1, <2>2, SpanSame
<1>13. SpanTold(s)'
  <2>1. endedIn'[s] = Now /\ scrape'[s] = Absent
    BY <1>1, <1>2, <1>4 DEF TelemetryTyped
  <2>2. QED
    BY <1>1, <1>3, <1>7, <1>8, <2>1 DEF SpanTold, Fated
<1>14. QED
  BY <1>5, <1>6, <1>11, <1>12, <1>13 DEF SpanInv

LEMMA ScrapeInv ==
  ASSUME SpanInv, NEW s \in Spans, NEW n \in Nat, Scrape(s, n), UNCHANGED <<asks, env, saved>>,
         fate[s] = "none",
         stage' \in [Requests -> Stages],
         \A r \in Requests : stage'[r] \in Fresh => stage[r] \in Fresh /\ r # s
  PROVE  SpanInv'
<1>1. TelemetryTyped /\ FromAScene /\ requests \in Nat /\ Now \in Nat \ {0} /\ Current \in Faults
  BY CurrentType DEF SpanInv, TelemetryTyped
<1>2. UNCHANGED <<exporting, configs, fate, shown, arrivedIn, batch, requests>>
  BY DEF Scrape
<1>3. endedIn' = [endedIn EXCEPT ![s] = Now]
  BY DEF Scrape
<1>4. PICK fault \in Faults : /\ scrape' = [scrape EXCEPT ![s] = Rendered(n, fault)]
                              /\ fault = NoFault \/ (CanFire(Current) /\ fault = Current)
  <2>1. PICK coin \in BOOLEAN :
          scrape' = [scrape EXCEPT ![s] =
                       Rendered(n, IF Fires(Current, coin) THEN Current ELSE NoFault)]
    BY DEF Scrape
  <2>2. Fires(Current, coin) => CanFire(Current)
    BY DEF Fires, CanFire
  <2>3. QED
    BY <1>1, <2>1, <2>2, NoFaultType
<1>5. Rendered(n, fault) \in Texts
  BY <1>1 DEF Rendered, Texts, Faults
<1>6. TelemetryTyped'
  BY <1>1, <1>2, <1>3, <1>4, <1>5 DEF TelemetryTyped
<1>7. FromAScene'
  BY <1>1 DEF FromAScene
<1>8. Kept /\ Now' \in Nat /\ Now' = Now /\ Ended' = Ended /\ Cardinality(Ended) \in Nat
  BY <1>1, <1>2, KeptWhenSame, EndedFinite DEF Now, Ended
<1>9. requests' <= Cardinality(Ended') /\ requests <= Cardinality(Ended)
  BY <1>2, <1>8 DEF SpanInv
<1>10. ASSUME NEW t \in Spans, t # s PROVE SpanTold(t)'
  <2>1. endedIn'[t] = endedIn[t] /\ scrape'[t] = scrape[t]
    BY <1>1, <1>3, <1>4, <1>10 DEF TelemetryTyped
  <2>2. Cardinality(Ended) <= Cardinality(Ended')
    BY <1>8
  <2>3. fate'[t] = fate[t] /\ shown'[t] = shown[t] /\ arrivedIn'[t] = arrivedIn[t] /\ batch' = batch
    BY <1>2
  <2>4. QED
    BY <1>8, <1>10, <2>1, <2>2, <2>3, SpanSame
<1>11. SpanTold(s)'
  <2>1. endedIn'[s] = Now /\ scrape'[s] = Rendered(n, fault) /\ fate'[s] = "none"
    BY <1>1, <1>2, <1>3, <1>4 DEF TelemetryTyped
  <2>2. configs'[Now] = Current
    BY <1>2 DEF Current, Now
  <2>3. Rendered(n, fault).junk > 0 => CanFire(Current) /\ Rendered(n, fault).junk = Current.bomb
    BY <1>4 DEF Rendered, NoFault
  <2>4. Rendered(n, fault).requests > Cardinality(Ended') => CanFire(Current) /\ Current.reset
    <3>1. ~fault.reset => Rendered(n, fault).requests = requests
      BY DEF Rendered
    <3>2. fault.reset => CanFire(Current) /\ Current.reset
      BY <1>4 DEF NoFault
    <3>3. QED
      BY <1>1, <1>8, <1>9, <3>1, <3>2
  <2>5. QED
    BY <1>1, <1>8, <2>1, <2>2, <2>3, <2>4 DEF SpanTold, Fated
<1>12. QED
  BY <1>6, <1>7, <1>9, <1>10, <1>11 DEF SpanInv

\* A span that had ended moves on, and its fate is told as it arrives there.
LEMMA SpanMoves ==
  ASSUME SpanInv, NEW s \in Spans, UNCHANGED <<configs, endedIn, scrape>>,
         fate[s] # "none", fate'[s] # "none",
         Cardinality(Ended) <= Cardinality(Ended'),
         s \in Requests /\ stage'[s] \in Fresh => stage[s] \in Fresh,
         endedIn[s] \in 1 .. Now => Fated(s)'
  PROVE  SpanTold(s)'
<1>1. /\ SpanTold(s) /\ endedIn[s] \in 1 .. Now
      /\ ~ (s \in Requests /\ stage'[s] \in Fresh)
  BY DEF SpanInv, SpanTold
<1>2. Now' = Now /\ configs' = configs /\ endedIn' = endedIn /\ scrape' = scrape
  BY DEF Now
<1>3. scrape'[s] # Absent => (scrape'[s].requests > Cardinality(Ended') =>
                                scrape[s].requests > Cardinality(Ended))
  <2>1. scrape[s] # Absent => scrape[s].requests \in Nat
    BY DEF SpanInv, TelemetryTyped, Texts
  <2>2. Cardinality(Ended) \in Nat /\ Cardinality(Ended') \in Nat
    <3>1. Ended' \in SUBSET Spans
      BY DEF Ended
    <3>2. IsFiniteSet(Ended')
      BY <3>1, TelemetryAssumption, FS_Subset
    <3>3. QED
      BY <3>2, EndedFinite, FS_CardinalityType
  <2>3. QED
    BY <1>2, <2>1, <2>2
<1>4. QED
  BY <1>1, <1>2, <1>3 DEF SpanTold

\* What an export or the loss of the process leaves to be shown of the spans.
LEMMA FatesMoveInv ==
  ASSUME SpanInv, UNCHANGED <<asks, env, saved, exporting, configs, endedIn, requests, scrape>>,
         stage' \in [Requests -> Stages],
         \A r \in Requests : stage'[r] \in Fresh => stage[r] \in Fresh,
         fate' \in [Spans -> Fates],
         \A s \in Spans : fate[s] = "none" <=> fate'[s] = "none",
         batch' \in [fault : Faults, stalled : BOOLEAN] \cup {Absent},
         shown' \in [Spans -> Shows \cup {Absent}],
         arrivedIn' \in [Spans -> Nat \cup {Absent}],
         \A s \in Spans : endedIn[s] \in 1 .. Now => Fated(s)'
  PROVE  SpanInv'
<1>1. TelemetryTyped' /\ FromAScene'
  BY DEF SpanInv, TelemetryTyped, FromAScene
<1>2. Ended' = Ended
  BY DEF Ended
<1>3. requests' <= Cardinality(Ended') /\ Cardinality(Ended) <= Cardinality(Ended')
  BY <1>2, EndedFinite DEF SpanInv
<1>4. ASSUME NEW s \in Spans PROVE SpanTold(s)'
  <2>1. CASE fate[s] = "none"
    <3>1. Kept /\ Now' \in Nat /\ fate'[s] = "none"
      BY <2>1, KeptWhenSame, CurrentType DEF SpanInv, Now
    <3>2. /\ SpanTold(s) /\ Now' = Now /\ configs' = configs
          /\ endedIn'[s] = endedIn[s] /\ scrape'[s] = scrape[s] /\ Ended' = Ended
      BY <1>2 DEF SpanInv, Now
    <3>3. QED
      BY <2>1, <3>1, <3>2 DEF SpanTold, Fated
  <2>2. CASE fate[s] # "none"
    BY <2>2, <1>3, SpanMoves
  <2>3. QED
    BY <2>1, <2>2
<1>5. QED
  BY <1>1, <1>3, <1>4 DEF SpanInv

LEMMA CorruptedType ==
  ASSUME NEW f \in Faults
  PROVE  Corrupted(f) \in Shows /\ Honest \in Shows /\ Corrupted(NoFault) = Honest
<1>1. MaxSkew \in Nat
  BY TelemetryAssumption
<1>2. \A ms \in Int : Clamp(ms) \in -MaxSkew .. MaxSkew
  BY <1>1 DEF Clamp
<1>3. f.skew # Absent => Clamp(f.skew) \in -MaxSkew .. MaxSkew
  BY <1>2 DEF Faults
<1>4. Corrupted(f) \in Shows
  BY <1>1, <1>3 DEF Corrupted, Shows, Faults
<1>5. Honest \in Shows
  BY <1>1 DEF Honest, Shows
<1>6. Corrupted(NoFault) = Honest
  BY DEF Corrupted, NoFault, Honest
<1>7. QED
  BY <1>4, <1>5, <1>6

\* A batch takes the fault of now, which every span in it ended before or under.
LEMMA ExportBeginsInv ==
  ASSUME SpanInv, ExportBegins, UNCHANGED <<asks, env, stage, saved>>
  PROVE  SpanInv'
<1>1. TelemetryTyped /\ Now \in Nat \ {0} /\ Current \in Faults /\ stage \in [Requests -> Stages]
  BY CurrentType DEF SpanInv
<1>2. PICK fault \in Faults : /\ batch' = [fault |-> fault, stalled |-> fault.latency]
                              /\ fault = NoFault \/ (CanFire(Current) /\ fault = Current)
  <2>1. PICK coin \in BOOLEAN :
          LET fault == IF Fires(Current, coin) THEN Current ELSE NoFault
          IN  batch' = [fault |-> fault, stalled |-> fault.latency]
    BY DEF ExportBegins
  <2>2. Fires(Current, coin) => CanFire(Current)
    BY DEF Fires, CanFire
  <2>3. CASE Fires(Current, coin)
    BY <1>1, <2>1, <2>2, <2>3
  <2>4. CASE ~Fires(Current, coin)
    BY <2>1, <2>4, NoFaultType
  <2>5. QED
    BY <2>3, <2>4
<1>3. batch' \in [fault : Faults, stalled : BOOLEAN] /\ batch'.fault = fault
  BY <1>2 DEF Faults
<1>4. /\ UNCHANGED <<exporting, configs, endedIn, shown, arrivedIn, requests, scrape>>
      /\ fate' = [s \in Spans |-> IF s \in Queued THEN "leaving" ELSE fate[s]]
      /\ Now' = Now
  BY DEF ExportBegins, Now
<1>5. fate' \in [Spans -> Fates] /\ \A s \in Spans : fate[s] = "none" <=> fate'[s] = "none"
  BY <1>1, <1>4 DEF TelemetryTyped, Fates, Queued
<1>6. ASSUME NEW s \in Spans, endedIn[s] \in 1 .. Now PROVE Fated(s)'
  <2>1. \/ batch'.fault = NoFault
        \/ \E j \in endedIn[s] .. Now : CanFire(configs[j]) /\ batch'.fault = configs[j]
    <3>1. Now \in endedIn[s] .. Now
      BY <1>1, <1>6
    <3>2. QED
      BY <1>2, <1>3, <3>1 DEF Current, Now
  <2>2. fate'[s] \in {"received", "dropped"} => fate'[s] = fate[s]
    BY <1>4
  <2>3. Fated(s)
    BY DEF SpanInv, SpanTold
  <2>4. QED
    BY <1>4, <2>1, <2>2, <2>3 DEF Fated
<1>7. shown' \in [Spans -> Shows \cup {Absent}] /\ arrivedIn' \in [Spans -> Nat \cup {Absent}]
  BY <1>1, <1>4 DEF TelemetryTyped
<1>8. QED
  BY <1>1, <1>3, <1>4, <1>5, <1>6, <1>7, FatesMoveInv

LEMMA StallEndsInv ==
  ASSUME SpanInv, StallEnds, UNCHANGED <<asks, env, stage, saved>>
  PROVE  SpanInv'
<1>1. TelemetryTyped /\ stage \in [Requests -> Stages] /\ batch # Absent
  BY DEF SpanInv, StallEnds
<1>2. /\ UNCHANGED <<exporting, configs, endedIn, fate, shown, arrivedIn, requests, scrape>>
      /\ batch' \in [fault : Faults, stalled : BOOLEAN] /\ batch'.fault = batch.fault
      /\ Now' = Now
  BY <1>1 DEF StallEnds, TelemetryTyped, Now
<1>3. \A s \in Spans : Fated(s)'
  BY <1>1, <1>2 DEF SpanInv, SpanTold, Fated
<1>4. /\ shown' \in [Spans -> Shows \cup {Absent}] /\ arrivedIn' \in [Spans -> Nat \cup {Absent}]
      /\ fate' \in [Spans -> Fates] /\ \A s \in Spans : fate[s] = "none" <=> fate'[s] = "none"
  BY <1>1, <1>2 DEF TelemetryTyped
<1>5. QED
  BY <1>1, <1>2, <1>3, <1>4, FatesMoveInv

\* The spans of the batch come to one end: each as its new fate asks, if that asks.
LEMMA BatchEndsInv ==
  ASSUME SpanInv, NEW what \in {"dropped", "received", "failed"}, BatchIs(what),
         UNCHANGED <<asks, env, stage, saved>>,
         shown' \in [Spans -> Shows \cup {Absent}],
         arrivedIn' \in [Spans -> Nat \cup {Absent}],
         \A s \in Spans : fate[s] # "leaving" => shown'[s] = shown[s] /\ arrivedIn'[s] = arrivedIn[s],
         what = "received" =>
           /\ ~batch.fault.drop
           /\ \A s \in Leaving : shown'[s] = Corrupted(batch.fault) /\ arrivedIn'[s] = Now,
         what = "dropped" => batch.fault.drop
  PROVE  SpanInv'
<1>1. TelemetryTyped /\ stage \in [Requests -> Stages] /\ Now \in Nat \ {0}
  BY CurrentType DEF SpanInv
<1>2. /\ UNCHANGED <<exporting, configs, endedIn, requests, scrape>> /\ Now' = Now
      /\ batch # Absent /\ batch' = Absent
      /\ fate' = [s \in Spans |-> IF s \in Leaving THEN what ELSE fate[s]]
  BY DEF BatchIs, Now
<1>3. /\ fate' \in [Spans -> Fates]
      /\ \A s \in Spans : fate[s] = "none" <=> fate'[s] = "none"
      /\ \A s \in Spans : fate'[s] = IF fate[s] = "leaving" THEN what ELSE fate[s]
  BY <1>1, <1>2 DEF TelemetryTyped, Fates, Leaving
<1>4. batch.fault \in Faults /\ Corrupted(batch.fault) \in Shows /\ Corrupted(NoFault) = Honest
  BY <1>1, <1>2, CorruptedType DEF TelemetryTyped
<1>5. ASSUME NEW s \in Spans PROVE Fated(s)'
  <2>1. Fated(s)
    BY DEF SpanInv, SpanTold
  <2>2. CASE fate[s] # "leaving"
    <3>1. fate'[s] = fate[s] /\ shown'[s] = shown[s] /\ arrivedIn'[s] = arrivedIn[s]
      BY <1>3, <2>2
    <3>2. QED
      BY <1>2, <2>1, <2>2, <3>1 DEF Fated
  <2>3. CASE fate[s] = "leaving" /\ what = "failed"
    BY <1>3, <2>3 DEF Fated
  <2>4. CASE fate[s] = "leaving" /\ what = "dropped"
    <3>1. batch.fault # NoFault
      BY <2>4 DEF NoFault
    <3>2. fate'[s] = "dropped"
      BY <1>3, <2>4
    <3>3. \E j \in endedIn[s] .. Now : CanFire(configs[j]) /\ configs[j].drop
      BY <1>2, <2>1, <2>4, <3>1 DEF Fated
    <3>4. QED
      BY <1>2, <3>2, <3>3 DEF Fated
  <2>5. CASE fate[s] = "leaving" /\ what = "received"
    <3>1. shown'[s] = Corrupted(batch.fault) /\ arrivedIn'[s] = Now /\ fate'[s] = "received"
      BY <1>3, <2>5 DEF Leaving
    <3>2. \/ shown'[s] = Honest
          \/ \E j \in endedIn[s] .. Now : CanFire(configs[j]) /\ shown'[s] = Corrupted(configs[j])
      BY <1>2, <1>4, <2>1, <2>5, <3>1 DEF Fated
    <3>3. QED
      BY <1>1, <1>2, <1>4, <3>1, <3>2 DEF Fated
  <2>6. QED
    BY <2>2, <2>3, <2>4, <2>5
<1>6. QED
  BY <1>1, <1>2, <1>3, <1>5, FatesMoveInv

LEMMA ExportInv ==
  ASSUME SpanInv, Export, UNCHANGED <<asks, env, stage, saved>>
  PROVE  SpanInv'
<1>1. /\ shown \in [Spans -> Shows \cup {Absent}] /\ arrivedIn \in [Spans -> Nat \cup {Absent}]
      /\ batch # Absent => batch.fault \in Faults
      /\ Now \in Nat
  BY CurrentType DEF SpanInv, TelemetryTyped
<1>2. CASE ExportBegins
  BY <1>2, ExportBeginsInv
<1>3. CASE StallEnds
  BY <1>3, StallEndsInv
<1>4. CASE ExportDropped
  <2>1. BatchIs("dropped") /\ batch.fault.drop /\ UNCHANGED <<shown, arrivedIn>>
    BY <1>4 DEF ExportDropped
  <2>2. QED
    BY <1>1, <2>1, BatchEndsInv
<1>5. CASE ExportArrives
  <2>1. /\ BatchIs("received") /\ ~batch.fault.drop /\ batch # Absent
        /\ shown' = [s \in Spans |-> IF s \in Leaving THEN Corrupted(batch.fault) ELSE shown[s]]
        /\ arrivedIn' = [s \in Spans |-> IF s \in Leaving THEN Now ELSE arrivedIn[s]]
    BY <1>5 DEF ExportArrives
  <2>2. Corrupted(batch.fault) \in Shows
    BY <1>1, <2>1, CorruptedType
  <2>3. /\ shown' \in [Spans -> Shows \cup {Absent}] /\ arrivedIn' \in [Spans -> Nat \cup {Absent}]
        /\ \A s \in Leaving : shown'[s] = Corrupted(batch.fault) /\ arrivedIn'[s] = Now
        /\ \A s \in Spans :
             fate[s] # "leaving" => shown'[s] = shown[s] /\ arrivedIn'[s] = arrivedIn[s]
    BY <1>1, <2>1, <2>2 DEF Leaving
  <2>4. QED
    BY <2>1, <2>3, BatchEndsInv
<1>6. CASE ExportFails
  <2>1. BatchIs("failed") /\ UNCHANGED <<shown, arrivedIn>>
    BY <1>6 DEF ExportFails
  <2>2. QED
    BY <1>1, <2>1, BatchEndsInv
<1>7. QED
  BY <1>2, <1>3, <1>4, <1>5, <1>6 DEF Export

\* What had not left is lost with the process; nothing is shown of it.
LEMMA SpansLostInv ==
  ASSUME SpanInv, SpansLost, UNCHANGED <<asks, env, saved, exporting, requests>>,
         stage' \in [Requests -> Stages],
         \A r \in Requests : stage'[r] \in Fresh => stage[r] \in Fresh
  PROVE  SpanInv'
<1>1. TelemetryTyped
  BY DEF SpanInv
<1>2. /\ UNCHANGED <<configs, endedIn, shown, arrivedIn, scrape>> /\ Now' = Now
      /\ batch' = Absent
      /\ fate' = [s \in Spans |-> IF s \in Queued \union Leaving THEN "lost" ELSE fate[s]]
  BY DEF SpansLost, Now
<1>3. fate' \in [Spans -> Fates] /\ \A s \in Spans : fate[s] = "none" <=> fate'[s] = "none"
  BY <1>1, <1>2 DEF TelemetryTyped, Fates, Queued, Leaving
<1>4. \A s \in Spans : fate'[s] \in {"received", "dropped"} => fate'[s] = fate[s]
  BY <1>2
<1>5. \A s \in Spans : Fated(s)'
  BY <1>2, <1>4 DEF SpanInv, SpanTold, Fated
<1>6. shown' \in [Spans -> Shows \cup {Absent}] /\ arrivedIn' \in [Spans -> Nat \cup {Absent}]
  BY <1>1, <1>2 DEF TelemetryTyped
<1>7. QED
  BY <1>2, <1>3, <1>5, <1>6, FatesMoveInv

-----------------------------------------------------------------------------
(* The process's steps.                                                    *)

\* Where a step of a mail request leaves it.
LEMMA ServeMoves ==
  ASSUME NEW r \in Requests, stage \in [Requests -> Stages], MailServe(r)
  PROVE  \E next \in Stages \ {"idle"} :
           /\ stage' = [stage EXCEPT ![r] = next]
           /\ next \in Fresh => stage[r] \in Fresh
           /\ UNCHANGED <<asks, env>>
<1>1. CASE Deliver(r)
  BY <1>1 DEF MailServe, Deliver, Go, Stages, Fresh
<1>2. CASE Confirm(r) \/ SendFails(r) \/ AllFetched(r) \/ ReadFails(r) \/ Purge(r)
  BY <1>2 DEF MailServe, Confirm, SendFails, AllFetched, ReadFails, Purge, Answer, Stages, Fresh
<1>3. CASE ListAll(r)
  <2>1. CASE asks[r].all
    BY <1>3, <2>1 DEF MailServe, ListAll, Answer, Stages, Fresh
  <2>2. CASE ~asks[r].all
    BY <1>3, <2>2 DEF MailServe, ListAll, Go, Stages, Fresh
  <2>3. QED
    BY <2>1, <2>2
<1>4. CASE FetchHeader(r)
  <2>1. stage' = stage /\ stage[r] = "headers" /\ UNCHANGED <<asks, env>>
    BY <1>4 DEF FetchHeader, requestVars
  <2>2. stage' = [stage EXCEPT ![r] = "headers"] /\ "headers" \in Stages \ {"idle"}
    BY <2>1 DEF Stages
  <2>3. QED
    BY <2>1, <2>2 DEF Fresh
<1>5. QED
  BY <1>1, <1>2, <1>3, <1>4 DEF MailServe

\* A request moves on, and with it its span if it was in one.
LEMMA SpanFollowsInv ==
  ASSUME SpanInv, NEW r \in Requests, NEW next \in Stages \ {"idle"}, SpanFollows(r),
         stage' = [stage EXCEPT ![r] = next], next \in Fresh => stage[r] \in Fresh,
         UNCHANGED <<asks, env, saved>>
  PROVE  SpanInv'
<1>1. stage \in [Requests -> Stages] /\ r \in Spans /\ TelemetryTyped
  BY ProcessAssumption DEF SpanInv
<1>2. /\ stage' \in [Requests -> Stages] /\ stage'[r] = next
      /\ \A q \in Requests : stage'[q] \in Fresh => stage[q] \in Fresh
  BY <1>1
<1>3. CASE InSpan(r) /\ ~InSpan(r)'
  <2>1. SpanEnds(r) /\ requests' = requests
    BY <1>3 DEF SpanFollows
  <2>2. stage[r] \in Fresh /\ next \notin Fresh
    BY <1>2, <1>3 DEF InSpan, Fresh
  <2>3. fate[r] = "none" /\ scrape[r] = Absent
    BY <1>1, <2>2 DEF SpanInv, SpanTold
  <2>4. QED
    BY <1>1, <1>2, <2>1, <2>2, <2>3, SpanEndsInv
<1>4. CASE ~(InSpan(r) /\ ~InSpan(r)')
  <2>1. UNCHANGED telemetryVars
    BY <1>4 DEF SpanFollows
  <2>2. /\ UNCHANGED <<endedIn, fate, shown, arrivedIn, batch, scrape>>
        /\ configs' = configs /\ exporting' \in BOOLEAN /\ requests' \in {0, requests}
        /\ saved' # None => saved'.telemetry \in Faults
    BY <1>1, <2>1 DEF telemetryVars, TelemetryTyped
  <2>3. QED
    BY <1>2, <2>2, SpansQuiet
<1>5. QED
  BY <1>3, <1>4

\* Boot reads configurations, and decides whether spans are exported.
LEMMA BootSpans == ASSUME SpanInv, Boot PROVE SpanInv'
<1>1. TelemetryTyped /\ stage \in [Requests -> Stages] /\ env.telemetry \in Faults
  BY SceneTyped DEF SpanInv
<1>2. /\ UNCHANGED <<asks, env, stage, saved, endedIn, fate, shown, arrivedIn, batch, requests, scrape>>
      /\ exporting' \in BOOLEAN
      /\ configs' = configs \/ \E f \in Faults : configs' = Append(configs, f)
  <2>1. CASE ReadControl
    <3>1. /\ UNCHANGED <<asks, env, stage, saved, endedIn, fate, shown, arrivedIn, batch, requests, scrape>>
          /\ exporting' = exporting
          /\ \/ configs' = configs
             \/ /\ ~RefusesToBoot
                /\ configs' = Append(configs, IF Restores THEN saved.telemetry ELSE env.telemetry)
      BY <2>1 DEF ReadControl, requestVars
    <3>2. ~RefusesToBoot /\ Restores => saved.telemetry \in Faults
      BY <1>1 DEF RefusesToBoot, Restores, TelemetryTyped
    <3>3. QED
      BY <1>1, <3>1, <3>2 DEF TelemetryTyped
  <2>2. CASE InstallTelemetry
    BY <2>2 DEF InstallTelemetry, requestVars
  <2>3. CASE ConnectData \/ ConnectQueue \/ ProbeMail \/ Bind
    BY <1>1, <2>3 DEF ConnectData, ConnectQueue, ProbeMail, Bind, requestVars, telemetryVars,
                      TelemetryTyped
  <2>4. QED
    BY <2>1, <2>2, <2>3 DEF Boot
<1>3. QED
  <2>1. /\ requests' \in {0, requests} /\ stage' \in [Requests -> Stages]
        /\ saved' # None => saved'.telemetry \in Faults
    BY <1>1, <1>2 DEF TelemetryTyped
  <2>2. QED
    BY <1>2, <2>1, SpansQuiet

LEMMA ServeSpans == ASSUME SpanInv, NEW r \in Requests, Serve(r) PROVE SpanInv'
<1>1. /\ TelemetryTyped /\ stage \in [Requests -> Stages] /\ r \in Spans
      /\ stage[r] \in Fresh => fate[r] = "none" /\ scrape[r] = Absent
  BY ProcessAssumption DEF SpanInv, SpanTold
<1> DEFINE Quiet == UNCHANGED <<endedIn, fate, shown, arrivedIn, batch, scrape, exporting, requests>>
<1>2. ASSUME NEW next \in Stages \ Fresh, stage' = [stage EXCEPT ![r] = next]
      PROVE  /\ stage' \in [Requests -> Stages]
             /\ \A q \in Requests : stage'[q] \in Fresh => stage[q] \in Fresh /\ q # r
  BY <1>1, <1>2 DEF Fresh
<1>3. {"done", "events", "streaming"} \subseteq Stages \ Fresh
  BY DEF Stages, Fresh
<1>4. CASE MailRequest(r)
  <2>1. PICK next \in Stages \ {"idle"} : stage' = [stage EXCEPT ![r] = next]
    BY <1>4 DEF MailRequest, MailArrive, MailOps, Answer, Go, Stages
  <2>2. stage[r] \in Fresh /\ UNCHANGED <<asks, env, saved>> /\ UNCHANGED telemetryVars
    BY <1>4 DEF MailRequest, MailArrive, Fresh, processVars
  <2>3. /\ UNCHANGED <<endedIn, fate, shown, arrivedIn, batch, scrape>>
        /\ configs' = configs /\ exporting' \in BOOLEAN /\ requests' \in {0, requests}
        /\ saved' # None => saved'.telemetry \in Faults
    BY <1>1, <2>2 DEF telemetryVars, TelemetryTyped
  <2>4. /\ stage' \in [Requests -> Stages]
        /\ \A q \in Requests : stage'[q] \in Fresh => stage[q] \in Fresh
    BY <1>1, <2>1, <2>2
  <2>5. QED
    BY <2>2, <2>3, <2>4, SpansQuiet
<1>5. CASE MailProgress(r)
  <2>1. MailServe(r) /\ SpanFollows(r) /\ saved' = saved
    BY <1>5 DEF MailProgress, processVars
  <2>2. QED
    BY <1>1, <2>1, ServeMoves, SpanFollowsInv
<1>6. CASE Work(r)
  <2>1. /\ stage[r] = "idle" /\ stage' = [stage EXCEPT ![r] = "work"]
        /\ UNCHANGED <<asks, env, saved>> /\ UNCHANGED telemetryVars
    BY <1>6 DEF Work, Arrives, Go, processVars
  <2>2. /\ UNCHANGED <<endedIn, fate, shown, arrivedIn, batch, scrape>>
        /\ configs' = configs /\ exporting' \in BOOLEAN /\ requests' \in {0, requests}
        /\ saved' # None => saved'.telemetry \in Faults
    BY <1>1, <2>1 DEF telemetryVars, TelemetryTyped
  <2>3. /\ stage' \in [Requests -> Stages]
        /\ \A q \in Requests : stage'[q] \in Fresh => stage[q] \in Fresh
    BY <1>1, <2>1 DEF Stages, Fresh
  <2>4. QED
    BY <2>1, <2>2, <2>3, SpansQuiet
<1>7. CASE WorkEnds(r)
  <2>1. /\ stage[r] = "work" /\ Recorded(r) /\ UNCHANGED <<asks, env, saved>>
        /\ \E next \in {"done", "streaming"} : stage' = [stage EXCEPT ![r] = next]
    BY <1>7 DEF WorkEnds, Answer, Go, processVars
  <2>2. SpanEnds(r) /\ requests' \in {requests, requests + 1}
    BY <2>1 DEF Recorded
  <2>3. QED
    BY <1>1, <1>2, <1>3, <2>1, <2>2, SpanEndsInv DEF Fresh
<1>8. CASE Metrics(r)
  <2>1. /\ stage[r] = "idle" /\ stage' = [stage EXCEPT ![r] = "done"]
        /\ Scrape(r, Cardinality(Subscribers))
        /\ UNCHANGED <<asks, env, saved>>
    BY <1>8 DEF Metrics, Arrives, Answer, processVars
  <2>2. Cardinality(Subscribers) \in Nat
    <3>1. Subscribers \in SUBSET Spans
      BY ProcessAssumption DEF Subscribers
    <3>2. QED
      BY <3>1, TelemetryAssumption, FS_Subset, FS_CardinalityType
  <2>3. QED
    BY <1>1, <1>2, <1>3, <2>1, <2>2, ScrapeInv DEF Fresh
<1>9. CASE \/ Page(r) \/ Subscribe(r) \/ StreamEnds(r) \/ SetClock(r)
          \/ SetTelemetry(r) \/ Reset(r) \/ Save(r)
  <2>1. /\ \E next \in {"done", "events"} : stage' = [stage EXCEPT ![r] = next]
        /\ UNCHANGED <<asks, env, endedIn, fate, shown, arrivedIn, batch, scrape, exporting, requests>>
    BY <1>9 DEF Page, Subscribe, StreamEnds, SetClock, SetTelemetry, Reset, Save, Answer, Go,
                telemetryVars, Configure
  <2>2. configs' = configs \/ \E f \in Faults : configs' = Append(configs, f)
    <3>1. CASE SetTelemetry(r)
      <4>1. /\ configs' = Append(configs, IF asks[r].fault = None THEN env.telemetry ELSE asks[r].fault)
            /\ asks[r].op = "telemetry"
        BY <3>1 DEF SetTelemetry, Configure, Arrives
      <4>2. env.telemetry \in Faults /\ asks[r].fault \in Faults \cup {None}
        BY <4>1, SceneTyped DEF SpanInv
      <4>3. QED
        BY <4>1, <4>2
    <3>2. CASE Reset(r)
      <4>1. configs' = Append(configs, env.telemetry)
        BY <3>2 DEF Reset, Configure
      <4>2. QED
        BY <4>1, SceneTyped DEF SpanInv
    <3>3. CASE Page(r) \/ Subscribe(r) \/ StreamEnds(r) \/ SetClock(r) \/ Save(r)
      BY <3>3 DEF Page, Subscribe, StreamEnds, SetClock, Save, telemetryVars
    <3>4. QED
      BY <1>9, <3>1, <3>2, <3>3
  <2>3. saved' # None => saved'.telemetry \in Faults
    <3>1. CASE Save(r)
      BY <1>1, <3>1, CurrentType DEF Save
    <3>2. CASE \/ Page(r) \/ Subscribe(r) \/ StreamEnds(r) \/ SetClock(r)
              \/ SetTelemetry(r) \/ Reset(r)
      BY <1>1, <3>2 DEF Page, Subscribe, StreamEnds, SetClock, SetTelemetry, Reset, processVars,
                        TelemetryTyped
    <3>3. QED
      BY <1>9, <3>1, <3>2
  <2>4. exporting' \in BOOLEAN /\ requests' \in {0, requests}
    BY <1>1, <2>1 DEF TelemetryTyped
  <2>5. /\ stage' \in [Requests -> Stages]
        /\ \A q \in Requests : stage'[q] \in Fresh => stage[q] \in Fresh
    BY <1>2, <1>3, <2>1
  <2>6. QED
    BY <2>1, <2>2, <2>3, <2>4, <2>5, SpansQuiet
<1>10. QED
  BY <1>4, <1>5, <1>6, <1>7, <1>8, <1>9 DEF Serve

LEMMA LeaveSpans == ASSUME SpanInv, NEW r \in Requests, Leave(r) PROVE SpanInv'
<1>1. /\ stage' = [stage EXCEPT ![r] = "left"] /\ SpanFollows(r) /\ UNCHANGED <<asks, env, saved>>
  BY DEF Leave, Go, processVars
<1>2. "left" \in Stages \ {"idle"} /\ "left" \notin Fresh
  BY DEF Stages, Fresh
<1>3. QED
  BY <1>1, <1>2, SpanFollowsInv

LEMMA EndSpans ==
  ASSUME SpanInv, World \/ Signal \/ Drained \/ Flushed \/ FlushTimesOut \/ Kill \/ Restart
  PROVE  SpanInv'
<1>1. TelemetryTyped /\ stage \in [Requests -> Stages]
  BY DEF SpanInv
<1>2. CASE World \/ Signal \/ Drained \/ Flushed \/ Restart
  <2>1. /\ UNCHANGED <<asks, env, stage, saved, configs, endedIn, fate, shown, arrivedIn, batch, scrape>>
        /\ exporting' \in {FALSE, exporting} /\ requests' \in {0, requests}
    BY <1>2 DEF World, ForeignMail, MailServerStops, Signal, Drained, Flushed, Restart,
                requestVars, telemetryVars, processVars
  <2>2. /\ exporting' \in BOOLEAN /\ stage' \in [Requests -> Stages]
        /\ saved' # None => saved'.telemetry \in Faults
    BY <1>1, <2>1 DEF TelemetryTyped
  <2>3. QED
    BY <2>1, <2>2, SpansQuiet
<1>3. CASE FlushTimesOut
  BY <1>1, <1>3, SpansLostInv DEF FlushTimesOut, requestVars
<1>4. CASE Kill
  <2>1. /\ SpansLost /\ UNCHANGED <<asks, env, saved, exporting, requests>>
        /\ stage' = [r \in Requests |-> IF InFlight(r) THEN "cut" ELSE stage[r]]
    BY <1>4 DEF Kill
  <2>2. /\ stage' \in [Requests -> Stages]
        /\ \A r \in Requests : stage'[r] \in Fresh => stage[r] \in Fresh
    BY <1>1, <2>1 DEF Stages, Fresh
  <2>3. QED
    BY <2>1, <2>2, SpansLostInv
<1>5. QED
  BY <1>2, <1>3, <1>4

LEMMA NextSpans == SpanInv /\ [Next]_vars => SpanInv'
<1> SUFFICES ASSUME SpanInv, [Next]_vars PROVE SpanInv'
  OBVIOUS
<1>1. CASE Boot
  BY <1>1, BootSpans
<1>2. CASE Exports
  BY <1>2, ExportInv DEF Exports, requestVars, processVars
<1>3. CASE \E r \in Requests : Serve(r) \/ Leave(r)
  BY <1>3, ServeSpans, LeaveSpans
<1>4. CASE World \/ Signal \/ Drained \/ Flushed \/ FlushTimesOut \/ Kill \/ Restart
  BY <1>4, EndSpans
<1>5. CASE UNCHANGED vars
  <2>1. UNCHANGED <<asks, env, stage, saved, exporting, configs, endedIn, fate, shown, arrivedIn,
                    batch, requests, scrape>>
    BY <1>5 DEF vars, requestVars, telemetryVars, processVars
  <2>2. /\ exporting' \in BOOLEAN /\ requests' \in {0, requests} /\ stage' \in [Requests -> Stages]
        /\ saved' # None => saved'.telemetry \in Faults
    BY <2>1 DEF SpanInv, TelemetryTyped
  <2>3. QED
    BY <2>1, <2>2, SpansQuiet
<1>6. QED
  BY <1>1, <1>2, <1>3, <1>4, <1>5 DEF Next

LEMMA InitSpans == Init => SpanInv
<1> SUFFICES ASSUME Init PROVE SpanInv
  OBVIOUS
<1>1. FromAScene
  BY DEF Init, FromAScene
<1>2. /\ stage = [r \in Requests |-> "idle"] /\ saved = None
      /\ exporting = FALSE /\ configs = <<NoFault>> /\ batch = Absent /\ requests = 0
      /\ endedIn = [s \in Spans |-> Absent] /\ arrivedIn = [s \in Spans |-> Absent]
      /\ shown = [s \in Spans |-> Absent] /\ scrape = [s \in Spans |-> Absent]
      /\ fate = [s \in Spans |-> "none"]
  BY DEF Init, TelemetryInit
<1>3. configs \in Seq(Faults) /\ configs # <<>>
  BY <1>2, NoFaultType
<1>4. TelemetryTyped /\ stage \in [Requests -> Stages]
  BY <1>2, <1>3 DEF TelemetryTyped, Fates, Stages
<1>5. requests <= Cardinality(Ended)
  BY <1>2, EndedFinite
<1>6. \A s \in Spans : SpanTold(s)
  BY <1>2 DEF SpanTold, Fated
<1>7. QED
  BY <1>1, <1>4, <1>5, <1>6 DEF SpanInv

\* Invariant 11: what the collector has of a span, what is dropped on purpose and what a
\* scrape shows lie only as a configured fault says, whatever the scenes.
THEOREM ProcessLiesAreConfigured == Spec => []LiesAreConfigured
<1>1. SpanInv => LiesAreConfigured
  <2> SUFFICES ASSUME SpanInv, NEW s \in Spans
               PROVE  /\ fate[s] = "received" =>
                           /\ shown[s] = Honest \/ \E f \in AtWork(Window(s)) : shown[s] = Corrupted(f)
                           /\ shown[s].skew \in -MaxSkew .. MaxSkew
                      /\ fate[s] = "dropped" => \E f \in AtWork(Since(s)) : f.drop
                      /\ scrape[s] # Absent =>
                           LET now == AtWork({configs[endedIn[s]]})
                           IN  /\ scrape[s].junk > 0 => \E f \in now : scrape[s].junk = f.bomb
                               /\ scrape[s].requests > Cardinality({t \in Spans : fate[t] # "none"}) =>
                                    \E f \in now : f.reset
    BY DEF LiesAreConfigured
  <2>1. SpanTold(s) /\ Fated(s)
    BY DEF SpanInv, SpanTold
  <2>2. ASSUME fate[s] = "received"
        PROVE  /\ shown[s] = Honest \/ \E f \in AtWork(Window(s)) : shown[s] = Corrupted(f)
               /\ shown[s].skew \in -MaxSkew .. MaxSkew
    BY <2>1, <2>2 DEF Fated, AtWork, Window, CanFire, Shows
  <2>3. fate[s] = "dropped" => \E f \in AtWork(Since(s)) : f.drop
    BY <2>1 DEF Fated, AtWork, Since, CanFire
  <2>4. QED
    BY <2>1, <2>2, <2>3 DEF SpanTold, AtWork, CanFire, Ended
<1>2. QED
  BY <1>1, InitSpans, NextSpans, PTL DEF Spec

-----------------------------------------------------------------------------
(* The mail surface, step by step.                                         *)

\* No request that is past arriving and sending goes back, or acts as another run.
Settled ==
  \A r \in Requests : stage[r] \notin {"idle", "send"} =>
    acting'[r] = acting[r] /\ stage'[r] \notin {"idle", "send"}

LEMMA PostedStays ==
  ASSUME Settled, NEW m, Posted(m)
  PROVE  Posted(m)'
  BY DEF Settled, Posted

LEMMA BoxesSame ==
  ASSUME Boxes, Settled, UNCHANGED <<env, mailpit, listed, kept, at>>
  PROVE  Boxes'
  BY PostedStays DEF Boxes

LEMMA OursSame ==
  ASSUME Boxes, Settled, NEW r \in Requests, NEW n \in Nat, n <= Len(listed[r]),
         acting'[r] = acting[r], listed'[r] = listed[r]
  PROVE  Ours(r, n)' = Ours(r, n)
<1>1. listed[r] \in Seq(Messages) /\ DOMAIN listed[r] = 1 .. Len(listed[r])
  BY DEF Boxes
<1>2. ASSUME NEW i \in 1 .. n
      PROVE  listed[r][i].id # None => acting'[listed[r][i].id] = acting[listed[r][i].id]
  <2>1. Posted(listed[r][i])
    BY <1>1 DEF Boxes
  <2>2. QED
    BY <2>1 DEF Posted, Settled
<1>3. QED
  BY <1>2 DEF Ours

\* Where a request stands is as it was if the step is not its own ...
LEMMA FitsSame ==
  ASSUME MailInv, Settled, NEW r \in Requests, UNCHANGED <<asks, env>>,
         stage'[r] = stage[r], reply'[r] = reply[r], acting'[r] = acting[r],
         listed'[r] = listed[r], at'[r] = at[r], kept'[r] = kept[r],
         accepted \subseteq accepted'
  PROVE  StageFits(r)'
<1>1. StageFits(r) /\ Boxes
  BY DEF MailInv
<1>2. stage[r] = "headers" => Ours(r, at[r] - 1)' = Ours(r, at[r] - 1)
  <2>1. at[r] - 1 \in Nat
    BY <1>1 DEF Boxes
  <2>2. stage[r] = "headers" => at[r] - 1 <= Len(listed[r])
    BY <1>1, <2>1 DEF StageFits, Boxes
  <2>3. stage[r] = "headers" => (Ours(r, at[r] - 1)' = Ours(r, at[r] - 1))
    <3> SUFFICES ASSUME stage[r] = "headers" PROVE Ours(r, at[r] - 1)' = Ours(r, at[r] - 1)
      OBVIOUS
    <3>1. \A n \in Nat : n <= Len(listed[r]) => Ours(r, n)' = Ours(r, n)
      BY <1>1, OursSame
    <3>2. QED
      BY <2>1, <2>2, <3>1 DEF Ours
  <2>4. QED
    BY <2>3
<1>3. Permits(env.allowed, asks[r].to)' = Permits(env.allowed, asks[r].to)
  OBVIOUS
<1>4. QED
  BY <1>1, <1>2, <1>3 DEF StageFits, Picks

\* ... and asks nothing more of it once it is over.
Over == {"done", "left", "cut", "events"}
LEMMA FitsOver ==
  ASSUME NEW r \in Requests, reply'[r] # None => stage'[r] = "done",
         \/ stage'[r] \in Over
         \/ stage'[r] \in Behind /\ asks'[r].op \in {"items", "stream"}
  PROVE  StageFits(r)'
  BY DEF StageFits, Over, Behind

\* What a request was told stays true, whatever it is told that is no answer to mail.
LEMMA ToldSame ==
  ASSUME MailInv, Settled, NEW r \in Requests, UNCHANGED <<asks, env>>,
         reply'[r] = reply[r] \/ asks[r].op \notin {"send", "list"},
         acting'[r] = acting[r], listed'[r] = listed[r],
         r \in accepted' <=> r \in accepted, r \in announced' <=> r \in announced
  PROVE  Told(r)'
<1>1. Told(r) /\ Boxes
  BY DEF MailInv
<1>2. Ours(r, Len(listed[r]))' = Ours(r, Len(listed[r]))
  <2>1. Len(listed[r]) \in Nat
    BY <1>1 DEF Boxes
  <2>2. \A n \in Nat : n <= Len(listed[r]) => Ours(r, n)' = Ours(r, n)
    BY <1>1, OursSame
  <2>3. QED
    BY <2>1, <2>2 DEF Ours
<1>3. Named(asks[r].to)' = Named(asks[r].to)
  BY DEF Named
<1>4. QED
  BY <1>1, <1>2, <1>3 DEF Told, Answered, Picks

\* A step of one request leaves the others where they are.
OnlyMoves(r) ==
  \A q \in Requests \ {r} :
    /\ stage'[q] = stage[q] /\ reply'[q] = reply[q] /\ acting'[q] = acting[q]
    /\ listed'[q] = listed[q] /\ at'[q] = at[q] /\ kept'[q] = kept[q]

LEMMA MailStep ==
  ASSUME MailInv, Settled, NEW r \in Requests, OnlyMoves(r),
         UNCHANGED <<asks, env, run, mailer, phase, boots>>,
         saved' = saved \/ saved'.run \in Nat,
         accepted' \in {accepted, accepted \union {r}},
         announced' \in {announced, announced \union {r}},
         RequestsTyped', Boxes', StageFits(r)', Told(r)'
  PROVE  MailInv'
<1>1. FromAScene' /\ Booted'
  BY DEF MailInv, FromAScene, Booted
<1>2. ASSUME NEW q \in Requests, q # r PROVE StageFits(q)' /\ Told(q)'
  <2>1. /\ stage'[q] = stage[q] /\ reply'[q] = reply[q] /\ acting'[q] = acting[q]
        /\ listed'[q] = listed[q] /\ at'[q] = at[q] /\ kept'[q] = kept[q]
    BY <1>2 DEF OnlyMoves
  <2>2. /\ accepted \subseteq accepted'
        /\ q \in accepted' <=> q \in accepted
        /\ q \in announced' <=> q \in announced
    BY <1>2
  <2>3. StageFits(q)'
    BY <2>1, <2>2, FitsSame
  <2>4. Told(q)'
    BY <2>1, <2>2, ToldSame
  <2>5. QED
    BY <2>3, <2>4
<1>3. QED
  BY <1>1, <1>2 DEF MailInv

LEMMA AnswerFacts ==
  ASSUME RequestsTyped, NEW r \in Requests, NEW status, NEW body, Answer(r, status, body)
  PROVE  /\ stage' \in [Requests -> Stages] /\ DOMAIN reply' = Requests
         /\ stage'[r] = "done" /\ reply'[r].status = status /\ reply'[r].body = body
         /\ \A q \in Requests \ {r} : stage'[q] = stage[q] /\ reply'[q] = reply[q]
<1>1. "done" \in Stages
  BY DEF Stages
<1>2. QED
  BY <1>1 DEF RequestsTyped, Answer

LEMMA GoFacts ==
  ASSUME RequestsTyped, NEW r \in Requests, NEW next \in Stages, Go(r, next)
  PROVE  /\ stage' \in [Requests -> Stages] /\ DOMAIN reply' = Requests
         /\ stage'[r] = next /\ reply' = reply
         /\ \A q \in Requests \ {r} : stage'[q] = stage[q]
  BY DEF RequestsTyped, Go

\* What is refused before anything is sent anywhere, and what is let through.
LEMMA RefusalFacts ==
  ASSUME NEW r \in Requests, mailer \in {"none", "mailpit", "relay"}
  PROVE  /\ Refusal(r) # 200
         /\ Refusal(r) = 403 =>
              mailer = "relay" /\ asks[r].op = "send" /\ ~Permits(env.allowed, asks[r].to)
         /\ Refusal(r) = None =>
              /\ mailer = "relay" \/ mailer = "mailpit"
              /\ asks[r].op # "purge" => RunOf(r) # NotARun
              /\ mailer = "relay" => asks[r].op = "send" /\ Permits(env.allowed, asks[r].to)
<1>1. None \notin Int /\ 503 \in Int /\ 400 \in Int /\ 501 \in Int /\ 403 \in Int /\ 200 \in Int
  BY MailAssumption
<1>2. QED
  BY <1>1 DEF Refusal

\* A request arrives: refused with a reason that is true, or let in where it may go.
LEMMA ArriveMail ==
  ASSUME MailInv, NEW r \in Requests, phase = "serving", MailArrive(r),
         UNCHANGED <<asks, env, run, mailer, phase, boots, saved>>
  PROVE  MailInv'
<1>1. /\ FromAScene /\ RequestsTyped /\ Booted /\ Boxes /\ StageFits(r) /\ Told(r)
      /\ run \in Nat /\ mailer \in {"none", "mailpit", "relay"}
      /\ mailer = "mailpit" => ~env.relay
      /\ mailer = "relay" => env.relay
  BY DEF MailInv, Booted
<1>2. /\ stage[r] = "idle" /\ asks[r].op \in MailOps
      /\ acting' = [acting EXCEPT ![r] = IF asks[r].op = "purge" THEN None ELSE RunOf(r)]
      /\ IF Refusal(r) # None THEN Answer(r, Refusal(r), None) ELSE Go(r, asks[r].op)
      /\ UNCHANGED <<mailpit, accepted, announced, listed, at, kept, reachable>>
  BY DEF MailArrive
<1>3. asks[r].op # "purge" => RunOf(r) \in Nat
  BY <1>1, <1>2, SceneTyped DEF RunOf, MailOps
<1>4. /\ acting' \in [Requests -> Nat \cup {None}]
      /\ asks[r].op # "purge" => acting'[r] \in Nat
      /\ \A q \in Requests \ {r} : acting'[q] = acting[q]
  BY <1>1, <1>2, <1>3 DEF RequestsTyped
<1>5. /\ Refusal(r) # 200
      /\ Refusal(r) = 403 =>
           mailer = "relay" /\ asks[r].op = "send" /\ ~Permits(env.allowed, asks[r].to)
      /\ Refusal(r) = None =>
           /\ mailer = "relay" \/ mailer = "mailpit"
           /\ mailer = "relay" => asks[r].op = "send" /\ Permits(env.allowed, asks[r].to)
  BY <1>1, RefusalFacts
<1>6. Permits(env.allowed, asks[r].to)' = Permits(env.allowed, asks[r].to)
      /\ Named(asks[r].to)' = Named(asks[r].to)
  BY DEF Named
<1>7. CASE Refusal(r) # None
  <2>1. Answer(r, Refusal(r), None)
    BY <1>2, <1>7
  <2>2. /\ stage' \in [Requests -> Stages] /\ DOMAIN reply' = Requests
        /\ stage'[r] = "done" /\ reply'[r].status = Refusal(r)
        /\ \A q \in Requests \ {r} : stage'[q] = stage[q] /\ reply'[q] = reply[q]
    BY <1>1, <2>1, AnswerFacts
  <2>3. Settled /\ OnlyMoves(r)
    BY <1>2, <1>4, <2>2 DEF Settled, OnlyMoves
  <2>4. RequestsTyped' /\ Boxes'
    BY <1>1, <1>2, <1>4, <2>2, <2>3, BoxesSame DEF RequestsTyped
  <2>5. StageFits(r)'
    BY <2>2, FitsOver DEF Over
  <2>6. Refusal(r) = 403 => env.relay /\ ~Named(asks[r].to)
    <3> SUFFICES ASSUME Refusal(r) = 403 PROVE env.relay /\ ~Named(asks[r].to)
      OBVIOUS
    <3>1. asks[r].to \in Seq(STRING)
      BY <1>1, <1>5, SceneTyped
    <3>2. QED
      BY <1>1, <1>5, <3>1, SceneTyped, PermitsNamed
  <2>7. Told(r)'
    BY <1>1, <1>2, <1>5, <1>6, <2>2, <2>6 DEF Told, Answered
  <2>8. QED
    BY <1>2, <2>3, <2>4, <2>5, <2>7, MailStep
<1>8. CASE Refusal(r) = None
  <2>1. Go(r, asks[r].op) /\ asks[r].op \in Stages
    BY <1>2, <1>8 DEF MailOps, Stages
  <2>2. /\ stage' \in [Requests -> Stages] /\ DOMAIN reply' = Requests
        /\ stage'[r] = asks[r].op /\ reply' = reply
        /\ \A q \in Requests \ {r} : stage'[q] = stage[q]
    BY <1>1, <2>1, GoFacts
  <2>3. Settled /\ OnlyMoves(r)
    BY <1>2, <1>4, <2>2 DEF Settled, OnlyMoves
  <2>4. RequestsTyped' /\ Boxes'
    BY <1>1, <1>2, <1>4, <2>2, <2>3, BoxesSame DEF RequestsTyped
  <2>5. reply'[r] = None
    BY <1>1, <1>2, <2>2 DEF StageFits
  <2>6. StageFits(r)'
    <3>1. at[r] = 1 /\ kept[r] = <<>>
      BY <1>1, <1>2 DEF StageFits
    <3>2. stage'[r] \in {"send", "list", "purge"}
      BY <1>2, <2>2 DEF MailOps
    <3>3. /\ stage'[r] = "list" => ~env.relay
          /\ stage'[r] = "send" /\ env.relay => Permits(env.allowed, asks[r].to)
      BY <1>1, <1>5, <1>8, <2>2
    <3>4. QED
      BY <1>2, <1>4, <1>6, <2>2, <2>5, <3>1, <3>2, <3>3 DEF StageFits, Behind
  <2>7. Told(r)'
    BY <1>1, <1>2, <1>6, <2>5 DEF Told, Answered
  <2>8. QED
    BY <1>2, <2>3, <2>4, <2>6, <2>7, MailStep
<1>9. QED
  BY <1>7, <1>8

\* The server takes a mail: no message of this request was there before.
LEMMA DeliverMail ==
  ASSUME MailInv, NEW r \in Requests, Deliver(r),
         UNCHANGED <<asks, env, run, mailer, phase, boots, saved>>
  PROVE  MailInv'
<1>1. /\ FromAScene /\ RequestsTyped /\ Boxes /\ StageFits(r) /\ Told(r)
      /\ mailer = "mailpit" => ~env.relay
  BY DEF MailInv, Booted
<1>2. /\ stage[r] = "send" /\ Go(r, "handed")
      /\ accepted' = accepted \union {r}
      /\ mailpit' = IF mailer = "mailpit" THEN <<Tagged(r)>> \o mailpit ELSE mailpit
      /\ UNCHANGED <<acting, announced, listed, at, kept, reachable>>
  BY DEF Deliver
<1>3. /\ stage' \in [Requests -> Stages] /\ DOMAIN reply' = Requests
      /\ stage'[r] = "handed" /\ reply' = reply
      /\ \A q \in Requests \ {r} : stage'[q] = stage[q]
  <2>1. "handed" \in Stages
    BY DEF Stages
  <2>2. QED
    BY <1>1, <1>2, <2>1, GoFacts
<1>4. Settled /\ OnlyMoves(r)
  BY <1>2, <1>3 DEF Settled, OnlyMoves
<1>5. RequestsTyped'
  BY <1>1, <1>2, <1>3 DEF RequestsTyped
<1>6. /\ mailpit \in Seq(Messages) /\ Len(mailpit) \in Nat /\ DOMAIN mailpit = 1 .. Len(mailpit)
      /\ \A i \in 1 .. Len(mailpit) : Posted(mailpit[i])
      /\ \A i, k \in 1 .. Len(mailpit) :
           mailpit[i].id = mailpit[k].id /\ mailpit[i].id # None => i = k
  BY <1>1 DEF Boxes
<1> PICK tag : tag = Tagged(r)
  OBVIOUS
<1>7. tag \in Messages /\ tag.id = r /\ Posted(tag)' /\ r # None
  <2>1. acting[r] \in Nat \cup {None}
    BY <1>1 DEF RequestsTyped
  <2>2. QED
    BY <1>2, <1>3, <2>1, MailAssumption DEF Tagged, Messages, Posted
<1>8. \A i \in 1 .. Len(mailpit) : mailpit[i].id # r
  BY <1>2, <1>6, <1>7 DEF Posted
<1>9. Boxes'
  <2>1. CASE mailer = "mailpit"
    <3> PICK box : box = <<tag>> \o mailpit
      OBVIOUS
    <3>1. /\ box \in Seq(Messages) /\ Len(box) = Len(mailpit) + 1
          /\ box[1] = tag
          /\ \A i \in 2 .. Len(box) : box[i] = mailpit[i - 1] /\ i - 1 \in 1 .. Len(mailpit)
      BY <1>6, <1>7
    <3>2. DOMAIN box = 1 .. Len(box)
      BY <3>1
    <3>3. \A i \in 1 .. Len(box) : i = 1 \/ i \in 2 .. Len(box)
      BY <1>6, <3>1
    <3>4. \A i \in 1 .. Len(box) : Posted(box[i])'
      BY <1>4, <1>6, <1>7, <3>1, <3>3, PostedStays
    <3>5. ASSUME NEW i \in 1 .. Len(box), NEW k \in 1 .. Len(box),
                 box[i].id = box[k].id, box[i].id # None
          PROVE  i = k
      <4>1. CASE i = 1 /\ k = 1
        BY <4>1
      <4>2. CASE i = 1 /\ k \in 2 .. Len(box)
        BY <1>7, <1>8, <3>1, <3>5, <4>2
      <4>3. CASE i \in 2 .. Len(box) /\ k = 1
        BY <1>7, <1>8, <3>1, <3>5, <4>3
      <4>4. CASE i \in 2 .. Len(box) /\ k \in 2 .. Len(box)
        <5>1. i - 1 = k - 1
          BY <1>6, <3>1, <3>5, <4>4
        <5>2. QED
          BY <5>1
      <4>5. QED
        BY <3>3, <4>1, <4>2, <4>3, <4>4
    <3>6. (\A q \in Requests : \A i \in DOMAIN listed[q] : Posted(listed[q][i]))'
      <4>1. \A q \in Requests : \A i \in DOMAIN listed[q] : Posted(listed[q][i])
        BY <1>1 DEF Boxes
      <4>2. listed' = listed
        BY <1>2
      <4>3. QED
        BY <1>4, <4>1, <4>2, PostedStays
    <3>7. ~env.relay
      BY <1>1, <2>1
    <3>8. mailpit' = box
      BY <1>2, <2>1
    <3>9. QED
      BY <1>1, <1>2, <3>1, <3>2, <3>4, <3>5, <3>6, <3>7, <3>8 DEF Boxes
  <2>2. CASE mailer # "mailpit"
    BY <1>1, <1>2, <1>4, <2>2, BoxesSame
  <2>3. QED
    BY <2>1, <2>2
<1>10. asks[r].op = "send" /\ acting[r] \in Nat /\ reply[r] = None
  BY <1>1, <1>2 DEF StageFits
<1>11. StageFits(r)'
  BY <1>2, <1>3, <1>10 DEF StageFits, Behind
<1>12. env.relay => Named(asks[r].to)
  <2>1. asks[r].to \in Seq(STRING)
    BY <1>1, <1>10, SceneTyped
  <2>2. env.relay => Permits(env.allowed, asks[r].to)
    BY <1>1, <1>2 DEF StageFits
  <2>3. QED
    BY <1>1, <2>1, <2>2, SceneTyped, PermitsNamed
<1>13. Told(r)'
  <2>1. Named(asks[r].to)' = Named(asks[r].to)
    BY DEF Named
  <2>2. QED
    BY <1>1, <1>2, <1>3, <1>10, <1>12, <2>1 DEF Told, Answered
<1>14. QED
  BY <1>2, <1>4, <1>5, <1>9, <1>11, <1>13, MailStep

LEMMA PicksNone ==
  ASSUME NEW whole
  PROVE  Picks(<<>>, whole, {})
<1> DEFINE none == [i \in DOMAIN <<>> |-> i]
<1>1. DOMAIN <<>> = {}
  OBVIOUS
<1>2. none \in [DOMAIN <<>> -> DOMAIN whole] /\ {none[i] : i \in DOMAIN <<>>} = {}
  BY <1>1
<1>3. QED
  BY <1>1, <1>2 DEF Picks

\* A pick of the first n goes on with the next one.
LEMMA PicksNext ==
  ASSUME NEW S, NEW part \in Seq(S), NEW whole \in Seq(S), NEW n \in Nat,
         n + 1 <= Len(whole), NEW wanted \in SUBSET (1 .. n), Picks(part, whole, wanted)
  PROVE  Picks(Append(part, whole[n + 1]), whole, wanted \cup {n + 1})
<1>1. PICK from \in [DOMAIN part -> DOMAIN whole] :
        /\ \A i, k \in DOMAIN part : i < k => from[i] < from[k]
        /\ {from[i] : i \in DOMAIN part} = wanted
        /\ \A i \in DOMAIN part : part[i] = whole[from[i]]
  BY DEF Picks
<1> DEFINE more == Append(part, whole[n + 1])
           on == [i \in DOMAIN more |-> IF i \in DOMAIN part THEN from[i] ELSE n + 1]
<1>2. /\ Len(part) \in Nat /\ Len(whole) \in Nat
      /\ DOMAIN part = 1 .. Len(part) /\ DOMAIN whole = 1 .. Len(whole)
      /\ whole[n + 1] \in S /\ n + 1 \in DOMAIN whole
  OBVIOUS
<1>3. /\ more \in Seq(S) /\ Len(more) = Len(part) + 1
      /\ more[Len(part) + 1] = whole[n + 1]
      /\ \A i \in DOMAIN part : more[i] = part[i]
  BY <1>2
<1>4. DOMAIN more = 1 .. Len(part) + 1
  BY <1>3
<1> HIDE DEF more
<1>5. /\ \A i \in DOMAIN part : i \in DOMAIN more /\ on[i] = from[i]
      /\ Len(part) + 1 \in DOMAIN more /\ on[Len(part) + 1] = n + 1
      /\ \A i \in DOMAIN more : i \in DOMAIN part \/ i = Len(part) + 1
  BY <1>2, <1>4
<1>6. on \in [DOMAIN more -> DOMAIN whole]
  BY <1>2, <1>5
<1> HIDE DEF on
<1>7. \A i \in DOMAIN part : from[i] \in 1 .. n
  BY <1>1
<1>8. ASSUME NEW i \in DOMAIN more, NEW k \in DOMAIN more, i < k PROVE on[i] < on[k]
  <2>1. i \in DOMAIN part
    BY <1>2, <1>4, <1>8
  <2>2. CASE k \in DOMAIN part
    BY <1>1, <1>5, <1>8, <2>1, <2>2
  <2>3. CASE k = Len(part) + 1
    <3>1. on[i] \in 1 .. n /\ on[k] = n + 1
      BY <1>5, <1>7, <2>1, <2>3
    <3>2. QED
      BY <3>1
  <2>4. QED
    BY <1>5, <2>2, <2>3
<1>9. {on[i] : i \in DOMAIN more} = wanted \cup {n + 1}
  <2>1. ASSUME NEW i \in DOMAIN more PROVE on[i] \in wanted \cup {n + 1}
    <3>1. CASE i \in DOMAIN part
      BY <1>1, <1>5, <3>1
    <3>2. CASE i = Len(part) + 1
      BY <1>5, <3>2
    <3>3. QED
      BY <1>5, <3>1, <3>2
  <2>2. ASSUME NEW w \in wanted PROVE \E i \in DOMAIN more : on[i] = w
    <3>1. PICK i \in DOMAIN part : from[i] = w
      BY <1>1
    <3>2. QED
      BY <1>5, <3>1
  <2>3. \E i \in DOMAIN more : on[i] = n + 1
    BY <1>5
  <2>4. QED
    BY <2>1, <2>2, <2>3
<1>10. \A i \in DOMAIN more : more[i] = whole[on[i]]
  BY <1>1, <1>3, <1>5
<1>11. Picks(more, whole, wanted \cup {n + 1})
  BY <1>6, <1>8, <1>9, <1>10 DEF Picks
<1>12. QED
  BY <1>11 DEF more

\* An answer ends a mail request; what is left to show is that it is true.
LEMMA AnswerMail ==
  ASSUME MailInv, NEW r \in Requests, NEW status, NEW body, Answer(r, status, body),
         UNCHANGED <<asks, env, run, mailer, phase, boots, saved, acting, listed, at, kept, accepted>>,
         announced' \in {announced, announced \union {r}},
         mailpit' \in {mailpit, <<>>},
         r \in announced' => r \in accepted,
         asks[r].op = "list" /\ status = 200 =>
           ~env.relay /\ (~asks[r].all => Picks(body, listed[r], Ours(r, Len(listed[r])))),
         asks[r].op = "send" => status # 403,
         asks[r].op = "send" /\ status = 200 => r \in announced' /\ body = acting[r]
  PROVE  MailInv'
<1>1. RequestsTyped /\ Boxes /\ Told(r)
  BY DEF MailInv
<1>2. /\ stage' \in [Requests -> Stages] /\ DOMAIN reply' = Requests
      /\ stage'[r] = "done" /\ reply'[r].status = status /\ reply'[r].body = body
      /\ \A q \in Requests \ {r} : stage'[q] = stage[q] /\ reply'[q] = reply[q]
  BY <1>1, AnswerFacts
<1>3. Settled /\ OnlyMoves(r)
  BY <1>2 DEF Settled, OnlyMoves
<1>4. RequestsTyped'
  BY <1>1, <1>2 DEF RequestsTyped
<1>5. Boxes'
  <2>1. CASE mailpit' = mailpit
    BY <1>1, <1>3, <2>1, BoxesSame
  <2>2. CASE mailpit' = <<>>
    <3>1. mailpit' \in Seq(Messages) /\ DOMAIN mailpit' = {}
      BY <2>2
    <3>2. (\A q \in Requests : \A i \in DOMAIN listed[q] : Posted(listed[q][i]))'
      <4>1. \A q \in Requests : \A i \in DOMAIN listed[q] : Posted(listed[q][i])
        BY <1>1 DEF Boxes
      <4>2. QED
        BY <1>3, <4>1, PostedStays
    <3>3. QED
      BY <1>1, <2>2, <3>1, <3>2 DEF Boxes
  <2>3. QED
    BY <2>1, <2>2
<1>6. StageFits(r)'
  BY <1>2, FitsOver DEF Over
<1>7. Told(r)'
  <2>1. Named(asks[r].to)' = Named(asks[r].to)
    BY DEF Named
  <2>2. Ours(r, Len(listed[r]))' = Ours(r, Len(listed[r]))
    BY DEF Ours
  <2>3. QED
    BY <1>1, <1>2, <2>1, <2>2 DEF Told, Answered
<1>8. QED
  BY <1>3, <1>4, <1>5, <1>6, <1>7, MailStep

LEMMA AnswersMail ==
  ASSUME MailInv, NEW r \in Requests,
         Confirm(r) \/ SendFails(r) \/ AllFetched(r) \/ ReadFails(r) \/ Purge(r),
         UNCHANGED <<asks, env, run, mailer, phase, boots, saved>>
  PROVE  MailInv'
<1>1. Boxes /\ StageFits(r) /\ Told(r)
  BY DEF MailInv
<1>2. r \in announced => r \in accepted
  BY <1>1 DEF Told
<1>3. CASE Confirm(r)
  <2>1. /\ stage[r] = "handed" /\ announced' = announced \union {r} /\ Answer(r, 200, acting[r])
        /\ UNCHANGED <<acting, mailpit, accepted, listed, at, kept, reachable>>
    BY <1>3 DEF Confirm
  <2>2. asks[r].op = "send" /\ r \in accepted
    BY <1>1, <2>1 DEF StageFits
  <2>3. QED
    BY <2>1, <2>2, AnswerMail
<1>4. CASE SendFails(r)
  <2>1. stage[r] \in {"send", "handed"} /\ Answer(r, 502, None) /\ UNCHANGED mailVars
    BY <1>4 DEF SendFails
  <2>2. asks[r].op = "send"
    BY <1>1, <2>1 DEF StageFits
  <2>3. QED
    BY <1>2, <2>1, <2>2, AnswerMail DEF mailVars
<1>5. CASE AllFetched(r)
  <2>1. /\ stage[r] = "headers" /\ at[r] > Len(listed[r]) /\ Answer(r, 200, kept[r])
        /\ UNCHANGED mailVars
    BY <1>5 DEF AllFetched
  <2>2. /\ asks[r].op = "list" /\ ~env.relay
        /\ at[r] <= Len(listed[r]) + 1
        /\ Picks(kept[r], listed[r], Ours(r, at[r] - 1))
    BY <1>1, <2>1 DEF StageFits
  <2>3. at[r] - 1 = Len(listed[r])
    <3>1. at[r] \in Nat /\ Len(listed[r]) \in Nat
      BY <1>1 DEF Boxes
    <3>2. QED
      BY <2>1, <2>2, <3>1
  <2>4. QED
    BY <1>2, <2>1, <2>2, <2>3, AnswerMail DEF mailVars
<1>6. CASE ReadFails(r)
  <2>1. /\ stage[r] \in {"list", "purge", "headers"} /\ Answer(r, 502, None)
        /\ UNCHANGED mailVars
    BY <1>6 DEF ReadFails
  <2>2. asks[r].op \in {"list", "purge"}
    BY <1>1, <2>1 DEF StageFits
  <2>3. QED
    BY <1>2, <2>1, <2>2, AnswerMail DEF mailVars
<1>7. CASE Purge(r)
  <2>1. /\ stage[r] = "purge" /\ mailpit' = <<>> /\ Answer(r, 200, None)
        /\ UNCHANGED <<acting, accepted, announced, listed, at, kept, reachable>>
    BY <1>7 DEF Purge
  <2>2. asks[r].op = "purge"
    BY <1>1, <2>1 DEF StageFits
  <2>3. QED
    BY <1>2, <2>1, <2>2, AnswerMail
<1>8. QED
  BY <1>3, <1>4, <1>5, <1>6, <1>7

\* A listing reads Mailpit's messages, and of those it reads all are posted.
LEMMA NewestFacts ==
  ASSUME Boxes, NEW limit \in Nat
  PROVE  /\ Newest(limit) \in Seq(Messages)
         /\ \A i \in DOMAIN Newest(limit) : Posted(Newest(limit)[i])
<1> DEFINE n == IF limit < Len(mailpit) THEN limit ELSE Len(mailpit)
<1>1. /\ mailpit \in Seq(Messages) /\ Len(mailpit) \in Nat
      /\ \A i \in 1 .. Len(mailpit) : Posted(mailpit[i])
  BY DEF Boxes
<1>2. n \in 0 .. Len(mailpit)
  BY <1>1
<1> HIDE DEF n
<1> PICK head : head = SubSeq(mailpit, 1, n)
  OBVIOUS
<1>3. head \in Seq(Messages) /\ DOMAIN head = 1 .. n /\ \A i \in 1 .. n : head[i] = mailpit[i]
  BY <1>1, <1>2
<1>4. ASSUME NEW i \in DOMAIN head PROVE Posted(head[i])
  <2>1. i \in 1 .. Len(mailpit) /\ head[i] = mailpit[i]
    BY <1>1, <1>2, <1>3
  <2>2. QED
    BY <1>1, <2>1
<1>5. Newest(limit) = head
  BY DEF Newest, n
<1>6. QED
  BY <1>3, <1>4, <1>5

\* One listing for everybody: the whole answer, or the candidates of a filtered one.
LEMMA ListMail ==
  ASSUME MailInv, NEW r \in Requests, ListAll(r),
         UNCHANGED <<asks, env, run, mailer, phase, boots, saved>>
  PROVE  MailInv'
<1>1. FromAScene /\ RequestsTyped /\ Boxes /\ StageFits(r) /\ Told(r)
  BY DEF MailInv
<1>2. /\ stage[r] = "list"
      /\ listed' = [listed EXCEPT ![r] = Newest(asks[r].limit)]
      /\ IF asks[r].all THEN Answer(r, 200, Newest(asks[r].limit)) ELSE Go(r, "headers")
      /\ UNCHANGED <<acting, mailpit, accepted, announced, at, kept, reachable>>
  BY DEF ListAll
<1>3. /\ asks[r].op = "list" /\ ~env.relay /\ acting[r] \in Nat
      /\ at[r] = 1 /\ kept[r] = <<>> /\ reply[r] = None
  BY <1>1, <1>2 DEF StageFits
<1>4. asks[r].limit \in Nat
  BY <1>1, <1>3, SceneTyped
<1> PICK read : read = Newest(asks[r].limit)
  OBVIOUS
<1>5. read \in Seq(Messages) /\ \A i \in DOMAIN read : Posted(read[i])
  BY <1>1, <1>4, NewestFacts
<1>6. /\ listed' \in [Requests -> Seq(Messages)]
      /\ listed'[r] = read
      /\ \A q \in Requests \ {r} : listed'[q] = listed[q]
  BY <1>1, <1>2, <1>5 DEF Boxes
<1>7. /\ stage' \in [Requests -> Stages] /\ DOMAIN reply' = Requests
      /\ stage'[r] \in {"done", "headers"}
      /\ \A q \in Requests \ {r} : stage'[q] = stage[q] /\ reply'[q] = reply[q]
      /\ stage'[r] = "headers" => ~asks[r].all /\ reply'[r] = None
      /\ ~asks[r].all => reply'[r] = None
  <2>1. CASE asks[r].all
    BY <1>1, <1>2, <2>1, AnswerFacts
  <2>2. CASE ~asks[r].all
    <3>1. "headers" \in Stages /\ Go(r, "headers")
      BY <1>2, <2>2 DEF Stages
    <3>2. /\ stage' \in [Requests -> Stages] /\ DOMAIN reply' = Requests
          /\ stage'[r] = "headers" /\ reply' = reply
          /\ \A q \in Requests \ {r} : stage'[q] = stage[q]
      BY <1>1, <3>1, GoFacts
    <3>3. QED
      BY <1>3, <2>2, <3>2
  <2>3. QED
    BY <2>1, <2>2
<1>8. Settled /\ OnlyMoves(r)
  BY <1>2, <1>6, <1>7 DEF Settled, OnlyMoves
<1>9. RequestsTyped'
  BY <1>1, <1>2, <1>7 DEF RequestsTyped
<1>10. Boxes'
  <2>1. (\A q \in Requests : \A i \in DOMAIN listed[q] : Posted(listed[q][i]))'
    <3> SUFFICES ASSUME NEW q \in Requests, NEW i \in DOMAIN listed'[q]
                 PROVE  Posted(listed[q][i])'
      OBVIOUS
    <3>1. Posted(listed'[q][i])
      <4>1. CASE q = r
        BY <1>5, <1>6, <4>1
      <4>2. CASE q # r
        BY <1>1, <1>6, <4>2 DEF Boxes
      <4>3. QED
        BY <4>1, <4>2
    <3>2. PICK m : m = listed'[q][i]
      OBVIOUS
    <3>3. Posted(m)'
      BY <1>8, <3>1, <3>2, PostedStays
    <3>4. QED
      BY <3>2, <3>3 DEF Posted
  <2>2. (\A i \in DOMAIN mailpit : Posted(mailpit[i]))'
    <3>1. \A i \in DOMAIN mailpit : Posted(mailpit[i])
      BY <1>1 DEF Boxes
    <3>2. mailpit' = mailpit
      BY <1>2
    <3>3. QED
      BY <1>8, <3>1, <3>2, PostedStays
  <2>3. QED
    BY <1>1, <1>2, <1>6, <2>1, <2>2 DEF Boxes
<1>11. StageFits(r)'
  <2>1. CASE stage'[r] = "done"
    BY <2>1, FitsOver DEF Over
  <2>2. CASE stage'[r] = "headers"
    <3>1. Ours(r, at[r] - 1)' = {}
      BY <1>2, <1>3 DEF Ours
    <3>2. Picks(<<>>, read, {})
      BY PicksNone
    <3>3. Picks(kept[r], listed[r], Ours(r, at[r] - 1))'
      <4>1. kept'[r] = <<>> /\ listed'[r] = read
        BY <1>2, <1>3, <1>6
      <4>2. Picks(kept'[r], listed'[r], Ours(r, at[r] - 1)')
        BY <3>1, <3>2, <4>1
      <4>3. QED
        BY <4>2 DEF Picks
    <3>4. at'[r] <= Len(listed'[r]) + 1
      BY <1>2, <1>3, <1>5, <1>6
    <3>5. QED
      BY <1>2, <1>3, <1>7, <2>2, <3>3, <3>4 DEF StageFits, Behind
  <2>3. QED
    BY <1>7, <2>1, <2>2
<1>12. Told(r)'
  BY <1>1, <1>2, <1>3, <1>7 DEF Told, Answered
<1>13. QED
  BY <1>2, <1>8, <1>9, <1>10, <1>11, <1>12, MailStep

\* A header tells whether the next candidate is one of the run asked for.
LEMMA OursNext ==
  ASSUME MailInv, NEW r \in Requests, NEW n \in Nat, n + 1 <= Len(listed[r]), acting[r] \in Nat
  PROVE  Ours(r, n + 1) = IF listed[r][n + 1].run = acting[r] THEN Ours(r, n) \cup {n + 1}
                                                             ELSE Ours(r, n)
<1>1. listed[r] \in Seq(Messages) /\ Len(listed[r]) \in Nat /\ DOMAIN listed[r] = 1 .. Len(listed[r])
  BY DEF MailInv, Boxes
<1> PICK message : message = listed[r][n + 1]
  OBVIOUS
<1>2. Posted(message)
  BY <1>1 DEF MailInv, Boxes
<1>3. message.run = acting[r] <=> message.id # None /\ acting[message.id] = acting[r]
  BY <1>2, MailAssumption DEF Posted
<1>4. 1 .. n + 1 = (1 .. n) \cup {n + 1}
  OBVIOUS
<1>5. QED
  BY <1>3, <1>4 DEF Ours

\* A header is fetched: what is kept stays a pick of the candidates seen.
LEMMA FetchMail ==
  ASSUME MailInv, NEW r \in Requests, FetchHeader(r),
         UNCHANGED <<run, mailer, phase, boots, saved>>
  PROVE  MailInv'
<1>1. FromAScene /\ RequestsTyped /\ Boxes /\ StageFits(r) /\ Told(r)
  BY DEF MailInv
<1> PICK message : message = listed[r][at[r]]
  OBVIOUS
<1>2. /\ stage[r] = "headers" /\ at[r] <= Len(listed[r])
      /\ at' = [at EXCEPT ![r] = @ + 1]
      /\ kept' = [kept EXCEPT ![r] = IF message.run = acting[r] THEN Append(@, message) ELSE @]
      /\ UNCHANGED <<asks, env, stage, reply, acting, mailpit, accepted, announced, listed, reachable>>
  BY DEF FetchHeader, requestVars
<1>3. /\ asks[r].op = "list" /\ ~env.relay /\ acting[r] \in Nat /\ reply[r] = None
      /\ Picks(kept[r], listed[r], Ours(r, at[r] - 1))
  BY <1>1, <1>2 DEF StageFits
<1>4. /\ listed[r] \in Seq(Messages) /\ kept[r] \in Seq(Messages) /\ at[r] \in Nat \ {0}
      /\ Len(listed[r]) \in Nat /\ DOMAIN listed[r] = 1 .. Len(listed[r])
  BY <1>1 DEF Boxes
<1>5. message \in Messages
  BY <1>2, <1>4
<1>6. /\ at' \in [Requests -> Nat \ {0}] /\ at'[r] = at[r] + 1
      /\ kept' \in [Requests -> Seq(Messages)]
      /\ kept'[r] = IF message.run = acting[r] THEN Append(kept[r], message) ELSE kept[r]
      /\ \A q \in Requests \ {r} : at'[q] = at[q] /\ kept'[q] = kept[q]
  <2>1. Append(kept[r], message) \in Seq(Messages)
    BY <1>4, <1>5
  <2>2. QED
    BY <1>1, <1>2, <1>4, <2>1 DEF Boxes
<1>7. Settled /\ OnlyMoves(r)
  BY <1>2, <1>6 DEF Settled, OnlyMoves
<1>8. RequestsTyped'
  BY <1>1, <1>2 DEF RequestsTyped
<1>9. Boxes'
  <2>1. (\A i \in DOMAIN mailpit : Posted(mailpit[i]))'
        /\ (\A q \in Requests : \A i \in DOMAIN listed[q] : Posted(listed[q][i]))'
    BY <1>1, <1>2 DEF Boxes, Posted
  <2>2. QED
    BY <1>1, <1>2, <1>6, <2>1 DEF Boxes
<1>10. StageFits(r)'
  <2> DEFINE n == at[r] - 1
  <2>1. n \in Nat /\ n + 1 = at[r] /\ n + 1 <= Len(listed[r])
    BY <1>2, <1>4
  <2>2. Picks(kept[r], listed[r], Ours(r, n)) /\ message = listed[r][n + 1]
    BY <1>3, <2>1
  <2> HIDE DEF n
  <2>3. Ours(r, n + 1) = IF message.run = acting[r] THEN Ours(r, n) \cup {n + 1} ELSE Ours(r, n)
    BY <1>3, <2>1, <2>2, OursNext
  <2>4. Ours(r, n) \in SUBSET (1 .. n)
    BY DEF Ours
  <2>5. Picks(kept'[r], listed[r], Ours(r, n + 1))
    <3>1. CASE message.run = acting[r]
      <4>1. Picks(Append(kept[r], listed[r][n + 1]), listed[r], Ours(r, n) \cup {n + 1})
        BY <1>4, <2>1, <2>2, <2>4, PicksNext
      <4>2. QED
        BY <1>6, <2>2, <2>3, <3>1, <4>1
    <3>2. CASE message.run # acting[r]
      BY <1>6, <2>2, <2>3, <3>2
    <3>3. QED
      BY <3>1, <3>2
  <2>6. at'[r] - 1 = n + 1 /\ at'[r] <= Len(listed'[r]) + 1
    BY <1>2, <1>4, <1>6, <2>1
  <2>7. Ours(r, at[r] - 1)' = Ours(r, n + 1)
    BY <1>2, <2>6 DEF Ours
  <2>8. Picks(kept[r], listed[r], Ours(r, at[r] - 1))'
    BY <1>2, <2>5, <2>7 DEF Picks
  <2>9. QED
    BY <1>2, <1>3, <2>6, <2>8 DEF StageFits, Behind
<1>11. Told(r)'
  BY <1>1, <1>2, <1>3 DEF Told, Answered
<1>12. QED
  BY <1>2, <1>7, <1>8, <1>9, <1>10, <1>11, MailStep

LEMMA ServeMail ==
  ASSUME MailInv, NEW r \in Requests, MailServe(r),
         UNCHANGED <<run, mailer, phase, boots, saved>>
  PROVE  MailInv'
<1>1. UNCHANGED <<asks, env>>
  BY DEF MailServe
<1>2. CASE Deliver(r)
  BY <1>1, <1>2, DeliverMail
<1>3. CASE Confirm(r) \/ SendFails(r) \/ AllFetched(r) \/ ReadFails(r) \/ Purge(r)
  BY <1>1, <1>3, AnswersMail
<1>4. CASE ListAll(r)
  BY <1>1, <1>4, ListMail
<1>5. CASE FetchHeader(r)
  BY <1>5, FetchMail
<1>6. QED
  BY <1>2, <1>3, <1>4, <1>5 DEF MailServe

-----------------------------------------------------------------------------
(* The process around it.                                                  *)

\* A request that is no mail, or a client that leaves: the mail surface is as it was.
LEMMA OtherMail ==
  ASSUME MailInv, NEW r \in Requests,
         UNCHANGED <<asks, env, run, mailer, mailVars, phase, boots>>,
         saved' = saved \/ saved'.run \in Nat,
         stage' \in [Requests -> Stages], DOMAIN reply' = Requests,
         \/ stage'[r] \in Over
         \/ stage'[r] \in Behind /\ asks[r].op \in {"items", "stream"},
         reply'[r] # None => stage'[r] = "done",
         reply'[r] = reply[r] \/ asks[r].op \notin {"send", "list"},
         \A q \in Requests \ {r} : stage'[q] = stage[q] /\ reply'[q] = reply[q]
  PROVE  MailInv'
<1>1. RequestsTyped /\ Boxes
  BY DEF MailInv
<1>2. UNCHANGED <<acting, mailpit, accepted, announced, listed, at, kept>>
  BY DEF mailVars
<1>3. Settled /\ OnlyMoves(r)
  BY <1>2 DEF Settled, OnlyMoves, Over, Behind
<1>4. RequestsTyped' /\ Boxes'
  BY <1>1, <1>2, <1>3, BoxesSame DEF RequestsTyped
<1>5. StageFits(r)'
  BY FitsOver
<1>6. Told(r)'
  BY <1>2, <1>3, ToldSame
<1>7. QED
  BY <1>2, <1>3, <1>4, <1>5, <1>6, MailStep

LEMMA ServeRequests == ASSUME MailInv, NEW r \in Requests, Serve(r) PROVE MailInv'
<1>1. RequestsTyped /\ Booted
  BY DEF MailInv
<1>2. CASE MailRequest(r)
  BY <1>2, ArriveMail DEF MailRequest, processVars
<1>3. CASE MailProgress(r)
  BY <1>3, ServeMail DEF MailProgress, processVars
<1>4. CASE Page(r) \/ Metrics(r) \/ SetTelemetry(r) \/ SetClock(r) \/ Reset(r) \/ Save(r)
  <2>1. PICK status, body : Answer(r, status, body)
    BY <1>4 DEF Page, Metrics, SetTelemetry, SetClock, Reset, Save
  <2>2. /\ UNCHANGED <<asks, env, run, mailer, mailVars, phase, boots>>
        /\ asks[r].op \notin {"send", "list"}
    BY <1>4 DEF Page, Metrics, SetTelemetry, SetClock, Reset, Save, Arrives, processVars
  <2>3. saved' = saved \/ saved'.run \in Nat
    BY <1>1, <1>4 DEF Page, Metrics, SetTelemetry, SetClock, Reset, Save, Arrives, processVars, Booted
  <2>4. /\ stage' \in [Requests -> Stages] /\ DOMAIN reply' = Requests /\ stage'[r] = "done"
        /\ \A q \in Requests \ {r} : stage'[q] = stage[q] /\ reply'[q] = reply[q]
    BY <1>1, <2>1, AnswerFacts
  <2>5. QED
    BY <2>2, <2>3, <2>4, OtherMail DEF Over
<1>5. CASE Subscribe(r) \/ Work(r)
  <2>1. PICK next \in {"events", "work"} :
          /\ Go(r, next) /\ next \in Stages /\ stage[r] = "idle"
          /\ next = "work" => asks[r].op \in {"items", "stream"}
    BY <1>5 DEF Subscribe, Work, Arrives, Stages
  <2>2. UNCHANGED <<asks, env, run, mailer, mailVars, phase, boots, saved>>
    BY <1>5 DEF Subscribe, Work, processVars
  <2>3. /\ stage' \in [Requests -> Stages] /\ DOMAIN reply' = Requests
        /\ stage'[r] = next /\ reply' = reply
        /\ \A q \in Requests \ {r} : stage'[q] = stage[q]
    BY <1>1, <2>1, GoFacts
  <2>4. reply[r] = None
    BY <2>1 DEF MailInv, StageFits
  <2>5. QED
    BY <2>1, <2>2, <2>3, <2>4, OtherMail DEF Over, Behind
<1>6. CASE WorkEnds(r) \/ StreamEnds(r)
  <2>1. /\ stage[r] \in Behind /\ asks[r].op \in {"items", "stream"} /\ reply[r] = None
        /\ UNCHANGED <<asks, env, run, mailer, mailVars, phase, boots, saved>>
    BY <1>6 DEF WorkEnds, StreamEnds, MailInv, StageFits, Behind, processVars
  <2>2. CASE Go(r, "streaming")
    <3>1. "streaming" \in Stages
      BY DEF Stages
    <3>2. /\ stage' \in [Requests -> Stages] /\ DOMAIN reply' = Requests
          /\ stage'[r] = "streaming" /\ reply' = reply
          /\ \A q \in Requests \ {r} : stage'[q] = stage[q]
      BY <1>1, <2>2, <3>1, GoFacts
    <3>3. QED
      BY <2>1, <3>2, OtherMail DEF Behind
  <2>3. CASE \E status, body : Answer(r, status, body)
    <3>1. /\ stage' \in [Requests -> Stages] /\ DOMAIN reply' = Requests /\ stage'[r] = "done"
          /\ \A q \in Requests \ {r} : stage'[q] = stage[q] /\ reply'[q] = reply[q]
      BY <1>1, <2>3, AnswerFacts
    <3>2. QED
      BY <2>1, <3>1, OtherMail DEF Over
  <2>4. QED
    BY <1>6, <2>2, <2>3 DEF WorkEnds, StreamEnds
<1>7. QED
  BY <1>2, <1>3, <1>4, <1>5, <1>6 DEF Serve

LEMMA LeaveMail == ASSUME MailInv, NEW r \in Requests, Leave(r) PROVE MailInv'
<1>1. /\ Go(r, "left") /\ "left" \in Stages /\ stage[r] # "done"
      /\ UNCHANGED <<asks, env, run, mailer, mailVars, phase, boots, saved>>
  BY DEF Leave, InFlight, Stages, processVars
<1>2. /\ stage' \in [Requests -> Stages] /\ DOMAIN reply' = Requests
      /\ stage'[r] = "left" /\ reply' = reply
      /\ \A q \in Requests \ {r} : stage'[q] = stage[q]
  BY <1>1, GoFacts DEF MailInv
<1>3. reply[r] = None
  BY <1>1 DEF MailInv, StageFits
<1>4. QED
  BY <1>1, <1>2, <1>3, OtherMail DEF Over

\* A step of the process or of the world: a request is where it was, or is cut.
LEMMA ProcessMail ==
  ASSUME MailInv, UNCHANGED <<asks, env, reply, acting, accepted, announced, listed, at, kept>>,
         stage' \in [Requests -> Stages],
         \A r \in Requests : stage'[r] = stage[r] \/ (InFlight(r) /\ stage'[r] = "cut"),
         Booted', Boxes'
  PROVE  MailInv'
<1>1. Settled
  BY DEF Settled
<1>2. FromAScene' /\ RequestsTyped'
  BY DEF MailInv, FromAScene, RequestsTyped
<1>3. ASSUME NEW r \in Requests PROVE StageFits(r)' /\ Told(r)'
  <2>1. Told(r)'
    BY <1>1, ToldSame
  <2>2. CASE stage'[r] = stage[r]
    BY <1>1, <2>1, <2>2, FitsSame
  <2>3. CASE InFlight(r) /\ stage'[r] = "cut"
    <3>1. reply'[r] = None
      BY <2>3 DEF MailInv, StageFits, InFlight
    <3>2. QED
      BY <2>1, <2>3, <3>1, FitsOver DEF Over
  <2>4. QED
    BY <2>1, <2>2, <2>3
<1>4. QED
  BY <1>2, <1>3 DEF MailInv

\* The mail surface is wired as the relay says, and a run is there before anything serves.
LEMMA BootMail == ASSUME MailInv, Boot PROVE MailInv'
<1>1. RequestsTyped /\ Booted /\ Boxes
  BY DEF MailInv
<1>2. UNCHANGED <<asks, env, stage, reply, acting, mailpit, accepted, announced, listed, at, kept>>
  BY DEF Boot, ReadControl, InstallTelemetry, ConnectData, ConnectQueue, ProbeMail, Bind,
         requestVars, mailVars
<1>3. Boxes'
  BY <1>1, <1>2, BoxesSame DEF Settled
<1>4. Booted'
  <2>1. CASE ReadControl
    <3>1. UNCHANGED <<env, mailer, boots, saved>>
      BY <2>1 DEF ReadControl, requestVars
    <3>2. CASE RefusesToBoot
      BY <1>1, <2>1, <3>1, <3>2 DEF ReadControl, Exit, Booted
    <3>3. CASE ~RefusesToBoot
      <4>1. Restores => saved # None
        BY <3>3 DEF RefusesToBoot, Restores
      <4>2. run' \in Nat
        BY <1>1, <2>1, <3>3, <4>1 DEF ReadControl, Booted
      <4>3. QED
        BY <1>1, <3>1, <4>2 DEF Booted
    <3>4. QED
      BY <3>2, <3>3
  <2>2. CASE InstallTelemetry \/ ConnectData \/ ConnectQueue
    <3>1. /\ UNCHANGED <<env, run, mailer, boots, saved>>
          /\ phase \in {"telemetry", "data", "queue"}
      BY <2>2 DEF InstallTelemetry, ConnectData, ConnectQueue, requestVars
    <3>2. QED
      BY <1>1, <3>1 DEF Booted
  <2>3. CASE ProbeMail
    <3>1. /\ UNCHANGED <<env, run, boots, saved>> /\ phase = "mail"
          /\ mailer' = IF ~env.mailConfig \/ ~reachable THEN "none"
                       ELSE IF env.relay THEN "relay" ELSE "mailpit"
      BY <2>3 DEF ProbeMail, requestVars
    <3>2. QED
      BY <1>1, <3>1 DEF Booted
  <2>4. CASE Bind
    <3>1. UNCHANGED <<env, run, mailer, boots, saved>> /\ phase = "bind"
      BY <2>4 DEF Bind, requestVars
    <3>2. QED
      BY <1>1, <3>1 DEF Booted
  <2>5. QED
    BY <2>1, <2>2, <2>3, <2>4 DEF Boot
<1>5. QED
  BY <1>1, <1>2, <1>3, <1>4, ProcessMail DEF RequestsTyped

\* A message nobody tagged is posted too, and Mailpit is there to hold it.
LEMMA WorldMail == ASSUME MailInv, World PROVE MailInv'
<1>1. RequestsTyped /\ Booted /\ Boxes
  BY DEF MailInv
<1>2. UNCHANGED <<asks, env, stage, reply, acting, accepted, announced, listed, at, kept,
                  run, mailer, phase, boots, saved>>
  BY DEF World, ForeignMail, MailServerStops, requestVars, processVars
<1>3. Booted'
  BY <1>1, <1>2 DEF Booted
<1>4. CASE ForeignMail
  <2> PICK foreign : foreign = [id |-> None, run |-> None]
    OBVIOUS
  <2> PICK box : box = <<foreign>> \o mailpit
    OBVIOUS
  <2>1. /\ mailpit' = box /\ mailer = "mailpit"
        /\ \A i \in DOMAIN mailpit : mailpit[i].id # None
    BY <1>4 DEF ForeignMail
  <2>2. foreign \in Messages /\ Posted(foreign)' /\ foreign.id = None
    BY DEF Messages, Posted
  <2>3. /\ mailpit \in Seq(Messages) /\ Len(mailpit) \in Nat /\ DOMAIN mailpit = 1 .. Len(mailpit)
        /\ \A i \in 1 .. Len(mailpit) : Posted(mailpit[i])
        /\ \A i, k \in 1 .. Len(mailpit) :
             mailpit[i].id = mailpit[k].id /\ mailpit[i].id # None => i = k
    BY <1>1 DEF Boxes
  <2>4. /\ box \in Seq(Messages) /\ Len(box) = Len(mailpit) + 1
        /\ box[1] = foreign
        /\ \A i \in 2 .. Len(box) : box[i] = mailpit[i - 1] /\ i - 1 \in 1 .. Len(mailpit)
    BY <2>2, <2>3
  <2>5. DOMAIN box = 1 .. Len(box) /\ \A i \in 1 .. Len(box) : i = 1 \/ i \in 2 .. Len(box)
    BY <2>3, <2>4
  <2>6. Settled
    BY <1>2 DEF Settled
  <2>7. \A i \in 1 .. Len(box) : Posted(box[i])'
    BY <2>2, <2>3, <2>4, <2>5, <2>6, PostedStays
  <2>8. ASSUME NEW i \in 1 .. Len(box), NEW k \in 1 .. Len(box),
               box[i].id = box[k].id, box[i].id # None
        PROVE  i = k
    <3>1. i \in 2 .. Len(box) /\ k \in 2 .. Len(box)
      BY <2>2, <2>4, <2>5, <2>8
    <3>2. i - 1 = k - 1
      BY <2>3, <2>4, <2>8, <3>1
    <3>3. QED
      BY <3>1, <3>2
  <2>9. (\A q \in Requests : \A i \in DOMAIN listed[q] : Posted(listed[q][i]))'
    <3>1. \A q \in Requests : \A i \in DOMAIN listed[q] : Posted(listed[q][i])
      BY <1>1 DEF Boxes
    <3>2. QED
      BY <1>2, <2>6, <3>1, PostedStays
  <2>10. ~env.relay
    BY <1>1, <2>1 DEF Booted
  <2>11. Boxes'
    BY <1>1, <1>2, <2>1, <2>4, <2>5, <2>7, <2>8, <2>9, <2>10 DEF Boxes
  <2>12. QED
    BY <1>1, <1>2, <1>3, <2>11, ProcessMail DEF RequestsTyped
<1>5. CASE MailServerStops
  <2>1. mailpit' = mailpit
    BY <1>5 DEF MailServerStops
  <2>2. Boxes'
    BY <1>1, <1>2, <2>1, BoxesSame DEF Settled
  <2>3. QED
    BY <1>1, <1>2, <1>3, <2>2, ProcessMail DEF RequestsTyped
<1>6. QED
  BY <1>4, <1>5 DEF World

\* Messages and snapshot outlive the process; the run and the wiring are boot's to set again.
LEMMA EndMail ==
  ASSUME MailInv, Signal \/ Drained \/ Flushed \/ FlushTimesOut \/ Kill \/ Restart \/ Exports
  PROVE  MailInv'
<1>1. RequestsTyped /\ Booted /\ Boxes
  BY DEF MailInv
<1>2. UNCHANGED <<asks, env, reply, acting, mailpit, accepted, announced, listed, at, kept, saved>>
  BY DEF Signal, Drained, Flushed, FlushTimesOut, Kill, Restart, Exports,
         requestVars, mailVars, processVars
<1>3. /\ stage' \in [Requests -> Stages]
      /\ \A r \in Requests : stage'[r] = stage[r] \/ (InFlight(r) /\ stage'[r] = "cut")
  <2>1. CASE Kill
    <3>1. stage' = [r \in Requests |-> IF InFlight(r) THEN "cut" ELSE stage[r]]
      BY <2>1 DEF Kill
    <3>2. QED
      BY <1>1, <3>1 DEF RequestsTyped, Stages
  <2>2. CASE ~Kill
    <3>1. stage' = stage
      BY <2>2 DEF Signal, Drained, Flushed, FlushTimesOut, Restart, Exports, requestVars
    <3>2. QED
      BY <1>1, <3>1 DEF RequestsTyped
  <2>3. QED
    BY <2>1, <2>2
<1>4. Boxes'
  <2>1. Settled
    BY <1>2, <1>3 DEF Settled
  <2>2. QED
    BY <1>1, <1>2, <2>1, BoxesSame
<1>5. Booted'
  <2>1. CASE Restart
    BY <1>1, <1>2, <2>1 DEF Restart, Booted
  <2>2. CASE Exports
    BY <1>1, <1>2, <2>2 DEF Exports, Booted, processVars
  <2>3. CASE Signal \/ Drained \/ Flushed \/ FlushTimesOut \/ Kill
    <3>1. /\ UNCHANGED <<run, mailer, boots>>
          /\ phase' \in {"stopping", "flushing", "exited"}
      BY <2>3 DEF Signal, Drained, Flushed, FlushTimesOut, Kill, GoOn, Exit
    <3>2. QED
      BY <1>1, <1>2, <3>1 DEF Booted
  <2>4. QED
    BY <2>1, <2>2, <2>3
<1>6. QED
  BY <1>2, <1>3, <1>4, <1>5, ProcessMail

LEMMA NextMail == MailInv /\ [Next]_vars => MailInv'
<1> SUFFICES ASSUME MailInv, [Next]_vars PROVE MailInv'
  OBVIOUS
<1>1. CASE Boot
  BY <1>1, BootMail
<1>2. CASE \E r \in Requests : Serve(r) \/ Leave(r)
  BY <1>2, ServeRequests, LeaveMail
<1>3. CASE World
  BY <1>3, WorldMail
<1>4. CASE Signal \/ Drained \/ Flushed \/ FlushTimesOut \/ Kill \/ Restart \/ Exports
  BY <1>4, EndMail
<1>5. CASE UNCHANGED vars
  <2>1. UNCHANGED <<asks, env, stage, reply, acting, mailpit, accepted, announced, listed, at, kept,
                    run, mailer, phase, boots, saved>>
    BY <1>5 DEF vars, requestVars, mailVars, processVars
  <2>2. Booted'
    BY <2>1 DEF MailInv, Booted
  <2>3. Boxes' /\ stage' \in [Requests -> Stages]
    BY <2>1, BoxesSame DEF MailInv, Settled, RequestsTyped
  <2>4. QED
    BY <2>1, <2>2, <2>3, ProcessMail
<1>6. QED
  BY <1>1, <1>2, <1>3, <1>4, <1>5 DEF Next

LEMMA InitMail == Init => MailInv
<1> SUFFICES ASSUME Init PROVE MailInv
  OBVIOUS
<1>1. FromAScene
  BY DEF Init, FromAScene
<1>2. /\ stage = [r \in Requests |-> "idle"] /\ reply = [r \in Requests |-> None]
      /\ acting = [r \in Requests |-> None] /\ mailpit = <<>>
      /\ accepted = {} /\ announced = {}
      /\ listed = [r \in Requests |-> <<>>] /\ kept = [r \in Requests |-> <<>>]
      /\ at = [r \in Requests |-> 1]
      /\ run = None /\ mailer = "none" /\ phase = "control" /\ boots = 1 /\ saved = None
  BY DEF Init, MailInit
<1>3. RequestsTyped
  BY <1>2 DEF RequestsTyped, Stages
<1>4. Booted
  BY <1>2 DEF Booted
<1>5. Boxes
  <2>1. <<>> \in Seq(Messages) /\ DOMAIN <<>> = {}
    OBVIOUS
  <2>2. /\ listed \in [Requests -> Seq(Messages)] /\ kept \in [Requests -> Seq(Messages)]
        /\ mailpit \in Seq(Messages) /\ DOMAIN mailpit = {}
        /\ \A r \in Requests : DOMAIN listed[r] = {}
    BY <1>2, <2>1
  <2>3. QED
    BY <1>2, <2>2 DEF Boxes
<1>6. \A r \in Requests : StageFits(r) /\ Told(r)
  BY <1>2 DEF StageFits, Behind, Told, Answered
<1>7. QED
  BY <1>1, <1>3, <1>4, <1>5, <1>6 DEF MailInv

\* Invariant 7 and the allowlist, whatever the scenes: a filtered listing is the messages of
\* that run, all and only those of the listing it read; what is announced or answered 200 is
\* with the server, once at most; a relay's recipients are all named, and only unnamed ones
\* are refused.
THEOREM ProcessMailTellsTheTruth == Spec => []MailTellsTheTruth
<1>1. MailInv => MailTellsTheTruth
  <2> SUFFICES ASSUME MailInv, NEW r \in Requests
               PROVE  /\ Answered(r, "list", 200) /\ ~asks[r].all =>
                           Picks(reply[r].body, listed[r], Ours(r, Len(listed[r])))
                      /\ Answered(r, "list", 200) => ~env.relay
                      /\ Answered(r, "send", 200) => r \in announced /\ reply[r].body = acting[r]
                      /\ r \in announced => r \in accepted
                      /\ r \in accepted => Cardinality({i \in DOMAIN mailpit : mailpit[i].id = r}) <= 1
                      /\ r \in accepted /\ env.relay => Named(asks[r].to) /\ mailpit = <<>>
                      /\ Answered(r, "send", 403) => env.relay /\ ~Named(asks[r].to)
    BY DEF MailTellsTheTruth
  <2>1. Told(r) /\ Boxes
    BY DEF MailInv
  <2>2. Cardinality({i \in DOMAIN mailpit : mailpit[i].id = r}) <= 1
    <3> DEFINE I == {i \in DOMAIN mailpit : mailpit[i].id = r}
    <3>1. \A i, k \in I : i = k
      BY <2>1, MailAssumption DEF Boxes
    <3>2. I = {} \/ \E i \in I : I = {i}
      BY <3>1
    <3> HIDE DEF I
    <3>3. Cardinality(I) = 0 \/ Cardinality(I) = 1
      BY <3>2, FS_EmptySet, FS_Singleton
    <3>4. QED
      BY <3>3 DEF I
  <2>3. env.relay => mailpit = <<>>
    BY <2>1 DEF Boxes
  <2>4. QED
    BY <2>1, <2>2, <2>3 DEF Told
<1>2. QED
  BY <1>1, InitMail, NextMail, PTL DEF Spec

=============================================================================
