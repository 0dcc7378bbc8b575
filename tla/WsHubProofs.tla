---------------------------- MODULE WsHubProofs ----------------------------
(* Machine-checked proofs of the hub's presence and of when a connection is  *)
(* sent a Close (trap T6), for every set of                                 *)
(* connections, topics, clients' habits and admin publishes, and every      *)
(* number of kills.                                                         *)
EXTENDS WsHub, FiniteSetTheorems, TLAPS

Listed == Stages \ {"new", "upgraded", "left"}

\* Presence, without the types.
Presence ==
  /\ \A t \in DOMAIN topics, c \in Conns : c \in topics[t] => t = TopicOf[c]
  /\ \A c \in Conns : c \in Members(TopicOf[c]) <=> stage[c] \in Listed /\ c \notin killed

\* Only a connection that had joined is ever killed: a join is of one not yet killed.
KilledHadJoined == \A c \in killed : stage[c] \notin {"new", "upgraded"}

Inv == TypeOK /\ Presence /\ KilledHadJoined

LEMMA InitInv == Init => Inv
<1> SUFFICES ASSUME Init PROVE Inv
  OBVIOUS
<1>1. TypeOK
  BY WsHubAssumption DEF Init, TypeOK, NoMembers, Stages
<1>2. Presence /\ KilledHadJoined
  BY DEF Init, Presence, KilledHadJoined, NoMembers, Members, Listed
<1>3. QED
  BY <1>1, <1>2 DEF Inv

\* A connection's task moves without joining or leaving, and the topics stay.
LEMMA PresenceKept ==
  ASSUME Inv, topics' = topics, killed' = killed,
         \/ stage' = stage
         \/ \E c \in Conns, s \in Listed : stage[c] \in Listed /\ Goes(c, s)
         \/ \E c \in Conns : stage[c] = "new" /\ Goes(c, "upgraded")
  PROVE  Presence' /\ KilledHadJoined' /\ stage' \in [Conns -> Stages]
<1>1. stage' \in [Conns -> Stages]
  BY DEF Inv, TypeOK, Goes, Listed, Stages
<1>2. \A c \in Conns : /\ stage'[c] \in Listed <=> stage[c] \in Listed
                       /\ stage'[c] \in {"new", "upgraded"} => stage[c] \in {"new", "upgraded"}
  BY DEF Inv, TypeOK, Goes, Listed, Stages
<1>3. KilledHadJoined'
  BY <1>2 DEF Inv, TypeOK, KilledHadJoined
<1>4. \A c \in Conns : Members(TopicOf[c])' = Members(TopicOf[c])
  BY DEF Members
<1>5. Presence'
  BY <1>2, <1>4 DEF Inv, Presence
<1>6. QED
  BY <1>1, <1>3, <1>5

LEMMA MembersType == ASSUME TypeOK, NEW t PROVE Members(t) \in SUBSET Conns
<1>1. QED
  BY DEF Members, TypeOK

\* A frame added to a queue, or another value put in a function, keeps its type.
LEMMA Appended ==
  ASSUME NEW T, NEW S, NEW f \in [S -> Seq(T)], NEW c \in S, NEW v \in T
  PROVE  [f EXCEPT ![c] = Append(f[c], v)] \in [S -> Seq(T)]
<1>1. Append(f[c], v) \in Seq(T)
  OBVIOUS
<1>2. QED
  BY <1>1

LEMMA Changed ==
  ASSUME NEW T, NEW S, NEW f \in [S -> T], NEW c \in S, NEW v \in T
  PROVE  [f EXCEPT ![c] = v] \in [S -> T]
<1>1. QED
  OBVIOUS

-----------------------------------------------------------------------------
(* The steps that list and unlist.                                         *)

LEMMA JoinInv == ASSUME Inv, NEW c \in Conns, Join(c) PROVE Inv'
<1> DEFINE t == TopicOf[c]
<1>1. /\ stage[c] = "upgraded" /\ topics' = Joined(t, c)
      /\ stage' = [stage EXCEPT ![c] = "serving"]
      /\ UNCHANGED <<killing, kills, killed, queue, wire, clientVars, pubVars>>
  BY DEF Join, Goes
<1>2. t \in Topics /\ \A d \in Conns : TopicOf[d] \in Topics
  BY WsHubAssumption
<1> HIDE DEF t
<1>3. Members(t) \in SUBSET Conns
  BY MembersType DEF Inv
<1>4. /\ DOMAIN topics' = DOMAIN topics \cup {t}
      /\ topics'[t] = Members(t) \cup {c}
      /\ \A u \in DOMAIN topics : u # t => topics'[u] = topics[u]
  BY <1>1 DEF Joined
<1>5. \A u : Members(u)' = IF u = t THEN Members(t) \cup {c} ELSE Members(u)
  BY <1>4 DEF Members
<1>6. TypeOK'
  BY <1>1, <1>2, <1>3, <1>4 DEF Inv, TypeOK, Stages, clientVars, pubVars
<1>7. c \notin killed
  BY <1>1 DEF Inv, KilledHadJoined
<1>8. /\ stage'[c] = "serving" /\ \A d \in Conns \ {c} : stage'[d] = stage[d]
      /\ killed' = killed
  BY <1>1 DEF Inv, TypeOK
<1>9. \A u \in DOMAIN topics', d \in Conns : d \in topics'[u] => u = TopicOf[d]
  <2>1. ASSUME NEW d \in Members(t) PROVE t = TopicOf[d]
    BY <1>3, <2>1 DEF Members, Inv, Presence
  <2>2. QED
    BY <1>4, <2>1 DEF Inv, Presence, t
<1>10. \A d \in Conns : d \in Members(TopicOf[d])' <=> stage'[d] \in Listed /\ d \notin killed'
  <2>1. TopicOf[c] = t /\ c \in Members(t)' /\ stage'[c] \in Listed
    BY <1>5, <1>8 DEF Listed, Stages, t
  <2>2. ASSUME NEW d \in Conns \ {c}
        PROVE  d \in Members(TopicOf[d])' <=> d \in Members(TopicOf[d])
    BY <1>5
  <2>3. QED
    BY <1>7, <1>8, <2>1, <2>2 DEF Inv, Presence
<1>11. KilledHadJoined'
  BY <1>7, <1>8 DEF Inv, KilledHadJoined, TypeOK
<1>12. QED
  BY <1>6, <1>9, <1>10, <1>11 DEF Inv, Presence

\* The last member to leave takes the topic with it; nobody else is unlisted.
LEMMA LeaveInv == ASSUME Inv, NEW c \in Conns, Leave(c) PROVE Inv'
<1> DEFINE t == TopicOf[c]
<1>1. /\ stage[c] = "leaving"
      /\ topics' = IF c \in Members(t) THEN Left(t, c) ELSE topics
      /\ stage' = [stage EXCEPT ![c] = "left"]
      /\ queue' = [queue EXCEPT ![c] = <<>>]
      /\ UNCHANGED <<killing, kills, killed, wire, clientVars, pubVars>>
  BY DEF Leave, Goes
<1> HIDE DEF t
<1>2. /\ Members(t) \in SUBSET Conns
      /\ c \in Members(t) => t \in DOMAIN topics /\ topics[t] = Members(t)
  BY MembersType DEF Inv, Members
<1>3. /\ DOMAIN topics' \subseteq DOMAIN topics
      /\ \A u \in DOMAIN topics' : topics'[u] = topics[u] \ {c} \/ topics'[u] = topics[u]
      /\ \A u \in DOMAIN topics' : topics'[u] # {}
      /\ \A u : Members(u)' = IF u = t THEN Members(u) \ {c} ELSE Members(u)
  <2>1. CASE c \notin Members(t)
    <3>1. topics' = topics /\ Members(t) = Members(t) \ {c}
      BY <1>1, <1>2, <2>1
    <3>2. \A u : Members(u)' = Members(u)
      BY <3>1 DEF Members
    <3>3. QED
      BY <3>1, <3>2 DEF Inv, TypeOK
  <2>2. CASE c \in Members(t) /\ Members(t) \ {c} = {}
    BY <1>1, <1>2, <2>2 DEF Left, Members, Inv, TypeOK
  <2>3. CASE c \in Members(t) /\ Members(t) \ {c} # {}
    <3>1. topics' = [topics EXCEPT ![t] = Members(t) \ {c}]
      BY <1>1, <2>3 DEF Left
    <3>2. QED
      BY <1>2, <2>3, <3>1 DEF Members, Inv, TypeOK
  <2>4. QED
    BY <2>1, <2>2, <2>3
<1>4. TypeOK'
  <2>1. DOMAIN topics' \subseteq Topics
    BY <1>3 DEF Inv, TypeOK
  <2>2. \A u \in DOMAIN topics' : topics'[u] \in (SUBSET Conns) \ {{}}
    BY <1>3 DEF Inv, TypeOK
  <2>3. queue' \in [Conns -> Seq(Frames)] /\ stage' \in [Conns -> Stages]
    BY <1>1 DEF Inv, TypeOK, Stages
  <2>4. QED
    BY <1>1, <2>1, <2>2, <2>3 DEF Inv, TypeOK, clientVars, pubVars
<1>5. /\ stage'[c] = "left" /\ \A d \in Conns \ {c} : stage'[d] = stage[d]
      /\ killed' = killed
  BY <1>1 DEF Inv, TypeOK
<1>6. \A u \in DOMAIN topics', d \in Conns : d \in topics'[u] => u = TopicOf[d]
  BY <1>3 DEF Inv, Presence
<1>7. \A d \in Conns : d \in Members(TopicOf[d])' <=> stage'[d] \in Listed /\ d \notin killed'
  <2>1. c \notin Members(TopicOf[c])' /\ stage'[c] \notin Listed
    BY <1>3, <1>5 DEF Listed, t
  <2>2. ASSUME NEW d \in Conns \ {c}
        PROVE  d \in Members(TopicOf[d])' <=> d \in Members(TopicOf[d])
    BY <1>3
  <2>3. QED
    BY <1>5, <2>1, <2>2 DEF Inv, Presence
<1>8. KilledHadJoined'
  BY <1>5 DEF Inv, KilledHadJoined, TypeOK
<1>9. QED
  BY <1>4, <1>6, <1>7, <1>8 DEF Inv, Presence

\* A kill unlists all members of its topic, and nobody else.
LEMMA KillInv == ASSUME Inv, NEW t \in Topics, Kill(t) PROVE Inv'
<1>1. /\ kills < MaxKills /\ t \in DOMAIN topics
      /\ topics' = [u \in DOMAIN topics \ {t} |-> topics[u]]
      /\ killing' = killing \cup topics[t] /\ killed' = killed \cup topics[t]
      /\ kills' = kills + 1
      /\ UNCHANGED <<stage, queue, wire, clientVars, pubVars>>
  BY DEF Kill
<1>2. topics[t] \subseteq Conns /\ kills \in Nat /\ kills' \in 0 .. MaxKills
  BY <1>1, WsHubAssumption DEF Inv, TypeOK
<1>3. TypeOK'
  BY <1>1, <1>2 DEF Inv, TypeOK, clientVars, pubVars
<1>4. \A u : Members(u)' = IF u = t THEN {} ELSE Members(u)
  BY <1>1 DEF Members
<1>5. \A u \in DOMAIN topics', d \in Conns : d \in topics'[u] => u = TopicOf[d]
  BY <1>1 DEF Inv, Presence
<1>6. \A d \in Conns : d \in Members(TopicOf[d])' <=> stage'[d] \in Listed /\ d \notin killed'
  <2>1. ASSUME NEW d \in Conns, d \in topics[t]
        PROVE  d \notin Members(TopicOf[d])' /\ d \in killed'
    BY <1>1, <1>4, <2>1 DEF Inv, Presence
  <2>2. ASSUME NEW d \in Conns, d \notin topics[t]
        PROVE  /\ d \in killed' <=> d \in killed
               /\ d \in Members(TopicOf[d])' <=> d \in Members(TopicOf[d])
    <3>1. TopicOf[d] = t => d \notin Members(TopicOf[d])
      BY <1>1, <2>2 DEF Members
    <3>2. QED
      BY <1>1, <1>4, <2>2, <3>1
  <2>3. QED
    BY <1>1, <2>1, <2>2 DEF Inv, Presence
<1>7. KilledHadJoined'
  <2>1. ASSUME NEW d \in topics[t] PROVE stage[d] \in Listed
    <3>1. d \in Conns /\ TopicOf[d] = t /\ d \in Members(t)
      BY <1>1, <1>2, <2>1 DEF Inv, Presence, Members
    <3>2. QED
      BY <3>1 DEF Inv, Presence
  <2>2. QED
    BY <1>1, <2>1 DEF Inv, KilledHadJoined, Listed
<1>8. QED
  BY <1>3, <1>5, <1>6, <1>7 DEF Inv, Presence

-----------------------------------------------------------------------------
(* Every other step lists and unlists nobody.                              *)

\* The hub's fan-out, the admin's requests and the kill's second half.
LEMMA HubStepInv ==
  ASSUME Inv,
         \/ \E x \in Texts : Fanout(x)
         \/ \E a \in Admins : AdminPublish(a)
         \/ \E c \in Conns : CloseMember(c)
  PROVE  Inv'
<1>1. topics' = topics /\ killed' = killed /\ stage' = stage
  BY DEF Fanout, SendTo, Tell, AdminPublish, CloseMember, hubVars
<1>2. Presence' /\ KilledHadJoined'
  BY <1>1, PresenceKept
<1>3. TypeOK'
  <2>1. ASSUME NEW x \in Texts, NEW c \in Conns, SendTo(x, c) PROVE TypeOK'
    <3>1. /\ fanout' = [fanout EXCEPT ![x] = @ \ {c}]
          /\ queue' = queue \/ queue' = [queue EXCEPT ![c] = Append(@, x)]
          /\ accepted' = accepted \/ accepted' = [accepted EXCEPT ![c] = Append(@, x)]
          /\ telling' = telling \/ telling' = [telling EXCEPT ![x] = c]
          /\ UNCHANGED <<hubVars, stage, wire, clientVars, told>>
      BY <2>1 DEF SendTo
    <3>2. queue' \in [Conns -> Seq(Frames)] /\ accepted' \in [Conns -> Seq(Texts)]
      <4>1. x \in Frames
        BY DEF Frames
      <4>2. queue \in [Conns -> Seq(Frames)] /\ accepted \in [Conns -> Seq(Texts)]
        BY DEF Inv, TypeOK
      <4>3. /\ [queue EXCEPT ![c] = Append(queue[c], x)] \in [Conns -> Seq(Frames)]
            /\ [accepted EXCEPT ![c] = Append(accepted[c], x)] \in [Conns -> Seq(Texts)]
        BY <4>1, <4>2, Appended, Zenon
      <4>4. QED
        BY <3>1, <4>2, <4>3
    <3>3. fanout' \in [Texts -> SUBSET Conns] /\ telling' \in [Texts -> Conns \cup {Idle}]
      <4>1. fanout \in [Texts -> SUBSET Conns] /\ telling \in [Texts -> Conns \cup {Idle}]
        BY DEF Inv, TypeOK
      <4>2. fanout[x] \ {c} \in SUBSET Conns /\ c \in Conns \cup {Idle}
        BY <4>1
      <4>3. QED
        BY <3>1, <4>1, <4>2, Changed
    <3>4. QED
      BY <3>1, <3>2, <3>3 DEF Inv, TypeOK, hubVars, clientVars
  <2>2. ASSUME NEW x \in Texts, Tell(x) PROVE TypeOK'
    <3>1. telling[x] \in Conns
      BY <2>2 DEF Tell, Inv, TypeOK
    <3>2. QED
      BY <2>2, <3>1 DEF Tell, Inv, TypeOK, hubVars, clientVars
  <2>3. ASSUME NEW a \in Admins, AdminPublish(a) PROVE TypeOK'
    <3>1. Targets(AdminTopic[a], a) \subseteq Conns /\ a \in Texts
      BY MembersType DEF Targets, Inv, Texts
    <3>2. QED
      BY <2>3, <3>1 DEF AdminPublish, Inv, TypeOK, hubVars
  <2>4. ASSUME NEW c \in Conns, CloseMember(c) PROVE TypeOK'
    <3>1. /\ queue' = queue \/ queue' = [queue EXCEPT ![c] = Append(queue[c], Close)]
          /\ killing' \subseteq killing
          /\ UNCHANGED <<topics, kills, killed, stage, wire, clientVars, pubVars>>
      BY <2>4 DEF CloseMember, AskToClose
    <3>2. queue \in [Conns -> Seq(Frames)] /\ Close \in Frames
      BY DEF Inv, TypeOK, Frames
    <3>3. [queue EXCEPT ![c] = Append(queue[c], Close)] \in [Conns -> Seq(Frames)]
      BY <3>2, Appended, Zenon
    <3>4. queue' \in [Conns -> Seq(Frames)]
      BY <3>1, <3>2, <3>3
    <3>5. QED
      BY <3>1, <3>4 DEF Inv, TypeOK, clientVars, pubVars
  <2>5. QED
    BY <2>1, <2>2, <2>3, <2>4 DEF Fanout
<1>4. QED
  BY <1>2, <1>3 DEF Inv

\* A task between its joining and its leaving, and before.
LEMMA TaskStepInv ==
  ASSUME Inv, NEW c \in Conns,
         \/ Upgrade(c) \/ WriteText(c) \/ WriteClose(c) \/ Hear(c) \/ Published(c)
         \/ HearEnd(c) \/ Discard(c) \/ FinishClose(c)
  PROVE  Inv'
<1>1. topics' = topics /\ killed' = killed
  BY DEF Upgrade, WriteText, WriteClose, Hear, Published, HearEnd, Discard, FinishClose, hubVars
<1>2. \/ stage' = stage
      \/ \E s \in Listed : stage[c] \in Listed /\ Goes(c, s)
      \/ stage[c] = "new" /\ Goes(c, "upgraded")
  <2>1. {"serving", "publishing", "closing", "leaving"} \subseteq Listed
    BY DEF Listed, Stages
  <2>2. QED
    BY <2>1 DEF Upgrade, WriteText, WriteClose, Hear, Published, HearEnd, Discard, FinishClose,
                AfterClose
<1>3. /\ Presence' /\ KilledHadJoined' /\ stage' \in [Conns -> Stages]
  BY <1>1, <1>2, PresenceKept
<1>4. /\ queue' \in [Conns -> Seq(Frames)] /\ wire' \in [Conns -> Seq(Frames)]
      /\ inbound' \in [Conns -> Seq(Frames)] /\ fanout' \in [Texts -> SUBSET Conns]
  <2>1. CASE WriteText(c) \/ WriteClose(c)
    <3>1. /\ queue[c] # <<>> /\ queue' = [queue EXCEPT ![c] = Tail(@)]
          /\ inbound' = inbound /\ fanout' = fanout
          /\ \/ wire' = wire
             \/ wire' = [wire EXCEPT ![c] = Append(@, Head(queue[c]))]
             \/ wire' = [wire EXCEPT ![c] = Append(@, Close)]
      BY <2>1 DEF WriteText, WriteClose, clientVars, pubVars
    <3>2. queue[c] \in Seq(Frames) /\ wire[c] \in Seq(Frames) /\ Close \in Frames
      BY DEF Inv, TypeOK, Frames
    <3>3. Tail(queue[c]) \in Seq(Frames) /\ Head(queue[c]) \in Frames
      BY <3>1, <3>2
    <3>4. /\ queue \in [Conns -> Seq(Frames)] /\ wire \in [Conns -> Seq(Frames)]
          /\ inbound \in [Conns -> Seq(Frames)] /\ fanout \in [Texts -> SUBSET Conns]
      BY DEF Inv, TypeOK
    <3>5. /\ [queue EXCEPT ![c] = Tail(queue[c])] \in [Conns -> Seq(Frames)]
          /\ [wire EXCEPT ![c] = Append(wire[c], Head(queue[c]))] \in [Conns -> Seq(Frames)]
          /\ [wire EXCEPT ![c] = Append(wire[c], Close)] \in [Conns -> Seq(Frames)]
      BY <3>2, <3>3, <3>4, Appended, Changed, Zenon
    <3>6. QED
      BY <3>1, <3>4, <3>5
  <2>2. CASE Hear(c) \/ Discard(c)
    <3>1. /\ inbound[c] # <<>> /\ inbound' = [inbound EXCEPT ![c] = Tail(@)]
          /\ queue' = queue /\ wire' = wire
          /\ fanout' = fanout \/ fanout' = [fanout EXCEPT ![c] = Targets(TopicOf[c], c)]
      BY <2>2 DEF Hear, Discard, pubVars
    <3>2. Tail(inbound[c]) \in Seq(Frames)
      BY <3>1 DEF Inv, TypeOK
    <3>3. Targets(TopicOf[c], c) \subseteq Conns
      BY MembersType DEF Targets, Inv
    <3>4. inbound' \in [Conns -> Seq(Frames)]
      BY <3>1, <3>2 DEF Inv, TypeOK
    <3>5. fanout' \in [Texts -> SUBSET Conns]
      <4>1. fanout \in [Texts -> SUBSET Conns] /\ c \in Texts
        BY DEF Inv, TypeOK, Texts
      <4>2. Targets(TopicOf[c], c) \in SUBSET Conns
        BY <3>3
      <4>3. QED
        BY <3>1, <4>1, <4>2, Changed
    <3>6. QED
      BY <3>1, <3>4, <3>5 DEF Inv, TypeOK
  <2>3. CASE Upgrade(c) \/ Published(c) \/ HearEnd(c) \/ FinishClose(c)
    BY <2>3 DEF Upgrade, Published, HearEnd, FinishClose, clientVars, pubVars, Inv, TypeOK
  <2>4. QED
    BY <2>1, <2>2, <2>3
<1>5. UNCHANGED <<read, client, said, telling, killing, kills, killed, accepted, told>>
  BY DEF Upgrade, WriteText, WriteClose, Hear, Published, HearEnd, Discard, FinishClose,
         hubVars, clientVars, pubVars
<1>6. TypeOK'
  BY <1>1, <1>3, <1>4, <1>5 DEF Inv, TypeOK
<1>7. QED
  BY <1>3, <1>6 DEF Inv

LEMMA ClientStepInv ==
  ASSUME Inv, NEW c \in Conns, Talk(c) \/ Read(c) \/ HangUp(c) \/ Vanish(c)
  PROVE  Inv'
<1>1. /\ topics' = topics /\ killed' = killed /\ stage' = stage
      /\ UNCHANGED <<queue, wire, fanout, telling, killing, kills, accepted, told>>
  BY DEF Talk, Read, HangUp, Vanish, hubVars, pubVars
<1>2. Presence' /\ KilledHadJoined'
  BY <1>1, PresenceKept
<1>3. /\ inbound' \in [Conns -> Seq(Frames)]
      /\ client' \in [Conns -> {"open", "closed", "gone"}]
      /\ read' \in [Conns -> Nat] /\ said' \subseteq Texts
  <2>1. c \in Frames /\ Close \in Frames /\ c \in Texts
    BY DEF Frames, Texts
  <2>2. CASE Talk(c)
    BY <2>1, <2>2 DEF Talk, Inv, TypeOK
  <2>3. CASE Read(c)
    <3>1. /\ read' = [read EXCEPT ![c] = @ + 1] /\ said' = said
          /\ inbound' = inbound \/ inbound' = [inbound EXCEPT ![c] = Append(@, Close)]
          /\ client' = client \/ client' = [client EXCEPT ![c] = "closed"]
      BY <2>3 DEF Read
    <3>2. inbound' \in [Conns -> Seq(Frames)]
      <4>1. inbound \in [Conns -> Seq(Frames)]
        BY DEF Inv, TypeOK
      <4>2. [inbound EXCEPT ![c] = Append(inbound[c], Close)] \in [Conns -> Seq(Frames)]
        BY <2>1, <4>1, Appended, Zenon
      <4>3. QED
        BY <3>1, <4>1, <4>2
    <3>3. client' \in [Conns -> {"open", "closed", "gone"}]
      BY <3>1 DEF Inv, TypeOK
    <3>4. read' \in [Conns -> Nat] /\ said' \subseteq Texts
      BY <3>1 DEF Inv, TypeOK
    <3>5. QED
      BY <3>2, <3>3, <3>4
  <2>4. CASE HangUp(c) \/ Vanish(c)
    <3>1. /\ read' = read /\ said' = said
          /\ inbound' = inbound \/ inbound' = [inbound EXCEPT ![c] = Append(@, Close)]
          /\ \/ client' = [client EXCEPT ![c] = "closed"]
             \/ client' = [client EXCEPT ![c] = "gone"]
      BY <2>4 DEF HangUp, Vanish
    <3>2. inbound' \in [Conns -> Seq(Frames)]
      <4>1. inbound \in [Conns -> Seq(Frames)]
        BY DEF Inv, TypeOK
      <4>2. [inbound EXCEPT ![c] = Append(inbound[c], Close)] \in [Conns -> Seq(Frames)]
        BY <2>1, <4>1, Appended, Zenon
      <4>3. QED
        BY <3>1, <4>1, <4>2
    <3>3. client' \in [Conns -> {"open", "closed", "gone"}]
      BY <3>1 DEF Inv, TypeOK
    <3>4. QED
      BY <3>1, <3>2, <3>3 DEF Inv, TypeOK
  <2>5. QED
    BY <2>2, <2>3, <2>4
<1>4. TypeOK'
  BY <1>1, <1>3 DEF Inv, TypeOK
<1>5. QED
  BY <1>2, <1>4 DEF Inv

LEMMA NextInv == Inv /\ [Next]_vars => Inv'
<1> SUFFICES ASSUME Inv, [Next]_vars PROVE Inv'
  OBVIOUS
<1>1. CASE \E c \in Conns : Upgrade(c) \/ Task(c)
  BY <1>1, JoinInv, LeaveInv, TaskStepInv DEF Task
<1>2. CASE \/ \E x \in Texts : Fanout(x)
           \/ \E a \in Admins : AdminPublish(a)
           \/ \E c \in Conns : CloseMember(c)
  BY <1>2, HubStepInv
<1>3. CASE \E t \in Topics : Kill(t)
  BY <1>3, KillInv
<1>4. CASE \E c \in Conns : Talk(c) \/ Read(c) \/ HangUp(c) \/ Vanish(c)
  BY <1>4, ClientStepInv
<1>5. CASE UNCHANGED vars
  <2>1. topics' = topics /\ killed' = killed /\ stage' = stage
    BY <1>5 DEF vars
  <2>2. Presence' /\ KilledHadJoined'
    BY <2>1, PresenceKept
  <2>3. TypeOK'
    BY <1>5 DEF vars, clientVars, pubVars, Inv, TypeOK
  <2>4. QED
    BY <2>2, <2>3 DEF Inv
<1>6. QED
  BY <1>1, <1>2, <1>3, <1>4, <1>5 DEF Next

\* The inductive invariant holds in every behaviour of the hub and its connections.
THEOREM WsHubInv == Spec => []Inv
<1>1. QED
  BY InitInv, NextInv, PTL DEF Spec

\* A connection is listed under its own topic from its join to its departure, unless a
\* kill unlisted it, whichever publishes, kills and departures overlap (Hub in hub.rs).
THEOREM WsHubPresenceIsExact == Spec => []PresenceIsExact
<1>1. Inv => PresenceIsExact
  BY DEF Inv, Presence, PresenceIsExact, Listed
<1>2. QED
  BY <1>1, WsHubInv, PTL

-----------------------------------------------------------------------------
(* Trap T6, connection by connection.                                      *)

HasNone(s) == \A i \in 1 .. Len(s) : s[i] # Close
HasOne(s) == \E i \in 1 .. Len(s) : s[i] = Close
AtMostOne(s) == \A i, j \in 1 .. Len(s) : s[i] = Close /\ s[j] = Close => i = j
Closing == {"closing", "leaving", "left"}

\* The kill has got as far as the connection, whose queue was asked to close.
Asked(c) == c \in killed \ killing

\* Nothing before the kill asked; one Close then, in the queue until it is written, and
\* the task writes nothing after it.
CloseRight(c) ==
  /\ ~Asked(c) => HasNone(wire[c]) /\ HasNone(queue[c])
  /\ Asked(c) /\ stage[c] \in {"serving", "publishing"} => HasOne(queue[c])
  /\ AtMostOne(queue[c])
  /\ HasOne(wire[c]) => HasNone(queue[c])
  /\ \A i \in 1 .. Len(wire[c]) : wire[c][i] = Close => i = Len(wire[c]) /\ stage[c] \in Closing

CloseInv == killing \subseteq killed /\ \A c \in Conns : CloseRight(c)

LEMMA CloseInit == Init => CloseInv
<1>1. QED
  BY DEF Init, CloseInv, CloseRight, Asked, HasNone, HasOne, AtMostOne

\* What a step that leaves a connection's frames alone may do with its stage.
LEMMA CloseKept ==
  ASSUME NEW c \in Conns, CloseRight(c),
         queue'[c] = queue[c], wire'[c] = wire[c], Asked(c)' = Asked(c),
         \/ stage'[c] = stage[c]
         \/ stage[c] \in {"serving", "publishing"}
         \/ stage[c] \in Closing /\ stage'[c] \in Closing
         \/ ~Asked(c) /\ stage[c] \notin Closing
  PROVE  CloseRight(c)'
<1>1. /\ HasNone(wire[c])' = HasNone(wire[c]) /\ HasOne(wire[c])' = HasOne(wire[c])
      /\ HasNone(queue[c])' = HasNone(queue[c]) /\ HasOne(queue[c])' = HasOne(queue[c])
      /\ AtMostOne(queue[c])' = AtMostOne(queue[c])
  BY DEF HasNone, HasOne, AtMostOne
<1>2. QED
  BY <1>1 DEF CloseRight, Closing

\* Steps of the hub, the clients and the tasks that write and queue no frame.
LEMMA CloseQuiet ==
  ASSUME Inv, CloseInv, queue' = queue, wire' = wire, killed' = killed, killing' = killing,
         \/ stage' = stage
         \/ \E c \in Conns :
              \/ stage[c] \in {"serving", "publishing"} /\ stage' = [stage EXCEPT ![c] = stage'[c]]
              \/ /\ stage[c] \in Closing /\ stage'[c] \in Closing
                 /\ stage' = [stage EXCEPT ![c] = stage'[c]]
              \/ /\ stage[c] \in {"new", "upgraded"}
                 /\ stage' = [stage EXCEPT ![c] = stage'[c]]
  PROVE  CloseInv'
<1>1. ASSUME NEW c \in Conns PROVE CloseRight(c)'
  <2>1. /\ CloseRight(c) /\ queue'[c] = queue[c] /\ wire'[c] = wire[c]
        /\ Asked(c)' = Asked(c)
    BY DEF CloseInv, Asked
  <2>2. stage[c] \in {"new", "upgraded"} => ~Asked(c)
    BY DEF Asked, Inv, KilledHadJoined
  <2>3. \/ stage'[c] = stage[c]
        \/ stage[c] \in {"serving", "publishing"}
        \/ stage[c] \in Closing /\ stage'[c] \in Closing
        \/ stage[c] \in {"new", "upgraded"}
    BY DEF Inv, TypeOK
  <2>4. stage[c] \in {"new", "upgraded"} => stage[c] \notin Closing
    BY DEF Closing
  <2>5. QED
    BY <2>1, <2>2, <2>3, <2>4, CloseKept
<1>2. QED
  BY <1>1 DEF CloseInv

\* A frame added to a queue.
LEMMA HasAppended ==
  ASSUME NEW T, NEW s \in Seq(T), NEW f \in T
  PROVE  /\ HasNone(s) /\ f # Close => HasNone(Append(s, f))
         /\ HasOne(s) => HasOne(Append(s, f))
         /\ f = Close => HasOne(Append(s, f))
         /\ AtMostOne(s) /\ (f # Close \/ HasNone(s)) => AtMostOne(Append(s, f))
<1>1. /\ Len(Append(s, f)) = Len(s) + 1 /\ Len(s) \in Nat
      /\ \A i \in 1 .. Len(s) : Append(s, f)[i] = s[i]
      /\ Append(s, f)[Len(s) + 1] = f
  OBVIOUS
<1>2. \A i \in 1 .. Len(Append(s, f)) : i \in 1 .. Len(s) \/ i = Len(s) + 1
  BY <1>1
<1>3. \A i \in 1 .. Len(s) : i \in 1 .. Len(Append(s, f))
  BY <1>1
<1>4. Len(s) + 1 \in 1 .. Len(Append(s, f))
  BY <1>1
<1>5. HasNone(s) /\ f # Close => HasNone(Append(s, f))
  BY <1>1, <1>2 DEF HasNone
<1>6. HasOne(s) => HasOne(Append(s, f))
  BY <1>1, <1>3 DEF HasOne
<1>7. f = Close => HasOne(Append(s, f))
  BY <1>1, <1>4 DEF HasOne
<1>8. AtMostOne(s) /\ (f # Close \/ HasNone(s)) => AtMostOne(Append(s, f))
  BY <1>1, <1>2 DEF AtMostOne, HasNone
<1>9. QED
  BY <1>5, <1>6, <1>7, <1>8

\* The first frame taken off a queue.
LEMMA HasTaken ==
  ASSUME NEW T, NEW s \in Seq(T), s # <<>>
  PROVE  /\ HasNone(s) => HasNone(Tail(s)) /\ Head(s) # Close
         /\ HasOne(s) /\ Head(s) # Close => HasOne(Tail(s))
         /\ AtMostOne(s) => AtMostOne(Tail(s))
         /\ AtMostOne(s) /\ Head(s) = Close => HasNone(Tail(s))
         /\ Head(s) = Close => HasOne(s)
<1>1. /\ Len(s) \in Nat /\ Len(s) >= 1 /\ Len(Tail(s)) = Len(s) - 1 /\ Head(s) = s[1]
      /\ \A i \in 1 .. Len(Tail(s)) : Tail(s)[i] = s[i + 1]
  OBVIOUS
<1>2. \A i \in 1 .. Len(Tail(s)) : i + 1 \in 1 .. Len(s)
  BY <1>1
<1>3. 1 \in 1 .. Len(s)
  BY <1>1
<1>4. HasNone(s) => HasNone(Tail(s)) /\ Head(s) # Close
  BY <1>1, <1>2, <1>3 DEF HasNone
<1>5. ASSUME HasOne(s), Head(s) # Close PROVE HasOne(Tail(s))
  <2>1. PICK i \in 1 .. Len(s) : s[i] = Close
    BY <1>5 DEF HasOne
  <2>2. i - 1 \in 1 .. Len(Tail(s)) /\ (i - 1) + 1 = i
    BY <1>1, <1>5, <2>1
  <2>3. QED
    BY <1>1, <2>1, <2>2 DEF HasOne
<1>6. AtMostOne(s) => AtMostOne(Tail(s))
  <2>1. ASSUME AtMostOne(s), NEW i \in 1 .. Len(Tail(s)), NEW j \in 1 .. Len(Tail(s)),
               Tail(s)[i] = Close, Tail(s)[j] = Close
        PROVE  i = j
    <3>1. i + 1 = j + 1
      BY <1>1, <1>2, <2>1 DEF AtMostOne
    <3>2. QED
      BY <3>1
  <2>2. QED
    BY <2>1 DEF AtMostOne
<1>7. ASSUME AtMostOne(s), Head(s) = Close PROVE HasNone(Tail(s))
  <2>1. ASSUME NEW i \in 1 .. Len(Tail(s)), Tail(s)[i] = Close PROVE FALSE
    <3>1. i + 1 = 1
      BY <1>1, <1>2, <1>3, <1>7, <2>1 DEF AtMostOne
    <3>2. QED
      BY <3>1
  <2>2. QED
    BY <2>1 DEF HasNone
<1>8. Head(s) = Close => HasOne(s)
  BY <1>1, <1>3 DEF HasOne
<1>9. QED
  BY <1>4, <1>5, <1>6, <1>7, <1>8

LEMMA NoneOrOne == \A s : HasNone(s) <=> ~HasOne(s)
<1>1. QED
  BY DEF HasNone, HasOne

\* A publish adds a text; the second half of a kill, a Close.
LEMMA CloseQueued ==
  ASSUME Inv, CloseInv,
         \/ \E x \in Texts, c \in Conns : SendTo(x, c)
         \/ \E c \in Conns : CloseMember(c)
  PROVE  CloseInv'
<1>1. wire' = wire /\ stage' = stage /\ killed' = killed /\ killing' \subseteq killing
  BY DEF SendTo, CloseMember, hubVars
<1>2. ASSUME NEW x \in Texts, NEW c \in Conns, SendTo(x, c) PROVE CloseInv'
  <2>1. /\ killing' = killing
        /\ queue' = queue \/ queue' = [queue EXCEPT ![c] = Append(queue[c], x)]
    BY <1>2 DEF SendTo, hubVars
  <2>2. x # Close /\ x \in Frames
    BY WsHubAssumption DEF Texts, Close, Frames
  <2>3. queue \in [Conns -> Seq(Frames)]
    BY DEF Inv, TypeOK
  <2>4. ASSUME NEW d \in Conns PROVE CloseRight(d)'
    <3>1. CloseRight(d) /\ wire'[d] = wire[d] /\ stage'[d] = stage[d] /\ Asked(d)' = Asked(d)
      BY <1>1, <2>1 DEF CloseInv, Asked
    <3>2. CASE queue'[d] = queue[d]
      BY <3>1, <3>2, CloseKept
    <3>3. CASE queue'[d] = Append(queue[d], x)
      <4>1. /\ HasNone(queue[d]) => HasNone(queue'[d])
            /\ HasOne(queue[d]) => HasOne(queue'[d])
            /\ AtMostOne(queue[d]) => AtMostOne(queue'[d])
        BY <2>2, <2>3, <3>3, HasAppended
      <4>2. QED
        BY <3>1, <4>1 DEF CloseRight
    <3>4. QED
      BY <2>1, <2>3, <3>2, <3>3
  <2>5. QED
    BY <1>1, <2>1, <2>4 DEF CloseInv
<1>3. ASSUME NEW c \in Conns, CloseMember(c) PROVE CloseInv'
  <2>1. /\ c \in killing /\ killing' = killing \ {c}
        /\ queue' = IF Open(c) THEN [queue EXCEPT ![c] = Append(queue[c], Close)] ELSE queue
    BY <1>3 DEF CloseMember, AskToClose
  <2>2. queue \in [Conns -> Seq(Frames)] /\ Close \in Frames
    BY DEF Inv, TypeOK, Frames
  <2>3. ASSUME NEW d \in Conns, d # c PROVE CloseRight(d)'
    <3>1. /\ CloseRight(d) /\ wire'[d] = wire[d] /\ stage'[d] = stage[d]
          /\ queue'[d] = queue[d] /\ Asked(d)' = Asked(d)
      BY <1>1, <2>1, <2>2, <2>3 DEF CloseInv, Asked
    <3>2. QED
      BY <3>1, CloseKept
  <2>4. CloseRight(c)'
    <3>1. /\ CloseRight(c) /\ ~Asked(c) /\ Asked(c)' /\ wire'[c] = wire[c] /\ stage'[c] = stage[c]
      BY <1>1, <2>1 DEF CloseInv, Asked
    <3>2. HasNone(wire[c]) /\ HasNone(queue[c]) /\ ~HasOne(wire'[c])
      BY <3>1, NoneOrOne DEF CloseRight
    <3>3. CASE Open(c)
      <4>1. queue'[c] = Append(queue[c], Close)
        BY <2>1, <2>2, <3>3
      <4>2. AtMostOne(queue'[c]) /\ HasOne(queue'[c])
        BY <2>2, <3>1, <3>2, <4>1, HasAppended DEF CloseRight
      <4>3. QED
        BY <3>1, <3>2, <4>2 DEF CloseRight
    <3>4. CASE ~Open(c)
      <4>1. queue'[c] = queue[c] /\ stage[c] \notin {"serving", "publishing"}
        BY <2>1, <3>4 DEF Open
      <4>2. QED
        BY <3>1, <3>2, <4>1 DEF CloseRight
    <3>5. QED
      BY <3>3, <3>4
  <2>5. QED
    BY <1>1, <2>1, <2>3, <2>4 DEF CloseInv
<1>4. QED
  BY <1>2, <1>3

\* A kill finds only members no earlier kill found.
LEMMA CloseKill == ASSUME Inv, CloseInv, NEW t \in Topics, Kill(t) PROVE CloseInv'
<1>1. /\ t \in DOMAIN topics
      /\ killing' = killing \cup topics[t] /\ killed' = killed \cup topics[t]
      /\ queue' = queue /\ wire' = wire /\ stage' = stage
  BY DEF Kill
<1>2. \A c \in topics[t] : c \in Conns /\ c \notin killed
  <2>1. ASSUME NEW c \in topics[t] PROVE c \in Conns /\ c \notin killed
    <3>1. c \in Conns
      BY <1>1 DEF Inv, TypeOK
    <3>2. c \in Members(TopicOf[c])
      BY <1>1, <3>1 DEF Inv, Presence, Members
    <3>3. QED
      BY <3>1, <3>2 DEF Inv, Presence
  <2>2. QED
    BY <2>1
<1>3. ASSUME NEW c \in Conns PROVE CloseRight(c)'
  <2>1. Asked(c)' = Asked(c)
    BY <1>1, <1>2 DEF Asked
  <2>2. QED
    BY <1>1, <2>1, CloseKept DEF CloseInv
<1>4. QED
  BY <1>1, <1>3 DEF CloseInv

\* The task takes the next frame off its queue, and writes it if the client is there.
LEMMA CloseWritten ==
  ASSUME Inv, CloseInv, NEW c \in Conns, WriteText(c) \/ WriteClose(c)
  PROVE  CloseInv'
<1>1. /\ stage[c] = "serving" /\ queue[c] # <<>>
      /\ queue' = [queue EXCEPT ![c] = Tail(queue[c])]
      /\ killed' = killed /\ killing' = killing
  BY DEF WriteText, WriteClose, hubVars
<1>2. /\ queue \in [Conns -> Seq(Frames)] /\ wire \in [Conns -> Seq(Frames)]
      /\ stage \in [Conns -> Stages] /\ Close \in Frames
  BY DEF Inv, TypeOK, Frames
<1>3. queue'[c] = Tail(queue[c]) /\ Head(queue[c]) \in Frames
  BY <1>1, <1>2
<1>4. CloseRight(c) /\ Asked(c)' = Asked(c)
  BY <1>1 DEF CloseInv, Asked
<1>5. /\ HasNone(queue[c]) => HasNone(queue'[c]) /\ Head(queue[c]) # Close
      /\ HasOne(queue[c]) /\ Head(queue[c]) # Close => HasOne(queue'[c])
      /\ AtMostOne(queue'[c])
      /\ Head(queue[c]) = Close => HasNone(queue'[c]) /\ HasOne(queue[c])
  BY <1>1, <1>2, <1>3, <1>4, HasTaken DEF CloseRight
<1>6. HasNone(wire[c])
  <2>1. stage[c] \notin Closing
    BY <1>1 DEF Closing
  <2>2. QED
    BY <1>4, <2>1 DEF CloseRight, HasNone
<1>7. CASE WriteText(c)
  <2>1. /\ Head(queue[c]) # Close
        /\ \/ wire' = [wire EXCEPT ![c] = Append(wire[c], Head(queue[c]))] /\ stage' = stage
           \/ wire' = wire /\ stage' = [stage EXCEPT ![c] = "leaving"]
    BY <1>7 DEF WriteText, Goes
  <2>2. HasNone(wire'[c]) /\ (stage'[c] = "serving" \/ stage'[c] = "leaving")
    <3>1. CASE wire' = wire /\ stage' = [stage EXCEPT ![c] = "leaving"]
      BY <1>2, <1>6, <3>1
    <3>2. CASE wire' = [wire EXCEPT ![c] = Append(wire[c], Head(queue[c]))] /\ stage' = stage
      <4>1. wire'[c] = Append(wire[c], Head(queue[c]))
        BY <1>2, <3>2
      <4>2. HasNone(wire'[c])
        BY <1>2, <1>3, <1>6, <2>1, <4>1, HasAppended
      <4>3. QED
        BY <1>1, <3>2, <4>2
    <3>3. QED
      BY <2>1, <3>1, <3>2
  <2>3. ~HasOne(wire'[c])
    BY <2>2, NoneOrOne
  <2>4. CloseRight(c)'
    <3>1. ~Asked(c)' => HasNone(wire'[c]) /\ HasNone(queue'[c])
      BY <1>4, <1>5, <2>2 DEF CloseRight
    <3>2. Asked(c)' => HasOne(queue'[c])
      BY <1>1, <1>4, <1>5, <2>1 DEF CloseRight
    <3>3. \A i \in 1 .. Len(wire'[c]) : wire'[c][i] # Close
      BY <2>2 DEF HasNone
    <3>4. QED
      BY <1>5, <2>3, <3>1, <3>2, <3>3 DEF CloseRight
  <2>5. \A d \in Conns \ {c} : CloseRight(d)'
    <3>1. ASSUME NEW d \in Conns \ {c} PROVE CloseRight(d)'
      <4>1. /\ CloseRight(d) /\ Asked(d)' = Asked(d)
            /\ queue'[d] = queue[d] /\ wire'[d] = wire[d] /\ stage'[d] = stage[d]
        BY <1>1, <1>2, <2>1 DEF CloseInv, Asked
      <4>2. QED
        BY <4>1, CloseKept
    <3>2. QED
      BY <3>1
  <2>6. QED
    BY <1>1, <2>4, <2>5 DEF CloseInv
<1>8. CASE WriteClose(c)
  <2>1. /\ Head(queue[c]) = Close
        /\ wire' = [wire EXCEPT ![c] = Append(wire[c], Close)] \/ wire' = wire
        /\ stage' = [stage EXCEPT ![c] = "closing"]
    BY <1>8 DEF WriteClose, Goes, AfterClose
  <2>2. stage'[c] \in Closing /\ stage'[c] = "closing"
    BY <1>2, <2>1 DEF Closing
  <2>3. Asked(c)
    BY <1>4, <1>5, <2>1, NoneOrOne DEF CloseRight
  <2>4. \A i \in 1 .. Len(wire'[c]) : wire'[c][i] = Close => i = Len(wire'[c])
    <3>1. CASE wire' = wire
      BY <1>6, <3>1 DEF HasNone
    <3>2. CASE wire' = [wire EXCEPT ![c] = Append(wire[c], Close)]
      <4>1. wire'[c] = Append(wire[c], Close) /\ wire[c] \in Seq(Frames)
        BY <1>2, <3>2
      <4>2. /\ Len(wire'[c]) = Len(wire[c]) + 1 /\ Len(wire[c]) \in Nat
            /\ \A i \in 1 .. Len(wire[c]) : wire'[c][i] = wire[c][i]
        BY <4>1
      <4>3. QED
        BY <1>6, <4>2 DEF HasNone
    <3>3. QED
      BY <2>1, <3>1, <3>2
  <2>5. CloseRight(c)'
    BY <1>4, <1>5, <2>1, <2>2, <2>3, <2>4 DEF CloseRight
  <2>6. \A d \in Conns \ {c} : CloseRight(d)'
    <3>1. ASSUME NEW d \in Conns \ {c} PROVE CloseRight(d)'
      <4>1. /\ CloseRight(d) /\ Asked(d)' = Asked(d)
            /\ queue'[d] = queue[d] /\ wire'[d] = wire[d] /\ stage'[d] = stage[d]
        BY <1>1, <1>2, <2>1 DEF CloseInv, Asked
      <4>2. QED
        BY <4>1, CloseKept
    <3>2. QED
      BY <3>1
  <2>7. QED
    BY <1>1, <2>5, <2>6 DEF CloseInv
<1>9. QED
  BY <1>7, <1>8

\* A task that leaves drops what its queue still held.
LEMMA CloseLeave == ASSUME Inv, CloseInv, NEW c \in Conns, Leave(c) PROVE CloseInv'
<1>1. /\ stage[c] = "leaving" /\ stage' = [stage EXCEPT ![c] = "left"]
      /\ queue' = [queue EXCEPT ![c] = <<>>] /\ wire' = wire
      /\ killed' = killed /\ killing' = killing
  BY DEF Leave, Goes
<1>2. ASSUME NEW d \in Conns PROVE CloseRight(d)'
  <2>1. CloseRight(d) /\ Asked(d)' = Asked(d) /\ wire'[d] = wire[d]
    BY <1>1 DEF CloseInv, Asked
  <2>2. CASE d = c
    <3>1. queue'[d] = <<>> /\ stage'[d] = "left"
      BY <1>1, <2>2 DEF Inv, TypeOK
    <3>2. HasNone(queue'[d]) /\ AtMostOne(queue'[d])
      BY <3>1 DEF HasNone, AtMostOne
    <3>3. QED
      BY <2>1, <3>1, <3>2 DEF CloseRight, Closing
  <2>3. CASE d # c
    <3>1. queue'[d] = queue[d] /\ stage'[d] = stage[d]
      BY <1>1, <2>3 DEF Inv, TypeOK
    <3>2. QED
      BY <2>1, <3>1, CloseKept
  <2>4. QED
    BY <2>2, <2>3
<1>3. QED
  BY <1>1, <1>2 DEF CloseInv

LEMMA NextClose == Inv /\ CloseInv /\ [Next]_vars => CloseInv'
<1> SUFFICES ASSUME Inv, CloseInv, [Next]_vars PROVE CloseInv'
  OBVIOUS
<1>1. ASSUME NEW c \in Conns,
             \/ Upgrade(c) \/ Join(c) \/ Hear(c) \/ Published(c)
             \/ HearEnd(c) \/ Discard(c) \/ FinishClose(c)
      PROVE  CloseInv'
  <2>1. queue' = queue /\ wire' = wire /\ killed' = killed /\ killing' = killing
    BY <1>1 DEF Upgrade, Join, Hear, Published, HearEnd, Discard, FinishClose, hubVars
  <2>2. PICK s \in Stages \cup {stage[c]} :
          /\ stage' = [stage EXCEPT ![c] = s]
          /\ \/ s = stage[c]
             \/ stage[c] \in {"serving", "publishing"}
             \/ stage[c] = "closing" /\ s = "leaving"
             \/ stage[c] \in {"new", "upgraded"}
    BY <1>1 DEF Upgrade, Join, Hear, Published, HearEnd, Discard, FinishClose, Goes,
                Stages, Inv, TypeOK
  <2>3. stage'[c] = s
    BY <2>2 DEF Inv, TypeOK
  <2>4. CASE s = stage[c]
    <3>1. stage' = stage
      BY <2>2, <2>4 DEF Inv, TypeOK
    <3>2. QED
      BY <2>1, <3>1, CloseQuiet
  <2>5. CASE stage[c] \in {"serving", "publishing"}
    BY <2>1, <2>2, <2>3, <2>5, CloseQuiet
  <2>6. CASE stage[c] = "closing" /\ s = "leaving"
    <3>1. stage[c] \in Closing /\ stage'[c] \in Closing
      BY <2>3, <2>6 DEF Closing
    <3>2. QED
      BY <2>1, <2>2, <2>3, <3>1, CloseQuiet
  <2>7. CASE stage[c] \in {"new", "upgraded"}
    BY <2>1, <2>2, <2>3, <2>7, CloseQuiet
  <2>8. QED
    BY <2>2, <2>4, <2>5, <2>6, <2>7
<1>2. ASSUME NEW c \in Conns, Task(c) PROVE CloseInv'
  BY <1>1, <1>2, CloseWritten, CloseLeave DEF Task
<1>3. ASSUME \/ \E x \in Texts : Tell(x)
             \/ \E a \in Admins : AdminPublish(a)
             \/ \E c \in Conns : Talk(c) \/ Read(c) \/ HangUp(c) \/ Vanish(c)
             \/ UNCHANGED vars
      PROVE  CloseInv'
  <2>1. /\ queue' = queue /\ wire' = wire /\ killed' = killed /\ killing' = killing
        /\ stage' = stage
    BY <1>3 DEF Tell, AdminPublish, Talk, Read, HangUp, Vanish, vars, hubVars
  <2>2. QED
    BY <2>1, CloseQuiet
<1>4. ASSUME NEW x \in Texts, Fanout(x) PROVE CloseInv'
  BY <1>3, <1>4, CloseQueued DEF Fanout
<1>5. QED
  BY <1>1, <1>2, <1>3, <1>4, CloseQueued, CloseKill DEF Next

\* Two sequences, one after the other.
LEMMA Joint ==
  ASSUME NEW T, NEW w \in Seq(T), NEW q \in Seq(T)
  PROVE  /\ Len(w) \in Nat /\ Len(q) \in Nat /\ Len(w \o q) = Len(w) + Len(q)
         /\ \A i \in 1 .. Len(w) : (w \o q)[i] = w[i]
         /\ \A i \in 1 .. Len(q) : (w \o q)[Len(w) + i] = q[i]
<1>1. QED
  OBVIOUS

\* What the frames written and queued hold together, read off the two apart.
LEMMA CloseImplies == Inv /\ CloseInv => CloseComesLast
<1> SUFFICES ASSUME Inv, CloseInv, NEW c \in Conns
             PROVE  LET all == wire[c] \o queue[c]
                        closes == {i \in 1 .. Len(all) : all[i] = Close}
                    IN  /\ Cardinality(closes) <= IF c \in killed \ killing THEN 1 ELSE 0
                        /\ /\ c \in killed \ killing
                           /\ stage[c] \in {"serving", "publishing"}
                           => closes # {}
                        /\ \A i \in 1 .. Len(wire[c]) : wire[c][i] = Close =>
                             i = Len(wire[c]) /\ stage[c] \in {"closing", "leaving", "left"}
  BY DEF CloseComesLast
<1> DEFINE w == wire[c]
           q == queue[c]
           all == w \o q
           closes == {i \in 1 .. Len(all) : all[i] = Close}
<1>1. CloseRight(c)
  BY DEF CloseInv
<1>2. w \in Seq(Frames) /\ q \in Seq(Frames)
  BY DEF Inv, TypeOK
<1> HIDE DEF w, q
<1>3. /\ Len(w) \in Nat /\ Len(q) \in Nat /\ Len(all) = Len(w) + Len(q)
      /\ \A i \in 1 .. Len(w) : all[i] = w[i]
      /\ \A i \in 1 .. Len(q) : all[Len(w) + i] = q[i]
  BY <1>2, Joint
<1>4. /\ ~Asked(c) => HasNone(w) /\ HasNone(q)
      /\ Asked(c) /\ stage[c] \in {"serving", "publishing"} => HasOne(q)
      /\ AtMostOne(q) /\ (HasOne(w) => HasNone(q))
      /\ \A i \in 1 .. Len(w) : w[i] = Close => i = Len(w) /\ stage[c] \in Closing
  BY <1>1 DEF CloseRight, w, q
<1> HIDE DEF all
<1>5. ASSUME NEW i \in closes
      PROVE  \/ i \in 1 .. Len(w) /\ w[i] = Close
             \/ i - Len(w) \in 1 .. Len(q) /\ q[i - Len(w)] = Close
  <2>1. i \in 1 .. Len(w) + Len(q) /\ all[i] = Close
    BY <1>3
  <2>2. CASE i \in 1 .. Len(w)
    BY <1>3, <2>1, <2>2
  <2>3. CASE i \notin 1 .. Len(w)
    <3>1. i - Len(w) \in 1 .. Len(q) /\ Len(w) + (i - Len(w)) = i
      BY <1>3, <2>1, <2>3
    <3>2. QED
      BY <1>3, <2>1, <3>1
  <2>4. QED
    BY <2>2, <2>3
<1>6. \A i, j \in closes : i = j
  <2>1. ASSUME NEW i \in closes, NEW j \in closes PROVE i = j
    <3>1. CASE i \in 1 .. Len(w) /\ w[i] = Close
      <4>1. HasNone(q)
        BY <1>4, <3>1 DEF HasOne
      <4>2. j \in 1 .. Len(w) /\ w[j] = Close
        BY <1>5, <4>1 DEF HasNone
      <4>3. QED
        BY <1>4, <3>1, <4>2
    <3>2. CASE i - Len(w) \in 1 .. Len(q) /\ q[i - Len(w)] = Close
      <4>1. ~HasOne(w)
        BY <1>4, <3>2 DEF HasNone
      <4>2. j - Len(w) \in 1 .. Len(q) /\ q[j - Len(w)] = Close
        BY <1>5, <4>1 DEF HasOne
      <4>3. i - Len(w) = j - Len(w)
        BY <1>4, <3>2, <4>2 DEF AtMostOne
      <4>4. i \in Int /\ j \in Int
        OBVIOUS
      <4>5. QED
        BY <1>3, <4>3, <4>4
    <3>3. QED
      BY <1>5, <3>1, <3>2
  <2>2. QED
    BY <2>1
<1>7. Cardinality(closes) <= 1
  <2>1. CASE closes = {}
    <3>1. Cardinality(closes) = 0
      BY <2>1, FS_EmptySet, Zenon
    <3>2. QED
      BY <3>1
  <2>2. CASE closes # {}
    <3>1. PICK i : i \in closes
      BY <2>2
    <3>2. closes = {i}
      BY <1>6, <3>1
    <3>3. QED
      <4>1. Cardinality(closes) = 1
        BY <3>2, FS_Singleton, Zenon
      <4>2. QED
        BY <4>1
  <2>3. QED
    BY <2>1, <2>2
<1>8. ~Asked(c) => Cardinality(closes) = 0
  <2>1. ASSUME ~Asked(c) PROVE closes = {}
    BY <1>4, <1>5, <2>1 DEF HasNone
  <2>2. QED
    BY <2>1, FS_EmptySet
<1>9. Asked(c) /\ stage[c] \in {"serving", "publishing"} => closes # {}
  <2>1. ASSUME HasOne(q) PROVE closes # {}
    <3>1. PICK i \in 1 .. Len(q) : q[i] = Close
      BY <2>1 DEF HasOne
    <3>2. Len(w) + i \in 1 .. Len(all) /\ all[Len(w) + i] = Close
      BY <1>3, <3>1
    <3>3. QED
      BY <3>2
  <2>2. QED
    BY <1>4, <2>1
<1>10. /\ Cardinality(closes) <= IF c \in killed \ killing THEN 1 ELSE 0
       /\ c \in killed \ killing /\ stage[c] \in {"serving", "publishing"} => closes # {}
  <2>1. CASE Asked(c)
    BY <1>7, <1>9, <2>1 DEF Asked
  <2>2. CASE ~Asked(c)
    BY <1>8, <2>2 DEF Asked
  <2>3. QED
    BY <2>1, <2>2
<1>11. \A i \in 1 .. Len(wire[c]) : wire[c][i] = Close =>
         i = Len(wire[c]) /\ stage[c] \in {"closing", "leaving", "left"}
  BY <1>4 DEF w, Closing
<1>12. QED
  BY <1>10, <1>11 DEF all, w, q

\* Trap T6: only a kill has a connection closed, once, and nothing is written after the
\* Close, whichever publishes, kills, clients and departures overlap (kill in hub.rs
\* and the loop of conn.rs).
THEOREM WsHubCloseComesLast == Spec => []CloseComesLast
<1>1. Spec => [](Inv /\ CloseInv)
  <2>1. Init => Inv /\ CloseInv
    BY InitInv, CloseInit
  <2>2. Inv /\ CloseInv /\ [Next]_vars => (Inv /\ CloseInv)'
    BY NextInv, NextClose
  <2>3. QED
    BY <2>1, <2>2, PTL DEF Spec
<1>2. QED
  BY <1>1, CloseImplies, PTL

-----------------------------------------------------------------------------
(* Frames and events.  While a connection's task is writing, what it wrote  *)
(* and what is queued in front of the first Close are the texts accepted,   *)
(* in order; a client's text is published from its socket's end once, and   *)
(* a publish reaches a member once, so no queue accepts a text twice.       *)

Early == {"new", "upgraded", "serving", "publishing"}

WireAccepted ==
  \A c \in Conns : \A i \in 1 .. Len(wire[c]) : wire[c][i] # Close =>
    i <= Len(accepted[c]) /\ wire[c][i] = accepted[c][i]

\* What is queued in front of a Close follows what was written.
FrontAt(c, i) == \A k \in 1 .. i : queue[c][k] # Close
FrontQueued ==
  \A c \in Conns : stage[c] \in Early =>
    /\ \A i \in 1 .. Len(queue[c]) : FrontAt(c, i) =>
         /\ Len(wire[c]) + i <= Len(accepted[c])
         /\ accepted[c][Len(wire[c]) + i] = queue[c][i]
    /\ FrontAt(c, Len(queue[c])) => Len(accepted[c]) = Len(wire[c]) + Len(queue[c])

\* The text is still to be published: not said, or said and not heard.
Unheard(x) ==
  IF x \in Admins THEN x \notin said
  ELSE x \notin said \/ \E i \in 1 .. Len(inbound[x]) : inbound[x][i] = x
OwnTexts ==
  \A c \in Conns :
    /\ \A i \in 1 .. Len(inbound[c]) :
         inbound[c][i] \in {c, Close} /\ (inbound[c][i] = c => c \in said)
    /\ \A i, k \in 1 .. Len(inbound[c]) : inbound[c][i] = c /\ inbound[c][k] = c => i = k
FanoutOnce ==
  \A x \in Texts :
    /\ Unheard(x) => fanout[x] = {} /\ \A c \in Conns : x \notin Went(c)
    /\ \A c \in fanout[x] : x \notin Went(c) /\ c # x
EventsAgree ==
  \A c \in Conns :
    /\ \A i, k \in 1 .. Len(accepted[c]) : accepted[c][i] = accepted[c][k] => i = k
    /\ c \notin Went(c)
    /\ Went(c) = told[c] \cup Owing(c) /\ told[c] \cap Owing(c) = {}

FramesInv == WireAccepted /\ FrontQueued /\ OwnTexts /\ FanoutOnce /\ EventsAgree

LEMMA AppendFacts ==
  ASSUME NEW T, NEW s \in Seq(T), NEW v \in T
  PROVE  /\ Len(s) \in Nat /\ Len(Append(s, v)) = Len(s) + 1
         /\ Append(s, v)[Len(s) + 1] = v
         /\ \A i \in 1 .. Len(s) : Append(s, v)[i] = s[i]
<1>1. QED
  OBVIOUS

LEMMA TailFacts ==
  ASSUME NEW T, NEW s \in Seq(T), s # <<>>
  PROVE  /\ Len(s) \in Nat /\ Len(s) >= 1 /\ Len(Tail(s)) = Len(s) - 1
         /\ Head(s) = s[1]
         /\ \A i \in 1 .. Len(s) - 1 : Tail(s)[i] = s[i + 1]
<1>1. QED
  OBVIOUS

LEMMA CloseIsNoText == Close \notin Texts /\ Close \notin Conns /\ Idle \notin Conns
<1>1. QED
  BY WsHubAssumption DEF Close, Texts

LEMMA FramesInit == Init => FramesInv
<1> SUFFICES ASSUME Init PROVE FramesInv
  OBVIOUS
<1>1. \A c \in Conns : /\ wire[c] = <<>> /\ queue[c] = <<>> /\ inbound[c] = <<>>
                       /\ accepted[c] = <<>> /\ told[c] = {}
  BY DEF Init
<1>2. \A c \in Conns : Went(c) = {} /\ Owing(c) = {}
  BY <1>1, CloseIsNoText DEF Init, Went, Owing
<1>3. WireAccepted /\ FrontQueued /\ OwnTexts
  <2>1. \A c \in Conns : /\ Len(wire[c]) = 0 /\ Len(queue[c]) = 0 /\ Len(inbound[c]) = 0
                         /\ Len(accepted[c]) = 0
    BY <1>1
  <2>2. WireAccepted /\ OwnTexts
    BY <2>1 DEF WireAccepted, OwnTexts
  <2>3. FrontQueued
    <3> SUFFICES ASSUME NEW c \in Conns
                 PROVE  /\ \A i \in 1 .. Len(queue[c]) : FALSE
                        /\ Len(accepted[c]) = Len(wire[c]) + Len(queue[c])
      BY DEF FrontQueued
    <3>1. /\ Len(wire[c]) = 0 /\ Len(queue[c]) = 0 /\ Len(accepted[c]) = 0
      BY <2>1
    <3>2. QED
      BY <3>1
  <2>4. QED
    BY <2>2, <2>3
<1>4. FanoutOnce
  BY <1>2 DEF FanoutOnce, Init
<1>5. EventsAgree
  BY <1>1, <1>2 DEF EventsAgree
<1>6. QED
  BY <1>3, <1>4, <1>5 DEF FramesInv

-----------------------------------------------------------------------------
(* What each part reads.                                                   *)

LEMMA WireKept ==
  ASSUME FramesInv, UNCHANGED <<wire, accepted>>
  PROVE  WireAccepted'
<1>1. QED
  BY DEF FramesInv, WireAccepted

\* A queue may be changed where its task has stopped writing.
LEMMA FrontKept ==
  ASSUME FramesInv, UNCHANGED <<wire, accepted>>,
         \A c \in Conns : stage'[c] \in Early => stage[c] \in Early /\ queue'[c] = queue[c]
  PROVE  FrontQueued'
<1>1. \A c \in Conns : stage'[c] \in Early => \A i : FrontAt(c, i)' <=> FrontAt(c, i)
  BY DEF FrontAt
<1>2. QED
  BY <1>1 DEF FramesInv, FrontQueued

LEMMA TextsKept ==
  ASSUME FramesInv, UNCHANGED <<inbound, said>>
  PROVE  OwnTexts'
<1>1. QED
  BY DEF FramesInv, OwnTexts

LEMMA FanoutKept ==
  ASSUME Inv, FramesInv, UNCHANGED <<fanout, accepted>>,
         \A x \in Texts : Unheard(x)' => Unheard(x)
  PROVE  FanoutOnce'
<1>1. \A c \in Conns : Went(c)' = Went(c)
  BY DEF Went
<1>2. \A x \in Texts : fanout[x] \subseteq Conns
  BY DEF Inv, TypeOK
<1>3. QED
  BY <1>1, <1>2 DEF FramesInv, FanoutOnce

LEMMA EventsKept ==
  ASSUME FramesInv, UNCHANGED <<accepted, told, telling>>
  PROVE  EventsAgree'
<1>1. \A c \in Conns : Went(c)' = Went(c) /\ Owing(c)' = Owing(c)
  BY DEF Went, Owing
<1>2. QED
  BY <1>1 DEF FramesInv, EventsAgree

LEMMA UnheardKept == UNCHANGED <<inbound, said>> => \A x : Unheard(x)' <=> Unheard(x)
<1>1. QED
  BY DEF Unheard

-----------------------------------------------------------------------------
(* The task's steps.                                                       *)

\* A step of a task that neither reads its socket nor writes to it.
LEMMA QuietFrames ==
  ASSUME Inv, FramesInv, UNCHANGED <<wire, inbound, said, pubVars>>,
         \A c \in Conns : stage'[c] \in Early => stage[c] \in Early /\ queue'[c] = queue[c]
  PROVE  FramesInv'
<1>1. UNCHANGED <<fanout, telling, accepted, told>>
  BY DEF pubVars
<1>2. QED
  BY <1>1, WireKept, FrontKept, TextsKept, FanoutKept, EventsKept, UnheardKept DEF FramesInv

LEMMA StageFrames ==
  ASSUME Inv, FramesInv, NEW c \in Conns,
         Upgrade(c) \/ Join(c) \/ Published(c) \/ HearEnd(c) \/ FinishClose(c) \/ Leave(c)
  PROVE  FramesInv'
<1>1. PICK s \in Stages :
        /\ stage' = [stage EXCEPT ![c] = s]
        /\ s \in Early => stage[c] \in Early /\ queue' = queue
        /\ \A d \in Conns \ {c} : queue'[d] = queue[d]
        /\ UNCHANGED <<wire, inbound, said, pubVars>>
  BY DEF Upgrade, Join, Published, HearEnd, FinishClose, Leave, Goes, clientVars, Early, Stages,
         Inv, TypeOK
<1>2. \A d \in Conns : stage'[d] \in Early => stage[d] \in Early /\ queue'[d] = queue[d]
  BY <1>1 DEF Inv, TypeOK
<1>3. QED
  BY <1>1, <1>2, QuietFrames

\* Writing the head of the queue: it was accepted right after what was written before.
LEMMA WriteTextFrames ==
  ASSUME Inv, FramesInv, NEW c \in Conns, WriteText(c)
  PROVE  FramesInv'
<1>1. /\ stage[c] = "serving" /\ queue[c] # <<>> /\ Head(queue[c]) # Close
      /\ queue' = [queue EXCEPT ![c] = Tail(queue[c])]
      /\ UNCHANGED <<inbound, said, fanout, telling, accepted, told>>
  BY DEF WriteText, clientVars, pubVars
<1>2. /\ queue[c] \in Seq(Frames) /\ wire[c] \in Seq(Frames) /\ Head(queue[c]) \in Frames
      /\ queue'[c] = Tail(queue[c])
      /\ \A d \in Conns \ {c} : queue'[d] = queue[d]
  BY <1>1 DEF Inv, TypeOK
<1>3. OwnTexts' /\ FanoutOnce' /\ EventsAgree'
  BY <1>1, TextsKept, FanoutKept, EventsKept, UnheardKept
<1>4. CASE wire' = [wire EXCEPT ![c] = Append(wire[c], Head(queue[c]))] /\ UNCHANGED stage
  <2> DEFINE q == queue[c]
             w == Len(wire[c])
  <2>1. /\ Len(q) \in Nat /\ Len(q) >= 1 /\ Len(queue'[c]) = Len(q) - 1
        /\ Head(q) = q[1]
        /\ \A i \in 1 .. Len(q) - 1 : queue'[c][i] = q[i + 1]
    BY <1>1, <1>2, TailFacts
  <2>2. /\ wire'[c] = Append(wire[c], Head(q))
        /\ \A d \in Conns \ {c} : wire'[d] = wire[d]
    BY <1>4 DEF Inv, TypeOK
  <2>3. /\ w \in Nat /\ Len(wire'[c]) = w + 1 /\ wire'[c][w + 1] = q[1]
        /\ \A i \in 1 .. w : wire'[c][i] = wire[c][i]
    BY <1>2, <2>1, <2>2, AppendFacts
  <2>4. /\ \A i \in 1 .. Len(q) : FrontAt(c, i) =>
             w + i <= Len(accepted[c]) /\ accepted[c][w + i] = q[i]
        /\ FrontAt(c, Len(q)) => Len(accepted[c]) = w + Len(q)
        /\ \A i \in 1 .. w : wire[c][i] # Close =>
             i <= Len(accepted[c]) /\ wire[c][i] = accepted[c][i]
    BY <1>1 DEF FramesInv, FrontQueued, WireAccepted, Early
  <2>5. w + 1 <= Len(accepted[c]) /\ accepted[c][w + 1] = q[1]
    <3>1. FrontAt(c, 1)
      BY <1>1, <2>1 DEF FrontAt
    <3>2. 1 \in 1 .. Len(q)
      BY <2>1
    <3>3. QED
      BY <2>4, <3>1, <3>2
  <2>6. WireAccepted'
    <3> SUFFICES ASSUME NEW d \in Conns, NEW i \in 1 .. Len(wire'[d]), wire'[d][i] # Close
                 PROVE  i <= Len(accepted[d]) /\ wire'[d][i] = accepted[d][i]
      BY <1>1 DEF WireAccepted
    <3>1. CASE d # c
      BY <2>2, <3>1 DEF FramesInv, WireAccepted
    <3>2. CASE d = c
      <4>1. i \in 1 .. w \/ i = w + 1
        BY <2>3, <3>2
      <4>2. QED
        BY <2>3, <2>4, <2>5, <3>2, <4>1
    <3>3. QED
      BY <3>1, <3>2
  <2>7. \A i \in 0 .. Len(q) - 1 : FrontAt(c, i)' => FrontAt(c, i + 1)
    <3> SUFFICES ASSUME NEW i \in 0 .. Len(q) - 1, FrontAt(c, i)', NEW k \in 1 .. i + 1
                 PROVE  q[k] # Close
      BY DEF FrontAt
    <3>1. CASE k = 1
      BY <1>1, <2>1, <3>1
    <3>2. CASE k # 1
      <4>1. k - 1 \in 1 .. i /\ k - 1 \in 1 .. Len(q) - 1
        BY <2>1, <3>2
      <4>2. queue'[c][k - 1] # Close
        BY <4>1 DEF FrontAt
      <4>3. QED
        BY <2>1, <4>1, <4>2
    <3>3. QED
      BY <3>1, <3>2
  <2>8. ASSUME NEW i \in 1 .. Len(queue'[c]), FrontAt(c, i)'
        PROVE  /\ Len(wire'[c]) + i <= Len(accepted[c])
               /\ accepted[c][Len(wire'[c]) + i] = queue'[c][i]
    <3>1. i \in 0 .. Len(q) - 1 /\ i + 1 \in 1 .. Len(q) /\ i \in Nat
      BY <2>1
    <3>2. FrontAt(c, i + 1)
      BY <2>7, <2>8, <3>1
    <3>3. w + (i + 1) <= Len(accepted[c]) /\ accepted[c][w + (i + 1)] = q[i + 1]
      BY <2>4, <3>1, <3>2
    <3>4. queue'[c][i] = q[i + 1]
      BY <2>1, <3>1
    <3>5. w + (i + 1) = Len(wire'[c]) + i
      <4> HIDE DEF w
      <4>1. QED
        BY <2>3, <3>1
    <3>6. QED
      BY <3>3, <3>4, <3>5
  <2>9. ASSUME FrontAt(c, Len(queue[c]))'
        PROVE  Len(accepted[c]) = Len(wire'[c]) + Len(queue'[c])
    <3>1. FrontAt(c, Len(q))
      <4>1. \A k \in 1 .. Len(q) - 1 : queue'[c][k] # Close
        BY <2>1, <2>9 DEF FrontAt
      <4>2. ASSUME NEW k \in 1 .. Len(q) PROVE q[k] # Close
        <5>1. CASE k = 1
          BY <1>1, <2>1, <5>1
        <5>2. CASE k # 1
          <6>1. k - 1 \in 1 .. Len(q) - 1 /\ (k - 1) + 1 = k
            BY <2>1, <5>2
          <6>2. QED
            BY <2>1, <4>1, <6>1
        <5>3. QED
          BY <5>1, <5>2
      <4>3. QED
        BY <4>2 DEF FrontAt
    <3>2. Len(accepted[c]) = w + Len(q)
      BY <2>4, <3>1
    <3>3. QED
      <4>1. Len(queue'[c]) = Len(q) - 1 /\ Len(q) \in Nat /\ Len(wire'[c]) = w + 1 /\ w \in Nat
        BY <2>1, <2>3
      <4> HIDE DEF q, w
      <4>2. QED
        BY <3>2, <4>1
  <2>10. \A d \in Conns \ {c} : \A i : FrontAt(d, i)' <=> FrontAt(d, i)
    BY <1>2 DEF FrontAt
  <2>11. FrontQueued'
    <3> SUFFICES ASSUME NEW d \in Conns, stage'[d] \in Early
                 PROVE  /\ \A i \in 1 .. Len(queue'[d]) : FrontAt(d, i)' =>
                             /\ Len(wire'[d]) + i <= Len(accepted'[d])
                             /\ accepted'[d][Len(wire'[d]) + i] = queue'[d][i]
                        /\ FrontAt(d, Len(queue[d]))' =>
                             Len(accepted'[d]) = Len(wire'[d]) + Len(queue'[d])
      BY DEF FrontQueued
    <3>1. CASE d = c
      BY <1>1, <2>8, <2>9, <3>1
    <3>2. CASE d # c
      <4>1. /\ stage[d] \in Early /\ queue'[d] = queue[d] /\ wire'[d] = wire[d]
            /\ \A i : FrontAt(d, i)' <=> FrontAt(d, i)
        BY <1>2, <1>4, <2>2, <2>10, <3>2
      <4>2. FrontAt(d, Len(queue[d]))' <=> FrontAt(d, Len(queue[d]))
        BY <4>1 DEF FrontAt
      <4>3. QED
        BY <1>1, <4>1, <4>2 DEF FramesInv, FrontQueued
    <3>3. QED
      BY <3>1, <3>2
  <2>12. QED
    BY <1>3, <2>6, <2>11 DEF FramesInv
<1>5. CASE UNCHANGED wire /\ Goes(c, "leaving")
  <2>1. \A d \in Conns : stage'[d] \in Early => stage[d] \in Early /\ queue'[d] = queue[d]
    BY <1>2, <1>5 DEF Goes, Early, Inv, TypeOK
  <2>2. WireAccepted' /\ FrontQueued'
    BY <1>1, <1>5, <2>1, WireKept, FrontKept
  <2>3. QED
    BY <1>3, <2>2 DEF FramesInv
<1>6. QED
  BY <1>4, <1>5 DEF WriteText

\* After the Close the task writes no more.
LEMMA WriteCloseFrames ==
  ASSUME Inv, FramesInv, NEW c \in Conns, WriteClose(c)
  PROVE  FramesInv'
<1>1. /\ stage[c] = "serving" /\ stage' = [stage EXCEPT ![c] = "closing"]
      /\ queue' = [queue EXCEPT ![c] = Tail(queue[c])]
      /\ wire' = wire \/ wire' = [wire EXCEPT ![c] = Append(wire[c], Close)]
      /\ UNCHANGED <<inbound, said, fanout, telling, accepted, told>>
  BY DEF WriteClose, Goes, AfterClose, clientVars, pubVars
<1>2. OwnTexts' /\ FanoutOnce' /\ EventsAgree'
  BY <1>1, TextsKept, FanoutKept, EventsKept, UnheardKept
<1>3. WireAccepted'
  <2>1. CASE wire' = wire
    BY <1>1, <2>1, WireKept
  <2>2. CASE wire' = [wire EXCEPT ![c] = Append(wire[c], Close)]
    <3>1. /\ wire[c] \in Seq(Frames) /\ Close \in Frames
          /\ wire'[c] = Append(wire[c], Close) /\ \A d \in Conns \ {c} : wire'[d] = wire[d]
      BY <2>2 DEF Inv, TypeOK, Frames
    <3>2. /\ Len(wire[c]) \in Nat /\ Len(wire'[c]) = Len(wire[c]) + 1
          /\ wire'[c][Len(wire[c]) + 1] = Close
          /\ \A i \in 1 .. Len(wire[c]) : wire'[c][i] = wire[c][i]
      BY <3>1, AppendFacts
    <3>3. ASSUME NEW d \in Conns, NEW i \in 1 .. Len(wire'[d]), wire'[d][i] # Close
          PROVE  i <= Len(accepted[d]) /\ wire'[d][i] = accepted[d][i]
      <4>1. CASE d = c
        <5>1. i # Len(wire[c]) + 1
          BY <3>2, <3>3, <4>1
        <5>2. i \in 1 .. Len(wire[c]) /\ wire'[c][i] = wire[c][i]
          BY <3>2, <4>1, <5>1
        <5>3. QED
          BY <3>3, <4>1, <5>2 DEF FramesInv, WireAccepted
      <4>2. CASE d # c
        BY <3>1, <3>3, <4>2 DEF FramesInv, WireAccepted
      <4>3. QED
        BY <4>1, <4>2
    <3>4. QED
      BY <1>1, <3>3 DEF WireAccepted
  <2>3. QED
    BY <1>1, <2>1, <2>2
<1>4. FrontQueued'
  <2> SUFFICES ASSUME NEW d \in Conns, stage'[d] \in Early
               PROVE  /\ \A i \in 1 .. Len(queue'[d]) : FrontAt(d, i)' =>
                           /\ Len(wire'[d]) + i <= Len(accepted'[d])
                           /\ accepted'[d][Len(wire'[d]) + i] = queue'[d][i]
                      /\ FrontAt(d, Len(queue[d]))' =>
                           Len(accepted'[d]) = Len(wire'[d]) + Len(queue'[d])
    BY DEF FrontQueued
  <2>1. d # c /\ stage[d] \in Early /\ queue'[d] = queue[d] /\ wire'[d] = wire[d]
    BY <1>1 DEF Early, Inv, TypeOK
  <2>2. (\A i : FrontAt(d, i)' <=> FrontAt(d, i))
          /\ (FrontAt(d, Len(queue[d]))' <=> FrontAt(d, Len(queue[d])))
    BY <2>1 DEF FrontAt
  <2>3. QED
    BY <1>1, <2>1, <2>2 DEF FramesInv, FrontQueued
<1>5. QED
  BY <1>2, <1>3, <1>4 DEF FramesInv

-----------------------------------------------------------------------------
(* The client's end of the socket.                                         *)

\* A Close put in the client's stream is no text, and one taken out leaves the rest.
LEMMA InboundAppend ==
  ASSUME Inv, FramesInv, NEW c \in Conns, NEW v \in {c, Close},
         inbound' = [inbound EXCEPT ![c] = Append(inbound[c], v)],
         \/ v = Close /\ said' = said
         \/ v = c /\ c \notin said /\ said' = said \cup {c}
  PROVE  /\ OwnTexts'
         /\ \A x \in Texts : Unheard(x)' => Unheard(x)
<1>1. /\ inbound[c] \in Seq(Frames) /\ v \in Frames
      /\ inbound'[c] = Append(inbound[c], v)
      /\ \A d \in Conns \ {c} : inbound'[d] = inbound[d]
  BY DEF Inv, TypeOK, Frames, Texts
<1> DEFINE n == Len(inbound[c])
<1>2. /\ n \in Nat /\ Len(inbound'[c]) = n + 1 /\ inbound'[c][n + 1] = v
      /\ \A i \in 1 .. n : inbound'[c][i] = inbound[c][i]
  BY <1>1, AppendFacts
<1>3. v = c => \A i \in 1 .. n : inbound[c][i] # c
  BY CloseIsNoText DEF FramesInv, OwnTexts
<1>4. /\ \A i \in 1 .. n : inbound[c][i] \in {c, Close} /\ (inbound[c][i] = c => c \in said)
      /\ \A i, k \in 1 .. n : inbound[c][i] = c /\ inbound[c][k] = c => i = k
  BY DEF FramesInv, OwnTexts
<1> HIDE DEF n
<1>5. \A i \in 1 .. n + 1 : i \in 1 .. n \/ i = n + 1
  BY <1>2
<1>6. /\ \A i \in 1 .. n + 1 : inbound'[c][i] \in {c, Close} /\ (inbound'[c][i] = c => c \in said')
      /\ \A i, k \in 1 .. n + 1 : inbound'[c][i] = c /\ inbound'[c][k] = c => i = k
  <2>1. v = c => c \in said'
    BY CloseIsNoText
  <2>2. \A i \in 1 .. n + 1 : inbound'[c][i] \in {c, Close} /\ (inbound'[c][i] = c => c \in said')
    BY <1>2, <1>4, <1>5, <2>1
  <2>3. \A i, k \in 1 .. n + 1 : inbound'[c][i] = c /\ inbound'[c][k] = c => i = k
    BY <1>2, <1>3, <1>4, <1>5
  <2>4. QED
    BY <2>2, <2>3
<1>7. OwnTexts'
  <2>1. said \subseteq said'
    OBVIOUS
  <2>2. QED
    BY <1>1, <1>2, <1>6, <2>1 DEF FramesInv, OwnTexts
<1>8. ASSUME NEW x \in Texts, Unheard(x)' PROVE Unheard(x)
  <2>1. CASE x \in Admins
    <3>1. x # c
      BY <2>1, WsHubAssumption
    <3>2. QED
      BY <1>8, <2>1, <3>1 DEF Unheard
  <2>2. CASE x \notin Admins /\ x # c
    <3>1. x \in Conns
      BY <2>2 DEF Texts
    <3>2. QED
      BY <1>1, <1>8, <2>2, <3>1 DEF Unheard
  <2>3. CASE x \notin Admins /\ x = c /\ v = c
    BY <2>3, CloseIsNoText DEF Unheard
  <2>4. CASE x \notin Admins /\ x = c /\ v = Close
    <3>1. x \notin said \/ \E i \in 1 .. n + 1 : inbound'[c][i] = c
      BY <1>2, <1>8, <2>4, CloseIsNoText DEF Unheard
    <3>2. x \notin said \/ \E i \in 1 .. n : inbound[c][i] = c
      BY <1>2, <1>5, <2>4, <3>1, CloseIsNoText
    <3>3. QED
      BY <2>4, <3>2 DEF Unheard, n
  <2>5. QED
    BY <2>1, <2>2, <2>3, <2>4
<1>9. QED
  BY <1>7, <1>8

LEMMA InboundTail ==
  ASSUME Inv, FramesInv, NEW c \in Conns, inbound[c] # <<>>,
         inbound' = [inbound EXCEPT ![c] = Tail(inbound[c])], said' = said
  PROVE  /\ OwnTexts'
         /\ \A x \in Texts : Unheard(x)' => Unheard(x)
         /\ Head(inbound[c]) # Close => Unheard(c) /\ ~Unheard(c)'
<1>1. /\ inbound[c] \in Seq(Frames)
      /\ inbound'[c] = Tail(inbound[c])
      /\ \A d \in Conns \ {c} : inbound'[d] = inbound[d]
  BY DEF Inv, TypeOK
<1> DEFINE n == Len(inbound[c])
<1>2. /\ n \in Nat /\ n >= 1 /\ Len(inbound'[c]) = n - 1 /\ Head(inbound[c]) = inbound[c][1]
      /\ \A i \in 1 .. n - 1 : inbound'[c][i] = inbound[c][i + 1]
  BY <1>1, TailFacts
<1>3. /\ \A i \in 1 .. n : inbound[c][i] \in {c, Close} /\ (inbound[c][i] = c => c \in said)
      /\ \A i, k \in 1 .. n : inbound[c][i] = c /\ inbound[c][k] = c => i = k
  BY DEF FramesInv, OwnTexts
<1> HIDE DEF n
<1>4. \A i \in 1 .. n - 1 : i + 1 \in 1 .. n
  BY <1>2
<1>5. /\ \A i \in 1 .. n - 1 : inbound'[c][i] \in {c, Close} /\ (inbound'[c][i] = c => c \in said)
      /\ \A i, k \in 1 .. n - 1 : inbound'[c][i] = c /\ inbound'[c][k] = c => i = k
  <2>1. \A i \in 1 .. n - 1 : inbound'[c][i] \in {c, Close} /\ (inbound'[c][i] = c => c \in said)
    BY <1>2, <1>3, <1>4
  <2>2. ASSUME NEW i \in 1 .. n - 1, NEW k \in 1 .. n - 1, inbound'[c][i] = c, inbound'[c][k] = c
        PROVE  i = k
    <3>1. inbound[c][i + 1] = c /\ inbound[c][k + 1] = c
      BY <1>2, <2>2
    <3>2. i + 1 = k + 1
      BY <1>3, <1>4, <3>1
    <3>3. QED
      BY <3>2
  <2>3. QED
    BY <2>1, <2>2
<1>6. OwnTexts'
  BY <1>1, <1>2, <1>5 DEF FramesInv, OwnTexts
<1>7. ASSUME NEW x \in Texts, Unheard(x)' PROVE Unheard(x)
  <2>1. CASE x = c /\ x \notin Admins
    <3>1. x \notin said \/ \E i \in 1 .. n - 1 : inbound'[c][i] = c
      BY <1>2, <1>7, <2>1 DEF Unheard
    <3>2. x \notin said \/ \E i \in 1 .. n : inbound[c][i] = c
      BY <1>2, <1>4, <3>1
    <3>3. QED
      BY <2>1, <3>2 DEF Unheard, n
  <2>2. CASE x # c \/ x \in Admins
    <3>1. x \in Admins \/ x \in Conns \ {c}
      BY <2>2 DEF Texts
    <3>2. QED
      BY <1>1, <1>7, <3>1 DEF Unheard
  <2>3. QED
    BY <2>1, <2>2
<1>8. ASSUME Head(inbound[c]) # Close PROVE Unheard(c) /\ ~Unheard(c)'
  <2>1. inbound[c][1] = c /\ c \in said /\ 1 \in 1 .. n /\ c \notin Admins
    BY <1>2, <1>3, <1>8, WsHubAssumption
  <2>2. Unheard(c)
    BY <2>1 DEF Unheard, n
  <2>3. \A i \in 1 .. n - 1 : inbound'[c][i] # c
    <3> SUFFICES ASSUME NEW i \in 1 .. n - 1, inbound[c][i + 1] = c PROVE FALSE
      BY <1>2
    <3>1. i + 1 = 1
      BY <1>3, <1>4, <2>1
    <3>2. QED
      BY <3>1
  <2>4. QED
    BY <1>2, <2>1, <2>2, <2>3 DEF Unheard
<1>9. QED
  BY <1>6, <1>7, <1>8

\* Hearing a text starts its one publish.
LEMMA HearFrames ==
  ASSUME Inv, FramesInv, NEW c \in Conns, Hear(c)
  PROVE  FramesInv'
<1>1. /\ stage[c] = "serving" /\ inbound[c] # <<>> /\ Head(inbound[c]) # Close
      /\ inbound' = [inbound EXCEPT ![c] = Tail(inbound[c])]
      /\ fanout' = [fanout EXCEPT ![c] = Targets(TopicOf[c], c)]
      /\ stage' = [stage EXCEPT ![c] = "publishing"]
      /\ UNCHANGED <<queue, wire, said, telling, accepted, told>>
  BY DEF Hear, Goes
<1>2. /\ OwnTexts' /\ \A x \in Texts : Unheard(x)' => Unheard(x)
      /\ Unheard(c) /\ ~Unheard(c)'
  BY <1>1, InboundTail
<1>3. WireAccepted' /\ EventsAgree'
  BY <1>1, WireKept, EventsKept
<1>4. FrontQueued'
  <2>1. \A d \in Conns : stage'[d] \in Early => stage[d] \in Early /\ queue'[d] = queue[d]
    BY <1>1 DEF Early, Inv, TypeOK
  <2>2. QED
    BY <1>1, <2>1, FrontKept
<1>5. FanoutOnce'
  <2>1. /\ c \in Texts /\ fanout'[c] = Members(TopicOf[c]) \ {c}
        /\ \A x \in Texts \ {c} : fanout'[x] = fanout[x]
    BY <1>1 DEF Targets, Texts, Inv, TypeOK
  <2>2. fanout'[c] \subseteq Conns
    BY <2>1, MembersType DEF Inv
  <2>3. \A d \in Conns : Went(d)' = Went(d) /\ c \notin Went(d)
    BY <1>1, <1>2, <2>1 DEF Went, FramesInv, FanoutOnce
  <2>4. \A x \in Texts : fanout[x] \subseteq Conns
    BY DEF Inv, TypeOK
  <2>5. QED
    BY <1>2, <2>1, <2>2, <2>3, <2>4 DEF FramesInv, FanoutOnce
<1>6. QED
  BY <1>2, <1>3, <1>4, <1>5 DEF FramesInv

LEMMA InboundFrames ==
  ASSUME Inv, FramesInv, NEW c \in Conns,
         Discard(c) \/ Talk(c) \/ Read(c) \/ HangUp(c) \/ Vanish(c)
  PROVE  FramesInv'
<1>1. UNCHANGED <<stage, queue, wire, fanout, telling, accepted, told>>
  BY DEF Discard, Talk, Read, HangUp, Vanish, pubVars
<1>2. OwnTexts' /\ \A x \in Texts : Unheard(x)' => Unheard(x)
  <2>1. CASE Discard(c)
    BY <2>1, InboundTail DEF Discard
  <2>2. CASE Talk(c)
    BY <2>2, InboundAppend DEF Talk
  <2>3. CASE HangUp(c)
    BY <2>3, InboundAppend DEF HangUp
  <2>4. CASE Read(c) \/ Vanish(c)
    <3>1. /\ said' = said
          /\ inbound' = inbound \/ inbound' = [inbound EXCEPT ![c] = Append(inbound[c], Close)]
      BY <2>4 DEF Read, Vanish
    <3>2. CASE inbound' = inbound
      BY <3>1, <3>2, TextsKept, UnheardKept
    <3>3. CASE inbound' = [inbound EXCEPT ![c] = Append(inbound[c], Close)]
      BY <3>1, <3>3, InboundAppend
    <3>4. QED
      BY <3>1, <3>2, <3>3
  <2>5. QED
    BY <2>1, <2>2, <2>3, <2>4
<1>3. WireAccepted' /\ FrontQueued' /\ FanoutOnce' /\ EventsAgree'
  BY <1>1, <1>2, WireKept, FrontKept, FanoutKept, EventsKept
<1>4. QED
  BY <1>2, <1>3 DEF FramesInv

-----------------------------------------------------------------------------
(* The hub's sends.                                                        *)

\* A member that is still served accepts a text it has not had; its event is owed.
LEMMA SendToFrames ==
  ASSUME Inv, FramesInv, NEW x \in Texts, NEW c \in Conns, SendTo(x, c)
  PROVE  FramesInv'
<1>1. /\ c \in fanout[x] /\ telling[x] = Idle
      /\ fanout' = [fanout EXCEPT ![x] = fanout[x] \ {c}]
      /\ UNCHANGED <<stage, wire, inbound, said, told>>
  BY DEF SendTo, clientVars
<1>2. /\ fanout'[x] = fanout[x] \ {c} /\ \A y \in Texts \ {x} : fanout'[y] = fanout[y]
      /\ x \notin Went(c) /\ c # x /\ ~Unheard(x)
  BY <1>1 DEF FramesInv, FanoutOnce, Inv, TypeOK
<1>3. OwnTexts' /\ \A y : Unheard(y)' <=> Unheard(y)
  BY <1>1, TextsKept, UnheardKept
<1>4. CASE ~Open(c)
  <2>1. UNCHANGED <<queue, accepted, telling>>
    BY <1>4 DEF SendTo, Accepts
  <2>2. WireAccepted' /\ FrontQueued' /\ EventsAgree'
    BY <1>1, <2>1, WireKept, FrontKept, EventsKept
  <2>3. \A d \in Conns : Went(d)' = Went(d)
    BY <2>1 DEF Went
  <2>4. FanoutOnce'
    <3>1. \A y \in Texts : fanout[y] \subseteq Conns /\ fanout'[y] \subseteq fanout[y]
      BY <1>2 DEF Inv, TypeOK
    <3>2. QED
      BY <1>3, <2>3, <3>1 DEF FramesInv, FanoutOnce
  <2>5. QED
    BY <1>3, <2>2, <2>4 DEF FramesInv
<1>5. CASE Open(c)
  <2>1. /\ queue' = [queue EXCEPT ![c] = Append(queue[c], x)]
        /\ accepted' = [accepted EXCEPT ![c] = Append(accepted[c], x)]
        /\ telling' = [telling EXCEPT ![x] = c]
    BY <1>5 DEF SendTo, Accepts
  <2>2. /\ queue[c] \in Seq(Frames) /\ x \in Frames /\ accepted[c] \in Seq(Texts)
        /\ wire[c] \in Seq(Frames) /\ x # Close
        /\ queue'[c] = Append(queue[c], x) /\ accepted'[c] = Append(accepted[c], x)
        /\ \A d \in Conns \ {c} : queue'[d] = queue[d] /\ accepted'[d] = accepted[d]
        /\ telling'[x] = c /\ \A y \in Texts \ {x} : telling'[y] = telling[y]
    BY <2>1, CloseIsNoText DEF Inv, TypeOK, Frames
  <2> DEFINE q == Len(queue[c])
             a == Len(accepted[c])
             w == Len(wire[c])
  <2>3. /\ q \in Nat /\ Len(queue'[c]) = q + 1 /\ queue'[c][q + 1] = x
        /\ \A i \in 1 .. q : queue'[c][i] = queue[c][i]
    BY <2>2, AppendFacts
  <2>4. /\ a \in Nat /\ Len(accepted'[c]) = a + 1 /\ accepted'[c][a + 1] = x
        /\ \A i \in 1 .. a : accepted'[c][i] = accepted[c][i]
    BY <2>2, AppendFacts
  <2>5. w \in Nat
    BY <2>2
  <2>6. /\ \A i \in 1 .. w : wire[c][i] # Close => i <= a /\ wire[c][i] = accepted[c][i]
        /\ \A i, k \in 1 .. a : accepted[c][i] = accepted[c][k] => i = k
    BY DEF FramesInv, WireAccepted, EventsAgree
  <2>7. stage[c] \in Early =>
          /\ \A i \in 1 .. q : FrontAt(c, i) => w + i <= a /\ accepted[c][w + i] = queue[c][i]
          /\ FrontAt(c, q) => a = w + q
    BY DEF FramesInv, FrontQueued
  <2>8. \A i \in 0 .. q : FrontAt(c, i)' <=> FrontAt(c, i)
    BY <2>3 DEF FrontAt
  <2>9. (FrontAt(c, Len(queue[c]))' => FrontAt(c, q)) /\ \A i : i = q + 1 /\ FrontAt(c, i)' => FrontAt(c, q)
    BY <2>3 DEF FrontAt
  <2>10. Went(c)' = Went(c) \cup {x} /\ \A d \in Conns \ {c} : Went(d)' = Went(d)
    <3>1. \A d \in Conns \ {c} : Went(d)' = Went(d)
      BY <2>2 DEF Went
    <3>2. Went(c)' = {accepted'[c][i] : i \in 1 .. a + 1}
      BY <2>4 DEF Went
    <3>3. \A y : y \in Went(c)' <=> y \in Went(c) \/ y = x
      BY <2>4, <3>2 DEF Went
    <3>4. QED
      BY <3>1, <3>3
  <2>11. /\ Owing(c)' = Owing(c) \cup {x} /\ x \notin Owing(c)
         /\ \A d \in Conns \ {c} : Owing(d)' = Owing(d)
    BY <1>1, <2>2, CloseIsNoText DEF Owing
  <2> HIDE DEF q, a, w
  <2>12. WireAccepted'
    <3>1. \A i \in 1 .. w : wire'[c][i] # Close =>
            i <= Len(accepted'[c]) /\ wire'[c][i] = accepted'[c][i]
      BY <1>1, <2>4, <2>5, <2>6
    <3>2. QED
      BY <1>1, <2>2, <3>1 DEF FramesInv, WireAccepted, w
  <2>13. FrontQueued'
    <3> SUFFICES ASSUME NEW d \in Conns, stage'[d] \in Early
                 PROVE  /\ \A i \in 1 .. Len(queue'[d]) : FrontAt(d, i)' =>
                             /\ Len(wire'[d]) + i <= Len(accepted'[d])
                             /\ accepted'[d][Len(wire'[d]) + i] = queue'[d][i]
                        /\ FrontAt(d, Len(queue[d]))' =>
                             Len(accepted'[d]) = Len(wire'[d]) + Len(queue'[d])
      BY DEF FrontQueued
    <3>1. CASE d = c
      <4>1. stage[c] \in Early /\ Len(wire'[c]) = w
        BY <1>1, <3>1 DEF w
      <4>2. ASSUME NEW i \in 1 .. q + 1, FrontAt(c, i)'
            PROVE  w + i <= a + 1 /\ accepted'[c][w + i] = queue'[c][i]
        <5>1. CASE i \in 1 .. q
          <6>1. FrontAt(c, i)
            BY <2>3, <2>8, <4>2, <5>1
          <6>2. w + i <= a /\ accepted[c][w + i] = queue[c][i] /\ w + i \in 1 .. a
            BY <2>3, <2>4, <2>5, <2>7, <4>1, <5>1, <6>1
          <6>3. QED
            BY <2>3, <2>4, <2>5, <5>1, <6>2
        <5>2. CASE i = q + 1
          <6>1. a = w + q
            BY <2>7, <2>9, <4>1, <4>2, <5>2
          <6>2. w + i = a + 1
            BY <2>3, <2>5, <5>2, <6>1
          <6>3. QED
            BY <2>3, <2>4, <5>2, <6>2
        <5>3. QED
          BY <2>3, <5>1, <5>2
      <4>3. FrontAt(c, Len(queue[c]))' => a + 1 = w + (q + 1)
        BY <2>3, <2>5, <2>7, <2>9, <4>1
      <4>4. QED
        BY <2>3, <2>4, <3>1, <4>1, <4>2, <4>3
    <3>2. CASE d # c
      <4>1. /\ stage[d] \in Early /\ queue'[d] = queue[d] /\ wire'[d] = wire[d]
            /\ accepted'[d] = accepted[d]
        BY <1>1, <2>2, <3>2
      <4>2. (\A i : FrontAt(d, i)' <=> FrontAt(d, i))
              /\ (FrontAt(d, Len(queue[d]))' <=> FrontAt(d, Len(queue[d])))
        BY <4>1 DEF FrontAt
      <4>3. QED
        BY <4>1, <4>2 DEF FramesInv, FrontQueued
    <3>3. QED
      BY <3>1, <3>2
  <2>14. FanoutOnce'
    <3>1. \A y \in Texts : fanout[y] \subseteq Conns /\ fanout'[y] \subseteq fanout[y]
      BY <1>2 DEF Inv, TypeOK
    <3>2. \A y \in Texts, d \in Conns : y \in Went(d)' <=> (y \in Went(d) \/ (y = x /\ d = c))
      BY <2>10
    <3>3. c \notin fanout'[x]
      BY <1>2
    <3>4. QED
      BY <1>2, <1>3, <3>1, <3>2, <3>3 DEF FramesInv, FanoutOnce
  <2>15. EventsAgree'
    <3>1. \A i \in 1 .. a : accepted[c][i] # x
      BY <1>2 DEF Went, a
    <3>2. \A i, k \in 1 .. a + 1 : accepted'[c][i] = accepted'[c][k] => i = k
      <4>1. \A i \in 1 .. a + 1 : i \in 1 .. a \/ i = a + 1
        BY <2>4
      <4>2. QED
        BY <2>4, <2>6, <3>1, <4>1
    <3>3. \A i, k \in 1 .. Len(accepted'[c]) : accepted'[c][i] = accepted'[c][k] => i = k
      BY <2>4, <3>2
    <3>4. /\ c \notin Went(c)'
          /\ Went(c)' = told[c] \cup Owing(c)' /\ told[c] \cap Owing(c)' = {}
      BY <1>2, <2>10, <2>11 DEF FramesInv, EventsAgree
    <3>5. ASSUME NEW d \in Conns
          PROVE  /\ \A i, k \in 1 .. Len(accepted'[d]) : accepted'[d][i] = accepted'[d][k] => i = k
                 /\ d \notin Went(d)'
                 /\ Went(d)' = told'[d] \cup Owing(d)' /\ told'[d] \cap Owing(d)' = {}
      <4>1. CASE d = c
        BY <1>1, <3>3, <3>4, <4>1
      <4>2. CASE d # c
        <5>1. accepted'[d] = accepted[d] /\ Went(d)' = Went(d) /\ Owing(d)' = Owing(d)
          BY <2>2, <2>10, <2>11, <4>2
        <5>2. QED
          BY <1>1, <5>1 DEF FramesInv, EventsAgree
      <4>3. QED
        BY <4>1, <4>2
    <3>6. QED
      BY <3>5 DEF EventsAgree
  <2>16. QED
    BY <1>3, <2>12, <2>13, <2>14, <2>15 DEF FramesInv
<1>6. QED
  BY <1>4, <1>5

\* The event owed is put on the bus.
LEMMA TellFrames ==
  ASSUME Inv, FramesInv, NEW x \in Texts, Tell(x)
  PROVE  FramesInv'
<1>1. /\ telling[x] # Idle
      /\ told' = [told EXCEPT ![telling[x]] = told[telling[x]] \cup {x}]
      /\ telling' = [telling EXCEPT ![x] = Idle]
      /\ UNCHANGED <<stage, queue, wire, inbound, said, fanout, accepted>>
  BY DEF Tell, clientVars
<1>2. PICK c \in Conns : c = telling[x]
  BY <1>1 DEF Inv, TypeOK
<1>3. WireAccepted' /\ FrontQueued' /\ OwnTexts' /\ FanoutOnce'
  BY <1>1, WireKept, FrontKept, TextsKept, FanoutKept, UnheardKept
<1>4. /\ told'[c] = told[c] \cup {x} /\ \A d \in Conns \ {c} : told'[d] = told[d]
      /\ telling'[x] = Idle /\ \A y \in Texts \ {x} : telling'[y] = telling[y]
  BY <1>1, <1>2 DEF Inv, TypeOK
<1>5. /\ Owing(c)' = Owing(c) \ {x} /\ x \in Owing(c)
      /\ \A d \in Conns \ {c} : Owing(d)' = Owing(d)
  BY <1>2, <1>4, CloseIsNoText DEF Owing
<1>6. \A d \in Conns : Went(d)' = Went(d)
  BY <1>1 DEF Went
<1>7. EventsAgree'
  BY <1>1, <1>4, <1>5, <1>6 DEF FramesInv, EventsAgree
<1>8. QED
  BY <1>3, <1>7 DEF FramesInv

LEMMA AdminPublishFrames ==
  ASSUME Inv, FramesInv, NEW a \in Admins, AdminPublish(a)
  PROVE  FramesInv'
<1>1. /\ a \notin said /\ said' = said \cup {a}
      /\ fanout' = [fanout EXCEPT ![a] = Members(AdminTopic[a]) \ {a}]
      /\ UNCHANGED <<stage, queue, wire, inbound, telling, accepted, told>>
  BY DEF AdminPublish, Targets
<1>2. a \in Texts /\ a \notin Conns /\ Unheard(a)
  BY <1>1, WsHubAssumption DEF Texts, Unheard
<1>3. /\ fanout'[a] = Members(AdminTopic[a]) \ {a} /\ fanout'[a] \subseteq Conns
      /\ \A x \in Texts \ {a} : fanout'[x] = fanout[x]
  BY <1>1, <1>2, MembersType DEF Inv, TypeOK
<1>4. ~Unheard(a)' /\ \A x \in Texts : Unheard(x)' => Unheard(x)
  BY <1>1, <1>2 DEF Unheard, Texts
<1>5. OwnTexts'
  BY <1>1, <1>2 DEF FramesInv, OwnTexts
<1>6. \A d \in Conns : Went(d)' = Went(d)
  BY <1>1 DEF Went
<1>7. FanoutOnce'
  <2>1. \A y \in Texts : fanout[y] \subseteq Conns
    BY DEF Inv, TypeOK
  <2>2. \A d \in Conns : a \notin Went(d) /\ d # a
    BY <1>2 DEF FramesInv, FanoutOnce
  <2>3. \A y \in Texts \ {a} : /\ Unheard(y)' => fanout'[y] = {} /\ \A d \in Conns : y \notin Went(d)'
                               /\ \A d \in fanout'[y] : y \notin Went(d)' /\ d # y
    BY <1>3, <1>4, <1>6, <2>1 DEF FramesInv, FanoutOnce
  <2>4. \A d \in fanout'[a] : a \notin Went(d)' /\ d # a
    BY <1>3, <1>6, <2>2
  <2>5. QED
    BY <1>4, <2>3, <2>4 DEF FanoutOnce
<1>8. WireAccepted' /\ FrontQueued' /\ EventsAgree'
  BY <1>1, WireKept, FrontKept, EventsKept
<1>9. QED
  BY <1>5, <1>7, <1>8 DEF FramesInv

\* A Close queued behind the texts ends the front there.
LEMMA CloseMemberFrames ==
  ASSUME Inv, FramesInv, NEW c \in Conns, CloseMember(c)
  PROVE  FramesInv'
<1>1. /\ queue' = AskToClose(c)
      /\ UNCHANGED <<stage, wire, inbound, said, fanout, telling, accepted, told>>
  BY DEF CloseMember, clientVars, pubVars
<1>2. WireAccepted' /\ OwnTexts' /\ FanoutOnce' /\ EventsAgree'
  BY <1>1, WireKept, TextsKept, FanoutKept, EventsKept, UnheardKept
<1>3. CASE queue' = queue
  BY <1>1, <1>2, <1>3, FrontKept DEF FramesInv
<1>4. CASE queue' = [queue EXCEPT ![c] = Append(queue[c], Close)]
  <2>1. /\ queue[c] \in Seq(Frames) /\ Close \in Frames
        /\ queue'[c] = Append(queue[c], Close)
        /\ \A d \in Conns \ {c} : queue'[d] = queue[d]
    BY <1>4 DEF Inv, TypeOK, Frames
  <2> DEFINE q == Len(queue[c])
  <2>2. /\ q \in Nat /\ Len(queue'[c]) = q + 1 /\ queue'[c][q + 1] = Close
        /\ \A i \in 1 .. q : queue'[c][i] = queue[c][i]
    BY <2>1, AppendFacts
  <2>3. \A i \in 1 .. q + 1 : FrontAt(c, i)' => i \in 1 .. q /\ FrontAt(c, i)
    BY <2>2 DEF FrontAt
  <2>4. ~FrontAt(c, Len(queue[c]))'
    BY <2>2 DEF FrontAt
  <2>5. FrontQueued'
    <3> SUFFICES ASSUME NEW d \in Conns, stage'[d] \in Early
                 PROVE  /\ \A i \in 1 .. Len(queue'[d]) : FrontAt(d, i)' =>
                             /\ Len(wire'[d]) + i <= Len(accepted'[d])
                             /\ accepted'[d][Len(wire'[d]) + i] = queue'[d][i]
                        /\ FrontAt(d, Len(queue[d]))' =>
                             Len(accepted'[d]) = Len(wire'[d]) + Len(queue'[d])
      BY DEF FrontQueued
    <3>1. CASE d = c
      <4>1. \A i \in 1 .. Len(queue'[c]) : FrontAt(c, i)' =>
              i \in 1 .. q /\ FrontAt(c, i) /\ queue'[c][i] = queue[c][i]
        BY <2>2, <2>3
      <4>2. QED
        BY <1>1, <2>4, <3>1, <4>1 DEF FramesInv, FrontQueued
    <3>2. CASE d # c
      <4>1. stage[d] \in Early /\ queue'[d] = queue[d]
        BY <1>1, <2>1, <3>2
      <4>2. (\A i : FrontAt(d, i)' <=> FrontAt(d, i))
              /\ (FrontAt(d, Len(queue[d]))' <=> FrontAt(d, Len(queue[d])))
        BY <4>1 DEF FrontAt
      <4>3. QED
        BY <1>1, <4>1, <4>2 DEF FramesInv, FrontQueued
    <3>3. QED
      BY <3>1, <3>2
  <2>6. QED
    BY <1>2, <2>5 DEF FramesInv
<1>5. QED
  BY <1>1, <1>3, <1>4 DEF AskToClose

LEMMA NextFrames == Inv /\ FramesInv /\ [Next]_vars => FramesInv'
<1> SUFFICES ASSUME Inv, FramesInv, [Next]_vars PROVE FramesInv'
  OBVIOUS
<1>1. ASSUME NEW c \in Conns, Upgrade(c) \/ Task(c) PROVE FramesInv'
  BY <1>1, StageFrames, WriteTextFrames, WriteCloseFrames, HearFrames, InboundFrames DEF Task
<1>2. ASSUME NEW x \in Texts, Fanout(x) PROVE FramesInv'
  BY <1>2, TellFrames, SendToFrames DEF Fanout
<1>3. ASSUME NEW a \in Admins, AdminPublish(a) PROVE FramesInv'
  BY <1>3, AdminPublishFrames
<1>4. ASSUME NEW t \in Topics, Kill(t) PROVE FramesInv'
  <2>1. UNCHANGED <<wire, inbound, said, pubVars, stage, queue>>
    BY <1>4 DEF Kill, clientVars
  <2>2. QED
    BY <2>1, QuietFrames
<1>5. ASSUME NEW c \in Conns, CloseMember(c) PROVE FramesInv'
  BY <1>5, CloseMemberFrames
<1>6. ASSUME NEW c \in Conns, Talk(c) \/ Read(c) \/ HangUp(c) \/ Vanish(c) PROVE FramesInv'
  BY <1>6, InboundFrames
<1>7. CASE UNCHANGED vars
  <2>1. UNCHANGED <<wire, inbound, said, pubVars, stage, queue>>
    BY <1>7 DEF vars, clientVars
  <2>2. QED
    BY <2>1, QuietFrames
<1>8. QED
  BY <1>1, <1>2, <1>3, <1>4, <1>5, <1>6, <1>7 DEF Next

\* Whoever publishes, leaves or is killed meanwhile, a client is sent the texts its
\* queue accepted in the order of acceptance, none twice and never its own, and the
\* bus has an Out frame for exactly those (hub.rs, conn.rs).
THEOREM WsHubFramesMatchEvents == Spec => []FramesMatchEvents
<1>1. Inv /\ FramesInv /\ [Next]_vars => (Inv /\ FramesInv)'
  BY NextInv, NextFrames
<1>2. FramesInv => FramesMatchEvents
  BY DEF FramesInv, FramesMatchEvents, WireAccepted, EventsAgree
<1>3. QED
  BY <1>1, <1>2, InitInv, FramesInit, PTL DEF Spec
=============================================================================
