------------------------------- MODULE WsHub -------------------------------
(***************************************************************************)
(* The WebSocket hub (ws/src/hub.rs) and the connections it serves         *)
(* (ws/src/conn.rs): topics and their members, a queue from the hub to     *)
(* each connection's task, publishes from clients and from the admin API,  *)
(* server-initiated disconnects, and the closing handshake.                *)
(*                                                                         *)
(* The hub's lock is held for one read or one write of the topics only:    *)
(* sending to the members found is done after it is released, so a         *)
(* publish, a kill and a departure interleave member by member.            *)
(***************************************************************************)
EXTENDS Integers, Sequences, FiniteSets

CONSTANTS
  Conns,      \* connections clients may open, one text each
  Topics,
  TopicOf,    \* [Conns -> Topics]: the query parameter
  Talkers,    \* the connections whose client sends a text
  Readers,    \* the connections whose client keeps reading
  Leavers,    \* the connections whose client may hang up or vanish
  Polite,     \* the connections whose client echoes a Close
  Admins,     \* admin publishes, one text each
  AdminTopic, \* [Admins -> Topics]
  MaxKills,   \* bound: calls of /_admin/ws/kill
  Window,     \* bound: frames a client's socket holds unread
  Idle        \* no admin task

ASSUME WsHubAssumption ==
  /\ TopicOf \in [Conns -> Topics]
  /\ Talkers \subseteq Conns /\ Readers \subseteq Conns
  /\ Leavers \subseteq Conns /\ Polite \subseteq Conns
  /\ AdminTopic \in [Admins -> Topics]
  /\ Conns \cap Admins = {} /\ "close" \notin Conns \cup Admins
  /\ Idle \notin Conns
  /\ MaxKills \in Nat
  /\ Window \in Nat \ {0}

Close == "close"
Texts == Conns \cup Admins   \* a text is named by who publishes it

VARIABLES
  topics,    \* Hub::topics: from the topics that have members to the members
  stage,     \* where each connection's task stands
  queue,     \* the unbounded channel from the hub to it
  wire,      \* the frames written to the client's socket
  read,      \* how many of them the client has read
  inbound,   \* what the client sent and the task has not read
  client,    \* what the client did: "open", "closed" its side, or "gone"
  said,      \* the clients' and admins' texts already sent
  fanout,    \* a publish under way: the members it found and has still to reach
  telling,   \* ... and the member reached whose event is not out yet
  killing,   \* a kill under way: the members it removed and has still to close
  kills,
  accepted,  \* history: what each connection's queue accepted
  told,      \* history: the Out frames on the bus, per connection
  killed     \* history: the members a kill removed

hubVars == <<topics, killing, kills, killed>>
pubVars == <<fanout, telling, accepted, told>>
clientVars == <<read, inbound, client, said>>
vars == <<topics, stage, queue, wire, clientVars, pubVars, killing, kills, killed>>

NoMembers == [t \in {} |-> {}]
Members(t) == IF t \in DOMAIN topics THEN topics[t] ELSE {}

\* The receiving half of the channel is dropped when the task's loop returns.
Open(c) == stage[c] \in {"serving", "publishing", "closing"}

-----------------------------------------------------------------------------
(* The hub.                                                                *)

Joined(t, c) ==
  [u \in DOMAIN topics \cup {t} |-> IF u = t THEN Members(t) \cup {c} ELSE topics[u]]

LeftWithTopic(t, c) == [u \in DOMAIN topics \ {t} |-> topics[u]]

\* leave: the topic goes with its last member.
Left(t, c) ==
  LET rest == Members(t) \ {c}
  IN  IF rest = {} THEN [u \in DOMAIN topics \ {t} |-> topics[u]]
      ELSE [topics EXCEPT ![t] = rest]

\* publish, first half: the members under the lock, the sender left out.
Targets(t, x) == Members(t) \ {x}

AcceptsAlways(c) == TRUE

\* publish, second half: one member. A send to a task that has returned fails.
Accepts(c) == Open(c)

SendTo(x, c) ==
  /\ c \in fanout[x] /\ telling[x] = Idle
  /\ fanout' = [fanout EXCEPT ![x] = @ \ {c}]
  /\ queue' = IF Open(c) THEN [queue EXCEPT ![c] = Append(@, x)] ELSE queue
  /\ accepted' = IF Open(c) THEN [accepted EXCEPT ![c] = Append(@, x)] ELSE accepted
  /\ telling' = IF Accepts(c) THEN [telling EXCEPT ![x] = c] ELSE telling
  /\ UNCHANGED <<hubVars, stage, wire, clientVars, told>>

\* The frame's event, after the frame is in the queue.
Tell(x) ==
  /\ telling[x] # Idle
  /\ told' = [told EXCEPT ![telling[x]] = @ \cup {x}]
  /\ telling' = [telling EXCEPT ![x] = Idle]
  /\ UNCHANGED <<hubVars, stage, queue, wire, clientVars, fanout, accepted>>

AdminPublish(a) ==
  /\ a \notin said
  /\ said' = said \cup {a}
  /\ fanout' = [fanout EXCEPT ![a] = Targets(AdminTopic[a], a)]
  /\ UNCHANGED <<hubVars, stage, queue, wire, read, inbound, client, telling, accepted, told>>

\* kill: the members go from the topics first, then each is asked to close.
Kill(t) ==
  /\ kills < MaxKills
  /\ t \in DOMAIN topics
  /\ topics' = [u \in DOMAIN topics \ {t} |-> topics[u]]
  /\ killing' = killing \cup topics[t]
  /\ killed' = killed \cup topics[t]
  /\ kills' = kills + 1
  /\ UNCHANGED <<stage, queue, wire, clientVars, pubVars>>

DropMember(c) == queue

AskToClose(c) == IF Open(c) THEN [queue EXCEPT ![c] = Append(@, Close)] ELSE queue

CloseMember(c) ==
  /\ c \in killing
  /\ killing' = killing \ {c}
  /\ queue' = AskToClose(c)
  /\ UNCHANGED <<topics, kills, killed, stage, wire, clientVars, pubVars>>

-----------------------------------------------------------------------------
(* A connection's task.                                                    *)

Goes(c, s) == stage' = [stage EXCEPT ![c] = s]

\* The upgrade is answered before the task that joins the topic runs.
Upgrade(c) ==
  /\ stage[c] = "new"
  /\ Goes(c, "upgraded")
  /\ UNCHANGED <<hubVars, queue, wire, clientVars, pubVars>>

Join(c) ==
  /\ stage[c] = "upgraded"
  /\ topics' = Joined(TopicOf[c], c)
  /\ Goes(c, "serving")
  /\ UNCHANGED <<killing, kills, killed, queue, wire, clientVars, pubVars>>

\* The client's socket takes another frame, or is no longer there.
Writable(c) == client[c] # "gone" /\ Len(wire[c]) - read[c] < Window

\* The loop is biased: what the hub queued goes first.
WriteText(c) ==
  /\ stage[c] = "serving" /\ queue[c] # <<>> /\ Head(queue[c]) # Close
  /\ queue' = [queue EXCEPT ![c] = Tail(@)]
  /\ \/ /\ Writable(c)
        /\ wire' = [wire EXCEPT ![c] = Append(@, Head(queue[c]))]
        /\ UNCHANGED stage
     \/ /\ client[c] = "gone"
        /\ Goes(c, "leaving")
        /\ UNCHANGED wire
  /\ UNCHANGED <<hubVars, clientVars, pubVars>>

StaysOpen == "serving"

AfterClose == "closing"

WriteClose(c) ==
  /\ stage[c] = "serving" /\ queue[c] # <<>> /\ Head(queue[c]) = Close
  /\ Writable(c) \/ client[c] = "gone"
  /\ queue' = [queue EXCEPT ![c] = Tail(@)]
  /\ wire' = IF Writable(c) THEN [wire EXCEPT ![c] = Append(@, Close)] ELSE wire
  /\ Goes(c, AfterClose)
  /\ UNCHANGED <<hubVars, clientVars, pubVars>>

\* A text from the client: its own event, then the fan-out to the others.
Hear(c) ==
  /\ stage[c] = "serving" /\ queue[c] = <<>>
  /\ inbound[c] # <<>> /\ Head(inbound[c]) # Close
  /\ inbound' = [inbound EXCEPT ![c] = Tail(@)]
  /\ fanout' = [fanout EXCEPT ![c] = Targets(TopicOf[c], c)]
  /\ Goes(c, "publishing")
  /\ UNCHANGED <<hubVars, queue, wire, read, client, said, telling, accepted, told>>

Published(c) ==
  /\ stage[c] = "publishing" /\ fanout[c] = {} /\ telling[c] = Idle
  /\ Goes(c, "serving")
  /\ UNCHANGED <<hubVars, queue, wire, clientVars, pubVars>>

\* The client's Close, or the end of its stream, which is how a broken connection shows
\* too; a read error while the client is still there is left out.
HearEnd(c) ==
  /\ stage[c] = "serving" /\ queue[c] = <<>>
  /\ IF inbound[c] = <<>> THEN client[c] = "gone" ELSE Head(inbound[c]) = Close
  /\ Goes(c, "leaving")
  /\ UNCHANGED <<hubVars, queue, wire, clientVars, pubVars>>

\* finish_close reads on, throwing texts away, until the echo, the end of the stream
\* or, at any time, the timeout.
Discard(c) ==
  /\ stage[c] = "closing" /\ inbound[c] # <<>> /\ Head(inbound[c]) # Close
  /\ inbound' = [inbound EXCEPT ![c] = Tail(@)]
  /\ UNCHANGED <<hubVars, stage, queue, wire, read, client, said, pubVars>>

FinishClose(c) ==
  /\ stage[c] = "closing"
  /\ Goes(c, "leaving")
  /\ UNCHANGED <<hubVars, queue, wire, clientVars, pubVars>>

Leave(c) ==
  /\ stage[c] = "leaving"
  /\ topics' = IF c \in Members(TopicOf[c]) THEN Left(TopicOf[c], c) ELSE topics
  /\ Goes(c, "left")
  /\ queue' = [queue EXCEPT ![c] = <<>>]
  /\ UNCHANGED <<killing, kills, killed, wire, clientVars, pubVars>>

-----------------------------------------------------------------------------
(* The clients.                                                            *)

Connected(c) == stage[c] # "new" /\ client[c] = "open"

Talk(c) ==
  /\ Connected(c) /\ c \in Talkers \ said
  /\ inbound' = [inbound EXCEPT ![c] = Append(@, c)]
  /\ said' = said \cup {c}
  /\ UNCHANGED <<hubVars, stage, queue, wire, read, client, pubVars>>

\* A polite client answers a Close with its own; the socket is then done for it.  What is
\* on the wire when the task returns stays readable: no TCP reset takes it back.
Read(c) ==
  /\ client[c] # "gone" /\ read[c] < Len(wire[c])
  /\ read' = [read EXCEPT ![c] = @ + 1]
  /\ IF wire[c][read[c] + 1] = Close /\ c \in Polite /\ client[c] = "open"
     THEN /\ inbound' = [inbound EXCEPT ![c] = Append(@, Close)]
          /\ client' = [client EXCEPT ![c] = "closed"]
     ELSE UNCHANGED <<inbound, client>>
  /\ UNCHANGED <<hubVars, stage, queue, wire, said, pubVars>>

HangUp(c) ==
  /\ Connected(c) /\ c \in Leavers
  /\ inbound' = [inbound EXCEPT ![c] = Append(@, Close)]
  /\ client' = [client EXCEPT ![c] = "closed"]
  /\ UNCHANGED <<hubVars, stage, queue, wire, read, said, pubVars>>

Vanish(c) ==
  /\ Connected(c) /\ c \in Leavers
  /\ client' = [client EXCEPT ![c] = "gone"]
  /\ UNCHANGED <<hubVars, stage, queue, wire, read, inbound, said, pubVars>>

-----------------------------------------------------------------------------
Init ==
  /\ topics = NoMembers
  /\ stage = [c \in Conns |-> "new"]
  /\ queue = [c \in Conns |-> <<>>]
  /\ wire = queue /\ inbound = queue /\ accepted = queue
  /\ read = [c \in Conns |-> 0]
  /\ client = [c \in Conns |-> "open"]
  /\ said = {}
  /\ fanout = [x \in Texts |-> {}]
  /\ telling = [x \in Texts |-> Idle]
  /\ killing = {} /\ kills = 0 /\ killed = {}
  /\ told = [c \in Conns |-> {}]

Task(c) ==
  \/ Join(c) \/ WriteText(c) \/ WriteClose(c)
  \/ Hear(c) \/ Published(c) \/ HearEnd(c)
  \/ Discard(c) \/ FinishClose(c) \/ Leave(c)

Fanout(x) == Tell(x) \/ \E c \in Conns : SendTo(x, c)

Next ==
  \/ \E c \in Conns : Upgrade(c) \/ Task(c)
  \/ \E x \in Texts : Fanout(x)
  \/ \E a \in Admins : AdminPublish(a)
  \/ \E t \in Topics : Kill(t)
  \/ \E c \in Conns : CloseMember(c)
  \/ \E c \in Conns : Talk(c) \/ Read(c) \/ HangUp(c) \/ Vanish(c)

Spec == Init /\ [][Next]_vars

\* Tasks and calls that have begun are run on by the executor; only the clients in
\* Readers keep reading, and no client need ever hang up.
FairSpec ==
  /\ Spec
  /\ \A c \in Conns : WF_vars(Task(c)) /\ WF_vars(CloseMember(c))
  /\ \A x \in Texts : WF_vars(Fanout(x))
  /\ \A c \in Readers : WF_vars(Read(c))

-----------------------------------------------------------------------------
(* Properties.                                                             *)

Stages == {"new", "upgraded", "serving", "publishing", "closing", "leaving", "left"}
Frames == Texts \cup {Close}

\* Every variable keeps its type; the map of topics never holds an empty one.
TypeOK ==
  /\ DOMAIN topics \subseteq Topics
  /\ \A t \in DOMAIN topics : topics[t] \in (SUBSET Conns) \ {{}}
  /\ stage \in [Conns -> Stages]
  /\ queue \in [Conns -> Seq(Frames)]
  /\ wire \in [Conns -> Seq(Frames)]
  /\ read \in [Conns -> Nat]
  /\ inbound \in [Conns -> Seq(Frames)]
  /\ client \in [Conns -> {"open", "closed", "gone"}]
  /\ said \subseteq Texts
  /\ fanout \in [Texts -> SUBSET Conns]
  /\ telling \in [Texts -> Conns \cup {Idle}]
  /\ killing \subseteq Conns /\ killed \subseteq Conns
  /\ kills \in 0 .. MaxKills
  /\ accepted \in [Conns -> Seq(Texts)]
  /\ told \in [Conns -> SUBSET Texts]

\* Presence: a connection is listed, under its own topic only, from the moment its
\* task joins until it leaves, and a kill unlists it at once and for good, whatever
\* else is under way; one member's departure never unlists another.  (TypeOK with it.)
PresenceIsExact ==
  /\ TypeOK
  /\ \A t \in DOMAIN topics, c \in Conns : c \in topics[t] => t = TopicOf[c]
  /\ \A c \in Conns :
       c \in Members(TopicOf[c]) <=>
         stage[c] \in Stages \ {"new", "upgraded", "left"} /\ c \notin killed

\* Trap T6: a Close is asked of a connection only by a kill and only once, a member
\* that was killed is never left without one, and it is the last thing its client is
\* sent, though a publish that found the member before the kill may put a text behind
\* the Close in the queue.
CloseComesLast ==
  \A c \in Conns :
    LET all == wire[c] \o queue[c]
        closes == {i \in 1 .. Len(all) : all[i] = Close}
    IN  /\ Cardinality(closes) <= IF c \in killed \ killing THEN 1 ELSE 0
        /\ c \in killed \ killing /\ stage[c] \in {"serving", "publishing"} => closes # {}
        /\ \A i \in 1 .. Len(wire[c]) : wire[c][i] = Close =>
             i = Len(wire[c]) /\ stage[c] \in {"closing", "leaving", "left"}

\* The texts a connection's queue accepted, and those among them whose publisher is
\* about to put the Out frame on the bus.
Went(c) == {accepted[c][i] : i \in 1 .. Len(accepted[c])}
Owing(c) == {x \in Texts : telling[x] = c}

\* Frames: what a client is sent are the texts its queue accepted, in that order and
\* from the first, none twice, never its own; and the bus has an Out frame for exactly
\* the accepted ones, but for those whose publisher is about to announce them.
FramesMatchEvents ==
  \A c \in Conns :
    /\ \A i \in 1 .. Len(wire[c]) : wire[c][i] # Close =>
         i <= Len(accepted[c]) /\ wire[c][i] = accepted[c][i]
    /\ \A i, k \in 1 .. Len(accepted[c]) : accepted[c][i] = accepted[c][k] => i = k
    /\ c \notin Went(c)
    /\ Went(c) = told[c] \cup Owing(c) /\ told[c] \cap Owing(c) = {}

\* A kill is not a dropped connection: every member it removes, whose client keeps
\* reading, is sent the Close, unless the client had hung up or vanished itself; and
\* the closing handshake ends, and the task with it, though the client never echoes.
KillsComplete ==
  /\ \A c \in Readers :
       c \in killed ~> \/ read[c] > 0 /\ wire[c][read[c]] = Close
                       \/ client[c] # "open"
  /\ \A c \in Conns : stage[c] = "closing" ~> stage[c] = "left"
=============================================================================
