------------------------------- MODULE EventBus -------------------------------
(***************************************************************************)
(* BroadcastBus (crates/core/src/bus.rs) over a bounded broadcast channel. *)
(*                                                                         *)
(* emit takes an id from an atomic counter and then sends: two steps, in   *)
(* between which other emitters run.  The channel keeps the last Capacity  *)
(* events; a subscriber further behind is told how many it missed, and the *)
(* stream turns that into a counter update and a Gap event.  `sent' is the *)
(* whole history of the channel; a subscriber can read only its end.       *)
(***************************************************************************)
EXTENDS Integers, Sequences, FiniteSets

CONSTANTS
  Emitters,   \* tasks that emit: handlers, poll loops, the webhook sender
  Subs,       \* streams: calls of subscribe()
  Polled,     \* the streams whose client keeps reading
  Capacity,   \* events the channel keeps, for each subscriber
  MaxEvents,  \* bound: events emitted
  NoId

ASSUME BusAssumption ==
  /\ Polled \subseteq Subs
  /\ Capacity \in Nat \ {0}
  /\ MaxEvents \in Nat
  /\ NoId \notin Nat

VARIABLES
  seq,      \* the id counter
  claimed,  \* the id an emitter has taken and not yet sent
  sent,     \* the ids sent to the channel, in channel order
  unheard,  \* history: the ids sent while nobody was subscribed
  stage,    \* where each stream stands
  next,     \* the channel position the stream reads next
  missed,   \* what recv said the stream missed, while the Gap is being made
  start,    \* history: the position the stream subscribed at
  got,      \* history: what the stream yielded, and the position it reached by it
  dropped   \* the counter of events dropped

emitVars == <<seq, claimed>>
streamVars == <<stage, next, missed, start, got>>
busVars == <<emitVars, sent, unheard, streamVars, dropped>>

Ids == 0 .. seq - 1
Subscribed(s) == stage[s] \in {"open", "count", "gap"}
End == Len(sent) + 1
\* The oldest position the channel still holds.
Oldest == IF Len(sent) > Capacity THEN End - Capacity ELSE 1

-----------------------------------------------------------------------------
(* emit: fetch_add, then send.                                             *)

IdFromChannel(e) ==
  /\ claimed[e] = NoId /\ seq < MaxEvents
  /\ claimed' = [claimed EXCEPT ![e] = Len(sent)]
  /\ seq' = seq + 1
  /\ UNCHANGED <<sent, unheard, streamVars, dropped>>
TakeId(e) ==
  /\ claimed[e] = NoId /\ seq < MaxEvents
  /\ claimed' = [claimed EXCEPT ![e] = seq]
  /\ seq' = seq + 1
  /\ UNCHANGED <<sent, unheard, streamVars, dropped>>

\* The broadcast channel refuses a value when it has no receiver; emit ignores that.
SendWithinCapacity(e) ==
  /\ claimed[e] # NoId
  /\ \A s \in Subs : Subscribed(s) => End - next[s] < Capacity
  /\ sent' = Append(sent, claimed[e])
  /\ claimed' = [claimed EXCEPT ![e] = NoId]
  /\ UNCHANGED <<seq, unheard, streamVars, dropped>>
Send(e) ==
  /\ claimed[e] # NoId
  /\ IF \E s \in Subs : Subscribed(s)
     THEN sent' = Append(sent, claimed[e]) /\ UNCHANGED unheard
     ELSE unheard' = unheard \cup {claimed[e]} /\ UNCHANGED sent
  /\ claimed' = [claimed EXCEPT ![e] = NoId]
  /\ UNCHANGED <<seq, streamVars, dropped>>

-----------------------------------------------------------------------------
(* The stream of a subscriber.                                             *)

Subscribe(s) ==
  /\ stage[s] = "new"
  /\ stage' = [stage EXCEPT ![s] = "open"]
  /\ next' = [next EXCEPT ![s] = End]
  /\ start' = [start EXCEPT ![s] = End]
  /\ UNCHANGED <<emitVars, sent, unheard, missed, got, dropped>>

Yield(s, id, lost, upto) ==
  got' = [got EXCEPT ![s] = Append(@, [id |-> id, lost |-> lost, upto |-> upto])]

ReceiveAfterOldest(s) ==
  /\ stage[s] = "open" /\ Oldest < next[s] /\ next[s] < End
  /\ Yield(s, sent[next[s]], 0, next[s] + 1)
  /\ next' = [next EXCEPT ![s] = @ + 1]
  /\ UNCHANGED <<emitVars, sent, unheard, stage, missed, start, dropped>>
ReceiveHead(s) ==
  /\ stage[s] = "open" /\ next[s] < End
  /\ Yield(s, sent[next[s]], 0, next[s] + 1)
  /\ next' = [next EXCEPT ![s] = (IF @ < Oldest THEN Oldest ELSE @) + 1]
  /\ UNCHANGED <<emitVars, sent, unheard, stage, missed, start, dropped>>
Receive(s) ==
  /\ stage[s] = "open"
  /\ Oldest <= next[s] /\ next[s] < End
  /\ Yield(s, sent[next[s]], 0, next[s] + 1)
  /\ next' = [next EXCEPT ![s] = @ + 1]
  /\ UNCHANGED <<emitVars, sent, unheard, stage, missed, start, dropped>>

\* Lagged(n): recv moves the stream to the oldest event still held.
Lag(s) ==
  /\ stage[s] = "open"
  /\ next[s] < Oldest
  /\ missed' = [missed EXCEPT ![s] = Oldest - next[s]]
  /\ next' = [next EXCEPT ![s] = Oldest]
  /\ stage' = [stage EXCEPT ![s] = "count"]
  /\ UNCHANGED <<emitVars, sent, unheard, start, got, dropped>>

CountOneGap(s) ==
  /\ stage[s] = "count"
  /\ dropped' = dropped + 1
  /\ stage' = [stage EXCEPT ![s] = "gap"]
  /\ UNCHANGED <<emitVars, sent, unheard, next, missed, start, got>>
CountDropped(s) ==
  /\ stage[s] = "count"
  /\ dropped' = dropped + missed[s]
  /\ stage' = [stage EXCEPT ![s] = "gap"]
  /\ UNCHANGED <<emitVars, sent, unheard, next, missed, start, got>>

YieldGapAgain(s) ==
  /\ stage[s] = "gap"
  /\ Yield(s, seq, missed[s], next[s])
  /\ stage' = [stage EXCEPT ![s] = "open"]
  /\ UNCHANGED <<emitVars, sent, unheard, next, missed, start, dropped>>

\* The Gap carries the counter's value at this moment.
YieldGap(s) ==
  /\ stage[s] = "gap"
  /\ Yield(s, seq, missed[s], next[s])
  /\ missed' = [missed EXCEPT ![s] = 0]
  /\ stage' = [stage EXCEPT ![s] = "open"]
  /\ UNCHANGED <<emitVars, sent, unheard, next, start, dropped>>

\* The client disconnects; the stream is dropped at its await.
Unsubscribe(s) ==
  /\ stage[s] = "open"
  /\ stage' = [stage EXCEPT ![s] = "closed"]
  /\ UNCHANGED <<emitVars, sent, unheard, next, missed, start, got, dropped>>

-----------------------------------------------------------------------------
BusInit ==
  /\ seq = 0
  /\ claimed = [e \in Emitters |-> NoId]
  /\ sent = <<>>
  /\ unheard = {}
  /\ stage = [s \in Subs |-> "new"]
  /\ next = [s \in Subs |-> 1]
  /\ missed = [s \in Subs |-> 0]
  /\ start = [s \in Subs |-> 1]
  /\ got = [s \in Subs |-> <<>>]
  /\ dropped = 0

Emit(e) == TakeId(e) \/ Send(e)
Progress(s) == Receive(s) \/ Lag(s) \/ CountDropped(s) \/ YieldGap(s)

BusNext ==
  \/ \E e \in Emitters : Emit(e)
  \/ \E s \in Subs : Subscribe(s) \/ Progress(s) \/ Unsubscribe(s)

BusSpec == BusInit /\ [][BusNext]_busVars

\* An emitter's call runs to its end, and the clients that keep reading poll their
\* streams; nothing is assumed of the others.
Fairness ==
  /\ \A e \in Emitters : WF_busVars(Send(e))
  /\ \A s \in Polled : WF_busVars(Progress(s))
BusFairSpec == BusSpec /\ Fairness

-----------------------------------------------------------------------------
(* Properties.                                                             *)

Entry == [id : Nat, lost : Nat, upto : Nat \ {0}]

\* Every variable keeps its type; a stream is never ahead of the channel, and has
\* something missed exactly while it is making a Gap of it.
BusTypeOK ==
  /\ seq \in 0 .. MaxEvents
  /\ claimed \in [Emitters -> Nat \cup {NoId}]
  /\ sent \in Seq(Nat)
  /\ unheard \subseteq Nat
  /\ stage \in [Subs -> {"new", "open", "count", "gap", "closed"}]
  /\ next \in [Subs -> Nat \ {0}] /\ start \in [Subs -> Nat \ {0}]
  /\ missed \in [Subs -> Nat]
  /\ got \in [Subs -> Seq(Entry)]
  /\ dropped \in Nat
  /\ \A s \in Subs : /\ start[s] <= next[s] /\ next[s] <= End
                     /\ missed[s] > 0 <=> stage[s] \in {"count", "gap"}

Sent == {sent[i] : i \in 1 .. Len(sent)}
InFlight == {claimed[e] : e \in Emitters} \ {NoId}

\* "Ids are dense" (bus.rs:32): every id below the counter belongs to exactly one
\* event, which is on its way, on the channel, or was sent to nobody.
IdsAreDense ==
  /\ Sent \cup InFlight \cup unheard = Ids
  /\ Sent \cap InFlight = {} /\ Sent \cap unheard = {} /\ InFlight \cap unheard = {}
  /\ \A i, k \in 1 .. Len(sent) : sent[i] = sent[k] => i = k
  /\ \A e, f \in Emitters : claimed[e] = claimed[f] /\ claimed[e] # NoId => e = f

\* Where the stream stood before it yielded its i-th event.
Before(s, i) == IF i = 1 THEN start[s] ELSE got[s][i - 1].upto

\* Trap T4: the stream accounts for every event since it subscribed, in channel
\* order. Each event it yields is the one at the position reached so far, each Gap
\* says exactly how many positions were jumped, and what the channel has moved the
\* stream past without yielding is what the Gap under way will say.
LossIsAccounted ==
  \A s \in Subs :
    /\ \A i \in 1 .. Len(got[s]) :
         LET from == Before(s, i)
         IN  IF got[s][i].lost = 0
             THEN got[s][i].upto = from + 1 /\ from < End /\ got[s][i].id = sent[from]
             ELSE got[s][i].upto = from + got[s][i].lost
    /\ Before(s, Len(got[s]) + 1) + missed[s] = next[s]

\* What the i-th event a stream yielded says was lost, or the Gap it is about to
\* yield next; and every loss said so far, one element for each event lost.
SaidLost(s, i) ==
  IF i \in DOMAIN got[s] THEN got[s][i].lost ELSE IF stage[s] = "gap" THEN missed[s] ELSE 0
LossesOf(s) ==
  UNION {{<<s, i>>} \X (1 .. SaidLost(s, i)) : i \in 1 .. Len(got[s]) + 1}
Losses == UNION {LossesOf(s) : s \in Subs}

\* "Added to dropped" (bus.rs:56): the counter is the number of losses the Gaps of
\* all streams said, those counted and about to be yielded included.
DroppedIsWhatGapsSay == dropped = Cardinality(Losses)

\* "A full or lagging channel must never stall the caller" (bus.rs:28): whatever the
\* subscribers do, an emitter that took an id sends its event.
EmitNeverStalls == \A e \in Emitters : claimed[e] # NoId ~> claimed[e] = NoId

\* A client that keeps reading reaches, as an event or in a Gap, every event on
\* the channel, unless it disconnects.
SubscribersCatchUp ==
  \A s \in Polled, i \in 1 .. MaxEvents :
    Subscribed(s) /\ Len(sent) >= i ~> Before(s, Len(got[s]) + 1) > i \/ stage[s] = "closed"

\* event.rs:26: "Monotonic per-process sequence number. Consumers detect loss by
\* comparing successive ids": the ids of the events a stream yields increase.
StreamIdsIncrease ==
  \A s \in Subs : \A i \in 2 .. Len(got[s]) :
    got[s][i - 1].lost = 0 /\ got[s][i].lost = 0 => got[s][i - 1].id < got[s][i].id
=============================================================================
