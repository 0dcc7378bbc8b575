------------------------------ MODULE Streams ------------------------------
(***************************************************************************)
(* The streaming surface (crates/stream): chat completions, streamed or    *)
(* not, and scripted streams, their chunks paced by the virtual clock and  *)
(* written while the client reads.  The admin may set that clock, stop it, *)
(* and leave it stopped, and a client may stay and stop reading.  (The     *)
(* clock's own steps are Clock's; here each of its operations is one.)     *)
(*                                                                         *)
(* A text is a sequence of words and of Space; two words always have a     *)
(* Space between them. White space of other kinds, which tokenize turns    *)
(* into Space, is left out.                                                *)
(***************************************************************************)
EXTENDS FaultLayer

CONSTANTS
  Space,
  Advances   \* the offsets clock/advance may bring the clock to

\* The sequence is finite, whatever its elements.
IsSeq(s) == s \in Seq({s[i] : i \in 1 .. Len(s)})

\* What a message of a conversation says.
Text(text) ==
  IsSeq(text) /\ \A i \in 1 .. Len(text) - 1 : text[i] = Space \/ text[i + 1] = Space

\* failAt and chunks are counts; a stream without a failAt has None.
ASSUME StreamsAssumption ==
  \A s \in Scenes, r \in Requests :
    /\ s.asks[r].op \in {"chat", "scripted"} =>
         s.asks[r].failAt \in Nat \cup {None} /\ s.asks[r].reads \in BOOLEAN
    /\ s.asks[r].op = "scripted" => s.asks[r].chunks \in Nat
    /\ s.asks[r].op = "chat" =>
         IsSeq(s.asks[r].messages)
         /\ \A i \in 1 .. Len(s.asks[r].messages) : Text(s.asks[r].messages[i].text)

VARIABLES
  offset,    \* Clock::offset_ms
  frozenAt,  \* the real time a frozen clock stands at, or None
  start,     \* the virtual time each stream was started at
  sent       \* the chunks each body has yielded

streamVars == <<offset, frozenAt, start, sent>>

Now == (IF frozenAt = None THEN wall ELSE frozenAt) + offset

-----------------------------------------------------------------------------
(* What a stream says.                                                     *)

\* reply_text: the last user message, or the last of any role.
ReplyText(ask) ==
  LET user == {i \in DOMAIN ask.messages : ask.messages[i].role = "user"}
      all == DOMAIN ask.messages
  IN  IF user # {} THEN ask.messages[Max(user)].text
      ELSE IF all # {} THEN ask.messages[Max(all)].text
      ELSE <<>>

\* tokenize: split_whitespace, then one space in front of every word but the first.
Tokens(text) ==
  LET Upto[n \in 0 .. Len(text)] ==
        IF n = 0 THEN <<>>
        ELSE IF text[n] = Space THEN Upto[n - 1]
        ELSE Append(Upto[n - 1], IF Upto[n - 1] = <<>> THEN <<text[n]>> ELSE <<Space, text[n]>>)
  IN  Upto[Len(text)]

Chunk(kind, delta) == [kind |-> kind, delta |-> delta]

Pieces(ask) ==
  IF ask.op = "scripted"
  THEN [i \in 1 .. ask.chunks |-> Chunk("scripted", <<>>)]
  ELSE <<Chunk("role", <<>>)>>
       \o [i \in DOMAIN Tokens(ReplyText(ask)) |-> Chunk("token", Tokens(ReplyText(ask))[i])]
       \o <<Chunk("stop", <<>>), Chunk("DONE", <<>>)>>

-----------------------------------------------------------------------------
(* The handlers.                                                           *)

StreamOp(r) == asks[r].op \in {"chat", "scripted"}
Streamed(r) == StreamOp(r) /\ (asks[r].op = "chat" => asks[r].stream)

\* A completion in one piece: one chunk event, then the layer's.
Complete(r) ==
  /\ stage[r] = "handler" /\ asks[r].op = "chat" /\ ~asks[r].stream
  /\ reply' = [reply EXCEPT ![r] =
       [status |-> 200, body |-> IF effects[r].truncate THEN "cut" ELSE "json"]]
  /\ stage' = [stage EXCEPT ![r] = "answered"]
  /\ sent' = [sent EXCEPT ![r] = <<Chunk("token", ReplyText(asks[r]))>>]
  /\ log' = [log EXCEPT ![r] = @ \o
       <<[kind |-> "chunk", seq |-> 0],
         [kind |-> "http", status |-> 200, latency |-> wall - since[r],
          faults |-> effects[r].names]>>]
  /\ UNCHANGED <<asks, rules, pending, boot, wall, since, effects, drawn,
                 offset, frozenAt, start>>

\* The handler returns as soon as the body exists; a cut body is read to its end first.
Open(r) ==
  /\ stage[r] = "handler" /\ Streamed(r)
  /\ start' = [start EXCEPT ![r] = Now]
  /\ IF effects[r].truncate
     THEN /\ stage' = [stage EXCEPT ![r] = "buffering"]
          /\ UNCHANGED <<asks, rules, pending, boot, wall, since, effects, reply, log, drawn>>
     ELSE Respond(r, 200, "stream")
  /\ UNCHANGED <<offset, frozenAt, sent>>

Reading(r) == stage[r] \in {"buffering", "streaming"}
Seq0(r) == Len(sent[r])
More(r) == Seq0(r) < Len(Pieces(asks[r]))

FailsPastIt(r) == asks[r].failAt # None /\ Seq0(r) > asks[r].failAt

FailsHere(r) == asks[r].failAt # None /\ Seq0(r) >= asks[r].failAt

\* wait_until: the due time counts from the stream's start, not from the last chunk.
ChunkDue(r) == Now >= start[r] + Seq0(r) * asks[r].delay

\* Real time passes while a clock that runs has not reached the chunk; and until it is due
\* in real time, so that no reset of the clock can hold the stream up.
Pausing(r) ==
  /\ Reading(r) /\ More(r) /\ ~FailsHere(r)
  /\ \/ wall < start[r] + Seq0(r) * asks[r].delay
     \/ frozenAt = None /\ ~ChunkDue(r)

Write(r) ==
  /\ Reading(r) /\ More(r) /\ ~FailsHere(r) /\ ChunkDue(r)
  /\ sent' = [sent EXCEPT ![r] = Append(@, Pieces(asks[r])[Seq0(r) + 1])]
  /\ log' = [log EXCEPT ![r] = Append(@, [kind |-> "chunk", seq |-> Seq0(r)])]
  /\ UNCHANGED <<asks, rules, pending, boot, wall, stage, since, effects, reply, drawn,
                 offset, frozenAt, start>>

\* The body ends, or breaks where it was told to; a body the layer was reading is then
\* cut, or replaced by a 500.
EndStream(r) ==
  /\ Reading(r)
  /\ ~More(r) \/ FailsHere(r)
  /\ IF stage[r] = "buffering"
     THEN Respond(r, IF More(r) THEN 500 ELSE 200, IF More(r) THEN "empty" ELSE "cut")
     ELSE /\ stage' = [stage EXCEPT ![r] = "answered"]
          /\ reply' = [reply EXCEPT ![r].body = IF More(r) THEN "broken" ELSE "whole"]
          /\ UNCHANGED <<asks, rules, pending, boot, wall, since, effects, log, drawn>>
  /\ UNCHANGED streamVars

StreamStep(r) == Complete(r) \/ Open(r) \/ Write(r) \/ EndStream(r)

-----------------------------------------------------------------------------
(* The clock.                                                              *)

\* Virtual time is followed while a stream is there to see it.
Watched == \E r \in Requests : Reading(r)

Advance ==
  /\ Watched
  /\ \E o \in Advances : o > offset /\ offset' = o
  /\ UNCHANGED <<layerVars, frozenAt, start, sent>>

\* A second freeze captures again.
Freeze ==
  /\ Watched
  /\ frozenAt' = wall
  /\ UNCHANGED <<layerVars, offset, start, sent>>

\* The time skipped is rolled into the offset.
Resume ==
  /\ Watched /\ frozenAt # None
  /\ offset' = offset - (wall - frozenAt)
  /\ frozenAt' = None
  /\ UNCHANGED <<layerVars, start, sent>>

ResetClock ==
  /\ Watched /\ (offset # 0 \/ frozenAt # None)
  /\ offset' = 0
  /\ frozenAt' = None
  /\ UNCHANGED <<layerVars, start, sent>>

ClockStep == Advance \/ Freeze \/ Resume \/ ResetClock

StreamInit ==
  /\ offset = 0 /\ frozenAt = None
  /\ start = [r \in Requests |-> 0]
  /\ sent = [r \in Requests |-> <<>>]

-----------------------------------------------------------------------------
(* Properties.                                                             *)

\* The text a client assembles from the deltas it got.
Assembled(r) == FlattenSeq([i \in DOMAIN sent[r] |-> sent[r][i].delta])

\* chunks.rs: "concatenating every delta reproduces the input exactly".
DeltasReproduceTheText ==
  \A r \in Requests :
    asks[r].op = "chat" /\ reply[r].body = "whole" => Assembled(r) = ReplyText(asks[r])

\* Single spaces between words and none around them.
Tidy(text) ==
  /\ text # <<>> => text[1] # Space /\ text[Len(text)] # Space
  /\ \A i \in 1 .. Len(text) - 1 : text[i] = Space => text[i + 1] # Space

\* A stream ends where it was told to: the chunks on the bus are those of the body, in
\* order from 0; the request's own event comes before them if they are streamed, after
\* them if the layer or the handler had the body whole; a stream told to fail breaks
\* after exactly that many chunks, one not told to ends with its last.
StreamsEndWhereTold ==
  \A r \in Requests : StreamOp(r) =>
    /\ {log[r][i].seq : i \in ChunkAt(r)} = 0 .. Len(sent[r]) - 1
    /\ \A i, k \in ChunkAt(r) : i < k => log[r][i].seq < log[r][k].seq
    /\ \A i \in HttpAt(r), k \in ChunkAt(r) :
         i < k <=> reply[r].body \in {"stream", "broken", "whole"}
    /\ reply[r].body = "whole" =>
         /\ asks[r].failAt # None => asks[r].failAt >= Len(sent[r])
         /\ asks[r].op = "scripted" => Len(sent[r]) = asks[r].chunks
    /\ (sent[r] # <<>> /\ reply[r].body \in {"broken", "empty"}) => Len(sent[r]) = asks[r].failAt

\* A stream says the reply: it ends where it was told to; a whole chat stream ends with
\* stop and [DONE] and its deltas join to the reply, if and only if that is tidy; and a
\* completion in one piece is the reply as it stands.
StreamsSayTheReply ==
  /\ StreamsEndWhereTold
  /\ \A r \in Requests : asks[r].op = "chat" =>
       /\ reply[r].body = "whole" =>
            /\ \A i \in 1 .. Len(sent[r]) - 3 : sent[r][i].kind \in {"role", "token"}
            /\ sent[r][Len(sent[r]) - 1].kind = "stop" /\ sent[r][Len(sent[r])].kind = "DONE"
            /\ (Assembled(r) = ReplyText(asks[r])) <=> Tidy(ReplyText(asks[r]))
       /\ reply[r].body = "json" => Assembled(r) = ReplyText(asks[r])
=============================================================================
