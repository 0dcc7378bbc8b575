----------------------------- MODULE MCProcess -----------------------------
(* Scenes of up to four requests: mail of two runs listed while it is sent  *)
(* and purged; a relay with its allowlist; spans leaving under faults that      *)
(* come and go, while the process is stopped or killed; streams held by a   *)
(* clock that stands still or by a client that does not read; restarts.     *)
EXTENDS Process, TLC

CONSTANTS r1, r2, r3, r4

Me == <<"me", "@", "ok">>
Sub == <<"me", "@", "a", ".", "ok">>
Quoted == <<"me", "@", "evil", "@", "ok">>
List == {[kind |-> "domain", of |-> <<"ok">>],
         [kind |-> "address", of |-> <<"you", "@", "a", ".", "ok">>]}

Ask(op) == [op |-> op, patient |-> TRUE]
Send(to, u) == [op |-> "send", to |-> to, run |-> u, patient |-> TRUE]
Inbox(u, limit, all) ==
  [op |-> "list", run |-> u, limit |-> limit, all |-> all, patient |-> TRUE]
Fault(f) == [op |-> "telemetry", fault |-> f, patient |-> TRUE]
Stream(paced, buffered) ==
  [op |-> "stream", paced |-> paced, buffered |-> buffered, reads |-> TRUE, patient |-> TRUE]
Unread == [Stream(FALSE, FALSE) EXCEPT !.reads = FALSE]
Clock(stands) == [op |-> "clock", frozen |-> stands, patient |-> TRUE]
Hasty(ask) == [ask EXCEPT !.patient = FALSE]

Env ==
  [args |-> "restore", scenario |-> "ok", collector |-> "none", database |-> "unset",
   redis |-> "down", mailConfig |-> TRUE, mail |-> TRUE, relay |-> FALSE, allowed |-> {},
   foreign |-> FALSE, flaky |-> FALSE, port |-> "dual", telemetry |-> NoFault]
Relay(list) == [Env EXCEPT !.relay = TRUE, !.allowed = list]
Lying(fault) == [Env EXCEPT !.collector = "up", !.telemetry = fault, !.args = "none"]
Quiet == Lying(NoFault)

Sometimes == [NoFault EXCEPT !.rate = "maybe"]
Lose == [Sometimes EXCEPT !.drop = TRUE, !.latency = TRUE]
Twist == [Sometimes EXCEPT !.orphan = TRUE, !.skew = -9, !.bloat = 2]
Asleep == [Twist EXCEPT !.rate = "never", !.drop = TRUE, !.bomb = 3]
Cheat == [NoFault EXCEPT !.rate = "always", !.reset = TRUE, !.bomb = 3, !.skew = 1, !.latency = TRUE]

Order == <<r1, r2, r3, r4>>
Scene(script, e) ==
  [asks |-> [r \in Requests |->
               LET i == CHOOSE k \in DOMAIN Order : Order[k] = r
               IN  IF i > Len(script) THEN Ask("nothing") ELSE script[i]],
   env |-> e]

MCScenes ==
  { Scene(<<Send(Me, 7), Send(Sub, None), Inbox(7, 2, FALSE), Ask("purge")>>,
          [Env EXCEPT !.foreign = TRUE]),
    Scene(<<Hasty(Send(Me, 7)), Inbox(7, 9, FALSE), Send(Me, 7)>>, [Env EXCEPT !.flaky = TRUE]),
    Scene(<<Send(Quoted, 7), Inbox(NotARun, 9, FALSE), Send(Sub, 7), Inbox(7, 9, TRUE)>>, Env),
    Scene(<<Send(Me, None), Ask("snapshot"), Inbox(None, 9, FALSE), Inbox(None, 9, FALSE)>>,
          [Env EXCEPT !.collector = "up"]),
    Scene(<<Send(Me, None), Send(Sub, 7), Inbox(None, 9, FALSE), Ask("purge")>>, Relay(List)),
    Scene(<<Send(Quoted, None), Send(Sub, 7), Send(<<"me">>, 7)>>,
          [Relay({[kind |-> "any", of |-> None]}) EXCEPT !.flaky = TRUE]),
    Scene(<<Send(Me, None), Ask("index"), Ask("nowhere")>>, Relay({})),
    Scene(<<Ask("items"), Send(Me, None), Fault(Lose), Fault(Asleep)>>, Lying(Twist)),
    Scene(<<Ask("items"), Ask("items"), Ask("items"), Fault(Twist)>>, Lying(Asleep)),
    Scene(<<Ask("items"), Ask("metrics"), Fault(None), Ask("events")>>, Lying(Cheat)),
    Scene(<<Fault(Cheat), Ask("metrics"), Ask("snapshot"), Ask("items")>>,
          [Lying(Asleep) EXCEPT !.args = "restore"]),
    Scene(<<Hasty(Ask("events")), Hasty(Send(Me, None)), Ask("items")>>,
          [Lying(Lose) EXCEPT !.database = "up", !.redis = "up"]),
    Scene(<<Clock(TRUE), Hasty(Stream(TRUE, FALSE)), Ask("items"), Clock(FALSE)>>, Quiet),
    Scene(<<Clock(TRUE), Stream(TRUE, TRUE), Stream(FALSE, TRUE), Ask("reset")>>, Lying(Lose)),
    Scene(<<Clock(TRUE), Stream(TRUE, FALSE), Ask("snapshot"), Unread>>,
          [Quiet EXCEPT !.args = "restore"]),
    Scene(<<Hasty(Ask("items")), Hasty(Unread), Ask("metrics")>>, Lying(Lose)),
    Scene(<<Send(Me, None), Inbox(None, 9, FALSE), Ask("purge")>>,
          [Env EXCEPT !.mail = FALSE, !.database = "unprepared"]),
    Scene(<<Ask("index")>>, [Env EXCEPT !.port = "taken", !.database = "down"]),
    Scene(<<Ask("index"), Send(Me, None)>>, [Env EXCEPT !.mailConfig = FALSE]),
    Scene(<<Ask("index")>>, [Env EXCEPT !.args = "bad"]),
    Scene(<<Ask("index")>>, [Env EXCEPT !.args = "none", !.scenario = "bad"]) }
=============================================================================
