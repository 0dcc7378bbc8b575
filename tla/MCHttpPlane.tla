---------------------------- MODULE MCHttpPlane ----------------------------
(* Scenes of three requests: two pools racing for one run while it is       *)
(* dropped; a run being created, used and dropped; items; streams, paced,   *)
(* cut, failed; and rules that overlap, misfire and change.                 *)
EXTENDS HttpPlane, TLC

CONSTANTS r1, r2, r3, dflt, fresh

Nothing == [op |-> "nothing", path |-> <<>>]
Ping0 == [op |-> "ping", path |-> <<"/", "a", "/", "p">>]
Items(op, u) == [op |-> op, path |-> <<"/", "a", "/", "i">>, run |-> u]
Item(op, u, i) == [op |-> op, path |-> <<"/", "a", "/", "i", "/", "1">>, run |-> u, item |-> i]
NoHeader(op) == [op |-> op, path |-> <<"/", "a", "/", "i">>]
Admin(op, u) == [op |-> op, path |-> <<"/", "_">>, run |-> u]
Chat(stream, texts, delay, failAt) ==
  [op |-> "chat", path |-> <<"/", "v", "/", "c">>, stream |-> stream, delay |-> delay,
   failAt |-> failAt, messages |-> texts, reads |-> TRUE]
Scripted(chunks, delay, failAt) ==
  [op |-> "scripted", path |-> <<"/", "s", "/", "1">>, chunks |-> chunks, delay |-> delay,
   failAt |-> failAt, reads |-> TRUE]
NotRead(ask) == [ask EXCEPT !.reads = FALSE]

User(text) == [role |-> "user", text |-> text]
Model(text) == [role |-> "model", text |-> text]
Hello == <<"hello", Space, "there">>
Untidy == <<"hello", Space, Space, "there">>

Rule(route, rate) ==
  [route |-> route, rate |-> rate, latency |-> None, jitter |-> None, status |-> None,
   truncate |-> FALSE, drop |-> FALSE]
Slow(route) == [Rule(route, "always") EXCEPT !.latency = 1, !.jitter = 2]
Status(route, n) == [Rule(route, "always") EXCEPT !.status = n]
Cut(route) == [Rule(route, "maybe") EXCEPT !.truncate = TRUE]
Drop(route) == [Rule(route, "maybe") EXCEPT !.drop = TRUE]

Star == <<"/", "*">>
Layered == <<Slow(<<"*", "/", "i">>), Status(Star, 500), Status(<<"/", "a", "/", "i", "*">>, 99),
             [Status(<<"*", "/", "*", "/", "1">>, 418) EXCEPT !.rate = "maybe"], Drop(Star)>>
Cutting == <<Cut(Star), [Status(Star, 500) EXCEPT !.rate = "never"]>>

Scene(a1, a2, a3, rs, new, data) ==
  [asks |-> r1 :> a1 @@ r2 :> a2 @@ r3 :> a3, first |-> rs, later |-> new, boot |-> data]

MCScenes ==
  { Scene(Items("list", dflt), NoHeader("create"), Admin("dropRun", dflt), <<>>, None, "ready"),
    Scene(Admin("createRun", fresh), Items("create", fresh), Admin("dropRun", fresh), <<>>, None, "ready"),
    Scene(Items("list", dflt), NoHeader("create"), Admin("dropRun", dflt), <<>>, None,
          "unprepared"),
    Scene(Items("list", fresh), Admin("dropRun", fresh), Items("create", dflt), <<>>, None,
          "ready"),
    Scene(Items("create", dflt), Item("delete", dflt, r1), Item("get", dflt, r1), <<>>, None, "ready"),
    Scene(Items("list", None), Admin("dropRun", None), Admin("listRuns", None), <<>>, None, "ready"),
    Scene(Item("get", dflt, r3), Ping0, NoHeader("create"), Layered, <<>>, "unconfigured"),
    Scene(Chat(TRUE, <<User(Hello), Model(Untidy)>>, 1, None), Nothing, Nothing,
          Cutting, <<>>, "unconfigured"),
    Scene(Scripted(2, 1, None), NotRead(Scripted(1, 0, None)), Nothing, <<>>, None, "unconfigured"),
    Scene(Scripted(2, 0, 1), Nothing, Nothing, Cutting, None, "unconfigured"),
    Scene(Chat(TRUE, <<Model(Untidy)>>, 0, 4), Scripted(0, 1, 0),
          Chat(FALSE, <<Model(Hello), User(Untidy)>>, 0, None), <<>>, None, "unconfigured"),
    Scene(Chat(TRUE, <<User(Untidy)>>, 0, 9), Nothing, Nothing, <<>>, Cutting, "unconfigured"),
    Scene(Chat(TRUE, <<>>, 0, 0), NotRead(Scripted(0, 1, 0)), Nothing, <<>>, None, "unconfigured") }
=============================================================================
