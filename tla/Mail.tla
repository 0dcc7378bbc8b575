------------------------------- MODULE Mail -------------------------------
(***************************************************************************)
(* The mail surface (crates/mail and the mail routes of crates/admin): a   *)
(* send over SMTP tagged with the run it acts as, a listing that fetches   *)
(* one header per message to tell the runs apart (trap T7), and a purge of *)
(* everybody's mail.  Mailpit, or the relay that replaces it, is external: *)
(* it accepts, forgets on a purge, and may go away.                        *)
(*                                                                         *)
(* Addresses are sequences of names, "@" and ".", already lower case and   *)
(* trimmed.  Runs are the positive numbers; NotARun is a header that is no *)
(* run id.  Mailpit's own search ("query") only narrows and is left out.   *)
(***************************************************************************)
EXTENDS Integers, FiniteSets, SequencesExt

CONSTANTS
  Requests,      \* the requests of a scene
  None           \* absent

ASSUME MailAssumption == None \notin Requests /\ None \notin Int /\ None \notin Seq(STRING)

VARIABLES
  asks,          \* what each request asks: [op, ...] (chosen once)
  env,           \* the process's environment (chosen once)
  run,           \* the process's run: State::run
  mailer,        \* what boot wired: "none", "mailpit" or "relay"
  stage,         \* where each request is
  reply,         \* its answer: [status, body], or None
  acting,        \* the run each mail request acts as: run_of's result
  mailpit,       \* Mailpit's messages, newest first: [id, run]
  accepted,      \* requests whose mail the server took, ever
  announced,     \* requests with a MailSent event
  listed, at,    \* a run-filtered listing: its messages, and the next one to look at
  kept,          \* its messages of this run so far: out
  reachable      \* the mail server answers

requestVars == <<asks, env, stage, reply>>
mailVars == <<acting, mailpit, accepted, announced, listed, at, kept, reachable>>

NotARun == 0
MailOps == {"send", "list", "purge"}

MailInit ==
  /\ acting = [r \in Requests |-> None]
  /\ mailpit = <<>>
  /\ accepted = {} /\ announced = {}
  /\ listed = [r \in Requests |-> <<>>]
  /\ at = [r \in Requests |-> 1]
  /\ kept = [r \in Requests |-> <<>>]
  /\ reachable = env.mail

Answer(r, status, body) ==
  /\ stage' = [stage EXCEPT ![r] = "done"]
  /\ reply' = [reply EXCEPT ![r] = [status |-> status, body |-> body]]

Go(r, next) == stage' = [stage EXCEPT ![r] = next] /\ UNCHANGED reply

-----------------------------------------------------------------------------
(* Who a relay may write to: Allowlist.                                    *)

\* Everything after the last "@"; None without one.
DomainOf(address) ==
  IF "@" \notin Range(address) THEN None
  ELSE SubSeq(address, SelectLastInSeq(address, LAMBDA c : c = "@") + 1, Len(address))

Permits(allowed, address) ==
  /\ DomainOf(address) # None
  /\ \E entry \in allowed : \/ entry.kind = "any"
                            \/ entry.kind = "domain" /\ DomainOf(address) = entry.of
                            \/ entry.kind = "address" /\ address = entry.of

\* lettre's mailbox parser, of plain addresses: one "@", something on both sides (display
\* names and quoted local parts are left out).
Parses(address) ==
  \E k \in 2 .. Len(address) - 1 : {i \in DOMAIN address : address[i] = "@"} = {k}

-----------------------------------------------------------------------------
(* The routes.                                                             *)

RunOf(r) == IF asks[r].run = None THEN run ELSE asks[r].run

\* The answer a mail request gets before anything is sent anywhere, in the handlers' order.
Refusal(r) ==
  IF mailer = "none" THEN 503
  ELSE IF asks[r].op # "purge" /\ RunOf(r) = NotARun THEN 400
  ELSE IF mailer = "relay" /\ asks[r].op # "send" THEN 501
  ELSE IF mailer = "relay" /\ ~Permits(env.allowed, asks[r].to) THEN 403
  ELSE None

MailArrive(r) ==
  /\ stage[r] = "idle" /\ asks[r].op \in MailOps
  /\ acting' = [acting EXCEPT ![r] = IF asks[r].op = "purge" THEN None ELSE RunOf(r)]
  /\ IF Refusal(r) # None THEN Answer(r, Refusal(r), None) ELSE Go(r, asks[r].op)
  /\ UNCHANGED <<mailpit, accepted, announced, listed, at, kept, reachable>>

\* The message as it goes out: the X-Testbed-Run header is the run the request acts as.
TaggedWithTheProcessRun(r) == [id |-> r, run |-> run]

Tagged(r) == [id |-> r, run |-> acting[r]]

\* The server takes the message; its reply is still on the way.
Deliver(r) ==
  /\ stage[r] = "send" /\ Parses(asks[r].to) /\ reachable
  /\ accepted' = accepted \union {r}
  /\ mailpit' = IF mailer = "mailpit" THEN <<Tagged(r)>> \o mailpit ELSE mailpit
  /\ Go(r, "handed")
  /\ UNCHANGED <<acting, announced, listed, at, kept, reachable>>

\* The server's reply: the span's id is recorded, the event goes out, the client is told.
Confirm(r) ==
  /\ stage[r] = "handed"
  /\ announced' = announced \union {r}
  /\ Answer(r, 200, acting[r])
  /\ UNCHANGED <<acting, mailpit, accepted, listed, at, kept, reachable>>

\* An address that does not parse, a server that is gone, or its reply lost with it.
SendFails(r) ==
  /\ \/ stage[r] = "send" /\ ~Parses(asks[r].to)
     \/ stage[r] \in {"send", "handed"} /\ ~reachable
  /\ Answer(r, 502, None)
  /\ UNCHANGED mailVars

Newest(limit) == SubSeq(mailpit, 1, IF limit < Len(mailpit) THEN limit ELSE Len(mailpit))

\* Inbox::all: one listing, whatever run sent the messages.
ListAll(r) ==
  /\ stage[r] = "list" /\ reachable
  /\ listed' = [listed EXCEPT ![r] = Newest(asks[r].limit)]
  /\ IF asks[r].all THEN Answer(r, 200, Newest(asks[r].limit)) ELSE Go(r, "headers")
  /\ UNCHANGED <<acting, mailpit, accepted, announced, at, kept, reachable>>

\* Inbox::run_header of the next candidate: kept if it is this run's.
FetchHeader(r) ==
  /\ stage[r] = "headers" /\ at[r] <= Len(listed[r]) /\ reachable
  /\ LET message == listed[r][at[r]]
     IN  /\ message \in Range(mailpit)
         /\ at' = [at EXCEPT ![r] = @ + 1]
         /\ kept' = [kept EXCEPT ![r] = IF message.run = acting[r] THEN Append(@, message) ELSE @]
  /\ UNCHANGED <<requestVars, acting, mailpit, accepted, announced, listed, reachable>>

AllFetched(r) ==
  /\ stage[r] = "headers" /\ at[r] > Len(listed[r])
  /\ Answer(r, 200, kept[r])
  /\ UNCHANGED mailVars

\* One candidate purged meanwhile answers 404 and fails the whole listing, as does a
\* server that went away.
ReadFails(r) ==
  /\ \/ stage[r] \in {"list", "purge"} /\ ~reachable
     \/ /\ stage[r] = "headers" /\ at[r] <= Len(listed[r])
        /\ ~reachable \/ listed[r][at[r]] \notin Range(mailpit)
  /\ Answer(r, 502, None)
  /\ UNCHANGED mailVars

\* Every run's messages go.
Purge(r) ==
  /\ stage[r] = "purge" /\ reachable
  /\ mailpit' = <<>>
  /\ Answer(r, 200, None)
  /\ UNCHANGED <<acting, accepted, announced, listed, at, kept, reachable>>

MailServe(r) ==
  /\ \/ Deliver(r) \/ Confirm(r) \/ SendFails(r)
     \/ ListAll(r) \/ FetchHeader(r) \/ AllFetched(r) \/ ReadFails(r) \/ Purge(r)
  /\ UNCHANGED <<asks, env>>

\* External: mail nobody tagged, and the server going away for good.
ForeignMail ==
  /\ env.foreign /\ reachable /\ mailer = "mailpit"
  /\ \A i \in DOMAIN mailpit : mailpit[i].id # None
  /\ mailpit' = <<[id |-> None, run |-> None]>> \o mailpit
  /\ UNCHANGED <<requestVars, acting, accepted, announced, listed, at, kept, reachable>>

MailServerStops ==
  /\ env.flaky /\ reachable
  /\ reachable' = FALSE
  /\ UNCHANGED <<requestVars, acting, mailpit, accepted, announced, listed, at, kept>>

-----------------------------------------------------------------------------
(* Properties.                                                             *)

Answered(r, op, status) == asks[r].op = op /\ reply[r] # None /\ reply[r].status = status

\* The recipients the list names, said without scanning for the last "@".
Named(address) ==
  \E entry \in env.allowed, k \in DOMAIN address :
    /\ address[k] = "@" /\ "@" \notin Range(SubSeq(address, k + 1, Len(address)))
    /\ CASE entry.kind = "any" -> TRUE
         [] entry.kind = "domain" -> address = SubSeq(address, 1, k) \o entry.of
         [] entry.kind = "address" -> address = entry.of

\* part is what whole has at the positions wanted, in whole's order.
Picks(part, whole, wanted) ==
  \E from \in [DOMAIN part -> DOMAIN whole] :
    /\ \A i, k \in DOMAIN part : i < k => from[i] < from[k]
    /\ {from[i] : i \in DOMAIN part} = wanted
    /\ \A i \in DOMAIN part : part[i] = whole[from[i]]

\* The messages among the first n of r's listing that were sent as the run r asks for.
Ours(r, n) ==
  {i \in 1 .. n : listed[r][i].id # None /\ acting[listed[r][i].id] = acting[r]}

\* Invariant 7 and the allowlist, across restarts, purges and lost replies: a filtered
\* listing is the messages sent as that run, all and only those of the listing it read; a
\* send is announced only if the server has the mail, and answered 200 only if announced;
\* a relay's recipients are all named by the list, and only unnamed ones are refused.
MailTellsTheTruth ==
  \A r \in Requests :
    /\ Answered(r, "list", 200) /\ ~asks[r].all =>
         Picks(reply[r].body, listed[r], Ours(r, Len(listed[r])))
    /\ Answered(r, "list", 200) => ~env.relay
    /\ Answered(r, "send", 200) => r \in announced /\ reply[r].body = acting[r]
    /\ r \in announced => r \in accepted
    /\ r \in accepted => Cardinality({i \in DOMAIN mailpit : mailpit[i].id = r}) <= 1
    /\ r \in accepted /\ env.relay => Named(asks[r].to) /\ mailpit = <<>>
    /\ Answered(r, "send", 403) => env.relay /\ ~Named(asks[r].to)
=============================================================================
