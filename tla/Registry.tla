------------------------------ MODULE Registry ------------------------------
(***************************************************************************)
(* The UD name registry (rdmanet/registry.go): clients that register and   *)
(* look up over TCP, one connection per call; the accept loop and one      *)
(* handler goroutine per connection, who share the table under a mutex;    *)
(* and goroutines that call Close. Every read has a deadline, so a call    *)
(* may fail at either end while the other goes on; Accept may fail; and a  *)
(* client's host may vanish without closing its connection.                *)
(*                                                                         *)
(* A request is written and read whole. The clients of the package send    *)
(* no malformed request and no unknown op.                                 *)
(*                                                                         *)
(* Operators marked "Defect" are wrong on purpose: each is what a          *)
(* plausible slip would make of the definition below it, and no behaviour  *)
(* uses it.                                                                *)
(***************************************************************************)
EXTENDS Naturals, FiniteSets

CONSTANTS
  Clients,   \* goroutines that call Register or LookupAddr
  Calls,     \* bound: calls of each
  Names, Addrs, NoName, None,
  Closers,   \* goroutines that may call Registry.Close
  Scenes     \* what they do, one record per scene

(* One TCP connection per call. *)
Conns == Clients \X (1 .. Calls)

Requests == [op : {"register"}, name : Names \cup {NoName}, addr : Addrs]
            \cup [op : {"lookup"}, name : Names \cup {NoName}]

(* A scene: what each call asks for (a client may have fewer calls), and   *)
(* who may close the registry.                                             *)
ASSUME RegistryAssumption ==
  /\ Calls \in Nat /\ NoName \notin Names
  /\ None \notin Addrs \cup Requests
  /\ None \notin {"ok", "missing name", "not found", "error"}
  /\ \A sc \in Scenes :
       /\ DOMAIN sc.asks \subseteq Conns
       /\ \A k \in DOMAIN sc.asks : sc.asks[k] \in Requests
       /\ sc.closers \subseteq Closers

VARIABLES
  scene,    \* the scene being played; never changes
  cli,      \* cli[k]: the client's end: "none", "open", "closed", or
            \* "vanished" with its host
  sent,     \* connections whose client has written its request
  srv,      \* srv[k]: the server's end: "none", "backlog", "reading",
            \* "replying", "closed"
  request,  \* request[k]: the request of call k
  reply,    \* reply[k]: the handler's response
  answer,   \* answer[k]: what call k returned
  tbl,      \* Registry.tbl
  done,     \* Registry.done is closed
  ln,       \* the listener is open
  loop,     \* the accept loop: "accept" or "ended"
  closer    \* closer[g]: "idle", "close", "ln", "returned", "panic"

client == <<cli, sent, request, answer>>
server == <<srv, reply, tbl, loop>>
closing == <<done, ln, closer>>
registryVars == <<scene, client, server, closing>>

RegistryInit ==
  /\ scene \in Scenes
  /\ cli = [k \in Conns |-> "none"] /\ srv = [k \in Conns |-> "none"]
  /\ sent = {}
  /\ request = [k \in Conns |-> None] /\ reply = [k \in Conns |-> None]
  /\ answer = [k \in Conns |-> None]
  /\ tbl = [n \in Names |-> None]
  /\ done = FALSE /\ ln = TRUE /\ loop = "accept"
  /\ closer = [g \in Closers |-> "idle"]

-----------------------------------------------------------------------------
(* The client: registryRoundTrip. *)

Free(c, n) == n > 1 => cli[<<c, n - 1>>] = "closed"

(* The kernel completes the connection while the listener is open, whether *)
(* or not the accept loop is there to take it. A refused one is closed.    *)
Dial(k) ==
  /\ k \in DOMAIN scene.asks /\ cli[k] = "none" /\ Free(k[1], k[2])
  /\ request' = [request EXCEPT ![k] = scene.asks[k]]
  /\ cli' = [cli EXCEPT ![k] = "open"]
  /\ srv' = [srv EXCEPT ![k] = IF ln THEN "backlog" ELSE "closed"]
  /\ UNCHANGED <<scene, sent, answer, reply, tbl, loop, closing>>

Send(k) ==
  /\ cli[k] = "open" /\ k \notin sent
  /\ sent' = sent \cup {k}
  /\ UNCHANGED <<scene, cli, request, answer, server, closing>>

Return(k, a) ==
  /\ cli[k] = "open"
  /\ cli' = [cli EXCEPT ![k] = "closed"]
  /\ answer' = [answer EXCEPT ![k] = a]
  /\ UNCHANGED <<scene, sent, request, server, closing>>

\* Defect: takes the end of the connection for an answer.
AnswerOk(k) == "ok"

(* The bytes of the response come before the end of the connection.        *)
Answer(k) == IF reply[k] = None THEN "error" ELSE reply[k]

Receive(k) == k \in sent /\ srv[k] = "closed" /\ Return(k, Answer(k))

(* Any of the deadlines passes, or the connection is reset.                *)
GiveUp(k) == Return(k, "error")

Client(k) == Send(k) \/ Receive(k) \/ GiveUp(k)

Vanish(k) ==
  /\ cli[k] = "open"
  /\ cli' = [cli EXCEPT ![k] = "vanished"]
  /\ UNCHANGED <<scene, sent, request, answer, server, closing>>

-----------------------------------------------------------------------------
(* The server: serve and handle. *)

Accept(k) ==
  /\ loop = "accept" /\ ln /\ srv[k] = "backlog"
  /\ srv' = [srv EXCEPT ![k] = "reading"]
  /\ UNCHANGED <<scene, client, reply, tbl, loop, closing>>

(* Any error ends the loop: the listener was closed, or was not.           *)
AcceptFails ==
  /\ loop = "accept"
  /\ loop' = "ended"
  /\ UNCHANGED <<scene, client, srv, reply, tbl, closing>>

Found(r) ==
  IF r.name = NoName \/ tbl[r.name] = None THEN "not found" ELSE tbl[r.name]

(* Under r.mu. What the client has sent can be read, whatever became of    *)
(* the client since.                                                       *)
Apply(k) ==
  LET r == request[k] IN
  /\ srv[k] = "reading" /\ k \in sent
  /\ srv' = [srv EXCEPT ![k] = "replying"]
  /\ \/ /\ r.op = "register" /\ r.name = NoName
        /\ reply' = [reply EXCEPT ![k] = "missing name"]
        /\ UNCHANGED tbl
     \/ /\ r.op = "register" /\ r.name # NoName
        /\ reply' = [reply EXCEPT ![k] = "ok"]
        /\ tbl' = [tbl EXCEPT ![r.name] = r.addr]
     \/ /\ r.op = "lookup"
        /\ reply' = [reply EXCEPT ![k] = Found(r)]
        /\ UNCHANGED tbl
  /\ UNCHANGED <<scene, client, loop, closing>>

(* writeRegistryResponse ignores its errors; handle closes the connection. *)
Reply(k) ==
  /\ srv[k] = "replying"
  /\ srv' = [srv EXCEPT ![k] = "closed"]
  /\ UNCHANGED <<scene, client, reply, tbl, loop, closing>>

\* Defect: no read deadline.
ReadEndsByClose(k) == cli[k] = "closed"

(* The client closes, or, whatever it does, the read deadline passes.      *)
ReadEnds(k) == cli[k] \in {"open", "closed", "vanished"}

ReadFails(k) ==
  /\ srv[k] = "reading" /\ ReadEnds(k)
  /\ srv' = [srv EXCEPT ![k] = "closed"]
  /\ UNCHANGED <<scene, client, reply, tbl, loop, closing>>

Handler(k) == Apply(k) \/ Reply(k) \/ ReadFails(k)

-----------------------------------------------------------------------------
(* Registry.Close: the test of r.done and its close are two steps. The     *)
(* connections nobody has accepted go with the listener.                   *)
CloseCall(g) ==
  /\ g \in scene.closers /\ closer[g] = "idle"
  /\ closer' = [closer EXCEPT ![g] = IF done THEN "ln" ELSE "close"]
  /\ UNCHANGED <<scene, client, server, done, ln>>

CloseDone(g) ==
  /\ closer[g] = "close"
  /\ done' = TRUE
  /\ closer' = [closer EXCEPT ![g] = IF done THEN "panic" ELSE "ln"]
  /\ UNCHANGED <<scene, client, server, ln>>

CloseListener(g) ==
  /\ closer[g] = "ln"
  /\ ln' = FALSE
  /\ closer' = [closer EXCEPT ![g] = "returned"]
  /\ srv' = [k \in Conns |-> IF srv[k] = "backlog" THEN "closed" ELSE srv[k]]
  /\ UNCHANGED <<scene, client, reply, tbl, loop, done>>

Closer(g) == CloseDone(g) \/ CloseListener(g)

RegistryNext ==
  \/ \E k \in Conns : \/ Dial(k) \/ Client(k) \/ Vanish(k)
                      \/ Accept(k) \/ Handler(k)
  \/ AcceptFails
  \/ \E g \in Closers : CloseCall(g) \/ Closer(g)

RegistrySpec == RegistryInit /\ [][RegistryNext]_registryVars

(* Goroutines run on and deadlines pass; who calls is free, and so is      *)
(* whether Accept fails while the listener is open.                        *)
RegistryFairSpec ==
  /\ RegistrySpec
  /\ \A k \in Conns : WF_registryVars(Client(k)) /\ WF_registryVars(Handler(k))
  /\ WF_registryVars((\E k \in Conns : Accept(k)) \/ (AcceptFails /\ ~ln))
  /\ \A g \in Closers : WF_registryVars(Closer(g))

-----------------------------------------------------------------------------
(* registry.go:37-38 "an in-memory name->Addr directory ... safe for       *)
(* concurrent clients": whatever deadlines pass, connections break and     *)
(* handlers overlap, each call takes effect at most once, "ok" is only     *)
(* returned after it has, and a lookup returns what the table held then.   *)
D == INSTANCE Directory WITH table <- tbl, effect <- reply

ImplementsDirectory == D!Spec

(* Nothing hangs: a call of a client returns, a handler ends although its  *)
(* client has vanished, Close returns (or, called twice at once, may       *)
(* panic), and once it has the accept loop ends (registry.go:65 "Close     *)
(* stops the registry server").                                            *)
EverythingEnds ==
  /\ \A k \in Conns :
       /\ (cli[k] = "open") ~> (cli[k] # "open")
       /\ (srv[k] \in {"reading", "replying"}) ~> (srv[k] = "closed")
  /\ \A g \in Closers :
       (closer[g] # "idle") ~> (\/ closer[g] = "panic"
                                \/ closer[g] = "returned" /\ loop = "ended")
=============================================================================
