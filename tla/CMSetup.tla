------------------------------- MODULE CMSetup -------------------------------
(***************************************************************************)
(* Connections set up by rdma_cm: gordma's Listen, Accept, Dial and Close. *)
(* A Dial has an event channel of its own. The listener and all the        *)
(* connections accepted from it share one, and Accept takes the next event *)
(* from it twice: for the request, and for the end of the handshake. The   *)
(* event's kind is compared with the one expected, its connection is not.  *)
(*                                                                         *)
(* Client c is a Dial and the connection it asks for, which has an id on   *)
(* either side. The connection manager's handshake is REQ, REP, RTU; it    *)
(* gives up on messages that stay unanswered.                              *)
(*                                                                         *)
(* Operators marked "Defect" are wrong on purpose: each is what a          *)
(* plausible slip would make of the definition below it, and no behaviour  *)
(* uses it.                                                                *)
(***************************************************************************)
EXTENDS Naturals, VerbsObjects

CONSTANTS
  Clients,     \* calls of Dial
  NoClient,
  MaxAccepts   \* bound: calls of Accept, one after the other

ASSUME CMAssumption == NoClient \notin Clients /\ MaxAccepts \in Nat

VARIABLES
  dial,      \* each Dial's place
  has,       \* what each Dial has made
  inbox,     \* events on its channel
  link,      \* how far the handshake of its connection has come
  events,    \* events on the listener's channel, <<kind, client>>
  open,      \* the listener and its channel exist
  acc, cur,  \* Accept's place, and the connection it is working on
  accepts,
  srvHas,    \* what the listener's side has made for each connection
  accepted,  \* connections rdma_accept was called for
  conns,     \* connections Accept has returned, until they are closed
  dropped    \* requests that were taken for another event and dropped

client == <<dial, has, inbox>>
server == <<open, acc, cur, accepts, srvHas, accepted, conns, dropped>>
cmVars == <<client, link, events, server>>

CMInit ==
  /\ dial = [c \in Clients |-> "idle"] /\ has = [c \in Clients |-> {}]
  /\ inbox = [c \in Clients |-> <<>>]
  /\ link = [c \in Clients |-> "none"]
  /\ events = <<>>
  /\ open = TRUE /\ acc = "idle" /\ cur = NoClient /\ accepts = 0
  /\ srvHas = [c \in Clients |-> {}]
  /\ accepted = {} /\ conns = {} /\ dropped = {}

Tell(c, event) == inbox' = [inbox EXCEPT ![c] = Append(@, event)]
Link(c, state) == link' = [link EXCEPT ![c] = state]

\* Defect: the completion queue goes before the queue pair that uses it.
CqBeforeQp == <<"cq", "qp", "pd", "id", "ec">>

CMCloseOrder == <<"qp", "cq", "pd", "id", "ec">>

IdClosed == DestroyAll(CMCloseOrder)

-----------------------------------------------------------------------------
(* buildConn, on an id; what fails is undone.                              *)
BuildLadder == <<"pd", "cq", "qp">>

(* Dial: channel, id, address and route, PD, CQ and QP; what fails is      *)
(* undone.                                                                 *)
DialLadder == <<"ec", "id">> \o BuildLadder

Resolve(c) ==
  /\ dial[c] = "idle"
  /\ \E n \in 0 .. Len(DialLadder) :
       LET made == ToSet(SubSeq(DialLadder, 1, n))
       IN \/ /\ made = ToSet(DialLadder)
             /\ has' = [has EXCEPT ![c] = made]
             /\ dial' = [dial EXCEPT ![c] = "connect"]
          \/ /\ made # ToSet(DialLadder)
             /\ has' = [has EXCEPT ![c] = IdClosed[made]]
             /\ dial' = [dial EXCEPT ![c] = "failed"]
  /\ UNCHANGED <<inbox, link, events, server>>

(* rdma_connect. From here on an error returns with everything still made. *)
RdmaConnect(c) ==
  /\ dial[c] = "connect"
  /\ \/ /\ dial' = [dial EXCEPT ![c] = "wait"]
        /\ Link(c, "requested")
        /\ IF open
             THEN /\ events' = Append(events, <<"CONNECT_REQUEST", c>>)
                  /\ srvHas' = [srvHas EXCEPT ![c] = {"id"}]
             ELSE UNCHANGED <<events, srvHas>>
     \/ /\ dial' = [dial EXCEPT ![c] = "abandoned"]
        /\ UNCHANGED <<link, events, srvHas>>
  /\ UNCHANGED <<has, inbox, open, acc, cur, accepts, accepted, conns, dropped>>

\* Defect: Dial passes over what it does not expect.
UntilEstablished(event) == IF event = "ESTABLISHED" THEN "up" ELSE "wait"

Answered(event) == IF event = "ESTABLISHED" THEN "up" ELSE "abandoned"

AwaitAnswer(c) ==
  /\ dial[c] = "wait" /\ inbox[c] # <<>>
  /\ dial' = [dial EXCEPT ![c] = Answered(Head(inbox[c]))]
  /\ inbox' = [inbox EXCEPT ![c] = Tail(@)]
  /\ UNCHANGED <<has, link, events, server>>

(* The other side hears of a disconnection if it has its id still.         *)
TellServer(c) ==
  events' = IF open /\ "id" \in srvHas[c] THEN Append(events, <<"DISCONNECTED", c>>) ELSE events

CloseDialed(c) ==
  /\ dial[c] = "up"
  /\ dial' = [dial EXCEPT ![c] = "closed"]
  /\ has' = [has EXCEPT ![c] = IdClosed[@]]
  /\ IF link[c] = "dead" THEN UNCHANGED <<link, events>>
                         ELSE Link(c, "dead") /\ TellServer(c)
  /\ UNCHANGED <<inbox, server>>

-----------------------------------------------------------------------------
(* The connection manager. REP makes the Dial's queue pair ready, and RTU  *)
(* the listener's.                                                         *)
RepArrives(c) ==
  /\ link[c] = "replied"
  /\ Link(c, "rtu") /\ Tell(c, "ESTABLISHED")
  /\ UNCHANGED <<dial, has, events, server>>

RtuArrives(c) ==
  /\ link[c] = "rtu"
  /\ Link(c, "done")
  /\ events' = IF open THEN Append(events, <<"ESTABLISHED", c>>) ELSE events
  /\ UNCHANGED <<client, server>>

GiveUp(c) ==
  /\ \/ link[c] = "requested" /\ Tell(c, "UNREACHABLE") /\ UNCHANGED events
     \/ link[c] = "replied" /\ Tell(c, "UNREACHABLE") /\ TellServer(c)
     \/ link[c] = "rtu" /\ TellServer(c) /\ UNCHANGED inbox
  /\ Link(c, "dead")
  /\ UNCHANGED <<dial, has, server>>

CM(c) == RepArrives(c) \/ RtuArrives(c) \/ GiveUp(c)

-----------------------------------------------------------------------------
(* Destroying an id withdraws its events and tells the other side.         *)
Of(c, event) == event[2] = c

Withdraw(c, queue) ==
  LET kept[n \in 0 .. Len(queue)] ==
        IF n = 0 THEN <<>>
        ELSE IF Of(c, queue[n]) THEN kept[n - 1] ELSE Append(kept[n - 1], queue[n])
  IN  kept[Len(queue)]

DropConn(c) ==
  /\ srvHas' = [srvHas EXCEPT ![c] = IdClosed[@]]
  /\ events' = Withdraw(c, events)
  /\ IF link[c] = "dead"
       THEN UNCHANGED <<link, inbox>>
       ELSE Link(c, "dead") /\ Tell(c, IF link[c] = "requested" THEN "REJECTED" ELSE "DISCONNECTED")

\* Defect: the connection is left as it is.
Forget(c) == events' = Tail(events) /\ UNCHANGED <<srvHas, link, inbox>>

(* conn.Close of a connection Accept gives up, the next event being read.  *)
CloseCurrent(c) ==
  /\ srvHas' = [srvHas EXCEPT ![c] = IdClosed[@]]
  /\ events' = Withdraw(c, Tail(events))
  /\ IF link[c] = "dead" THEN UNCHANGED <<link, inbox>>
                         ELSE Link(c, "dead") /\ Tell(c, "DISCONNECTED")

AcceptCall ==
  /\ acc = "idle" /\ open /\ accepts < MaxAccepts
  /\ acc' = "request" /\ accepts' = accepts + 1
  /\ UNCHANGED <<client, link, events, open, cur, srvHas, accepted, conns, dropped>>

\* Defect: the kind of the event is not compared.
AnyKind(event, want) == TRUE

(* getCMEvent: another event than the one wanted is an error, and is gone. *)
IsWanted(event, want) == event[1] = want

GetRequest ==
  /\ acc = "request" /\ events # <<>>
  /\ IF IsWanted(Head(events), "CONNECT_REQUEST")
       THEN acc' = "build" /\ cur' = Head(events)[2]
       ELSE acc' = "idle" /\ UNCHANGED cur
  /\ events' = Tail(events)
  /\ UNCHANGED <<client, link, open, accepts, srvHas, accepted, conns, dropped>>

BuildAccepted ==
  /\ acc = "build"
  /\ \/ /\ acc' = "accept"
        /\ srvHas' = [srvHas EXCEPT ![cur] = @ \cup ToSet(BuildLadder)]
        /\ UNCHANGED <<cur, inbox, link, events>>
     \/ acc' = "idle" /\ cur' = NoClient /\ DropConn(cur)
  /\ UNCHANGED <<dial, has, open, accepts, accepted, conns, dropped>>

(* rdma_accept fails at any time, and if the request is no more.           *)
RdmaAccept ==
  /\ acc = "accept"
  /\ \/ /\ link[cur] = "requested"
        /\ Link(cur, "replied") /\ accepted' = accepted \cup {cur}
        /\ acc' = "established"
        /\ UNCHANGED <<cur, srvHas, events, inbox>>
     \/ acc' = "idle" /\ cur' = NoClient /\ DropConn(cur) /\ UNCHANGED accepted
  /\ UNCHANGED <<dial, has, open, accepts, conns, dropped>>

(* getCMEvent for ESTABLISHED, of whichever connection.                    *)
GetEstablished ==
  /\ acc = "established" /\ events # <<>>
  /\ acc' = "idle" /\ cur' = NoClient
  /\ IF IsWanted(Head(events), "ESTABLISHED")
       THEN /\ conns' = conns \cup {cur} /\ events' = Tail(events)
            /\ UNCHANGED <<dropped, srvHas, link, inbox>>
       ELSE /\ dropped' = dropped \cup
                 {c \in Clients : Head(events) = <<"CONNECT_REQUEST", c>>}
            /\ CloseCurrent(cur)
            /\ UNCHANGED conns
  /\ UNCHANGED <<dial, has, open, accepts, accepted>>

Accept == GetRequest \/ BuildAccepted \/ RdmaAccept \/ GetEstablished

CloseAccepted(c) ==
  /\ c \in conns
  /\ conns' = conns \ {c}
  /\ DropConn(c)
  /\ UNCHANGED <<dial, has, open, acc, cur, accepts, accepted, dropped>>

(* Listener.Close destroys the channel, and with it the kernel ends every  *)
(* connection on it, accepted or not. An Accept in progress sleeps on.     *)
Ended == {c \in Clients : link[c] \notin {"none", "dead"} /\ srvHas[c] # {}}

ListenerClose ==
  /\ open
  /\ open' = FALSE /\ events' = <<>>
  /\ link' = [c \in Clients |-> IF c \in Ended THEN "dead" ELSE link[c]]
  /\ inbox' = [c \in Clients |->
                 IF c \in Ended THEN Append(inbox[c], "DISCONNECTED") ELSE inbox[c]]
  /\ UNCHANGED <<dial, has, acc, cur, accepts, srvHas, accepted, conns, dropped>>

-----------------------------------------------------------------------------
CMNext ==
  \/ \E c \in Clients :
       \/ Resolve(c) \/ RdmaConnect(c) \/ AwaitAnswer(c) \/ CloseDialed(c)
       \/ CM(c) \/ CloseAccepted(c)
  \/ AcceptCall \/ Accept \/ ListenerClose

CMSpec == CMInit /\ [][CMNext]_cmVars

(* Calls go on, and the connection manager answers or gives up.            *)
CMFairSpec ==
  /\ CMSpec
  /\ \A c \in Clients : WF_cmVars(RdmaConnect(c) \/ AwaitAnswer(c)) /\ WF_cmVars(CM(c))
  /\ WF_cmVars(Accept)

-----------------------------------------------------------------------------
(* The types; what Accept works on it has not returned yet.                *)
CMTypeOK ==
  /\ dial \in [Clients -> {"idle", "connect", "wait", "up", "failed", "abandoned", "closed"}]
  /\ link \in [Clients -> {"none", "requested", "replied", "rtu", "done", "dead"}]
  /\ \A c \in Clients :
       /\ has[c] \subseteq {"ec", "id", "pd", "cq", "qp"}
       /\ srvHas[c] \subseteq {"id", "pd", "cq", "qp"}
       /\ Len(inbox[c]) <= 2
  /\ acc \in {"idle", "request", "build", "accept", "established"}
  /\ cur \in Clients \cup {NoClient}
  /\ cur = NoClient <=> acc \in {"idle", "request"}
  /\ cur \notin conns /\ conns \subseteq accepted
  /\ accepts \in 0 .. MaxAccepts

(* cm_linux.go:221-222: a Dial that returns a connection was accepted.     *)
DialedIsAccepted == \A c \in Clients : dial[c] \in {"up", "closed"} => c \in accepted

(* cm_linux.go:190-191: Accept completes the establishment of the          *)
(* connection it returns: the Dial has been told, although the event read  *)
(* last may be any connection's.                                           *)
AcceptedIsEstablished ==
  \A c \in conns :
    dial[c] \in {"up", "closed"} \/ (inbox[c] # <<>> /\ Head(inbox[c]) = "ESTABLISHED")

(* A connection that either end has returned exists at both of them.       *)
ReturnedIsEstablished == DialedIsAccepted /\ AcceptedIsEstablished

(* cm_linux.go:142-156, 158-219: what is made for a connection belongs to  *)
(* the request in the queue, the Accept in progress or the connection      *)
(* returned, but for requests Accept has dropped (and those on a channel   *)
(* that is gone); a Dial that fails before rdma_connect holds nothing, nor *)
(* does a closed one.                                                      *)
CMNothingLeaks ==
  \A c \in Clients :
    /\ dial[c] \in {"failed", "closed"} => has[c] = {}
    /\ open /\ srvHas[c] # {} =>
         \/ c \in conns \cup dropped \cup {cur}
         \/ \E i \in 1 .. Len(events) : events[i] = <<"CONNECT_REQUEST", c>>
    /\ srvHas[c] \ {"id"} # {} => c \in conns \cup {cur}

(* cm_linux.go:221-222, 190-191: a Dial returns; and so does an Accept that*)
(* has a request, unless the listener is closed under it.                  *)
CMCallsReturn ==
  /\ \A c \in Clients : (dial[c] \in {"connect", "wait"}) ~> (dial[c] \in {"up", "abandoned"})
  /\ (acc \in {"build", "accept", "established"}) ~> (acc = "idle" \/ ~open)
=============================================================================
