------------------------------ MODULE ConnSetup ------------------------------
(***************************************************************************)
(* Connections set up over TCP: rdmanet's Conn and RawConn and perftest's  *)
(* SetupTCP. A call of Dial or Accept builds its verbs objects, exchanges  *)
(* endpoint information with one call of the other side over a TCP         *)
(* connection, and drives its queue pair to RTS; each of these may fail,   *)
(* and then the call takes down what it has built. A Conn's life follows:  *)
(* the transport built by the first call on it, and Close.                 *)
(*                                                                         *)
(* A call stands for its endpoint information (queue pair number, PSN,     *)
(* GID, key). The TCP connection of a Dial is known by the Dial. Only the  *)
(* RC transport of perftest is here.                                       *)
(*                                                                         *)
(* Operators marked "Defect" are wrong on purpose: each is what a          *)
(* plausible slip would make of the definition below it, and no behaviour  *)
(* uses it.                                                                *)
(***************************************************************************)
EXTENDS Naturals, VerbsObjects

CONSTANTS
  Dialers,  \* calls of Dial, one connection each
  Accepts,  \* calls of Accept
  NoOne,
  Scenes    \* what may run: a kind of set-up, the calls that are made, and
            \* those of them whose Conn is then used and closed

ASSUME SetupAssumption ==
  /\ Dialers \cap Accepts = {} /\ NoOne \notin Dialers \cup Accepts
  /\ Scenes \subseteq [kind  : {"Conn", "EventConn", "RawConn", "perftest"},
                       calls : SUBSET (Dialers \cup Accepts),
                       users : SUBSET (Dialers \cup Accepts)]

Calls == Dialers \cup Accepts

VARIABLES
  scene,
  pc,
  held,       \* the verbs objects each call's endpoint has
  qp,         \* the state of its queue pair
  peer,       \* whose information it has read
  listening,  \* the TCP listener is open
  backlog,    \* Dials that wait to be accepted
  served,     \* the Dial whose connection an Accept took
  wrote,      \* calls whose information is in their connection
  use,        \* the first call on a user's Conn, as far as it has come
  tr,         \* Conn.tr is set
  closing,    \* Close of a user's Conn, likewise
  left,       \* what that Close has still to destroy
  raced       \* Close looked for the transport while it was being built

tcp  == <<listening, backlog, served, wrote>>
kind == scene.kind

life == <<use, tr, closing, left, raced>>
vars == <<scene, pc, held, qp, peer, tcp, life>>

Init ==
  /\ scene \in Scenes
  /\ pc = [p \in Calls |-> "idle"]
  /\ held = [p \in Calls |-> {}]
  /\ qp = [p \in Calls |-> "none"]
  /\ peer = [p \in Calls |-> NoOne]
  /\ listening = (kind # "perftest") /\ backlog = {}
  /\ served = [a \in Accepts |-> NoOne] /\ wrote = {}
  /\ use = [u \in Calls |-> "none"] /\ tr = [u \in Calls |-> FALSE]
  /\ closing = [u \in Calls |-> "open"] /\ left = [u \in Calls |-> <<>>]
  /\ raced = [u \in Calls |-> FALSE]

Go(p, place) == pc' = [pc EXCEPT ![p] = place]

-----------------------------------------------------------------------------
(* The verbs objects, in the order they are made and destroyed.            *)
ConnLadder(channel) == <<"ctx", "pd">> \o channel \o <<"cq", "qp", "mr">>

Device == <<"ctx", "pd">>

RawLadder == Device \o <<"cq", "qp">>

PerftestLadder == <<"ctx", "pd", "cq", "mr", "qp">>

Ladder ==
  CASE kind = "Conn"      -> ConnLadder(<<>>)
    [] kind = "EventConn" -> ConnLadder(<<"ch">>)
    [] kind = "RawConn"   -> RawLadder
    [] kind = "perftest"  -> PerftestLadder

\* Defect: the completion queue goes before the queue pair that uses it.
CqFirst == <<"mr", "cq", "qp", "ch", "pd", "ctx">>

CloseOrder == <<"mr", "qp", "cq", "ch", "pd", "ctx">>

RawCloseOrder == <<"qp", "cq", "pd", "ctx">>

EndpointCloseOrder == <<"qp", "cq", "pd", "ctx">>

ConnClosed     == DestroyAll(CloseOrder)
RawClosed      == DestroyAll(RawCloseOrder)
PerftestClosed == DestroyAll(<<"mr">> \o EndpointCloseOrder)

(* What is left when the objects made so far have been closed.             *)
Closed(objects) ==
  CASE kind = "RawConn"  -> RawClosed[objects]
    [] kind = "perftest" -> PerftestClosed[objects]
    [] OTHER             -> ConnClosed[objects]

(* An error return: what was built is closed.                              *)
Fail(p) ==
  /\ Go(p, "failed")
  /\ held' = [held EXCEPT ![p] = Closed(@)]
  /\ qp' = [qp EXCEPT ![p] = "none"]
  /\ UNCHANGED peer

\* Defect: the listener stays open.
LeaveOpen(p) == UNCHANGED <<listening, backlog>>

(* The listener of perftest lives as long as one exchange; whoever was     *)
(* still waiting in its backlog is reset.                                  *)
EndExchange(p) ==
  IF kind = "perftest" /\ p \in Accepts
    THEN listening' = FALSE /\ backlog' = {}
    ELSE UNCHANGED <<listening, backlog>>

-----------------------------------------------------------------------------
(* Building: any step of the ladder may fail.                              *)
Build(p) ==
  /\ p \in scene.calls /\ pc[p] = "idle"
  /\ \E n \in 0 .. Len(Ladder) :
       LET made == ToSet(SubSeq(Ladder, 1, n))
       IN IF n < Len(Ladder)
            THEN /\ Go(p, "failed")
                 /\ held' = [held EXCEPT ![p] = Closed(made)]
                 /\ UNCHANGED qp
            ELSE /\ Go(p, IF p \in Dialers THEN "dial"
                          ELSE IF kind = "perftest" THEN "bind" ELSE "accept")
                 /\ held' = [held EXCEPT ![p] = made]
                 /\ qp' = [qp EXCEPT ![p] = "reset"]
  /\ UNCHANGED <<scene, peer, tcp, life>>

(* perftest listens on its port for each set-up; two at once is an error.  *)
Bind(a) ==
  /\ pc[a] = "bind"
  /\ IF listening THEN Fail(a) /\ UNCHANGED listening
                  ELSE /\ Go(a, "accept") /\ listening' = TRUE
                       /\ UNCHANGED <<held, qp, peer>>
  /\ UNCHANGED <<scene, backlog, served, wrote, life>>

(* The kernel accepts the connection; it may wait in the backlog.          *)
Connect(d) ==
  /\ pc[d] = "dial"
  /\ \/ /\ listening
        /\ backlog' = backlog \cup {d}
        /\ Go(d, "write") /\ UNCHANGED <<held, qp, peer>>
     \/ Fail(d) /\ UNCHANGED backlog
  /\ UNCHANGED <<scene, listening, served, wrote, life>>

(* Accept takes a connection, whether or not its Dial still waits.         *)
Take(a) ==
  /\ pc[a] = "accept"
  /\ \/ \E d \in backlog :
          /\ listening
          /\ served' = [served EXCEPT ![a] = d]
          /\ backlog' = backlog \ {d}
          /\ Go(a, "write") /\ UNCHANGED <<held, qp, peer>>
     \/ ~listening /\ Fail(a) /\ UNCHANGED <<served, backlog>>
  /\ UNCHANGED <<scene, listening, wrote, life>>

(* exchange: write the local information, then read the peer's. The TCP    *)
(* connection may break at any time.                                       *)
Write(p) ==
  /\ pc[p] = "write"
  /\ \/ /\ wrote' = wrote \cup {p}
        /\ Go(p, "read") /\ UNCHANGED <<held, qp, peer, listening, backlog>>
     \/ Fail(p) /\ EndExchange(p) /\ UNCHANGED wrote
  /\ UNCHANGED <<scene, served, life>>

\* Who is at the other end of p's connection.
Opposite(p) ==
  IF p \in Accepts THEN {served[p]} \ {NoOne} ELSE {a \in Accepts : served[a] = p}

\* Defect: what is read is what was written.
Echo(p) == wrote \cap {p}

Information(p) == wrote \cap Opposite(p)

\* Defect: no deadline.
NoDeadline(p) == FALSE

\* The deadline of the read passes, or the connection ends.
ReadFails(p) == TRUE

Read(p) ==
  /\ pc[p] = "read"
  /\ \/ \E q \in Information(p) :
          /\ peer' = [peer EXCEPT ![p] = q]
          /\ Go(p, "bringUp") /\ UNCHANGED <<held, qp>>
     \/ ReadFails(p) /\ Fail(p)
  /\ EndExchange(p)
  /\ UNCHANGED <<scene, served, wrote, life>>

(* ModifyToInit, ModifyToRTR, ModifyToRTS; an error closes the endpoint,   *)
(* whatever the peer does.                                                 *)
Above == [reset |-> "init", init |-> "rtr", rtr |-> "rts"]

BringUp(p) ==
  /\ pc[p] = "bringUp"
  /\ \/ /\ qp' = [qp EXCEPT ![p] = Above[@]]
        /\ IF qp[p] = "rtr" THEN Go(p, "up") ELSE UNCHANGED pc
        /\ UNCHANGED <<held, peer>>
     \/ Fail(p)
  /\ UNCHANGED <<scene, tcp, life>>

SetUp(p) ==
  \/ p \in Dialers /\ Connect(p)
  \/ p \in Accepts /\ (Bind(p) \/ Take(p))
  \/ Write(p) \/ Read(p) \/ BringUp(p)

(* Listener.Close: Accept returns, and the backlog is reset.               *)
CloseListener ==
  /\ kind # "perftest" /\ listening
  /\ listening' = FALSE /\ backlog' = {}
  /\ UNCHANGED <<scene, pc, held, qp, peer, served, wrote, life>>

-----------------------------------------------------------------------------
(* The first call on a Conn: Conn.transport, under trOnce.                 *)
Use(u, place) == use' = [use EXCEPT ![u] = place]

FirstCall(u) ==
  /\ u \in scene.users /\ kind \in {"Conn", "EventConn"}
  /\ pc[u] = "up" /\ use[u] = "none"
  /\ Use(u, IF closing[u] = "open" THEN "sendMR" ELSE "done")
  /\ UNCHANGED <<scene, pc, held, qp, peer, tcp, tr, closing, left, raced>>

\* Close has set the Conn's field to nil.
Nil(u, r) == closing[u] \in {"closing", "done"} /\ ~Contains(left[u], r)

(* newTransport: register the two rings and post the RECVs. With an error  *)
(* it closes the rings and Conn.transport returns the error ever after.    *)
NewTransport(u) ==
  LET abandon == /\ Use(u, "done")
                 /\ held' = [held EXCEPT ![u] = @ \ {"sendMR", "recvMR"}]
                 /\ UNCHANGED tr
  IN /\ \/ /\ use[u] = "sendMR" /\ ~Nil(u, "qp") /\ ~Nil(u, "cq") /\ ~Nil(u, "pd")
           /\ "pd" \in held[u]
           /\ held' = [held EXCEPT ![u] = @ \cup {"sendMR"}]
           /\ Use(u, "recvMR") /\ UNCHANGED tr
        \/ /\ use[u] = "recvMR" /\ "pd" \in held[u]
           /\ held' = [held EXCEPT ![u] = @ \cup {"recvMR"}]
           /\ Use(u, "post") /\ UNCHANGED tr
        \/ /\ use[u] = "post" /\ "qp" \in held[u]
           /\ tr' = [tr EXCEPT ![u] = TRUE]
           /\ Use(u, "done") /\ UNCHANGED held
        \/ use[u] \in {"sendMR", "recvMR", "post"} /\ abandon
     /\ UNCHANGED <<scene, pc, qp, peer, tcp, closing, left, raced>>

(* Close: mark the Conn, shut down the transport if there is one, and      *)
(* destroy the rest.                                                       *)
Mark(u) ==
  /\ u \in scene.users /\ kind \in {"Conn", "EventConn"}
  /\ pc[u] = "up" /\ closing[u] = "open"
  /\ closing' = [closing EXCEPT ![u] = "marked"]
  /\ UNCHANGED <<scene, pc, held, qp, peer, tcp, use, tr, left, raced>>

Rings == {"sendMR", "recvMR"}

(* shutdown first sends a FIN, which takes a control slot; with none free  *)
(* it waits until one comes back or the transport fails.                   *)
WaitForSlot(u) ==
  /\ closing[u] = "marked" /\ tr[u]
  /\ closing' = [closing EXCEPT ![u] = "waiting"]
  /\ UNCHANGED <<scene, pc, held, qp, peer, tcp, use, tr, left, raced>>

Shutdown(u) ==
  /\ closing[u] \in {"marked", "waiting"}
  /\ held' = [held EXCEPT ![u] = IF tr[u] THEN @ \ Rings ELSE @]
  /\ raced' = [raced EXCEPT ![u] = use[u] \in {"sendMR", "recvMR", "post"}]
  /\ left' = [left EXCEPT ![u] = CloseOrder]
  /\ closing' = [closing EXCEPT ![u] = "closing"]
  /\ UNCHANGED <<scene, pc, qp, peer, tcp, use, tr>>

CloseNext(u) ==
  /\ closing[u] = "closing"
  /\ IF left[u] = <<>>
       THEN /\ closing' = [closing EXCEPT ![u] = "done"]
            /\ UNCHANGED <<held, qp, left>>
       ELSE /\ held' = [held EXCEPT ![u] = Destroy(@, Head(left[u]))]
            /\ left' = [left EXCEPT ![u] = Tail(@)]
            /\ qp' = IF "qp" \in held'[u] THEN qp ELSE [qp EXCEPT ![u] = "none"]
            /\ UNCHANGED closing
  /\ UNCHANGED <<scene, pc, peer, tcp, use, tr, raced>>

Close(u) == WaitForSlot(u) \/ Shutdown(u) \/ CloseNext(u)

-----------------------------------------------------------------------------
Next ==
  \/ \E p \in Calls : Build(p) \/ SetUp(p)
  \/ CloseListener
  \/ \E u \in Calls : FirstCall(u) \/ NewTransport(u) \/ Mark(u) \/ Close(u)

Spec == Init /\ [][Next]_vars

(* A call that has begun goes on; deadlines pass. No control slot need     *)
(* ever come back.                                                         *)
FairSpec ==
  /\ Spec
  /\ \A p \in Calls : /\ WF_vars(SetUp(p)) /\ WF_vars(NewTransport(p))
                      /\ WF_vars(closing[p] # "waiting" /\ Close(p))

-----------------------------------------------------------------------------
(* The types, and that perftest listens during an exchange only.           *)
Objects == {"ctx", "pd", "ch", "cq", "qp", "mr", "sendMR", "recvMR"}

TypeOK ==
  /\ pc \in [Calls -> {"idle", "bind", "dial", "accept", "write", "read", "bringUp", "up", "failed"}]
  /\ \A p \in Calls : held[p] \subseteq Objects
  /\ qp \in [Calls -> {"none", "reset", "init", "rtr", "rts"}]
  /\ peer \in [Calls -> Calls \cup {NoOne}]
  /\ backlog \subseteq Dialers /\ wrote \subseteq Calls
  /\ served \in [Accepts -> Dialers \cup {NoOne}]
  /\ use \in [Calls -> {"none", "sendMR", "recvMR", "post", "done"}]
  /\ closing \in [Calls -> {"open", "marked", "waiting", "closing", "done"}]
  /\ kind = "perftest" /\ listening =>
       \E a \in Accepts : pc[a] \in {"accept", "write", "read"}

(* handshake.go:14-15, rdmanet's handshake_test.go:11-15: each side gets   *)
(* the information of the other. A queue pair on its way to RTS is         *)
(* connected to one of the other side, which, if it has a peer, has this   *)
(* one; and no two queue pairs are connected to the same.                  *)
Paired ==
  \A p \in Calls : peer[p] # NoOne =>
    /\ p \in Dialers <=> peer[p] \in Accepts
    /\ peer[peer[p]] \in {p, NoOne}
    /\ \A q \in Calls : peer[q] = peer[p] => q = p

(* handshake_linux.go:28-37, setup.go:121-125: a call that fails, in       *)
(* whichever step, leaves no verbs object behind.                          *)
FailedHoldsNothing == \A p \in Calls : pc[p] = "failed" => held[p] = {}

(* conn_linux.go:361-366: Close releases everything, the transport's rings *)
(* included. Not if a first call builds them while Close looks for them:   *)
(* the two run under different Onces.                                      *)
ClosedHoldsNothing ==
  \A u \in Calls : closing[u] = "done" /\ ~raced[u] => held[u] = {}

(* Whatever step fails and however a Conn ends, its objects are destroyed, *)
(* in an order in which none is still needed by another.                   *)
NothingLeaks == FailedHoldsNothing /\ ClosedHoldsNothing

(* handshake_linux.go:13-14: the exchange is bounded. A Dial returns; an   *)
(* Accept returns once it has a connection or its listener is closed; and  *)
(* Close returns, except one whose FIN waits for a control slot            *)
(* (transport_linux.go:552-558): that has no bound.                        *)
Bounded(p) ==
  \/ pc[p] \in {"bind", "dial", "write", "read", "bringUp"}
  \/ pc[p] = "accept" /\ ~listening
  \/ closing[p] \in {"marked", "closing"}

CallsReturn == \A p \in Calls : []<>~Bounded(p)
=============================================================================
