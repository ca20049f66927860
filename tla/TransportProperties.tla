------------------------- MODULE TransportProperties -------------------------
(***************************************************************************)
(* What must hold of the RC data path modelled in Transport, and the maps  *)
(* under which each direction of it implements CreditFlow and              *)
(* MessageStream.                                                          *)
(***************************************************************************)
EXTENDS Transport, FiniteSets

(* How much of `what` a frame carries, and how much the frames of a        *)
(* sequence after the m-th do: data frames, last frames of a message,      *)
(* control frames, or credits, counted as cells <<frame, unit>>.           *)
Carries(fr, what) ==
  CASE what = "data"   -> IF fr.kind = "data" THEN 1 ELSE 0
    [] what = "last"   -> IF fr.kind = "data" /\ ~fr.more THEN 1 ELSE 0
    [] what = "ctl"    -> IF fr.kind # "data" THEN 1 ELSE 0
    [] what = "credit" -> IF fr.kind = "credit" THEN fr.n ELSE 0

Cells(seq, m, what) ==
  UNION {{i} \X (1 .. Carries(seq[i], what)) : i \in m + 1 .. Len(seq)}

Amount(seq, m, what) == Cardinality(Cells(seq, m, what))

(* On the send queue of e, and of that what has not landed yet.            *)
Queued(e, what)   == Amount(nic[e].sq, 0, what)
InFlight(e, what) == Amount(nic[e].sq, nic[e].landed, what)
Arrived(e, what)  == Amount(nic[e].inbox, 0, what)

Token(e) == IF plr[e].pc = "token" THEN 1 ELSE 0

(* The messages e may send, as <<call, index>>. *)
Sent(e) == UNION {{<<c, k>> : k \in DOMAIN Script[e][c]} : c \in DOMAIN Script[e]}

Broken == \E e \in Peers : tp[e].closed \/ cls[e] # "open"

-----------------------------------------------------------------------------
(* Types of the state; the counts stay within their channels.              *)
DataFrames == [kind : {"data"}, data : Seq(Nat \X Nat \X Nat), more : BOOLEAN]
Frames     == DataFrames \cup [kind : {"credit"}, n : 1 .. Depth] \cup {FinFrame}

TypeOK ==
  /\ scene \in Scenes
  /\ \A e \in Peers :
       /\ snd[e].pc \in {"idle", "drain", "acquire", "post", "wait"}
       /\ snd[e].call \in 0 .. Len(Script[e]) /\ snd[e].owed \in Int
       /\ rcv[e].pc \in {"idle", "drain", "block", "try", "end", "credit",
                         "return", "stop"}
       /\ rcv[e].n \in 0 .. Depth
       /\ plr[e].pc \in {"off", "poll", "token", "exit"}
       /\ cls[e] \in {"open", "fin", "close", "teardown", "closed"}
       /\ tp[e].credits \in 0 .. Depth /\ tp[e].pending \in 0 .. Depth
       /\ tp[e].sendFree \in 0 .. Depth /\ tp[e].sendDone \in 0 .. Depth
       /\ tp[e].creditFree \in 0 .. CreditSlots
       /\ tp[e].recvQ \in Seq(DataFrames) /\ Len(tp[e].recvQ) <= Depth
       /\ nic[e].sq \in Seq(Frames) /\ Len(nic[e].sq) <= scene.sqCap
       /\ nic[e].landed \in 0 .. Len(nic[e].sq)
       /\ nic[e].ring \in 0 .. Depth /\ nic[e].inbox \in Seq(Frames)

(* transport_linux.go:366 "so no stray tokens leak into a later call": the *)
(* completions the sender still has to wait for are exactly its frames on  *)
(* the send queue and the tokens on their way to it, in every interleaving *)
(* with the poller; in particular none is left when the call has returned. *)
TokensAccounted ==
  \A e \in Peers : ~tp[e].closed =>
    snd[e].owed = tp[e].sendDone + Queued(e, "data") + Token(e)

(* A bounce slot that is free belongs to no SEND the NIC may still read,   *)
(* so that none is rewritten under DMA; and until the transport closes,    *)
(* which may drop slots (transport_linux.go:278-288 and 415-419), and for  *)
(* a control slot until Close takes one for its FIN, none is lost.         *)
SlotsAccounted ==
  \A e \in Peers :
    /\ tp[e].sendFree + Queued(e, "data") <= Depth
    /\ tp[e].creditFree + Queued(e, "ctl") <= CreditSlots
    /\ ~tp[e].closed => tp[e].sendFree + Queued(e, "data") = Depth
    /\ ~tp[e].closed /\ cls[e] = "open"
         => tp[e].creditFree + Queued(e, "ctl") = CreditSlots

(* Of the send path of an open transport nothing is lost and nothing is    *)
(* left over, neither when a call succeeds nor when its PostSend fails in  *)
(* the middle; and no slot is ever free twice.                             *)
SendPathAccounted == TokensAccounted /\ SlotsAccounted

(* sendMsg's "returns only once the whole message has been sent": when a   *)
(* call has returned nil, the last frame of each of its messages sits in a *)
(* RECV of the peer, and, SENDs landing in order, so do those before it.   *)
NilMeansLanded ==
  \A e \in Peers :
    hist[e].promised + InFlight(e, "last") <= Len(hist[e].stream)

(* Batched credit return cannot starve the sender: if a sender has no      *)
(* credit while the peer's receiver waits for data, then data or credits   *)
(* are on their way between them, unless PostSend has refused as many      *)
(* frames as there are credits.                                            *)
StarvedSenderIsServed ==
  \A e \in Peers : LET r == Peer(e) IN
    /\ snd[e].pc = "acquire" /\ tp[e].credits = 0
    /\ rcv[r].pc = "block" /\ ~Broken /\ hist[e].lost < Depth
    => \/ tp[r].recvQ # <<>> \/ Arrived(r, "data") > 0
       \/ InFlight(e, "data") > 0
       \/ InFlight(r, "credit") + Arrived(e, "credit") > 0

(* conn_linux.go:320 "returns bytes from the received messages,            *)
(* transparently spanning message boundaries": the bytes read are a prefix *)
(* of the peer's messages, end to end, whatever the sizes of messages,     *)
(* frames and slices, and whether or not the sender closes. (A receiver    *)
(* that closes under its own Read may lose a frame: OnlyWholeMessages.)    *)
ReadsTheStream ==
  \A e \in Peers : IsPrefix(hist[e].read, FlattenSeq(hist[Peer(e)].stream))

(* conn_linux.go:271 "RecvMsg blocks until a full message arrives and      *)
(* returns it": whatever it returns is a message the peer sent, complete.  *)
OnlyWholeMessages ==
  \A e \in Peers : \A i \in DOMAIN hist[e].got :
    hist[e].got[i] \in {Message(Peer(e), m[1], m[2]) : m \in Sent(Peer(e))}

-----------------------------------------------------------------------------
(* Each direction of a connection seen as CreditFlow and as MessageStream; *)
(* s is the sending end. (Flow and FlowBack bring the theorems about       *)
(* CreditFlow along, for TransportProofs.)                                 *)
p == "A"
q == "B"

Held(s)      == IF snd[s].pc = "post" THEN 1 ELSE 0
Landed(s)    == Arrived(Peer(s), "data") + Len(tp[Peer(s)].recvQ)
Pending(s)   == tp[Peer(s)].pending + rcv[Peer(s)].n
Returning(s) == InFlight(Peer(s), "credit") + Arrived(s, "credit")
Side(s)      == IF nic[Peer(s)].down THEN "gone"
                ELSE IF tp[Peer(s)].up THEN "up" ELSE "none"

Flow == INSTANCE CreditFlowProofs WITH
  credits   <- tp[p].credits,      held    <- Held(p),
  lost      <- hist[p].lost,       flight  <- InFlight(p, "data"),
  landed    <- Landed(p),          pending <- Pending(p),
  returning <- Returning(p),       ring    <- nic[q].ring,
  ctl       <- Arrived(q, "ctl"),  side    <- Side(p),
  broken    <- Broken

FlowBack == INSTANCE CreditFlowProofs WITH
  credits   <- tp[q].credits,      held    <- Held(q),
  lost      <- hist[q].lost,       flight  <- InFlight(q, "data"),
  landed    <- Landed(q),          pending <- Pending(q),
  returning <- Returning(q),       ring    <- nic[p].ring,
  ctl       <- Arrived(p, "ctl"),  side    <- Side(q),
  broken    <- Broken

Stream == INSTANCE MessageStream WITH
  stream <- hist[p].stream, promised <- hist[p].promised,
  got    <- hist[q].got,    eof      <- hist[q].eof

Back == INSTANCE MessageStream WITH
  stream <- hist[q].stream, promised <- hist[q].promised,
  got    <- hist[p].got,    eof      <- hist[p].eof

(* The data path implements credit flow control: no step of a goroutine    *)
(* creates, loses or duplicates a credit or a RECV slot, except on a       *)
(* connection that has failed or is being closed; a frame that PostSend    *)
(* refuses costs exactly its own credit. (Every scene loads the direction  *)
(* from A to B; TransportProofs proves both.)                              *)
ImplementsCreditFlow == Flow!Spec

(* creditTracker's purpose (credit.go:5-10), of the state of the two ends: *)
(* each credit is with the sender, in a frame, owed or on its way back;    *)
(* each RECV is posted or holds a frame; and each credit that may still    *)
(* become a frame has a slot.                                              *)
CreditsAccounted == Flow!CreditsAccounted /\ FlowBack!CreditsAccounted

(* Data frames in flight fit the RECVs the peer has posted, but for those  *)
(* that hold a control frame: a data frame waits for a RECV only because   *)
(* of the control frames, which take RECVs without a credit.               *)
DataFits == Flow!DataFits /\ FlowBack!DataFits

(* SendMsg/RecvMsg and their batches preserve message boundaries and order *)
(* and report io.EOF only after every message whose send was reported      *)
(* before Close.                                                           *)
ImplementsMessageStream == Stream!Spec /\ Back!Spec

-----------------------------------------------------------------------------
(* The poller waits for room in sendDone, and the sender that would make   *)
(* room waits for a credit that only the poller can hand it. The comment   *)
(* at transport_linux.go:357-358 rules this out; a message of more frames  *)
(* than the window gets there when the completion of a SEND is polled      *)
(* before the credit it earned.                                            *)
Wedged(e) == /\ plr[e].pc = "token" /\ tp[e].sendDone = Depth
             /\ snd[e].pc = "acquire" /\ tp[e].credits = 0

(* Every message that was sent is received, if the peer keeps receiving    *)
(* and neither end fails or closes.                                        *)
MessagesArrive(e) ==
  LET all == Len(hist[Peer(e)].got) = Len(hist[e].stream) IN
  (~all /\ Peer(e) \in scene.receivers) ~> (all \/ Broken \/ Wedged(e))

(* Every send call returns then, on a connection that closes too.          *)
SendsReturn(e) ==
  (snd[e].pc # "idle" /\ Peer(e) \in scene.receivers)
    ~> (snd[e].pc = "idle" \/ Wedged(e))

(* Where the peer keeps receiving no call waits for ever: neither the      *)
(* sender for a credit or a completion nor the receiver for a message that *)
(* was sent. Only the wedge above stops one.                               *)
CallsComplete == \A e \in Peers : MessagesArrive(e) /\ SendsReturn(e)

(* conn_linux.go:361-363: Close returns and wakes any goroutine blocked in *)
(* SendMsg or RecvMsg, a receiver who waits for data that need not come    *)
(* and a sender who waits for a completion or a credit alike. (The control *)
(* frames land here. Where they do not Close waits in sendFin, see the     *)
(* README.)                                                                *)
CloseWakes ==
  \A e \in Peers :
    (cls[e] # "open") ~> (/\ cls[e] = "closed" /\ snd[e].pc = "idle"
                          /\ rcv[e].pc \in {"idle", "stop"})
=============================================================================
