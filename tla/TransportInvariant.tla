------------------------- MODULE TransportInvariant -------------------------
(***************************************************************************)
(* The inductive invariant of the RC data path, with which TransportProofs *)
(* proves what TransportProperties states. No property is inductive alone: *)
(* a step of one goroutine keeps its part only because of where the        *)
(* others may be. IInv says, for each end, what its sending half and its   *)
(* receiving half may rely on; it names no relation between the two ends,  *)
(* which the refinement of CreditFlow brings.                              *)
(***************************************************************************)
EXTENDS TransportProperties

(* What a frame may carry, and the types of what the queues hold.          *)
What == {"data", "last", "ctl", "credit"}

Byte == Nat \X Nat \X Nat
Text == Seq(Byte)
Texts    == Seq(Text)
DataSeq  == Seq(DataFrames)
FrameSeq == Seq(Frames)
Tokens   == 0 .. Depth

(* Where each goroutine may be.                                            *)
SendPcs == {"idle", "drain", "acquire", "post", "wait"}
RecvPcs == {"idle", "drain", "block", "try", "end", "credit", "return", "stop"}
PollPcs == {"off", "poll", "token", "exit"}

(* The records of the state, field by field.                               *)
Snd == [pc : SendPcs, call : Nat, k : Nat,
        f : Nat \ {0}, owed : Int, err : BOOLEAN]
Rcv(calls) == [pc : RecvPcs, then : RecvPcs, n : Nat,
               call : calls \cup {[how |-> "msg"]}, out : Texts, rest : Text]
Plr == [pc : PollPcs, final : BOOLEAN, sends : Nat,
        recvs : Nat]
Tp  == [up : BOOLEAN, closed : BOOLEAN, credits : Nat, sendFree : Nat,
        sendDone : Tokens, creditFree : Nat, recvQ : DataSeq, pending : Nat,
        peerFin : BOOLEAN, reasm : Text]
Nic == [sq : FrameSeq, landed : Nat, ring : Nat, inbox : FrameSeq, down : BOOLEAN]
Hist == [stream : Texts, promised : Nat, lost : Nat, got : Texts, read : Text,
         eof : BOOLEAN]

(* Every variable has its type.                                            *)
Typing ==
  /\ scene \in Scenes
  /\ snd \in [Peers -> Snd]
  /\ rcv \in [Peers -> Rcv(scene.calls)]
  /\ plr \in [Peers -> Plr]
  /\ cls \in [Peers -> {"open", "fin", "close", "teardown", "closed"}]
  /\ tp \in [Peers -> Tp]
  /\ nic \in [Peers -> Nic]
  /\ hist \in [Peers -> Hist]

(* A sender inside sendMsg or SendMsgBatch works on a message of a call of *)
(* its script.                                                             *)
InCall(e) ==
  snd[e].pc \in {"drain", "acquire", "post"} =>
    /\ snd[e].call \in 1 .. Len(Script[e])
    /\ snd[e].k \in 1 .. Len(Script[e][snd[e].call])

(* A receiver holds credits it took from pending exactly while it is to    *)
(* return them.                                                            *)
CreditInHand(e) ==
  IF rcv[e].pc = "credit" THEN rcv[e].n \in 1 .. Depth ELSE rcv[e].n = 0

(* What has landed of the send queue is a part of it.                      *)
LandedOfQueued(e) ==
  nic[e].landed <= Len(nic[e].sq)

(* Typing, with what an action needs to keep it.                           *)
Types == /\ Typing
         /\ \A e \in Peers : InCall(e) /\ CreditInHand(e) /\ LandedOfQueued(e)
                /\ tp[e].pending < CreditFlushThreshold

(* SlotsAccounted, and the send queue within its capacity: PostSend, which *)
(* refuses a frame beyond it, has accepted no more.                        *)
SlotsOf(e) ==
  /\ tp[e].sendFree + Queued(e, "data") <= Depth
  /\ tp[e].creditFree + Queued(e, "ctl") <= CreditSlots
  /\ ~tp[e].closed => tp[e].sendFree + Queued(e, "data") = Depth
  /\ ~tp[e].closed /\ cls[e] = "open"
       => tp[e].creditFree + Queued(e, "ctl") = CreditSlots
  /\ Len(nic[e].sq) <= scene.sqCap

(* The completions of e that are still to come or to be taken.             *)
Due(e) == tp[e].sendDone + Queued(e, "data") + Token(e)

(* TokensAccounted, and its cause. While the connection is open what the   *)
(* sender owes is exactly what is due; after a failure the poller drops    *)
(* tokens, so that it may owe more, but never less as long as it posts or  *)
(* waits without an error, which is why a wait cannot end too early;       *)
(* outside a call it owes nothing.                                         *)
TokensOf(e) ==
  /\ ~tp[e].closed => snd[e].owed = Due(e)
  /\ snd[e].pc \in {"post", "wait"} /\ ~snd[e].err => snd[e].owed >= Due(e)
  /\ snd[e].pc = "idle" => snd[e].owed <= 0

(* NilMeansLanded, of one end.                                             *)
PromiseOf(e) ==
  hist[e].promised + InFlight(e, "last") <= Len(hist[e].stream)

(* The sender is within its script.                                        *)
CallOf(e) == snd[e].call <= Len(Script[e]) /\ InCall(e)

(* The sending half of an end.                                             *)
SendSide(e) == SlotsOf(e) /\ TokensOf(e) /\ PromiseOf(e) /\ CallOf(e) /\ LandedOfQueued(e)

(* The receiving half of an end. After a flush a receiver goes on to one   *)
(* of these steps; it blocks only with nothing pending (returnCredit has   *)
(* flushed), which is why the sender it waits for is not starved; it       *)
(* receives only on a connection that is up; and the queue pair is down    *)
(* only after Close has torn it down.                                      *)
RecvSide(e) ==
  /\ CreditInHand(e)
  /\ tp[e].pending < CreditFlushThreshold
  /\ rcv[e].pc = "credit" => rcv[e].then \in {"drain", "block", "try", "end", "return"}
  /\ rcv[e].pc = "block" \/ (rcv[e].pc = "credit" /\ rcv[e].then = "block")
       => tp[e].pending = 0
  /\ rcv[e].pc # "idle" => tp[e].up
  /\ nic[e].down => cls[e] = "closed"

(* The inductive invariant.                                                *)
IInv == Typing /\ \A e \in Peers : SendSide(e) /\ RecvSide(e)
-----------------------------------------------------------------------------
(* The messages on their way from Peer(r) to r, which TransportProofs uses *)
(* for MessageStream.                                                      *)

(* The frames on that way, oldest first: those queued for the receiver,    *)
(* those the poller of r has not dispatched, those that have not landed.   *)
Unlanded(s) == SubSeq(nic[s].sq, nic[s].landed + 1, Len(nic[s].sq))
Pipe(r)     == tp[r].recvQ \o nic[r].inbox \o Unlanded(Peer(r))

(* The messages r has reassembled, returned already or not.                *)
Taken(r) == hist[r].got \o rcv[r].out

(* What s has posted of the message it is sending.                         *)
Begun(s) ==
  IF snd[s].pc \in {"drain", "acquire", "post"}
    THEN Bytes(snd[s].call, snd[s].k, 1, (snd[s].f - 1) * Payload)
    ELSE <<>>

(* s posts no data frame any more.                                         *)
Silent(s) == nic[s].down \/ (tp[s].closed /\ snd[s].pc # "post")

(* The send queue holds a frame for every slot. Where it does not,         *)
(* PostSend may refuse a frame of s, and what comes after the refusal of   *)
(* one in the middle of a message continues that message.                  *)
Ample      == scene.sqCap >= Depth + CreditSlots
Refused(s) == ~Ample /\ hist[s].lost # 0

(* r gets every frame of its peer: the poller of r has taken no batch      *)
(* after the transport was closed, of which it may drop frames.            *)
Whole(r) == ~plr[r].final /\ ~Refused(Peer(r))

(* What a frame makes of d messages taken and the part w of the next one.  *)
Partial == {w \in Text : Len(w) <= MaxMessage}

Stride(fr, msgs, d, w, d1, w1) ==
  \/ /\ fr.kind # "data"
     /\ d1 = d /\ w1 = w
  \/ /\ fr.kind = "data" /\ fr.more
     /\ d1 = d /\ w1 = w \o fr.data
  \/ /\ fr.kind = "data" /\ ~fr.more
     /\ w \o fr.data \in Partial
     /\ d1 = d + 1 /\ msgs[d1] = w \o fr.data /\ w1 = <<>>

(* After i of the frames done[i] of the messages have been taken, and      *)
(* part[i] of the one after them.                                          *)
Walk(frames, msgs, done, part) ==
  /\ done \in [0 .. Len(frames) -> 0 .. Len(msgs)]
  /\ part \in [0 .. Len(frames) -> Partial]
  /\ \A i \in 1 .. Len(frames) :
       Stride(frames[i], msgs, done[i - 1], part[i - 1], done[i], part[i])

(* From where r is, the frames on the way lead it through the messages to  *)
(* where s is; and before it is told of the end of the stream it has been  *)
(* through every message that was promised, none of them sent later.       *)
InStep(r, done, part) ==
  LET s == Peer(r) IN
  /\ Walk(Pipe(r), hist[s].stream, done, part)
  /\ done[0] = Len(Taken(r)) /\ part[0] = tp[r].reasm
  /\ done[Len(Pipe(r))] = Len(hist[s].stream)
  /\ Silent(s) \/ part[Len(Pipe(r))] = Begun(s)
  /\ \A i \in 1 .. Len(Pipe(r)) : Pipe(r)[i].kind = "fin" =>
       cls[s] # "open" /\ hist[s].promised <= done[i]
  /\ tp[r].peerFin =>
       cls[s] # "open" /\ hist[s].promised <= done[Len(tp[r].recvQ)]

(* What r has taken is what was sent first, and so is, as long as it can   *)
(* receive, what it will take.                                             *)
StreamOf(r) ==
  Whole(r) => /\ IsPrefix(Taken(r), hist[Peer(r)].stream)
              /\ nic[r].down \/ \E done, part : InStep(r, done, part)

(* A message being sent is not over the limit, nor a frame past its end.   *)
MessageOf(s) ==
  snd[s].pc \in {"drain", "acquire", "post"} =>
    LET len == Script[s][snd[s].call][snd[s].k] IN
    snd[s].f <= FragmentCount(len)
    /\ \A k \in DOMAIN Script[s][snd[s].call] : Script[s][snd[s].call][k] <= MaxMessage

(* A dispatch after the close belongs to the last batch.                   *)
BatchOf(r) == ~plr[r].final => plr[r].recvs = 0

(* The inductive invariant of the streams.                                 *)
StreamInv == \A r \in Peers : StreamOf(r) /\ MessageOf(r) /\ BatchOf(r)

(* Where a receiver is, or goes on once it has returned credits.           *)
Place(r) == IF rcv[r].pc = "credit" THEN rcv[r].then ELSE rcv[r].pc

(* A receiver that waits for the first message of a call has none to       *)
(* return; of a call but RecvBatch it has one at most; and the call is one *)
(* of the application's.                                                   *)
HandsOf(r) ==
  /\ Place(r) \in {"idle", "drain", "block", "stop"} => rcv[r].out = <<>>
  /\ Place(r) \in {"try", "end"} => rcv[r].call.how = "batch"
  /\ Place(r) # "idle" => rcv[r].call \in scene.calls
  /\ rcv[r].call.how # "batch" => Len(rcv[r].out) <= 1

(* Told of the end of the stream a receiver has stopped; and an            *)
(* application that does not receive has been told and given nothing.      *)
EndOf(r) ==
  /\ hist[r].eof => rcv[r].pc = "stop" /\ tp[r].peerFin
  /\ r \notin scene.receivers =>
       rcv[r].pc = "idle" /\ hist[r].got = <<>> /\ ~hist[r].eof

(* Where nobody calls Close, only the poller closes the transport, and     *)
(* ends: there is no last batch after that.                                *)
OpenOf(r) ==
  r \notin scene.closers =>
    /\ cls[r] = "open"
    /\ Ample => ~plr[r].final /\ (tp[r].closed => plr[r].pc = "exit")

(* What Read has returned and what it keeps are the bytes of the messages  *)
(* it has taken.                                                           *)
ReadOf(r) ==
  /\ (\A c \in scene.calls : c.how = "read")
       => hist[r].read \o rcv[r].rest = FlattenSeq(hist[r].got)
  /\ (\A c \in scene.calls : c.how # "read") => hist[r].read = <<>>

(* The inductive invariant of the receiving ends.                          *)
EndsInv == \A r \in Peers : HandsOf(r) /\ EndOf(r) /\ OpenOf(r) /\ ReadOf(r)
=============================================================================
