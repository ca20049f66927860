------------------------------ MODULE Transport ------------------------------
(***************************************************************************)
(* The RC data path of package rdmanet (rdmanet/transport_linux.go): two   *)
(* connected endpoints, each with one sending goroutine (under sendMu), one*)
(* receiving goroutine (under recvMu), the completion poller, a goroutine  *)
(* that may call Conn.Close, and the queue pair below them.                *)
(*                                                                         *)
(* Slots are interchangeable and kept as counts. The NIC is a reliable     *)
(* connection: SENDs land in order, each in a RECV the peer has posted     *)
(* (rnr_retry 7 retries for ever), and complete in order once landed. A    *)
(* completion may reach the CQ after a later inbound frame, so the poller  *)
(* may take the oldest completed SEND or the oldest landed frame.          *)
(*                                                                         *)
(* A post is one step; what two goroutines that post on one queue pair at  *)
(* once can do to each other's requests is in PostPath.                    *)
(***************************************************************************)
EXTENDS Integers, Sequences, SequencesExt, Window

CONSTANTS
  CreditSlots,  \* send slots reserved for control frames
  Payload,      \* payload bytes per frame
  MaxMessage,   \* maxMessageBytes
  Scenes        \* what the two applications may do, one record per scene

Peers == {"A", "B"}
Peer(e) == IF e = "A" THEN "B" ELSE "A"

(* A receive call: RecvMsg (or RecvMsgBuf, which has taken the message     *)
(* whether or not it fits the slice), RecvBatch(n), or Read into n bytes.  *)
IsRecvCall(c) == \/ c.how = "msg"
                 \/ c.how = "batch" /\ c.n \in Nat \ {0}
                 \/ c.how = "read" /\ c.n \in Nat

(* A scene: script[e] is the sequence of SendBatch calls of e, each a      *)
(* sequence of message sizes; sqCap the SENDs the provider accepts before  *)
(* PostSend fails; calls the receive calls in use; receivers and closers   *)
(* the endpoints whose application receives, and may call Close.           *)
ASSUME TransportAssumption ==
  /\ CreditSlots \in Nat \ {0}
  /\ Payload \in Nat \ {0} /\ MaxMessage \in Nat
  /\ Scenes # {}
  /\ \A sc \in Scenes :
       /\ sc.script \in [Peers -> Seq(Seq(Nat))] /\ sc.sqCap \in Nat \ {0}
       /\ sc.calls # {} /\ \A c \in sc.calls : IsRecvCall(c)
       /\ sc.receivers \subseteq Peers /\ sc.closers \subseteq Peers

VARIABLES
  scene,  \* the scene being played; never changes
  snd,    \* snd[e]: the sending goroutine
  rcv,    \* rcv[e]: the receiving goroutine
  plr,    \* plr[e]: the poller and, once closed, what its last batch holds
  cls,    \* cls[e]: the goroutine in Conn.Close
  tp,     \* tp[e]: the transport struct
  nic,    \* nic[e]: send queue, posted RECVs and arrived frames
  hist    \* hist[e]: messages e sent completely, credits lost with frames
          \* that PostSend refused, messages taken and bytes read by e

vars == <<scene, snd, rcv, plr, cls, tp, nic, hist>>

Script == scene.script

-----------------------------------------------------------------------------
(* Framing. Operators marked "Defect" are wrong on purpose: each is what a *)
(* plausible slip would make of the definition below it, and no behaviour  *)
(* uses it.                                                                *)

FragmentCount(len) ==
  IF len = 0 THEN 1 ELSE (len + Payload - 1) \div Payload

\* Defect: the frame before the last is sent as the last.
MoreTooShort(f, len) == f + 1 < FragmentCount(len)

More(f, len) == f < FragmentCount(len)

(* Byte i of the k-th message of call c. *)
Bytes(c, k, first, last) == [i \in 1 .. last - first + 1 |-> <<c, k, first + i - 1>>]

Message(e, c, k) == Bytes(c, k, 1, Script[e][c][k])

(* The f-th data frame of message k of call c of e. *)
DataFrame(e, c, k, f) ==
  LET len   == Script[e][c][k]
      start == (f - 1) * Payload
      end   == IF start + Payload > len THEN len ELSE start + Payload
  IN  [kind |-> "data", data |-> Bytes(c, k, start + 1, end), more |-> More(f, len)]

\* Defect: one credit too few, or one for the credit frame's own slot.
CreditFrameShort(n) == [kind |-> "credit", n |-> n - 1]
CreditFrameOwn(n)   == [kind |-> "credit", n |-> n + 1]

CreditFrame(n) == [kind |-> "credit", n |-> n]
FinFrame       == [kind |-> "fin"]

CreditFlushThreshold == IF Depth \div 2 < 1 THEN 1 ELSE Depth \div 2

-----------------------------------------------------------------------------
Init ==
  /\ scene \in Scenes
  /\ snd = [e \in Peers |-> [pc |-> "idle", call |-> 0, k |-> 1, f |-> 1,
                             owed |-> 0, err |-> FALSE]]
  /\ rcv = [e \in Peers |-> [pc |-> "idle", then |-> "idle", n |-> 0,
                             call |-> [how |-> "msg"], out |-> <<>>,
                             rest |-> <<>>]]
  /\ plr = [e \in Peers |-> [pc |-> "off", final |-> FALSE, sends |-> 0,
                             recvs |-> 0]]
  /\ cls = [e \in Peers |-> "open"]
  /\ tp  = [e \in Peers |->
             [up |-> FALSE, closed |-> FALSE, credits |-> Depth,
              sendFree |-> Depth, sendDone |-> 0, creditFree |-> CreditSlots,
              recvQ |-> <<>>, pending |-> 0, peerFin |-> FALSE,
              reasm |-> <<>>]]
  /\ nic = [e \in Peers |-> [sq |-> <<>>, landed |-> 0, ring |-> 0,
                             inbox |-> <<>>, down |-> FALSE]]
  /\ hist = [e \in Peers |-> [stream |-> <<>>, promised |-> 0, lost |-> 0,
                              got |-> <<>>, read |-> <<>>, eof |-> FALSE]]

\* Defect: one RECV fewer than there are credits; every call posts the ring.
BringUpShort(e) ==
  /\ tp'  = [tp EXCEPT ![e].up = TRUE]
  /\ nic' = IF tp[e].up THEN nic ELSE [nic EXCEPT ![e].ring = Depth - 1]
BringUpAgain(e) ==
  /\ tp'  = [tp EXCEPT ![e].up = TRUE]
  /\ nic' = [nic EXCEPT ![e].ring = Depth]

(* transport(): the first call on a Conn posts the RECV ring. *)
BringUp(e) ==
  /\ tp'  = [tp EXCEPT ![e].up = TRUE]
  /\ nic' = IF tp[e].up THEN nic ELSE [nic EXCEPT ![e].ring = Depth]

StartPoller(e) == plr' = [plr EXCEPT ![e].pc = IF @ = "off" THEN "poll" ELSE @]

CanPost(e) == ~nic[e].down /\ Len(nic[e].sq) < scene.sqCap

Posted(e, frame) == [nic EXCEPT ![e].sq = Append(@, frame)]

-----------------------------------------------------------------------------
(* The sender: sendMsg and sendBatch (a sendMsg is a batch of one). *)

(* An empty batch, or one with a message over maxMessageBytes, is answered *)
(* before anything is sent.                                                *)
SendCall(e) ==
  LET c     == snd[e].call + 1
      sizes == Script[e][c]
      tooBig == \E k \in 1 .. Len(sizes) : sizes[k] > MaxMessage
  IN
  /\ snd[e].pc = "idle" /\ c <= Len(Script[e]) /\ cls[e] = "open"
  /\ BringUp(e)
  /\ \/ /\ sizes = <<>> \/ tooBig
        /\ snd' = [snd EXCEPT ![e].call = c]
        /\ UNCHANGED plr
     \/ /\ sizes # <<>> /\ ~tooBig
        /\ snd' = [snd EXCEPT ![e] = [pc |-> "drain", call |-> c, k |-> 1,
                                      f |-> 1, owed |-> 0, err |-> FALSE]]
        /\ StartPoller(e)
  /\ UNCHANGED <<scene, rcv, cls, hist>>

\* Defect: one token answers for all frames.
CollectedTooMuch(e, n) == IF n > 0 THEN [snd[e] EXCEPT !.owed = 0] ELSE snd[e]

Collected(e, n) == [snd[e] EXCEPT !.owed = @ - n]

DrainSendDone(e) ==
  /\ snd[e].pc = "drain"
  /\ snd' = [snd EXCEPT ![e] = [Collected(e, tp[e].sendDone) EXCEPT !.pc = "acquire"]]
  /\ tp'  = [tp EXCEPT ![e].sendDone = 0]
  /\ UNCHANGED <<scene, rcv, plr, cls, nic, hist>>

\* Defect: an error returns at once.
SendAbandons(e) == snd' = [snd EXCEPT ![e] = [@ EXCEPT !.pc = "idle", !.owed = 0]]

(* Any error of sendFrame waits out the frames already posted. *)
SendFails(e) == snd' = [snd EXCEPT ![e] = [@ EXCEPT !.pc = "wait", !.err = TRUE]]

AcquireCredit(e) ==
  /\ snd[e].pc = "acquire"
  /\ \/ /\ tp[e].closed
        /\ SendFails(e)
        /\ UNCHANGED tp
     \/ /\ ~tp[e].closed /\ tp[e].credits > 0
        /\ tp'  = [tp EXCEPT ![e].credits = @ - 1]
        /\ snd' = [snd EXCEPT ![e].pc = "post"]
  /\ UNCHANGED <<scene, rcv, plr, cls, nic, hist>>

(* The frame after the one just posted, or the final wait. *)
NextFrame(e) ==
  LET s      == snd[e]
      sizes  == Script[e][s.call]
      last   == s.f = FragmentCount(sizes[s.k])
  IN  [s EXCEPT !.owed = @ + 1,
                !.f  = IF last THEN 1 ELSE @ + 1,
                !.k  = IF last THEN @ + 1 ELSE @,
                !.pc = IF last /\ s.k = Len(sizes) THEN "wait" ELSE "drain"]

(* Take a slot and post. A failed PostSend gives back the slot, which a    *)
(* closed transport may drop, and not the credit.                          *)
PostFrame(e) ==
  LET s     == snd[e]
      frame == DataFrame(e, s.call, s.k, s.f)
  IN
  /\ s.pc = "post"
  /\ \/ /\ tp[e].sendFree > 0 /\ CanPost(e)
        /\ tp'   = [tp EXCEPT ![e].sendFree = @ - 1]
        /\ nic'  = Posted(e, frame)
        /\ snd'  = [snd EXCEPT ![e] = NextFrame(e)]
        /\ hist' = IF frame.more THEN hist
                   ELSE [hist EXCEPT ![e].stream =
                           Append(@, Message(e, s.call, s.k))]
     \/ /\ tp[e].sendFree > 0 /\ ~CanPost(e)
        /\ SendFails(e)
        /\ hist' = [hist EXCEPT ![e].lost = @ + 1]
        /\ \/ UNCHANGED tp
           \/ tp[e].closed /\ tp' = [tp EXCEPT ![e].sendFree = @ - 1]
        /\ UNCHANGED nic
     \/ /\ tp[e].closed
        /\ SendFails(e)
        /\ UNCHANGED <<tp, nic, hist>>
  /\ UNCHANGED <<scene, rcv, plr, cls>>

\* Defect: the wait does not watch t.closed.
WaitForToken(e) ==
  /\ snd[e].pc = "wait" /\ snd[e].owed > 0 /\ tp[e].sendDone > 0
  /\ tp'  = [tp EXCEPT ![e].sendDone = @ - 1]
  /\ snd' = [snd EXCEPT ![e] = Collected(e, 1)]
  /\ UNCHANGED <<scene, rcv, plr, cls, nic, hist>>

(* waitSends: one token per posted frame, or the transport closes. *)
WaitToken(e) ==
  /\ snd[e].pc = "wait" /\ snd[e].owed > 0
  /\ \/ /\ tp[e].sendDone > 0
        /\ tp'  = [tp EXCEPT ![e].sendDone = @ - 1]
        /\ snd' = [snd EXCEPT ![e] = Collected(e, 1)]
     \/ /\ tp[e].closed
        /\ snd' = [snd EXCEPT ![e] = [@ EXCEPT !.owed = 0, !.err = TRUE]]
        /\ UNCHANGED tp
  /\ UNCHANGED <<scene, rcv, plr, cls, nic, hist>>

(* waitSends has nothing (more) to wait for. (n may be negative: a call on *)
(* a closed transport drains the tokens that an earlier one left.)         *)
SendReturn(e) ==
  /\ snd[e].pc = "wait" /\ snd[e].owed <= 0
  /\ snd'  = [snd EXCEPT ![e].pc = "idle"]
  /\ hist' = IF snd[e].err \/ cls[e] # "open" THEN hist
             ELSE [hist EXCEPT ![e].promised = Len(hist[e].stream)]
  /\ UNCHANGED <<scene, rcv, plr, cls, tp, nic>>

Sender(e) == \/ DrainSendDone(e) \/ AcquireCredit(e) \/ PostFrame(e)
             \/ WaitToken(e) \/ SendReturn(e)

-----------------------------------------------------------------------------
(* The receiver: recvMsg and recvBatch. *)

(* A Read served from the rest of the last message receives nothing. *)
Served(e, c) == c.how = "read" /\ (c.n = 0 \/ rcv[e].rest # <<>>)

RecvCall(e) ==
  /\ e \in scene.receivers /\ rcv[e].pc = "idle" /\ cls[e] = "open"
  /\ BringUp(e)
  /\ \E c \in scene.calls :
       IF Served(e, c)
         THEN /\ rcv' = [rcv EXCEPT ![e] = [@ EXCEPT !.pc = "return", !.call = c]]
              /\ UNCHANGED plr
         ELSE /\ rcv' = [rcv EXCEPT ![e] = [@ EXCEPT !.pc = "drain", !.call = c]]
              /\ StartPoller(e)
  /\ UNCHANGED <<scene, snd, cls, hist>>

(* flushCreditsLocked, then go on at pc `next`. *)
Flush(e, n, next, out) ==
  rcv' = [rcv EXCEPT ![e] =
            IF n > 0 THEN [@ EXCEPT !.pc = "credit", !.then = next, !.n = n,
                                    !.out = out]
                     ELSE [@ EXCEPT !.pc = next, !.out = out]]

(* consumeFrameLocked: reassemble the oldest queued frame, repost its slot *)
(* and account its credit; the loop of the caller goes on at `more`.       *)
ConsumeFrame(e, more) ==
  LET r     == rcv[e]
      t     == tp[e]
      fr    == Head(t.recvQ)
      bytes == t.reasm \o fr.data
      over  == Len(bytes) > MaxMessage
      done  == ~over /\ ~fr.more
      out   == IF done THEN Append(r.out, bytes) ELSE r.out
      next  == IF over THEN "return"
               ELSE IF fr.more THEN more
               ELSE IF r.call.how # "batch" THEN "return"
               ELSE IF Len(out) < r.call.n THEN "try" ELSE "end"
      owed  == t.pending + 1
      full  == owed >= CreditFlushThreshold
      reasm == IF over \/ ~fr.more THEN <<>> ELSE bytes
  IN
  /\ t.recvQ # <<>>
  /\ IF nic[e].down
       THEN \* postRecv fails on a closed QP
            /\ tp'  = [tp EXCEPT ![e] = [t EXCEPT !.recvQ = Tail(@), !.reasm = reasm]]
            /\ rcv' = [rcv EXCEPT ![e].pc = "return"]
            /\ UNCHANGED nic
       ELSE /\ tp'  = [tp EXCEPT ![e] = [t EXCEPT !.recvQ = Tail(@), !.reasm = reasm,
                                         !.pending = IF full THEN 0 ELSE owed]]
            /\ nic' = [nic EXCEPT ![e].ring = @ + 1]
            /\ Flush(e, IF full THEN owed ELSE 0, next, out)
  /\ UNCHANGED <<scene, snd, plr, cls, hist>>

(* nextMessage, first select: take what is queued, else flush and block. *)
RecvDrain(e) ==
  /\ rcv[e].pc = "drain"
  /\ \/ ConsumeFrame(e, "drain")
     \/ /\ tp[e].recvQ = <<>>
        /\ tp' = [tp EXCEPT ![e].pending = 0]
        /\ Flush(e, tp[e].pending, "block", rcv[e].out)
        /\ UNCHANGED <<scene, snd, plr, cls, nic, hist>>

AtEOF(e) == tp[e].peerFin /\ tp[e].recvQ = <<>>

\* Defect: the wait for data has no case for a closed transport.
RecvBlockForData(e) ==
  /\ rcv[e].pc = "block"
  /\ \/ ConsumeFrame(e, "drain")
     \/ /\ AtEOF(e)
        /\ rcv'  = [rcv EXCEPT ![e].pc = "stop"]
        /\ hist' = [hist EXCEPT ![e].eof = TRUE]
        /\ UNCHANGED <<scene, snd, plr, cls, tp, nic>>

(* nextMessage, second select. *)
RecvBlock(e) ==
  /\ rcv[e].pc = "block"
  /\ \/ ConsumeFrame(e, "drain")
     \/ /\ AtEOF(e)                                \* io.EOF
        /\ rcv'  = [rcv EXCEPT ![e].pc = "stop"]
        /\ hist' = [hist EXCEPT ![e].eof = TRUE]
        /\ UNCHANGED <<scene, snd, plr, cls, tp, nic>>
     \/ /\ tp[e].closed
        /\ rcv' = [rcv EXCEPT ![e].pc = "stop"]
        /\ UNCHANGED <<scene, snd, plr, cls, tp, nic, hist>>

(* tryNextMessage, and the flush at the end of recvBatch. *)
RecvTry(e) ==
  /\ rcv[e].pc = "try"
  /\ \/ ConsumeFrame(e, "try")
     \/ /\ tp[e].recvQ = <<>>
        /\ rcv' = [rcv EXCEPT ![e].pc = "end"]
        /\ UNCHANGED <<scene, snd, plr, cls, tp, nic, hist>>

RecvEnd(e) ==
  /\ rcv[e].pc = "end"
  /\ tp' = [tp EXCEPT ![e].pending = 0]
  /\ Flush(e, tp[e].pending, "return", rcv[e].out)
  /\ UNCHANGED <<scene, snd, plr, cls, nic, hist>>

(* returnCredit: wait for a control slot, post the credit frame. A failed  *)
(* PostSend fails the transport.                                           *)
ReturnCredit(e) ==
  /\ rcv[e].pc = "credit"
  /\ rcv' = [rcv EXCEPT ![e] = [@ EXCEPT !.pc = rcv[e].then, !.then = "idle", !.n = 0]]
  /\ \/ /\ tp[e].creditFree > 0 /\ CanPost(e)
        /\ tp'  = [tp EXCEPT ![e].creditFree = @ - 1]
        /\ nic' = Posted(e, CreditFrame(rcv[e].n))
     \/ /\ tp[e].creditFree > 0 /\ ~CanPost(e)
        /\ tp' = [tp EXCEPT ![e].closed = TRUE]
        /\ UNCHANGED nic
     \/ /\ tp[e].closed
        /\ UNCHANGED <<tp, nic>>
  /\ UNCHANGED <<scene, snd, plr, cls, hist>>

\* Defect: what did not fit the caller's slice is forgotten.
LeftOverLost(buf, n) == <<>>

LeftOver(buf, n) == SubSeq(buf, n + 1, Len(buf))

(* The call returns what it took. Read takes one message at most, copies   *)
(* what fits its slice from its buffer and keeps the rest.                 *)
RecvReturn(e) ==
  LET r   == rcv[e]
      buf == IF r.out = <<>> THEN r.rest ELSE r.rest \o Head(r.out)
      n   == IF r.call.n < Len(buf) THEN r.call.n ELSE Len(buf)
  IN
  /\ r.pc = "return"
  /\ \/ /\ r.call.how # "read"
        /\ rcv'  = [rcv EXCEPT ![e] = [@ EXCEPT !.pc = "idle", !.out = <<>>]]
        /\ hist' = [hist EXCEPT ![e].got = @ \o r.out]
     \/ /\ r.call.how = "read"
        /\ rcv'  = [rcv EXCEPT ![e] = [@ EXCEPT !.pc = "idle", !.out = <<>>,
                                             !.rest = LeftOver(buf, n)]]
        /\ hist' = [hist EXCEPT ![e] = [hist[e] EXCEPT !.got = @ \o r.out,
                                                    !.read = @ \o SubSeq(buf, 1, n)]]
  /\ UNCHANGED <<scene, snd, plr, cls, tp, nic>>

Receiver(e) == \/ RecvDrain(e) \/ RecvBlock(e) \/ RecvTry(e) \/ RecvEnd(e)
               \/ ReturnCredit(e) \/ RecvReturn(e)

-----------------------------------------------------------------------------
(* The poller. Until the transport is closed the batches of drainOnce need *)
(* no state: they are one dispatch after another. It looks at t.closed     *)
(* before each batch only, so one last batch may outlive the close.        *)

PollLast(e) ==
  /\ plr[e].pc = "poll" /\ tp[e].closed /\ ~plr[e].final /\ ~nic[e].down
  /\ \E s \in 0 .. nic[e].landed, r \in 0 .. Len(nic[e].inbox) :
       /\ s + r \in 1 .. Depth
       /\ plr' = [plr EXCEPT ![e] = [pc |-> "poll", final |-> TRUE,
                                     sends |-> s, recvs |-> r]]
  /\ UNCHANGED <<scene, snd, rcv, cls, tp, nic, hist>>

PollerExit(e) ==
  /\ plr[e].pc = "poll" /\ tp[e].closed
  /\ plr[e].sends = 0 /\ plr[e].recvs = 0
  /\ plr' = [plr EXCEPT ![e].pc = "exit"]
  /\ UNCHANGED <<scene, snd, rcv, cls, tp, nic, hist>>

(* The WRID range of a completion tells data slots from control slots. On  *)
(* a closed transport the select may take <-t.closed, which drops the slot.*)
FreeSlot(e, data) ==
  \/ tp' = IF data THEN [tp EXCEPT ![e].sendFree = @ + 1]
                   ELSE [tp EXCEPT ![e].creditFree = @ + 1]
  \/ tp[e].closed /\ UNCHANGED tp

(* The oldest completed SEND gives back its slot, and a data SEND owes a   *)
(* token.                                                                  *)
DispatchSend(e) ==
  LET data == Head(nic[e].sq).kind = "data" IN
  /\ plr[e].pc = "poll" /\ nic[e].landed > 0
  /\ tp[e].closed => plr[e].sends > 0
  /\ nic' = [nic EXCEPT ![e] = [nic[e] EXCEPT !.sq = Tail(@), !.landed = @ - 1]]
  /\ plr' = [plr EXCEPT ![e] = [plr[e] EXCEPT !.sends = IF tp[e].closed THEN @ - 1 ELSE @,
                                              !.pc = IF data THEN "token" ELSE @]]
  /\ FreeSlot(e, data)
  /\ UNCHANGED <<scene, snd, rcv, cls, hist>>

(* The second channel send of a data completion: sendDone may be full, and *)
(* on a closed transport the token may be dropped too.                     *)
PushToken(e) ==
  /\ plr[e].pc = "token"
  /\ plr' = [plr EXCEPT ![e].pc = "poll"]
  /\ \/ /\ tp[e].sendDone < Depth
        /\ tp' = [tp EXCEPT ![e].sendDone = @ + 1]
     \/ /\ tp[e].closed
        /\ UNCHANGED tp
  /\ UNCHANGED <<scene, snd, rcv, cls, nic, hist>>

(* The oldest landed frame. A control frame is handled and its slot is     *)
(* reposted at once, which fails, and ends the poller, on a closed QP.     *)
DispatchRecv(e) ==
  LET fr    == Head(nic[e].inbox)
      taken == [nic[e] EXCEPT !.inbox = Tail(@)]
      left  == IF tp[e].closed THEN plr[e].recvs - 1 ELSE plr[e].recvs
  IN
  /\ plr[e].pc = "poll" /\ nic[e].inbox # <<>>
  /\ tp[e].closed => plr[e].recvs > 0
  /\ \/ /\ fr.kind # "data"
        /\ tp'  = IF fr.kind = "credit" THEN [tp EXCEPT ![e].credits = @ + fr.n]
                                        ELSE [tp EXCEPT ![e].peerFin = TRUE]
        /\ nic' = [nic EXCEPT ![e] = IF nic[e].down THEN taken
                                  ELSE [taken EXCEPT !.ring = @ + 1]]
        /\ plr' = [plr EXCEPT ![e] = [plr[e] EXCEPT !.recvs = left,
                                                 !.pc = IF nic[e].down THEN "exit" ELSE @]]
     \/ /\ fr.kind = "data"
        /\ \/ /\ Len(tp[e].recvQ) < Depth
              /\ tp' = [tp EXCEPT ![e].recvQ = Append(@, fr)]
           \/ /\ tp[e].closed
              /\ UNCHANGED tp
        /\ nic' = [nic EXCEPT ![e] = taken]
        /\ plr' = [plr EXCEPT ![e].recvs = left]
  /\ UNCHANGED <<scene, snd, rcv, cls, hist>>

(* A SEND to a peer that has torn down its QP completes with an error. *)
DispatchError(e) ==
  /\ plr[e].pc = "poll" /\ ~tp[e].closed
  /\ nic[e].sq # <<>> /\ nic[Peer(e)].down
  /\ tp'  = [tp EXCEPT ![e].closed = TRUE]
  /\ plr' = [plr EXCEPT ![e].pc = "exit"]
  /\ UNCHANGED <<scene, snd, rcv, cls, nic, hist>>

Poller(e) == \/ DispatchSend(e) \/ PushToken(e) \/ DispatchRecv(e)
             \/ DispatchError(e) \/ PollLast(e) \/ PollerExit(e)

-----------------------------------------------------------------------------
(* The NIC: the oldest SEND that has not landed takes a posted RECV. *)
Land(e) ==
  LET p == Peer(e) IN
  /\ nic[e].landed < Len(nic[e].sq)
  /\ ~nic[e].down /\ ~nic[p].down
  /\ nic[p].ring > 0
  /\ nic' = [nic EXCEPT ![e].landed = @ + 1,
                        ![p] = [nic[p] EXCEPT !.ring  = @ - 1,
                                              !.inbox = Append(@, nic[e].sq[nic[e].landed + 1])]]
  /\ UNCHANGED <<scene, snd, rcv, plr, cls, tp, hist>>

-----------------------------------------------------------------------------
(* Conn.Close and transport.shutdown. *)

CloseCall(e) ==
  /\ e \in scene.closers /\ cls[e] = "open"
  /\ cls' = [cls EXCEPT ![e] = IF ~tp[e].up THEN "teardown"
                               ELSE IF tp[e].closed THEN "close" ELSE "fin"]
  /\ UNCHANGED <<scene, snd, rcv, plr, tp, nic, hist>>

CloseFin(e) ==
  /\ cls[e] = "fin"
  /\ cls' = [cls EXCEPT ![e] = "close"]
  /\ \/ /\ tp[e].creditFree > 0
        /\ tp'  = [tp EXCEPT ![e].creditFree = @ - 1]
        /\ nic' = IF CanPost(e) THEN Posted(e, FinFrame) ELSE nic
     \/ /\ tp[e].closed
        /\ UNCHANGED <<tp, nic>>
  /\ UNCHANGED <<scene, snd, rcv, plr, hist>>

CloseDone(e) ==
  /\ cls[e] = "close"
  /\ cls' = [cls EXCEPT ![e] = "teardown"]
  /\ tp'  = [tp EXCEPT ![e].closed = TRUE]
  /\ UNCHANGED <<scene, snd, rcv, plr, nic, hist>>

TearDown(e) ==
  /\ cls[e] = "teardown"
  /\ cls' = [cls EXCEPT ![e] = "closed"]
  /\ nic' = [nic EXCEPT ![e].down = TRUE]
  /\ UNCHANGED <<scene, snd, rcv, plr, tp, hist>>

Closer(e) == CloseFin(e) \/ CloseDone(e) \/ TearDown(e)

-----------------------------------------------------------------------------
(* Nothing is left to do: the calls of the script are over, the receivers  *)
(* wait for data that nobody will send or have stopped.                    *)
Idle(e) ==
  /\ snd[e].pc = "idle"
  /\ snd[e].call = Len(Script[e]) \/ cls[e] # "open"
  /\ \/ rcv[e].pc \in {"block", "stop"}
     \/ rcv[e].pc = "idle" /\ (cls[e] # "open" \/ e \notin scene.receivers)
  /\ plr[e].pc # "token"
  /\ cls[e] \in {"open", "closed"}

Finished == (\A e \in Peers : Idle(e)) /\ UNCHANGED vars

Next ==
  \/ \E e \in Peers : \/ SendCall(e) \/ Sender(e)
                      \/ RecvCall(e) \/ Receiver(e)
                      \/ Poller(e) \/ Land(e)
                      \/ CloseCall(e) \/ Closer(e)
  \/ Finished

(* Goroutines that can run do run, the NIC makes progress, and the         *)
(* applications keep receiving; when to send or to close is theirs.        *)
Fairness ==
  \A e \in Peers : /\ WF_vars(Sender(e))
                   /\ WF_vars(RecvCall(e)) /\ WF_vars(Receiver(e))
                   /\ WF_vars(Poller(e)) /\ WF_vars(Land(e))
                   /\ WF_vars(Closer(e))

Spec == Init /\ [][Next]_vars
FairSpec == Spec /\ Fairness
=============================================================================
