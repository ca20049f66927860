--------------------------- MODULE DatagramProofs ---------------------------
(***************************************************************************)
(* A datagram endpoint overwrites no buffer, and returns no datagram twice *)
(* or out of order, for any depth and any number of calls and datagrams.   *)
(*                                                                         *)
(* The registry that names the endpoints implements Directory, for any     *)
(* clients, calls and scenes: a call is invoked by Dial, takes effect in   *)
(* Apply, and returns in Receive or GiveUp; every other step changes       *)
(* nothing a client can see.                                               *)
(***************************************************************************)
EXTENDS PacketProperties, Registry, TLAPS

-----------------------------------------------------------------------------
(* The datagram endpoint.                                                  *)

Both       == {"r", "w"}
Places     == {"idle", "poll", "try", "copy", "copytry", "arm", "wait", "asleep", "ah",
               "post", "panic"}
Completion == [op : {"recv", "send"}, slot : Slots]
Batch      == Seq(Completion)

Typing ==
  /\ pc \in [Both -> Places]
  /\ posted \in Seq(Slots) /\ cq \in Batch /\ out \in Seq(Nat) /\ mem \in [Slots -> Nat]
  /\ sending \in Nat /\ arrived \in Nat /\ landed \subseteq 1 .. arrived
  /\ got \in [Both -> Batch] /\ over \in [Both -> SUBSET Batch] /\ crossed \in BOOLEAN
  /\ cls \in {"open", "closed", "noahs", "noqp", "nocq", "gone"}
  /\ closed = (cls # "open")

(* Who does not copy has no batch; and as long as none is polled over      *)
(* another a caller copies what it polled.                                 *)
Scratch ==
  /\ pc["w"] # "copy" => got["w"] = <<>> /\ over["w"] = {}
  /\ pc["r"] \notin {"copy", "copytry"} => got["r"] = <<>>
  /\ ~crossed => over["r"] = {}

(* The datagrams the reader has polled or may poll have landed, in order,  *)
(* and after whatever it has returned.                                     *)
Data(i) == mem[Pending[i].slot]

Ordered ==
  /\ \A i \in Recvs : Data(i) \in landed
  /\ \A i, j \in Recvs : i < j => Data(i) < Data(j)
  /\ \A k \in 1 .. Len(out) : \A i \in Recvs : out[k] < Data(i)

(* Until the endpoint is closed a WriteTo that has posted has one SEND, on *)
(* the send queue or in the CQ, or none, if the reader has taken it; when  *)
(* it sees one in what it copies, polled over its own batch or not, none   *)
(* is left; and otherwise there is no SEND.                                *)
Sends == {i \in 1 .. Len(cq) : cq[i].op = "send"}
HasSend(batch) == \E i \in 1 .. Len(batch) : batch[i].op = "send"
Seen == HasSend(got["w"]) \/ \E b \in over["w"] : HasSend(b)
NoSend == sending = 0 /\ Sends = {}

OneSend ==
  ~closed =>
    /\ sending \in {0, 1}
    /\ \A i, j \in Sends : i = j
    /\ Sends # {} => sending = 0
    /\ pc["w"] \in {"idle", "ah", "post"} => NoSend
    /\ Seen => NoSend

Reads == SlotsDistinct /\ Ordered /\ Increasing

IInv == Typing /\ Scratch /\ OneSend /\ (~crossed => Reads)

-----------------------------------------------------------------------------
(* A Poll takes the first completions and leaves the others.               *)
LEMMA PollSplits ==
  ASSUME cq \in Batch
  PROVE  /\ Len(Polled) \in 0 .. Len(cq) /\ Polled \in Batch
         /\ \A i \in 1 .. Len(Polled) : Polled[i] = cq[i]
         /\ Unpolled \in Batch
         /\ Len(Unpolled) = Len(cq) - Len(Polled)
         /\ \A i \in 1 .. Len(Unpolled) : Unpolled[i] = cq[i + Len(Polled)]
<1> DEFINE n == IF Len(cq) > Depth THEN Depth ELSE Len(cq)
<1>1. n \in 0 .. Len(cq) /\ Len(cq) \in Nat
  BY PacketAssumption DEF PacketAssumption, Batch
<1>2. Polled = SubSeq(cq, 1, n)
  BY DEF Polled
<1> HIDE DEF n
<1>3. Len(Polled) = n /\ Polled \in Batch /\ \A i \in 1 .. n : Polled[i] = cq[i]
  BY <1>1, <1>2 DEF Batch
<1>4. Unpolled = SubSeq(cq, n + 1, Len(cq))
  BY <1>3 DEF Unpolled
<1>5. /\ Unpolled \in Batch
      /\ Len(Unpolled) = Len(cq) - n
      /\ \A i \in 1 .. Len(Unpolled) : Unpolled[i] = cq[i + n]
  BY <1>1, <1>4 DEF Batch
<1> QED
  BY <1>1, <1>3, <1>5

LEMMA Joined ==
  ASSUME NEW g \in Batch, NEW q \in Batch
  PROVE  /\ g \o q \in Batch /\ Len(g \o q) = Len(g) + Len(q)
         /\ Len(g) \in Nat /\ Len(q) \in Nat
         /\ \A i \in 1 .. Len(g) : (g \o q)[i] = g[i]
         /\ \A i \in 1 .. Len(q) : (g \o q)[i + Len(g)] = q[i]
BY DEF Batch

LEMMA EmptyJoined == ASSUME NEW q \in Batch PROVE <<>> \o q = q
BY DEF Batch

LEMMA Rejoined == ASSUME cq \in Batch PROVE Polled \o Unpolled = cq
<1>1. /\ Len(Polled) \in 0 .. Len(cq) /\ Polled \in Batch /\ Unpolled \in Batch
      /\ \A i \in 1 .. Len(Polled) : Polled[i] = cq[i]
      /\ Len(Unpolled) = Len(cq) - Len(Polled)
      /\ \A i \in 1 .. Len(Unpolled) : Unpolled[i] = cq[i + Len(Polled)]
  BY PollSplits
<1> DEFINE whole == Polled \o Unpolled
<1>2. /\ whole \in Batch /\ Len(whole) = Len(cq) /\ Len(cq) \in Nat
      /\ \A i \in 1 .. Len(Polled) : whole[i] = cq[i]
      /\ \A i \in 1 .. Len(Unpolled) : whole[i + Len(Polled)] = cq[i + Len(Polled)]
  BY <1>1, Joined DEF Batch
<1> HIDE DEF whole
<1>3. ASSUME NEW i \in 1 .. Len(cq) PROVE whole[i] = cq[i]
  <2>1. CASE i \in 1 .. Len(Polled)
    BY <1>2, <2>1
  <2>2. CASE i \notin 1 .. Len(Polled)
    <3>1. i - Len(Polled) \in 1 .. Len(Unpolled)
      BY <1>1, <1>2, <2>2
    <3>2. whole[(i - Len(Polled)) + Len(Polled)] = cq[(i - Len(Polled)) + Len(Polled)]
      BY <1>2, <3>1
    <3>3. (i - Len(Polled)) + Len(Polled) = i
      BY <1>1, <1>2
    <3> QED
      BY <3>2, <3>3
  <2> QED
    BY <2>1, <2>2
<1>4. whole = cq
  BY <1>2, <1>3 DEF Batch
<1> QED
  BY <1>4 DEF whole

-----------------------------------------------------------------------------
(* What stays of the pending completions, in its order, stays in order,    *)
(* and its slots are not posted.                                           *)
LEMMA Shifted ==
  ASSUME SlotsDistinct, Ordered, NEW n \in Nat,
         \A i \in Recvs' : i \in Nat /\ i + n \in Recvs /\ Pending'[i] = Pending[i + n]
  PROVE  /\ \A i, j \in Recvs' : Pending'[i].slot = Pending'[j].slot => i = j
         /\ \A i \in Recvs' : Pending'[i].slot \notin ToSet(posted)
         /\ \A i \in Recvs' : mem[Pending'[i].slot] \in landed
         /\ \A i, j \in Recvs' : i < j => mem[Pending'[i].slot] < mem[Pending'[j].slot]
         /\ \A k \in 1 .. Len(out) : \A i \in Recvs' : out[k] < mem[Pending'[i].slot]
<1>1. \A i, j \in Recvs' : (i + n = j + n => i = j) /\ (i < j => i + n < j + n)
  OBVIOUS
<1>2. \A i, j \in Recvs' : Pending'[i].slot = Pending'[j].slot => i = j
  BY <1>1 DEF SlotsDistinct
<1>3. \A i \in Recvs' : Pending'[i].slot \notin ToSet(posted)
  BY DEF SlotsDistinct
<1>4. \A i \in Recvs' : mem[Pending'[i].slot] \in landed
  BY DEF Ordered, Data
<1>5. \A i, j \in Recvs' : i < j => mem[Pending'[i].slot] < mem[Pending'[j].slot]
  BY <1>1 DEF Ordered, Data
<1>6. \A k \in 1 .. Len(out) : \A i \in Recvs' : out[k] < mem[Pending'[i].slot]
  BY DEF Ordered, Data
<1> QED
  BY <1>2, <1>3, <1>4, <1>5, <1>6

LEMMA ShiftKeeps ==
  ASSUME Reads, NEW n \in Nat, UNCHANGED <<posted, out, landed, mem>>,
         \A i \in Recvs' : i \in Nat /\ i + n \in Recvs /\ Pending'[i] = Pending[i + n]
  PROVE  Reads'
<1>1. SlotsDistinct /\ Ordered /\ Increasing
  BY DEF Reads
<1>2. SlotsDistinct'
  BY <1>1, Shifted DEF SlotsDistinct
<1>3. Ordered'
  BY <1>1, Shifted DEF Ordered, Data
<1>4. Increasing'
  BY <1>1 DEF Increasing
<1> QED
  BY <1>2, <1>3, <1>4 DEF Reads

(* Of a sequence without its first n elements.                             *)
LEMMA DroppedShift ==
  ASSUME Pending \in Batch, Pending' \in Batch, NEW n \in Nat,
         Len(Pending') + n = Len(Pending),
         \A i \in 1 .. Len(Pending') : Pending'[i] = Pending[i + n]
  PROVE  \A i \in Recvs' : i \in Nat /\ i + n \in Recvs /\ Pending'[i] = Pending[i + n]
<1>1. Len(Pending) \in Nat /\ Len(Pending') \in Nat
  BY DEF Batch
<1>2. \A i \in 1 .. Len(Pending') : i \in Nat /\ i + n \in 1 .. Len(Pending)
  BY <1>1
<1> QED
  BY <1>2 DEF Recvs

LEMMA SamePending ==
  ASSUME Pending' = Pending, UNCHANGED <<posted, out, landed, mem>>, Reads PROVE Reads'
<1>1. Recvs' = Recvs
  BY DEF Recvs
<1> QED
  BY <1>1 DEF Reads, SlotsDistinct, Ordered, Increasing, Data

(* A Poll leaves no SEND if it takes one, and makes no second.             *)
LEMMA PollKeepsSends ==
  ASSUME cq \in Batch, cq' = Unpolled, UNCHANGED sending,
         sending \in {0, 1}, \A i, j \in Sends : i = j, Sends # {} => sending = 0
  PROVE  /\ \A i, j \in Sends' : i = j
         /\ Sends' # {} => Sends # {}
         /\ HasSend(Polled) => NoSend'
<1> DEFINE n == Len(Polled)
<1>1. /\ n \in 0 .. Len(cq) /\ Len(cq) \in Nat
      /\ \A i \in 1 .. n : Polled[i] = cq[i]
      /\ Len(cq') = Len(cq) - n
      /\ \A i \in 1 .. Len(cq') : cq'[i] = cq[i + n]
  BY PollSplits DEF Batch
<1> HIDE DEF n
<1>2. \A i \in Sends' : i \in Nat /\ i > 0 /\ i + n \in Sends
  BY <1>1 DEF Sends
<1>3. \A i, j \in Sends' : i = j
  <2> SUFFICES ASSUME NEW i \in Sends', NEW j \in Sends' PROVE i = j
    OBVIOUS
  <2>1. i + n = j + n
    BY <1>2
  <2> QED
    BY <1>1, <1>2, <2>1
<1>4. ASSUME HasSend(Polled) PROVE NoSend'
  <2>1. PICK j \in 1 .. n : j \in Sends
    BY <1>1, <1>4 DEF HasSend, Sends, n
  <2>2. ASSUME NEW i \in Sends' PROVE FALSE
    <3>1. i + n = j
      BY <1>2, <2>1
    <3> QED
      BY <1>1, <1>2, <2>1, <3>1
  <2> QED
    BY <2>1, <2>2 DEF NoSend
<1> QED
  BY <1>2, <1>3, <1>4

-----------------------------------------------------------------------------
(* The receive slots.                                                      *)
LEMMA AppendSlot ==
  ASSUME posted \in Seq(Slots), IsInjective(posted), NEW s \in Slots, s \notin ToSet(posted),
         posted' = Append(posted, s)
  PROVE  /\ posted' \in Seq(Slots) /\ IsInjective(posted')
         /\ ToSet(posted') = ToSet(posted) \cup {s}
BY DEF IsInjective, ToSet

LEMMA TailSlot ==
  ASSUME posted \in Seq(Slots), posted # <<>>, posted' = Tail(posted)
  PROVE  /\ posted' \in Seq(Slots)
         /\ IsInjective(posted) =>
              /\ IsInjective(posted')
              /\ ToSet(posted') \subseteq ToSet(posted) \ {Head(posted)}
         /\ Head(posted) \in ToSet(posted) /\ Head(posted) \in Slots
<1>1. /\ Len(posted') = Len(posted) - 1 /\ Len(posted) \in Nat \ {0}
      /\ posted' \in Seq(Slots)
      /\ \A i \in 1 .. Len(posted') : posted'[i] = posted[i + 1]
      /\ Head(posted) = posted[1] /\ posted[1] \in Slots
      /\ DOMAIN posted = 1 .. Len(posted) /\ DOMAIN posted' = 1 .. Len(posted')
  OBVIOUS
<1>2. IsInjective(posted) => IsInjective(posted')
  BY <1>1 DEF IsInjective
<1>3. IsInjective(posted) => ToSet(posted') \subseteq ToSet(posted) \ {Head(posted)}
  BY <1>1 DEF IsInjective, ToSet
<1>4. Head(posted) \in ToSet(posted)
  BY <1>1 DEF ToSet
<1> QED
  BY <1>1, <1>2, <1>3, <1>4

LEMMA AppendJoined ==
  ASSUME NEW g \in Batch, NEW q \in Batch, NEW c \in Completion
  PROVE  g \o Append(q, c) = Append(g \o q, c)
<1> USE DEF Batch
<1>1. g \o Append(q, c) \in Batch /\ Append(g \o q, c) \in Batch
  OBVIOUS
<1>2. /\ Len(g \o Append(q, c)) = Len(g) + Len(q) + 1
      /\ Len(Append(g \o q, c)) = Len(g) + Len(q) + 1
  OBVIOUS
<1>3. \A i \in 1 .. Len(g) + Len(q) + 1 : (g \o Append(q, c))[i] = Append(g \o q, c)[i]
  OBVIOUS
<1> QED
  BY <1>1, <1>2, <1>3

LEMMA AppendPending ==
  ASSUME got["r"] \in Batch, cq \in Batch, NEW c \in Completion,
         cq' = Append(cq, c), UNCHANGED got
  PROVE  /\ Pending \in Batch /\ Len(Pending) \in Nat
         /\ \A i \in Recvs' : \/ i \in Recvs /\ Pending'[i] = Pending[i]
                              \/ c.op = "recv" /\ i = Len(Pending) + 1 /\ Pending'[i] = c
         /\ \A i \in Recvs : i \in Nat /\ i < Len(Pending) + 1
<1>1. Pending' = Append(Pending, c) /\ Pending \in Batch
  <2>1. Pending \in Batch
    BY Joined DEF Pending
  <2>2. got["r"] \o Append(cq, c) = Append(got["r"] \o cq, c)
    BY AppendJoined
  <2> QED
    BY <2>1, <2>2 DEF Pending
<1>2. /\ Len(Pending') = Len(Pending) + 1 /\ Len(Pending) \in Nat
      /\ \A i \in 1 .. Len(Pending) : Pending'[i] = Pending[i]
      /\ Pending'[Len(Pending) + 1] = c
  BY <1>1 DEF Batch
<1>3. \A i \in 1 .. Len(Pending') : i \in 1 .. Len(Pending) \/ i = Len(Pending) + 1
  BY <1>2
<1> QED
  BY <1>1, <1>2, <1>3 DEF Recvs

LEMMA AppendSends ==
  ASSUME cq \in Batch, NEW c \in Completion, cq' = Append(cq, c)
  PROVE  /\ cq' \in Batch
         /\ \A i \in Sends' : i \in Sends \/ (c.op = "send" /\ i = Len(cq) + 1)
<1>1. /\ Len(cq') = Len(cq) + 1 /\ Len(cq) \in Nat /\ cq' \in Batch
      /\ \A i \in 1 .. Len(cq) : cq'[i] = cq[i]
      /\ cq'[Len(cq) + 1] = c
  BY DEF Batch
<1>2. \A i \in 1 .. Len(cq') : i \in 1 .. Len(cq) \/ i = Len(cq) + 1
  BY <1>1
<1> QED
  BY <1>1, <1>2 DEF Sends

-----------------------------------------------------------------------------
LEMMA Initially == Init => IInv
<1> SUFFICES ASSUME Init PROVE IInv
  OBVIOUS
<1>1. /\ posted = [i \in 1 .. Depth |-> i - 1] /\ Depth \in Nat \ {0}
      /\ cq = <<>> /\ out = <<>> /\ sending = 0 /\ arrived = 0 /\ landed = {}
      /\ mem = [s \in Slots |-> 0]
      /\ got = [p \in Both |-> <<>>] /\ over = [p \in Both |-> {}] /\ crossed = FALSE
      /\ closed = FALSE /\ cls = "open" /\ pc = [p \in Both |-> "idle"]
  BY PacketAssumption DEF Init, PacketAssumption, Both
<1>2. posted \in Seq(Slots) /\ DOMAIN posted = 1 .. Depth
  BY <1>1 DEF Slots
<1>3. Typing
  <2>1. closed = (cls # "open")
    BY <1>1, Zenon
  <2>2. pc \in [Both -> Places]
    BY <1>1 DEF Places
  <2>3. cq \in Batch /\ out \in Seq(Nat) /\ landed \subseteq 1 .. arrived /\ <<>> \in Batch
    BY <1>1 DEF Batch
  <2>4. got \in [Both -> Batch] /\ over \in [Both -> SUBSET Batch] /\ mem \in [Slots -> Nat]
    BY <1>1, <2>3
  <2> QED
    BY <1>1, <1>2, <2>1, <2>2, <2>3, <2>4 DEF Typing
<1>4. got["r"] = <<>> /\ got["w"] = <<>> /\ over["r"] = {} /\ over["w"] = {}
  BY <1>1 DEF Both
<1>5. Recvs = {} /\ Sends = {} /\ ~Seen
  <2>1. Pending = <<>>
    BY <1>1, <1>4 DEF Pending
  <2>2. 1 .. Len(<<>>) = {}
    OBVIOUS
  <2> QED
    BY <1>1, <1>4, <2>1, <2>2, Zenon DEF Recvs, Sends, Seen, HasSend
<1>6. SlotsDistinct
  BY <1>1, <1>2, <1>5 DEF SlotsDistinct, IsInjective
<1>7. Ordered /\ OneSend /\ Scratch
  BY <1>1, <1>4, <1>5 DEF Ordered, OneSend, NoSend, Scratch
<1>8. Increasing
  BY <1>1 DEF Increasing, ToSet
<1> QED
  BY <1>3, <1>6, <1>7, <1>8 DEF IInv, Reads

(* A step that moves a caller on, who is not copying, and does nothing to  *)
(* the queues; the writer goes from no SEND to no SEND, or anywhere if it  *)
(* may have one.                                                           *)
InCall == pc["w"] \notin {"idle", "ah", "post"}

LEMMA CallerStep ==
  ASSUME IInv, NEW p \in Both, NEW place \in Places, Go(p, place),
         pc[p] \notin {"copy", "copytry"},
         UNCHANGED <<posted, cq, out, sending, arrived, landed, mem, cwc, closed, cls>>,
         p = "w" => \/ place \notin {"idle", "ah", "post"}
                    \/ ~InCall
                    \/ closed
  PROVE  IInv'
<1>0. UNCHANGED <<got, over, crossed>>
  BY DEF cwc
<1>1. pc' \in [Both -> Places] /\ pc' = [pc EXCEPT ![p] = place]
  BY DEF IInv, Typing, Go
<1>2. Typing'
  BY <1>0, <1>1 DEF IInv, Typing
<1>3. Pending' = Pending /\ Sends' = Sends /\ Seen' = Seen
  BY <1>0 DEF Pending, Sends, Seen, HasSend
<1>4. ~crossed' => Reads'
  BY <1>0, <1>3, SamePending DEF IInv
<1>5. Scratch'
  BY <1>0, <1>1 DEF IInv, Scratch, Typing, Both
<1>6. ~closed /\ pc'["w"] \in {"idle", "ah", "post"} => ~InCall
  BY <1>1 DEF IInv, Typing, InCall, Both
<1>7. OneSend'
  BY <1>3, <1>6 DEF IInv, OneSend, InCall, NoSend
<1> QED
  BY <1>2, <1>4, <1>5, <1>7 DEF IInv

LEMMA WaitKeeps ==
  ASSUME IInv, NEW p \in Both, WaitCQ(p) PROVE IInv'
<1>1. /\ UNCHANGED <<posted, cq, out, sending, arrived, landed, mem, cwc, closed, cls>>
      /\ pc[p] \notin {"copy", "copytry"}
  BY DEF WaitCQ, Arm, Wait, Wake, calls, nic, chan
<1>2. CASE Arm(p) /\ ~CqLive
  <2>1. Go(p, "idle")
    BY <1>2 DEF Arm
  <2>2. closed
    BY <1>2 DEF IInv, Typing, CqLive, QpLive
  <2> QED
    BY <1>1, <2>1, <2>2, CallerStep DEF Places
<1>3. CASE Arm(p) /\ CqLive
  <2>1. Go(p, "wait")
    BY <1>3 DEF Arm
  <2> QED
    BY <1>1, <2>1, CallerStep DEF Places
<1>4. CASE Wait(p) \/ Wake(p)
  <2>1. Go(p, "asleep") \/ Go(p, "poll")
    BY <1>4 DEF Wait, Wake
  <2> QED
    BY <1>1, <2>1, CallerStep DEF Places
<1> QED
  BY <1>2, <1>3, <1>4 DEF WaitCQ

LEMMA CallKeeps ==
  ASSUME IInv, ReadCall \/ WriteCall \/ AddressHandle PROVE IInv'
<1>1. UNCHANGED <<posted, cq, out, sending, arrived, landed, mem, cwc, closed, cls>>
  BY DEF ReadCall, WriteCall, AddressHandle, calls, nic, chan
<1>2. CASE ReadCall
  BY <1>1, <1>2, CallerStep DEF ReadCall, Places, Both
<1>3. CASE WriteCall
  BY <1>1, <1>3, CallerStep DEF WriteCall, Places, InCall, Both
<1>4. CASE AddressHandle
  <2>1. ~InCall /\ pc["w"] = "ah"
    BY <1>4 DEF AddressHandle, InCall
  <2>2. Go("w", "post") \/ Go("w", "panic") \/ Go("w", "idle")
    BY <1>4 DEF AddressHandle
  <2> QED
    BY <1>1, <2>1, <2>2, CallerStep DEF Places, Both
<1> QED
  BY <1>2, <1>3, <1>4

-----------------------------------------------------------------------------
(* What a Poll of either caller does to cwc and to the SENDs.              *)
LEMMA PollTypes ==
  ASSUME Typing, NEW p \in Both, Poll(p)
  PROVE  /\ cq' \in Batch /\ got' \in [Both -> Batch] /\ over' \in [Both -> SUBSET Batch]
         /\ crossed' \in BOOLEAN /\ (~crossed' => ~crossed)
         /\ got' = [got EXCEPT ![p] = Polled] /\ cq' = Unpolled
         /\ \A o \in Both : over'[o] \subseteq over[o] \cup {Polled}
         /\ \A o \in Both : over'[o] # over[o] =>
              o # p /\ got[o] # <<>> /\ crossed' = TRUE
<1>1. /\ cq' = Unpolled /\ got' = [got EXCEPT ![p] = Polled]
      /\ \E o \in Both \ {p}, meets \in BOOLEAN :
           /\ meets = (Polled # <<>> /\ got[o] # <<>>)
           /\ over' = IF meets THEN [over EXCEPT ![o] = @ \cup {Polled}] ELSE over
           /\ crossed' = (crossed \/ meets)
  <2> DEFINE o == IF p = "r" THEN "w" ELSE "r"
             meets == Polled # <<>> /\ got[o] # <<>>
  <2>1. o \in Both \ {p} /\ meets \in BOOLEAN
    BY DEF Both
  <2>2. /\ cq' = Unpolled /\ got' = [got EXCEPT ![p] = Polled]
        /\ over' = IF meets THEN [over EXCEPT ![o] = @ \cup {Polled}] ELSE over
        /\ crossed' = (crossed \/ meets)
    BY Zenon DEF Poll
  <2> HIDE DEF o
  <2> QED
    BY <2>1, <2>2, Zenon
<1>2. Polled \in Batch /\ Unpolled \in Batch
  BY PollSplits DEF Typing
<1>3. PICK o \in Both \ {p}, meets \in BOOLEAN :
           /\ meets = (Polled # <<>> /\ got[o] # <<>>)
           /\ over' = IF meets THEN [over EXCEPT ![o] = @ \cup {Polled}] ELSE over
           /\ crossed' = (crossed \/ meets)
  BY <1>1
<1>4. CASE meets
  <2>1. over' = [over EXCEPT ![o] = @ \cup {Polled}] /\ got[o] # <<>> /\ crossed' = TRUE
    BY <1>3, <1>4
  <2> QED
    BY <1>1, <1>2, <2>1 DEF Typing
<1>5. CASE ~meets
  <2>1. over' = over /\ crossed' = crossed
    BY <1>3, <1>5, Zenon DEF Typing
  <2> QED
    BY <1>1, <1>2, <2>1 DEF Typing
<1> QED
  BY <1>4, <1>5

LEMMA PollSends ==
  ASSUME Typing, OneSend, NEW p \in Both, Poll(p), UNCHANGED <<sending, closed>>,
         p = "w" => pc'["w"] \notin {"idle", "ah", "post"},
         p = "r" => pc'["w"] = pc["w"]
  PROVE  OneSend'
<1> SUFFICES ASSUME ~closed PROVE OneSend'
  BY DEF OneSend
<1>1. /\ sending \in {0, 1} /\ (\A i, j \in Sends : i = j) /\ (Sends # {} => sending = 0)
      /\ (pc["w"] \in {"idle", "ah", "post"} => NoSend) /\ (Seen => NoSend)
  BY DEF OneSend
<1>2. /\ \A i, j \in Sends' : i = j
      /\ Sends' # {} => Sends # {}
      /\ HasSend(Polled) => NoSend'
  BY <1>1, PollTypes, PollKeepsSends DEF Typing
<1>3. NoSend => NoSend'
  BY <1>2 DEF NoSend
<1>4. Seen' => Seen \/ HasSend(Polled)
  <2>1. got'["w"] \in {got["w"], Polled} /\ over'["w"] \subseteq over["w"] \cup {Polled}
    BY PollTypes DEF Typing, Both
  <2> QED
    BY <2>1 DEF Seen, HasSend
<1>5. pc'["w"] \in {"idle", "ah", "post"} => NoSend
  BY <1>1 DEF Both
<1> QED
  BY <1>1, <1>2, <1>3, <1>4, <1>5 DEF OneSend

LEMMA ReadPollKeeps == ASSUME IInv, ReadPoll PROVE IInv'
<1>1. /\ UNCHANGED <<out, posted, sending, arrived, landed, mem, closed, cls>>
      /\ pc["r"] \in {"poll", "try"}
  BY DEF ReadPoll, nic
<1>2. CASE Stops /\ Go("r", "idle") /\ UNCHANGED <<cq, cwc>>
  BY <1>1, <1>2, CallerStep DEF Places, Both
<1>3. CASE ~(Stops /\ Go("r", "idle") /\ UNCHANGED <<cq, cwc>>)
  <2>1. /\ Poll("r")
        /\ \E place \in Places :
             /\ pc' = [pc EXCEPT !["r"] = place]
             /\ place \notin {"copy", "copytry"} => Polled = <<>>
    BY <1>3 DEF ReadPoll, NoDatagram, Go, Places
  <2>2. Typing /\ Scratch /\ OneSend /\ got["r"] = <<>>
    BY <1>1 DEF IInv, Scratch
  <2>3. pc' \in [Both -> Places] /\ pc'["w"] = pc["w"]
    BY <2>1, <2>2 DEF Typing, Both
  <2>4. Typing'
    <3>1. /\ cq' \in Batch /\ got' \in [Both -> Batch] /\ over' \in [Both -> SUBSET Batch]
          /\ crossed' \in BOOLEAN
      BY <2>1, <2>2, PollTypes DEF Both
    <3> QED
      BY <1>1, <2>2, <2>3, <3>1 DEF Typing
  <2>5. OneSend'
    BY <1>1, <2>1, <2>2, <2>3, PollSends DEF Both
  <2>6. /\ got'["r"] = Polled /\ got'["w"] = got["w"] /\ cq' = Unpolled
        /\ over'["r"] = over["r"] /\ (got["w"] = <<>> => over'["w"] = over["w"])
        /\ ~crossed' => ~crossed
    BY <2>1, <2>2, PollTypes DEF Both, Typing
  <2>7. Scratch'
    <3>1. pc'["r"] \notin {"copy", "copytry"} => Polled = <<>>
      BY <2>1, <2>2 DEF Typing, Both
    <3> QED
      BY <2>2, <2>3, <2>6, <3>1 DEF Scratch
  <2>8. Pending' = Pending
    <3>1. cq \in Batch
      BY <2>2 DEF Typing
    <3> QED
      BY <2>2, <2>6, <3>1, Rejoined, EmptyJoined DEF Pending
  <2>9. ~crossed' => Reads'
    BY <1>1, <2>6, <2>8, SamePending DEF IInv
  <2> QED
    BY <2>4, <2>5, <2>7, <2>9 DEF IInv
<1> QED
  BY <1>2, <1>3

-----------------------------------------------------------------------------
(* The reader takes a datagram: the first of those pending.                *)
LEMMA TakeKeeps ==
  ASSUME Typing, Typing', Reads, NEW i \in Recvs, NEW n \in Nat, i < n + 1,
         out' = Append(out, Data(i)), posted' = Append(posted, Pending[i].slot),
         Pending[i].slot \in Slots, UNCHANGED <<landed, mem>>,
         \A j \in Recvs' : /\ j \in Nat \ {0} /\ j + n \in Recvs
                           /\ Pending'[j] = Pending[j + n]
  PROVE  Reads'
<1> DEFINE d == Data(i)
           s == Pending[i].slot
<1>0. i \in Nat
  BY DEF Recvs
<1>1. SlotsDistinct /\ Ordered /\ Increasing
  BY DEF Reads
<1>2. /\ \A j, k \in Recvs' : Pending'[j].slot = Pending'[k].slot => j = k
      /\ \A j \in Recvs' : Pending'[j].slot \notin ToSet(posted)
      /\ \A j \in Recvs' : mem[Pending'[j].slot] \in landed
      /\ \A j, k \in Recvs' : j < k => mem[Pending'[j].slot] < mem[Pending'[k].slot]
      /\ \A k \in 1 .. Len(out) : \A j \in Recvs' : out[k] < mem[Pending'[j].slot]
  BY <1>1, Shifted
<1>3. \A j \in Recvs' : i < j + n /\ i # j + n
  BY <1>0
<1>4. SlotsDistinct'
  <2>1. s \notin ToSet(posted) /\ IsInjective(posted) /\ posted \in Seq(Slots)
    BY <1>1 DEF SlotsDistinct, Typing
  <2>2. IsInjective(posted') /\ ToSet(posted') = ToSet(posted) \cup {s}
    BY <2>1, AppendSlot
  <2>3. \A j \in Recvs' : Pending'[j].slot # s
    BY <1>1, <1>3 DEF SlotsDistinct
  <2> QED
    BY <1>2, <2>2, <2>3 DEF SlotsDistinct
<1>5. d \in landed /\ d \in Nat /\ \A k \in 1 .. Len(out) : out[k] < d
  BY <1>1 DEF Ordered, Typing
<1>6. \A j \in Recvs' : d < mem[Pending'[j].slot]
  BY <1>1, <1>3 DEF Ordered, Data
<1>7. /\ Len(out') = Len(out) + 1 /\ Len(out) \in Nat
      /\ \A k \in 1 .. Len(out) : out'[k] = out[k] /\ out[k] \in Nat
      /\ out'[Len(out) + 1] = d
  BY <1>5 DEF Typing
<1> HIDE DEF d, s
<1>8. \A k \in 1 .. Len(out') : \A j \in Recvs' : out'[k] < mem[Pending'[j].slot]
  <2> SUFFICES ASSUME NEW k \in 1 .. Len(out'), NEW j \in Recvs'
               PROVE  out'[k] < mem[Pending'[j].slot]
    OBVIOUS
  <2>1. CASE k \in 1 .. Len(out)
    BY <1>2, <1>7, <2>1
  <2>2. CASE k = Len(out) + 1
    BY <1>6, <1>7, <2>2
  <2> QED
    BY <1>7, <2>1, <2>2
<1>9. Ordered'
  BY <1>2, <1>8 DEF Ordered, Data
<1>10. Increasing'
  <2>1. ToSet(out') \subseteq ToSet(out) \cup {d}
    BY <1>7 DEF ToSet, Typing
  <2>2. ToSet(out') \subseteq landed'
    BY <1>1, <1>5, <2>1 DEF Increasing
  <2>3. ASSUME NEW k \in 1 .. Len(out') - 1 PROVE out'[k] < out'[k + 1]
    <3>1. CASE k \in 1 .. Len(out) - 1
      BY <1>1, <1>7, <3>1 DEF Increasing
    <3>2. CASE k = Len(out)
      <4>1. k \in 1 .. Len(out)
        BY <2>3, <3>2, <1>7
      <4> QED
        BY <1>5, <1>7, <3>2, <4>1
    <3> QED
      BY <1>7, <2>3, <3>1, <3>2
  <2> QED
    BY <2>2, <2>3 DEF Increasing
<1> QED
  BY <1>4, <1>9, <1>10 DEF Reads

LEMMA ReadCopyKeeps == ASSUME IInv, ReadCopy PROVE IInv'
<1>1. /\ UNCHANGED <<cq, sending, arrived, landed, mem, closed, cls, crossed>>
      /\ got' = [got EXCEPT !["r"] = <<>>] /\ over' = [over EXCEPT !["r"] = {}]
  BY DEF ReadCopy, nic, Copied
<1>2. Typing /\ Scratch /\ OneSend /\ (~crossed => Reads)
  BY DEF IInv
<1>3. \E place \in Places : /\ pc' = [pc EXCEPT !["r"] = place]
                            /\ place \notin {"copy", "copytry"}
  BY DEF ReadCopy, Take, NoDatagram, Go, Places
<1>4. pc' \in [Both -> Places] /\ pc'["w"] = pc["w"] /\ pc'["r"] \notin {"copy", "copytry"}
  BY <1>2, <1>3 DEF Typing, Both
<1>5. /\ got'["r"] = <<>> /\ over'["r"] = {} /\ got'["w"] = got["w"] /\ over'["w"] = over["w"]
      /\ got' \in [Both -> Batch] /\ over' \in [Both -> SUBSET Batch]
  BY <1>1, <1>2 DEF Typing, Both, Batch
<1>6. Scratch'
  BY <1>2, <1>4, <1>5 DEF Scratch
<1>7. OneSend'
  <2>1. Sends' = Sends /\ Seen' = Seen
    BY <1>1, <1>5 DEF Sends, Seen, HasSend
  <2> QED
    BY <1>1, <1>2, <1>4, <2>1 DEF OneSend, NoSend
<1>8. CASE UNCHANGED <<out, posted>>
  <2>1. Typing'
    BY <1>1, <1>2, <1>4, <1>5, <1>8 DEF Typing
  <2>2. ASSUME ~crossed' PROVE Reads'
    <3> DEFINE n == Len(got["r"])
    <3>1. /\ Pending \in Batch /\ n \in Nat /\ Len(cq) \in Nat
          /\ Len(Pending) = n + Len(cq)
          /\ \A j \in 1 .. Len(cq) : Pending[j + n] = cq[j]
      BY <1>2, Joined DEF Typing, Both, Pending
    <3>2. Pending' = cq /\ cq \in Batch
      BY <1>1, <1>2, <1>5, EmptyJoined DEF Pending, Typing
    <3> HIDE DEF n
    <3>3. /\ Pending' \in Batch /\ Len(Pending') + n = Len(Pending)
          /\ \A j \in 1 .. Len(Pending') : Pending'[j] = Pending[j + n]
      BY <3>1, <3>2
    <3>4. \A j \in Recvs' : j \in Nat /\ j + n \in Recvs /\ Pending'[j] = Pending[j + n]
      BY <3>1, <3>3, DroppedShift
    <3> QED
      BY <1>1, <1>2, <1>8, <2>2, <3>1, <3>4, ShiftKeeps
  <2> QED
    BY <1>6, <1>7, <2>1, <2>2 DEF IInv
<1>9. CASE ~UNCHANGED <<out, posted>>
  <2>0. PICK i \in DOMAIN got["r"] :
          /\ First("r", i, "recv")
          /\ \E slot \in WRIDs("r", i) : /\ out' = Append(out, mem[slot])
                                         /\ posted' = Append(posted, slot)
    BY <1>9 DEF ReadCopy, Take, Repost
  <2>1. PICK slot \in WRIDs("r", i) : /\ out' = Append(out, mem[slot])
                                      /\ posted' = Append(posted, slot)
    BY <2>0
  <2>2. got["r"] \in Batch /\ got["r"][i] \in Completion /\ i \in 1 .. Len(got["r"])
    BY <1>2, <2>0 DEF Typing, Both, Batch
  <2>3. Entry("r", i) \subseteq Completion
    <3>1. \A b \in over["r"] : b \in Batch
      BY <1>2 DEF Typing, Both
    <3>2. \A b \in over["r"] : i <= Len(b) => b[i] \in Completion
      BY <2>2, <3>1 DEF Batch
    <3> QED
      BY <2>2, <3>2 DEF Entry
  <2>4. slot \in Slots /\ mem[slot] \in Nat
    <3>1. slot \in Slots
      BY <2>1, <2>3 DEF WRIDs, Completion
    <3> QED
      BY <1>2, <3>1 DEF Typing
  <2>5. Typing'
    <3>1. out' \in Seq(Nat) /\ posted' \in Seq(Slots)
      BY <1>2, <2>1, <2>4 DEF Typing
    <3> QED
      BY <1>1, <1>2, <1>4, <1>5, <3>1 DEF Typing
  <2>6. ASSUME ~crossed' PROVE Reads'
    <3> DEFINE n == Len(got["r"])
    <3>1. /\ Pending \in Batch /\ n \in Nat /\ Len(cq) \in Nat
          /\ Len(Pending) = n + Len(cq)
          /\ \A j \in 1 .. n : Pending[j] = got["r"][j]
          /\ \A j \in 1 .. Len(cq) : Pending[j + n] = cq[j]
      BY <1>2, Joined DEF Typing, Both, Pending
    <3>2. Pending' = cq /\ cq \in Batch
      BY <1>1, <1>2, <1>5, EmptyJoined DEF Pending, Typing
    <3>3. ~crossed /\ over["r"] = {} /\ Reads
      BY <1>1, <1>2, <2>6 DEF Scratch
    <3>4. Entry("r", i) = {got["r"][i]}
      BY <3>3 DEF Entry
    <3>5. slot = got["r"][i].slot /\ got["r"][i].op = "recv"
      BY <2>0, <2>1, <3>4 DEF WRIDs, First, Ops
    <3>6. i \in 1 .. n
      BY <2>2
    <3> HIDE DEF n
    <3>7. Pending[i] = got["r"][i] /\ i \in 1 .. Len(Pending) /\ i < n + 1
      BY <3>1, <3>6
    <3>8. i \in Recvs /\ Pending[i].slot = slot /\ Data(i) = mem[slot]
      BY <3>5, <3>7 DEF Recvs, Data
    <3>9. /\ Pending' \in Batch /\ Len(Pending') + n = Len(Pending)
          /\ \A j \in 1 .. Len(Pending') : Pending'[j] = Pending[j + n]
      BY <3>1, <3>2
    <3>10. \A j \in Recvs' : j \in Nat /\ j + n \in Recvs /\ Pending'[j] = Pending[j + n]
      BY <3>1, <3>9, DroppedShift
    <3>11. \A j \in Recvs' : j \in Nat \ {0}
      BY DEF Recvs
    <3> QED
      BY <1>1, <1>2, <2>1, <2>4, <2>5, <3>1, <3>3, <3>7, <3>8, <3>10, <3>11, TakeKeeps
  <2> QED
    BY <1>6, <1>7, <2>5, <2>6 DEF IInv
<1> QED
  BY <1>8, <1>9

-----------------------------------------------------------------------------
(* The writer polls: what it takes off the CQ is lost to the reader.       *)
LEMMA SendPollKeeps == ASSUME IInv, SendPoll PROVE IInv'
<1>1. /\ UNCHANGED <<out, posted, sending, arrived, landed, mem, closed, cls>>
      /\ pc["w"] = "poll"
  BY DEF SendPoll, nic, calls
<1>2. CASE Stops /\ Go("w", "idle") /\ UNCHANGED <<cq, cwc>>
  <2>1. closed
    BY <1>2 DEF IInv, Typing, Stops, CqLive, QpLive
  <2> QED
    BY <1>1, <1>2, <2>1, CallerStep DEF Places, Both
<1>3. CASE ~(Stops /\ Go("w", "idle") /\ UNCHANGED <<cq, cwc>>)
  <2>1. /\ Poll("w")
        /\ \E place \in {"copy", "arm", "poll"} :
             /\ pc' = [pc EXCEPT !["w"] = place]
             /\ place # "copy" => Polled = <<>>
    BY <1>3 DEF SendPoll, Go
  <2>2. Typing /\ Scratch /\ OneSend /\ got["w"] = <<>> /\ over["w"] = {}
    BY <1>1 DEF IInv, Scratch
  <2>3. /\ pc' \in [Both -> Places] /\ pc'["w"] \in {"copy", "arm", "poll"}
        /\ pc'["r"] = pc["r"]
    BY <2>1, <2>2 DEF Typing, Both, Places
  <2>4. Typing'
    <3>1. /\ cq' \in Batch /\ got' \in [Both -> Batch] /\ over' \in [Both -> SUBSET Batch]
          /\ crossed' \in BOOLEAN
      BY <2>1, <2>2, PollTypes DEF Both
    <3> QED
      BY <1>1, <2>2, <2>3, <3>1 DEF Typing
  <2>5. OneSend'
    BY <1>1, <2>1, <2>2, <2>3, PollSends DEF Both
  <2>6. /\ got'["w"] = Polled /\ got'["r"] = got["r"] /\ cq' = Unpolled
        /\ over'["w"] = {} /\ (~crossed' => over'["r"] = over["r"])
        /\ ~crossed' => ~crossed
    BY <2>1, <2>2, PollTypes DEF Both, Typing
  <2>7. Scratch'
    <3>1. pc'["w"] # "copy" => Polled = <<>>
      BY <2>1, <2>2 DEF Typing, Both
    <3> QED
      BY <2>2, <2>3, <2>6, <3>1 DEF Scratch
  <2>8. ~crossed' => Polled = <<>> \/ got["r"] = <<>>
    BY <2>1, Zenon DEF Poll
  <2>9. ASSUME ~crossed' PROVE Reads'
    <3>0. cq \in Batch /\ got["r"] \in Batch /\ Reads
      BY <2>2, <2>6, <2>9 DEF Typing, Both, IInv
    <3>1. CASE Polled = <<>>
      <4>1. cq' = cq
        BY <2>6, <3>0, <3>1, Rejoined, EmptyJoined, PollSplits
      <4>2. Pending' = Pending
        BY <2>6, <4>1 DEF Pending
      <4> QED
        BY <1>1, <3>0, <4>2, SamePending
    <3>2. CASE got["r"] = <<>>
      <4> DEFINE n == Len(Polled)
      <4>1. /\ Unpolled \in Batch /\ n \in 0 .. Len(cq) /\ Len(cq) \in Nat
            /\ Len(Unpolled) = Len(cq) - n
            /\ \A i \in 1 .. Len(Unpolled) : Unpolled[i] = cq[i + n]
        BY <3>0, PollSplits DEF Batch
      <4>2. Pending = cq /\ Pending' = Unpolled
        BY <2>6, <3>0, <3>2, <4>1, EmptyJoined DEF Pending
      <4> HIDE DEF n
      <4>3. n \in Nat
        BY <4>1
      <4>4. \A j \in Recvs' : j \in Nat /\ j + n \in Recvs /\ Pending'[j] = Pending[j + n]
        <5>1. /\ Pending \in Batch /\ Pending' \in Batch
              /\ \A i \in 1 .. Len(Pending') : Pending'[i] = Pending[i + n]
          BY <3>0, <4>1, <4>2
        <5>2. Len(Pending') + n = Len(Pending)
          BY <4>1, <4>2
        <5> QED
          BY <4>3, <5>1, <5>2, DroppedShift
      <4> QED
        BY <1>1, <3>0, <4>3, <4>4, ShiftKeeps
    <3> QED
      BY <2>8, <2>9, <3>1, <3>2
  <2> QED
    BY <2>4, <2>5, <2>7, <2>9 DEF IInv
<1> QED
  BY <1>2, <1>3

(* The wait ends with the only SEND there is.                              *)
LEMMA SendCopyKeeps == ASSUME IInv, SendCopy PROVE IInv'
<1>1. /\ UNCHANGED <<cq, out, posted, sending, arrived, landed, mem, closed, cls, crossed>>
      /\ got' = [got EXCEPT !["w"] = <<>>] /\ over' = [over EXCEPT !["w"] = {}]
  BY DEF SendCopy, nic, calls, Copied
<1>2. Typing /\ Scratch /\ OneSend /\ (~crossed => Reads)
  BY DEF IInv
<1>3. \E place \in {"idle", "poll"} :
        /\ pc' = [pc EXCEPT !["w"] = place]
        /\ place = "idle" => \E i \in DOMAIN got["w"] : First("w", i, "send")
  BY DEF SendCopy, Go
<1>4. /\ pc' \in [Both -> Places] /\ pc'["r"] = pc["r"]
      /\ pc'["w"] \in {"idle", "poll"}
      /\ pc'["w"] = "idle" => \E i \in DOMAIN got["w"] : First("w", i, "send")
  BY <1>2, <1>3 DEF Typing, Both, Places
<1>5. /\ got'["w"] = <<>> /\ over'["w"] = {} /\ got'["r"] = got["r"] /\ over'["r"] = over["r"]
      /\ got' \in [Both -> Batch] /\ over' \in [Both -> SUBSET Batch]
  BY <1>1, <1>2 DEF Typing, Both, Batch
<1>6. Typing'
  BY <1>1, <1>2, <1>4, <1>5 DEF Typing
<1>7. Scratch'
  BY <1>1, <1>2, <1>4, <1>5 DEF Scratch
<1>8. pc'["w"] = "idle" => Seen
  <2> SUFFICES ASSUME NEW i \in DOMAIN got["w"], First("w", i, "send") PROVE Seen
    BY <1>4
  <2>1. i \in 1 .. Len(got["w"])
    BY <1>2 DEF Typing, Both, Batch
  <2>2. PICK c \in Entry("w", i) : c.op = "send"
    BY DEF First, Ops
  <2>3. CASE c = got["w"][i]
    BY <2>1, <2>2, <2>3 DEF Seen, HasSend
  <2>4. CASE \E b \in over["w"] : i <= Len(b) /\ c = b[i]
    <3>1. PICK b \in over["w"] : i <= Len(b) /\ c = b[i]
      BY <2>4
    <3>2. b \in Batch
      BY <1>2 DEF Typing, Both
    <3>3. i \in 1 .. Len(b)
      BY <2>1, <3>1, <3>2 DEF Batch
    <3> QED
      BY <2>2, <3>1, <3>3 DEF Seen, HasSend
  <2> QED
    BY <2>2, <2>3, <2>4 DEF Entry
<1>9. OneSend'
  <2>1. Sends' = Sends /\ ~Seen'
    BY <1>1, <1>5 DEF Sends, Seen, HasSend
  <2> QED
    BY <1>1, <1>2, <1>4, <1>8, <2>1 DEF OneSend, NoSend
<1>10. ~crossed' => Reads'
  <2>1. Pending' = Pending
    BY <1>1, <1>5 DEF Pending
  <2> QED
    BY <1>1, <1>2, <2>1, SamePending
<1> QED
  BY <1>6, <1>7, <1>9, <1>10 DEF IInv

LEMMA PostKeeps == ASSUME IInv, Post PROVE IInv'
<1>1. /\ UNCHANGED <<posted, cq, out, arrived, landed, mem, cwc, closed, cls>>
      /\ pc["w"] = "post"
  BY DEF Post, calls
<1>2. Typing /\ Scratch /\ OneSend /\ (~crossed => Reads)
  BY DEF IInv
<1>3. UNCHANGED <<got, over, crossed>>
  BY <1>1 DEF cwc
<1>4. CASE QpLive
  <2>1. sending' = sending + 1 /\ pc' = [pc EXCEPT !["w"] = "poll"]
    BY <1>4 DEF Post, Go
  <2>2. Typing' /\ pc'["w"] = "poll" /\ pc'["r"] = pc["r"]
    BY <1>1, <1>2, <1>3, <2>1 DEF Typing, Places, Both
  <2>3. Sends' = Sends /\ ~Seen' /\ Pending' = Pending
    BY <1>1, <1>2, <1>3 DEF Sends, Seen, HasSend, Pending, Scratch
  <2>4. OneSend' /\ Scratch'
    BY <1>1, <1>2, <1>3, <2>1, <2>2, <2>3 DEF OneSend, NoSend, Scratch
  <2>5. ~crossed' => Reads'
    BY <1>1, <1>2, <1>3, <2>3, SamePending
  <2> QED
    BY <2>2, <2>4, <2>5 DEF IInv
<1>5. CASE ~QpLive
  <2>1. Go("w", "idle") /\ UNCHANGED sending
    BY <1>5 DEF Post
  <2> QED
    BY <1>1, <2>1, CallerStep DEF Places, InCall, Both
<1> QED
  BY <1>4, <1>5

-----------------------------------------------------------------------------
LEMMA SendDoneKeeps == ASSUME IInv, SendDone PROVE IInv'
<1>1. /\ UNCHANGED <<pc, posted, out, arrived, landed, mem, closed, cls, got, over, crossed>>
      /\ sending > 0 /\ sending' = sending - 1 /\ cq' = Append(cq, Sent)
  BY DEF SendDone, calls, Complete, cwc
<1>2. Typing /\ Scratch /\ OneSend /\ (~crossed => Reads)
  BY DEF IInv
<1>3. Sent \in Completion /\ Sent.op # "recv" /\ cq \in Batch /\ got["r"] \in Batch
  BY <1>2, PacketAssumption DEF PacketAssumption, Sent, Completion, Slots, Typing, Both
<1>4. /\ cq' \in Batch
      /\ \A i \in Sends' : i \in Sends \/ i = Len(cq) + 1
  BY <1>1, <1>3, AppendSends
<1>5. Typing' /\ Scratch'
  BY <1>1, <1>2, <1>4 DEF Typing, Scratch
<1>6. Seen' = Seen
  BY <1>1 DEF Seen, HasSend
<1>7. OneSend'
  BY <1>1, <1>2, <1>4, <1>6 DEF OneSend, NoSend
<1>8. ~crossed' => Reads'
  <2>1. \A i \in Recvs' : i \in Nat /\ i + 0 \in Recvs /\ Pending'[i] = Pending[i + 0]
    <3>1. \A i \in Recvs' : i \in Recvs /\ i \in Nat /\ Pending'[i] = Pending[i]
      BY <1>1, <1>3, AppendPending
    <3> QED
      BY <3>1
  <2> QED
    BY <1>1, <1>2, <2>1, ShiftKeeps
<1> QED
  BY <1>5, <1>7, <1>8 DEF IInv

(* A datagram that lands is the last, and takes a slot off the queue.      *)
LEMMA ArriveKeeps == ASSUME IInv, Arrive PROVE IInv'
<1>1. /\ UNCHANGED <<pc, out, sending, closed, cls, got, over, crossed>>
      /\ arrived' = arrived + 1
  BY DEF Arrive, calls, cwc
<1>2. Typing /\ Scratch /\ OneSend /\ (~crossed => Reads)
  BY DEF IInv
<1>3. Scratch' /\ Seen' = Seen
  BY <1>1, <1>2 DEF Scratch, Seen, HasSend
<1>4. CASE UNCHANGED <<posted, landed, mem, cq>>
  <2>1. Typing'
    BY <1>1, <1>2, <1>4 DEF Typing
  <2>2. Pending' = Pending /\ Sends' = Sends
    BY <1>1, <1>4 DEF Pending, Sends
  <2>3. OneSend'
    BY <1>1, <1>2, <1>3, <1>4, <2>2 DEF OneSend, NoSend
  <2>4. ~crossed' => Reads'
    BY <1>1, <1>2, <1>4, <2>2, SamePending
  <2> QED
    BY <1>3, <2>1, <2>3, <2>4 DEF IInv
<1>5. CASE ~UNCHANGED <<posted, landed, mem, cq>>
  <2> DEFINE h == Head(posted)
             c == Recv(h)
  <2>1. /\ posted # <<>> /\ posted' = Tail(posted)
        /\ landed' = landed \cup {arrived + 1} /\ cq' = Append(cq, c)
        /\ mem' = [mem EXCEPT ![h] = arrived + 1]
    BY <1>1, <1>5 DEF Arrive, Complete
  <2>2. /\ posted' \in Seq(Slots)
        /\ IsInjective(posted) =>
             /\ IsInjective(posted')
             /\ ToSet(posted') \subseteq ToSet(posted) \ {h}
        /\ h \in ToSet(posted) /\ h \in Slots
    BY <1>2, <2>1, TailSlot DEF Typing
  <2>3. c \in Completion /\ c.slot = h /\ c.op = "recv"
    BY <2>2 DEF Recv, Completion
  <2> HIDE DEF c, h
  <2>4. cq \in Batch /\ got["r"] \in Batch /\ mem \in [Slots -> Nat]
    BY <1>2 DEF Typing, Both
  <2>5. cq' \in Batch /\ \A i \in Sends' : i \in Sends
    BY <2>1, <2>3, <2>4, AppendSends
  <2>6. Typing'
    <3>1. mem' \in [Slots -> Nat] /\ landed' \subseteq 1 .. arrived'
      BY <1>1, <1>2, <2>1, <2>2 DEF Typing
    <3> QED
      BY <1>1, <1>2, <2>2, <2>5, <3>1 DEF Typing
  <2>7. OneSend'
    BY <1>1, <1>2, <1>3, <2>5 DEF OneSend, NoSend
  <2>8. ASSUME ~crossed' PROVE Reads'
    <3>0. SlotsDistinct /\ Ordered /\ Increasing
      BY <1>1, <1>2, <2>8 DEF Reads
    <3>1. /\ Len(Pending) \in Nat /\ Pending \in Batch
          /\ \A i \in Recvs' : \/ i \in Recvs /\ Pending'[i] = Pending[i]
                               \/ i = Len(Pending) + 1 /\ Pending'[i] = c
          /\ \A i \in Recvs : i \in Nat /\ i < Len(Pending) + 1
      BY <1>1, <2>1, <2>3, <2>4, AppendPending
    <3>2. \A i \in Recvs : Pending[i].slot \in Slots
      <4>1. \A i \in 1 .. Len(Pending) : Pending[i] \in Completion
        BY <3>1 DEF Batch
      <4>2. \A d \in Completion : d.slot \in Slots
        BY DEF Completion
      <4> QED
        BY <4>1, <4>2 DEF Recvs
    <3>3. SlotsDistinct'
      <4> DEFINE taken == ToSet(posted)
                 left  == ToSet(posted')
      <4>1. /\ left \subseteq taken \ {h} /\ h \in taken /\ IsInjective(posted')
            /\ \A i, j \in Recvs : Pending[i].slot = Pending[j].slot => i = j
            /\ \A i \in Recvs : Pending[i].slot \notin taken
        BY <2>2, <3>0, Zenon DEF SlotsDistinct
      <4> HIDE DEF taken, left
      <4>2. \A i \in Recvs : Pending[i].slot # h /\ Pending[i].slot \notin left
        BY <4>1
      <4>3. \A i \in Recvs' : \/ i \in Recvs /\ Pending'[i].slot = Pending[i].slot
                              \/ i = Len(Pending) + 1 /\ Pending'[i].slot = h
        BY <2>3, <3>1, Zenon
      <4>4. \A i, j \in Recvs' : Pending'[i].slot = Pending'[j].slot => i = j
        BY <4>1, <4>2, <4>3, Zenon
      <4>5. \A i \in Recvs' : Pending'[i].slot \notin left
        BY <4>1, <4>2, <4>3, Zenon
      <4> QED
        BY <4>1, <4>4, <4>5, Zenon DEF SlotsDistinct, left
    <3>4. \A i \in Recvs : Pending[i].slot # h
      BY <2>2, <3>0 DEF SlotsDistinct
    <3>5. \A i \in Recvs' : \/ i \in Recvs /\ Data(i)' = Data(i)
                            \/ i = Len(Pending) + 1 /\ Data(i)' = arrived + 1
      <4>1. mem'[h] = arrived + 1 /\ \A s \in Slots : s # h => mem'[s] = mem[s]
        BY <2>1, <2>2, <2>4
      <4>2. \A i \in Recvs : mem'[Pending[i].slot] = mem[Pending[i].slot]
        BY <3>2, <3>4, <4>1
      <4> QED
        BY <2>3, <3>1, <4>1, <4>2 DEF Data
    <3>6. \A d \in landed : d \in Nat /\ d < arrived + 1
      BY <1>2 DEF Typing
    <3>7. Ordered'
      <4>1. \A i \in Recvs' : Data(i)' \in landed'
        BY <2>1, <3>0, <3>5 DEF Ordered
      <4>2. \A i, j \in Recvs' : i < j => Data(i)' < Data(j)'
        BY <3>0, <3>1, <3>5, <3>6 DEF Ordered
      <4>3. \A k \in 1 .. Len(out) : out[k] < arrived + 1
        BY <1>2, <3>0, <3>6 DEF Increasing, ToSet, Typing
      <4>4. \A k \in 1 .. Len(out') : \A i \in Recvs' : out'[k] < Data(i)'
        BY <1>1, <3>0, <3>5, <4>3 DEF Ordered
      <4> QED
        BY <4>1, <4>2, <4>4 DEF Ordered
    <3>8. Increasing'
      BY <1>1, <2>1, <3>0 DEF Increasing
    <3> QED
      BY <3>3, <3>7, <3>8 DEF Reads
  <2> QED
    BY <1>3, <2>6, <2>7, <2>8 DEF IInv
<1> QED
  BY <1>4, <1>5

LEMMA CloseKeeps == ASSUME IInv, CloseStep PROVE IInv'
<1>1. UNCHANGED <<pc, out, arrived, landed, mem, got, over, crossed>>
  BY DEF CloseStep, calls, cwc
<1>2. Typing /\ Scratch /\ OneSend /\ (~crossed => Reads)
  BY DEF IInv
<1>3. cls' \in {"closed", "noahs", "noqp", "nocq", "gone"} /\ closed' = TRUE
  BY <1>2 DEF CloseStep, Close, Typing
<1>4. OneSend' /\ Scratch'
  BY <1>1, <1>2, <1>3 DEF OneSend, Scratch
<1>5. CASE UNCHANGED <<posted, sending, cq>>
  <2>1. Typing'
    BY <1>1, <1>2, <1>3, <1>5 DEF Typing
  <2>2. Pending' = Pending
    BY <1>1, <1>5 DEF Pending
  <2>3. ~crossed' => Reads'
    BY <1>1, <1>2, <1>5, <2>2, SamePending
  <2> QED
    BY <1>4, <2>1, <2>3 DEF IInv
<1>6. CASE ~UNCHANGED <<posted, sending, cq>>
  <2>1. posted' = <<>> /\ sending' = 0 /\ cq' = <<>>
    BY <1>6 DEF CloseStep, Close
  <2>2. Typing'
    <3>1. closed' = (cls' # "open")
      BY <1>3, Zenon
    <3>2. posted' \in Seq(Slots) /\ cq' \in Batch
      BY <2>1 DEF Batch
    <3> QED
      BY <1>1, <1>2, <1>3, <2>1, <3>1, <3>2 DEF Typing
  <2>3. ASSUME ~crossed' PROVE Reads'
    <3>0. SlotsDistinct /\ Ordered /\ Increasing
      BY <1>1, <1>2, <2>3 DEF Reads
    <3>1. /\ Pending' = got["r"] \o <<>> /\ Pending = got["r"] \o cq
          /\ got["r"] \in Batch /\ cq \in Batch /\ <<>> \in Batch
      BY <1>1, <1>2, <2>1 DEF Pending, Typing, Both, Batch
    <3>2. /\ Len(Pending') = Len(got["r"]) /\ Len(got["r"]) \in 0 .. Len(Pending)
          /\ \A i \in 1 .. Len(got["r"]) : Pending'[i] = Pending[i]
      BY <3>1 DEF Batch
    <3>3. \A i \in Recvs' : i \in Nat /\ i \in Recvs /\ Pending'[i] = Pending[i]
      BY <3>2 DEF Recvs
    <3>4. \A i \in Recvs' : i \in Nat /\ i + 0 \in Recvs /\ Pending'[i] = Pending[i + 0]
      BY <3>3
    <3>5. /\ \A i, j \in Recvs' : Pending'[i].slot = Pending'[j].slot => i = j
          /\ \A i \in Recvs' : mem[Pending'[i].slot] \in landed
          /\ \A i, j \in Recvs' : i < j => mem[Pending'[i].slot] < mem[Pending'[j].slot]
          /\ \A k \in 1 .. Len(out) : \A i \in Recvs' : out[k] < mem[Pending'[i].slot]
      BY <3>0, <3>4, Shifted
    <3>6. SlotsDistinct'
      BY <2>1, <3>5 DEF SlotsDistinct, IsInjective, ToSet
    <3>7. Ordered' /\ Increasing'
      BY <1>1, <3>0, <3>5 DEF Ordered, Data, Increasing
    <3> QED
      BY <3>6, <3>7 DEF Reads
  <2> QED
    BY <1>4, <2>2, <2>3 DEF IInv
<1> QED
  BY <1>5, <1>6

LEMMA Inductive == IInv /\ [Next]_vars => IInv'
<1> SUFFICES ASSUME IInv, [Next]_vars PROVE IInv'
  OBVIOUS
<1>1. CASE Reader
  BY <1>1, CallKeeps, ReadPollKeeps, ReadCopyKeeps, WaitKeeps DEF Reader, Read, Both
<1>2. CASE WriteCall
  BY <1>2, CallKeeps
<1>3. CASE Writer
  BY <1>3, CallKeeps, PostKeeps, SendPollKeeps, SendCopyKeeps, WaitKeeps
     DEF Writer, WaitSend, Both
<1>4. CASE SendDone
  BY <1>4, SendDoneKeeps
<1>5. CASE Arrive
  BY <1>5, ArriveKeeps
<1>6. CASE CloseStep
  BY <1>6, CloseKeeps
<1>7. CASE UNCHANGED vars
  <2>1. UNCHANGED <<pc, posted, cq, out, sending, arrived, landed, mem, got, over, crossed,
                    closed, cls>>
    BY <1>7 DEF vars, calls, nic, cwc
  <2>2. Pending' = Pending /\ Sends' = Sends /\ Seen' = Seen
    BY <2>1 DEF Pending, Sends, Seen, HasSend
  <2>3. ~crossed' => Reads'
    BY <2>1, <2>2, SamePending DEF IInv
  <2> QED
    BY <2>1, <2>2, <2>3 DEF IInv, Typing, Scratch, OneSend, NoSend
<1> QED
  BY <1>1, <1>2, <1>3, <1>4, <1>5, <1>6, <1>7 DEF Next

(* Every reachable state satisfies the invariant.                          *)
THEOREM InductiveInvariant == Spec => []IInv
BY Initially, Inductive, PTL DEF Spec

(* Between two calls the send buffer is free; and as long as no batch is   *)
(* polled over another no receive slot is posted twice, or while its       *)
(* datagram waits to be read.                                              *)
THEOREM BuffersAreOwned == Spec => []BuffersOwned
<1>1. IInv => BuffersOwned
  BY DEF IInv, OneSend, NoSend, Reads, BuffersOwned, SendBufferFree
<1> QED
  BY <1>1, InductiveInvariant, PTL

(* Until a batch is polled over another ReadFrom returns what has landed,  *)
(* in order and not twice.                                                 *)
THEOREM DatagramsAreInOrder == Spec => []InOrder
<1>1. IInv => InOrder
  BY DEF IInv, Reads, InOrder
<1> QED
  BY <1>1, InductiveInvariant, PTL

-----------------------------------------------------------------------------
(* The registry.                                                           *)

ClientEnds == {"none", "open", "closed", "vanished"}
ServerEnds == {"none", "backlog", "reading", "replying", "closed"}
Responses  == Addrs \cup {"ok", "missing name", "not found"}

Typed ==
  /\ scene \in Scenes
  /\ cli \in [Conns -> ClientEnds] /\ srv \in [Conns -> ServerEnds]
  /\ request \in [Conns -> Requests \cup {None}]
  /\ reply \in [Conns -> Responses \cup {None}]
  /\ answer \in [Conns -> Responses \cup {None, "error"}]
  /\ tbl \in [Names -> Addrs \cup {None}]

(* Each end of a connection knows how far its call is: one that is dialled *)
(* has asked, one that is open has not returned, and a handler that still  *)
(* reads has not replied.                                                  *)
CallState ==
  \A k \in Conns :
    /\ cli[k] = "none" => request[k] = None /\ srv[k] = "none" /\ k \notin sent
    /\ cli[k] # "none" => request[k] # None
    /\ cli[k] \in {"none", "open"} => answer[k] = None
    /\ srv[k] \in {"none", "backlog", "reading"} => reply[k] = None

CallsInv == Typed /\ CallState

-----------------------------------------------------------------------------
LEMMA RegistryInitially == RegistryInit => CallsInv
<1> SUFFICES ASSUME RegistryInit PROVE Typed /\ CallState
  BY DEF CallsInv
<1>1. Typed
  BY DEF RegistryInit, Typed, ClientEnds, ServerEnds
<1>2. CallState
  BY DEF RegistryInit, CallState
<1> QED
  BY <1>1, <1>2

LEMMA AsksRequests ==
  ASSUME NEW sc \in Scenes, NEW k \in DOMAIN sc.asks
  PROVE  sc.asks[k] \in Requests /\ sc.asks[k] # None
BY RegistryAssumption DEF RegistryAssumption

(* Steps of clients and handlers, each on its own connection.              *)
LEMMA StepsOfCalls ==
  ASSUME CallsInv, NEW k \in Conns,
         Dial(k) \/ Client(k) \/ Vanish(k) \/ Accept(k) \/ Handler(k)
  PROVE  CallsInv'
<1> USE DEF CallsInv, Typed, CallState, ClientEnds, ServerEnds
<1>1. CASE Dial(k)
  <2>1. scene.asks[k] \in Requests /\ scene.asks[k] # None
    BY <1>1, AsksRequests DEF Dial
  <2>2. Typed'
    BY <1>1, <2>1 DEF Dial, closing
  <2>3. CallState'
    BY <1>1, <2>1 DEF Dial
  <2> QED
    BY <2>2, <2>3
<1>2. CASE Send(k)
  BY <1>2 DEF Send, server, closing
<1>3. CASE Receive(k) \/ GiveUp(k)
  <2>1. PICK a \in Responses \cup {"error"} : Return(k, a)
    BY <1>3 DEF Receive, GiveUp, Answer
  <2> QED
    BY <2>1 DEF Return, server
<1>4. CASE Vanish(k)
  BY <1>4 DEF Vanish, server
<1>5. CASE Accept(k)
  BY <1>5 DEF Accept, client
<1>6. CASE Apply(k)
  <2>1. request[k] \in Requests
    BY <1>6 DEF Apply
  <2>2. /\ tbl' \in [Names -> Addrs \cup {None}]
        /\ \E a \in Responses : reply' = [reply EXCEPT ![k] = a]
    <3>1. CASE request[k].op = "lookup"
      BY <1>6, <2>1, <3>1 DEF Apply, Found, Requests, Responses
    <3>2. CASE request[k].op = "register"
      BY <1>6, <2>1, <3>2 DEF Apply, Requests, Responses
    <3> QED
      BY <2>1, <3>1, <3>2 DEF Requests
  <2>3. Typed'
    BY <1>6, <2>2 DEF Apply, client
  <2>4. CallState'
    BY <1>6, <2>2 DEF Apply, client
  <2> QED
    BY <2>3, <2>4
<1>7. CASE Reply(k)
  BY <1>7 DEF Reply, client
<1>8. CASE ReadFails(k)
  BY <1>8 DEF ReadFails, ReadEnds, client
<1> QED
  BY <1>1, <1>2, <1>3, <1>4, <1>5, <1>6, <1>7, <1>8 DEF Client, Handler

(* Steps of the accept loop and of Close.                                  *)
LEMMA StepsOfServer ==
  ASSUME CallsInv, AcceptFails \/ \E g \in Closers : CloseCall(g) \/ Closer(g)
  PROVE  CallsInv'
<1> USE DEF CallsInv, Typed, CallState, ClientEnds, ServerEnds
<1>1. CASE AcceptFails
  BY <1>1 DEF AcceptFails, client
<1>2. ASSUME NEW g \in Closers, CloseCall(g) \/ CloseDone(g)
      PROVE  CallsInv'
  BY <1>2 DEF CloseCall, CloseDone, client, server
<1>3. ASSUME NEW g \in Closers, CloseListener(g)
      PROVE  CallsInv'
  BY <1>3 DEF CloseListener, client
<1> QED
  BY <1>1, <1>2, <1>3 DEF Closer

(* The state of every call, in every state of the registry.                *)
THEOREM CallsAreKept == RegistrySpec => []CallsInv
<1>1. CallsInv /\ [RegistryNext]_registryVars => CallsInv'
  <2> SUFFICES ASSUME CallsInv, [RegistryNext]_registryVars PROVE CallsInv'
    OBVIOUS
  <2>1. CASE RegistryNext
    BY <2>1, StepsOfCalls, StepsOfServer DEF RegistryNext
  <2>2. CASE UNCHANGED registryVars
    BY <2>2 DEF registryVars, client, server, closing, CallsInv, Typed, CallState
  <2> QED
    BY <2>1, <2>2
<1> QED
  BY RegistryInitially, <1>1, PTL DEF RegistrySpec

-----------------------------------------------------------------------------
LEMMA InitMaps == RegistryInit => D!Init
BY DEF RegistryInit, D!Init

(* Nothing a client can see changes.                                       *)
LEMMA Stutters ==
  ASSUME UNCHANGED <<tbl, request, reply, answer>>
  PROVE  UNCHANGED D!vars
BY DEF D!vars

LEMMA CallStepMaps ==
  ASSUME CallsInv, NEW k \in Conns,
         Dial(k) \/ Client(k) \/ Vanish(k) \/ Accept(k) \/ Handler(k)
  PROVE  [D!Next]_(D!vars)
<1> USE DEF CallsInv, Typed, CallState
<1>1. CASE Dial(k)
  <2>1. request[k] = None /\ scene.asks[k] \in Requests
    BY <1>1, AsksRequests DEF Dial
  <2>2. D!Invoke(k)
    BY <1>1, <2>1 DEF Dial, D!Invoke, Requests
  <2> QED
    BY <2>2 DEF D!Next
<1>2. CASE Receive(k) \/ GiveUp(k)
  <2>1. PICK a \in {reply[k], "error"} \ {None} : Return(k, a)
    BY <1>2, RegistryAssumption DEF Receive, GiveUp, Answer, RegistryAssumption
  <2>2. D!Return(k)
    BY <2>1 DEF Return, server, D!Return
  <2> QED
    BY <2>2 DEF D!Next
<1>3. CASE Apply(k)
  <2>1. request[k] # None /\ reply[k] = None
    BY <1>3 DEF Apply
  <2>2. \/ D!Register(k, request[k]) \/ D!Refuse(k, request[k])
        \/ D!Lookup(k, request[k])
    BY <1>3 DEF Apply, Found, D!Register, D!Refuse, D!Lookup
  <2>3. D!TakeEffect(k)
    BY <1>3, <2>1, <2>2 DEF Apply, client, D!TakeEffect
  <2> QED
    BY <2>3 DEF D!Next
<1>4. CASE Send(k) \/ Vanish(k) \/ Accept(k) \/ Reply(k) \/ ReadFails(k)
  BY <1>4, Stutters
  DEF Send, Vanish, Accept, Reply, ReadFails, client, server
<1> QED
  BY <1>1, <1>2, <1>3, <1>4 DEF Client, Handler

LEMMA ServerStepMaps ==
  ASSUME AcceptFails \/ \E g \in Closers : CloseCall(g) \/ Closer(g)
  PROVE  [D!Next]_(D!vars)
BY Stutters DEF AcceptFails, CloseCall, Closer, CloseDone, CloseListener,
                client, server

(* A registered name is found, and each call takes effect at most once,    *)
(* before it is answered with success: the registry is a Directory.        *)
THEOREM RegistryIsDirectory == RegistrySpec => ImplementsDirectory
<1>1. CallsInv /\ [RegistryNext]_registryVars => [D!Next]_(D!vars)
  <2> SUFFICES ASSUME CallsInv, [RegistryNext]_registryVars PROVE [D!Next]_(D!vars)
    OBVIOUS
  <2>1. CASE RegistryNext
    BY <2>1, CallStepMaps, ServerStepMaps DEF RegistryNext
  <2>2. CASE UNCHANGED registryVars
    BY <2>2, Stutters DEF registryVars, client, server
  <2> QED
    BY <2>1, <2>2
<1> QED
  BY InitMaps, <1>1, CallsAreKept, PTL DEF RegistrySpec, D!Spec, ImplementsDirectory
=============================================================================
