----------------------------- MODULE PacketConn -----------------------------
(***************************************************************************)
(* The datagram endpoint of rdmanet/packet_linux.go: one reader and one    *)
(* writer ("safe for one concurrent reader and one concurrent writer") who *)
(* share one completion queue, the NIC, and Close. Datagrams fit the       *)
(* reader's buffer and complete without error; a datagram that does not    *)
(* fit is taken and its slot posted again just the same.                   *)
(*                                                                         *)
(* CQ.Poll has the verbs library fill an array of the CQ, cwc, and then    *)
(* copies it out entry by entry and field by field. Reader and writer hold *)
(* different mutexes, so the one may fill it while the other copies: what  *)
(* is copied then is any mix of the fields of the batches that were there. *)
(*                                                                         *)
(* Operators marked "Defect" are wrong on purpose: each is what a          *)
(* plausible slip would make of the definition below it, and no behaviour  *)
(* uses it.                                                                *)
(***************************************************************************)
EXTENDS Naturals, Sequences, FiniteSets, SequencesExt

CONSTANTS
  Depth,      \* pc.depth: receive slots, and completions of one Poll
  MaxIn,      \* bound: datagrams sent to this endpoint
  MaxOut,     \* bound: calls of WriteTo
  MaxReads,   \* bound: calls of ReadFrom and ReadFromBatch
  MaxBatch,   \* largest max of ReadFromBatch
  Modes,      \* poll modes
  Uses        \* "concurrent": a reader and a writer, datagrams at any time;
              \* "paced": one goroutine, and one datagram per ReadFrom

ASSUME PacketAssumption ==
  /\ Depth \in Nat \ {0} /\ MaxBatch \in Nat \ {0}
  /\ {MaxIn, MaxOut, MaxReads} \subseteq Nat
  /\ Modes \subseteq {"busy", "event"} /\ Uses \subseteq {"concurrent", "paced"}

VARIABLES
  mode,      \* pc.cfg.pollMode
  use,       \* what the callers and the peer do
  pc,        \* where the reader "r" and the writer "w" are
  want,      \* datagrams the reader's call may still return
  reads, writes, \* calls made
  out,       \* datagrams returned by ReadFrom, in order
  posted,    \* receive slots in the receive queue, in order
  sending,   \* sends on the send queue
  arrived,   \* datagrams the peer sent
  landed,    \* those that found a posted slot
  mem,       \* mem[s]: the datagram the NIC wrote into slot s last
  cq, armed, events, \* the CQ, its notification, its channel
  got,       \* got[p]: the batch p polled and has not copied out of cwc yet
  over,      \* over[p]: the batches polled over it since
  crossed,   \* a batch has been polled over another (history)
  ahs,       \* pc.ahs, for the peer's address: "empty", "cached", "nil"
  closed,    \* pc.closed
  cls        \* Close: "open", "closed", "noahs", "noqp", "nocq", "gone"

calls == <<mode, use, want, reads, writes, out>>   \* the callers' side
nic   == <<sending, arrived, landed, mem>>
chan  == <<armed, events>>
cwc   == <<got, over, crossed>>
vars  == <<pc, calls, posted, nic, cq, chan, cwc, ahs, closed, cls>>

Slots == 0 .. Depth - 1

Init ==
  /\ mode \in Modes /\ use \in Uses
  /\ pc = [p \in {"r", "w"} |-> "idle"]
  /\ want = 0 /\ reads = 0 /\ writes = 0 /\ out = <<>>
  /\ posted = [i \in 1 .. Depth |-> i - 1]
  /\ sending = 0 /\ arrived = 0 /\ landed = {} /\ mem = [s \in Slots |-> 0]
  /\ cq = <<>> /\ armed = FALSE /\ events = 0
  /\ got = [p \in {"r", "w"} |-> <<>>] /\ over = [p \in {"r", "w"} |-> {}]
  /\ crossed = FALSE
  /\ ahs = "empty" /\ closed = FALSE /\ cls = "open"

QpLive == cls \in {"open", "closed", "noahs"}
CqLive == QpLive \/ cls = "noqp"

\* (The WRID of a SEND is that of the one send slot, 0.)
Recv(slot) == [op |-> "recv", slot |-> slot]
Sent       == [op |-> "send", slot |-> 0]

-----------------------------------------------------------------------------
(* CQ.Poll of p: the library takes at most Depth completions off the CQ.   *)
(* The batch is in cwc now, over one the other caller has not copied yet.  *)
Polled == SubSeq(cq, 1, IF Len(cq) > Depth THEN Depth ELSE Len(cq))

\* Defect: keeps the whole batch for the next call, not what is left of it.
KeepBatch == cq

Unpolled == SubSeq(cq, Len(Polled) + 1, Len(cq))

Poll(p) ==
  LET other == IF p = "r" THEN "w" ELSE "r"
      meets == Polled # <<>> /\ got[other] # <<>>
  IN
  /\ cq' = Unpolled
  /\ got' = [got EXCEPT ![p] = Polled]
  /\ over' = IF meets THEN [over EXCEPT ![other] = @ \cup {Polled}] ELSE over
  /\ crossed' = (crossed \/ meets)

(* The copy: what the i-th entry of p's batch may say, field by field.     *)
Entry(p, i) == {got[p][i]} \cup {b[i] : b \in {x \in over[p] : i <= Len(x)}}
Ops(p, i)   == {c.op : c \in Entry(p, i)}
WRIDs(p, i) == {c.slot : c \in Entry(p, i)}

\* Defect: the test of the opcode is inverted.
FirstOther(p, i, op) ==
  /\ \E o \in Ops(p, i) : o # op
  /\ \A j \in 1 .. i - 1 : op \in Ops(p, j)

(* The loops over the batch stop at the first entry with the opcode, or    *)
(* find none.                                                              *)
First(p, i, op) == /\ op \in Ops(p, i)
                   /\ \A j \in 1 .. i - 1 : \E o \in Ops(p, j) : o # op
Lacks(p, op) == \A j \in DOMAIN got[p] : \E o \in Ops(p, j) : o # op

Copied(p) == /\ got' = [got EXCEPT ![p] = <<>>] /\ over' = [over EXCEPT ![p] = {}]
             /\ UNCHANGED crossed

\* Defect: the slot posted again is the index in the batch, not the WRID.
RepostIndex(slot) == Append(posted, 0)

Repost(slot) == Append(posted, slot)

\* Defect: neither pc.closed nor Poll's error ends the loop.
NeverStops == FALSE

Stops == closed \/ ~CqLive

Go(p, place) == pc' = [pc EXCEPT ![p] = place]

ReadCall ==
  /\ pc["r"] = "idle" /\ reads < MaxReads /\ ~closed
  /\ use = "paced" => pc["w"] = "idle"
  /\ reads' = reads + 1
  /\ \E n \in 1 .. MaxBatch : want' = n
  /\ Go("r", "poll")
  /\ UNCHANGED <<mode, use, writes, out, posted, nic, cq, chan, cwc, ahs, closed, cls>>

(* One round of ReadFrom, or the single try of tryReadFrom, polls a batch. *)
NoDatagram ==
  /\ Go("r", IF pc["r"] \in {"try", "copytry"} THEN "idle"
             ELSE IF pc["r"] = "poll" /\ mode = "event" THEN "arm" ELSE "poll")
  /\ want' = IF pc["r"] \in {"try", "copytry"} THEN 0 ELSE want

ReadPoll ==
  /\ pc["r"] \in {"poll", "try"}
  /\ \/ /\ Stops
        /\ Go("r", "idle") /\ want' = 0
        /\ UNCHANGED <<cq, cwc>>
     \/ /\ ~Stops
        /\ Poll("r")
        /\ \/ Polled = <<>> /\ NoDatagram
           \/ /\ Polled # <<>>
              /\ Go("r", IF pc["r"] = "poll" THEN "copy" ELSE "copytry")
              /\ UNCHANGED want
  /\ UNCHANGED <<mode, use, reads, writes, out, posted, nic, chan, ahs, closed, cls>>

(* It returns the first datagram of the batch: what is in the slot that the*)
(* WRID names. The other completions are gone with the batch. If the slot  *)
(* cannot be posted again, the call fails. (A provider may take more RECVs *)
(* than Depth, but only crossed batches post as many.)                     *)
Take(slot) ==
  \/ /\ QpLive
     /\ out' = Append(out, mem[slot])
     /\ posted' = Repost(slot)
     /\ want' = want - 1
     /\ Go("r", IF want = 1 THEN "idle" ELSE "try")
  \/ /\ ~QpLive
     /\ want' = 0 /\ Go("r", "idle")
     /\ UNCHANGED <<out, posted>>

ReadCopy ==
  /\ pc["r"] \in {"copy", "copytry"}
  /\ \/ \E i \in DOMAIN got["r"] : /\ First("r", i, "recv")
                                   /\ \E slot \in WRIDs("r", i) : Take(slot)
     \/ Lacks("r", "recv") /\ NoDatagram /\ UNCHANGED <<out, posted>>
  /\ Copied("r")
  /\ UNCHANGED <<mode, use, reads, writes, nic, cq, chan, ahs, closed, cls>>

Read == ReadPoll \/ ReadCopy

WriteCall ==
  /\ pc["w"] = "idle" /\ writes < MaxOut /\ ~closed
  /\ use = "paced" => pc["r"] = "idle"
  /\ writes' = writes + 1
  /\ Go("w", "ah")
  /\ UNCHANGED <<mode, use, want, reads, out, posted, nic, cq, chan, cwc, ahs, closed, cls>>

(* ah: the cached handle of the peer, or a new one. In a cache that Close  *)
(* has set to nil the insertion panics, while there is a device to make    *)
(* the handle on. (A panic ends the program; what the others do after it   *)
(* does not matter.)                                                       *)
AddressHandle ==
  /\ pc["w"] = "ah"
  /\ \/ ahs = "cached" /\ Go("w", "post") /\ UNCHANGED ahs
     \/ ahs = "empty" /\ Go("w", "post") /\ ahs' = "cached"
     \/ ahs = "nil" /\ cls # "gone" /\ Go("w", "panic") /\ UNCHANGED ahs
     \/ ahs = "nil" /\ cls = "gone" /\ Go("w", "idle") /\ UNCHANGED ahs
  /\ UNCHANGED <<calls, posted, nic, cq, chan, cwc, closed, cls>>

Post ==
  /\ pc["w"] = "post"
  /\ sending' = IF QpLive THEN sending + 1 ELSE sending
  /\ Go("w", IF QpLive THEN "poll" ELSE "idle")
  /\ UNCHANGED <<calls, posted, arrived, landed, mem, cq, chan, cwc, ahs, closed, cls>>

(* One round of waitSend. The datagrams of the batch are gone with it.     *)
SendPoll ==
  /\ pc["w"] = "poll"
  /\ \/ Stops /\ Go("w", "idle") /\ UNCHANGED <<cq, cwc>>
     \/ /\ ~Stops
        /\ Poll("w")
        /\ Go("w", IF Polled # <<>> THEN "copy"
                   ELSE IF mode = "event" THEN "arm" ELSE "poll")
  /\ UNCHANGED <<calls, posted, nic, chan, ahs, closed, cls>>

SendCopy ==
  /\ pc["w"] = "copy"
  /\ \/ (\E i \in DOMAIN got["w"] : First("w", i, "send")) /\ Go("w", "idle")
     \/ Lacks("w", "send") /\ Go("w", "poll")
  /\ Copied("w")
  /\ UNCHANGED <<calls, posted, nic, cq, chan, ahs, closed, cls>>

WaitSend == SendPoll \/ SendCopy

(* waitCQ in event mode: arm, then sleep until the channel has an event. A *)
(* provider may signal at once if completions are waiting.                 *)
Arm(p) ==
  /\ pc[p] = "arm"
  /\ \/ ~CqLive /\ Go(p, "idle") /\ UNCHANGED chan
     \/ /\ CqLive /\ Go(p, "wait")
        /\ \/ armed' = TRUE /\ UNCHANGED events
           \/ cq # <<>> /\ armed' = FALSE /\ events' = events + 1
  /\ UNCHANGED <<calls, posted, nic, cq, cwc, ahs, closed, cls>>

Wait(p) ==
  /\ pc[p] = "wait"
  /\ Go(p, IF CqLive THEN "asleep" ELSE "poll")
  /\ UNCHANGED <<calls, posted, nic, cq, chan, cwc, ahs, closed, cls>>

Wake(p) ==
  /\ pc[p] = "asleep" /\ events > 0
  /\ events' = events - 1
  /\ Go(p, "poll")
  /\ UNCHANGED <<calls, posted, nic, cq, armed, cwc, ahs, closed, cls>>

WaitCQ(p) == Arm(p) \/ Wait(p) \/ Wake(p)

Reader == ReadCall \/ Read \/ WaitCQ("r")
Writer == AddressHandle \/ Post \/ WaitSend \/ WaitCQ("w")

-----------------------------------------------------------------------------
(* The NIC: a completion signals an armed CQ. A datagram without a posted  *)
(* slot is dropped: UD does not retry.                                     *)
Complete(c) ==
  /\ cq' = Append(cq, c)
  /\ armed' = FALSE
  /\ events' = IF armed THEN events + 1 ELSE events

SendDone ==
  /\ sending > 0 /\ QpLive
  /\ sending' = sending - 1
  /\ Complete(Sent)
  /\ UNCHANGED <<pc, calls, posted, arrived, landed, mem, cwc, ahs, closed, cls>>

MaySend ==
  use = "paced" => cq = <<>> /\ pc["r"] \in {"poll", "try", "arm", "wait", "asleep"}

Arrive ==
  /\ arrived < MaxIn /\ MaySend
  /\ arrived' = arrived + 1
  /\ \/ /\ QpLive /\ posted # <<>>
        /\ posted' = Tail(posted)
        /\ landed' = landed \cup {arrived'}
        /\ mem' = [mem EXCEPT ![Head(posted)] = arrived']
        /\ Complete(Recv(Head(posted)))
     \/ /\ ~QpLive \/ posted = <<>>
        /\ UNCHANGED <<posted, landed, mem, cq, chan>>
  /\ UNCHANGED <<pc, calls, sending, cwc, ahs, closed, cls>>

(* Close: pc.closed, the address handles, the queue pair with its          *)
(* completions, the CQ with its events, the device. Destroying the channel *)
(* wakes nobody who reads it already.                                      *)
Close ==
  \/ /\ cls = "open"
     /\ cls' = "closed" /\ closed' = TRUE
     /\ UNCHANGED <<posted, sending, cq, chan, ahs>>
  \/ /\ cls = "closed"
     /\ cls' = "noahs" /\ ahs' = "nil"
     /\ UNCHANGED <<closed, posted, sending, cq, chan>>
  \/ /\ cls = "noahs"
     /\ cls' = "noqp" /\ posted' = <<>> /\ sending' = 0 /\ cq' = <<>>
     /\ UNCHANGED <<closed, chan, ahs>>
  \/ /\ cls = "noqp"
     /\ cls' = "nocq" /\ armed' = FALSE /\ events' = 0
     /\ UNCHANGED <<closed, posted, sending, cq, ahs>>
  \/ /\ cls = "nocq"
     /\ cls' = "gone"
     /\ UNCHANGED <<closed, posted, sending, cq, chan, ahs>>

CloseStep == Close /\ UNCHANGED <<pc, calls, arrived, landed, mem, cwc>>

Next == Reader \/ WriteCall \/ Writer \/ SendDone \/ Arrive \/ CloseStep

Spec == Init /\ [][Next]_vars

(* The reader reads on, a call goes on, a send completes, and a Close that *)
(* has begun ends. Nobody has to write, to send to us or to close.         *)
FairSpec ==
  /\ Spec
  /\ WF_vars(Reader) /\ WF_vars(Writer) /\ WF_vars(SendDone)
  /\ WF_vars(CloseStep /\ cls # "open")
=============================================================================
