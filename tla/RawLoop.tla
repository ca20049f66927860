------------------------------- MODULE RawLoop -------------------------------
(***************************************************************************)
(* The throughput loops of RawConn (rdmanet/rawconn.go): pipeline, or      *)
(* pipelineBatch, on one end of an RC connection and drain on the other.   *)
(* Work requests are numbered by cumulative counters, and everything is in *)
(* order: the NIC has taken the first `sent` SENDs, the first `arrived` of *)
(* them landed in the RECVs of the same numbers, the first `acked` have a  *)
(* completion in the sender's CQ.                                          *)
(*                                                                         *)
(* Operators marked "Defect" are wrong on purpose: each is what a          *)
(* plausible slip would make of the definition below it, and no behaviour  *)
(* uses it.                                                                *)
(***************************************************************************)
EXTENDS Integers

CONSTANTS
  Iters,       \* transfers, the same on both ends
  SendDepth,   \* txDepth argument of pipeline / pipelineBatch
  RecvDepth,   \* txDepth argument of drain
  SqCaps,      \* sizes a send queue may have (MaxSendWR)
  RqCap        \* RECVs the receive queue holds (MaxRecvWR)

ASSUME RawAssumption ==
  /\ Iters \in Nat /\ SendDepth \in Int /\ RecvDepth \in Int
  /\ SqCaps \subseteq Nat /\ RqCap \in Nat

VARIABLES
  spc, done, todo,      \* sender: completions reaped, and polled but not reaped
  batch,                \* WRs built, not submitted yet (pipelineBatch)
  sent, arrived, acked, \* the NICs
  rpc, rposted, rdone, rtodo,   \* receiver
  up,                   \* the connection works
  loop,                 \* which of the two loops the sender runs
  sqCap                 \* SENDs the send queue holds

sender   == <<spc, done, todo, batch, sent>>
receiver == <<rpc, rposted, rdone, rtodo>>
conn     == <<up, loop, sqCap>>
vars     == <<sender, arrived, acked, receiver, conn>>

Batched == loop = "pipelineBatch"

Clamp(d) == IF d < 1 THEN 1 ELSE IF d > Iters THEN Iters ELSE d
Tx == Clamp(SendDepth)
Rx == Clamp(RecvDepth)

Init ==
  /\ spc = "start" /\ done = 0 /\ todo = 0 /\ batch = 0
  /\ sent = 0 /\ arrived = 0 /\ acked = 0
  /\ rpc = "start" /\ rposted = 0 /\ rdone = 0 /\ rtodo = 0
  /\ up = TRUE
  /\ loop \in {"pipeline", "pipelineBatch"} /\ sqCap \in SqCaps

-----------------------------------------------------------------------------
(* The sender. `posted` of the source counts built WRs.                    *)
posted == sent + batch
SqRoom == sqCap - (sent - done - todo)

SendStart ==
  /\ spc = "start"
  /\ spc' = IF Iters = 0 THEN "done" ELSE "prime"
  /\ UNCHANGED <<done, todo, batch, sent, arrived, acked, receiver, conn>>

\* One PostSend, which fails on a full queue.
PostOne(next) ==
  IF SqRoom > 0 THEN sent' = sent + 1 /\ spc' = next
                ELSE spc' = "failed" /\ UNCHANGED sent

Prime ==
  /\ spc = "prime"
  /\ \/ /\ ~Batched /\ posted < Tx
        /\ PostOne("prime")
        /\ UNCHANGED batch
     \/ /\ ~Batched /\ posted >= Tx
        /\ spc' = "poll"
        /\ UNCHANGED <<batch, sent>>
     \/ /\ Batched
        /\ batch' = Tx /\ spc' = "submit"
        /\ UNCHANGED sent
  /\ UNCHANGED <<done, todo, arrived, acked, receiver, conn>>

(* One ibv_post_send of the chain: it stops at the first WR that does not  *)
(* fit, the ones before it are posted.                                     *)
Submit ==
  /\ spc = "submit"
  /\ IF batch <= SqRoom
       THEN sent' = sent + batch /\ batch' = 0 /\ spc' = "poll"
       ELSE sent' = sent + SqRoom /\ batch' = batch - SqRoom /\ spc' = "failed"
  /\ UNCHANGED <<done, todo, arrived, acked, receiver, conn>>

\* Defect: stops once everything has been posted.
PostedEnough == posted >= Iters

Enough == done >= Iters

\* Defect: takes a posted WR for a completed one.
PolledEarly(n) == n <= sent - done

Polled(n) == n <= acked - done

Poll ==
  /\ spc = "poll"
  /\ \/ /\ Enough
        /\ spc' = "done"
        /\ UNCHANGED todo
     \/ /\ ~Enough
        /\ \E n \in 1 .. Tx : Polled(n) /\ todo' = n
        /\ spc' = "reap"
  /\ UNCHANGED <<done, batch, sent, arrived, acked, receiver, conn>>

\* Defect: refills on every completion, or stops one short of iters.
RefillAlways == TRUE
RefillShort  == posted < Iters - 1

Refill == posted < Iters

Reap ==
  /\ spc = "reap"
  /\ \/ /\ todo > 0
        /\ done' = done + 1 /\ todo' = todo - 1
        /\ \/ /\ Refill /\ ~Batched
              /\ PostOne("reap")
              /\ UNCHANGED batch
           \/ /\ Refill /\ Batched
              /\ batch' = batch + 1
              /\ UNCHANGED <<spc, sent>>
           \/ /\ ~Refill
              /\ UNCHANGED <<spc, batch, sent>>
     \/ /\ todo = 0
        /\ spc' = IF batch > 0 THEN "submit" ELSE "poll"
        /\ UNCHANGED <<done, todo, batch, sent>>
  /\ UNCHANGED <<arrived, acked, receiver, conn>>

\* The first completion with an error ends the loop.
SendBroken ==
  /\ spc \in {"poll", "reap"} /\ ~up /\ sent > done
  /\ spc' = "failed"
  /\ UNCHANGED <<done, todo, batch, sent, arrived, acked, receiver, conn>>

Sender == SendStart \/ Prime \/ Submit \/ Poll \/ Reap \/ SendBroken

-----------------------------------------------------------------------------
(* The receiver: drain. RECV number k uses WRID k % txDepth.               *)
RqRoom == RqCap - (rposted - rdone - rtodo)

RecvStart ==
  /\ rpc = "start"
  /\ rpc' = IF Iters = 0 THEN "done" ELSE "prime"
  /\ UNCHANGED <<sender, arrived, acked, rposted, rdone, rtodo, conn>>

PostRecv(next) ==
  IF RqRoom > 0 THEN rposted' = rposted + 1 /\ rpc' = next
                ELSE rpc' = "failed" /\ UNCHANGED rposted

RecvPrime ==
  /\ rpc = "prime"
  /\ \/ /\ rposted < Rx
        /\ PostRecv("prime")
     \/ /\ rposted >= Rx
        /\ rpc' = "poll"
        /\ UNCHANGED rposted
  /\ UNCHANGED <<sender, arrived, acked, rdone, rtodo, conn>>

RecvPoll ==
  /\ rpc = "poll"
  /\ \/ /\ rdone >= Iters
        /\ rpc' = "done"
        /\ UNCHANGED rtodo
     \/ /\ rdone < Iters
        /\ \E n \in 1 .. Rx : n <= arrived - rdone /\ rtodo' = n
        /\ rpc' = "reap"
  /\ UNCHANGED <<sender, arrived, acked, rposted, rdone, conn>>

\* Defect: reposts for the whole poll, and one more.
RecvReapExtra ==
  /\ rpc = "reap"
  /\ rposted' = rposted + rtodo + 1 /\ rdone' = rdone + rtodo /\ rtodo' = 0
  /\ rpc' = "poll"
  /\ UNCHANGED <<sender, arrived, acked, conn>>

RecvReap ==
  /\ rpc = "reap"
  /\ \/ /\ rtodo > 0
        /\ rdone' = rdone + 1 /\ rtodo' = rtodo - 1
        /\ IF rposted < Iters THEN PostRecv("reap") ELSE UNCHANGED <<rpc, rposted>>
     \/ /\ rtodo = 0
        /\ rpc' = "poll"
        /\ UNCHANGED <<rposted, rdone, rtodo>>
  /\ UNCHANGED <<sender, arrived, acked, conn>>

RecvBroken ==
  /\ rpc \in {"poll", "reap"} /\ ~up /\ rposted > rdone
  /\ rpc' = "failed"
  /\ UNCHANGED <<sender, arrived, acked, rposted, rdone, rtodo, conn>>

Receiver == RecvStart \/ RecvPrime \/ RecvPoll \/ RecvReap \/ RecvBroken

-----------------------------------------------------------------------------
(* The NICs: a SEND waits for a RECV as long as it takes (rnr_retry 7).    *)
Arrive ==
  /\ up /\ arrived < sent /\ arrived < rposted
  /\ arrived' = arrived + 1
  /\ UNCHANGED <<sender, acked, receiver, conn>>

Ack ==
  /\ up /\ acked < arrived
  /\ acked' = acked + 1
  /\ UNCHANGED <<sender, arrived, receiver, conn>>

Break ==
  /\ up
  /\ up' = FALSE
  /\ UNCHANGED <<sender, arrived, acked, receiver, loop, sqCap>>

(* Both loops have returned, or one waits for a peer that has failed.      *)
Finished ==
  /\ spc \in {"done", "failed"} \/ rpc = "failed"
  /\ rpc \in {"done", "failed"} \/ spc = "failed"
  /\ UNCHANGED vars

Next == Sender \/ Receiver \/ Arrive \/ Ack \/ Break \/ Finished

Spec == Init /\ [][Next]_vars

(* Both loops spin on their CQ until they are done.                        *)
Fairness == WF_vars(Sender) /\ WF_vars(Receiver) /\ WF_vars(Arrive) /\ WF_vars(Ack)
FairSpec == Spec /\ Fairness

-----------------------------------------------------------------------------
(* Types, and the order of the counters.                                   *)
TypeOK ==
  /\ spc \in {"start", "prime", "submit", "poll", "reap", "done", "failed"}
  /\ rpc \in {"start", "prime", "poll", "reap", "done", "failed"}
  /\ sent \in Nat /\ batch \in Nat /\ rposted \in Nat
  /\ arrived \in 0 .. sent /\ arrived <= rposted
  /\ acked \in 0 .. arrived
  /\ done \in 0 .. acked /\ todo \in 0 .. acked - done
  /\ rdone \in 0 .. arrived /\ rtodo \in 0 .. arrived - rdone
  /\ up \in BOOLEAN
  /\ loop \in {"pipeline", "pipelineBatch"} /\ sqCap \in Nat

(* rawconn.go:29-31: at most txDepth work requests are outstanding on each *)
(* side, and never more than iters are posted in all, in both variants.    *)
WindowKept ==
  /\ posted - done <= Tx /\ posted <= Iters
  /\ rposted - rdone <= Rx /\ rposted <= Iters

(* drain reposts with WRID posted % txDepth whatever the completion said:  *)
(* still, no two RECVs that may be filled name the same slot, so no        *)
(* transfer overwrites one that has not been counted.                      *)
SlotsDistinct ==
  \A i, j \in rdone .. rposted - 1 : i # j => i % Rx # j % Rx

(* rawconn_linux.go:270 "It returns once every posted WR has completed":   *)
(* when the loops return nil every transfer is in the peer's memory, and   *)
(* the receiver has counted each exactly once.                             *)
DoneMeansDelivered ==
  /\ spc = "done" => sent = Iters /\ arrived = Iters /\ batch = 0
  /\ rpc = "done" => rdone = Iters /\ rposted = Iters /\ arrived = Iters

(* With a send queue as deep as the window both loops finish, unless the  *)
(* connection fails: neither waits for a completion that nobody posted.    *)
BothFinish == <>(~up \/ sqCap < Tx \/ (spc = "done" /\ rpc = "done"))
=============================================================================
