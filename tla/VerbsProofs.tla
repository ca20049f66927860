---------------------------- MODULE VerbsProofs ----------------------------
(***************************************************************************)
(* What uses the verbs. The loops over a completion queue: RawConn's       *)
(* throughput loops (RawLoop) keep their windows and deliver what they     *)
(* count, for every number of transfers, every window and every queue      *)
(* size; the poller of a Conn (EventPoll) never sleeps on an empty channel *)
(* while completions wait, for any batch size and any number of            *)
(* completions. And when the scratch arrays of a QP are safe (PostPath):   *)
(* if all goroutines that use an array hold one mutex around their posts,  *)
(* every request is posted as it was built. PacketConn posts so, and so    *)
(* does a RawConn of one goroutine; a Conn does not.                       *)
(***************************************************************************)
EXTENDS RawLoop, EventPoll, PostPath, TLAPS

-----------------------------------------------------------------------------
(* The throughput loops.                                                   *)

(* What is known of the loops before their first poll and at their end.    *)
Phases ==
  /\ SqRoom >= 0
  /\ spc = "start" => sent = 0 /\ batch = 0
  /\ spc = "prime" => /\ Iters > 0 /\ done = 0 /\ todo = 0 /\ batch = 0
                      /\ Batched => sent = 0
  /\ spc \in {"poll", "done"} => batch = 0 /\ todo = 0
  /\ spc = "submit" => todo = 0
  /\ ~Batched => batch = 0
  /\ spc = "done" => done >= Iters
  /\ rpc = "start" => rposted = 0 /\ rtodo = 0
  /\ rpc = "prime" => Iters > 0 /\ rdone = 0 /\ rtodo = 0
  /\ rpc = "poll" => rtodo = 0
  /\ rpc = "done" => rdone >= Iters

IInv == TypeOK /\ WindowKept /\ Phases

LEMMA ClampInRange ==
  /\ Tx \in Nat /\ (Iters > 0 => Tx \in 1 .. Iters)
  /\ Rx \in Nat /\ (Iters > 0 => Rx \in 1 .. Iters)
BY RawAssumption DEF Tx, Rx, Clamp

LEMMA Initially == Init => IInv
BY RawAssumption, ClampInRange DEF Init, IInv, TypeOK, WindowKept, Phases, posted, SqRoom, Batched

LEMMA Inductive == IInv /\ [Next]_vars => IInv'
<1> SUFFICES ASSUME IInv, [Next]_vars PROVE IInv'
  OBVIOUS
<1>a. /\ Iters \in Nat /\ SqCaps \subseteq Nat /\ RqCap \in Nat
      /\ Tx \in Nat /\ (Iters > 0 => Tx \in 1 .. Iters)
      /\ Rx \in Nat /\ (Iters > 0 => Rx \in 1 .. Iters)
  BY RawAssumption, ClampInRange
<1>b. TypeOK /\ WindowKept /\ Phases
  BY DEF IInv
<1> USE <1>a, <1>b DEF IInv, TypeOK, WindowKept, Phases, posted, SqRoom, Batched
<1>1. CASE SendStart
  BY <1>1 DEF SendStart, conn, receiver
<1>2. CASE Prime
  BY <1>2 DEF Prime, PostOne, conn, receiver
<1>3. CASE Submit
  BY <1>3 DEF Submit, conn, receiver
<1>4. CASE Poll
  BY <1>4 DEF Poll, Enough, Polled, conn, receiver
<1>5. CASE Reap
  BY <1>5 DEF Reap, Refill, PostOne, conn, receiver
<1>6. CASE SendBroken
  BY <1>6 DEF SendBroken, conn, receiver
<1>7. CASE RecvStart
  BY <1>7 DEF RecvStart, conn, sender
<1>8. CASE RecvPrime
  BY <1>8 DEF RecvPrime, PostRecv, RqRoom, conn, sender
<1>9. CASE RecvPoll
  BY <1>9 DEF RecvPoll, conn, sender
<1>10. CASE RecvReap
  BY <1>10 DEF RecvReap, PostRecv, RqRoom, conn, sender
<1>11. CASE RecvBroken
  BY <1>11 DEF RecvBroken, conn, sender
<1>12. CASE Arrive
  BY <1>12 DEF Arrive, conn, sender, receiver
<1>13. CASE Ack
  BY <1>13 DEF Ack, conn, sender, receiver
<1>14. CASE Break
  BY <1>14 DEF Break, conn, sender, receiver
<1>15. CASE Finished
  BY <1>15 DEF Finished, vars, conn, sender, receiver
<1>16. CASE UNCHANGED vars
  BY <1>16 DEF vars, conn, sender, receiver
<1>17. QED
  BY <1>1, <1>2, <1>3, <1>4, <1>5, <1>6, <1>7, <1>8, <1>9, <1>10, <1>11,
     <1>12, <1>13, <1>14, <1>15, <1>16 DEF Next, Sender, Receiver

(* The invariant of the throughput loops. *)
THEOREM InductiveInvariant == Spec => []IInv
BY Initially, Inductive, PTL DEF Spec

(* The counters of both loops and of the NICs stay in order, for every     *)
(* number of transfers, every window and every queue size.                 *)
THEOREM TypeCorrect == Spec => []TypeOK
BY InductiveInvariant, PTL DEF IInv

(* Neither loop ever has more than its window outstanding.                 *)
THEOREM WindowIsKept == Spec => []WindowKept
BY InductiveInvariant, PTL DEF IInv

(* Two numbers less than d apart have different remainders modulo d.       *)
LEMMA CloseNumbersDiffer ==
  ASSUME NEW d \in Nat, NEW i \in Nat, NEW j \in Nat, i < j, j - i < d
  PROVE  i % d # j % d
<1>1. d \in Nat \ {0}
  OBVIOUS
<1> DEFINE qi == i \div d
           qj == j \div d
<1>2. /\ qi \in Int /\ i = d * qi + (i % d) /\ i % d \in 0 .. d - 1
      /\ qj \in Int /\ j = d * qj + (j % d) /\ j % d \in 0 .. d - 1
  BY <1>1
<1>3. SUFFICES ASSUME i % d = j % d PROVE FALSE
  OBVIOUS
<1> DEFINE k == qj - qi
<1>4. k \in Int /\ j - i = d * k
  <2>1. j - i = d * qj - d * qi
    BY <1>2, <1>3
  <2>2. d * (qj - qi) = d * qj - d * qi
    BY <1>2
  <2>3. QED  BY <1>2, <2>1, <2>2
<1> HIDE DEF qi, qj, k
<1>5. CASE k <= 0
  <2>1. d * k <= 0
    BY <1>1, <1>4, <1>5
  <2>2. QED  BY <1>4, <2>1
<1>6. CASE k >= 1
  <2>1. d * k >= d
    BY <1>1, <1>4, <1>6
  <2>2. QED  BY <1>4, <2>1
<1>7. QED  BY <1>4, <1>5, <1>6

(* The RECVs that drain has posted and not counted all name different      *)
(* slots.                                                                  *)
THEOREM SlotsAreDistinct == Spec => []SlotsDistinct
<1>1. IInv => SlotsDistinct
  <2> SUFFICES ASSUME IInv, NEW i \in rdone .. rposted - 1,
                      NEW j \in rdone .. rposted - 1, i # j
               PROVE  i % Rx # j % Rx
    BY DEF SlotsDistinct
  <2>1. /\ Rx \in Nat /\ rdone \in Nat /\ rposted \in Nat
        /\ rposted - rdone <= Rx
    BY ClampInRange, RawAssumption DEF IInv, TypeOK, WindowKept
  <2>2. i \in Nat /\ j \in Nat /\ i - j < Rx /\ j - i < Rx
    BY <2>1
  <2>3. CASE i < j
    BY <2>1, <2>2, <2>3, CloseNumbersDiffer, Zenon
  <2>4. CASE j < i
    BY <2>1, <2>2, <2>4, CloseNumbersDiffer, Zenon
  <2>5. QED  BY <2>2, <2>3, <2>4
<1>2. QED  BY <1>1, InductiveInvariant, PTL

(* A loop that returns nil has transferred everything, exactly once.       *)
THEOREM DoneIsDelivered == Spec => []DoneMeansDelivered
<1>1. IInv => DoneMeansDelivered
  BY RawAssumption
  DEF IInv, TypeOK, WindowKept, Phases, posted, DoneMeansDelivered
<1>2. QED  BY <1>1, InductiveInvariant, PTL

-----------------------------------------------------------------------------
(* The poller of a Conn.                                                   *)

(* No counter goes below zero: each action takes what it has tested for.   *)
LEMMA PollerCountersKept == Counters /\ [PollerNext]_pollerVars => Counters'
<1> SUFFICES ASSUME Counters, [PollerNext]_pollerVars PROVE Counters'
  OBVIOUS
<1> USE DEF Counters
<1>1. CASE Drain
  <2>1. ready - Taken \in Nat
    BY EventAssumption DEF Taken, EventAssumption
  <2> QED
    BY <1>1, <2>1 DEF Drain
<1>2. CASE Top \/ Arm \/ Wait \/ Wake
  BY <1>2 DEF Top, Arm, Wait, Wake, hw
<1>3. CASE PostWork \/ Complete
  BY <1>3 DEF PostWork, Complete
<1>4. CASE Close
  BY <1>4 DEF Close, CloseStep
<1>5. CASE UNCHANGED pollerVars
  BY <1>5 DEF pollerVars, hw
<1> QED
  BY <1>1, <1>2, <1>3, <1>4, <1>5 DEF PollerNext, Poller

LEMMA PollerFlagsKept == Flags /\ [PollerNext]_pollerVars => Flags'
BY DEF Flags, PollerNext, pollerVars, hw, HasChannel, Poller, Top, Arm, Drain, Wait, Wake, PostWork,
       Complete, Close, CloseStep

LEMMA PollerPlacesKept == Places /\ [PollerNext]_pollerVars => Places'
<1> SUFFICES ASSUME Places, [PollerNext]_pollerVars PROVE Places'
  OBVIOUS
<1> USE DEF Places
<1>1. CASE Poller
  BY <1>1 DEF Poller, Top, Arm, AfterArm, Drain, Wait, Wake
<1>2. CASE PostWork \/ Complete \/ UNCHANGED pollerVars
  BY <1>2 DEF PostWork, Complete, pollerVars
<1>3. CASE Close
  BY <1>3 DEF Close, CloseStep
<1> QED
  BY <1>1, <1>2, <1>3 DEF PollerNext

(* No variable of the poller, the CQ or its channel leaves its type.       *)
THEOREM PollerTypeCorrect == PollerSpec => []PollerTypeOK
<1>1. PollerInit => PollerTypeOK
  <2>1. PollerInit => Places
    BY DEF PollerInit, Places
  <2>2. PollerInit => Flags
    BY DEF PollerInit, Flags
  <2>3. PollerInit => Counters
    BY EventAssumption DEF PollerInit, Counters, EventAssumption
  <2> QED
    BY <2>1, <2>2, <2>3 DEF PollerTypeOK
<1>2. PollerTypeOK /\ [PollerNext]_pollerVars => PollerTypeOK'
  BY PollerCountersKept, PollerFlagsKept, PollerPlacesKept DEF PollerTypeOK
<1> QED
  BY <1>1, <1>2, PTL DEF PollerSpec

-----------------------------------------------------------------------------
(* From the arming to the sleep the next completion is announced, or an    *)
(* announcement already waits; what is in the CQ when the poller has found *)
(* it empty arrived after the arming.                                      *)
Announced ==
  HasChannel /\ CqLive =>
    /\ pc \in {"drain", "wait", "asleep"} => armed = TRUE \/ events > 0
    /\ pc \in {"wait", "asleep"} /\ ready > 0 => events > 0

StaysInEventMode == mode = "busy" => ~HasChannel

PollerInv == Announced /\ StaysInEventMode

(* The poller's, the NIC's and Close's steps keep the invariant.           *)
LEMMA PollerInductive == Places /\ Counters /\ PollerInv /\ [PollerNext]_pollerVars => PollerInv'
<1> SUFFICES ASSUME Places, Counters, PollerInv, [PollerNext]_pollerVars PROVE PollerInv'
  OBVIOUS
<1> USE DEF Places, Counters, PollerInv, Announced, StaysInEventMode, CqLive, HasChannel
<1>1. CASE Top
  BY <1>1 DEF Top, hw
<1>2. CASE Arm
  <2>1. UNCHANGED <<mode, channel, cls>>
    BY <1>2 DEF Arm
  <2>2. \/ pc' = "exit"
        \/ pc' = "drain" /\ armed' = TRUE
        \/ pc' = "drain" /\ events' = events + 1
    BY <1>2, Zenon DEF Arm, AfterArm
  <2> QED
    BY <2>1, <2>2
<1>3. CASE Drain
  <2>1. ready = 0 => Taken = 0
    BY EventAssumption DEF Taken, EventAssumption
  <2>2. UNCHANGED <<mode, channel, armed, events, cls>>
    BY <1>3 DEF Drain
  <2>3. pc = "drain"
    BY <1>3 DEF Drain
  <2>4. \/ pc' = "exit"
        \/ pc' = "top"
        \/ pc' = "wait" /\ ready = 0 /\ ready' = ready - Taken
    BY <1>3, Zenon DEF Drain
  <2> QED
    BY <2>1, <2>2, <2>3, <2>4
<1>4. CASE Wait
  <2>1. \/ pc' = "exit" /\ UNCHANGED mode
        \/ ~HasChannel /\ pc' = "top"
        \/ pc' = "asleep" /\ UNCHANGED mode
    BY <1>4, Zenon, EventAssumption DEF Wait, EventAssumption
  <2>2. pc = "wait" /\ UNCHANGED <<channel, ready, armed, events, cls>>
    BY <1>4 DEF Wait, hw
  <2> QED
    BY <2>1, <2>2
<1>5. CASE Wake
  BY <1>5 DEF Wake
<1>6. CASE PostWork
  BY <1>6 DEF PostWork
<1>7. CASE Complete
  <2>1. /\ HasChannel /\ armed = TRUE => events' = events + 1
        /\ ~(HasChannel /\ armed = TRUE) => events' \in {events, events + 1}
    BY <1>7, Zenon DEF Complete
  <2>2. ready' = ready + 1 /\ UNCHANGED <<pc, mode, channel, cls>>
    BY <1>7 DEF Complete
  <2> QED
    BY <2>1, <2>2
<1>8. CASE Close
  BY <1>8 DEF Close, CloseStep
<1>9. CASE UNCHANGED pollerVars
  BY <1>9 DEF pollerVars, hw
<1> QED
  BY <1>1, <1>2, <1>3, <1>4, <1>5, <1>6, <1>7, <1>8, <1>9 DEF PollerNext, Poller

(* Every reachable state satisfies the invariant.                          *)
THEOREM PollerInvariant == PollerSpec => []PollerInv
<1>1. PollerInit => PollerInv
  BY DEF PollerInit, PollerInv, Announced, StaysInEventMode, HasChannel
<1>2. PollerTypeOK /\ PollerInv /\ [PollerNext]_pollerVars => PollerInv'
  BY PollerInductive DEF PollerTypeOK
<1> QED
  BY <1>1, <1>2, PollerTypeCorrect, PTL DEF PollerSpec

(* The poller never sleeps on an empty channel over a CQ that is not empty *)
(* (transport.poll arms before it drains).                                 *)
THEOREM NoWakeupIsLost == PollerSpec => []NoLostWakeup
<1>1. PollerInv => NoLostWakeup
  <2> SUFFICES ASSUME PollerInv, pc \in {"wait", "asleep"}, HasChannel,
                      CqLive, ready > 0
               PROVE  events > 0
    BY Zenon, EventAssumption DEF NoLostWakeup, EventAssumption
  <2> QED
    BY DEF PollerInv, Announced
<1> QED
  BY <1>1, PollerInvariant, PTL

-----------------------------------------------------------------------------
(* The scratch arrays of a QP.                                             *)

Requests(Ids, SGEs) == [id : Ids, sgl : Seq(SGEs), fast : BOOLEAN]

(* Every call is of a known kind, and one that is no batch has one request. *)
WellFormed(Ids, SGEs) ==
  \A g \in Goroutines :
    /\ Calls[g] \in Seq([op : Scratches, wrs : Seq(Requests(Ids, SGEs))])
    /\ \A k \in 1 .. Len(Calls[g]) :
         Calls[g][k].op # "batch" => Len(Calls[g][k].wrs) = 1

(* Goroutines that use the same array hold the same mutex. *)
Serial ==
  \A g, h \in Goroutines : \A j \in 1 .. Len(Calls[g]), k \in 1 .. Len(Calls[h]) :
    g # h /\ Calls[g][j].op = Calls[h][k].op
      => Mutex[g] = Mutex[h] /\ Mutex[g] # NoMutex

-----------------------------------------------------------------------------
CallSet(Ids, SGEs) == [op : Scratches, wrs : Seq(Requests(Ids, SGEs))]
WordLists(Ids, SGEs) == Seq(Requests(Ids, SGEs)) \cup Seq(SGEs)

CallsInPlace(Ids, SGEs) ==
  /\ at \in [Goroutines -> [begun : Nat, posting : BOOLEAN,
                            seen : WordLists(Ids, SGEs), shared : BOOLEAN]]
  /\ queued \in [{"send", "recv"} -> Seq(Requests(Ids, SGEs))]

Counting ==
  \A g \in Goroutines : /\ at[g].begun <= Len(Calls[g])
                        /\ at[g].posting => at[g].begun >= 1

(* No two goroutines are inside one mutex. *)
Excluded ==
  \A g, h \in Goroutines :
    g # h /\ at[g].posting /\ at[h].posting /\ Mutex[g] = Mutex[h]
      => Mutex[g] = NoMutex

(* What a goroutine has written is still there when C reads it. *)
Undisturbed ==
  \A g \in Goroutines : at[g].posting => at[g].seen = Words(Call(g))

SerialInv(Ids, SGEs) ==
  CallsInPlace(Ids, SGEs) /\ Counting /\ Excluded /\ Undisturbed /\ PostedAsBuilt

(* The calls are what WellFormed says, one by one. *)
LEMMA CallsTyped ==
  ASSUME NEW Ids, NEW SGEs, WellFormed(Ids, SGEs), NEW g \in Goroutines
  PROVE  /\ Len(Calls[g]) \in Nat
         /\ \A k \in 1 .. Len(Calls[g]) :
              /\ Calls[g][k] \in CallSet(Ids, SGEs)
              /\ Words(Calls[g][k]) \in WordLists(Ids, SGEs)
<1> DEFINE S == CallSet(Ids, SGEs)
<1>1. Calls[g] \in Seq(S)
  BY DEF WellFormed, CallSet
<1>2. \A k \in 1 .. Len(Calls[g]) : Calls[g][k] \in S
  <2> HIDE DEF S
  <2>1. QED  BY <1>1
<1>3. Len(Calls[g]) \in Nat
  <2> HIDE DEF S
  <2>1. QED  BY <1>1
<1>4. ASSUME NEW k \in 1 .. Len(Calls[g])
      PROVE  Words(Calls[g][k]) \in WordLists(Ids, SGEs)
  <2> DEFINE c == Calls[g][k]
  <2>1. c.wrs \in Seq(Requests(Ids, SGEs))
    BY <1>2, <1>4 DEF CallSet
  <2>2. CASE c.op = "batch"
    BY <2>1, <2>2 DEF Words, WordLists
  <2>3. CASE c.op # "batch"
    <3>1. Len(c.wrs) = 1
      BY <2>3 DEF WellFormed
    <3>2. c.wrs[1] \in Requests(Ids, SGEs)
      BY <2>1, <3>1
    <3>3. c.wrs[1].sgl \in Seq(SGEs)
      BY <3>2 DEF Requests
    <3>4. QED  BY <2>3, <3>3 DEF Words, WordLists
  <2>4. QED  BY <2>2, <2>3
<1>5. QED  BY <1>2, <1>3, <1>4

(* A request read back from an undisturbed array is the one that was built. *)
LEMMA ReadsBack ==
  ASSUME NEW Ids, NEW SGEs, WellFormed(Ids, SGEs), CallsInPlace(Ids, SGEs), Counting,
         Undisturbed, NEW g \in Goroutines, at[g].posting
  PROVE  /\ at[g].begun \in 1 .. Len(Calls[g])
         /\ Call(g) \in CallSet(Ids, SGEs)
         /\ Read(g) = Call(g).wrs
<1>1. at[g].begun \in 1 .. Len(Calls[g])
  BY CallsTyped DEF CallsInPlace, Counting
<1>2. Call(g) \in CallSet(Ids, SGEs)
  BY <1>1, CallsTyped DEF Call
<1>3. Read(g) = Call(g).wrs
  <2>1. CASE Call(g).op = "batch"
    BY <1>1, <1>2, <2>1 DEF Read, Undisturbed, Words
  <2>2. CASE Call(g).op # "batch"
    <3> DEFINE r == Call(g).wrs[1]
    <3>1. Len(Call(g).wrs) = 1
      BY <1>1, <2>2 DEF WellFormed, Call
    <3>2. Call(g).wrs \in Seq(Requests(Ids, SGEs))
      BY <1>2 DEF CallSet
    <3>3. r \in Requests(Ids, SGEs) /\ Call(g).wrs = <<r>>
      BY <3>1, <3>2
    <3>4. at[g].seen = r.sgl
      BY <2>2 DEF Undisturbed, Words
    <3>5. [r EXCEPT !.sgl = r.sgl] = r
      BY <3>3 DEF Requests
    <3>6. Read(g) = <<[r EXCEPT !.sgl = at[g].seen]>>
      BY <2>2, Zenon DEF Read
    <3>7. <<[r EXCEPT !.sgl = at[g].seen]>> = <<r>>
      BY <3>4, <3>5, Zenon
    <3>8. QED  BY <3>3, <3>6, <3>7, Zenon
  <2>3. QED  BY <2>1, <2>2
<1>4. QED  BY <1>1, <1>2, <1>3

(* Under Serial a goroutine that fills an array finds no one else using it. *)
LEMMA NoOneElse ==
  ASSUME NEW Ids, NEW SGEs, WellFormed(Ids, SGEs), Serial,
         CallsInPlace(Ids, SGEs), Counting, NEW g \in Goroutines, NEW h \in Goroutines, g # h, Locked(g),
         at[g].begun + 1 <= Len(Calls[g]),
         NEW words
  PROVE  Disturbed(h, Calls[g][at[g].begun + 1].op, words) = at[h]
<1> DEFINE k == at[g].begun + 1
<1>1. k \in 1 .. Len(Calls[g])
  BY CallsTyped DEF CallsInPlace
<1>2. ASSUME at[h].posting, Call(h).op = Calls[g][k].op PROVE FALSE
  <2>1. at[h].begun \in 1 .. Len(Calls[h])
    BY <1>2, CallsTyped DEF CallsInPlace, Counting
  <2>2. Mutex[g] = Mutex[h] /\ Mutex[g] # NoMutex
    BY <1>1, <1>2, <2>1 DEF Serial, Call
  <2>3. QED  BY <1>2, <2>2 DEF Locked
<1>3. QED  BY <1>2 DEF Disturbed

(* The initial state. *)
LEMMA SerialInitially ==
  ASSUME NEW Ids, NEW SGEs, WellFormed(Ids, SGEs)
  PROVE  QPInit => SerialInv(Ids, SGEs)
<1> SUFFICES ASSUME QPInit PROVE SerialInv(Ids, SGEs)
  OBVIOUS
<1>1. \A g \in Goroutines : at[g] = [begun |-> 0, posting |-> FALSE,
                                     seen |-> <<>>, shared |-> FALSE]
  BY DEF QPInit
<1>2. CallsInPlace(Ids, SGEs)
  <2>1. <<>> \in WordLists(Ids, SGEs)
    BY DEF WordLists
  <2>2. QED  BY <2>1 DEF QPInit, CallsInPlace
<1>3. Counting
  <2> SUFFICES ASSUME NEW g \in Goroutines
               PROVE  at[g].begun <= Len(Calls[g]) /\ ~at[g].posting
    BY DEF Counting
  <2>1. at[g].begun = 0 /\ at[g].posting = FALSE
    BY <1>1
  <2>2. Len(Calls[g]) \in Nat
    BY CallsTyped
  <2>3. QED  BY <2>1, <2>2
<1>4. Excluded /\ Undisturbed
  BY <1>1 DEF Excluded, Undisturbed
<1>5. PostedAsBuilt
  BY DEF QPInit, PostedAsBuilt
<1>6. QED  BY <1>2, <1>3, <1>4, <1>5 DEF SerialInv

(* A record with its counter replaced, written out. *)
LEMMA BegunReplaced ==
  ASSUME NEW S, NEW k,
         NEW r \in [begun : Nat, posting : BOOLEAN, seen : S, shared : BOOLEAN]
  PROVE  [r EXCEPT !.begun = k] = [begun |-> k, posting |-> r.posting,
                                   seen |-> r.seen, shared |-> r.shared]
OBVIOUS

(* Filling touches no other goroutine's request. *)
LEMMA FillKeeps ==
  ASSUME NEW Ids, NEW SGEs, WellFormed(Ids, SGEs), Serial, SerialInv(Ids, SGEs),
         NEW g \in Goroutines, Fill(g)
  PROVE  SerialInv(Ids, SGEs)'
<1> DEFINE k == at[g].begun + 1
           c == Calls[g][k]
<1>1. k \in 1 .. Len(Calls[g]) /\ Locked(g) /\ ~at[g].posting
  BY CallsTyped DEF Fill, SerialInv, CallsInPlace
<1>2. UNCHANGED queued
  BY DEF Fill
<1>3. /\ Words(c) \in WordLists(Ids, SGEs)
      /\ at[g] \in [begun : Nat, posting : BOOLEAN,
                    seen : WordLists(Ids, SGEs), shared : BOOLEAN]
  BY <1>1, CallsTyped DEF SerialInv, CallsInPlace
<1>4. PICK new \in [begun : {k}, posting : BOOLEAN,
                    seen : WordLists(Ids, SGEs), shared : BOOLEAN] :
        /\ at' = [at EXCEPT ![g] = new]
        /\ new.posting => new.seen = Words(c)
  <2>1. CASE at' = [at EXCEPT ![g].begun = k]
    <3> DEFINE n == [begun |-> k, posting |-> FALSE, seen |-> at[g].seen,
                     shared |-> at[g].shared]
    <3>1. [at[g] EXCEPT !.begun = k] = n
      <4> HIDE DEF k
      <4>1. at[g].posting = FALSE
        BY <1>1, <1>3
      <4>2. [at[g] EXCEPT !.begun = k] =
              [begun |-> k, posting |-> at[g].posting, seen |-> at[g].seen,
               shared |-> at[g].shared]
        BY <1>3, BegunReplaced
      <4>3. QED  BY <4>1, <4>2, Zenon
    <3>2. at' = [at EXCEPT ![g] = n]
      BY <2>1, <3>1, Zenon
    <3>3. /\ n \in [begun : {k}, posting : BOOLEAN,
                    seen : WordLists(Ids, SGEs), shared : BOOLEAN]
          /\ n.posting => n.seen = Words(c)
      BY <1>3
    <3>4. QED
      <4> HIDE DEF n, k, c
      <4>1. QED  BY <3>2, <3>3, Zenon
  <2>2. CASE at' = [h \in Goroutines |->
                     IF h = g THEN [begun |-> k, posting |-> TRUE,
                                    seen |-> Words(c), shared |-> TRUE]
                              ELSE Disturbed(h, c.op, Words(c))]
    <3> DEFINE n == [begun |-> k, posting |-> TRUE, seen |-> Words(c),
                     shared |-> TRUE]
    <3>1. \A h \in Goroutines \ {g} : Disturbed(h, c.op, Words(c)) = at[h]
      BY <1>1, NoOneElse DEF SerialInv
    <3> HIDE DEF n
    <3>2. at' = [at EXCEPT ![g] = n]
      BY <2>2, <3>1 DEF SerialInv, CallsInPlace, n
    <3>3. /\ n \in [begun : {k}, posting : BOOLEAN,
                    seen : WordLists(Ids, SGEs), shared : BOOLEAN]
          /\ n.posting => n.seen = Words(c)
      BY <1>3 DEF n
    <3>4. QED
      <4> HIDE DEF k, c
      <4>1. QED  BY <3>2, <3>3, Zenon
  <2>3. QED  BY <2>1, <2>2 DEF Fill
<1>5. at'[g] = new /\ \A h \in Goroutines \ {g} : at'[h] = at[h]
  BY <1>4 DEF SerialInv, CallsInPlace
<1>6. CallsInPlace(Ids, SGEs)'
  BY <1>1, <1>2, <1>4 DEF SerialInv, CallsInPlace
<1>7. Counting'
  BY <1>1, <1>5, CallsTyped DEF SerialInv, CallsInPlace, Counting
<1>8. Excluded'
  BY <1>1, <1>5 DEF SerialInv, Excluded, Locked
<1>9. Undisturbed'
  BY <1>4, <1>5 DEF SerialInv, Undisturbed, Call
<1>10. PostedAsBuilt'
  BY <1>2 DEF SerialInv, PostedAsBuilt
<1>11. QED  BY <1>6, <1>7, <1>8, <1>9, <1>10 DEF SerialInv

(* C posts what was built. *)
LEMMA PostKeeps ==
  ASSUME NEW Ids, NEW SGEs, WellFormed(Ids, SGEs), SerialInv(Ids, SGEs),
         NEW g \in Goroutines, Post(g)
  PROVE  SerialInv(Ids, SGEs)'
<1> DEFINE c == Call(g)
           q == Queue(c)
<1>1. /\ at[g].begun \in 1 .. Len(Calls[g])
      /\ c \in CallSet(Ids, SGEs)
      /\ Read(g) = c.wrs
  BY ReadsBack DEF Post, SerialInv
<1>2. c.wrs \in Seq(Requests(Ids, SGEs)) /\ q \in {"send", "recv"}
  BY <1>1 DEF CallSet, Queue
<1>3. PICK n \in 0 .. Len(c.wrs) :
        queued' = [queued EXCEPT ![q] = @ \o SubSeq(c.wrs, 1, n)]
  BY <1>1 DEF Post
<1>4. at' = [at EXCEPT ![g].posting = FALSE]
  BY DEF Post
<1>5. /\ at'[g] = [at[g] EXCEPT !.posting = FALSE]
      /\ \A h \in Goroutines \ {g} : at'[h] = at[h]
  BY <1>4 DEF SerialInv, CallsInPlace
<1>6. /\ at'[g].begun = at[g].begun /\ ~at'[g].posting
      /\ at'[g] \in [begun : Nat, posting : BOOLEAN,
                     seen : WordLists(Ids, SGEs), shared : BOOLEAN]
  BY <1>5 DEF SerialInv, CallsInPlace
<1>7. SubSeq(c.wrs, 1, n) \in Seq(Requests(Ids, SGEs))
  BY <1>2, <1>3
<1>8. queued[q] \in Seq(Requests(Ids, SGEs))
  BY <1>2 DEF SerialInv, CallsInPlace
<1>9. /\ queued' \in [{"send", "recv"} -> Seq(Requests(Ids, SGEs))]
      /\ queued'[q] = queued[q] \o SubSeq(c.wrs, 1, n)
      /\ \A r \in {"send", "recv"} \ {q} : queued'[r] = queued[r]
  <2> DEFINE new == queued[q] \o SubSeq(c.wrs, 1, n)
  <2>1. new \in Seq(Requests(Ids, SGEs))
    BY <1>7, <1>8
  <2>2. /\ queued' = [queued EXCEPT ![q] = new]
        /\ queued \in [{"send", "recv"} -> Seq(Requests(Ids, SGEs))]
    BY <1>3 DEF SerialInv, CallsInPlace
  <2> HIDE DEF new, q
  <2>3. QED  BY <1>2, <2>1, <2>2 DEF new
<1>10. CallsInPlace(Ids, SGEs)'
  BY <1>4, <1>6, <1>9 DEF SerialInv, CallsInPlace
<1>11. Counting' /\ Excluded' /\ Undisturbed'
  BY <1>5, <1>6 DEF SerialInv, Counting, Excluded, Undisturbed, Call
<1>12. PostedAsBuilt'
  <2>1. ASSUME NEW i \in DOMAIN queued'[q] PROVE Built(queued'[q][i], q)
    <3>1. CASE i \in DOMAIN queued[q]
      <4>1. queued'[q][i] = queued[q][i]
        BY <1>7, <1>8, <1>9, <3>1
      <4>2. QED  BY <1>2, <3>1, <4>1 DEF SerialInv, PostedAsBuilt
    <3>2. CASE i \notin DOMAIN queued[q]
      <4>1. PICK j \in DOMAIN c.wrs : queued'[q][i] = c.wrs[j]
        <5>1. /\ i - Len(queued[q]) \in 1 .. n
              /\ queued'[q][i] = c.wrs[i - Len(queued[q])]
          BY <1>2, <1>3, <1>7, <1>8, <1>9, <2>1, <3>2
        <5>2. QED  BY <1>2, <1>3, <5>1
      <4>2. at[g].begun \in DOMAIN Calls[g]
        BY <1>1, CallsTyped DEF WellFormed
      <4>3. QED  BY <4>1, <4>2 DEF Built, Call
    <3>3. QED  BY <3>1, <3>2
  <2>2. ASSUME NEW r \in {"send", "recv"}, r # q, NEW i \in DOMAIN queued'[r]
        PROVE  Built(queued'[r][i], r)
    BY <1>9, <2>2 DEF SerialInv, PostedAsBuilt
  <2>3. QED  BY <2>1, <2>2 DEF PostedAsBuilt, Built
<1>13. QED  BY <1>10, <1>11, <1>12 DEF SerialInv

(* Where one mutex covers each scratch array, whatever the calls, however  *)
(* they interleave and whenever the provider refuses or the QP is closed,  *)
(* no request takes another's memory.                                      *)
THEOREM SerialPostsAreSound ==
  ASSUME NEW CONSTANT Ids, NEW CONSTANT SGEs, WellFormed(Ids, SGEs), Serial
  PROVE  QPSpec => []PostedAsBuilt
<1>1. QPInit => SerialInv(Ids, SGEs)
  BY SerialInitially
<1>2. SerialInv(Ids, SGEs) /\ [QPNext]_qpVars => SerialInv(Ids, SGEs)'
  <2> SUFFICES ASSUME SerialInv(Ids, SGEs), [QPNext]_qpVars PROVE SerialInv(Ids, SGEs)'
    OBVIOUS
  <2>1. ASSUME NEW g \in Goroutines, Fill(g) PROVE SerialInv(Ids, SGEs)'
    BY <2>1, FillKeeps
  <2>2. ASSUME NEW g \in Goroutines, Post(g) PROVE SerialInv(Ids, SGEs)'
    BY <2>2, PostKeeps
  <2>3. CASE UNCHANGED <<at, queued>>
    BY <2>3 DEF SerialInv, CallsInPlace, Counting, Excluded, Undisturbed, Call, PostedAsBuilt
  <2>4. QED  BY <2>1, <2>2, <2>3 DEF QPNext, CloseQP, qpVars
<1>3. SerialInv(Ids, SGEs) => PostedAsBuilt
  BY DEF SerialInv
<1>4. QED  BY <1>1, <1>2, <1>3, PTL DEF QPSpec
=============================================================================
