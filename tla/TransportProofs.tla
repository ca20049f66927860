--------------------------- MODULE TransportProofs ---------------------------
(***************************************************************************)
(* The RC data path keeps its invariants and implements CreditFlow in both *)
(* directions, for every depth, threshold, payload size and script and for *)
(* every interleaving of the goroutines, the NIC and Close: first what the *)
(* operations do to the sequences of frames, then that the state is well   *)
(* typed, then the sending and the receiving half of an end, then each     *)
(* direction as CreditFlow, and last the theorems.                         *)
(***************************************************************************)
EXTENDS TransportInvariant, FiniteSetTheorems, TLAPS

-----------------------------------------------------------------------------
(* What a sequence of frames carries. Amount is the number of cells        *)
(* <<frame, unit>>, so that it is counted, not computed by recursion.      *)

(* A frame carries at most Depth of anything: a credit frame Depth         *)
(* credits, every other frame one unit of what it is.                      *)
LEMMA CarriesNat ==
  ASSUME NEW fr \in Frames, NEW what \in What
  PROVE  Carries(fr, what) \in 0 .. Depth
<1>1. CASE what = "data"    BY <1>1, DepthAssumption DEF Carries
<1>2. CASE what = "last"    BY <1>2, DepthAssumption DEF Carries
<1>3. CASE what = "ctl"     BY <1>3, DepthAssumption DEF Carries
<1>4. CASE what = "credit"  BY <1>4, DepthAssumption DEF Carries, Frames, DataFrames, FinFrame
<1>5. QED  BY <1>1, <1>2, <1>3, <1>4 DEF What

(* The cells of one frame are as many as it carries.                       *)
LEMMA LayerSize ==
  ASSUME NEW i, NEW c \in Nat
  PROVE  IsFiniteSet({i} \X (1 .. c)) /\ Cardinality({i} \X (1 .. c)) = c
<1>1. IsFiniteSet({i}) /\ Cardinality({i}) = 1
  BY FS_Singleton
<1>2. IsFiniteSet(1 .. c) /\ Cardinality(1 .. c) = c
  BY FS_Interval
<1>3. /\ IsFiniteSet({i} \X (1 .. c))
      /\ Cardinality({i} \X (1 .. c)) = Cardinality({i}) * Cardinality(1 .. c)
  BY <1>1, <1>2, FS_Product, Zenon
<1>4. QED
  BY <1>1, <1>2, <1>3

(* A cell names its frame and a unit of it.                                *)
LEMMA CellOf ==
  \A seq, m, what : \A u \in Cells(seq, m, what) :
    \E i \in m + 1 .. Len(seq) :
      \E k \in 1 .. Carries(seq[i], what) : u = <<i, k>>
BY DEF Cells

(* The cells of a sequence can be counted.                                 *)
LEMMA CellsFinite ==
  ASSUME NEW seq \in Seq(Frames), NEW m \in Nat, NEW what \in What
  PROVE  IsFiniteSet(Cells(seq, m, what)) /\ Amount(seq, m, what) \in Nat
<1>1. Cells(seq, m, what) \in SUBSET ((m + 1 .. Len(seq)) \X (1 .. Depth))
  <2> SUFFICES ASSUME NEW i \in m + 1 .. Len(seq),
                      NEW k \in 1 .. Carries(seq[i], what)
               PROVE  k \in 1 .. Depth
    BY DEF Cells
  <2>1. seq[i] \in Frames
    OBVIOUS
  <2>2. QED
    BY <2>1, CarriesNat, DepthAssumption
<1>2. IsFiniteSet((m + 1 .. Len(seq)) \X (1 .. Depth))
  <2>1. IsFiniteSet(m + 1 .. Len(seq)) /\ IsFiniteSet(1 .. Depth)
    BY FS_Interval, DepthAssumption
  <2>2. QED
    BY <2>1, FS_Product, Zenon
<1>3. QED
  BY <1>1, <1>2, FS_Subset, FS_CardinalityType DEF Amount

(* The cells of a frame that had none yet add to the count.                *)
LEMMA AddLayer ==
  ASSUME NEW S, IsFiniteSet(S), NEW i, NEW c \in Nat,
         \A k \in 1 .. c : <<i, k>> \notin S
  PROVE  Cardinality(S \cup ({i} \X (1 .. c))) = Cardinality(S) + c
<1>1. S \cap ({i} \X (1 .. c)) = {}
  OBVIOUS
<1>2. QED
  <2> DEFINE layer == {i} \X (1 .. c)
  <2>1. IsFiniteSet(layer) /\ Cardinality(layer) = c
    BY LayerSize
  <2> HIDE DEF layer
  <2>2. Cardinality(S \cup layer) = Cardinality(S) + Cardinality(layer)
                                     - Cardinality(S \cap layer)
    BY <2>1, FS_Union
  <2>3. Cardinality(S \cap layer) = 0
    BY <1>1, FS_EmptySet DEF layer
  <2>4. Cardinality(S) \in Nat
    BY FS_CardinalityType
  <2>5. QED
    BY <2>1, <2>2, <2>3, <2>4 DEF layer

(* A frame appended to a queue adds what it carries.                       *)
LEMMA AmountAppend ==
  ASSUME NEW seq \in Seq(Frames), NEW m \in 0 .. Len(seq), NEW fr \in Frames,
         NEW what \in What
  PROVE  Amount(Append(seq, fr), m, what) = Amount(seq, m, what) + Carries(fr, what)
<1> DEFINE L == Len(seq)
<1>1. /\ Len(Append(seq, fr)) = L + 1
      /\ Append(seq, fr)[L + 1] = fr
      /\ \A i \in 1 .. L : Append(seq, fr)[i] = seq[i]
  OBVIOUS
<1>2. m + 1 .. L + 1 = (m + 1 .. L) \cup {L + 1}
  OBVIOUS
<1>3. Cells(Append(seq, fr), m, what)
        = Cells(seq, m, what) \cup ({L + 1} \X (1 .. Carries(fr, what)))
  BY <1>1, <1>2 DEF Cells
<1>4. \A k \in 1 .. Carries(fr, what) : <<L + 1, k>> \notin Cells(seq, m, what)
  BY DEF Cells
<1>5. QED
  <2>1. Carries(fr, what) \in Nat /\ IsFiniteSet(Cells(seq, m, what))
    BY CarriesNat, CellsFinite, DepthAssumption
  <2>2. Cardinality(Cells(seq, m, what) \cup ({L + 1} \X (1 .. Carries(fr, what))))
          = Cardinality(Cells(seq, m, what)) + Carries(fr, what)
    BY <1>4, <2>1, AddLayer, Zenon
  <2>3. QED
    BY <1>3, <2>2, Zenon DEF Amount

(* What a queue carries from its m-th frame on is what that frame carries  *)
(* and what follows.                                                       *)
LEMMA AmountDrop ==
  ASSUME NEW seq \in Seq(Frames), NEW m \in Nat, m < Len(seq), NEW what \in What
  PROVE  Amount(seq, m, what) = Amount(seq, m + 1, what) + Carries(seq[m + 1], what)
<1>1. m + 1 .. Len(seq) = (m + 2 .. Len(seq)) \cup {m + 1}
  OBVIOUS
<1>2. Cells(seq, m, what)
        = Cells(seq, m + 1, what) \cup ({m + 1} \X (1 .. Carries(seq[m + 1], what)))
  BY <1>1 DEF Cells
<1>3. \A k \in 1 .. Carries(seq[m + 1], what) :
        <<m + 1, k>> \notin Cells(seq, m + 1, what)
  BY DEF Cells
<1>4. seq[m + 1] \in Frames
  OBVIOUS
<1>5. QED
  <2>1. /\ Carries(seq[m + 1], what) \in Nat
        /\ IsFiniteSet(Cells(seq, m + 1, what))
    <3>1. m + 1 \in Nat
      OBVIOUS
    <3>2. IsFiniteSet(Cells(seq, m + 1, what))
      BY <3>1, CellsFinite, Zenon
    <3>3. Carries(seq[m + 1], what) \in 0 .. Depth
      BY <1>4, CarriesNat, Zenon
    <3>4. QED
      BY <3>2, <3>3, DepthAssumption
  <2>2. Cardinality(Cells(seq, m + 1, what)
                      \cup ({m + 1} \X (1 .. Carries(seq[m + 1], what))))
          = Cardinality(Cells(seq, m + 1, what)) + Carries(seq[m + 1], what)
    BY <1>3, <2>1, AddLayer, Zenon
  <2>3. QED
    BY <1>2, <2>2, Zenon DEF Amount

(* Renumbering the frames does not change what they carry.                 *)
LEMMA AmountShift ==
  ASSUME NEW seq \in Seq(Frames), NEW m \in Nat, NEW what \in What,
         NEW rest \in Seq(Frames), NEW n \in Nat,
         m = n + 1, Len(seq) = Len(rest) + 1,
         \A i \in 1 .. Len(rest) : rest[i] = seq[i + 1]
  PROVE  Amount(rest, n, what) = Amount(seq, m, what)
<1> DEFINE S == Cells(seq, m, what)
           T == Cells(rest, n, what)
           f == [u \in S |-> <<u[1] - 1, u[2]>>]
<1>1. \A u \in S : f[u] \in T
  <2> SUFFICES ASSUME NEW i \in m + 1 .. Len(seq),
                      NEW k \in 1 .. Carries(seq[i], what)
               PROVE  <<i - 1, k>> \in T
    BY DEF Cells
  <2>1. i - 1 \in n + 1 .. Len(rest) /\ rest[i - 1] = seq[i]
    OBVIOUS
  <2>2. QED
    BY <2>1 DEF Cells
<1>2. \A v \in T : \E u \in S : f[u] = v
  <2> TAKE v \in T
  <2>1. PICK i \in n + 1 .. Len(rest) :
               \E k \in 1 .. Carries(rest[i], what) : v = <<i, k>>
    BY CellOf
  <2>2. PICK k \in 1 .. Carries(rest[i], what) : v = <<i, k>>
    BY <2>1
  <2>3. i + 1 \in m + 1 .. Len(seq) /\ rest[i] = seq[i + 1]
    OBVIOUS
  <2>4. <<i + 1, k>> \in S
    BY <2>3 DEF Cells
  <2>5. f[<<i + 1, k>>] = <<i, k>>
    BY <2>4
  <2>6. QED
    BY <2>2, <2>4, <2>5
<1>3. \A u, v \in S : f[u] = f[v] => u = v
  <2>1. \A u \in S : u \in Int \X Int
    BY CellOf
  <2>2. QED
    BY <2>1, SMTT(20)
<1>4. f \in Bijection(S, T)
  BY <1>1, <1>2, <1>3 DEF Bijection, Injection, Surjection, IsInjective
<1>5. QED
  BY <1>4, CellsFinite, FS_Bijection DEF ExistsBijection, Amount

(* Taking the first frame of a queue, when it is not counted, changes      *)
(* nothing.                                                                *)
LEMMA AmountTail ==
  ASSUME NEW seq \in Seq(Frames), seq # <<>>, NEW m \in Nat \ {0},
         NEW what \in What
  PROVE  Amount(Tail(seq), m - 1, what) = Amount(seq, m, what)
<1>1. /\ Tail(seq) \in Seq(Frames) /\ Len(seq) = Len(Tail(seq)) + 1
      /\ \A i \in 1 .. Len(Tail(seq)) : Tail(seq)[i] = seq[i + 1]
      /\ m - 1 \in Nat /\ m = (m - 1) + 1
  OBVIOUS
<1>2. QED
  BY <1>1, AmountShift, ZenonT(60)

-----------------------------------------------------------------------------
(* Types. Each record of the state has its fields, and every update the    *)
(* actions make to one is again such a record.                             *)

(* The bytes of a part of a message are a text.                            *)
LEMMA BytesType ==
  ASSUME NEW c \in Nat, NEW k \in Nat, NEW first \in Nat \ {0}, NEW last \in Int
  PROVE  Bytes(c, k, first, last) \in Text
<1>1. CASE last - first + 1 \in Nat
  BY <1>1 DEF Bytes, Text, Byte
<1>2. CASE last - first + 1 \notin Nat
  <2>1. 1 .. last - first + 1 = 1 .. 0
    BY <1>2
  <2>2. QED
    BY <2>1 DEF Bytes, Text, Byte
<1>3. QED
  BY <1>1, <1>2

(* A scene gives each end a script of calls, a capacity and receive calls. *)
LEMMA ScriptType ==
  ASSUME scene \in Scenes, NEW e \in Peers
  PROVE  /\ Script[e] \in Seq(Seq(Nat))
         /\ scene.sqCap \in Nat \ {0}
         /\ \A c \in scene.calls : IsRecvCall(c)
BY TransportAssumption DEF Script

(* The f-th frame of a message is a data frame, and the message a text.    *)
LEMMA FrameType ==
  ASSUME scene \in Scenes, NEW e \in Peers, NEW c \in 1 .. Len(Script[e]),
         NEW k \in 1 .. Len(Script[e][c]), NEW f \in Nat \ {0}
  PROVE  /\ DataFrame(e, c, k, f) \in DataFrames
         /\ Message(e, c, k) \in Text
         /\ DataFrame(e, c, k, f).kind = "data"
<1>1. Script[e] \in Seq(Seq(Nat))
  BY ScriptType
<1>2. Script[e][c] \in Seq(Nat)
  BY <1>1
<1>3. Script[e][c][k] \in Nat
  BY <1>2
<1>4. (f - 1) * Payload \in Nat
  BY TransportAssumption
<1>5. Message(e, c, k) \in Text
  BY <1>3, BytesType DEF Message
<1> DEFINE start == (f - 1) * Payload
           end == IF start + Payload > Script[e][c][k] THEN Script[e][c][k]
                  ELSE start + Payload
<1>6. Bytes(c, k, start + 1, end) \in Text
  <2>1. start + 1 \in Nat \ {0} /\ end \in Int
    BY <1>3, <1>4, TransportAssumption, SMTT(20)
  <2> HIDE DEF start, end
  <2>2. QED
    BY <2>1, BytesType
<1>7. More(f, Script[e][c][k]) \in BOOLEAN
  BY DEF More
<1>8. QED
  BY <1>5, <1>6, <1>7 DEF DataFrame, DataFrames, Text, Byte

(* What the actions of a sender write is a sender.                         *)
LEMMA SndUpdates ==
  /\ \A s \in Snd, pc \in SendPcs, b \in BOOLEAN : [s EXCEPT !.pc = pc, !.err = b] \in Snd
  /\ \A s \in Snd, o \in Int, b \in BOOLEAN : [s EXCEPT !.owed = o, !.err = b] \in Snd
  /\ \A s \in Snd, o \in Int, pc \in SendPcs : [[s EXCEPT !.owed = o] EXCEPT !.pc = pc] \in Snd
  /\ \A s \in Snd, o \in Int, f \in Nat \ {0}, k \in Nat, pc \in SendPcs :
       [s EXCEPT !.owed = o, !.f = f, !.k = k, !.pc = pc] \in Snd
BY DEF Snd

(* What the actions of a receiver write is a receiver.                     *)
LEMMA RcvUpdates ==
  ASSUME NEW calls
  PROVE
  /\ \A r \in Rcv(calls), pc \in RecvPcs, c \in calls :
       [r EXCEPT !.pc = pc, !.call = c] \in Rcv(calls)
  /\ \A r \in Rcv(calls), pc \in RecvPcs, out \in Texts :
       [r EXCEPT !.pc = pc, !.out = out] \in Rcv(calls)
  /\ \A r \in Rcv(calls), pc \in RecvPcs, out \in Texts, rest \in Text :
       [r EXCEPT !.pc = pc, !.out = out, !.rest = rest] \in Rcv(calls)
  /\ \A r \in Rcv(calls), pc, then \in RecvPcs, n \in Nat :
       [r EXCEPT !.pc = pc, !.then = then, !.n = n] \in Rcv(calls)
  /\ \A r \in Rcv(calls), pc, then \in RecvPcs, n \in Nat, out \in Texts :
       [r EXCEPT !.pc = pc, !.then = then, !.n = n, !.out = out] \in Rcv(calls)
BY DEF Rcv

(* What the actions of a poller write is a poller.                         *)
LEMMA PlrUpdates ==
  /\ \A p1 \in Plr, n \in Nat, pc \in PollPcs : [p1 EXCEPT !.sends = n, !.pc = pc] \in Plr
  /\ \A p1 \in Plr, n \in Nat, pc \in PollPcs : [p1 EXCEPT !.recvs = n, !.pc = pc] \in Plr
BY DEF Plr

(* What the actions write into a transport is a transport.                 *)
LEMMA TpUpdates ==
  /\ \A t \in Tp, q1 \in DataSeq, text \in Text :
       [t EXCEPT !.recvQ = q1, !.reasm = text] \in Tp
  /\ \A t \in Tp, q1 \in DataSeq, text \in Text, n \in Nat :
       [t EXCEPT !.recvQ = q1, !.reasm = text, !.pending = n] \in Tp
BY DEF Tp

(* What the actions write into a queue pair is a queue pair.               *)
LEMMA NicUpdates ==
  /\ \A c \in Nic, s \in FrameSeq, n \in Nat : [c EXCEPT !.sq = s, !.landed = n] \in Nic
  /\ \A c \in Nic, s \in FrameSeq, n \in Nat : [c EXCEPT !.ring = n, !.inbox = s] \in Nic
  /\ \A c \in Nic, s \in FrameSeq, n \in Nat : [[c EXCEPT !.inbox = s] EXCEPT !.ring = n] \in Nic
BY DEF Nic

(* What RecvReturn records is a history.                                   *)
LEMMA HistUpdate ==
  \A h \in Hist, got \in Texts, read \in Text : [h EXCEPT !.got = got, !.read = read] \in Hist
BY DEF Hist

(* The flush threshold, half the window rounded down and at least 1        *)
(* (credit.go:35-41), is within the window.                                *)
LEMMA ThresholdFits == CreditFlushThreshold \in 1 .. Depth
BY DepthAssumption DEF CreditFlushThreshold

(* The empty sequence is a text, a list of texts and a queue.              *)
LEMMA EmptySeqs == <<>> \in Text /\ <<>> \in Texts /\ <<>> \in DataSeq /\ <<>> \in FrameSeq
BY DEF Text, Texts, DataSeq, FrameSeq

(* There are two ends, each the peer of the other.                         *)
LEMMA ThePeers == /\ Peers = {"A", "B"}
                  /\ Peer("A") = "B" /\ Peer("B") = "A"
                  /\ \A e \in Peers : Peer(e) \in Peers /\ Peer(e) # e /\ Peer(Peer(e)) = e
BY DEF Peers, Peer

(* The fields of a sender have their types.                                *)
LEMMA SndFields ==
  ASSUME snd \in [Peers -> Snd], NEW e \in Peers
  PROVE  /\ snd[e] \in Snd /\ snd[e].pc \in SendPcs /\ snd[e].call \in Nat
         /\ snd[e].k \in Nat /\ snd[e].f \in Nat \ {0} /\ snd[e].owed \in Int
         /\ snd[e].err \in BOOLEAN
BY DEF Snd

(* The fields of a receiver have their types.                              *)
LEMMA RcvFields ==
  ASSUME NEW calls, rcv \in [Peers -> Rcv(calls)], NEW e \in Peers
  PROVE  /\ rcv[e] \in Rcv(calls) /\ rcv[e].pc \in RecvPcs
         /\ rcv[e].then \in RecvPcs /\ rcv[e].n \in Nat
         /\ rcv[e].call \in calls \cup {[how |-> "msg"]}
         /\ rcv[e].out \in Texts /\ rcv[e].rest \in Text
BY DEF Rcv

(* The fields of a poller have their types.                                *)
LEMMA PlrFields ==
  ASSUME plr \in [Peers -> Plr], NEW e \in Peers
  PROVE  /\ plr[e] \in Plr /\ plr[e].pc \in PollPcs /\ plr[e].final \in BOOLEAN
         /\ plr[e].sends \in Nat /\ plr[e].recvs \in Nat
BY DEF Plr

(* The fields of a transport have their types.                             *)
LEMMA TpFields ==
  ASSUME tp \in [Peers -> Tp], NEW e \in Peers
  PROVE  /\ tp[e] \in Tp /\ tp[e].up \in BOOLEAN /\ tp[e].closed \in BOOLEAN
         /\ tp[e].credits \in Nat /\ tp[e].sendFree \in Nat
         /\ tp[e].sendDone \in Tokens /\ tp[e].creditFree \in Nat
         /\ tp[e].recvQ \in DataSeq /\ tp[e].pending \in Nat
         /\ tp[e].peerFin \in BOOLEAN /\ tp[e].reasm \in Text
BY DEF Tp

(* The fields of a queue pair have their types.                            *)
LEMMA NicFields ==
  ASSUME nic \in [Peers -> Nic], NEW e \in Peers
  PROVE  /\ nic[e] \in Nic /\ nic[e].sq \in FrameSeq /\ nic[e].landed \in Nat
         /\ nic[e].ring \in Nat /\ nic[e].inbox \in FrameSeq
         /\ nic[e].down \in BOOLEAN
BY DEF Nic

(* The fields of a history have their types.                               *)
LEMMA HistFields ==
  ASSUME hist \in [Peers -> Hist], NEW e \in Peers
  PROVE  /\ hist[e] \in Hist /\ hist[e].stream \in Texts
         /\ hist[e].promised \in Nat /\ hist[e].lost \in Nat
         /\ hist[e].got \in Texts /\ hist[e].read \in Text
BY DEF Hist

(* The initial state is well typed.                                        *)
LEMMA TypingInit == Init => Typing
<1> SUFFICES ASSUME Init PROVE Typing
  OBVIOUS
<1> USE DEF Init, Typing
<1>2. snd \in [Peers -> Snd]
  BY DEF Snd, SendPcs
<1>3. rcv \in [Peers -> Rcv(scene.calls)]
  BY EmptySeqs DEF Rcv, RecvPcs
<1>4. tp \in [Peers -> Tp]
  BY EmptySeqs, DepthAssumption, TransportAssumption DEF Tp, Tokens
<1>5. nic \in [Peers -> Nic]
  BY EmptySeqs DEF Nic
<1>6. hist \in [Peers -> Hist]
  BY EmptySeqs DEF Hist
<1>7. plr \in [Peers -> Plr]
  BY DEF Plr, PollPcs
<1>8. QED
  BY <1>2, <1>3, <1>4, <1>5, <1>6, <1>7

(* A step is one of the sender, the receiver, the poller, the NIC or the   *)
(* closer of an end.                                                       *)
LEMMA NextCases ==
  ASSUME [Next]_vars
  PROVE  \/ \E e \in Peers : SendCall(e) \/ Sender(e)
         \/ \E e \in Peers : RecvCall(e) \/ Receiver(e)
         \/ \E e \in Peers : Poller(e) \/ Land(e)
         \/ \E e \in Peers : CloseCall(e) \/ Closer(e)
         \/ UNCHANGED vars
BY Zenon DEF Next, Finished

(* Which goroutine may change which variable.                              *)
LEMMA WhoMoves ==
  ASSUME [Next]_vars
  PROVE  /\ (\E e \in Peers : SendCall(e) \/ Sender(e)) \/ UNCHANGED snd
         /\ (\E e \in Peers : RecvCall(e) \/ Receiver(e)) \/ UNCHANGED rcv
         /\ (\E e \in Peers : SendCall(e) \/ RecvCall(e) \/ Poller(e)) \/ UNCHANGED plr
         /\ (\E e \in Peers : CloseCall(e) \/ Closer(e)) \/ UNCHANGED cls
         /\ UNCHANGED scene
<1> USE DEF Sender, Receiver, Poller, Closer
<1> USE DEF SendCall, DrainSendDone, AcquireCredit, PostFrame, WaitToken, SendReturn
<1> USE DEF RecvCall, RecvDrain, RecvBlock, RecvTry, RecvEnd, ReturnCredit, RecvReturn, ConsumeFrame
<1> USE DEF DispatchSend, PushToken, DispatchRecv, DispatchError, PollLast, PollerExit
<1> USE DEF Land, CloseCall, CloseFin, CloseDone, TearDown
<1>1. CASE \E e \in Peers : SendCall(e) \/ Sender(e)
  BY <1>1, Zenon
<1>2. CASE \E e \in Peers : RecvCall(e) \/ Receiver(e)
  BY <1>2, ZenonT(30)
<1>3. CASE \E e \in Peers : Poller(e) \/ Land(e)
  BY <1>3, ZenonT(30)
<1>4. CASE \E e \in Peers : CloseCall(e) \/ Closer(e)
  BY <1>4, Zenon
<1>5. CASE UNCHANGED vars
  BY <1>5, Zenon DEF vars
<1>6. QED
  BY <1>1, <1>2, <1>3, <1>4, <1>5, NextCases, Zenon

(* Every step leaves the senders well typed.                               *)
LEMMA SndTyped ==
  ASSUME Types, [Next]_vars
  PROVE  snd' \in [Peers -> Snd]
<1>0. snd \in [Peers -> Snd] /\ tp \in [Peers -> Tp]
  BY DEF Types, Typing
<1>u. \A e \in Peers : \A s \in Snd : [snd EXCEPT ![e] = s] \in [Peers -> Snd]
  BY <1>0
<1>1. ASSUME NEW e \in Peers, SendCall(e) PROVE snd' \in [Peers -> Snd]
  <2>1. snd[e].call + 1 \in Nat
    BY <1>0, SndFields
  <2>2. [pc |-> "drain", call |-> snd[e].call + 1, k |-> 1, f |-> 1, owed |-> 0,
         err |-> FALSE] \in Snd
    BY <2>1 DEF Snd, SendPcs
  <2>3. CASE snd' = [snd EXCEPT ![e].call = snd[e].call + 1]
    BY <1>0, <2>1, <2>3 DEF Snd
  <2>4. CASE snd' = [snd EXCEPT ![e] = [pc |-> "drain", call |-> snd[e].call + 1,
                        k |-> 1, f |-> 1, owed |-> 0, err |-> FALSE]]
    BY <1>u, <2>2, <2>4
  <2>5. QED
    BY <1>1, <2>3, <2>4, Zenon DEF SendCall
<1>2. ASSUME NEW e \in Peers, SendFails(e) PROVE snd' \in [Peers -> Snd]
  <2>1. "wait" \in SendPcs /\ TRUE \in BOOLEAN
    BY DEF SendPcs
  <2>2. [snd[e] EXCEPT !.pc = "wait", !.err = TRUE] \in Snd
    BY <1>0, <2>1, SndFields, SndUpdates, Zenon
  <2>3. QED
    BY <1>2, <2>2, <1>u, Zenon DEF SendFails
<1>3. ASSUME NEW e \in Peers, DrainSendDone(e) PROVE snd' \in [Peers -> Snd]
  <2>1. snd[e].owed - tp[e].sendDone \in Int /\ "acquire" \in SendPcs
    BY <1>0, SndFields, TpFields DEF Tokens, SendPcs
  <2>2. [[snd[e] EXCEPT !.owed = snd[e].owed - tp[e].sendDone] EXCEPT !.pc = "acquire"]
          \in Snd
    BY <1>0, <2>1, SndFields, SndUpdates, Zenon
  <2>3. QED
    BY <1>3, <2>2, <1>u DEF DrainSendDone, Collected
<1>4. ASSUME NEW e \in Peers, AcquireCredit(e) PROVE snd' \in [Peers -> Snd]
  BY <1>0, <1>2, <1>4 DEF AcquireCredit, Snd, SendPcs
<1>6. ASSUME NEW e \in Peers, WaitToken(e) PROVE snd' \in [Peers -> Snd]
  <2>1. CASE snd' = [snd EXCEPT ![e] = Collected(e, 1)]
    BY <1>0, <2>1 DEF Collected, Snd
  <2>2. CASE snd' = [snd EXCEPT ![e] = [snd[e] EXCEPT !.owed = 0, !.err = TRUE]]
    <3>1. 0 \in Int /\ TRUE \in BOOLEAN
      OBVIOUS
    <3>2. [snd[e] EXCEPT !.owed = 0, !.err = TRUE] \in Snd
      BY <1>0, <3>1, SndFields, SndUpdates, Zenon
    <3>3. QED
      BY <2>2, <3>2, <1>u, Zenon
  <2>3. QED
    BY <1>6, <2>1, <2>2, Zenon DEF WaitToken
<1>7. ASSUME NEW e \in Peers, SendReturn(e) PROVE snd' \in [Peers -> Snd]
  BY <1>0, <1>7 DEF SendReturn, Snd, SendPcs
<1>5. ASSUME NEW e \in Peers, PostFrame(e) PROVE snd' \in [Peers -> Snd]
  <2>1. ASSUME snd' = [snd EXCEPT ![e] = NextFrame(e)] PROVE snd' \in [Peers -> Snd]
    <3> DEFINE s == snd[e]
               last == s.f = FragmentCount(Script[e][s.call][s.k])
               o == s.owed + 1
               f == IF last THEN 1 ELSE s.f + 1
               k == IF last THEN s.k + 1 ELSE s.k
               pc == IF last /\ s.k = Len(Script[e][s.call]) THEN "wait" ELSE "drain"
    <3>1. o \in Int /\ f \in Nat \ {0} /\ k \in Nat /\ pc \in SendPcs /\ s \in Snd
      BY <1>0, SndFields DEF SendPcs
    <3>2. NextFrame(e) = [s EXCEPT !.owed = o, !.f = f, !.k = k, !.pc = pc]
      BY Zenon DEF NextFrame
    <3> HIDE DEF s, last, o, f, k, pc
    <3>3. [s EXCEPT !.owed = o, !.f = f, !.k = k, !.pc = pc] \in Snd
      BY <3>1, SndUpdates
    <3>4. NextFrame(e) \in Snd
      BY <3>2, <3>3, Zenon
    <3>5. QED
      BY <2>1, <3>4, <1>u, Zenon
  <2>2. QED
    BY <1>5, <1>2, <2>1, Zenon DEF PostFrame
<1>8. CASE UNCHANGED snd
  BY <1>0, <1>8
<1>9. QED
  BY <1>1, <1>3, <1>4, <1>5, <1>6, <1>7, <1>8, WhoMoves, Zenon DEF Sender

(* What RecvReturn hands to a Read: the rest of the last message, then the *)
(* message that has come.                                                  *)
RecvBuffer(rest, out) == IF out = <<>> THEN rest ELSE rest \o Head(out)

(* That is a text.                                                         *)
LEMMA ReadBuffer ==
  ASSUME NEW rest \in Text, NEW out \in Texts
  PROVE  /\ RecvBuffer(rest, out) \in Text
<1>1. CASE out = <<>>
  BY <1>1 DEF RecvBuffer
<1>2. CASE out # <<>>
  <2>1. Head(out) \in Text
    BY <1>2 DEF Texts
  <2>2. rest \o Head(out) \in Text
    BY <2>1 DEF Text
  <2>3. QED
    BY <1>2, <2>2, Zenon DEF RecvBuffer
<1>3. QED
  BY <1>1, <1>2

(* What Flush does to the receiver: with credits to return it goes to do   *)
(* so and on from there, with none it goes on at once.                     *)
LEMMA FlushShape ==
  ASSUME NEW calls, rcv \in [Peers -> Rcv(calls)], NEW e \in Peers,
         NEW n \in Nat,
         NEW next \in RecvPcs, NEW out \in Texts, Flush(e, n, next, out)
  PROVE  /\ rcv' \in [Peers -> Rcv(calls)]
         /\ \A x \in Peers \ {e} : rcv'[x] = rcv[x]
         /\ n > 0 => /\ rcv'[e].pc = "credit" /\ rcv'[e].then = next /\ rcv'[e].n = n
         /\ n = 0 => /\ rcv'[e].pc = next /\ rcv'[e].then = rcv[e].then
                     /\ rcv'[e].n = rcv[e].n
         /\ rcv'[e].out = out
<1>u. \A r \in Rcv(calls) : [rcv EXCEPT ![e] = r] \in [Peers -> Rcv(calls)]
  OBVIOUS
<1>f. \A r \in Rcv(calls) : /\ [rcv EXCEPT ![e] = r][e] = r
                             /\ \A x \in Peers \ {e} : [rcv EXCEPT ![e] = r][x] = rcv[x]
  OBVIOUS
<1>r. rcv[e] \in Rcv(calls) /\ "credit" \in RecvPcs
  BY DEF RecvPcs
<1>1. CASE n > 0
  <2> DEFINE r == [rcv[e] EXCEPT !.pc = "credit", !.then = next, !.n = n, !.out = out]
  <2>1. r \in Rcv(calls)
    BY <1>r, RcvUpdates, Zenon
  <2>2. r.pc = "credit" /\ r.then = next /\ r.n = n /\ r.out = out
    BY <1>r DEF Rcv
  <2>3. rcv' = [rcv EXCEPT ![e] = r]
    BY <1>1, Zenon DEF Flush
  <2> HIDE DEF r
  <2>4. QED
    BY <1>1, <1>u, <1>f, <2>1, <2>2, <2>3
<1>2. CASE ~(n > 0)
  <2> DEFINE r == [rcv[e] EXCEPT !.pc = next, !.out = out]
  <2>1. r \in Rcv(calls)
    BY <1>r, RcvUpdates, Zenon
  <2>2. r.pc = next /\ r.then = rcv[e].then /\ r.n = rcv[e].n /\ r.out = out
    BY <1>r DEF Rcv
  <2>3. rcv' = [rcv EXCEPT ![e] = r]
    BY <1>2, Zenon DEF Flush
  <2> HIDE DEF r
  <2>4. QED
    BY <1>2, <1>u, <1>f, <2>1, <2>2, <2>3
<1>3. QED
  BY <1>1, <1>2

(* What ConsumeFrame does, whatever it makes of the bytes: it takes a      *)
(* frame, re-posts its RECV unless the queue pair is gone, and owes a      *)
(* credit for it or flushes.                                               *)
Consumed(e, reasm, out, next) ==
  /\ tp[e].recvQ # <<>>
  /\ \/ /\ nic[e].down
        /\ tp' = [tp EXCEPT ![e] = [tp[e] EXCEPT !.recvQ = Tail(@), !.reasm = reasm]]
        /\ rcv' = [rcv EXCEPT ![e].pc = "return"]
        /\ nic' = nic
     \/ /\ ~nic[e].down
        /\ nic' = [nic EXCEPT ![e].ring = @ + 1]
        /\ \/ /\ tp[e].pending + 1 >= CreditFlushThreshold
              /\ tp' = [tp EXCEPT ![e] = [tp[e] EXCEPT !.recvQ = Tail(@), !.reasm = reasm,
                                          !.pending = 0]]
              /\ Flush(e, tp[e].pending + 1, next, out)
           \/ /\ tp[e].pending + 1 < CreditFlushThreshold
              /\ tp' = [tp EXCEPT ![e] = [tp[e] EXCEPT !.recvQ = Tail(@), !.reasm = reasm,
                                          !.pending = tp[e].pending + 1]]
              /\ Flush(e, 0, next, out)

(* ConsumeFrame does that.                                                 *)
LEMMA ConsumeShape ==
  ASSUME Typing, NEW e \in Peers, NEW more \in RecvPcs, ConsumeFrame(e, more)
  PROVE  \E reasm \in Text, out \in Texts, next \in {more, "return", "try", "end"} :
           Consumed(e, reasm, out, next)
<1> DEFINE r == rcv[e]
           t == tp[e]
           fr == Head(t.recvQ)
           bytes == t.reasm \o fr.data
           over == Len(bytes) > MaxMessage
           done  == ~over /\ ~fr.more
           out   == IF done THEN Append(r.out, bytes) ELSE r.out
           next  == IF over THEN "return"
                    ELSE IF fr.more THEN more
                    ELSE IF r.call.how # "batch" THEN "return"
                    ELSE IF Len(out) < r.call.n THEN "try" ELSE "end"
           owed  == t.pending + 1
           full  == owed >= CreditFlushThreshold
           reasm == IF over \/ ~fr.more THEN <<>> ELSE bytes
<1>1. t.recvQ # <<>>
  BY Zenon DEF ConsumeFrame
<1>2. fr \in DataFrames
  BY <1>1, TpFields DEF Typing, DataSeq
<1>3. bytes \in Text
  BY <1>2, TpFields DEF Typing, DataFrames, Text, Byte
<1>4. reasm \in Text
  BY <1>3, EmptySeqs
<1>5. out \in Texts
  <2>1. r.out \in Texts
    BY RcvFields, Zenon DEF Typing
  <2>2. Append(r.out, bytes) \in Texts
    <3> HIDE DEF r, bytes
    <3>1. QED
      BY <1>3, <2>1 DEF Texts
  <2>3. QED
    BY <2>1, <2>2, Zenon
<1>6. next \in {more, "return", "try", "end"}
  OBVIOUS
<1>7. owed \in Nat /\ CreditFlushThreshold \in Nat
  BY TpFields, ThresholdFits, DepthAssumption DEF Typing
<1>8. CASE nic[e].down
  <2>1. /\ tp'  = [tp EXCEPT ![e] = [tp[e] EXCEPT !.recvQ = Tail(@), !.reasm = reasm]]
        /\ rcv' = [rcv EXCEPT ![e].pc = "return"]
        /\ nic' = nic
    BY <1>8, Zenon DEF ConsumeFrame
  <2> HIDE DEF reasm, out, next
  <2>2. QED
    BY <1>1, <1>4, <1>5, <1>6, <1>8, <2>1, Zenon DEF Consumed
<1>9. CASE ~nic[e].down
  <2>1. nic' = [nic EXCEPT ![e].ring = @ + 1]
    BY <1>9, Zenon DEF ConsumeFrame
  <2>2. CASE full
    <3>1. /\ tp'  = [tp EXCEPT ![e] = [tp[e] EXCEPT !.recvQ = Tail(@), !.reasm = reasm,
                                         !.pending = 0]]
          /\ Flush(e, owed, next, out)
      BY <1>9, <2>2, Zenon DEF ConsumeFrame
    <3> HIDE DEF reasm, out, next
    <3>2. QED
      BY <1>1, <1>4, <1>5, <1>6, <1>9, <2>1, <2>2, <3>1, Zenon DEF Consumed
  <2>3. CASE ~full
    <3>1. /\ tp'  = [tp EXCEPT ![e] = [tp[e] EXCEPT !.recvQ = Tail(@), !.reasm = reasm,
                                         !.pending = owed]]
          /\ Flush(e, 0, next, out)
      BY <1>9, <2>3, Zenon DEF ConsumeFrame
    <3>2. owed < CreditFlushThreshold
      BY <1>7, <2>3
    <3> HIDE DEF reasm, out, next
    <3>3. QED
      BY <1>1, <1>4, <1>5, <1>6, <1>9, <2>1, <3>1, <3>2, Zenon DEF Consumed
  <2>4. QED
    BY <2>2, <2>3
<1>10. QED
  BY <1>8, <1>9

(* Every step leaves the receivers well typed.                             *)
LEMMA RcvTyped ==
  ASSUME Types, [Next]_vars
  PROVE  rcv' \in [Peers -> Rcv(scene.calls)]
<1> DEFINE calls == scene.calls
<1>0. rcv \in [Peers -> Rcv(calls)] /\ tp \in [Peers -> Tp] /\ Typing
  BY DEF Types, Typing
<1> HIDE DEF calls
<1>u. \A e \in Peers : \A r \in Rcv(calls) : [rcv EXCEPT ![e] = r] \in [Peers -> Rcv(calls)]
  BY <1>0
<1>p. \A e \in Peers, pc \in RecvPcs : [rcv EXCEPT ![e].pc = pc] \in [Peers -> Rcv(calls)]
  BY <1>0 DEF Rcv
<1>c. "return" \in RecvPcs /\ "drain" \in RecvPcs /\ "try" \in RecvPcs
      /\ "idle" \in RecvPcs /\ "end" \in RecvPcs /\ "block" \in RecvPcs
      /\ "stop" \in RecvPcs
  BY DEF RecvPcs
<1>f. \A e \in Peers : tp[e].pending \in Nat /\ rcv[e].out \in Texts
  BY <1>0, TpFields, RcvFields
<1>1. ASSUME NEW e \in Peers, NEW more \in RecvPcs, ConsumeFrame(e, more)
      PROVE  rcv' \in [Peers -> Rcv(calls)]
  <2>1. CASE rcv' = [rcv EXCEPT ![e].pc = "return"]
    BY <1>p, <1>c, <2>1, Zenon
  <2>2. ASSUME NEW n \in Nat, NEW next \in RecvPcs, NEW out \in Texts, Flush(e, n, next, out)
        PROVE  rcv' \in [Peers -> Rcv(calls)]
    BY <1>0, <2>2, FlushShape, Zenon
  <2>3. tp[e].pending + 1 \in Nat /\ 0 \in Nat
    BY <1>f
  <2>4. {more, "return", "try", "end"} \subseteq RecvPcs
    BY <1>c
  <2>5. PICK reasm \in Text, out \in Texts, next \in {more, "return", "try", "end"} :
               Consumed(e, reasm, out, next)
    BY <1>0, <1>1, ConsumeShape, Zenon
  <2>6. next \in RecvPcs
    BY <2>4, Zenon
  <2>7. QED
    BY <2>1, <2>2, <2>3, <2>5, <2>6, Zenon DEF Consumed
<1>2. ASSUME NEW e \in Peers, RecvCall(e) PROVE rcv' \in [Peers -> Rcv(calls)]
  <2>1. PICK c \in calls : \E pc \in {"return", "drain"} :
               rcv' = [rcv EXCEPT ![e] = [@ EXCEPT !.pc = pc, !.call = c]]
    BY <1>2, Zenon DEF RecvCall, calls
  <2>2. \A pc \in {"return", "drain"} : [rcv[e] EXCEPT !.pc = pc, !.call = c] \in Rcv(calls)
    BY <1>0, <1>c, RcvUpdates
  <2>3. QED
    BY <1>u, <2>1, <2>2
<1>3. ASSUME NEW e \in Peers, RecvDrain(e) \/ RecvEnd(e) PROVE rcv' \in [Peers -> Rcv(calls)]
  <2>1. \/ ConsumeFrame(e, "drain")
        \/ Flush(e, tp[e].pending, "block", rcv[e].out)
        \/ Flush(e, tp[e].pending, "return", rcv[e].out)
    BY <1>3, Zenon DEF RecvDrain, RecvEnd
  <2>2. QED
    BY <1>0, <1>1, <1>c, <1>f, <2>1, FlushShape, Zenon
<1>4. ASSUME NEW e \in Peers, RecvBlock(e) \/ RecvTry(e)
      PROVE  rcv' \in [Peers -> Rcv(calls)]
  <2>1. \/ ConsumeFrame(e, "drain") \/ ConsumeFrame(e, "try")
        \/ rcv' = [rcv EXCEPT ![e].pc = "stop"]
        \/ rcv' = [rcv EXCEPT ![e].pc = "end"]
    BY <1>4, Zenon DEF RecvBlock, RecvTry
  <2>3. CASE ConsumeFrame(e, "drain")
    BY <1>1, <1>c, <2>3, Zenon
  <2>4. CASE ConsumeFrame(e, "try")
    BY <1>1, <1>c, <2>4, Zenon
  <2>5. QED
    <3>1. CASE rcv' = [rcv EXCEPT ![e].pc = "stop"]
      BY <1>p, <1>c, <3>1, Zenon
    <3>2. CASE rcv' = [rcv EXCEPT ![e].pc = "end"]
      BY <1>p, <1>c, <3>2, Zenon
    <3>3. QED
      BY <2>1, <2>3, <2>4, <3>1, <3>2, Zenon
<1>5. ASSUME NEW e \in Peers, ReturnCredit(e) PROVE rcv' \in [Peers -> Rcv(calls)]
  <2>1. rcv[e].then \in RecvPcs /\ rcv[e] \in Rcv(calls) /\ 0 \in Nat
    BY <1>0, RcvFields
  <2>2. [rcv[e] EXCEPT !.pc = rcv[e].then, !.then = "idle", !.n = 0] \in Rcv(calls)
    BY <1>c, <2>1, RcvUpdates, Zenon
  <2>3. QED
    BY <1>5, <1>u, <2>2, Zenon DEF ReturnCredit
<1>6. ASSUME NEW e \in Peers, RecvReturn(e) PROVE rcv' \in [Peers -> Rcv(calls)]
  <2> DEFINE r == rcv[e]
             buf == IF r.out = <<>> THEN r.rest ELSE r.rest \o Head(r.out)
             n   == IF r.call.n < Len(buf) THEN r.call.n ELSE Len(buf)
  <2>1. r \in Rcv(calls) /\ r.rest \in Text /\ r.out \in Texts /\ <<>> \in Texts
    BY <1>0, RcvFields, EmptySeqs, Zenon
  <2>2. CASE rcv' = [rcv EXCEPT ![e] = [@ EXCEPT !.pc = "idle", !.out = <<>>]]
    <3>1. [r EXCEPT !.pc = "idle", !.out = <<>>] \in Rcv(calls)
      BY <1>c, <2>1, RcvUpdates, Zenon
    <3>2. QED
      BY <2>2, <3>1, <1>u, Zenon
  <2>3. CASE /\ r.call.how = "read"
             /\ rcv' = [rcv EXCEPT ![e] = [@ EXCEPT !.pc = "idle", !.out = <<>>,
                                             !.rest = LeftOver(buf, n)]]
    <3>0. buf \in Text
      BY <2>1, ReadBuffer DEF RecvBuffer
    <3>1. n \in Nat
      <4>0. Len(buf) \in Nat
        <5> HIDE DEF buf
        <5>1. QED  BY <3>0 DEF Text
      <4>1. r.call \in calls \cup {[how |-> "msg"]} /\ Len(buf) \in Nat
        BY <1>0, <4>0, RcvFields, Zenon
      <4>2. \A c \in calls : IsRecvCall(c)
        BY <1>0, ScriptType DEF Typing, calls, Peers
      <4>3. r.call.n \in Nat
        BY <2>3, <4>1, <4>2 DEF IsRecvCall
      <4> HIDE DEF r, buf
      <4>4. QED
        BY <4>1, <4>3
    <3>2. LeftOver(buf, n) \in Text
      <4> HIDE DEF n, buf
      <4>1. QED
        BY <3>0, <3>1 DEF LeftOver, Text
    <3>3. [r EXCEPT !.pc = "idle", !.out = <<>>, !.rest = LeftOver(buf, n)] \in Rcv(calls)
      BY <1>c, <2>1, <3>2, RcvUpdates, Zenon
    <3>4. QED
      BY <2>3, <3>3, <1>u, Zenon
  <2>4. QED
    BY <1>6, <2>2, <2>3, Zenon DEF RecvReturn
<1>8. CASE UNCHANGED rcv
  BY <1>0, <1>8 DEF calls
<1>9. QED
  BY <1>2, <1>3, <1>4, <1>5, <1>6, <1>8, WhoMoves, Zenon DEF Receiver, calls

(* Every step leaves the pollers well typed.                               *)
LEMMA PlrTyped ==
  ASSUME Types, [Next]_vars
  PROVE  plr' \in [Peers -> Plr]
<1>0. plr \in [Peers -> Plr] /\ nic \in [Peers -> Nic]
  BY DEF Types, Typing
<1>u. \A e \in Peers : \A r \in Plr : [plr EXCEPT ![e] = r] \in [Peers -> Plr]
  BY <1>0
<1>p. \A e \in Peers, pc \in PollPcs : [plr EXCEPT ![e].pc = pc] \in [Peers -> Plr]
  BY <1>0 DEF Plr
<1>c. "poll" \in PollPcs /\ "token" \in PollPcs /\ "exit" \in PollPcs
  BY DEF PollPcs
<1>1. ASSUME NEW e \in Peers, StartPoller(e) PROVE plr' \in [Peers -> Plr]
  <2>1. (IF plr[e].pc = "off" THEN "poll" ELSE plr[e].pc) \in PollPcs
    BY <1>0, <1>c, PlrFields
  <2>2. plr' = [plr EXCEPT ![e].pc = IF plr[e].pc = "off" THEN "poll" ELSE plr[e].pc]
    BY <1>1, Zenon DEF StartPoller
  <2>3. QED
    BY <1>p, <2>1, <2>2, Zenon
<1>2. ASSUME NEW e \in Peers, SendCall(e) \/ RecvCall(e) PROVE plr' \in [Peers -> Plr]
  <2>1. StartPoller(e) \/ plr' = plr
    BY <1>2, Zenon DEF SendCall, RecvCall
  <2>2. QED
    BY <1>0, <1>1, <2>1, Zenon
<1>3. ASSUME NEW e \in Peers, DispatchSend(e) PROVE plr' \in [Peers -> Plr]
  <2> DEFINE n == IF tp[e].closed THEN plr[e].sends - 1 ELSE plr[e].sends
             pc == IF Head(nic[e].sq).kind = "data" THEN "token" ELSE plr[e].pc
  <2>1. n \in Nat /\ pc \in PollPcs /\ plr[e] \in Plr
    BY <1>0, <1>3, <1>c, PlrFields DEF DispatchSend
  <2>2. plr' = [plr EXCEPT ![e] = [plr[e] EXCEPT !.sends = n, !.pc = pc]]
    BY <1>3, Zenon DEF DispatchSend
  <2> HIDE DEF n, pc
  <2>3. [plr[e] EXCEPT !.sends = n, !.pc = pc] \in Plr
    BY <2>1, PlrUpdates, Zenon
  <2>4. QED
    BY <2>2, <2>3, <1>u, Zenon
<1>4. ASSUME NEW e \in Peers, DispatchRecv(e) PROVE plr' \in [Peers -> Plr]
  <2> DEFINE n == IF tp[e].closed THEN plr[e].recvs - 1 ELSE plr[e].recvs
             pc == IF nic[e].down THEN "exit" ELSE plr[e].pc
  <2>1. n \in Nat /\ pc \in PollPcs /\ plr[e] \in Plr
    BY <1>0, <1>4, <1>c, PlrFields DEF DispatchRecv
  <2>2. \/ plr' = [plr EXCEPT ![e] = [plr[e] EXCEPT !.recvs = n, !.pc = pc]]
        \/ plr' = [plr EXCEPT ![e].recvs = n]
    BY <1>4, Zenon DEF DispatchRecv
  <2> HIDE DEF n, pc
  <2>3. [plr[e] EXCEPT !.recvs = n, !.pc = pc] \in Plr
    BY <2>1, PlrUpdates, Zenon
  <2>4. [plr EXCEPT ![e].recvs = n] \in [Peers -> Plr]
    BY <1>0, <2>1 DEF Plr
  <2>5. QED
    BY <2>2, <2>3, <2>4, <1>u, Zenon
<1>5. ASSUME NEW e \in Peers, PollLast(e) PROVE plr' \in [Peers -> Plr]
  <2>1. PICK s \in 0 .. nic[e].landed, r \in 0 .. Len(nic[e].inbox) :
               plr' = [plr EXCEPT ![e] = [pc |-> "poll", final |-> TRUE,
                                          sends |-> s, recvs |-> r]]
    BY <1>5, Zenon DEF PollLast
  <2>2. s \in Nat /\ r \in Nat
    <3>1. nic[e].landed \in Nat
      BY <1>0, NicFields
    <3>2. Len(nic[e].inbox) \in Nat
      BY <1>0, NicFields DEF FrameSeq
    <3>3. QED
      BY <3>1, <3>2
  <2>3. [pc |-> "poll", final |-> TRUE, sends |-> s, recvs |-> r] \in Plr
    BY <1>c, <2>2 DEF Plr
  <2>4. QED
    BY <2>1, <2>3, <1>u, Zenon
<1>6. ASSUME NEW e \in Peers, PushToken(e) \/ DispatchError(e) \/ PollerExit(e)
      PROVE  plr' \in [Peers -> Plr]
  <2>1. plr' = [plr EXCEPT ![e].pc = "poll"] \/ plr' = [plr EXCEPT ![e].pc = "exit"]
    BY <1>6, Zenon DEF PushToken, DispatchError, PollerExit
  <2>2. CASE plr' = [plr EXCEPT ![e].pc = "poll"]
    BY <1>p, <1>c, <2>2, Zenon
  <2>3. CASE plr' = [plr EXCEPT ![e].pc = "exit"]
    BY <1>p, <1>c, <2>3, Zenon
  <2>4. QED
    BY <2>1, <2>2, <2>3
<1>7. CASE UNCHANGED plr
  BY <1>0, <1>7
<1>8. QED
  BY <1>2, <1>3, <1>4, <1>5, <1>6, <1>7, WhoMoves, Zenon DEF Poller

(* Every step leaves the closers well typed.                               *)
LEMMA ClsTyped ==
  ASSUME Types, [Next]_vars
  PROVE  cls' \in [Peers -> {"open", "fin", "close", "teardown", "closed"}]
<1> DEFINE Pcs == {"open", "fin", "close", "teardown", "closed"}
<1>0. cls \in [Peers -> Pcs]
  BY DEF Types, Typing
<1>1. ASSUME NEW e \in Peers, CloseCall(e) \/ Closer(e) PROVE cls' \in [Peers -> Pcs]
  BY <1>0, <1>1 DEF CloseCall, Closer, CloseFin, CloseDone, TearDown
<1>2. QED
  BY <1>0, <1>1, WhoMoves

(* The actions that record history.                                        *)
HistMoves(e) == PostFrame(e) \/ SendReturn(e) \/ RecvBlock(e) \/ RecvReturn(e)

(* No other action does.                                                   *)
LEMMA WhoRecords ==
  ASSUME [Next]_vars
  PROVE  (\E e \in Peers : HistMoves(e)) \/ UNCHANGED hist
<1> USE DEF HistMoves, Sender, Receiver, Poller, Closer
<1> USE DEF SendCall, DrainSendDone, AcquireCredit, WaitToken
<1> USE DEF RecvCall, RecvDrain, RecvTry, RecvEnd, ReturnCredit, ConsumeFrame
<1> USE DEF DispatchSend, PushToken, DispatchRecv, DispatchError, PollLast, PollerExit
<1> USE DEF Land, CloseCall, CloseFin, CloseDone, TearDown
<1>1. CASE \E e \in Peers : SendCall(e) \/ Sender(e)
  BY <1>1, Zenon
<1>2. CASE \E e \in Peers : RecvCall(e) \/ Receiver(e)
  BY <1>2, ZenonT(30)
<1>3. CASE \E e \in Peers : Poller(e) \/ Land(e)
  BY <1>3, ZenonT(30)
<1>4. CASE \E e \in Peers : CloseCall(e) \/ Closer(e)
  BY <1>4, Zenon
<1>5. CASE UNCHANGED vars
  BY <1>5, Zenon DEF vars
<1>6. QED
  BY <1>1, <1>2, <1>3, <1>4, <1>5, NextCases, Zenon

(* Every step leaves the histories well typed.                             *)
LEMMA HistTyped ==
  ASSUME Types, [Next]_vars
  PROVE  hist' \in [Peers -> Hist]
<1>0. /\ hist \in [Peers -> Hist] /\ snd \in [Peers -> Snd]
      /\ rcv \in [Peers -> Rcv(scene.calls)] /\ scene \in Scenes
  BY DEF Types, Typing
<1>1. ASSUME NEW e \in Peers, PostFrame(e) PROVE hist' \in [Peers -> Hist]
  <2>1. Message(e, snd[e].call, snd[e].k) \in Text
    <3>1. snd[e].pc = "post"
      BY <1>1, Zenon DEF PostFrame
    <3>2. /\ snd[e].call \in 1 .. Len(Script[e])
          /\ snd[e].k \in 1 .. Len(Script[e][snd[e].call])
      BY <3>1 DEF Types, InCall
    <3>3. 1 \in Nat \ {0}
      OBVIOUS
    <3>4. QED
      BY <1>0, <3>2, <3>3, FrameType, Zenon
  <2>2. \/ hist' = hist
        \/ hist' = [hist EXCEPT ![e].stream = Append(@, Message(e, snd[e].call, snd[e].k))]
        \/ hist' = [hist EXCEPT ![e].lost = @ + 1]
    BY <1>1, Zenon DEF PostFrame
  <2>3. Append(hist[e].stream, Message(e, snd[e].call, snd[e].k)) \in Texts
    BY <1>0, <2>1, HistFields DEF Texts
  <2>4. \A s \in Texts : [hist EXCEPT ![e].stream = s] \in [Peers -> Hist]
    BY <1>0 DEF Hist
  <2>5. CASE hist' = [hist EXCEPT ![e].stream = Append(@, Message(e, snd[e].call, snd[e].k))]
    BY <2>3, <2>4, <2>5, Zenon
  <2>6. CASE hist' = [hist EXCEPT ![e].lost = @ + 1]
    BY <1>0, <2>6 DEF Hist
  <2>7. QED
    BY <1>0, <2>2, <2>5, <2>6, Zenon
<1>2. ASSUME NEW e \in Peers, SendReturn(e) PROVE hist' \in [Peers -> Hist]
  <2>1. Len(hist[e].stream) \in Nat
    BY <1>0, HistFields DEF Texts
  <2>2. hist' = hist \/ hist' = [hist EXCEPT ![e].promised = Len(hist[e].stream)]
    BY <1>2, Zenon DEF SendReturn
  <2>3. QED
    BY <1>0, <2>1, <2>2 DEF Hist
<1>3. ASSUME NEW e \in Peers, RecvBlock(e) PROVE hist' \in [Peers -> Hist]
  <2>1. hist' = hist \/ hist' = [hist EXCEPT ![e].eof = TRUE]
    BY <1>3, Zenon DEF RecvBlock, ConsumeFrame
  <2>2. QED
    BY <1>0, <2>1 DEF Hist
<1>4. ASSUME NEW e \in Peers, RecvReturn(e) PROVE hist' \in [Peers -> Hist]
  <2> DEFINE r == rcv[e]
             buf == IF r.out = <<>> THEN r.rest ELSE r.rest \o Head(r.out)
             n   == IF r.call.n < Len(buf) THEN r.call.n ELSE Len(buf)
             got == hist[e].got \o r.out
             read == hist[e].read \o SubSeq(buf, 1, n)
  <2>1. r.rest \in Text /\ r.out \in Texts /\ hist[e].got \in Texts /\ hist[e].read \in Text
        /\ hist[e] \in Hist
    BY <1>0, RcvFields, HistFields, Zenon
  <2>2. got \in Texts
    BY <2>1 DEF Texts
  <2>3. CASE hist' = [hist EXCEPT ![e].got = @ \o r.out]
    <3>1. \A s \in Texts : [hist EXCEPT ![e].got = s] \in [Peers -> Hist]
      BY <1>0 DEF Hist
    <3> QED BY <2>2, <2>3, <3>1, Zenon
  <2>4. CASE /\ r.call.how = "read"
             /\ hist' = [hist EXCEPT ![e] = [hist[e] EXCEPT !.got = @ \o r.out,
                                              !.read = @ \o SubSeq(buf, 1, n)]]
    <3>0. buf \in Text
      BY <2>1, ReadBuffer DEF RecvBuffer
    <3>1. n \in 0 .. Len(buf)
      <4>0. Len(buf) \in Nat
        <5> HIDE DEF buf
        <5>1. QED  BY <3>0 DEF Text
      <4>1. r.call \in scene.calls \cup {[how |-> "msg"]}
        BY <1>0, RcvFields, Zenon
      <4>2. \A c \in scene.calls : IsRecvCall(c)
        BY <1>0, ScriptType DEF Peers
      <4>3. r.call.n \in Nat
        BY <2>4, <4>1, <4>2 DEF IsRecvCall
      <4> HIDE DEF r, buf
      <4>4. QED
        BY <4>0, <4>3
    <3>2. read \in Text
      <4> HIDE DEF n, buf
      <4>1. SubSeq(buf, 1, n) \in Text
        BY <3>0, <3>1 DEF Text
      <4>2. QED
        BY <2>1, <4>1 DEF Text
    <3>3. hist' = [hist EXCEPT ![e] = [hist[e] EXCEPT !.got = got, !.read = read]]
      BY <2>4, Zenon
    <3> HIDE DEF got, read
    <3>4. [hist[e] EXCEPT !.got = got, !.read = read] \in Hist
      BY <2>1, <2>2, <3>2, HistUpdate, Zenon
    <3>5. QED
      BY <1>0, <3>3, <3>4
  <2>5. QED
    BY <1>4, <2>3, <2>4, Zenon DEF RecvReturn
<1>5. QED
  BY <1>0, <1>1, <1>2, <1>3, <1>4, WhoRecords, Zenon DEF HistMoves

(* What PostFrame posts is a data frame.                                   *)
LEMMA DataPosted ==
  ASSUME Types, NEW e \in Peers, snd[e].pc = "post"
  PROVE  LET fr == DataFrame(e, snd[e].call, snd[e].k, snd[e].f) IN
         fr \in DataFrames /\ fr \in Frames /\ fr.kind = "data"
<1>1. /\ snd[e].call \in 1 .. Len(Script[e])
      /\ snd[e].k \in 1 .. Len(Script[e][snd[e].call])
  BY DEF Types, InCall
<1>2. snd[e].f \in Nat \ {0} /\ scene \in Scenes
  BY SndFields, Zenon DEF Types, Typing
<1>3. QED
  BY <1>1, <1>2, FrameType, Zenon DEF Frames

(* The fin and the credit frames are frames.                               *)
LEMMA ControlFrames ==
  /\ FinFrame \in Frames
  /\ \A n \in 1 .. Depth : CreditFrame(n) \in Frames
BY DEF FinFrame, CreditFrame, Frames

(* The actions that change a transport, and those that change a queue      *)
(* pair.                                                                   *)
TpMoves(e) ==
  \/ SendCall(e) \/ DrainSendDone(e) \/ AcquireCredit(e) \/ PostFrame(e)
  \/ WaitToken(e)
  \/ RecvCall(e) \/ RecvDrain(e) \/ RecvBlock(e) \/ RecvTry(e) \/ RecvEnd(e)
  \/ ReturnCredit(e)
  \/ DispatchSend(e) \/ PushToken(e) \/ DispatchRecv(e) \/ DispatchError(e)
  \/ CloseFin(e) \/ CloseDone(e)
NicMoves(e) ==
  \/ SendCall(e) \/ PostFrame(e)
  \/ RecvCall(e) \/ RecvDrain(e) \/ RecvBlock(e) \/ RecvTry(e)
  \/ ReturnCredit(e)
  \/ DispatchSend(e) \/ DispatchRecv(e)
  \/ Land(e) \/ CloseFin(e) \/ TearDown(e)

(* No other action does.                                                   *)
LEMMA WhoTouches ==
  ASSUME [Next]_vars
  PROVE  /\ (\E e \in Peers : TpMoves(e)) \/ UNCHANGED tp
         /\ (\E e \in Peers : NicMoves(e)) \/ UNCHANGED nic
<1> USE DEF TpMoves, NicMoves, Sender, Receiver, Poller, Closer
<1> USE DEF SendReturn, RecvReturn, PollLast, PollerExit, CloseCall
<1>1. CASE \E e \in Peers : SendCall(e) \/ Sender(e)
  BY <1>1, Zenon DEF DrainSendDone, AcquireCredit, WaitToken
<1>2. CASE \E e \in Peers : RecvCall(e) \/ Receiver(e)
  BY <1>2, Zenon DEF RecvEnd
<1>3. CASE \E e \in Peers : Poller(e) \/ Land(e)
  BY <1>3, ZenonT(30) DEF PushToken, DispatchError, Land
<1>4. CASE \E e \in Peers : CloseCall(e) \/ Closer(e)
  BY <1>4, Zenon DEF CloseDone, TearDown
<1>5. CASE UNCHANGED vars
  BY <1>5, Zenon DEF vars
<1>6. QED
  BY <1>1, <1>2, <1>3, <1>4, <1>5, NextCases, Zenon

(* Every step leaves the transports well typed.                            *)
LEMMA TpTyped ==
  ASSUME Types, [Next]_vars
  PROVE  tp' \in [Peers -> Tp]
<1>0. tp \in [Peers -> Tp] /\ nic \in [Peers -> Nic] /\ Typing
  BY DEF Types, Typing
<1>u. \A e \in Peers : \A r \in Tp : [tp EXCEPT ![e] = r] \in [Peers -> Tp]
  BY <1>0
<1>a. \A e \in Peers : [tp EXCEPT ![e].closed = TRUE] \in [Peers -> Tp]
  BY <1>0 DEF Tp
<1>b. \A e \in Peers : tp[e].creditFree > 0 =>
        [tp EXCEPT ![e].creditFree = tp[e].creditFree - 1] \in [Peers -> Tp]
  BY <1>0 DEF Tp
<1>1. ASSUME NEW e \in Peers, SendCall(e) \/ RecvCall(e) PROVE tp' \in [Peers -> Tp]
  <2>1. tp' = [tp EXCEPT ![e].up = TRUE]
    BY <1>1, Zenon DEF SendCall, RecvCall, BringUp
  <2>2. QED
    BY <1>0, <2>1 DEF Tp
<1>2. ASSUME NEW e \in Peers, DrainSendDone(e) PROVE tp' \in [Peers -> Tp]
  BY <1>0, <1>2, DepthAssumption DEF DrainSendDone, Tp, Tokens
<1>3. ASSUME NEW e \in Peers, AcquireCredit(e) PROVE tp' \in [Peers -> Tp]
  BY <1>0, <1>3 DEF AcquireCredit, Tp
<1>4. ASSUME NEW e \in Peers, PostFrame(e) PROVE tp' \in [Peers -> Tp]
  <2>1. tp' = tp \/ (tp[e].sendFree > 0 /\ tp' = [tp EXCEPT ![e].sendFree = @ - 1])
    BY <1>4, Zenon DEF PostFrame
  <2>2. QED
    BY <1>0, <2>1 DEF Tp
<1>5. ASSUME NEW e \in Peers, WaitToken(e) PROVE tp' \in [Peers -> Tp]
  <2>1. tp' = tp \/ (tp[e].sendDone > 0 /\ tp' = [tp EXCEPT ![e].sendDone = @ - 1])
    BY <1>5, Zenon DEF WaitToken
  <2>2. QED
    BY <1>0, <2>1, DepthAssumption DEF Tp, Tokens
<1>6. ASSUME NEW e \in Peers, NEW more \in RecvPcs, ConsumeFrame(e, more)
      PROVE  tp' \in [Peers -> Tp]
  <2>1. PICK reasm \in Text, out \in Texts, next \in {more, "return", "try", "end"} :
               Consumed(e, reasm, out, next)
    BY <1>0, <1>6, ConsumeShape, Zenon
  <2>2. tp[e] \in Tp /\ tp[e].recvQ \in DataSeq /\ tp[e].pending + 1 \in Nat /\ 0 \in Nat
    BY <1>0, TpFields
  <2>3. Tail(tp[e].recvQ) \in DataSeq
    BY <2>1, <2>2 DEF Consumed, DataSeq
  <2>4. /\ [tp[e] EXCEPT !.recvQ = Tail(tp[e].recvQ), !.reasm = reasm] \in Tp
        /\ [tp[e] EXCEPT !.recvQ = Tail(tp[e].recvQ), !.reasm = reasm, !.pending = 0] \in Tp
        /\ [tp[e] EXCEPT !.recvQ = Tail(tp[e].recvQ), !.reasm = reasm,
                         !.pending = tp[e].pending + 1] \in Tp
    BY <2>2, <2>3, TpUpdates, Zenon
  <2>5. QED
    BY <2>1, <2>4, <1>u, Zenon DEF Consumed
<1>7. ASSUME NEW e \in Peers, RecvDrain(e) \/ RecvBlock(e) \/ RecvTry(e) \/ RecvEnd(e)
      PROVE  tp' \in [Peers -> Tp]
  <2>1. \/ ConsumeFrame(e, "drain") \/ ConsumeFrame(e, "try") \/ tp' = tp
        \/ tp' = [tp EXCEPT ![e].pending = 0]
    BY <1>7, Zenon DEF RecvDrain, RecvBlock, RecvTry, RecvEnd
  <2>2. CASE tp' = [tp EXCEPT ![e].pending = 0]
    BY <1>0, <2>2 DEF Tp
  <2>3. "drain" \in RecvPcs /\ "try" \in RecvPcs
    BY DEF RecvPcs
  <2>4. QED
    BY <1>0, <1>6, <2>1, <2>2, <2>3, Zenon
<1>8. ASSUME NEW e \in Peers, ReturnCredit(e) PROVE tp' \in [Peers -> Tp]
  <2>1. \/ tp' = tp \/ tp' = [tp EXCEPT ![e].closed = TRUE]
        \/ tp[e].creditFree > 0 /\ tp' = [tp EXCEPT ![e].creditFree = @ - 1]
    BY <1>8, Zenon DEF ReturnCredit
  <2>2. QED
    BY <1>0, <1>a, <1>b, <2>1, Zenon
<1>9. ASSUME NEW e \in Peers, DispatchSend(e) PROVE tp' \in [Peers -> Tp]
  <2>1. \/ tp' = tp \/ tp' = [tp EXCEPT ![e].sendFree = @ + 1]
        \/ tp' = [tp EXCEPT ![e].creditFree = @ + 1]
    BY <1>9, Zenon DEF DispatchSend, FreeSlot
  <2>2. QED
    BY <1>0, <2>1 DEF Tp
<1>10. ASSUME NEW e \in Peers, PushToken(e) PROVE tp' \in [Peers -> Tp]
  BY <1>0, <1>10, DepthAssumption DEF PushToken, Tp, Tokens
<1>11. ASSUME NEW e \in Peers, DispatchRecv(e) PROVE tp' \in [Peers -> Tp]
  <2> DEFINE fr == Head(nic[e].inbox)
  <2>1. fr \in Frames
    BY <1>0, <1>11, NicFields DEF DispatchRecv, FrameSeq
  <2>2. tp[e] \in Tp /\ tp[e].credits \in Nat /\ tp[e].recvQ \in DataSeq
    BY <1>0, TpFields
  <2>3. CASE fr.kind = "credit" /\ tp' = [tp EXCEPT ![e].credits = @ + fr.n]
    <3>1. fr.n \in Nat
      BY <2>1, <2>3, DepthAssumption DEF Frames, DataFrames, FinFrame
    <3> HIDE DEF fr
    <3>2. QED
      BY <1>0, <2>2, <2>3, <3>1 DEF Tp
  <2>4. CASE tp' = [tp EXCEPT ![e].peerFin = TRUE]
    BY <1>0, <2>4 DEF Tp
  <2>5. CASE fr.kind = "data" /\ tp' = [tp EXCEPT ![e].recvQ = Append(@, fr)]
    <3>1. fr \in DataFrames
      BY <2>1, <2>5 DEF Frames, FinFrame
    <3> HIDE DEF fr
    <3>2. Append(tp[e].recvQ, fr) \in DataSeq
      BY <2>2, <3>1 DEF DataSeq
    <3>3. \A s \in DataSeq : [tp EXCEPT ![e].recvQ = s] \in [Peers -> Tp]
      BY <1>0 DEF Tp
    <3>4. QED
      BY <2>5, <3>2, <3>3, Zenon
  <2>6. QED
    BY <1>0, <1>11, <2>3, <2>4, <2>5, Zenon DEF DispatchRecv
<1>12. ASSUME NEW e \in Peers, DispatchError(e) \/ CloseFin(e) \/ CloseDone(e)
       PROVE  tp' \in [Peers -> Tp]
  <2>1. \/ tp' = tp \/ tp' = [tp EXCEPT ![e].closed = TRUE]
        \/ tp[e].creditFree > 0 /\ tp' = [tp EXCEPT ![e].creditFree = @ - 1]
    BY <1>12, Zenon DEF DispatchError, CloseFin, CloseDone
  <2>2. QED
    BY <1>0, <1>a, <1>b, <2>1, Zenon
<1>13. CASE UNCHANGED tp
  BY <1>0, <1>13
<1>14. QED
  BY <1>1, <1>2, <1>3, <1>4, <1>5, <1>7, <1>8, <1>9, <1>10, <1>11, <1>12, <1>13,
     WhoTouches, Zenon DEF TpMoves

(* Every step leaves the queue pairs well typed.                           *)
LEMMA NicTyped ==
  ASSUME Types, [Next]_vars
  PROVE  nic' \in [Peers -> Nic]
<1>0. /\ tp \in [Peers -> Tp] /\ nic \in [Peers -> Nic] /\ Typing
      /\ rcv \in [Peers -> Rcv(scene.calls)]
  BY DEF Types, Typing
<1>u. \A e \in Peers : \A r \in Nic : [nic EXCEPT ![e] = r] \in [Peers -> Nic]
  BY <1>0
<1>p. \A e \in Peers : \A fr \in Frames : Posted(e, fr) \in [Peers -> Nic]
  <2> TAKE e \in Peers
  <2> TAKE fr \in Frames
  <2>1. Append(nic[e].sq, fr) \in FrameSeq
    BY <1>0, NicFields DEF FrameSeq
  <2>2. \A s \in FrameSeq : [nic EXCEPT ![e].sq = s] \in [Peers -> Nic]
    BY <1>0 DEF Nic
  <2>3. QED
    BY <2>1, <2>2, Zenon DEF Posted
<1>1. ASSUME NEW e \in Peers, SendCall(e) \/ RecvCall(e) PROVE nic' \in [Peers -> Nic]
  <2>1. nic' = nic \/ nic' = [nic EXCEPT ![e].ring = Depth]
    BY <1>1, Zenon DEF SendCall, RecvCall, BringUp
  <2>2. QED
    BY <1>0, <2>1, DepthAssumption DEF Nic
<1>2. ASSUME NEW e \in Peers, PostFrame(e) PROVE nic' \in [Peers -> Nic]
  <2>1. nic' = nic \/ nic' = Posted(e, DataFrame(e, snd[e].call, snd[e].k, snd[e].f))
    BY <1>2, Zenon DEF PostFrame
  <2>2. snd[e].pc = "post"
    BY <1>2, Zenon DEF PostFrame
  <2>3. QED
    BY <1>0, <1>p, <2>1, <2>2, DataPosted, Zenon
<1>3. ASSUME NEW e \in Peers, NEW more \in RecvPcs, ConsumeFrame(e, more)
      PROVE  nic' \in [Peers -> Nic]
  <2>1. nic' = nic \/ nic' = [nic EXCEPT ![e].ring = @ + 1]
    BY <1>3, Zenon DEF ConsumeFrame
  <2>2. QED
    BY <1>0, <2>1 DEF Nic
<1>4. ASSUME NEW e \in Peers, RecvDrain(e) \/ RecvBlock(e) \/ RecvTry(e)
      PROVE  nic' \in [Peers -> Nic]
  <2>1. ConsumeFrame(e, "drain") \/ ConsumeFrame(e, "try") \/ nic' = nic
    BY <1>4, Zenon DEF RecvDrain, RecvBlock, RecvTry
  <2>2. "drain" \in RecvPcs /\ "try" \in RecvPcs
    BY DEF RecvPcs
  <2>3. QED
    BY <1>0, <1>3, <2>1, <2>2, Zenon
<1>5. ASSUME NEW e \in Peers, ReturnCredit(e) PROVE nic' \in [Peers -> Nic]
  <2>1. rcv[e].n \in 1 .. Depth
    BY <1>5 DEF ReturnCredit, Types, CreditInHand
  <2>2. nic' = nic \/ nic' = Posted(e, CreditFrame(rcv[e].n))
    BY <1>5, Zenon DEF ReturnCredit
  <2>3. QED
    BY <1>0, <1>p, <2>1, <2>2, ControlFrames, Zenon
<1>6. ASSUME NEW e \in Peers, CloseFin(e) PROVE nic' \in [Peers -> Nic]
  <2>1. nic' = nic \/ nic' = Posted(e, FinFrame)
    BY <1>6, Zenon DEF CloseFin
  <2>2. QED
    BY <1>0, <1>p, <2>1, ControlFrames, Zenon
<1>7. ASSUME NEW e \in Peers, DispatchSend(e) PROVE nic' \in [Peers -> Nic]
  <2>0. nic[e] \in Nic /\ nic[e].sq \in FrameSeq /\ nic[e].landed \in Nat
    BY <1>0, NicFields
  <2>1. nic[e].landed > 0 /\ LandedOfQueued(e)
    BY <1>7, Zenon DEF DispatchSend, Types
  <2>2. Tail(nic[e].sq) \in FrameSeq /\ nic[e].landed - 1 \in Nat
    BY <2>0, <2>1 DEF FrameSeq, LandedOfQueued
  <2>3. [nic[e] EXCEPT !.sq = Tail(nic[e].sq), !.landed = nic[e].landed - 1] \in Nic
    BY <2>0, <2>2, NicUpdates, Zenon
  <2>4. QED
    BY <1>7, <1>u, <2>3, Zenon DEF DispatchSend
<1>8. ASSUME NEW e \in Peers, DispatchRecv(e) PROVE nic' \in [Peers -> Nic]
  <2> DEFINE taken == [nic[e] EXCEPT !.inbox = Tail(nic[e].inbox)]
             again == [[nic[e] EXCEPT !.inbox = Tail(nic[e].inbox)]
                         EXCEPT !.ring = nic[e].ring + 1]
  <2>0. nic[e] \in Nic /\ nic[e].inbox \in FrameSeq /\ nic[e].ring + 1 \in Nat
    BY <1>0, NicFields
  <2>1. Tail(nic[e].inbox) \in FrameSeq
    BY <1>8, <2>0 DEF DispatchRecv, FrameSeq
  <2>2. \A s \in FrameSeq : [nic[e] EXCEPT !.inbox = s] \in Nic
    BY <2>0 DEF Nic
  <2>3. taken \in Nic
    BY <2>1, <2>2, Zenon
  <2>4. again \in Nic
    BY <2>0, <2>1, NicUpdates, Zenon
  <2>5. taken.ring = nic[e].ring
    BY <2>0 DEF Nic
  <2>6. \/ nic' = [nic EXCEPT ![e] = taken]
        \/ nic' = [nic EXCEPT ![e] = [taken EXCEPT !.ring = taken.ring + 1]]
    BY <1>8, Zenon DEF DispatchRecv
  <2> HIDE DEF taken, again
  <2>7. [taken EXCEPT !.ring = taken.ring + 1] = again
    BY <2>5 DEF again, taken
  <2>8. QED
    BY <1>u, <2>3, <2>4, <2>6, <2>7, Zenon
<1>9. ASSUME NEW e \in Peers, Land(e) PROVE nic' \in [Peers -> Nic]
  <2> DEFINE fr == nic[e].sq[nic[e].landed + 1]
             fed == [nic[Peer(e)] EXCEPT !.ring = nic[Peer(e)].ring - 1,
                                         !.inbox = Append(nic[Peer(e)].inbox, fr)]
  <2>1. /\ nic[e].landed < Len(nic[e].sq) /\ nic[Peer(e)].ring > 0
        /\ Peer(e) \in Peers
        /\ Peer(e) # e
    BY <1>9, ThePeers, Zenon DEF Land
  <2>2. /\ nic[e].sq \in FrameSeq /\ nic[e].landed \in Nat
        /\ nic[Peer(e)] \in Nic
        /\ nic[Peer(e)].inbox \in FrameSeq /\ nic[Peer(e)].ring - 1 \in Nat
    BY <1>0, <2>1, NicFields
  <2>3. fr \in Frames
    BY <2>1, <2>2 DEF FrameSeq
  <2>4. Append(nic[Peer(e)].inbox, fr) \in FrameSeq
    <3> HIDE DEF fr
    <3>1. QED  BY <2>2, <2>3 DEF FrameSeq
  <2>5. fed \in Nic
    BY <2>2, <2>4, NicUpdates, Zenon
  <2>6. [nic EXCEPT ![e].landed = @ + 1] \in [Peers -> Nic]
    BY <1>0, <2>2 DEF Nic
  <2>7. nic' = [[nic EXCEPT ![e].landed = @ + 1] EXCEPT ![Peer(e)] = fed]
    BY <1>9 DEF Land
  <2> HIDE DEF fed
  <2>8. QED
    BY <2>1, <2>5, <2>6, <2>7
<1>10. ASSUME NEW e \in Peers, TearDown(e) PROVE nic' \in [Peers -> Nic]
  BY <1>0, <1>10 DEF TearDown, Nic
<1>11. CASE UNCHANGED nic
  BY <1>0, <1>11
<1>12. QED
  BY <1>1, <1>2, <1>4, <1>5, <1>6, <1>7, <1>8, <1>9, <1>10, <1>11,
     WhoTouches, Zenon DEF NicMoves

(* Every step leaves the state well typed.                                 *)
LEMMA TypingStep == ASSUME Types, [Next]_vars PROVE Typing'
<1>1. scene' = scene /\ scene \in Scenes
  BY WhoMoves, Zenon DEF Types, Typing
<1>2. QED
  BY <1>1, SndTyped, RcvTyped, PlrTyped, ClsTyped, TpTyped, NicTyped,
     HistTyped, Zenon
  DEF Typing

-----------------------------------------------------------------------------
(* What each operation on a queue pair does to the amounts on its queues.  *)

(* The four kinds of what a frame carries.                                 *)
LEMMA WhatKinds == "data" \in What /\ "last" \in What /\ "ctl" \in What /\ "credit" \in What
BY DEF What

(* Amounts on the queues are natural numbers.                              *)
LEMMA QueueAmounts ==
  ASSUME nic \in [Peers -> Nic], NEW e \in Peers, NEW what \in What
  PROVE  /\ Queued(e, what) \in Nat /\ InFlight(e, what) \in Nat
         /\ Arrived(e, what) \in Nat
<1>1. nic[e].sq \in Seq(Frames) /\ nic[e].inbox \in Seq(Frames) /\ nic[e].landed \in Nat
  BY NicFields, Zenon DEF FrameSeq
<1>2. 0 \in Nat
  OBVIOUS
<1>3. QED
  BY <1>1, <1>2, CellsFinite, Zenon DEF Queued, InFlight, Arrived

(* Where a queue does not change, neither does what it carries.            *)
LEMMA QueuesStay ==
  ASSUME NEW e
  PROVE  /\ nic'[e].sq = nic[e].sq => \A what : Queued(e, what)' = Queued(e, what)
         /\ nic'[e].sq = nic[e].sq /\ nic'[e].landed = nic[e].landed
              => \A what : InFlight(e, what)' = InFlight(e, what)
         /\ nic'[e].inbox = nic[e].inbox => \A what : Arrived(e, what)' = Arrived(e, what)
BY Zenon DEF Queued, InFlight, Arrived

(* Taking the first frame of a queue takes what it carries.                *)
LEMMA AmountHead ==
  ASSUME NEW seq \in Seq(Frames), seq # <<>>, NEW what \in What
  PROVE  Amount(seq, 0, what) = Amount(Tail(seq), 0, what) + Carries(Head(seq), what)
<1>1. Amount(seq, 0, what) = Amount(seq, 1, what) + Carries(seq[1], what)
  <2>1. 0 \in Nat /\ 0 < Len(seq) /\ 0 + 1 = 1
    OBVIOUS
  <2>2. QED
    BY <2>1, AmountDrop, Zenon
<1>2. Amount(Tail(seq), 0, what) = Amount(seq, 1, what)
  <2>1. 1 \in Nat \ {0} /\ 1 - 1 = 0
    OBVIOUS
  <2>2. QED
    BY <2>1, AmountTail, Zenon
<1>3. Head(seq) = seq[1]
  OBVIOUS
<1>4. QED
  BY <1>1, <1>2, <1>3, Zenon

(* PostSend queues what its frame carries, and puts it in flight.          *)
LEMMA PostAmounts ==
  ASSUME nic \in [Peers -> Nic], NEW e \in Peers, LandedOfQueued(e),
         NEW fr \in Frames, nic' = Posted(e, fr), NEW what \in What
  PROVE  /\ Queued(e, what)' = Queued(e, what) + Carries(fr, what)
         /\ InFlight(e, what)' = InFlight(e, what) + Carries(fr, what)
<1>1. /\ nic[e].sq \in Seq(Frames) /\ nic[e].landed \in 0 .. Len(nic[e].sq)
      /\ 0 \in 0 .. Len(nic[e].sq)
  <2>1. nic[e].sq \in Seq(Frames) /\ nic[e].landed \in Nat
    BY NicFields, Zenon DEF FrameSeq
  <2>2. QED
    BY <2>1 DEF LandedOfQueued
<1>2. nic'[e].sq = Append(nic[e].sq, fr) /\ nic'[e].landed = nic[e].landed
  BY DEF Posted, Nic
<1>3. \A m \in 0 .. Len(nic[e].sq) :
        Amount(Append(nic[e].sq, fr), m, what) = Amount(nic[e].sq, m, what) + Carries(fr, what)
  BY <1>1, AmountAppend, Zenon
<1>4. /\ Queued(e, what)' = Amount(Append(nic[e].sq, fr), 0, what)
      /\ InFlight(e, what)' = Amount(Append(nic[e].sq, fr), nic[e].landed, what)
  BY <1>2, Zenon DEF Queued, InFlight
<1>5. QED
  BY <1>1, <1>3, <1>4, Zenon DEF Queued, InFlight

(* A completed SEND leaves the queue; it had landed, so that nothing in    *)
(* flight changes.                                                         *)
LEMMA SendAmounts ==
  ASSUME nic \in [Peers -> Nic], NEW e \in Peers, LandedOfQueued(e),
         nic[e].landed > 0,
         nic'[e].sq = Tail(nic[e].sq), nic'[e].landed = nic[e].landed - 1,
         NEW what \in What
  PROVE  /\ Queued(e, what) = Queued(e, what)' + Carries(Head(nic[e].sq), what)
         /\ InFlight(e, what)' = InFlight(e, what)
<1>1. /\ nic[e].sq \in Seq(Frames) /\ nic[e].sq # <<>>
      /\ nic[e].landed \in Nat \ {0}
  <2>1. nic[e].sq \in Seq(Frames) /\ nic[e].landed \in Nat
    BY NicFields, Zenon DEF FrameSeq
  <2>2. QED
    BY <2>1 DEF LandedOfQueued
<1>2. QED
  BY <1>1, AmountHead, AmountTail, Zenon DEF Queued, InFlight

(* What lands is in flight no longer: it has arrived at the peer, and is   *)
(* still on the send queue until its completion is polled.                 *)
LEMMA LandAmounts ==
  ASSUME nic \in [Peers -> Nic], NEW e \in Peers, Land(e), NEW what \in What
  PROVE  LET fr == nic[e].sq[nic[e].landed + 1] IN
         /\ fr \in Frames
         /\ Queued(e, what)' = Queued(e, what)
         /\ InFlight(e, what) = InFlight(e, what)' + Carries(fr, what)
         /\ Arrived(Peer(e), what)' = Arrived(Peer(e), what) + Carries(fr, what)
         /\ Arrived(e, what)' = Arrived(e, what)
         /\ Queued(Peer(e), what)' = Queued(Peer(e), what)
         /\ InFlight(Peer(e), what)' = InFlight(Peer(e), what)
<1> DEFINE fr == nic[e].sq[nic[e].landed + 1]
           r  == Peer(e)
<1>0. r \in Peers /\ r # e
  BY ThePeers, Zenon
<1>1. /\ nic[e].sq \in Seq(Frames) /\ nic[e].landed \in Nat
      /\ nic[r].inbox \in Seq(Frames)
  BY <1>0, NicFields, Zenon DEF FrameSeq
<1>2. nic[e].landed < Len(nic[e].sq)
  BY Zenon DEF Land
<1>3. fr \in Frames
  BY <1>1, <1>2
<1>4. /\ nic'[e].sq = nic[e].sq /\ nic'[e].landed = nic[e].landed + 1
      /\ nic'[e].inbox = nic[e].inbox
      /\ nic'[r].sq = nic[r].sq /\ nic'[r].landed = nic[r].landed
      /\ nic'[r].inbox = Append(nic[r].inbox, fr)
  BY <1>0 DEF Land, Nic
<1>5. InFlight(e, what) = InFlight(e, what)' + Carries(fr, what)
  BY <1>1, <1>2, <1>4, AmountDrop, Zenon DEF InFlight
<1>6. Arrived(r, what)' = Arrived(r, what) + Carries(fr, what)
  <2>1. 0 \in 0 .. Len(nic[r].inbox)
    BY <1>1
  <2> HIDE DEF fr
  <2>2. QED
    BY <1>1, <1>3, <1>4, <2>1, AmountAppend, Zenon DEF Arrived
<1>7. QED
  BY <1>3, <1>4, <1>5, <1>6, QueuesStay, Zenon

(* A RECV that is polled takes its frame from what has arrived.            *)
LEMMA RecvAmounts ==
  ASSUME nic \in [Peers -> Nic], NEW e \in Peers, nic[e].inbox # <<>>,
         nic'[e].inbox = Tail(nic[e].inbox), NEW what \in What
  PROVE  /\ Head(nic[e].inbox) \in Frames
         /\ Arrived(e, what) = Arrived(e, what)' + Carries(Head(nic[e].inbox), what)
<1>1. nic[e].inbox \in Seq(Frames)
  BY NicFields, Zenon DEF FrameSeq
<1>2. Head(nic[e].inbox) \in Frames
  BY <1>1
<1>3. QED
  BY <1>1, <1>2, AmountHead, Zenon DEF Arrived

(* The last frames in flight are among the data frames on the queue.       *)
LEMMA LastIsData ==
  ASSUME nic \in [Peers -> Nic], NEW e \in Peers
  PROVE  InFlight(e, "last") <= Queued(e, "data")
<1> DEFINE S == Cells(nic[e].sq, nic[e].landed, "last")
           T == Cells(nic[e].sq, 0, "data")
<1>1. nic[e].sq \in Seq(Frames) /\ nic[e].landed \in Nat /\ 0 \in Nat
  BY NicFields, Zenon DEF FrameSeq
<1>2. S \subseteq T
  <2> SUFFICES ASSUME NEW i \in nic[e].landed + 1 .. Len(nic[e].sq),
                      NEW k \in 1 .. Carries(nic[e].sq[i], "last")
               PROVE  <<i, k>> \in T
    BY DEF Cells
  <2>1. i \in 0 + 1 .. Len(nic[e].sq)
    BY <1>1
  <2>2. k \in 1 .. Carries(nic[e].sq[i], "data")
    BY DEF Carries
  <2>3. QED
    BY <2>1, <2>2 DEF Cells
<1>3. IsFiniteSet(T)
  BY <1>1, WhatKinds, CellsFinite, Zenon
<1>4. QED
  BY <1>2, <1>3, FS_Subset, Zenon DEF InFlight, Queued, Amount

(* What data, credit and fin frames carry.                                 *)
LEMMA Carried ==
  /\ \A fr \in DataFrames :
       /\ Carries(fr, "data") = 1 /\ Carries(fr, "ctl") = 0
       /\ Carries(fr, "credit") = 0
       /\ Carries(fr, "last") = IF fr.more THEN 0 ELSE 1
  /\ \A n \in 1 .. Depth :
       /\ Carries(CreditFrame(n), "data") = 0
       /\ Carries(CreditFrame(n), "ctl") = 1
       /\ Carries(CreditFrame(n), "credit") = n
       /\ Carries(CreditFrame(n), "last") = 0
  /\ Carries(FinFrame, "data") = 0 /\ Carries(FinFrame, "ctl") = 1
  /\ Carries(FinFrame, "credit") = 0 /\ Carries(FinFrame, "last") = 0
BY DEF Carries, DataFrames, CreditFrame, FinFrame

(* Every frame is one of these, and carries accordingly.                   *)
LEMMA FrameCarries ==
  ASSUME NEW fr \in Frames
  PROVE  \/ /\ fr.kind = "data" /\ fr \in DataFrames
            /\ Carries(fr, "data") = 1 /\ Carries(fr, "ctl") = 0
            /\ Carries(fr, "credit") = 0 /\ Carries(fr, "last") \in {0, 1}
         \/ /\ fr.kind = "credit" /\ fr.n \in 1 .. Depth
            /\ Carries(fr, "data") = 0 /\ Carries(fr, "ctl") = 1
            /\ Carries(fr, "credit") = fr.n /\ Carries(fr, "last") = 0
         \/ /\ fr.kind = "fin"
            /\ Carries(fr, "data") = 0 /\ Carries(fr, "ctl") = 1
            /\ Carries(fr, "credit") = 0 /\ Carries(fr, "last") = 0
<1>1. CASE fr \in DataFrames
  BY <1>1, Carried DEF DataFrames
<1>2. CASE fr \in [kind : {"credit"}, n : 1 .. Depth]
  BY <1>2 DEF Carries
<1>3. CASE fr = FinFrame
  BY <1>3, Carried DEF FinFrame
<1>4. QED
  BY <1>1, <1>2, <1>3 DEF Frames

(* A step of a goroutine of e.                                             *)
Moves(e) == \/ SendCall(e) \/ Sender(e) \/ RecvCall(e) \/ Receiver(e)
            \/ Poller(e) \/ CloseCall(e) \/ Closer(e)

(* The state of e.                                                         *)
Still(e) == UNCHANGED <<snd[e], rcv[e], plr[e], cls[e], tp[e], nic[e], hist[e]>>

(* Whatever changes is the part of e.                                      *)
OnlyAt(e) ==
  /\ snd' = snd   \/ \E s : snd' = [snd EXCEPT ![e] = s]
  /\ rcv' = rcv   \/ \E s : rcv' = [rcv EXCEPT ![e] = s]
  /\ plr' = plr   \/ \E s : plr' = [plr EXCEPT ![e] = s]
  /\ cls' = cls   \/ \E s : cls' = [cls EXCEPT ![e] = s]
  /\ tp' = tp     \/ \E s : tp' = [tp EXCEPT ![e] = s]
  /\ nic' = nic   \/ \E s : nic' = [nic EXCEPT ![e] = s]
  /\ hist' = hist \/ \E s : hist' = [hist EXCEPT ![e] = s]

-----------------------------------------------------------------------------
(* A step of a goroutine of e changes the state of e only; the NIC alone   *)
(* reaches across.                                                         *)

(* Steps of the goroutines of e are such.                                  *)
LEMMA OnlyAtOne ==
  ASSUME NEW e, Moves(e)
  PROVE  OnlyAt(e)
<1> USE DEF OnlyAt
<1>1. CASE SendCall(e)  BY <1>1, Zenon DEF SendCall, BringUp, StartPoller
<1>2. CASE Sender(e)
  <2>1. CASE DrainSendDone(e)  BY <2>1, Zenon DEF DrainSendDone
  <2>2. CASE AcquireCredit(e)  BY <2>2, Zenon DEF AcquireCredit, SendFails
  <2>3. CASE PostFrame(e)      BY <2>3, Zenon DEF PostFrame, SendFails, Posted
  <2>4. CASE WaitToken(e)      BY <2>4, Zenon DEF WaitToken
  <2>5. CASE SendReturn(e)     BY <2>5, Zenon DEF SendReturn
  <2>6. QED  BY <1>2, <2>1, <2>2, <2>3, <2>4, <2>5, Zenon DEF Sender
<1>3. CASE RecvCall(e)  BY <1>3, Zenon DEF RecvCall, BringUp, StartPoller
<1>4. CASE Receiver(e)
  <2> USE DEF ConsumeFrame, Flush, Posted
  <2>1. CASE RecvDrain(e)     BY <2>1, Zenon DEF RecvDrain
  <2>2. CASE RecvBlock(e)     BY <2>2, Zenon DEF RecvBlock
  <2>3. CASE RecvTry(e)       BY <2>3, Zenon DEF RecvTry
  <2>4. CASE RecvEnd(e)       BY <2>4, Zenon DEF RecvEnd
  <2>5. CASE ReturnCredit(e)  BY <2>5, Zenon DEF ReturnCredit
  <2>6. CASE RecvReturn(e)    BY <2>6, Zenon DEF RecvReturn
  <2>7. QED  BY <1>4, <2>1, <2>2, <2>3, <2>4, <2>5, <2>6, Zenon DEF Receiver
<1>5. CASE Poller(e)
  <2>1. CASE DispatchSend(e)   BY <2>1, Zenon DEF DispatchSend, FreeSlot
  <2>2. CASE PushToken(e)      BY <2>2, Zenon DEF PushToken
  <2>3. CASE DispatchRecv(e)   BY <2>3, Zenon DEF DispatchRecv
  <2>4. CASE DispatchError(e)  BY <2>4, Zenon DEF DispatchError
  <2>5. CASE PollLast(e)       BY <2>5, Zenon DEF PollLast
  <2>6. CASE PollerExit(e)     BY <2>6, Zenon DEF PollerExit
  <2>7. QED  BY <1>5, <2>1, <2>2, <2>3, <2>4, <2>5, <2>6, Zenon DEF Poller
<1>6. CASE CloseCall(e)  BY <1>6, Zenon DEF CloseCall
<1>7. CASE Closer(e)     BY <1>7, Zenon DEF Closer, CloseFin, CloseDone, TearDown, Posted
<1>8. QED
  BY <1>1, <1>2, <1>3, <1>4, <1>5, <1>6, <1>7, Zenon DEF Moves

(* They leave the other end as it is.                                      *)
LEMMA OthersStill ==
  ASSUME Typing, NEW e \in Peers, Moves(e), NEW x \in Peers, x # e
  PROVE  Still(x)
<1>0. /\ snd \in [Peers -> Snd] /\ rcv \in [Peers -> Rcv(scene.calls)]
      /\ plr \in [Peers -> Plr]
      /\ cls \in [Peers -> {"open", "fin", "close", "teardown", "closed"}]
      /\ tp \in [Peers -> Tp] /\ nic \in [Peers -> Nic]
      /\ hist \in [Peers -> Hist]
  BY DEF Typing
<1>a. OnlyAt(e)
  BY OnlyAtOne
<1>1. snd'[x] = snd[x]    BY <1>0, <1>a DEF OnlyAt
<1>2. rcv'[x] = rcv[x]    BY <1>0, <1>a DEF OnlyAt
<1>3. plr'[x] = plr[x]    BY <1>0, <1>a DEF OnlyAt
<1>4. cls'[x] = cls[x]    BY <1>0, <1>a DEF OnlyAt
<1>5. tp'[x] = tp[x]      BY <1>0, <1>a DEF OnlyAt
<1>6. nic'[x] = nic[x]    BY <1>0, <1>a DEF OnlyAt
<1>7. hist'[x] = hist[x]  BY <1>0, <1>a DEF OnlyAt
<1>8. QED
  BY <1>1, <1>2, <1>3, <1>4, <1>5, <1>6, <1>7, Zenon DEF Still

(* Amounts on the queues are natural numbers after the step, too.          *)
LEMMA QueueAmountsNext ==
  ASSUME nic' \in [Peers -> Nic], NEW e \in Peers, NEW what \in What
  PROVE  /\ Queued(e, what)' \in Nat /\ InFlight(e, what)' \in Nat
         /\ Arrived(e, what)' \in Nat
<1>1. nic'[e].sq \in Seq(Frames) /\ nic'[e].inbox \in Seq(Frames) /\ nic'[e].landed \in Nat
  BY DEF FrameSeq, Nic
<1>2. 0 \in Nat
  OBVIOUS
<1>3. QED
  BY <1>1, <1>2, CellsFinite, Zenon DEF Queued, InFlight, Arrived

(* The state the sending half is about stays.                              *)
SendSame(e) ==
  /\ scene' = scene /\ snd'[e] = snd[e] /\ ((plr'[e].pc = "token") <=> (plr[e].pc = "token")) /\ cls'[e] = cls[e]
  /\ tp'[e].sendFree = tp[e].sendFree /\ tp'[e].sendDone = tp[e].sendDone
  /\ tp'[e].creditFree = tp[e].creditFree /\ tp'[e].closed = tp[e].closed
  /\ nic'[e].sq = nic[e].sq /\ nic'[e].landed = nic[e].landed
  /\ hist'[e].stream = hist[e].stream /\ hist'[e].promised = hist[e].promised

-----------------------------------------------------------------------------
(* The sending half of an end: slots, tokens, promises.                    *)

(* Then so does the sending half's invariant.                              *)
LEMMA SendSideStays ==
  ASSUME NEW e, SendSide(e), SendSame(e)
  PROVE  SendSide(e)'
<1>1. /\ Queued(e, "data")' = Queued(e, "data")
      /\ Queued(e, "ctl")' = Queued(e, "ctl")
      /\ InFlight(e, "last")' = InFlight(e, "last")
  BY QueuesStay, Zenon DEF SendSame
<1>2. SlotsOf(e)'
  BY <1>1 DEF SendSide, SlotsOf, SendSame
<1>3. TokensOf(e)'
  BY <1>1 DEF SendSide, TokensOf, Due, Token, SendSame
<1>4. PromiseOf(e)'
  BY <1>1 DEF SendSide, PromiseOf, SendSame
<1>5. CallOf(e)'
  BY DEF SendSide, CallOf, InCall, Script, SendSame
<1>6. LandedOfQueued(e)'
  BY DEF SendSide, LandedOfQueued, SendSame
<1>7. QED
  BY <1>2, <1>3, <1>4, <1>5, <1>6, Zenon DEF SendSide

(* The types of what the sending half is about.                            *)
LEMMA SendTypes ==
  ASSUME Types, NEW e \in Peers
  PROVE  /\ snd[e].owed \in Int /\ snd[e].call \in Nat /\ snd[e].k \in Nat
         /\ snd[e].pc \in SendPcs
         /\ plr[e].pc \in PollPcs
         /\ tp[e].sendFree \in Nat /\ tp[e].sendDone \in Nat
         /\ tp[e].creditFree \in Nat
         /\ hist[e].promised \in Nat /\ Len(hist[e].stream) \in Nat
         /\ nic[e].landed \in Nat /\ Len(nic[e].sq) \in Nat
         /\ Queued(e, "data") \in Nat /\ Queued(e, "ctl") \in Nat
         /\ InFlight(e, "last") \in Nat /\ Due(e) \in Nat /\ Token(e) \in Nat
         /\ Depth \in Nat /\ CreditSlots \in Nat
<1>1. /\ snd \in [Peers -> Snd] /\ plr \in [Peers -> Plr]
      /\ tp \in [Peers -> Tp]
      /\ nic \in [Peers -> Nic] /\ hist \in [Peers -> Hist]
  BY DEF Types, Typing
<1>2. /\ snd[e].owed \in Int /\ snd[e].call \in Nat /\ snd[e].k \in Nat
      /\ snd[e].pc \in SendPcs
      /\ plr[e].pc \in PollPcs
  BY <1>1, SndFields, PlrFields, Zenon
<1>3. tp[e].sendFree \in Nat /\ tp[e].sendDone \in Nat /\ tp[e].creditFree \in Nat
  BY <1>1, TpFields, DepthAssumption DEF Tokens
<1>4. hist[e].promised \in Nat /\ Len(hist[e].stream) \in Nat
  BY <1>1, HistFields DEF Texts
<1>5. nic[e].landed \in Nat /\ Len(nic[e].sq) \in Nat
  BY <1>1, NicFields DEF FrameSeq
<1>6. Queued(e, "data") \in Nat /\ Queued(e, "ctl") \in Nat /\ InFlight(e, "last") \in Nat
  BY <1>1, QueueAmounts, WhatKinds, Zenon
<1>7. Token(e) \in Nat
  BY DEF Token
<1>8. Depth \in Nat /\ CreditSlots \in Nat
  BY DepthAssumption, TransportAssumption
<1>9. Due(e) \in Nat
  <2>1. tp[e].sendDone \in Nat /\ Queued(e, "data") \in Nat /\ Token(e) \in Nat
    BY <1>3, <1>6, <1>7, Zenon
  <2>2. QED
    BY <2>1 DEF Due
<1>10. QED
  BY <1>2, <1>3, <1>4, <1>5, <1>6, <1>7, <1>8, <1>9, Zenon

(* What ConsumeFrame does, field by field.                                 *)
LEMMA ConsumeEffect ==
  ASSUME Typing, NEW e \in Peers, NEW more \in RecvPcs, ConsumeFrame(e, more)
  PROVE
  /\ snd' = snd /\ cls' = cls /\ hist' = hist /\ plr' = plr
  /\ tp[e].recvQ # <<>> /\ tp'[e].recvQ = Tail(tp[e].recvQ)
  /\ tp'[e].sendFree = tp[e].sendFree /\ tp'[e].sendDone = tp[e].sendDone
  /\ tp'[e].creditFree = tp[e].creditFree /\ tp'[e].closed = tp[e].closed
  /\ tp'[e].up = tp[e].up /\ tp'[e].credits = tp[e].credits
  /\ nic'[e].sq = nic[e].sq /\ nic'[e].landed = nic[e].landed
  /\ nic'[e].inbox = nic[e].inbox /\ nic'[e].down = nic[e].down
  /\ nic[e].down =>
       /\ nic'[e].ring = nic[e].ring /\ tp'[e].pending = tp[e].pending
       /\ rcv'[e].pc = "return" /\ rcv'[e].n = rcv[e].n
       /\ rcv'[e].then = rcv[e].then
  /\ ~nic[e].down =>
       /\ nic'[e].ring = nic[e].ring + 1
       /\ \/ /\ tp[e].pending + 1 >= CreditFlushThreshold
             /\ tp'[e].pending = 0 /\ rcv'[e].pc = "credit"
             /\ rcv'[e].n = tp[e].pending + 1
             /\ rcv'[e].then \in {more, "return", "try", "end"}
          \/ /\ tp[e].pending + 1 < CreditFlushThreshold
             /\ tp'[e].pending = tp[e].pending + 1
             /\ rcv'[e].pc \in {more, "return", "try", "end"}
             /\ rcv'[e].n = rcv[e].n
<1>0. /\ rcv \in [Peers -> Rcv(scene.calls)] /\ tp \in [Peers -> Tp]
      /\ nic \in [Peers -> Nic]
  BY DEF Typing
<1>1. snd' = snd /\ cls' = cls /\ hist' = hist /\ plr' = plr
  BY Zenon DEF ConsumeFrame
<1>2. PICK reasm \in Text, out \in Texts, next \in {more, "return", "try", "end"} :
             Consumed(e, reasm, out, next)
  BY ConsumeShape, Zenon
<1>3. next \in RecvPcs
  BY DEF RecvPcs
<1>4. tp[e].recvQ # <<>> /\ tp[e].pending \in Nat
  BY <1>0, <1>2, TpFields, Zenon DEF Consumed
<1>t. tp[e] \in Tp
  BY <1>0
<1>5. CASE nic[e].down
  <2>1. /\ tp' = [tp EXCEPT ![e] = [tp[e] EXCEPT !.recvQ = Tail(tp[e].recvQ), !.reasm = reasm]]
        /\ rcv' = [rcv EXCEPT ![e].pc = "return"]
        /\ nic' = nic
    BY <1>2, <1>5, Zenon DEF Consumed
  <2>2. /\ tp'[e].recvQ = Tail(tp[e].recvQ)
        /\ tp'[e].sendFree = tp[e].sendFree /\ tp'[e].sendDone = tp[e].sendDone
        /\ tp'[e].creditFree = tp[e].creditFree /\ tp'[e].closed = tp[e].closed
        /\ tp'[e].up = tp[e].up /\ tp'[e].credits = tp[e].credits
        /\ tp'[e].pending = tp[e].pending
    BY <1>0, <1>t, <2>1 DEF Tp
  <2>3. rcv'[e].pc = "return" /\ rcv'[e].n = rcv[e].n /\ rcv'[e].then = rcv[e].then
    BY <1>0, <2>1 DEF Rcv
  <2>4. QED
    BY <1>1, <1>4, <1>5, <2>1, <2>2, <2>3
<1>6. CASE ~nic[e].down
  <2>1. nic' = [nic EXCEPT ![e].ring = @ + 1]
    BY <1>2, <1>6, Zenon DEF Consumed
  <2>2. /\ nic'[e].sq = nic[e].sq /\ nic'[e].landed = nic[e].landed
        /\ nic'[e].inbox = nic[e].inbox /\ nic'[e].down = nic[e].down
        /\ nic'[e].ring = nic[e].ring + 1
    BY <1>0, <2>1 DEF Nic
  <2>3. ASSUME NEW n \in Nat,
               tp' = [tp EXCEPT ![e] = [tp[e] EXCEPT !.recvQ = Tail(tp[e].recvQ),
                                           !.reasm = reasm, !.pending = n]]
        PROVE  /\ tp'[e].recvQ = Tail(tp[e].recvQ)
               /\ tp'[e].sendFree = tp[e].sendFree
               /\ tp'[e].sendDone = tp[e].sendDone
               /\ tp'[e].creditFree = tp[e].creditFree
               /\ tp'[e].closed = tp[e].closed
               /\ tp'[e].up = tp[e].up /\ tp'[e].credits = tp[e].credits
               /\ tp'[e].pending = n
    BY <1>0, <1>t, <2>3 DEF Tp
  <2>4. CASE /\ tp[e].pending + 1 >= CreditFlushThreshold
             /\ tp' = [tp EXCEPT ![e] = [tp[e] EXCEPT !.recvQ = Tail(tp[e].recvQ),
                                           !.reasm = reasm, !.pending = 0]]
             /\ Flush(e, tp[e].pending + 1, next, out)
    <3>1. tp[e].pending + 1 \in Nat /\ tp[e].pending + 1 > 0 /\ 0 \in Nat
      BY <1>4
    <3>2. rcv'[e].pc = "credit" /\ rcv'[e].n = tp[e].pending + 1 /\ rcv'[e].then = next
      BY <1>0, <1>3, <2>4, <3>1, FlushShape
    <3>3. QED
      BY <1>1, <1>2, <1>4, <1>6, <2>2, <2>3, <2>4, <3>1, <3>2
  <2>5. CASE /\ tp[e].pending + 1 < CreditFlushThreshold
             /\ tp' = [tp EXCEPT ![e] = [tp[e] EXCEPT !.recvQ = Tail(tp[e].recvQ),
                                           !.reasm = reasm, !.pending = tp[e].pending + 1]]
             /\ Flush(e, 0, next, out)
    <3>1. tp[e].pending + 1 \in Nat /\ 0 \in Nat
      BY <1>4
    <3>2. rcv'[e].pc = next /\ rcv'[e].n = rcv[e].n
      BY <1>0, <1>3, <2>5, <3>1, FlushShape
    <3>3. QED
      BY <1>1, <1>2, <1>4, <1>6, <2>2, <2>3, <2>5, <3>1, <3>2
  <2>6. QED
    BY <1>2, <1>6, <2>4, <2>5, Zenon DEF Consumed
<1>7. QED
  BY <1>5, <1>6, Zenon

(* What the poller does with the completion of a SEND: a data slot is      *)
(* freed and a token is to be pushed, a control slot is freed; on a closed *)
(* transport the slot may be dropped.                                      *)
LEMMA DispatchSendEffect ==
  ASSUME Typing, NEW e \in Peers, DispatchSend(e)
  PROVE  LET fr == Head(nic[e].sq) IN
  /\ snd' = snd /\ rcv' = rcv /\ cls' = cls /\ hist' = hist
  /\ plr[e].pc = "poll" /\ nic[e].landed > 0
  /\ nic'[e].sq = Tail(nic[e].sq) /\ nic'[e].landed = nic[e].landed - 1
  /\ nic'[e].inbox = nic[e].inbox /\ nic'[e].down = nic[e].down
  /\ nic'[e].ring = nic[e].ring
  /\ fr.kind = "data" => /\ \/ tp' = [tp EXCEPT ![e].sendFree = @ + 1]
                            \/ tp[e].closed /\ tp' = tp
                         /\ plr'[e].pc = "token"
  /\ fr.kind # "data" => /\ \/ tp' = [tp EXCEPT ![e].creditFree = @ + 1]
                            \/ tp[e].closed /\ tp' = tp
                         /\ plr'[e].pc = "poll"
<1>0. plr \in [Peers -> Plr] /\ nic \in [Peers -> Nic] /\ nic[e] \in Nic /\ plr[e] \in Plr
  BY DEF Typing
<1>1. /\ snd' = snd /\ rcv' = rcv /\ cls' = cls /\ hist' = hist
      /\ plr[e].pc = "poll" /\ nic[e].landed > 0
      /\ nic' = [nic EXCEPT ![e] = [nic[e] EXCEPT !.sq = Tail(nic[e].sq),
                                                  !.landed = nic[e].landed - 1]]
  BY Zenon DEF DispatchSend
<1>2. /\ nic'[e].sq = Tail(nic[e].sq) /\ nic'[e].landed = nic[e].landed - 1
      /\ nic'[e].inbox = nic[e].inbox /\ nic'[e].down = nic[e].down
      /\ nic'[e].ring = nic[e].ring
  BY <1>0, <1>1 DEF Nic
<1>3. \E n : plr' = [plr EXCEPT ![e] = [[plr[e] EXCEPT !.sends = n]
                       EXCEPT !.pc = IF Head(nic[e].sq).kind = "data" THEN "token"
                                     ELSE plr[e].pc]]
  BY Zenon DEF DispatchSend
<1>4. plr'[e].pc = IF Head(nic[e].sq).kind = "data" THEN "token" ELSE plr[e].pc
  BY <1>0, <1>3 DEF Plr
<1>5. \/ tp' = IF Head(nic[e].sq).kind = "data" THEN [tp EXCEPT ![e].sendFree = @ + 1]
               ELSE [tp EXCEPT ![e].creditFree = @ + 1]
      \/ tp[e].closed /\ tp' = tp
  BY Zenon DEF DispatchSend, FreeSlot
<1>6. QED
  BY <1>1, <1>2, <1>4, <1>5, Zenon

(* What the poller does with a frame that has landed: credits and fin are  *)
(* acted upon and their RECV re-posted, data is queued for the receiver,   *)
(* or dropped when the transport is closed.                                *)
LEMMA DispatchRecvEffect ==
  ASSUME Typing, NEW e \in Peers, DispatchRecv(e)
  PROVE  LET fr == Head(nic[e].inbox) IN
  /\ snd' = snd /\ rcv' = rcv /\ cls' = cls /\ hist' = hist
  /\ nic[e].inbox # <<>> /\ nic'[e].inbox = Tail(nic[e].inbox)
  /\ nic'[e].sq = nic[e].sq /\ nic'[e].landed = nic[e].landed
  /\ nic'[e].down = nic[e].down
  /\ plr[e].pc # "token" /\ plr'[e].pc # "token"
  /\ \/ /\ fr.kind = "credit" /\ tp' = [tp EXCEPT ![e].credits = @ + fr.n]
     \/ /\ fr.kind # "data" /\ fr.kind # "credit" /\ tp' = [tp EXCEPT ![e].peerFin = TRUE]
     \/ /\ fr.kind = "data" /\ tp' = [tp EXCEPT ![e].recvQ = Append(@, fr)]
     \/ /\ fr.kind = "data" /\ tp[e].closed /\ tp' = tp
  /\ nic'[e].ring = IF fr.kind = "data" \/ nic[e].down THEN nic[e].ring
                    ELSE nic[e].ring + 1
<1> DEFINE fr == Head(nic[e].inbox)
           taken == [nic[e] EXCEPT !.inbox = Tail(nic[e].inbox)]
<1>0. plr \in [Peers -> Plr] /\ nic \in [Peers -> Nic] /\ nic[e] \in Nic /\ plr[e] \in Plr
  BY DEF Typing
<1>1. /\ snd' = snd /\ rcv' = rcv /\ cls' = cls /\ hist' = hist
      /\ plr[e].pc = "poll" /\ nic[e].inbox # <<>>
  BY Zenon DEF DispatchRecv
<1>2. \/ /\ fr.kind = "credit" /\ tp' = [tp EXCEPT ![e].credits = @ + fr.n]
      \/ /\ fr.kind # "data" /\ fr.kind # "credit" /\ tp' = [tp EXCEPT ![e].peerFin = TRUE]
      \/ /\ fr.kind = "data" /\ tp' = [tp EXCEPT ![e].recvQ = Append(@, fr)]
      \/ /\ fr.kind = "data" /\ tp[e].closed /\ tp' = tp
  <2>1. CASE fr.kind = "data"
    BY <2>1, Zenon DEF DispatchRecv
  <2>2. CASE fr.kind # "data"
    <3>1. tp' = IF fr.kind = "credit" THEN [tp EXCEPT ![e].credits = @ + fr.n]
                ELSE [tp EXCEPT ![e].peerFin = TRUE]
      BY <2>2, Zenon DEF DispatchRecv
    <3>2. QED
      BY <2>2, <3>1, Zenon
  <2>3. QED
    BY <2>1, <2>2
<1>3. /\ taken.inbox = Tail(nic[e].inbox) /\ taken.sq = nic[e].sq
      /\ taken.landed = nic[e].landed /\ taken.down = nic[e].down
      /\ taken.ring = nic[e].ring
  BY <1>0 DEF Nic
<1>4. taken \in [{"sq", "landed", "ring", "inbox", "down"} ->
                   {taken.inbox, taken.sq, taken.landed, taken.down, taken.ring}]
  BY <1>0 DEF Nic
<1>5. nic' = [nic EXCEPT ![e] = IF fr.kind = "data" \/ nic[e].down THEN taken
                                ELSE [taken EXCEPT !.ring = taken.ring + 1]]
  <2>1. CASE fr.kind = "data"
    <3>1. nic' = [nic EXCEPT ![e] = taken]
      BY <2>1, Zenon DEF DispatchRecv
    <3>2. QED
      BY <2>1, <3>1, Zenon
  <2>2. CASE fr.kind # "data"
    <3>1. nic' = [nic EXCEPT ![e] = IF nic[e].down THEN taken
                                    ELSE [taken EXCEPT !.ring = taken.ring + 1]]
      BY <2>2, Zenon DEF DispatchRecv
    <3>2. QED
      BY <2>2, <3>1, Zenon
  <2>3. QED
    BY <2>1, <2>2
<1>6. plr'[e].pc # "token"
  <2>1. \/ \E n : plr' = [plr EXCEPT ![e].recvs = n]
        \/ \E n : plr' = [plr EXCEPT ![e] = [[plr[e] EXCEPT !.recvs = n] EXCEPT !.pc =
                             IF nic[e].down THEN "exit" ELSE plr[e].pc]]
    BY Zenon DEF DispatchRecv
  <2>2. QED
    BY <1>0, <1>1, <2>1 DEF Plr
<1>7. /\ nic'[e].inbox = Tail(nic[e].inbox) /\ nic'[e].sq = nic[e].sq
      /\ nic'[e].landed = nic[e].landed /\ nic'[e].down = nic[e].down
      /\ nic'[e].ring = IF fr.kind = "data" \/ nic[e].down THEN nic[e].ring
                        ELSE nic[e].ring + 1
  <2> HIDE DEF taken, fr
  <2>1. CASE fr.kind = "data" \/ nic[e].down
    BY <1>0, <1>3, <1>5, <2>1
  <2>2. CASE ~(fr.kind = "data" \/ nic[e].down)
    BY <1>0, <1>3, <1>4, <1>5, <2>2
  <2>3. QED
    BY <2>1, <2>2
<1>8. QED
  BY <1>1, <1>2, <1>6, <1>7

(* Steps of the receiver and of the poller that have nothing to do with    *)
(* sending keep the sending half.                                          *)
LEMMA SendSideQuiet ==
  ASSUME Types, NEW e \in Peers, SendSide(e), scene' = scene,
         \/ RecvCall(e) \/ RecvDrain(e) \/ RecvBlock(e) \/ RecvTry(e)
         \/ RecvEnd(e)
         \/ RecvReturn(e) \/ DispatchRecv(e) \/ PollLast(e) \/ PollerExit(e)
  PROVE  SendSide(e)'
<1>0. /\ snd \in [Peers -> Snd] /\ plr \in [Peers -> Plr]
      /\ tp \in [Peers -> Tp]
      /\ nic \in [Peers -> Nic] /\ hist \in [Peers -> Hist]
      /\ Typing
  BY DEF Types, Typing
<1> USE DEF SendSame
<1>1. CASE RecvCall(e)
  <2>1. /\ snd' = snd /\ cls' = cls /\ hist' = hist
        /\ tp' = [tp EXCEPT ![e].up = TRUE]
        /\ nic' = nic \/ nic' = [nic EXCEPT ![e].ring = Depth]
        /\ plr' = plr \/ StartPoller(e)
    BY <1>1, Zenon DEF RecvCall, BringUp
  <2>2. (plr'[e].pc = "token") <=> (plr[e].pc = "token")
    BY <1>0, <2>1 DEF StartPoller, Plr
  <2>3. SendSame(e)
    BY <1>0, <2>1, <2>2 DEF Tp, Nic
  <2>4. QED
    BY <2>3, SendSideStays
<1>2. ASSUME NEW more \in RecvPcs, ConsumeFrame(e, more)
      PROVE  SendSide(e)'
  <2>1. SendSame(e)
    BY <1>0, <1>2, ConsumeEffect, Zenon
  <2>2. QED
    BY <2>1, SendSideStays
<1>3. CASE RecvDrain(e) \/ RecvBlock(e) \/ RecvTry(e) \/ RecvEnd(e)
  <2>0. "drain" \in RecvPcs /\ "try" \in RecvPcs
    BY DEF RecvPcs
  <2>1. \/ ConsumeFrame(e, "drain") \/ ConsumeFrame(e, "try")
        \/ /\ snd' = snd /\ cls' = cls /\ plr' = plr /\ nic' = nic
           /\ tp' = tp \/ tp' = [tp EXCEPT ![e].pending = 0]
           /\ hist' = hist \/ hist' = [hist EXCEPT ![e].eof = TRUE]
    BY <1>3, Zenon DEF RecvDrain, RecvBlock, RecvTry, RecvEnd
  <2>2. CASE /\ snd' = snd /\ cls' = cls /\ plr' = plr /\ nic' = nic
             /\ tp' = tp \/ tp' = [tp EXCEPT ![e].pending = 0]
             /\ hist' = hist \/ hist' = [hist EXCEPT ![e].eof = TRUE]
    <3>1. SendSame(e)
      BY <1>0, <2>2 DEF Tp, Hist
    <3>2. QED
      BY <3>1, SendSideStays
  <2>3. QED
    BY <1>2, <2>0, <2>1, <2>2, Zenon
<1>4. CASE RecvReturn(e)
  <2>1. /\ snd' = snd /\ cls' = cls /\ plr' = plr /\ nic' = nic /\ tp' = tp
        /\ \/ \E g : hist' = [hist EXCEPT ![e].got = g]
           \/ \E g, r : hist' = [hist EXCEPT ![e] = [[hist[e] EXCEPT !.got = g] EXCEPT !.read = r]]
    BY <1>4, ZenonT(30) DEF RecvReturn
  <2>2. hist'[e].stream = hist[e].stream /\ hist'[e].promised = hist[e].promised
    BY <1>0, <2>1 DEF Hist
  <2>3. SendSame(e)
    BY <2>1, <2>2
  <2>4. QED
    BY <2>3, SendSideStays
<1>5. CASE DispatchRecv(e)
  <2>1. \/ tp' = tp \/ \E n : tp' = [tp EXCEPT ![e].credits = n]
        \/ tp' = [tp EXCEPT ![e].peerFin = TRUE] \/ \E s : tp' = [tp EXCEPT ![e].recvQ = s]
    BY <1>0, <1>5, DispatchRecvEffect, ZenonT(30)
  <2>2. /\ tp'[e].sendFree = tp[e].sendFree /\ tp'[e].sendDone = tp[e].sendDone
        /\ tp'[e].creditFree = tp[e].creditFree /\ tp'[e].closed = tp[e].closed
    BY <1>0, <2>1 DEF Tp
  <2>3. SendSame(e)
    BY <1>0, <1>5, <2>2, DispatchRecvEffect, Zenon
  <2>4. QED
    BY <2>3, SendSideStays
<1>6. CASE PollLast(e) \/ PollerExit(e)
  <2>1. snd' = snd /\ cls' = cls /\ hist' = hist /\ tp' = tp /\ nic' = nic
    BY <1>6, Zenon DEF PollLast, PollerExit
  <2>2. plr'[e].pc # "token" /\ plr[e].pc # "token"
    BY <1>0, <1>6 DEF PollLast, PollerExit, Plr
  <2>3. SendSame(e)
    BY <2>1, <2>2
  <2>4. QED
    BY <2>3, SendSideStays
<1>7. QED
  BY <1>1, <1>3, <1>4, <1>5, <1>6

(* The send queue has not changed.                                         *)
LEMMA QueueSame ==
  ASSUME NEW e, nic'[e].sq = nic[e].sq, nic'[e].landed = nic[e].landed
  PROVE  /\ Queued(e, "data")' = Queued(e, "data")
         /\ Queued(e, "ctl")' = Queued(e, "ctl")
         /\ InFlight(e, "last")' = InFlight(e, "last")
BY QueuesStay, Zenon

(* The slots have not changed.                                             *)
LEMMA SlotsStay ==
  ASSUME NEW e, SlotsOf(e), scene' = scene, nic'[e].sq = nic[e].sq,
         nic'[e].landed = nic[e].landed,
         tp'[e].sendFree = tp[e].sendFree, tp'[e].creditFree = tp[e].creditFree,
         tp[e].closed => tp'[e].closed,
         cls'[e] = "open" => cls[e] = "open"
  PROVE  SlotsOf(e)'
BY QueueSame DEF SlotsOf

(* The slots have moved between the free ones and the queue; on a closed   *)
(* transport some may have been dropped.                                   *)
LEMMA SlotsMove ==
  ASSUME NEW e, SlotsOf(e), scene' = scene, Len(nic'[e].sq) <= scene.sqCap,
         NEW data \in Nat, NEW ctl \in Nat, NEW newData \in Nat, NEW newCtl \in Nat,
         data = tp[e].sendFree + Queued(e, "data"),
         ctl = tp[e].creditFree + Queued(e, "ctl"),
         newData = tp'[e].sendFree + Queued(e, "data")',
         newCtl = tp'[e].creditFree + Queued(e, "ctl")',
         newData = data \/ (tp[e].closed /\ newData < data),
         newCtl = ctl \/ (tp[e].closed /\ newCtl < ctl),
         tp[e].closed => tp'[e].closed, cls'[e] = "open" => cls[e] = "open"
  PROVE  SlotsOf(e)'
<1>1. Depth \in Nat /\ CreditSlots \in Nat
  BY DepthAssumption, TransportAssumption
<1>2. newData <= Depth /\ newCtl <= CreditSlots
  BY <1>1 DEF SlotsOf
<1> QED
  BY <1>2 DEF SlotsOf

(* The promises have not changed.                                          *)
LEMMA PromiseStays ==
  ASSUME NEW e, PromiseOf(e), nic'[e].sq = nic[e].sq,
         nic'[e].landed = nic[e].landed,
         hist'[e].stream = hist[e].stream, hist'[e].promised = hist[e].promised
  PROVE  PromiseOf(e)'
BY QueueSame DEF PromiseOf

(* The sender has not moved on in its script.                              *)
LEMMA CallStays ==
  ASSUME NEW e, CallOf(e), scene' = scene, snd'[e].call = snd[e].call,
         snd'[e].k = snd[e].k,
         snd'[e].pc \in {"drain", "acquire", "post"} => snd[e].pc \in {"drain", "acquire", "post"}
  PROVE  CallOf(e)'
BY DEF CallOf, InCall, Script

(* The NIC has not moved on.                                               *)
LEMMA LandedStays ==
  ASSUME NEW e, LandedOfQueued(e), nic'[e].sq = nic[e].sq,
         nic'[e].landed = nic[e].landed
  PROVE  LandedOfQueued(e)'
BY DEF LandedOfQueued

(* Entering a send call keeps the sending half.                            *)
LEMMA SendCallSide ==
  ASSUME Types, NEW e \in Peers, SendSide(e), scene' = scene, SendCall(e)
  PROVE  SendSide(e)'
<1> DEFINE c == snd[e].call + 1
           sizes == Script[e][c]
<1>0. /\ snd \in [Peers -> Snd] /\ plr \in [Peers -> Plr]
      /\ tp \in [Peers -> Tp]
      /\ nic \in [Peers -> Nic]
  BY DEF Types, Typing
<1>1. /\ snd[e].pc = "idle" /\ c <= Len(Script[e]) /\ cls' = cls /\ hist' = hist
      /\ tp' = [tp EXCEPT ![e].up = TRUE]
      /\ nic' = nic \/ nic' = [nic EXCEPT ![e].ring = Depth]
      /\ plr' = plr \/ StartPoller(e)
      /\ \/ snd' = [snd EXCEPT ![e].call = c]
         \/ /\ sizes # <<>>
            /\ snd' = [snd EXCEPT ![e] = [pc |-> "drain", call |-> c, k |-> 1,
                                          f |-> 1, owed |-> 0, err |-> FALSE]]
  BY Zenon DEF SendCall, BringUp
<1>2. (plr'[e].pc = "token") <=> (plr[e].pc = "token")
  BY <1>0, <1>1 DEF StartPoller, Plr
<1>3. /\ nic'[e].sq = nic[e].sq /\ nic'[e].landed = nic[e].landed
      /\ tp'[e].sendFree = tp[e].sendFree /\ tp'[e].sendDone = tp[e].sendDone
      /\ tp'[e].creditFree = tp[e].creditFree /\ tp'[e].closed = tp[e].closed
  BY <1>0, <1>1 DEF Tp, Nic
<1>4. SlotsOf(e)' /\ PromiseOf(e)' /\ LandedOfQueued(e)'
  BY <1>1, <1>3, SlotsStay, PromiseStays, LandedStays, Zenon DEF SendSide
<1>5. Due(e)' = Due(e)
  BY <1>2, <1>3, QueueSame DEF Due, Token
<1>6. \/ snd'[e].pc = "idle" /\ snd'[e].owed = snd[e].owed /\ snd'[e].call = c
      \/ /\ snd'[e].pc = "drain" /\ snd'[e].owed = 0 /\ snd'[e].call = c /\ snd'[e].k = 1
         /\ sizes # <<>>
  <2> HIDE DEF c, sizes
  <2>1. QED  BY <1>0, <1>1 DEF Snd
<1>7. TokensOf(e)'
  BY <1>1, <1>3, <1>5, <1>6, SendTypes DEF SendSide, TokensOf
<1>8. CallOf(e)'
  <2>1. c \in 1 .. Len(Script[e])
    BY <1>1, SendTypes, SMTT(20)
  <2>2. Script[e] \in Seq(Seq(Nat)) /\ Script' = Script
    BY ScriptType DEF Types, Typing, Script
  <2>3. sizes # <<>> => 1 \in 1 .. Len(sizes)
    BY <2>1, <2>2
  <2>4. /\ snd'[e].call = c
        /\ snd'[e].pc = "idle" \/ (snd'[e].pc = "drain" /\ snd'[e].k \in 1 .. Len(sizes))
    BY <1>6, <2>3, Zenon
  <2> HIDE DEF c
  <2>5. QED
    BY <2>1, <2>2, <2>4 DEF CallOf, InCall
<1>9. QED
  BY <1>4, <1>7, <1>8, Zenon DEF SendSide

(* So does each step of sendMsg: draining the tokens of a call that        *)
(* failed, acquiring a credit, posting a frame or failing to, waiting for  *)
(* the tokens.                                                             *)
LEMMA SenderSide ==
  ASSUME Types, NEW e \in Peers, SendSide(e), scene' = scene, Sender(e), Typing'
  PROVE  SendSide(e)'
<1>0. /\ snd \in [Peers -> Snd] /\ plr \in [Peers -> Plr]
      /\ tp \in [Peers -> Tp]
      /\ nic \in [Peers -> Nic] /\ hist \in [Peers -> Hist] /\ Typing
  BY DEF Types, Typing
<1>f. ASSUME SendFails(e)
      PROVE  /\ snd'[e].pc = "wait" /\ snd'[e].err /\ snd'[e].owed = snd[e].owed
             /\ snd'[e].call = snd[e].call /\ snd'[e].k = snd[e].k
  BY <1>0, <1>f DEF SendFails, Snd
<1>1. CASE DrainSendDone(e)
  <2>1. /\ plr' = plr /\ cls' = cls /\ nic' = nic /\ hist' = hist
        /\ snd[e].pc = "drain" /\ tp' = [tp EXCEPT ![e].sendDone = 0]
    BY <1>1, Zenon DEF DrainSendDone
  <2>2. /\ snd'[e].pc = "acquire" /\ snd'[e].owed = snd[e].owed - tp[e].sendDone
        /\ snd'[e].call = snd[e].call /\ snd'[e].k = snd[e].k
    BY <1>0, <1>1 DEF DrainSendDone, Collected, Snd
  <2>3. /\ tp'[e].sendFree = tp[e].sendFree /\ tp'[e].sendDone = 0
        /\ tp'[e].creditFree = tp[e].creditFree /\ tp'[e].closed = tp[e].closed
    BY <1>0, <2>1 DEF Tp
  <2>4. SlotsOf(e)' /\ PromiseOf(e)' /\ LandedOfQueued(e)'
    BY <2>1, <2>3, SlotsStay, PromiseStays, LandedStays, Zenon DEF SendSide
  <2>5. Due(e)' = Due(e) - tp[e].sendDone
    BY <2>1, <2>3, QueueSame, SendTypes DEF Due, Token
  <2>6. TokensOf(e)'
    BY <2>1, <2>2, <2>3, <2>5, SendTypes DEF SendSide, TokensOf
  <2>7. CallOf(e)'
    BY <2>1, <2>2, CallStays DEF SendSide
  <2>8. QED
    BY <2>4, <2>6, <2>7, Zenon DEF SendSide
<1>2. CASE AcquireCredit(e)
  <2>1. /\ plr' = plr /\ cls' = cls /\ nic' = nic /\ hist' = hist
        /\ snd[e].pc = "acquire"
        /\ \/ tp[e].closed /\ SendFails(e) /\ tp' = tp
           \/ /\ ~tp[e].closed /\ tp' = [tp EXCEPT ![e].credits = @ - 1]
              /\ snd' = [snd EXCEPT ![e].pc = "post"]
    BY <1>2, Zenon DEF AcquireCredit
  <2>2. \/ /\ snd'[e].pc = "wait" /\ snd'[e].err /\ snd'[e].owed = snd[e].owed
           /\ tp[e].closed
        \/ /\ snd'[e].pc = "post" /\ snd'[e].owed = snd[e].owed /\ ~tp[e].closed
           /\ snd'[e].err = snd[e].err
    BY <1>0, <1>f, <2>1 DEF Snd
  <2>3. /\ tp'[e].sendFree = tp[e].sendFree /\ tp'[e].sendDone = tp[e].sendDone
        /\ tp'[e].creditFree = tp[e].creditFree /\ tp'[e].closed = tp[e].closed
    BY <1>0, <2>1 DEF Tp
  <2>4. SlotsOf(e)' /\ PromiseOf(e)' /\ LandedOfQueued(e)'
    BY <2>1, <2>3, SlotsStay, PromiseStays, LandedStays, Zenon DEF SendSide
  <2>5. Due(e)' = Due(e)
    BY <2>1, <2>3, QueueSame DEF Due, Token
  <2>6. TokensOf(e)'
    BY <2>1, <2>2, <2>3, <2>5, SendTypes DEF SendSide, TokensOf
  <2>7. CallOf(e)'
    <3>1. snd'[e].call = snd[e].call /\ snd'[e].k = snd[e].k
      BY <1>0, <1>f, <2>1 DEF Snd
    <3>2. QED
      BY <2>1, <3>1, CallStays DEF SendSide
  <2>8. QED
    BY <2>4, <2>6, <2>7, Zenon DEF SendSide
<1>3. CASE PostFrame(e)
  <2> DEFINE fr == DataFrame(e, snd[e].call, snd[e].k, snd[e].f)
  <2>1. /\ plr' = plr /\ cls' = cls /\ snd[e].pc = "post"
        /\ \/ /\ tp[e].sendFree > 0 /\ CanPost(e)
              /\ tp' = [tp EXCEPT ![e].sendFree = @ - 1]
              /\ nic' = Posted(e, fr) /\ snd' = [snd EXCEPT ![e] = NextFrame(e)]
              /\ hist' = IF fr.more THEN hist
                         ELSE [hist EXCEPT ![e].stream =
                                 Append(@, Message(e, snd[e].call, snd[e].k))]
           \/ /\ SendFails(e) /\ nic' = nic
              /\ \/ tp' = tp
                 \/ /\ tp[e].closed /\ tp[e].sendFree > 0
                    /\ tp' = [tp EXCEPT ![e].sendFree = @ - 1]
              /\ hist' = [hist EXCEPT ![e].lost = @ + 1] \/ hist' = hist
    BY <1>3, Zenon DEF PostFrame
  <2>2. CASE /\ tp[e].sendFree > 0 /\ CanPost(e)
             /\ tp' = [tp EXCEPT ![e].sendFree = @ - 1]
             /\ nic' = Posted(e, fr) /\ snd' = [snd EXCEPT ![e] = NextFrame(e)]
             /\ hist' = IF fr.more THEN hist
                         ELSE [hist EXCEPT ![e].stream =
                                 Append(@, Message(e, snd[e].call, snd[e].k))]
    <3>0. plr' = plr /\ cls' = cls /\ snd[e].pc = "post"
      BY <2>1
    <3>1. fr \in DataFrames /\ fr \in Frames
      BY <2>1, DataPosted, Zenon
    <3> HIDE DEF fr
    <3>2. /\ Carries(fr, "data") = 1 /\ Carries(fr, "ctl") = 0
          /\ Carries(fr, "last") = IF fr.more THEN 0 ELSE 1
      BY <3>1, Carried, Zenon
    <3>3. /\ Queued(e, "data")' = Queued(e, "data") + 1
          /\ Queued(e, "ctl")' = Queued(e, "ctl")
          /\ InFlight(e, "last")' = InFlight(e, "last") + Carries(fr, "last")
      <4>1. /\ Queued(e, "data")' = Queued(e, "data") + Carries(fr, "data")
            /\ Queued(e, "ctl")' = Queued(e, "ctl") + Carries(fr, "ctl")
            /\ InFlight(e, "last")' = InFlight(e, "last") + Carries(fr, "last")
        BY <1>0, <2>2, <3>1, PostAmounts, WhatKinds, Zenon DEF SendSide
      <4>2. QED
        BY <3>2, <4>1, SendTypes
    <3>4. /\ tp'[e].sendFree = tp[e].sendFree - 1
          /\ tp'[e].sendDone = tp[e].sendDone
          /\ tp'[e].creditFree = tp[e].creditFree
          /\ tp'[e].closed = tp[e].closed
      BY <1>0, <2>2 DEF Tp
    <3>5. /\ nic'[e].sq = Append(nic[e].sq, fr)
          /\ nic'[e].landed = nic[e].landed
          /\ Len(nic[e].sq) < scene.sqCap
      BY <1>0, <2>2 DEF Posted, Nic, CanPost
    <3>6. Len(nic'[e].sq) = Len(nic[e].sq) + 1
      BY <1>0, <3>1, <3>5, NicFields DEF FrameSeq
    <3>7. SlotsOf(e)'
      <4>1. scene.sqCap \in Nat
        BY <1>0, ScriptType, Zenon DEF Typing
      <4>2. QED
        <5>1. /\ tp[e].sendFree \in Nat /\ Queued(e, "data") \in Nat
              /\ Len(nic[e].sq) \in Nat
          BY SendTypes, Zenon
        <5>2. SlotsOf(e)
          BY DEF SendSide
        <5>3. /\ Queued(e, "data")' = Queued(e, "data") + 1
              /\ Queued(e, "ctl")' = Queued(e, "ctl")
          BY <3>3
        <5>4. Len(nic'[e].sq) <= scene.sqCap
          BY <3>5, <3>6, <4>1, <5>1
        <5>5. /\ tp'[e].sendFree + Queued(e, "data")' = tp[e].sendFree + Queued(e, "data")
              /\ tp[e].sendFree + Queued(e, "data") \in Nat
          BY <3>4, <5>1, <5>3
        <5>6. /\ tp'[e].creditFree + Queued(e, "ctl")' = tp[e].creditFree + Queued(e, "ctl")
              /\ tp[e].creditFree + Queued(e, "ctl") \in Nat
          BY <3>4, <5>3, SendTypes
        <5>7. QED
          BY <3>0, <3>4, <5>2, <5>4, <5>5, <5>6, SlotsMove, Zenon
    <3>8. LandedOfQueued(e)'
      BY <3>5, <3>6, SendTypes DEF SendSide, LandedOfQueued
    <3>9. PromiseOf(e)'
      <4>1. CASE fr.more
        BY <2>2, <3>2, <3>3, <4>1, SendTypes DEF SendSide, PromiseOf
      <4>2. CASE ~fr.more
        <5>1. /\ hist'[e].stream = Append(hist[e].stream, Message(e, snd[e].call, snd[e].k))
              /\ hist'[e].promised = hist[e].promised
          BY <1>0, <2>2, <4>2 DEF Hist
        <5>2. Len(hist'[e].stream) = Len(hist[e].stream) + 1
          BY <1>0, <5>1, HistFields DEF Texts
        <5>3. /\ hist[e].promised + InFlight(e, "last") <= Len(hist[e].stream)
              /\ hist[e].promised \in Nat /\ InFlight(e, "last") \in Nat
              /\ Len(hist[e].stream) \in Nat
          BY SendTypes, Zenon DEF SendSide, PromiseOf
        <5>4. InFlight(e, "last")' = InFlight(e, "last") + 1
          BY <3>2, <3>3, <4>2
        <5> DEFINE n == Len(hist[e].stream)
                   m == Len(hist'[e].stream)
        <5>5. /\ hist[e].promised + InFlight(e, "last") <= n /\ n \in Nat
              /\ m = n + 1
              /\ hist[e].promised \in Nat /\ InFlight(e, "last") \in Nat
          BY <5>2, <5>3, Zenon
        <5> HIDE DEF n, m
        <5>6. hist[e].promised + (InFlight(e, "last") + 1) <= m
          BY <5>5
        <5>7. QED
          BY <5>1, <5>4, <5>6 DEF PromiseOf, m
      <4>3. QED
        BY <4>1, <4>2
    <3>10. /\ snd'[e].pc \in {"wait", "drain"} /\ snd'[e].owed = snd[e].owed + 1
           /\ snd'[e].err = snd[e].err /\ snd'[e].call = snd[e].call
           /\ snd'[e].pc = "drain" => snd'[e].k \in 1 .. Len(Script[e][snd[e].call])
      <4> DEFINE sizes == Script[e][snd[e].call]
                 last  == snd[e].f = FragmentCount(sizes[snd[e].k])
                 f     == IF last THEN 1 ELSE snd[e].f + 1
                 k     == IF last THEN snd[e].k + 1 ELSE snd[e].k
                 pc    == IF last /\ snd[e].k = Len(sizes) THEN "wait" ELSE "drain"
      <4>1. snd[e].k \in 1 .. Len(sizes) /\ Len(sizes) \in Nat
        <5>1. /\ snd[e].call \in 1 .. Len(Script[e])
              /\ snd[e].k \in 1 .. Len(Script[e][snd[e].call])
          BY <2>1 DEF Types, InCall
        <5>2. Script[e] \in Seq(Seq(Nat))
          BY ScriptType DEF Types, Typing
        <5>3. QED
          BY <5>1, <5>2
      <4>2. pc \in {"wait", "drain"} /\ (pc = "drain" => k \in 1 .. Len(sizes))
        <5> HIDE DEF sizes
        <5>1. QED  BY <4>1
      <4>3. NextFrame(e) = [[[[snd[e] EXCEPT !.owed = snd[e].owed + 1] EXCEPT !.f = f]
                               EXCEPT !.k = k] EXCEPT !.pc = pc]
        BY Zenon DEF NextFrame
      <4> HIDE DEF f, k, pc
      <4>4. /\ snd'[e].pc = pc /\ snd'[e].owed = snd[e].owed + 1
            /\ snd'[e].err = snd[e].err /\ snd'[e].call = snd[e].call
            /\ snd'[e].k = k
        BY <1>0, <2>2, <4>3 DEF Snd
      <4>5. QED
        BY <4>2, <4>4
    <3>11. Due(e)' = Due(e) + 1
      <4>1. tp[e].sendDone \in Nat /\ Queued(e, "data") \in Nat /\ Token(e) \in Nat
        BY SendTypes, Zenon
      <4>2. Token(e)' = Token(e)
        BY <3>0 DEF Token
      <4>3. tp'[e].sendDone = tp[e].sendDone /\ Queued(e, "data")' = Queued(e, "data") + 1
        BY <3>3, <3>4, Zenon
      <4>4. QED
        BY <4>1, <4>2, <4>3 DEF Due
    <3>12. TokensOf(e)'
      BY <3>0, <3>4, <3>10, <3>11, SendTypes, SMTT(20) DEF SendSide, TokensOf
    <3>13. CallOf(e)'
      <4>1. snd[e].call \in 1 .. Len(Script[e])
        BY <2>1 DEF Types, InCall
      <4>2. QED
        BY <3>10, <4>1 DEF CallOf, InCall, Script, SendSide
    <3>14. QED
      BY <3>7, <3>8, <3>9, <3>12, <3>13, Zenon DEF SendSide
  <2>3. CASE /\ SendFails(e) /\ nic' = nic
             /\ \/ tp' = tp
                \/ /\ tp[e].closed /\ tp[e].sendFree > 0
                   /\ tp' = [tp EXCEPT ![e].sendFree = @ - 1]
             /\ hist' = [hist EXCEPT ![e].lost = @ + 1] \/ hist' = hist
    <3>1. hist'[e].stream = hist[e].stream /\ hist'[e].promised = hist[e].promised
      BY <1>0, <2>3 DEF Hist
    <3>a. /\ tp'[e].closed = tp[e].closed /\ tp'[e].sendDone = tp[e].sendDone
          /\ tp'[e].creditFree = tp[e].creditFree
          /\ \/ tp'[e].sendFree = tp[e].sendFree
             \/ /\ tp[e].closed /\ tp[e].sendFree > 0
                /\ tp'[e].sendFree = tp[e].sendFree - 1
      BY <1>0, <2>3 DEF Tp
    <3>b. PromiseOf(e)' /\ LandedOfQueued(e)'
      BY <2>1, <2>3, <3>1, PromiseStays, LandedStays, Zenon DEF SendSide
    <3>2. SlotsOf(e)'
      <4> DEFINE data    == tp[e].sendFree + Queued(e, "data")
                 newData == tp'[e].sendFree + Queued(e, "data")'
                 ctl     == tp[e].creditFree + Queued(e, "ctl")
      <4>1. /\ Queued(e, "data")' = Queued(e, "data") /\ Queued(e, "ctl")' = Queued(e, "ctl")
            /\ nic'[e].sq = nic[e].sq /\ cls' = cls /\ SlotsOf(e)
        BY <2>1, <2>3, QueueSame DEF SendSide
      <4>t. /\ tp[e].sendFree \in Nat /\ tp[e].creditFree \in Nat
            /\ Queued(e, "data") \in Nat /\ Queued(e, "ctl") \in Nat
        BY SendTypes, Zenon
      <4>2. data \in Nat /\ newData \in Nat /\ ctl \in Nat
        BY <3>a, <4>t, <4>1
      <4>3. newData = data \/ (tp[e].closed /\ newData < data)
        BY <3>a, <4>t, <4>1
      <4>4. ctl = tp'[e].creditFree + Queued(e, "ctl")'
        BY <3>a, <4>1
      <4>5. Len(nic'[e].sq) <= scene.sqCap
        BY <4>1 DEF SlotsOf
      <4>6. QED
        BY <3>a, <4>1, <4>2, <4>3, <4>4, <4>5, SlotsMove, Zenon
    <3>3. Due(e)' = Due(e)
      BY <2>1, <2>3, <3>a, QueueSame DEF Due, Token
    <3>4. TokensOf(e)'
      BY <1>f, <2>1, <2>3, <3>a, <3>3, SendTypes DEF SendSide, TokensOf
    <3>5. CallOf(e)'
      BY <1>f, <2>1, <2>3, CallStays DEF SendSide
    <3>6. QED
      BY <3>b, <3>2, <3>4, <3>5, Zenon DEF SendSide
  <2>4. QED
    BY <2>1, <2>2, <2>3, Zenon
<1>4. CASE WaitToken(e)
  <2>1. /\ plr' = plr /\ cls' = cls /\ nic' = nic /\ hist' = hist
        /\ snd[e].pc = "wait"
        /\ \/ /\ tp[e].sendDone > 0 /\ tp' = [tp EXCEPT ![e].sendDone = @ - 1]
              /\ snd' = [snd EXCEPT ![e] = Collected(e, 1)]
           \/ /\ tp[e].closed /\ tp' = tp
              /\ snd' = [snd EXCEPT ![e] = [[snd[e] EXCEPT !.owed = 0] EXCEPT !.err = TRUE]]
    BY <1>4, Zenon DEF WaitToken
  <2>2. \/ /\ tp[e].sendDone > 0 /\ tp'[e].sendDone = tp[e].sendDone - 1
           /\ snd'[e].owed = snd[e].owed - 1 /\ snd'[e].err = snd[e].err
        \/ /\ tp[e].closed /\ tp'[e].sendDone = tp[e].sendDone
           /\ snd'[e].owed = 0 /\ snd'[e].err
    <3>1. CASE /\ tp[e].sendDone > 0 /\ tp' = [tp EXCEPT ![e].sendDone = @ - 1]
               /\ snd' = [snd EXCEPT ![e] = Collected(e, 1)]
      BY <1>0, <3>1 DEF Snd, Tp, Collected
    <3>2. CASE /\ tp[e].closed /\ tp' = tp
               /\ snd' = [snd EXCEPT ![e] = [[snd[e] EXCEPT !.owed = 0] EXCEPT !.err = TRUE]]
      BY <1>0, <3>2 DEF Snd
    <3>3. QED
      BY <2>1, <3>1, <3>2, Zenon
  <2>3. /\ tp'[e].sendFree = tp[e].sendFree
        /\ tp'[e].creditFree = tp[e].creditFree /\ tp'[e].closed = tp[e].closed
    BY <1>0, <2>1 DEF Tp
  <2>c. /\ snd'[e].call = snd[e].call /\ snd'[e].k = snd[e].k
        /\ snd'[e].pc = "wait"
    <3>1. snd' = [snd EXCEPT ![e].owed = @ - 1]
          \/ snd' = [snd EXCEPT ![e] = [[snd[e] EXCEPT !.owed = 0] EXCEPT !.err = TRUE]]
      BY <2>1, Zenon DEF Collected
    <3>2. snd[e].pc = "wait"
      BY <2>1
    <3>3. QED
      <4>1. CASE snd' = [snd EXCEPT ![e].owed = @ - 1]
        BY <1>0, <3>2, <4>1 DEF Snd
      <4>2. CASE snd' = [snd EXCEPT ![e] = [[snd[e] EXCEPT !.owed = 0] EXCEPT !.err = TRUE]]
        BY <1>0, <3>2, <4>2 DEF Snd
      <4>3. QED
        BY <3>1, <4>1, <4>2
  <2>4. SlotsOf(e)' /\ PromiseOf(e)' /\ LandedOfQueued(e)'
    BY <2>1, <2>3, SlotsStay, PromiseStays, LandedStays, Zenon DEF SendSide
  <2>5. Due(e)' = Due(e) - tp[e].sendDone + tp'[e].sendDone
    <3>1. Queued(e, "data")' = Queued(e, "data") /\ Token(e)' = Token(e)
      BY <2>1, QueueSame DEF Token
    <3>2. /\ tp[e].sendDone \in Nat /\ Queued(e, "data") \in Nat
          /\ Token(e) \in Nat
      BY SendTypes, Zenon
    <3>3. tp'[e].sendDone \in Int
      BY <2>2, <3>2
    <3>4. /\ Due(e) = tp[e].sendDone + Queued(e, "data") + Token(e)
          /\ Due(e)' = tp'[e].sendDone + Queued(e, "data") + Token(e)
      BY <3>1 DEF Due
    <3>5. QED
      BY <3>2, <3>3, <3>4
  <2>6. TokensOf(e)'
    <3>1. snd[e].pc = "wait"
      BY <2>1
    <3>2. QED
      <4>1. /\ snd[e].owed \in Int /\ Due(e) \in Nat /\ tp[e].sendDone \in Nat
        BY SendTypes, Zenon
      <4>2. TokensOf(e)
        BY DEF SendSide
      <4>3. CASE tp[e].sendDone > 0 /\ tp'[e].sendDone = tp[e].sendDone - 1
                 /\ snd'[e].owed = snd[e].owed - 1 /\ snd'[e].err = snd[e].err
        BY <2>3, <2>c, <2>5, <3>1, <4>1, <4>2, <4>3 DEF TokensOf
      <4>4. CASE tp[e].closed /\ tp'[e].sendDone = tp[e].sendDone
                 /\ snd'[e].owed = 0 /\ snd'[e].err
        BY <2>3, <2>c, <2>5, <3>1, <4>1, <4>2, <4>4 DEF TokensOf
      <4>5. QED
        BY <2>2, <4>3, <4>4
  <2>7. CallOf(e)'
    BY <2>c, CallStays DEF SendSide
  <2>8. QED
    BY <2>4, <2>6, <2>7, Zenon DEF SendSide
<1>5. CASE SendReturn(e)
  <2>1. /\ plr' = plr /\ cls' = cls /\ nic' = nic /\ tp' = tp
        /\ snd[e].pc = "wait" /\ snd[e].owed <= 0
        /\ snd' = [snd EXCEPT ![e].pc = "idle"]
        /\ \/ hist' = hist
           \/ ~snd[e].err /\ hist' = [hist EXCEPT ![e].promised = Len(hist[e].stream)]
    BY <1>5, Zenon DEF SendReturn
  <2>2. /\ snd'[e].pc = "idle" /\ snd'[e].owed = snd[e].owed
        /\ snd'[e].call = snd[e].call
    BY <1>0, <2>1 DEF Snd
  <2>3. SlotsOf(e)' /\ LandedOfQueued(e)'
    BY <2>1, SlotsStay, LandedStays, Zenon DEF SendSide
  <2>4. Due(e)' = Due(e)
    BY <2>1, QueueSame DEF Due, Token
  <2>5. TokensOf(e)'
    BY <2>1, <2>2, <2>4, SendTypes DEF SendSide, TokensOf
  <2>6. CallOf(e)'
    BY <2>2 DEF SendSide, CallOf, InCall, Script
  <2>7. PromiseOf(e)'
    <3>1. CASE hist' = hist
      BY <2>1, <3>1, PromiseStays DEF SendSide
    <3>2. CASE ~snd[e].err /\ hist' = [hist EXCEPT ![e].promised = Len(hist[e].stream)]
      <4>1. Due(e) <= 0
        BY <2>1, <3>2, SendTypes DEF SendSide, TokensOf
      <4>2. Queued(e, "data") = 0
        BY <4>1, SendTypes DEF Due
      <4>3. InFlight(e, "last") = 0
        BY <1>0, <4>2, LastIsData, SendTypes
      <4>4. InFlight(e, "last")' = 0
        BY <2>1, <4>3, QueueSame
      <4>5. /\ hist'[e].promised = Len(hist[e].stream)
            /\ hist'[e].stream = hist[e].stream
        BY <1>0, <3>2 DEF Hist
      <4>6. QED
        BY <4>4, <4>5, SendTypes DEF PromiseOf
    <3>3. QED
      BY <2>1, <3>1, <3>2, Zenon
  <2>8. QED
    BY <2>3, <2>5, <2>6, <2>7, Zenon DEF SendSide
<1>6. QED
  BY <1>1, <1>2, <1>3, <1>4, <1>5, Zenon DEF Sender

(* Nobody took a completion, and none came.                                *)
LEMMA TokensStay ==
  ASSUME NEW e, TokensOf(e), snd'[e] = snd[e], Due(e)' = Due(e),
         tp[e].closed => tp'[e].closed
  PROVE  TokensOf(e)'
BY DEF TokensOf

(* A credit frame or the fin is posted from a control slot of its own, and *)
(* leaves the tokens alone.                                                *)
LEMMA ControlPosted ==
  ASSUME Types, NEW e \in Peers, SendSide(e), scene' = scene, NEW fr \in Frames,
         Carries(fr, "data") = 0, Carries(fr, "ctl") = 1, Carries(fr, "last") = 0,
         CanPost(e), nic' = Posted(e, fr), tp' = [tp EXCEPT ![e].creditFree = @ - 1],
         snd' = snd, plr' = plr, hist' = hist, cls'[e] = "open" => cls[e] = "open"
  PROVE  SendSide(e)'
<1>0. /\ tp \in [Peers -> Tp] /\ nic \in [Peers -> Nic] /\ Typing
  BY DEF Types, Typing
<1>1. /\ Queued(e, "data")' = Queued(e, "data")
      /\ Queued(e, "ctl")' = Queued(e, "ctl") + 1
      /\ InFlight(e, "last")' = InFlight(e, "last")
  <2>1. /\ Queued(e, "data")' = Queued(e, "data") + Carries(fr, "data")
        /\ Queued(e, "ctl")' = Queued(e, "ctl") + Carries(fr, "ctl")
        /\ InFlight(e, "last")' = InFlight(e, "last") + Carries(fr, "last")
    BY <1>0, PostAmounts, WhatKinds, Zenon DEF SendSide
  <2>2. QED
    BY <2>1, SendTypes
<1>2. /\ tp'[e].sendFree = tp[e].sendFree /\ tp'[e].sendDone = tp[e].sendDone
      /\ tp'[e].creditFree = tp[e].creditFree - 1
      /\ tp'[e].closed = tp[e].closed
  BY <1>0 DEF Tp
<1>3. /\ nic'[e].landed = nic[e].landed /\ nic'[e].sq = Append(nic[e].sq, fr)
  BY <1>0 DEF Posted, Nic
<1>4. Len(nic'[e].sq) = Len(nic[e].sq) + 1
  BY <1>0, <1>3, NicFields DEF FrameSeq
<1>5. Len(nic'[e].sq) <= scene.sqCap
  <2>1. scene.sqCap \in Nat
    BY <1>0, ScriptType, Zenon DEF Typing
  <2>2. QED
    BY <1>4, <2>1, SendTypes DEF CanPost
<1>6. SlotsOf(e)'
  <2>1. SlotsOf(e) /\ tp[e].creditFree \in Nat /\ Queued(e, "ctl") \in Nat
        /\ CreditSlots \in Nat
    BY SendTypes, Zenon DEF SendSide
  <2>2. QED
    BY <1>1, <1>2, <1>5, <2>1 DEF SlotsOf
<1>7. Due(e)' = Due(e)
  BY <1>1, <1>2 DEF Due, Token
<1>8. TokensOf(e)'
  BY <1>2, <1>7, TokensStay DEF SendSide
<1>9. PromiseOf(e)'
  BY <1>1 DEF SendSide, PromiseOf
<1>10. CallOf(e)'
  BY DEF SendSide, CallOf, InCall, Script
<1>11. LandedOfQueued(e)'
  BY <1>3, <1>4, SendTypes DEF SendSide, LandedOfQueued
<1>12. QED
  BY <1>6, <1>8, <1>9, <1>10, <1>11, Zenon DEF SendSide

(* Returning credits keeps the sending half.                               *)
LEMMA ReturnCreditSide ==
  ASSUME Types, NEW e \in Peers, SendSide(e), scene' = scene, ReturnCredit(e)
  PROVE  SendSide(e)'
<1>0. tp \in [Peers -> Tp] /\ CreditInHand(e)
  BY DEF Types, Typing
<1>1. /\ snd' = snd /\ plr' = plr /\ hist' = hist /\ cls' = cls
      /\ rcv[e].pc = "credit"
      /\ \/ /\ CanPost(e) /\ tp' = [tp EXCEPT ![e].creditFree = @ - 1]
            /\ nic' = Posted(e, CreditFrame(rcv[e].n))
         \/ /\ nic' = nic
            /\ tp' = tp \/ tp' = [tp EXCEPT ![e].closed = TRUE]
  BY Zenon DEF ReturnCredit
<1>2. rcv[e].n \in 1 .. Depth
  BY <1>0, <1>1 DEF CreditInHand
<1>3. CASE /\ CanPost(e) /\ tp' = [tp EXCEPT ![e].creditFree = @ - 1]
           /\ nic' = Posted(e, CreditFrame(rcv[e].n))
  <2>1. /\ CreditFrame(rcv[e].n) \in Frames
        /\ Carries(CreditFrame(rcv[e].n), "data") = 0
        /\ Carries(CreditFrame(rcv[e].n), "ctl") = 1
        /\ Carries(CreditFrame(rcv[e].n), "last") = 0
    BY <1>2, ControlFrames, Carried, Zenon
  <2>2. QED
    BY <1>1, <1>3, <2>1, ControlPosted, Zenon
<1>4. CASE nic' = nic /\ (tp' = tp \/ tp' = [tp EXCEPT ![e].closed = TRUE])
  <2>1. /\ tp'[e].sendFree = tp[e].sendFree /\ tp'[e].sendDone = tp[e].sendDone
        /\ tp'[e].creditFree = tp[e].creditFree /\ (tp[e].closed => tp'[e].closed)
    BY <1>0, <1>4 DEF Tp
  <2>2. /\ SlotsOf(e)' /\ PromiseOf(e)' /\ LandedOfQueued(e)'
    BY <1>1, <1>4, <2>1, SlotsStay, PromiseStays, LandedStays, Zenon
       DEF SendSide
  <2>3. Due(e)' = Due(e)
    BY <1>1, <1>4, <2>1, QueueSame DEF Due, Token
  <2>4. TokensOf(e)'
    BY <1>1, <2>1, <2>3, TokensStay DEF SendSide
  <2>5. CallOf(e)'
    BY <1>1 DEF SendSide, CallOf, InCall, Script
  <2>6. QED
    BY <2>2, <2>4, <2>5, Zenon DEF SendSide
<1>5. QED
  BY <1>1, <1>3, <1>4, Zenon

(* So do Close and the poller's failure of the connection.                 *)
LEMMA CloserSide ==
  ASSUME Types, NEW e \in Peers, SendSide(e), scene' = scene,
         CloseCall(e) \/ Closer(e) \/ DispatchError(e)
  PROVE  SendSide(e)'
<1>0. /\ tp \in [Peers -> Tp] /\ nic \in [Peers -> Nic]
      /\ plr \in [Peers -> Plr]
      /\ cls \in [Peers -> {"open", "fin", "close", "teardown", "closed"}]
      /\ Typing
  BY DEF Types, Typing
<1>o. cls'[e] = "open" => cls[e] = "open"
  BY <1>0 DEF CloseCall, Closer, CloseFin, CloseDone, TearDown, DispatchError
<1>1. /\ snd' = snd /\ hist' = hist
  BY Zenon DEF CloseCall, Closer, CloseFin, CloseDone, TearDown, DispatchError
<1>t. (plr'[e].pc = "token") <=> (plr[e].pc = "token")
  BY <1>0
     DEF CloseCall, Closer, CloseFin, CloseDone, TearDown, DispatchError, Plr
<1>2. \/ /\ CanPost(e) /\ tp' = [tp EXCEPT ![e].creditFree = @ - 1]
         /\ nic' = Posted(e, FinFrame) /\ plr' = plr
      \/ /\ tp' = [tp EXCEPT ![e].creditFree = @ - 1] /\ nic' = nic /\ tp[e].creditFree > 0
         /\ cls[e] = "fin" /\ cls' = [cls EXCEPT ![e] = "close"]
      \/ /\ tp' = tp \/ tp' = [tp EXCEPT ![e].closed = TRUE]
         /\ nic' = nic \/ nic' = [nic EXCEPT ![e].down = TRUE]
  <2>1. CASE CloseFin(e)
    BY <2>1, Zenon DEF CloseFin
  <2>2. CASE CloseCall(e) \/ CloseDone(e) \/ TearDown(e) \/ DispatchError(e)
    BY <2>2, Zenon DEF CloseCall, CloseDone, TearDown, DispatchError
  <2>3. QED
    BY <2>1, <2>2, Zenon DEF Closer
<1>3. CASE /\ CanPost(e) /\ tp' = [tp EXCEPT ![e].creditFree = @ - 1]
           /\ nic' = Posted(e, FinFrame) /\ plr' = plr
  <2>1. FinFrame \in Frames
    BY ControlFrames, Zenon
  <2>2. QED
    BY <1>1, <1>o, <1>3, <2>1, Carried, ControlPosted, Zenon
<1>4. CASE /\ tp' = [tp EXCEPT ![e].creditFree = @ - 1] /\ nic' = nic /\ tp[e].creditFree > 0
           /\ cls[e] = "fin" /\ cls' = [cls EXCEPT ![e] = "close"]
  <2>1. /\ tp'[e].sendFree = tp[e].sendFree /\ tp'[e].sendDone = tp[e].sendDone
        /\ tp'[e].creditFree = tp[e].creditFree - 1
        /\ tp'[e].closed = tp[e].closed
        /\ cls'[e] = "close"
    BY <1>0, <1>4 DEF Tp
  <2>2. PromiseOf(e)' /\ LandedOfQueued(e)'
    BY <1>1, <1>4, PromiseStays, LandedStays, Zenon DEF SendSide
  <2>3. Due(e)' = Due(e)
    BY <1>4, <1>t, <2>1, QueueSame DEF Due, Token
  <2>4. TokensOf(e)'
    BY <1>1, <2>1, <2>3, TokensStay DEF SendSide
  <2>5. CallOf(e)'
    BY <1>1 DEF SendSide, CallOf, InCall, Script
  <2>6. SlotsOf(e)'
    <3>1. SlotsOf(e) /\ tp[e].creditFree \in Nat /\ Queued(e, "ctl") \in Nat
          /\ CreditSlots \in Nat
      BY SendTypes, Zenon DEF SendSide
    <3>2. QED
      BY <1>4, <2>1, <3>1, QueueSame DEF SlotsOf
  <2>7. QED
    BY <2>2, <2>4, <2>5, <2>6, Zenon DEF SendSide
<1>5. CASE /\ tp' = tp \/ tp' = [tp EXCEPT ![e].closed = TRUE]
           /\ nic' = nic \/ nic' = [nic EXCEPT ![e].down = TRUE]
  <2>1. /\ tp'[e].sendFree = tp[e].sendFree /\ tp'[e].sendDone = tp[e].sendDone
        /\ tp'[e].creditFree = tp[e].creditFree /\ (tp[e].closed => tp'[e].closed)
        /\ nic'[e].sq = nic[e].sq /\ nic'[e].landed = nic[e].landed
    BY <1>0, <1>5 DEF Tp, Nic
  <2>2. /\ SlotsOf(e)' /\ PromiseOf(e)' /\ LandedOfQueued(e)'
    BY <1>1, <1>o, <2>1, SlotsStay, PromiseStays, LandedStays, Zenon
       DEF SendSide
  <2>3. Due(e)' = Due(e)
    BY <1>t, <2>1, QueueSame DEF Due, Token
  <2>4. TokensOf(e)'
    BY <1>1, <2>1, <2>3, TokensStay DEF SendSide
  <2>5. CallOf(e)'
    BY <1>1 DEF SendSide, CallOf, InCall, Script
  <2>6. QED
    BY <2>2, <2>4, <2>5, Zenon DEF SendSide
<1>6. QED
  BY <1>2, <1>3, <1>4, <1>5, Zenon

(* So does the poller's way from a completion to a token: from the queue   *)
(* to the poller's hand, and from there to sendDone.                       *)
LEMMA PollerSide ==
  ASSUME Types, NEW e \in Peers, SendSide(e), scene' = scene,
         DispatchSend(e) \/ PushToken(e), Typing'
  PROVE  SendSide(e)'
<1>0. /\ tp \in [Peers -> Tp] /\ nic \in [Peers -> Nic]
      /\ plr \in [Peers -> Plr]
      /\ nic' \in [Peers -> Nic] /\ Typing
  BY DEF Types, Typing
<1>1. CASE DispatchSend(e)
  <2> DEFINE fr == Head(nic[e].sq)
  <2>1. /\ snd' = snd /\ cls' = cls /\ hist' = hist /\ plr[e].pc = "poll"
        /\ nic[e].landed > 0
        /\ nic'[e].sq = Tail(nic[e].sq) /\ nic'[e].landed = nic[e].landed - 1
        /\ fr.kind = "data" => /\ \/ tp' = [tp EXCEPT ![e].sendFree = @ + 1]
                                  \/ tp[e].closed /\ tp' = tp
                               /\ plr'[e].pc = "token"
        /\ fr.kind # "data" => /\ \/ tp' = [tp EXCEPT ![e].creditFree = @ + 1]
                                  \/ tp[e].closed /\ tp' = tp
                               /\ plr'[e].pc = "poll"
    BY <1>0, <1>1, DispatchSendEffect, Zenon
  <2>2. /\ nic[e].sq \in Seq(Frames) /\ nic[e].sq # <<>>
        /\ nic[e].landed <= Len(nic[e].sq)
        /\ nic[e].landed \in Nat
    <3>1. nic[e].sq \in Seq(Frames) /\ nic[e].landed \in Nat
      BY <1>0, NicFields, Zenon DEF FrameSeq
    <3>2. nic[e].landed <= Len(nic[e].sq)
      BY DEF SendSide, LandedOfQueued
    <3>3. QED
      BY <2>1, <3>1, <3>2
  <2>3. fr \in Frames
    BY <2>2
  <2>4. /\ Queued(e, "data") = Queued(e, "data")' + Carries(fr, "data")
        /\ Queued(e, "ctl") = Queued(e, "ctl")' + Carries(fr, "ctl")
        /\ InFlight(e, "last")' = InFlight(e, "last")
    BY <1>0, <2>1, SendAmounts, WhatKinds, Zenon DEF SendSide
  <2>5. Queued(e, "data")' \in Nat /\ Queued(e, "ctl")' \in Nat
    BY <1>0, QueueAmountsNext, WhatKinds, Zenon
  <2> HIDE DEF fr
  <2>6. Len(nic'[e].sq) = Len(nic[e].sq) - 1
    BY <2>1, <2>2
  <2>7. LandedOfQueued(e)'
    BY <2>1, <2>2, <2>6 DEF LandedOfQueued
  <2>8. PromiseOf(e)'
    BY <2>1, <2>4 DEF SendSide, PromiseOf
  <2>9. CallOf(e)'
    BY <2>1 DEF SendSide, CallOf, InCall, Script
  <2>10. /\ tp[e].sendFree \in Nat /\ tp[e].sendDone \in Nat
         /\ tp[e].creditFree \in Nat
         /\ SlotsOf(e) /\ CreditSlots \in Nat /\ TokensOf(e)
    BY SendTypes, Zenon DEF SendSide
  <2>11. Len(nic'[e].sq) <= scene.sqCap
    <3>1. scene.sqCap \in Nat /\ Len(nic[e].sq) <= scene.sqCap
      BY <1>0, <2>10, ScriptType, Zenon DEF Typing, SlotsOf
    <3>2. QED
      BY <2>2, <2>6, <3>1
  <2>12. CASE fr.kind = "data"
    <3>1. /\ Queued(e, "data") = Queued(e, "data")' + 1
          /\ Queued(e, "ctl") = Queued(e, "ctl")'
      <4>1. Carries(fr, "data") = 1 /\ Carries(fr, "ctl") = 0
        BY <2>3, <2>12, FrameCarries
      <4>2. QED
        BY <2>4, <2>5, <4>1
    <3>2. /\ \/ tp'[e].sendFree = tp[e].sendFree + 1
             \/ tp[e].closed /\ tp'[e].sendFree = tp[e].sendFree
          /\ tp'[e].sendDone = tp[e].sendDone
          /\ tp'[e].creditFree = tp[e].creditFree
          /\ tp'[e].closed = tp[e].closed
      BY <1>0, <2>1, <2>12 DEF Tp
    <3>3. SlotsOf(e)'
      <4> DEFINE data    == tp[e].sendFree + Queued(e, "data")
                 newData == tp'[e].sendFree + Queued(e, "data")'
                 ctl     == tp[e].creditFree + Queued(e, "ctl")
                 newCtl  == tp'[e].creditFree + Queued(e, "ctl")'
      <4>1. cls' = cls
        BY <2>1
      <4>2. data \in Nat /\ newData \in Nat /\ ctl \in Nat /\ newCtl \in Nat
        BY <2>5, <2>10, <3>1, <3>2
      <4>3. newData = data \/ (tp[e].closed /\ newData < data)
        BY <2>5, <2>10, <3>1, <3>2
      <4>4. newCtl = ctl \/ (tp[e].closed /\ newCtl < ctl)
        BY <2>5, <2>10, <3>1, <3>2
      <4>5. QED
        BY <2>10, <2>11, <3>2, <4>1, <4>2, <4>3, <4>4, SlotsMove, Zenon
    <3>4. Token(e)' = 1 /\ Token(e) = 0
      BY <2>1, <2>12 DEF Token
    <3>5. Due(e)' = Due(e)
      BY <2>5, <2>10, <3>1, <3>2, <3>4 DEF Due
    <3>6. TokensOf(e)'
      BY <2>1, <2>10, <3>2, <3>5, TokensStay
    <3>7. QED
      BY <2>7, <2>8, <2>9, <3>3, <3>6, Zenon DEF SendSide
  <2>13. CASE fr.kind # "data"
    <3>1. /\ Queued(e, "data") = Queued(e, "data")'
          /\ Queued(e, "ctl") = Queued(e, "ctl")' + 1
      <4>1. Carries(fr, "data") = 0 /\ Carries(fr, "ctl") = 1
        BY <2>3, <2>13, FrameCarries
      <4>2. QED
        BY <2>4, <2>5, <4>1
    <3>2. /\ tp'[e].sendFree = tp[e].sendFree
          /\ tp'[e].sendDone = tp[e].sendDone
          /\ \/ tp'[e].creditFree = tp[e].creditFree + 1
             \/ tp[e].closed /\ tp'[e].creditFree = tp[e].creditFree
          /\ tp'[e].closed = tp[e].closed
      BY <1>0, <2>1, <2>13 DEF Tp
    <3>3. SlotsOf(e)'
      <4> DEFINE data    == tp[e].sendFree + Queued(e, "data")
                 newData == tp'[e].sendFree + Queued(e, "data")'
                 ctl     == tp[e].creditFree + Queued(e, "ctl")
                 newCtl  == tp'[e].creditFree + Queued(e, "ctl")'
      <4>1. cls' = cls
        BY <2>1
      <4>2. data \in Nat /\ newData \in Nat /\ ctl \in Nat /\ newCtl \in Nat
        BY <2>5, <2>10, <3>1, <3>2
      <4>3. newData = data \/ (tp[e].closed /\ newData < data)
        BY <2>5, <2>10, <3>1, <3>2
      <4>4. newCtl = ctl \/ (tp[e].closed /\ newCtl < ctl)
        BY <2>5, <2>10, <3>1, <3>2
      <4>5. QED
        BY <2>10, <2>11, <3>2, <4>1, <4>2, <4>3, <4>4, SlotsMove, Zenon
    <3>4. Token(e)' = 0 /\ Token(e) = 0
      BY <2>1, <2>13 DEF Token
    <3>5. Due(e)' = Due(e)
      BY <2>5, <2>10, <3>1, <3>2, <3>4 DEF Due
    <3>6. TokensOf(e)'
      BY <2>1, <2>10, <3>2, <3>5, TokensStay
    <3>7. QED
      BY <2>7, <2>8, <2>9, <3>3, <3>6, Zenon DEF SendSide
  <2>14. QED
    BY <2>12, <2>13
<1>2. CASE PushToken(e)
  <2>1. /\ snd' = snd /\ cls' = cls /\ hist' = hist /\ nic' = nic
        /\ plr[e].pc = "token"
        /\ plr' = [plr EXCEPT ![e].pc = "poll"]
        /\ \/ tp' = [tp EXCEPT ![e].sendDone = @ + 1]
           \/ tp[e].closed /\ tp' = tp
    BY <1>2, Zenon DEF PushToken
  <2>2. /\ tp'[e].sendFree = tp[e].sendFree
        /\ tp'[e].creditFree = tp[e].creditFree
        /\ tp'[e].closed = tp[e].closed
        /\ \/ tp'[e].sendDone = tp[e].sendDone + 1
           \/ tp[e].closed /\ tp'[e].sendDone = tp[e].sendDone
    BY <1>0, <2>1 DEF Tp
  <2>3. Token(e) = 1 /\ Token(e)' = 0
    BY <1>0, <2>1 DEF Token, Plr
  <2>4. /\ SlotsOf(e)' /\ PromiseOf(e)' /\ LandedOfQueued(e)'
    BY <2>1, <2>2, SlotsStay, PromiseStays, LandedStays, Zenon DEF SendSide
  <2>5. CallOf(e)'
    BY <2>1 DEF SendSide, CallOf, InCall, Script
  <2>6. tp[e].sendDone \in Nat /\ Queued(e, "data") \in Nat /\ TokensOf(e)
        /\ snd[e].owed \in Int
    BY SendTypes, Zenon DEF SendSide
  <2>7. Queued(e, "data")' = Queued(e, "data")
    BY <2>1, QueueSame
  <2>8. Due(e)' = Due(e) \/ (tp[e].closed /\ Due(e)' = Due(e) - 1)
    BY <2>2, <2>3, <2>6, <2>7 DEF Due
  <2>9. Due(e) \in Nat
    BY <2>3, <2>6 DEF Due
  <2>10. TokensOf(e)'
    BY <2>1, <2>2, <2>6, <2>8, <2>9 DEF TokensOf
  <2>11. QED
    BY <2>4, <2>5, <2>10, Zenon DEF SendSide
<1>3. QED
  BY <1>1, <1>2

(* So does the NIC, at both ends.                                          *)
LEMMA LandSide ==
  ASSUME Types, NEW e \in Peers, SendSide(e), SendSide(Peer(e)), scene' = scene,
         Land(e), Typing'
  PROVE  SendSide(e)' /\ SendSide(Peer(e))'
<1>0. /\ tp \in [Peers -> Tp] /\ nic \in [Peers -> Nic]
      /\ nic' \in [Peers -> Nic]
  BY DEF Types, Typing
<1>p. Peer(e) \in Peers /\ Peer(e) # e
  BY ThePeers, Zenon
<1>1. /\ snd' = snd /\ cls' = cls /\ hist' = hist /\ plr' = plr /\ tp' = tp
      /\ nic[e].landed < Len(nic[e].sq)
  BY Zenon DEF Land
<1>2. /\ nic'[e].sq = nic[e].sq /\ nic'[e].landed = nic[e].landed + 1
      /\ nic'[Peer(e)].sq = nic[Peer(e)].sq
      /\ nic'[Peer(e)].landed = nic[Peer(e)].landed
  BY <1>0, <1>p DEF Land, Nic
<1>3. SendSide(Peer(e))'
  BY <1>1, <1>2, SendSideStays DEF SendSame
<1>4. /\ Queued(e, "data")' = Queued(e, "data")
      /\ Queued(e, "ctl")' = Queued(e, "ctl")
  BY <1>2, QueuesStay, Zenon
<1>5. InFlight(e, "last")' <= InFlight(e, "last") /\ InFlight(e, "last")' \in Nat
  <2> DEFINE fr == nic[e].sq[nic[e].landed + 1]
  <2>1. fr \in Frames /\ InFlight(e, "last") = InFlight(e, "last")' + Carries(fr, "last")
    BY <1>0, LandAmounts, WhatKinds, Zenon
  <2>2. InFlight(e, "last")' \in Nat
    BY <1>0, QueueAmountsNext, WhatKinds, Zenon
  <2>3. Carries(fr, "last") \in Nat
    BY <2>1, CarriesNat, WhatKinds, DepthAssumption
  <2>4. InFlight(e, "last") = InFlight(e, "last")' + Carries(fr, "last")
    BY <2>1
  <2> HIDE DEF fr
  <2>5. QED
    BY <2>2, <2>3, <2>4
<1>6. SlotsOf(e)'
  BY <1>1, <1>2, <1>4 DEF SendSide, SlotsOf
<1>7. PromiseOf(e)'
  <2>1. /\ hist[e].promised + InFlight(e, "last") <= Len(hist[e].stream)
        /\ hist[e].promised \in Nat /\ InFlight(e, "last") \in Nat
        /\ Len(hist[e].stream) \in Nat
    BY SendTypes, Zenon DEF SendSide, PromiseOf
  <2> DEFINE n == Len(hist[e].stream)
  <2>2. n \in Nat /\ hist[e].promised + InFlight(e, "last") <= n
    BY <2>1, Zenon
  <2>3. hist[e].promised \in Nat /\ InFlight(e, "last") \in Nat
    BY <2>1, Zenon
  <2> HIDE DEF n
  <2>4. hist[e].promised + InFlight(e, "last")' <= n
    BY <1>5, <2>2, <2>3
  <2>5. QED
    BY <1>1, <2>4 DEF PromiseOf, n
<1>8. Due(e)' = Due(e)
  BY <1>1, <1>4 DEF Due, Token
<1>9. TokensOf(e)'
  BY <1>1, <1>8, TokensStay DEF SendSide
<1>10. CallOf(e)'
  BY <1>1 DEF SendSide, CallOf, InCall, Script
<1>11. LandedOfQueued(e)'
  BY <1>1, <1>2, SendTypes DEF LandedOfQueued
<1>12. QED
  BY <1>3, <1>6, <1>7, <1>9, <1>10, <1>11, Zenon DEF SendSide

(* Every step keeps the sending half of every end.                         *)
LEMMA SendSideStep ==
  ASSUME Types, \A e \in Peers : SendSide(e), [Next]_vars
  PROVE  \A e \in Peers : SendSide(e)'
<1>0. scene' = scene /\ Typing'
  BY WhoMoves, TypingStep, Zenon
<1>s. Typing
  BY DEF Types
<1>1. ASSUME NEW e \in Peers, Moves(e) PROVE \A x \in Peers : SendSide(x)'
  <2>1. SendSide(e)'
    <3>1. CASE SendCall(e) \/ Sender(e)
      BY <1>0, <3>1, SendCallSide, SenderSide, Zenon
    <3>2. CASE RecvCall(e) \/ Receiver(e)
      BY <1>0, <3>2, SendSideQuiet, ReturnCreditSide, Zenon DEF Receiver
    <3>3. CASE Poller(e)
      BY <1>0, <3>3, SendSideQuiet, PollerSide, CloserSide, Zenon DEF Poller
    <3>4. CASE CloseCall(e) \/ Closer(e)
      BY <1>0, <3>4, CloserSide, Zenon
    <3>5. QED
      BY <1>1, <3>1, <3>2, <3>3, <3>4, Zenon DEF Moves
  <2>2. ASSUME NEW x \in Peers, x # e PROVE SendSide(x)'
    <3>1. Still(x)
      BY <1>s, <1>1, <2>2, OthersStill, Zenon
    <3>2. SendSame(x)
      BY <1>0, <3>1 DEF Still, SendSame
    <3>3. QED
      BY <3>2, SendSideStays, Zenon
  <2>3. QED
    BY <2>1, <2>2, Zenon
<1>2. ASSUME NEW e \in Peers, Land(e) PROVE \A x \in Peers : SendSide(x)'
  <2>1. \A x \in Peers : x = e \/ x = Peer(e)
    BY DEF Peers, Peer
  <2>2. Peer(e) \in Peers
    BY ThePeers, Zenon
  <2>3. QED
    BY <1>0, <1>2, <2>1, <2>2, LandSide, Zenon
<1>3. CASE UNCHANGED vars
  <2>1. ASSUME NEW x \in Peers PROVE SendSame(x)
    BY <1>3 DEF vars, SendSame
  <2>2. QED
    BY <2>1, SendSideStays, Zenon
<1>4. QED
  BY <1>1, <1>2, <1>3, NextCases, Zenon DEF Moves

-----------------------------------------------------------------------------
(* The receiving half of an end: credits owed and the ring.                *)

(* Where its state stays, so does the receiving half's invariant.          *)
LEMMA RecvSideStays ==
  ASSUME NEW e, RecvSide(e), rcv'[e] = rcv[e], tp'[e].pending = tp[e].pending,
         tp[e].up => tp'[e].up, nic'[e].down => cls'[e] = "closed"
  PROVE  RecvSide(e)'
BY DEF RecvSide, CreditInHand

(* A queue pair is down only when Close is through.                        *)
LEMMA DownStays ==
  ASSUME Types, NEW e \in Peers, RecvSide(e), Moves(e)
  PROVE  nic'[e].down => cls'[e] = "closed"
<1>0. /\ nic \in [Peers -> Nic] /\ Typing
      /\ cls \in [Peers -> {"open", "fin", "close", "teardown", "closed"}]
  BY DEF Types, Typing
<1>1. CASE SendCall(e) \/ RecvCall(e)
  <2>1. cls' = cls /\ (nic' = nic \/ nic' = [nic EXCEPT ![e].ring = Depth])
    BY <1>1, Zenon DEF SendCall, RecvCall, BringUp
  <2>2. QED
    BY <1>0, <2>1 DEF Nic, RecvSide
<1>2. CASE Sender(e)
  <2>1. cls' = cls /\ (nic' = nic \/ \E fr : nic' = Posted(e, fr))
    BY <1>2, Zenon
       DEF Sender, DrainSendDone, AcquireCredit, PostFrame, WaitToken,
       SendReturn
  <2>2. QED
    BY <1>0, <2>1 DEF Nic, RecvSide, Posted
<1>3. CASE Receiver(e)
  <2>1. \/ ConsumeFrame(e, "drain") \/ ConsumeFrame(e, "try")
        \/ cls' = cls /\ (nic' = nic \/ \E fr : nic' = Posted(e, fr))
    BY <1>3, Zenon
       DEF Receiver, RecvDrain, RecvBlock, RecvTry, RecvEnd, ReturnCredit,
       RecvReturn
  <2>2. CASE cls' = cls /\ (nic' = nic \/ \E fr : nic' = Posted(e, fr))
    BY <1>0, <2>2 DEF Nic, RecvSide, Posted
  <2>3. CASE ConsumeFrame(e, "drain") \/ ConsumeFrame(e, "try")
    <3>1. cls' = cls /\ nic'[e].down = nic[e].down
      <4>1. "drain" \in RecvPcs /\ "try" \in RecvPcs
        BY DEF RecvPcs
      <4>2. QED
        BY <1>0, <2>3, <4>1, ConsumeEffect, Zenon
    <3>2. QED
      BY <3>1 DEF RecvSide
  <2>4. QED
    BY <2>1, <2>2, <2>3, Zenon
<1>4. CASE Poller(e)
  <2>1. \/ DispatchSend(e) \/ DispatchRecv(e) \/ (cls' = cls /\ nic' = nic)
    BY <1>4, Zenon DEF Poller, PushToken, DispatchError, PollLast, PollerExit
  <2>2. cls' = cls /\ nic'[e].down = nic[e].down
    BY <1>0, <2>1, DispatchSendEffect, DispatchRecvEffect, Zenon
  <2>3. QED
    BY <2>2 DEF RecvSide
<1>5. CASE CloseCall(e) \/ CloseFin(e) \/ CloseDone(e)
  <2>1. cls[e] # "closed" /\ (nic' = nic \/ \E fr : nic' = Posted(e, fr))
    BY <1>5 DEF CloseCall, CloseFin, CloseDone
  <2>2. nic'[e].down = nic[e].down
    BY <1>0, <2>1 DEF Nic, Posted
  <2>3. QED
    BY <2>1, <2>2 DEF RecvSide
<1>6. CASE TearDown(e)
  BY <1>0, <1>6 DEF TearDown
<1>7. QED
  BY <1>1, <1>2, <1>3, <1>4, <1>5, <1>6, Zenon DEF Moves, Closer

(* The sender, the poller and Close keep the receiving half.               *)
LEMMA RecvQuiet ==
  ASSUME Types, NEW e \in Peers, RecvSide(e),
         \/ SendCall(e) \/ Sender(e) \/ Poller(e) \/ CloseCall(e) \/ Closer(e)
  PROVE  RecvSide(e)'
<1>0. tp \in [Peers -> Tp] /\ Typing
  BY DEF Types, Typing
<1>1. nic'[e].down => cls'[e] = "closed"
  BY DownStays, Zenon DEF Moves
<1>2. rcv' = rcv
  <2>1. CASE SendCall(e) \/ Sender(e)
    BY <2>1, Zenon
       DEF SendCall, Sender, DrainSendDone, AcquireCredit, PostFrame,
       WaitToken, SendReturn
  <2>2. CASE Poller(e)
    BY <2>2, Zenon
       DEF Poller, DispatchSend, PushToken, DispatchRecv, DispatchError,
       PollLast, PollerExit
  <2>3. CASE CloseCall(e) \/ Closer(e)
    BY <2>3, Zenon DEF CloseCall, Closer, CloseFin, CloseDone, TearDown
  <2>4. QED
    BY <2>1, <2>2, <2>3, Zenon
<1>3. tp'[e].pending = tp[e].pending /\ (tp[e].up => tp'[e].up)
  <2>1. CASE SendCall(e) \/ Sender(e)
    <3>1. \/ tp' = tp \/ tp' = [tp EXCEPT ![e].up = TRUE]
          \/ \E n : \/ tp' = [tp EXCEPT ![e].sendDone = n] \/ tp' = [tp EXCEPT ![e].credits = n]
                    \/ tp' = [tp EXCEPT ![e].sendFree = n]
      BY <2>1, Zenon
         DEF SendCall, BringUp, Sender, DrainSendDone, AcquireCredit, PostFrame,
                         WaitToken, SendReturn
    <3>2. QED
      BY <1>0, <3>1 DEF Tp
  <2>2. CASE Poller(e)
    <3>1. \/ tp' = tp \/ tp' = [tp EXCEPT ![e].closed = TRUE]
          \/ tp' = [tp EXCEPT ![e].peerFin = TRUE]
          \/ \E n : \/ tp' = [tp EXCEPT ![e].sendDone = n] \/ tp' = [tp EXCEPT ![e].credits = n]
                    \/ tp' = [tp EXCEPT ![e].sendFree = n]
                    \/ tp' = [tp EXCEPT ![e].creditFree = n]
                    \/ tp' = [tp EXCEPT ![e].recvQ = n]
      BY <2>2, Zenon
         DEF Poller, DispatchSend, FreeSlot, PushToken, DispatchRecv,
         DispatchError,
                         PollLast, PollerExit
    <3>2. QED
      BY <1>0, <3>1 DEF Tp
  <2>3. CASE CloseCall(e) \/ Closer(e)
    <3>1. \/ tp' = tp \/ tp' = [tp EXCEPT ![e].closed = TRUE]
          \/ \E n : tp' = [tp EXCEPT ![e].creditFree = n]
      BY <2>3, Zenon DEF CloseCall, Closer, CloseFin, CloseDone, TearDown
    <3>2. QED
      BY <1>0, <3>1 DEF Tp
  <2>4. QED
    BY <2>1, <2>2, <2>3, Zenon
<1>4. QED
  BY <1>1, <1>2, <1>3, RecvSideStays

(* So does the receiver: it blocks with nothing pending.                   *)
LEMMA ReceiverSide ==
  ASSUME Types, NEW e \in Peers, RecvSide(e), RecvCall(e) \/ Receiver(e)
  PROVE  RecvSide(e)'
<1>0. /\ tp \in [Peers -> Tp] /\ rcv \in [Peers -> Rcv(scene.calls)] /\ Typing
  BY DEF Types, Typing
<1>d. nic'[e].down => cls'[e] = "closed"
  BY DownStays, Zenon DEF Moves
<1>t. /\ tp[e].pending \in Nat /\ CreditFlushThreshold \in 1 .. Depth
      /\ Depth \in Nat
  BY <1>0, TpFields, ThresholdFits, DepthAssumption
<1>1. ASSUME NEW more \in {"drain", "try"}, ConsumeFrame(e, more), rcv[e].pc # "credit",
             rcv[e].pc # "idle"
      PROVE  RecvSide(e)'
  <2>1. more \in RecvPcs
    BY DEF RecvPcs
  <2>2. tp'[e].up = tp[e].up
    BY <1>0, <1>1, <2>1, ConsumeEffect, Zenon
  <2>3. CASE nic[e].down
    <3>1. /\ tp'[e].pending = tp[e].pending
          /\ rcv'[e].pc = "return" /\ rcv'[e].n = rcv[e].n
      BY <1>0, <1>1, <2>1, <2>3, ConsumeEffect, Zenon
    <3>2. QED
      BY <1>1, <1>d, <2>2, <3>1 DEF RecvSide, CreditInHand
  <2>4. CASE ~nic[e].down
    <3>1. \/ /\ tp[e].pending + 1 >= CreditFlushThreshold
             /\ tp'[e].pending = 0 /\ rcv'[e].pc = "credit"
             /\ rcv'[e].n = tp[e].pending + 1
             /\ rcv'[e].then \in {more, "return", "try", "end"}
          \/ /\ tp[e].pending + 1 < CreditFlushThreshold
             /\ tp'[e].pending = tp[e].pending + 1
             /\ rcv'[e].pc \in {more, "return", "try", "end"}
             /\ rcv'[e].n = rcv[e].n
      BY <1>0, <1>1, <2>1, <2>4, ConsumeEffect, Zenon
    <3>2. QED
      BY <1>1, <1>d, <1>t, <2>2, <3>1 DEF RecvSide, CreditInHand
  <2>5. QED
    BY <2>3, <2>4
<1>f. ASSUME NEW next \in {"block", "return"}, rcv[e].pc \in {"drain", "end"},
             Flush(e, tp[e].pending, next, rcv[e].out),
             tp' = [tp EXCEPT ![e].pending = 0]
      PROVE  RecvSide(e)'
  <2>1. tp'[e].pending = 0 /\ tp'[e].up = tp[e].up
    BY <1>0, <1>f DEF Tp
  <2>2. next \in RecvPcs /\ rcv[e].out \in Texts
    BY <1>0, RcvFields DEF RecvPcs
  <2>3. /\ tp[e].pending > 0 => /\ rcv'[e].pc = "credit" /\ rcv'[e].then = next
                                /\ rcv'[e].n = tp[e].pending
        /\ tp[e].pending = 0 => rcv'[e].pc = next /\ rcv'[e].n = rcv[e].n
    BY <1>0, <1>t, <1>f, <2>2, FlushShape
  <2>4. QED
    BY <1>t, <1>d, <1>f, <2>1, <2>3 DEF RecvSide, CreditInHand
<1>2. CASE RecvCall(e)
  <2>1. /\ tp' = [tp EXCEPT ![e].up = TRUE] /\ rcv[e].pc = "idle"
        /\ \E c : \/ rcv' = [rcv EXCEPT ![e] = [[rcv[e] EXCEPT !.pc = "return"] EXCEPT !.call = c]]
                  \/ rcv' = [rcv EXCEPT ![e] = [[rcv[e] EXCEPT !.pc = "drain"] EXCEPT !.call = c]]
    BY <1>2, Zenon DEF RecvCall, BringUp
  <2>2. tp'[e].up /\ tp'[e].pending = tp[e].pending
    BY <1>0, <2>1 DEF Tp
  <2>3. rcv'[e].pc \in {"return", "drain"} /\ rcv'[e].n = rcv[e].n
    BY <1>0, <2>1, ZenonT(60) DEF Rcv
  <2>4. QED
    BY <1>d, <2>1, <2>2, <2>3 DEF RecvSide, CreditInHand
<1>3. CASE RecvDrain(e)
  <2>1. rcv[e].pc = "drain"
    BY <1>3, Zenon DEF RecvDrain
  <2>2. \/ ConsumeFrame(e, "drain")
        \/ /\ tp' = [tp EXCEPT ![e].pending = 0]
           /\ Flush(e, tp[e].pending, "block", rcv[e].out)
    BY <1>3, Zenon DEF RecvDrain
  <2>3. QED
    BY <1>1, <1>f, <2>1, <2>2
<1>4. CASE RecvBlock(e)
  <2>1. rcv[e].pc = "block"
    BY <1>4, Zenon DEF RecvBlock
  <2>2. \/ ConsumeFrame(e, "drain")
        \/ /\ tp' = tp /\ rcv' = [rcv EXCEPT ![e].pc = "stop"]
    BY <1>4, Zenon DEF RecvBlock
  <2>3. CASE tp' = tp /\ rcv' = [rcv EXCEPT ![e].pc = "stop"]
    <3>1. rcv'[e].pc = "stop" /\ rcv'[e].n = rcv[e].n
      BY <1>0, <2>3 DEF Rcv
    <3>2. QED
      BY <1>d, <2>1, <2>3, <3>1 DEF RecvSide, CreditInHand
  <2>4. QED
    BY <1>1, <2>1, <2>2, <2>3
<1>5. CASE RecvTry(e)
  <2>1. rcv[e].pc = "try"
    BY <1>5, Zenon DEF RecvTry
  <2>2. \/ ConsumeFrame(e, "try")
        \/ /\ tp' = tp /\ rcv' = [rcv EXCEPT ![e].pc = "end"]
    BY <1>5, Zenon DEF RecvTry
  <2>3. CASE tp' = tp /\ rcv' = [rcv EXCEPT ![e].pc = "end"]
    <3>1. rcv'[e].pc = "end" /\ rcv'[e].n = rcv[e].n
      BY <1>0, <2>3 DEF Rcv
    <3>2. QED
      BY <1>d, <2>1, <2>3, <3>1 DEF RecvSide, CreditInHand
  <2>4. QED
    BY <1>1, <2>1, <2>2, <2>3
<1>6. CASE RecvEnd(e)
  <2>1. /\ rcv[e].pc = "end" /\ tp' = [tp EXCEPT ![e].pending = 0]
        /\ Flush(e, tp[e].pending, "return", rcv[e].out)
    BY <1>6, Zenon DEF RecvEnd
  <2>2. QED
    BY <1>f, <2>1
<1>7. CASE ReturnCredit(e)
  <2>1. /\ rcv[e].pc = "credit"
        /\ rcv' = [rcv EXCEPT ![e] = [[[rcv[e] EXCEPT !.pc = rcv[e].then]
                                        EXCEPT !.then = "idle"] EXCEPT !.n = 0]]
        /\ \/ tp' = tp \/ tp' = [tp EXCEPT ![e].closed = TRUE]
           \/ \E n : tp' = [tp EXCEPT ![e].creditFree = n]
    BY <1>7, Zenon DEF ReturnCredit
  <2>2. rcv'[e].pc = rcv[e].then /\ rcv'[e].n = 0
    BY <1>0, <2>1 DEF Rcv
  <2>3. tp'[e].pending = tp[e].pending /\ tp'[e].up = tp[e].up
    BY <1>0, <2>1 DEF Tp
  <2>4. QED
    BY <1>d, <2>1, <2>2, <2>3 DEF RecvSide, CreditInHand
<1>8. CASE RecvReturn(e)
  <2>1. /\ rcv[e].pc = "return" /\ tp' = tp
        /\ \E s : \/ rcv' = [rcv EXCEPT ![e] = [[rcv[e] EXCEPT !.pc = "idle"] EXCEPT !.out = <<>>]]
                  \/ rcv' = [rcv EXCEPT ![e] = [[[rcv[e] EXCEPT !.pc = "idle"] EXCEPT !.out = <<>>]
                                                  EXCEPT !.rest = s]]
    BY <1>8, Zenon DEF RecvReturn
  <2>2. rcv'[e].pc = "idle" /\ rcv'[e].n = rcv[e].n
    BY <1>0, <2>1 DEF Rcv
  <2>3. QED
    BY <1>d, <2>1, <2>2 DEF RecvSide, CreditInHand
<1>9. QED
  BY <1>2, <1>3, <1>4, <1>5, <1>6, <1>7, <1>8, Zenon DEF Receiver

(* Every step keeps the receiving half of every end.                       *)
LEMMA RecvSideStep ==
  ASSUME Types, \A e \in Peers : RecvSide(e), [Next]_vars
  PROVE  \A e \in Peers : RecvSide(e)'
<1>s. Typing
  BY DEF Types
<1>1. ASSUME NEW e \in Peers, Moves(e) PROVE \A x \in Peers : RecvSide(x)'
  <2>1. RecvSide(e)'
    BY <1>1, RecvQuiet, ReceiverSide, Zenon DEF Moves
  <2>2. ASSUME NEW x \in Peers, x # e PROVE RecvSide(x)'
    <3>1. Still(x)
      BY <1>s, <1>1, <2>2, OthersStill, Zenon
    <3>2. QED
      BY <3>1 DEF Still, RecvSide, CreditInHand
  <2>3. QED
    BY <2>1, <2>2, Zenon
<1>2. ASSUME NEW e \in Peers, Land(e) PROVE \A x \in Peers : RecvSide(x)'
  <2>1. /\ rcv' = rcv /\ tp' = tp /\ cls' = cls
    BY <1>2, Zenon DEF Land
  <2>2. \A x \in Peers : nic'[x].down = nic[x].down
    BY <1>2, ThePeers DEF Land, Nic, Types, Typing
  <2>3. QED
    BY <2>1, <2>2 DEF RecvSide, CreditInHand
<1>3. CASE UNCHANGED vars
  BY <1>3 DEF vars, RecvSide, CreditInHand
<1>4. QED
  BY <1>1, <1>2, <1>3, NextCases, Zenon DEF Moves

-----------------------------------------------------------------------------
(* The invariant.                                                          *)

(* The invariant implies what the steps above assume.                      *)
LEMMA IInvTypes == IInv => Types
BY Zenon DEF IInv, Types, SendSide, CallOf, RecvSide

(* An empty queue carries nothing.                                         *)
LEMMA EmptyCarriesNothing ==
  ASSUME NEW what PROVE Amount(<<>>, 0, what) = 0
<1>1. Cells(<<>>, 0, what) = {}
  BY DEF Cells
<1>2. QED
  BY <1>1, FS_EmptySet, Zenon DEF Amount

(* Both halves hold initially.                                             *)
LEMMA SidesInit ==
  ASSUME Init, NEW e \in Peers
  PROVE  SendSide(e) /\ RecvSide(e)
<1>1. /\ snd[e].pc = "idle" /\ snd[e].call = 0 /\ snd[e].owed = 0
  BY DEF Init
<1>2. /\ rcv[e].pc = "idle" /\ rcv[e].n = 0
  BY DEF Init
<1>3. plr[e].pc = "off"
  BY DEF Init
<1>4. /\ tp[e].sendFree = Depth /\ tp[e].sendDone = 0
      /\ tp[e].creditFree = CreditSlots
      /\ tp[e].pending = 0
  BY DEF Init
<1>5. /\ nic[e].sq = <<>> /\ nic[e].landed = 0 /\ nic[e].down = FALSE
  BY DEF Init
<1>6. hist[e].stream = <<>> /\ hist[e].promised = 0
  BY DEF Init
<1>7. /\ Queued(e, "data") = 0 /\ Queued(e, "ctl") = 0
      /\ InFlight(e, "last") = 0
  BY <1>5, EmptyCarriesNothing, Zenon DEF Queued, InFlight
<1>8. scene \in Scenes
  BY DEF Init
<1>9. SlotsOf(e)
  <2>1. scene.sqCap \in Nat
    BY <1>8, ScriptType
  <2>2. QED
    BY <1>4, <1>5, <1>7, <2>1, DepthAssumption, TransportAssumption DEF SlotsOf
<1>10. TokensOf(e)
  BY <1>1, <1>3, <1>4, <1>7 DEF TokensOf, Due, Token
<1>11. PromiseOf(e)
  BY <1>6, <1>7 DEF PromiseOf
<1>12. CallOf(e) /\ LandedOfQueued(e)
  <2>1. Script[e] \in Seq(Seq(Nat))
    BY <1>8, ScriptType
  <2>2. QED
    BY <1>1, <1>5, <2>1 DEF CallOf, InCall, LandedOfQueued
<1>13. RecvSide(e)
  BY <1>2, <1>4, <1>5, ThresholdFits, DepthAssumption DEF RecvSide, CreditInHand
<1>14. QED
  BY <1>9, <1>10, <1>11, <1>12, <1>13 DEF SendSide

(* IInv holds in every reachable state.                                    *)
THEOREM InductiveInvariant == Spec => []IInv
<1>1. Init => IInv
  BY TypingInit, SidesInit, Zenon DEF IInv
<1>2. IInv /\ [Next]_vars => IInv'
  BY IInvTypes, TypingStep, SendSideStep, RecvSideStep, Zenon DEF IInv
<1>3. QED
  BY <1>1, <1>2, PTL DEF Spec

(* The direction from s to its peer, as CreditFlow sees it.                *)
Way(s) == INSTANCE CreditFlow WITH
  credits   <- tp[s].credits,      held    <- Held(s),
  lost      <- hist[s].lost,       flight  <- InFlight(s, "data"),
  landed    <- Landed(s),          pending <- Pending(s),
  returning <- Returning(s),       ring    <- nic[Peer(s)].ring,
  ctl       <- Arrived(Peer(s), "ctl"),  side  <- Side(s),
  broken    <- Broken

(* A step of that direction, or none.                                      *)
FlowStep(s) == Way(s)!Next \/ UNCHANGED Way(s)!vars

(* The counters of the sending and of the receiving end of a direction.    *)
SenderStill(s) ==
  /\ tp'[s].credits = tp[s].credits /\ Held(s)' = Held(s)
  /\ hist'[s].lost = hist[s].lost
  /\ InFlight(s, "data")' = InFlight(s, "data")
  /\ Arrived(s, "credit")' = Arrived(s, "credit")

ReceiverStill(s) ==
  /\ Landed(s)' = Landed(s) /\ Pending(s)' = Pending(s)
  /\ InFlight(Peer(s), "credit")' = InFlight(Peer(s), "credit")
  /\ nic'[Peer(s)].ring = nic[Peer(s)].ring
  /\ Arrived(Peer(s), "ctl")' = Arrived(Peer(s), "ctl")
  /\ Side(s)' = Side(s)

-----------------------------------------------------------------------------
(* Each direction implements CreditFlow.                                   *)

(* The counters of a direction are natural numbers.                        *)
LEMMA FlowTypes ==
  ASSUME Types, NEW s \in Peers
  PROVE  /\ tp[s].credits \in Nat /\ Held(s) \in Nat /\ hist[s].lost \in Nat
         /\ InFlight(s, "data") \in Nat /\ Landed(s) \in Nat
         /\ Pending(s) \in Nat
         /\ InFlight(Peer(s), "credit") \in Nat /\ Arrived(s, "credit") \in Nat
         /\ nic[Peer(s)].ring \in Nat /\ Arrived(Peer(s), "ctl") \in Nat
         /\ Returning(s) = InFlight(Peer(s), "credit") + Arrived(s, "credit")
         /\ tp[Peer(s)].pending \in Nat /\ rcv[Peer(s)].n \in Nat
         /\ Arrived(Peer(s), "data") \in Nat /\ Len(tp[Peer(s)].recvQ) \in Nat
         /\ Peer(s) \in Peers
<1>1. /\ rcv \in [Peers -> Rcv(scene.calls)] /\ tp \in [Peers -> Tp]
      /\ nic \in [Peers -> Nic] /\ hist \in [Peers -> Hist]
  BY DEF Types, Typing
<1>2. Peer(s) \in Peers
  BY ThePeers, Zenon
<1>3. /\ tp[s].credits \in Nat /\ tp[Peer(s)].pending \in Nat
      /\ tp[Peer(s)].recvQ \in DataSeq
  BY <1>1, <1>2, TpFields, Zenon
<1>4. hist[s].lost \in Nat /\ rcv[Peer(s)].n \in Nat /\ nic[Peer(s)].ring \in Nat
  BY <1>1, <1>2, HistFields, RcvFields, NicFields, Zenon
<1>5. /\ InFlight(s, "data") \in Nat /\ InFlight(Peer(s), "credit") \in Nat
      /\ Arrived(s, "credit") \in Nat /\ Arrived(Peer(s), "ctl") \in Nat
      /\ Arrived(Peer(s), "data") \in Nat
  BY <1>1, <1>2, QueueAmounts, WhatKinds, Zenon
<1>6. Len(tp[Peer(s)].recvQ) \in Nat
  BY <1>3 DEF DataSeq
<1>7. Held(s) \in Nat
  BY DEF Held
<1>8. Landed(s) \in Nat
  BY <1>5, <1>6 DEF Landed
<1>9. Pending(s) \in Nat
  BY <1>3, <1>4 DEF Pending
<1>10. Returning(s) = InFlight(Peer(s), "credit") + Arrived(s, "credit")
  BY DEF Returning
<1>11. QED
  BY <1>2, <1>3, <1>4, <1>5, <1>6, <1>7, <1>8, <1>9, <1>10, Zenon

(* A step that changes no counter is a step of CreditFlow, a stutter or    *)
(* the failing of the connection.                                          *)
LEMMA QuietStep ==
  ASSUME NEW s, SenderStill(s), ReceiverStill(s), Broken => Broken',
         Pending(s) \in Nat
  PROVE  FlowStep(s)
<1>1. Returning(s)' = Returning(s)
  BY DEF SenderStill, ReceiverStill, Returning
<1>2. Broken' \in BOOLEAN /\ Broken \in BOOLEAN
  BY DEF Broken
<1>3. CASE Broken' = Broken
  BY <1>1, <1>3 DEF FlowStep, SenderStill, ReceiverStill, Way!vars
<1>4. CASE Broken' = TRUE
  <2>1. Pending(s)' \in 0 .. Pending(s)
    BY DEF ReceiverStill
  <2>2. Way(s)!Break
    BY <1>1, <1>4, <2>1 DEF Way!Break, SenderStill, ReceiverStill
  <2>3. QED
    BY <2>2, Zenon DEF FlowStep, Way!Next
<1>5. QED
  BY <1>2, <1>3, <1>4

(* An end that has failed or is being closed remains so.                   *)
LEMMA ClosedStays ==
  ASSUME Typing, NEW e \in Peers, Moves(e)
  PROVE  /\ tp[e].closed => tp'[e].closed
         /\ cls[e] # "open" => cls'[e] # "open"
<1>0. /\ tp \in [Peers -> Tp] /\ snd \in [Peers -> Snd]
      /\ cls \in [Peers -> {"open", "fin", "close", "teardown", "closed"}]
  BY DEF Typing
<1>1. tp[e].closed => tp'[e].closed
  <2>1. CASE SendCall(e) \/ Sender(e)
    <3>1. \/ tp' = tp \/ tp' = [tp EXCEPT ![e].up = TRUE]
          \/ \E n : \/ tp' = [tp EXCEPT ![e].sendDone = n] \/ tp' = [tp EXCEPT ![e].credits = n]
                    \/ tp' = [tp EXCEPT ![e].sendFree = n]
      BY <2>1, Zenon
         DEF SendCall, BringUp, Sender, DrainSendDone, AcquireCredit, PostFrame,
                         WaitToken, SendReturn
    <3>2. QED
      BY <1>0, <3>1 DEF Tp
  <2>2. CASE RecvCall(e) \/ Receiver(e)
    <3>1. \/ tp' = tp \/ tp' = [tp EXCEPT ![e].up = TRUE]
          \/ tp' = [tp EXCEPT ![e].closed = TRUE]
          \/ \E n : \/ tp' = [tp EXCEPT ![e].pending = n] \/ tp' = [tp EXCEPT ![e].creditFree = n]
          \/ ConsumeFrame(e, "drain") \/ ConsumeFrame(e, "try")
      BY <2>2, Zenon
         DEF RecvCall, BringUp, Receiver, RecvDrain, RecvBlock, RecvTry,
         RecvEnd,
                         ReturnCredit, RecvReturn
    <3>2. CASE ConsumeFrame(e, "drain") \/ ConsumeFrame(e, "try")
      <4>1. "drain" \in RecvPcs /\ "try" \in RecvPcs
        BY DEF RecvPcs
      <4>2. tp'[e].closed = tp[e].closed
        BY <3>2, <4>1, ConsumeEffect, Zenon
      <4>3. QED
        BY <4>2
    <3>3. QED
      BY <1>0, <3>1, <3>2 DEF Tp
  <2>3. CASE Poller(e)
    <3>1. \/ tp' = tp \/ tp' = [tp EXCEPT ![e].closed = TRUE]
          \/ tp' = [tp EXCEPT ![e].peerFin = TRUE]
          \/ \E n : \/ tp' = [tp EXCEPT ![e].sendDone = n] \/ tp' = [tp EXCEPT ![e].credits = n]
                    \/ tp' = [tp EXCEPT ![e].sendFree = n]
                    \/ tp' = [tp EXCEPT ![e].creditFree = n]
                    \/ tp' = [tp EXCEPT ![e].recvQ = n]
      BY <2>3, Zenon
         DEF Poller, DispatchSend, FreeSlot, PushToken, DispatchRecv,
         DispatchError,
                         PollLast, PollerExit
    <3>2. QED
      BY <1>0, <3>1 DEF Tp
  <2>4. CASE CloseCall(e) \/ Closer(e)
    <3>1. \/ tp' = tp \/ tp' = [tp EXCEPT ![e].closed = TRUE]
          \/ \E n : tp' = [tp EXCEPT ![e].creditFree = n]
      BY <2>4, Zenon DEF CloseCall, Closer, CloseFin, CloseDone, TearDown
    <3>2. QED
      BY <1>0, <3>1 DEF Tp
  <2>5. QED
    BY <2>1, <2>2, <2>3, <2>4, Zenon DEF Moves
<1>2. cls[e] # "open" => cls'[e] # "open"
  <2>1. \/ cls' = cls \/ cls' = [cls EXCEPT ![e] = "fin"]
        \/ cls' = [cls EXCEPT ![e] = "close"]
        \/ cls' = [cls EXCEPT ![e] = "teardown"]
        \/ cls' = [cls EXCEPT ![e] = "closed"]
    <3>1. CASE CloseCall(e) \/ Closer(e)
      <4>1. CASE CloseCall(e)
        BY <4>1, Zenon DEF CloseCall
      <4>2. CASE Closer(e)
        BY <4>2, Zenon DEF Closer, CloseFin, CloseDone, TearDown
      <4>3. QED
        BY <3>1, <4>1, <4>2
    <3>2. CASE SendCall(e) \/ Sender(e)
      BY <3>2, Zenon
         DEF SendCall, Sender, DrainSendDone, AcquireCredit, PostFrame,
                         WaitToken, SendReturn
    <3>3. CASE RecvCall(e) \/ Receiver(e)
      BY <3>3, Zenon
         DEF RecvCall, Receiver, RecvDrain, RecvBlock, RecvTry, RecvEnd,
                         ReturnCredit, RecvReturn, ConsumeFrame
    <3>4. CASE Poller(e)
      BY <3>4, Zenon
         DEF Poller, DispatchSend, PushToken, DispatchRecv, DispatchError,
                         PollLast, PollerExit
    <3>5. QED
      BY <3>1, <3>2, <3>3, <3>4, Zenon DEF Moves
  <2>2. QED
    BY <1>0, <2>1
<1>3. QED
  BY <1>1, <1>2

(* So does the connection.                                                 *)
LEMMA BrokenStays ==
  ASSUME Typing, NEW e \in Peers, Moves(e)
  PROVE  Broken => Broken'
<1>1. ASSUME NEW x \in Peers, x # e PROVE tp'[x].closed = tp[x].closed /\ cls'[x] = cls[x]
  BY <1>1, OthersStill DEF Still
<1>2. /\ tp[e].closed => tp'[e].closed
      /\ cls[e] # "open" => cls'[e] # "open"
  BY ClosedStays, Zenon
<1>3. QED
  BY <1>1, <1>2 DEF Broken

(* Only closing and failing break a connection.                            *)
LEMMA BrokenSame ==
  ASSUME Typing, NEW e \in Peers, Moves(e), tp'[e].closed = tp[e].closed,
         cls' = cls
  PROVE  Broken' = Broken
<1>1. ASSUME NEW x \in Peers, x # e PROVE tp'[x].closed = tp[x].closed
  BY <1>1, OthersStill DEF Still
<1>2. \A x \in Peers : tp'[x].closed = tp[x].closed
  BY <1>1
<1>3. QED
  BY <1>2 DEF Broken

(* Nothing has arrived and nothing was taken.                              *)
LEMMA InboxSame ==
  ASSUME NEW e, nic'[e].inbox = nic[e].inbox
  PROVE  Arrived(e, "credit")' = Arrived(e, "credit") /\ Arrived(e, "ctl")' = Arrived(e, "ctl")
         /\ Arrived(e, "data")' = Arrived(e, "data")
BY QueuesStay, Zenon

(* Nothing was posted and nothing has landed.                              *)
LEMMA SentSame ==
  ASSUME NEW e, nic'[e].sq = nic[e].sq, nic'[e].landed = nic[e].landed
  PROVE  /\ InFlight(e, "data")' = InFlight(e, "data")
         /\ InFlight(e, "credit")' = InFlight(e, "credit")
BY QueuesStay, Zenon

(* A frame that is posted is in flight.                                    *)
LEMMA SentPosted ==
  ASSUME Types, NEW e \in Peers, NEW fr \in Frames, nic' = Posted(e, fr)
  PROVE  /\ InFlight(e, "data")' = InFlight(e, "data") + Carries(fr, "data")
         /\ InFlight(e, "credit")' = InFlight(e, "credit") + Carries(fr, "credit")
         /\ nic'[e].inbox = nic[e].inbox /\ nic'[e].ring = nic[e].ring
         /\ nic'[e].down = nic[e].down
<1>1. nic \in [Peers -> Nic] /\ LandedOfQueued(e)
  BY DEF Types, Typing
<1>2. /\ InFlight(e, "data")' = InFlight(e, "data") + Carries(fr, "data")
      /\ InFlight(e, "credit")' = InFlight(e, "credit") + Carries(fr, "credit")
  BY <1>1, PostAmounts, WhatKinds, Zenon
<1>3. /\ nic'[e].inbox = nic[e].inbox /\ nic'[e].ring = nic[e].ring
      /\ nic'[e].down = nic[e].down
  BY <1>1 DEF Posted, Nic
<1>4. QED
  BY <1>2, <1>3

(* A step of e leaves the counters of its peer as they are.                *)
LEMMA OtherEnd ==
  ASSUME Typing, NEW e \in Peers, Moves(e)
  PROVE  ReceiverStill(e) /\ SenderStill(Peer(e))
<1>1. Peer(e) \in Peers /\ Peer(e) # e /\ Peer(Peer(e)) = e
  BY ThePeers, Zenon
<1>2. Still(Peer(e))
  BY <1>1, OthersStill, Zenon
<1> DEFINE r == Peer(e)
<1>3. /\ snd'[r] = snd[r] /\ rcv'[r] = rcv[r] /\ tp'[r] = tp[r]
      /\ nic'[r] = nic[r]
      /\ hist'[r] = hist[r]
  BY <1>2, Zenon DEF Still
<1>4. /\ \A what : InFlight(r, what)' = InFlight(r, what)
      /\ \A what : Arrived(r, what)' = Arrived(r, what)
  BY <1>3, QueuesStay, Zenon
<1>5. ReceiverStill(e)
  BY <1>3, <1>4, Zenon DEF ReceiverStill, Landed, Pending, Side
<1>6. SenderStill(r)
  BY <1>3, <1>4, Zenon DEF SenderStill, Held
<1>7. QED
  BY <1>5, <1>6

(* A step of the sender of e is one of the direction from e: Acquire,      *)
(* Post, or, when PostSend refuses the frame, the loss of its credit.      *)
LEMMA StepOfSender ==
  ASSUME Types, NEW e \in Peers, Sender(e), Typing'
  PROVE  FlowStep(e)
<1>0. /\ snd \in [Peers -> Snd] /\ tp \in [Peers -> Tp]
      /\ hist \in [Peers -> Hist]
      /\ nic \in [Peers -> Nic] /\ Typing
  BY DEF Types, Typing
<1>m. Moves(e) /\ (Broken => Broken') /\ Pending(e) \in Nat
  BY <1>0, BrokenStays, FlowTypes, Zenon DEF Moves
<1>r. ReceiverStill(e)
  BY <1>0, <1>m, OtherEnd, Zenon
<1>t. /\ tp[e].credits \in Nat /\ hist[e].lost \in Nat
      /\ InFlight(e, "data") \in Nat
      /\ snd[e].pc \in SendPcs
  BY <1>0, FlowTypes, SndFields, Zenon
<1>1. CASE DrainSendDone(e) \/ WaitToken(e) \/ SendReturn(e)
  <2>1. /\ nic' = nic /\ (snd[e].pc = "drain" \/ snd[e].pc = "wait")
        /\ hist' = hist \/ hist' = [hist EXCEPT ![e].promised = Len(hist[e].stream)]
        /\ tp' = tp \/ \E n : tp' = [tp EXCEPT ![e].sendDone = n]
        /\ \/ snd' = [snd EXCEPT ![e] = [Collected(e, tp[e].sendDone) EXCEPT !.pc = "acquire"]]
           \/ snd' = [snd EXCEPT ![e] = Collected(e, 1)]
           \/ snd' = [snd EXCEPT ![e] = [[snd[e] EXCEPT !.owed = 0] EXCEPT !.err = TRUE]]
           \/ snd' = [snd EXCEPT ![e].pc = "idle"]
    BY <1>1, Zenon DEF DrainSendDone, WaitToken, SendReturn
  <2>2. snd'[e].pc # "post"
    <3>1. CASE snd' = [snd EXCEPT ![e] = [Collected(e, tp[e].sendDone) EXCEPT !.pc = "acquire"]]
      BY <1>0, <3>1 DEF Snd, Collected
    <3>2. CASE snd' = [snd EXCEPT ![e] = Collected(e, 1)]
      <4>1. snd'[e].pc = snd[e].pc
        BY <1>0, <3>2 DEF Snd, Collected
      <4>2. QED
        BY <2>1, <4>1
    <3>3. CASE snd' = [snd EXCEPT ![e] = [[snd[e] EXCEPT !.owed = 0] EXCEPT !.err = TRUE]]
      <4>1. snd'[e].pc = snd[e].pc
        BY <1>0, <3>3 DEF Snd
      <4>2. QED
        BY <2>1, <4>1
    <3>4. CASE snd' = [snd EXCEPT ![e].pc = "idle"]
      BY <1>0, <3>4 DEF Snd
    <3>5. QED
      BY <2>1, <3>1, <3>2, <3>3, <3>4, Zenon
  <2>3. tp'[e].credits = tp[e].credits /\ hist'[e].lost = hist[e].lost
    BY <1>0, <2>1 DEF Tp, Hist
  <2>4. SenderStill(e)
    BY <2>1, <2>2, <2>3, SentSame, InboxSame DEF SenderStill, Held
  <2>5. QED
    BY <1>m, <1>r, <2>4, QuietStep, Zenon
<1>2. CASE AcquireCredit(e)
  <2>1. /\ nic' = nic /\ hist' = hist /\ cls' = cls /\ snd[e].pc = "acquire"
        /\ \/ tp' = tp /\ SendFails(e)
           \/ /\ tp[e].credits > 0 /\ tp' = [tp EXCEPT ![e].credits = @ - 1]
              /\ snd' = [snd EXCEPT ![e].pc = "post"]
    BY <1>2, Zenon DEF AcquireCredit
  <2>2. CASE tp' = tp /\ SendFails(e)
    <3>1. snd'[e].pc = "wait"
      BY <1>0, <2>2 DEF SendFails, Snd
    <3>2. SenderStill(e)
      BY <2>1, <2>2, <3>1, SentSame, InboxSame DEF SenderStill, Held
    <3>3. QED
      BY <1>m, <1>r, <3>2, QuietStep, Zenon
  <2>3. CASE /\ tp[e].credits > 0 /\ tp' = [tp EXCEPT ![e].credits = @ - 1]
             /\ snd' = [snd EXCEPT ![e].pc = "post"]
    <3>1. /\ tp'[e].credits = tp[e].credits - 1 /\ tp'[e].closed = tp[e].closed
          /\ snd'[e].pc = "post"
      BY <1>0, <2>3 DEF Tp, Snd
    <3>2. Held(e) = 0 /\ Held(e)' = 1
      BY <2>1, <3>1 DEF Held
    <3>3. /\ InFlight(e, "data")' = InFlight(e, "data")
          /\ Arrived(e, "credit")' = Arrived(e, "credit")
          /\ hist'[e].lost = hist[e].lost
      BY <2>1, SentSame, InboxSame
    <3>4. Broken' = Broken
      BY <1>0, <1>m, <2>1, <3>1, BrokenSame, Zenon
    <3>5. Returning(e)' = Returning(e)
      BY <1>r, <3>3 DEF ReceiverStill, Returning
    <3>6. Way(e)!Acquire
      BY <1>r, <2>3, <3>1, <3>2, <3>3, <3>4, <3>5 DEF Way!Acquire, ReceiverStill
    <3>7. QED
      BY <3>6, Zenon DEF FlowStep, Way!Next
  <2>4. QED
    BY <2>1, <2>2, <2>3, Zenon
<1>3. CASE PostFrame(e)
  <2> DEFINE fr == DataFrame(e, snd[e].call, snd[e].k, snd[e].f)
  <2>1. /\ cls' = cls /\ snd[e].pc = "post"
        /\ \/ /\ tp' = [tp EXCEPT ![e].sendFree = @ - 1]
              /\ nic' = Posted(e, fr) /\ snd' = [snd EXCEPT ![e] = NextFrame(e)]
              /\ hist' = hist \/ \E st : hist' = [hist EXCEPT ![e].stream = st]
           \/ /\ SendFails(e) /\ nic' = nic
              /\ tp' = tp \/ tp' = [tp EXCEPT ![e].sendFree = @ - 1]
              /\ hist' = [hist EXCEPT ![e].lost = @ + 1] \/ (tp[e].closed /\ hist' = hist)
    BY <1>3, Zenon DEF PostFrame
  <2>h. Held(e) = 1
    BY <2>1 DEF Held
  <2>2. CASE /\ tp' = [tp EXCEPT ![e].sendFree = @ - 1]
             /\ nic' = Posted(e, fr) /\ snd' = [snd EXCEPT ![e] = NextFrame(e)]
             /\ hist' = hist \/ \E st : hist' = [hist EXCEPT ![e].stream = st]
    <3>1. fr \in DataFrames /\ fr \in Frames
      BY <1>3, <2>1, DataPosted, Zenon
    <3> HIDE DEF fr
    <3>2. /\ InFlight(e, "data")' = InFlight(e, "data") + 1
          /\ Arrived(e, "credit")' = Arrived(e, "credit")
      <4>1. Carries(fr, "data") = 1
        BY <3>1, Carried, Zenon
      <4>2. QED
        BY <2>2, <3>1, <4>1, SentPosted, InboxSame, Zenon
    <3>3. /\ tp'[e].credits = tp[e].credits /\ tp'[e].closed = tp[e].closed
          /\ hist'[e].lost = hist[e].lost
      <4>1. tp'[e].credits = tp[e].credits /\ tp'[e].closed = tp[e].closed
        BY <1>0, <2>2 DEF Tp
      <4>2. hist'[e].lost = hist[e].lost
        <5>1. hist' = hist \/ \E st : hist' = [hist EXCEPT ![e].stream = st]
          BY <2>2
        <5>2. QED
          BY <1>0, <5>1 DEF Hist
      <4>3. QED
        BY <4>1, <4>2
    <3>4. snd'[e].pc # "post"
      <4>1. \E o, f, k : \E pc \in {"wait", "drain"} :
              NextFrame(e) = [[[[snd[e] EXCEPT !.owed = o] EXCEPT !.f = f]
                               EXCEPT !.k = k] EXCEPT !.pc = pc]
        BY Zenon DEF NextFrame
      <4>2. PICK o, f, k, pc :
              /\ pc \in {"wait", "drain"}
              /\ NextFrame(e) = [[[[snd[e] EXCEPT !.owed = o] EXCEPT !.f = f]
                                   EXCEPT !.k = k] EXCEPT !.pc = pc]
        BY <4>1, Zenon
      <4>3. snd' = [snd EXCEPT ![e] = [[[[snd[e] EXCEPT !.owed = o] EXCEPT !.f = f]
                                          EXCEPT !.k = k] EXCEPT !.pc = pc]]
        BY <2>2, <4>2
      <4>4. QED
        BY <1>0, <4>2, <4>3 DEF Snd
    <3>5. Held(e)' = 0
      BY <3>4 DEF Held
    <3>6. Broken' = Broken
      BY <1>0, <1>m, <2>1, <3>3, BrokenSame, Zenon
    <3>7. Returning(e)' = Returning(e)
      BY <1>r, <3>2 DEF ReceiverStill, Returning
    <3>8. Way(e)!Post
      BY <1>r, <2>h, <3>2, <3>3, <3>5, <3>6, <3>7 DEF Way!Post, ReceiverStill
    <3>9. QED
      BY <3>8, Zenon DEF FlowStep, Way!Next
  <2>3. CASE /\ SendFails(e) /\ nic' = nic
             /\ tp' = tp \/ tp' = [tp EXCEPT ![e].sendFree = @ - 1]
             /\ hist' = [hist EXCEPT ![e].lost = @ + 1] \/ (tp[e].closed /\ hist' = hist)
    <3>0. tp'[e].credits = tp[e].credits /\ \A x \in Peers : tp'[x].closed = tp[x].closed
      BY <1>0, <2>3 DEF Tp
    <3>1. snd'[e].pc = "wait"
      BY <1>0, <2>3 DEF SendFails, Snd
    <3>2. Held(e)' = 0
      BY <3>1 DEF Held
    <3>3. /\ InFlight(e, "data")' = InFlight(e, "data")
          /\ Arrived(e, "credit")' = Arrived(e, "credit")
      BY <2>3, SentSame, InboxSame
    <3>4. Broken' = Broken /\ Returning(e)' = Returning(e)
      <4>1. Broken' = Broken
        BY <2>1, <2>3, <3>0 DEF Broken
      <4>2. QED
        BY <1>r, <3>3, <4>1 DEF ReceiverStill, Returning
    <3>5. CASE hist' = [hist EXCEPT ![e].lost = @ + 1]
      <4>1. hist'[e].lost = hist[e].lost + 1
        BY <1>0, <3>5 DEF Hist
      <4>2. Way(e)!PostFails
        BY <1>r, <2>h, <2>3, <3>0, <3>2, <3>3, <3>4, <4>1
           DEF Way!PostFails, ReceiverStill
      <4>3. QED
        BY <4>2, Zenon DEF FlowStep, Way!Next
    <3>6. CASE tp[e].closed /\ hist' = hist
      <4>1. Broken
        BY <3>6 DEF Broken
      <4>2. Way(e)!Lose
        BY <1>r, <2>h, <2>3, <3>0, <3>2, <3>3, <3>4, <3>6, <4>1
           DEF Way!Lose, ReceiverStill
      <4>3. QED
        BY <4>2, Zenon DEF FlowStep, Way!Next
    <3>7. QED
      BY <2>3, <3>5, <3>6
  <2>4. QED
    BY <2>1, <2>2, <2>3, Zenon
<1>4. QED
  BY <1>1, <1>2, <1>3, Zenon DEF Sender

(* The sender has not moved.                                               *)
LEMMA HeldSame == ASSUME NEW e, snd' = snd PROVE Held(e)' = Held(e)
BY DEF Held

(* No other goroutine of e touches the counters of the sending end, but    *)
(* for the poller taking a credit frame.                                   *)
LEMMA SenderQuiet ==
  ASSUME Types, NEW e \in Peers,
         SendCall(e) \/ RecvCall(e) \/ Receiver(e) \/ CloseCall(e) \/ Closer(e)
         \/ DispatchSend(e) \/ PushToken(e) \/ DispatchError(e) \/ PollLast(e)
         \/ PollerExit(e)
  PROVE  SenderStill(e)
<1>0. /\ snd \in [Peers -> Snd] /\ tp \in [Peers -> Tp]
      /\ hist \in [Peers -> Hist]
      /\ nic \in [Peers -> Nic] /\ Typing /\ LandedOfQueued(e)
      /\ CreditInHand(e)
  BY DEF Types, Typing
<1>c. ASSUME NEW more \in RecvPcs, ConsumeFrame(e, more) PROVE SenderStill(e)
  <2>1. /\ snd' = snd /\ hist' = hist /\ tp'[e].credits = tp[e].credits
        /\ nic'[e].sq = nic[e].sq /\ nic'[e].landed = nic[e].landed
        /\ nic'[e].inbox = nic[e].inbox
    BY <1>0, <1>c, ConsumeEffect, Zenon
  <2>2. QED
    BY <2>1, HeldSame, SentSame, InboxSame DEF SenderStill
<1>p. ASSUME NEW fr \in Frames, Carries(fr, "data") = 0, nic' = Posted(e, fr),
             snd' = snd, hist' = hist, tp' = [tp EXCEPT ![e].creditFree = @ - 1]
      PROVE  SenderStill(e)
  <2>1. /\ InFlight(e, "data")' = InFlight(e, "data") + Carries(fr, "data")
        /\ nic'[e].inbox = nic[e].inbox
    BY <1>p, SentPosted, Zenon
  <2>2. InFlight(e, "data")' = InFlight(e, "data")
    BY <1>p, <2>1, FlowTypes
  <2>3. tp'[e].credits = tp[e].credits
    BY <1>0, <1>p DEF Tp
  <2>4. QED
    BY <1>p, <2>1, <2>2, <2>3, HeldSame, InboxSame DEF SenderStill
<1>n. ASSUME snd' = snd \/ snd' = [snd EXCEPT ![e].call = snd[e].call + 1]
             \/ (snd[e].pc = "idle" /\ \E s : snd' = [snd EXCEPT ![e] = s] /\ s.pc = "drain"),
             hist'[e].lost = hist[e].lost, tp'[e].credits = tp[e].credits,
             nic'[e].sq = nic[e].sq, nic'[e].landed = nic[e].landed,
             nic'[e].inbox = nic[e].inbox
      PROVE  SenderStill(e)
  <2>1. Held(e)' = Held(e)
    <3>1. CASE snd' = snd
      BY <3>1, HeldSame
    <3>2. CASE snd' = [snd EXCEPT ![e].call = snd[e].call + 1]
      BY <1>0, <3>2 DEF Held, Snd
    <3>3. CASE snd[e].pc = "idle" /\ \E s : snd' = [snd EXCEPT ![e] = s] /\ s.pc = "drain"
      BY <1>0, <3>3 DEF Held
    <3>4. QED
      BY <1>n, <3>1, <3>2, <3>3
  <2>2. QED
    BY <1>n, <2>1, SentSame, InboxSame DEF SenderStill
<1>1. CASE SendCall(e) \/ RecvCall(e)
  <2>1. /\ \/ snd' = snd \/ snd' = [snd EXCEPT ![e].call = snd[e].call + 1]
           \/ /\ snd[e].pc = "idle"
              /\ snd' = [snd EXCEPT ![e] = [pc |-> "drain", call |-> snd[e].call + 1, k |-> 1,
                                             f |-> 1, owed |-> 0, err |-> FALSE]]
        /\ hist' = hist /\ tp' = [tp EXCEPT ![e].up = TRUE]
        /\ nic' = nic \/ nic' = [nic EXCEPT ![e].ring = Depth]
    <3>1. CASE SendCall(e)
      BY <3>1, Zenon DEF SendCall, BringUp
    <3>2. CASE RecvCall(e)
      BY <3>2, Zenon DEF RecvCall, BringUp
    <3>3. QED
      BY <1>1, <3>1, <3>2, Zenon
  <2>2. snd' = snd \/ snd' = [snd EXCEPT ![e].call = snd[e].call + 1]
             \/ (snd[e].pc = "idle" /\ \E s : snd' = [snd EXCEPT ![e] = s] /\ s.pc = "drain")
    BY <2>1
  <2>3. tp'[e].credits = tp[e].credits
    BY <1>0, <2>1 DEF Tp
  <2>4. /\ nic'[e].sq = nic[e].sq /\ nic'[e].landed = nic[e].landed
        /\ nic'[e].inbox = nic[e].inbox
    BY <1>0, <2>1 DEF Nic
  <2>5. QED
    BY <1>n, <2>1, <2>2, <2>3, <2>4, Zenon
<1>2. CASE Receiver(e)
  <2>0. "drain" \in RecvPcs /\ "try" \in RecvPcs
    BY DEF RecvPcs
  <2>1. \/ ConsumeFrame(e, "drain") \/ ConsumeFrame(e, "try") \/ ReturnCredit(e)
        \/ /\ snd' = snd /\ nic' = nic
           /\ \/ tp' = tp \/ tp' = [tp EXCEPT ![e].pending = 0]
           /\ \/ hist' = hist \/ hist' = [hist EXCEPT ![e].eof = TRUE]
              \/ \E g : hist' = [hist EXCEPT ![e].got = g]
              \/ \E g, r : hist' = [hist EXCEPT ![e] = [[hist[e] EXCEPT !.got = g] EXCEPT !.read = r]]
    <3>1. CASE RecvReturn(e)
      <4>1. /\ snd' = snd /\ nic' = nic /\ tp' = tp
            /\ \/ \E g : hist' = [hist EXCEPT ![e].got = g]
               \/ \E g, r : hist' = [hist EXCEPT ![e] = [[hist[e] EXCEPT !.got = g] EXCEPT !.read = r]]
        BY <3>1, ZenonT(30) DEF RecvReturn
      <4>2. QED
        BY <4>1, Zenon
    <3>2. CASE RecvDrain(e) \/ RecvEnd(e)
      BY <3>2, Zenon DEF RecvDrain, RecvEnd
    <3>3. CASE RecvBlock(e) \/ RecvTry(e)
      BY <3>3, Zenon DEF RecvBlock, RecvTry
    <3>4. QED
      BY <1>2, <3>1, <3>2, <3>3, Zenon DEF Receiver
  <2>2. CASE ReturnCredit(e)
    <3>1. /\ snd' = snd /\ hist' = hist /\ rcv[e].pc = "credit"
          /\ \/ /\ tp' = [tp EXCEPT ![e].creditFree = @ - 1]
                /\ nic' = Posted(e, CreditFrame(rcv[e].n))
             \/ nic' = nic /\ (tp' = tp \/ tp' = [tp EXCEPT ![e].closed = TRUE])
      BY <2>2, Zenon DEF ReturnCredit
    <3>2. rcv[e].n \in 1 .. Depth
      BY <1>0, <3>1 DEF CreditInHand
    <3>3. CreditFrame(rcv[e].n) \in Frames /\ Carries(CreditFrame(rcv[e].n), "data") = 0
      BY <3>2, ControlFrames, Carried, Zenon
    <3>4. CASE nic' = nic /\ (tp' = tp \/ tp' = [tp EXCEPT ![e].closed = TRUE])
      <4>1. tp'[e].credits = tp[e].credits
        BY <1>0, <3>4 DEF Tp
      <4>2. QED
        BY <1>n, <3>1, <3>4, <4>1, Zenon
    <3>5. QED
      BY <1>p, <3>1, <3>3, <3>4, Zenon
  <2>3. CASE /\ snd' = snd /\ nic' = nic
             /\ \/ tp' = tp \/ tp' = [tp EXCEPT ![e].pending = 0]
             /\ \/ hist' = hist \/ hist' = [hist EXCEPT ![e].eof = TRUE]
                \/ \E g : hist' = [hist EXCEPT ![e].got = g]
                \/ \E g, r : hist' = [hist EXCEPT ![e] = [[hist[e] EXCEPT !.got = g] EXCEPT !.read = r]]
    <3>1. tp'[e].credits = tp[e].credits
      BY <1>0, <2>3 DEF Tp
    <3>2. hist'[e].lost = hist[e].lost
      BY <1>0, <2>3 DEF Hist
    <3>3. QED
      BY <1>n, <2>3, <3>1, <3>2, Zenon
  <2>4. QED
    BY <1>c, <2>0, <2>1, <2>2, <2>3, Zenon
<1>3. CASE CloseCall(e) \/ Closer(e) \/ DispatchError(e) \/ PollLast(e) \/ PollerExit(e) \/ PushToken(e)
  <2>1. /\ snd' = snd /\ hist' = hist
        /\ \/ /\ tp' = [tp EXCEPT ![e].creditFree = @ - 1] /\ nic' = Posted(e, FinFrame)
           \/ /\ nic' = nic \/ nic' = [nic EXCEPT ![e].down = TRUE]
              /\ tp' = tp \/ tp' = [tp EXCEPT ![e].closed = TRUE]
                 \/ tp' = [tp EXCEPT ![e].creditFree = @ - 1]
                 \/ tp' = [tp EXCEPT ![e].sendDone = @ + 1]
    <3>1. CASE CloseFin(e)
      BY <3>1, Zenon DEF CloseFin
    <3>2. CASE CloseCall(e) \/ CloseDone(e) \/ TearDown(e)
      BY <3>2, Zenon DEF CloseCall, CloseDone, TearDown
    <3>3. CASE DispatchError(e) \/ PollLast(e) \/ PollerExit(e) \/ PushToken(e)
      BY <3>3, Zenon DEF DispatchError, PollLast, PollerExit, PushToken
    <3>4. QED
      BY <1>3, <3>1, <3>2, <3>3, Zenon DEF Closer
  <2>2. CASE tp' = [tp EXCEPT ![e].creditFree = @ - 1] /\ nic' = Posted(e, FinFrame)
    <3>1. FinFrame \in Frames /\ Carries(FinFrame, "data") = 0
      BY ControlFrames, Carried, Zenon
    <3>2. QED
      BY <1>p, <2>1, <2>2, <3>1, Zenon
  <2>3. CASE /\ nic' = nic \/ nic' = [nic EXCEPT ![e].down = TRUE]
             /\ tp' = tp \/ tp' = [tp EXCEPT ![e].closed = TRUE]
                 \/ tp' = [tp EXCEPT ![e].creditFree = @ - 1]
                 \/ tp' = [tp EXCEPT ![e].sendDone = @ + 1]
    <3>1. tp'[e].credits = tp[e].credits
      BY <1>0, <2>3 DEF Tp
    <3>2. /\ nic'[e].sq = nic[e].sq /\ nic'[e].landed = nic[e].landed
          /\ nic'[e].inbox = nic[e].inbox
      BY <1>0, <2>3 DEF Nic
    <3>3. QED
      BY <1>n, <2>1, <3>1, <3>2, Zenon
  <2>4. QED
    BY <2>1, <2>2, <2>3, Zenon
<1>4. CASE DispatchSend(e)
  <2>1. /\ snd' = snd /\ hist' = hist /\ nic[e].landed > 0
        /\ nic'[e].sq = Tail(nic[e].sq) /\ nic'[e].landed = nic[e].landed - 1
        /\ nic'[e].inbox = nic[e].inbox
        /\ \/ tp' = tp \/ tp' = [tp EXCEPT ![e].sendFree = @ + 1]
           \/ tp' = [tp EXCEPT ![e].creditFree = @ + 1]
    BY <1>0, <1>4, DispatchSendEffect, Zenon
  <2>2. InFlight(e, "data")' = InFlight(e, "data")
    BY <1>0, <2>1, SendAmounts, WhatKinds, Zenon
  <2>3. tp'[e].credits = tp[e].credits
    BY <1>0, <2>1 DEF Tp
  <2>4. QED
    BY <2>1, <2>2, <2>3, HeldSame, InboxSame DEF SenderStill
<1>5. QED
  BY <1>1, <1>2, <1>3, <1>4

(* Every step of e is a step of the direction from e; the poller's taking  *)
(* a credit frame is the return of those credits.                          *)
LEMMA StepOfSendingEnd ==
  ASSUME Types, NEW e \in Peers, Moves(e), Typing'
  PROVE  FlowStep(e)
<1>0. /\ tp \in [Peers -> Tp] /\ nic \in [Peers -> Nic]
      /\ nic' \in [Peers -> Nic] /\ Typing
  BY DEF Types, Typing
<1>m. (Broken => Broken') /\ Pending(e) \in Nat
  BY <1>0, BrokenStays, FlowTypes, Zenon
<1>r. ReceiverStill(e)
  BY <1>0, OtherEnd, Zenon
<1>1. CASE Sender(e)
  BY <1>1, StepOfSender, Zenon
<1>2. CASE SendCall(e) \/ RecvCall(e) \/ Receiver(e) \/ CloseCall(e) \/ Closer(e)
         \/ DispatchSend(e) \/ PushToken(e) \/ DispatchError(e) \/ PollLast(e)
         \/ PollerExit(e)
  <2>1. SenderStill(e)
    BY <1>2, SenderQuiet, Zenon
  <2>2. QED
    BY <1>m, <1>r, <2>1, QuietStep, Zenon
<1>3. CASE DispatchRecv(e)
  <2> DEFINE fr == Head(nic[e].inbox)
  <2>1. /\ snd' = snd /\ cls' = cls /\ hist' = hist
        /\ nic[e].inbox # <<>> /\ nic'[e].inbox = Tail(nic[e].inbox)
        /\ nic'[e].sq = nic[e].sq /\ nic'[e].landed = nic[e].landed
        /\ \/ /\ fr.kind = "credit" /\ tp' = [tp EXCEPT ![e].credits = @ + fr.n]
           \/ /\ fr.kind # "credit"
              /\ tp' = tp \/ tp' = [tp EXCEPT ![e].peerFin = TRUE]
                 \/ \E s : tp' = [tp EXCEPT ![e].recvQ = s]
    BY <1>0, <1>3, DispatchRecvEffect, Zenon
  <2>2. /\ fr \in Frames
        /\ Arrived(e, "credit") = Arrived(e, "credit")' + Carries(fr, "credit")
    BY <1>0, <2>1, RecvAmounts, WhatKinds, Zenon
  <2>3. Arrived(e, "credit")' \in Nat
    BY <1>0, QueueAmountsNext, WhatKinds, Zenon
  <2>4. /\ Held(e)' = Held(e) /\ hist'[e].lost = hist[e].lost
        /\ InFlight(e, "data")' = InFlight(e, "data")
    BY <2>1, HeldSame, SentSame
  <2> HIDE DEF fr
  <2>5. CASE /\ fr.kind # "credit"
             /\ tp' = tp \/ tp' = [tp EXCEPT ![e].peerFin = TRUE]
                 \/ \E s : tp' = [tp EXCEPT ![e].recvQ = s]
    <3>1. Carries(fr, "credit") = 0
      BY <2>2, <2>5, FrameCarries
    <3>2. Arrived(e, "credit")' = Arrived(e, "credit")
      BY <2>2, <2>3, <3>1
    <3>3. tp'[e].credits = tp[e].credits
      BY <1>0, <2>5 DEF Tp
    <3>4. SenderStill(e)
      BY <2>4, <3>2, <3>3, Zenon DEF SenderStill
    <3>5. QED
      BY <1>m, <1>r, <3>4, QuietStep, Zenon
  <2>6. CASE fr.kind = "credit" /\ tp' = [tp EXCEPT ![e].credits = @ + fr.n]
    <3>1. Carries(fr, "credit") = fr.n /\ fr.n \in 1 .. Depth
      BY <2>2, <2>6, FrameCarries
    <3>2. tp'[e].credits = tp[e].credits + fr.n /\ tp'[e].closed = tp[e].closed
      BY <1>0, <2>6 DEF Tp
    <3>3. Broken' = Broken
      BY <1>0, <2>1, <3>2, BrokenSame, Zenon
    <3>4. /\ Returning(e) = InFlight(Peer(e), "credit") + Arrived(e, "credit")
          /\ Returning(e)' = InFlight(Peer(e), "credit") + Arrived(e, "credit")'
          /\ InFlight(Peer(e), "credit") \in Nat
      BY <1>r, FlowTypes DEF Returning, ReceiverStill
    <3>5. fr.n \in 1 .. Returning(e) /\ Returning(e)' = Returning(e) - fr.n
      BY <2>2, <2>3, <3>1, <3>4, DepthAssumption
    <3>6. Way(e)!Release(fr.n)
      BY <1>r, <2>4, <3>2, <3>3, <3>5 DEF Way!Release, ReceiverStill
    <3>7. QED
      BY <3>1, <3>6, Zenon DEF FlowStep, Way!Next
  <2>7. QED
    BY <2>1, <2>5, <2>6, Zenon DEF fr
<1>4. QED
  BY <1>1, <1>2, <1>3, Zenon DEF Moves, Poller

(* The counters of e as the receiving end of the direction towards it.     *)
EndStill(e) ==
  /\ Arrived(e, "data")' + Len(tp'[e].recvQ) = Arrived(e, "data") + Len(tp[e].recvQ)
  /\ tp'[e].pending + rcv'[e].n = tp[e].pending + rcv[e].n
  /\ InFlight(e, "credit")' = InFlight(e, "credit")
  /\ nic'[e].ring = nic[e].ring /\ Arrived(e, "ctl")' = Arrived(e, "ctl")
  /\ nic'[e].down = nic[e].down /\ (nic[e].down \/ tp'[e].up = tp[e].up)

(* In terms of that direction.                                             *)
LEMMA EndStays ==
  ASSUME NEW e \in Peers, EndStill(e)
  PROVE  ReceiverStill(Peer(e))
<1>1. Peer(Peer(e)) = e
  BY ThePeers, Zenon
<1>2. Side(Peer(e))' = Side(Peer(e))
  BY <1>1 DEF EndStill, Side
<1>3. QED
  BY <1>1, <1>2 DEF EndStill, ReceiverStill, Landed, Pending

(* The steps of e that leave them alone.                                   *)
LEMMA EndQuiet ==
  ASSUME Types, NEW e \in Peers,
         \/ Sender(e) \/ (RecvDrain(e) /\ tp[e].recvQ = <<>>) \/ RecvEnd(e)
         \/ RecvReturn(e) \/ ((RecvBlock(e) \/ RecvTry(e)) /\ tp' = tp)
         \/ CloseCall(e) \/ CloseFin(e) \/ CloseDone(e)
         \/ DispatchSend(e) \/ PushToken(e) \/ DispatchError(e) \/ PollLast(e)
         \/ PollerExit(e)
  PROVE  EndStill(e)
<1>0. /\ rcv \in [Peers -> Rcv(scene.calls)] /\ tp \in [Peers -> Tp]
      /\ nic \in [Peers -> Nic] /\ Typing /\ LandedOfQueued(e)
      /\ CreditInHand(e)
  BY DEF Types, Typing
<1>i. /\ InFlight(e, "credit") \in Nat /\ Arrived(e, "data") \in Nat
      /\ tp[e].pending \in Nat /\ rcv[e].n \in Nat /\ Len(tp[e].recvQ) \in Nat
  <2>1. InFlight(e, "credit") \in Nat /\ Arrived(e, "data") \in Nat
    BY <1>0, QueueAmounts, WhatKinds, Zenon
  <2>2. tp[e].pending \in Nat /\ tp[e].recvQ \in DataSeq /\ rcv[e].n \in Nat
    BY <1>0, TpFields, RcvFields, Zenon
  <2>3. QED
    BY <2>1, <2>2 DEF DataSeq
<1>p. ASSUME NEW fr \in Frames, Carries(fr, "credit") = 0, nic' = Posted(e, fr),
             rcv' = rcv, \E n : tp' = [tp EXCEPT ![e].creditFree = n]
                                \/ tp' = [tp EXCEPT ![e].sendFree = n]
      PROVE  EndStill(e)
  <2>1. /\ InFlight(e, "credit")' = InFlight(e, "credit") + Carries(fr, "credit")
        /\ nic'[e].inbox = nic[e].inbox /\ nic'[e].ring = nic[e].ring
        /\ nic'[e].down = nic[e].down
    BY <1>p, SentPosted, Zenon
  <2>2. InFlight(e, "credit")' = InFlight(e, "credit")
    BY <1>p, <1>i, <2>1
  <2>3. tp'[e].pending = tp[e].pending /\ tp'[e].recvQ = tp[e].recvQ /\ tp'[e].up = tp[e].up
    BY <1>0, <1>p DEF Tp
  <2>4. QED
    BY <1>p, <2>1, <2>2, <2>3, InboxSame DEF EndStill
<1>n. ASSUME tp'[e].pending + rcv'[e].n = tp[e].pending + rcv[e].n,
             tp'[e].recvQ = tp[e].recvQ, tp'[e].up = tp[e].up,
             nic'[e] = nic[e]
      PROVE  EndStill(e)
  BY <1>n, SentSame, InboxSame DEF EndStill
<1>r. ASSUME rcv'[e].n = rcv[e].n, nic' = nic,
             \/ tp' = tp \/ tp' = [tp EXCEPT ![e].closed = TRUE]
             \/ \E n : \/ tp' = [tp EXCEPT ![e].creditFree = n]
                       \/ tp' = [tp EXCEPT ![e].sendFree = n]
                       \/ tp' = [tp EXCEPT ![e].sendDone = n]
                       \/ tp' = [tp EXCEPT ![e].credits = n]
      PROVE  EndStill(e)
  <2>1. tp'[e].pending = tp[e].pending /\ tp'[e].recvQ = tp[e].recvQ /\ tp'[e].up = tp[e].up
    BY <1>0, <1>r DEF Tp
  <2>2. QED
    BY <1>r, <1>n, <2>1
<1>1. CASE Sender(e)
  <2>1. CASE PostFrame(e)
    <3> DEFINE fr == DataFrame(e, snd[e].call, snd[e].k, snd[e].f)
    <3>1. /\ rcv' = rcv /\ snd[e].pc = "post"
          /\ \/ nic' = Posted(e, fr) /\ \E n : tp' = [tp EXCEPT ![e].sendFree = n]
             \/ /\ nic' = nic
                /\ tp' = tp \/ \E n : tp' = [tp EXCEPT ![e].sendFree = n]
      BY <2>1, Zenon DEF PostFrame
    <3>2. fr \in Frames /\ Carries(fr, "credit") = 0
      BY <2>1, <3>1, DataPosted, Carried, Zenon
    <3> HIDE DEF fr
    <3>3. CASE nic' = Posted(e, fr) /\ \E n : tp' = [tp EXCEPT ![e].sendFree = n]
      BY <1>p, <3>1, <3>2, <3>3, Zenon
    <3>4. QED
      BY <1>r, <3>1, <3>3, Zenon
  <2>2. CASE DrainSendDone(e) \/ AcquireCredit(e) \/ WaitToken(e) \/ SendReturn(e)
    <3>1. /\ rcv' = rcv /\ nic' = nic
          /\ tp' = tp \/ \E n : \/ tp' = [tp EXCEPT ![e].sendDone = n]
                                \/ tp' = [tp EXCEPT ![e].credits = n]
      BY <2>2, Zenon DEF DrainSendDone, AcquireCredit, WaitToken, SendReturn
    <3>2. QED
      BY <1>r, <3>1, Zenon
  <2>3. QED
    BY <1>1, <2>1, <2>2, Zenon DEF Sender
<1>2. CASE (RecvDrain(e) /\ tp[e].recvQ = <<>>) \/ RecvEnd(e)
  <2>1. /\ nic' = nic /\ tp' = [tp EXCEPT ![e].pending = 0]
        /\ rcv[e].pc = "drain" \/ rcv[e].pc = "end"
        /\ \E next \in {"block", "return"} : Flush(e, tp[e].pending, next, rcv[e].out)
    <3>1. CASE RecvDrain(e) /\ tp[e].recvQ = <<>>
      BY <3>1, Zenon DEF RecvDrain, ConsumeFrame
    <3>2. CASE RecvEnd(e)
      BY <3>2, Zenon DEF RecvEnd
    <3>3. QED
      BY <1>2, <3>1, <3>2
  <2>2. PICK next \in {"block", "return"} : Flush(e, tp[e].pending, next, rcv[e].out)
    BY <2>1
  <2>3. tp'[e].pending = 0 /\ tp'[e].recvQ = tp[e].recvQ /\ tp'[e].up = tp[e].up
    BY <1>0, <2>1 DEF Tp
  <2>4. next \in RecvPcs /\ rcv[e].out \in Texts
    BY <1>0, RcvFields DEF RecvPcs
  <2>5. /\ tp[e].pending > 0 => rcv'[e].n = tp[e].pending
        /\ tp[e].pending = 0 => rcv'[e].n = rcv[e].n
    BY <1>0, <1>i, <2>2, <2>4, FlushShape
  <2>6. rcv[e].n = 0
    BY <1>0, <2>1 DEF CreditInHand
  <2>7. tp'[e].pending + rcv'[e].n = tp[e].pending + rcv[e].n
    <3>1. CASE tp[e].pending > 0
      BY <1>i, <2>3, <2>5, <2>6, <3>1
    <3>2. CASE tp[e].pending = 0
      BY <2>3, <2>5, <3>2
    <3>3. QED
      BY <1>i, <3>1, <3>2
  <2>8. QED
    BY <1>n, <2>1, <2>3, <2>7
<1>3. CASE RecvReturn(e) \/ ((RecvBlock(e) \/ RecvTry(e)) /\ tp' = tp)
  <2>0. "drain" \in RecvPcs /\ "try" \in RecvPcs
    BY DEF RecvPcs
  <2>1. \/ (ConsumeFrame(e, "drain") \/ ConsumeFrame(e, "try")) /\ tp' = tp
        \/ /\ nic' = nic /\ tp' = tp
           /\ \/ \E pc : rcv' = [rcv EXCEPT ![e].pc = pc]
              \/ rcv' = [rcv EXCEPT ![e] = [[rcv[e] EXCEPT !.pc = "idle"] EXCEPT !.out = <<>>]]
              \/ \E s : rcv' = [rcv EXCEPT ![e] = [[[rcv[e] EXCEPT !.pc = "idle"] EXCEPT !.out = <<>>]
                                                  EXCEPT !.rest = s]]
    <3>1. CASE RecvReturn(e)
      <4>1. /\ nic' = nic /\ tp' = tp
            /\ \/ rcv' = [rcv EXCEPT ![e] = [[rcv[e] EXCEPT !.pc = "idle"] EXCEPT !.out = <<>>]]
               \/ \E s : rcv' = [rcv EXCEPT ![e] = [[[rcv[e] EXCEPT !.pc = "idle"] EXCEPT !.out = <<>>]
                                                  EXCEPT !.rest = s]]
        BY <3>1, ZenonT(30) DEF RecvReturn
      <4>2. QED
        BY <4>1, Zenon
    <3>2. CASE RecvBlock(e) /\ tp' = tp
      BY <3>2, Zenon DEF RecvBlock
    <3>3. CASE RecvTry(e) /\ tp' = tp
      BY <3>3, Zenon DEF RecvTry
    <3>4. QED
      BY <1>3, <3>1, <3>2, <3>3, Zenon
  <2>2. ASSUME NEW more \in RecvPcs, ConsumeFrame(e, more), tp' = tp PROVE FALSE
    <3>1. tp[e].recvQ # <<>> /\ tp'[e].recvQ = Tail(tp[e].recvQ)
      BY <1>0, <2>2, ConsumeEffect, Zenon
    <3>2. tp[e].recvQ \in Seq(DataFrames)
      BY <1>0, TpFields, Zenon DEF DataSeq
    <3>3. Len(tp'[e].recvQ) = Len(tp[e].recvQ) - 1 /\ Len(tp[e].recvQ) \in Nat
      BY <3>1, <3>2
    <3>4. QED
      BY <2>2, <3>3
  <2>3. CASE /\ nic' = nic /\ tp' = tp
             /\ \/ \E pc : rcv' = [rcv EXCEPT ![e].pc = pc]
                \/ rcv' = [rcv EXCEPT ![e] = [[rcv[e] EXCEPT !.pc = "idle"] EXCEPT !.out = <<>>]]
                \/ \E s : rcv' = [rcv EXCEPT ![e] = [[[rcv[e] EXCEPT !.pc = "idle"] EXCEPT !.out = <<>>]
                                                  EXCEPT !.rest = s]]
    <3>1. rcv'[e].n = rcv[e].n
      BY <1>0, <2>3 DEF Rcv
    <3>2. QED
      BY <1>r, <2>3, <3>1
  <2>4. QED
    BY <2>0, <2>1, <2>2, <2>3, Zenon
<1>4. CASE CloseCall(e) \/ CloseFin(e) \/ CloseDone(e)
         \/ DispatchError(e) \/ PollLast(e) \/ PollerExit(e) \/ PushToken(e)
  <2>1. /\ rcv' = rcv
        /\ \/ \E n : tp' = [tp EXCEPT ![e].creditFree = n] /\ nic' = Posted(e, FinFrame)
           \/ /\ nic' = nic
              /\ tp' = tp \/ tp' = [tp EXCEPT ![e].closed = TRUE]
                 \/ \E n : tp' = [tp EXCEPT ![e].creditFree = n]
                           \/ tp' = [tp EXCEPT ![e].sendDone = n]
    <3>1. CASE CloseFin(e)
      BY <3>1, Zenon DEF CloseFin
    <3>2. CASE CloseCall(e) \/ CloseDone(e)
      BY <3>2, Zenon DEF CloseCall, CloseDone
    <3>3. CASE DispatchError(e) \/ PollLast(e) \/ PollerExit(e) \/ PushToken(e)
      BY <3>3, Zenon DEF DispatchError, PollLast, PollerExit, PushToken
    <3>4. QED
      BY <1>4, <3>1, <3>2, <3>3, Zenon
  <2>2. CASE \E n : tp' = [tp EXCEPT ![e].creditFree = n] /\ nic' = Posted(e, FinFrame)
    <3>1. FinFrame \in Frames /\ Carries(FinFrame, "credit") = 0
      BY ControlFrames, Carried, Zenon
    <3>2. QED
      BY <1>p, <2>1, <2>2, <3>1, Zenon
  <2>3. QED
    BY <1>r, <2>1, <2>2, Zenon
<1>5. CASE DispatchSend(e)
  <2>1. /\ rcv' = rcv /\ nic[e].landed > 0
        /\ nic'[e].sq = Tail(nic[e].sq) /\ nic'[e].landed = nic[e].landed - 1
        /\ nic'[e].inbox = nic[e].inbox /\ nic'[e].ring = nic[e].ring
        /\ nic'[e].down = nic[e].down
        /\ \/ tp' = tp \/ tp' = [tp EXCEPT ![e].sendFree = @ + 1]
           \/ tp' = [tp EXCEPT ![e].creditFree = @ + 1]
    BY <1>0, <1>5, DispatchSendEffect, Zenon
  <2>2. InFlight(e, "credit")' = InFlight(e, "credit")
    BY <1>0, <2>1, SendAmounts, WhatKinds, Zenon
  <2>3. tp'[e].pending = tp[e].pending /\ tp'[e].recvQ = tp[e].recvQ /\ tp'[e].up = tp[e].up
    BY <1>0, <2>1 DEF Tp
  <2>4. QED
    BY <2>1, <2>2, <2>3, InboxSame DEF EndStill
<1>6. QED
  BY <1>1, <1>2, <1>3, <1>4, <1>5

(* What a step of e can change in the direction towards e.                 *)
LEMMA Towards ==
  ASSUME Types, NEW e \in Peers, Moves(e)
  PROVE  LET s == Peer(e) IN
         /\ s \in Peers /\ Peer(s) = e
         /\ SenderStill(s) /\ (Broken => Broken') /\ Pending(s) \in Nat
         /\ Landed(s) = Arrived(e, "data") + Len(tp[e].recvQ)
         /\ Landed(s)' = Arrived(e, "data")' + Len(tp'[e].recvQ)
         /\ Pending(s) = tp[e].pending + rcv[e].n
         /\ Pending(s)' = tp'[e].pending + rcv'[e].n
         /\ Returning(s) = InFlight(e, "credit") + Arrived(s, "credit")
         /\ Returning(s)' = InFlight(e, "credit")' + Arrived(s, "credit")
         /\ Side(s) = IF nic[e].down THEN "gone" ELSE IF tp[e].up THEN "up" ELSE "none"
         /\ Side(s)' = IF nic'[e].down THEN "gone" ELSE IF tp'[e].up THEN "up" ELSE "none"
         /\ Landed(s) \in Nat /\ Arrived(e, "data") \in Nat
         /\ Len(tp[e].recvQ) \in Nat
         /\ tp[e].pending \in Nat /\ rcv[e].n \in Nat
         /\ InFlight(e, "credit") \in Nat /\ Arrived(s, "credit") \in Nat
         /\ Arrived(e, "ctl") \in Nat /\ nic[e].ring \in Nat
<1> DEFINE s == Peer(e)
<1>1. s \in Peers /\ Peer(s) = e
  BY ThePeers, Zenon
<1>2. SenderStill(s) /\ (Broken => Broken')
  BY BrokenStays, OtherEnd, Zenon DEF Types
<1>3. /\ Pending(s) \in Nat /\ Landed(s) \in Nat
      /\ Arrived(Peer(s), "data") \in Nat
      /\ Len(tp[Peer(s)].recvQ) \in Nat /\ tp[Peer(s)].pending \in Nat
      /\ rcv[Peer(s)].n \in Nat /\ InFlight(Peer(s), "credit") \in Nat
      /\ Arrived(s, "credit") \in Nat /\ Arrived(Peer(s), "ctl") \in Nat
      /\ nic[Peer(s)].ring \in Nat
  BY <1>1, FlowTypes, Zenon
<1> HIDE DEF s
<1>4. /\ Landed(s) = Arrived(e, "data") + Len(tp[e].recvQ)
      /\ Landed(s)' = Arrived(e, "data")' + Len(tp'[e].recvQ)
      /\ Pending(s) = tp[e].pending + rcv[e].n
      /\ Pending(s)' = tp'[e].pending + rcv'[e].n
      /\ Returning(s) = InFlight(e, "credit") + Arrived(s, "credit")
      /\ Returning(s)' = InFlight(e, "credit")' + Arrived(s, "credit")
  BY <1>1, <1>2 DEF Landed, Pending, Returning, SenderStill
<1>5. /\ Side(s) = IF nic[e].down THEN "gone" ELSE IF tp[e].up THEN "up" ELSE "none"
      /\ Side(s)' = IF nic'[e].down THEN "gone" ELSE IF tp'[e].up THEN "up" ELSE "none"
  BY <1>1 DEF Side
<1>6. QED
  BY <1>1, <1>2, <1>3, <1>4, <1>5, Zenon DEF s

(* The first call on a connection posts the ring.                          *)
LEMMA BringUpStep ==
  ASSUME Types, NEW e \in Peers, RecvSide(e), SendCall(e) \/ RecvCall(e)
  PROVE  FlowStep(Peer(e))
<1>0. /\ rcv \in [Peers -> Rcv(scene.calls)] /\ tp \in [Peers -> Tp]
      /\ nic \in [Peers -> Nic] /\ Typing
  BY DEF Types, Typing
<1>m. Moves(e)
  BY Zenon DEF Moves
<1>1. /\ cls' = cls /\ cls[e] = "open" /\ tp' = [tp EXCEPT ![e].up = TRUE]
      /\ nic' = IF tp[e].up THEN nic ELSE [nic EXCEPT ![e].ring = Depth]
      /\ rcv' = rcv \/ \E c : \/ rcv' = [rcv EXCEPT ![e] = [[rcv[e] EXCEPT !.pc = "return"] EXCEPT !.call = c]]
                              \/ rcv' = [rcv EXCEPT ![e] = [[rcv[e] EXCEPT !.pc = "drain"] EXCEPT !.call = c]]
  <2>1. CASE SendCall(e)
    BY <2>1, Zenon DEF SendCall, BringUp
  <2>2. CASE RecvCall(e)
    BY <2>2, Zenon DEF RecvCall, BringUp
  <2>3. QED
    BY <2>1, <2>2
<1>2. ~nic[e].down
  BY <1>1 DEF RecvSide
<1>3. /\ tp'[e].pending = tp[e].pending /\ tp'[e].recvQ = tp[e].recvQ
      /\ tp'[e].up = TRUE /\ tp'[e].closed = tp[e].closed
  BY <1>0, <1>1 DEF Tp
<1>4. rcv'[e].n = rcv[e].n
  BY <1>0, <1>1 DEF Rcv
<1>5. CASE tp[e].up
  <2>1. EndStill(e)
    BY <1>1, <1>3, <1>4, <1>5, SentSame, InboxSame DEF EndStill
  <2>2. QED
    BY <1>m, <2>1, EndStays, Towards, QuietStep, Zenon
<1>6. CASE ~tp[e].up
  <2> DEFINE s == Peer(e)
  <2>1. /\ nic'[e].sq = nic[e].sq /\ nic'[e].landed = nic[e].landed
        /\ nic'[e].inbox = nic[e].inbox /\ nic'[e].ring = Depth
        /\ nic'[e].down = nic[e].down
    BY <1>0, <1>1, <1>6 DEF Nic
  <2>2. /\ InFlight(e, "credit")' = InFlight(e, "credit")
        /\ Arrived(e, "ctl")' = Arrived(e, "ctl")
        /\ Arrived(e, "data")' = Arrived(e, "data")
    BY <2>1, SentSame, InboxSame
  <2>3. Broken' = Broken
    BY <1>0, <1>m, <1>1, <1>3, BrokenSame, Zenon
  <2> HIDE DEF s
  <2>4. /\ Peer(s) = e /\ SenderStill(s) /\ Landed(s)' = Landed(s)
        /\ Pending(s)' = Pending(s)
        /\ Returning(s)' = Returning(s) /\ Side(s) = "none" /\ Side(s)' = "up"
    BY <1>m, <1>2, <1>3, <1>4, <1>6, <2>1, <2>2, Towards DEF s
  <2>5. Way(s)!RingUp
    BY <2>1, <2>2, <2>3, <2>4 DEF Way!RingUp, SenderStill
  <2>6. QED
    BY <2>5, Zenon DEF FlowStep, Way!Next, s
<1>7. QED
  BY <1>5, <1>6

(* A frame that is consumed: its RECV is posted again, and a credit is     *)
(* owed for it.                                                            *)
LEMMA ConsumeStep ==
  ASSUME Types, NEW e \in Peers, RecvSide(e), Moves(e), NEW more \in RecvPcs,
         ConsumeFrame(e, more), rcv[e].pc # "credit", rcv[e].pc # "idle"
  PROVE  FlowStep(Peer(e))
<1> DEFINE s == Peer(e)
<1>0. tp \in [Peers -> Tp] /\ Typing
  BY DEF Types, Typing
<1>1. /\ cls' = cls /\ hist' = hist /\ tp'[e].closed = tp[e].closed
      /\ tp[e].recvQ # <<>> /\ tp'[e].recvQ = Tail(tp[e].recvQ)
      /\ tp'[e].up = tp[e].up
      /\ nic'[e].sq = nic[e].sq /\ nic'[e].landed = nic[e].landed
      /\ nic'[e].inbox = nic[e].inbox /\ nic'[e].down = nic[e].down
  BY <1>0, ConsumeEffect, Zenon
<1>2. Broken' = Broken
  BY <1>0, <1>1, BrokenSame, Zenon
<1>3. /\ InFlight(e, "credit")' = InFlight(e, "credit")
      /\ Arrived(e, "ctl")' = Arrived(e, "ctl")
      /\ Arrived(e, "data")' = Arrived(e, "data")
  BY <1>1, SentSame, InboxSame
<1>4. Len(tp[e].recvQ) \in Nat \ {0} /\ Len(tp'[e].recvQ) = Len(tp[e].recvQ) - 1
  <2>1. tp[e].recvQ \in Seq(DataFrames)
    BY <1>0, TpFields, Zenon DEF DataSeq
  <2>2. QED
    BY <1>1, <2>1
<1> HIDE DEF s
<1>5. /\ Peer(s) = e /\ SenderStill(s) /\ Landed(s) \in Nat \ {0}
      /\ Landed(s)' = Landed(s) - 1 /\ Returning(s)' = Returning(s)
      /\ Side(s)' = Side(s)
      /\ Pending(s) = tp[e].pending + rcv[e].n
      /\ Pending(s)' = tp'[e].pending + rcv'[e].n
      /\ tp[e].pending \in Nat
  <2>1. /\ Peer(s) = e /\ SenderStill(s)
        /\ Landed(s) = Arrived(e, "data") + Len(tp[e].recvQ)
        /\ Landed(s)' = Arrived(e, "data")' + Len(tp'[e].recvQ)
        /\ Arrived(e, "data") \in Nat /\ tp[e].pending \in Nat
        /\ Pending(s) = tp[e].pending + rcv[e].n
        /\ Pending(s)' = tp'[e].pending + rcv'[e].n
    BY Towards, Zenon DEF s
  <2>2. Returning(s)' = Returning(s) /\ Side(s)' = Side(s)
    BY <1>1, <1>3, Towards DEF s
  <2>3. Landed(s) \in Nat \ {0} /\ Landed(s)' = Landed(s) - 1
    <3>1. /\ Landed(s) = Arrived(e, "data") + Len(tp[e].recvQ)
          /\ Landed(s)' = Arrived(e, "data")' + Len(tp'[e].recvQ)
          /\ Arrived(e, "data") \in Nat
          /\ Arrived(e, "data")' = Arrived(e, "data")
      BY <1>3, <2>1, Zenon
    <3> DEFINE n == Len(tp[e].recvQ)
               m == Len(tp'[e].recvQ)
    <3>2. n \in Nat \ {0} /\ m = n - 1
      BY <1>4, Zenon
    <3>3. Landed(s) = Arrived(e, "data") + n /\ Landed(s)' = Arrived(e, "data") + m
      BY <3>1, Zenon
    <3>4. Arrived(e, "data") \in Nat
      BY <3>1
    <3> HIDE DEF n, m
    <3>5. QED
      BY <3>2, <3>3, <3>4
  <2>4. QED
    BY <2>1, <2>2, <2>3, Zenon
<1>6. rcv[e].n = 0
  BY DEF RecvSide, CreditInHand
<1>7. CASE nic[e].down
  <2>1. /\ nic'[e].ring = nic[e].ring /\ tp'[e].pending = tp[e].pending
        /\ rcv'[e].n = rcv[e].n
    BY <1>0, <1>7, ConsumeEffect, Zenon
  <2>2. Broken
    <3>1. cls[e] = "closed"
      BY <1>7 DEF RecvSide
    <3>2. QED
      BY <3>1 DEF Broken
  <2>3. Way(s)!Lose
    BY <1>2, <1>3, <1>5, <2>1, <2>2 DEF Way!Lose, SenderStill
  <2>4. QED
    BY <2>3, Zenon DEF FlowStep, Way!Next, s
<1>8. CASE ~nic[e].down
  <2>1. /\ nic'[e].ring = nic[e].ring + 1
        /\ \/ tp'[e].pending = 0 /\ rcv'[e].n = tp[e].pending + 1
           \/ tp'[e].pending = tp[e].pending + 1 /\ rcv'[e].n = rcv[e].n
    BY <1>0, <1>8, ConsumeEffect, Zenon
  <2>2. Pending(s)' = Pending(s) + 1
    BY <1>5, <1>6, <2>1
  <2>3. Side(s) = "up"
    <3>1. tp[e].up
      BY DEF RecvSide
    <3>2. Side(s) = IF nic[e].down THEN "gone" ELSE IF tp[e].up THEN "up" ELSE "none"
      BY Towards, Zenon DEF s
    <3>3. QED
      BY <1>8, <3>1, <3>2
  <2>4. Way(s)!Consume
    BY <1>2, <1>3, <1>5, <2>1, <2>2, <2>3 DEF Way!Consume, SenderStill
  <2>5. QED
    BY <2>4, Zenon DEF FlowStep, Way!Next, s
<1>9. QED
  BY <1>7, <1>8

(* Credits in hand go into a credit frame, or are dropped when the frame   *)
(* cannot be posted on a connection that is broken.                        *)
LEMMA ReturnStep ==
  ASSUME Types, NEW e \in Peers, RecvSide(e), ReturnCredit(e)
  PROVE  FlowStep(Peer(e))
<1> DEFINE s == Peer(e)
<1>0. /\ rcv \in [Peers -> Rcv(scene.calls)] /\ tp \in [Peers -> Tp]
      /\ nic \in [Peers -> Nic] /\ Typing
  BY DEF Types, Typing
<1>m. Moves(e)
  BY Zenon DEF Moves, Receiver
<1>1. /\ cls' = cls /\ rcv[e].pc = "credit"
      /\ rcv' = [rcv EXCEPT ![e] = [[[rcv[e] EXCEPT !.pc = rcv[e].then]
                                        EXCEPT !.then = "idle"] EXCEPT !.n = 0]]
      /\ \/ /\ tp' = [tp EXCEPT ![e].creditFree = @ - 1]
            /\ nic' = Posted(e, CreditFrame(rcv[e].n))
         \/ nic' = nic /\ tp' = [tp EXCEPT ![e].closed = TRUE]
         \/ nic' = nic /\ tp' = tp /\ tp[e].closed
  BY Zenon DEF ReturnCredit
<1>2. rcv'[e].n = 0 /\ rcv[e].n \in 1 .. Depth
  <2>1. rcv'[e].n = 0
    BY <1>0, <1>1 DEF Rcv
  <2>2. QED
    BY <1>1, <2>1 DEF RecvSide, CreditInHand
<1>3. /\ tp'[e].pending = tp[e].pending /\ tp'[e].recvQ = tp[e].recvQ
      /\ tp'[e].up = tp[e].up
  BY <1>0, <1>1 DEF Tp
<1> HIDE DEF s
<1>4. /\ Peer(s) = e /\ SenderStill(s)
      /\ Pending(s) = tp[e].pending + rcv[e].n /\ Pending(s)' = tp[e].pending
      /\ tp[e].pending \in Nat /\ Pending(s) \in Nat
  <2>1. /\ Peer(s) = e /\ SenderStill(s)
        /\ Pending(s) = tp[e].pending + rcv[e].n
        /\ Pending(s)' = tp'[e].pending + rcv'[e].n
        /\ tp[e].pending \in Nat /\ Pending(s) \in Nat
    BY <1>m, Towards, Zenon DEF s
  <2>2. QED
    BY <1>2, <1>3, <2>1
<1>5. CASE /\ tp' = [tp EXCEPT ![e].creditFree = @ - 1]
           /\ nic' = Posted(e, CreditFrame(rcv[e].n))
  <2>1. /\ CreditFrame(rcv[e].n) \in Frames
        /\ Carries(CreditFrame(rcv[e].n), "credit") = rcv[e].n
    BY <1>2, ControlFrames, Carried, Zenon
  <2>2. /\ InFlight(e, "credit")' = InFlight(e, "credit") + rcv[e].n
        /\ nic'[e].inbox = nic[e].inbox /\ nic'[e].ring = nic[e].ring
        /\ nic'[e].down = nic[e].down
    <3>1. /\ InFlight(e, "credit")' = InFlight(e, "credit") + Carries(CreditFrame(rcv[e].n), "credit")
          /\ nic'[e].inbox = nic[e].inbox /\ nic'[e].ring = nic[e].ring
          /\ nic'[e].down = nic[e].down
      BY <1>5, <2>1, SentPosted, Zenon
    <3>2. QED
      BY <2>1, <3>1
  <2>3. /\ Arrived(e, "ctl")' = Arrived(e, "ctl")
        /\ Arrived(e, "data")' = Arrived(e, "data")
    BY <2>2, InboxSame
  <2>4. Broken' = Broken
    <3>1. tp'[e].closed = tp[e].closed
      BY <1>0, <1>5 DEF Tp
    <3>2. QED
      BY <1>0, <1>m, <1>1, <3>1, BrokenSame, Zenon
  <2>5. Landed(s)' = Landed(s) /\ Side(s)' = Side(s)
    <3>1. /\ Landed(s) = Arrived(e, "data") + Len(tp[e].recvQ)
          /\ Landed(s)' = Arrived(e, "data")' + Len(tp'[e].recvQ)
          /\ Side(s) = IF nic[e].down THEN "gone" ELSE IF tp[e].up THEN "up" ELSE "none"
          /\ Side(s)' = IF nic'[e].down THEN "gone" ELSE IF tp'[e].up THEN "up" ELSE "none"
      BY <1>m, Towards, Zenon DEF s
    <3>2. QED
      BY <1>3, <2>2, <2>3, <3>1
  <2>6. Returning(s)' = Returning(s) + rcv[e].n
    <3>1. /\ Returning(s) = InFlight(e, "credit") + Arrived(s, "credit")
          /\ Returning(s)' = InFlight(e, "credit")' + Arrived(s, "credit")
          /\ InFlight(e, "credit") \in Nat /\ Arrived(s, "credit") \in Nat
      BY <1>m, Towards, Zenon DEF s
    <3>2. QED
      BY <1>2, <2>2, <3>1, DepthAssumption
  <2>7. Way(s)!Return(rcv[e].n)
    <3>1. rcv[e].n \in 1 .. Pending(s) /\ Pending(s)' = Pending(s) - rcv[e].n
      BY <1>2, <1>4, DepthAssumption
    <3>2. QED
      BY <1>4, <2>2, <2>3, <2>4, <2>5, <2>6, <3>1 DEF Way!Return, SenderStill
  <2>8. QED
    BY <1>2, <2>7, Zenon DEF FlowStep, Way!Next, s
<1>6. CASE nic' = nic
  <2>1. /\ InFlight(e, "credit")' = InFlight(e, "credit")
        /\ Arrived(e, "ctl")' = Arrived(e, "ctl")
        /\ Arrived(e, "data")' = Arrived(e, "data")
    BY <1>6, SentSame, InboxSame
  <2>2. Landed(s)' = Landed(s) /\ Side(s)' = Side(s) /\ Returning(s)' = Returning(s)
    BY <1>m, <1>3, <1>6, <2>1, Towards DEF s
  <2>3. Pending(s)' \in 0 .. Pending(s)
    BY <1>2, <1>4, DepthAssumption
  <2>4. CASE tp' = [tp EXCEPT ![e].closed = TRUE]
    <3>1. tp'[e].closed = TRUE
      BY <1>0, <2>4 DEF Tp
    <3>2. Broken' = TRUE
      BY <3>1 DEF Broken
    <3>3. Way(s)!Break
      BY <1>4, <1>6, <2>1, <2>2, <2>3, <3>2 DEF Way!Break, SenderStill
    <3>4. QED
      BY <3>3, Zenon DEF FlowStep, Way!Next, s
  <2>5. CASE tp' = tp /\ tp[e].closed
    <3>1. Broken /\ Broken' = Broken
      BY <1>1, <2>5 DEF Broken
    <3>2. rcv[e].n \in 1 .. Pending(s) /\ Pending(s)' = Pending(s) - rcv[e].n /\ Pending(s) > 0
      BY <1>2, <1>4, DepthAssumption
    <3>3. Way(s)!Lose
      BY <1>4, <1>6, <2>1, <2>2, <3>1, <3>2 DEF Way!Lose, SenderStill
    <3>4. QED
      BY <3>3, Zenon DEF FlowStep, Way!Next, s
  <2>6. CASE tp' = [tp EXCEPT ![e].creditFree = @ - 1] /\ nic' = Posted(e, CreditFrame(rcv[e].n))
    BY <1>5, <2>6
  <2>7. QED
    BY <1>1, <2>4, <2>5, <2>6, Zenon
<1>7. QED
  BY <1>1, <1>5, <1>6, Zenon

(* The poller of e takes a frame that has landed: a control frame's RECV   *)
(* is posted again, a data frame's stays taken until the receiver has      *)
(* consumed it.                                                            *)
LEMMA TakeStep ==
  ASSUME Types, NEW e \in Peers, DispatchRecv(e), Typing'
  PROVE  FlowStep(Peer(e))
<1> DEFINE s  == Peer(e)
           fr == Head(nic[e].inbox)
<1>0. /\ tp \in [Peers -> Tp] /\ nic \in [Peers -> Nic]
      /\ nic' \in [Peers -> Nic] /\ Typing
  BY DEF Types, Typing
<1>m. Moves(e)
  BY Zenon DEF Moves, Poller
<1>1. /\ rcv' = rcv /\ cls' = cls
      /\ nic[e].inbox # <<>> /\ nic'[e].inbox = Tail(nic[e].inbox)
      /\ nic'[e].sq = nic[e].sq /\ nic'[e].landed = nic[e].landed
      /\ nic'[e].down = nic[e].down
      /\ \/ /\ fr.kind = "credit" /\ tp' = [tp EXCEPT ![e].credits = @ + fr.n]
         \/ /\ fr.kind # "data" /\ fr.kind # "credit" /\ tp' = [tp EXCEPT ![e].peerFin = TRUE]
         \/ /\ fr.kind = "data" /\ tp' = [tp EXCEPT ![e].recvQ = Append(@, fr)]
         \/ /\ fr.kind = "data" /\ tp[e].closed /\ tp' = tp
      /\ nic'[e].ring = IF fr.kind = "data" \/ nic[e].down THEN nic[e].ring
                        ELSE nic[e].ring + 1
  BY <1>0, DispatchRecvEffect, Zenon
<1>2. /\ fr \in Frames
      /\ Arrived(e, "data") = Arrived(e, "data")' + Carries(fr, "data")
      /\ Arrived(e, "ctl") = Arrived(e, "ctl")' + Carries(fr, "ctl")
  BY <1>0, <1>1, RecvAmounts, WhatKinds, Zenon
<1>3. Arrived(e, "data")' \in Nat /\ Arrived(e, "ctl")' \in Nat
  BY <1>0, QueueAmountsNext, WhatKinds, Zenon
<1>4. InFlight(e, "credit")' = InFlight(e, "credit")
  BY <1>1, SentSame
<1> HIDE DEF fr
<1>5. /\ tp'[e].pending = tp[e].pending /\ tp'[e].up = tp[e].up
      /\ tp'[e].closed = tp[e].closed
  BY <1>0, <1>1 DEF Tp
<1>6. Broken' = Broken
  BY <1>0, <1>m, <1>1, <1>5, BrokenSame, Zenon
<1>7. /\ Len(tp[e].recvQ) \in Nat
      /\ tp' = [tp EXCEPT ![e].recvQ = Append(@, fr)] /\ fr.kind = "data"
           => Len(tp'[e].recvQ) = Len(tp[e].recvQ) + 1
      /\ ~(tp' = [tp EXCEPT ![e].recvQ = Append(@, fr)] /\ fr.kind = "data")
           => tp'[e].recvQ = tp[e].recvQ
  <2>1. tp[e].recvQ \in Seq(DataFrames)
    BY <1>0, TpFields, Zenon DEF DataSeq
  <2>2. ASSUME tp' = [tp EXCEPT ![e].recvQ = Append(@, fr)], fr.kind = "data"
        PROVE  Len(tp'[e].recvQ) = Len(tp[e].recvQ) + 1
    <3>1. tp'[e].recvQ = Append(tp[e].recvQ, fr)
      BY <1>0, <2>2 DEF Tp
    <3>2. fr \in DataFrames
      BY <1>2, <2>2, FrameCarries
    <3>3. QED
      BY <2>1, <3>1, <3>2
  <2>3. ASSUME ~(tp' = [tp EXCEPT ![e].recvQ = Append(@, fr)] /\ fr.kind = "data")
        PROVE  tp'[e].recvQ = tp[e].recvQ
    <3>1. \/ tp' = [tp EXCEPT ![e].credits = @ + fr.n]
          \/ tp' = [tp EXCEPT ![e].peerFin = TRUE] \/ tp' = tp
      BY <1>1, <2>3, Zenon
    <3>2. QED
      BY <1>0, <3>1 DEF Tp
  <2>4. Len(tp[e].recvQ) \in Nat
    BY <2>1
  <2>5. QED
    BY <2>2, <2>3, <2>4
<1> HIDE DEF s
<1>8. /\ Peer(s) = e /\ SenderStill(s)
      /\ Landed(s) = Arrived(e, "data") + Len(tp[e].recvQ)
      /\ Landed(s)' = Arrived(e, "data")' + Len(tp'[e].recvQ)
      /\ Pending(s) \in Nat /\ Pending(s) = tp[e].pending + rcv[e].n
      /\ Pending(s)' = tp'[e].pending + rcv'[e].n
      /\ Returning(s) = InFlight(e, "credit") + Arrived(s, "credit")
      /\ Returning(s)' = InFlight(e, "credit")' + Arrived(s, "credit")
      /\ Side(s) = IF nic[e].down THEN "gone" ELSE IF tp[e].up THEN "up" ELSE "none"
      /\ Side(s)' = IF nic'[e].down THEN "gone" ELSE IF tp'[e].up THEN "up" ELSE "none"
  BY <1>m, Towards, Zenon DEF s
<1>9. Pending(s)' = Pending(s) /\ Returning(s)' = Returning(s) /\ Side(s)' = Side(s)
  BY <1>1, <1>4, <1>5, <1>8
<1>10. CASE fr.kind = "data"
  <2>1. Arrived(e, "data") = Arrived(e, "data")' + 1 /\ Arrived(e, "ctl")' = Arrived(e, "ctl")
    <3>1. Carries(fr, "data") = 1 /\ Carries(fr, "ctl") = 0
      BY <1>2, <1>10, FrameCarries
    <3>2. QED
      BY <1>2, <1>3, <3>1
  <2>2. nic'[e].ring = nic[e].ring
    BY <1>1, <1>10
  <2>3. CASE tp' = [tp EXCEPT ![e].recvQ = Append(@, fr)]
    <3>1. Landed(s)' = Landed(s)
      <4>1. Len(tp'[e].recvQ) = Len(tp[e].recvQ) + 1 /\ Len(tp[e].recvQ) \in Nat
        BY <1>7, <1>10, <2>3
      <4>2. QED
        BY <1>3, <1>8, <2>1, <4>1
    <3>2. ReceiverStill(s)
      BY <1>4, <1>8, <1>9, <2>1, <2>2, <3>1 DEF ReceiverStill
    <3>3. QED
      BY <1>6, <1>8, <3>2, QuietStep, Zenon DEF s
  <2>4. CASE tp' = tp /\ tp[e].closed
    <3>1. Landed(s) > 0 /\ Landed(s)' = Landed(s) - 1
      <4>1. Len(tp'[e].recvQ) = Len(tp[e].recvQ) /\ Len(tp[e].recvQ) \in Nat
        BY <1>7, <2>4
      <4> DEFINE n == Len(tp[e].recvQ)
      <4>2. n \in Nat
        BY <4>1
      <4>3. Landed(s) = Arrived(e, "data") + n /\ Landed(s)' = Arrived(e, "data")' + n
        BY <1>8, <4>1, Zenon
      <4> HIDE DEF n
      <4>4. QED
        BY <1>3, <2>1, <4>2, <4>3
    <3>2. Broken
      BY <2>4 DEF Broken
    <3>3. Way(s)!Lose
      BY <1>6, <1>8, <1>9, <2>1, <2>2, <3>1, <3>2 DEF Way!Lose, SenderStill
    <3>4. QED
      BY <3>3, Zenon DEF FlowStep, Way!Next, s
  <2>5. QED
    BY <1>1, <1>10, <2>3, <2>4, Zenon
<1>11. CASE fr.kind # "data"
  <2>1. Arrived(e, "ctl") = Arrived(e, "ctl")' + 1 /\ Arrived(e, "data")' = Arrived(e, "data")
    <3>1. Carries(fr, "data") = 0 /\ Carries(fr, "ctl") = 1
      BY <1>2, <1>11, FrameCarries
    <3>2. QED
      BY <1>2, <1>3, <3>1
  <2>2. Arrived(e, "ctl") > 0 /\ Arrived(e, "ctl")' = Arrived(e, "ctl") - 1
    BY <1>3, <2>1
  <2>3. Landed(s)' = Landed(s)
    BY <1>7, <1>8, <1>11, <2>1
  <2>4. CASE nic[e].down
    <3>1. nic'[e].ring = nic[e].ring /\ Side(s) = "gone"
      BY <1>1, <1>8, <2>4
    <3>2. Way(s)!LoseSlot
      BY <1>6, <1>8, <1>9, <2>2, <2>3, <3>1 DEF Way!LoseSlot, SenderStill
    <3>3. QED
      BY <3>2, Zenon DEF FlowStep, Way!Next, s
  <2>5. CASE ~nic[e].down
    <3>1. nic'[e].ring = nic[e].ring + 1
      BY <1>1, <1>11, <2>5
    <3>2. Way(s)!CtlRepost
      BY <1>6, <1>8, <1>9, <2>2, <2>3, <3>1 DEF Way!CtlRepost, SenderStill
    <3>3. QED
      BY <3>2, Zenon DEF FlowStep, Way!Next, s
  <2>6. QED
    BY <2>4, <2>5
<1>12. QED
  BY <1>10, <1>11

(* Close takes the ring away.                                              *)
LEMMA TearDownStep ==
  ASSUME Types, NEW e \in Peers, TearDown(e)
  PROVE  FlowStep(Peer(e))
<1> DEFINE s == Peer(e)
<1>0. nic \in [Peers -> Nic] /\ Typing
  BY DEF Types, Typing
<1>m. Moves(e)
  BY Zenon DEF Moves, Closer
<1>1. /\ cls[e] = "teardown" /\ nic' = [nic EXCEPT ![e].down = TRUE]
      /\ tp' = tp /\ rcv' = rcv
  BY Zenon DEF TearDown
<1>2. /\ nic'[e].sq = nic[e].sq /\ nic'[e].landed = nic[e].landed
      /\ nic'[e].inbox = nic[e].inbox /\ nic'[e].ring = nic[e].ring
      /\ nic'[e].down
  BY <1>0, <1>1 DEF Nic
<1>3. /\ InFlight(e, "credit")' = InFlight(e, "credit")
      /\ Arrived(e, "ctl")' = Arrived(e, "ctl")
      /\ Arrived(e, "data")' = Arrived(e, "data")
  BY <1>2, SentSame, InboxSame
<1>4. Broken' = TRUE
  <2>1. Broken
    BY <1>1 DEF Broken
  <2>2. Broken' \in BOOLEAN
    BY DEF Broken
  <2>3. Broken'
    BY <1>m, <2>1, Towards, Zenon
  <2>4. QED
    BY <2>2, <2>3
<1> HIDE DEF s
<1>5. /\ Peer(s) = e /\ SenderStill(s)
      /\ Landed(s) = Arrived(e, "data") + Len(tp[e].recvQ)
      /\ Landed(s)' = Arrived(e, "data")' + Len(tp'[e].recvQ)
      /\ Pending(s) \in Nat /\ Pending(s) = tp[e].pending + rcv[e].n
      /\ Pending(s)' = tp'[e].pending + rcv'[e].n
      /\ Returning(s) = InFlight(e, "credit") + Arrived(s, "credit")
      /\ Returning(s)' = InFlight(e, "credit")' + Arrived(s, "credit")
      /\ Side(s)' = IF nic'[e].down THEN "gone" ELSE IF tp'[e].up THEN "up" ELSE "none"
  BY <1>m, Towards, Zenon DEF s
<1>6. /\ Landed(s)' = Landed(s) /\ Pending(s)' = Pending(s)
      /\ Returning(s)' = Returning(s)
      /\ Side(s)' = "gone"
  BY <1>1, <1>2, <1>3, <1>5
<1>7. Way(s)!Break
  BY <1>2, <1>3, <1>4, <1>5, <1>6 DEF Way!Break, SenderStill
<1>8. QED
  BY <1>7, Zenon DEF FlowStep, Way!Next, s

(* Every step of e is a step of the direction towards e.                   *)
LEMMA StepOfReceivingEnd ==
  ASSUME Types, NEW e \in Peers, RecvSide(e), Moves(e), Typing'
  PROVE  FlowStep(Peer(e))
<1>q. ASSUME EndStill(e) PROVE FlowStep(Peer(e))
  BY <1>q, EndStays, Towards, QuietStep, Zenon
<1>1. CASE SendCall(e) \/ RecvCall(e)
  BY <1>1, BringUpStep, Zenon
<1>2. CASE Sender(e)
  BY <1>2, <1>q, EndQuiet, Zenon
<1>3. CASE Receiver(e)
  <2>0. "drain" \in RecvPcs /\ "try" \in RecvPcs
    BY DEF RecvPcs
  <2>1. CASE RecvDrain(e)
    <3>1. rcv[e].pc = "drain" /\ (ConsumeFrame(e, "drain") \/ tp[e].recvQ = <<>>)
      BY <2>1, Zenon DEF RecvDrain
    <3>2. rcv[e].pc # "credit" /\ rcv[e].pc # "idle"
      BY <3>1
    <3>3. QED
      BY <1>q, <2>0, <2>1, <3>1, <3>2, ConsumeStep, EndQuiet, Zenon
  <2>2. CASE RecvBlock(e)
    <3>1. rcv[e].pc = "block" /\ (ConsumeFrame(e, "drain") \/ tp' = tp)
      BY <2>2, Zenon DEF RecvBlock
    <3>2. rcv[e].pc # "credit" /\ rcv[e].pc # "idle"
      BY <3>1
    <3>3. QED
      BY <1>q, <2>0, <2>2, <3>1, <3>2, ConsumeStep, EndQuiet, Zenon
  <2>3. CASE RecvTry(e)
    <3>1. rcv[e].pc = "try" /\ (ConsumeFrame(e, "try") \/ tp' = tp)
      BY <2>3, Zenon DEF RecvTry
    <3>2. rcv[e].pc # "credit" /\ rcv[e].pc # "idle"
      BY <3>1
    <3>3. QED
      BY <1>q, <2>0, <2>3, <3>1, <3>2, ConsumeStep, EndQuiet, Zenon
  <2>4. CASE RecvEnd(e) \/ RecvReturn(e)
    BY <1>q, <2>4, EndQuiet, Zenon
  <2>5. CASE ReturnCredit(e)
    BY <2>5, ReturnStep, Zenon
  <2>6. QED
    BY <1>3, <2>1, <2>2, <2>3, <2>4, <2>5, Zenon DEF Receiver
<1>4. CASE Poller(e)
  <2>1. CASE DispatchRecv(e)
    BY <2>1, TakeStep, Zenon
  <2>2. CASE DispatchSend(e) \/ PushToken(e) \/ DispatchError(e) \/ PollLast(e) \/ PollerExit(e)
    BY <1>q, <2>2, EndQuiet, Zenon
  <2>3. QED
    BY <1>4, <2>1, <2>2, Zenon DEF Poller
<1>5. CASE CloseCall(e) \/ Closer(e)
  <2>1. CASE TearDown(e)
    BY <2>1, TearDownStep, Zenon
  <2>2. CASE CloseCall(e) \/ CloseFin(e) \/ CloseDone(e)
    BY <1>q, <2>2, EndQuiet, Zenon
  <2>3. QED
    BY <1>5, <2>1, <2>2, Zenon DEF Closer
<1>6. QED
  BY <1>1, <1>2, <1>3, <1>4, <1>5, Zenon DEF Moves

(* A frame of e that lands takes a RECV of its peer: for the direction     *)
(* from e it has arrived, for the one back it may bring credits.           *)
LEMMA LandStep ==
  ASSUME Types, NEW e \in Peers, Land(e), Typing'
  PROVE  FlowStep(e) /\ FlowStep(Peer(e))
<1> DEFINE r  == Peer(e)
           fr == nic[e].sq[nic[e].landed + 1]
<1>0. nic \in [Peers -> Nic] /\ nic' \in [Peers -> Nic]
  BY DEF Types, Typing
<1>p. r \in Peers /\ r # e /\ Peer(r) = e
  BY ThePeers, Zenon
<1>1. /\ snd' = snd /\ rcv' = rcv /\ cls' = cls /\ tp' = tp /\ hist' = hist
      /\ nic[r].ring > 0
  BY Zenon DEF Land
<1>2. /\ nic'[r].ring = nic[r].ring - 1 /\ nic'[r].down = nic[r].down
      /\ nic'[e].ring = nic[e].ring /\ nic'[e].down = nic[e].down
  BY <1>0, <1>p DEF Land, Nic
<1>3. /\ fr \in Frames
      /\ InFlight(e, "data") = InFlight(e, "data")' + Carries(fr, "data")
      /\ InFlight(e, "credit") = InFlight(e, "credit")' + Carries(fr, "credit")
      /\ Arrived(r, "data")' = Arrived(r, "data") + Carries(fr, "data")
      /\ Arrived(r, "ctl")' = Arrived(r, "ctl") + Carries(fr, "ctl")
      /\ Arrived(r, "credit")' = Arrived(r, "credit") + Carries(fr, "credit")
      /\ Arrived(e, "credit")' = Arrived(e, "credit")
      /\ Arrived(e, "data")' = Arrived(e, "data")
      /\ Arrived(e, "ctl")' = Arrived(e, "ctl")
      /\ InFlight(r, "data")' = InFlight(r, "data")
      /\ InFlight(r, "credit")' = InFlight(r, "credit")
  BY <1>0, LandAmounts, WhatKinds, Zenon
<1>4. /\ InFlight(e, "data")' \in Nat /\ InFlight(e, "credit")' \in Nat
  BY <1>0, QueueAmountsNext, WhatKinds, Zenon
<1> HIDE DEF fr, r
<1>5. Broken' = Broken
  BY <1>1 DEF Broken
<1>6. /\ Held(e)' = Held(e) /\ Pending(e)' = Pending(e) /\ Side(e)' = Side(e)
  BY <1>1, <1>2 DEF Held, Pending, Side, r
<1>7. Returning(e)' = Returning(e)
  BY <1>3 DEF Returning, r
<1>8. /\ Landed(e) = Arrived(r, "data") + Len(tp[r].recvQ)
      /\ Landed(e)' = Arrived(r, "data")' + Len(tp[r].recvQ)
      /\ Arrived(r, "data") \in Nat /\ Len(tp[r].recvQ) \in Nat
      /\ Arrived(r, "ctl") \in Nat
  <2>1. Arrived(r, "data") \in Nat /\ Len(tp[r].recvQ) \in Nat /\ Arrived(r, "ctl") \in Nat
    BY FlowTypes, Zenon DEF r
  <2>2. QED
    BY <1>1, <2>1 DEF Landed, r
<1>9. FlowStep(e)
  <2>1. CASE fr.kind = "data"
    <3>1. Carries(fr, "data") = 1 /\ Carries(fr, "ctl") = 0
      BY <1>3, <2>1, FrameCarries
    <3>2. /\ InFlight(e, "data") > 0
          /\ InFlight(e, "data")' = InFlight(e, "data") - 1
          /\ Landed(e)' = Landed(e) + 1
          /\ Arrived(r, "ctl")' = Arrived(r, "ctl")
      <4> DEFINE n == Len(tp[r].recvQ)
      <4>1. /\ Landed(e) = Arrived(r, "data") + n
            /\ Landed(e)' = Arrived(r, "data")' + n
            /\ n \in Nat
        BY <1>8, Zenon
      <4>2. Arrived(r, "data")' = Arrived(r, "data") + 1
        BY <1>3, <3>1
      <4>3. Arrived(r, "ctl")' = Arrived(r, "ctl")
        BY <1>3, <1>8, <3>1
      <4>4. InFlight(e, "data") > 0 /\ InFlight(e, "data")' = InFlight(e, "data") - 1
        BY <1>3, <1>4, <3>1
      <4> HIDE DEF n
      <4>5. Landed(e)' = Landed(e) + 1
        BY <1>8, <4>1, <4>2
      <4>6. QED
        BY <4>3, <4>4, <4>5
    <3>3. Way(e)!Land
      BY <1>1, <1>2, <1>5, <1>6, <1>7, <3>2 DEF Way!Land, r
    <3>4. QED
      BY <3>3, Zenon DEF FlowStep, Way!Next
  <2>2. CASE fr.kind # "data"
    <3>1. Carries(fr, "data") = 0 /\ Carries(fr, "ctl") = 1
      BY <1>3, <2>2, FrameCarries
    <3>2. /\ InFlight(e, "data")' = InFlight(e, "data")
          /\ Landed(e)' = Landed(e)
          /\ Arrived(r, "ctl")' = Arrived(r, "ctl") + 1
      <4>1. Arrived(r, "data")' = Arrived(r, "data")
        BY <1>3, <1>8, <3>1
      <4>2. Landed(e)' = Landed(e)
        BY <1>8, <4>1, Zenon
      <4>3. InFlight(e, "data")' = InFlight(e, "data")
        BY <1>3, <1>4, <3>1
      <4>4. QED
        BY <1>3, <3>1, <4>2, <4>3, Zenon
    <3>3. Way(e)!CtlLand
      BY <1>1, <1>2, <1>5, <1>6, <1>7, <3>2 DEF Way!CtlLand, r
    <3>4. QED
      BY <3>3, Zenon DEF FlowStep, Way!Next
  <2>3. QED
    BY <2>1, <2>2
<1>10. FlowStep(r)
  <2>1. Returning(r)' = Returning(r)
    <3>1. /\ Returning(r) = InFlight(e, "credit") + Arrived(r, "credit")
          /\ Returning(r)' = InFlight(e, "credit")' + Arrived(r, "credit")'
      BY <1>p DEF Returning
    <3>2. Arrived(r, "credit") \in Nat
      BY <1>p, FlowTypes, Zenon
    <3>3. Carries(fr, "credit") \in Nat
      BY <1>3, WhatKinds, CarriesNat, DepthAssumption
    <3>4. QED
      BY <1>3, <1>4, <3>1, <3>2, <3>3
  <2>2. /\ Held(r)' = Held(r) /\ Pending(r)' = Pending(r) /\ Side(r)' = Side(r)
        /\ Landed(r)' = Landed(r)
    BY <1>p, <1>1, <1>2, <1>3 DEF Held, Pending, Side, Landed
  <2>3. UNCHANGED Way(r)!vars
    BY <1>p, <1>1, <1>2, <1>3, <1>5, <2>1, <2>2 DEF Way!vars
  <2>4. QED
    BY <2>3, Zenon DEF FlowStep
<1>11. QED
  BY <1>9, <1>10 DEF r

(* Every step of the data path is a step of CreditFlow or a stutter, in    *)
(* each direction.                                                         *)
LEMMA EveryStep ==
  ASSUME IInv, [Next]_vars, NEW s \in Peers
  PROVE  FlowStep(s)
<1>1. Types /\ Typing' /\ \A e \in Peers : RecvSide(e)
  BY IInvTypes, TypingStep, Zenon DEF IInv
<1>2. Peer(s) \in Peers /\ Peer(Peer(s)) = s
  BY ThePeers, Zenon
<1>3. \A e \in Peers : e = s \/ e = Peer(s)
  BY DEF Peers, Peer
<1>4. ASSUME NEW e \in Peers, Moves(e) PROVE FlowStep(s)
  BY <1>1, <1>2, <1>3, <1>4, StepOfSendingEnd, StepOfReceivingEnd, Zenon
<1>5. ASSUME NEW e \in Peers, Land(e) PROVE FlowStep(s)
  BY <1>1, <1>2, <1>3, <1>5, LandStep, Zenon
<1>6. CASE UNCHANGED vars
  BY <1>6
     DEF FlowStep, Way!vars, vars, Held, InFlight, Landed, Arrived, Pending,
     Returning,
              Side, Broken
<1>7. QED
  BY <1>4, <1>5, <1>6, NextCases, Zenon DEF Moves

(* The initial state maps to CreditFlow's.                                 *)
LEMMA WayInit ==
  ASSUME Init, NEW s \in Peers
  PROVE  Way(s)!Init
<1>1. Peer(s) \in Peers
  BY ThePeers, Zenon
<1>2. \A e \in Peers :
        /\ snd[e].pc = "idle" /\ rcv[e].n = 0 /\ cls[e] = "open"
        /\ tp[e].up = FALSE /\ tp[e].closed = FALSE /\ tp[e].credits = Depth
        /\ tp[e].pending = 0 /\ tp[e].recvQ = <<>>
        /\ nic[e].sq = <<>> /\ nic[e].landed = 0 /\ nic[e].ring = 0
        /\ nic[e].inbox = <<>> /\ nic[e].down = FALSE /\ hist[e].lost = 0
  BY DEF Init
<1>3. \A e \in Peers : \A what : InFlight(e, what) = 0 /\ Arrived(e, what) = 0
  BY <1>2, EmptyCarriesNothing, Zenon DEF InFlight, Arrived
<1>4. Held(s) = 0 /\ Landed(s) = 0 /\ Pending(s) = 0 /\ Returning(s) = 0 /\ Side(s) = "none"
  BY <1>1, <1>2, <1>3 DEF Held, Landed, Pending, Returning, Side
<1>5. Broken = FALSE
  BY <1>2 DEF Broken
<1>6. QED
  BY <1>1, <1>2, <1>3, <1>4, <1>5 DEF Way!Init

(* The data path implements credit flow control: under the mapping of      *)
(* TransportProperties every behaviour of Transport is one of CreditFlow   *)
(* from A to B.                                                            *)
THEOREM FlowImplemented == Spec => ImplementsCreditFlow
<1>1. Init => Flow!Init
  <2>1. "A" \in Peers
    BY DEF Peers
  <2>2. Init => Way("A")!Init
    BY <2>1, WayInit
  <2>3. Way("A")!Init => Flow!Init
    BY DEF Way!Init, Flow!Init, Peer, p, q
  <2>4. QED
    BY <2>2, <2>3
<1>2. IInv /\ [Next]_vars => [Flow!Next]_(Flow!vars)
  <2>1. "A" \in Peers
    BY DEF Peers
  <2>2. IInv /\ [Next]_vars => FlowStep("A")
    BY <2>1, EveryStep, Zenon
  <2>3. FlowStep("A") => [Flow!Next]_(Flow!vars)
    BY DEF FlowStep, Way!Next, Way!vars, Flow!Next, Flow!vars, p, q, Peer,
      Way!RingUp, Way!Acquire, Way!Post, Way!PostFails, Way!Land, Way!Consume, Way!Return, Way!Release, Way!CtlLand, Way!CtlRepost, Way!Break, Way!Lose, Way!LoseSlot,
      Flow!RingUp, Flow!Acquire, Flow!Post, Flow!PostFails, Flow!Land, Flow!Consume, Flow!Return, Flow!Release, Flow!CtlLand, Flow!CtlRepost, Flow!Break, Flow!Lose, Flow!LoseSlot
  <2>4. QED
    BY <2>2, <2>3, Zenon
<1>3. QED
  BY <1>1, <1>2, InductiveInvariant, PTL
     DEF Spec, ImplementsCreditFlow, Flow!Spec

(* And from B to A.                                                        *)
LEMMA FlowBackImplemented == Spec => FlowBack!Spec
<1>1. Init => FlowBack!Init
  <2>1. "B" \in Peers
    BY DEF Peers
  <2>2. Init => Way("B")!Init
    BY <2>1, WayInit
  <2>3. Way("B")!Init => FlowBack!Init
    BY DEF Way!Init, FlowBack!Init, Peer, p, q
  <2>4. QED
    BY <2>2, <2>3
<1>2. IInv /\ [Next]_vars => [FlowBack!Next]_(FlowBack!vars)
  <2>1. "B" \in Peers
    BY DEF Peers
  <2>2. IInv /\ [Next]_vars => FlowStep("B")
    BY <2>1, EveryStep, Zenon
  <2>3. FlowStep("B") => [FlowBack!Next]_(FlowBack!vars)
    BY DEF FlowStep, Way!Next, Way!vars, FlowBack!Next, FlowBack!vars, p, q, Peer,
      Way!RingUp, Way!Acquire, Way!Post, Way!PostFails, Way!Land, Way!Consume, Way!Return, Way!Release, Way!CtlLand, Way!CtlRepost, Way!Break, Way!Lose, Way!LoseSlot,
      FlowBack!RingUp, FlowBack!Acquire, FlowBack!Post, FlowBack!PostFails, FlowBack!Land, FlowBack!Consume, FlowBack!Return, FlowBack!Release, FlowBack!CtlLand, FlowBack!CtlRepost, FlowBack!Break, FlowBack!Lose, FlowBack!LoseSlot
  <2>4. QED
    BY <2>2, <2>3, Zenon
<1>3. QED
  BY <1>1, <1>2, InductiveInvariant, PTL DEF Spec, FlowBack!Spec

(* The window of the transport is the window of CreditFlow.                *)
LEMMA FlowWindow == Flow!DepthAssumption /\ FlowBack!DepthAssumption
BY DepthAssumption DEF Flow!DepthAssumption, FlowBack!DepthAssumption

-----------------------------------------------------------------------------
(* What holds of the data path in every state.                             *)

(* creditTracker's purpose (credit.go:5-10): in both directions each       *)
(* credit is with the sender, in a frame, owed or on its way back, and     *)
(* each RECV is posted or holds a frame, in every state.                   *)
THEOREM CreditsAreKept == Spec => []CreditsAccounted
<1>1. Flow!Spec => []Flow!CreditsAccounted
  BY FlowWindow, Flow!CreditsAreAccounted
<1>2. FlowBack!Spec => []FlowBack!CreditsAccounted
  BY FlowWindow, FlowBack!CreditsAreAccounted
<1>3. QED
  BY <1>1, <1>2, FlowImplemented, FlowBackImplemented, PTL
     DEF CreditsAccounted, ImplementsCreditFlow

(* In both directions the data frames in flight fit the RECVs the peer has *)
(* posted, but for those a control frame holds.                            *)
THEOREM DataAlwaysFits == Spec => []DataFits
<1>1. Flow!Spec => []Flow!DataFits
  BY FlowWindow, Flow!DataNeverOverruns
<1>2. FlowBack!Spec => []FlowBack!DataFits
  BY FlowWindow, FlowBack!DataNeverOverruns
<1>3. QED
  BY <1>1, <1>2, FlowImplemented, FlowBackImplemented, PTL
     DEF DataFits, ImplementsCreditFlow

(* transport_linux.go:366 "so no stray tokens leak into a later call":     *)
(* whatever calls succeed, fail or are cut off, the completions a sender   *)
(* waits for are those that will come, and each bounce slot is free or on  *)
(* the send queue.                                                         *)
THEOREM SendPathKept == Spec => []SendPathAccounted
<1>1. IInv => SendPathAccounted
  BY Zenon
     DEF IInv, SendSide, SlotsOf, TokensOf, Due, SendPathAccounted,
     TokensAccounted,
         SlotsAccounted
<1>2. QED
  BY <1>1, InductiveInvariant, PTL

(* sendMsg returns nil only once the whole message has been sent: the last *)
(* frame of every message it has reported lies in a RECV of the peer.      *)
THEOREM NilIsLanded == Spec => []NilMeansLanded
<1>1. IInv => NilMeansLanded
  BY Zenon DEF IInv, SendSide, PromiseOf, NilMeansLanded
<1>2. QED
  BY <1>1, InductiveInvariant, PTL

(* What the accounts of both directions say of either.                     *)
LEMMA EitherWay ==
  ASSUME CreditsAccounted, NEW s \in Peers
  PROVE  /\ tp[s].credits + Held(s) + hist[s].lost + InFlight(s, "data") + Landed(s)
               + Pending(s) + Returning(s) <= Depth
         /\ ~Broken => tp[s].credits + Held(s) + hist[s].lost + InFlight(s, "data") + Landed(s)
                         + Pending(s) + Returning(s) = Depth
         /\ nic[Peer(s)].ring + Arrived(Peer(s), "ctl") + Landed(s) <= Depth
<1>1. CASE s = "A"
  BY <1>1
     DEF CreditsAccounted, Flow!CreditsAccounted, Flow!CreditsConserved,
     Flow!RingConserved, p, q, Peer
<1>2. CASE s = "B"
  BY <1>2
     DEF CreditsAccounted, FlowBack!CreditsAccounted,
     FlowBack!CreditsConserved, FlowBack!RingConserved, p, q, Peer
<1>3. QED
  BY <1>1, <1>2 DEF Peers

(* The counters stay within their channels because of the accounts.        *)
LEMMA TypeOKFromAccounts == IInv /\ CreditsAccounted => TypeOK
<1> SUFFICES ASSUME IInv, CreditsAccounted PROVE TypeOK
  OBVIOUS
<1>1. Types /\ Typing
  BY IInvTypes, Zenon DEF IInv
<1>2. scene \in Scenes
  BY <1>1 DEF Typing
<1> SUFFICES ASSUME NEW e \in Peers
    PROVE
       /\ snd[e].pc \in {"idle", "drain", "acquire", "post", "wait"}
       /\ snd[e].call \in 0 .. Len(Script[e]) /\ snd[e].owed \in Int
       /\ rcv[e].pc \in {"idle", "drain", "block", "try", "end", "credit",
                         "return", "stop"}
       /\ rcv[e].n \in 0 .. Depth
       /\ plr[e].pc \in {"off", "poll", "token", "exit"}
       /\ cls[e] \in {"open", "fin", "close", "teardown", "closed"}
       /\ tp[e].credits \in 0 .. Depth /\ tp[e].pending \in 0 .. Depth
       /\ tp[e].sendFree \in 0 .. Depth /\ tp[e].sendDone \in 0 .. Depth
       /\ tp[e].creditFree \in 0 .. CreditSlots
       /\ tp[e].recvQ \in Seq(DataFrames) /\ Len(tp[e].recvQ) <= Depth
       /\ nic[e].sq \in Seq(Frames) /\ Len(nic[e].sq) <= scene.sqCap
       /\ nic[e].landed \in 0 .. Len(nic[e].sq)
       /\ nic[e].ring \in 0 .. Depth /\ nic[e].inbox \in Seq(Frames)
  BY <1>2, Zenon DEF TypeOK
<1>3. SendSide(e) /\ RecvSide(e)
  BY DEF IInv
<1>4. Peer(e) \in Peers /\ Peer(Peer(e)) = e
  BY ThePeers, Zenon
<1>5. /\ tp[e].credits \in Nat /\ Held(e) \in Nat /\ hist[e].lost \in Nat
      /\ InFlight(e, "data") \in Nat /\ Landed(e) \in Nat /\ Pending(e) \in Nat
      /\ Returning(e) \in Nat
  <2>1. /\ tp[e].credits \in Nat /\ Held(e) \in Nat /\ hist[e].lost \in Nat
        /\ InFlight(e, "data") \in Nat /\ Landed(e) \in Nat
        /\ Pending(e) \in Nat
        /\ InFlight(Peer(e), "credit") \in Nat /\ Arrived(e, "credit") \in Nat
    BY <1>1, FlowTypes, Zenon
  <2>2. Returning(e) \in Nat
    BY <2>1 DEF Returning
  <2>3. QED
    BY <2>1, <2>2, Zenon
<1>6. tp[e].credits <= Depth
  <2>1. tp[e].credits + Held(e) + hist[e].lost + InFlight(e, "data") + Landed(e)
               + Pending(e) + Returning(e) <= Depth
    BY EitherWay, Zenon
  <2>2. QED
    BY <1>5, <2>1, DepthAssumption
<1>7. /\ nic[e].ring \in Nat /\ Arrived(e, "ctl") \in Nat
      /\ Arrived(e, "data") \in Nat
      /\ Len(tp[e].recvQ) \in Nat
  BY <1>1, <1>4, FlowTypes
<1>8. nic[e].ring <= Depth /\ Len(tp[e].recvQ) <= Depth
  <2>1. nic[e].ring + Arrived(e, "ctl") + Landed(Peer(e)) <= Depth
    BY <1>4, EitherWay
  <2>2. Landed(Peer(e)) = Arrived(e, "data") + Len(tp[e].recvQ)
    BY <1>4 DEF Landed
  <2> DEFINE n == Len(tp[e].recvQ)
  <2>3. n \in Nat /\ Landed(Peer(e)) = Arrived(e, "data") + n
    BY <1>7, <2>2
  <2> HIDE DEF n
  <2>4. nic[e].ring <= Depth /\ n <= Depth
    BY <1>7, <2>1, <2>3, DepthAssumption
  <2>5. QED
    BY <2>4 DEF n
<1>9. /\ snd[e].pc \in SendPcs /\ snd[e].owed \in Int /\ snd[e].call \in Nat
      /\ rcv[e].pc \in RecvPcs /\ rcv[e].n \in Nat
      /\ plr[e].pc \in PollPcs
      /\ cls[e] \in {"open", "fin", "close", "teardown", "closed"}
      /\ tp[e].pending \in Nat /\ tp[e].sendFree \in Nat
      /\ tp[e].sendDone \in Tokens
      /\ tp[e].creditFree \in Nat /\ tp[e].recvQ \in DataSeq
      /\ nic[e].sq \in FrameSeq /\ nic[e].landed \in Nat
      /\ nic[e].inbox \in FrameSeq
  BY <1>1, SndFields, RcvFields, PlrFields, TpFields, NicFields DEF Typing
<1>10. snd[e].call \in 0 .. Len(Script[e])
  <2>1. Script[e] \in Seq(Seq(Nat)) /\ snd[e].call <= Len(Script[e])
    BY <1>2, <1>3, ScriptType, Zenon DEF SendSide, CallOf
  <2>2. QED
    BY <1>9, <2>1
<1>11. rcv[e].n \in 0 .. Depth
  BY <1>3, <1>9, DepthAssumption DEF RecvSide, CreditInHand
<1>12. tp[e].pending \in 0 .. Depth
  <2>1. tp[e].pending < CreditFlushThreshold
    BY <1>3 DEF RecvSide
  <2>2. QED
    BY <1>9, <2>1, ThresholdFits, DepthAssumption
<1>13. tp[e].sendFree \in 0 .. Depth /\ tp[e].creditFree \in 0 .. CreditSlots
  <2>1. /\ tp[e].sendFree + Queued(e, "data") <= Depth
        /\ tp[e].creditFree + Queued(e, "ctl") <= CreditSlots
        /\ Queued(e, "data") \in Nat /\ Queued(e, "ctl") \in Nat
    BY <1>1, <1>3, SendTypes, Zenon DEF SendSide, SlotsOf
  <2>2. QED
    BY <1>9, <2>1, DepthAssumption, TransportAssumption, SMTT(20)
<1>14. /\ nic[e].sq \in Seq(Frames) /\ Len(nic[e].sq) <= scene.sqCap
       /\ nic[e].landed \in 0 .. Len(nic[e].sq)
  BY <1>3, <1>9 DEF SendSide, SlotsOf, LandedOfQueued, FrameSeq
<1>15. /\ snd[e].pc \in {"idle", "drain", "acquire", "post", "wait"}
       /\ rcv[e].pc \in {"idle", "drain", "block", "try", "end", "credit",
                         "return", "stop"}
       /\ plr[e].pc \in {"off", "poll", "token", "exit"}
  BY <1>9, Zenon DEF SendPcs, RecvPcs, PollPcs
<1>16. tp[e].credits \in 0 .. Depth /\ nic[e].ring \in 0 .. Depth
  <2>1. tp[e].credits \in Nat /\ nic[e].ring \in Nat
    BY <1>5, <1>7, Zenon
  <2>2. tp[e].credits <= Depth /\ nic[e].ring <= Depth
    BY <1>6, <1>8, Zenon
  <2>3. QED
    BY <2>1, <2>2, DepthAssumption
<1>17. /\ tp[e].sendDone \in 0 .. Depth
       /\ tp[e].recvQ \in Seq(DataFrames) /\ nic[e].inbox \in Seq(Frames)
  BY <1>9, Zenon DEF Tokens, DataSeq, FrameSeq
<1>18. QED
  BY <1>8, <1>9, <1>10, <1>11, <1>12, <1>13, <1>14, <1>15, <1>16, <1>17, Zenon

(* The state is well typed, and every counter, queue and slot within the   *)
(* capacity of its channel or ring.                                        *)
THEOREM TypeCorrect == Spec => []TypeOK
BY TypeOKFromAccounts, InductiveInvariant, CreditsAreKept, PTL

(* A sender without a credit, its peer's receiver blocked with nothing     *)
(* pending and fewer refusals than credits: the accounts leave the credits *)
(* in a frame or on their way back, and nowhere else.                      *)
LEMMA ServedFromAccounts == IInv /\ CreditsAccounted => StarvedSenderIsServed
<1> SUFFICES ASSUME IInv, CreditsAccounted, NEW e \in Peers,
                    snd[e].pc = "acquire", tp[e].credits = 0,
                    rcv[Peer(e)].pc = "block", ~Broken, hist[e].lost < Depth
             PROVE  LET r == Peer(e) IN
                    \/ tp[r].recvQ # <<>> \/ Arrived(r, "data") > 0
                    \/ InFlight(e, "data") > 0
                    \/ InFlight(r, "credit") + Arrived(e, "credit") > 0
  BY Zenon DEF StarvedSenderIsServed
<1> DEFINE r == Peer(e)
<1>1. Types
  BY IInvTypes, Zenon
<1>2. r \in Peers /\ RecvSide(r)
  BY ThePeers, Zenon DEF IInv
<1>3. /\ hist[e].lost \in Nat
      /\ InFlight(e, "data") \in Nat
      /\ InFlight(r, "credit") \in Nat /\ Arrived(e, "credit") \in Nat
      /\ Arrived(r, "data") \in Nat /\ Len(tp[r].recvQ) \in Nat
      /\ Returning(e) = InFlight(r, "credit") + Arrived(e, "credit")
  BY <1>1, FlowTypes, Zenon
<1>4. tp[r].recvQ = <<>> => Len(tp[r].recvQ) = 0
  OBVIOUS
<1> DEFINE n == Len(tp[r].recvQ)
<1>5. Landed(e) = Arrived(r, "data") + n /\ n \in Nat
  BY <1>3 DEF Landed
<1>6. Held(e) = 0
  BY DEF Held
<1>7. Pending(e) = 0
  BY <1>2 DEF Pending, RecvSide, CreditInHand
<1>8. tp[e].credits + Held(e) + hist[e].lost + InFlight(e, "data") + Landed(e)
        + Pending(e) + Returning(e) = Depth
  BY EitherWay, Zenon
<1> HIDE DEF n, r
<1>9. \/ n > 0 \/ Arrived(r, "data") > 0 \/ InFlight(e, "data") > 0
      \/ InFlight(r, "credit") + Arrived(e, "credit") > 0
  BY <1>3, <1>5, <1>6, <1>7, <1>8, DepthAssumption
<1>10. QED
  BY <1>4, <1>9 DEF n, r

(* Batched credit return cannot starve the sender.                         *)
THEOREM StarvedIsServed == Spec => []StarvedSenderIsServed
BY ServedFromAccounts, InductiveInvariant, CreditsAreKept, PTL
=============================================================================
