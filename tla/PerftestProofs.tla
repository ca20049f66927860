--------------------------- MODULE PerftestProofs ---------------------------
(***************************************************************************)
(* What a benchmark counts has happened, and its window is kept, for every *)
(* number of iterations, every window and queue size, every first byte of  *)
(* the buffer and every number of sentinel values.                         *)
(***************************************************************************)
EXTENDS Perftest, FiniteSetTheorems, TLAPS

Kinds == {"send", "recv", "error"}

-----------------------------------------------------------------------------
(* Completions of a kind, counted.                                         *)
Positions(kind, s) == {i \in 1 .. Len(s) : s[i] = kind}

LEMMA OfPositions ==
  ASSUME NEW s \in Seq(Kinds), NEW kind
  PROVE  /\ Of(kind, s) = Cardinality(Positions(kind, s))
         /\ IsFiniteSet(Positions(kind, s))
         /\ Of(kind, s) \in Nat /\ Of(kind, s) <= Len(s)
<1>1. Len(s) \in Nat /\ DOMAIN s = 1 .. Len(s)
  OBVIOUS
<1>2. IsFiniteSet(1 .. Len(s)) /\ Cardinality(1 .. Len(s)) = Len(s)
  BY <1>1, FS_Interval
<1>3. Positions(kind, s) \in SUBSET (1 .. Len(s))
  BY DEF Positions
<1>4. /\ IsFiniteSet(Positions(kind, s))
      /\ Cardinality(Positions(kind, s)) <= Len(s)
  BY <1>2, <1>3, FS_Subset
<1>5. Cardinality(Positions(kind, s)) \in Nat
  BY <1>4, FS_CardinalityType
<1>6. Of(kind, s) = Cardinality(Positions(kind, s))
  BY <1>1 DEF Of, Positions
<1> QED
  BY <1>4, <1>5, <1>6

LEMMA OfEmpty == \A kind : Of(kind, <<>>) = 0
<1> TAKE kind
<1>1. Positions(kind, <<>>) = {} /\ <<>> \in Seq(Kinds)
  BY DEF Positions
<1> QED
  BY <1>1, OfPositions, FS_EmptySet

LEMMA OfAppend ==
  ASSUME NEW s \in Seq(Kinds), NEW e \in Kinds, NEW kind
  PROVE  /\ Append(s, e) \in Seq(Kinds)
         /\ Of(kind, Append(s, e)) = IF e = kind THEN Of(kind, s) + 1 ELSE Of(kind, s)
<1> DEFINE n == Len(s)
           longer == Append(s, e)
<1>1. /\ longer \in Seq(Kinds) /\ n \in Nat /\ Len(longer) = n + 1
      /\ longer[n + 1] = e /\ \A i \in 1 .. n : longer[i] = s[i]
      /\ 1 .. n + 1 = (1 .. n) \cup {n + 1} /\ n + 1 \notin 1 .. n
  OBVIOUS
<1> HIDE DEF longer
<1>2. Positions(kind, longer) =
        IF e = kind THEN Positions(kind, s) \cup {n + 1} ELSE Positions(kind, s)
  BY <1>1 DEF Positions
<1>3. n + 1 \notin Positions(kind, s)
  BY <1>1 DEF Positions
<1>4. /\ IsFiniteSet(Positions(kind, s)) /\ Of(kind, s) = Cardinality(Positions(kind, s))
      /\ Of(kind, longer) = Cardinality(Positions(kind, longer))
  BY <1>1, OfPositions
<1>5. Cardinality(Positions(kind, s) \cup {n + 1}) = Cardinality(Positions(kind, s)) + 1
  BY <1>3, <1>4, FS_AddElement
<1> QED
  BY <1>1, <1>2, <1>4, <1>5 DEF longer

(* A sequence cut in two: what is in it is in either part.                 *)
LEMMA OfCut ==
  ASSUME NEW s \in Seq(Kinds), NEW n \in 0 .. Len(s), NEW t \in Seq(Kinds),
         NEW u \in Seq(Kinds), Len(t) = n, \A i \in 1 .. n : t[i] = s[i],
         n + Len(u) = Len(s), \A i \in 1 .. Len(u) : u[i] = s[i + n], NEW kind
  PROVE  Of(kind, s) = Of(kind, t) + Of(kind, u)
<1> DEFINE m == Len(s)
           High == {i \in n + 1 .. m : s[i] = kind}
           Low  == Positions(kind, t)
           Rest == Positions(kind, u)
           f == [i \in Rest |-> i + n]
<1>1. m \in Nat /\ n \in Nat /\ n <= m /\ Len(u) = m - n /\ m - n \in Nat
  OBVIOUS
<1>2. Positions(kind, s) = Low \cup High /\ Low \cap High = {}
  BY <1>1 DEF Positions
<1>3. \A i \in Rest : i \in 1 .. m - n /\ i + n \in High
  BY <1>1 DEF Positions
<1>4. \A j \in High : j - n \in Rest /\ (j - n) + n = j
  <2> SUFFICES ASSUME NEW j \in n + 1 .. m, s[j] = kind
               PROVE  j - n \in Rest /\ (j - n) + n = j
    OBVIOUS
  <2>1. j - n \in 1 .. m - n /\ (j - n) + n = j
    BY <1>1
  <2>2. u[j - n] = s[j]
    BY <1>1, <2>1
  <2> QED
    BY <1>1, <2>1, <2>2 DEF Positions
<1>5. f \in Bijection(Rest, High)
  <2>1. f \in [Rest -> High]
    BY <1>3
  <2>2. \A i, j \in Rest : f[i] = f[j] => i = j
    BY <1>1, <1>3
  <2>3. ASSUME NEW j \in High PROVE \E i \in Rest : f[i] = j
    <3>1. j - n \in Rest /\ (j - n) + n = j
      BY <1>4
    <3>2. f[j - n] = j
      <4> HIDE DEF Rest, High
      <4> QED
        BY <3>1
    <3> HIDE DEF f, High, Rest
    <3> QED
      BY <3>1, <3>2
  <2> HIDE DEF f, High, Rest
  <2> QED
    BY <2>1, <2>2, <2>3 DEF Bijection, Injection, Surjection, IsInjective
<1> HIDE DEF f, High, m
<1>6. IsFiniteSet(High) /\ Cardinality(High) = Cardinality(Rest)
  BY <1>5, OfPositions, FS_Bijection DEF ExistsBijection
<1>7. IsFiniteSet(Low)
  BY OfPositions
<1>8. Cardinality(Low \cup High) = Cardinality(Low) + Cardinality(High)
  <2> HIDE DEF Low
  <2>1. /\ Cardinality(Low) \in Nat /\ Cardinality(High) \in Nat
        /\ Cardinality(Low \cap High) = 0
    BY <1>2, <1>6, <1>7, FS_CardinalityType, FS_EmptySet
  <2>2. Cardinality(Low \cup High) =
          Cardinality(Low) + Cardinality(High) - Cardinality(Low \cap High)
    BY <1>6, <1>7, FS_Union
  <2> QED
    BY <2>1, <2>2
<1> QED
  BY <1>2, <1>6, <1>8, OfPositions

(* The first completion, and the others.                                   *)
LEMMA OfTail ==
  ASSUME NEW s \in Seq(Kinds), s # <<>>
  PROVE  /\ Tail(s) \in Seq(Kinds) /\ Head(s) \in Kinds
         /\ \A kind : Of(kind, s) = IF Head(s) = kind THEN Of(kind, Tail(s)) + 1
                                                      ELSE Of(kind, Tail(s))
<1>1. /\ Len(s) \in Nat /\ 1 \in 0 .. Len(s) /\ Tail(s) \in Seq(Kinds)
      /\ 1 + Len(Tail(s)) = Len(s) /\ Head(s) \in Kinds
      /\ \A i \in 1 .. Len(Tail(s)) : Tail(s)[i] = s[i + 1]
      /\ Head(s) = s[1]
  OBVIOUS
<1> DEFINE t == Append(<<>>, Head(s))
<1>2. /\ t \in Seq(Kinds) /\ Len(t) = 1 /\ t[1] = Head(s) /\ <<>> \in Seq(Kinds)
  BY <1>1
<1> HIDE DEF t
<1>3. \A i \in 1 .. 1 : t[i] = s[i]
  BY <1>1, <1>2
<1>4. ASSUME NEW kind
      PROVE  Of(kind, s) = IF Head(s) = kind THEN Of(kind, Tail(s)) + 1
                                             ELSE Of(kind, Tail(s))
  <2>1. Of(kind, s) = Of(kind, t) + Of(kind, Tail(s))
    <3> DEFINE u == Tail(s)
    <3>1. /\ u \in Seq(Kinds) /\ 1 + Len(u) = Len(s)
          /\ \A i \in 1 .. Len(u) : u[i] = s[i + 1]
      BY <1>1
    <3> HIDE DEF u
    <3>2. Of(kind, s) = Of(kind, t) + Of(kind, u)
      <4> DEFINE one == 1
      <4>1. /\ one \in 0 .. Len(s) /\ Len(t) = one /\ one + Len(u) = Len(s)
            /\ \A i \in 1 .. one : t[i] = s[i]
            /\ \A i \in 1 .. Len(u) : u[i] = s[i + one]
        BY <1>1, <1>2, <1>3, <3>1
      <4> HIDE DEF one
      <4> QED
        BY <1>2, <3>1, <4>1, OfCut
    <3> QED
      BY <3>2 DEF u
  <2>2. Of(kind, t) = IF Head(s) = kind THEN 1 ELSE 0
    <3>1. Of(kind, t) = IF Head(s) = kind THEN Of(kind, <<>>) + 1 ELSE Of(kind, <<>>)
      BY <1>1, <1>2, OfAppend, Zenon DEF t
    <3> QED
      BY <3>1, OfEmpty
  <2>3. Of(kind, Tail(s)) \in Nat
    BY <1>1, OfPositions
  <2> QED
    BY <2>1, <2>2, <2>3
<1> QED
  BY <1>1, <1>4

(* A completion of some kind that is there is counted.                     *)
LEMMA OfHead ==
  ASSUME NEW s \in Seq(Kinds), s # <<>>
  PROVE  Of(Head(s), s) > 0
<1>1. Head(s) \in Kinds /\ Tail(s) \in Seq(Kinds)
  BY OfTail
<1>2. Of(Head(s), Tail(s)) \in Nat
  BY <1>1, OfPositions
<1> QED
  BY <1>2, OfTail

(* All are of one of the three kinds.                                      *)
LEMMA OfKinds ==
  ASSUME NEW s \in Seq(Kinds)
  PROVE  Len(s) = Of("send", s) + Of("recv", s) + Of("error", s)
<1> DEFINE X == Positions("send", s)
           Y == Positions("recv", s)
           Z == Positions("error", s)
<1>1. Len(s) \in Nat /\ \A i \in 1 .. Len(s) : s[i] \in Kinds
  OBVIOUS
<1>2. /\ IsFiniteSet(X) /\ IsFiniteSet(Y) /\ IsFiniteSet(Z)
      /\ Of("send", s) = Cardinality(X) /\ Of("recv", s) = Cardinality(Y)
      /\ Of("error", s) = Cardinality(Z)
      /\ Of("send", s) \in Nat /\ Of("recv", s) \in Nat /\ Of("error", s) \in Nat
  BY OfPositions
<1>3. /\ X \cap Y = {} /\ (X \cup Y) \cap Z = {}
      /\ (X \cup Y) \cup Z = 1 .. Len(s)
  BY <1>1 DEF Positions, Kinds
<1>4. Cardinality(1 .. Len(s)) = Len(s)
  <2> DEFINE n == Len(s)
  <2>1. n \in Nat /\ 1 \in Int /\ n \in Int
    BY <1>1
  <2> HIDE DEF n
  <2>2. Cardinality(1 .. n) = IF 1 > n THEN 0 ELSE n - 1 + 1
    BY <2>1, FS_Interval
  <2>3. Cardinality(1 .. n) = n
    BY <2>1, <2>2
  <2> QED
    BY <2>3 DEF n
<1> HIDE DEF X, Y, Z
<1>5. Cardinality({}) = 0
  BY FS_EmptySet
<1>6. IsFiniteSet(X \cup Y) /\ Cardinality(X \cup Y) = Cardinality(X) + Cardinality(Y)
  <2>1. /\ IsFiniteSet(X \cup Y)
        /\ Cardinality(X \cup Y) = Cardinality(X) + Cardinality(Y) - Cardinality(X \cap Y)
    BY <1>2, FS_Union
  <2>2. Cardinality(X \cap Y) = 0
    BY <1>3, <1>5, Zenon
  <2>3. Cardinality(X) \in Nat /\ Cardinality(Y) \in Nat
    BY <1>2
  <2> QED
    BY <2>1, <2>2, <2>3
<1>7. Cardinality((X \cup Y) \cup Z) = Cardinality(X \cup Y) + Cardinality(Z)
  <2>1. Cardinality((X \cup Y) \cup Z) =
          Cardinality(X \cup Y) + Cardinality(Z) - Cardinality((X \cup Y) \cap Z)
    BY <1>2, <1>6, FS_Union
  <2>2. Cardinality((X \cup Y) \cap Z) = 0
    BY <1>3, <1>5, Zenon
  <2>3. Cardinality(X \cup Y) \in Nat /\ Cardinality(Z) \in Nat
    BY <1>2, <1>6
  <2> QED
    BY <2>1, <2>2, <2>3
<1> QED
  BY <1>2, <1>3, <1>4, <1>6, <1>7

-----------------------------------------------------------------------------
(* Where a loop is, and what completions it has. *)
Places == {"prime", "poll", "reap", "round", "done", "error"}

Loop == [pc : Places, at : 1 .. 4, done : Nat, batch : Seq(Kinds), extra : Nat]
Nics == [sent : Nat, landed : Nat, lost : Nat, acked : Nat, reaped : Nat,
         recvs : Nat, cq : Seq(Kinds), up : BOOLEAN, mem : Nat]

Typed == test \in Tests /\ loop \in [Sides -> Loop] /\ nic \in [Sides -> Nics]

(* RECVs that p has posted, and the messages it has taken out of its       *)
(* completion queue; without two-sided operations there are none.          *)
Given(p) == nic[p].recvs + nic[Peer(p)].landed
Heard(p) == nic[Peer(p)].landed - Of("recv", nic[p].cq)

(* The queues: an operation is posted, lands or is lost, is acknowledged   *)
(* and polled, over RC in this order, over UD landing at any time once it  *)
(* is posted; and an error says that the peer is gone.                     *)
Queues(p) ==
  /\ nic[p].acked = nic[p].reaped + Of("send", nic[p].cq)
  /\ nic[p].acked <= nic[p].sent /\ (~test.ud => nic[p].acked <= nic[p].landed)
  /\ nic[p].landed + nic[p].lost <= nic[p].sent
  /\ ~test.ud => nic[p].lost = 0
  /\ Of("recv", nic[p].cq) <= IF TwoSided THEN nic[Peer(p)].landed ELSE 0
  /\ Of("error", nic[p].cq) + Of("error", loop[p].batch) > 0 => ~nic[Peer(p)].up
  /\ Passive(p) => loop[p].pc = "done" /\ nic[p].sent = 0
  /\ loop[p].pc = "error" => ~nic[Peer(p)].up \/ test.queue < test.depth

(* The completions a bandwidth loop has taken, and their kind.             *)
Taken(p)    == IF p = "C" THEN nic[p].reaped ELSE Heard(p)
Reaps(p)    == IF p = "C" THEN "send" ELSE "recv"

Lesser(m, n) == IF m < n THEN m ELSE n

(* A bandwidth loop: what it has taken it has counted or has in hand, and  *)
(* the window is full or all that is left.                                 *)
Streaming(p) ==
  /\ loop[p].pc \in {"prime", "poll", "reap", "done", "error"}
  /\ p = "S" => nic[p].sent = 0 /\ Of("send", loop[p].batch) = 0
  /\ p = "C" => Of("recv", loop[p].batch) = 0
  /\ ~Passive(p) => Taken(p) = loop[p].done + Of(Reaps(p), loop[p].batch)
  /\ loop[p].pc \in {"prime", "poll"} => loop[p].batch = <<>>
  /\ loop[p].pc = "prime" =>
       loop[p].done = 0 /\ Outstanding(p) <= Lesser(test.depth, Iters)
  /\ loop[p].pc \in {"poll", "reap"} =>
       /\ loop[p].done <= Iters
       /\ Outstanding(p) = loop[p].done + Lesser(test.depth, Iters - loop[p].done)

(* A latency loop: where its operations and its first poll are in a round. *)
SendStep(p) ==
  IF test.tool = "read_lat" THEN 1 ELSE IF p = "C" THEN 2 ELSE 3
FirstPoll(p) ==
  IF test.tool = "read_lat" THEN 2
  ELSE IF p = "C" THEN 3 ELSE IF test.tool = "send_lat" THEN 2 ELSE 4
Past(p, step) == IF loop[p].at > step THEN 1 ELSE 0

(* Up to the first poll of a round everything of the rounds before has     *)
(* been taken; from then on polls have taken at least one each.            *)
PingPong(p) ==
  /\ loop[p].pc \in {"round", "done", "error"}
  /\ loop[p].at <= Len(Steps(p))
  /\ loop[p].batch = <<>>
  /\ nic[p].sent = loop[p].done + Past(p, SendStep(p))
  /\ loop[p].done <= nic[p].reaped
  /\ TwoSided => /\ Given(p) = loop[p].done + Past(p, 1)
                 /\ loop[p].done <= Heard(p)
                 /\ p = "S" => nic[p].sent <= Heard(p)
  /\ loop[p].pc # "error" =>
       IF loop[p].at <= FirstPoll(p)
         THEN /\ nic[p].reaped = loop[p].done /\ loop[p].extra = 0
              /\ TwoSided => Heard(p) = loop[p].done
         ELSE nic[p].reaped + (IF TwoSided THEN Heard(p) ELSE 0) =
                (IF TwoSided THEN 2 ELSE 1) * loop[p].done + 1 + loop[p].extra

(* The sentinel bytes: the writes of the two sides land in turn, and the   *)
(* last to land or to be set is what a buffer shows.                       *)
Sets == loop["S"].done + Past("S", 2)

Shows ==
  /\ nic["S"].mem = IF nic["C"].landed > Sets THEN Sentinel(nic["C"].landed - 1)
                    ELSE IF Sets = 0 THEN test.byte ELSE Echo(Sets - 1)
  /\ loop["C"].at > 1 =>
       nic["C"].mem = IF nic["S"].landed > loop["C"].done THEN Echo(loop["C"].done)
                      ELSE Sentinel(loop["C"].done)

InTurn ==
  /\ nic["S"].sent <= nic["C"].landed
  /\ nic["C"].sent <= nic["S"].landed + 1
  /\ loop["C"].done <= nic["S"].landed
  /\ loop["S"].at > 1 => loop["S"].done < nic["C"].landed

(* What one side relies on, and what the sentinels of write_lat do. *)
Own(p) ==
  /\ Queues(p)
  /\ Bandwidth => Streaming(p)
  /\ ~Bandwidth /\ ~Passive(p) => PingPong(p)

Turn == test.tool = "write_lat" /\ ~Garbled => InTurn /\ Shows

IInv == Typed /\ (\A p \in Sides : Own(p)) /\ Turn

-----------------------------------------------------------------------------
(* The fields of the state. *)
LEMMA LoopFields ==
  ASSUME NEW x \in Loop
  PROVE  /\ x.pc \in Places /\ x.at \in 1 .. 4 /\ x.done \in Nat
         /\ x.batch \in Seq(Kinds) /\ x.extra \in Nat
         /\ \A k : Of(k, x.batch) \in Nat
<1>1. x.batch \in Seq(Kinds)
  BY DEF Loop
<1>2. \A k : Of(k, x.batch) \in Nat
  BY <1>1, OfPositions
<1> QED
  BY <1>1, <1>2 DEF Loop

LEMMA NicFields ==
  ASSUME NEW x \in Nics
  PROVE  /\ x.sent \in Nat /\ x.landed \in Nat /\ x.lost \in Nat
         /\ x.acked \in Nat /\ x.reaped \in Nat /\ x.recvs \in Nat
         /\ x.cq \in Seq(Kinds) /\ x.up \in BOOLEAN /\ x.mem \in Nat
         /\ \A k : Of(k, x.cq) \in Nat
<1>1. x.cq \in Seq(Kinds)
  BY DEF Nics
<1>2. \A k : Of(k, x.cq) \in Nat
  BY <1>1, OfPositions
<1> QED
  BY <1>1, <1>2 DEF Nics

LEMMA ThePeers ==
  /\ "C" \in Sides /\ "S" \in Sides /\ Peer("C") = "S" /\ Peer("S") = "C"
  /\ \A p \in Sides : /\ Peer(p) \in Sides /\ Peer(p) # p /\ Peer(Peer(p)) = p
                      /\ p = "C" \/ p = "S"
                      /\ \A r \in Sides : r = p \/ r = Peer(p)
BY DEF Sides, Peer

(* What a test is never changes. *)
LEMMA SameTest ==
  ASSUME UNCHANGED test
  PROVE  /\ Bandwidth' = Bandwidth /\ TwoSided' = TwoSided /\ Garbled' = Garbled
         /\ \A p : Passive(p)' = Passive(p)
         /\ \A p : Steps(p)' = Steps(p) /\ SendStep(p)' = SendStep(p)
                   /\ FirstPoll(p)' = FirstPoll(p)
BY DEF Bandwidth, TwoSided, Garbled, Passive, Steps, SendStep, FirstPoll

(* A program that moves leaves the other side alone. *)
Alone(p) ==
  /\ loop' \in [Sides -> Loop] /\ nic' \in [Sides -> Nics] /\ test' = test
  /\ loop'[Peer(p)] = loop[Peer(p)] /\ nic'[Peer(p)] = nic[Peer(p)]
  /\ nic'[p].landed = nic[p].landed /\ (nic'[p].up => nic[p].up)

LEMMA OtherStays ==
  ASSUME NEW p \in Sides, Alone(p), Own(Peer(p))
  PROVE  Own(Peer(p))'
<1> DEFINE q == Peer(p)
<1>1. /\ q \in Sides /\ Peer(q) = p /\ q # p /\ p \in {"C", "S"} /\ q \in {"C", "S"}
  BY ThePeers
<1>2. /\ loop'[q] = loop[q] /\ nic'[q] = nic[q] /\ test' = test
      /\ nic'[p].landed = nic[p].landed /\ (nic'[p].up => nic[p].up)
  BY DEF Alone
<1>3. /\ Bandwidth' = Bandwidth /\ TwoSided' = TwoSided
      /\ Passive(q)' = Passive(q) /\ Steps(q)' = Steps(q)
      /\ SendStep(q)' = SendStep(q) /\ FirstPoll(q)' = FirstPoll(q)
  BY <1>2, SameTest
<1> HIDE DEF q
<1>4. Given(q)' = Given(q) /\ Heard(q)' = Heard(q)
  BY <1>1, <1>2 DEF Given, Heard
<1>5. Queues(q) => Queues(q)'
  BY <1>1, <1>2, <1>3 DEF Queues
<1>6. Outstanding(q)' = Outstanding(q)
  BY <1>1, <1>2 DEF Outstanding
<1>7. Streaming(q) => Streaming(q)'
  <2>1. Taken(q)' = Taken(q)
    BY <1>1, <1>2, <1>4 DEF Taken
  <2> QED
    BY <1>1, <1>2, <1>3, <1>6, <2>1 DEF Streaming, Reaps, Lesser
<1>8. PingPong(q) => PingPong(q)'
  BY <1>1, <1>2, <1>3, <1>4 DEF PingPong, Past
<1> QED
  BY <1>3, <1>5, <1>7, <1>8 DEF Own, q

(* ... and keeps the invariant if it keeps its own part, and the bytes. *)
LEMMA ProgramKeeps ==
  ASSUME IInv, NEW p \in Sides, Alone(p), Own(p)', Turn'
  PROVE  IInv'
<1>1. Own(Peer(p))'
  BY OtherStays, ThePeers DEF IInv
<1>2. \A r \in Sides : Own(r)'
  BY <1>1, ThePeers
<1>3. Typed'
  BY DEF Alone, IInv, Typed
<1> QED
  BY <1>2, <1>3 DEF IInv

LEMMA BytesStay ==
  ASSUME Turn, test' = test,
         \A p \in Sides : /\ nic'[p].sent = nic[p].sent
                          /\ nic'[p].landed = nic[p].landed
                          /\ nic'[p].mem = nic[p].mem
                          /\ loop'[p].at = loop[p].at
                          /\ loop'[p].done = loop[p].done
  PROVE  Turn'
<1>1. Garbled' = Garbled
  BY SameTest
<1>2. Sets' = Sets
  BY ThePeers DEF Sets, Past
<1>3. InTurn => InTurn'
  BY ThePeers DEF InTurn
<1>4. Shows => Shows'
  BY <1>2, ThePeers DEF Shows
<1> QED
  BY <1>1, <1>3, <1>4 DEF Turn

LEMMA NoBytes == ASSUME Bandwidth, test' = test PROVE Turn'
BY DEF Bandwidth, Turn

(* Which loop a place belongs to. *)
LEMMA WhichLoop ==
  ASSUME NEW p \in Sides, Own(p), loop[p].pc \notin {"done", "error"}
  PROVE  /\ ~Passive(p)
         /\ loop[p].pc \in {"prime", "poll", "reap"} => Bandwidth /\ Streaming(p)
         /\ loop[p].pc = "round" => ~Bandwidth /\ PingPong(p)
<1>1. ~Passive(p)
  BY DEF Own, Queues
<1>2. Bandwidth => loop[p].pc # "round" /\ Streaming(p)
  BY DEF Own, Streaming
<1>3. ~Bandwidth => loop[p].pc = "round" /\ PingPong(p)
  BY <1>1 DEF Own, PingPong
<1> QED
  BY <1>1, <1>2, <1>3

LEMMA ServerStreams ==
  ASSUME Typed, Bandwidth, ~Passive("S")
  PROVE  TwoSided
BY DEF Bandwidth, Passive, TwoSided

-----------------------------------------------------------------------------
(* What the operations of a program do. *)
LEMMA GoShape ==
  ASSUME Typed, NEW p \in Sides, NEW new \in Loop, Go(p, new)
  PROVE  /\ loop' \in [Sides -> Loop] /\ loop'[p] = new
         /\ loop'[Peer(p)] = loop[Peer(p)]
<1>1. loop \in [Sides -> Loop] /\ Peer(p) # p /\ Peer(p) \in Sides
  BY ThePeers DEF Typed
<1>2. loop' = [loop EXCEPT ![p] = new]
  BY DEF Go
<1> QED
  BY <1>1, <1>2

(* An error ends a loop, and nothing else changes. *)
Failed(p) ==
  /\ Alone(p) /\ nic' = nic
  /\ loop'[p] \in Loop /\ loop'[p].pc = "error" /\ loop'[p].at = loop[p].at
  /\ loop'[p].done = loop[p].done /\ loop'[p].batch = loop[p].batch
  /\ loop'[p].extra = loop[p].extra

LEMMA FailShape ==
  ASSUME Typed, NEW p \in Sides, Go(p, [loop[p] EXCEPT !.pc = "error"]),
         nic' = nic, test' = test
  PROVE  Failed(p)
<1>1. loop[p] \in Loop /\ nic \in [Sides -> Nics]
  BY DEF Typed
<1>2. [loop[p] EXCEPT !.pc = "error"] \in Loop
  BY <1>1 DEF Loop, Places
<1>3. /\ loop' \in [Sides -> Loop] /\ loop'[p] = [loop[p] EXCEPT !.pc = "error"]
      /\ loop'[Peer(p)] = loop[Peer(p)]
  BY <1>2, GoShape
<1>4. Alone(p)
  BY <1>1, <1>3 DEF Alone
<1>5. loop[p].pc \in Places /\ loop[p] = [pc |-> loop[p].pc, at |-> loop[p].at,
          done |-> loop[p].done, batch |-> loop[p].batch, extra |-> loop[p].extra]
  BY <1>1 DEF Loop
<1> QED
  BY <1>2, <1>3, <1>4, <1>5 DEF Failed

(* What a post does to the queues of p, when there is room. *)
Sent(p) ==
  /\ nic'[p].sent = nic[p].sent + 1 /\ nic'[p].recvs = nic[p].recvs
  /\ nic'[p].landed = nic[p].landed /\ nic'[p].lost = nic[p].lost
  /\ nic'[p].acked = nic[p].acked /\ nic'[p].reaped = nic[p].reaped
  /\ nic'[p].cq = nic[p].cq /\ nic'[p].up = nic[p].up /\ nic'[p].mem = nic[p].mem

Supplied(p) ==
  /\ nic'[p].sent = nic[p].sent /\ nic'[p].recvs = nic[p].recvs + 1
  /\ nic'[p].landed = nic[p].landed /\ nic'[p].lost = nic[p].lost
  /\ nic'[p].acked = nic[p].acked /\ nic'[p].reaped = nic[p].reaped
  /\ nic'[p].cq = nic[p].cq /\ nic'[p].up = nic[p].up /\ nic'[p].mem = nic[p].mem

LEMMA NicSends ==
  ASSUME NEW x \in Nics
  PROVE  LET y == [x EXCEPT !.sent = x.sent + 1]
         IN /\ y \in Nics /\ y.sent = x.sent + 1 /\ y.recvs = x.recvs
            /\ y.landed = x.landed /\ y.lost = x.lost /\ y.acked = x.acked
            /\ y.reaped = x.reaped /\ y.cq = x.cq /\ y.up = x.up /\ y.mem = x.mem
BY DEF Nics

LEMMA NicSupplies ==
  ASSUME NEW x \in Nics
  PROVE  LET y == [x EXCEPT !.recvs = x.recvs + 1]
         IN /\ y \in Nics /\ y.recvs = x.recvs + 1 /\ y.sent = x.sent
            /\ y.landed = x.landed /\ y.lost = x.lost /\ y.acked = x.acked
            /\ y.reaped = x.reaped /\ y.cq = x.cq /\ y.up = x.up /\ y.mem = x.mem
BY DEF Nics

LEMMA PostShape ==
  ASSUME Typed, NEW p \in Sides, NEW new \in Loop, Post(p, new), test' = test
  PROVE  \/ /\ Alone(p) /\ loop'[p] = new /\ Sent(p)
            /\ nic[p].sent - nic[p].reaped < test.queue
         \/ Failed(p) /\ ~(nic[p].sent - nic[p].reaped < test.queue)
<1>1. nic \in [Sides -> Nics] /\ nic[p] \in Nics /\ Peer(p) # p /\ Peer(p) \in Sides
  BY ThePeers DEF Typed
<1>2. CASE nic[p].sent - nic[p].reaped < test.queue
  <2>1. Go(p, new) /\ nic' = [nic EXCEPT ![p].sent = @ + 1]
    BY <1>2 DEF Post, SqRoom
  <2>2. /\ loop' \in [Sides -> Loop] /\ loop'[p] = new
        /\ loop'[Peer(p)] = loop[Peer(p)]
    BY <2>1, GoShape
  <2>3. /\ nic'[p] = [nic[p] EXCEPT !.sent = nic[p].sent + 1]
        /\ nic'[Peer(p)] = nic[Peer(p)] /\ nic' = [nic EXCEPT ![p] = nic'[p]]
    BY <1>1, <2>1
  <2>4. nic'[p] \in Nics /\ Sent(p)
    BY <1>1, <2>3, NicSends DEF Sent
  <2>5. nic' \in [Sides -> Nics]
    BY <1>1, <2>3, <2>4
  <2>6. Alone(p)
    BY <2>2, <2>3, <2>4, <2>5 DEF Alone, Sent
  <2> QED
    BY <1>2, <2>2, <2>4, <2>6
<1>3. CASE ~(nic[p].sent - nic[p].reaped < test.queue)
  BY <1>3, FailShape DEF Post, SqRoom
<1> QED
  BY <1>2, <1>3

LEMMA PostRecvShape ==
  ASSUME Typed, NEW p \in Sides, NEW new \in Loop, PostRecv(p, new), test' = test
  PROVE  \/ /\ Alone(p) /\ loop'[p] = new /\ Supplied(p)
            /\ nic[p].recvs + Of("recv", nic[p].cq) < test.queue
         \/ Failed(p) /\ ~(nic[p].recvs + Of("recv", nic[p].cq) < test.queue)
<1>1. nic \in [Sides -> Nics] /\ nic[p] \in Nics /\ Peer(p) # p /\ Peer(p) \in Sides
  BY ThePeers DEF Typed
<1>2. CASE nic[p].recvs + Of("recv", nic[p].cq) < test.queue
  <2>1. Go(p, new) /\ nic' = [nic EXCEPT ![p].recvs = @ + 1]
    BY <1>2 DEF PostRecv, RqRoom
  <2>2. /\ loop' \in [Sides -> Loop] /\ loop'[p] = new
        /\ loop'[Peer(p)] = loop[Peer(p)]
    BY <2>1, GoShape
  <2>3. /\ nic'[p] = [nic[p] EXCEPT !.recvs = nic[p].recvs + 1]
        /\ nic'[Peer(p)] = nic[Peer(p)] /\ nic' = [nic EXCEPT ![p] = nic'[p]]
    BY <1>1, <2>1
  <2>4. nic'[p] \in Nics /\ Supplied(p)
    BY <1>1, <2>3, NicSupplies DEF Supplied
  <2>5. nic' \in [Sides -> Nics]
    BY <1>1, <2>3, <2>4
  <2>6. Alone(p)
    BY <2>2, <2>3, <2>4, <2>5 DEF Alone, Supplied
  <2> QED
    BY <1>2, <2>2, <2>4, <2>6
<1>3. CASE ~(nic[p].recvs + Of("recv", nic[p].cq) < test.queue)
  BY <1>3, FailShape DEF PostRecv, RqRoom
<1> QED
  BY <1>2, <1>3

(* Polling takes completions out of the queue; the kinds add up. *)
LEMMA PolledShape ==
  ASSUME Typed, NEW p \in Sides, NEW size \in Nat \ {0}, nic[p].cq # <<>>,
         nic' = Unpolled(p, Polled(p, size)), Peer(p) \in Sides
  PROVE  /\ nic' \in [Sides -> Nics] /\ nic'[Peer(p)] = nic[Peer(p)]
         /\ Polled(p, size) \in Seq(Kinds) /\ Polled(p, size) # <<>>
         /\ Len(Polled(p, size)) \in Nat \ {0}
         /\ \A k : Of(k, nic[p].cq) = Of(k, Polled(p, size)) + Of(k, nic'[p].cq)
         /\ nic'[p].reaped = nic[p].reaped + Of("send", Polled(p, size))
         /\ nic'[p].sent = nic[p].sent /\ nic'[p].recvs = nic[p].recvs
         /\ nic'[p].landed = nic[p].landed /\ nic'[p].lost = nic[p].lost
         /\ nic'[p].acked = nic[p].acked /\ nic'[p].up = nic[p].up
         /\ nic'[p].mem = nic[p].mem
<1> DEFINE taken == Polled(p, size)
           rest  == SubSeq(nic[p].cq, Len(taken) + 1, Len(nic[p].cq))
<1>1. nic \in [Sides -> Nics] /\ nic[p] \in Nics /\ Peer(p) # p /\ Peer(p) \in Sides
  BY ThePeers DEF Typed
<1> DEFINE s == nic[p].cq
           n == IF Len(s) < size THEN Len(s) ELSE size
<1>2. s \in Seq(Kinds) /\ Len(s) \in Nat /\ Len(s) # 0 /\ nic[p].reaped \in Nat
  BY <1>1, NicFields
<1>3. n \in 1 .. Len(s) /\ n \in Nat
  BY <1>2
<1>4. taken = SubSeq(s, 1, n)
  BY DEF Polled
<1>5. rest = SubSeq(s, Len(taken) + 1, Len(s))
  OBVIOUS
<1> HIDE DEF s, n, taken, rest
<1>6. /\ taken \in Seq(Kinds) /\ Len(taken) = n /\ taken # <<>>
      /\ \A i \in 1 .. n : taken[i] = s[i]
  BY <1>2, <1>3, <1>4
<1>7. /\ rest \in Seq(Kinds) /\ n + Len(rest) = Len(s)
      /\ \A i \in 1 .. Len(rest) : rest[i] = s[i + n]
  BY <1>2, <1>3, <1>5, <1>6
<1>8. \A k : Of(k, s) = Of(k, taken) + Of(k, rest)
  <2> TAKE k
  <2>1. n \in 0 .. Len(s)
    BY <1>2, <1>3
  <2> QED
    BY <1>2, <1>6, <1>7, <2>1, OfCut
<1>9. Of("send", taken) \in Nat
  BY <1>6, OfPositions
<1>10. nic' = [nic EXCEPT ![p].cq = SubSeq(@, Len(taken) + 1, Len(@)),
                          ![p].reaped = @ + Of("send", taken)]
  BY DEF Unpolled, taken
<1>11. nic' = [nic EXCEPT ![p] = [nic[p] EXCEPT !.cq = rest,
                                      !.reaped = nic[p].reaped + Of("send", taken)]]
  BY <1>1, <1>10 DEF rest, s
<1>12. nic'[p] = [nic[p] EXCEPT !.cq = rest, !.reaped = nic[p].reaped + Of("send", taken)]
       /\ nic'[Peer(p)] = nic[Peer(p)] /\ nic' = [nic EXCEPT ![p] = nic'[p]]
  BY <1>1, <1>11
<1>13. /\ nic'[p] \in Nics /\ nic'[p].cq = rest
       /\ nic'[p].reaped = nic[p].reaped + Of("send", taken)
       /\ nic'[p].sent = nic[p].sent /\ nic'[p].recvs = nic[p].recvs
       /\ nic'[p].landed = nic[p].landed /\ nic'[p].lost = nic[p].lost
       /\ nic'[p].acked = nic[p].acked /\ nic'[p].up = nic[p].up
       /\ nic'[p].mem = nic[p].mem
  <2>1. nic[p].reaped + Of("send", taken) \in Nat
    BY <1>2, <1>9
  <2>2. nic[p] \in Nics /\ rest \in Seq(Kinds)
    BY <1>1, <1>7
  <2> QED
    <3>1. PICK x \in Nics, m \in Nat, u \in Seq(Kinds), y \in {nic'[p]} :
            /\ x = nic[p] /\ u = rest
            /\ m = nic[p].reaped + Of("send", taken)
      BY <2>1, <2>2
    <3>2. y = [x EXCEPT !.cq = u, !.reaped = m]
      BY <1>12, <3>1
    <3>3. /\ y \in Nics /\ y.cq = u /\ y.reaped = m
          /\ y.sent = x.sent /\ y.recvs = x.recvs /\ y.landed = x.landed
          /\ y.lost = x.lost /\ y.acked = x.acked /\ y.up = x.up /\ y.mem = x.mem
      BY <3>2 DEF Nics
    <3> QED
      BY <3>1, <3>3
<1>14. nic' \in [Sides -> Nics]
  BY <1>1, <1>12, <1>13
<1>15. Len(taken) \in Nat \ {0}
  BY <1>3, <1>6
<1> QED
  BY <1>6, <1>8, <1>12, <1>13, <1>14, <1>15 DEF taken, s

-----------------------------------------------------------------------------
(* The operations of p are posted, land or are lost, are acknowledged and  *)
(* taken, so that none is taken that was not posted.                       *)
LEMMA InOrder ==
  ASSUME Typed, NEW p \in Sides, Queues(p)
  PROVE  /\ nic[p].reaped <= nic[p].acked /\ nic[p].acked <= nic[p].sent
         /\ nic[p].reaped + Of("send", nic[p].cq) <= nic[p].sent
         /\ ~test.ud => nic[p].reaped <= nic[p].landed
         /\ nic[p].landed <= nic[p].sent
<1>1. nic[p] \in Nics
  BY DEF Typed
<1>2. /\ nic[p].reaped \in Nat /\ nic[p].acked \in Nat /\ nic[p].sent \in Nat
      /\ nic[p].landed \in Nat /\ nic[p].lost \in Nat
      /\ Of("send", nic[p].cq) \in Nat
  BY <1>1, NicFields
<1>3. /\ nic[p].acked = nic[p].reaped + Of("send", nic[p].cq)
      /\ nic[p].acked <= nic[p].sent /\ (~test.ud => nic[p].acked <= nic[p].landed)
      /\ nic[p].landed + nic[p].lost <= nic[p].sent
  BY DEF Queues
<1> QED
  BY <1>2, <1>3

(* A post leaves what lands, is lost or acknowledged behind.               *)
LEMMA SentInOrder ==
  ASSUME Typed, NEW p \in Sides, Queues(p), Sent(p)
  PROVE  /\ nic'[p].landed + nic'[p].lost <= nic'[p].sent
         /\ nic'[p].acked <= nic'[p].sent
         /\ ~test.ud => nic'[p].acked <= nic'[p].landed
<1>1. nic[p] \in Nics
  BY DEF Typed
<1>2. /\ nic[p].acked \in Nat /\ nic[p].sent \in Nat
      /\ nic[p].landed \in Nat /\ nic[p].lost \in Nat
  BY <1>1, NicFields
<1>3. /\ nic[p].landed + nic[p].lost <= nic[p].sent /\ nic[p].acked <= nic[p].sent
      /\ ~test.ud => nic[p].acked <= nic[p].landed
  BY DEF Queues
<1>4. /\ nic'[p].sent = nic[p].sent + 1 /\ nic'[p].landed = nic[p].landed
      /\ nic'[p].lost = nic[p].lost /\ nic'[p].acked = nic[p].acked
  BY DEF Sent
<1> QED
  BY <1>2, <1>3, <1>4

LEMMA FailedKeeps ==
  ASSUME IInv, NEW p \in Sides, Failed(p), ~Passive(p),
         ~nic[Peer(p)].up \/ test.queue < test.depth
  PROVE  IInv'
<1>1. /\ nic' = nic /\ test' = test /\ loop'[p].pc = "error"
      /\ loop'[p].at = loop[p].at /\ loop'[p].done = loop[p].done
      /\ loop'[p].batch = loop[p].batch /\ loop'[p].extra = loop[p].extra
      /\ loop'[Peer(p)] = loop[Peer(p)] /\ Alone(p)
  BY DEF Failed, Alone
<1>2. Own(p) /\ Turn
  BY DEF IInv
<1>3. /\ Bandwidth' = Bandwidth /\ TwoSided' = TwoSided
      /\ Passive(p)' = Passive(p) /\ Steps(p)' = Steps(p)
      /\ SendStep(p)' = SendStep(p) /\ FirstPoll(p)' = FirstPoll(p)
  BY <1>1, SameTest
<1>4. Given(p)' = Given(p) /\ Heard(p)' = Heard(p) /\ Outstanding(p)' = Outstanding(p)
  BY <1>1 DEF Given, Heard, Outstanding
<1>5. Queues(p) => Queues(p)'
  BY <1>1, <1>3 DEF Queues
<1>6. Streaming(p) => Streaming(p)'
  BY <1>1, <1>3, <1>4 DEF Streaming, Taken, Reaps
<1>7. PingPong(p) => PingPong(p)'
  BY <1>1, <1>3, <1>4 DEF PingPong, Past
<1>8. Own(p)'
  BY <1>2, <1>3, <1>5, <1>6, <1>7 DEF Own
<1>9. Turn'
  <2>1. \A r \in Sides : loop'[r].at = loop[r].at /\ loop'[r].done = loop[r].done
    BY <1>1, ThePeers
  <2> QED
    BY <1>1, <1>2, <2>1, BytesStay
<1> QED
  BY <1>1, <1>8, <1>9, ProgramKeeps

(* The places of a loop. *)
LEMMA LoopMoves ==
  ASSUME NEW x \in Loop, NEW c \in Places, NEW y, y = [x EXCEPT !.pc = c]
  PROVE  /\ y \in Loop /\ y.pc = c /\ y.at = x.at /\ y.done = x.done
         /\ y.batch = x.batch /\ y.extra = x.extra
BY DEF Loop

(* Priming. *)
LEMMA PrimeKeeps == ASSUME IInv, NEW p \in Sides, Prime(p) PROVE IInv'
<1>1. /\ Own(p) /\ Typed /\ Turn /\ test' = test /\ loop[p].pc = "prime"
      /\ loop[p] \in Loop /\ nic[p] \in Nics /\ nic[Peer(p)] \in Nics
      /\ nic \in [Sides -> Nics] /\ test \in Tests
  BY ThePeers DEF IInv, Typed, Prime
<1>2. Bandwidth /\ ~Passive(p) /\ Streaming(p) /\ Queues(p)
  BY <1>1, WhichLoop DEF Own
<1>3. /\ test.depth \in Nat \ {0} /\ test.queue \in Nat \ {0} /\ Iters \in Nat \ {0}
  BY <1>1, PerftestAssumption
<1>4. Turn'
  BY <1>1, <1>2, NoBytes
<1>5. /\ Bandwidth' = Bandwidth /\ TwoSided' = TwoSided /\ Passive(p)' = Passive(p)
  BY <1>1, SameTest
<1>6. /\ nic[p].sent \in Nat /\ nic[p].reaped \in Nat /\ nic[p].recvs \in Nat
      /\ nic[Peer(p)].landed \in Nat /\ Of("recv", nic[p].cq) \in Nat
      /\ nic[p].landed \in Nat /\ nic[p].lost \in Nat
  BY <1>1, NicFields
<1>7. p = "C" \/ p = "S"
  BY ThePeers
<1>8. CASE /\ Outstanding(p) < test.depth /\ Outstanding(p) < Iters
           /\ PostNext(p, loop[p])
  <2>1. CASE p = "C"
    <3>1. Post(p, loop[p]) /\ Outstanding(p) = nic[p].sent
      BY <1>8, <2>1 DEF PostNext, Outstanding
    <3>2. CASE Alone(p) /\ loop'[p] = loop[p] /\ Sent(p)
      <4>1. Queues(p)'
        <5>1. /\ nic'[p].landed + nic'[p].lost <= nic'[p].sent
              /\ nic'[p].acked <= nic'[p].sent
              /\ ~test.ud => nic'[p].acked <= nic'[p].landed
          BY <1>1, <1>2, <3>2, SentInOrder
        <5> QED
          BY <1>1, <1>2, <1>5, <3>2, <5>1 DEF Queues, Alone, Sent
      <4>2. /\ Outstanding(p)' = nic[p].sent + 1 /\ Taken(p)' = Taken(p)
            /\ loop'[p] = loop[p]
        BY <2>1, <3>2 DEF Sent, Outstanding, Taken
      <4>3. nic[p].sent + 1 <= Lesser(test.depth, Iters)
        BY <1>3, <1>6, <1>8, <3>1 DEF Lesser
      <4>4. Streaming(p)'
        BY <1>1, <1>2, <1>5, <2>1, <4>2, <4>3 DEF Streaming, Reaps, Lesser
      <4> QED
        BY <1>4, <1>2, <1>5, <3>2, <4>1, <4>4, ProgramKeeps DEF Own
    <3>3. CASE Failed(p) /\ ~(nic[p].sent - nic[p].reaped < test.queue)
      <4>1. test.queue < test.depth
        BY <1>3, <1>6, <1>8, <3>1, <3>3
      <4> QED
        BY <1>2, <3>3, <4>1, FailedKeeps
    <3> QED
      BY <1>1, <3>1, <3>2, <3>3, PostShape
  <2>2. CASE p = "S"
    <3>1. PostRecv(p, loop[p]) /\ Outstanding(p) = nic[p].recvs + nic["C"].landed
      BY <1>8, <2>2 DEF PostNext, Outstanding
    <3>2. CASE Alone(p) /\ loop'[p] = loop[p] /\ Supplied(p)
      <4>1. Queues(p)'
        BY <1>1, <1>2, <1>5, <1>6, <3>2 DEF Queues, Alone, Supplied
      <4>2. nic'["C"].landed = nic["C"].landed /\ nic["C"].landed \in Nat
        BY <1>6, <2>2, <3>2, ThePeers DEF Alone
      <4>3. Heard(p)' = Heard(p)
        BY <2>2, <3>2, <4>2, ThePeers DEF Heard, Supplied
      <4>4. /\ Outstanding(p)' = nic[p].recvs + 1 + nic["C"].landed
            /\ Taken(p)' = Taken(p) /\ loop'[p] = loop[p]
            /\ nic'[p].sent = nic[p].sent
        BY <2>2, <3>2, <4>2, <4>3 DEF Supplied, Outstanding, Taken
      <4>5. nic[p].recvs + 1 + nic["C"].landed <= Lesser(test.depth, Iters)
        BY <1>3, <1>6, <1>8, <3>1, <4>2 DEF Lesser
      <4>6. Streaming(p)'
        BY <1>1, <1>2, <1>5, <2>2, <4>4, <4>5 DEF Streaming, Reaps, Lesser
      <4> QED
        BY <1>4, <1>2, <1>5, <3>2, <4>1, <4>6, ProgramKeeps DEF Own
    <3>3. CASE Failed(p) /\ ~(nic[p].recvs + Of("recv", nic[p].cq) < test.queue)
      <4>1. Of("recv", nic[p].cq) <= nic["C"].landed
        BY <1>1, <1>2, <1>6, <2>2, ServerStreams, ThePeers DEF Queues
      <4>2. test.queue < test.depth
        BY <1>3, <1>6, <1>8, <2>2, <3>1, <3>3, <4>1, ThePeers
      <4> QED
        BY <1>2, <3>3, <4>2, FailedKeeps
    <3> QED
      BY <1>1, <3>1, <3>2, <3>3, PostRecvShape
  <2> QED
    BY <1>7, <2>1, <2>2
<1>9. CASE /\ Outstanding(p) >= test.depth \/ Outstanding(p) >= Iters
           /\ Go(p, [loop[p] EXCEPT !.pc = "poll"]) /\ nic' = nic
  <2>1. PICK y : y = [loop[p] EXCEPT !.pc = "poll"]
    OBVIOUS
  <2>2. /\ y \in Loop /\ y.pc = "poll" /\ y.done = loop[p].done
        /\ y.batch = loop[p].batch
    BY <1>1, <2>1, LoopMoves DEF Places
  <2>3. /\ loop' \in [Sides -> Loop] /\ loop'[p] = y /\ loop'[Peer(p)] = loop[Peer(p)]
    BY <1>1, <1>9, <2>1, <2>2, GoShape
  <2>4. Alone(p)
    BY <1>1, <1>9, <2>3 DEF Alone
  <2>5. Queues(p)'
    BY <1>1, <1>2, <1>5, <1>9, <2>2, <2>3 DEF Queues
  <2>6. Outstanding(p)' = Outstanding(p) /\ Taken(p)' = Taken(p) /\ Outstanding(p) \in Nat
    BY <1>6, <1>7, <1>9, ThePeers DEF Outstanding, Taken, Heard
  <2>7. Streaming(p)'
    BY <1>1, <1>2, <1>3, <1>5, <1>9, <2>2, <2>3, <2>6 DEF Streaming, Reaps, Lesser
  <2> QED
    BY <1>2, <1>4, <1>5, <2>4, <2>5, <2>7, ProgramKeeps DEF Own
<1> QED
  BY <1>8, <1>9 DEF Prime

(* Polling a batch. *)
LEMMA PollBatchKeeps == ASSUME IInv, NEW p \in Sides, PollBatch(p) PROVE IInv'
<1>1. /\ Own(p) /\ Own(Peer(p)) /\ Typed /\ Turn /\ test' = test /\ loop[p].pc = "poll"
      /\ loop[p] \in Loop /\ nic[p] \in Nics /\ nic[Peer(p)] \in Nics
      /\ nic \in [Sides -> Nics] /\ test \in Tests /\ Peer(p) \in Sides
      /\ nic[p].cq # <<>> /\ nic[p].cq \in Seq(Kinds)
  BY ThePeers, NicFields DEF IInv, Typed, PollBatch
<1>2. Bandwidth /\ ~Passive(p) /\ Streaming(p) /\ Queues(p)
  BY <1>1, WhichLoop DEF Own
<1>3. test.depth \in Nat \ {0}
  BY <1>1, PerftestAssumption
<1>4. PICK taken : taken = Polled(p, test.depth)
  OBVIOUS
<1>5. /\ nic' = Unpolled(p, taken)
      /\ Go(p, [loop[p] EXCEPT !.pc = "reap", !.batch = taken])
  BY <1>4 DEF PollBatch
<1>6. /\ nic' \in [Sides -> Nics] /\ nic'[Peer(p)] = nic[Peer(p)]
      /\ taken \in Seq(Kinds)
      /\ \A k : Of(k, nic[p].cq) = Of(k, taken) + Of(k, nic'[p].cq)
      /\ nic'[p].reaped = nic[p].reaped + Of("send", taken)
      /\ nic'[p].sent = nic[p].sent /\ nic'[p].recvs = nic[p].recvs
      /\ nic'[p].landed = nic[p].landed /\ nic'[p].lost = nic[p].lost
      /\ nic'[p].acked = nic[p].acked /\ nic'[p].up = nic[p].up
  BY <1>1, <1>3, <1>4, <1>5, PolledShape
<1>7. PICK x \in Loop, y \in {[loop[p] EXCEPT !.pc = "reap", !.batch = taken]} :
         x = loop[p]
  BY <1>1
<1>8. /\ y \in Loop /\ y.pc = "reap" /\ y.batch = taken /\ y.done = x.done
      /\ y.at = x.at /\ y.extra = x.extra
  <2>1. y = [x EXCEPT !.pc = "reap", !.batch = taken]
    BY <1>7
  <2> QED
    BY <1>6, <2>1 DEF Loop, Places
<1>9. /\ loop' \in [Sides -> Loop] /\ loop'[p] = y /\ loop'[Peer(p)] = loop[Peer(p)]
  BY <1>1, <1>5, <1>7, <1>8, GoShape
<1>10. Alone(p)
  BY <1>1, <1>6, <1>9 DEF Alone
<1>11. /\ Bandwidth' = Bandwidth /\ TwoSided' = TwoSided /\ Passive(p)' = Passive(p)
       /\ Turn'
  BY <1>1, <1>2, SameTest, NoBytes
<1>12. /\ \A k : Of(k, taken) \in Nat /\ Of(k, nic'[p].cq) \in Nat
       /\ \A k : Of(k, nic[p].cq) \in Nat
       /\ nic'[p] \in Nics /\ nic[p].reaped \in Nat /\ nic[p].acked \in Nat
       /\ nic[Peer(p)].landed \in Nat
  BY <1>1, <1>6, NicFields, OfPositions
<1>13. loop[p].batch = <<>> /\ loop[p].done \in Nat
  BY <1>1, <1>2, LoopFields DEF Streaming
<1>14. Queues(p)'
  <2>1. nic'[p].acked = nic'[p].reaped + Of("send", nic'[p].cq)
    BY <1>2, <1>6, <1>12 DEF Queues
  <2>2. Of("recv", nic'[p].cq) <= Of("recv", nic[p].cq)
    BY <1>6, <1>12
  <2>3. Of("recv", nic'[p].cq) <= IF TwoSided THEN nic[Peer(p)].landed ELSE 0
    <3>1. Of("recv", nic[p].cq) <= IF TwoSided THEN nic[Peer(p)].landed ELSE 0
      BY <1>2 DEF Queues
    <3> QED
      BY <1>12, <2>2, <3>1
  <2>4. Of("error", nic'[p].cq) + Of("error", loop'[p].batch) = Of("error", nic[p].cq)
    BY <1>6, <1>8, <1>9, <1>12
  <2>5. Of("error", nic'[p].cq) + Of("error", loop'[p].batch) > 0 => ~nic[Peer(p)].up
    <3>1. Of("error", loop[p].batch) \in Nat
      BY <1>1, LoopFields
    <3> QED
      BY <1>2, <1>12, <2>4, <3>1 DEF Queues
  <2> QED
    BY <1>1, <1>2, <1>6, <1>8, <1>9, <1>11, <2>1, <2>3, <2>5 DEF Queues
<1>15. Taken(p)' = loop'[p].done + Of(Reaps(p), loop'[p].batch)
  <2>1. Of(Reaps(p), <<>>) = 0
    BY OfEmpty
  <2>2. Taken(p) = loop[p].done
    <3>1. Taken(p) = loop[p].done + Of(Reaps(p), <<>>)
      BY <1>2, <1>13 DEF Streaming
    <3> QED
      BY <1>13, <2>1, <3>1
  <2>3. CASE p = "C"
    BY <1>6, <1>7, <1>8, <1>9, <2>2, <2>3 DEF Taken, Reaps
  <2>4. CASE p = "S"
    <3>1. /\ Heard(p)' = nic[Peer(p)].landed - Of("recv", nic'[p].cq)
          /\ Heard(p) = nic[Peer(p)].landed - Of("recv", nic[p].cq)
      BY <1>6 DEF Heard
    <3>2. Heard(p)' = Heard(p) + Of("recv", taken)
      BY <1>6, <1>12, <3>1
    <3> QED
      BY <1>7, <1>8, <1>9, <2>2, <2>4, <3>2 DEF Taken, Reaps
  <2> QED
    BY <2>3, <2>4, ThePeers
<1>16. Outstanding(p)' = Outstanding(p)
  BY <1>6, <1>10, ThePeers DEF Outstanding, Alone
<1>17. p = "S" => nic'[p].sent = 0 /\ Of("send", loop'[p].batch) = 0
  <2> HAVE p = "S"
  <2>1. nic[p].sent = 0
    BY <1>2 DEF Streaming
  <2>2. Of("send", nic[p].cq) = 0
    BY <1>1, <1>2, <1>12, <2>1, InOrder
  <2> QED
    BY <1>6, <1>8, <1>9, <1>12, <2>1, <2>2
<1>18. p = "C" => Of("recv", loop'[p].batch) = 0
  <2> HAVE p = "C"
  <2>1. Peer(p) = "S" /\ Streaming("S") /\ Queues("S")
    BY <1>1, <1>2, ThePeers DEF Own
  <2>2. nic["S"].landed = 0
    <3>1. nic["S"].sent = 0
      BY <2>1 DEF Streaming
    <3> QED
      BY <1>1, <1>12, <2>1, <3>1, InOrder
  <2>3. Of("recv", nic[p].cq) <= 0
    BY <1>2, <2>1, <2>2 DEF Queues
  <2> QED
    BY <1>6, <1>8, <1>9, <1>12, <2>3
<1>19. Streaming(p)'
  BY <1>1, <1>2, <1>7, <1>8, <1>9, <1>11, <1>15, <1>16, <1>17, <1>18 DEF Streaming, Lesser
<1> QED
  BY <1>10, <1>11, <1>2, <1>14, <1>19, ProgramKeeps DEF Own

-----------------------------------------------------------------------------
(* A loop that has counted everything ends. *)
LEMMA FinishKeeps == ASSUME IInv, NEW p \in Sides, Finish(p) PROVE IInv'
<1>1. /\ Own(p) /\ Typed /\ Turn /\ test' = test /\ nic' = nic
      /\ loop[p].pc \in {"poll", "round"} /\ loop[p] \in Loop
      /\ nic \in [Sides -> Nics] /\ Go(p, [loop[p] EXCEPT !.pc = "done"])
  BY DEF IInv, Typed, Finish
<1>2. PICK y : y = [loop[p] EXCEPT !.pc = "done"]
  OBVIOUS
<1>3. /\ y \in Loop /\ y.pc = "done" /\ y.at = loop[p].at /\ y.done = loop[p].done
      /\ y.batch = loop[p].batch /\ y.extra = loop[p].extra
  BY <1>1, <1>2, LoopMoves DEF Places
<1>4. loop' \in [Sides -> Loop] /\ loop'[p] = y /\ loop'[Peer(p)] = loop[Peer(p)]
  BY <1>1, <1>2, <1>3, GoShape
<1>5. Alone(p)
  BY <1>1, <1>4 DEF Alone
<1>6. /\ Bandwidth' = Bandwidth /\ TwoSided' = TwoSided /\ Passive(p)' = Passive(p)
      /\ Steps(p)' = Steps(p) /\ SendStep(p)' = SendStep(p) /\ FirstPoll(p)' = FirstPoll(p)
  BY <1>1, SameTest
<1>7. Given(p)' = Given(p) /\ Heard(p)' = Heard(p)
  BY <1>1 DEF Given, Heard
<1>8. Queues(p)'
  BY <1>1, <1>3, <1>4, <1>6 DEF Own, Queues
<1>9. Streaming(p) => Streaming(p)'
  <2>1. Taken(p)' = Taken(p)
    BY <1>1, <1>7 DEF Taken
  <2> QED
    BY <1>1, <1>3, <1>4, <1>6, <2>1 DEF Streaming, Reaps
<1>10. loop[p].pc = "round" => (PingPong(p) => PingPong(p)')
  BY <1>1, <1>3, <1>4, <1>6, <1>7 DEF PingPong, Past
<1>11. loop[p].pc = "poll" => Bandwidth
  BY <1>1, WhichLoop
<1>12. Own(p)'
  BY <1>1, <1>6, <1>8, <1>9, <1>10, <1>11 DEF Own
<1>13. Turn'
  <2>1. \A r \in Sides : loop'[r].at = loop[r].at /\ loop'[r].done = loop[r].done
    BY <1>3, <1>4, ThePeers
  <2> QED
    BY <1>1, <2>1, BytesStay
<1> QED
  BY <1>5, <1>12, <1>13, ProgramKeeps

(* The process is gone. *)
LEMMA ExitKeeps == ASSUME IInv, NEW p \in Sides, Exit(p) PROVE IInv'
<1>1. /\ Own(p) /\ Typed /\ Turn /\ test' = test /\ loop' = loop
      /\ nic \in [Sides -> Nics] /\ nic[p] \in Nics
      /\ nic' = [nic EXCEPT ![p].up = FALSE] /\ loop \in [Sides -> Loop]
  BY DEF IInv, Typed, Exit
<1>2. nic'[p] = [nic[p] EXCEPT !.up = FALSE] /\ nic'[Peer(p)] = nic[Peer(p)]
      /\ nic' = [nic EXCEPT ![p] = nic'[p]]
  BY <1>1, ThePeers
<1>3. PICK x \in Nics, y \in {nic'[p]} : x = nic[p]
  BY <1>1
<1>4. /\ y \in Nics /\ y.sent = x.sent /\ y.landed = x.landed /\ y.lost = x.lost
      /\ y.acked = x.acked /\ y.reaped = x.reaped /\ y.recvs = x.recvs
      /\ y.cq = x.cq /\ y.mem = x.mem /\ y.up = FALSE
  <2>1. y = [x EXCEPT !.up = FALSE]
    BY <1>2, <1>3
  <2> QED
    BY <2>1 DEF Nics
<1>5. nic' \in [Sides -> Nics]
  BY <1>1, <1>2, <1>3, <1>4
<1>6. Alone(p)
  BY <1>1, <1>2, <1>3, <1>4, <1>5 DEF Alone
<1>7. /\ nic'[p].sent = nic[p].sent /\ nic'[p].landed = nic[p].landed
      /\ nic'[p].lost = nic[p].lost /\ nic'[p].acked = nic[p].acked
      /\ nic'[p].reaped = nic[p].reaped /\ nic'[p].recvs = nic[p].recvs
      /\ nic'[p].cq = nic[p].cq /\ nic'[p].mem = nic[p].mem
      /\ nic'[Peer(p)] = nic[Peer(p)]
  BY <1>2, <1>3, <1>4
<1>8. /\ Bandwidth' = Bandwidth /\ TwoSided' = TwoSided /\ Passive(p)' = Passive(p)
      /\ Steps(p)' = Steps(p) /\ SendStep(p)' = SendStep(p) /\ FirstPoll(p)' = FirstPoll(p)
  BY <1>1, SameTest
<1>9. Given(p)' = Given(p) /\ Heard(p)' = Heard(p) /\ Outstanding(p)' = Outstanding(p)
  BY <1>7, ThePeers DEF Given, Heard, Outstanding
<1>10. Queues(p)'
  BY <1>1, <1>7, <1>8 DEF Own, Queues
<1>11. Streaming(p) => Streaming(p)'
  <2>1. Taken(p)' = Taken(p)
    BY <1>7, <1>9 DEF Taken
  <2> QED
    BY <1>1, <1>7, <1>8, <1>9, <2>1 DEF Streaming, Reaps
<1>12. PingPong(p) => PingPong(p)'
  BY <1>1, <1>7, <1>8, <1>9 DEF PingPong, Past
<1>13. Own(p)'
  BY <1>1, <1>8, <1>10, <1>11, <1>12 DEF Own
<1>14. Turn'
  <2>1. \A r \in Sides : nic'[r].sent = nic[r].sent /\ nic'[r].landed = nic[r].landed
                           /\ nic'[r].mem = nic[r].mem
    BY <1>7, ThePeers
  <2> QED
    BY <1>1, <2>1, BytesStay
<1> QED
  BY <1>6, <1>13, <1>14, ProgramKeeps

-----------------------------------------------------------------------------
(* Counting one completion: the window moves on by one.                    *)
LEMMA WindowMoves ==
  ASSUME NEW done \in Nat, NEW depth \in Nat \ {0}, NEW out \in Nat, Iters \in Nat,
         done + 1 <= Iters, out = done + Lesser(depth, Iters - done)
  PROVE  /\ out < Iters \/ done + 1 + depth <= Iters =>
              out + 1 = (done + 1) + Lesser(depth, Iters - (done + 1))
         /\ out >= Iters \/ done + 1 + depth > Iters =>
              out = (done + 1) + Lesser(depth, Iters - (done + 1))
BY DEF Lesser

LEMMA ReapKeeps == ASSUME IInv, NEW p \in Sides, Reap(p) PROVE IInv'
<1>1. /\ Own(p) /\ Typed /\ Turn /\ test' = test /\ loop[p].pc = "reap"
      /\ loop[p] \in Loop /\ nic[p] \in Nics /\ nic[Peer(p)] \in Nics
      /\ nic \in [Sides -> Nics] /\ test \in Tests /\ Peer(p) \in Sides
      /\ loop[p].batch \in Seq(Kinds)
  BY ThePeers, LoopFields DEF IInv, Typed, Reap
<1>2. Bandwidth /\ ~Passive(p) /\ Streaming(p) /\ Queues(p)
  BY <1>1, WhichLoop DEF Own
<1>3. /\ test.depth \in Nat \ {0} /\ test.queue \in Nat \ {0} /\ Iters \in Nat \ {0}
  BY <1>1, PerftestAssumption
<1>4. /\ Bandwidth' = Bandwidth /\ TwoSided' = TwoSided /\ Passive(p)' = Passive(p)
      /\ Turn'
  BY <1>1, <1>2, SameTest, NoBytes
<1>5. /\ nic[p].sent \in Nat /\ nic[p].reaped \in Nat /\ nic[p].recvs \in Nat
      /\ nic[Peer(p)].landed \in Nat /\ Of("recv", nic[p].cq) \in Nat
      /\ loop[p].done \in Nat /\ \A k : Of(k, loop[p].batch) \in Nat
  BY <1>1, NicFields, LoopFields
<1>6. p = "C" \/ p = "S"
  BY ThePeers
<1>7. /\ loop[p].done <= Iters
      /\ Outstanding(p) = loop[p].done + Lesser(test.depth, Iters - loop[p].done)
      /\ Taken(p) = loop[p].done + Of(Reaps(p), loop[p].batch)
      /\ p = "S" => nic[p].sent = 0 /\ Of("send", loop[p].batch) = 0
      /\ p = "C" => Of("recv", loop[p].batch) = 0
  BY <1>1, <1>2 DEF Streaming
<1>8. CASE loop[p].batch = <<>>
  <2>1. Go(p, [loop[p] EXCEPT !.pc = "poll"]) /\ nic' = nic
    BY <1>8 DEF Reap
  <2>2. PICK y : y = [loop[p] EXCEPT !.pc = "poll"]
    OBVIOUS
  <2>3. /\ y \in Loop /\ y.pc = "poll" /\ y.done = loop[p].done
        /\ y.batch = loop[p].batch
    BY <1>1, <2>2, LoopMoves DEF Places
  <2>4. /\ loop' \in [Sides -> Loop] /\ loop'[p] = y /\ loop'[Peer(p)] = loop[Peer(p)]
    BY <1>1, <2>1, <2>2, <2>3, GoShape
  <2>5. Alone(p)
    BY <1>1, <2>1, <2>4 DEF Alone
  <2>6. Queues(p)'
    BY <1>1, <1>2, <1>4, <2>1, <2>3, <2>4 DEF Queues
  <2>7. Outstanding(p)' = Outstanding(p) /\ Taken(p)' = Taken(p)
    BY <1>6, <2>1, ThePeers DEF Outstanding, Taken, Heard
  <2>8. Streaming(p)'
    BY <1>1, <1>2, <1>4, <1>8, <2>1, <2>3, <2>4, <2>7 DEF Streaming, Reaps, Lesser
  <2> QED
    BY <1>2, <1>4, <2>5, <2>6, <2>8, ProgramKeeps DEF Own
<1>9. CASE loop[p].batch # <<>> /\ Head(loop[p].batch) = "error"
  <2>1. Failed(p)
    <3>1. Go(p, [loop[p] EXCEPT !.pc = "error"]) /\ nic' = nic
      BY <1>9 DEF Reap
    <3> QED
      BY <1>1, <3>1, FailShape
  <2>2. Of("error", loop[p].batch) > 0
    BY <1>1, <1>9, OfHead
  <2>3. Of("error", nic[p].cq) \in Nat
    BY <1>1, NicFields
  <2>4. ~nic[Peer(p)].up
    BY <1>2, <1>5, <2>2, <2>3 DEF Queues
  <2> QED
    BY <1>2, <2>1, <2>4, FailedKeeps
<1>10. CASE loop[p].batch # <<>> /\ Head(loop[p].batch) # "error"
  <2>1. PICK x \in Loop, y \in {[loop[p] EXCEPT !.batch = Tail(@), !.done = @ + 1]} :
               x = loop[p]
    BY <1>1
  <2>2. Refill(p, y.done) => PostNext(p, y)
    BY <1>10, <2>1 DEF Reap
  <2>3. ~Refill(p, y.done) => Go(p, y) /\ nic' = nic
    BY <1>10, <2>1 DEF Reap
  <2>4. /\ Tail(x.batch) \in Seq(Kinds) /\ Head(x.batch) \in Kinds
        /\ \A k : Of(k, x.batch) = IF Head(x.batch) = k THEN Of(k, Tail(x.batch)) + 1
                                   ELSE Of(k, Tail(x.batch))
        /\ Of(Head(x.batch), x.batch) > 0 /\ x.done \in Nat
    BY <1>1, <1>5, <1>10, <2>1, OfTail, OfHead
  <2>5. /\ y \in Loop /\ y.pc = x.pc /\ y.at = x.at /\ y.done = x.done + 1
        /\ y.batch = Tail(x.batch) /\ y.extra = x.extra
    <3>1. PICK t \in Seq(Kinds) : t = Tail(x.batch)
      BY <2>4
    <3>d. PICK d \in Nat : d = x.done + 1
      BY <2>4
    <3>2. y = [x EXCEPT !.batch = t, !.done = d]
      BY <2>1, <3>1, <3>d
    <3>3. /\ y \in Loop /\ y.pc = x.pc /\ y.at = x.at /\ y.done = d
          /\ y.batch = t /\ y.extra = x.extra
      BY <3>2 DEF Loop
    <3> QED
      BY <3>1, <3>d, <3>3
  <2>6. Head(x.batch) = Reaps(p)
    BY <1>5, <1>6, <1>7, <1>10, <2>1, <2>4 DEF Reaps, Kinds
  <2>7. /\ Of(Reaps(p), y.batch) + 1 = Of(Reaps(p), x.batch)
        /\ Of("error", y.batch) = Of("error", x.batch)
        /\ p = "S" => Of("send", y.batch) = 0
        /\ p = "C" => Of("recv", y.batch) = 0
    <3>1. \A k : Of(k, y.batch) \in Nat
      BY <2>5, LoopFields
    <3>2. \A k : Of(k, x.batch) = IF Reaps(p) = k THEN Of(k, y.batch) + 1
                                  ELSE Of(k, y.batch)
      BY <2>4, <2>5, <2>6
    <3>3. Reaps(p) # "error" /\ (p = "S" => Reaps(p) # "send")
            /\ (p = "C" => Reaps(p) # "recv")
      BY <1>6 DEF Reaps
    <3> QED
      BY <1>7, <2>1, <3>1, <3>2, <3>3
  <2>8. x.done + 1 <= Taken(p)
    BY <1>5, <1>7, <2>1, <2>4, <2>6
  <2>9. Taken(p) <= Outstanding(p)
    <3>1. CASE p = "C"
      <4>1. nic[p].reaped <= nic[p].sent
        BY <1>1, <1>2, <1>5, InOrder, NicFields
      <4> QED
        BY <3>1, <4>1 DEF Taken, Outstanding
    <3>2. CASE p = "S"
      BY <1>5, <3>2, ThePeers DEF Taken, Outstanding, Heard
    <3> QED
      BY <1>6, <3>1, <3>2
  <2>10. Outstanding(p) \in Nat /\ Taken(p) \in Int
    BY <1>5, <1>6, ThePeers DEF Outstanding, Taken, Heard
  <2>11. x.done + 1 <= Iters
    <3>1. Outstanding(p) <= Iters
      BY <1>3, <1>5, <1>7 DEF Lesser
    <3> QED
      BY <1>3, <2>4, <2>8, <2>9, <2>10, <3>1
  <2>12. /\ Refill(p, y.done) =>
              Outstanding(p) + 1 = y.done + Lesser(test.depth, Iters - y.done)
         /\ ~Refill(p, y.done) =>
              Outstanding(p) = y.done + Lesser(test.depth, Iters - y.done)
    <3>1. Refill(p, y.done) => Outstanding(p) < Iters \/ x.done + 1 + test.depth <= Iters
      BY <1>6, <2>5 DEF Refill, Outstanding
    <3>2. ~Refill(p, y.done) => Outstanding(p) >= Iters \/ x.done + 1 + test.depth > Iters
      <4>1. CASE p = "C"
        BY <1>3, <1>5, <4>1 DEF Refill, Outstanding
      <4>2. CASE p = "S"
        BY <1>3, <2>4, <2>5, <4>2 DEF Refill
      <4> QED
        BY <1>6, <4>1, <4>2
    <3> QED
      BY <1>3, <1>7, <2>1, <2>4, <2>5, <2>10, <2>11, <3>1, <3>2, WindowMoves
  <2>13. Outstanding(p) - Taken(p) < test.depth
    <3>1. Outstanding(p) <= x.done + test.depth
      BY <1>3, <1>5, <1>7, <2>1 DEF Lesser
    <3> QED
      BY <1>3, <2>4, <2>8, <2>10, <3>1
  (* The loop after it, whether it has posted or had nothing to post. *)
  <2>14. ASSUME Alone(p), loop'[p] = y, Queues(p)', Taken(p)' = Taken(p),
                nic'[p].sent = nic[p].sent \/ p = "C",
                Outstanding(p)' = y.done + Lesser(test.depth, Iters - y.done)
         PROVE  IInv'
    <3>1. Taken(p)' = y.done + Of(Reaps(p), y.batch)
      <4>1. Of(Reaps(p), y.batch) \in Nat
        BY <2>5, LoopFields
      <4>2. Taken(p) = x.done + Of(Reaps(p), x.batch)
        BY <1>7, <2>1, Zenon
      <4>3. y.done = x.done + 1 /\ x.done \in Nat
        BY <2>4, <2>5
      <4>4. Of(Reaps(p), y.batch) + 1 = Of(Reaps(p), x.batch)
        BY <2>7
      <4>5. Taken(p)' = Taken(p)
        BY <2>14
      <4> QED
        BY <4>1, <4>2, <4>3, <4>4, <4>5
    <3>2. Streaming(p)'
      BY <1>1, <1>4, <1>7, <2>1, <2>5, <2>7, <2>11, <2>14, <3>1
         DEF Streaming, Reaps, Lesser
    <3> QED
      BY <1>2, <1>4, <2>14, <3>2, ProgramKeeps DEF Own
  <2>15. CASE ~Refill(p, y.done)
    <3>1. Go(p, y) /\ nic' = nic
      BY <2>3, <2>15
    <3>2. /\ loop' \in [Sides -> Loop] /\ loop'[p] = y /\ loop'[Peer(p)] = loop[Peer(p)]
      BY <1>1, <2>5, <3>1, GoShape
    <3>3. Alone(p)
      BY <1>1, <3>1, <3>2 DEF Alone
    <3>4. Queues(p)'
      BY <1>1, <1>2, <1>4, <2>1, <2>5, <2>7, <3>1, <3>2 DEF Queues
    <3>5. Outstanding(p)' = Outstanding(p) /\ Taken(p)' = Taken(p)
      BY <1>6, <3>1, ThePeers DEF Outstanding, Taken, Heard
    <3> QED
      BY <2>12, <2>14, <2>15, <3>1, <3>2, <3>3, <3>4, <3>5
  <2>16. CASE Refill(p, y.done) /\ p = "C"
    <3>1. Post(p, y)
      BY <2>2, <2>16 DEF PostNext
    <3>2. CASE Alone(p) /\ loop'[p] = y /\ Sent(p)
      <4>1. Queues(p)'
        <5>1. /\ nic'[p].landed + nic'[p].lost <= nic'[p].sent
              /\ nic'[p].acked <= nic'[p].sent
              /\ ~test.ud => nic'[p].acked <= nic'[p].landed
          BY <1>1, <1>2, <3>2, SentInOrder
        <5> QED
          BY <1>1, <1>2, <1>4, <2>1, <2>5, <2>7, <3>2, <5>1 DEF Queues, Alone, Sent
      <4>2. Outstanding(p)' = Outstanding(p) + 1 /\ Taken(p)' = Taken(p)
        BY <2>16, <3>2 DEF Sent, Outstanding, Taken
      <4> QED
        BY <2>12, <2>14, <2>16, <3>2, <4>1, <4>2
    <3>3. CASE Failed(p) /\ ~(nic[p].sent - nic[p].reaped < test.queue)
      <4>1. test.queue < test.depth
        BY <1>3, <1>5, <2>13, <2>16, <3>3 DEF Outstanding, Taken
      <4> QED
        BY <1>2, <3>3, <4>1, FailedKeeps
    <3> QED
      BY <1>1, <2>5, <3>1, <3>2, <3>3, PostShape
  <2>17. CASE Refill(p, y.done) /\ p = "S"
    <3>1. PostRecv(p, y)
      BY <2>2, <2>17 DEF PostNext
    <3>2. CASE Alone(p) /\ loop'[p] = y /\ Supplied(p)
      <4>1. Queues(p)'
        BY <1>1, <1>2, <1>4, <1>5, <2>1, <2>5, <2>7, <3>2 DEF Queues, Alone, Supplied
      <4>2. Outstanding(p)' = Outstanding(p) + 1 /\ Taken(p)' = Taken(p)
        BY <1>5, <2>17, <3>2, ThePeers DEF Supplied, Alone, Outstanding, Taken, Heard
      <4>3. nic'[p].sent = nic[p].sent
        BY <3>2 DEF Supplied
      <4> QED
        BY <2>12, <2>14, <2>17, <3>2, <4>1, <4>2, <4>3
    <3>3. CASE Failed(p) /\ ~(nic[p].recvs + Of("recv", nic[p].cq) < test.queue)
      <4>1. /\ Outstanding(p) = nic[p].recvs + nic["C"].landed
            /\ Taken(p) = nic["C"].landed - Of("recv", nic[p].cq)
            /\ nic["C"].landed \in Nat
        BY <1>5, <2>17, ThePeers DEF Outstanding, Taken, Heard
      <4>2. test.queue < test.depth
        BY <1>3, <1>5, <2>13, <3>3, <4>1
      <4> QED
        BY <1>2, <3>3, <4>2, FailedKeeps
    <3> QED
      BY <1>1, <2>5, <3>1, <3>2, <3>3, PostRecvShape
  <2> QED
    BY <1>6, <2>15, <2>16, <2>17
<1> QED
  BY <1>8, <1>9, <1>10 DEF Reap

-----------------------------------------------------------------------------
(* The latency loops, round by round. *)
Rhythm(p, send, poll, last) ==
  SendStep(p) = send /\ FirstPoll(p) = poll /\ Len(Steps(p)) = last

LEMMA RoundsOf ==
  ASSUME Typed, NEW p \in Sides, ~Bandwidth, ~Passive(p)
  PROVE  \/ /\ test.tool = "send_lat" /\ p = "C" /\ SendStep(p) = 2 /\ FirstPoll(p) = 3
            /\ Steps(p) = <<"recv", "send", "poll", "poll">>
         \/ /\ test.tool = "send_lat" /\ p = "S" /\ SendStep(p) = 3 /\ FirstPoll(p) = 2
            /\ Steps(p) = <<"recv", "poll", "send", "poll">>
         \/ /\ test.tool = "write_lat" /\ p = "C" /\ SendStep(p) = 2 /\ FirstPoll(p) = 3
            /\ Steps(p) = <<"set", "send", "poll", "await">>
         \/ /\ test.tool = "write_lat" /\ p = "S" /\ SendStep(p) = 3 /\ FirstPoll(p) = 4
            /\ Steps(p) = <<"await", "set", "send", "poll">>
         \/ /\ test.tool = "read_lat" /\ p = "C" /\ SendStep(p) = 1 /\ FirstPoll(p) = 2
            /\ Steps(p) = <<"send", "poll">>
<1>1. test.tool \in Tools
  BY PerftestAssumption DEF Typed
<1>2. test.tool \in {"send_lat", "write_lat", "read_lat"}
  BY <1>1 DEF Tools, Bandwidth
<1>3. p = "C" \/ p = "S"
  BY ThePeers
<1>4. CASE test.tool = "send_lat"
  <2>1. CASE p = "C"
    BY <1>4, <2>1 DEF SendStep, FirstPoll, Steps, Rounds
  <2>2. CASE p = "S"
    BY <1>4, <2>2 DEF SendStep, FirstPoll, Steps, Rounds
  <2> QED
    BY <1>3, <2>1, <2>2
<1>5. CASE test.tool = "write_lat"
  BY <1>3, <1>5 DEF SendStep, FirstPoll, Steps, Rounds
<1>6. CASE test.tool = "read_lat"
  <2>1. p = "C"
    BY <1>3, <1>6 DEF Passive
  <2>2. SendStep(p) = 1 /\ FirstPoll(p) = 2
    BY <1>6 DEF SendStep, FirstPoll
  <2>3. Steps(p) = <<"send", "poll">>
    BY <1>6, <2>1 DEF Steps, Rounds
  <2> QED
    BY <1>6, <2>1, <2>2, <2>3
<1> QED
  BY <1>2, <1>4, <1>5, <1>6

(* Where a loop is when it takes a step. *)
LEMMA StepAt ==
  ASSUME Typed, NEW p \in Sides, ~Bandwidth, ~Passive(p),
         loop[p].at \in 1 .. 4, loop[p].at <= Len(Steps(p))
  PROVE  /\ At(p, "recv") =>
              /\ TwoSided /\ test.tool = "send_lat" /\ loop[p].at = 1
              /\ (p = "C" /\ Rhythm(p, 2, 3, 4)) \/ (p = "S" /\ Rhythm(p, 3, 2, 4))
         /\ At(p, "send") =>
              \/ /\ TwoSided /\ test.tool = "send_lat"
                 /\ \/ p = "C" /\ loop[p].at = 2 /\ Rhythm(p, 2, 3, 4)
                    \/ p = "S" /\ loop[p].at = 3 /\ Rhythm(p, 3, 2, 4)
              \/ /\ ~TwoSided /\ test.tool = "write_lat"
                 /\ \/ p = "C" /\ loop[p].at = 2 /\ Rhythm(p, 2, 3, 4)
                    \/ p = "S" /\ loop[p].at = 3 /\ Rhythm(p, 3, 4, 4)
              \/ /\ ~TwoSided /\ test.tool = "read_lat"
                 /\ p = "C" /\ loop[p].at = 1 /\ Rhythm(p, 1, 2, 2)
         /\ At(p, "poll") =>
              \/ /\ TwoSided /\ test.tool = "send_lat"
                 /\ \/ p = "C" /\ loop[p].at \in {3, 4} /\ Rhythm(p, 2, 3, 4)
                    \/ p = "S" /\ loop[p].at \in {2, 4} /\ Rhythm(p, 3, 2, 4)
              \/ /\ ~TwoSided /\ test.tool = "write_lat"
                 /\ \/ p = "C" /\ loop[p].at = 3 /\ Rhythm(p, 2, 3, 4)
                    \/ p = "S" /\ loop[p].at = 4 /\ Rhythm(p, 3, 4, 4)
              \/ /\ ~TwoSided /\ test.tool = "read_lat"
                 /\ p = "C" /\ loop[p].at = 2 /\ Rhythm(p, 1, 2, 2)
         /\ At(p, "set") =>
              /\ ~TwoSided /\ test.tool = "write_lat"
              /\ \/ p = "C" /\ loop[p].at = 1 /\ Rhythm(p, 2, 3, 4)
                 \/ p = "S" /\ loop[p].at = 2 /\ Rhythm(p, 3, 4, 4)
         /\ At(p, "await") =>
              /\ ~TwoSided /\ test.tool = "write_lat"
              /\ \/ p = "C" /\ loop[p].at = 4 /\ Rhythm(p, 2, 3, 4)
                 \/ p = "S" /\ loop[p].at = 1 /\ Rhythm(p, 3, 4, 4)
<1> DEFINE at == loop[p].at
<1>0. /\ at \in 1 .. 4 /\ at <= Len(Steps(p))
      /\ \A s : At(p, s) => Steps(p)[at] = s
  BY DEF At
<1> HIDE DEF at
<1>a. at = 1 \/ at = 2 \/ at = 3 \/ at = 4
  BY <1>0
<1>1. CASE /\ test.tool = "send_lat" /\ p = "C" /\ SendStep(p) = 2 /\ FirstPoll(p) = 3
           /\ Steps(p) = <<"recv", "send", "poll", "poll">>
  <2>1. TwoSided /\ Rhythm(p, 2, 3, 4)
    BY <1>1 DEF TwoSided, Rhythm
  <2>2. Steps(p)[at] = IF at = 1 THEN "recv" ELSE IF at = 2 THEN "send" ELSE "poll"
    BY <1>a, <1>1
  <2> QED
    BY <1>0, <1>a, <1>1, <2>1, <2>2 DEF at
<1>2. CASE /\ test.tool = "send_lat" /\ p = "S" /\ SendStep(p) = 3 /\ FirstPoll(p) = 2
           /\ Steps(p) = <<"recv", "poll", "send", "poll">>
  <2>1. TwoSided /\ Rhythm(p, 3, 2, 4)
    BY <1>2 DEF TwoSided, Rhythm
  <2>2. Steps(p)[at] = IF at = 1 THEN "recv" ELSE IF at = 3 THEN "send" ELSE "poll"
    BY <1>a, <1>2
  <2> QED
    BY <1>0, <1>a, <1>2, <2>1, <2>2 DEF at
<1>3. CASE /\ test.tool = "write_lat" /\ p = "C" /\ SendStep(p) = 2 /\ FirstPoll(p) = 3
           /\ Steps(p) = <<"set", "send", "poll", "await">>
  <2>1. ~TwoSided /\ Rhythm(p, 2, 3, 4)
    BY <1>3 DEF TwoSided, Rhythm
  <2>2. Steps(p)[at] = IF at = 1 THEN "set" ELSE IF at = 2 THEN "send"
                       ELSE IF at = 3 THEN "poll" ELSE "await"
    BY <1>a, <1>3
  <2> QED
    BY <1>0, <1>a, <1>3, <2>1, <2>2 DEF at
<1>4. CASE /\ test.tool = "write_lat" /\ p = "S" /\ SendStep(p) = 3 /\ FirstPoll(p) = 4
           /\ Steps(p) = <<"await", "set", "send", "poll">>
  <2>1. ~TwoSided /\ Rhythm(p, 3, 4, 4)
    BY <1>4 DEF TwoSided, Rhythm
  <2>2. Steps(p)[at] = IF at = 1 THEN "await" ELSE IF at = 2 THEN "set"
                       ELSE IF at = 3 THEN "send" ELSE "poll"
    BY <1>a, <1>4
  <2> QED
    BY <1>0, <1>a, <1>4, <2>1, <2>2 DEF at
<1>5. CASE /\ test.tool = "read_lat" /\ p = "C" /\ SendStep(p) = 1 /\ FirstPoll(p) = 2
           /\ Steps(p) = <<"send", "poll">>
  <2>1. ~TwoSided /\ Rhythm(p, 1, 2, 2)
    BY <1>5 DEF TwoSided, Rhythm
  <2>2. at \in {1, 2} /\ Steps(p)[at] = IF at = 1 THEN "send" ELSE "poll"
    BY <1>0, <1>a, <1>5
  <2> QED
    BY <1>0, <1>5, <2>1, <2>2 DEF at
<1> QED
  BY <1>1, <1>2, <1>3, <1>4, <1>5, RoundsOf

LEMMA OnwardShape ==
  ASSUME NEW p \in Sides, loop[p] \in Loop, Len(Steps(p)) \in 1 .. 4,
         NEW y, y = Onward(p)
  PROVE  /\ y \in Loop /\ y.pc = loop[p].pc /\ y.batch = loop[p].batch
         /\ y.extra = loop[p].extra
         /\ loop[p].at < Len(Steps(p)) =>
              y.at = loop[p].at + 1 /\ y.done = loop[p].done
         /\ loop[p].at >= Len(Steps(p)) => y.at = 1 /\ y.done = loop[p].done + 1
<1>1. PICK x \in Loop : x = loop[p]
  OBVIOUS
<1>2. PICK at \in 1 .. 4 : at = x.at
  BY LoopFields
<1>3. PICK last \in 1 .. 4 : last = Len(Steps(p))
  OBVIOUS
<1>4. CASE at < last
  <2>1. PICK b \in 1 .. 4 : b = at + 1
    BY <1>2, <1>3, <1>4
  <2>2. y = [x EXCEPT !.at = b]
    BY <1>1, <1>2, <1>3, <1>4, <2>1 DEF Onward
  <2>3. /\ y \in Loop /\ y.pc = x.pc /\ y.at = b /\ y.done = x.done
        /\ y.batch = x.batch /\ y.extra = x.extra
    BY <2>2 DEF Loop
  <2> QED
    BY <1>1, <1>2, <1>3, <1>4, <2>1, <2>3
<1>5. CASE ~(at < last)
  <2>1. PICK d \in Nat : d = x.done + 1
    BY LoopFields
  <2>0. PICK one \in 1 .. 4 : one = 1
    OBVIOUS
  <2>2. y = [x EXCEPT !.at = one, !.done = d]
    BY <1>1, <1>2, <1>3, <1>5, <2>0, <2>1 DEF Onward
  <2>3. /\ y \in Loop /\ y.pc = x.pc /\ y.at = one /\ y.done = d
        /\ y.batch = x.batch /\ y.extra = x.extra
    BY <2>2 DEF Loop
  <2> QED
    BY <1>1, <1>2, <1>3, <1>5, <2>0, <2>1, <2>3
<1> QED
  BY <1>4, <1>5

(* What a round may rely on. *)
LEMMA InRound ==
  ASSUME IInv, NEW p \in Sides, loop[p].pc = "round", test' = test
  PROVE  /\ Typed /\ Own(p) /\ Turn /\ Queues(p) /\ PingPong(p)
         /\ ~Bandwidth /\ ~Passive(p)
         /\ loop[p] \in Loop /\ nic[p] \in Nics /\ nic[Peer(p)] \in Nics
         /\ loop \in [Sides -> Loop] /\ nic \in [Sides -> Nics]
         /\ test \in Tests /\ Peer(p) \in Sides /\ test.queue \in Nat \ {0}
         /\ loop[p].at \in 1 .. 4 /\ loop[p].at <= Len(Steps(p))
         /\ Len(Steps(p)) \in 1 .. 4
         /\ Bandwidth' = Bandwidth /\ TwoSided' = TwoSided /\ Passive(p)' = Passive(p)
         /\ Steps(p)' = Steps(p) /\ SendStep(p)' = SendStep(p)
         /\ FirstPoll(p)' = FirstPoll(p)
<1>1. /\ Typed /\ Own(p) /\ Turn /\ loop[p] \in Loop /\ nic[p] \in Nics
      /\ nic[Peer(p)] \in Nics /\ nic \in [Sides -> Nics] /\ test \in Tests
      /\ loop \in [Sides -> Loop] /\ Peer(p) \in Sides
  BY ThePeers DEF IInv, Typed
<1>2. ~Bandwidth /\ ~Passive(p) /\ PingPong(p) /\ Queues(p)
  BY <1>1, WhichLoop DEF Own
<1>3. test.queue \in Nat \ {0}
  BY <1>1, PerftestAssumption
<1>4. loop[p].at \in 1 .. 4 /\ loop[p].at <= Len(Steps(p))
  BY <1>1, <1>2, LoopFields DEF PingPong
<1>5. Len(Steps(p)) \in 1 .. 4
  <2>1. \A a, b, c, d : Len(<<a, b, c, d>>) = 4 /\ Len(<<a, b>>) = 2
    OBVIOUS
  <2> QED
    BY <1>1, <1>2, <2>1, RoundsOf
<1>6. /\ Bandwidth' = Bandwidth /\ TwoSided' = TwoSided /\ Passive(p)' = Passive(p)
      /\ Steps(p)' = Steps(p) /\ SendStep(p)' = SendStep(p)
      /\ FirstPoll(p)' = FirstPoll(p)
  BY SameTest
<1> QED
  BY <1>1, <1>2, <1>3, <1>4, <1>5, <1>6

LEMMA RoundKeeps ==
  ASSUME IInv, NEW p \in Sides, loop[p].pc = "round",
         Alone(p), Queues(p)', PingPong(p)', Turn'
  PROVE  IInv'
<1>1. ~Bandwidth /\ Bandwidth' = Bandwidth
  BY InRound DEF Alone
<1> QED
  BY <1>1, ProgramKeeps DEF Own

(* Only write_lat has sentinels. *)
LEMMA NoSentinel ==
  ASSUME test.tool # "write_lat", test' = test
  PROVE  Turn'
BY DEF Turn

-----------------------------------------------------------------------------
(* The sentinels. *)

LEMMA DivMod ==
  ASSUME NEW n \in Nat, NEW b \in Nat \ {0}
  PROVE  \E q \in Nat : \E r \in 0 .. b - 1 : n = b * q + r /\ n % b = r
BY SMTT(30)

(* A sentinel is odd and its echo even.                                    *)
LEMMA Parity ==
  ASSUME NEW i \in Nat
  PROVE  /\ Sentinel(i) \in Nat /\ Echo(i) \in Nat
         /\ Sentinel(i) % 2 = 1 /\ Echo(i) % 2 = 0
<1>1. PICK b \in Nat \ {0} : Bytes = 2 * b
  <2>1. Bytes = 2 * (Bytes \div 2) /\ Bytes \div 2 \in Nat \ {0}
    BY PerftestAssumption
  <2> QED
    BY <2>1
<1>2. PICK q \in Nat, r \in 0 .. Bytes - 1 : 1 + 2 * i = Bytes * q + r /\ Sentinel(i) = r
  <2> DEFINE n == 1 + 2 * i
  <2>1. n \in Nat /\ Bytes \in Nat \ {0}
    BY PerftestAssumption
  <2>2. Sentinel(i) = n % Bytes
    BY DEF Sentinel
  <2> HIDE DEF n
  <2>3. \E q \in Nat : \E r \in 0 .. Bytes - 1 : n = Bytes * q + r /\ n % Bytes = r
    BY <2>1, DivMod
  <2> QED
    BY <2>2, <2>3 DEF n
<1>3. PICK k \in Int : k = b * q
  BY <1>1, <1>2
<1>4. Bytes * q = 2 * k
  BY <1>1, <1>2, <1>3
<1>5. r = 1 + 2 * (i - k)
  BY <1>2, <1>3, <1>4
<1>6. r % 2 = 1 /\ (r + 1) % 2 = 0
  BY <1>3, <1>5
<1>7. Echo(i) = (r + 1) % Bytes
  BY <1>2 DEF Echo
<1>8. CASE r + 1 < Bytes
  BY <1>1, <1>2, <1>6, <1>7, <1>8
<1>9. CASE r + 1 = Bytes
  <2>1. Bytes % Bytes = 0
    BY <1>1
  <2> QED
    BY <1>2, <1>6, <1>7, <1>9, <2>1
<1> QED
  BY <1>1, <1>2, <1>6, <1>8, <1>9

(* Where the two sides of write_lat may be to one another. *)
LEMMA TurnFacts ==
  ASSUME IInv, test.tool = "write_lat", ~Garbled
  PROVE  /\ InTurn /\ Shows
         /\ loop["C"].at \in 1 .. 4 /\ loop["S"].at \in 1 .. 4
         /\ loop["C"].done \in Nat /\ loop["S"].done \in Nat
         /\ nic["C"].landed \in Nat /\ nic["S"].landed \in Nat
         /\ nic["C"].sent = loop["C"].done + (IF loop["C"].at > 2 THEN 1 ELSE 0)
         /\ nic["S"].sent = loop["S"].done + (IF loop["S"].at > 3 THEN 1 ELSE 0)
         /\ nic["C"].landed <= nic["C"].sent /\ nic["S"].landed <= nic["S"].sent
         /\ Sets = loop["S"].done + (IF loop["S"].at > 2 THEN 1 ELSE 0)
<1>1. /\ Typed /\ Own("C") /\ Own("S") /\ Turn
      /\ loop["C"] \in Loop /\ loop["S"] \in Loop /\ nic["C"] \in Nics /\ nic["S"] \in Nics
  BY ThePeers DEF IInv, Typed
<1>2. ~Bandwidth /\ ~Passive("C") /\ ~Passive("S")
  BY DEF Bandwidth, Passive
<1>3. PingPong("C") /\ PingPong("S") /\ Queues("C") /\ Queues("S")
  BY <1>1, <1>2 DEF Own
<1>4. SendStep("C") = 2 /\ SendStep("S") = 3
  BY DEF SendStep
<1>5. nic["C"].landed <= nic["C"].sent /\ nic["S"].landed <= nic["S"].sent
  BY <1>1, <1>3, ThePeers, InOrder
<1>6. InTurn /\ Shows
  BY <1>1 DEF Turn
<1>7. /\ loop["C"].at \in 1 .. 4 /\ loop["S"].at \in 1 .. 4
      /\ loop["C"].done \in Nat /\ loop["S"].done \in Nat
      /\ nic["C"].landed \in Nat /\ nic["S"].landed \in Nat
  BY <1>1, LoopFields, NicFields
<1>8. /\ nic["C"].sent = loop["C"].done + (IF loop["C"].at > 2 THEN 1 ELSE 0)
      /\ nic["S"].sent = loop["S"].done + (IF loop["S"].at > 3 THEN 1 ELSE 0)
  BY <1>3, <1>4 DEF PingPong, Past
<1> QED
  BY <1>5, <1>6, <1>7, <1>8 DEF Sets, Past

LEMMA TurnGoal ==
  ASSUME test' = test, test.tool = "write_lat" /\ ~Garbled => InTurn' /\ Shows'
  PROVE  Turn'
BY SameTest DEF Turn

(* Posting the write: the client's round has been answered, the server's   *)
(* answer follows a ping that has landed.                                  *)
LEMMA TurnSend ==
  ASSUME IInv, NEW p \in Sides, Alone(p),
         p = "C" => loop[p].at = 2, p = "S" => loop[p].at = 3,
         loop'[p].at = loop[p].at + 1, loop'[p].done = loop[p].done,
         nic'[p].sent = nic[p].sent + 1, nic'[p].mem = nic[p].mem
  PROVE  Turn'
<1> SUFFICES ASSUME test.tool = "write_lat", ~Garbled PROVE InTurn' /\ Shows'
  BY TurnGoal DEF Alone
<1>1. /\ test' = test /\ nic'[Peer(p)] = nic[Peer(p)] /\ loop'[Peer(p)] = loop[Peer(p)]
      /\ nic'[p].landed = nic[p].landed
  BY DEF Alone
<1>2. CASE p = "C"
  <2>1. /\ nic'["S"] = nic["S"] /\ loop'["S"] = loop["S"]
        /\ nic'["C"].landed = nic["C"].landed /\ nic'["C"].mem = nic["C"].mem
        /\ nic'["C"].sent = nic["C"].sent + 1
        /\ loop["C"].at = 2 /\ loop'["C"].at = 3 /\ loop'["C"].done = loop["C"].done
    BY <1>1, <1>2, ThePeers
  <2>2. InTurn'
    BY <2>1, TurnFacts DEF InTurn
  <2>3. Sets' = Sets
    BY <2>1 DEF Sets, Past
  <2>4. Shows'
    BY <1>1, <2>1, <2>3, TurnFacts DEF Shows
  <2> QED
    BY <2>2, <2>4
<1>3. CASE p = "S"
  <2>1. /\ nic'["C"] = nic["C"] /\ loop'["C"] = loop["C"]
        /\ nic'["S"].landed = nic["S"].landed /\ nic'["S"].mem = nic["S"].mem
        /\ nic'["S"].sent = nic["S"].sent + 1
        /\ loop["S"].at = 3 /\ loop'["S"].at = 4 /\ loop'["S"].done = loop["S"].done
    BY <1>1, <1>3, ThePeers
  <2>2. InTurn'
    BY <2>1, TurnFacts DEF InTurn
  <2>3. Sets' = Sets
    BY <2>1 DEF Sets, Past
  <2>4. Shows'
    BY <1>1, <2>1, <2>3, TurnFacts DEF Shows
  <2> QED
    BY <2>2, <2>4
<1> QED
  BY <1>2, <1>3, ThePeers

(* Polling its completion: the client goes on to await, the server to the  *)
(* next round.                                                             *)
LEMMA TurnPoll ==
  ASSUME IInv, NEW p \in Sides, Alone(p),
         p = "C" => /\ loop[p].at = 3 /\ loop'[p].at = 4
                    /\ loop'[p].done = loop[p].done,
         p = "S" => /\ loop[p].at = 4 /\ loop'[p].at = 1
                    /\ loop'[p].done = loop[p].done + 1,
         nic'[p].sent = nic[p].sent, nic'[p].mem = nic[p].mem
  PROVE  Turn'
<1> SUFFICES ASSUME test.tool = "write_lat", ~Garbled PROVE InTurn' /\ Shows'
  BY TurnGoal DEF Alone
<1>1. /\ test' = test /\ nic'[Peer(p)] = nic[Peer(p)] /\ loop'[Peer(p)] = loop[Peer(p)]
      /\ nic'[p].landed = nic[p].landed
  BY DEF Alone
<1>2. CASE p = "C"
  <2>1. /\ nic'["S"] = nic["S"] /\ loop'["S"] = loop["S"]
        /\ nic'["C"].landed = nic["C"].landed /\ nic'["C"].mem = nic["C"].mem
        /\ nic'["C"].sent = nic["C"].sent
        /\ loop["C"].at = 3 /\ loop'["C"].at = 4 /\ loop'["C"].done = loop["C"].done
    BY <1>1, <1>2, ThePeers
  <2>2. InTurn'
    BY <2>1, TurnFacts DEF InTurn
  <2>3. Sets' = Sets
    BY <2>1 DEF Sets, Past
  <2>4. Shows'
    BY <1>1, <2>1, <2>3, TurnFacts DEF Shows
  <2> QED
    BY <2>2, <2>4
<1>3. CASE p = "S"
  <2>1. /\ nic'["C"] = nic["C"] /\ loop'["C"] = loop["C"]
        /\ nic'["S"].landed = nic["S"].landed /\ nic'["S"].mem = nic["S"].mem
        /\ nic'["S"].sent = nic["S"].sent
        /\ loop["S"].at = 4 /\ loop'["S"].at = 1 /\ loop'["S"].done = loop["S"].done + 1
    BY <1>1, <1>3, ThePeers
  <2>2. InTurn'
    BY <2>1, TurnFacts DEF InTurn
  <2>3. Sets' = Sets
    BY <2>1, TurnFacts DEF Sets, Past
  <2>4. Shows'
    BY <1>1, <2>1, <2>3, TurnFacts DEF Shows
  <2> QED
    BY <2>2, <2>4
<1> QED
  BY <1>2, <1>3, ThePeers

(* Setting the sentinel: nothing of the peer's lands between it and the    *)
(* write.                                                                  *)
LEMMA TurnSet ==
  ASSUME IInv, NEW p \in Sides, Alone(p), test.tool = "write_lat",
         p = "C" => /\ loop[p].at = 1 /\ nic'[p].mem = Sentinel(loop[p].done),
         p = "S" => /\ loop[p].at = 2 /\ nic'[p].mem = Echo(loop[p].done),
         loop'[p].at = loop[p].at + 1, loop'[p].done = loop[p].done,
         nic'[p].sent = nic[p].sent
  PROVE  Turn'
<1> SUFFICES ASSUME ~Garbled PROVE InTurn' /\ Shows'
  BY TurnGoal DEF Alone
<1>1. /\ test' = test /\ nic'[Peer(p)] = nic[Peer(p)] /\ loop'[Peer(p)] = loop[Peer(p)]
      /\ nic'[p].landed = nic[p].landed
  BY DEF Alone
<1>2. CASE p = "C"
  <2>1. /\ nic'["S"] = nic["S"] /\ loop'["S"] = loop["S"]
        /\ nic'["C"].landed = nic["C"].landed
        /\ nic'["C"].mem = Sentinel(loop["C"].done)
        /\ nic'["C"].sent = nic["C"].sent
        /\ loop["C"].at = 1 /\ loop'["C"].at = 2 /\ loop'["C"].done = loop["C"].done
    BY <1>1, <1>2, ThePeers
  <2>2. InTurn'
    BY <2>1, TurnFacts DEF InTurn
  <2>3. Sets' = Sets
    BY <2>1 DEF Sets, Past
  <2>4. ~(nic["S"].landed > loop["C"].done)
    BY <2>1, TurnFacts DEF InTurn
  <2>5. Shows'
    BY <1>1, <2>1, <2>3, <2>4, TurnFacts DEF Shows
  <2> QED
    BY <2>2, <2>5
<1>3. CASE p = "S"
  <2>1. /\ nic'["C"] = nic["C"] /\ loop'["C"] = loop["C"]
        /\ nic'["S"].landed = nic["S"].landed
        /\ nic'["S"].mem = Echo(loop["S"].done)
        /\ nic'["S"].sent = nic["S"].sent
        /\ loop["S"].at = 2 /\ loop'["S"].at = 3 /\ loop'["S"].done = loop["S"].done
    BY <1>1, <1>3, ThePeers
  <2>2. InTurn'
    BY <2>1, TurnFacts DEF InTurn
  <2>3. Sets' = loop["S"].done + 1
    BY <2>1 DEF Sets, Past
  <2>4. ~(nic["C"].landed > loop["S"].done + 1)
    BY <2>1, TurnFacts DEF InTurn
  <2>5. Sets' # 0 /\ Sets' - 1 = loop["S"].done
    BY <2>3, TurnFacts
  <2>6. Shows'
    BY <1>1, <2>1, <2>3, <2>4, <2>5, TurnFacts DEF Shows
  <2> QED
    BY <2>2, <2>6
<1> QED
  BY <1>2, <1>3, ThePeers

(* Awaiting the peer's: what shows is odd or even as the one or the other  *)
(* has written it, so that it is the peer's of this round.                 *)
LEMMA TurnAwait ==
  ASSUME IInv, NEW p \in Sides, Alone(p), test.tool = "write_lat",
         p = "C" => /\ loop[p].at = 4 /\ nic[p].mem = Echo(loop[p].done)
                    /\ loop'[p].at = 1 /\ loop'[p].done = loop[p].done + 1,
         p = "S" => /\ loop[p].at = 1 /\ nic[p].mem = Sentinel(loop[p].done)
                    /\ loop'[p].at = 2 /\ loop'[p].done = loop[p].done,
         nic' = nic
  PROVE  Turn'
<1> SUFFICES ASSUME ~Garbled PROVE InTurn' /\ Shows'
  BY TurnGoal DEF Alone
<1>1. test' = test /\ loop'[Peer(p)] = loop[Peer(p)]
  BY DEF Alone
<1>2. CASE p = "C"
  <2>1. /\ loop'["S"] = loop["S"] /\ nic["C"].mem = Echo(loop["C"].done)
        /\ loop["C"].at = 4 /\ loop'["C"].at = 1 /\ loop'["C"].done = loop["C"].done + 1
    BY <1>1, <1>2, ThePeers
  <2>2. nic["S"].landed > loop["C"].done
    <3>1. Sentinel(loop["C"].done) # Echo(loop["C"].done)
      BY TurnFacts, Parity
    <3> QED
      BY <2>1, <3>1, TurnFacts DEF Shows
  <2>3. InTurn'
    BY <2>1, <2>2, TurnFacts DEF InTurn
  <2>4. Sets' = Sets
    BY <2>1 DEF Sets, Past
  <2>5. Shows'
    BY <1>1, <2>1, <2>4, TurnFacts DEF Shows
  <2> QED
    BY <2>3, <2>5
<1>3. CASE p = "S"
  <2>1. /\ loop'["C"] = loop["C"] /\ nic["S"].mem = Sentinel(loop["S"].done)
        /\ loop["S"].at = 1 /\ loop'["S"].at = 2 /\ loop'["S"].done = loop["S"].done
    BY <1>1, <1>3, ThePeers
  <2>2. Sets = loop["S"].done
    BY <2>1, TurnFacts
  <2>3. loop["S"].done < nic["C"].landed
    <3>1. CASE loop["S"].done = 0
      <4>1. test.byte # Sentinel(0)
        BY DEF Garbled
      <4> QED
        BY <2>1, <2>2, <3>1, <4>1, TurnFacts DEF Shows
    <3>2. CASE loop["S"].done # 0
      <4>1. loop["S"].done - 1 \in Nat
        BY <3>2, TurnFacts
      <4>2. Sentinel(loop["S"].done) # Echo(loop["S"].done - 1)
        BY <4>1, TurnFacts, Parity
      <4> QED
        BY <2>1, <2>2, <3>2, <4>2, TurnFacts DEF Shows
    <3> QED
      BY <3>1, <3>2
  <2>4. InTurn'
    BY <2>1, <2>3, TurnFacts DEF InTurn
  <2>5. Sets' = Sets
    BY <2>1 DEF Sets, Past
  <2>6. Shows'
    BY <1>1, <2>1, <2>5, TurnFacts DEF Shows
  <2> QED
    BY <2>4, <2>6
<1> QED
  BY <1>2, <1>3, ThePeers

(* PingPong, in terms of where the loop is and what its queues hold. *)
Pace(p, send, poll, last, pc, at, done, extra, sent, reaped, given, heard) ==
  /\ pc \in {"round", "done", "error"} /\ at <= last
  /\ sent = done + (IF at > send THEN 1 ELSE 0)
  /\ done <= reaped
  /\ TwoSided => /\ given = done + (IF at > 1 THEN 1 ELSE 0)
                 /\ done <= heard
                 /\ p = "S" => sent <= heard
  /\ pc # "error" /\ at <= poll =>
       /\ reaped = done /\ extra = 0
       /\ TwoSided => heard = done
  /\ pc # "error" /\ ~(at <= poll) =>
       /\ TwoSided => reaped + heard = 2 * done + 1 + extra
       /\ ~TwoSided => reaped = done + 1 + extra

LEMMA PaceNow ==
  ASSUME NEW p \in Sides, PingPong(p), NEW send, NEW poll, NEW last,
         Rhythm(p, send, poll, last), loop[p] \in Loop, nic[p] \in Nics
  PROVE  Pace(p, send, poll, last, loop[p].pc, loop[p].at, loop[p].done,
              loop[p].extra, nic[p].sent, nic[p].reaped, Given(p), Heard(p))
<1>1. loop[p].done \in Nat /\ loop[p].extra \in Nat /\ nic[p].reaped \in Nat
  BY LoopFields, NicFields
<1>2. SendStep(p) = send /\ FirstPoll(p) = poll /\ Len(Steps(p)) = last
  BY DEF Rhythm
<1>3. /\ loop[p].pc \in {"round", "done", "error"} /\ loop[p].at <= last
      /\ nic[p].sent = loop[p].done + (IF loop[p].at > send THEN 1 ELSE 0)
      /\ loop[p].done <= nic[p].reaped
      /\ TwoSided => /\ Given(p) = loop[p].done + (IF loop[p].at > 1 THEN 1 ELSE 0)
                     /\ loop[p].done <= Heard(p)
                     /\ p = "S" => nic[p].sent <= Heard(p)
  BY <1>2 DEF PingPong, Past
<1>4. loop[p].pc # "error" /\ loop[p].at <= poll =>
        /\ nic[p].reaped = loop[p].done /\ loop[p].extra = 0
        /\ TwoSided => Heard(p) = loop[p].done
  BY <1>2 DEF PingPong
<1>5. loop[p].pc # "error" /\ ~(loop[p].at <= poll) =>
        nic[p].reaped + (IF TwoSided THEN Heard(p) ELSE 0) =
          (IF TwoSided THEN 2 ELSE 1) * loop[p].done + 1 + loop[p].extra
  BY <1>2 DEF PingPong
<1>6. loop[p].pc # "error" /\ ~(loop[p].at <= poll) =>
        /\ TwoSided => nic[p].reaped + Heard(p) = 2 * loop[p].done + 1 + loop[p].extra
        /\ ~TwoSided => nic[p].reaped = loop[p].done + 1 + loop[p].extra
  BY <1>1, <1>5
<1> QED
  BY <1>3, <1>4, <1>6 DEF Pace

LEMMA PaceNext ==
  ASSUME NEW p \in Sides, NEW send, NEW poll, NEW last, test' = test,
         Rhythm(p, send, poll, last), loop'[p] \in Loop, nic'[p] \in Nics,
         loop'[p].batch = <<>>,
         Pace(p, send, poll, last, loop'[p].pc, loop'[p].at, loop'[p].done,
              loop'[p].extra, nic'[p].sent, nic'[p].reaped, Given(p)', Heard(p)')
  PROVE  PingPong(p)'
<1>1. loop'[p].done \in Nat /\ loop'[p].extra \in Nat /\ nic'[p].reaped \in Nat
  BY LoopFields, NicFields
<1>2. /\ SendStep(p)' = send /\ FirstPoll(p)' = poll /\ Len(Steps(p))' = last
      /\ TwoSided' = TwoSided
  BY SameTest DEF Rhythm
<1>3. /\ loop'[p].pc \in {"round", "done", "error"} /\ loop'[p].at <= last
      /\ nic'[p].sent = loop'[p].done + (IF loop'[p].at > send THEN 1 ELSE 0)
      /\ loop'[p].done <= nic'[p].reaped
      /\ TwoSided => /\ Given(p)' = loop'[p].done + (IF loop'[p].at > 1 THEN 1 ELSE 0)
                     /\ loop'[p].done <= Heard(p)'
                     /\ p = "S" => nic'[p].sent <= Heard(p)'
      /\ loop'[p].pc # "error" /\ loop'[p].at <= poll =>
           /\ nic'[p].reaped = loop'[p].done /\ loop'[p].extra = 0
           /\ TwoSided => Heard(p)' = loop'[p].done
  BY DEF Pace
<1>4. loop'[p].pc # "error" /\ ~(loop'[p].at <= poll) =>
        nic'[p].reaped + (IF TwoSided THEN Heard(p)' ELSE 0) =
          (IF TwoSided THEN 2 ELSE 1) * loop'[p].done + 1 + loop'[p].extra
  BY <1>1 DEF Pace
<1> HIDE DEF Pace
<1>5. Past(p, SendStep(p))' = (IF loop'[p].at > send THEN 1 ELSE 0)
      /\ Past(p, 1)' = (IF loop'[p].at > 1 THEN 1 ELSE 0)
  BY <1>2 DEF Past
<1> QED
  BY <1>2, <1>3, <1>4, <1>5 DEF PingPong

-----------------------------------------------------------------------------
(* The steps of a round. *)

(* Posting a receive, the first step of either side. *)
LEMMA RecvKeeps ==
  ASSUME IInv, NEW p \in Sides, test' = test, At(p, "recv"), PostRecv(p, Onward(p))
  PROVE  IInv'
<1>1. loop[p].pc = "round"
  BY DEF At
<1>2. /\ Queues(p) /\ PingPong(p) /\ Typed /\ test.queue \in Nat \ {0}
      /\ loop[p] \in Loop /\ nic[p] \in Nics /\ nic[Peer(p)] \in Nics
      /\ ~Bandwidth /\ ~Passive(p)
      /\ loop[p].at \in 1 .. 4 /\ loop[p].at <= Len(Steps(p)) /\ Len(Steps(p)) \in 1 .. 4
      /\ TwoSided' = TwoSided /\ Passive(p)' = Passive(p)
  BY <1>1, InRound
<1>3. PICK y : y = Onward(p)
  OBVIOUS
<1>4. /\ TwoSided /\ test.tool = "send_lat" /\ loop[p].at = 1
      /\ (p = "C" /\ Rhythm(p, 2, 3, 4)) \/ (p = "S" /\ Rhythm(p, 3, 2, 4))
  BY <1>2, StepAt
<1>5. PICK send \in {2, 3}, poll \in {2, 3} : Rhythm(p, send, poll, 4)
  BY <1>4
<1>6. Len(Steps(p)) = 4
  BY <1>5 DEF Rhythm
<1>7. /\ y \in Loop /\ y.pc = "round" /\ y.batch = loop[p].batch
      /\ y.extra = loop[p].extra /\ y.at = 2 /\ y.done = loop[p].done
  <2>1. loop[p].at < Len(Steps(p)) /\ loop[p].at + 1 = 2
    BY <1>4, <1>6
  <2> QED
    BY <1>1, <1>2, <1>3, <2>1, OnwardShape
<1>8. /\ nic[p].sent \in Nat /\ nic[p].reaped \in Nat /\ nic[p].recvs \in Nat
      /\ nic[Peer(p)].landed \in Nat /\ Of("recv", nic[p].cq) \in Nat
      /\ loop[p].done \in Nat
  BY <1>2, NicFields, LoopFields
<1>9. Pace(p, send, poll, 4, "round", 1, loop[p].done, loop[p].extra,
           nic[p].sent, nic[p].reaped, Given(p), Heard(p))
  BY <1>1, <1>2, <1>4, <1>5, PaceNow
<1>10. /\ nic[p].sent = loop[p].done /\ nic[p].reaped = loop[p].done
       /\ Given(p) = loop[p].done /\ Heard(p) = loop[p].done /\ loop[p].extra = 0
  BY <1>4, <1>5, <1>8, <1>9 DEF Pace
<1>11. CASE Alone(p) /\ loop'[p] = y /\ Supplied(p)
  <2>1. nic'[p] \in Nics /\ loop'[p] \in Loop /\ test' = test
        /\ nic'[Peer(p)] = nic[Peer(p)]
    BY <1>11 DEF Alone
  <2>2. Given(p)' = loop[p].done + 1 /\ Heard(p)' = loop[p].done
    <3>1. Given(p)' = Given(p) + 1
      BY <1>8, <1>11, <2>1 DEF Given, Supplied
    <3>2. Heard(p)' = Heard(p)
      BY <1>8, <1>11, <2>1 DEF Heard, Supplied
    <3> QED
      BY <1>10, <3>1, <3>2
  <2>3. Queues(p)'
    BY <1>1, <1>2, <1>7, <1>11, <2>1 DEF Queues, Supplied
  <2>4. nic'[p].sent = loop[p].done /\ nic'[p].reaped = loop[p].done
    BY <1>10, <1>11 DEF Supplied
  <2>5. Pace(p, send, poll, 4, "round", 2, loop[p].done, 0,
             loop[p].done, loop[p].done, loop[p].done + 1, loop[p].done)
    BY <1>4, <1>5, <1>8 DEF Pace
  <2>6. loop[p].batch = <<>>
    BY <1>2 DEF PingPong
  <2>7. /\ loop'[p].batch = <<>> /\ loop'[p].pc = "round" /\ loop'[p].at = 2
        /\ loop'[p].done = loop[p].done /\ loop'[p].extra = 0
    BY <1>7, <1>10, <1>11, <2>6
  <2>8. PingPong(p)'
    BY <1>5, <2>1, <2>2, <2>4, <2>5, <2>7, PaceNext
  <2>9. Turn'
    BY <1>4, NoSentinel
  <2> QED
    BY <1>1, <1>11, <2>3, <2>8, <2>9, RoundKeeps
<1>12. CASE ~(nic[p].recvs + Of("recv", nic[p].cq) < test.queue)
  <2>1. nic[p].recvs + Of("recv", nic[p].cq) = 0
    BY <1>8, <1>10 DEF Given, Heard
  <2> QED
    BY <1>2, <1>12, <2>1
<1> QED
  BY <1>2, <1>3, <1>7, <1>11, <1>12, PostRecvShape

(* Posting the send or the one-sided operation. *)
LEMMA SendKeeps ==
  ASSUME IInv, NEW p \in Sides, test' = test, At(p, "send"), Post(p, Onward(p))
  PROVE  IInv'
<1>1. loop[p].pc = "round"
  BY DEF At
<1>2. /\ Queues(p) /\ PingPong(p) /\ Typed /\ test.queue \in Nat \ {0}
      /\ loop[p] \in Loop /\ nic[p] \in Nics /\ nic[Peer(p)] \in Nics
      /\ ~Bandwidth /\ ~Passive(p)
      /\ loop[p].at \in 1 .. 4 /\ loop[p].at <= Len(Steps(p)) /\ Len(Steps(p)) \in 1 .. 4
      /\ TwoSided' = TwoSided /\ Passive(p)' = Passive(p)
  BY <1>1, InRound
<1>3. PICK y : y = Onward(p)
  OBVIOUS
<1>4. PICK send \in 1 .. 3, poll \in 2 .. 4, last \in {2, 4} :
        /\ Rhythm(p, send, poll, last) /\ loop[p].at = send /\ send < last
        /\ poll # send
        /\ p = "C" => poll = send + 1
        /\ TwoSided => test.tool = "send_lat"
        /\ TwoSided => (IF p = "C" THEN send = 2 ELSE send = 3 /\ poll = 2)
        /\ ~TwoSided => send < poll
        /\ test.tool = "write_lat" => (IF p = "C" THEN send = 2 ELSE send = 3)
  <2>1. CASE /\ TwoSided /\ test.tool = "send_lat"
             /\ p = "C" /\ loop[p].at = 2 /\ Rhythm(p, 2, 3, 4)
    BY <2>1
  <2>2. CASE /\ TwoSided /\ test.tool = "send_lat"
             /\ p = "S" /\ loop[p].at = 3 /\ Rhythm(p, 3, 2, 4)
    BY <2>2
  <2>3. CASE /\ ~TwoSided /\ test.tool = "write_lat"
             /\ p = "C" /\ loop[p].at = 2 /\ Rhythm(p, 2, 3, 4)
    BY <2>3
  <2>4. CASE /\ ~TwoSided /\ test.tool = "write_lat"
             /\ p = "S" /\ loop[p].at = 3 /\ Rhythm(p, 3, 4, 4)
    BY <2>4
  <2>5. CASE /\ ~TwoSided /\ test.tool = "read_lat"
             /\ p = "C" /\ loop[p].at = 1 /\ Rhythm(p, 1, 2, 2)
    BY <2>5
  <2> QED
    BY <1>2, <2>1, <2>2, <2>3, <2>4, <2>5, StepAt
<1>5. Len(Steps(p)) = last
  BY <1>4 DEF Rhythm
<1>6. p = "C" \/ p = "S"
  BY ThePeers
<1>7. /\ y \in Loop /\ y.pc = "round" /\ y.batch = loop[p].batch
      /\ y.extra = loop[p].extra /\ y.at = send + 1 /\ y.done = loop[p].done
  BY <1>1, <1>2, <1>3, <1>4, <1>5, OnwardShape
<1>8. /\ nic[p].sent \in Nat /\ nic[p].reaped \in Nat /\ nic[p].recvs \in Nat
      /\ nic[Peer(p)].landed \in Nat /\ Of("recv", nic[p].cq) \in Nat
      /\ loop[p].done \in Nat /\ nic[p].landed \in Nat /\ nic[p].lost \in Nat
      /\ loop[p].extra \in Nat /\ nic[p].acked \in Nat /\ Of("send", nic[p].cq) \in Nat
  BY <1>2, NicFields, LoopFields
<1>9. Heard(p) \in Int /\ Given(p) \in Nat
  BY <1>8 DEF Heard, Given
<1>10. Pace(p, send, poll, last, "round", send, loop[p].done, loop[p].extra,
            nic[p].sent, nic[p].reaped, Given(p), Heard(p))
  BY <1>1, <1>2, <1>4, PaceNow
<1>11. nic[p].sent = loop[p].done /\ loop[p].done <= nic[p].reaped
  <2>1. send \in Int
    BY <1>4
  <2> QED
    BY <1>8, <1>10, <2>1 DEF Pace
<1>12. nic[p].reaped <= nic[p].sent
  <2>1. nic[p].reaped <= nic[p].acked /\ nic[p].acked <= nic[p].sent
    BY <1>2, InOrder
  <2> QED
    BY <1>8, <2>1
<1>13. CASE Alone(p) /\ loop'[p] = y /\ Sent(p)
  <2>1. nic'[p] \in Nics /\ loop'[p] \in Loop /\ test' = test
        /\ nic'[Peer(p)] = nic[Peer(p)]
    BY <1>13 DEF Alone
  <2>2. Given(p)' = Given(p) /\ Heard(p)' = Heard(p)
    BY <1>13, <2>1 DEF Given, Heard, Sent
  <2>3. Queues(p)'
    <3>2. /\ nic'[p].landed + nic'[p].lost <= nic'[p].sent
          /\ nic'[p].acked <= nic'[p].sent
          /\ ~test.ud => nic'[p].acked <= nic'[p].landed
      BY <1>2, <1>13, SentInOrder
    <3> QED
      BY <1>1, <1>2, <1>7, <1>13, <2>1, <3>2 DEF Queues, Sent
  <2>4. nic'[p].sent = loop[p].done + 1 /\ nic'[p].reaped = nic[p].reaped
    BY <1>11, <1>13 DEF Sent
  <2>5. Pace(p, send, poll, last, "round", send + 1, loop[p].done, loop[p].extra,
             loop[p].done + 1, nic[p].reaped, Given(p), Heard(p))
    <3>1. CASE TwoSided /\ p = "C"
      BY <1>4, <1>6, <1>8, <1>9, <1>10, <1>11, <1>12, <3>1 DEF Pace
    <3>2. CASE TwoSided /\ p = "S"
      BY <1>4, <1>6, <1>8, <1>9, <1>10, <1>11, <1>12, <3>2 DEF Pace
    <3>3. CASE ~TwoSided
      BY <1>4, <1>6, <1>8, <1>10, <1>11, <1>12, <3>3 DEF Pace
    <3> QED
      BY <1>6, <3>1, <3>2, <3>3
  <2>6. loop[p].batch = <<>>
    BY <1>2 DEF PingPong
  <2>7. /\ loop'[p].batch = <<>> /\ loop'[p].pc = "round" /\ loop'[p].at = send + 1
        /\ loop'[p].done = loop[p].done /\ loop'[p].extra = loop[p].extra
    BY <1>7, <1>13, <2>6
  <2>8. PingPong(p)'
    BY <1>4, <2>1, <2>2, <2>4, <2>5, <2>7, PaceNext
  <2>9. Turn'
    <3>1. CASE test.tool # "write_lat"
      BY <3>1, NoSentinel
    <3>2. CASE test.tool = "write_lat"
      <4>1. (p = "C" => loop[p].at = 2) /\ (p = "S" => loop[p].at = 3)
        BY <1>4, <3>2
      <4>2. nic'[p].sent = nic[p].sent + 1 /\ nic'[p].mem = nic[p].mem
        BY <1>13 DEF Sent
      <4>3. loop'[p].at = loop[p].at + 1 /\ loop'[p].done = loop[p].done
        BY <1>4, <2>7
      <4> QED
        BY <1>13, <4>1, <4>2, <4>3, TurnSend
    <3> QED
      BY <3>1, <3>2
  <2> QED
    BY <1>1, <1>13, <2>3, <2>8, <2>9, RoundKeeps
<1>14. CASE ~(nic[p].sent - nic[p].reaped < test.queue)
  <2>1. nic[p].sent - nic[p].reaped = 0
    BY <1>8, <1>11, <1>12
  <2>2. test.queue \in Nat \ {0}
    BY <1>2
  <2> QED
    BY <1>14, <2>1, <2>2
<1> QED
  BY <1>2, <1>3, <1>7, <1>13, <1>14, PostShape

LEMMA RoundPostKeeps == ASSUME IInv, NEW p \in Sides, RoundPost(p) PROVE IInv'
BY RecvKeeps, SendKeeps DEF RoundPost

(* Setting the sentinel. *)
LEMMA SetKeeps == ASSUME IInv, NEW p \in Sides, SetSentinel(p) PROVE IInv'
<1>1. test' = test /\ loop[p].pc = "round" /\ At(p, "set")
  BY DEF SetSentinel, At
<1>2. /\ Queues(p) /\ PingPong(p) /\ Typed
      /\ loop[p] \in Loop /\ nic[p] \in Nics /\ nic[Peer(p)] \in Nics
      /\ nic \in [Sides -> Nics]
      /\ ~Bandwidth /\ ~Passive(p)
      /\ loop[p].at \in 1 .. 4 /\ loop[p].at <= Len(Steps(p)) /\ Len(Steps(p)) \in 1 .. 4
      /\ TwoSided' = TwoSided /\ Passive(p)' = Passive(p)
  BY <1>1, InRound
<1>3. /\ ~TwoSided /\ test.tool = "write_lat"
      /\ \/ p = "C" /\ loop[p].at = 1 /\ Rhythm(p, 2, 3, 4)
         \/ p = "S" /\ loop[p].at = 2 /\ Rhythm(p, 3, 4, 4)
  BY <1>1, <1>2, StepAt
<1>4. PICK at \in 1 .. 2 :
        /\ loop[p].at = at /\ Rhythm(p, at + 1, at + 2, 4)
        /\ p = "C" => at = 1
        /\ p = "S" => at = 2
  <2>1. CASE p = "C" /\ loop[p].at = 1 /\ Rhythm(p, 2, 3, 4)
    BY <2>1
  <2>2. CASE p = "S" /\ loop[p].at = 2 /\ Rhythm(p, 3, 4, 4)
    BY <2>2
  <2> QED
    BY <1>3, <2>1, <2>2
<1>5. PICK y : y = Onward(p)
  OBVIOUS
<1>6. /\ y \in Loop /\ y.pc = "round" /\ y.batch = loop[p].batch
      /\ y.extra = loop[p].extra /\ y.at = at + 1 /\ y.done = loop[p].done
  <2>1. loop[p].at < Len(Steps(p))
    BY <1>4 DEF Rhythm
  <2> QED
    BY <1>1, <1>2, <1>4, <1>5, <2>1, OnwardShape
<1>7. /\ loop' \in [Sides -> Loop] /\ loop'[p] = y /\ loop'[Peer(p)] = loop[Peer(p)]
  BY <1>2, <1>5, <1>6, GoShape DEF SetSentinel
<1>8. PICK m : m = IF p = "C" THEN Sentinel(loop[p].done) ELSE Echo(loop[p].done)
  OBVIOUS
<1>9. /\ m \in Nat /\ loop[p].done \in Nat /\ loop[p].extra \in Nat
      /\ nic[p].reaped \in Nat /\ nic[p].sent \in Nat
  BY <1>2, <1>8, LoopFields, NicFields, Parity
<1>10. PICK x \in Nics, z \in {nic'[p]} : x = nic[p]
  BY <1>2
<1>11. /\ nic' = [nic EXCEPT ![p] = z] /\ nic'[Peer(p)] = nic[Peer(p)]
       /\ z = [x EXCEPT !.mem = m]
  BY <1>2, <1>8, <1>10, ThePeers DEF SetSentinel
<1>12. /\ z \in Nics /\ z.sent = x.sent /\ z.landed = x.landed /\ z.lost = x.lost
       /\ z.acked = x.acked /\ z.reaped = x.reaped /\ z.recvs = x.recvs
       /\ z.cq = x.cq /\ z.up = x.up /\ z.mem = m
  BY <1>9, <1>11 DEF Nics
<1>13. /\ nic'[p].sent = nic[p].sent /\ nic'[p].landed = nic[p].landed
       /\ nic'[p].lost = nic[p].lost /\ nic'[p].acked = nic[p].acked
       /\ nic'[p].reaped = nic[p].reaped /\ nic'[p].recvs = nic[p].recvs
       /\ nic'[p].cq = nic[p].cq /\ nic'[p].up = nic[p].up /\ nic'[p].mem = m
       /\ nic'[Peer(p)] = nic[Peer(p)] /\ nic' \in [Sides -> Nics]
  BY <1>2, <1>10, <1>11, <1>12
<1>14. Alone(p)
  BY <1>1, <1>7, <1>13 DEF Alone
<1>15. Queues(p)'
  BY <1>1, <1>2, <1>6, <1>7, <1>13 DEF Queues
<1>16. PingPong(p)'
  <2>1. Pace(p, at + 1, at + 2, 4, "round", at, loop[p].done, loop[p].extra,
             nic[p].sent, nic[p].reaped, Given(p), Heard(p))
    BY <1>1, <1>2, <1>4, PaceNow
  <2>2. Pace(p, at + 1, at + 2, 4, "round", at + 1, loop[p].done, loop[p].extra,
             nic[p].sent, nic[p].reaped, Given(p)', Heard(p)')
    <3>1. at \in 1 .. 2 /\ ~TwoSided
      BY <1>3
    <3> QED
      BY <1>9, <2>1, <3>1 DEF Pace
  <2>3. loop[p].batch = <<>>
    BY <1>2 DEF PingPong
  <2>4. /\ loop'[p].batch = <<>> /\ loop'[p].pc = "round" /\ loop'[p].at = at + 1
        /\ loop'[p].done = loop[p].done /\ loop'[p].extra = loop[p].extra
        /\ loop'[p] \in Loop /\ nic'[p] \in Nics
        /\ nic'[p].sent = nic[p].sent /\ nic'[p].reaped = nic[p].reaped
    BY <1>6, <1>7, <1>13, <2>3
  <2> QED
    BY <1>1, <1>4, <2>2, <2>4, PaceNext
<1>17. Turn'
  <2>1. loop'[p].at = loop[p].at + 1 /\ loop'[p].done = loop[p].done
    BY <1>4, <1>6, <1>7
  <2>2. /\ p = "C" => /\ loop[p].at = 1 /\ nic'[p].mem = Sentinel(loop[p].done)
        /\ p = "S" => /\ loop[p].at = 2 /\ nic'[p].mem = Echo(loop[p].done)
    BY <1>4, <1>8, <1>13
  <2> QED
    BY <1>3, <1>13, <1>14, <2>1, <2>2, TurnSet
<1> QED
  BY <1>1, <1>14, <1>15, <1>16, <1>17, RoundKeeps

(* Awaiting the peer's: the client's round is over, the server's begins. *)
LEMMA AwaitKeeps == ASSUME IInv, NEW p \in Sides, Await(p) PROVE IInv'
<1>1. test' = test /\ nic' = nic /\ loop[p].pc = "round" /\ At(p, "await")
  BY DEF Await, At
<1>2. /\ Queues(p) /\ PingPong(p) /\ Typed
      /\ loop[p] \in Loop /\ nic[p] \in Nics /\ nic[Peer(p)] \in Nics
      /\ nic \in [Sides -> Nics]
      /\ ~Bandwidth /\ ~Passive(p)
      /\ loop[p].at \in 1 .. 4 /\ loop[p].at <= Len(Steps(p)) /\ Len(Steps(p)) \in 1 .. 4
      /\ TwoSided' = TwoSided /\ Passive(p)' = Passive(p)
  BY <1>1, InRound
<1>3. /\ ~TwoSided /\ test.tool = "write_lat"
      /\ \/ p = "C" /\ loop[p].at = 4 /\ Rhythm(p, 2, 3, 4)
         \/ p = "S" /\ loop[p].at = 1 /\ Rhythm(p, 3, 4, 4)
  BY <1>1, <1>2, StepAt
<1>4. PICK y : y = Onward(p)
  OBVIOUS
<1>5. Len(Steps(p)) = 4
  BY <1>3 DEF Rhythm
<1>6. /\ y \in Loop /\ y.pc = "round" /\ y.batch = loop[p].batch
      /\ y.extra = loop[p].extra
  BY <1>1, <1>2, <1>4, OnwardShape
<1>7. /\ p = "C" => y.at = 1 /\ y.done = loop[p].done + 1
      /\ p = "S" => y.at = 2 /\ y.done = loop[p].done
  <2>1. loop[p].at < Len(Steps(p)) => y.at = loop[p].at + 1 /\ y.done = loop[p].done
    BY <1>2, <1>4, OnwardShape
  <2>2. loop[p].at >= Len(Steps(p)) => y.at = 1 /\ y.done = loop[p].done + 1
    BY <1>2, <1>4, OnwardShape
  <2> QED
    BY <1>3, <1>5, <2>1, <2>2
<1>8. /\ loop' \in [Sides -> Loop] /\ loop'[p] = y /\ loop'[Peer(p)] = loop[Peer(p)]
  BY <1>2, <1>4, <1>6, GoShape DEF Await
<1>9. Alone(p)
  BY <1>1, <1>2, <1>8 DEF Alone
<1>10. Queues(p)'
  BY <1>1, <1>2, <1>6, <1>8 DEF Queues
<1>11. PingPong(p)'
  <2>1. /\ nic[p].reaped \in Nat /\ nic[p].sent \in Nat /\ loop[p].done \in Nat
        /\ loop[p].extra \in Nat /\ nic[p].acked \in Nat
    BY <1>2, NicFields, LoopFields
  <2>2. loop[p].batch = <<>>
    BY <1>2 DEF PingPong
  <2>3. /\ loop'[p].batch = <<>> /\ loop'[p].pc = "round" /\ loop'[p].extra = loop[p].extra
        /\ loop'[p] \in Loop /\ nic'[p] \in Nics
        /\ nic'[p].sent = nic[p].sent /\ nic'[p].reaped = nic[p].reaped
    BY <1>1, <1>2, <1>6, <1>8, <2>2
  <2>4. CASE p = "C" /\ loop[p].at = 4 /\ Rhythm(p, 2, 3, 4)
    <3>1. Pace(p, 2, 3, 4, "round", 4, loop[p].done, loop[p].extra,
               nic[p].sent, nic[p].reaped, Given(p), Heard(p))
      BY <1>1, <1>2, <2>4, PaceNow
    <3>2. /\ nic[p].sent = loop[p].done + 1
          /\ nic[p].reaped = loop[p].done + 1 + loop[p].extra
      BY <1>3, <3>1 DEF Pace
    <3>3. nic[p].reaped <= nic[p].acked /\ nic[p].acked <= nic[p].sent
      BY <1>2, InOrder
    <3>4. loop[p].extra = 0 /\ nic[p].reaped = loop[p].done + 1
      BY <2>1, <3>2, <3>3
    <3>5. Pace(p, 2, 3, 4, "round", 1, loop[p].done + 1, loop[p].extra,
               nic[p].sent, nic[p].reaped, Given(p)', Heard(p)')
      BY <1>3, <2>1, <3>2, <3>4 DEF Pace
    <3>6. loop'[p].at = 1 /\ loop'[p].done = loop[p].done + 1
      BY <1>7, <1>8, <2>4
    <3> QED
      BY <1>1, <2>3, <2>4, <3>5, <3>6, PaceNext
  <2>5. CASE p = "S" /\ loop[p].at = 1 /\ Rhythm(p, 3, 4, 4)
    <3>1. Pace(p, 3, 4, 4, "round", 1, loop[p].done, loop[p].extra,
               nic[p].sent, nic[p].reaped, Given(p), Heard(p))
      BY <1>1, <1>2, <2>5, PaceNow
    <3>2. Pace(p, 3, 4, 4, "round", 2, loop[p].done, loop[p].extra,
               nic[p].sent, nic[p].reaped, Given(p)', Heard(p)')
      BY <1>3, <2>1, <3>1 DEF Pace
    <3>3. loop'[p].at = 2 /\ loop'[p].done = loop[p].done
      BY <1>7, <1>8, <2>5
    <3> QED
      BY <1>1, <2>3, <2>5, <3>2, <3>3, PaceNext
  <2> QED
    BY <1>3, <2>4, <2>5
<1>12. Turn'
  <2>1. nic[p].mem = IF p = "S" THEN Sentinel(loop[p].done) ELSE Echo(loop[p].done)
    BY DEF Await
  <2>2. /\ p = "C" => /\ loop[p].at = 4 /\ nic[p].mem = Echo(loop[p].done)
                      /\ loop'[p].at = 1 /\ loop'[p].done = loop[p].done + 1
        /\ p = "S" => /\ loop[p].at = 1 /\ nic[p].mem = Sentinel(loop[p].done)
                      /\ loop'[p].at = 2 /\ loop'[p].done = loop[p].done
    BY <1>3, <1>7, <1>8, <2>1
  <2> QED
    BY <1>1, <1>3, <1>9, <2>2, TurnAwait
<1> QED
  BY <1>1, <1>9, <1>10, <1>11, <1>12, RoundKeeps

(* pollOne: a later poll of the round is left what the first did not take, *)
(* and the round is over when nothing of it is left.                       *)
LEMMA PollOneKeeps == ASSUME IInv, NEW p \in Sides, PollOne(p) PROVE IInv'
<1> DEFINE q == Peer(p)
<1>1. test' = test /\ loop[p].pc = "round" /\ At(p, "poll")
  BY DEF PollOne, At
<1>2. /\ Queues(p) /\ PingPong(p) /\ Typed /\ Turn
      /\ loop[p] \in Loop /\ nic[p] \in Nics /\ nic[q] \in Nics /\ q \in Sides
      /\ nic \in [Sides -> Nics]
      /\ ~Bandwidth /\ ~Passive(p)
      /\ loop[p].at \in 1 .. 4 /\ loop[p].at <= Len(Steps(p)) /\ Len(Steps(p)) \in 1 .. 4
      /\ TwoSided' = TwoSided /\ Passive(p)' = Passive(p)
  BY <1>1, InRound
<1>3. PICK size \in {2, 4} : size = IF test.tool = "send_lat" THEN 4 ELSE 2
  OBVIOUS
<1>4. PICK taken : taken = Polled(p, size)
  OBVIOUS
<1>5. /\ taken # <<>> /\ nic' = Unpolled(p, taken)
      /\ Go(p, IF Of("error", taken) > 0 THEN [loop[p] EXCEPT !.pc = "error"]
               ELSE [Onward(p) EXCEPT !.extra = @ + Len(taken) - 1])
  BY <1>3, <1>4 DEF PollOne
<1>6. nic[p].cq # <<>> /\ nic[p].cq \in Seq(Kinds)
  <2>1. nic[p].cq \in Seq(Kinds)
    BY <1>2, NicFields
  <2>2. nic[p].cq = <<>> => Polled(p, size) = <<>>
    BY <1>3 DEF Polled
  <2> QED
    BY <1>4, <1>5, <2>1, <2>2
<1>7. /\ nic' \in [Sides -> Nics] /\ nic'[q] = nic[q]
      /\ taken \in Seq(Kinds) /\ Len(taken) \in Nat \ {0}
      /\ \A k : Of(k, nic[p].cq) = Of(k, taken) + Of(k, nic'[p].cq)
      /\ nic'[p].reaped = nic[p].reaped + Of("send", taken)
      /\ nic'[p].sent = nic[p].sent /\ nic'[p].recvs = nic[p].recvs
      /\ nic'[p].landed = nic[p].landed /\ nic'[p].lost = nic[p].lost
      /\ nic'[p].acked = nic[p].acked /\ nic'[p].up = nic[p].up
      /\ nic'[p].mem = nic[p].mem
  <2>1. size \in Nat \ {0}
    BY <1>3
  <2> QED
    BY <1>2, <1>4, <1>5, <1>6, <2>1, PolledShape
<1> HIDE DEF q
<1>8. PICK ts, tr, te : /\ ts = Of("send", taken) /\ tr = Of("recv", taken)
                        /\ te = Of("error", taken)
  OBVIOUS
<1>9. /\ ts \in Nat /\ tr \in Nat /\ te \in Nat /\ Len(taken) = ts + tr + te
  <2>1. /\ Of("send", taken) \in Nat /\ Of("recv", taken) \in Nat
        /\ Of("error", taken) \in Nat
    BY <1>7, OfPositions
  <2>2. Len(taken) = Of("send", taken) + Of("recv", taken) + Of("error", taken)
    BY <1>7, OfKinds
  <2> QED
    BY <1>8, <2>1, <2>2
<1>10. /\ nic'[p] \in Nics /\ nic'[p].cq \in Seq(Kinds)
       /\ nic[p].sent \in Nat /\ nic[p].reaped \in Nat /\ nic[p].recvs \in Nat
       /\ nic[p].acked \in Nat /\ nic[p].landed \in Nat /\ nic[p].lost \in Nat
       /\ nic[q].landed \in Nat
       /\ loop[p].done \in Nat /\ loop[p].extra \in Nat /\ loop[p].batch = <<>>
  <2>1. nic'[p] \in Nics
    BY <1>7
  <2>2. loop[p].batch = <<>>
    BY <1>2 DEF PingPong
  <2> QED
    BY <1>2, <2>1, <2>2, NicFields, LoopFields
<1>23. /\ nic[p].sent \in Nat /\ nic[p].reaped \in Nat
       /\ nic[q].landed \in Nat
       /\ ts \in Nat /\ tr \in Nat /\ te \in Nat
  BY <1>9, <1>10
<1>22. /\ Of("send", nic'[p].cq) \in Nat /\ Of("recv", nic'[p].cq) \in Nat
       /\ Of("error", nic'[p].cq) \in Nat
       /\ Of("send", nic[p].cq) \in Nat /\ Of("recv", nic[p].cq) \in Nat
       /\ Of("error", nic[p].cq) \in Nat
  BY <1>2, <1>10, NicFields
<1>11. /\ nic'[p].reaped = nic[p].reaped + ts
       /\ nic'[p].reaped + Of("send", nic'[p].cq) = nic[p].reaped + Of("send", nic[p].cq)
  <2>1. Of("send", nic[p].cq) = ts + Of("send", nic'[p].cq)
    BY <1>7, <1>8
  <2>2. Of("send", nic'[p].cq) \in Nat
    BY <1>22
  <2>3. nic'[p].reaped = nic[p].reaped + ts
    BY <1>7, <1>8
  <2> QED
    BY <1>23, <2>1, <2>2, <2>3
<1>12. nic[p].reaped + ts <= nic[p].sent
  <2>1. nic[p].reaped + Of("send", nic[p].cq) <= nic[p].sent
    BY <1>2, InOrder
  <2>2. Of("send", nic'[p].cq) \in Nat
    BY <1>22
  <2> QED
    BY <1>11, <1>23, <2>1, <2>2
<1>13. /\ Of("recv", nic[p].cq) = tr + Of("recv", nic'[p].cq)
       /\ Of("recv", nic'[p].cq) <= Of("recv", nic[p].cq)
       /\ Of("error", nic[p].cq) = te + Of("error", nic'[p].cq)
  <2>1. /\ Of("recv", nic[p].cq) = tr + Of("recv", nic'[p].cq)
        /\ Of("error", nic[p].cq) = te + Of("error", nic'[p].cq)
    BY <1>7, <1>8
  <2>2. Of("recv", nic'[p].cq) \in Nat
    BY <1>22
  <2> QED
    BY <1>9, <2>1, <2>2
<1>14. Given(p)' = Given(p) /\ Given(p) \in Nat
  BY <1>7, <1>10 DEF Given, q
<1>15. /\ Heard(p)' = Heard(p) + tr /\ Heard(p) \in Int /\ Heard(p)' <= Given(p)
  <2>1. /\ Heard(p) = nic[q].landed - Of("recv", nic[p].cq)
        /\ Heard(p)' = nic[q].landed - Of("recv", nic'[p].cq)
        /\ Given(p) = nic[p].recvs + nic[q].landed
    BY <1>7 DEF Heard, Given, q
  <2>2. Of("recv", nic'[p].cq) \in Nat
    BY <1>22
  <2>3. Of("recv", nic[p].cq) = tr + Of("recv", nic'[p].cq)
    BY <1>13
  <2>4. nic[p].recvs \in Nat
    BY <1>10
  <2> QED
    BY <1>23, <2>1, <2>2, <2>3, <2>4
<1>16. ~TwoSided => tr = 0
  <2>1. ~TwoSided => Of("recv", nic[p].cq) <= 0
    BY <1>2 DEF Queues
  <2>2. Of("recv", nic'[p].cq) \in Nat
    BY <1>22
  <2> QED
    BY <1>9, <1>13, <2>1, <2>2
<1>17. te > 0 => ~nic[q].up
  <2>1. Of("error", nic[p].cq) + Of("error", loop[p].batch) > 0 => ~nic[q].up
    BY <1>2 DEF Queues, q
  <2>2. Of("error", <<>>) = 0 /\ Of("error", nic'[p].cq) \in Nat
    BY <1>22, OfEmpty
  <2> QED
    BY <1>9, <1>10, <1>13, <2>1, <2>2
<1>18. /\ Of("error", nic'[p].cq) + Of("error", <<>>) > 0 => ~nic[q].up
  <2>1. Of("error", nic[p].cq) + Of("error", loop[p].batch) > 0 => ~nic[q].up
    BY <1>2 DEF Queues, q
  <2>2. Of("error", <<>>) = 0 /\ Of("error", nic'[p].cq) \in Nat
    BY <1>22, OfEmpty
  <2> QED
    BY <1>9, <1>10, <1>13, <2>1, <2>2
<1>19. ASSUME loop'[p].batch = <<>>, loop'[p].pc = "error" => te > 0
       PROVE  Queues(p)'
  <2>1. /\ nic'[p].acked = nic'[p].reaped + Of("send", nic'[p].cq)
        /\ nic'[p].acked <= nic'[p].sent /\ (~test.ud => nic'[p].acked <= nic'[p].landed)
        /\ nic'[p].landed + nic'[p].lost <= nic'[p].sent
        /\ ~test.ud => nic'[p].lost = 0
    BY <1>2, <1>7, <1>11 DEF Queues
  <2>2. Of("recv", nic'[p].cq) <= IF TwoSided THEN nic[q].landed ELSE 0
    <3>1. Of("recv", nic[p].cq) <= IF TwoSided THEN nic[q].landed ELSE 0
      BY <1>2 DEF Queues, q
    <3>2. Of("recv", nic'[p].cq) \in Nat /\ Of("recv", nic[p].cq) \in Nat
      BY <1>22
    <3>3. Of("recv", nic'[p].cq) <= Of("recv", nic[p].cq) /\ nic[q].landed \in Nat
      BY <1>10, <1>13
    <3>4. CASE TwoSided
      BY <3>1, <3>2, <3>3, <3>4
    <3>5. CASE ~TwoSided
      BY <3>1, <3>2, <3>3, <3>5
    <3> QED
      BY <3>4, <3>5
  <2>3. Peer(p)' = Peer(p) /\ nic'[Peer(p)] = nic[q] /\ nic[Peer(p)] = nic[q]
    BY <1>7 DEF q
  <2> QED
    BY <1>1, <1>2, <1>17, <1>18, <1>19, <2>1, <2>2, <2>3 DEF Queues
<1>20. CASE te > 0
  <2>1. Go(p, [loop[p] EXCEPT !.pc = "error"])
    BY <1>5, <1>8, <1>20
  <2>2. PICK c \in Places : c = "error"
    BY DEF Places
  <2>3. PICK y : y = [loop[p] EXCEPT !.pc = c]
    OBVIOUS
  <2>4. /\ y \in Loop /\ y.pc = "error" /\ y.at = loop[p].at /\ y.done = loop[p].done
        /\ y.batch = loop[p].batch /\ y.extra = loop[p].extra
    BY <1>2, <2>2, <2>3, LoopMoves
  <2>5. /\ loop' \in [Sides -> Loop] /\ loop'[p] = y /\ loop'[Peer(p)] = loop[Peer(p)]
    BY <1>2, <2>1, <2>2, <2>3, <2>4, GoShape
  <2>6. Alone(p)
    BY <1>1, <1>7, <2>5 DEF Alone, q
  <2>7. Queues(p)'
    BY <1>10, <1>19, <1>20, <2>4, <2>5
  <2>8. PICK send, poll, last : Rhythm(p, send, poll, last)
    BY DEF Rhythm
  <2>9. Pace(p, send, poll, last, "round", loop[p].at, loop[p].done, loop[p].extra,
             nic[p].sent, nic[p].reaped, Given(p), Heard(p))
    BY <1>1, <1>2, <2>8, PaceNow
  <2>10. Pace(p, send, poll, last, "error", loop[p].at, loop[p].done, loop[p].extra,
              nic[p].sent, nic[p].reaped + ts, Given(p), Heard(p) + tr)
    <3>1. /\ loop[p].at <= last
          /\ nic[p].sent = loop[p].done + (IF loop[p].at > send THEN 1 ELSE 0)
          /\ loop[p].done <= nic[p].reaped
          /\ TwoSided => /\ Given(p) = loop[p].done + (IF loop[p].at > 1 THEN 1 ELSE 0)
                         /\ loop[p].done <= Heard(p)
                         /\ p = "S" => nic[p].sent <= Heard(p)
      BY <2>9 DEF Pace
    <3>2. /\ loop[p].done <= nic[p].reaped + ts
          /\ TwoSided => /\ loop[p].done <= Heard(p) + tr
                         /\ p = "S" => nic[p].sent <= Heard(p) + tr
      <4>1. /\ loop[p].done \in Nat /\ nic[p].reaped \in Nat /\ nic[p].sent \in Nat
            /\ ts \in Nat /\ tr \in Nat /\ Heard(p) \in Int
        BY <1>9, <1>10, <1>15
      <4>2. \A m, k \in Int : m <= k => m <= k + tr /\ m <= k + ts
        BY <4>1
      <4> QED
        BY <3>1, <4>1, <4>2
    <3> QED
      BY <3>1, <3>2 DEF Pace
  <2>11. PingPong(p)'
    <3>1. /\ loop'[p] \in Loop /\ loop'[p].batch = <<>> /\ loop'[p].pc = "error"
          /\ loop'[p].at = loop[p].at /\ loop'[p].done = loop[p].done
          /\ loop'[p].extra = loop[p].extra
      BY <1>10, <2>4, <2>5
    <3>2. /\ nic'[p].sent = nic[p].sent /\ nic'[p].reaped = nic[p].reaped + ts
          /\ Given(p)' = Given(p) /\ Heard(p)' = Heard(p) + tr
      BY <1>7, <1>11, <1>14, <1>15
    <3> QED
      BY <1>1, <1>10, <2>8, <2>10, <3>1, <3>2, PaceNext
  <2>12. Turn'
    <3>1. /\ loop'[p].at = loop[p].at /\ loop'[p].done = loop[p].done
          /\ loop'[q] = loop[q] /\ nic'[q] = nic[q]
      BY <1>7, <2>4, <2>5 DEF q
    <3>2. \A r \in Sides : r = p \/ r = q
      BY ThePeers DEF q
    <3>3. \A r \in Sides : /\ nic'[r].sent = nic[r].sent
                           /\ nic'[r].landed = nic[r].landed
                           /\ nic'[r].mem = nic[r].mem
                           /\ loop'[r].at = loop[r].at
                           /\ loop'[r].done = loop[r].done
      BY <1>7, <3>1, <3>2
    <3> QED
      BY <1>1, <1>2, <3>3, BytesStay
  <2> QED
    BY <1>1, <2>6, <2>7, <2>11, <2>12, RoundKeeps
<1>21. CASE te = 0
  <2>1. PICK y : y = Onward(p)
    OBVIOUS
  <2>2. /\ y \in Loop /\ y.pc = "round" /\ y.batch = <<>>
        /\ y.extra = loop[p].extra
        /\ loop[p].at < Len(Steps(p)) => y.at = loop[p].at + 1 /\ y.done = loop[p].done
        /\ loop[p].at >= Len(Steps(p)) => y.at = 1 /\ y.done = loop[p].done + 1
    BY <1>1, <1>2, <1>10, <2>1, OnwardShape
  <2>3. PICK e \in Nat : e = loop[p].extra + (ts + tr) - 1
    BY <1>7, <1>9, <1>10, <1>21
  <2>4. PICK u \in Loop : u = y
    BY <2>2
  <2>5. PICK w : w = [u EXCEPT !.extra = e]
    OBVIOUS
  <2>6. /\ w \in Loop /\ w.pc = u.pc /\ w.batch = u.batch /\ w.at = u.at
        /\ w.done = u.done /\ w.extra = e
    BY <2>5 DEF Loop
  <2>7. Go(p, w)
    <3>1. e = y.extra + Len(taken) - 1
      BY <1>9, <1>10, <1>21, <2>2, <2>3
    <3>2. Go(p, [y EXCEPT !.extra = @ + Len(taken) - 1])
      BY <1>5, <1>8, <1>9, <1>21, <2>1
    <3>3. [y EXCEPT !.extra = @ + Len(taken) - 1] = [y EXCEPT !.extra = e]
      BY <3>1
    <3> QED
      BY <2>4, <2>5, <3>2, <3>3
  <2>8. /\ loop' \in [Sides -> Loop] /\ loop'[p] = w /\ loop'[Peer(p)] = loop[Peer(p)]
    BY <1>2, <2>6, <2>7, GoShape
  <2>9. Alone(p)
    BY <1>1, <1>7, <2>8 DEF Alone, q
  <2>10. /\ loop'[p] \in Loop /\ loop'[p].batch = <<>> /\ loop'[p].pc = "round"
         /\ loop'[p].extra = e /\ loop'[p].at = y.at /\ loop'[p].done = y.done
    BY <2>2, <2>4, <2>6, <2>8
  <2>11. Queues(p)'
    BY <1>19, <2>10
  <2>12. PICK send \in 1 .. 3, poll \in 2 .. 4, last \in {2, 4} :
           /\ Rhythm(p, send, poll, last)
           /\ \/ loop[p].at = poll /\ poll < last
              \/ loop[p].at = last
           /\ send # poll /\ send < last /\ poll <= last
           /\ TwoSided => poll < last /\ test.tool = "send_lat"
           /\ test.tool = "write_lat" =>
                IF p = "C" THEN loop[p].at = 3 /\ last = 4
                           ELSE loop[p].at = 4 /\ last = 4
    <3>1. CASE /\ TwoSided /\ test.tool = "send_lat"
               /\ p = "C" /\ loop[p].at \in {3, 4} /\ Rhythm(p, 2, 3, 4)
      BY <3>1
    <3>2. CASE /\ TwoSided /\ test.tool = "send_lat"
               /\ p = "S" /\ loop[p].at \in {2, 4} /\ Rhythm(p, 3, 2, 4)
      BY <3>2
    <3>3. CASE /\ ~TwoSided /\ test.tool = "write_lat"
               /\ p = "C" /\ loop[p].at = 3 /\ Rhythm(p, 2, 3, 4)
      BY <3>3
    <3>4. CASE /\ ~TwoSided /\ test.tool = "write_lat"
               /\ p = "S" /\ loop[p].at = 4 /\ Rhythm(p, 3, 4, 4)
      BY <3>4
    <3>5. CASE /\ ~TwoSided /\ test.tool = "read_lat"
               /\ p = "C" /\ loop[p].at = 2 /\ Rhythm(p, 1, 2, 2)
      BY <3>5
    <3> QED
      BY <1>1, <1>2, <3>1, <3>2, <3>3, <3>4, <3>5, StepAt
  <2>13. Len(Steps(p)) = last
    BY <2>12 DEF Rhythm
  <2>14. /\ nic'[p].sent = nic[p].sent /\ nic'[p].reaped = nic[p].reaped + ts
         /\ Given(p)' = Given(p) /\ Heard(p)' = Heard(p) + tr
    BY <1>7, <1>11, <1>14, <1>15
  <2>15. Pace(p, send, poll, last, "round", loop[p].at, loop[p].done, loop[p].extra,
              nic[p].sent, nic[p].reaped, Given(p), Heard(p))
    BY <1>1, <1>2, <2>12, PaceNow
  <2>20. /\ loop[p].done \in Nat /\ loop[p].extra \in Nat /\ nic[p].sent \in Nat
         /\ nic[p].reaped \in Nat /\ Given(p) \in Nat /\ Heard(p) \in Int
         /\ ts \in Nat /\ tr \in Nat /\ (~TwoSided => tr = 0)
    BY <1>9, <1>10, <1>14, <1>15, <1>16
  <2>22. PICK polled \in Nat, got \in Int : /\ polled = nic[p].reaped + ts
                                           /\ got = Heard(p) + tr
    BY <2>20
  <2>23. /\ e = loop[p].extra + (polled - nic[p].reaped) + (got - Heard(p)) - 1
         /\ nic[p].reaped <= polled /\ Heard(p) <= got /\ (~TwoSided => got = Heard(p))
         /\ nic[p].reaped < polled \/ Heard(p) < got
         /\ polled <= nic[p].sent /\ (TwoSided => got <= Given(p))
    <3>1. ts + tr > 0
      BY <1>7, <1>9, <1>21
    <3>2. Heard(p) + tr <= Given(p)
      BY <1>15
    <3> QED
      <4>1. polled - nic[p].reaped = ts /\ got - Heard(p) = tr
        BY <2>20, <2>22
      <4>2. e = loop[p].extra + ts + tr - 1
        BY <2>3, <2>20
      <4>3. e = loop[p].extra + (polled - nic[p].reaped) + (got - Heard(p)) - 1
        BY <4>1, <4>2
      <4>4. nic[p].reaped <= polled /\ Heard(p) <= got /\ (~TwoSided => got = Heard(p))
        BY <2>20, <2>22
      <4>5. nic[p].reaped < polled \/ Heard(p) < got
        BY <2>20, <2>22, <3>1
      <4>6. polled <= nic[p].sent /\ (TwoSided => got <= Given(p))
        BY <1>12, <2>22, <3>2
      <4> QED
        BY <4>3, <4>4, <4>5, <4>6
  <2>21. ASSUME NEW at \in Int, NEW n \in Nat, y.at = at, y.done = n,
                Pace(p, send, poll, last, "round", at, n, e,
                     nic[p].sent, polled, Given(p), got)
         PROVE  PingPong(p)'
    <3>1. Pace(p, send, poll, last, loop'[p].pc, loop'[p].at, loop'[p].done,
               loop'[p].extra, nic'[p].sent, nic'[p].reaped, Given(p)', Heard(p)')
      BY <2>10, <2>14, <2>21, <2>22
    <3>2. Rhythm(p, send, poll, last) /\ test' = test /\ nic'[p] \in Nics
      BY <1>1, <1>10, <2>12
    <3> QED
      BY <2>10, <3>1, <3>2, PaceNext
  <2>24. PICK done \in Nat, extra \in Nat, sent \in Nat, reaped \in Nat,
              given \in Nat, heard \in Int :
           /\ done = loop[p].done /\ extra = loop[p].extra /\ sent = nic[p].sent
           /\ reaped = nic[p].reaped /\ given = Given(p) /\ heard = Heard(p)
    BY <2>20
  <2>25. /\ e = extra + (polled - reaped) + (got - heard) - 1
         /\ reaped <= polled /\ heard <= got /\ (~TwoSided => got = heard)
    BY <2>23, <2>24
  <2>26. /\ reaped < polled \/ heard < got
         /\ polled <= sent /\ (TwoSided => got <= given)
    BY <2>23, <2>24
  <2>27. /\ done \in Nat /\ extra \in Nat /\ sent \in Nat /\ reaped \in Nat
         /\ given \in Nat /\ heard \in Int /\ e \in Nat /\ polled \in Nat /\ got \in Int
    BY <2>3, <2>22, <2>24
  <2>16. ASSUME loop[p].at = poll, poll < last PROVE PingPong(p)'
    <3>1. Pace(p, send, poll, last, "round", poll, done, extra, sent, reaped, given, heard)
      BY <2>15, <2>24, <2>16
    <3>2. /\ poll < last /\ send # poll
          /\ send \in 1 .. 3 /\ poll \in 2 .. 4 /\ last \in {2, 4}
      BY <2>12, <2>16
    <3>3. PICK next \in Nat : next = poll + 1
      BY <3>2
    <3>4. Pace(p, send, poll, last, "round", next, done, e, sent, polled, given, got)
      <4>1. /\ sent = done + (IF poll > send THEN 1 ELSE 0)
            /\ reaped = done /\ extra = 0
        BY <3>1, <3>2 DEF Pace
      <4>2. CASE TwoSided
        <5>1. given = done + 1 /\ heard = done /\ (p = "S" => sent <= heard)
          BY <3>1, <3>2, <4>2 DEF Pace
        <5> QED
          BY <2>25, <2>27, <3>2, <3>3, <4>1, <4>2, <5>1 DEF Pace
      <4>3. CASE ~TwoSided
        BY <2>25, <2>27, <3>2, <3>3, <4>1, <4>3 DEF Pace
      <4> QED
        BY <4>2, <4>3
    <3>5. y.at = next /\ y.done = done /\ next \in Int
      BY <2>2, <2>13, <2>16, <2>24, <3>2, <3>3
    <3> QED
      BY <2>21, <2>24, <3>4, <3>5
  <2>17. ASSUME loop[p].at = last PROVE PingPong(p)'
    <3>1. Pace(p, send, poll, last, "round", last, done, extra, sent, reaped, given, heard)
      BY <2>15, <2>24, <2>17
    <3>2. /\ poll <= last /\ send < last /\ (TwoSided => poll < last)
          /\ send \in 1 .. 3 /\ poll \in 2 .. 4 /\ last \in {2, 4}
      BY <2>12
    <3>3. PICK next \in Nat : next = done + 1
      BY <2>24
    <3>4. Pace(p, send, poll, last, "round", 1, next, e, sent, polled, given, got)
      <4>1. sent = done + 1
        BY <2>27, <3>1, <3>2 DEF Pace
      <4>2. CASE TwoSided
        <5>1. /\ given = done + 1 /\ reaped + heard = 2 * done + 1 + extra
              /\ p = "S" => sent <= heard
          BY <2>27, <3>1, <3>2, <4>2 DEF Pace
        <5>2. polled = done + 1 /\ got = done + 1 /\ e = 0
          BY <2>25, <2>26, <2>27, <4>1, <4>2, <5>1
        <5> QED
          BY <2>27, <3>2, <3>3, <4>1, <4>2, <5>1, <5>2 DEF Pace
      <4>3. CASE ~TwoSided
        <5>1. got = heard /\ reaped < polled
          BY <2>25, <2>26, <2>27, <4>3
        <5>2. \/ reaped = done /\ extra = 0
              \/ reaped = done + 1 + extra
          BY <3>1, <3>2, <4>3 DEF Pace
        <5>3. polled = done + 1 /\ e = 0
          BY <2>25, <2>26, <2>27, <4>1, <5>1, <5>2
        <5> QED
          BY <2>27, <3>2, <3>3, <4>1, <4>3, <5>3 DEF Pace
      <4> QED
        BY <4>2, <4>3
    <3>5. y.at = 1 /\ y.done = next
      <4>1. loop[p].at >= Len(Steps(p))
        BY <2>13, <2>17, <3>2
      <4> QED
        BY <2>2, <2>24, <3>3, <4>1
    <3> QED
      BY <2>21, <2>24, <3>4, <3>5
  <2>18. PingPong(p)'
    <3>1. (loop[p].at = poll /\ poll < last) \/ loop[p].at = last
      BY <2>12
    <3> QED
      BY <2>16, <2>17, <3>1
  <2>19. Turn'
    <3>1. CASE test.tool # "write_lat"
      BY <1>1, <3>1, NoSentinel
    <3>2. CASE test.tool = "write_lat"
      <4>1. /\ p = "C" => /\ loop[p].at = 3 /\ loop'[p].at = 4
                          /\ loop'[p].done = loop[p].done
            /\ p = "S" => /\ loop[p].at = 4 /\ loop'[p].at = 1
                          /\ loop'[p].done = loop[p].done + 1
        <5>1. CASE p = "C"
          <6>1. loop[p].at = 3 /\ last = 4
            BY <2>12, <3>2, <5>1
          <6> QED
            BY <2>2, <2>10, <2>13, <5>1, <6>1
        <5>2. CASE p = "S"
          <6>1. loop[p].at = 4 /\ last = 4
            BY <2>12, <3>2, <5>2
          <6> QED
            BY <2>2, <2>10, <2>13, <5>2, <6>1
        <5> QED
          BY <5>1, <5>2, ThePeers
      <4> QED
        BY <1>7, <2>9, <4>1, TurnPoll
    <3> QED
      BY <3>1, <3>2
  <2> QED
    BY <1>1, <2>9, <2>11, <2>18, <2>19, RoundKeeps
<1> QED
  BY <1>9, <1>20, <1>21

-----------------------------------------------------------------------------
(* The NICs: the programs stay where they are. *)
LEMMA NicKeeps ==
  ASSUME IInv, loop' = loop, test' = test, nic' \in [Sides -> Nics], Turn',
         \A r \in Sides : /\ Queues(r)'
                          /\ nic'[r].sent = nic[r].sent
                          /\ nic'[r].reaped = nic[r].reaped
                          /\ TwoSided => Given(r)' = Given(r) /\ Heard(r)' = Heard(r)
  PROVE  IInv'
<1>1. Typed /\ Typed'
  BY DEF IInv, Typed
<1>2. ASSUME NEW r \in Sides PROVE Own(r)'
  <2>1. /\ Bandwidth' = Bandwidth /\ TwoSided' = TwoSided /\ Passive(r)' = Passive(r)
        /\ Steps(r)' = Steps(r) /\ SendStep(r)' = SendStep(r)
        /\ FirstPoll(r)' = FirstPoll(r)
    BY SameTest
  <2>2. /\ Queues(r)' /\ nic'[r].sent = nic[r].sent /\ nic'[r].reaped = nic[r].reaped
        /\ TwoSided => Given(r)' = Given(r) /\ Heard(r)' = Heard(r)
    OBVIOUS
  <2>3. Bandwidth /\ Streaming(r) => Streaming(r)'
    <3>1. CASE r = "C"
      <4>1. Outstanding(r)' = Outstanding(r) /\ Taken(r)' = Taken(r)
        BY <2>2, <3>1 DEF Outstanding, Taken
      <4> QED
        BY <2>1, <2>2, <4>1 DEF Streaming, Reaps
    <3>2. CASE r = "S" /\ Passive(r)
      <4>1. loop[r].pc = "done"
        BY <3>2 DEF IInv, Own, Queues
      <4> QED
        BY <2>1, <2>2, <3>2, <4>1 DEF Streaming, Reaps
    <3>3. CASE r = "S" /\ ~Passive(r)
      <4>1. Bandwidth => TwoSided
        BY <1>1, <3>3, ServerStreams
      <4>2. Outstanding(r) = Given(r) /\ Outstanding(r)' = Given(r)'
        BY <3>3 DEF Outstanding, Given, Peer
      <4>3. Taken(r) = Heard(r) /\ Taken(r)' = Heard(r)'
        BY <3>3 DEF Taken
      <4> QED
        BY <2>1, <2>2, <4>1, <4>2, <4>3 DEF Streaming, Reaps
    <3> QED
      BY <3>1, <3>2, <3>3, ThePeers
  <2>4. PingPong(r) => PingPong(r)'
    BY <2>1, <2>2 DEF PingPong, Past
  <2>5. Own(r)
    BY DEF IInv
  <2> QED
    BY <2>1, <2>2, <2>3, <2>4, <2>5 DEF Own
<1> QED
  BY <1>1, <1>2 DEF IInv

(* A step of one NIC that posts, lands and polls nothing. *)
LEMMA OneNicKeeps ==
  ASSUME IInv, loop' = loop, test' = test, NEW p \in Sides, NEW z \in Nics,
         nic' = [nic EXCEPT ![p] = z],
         z.sent = nic[p].sent, z.landed = nic[p].landed, z.reaped = nic[p].reaped,
         z.recvs = nic[p].recvs, z.up = nic[p].up, z.mem = nic[p].mem,
         Of("recv", z.cq) = Of("recv", nic[p].cq), Queues(p)'
  PROVE  IInv'
<1> DEFINE q == Peer(p)
<1>1. Typed /\ nic \in [Sides -> Nics] /\ Own(p) /\ Own(q) /\ Turn
  BY ThePeers DEF IInv, Typed
<1>2. q \in Sides /\ q # p /\ Peer(q) = p /\ Peer(p) = q
      /\ \A r \in Sides : r = p \/ r = q
  BY ThePeers
<1> HIDE DEF q
<1>3. /\ nic'[p] = z /\ nic'[q] = nic[q] /\ nic' \in [Sides -> Nics]
  BY <1>1, <1>2
<1>4. /\ Given(p)' = Given(p) /\ Heard(p)' = Heard(p)
      /\ Given(q)' = Given(q) /\ Heard(q)' = Heard(q)
  BY <1>2, <1>3 DEF Given, Heard
<1>5. Queues(q)'
  <2>1. TwoSided' = TwoSided /\ Passive(q)' = Passive(q)
    BY SameTest
  <2>2. Queues(q)
    BY <1>1 DEF Own
  <2> QED
    BY <1>2, <1>3, <2>1, <2>2 DEF Queues
<1>6. \A r \in Sides : /\ nic'[r].sent = nic[r].sent /\ nic'[r].reaped = nic[r].reaped
                       /\ nic'[r].landed = nic[r].landed /\ nic'[r].mem = nic[r].mem
                       /\ Queues(r)' /\ Given(r)' = Given(r) /\ Heard(r)' = Heard(r)
  BY <1>2, <1>3, <1>4, <1>5
<1>7. Turn'
  BY <1>1, <1>6, BytesStay
<1> QED
  BY <1>3, <1>6, <1>7, NicKeeps

(* A datagram is lost. *)
LEMMA DropKeeps == ASSUME IInv, NEW p \in Sides, Drop(p) PROVE IInv'
<1>1. /\ Typed /\ Queues(p) /\ nic \in [Sides -> Nics] /\ test' = test /\ loop' = loop
      /\ test.ud /\ nic[p].landed + nic[p].lost < nic[p].sent
      /\ nic' = [nic EXCEPT ![p].lost = @ + 1]
  BY DEF IInv, Own, Typed, Drop, Flying
<1>2. PICK x \in Nics : x = nic[p]
  BY <1>1
<1>3. /\ x.lost \in Nat /\ x.landed \in Nat /\ x.sent \in Nat /\ x.acked \in Nat
  BY NicFields
<1>4. PICK lost \in Nat : lost = x.lost + 1
  BY <1>3
<1>5. PICK z : z = [x EXCEPT !.lost = lost]
  OBVIOUS
<1>6. /\ z \in Nics /\ z.sent = x.sent /\ z.landed = x.landed /\ z.lost = lost
      /\ z.acked = x.acked /\ z.reaped = x.reaped /\ z.recvs = x.recvs
      /\ z.cq = x.cq /\ z.up = x.up /\ z.mem = x.mem
  BY <1>5 DEF Nics
<1>7. nic' = [nic EXCEPT ![p] = z] /\ nic'[p] = z /\ nic'[Peer(p)] = nic[Peer(p)]
  BY <1>1, <1>2, <1>4, <1>5, ThePeers
<1>8. Queues(p)'
  <2>1. TwoSided' = TwoSided /\ Passive(p)' = Passive(p)
    BY <1>1, SameTest
  <2>2. z.acked <= z.sent /\ (~test.ud => z.acked <= z.landed) /\ z.landed + z.lost <= z.sent
    <3>1. x.acked <= x.sent /\ (~test.ud => x.acked <= x.landed) /\ x.landed + x.lost < x.sent
      BY <1>1, <1>2 DEF Queues
    <3> QED
      BY <1>3, <1>4, <1>6, <3>1
  <2> QED
    BY <1>1, <1>2, <1>6, <1>7, <2>1, <2>2 DEF Queues
<1> QED
  BY <1>1, <1>2, <1>6, <1>7, <1>8, OneNicKeeps

(* An operation is acknowledged. *)
LEMMA CompleteKeeps == ASSUME IInv, NEW p \in Sides, Complete(p) PROVE IInv'
<1>1. /\ Typed /\ Queues(p) /\ nic \in [Sides -> Nics] /\ test' = test /\ loop' = loop
      /\ nic[p].landed + nic[p].lost <= nic[p].sent
      /\ IF test.ud THEN nic[p].acked < nic[p].sent ELSE nic[p].acked < nic[p].landed
      /\ nic' = [nic EXCEPT ![p].acked = @ + 1, ![p].cq = Append(@, "send")]
  <2>1. /\ Typed /\ Queues(p) /\ nic \in [Sides -> Nics] /\ test' = test /\ loop' = loop
        /\ (test.ud /\ nic[p].acked < nic[p].sent) \/ nic[p].acked < nic[p].landed
        /\ nic' = [nic EXCEPT ![p].acked = @ + 1, ![p].cq = Append(@, "send")]
    BY DEF IInv, Own, Typed, Complete
  <2>2. nic[p].landed + nic[p].lost <= nic[p].sent
    BY <2>1 DEF Queues
  <2>3. nic[p] \in Nics
    BY <2>1
  <2>4. /\ nic[p].acked \in Nat /\ nic[p].sent \in Nat
        /\ nic[p].landed \in Nat /\ nic[p].lost \in Nat
    BY <2>3, NicFields
  <2>5. nic[p].acked < nic[p].sent
    BY <2>1, <2>2, <2>4
  <2> QED
    BY <2>1, <2>2, <2>5
<1>2. PICK x \in Nics : x = nic[p]
  BY <1>1
<1>3. /\ x.lost \in Nat /\ x.landed \in Nat /\ x.sent \in Nat /\ x.acked \in Nat
      /\ x.reaped \in Nat /\ x.cq \in Seq(Kinds)
      /\ Of("send", x.cq) \in Nat
  BY NicFields
<1>4. PICK acked \in Nat : acked = x.acked + 1
  BY <1>3
<1>5. PICK cq \in Seq(Kinds) : cq = Append(x.cq, "send")
  <2>1. "send" \in Kinds
    BY DEF Kinds
  <2> QED
    BY <1>3, <2>1, OfAppend
<1>6. /\ Of("send", cq) = Of("send", x.cq) + 1 /\ Of("recv", cq) = Of("recv", x.cq)
      /\ Of("error", cq) = Of("error", x.cq)
  <2>1. "send" \in Kinds /\ "send" # "recv" /\ "send" # "error"
    BY DEF Kinds
  <2> QED
    BY <1>3, <1>5, <2>1, OfAppend
<1>7. PICK z : z = [x EXCEPT !.acked = acked, !.cq = cq]
  OBVIOUS
<1>8. /\ z \in Nics /\ z.sent = x.sent /\ z.landed = x.landed /\ z.lost = x.lost
      /\ z.acked = acked /\ z.reaped = x.reaped /\ z.recvs = x.recvs
      /\ z.cq = cq /\ z.up = x.up /\ z.mem = x.mem
  BY <1>7 DEF Nics
<1>9. nic' = [nic EXCEPT ![p] = z] /\ nic'[p] = z /\ nic'[Peer(p)] = nic[Peer(p)]
  <2>1. nic' = [nic EXCEPT ![p].acked = acked, ![p].cq = cq]
    BY <1>1, <1>2, <1>4, <1>5
  <2> QED
    BY <1>1, <1>2, <1>7, <2>1, ThePeers
<1>10. Queues(p)'
  <2>1. TwoSided' = TwoSided /\ Passive(p)' = Passive(p)
    BY <1>1, SameTest
  <2>2. /\ z.acked = z.reaped + Of("send", z.cq) /\ z.acked <= z.sent /\ (~test.ud => z.acked <= z.landed)
    <3>1. /\ x.acked = x.reaped + Of("send", x.cq) /\ x.landed + x.lost <= x.sent
          /\ IF test.ud THEN x.acked < x.sent ELSE x.acked < x.landed
      BY <1>1, <1>2 DEF Queues
    <3>2. z.acked <= z.sent /\ (~test.ud => z.acked <= z.landed)
      <4>1. z.acked = x.acked + 1 /\ z.landed = x.landed /\ z.sent = x.sent
        BY <1>4, <1>8
      <4>2. CASE test.ud
        BY <1>3, <3>1, <4>1, <4>2
      <4>3. CASE ~test.ud
        BY <1>3, <3>1, <4>1, <4>3
      <4> QED
        BY <4>2, <4>3
    <3>3. z.acked = z.reaped + Of("send", z.cq)
      <4>1. x.acked = x.reaped + Of("send", x.cq)
        BY <3>1
      <4> QED
        BY <1>3, <1>4, <1>6, <1>8, <4>1
    <3> QED
      BY <3>2, <3>3
  <2> QED
    BY <1>1, <1>2, <1>6, <1>8, <1>9, <2>1, <2>2 DEF Queues
<1> QED
  BY <1>1, <1>2, <1>6, <1>8, <1>9, <1>10, OneNicKeeps

(* The peer is gone. *)
LEMMA FailKeeps == ASSUME IInv, NEW p \in Sides, Fail(p) PROVE IInv'
<1>1. /\ Typed /\ Queues(p) /\ nic \in [Sides -> Nics] /\ test' = test /\ loop' = loop
      /\ ~nic[Peer(p)].up
      /\ nic' = [nic EXCEPT ![p].cq = Append(@, "error")]
  BY DEF IInv, Own, Typed, Fail
<1>2. PICK x \in Nics : x = nic[p]
  BY <1>1
<1>3. x.cq \in Seq(Kinds)
  BY NicFields
<1>4. PICK cq \in Seq(Kinds) : cq = Append(x.cq, "error")
  <2>1. "error" \in Kinds
    BY DEF Kinds
  <2> QED
    BY <1>3, <2>1, OfAppend
<1>5. Of("send", cq) = Of("send", x.cq) /\ Of("recv", cq) = Of("recv", x.cq)
  <2>1. "error" \in Kinds /\ "error" # "recv" /\ "send" # "error"
    BY DEF Kinds
  <2> QED
    BY <1>3, <1>4, <2>1, OfAppend
<1>6. PICK z : z = [x EXCEPT !.cq = cq]
  OBVIOUS
<1>7. /\ z \in Nics /\ z.sent = x.sent /\ z.landed = x.landed /\ z.lost = x.lost
      /\ z.acked = x.acked /\ z.reaped = x.reaped /\ z.recvs = x.recvs
      /\ z.cq = cq /\ z.up = x.up /\ z.mem = x.mem
  BY <1>6 DEF Nics
<1>8. nic' = [nic EXCEPT ![p] = z] /\ nic'[p] = z /\ nic'[Peer(p)] = nic[Peer(p)]
  BY <1>1, <1>2, <1>4, <1>6, ThePeers
<1>9. Queues(p)'
  <2>1. TwoSided' = TwoSided /\ Passive(p)' = Passive(p)
    BY <1>1, SameTest
  <2> QED
    BY <1>1, <1>2, <1>5, <1>7, <1>8, <2>1 DEF Queues
<1> QED
  BY <1>1, <1>2, <1>5, <1>7, <1>8, <1>9, OneNicKeeps

(* An operation takes effect at the peer: a write of write_lat shows what  *)
(* its sender has set last, and it is the peer's turn.                     *)
LEMMA TurnLand ==
  ASSUME IInv, NEW p \in Sides, loop' = loop, test' = test, test.tool = "write_lat",
         nic[p].landed < nic[p].sent,
         nic'[p].landed = nic[p].landed + 1, nic'[Peer(p)].mem = nic[p].mem,
         nic'[p].sent = nic[p].sent, nic'[p].mem = nic[p].mem,
         nic'[Peer(p)].sent = nic[Peer(p)].sent,
         nic'[Peer(p)].landed = nic[Peer(p)].landed
  PROVE  Turn'
<1> SUFFICES ASSUME ~Garbled PROVE InTurn' /\ Shows'
  BY TurnGoal
<1>1. Sets' = Sets /\ Sets = loop["S"].done + (IF loop["S"].at > 2 THEN 1 ELSE 0)
  BY TurnFacts DEF Sets, Past
<1>2. /\ InTurn /\ Shows
      /\ loop["C"].at \in 1 .. 4 /\ loop["S"].at \in 1 .. 4
      /\ loop["C"].done \in Nat /\ loop["S"].done \in Nat
      /\ nic["C"].landed \in Nat /\ nic["S"].landed \in Nat
      /\ nic["C"].sent = loop["C"].done + (IF loop["C"].at > 2 THEN 1 ELSE 0)
      /\ nic["S"].sent = loop["S"].done + (IF loop["S"].at > 3 THEN 1 ELSE 0)
      /\ nic["C"].landed <= nic["C"].sent /\ nic["S"].landed <= nic["S"].sent
  BY TurnFacts
<1>3. CASE p = "C"
  <2>1. /\ nic["C"].landed < nic["C"].sent /\ nic'["C"].landed = nic["C"].landed + 1
        /\ nic'["S"].mem = nic["C"].mem /\ nic'["C"].mem = nic["C"].mem
        /\ nic'["C"].sent = nic["C"].sent /\ nic'["S"].sent = nic["S"].sent
        /\ nic'["S"].landed = nic["S"].landed
    BY <1>3, ThePeers
  <2>2. /\ nic["S"].landed = nic["C"].landed /\ nic["S"].sent = nic["C"].landed
        /\ loop["C"].done = nic["C"].landed /\ loop["C"].at > 2
    BY <1>2, <2>1 DEF InTurn
  <2>3. Sets <= nic["C"].landed
    BY <1>1, <1>2, <2>2 DEF InTurn
  <2>4. nic["C"].mem = Sentinel(nic["C"].landed)
    BY <1>2, <2>2 DEF Shows
  <2>5. InTurn'
    BY <1>2, <2>1 DEF InTurn
  <2>6. /\ nic'["C"].landed > Sets' /\ nic'["C"].landed - 1 = nic["C"].landed
    <3>1. Sets \in Nat
      BY <1>1, <1>2
    <3> QED
      BY <1>1, <1>2, <2>1, <2>3, <3>1
  <2>7. nic'["S"].mem = Sentinel(nic'["C"].landed - 1)
    BY <2>1, <2>4, <2>6
  <2>8. loop["C"].at > 1 =>
          nic["C"].mem = IF nic["S"].landed > loop["C"].done THEN Echo(loop["C"].done)
                         ELSE Sentinel(loop["C"].done)
    BY <1>2 DEF Shows
  <2>9. Shows'
    BY <2>1, <2>6, <2>7, <2>8 DEF Shows
  <2> QED
    BY <2>5, <2>9
<1>4. CASE p = "S"
  <2>1. /\ nic["S"].landed < nic["S"].sent /\ nic'["S"].landed = nic["S"].landed + 1
        /\ nic'["C"].mem = nic["S"].mem /\ nic'["S"].mem = nic["S"].mem
        /\ nic'["C"].sent = nic["C"].sent /\ nic'["S"].sent = nic["S"].sent
        /\ nic'["C"].landed = nic["C"].landed
    BY <1>4, ThePeers
  <2>2. /\ nic["C"].landed = nic["S"].landed + 1 /\ nic["S"].sent = nic["S"].landed + 1
        /\ loop["C"].done = nic["S"].landed /\ loop["C"].at > 2
    BY <1>2, <2>1 DEF InTurn
  <2>3. Sets = loop["C"].done + 1
    BY <1>1, <1>2, <2>2 DEF InTurn
  <2>4. nic["S"].mem = Echo(loop["C"].done)
    <3>1. ~(nic["C"].landed > Sets) /\ Sets # 0 /\ Sets - 1 = loop["C"].done
      BY <1>2, <2>2, <2>3
    <3> QED
      BY <1>2, <3>1 DEF Shows
  <2>5. InTurn'
    BY <1>2, <2>1 DEF InTurn
  <2>6. nic'["S"].landed > loop["C"].done
    BY <1>2, <2>1, <2>2
  <2>7. nic["S"].mem = IF nic["C"].landed > Sets THEN Sentinel(nic["C"].landed - 1)
                       ELSE IF Sets = 0 THEN test.byte ELSE Echo(Sets - 1)
    BY <1>2 DEF Shows
  <2>8. Shows'
    BY <1>1, <2>1, <2>4, <2>6, <2>7 DEF Shows
  <2> QED
    BY <2>5, <2>8
<1> QED
  BY <1>3, <1>4, ThePeers

LEMMA LandKeeps == ASSUME IInv, NEW p \in Sides, Land(p) PROVE IInv'
<1> DEFINE q == Peer(p)
<1>1. /\ Typed /\ nic \in [Sides -> Nics] /\ test' = test /\ loop' = loop
      /\ nic[q].up /\ nic[p].landed + nic[p].lost < nic[p].sent
      /\ TwoSided => nic[q].recvs > 0
      /\ nic' = [nic EXCEPT
           ![p].landed = @ + 1,
           ![q].recvs = IF TwoSided THEN @ - 1 ELSE @,
           ![q].cq = IF TwoSided THEN Append(@, "recv") ELSE @,
           ![q].mem = IF test.tool = "write_lat" THEN nic[p].mem ELSE @]
  BY DEF IInv, Typed, Land, Flying
<1>2. q \in Sides /\ q # p /\ Peer(q) = p /\ Peer(p) = q
      /\ \A r \in Sides : r = p \/ r = q
  BY ThePeers
<1> HIDE DEF q
<1>3. Queues(p) /\ Queues(q) /\ Turn
  BY <1>2 DEF IInv, Own
<1>4. PICK x \in Nics : x = nic[p]
  BY <1>1
<1>5. PICK v \in Nics : v = nic[q]
  BY <1>1, <1>2
<1>6. /\ x.landed \in Nat /\ x.lost \in Nat /\ x.sent \in Nat /\ x.mem \in Nat
      /\ x.acked \in Nat
      /\ v.recvs \in Nat /\ v.cq \in Seq(Kinds) /\ v.mem \in Nat
      /\ Of("recv", v.cq) \in Nat
  BY NicFields
<1>7. PICK landed \in Nat : landed = x.landed + 1
  BY <1>6
<1>8. PICK recvs \in Nat : recvs = IF TwoSided THEN v.recvs - 1 ELSE v.recvs
  <2>1. TwoSided => v.recvs > 0
    BY <1>1, <1>5
  <2> QED
    BY <1>6, <2>1
<1>9. PICK cq \in Seq(Kinds) : cq = IF TwoSided THEN Append(v.cq, "recv") ELSE v.cq
  <2>1. "recv" \in Kinds
    BY DEF Kinds
  <2> QED
    BY <1>6, <2>1, OfAppend
<1>10. PICK mem \in Nat : mem = IF test.tool = "write_lat" THEN x.mem ELSE v.mem
  BY <1>6
<1>11. /\ Of("send", cq) = Of("send", v.cq) /\ Of("error", cq) = Of("error", v.cq)
       /\ Of("recv", cq) = IF TwoSided THEN Of("recv", v.cq) + 1 ELSE Of("recv", v.cq)
  <2>1. "recv" \in Kinds /\ "recv" # "error" /\ "recv" # "send"
    BY DEF Kinds
  <2>2. CASE TwoSided
    BY <1>6, <1>9, <2>1, <2>2, OfAppend
  <2>3. CASE ~TwoSided
    BY <1>9, <2>3
  <2> QED
    BY <2>2, <2>3
<1>12. PICK y : y = [x EXCEPT !.landed = landed]
  OBVIOUS
<1>13. PICK w : w = [v EXCEPT !.recvs = recvs, !.cq = cq, !.mem = mem]
  OBVIOUS
<1>14. /\ y \in Nics /\ y.sent = x.sent /\ y.landed = landed /\ y.lost = x.lost
       /\ y.acked = x.acked /\ y.reaped = x.reaped /\ y.recvs = x.recvs
       /\ y.cq = x.cq /\ y.up = x.up /\ y.mem = x.mem
  BY <1>12 DEF Nics
<1>15. /\ w \in Nics /\ w.sent = v.sent /\ w.landed = v.landed /\ w.lost = v.lost
       /\ w.acked = v.acked /\ w.reaped = v.reaped /\ w.recvs = recvs
       /\ w.cq = cq /\ w.up = v.up /\ w.mem = mem
  BY <1>13 DEF Nics
<1>16. nic' = [nic EXCEPT ![p] = y, ![q] = w]
  <2>1. nic' = [nic EXCEPT ![p].landed = landed, ![q].recvs = recvs, ![q].cq = cq,
                           ![q].mem = mem]
    BY <1>1, <1>2, <1>4, <1>5, <1>7, <1>8, <1>9, <1>10
  <2> QED
    BY <1>1, <1>2, <1>4, <1>5, <1>12, <1>13, <2>1
<1>17. nic'[p] = y /\ nic'[q] = w /\ nic' \in [Sides -> Nics]
  <2>1. PICK m : m = [nic EXCEPT ![p] = y]
    OBVIOUS
  <2>2. m \in [Sides -> Nics] /\ m[p] = y
    BY <1>1, <1>14, <2>1
  <2>3. nic' = [m EXCEPT ![q] = w]
    BY <1>16, <2>1
  <2> QED
    BY <1>2, <1>15, <2>2, <2>3
<1>25. /\ x.landed \in Nat /\ x.lost \in Nat /\ x.sent \in Nat /\ x.acked \in Nat
       /\ v.recvs \in Nat /\ Of("recv", v.cq) \in Nat
       /\ landed \in Nat /\ landed = x.landed + 1
  BY <1>6, <1>7
<1>18. /\ TwoSided' = TwoSided /\ Passive(p)' = Passive(p) /\ Passive(q)' = Passive(q)
  BY <1>1, SameTest
<1>19. Queues(p)'
  <2>1. y.acked <= y.sent /\ (~test.ud => y.acked <= y.landed) /\ y.landed + y.lost <= y.sent
    <3>1. x.acked <= x.sent /\ (~test.ud => x.acked <= x.landed) /\ x.landed + x.lost < x.sent
      BY <1>1, <1>3, <1>4 DEF Queues
    <3> QED
      BY <1>14, <1>25, <3>1
  <2> QED
    BY <1>1, <1>2, <1>3, <1>4, <1>5, <1>14, <1>15, <1>17, <1>18, <2>1 DEF Queues
<1>20. Queues(q)'
  <2>1. Of("recv", w.cq) <= IF TwoSided THEN y.landed ELSE 0
    <3>1. Of("recv", v.cq) <= IF TwoSided THEN x.landed ELSE 0
      BY <1>2, <1>3, <1>4, <1>5 DEF Queues
    <3>2. CASE TwoSided
      BY <1>6, <1>7, <1>11, <1>14, <1>15, <3>1, <3>2
    <3>3. CASE ~TwoSided
      BY <1>11, <1>15, <3>1, <3>3
    <3> QED
      BY <3>2, <3>3
  <2>2. /\ nic[q] = v /\ nic'[q] = w /\ nic[p] = x /\ nic'[p] = y /\ Peer(q) = p
        /\ loop'[q] = loop[q] /\ test' = test
    BY <1>1, <1>2, <1>4, <1>5, <1>17
  <2>3. /\ v.acked = v.reaped + Of("send", v.cq)
        /\ v.acked <= v.sent /\ (~test.ud => v.acked <= v.landed)
        /\ v.landed + v.lost <= v.sent
        /\ ~test.ud => v.lost = 0
        /\ Of("error", v.cq) + Of("error", loop[q].batch) > 0 => ~x.up
        /\ Passive(q) => loop[q].pc = "done" /\ v.sent = 0
        /\ loop[q].pc = "error" => ~x.up \/ test.queue < test.depth
    BY <1>3, <2>2 DEF Queues
  <2>4. /\ w.acked = w.reaped + Of("send", w.cq)
        /\ w.acked <= w.sent /\ (~test.ud => w.acked <= w.landed)
        /\ w.landed + w.lost <= w.sent
        /\ ~test.ud => w.lost = 0
        /\ Of("error", w.cq) + Of("error", loop[q].batch) > 0 => ~y.up
        /\ Passive(q) => loop[q].pc = "done" /\ w.sent = 0
        /\ loop[q].pc = "error" => ~y.up \/ test.queue < test.depth
    BY <1>11, <1>14, <1>15, <2>3
  <2> QED
    BY <1>18, <2>1, <2>2, <2>4 DEF Queues
<1>21. ASSUME TwoSided
       PROVE  /\ Given(p)' = Given(p) /\ Heard(p)' = Heard(p)
              /\ Given(q)' = Given(q) /\ Heard(q)' = Heard(q)
  <2>1. Given(p)' = Given(p) /\ Heard(p)' = Heard(p)
    BY <1>2, <1>4, <1>5, <1>14, <1>15, <1>17 DEF Given, Heard
  <2>2. Given(q)' = Given(q)
    <3>1. Given(q) = v.recvs + x.landed /\ Given(q)' = recvs + landed
      BY <1>2, <1>4, <1>5, <1>14, <1>15, <1>17 DEF Given
    <3> QED
      <4>1. recvs = v.recvs - 1
        BY <1>8, <1>21
      <4> QED
        BY <1>25, <3>1, <4>1
  <2>3. Heard(q)' = Heard(q)
    <3>1. /\ Heard(q) = x.landed - Of("recv", v.cq)
          /\ Heard(q)' = landed - (Of("recv", v.cq) + 1)
      BY <1>2, <1>4, <1>5, <1>11, <1>14, <1>15, <1>17, <1>21 DEF Heard
    <3> QED
      BY <1>25, <3>1
  <2> QED
    BY <2>1, <2>2, <2>3
<1>22. Turn'
  <2>1. CASE test.tool # "write_lat"
    BY <1>1, <2>1, NoSentinel
  <2>2. CASE test.tool = "write_lat"
    <3>1. nic[p].landed < nic[p].sent
      <4>1. x.landed + x.lost < x.sent
        BY <1>1, <1>4
      <4> QED
        BY <1>4, <1>25, <4>1
    <3>2. /\ nic'[p].landed = nic[p].landed + 1 /\ nic'[Peer(p)].mem = nic[p].mem
          /\ nic'[p].sent = nic[p].sent /\ nic'[p].mem = nic[p].mem
          /\ nic'[Peer(p)].sent = nic[Peer(p)].sent
          /\ nic'[Peer(p)].landed = nic[Peer(p)].landed
      BY <1>2, <1>4, <1>5, <1>7, <1>10, <1>14, <1>15, <1>17, <2>2
    <3> QED
      BY <1>1, <2>2, <3>1, <3>2, TurnLand
  <2> QED
    BY <2>1, <2>2
<1>23. /\ nic'[p].sent = nic[p].sent /\ nic'[p].reaped = nic[p].reaped
       /\ nic'[q].sent = nic[q].sent /\ nic'[q].reaped = nic[q].reaped
  BY <1>4, <1>5, <1>14, <1>15, <1>17
<1>24. \A r \in Sides : /\ Queues(r)'
                        /\ nic'[r].sent = nic[r].sent
                        /\ nic'[r].reaped = nic[r].reaped
                        /\ TwoSided => Given(r)' = Given(r) /\ Heard(r)' = Heard(r)
  BY <1>2, <1>19, <1>20, <1>21, <1>23
<1> QED
  BY <1>1, <1>17, <1>22, <1>24, NicKeeps

-----------------------------------------------------------------------------
LEMMA InitIInv == Init => IInv
<1> SUFFICES ASSUME Init PROVE IInv
  OBVIOUS
<1>1. /\ test \in Tests /\ test.tool \in Tools /\ test.byte \in Nat
      /\ test.depth \in Nat \ {0} /\ Iters \in Nat \ {0}
  <2>1. test \in Tests
    BY DEF Init
  <2>2. test.byte \in 0 .. Bytes - 1 /\ Bytes \in Nat
    BY <2>1, PerftestAssumption
  <2>3. test.byte \in Nat
    BY <2>2
  <2> QED
    BY <2>1, <2>3, PerftestAssumption
<1>2. <<>> \in Seq(Kinds) /\ \A k : Of(k, <<>>) = 0
  BY OfEmpty
<1>3. ASSUME NEW p \in Sides
      PROVE  /\ loop[p] = [pc |-> IF Passive(p) THEN "done"
                                  ELSE IF Bandwidth THEN "prime" ELSE "round",
                           at |-> 1, done |-> 0, batch |-> <<>>, extra |-> 0]
             /\ nic[p] = [sent |-> 0, landed |-> 0, lost |-> 0, acked |-> 0,
                          reaped |-> 0, recvs |-> 0, cq |-> <<>>, up |-> TRUE,
                          mem |-> IF p = "S" THEN test.byte ELSE 0]
  BY DEF Init
<1>4. Typed
  <2>1. ASSUME NEW p \in Sides PROVE loop[p] \in Loop /\ nic[p] \in Nics
    <3>1. PICK c \in Places : c = IF Passive(p) THEN "done"
                                  ELSE IF Bandwidth THEN "prime" ELSE "round"
      BY DEF Places
    <3>2. PICK m \in Nat : m = IF p = "S" THEN test.byte ELSE 0
      BY <1>1
    <3>5. PICK one \in 1 .. 4, zero \in Nat : one = 1 /\ zero = 0
      OBVIOUS
    <3>6. PICK none \in Seq(Kinds) : none = <<>>
      BY <1>2
    <3>0. PICK up \in BOOLEAN : up = TRUE
      OBVIOUS
    <3>3. loop[p] \in Loop
      <4>1. loop[p] = [pc |-> c, at |-> one, done |-> zero, batch |-> none, extra |-> zero]
        BY <1>3, <3>1, <3>5, <3>6
      <4> QED
        BY <4>1 DEF Loop
    <3>4. nic[p] \in Nics
      <4>1. nic[p] = [sent |-> zero, landed |-> zero, lost |-> zero, acked |-> zero,
                      reaped |-> zero, recvs |-> zero, cq |-> none, up |-> up, mem |-> m]
        BY <1>3, <3>0, <3>2, <3>5, <3>6
      <4> QED
        BY <4>1 DEF Nics
    <3> QED
      BY <3>3, <3>4
  <2> QED
    BY <1>1, <2>1 DEF Init, Typed
<1>5. ASSUME NEW p \in Sides
      PROVE  /\ loop[p].pc = IF Passive(p) THEN "done"
                             ELSE IF Bandwidth THEN "prime" ELSE "round"
             /\ loop[p].at = 1 /\ loop[p].done = 0 /\ loop[p].batch = <<>>
             /\ loop[p].extra = 0
             /\ nic[p].sent = 0 /\ nic[p].landed = 0 /\ nic[p].lost = 0
             /\ nic[p].acked = 0 /\ nic[p].reaped = 0 /\ nic[p].recvs = 0
             /\ nic[p].cq = <<>> /\ nic[p].mem = IF p = "S" THEN test.byte ELSE 0
  <2>1. loop[p] = [pc |-> IF Passive(p) THEN "done"
                          ELSE IF Bandwidth THEN "prime" ELSE "round",
                   at |-> 1, done |-> 0, batch |-> <<>>, extra |-> 0]
    BY <1>3
  <2>2. nic[p] = [sent |-> 0, landed |-> 0, lost |-> 0, acked |-> 0,
                  reaped |-> 0, recvs |-> 0, cq |-> <<>>, up |-> TRUE,
                  mem |-> IF p = "S" THEN test.byte ELSE 0]
    BY <1>3
  <2> QED
    BY <2>1, <2>2
<1>6. ASSUME NEW p \in Sides PROVE Own(p)
  <2>1. Peer(p) \in Sides /\ (p = "C" \/ p = "S")
    BY ThePeers
  <2>2. nic[Peer(p)].landed = 0
    BY <1>5, <2>1
  <2>3. Queues(p)
    BY <1>2, <1>5, <2>2 DEF Queues
  <2>4. Given(p) = 0 /\ Heard(p) = 0 /\ Outstanding(p) = 0 /\ Taken(p) = 0
    <3>1. Given(p) = 0 /\ Heard(p) = 0
      BY <1>2, <1>5, <2>2 DEF Given, Heard
    <3>2. nic["C"].landed = 0
      BY <1>5, ThePeers
    <3> QED
      BY <1>5, <3>1, <3>2 DEF Outstanding, Taken
  <2>5. Bandwidth => Streaming(p)
    <3>1. Of("send", loop[p].batch) = 0 /\ Of("recv", loop[p].batch) = 0
      BY <1>2, <1>5
    <3>2. 0 <= Lesser(test.depth, Iters)
      BY <1>1 DEF Lesser
    <3>3. Of(Reaps(p), loop[p].batch) = 0
      BY <3>1 DEF Reaps
    <3> QED
      BY <1>5, <2>4, <3>1, <3>2, <3>3 DEF Streaming
  <2>6. ~Bandwidth /\ ~Passive(p) => PingPong(p)
    <3> SUFFICES ASSUME ~Bandwidth, ~Passive(p) PROVE PingPong(p)
      OBVIOUS
    <3>1. /\ Len(Steps(p)) \in 1 .. 4
      <4>1. \A a, b, c, d : Len(<<a, b, c, d>>) = 4 /\ Len(<<a, b>>) = 2
        OBVIOUS
      <4> QED
        BY <1>4, <4>1, RoundsOf
    <3>2. SendStep(p) \in 1 .. 4 /\ FirstPoll(p) \in 1 .. 4
      BY DEF SendStep, FirstPoll
    <3>3. Past(p, SendStep(p)) = 0 /\ Past(p, 1) = 0
      BY <1>5, <3>2 DEF Past
    <3>4. 1 <= Len(Steps(p)) /\ 1 <= FirstPoll(p)
      <4>1. \A n \in 1 .. 4 : 1 <= n
        OBVIOUS
      <4> QED
        BY <3>1, <3>2, <4>1
    <3> QED
      BY <1>5, <2>4, <3>3, <3>4 DEF PingPong
  <2> QED
    BY <2>3, <2>5, <2>6 DEF Own
<1>7. Turn
  <2>1. Sets = 0
    BY <1>5, ThePeers DEF Sets, Past
  <2>2. InTurn
    BY <1>5, ThePeers DEF InTurn
  <2>3. Shows
    BY <1>5, <2>1, ThePeers DEF Shows
  <2> QED
    BY <2>2, <2>3 DEF Turn
<1> QED
  BY <1>4, <1>6, <1>7 DEF IInv

LEMMA Inductive == IInv /\ [Next]_vars => IInv'
<1> SUFFICES ASSUME IInv, [Next]_vars PROVE IInv'
  OBVIOUS
<1>1. ASSUME NEW p \in Sides, Run(p) PROVE IInv'
  BY <1>1, PrimeKeeps, PollBatchKeeps, ReapKeeps, FinishKeeps, RoundPostKeeps,
     PollOneKeeps, SetKeeps, AwaitKeeps, ExitKeeps DEF Run
<1>2. ASSUME NEW p \in Sides, Nic(p) \/ Drop(p) PROVE IInv'
  BY <1>2, LandKeeps, CompleteKeeps, FailKeeps, DropKeeps DEF Nic
<1>3. CASE UNCHANGED vars
  <2>1. test' = test /\ loop' = loop /\ nic' = nic
    BY <1>3 DEF vars
  <2>2. \A r \in Sides : Queues(r)'
    BY <2>1, SameTest DEF IInv, Own, Queues
  <2>3. \A r \in Sides : Given(r)' = Given(r) /\ Heard(r)' = Heard(r)
    BY <2>1 DEF Given, Heard
  <2>4. Turn'
    BY <2>1, BytesStay DEF IInv
  <2>5. nic' \in [Sides -> Nics]
    BY <2>1 DEF IInv, Typed
  <2> QED
    BY <2>1, <2>2, <2>3, <2>4, <2>5, NicKeeps
<1> QED
  BY <1>1, <1>2, <1>3 DEF Next

(* Every state: the queues, the loops and the sentinels are as they        *)
(* should be, whatever the test.                                           *)
THEOREM InductiveInvariant == Spec => []IInv
<1> QED
  BY InitIInv, Inductive, PTL DEF Spec

-----------------------------------------------------------------------------
LEMMA WindowHolds == ASSUME IInv PROVE WindowKept
<1> SUFFICES ASSUME NEW p \in Sides
             PROVE  LET left == Iters - loop[p].done IN
                    /\ Bandwidth /\ loop[p].pc = "poll" =>
                         Outstanding(p) - loop[p].done =
                           IF left < test.depth THEN left ELSE test.depth
                    /\ loop[p].pc = "error" => ~nic[Peer(p)].up \/ test.queue < test.depth
  BY DEF WindowKept
<1>1. Own(p) /\ Typed
  BY DEF IInv
<1>2. loop[p].pc = "error" => ~nic[Peer(p)].up \/ test.queue < test.depth
  BY <1>1 DEF Own, Queues
<1>3. ASSUME Bandwidth, loop[p].pc = "poll"
      PROVE  Outstanding(p) - loop[p].done =
               IF Iters - loop[p].done < test.depth THEN Iters - loop[p].done
                                                    ELSE test.depth
  <2>1. Streaming(p)
    BY <1>1, <1>3 DEF Own
  <2>2. /\ loop[p].done <= Iters
        /\ Outstanding(p) = loop[p].done + Lesser(test.depth, Iters - loop[p].done)
    BY <1>3, <2>1 DEF Streaming
  <2>3. loop[p].done \in Nat /\ test.depth \in Nat /\ Iters \in Nat
    <3>1. loop[p] \in Loop
      BY <1>1 DEF Typed
    <3>2. test.depth \in Nat \ {0} /\ Iters \in Nat \ {0}
      BY <1>1, PerftestAssumption DEF Typed
    <3> QED
      BY <3>1, <3>2, LoopFields
  <2>4. CASE Iters - loop[p].done < test.depth
    <3>1. Lesser(test.depth, Iters - loop[p].done) = Iters - loop[p].done
      BY <2>3, <2>4 DEF Lesser
    <3> QED
      BY <2>2, <2>3, <2>4, <3>1
  <2>5. CASE ~(Iters - loop[p].done < test.depth)
    <3>1. Lesser(test.depth, Iters - loop[p].done) = test.depth
      BY <2>3, <2>5 DEF Lesser
    <3> QED
      BY <2>2, <2>3, <2>5, <3>1
  <2> QED
    BY <2>4, <2>5
<1> QED
  BY <1>2, <1>3

(* send.go:36-37, 107: whenever a bandwidth loop polls, `depth` of its     *)
(* requests are outstanding, or all that are left; and no loop stops with  *)
(* an error while its peer is there, if its queues hold that many.         *)
THEOREM WindowIsKept == Spec => []WindowKept
<1> QED
  BY InductiveInvariant, WindowHolds, PTL

LEMMA MeasuredHolds == ASSUME IInv PROVE MeasuredHappened
<1> DEFINE C == nic["C"]
           S == nic["S"]
           counted == loop["C"].done
<1>1. /\ Typed /\ Own("C") /\ Own("S") /\ Turn /\ C \in Nics /\ S \in Nics
      /\ loop["C"] \in Loop /\ "C" \in Sides /\ "S" \in Sides
      /\ Peer("C") = "S" /\ Peer("S") = "C"
  BY ThePeers DEF IInv, Typed
<1>2. /\ counted \in Nat /\ C.landed \in Nat /\ C.lost \in Nat /\ S.landed \in Nat
      /\ C.reaped \in Nat /\ S.sent \in Nat /\ C.sent \in Nat
      /\ Of("recv", C.cq) \in Nat /\ Of("recv", S.cq) \in Nat
  BY <1>1, LoopFields, NicFields
<1>3. Queues("C") /\ Queues("S") /\ ~Passive("C")
  BY <1>1 DEF Own, Passive
<1>4. ~test.ud => C.reaped <= C.landed
  BY <1>1, <1>3, InOrder
<1>5. counted <= C.reaped
  <2>1. CASE Bandwidth
    <3>1. Streaming("C") /\ Taken("C") = C.reaped
      BY <1>1, <2>1 DEF Own, Taken
    <3>2. C.reaped = counted + Of("send", loop["C"].batch)
      BY <1>3, <3>1 DEF Streaming, Reaps
    <3>3. Of("send", loop["C"].batch) \in Nat
      BY <1>1, LoopFields
    <3> QED
      BY <1>2, <3>2, <3>3
  <2>2. CASE ~Bandwidth
    BY <1>1, <1>3, <2>2 DEF Own, PingPong
  <2> QED
    BY <2>1, <2>2
<1>6. ~test.ud => counted <= C.landed
  BY <1>2, <1>4, <1>5
<1>7. CASE test.tool = "send_lat"
  <2>1. ~Bandwidth /\ TwoSided /\ ~Passive("S")
    BY <1>7 DEF Bandwidth, TwoSided, Passive
  <2>2. PingPong("C") /\ PingPong("S")
    BY <1>1, <1>3, <2>1 DEF Own
  <2>3. counted <= Heard("C") /\ S.sent <= Heard("S")
    BY <2>1, <2>2 DEF PingPong
  <2>4. Heard("C") = S.landed - Of("recv", C.cq) /\ Heard("S") = C.landed - Of("recv", S.cq)
    BY <1>1 DEF Heard
  <2>5. counted <= S.landed /\ S.sent <= C.landed
    BY <1>2, <2>3, <2>4
  <2> QED
    BY <1>6, <2>5 DEF MeasuredHappened
<1>8. CASE test.tool = "write_lat"
  <2>1. ~Garbled => counted <= S.landed /\ S.sent <= C.landed
    BY <1>1, <1>8 DEF Turn, InTurn
  <2> QED
    BY <1>6, <2>1 DEF MeasuredHappened
<1>9. CASE test.tool \notin {"send_lat", "write_lat"}
  BY <1>6, <1>9 DEF MeasuredHappened
<1> QED
  BY <1>7, <1>8, <1>9

(* send.go:101-102, write.go:47-48: what a client has counted happened.    *)
(* Over RC each operation it counts took effect at the server; a round     *)
(* trip it counts was answered, over UD too, and each answer came after    *)
(* its ping: no stale sentinel or foreign completion is taken for it.      *)
THEOREM MeasuredIsReal == Spec => []MeasuredHappened
<1> QED
  BY InductiveInvariant, MeasuredHolds, PTL
=============================================================================
