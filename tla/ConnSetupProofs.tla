-------------------------- MODULE ConnSetupProofs --------------------------
(***************************************************************************)
(* The two ways to set up connections, for any number of calls.            *)
(*                                                                         *)
(* Over TCP (ConnSetup): whatever fails, times out or is closed, queue     *)
(* pairs are connected in pairs, and every verbs object that was made is   *)
(* destroyed. By rdma_cm (CMSetup): a connection one end has      *)
(* returned exists at the other, and what is made for a connection is      *)
(* somebody's to destroy.                                                  *)
(***************************************************************************)
EXTENDS ConnSetup, CMSetup, FiniteSetTheorems, TLAPS

-----------------------------------------------------------------------------
(* Over TCP: who is connected with whom.                                   *)
Places ==
  {"idle", "bind", "dial", "accept", "write", "read", "bringUp", "up", "failed"}

Typed ==
  /\ pc \in [Calls -> Places]
  /\ peer \in [Calls -> Calls \cup {NoOne}]
  /\ served \in [Accepts -> Dialers \cup {NoOne}]
  /\ backlog \subseteq Dialers

(* A connection is in the backlog, with one Accept, or in neither; before  *)
(* its Dial connects, and before an Accept has taken one, there is none.   *)
OneAcceptEach ==
  /\ \A a, b \in Accepts : served[a] = served[b] /\ served[a] # NoOne => a = b
  /\ \A a \in Accepts : served[a] \notin backlog
  /\ \A d \in Dialers : pc[d] \in {"idle", "dial"} =>
       d \notin backlog /\ \A a \in Accepts : served[a] # d
  /\ \A a \in Accepts : pc[a] \in {"idle", "bind", "accept"} => served[a] = NoOne

(* What a call has read is the information of the other end.               *)
PeerIsOpposite == \A p \in Calls : peer[p] # NoOne => peer[p] \in Opposite(p)

IInv == Typed /\ OneAcceptEach /\ PeerIsOpposite

-----------------------------------------------------------------------------
LEMMA InitIInv == Init => IInv
<1> SUFFICES ASSUME Init PROVE IInv
  OBVIOUS
<1>1. Typed
  BY DEF Init, Typed, Places, Calls
<1>2. OneAcceptEach
  BY SetupAssumption DEF Init, OneAcceptEach, Calls
<1>3. PeerIsOpposite
  BY DEF Init, PeerIsOpposite
<1> QED
  BY <1>1, <1>2, <1>3 DEF IInv

(* Steps of the life of a Conn, and a listener's Close, leave who has      *)
(* accepted and read what.                                                 *)
LEMMA QuietStep ==
  ASSUME IInv, UNCHANGED <<pc, peer, served>>, backlog' \subseteq backlog
  PROVE  IInv'
<1>1. Typed'
  BY DEF IInv, Typed
<1>2. OneAcceptEach'
  BY DEF IInv, OneAcceptEach
<1>3. PeerIsOpposite'
  BY DEF IInv, PeerIsOpposite, Opposite
<1> QED
  BY <1>1, <1>2, <1>3 DEF IInv

(* So does a call that moves on, if it does not move back to before its    *)
(* connection.                                                             *)
Ahead(p, place) ==
  \/ place \notin {"idle", "bind", "dial", "accept"}
  \/ pc[p] = "idle"
  \/ p \in Accepts /\ pc[p] = "bind"

LEMMA MovingStep ==
  ASSUME IInv, NEW p \in Calls, NEW place \in Places, Go(p, place), Ahead(p, place),
         UNCHANGED <<peer, served>>, backlog' \subseteq backlog
  PROVE  IInv'
<1>1. /\ pc' \in [Calls -> Places]
      /\ \A q \in Calls : pc'[q] = IF q = p THEN place ELSE pc[q]
  BY DEF IInv, Typed, Go
<1>2. Typed'
  BY <1>1 DEF IInv, Typed
<1>3. OneAcceptEach'
  <2> USE DEF IInv, OneAcceptEach, Calls
  <2>1. ASSUME NEW d \in Dialers, pc'[d] \in {"idle", "dial"}
        PROVE  d \notin backlog' /\ \A a \in Accepts : served'[a] # d
    <3>1. pc[d] \in {"idle", "dial"}
      BY <1>1, <2>1, SetupAssumption DEF Ahead, SetupAssumption
    <3> QED
      BY <3>1
  <2>2. ASSUME NEW a \in Accepts, pc'[a] \in {"idle", "bind", "accept"}
        PROVE  served'[a] = NoOne
    <3>1. pc[a] \in {"idle", "bind", "accept"}
      BY <1>1, <2>2 DEF Ahead
    <3> QED
      BY <3>1
  <2>3. \A a \in Accepts : served'[a] \notin backlog'
    OBVIOUS
  <2> QED
    BY <2>1, <2>2, <2>3
<1>4. PeerIsOpposite'
  BY DEF IInv, PeerIsOpposite, Opposite
<1> QED
  BY <1>2, <1>3, <1>4 DEF IInv

LEMMA FailStep ==
  ASSUME IInv, NEW p \in Calls, Fail(p), UNCHANGED served, backlog' \subseteq backlog
  PROVE  IInv'
<1>1. Go(p, "failed") /\ Ahead(p, "failed") /\ UNCHANGED peer
  BY DEF Fail, Ahead
<1> QED
  BY <1>1, MovingStep DEF Places

-----------------------------------------------------------------------------
LEMMA BuildKeeps == ASSUME IInv, NEW p \in Calls, Build(p) PROVE IInv'
<1>1. PICK place \in Places : Go(p, place)
  BY DEF Build, Places
<1>2. Ahead(p, place) /\ UNCHANGED <<peer, served, backlog>>
  BY DEF Build, Ahead, tcp
<1> QED
  BY <1>1, <1>2, MovingStep

LEMMA BindKeeps == ASSUME IInv, NEW a \in Accepts, Bind(a) PROVE IInv'
<1>1. CASE Fail(a)
  BY <1>1, FailStep DEF Bind, Calls
<1>2. CASE ~Fail(a)
  <2>1. Go(a, "accept") /\ Ahead(a, "accept") /\ UNCHANGED <<peer, served, backlog>>
    BY <1>2 DEF Bind, Ahead
  <2> QED
    BY <2>1, MovingStep DEF Calls, Places
<1> QED
  BY <1>1, <1>2

(* The Dial that connects was in nobody's hands.                           *)
LEMMA ConnectKeeps == ASSUME IInv, NEW d \in Dialers, Connect(d) PROVE IInv'
<1>1. CASE Fail(d) /\ UNCHANGED backlog
  BY <1>1, FailStep DEF Connect, Calls
<1>2. CASE ~(Fail(d) /\ UNCHANGED backlog)
  <2>1. /\ pc[d] = "dial" /\ Go(d, "write")
        /\ backlog' = backlog \cup {d}
        /\ UNCHANGED <<peer, served>>
    BY <1>2 DEF Connect
  <2>2. /\ pc' \in [Calls -> Places]
        /\ \A q \in Calls : pc'[q] = IF q = d THEN "write" ELSE pc[q]
    BY <2>1 DEF IInv, Typed, Go, Places
  <2>3. Typed'
    BY <2>1, <2>2 DEF IInv, Typed
  <2>4. OneAcceptEach'
    BY <2>1, <2>2, SetupAssumption DEF IInv, OneAcceptEach, Calls, SetupAssumption
  <2>5. PeerIsOpposite'
    BY <2>1 DEF IInv, PeerIsOpposite, Opposite
  <2> QED
    BY <2>3, <2>4, <2>5 DEF IInv
<1> QED
  BY <1>1, <1>2

(* The Dial an Accept takes was served by no other, and neither of them    *)
(* has read anything yet.                                                  *)
LEMMA TakeKeeps == ASSUME IInv, NEW a \in Accepts, Take(a) PROVE IInv'
<1>1. CASE Fail(a) /\ UNCHANGED <<served, backlog>>
  BY <1>1, FailStep DEF Calls
<1>2. CASE \E d \in backlog :
             /\ served' = [served EXCEPT ![a] = d]
             /\ backlog' = backlog \ {d}
             /\ Go(a, "write") /\ UNCHANGED peer
  <2>1. PICK d \in backlog :
          /\ served' = [served EXCEPT ![a] = d]
          /\ backlog' = backlog \ {d}
          /\ Go(a, "write") /\ UNCHANGED peer
    BY <1>2
  <2>2. d \in Dialers /\ served[a] = NoOne /\ d # NoOne
    BY <2>1, SetupAssumption
       DEF IInv, Typed, OneAcceptEach, Take, Calls, SetupAssumption
  <2>3. /\ pc' \in [Calls -> Places]
        /\ \A q \in Calls : pc'[q] = IF q = a THEN "write" ELSE pc[q]
    BY <2>1 DEF IInv, Typed, Go, Places, Calls
  <2>4. \A b \in Accepts : served'[b] = IF b = a THEN d ELSE served[b]
    BY <2>1 DEF IInv, Typed
  <2>5. Typed'
    BY <2>1, <2>2, <2>3 DEF IInv, Typed
  <2>6. OneAcceptEach'
    BY <2>1, <2>2, <2>3, <2>4, SetupAssumption
       DEF IInv, OneAcceptEach, Calls, SetupAssumption
  <2>7. PeerIsOpposite'
    <3> SUFFICES ASSUME NEW p \in Calls, peer'[p] # NoOne
                 PROVE  peer'[p] \in Opposite(p)'
      BY DEF PeerIsOpposite
    <3>1. peer[p] \in Opposite(p) /\ peer'[p] = peer[p]
      BY <2>1 DEF IInv, PeerIsOpposite
    <3>2. CASE p \in Accepts
      BY <2>2, <2>4, <3>1, <3>2 DEF Opposite
    <3>3. CASE p \notin Accepts
      BY <2>2, <2>4, <3>1, <3>3, SetupAssumption
         DEF Opposite, Calls, SetupAssumption
    <3> QED
      BY <3>2, <3>3
  <2> QED
    BY <2>5, <2>6, <2>7 DEF IInv
<1> QED
  BY <1>1, <1>2 DEF Take

LEMMA ReadKeeps == ASSUME IInv, NEW p \in Calls, Read(p) PROVE IInv'
<1>1. UNCHANGED served /\ backlog' \subseteq backlog
  BY DEF Read, EndExchange
<1>2. CASE Fail(p)
  BY <1>1, <1>2, FailStep
<1>3. CASE ~Fail(p)
  <2>1. PICK q \in Information(p) :
          peer' = [peer EXCEPT ![p] = q] /\ Go(p, "bringUp")
    BY <1>3 DEF Read
  <2>2. q \in Opposite(p)
    BY <2>1 DEF Information
  <2>3. q \in Calls
    BY <2>2 DEF IInv, Typed, Opposite, Calls
  <2>4. /\ pc' \in [Calls -> Places]
        /\ \A r \in Calls : pc'[r] = IF r = p THEN "bringUp" ELSE pc[r]
    BY <2>1 DEF IInv, Typed, Go, Places
  <2>5. Typed'
    BY <1>1, <2>1, <2>3, <2>4 DEF IInv, Typed
  <2>6. OneAcceptEach'
    BY <1>1, <2>4 DEF IInv, OneAcceptEach, Calls
  <2>7. PeerIsOpposite'
    BY <1>1, <2>1, <2>2 DEF IInv, Typed, PeerIsOpposite, Opposite
  <2> QED
    BY <2>5, <2>6, <2>7 DEF IInv
<1> QED
  BY <1>2, <1>3

LEMMA WriteKeeps == ASSUME IInv, NEW p \in Calls, Write(p) PROVE IInv'
<1>1. UNCHANGED served /\ backlog' \subseteq backlog
  BY DEF Write, EndExchange
<1>2. CASE Fail(p)
  BY <1>1, <1>2, FailStep
<1>3. CASE ~Fail(p)
  <2>1. Go(p, "read") /\ Ahead(p, "read") /\ UNCHANGED peer
    BY <1>3 DEF Write, Ahead
  <2> QED
    BY <1>1, <2>1, MovingStep DEF Places
<1> QED
  BY <1>2, <1>3

LEMMA BringUpKeeps == ASSUME IInv, NEW p \in Calls, BringUp(p) PROVE IInv'
<1>1. UNCHANGED <<served, backlog>>
  BY DEF BringUp, tcp
<1>2. CASE Fail(p)
  BY <1>1, <1>2, FailStep
<1>3. CASE ~Fail(p) /\ Go(p, "up")
  <2>1. Ahead(p, "up") /\ UNCHANGED peer
    BY <1>3 DEF BringUp, Ahead
  <2> QED
    BY <1>1, <1>3, <2>1, MovingStep DEF Places
<1>4. CASE ~Fail(p) /\ ~Go(p, "up")
  <2>1. UNCHANGED <<pc, peer>>
    BY <1>4 DEF BringUp
  <2> QED
    BY <1>1, <2>1, QuietStep
<1> QED
  BY <1>2, <1>3, <1>4

LEMMA LifeKeeps ==
  ASSUME IInv, NEW u \in Calls,
         FirstCall(u) \/ NewTransport(u) \/ Mark(u) \/ Close(u)
  PROVE  IInv'
<1>1. UNCHANGED <<pc, peer, served, backlog>>
  BY DEF FirstCall, NewTransport, Mark, Close, WaitForSlot, Shutdown, CloseNext, tcp
<1> QED
  BY <1>1, QuietStep

LEMMA NextKeeps == IInv /\ [Next]_vars => IInv'
<1> SUFFICES ASSUME IInv, [Next]_vars PROVE IInv'
  OBVIOUS
<1>1. CASE \E p \in Calls : Build(p) \/ SetUp(p)
  BY <1>1, BuildKeeps, BindKeeps, ConnectKeeps, TakeKeeps, ReadKeeps, WriteKeeps,
     BringUpKeeps DEF SetUp
<1>2. CASE CloseListener
  <2>1. UNCHANGED <<pc, peer, served>> /\ backlog' \subseteq backlog
    BY <1>2 DEF CloseListener
  <2> QED
    BY <2>1, QuietStep
<1>3. CASE \E u \in Calls : FirstCall(u) \/ NewTransport(u) \/ Mark(u) \/ Close(u)
  BY <1>3, LifeKeeps
<1>4. CASE UNCHANGED vars
  <2>1. UNCHANGED <<pc, peer, served, backlog>>
    BY <1>4 DEF vars, tcp
  <2> QED
    BY <2>1, QuietStep
<1> QED
  BY <1>1, <1>2, <1>3, <1>4 DEF Next

(* Whoever is at the other end of one's connection has oneself at the      *)
(* other end of his.                                                       *)
LEMMA PairedByInvariant == IInv => Paired
<1> SUFFICES ASSUME IInv PROVE Paired
  OBVIOUS
<1>1. ASSUME NEW p \in Calls, NEW q \in Opposite(p)
      PROVE  /\ q \in Calls
             /\ p \in Dialers <=> q \in Accepts
             /\ Opposite(q) = {p}
  <2>1. CASE p \in Accepts
    BY <1>1, <2>1, SetupAssumption
       DEF IInv, Typed, OneAcceptEach, Opposite, Calls, SetupAssumption
  <2>2. CASE p \in Dialers
    BY <1>1, <2>2, SetupAssumption
       DEF IInv, Typed, OneAcceptEach, Opposite, Calls, SetupAssumption
  <2> QED
    BY <2>1, <2>2 DEF Calls
<1>2. ASSUME NEW p \in Calls, peer[p] # NoOne
      PROVE  /\ p \in Dialers <=> peer[p] \in Accepts
             /\ peer[peer[p]] \in {p, NoOne}
             /\ \A q \in Calls : peer[q] = peer[p] => q = p
  <2>1. peer[p] \in Opposite(p)
    BY <1>2 DEF IInv, PeerIsOpposite
  <2>2. peer[p] \in Calls /\ Opposite(peer[p]) = {p}
    BY <1>1, <2>1
  <2>3. peer[peer[p]] \in {p, NoOne}
    BY <2>2 DEF IInv, PeerIsOpposite
  <2>4. ASSUME NEW q \in Calls, peer[q] = peer[p] PROVE q = p
    <3>1. peer[q] \in Opposite(q)
      BY <1>2, <2>4 DEF IInv, PeerIsOpposite
    <3>2. Opposite(peer[q]) = {q}
      BY <1>1, <3>1
    <3> QED
      BY <2>2, <2>4, <3>2
  <2> QED
    BY <1>1, <2>1, <2>3, <2>4
<1> QED
  BY <1>2 DEF Paired

(* For every number of Dials and Accepts: queue pairs are connected in     *)
(* pairs, whatever fails.                                                  *)
THEOREM ConnectedInPairs == Spec => []Paired
<1>1. Init => IInv
  BY InitIInv
<1>2. IInv /\ [Next]_vars => IInv'
  BY NextKeeps
<1>3. IInv => Paired
  BY PairedByInvariant
<1> QED
  BY <1>1, <1>2, <1>3, PTL DEF Spec

-----------------------------------------------------------------------------
(* Induction, for a set in place of a predicate: a set of natural numbers  *)
(* with 0 and with the successor of each of its elements has them all.     *)
LEMMA NaturalInduction ==
  ASSUME NEW S \in SUBSET Nat, 0 \in S, \A n \in S : n + 1 \in S
  PROVE  S = Nat
<1> SUFFICES ASSUME NEW m \in Nat, m \notin S PROVE FALSE
  OBVIOUS
<1> DEFINE T == {0 .. n : n \in Nat \ S}
           R == StrictSubsetOrdering(Nat)
<1>1. T # {} /\ T \subseteq FiniteSubsetsOf(Nat)
  <2>1. ASSUME NEW n \in Nat PROVE 0 .. n \in FiniteSubsetsOf(Nat)
    BY FS_Interval DEF FiniteSubsetsOf
  <2> QED
    BY <2>1
<1>2. IsWellFoundedOn(R, FiniteSubsetsOf(Nat))
  BY FS_StrictSubsetOrderingWellFounded
<1>3. PICK x \in T : \A y \in T : ~(<<y, x>> \in R)
  <2> HIDE DEF T, R
  <2> QED
    BY <1>1, <1>2, WFMin, Zenon
<1>4. PICK n \in Nat \ S : x = 0 .. n
  OBVIOUS
<1>5. n # 0 /\ n - 1 \in Nat \ S
  BY <1>4
<1>6. 0 .. n - 1 \in T
  BY <1>5
<1>7. /\ 0 .. n - 1 \subseteq 0 .. n /\ 0 .. n - 1 # 0 .. n
      /\ 0 .. n - 1 \in SUBSET Nat /\ 0 .. n \in SUBSET Nat
  BY <1>4, <1>5
<1>8. <<0 .. n - 1, 0 .. n>> \in R
  BY <1>7 DEF StrictSubsetOrdering
<1> QED
  BY <1>3, <1>4, <1>6, <1>8

(* In such an order each object goes after those that need it.             *)
Safe(order) ==
  \A i, j \in 1 .. Len(order) : i <= j => order[i] \notin Needs(order[j])

(* Destroyed in a safe order, all go.                                      *)
LEMMA SafeOrder ==
  ASSUME NEW T, NEW order \in Seq(T), Safe(order), NEW objects \in SUBSET ToSet(order)
  PROVE  Surviving(order, objects) = {}
<1> DEFINE L == Len(order)
           Rec(f) == [n \in 0 .. L |-> IF n = 0 THEN objects ELSE Destroy(f[n - 1], order[n])]
           F == [n \in 0 .. L |-> objects \ {order[i] : i \in 1 .. n}]
           rest == CHOOSE f : f = Rec(f)
<1>0. L \in Nat /\ ToSet(order) = {order[i] : i \in 1 .. L}
  BY DEF ToSet
<1>1. Surviving(order, objects) = rest[L]
  BY DEF Surviving
<1>2. ASSUME NEW n \in 1 .. L
      PROVE  Destroy(F[n - 1], order[n]) = F[n]
  <2>1. /\ F[n - 1] = objects \ {order[i] : i \in 1 .. n - 1}
        /\ F[n] = objects \ {order[i] : i \in 1 .. n}
    BY <1>0, <1>2
  <2>2. ASSUME NEW x \in F[n - 1] PROVE order[n] \notin Needs(x)
    <3>1. PICK j \in 1 .. L : x = order[j]
      BY <1>0, <2>1, <2>2
    <3>2. j \notin 1 .. n - 1
      BY <2>1, <2>2, <3>1
    <3>3. n <= j
      BY <1>0, <1>2, <3>2
    <3> QED
      BY <3>1, <3>3 DEF Safe
  <2>3. 1 .. n = (1 .. n - 1) \cup {n}
    BY <1>0, <1>2
  <2>4. Destroy(F[n - 1], order[n]) = F[n - 1] \ {order[n]}
    BY <2>2 DEF Destroy
  <2> QED
    BY <2>1, <2>3, <2>4
<1>3. F = Rec(F)
  <2>1. F[0] = objects
    BY <1>0
  <2>2. ASSUME NEW n \in 0 .. L
        PROVE  F[n] = IF n = 0 THEN objects ELSE Destroy(F[n - 1], order[n])
    <3>1. CASE n = 0
      BY <2>1, <3>1
    <3>2. CASE n # 0
      <4>1. n \in 1 .. L
        BY <1>0, <3>2
      <4> HIDE DEF F
      <4> QED
        BY <1>2, <3>2, <4>1
    <3> QED
      BY <3>1, <3>2
  <2>3. F = [n \in 0 .. L |-> F[n]]
    OBVIOUS
  <2> HIDE DEF F
  <2> QED
    BY <2>2, <2>3
<1>4. rest = Rec(rest)
  <2> HIDE DEF F, Rec
  <2> QED
    BY <1>3
<1>5. rest[0] = objects /\ \A n \in 1 .. L : rest[n] = Destroy(rest[n - 1], order[n])
  <2> HIDE DEF rest
  <2> QED
    BY <1>0, <1>4
<1> HIDE DEF rest
<1> DEFINE S == {n \in Nat : n <= L => rest[n] = F[n]}
<1>6. S = Nat
  <2>1. 0 \in S
    BY <1>0, <1>5
  <2>2. ASSUME NEW n \in S PROVE n + 1 \in S
    <3>1. CASE n + 1 <= L
      <4>1. n + 1 \in 1 .. L /\ (n + 1) - 1 = n /\ rest[n] = F[n]
        BY <1>0, <2>2, <3>1
      <4>2. rest[n + 1] = Destroy(rest[n], order[n + 1])
        BY <1>5, <4>1
      <4>3. F[n + 1] = Destroy(F[n], order[n + 1])
        BY <1>2, <4>1
      <4> QED
        BY <2>2, <4>1, <4>2, <4>3
    <3>2. CASE ~(n + 1 <= L)
      BY <2>2, <3>2
    <3> QED
      BY <3>1, <3>2
  <2> HIDE DEF S
  <2>3. S \in SUBSET Nat
    BY DEF S
  <2> QED
    BY <2>1, <2>2, <2>3, NaturalInduction
<1>7. rest[L] = F[L]
  <2>1. L \in S
    BY <1>0, <1>6
  <2> HIDE DEF F
  <2> QED
    BY <1>0, <2>1
<1> QED
  BY <1>0, <1>1, <1>7

-----------------------------------------------------------------------------
(* The verbs objects: each Close destroys, in a safe order, what the       *)
(* ladder of its kind makes.                                               *)
Kinds == {"Conn", "EventConn", "RawConn", "perftest"}

LEMMA NeedsOfEach ==
  /\ Needs("mr") = {"pd"} /\ Needs("sendMR") = {"pd"} /\ Needs("recvMR") = {"pd"}
  /\ Needs("qp") = {"cq", "pd", "id"} /\ Needs("cq") = {"ch", "ctx"}
  /\ Needs("ch") = {"ctx"} /\ Needs("pd") = {"ctx"} /\ Needs("ctx") = {}
BY DEF Needs

LEMMA ConnOrder ==
  /\ CloseOrder \in Seq(Objects) /\ Safe(CloseOrder) /\ Len(CloseOrder) = 6
  /\ ToSet(CloseOrder) = {"mr", "qp", "cq", "ch", "pd", "ctx"}
<1>1. CloseOrder \in Seq(Objects) /\ Len(CloseOrder) = 6
  BY DEF CloseOrder, Objects
<1>2. Safe(CloseOrder)
  BY NeedsOfEach DEF Safe, CloseOrder
<1>3. /\ CloseOrder[1] = "mr" /\ CloseOrder[2] = "qp" /\ CloseOrder[3] = "cq"
      /\ CloseOrder[4] = "ch" /\ CloseOrder[5] = "pd" /\ CloseOrder[6] = "ctx"
  BY DEF CloseOrder
<1> QED
  BY <1>1, <1>2, <1>3 DEF ToSet

LEMMA RawOrder ==
  /\ RawCloseOrder \in Seq(Objects) /\ Safe(RawCloseOrder)
  /\ ToSet(RawCloseOrder) = {"qp", "cq", "pd", "ctx"}
<1>1. RawCloseOrder \in Seq(Objects) /\ Len(RawCloseOrder) = 4
  BY DEF RawCloseOrder, Objects
<1>2. Safe(RawCloseOrder)
  BY NeedsOfEach DEF Safe, RawCloseOrder
<1>3. /\ RawCloseOrder[1] = "qp" /\ RawCloseOrder[2] = "cq"
      /\ RawCloseOrder[3] = "pd" /\ RawCloseOrder[4] = "ctx"
  BY DEF RawCloseOrder
<1> QED
  BY <1>1, <1>2, <1>3 DEF ToSet

LEMMA PerftestSafe ==
  ASSUME NEW order, Len(order) = 5,
         order[1] = "mr", order[2] = "qp", order[3] = "cq", order[4] = "pd", order[5] = "ctx"
  PROVE  Safe(order)
BY NeedsOfEach DEF Safe

LEMMA PerftestOrder ==
  ASSUME NEW order, order = <<"mr">> \o EndpointCloseOrder
  PROVE  /\ order \in Seq(Objects) /\ Safe(order)
         /\ ToSet(order) = {"mr", "qp", "cq", "pd", "ctx"}
<1>1. order \in Seq(Objects) /\ Len(order) = 5
  BY DEF EndpointCloseOrder, Objects
<1>2. /\ order[1] = "mr" /\ order[2] = "qp" /\ order[3] = "cq"
      /\ order[4] = "pd" /\ order[5] = "ctx"
  BY DEF EndpointCloseOrder
<1>3. Safe(order)
  BY <1>1, <1>2, PerftestSafe
<1> QED
  BY <1>1, <1>2, <1>3 DEF ToSet

LEMMA LadderMakes ==
  /\ kind \in {"Conn", "EventConn"} => ToSet(Ladder) \subseteq ToSet(CloseOrder)
  /\ kind = "RawConn" => ToSet(Ladder) \subseteq ToSet(RawCloseOrder)
  /\ kind = "perftest" => ToSet(Ladder) \subseteq ToSet(<<"mr">> \o EndpointCloseOrder)
<1>1. CASE kind = "Conn"
  <2>1. Ladder = <<"ctx", "pd">> \o <<>> \o <<"cq", "qp", "mr">>
    BY <1>1 DEF Ladder, ConnLadder
  <2>2. Len(Ladder) = 5
    BY <2>1
  <2>3. \A i \in 1 .. 5 : Ladder[i] \in {"mr", "qp", "cq", "ch", "pd", "ctx"}
    BY <2>1
  <2>4. ToSet(Ladder) \subseteq {"mr", "qp", "cq", "ch", "pd", "ctx"}
    BY <2>2, <2>3 DEF ToSet
  <2> QED
    BY <1>1, <2>4, ConnOrder
<1>2. CASE kind = "EventConn"
  <2>1. Ladder = <<"ctx", "pd">> \o <<"ch">> \o <<"cq", "qp", "mr">>
    BY <1>2 DEF Ladder, ConnLadder
  <2>2. Len(Ladder) = 6
    BY <2>1
  <2>3. \A i \in 1 .. 6 : Ladder[i] \in {"mr", "qp", "cq", "ch", "pd", "ctx"}
    BY <2>1
  <2>4. ToSet(Ladder) \subseteq {"mr", "qp", "cq", "ch", "pd", "ctx"}
    BY <2>2, <2>3 DEF ToSet
  <2> QED
    BY <1>2, <2>4, ConnOrder
<1>3. CASE kind = "RawConn"
  <2>1. Ladder = <<"ctx", "pd">> \o <<"cq", "qp">>
    BY <1>3 DEF Ladder, RawLadder, Device
  <2>2. Len(Ladder) = 4
    BY <2>1
  <2>3. \A i \in 1 .. 4 : Ladder[i] \in {"qp", "cq", "pd", "ctx"}
    BY <2>1
  <2>4. ToSet(Ladder) \subseteq {"qp", "cq", "pd", "ctx"}
    BY <2>2, <2>3 DEF ToSet
  <2> QED
    BY <1>3, <2>4, RawOrder
<1>4. CASE kind = "perftest"
  <2>1. Ladder = <<"ctx", "pd", "cq", "mr", "qp">>
    BY <1>4 DEF Ladder, PerftestLadder
  <2>2. ToSet(Ladder) \subseteq {"mr", "qp", "cq", "pd", "ctx"}
    BY <2>1 DEF ToSet
  <2> QED
    BY <1>4, <2>2, PerftestOrder
<1> QED
  BY <1>1, <1>2, <1>3, <1>4

(* A failed call's Close leaves nothing, however far its ladder went.      *)
LEMMA LadderDestroyed ==
  ASSUME kind \in Kinds, NEW made \in SUBSET ToSet(Ladder)
  PROVE  Closed(made) = {}
<1>1. CASE kind \in {"Conn", "EventConn"}
  <2>1. made \in SUBSET ToSet(CloseOrder)
    BY <1>1, LadderMakes
  <2>2. Surviving(CloseOrder, made) = {}
    BY <2>1, ConnOrder, SafeOrder
  <2>3. ConnClosed[made] = Surviving(CloseOrder, made)
    BY <2>1 DEF ConnClosed, DestroyAll
  <2> QED
    BY <1>1, <2>2, <2>3 DEF Closed
<1>2. CASE kind = "RawConn"
  <2>1. made \in SUBSET ToSet(RawCloseOrder)
    BY <1>2, LadderMakes
  <2>2. Surviving(RawCloseOrder, made) = {}
    BY <2>1, RawOrder, SafeOrder
  <2>3. RawClosed[made] = Surviving(RawCloseOrder, made)
    BY <2>1 DEF RawClosed, DestroyAll
  <2> QED
    BY <1>2, <2>2, <2>3 DEF Closed
<1>3. CASE kind = "perftest"
  <2> DEFINE order == <<"mr">> \o EndpointCloseOrder
  <2>1. made \in SUBSET ToSet(order)
    BY <1>3, LadderMakes
  <2>2. order \in Seq(Objects) /\ Safe(order)
    BY PerftestOrder
  <2>3. PerftestClosed[made] = Surviving(order, made)
    BY <2>1 DEF PerftestClosed, DestroyAll
  <2> HIDE DEF order
  <2>4. Surviving(order, made) = {}
    BY <2>1, <2>2, SafeOrder
  <2> QED
    BY <1>3, <2>3, <2>4 DEF Closed
<1> QED
  BY <1>1, <1>2, <1>3 DEF Kinds
-----------------------------------------------------------------------------
(* What a call and its Conn hold, from its ladder to the end of Close.     *)
Working == {"bind", "dial", "accept", "write", "read", "bringUp"}

OwnTyped ==
  /\ scene \in Scenes
  /\ pc \in [Calls -> Places]
  /\ held \in [Calls -> SUBSET Objects]
  /\ qp \in [Calls -> {"none", "reset", "init", "rtr", "rts"}]
  /\ use \in [Calls -> {"none", "sendMR", "recvMR", "post", "done"}]
  /\ tr \in [Calls -> BOOLEAN]
  /\ closing \in [Calls -> {"open", "marked", "waiting", "closing", "done"}]
  /\ left = [u \in Calls |-> left[u]]
  /\ raced \in [Calls -> BOOLEAN]

(* A call under way has what its ladder makes and a queue pair that is     *)
(* not yet at RTS; only a Conn may have rings; a failed call has nothing.  *)
HoldsOf(p) ==
  /\ held[p] \subseteq ToSet(Ladder) \cup Rings
  /\ pc[p] # "up" => held[p] \subseteq ToSet(Ladder)
  /\ pc[p] = "failed" => held[p] = {}
  /\ pc[p] \in Working => qp[p] \in {"reset", "init", "rtr"}

(* Only a Conn that is up is used and closed, and rings are those of its   *)
(* transport, built or being built.                                        *)
LifeOf(u) ==
  /\ use[u] # "none" => pc[u] = "up"
  /\ closing[u] # "open" => pc[u] = "up" /\ kind \in {"Conn", "EventConn"}
  /\ tr[u] => use[u] = "done"
  /\ held[u] \cap Rings # {} => tr[u] \/ use[u] \in {"recvMR", "post"}

(* Close has destroyed the objects of the order up to where it is, unless  *)
(* a first call was building rings when it looked for them. No first call  *)
(* that comes later builds any.                                            *)
CloseOf(u) ==
  /\ closing[u] \in {"closing", "done"} /\ ~raced[u] =>
       use[u] \in {"none", "done"} /\ held[u] \cap Rings = {}
  /\ closing[u] = "closing" =>
       \E k \in 1 .. Len(CloseOrder) + 1 :
         /\ left[u] = SubSeq(CloseOrder, k, Len(CloseOrder))
         /\ ~raced[u] => held[u] \subseteq {CloseOrder[i] : i \in k .. Len(CloseOrder)}
  /\ closing[u] = "done" /\ ~raced[u] => held[u] = {}

Own(p) == HoldsOf(p) /\ LifeOf(p) /\ CloseOf(p)

OwnInv == OwnTyped /\ \A p \in Calls : Own(p)

LEMMA KindIsKnown == OwnTyped => kind \in Kinds
BY SetupAssumption DEF OwnTyped, SetupAssumption, Kinds, kind

LEMMA SceneStays == UNCHANGED scene => UNCHANGED <<kind, Ladder>>
BY DEF kind, Ladder

(* A step of one call is no step of another.                               *)
LEMMA OwnStep ==
  ASSUME OwnInv, OwnTyped', UNCHANGED scene, NEW p \in Calls, Own(p)',
         \A q \in Calls \ {p} :
           /\ pc'[q] = pc[q] /\ held'[q] = held[q] /\ qp'[q] = qp[q]
           /\ use'[q] = use[q] /\ tr'[q] = tr[q] /\ closing'[q] = closing[q]
           /\ left'[q] = left[q] /\ raced'[q] = raced[q]
  PROVE  OwnInv'
<1>1. ASSUME NEW q \in Calls \ {p} PROVE Own(q)'
  <2>1. HoldsOf(q)'
    BY SceneStays DEF OwnInv, Own, HoldsOf
  <2>2. LifeOf(q)'
    BY SceneStays DEF OwnInv, Own, LifeOf
  <2>3. CloseOf(q)'
    BY DEF OwnInv, Own, CloseOf
  <2> QED
    BY <2>1, <2>2, <2>3 DEF Own
<1> QED
  BY <1>1 DEF OwnInv

(* A call that only moves on, to a place where it still works or to "up",  *)
(* or whose queue pair moves up.                                           *)
LEMMA OwnMove ==
  ASSUME OwnInv, UNCHANGED <<scene, held, life>>, NEW p \in Calls, pc[p] \in Working,
         NEW place \in Working \cup {"up"}, Go(p, place),
         NEW state \in {"reset", "init", "rtr", "rts"}, qp' = [qp EXCEPT ![p] = state],
         state = "rts" => place = "up"
  PROVE  OwnInv'
<1>1. /\ pc' \in [Calls -> Places] /\ pc'[p] = place
      /\ \A q \in Calls \ {p} : pc'[q] = pc[q]
  BY DEF OwnInv, OwnTyped, Go, Places, Working
<1>2. /\ qp' \in [Calls -> {"none", "reset", "init", "rtr", "rts"}] /\ qp'[p] = state
      /\ \A q \in Calls \ {p} : qp'[q] = qp[q]
  BY DEF OwnInv, OwnTyped
<1>3. OwnTyped'
  BY <1>1, <1>2 DEF OwnInv, OwnTyped, life
<1>4. HoldsOf(p)'
  BY <1>1, <1>2, SceneStays DEF OwnInv, Own, HoldsOf, Working
<1>5. LifeOf(p)'
  BY <1>1 DEF OwnInv, Own, LifeOf, Working, life
<1>6. CloseOf(p)'
  BY DEF OwnInv, Own, CloseOf, life
<1>7. Own(p)'
  BY <1>4, <1>5, <1>6 DEF Own
<1> QED
  BY <1>1, <1>2, <1>3, <1>7, OwnStep DEF life

LEMMA OwnFail ==
  ASSUME OwnInv, UNCHANGED <<scene, life>>, NEW p \in Calls, pc[p] \in Working, Fail(p)
  PROVE  OwnInv'
<1>1. /\ pc' \in [Calls -> Places] /\ pc'[p] = "failed"
      /\ \A q \in Calls \ {p} : pc'[q] = pc[q]
  BY DEF OwnInv, OwnTyped, Fail, Go, Places
<1>2. /\ qp' \in [Calls -> {"none", "reset", "init", "rtr", "rts"}]
      /\ \A q \in Calls \ {p} : qp'[q] = qp[q]
  BY DEF OwnInv, OwnTyped, Fail
<1>3. Closed(held[p]) = {}
  <2>1. held[p] \in SUBSET ToSet(Ladder)
    BY DEF OwnInv, Own, HoldsOf, Working
  <2> QED
    BY <2>1, KindIsKnown, LadderDestroyed DEF OwnInv
<1>4. held' = [held EXCEPT ![p] = {}]
  BY <1>3 DEF Fail
<1>5. /\ held' \in [Calls -> SUBSET Objects] /\ held'[p] = {}
      /\ \A q \in Calls \ {p} : held'[q] = held[q]
  BY <1>4 DEF OwnInv, OwnTyped
<1>6. OwnTyped'
  BY <1>1, <1>2, <1>5 DEF OwnInv, OwnTyped, life
<1>7. use[p] = "none" /\ closing[p] = "open" /\ tr[p] = FALSE
  BY DEF OwnInv, OwnTyped, Own, LifeOf, Working
<1>8. HoldsOf(p)' /\ LifeOf(p)' /\ CloseOf(p)'
  BY <1>1, <1>5, <1>7 DEF HoldsOf, LifeOf, CloseOf, Working, life
<1>9. Own(p)'
  BY <1>8 DEF Own
<1> QED
  BY <1>1, <1>2, <1>5, <1>6, <1>9, OwnStep DEF life
-----------------------------------------------------------------------------
LEMMA OwnInit == Init => OwnInv
<1> SUFFICES ASSUME Init PROVE OwnInv
  OBVIOUS
<1>1. OwnTyped
  BY DEF Init, OwnTyped, Places
<1>2. ASSUME NEW p \in Calls PROVE Own(p)
  BY DEF Init, Own, HoldsOf, LifeOf, CloseOf, Working
<1> QED
  BY <1>1, <1>2 DEF OwnInv

LEMMA OwnBuild == ASSUME OwnInv, NEW p \in Calls, Build(p) PROVE OwnInv'
<1>1. PICK n \in 0 .. Len(Ladder) :
        LET made == ToSet(SubSeq(Ladder, 1, n))
        IN IF n < Len(Ladder)
             THEN /\ Go(p, "failed")
                  /\ held' = [held EXCEPT ![p] = Closed(made)]
                  /\ UNCHANGED qp
             ELSE /\ Go(p, IF p \in Dialers THEN "dial"
                           ELSE IF kind = "perftest" THEN "bind" ELSE "accept")
                  /\ held' = [held EXCEPT ![p] = made]
                  /\ qp' = [qp EXCEPT ![p] = "reset"]
  BY DEF Build
<1> DEFINE made == ToSet(SubSeq(Ladder, 1, n))
<1>2. pc[p] = "idle" /\ UNCHANGED <<scene, life>>
  BY DEF Build
<1>3. made \subseteq ToSet(Ladder)
  <2>1. Len(Ladder) \in Nat
    BY KindIsKnown DEF OwnInv, Kinds, Ladder, ConnLadder, RawLadder, Device, PerftestLadder
  <2> QED
    BY <2>1 DEF ToSet
<1>4. Closed(made) = {}
  BY <1>3, KindIsKnown, LadderDestroyed DEF OwnInv
<1>5. ToSet(Ladder) \subseteq Objects
  BY KindIsKnown, LadderMakes, ConnOrder, RawOrder, PerftestOrder DEF OwnInv, Kinds, Objects
<1> HIDE DEF made
<1>6. PICK mine \in SUBSET ToSet(Ladder), place \in Working \cup {"failed"},
           state \in {"none", "reset", "init", "rtr", "rts"} :
        /\ Go(p, place) /\ held' = [held EXCEPT ![p] = mine] /\ qp' = [qp EXCEPT ![p] = state]
        /\ IF place = "failed" THEN mine = {} ELSE state = "reset"
  <2>1. CASE n < Len(Ladder)
    <3>1. qp' = [qp EXCEPT ![p] = qp[p]] /\ qp[p] \in {"none", "reset", "init", "rtr", "rts"}
      BY <1>1, <2>1 DEF OwnInv, OwnTyped
    <3> QED
      BY <1>1, <1>4, <2>1, <3>1 DEF made
  <2>2. CASE ~(n < Len(Ladder))
    <3> DEFINE place == IF p \in Dialers THEN "dial"
                        ELSE IF kind = "perftest" THEN "bind" ELSE "accept"
    <3>1. Go(p, place) /\ held' = [held EXCEPT ![p] = made] /\ qp' = [qp EXCEPT ![p] = "reset"]
      BY <1>1, <2>2 DEF made
    <3>2. place \in Working
      BY DEF Working
    <3>3. place # "failed"
      OBVIOUS
    <3> HIDE DEF place
    <3>4. place \in Working \cup {"failed"} /\ made \in SUBSET ToSet(Ladder)
      BY <1>3, <3>2
    <3>5. "reset" \in {"none", "reset", "init", "rtr", "rts"}
      OBVIOUS
    <3>6. IF place = "failed" THEN made = {} ELSE "reset" = "reset"
      BY <3>3
    <3> QED
      BY <3>1, <3>4, <3>5, <3>6, Zenon
  <2> QED
    BY <2>1, <2>2
<1>7. /\ pc' \in [Calls -> Places] /\ pc'[p] = place
      /\ \A q \in Calls \ {p} : pc'[q] = pc[q]
  BY <1>6 DEF OwnInv, OwnTyped, Go, Places, Working
<1>8. /\ held' \in [Calls -> SUBSET Objects] /\ held'[p] = mine
      /\ \A q \in Calls \ {p} : held'[q] = held[q]
  BY <1>5, <1>6 DEF OwnInv, OwnTyped
<1>9. /\ qp' \in [Calls -> {"none", "reset", "init", "rtr", "rts"}] /\ qp'[p] = state
      /\ \A q \in Calls \ {p} : qp'[q] = qp[q]
  BY <1>6 DEF OwnInv, OwnTyped
<1>10. OwnTyped'
  BY <1>2, <1>7, <1>8, <1>9 DEF OwnInv, OwnTyped, life
<1>11. use[p] = "none" /\ closing[p] = "open" /\ tr[p] = FALSE
  BY <1>2 DEF OwnInv, OwnTyped, Own, LifeOf
<1>12. mine \cap Rings = {}
  BY <1>6, KindIsKnown, LadderMakes, ConnOrder, RawOrder, PerftestOrder
     DEF OwnInv, Kinds, Rings
<1>13. HoldsOf(p)'
  BY <1>2, <1>6, <1>7, <1>8, <1>9, SceneStays DEF HoldsOf, Working
<1>14. LifeOf(p)' /\ CloseOf(p)'
  BY <1>2, <1>8, <1>11, <1>12 DEF LifeOf, CloseOf, life
<1>15. Own(p)'
  BY <1>13, <1>14 DEF Own
<1> QED
  BY <1>2, <1>7, <1>8, <1>9, <1>10, <1>15, OwnStep DEF life

LEMMA OwnSetUp == ASSUME OwnInv, NEW p \in Calls, SetUp(p) PROVE OwnInv'
<1>1. pc[p] \in Working /\ UNCHANGED <<scene, life>>
  BY DEF SetUp, Bind, Connect, Take, Write, Read, BringUp, Working
<1>2. qp[p] \in {"reset", "init", "rtr"} /\ qp = [qp EXCEPT ![p] = qp[p]]
  BY <1>1 DEF OwnInv, OwnTyped, Own, HoldsOf
<1>3. CASE Fail(p)
  BY <1>1, <1>3, OwnFail
<1>4. CASE ~Fail(p) /\ ~BringUp(p)
  <2>1. PICK place \in Working : Go(p, place) /\ UNCHANGED <<held, qp>>
    BY <1>4 DEF SetUp, Bind, Connect, Take, Write, Read, Working
  <2> QED
    BY <1>1, <1>2, <2>1, OwnMove
<1>5. CASE ~Fail(p) /\ BringUp(p)
  <2>1. /\ pc[p] = "bringUp" /\ qp' = [qp EXCEPT ![p] = Above[qp[p]]] /\ UNCHANGED held
        /\ IF qp[p] = "rtr" THEN Go(p, "up") ELSE UNCHANGED pc
    BY <1>5 DEF BringUp
  <2>2. Above["reset"] = "init" /\ Above["init"] = "rtr" /\ Above["rtr"] = "rts"
    BY DEF Above
  <2>3. CASE qp[p] = "rtr"
    BY <1>1, <2>1, <2>2, <2>3, OwnMove
  <2>4. CASE qp[p] # "rtr"
    <3>1. Go(p, "bringUp") /\ "bringUp" \in Working
      BY <2>1, <2>4 DEF OwnInv, OwnTyped, Go, Working
    <3>2. Above[qp[p]] \in {"init", "rtr"}
      BY <1>2, <2>2, <2>4
    <3> QED
      BY <1>1, <2>1, <3>1, <3>2, OwnMove
  <2> QED
    BY <2>3, <2>4
<1> QED
  BY <1>3, <1>4, <1>5

(* The first call finds the Conn marked, and builds nothing, or open.      *)
LEMMA OwnFirstCall == ASSUME OwnInv, NEW u \in Calls, FirstCall(u) PROVE OwnInv'
<1>1. /\ UNCHANGED <<scene, pc, held, qp, tr, closing, left, raced>>
      /\ pc[u] = "up" /\ use[u] = "none"
      /\ use' = [use EXCEPT ![u] = IF closing[u] = "open" THEN "sendMR" ELSE "done"]
  BY DEF FirstCall, Use
<1>2. /\ use' \in [Calls -> {"none", "sendMR", "recvMR", "post", "done"}]
      /\ use'[u] = IF closing[u] = "open" THEN "sendMR" ELSE "done"
      /\ \A v \in Calls \ {u} : use'[v] = use[v]
  BY <1>1 DEF OwnInv, OwnTyped
<1>3. OwnTyped'
  BY <1>1, <1>2 DEF OwnInv, OwnTyped
<1>4. HoldsOf(u)'
  BY <1>1, SceneStays DEF OwnInv, Own, HoldsOf
<1>5. LifeOf(u)'
  BY <1>1, <1>2, SceneStays DEF OwnInv, Own, LifeOf
<1>6. CloseOf(u)'
  BY <1>1, <1>2 DEF OwnInv, Own, CloseOf
<1>7. Own(u)'
  BY <1>4, <1>5, <1>6 DEF Own
<1> QED
  BY <1>1, <1>2, <1>3, <1>7, OwnStep

(* Rings are registered by a first call that is under way; if Close has    *)
(* come as far as its list by then, the two have raced.                    *)
LEMMA OwnNewTransport == ASSUME OwnInv, NEW u \in Calls, NewTransport(u) PROVE OwnInv'
<1>1. /\ UNCHANGED <<scene, pc, qp, closing, left, raced>>
      /\ use[u] \in {"sendMR", "recvMR", "post"}
  BY DEF NewTransport
<1>2. PICK place \in {"recvMR", "post", "done"}, mine \in SUBSET Objects, built \in BOOLEAN :
        /\ use' = [use EXCEPT ![u] = place]
        /\ held' = [held EXCEPT ![u] = mine]
        /\ tr' = [tr EXCEPT ![u] = built]
        /\ mine \subseteq held[u] \cup Rings
        /\ built => place = "done"
        /\ mine \cap Rings # {} => built \/ place \in {"recvMR", "post"}
  <2>1. /\ held[u] \subseteq Objects /\ tr[u] \in BOOLEAN
        /\ held = [held EXCEPT ![u] = held[u]] /\ tr = [tr EXCEPT ![u] = tr[u]]
    BY DEF OwnInv, OwnTyped
  <2>2. tr[u] = FALSE
    BY <1>1, <2>1 DEF OwnInv, Own, LifeOf
  <2>3. CASE /\ held' = [held EXCEPT ![u] = @ \cup {"sendMR"}]
             /\ Use(u, "recvMR") /\ UNCHANGED tr
    <3>1. held[u] \cup {"sendMR"} \in SUBSET Objects
      BY <2>1 DEF Objects
    <3> QED
      BY <2>1, <2>2, <2>3, <3>1 DEF Use, Rings
  <2>4. CASE /\ held' = [held EXCEPT ![u] = @ \cup {"recvMR"}]
             /\ Use(u, "post") /\ UNCHANGED tr
    <3>1. held[u] \cup {"recvMR"} \in SUBSET Objects
      BY <2>1 DEF Objects
    <3> QED
      BY <2>1, <2>2, <2>4, <3>1 DEF Use, Rings
  <2>5. CASE tr' = [tr EXCEPT ![u] = TRUE] /\ Use(u, "done") /\ UNCHANGED held
    BY <2>1, <2>5 DEF Use
  <2>6. CASE /\ Use(u, "done") /\ held' = [held EXCEPT ![u] = @ \ {"sendMR", "recvMR"}]
             /\ UNCHANGED tr
    <3>1. /\ held[u] \ {"sendMR", "recvMR"} \in SUBSET Objects
          /\ (held[u] \ {"sendMR", "recvMR"}) \cap Rings = {}
      BY <2>1 DEF Rings
    <3> QED
      BY <2>1, <2>2, <2>6, <3>1 DEF Use
  <2> QED
    BY <2>3, <2>4, <2>5, <2>6 DEF NewTransport
<1>3. /\ use' \in [Calls -> {"none", "sendMR", "recvMR", "post", "done"}] /\ use'[u] = place
      /\ \A v \in Calls \ {u} : use'[v] = use[v]
  BY <1>2 DEF OwnInv, OwnTyped
<1>4. /\ held' \in [Calls -> SUBSET Objects] /\ held'[u] = mine
      /\ \A v \in Calls \ {u} : held'[v] = held[v]
  BY <1>2 DEF OwnInv, OwnTyped
<1>5. /\ tr' \in [Calls -> BOOLEAN] /\ tr'[u] = built
      /\ \A v \in Calls \ {u} : tr'[v] = tr[v]
  BY <1>2 DEF OwnInv, OwnTyped
<1>6. OwnTyped'
  BY <1>1, <1>3, <1>4, <1>5 DEF OwnInv, OwnTyped
<1>7. pc[u] = "up"
  BY <1>1 DEF OwnInv, Own, LifeOf
<1>8. HoldsOf(u)'
  BY <1>1, <1>2, <1>4, <1>7, SceneStays DEF OwnInv, Own, HoldsOf, Working
<1>9. LifeOf(u)'
  BY <1>1, <1>2, <1>3, <1>4, <1>5, <1>7, SceneStays DEF OwnInv, Own, LifeOf
<1>10. CloseOf(u)'
  <2>1. closing[u] \in {"closing", "done"} => raced[u]
    BY <1>1 DEF OwnInv, Own, CloseOf
  <2> QED
    BY <1>1, <2>1 DEF OwnInv, Own, CloseOf
<1>11. Own(u)'
  BY <1>8, <1>9, <1>10 DEF Own
<1> QED
  BY <1>1, <1>3, <1>4, <1>5, <1>6, <1>11, OwnStep

LEMMA OwnMark == ASSUME OwnInv, NEW u \in Calls, Mark(u) PROVE OwnInv'
<1>1. /\ UNCHANGED <<scene, pc, held, qp, use, tr, left, raced>>
      /\ kind \in {"Conn", "EventConn"} /\ pc[u] = "up"
      /\ closing' = [closing EXCEPT ![u] = "marked"]
  BY DEF Mark
<1>2. /\ closing' \in [Calls -> {"open", "marked", "waiting", "closing", "done"}]
      /\ closing'[u] = "marked" /\ \A v \in Calls \ {u} : closing'[v] = closing[v]
  BY <1>1 DEF OwnInv, OwnTyped
<1>3. OwnTyped'
  BY <1>1, <1>2 DEF OwnInv, OwnTyped
<1>4. HoldsOf(u)'
  BY <1>1, SceneStays DEF OwnInv, Own, HoldsOf
<1>5. LifeOf(u)' /\ CloseOf(u)'
  BY <1>1, <1>2, SceneStays DEF OwnInv, Own, LifeOf, CloseOf
<1>6. Own(u)'
  BY <1>4, <1>5 DEF Own
<1> QED
  BY <1>1, <1>2, <1>3, <1>6, OwnStep

LEMMA OwnWait == ASSUME OwnInv, NEW u \in Calls, WaitForSlot(u) PROVE OwnInv'
<1>1. /\ UNCHANGED <<scene, pc, held, qp, use, tr, left, raced>>
      /\ closing[u] = "marked"
      /\ closing' = [closing EXCEPT ![u] = "waiting"]
  BY DEF WaitForSlot
<1>2. /\ closing' \in [Calls -> {"open", "marked", "waiting", "closing", "done"}]
      /\ closing'[u] = "waiting" /\ \A v \in Calls \ {u} : closing'[v] = closing[v]
  BY <1>1 DEF OwnInv, OwnTyped
<1>3. OwnTyped'
  BY <1>1, <1>2 DEF OwnInv, OwnTyped
<1>4. HoldsOf(u)'
  BY <1>1, SceneStays DEF OwnInv, Own, HoldsOf
<1>5. LifeOf(u)' /\ CloseOf(u)'
  BY <1>1, <1>2, SceneStays DEF OwnInv, Own, LifeOf, CloseOf
<1>6. Own(u)'
  BY <1>4, <1>5 DEF Own
<1> QED
  BY <1>1, <1>2, <1>3, <1>6, OwnStep

LEMMA OwnShutdown == ASSUME OwnInv, NEW u \in Calls, Shutdown(u) PROVE OwnInv'
<1>1. /\ UNCHANGED <<scene, pc, qp, use, tr>> /\ closing[u] \in {"marked", "waiting"}
      /\ held' = [held EXCEPT ![u] = IF tr[u] THEN held[u] \ Rings ELSE held[u]]
      /\ raced' = [raced EXCEPT ![u] = use[u] \in {"sendMR", "recvMR", "post"}]
      /\ left' = [left EXCEPT ![u] = CloseOrder]
      /\ closing' = [closing EXCEPT ![u] = "closing"]
  BY DEF Shutdown
<1>2. /\ held' \in [Calls -> SUBSET Objects]
      /\ held'[u] = IF tr[u] THEN held[u] \ Rings ELSE held[u]
      /\ \A v \in Calls \ {u} : held'[v] = held[v]
  BY <1>1 DEF OwnInv, OwnTyped
<1>3. /\ raced' \in [Calls -> BOOLEAN]
      /\ raced'[u] = (use[u] \in {"sendMR", "recvMR", "post"})
      /\ \A v \in Calls \ {u} : raced'[v] = raced[v]
  BY <1>1 DEF OwnInv, OwnTyped
<1>4. /\ left' = [v \in Calls |-> left'[v]] /\ left'[u] = CloseOrder
      /\ \A v \in Calls \ {u} : left'[v] = left[v]
  BY <1>1 DEF OwnInv, OwnTyped
<1>5. /\ closing' \in [Calls -> {"open", "marked", "waiting", "closing", "done"}]
      /\ closing'[u] = "closing" /\ \A v \in Calls \ {u} : closing'[v] = closing[v]
  BY <1>1 DEF OwnInv, OwnTyped
<1>6. OwnTyped'
  BY <1>1, <1>2, <1>3, <1>4, <1>5 DEF OwnInv, OwnTyped
<1>7. /\ pc[u] = "up" /\ kind \in {"Conn", "EventConn"}
      /\ held[u] \subseteq ToSet(CloseOrder) \cup Rings
  BY <1>1, LadderMakes DEF OwnInv, Own, HoldsOf, LifeOf
<1>8. HoldsOf(u)'
  BY <1>1, <1>2, <1>7, SceneStays DEF OwnInv, Own, HoldsOf, Working
<1>9. LifeOf(u)'
  BY <1>1, <1>2, <1>5, <1>7, SceneStays DEF OwnInv, Own, LifeOf
<1>10. ~raced'[u] => use[u] \in {"none", "done"} /\ held'[u] \cap Rings = {}
  <2>1. use[u] \in {"none", "sendMR", "recvMR", "post", "done"}
    BY DEF OwnInv, OwnTyped
  <2> QED
    BY <1>2, <1>3, <2>1 DEF OwnInv, Own, LifeOf
<1>11. CloseOf(u)'
  <2>1. /\ left'[u] = SubSeq(CloseOrder, 1, Len(CloseOrder))
        /\ ToSet(CloseOrder) = {CloseOrder[i] : i \in 1 .. Len(CloseOrder)}
        /\ 1 \in 1 .. Len(CloseOrder) + 1
    BY <1>4, ConnOrder DEF ToSet
  <2>2. ~raced'[u] => held'[u] \subseteq {CloseOrder[i] : i \in 1 .. Len(CloseOrder)}
    BY <1>2, <1>7, <1>10, <2>1
  <2> QED
    BY <1>1, <1>5, <1>10, <2>1, <2>2 DEF CloseOf
<1>12. Own(u)'
  BY <1>8, <1>9, <1>11 DEF Own
<1> QED
  BY <1>1, <1>2, <1>3, <1>4, <1>5, <1>6, <1>12, OwnStep

(* One object of Close's list: nothing that is left needs it.              *)
LEMMA OwnCloseNext == ASSUME OwnInv, NEW u \in Calls, CloseNext(u) PROVE OwnInv'
<1>1. UNCHANGED <<scene, pc, use, tr, raced>> /\ closing[u] = "closing"
  BY DEF CloseNext
<1>2. /\ pc[u] = "up" /\ kind \in {"Conn", "EventConn"}
      /\ ~raced[u] => use[u] \in {"none", "done"} /\ held[u] \cap Rings = {}
  BY <1>1 DEF OwnInv, Own, LifeOf, CloseOf
<1>3. PICK k \in 1 .. Len(CloseOrder) + 1 :
        /\ left[u] = SubSeq(CloseOrder, k, Len(CloseOrder))
        /\ ~raced[u] => held[u] \subseteq {CloseOrder[i] : i \in k .. Len(CloseOrder)}
  BY <1>1 DEF OwnInv, Own, CloseOf
<1>4. CASE left[u] = <<>>
  <2>1. closing' = [closing EXCEPT ![u] = "done"] /\ UNCHANGED <<held, qp, left>>
    BY <1>4 DEF CloseNext
  <2>2. /\ closing' \in [Calls -> {"open", "marked", "waiting", "closing", "done"}]
        /\ closing'[u] = "done" /\ \A v \in Calls \ {u} : closing'[v] = closing[v]
    BY <2>1 DEF OwnInv, OwnTyped
  <2>3. OwnTyped'
    BY <1>1, <2>1, <2>2 DEF OwnInv, OwnTyped
  <2>4. k = Len(CloseOrder) + 1
    <3>1. Len(SubSeq(CloseOrder, k, Len(CloseOrder))) = 0
      BY <1>3, <1>4
    <3> QED
      BY <3>1, ConnOrder
  <2>5. ~raced[u] => held[u] = {}
    BY <1>3, <2>4, ConnOrder
  <2>6. HoldsOf(u)'
    BY <1>1, <2>1, SceneStays DEF OwnInv, Own, HoldsOf
  <2>7. LifeOf(u)' /\ CloseOf(u)'
    BY <1>1, <1>2, <2>1, <2>2, <2>5, SceneStays DEF OwnInv, Own, LifeOf, CloseOf
  <2>8. Own(u)'
    BY <2>6, <2>7 DEF Own
  <2> QED
    BY <1>1, <2>1, <2>2, <2>3, <2>8, OwnStep
<1>5. CASE left[u] # <<>>
  <2>1. /\ UNCHANGED closing
        /\ held' = [held EXCEPT ![u] = Destroy(held[u], Head(left[u]))]
        /\ left' = [left EXCEPT ![u] = Tail(left[u])]
        /\ qp' = IF "qp" \in held'[u] THEN qp ELSE [qp EXCEPT ![u] = "none"]
    BY <1>5 DEF CloseNext
  <2>2. /\ k \in 1 .. Len(CloseOrder) /\ k + 1 \in 1 .. Len(CloseOrder) + 1
        /\ Head(left[u]) = CloseOrder[k]
        /\ Tail(left[u]) = SubSeq(CloseOrder, k + 1, Len(CloseOrder))
    <3> DEFINE n == Len(CloseOrder)
               list == SubSeq(CloseOrder, k, n)
    <3>1. CloseOrder \in Seq(Objects) /\ n \in Nat /\ k \in 1 .. n + 1 /\ list # <<>>
      BY <1>3, <1>5, ConnOrder
    <3>2. k <= n
      BY <3>1
    <3>3. /\ Head(list) = CloseOrder[k] /\ Tail(list) = SubSeq(CloseOrder, k + 1, n)
          /\ k \in 1 .. n /\ k + 1 \in 1 .. n + 1
      <4> HIDE DEF n
      <4> QED
        BY <3>1, <3>2
    <3> QED
      BY <1>3, <3>3
  <2> DEFINE rest == Destroy(held[u], CloseOrder[k])
  <2>3. rest \subseteq held[u]
    BY DEF Destroy
  <2>4. ~raced[u] => rest \subseteq {CloseOrder[i] : i \in k + 1 .. Len(CloseOrder)}
    <3> SUFFICES ASSUME ~raced[u]
                 PROVE  rest \subseteq {CloseOrder[i] : i \in k + 1 .. Len(CloseOrder)}
      OBVIOUS
    <3>1. ASSUME NEW x \in held[u] PROVE CloseOrder[k] \notin Needs(x)
      <4>1. PICK i \in k .. Len(CloseOrder) : x = CloseOrder[i]
        BY <1>3, <3>1
      <4> QED
        BY <2>2, <4>1, ConnOrder DEF Safe
    <3>2. rest = held[u] \ {CloseOrder[k]}
      BY <3>1 DEF Destroy
    <3>3. \A i \in k .. Len(CloseOrder) : i = k \/ i \in k + 1 .. Len(CloseOrder)
      BY <2>2, ConnOrder
    <3> QED
      BY <1>3, <3>2, <3>3
  <2> HIDE DEF rest
  <2>5. held' = [held EXCEPT ![u] = rest]
    BY <2>1, <2>2 DEF rest
  <2>6. /\ held' \in [Calls -> SUBSET Objects] /\ held'[u] = rest
        /\ \A v \in Calls \ {u} : held'[v] = held[v]
    BY <2>3, <2>5 DEF OwnInv, OwnTyped
  <2>7. /\ left' = [v \in Calls |-> left'[v]]
        /\ left'[u] = SubSeq(CloseOrder, k + 1, Len(CloseOrder))
        /\ \A v \in Calls \ {u} : left'[v] = left[v]
    BY <2>1, <2>2 DEF OwnInv, OwnTyped
  <2>8. /\ qp' \in [Calls -> {"none", "reset", "init", "rtr", "rts"}]
        /\ \A v \in Calls \ {u} : qp'[v] = qp[v]
    BY <2>1 DEF OwnInv, OwnTyped
  <2>9. OwnTyped'
    BY <1>1, <2>1, <2>6, <2>7, <2>8 DEF OwnInv, OwnTyped
  <2>10. HoldsOf(u)'
    BY <1>1, <1>2, <2>3, <2>6, SceneStays DEF OwnInv, Own, HoldsOf, Working
  <2>11. LifeOf(u)'
    BY <1>1, <2>1, <2>3, <2>6, SceneStays DEF OwnInv, Own, LifeOf
  <2>12. CloseOf(u)'
    <3>1. ~raced[u] => held'[u] \cap Rings = {}
      BY <1>2, <2>3, <2>6
    <3> QED
      BY <1>1, <1>2, <2>1, <2>2, <2>4, <2>6, <2>7, <3>1 DEF CloseOf
  <2>13. Own(u)'
    BY <2>10, <2>11, <2>12 DEF Own
  <2> QED
    BY <1>1, <2>1, <2>6, <2>7, <2>8, <2>9, <2>13, OwnStep
<1> QED
  BY <1>4, <1>5

LEMMA OwnNext == OwnInv /\ [Next]_vars => OwnInv'
<1> SUFFICES ASSUME OwnInv, [Next]_vars PROVE OwnInv'
  OBVIOUS
<1>1. CASE \E p \in Calls : Build(p) \/ SetUp(p)
  BY <1>1, OwnBuild, OwnSetUp
<1>2. CASE CloseListener \/ UNCHANGED vars
  <2>1. UNCHANGED <<scene, pc, held, qp, life>>
    BY <1>2 DEF CloseListener, vars
  <2>2. OwnTyped'
    BY <2>1 DEF OwnInv, OwnTyped, life
  <2>3. ASSUME NEW p \in Calls PROVE Own(p)'
    BY <2>1, SceneStays DEF OwnInv, Own, HoldsOf, LifeOf, CloseOf, life
  <2> QED
    BY <2>2, <2>3 DEF OwnInv
<1>3. CASE \E u \in Calls : FirstCall(u) \/ NewTransport(u) \/ Mark(u) \/ Close(u)
  BY <1>3, OwnFirstCall, OwnNewTransport, OwnMark, OwnWait, OwnShutdown, OwnCloseNext
     DEF Close
<1> QED
  BY <1>1, <1>2, <1>3 DEF Next

(* Whatever step fails, of any number of calls, and whenever a Conn is     *)
(* closed that no first call is building a transport for: everything the   *)
(* call had made is destroyed (handshake_linux.go:28-37,                   *)
(* conn_linux.go:361-366).                                                 *)
THEOREM NothingIsLeaked == Spec => []NothingLeaks
<1>1. OwnInv => NothingLeaks
  BY DEF OwnInv, Own, HoldsOf, CloseOf, NothingLeaks, FailedHoldsNothing, ClosedHoldsNothing
<1> QED
  BY OwnInit, OwnNext, <1>1, PTL DEF Spec

(* perftest listens during an exchange only.                               *)
Listens ==
  /\ wrote \subseteq Calls
  /\ kind = "perftest" /\ listening =>
       \E a \in Accepts : pc[a] \in {"accept", "write", "read"}

LEMMA ListensOn ==
  ASSUME Listens, UNCHANGED scene, wrote' \subseteq Calls,
         kind = "perftest" /\ listening' =>
           /\ listening
           /\ \A a \in Accepts :
                pc[a] \in {"accept", "write", "read"} => pc'[a] \in {"accept", "write", "read"}
  PROVE  Listens'
BY SceneStays DEF Listens

LEMMA ListensNext == IInv /\ Listens /\ [Next]_vars => Listens'
<1> SUFFICES ASSUME IInv, Listens, [Next]_vars PROVE Listens'
  OBVIOUS
<1>0. pc \in [Calls -> Places] /\ wrote \subseteq Calls /\ Accepts \subseteq Calls
  BY DEF IInv, Typed, Listens, Calls
<1>1. ASSUME NEW p \in Calls, NEW place, Go(p, place), pc[p] \notin {"accept", "write", "read"}
      PROVE  \A a \in Accepts :
               pc[a] \in {"accept", "write", "read"} => pc'[a] \in {"accept", "write", "read"}
  BY <1>0, <1>1 DEF Go
<1>2. ASSUME NEW p \in Calls, Build(p) PROVE Listens'
  <2>1. UNCHANGED <<scene, listening, wrote>> /\ pc[p] = "idle"
    BY <1>2 DEF Build, tcp
  <2>2. \E place : Go(p, place)
    BY <1>2 DEF Build
  <2> QED
    BY <1>0, <1>1, <2>1, <2>2, ListensOn
<1>3. ASSUME NEW p \in Calls, SetUp(p) PROVE Listens'
  <2>1. UNCHANGED scene
    BY <1>3 DEF SetUp, Bind, Connect, Take, Write, Read, BringUp
  <2>2. CASE p \in Dialers
    <3>1. /\ \E place : Go(p, place) \/ UNCHANGED pc
          /\ p \notin Accepts /\ UNCHANGED listening /\ wrote' \subseteq wrote \cup {p}
      BY <1>3, <2>2, SetupAssumption
         DEF SetupAssumption, SetUp, Connect, Write, Read, BringUp, Fail, EndExchange, tcp
    <3>2. \A a \in Accepts : pc'[a] = pc[a]
      BY <1>0, <3>1 DEF Go
    <3> QED
      BY <1>0, <2>1, <3>1, <3>2, ListensOn
  <2>3. CASE p \notin Dialers /\ Bind(p)
    <3>1. /\ \E place : Go(p, place)
          /\ pc[p] = "bind" /\ UNCHANGED wrote
      BY <2>3 DEF Bind, Fail
    <3>2. CASE listening
      <4>1. UNCHANGED listening
        BY <2>3, <3>2 DEF Bind
      <4> QED
        BY <1>0, <1>1, <2>1, <3>1, <4>1, ListensOn
    <3>3. CASE ~listening
      <4>1. Go(p, "accept") /\ p \in Accepts
        BY <2>3, <3>3 DEF Bind, Calls
      <4>2. pc'[p] = "accept"
        BY <1>0, <4>1 DEF Go
      <4> QED
        BY <1>0, <3>1, <4>1, <4>2 DEF Listens
    <3> QED
      BY <3>2, <3>3
  <2>4. CASE p \notin Dialers /\ Take(p)
    <3>1. CASE Go(p, "write") /\ UNCHANGED listening /\ UNCHANGED wrote
      <4>1. \A a \in Accepts :
              pc[a] \in {"accept", "write", "read"} => pc'[a] \in {"accept", "write", "read"}
        BY <1>0, <3>1 DEF Go
      <4> QED
        BY <1>0, <2>1, <3>1, <4>1, ListensOn
    <3>2. CASE ~listening /\ UNCHANGED listening /\ UNCHANGED wrote
      BY <1>0, <2>1, <3>2, ListensOn
    <3> QED
      BY <2>4, <3>1, <3>2 DEF Take
  <2>5. CASE p \notin Dialers /\ (Write(p) \/ Read(p))
    <3>1. wrote' \subseteq wrote \cup {p} /\ p \in Accepts
      BY <2>5 DEF Write, Read, Calls
    <3>2. CASE EndExchange(p)
      <4>1. kind = "perftest" => ~listening'
        BY <3>1, <3>2 DEF EndExchange
      <4> QED
        BY <1>0, <2>1, <3>1, <4>1, ListensOn
    <3>3. CASE Write(p) /\ Go(p, "read") /\ UNCHANGED listening
      <4>1. \A a \in Accepts :
              pc[a] \in {"accept", "write", "read"} => pc'[a] \in {"accept", "write", "read"}
        BY <1>0, <3>3 DEF Go
      <4> QED
        BY <1>0, <2>1, <3>1, <3>3, <4>1, ListensOn
    <3> QED
      BY <2>5, <3>2, <3>3 DEF Write, Read
  <2>6. CASE p \notin Dialers /\ BringUp(p)
    <3>1. UNCHANGED <<listening, wrote>> /\ pc[p] = "bringUp"
      BY <2>6 DEF BringUp, tcp
    <3>2. \E place : Go(p, place) \/ UNCHANGED pc
      BY <2>6 DEF BringUp, Fail
    <3> QED
      BY <1>0, <1>1, <2>1, <3>1, <3>2, ListensOn
  <2> QED
    BY <1>3, <2>2, <2>3, <2>4, <2>5, <2>6 DEF SetUp
<1>4. CASE CloseListener
  <2>1. UNCHANGED <<scene, wrote>> /\ ~listening'
    BY <1>4 DEF CloseListener
  <2> QED
    BY <1>0, <2>1, ListensOn
<1>5. CASE \/ \E u \in Calls : FirstCall(u) \/ NewTransport(u) \/ Mark(u) \/ Close(u)
           \/ UNCHANGED vars
  <2>1. UNCHANGED <<scene, pc, listening, wrote>>
    BY <1>5 DEF FirstCall, NewTransport, Mark, Close, WaitForSlot, Shutdown, CloseNext, vars, tcp
  <2> QED
    BY <1>0, <2>1, ListensOn
<1> QED
  BY <1>2, <1>3, <1>4, <1>5 DEF Next

(* For every scene and number of calls, the types, and that perftest's     *)
(* listener is open during an exchange only (connect.go:94-106).           *)
THEOREM TypeCorrect == Spec => []TypeOK
<1>1. Init => Listens
  BY DEF Init, Listens
<1>2. IInv /\ OwnInv /\ Listens => TypeOK
  <2> SUFFICES ASSUME IInv, OwnInv, Listens PROVE TypeOK
    OBVIOUS
  <2>1. \A p \in Calls : held[p] \subseteq Objects
    BY DEF OwnInv, OwnTyped
  <2> QED
    BY <2>1 DEF IInv, Typed, OwnInv, OwnTyped, Listens, TypeOK, Places
<1> QED
  BY InitIInv, NextKeeps, OwnInit, OwnNext, ListensNext, <1>1, <1>2, PTL DEF Spec

-----------------------------------------------------------------------------
(* Connections set up by rdma_cm. Its queue of events: what Accept takes   *)
(* from it and what goes with an id.                                       *)
Event == {"CONNECT_REQUEST", "ESTABLISHED", "DISCONNECTED"} \X Clients

(* A request comes once, and so does the end of a handshake.               *)
Once(queue) ==
  \A i, j \in 1 .. Len(queue) :
    queue[i] = queue[j] /\ queue[i][1] # "DISCONNECTED" => i = j

LEMMA OnAppend ==
  ASSUME NEW queue \in Seq(Event), NEW event \in Event
  PROVE  /\ Append(queue, event) \in Seq(Event)
         /\ \A e : Contains(Append(queue, event), e) <=> Contains(queue, e) \/ e = event
         /\ Once(queue) /\ (event[1] = "DISCONNECTED" \/ ~Contains(queue, event))
              => Once(Append(queue, event))
<1> DEFINE longer == Append(queue, event)
           n == Len(queue)
<1>1. /\ longer \in Seq(Event) /\ n \in Nat /\ Len(longer) = n + 1
      /\ longer[n + 1] = event /\ \A i \in 1 .. n : longer[i] = queue[i]
      /\ 1 .. n + 1 = (1 .. n) \cup {n + 1}
  OBVIOUS
<1> HIDE DEF longer, n
<1>2. \A e : Contains(longer, e) <=> Contains(queue, e) \/ e = event
  BY <1>1 DEF Contains, n
<1>3. ASSUME Once(queue), event[1] = "DISCONNECTED" \/ ~Contains(queue, event)
      PROVE  Once(longer)
  BY <1>1, <1>3 DEF Once, Contains, n
<1> QED
  BY <1>1, <1>2, <1>3 DEF longer

LEMMA OnTail ==
  ASSUME NEW queue \in Seq(Event), queue # <<>>, Once(queue)
  PROVE  /\ Head(queue) \in Event /\ Contains(queue, Head(queue))
         /\ Tail(queue) \in Seq(Event) /\ Once(Tail(queue))
         /\ \A e \in Event : e[1] # "DISCONNECTED" =>
              (Contains(Tail(queue), e) <=> Contains(queue, e) /\ e # Head(queue))
<1> DEFINE rest == Tail(queue)
           n == Len(queue)
<1>1. /\ rest \in Seq(Event) /\ n \in Nat \ {0} /\ Len(rest) = n - 1
      /\ Head(queue) = queue[1] /\ Head(queue) \in Event
      /\ \A i \in 1 .. n - 1 : rest[i] = queue[i + 1]
  OBVIOUS
<1> HIDE DEF rest, n
<1>2. Contains(queue, Head(queue))
  BY <1>1 DEF Contains, n
<1>3. Once(rest)
  <2> SUFFICES ASSUME NEW i \in 1 .. n - 1, NEW j \in 1 .. n - 1,
                      rest[i] = rest[j], rest[i][1] # "DISCONNECTED"
               PROVE  i = j
    BY <1>1 DEF Once
  <2>0. n \in Nat /\ n # 0
    BY <1>1
  <2>1. i + 1 \in 1 .. n /\ j + 1 \in 1 .. n
    BY <2>0
  <2>2. i + 1 = j + 1
    BY <1>1, <2>1 DEF Once, n
  <2> QED
    BY <1>1, <2>2
<1>4. ASSUME NEW e \in Event, e[1] # "DISCONNECTED"
      PROVE  Contains(rest, e) <=> Contains(queue, e) /\ e # Head(queue)
  <2>1. ASSUME Contains(rest, e) PROVE Contains(queue, e) /\ e # Head(queue)
    <3>1. PICK i \in 1 .. n - 1 : rest[i] = e
      BY <1>1, <2>1 DEF Contains
    <3>2. i + 1 \in 1 .. n /\ queue[i + 1] = e /\ 1 \in 1 .. n /\ i + 1 # 1
      BY <1>1, <3>1
    <3> QED
      BY <1>1, <1>4, <3>2 DEF Contains, Once, n
  <2>2. ASSUME Contains(queue, e), e # Head(queue) PROVE Contains(rest, e)
    <3>1. PICK i \in 1 .. n : queue[i] = e
      BY <2>2 DEF Contains, n
    <3>2. i # 1
      BY <1>1, <2>2, <3>1
    <3>3. i - 1 \in 1 .. n - 1 /\ rest[i - 1] = e
      BY <1>1, <3>1, <3>2
    <3> QED
      BY <1>1, <3>3 DEF Contains
  <2> QED
    BY <2>1, <2>2
<1> QED
  BY <1>1, <1>2, <1>3, <1>4 DEF rest

(* The events of an id are withdrawn, and no others. By induction over the *)
(* queue, of which what is kept is an enumeration of the rest.             *)
LEMMA OnWithdraw ==
  ASSUME NEW c, NEW queue \in Seq(Event)
  PROVE  /\ Withdraw(c, queue) \in Seq(Event)
         /\ Once(queue) => Once(Withdraw(c, queue))
         /\ \A e \in Event :
              Contains(Withdraw(c, queue), e) <=> Contains(queue, e) /\ e[2] # c
<1> DEFINE L == Len(queue)
           Step(s, n) == IF queue[n][2] = c THEN s ELSE Append(s, queue[n])
           Rec(f, m) == [n \in 0 .. m |-> IF n = 0 THEN <<>> ELSE Step(f[n - 1], n)]
           kept == CHOOSE f : f = Rec(f, L)
<1>0. L \in Nat
  OBVIOUS
<1>1. Withdraw(c, queue) = kept[L]
  BY DEF Withdraw, Of
<1>2. \E f : f = Rec(f, L)
  <2> DEFINE S == {m \in Nat : \E f : f = Rec(f, m)}
  <2>1. 0 \in S
    <3> DEFINE f == [n \in 0 .. 0 |-> <<>>]
    <3>1. f = Rec(f, 0)
      OBVIOUS
    <3> QED
      BY <3>1
  <2>2. ASSUME NEW m \in S PROVE m + 1 \in S
    <3>1. PICK f : f = Rec(f, m)
      OBVIOUS
    <3> DEFINE g == [n \in 0 .. m + 1 |-> IF n <= m THEN f[n] ELSE Step(f[m], m + 1)]
    <3>2. m \in Nat /\ m + 1 \in Nat /\ m \in 0 .. m + 1
      OBVIOUS
    <3>3. \A n \in 0 .. m : f[n] = IF n = 0 THEN <<>> ELSE Step(f[n - 1], n)
      <4> HIDE DEF Step
      <4> QED
        BY <3>1
    <3>4. \A n \in 0 .. m : g[n] = f[n]
      <4> HIDE DEF Step
      <4> QED
        BY <3>2
    <3>5. g[m + 1] = Step(f[m], m + 1)
      <4> HIDE DEF Step
      <4> QED
        BY <3>2
    <3>6. ASSUME NEW n \in 0 .. m + 1
          PROVE  g[n] = IF n = 0 THEN <<>> ELSE Step(g[n - 1], n)
      <4>1. CASE n <= m
        <5>1. n \in 0 .. m /\ (n # 0 => n - 1 \in 0 .. m)
          BY <3>2, <3>6, <4>1
        <5> HIDE DEF g, Step
        <5> QED
          BY <3>3, <3>4, <5>1
      <4>2. CASE ~(n <= m)
        <5>1. n = m + 1 /\ n # 0 /\ n - 1 = m /\ m \in 0 .. m
          BY <3>2, <3>6, <4>2
        <5> HIDE DEF g, Step
        <5> QED
          BY <3>4, <3>5, <5>1
      <4> QED
        BY <4>1, <4>2
    <3>7. g = [n \in 0 .. m + 1 |-> g[n]]
      OBVIOUS
    <3>8. g = Rec(g, m + 1)
      <4> HIDE DEF g, Step
      <4> QED
        BY <3>6, <3>7
    <3> HIDE DEF g, Rec
    <3> QED
      BY <3>2, <3>8
  <2>3. S \in SUBSET Nat
    OBVIOUS
  <2> HIDE DEF S
  <2>4. L \in S
    BY <1>0, <2>1, <2>2, <2>3, NaturalInduction
  <2> QED
    BY <2>4 DEF S
<1>3. kept = Rec(kept, L)
  <2> HIDE DEF Rec
  <2> QED
    BY <1>2
<1>4. kept[0] = <<>> /\ \A n \in 1 .. L : kept[n] = Step(kept[n - 1], n)
  <2> HIDE DEF kept, Step, L
  <2> QED
    BY <1>0, <1>3
<1> HIDE DEF kept
<1> DEFINE Rest(n) == {i \in 1 .. n : queue[i][2] # c}
           Lists(s, n, f) == /\ f \in [1 .. Len(s) -> Rest(n)]
                             /\ \A k \in 1 .. Len(s) : s[k] = queue[f[k]]
                             /\ \A j, k \in 1 .. Len(s) : f[j] = f[k] => j = k
                             /\ \A i \in Rest(n) : \E k \in 1 .. Len(s) : f[k] = i
           Right(n) == kept[n] \in Seq(Event) /\ \E f : Lists(kept[n], n, f)
<1>5. ASSUME NEW n \in 0 .. L - 1, Right(n) PROVE Right(n + 1)
  <2>1. /\ n \in Nat /\ n + 1 \in 1 .. L /\ queue[n + 1] \in Event
        /\ kept[n + 1] = Step(kept[n], n + 1)
    BY <1>0, <1>4
  <2>2. PICK f : Lists(kept[n], n, f)
    BY <1>5
  <2> DEFINE s == kept[n]
             t == Append(s, queue[n + 1])
             m == Len(s)
             g == [k \in 1 .. m + 1 |-> IF k <= m THEN f[k] ELSE n + 1]
  <2>3. s \in Seq(Event) /\ m \in Nat
    BY <1>5
  <2>4. \A i \in 1 .. n + 1 : i \in 1 .. n \/ i = n + 1
    BY <2>1
  <2>5. CASE queue[n + 1][2] = c
    <3>1. kept[n + 1] = s
      BY <2>1, <2>5
    <3>2. Rest(n + 1) = Rest(n)
      BY <2>1, <2>4, <2>5
    <3> HIDE DEF s, Rest
    <3> QED
      BY <2>2, <2>3, <3>1, <3>2 DEF s
  <2>6. CASE queue[n + 1][2] # c
    <3>1. kept[n + 1] = t
      BY <2>1, <2>6
    <3>2. Rest(n + 1) = Rest(n) \cup {n + 1} /\ n + 1 \notin Rest(n)
      BY <2>1, <2>4, <2>6
    <3>3. /\ t \in Seq(Event) /\ Len(t) = m + 1 /\ t[m + 1] = queue[n + 1]
          /\ \A k \in 1 .. m : t[k] = s[k]
      BY <2>1, <2>3
    <3>4. \A k \in 1 .. m + 1 : k \in 1 .. m \/ (k = m + 1 /\ k \notin 1 .. m)
      <4> HIDE DEF m
      <4> QED
        BY <2>3
    <3>5. m + 1 \in 1 .. m + 1 /\ \A k \in 1 .. m : k \in 1 .. m + 1
      <4> HIDE DEF m
      <4> QED
        BY <2>3
    <3>6. g[m + 1] = n + 1 /\ \A k \in 1 .. m : g[k] = f[k]
      BY <2>3, <3>5
    <3>7. /\ f \in [1 .. m -> Rest(n)]
          /\ \A k \in 1 .. m : s[k] = queue[f[k]]
          /\ \A j, k \in 1 .. m : f[j] = f[k] => j = k
          /\ \A i \in Rest(n) : \E k \in 1 .. m : f[k] = i
      BY <2>2
    <3>8. g = [k \in 1 .. m + 1 |-> g[k]]
      OBVIOUS
    <3> HIDE DEF s, t, m, g, Rest
    <3>9. \A k \in 1 .. m : g[k] \in Rest(n)
      BY <3>6, <3>7
    <3>10. g \in [1 .. m + 1 -> Rest(n + 1)]
      <4>1. \A k \in 1 .. m + 1 : g[k] \in Rest(n + 1)
        BY <3>2, <3>4, <3>6, <3>9
      <4> QED
        BY <3>8, <4>1
    <3>11. \A k \in 1 .. m + 1 : t[k] = queue[g[k]]
      BY <3>3, <3>4, <3>6, <3>7
    <3>12. \A j, k \in 1 .. m + 1 : g[j] = g[k] => j = k
      BY <3>2, <3>4, <3>6, <3>7, <3>9
    <3>13. \A i \in Rest(n + 1) : \E k \in 1 .. m + 1 : g[k] = i
      BY <3>2, <3>5, <3>6, <3>7
    <3>14. Lists(t, n + 1, g)
      BY <3>3, <3>10, <3>11, <3>12, <3>13
    <3> HIDE DEF Lists
    <3> QED
      BY <3>1, <3>3, <3>14
  <2> QED
    BY <2>5, <2>6
<1>6. Right(0)
  <2>1. Lists(<<>>, 0, [k \in 1 .. 0 |-> 0])
    OBVIOUS
  <2> HIDE DEF Lists
  <2> QED
    BY <1>4, <2>1
<1>7. Right(L)
  <2> DEFINE S == {n \in Nat : n <= L => Right(n)}
  <2>1. 0 \in S
    BY <1>6
  <2>2. ASSUME NEW n \in S PROVE n + 1 \in S
    <3>1. CASE n + 1 <= L
      <4>1. n \in 0 .. L - 1 /\ n <= L
        BY <1>0, <3>1
      <4> HIDE DEF Right, L
      <4> QED
        BY <1>5, <2>2, <4>1
    <3>2. CASE ~(n + 1 <= L)
      BY <2>2, <3>2
    <3> QED
      BY <3>1, <3>2
  <2>3. S \in SUBSET Nat
    OBVIOUS
  <2> HIDE DEF S
  <2>4. L \in S
    BY <1>0, <2>1, <2>2, <2>3, NaturalInduction
  <2> HIDE DEF Right, L
  <2> QED
    BY <1>0, <2>4 DEF S
<1> DEFINE w == Withdraw(c, queue)
<1>8. PICK f : w \in Seq(Event) /\ Lists(w, L, f)
  <2> HIDE DEF Lists
  <2> QED
    BY <1>1, <1>7
<1>9. Len(w) \in Nat /\ f \in [1 .. Len(w) -> Rest(L)]
  BY <1>8
<1> HIDE DEF w
<1>10. \A k \in 1 .. Len(w) : f[k] \in 1 .. L /\ queue[f[k]][2] # c
  BY <1>9
<1>11. Once(queue) => Once(w)
  BY <1>8, <1>10 DEF Once
<1>12. ASSUME NEW e \in Event PROVE Contains(w, e) <=> Contains(queue, e) /\ e[2] # c
  <2>1. ASSUME Contains(w, e) PROVE Contains(queue, e) /\ e[2] # c
    BY <1>8, <1>10, <2>1 DEF Contains
  <2>2. ASSUME Contains(queue, e), e[2] # c PROVE Contains(w, e)
    <3>1. PICK i \in 1 .. L : queue[i] = e
      BY <2>2 DEF Contains
    <3>2. i \in Rest(L)
      BY <2>2, <3>1
    <3>3. PICK k \in 1 .. Len(w) : f[k] = i
      BY <1>8, <3>2
    <3>4. w[k] = e
      BY <1>8, <3>1, <3>3
    <3> QED
      BY <3>4 DEF Contains
  <2> QED
    BY <2>1, <2>2
<1> QED
  BY <1>8, <1>11, <1>12 DEF w

-----------------------------------------------------------------------------
(* The objects of both sides are destroyed in a safe order.                *)
CMObjects == {"qp", "cq", "pd", "id", "ec"}

LEMMA CMClosed == ASSUME NEW made \in SUBSET CMObjects PROVE IdClosed[made] = {}
<1>1. CMCloseOrder \in Seq(CMObjects) /\ Len(CMCloseOrder) = 5
  BY DEF CMCloseOrder, CMObjects
<1>2. /\ CMCloseOrder[1] = "qp" /\ CMCloseOrder[2] = "cq" /\ CMCloseOrder[3] = "pd"
      /\ CMCloseOrder[4] = "id" /\ CMCloseOrder[5] = "ec"
  BY DEF CMCloseOrder
<1>3. Needs("id") = {"ec"} /\ Needs("ec") = {}
  BY DEF Needs
<1>4. Safe(CMCloseOrder)
  BY <1>1, <1>2, <1>3, NeedsOfEach DEF Safe
<1>5. ToSet(CMCloseOrder) = CMObjects
  BY <1>1, <1>2 DEF ToSet, CMObjects
<1>6. Surviving(CMCloseOrder, made) = {}
  BY <1>1, <1>4, <1>5, SafeOrder
<1>7. IdClosed[made] = Surviving(CMCloseOrder, made)
  BY <1>5 DEF IdClosed, DestroyAll, ToSet
<1> QED
  BY <1>6, <1>7

(* What a Dial is told.                                                    *)
Answer == {"ESTABLISHED", "UNREACHABLE", "REJECTED", "DISCONNECTED"}

LEMMA OnTell ==
  ASSUME NEW queue \in Seq(Answer), NEW event \in Answer
  PROVE  /\ Append(queue, event) \in Seq(Answer) /\ Append(queue, event) # <<>>
         /\ Len(Append(queue, event)) = Len(queue) + 1
         /\ Head(Append(queue, event)) = IF queue = <<>> THEN event ELSE Head(queue)
         /\ \A e : Contains(Append(queue, event), e) <=> Contains(queue, e) \/ e = event
<1> DEFINE longer == Append(queue, event)
           n == Len(queue)
<1>1. /\ longer \in Seq(Answer) /\ n \in Nat /\ Len(longer) = n + 1
      /\ longer[n + 1] = event /\ \A i \in 1 .. n : longer[i] = queue[i]
      /\ 1 .. n + 1 = (1 .. n) \cup {n + 1}
      /\ Head(longer) = longer[1] /\ (queue # <<>> => Head(queue) = queue[1])
      /\ queue = <<>> <=> n = 0
  OBVIOUS
<1>2. longer # <<>>
  BY <1>1
<1> HIDE DEF longer, n
<1>3. \A e : Contains(longer, e) <=> Contains(queue, e) \/ e = event
  BY <1>1 DEF Contains, n
<1>4. Head(longer) = IF queue = <<>> THEN event ELSE Head(queue)
  BY <1>1
<1> QED
  BY <1>1, <1>2, <1>3, <1>4 DEF longer, n

LEMMA OnHeard ==
  ASSUME NEW queue \in Seq(Answer), queue # <<>>
  PROVE  /\ Head(queue) \in Answer /\ Contains(queue, Head(queue))
         /\ Tail(queue) \in Seq(Answer) /\ Len(queue) \in Nat
         /\ Len(Tail(queue)) = Len(queue) - 1
         /\ \A e : Contains(Tail(queue), e) => Contains(queue, e)
<1> DEFINE n == Len(queue)
           rest == Tail(queue)
<1>1. /\ n \in Nat /\ n # 0 /\ Len(rest) = n - 1 /\ rest \in Seq(Answer)
      /\ Head(queue) = queue[1] /\ Head(queue) \in Answer
      /\ \A i \in 1 .. n - 1 : rest[i] = queue[i + 1]
  OBVIOUS
<1> HIDE DEF n, rest
<1>2. \A e : Contains(rest, e) => Contains(queue, e)
  <2> SUFFICES ASSUME NEW i \in 1 .. n - 1 PROVE \E j \in 1 .. n : queue[j] = rest[i]
    BY <1>1 DEF Contains, n
  <2>1. i + 1 \in 1 .. n
    BY <1>1
  <2> QED
    BY <1>1, <2>1
<1>3. Contains(queue, Head(queue))
  BY <1>1 DEF Contains, n
<1> QED
  BY <1>1, <1>2, <1>3 DEF n, rest

-----------------------------------------------------------------------------
(* The inductive invariant of the set-up by rdma_cm.                       *)
CMTyped ==
  /\ dial \in [Clients -> {"idle", "connect", "wait", "up", "failed", "abandoned", "closed"}]
  /\ has \in [Clients -> SUBSET CMObjects]
  /\ inbox \in [Clients -> Seq(Answer)]
  /\ link \in [Clients -> {"none", "requested", "replied", "rtu", "done", "dead"}]
  /\ srvHas \in [Clients -> SUBSET {"id", "pd", "cq", "qp"}]
  /\ acc \in {"idle", "request", "build", "accept", "established"}
  /\ cur \in Clients \cup {NoClient}
  /\ accepts \in 0 .. MaxAccepts
  /\ accepted \subseteq Clients
  /\ events \in Seq(Event) /\ Once(events)

(* What Accept works on is asked for, and not yet returned.                *)
Accepting ==
  /\ cur = NoClient <=> acc \in {"idle", "request"}
  /\ cur \notin conns /\ conns \subseteq accepted
  /\ acc = "established" => cur \in accepted

Asked(c)     == Contains(events, <<"CONNECT_REQUEST", c>>)
Confirmed(c) == Contains(events, <<"ESTABLISHED", c>>)

(* The Dial knows that its connection is established, or will at its next  *)
(* event.                                                                  *)
Told(c) ==
  \/ dial[c] \in {"up", "closed"}
  \/ inbox[c] # <<>> /\ Head(inbox[c]) = "ESTABLISHED"

(* How far the handshake has come, seen from the Dial: it is told nothing  *)
(* before the REP, and of success only if it was accepted.                 *)
DialSide(c) ==
  /\ dial[c] \in {"idle", "connect", "failed"} => link[c] = "none"
  /\ dial[c] \in {"failed", "closed"} => has[c] = {}
  /\ link[c] \in {"requested", "replied"} => dial[c] = "wait"
  /\ link[c] \in {"none", "requested", "replied"} => inbox[c] = <<>>
  /\ link[c] \in {"rtu", "done"} => Len(inbox[c]) <= 1
  /\ Len(inbox[c]) <= 2
  /\ dial[c] \in {"up", "closed"} \/ Contains(inbox[c], "ESTABLISHED") => c \in accepted

(* And from the listener: between rdma_accept and the end of the handshake *)
(* a connection is the one Accept works on, so the end it reads is of that *)
(* one, whose Dial was told before.                                        *)
ServerSide(c) ==
  /\ link[c] = "none" => ~Asked(c) /\ c \notin accepted /\ c # cur /\ srvHas[c] = {}
  /\ link[c] \in {"replied", "rtu", "done"} => c \in accepted
  /\ link[c] \in {"replied", "rtu"} => cur = c /\ acc = "established"
  /\ Confirmed(c) => cur = c /\ acc = "established" /\ link[c] \in {"done", "dead"}
  /\ link[c] \in {"rtu", "done"} \/ Confirmed(c) \/ c \in conns => Told(c)
  /\ Asked(c) => c # cur /\ c \notin accepted /\ srvHas[c] = {"id"}
  /\ srvHas[c] \ {"id"} # {} => c \in conns \/ c = cur
  /\ open = TRUE /\ srvHas[c] # {} => c \in conns \cup dropped \/ c = cur \/ Asked(c)

CMInv ==
  /\ CMTyped /\ Accepting
  /\ \A c \in Clients : DialSide(c) /\ ServerSide(c)

LEMMA CMFresh ==
  ASSUME CMAssumption, CMInit PROVE CMInv
<1>1. CMTyped
  <2>1. <<>> \in Seq(Event) /\ <<>> \in Seq(Answer) /\ Once(<<>>)
    BY DEF Once
  <2> QED
    BY <2>1 DEF CMInit, CMAssumption, CMTyped
<1>2. Accepting
  BY DEF CMInit, Accepting
<1>3. ASSUME NEW c \in Clients PROVE DialSide(c) /\ ServerSide(c)
  <2>1. ~Asked(c) /\ ~Confirmed(c) /\ ~Contains(inbox[c], "ESTABLISHED") /\ Len(inbox[c]) = 0
    BY DEF CMInit, Asked, Confirmed, Contains
  <2>2. c # cur
    BY DEF CMInit, CMAssumption
  <2>3. DialSide(c)
    BY <2>1 DEF CMInit, DialSide
  <2>4. ServerSide(c)
    BY <2>1, <2>2 DEF CMInit, ServerSide
  <2> QED
    BY <2>3, <2>4
<1> QED
  BY <1>1, <1>2, <1>3 DEF CMInv

(* A client that a step only passes by.                                    *)
LEMMA Unmoved ==
  ASSUME NEW d \in Clients, DialSide(d),
         dial'[d] = dial[d], has'[d] = has[d], inbox'[d] = inbox[d], link'[d] = link[d],
         d \in accepted => d \in accepted'
  PROVE  DialSide(d)'
BY DEF DialSide

LEMMA PassedBy ==
  ASSUME NEW d \in Clients, ServerSide(d),
         dial'[d] = dial[d], inbox'[d] = inbox[d], link'[d] = link[d],
         srvHas'[d] = srvHas[d], d \in accepted <=> d \in accepted', d \in conns <=> d \in conns',
         cur' = d <=> cur = d, cur = d => acc' = acc, open' = TRUE => open = TRUE,
         Asked(d)' => Asked(d), Confirmed(d)' => Confirmed(d),
         open' = TRUE /\ (d \in dropped \/ Asked(d)) => d \in dropped' \/ Asked(d)'
  PROVE  ServerSide(d)'
<1>1. Told(d)' <=> Told(d)
  BY DEF Told
<1> QED
  BY <1>1 DEF ServerSide

LEMMA OneMoves ==
  ASSUME CMInv, CMTyped', Accepting', NEW c \in Clients, DialSide(c)', ServerSide(c)',
         \A d \in Clients \ {c} :
           /\ dial'[d] = dial[d] /\ has'[d] = has[d] /\ inbox'[d] = inbox[d]
           /\ link'[d] = link[d] /\ srvHas'[d] = srvHas[d],
         \A d \in Clients \ {c} :
           /\ d \in accepted <=> d \in accepted'
           /\ d \in conns <=> d \in conns'
           /\ cur' = d <=> cur = d
           /\ cur = d => acc' = acc,
         \A d \in Clients \ {c} : (Asked(d)' <=> Asked(d)) /\ (Confirmed(d)' => Confirmed(d)),
         dropped' = dropped, open' = open
  PROVE  CMInv'
<1>1. ASSUME NEW d \in Clients \ {c} PROVE DialSide(d)' /\ ServerSide(d)'
  <2>1. DialSide(d) /\ ServerSide(d)
    BY DEF CMInv
  <2>2. DialSide(d)'
    BY <2>1, Unmoved
  <2>3. ServerSide(d)'
    BY <2>1, PassedBy
  <2> QED
    BY <2>2, <2>3
<1> QED
  BY <1>1 DEF CMInv

(* Events that tell of no request and no end of a handshake.               *)
LEMMA EventsStay ==
  UNCHANGED events =>
    \A d \in Clients : (Asked(d)' <=> Asked(d)) /\ (Confirmed(d)' <=> Confirmed(d))
BY DEF Asked, Confirmed

LEMMA ServerTold ==
  ASSUME CMTyped, NEW c \in Clients, TellServer(c) \/ UNCHANGED events
  PROVE  /\ events' \in Seq(Event) /\ Once(events')
         /\ \A d \in Clients : (Asked(d)' <=> Asked(d)) /\ (Confirmed(d)' <=> Confirmed(d))
<1>1. CASE UNCHANGED events
  BY <1>1, EventsStay DEF CMTyped
<1>2. CASE events' = Append(events, <<"DISCONNECTED", c>>)
  <2> DEFINE event == <<"DISCONNECTED", c>>
  <2>1. event \in Event /\ event[1] = "DISCONNECTED"
    BY DEF Event
  <2>2. \A d \in Clients : <<"CONNECT_REQUEST", d>> # event /\ <<"ESTABLISHED", d>> # event
    OBVIOUS
  <2> HIDE DEF event
  <2>3. /\ events' = Append(events, event) /\ events \in Seq(Event) /\ Once(events)
    BY <1>2 DEF event, CMTyped
  <2>4. /\ events' \in Seq(Event) /\ Once(events')
        /\ \A e : Contains(events', e) <=> Contains(events, e) \/ e = event
    BY <2>1, <2>3, OnAppend
  <2> QED
    BY <2>2, <2>4 DEF Asked, Confirmed
<1> QED
  BY <1>1, <1>2 DEF TellServer

-----------------------------------------------------------------------------
LEMMA CMResolve == ASSUME CMInv, NEW c \in Clients, Resolve(c) PROVE CMInv'
<1>1. /\ dial[c] = "idle"
      /\ UNCHANGED <<inbox, link, events, open, acc, cur, accepts, srvHas, accepted,
                     conns, dropped>>
  BY DEF Resolve, server
<1>2. PICK place \in {"connect", "failed"}, made \in SUBSET CMObjects :
        /\ dial' = [dial EXCEPT ![c] = place] /\ has' = [has EXCEPT ![c] = made]
        /\ place = "failed" => made = {}
  <2>1. PICK n \in 0 .. Len(DialLadder) :
          LET made == ToSet(SubSeq(DialLadder, 1, n))
          IN \/ /\ has' = [has EXCEPT ![c] = made]
                /\ dial' = [dial EXCEPT ![c] = "connect"]
             \/ /\ has' = [has EXCEPT ![c] = IdClosed[made]]
                /\ dial' = [dial EXCEPT ![c] = "failed"]
    BY DEF Resolve
  <2> DEFINE made == ToSet(SubSeq(DialLadder, 1, n))
  <2>2. made \in SUBSET CMObjects
    <3>1. DialLadder = <<"ec", "id">> \o <<"pd", "cq", "qp">>
      BY DEF DialLadder, BuildLadder
    <3>2. DialLadder \in Seq(CMObjects)
      BY <3>1 DEF CMObjects
    <3>3. SubSeq(DialLadder, 1, n) \in Seq(CMObjects)
      BY <3>2
    <3> QED
      BY <3>3 DEF ToSet
  <2>3. IdClosed[made] = {}
    BY <2>2, CMClosed
  <2> HIDE DEF made
  <2>4. \/ has' = [has EXCEPT ![c] = made] /\ dial' = [dial EXCEPT ![c] = "connect"]
        \/ has' = [has EXCEPT ![c] = {}] /\ dial' = [dial EXCEPT ![c] = "failed"]
    BY <2>1, <2>3 DEF made
  <2> QED
    BY <2>2, <2>4
<1>3. /\ dial' \in [Clients -> {"idle", "connect", "wait", "up", "failed", "abandoned", "closed"}]
      /\ dial'[c] = place /\ \A d \in Clients \ {c} : dial'[d] = dial[d]
      /\ has' \in [Clients -> SUBSET CMObjects]
      /\ has'[c] = made /\ \A d \in Clients \ {c} : has'[d] = has[d]
  BY <1>2 DEF CMInv, CMTyped
<1>4. CMTyped'
  BY <1>1, <1>3 DEF CMInv, CMTyped
<1>5. Accepting'
  BY <1>1 DEF CMInv, Accepting
<1>6. DialSide(c)'
  BY <1>1, <1>2, <1>3 DEF CMInv, DialSide
<1>7. ServerSide(c)'
  <2>1. Told(c) => Told(c)'
    BY <1>1 DEF Told
  <2> QED
    BY <1>1, <2>1, EventsStay DEF CMInv, ServerSide
<1> QED
  BY <1>1, <1>3, <1>4, <1>5, <1>6, <1>7, EventsStay, OneMoves

LEMMA CMConnect == ASSUME CMInv, NEW c \in Clients, RdmaConnect(c) PROVE CMInv'
<1>1. /\ dial[c] = "connect"
      /\ UNCHANGED <<has, inbox, open, acc, cur, accepts, accepted, conns, dropped>>
  BY DEF RdmaConnect
<1>2. /\ link[c] = "none" /\ inbox[c] = <<>> /\ ~Asked(c) /\ ~Confirmed(c)
      /\ c \notin accepted /\ c \notin conns /\ c # cur /\ srvHas[c] = {}
  BY <1>1 DEF CMInv, DialSide, ServerSide, Accepting
<1>3. CASE dial' = [dial EXCEPT ![c] = "abandoned"] /\ UNCHANGED <<link, events, srvHas>>
  <2>1. /\ dial' \in [Clients -> {"idle", "connect", "wait", "up", "failed", "abandoned", "closed"}]
        /\ dial'[c] = "abandoned" /\ \A d \in Clients \ {c} : dial'[d] = dial[d]
    BY <1>3 DEF CMInv, CMTyped
  <2>2. CMTyped' /\ Accepting'
    BY <1>1, <1>3, <2>1 DEF CMInv, CMTyped, Accepting
  <2>3. DialSide(c)'
    BY <1>1, <1>2, <1>3, <2>1 DEF CMInv, DialSide
  <2>4. ServerSide(c)'
    BY <1>1, <1>2, <1>3, EventsStay DEF ServerSide
  <2> QED
    BY <1>1, <1>3, <2>1, <2>2, <2>3, <2>4, EventsStay, OneMoves
<1>4. CASE /\ dial' = [dial EXCEPT ![c] = "wait"] /\ Link(c, "requested")
           /\ IF open
                THEN /\ events' = Append(events, <<"CONNECT_REQUEST", c>>)
                     /\ srvHas' = [srvHas EXCEPT ![c] = {"id"}]
                ELSE UNCHANGED <<events, srvHas>>
  <2>1. /\ dial' \in [Clients -> {"idle", "connect", "wait", "up", "failed", "abandoned", "closed"}]
        /\ dial'[c] = "wait" /\ \A d \in Clients \ {c} : dial'[d] = dial[d]
        /\ link' \in [Clients -> {"none", "requested", "replied", "rtu", "done", "dead"}]
        /\ link'[c] = "requested" /\ \A d \in Clients \ {c} : link'[d] = link[d]
    BY <1>4 DEF CMInv, CMTyped, Link
  <2>2. /\ srvHas' \in [Clients -> SUBSET {"id", "pd", "cq", "qp"}]
        /\ srvHas'[c] \in {{}, {"id"}} /\ (open = TRUE => srvHas'[c] = {"id"})
        /\ (open # TRUE => srvHas'[c] = {})
        /\ \A d \in Clients \ {c} : srvHas'[d] = srvHas[d]
    <3>1. CASE open
      <4>1. srvHas' = [srvHas EXCEPT ![c] = {"id"}]
        BY <1>4, <3>1
      <4> QED
        BY <3>1, <4>1 DEF CMInv, CMTyped
    <3>2. CASE ~open
      <4>1. UNCHANGED srvHas
        BY <1>4, <3>2
      <4> QED
        BY <1>2, <3>2, <4>1 DEF CMInv, CMTyped
    <3> QED
      BY <3>1, <3>2
  <2>3. /\ events' \in Seq(Event) /\ Once(events')
        /\ \A d \in Clients \ {c} : (Asked(d)' <=> Asked(d)) /\ (Confirmed(d)' <=> Confirmed(d))
        /\ ~Confirmed(c)' /\ (Asked(c)' => open = TRUE) /\ (open = TRUE => Asked(c)')
    <3>1. CASE open
      <4> DEFINE event == <<"CONNECT_REQUEST", c>>
      <4>1. event \in Event /\ ~Contains(events, event)
        BY <1>2 DEF Event, Asked
      <4>2. \A d \in Clients \ {c} : <<"CONNECT_REQUEST", d>> # event
        OBVIOUS
      <4>3. \A d \in Clients : <<"ESTABLISHED", d>> # event
        OBVIOUS
      <4> HIDE DEF event
      <4>4. events' = Append(events, event) /\ events \in Seq(Event) /\ Once(events)
        BY <1>4, <3>1 DEF event, CMInv, CMTyped
      <4>5. /\ events' \in Seq(Event) /\ Once(events')
            /\ \A e : Contains(events', e) <=> Contains(events, e) \/ e = event
        BY <4>1, <4>4, OnAppend
      <4>6. Asked(c)'
        BY <4>5 DEF Asked, event
      <4> QED
        BY <1>2, <3>1, <4>2, <4>3, <4>5, <4>6 DEF Asked, Confirmed
    <3>2. CASE ~open
      <4>1. UNCHANGED events
        BY <1>4, <3>2
      <4> QED
        BY <1>2, <3>2, <4>1, EventsStay DEF CMInv, CMTyped
    <3> QED
      BY <3>1, <3>2
  <2>4. CMTyped' /\ Accepting'
    BY <1>1, <2>1, <2>2, <2>3 DEF CMInv, CMTyped, Accepting
  <2>5. DialSide(c)'
    BY <1>1, <1>2, <2>1 DEF CMInv, DialSide
  <2>6. ServerSide(c)'
    BY <1>1, <1>2, <2>1, <2>2, <2>3 DEF ServerSide
  <2> QED
    BY <1>1, <2>1, <2>2, <2>3, <2>4, <2>5, <2>6, OneMoves
<1> QED
  BY <1>3, <1>4 DEF RdmaConnect

LEMMA CMAwaitAnswer == ASSUME CMInv, NEW c \in Clients, AwaitAnswer(c) PROVE CMInv'
<1>1. /\ dial[c] = "wait" /\ inbox[c] # <<>>
      /\ UNCHANGED <<has, link, events, open, acc, cur, accepts, srvHas, accepted, conns, dropped>>
      /\ dial' = [dial EXCEPT ![c] = Answered(Head(inbox[c]))]
      /\ inbox' = [inbox EXCEPT ![c] = Tail(inbox[c])]
  BY DEF AwaitAnswer, server
<1>2. link[c] \in {"rtu", "done", "dead"} /\ inbox[c] \in Seq(Answer)
  BY <1>1 DEF CMInv, CMTyped, DialSide
<1>3. /\ Head(inbox[c]) \in Answer /\ Contains(inbox[c], Head(inbox[c]))
      /\ Tail(inbox[c]) \in Seq(Answer) /\ Len(inbox[c]) \in Nat
      /\ Len(Tail(inbox[c])) = Len(inbox[c]) - 1
      /\ \A e : Contains(Tail(inbox[c]), e) => Contains(inbox[c], e)
  BY <1>1, <1>2, OnHeard
<1>4. /\ dial' \in [Clients -> {"idle", "connect", "wait", "up", "failed", "abandoned", "closed"}]
      /\ dial'[c] = IF Head(inbox[c]) = "ESTABLISHED" THEN "up" ELSE "abandoned"
      /\ \A d \in Clients \ {c} : dial'[d] = dial[d]
  BY <1>1 DEF CMInv, CMTyped, Answered
<1>5. /\ inbox' \in [Clients -> Seq(Answer)]
      /\ inbox'[c] = Tail(inbox[c]) /\ \A d \in Clients \ {c} : inbox'[d] = inbox[d]
  BY <1>1, <1>3 DEF CMInv, CMTyped
<1>6. CMTyped' /\ Accepting'
  BY <1>1, <1>4, <1>5 DEF CMInv, CMTyped, Accepting
<1>7. DialSide(c)'
  <2>1. /\ link'[c] = link[c] /\ has'[c] = has[c] /\ accepted' = accepted
        /\ dial'[c] \notin {"idle", "connect", "failed", "closed"}
        /\ Len(inbox'[c]) <= Len(inbox[c]) /\ Len(inbox'[c]) \in Nat
    BY <1>1, <1>3, <1>4, <1>5
  <2>2. dial'[c] \in {"up", "closed"} \/ Contains(inbox'[c], "ESTABLISHED") => c \in accepted
    BY <1>3, <1>4, <1>5 DEF CMInv, DialSide
  <2>3. Len(inbox[c]) <= 2 /\ (link[c] \in {"rtu", "done"} => Len(inbox[c]) <= 1)
    BY DEF CMInv, DialSide
  <2> QED
    BY <1>2, <1>3, <2>1, <2>2, <2>3 DEF DialSide
<1>8. ServerSide(c)'
  <2>1. Told(c) => Told(c)'
    BY <1>1, <1>4 DEF Told
  <2> QED
    BY <1>1, <2>1, EventsStay DEF CMInv, ServerSide
<1> QED
  BY <1>1, <1>4, <1>5, <1>6, <1>7, <1>8, EventsStay, OneMoves

LEMMA CMCloseDialed == ASSUME CMInv, NEW c \in Clients, CloseDialed(c) PROVE CMInv'
<1>1. /\ dial[c] = "up"
      /\ UNCHANGED <<inbox, open, acc, cur, accepts, srvHas, accepted, conns, dropped>>
      /\ dial' = [dial EXCEPT ![c] = "closed"]
      /\ has' = [has EXCEPT ![c] = IdClosed[has[c]]]
      /\ TellServer(c) \/ UNCHANGED events
      /\ IF link[c] = "dead" THEN UNCHANGED link ELSE Link(c, "dead")
  BY DEF CloseDialed, server
<1>2. IdClosed[has[c]] = {}
  <2>1. has[c] \in SUBSET CMObjects
    BY DEF CMInv, CMTyped
  <2> QED
    BY <2>1, CMClosed
<1>3. /\ dial' \in [Clients -> {"idle", "connect", "wait", "up", "failed", "abandoned", "closed"}]
      /\ dial'[c] = "closed" /\ \A d \in Clients \ {c} : dial'[d] = dial[d]
      /\ has' \in [Clients -> SUBSET CMObjects]
      /\ has'[c] = {} /\ \A d \in Clients \ {c} : has'[d] = has[d]
  BY <1>1, <1>2 DEF CMInv, CMTyped
<1>4. /\ link' \in [Clients -> {"none", "requested", "replied", "rtu", "done", "dead"}]
      /\ link'[c] = "dead" /\ \A d \in Clients \ {c} : link'[d] = link[d]
  BY <1>1 DEF CMInv, CMTyped, Link
<1>5. /\ events' \in Seq(Event) /\ Once(events')
      /\ \A d \in Clients : (Asked(d)' <=> Asked(d)) /\ (Confirmed(d)' <=> Confirmed(d))
  BY <1>1, ServerTold DEF CMInv
<1>6. CMTyped' /\ Accepting'
  BY <1>1, <1>3, <1>4, <1>5 DEF CMInv, CMTyped, Accepting
<1>7. DialSide(c)'
  BY <1>1, <1>3, <1>4 DEF CMInv, DialSide
<1>8. ServerSide(c)'
  <2>1. Told(c)'
    BY <1>3 DEF Told
  <2> QED
    BY <1>1, <1>4, <1>5, <2>1 DEF CMInv, ServerSide
<1> QED
  BY <1>1, <1>3, <1>4, <1>5, <1>6, <1>7, <1>8, OneMoves

-----------------------------------------------------------------------------
LEMMA CMRepArrives == ASSUME CMInv, NEW c \in Clients, RepArrives(c) PROVE CMInv'
<1>1. /\ link[c] = "replied" /\ link' = [link EXCEPT ![c] = "rtu"]
      /\ inbox' = [inbox EXCEPT ![c] = Append(inbox[c], "ESTABLISHED")]
      /\ UNCHANGED <<dial, has, events, open, acc, cur, accepts, srvHas, accepted, conns, dropped>>
  BY DEF RepArrives, Link, Tell, server
<1>2. /\ inbox[c] = <<>> /\ dial[c] = "wait" /\ cur = c /\ acc = "established" /\ c \in accepted
  BY <1>1 DEF CMInv, DialSide, ServerSide
<1>3. Append(inbox[c], "ESTABLISHED") = <<"ESTABLISHED">>
  BY <1>2
<1>4. /\ <<"ESTABLISHED">> \in Seq(Answer) /\ Len(<<"ESTABLISHED">>) = 1
      /\ <<"ESTABLISHED">> # <<>> /\ Head(<<"ESTABLISHED">>) = "ESTABLISHED"
  BY DEF Answer
<1>5. /\ inbox' \in [Clients -> Seq(Answer)]
      /\ inbox'[c] = <<"ESTABLISHED">> /\ \A d \in Clients \ {c} : inbox'[d] = inbox[d]
  BY <1>1, <1>3, <1>4 DEF CMInv, CMTyped
<1>6. /\ link' \in [Clients -> {"none", "requested", "replied", "rtu", "done", "dead"}]
      /\ link'[c] = "rtu" /\ \A d \in Clients \ {c} : link'[d] = link[d]
  BY <1>1 DEF CMInv, CMTyped
<1>7. CMTyped' /\ Accepting'
  BY <1>1, <1>5, <1>6 DEF CMInv, CMTyped, Accepting
<1>8. DialSide(c)'
  BY <1>1, <1>2, <1>4, <1>5, <1>6 DEF CMInv, DialSide
<1>9. ServerSide(c)'
  <2>1. Told(c)'
    BY <1>4, <1>5 DEF Told
  <2>2. Accepting
    BY DEF CMInv
  <2> QED
    BY <1>1, <1>2, <1>6, <2>1, <2>2, EventsStay DEF CMInv, ServerSide, Accepting
<1> QED
  BY <1>1, <1>5, <1>6, <1>7, <1>8, <1>9, EventsStay, OneMoves

LEMMA CMRtuArrives == ASSUME CMInv, NEW c \in Clients, RtuArrives(c) PROVE CMInv'
<1>1. /\ link[c] = "rtu" /\ link' = [link EXCEPT ![c] = "done"]
      /\ events' = IF open THEN Append(events, <<"ESTABLISHED", c>>) ELSE events
      /\ UNCHANGED <<dial, has, inbox, open, acc, cur, accepts, srvHas, accepted, conns, dropped>>
  BY DEF RtuArrives, Link, client, server
<1>2. cur = c /\ acc = "established" /\ c \in accepted /\ ~Confirmed(c) /\ Told(c) /\ ~Asked(c)
  BY <1>1 DEF CMInv, ServerSide
<1>3. /\ link' \in [Clients -> {"none", "requested", "replied", "rtu", "done", "dead"}]
      /\ link'[c] = "done" /\ \A d \in Clients \ {c} : link'[d] = link[d]
  BY <1>1 DEF CMInv, CMTyped
<1>4. /\ events' \in Seq(Event) /\ Once(events')
      /\ \A d \in Clients : Asked(d)' <=> Asked(d)
      /\ \A d \in Clients \ {c} : Confirmed(d)' <=> Confirmed(d)
  <2>1. CASE open
    <3> DEFINE event == <<"ESTABLISHED", c>>
    <3>1. event \in Event /\ ~Contains(events, event)
      BY <1>2 DEF Event, Confirmed
    <3>2. \A d \in Clients \ {c} : <<"ESTABLISHED", d>> # event
      OBVIOUS
    <3>3. \A d \in Clients : <<"CONNECT_REQUEST", d>> # event
      OBVIOUS
    <3> HIDE DEF event
    <3>4. events' = Append(events, event) /\ events \in Seq(Event) /\ Once(events)
      BY <1>1, <2>1 DEF event, CMInv, CMTyped
    <3>5. /\ events' \in Seq(Event) /\ Once(events')
          /\ \A e : Contains(events', e) <=> Contains(events, e) \/ e = event
      BY <3>1, <3>4, OnAppend
    <3> QED
      BY <3>2, <3>3, <3>5 DEF Asked, Confirmed
  <2>2. CASE ~open
    BY <1>1, <2>2, EventsStay DEF CMInv, CMTyped
  <2> QED
    BY <2>1, <2>2
<1>5. CMTyped' /\ Accepting'
  BY <1>1, <1>3, <1>4 DEF CMInv, CMTyped, Accepting
<1>6. DialSide(c)'
  BY <1>1, <1>2, <1>3 DEF CMInv, DialSide
<1>7. ServerSide(c)'
  <2>1. Told(c)'
    BY <1>1, <1>2 DEF Told
  <2>2. ~Asked(c)'
    BY <1>2, <1>4
  <2> QED
    BY <1>1, <1>2, <1>3, <2>1, <2>2 DEF CMInv, ServerSide
<1> QED
  BY <1>1, <1>3, <1>4, <1>5, <1>6, <1>7, OneMoves

LEMMA CMGiveUp == ASSUME CMInv, NEW c \in Clients, GiveUp(c) PROVE CMInv'
<1>1. /\ link[c] \in {"requested", "replied", "rtu"} /\ link' = [link EXCEPT ![c] = "dead"]
      /\ TellServer(c) \/ UNCHANGED events
      /\ IF link[c] = "rtu" THEN UNCHANGED inbox
                            ELSE inbox' = [inbox EXCEPT ![c] = Append(inbox[c], "UNREACHABLE")]
      /\ UNCHANGED <<dial, has, open, acc, cur, accepts, srvHas, accepted, conns, dropped>>
  BY DEF GiveUp, Link, Tell, server
<1>2. /\ link' \in [Clients -> {"none", "requested", "replied", "rtu", "done", "dead"}]
      /\ link'[c] = "dead" /\ \A d \in Clients \ {c} : link'[d] = link[d]
  BY <1>1 DEF CMInv, CMTyped
<1>3. /\ events' \in Seq(Event) /\ Once(events')
      /\ \A d \in Clients : (Asked(d)' <=> Asked(d)) /\ (Confirmed(d)' <=> Confirmed(d))
  BY <1>1, ServerTold DEF CMInv
<1>4. /\ inbox' \in [Clients -> Seq(Answer)] /\ \A d \in Clients \ {c} : inbox'[d] = inbox[d]
      /\ Len(inbox'[c]) <= 2
      /\ Contains(inbox'[c], "ESTABLISHED") => Contains(inbox[c], "ESTABLISHED")
      /\ Told(c) => Told(c)'
  <2>1. CASE link[c] = "rtu"
    BY <1>1, <2>1 DEF CMInv, CMTyped, DialSide, Told
  <2>2. CASE link[c] # "rtu"
    <3>1. /\ inbox' = [inbox EXCEPT ![c] = Append(inbox[c], "UNREACHABLE")]
          /\ inbox[c] = <<>> /\ dial[c] = "wait"
      BY <1>1, <2>2 DEF CMInv, DialSide
    <3>2. Append(inbox[c], "UNREACHABLE") = <<"UNREACHABLE">>
      BY <3>1
    <3>3. <<"UNREACHABLE">> \in Seq(Answer) /\ Len(<<"UNREACHABLE">>) = 1
      BY DEF Answer
    <3>4. ~Contains(<<"UNREACHABLE">>, "ESTABLISHED")
      BY <3>3 DEF Contains
    <3>5. ~Told(c)
      BY <3>1 DEF Told
    <3>6. /\ inbox' \in [Clients -> Seq(Answer)] /\ \A d \in Clients \ {c} : inbox'[d] = inbox[d]
          /\ inbox'[c] = <<"UNREACHABLE">>
      BY <3>1, <3>2, <3>3 DEF CMInv, CMTyped
    <3> QED
      BY <3>3, <3>4, <3>5, <3>6
  <2> QED
    BY <2>1, <2>2
<1>5. CMTyped' /\ Accepting'
  BY <1>1, <1>2, <1>3, <1>4 DEF CMInv, CMTyped, Accepting
<1>6. DialSide(c)'
  BY <1>1, <1>2, <1>4 DEF CMInv, DialSide
<1>7. ServerSide(c)'
  BY <1>1, <1>2, <1>3, <1>4 DEF CMInv, ServerSide
<1> QED
  BY <1>1, <1>2, <1>3, <1>4, <1>5, <1>6, <1>7, OneMoves

-----------------------------------------------------------------------------
(* The destruction of an id takes the events of it and no others.          *)
LEMMA IdDestroyed ==
  ASSUME CMInv, NEW c \in Clients, link[c] # "none",
         NEW queue \in Seq(Event), Once(queue),
         srvHas' = [srvHas EXCEPT ![c] = IdClosed[srvHas[c]]],
         events' = Withdraw(c, queue),
         NEW answer \in {"REJECTED", "DISCONNECTED"},
         IF link[c] = "dead" THEN UNCHANGED <<link, inbox>>
           ELSE /\ link' = [link EXCEPT ![c] = "dead"]
                /\ inbox' = [inbox EXCEPT ![c] = Append(inbox[c], answer)],
         UNCHANGED <<dial, has>>, c \in accepted => c \in accepted', c \notin conns'
  PROVE  /\ events' \in Seq(Event) /\ Once(events')
         /\ \A d \in Clients \ {c} :
              /\ Asked(d)' <=> Contains(queue, <<"CONNECT_REQUEST", d>>)
              /\ Confirmed(d)' <=> Contains(queue, <<"ESTABLISHED", d>>)
         /\ srvHas' \in [Clients -> SUBSET {"id", "pd", "cq", "qp"}]
         /\ link' \in [Clients -> {"none", "requested", "replied", "rtu", "done", "dead"}]
         /\ inbox' \in [Clients -> Seq(Answer)]
         /\ \A d \in Clients \ {c} :
              inbox'[d] = inbox[d] /\ link'[d] = link[d] /\ srvHas'[d] = srvHas[d]
         /\ DialSide(c)' /\ ServerSide(c)'
<1>1. /\ events' \in Seq(Event) /\ Once(events')
      /\ \A e \in Event : Contains(events', e) <=> Contains(queue, e) /\ e[2] # c
  BY OnWithdraw
<1>2. \A d \in Clients :
        /\ Asked(d)' <=> Contains(queue, <<"CONNECT_REQUEST", d>>) /\ d # c
        /\ Confirmed(d)' <=> Contains(queue, <<"ESTABLISHED", d>>) /\ d # c
  <2> SUFFICES ASSUME NEW d \in Clients
               PROVE  /\ Asked(d)' <=> Contains(queue, <<"CONNECT_REQUEST", d>>) /\ d # c
                      /\ Confirmed(d)' <=> Contains(queue, <<"ESTABLISHED", d>>) /\ d # c
    OBVIOUS
  <2> DEFINE request == <<"CONNECT_REQUEST", d>>
             ending == <<"ESTABLISHED", d>>
  <2>1. request \in Event /\ request[2] = d /\ ending \in Event /\ ending[2] = d
    BY DEF Event
  <2>2. (Asked(d)' <=> Contains(events', request)) /\ (Confirmed(d)' <=> Contains(events', ending))
    BY DEF Asked, Confirmed
  <2> HIDE DEF request, ending
  <2>3. /\ Asked(d)' <=> Contains(queue, request) /\ d # c
        /\ Confirmed(d)' <=> Contains(queue, ending) /\ d # c
    BY <1>1, <2>1, <2>2
  <2> QED
    BY <2>3 DEF request, ending
<1>3. IdClosed[srvHas[c]] = {}
  <2>1. srvHas[c] \in SUBSET CMObjects
    BY DEF CMInv, CMTyped, CMObjects
  <2> QED
    BY <2>1, CMClosed
<1>4. /\ srvHas' \in [Clients -> SUBSET {"id", "pd", "cq", "qp"}]
      /\ srvHas'[c] = {} /\ \A d \in Clients \ {c} : srvHas'[d] = srvHas[d]
  BY <1>3 DEF CMInv, CMTyped
<1>5. /\ link' \in [Clients -> {"none", "requested", "replied", "rtu", "done", "dead"}]
      /\ link'[c] = "dead" /\ \A d \in Clients \ {c} : link'[d] = link[d]
  BY DEF CMInv, CMTyped
<1>6. /\ inbox' \in [Clients -> Seq(Answer)] /\ \A d \in Clients \ {c} : inbox'[d] = inbox[d]
      /\ Len(inbox'[c]) <= 2
      /\ Contains(inbox'[c], "ESTABLISHED") => Contains(inbox[c], "ESTABLISHED")
  <2>1. CASE link[c] = "dead"
    BY <2>1 DEF CMInv, CMTyped, DialSide
  <2>2. CASE link[c] # "dead"
    <3>1. /\ inbox' = [inbox EXCEPT ![c] = Append(inbox[c], answer)]
          /\ inbox[c] \in Seq(Answer) /\ answer \in Answer /\ answer # "ESTABLISHED"
      BY <2>2 DEF CMInv, CMTyped, Answer
    <3>2. Len(inbox[c]) <= 1
      <4>1. link[c] \in {"requested", "replied", "rtu", "done"}
        BY <2>2 DEF CMInv, CMTyped
      <4>2. inbox[c] = <<>> \/ Len(inbox[c]) <= 1
        BY <4>1 DEF CMInv, DialSide
      <4> QED
        BY <4>2
    <3>3. /\ Append(inbox[c], answer) \in Seq(Answer)
          /\ Len(Append(inbox[c], answer)) = Len(inbox[c]) + 1
          /\ \A e : Contains(Append(inbox[c], answer), e) <=> Contains(inbox[c], e) \/ e = answer
      BY <3>1, OnTell
    <3>4. /\ inbox' \in [Clients -> Seq(Answer)] /\ \A d \in Clients \ {c} : inbox'[d] = inbox[d]
          /\ inbox'[c] = Append(inbox[c], answer)
      BY <3>1, <3>3 DEF CMInv, CMTyped
    <3>5. Len(inbox'[c]) <= 2
      <4>1. Len(inbox[c]) \in Nat
        BY <3>1
      <4> QED
        BY <3>2, <3>3, <3>4, <4>1
    <3>6. Contains(inbox'[c], "ESTABLISHED") => Contains(inbox[c], "ESTABLISHED")
      BY <3>1, <3>3, <3>4
    <3> QED
      BY <3>4, <3>5, <3>6
  <2> QED
    BY <2>1, <2>2
<1>7. DialSide(c)'
  BY <1>5, <1>6 DEF CMInv, DialSide
<1>8. ServerSide(c)'
  BY <1>2, <1>4, <1>5 DEF ServerSide
<1> QED
  BY <1>1, <1>2, <1>4, <1>5, <1>6, <1>7, <1>8

(* DropConn of the connection Accept works on, or of one it has returned.  *)
LEMMA CMDropped ==
  ASSUME CMAssumption, CMInv, NEW c \in Clients, DropConn(c),
         link[c] # "none", UNCHANGED <<dial, has, open, accepts, accepted, dropped>>,
         \/ cur = c /\ cur' = NoClient /\ acc' = "idle" /\ UNCHANGED conns
         \/ c \in conns /\ conns' = conns \ {c} /\ UNCHANGED <<acc, cur>>
  PROVE  CMInv'
<1>1. /\ srvHas' = [srvHas EXCEPT ![c] = IdClosed[srvHas[c]]]
      /\ events' = Withdraw(c, events)
      /\ \E answer \in {"REJECTED", "DISCONNECTED"} :
           IF link[c] = "dead" THEN UNCHANGED <<link, inbox>>
             ELSE /\ link' = [link EXCEPT ![c] = "dead"]
                  /\ inbox' = [inbox EXCEPT ![c] = Append(inbox[c], answer)]
  BY DEF DropConn, Link, Tell
<1>2. events \in Seq(Event) /\ Once(events) /\ c \notin conns' /\ c # NoClient
  BY DEF CMInv, CMTyped, Accepting, CMAssumption
<1>3. /\ events' \in Seq(Event) /\ Once(events')
      /\ \A d \in Clients \ {c} :
           /\ Asked(d)' <=> Contains(events, <<"CONNECT_REQUEST", d>>)
           /\ Confirmed(d)' <=> Contains(events, <<"ESTABLISHED", d>>)
      /\ srvHas' \in [Clients -> SUBSET {"id", "pd", "cq", "qp"}]
      /\ link' \in [Clients -> {"none", "requested", "replied", "rtu", "done", "dead"}]
      /\ inbox' \in [Clients -> Seq(Answer)]
      /\ \A d \in Clients \ {c} :
           inbox'[d] = inbox[d] /\ link'[d] = link[d] /\ srvHas'[d] = srvHas[d]
      /\ DialSide(c)' /\ ServerSide(c)'
  BY <1>1, <1>2, IdDestroyed
<1>4. \A d \in Clients \ {c} : (Asked(d)' <=> Asked(d)) /\ (Confirmed(d)' <=> Confirmed(d))
  BY <1>3 DEF Asked, Confirmed
<1>5. CMTyped'
  BY <1>3 DEF CMInv, CMTyped
<1>6. Accepting'
  <2>1. Accepting /\ conns \subseteq Clients /\ NoClient \notin Clients
    BY DEF CMInv, CMTyped, Accepting, CMAssumption
  <2>2. CASE cur = c /\ cur' = NoClient /\ acc' = "idle" /\ UNCHANGED conns
    BY <2>1, <2>2 DEF Accepting
  <2>3. CASE c \in conns /\ conns' = conns \ {c} /\ UNCHANGED <<acc, cur>>
    BY <2>1, <2>3 DEF Accepting
  <2> QED
    BY <2>2, <2>3
<1>7. \A d \in Clients \ {c} :
        /\ d \in accepted <=> d \in accepted'
        /\ d \in conns <=> d \in conns'
        /\ cur' = d <=> cur = d
        /\ cur = d => acc' = acc
  BY DEF CMAssumption
<1> QED
  BY <1>3, <1>4, <1>5, <1>6, <1>7, OneMoves

LEMMA CMCloseAccepted ==
  ASSUME CMAssumption, CMInv, NEW c \in Clients, CloseAccepted(c) PROVE CMInv'
<1>1. /\ c \in conns /\ conns' = conns \ {c} /\ DropConn(c)
      /\ UNCHANGED <<dial, has, open, acc, cur, accepts, accepted, dropped>>
  BY DEF CloseAccepted
<1>2. link[c] # "none"
  BY <1>1 DEF CMInv, Accepting, ServerSide
<1> QED
  BY <1>1, <1>2, CMDropped

LEMMA CMBuild == ASSUME CMAssumption, CMInv, BuildAccepted PROVE CMInv'
<1>1. acc = "build" /\ UNCHANGED <<dial, has, open, accepts, accepted, conns, dropped>>
  BY DEF BuildAccepted
<1>2. cur \in Clients /\ link[cur] # "none"
  BY <1>1 DEF CMInv, CMTyped, Accepting, ServerSide
<1>3. CASE acc' = "idle" /\ cur' = NoClient /\ DropConn(cur)
  BY <1>1, <1>2, <1>3, CMDropped
<1>4. CASE /\ acc' = "accept" /\ UNCHANGED <<cur, inbox, link, events>>
           /\ srvHas' = [srvHas EXCEPT ![cur] = srvHas[cur] \cup ToSet(BuildLadder)]
  <2>1. ToSet(BuildLadder) \subseteq {"pd", "cq", "qp"}
    BY DEF ToSet, BuildLadder
  <2>2. /\ srvHas' \in [Clients -> SUBSET {"id", "pd", "cq", "qp"}]
        /\ \A d \in Clients \ {cur} : srvHas'[d] = srvHas[d]
    BY <1>2, <1>4, <2>1 DEF CMInv, CMTyped
  <2>3. CMTyped' /\ Accepting'
    BY <1>1, <1>4, <2>2 DEF CMInv, CMTyped, Accepting
  <2>4. DialSide(cur)'
    BY <1>1, <1>2, <1>4 DEF CMInv, DialSide
  <2>5. ServerSide(cur)'
    <3>1. ~Asked(cur)' /\ ~Confirmed(cur)' /\ link[cur] \notin {"replied", "rtu"}
      BY <1>1, <1>2, <1>4, EventsStay DEF CMInv, ServerSide
    <3>2. Told(cur) <=> Told(cur)'
      BY <1>1, <1>4 DEF Told
    <3> QED
      BY <1>1, <1>2, <1>4, <3>1, <3>2 DEF CMInv, ServerSide
  <2> QED
    BY <1>1, <1>2, <1>4, <2>2, <2>3, <2>4, <2>5, EventsStay, OneMoves
<1> QED
  BY <1>3, <1>4 DEF BuildAccepted

LEMMA CMRdmaAccept == ASSUME CMAssumption, CMInv, RdmaAccept PROVE CMInv'
<1>1. acc = "accept" /\ UNCHANGED <<dial, has, open, accepts, conns, dropped>>
  BY DEF RdmaAccept
<1>2. cur \in Clients /\ link[cur] # "none"
  BY <1>1 DEF CMInv, CMTyped, Accepting, ServerSide
<1>3. CASE acc' = "idle" /\ cur' = NoClient /\ DropConn(cur) /\ UNCHANGED accepted
  BY <1>1, <1>2, <1>3, CMDropped
<1>4. CASE /\ link[cur] = "requested" /\ link' = [link EXCEPT ![cur] = "replied"]
           /\ accepted' = accepted \cup {cur} /\ acc' = "established"
           /\ UNCHANGED <<cur, srvHas, events, inbox>>
  <2>1. /\ link' \in [Clients -> {"none", "requested", "replied", "rtu", "done", "dead"}]
        /\ link'[cur] = "replied" /\ \A d \in Clients \ {cur} : link'[d] = link[d]
    BY <1>2, <1>4 DEF CMInv, CMTyped
  <2>2. CMTyped' /\ Accepting'
    BY <1>1, <1>2, <1>4, <2>1 DEF CMInv, CMTyped, Accepting
  <2>3. DialSide(cur)'
    BY <1>1, <1>2, <1>4, <2>1 DEF CMInv, DialSide
  <2>4. ServerSide(cur)'
    <3>1. ~Asked(cur)' /\ ~Confirmed(cur)'
      BY <1>1, <1>2, <1>4, EventsStay DEF CMInv, ServerSide
    <3>2. cur \notin conns
      BY DEF CMInv, Accepting
    <3> QED
      BY <1>1, <1>2, <1>4, <2>1, <3>1, <3>2 DEF CMInv, ServerSide
  <2> QED
    BY <1>1, <1>2, <1>4, <2>1, <2>2, <2>3, <2>4, EventsStay, OneMoves
<1> QED
  BY <1>3, <1>4 DEF RdmaAccept, Link

LEMMA CMAcceptCall == ASSUME CMAssumption, CMInv, AcceptCall PROVE CMInv'
<1>1. /\ acc = "idle" /\ acc' = "request" /\ accepts < MaxAccepts /\ accepts' = accepts + 1
      /\ UNCHANGED <<dial, has, inbox, link, events, open, cur, srvHas, accepted, conns, dropped>>
  BY DEF AcceptCall, client
<1>2. accepts' \in 0 .. MaxAccepts
  BY <1>1 DEF CMInv, CMTyped, CMAssumption
<1>3. CMTyped' /\ Accepting'
  BY <1>1, <1>2 DEF CMInv, CMTyped, Accepting
<1>4. ASSUME NEW d \in Clients PROVE DialSide(d)' /\ ServerSide(d)'
  <2>1. DialSide(d) /\ ServerSide(d) /\ cur # d
    BY <1>1 DEF CMInv, Accepting, CMAssumption
  <2>2. DialSide(d)'
    BY <1>1, <2>1, Unmoved
  <2>3. ServerSide(d)'
    BY <1>1, <2>1, EventsStay, PassedBy
  <2> QED
    BY <2>2, <2>3
<1> QED
  BY <1>3, <1>4 DEF CMInv

(* The request Accept takes is the only one of its Dial.                   *)
LEMMA CMGetRequest == ASSUME CMAssumption, CMInv, GetRequest PROVE CMInv'
<1> DEFINE event == Head(events)
<1>1. /\ acc = "request" /\ events # <<>> /\ events' = Tail(events)
      /\ UNCHANGED <<dial, has, inbox, link, open, accepts, srvHas, accepted, conns, dropped>>
      /\ IF event[1] = "CONNECT_REQUEST" THEN acc' = "build" /\ cur' = event[2]
                                         ELSE acc' = "idle" /\ UNCHANGED cur
  BY DEF GetRequest, IsWanted, client
<1>2. /\ event \in Event /\ Contains(events, event)
      /\ events' \in Seq(Event) /\ Once(events')
      /\ \A e \in Event : e[1] # "DISCONNECTED" =>
           (Contains(events', e) <=> Contains(events, e) /\ e # event)
  BY <1>1, OnTail DEF CMInv, CMTyped
<1>3. event[2] \in Clients /\ event = <<event[1], event[2]>>
  BY <1>2 DEF Event
<1> HIDE DEF event
<1>4. ASSUME NEW d \in Clients
      PROVE  /\ Asked(d)' <=> Asked(d) /\ event # <<"CONNECT_REQUEST", d>>
             /\ Confirmed(d)' => Confirmed(d)
  <2> DEFINE request == <<"CONNECT_REQUEST", d>>
             ending == <<"ESTABLISHED", d>>
  <2>1. /\ request \in Event /\ request[1] # "DISCONNECTED"
        /\ ending \in Event /\ ending[1] # "DISCONNECTED"
    BY DEF Event
  <2>2. /\ (Asked(d)' <=> Contains(events', request)) /\ (Asked(d) <=> Contains(events, request))
        /\ (Confirmed(d)' <=> Contains(events', ending))
        /\ (Confirmed(d) <=> Contains(events, ending))
    BY DEF Asked, Confirmed
  <2> HIDE DEF request, ending
  <2>3. /\ Contains(events', request) <=> Contains(events, request) /\ event # request
        /\ Contains(events', ending) => Contains(events, ending)
    BY <1>2, <2>1
  <2> QED
    BY <2>2, <2>3 DEF request
<1>5. cur = NoClient
  BY <1>1 DEF CMInv, Accepting
<1>6. CASE event[1] = "CONNECT_REQUEST"
  <2>1. PICK c \in Clients : event = <<"CONNECT_REQUEST", c>> /\ acc' = "build" /\ cur' = c
    BY <1>1, <1>3, <1>6
  <2>2. Asked(c)
    BY <1>2, <2>1 DEF Asked
  <2>3. ~Asked(c)'
    BY <1>4, <2>1
  <2>4. /\ c \notin accepted /\ srvHas[c] = {"id"} /\ c \notin conns /\ c # NoClient
        /\ link[c] \notin {"none", "replied", "rtu"} /\ ~Confirmed(c)
    BY <1>5, <2>1, <2>2 DEF CMInv, Accepting, ServerSide, CMAssumption
  <2>5. CMTyped' /\ Accepting'
    BY <1>1, <1>2, <2>1, <2>4 DEF CMInv, CMTyped, Accepting
  <2>6. DialSide(c)'
    BY <1>1, <2>1 DEF CMInv, DialSide
  <2>7. ServerSide(c)'
    <3>1. ~Confirmed(c)'
      BY <1>4, <2>1, <2>4
    <3>2. Told(c) <=> Told(c)'
      BY <1>1 DEF Told
    <3> QED
      BY <1>1, <2>1, <2>3, <2>4, <3>1, <3>2 DEF CMInv, ServerSide
  <2>8. ASSUME NEW d \in Clients \ {c}
        PROVE  /\ (Asked(d)' <=> Asked(d)) /\ (Confirmed(d)' => Confirmed(d))
               /\ cur' = d <=> cur = d
               /\ cur = d => acc' = acc
    <3>1. event # <<"CONNECT_REQUEST", d>>
      BY <2>1
    <3>2. cur # d /\ cur' # d
      BY <1>5, <2>1 DEF CMAssumption
    <3> QED
      BY <1>4, <3>1, <3>2
  <2> QED
    BY <1>1, <2>1, <2>5, <2>6, <2>7, <2>8, OneMoves
<1>7. CASE event[1] # "CONNECT_REQUEST"
  <2>1. acc' = "idle" /\ UNCHANGED cur
    BY <1>1, <1>7
  <2>2. CMTyped' /\ Accepting'
    BY <1>1, <1>2, <1>5, <2>1 DEF CMInv, CMTyped, Accepting
  <2>3. ASSUME NEW d \in Clients PROVE DialSide(d)' /\ ServerSide(d)'
    <3>1. DialSide(d) /\ ServerSide(d) /\ cur # d
      BY <1>5 DEF CMInv, CMAssumption
    <3>2. (Asked(d)' <=> Asked(d)) /\ (Confirmed(d)' => Confirmed(d))
      <4>1. event # <<"CONNECT_REQUEST", d>>
        BY <1>7
      <4> QED
        BY <1>4, <4>1
    <3>3. DialSide(d)'
      BY <1>1, <3>1, Unmoved
    <3>4. ServerSide(d)'
      BY <1>1, <2>1, <3>1, <3>2, PassedBy
    <3> QED
      BY <3>3, <3>4
  <2> QED
    BY <2>2, <2>3 DEF CMInv
<1> QED
  BY <1>6, <1>7

(* The end Accept reads is that of the connection it works on; with        *)
(* anything else it destroys this connection and forgets what it read.     *)
LEMMA CMGetEstablished == ASSUME CMAssumption, CMInv, GetEstablished PROVE CMInv'
<1> DEFINE event == Head(events)
<1>1. /\ acc = "established" /\ events # <<>> /\ acc' = "idle" /\ cur' = NoClient
      /\ UNCHANGED <<dial, has, open, accepts, accepted>>
      /\ IF event[1] = "ESTABLISHED"
           THEN /\ conns' = conns \cup {cur} /\ events' = Tail(events)
                /\ UNCHANGED <<dropped, srvHas, link, inbox>>
           ELSE /\ dropped' = dropped \cup {c \in Clients : event = <<"CONNECT_REQUEST", c>>}
                /\ CloseCurrent(cur)
                /\ UNCHANGED conns
  BY DEF GetEstablished, IsWanted
<1>2. /\ event \in Event /\ Contains(events, event)
      /\ Tail(events) \in Seq(Event) /\ Once(Tail(events))
      /\ \A e \in Event : e[1] # "DISCONNECTED" =>
           (Contains(Tail(events), e) <=> Contains(events, e) /\ e # event)
  BY <1>1, OnTail DEF CMInv, CMTyped
<1>3. event[2] \in Clients /\ event = <<event[1], event[2]>>
  BY <1>2 DEF Event
<1>4. /\ cur \in Clients /\ cur \in accepted /\ cur \notin conns
      /\ link[cur] # "none" /\ cur # NoClient
  BY <1>1 DEF CMInv, CMTyped, Accepting, ServerSide, CMAssumption
<1> HIDE DEF event
<1>5. ASSUME NEW d \in Clients
      PROVE  /\ Contains(Tail(events), <<"CONNECT_REQUEST", d>>)
                  <=> Asked(d) /\ event # <<"CONNECT_REQUEST", d>>
             /\ Contains(Tail(events), <<"ESTABLISHED", d>>)
                  <=> Confirmed(d) /\ event # <<"ESTABLISHED", d>>
  <2> DEFINE request == <<"CONNECT_REQUEST", d>>
             ending == <<"ESTABLISHED", d>>
  <2>1. /\ request \in Event /\ request[1] # "DISCONNECTED"
        /\ ending \in Event /\ ending[1] # "DISCONNECTED"
    BY DEF Event
  <2>2. (Asked(d) <=> Contains(events, request)) /\ (Confirmed(d) <=> Contains(events, ending))
    BY DEF Asked, Confirmed
  <2> HIDE DEF request, ending
  <2>3. /\ Contains(Tail(events), request) <=> Contains(events, request) /\ event # request
        /\ Contains(Tail(events), ending) <=> Contains(events, ending) /\ event # ending
    BY <1>2, <2>1
  <2> QED
    BY <2>2, <2>3 DEF request, ending
<1>6. PICK c \in Clients : c = cur
  BY <1>4
<1>7. CASE event[1] = "ESTABLISHED"
  <2>1. /\ conns' = conns \cup {c} /\ events' = Tail(events)
        /\ UNCHANGED <<dropped, srvHas, link, inbox>>
    BY <1>1, <1>6, <1>7
  <2>2. Confirmed(event[2])
    BY <1>2, <1>3, <1>7 DEF Confirmed
  <2>3. event = <<"ESTABLISHED", c>> /\ Confirmed(c)
    BY <1>3, <1>6, <1>7, <2>2 DEF CMInv, ServerSide
  <2>4. ASSUME NEW d \in Clients
        PROVE  (Asked(d)' <=> Asked(d)) /\ (Confirmed(d)' <=> Confirmed(d) /\ d # c)
    <3>1. event # <<"CONNECT_REQUEST", d>> /\ (event = <<"ESTABLISHED", d>> <=> d = c)
      BY <2>3
    <3>2. /\ Asked(d)' <=> Contains(Tail(events), <<"CONNECT_REQUEST", d>>)
          /\ Confirmed(d)' <=> Contains(Tail(events), <<"ESTABLISHED", d>>)
      BY <2>1 DEF Asked, Confirmed
    <3> QED
      BY <1>5, <3>1, <3>2
  <2>5. CMTyped'
    BY <1>1, <1>2, <2>1 DEF CMInv, CMTyped
  <2>6. Accepting'
    <3>1. Accepting /\ conns \subseteq Clients /\ NoClient \notin Clients
      BY DEF CMInv, CMTyped, Accepting, CMAssumption
    <3> QED
      BY <1>1, <1>4, <1>6, <2>1, <3>1 DEF Accepting
  <2>7. DialSide(c) /\ ServerSide(c)
    BY DEF CMInv
  <2>8. DialSide(c)'
    BY <1>1, <2>1, <2>7 DEF DialSide
  <2>9. ServerSide(c)'
    <3>1. ~Asked(c)' /\ ~Confirmed(c)' /\ link[c] \in {"done", "dead"} /\ Told(c)
      BY <1>6, <2>3, <2>4, <2>7 DEF ServerSide
    <3>2. Told(c)'
      BY <1>1, <2>1, <3>1 DEF Told
    <3> QED
      BY <1>1, <1>4, <1>6, <2>1, <2>7, <3>1, <3>2 DEF ServerSide
  <2>10. \A d \in Clients \ {c} :
          /\ d \in conns <=> d \in conns'
          /\ cur' = d <=> cur = d
          /\ cur = d => acc' = acc
    BY <1>1, <1>6, <2>1 DEF CMAssumption
  <2>11. \A d \in Clients \ {c} : (Asked(d)' <=> Asked(d)) /\ (Confirmed(d)' => Confirmed(d))
    BY <2>4
  <2> QED
    BY <1>1, <2>1, <2>5, <2>6, <2>8, <2>9, <2>10, <2>11, OneMoves
<1>8. CASE event[1] # "ESTABLISHED"
  <2>1. /\ dropped' = dropped \cup {d \in Clients : event = <<"CONNECT_REQUEST", d>>}
        /\ UNCHANGED conns
        /\ srvHas' = [srvHas EXCEPT ![c] = IdClosed[srvHas[c]]]
        /\ events' = Withdraw(c, Tail(events))
        /\ IF link[c] = "dead" THEN UNCHANGED <<link, inbox>>
             ELSE /\ link' = [link EXCEPT ![c] = "dead"]
                  /\ inbox' = [inbox EXCEPT ![c] = Append(inbox[c], "DISCONNECTED")]
    BY <1>1, <1>6, <1>8 DEF CloseCurrent, Link, Tell
  <2>2. "DISCONNECTED" \in {"REJECTED", "DISCONNECTED"} /\ c \notin conns' /\ link[c] # "none"
    BY <1>4, <1>6, <2>1
  <2>3. /\ events' \in Seq(Event) /\ Once(events')
        /\ \A d \in Clients \ {c} :
             /\ Asked(d)' <=> Contains(Tail(events), <<"CONNECT_REQUEST", d>>)
             /\ Confirmed(d)' <=> Contains(Tail(events), <<"ESTABLISHED", d>>)
        /\ srvHas' \in [Clients -> SUBSET {"id", "pd", "cq", "qp"}]
        /\ link' \in [Clients -> {"none", "requested", "replied", "rtu", "done", "dead"}]
        /\ inbox' \in [Clients -> Seq(Answer)]
        /\ \A d \in Clients \ {c} :
             inbox'[d] = inbox[d] /\ link'[d] = link[d] /\ srvHas'[d] = srvHas[d]
        /\ DialSide(c)' /\ ServerSide(c)'
    BY <1>1, <1>2, <2>1, <2>2, IdDestroyed
  <2>4. CMTyped'
    BY <1>1, <2>3 DEF CMInv, CMTyped
  <2>5. Accepting'
    <3>1. Accepting /\ conns \subseteq Clients /\ NoClient \notin Clients
      BY DEF CMInv, CMTyped, Accepting, CMAssumption
    <3> QED
      BY <1>1, <2>1, <3>1 DEF Accepting
  <2>6. ASSUME NEW d \in Clients \ {c} PROVE DialSide(d)' /\ ServerSide(d)'
    <3>1. DialSide(d) /\ ServerSide(d) /\ cur # d /\ cur' # d
      BY <1>1, <1>6 DEF CMInv, CMAssumption
    <3>2. (Asked(d)' => Asked(d)) /\ (Confirmed(d)' => Confirmed(d))
      BY <1>5, <2>3
    <3>3. d \in dropped \/ Asked(d) => d \in dropped' \/ Asked(d)'
      BY <1>5, <2>1, <2>3
    <3>4. dial'[d] = dial[d] /\ has'[d] = has[d] /\ UNCHANGED <<accepted, conns, open>>
      BY <1>1, <2>1
    <3>5. DialSide(d)'
      BY <2>3, <3>1, <3>4, Unmoved
    <3>6. ServerSide(d)'
      BY <2>3, <3>1, <3>2, <3>3, <3>4, PassedBy
    <3> QED
      BY <3>5, <3>6
  <2> QED
    BY <2>3, <2>4, <2>5, <2>6 DEF CMInv
<1> QED
  BY <1>7, <1>8

LEMMA CMCloseListener == ASSUME CMInv, ListenerClose PROVE CMInv'
<1>1. /\ events' = <<>> /\ open' = FALSE
      /\ UNCHANGED <<dial, has, acc, cur, accepts, srvHas, accepted, conns, dropped>>
      /\ link' = [c \in Clients |-> IF c \in Ended THEN "dead" ELSE link[c]]
      /\ inbox' = [c \in Clients |->
                     IF c \in Ended THEN Append(inbox[c], "DISCONNECTED") ELSE inbox[c]]
  BY DEF ListenerClose
<1>2. <<>> \in Seq(Event) /\ Once(<<>>)
  BY DEF Once
<1>3. ASSUME NEW c \in Clients PROVE ~Asked(c)' /\ ~Confirmed(c)'
  BY <1>1 DEF Asked, Confirmed, Contains
<1>4. ASSUME NEW c \in Clients, c \in Ended
      PROVE  /\ link[c] \in {"requested", "replied", "rtu", "done"} /\ link'[c] = "dead"
             /\ inbox'[c] \in Seq(Answer) /\ Len(inbox'[c]) <= 2
             /\ Contains(inbox'[c], "ESTABLISHED") => Contains(inbox[c], "ESTABLISHED")
             /\ Told(c) => Told(c)'
  <2>1. link[c] \in {"requested", "replied", "rtu", "done"}
    BY <1>4 DEF CMInv, CMTyped, Ended
  <2>2. inbox[c] \in Seq(Answer) /\ "DISCONNECTED" \in Answer
    BY DEF CMInv, CMTyped, Answer
  <2>3. /\ Append(inbox[c], "DISCONNECTED") \in Seq(Answer)
        /\ Append(inbox[c], "DISCONNECTED") # <<>>
        /\ Len(Append(inbox[c], "DISCONNECTED")) = Len(inbox[c]) + 1
        /\ Head(Append(inbox[c], "DISCONNECTED"))
             = IF inbox[c] = <<>> THEN "DISCONNECTED" ELSE Head(inbox[c])
        /\ \A e : Contains(Append(inbox[c], "DISCONNECTED"), e)
                    <=> Contains(inbox[c], e) \/ e = "DISCONNECTED"
    BY <2>2, OnTell
  <2>4. link'[c] = "dead" /\ inbox'[c] = Append(inbox[c], "DISCONNECTED") /\ dial'[c] = dial[c]
    BY <1>1, <1>4
  <2>5. Len(inbox[c]) <= 1 /\ Len(inbox[c]) \in Nat
    <3>1. inbox[c] = <<>> \/ Len(inbox[c]) <= 1
      BY <2>1 DEF CMInv, DialSide
    <3> QED
      BY <2>2, <3>1
  <2>6. Len(inbox'[c]) <= 2
    BY <2>3, <2>4, <2>5
  <2>7. Told(c) => Told(c)'
    BY <2>3, <2>4 DEF Told
  <2>8. Contains(inbox'[c], "ESTABLISHED") => Contains(inbox[c], "ESTABLISHED")
    BY <2>3, <2>4
  <2> QED
    BY <2>1, <2>3, <2>4, <2>6, <2>7, <2>8
<1>5. ASSUME NEW c \in Clients, c \notin Ended
      PROVE  link'[c] = link[c] /\ inbox'[c] = inbox[c]
  BY <1>1, <1>5
<1>6. CMTyped'
  <2>1. inbox' \in [Clients -> Seq(Answer)]
    <3>1. \A c \in Clients : inbox'[c] \in Seq(Answer)
      BY <1>4, <1>5 DEF CMInv, CMTyped
    <3> QED
      BY <1>1, <3>1
  <2>2. link' \in [Clients -> {"none", "requested", "replied", "rtu", "done", "dead"}]
    <3>1. \A c \in Clients : link'[c] \in {"none", "requested", "replied", "rtu", "done", "dead"}
      BY <1>4, <1>5 DEF CMInv, CMTyped
    <3> QED
      BY <1>1, <3>1
  <2> QED
    BY <1>1, <1>2, <2>1, <2>2 DEF CMInv, CMTyped
<1>7. Accepting'
  BY <1>1 DEF CMInv, Accepting
<1>8. ASSUME NEW c \in Clients PROVE DialSide(c)' /\ ServerSide(c)'
  <2>1. DialSide(c) /\ ServerSide(c) /\ ~Asked(c)' /\ ~Confirmed(c)'
    BY <1>3 DEF CMInv
  <2>2. CASE c \in Ended
    <3>1. DialSide(c)'
      BY <1>1, <1>4, <2>1, <2>2 DEF DialSide
    <3>2. ServerSide(c)'
      BY <1>1, <1>4, <2>1, <2>2 DEF ServerSide
    <3> QED
      BY <3>1, <3>2
  <2>3. CASE c \notin Ended
    <3>1. DialSide(c)'
      BY <1>1, <1>5, <2>1, <2>3 DEF DialSide
    <3>2. Told(c) <=> Told(c)'
      BY <1>1, <1>5, <2>3 DEF Told
    <3>3. ServerSide(c)'
      BY <1>1, <1>5, <2>1, <2>3, <3>2 DEF ServerSide
    <3> QED
      BY <3>1, <3>3
  <2> QED
    BY <2>2, <2>3
<1> QED
  BY <1>6, <1>7, <1>8 DEF CMInv

LEMMA CMInductive == ASSUME CMAssumption, CMInv, [CMNext]_cmVars PROVE CMInv'
<1>1. ASSUME NEW c \in Clients,
             Resolve(c) \/ RdmaConnect(c) \/ AwaitAnswer(c) \/ CloseDialed(c)
               \/ CM(c) \/ CloseAccepted(c)
      PROVE  CMInv'
  BY <1>1, CMResolve, CMConnect, CMAwaitAnswer, CMCloseDialed, CMRepArrives, CMRtuArrives,
     CMGiveUp, CMCloseAccepted DEF CM
<1>2. CASE AcceptCall \/ Accept \/ ListenerClose
  BY <1>2, CMAcceptCall, CMGetRequest, CMBuild, CMRdmaAccept, CMGetEstablished,
     CMCloseListener DEF Accept
<1>3. CASE UNCHANGED cmVars
  <2>1. UNCHANGED <<dial, has, inbox, link, events, open, acc, cur, accepts, srvHas, accepted,
                    conns, dropped>>
    BY <1>3 DEF cmVars, client, server
  <2>2. CMTyped' /\ Accepting'
    BY <2>1 DEF CMInv, CMTyped, Accepting
  <2>3. ASSUME NEW c \in Clients PROVE DialSide(c)' /\ ServerSide(c)'
    <3>1. DialSide(c) /\ ServerSide(c)
      BY DEF CMInv
    <3>2. DialSide(c)'
      BY <2>1, <3>1, Unmoved
    <3>3. ServerSide(c)'
      BY <2>1, <3>1, EventsStay, PassedBy
    <3> QED
      BY <3>2, <3>3
  <2> QED
    BY <2>2, <2>3 DEF CMInv
<1> QED
  BY <1>1, <1>2, <1>3 DEF CMNext

(* Every reachable state of the set-up by rdma_cm satisfies the invariant, *)
(* for any number of Dials and calls of Accept.                            *)
THEOREM CMInvariant == ASSUME CMAssumption PROVE CMSpec => []CMInv
<1>1. CMInit => CMInv
  BY CMFresh
<1>2. CMInv /\ [CMNext]_cmVars => CMInv'
  BY CMInductive
<1> QED
  BY <1>1, <1>2, PTL DEF CMSpec

(* What Accept works on it has not returned, and what it has returned was  *)
(* accepted; no Dial has more than two events to read.                     *)
THEOREM CMTypeCorrect == ASSUME CMAssumption PROVE CMSpec => []CMTypeOK
<1>1. CMInv => CMTypeOK
  BY DEF CMInv, CMTyped, Accepting, DialSide, CMTypeOK, CMObjects
<1>2. CMSpec => []CMInv
  BY CMInvariant
<1> QED
  BY <1>1, <1>2, PTL

(* A connection that either end has returned exists at both: the Dial's    *)
(* was accepted, and the Dial of the one Accept returns has been told,     *)
(* although Accept compares only the kind of the event it reads last       *)
(* (cm_linux.go:142-156).                                                  *)
THEOREM ReturnedMeansEstablished ==
  ASSUME CMAssumption PROVE CMSpec => []ReturnedIsEstablished
<1>1. CMInv => ReturnedIsEstablished
  BY DEF CMInv, CMTyped, Accepting, DialSide, ServerSide, Told,
         ReturnedIsEstablished, DialedIsAccepted, AcceptedIsEstablished
<1>2. CMSpec => []CMInv
  BY CMInvariant
<1> QED
  BY <1>1, <1>2, PTL

(* Whatever the listener's side has made for a connection belongs to a     *)
(* request in the queue, to the Accept in progress or to a connection it   *)
(* has returned, but for the requests Accept drops; and a Dial that fails  *)
(* before rdma_connect, or is closed, holds nothing.                       *)
THEOREM CMNothingIsLeaked == ASSUME CMAssumption PROVE CMSpec => []CMNothingLeaks
<1>1. CMInv => CMNothingLeaks
  <2> SUFFICES ASSUME CMInv, NEW c \in Clients
               PROVE  /\ dial[c] \in {"failed", "closed"} => has[c] = {}
                      /\ open /\ srvHas[c] # {} =>
                           \/ c \in conns \cup dropped \cup {cur}
                           \/ \E i \in 1 .. Len(events) : events[i] = <<"CONNECT_REQUEST", c>>
                      /\ srvHas[c] \ {"id"} # {} => c \in conns \cup {cur}
    BY DEF CMNothingLeaks
  <2>1. DialSide(c) /\ ServerSide(c)
    BY DEF CMInv
  <2>2. Asked(c) <=> \E i \in 1 .. Len(events) : events[i] = <<"CONNECT_REQUEST", c>>
    BY DEF Asked, Contains
  <2>3. dial[c] \in {"failed", "closed"} => has[c] = {}
    BY <2>1 DEF DialSide
  <2>4. srvHas[c] \ {"id"} # {} => c \in conns \cup {cur}
    BY <2>1 DEF ServerSide
  <2>5. open /\ srvHas[c] # {} => c \in conns \cup dropped \cup {cur} \/ Asked(c)
    BY <2>1 DEF ServerSide
  <2> QED
    BY <2>2, <2>3, <2>4, <2>5
<1>2. CMSpec => []CMInv
  BY CMInvariant
<1> QED
  BY <1>1, <1>2, PTL
=============================================================================
