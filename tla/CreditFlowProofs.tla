-------------------------- MODULE CreditFlowProofs --------------------------
(***************************************************************************)
(* Proofs about CreditFlow for every depth: types, conservation of credits *)
(* and of RECV slots, and that data frames alone never overrun the ring.   *)
(***************************************************************************)
EXTENDS CreditFlow, TLAPS

(* The counters stay natural numbers: no credit, slot or frame count is    *)
(* ever decremented below zero.                                            *)
THEOREM TypeCorrect == Spec => []TypeOK
<1>1. Init => TypeOK
  <2> SUFFICES ASSUME Init PROVE TypeOK
    OBVIOUS
  <2>1. side \in {"none", "up", "gone"} /\ broken \in BOOLEAN
    BY Zenon DEF Init
  <2>2. /\ credits = Depth
        /\ held = 0 /\ lost = 0 /\ flight = 0 /\ landed = 0 /\ pending = 0
        /\ returning = 0 /\ ring = 0 /\ ctl = 0
    BY Zenon DEF Init
  <2>3. QED
    BY <2>1, <2>2, DepthAssumption DEF TypeOK
<1>2. TypeOK /\ [Next]_vars => TypeOK'
  <2> SUFFICES ASSUME TypeOK, [Next]_vars PROVE TypeOK'
    OBVIOUS
  <2> USE DepthAssumption DEF TypeOK
  <2>1. CASE RingUp     BY <2>1 DEF RingUp
  <2>2. CASE Acquire    BY <2>2 DEF Acquire
  <2>3. CASE Post       BY <2>3 DEF Post
  <2>4. CASE Land       BY <2>4 DEF Land
  <2>5. CASE Consume    BY <2>5 DEF Consume
  <2>6. ASSUME NEW n \in 1 .. Depth, Return(n) PROVE TypeOK'
    BY <2>6 DEF Return
  <2>7. ASSUME NEW n \in 1 .. Depth, Release(n) PROVE TypeOK'
    BY <2>7 DEF Release
  <2>8. CASE CtlLand    BY <2>8 DEF CtlLand
  <2>9. CASE CtlRepost  BY <2>9 DEF CtlRepost
  <2>10. CASE Break     BY <2>10 DEF Break
  <2>11. CASE Lose      BY <2>11 DEF Lose
  <2>12. CASE PostFails BY <2>12 DEF PostFails
  <2>13. CASE LoseSlot  BY <2>13 DEF LoseSlot
  <2>14. CASE UNCHANGED vars  BY <2>14 DEF vars
  <2>15. QED
    BY <2>1, <2>2, <2>3, <2>4, <2>5, <2>6, <2>7, <2>8, <2>9, <2>10, <2>11,
       <2>12, <2>13, <2>14 DEF Next
<1>3. QED  BY <1>1, <1>2, PTL DEF Spec

(* No credit is duplicated, and while neither end has failed none is lost: *)
(* the credits of creditTracker, in frames and on the way back add up to   *)
(* depth.                                                                  *)
LEMMA CreditsAreConserved == Spec => []CreditsConserved
<1>1. Init => CreditsConserved
  BY DepthAssumption DEF Init, CreditsConserved
<1>2. TypeOK /\ CreditsConserved /\ [Next]_vars => CreditsConserved'
  <2> SUFFICES ASSUME TypeOK, CreditsConserved, [Next]_vars
               PROVE  CreditsConserved'
    OBVIOUS
  <2> USE DepthAssumption DEF TypeOK, CreditsConserved
  <2>1. CASE RingUp     BY <2>1 DEF RingUp
  <2>2. CASE Acquire    BY <2>2 DEF Acquire
  <2>3. CASE Post       BY <2>3 DEF Post
  <2>4. CASE Land       BY <2>4 DEF Land
  <2>5. CASE Consume    BY <2>5 DEF Consume
  <2>6. ASSUME NEW n \in 1 .. Depth, Return(n) PROVE CreditsConserved'
    BY <2>6 DEF Return
  <2>7. ASSUME NEW n \in 1 .. Depth, Release(n) PROVE CreditsConserved'
    BY <2>7 DEF Release
  <2>8. CASE CtlLand    BY <2>8 DEF CtlLand
  <2>9. CASE CtlRepost  BY <2>9 DEF CtlRepost
  <2>10. CASE Break
    <3>1. PICK n \in 0 .. pending : pending' = n
      BY <2>10 DEF Break
    <3>2. broken' /\ UNCHANGED <<credits, held, lost, flight, landed, returning>>
      BY <2>10 DEF Break
    <3>3. credits + held + lost + flight + landed + n + returning <= Depth
      BY <3>1
    <3>4. QED  BY <3>1, <3>2, <3>3
  <2>11. CASE Lose      BY <2>11 DEF Lose
  <2>12. CASE PostFails BY <2>12 DEF PostFails
  <2>13. CASE LoseSlot  BY <2>13 DEF LoseSlot
  <2>14. CASE UNCHANGED vars  BY <2>14 DEF vars
  <2>15. QED
    BY <2>1, <2>2, <2>3, <2>4, <2>5, <2>6, <2>7, <2>8, <2>9, <2>10, <2>11,
       <2>12, <2>13, <2>14 DEF Next
<1>3. QED  BY <1>1, <1>2, TypeCorrect, PTL DEF Spec

(* The receiver's depth RECV slots are never forgotten or posted twice.    *)
LEMMA RingIsConserved == Spec => []RingConserved
<1>1. Init => RingConserved
  <2> SUFFICES ASSUME Init PROVE RingConserved
    OBVIOUS
  <2>1. side = "none" /\ ring = 0 /\ ctl = 0 /\ landed = 0
    BY Zenon DEF Init
  <2>2. QED
    BY <2>1, DepthAssumption DEF RingConserved
<1>2. TypeOK /\ RingConserved /\ [Next]_vars => RingConserved'
  <2> SUFFICES ASSUME TypeOK, RingConserved, [Next]_vars
               PROVE  RingConserved'
    OBVIOUS
  <2> USE DepthAssumption DEF TypeOK, RingConserved
  <2>1. CASE RingUp     BY <2>1 DEF RingUp
  <2>2. CASE Acquire    BY <2>2 DEF Acquire
  <2>3. CASE Post       BY <2>3 DEF Post
  <2>4. CASE Land       BY <2>4 DEF Land
  <2>5. CASE Consume    BY <2>5 DEF Consume
  <2>6. ASSUME NEW n \in 1 .. Depth, Return(n) PROVE RingConserved'
    BY <2>6 DEF Return
  <2>7. ASSUME NEW n \in 1 .. Depth, Release(n) PROVE RingConserved'
    BY <2>7 DEF Release
  <2>8. CASE CtlLand    BY <2>8 DEF CtlLand
  <2>9. CASE CtlRepost  BY <2>9 DEF CtlRepost
  <2>10. CASE Break     BY <2>10 DEF Break
  <2>11. CASE Lose      BY <2>11 DEF Lose
  <2>12. CASE PostFails BY <2>12 DEF PostFails
  <2>13. CASE LoseSlot  BY <2>13 DEF LoseSlot
  <2>14. CASE UNCHANGED vars  BY <2>14 DEF vars
  <2>15. QED
    BY <2>1, <2>2, <2>3, <2>4, <2>5, <2>6, <2>7, <2>8, <2>9, <2>10, <2>11,
       <2>12, <2>13, <2>14 DEF Next
<1>3. QED  BY <1>1, <1>2, TypeCorrect, PTL DEF Spec

(* Every credit that may still become a frame is matched by a slot of the  *)
(* ring, even on a connection that is losing frames while it closes.       *)
LEMMA CreditsAreMatched == Spec => []CreditsMatched
<1> DEFINE Inv == TypeOK /\ CreditsConserved /\ RingConserved
<1>1. Init => CreditsMatched
  BY DEF Init, CreditsMatched
<1>2. Inv /\ CreditsMatched /\ [Next]_vars => CreditsMatched'
  <2> SUFFICES ASSUME Inv, CreditsMatched, [Next]_vars
               PROVE  CreditsMatched'
    OBVIOUS
  <2> USE DepthAssumption DEF TypeOK, CreditsMatched
  <2>1. CASE RingUp
    BY <2>1 DEF RingUp, CreditsConserved, RingConserved
  <2>2. CASE Acquire    BY <2>2 DEF Acquire
  <2>3. CASE Post       BY <2>3 DEF Post
  <2>4. CASE Land       BY <2>4 DEF Land
  <2>5. CASE Consume    BY <2>5 DEF Consume
  <2>6. ASSUME NEW n \in 1 .. Depth, Return(n) PROVE CreditsMatched'
    BY <2>6 DEF Return
  <2>7. ASSUME NEW n \in 1 .. Depth, Release(n) PROVE CreditsMatched'
    BY <2>7 DEF Release
  <2>8. CASE CtlLand    BY <2>8 DEF CtlLand
  <2>9. CASE CtlRepost  BY <2>9 DEF CtlRepost
  <2>10. CASE Break
    <3>1. PICK n \in 0 .. pending : pending' = n
      BY <2>10 DEF Break
    <3>2. side' = "up" => side = "up"
      BY <2>10 DEF Break
    <3>3. UNCHANGED <<credits, held, flight, returning, ring, ctl>>
      BY <2>10 DEF Break
    <3>4. side = "up" => credits + held + flight + n + returning <= ring + ctl
      BY <3>1
    <3>5. QED  BY <3>1, <3>2, <3>3, <3>4
  <2>11. CASE Lose      BY <2>11 DEF Lose
  <2>12. CASE PostFails BY <2>12 DEF PostFails
  <2>13. CASE LoseSlot  BY <2>13 DEF LoseSlot
  <2>14. CASE UNCHANGED vars  BY <2>14 DEF vars
  <2>15. QED
    BY <2>1, <2>2, <2>3, <2>4, <2>5, <2>6, <2>7, <2>8, <2>9, <2>10, <2>11,
       <2>12, <2>13, <2>14 DEF Next
<1>3. QED
  BY <1>1, <1>2, TypeCorrect, CreditsAreConserved, RingIsConserved, PTL
  DEF Spec

(* All of the accounting: what TLC checks for a window of three holds for  *)
(* every depth.                                                            *)
THEOREM CreditsAreAccounted == Spec => []CreditsAccounted
<1>1. CreditsConserved /\ RingConserved /\ CreditsMatched => CreditsAccounted
  BY DEF CreditsAccounted
<1>2. QED
  BY <1>1, CreditsAreConserved, RingIsConserved, CreditsAreMatched, PTL

(* creditTracker does what its comment says for data frames: with credits  *)
(* and slots matched, data in flight fits the ring for every depth.        *)
THEOREM DataNeverOverruns == Spec => []DataFits
<1>1. TypeOK /\ CreditsMatched => DataFits
  BY DEF TypeOK, CreditsMatched, DataFits
<1>2. QED  BY <1>1, TypeCorrect, CreditsAreMatched, PTL
=============================================================================
