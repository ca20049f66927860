----------------------------- MODULE CreditFlow -----------------------------
(***************************************************************************)
(* What credit-based flow control promises for ONE direction of an RC      *)
(* connection, in counters only: the sender's creditTracker, the frames    *)
(* between its acquire() and the receiver's consumeFrameLocked(), the      *)
(* credits on their way back, and the receiver's ring of posted RECVs.     *)
(* Module Transport is the goroutine-level model; it is shown to implement *)
(* this module in each direction.                                          *)
(***************************************************************************)
EXTENDS Naturals, Window

VARIABLES
  credits,    \* creditTracker.credits of the sender
  held,       \* credits acquired for a frame that is not posted yet
  lost,       \* credits whose frame PostSend refused
  flight,     \* data frames posted by the sender, not landed yet
  landed,     \* data frames in a RECV slot of the receiver, not consumed
  pending,    \* frames consumed whose credit has not been sent back
  returning,  \* credits inside credit frames on their way to the sender
  ring,       \* RECVs posted and free
  ctl,        \* RECV slots occupied by a credit or FIN frame
  side,       \* the receiver's ring: "none", "up" or "gone"
  broken      \* some end of the connection has failed or been closed

vars == <<credits, held, lost, flight, landed, pending, returning, ring, ctl,
          side, broken>>

Init ==
  /\ credits = Depth
  /\ held = 0 /\ lost = 0 /\ flight = 0 /\ landed = 0 /\ pending = 0 /\ returning = 0
  /\ ring = 0 /\ ctl = 0
  /\ side = "none"
  /\ broken = FALSE

-----------------------------------------------------------------------------
(* The receiver's first use of the connection posts the whole ring. *)
RingUp ==
  /\ side = "none"
  /\ side' = "up"
  /\ ring' = Depth
  /\ UNCHANGED <<credits, held, lost, flight, landed, pending,
                 returning, ctl, broken>>

Acquire ==
  /\ credits > 0
  /\ credits' = credits - 1
  /\ held' = held + 1
  /\ UNCHANGED <<lost, flight, landed, pending, returning, ring,
                 ctl, side, broken>>

Post ==
  /\ held > 0
  /\ held' = held - 1
  /\ flight' = flight + 1
  /\ UNCHANGED <<credits, lost, landed, pending, returning, ring,
                 ctl, side, broken>>

(* A frame that PostSend refuses costs its credit, on an open connection   *)
(* too: sendFrame gives back the slot only.                                *)
PostFails ==
  /\ held > 0
  /\ held' = held - 1
  /\ lost' = lost + 1
  /\ UNCHANGED <<credits, flight, landed, pending, returning, ring, ctl, side,
                 broken>>

(* A frame lands only in a posted RECV. *)
Land ==
  /\ flight > 0 /\ ring > 0
  /\ flight' = flight - 1
  /\ ring' = ring - 1
  /\ landed' = landed + 1
  /\ UNCHANGED <<credits, held, lost, pending, returning, ctl, side, broken>>

(* The receiver takes a frame, reposts its slot and owes one credit. *)
Consume ==
  /\ landed > 0
  /\ side = "up"
  /\ landed' = landed - 1
  /\ ring' = ring + 1
  /\ pending' = pending + 1
  /\ UNCHANGED <<credits, held, lost, flight, returning, ctl, side, broken>>

(* Owed credits are sent back in bulk, and released to the sender. *)
Return(n) ==
  /\ n \in 1 .. pending
  /\ pending' = pending - n
  /\ returning' = returning + n
  /\ UNCHANGED <<credits, held, lost, flight, landed, ring, ctl, side, broken>>

Release(n) ==
  /\ n \in 1 .. returning
  /\ returning' = returning - n
  /\ credits' = credits + n
  /\ UNCHANGED <<held, lost, flight, landed, pending, ring, ctl, side, broken>>

(* Control frames of the other direction use the same ring, uncredited. *)
CtlLand ==
  /\ ring > 0
  /\ ring' = ring - 1
  /\ ctl' = ctl + 1
  /\ UNCHANGED <<credits, held, lost, flight, landed, pending,
                 returning, side, broken>>

CtlRepost ==
  /\ ctl > 0
  /\ ctl' = ctl - 1
  /\ ring' = ring + 1
  /\ UNCHANGED <<credits, held, lost, flight, landed, pending,
                 returning, side, broken>>

-----------------------------------------------------------------------------
(* Only a broken connection may lose a credit unnoticed: those owed by the *)
(* receiver whose credit frame is refused (which closes the transport) or  *)
(* that finds it closed, one held by a sender that does, or that of a      *)
(* frame, with its slot, that a closed transport drops.                    *)
Break ==
  /\ broken' = TRUE
  /\ side' \in {side, "gone"}
  /\ pending' \in 0 .. pending
  /\ UNCHANGED <<credits, held, lost, flight, landed, returning, ring, ctl>>

Lose ==
  /\ broken
  /\ \/ /\ held > 0
        /\ held' = held - 1
        /\ UNCHANGED <<landed, pending>>
     \/ /\ pending > 0
        /\ \E n \in 1 .. pending : pending' = pending - n
        /\ UNCHANGED <<held, landed>>
     \/ /\ landed > 0
        /\ landed' = landed - 1
        /\ UNCHANGED <<held, pending>>
  /\ UNCHANGED <<credits, lost, flight, returning, ring, ctl, side, broken>>

(* A slot that held a control frame cannot be reposted on a queue pair     *)
(* that is gone.                                                           *)
LoseSlot ==
  /\ side = "gone" /\ ctl > 0
  /\ ctl' = ctl - 1
  /\ UNCHANGED <<credits, held, lost, flight, landed, pending, returning, ring,
                 side, broken>>

Next ==
  \/ RingUp \/ Acquire \/ Post \/ PostFails \/ Land \/ Consume
  \/ \E n \in 1 .. Depth : Return(n) \/ Release(n)
  \/ CtlLand \/ CtlRepost
  \/ Break \/ Lose \/ LoseSlot

Spec == Init /\ [][Next]_vars

-----------------------------------------------------------------------------
TypeOK ==
  /\ credits \in Nat /\ held \in Nat /\ lost \in Nat /\ flight \in Nat
  /\ landed \in Nat
  /\ pending \in Nat /\ returning \in Nat /\ ring \in Nat /\ ctl \in Nat
  /\ side \in {"none", "up", "gone"}
  /\ broken \in BOOLEAN

(* Every credit is somewhere: transport_linux.go seeds the tracker with    *)
(* depth credits, and while both ends are open none is created, and none   *)
(* dropped but with a frame that PostSend refused.                         *)
CreditsConserved ==
  LET total == credits + held + lost + flight + landed + pending + returning
  IN  /\ total <= Depth
      /\ ~broken => total = Depth

(* Every RECV slot is posted, or holds a data frame, or a control frame,   *)
(* and none is lost while both ends are open.                              *)
RingConserved ==
  /\ side = "none" => ring = 0 /\ ctl = 0 /\ landed = 0
  /\ ring + ctl + landed <= Depth
  /\ side = "up" /\ ~broken => ring + ctl + landed = Depth

(* creditTracker's purpose (credit.go:5-10): once the receiver's ring is   *)
(* up, the data frames in flight never exceed the RECVs that are posted or *)
(* about to be reposted after a control frame. A data frame can only find  *)
(* the receiver not ready because a control frame holds the slot.          *)
DataFits == side = "up" => flight <= ring + ctl

(* Why DataFits is kept: not only the frames in flight but every credit    *)
(* that can still become one is matched by a slot that is or will be free. *)
CreditsMatched ==
  side = "up" => credits + held + flight + pending + returning <= ring + ctl

(* Credits and slots are conserved, and remain matched to each other, over *)
(* any sequence of sends, credit returns, failures and losses.             *)
CreditsAccounted == CreditsConserved /\ RingConserved /\ CreditsMatched
=============================================================================
