--------------------------- MODULE ZeroCopyProofs ---------------------------
(***************************************************************************)
(* The mix of SendBuffer and SendMsg loses no control slot and no token,   *)
(* never has more credits in use than the window, returns on its own       *)
(* completion and has a Buffer in one send at most: for any callers, even  *)
(* without end, any Buffers, window and number of control slots.           *)
(***************************************************************************)
EXTENDS ZeroCopy, FiniteSetTheorems, TLAPS

Places == {"idle", "lock", "credit", "slot", "post", "wait", "unlock"}
Items  == Buffers \cup {Msg}
States == {"idle", "inFlight", "released"}

Typing ==
  /\ pc \in [Callers -> Places] /\ item \in [Callers -> Items]
  /\ calls \in Nat /\ state \in [Buffers -> States]
  /\ credits \in Nat /\ ctl \in Nat /\ unread \in Nat
  /\ bufDone \in Nat /\ sendDone \in Nat
  /\ wire \subseteq Callers

(* Who has a control slot, a credit that is not on a frame yet, and a SEND *)
(* to wait for. A SendBuffer has its credit before the mutex.              *)
HasSlot   == {c \in Callers : pc[c] \in {"post", "wait"} /\ ZeroCopied(c)}
HasCredit == {c \in Callers : \/ pc[c] = "post"
                              \/ pc[c] \in {"lock", "slot"} /\ ZeroCopied(c)}
Waiting   == {c \in Callers : pc[c] = "wait"}

(* Between Lock and Unlock a caller holds the mutex, and only a SendBuffer *)
(* asks for a control slot.                                                *)
InMutex(c) == \/ pc[c] \in {"slot", "post", "wait"}
              \/ pc[c] = "credit" /\ ~ZeroCopied(c)

Excluded ==
  \A c \in Callers : /\ InMutex(c) => holder = c
                     /\ pc[c] = "slot" => ZeroCopied(c)

Slots  == IsFiniteSet(HasSlot) /\ ctl + Cardinality(HasSlot) = CtlSlots
Window == /\ IsFiniteSet(HasCredit) /\ credits + unread + Cardinality(HasCredit) <= Depth
          /\ takesTwoSges /\ ~closed => credits + unread + Cardinality(HasCredit) = Depth

(* While the transport is open, every call that waits has its SEND on the  *)
(* wire or its token pushed, and no other SEND is on the wire.             *)
Tokens ==
  ~closed => /\ IsFiniteSet(Waiting) /\ IsFiniteSet(wire) /\ wire \subseteq Waiting
             /\ Cardinality(Waiting) = Cardinality(wire) + bufDone + sendDone

(* A Buffer that is in flight has a call, only one, and is not idle in it. *)
InUse(c, b) == pc[c] # "idle" /\ item[c] = b

Owned ==
  \A b \in Buffers :
    /\ \A c, d \in Callers : InUse(c, b) /\ InUse(d, b) => c = d
    /\ \A c \in Callers : InUse(c, b) => state[b] # "idle"
    /\ state[b] = "inFlight" => \E c \in Callers : InUse(c, b)

IInv == Typing /\ Excluded /\ Slots /\ Window /\ Tokens /\ Owned


-----------------------------------------------------------------------------
LEMMA Joined ==
  ASSUME NEW S, NEW c, IsFiniteSet(S), c \notin S
  PROVE  /\ IsFiniteSet(S \cup {c}) /\ Cardinality(S) \in Nat
         /\ Cardinality(S \cup {c}) = Cardinality(S) + 1
BY FS_AddElement, FS_CardinalityType

LEMMA Gone ==
  ASSUME NEW S, NEW c, IsFiniteSet(S), c \in S
  PROVE  /\ IsFiniteSet(S \ {c}) /\ Cardinality(S \ {c}) \in Nat
         /\ Cardinality(S) = Cardinality(S \ {c}) + 1
<1>1. IsFiniteSet(S \ {c}) /\ Cardinality(S \ {c}) = Cardinality(S) - 1
  BY FS_RemoveElement
<1>2. Cardinality(S) \in Nat /\ Cardinality(S \ {c}) \in Nat
  BY <1>1, FS_CardinalityType
<1> QED BY <1>1, <1>2

LEMMA Unmoved ==
  ASSUME NEW S, NEW c, c \notin S
  PROVE  S \ {c} = S
OBVIOUS

LEMMA NoTokens ==
  ASSUME NEW a \in Nat, NEW b \in Nat, a + b + 1 = 1
  PROVE  a = 0 /\ b = 0
OBVIOUS

(* A step of c moves c alone. *)
LEMMA Moved ==
  ASSUME Typing, NEW c \in Callers, NEW p \in Places, Go(c, p), item' = item
  PROVE  /\ pc' \in [Callers -> Places] /\ pc'[c] = p
         /\ \A d \in Callers : d # c => pc'[d] = pc[d]
         /\ HasSlot' = IF p \in {"post", "wait"} /\ ZeroCopied(c)
                         THEN HasSlot \cup {c} ELSE HasSlot \ {c}
         /\ HasCredit' = IF p = "post" \/ (p \in {"lock", "slot"} /\ ZeroCopied(c))
                           THEN HasCredit \cup {c} ELSE HasCredit \ {c}
         /\ Waiting' = IF p = "wait" THEN Waiting \cup {c} ELSE Waiting \ {c}
<1>1. /\ pc' \in [Callers -> Places] /\ pc'[c] = p
      /\ \A d \in Callers : d # c => pc'[d] = pc[d]
  BY DEF Typing, Go
<1>2. \A d \in Callers : ZeroCopied(d)' = ZeroCopied(d)
  BY DEF ZeroCopied
<1>3. HasSlot' = IF p \in {"post", "wait"} /\ ZeroCopied(c)
                  THEN HasSlot \cup {c} ELSE HasSlot \ {c}
  BY <1>1, <1>2 DEF HasSlot
<1>4. HasCredit' = IF p = "post" \/ (p \in {"lock", "slot"} /\ ZeroCopied(c))
                    THEN HasCredit \cup {c} ELSE HasCredit \ {c}
  <2> DEFINE P(d) == \/ pc[d] = "post"
                     \/ pc[d] \in {"lock", "slot"} /\ ZeroCopied(d)
  <2>1. HasCredit = {d \in Callers : P(d)} /\ HasCredit' = {d \in Callers : P(d)'}
    BY DEF HasCredit
  <2>2. \A d \in Callers : d # c => (P(d)' <=> P(d))
    BY <1>1, <1>2
  <2>3. P(c)' <=> (p = "post" \/ (p \in {"lock", "slot"} /\ ZeroCopied(c)))
    BY <1>1, <1>2
  <2> HIDE DEF P
  <2> QED BY <2>1, <2>2, <2>3
<1>5. Waiting' = IF p = "wait" THEN Waiting \cup {c} ELSE Waiting \ {c}
  BY <1>1 DEF Waiting
<1> QED BY <1>1, <1>3, <1>4, <1>5

(* Nobody else is in the mutex. *)
LEMMA Alone ==
  ASSUME Excluded, NEW c \in Callers, InMutex(c), NEW d \in Callers, InMutex(d)
  PROVE  d = c
BY DEF Excluded

(* A step by which c stays in its call changes no Buffer's owner. *)
LEMMA OwnedStays ==
  ASSUME Typing, Owned, NEW c \in Callers, NEW p \in Places, Go(c, p),
         p # "idle", pc[c] # "idle", item' = item, state' = state
  PROVE  Owned'
<1>1. \A d \in Callers, b \in Buffers : InUse(d, b)' <=> InUse(d, b)
  BY DEF Typing, Go, InUse
<1> QED BY <1>1 DEF Owned

(* A step that moves nobody into the mutex keeps it exclusive. *)
LEMMA ExcludedStays ==
  ASSUME Typing, Excluded, NEW c \in Callers, NEW p \in Places, Go(c, p),
         item' = item,
         \A d \in Callers : d # c /\ holder = d => holder' = d,
         p \in {"slot", "post", "wait"} => holder' = c,
         p = "credit" /\ ~ZeroCopied(c) => holder' = c,
         p = "slot" => ZeroCopied(c)
  PROVE  Excluded'
<1>1. \A d \in Callers : /\ pc'[d] = IF d = c THEN p ELSE pc[d]
                         /\ ZeroCopied(d)' <=> ZeroCopied(d)
  BY DEF Typing, Go, ZeroCopied
<1>2. ASSUME NEW d \in Callers
      PROVE  (InMutex(d)' => holder' = d) /\ (pc'[d] = "slot" => ZeroCopied(d)')
  <2>1. CASE d = c    BY <1>1, <2>1 DEF InMutex
  <2>2. CASE d # c    BY <1>1, <2>2 DEF InMutex, Excluded
  <2> QED BY <2>1, <2>2
<1> QED BY <1>2 DEF Excluded

-----------------------------------------------------------------------------
LEMMA InitIInv ==
  Init => IInv
<1> SUFFICES ASSUME Init PROVE IInv
  OBVIOUS
<1>1. Typing
  BY ZeroAssumption DEF Init, Typing, Places, Items, States
<1>2. Excluded
  BY DEF Init, Excluded, InMutex
<1>3. HasSlot = {} /\ HasCredit = {} /\ Waiting = {}
  BY DEF Init, HasSlot, HasCredit, Waiting
<1>4. Slots /\ Window
  BY <1>3, FS_EmptySet, ZeroAssumption DEF Init, Slots, Window
<1>5. Tokens
  BY <1>3, FS_EmptySet DEF Init, Tokens
<1>6. Owned
  BY DEF Init, Owned, InUse
<1> QED BY <1>1, <1>2, <1>4, <1>5, <1>6 DEF IInv

LEMMA CallIInv ==
  ASSUME IInv, NEW c \in Callers, NEW i \in Items, Call(c, i)
  PROVE  IInv'
<1> USE DEF IInv
<1>1. /\ pc[c] = "idle" /\ calls' = calls + 1
      /\ UNCHANGED <<credits, holder, ctl, wire, unread, bufDone, sendDone, closed,
                   takesTwoSges>>
  BY DEF Call
<1>2. \/ /\ item' = [item EXCEPT ![c] = i]
         /\ \/ i = Msg /\ Go(c, "lock") /\ UNCHANGED state
            \/ /\ i # Msg /\ state[i] = "idle" /\ Go(c, "credit")
               /\ state' = [state EXCEPT ![i] = "inFlight"]
      \/ UNCHANGED <<pc, item, state>>
  BY DEF Call, Begin
<1>3. /\ pc'[c] # "idle" => item'[c] = i
      /\ \A d \in Callers : d # c => item'[d] = item[d]
  BY <1>1, <1>2 DEF Typing
<1>4. /\ \A d \in Callers : d # c => pc'[d] = pc[d]
      /\ pc'[c] \in {"idle", "lock", "credit"}
      /\ pc'[c] = "lock" => i = Msg
      /\ pc'[c] = "credit" => i # Msg
  BY <1>1, <1>2 DEF Go, Typing
<1>5. Typing'
  <2>1. pc' \in [Callers -> Places]
    BY <1>2 DEF Go, Typing, Places
  <2>2. state' \in [Buffers -> States]
    BY <1>2 DEF Typing, States
  <2>3. item' \in [Callers -> Items] /\ calls' \in Nat
    BY <1>1, <1>2 DEF Typing
  <2> QED BY <1>1, <2>1, <2>2, <2>3 DEF Typing
<1>6. HasSlot' = HasSlot /\ HasCredit' = HasCredit /\ Waiting' = Waiting
  BY <1>1, <1>3, <1>4 DEF HasSlot, HasCredit, Waiting, ZeroCopied
<1>7. Excluded'
  BY <1>1, <1>3, <1>4 DEF Excluded, InMutex, ZeroCopied
<1>8. Slots' /\ Window' /\ Tokens'
  BY <1>1, <1>6 DEF Slots, Window, Tokens
<1>9. Owned'
  <2>1. CASE pc'[c] = "credit"
    <3>1. /\ i \in Buffers /\ state[i] = "idle"
          /\ state' = [state EXCEPT ![i] = "inFlight"]
      BY <1>1, <1>2, <2>1 DEF Go, Typing, Items
    <3>2. \A d \in Callers : ~InUse(d, i)
      BY <3>1 DEF Owned
    <3>3. \A d \in Callers, b \in Buffers :
            InUse(d, b)' <=> InUse(d, b) \/ (d = c /\ b = i)
      BY <1>1, <1>3, <1>4, <2>1 DEF InUse
    <3>4. \A b \in Buffers : state'[b] = IF b = i THEN "inFlight" ELSE state[b]
      BY <3>1 DEF Typing
    <3> QED BY <3>1, <3>2, <3>3, <3>4 DEF Owned
  <2>2. CASE pc'[c] # "credit"
    <3>1. state' = state
      BY <1>2, <2>2 DEF Go, Typing
    <3>2. \A d \in Callers, b \in Buffers : InUse(d, b)' <=> InUse(d, b)
      BY <1>1, <1>3, <1>4, <2>2, ZeroAssumption DEF InUse
    <3> QED BY <3>1, <3>2 DEF Owned
  <2> QED BY <2>1, <2>2
<1> QED BY <1>5, <1>7, <1>8, <1>9

-----------------------------------------------------------------------------
LEMMA CreditIInv ==
  ASSUME IInv, NEW c \in Callers, Credit(c)
  PROVE  IInv'
<1> USE DEF IInv
<1>1. /\ pc[c] = "credit"
      /\ UNCHANGED <<item, calls, state, holder, ctl, wire, unread, bufDone, sendDone, closed,
                   takesTwoSges>>
  BY DEF Credit
<1>2. c \notin HasSlot /\ c \notin HasCredit /\ c \notin Waiting
  BY <1>1 DEF HasSlot, HasCredit, Waiting
<1>3. CASE closed /\ Go(c, "unlock") /\ UNCHANGED credits
  <2>1. "unlock" \in Places
    BY DEF Places
  <2>2. HasSlot' = HasSlot /\ HasCredit' = HasCredit /\ Waiting' = Waiting
    BY <1>1, <1>2, <1>3, <2>1, Moved, Unmoved
  <2>3. Typing'
    BY <1>1, <1>3, <2>1, Moved DEF Typing
  <2>4. Excluded'
    BY <1>1, <1>3, <2>1, ExcludedStays
  <2>5. Slots' /\ Window' /\ Tokens'
    BY <1>1, <1>3, <2>2 DEF Slots, Window, Tokens
  <2>6. Owned'
    BY <1>1, <1>3, <2>1, OwnedStays
  <2> QED BY <2>3, <2>4, <2>5, <2>6
<1>4. CASE /\ ~closed /\ credits > 0 /\ credits' = credits - 1
           /\ Go(c, IF ZeroCopied(c) THEN "lock" ELSE "post")
  <2> DEFINE p == IF ZeroCopied(c) THEN "lock" ELSE "post"
  <2>1. p \in Places /\ p # "idle" /\ Go(c, p)
    BY <1>4 DEF Places
  <2>2. HasSlot' = HasSlot /\ HasCredit' = HasCredit \cup {c} /\ Waiting' = Waiting
    <3>1. HasSlot' = HasSlot \ {c} /\ HasCredit' = HasCredit \cup {c}
          /\ Waiting' = Waiting \ {c}
      BY <1>1, <2>1, Moved
    <3> QED BY <1>2, <3>1
  <2>3. Typing'
    BY <1>1, <1>4, <2>1, Moved DEF Typing
  <2>4. Excluded'
    <3>1. p = "post" => holder = c
      BY <1>1 DEF Excluded, InMutex
    <3> QED BY <1>1, <2>1, <3>1, ExcludedStays
  <2>5. Slots' /\ Tokens'
    BY <1>1, <2>2 DEF Slots, Tokens
  <2>6. Window'
    <3>1. /\ IsFiniteSet(HasCredit') /\ Cardinality(HasCredit) \in Nat
          /\ Cardinality(HasCredit') = Cardinality(HasCredit) + 1
      BY <1>2, <2>2, Joined DEF Window
    <3> QED BY <1>1, <1>4, <3>1, ZeroAssumption DEF Window, Typing
  <2>7. Owned'
    BY <1>1, <2>1, OwnedStays
  <2> QED BY <2>3, <2>4, <2>5, <2>6, <2>7
<1> QED BY <1>3, <1>4 DEF Credit

LEMMA LockIInv ==
  ASSUME IInv, NEW c \in Callers, Lock(c)
  PROVE  IInv'
<1> USE DEF IInv
<1> DEFINE p == IF ZeroCopied(c) THEN "slot" ELSE "credit"
<1>1. /\ pc[c] = "lock" /\ holder = NoOne /\ holder' = c
      /\ UNCHANGED <<item, calls, state, credits, ctl, wire, unread, bufDone, sendDone, closed,
                   takesTwoSges>>
  BY DEF Lock, MutexFree
<1>2. p \in Places /\ p # "idle" /\ Go(c, p)
  BY DEF Lock, Places
<1>3. HasSlot' = HasSlot /\ HasCredit' = HasCredit /\ Waiting' = Waiting
  <2>1. c \notin HasSlot /\ c \notin Waiting /\ (c \in HasCredit <=> ZeroCopied(c))
    BY <1>1 DEF HasSlot, HasCredit, Waiting
  <2>2. HasSlot' = HasSlot \ {c} /\ Waiting' = Waiting \ {c}
        /\ HasCredit' = IF ZeroCopied(c) THEN HasCredit \cup {c} ELSE HasCredit \ {c}
    BY <1>1, <1>2, Moved
  <2> QED BY <2>1, <2>2
<1>4. Typing'
  BY <1>1, <1>2, Moved DEF Typing
<1>5. Excluded'
  <2>1. \A d \in Callers : holder # d
    BY <1>1, ZeroAssumption
  <2> QED BY <1>1, <1>2, <2>1, ExcludedStays
<1>6. Slots' /\ Window' /\ Tokens'
  BY <1>1, <1>3 DEF Slots, Window, Tokens
<1>7. Owned'
  BY <1>1, <1>2, OwnedStays
<1> QED BY <1>4, <1>5, <1>6, <1>7

LEMMA SlotIInv ==
  ASSUME IInv, NEW c \in Callers, Slot(c)
  PROVE  IInv'
<1> USE DEF IInv
<1>1. /\ pc[c] = "slot"
      /\ UNCHANGED <<item, calls, state, credits, holder, wire, unread, bufDone, sendDone, closed,
                   takesTwoSges>>
  BY DEF Slot
<1>2. ZeroCopied(c) /\ holder = c
  BY <1>1 DEF Excluded, InMutex
<1>3. c \notin HasSlot /\ c \in HasCredit /\ c \notin Waiting
  BY <1>1, <1>2 DEF HasSlot, HasCredit, Waiting
<1>4. CASE ctl > 0 /\ ctl' = ctl - 1 /\ Go(c, "post")
  <2>1. "post" \in Places
    BY DEF Places
  <2>2. HasSlot' = HasSlot \cup {c} /\ HasCredit' = HasCredit /\ Waiting' = Waiting
    <3>1. HasSlot' = HasSlot \cup {c} /\ HasCredit' = HasCredit \cup {c}
          /\ Waiting' = Waiting \ {c}
      BY <1>1, <1>2, <1>4, <2>1, Moved
    <3> QED BY <1>3, <3>1
  <2>3. Typing'
    BY <1>1, <1>4, <2>1, Moved DEF Typing
  <2>4. Excluded'
    BY <1>1, <1>2, <1>4, <2>1, ExcludedStays
  <2>5. Window' /\ Tokens'
    BY <1>1, <2>2 DEF Window, Tokens
  <2>6. Slots'
    <3>1. /\ IsFiniteSet(HasSlot') /\ Cardinality(HasSlot) \in Nat
          /\ Cardinality(HasSlot') = Cardinality(HasSlot) + 1
      BY <1>3, <2>2, Joined DEF Slots
    <3> QED BY <1>4, <3>1, ZeroAssumption DEF Slots, Typing
  <2>7. Owned'
    BY <1>1, <1>4, <2>1, OwnedStays
  <2> QED BY <2>3, <2>4, <2>5, <2>6, <2>7
<1>5. CASE closed /\ UNCHANGED ctl /\ Go(c, "unlock")
  <2>1. "unlock" \in Places
    BY DEF Places
  <2>2. HasSlot' = HasSlot /\ HasCredit' = HasCredit \ {c} /\ Waiting' = Waiting
    BY <1>1, <1>3, <1>5, <2>1, Moved, Unmoved
  <2>3. Typing'
    BY <1>1, <1>5, <2>1, Moved DEF Typing
  <2>4. Excluded'
    BY <1>1, <1>5, <2>1, ExcludedStays
  <2>5. Slots' /\ Tokens'
    BY <1>1, <1>5, <2>2 DEF Slots, Tokens
  <2>6. Window'
    <3>1. /\ IsFiniteSet(HasCredit') /\ Cardinality(HasCredit') \in Nat
          /\ Cardinality(HasCredit) = Cardinality(HasCredit') + 1
      BY <1>3, <2>2, Gone DEF Window
    <3> QED BY <1>1, <1>5, <3>1, ZeroAssumption DEF Window, Typing
  <2>7. Owned'
    BY <1>1, <1>5, <2>1, OwnedStays
  <2> QED BY <2>3, <2>4, <2>5, <2>6, <2>7
<1> QED BY <1>4, <1>5 DEF Slot

LEMMA PostIInv ==
  ASSUME IInv, NEW c \in Callers, Post(c)
  PROVE  IInv'
<1> USE DEF IInv
<1>1. /\ pc[c] = "post" /\ holder = c
      /\ UNCHANGED <<item, calls, state, credits, holder, bufDone, sendDone, closed,
                   takesTwoSges>>
  BY DEF Post, Excluded, InMutex
<1>2. c \in HasCredit /\ c \notin Waiting /\ (c \in HasSlot <=> ZeroCopied(c))
  BY <1>1 DEF HasSlot, HasCredit, Waiting
<1>3. "wait" \in Places /\ "unlock" \in Places
  BY DEF Places
<1>4. CASE /\ wire' = wire \cup {c} /\ unread' = unread + 1
           /\ Go(c, "wait") /\ UNCHANGED ctl
  <2>1. /\ HasSlot' = IF ZeroCopied(c) THEN HasSlot \cup {c} ELSE HasSlot \ {c}
        /\ HasCredit' = HasCredit \ {c} /\ Waiting' = Waiting \cup {c}
    BY <1>1, <1>3, <1>4, Moved
  <2>2. HasSlot' = HasSlot
    BY <1>2, <2>1
  <2>3. Typing'
    BY <1>1, <1>3, <1>4, Moved DEF Typing
  <2>4. Excluded'
    BY <1>1, <1>3, <1>4, ExcludedStays
  <2>5. Slots'
    BY <1>1, <1>4, <2>2 DEF Slots
  <2>6. Window'
    <3>1. /\ IsFiniteSet(HasCredit') /\ Cardinality(HasCredit') \in Nat
          /\ Cardinality(HasCredit) = Cardinality(HasCredit') + 1
      BY <1>2, <2>1, Gone DEF Window
    <3> QED BY <1>1, <1>4, <3>1, ZeroAssumption DEF Window, Typing
  <2>7. Tokens'
    <3> SUFFICES ASSUME ~closed' PROVE Tokens'
      BY DEF Tokens
    <3>1. ~closed
      BY <1>1
    <3>2. c \notin wire
      BY <1>2, <3>1 DEF Tokens
    <3>3. /\ IsFiniteSet(Waiting') /\ Cardinality(Waiting) \in Nat
          /\ Cardinality(Waiting') = Cardinality(Waiting) + 1
      BY <1>2, <2>1, <3>1, Joined DEF Tokens
    <3>4. /\ IsFiniteSet(wire') /\ Cardinality(wire) \in Nat
          /\ Cardinality(wire') = Cardinality(wire) + 1
      BY <1>4, <3>1, <3>2, Joined DEF Tokens
    <3>5. wire' \subseteq Waiting'
      BY <1>4, <2>1, <3>1 DEF Tokens
    <3>6. Cardinality(Waiting') = Cardinality(wire') + bufDone + sendDone
      BY <3>1, <3>3, <3>4 DEF Tokens, Typing
    <3> QED BY <1>1, <3>3, <3>4, <3>5, <3>6 DEF Tokens
  <2>8. Owned'
    BY <1>1, <1>3, <1>4, OwnedStays
  <2> QED BY <2>3, <2>4, <2>5, <2>6, <2>7, <2>8
<1>5. CASE /\ ZeroCopied(c) /\ ~takesTwoSges /\ Go(c, "unlock") /\ GiveSlot(c)
           /\ UNCHANGED <<wire, unread>>
  <2>1. /\ HasSlot' = HasSlot \ {c}
        /\ HasCredit' = HasCredit \ {c} /\ Waiting' = Waiting
    BY <1>1, <1>2, <1>3, <1>5, Moved, Unmoved
  <2>2. ctl' = ctl + 1
    BY <1>5 DEF GiveSlot
  <2>3. Typing'
    BY <1>1, <1>3, <1>5, <2>2, Moved DEF Typing
  <2>4. Excluded'
    BY <1>1, <1>3, <1>5, ExcludedStays
  <2>5. Slots'
    <3>1. /\ IsFiniteSet(HasSlot') /\ Cardinality(HasSlot') \in Nat
          /\ Cardinality(HasSlot) = Cardinality(HasSlot') + 1
      BY <1>2, <1>5, <2>1, Gone DEF Slots
    <3> QED BY <2>2, <3>1, ZeroAssumption DEF Slots, Typing
  <2>6. Window'
    <3>1. /\ IsFiniteSet(HasCredit') /\ Cardinality(HasCredit') \in Nat
          /\ Cardinality(HasCredit) = Cardinality(HasCredit') + 1
      BY <1>2, <2>1, Gone DEF Window
    <3> QED BY <1>1, <1>5, <3>1, ZeroAssumption DEF Window, Typing
  <2>7. Tokens'
    BY <1>1, <1>5, <2>1 DEF Tokens
  <2>8. Owned'
    BY <1>1, <1>3, <1>5, OwnedStays
  <2> QED BY <2>3, <2>4, <2>5, <2>6, <2>7, <2>8
<1> QED BY <1>4, <1>5 DEF Post

(* The token that a call takes is its own: on an open transport no other   *)
(* call waits, so none of the tokens is another's.                         *)
LEMMA OwnToken ==
  ASSUME IInv, ~closed, NEW c \in Callers, pc[c] = "wait", bufDone + sendDone > 0
  PROVE  Waiting = {c} /\ wire = {} /\ bufDone + sendDone = 1
<1> USE DEF IInv
<1>1. Waiting = {c}
  BY Alone DEF Waiting, InMutex
<1>2. Cardinality(Waiting) = 1
  BY <1>1, FS_Singleton
<1>3. Cardinality(wire) \in Nat
  BY FS_CardinalityType DEF Tokens
<1>4. Cardinality(wire) = 0 /\ bufDone + sendDone = 1
  BY <1>2, <1>3 DEF Tokens, Typing
<1>5. wire = {}
  BY <1>4, FS_EmptySet DEF Tokens
<1> QED BY <1>1, <1>4, <1>5

LEMMA WaitTokenIInv ==
  ASSUME IInv, NEW c \in Callers, WaitToken(c)
  PROVE  IInv'
<1> USE DEF IInv
<1>1. /\ pc[c] = "wait" /\ Go(c, "unlock") /\ GiveSlot(c)
      /\ UNCHANGED <<item, calls, state, credits, holder, wire, unread, closed,
                   takesTwoSges>>
  BY DEF WaitToken
<1>2. /\ bufDone' \in Nat /\ sendDone' \in Nat
      /\ ~closed => /\ bufDone + sendDone > 0
                    /\ bufDone' + sendDone' + 1 = bufDone + sendDone
  BY DEF WaitToken, Typing
<1>3. c \notin HasCredit /\ c \in Waiting /\ (c \in HasSlot <=> ZeroCopied(c))
  BY <1>1 DEF HasSlot, HasCredit, Waiting
<1>4. "unlock" \in Places
  BY DEF Places
<1>5. /\ HasSlot' = HasSlot \ {c} /\ HasCredit' = HasCredit
      /\ Waiting' = Waiting \ {c}
  BY <1>1, <1>3, <1>4, Moved, Unmoved
<1>6. ctl' = IF ZeroCopied(c) THEN ctl + 1 ELSE ctl
  BY <1>1 DEF GiveSlot
<1>7. Typing'
  BY <1>1, <1>2, <1>4, <1>6, Moved DEF Typing
<1>8. Excluded'
  BY <1>1, <1>4, ExcludedStays
<1>9. Slots'
  <2>1. CASE ZeroCopied(c)
    <3>1. /\ IsFiniteSet(HasSlot') /\ Cardinality(HasSlot') \in Nat
          /\ Cardinality(HasSlot) = Cardinality(HasSlot') + 1
      BY <1>3, <1>5, <2>1, Gone DEF Slots
    <3> QED BY <1>6, <2>1, <3>1, ZeroAssumption DEF Slots, Typing
  <2>2. CASE ~ZeroCopied(c)
    <3>1. HasSlot' = HasSlot
      BY <1>3, <1>5, <2>2
    <3> QED BY <1>6, <2>2, <3>1 DEF Slots
  <2> QED BY <2>1, <2>2
<1>10. Window'
  BY <1>1, <1>5 DEF Window
<1>11. Tokens'
  <2>0. SUFFICES ASSUME ~closed PROVE Tokens'
    BY <1>1 DEF Tokens
  <2>1. Waiting = {c} /\ wire = {} /\ bufDone + sendDone = 1
    BY <1>1, <1>2, <2>0, OwnToken
  <2>2. Waiting' = {} /\ wire' = {}
    BY <1>1, <1>5, <2>1
  <2>3. bufDone' = 0 /\ sendDone' = 0
    <3>1. bufDone' + sendDone' + 1 = 1
      BY <1>2, <2>0, <2>1, Zenon
    <3> QED BY <1>2, <3>1, NoTokens
  <2>4. /\ IsFiniteSet(Waiting') /\ IsFiniteSet(wire')
        /\ Cardinality(Waiting') = 0 /\ Cardinality(wire') = 0
    BY <2>2, FS_EmptySet
  <2>5. Cardinality(Waiting') = Cardinality(wire') + bufDone' + sendDone'
    BY <1>2, <2>3, <2>4
  <2> QED BY <2>2, <2>4, <2>5 DEF Tokens
<1>12. Owned'
  BY <1>1, <1>4, OwnedStays
<1> QED BY <1>7, <1>8, <1>9, <1>10, <1>11, <1>12

LEMMA UnlockIInv ==
  ASSUME IInv, NEW c \in Callers, Unlock(c)
  PROVE  IInv'
<1> USE DEF IInv
<1>1. /\ pc[c] = "unlock" /\ Go(c, "idle")
      /\ holder' = IF holder = c THEN NoOne ELSE holder
      /\ state' = CompleteSend(c)
      /\ item' = item \/ item' = [item EXCEPT ![c] = Msg]
      /\ UNCHANGED <<calls, credits, ctl, wire, unread, bufDone, sendDone, closed,
                   takesTwoSges>>
  BY DEF Unlock
<1>2. /\ pc' \in [Callers -> Places] /\ item' \in [Callers -> Items] /\ pc'[c] = "idle"
      /\ \A d \in Callers : d # c => pc'[d] = pc[d] /\ item'[d] = item[d]
  BY <1>1 DEF Typing, Go, Places, Items
<1>3. HasSlot' = HasSlot /\ HasCredit' = HasCredit /\ Waiting' = Waiting
  <2>1. HasSlot' = HasSlot
    BY <1>1, <1>2 DEF HasSlot, ZeroCopied
  <2>2. HasCredit' = HasCredit
    BY <1>1, <1>2 DEF HasCredit, ZeroCopied
  <2>3. Waiting' = Waiting
    BY <1>1, <1>2 DEF Waiting
  <2> QED BY <2>1, <2>2, <2>3
<1>4. \A b \in Buffers :
        state'[b] = IF item[c] = b /\ state[b] = "inFlight" THEN "idle" ELSE state[b]
  BY <1>1, ZeroAssumption DEF CompleteSend, ZeroCopied, Typing, Items
<1>5. state' \in [Buffers -> States]
  BY <1>1 DEF CompleteSend, Typing, States
<1>6. Typing'
  BY <1>1, <1>2, <1>5 DEF Typing
<1>7. Excluded'
  BY <1>1, <1>2 DEF Excluded, InMutex, ZeroCopied
<1>8. Slots' /\ Window' /\ Tokens'
  BY <1>1, <1>3 DEF Slots, Window, Tokens
<1>9. Owned'
  <2>1. \A d \in Callers, b \in Buffers : InUse(d, b)' <=> d # c /\ InUse(d, b)
    BY <1>1 DEF Typing, Go, InUse
  <2>2. \A b \in Buffers : item[c] = b => InUse(c, b)
    BY <1>1 DEF InUse
  <2> SUFFICES ASSUME NEW b \in Buffers
               PROVE  /\ \A d, e \in Callers : InUse(d, b)' /\ InUse(e, b)' => d = e
                      /\ \A d \in Callers : InUse(d, b)' => state'[b] # "idle"
                      /\ state'[b] = "inFlight" => \E d \in Callers : InUse(d, b)'
    BY DEF Owned
  <2>3. \A d, e \in Callers : InUse(d, b)' /\ InUse(e, b)' => d = e
    BY <2>1 DEF Owned
  <2>4. ASSUME NEW d \in Callers, InUse(d, b)' PROVE state'[b] # "idle"
    <3>1. d # c /\ InUse(d, b)
      BY <2>1, <2>4
    <3>2. item[c] # b
      BY <2>2, <3>1 DEF Owned
    <3> QED BY <1>4, <3>1, <3>2 DEF Owned
  <2>5. ASSUME state'[b] = "inFlight" PROVE \E d \in Callers : InUse(d, b)'
    <3>1. state[b] = "inFlight" /\ item[c] # b
      BY <1>4, <2>5
    <3>2. PICK d \in Callers : InUse(d, b)
      BY <3>1 DEF Owned
    <3>3. d # c
      BY <3>1, <3>2 DEF InUse
    <3> QED BY <2>1, <3>2, <3>3
  <2> QED BY <2>3, <2>4, <2>5
<1> QED BY <1>6, <1>7, <1>8, <1>9

-----------------------------------------------------------------------------
LEMMA ReleaseIInv ==
  ASSUME IInv, NEW b \in Buffers, Release(b)
  PROVE  IInv'
<1> USE DEF IInv
<1>1. /\ state' = [state EXCEPT ![b] = "released"]
      /\ UNCHANGED <<pc, item, calls, credits, holder, ctl, wire, unread, bufDone,
                     sendDone, closed, takesTwoSges>>
  BY DEF Release, caller
<1>2. Typing'
  BY <1>1 DEF Typing, States
<1>3. HasSlot' = HasSlot /\ HasCredit' = HasCredit /\ Waiting' = Waiting
  BY <1>1 DEF HasSlot, HasCredit, Waiting, ZeroCopied
<1>4. Excluded' /\ Slots' /\ Window' /\ Tokens'
  BY <1>1, <1>3 DEF Excluded, InMutex, ZeroCopied, Slots, Window, Tokens
<1>5. Owned'
  <2>1. \A a \in Buffers : state'[a] = IF a = b THEN "released" ELSE state[a]
    BY <1>1 DEF Typing
  <2>2. \A c \in Callers, a \in Buffers : InUse(c, a)' <=> InUse(c, a)
    BY <1>1 DEF InUse
  <2> QED BY <2>1, <2>2 DEF Owned
<1> QED BY <1>2, <1>4, <1>5

LEMMA CompleteIInv ==
  ASSUME IInv, NEW c \in Callers, Complete(c)
  PROVE  IInv'
<1> USE DEF IInv
<1>1. /\ c \in wire /\ wire' = wire \ {c}
      /\ UNCHANGED <<pc, item, calls, state, credits, holder, ctl, unread, closed,
                   takesTwoSges>>
  BY DEF Complete, caller
<1>2. \/ bufDone' = bufDone + 1 /\ sendDone' = sendDone
      \/ bufDone' = bufDone /\ sendDone' = sendDone + 1
  BY DEF Complete
<1>3. Typing'
  BY <1>1, <1>2 DEF Typing
<1>4. HasSlot' = HasSlot /\ HasCredit' = HasCredit /\ Waiting' = Waiting
  BY <1>1 DEF HasSlot, HasCredit, Waiting, ZeroCopied
<1>5. Excluded' /\ Slots' /\ Window'
  BY <1>1, <1>4 DEF Excluded, InMutex, ZeroCopied, Slots, Window
<1>6. Tokens'
  <2>0. SUFFICES ASSUME ~closed PROVE Tokens'
    BY <1>1 DEF Tokens
  <2>1. /\ IsFiniteSet(wire') /\ Cardinality(wire') \in Nat
        /\ Cardinality(wire) = Cardinality(wire') + 1
    BY <1>1, <2>0, Gone DEF Tokens
  <2>2. Cardinality(Waiting) = Cardinality(wire') + bufDone' + sendDone'
    <3>1. Cardinality(Waiting) = Cardinality(wire) + bufDone + sendDone
      BY <2>0 DEF Tokens
    <3>2. bufDone \in Nat /\ sendDone \in Nat
      BY DEF Typing
    <3> QED BY <1>2, <2>1, <3>1, <3>2
  <2> QED BY <1>1, <1>4, <2>0, <2>1, <2>2 DEF Tokens
<1>7. Owned'
  BY <1>1 DEF Owned, InUse
<1> QED BY <1>3, <1>5, <1>6, <1>7

LEMMA CreditBackIInv ==
  ASSUME IInv, CreditBack
  PROVE  IInv'
<1> USE DEF IInv
<1>1. /\ unread > 0 /\ unread' = unread - 1 /\ credits' = credits + 1
      /\ UNCHANGED <<pc, item, calls, state, holder, ctl, wire, bufDone, sendDone, closed,
                   takesTwoSges>>
  BY DEF CreditBack, caller
<1>2. Typing'
  BY <1>1 DEF Typing
<1>3. HasSlot' = HasSlot /\ HasCredit' = HasCredit /\ Waiting' = Waiting
  BY <1>1 DEF HasSlot, HasCredit, Waiting, ZeroCopied
<1>4. Excluded' /\ Slots' /\ Tokens' /\ Owned'
  BY <1>1, <1>3 DEF Excluded, InMutex, ZeroCopied, Slots, Tokens, Owned, InUse
<1>5. Window'
  <2>1. Cardinality(HasCredit) \in Nat
    BY FS_CardinalityType DEF Window
  <2> QED BY <1>1, <1>3, <2>1, ZeroAssumption DEF Window, Typing
<1> QED BY <1>2, <1>4, <1>5

LEMMA CloseIInv ==
  ASSUME IInv, CloseTransport
  PROVE  IInv'
<1>1. /\ closed'
      /\ UNCHANGED <<pc, item, calls, state, credits, holder, ctl, wire, unread, bufDone,
                     sendDone>>
  BY DEF CloseTransport, caller
<1> QED
  BY <1>1 DEF IInv, Typing, Excluded, InMutex, Slots, HasSlot, Window, HasCredit,
              ZeroCopied, Tokens, Owned, InUse

-----------------------------------------------------------------------------
(* The invariant of the mix of zero-copy sends and SendMsg.                *)
THEOREM InductiveInvariant == Spec => []IInv
<1>1. Init => IInv
  BY InitIInv
<1>2. IInv /\ [Next]_vars => IInv'
  <2> SUFFICES ASSUME IInv, [Next]_vars PROVE IInv'
    OBVIOUS
  <2>1. ASSUME NEW c \in Callers, Step(c) PROVE IInv'
    BY <2>1, CreditIInv, LockIInv, SlotIInv, PostIInv, WaitTokenIInv, UnlockIInv DEF Step
  <2>2. ASSUME NEW c \in Callers, Complete(c) PROVE IInv'
    BY <2>2, CompleteIInv
  <2>3. ASSUME NEW c \in Callers, NEW i \in Buffers \cup {Msg}, Call(c, i) PROVE IInv'
    BY <2>3, CallIInv DEF Items
  <2>4. ASSUME NEW b \in Buffers, Release(b) PROVE IInv'
    BY <2>4, ReleaseIInv
  <2>5. CASE CreditBack
    BY <2>5, CreditBackIInv
  <2>6. CASE CloseTransport
    BY <2>6, CloseIInv
  <2>7. CASE UNCHANGED vars
    BY <2>7 DEF vars, caller, IInv, Typing, Excluded, InMutex, Slots, HasSlot, Window,
                HasCredit, ZeroCopied, Waiting, Tokens, Owned, InUse
  <2> QED BY <2>1, <2>2, <2>3, <2>4, <2>5, <2>6, <2>7 DEF Next
<1> QED BY <1>1, <1>2, PTL DEF Spec

(* No control slot goes astray between calls that succeed, fail or find    *)
(* the transport closed; no token does while it is open; and no more than  *)
(* the window's credits are in use (transport_linux.go:483-521).           *)
THEOREM ResourcesAreKept == Spec => []ResourcesAccounted
<1>1. IInv => ResourcesAccounted
  <2> SUFFICES ASSUME IInv PROVE ResourcesAccounted
    OBVIOUS
  <2> DEFINE at(places) == {c \in Callers : pc[c] \in places}
  <2>1. {c \in at({"post", "wait"}) : ZeroCopied(c)} = HasSlot
    BY DEF HasSlot
  <2>2. at({"wait"}) = Waiting
    BY DEF Waiting
  <2>3. at({"post"}) \cup {c \in at({"lock", "slot"}) : ZeroCopied(c)} = HasCredit
    BY DEF HasCredit
  <2> HIDE DEF at
  <2>4. /\ ctl + Cardinality({c \in at({"post", "wait"}) : ZeroCopied(c)}) = CtlSlots
        /\ ~closed => Cardinality(at({"wait"})) = Cardinality(wire) + bufDone + sendDone
    BY <2>1, <2>2 DEF IInv, Slots, Tokens
  <2>5. LET inHand == at({"post"}) \cup {c \in at({"lock", "slot"}) : ZeroCopied(c)}
        IN /\ credits + unread + Cardinality(inHand) <= Depth
           /\ takesTwoSges /\ ~closed => credits + unread + Cardinality(inHand) = Depth
    BY <2>3 DEF IInv, Window
  <2> QED BY <2>4, <2>5 DEF ResourcesAccounted, at
<1> QED BY <1>1, InductiveInvariant, PTL

(* While the transport is open no call returns before its own SEND has     *)
(* completed (buffer_linux.go:15-17), whoever else sends.                  *)
THEOREM FramesAreDone == Spec => []FrameDone
<1>1. IInv => FrameDone
  BY DEF IInv, Tokens, Waiting, FrameDone
<1> QED BY <1>1, InductiveInvariant, PTL

(* A Buffer is in one send at most, not idle in it and in flight only in   *)
(* it (buffer.go:10-12), with Buffer.Close at any moment.                  *)
THEOREM BuffersAreOwned == Spec => []OneSendPerBuffer
<1>1. IInv => OneSendPerBuffer
  <2> SUFFICES ASSUME IInv, NEW b \in Buffers
               PROVE  LET users == {c \in Callers : pc[c] # "idle" /\ item[c] = b}
                      IN /\ Cardinality(users) <= 1
                         /\ users # {} => state[b] # "idle"
                         /\ users = {} => state[b] # "inFlight"
    BY DEF OneSendPerBuffer
  <2> DEFINE users == {c \in Callers : pc[c] # "idle" /\ item[c] = b}
  <2>1. users = {} \/ \E c \in Callers : users = {c}
    BY DEF IInv, Owned, InUse
  <2>2. Cardinality(users) <= 1
    <3>1. Cardinality(users) \in {0, 1}
      BY <2>1, FS_EmptySet, FS_Singleton, Zenon
    <3> HIDE DEF users
    <3> QED BY <3>1
  <2>3. /\ users # {} => state[b] # "idle"
        /\ users = {} => state[b] # "inFlight"
    BY DEF IInv, Owned, InUse
  <2> QED BY <2>2, <2>3
<1> QED BY <1>1, InductiveInvariant, PTL
=============================================================================
