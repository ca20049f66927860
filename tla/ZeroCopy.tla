------------------------------ MODULE ZeroCopy ------------------------------
(***************************************************************************)
(* Zero-copy sends (transport.sendBuffer and the Buffer life cycle of      *)
(* rdmanet/buffer.go) mixed with SendMsg on one Conn: the send mutex, the  *)
(* credits and the control slots they compete for, Buffer.Close and the    *)
(* close of the transport. SendMsg is one frame here; Transport has the    *)
(* rest of it. beginSend's load, compare-and-swap and second load are one  *)
(* step: the swap alone decides.                                           *)
(*                                                                         *)
(* Operators marked "Defect" are wrong on purpose: each is what a          *)
(* plausible slip would make of the definition below it, and no behaviour  *)
(* uses it.                                                                *)
(***************************************************************************)
EXTENDS Naturals, FiniteSets

CONSTANTS
  Callers,     \* goroutines that send on the Conn
  Buffers,     \* zero-copy Buffers
  Msg,         \* what a SendMsg sends: no Buffer
  NoOne,       \* nobody holds the mutex
  Depth,       \* credits
  CtlSlots,    \* slots of creditFree
  MaxCalls,    \* bound: calls
  MayRelease,  \* Buffer.Close may be called
  MayClose     \* the transport may close

ASSUME ZeroAssumption ==
  /\ Msg \notin Buffers /\ NoOne \notin Callers
  /\ Depth \in Nat \ {0} /\ CtlSlots \in Nat \ {0} /\ MaxCalls \in Nat
  /\ {MayRelease, MayClose} \subseteq BOOLEAN

VARIABLES
  pc, item,     \* each caller's place, and what its call, or a SEND it left
                \* on a closed transport, sends
  calls,        \* calls made
  state,        \* the Buffers' bufState
  credits,
  holder,       \* who holds sendMu
  ctl,          \* free control slots
  wire,         \* callers whose SEND has not completed
  unread,       \* frames the peer has not returned a credit for
  bufDone, sendDone, \* tokens
  closed,
  takesTwoSges  \* the QP takes two SGEs although one was asked for

caller == <<pc, item, calls>>
vars == <<caller, state, credits, holder, ctl, wire, unread, bufDone, sendDone, closed,
          takesTwoSges>>

Init ==
  /\ pc = [c \in Callers |-> "idle"]
  /\ item = [c \in Callers |-> Msg]
  /\ calls = 0
  /\ state = [b \in Buffers |-> "idle"]
  /\ credits = Depth /\ holder = NoOne /\ ctl = CtlSlots
  /\ wire = {} /\ unread = 0 /\ bufDone = 0 /\ sendDone = 0
  /\ closed = FALSE /\ takesTwoSges \in BOOLEAN

Go(c, place) == pc' = [pc EXCEPT ![c] = place]
ZeroCopied(c) == item[c] # Msg

-----------------------------------------------------------------------------
(* A call: SendMsg takes the mutex and then a credit, SendBuffer a credit  *)
(* and then the mutex.                                                     *)

\* Defect: beginSend tests for released, and not for in flight.
BeginAgain(b) == state[b] # "released"

Begin(b) == state[b] = "idle"

Call(c, i) ==
  /\ pc[c] = "idle" /\ calls < MaxCalls /\ ~closed
  /\ calls' = calls + 1
  /\ \/ /\ item' = [item EXCEPT ![c] = i]
        /\ \/ i = Msg /\ Go(c, "lock") /\ UNCHANGED state
           \/ /\ i # Msg /\ Begin(i)
              /\ Go(c, "credit")
              /\ state' = [state EXCEPT ![i] = "inFlight"]
     \/ i # Msg /\ ~Begin(i) /\ UNCHANGED <<pc, item, state>>
  /\ UNCHANGED <<credits, holder, ctl, wire, unread, bufDone, sendDone, closed, takesTwoSges>>

Credit(c) ==
  /\ pc[c] = "credit"
  /\ \/ closed /\ Go(c, "unlock") /\ UNCHANGED credits
     \/ /\ ~closed /\ credits > 0
        /\ credits' = credits - 1
        /\ Go(c, IF ZeroCopied(c) THEN "lock" ELSE "post")
  /\ UNCHANGED <<item, calls, state, holder, ctl, wire, unread, bufDone, sendDone, closed, takesTwoSges>>

\* Defect: no mutex.
NoMutex == TRUE

MutexFree == holder = NoOne

Lock(c) ==
  /\ pc[c] = "lock" /\ MutexFree
  /\ holder' = c
  /\ Go(c, IF ZeroCopied(c) THEN "slot" ELSE "credit")
  /\ UNCHANGED <<item, calls, state, credits, ctl, wire, unread, bufDone, sendDone, closed, takesTwoSges>>

(* The header goes into a control slot, which goes back when the call ends.*)
Slot(c) ==
  /\ pc[c] = "slot"
  /\ \/ ctl > 0 /\ ctl' = ctl - 1 /\ Go(c, "post")
     \/ closed /\ UNCHANGED ctl /\ Go(c, "unlock")
  /\ UNCHANGED <<item, calls, state, credits, holder, wire, unread, bufDone, sendDone, closed, takesTwoSges>>

\* Defect: SendMsg gives one back too, or sendBuffer gives back none.
GiveSlotAlways(c) == ctl' = ctl + 1
KeepSlot(c)       == ctl' = ctl

GiveSlot(c) == ctl' = IF ZeroCopied(c) THEN ctl + 1 ELSE ctl

(* PostSend: with two SGEs where one was asked for the provider may refuse.*)
Post(c) ==
  /\ pc[c] = "post"
  /\ \/ /\ ZeroCopied(c) => takesTwoSges
        /\ wire' = wire \cup {c} /\ unread' = unread + 1
        /\ Go(c, "wait")
        /\ UNCHANGED ctl
     \/ /\ ZeroCopied(c) /\ ~takesTwoSges
        /\ Go(c, "unlock") /\ GiveSlot(c)
        /\ UNCHANGED <<wire, unread>>
  /\ UNCHANGED <<item, calls, state, credits, holder, bufDone, sendDone, closed, takesTwoSges>>

WaitToken(c) ==
  /\ pc[c] = "wait"
  /\ \/ /\ ZeroCopied(c) /\ bufDone > 0
        /\ bufDone' = bufDone - 1 /\ UNCHANGED sendDone
     \/ /\ ~ZeroCopied(c) /\ sendDone > 0
        /\ sendDone' = sendDone - 1 /\ UNCHANGED bufDone
     \/ /\ closed
        /\ UNCHANGED <<bufDone, sendDone>>
  /\ GiveSlot(c)
  /\ Go(c, "unlock")
  /\ UNCHANGED <<item, calls, state, credits, holder, wire, unread, closed, takesTwoSges>>

CompleteSend(c) ==
  IF ZeroCopied(c) /\ state[item[c]] = "inFlight"
    THEN [state EXCEPT ![item[c]] = "idle"] ELSE state

(* The deferred releases of the mutex and of the Buffer, as one step: who  *)
(* holds neither yet, or only the one, does not see the difference.        *)
Unlock(c) ==
  /\ pc[c] = "unlock"
  /\ holder' = IF holder = c THEN NoOne ELSE holder
  /\ state' = CompleteSend(c)
  /\ Go(c, "idle")
  /\ item' = IF c \in wire THEN item ELSE [item EXCEPT ![c] = Msg]
  /\ UNCHANGED <<calls, credits, ctl, wire, unread, bufDone, sendDone, closed, takesTwoSges>>

Step(c) == Credit(c) \/ Lock(c) \/ Slot(c) \/ Post(c) \/ WaitToken(c) \/ Unlock(c)

-----------------------------------------------------------------------------
(* Buffer.Close: released whatever the state was.                          *)
Release(b) ==
  /\ MayRelease /\ state[b] # "released"
  /\ state' = [state EXCEPT ![b] = "released"]
  /\ UNCHANGED <<caller, credits, holder, ctl, wire, unread, bufDone, sendDone, closed, takesTwoSges>>

(* The NIC completes a SEND, and the poller's dispatch pushes its token.   *)
Complete(c) ==
  /\ c \in wire
  /\ wire' = wire \ {c}
  /\ IF ZeroCopied(c) THEN bufDone' = bufDone + 1 /\ UNCHANGED sendDone
                      ELSE sendDone' = sendDone + 1 /\ UNCHANGED bufDone
  /\ UNCHANGED <<caller, state, credits, holder, ctl, unread, closed, takesTwoSges>>

(* The peer reads a frame and its credit comes back.                       *)
CreditBack ==
  /\ unread > 0
  /\ unread' = unread - 1 /\ credits' = credits + 1
  /\ UNCHANGED <<caller, state, holder, ctl, wire, bufDone, sendDone, closed, takesTwoSges>>

CloseTransport ==
  /\ MayClose /\ ~closed
  /\ closed' = TRUE
  /\ UNCHANGED <<caller, state, credits, holder, ctl, wire, unread, bufDone, sendDone, takesTwoSges>>

Next ==
  \/ \E c \in Callers : Step(c) \/ Complete(c) \/ \E i \in Buffers \cup {Msg} : Call(c, i)
  \/ \E b \in Buffers : Release(b)
  \/ CreditBack
  \/ CloseTransport

Spec == Init /\ [][Next]_vars

(* A call goes on when it can (sync.Mutex and the credits' condition let   *)
(* nobody wait for ever), SENDs complete and the peer keeps reading.       *)
FairSpec ==
  /\ Spec
  /\ \A c \in Callers : SF_vars(Step(c)) /\ WF_vars(Complete(c))
  /\ WF_vars(CreditBack)

-----------------------------------------------------------------------------
(* Between concurrent calls no control slot goes astray, on a closed       *)
(* transport either (transport_linux.go:497 gives it back in every case),  *)
(* no completion token while it is open, and no credit unless a PostSend   *)
(* is refused with it in hand (transport_linux.go:511 keeps that one); and *)
(* the credits in use never exceed the window.                             *)
ResourcesAccounted ==
  LET at(places) == {c \in Callers : pc[c] \in places}
      inHand     == at({"post"}) \cup {c \in at({"lock", "slot"}) : ZeroCopied(c)}
  IN  /\ ctl + Cardinality({c \in at({"post", "wait"}) : ZeroCopied(c)}) = CtlSlots
      /\ ~closed => Cardinality(at({"wait"})) = Cardinality(wire) + bufDone + sendDone
      /\ credits + unread + Cardinality(inHand) <= Depth
      /\ takesTwoSges /\ ~closed => credits + unread + Cardinality(inHand) = Depth

(* buffer_linux.go:15-17: SendBuffer blocks until the SEND completes, its  *)
(* own and not another's: when a call has returned (or is about to) its    *)
(* frame is off the wire and the Buffer may be refilled.                   *)
FrameDone == ~closed => \A c \in wire : pc[c] = "wait"

(* buffer.go:10-12: a Buffer is in at most one send, and is idle in none.  *)
OneSendPerBuffer ==
  \A b \in Buffers :
    LET users == {c \in Callers : pc[c] # "idle" /\ item[c] = b}
    IN /\ Cardinality(users) <= 1
       /\ users # {} => state[b] # "idle"
       /\ users = {} => state[b] # "inFlight"

(* The two orders of credit and mutex deadlock: SendBuffers that wait for  *)
(* the mutex hold all the credits there are, and the SendMsg that holds it *)
(* waits for one (transport_linux.go:483-487 against 346 and 386).         *)
Wedged ==
  /\ ~closed /\ credits = 0 /\ unread = 0
  /\ \E c \in Callers : holder = c /\ pc[c] = "credit"
  /\ Cardinality({c \in Callers : ZeroCopied(c) /\ pc[c] = "lock"}) = Depth

(* Zero-copy sends and SendMsg mixed on one Conn, with a QP that takes the *)
(* two SGEs: a call returns, unless Depth SendBuffers and a SendMsg have   *)
(* wedged each other. That is the one thing that stops a call, and against *)
(* buffer_linux.go:22, where the two "may be mixed on the same Conn".      *)
SendsReturn ==
  \A c \in Callers : (takesTwoSges /\ pc[c] # "idle") ~> (pc[c] = "idle" \/ Wedged)
=============================================================================
