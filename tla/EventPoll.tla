------------------------------ MODULE EventPoll ------------------------------
(***************************************************************************)
(* How transport.poll (rdmanet/transport_linux.go) sleeps and wakes: the   *)
(* CQ, its completion channel, the poller's loop in event and busy mode,   *)
(* and Conn.Close taking the queue pair, the CQ and the channel away.      *)
(* What the poller does with a completion is the matter of Transport.      *)
(*                                                                         *)
(* Operators marked "Defect" are wrong on purpose: each is what a          *)
(* plausible slip would make of the definition below it, and no behaviour  *)
(* uses it.                                                                *)
(***************************************************************************)
EXTENDS Naturals

CONSTANTS
  Batch,       \* completions one Poll may take (depth)
  MaxWork      \* bound: completions of the application's work requests

ASSUME EventAssumption ==
  Batch \in Nat \ {0} /\ MaxWork \in Nat

VARIABLES
  pc,       \* the poller
  mode,     \* t.pollMode
  work,     \* work requests that will complete
  budget,   \* work requests the application may still post
  ready,    \* completions in the CQ
  armed,    \* ibv_req_notify_cq is in effect
  channel,  \* "bound" to the CQ, or "none" (rdma_cm)
  events,   \* events in the channel
  closed,   \* t.closed
  cls       \* Conn.Close: "open", "fin", "closing", "noqp", "nocq" or "closed"

hw   == <<work, budget, ready>>
pollerVars == <<pc, mode, channel, hw, armed, events, closed, cls>>

HasChannel == channel = "bound"

CqLive == cls \notin {"nocq", "closed"}

(* A Conn of the TCP handshake has a channel in event mode only, one of    *)
(* rdma_cm has none in either mode.                                        *)
PollerInit ==
  /\ pc = "top" /\ mode \in {"event", "busy"}
  /\ channel \in {"bound", "none"}
  /\ mode = "busy" => ~HasChannel
  /\ work = 0 /\ budget = MaxWork /\ ready = 0
  /\ armed = FALSE /\ events = 0
  /\ closed = FALSE /\ cls = "open"

-----------------------------------------------------------------------------
(* The poller. *)

Stop == closed

Top ==
  /\ pc = "top"
  /\ pc' = IF Stop THEN "exit" ELSE IF mode = "event" THEN "arm" ELSE "drain"
  /\ UNCHANGED <<mode, channel, hw, armed, events, closed, cls>>

\* Defect: sleeps at once, without looking at what came before the arming.
AfterArmSleep == "wait"

AfterArm == "drain"

(* ReqNotify. A provider may signal at once if completions are waiting;    *)
(* ibv_req_notify_cq does not promise it.                                  *)
Arm ==
  /\ pc = "arm"
  /\ \/ /\ ~CqLive
        /\ pc' = "exit" /\ closed' = TRUE
        /\ UNCHANGED <<armed, events>>
     \/ /\ CqLive
        /\ pc' = AfterArm
        /\ \/ armed' = TRUE /\ UNCHANGED events
           \/ ready > 0 /\ HasChannel /\ armed' = FALSE /\ events' = events + 1
        /\ UNCHANGED closed
  /\ UNCHANGED <<mode, channel, hw, cls>>

Taken == IF ready > Batch THEN Batch ELSE ready

(* drainOnce: one Poll. *)
Drain ==
  /\ pc = "drain"
  /\ \/ /\ ~CqLive
        /\ pc' = "exit" /\ closed' = TRUE
        /\ UNCHANGED ready
     \/ /\ CqLive
        /\ ready' = ready - Taken
        /\ pc' = IF mode = "event" /\ ready = 0 THEN "wait" ELSE "top"
        /\ UNCHANGED closed
  /\ UNCHANGED <<mode, channel, work, budget, armed, events, cls>>

(* WaitEvent: without a channel the poller goes busy for good. A read that *)
(* has begun is woken by an event only, not by ibv_destroy_comp_channel.   *)
Wait ==
  /\ pc = "wait"
  /\ \/ ~CqLive /\ pc' = "exit" /\ UNCHANGED mode
     \/ CqLive /\ ~HasChannel /\ pc' = "top" /\ mode' = "busy"
     \/ CqLive /\ HasChannel /\ pc' = "asleep" /\ UNCHANGED mode
  /\ UNCHANGED <<channel, hw, armed, events, closed, cls>>

Wake ==
  /\ pc = "asleep" /\ events > 0
  /\ events' = events - 1 /\ pc' = "top"
  /\ UNCHANGED <<mode, channel, hw, armed, closed, cls>>

Poller == Top \/ Arm \/ Drain \/ Wait \/ Wake

-----------------------------------------------------------------------------
(* The application posts; the NIC completes, and signals an armed CQ.      *)
PostWork ==
  /\ budget > 0 /\ cls = "open"
  /\ budget' = budget - 1 /\ work' = work + 1
  /\ UNCHANGED <<pc, mode, channel, ready, armed, events, closed, cls>>

Complete ==
  /\ work > 0 /\ cls \in {"open", "fin", "closing"}
  /\ work' = work - 1 /\ ready' = ready + 1
  /\ armed' = FALSE
  /\ events' = IF armed /\ HasChannel THEN events + 1 ELSE events
  /\ UNCHANGED <<pc, mode, channel, budget, closed, cls>>

-----------------------------------------------------------------------------
(* Conn.Close: a signaled FIN, t.closed, then the queue pair with its      *)
(* completions, the CQ with its events, the channel.                       *)
CloseStep ==
  \/ /\ cls = "open"
     /\ cls' = "fin" /\ work' = work + 1
     /\ UNCHANGED <<closed, ready, armed, events>>
  \/ /\ cls = "fin"
     /\ cls' = "closing" /\ closed' = TRUE
     /\ UNCHANGED <<work, ready, armed, events>>
  \/ /\ cls = "closing"
     /\ cls' = "noqp" /\ work' = 0 /\ ready' = 0
     /\ UNCHANGED <<closed, armed, events>>
  \/ /\ cls = "noqp"
     /\ cls' = "nocq" /\ armed' = FALSE /\ events' = 0
     /\ UNCHANGED <<closed, work, ready>>
  \/ /\ cls = "nocq"
     /\ cls' = "closed"
     /\ UNCHANGED <<closed, work, ready, armed, events>>

Close == CloseStep /\ UNCHANGED <<pc, mode, channel, budget>>

PollerNext == Poller \/ PostWork \/ Complete \/ Close

PollerSpec == PollerInit /\ [][PollerNext]_pollerVars

(* The poller goroutine runs when it can, posted work completes, and a     *)
(* Close that has begun goes on.                                           *)
PollerFairness ==
  WF_pollerVars(Poller) /\ WF_pollerVars(Complete) /\ WF_pollerVars(Close /\ cls # "open")
PollerFairSpec == PollerSpec /\ PollerFairness

-----------------------------------------------------------------------------
Places ==
  /\ pc \in {"top", "arm", "drain", "wait", "asleep", "exit"}
  /\ mode \in {"event", "busy"} /\ channel \in {"bound", "none"}
  /\ cls \in {"open", "fin", "closing", "noqp", "nocq", "closed"}
Flags    == armed \in BOOLEAN /\ closed \in BOOLEAN
Counters == work \in Nat /\ budget \in Nat /\ ready \in Nat /\ events \in Nat

(* The types of the poller's, the CQ's and the channel's state.            *)
PollerTypeOK == Places /\ Flags /\ Counters

(* transport_linux.go:199-201: arming before draining avoids missing a     *)
(* completion that lands in between: the poller never sleeps on an empty   *)
(* channel while completions are waiting.                                  *)
NoLostWakeup ==
  pc \in {"wait", "asleep"} /\ HasChannel /\ CqLive /\ ready > 0 => events > 0

(* Every completion is taken, in either mode, until the Conn is closed;    *)
(* and then the poller ends, if it has no channel to sleep on, in whichever*)
(* mode it began (transport_linux.go:202-204 falls back to busy polling)   *)
(* and however far the Close has got.                                      *)
ServedThenEnded ==
  /\ (ready > 0) ~> (ready = 0 \/ closed)
  /\ (cls # "open" /\ channel = "none") ~> (pc = "exit")
=============================================================================
