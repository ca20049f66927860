-------------------------- MODULE PacketProperties --------------------------
(***************************************************************************)
(* What the datagram endpoint promises, and what its comments say of it.   *)
(***************************************************************************)
EXTENDS PacketConn

(* The completions the reader has polled and those it may poll.            *)
Pending == got["r"] \o cq

Recvs == {i \in 1 .. Len(Pending) : Pending[i].op = "recv"}

(* A receive slot is posted once, and not while the CQ or the reader still *)
(* holds the completion of its datagram: the NIC never overwrites a        *)
(* datagram nobody has read (packet_linux.go:373 posts the slot of the     *)
(* completion).                                                            *)
SlotsDistinct ==
  /\ IsInjective(posted)
  /\ \A i, j \in Recvs : Pending[i].slot = Pending[j].slot => i = j
  /\ \A i \in Recvs : Pending[i].slot \notin ToSet(posted)

(* ReadFrom returns datagrams that came in, in the order in which they     *)
(* came, none twice; until a batch is polled over another in cwc, after    *)
(* which it may return what is left in any slot.                           *)
Increasing == /\ ToSet(out) \subseteq landed
              /\ \A i \in 1 .. Len(out) - 1 : out[i] < out[i + 1]

InOrder == ~crossed => Increasing

(* packet_linux.go:269 "polls until the single outstanding send completes":*)
(* between calls the one send buffer is not in the NIC's hands, so that    *)
(* the next WriteTo may overwrite it.                                      *)
SendBufferFree == pc["w"] \in {"idle", "ah", "post"} /\ ~closed => sending = 0

(* No buffer is in the NIC's hands when the program writes or reads it;    *)
(* of the receive slots this is so until a batch is polled over another in *)
(* cwc. (After that the WRID of one completion may pass for another's, and *)
(* a slot be posted that is posted already, against packet_linux.go:27-28, *)
(* "safe for one concurrent reader and one concurrent writer".)            *)
BuffersOwned == SendBufferFree /\ (~crossed => SlotsDistinct)

(* A call in progress when the endpoint is closed returns, if it polls: in *)
(* none of the states of a Close does it wait on. (A WriteTo that makes    *)
(* the peer's first address handle during the Close panics instead.)       *)
CallsEndOnClose ==
  (closed /\ mode = "busy") ~> (pc["r"] = "idle" /\ pc["w"] \in {"idle", "panic"})

(* The use in which nothing gets lost: one goroutine, busy polling, and a  *)
(* peer that sends while a ReadFrom waits for it.                          *)
Paced == use = "paced" /\ mode = "busy"

(* packet_linux.go:226 "WriteTo sends b as a single UD datagram", 332      *)
(* "ReadFrom blocks for the next datagram": a WriteTo returns, and what the*)
(* NIC put into a slot is returned to a reader who keeps reading. Not with *)
(* another goroutine that reads, nor for a burst, see the README.          *)
PacedUseLosesNothing ==
  /\ (Paced /\ pc["w"] # "idle") ~> (pc["w"] = "idle" \/ closed)
  /\ \A d \in 1 .. MaxIn :
       (Paced /\ d \in landed) ~> (d \in ToSet(out) \/ closed)
=============================================================================
