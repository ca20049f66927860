---------------------------- MODULE MessageStream ----------------------------
(***************************************************************************)
(* What SendMsg/RecvMsg promise for one direction of a Conn: a stream of   *)
(* whole messages, received in the order they were sent, none lost, merged *)
(* or duplicated in the middle, and end-of-file only after everything that *)
(* was promised before Close.                                              *)
(***************************************************************************)
EXTENDS Naturals, Sequences

VARIABLES
  stream,     \* messages sent completely, in order
  promised,   \* how many of them were reported sent before Close
  got,        \* messages returned to the receiving application
  eof         \* the receiver was told that the stream has ended

vars == <<stream, promised, got, eof>>

Init == stream = <<>> /\ promised = 0 /\ got = <<>> /\ eof = FALSE

Send ==
  /\ Len(stream') = Len(stream) + 1
  /\ SubSeq(stream', 1, Len(stream)) = stream
  /\ UNCHANGED <<promised, got, eof>>

Promise ==
  /\ ~eof
  /\ promised' \in promised .. Len(stream)
  /\ UNCHANGED <<stream, got, eof>>

(* A RecvMsg returns the next message, a RecvBatch several of them. *)
Receive ==
  /\ ~eof
  /\ \E n \in Len(got) .. Len(stream) : got' = SubSeq(stream, 1, n)
  /\ UNCHANGED <<stream, promised, eof>>

EndOfFile ==
  /\ promised <= Len(got)
  /\ eof' = TRUE
  /\ UNCHANGED <<stream, promised, got>>

Next == Send \/ Promise \/ Receive \/ EndOfFile

Spec == Init /\ [][Next]_vars
=============================================================================
