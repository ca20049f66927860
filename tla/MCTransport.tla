----------------------------- MODULE MCTransport -----------------------------
(* Small instances of the RC data path for TLC: who sends what, in bytes,  *)
(* with two payload bytes per frame, and how the peers receive.            *)
EXTENDS TransportProperties

Scripts(a, b) == [e \in Peers |-> IF e = "A" THEN a ELSE b]

Msg      == [how |-> "msg"]
Batch(n) == [how |-> "batch", n |-> n]
Read(n)  == [how |-> "read", n |-> n]

Scene(script, sqCap, calls, receivers, closers) ==
  [script |-> script, sqCap |-> sqCap, calls |-> calls,
   receivers |-> receivers, closers |-> closers]

\* A two-frame and an empty message, over the window, against one answer.
Duplex == Scene(Scripts(<<<<3>>, <<0>>>>, <<<<1>>>>), 4, {Msg}, Peers, {})

\* Calls with no message, one too long, and one, of a caller that receives
\* a batch meanwhile: its credit frames compete for the send queue, and
\* PostSend can fail.
Calls == Scene(Scripts(<<<<>>, <<5>>, <<1>>>>, <<<<2, 0>>>>), 2, {Batch(2)},
               {"A"}, {})

\* The second frame of a batch may be refused, with the first on its way.
Refusal == Scene(Scripts(<<<<1, 0>>>>, <<<<2>>>>), 2, {Msg}, {"A"}, {})

\* One two-frame message, read in two slices, and the sender may close.
Close == Scene(Scripts(<<<<3>>>>, <<>>), 4, {Read(2)}, {"B"}, {"A"})

\* A byte stream over messages longer and shorter than the slice, and an
\* empty one.
Bytewise == Scene(Scripts(<<<<3>>, <<0>>, <<1>>>>, <<>>), 4, {Read(2), Read(0)},
                  {"B"}, {})

\* A batch of twice the window, then one frame more.
Live == Scene(Scripts(<<<<3, 3>>, <<1>>>>, <<>>), 4, {Msg}, {"B"}, {})

\* One frame each way, both ends receiving.
Exchange == Scene(Scripts(<<<<1>>>>, <<<<1>>>>), 4, {Msg}, Peers, {})

\* One frame, and one more than the window to a peer that does not receive;
\* the sender may close.
CloseOne     == Scene(Scripts(<<<<1>>>>, <<>>), 4, {Msg}, {"B"}, {"A"})
CloseStarved == Scene(Scripts(<<<<3, 1>>>>, <<>>), 4, {Msg}, {}, {"A"})

\* The closer receives, and waits for data that need not come; its peer
\* receives too.
CloseReceiver == Scene(Scripts(<<>>, <<<<1>>>>), 4, {Msg}, Peers, {"A"})

\* The receiver of one two-frame message may close.
Truncating == Scene(Scripts(<<<<3>>>>, <<>>), 4, {Msg}, {"B"}, {"B"})

SafetyScenes == {Duplex, Calls, Refusal, Close, Bytewise}
\* (A Read into no bytes for ever receives nothing.)
LiveScenes   == {Live, Exchange, [Bytewise EXCEPT !.calls = {Read(2)}],
                 CloseOne, CloseStarved, CloseReceiver}
CloseScenes  == {Truncating}
=============================================================================
