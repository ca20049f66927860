----------------------------- MODULE MCPostPath -----------------------------
(* The goroutines of one end of a Conn, as transport_linux.go posts: the   *)
(* sender under sendMu, the receiver, which returns a credit and reposts a *)
(* RECV slot, under recvMu, the poller under no mutex.                     *)
EXTENDS PostPath

CONSTANTS sender, receiver, poller, none

Conn == {sender, receiver, poller}

Post1(op, id, sgl) ==
  [op |-> op, wrs |-> <<[id |-> id, sgl |-> sgl, fast |-> FALSE]>>]

ConnCalls == [g \in Conn |->
  CASE g = sender   -> <<Post1("send", "data 0", <<"data slot 0">>),
                         Post1("send", "buffer", <<"header slot", "buffer">>)>>
    [] g = receiver -> <<Post1("recv", "recv 0", <<"recv slot 0">>),
                         Post1("send", "credit 0", <<"credit slot 0">>)>>
    [] g = poller   -> <<Post1("recv", "recv 1", <<"recv slot 1">>)>>]

ConnMutex == [g \in Conn |-> IF g = sender THEN "sendMu"
                             ELSE IF g = receiver THEN "recvMu" ELSE none]
=============================================================================
