---------------------------- MODULE MCPerftest ----------------------------
(* The runs of the six tools that TLC checks. *)
EXTENDS Perftest

Test(tool, ud, depth, queue, byte) ==
  [tool |-> tool, ud |-> ud, depth |-> depth, queue |-> queue, byte |-> byte]

\* Iterations through windows of one, two and four, set up over TCP;
\* through a queue of one that rdma_cm may have chosen; and over UD.
BandwidthTests ==
  {Test(tool, FALSE, depth, depth, 0) :
     tool \in {"send_bw", "write_bw", "read_bw"}, depth \in {1, 2, 4}}
  \cup {Test("send_bw", FALSE, 2, 1, 0), Test("send_bw", TRUE, 2, 2, 0)}

\* Round trips; the server's buffer holds any byte at first.
LatencyTests ==
  {Test("send_lat", ud, 1, 1, 0) : ud \in BOOLEAN}
  \cup {Test("read_lat", FALSE, 1, 1, 0)}
  \cup {Test("write_lat", FALSE, 1, 1, byte) : byte \in 0 .. Bytes - 1}

AllTests == BandwidthTests \cup LatencyTests
=============================================================================
