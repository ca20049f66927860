------------------------------ MODULE Perftest ------------------------------
(***************************************************************************)
(* One run of a benchmark of package perftest (send.go, write.go, read.go):*)
(* the client "C" and the server "S" of one of the six tools, from the     *)
(* connected endpoint to the end of the process, over their queue pairs.   *)
(*                                                                         *)
(* The bandwidth loops keep a window of work requests; the latency loops   *)
(* are rounds of a few steps; the server of a one-sided tool returns at    *)
(* once, except in write_lat, where both write a sentinel byte into the    *)
(* other's buffer and wait for the other's to show up in their own.        *)
(*                                                                         *)
(* Operators marked "Defect" are wrong on purpose: each is what a          *)
(* plausible slip would make of the definition below it, and no behaviour  *)
(* uses it.                                                                *)
(***************************************************************************)
EXTENDS Naturals, Sequences, FiniteSets

CONSTANTS
  Iters,   \* -n
  Bytes,   \* values of the sentinel byte
  Tests    \* the runs: tool, transport, -t, queue size, server's first byte

Tools == {"send_bw", "write_bw", "read_bw",
          "send_lat", "write_lat", "read_lat"}

ASSUME PerftestAssumption ==
  /\ Iters \in Nat \ {0}
  /\ Bytes \in Nat \ {0} /\ Bytes % 2 = 0
  /\ \A t \in Tests :
       /\ t.tool \in Tools /\ t.ud \in BOOLEAN
       /\ t.ud => t.tool \in {"send_bw", "send_lat"}
       /\ t.depth \in Nat \ {0}
       /\ t.queue \in Nat \ {0}  \* rdma_cm sizes the queues itself: not -t
       /\ t.byte \in 0 .. Bytes - 1  \* RegMRBuffer does not clear its memory

VARIABLES
  test,  \* the run; never changes
  loop,  \* loop[p]: where the program of p is
  nic    \* nic[p]: its queues, completions, buffer, and whether it is there

vars == <<test, loop, nic>>

Sides == {"C", "S"}
Peer(p) == IF p = "C" THEN "S" ELSE "C"

Bandwidth == test.tool \in {"send_bw", "write_bw", "read_bw"}

\* Defect: the server of send_lat waits for a ping before it posts a RECV.
LateRecv ==
  [send_lat  |-> [C |-> <<"recv", "send", "poll", "poll">>,
                  S |-> <<"poll", "recv", "send", "poll">>],
   write_lat |-> [C |-> <<"set", "send", "poll", "await">>,
                  S |-> <<"await", "set", "send", "poll">>],
   read_lat  |-> [C |-> <<"send", "poll">>]]

(* One round of a latency loop; the server has none in read_lat.           *)
Rounds ==
  [send_lat  |-> [C |-> <<"recv", "send", "poll", "poll">>,
                  S |-> <<"recv", "poll", "send", "poll">>],
   write_lat |-> [C |-> <<"set", "send", "poll", "await">>,
                  S |-> <<"await", "set", "send", "poll">>],
   read_lat  |-> [C |-> <<"send", "poll">>]]

Passive(p) == p = "S" /\ test.tool \in {"write_bw", "read_bw", "read_lat"}

Init ==
  /\ test \in Tests
  /\ loop = [p \in Sides |->
       [pc |-> IF Passive(p) THEN "done"
               ELSE IF Bandwidth THEN "prime" ELSE "round",
        at |-> 1, done |-> 0, batch |-> <<>>, extra |-> 0]]
  /\ nic = [p \in Sides |->
       [sent |-> 0, landed |-> 0, lost |-> 0, acked |-> 0, reaped |-> 0,
        recvs |-> 0, cq |-> <<>>, up |-> TRUE,
        mem |-> IF p = "S" THEN test.byte ELSE 0]]

-----------------------------------------------------------------------------
Of(kind, completions) ==
  Cardinality({i \in DOMAIN completions : completions[i] = kind})

(* A slot of a queue is free again when its completion has been polled.    *)
SqRoom(p) == nic[p].sent - nic[p].reaped < test.queue
RqRoom(p) == nic[p].recvs + Of("recv", nic[p].cq) < test.queue

Go(p, new) == loop' = [loop EXCEPT ![p] = new]

(* PostSend, PostRecv: an error ends the benchmark.                        *)
Post(p, new) ==
  IF SqRoom(p)
    THEN Go(p, new) /\ nic' = [nic EXCEPT ![p].sent = @ + 1]
    ELSE Go(p, [loop[p] EXCEPT !.pc = "error"]) /\ UNCHANGED nic

PostRecv(p, new) ==
  IF RqRoom(p)
    THEN Go(p, new) /\ nic' = [nic EXCEPT ![p].recvs = @ + 1]
    ELSE Go(p, [loop[p] EXCEPT !.pc = "error"]) /\ UNCHANGED nic

(* cq.Poll into an array of `size`.                                        *)
Polled(p, size) ==
  SubSeq(nic[p].cq, 1, IF Len(nic[p].cq) < size THEN Len(nic[p].cq) ELSE size)

Unpolled(p, taken) ==
  [nic EXCEPT ![p].cq = SubSeq(@, Len(taken) + 1, Len(@)),
              ![p].reaped = @ + Of("send", taken)]

-----------------------------------------------------------------------------
(* The bandwidth loops: runBWPipeline, and the server of RunSendBW.        *)
Outstanding(p) ==
  IF p = "C" THEN nic[p].sent ELSE nic[p].recvs + nic["C"].landed

PostNext(p, new) == IF p = "C" THEN Post(p, new) ELSE PostRecv(p, new)

Prime(p) ==
  /\ loop[p].pc = "prime"
  /\ \/ /\ Outstanding(p) < test.depth /\ Outstanding(p) < Iters
        /\ PostNext(p, loop[p])
     \/ /\ Outstanding(p) >= test.depth \/ Outstanding(p) >= Iters
        /\ Go(p, [loop[p] EXCEPT !.pc = "poll"])
        /\ UNCHANGED nic
  /\ UNCHANGED test

PollBatch(p) ==
  /\ loop[p].pc = "poll" /\ loop[p].done < Iters /\ nic[p].cq # <<>>
  /\ LET taken == Polled(p, test.depth)
     IN  /\ Go(p, [loop[p] EXCEPT !.pc = "reap", !.batch = taken])
         /\ nic' = Unpolled(p, taken)
  /\ UNCHANGED test

\* Defect: the server stops posting one RECV early.
RefillShort(p, got) ==
  IF p = "C" THEN nic[p].sent < Iters ELSE got + test.depth < Iters

Refill(p, got) ==
  IF p = "C" THEN nic[p].sent < Iters ELSE got + test.depth <= Iters

(* One completion of the batch: counted, and its place posted again.       *)
Reap(p) ==
  LET l    == loop[p]
      next == [l EXCEPT !.batch = Tail(@), !.done = @ + 1]
  IN
  /\ l.pc = "reap"
  /\ \/ /\ l.batch = <<>>
        /\ Go(p, [l EXCEPT !.pc = "poll"])
        /\ UNCHANGED nic
     \/ /\ l.batch # <<>> /\ Head(l.batch) = "error"
        /\ Go(p, [l EXCEPT !.pc = "error"])
        /\ UNCHANGED nic
     \/ /\ l.batch # <<>> /\ Head(l.batch) # "error"
        /\ IF Refill(p, next.done) THEN PostNext(p, next)
                                   ELSE Go(p, next) /\ UNCHANGED nic
  /\ UNCHANGED test

Finish(p) ==
  /\ loop[p].pc \in {"poll", "round"} /\ loop[p].done = Iters
  /\ Go(p, [loop[p] EXCEPT !.pc = "done"])
  /\ UNCHANGED <<test, nic>>

-----------------------------------------------------------------------------
(* The latency loops. *)
Steps(p) == Rounds[test.tool][p]

At(p, step) == /\ loop[p].pc = "round" /\ loop[p].done < Iters
               /\ Steps(p)[loop[p].at] = step

(* After the step: the next one, or the next round. *)
Onward(p) ==
  IF loop[p].at < Len(Steps(p)) THEN [loop[p] EXCEPT !.at = @ + 1]
  ELSE [loop[p] EXCEPT !.at = 1, !.done = @ + 1]

RoundPost(p) ==
  /\ \/ At(p, "recv") /\ PostRecv(p, Onward(p))
     \/ At(p, "send") /\ Post(p, Onward(p))
  /\ UNCHANGED test

(* pollOne: up to four completions (two in the one-sided loops), all of    *)
(* them taken, any error an error, and counted as one.                     *)
PollOne(p) ==
  LET taken == Polled(p, IF test.tool = "send_lat" THEN 4 ELSE 2) IN
  /\ At(p, "poll") /\ taken # <<>>
  /\ nic' = Unpolled(p, taken)
  /\ Go(p, IF Of("error", taken) > 0 THEN [loop[p] EXCEPT !.pc = "error"]
           ELSE [Onward(p) EXCEPT !.extra = @ + Len(taken) - 1])
  /\ UNCHANGED test

\* Defect: the sentinel grows by one each round.
NextSentinel(round) == (1 + round) % Bytes

(* The client's sentinel of a round, and the server's echo of it.          *)
Sentinel(round) == (1 + 2 * round) % Bytes
Echo(round) == (Sentinel(round) + 1) % Bytes

SetSentinel(p) ==
  /\ At(p, "set")
  /\ nic' = [nic EXCEPT ![p].mem = IF p = "C" THEN Sentinel(loop[p].done)
                                   ELSE Echo(loop[p].done)]
  /\ Go(p, Onward(p))
  /\ UNCHANGED test

Await(p) ==
  /\ At(p, "await")
  /\ LET round == loop[p].done
     IN  nic[p].mem = IF p = "S" THEN Sentinel(round) ELSE Echo(round)
  /\ Go(p, Onward(p))
  /\ UNCHANGED <<test, nic>>

(* The tool returns: it closes the memory region and the endpoint.         *)
Exit(p) ==
  /\ loop[p].pc \in {"done", "error"} /\ nic[p].up
  /\ nic' = [nic EXCEPT ![p].up = FALSE]
  /\ UNCHANGED <<test, loop>>

Run(p) == \/ Prime(p) \/ PollBatch(p) \/ Reap(p) \/ Finish(p)
          \/ RoundPost(p) \/ PollOne(p) \/ SetSentinel(p) \/ Await(p)
          \/ Exit(p)

-----------------------------------------------------------------------------
(* The NICs. Over RC a SEND waits for a RECV as long as it takes, a one-   *)
(* sided operation needs none, and each is acknowledged in order; if the   *)
(* peer is gone, the oldest that is not acknowledged fails. Over UD a SEND *)
(* completes when it has left, and then lands, whatever becomes of its     *)
(* sender, or is lost, without a RECV or on the way.                       *)
TwoSided == test.tool \in {"send_bw", "send_lat"}

Flying(p) == nic[p].landed + nic[p].lost < nic[p].sent

Land(p) ==
  LET q == Peer(p) IN
  /\ nic[p].up \/ test.ud
  /\ nic[q].up /\ Flying(p)
  /\ TwoSided => nic[q].recvs > 0
  /\ nic' = [nic EXCEPT
       ![p].landed = @ + 1,
       ![q].recvs = IF TwoSided THEN @ - 1 ELSE @,
       ![q].cq = IF TwoSided THEN Append(@, "recv") ELSE @,
       ![q].mem = IF test.tool = "write_lat" THEN nic[p].mem ELSE @]
  /\ UNCHANGED <<test, loop>>

Drop(p) ==
  /\ test.ud /\ Flying(p)
  /\ nic' = [nic EXCEPT ![p].lost = @ + 1]
  /\ UNCHANGED <<test, loop>>

Complete(p) ==
  /\ nic[p].up
  /\ \/ test.ud /\ nic[p].acked < nic[p].sent
     \/ nic[Peer(p)].up /\ nic[p].acked < nic[p].landed
  /\ nic' = [nic EXCEPT ![p].acked = @ + 1, ![p].cq = Append(@, "send")]
  /\ UNCHANGED <<test, loop>>

Fail(p) ==
  /\ ~test.ud /\ nic[p].up /\ ~nic[Peer(p)].up
  /\ nic[p].acked < nic[p].sent /\ Of("error", nic[p].cq) = 0
  /\ nic' = [nic EXCEPT ![p].cq = Append(@, "error")]
  /\ UNCHANGED <<test, loop>>

Nic(p) == Land(p) \/ Complete(p) \/ Fail(p)

Next == \E p \in Sides : Run(p) \/ Nic(p) \/ Drop(p)

Spec == Init /\ [][Next]_vars

(* Both programs run, and their NICs make progress. A datagram may, but    *)
(* need not, get lost.                                                     *)
FairSpec == Spec /\ \A p \in Sides : WF_vars(Run(p)) /\ WF_vars(Nic(p))
                                     /\ WF_vars(Land(p) \/ Drop(p))
-----------------------------------------------------------------------------
(* RegMRBuffer's memory is not cleared: with the first sentinel in it by   *)
(* chance, the server takes it for the client's first write.               *)
Garbled == test.tool = "write_lat" /\ test.byte = Sentinel(0)

(* send.go:101-102, write.go:47-48: what a client has counted happened.    *)
(* Over RC each operation it counts took effect at the server; a round     *)
(* trip it counts was answered, over UD too, and each answer came after    *)
(* its ping: no stale sentinel or foreign completion is taken for it.      *)
MeasuredHappened ==
  LET C == nic["C"]
      S == nic["S"]
      counted == loop["C"].done
  IN  /\ ~test.ud => counted <= C.landed
      /\ test.tool \in {"send_lat", "write_lat"} /\ ~Garbled =>
           counted <= S.landed /\ S.sent <= C.landed

(* send.go:36-37, 107: whenever a bandwidth loop polls, `depth` of its     *)
(* requests are outstanding, or all that are left; and no loop stops with  *)
(* an error while its peer is there, if its queues hold that many.         *)
WindowKept ==
  \A p \in Sides :
    LET left == Iters - loop[p].done IN
    /\ Bandwidth /\ loop[p].pc = "poll" =>
         Outstanding(p) - loop[p].done =
           IF left < test.depth THEN left ELSE test.depth
    /\ loop[p].pc = "error" => ~nic[Peer(p)].up \/ test.queue < test.depth

Ended(p) == loop[p].pc \in {"done", "error"} /\ ~nic[p].up

(* A pollOne that took several completions for one, against the comment    *)
(* at send.go:16: a later one waits for what has been taken already.       *)
Swallowed == \E p \in Sides : loop[p].extra > 0

(* A run over RC ends on both sides, unless the client fails and leaves    *)
(* the server waiting, and a bandwidth client ends over UD too.            *)
RunsEnd ==
  /\ (~test.ud /\ ~Garbled)
       ~> (Swallowed \/ (Ended("C") /\ (Ended("S") \/ loop["C"].pc = "error")))
  /\ Bandwidth ~> Ended("C")
=============================================================================
