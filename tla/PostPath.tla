------------------------------ MODULE PostPath ------------------------------
(***************************************************************************)
(* How work requests reach a queue pair (postwr_linux.go): PostSend,       *)
(* PostRecv and PostSendBatch copy a request's SGEs into an array the QP   *)
(* keeps for reuse and hand C a pointer to it; ibv_post_send or            *)
(* ibv_post_recv reads the array. Nothing in the QP keeps two goroutines   *)
(* apart between the two steps: that is left to the callers' mutexes.      *)
(***************************************************************************)
EXTENDS Naturals, Sequences

CONSTANTS
  Goroutines,  \* those that post on the QP
  Calls,       \* Calls[g]: the sequence of calls g makes
  Mutex,       \* Mutex[g]: the mutex g holds around its calls
  NoMutex      \* ... or this

(* A call is [op, wrs]: op "send" and "recv" post the one request in wrs,  *)
(* "batch" all of them. A request is [id, sgl, fast]: fast if its shape is *)
(* one that PostSendBatch takes (its other fields are passed by value).    *)
Scratches == {"send", "recv", "batch"}     \* sendSG, recvSG, batchScratch
Queue(c)  == IF c.op = "recv" THEN "recv" ELSE "send"

VARIABLES
  at,      \* at[g]: calls begun, whether one is between its two steps, and
           \* then what its pointer shows and whether that is the QP's array
  cap,     \* cap[s]: capacity of the scratch array
  queued,  \* queued[q]: the requests on the send and on the receive queue
  open     \* the QP is not destroyed

qpVars == <<at, cap, queued, open>>

QPInit ==
  /\ at = [g \in Goroutines |-> [begun |-> 0, posting |-> FALSE,
                                 seen |-> <<>>, shared |-> FALSE]]
  /\ cap = [s \in Scratches |-> 0]
  /\ queued = [q \in {"send", "recv"} |-> <<>>]
  /\ open = TRUE

Call(g) == Calls[g][at[g].begun]

(* What a call writes: the SGEs of its request, or one entry per request.  *)
Words(c) == IF c.op = "batch" THEN c.wrs ELSE c.wrs[1].sgl

(* PostSendBatch takes requests of one SGE each, of one kind.              *)
Accepted(c) ==
  c.op = "batch" =>
    /\ c.wrs # <<>>
    /\ \A i \in DOMAIN c.wrs : Len(c.wrs[i].sgl) = 1 /\ c.wrs[i].fast

(* fill and ensure: longer lists get a new array, the others overwrite the *)
(* beginning of the one there is.                                          *)
Overwritten(old, words) ==
  [i \in DOMAIN old |-> IF i <= Len(words) THEN words[i] ELSE old[i]]

(* What h's pointer shows after another goroutine has filled s.            *)
Disturbed(h, s, words) ==
  IF at[h].posting /\ Call(h).op = s /\ at[h].shared /\ words # <<>>
    THEN IF Len(words) > cap[s] THEN [at[h] EXCEPT !.shared = FALSE]
         ELSE [at[h] EXCEPT !.seen = Overwritten(@, words)]
    ELSE at[h]

Locked(g) ==
  Mutex[g] # NoMutex =>
    \A h \in Goroutines \ {g} : Mutex[h] = Mutex[g] => ~at[h].posting

(* The Go half of a call. *)
Fill(g) ==
  LET k     == at[g].begun + 1
      c     == Calls[g][k]
      words == Words(c)
  IN
  /\ ~at[g].posting /\ k <= Len(Calls[g]) /\ Locked(g)
  /\ \/ /\ open /\ Accepted(c)
        /\ at'  = [h \in Goroutines |->
                    IF h = g THEN [begun |-> k, posting |-> TRUE,
                                   seen |-> words, shared |-> TRUE]
                             ELSE Disturbed(h, c.op, words)]
        /\ cap' = [cap EXCEPT ![c.op] = IF Len(words) > @ THEN Len(words) ELSE @]
     \/ /\ ~open \/ ~Accepted(c)             \* an error, or nothing to post
        /\ at' = [at EXCEPT ![g].begun = k]
        /\ UNCHANGED cap
  /\ UNCHANGED <<queued, open>>

(* The requests C builds from the arguments and from what it reads. *)
Read(g) ==
  LET c == Call(g) IN
  IF c.op = "batch" THEN at[g].seen ELSE <<[c.wrs[1] EXCEPT !.sgl = at[g].seen]>>

(* The C half. The provider takes the requests up to the first it refuses; *)
(* of a QP that was destroyed in between nothing is said but that no       *)
(* request goes out.                                                       *)
Post(g) ==
  /\ at[g].posting
  /\ at' = [at EXCEPT ![g].posting = FALSE]
  /\ \E n \in 0 .. Len(Read(g)) :
       /\ ~open => n = 0
       /\ queued' = [queued EXCEPT ![Queue(Call(g))] = @ \o SubSeq(Read(g), 1, n)]
  /\ UNCHANGED <<cap, open>>

CloseQP ==
  /\ open' = FALSE
  /\ UNCHANGED <<at, cap, queued>>

QPNext == (\E g \in Goroutines : Fill(g) \/ Post(g)) \/ CloseQP

QPSpec == QPInit /\ [][QPNext]_qpVars

-----------------------------------------------------------------------------
(* Request r is one of those some caller built for queue q. *)
Built(r, q) ==
  \E g \in Goroutines : \E k \in DOMAIN Calls[g] :
    /\ Queue(Calls[g][k]) = q
    /\ \E i \in DOMAIN Calls[g][k].wrs : r = Calls[g][k].wrs[i]

(* transport_linux.go:47 "It is safe for one concurrent sender and one     *)
(* concurrent receiver": each request on a queue is one that some caller   *)
(* built; none carries an identifier of one and the memory of another.     *)
PostedAsBuilt ==
  \A q \in {"send", "recv"} :
    \A i \in DOMAIN queued[q] : Built(queued[q][i], q)
=============================================================================
