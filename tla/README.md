# gordma in TLA+

gordma is a Go binding for RDMA verbs with a net-style layer, `rdmanet`, above it
and a set of benchmarks, `perftest`, beside it. This directory models the parts of it
that keep state across goroutines, machines and the network card: the reliable (RC)
data path with its credit-based flow control and its byte stream, the way work requests
are posted, the completion poller, the throughput loops of `RawConn`, zero-copy buffers,
the datagram endpoint and the registry that names it, the two ways a connection is set
up and ends, and the benchmarks. TLC checks the models on small instances; TLAPS proves
the theorems of section 4 for every value of their constants.

    tlc -config X.cfg M        # one run; PROJECT.json lists the run of every X.cfg
    tlapm CreditFlowProofs.tla # likewise TransportProofs, StreamProofs, VerbsProofs,
                               # ZeroCopyProofs, DatagramProofs, ConnSetupProofs,
                               # PerftestProofs

## 1. Inventory

| Component | Source | State | Operations |
|---|---|---|---|
| RC data path | `rdmanet/transport_linux.go`, `credit.go`, `framing.go` | send/receive rings, `sendFree`, `sendDone`, `creditFree`, `recvQ`, credits, pending credits, reassembler, `peerFin`, `closed` | `sendMsg`, `sendBatch`, `recvMsg`, `recvBatch`, `poll`/`dispatch`, `shutdown` |
| Conn API | `rdmanet/conn_linux.go` | lazily built transport, `closed`, verbs objects | `SendMsg`, `RecvMsg`, batches, `Read`/`Write`, `Close`, `Info` |
| Completion polling | `transport.poll`, `cq_linux.go` | CQ, armed flag, completion channel, poll mode | `ReqNotify`, `Poll`, `WaitEvent`, `Close` |
| Zero-copy buffers | `rdmanet/buffer.go`, `buffer_linux.go`, `sendBuffer` | Buffer state, MR, credits, control slots, `bufDone` | `AllocBuffer`, `SendBuffer`, `RecvBuffer`, `Buffer.Close` |
| Byte stream | `rdmanet/stream.go` | left-over of a message | `Read`, `Write` |
| Posting | `postwr_linux.go`, `postwr.go` | a QP's SGE scratch arrays | `PostSend`, `PostRecv`, `PostSendBatch` |
| Datagram endpoint | `rdmanet/packet_linux.go` | one CQ, receive slots, one send buffer, address-handle cache | `WriteTo`, `ReadFrom`, batches, `Close` |
| RawConn | `rdmanet/rawconn.go`, `rawconn_linux.go`, `postwr_linux.go` | posted/completed counters, queues | `Pipeline`, `PipelineBatch`, `RecvDrain`, single posts and polls |
| Set-up over TCP | `rdmanet/handshake_linux.go`, `handshake/`, `qp_linux.go` | QP states, exchanged endpoint information | dial, accept, exchange, RESET→INIT→RTR→RTS |
| Set-up over rdma_cm | `cm_linux.go`, `cmconn.go` | event channel, CM ids | `Listen`, `Accept`, `Dial`, `Close` |
| Registry | `rdmanet/registry.go`, `addr.go` | name→address table, `done`, listener; a TCP connection per call | `Register`, `LookupAddr`, `Close` |
| perftest | `perftest/` | posted and completed counters, a sentinel byte in registered memory, samples | send/write/read bandwidth and latency loops |
| Other verbs wrappers | `*_linux.go` in the root | C objects | one C call each |
| Options, stubs, tools, examples | rest | none of their own | - |

How they interact. `Conn` builds one `transport` on first use over a QP and a CQ
from either set-up path. Senders (serialised by `sendMu`) and receivers (by
`recvMu`) talk to the poller goroutine through channels and the credit tracker;
the poller talks to the NIC through the CQ; two Conns talk through SENDs that
consume RECVs the other side has posted. `SendBuffer` joins the senders;
`Conn.Close` takes everything away from under all of them. `PacketConn` and
`RawConn` have no poller: their callers poll the CQ themselves, as the loops of
`perftest` do. All of them post through the same three functions, which keep one scratch
array per queue of a QP and leave mutual exclusion to their callers. A `PacketConn` finds
its peer through the registry, over TCP.

What is hard: a poller that may block on a channel whose reader waits for the
poller; flow control split over two machines; control frames that are outside it;
failures in the middle of a message; a Close concurrent with everything; arming a
CQ and sleeping; one CQ with two pollers; an array that Go fills and C reads a step
later; a byte in memory that tells one round from the next; calls over TCP that time out
at one end and take effect at the other. PROJECT.json lists each such place as a
hazard, with the properties that watch it.

What makes each component correct:

- RC data path: messages arrive whole, in order, once; `nil` from a send means the
  message is with the peer; credits, slots and tokens are conserved; nobody starves;
  Close wakes everybody; EOF comes after the data promised before it.
- Byte stream: what is read is a prefix of what was written, whatever the slices.
- Posting: the queue pair gets the request the caller built.
- Polling: no wake-up is lost; the poller ends when the Conn does.
- Zero-copy: a Buffer is in one send at most, and its memory lives until the NIC is
  done; a call returns on its own completion; calls return.
- Datagrams: a slot is never posted twice; the send buffer is not overwritten; what
  has arrived is read; calls return.
- Registry: a call takes effect at one moment or not at all, and is answered with what
  it found then, or fails; every goroutine ends.
- perftest: what is measured happened; the window is kept; a run ends on both sides.
- RawConn: windows and queues are respected; a finished loop has moved everything.
- Set-up: two ends are connected to each other or not at all; a call that fails holds
  nothing; a call that has a peer, or a deadline, returns; Close gives back everything.

## 2. Modules

| Module | Models | Kind |
|---|---|---|
| `Window` | the depth both ends agree on | constants |
| `CreditFlow` | one direction of credit flow control, in counters | abstract specification |
| `MessageStream` | what SendMsg/RecvMsg promise for one direction | abstract specification |
| `Transport` | two endpoints: sender, receiver, poller, closer, NIC of each | detailed |
| `TransportProperties`, `MCTransport` | its properties and refinement maps; its scenes | |
| `TransportInvariant` | the inductive invariants its proofs need: of the accounts (`IInv`), of the contents (`StreamInv`, `EndsInv`) | |
| `PostPath`, `MCPostPath` | posting on one QP from several goroutines; one end of a Conn | detailed |
| `EventPoll` | the poller's sleeping and waking, CQ, channel, Conn.Close | detailed |
| `RawLoop` | `pipeline`/`pipelineBatch` against `drain`, with both NICs | detailed |
| `ZeroCopy` | `sendBuffer`, Buffer states and SendMsg around one mutex | detailed |
| `PacketConn`, `PacketProperties` | a datagram endpoint, its NIC and its peers | detailed |
| `Directory` | what the registry promises its clients | abstract specification |
| `Registry`, `MCRegistry` | clients, accept loop, handlers and Close of the registry; its scenes | detailed |
| `ConnSetup`, `MCConnSetup` | Dial, Accept and perftest's set-up over TCP; a Conn's first call and Close | detailed |
| `CMSetup` | `Listen`, `Accept`, `Dial` and `Close` over rdma_cm | detailed |
| `Perftest`, `MCPerftest` | client and server of the six benchmarks and their NICs; the runs | detailed |
| `VerbsObjects` | which verbs object needs which, and destroying them | operators |
| `CreditFlowProofs`, `TransportProofs`, `StreamProofs`, `VerbsProofs` (`RawLoop`, `EventPoll`, `PostPath`), `ZeroCopyProofs`, `DatagramProofs` (`PacketConn`, `Registry`), `ConnSetupProofs` (`ConnSetup`, `CMSetup`), `PerftestProofs` | theorems | proofs |

Two compositions tie them together. Under the maps at the end of `TransportProperties`,
`Transport` implements `MessageStream` and `CreditFlow`, each in both directions; under
the identity on what a client sees, `Registry` implements `Directory`.

`CMSetup` is extended by a proof module together with `ConnSetup`, `EventPoll` and
`PostPath` together with `RawLoop`, and `Registry` together with `PacketConn`. That is why
their specifications are called `CMSpec`, `PollerSpec`, `QPSpec` and `RegistrySpec`, and so on.

Operators commented "Defect" are deliberate errors, one plausible slip each, that no
behaviour uses. Each property of a passing run has one: with the defect in place of
the definition after it, TLC finds the property violated. That shows the property
can see a bug of that kind.

### Transport

State: `snd[e]`, `rcv[e]`, `plr[e]`, `cls[e]` are the program counters and locals of
the four goroutines of endpoint `e`; `tp[e]` is the struct `transport`; `nic[e]` the
queue pair; `hist[e]` is auxiliary (what was sent, promised and received). Slots are
counts, since any free slot will do; frames are records that carry their bytes as
`<<call, message, position>>`, so a splice, a swap or a truncation is a different value.
A scene (`MCTransport`) says what the two applications may do: the calls each end sends
(`script`), what PostSend accepts (`sqCap`), the receive calls in use (`calls`: RecvMsg,
RecvBatch, Read into n bytes), who receives and who may close. `Duplex`, `Calls`, `Refusal`,
`Close` and `Bytewise` are for safety, `Live`, `Exchange`, `CloseOne`, `CloseStarved`,
`CloseReceiver` and a `Bytewise` for liveness, `Truncating` for the finding; one run checks all
scenes of its kind. In `Close` the peer of the closer reads slices; in `CloseReceiver` the closer
itself receives, and may be blocked in it when it closes.

| Action | Code |
|---|---|
| `SendCall`, `DrainSendDone`, `AcquireCredit`, `PostFrame`, `WaitToken`, `SendReturn` | `sendBatch`, `postFrames`, `drainSendDone`, `acquire`, `sendFrame`, `waitSends` |
| `RecvCall`, `RecvDrain`, `RecvBlock`, `RecvTry`, `RecvEnd`, `ReturnCredit`, `RecvReturn` | `nextMessage` (its two selects), `tryNextMessage`, `recvBatch`, `consumeFrameLocked`, `returnCredit`, `streamReader.read` |
| `DispatchSend`, `PushToken`, `DispatchRecv`, `DispatchError`, `PollLast`, `PollerExit` | `dispatch` per completion, and the last batch after a close |
| `CloseCall`, `CloseFin`, `CloseDone`, `TearDown` | `Conn.Close`, `sendFin`, `shutdown`, destruction of the QP |
| `Land` | the NIC |

A step ends where the goroutine may block or where another could see the difference.
Decisions worth knowing:

- A `select` with several ready cases is a choice, so with a closed transport a frame
  may be queued or dropped, and a slot, of a completed SEND or of a refused one, given back
  or lost. `SlotsAccounted` is exact while the transport is open; after that it says
  that no slot is there twice.
- `sqCap` is what the provider's send queue really takes. The QP is created with
  `MaxSendWR = depth`, but `depth` data and 4 control SENDs may be outstanding; most
  providers round up. The scene `Calls` takes the request literally. A PostSend that
  fails gives its slot back, not its credit (`hist.lost`, `lost` in `CreditFlow`), and
  the repost of a RECV that fails loses the slot (`LoseSlot` in `CreditFlow`).
- `SendReturn` tests `owed <= 0`, as `waitSends` does: after a refused post the sender may
  have counted one completion too many.
- What a queue carries (data, last frames, control frames, credits) is a set of cells
  `<<frame, unit>>` and its size (`Amount`), not a sum over the sequence, so that it
  can be reasoned about by counting.
- `Read` is a receive call: it takes a message when nothing is left over from the last
  one, and keeps what the slice has no room for. An empty message makes it return
  `(0, nil)`, as in the code.
- A post is one step, that is, the races of `PostPath` are left out here: `Transport`
  shows what holds when every request is posted as it was built.
- A RECV that never comes is retried for ever (`rnr_retry = 7`, `qp_linux.go`).
- `recvQ` cannot overflow: it has `depth` places, and the ring has `depth` slots.
- Rings deregistered by `shutdown` are read as if they were still there; the model has
  no memory lifetime (`EventPoll` has the order of destruction).
- TLC checks `CreditFlow` in the direction A to B, since both ends run the same code and
  the scripts load both directions; it is proved in both. `MessageStream` is checked in both.

### PostPath

A post is two steps: `Fill` copies the SGEs into the QP's array, `Post` lets the C call
read it through the pointer. `at[g].seen` is what the pointer of a goroutine in between
shows now. A shorter list written by another goroutine overwrites the beginning of the
array; a longer one makes Go allocate a new array, and the old pointer is alone with the
old one (`shared`, `cap`, `Disturbed`). PostSendBatch has an array of its own, and refuses
requests it has no fast path for (`Accepted`). `Mutex[g]` is the lock a goroutine holds
around its posts: none for the poller, `sendMu` and `recvMu` for sender and receiver.

### EventPoll, RawLoop, ZeroCopy, PacketConn

- `EventPoll`: `pc` walks the loop of `transport.poll`; `armed`, `events` and `ready`
  are the CQ and its channel. A completion that finds the CQ armed leaves an event.
  `ibv_req_notify_cq` on a CQ with completions may or may not signal at once. A read of
  the channel that has begun is ended by an event only.
- `RawLoop`: cumulative counters for each loop and each NIC; everything is in order, so
  `sent >= arrived >= acked >= done` says where each transfer is. `sqCap` and `RqCap`
  are the queue sizes, `SendDepth` and `RecvDepth` the two windows; `loop` says which of
  the two sending loops runs.
- `ZeroCopy`: callers take credit, mutex, control slot in the order of `sendBuffer`, or
  mutex and credit in that of `sendMsg`. SendMsg is one frame here. `takesTwoSges` says
  whether a QP created with `MaxSendSGE = 1` takes two. With three callers and two credits
  the two orders deadlock (`Wedged`): two SendBuffers with a credit each wait for the mutex, and
  the SendMsg that has it for a credit. `SendsReturn` excepts that state and no other.
- `PacketConn`: reader `"r"` and writer `"w"` each run Poll and pick from the batch; what
  they do not pick is gone, as in the code. `use` says how callers and peer behave. CQ.Poll is
  two steps: the library fills the CQ's array `cwc` (`Poll`; two such calls exclude each
  other inside the library), and Go copies it out (`ReadCopy`, `SendCopy`). The two callers
  hold different mutexes, so the one may fill the array before the other has copied
  it. `got[p]` is the batch `p` polled, `over[p]` what has been polled over it; each field
  that `p` copies is from any of them, so that the WRID of a SEND, 0, may come with
  the opcode of a RECV, and slot 0 be read and posted while it is posted. `crossed` says that
  this has become possible; slots and order are claimed until then (`BuffersOwned`, `InOrder`).
  What the caller then does with its own copy, up to the repost of the slot, is one step:
  only the NIC could see it, which drops a datagram as it may at any time. The
  address-handle cache (`ahs`) is created, filled and set to nil; a first WriteTo to a peer
  that gets past the check before Close and to the cache after it panics.

### Registry, Directory

A call is one TCP connection. `cli`, `sent` and `answer` are the client's side of it,
`srv` and `reply` the handler's; a request is one value. Either end may give up at any
moment (`GiveUp`, `ReadFails`: deadlines, or a reset), a client's host may `Vanish`, so that
only the deadline tells the handler, and Accept may fail, which ends the loop whatever the
error. What a client has written can be read after it has gone. `Closer` takes
Registry.Close in its steps: the test of `done`, its close, and the listener's.
`Directory` has a table, what each call asked for, what it found when it took effect, and
its answer: a call that has failed may still take effect, later.

### Perftest

`loop[p]` is the program of client or server, `nic[p]` its queue pair, CQ, sentinel byte
and whether the process is still there. A bandwidth loop primes its window, polls a batch
and posts again for each completion. A latency loop is a short list of steps per round
(`Rounds`): post a RECV or a SEND, poll one, set or await the sentinel. Memory is what it
was before (`test.byte`), since registration does not clear it. `pollOne` takes up to four
completions and counts one (`extra`). Over UD a SEND completes when it has left, and lands or
is lost then or later; over RC it waits for a RECV, and fails when the peer is gone. So what a
client counts over UD need not have arrived, and `MeasuredHappened` says so of RC only; a round
trip was answered over both. The server of a one-sided benchmark returns at once.
`Garbled` and `Swallowed` name the two circumstances in which the code does not do what
its comments say; the properties hold outside them.

### ConnSetup, CMSetup

- `ConnSetup`: a call of Dial or Accept is a process; `held` are its verbs objects, `qp`
  its queue pair's state, `peer` whose information it has read. `Build` stops after any
  number of steps of the ladder and then closes what was made: nobody else sees the
  steps, so they are one action. The kinds (`Conn`, with or without a completion channel,
  `RawConn`, perftest) differ in their ladder, in the order of Close, and in who
  listens: perftest opens its listener for one exchange. Deadlines may pass, and TCP may
  break, at any moment, so a Dial may be gone when Accept takes its connection, and what
  it has written can still be read. The life of a Conn has two goroutines: the first call
  (`use`: two rings registered, RECVs posted, `tr` set, under `trOnce`) and Close
  (`closing`, `left`, under `closeOnce`). With a transport, Close may have to wait for a control
  slot before it can send its FIN (`WaitForSlot`); nothing bounds that, so there is no fairness
  on the end of that wait, and `CallsReturn` excepts it. `Transport` has what decides it.
- `CMSetup`: `events` is the listener's channel, which the connections it has accepted
  share; `inbox` that of a Dial. `link` is the connection manager's REQ-REP-RTU
  handshake, which may be given up at each stage. Destroying an id withdraws its events.
  A Dial that fails after `rdma_connect` is `"abandoned"`: the code returns without closing.
- `VerbsObjects.Destroy` leaves an object alone that another one still needs, as EBUSY
  does; no Close method looks at the error. A device closed under its objects is counted
  as not closed.

## 3. Runs

All bounds are constants named in the configuration.

| Run | Shows | Bounds |
|---|---|---|
| `transport` | `nil` means landed, no starvation, no token, slot or credit lost, data fits the ring, reads are the stream, both refinements | window 2, payload 2; five scenes: both ends loaded over their window; an empty and a too long message and a batch on a send queue of 2; a batch refused halfway; the sender of a message that is read in slices closes at any moment; a byte stream. About two minutes |
| `transport_live` | messages arrive, sends return, Close wakes everybody | window 2, one control slot; messages of up to twice the window; Close of a sender that waits for a completion or a credit, and of a receiver |
| `event_poll` | no lost wake-up, all completions served until the Conn closes, then a poller without a channel ends | both modes, with and without a channel; batch 2, 4 completions |
| `raw_loop` | windows, slots, what "done" means; both loops finish | both loops; 6 transfers, windows 3 and 2, send queue of 2 or 3 |
| `zero_copy` | one send per Buffer, own completion, nothing lost; calls return | 3 callers with 4 calls between them, 2 Buffers, 2 credits (so that the deadlock of the two orders is there, and named), 1 control slot |
| `conn_setup` | queue pairs connected in pairs; failed and closed endpoints hold nothing; calls return | four kinds; 2 Dials with 2 or 1 Accepts, or one pair whose Conns are used and closed |
| `cm_setup` | what Dial and Accept return is established, nothing is left behind but what the code drops; calls return | 3 Dials, 3 Accepts in turn |
| `packet` | slots, order and send buffer are safe whatever gets lost, Close ends busy calls; a paced use loses nothing | both modes, both uses; depth 2, 3 datagrams |
| `perftest` | what is counted happened, the window is kept, runs end | 6 benchmarks, RC and UD, 5 iterations, windows 1, 2 and 4, a queue of 1 under a window of 2, every first byte of 4 |
| `registry` | the registry is a directory; nobody hangs | 2 clients, 3 calls, 1 name, up to 2 Closes, in 4 scenes |
| `bug_close_truncates` | a finding, below | window 2, one two-frame message, the receiver may close |
| `bug_posts_race` | a finding, below | one end of a Conn, two posts of the sender, two of the receiver, one of the poller |

What differs between two ways of using a component (the scene, the poll mode, the loop,
whether the provider takes two SGEs, how the peers behave) is a variable that Init chooses and
nothing changes: one run covers them all, and a property that holds for some of them
only says so.

Why the bounds are enough: a window of 2 with messages of two frames makes senders run
out of credits in the middle of a message, makes batched credit return matter
(threshold 1 at window 2; a message of twice the window then waits for credits) and lets two
frames be at every place of the pipeline at once. More slots add more of the same,
since slots are interchangeable; the counter model of the same protocol is proved for
every window. Depth 2 in `PacketConn` lets one Poll return two completions, which is
where its behaviour branches, and lets a batch of one be polled over a batch of two. Five iterations are more than each of the windows 1, 2 and 4,
leave a remainder in the last two, and wrap a sentinel of four values. One name is
enough for the registry: calls on different names meet nowhere but in the mutex.

### Where the code differs from its comments

`bug_close_truncates`: Close drops the first fragment of a message and delivers the rest
as a message.

`bug_posts_race`: the receiver of a Conn fills the QP's RECV array with its slot, the
poller overwrites it with its own, and both RECVs are posted with one slot; likewise a
data frame and a credit frame on the send queue. No lock is held by both. With one mutex around
all posts on an array this cannot happen (`SerialPostsAreSound`); the two mutexes of a
`PacketConn` are of that kind, those of a Conn are not.

The findings in PROJECT.json quote the lines.

Other differences met while modelling have no run of their own. They are stated at
their hazards, and the properties near them say under which condition they hold:

- The comment at `transport_linux.go:357-358` says `sendDone` cannot fill. It can, for a
  message of several windows, if a credit frame is polled before the
  completion of the SEND it answers; the poller then blocks while the sender waits for
  that credit.
- `transport_linux.go:525-526` speaks of headroom in the receive ring. The ring has
  `depth` slots and the sender `depth` credits, so control frames use slots promised to
  data (`CreditFlow` counts them in `ctl`).
- A PostSend that fails between two frames of a message leaves a fragment with the peer,
  to which its reassembler appends the next message.
- Close waits for a control slot without a bound. If the peer does not receive, its ring
  is full, the credit frames in the slots never land and the slots do not come back.
- A poller asleep on its completion channel is not woken when Close destroys it; nor is
  a `PacketConn` call. Close destroys CQ and rings without waiting for the poller.
- `PacketConn`: `waitSend` drops an answer that is polled before its own completion;
  `ReadFrom` drops what it polled after its first datagram; `waitCQ` sleeps after arming
  without polling again.
- `rawconn.go:15-17`: a shared tx-depth does not keep SENDs within the posted RECVs,
  since the sender refills on its own completion. `postwr_linux.go:223-224`: a batch that
  fails is posted up to the work request that did not fit.
- `buffer_linux.go:21-22`: SendBuffer and SendMsg may not be mixed freely. SendBuffer takes
  credit, then mutex, SendMsg mutex, then credit; with all credits in the hands of
  waiting SendBuffers nobody moves (`Wedged` in `ZeroCopy`; the run reaches it).
- `packet_linux.go:27-28`: a reader and a writer at once are not safe. The reader polls the
  writer's send completion and throws it away; WriteTo never returns. And the two poll
  into one array (`cq_linux.go:114`): a batch that is polled over one which the other has not
  copied yet can make ReadFrom return an old datagram again and post a slot twice.
- `Conn.transport` and `Conn.Close` run under different Onces. Rings registered while Close
  looks for the transport are never released, nor is the PD they need.
- `cm_linux.go`: Dial returns an error after `rdma_connect` without closing what it has built.
  Accept takes any event on the shared channel: an old connection's DISCONNECTED
  or another client's request makes it fail, and that request is lost, its id never
  destroyed. Listener.Close destroys the channel under accepted connections
  (`perftest.ConnectRDMACM` always does) and does not wake an Accept.
- `stream.go:15-16`: Read returns 0 bytes and no error for an empty message. RecvMsgBuf has
  taken the message when it returns ErrShortBuffer: it is gone.
- `PacketConn.Close` sets the address-handle map to nil; a WriteTo on its way to a new
  address writes to the nil map and panics.
- `send.go:16-17`: pollOne does not take exactly one completion. RunSendLat then waits for
  one it has taken already, at the latest at the end of the run.
- `write.go:47-48`: a stale byte is mistaken for a fresh one if it was there before the
  first round. `write.go:14-16`: nobody keeps the server of a one-sided benchmark alive
  until the client disconnects; a two-sided one, too, may leave before the client's last
  SEND is acknowledged, which then fails.
- perftest over rdma_cm does not size its queues by `-t`, and accepts `-c UD`, which it
  does not use. Over UD a ping that is lost hangs both sides.
- `registry.go:47`: the server does not run until Close: an Accept that fails, for
  whatever reason, ends it. Two concurrent Closes can close `done` twice, a panic.
- `cmd/go_rdmanet_bw/main.go:86-87`: a raw server without a count drains until the client
  closes; a QP that has only RECVs outstanding is not told that the client has closed.
- A zero-copy post that the provider refuses keeps its credit; Buffer.Close does not
  wait for a send in progress.

Deadlock is checked in `raw_loop`, whose final state has an explicit stuttering step. Everywhere
else CHECK_DEADLOCK is off, because the system really stops: the bounded work is done, the
endpoint is closed, a Conn whose transport has failed and is never closed leaves its peer
waiting for ever, a UD run has lost its ping. The liveness properties say which of
these stops are allowed.

### Fairness

Weak fairness of each goroutine's steps: the Go scheduler runs what can run. Strong
fairness of a caller in `ZeroCopy`, which competes for a `sync.Mutex` and for the
credits' condition variable: Go's mutex hands over to a waiter that has starved.
`sync.Cond.Broadcast` wakes all waiters but does not order them; in `zero_copy` the calls
are too few for a waiter to be passed over for ever. Weak fairness of the NIC: SENDs land and
complete. In `ConnSetup` deadlines pass
and in `CMSetup` the connection manager answers or gives up; when to dial, accept or close
is free. In `Transport` the applications keep receiving; in `PacketConn` the reader
keeps reading. In `Perftest` both programs run and
their NICs progress (a UD datagram lands or is lost); in `Registry` the goroutines run,
deadlines pass and the accept loop accepts, while calling, vanishing and a failing Accept are
free. When to send and whether to close is never forced, but a Close that has
begun goes on.

## 4. Proofs

Everything below holds for every value of the constants that the ASSUME of the module admits
(positive window, natural bounds, Booleans); a theorem that is about some scenes only says in
its statement about which. An inductive invariant was first checked by
TLC on the instance of the runs (10^4 to 10^5 states each, `Transport`'s on
1.4 million), then proved. "Induction" is the well-foundedness of finite sets of numbers
(`NaturalInduction`), since an induction theorem over an operator is out of the provers' reach.

`CreditFlowProofs`: `TypeCorrect`; `CreditsAreAccounted`, from a lemma
for each of its three parts; `DataNeverOverruns` follows from the third part, `CreditsMatched`, which is the
inductive form: `DataFits` alone is not inductive, because a credit that is still
held, owed or on its way back can become a frame in flight, so all of them must be
matched by slots. Consuming a frame moves one slot and one owed credit together, which
is what keeps it. A frame that PostSend refuses moves its credit to `lost`.

`TransportProofs`, for any scripts, scenes and payload size. No property of
`Transport` is inductive alone, since a step of one goroutine keeps it only because of where
the others may be. The invariant `IInv` (`TransportInvariant`) has, besides types, two halves for
each end and no relation between the ends:

- `SendSide`: where the slots are (`SlotsOf`, exactly while the transport is open); what the sender owes (`TokensOf`: exactly the
  completions that are due while the connection is open, never fewer as long as it posts or
  waits without error, because the poller of a closed transport drops tokens, and nothing outside
  a call, since `drainSendDone` may otherwise count a token of the last call); what was
  promised (`PromiseOf`); that a call works on a message of its script.
- `RecvSide`: a receiver that blocks has no credit pending (`returnCredit` has flushed
  what it held), it holds credits only while it returns them, and receives only on a
  connection that is up.

The relation between the ends comes from the refinement: `FlowImplemented` shows step by step
that `Transport` implements `CreditFlow`, in both directions. A sender's `AcquireCredit` is
`Acquire`, its `PostFrame` is `Post` or `PostFails`; a poller that dispatches a credit frame
does `Release`; raising the transport is `RingUp`; consuming a frame and flushing are `Consume`
and `Return`; the NIC's steps are `Land` and `CtlLand`; reposting the RECV of a control
frame is `CtlRepost`, or `LoseSlot` when it fails; a failure or a close is `Break`
or `Lose`. Everything else is a stutter (`QuietStep`). With it the theorems about
`CreditFlow` hold of `Transport` (`CreditsAreKept`, `DataAlwaysFits`), and with them
and `IInv` the rest: `TypeCorrect`, `SendPathKept`, `NilIsLanded` and `StarvedIsServed`: if
nothing is under way between a sender without credit and a receiver that blocks, then the accounts
leave no place where the credits could be.

`StreamProofs`, which is about what is in the frames, has an invariant of its own, on top of `IInv`:

- `StreamInv`. The frames on their way from an end to its peer are one sequence, `Pipe`: queued for
  the receiver, in its CQ, not landed. From where the receiver is (`Taken`: messages whole; the
  reassembler: a part) they lead it, frame by frame (`Stride`, `Walk`), through the messages
  that were sent, to where the sender is (`Begun`). A FIN on the way, or behind `peerFin`, stands
  after every message that was promised. Every step takes a frame from one end of `Pipe`, adds one
  at the other, or moves one inside, so that the walk loses its first step or gains a last
  one. It holds of a receiver that is `Whole`: its poller has dropped nothing after a
  close, and PostSend has refused no frame, whose successor would continue another message.
- `EndsInv`, of the receiving ends: what a call holds (`HandsOf`), who was told of the end
  of the stream (`EndOf`), that only Close lets a poller drop frames (`OpenOf`), and that the bytes
  Read has returned and what it has left over are the messages taken, joined (`ReadOf`).

From them: `TakenIsPrefix`, in every scene; and, in scenes that are `Ample` (the send queue
holds a frame for every slot; see `sqCap` above) and `Steady` (no application closes the end it
receives on), `StreamImplemented` and `WholeMessagesOnly`; in those that are also `Uniform`
(all receives are by Read, or none), `StreamIsRead`. The step proof of `StreamImplemented` maps the
PostFrame of a last frame to `Send`, SendReturn to `Promise`, RecvReturn to `Receive` and the
RecvBlock that meets the end of the stream to `EndOfFile`; the rest are stutters. `Steady` is needed:
`bug_close_truncates` is what happens without it. Of the scenes of `transport`, `Duplex`, `Close`
and `Bytewise` are all three; `Calls` and `Refusal`, with a send queue of two, are not `Ample`,
and there the two properties are model-checked. `FlattenSeq`, which joins
the messages, is a choice of a recursive function on their number; what one more
message adds to it, and that the prefix of a stream gives a prefix of its bytes, are
proved by `NaturalInduction` over that number.

`ZeroCopyProofs`, for any callers (even without end), Buffers, window and control slots:
`ResourcesAreKept`, `FramesAreDone`, `BuffersAreOwned`. The mutex makes a call return on its
own completion: from posting to the token it holds the mutex (`Excluded`), so that at most
one SEND is on the wire and the one token is its own (`Tokens`). Credits are
counted at the callers that hold one, and a SendBuffer holds one before it has the mutex (`Window`);
the count is exact as long as no post is refused and no call cut off by a close.

`DatagramProofs`, two components. `PacketConn`, for any depth and number of calls: `BuffersAreOwned`, `DatagramsAreInOrder`.
`Ordered` says that, until two batches cross in the CQ's array (`crossed`), the datagrams the reader
has polled and those in the CQ are in order and later than all that was returned; `OneSend` that until the Close there is at most one SEND, queued or completed, and none when
a WriteTo writes to the buffer. `Registry`, for any clients, calls, names and scenes: `RegistryIsDirectory`, each step of
`Registry` is a step of `Directory` (Dial invokes, Apply takes effect, Receive and GiveUp return)
or changes nothing a client sees. The invariant `CallState` says that the two ends of a
connection agree on how far its call is; without it an Apply could take effect twice.

`VerbsProofs`, three components. `RawLoop`, for every number of transfers, window and queue
size: the inductive invariant adds to `TypeOK` and `WindowKept` what each place of a loop implies
(`Phases`: nothing is posted before priming, the loop polls with its window full or
everything posted). From it: `WindowIsKept`, `SlotsAreDistinct` (two RECVs of the
window differ by less than the window, so their numbers differ modulo it) and
`DoneIsDelivered`. `EventPoll`, for every batch size and any number of completions:
`PollerTypeCorrect` and `NoWakeupIsLost`. The invariant `Announced` says that from the arming to the
sleep the CQ is armed or an event waits, and that what is in a CQ found empty came after the
arming. `PostPath`, for any goroutines, calls and arrays: `SerialPostsAreSound`, every
request is posted as it was built if the goroutines that use an array share a mutex
(`Serial`). The inductive invariant is that of a lock-protected variable: who is between Fill
and Post holds its mutex (`Excluded`), so that nobody else can be filling the same array,
and what its pointer shows is what it wrote (`Undisturbed`).

`ConnSetupProofs`, for every number of Dials and Accepts, and of clients over rdma_cm:

- `ConnectedInPairs`. A connection is in the backlog, with one Accept, or in neither
  (`OneAcceptEach`), and what a call has read is the information of the other end
  (`PeerIsOpposite`). `Paired` alone is not inductive: it does not say where the
  information came from.
- `NothingIsLeaked` (and `TypeCorrect`). A call under way holds only what its ladder makes; rings
  belong to a transport that is built or being built; Close has destroyed its list up to where it is, unless a
  first call raced with it (`CloseOf`). That a list in a safe order leaves nothing is
  a lemma by induction over the list (`SafeOrder`), applied to each of the four kinds.
- `ReturnedMeansEstablished`, `CMNothingIsLeaked`, `CMTypeCorrect`, all from `CMInvariant`: between
  rdma_accept and the end of the handshake the connection is the one Accept is working on, so
  the ESTABLISHED that Accept reads is its own; a request or an ending is in the channel once at
  most. What destroying an id takes out of the channel is shown by induction over the
  queue (`OnWithdraw`).

`PerftestProofs`, for any number of iterations, sentinel values (an even number of them: a byte
has 256), windows, queue sizes and first bytes, over RC and UD: `WindowIsKept` and
`MeasuredIsReal`. The invariant has a part for each side (`Own`) and one for both (`Turn`):

- `Queues`: an operation is posted, lands or is lost, is acknowledged and polled, in this order over
  RC, while over UD it may be acknowledged and polled before it lands; an
  error says that the peer is gone, or that the queue is smaller than the window.
- `Streaming`, of a bandwidth loop: what it has taken out of its CQ it has counted or has in its
  batch, and what is outstanding is what it has counted and its window, or all that is left.
- `PingPong`, of a latency loop: which operations of the round are posted, and that up to the
  first poll of a round everything of the rounds before has been taken, because
  `pollOne` may take more than it counts (`extra`) but a round polls once for each.
- `InTurn` and `Shows`, of `write_lat`: the writes of the two sides land in turn, and which
  byte a buffer shows is then known from the counters. The client's sentinels are odd and the
  echoes even (`Parity`), so neither is taken for the other; the peer's byte of the round before
  is not taken for this round's because the own byte has replaced it (bytes themselves repeat,
  every `Bytes / 2` rounds). `Garbled` is excepted: its server answers before it is asked.

Counting completions of a kind in a queue (`Of`) is the cardinality of a set of positions; that
appending, cutting and taking the head change it as expected are lemmas by a
bijection, where `SelectSeq` would have asked for an induction over data.

Only model-checked: liveness and ENABLED, which are out of the prover's reach, and
`ReadsTheStream` and `ImplementsMessageStream` in scenes outside the hypotheses above.

## 5. Not modelled

Memory lifetime and data races on Go pointers during Close, such as a CQ destroyed under a Poll of
it (that Close waits for nobody is
in `EventPoll`; no property it keeps could be stated, PROJECT.json's hazard at
`transport_linux.go:796`); the contents of completions other than kind, slot and success (a
failed completion closes the transport); probe timers and statistics; malformed requests to
the registry and the text form of addresses; the UD half of perftest's set-up and `--loop`; single
posts of `RawConn` by the tools, other than through its loops; flag parsing; stubs, tools, examples. Reasons are
in PROJECT.json's components. Disconnection by the peer over rdma_cm is only its effect
on the QP: a DISCONNECT does not flush it.

## 6. Plan

Extending the model, in this order:

1. The serial instance of `PostPath` (a `PacketConn`'s two mutexes) as a run beside the
   theorem.
2. Both set-up paths below `Transport`: a peer that is gone, and a disconnection.
3. The UD half of perftest's set-up: exchange of QP numbers and address handles.
4. The raw server of `go_rdmanet_bw`, which drains with and without a count.
