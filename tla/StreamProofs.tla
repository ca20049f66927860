---------------------------- MODULE StreamProofs ----------------------------
(***************************************************************************)
(* What is in the frames of the RC data path. The frames on their way to   *)
(* an end walk through the messages its peer has sent, from where the      *)
(* receiver is to where the sender is, and stay in step with them whatever *)
(* the goroutines, the NIC and Close do, for every depth, payload size and *)
(* script. So each direction is a MessageStream, and Read returns what was *)
(* written.                                                                *)
(***************************************************************************)
EXTENDS TransportProofs, SequenceTheorems

-----------------------------------------------------------------------------
(* MessageStream, one direction: the frames on the way to r (Pipe), walked *)
(* through the messages that were sent (Walk). First walks alone.          *)

(* A walk is a walk of its steps.                                          *)
LEMMA WalkStep ==
  ASSUME NEW frames \in FrameSeq, NEW msgs \in Texts, NEW done, NEW part,
         Walk(frames, msgs, done, part), NEW i \in 1 .. Len(frames)
  PROVE  /\ Stride(frames[i], msgs, done[i - 1], part[i - 1], done[i], part[i])
         /\ done[i - 1] \in 0 .. Len(msgs) /\ done[i] \in 0 .. Len(msgs)
         /\ part[i - 1] \in Partial /\ part[i] \in Partial
         /\ frames[i] \in Frames
         /\ done[i - 1] <= done[i]
<1>0. Len(frames) \in Nat /\ Len(msgs) \in Nat
  BY DEF FrameSeq, Texts
<1>1. i \in 0 .. Len(frames) /\ i - 1 \in 0 .. Len(frames)
  BY <1>0
<1>2. Stride(frames[i], msgs, done[i - 1], part[i - 1], done[i], part[i])
  BY Zenon DEF Walk
<1>3. done[i - 1] \in 0 .. Len(msgs) /\ done[i] \in 0 .. Len(msgs)
  BY <1>1 DEF Walk
<1>4. part[i - 1] \in Partial /\ part[i] \in Partial
  BY <1>1 DEF Walk
<1>5. frames[i] \in Frames
  BY DEF FrameSeq
<1>6. done[i] = done[i - 1] \/ done[i] = done[i - 1] + 1
  BY <1>2, Zenon DEF Stride
<1>7. done[i - 1] <= done[i]
  BY <1>0, <1>3, <1>6
<1>8. QED
  BY <1>2, <1>3, <1>4, <1>5, <1>7, Zenon

(* A frame appended continues the walk.                                    *)
LEMMA WalkExtend ==
  ASSUME NEW frames \in FrameSeq, NEW msgs \in Texts, NEW done, NEW part,
         Walk(frames, msgs, done, part), NEW fr \in Frames,
         NEW d \in 0 .. Len(msgs), NEW w \in Partial,
         Stride(fr, msgs, done[Len(frames)], part[Len(frames)], d, w)
  PROVE  \E done1, part1 :
           /\ Walk(Append(frames, fr), msgs, done1, part1)
           /\ \A i \in 0 .. Len(frames) : done1[i] = done[i] /\ part1[i] = part[i]
           /\ done1[Len(frames) + 1] = d /\ part1[Len(frames) + 1] = w
<1> DEFINE n == Len(frames)
           all == Append(frames, fr)
           done1 == [i \in 0 .. n + 1 |-> IF i = n + 1 THEN d ELSE done[i]]
           part1 == [i \in 0 .. n + 1 |-> IF i = n + 1 THEN w ELSE part[i]]
<1>0. n \in Nat /\ Len(all) = n + 1 /\ all[n + 1] = fr /\ \A i \in 1 .. n : all[i] = frames[i]
  BY DEF FrameSeq
<1>1. /\ \A i \in 0 .. n : done1[i] = done[i] /\ part1[i] = part[i]
      /\ done1[n + 1] = d /\ part1[n + 1] = w
  BY <1>0
<1>2. \A i \in 0 .. n : done[i] \in 0 .. Len(msgs) /\ part[i] \in Partial
  BY Zenon DEF Walk
<1>3. done1 \in [0 .. n + 1 -> 0 .. Len(msgs)]
  BY <1>0, <1>2
<1>4. part1 \in [0 .. n + 1 -> Partial]
  BY <1>0, <1>2
<1> HIDE DEF all, done1, part1
<1>5. ASSUME NEW i \in 1 .. n + 1
      PROVE  Stride(all[i], msgs, done1[i - 1], part1[i - 1], done1[i], part1[i])
  <2>1. CASE i = n + 1
    <3>1. i - 1 = n /\ n \in 0 .. n
      BY <1>0, <2>1
    <3>2. QED
      BY <1>0, <1>1, <2>1, <3>1, Zenon
  <2>2. CASE i # n + 1
    <3>1. i \in 1 .. n /\ i - 1 \in 0 .. n /\ i \in 0 .. n
      BY <1>0, <2>2
    <3>2. Stride(frames[i], msgs, done[i - 1], part[i - 1], done[i], part[i])
      BY <3>1, Zenon DEF Walk
    <3>3. QED
      BY <1>0, <1>1, <3>1, <3>2, Zenon
  <2>3. QED
    BY <2>1, <2>2
<1>6. Walk(all, msgs, done1, part1)
  BY <1>0, <1>3, <1>4, <1>5, Zenon DEF Walk
<1>7. QED
  BY <1>1, <1>6, Zenon DEF all

(* A walk whose first step has been made goes on from there.               *)
LEMMA WalkTail ==
  ASSUME NEW frames \in FrameSeq, frames # <<>>, NEW msgs \in Texts, NEW done, NEW part,
         Walk(frames, msgs, done, part)
  PROVE  \E done1, part1 :
           /\ Walk(Tail(frames), msgs, done1, part1)
           /\ \A i \in 0 .. Len(frames) - 1 : done1[i] = done[i + 1] /\ part1[i] = part[i + 1]
<1> DEFINE n == Len(frames) - 1
           rest == Tail(frames)
           done1 == [i \in 0 .. n |-> done[i + 1]]
           part1 == [i \in 0 .. n |-> part[i + 1]]
<1>0. /\ n \in Nat /\ Len(frames) = n + 1 /\ Len(rest) = n
      /\ \A i \in 1 .. n : rest[i] = frames[i + 1]
  BY DEF FrameSeq
<1>1. \A i \in 0 .. n : done1[i] = done[i + 1] /\ part1[i] = part[i + 1]
  OBVIOUS
<1>2. \A i \in 0 .. n + 1 : done[i] \in 0 .. Len(msgs) /\ part[i] \in Partial
  BY <1>0, Zenon DEF Walk
<1>3. done1 \in [0 .. n -> 0 .. Len(msgs)]
  BY <1>0, <1>2
<1>4. part1 \in [0 .. n -> Partial]
  BY <1>0, <1>2
<1> HIDE DEF rest, done1, part1
<1>5. ASSUME NEW i \in 1 .. n
      PROVE  Stride(rest[i], msgs, done1[i - 1], part1[i - 1], done1[i], part1[i])
  <2>1. i + 1 \in 1 .. Len(frames) /\ (i + 1) - 1 = i /\ i - 1 \in 0 .. n /\ i \in 0 .. n
        /\ (i - 1) + 1 = i
    BY <1>0
  <2>2. Stride(frames[i + 1], msgs, done[(i + 1) - 1], part[(i + 1) - 1], done[i + 1], part[i + 1])
    BY <2>1, Zenon DEF Walk
  <2>3. QED
    BY <1>0, <1>1, <2>1, <2>2, Zenon
<1>6. Walk(rest, msgs, done1, part1)
  BY <1>0, <1>3, <1>4, <1>5, Zenon DEF Walk
<1>7. QED
  BY <1>1, <1>6, Zenon DEF rest

(* The frames without the j-th, a control frame: the place of each of them *)
(* in frames, and that others are they.                                    *)
Skipping(j, i) == IF i < j THEN i ELSE i + 1
Without(frames, j, others) ==
  /\ j \in 1 .. Len(frames) /\ frames[j].kind # "data"
  /\ others \in FrameSeq /\ Len(others) = Len(frames) - 1
  /\ \A i \in 1 .. Len(others) : others[i] = frames[Skipping(j, i)]

(* A control frame is no step of a walk: it goes on without it.            *)
LEMMA WalkWithout ==
  ASSUME NEW frames \in FrameSeq, NEW msgs \in Texts, NEW done, NEW part,
         Walk(frames, msgs, done, part), NEW j, NEW others, Without(frames, j, others)
  PROVE  \E done1, part1 :
           /\ Walk(others, msgs, done1, part1)
           /\ \A i \in 0 .. Len(others) :
                /\ done1[i] = done[Skipping(j, i)]
                /\ part1[i] = part[Skipping(j, i)]
<1> DEFINE n == Len(others)
           done1 == [i \in 0 .. n |-> done[Skipping(j, i)]]
           part1 == [i \in 0 .. n |-> part[Skipping(j, i)]]
<1>w. /\ others \in FrameSeq /\ Len(others) = Len(frames) - 1 /\ j \in 1 .. Len(frames)
      /\ frames[j].kind # "data"
      /\ \A i \in 1 .. Len(others) : others[i] = frames[Skipping(j, i)]
  BY Zenon DEF Without
<1>0. n \in Nat /\ Len(frames) = n + 1 /\ j \in 1 .. n + 1
  BY <1>w DEF FrameSeq
<1>1. \A i \in 0 .. n : /\ done1[i] = done[Skipping(j, i)]
                        /\ part1[i] = part[Skipping(j, i)]
  OBVIOUS
<1>s. \A i \in 0 .. n : Skipping(j, i) \in 0 .. n + 1
  BY <1>0 DEF Skipping
<1>2. \A i \in 0 .. n + 1 : done[i] \in 0 .. Len(msgs) /\ part[i] \in Partial
  BY <1>0, Zenon DEF Walk
<1>3. done1 \in [0 .. n -> 0 .. Len(msgs)]
  BY <1>0, <1>s, <1>2
<1>4. part1 \in [0 .. n -> Partial]
  BY <1>0, <1>s, <1>2
<1> HIDE DEF done1, part1
<1>5. ASSUME NEW i \in 1 .. n
      PROVE  Stride(others[i], msgs, done1[i - 1], part1[i - 1], done1[i], part1[i])
  <2>0. i \in 0 .. n /\ i - 1 \in 0 .. n /\ i \in 1 .. n + 1 /\ i + 1 \in 1 .. n + 1
        /\ (i + 1) - 1 = i /\ (i - 1) + 1 = i /\ j \in Int /\ i \in Int
    BY <1>0
  <2>1. CASE i < j
    <3>1. i - 1 < j
      BY <2>0, <2>1
    <3>2. /\ done1[i] = done[i] /\ part1[i] = part[i] /\ others[i] = frames[i]
          /\ done1[i - 1] = done[i - 1] /\ part1[i - 1] = part[i - 1]
      BY <1>w, <1>1, <2>0, <2>1, <3>1, Zenon DEF Skipping
    <3>3. QED
      BY <1>0, <2>0, <3>2, Zenon DEF Walk
  <2>2. CASE ~(i < j)
    <3>1. /\ done1[i] = done[i + 1] /\ part1[i] = part[i + 1] /\ others[i] = frames[i + 1]
      BY <1>w, <1>1, <2>0, <2>2, Zenon DEF Skipping
    <3>2. Stride(frames[i + 1], msgs, done[i], part[i], done[i + 1], part[i + 1])
      BY <1>0, <2>0, Zenon DEF Walk
    <3>3. done1[i - 1] = done[i] /\ part1[i - 1] = part[i]
      <4>1. CASE i - 1 < j
        <5>1. i = j
          BY <2>0, <2>2, <4>1
        <5>2. done1[i - 1] = done[i - 1] /\ part1[i - 1] = part[i - 1]
          BY <1>1, <2>0, <4>1, Zenon DEF Skipping
        <5>3. Stride(frames[i], msgs, done[i - 1], part[i - 1], done[i], part[i])
          BY <1>0, <2>0, Zenon DEF Walk
        <5>4. QED
          BY <1>w, <5>1, <5>2, <5>3, Zenon DEF Stride
      <4>2. CASE ~(i - 1 < j)
        BY <1>1, <2>0, <4>2, Zenon DEF Skipping
      <4>3. QED
        BY <4>1, <4>2
    <3>4. QED
      BY <3>1, <3>2, <3>3, Zenon
  <2>3. QED
    BY <2>1, <2>2
<1>6. Walk(others, msgs, done1, part1)
  BY <1>3, <1>4, <1>5, Zenon DEF Walk
<1>7. QED
  BY <1>1, <1>6

(* More messages do not change a walk.                                     *)
LEMMA WalkMore ==
  ASSUME NEW frames \in FrameSeq, NEW msgs \in Texts, NEW done, NEW part,
         Walk(frames, msgs, done, part), NEW m \in Text
  PROVE  Walk(frames, Append(msgs, m), done, part)
<1> DEFINE all == Append(msgs, m)
           N == Len(msgs)
<1>0. N \in Nat /\ Len(all) = N + 1 /\ \A i \in 1 .. N : all[i] = msgs[i]
  BY DEF Texts
<1>1. \A i \in 0 .. N : i \in 0 .. N + 1
  BY <1>0
<1>2. done \in [0 .. Len(frames) -> 0 .. N + 1]
  BY <1>1 DEF Walk
<1> HIDE DEF all, N
<1>3. ASSUME NEW i \in 1 .. Len(frames)
      PROVE  Stride(frames[i], all, done[i - 1], part[i - 1], done[i], part[i])
  <2>1. /\ Stride(frames[i], msgs, done[i - 1], part[i - 1], done[i], part[i])
        /\ done[i - 1] \in 0 .. N /\ done[i] \in 0 .. N
    BY WalkStep, Zenon DEF N
  <2>2. CASE done[i] = done[i - 1] + 1
    <3>1. done[i] \in 1 .. N
      BY <1>0, <2>1, <2>2
    <3>2. all[done[i]] = msgs[done[i]]
      BY <1>0, <3>1
    <3>3. QED
      BY <2>1, <3>2, Zenon DEF Stride
  <2>3. CASE done[i] # done[i - 1] + 1
    BY <2>1, <2>3, Zenon DEF Stride
  <2>4. QED
    BY <2>2, <2>3
<1>4. QED
  BY <1>0, <1>2, <1>3, Zenon DEF Walk, all

-----------------------------------------------------------------------------
(* The way from the send queue of one end over the NIC to the receive      *)
(* queue of the other, and what the steps make of it.                      *)

(* The frames on the way, of two queues and of a third from its m-th on.   *)
Lane(a, b, c, m) == a \o b \o SubSeq(c, m + 1, Len(c))

(* The i-th of them.                                                       *)
LaneAt(a, b, c, m, i) ==
  IF i <= Len(a) THEN a[i]
  ELSE IF i <= Len(a) + Len(b) THEN b[i - Len(a)]
  ELSE c[i - Len(a) - Len(b) + m]

(* They are frames, and that is where they are.                            *)
LEMMA LaneFrames ==
  ASSUME NEW a \in FrameSeq, NEW b \in FrameSeq, NEW c \in FrameSeq, NEW m \in 0 .. Len(c)
  PROVE  /\ Lane(a, b, c, m) \in FrameSeq
         /\ Len(Lane(a, b, c, m)) = Len(a) + Len(b) + Len(c) - m
         /\ \A i \in 1 .. Len(a) + Len(b) + Len(c) - m :
              Lane(a, b, c, m)[i] = LaneAt(a, b, c, m, i)
<1> DEFINE u == SubSeq(c, m + 1, Len(c))
<1>0. Len(a) \in Nat /\ Len(b) \in Nat /\ Len(c) \in Nat /\ m \in Nat /\ m <= Len(c)
  BY DEF FrameSeq
<1>1. /\ u \in FrameSeq /\ Len(u) = Len(c) - m
      /\ \A i \in 1 .. Len(c) - m : u[i] = c[i + m]
  BY <1>0, SubSeqProperties DEF FrameSeq
<1> HIDE DEF u
<1>2. /\ a \o b \in FrameSeq /\ Len(a \o b) = Len(a) + Len(b)
      /\ \A i \in 1 .. Len(a) + Len(b) : (a \o b)[i] = IF i <= Len(a) THEN a[i] ELSE b[i - Len(a)]
  BY <1>0, ConcatProperties DEF FrameSeq
<1> DEFINE ab == a \o b
<1> HIDE DEF ab
<1>3. /\ ab \o u \in FrameSeq /\ Len(ab \o u) = Len(ab) + Len(u)
      /\ \A i \in 1 .. Len(ab) + Len(u) : (ab \o u)[i] = IF i <= Len(ab) THEN ab[i] ELSE u[i - Len(ab)]
  <2>1. ab \in FrameSeq
    BY <1>2, Zenon DEF ab
  <2>2. QED
    BY <1>1, <2>1, ConcatProperties DEF FrameSeq
<1>4. ab \o u = Lane(a, b, c, m)
  BY Zenon DEF ab, u, Lane
<1>5. Len(ab) + Len(u) = Len(a) + Len(b) + Len(c) - m
  BY <1>0, <1>1, <1>2 DEF ab
<1>6. ASSUME NEW i \in 1 .. Len(ab) + Len(u)
      PROVE  (ab \o u)[i] = LaneAt(a, b, c, m, i)
  <2>0. i \in Nat /\ i >= 1 /\ i <= Len(a) + Len(b) + Len(c) - m /\ Len(ab) = Len(a) + Len(b)
        /\ (ab \o u)[i] = IF i <= Len(ab) THEN ab[i] ELSE u[i - Len(ab)]
    BY <1>0, <1>2, <1>3, <1>5 DEF ab
  <2>1. CASE i <= Len(ab)
    <3>1. i \in 1 .. Len(a) + Len(b)
      BY <1>0, <2>0, <2>1
    <3>2. ab[i] = IF i <= Len(a) THEN a[i] ELSE b[i - Len(a)]
      BY <1>2, <3>1 DEF ab
    <3>3. QED
      BY <2>0, <2>1, <3>2, Zenon DEF LaneAt
  <2>2. CASE ~(i <= Len(ab))
    <3>1. /\ i - Len(ab) \in 1 .. Len(c) - m /\ ~(i <= Len(a)) /\ ~(i <= Len(a) + Len(b))
          /\ i - Len(ab) + m = i - Len(a) - Len(b) + m
      BY <1>0, <2>0, <2>2
    <3>2. u[i - Len(ab)] = c[i - Len(a) - Len(b) + m]
      BY <1>1, <3>1
    <3>3. QED
      BY <2>0, <2>2, <3>1, <3>2, Zenon DEF LaneAt
  <2>3. QED
    BY <2>1, <2>2
<1>7. QED
  BY <1>3, <1>4, <1>5, <1>6

(* What is posted goes to the end of the way.                              *)
LEMMA LanePosted ==
  ASSUME NEW a \in FrameSeq, NEW b \in FrameSeq, NEW c \in FrameSeq, NEW m \in 0 .. Len(c),
         NEW fr \in Frames
  PROVE  Lane(a, b, Append(c, fr), m) = Append(Lane(a, b, c, m), fr)
<1> DEFINE c1 == Append(c, fr)
           w == Lane(a, b, c, m)
           w1 == Lane(a, b, c1, m)
           n == Len(a) + Len(b) + Len(c) - m
<1>0. Len(a) \in Nat /\ Len(b) \in Nat /\ Len(c) \in Nat /\ m \in Nat /\ m <= Len(c) /\ n \in Nat
  BY DEF FrameSeq
<1>1. c1 \in FrameSeq /\ Len(c1) = Len(c) + 1 /\ c1[Len(c) + 1] = fr /\ \A i \in 1 .. Len(c) : c1[i] = c[i]
  BY DEF FrameSeq
<1>2. w \in FrameSeq /\ Len(w) = n /\ \A i \in 1 .. n : w[i] = LaneAt(a, b, c, m, i)
  BY LaneFrames, Zenon
<1> HIDE DEF c1
<1>3. m \in 0 .. Len(c1) /\ Len(a) + Len(b) + Len(c1) - m = n + 1
  BY <1>0, <1>1
<1>4. w1 \in FrameSeq /\ Len(w1) = n + 1 /\ \A i \in 1 .. n + 1 : w1[i] = LaneAt(a, b, c1, m, i)
  <2> HIDE DEF n
  <2>1. /\ w1 \in FrameSeq /\ Len(w1) = Len(a) + Len(b) + Len(c1) - m
        /\ \A i \in 1 .. Len(a) + Len(b) + Len(c1) - m : w1[i] = LaneAt(a, b, c1, m, i)
    BY <1>1, <1>3, LaneFrames, Zenon
  <2>2. QED
    BY <1>3, <2>1, Zenon
<1> HIDE DEF w, w1
<1>5. /\ Append(w, fr) \in FrameSeq /\ Len(Append(w, fr)) = n + 1
      /\ Append(w, fr)[n + 1] = fr /\ \A i \in 1 .. n : Append(w, fr)[i] = w[i]
  BY <1>0, <1>2 DEF FrameSeq
<1>6. ASSUME NEW i \in 1 .. n + 1 PROVE w1[i] = Append(w, fr)[i]
  <2>1. CASE i = n + 1
    <3>1. ~(i <= Len(a)) /\ ~(i <= Len(a) + Len(b)) /\ i - Len(a) - Len(b) + m = Len(c) + 1
      BY <1>0, <2>1
    <3>2. QED
      BY <1>1, <1>4, <1>5, <2>1, <3>1 DEF LaneAt
  <2>2. CASE i # n + 1
    <3>1. i \in 1 .. n
      BY <1>0, <2>2
    <3>2. ~(i <= Len(a) + Len(b)) => i - Len(a) - Len(b) + m \in 1 .. Len(c)
      BY <1>0, <3>1
    <3>3. LaneAt(a, b, c1, m, i) = LaneAt(a, b, c, m, i)
      BY <1>1, <3>2, Zenon DEF LaneAt
    <3>4. QED
      BY <1>2, <1>4, <1>5, <3>1, <3>3
  <2>3. QED
    BY <2>1, <2>2
<1>7. w1 = Append(w, fr)
  BY <1>4, <1>5, <1>6, SeqEqual DEF FrameSeq
<1>8. QED
  BY <1>7, Zenon DEF w, w1, c1

(* Frames in the places of the frames on the way are the way.              *)
LEMMA LaneIs ==
  ASSUME NEW a \in FrameSeq, NEW b \in FrameSeq, NEW c \in FrameSeq, NEW m \in 0 .. Len(c),
         NEW frames \in FrameSeq
  PROVE  /\ Len(frames) = Len(a) + Len(b) + Len(c) - m
         /\ \A i \in 1 .. Len(a) + Len(b) + Len(c) - m : frames[i] = LaneAt(a, b, c, m, i)
         => frames = Lane(a, b, c, m)
<1> DEFINE n == Len(a) + Len(b) + Len(c) - m
           w == Lane(a, b, c, m)
<1>1. w \in FrameSeq /\ Len(w) = n /\ \A i \in 1 .. n : w[i] = LaneAt(a, b, c, m, i)
  BY LaneFrames, Zenon
<1> HIDE DEF w, n
<1>2. SUFFICES ASSUME Len(frames) = n, \A i \in 1 .. n : frames[i] = LaneAt(a, b, c, m, i)
               PROVE  frames = w
  BY Zenon DEF w, n
<1>3. \A i \in 1 .. Len(frames) : frames[i] = w[i]
  BY <1>1, <1>2, Zenon
<1>4. QED
  BY <1>1, <1>2, <1>3, SeqEqual DEF FrameSeq

(* Completions free the send queue behind the frames that have landed.     *)
LEMMA LaneFreed ==
  ASSUME NEW a \in FrameSeq, NEW b \in FrameSeq, NEW c \in FrameSeq, NEW m \in 1 .. Len(c)
  PROVE  /\ m - 1 \in 0 .. Len(Tail(c))
         /\ Lane(a, b, Tail(c), m - 1) = Lane(a, b, c, m)
<1> DEFINE c1 == Tail(c)
           n == Len(a) + Len(b) + Len(c) - m
<1>0. Len(a) \in Nat /\ Len(b) \in Nat /\ Len(c) \in Nat /\ m \in Nat /\ m <= Len(c) /\ n \in Nat
      /\ m >= 1 /\ c # <<>> /\ m \in 0 .. Len(c)
  BY DEF FrameSeq
<1>1. c1 \in FrameSeq /\ Len(c1) = Len(c) - 1 /\ \A i \in 1 .. Len(c) - 1 : c1[i] = c[i + 1]
  BY <1>0 DEF FrameSeq
<1> HIDE DEF c1
<1>2. m - 1 \in 0 .. Len(c1) /\ Len(a) + Len(b) + Len(c1) - (m - 1) = n
  BY <1>0, <1>1
<1>3. ASSUME NEW i \in 1 .. n PROVE LaneAt(a, b, c1, m - 1, i) = LaneAt(a, b, c, m, i)
  <2>1. ~(i <= Len(a) + Len(b)) => /\ i - Len(a) - Len(b) + (m - 1) \in 1 .. Len(c) - 1
                                    /\ (i - Len(a) - Len(b) + (m - 1)) + 1 = i - Len(a) - Len(b) + m
    BY <1>0
  <2>2. QED
    BY <1>1, <2>1 DEF LaneAt
<1> DEFINE w1 == Lane(a, b, c1, m - 1)
<1>4. w1 \in FrameSeq /\ Len(w1) = n /\ \A i \in 1 .. n : w1[i] = LaneAt(a, b, c1, m - 1, i)
  <2> HIDE DEF n
  <2>1. /\ w1 \in FrameSeq /\ Len(w1) = Len(a) + Len(b) + Len(c1) - (m - 1)
        /\ \A i \in 1 .. Len(a) + Len(b) + Len(c1) - (m - 1) : w1[i] = LaneAt(a, b, c1, m - 1, i)
    BY <1>0, <1>1, <1>2, LaneFrames, Zenon
  <2>2. QED
    BY <1>2, <2>1, Zenon
<1> HIDE DEF w1
<1>5. w1 = Lane(a, b, c, m)
  <2>1. \A i \in 1 .. n : w1[i] = LaneAt(a, b, c, m, i)
    BY <1>3, <1>4, Zenon
  <2>2. QED
    BY <1>0, <1>4, <2>1, LaneIs, Zenon
<1>6. QED
  BY <1>2, <1>5, Zenon DEF w1, c1

(* A frame that lands is on the way still.                                 *)
LEMMA LaneLanded ==
  ASSUME NEW a \in FrameSeq, NEW b \in FrameSeq, NEW c \in FrameSeq, NEW m \in 0 .. Len(c),
         m < Len(c)
  PROVE  Lane(a, Append(b, c[m + 1]), c, m + 1) = Lane(a, b, c, m)
<1> DEFINE b1 == Append(b, c[m + 1])
           n == Len(a) + Len(b) + Len(c) - m
<1>0. Len(a) \in Nat /\ Len(b) \in Nat /\ Len(c) \in Nat /\ m \in Nat /\ m <= Len(c) /\ n \in Nat
      /\ m + 1 \in 0 .. Len(c) /\ c[m + 1] \in Frames
  BY DEF FrameSeq
<1>1. b1 \in FrameSeq /\ Len(b1) = Len(b) + 1 /\ b1[Len(b) + 1] = c[m + 1] /\ \A i \in 1 .. Len(b) : b1[i] = b[i]
  BY <1>0 DEF FrameSeq
<1> HIDE DEF b1
<1>2. Len(a) + Len(b1) + Len(c) - (m + 1) = n
  BY <1>0, <1>1
<1>3. ASSUME NEW i \in 1 .. n PROVE LaneAt(a, b1, c, m + 1, i) = LaneAt(a, b, c, m, i)
  <2>1. CASE i <= Len(a)
    BY <2>1, Zenon DEF LaneAt
  <2>2. CASE ~(i <= Len(a)) /\ i <= Len(a) + Len(b)
    <3>1. i - Len(a) \in 1 .. Len(b) /\ i <= Len(a) + Len(b1)
      BY <1>0, <1>1, <2>2
    <3>2. QED
      BY <1>1, <2>2, <3>1, Zenon DEF LaneAt
  <2>3. CASE i = Len(a) + Len(b) + 1
    <3>1. ~(i <= Len(a)) /\ ~(i <= Len(a) + Len(b)) /\ i <= Len(a) + Len(b1)
          /\ i - Len(a) = Len(b) + 1 /\ i - Len(a) - Len(b) + m = m + 1
      BY <1>0, <1>1, <2>3
    <3>2. QED
      BY <1>1, <3>1, Zenon DEF LaneAt
  <2>4. CASE i > Len(a) + Len(b) + 1
    <3>1. ~(i <= Len(a)) /\ ~(i <= Len(a) + Len(b)) /\ ~(i <= Len(a) + Len(b1))
          /\ i - Len(a) - Len(b1) + (m + 1) = i - Len(a) - Len(b) + m
      BY <1>0, <1>1, <2>4
    <3>2. QED
      BY <3>1, Zenon DEF LaneAt
  <2>5. QED
    BY <1>0, <2>1, <2>2, <2>3, <2>4
<1> DEFINE w1 == Lane(a, b1, c, m + 1)
<1>4. w1 \in FrameSeq /\ Len(w1) = n /\ \A i \in 1 .. n : w1[i] = LaneAt(a, b1, c, m + 1, i)
  <2> HIDE DEF n
  <2>1. /\ w1 \in FrameSeq /\ Len(w1) = Len(a) + Len(b1) + Len(c) - (m + 1)
        /\ \A i \in 1 .. Len(a) + Len(b1) + Len(c) - (m + 1) : w1[i] = LaneAt(a, b1, c, m + 1, i)
    BY <1>0, <1>1, <1>2, LaneFrames, Zenon
  <2>2. QED
    BY <1>2, <2>1, Zenon
<1> HIDE DEF w1
<1>5. w1 = Lane(a, b, c, m)
  <2>1. \A i \in 1 .. n : w1[i] = LaneAt(a, b, c, m, i)
    BY <1>3, <1>4, Zenon
  <2>2. QED
    BY <1>4, <2>1, LaneIs, Zenon
<1>6. QED
  BY <1>1, <1>5, Zenon DEF w1, b1

(* So is a frame that the poller queues.                                   *)
LEMMA LaneQueued ==
  ASSUME NEW a \in FrameSeq, NEW b \in FrameSeq, NEW c \in FrameSeq, NEW m \in 0 .. Len(c),
         b # <<>>
  PROVE  Lane(Append(a, Head(b)), Tail(b), c, m) = Lane(a, b, c, m)
<1> DEFINE a1 == Append(a, Head(b))
           b1 == Tail(b)
           n == Len(a) + Len(b) + Len(c) - m
<1>0. Len(a) \in Nat /\ Len(b) \in Nat /\ Len(c) \in Nat /\ m \in Nat /\ m <= Len(c) /\ n \in Nat
      /\ Head(b) \in Frames /\ Head(b) = b[1] /\ Len(b) >= 1
  BY DEF FrameSeq
<1>1. a1 \in FrameSeq /\ Len(a1) = Len(a) + 1 /\ a1[Len(a) + 1] = b[1] /\ \A i \in 1 .. Len(a) : a1[i] = a[i]
  BY <1>0 DEF FrameSeq
<1>2. b1 \in FrameSeq /\ Len(b1) = Len(b) - 1 /\ \A i \in 1 .. Len(b) - 1 : b1[i] = b[i + 1]
  BY <1>0 DEF FrameSeq
<1> HIDE DEF a1, b1
<1>3. Len(a1) + Len(b1) + Len(c) - m = n
  BY <1>0, <1>1, <1>2
<1>4. ASSUME NEW i \in 1 .. n PROVE LaneAt(a1, b1, c, m, i) = LaneAt(a, b, c, m, i)
  <2>1. CASE i <= Len(a)
    <3>1. i \in 1 .. Len(a) /\ i <= Len(a1)
      BY <1>0, <1>1, <2>1
    <3>2. QED
      BY <1>1, <2>1, <3>1, Zenon DEF LaneAt
  <2>2. CASE i = Len(a) + 1
    <3>1. ~(i <= Len(a)) /\ i <= Len(a1) /\ i <= Len(a) + Len(b) /\ i - Len(a) = 1
      BY <1>0, <1>1, <2>2
    <3>2. QED
      BY <1>1, <2>2, <3>1, Zenon DEF LaneAt
  <2>3. CASE i > Len(a) + 1 /\ i <= Len(a) + Len(b)
    <3>1. /\ ~(i <= Len(a)) /\ ~(i <= Len(a1)) /\ i <= Len(a1) + Len(b1)
          /\ i - Len(a1) \in 1 .. Len(b) - 1 /\ (i - Len(a1)) + 1 = i - Len(a)
      BY <1>0, <1>1, <1>2, <2>3
    <3>2. QED
      BY <1>2, <2>3, <3>1, Zenon DEF LaneAt
  <2>4. CASE i > Len(a) + Len(b)
    <3>1. /\ ~(i <= Len(a)) /\ ~(i <= Len(a1)) /\ ~(i <= Len(a) + Len(b))
          /\ ~(i <= Len(a1) + Len(b1))
          /\ i - Len(a1) - Len(b1) + m = i - Len(a) - Len(b) + m
      BY <1>0, <1>1, <1>2, <2>4
    <3>2. QED
      BY <3>1, Zenon DEF LaneAt
  <2>5. QED
    BY <1>0, <2>1, <2>2, <2>3, <2>4
<1> DEFINE w1 == Lane(a1, b1, c, m)
<1>5. w1 \in FrameSeq /\ Len(w1) = n /\ \A i \in 1 .. n : w1[i] = LaneAt(a1, b1, c, m, i)
  <2> HIDE DEF n
  <2>0. a1 \in FrameSeq /\ b1 \in FrameSeq /\ m \in 0 .. Len(c)
    BY <1>0, <1>1, <1>2, Zenon
  <2>1. /\ w1 \in FrameSeq
        /\ Len(w1) = Len(a1) + Len(b1) + Len(c) - m
        /\ \A i \in 1 .. Len(a1) + Len(b1) + Len(c) - m : w1[i] = LaneAt(a1, b1, c, m, i)
    BY <2>0, LaneFrames, Zenon
  <2>2. QED
    BY <1>3, <2>1, Zenon
<1> HIDE DEF w1
<1>6. w1 = Lane(a, b, c, m)
  <2>1. \A i \in 1 .. n : w1[i] = LaneAt(a, b, c, m, i)
    BY <1>4, <1>5, Zenon
  <2>2. QED
    BY <1>5, <2>1, LaneIs, Zenon
<1>7. QED
  BY <1>1, <1>6, Zenon DEF w1, a1, b1

(* The receiver takes the first frame of the way.                          *)
LEMMA LaneTaken ==
  ASSUME NEW a \in FrameSeq, NEW b \in FrameSeq, NEW c \in FrameSeq, NEW m \in 0 .. Len(c),
         a # <<>>
  PROVE  /\ Lane(Tail(a), b, c, m) = Tail(Lane(a, b, c, m))
         /\ Lane(a, b, c, m) # <<>> /\ Lane(a, b, c, m)[1] = Head(a)
<1> DEFINE a1 == Tail(a)
           n == Len(a) + Len(b) + Len(c) - m
           w == Lane(a, b, c, m)
           w1 == Lane(a1, b, c, m)
<1>0. Len(a) \in Nat /\ Len(b) \in Nat /\ Len(c) \in Nat /\ m \in Nat /\ m <= Len(c) /\ n \in Nat
      /\ Head(a) = a[1] /\ Len(a) >= 1 /\ n >= 1
  BY DEF FrameSeq
<1>1. a1 \in FrameSeq /\ Len(a1) = Len(a) - 1 /\ \A i \in 1 .. Len(a) - 1 : a1[i] = a[i + 1]
  BY <1>0 DEF FrameSeq
<1>2. w \in FrameSeq /\ Len(w) = n /\ \A i \in 1 .. n : w[i] = LaneAt(a, b, c, m, i)
  BY LaneFrames, Zenon
<1> HIDE DEF a1
<1>3. Len(a1) + Len(b) + Len(c) - m = n - 1
  BY <1>0, <1>1
<1>4. w1 \in FrameSeq /\ Len(w1) = n - 1 /\ \A i \in 1 .. n - 1 : w1[i] = LaneAt(a1, b, c, m, i)
  <2> HIDE DEF n
  <2>1. /\ w1 \in FrameSeq /\ Len(w1) = Len(a1) + Len(b) + Len(c) - m
        /\ \A i \in 1 .. Len(a1) + Len(b) + Len(c) - m : w1[i] = LaneAt(a1, b, c, m, i)
    BY <1>1, LaneFrames, Zenon
  <2>2. QED
    BY <1>3, <2>1, Zenon
<1> HIDE DEF w, w1
<1>5. /\ w # <<>> /\ Tail(w) \in FrameSeq /\ Len(Tail(w)) = n - 1
      /\ \A i \in 1 .. n - 1 : Tail(w)[i] = w[i + 1]
  BY <1>0, <1>2 DEF FrameSeq
<1>6. ASSUME NEW i \in 1 .. n - 1 PROVE w1[i] = Tail(w)[i]
  <2>0. i + 1 \in 1 .. n
    BY <1>0
  <2>1. LaneAt(a1, b, c, m, i) = LaneAt(a, b, c, m, i + 1)
    <3>1. CASE i <= Len(a1)
      <4>1. i \in 1 .. Len(a) - 1 /\ i + 1 <= Len(a)
        BY <1>0, <1>1, <3>1
      <4>2. QED
        BY <1>1, <3>1, <4>1, Zenon DEF LaneAt
    <3>2. CASE ~(i <= Len(a1))
      <4>1. /\ ~(i + 1 <= Len(a)) /\ i - Len(a1) = (i + 1) - Len(a)
            /\ (i <= Len(a1) + Len(b)) <=> (i + 1 <= Len(a) + Len(b))
            /\ i - Len(a1) - Len(b) + m = (i + 1) - Len(a) - Len(b) + m
        BY <1>0, <1>1, <3>2
      <4>2. QED
        BY <3>2, <4>1, Zenon DEF LaneAt
    <3>3. QED
      BY <3>1, <3>2
  <2>2. QED
    BY <1>2, <1>4, <1>5, <2>0, <2>1
<1>7. w1 = Tail(w)
  BY <1>4, <1>5, <1>6, SeqEqual DEF FrameSeq
<1>8. w[1] = a[1]
  <2>1. 1 \in 1 .. n /\ 1 <= Len(a)
    BY <1>0
  <2>2. QED
    BY <1>2, <2>1, Zenon DEF LaneAt
<1>9. QED
  BY <1>0, <1>5, <1>7, <1>8, Zenon DEF w, w1, a1

(* A control frame that the poller handles leaves the way.                 *)
LEMMA LaneHandled ==
  ASSUME NEW a \in FrameSeq, NEW b \in FrameSeq, NEW c \in FrameSeq, NEW m \in 0 .. Len(c),
         b # <<>>
  PROVE  LET w == Lane(a, b, c, m)
             w1 == Lane(a, Tail(b), c, m)
         IN  /\ w1 \in FrameSeq /\ Len(w1) = Len(w) - 1
             /\ Len(a) + 1 \in 1 .. Len(w) /\ w[Len(a) + 1] = Head(b)
             /\ \A i \in 1 .. Len(w1) : w1[i] = w[Skipping(Len(a) + 1, i)]
<1> DEFINE b1 == Tail(b)
           n == Len(a) + Len(b) + Len(c) - m
           w == Lane(a, b, c, m)
           w1 == Lane(a, b1, c, m)
<1>0. Len(a) \in Nat /\ Len(b) \in Nat /\ Len(c) \in Nat /\ m \in Nat /\ m <= Len(c) /\ n \in Nat
      /\ Head(b) = b[1] /\ Len(b) >= 1 /\ n >= Len(a) + 1
  BY DEF FrameSeq
<1>1. b1 \in FrameSeq /\ Len(b1) = Len(b) - 1 /\ \A i \in 1 .. Len(b) - 1 : b1[i] = b[i + 1]
  BY <1>0 DEF FrameSeq
<1>2. w \in FrameSeq /\ Len(w) = n /\ \A i \in 1 .. n : w[i] = LaneAt(a, b, c, m, i)
  BY LaneFrames, Zenon
<1> HIDE DEF b1
<1>3. Len(a) + Len(b1) + Len(c) - m = n - 1
  BY <1>0, <1>1
<1>4. w1 \in FrameSeq /\ Len(w1) = n - 1 /\ \A i \in 1 .. n - 1 : w1[i] = LaneAt(a, b1, c, m, i)
  <2> HIDE DEF n
  <2>1. /\ w1 \in FrameSeq /\ Len(w1) = Len(a) + Len(b1) + Len(c) - m
        /\ \A i \in 1 .. Len(a) + Len(b1) + Len(c) - m : w1[i] = LaneAt(a, b1, c, m, i)
    BY <1>1, LaneFrames, Zenon
  <2>2. QED
    BY <1>3, <2>1, Zenon
<1> HIDE DEF w, w1
<1>5. w[Len(a) + 1] = b[1]
  <2>1. /\ Len(a) + 1 \in 1 .. n /\ ~(Len(a) + 1 <= Len(a)) /\ Len(a) + 1 <= Len(a) + Len(b)
        /\ Len(a) + 1 - Len(a) = 1
    BY <1>0
  <2>2. QED
    BY <1>2, <2>1 DEF LaneAt
<1>6. ASSUME NEW i \in 1 .. n - 1 PROVE w1[i] = w[IF i < Len(a) + 1 THEN i ELSE i + 1]
  <2>0. i + 1 \in 1 .. n /\ i \in 1 .. n
    BY <1>0
  <2>1. CASE i < Len(a) + 1
    <3>1. i <= Len(a)
      BY <1>0, <2>1
    <3>2. LaneAt(a, b1, c, m, i) = LaneAt(a, b, c, m, i)
      BY <3>1, Zenon DEF LaneAt
    <3>3. QED
      BY <1>2, <1>4, <2>0, <2>1, <3>2, Zenon
  <2>2. CASE ~(i < Len(a) + 1)
    <3>1. /\ ~(i <= Len(a)) /\ ~(i + 1 <= Len(a))
          /\ (i <= Len(a) + Len(b1)) <=> (i + 1 <= Len(a) + Len(b))
          /\ i <= Len(a) + Len(b1) => i - Len(a) \in 1 .. Len(b) - 1
          /\ (i - Len(a)) + 1 = (i + 1) - Len(a)
          /\ i - Len(a) - Len(b1) + m = (i + 1) - Len(a) - Len(b) + m
      BY <1>0, <1>1, <2>2
    <3>2. LaneAt(a, b1, c, m, i) = LaneAt(a, b, c, m, i + 1)
      BY <1>1, <3>1 DEF LaneAt
    <3>3. QED
      BY <1>2, <1>4, <2>0, <2>2, <3>2, Zenon
  <2>3. QED
    BY <2>1, <2>2
<1>7. Len(a) + 1 \in 1 .. n
  BY <1>0
<1>8. QED
  <2>1. \A i \in 1 .. Len(w1) : w1[i] = w[Skipping(Len(a) + 1, i)]
    BY <1>4, <1>6, Zenon DEF Skipping
  <2>2. QED
    BY <1>0, <1>2, <1>4, <1>5, <1>7, <2>1, Zenon DEF w, w1, b1

-----------------------------------------------------------------------------
(* What a step that changes the way makes of the stream (StreamOf).        *)

(* The frames on the way to r, in terms of the queues they are in.         *)
LEMMA PipeFrames ==
  ASSUME Typing, NEW r \in Peers, LandedOfQueued(Peer(r))
  PROVE  LET s == Peer(r) IN
         /\ Pipe(r) = Lane(tp[r].recvQ, nic[r].inbox, nic[s].sq, nic[s].landed)
         /\ tp[r].recvQ \in FrameSeq /\ nic[r].inbox \in FrameSeq /\ nic[s].sq \in FrameSeq
         /\ nic[s].landed \in 0 .. Len(nic[s].sq)
         /\ Pipe(r) \in FrameSeq /\ Len(tp[r].recvQ) \in 0 .. Len(Pipe(r))
<1> DEFINE s == Peer(r)
<1>1. s \in Peers
  BY ThePeers, Zenon
<1>2. tp[r].recvQ \in DataSeq /\ nic[r].inbox \in FrameSeq /\ nic[s].sq \in FrameSeq
      /\ nic[s].landed \in Nat
  BY <1>1, TpFields, NicFields, Zenon DEF Typing
<1>3. tp[r].recvQ \in FrameSeq
  BY <1>2 DEF DataSeq, FrameSeq, Frames
<1>4. nic[s].landed \in 0 .. Len(nic[s].sq)
  <2>1. Len(nic[s].sq) \in Nat /\ nic[s].landed <= Len(nic[s].sq)
    BY <1>2 DEF FrameSeq, LandedOfQueued
  <2>2. QED
    BY <1>2, <2>1
<1>5. Pipe(r) = Lane(tp[r].recvQ, nic[r].inbox, nic[s].sq, nic[s].landed)
  BY Zenon DEF Pipe, Unlanded, Lane
<1> HIDE DEF s
<1>6. /\ Pipe(r) \in FrameSeq
      /\ Len(Pipe(r)) = Len(tp[r].recvQ) + Len(nic[r].inbox) + Len(nic[s].sq) - nic[s].landed
  <2> DEFINE w == Lane(tp[r].recvQ, nic[r].inbox, nic[s].sq, nic[s].landed)
  <2>1. /\ w \in FrameSeq
        /\ Len(w) = Len(tp[r].recvQ) + Len(nic[r].inbox) + Len(nic[s].sq) - nic[s].landed
    BY <1>2, <1>3, <1>4, LaneFrames, Zenon
  <2>2. QED
    BY <1>5, <2>1, Zenon
<1>7. Len(tp[r].recvQ) \in 0 .. Len(Pipe(r))
  <2>1. Len(tp[r].recvQ) \in Nat /\ Len(nic[r].inbox) \in Nat /\ Len(nic[s].sq) \in Nat
    BY <1>2 DEF DataSeq, FrameSeq
  <2>2. /\ Len(Pipe(r)) = Len(tp[r].recvQ) + Len(nic[r].inbox) + Len(nic[s].sq) - nic[s].landed
        /\ nic[s].landed \in 0 .. Len(nic[s].sq)
    BY <1>4, <1>6, Zenon
  <2>3. \A a, b, c \in Nat : \A m \in 0 .. c : a \in 0 .. a + b + c - m
    OBVIOUS
  <2>4. QED
    BY <2>1, <2>2, <2>3, Zenon
<1>8. QED
  BY <1>2, <1>3, <1>4, <1>5, <1>6, <1>7, Zenon DEF s

(* What has happened to the messages of s, but not to the frames on the    *)
(* way, is that at most one more promise was made, and that s may have     *)
(* fallen silent.                                                          *)
SenderKeeps(s) ==
  /\ hist'[s].stream = hist[s].stream
  /\ hist'[s].promised = hist[s].promised \/ cls[s] = "open"
  /\ cls'[s] = "open" => cls[s] = "open"
  /\ Refused(s) => Refused(s)'
  /\ Silent(s) => Silent(s)'
  /\ Refused(s)' \/ Silent(s)' \/ Begun(s)' = Begun(s)

(* And r has taken nothing.                                                *)
ReceiverKeeps(r) ==
  /\ plr[r].final => plr'[r].final
  /\ nic[r].down => nic'[r].down
  /\ tp'[r].reasm = tp[r].reasm /\ tp'[r].peerFin = tp[r].peerFin
  /\ Taken(r)' = Taken(r)

(* Then the stream is as it was, also when the poller has queued a frame.  *)
LEMMA StreamStays ==
  ASSUME Typing, NEW r \in Peers, LandedOfQueued(Peer(r)), StreamOf(r),
         SenderKeeps(Peer(r)), ReceiverKeeps(r), Pipe(r)' = Pipe(r),
         \/ tp'[r].recvQ = tp[r].recvQ
         \/ /\ Len(tp'[r].recvQ) = Len(tp[r].recvQ) + 1
            /\ Len(tp'[r].recvQ) \in 1 .. Len(Pipe(r))
  PROVE  StreamOf(r)'
<1> DEFINE s == Peer(r)
<1>s. s \in Peers
  BY ThePeers, Zenon
<1>1. SUFFICES ASSUME Whole(r)'
               PROVE  /\ IsPrefix(Taken(r), hist[s].stream)'
                      /\ nic'[r].down \/ \E done, part : InStep(r, done, part)'
  BY Zenon DEF StreamOf
<1>2. Whole(r) /\ ~Refused(s)'
  BY <1>1, Zenon DEF Whole, SenderKeeps, ReceiverKeeps
<1>3. IsPrefix(Taken(r), hist[s].stream)'
  BY <1>2, Zenon DEF StreamOf, IsPrefix, SenderKeeps, ReceiverKeeps
<1>4. CASE nic[r].down
  BY <1>3, <1>4, Zenon DEF ReceiverKeeps
<1>5. CASE ~nic[r].down
  <2>1. PICK done, part : InStep(r, done, part)
    BY <1>2, <1>5, Zenon DEF StreamOf
  <2>2. Pipe(r) \in FrameSeq /\ Len(tp[r].recvQ) \in 0 .. Len(Pipe(r))
    BY PipeFrames, Zenon
  <2>3. hist[s].stream \in Texts /\ hist[s].promised \in Nat
    BY <1>s, HistFields, Zenon DEF Typing
  <2>4. Walk(Pipe(r), hist[s].stream, done, part)
    BY <2>1, Zenon DEF InStep
  <2>5. Walk(Pipe(r), hist[s].stream, done, part)'
    BY <2>4, Zenon DEF Walk, SenderKeeps
  <2>6. /\ done[0] = Len(Taken(r))' /\ part[0] = tp'[r].reasm
        /\ done[Len(Pipe(r))'] = Len(hist'[s].stream)
    BY <2>1, Zenon DEF InStep, SenderKeeps, ReceiverKeeps
  <2>7. Silent(s)' \/ part[Len(Pipe(r))'] = Begun(s)'
    BY <1>2, <2>1, Zenon DEF InStep, SenderKeeps
  <2>8. \A i \in 1 .. Len(Pipe(r)) : Pipe(r)[i].kind = "fin" =>
          cls'[s] # "open" /\ hist'[s].promised <= done[i]
    BY <2>1, Zenon DEF InStep, SenderKeeps
  <2>9. tp[r].peerFin =>
          cls'[s] # "open" /\ hist'[s].promised <= done[Len(tp[r].recvQ)]
    BY <2>1, Zenon DEF InStep, SenderKeeps
  <2>10. tp[r].peerFin => hist'[s].promised <= done[Len(tp'[r].recvQ)]
    <3>1. CASE tp'[r].recvQ = tp[r].recvQ
      BY <2>9, <3>1, Zenon
    <3>2. CASE /\ Len(tp'[r].recvQ) = Len(tp[r].recvQ) + 1
               /\ Len(tp'[r].recvQ) \in 1 .. Len(Pipe(r))
      <4> DEFINE i == Len(tp'[r].recvQ)
      <4>1. i - 1 = Len(tp[r].recvQ)
        BY <2>2, <3>2
      <4>2. done[i - 1] \in 0 .. Len(hist[s].stream) /\ done[i] \in 0 .. Len(hist[s].stream)
            /\ done[i - 1] <= done[i]
        BY <2>2, <2>3, <2>4, <3>2, WalkStep, Zenon
      <4> HIDE DEF i
      <4>3. tp[r].peerFin => hist'[s].promised = hist[s].promised
        BY <2>1, Zenon DEF InStep, SenderKeeps
      <4>4. tp[r].peerFin => hist'[s].promised <= done[i - 1]
        BY <2>9, <4>1, Zenon
      <4>5. tp[r].peerFin => hist'[s].promised <= done[i]
        BY <2>3, <4>2, <4>3, <4>4
      <4>6. QED
        BY <4>5, Zenon DEF i
    <3>3. QED
      BY <3>1, <3>2
  <2>11. InStep(r, done, part)'
    <3>1. tp'[r].peerFin = tp[r].peerFin
      BY Zenon DEF ReceiverKeeps
    <3>2. QED
      BY <2>5, <2>6, <2>7, <2>8, <2>9, <2>10, <3>1, Zenon DEF InStep
  <2>12. QED
    BY <1>3, <2>11, Zenon
<1>6. QED
  BY <1>4, <1>5

(* A credit or a fin frame follows all messages that were posted.          *)
LEMMA ControlFollows ==
  ASSUME Typing, NEW r \in Peers, LandedOfQueued(Peer(r)), StreamOf(r),
         SenderKeeps(Peer(r)), ReceiverKeeps(r), tp'[r].recvQ = tp[r].recvQ,
         NEW fr \in Frames, Pipe(r)' = Append(Pipe(r), fr), fr.kind # "data",
         fr.kind = "fin" => /\ cls'[Peer(r)] # "open"
                            /\ hist'[Peer(r)].promised <= Len(hist[Peer(r)].stream)
  PROVE  StreamOf(r)'
<1> DEFINE s == Peer(r)
           n == Len(Pipe(r))
           msgs == hist[s].stream
<1>s. s \in Peers
  BY ThePeers, Zenon
<1>1. SUFFICES ASSUME Whole(r)'
               PROVE  /\ IsPrefix(Taken(r), hist[s].stream)'
                      /\ nic'[r].down \/ \E done, part : InStep(r, done, part)'
  BY Zenon DEF StreamOf
<1>2. Whole(r) /\ ~Refused(s)'
  BY <1>1, Zenon DEF Whole, SenderKeeps, ReceiverKeeps
<1>3. IsPrefix(Taken(r), hist[s].stream)'
  BY <1>2, Zenon DEF StreamOf, IsPrefix, SenderKeeps, ReceiverKeeps
<1>4. CASE nic[r].down
  BY <1>3, <1>4, Zenon DEF ReceiverKeeps
<1>5. CASE ~nic[r].down
  <2>1. PICK done, part : InStep(r, done, part)
    BY <1>2, <1>5, Zenon DEF StreamOf
  <2>2. Pipe(r) \in FrameSeq /\ Len(tp[r].recvQ) \in 0 .. n
    BY PipeFrames, Zenon
  <2>n. n \in Nat /\ n \in 0 .. n /\ 0 \in 0 .. n
    BY <2>2 DEF FrameSeq
  <2>3. msgs \in Texts
    BY <1>s, HistFields, Zenon DEF Typing
  <2>4. Walk(Pipe(r), msgs, done, part)
    BY <2>1, Zenon DEF InStep
  <2>5. done[n] \in 0 .. Len(msgs) /\ part[n] \in Partial
    BY <2>4, <2>n, Zenon DEF Walk
  <2>6. Stride(fr, msgs, done[n], part[n], done[n], part[n])
    BY Zenon DEF Stride
  <2>7. PICK done1, part1 :
           /\ Walk(Append(Pipe(r), fr), msgs, done1, part1)
           /\ \A i \in 0 .. n : done1[i] = done[i] /\ part1[i] = part[i]
           /\ done1[n + 1] = done[n] /\ part1[n + 1] = part[n]
    BY <2>2, <2>3, <2>4, <2>5, <2>6, WalkExtend
  <2>8. Walk(Pipe(r), hist[s].stream, done1, part1)'
    BY <2>7, Zenon DEF SenderKeeps
  <2>9. /\ done1[0] = Len(Taken(r))' /\ part1[0] = tp'[r].reasm
    BY <2>1, <2>7, <2>n, Zenon DEF InStep, ReceiverKeeps
  <2>10. /\ Len(Append(Pipe(r), fr)) = n + 1 /\ Append(Pipe(r), fr)[n + 1] = fr
         /\ \A i \in 1 .. n : Append(Pipe(r), fr)[i] = Pipe(r)[i]
    BY <2>2 DEF FrameSeq
  <2>l. Len(Pipe(r))' = n + 1
    BY <2>10, Zenon
  <2>11. done1[Len(Pipe(r))'] = Len(hist'[s].stream)
    BY <2>1, <2>7, <2>l, Zenon DEF InStep, SenderKeeps
  <2>12. Silent(s)' \/ part1[Len(Pipe(r))'] = Begun(s)'
    BY <1>2, <2>1, <2>7, <2>l, Zenon DEF InStep, SenderKeeps
  <2>13. ASSUME NEW i \in 1 .. n + 1, Append(Pipe(r), fr)[i].kind = "fin"
         PROVE  cls'[s] # "open" /\ hist'[s].promised <= done1[i]
    <3>1. CASE i = n + 1
      <4>1. done1[i] = Len(msgs)
        BY <2>1, <2>7, <3>1, Zenon DEF InStep
      <4>2. fr.kind = "fin"
        BY <2>10, <2>13, <3>1, Zenon
      <4>3. QED
        BY <4>1, <4>2, Zenon
    <3>2. CASE i # n + 1
      <4>1. i \in 1 .. n /\ i \in 0 .. n
        BY <2>n, <3>2
      <4>2. Pipe(r)[i].kind = "fin" /\ done1[i] = done[i]
        BY <2>7, <2>10, <2>13, <4>1, Zenon
      <4>3. cls[s] # "open" /\ hist[s].promised <= done[i]
        BY <2>1, <4>1, <4>2, Zenon DEF InStep
      <4>4. QED
        BY <4>2, <4>3, Zenon DEF SenderKeeps
    <3>3. QED
      BY <3>1, <3>2
  <2>14. tp[r].peerFin => cls'[s] # "open" /\ hist'[s].promised <= done1[Len(tp[r].recvQ)]
    BY <2>1, <2>2, <2>7, Zenon DEF InStep, SenderKeeps
  <2>15. tp'[r].peerFin = tp[r].peerFin
    BY Zenon DEF ReceiverKeeps
  <2>16. InStep(r, done1, part1)'
    <3> HIDE DEF n
    <3>1. \A i \in 1 .. Len(Pipe(r))' : Pipe(r)'[i].kind = "fin" =>
            cls'[s] # "open" /\ hist'[s].promised <= done1[i]
      BY <2>13, <2>l, Zenon
    <3>2. QED
      BY <2>8, <2>9, <2>11, <2>12, <2>14, <2>15, <3>1, Zenon DEF InStep
  <2>17. QED
    BY <1>3, <2>16, Zenon
<1>6. QED
  BY <1>4, <1>5

(* A prefix has the same elements in the same places.                      *)
LEMMA PrefixAt ==
  ASSUME NEW T, NEW a \in Seq(T), NEW b \in Seq(T)
  PROVE  IsPrefix(a, b) <=> Len(a) <= Len(b) /\ \A i \in 1 .. Len(a) : a[i] = b[i]
<1> DEFINE a1 == SubSeq(a, 1, Len(a))
           b1 == SubSeq(b, 1, Len(a))
<1>0. Len(a) \in Nat /\ Len(b) \in Nat
  OBVIOUS
<1>1. CASE Len(a) <= Len(b)
  <2>1. /\ a1 \in Seq(T) /\ Len(a1) = Len(a) /\ \A i \in 1 .. Len(a) : a1[i] = a[i]
    BY <1>0
  <2>2. /\ b1 \in Seq(T) /\ Len(b1) = Len(a) /\ \A i \in 1 .. Len(a) : b1[i] = b[i]
    BY <1>0, <1>1
  <2>3. IsPrefix(a, b) <=> a1 = b1
    BY <1>1, Zenon DEF IsPrefix
  <2> HIDE DEF a1, b1
  <2>4. ASSUME a1 = b1 PROVE \A i \in 1 .. Len(a) : a[i] = b[i]
    BY <2>1, <2>2, <2>4, Zenon
  <2>5. ASSUME \A i \in 1 .. Len(a) : a[i] = b[i] PROVE a1 = b1
    <3>1. Len(a1) = Len(b1) /\ \A i \in 1 .. Len(a1) : a1[i] = b1[i]
      BY <2>1, <2>2, <2>5, Zenon
    <3>2. QED
      BY <2>1, <2>2, <3>1, SeqEqual
  <2>6. QED
    BY <1>1, <2>3, <2>4, <2>5, Zenon
<1>2. CASE ~(Len(a) <= Len(b))
  BY <1>2, Zenon DEF IsPrefix
<1>3. QED
  BY <1>1, <1>2

(* A prefix stays one when the sequence grows, and it grows by what comes  *)
(* next.                                                                   *)
LEMMA PrefixGrows ==
  ASSUME NEW T, NEW a \in Seq(T), NEW b \in Seq(T), IsPrefix(a, b), NEW x \in T
  PROVE  /\ IsPrefix(a, Append(b, x))
         /\ Len(a) + 1 <= Len(b) /\ b[Len(a) + 1] = x => IsPrefix(Append(a, x), b)
<1>0. Len(a) \in Nat /\ Len(b) \in Nat
  OBVIOUS
<1>1. Len(a) <= Len(b) /\ \A i \in 1 .. Len(a) : a[i] = b[i]
  BY PrefixAt
<1>2. /\ Append(b, x) \in Seq(T) /\ Len(Append(b, x)) = Len(b) + 1
      /\ \A i \in 1 .. Len(b) : Append(b, x)[i] = b[i]
  OBVIOUS
<1>3. /\ Append(a, x) \in Seq(T) /\ Len(Append(a, x)) = Len(a) + 1
      /\ Append(a, x)[Len(a) + 1] = x
      /\ \A i \in 1 .. Len(a) : Append(a, x)[i] = a[i]
  OBVIOUS
<1>4. IsPrefix(a, Append(b, x))
  <2>1. Len(a) <= Len(Append(b, x))
    BY <1>0, <1>1, <1>2
  <2>2. \A i \in 1 .. Len(a) : a[i] = Append(b, x)[i]
    <3>1. \A i \in 1 .. Len(a) : i \in 1 .. Len(b)
      BY <1>0, <1>1
    <3>2. QED
      BY <1>1, <1>2, <3>1, Zenon
  <2>3. QED
    BY <1>2, <2>1, <2>2, PrefixAt, Zenon
<1>5. ASSUME Len(a) + 1 <= Len(b), b[Len(a) + 1] = x
      PROVE  IsPrefix(Append(a, x), b)
  <2>1. Len(Append(a, x)) <= Len(b)
    BY <1>3, <1>5, Zenon
  <2>2. ASSUME NEW i \in 1 .. Len(Append(a, x))
        PROVE  Append(a, x)[i] = b[i]
    <3>1. i \in 1 .. Len(a) \/ i = Len(a) + 1
      BY <1>0, <1>3, <2>2
    <3>2. QED
      BY <1>1, <1>3, <1>5, <3>1, Zenon
  <2>3. QED
    BY <1>3, <2>1, <2>2, PrefixAt, Zenon
<1>6. QED
  BY <1>4, <1>5, Zenon

(* No bytes are a part of a message, and of one that fits so is any part.  *)
LEMMA NoPart == <<>> \in Partial
BY TransportAssumption, EmptySeqs DEF Partial

(* A data frame continues the message that s has begun, or completes it.   *)
LEMMA DataFollows ==
  ASSUME Typing, NEW r \in Peers, LandedOfQueued(Peer(r)), StreamOf(r),
         ReceiverKeeps(r), tp'[r].recvQ = tp[r].recvQ,
         NEW fr \in DataFrames, Pipe(r)' = Append(Pipe(r), fr),
         ~Silent(Peer(r)), Refused(Peer(r)) => Refused(Peer(r))',
         cls'[Peer(r)] = cls[Peer(r)], hist'[Peer(r)].promised = hist[Peer(r)].promised,
         Begun(Peer(r)) \o fr.data \in Partial,
         \/ /\ fr.more /\ hist'[Peer(r)].stream = hist[Peer(r)].stream
            /\ Begun(Peer(r))' = Begun(Peer(r)) \o fr.data
         \/ /\ ~fr.more /\ Begun(Peer(r))' = <<>>
            /\ hist'[Peer(r)].stream = Append(hist[Peer(r)].stream, Begun(Peer(r)) \o fr.data)
  PROVE  StreamOf(r)'
<1> DEFINE s == Peer(r)
           n == Len(Pipe(r))
           msgs == hist[s].stream
           text == Begun(s) \o fr.data
<1>s. s \in Peers /\ r \in Peers
  BY ThePeers, Zenon
<1>0. msgs \in Texts /\ hist[r].got \in Texts /\ rcv[r].out \in Texts
  BY <1>s, HistFields, RcvFields, Zenon DEF Typing
<1>t. Taken(r) \in Texts /\ text \in Text
  <2>1. Taken(r) \in Texts
    BY <1>0, ConcatProperties DEF Texts, Taken
  <2>2. text \in Text
    BY Zenon DEF Partial
  <2>3. QED
    BY <2>1, <2>2
<1>f. fr \in Frames /\ fr.kind = "data" /\ fr.more \in BOOLEAN
  BY DEF Frames, DataFrames
<1>1. SUFFICES ASSUME Whole(r)'
               PROVE  /\ IsPrefix(Taken(r), hist[s].stream)'
                      /\ nic'[r].down \/ \E done, part : InStep(r, done, part)'
  BY Zenon DEF StreamOf
<1>2. Whole(r) /\ ~Refused(s)'
  BY <1>1, Zenon DEF Whole, ReceiverKeeps
<1>3. IsPrefix(Taken(r), hist[s].stream)'
  <2>1. IsPrefix(Taken(r), msgs)
    BY <1>2, Zenon DEF StreamOf
  <2>2. IsPrefix(Taken(r), Append(msgs, text))
    <3> HIDE DEF msgs, text
    <3>1. QED
      BY <1>0, <1>t, <2>1, PrefixGrows DEF Texts
  <2>3. Taken(r)' = Taken(r)
    BY Zenon DEF ReceiverKeeps
  <2>4. hist'[s].stream = msgs \/ hist'[s].stream = Append(msgs, text)
    BY Zenon
  <2>5. CASE hist'[s].stream = msgs
    BY <2>1, <2>3, <2>5, Zenon
  <2>6. CASE hist'[s].stream = Append(msgs, text)
    BY <2>2, <2>3, <2>6, Zenon
  <2>7. QED
    BY <2>4, <2>5, <2>6, Zenon
<1>4. CASE nic[r].down
  BY <1>3, <1>4, Zenon DEF ReceiverKeeps
<1>5. CASE ~nic[r].down
  <2>1. PICK done, part : InStep(r, done, part)
    BY <1>2, <1>5, Zenon DEF StreamOf
  <2>2. Pipe(r) \in FrameSeq /\ Len(tp[r].recvQ) \in 0 .. n
    BY PipeFrames, Zenon
  <2>n. n \in Nat /\ n \in 0 .. n /\ 0 \in 0 .. n
    BY <2>2 DEF FrameSeq
  <2>3. part[n] = Begun(s) /\ done[n] = Len(msgs) /\ Walk(Pipe(r), msgs, done, part)
    BY <2>1, Zenon DEF InStep
  <2>4. \E all \in Texts : \E d \in 0 .. Len(all), w \in Partial :
           /\ all = hist'[s].stream /\ d = Len(all) /\ w = Begun(s)'
           /\ Walk(Pipe(r), all, done, part)
           /\ Stride(fr, all, done[n], part[n], d, w)
    <3>1. CASE fr.more
      <4>1. hist'[s].stream = msgs /\ Begun(s)' = text
        BY <3>1, Zenon
      <4>2. Stride(fr, msgs, done[n], part[n], Len(msgs), text)
        BY <1>f, <2>3, <3>1, Zenon DEF Stride
      <4>3. Len(msgs) \in 0 .. Len(msgs)
        BY <1>0 DEF Texts
      <4>4. QED
        BY <1>0, <2>3, <4>1, <4>2, <4>3, Zenon
    <3>2. CASE ~fr.more
      <4> DEFINE all == Append(msgs, text)
      <4>1. hist'[s].stream = all /\ Begun(s)' = <<>>
        BY <3>2, Zenon
      <4>2. /\ all \in Texts /\ Len(all) = Len(msgs) + 1 /\ all[Len(msgs) + 1] = text
            /\ Len(all) \in 0 .. Len(all)
        <5> HIDE DEF text, msgs
        <5>1. QED
          BY <1>0, <1>t DEF Texts
      <4>3. Walk(Pipe(r), all, done, part)
        BY <1>0, <1>t, <2>2, <2>3, WalkMore, Zenon
      <4> HIDE DEF all
      <4>4. Stride(fr, all, done[n], part[n], Len(all), <<>>)
        BY <1>f, <2>3, <3>2, <4>2, Zenon DEF Stride
      <4>5. QED
        BY <4>1, <4>2, <4>3, <4>4, NoPart, Zenon
    <3>3. QED
      BY <1>f, <3>1, <3>2
  <2>5. PICK all \in Texts : \E d \in 0 .. Len(all), w \in Partial :
           /\ all = hist'[s].stream /\ d = Len(all) /\ w = Begun(s)'
           /\ Walk(Pipe(r), all, done, part)
           /\ Stride(fr, all, done[n], part[n], d, w)
    BY <2>4, Zenon
  <2>6. PICK d \in 0 .. Len(all), w \in Partial :
           /\ all = hist'[s].stream /\ d = Len(all) /\ w = Begun(s)'
           /\ Walk(Pipe(r), all, done, part)
           /\ Stride(fr, all, done[n], part[n], d, w)
    BY <2>5, Zenon
  <2>7. PICK done1, part1 :
           /\ Walk(Append(Pipe(r), fr), all, done1, part1)
           /\ \A i \in 0 .. n : done1[i] = done[i] /\ part1[i] = part[i]
           /\ done1[n + 1] = d /\ part1[n + 1] = w
    <3>1. all \in Texts
      BY <2>5, Zenon
    <3>2. /\ d \in 0 .. Len(all) /\ w \in Partial /\ Walk(Pipe(r), all, done, part)
          /\ Stride(fr, all, done[n], part[n], d, w)
      BY <2>6, Zenon
    <3>3. QED
      BY <1>f, <2>2, <3>1, <3>2, WalkExtend
  <2>8. Walk(Pipe(r), hist[s].stream, done1, part1)'
    BY <2>6, <2>7, Zenon
  <2>9. /\ done1[0] = Len(Taken(r))' /\ part1[0] = tp'[r].reasm
    BY <2>1, <2>7, <2>n, Zenon DEF InStep, ReceiverKeeps
  <2>10. /\ Len(Append(Pipe(r), fr)) = n + 1 /\ Append(Pipe(r), fr)[n + 1] = fr
         /\ \A i \in 1 .. n : Append(Pipe(r), fr)[i] = Pipe(r)[i]
    BY <1>f, <2>2 DEF FrameSeq
  <2>l. Len(Pipe(r))' = n + 1
    BY <2>10, Zenon
  <2>11. done1[Len(Pipe(r))'] = Len(hist'[s].stream) /\ part1[Len(Pipe(r))'] = Begun(s)'
    BY <2>6, <2>7, <2>l, Zenon
  <2>13. ASSUME NEW i \in 1 .. n + 1, Append(Pipe(r), fr)[i].kind = "fin"
         PROVE  cls'[s] # "open" /\ hist'[s].promised <= done1[i]
    <3>1. i # n + 1
      BY <1>f, <2>10, <2>13
    <3>2. i \in 1 .. n /\ i \in 0 .. n
      BY <2>n, <3>1
    <3>3. Pipe(r)[i].kind = "fin" /\ done1[i] = done[i]
      BY <2>7, <2>10, <2>13, <3>2, Zenon
    <3>4. QED
      BY <2>1, <3>2, <3>3, Zenon DEF InStep
  <2>14. tp[r].peerFin => cls'[s] # "open" /\ hist'[s].promised <= done1[Len(tp[r].recvQ)]
    BY <2>1, <2>2, <2>7, Zenon DEF InStep
  <2>15. tp'[r].peerFin = tp[r].peerFin
    BY Zenon DEF ReceiverKeeps
  <2>16. InStep(r, done1, part1)'
    <3> HIDE DEF n
    <3>1. \A i \in 1 .. Len(Pipe(r))' : Pipe(r)'[i].kind = "fin" =>
            cls'[s] # "open" /\ hist'[s].promised <= done1[i]
      BY <2>13, <2>l, Zenon
    <3>2. QED
      BY <2>8, <2>9, <2>11, <2>14, <2>15, <3>1, Zenon DEF InStep
  <2>17. QED
    BY <1>3, <2>16, Zenon
<1>6. QED
  BY <1>4, <1>5

(* What ConsumeFrame makes of the bytes of the oldest frame in the queue:  *)
(* nothing for the caller on a queue pair that is gone, else the end of a  *)
(* message, or more of one.                                                *)
LEMMA ConsumeTakes ==
  ASSUME Typing, NEW e \in Peers, NEW more \in RecvPcs, ConsumeFrame(e, more)
  PROVE  LET fr    == Head(tp[e].recvQ)
             bytes == tp[e].reasm \o fr.data
             over  == Len(bytes) > MaxMessage
         IN
  /\ fr \in DataFrames /\ bytes \in Text
  /\ tp'[e].peerFin = tp[e].peerFin
  /\ rcv'[e].rest = rcv[e].rest /\ rcv'[e].call = rcv[e].call
  /\ tp'[e].reasm = IF over \/ ~fr.more THEN <<>> ELSE bytes
  /\ nic[e].down => rcv'[e].out = rcv[e].out
  /\ ~nic[e].down =>
       rcv'[e].out = IF over \/ fr.more THEN rcv[e].out ELSE Append(rcv[e].out, bytes)
<1> DEFINE r == rcv[e]
           t == tp[e]
           fr == Head(t.recvQ)
           bytes == t.reasm \o fr.data
           over == Len(bytes) > MaxMessage
           done  == ~over /\ ~fr.more
           out   == IF done THEN Append(r.out, bytes) ELSE r.out
           next  == IF over THEN "return"
                    ELSE IF fr.more THEN more
                    ELSE IF r.call.how # "batch" THEN "return"
                    ELSE IF Len(out) < r.call.n THEN "try" ELSE "end"
           owed  == t.pending + 1
           full  == owed >= CreditFlushThreshold
           reasm == IF over \/ ~fr.more THEN <<>> ELSE bytes
<1>0. /\ rcv \in [Peers -> Rcv(scene.calls)] /\ tp \in [Peers -> Tp]
      /\ t \in Tp /\ r \in Rcv(scene.calls)
  BY DEF Typing
<1>1. t.recvQ # <<>>
  BY Zenon DEF ConsumeFrame
<1>2. fr \in DataFrames
  BY <1>1, TpFields DEF Typing, DataSeq
<1>3. bytes \in Text
  BY <1>2, TpFields DEF Typing, DataFrames, Text, Byte
<1>4. CASE nic[e].down
  <2>1. /\ tp'  = [tp EXCEPT ![e] = [tp[e] EXCEPT !.recvQ = Tail(@), !.reasm = reasm]]
        /\ rcv' = [rcv EXCEPT ![e].pc = "return"]
    BY <1>4, Zenon DEF ConsumeFrame
  <2> DEFINE queue == Tail(t.recvQ)
  <2>2. tp'  = [tp EXCEPT ![e] = [t EXCEPT !.recvQ = queue, !.reasm = reasm]]
    BY <2>1, Zenon
  <2> HIDE DEF queue, reasm
  <2>3. tp'[e].peerFin = tp[e].peerFin /\ tp'[e].reasm = reasm
    BY <1>0, <2>2 DEF Tp
  <2>4. rcv'[e].rest = rcv[e].rest /\ rcv'[e].call = rcv[e].call /\ rcv'[e].out = rcv[e].out
    BY <1>0, <2>1 DEF Rcv
  <2>5. QED
    BY <1>2, <1>3, <1>4, <2>3, <2>4, Zenon DEF reasm
<1>5. CASE ~nic[e].down
  <2>1. \E n : tp' = [tp EXCEPT ![e] = [tp[e] EXCEPT !.recvQ = Tail(@), !.reasm = reasm,
                                                     !.pending = n]]
    BY <1>5, Zenon DEF ConsumeFrame
  <2>2. PICK n : tp' = [tp EXCEPT ![e] = [tp[e] EXCEPT !.recvQ = Tail(@), !.reasm = reasm,
                                                       !.pending = n]]
    BY <2>1, Zenon
  <2> DEFINE queue == Tail(t.recvQ)
  <2>3. tp'  = [tp EXCEPT ![e] = [t EXCEPT !.recvQ = queue, !.reasm = reasm, !.pending = n]]
    BY <2>2, Zenon
  <2>4. \E m : Flush(e, m, next, out)
    BY <1>5, Zenon DEF ConsumeFrame
  <2> HIDE DEF queue, reasm, out, next
  <2>5. tp'[e].peerFin = tp[e].peerFin /\ tp'[e].reasm = reasm
    BY <1>0, <2>3 DEF Tp
  <2>6. PICK m : Flush(e, m, next, out)
    BY <2>4, Zenon
  <2>7. \/ rcv' = [rcv EXCEPT ![e] = [r EXCEPT !.pc = "credit", !.then = next, !.n = m, !.out = out]]
        \/ rcv' = [rcv EXCEPT ![e] = [r EXCEPT !.pc = next, !.out = out]]
    BY <2>6, Zenon DEF Flush
  <2>8. rcv'[e].rest = rcv[e].rest /\ rcv'[e].call = rcv[e].call /\ rcv'[e].out = out
    BY <1>0, <2>7 DEF Rcv
  <2>9. out = IF over \/ fr.more THEN rcv[e].out ELSE Append(rcv[e].out, bytes)
    <3> HIDE DEF over, bytes, fr, r
    <3>1. QED
      BY Zenon DEF out, done, r
  <2>10. QED
    BY <1>2, <1>3, <1>5, <2>5, <2>8, <2>9, Zenon DEF reasm
<1>6. QED
  BY <1>4, <1>5

(* A sender that stands still keeps its messages as they are.              *)
LEMMA StillSends ==
  ASSUME NEW s, Still(s), scene' = scene
  PROVE  SenderKeeps(s) /\ Unlanded(s)' = Unlanded(s)
<1>1. /\ snd'[s] = snd[s] /\ cls'[s] = cls[s] /\ tp'[s] = tp[s] /\ nic'[s] = nic[s]
      /\ hist'[s] = hist[s]
  BY Zenon DEF Still
<1>2. Begun(s)' = Begun(s)
  BY <1>1, Zenon DEF Begun
<1>3. Silent(s)' = Silent(s) /\ Refused(s)' = Refused(s)
  BY <1>1, Zenon DEF Silent, Refused, Ample
<1>4. Unlanded(s)' = Unlanded(s)
  BY <1>1, Zenon DEF Unlanded
<1>5. QED
  BY <1>1, <1>2, <1>3, <1>4, Zenon DEF SenderKeeps

(* What the receiver takes of the oldest frame is the next message.        *)
LEMMA StreamConsumed ==
  ASSUME Typing, NEW r \in Peers, LandedOfQueued(Peer(r)), StreamOf(r),
         NEW more \in RecvPcs, ConsumeFrame(r, more), Still(Peer(r)), scene' = scene
  PROVE  StreamOf(r)'
<1> DEFINE s == Peer(r)
           n == Len(Pipe(r))
           msgs == hist[s].stream
           fr == Head(tp[r].recvQ)
           bytes == tp[r].reasm \o fr.data
<1>s. s \in Peers /\ r \in Peers
  BY ThePeers, Zenon
<1>0. /\ msgs \in Texts /\ hist[r].got \in Texts /\ rcv[r].out \in Texts
      /\ tp[r].reasm \in Text /\ tp[r].recvQ \in DataSeq
  BY <1>s, HistFields, RcvFields, TpFields, Zenon DEF Typing
<1>t. Taken(r) \in Texts
  BY <1>0, ConcatProperties DEF Texts, Taken
<1>c. /\ fr \in DataFrames /\ bytes \in Text /\ tp'[r].peerFin = tp[r].peerFin
      /\ tp'[r].reasm = IF Len(bytes) > MaxMessage \/ ~fr.more THEN <<>> ELSE bytes
      /\ nic[r].down => rcv'[r].out = rcv[r].out
      /\ ~nic[r].down =>
           rcv'[r].out = IF Len(bytes) > MaxMessage \/ fr.more THEN rcv[r].out
                         ELSE Append(rcv[r].out, bytes)
  BY ConsumeTakes, Zenon
<1>e. /\ tp[r].recvQ # <<>> /\ tp'[r].recvQ = Tail(tp[r].recvQ)
      /\ plr' = plr /\ hist' = hist
      /\ nic'[r].inbox = nic[r].inbox /\ nic'[r].down = nic[r].down
  BY ConsumeEffect, Zenon
<1>k. SenderKeeps(s) /\ Unlanded(s)' = Unlanded(s)
  BY StillSends, Zenon
<1>1. SUFFICES ASSUME Whole(r)'
               PROVE  /\ IsPrefix(Taken(r), hist[s].stream)'
                      /\ nic'[r].down \/ \E done, part : InStep(r, done, part)'
  BY Zenon DEF StreamOf
<1>2. Whole(r) /\ ~Refused(s)'
  BY <1>1, <1>e, <1>k, Zenon DEF Whole, SenderKeeps
<1>4. CASE nic[r].down
  <2>1. Taken(r)' = Taken(r)
    BY <1>c, <1>e, <1>4, Zenon DEF Taken
  <2>2. IsPrefix(Taken(r), hist[s].stream)'
    BY <1>2, <1>e, <2>1, Zenon DEF StreamOf, IsPrefix
  <2>3. QED
    BY <1>4, <1>e, <2>2, Zenon
<1>5. CASE ~nic[r].down
  <2>1. PICK done, part : InStep(r, done, part)
    BY <1>2, <1>5, Zenon DEF StreamOf
  <2>2. Pipe(r) \in FrameSeq /\ Len(tp[r].recvQ) \in 0 .. n
    BY PipeFrames, Zenon
  <2>w. Pipe(r)' = Tail(Pipe(r)) /\ Pipe(r) # <<>> /\ Pipe(r)[1] = fr
    <3>1. /\ Pipe(r) = Lane(tp[r].recvQ, nic[r].inbox, nic[s].sq, nic[s].landed)
          /\ tp[r].recvQ \in FrameSeq /\ nic[r].inbox \in FrameSeq /\ nic[s].sq \in FrameSeq
          /\ nic[s].landed \in 0 .. Len(nic[s].sq)
      BY PipeFrames, Zenon
    <3>2. /\ Lane(Tail(tp[r].recvQ), nic[r].inbox, nic[s].sq, nic[s].landed) = Tail(Pipe(r))
          /\ Pipe(r) # <<>> /\ Pipe(r)[1] = fr
      <4> DEFINE a == tp[r].recvQ
                 b == nic[r].inbox
                 c == nic[s].sq
                 m == nic[s].landed
      <4>1. a \in FrameSeq /\ b \in FrameSeq /\ c \in FrameSeq /\ m \in 0 .. Len(c) /\ a # <<>>
        BY <1>e, <3>1, Zenon
      <4>2. Pipe(r) = Lane(a, b, c, m)
        BY <3>1, Zenon
      <4> HIDE DEF a, b, c, m
      <4>3. /\ Lane(Tail(a), b, c, m) = Tail(Lane(a, b, c, m))
            /\ Lane(a, b, c, m) # <<>> /\ Lane(a, b, c, m)[1] = Head(a)
        BY <4>1, LaneTaken, Zenon
      <4>4. QED
        BY <4>2, <4>3, Zenon DEF a, b, c, m
    <3>3. Pipe(r)' = Tail(tp[r].recvQ) \o nic[r].inbox \o Unlanded(s)
      BY <1>e, <1>k, Zenon DEF Pipe
    <3>4. QED
      BY <3>2, <3>3, Zenon DEF Lane, Unlanded
  <2>n. /\ n \in Nat /\ n >= 1 /\ 1 \in 1 .. n /\ 1 - 1 = 0 /\ 0 + 1 = 1 /\ (n - 1) + 1 = n
        /\ 0 \in 0 .. n - 1 /\ n - 1 \in 0 .. n - 1
        /\ Len(Tail(Pipe(r))) = n - 1 /\ \A i \in 1 .. n - 1 : Tail(Pipe(r))[i] = Pipe(r)[i + 1]
    BY <2>2, <2>w DEF FrameSeq
  <2>3. Walk(Pipe(r), msgs, done, part) /\ done[0] = Len(Taken(r)) /\ part[0] = tp[r].reasm
    BY <2>1, Zenon DEF InStep
  <2>4. /\ Stride(fr, msgs, done[0], part[0], done[1], part[1])
        /\ done[1] \in 0 .. Len(msgs) /\ part[1] \in Partial
    BY <1>0, <2>2, <2>3, <2>n, <2>w, WalkStep, Zenon
  <2>k. fr.kind = "data" /\ fr.more \in BOOLEAN
    BY <1>c DEF DataFrames
  <2>5. bytes \in Partial
    BY <2>3, <2>4, <2>k, Zenon DEF Stride
  <2>6. ~(Len(bytes) > MaxMessage)
    <3> HIDE DEF bytes
    <3>1. Len(bytes) \in Nat /\ Len(bytes) <= MaxMessage
      BY <2>5 DEF Partial, Text
    <3>2. QED
      BY <3>1, TransportAssumption
  <2>7. /\ done[1] = Len(Taken(r)') /\ part[1] = tp'[r].reasm
        /\ IsPrefix(Taken(r)', msgs)
    <3>p. IsPrefix(Taken(r), msgs)
      BY <1>2, Zenon DEF StreamOf
    <3>1. CASE fr.more
      <4>1. rcv'[r].out = rcv[r].out /\ tp'[r].reasm = bytes
        BY <1>5, <1>c, <2>6, <3>1, Zenon
      <4>2. Taken(r)' = Taken(r)
        BY <1>e, <4>1, Zenon DEF Taken
      <4>3. done[1] = done[0] /\ part[1] = bytes
        BY <2>3, <2>4, <2>k, <3>1, Zenon DEF Stride
      <4>4. QED
        BY <2>3, <3>p, <4>1, <4>2, <4>3, Zenon
    <3>2. CASE ~fr.more
      <4>1. rcv'[r].out = Append(rcv[r].out, bytes) /\ tp'[r].reasm = <<>>
        BY <1>5, <1>c, <2>6, <3>2, Zenon
      <4>2. Taken(r)' = Append(Taken(r), bytes)
        <5>1. \A g, o \in Texts, b \in Text : g \o Append(o, b) = Append(g \o o, b)
          BY DEF Texts
        <5>2. Taken(r)' = hist[r].got \o Append(rcv[r].out, bytes)
          BY <1>e, <4>1, Zenon DEF Taken
        <5>3. QED
          BY <1>0, <1>c, <5>1, <5>2, Zenon DEF Taken
      <4>3. done[1] = Len(Taken(r)) + 1 /\ msgs[done[1]] = bytes /\ part[1] = <<>>
        BY <2>3, <2>4, <2>k, <3>2, Zenon DEF Stride
      <4> HIDE DEF msgs, bytes
      <4>4. Len(Taken(r)) + 1 <= Len(msgs) /\ Len(Append(Taken(r), bytes)) = Len(Taken(r)) + 1
        BY <1>0, <1>t, <1>c, <2>4, <4>3 DEF Texts
      <4>5. msgs[Len(Taken(r)) + 1] = bytes
        BY <4>3, Zenon
      <4>6. IsPrefix(Append(Taken(r), bytes), msgs)
        BY <1>0, <1>t, <1>c, <3>p, <4>4, <4>5, PrefixGrows, Zenon DEF Texts
      <4>7. QED
        BY <4>1, <4>2, <4>3, <4>4, <4>6, Zenon
    <3>3. QED
      BY <2>k, <3>1, <3>2
  <2>8. PICK done1, part1 :
           /\ Walk(Tail(Pipe(r)), msgs, done1, part1)
           /\ \A i \in 0 .. n - 1 : done1[i] = done[i + 1] /\ part1[i] = part[i + 1]
    BY <1>0, <2>2, <2>3, <2>w, WalkTail
  <2>9. Walk(Pipe(r), hist[s].stream, done1, part1)'
    BY <1>e, <2>8, <2>w, Zenon
  <2>10. done1[0] = Len(Taken(r)') /\ part1[0] = tp'[r].reasm
    BY <2>7, <2>8, <2>n, Zenon
  <2>l. Len(Pipe(r))' = n - 1
    BY <2>n, <2>w, Zenon
  <2>11. done1[n - 1] = done[n] /\ part1[n - 1] = part[n]
    BY <2>8, <2>n, Zenon
  <2>12. done1[Len(Pipe(r))'] = Len(hist'[s].stream)
    BY <1>e, <2>1, <2>11, <2>l, Zenon DEF InStep
  <2>13. Silent(s)' \/ part1[Len(Pipe(r))'] = Begun(s)'
    BY <1>2, <1>k, <2>1, <2>11, <2>l, Zenon DEF InStep, SenderKeeps
  <2>14. ASSUME NEW i \in 1 .. n - 1, Tail(Pipe(r))[i].kind = "fin"
         PROVE  cls'[s] # "open" /\ hist'[s].promised <= done1[i]
    <3>1. i \in 0 .. n - 1 /\ i + 1 \in 1 .. n
      BY <2>n
    <3>2. Pipe(r)[i + 1].kind = "fin" /\ done1[i] = done[i + 1]
      BY <2>8, <2>n, <2>14, <3>1, Zenon
    <3>3. cls[s] # "open" /\ hist[s].promised <= done[i + 1]
      BY <2>1, <3>1, <3>2, Zenon DEF InStep
    <3>4. QED
      BY <1>e, <1>k, <3>2, <3>3, Zenon DEF SenderKeeps
  <2>15. ASSUME tp'[r].peerFin
         PROVE  cls'[s] # "open" /\ hist'[s].promised <= done1[Len(tp'[r].recvQ)]
    <3>1. cls[s] # "open" /\ hist[s].promised <= done[Len(tp[r].recvQ)]
      BY <1>c, <2>1, <2>15, Zenon DEF InStep
    <3>2. /\ Len(tp'[r].recvQ) = Len(tp[r].recvQ) - 1
          /\ Len(tp'[r].recvQ) + 1 = Len(tp[r].recvQ)
          /\ Len(tp'[r].recvQ) \in 0 .. n - 1
      <4>1. /\ Len(tp'[r].recvQ) = Len(tp[r].recvQ) - 1 /\ Len(tp[r].recvQ) >= 1
            /\ Len(tp[r].recvQ) \in Nat
        BY <1>0, <1>e DEF DataSeq
      <4>2. Len(tp[r].recvQ) <= n
        BY <2>2, <2>n
      <4> HIDE DEF n
      <4>3. QED
        BY <2>n, <4>1, <4>2
    <3>3. done1[Len(tp'[r].recvQ)] = done[Len(tp[r].recvQ)]
      BY <2>8, <3>2, Zenon
    <3>4. QED
      BY <1>e, <1>k, <3>1, <3>3, Zenon DEF SenderKeeps
  <2>16. InStep(r, done1, part1)'
    <3> HIDE DEF n
    <3>1. \A i \in 1 .. Len(Pipe(r))' : Pipe(r)'[i].kind = "fin" =>
            cls'[s] # "open" /\ hist'[s].promised <= done1[i]
      BY <2>14, <2>l, <2>w, Zenon
    <3>2. QED
      BY <2>9, <2>10, <2>12, <2>13, <2>15, <3>1, Zenon DEF InStep
  <2>17. IsPrefix(Taken(r), hist[s].stream)'
    BY <1>e, <2>7, Zenon
  <2>18. QED
    BY <2>16, <2>17, Zenon
<1>6. QED
  BY <1>4, <1>5

(* The rest of what DispatchRecv does to the receiving end.                *)
LEMMA DispatchRecvRest ==
  ASSUME Typing, NEW e \in Peers, DispatchRecv(e)
  PROVE  /\ plr'[e].final = plr[e].final /\ (tp[e].closed => plr[e].recvs > 0)
         /\ plr'[e].recvs = IF tp[e].closed THEN plr[e].recvs - 1 ELSE plr[e].recvs
         /\ tp'[e].reasm = tp[e].reasm
         /\ tp'[e].closed = tp[e].closed
         /\ \/ /\ Head(nic[e].inbox).kind # "data" /\ tp'[e].recvQ = tp[e].recvQ
               /\ \/ tp'[e].peerFin = tp[e].peerFin
                  \/ /\ Head(nic[e].inbox).kind = "fin" /\ tp'[e].peerFin = TRUE
            \/ /\ Head(nic[e].inbox).kind = "data" /\ tp'[e].peerFin = tp[e].peerFin
               /\ tp'[e].recvQ = Append(tp[e].recvQ, Head(nic[e].inbox))
            \/ /\ Head(nic[e].inbox).kind = "data" /\ tp[e].closed /\ tp' = tp
<1> DEFINE fr == Head(nic[e].inbox)
           left == IF tp[e].closed THEN plr[e].recvs - 1 ELSE plr[e].recvs
<1>0. plr \in [Peers -> Plr] /\ plr[e] \in Plr /\ tp \in [Peers -> Tp] /\ tp[e] \in Tp
  BY DEF Typing
<1>1. /\ nic[e].inbox # <<>>
      /\ \/ /\ fr.kind = "credit" /\ tp' = [tp EXCEPT ![e].credits = @ + fr.n]
         \/ /\ fr.kind # "data" /\ fr.kind # "credit" /\ tp' = [tp EXCEPT ![e].peerFin = TRUE]
         \/ /\ fr.kind = "data" /\ tp' = [tp EXCEPT ![e].recvQ = Append(@, fr)]
         \/ /\ fr.kind = "data" /\ tp[e].closed /\ tp' = tp
  BY DispatchRecvEffect, Zenon
<1>f. fr.kind \in {"data", "credit", "fin"}
  <2>1. nic[e].inbox \in Seq(Frames)
    BY NicFields, Zenon DEF Typing, FrameSeq
  <2>2. fr \in Frames
    BY <1>1, <2>1
  <2>3. QED
    BY <2>2 DEF Frames, DataFrames, FinFrame
<1>2. \/ plr' = [plr EXCEPT ![e].recvs = left]
      \/ \E pc : plr' = [plr EXCEPT ![e] = [plr[e] EXCEPT !.recvs = left, !.pc = pc]]
  BY Zenon DEF DispatchRecv
<1>3. tp[e].closed => plr[e].recvs > 0
  BY Zenon DEF DispatchRecv
<1> HIDE DEF left, fr
<1>4. plr'[e].final = plr[e].final /\ plr'[e].recvs = left
  BY <1>0, <1>2 DEF Plr
<1>5. CASE fr.kind = "credit" /\ tp' = [tp EXCEPT ![e].credits = @ + fr.n]
  <2>1. /\ tp'[e].reasm = tp[e].reasm /\ tp'[e].closed = tp[e].closed
        /\ tp'[e].recvQ = tp[e].recvQ /\ tp'[e].peerFin = tp[e].peerFin
    BY <1>0, <1>5 DEF Tp
  <2>2. QED
    BY <1>3, <1>4, <1>5, <2>1 DEF fr, left
<1>6. CASE fr.kind # "data" /\ fr.kind # "credit" /\ tp' = [tp EXCEPT ![e].peerFin = TRUE]
  <2>1. /\ tp'[e].reasm = tp[e].reasm /\ tp'[e].closed = tp[e].closed
        /\ tp'[e].recvQ = tp[e].recvQ /\ tp'[e].peerFin = TRUE
    BY <1>0, <1>6 DEF Tp
  <2>2. fr.kind = "fin"
    BY <1>f, <1>6
  <2>3. QED
    BY <1>3, <1>4, <1>6, <2>1, <2>2, Zenon DEF fr, left
<1>7. CASE fr.kind = "data" /\ tp' = [tp EXCEPT ![e].recvQ = Append(@, fr)]
  <2>1. /\ tp'[e].reasm = tp[e].reasm /\ tp'[e].closed = tp[e].closed
        /\ tp'[e].recvQ = Append(tp[e].recvQ, fr) /\ tp'[e].peerFin = tp[e].peerFin
    BY <1>0, <1>7 DEF Tp
  <2>2. QED
    BY <1>3, <1>4, <1>7, <2>1, Zenon DEF fr, left
<1>8. CASE fr.kind = "data" /\ tp[e].closed /\ tp' = tp
  BY <1>3, <1>4, <1>8, Zenon DEF fr, left
<1>9. QED
  BY <1>1, <1>5, <1>6, <1>7, <1>8, Zenon DEF fr

(* A control frame taken off the way by the poller is no part of a         *)
(* message; of a fin, the receiver has been told then.                     *)
LEMMA StreamHandled ==
  ASSUME Typing, NEW r \in Peers, LandedOfQueued(Peer(r)), StreamOf(r),
         SenderKeeps(Peer(r)), Unlanded(Peer(r))' = Unlanded(Peer(r)),
         hist'[Peer(r)].promised = hist[Peer(r)].promised, cls'[Peer(r)] = cls[Peer(r)],
         plr[r].final => plr'[r].final, nic[r].down => nic'[r].down,
         Taken(r)' = Taken(r), tp'[r].reasm = tp[r].reasm, tp'[r].recvQ = tp[r].recvQ,
         nic[r].inbox # <<>>, nic'[r].inbox = Tail(nic[r].inbox),
         Head(nic[r].inbox).kind # "data",
         \/ tp'[r].peerFin = tp[r].peerFin
         \/ Head(nic[r].inbox).kind = "fin"
  PROVE  StreamOf(r)'
<1> DEFINE s == Peer(r)
           n == Len(Pipe(r))
           msgs == hist[s].stream
           j == Len(tp[r].recvQ) + 1
           others == Lane(tp[r].recvQ, Tail(nic[r].inbox), nic[s].sq, nic[s].landed)
<1>s. s \in Peers
  BY ThePeers, Zenon
<1>0. msgs \in Texts /\ tp[r].recvQ \in DataSeq
  BY <1>s, HistFields, TpFields, Zenon DEF Typing
<1>1. SUFFICES ASSUME Whole(r)'
               PROVE  /\ IsPrefix(Taken(r), hist[s].stream)'
                      /\ nic'[r].down \/ \E done, part : InStep(r, done, part)'
  BY Zenon DEF StreamOf
<1>2. Whole(r) /\ ~Refused(s)'
  BY <1>1, Zenon DEF Whole, SenderKeeps
<1>3. IsPrefix(Taken(r), hist[s].stream)'
  BY <1>2, Zenon DEF StreamOf, IsPrefix, SenderKeeps
<1>4. CASE nic[r].down
  BY <1>3, <1>4, Zenon
<1>5. CASE ~nic[r].down
  <2>1. PICK done, part : InStep(r, done, part)
    BY <1>2, <1>5, Zenon DEF StreamOf
  <2>2. Pipe(r) \in FrameSeq
    BY PipeFrames, Zenon
  <2>w. /\ Pipe(r)' = others /\ others \in FrameSeq /\ Len(others) = n - 1
        /\ j \in 1 .. n /\ Pipe(r)[j].kind # "data"
        /\ Pipe(r)[j].kind = Head(nic[r].inbox).kind
        /\ \A i \in 1 .. Len(others) : others[i] = Pipe(r)[Skipping(j, i)]
    <3> DEFINE a == tp[r].recvQ
               b == nic[r].inbox
               c == nic[s].sq
               m == nic[s].landed
    <3>1. a \in FrameSeq /\ b \in FrameSeq /\ c \in FrameSeq /\ m \in 0 .. Len(c) /\ b # <<>>
          /\ Pipe(r) = Lane(a, b, c, m)
      BY PipeFrames, Zenon
    <3>2. Pipe(r)' = others
      <4>1. Pipe(r)' = tp[r].recvQ \o Tail(nic[r].inbox) \o Unlanded(s)
        BY Zenon DEF Pipe
      <4>2. QED
        BY <4>1, Zenon DEF Lane, Unlanded
    <3>5. Head(b).kind # "data" /\ others = Lane(a, Tail(b), c, m)
      BY Zenon
    <3> HIDE DEF a, b, c, m, others
    <3>3. /\ Lane(a, Tail(b), c, m) \in FrameSeq
          /\ Len(Lane(a, Tail(b), c, m)) = Len(Lane(a, b, c, m)) - 1
          /\ Len(a) + 1 \in 1 .. Len(Lane(a, b, c, m)) /\ Lane(a, b, c, m)[Len(a) + 1] = Head(b)
          /\ \A i \in 1 .. Len(Lane(a, Tail(b), c, m)) :
               Lane(a, Tail(b), c, m)[i] = Lane(a, b, c, m)[Skipping(Len(a) + 1, i)]
      BY <3>1, LaneHandled, Zenon
    <3>6. QED
      BY <3>1, <3>2, <3>3, <3>5, Zenon DEF a, b
  <2> HIDE DEF others
  <2>n. n \in Nat /\ n >= 1 /\ j \in Int /\ 0 < j /\ j - 1 \in 0 .. n - 1 /\ j - 1 < j
        /\ 0 \in 0 .. n - 1 /\ n - 1 \in 0 .. n - 1 /\ (n - 1) + 1 = n
        /\ j - 1 = Len(tp[r].recvQ)
    <3>1. n \in Nat
      BY <2>2 DEF FrameSeq
    <3>2. Len(tp[r].recvQ) \in Nat
      BY <1>0 DEF DataSeq
    <3>3. j \in 1 .. n
      BY <2>w, Zenon
    <3> HIDE DEF n
    <3>4. QED
      BY <3>1, <3>2, <3>3
  <2>3. Walk(Pipe(r), msgs, done, part) /\ done[0] = Len(Taken(r)) /\ part[0] = tp[r].reasm
    BY <2>1, Zenon DEF InStep
  <2>4. Stride(Pipe(r)[j], msgs, done[j - 1], part[j - 1], done[j], part[j])
    BY <1>0, <2>2, <2>3, <2>w, WalkStep, Zenon
  <2>5. done[j - 1] = done[j] /\ part[j - 1] = part[j]
    BY <2>4, <2>w, Zenon DEF Stride
  <2>8. PICK done1, part1 :
           /\ Walk(others, msgs, done1, part1)
           /\ \A i \in 0 .. Len(others) :
                /\ done1[i] = done[Skipping(j, i)]
                /\ part1[i] = part[Skipping(j, i)]
    <3>1. /\ msgs \in Texts /\ Pipe(r) \in FrameSeq /\ Walk(Pipe(r), msgs, done, part)
          /\ others \in FrameSeq
      BY <1>0, <2>2, <2>3, <2>w, Zenon
    <3>2. /\ j \in 1 .. Len(Pipe(r)) /\ Pipe(r)[j].kind # "data" /\ Len(others) = Len(Pipe(r)) - 1
          /\ \A i \in 1 .. Len(others) : others[i] = Pipe(r)[Skipping(j, i)]
      BY <2>w, Zenon
    <3>4. Without(Pipe(r), j, others)
      BY <3>1, <3>2, Zenon DEF Without
    <3> HIDE DEF j, msgs, n
    <3>3. QED
      BY <3>1, <3>4, WalkWithout
  <2>9. Walk(Pipe(r), hist[s].stream, done1, part1)'
    BY <2>8, <2>w, Zenon DEF SenderKeeps
  <2>10. done1[0] = Len(Taken(r)') /\ part1[0] = tp'[r].reasm
    <3> HIDE DEF n, j
    <3>0. 0 \in 0 .. Len(others) /\ 0 < j
      BY <2>n, <2>w
    <3>1. done1[0] = done[0] /\ part1[0] = part[0]
      BY <2>8, <3>0, Zenon DEF Skipping
    <3>2. QED
      BY <2>3, <3>1, Zenon
  <2>l. Len(Pipe(r))' = n - 1
    BY <2>w, Zenon
  <2>11. done1[n - 1] = done[n] /\ part1[n - 1] = part[n]
    <3> HIDE DEF n, j
    <3>0. n - 1 \in 0 .. Len(others)
      BY <2>n, <2>w
    <3>1. CASE n - 1 < j
      <4>1. j = n
        <5>1. n \in Nat /\ j \in Int
          BY <2>n, Zenon
        <5>2. j <= n
          BY <2>w, <5>1
        <5>3. QED
          BY <3>1, <5>1, <5>2
      <4>2. done1[n - 1] = done[n - 1] /\ part1[n - 1] = part[n - 1]
        BY <2>8, <3>0, <3>1, Zenon DEF Skipping
      <4>3. QED
        BY <2>5, <4>1, <4>2, Zenon
    <3>2. CASE ~(n - 1 < j)
      <4>1. (n - 1) + 1 = n
        BY <2>n, <3>2, Zenon
      <4>2. /\ done1[n - 1] = done[Skipping(j, n - 1)]
            /\ part1[n - 1] = part[Skipping(j, n - 1)]
        BY <2>8, <3>0, Zenon DEF Skipping
      <4>3. QED
        BY <3>2, <4>1, <4>2, Zenon DEF Skipping
    <3>3. QED
      BY <3>1, <3>2, Zenon
  <2>12. done1[Len(Pipe(r))'] = Len(hist'[s].stream)
    BY <2>1, <2>11, <2>l, Zenon DEF InStep, SenderKeeps
  <2>13. Silent(s)' \/ part1[Len(Pipe(r))'] = Begun(s)'
    BY <1>2, <2>1, <2>11, <2>l, Zenon DEF InStep, SenderKeeps
  <2>14. ASSUME NEW i \in 1 .. n - 1, others[i].kind = "fin"
         PROVE  cls'[s] # "open" /\ hist'[s].promised <= done1[i]
    <3>1. i \in 0 .. n - 1 /\ i + 1 \in 1 .. n /\ i \in 1 .. n
      BY <2>n
    <3>2. \E k \in 1 .. n : Pipe(r)[k].kind = "fin" /\ done1[i] = done[k]
      <4>1. CASE i < j
        <5>1. others[i] = Pipe(r)[i] /\ done1[i] = done[i]
          BY <2>8, <2>w, <3>1, <4>1, Zenon DEF Skipping
        <5>2. QED
          BY <2>14, <3>1, <5>1, Zenon
      <4>2. CASE ~(i < j)
        <5>1. others[i] = Pipe(r)[i + 1] /\ done1[i] = done[i + 1]
          BY <2>8, <2>w, <3>1, <4>2, Zenon DEF Skipping
        <5>2. QED
          BY <2>14, <3>1, <5>1, Zenon
      <4>3. QED
        BY <4>1, <4>2, Zenon
    <3>3. PICK k \in 1 .. n : Pipe(r)[k].kind = "fin" /\ done1[i] = done[k]
      BY <3>2, Zenon
    <3>4. QED
      BY <2>1, <3>3, Zenon DEF InStep
  <2>15. ASSUME tp'[r].peerFin
         PROVE  cls'[s] # "open" /\ hist'[s].promised <= done1[Len(tp'[r].recvQ)]
    <3>1. done1[j - 1] = done[j]
      <4> HIDE DEF n, j
      <4>1. j - 1 \in 0 .. Len(others) /\ j - 1 < j
        BY <2>n, <2>w
      <4>2. done1[j - 1] = done[j - 1]
        BY <2>8, <4>1, Zenon DEF Skipping
      <4>3. QED
        BY <2>5, <4>2, Zenon
    <3>2. cls[s] # "open" /\ hist[s].promised <= done[j]
      <4>1. CASE tp'[r].peerFin = tp[r].peerFin
        <5>1. cls[s] # "open" /\ hist[s].promised <= done[Len(tp[r].recvQ)]
          BY <2>1, <2>15, <4>1, Zenon DEF InStep
        <5>2. done[Len(tp[r].recvQ)] = done[j]
          <6> HIDE DEF n, j
          <6>1. j - 1 = Len(tp[r].recvQ)
            BY <2>n
          <6>2. QED
            BY <2>5, <6>1, Zenon
        <5>3. QED
          BY <5>1, <5>2, Zenon
      <4>2. CASE Head(nic[r].inbox).kind = "fin"
        <5>1. Pipe(r)[j].kind = "fin"
          BY <2>w, <4>2, Zenon
        <5>2. QED
          BY <2>1, <2>w, <5>1, Zenon DEF InStep
      <4>3. QED
        BY <4>1, <4>2, Zenon
    <3>3. done1[Len(tp[r].recvQ)] = done[j]
      <4> HIDE DEF n, j
      <4>1. j - 1 = Len(tp[r].recvQ)
        BY <2>n
      <4>2. QED
        BY <2>5, <3>1, <4>1, Zenon
    <3>4. QED
      BY <3>2, <3>3, Zenon
  <2>16. InStep(r, done1, part1)'
    <3> HIDE DEF n
    <3>1. \A i \in 1 .. Len(Pipe(r))' : Pipe(r)'[i].kind = "fin" =>
            cls'[s] # "open" /\ hist'[s].promised <= done1[i]
      BY <2>14, <2>l, <2>w, Zenon
    <3>2. QED
      BY <2>9, <2>10, <2>12, <2>13, <2>15, <3>1, Zenon DEF InStep
  <2>17. QED
    BY <1>3, <2>16, Zenon
<1>6. QED
  BY <1>4, <1>5

(* The poller takes a frame off the way, or queues it for the receiver; a  *)
(* frame that it drops belongs to the last batch.                          *)
LEMMA StreamDispatched ==
  ASSUME Typing, NEW r \in Peers, LandedOfQueued(Peer(r)), StreamOf(r), BatchOf(r),
         DispatchRecv(r), Still(Peer(r)), scene' = scene
  PROVE  StreamOf(r)'
<1> DEFINE s == Peer(r)
           fr == Head(nic[r].inbox)
<1>e. /\ rcv' = rcv /\ hist' = hist /\ nic[r].inbox # <<>> /\ nic'[r].inbox = Tail(nic[r].inbox)
      /\ nic'[r].down = nic[r].down
  BY DispatchRecvEffect, Zenon
<1>d. /\ plr'[r].final = plr[r].final /\ (tp[r].closed => plr[r].recvs > 0)
      /\ tp'[r].reasm = tp[r].reasm
      /\ \/ /\ fr.kind # "data" /\ tp'[r].recvQ = tp[r].recvQ
            /\ tp'[r].peerFin = tp[r].peerFin \/ fr.kind = "fin"
         \/ /\ fr.kind = "data" /\ tp'[r].peerFin = tp[r].peerFin
            /\ tp'[r].recvQ = Append(tp[r].recvQ, fr)
         \/ /\ fr.kind = "data" /\ tp[r].closed /\ tp' = tp
  BY DispatchRecvRest, Zenon
<1>k. SenderKeeps(s) /\ Unlanded(s)' = Unlanded(s) /\ cls'[s] = cls[s]
  BY StillSends, Zenon DEF Still
<1>t. Taken(r)' = Taken(r)
  BY <1>e, Zenon DEF Taken
<1>1. CASE /\ fr.kind # "data" /\ tp'[r].recvQ = tp[r].recvQ
           /\ tp'[r].peerFin = tp[r].peerFin \/ fr.kind = "fin"
  <2>1. /\ hist'[s].promised = hist[s].promised
        /\ plr[r].final => plr'[r].final
        /\ nic[r].down => nic'[r].down
    BY <1>d, <1>e, Zenon
  <2>2. QED
    BY <1>1, <1>d, <1>e, <1>k, <1>t, <2>1, StreamHandled, Zenon
<1>2. CASE /\ fr.kind = "data" /\ tp'[r].peerFin = tp[r].peerFin
           /\ tp'[r].recvQ = Append(tp[r].recvQ, fr)
  <2>1. ReceiverKeeps(r)
    BY <1>2, <1>d, <1>e, <1>t, Zenon DEF ReceiverKeeps
  <2> DEFINE a == tp[r].recvQ
             b == nic[r].inbox
             c == nic[s].sq
             m == nic[s].landed
  <2>2. a \in FrameSeq /\ b \in FrameSeq /\ c \in FrameSeq /\ m \in 0 .. Len(c) /\ b # <<>>
        /\ Pipe(r) = Lane(a, b, c, m)
    BY <1>e, PipeFrames, Zenon
  <2>3. Pipe(r)' = Lane(Append(a, Head(b)), Tail(b), c, m)
    <3>1. Pipe(r)' = Append(tp[r].recvQ, fr) \o Tail(nic[r].inbox) \o Unlanded(s)
      BY <1>2, <1>e, <1>k, Zenon DEF Pipe
    <3>2. QED
      BY <3>1, Zenon DEF Lane, Unlanded
  <2>4. Len(Append(a, Head(b))) = Len(a) + 1 /\ Len(a) + 1 \in 1 .. Len(Pipe(r))
    <3> HIDE DEF a, b, c, m
    <3>1. Len(a) + 1 \in 1 .. Len(Lane(a, b, c, m))
      BY <2>2, LaneHandled, Zenon
    <3>2. Len(Append(a, Head(b))) = Len(a) + 1
      BY <2>2 DEF FrameSeq
    <3>3. QED
      BY <2>2, <3>1, <3>2, Zenon
  <2>5. Pipe(r)' = Pipe(r)
    <3> HIDE DEF a, b, c, m
    <3>1. QED
      BY <2>2, <2>3, LaneQueued, Zenon
  <2>6. Len(tp'[r].recvQ) = Len(tp[r].recvQ) + 1 /\ Len(tp'[r].recvQ) \in 1 .. Len(Pipe(r))
    BY <1>2, <2>4, Zenon
  <2>7. QED
    BY <1>k, <2>1, <2>5, <2>6, StreamStays, Zenon
<1>3. CASE tp[r].closed
  <2>1. plr[r].recvs \in Nat /\ plr[r].recvs > 0
    BY <1>3, <1>d, PlrFields DEF Typing
  <2>2. plr[r].final
    <3>1. plr[r].recvs # 0
      BY <2>1
    <3>2. QED
      BY <3>1, Zenon DEF BatchOf
  <2>3. QED
    BY <1>d, <2>2, Zenon DEF StreamOf, Whole
<1>4. QED
  BY <1>1, <1>2, <1>3, <1>d, Zenon

-----------------------------------------------------------------------------
(* The steps that leave the receiving end of a stream alone, and the       *)
(* others.                                                                 *)

(* What a step leaves alone that takes nothing off the way to e.           *)
EndAlone(e) ==
  /\ tp'[e].recvQ = tp[e].recvQ /\ tp'[e].reasm = tp[e].reasm
  /\ tp'[e].peerFin = tp[e].peerFin
  /\ nic'[e].inbox = nic[e].inbox /\ (nic[e].down => nic'[e].down)
  /\ plr[e].final => plr'[e].final
  /\ Taken(e)' = Taken(e)

(* The changes of a transport that do so.                                  *)
TpAside(e) ==
  \/ tp' = tp
  \/ \E n : \/ tp' = [tp EXCEPT ![e].up = n]         \/ tp' = [tp EXCEPT ![e].closed = n]
            \/ tp' = [tp EXCEPT ![e].credits = n]    \/ tp' = [tp EXCEPT ![e].sendFree = n]
            \/ tp' = [tp EXCEPT ![e].sendDone = n]   \/ tp' = [tp EXCEPT ![e].creditFree = n]
            \/ tp' = [tp EXCEPT ![e].pending = n]

(* They leave the receive queue, the reassembler and the fin alone.        *)
LEMMA TpStays ==
  ASSUME tp \in [Peers -> Tp], NEW e \in Peers, TpAside(e)
  PROVE  /\ tp'[e].recvQ = tp[e].recvQ /\ tp'[e].reasm = tp[e].reasm
         /\ tp'[e].peerFin = tp[e].peerFin
BY DEF TpAside, Tp

(* Those of a queue pair.                                                  *)
NicAside(e) ==
  \/ nic' = nic
  \/ \E x : nic' = Posted(e, x) \/ nic' = [nic EXCEPT ![e].ring = x]
  \/ nic' = [nic EXCEPT ![e].down = TRUE]

(* They leave what has arrived alone.                                      *)
LEMMA NicStays ==
  ASSUME nic \in [Peers -> Nic], NEW e \in Peers, NicAside(e)
  PROVE  nic'[e].inbox = nic[e].inbox /\ (nic[e].down => nic'[e].down)
BY DEF NicAside, Nic, Posted

(* Those of a poller.                                                      *)
PlrAside(e) ==
  \/ plr' = plr
  \/ \E pc : plr' = [plr EXCEPT ![e].pc = pc]
  \/ ~plr[e].final

(* A last batch remains one.                                               *)
LEMMA PlrStays ==
  ASSUME plr \in [Peers -> Plr], NEW e \in Peers, PlrAside(e)
  PROVE  plr[e].final => plr'[e].final
BY DEF PlrAside, Plr

(* Those of a receiver.                                                    *)
RcvAside(e) ==
  \/ rcv' = rcv
  \/ \E pc : rcv' = [rcv EXCEPT ![e].pc = pc]
  \/ \E pc, call : rcv' = [rcv EXCEPT ![e] = [rcv[e] EXCEPT !.pc = pc, !.call = call]]
  \/ \E pc, then, n : rcv' = [rcv EXCEPT ![e] = [rcv[e] EXCEPT !.pc = pc, !.then = then, !.n = n]]
  \/ \E n, next : Flush(e, n, next, rcv[e].out)

(* And of what is recorded of it.                                          *)
HistAside(e) ==
  \/ hist' = hist
  \/ \E x : \/ hist' = [hist EXCEPT ![e].stream = x]  \/ hist' = [hist EXCEPT ![e].lost = x]
            \/ hist' = [hist EXCEPT ![e].promised = x] \/ hist' = [hist EXCEPT ![e].eof = x]

(* They leave what the receiver has taken alone.                           *)
LEMMA RcvStays ==
  ASSUME NEW calls, rcv \in [Peers -> Rcv(calls)], NEW e \in Peers, RcvAside(e)
  PROVE  rcv'[e].out = rcv[e].out /\ rcv'[e].rest = rcv[e].rest
<1>1. CASE \/ rcv' = rcv
           \/ \E pc : rcv' = [rcv EXCEPT ![e].pc = pc]
           \/ \E pc, call : rcv' = [rcv EXCEPT ![e] = [rcv[e] EXCEPT !.pc = pc, !.call = call]]
  BY <1>1 DEF Rcv
<1>2. CASE \E pc, then, n : rcv' = [rcv EXCEPT ![e] = [rcv[e] EXCEPT !.pc = pc, !.then = then, !.n = n]]
  BY <1>2 DEF Rcv
<1>3. CASE \E n, next : Flush(e, n, next, rcv[e].out)
  <2>1. PICK n, next : Flush(e, n, next, rcv[e].out)
    BY <1>3, Zenon
  <2> DEFINE out == rcv[e].out
  <2>2. \/ rcv' = [rcv EXCEPT ![e] = [rcv[e] EXCEPT !.pc = "credit", !.then = next, !.n = n, !.out = out]]
        \/ rcv' = [rcv EXCEPT ![e] = [rcv[e] EXCEPT !.pc = next, !.out = out]]
    BY <2>1, Zenon DEF Flush
  <2>3. out = rcv[e].out
    OBVIOUS
  <2> HIDE DEF out
  <2>4. rcv'[e].out = out /\ rcv'[e].rest = rcv[e].rest
    BY <2>2 DEF Rcv
  <2>5. QED
    BY <2>3, <2>4, Zenon
<1>4. QED
  BY <1>1, <1>2, <1>3, Zenon DEF RcvAside

(* And what it has got.                                                    *)
LEMMA HistStays ==
  ASSUME hist \in [Peers -> Hist], NEW e \in Peers, HistAside(e)
  PROVE  hist'[e].got = hist[e].got
BY DEF HistAside, Hist

(* All of these leave the receiving end alone.                             *)
LEMMA AsideIsAlone ==
  ASSUME Typing, NEW e \in Peers, TpAside(e), NicAside(e), PlrAside(e), RcvAside(e), HistAside(e)
  PROVE  EndAlone(e)
<1>1. /\ tp \in [Peers -> Tp] /\ nic \in [Peers -> Nic] /\ plr \in [Peers -> Plr]
      /\ rcv \in [Peers -> Rcv(scene.calls)] /\ hist \in [Peers -> Hist]
  BY DEF Typing
<1>2. Taken(e)' = Taken(e)
  BY <1>1, RcvStays, HistStays, Zenon DEF Taken
<1>3. QED
  BY <1>1, <1>2, TpStays, NicStays, PlrStays, Zenon DEF EndAlone

(* RecvReturn moves what was taken to what was got.                        *)
LEMMA ReturnTakes ==
  ASSUME Typing, NEW e \in Peers, RecvReturn(e)
  PROVE  /\ EndAlone(e)
         /\ hist'[e].got = hist[e].got \o rcv[e].out /\ rcv'[e].out = <<>>
<1>0. /\ rcv \in [Peers -> Rcv(scene.calls)] /\ hist \in [Peers -> Hist]
      /\ hist[e].got \in Texts /\ rcv[e].out \in Texts
  BY RcvFields, HistFields, Zenon DEF Typing
<1>1. /\ plr' = plr /\ tp' = tp /\ nic' = nic
      /\ \/ /\ rcv' = [rcv EXCEPT ![e] = [rcv[e] EXCEPT !.pc = "idle", !.out = <<>>]]
            /\ hist' = [hist EXCEPT ![e].got = hist[e].got \o rcv[e].out]
         \/ \E rest, read :
            /\ rcv' = [rcv EXCEPT ![e] = [rcv[e] EXCEPT !.pc = "idle", !.out = <<>>, !.rest = rest]]
            /\ hist' = [hist EXCEPT ![e] = [hist[e] EXCEPT !.got = hist[e].got \o rcv[e].out,
                                                           !.read = read]]
  BY Zenon DEF RecvReturn
<1> DEFINE got == hist[e].got \o rcv[e].out
<1>2. hist'[e].got = got /\ rcv'[e].out = <<>>
  <2>1. CASE /\ rcv' = [rcv EXCEPT ![e] = [rcv[e] EXCEPT !.pc = "idle", !.out = <<>>]]
             /\ hist' = [hist EXCEPT ![e].got = got]
    <3> HIDE DEF got
    <3>1. QED
      BY <1>0, <2>1 DEF Rcv, Hist
  <2>2. CASE \E rest, read :
            /\ rcv' = [rcv EXCEPT ![e] = [rcv[e] EXCEPT !.pc = "idle", !.out = <<>>, !.rest = rest]]
            /\ hist' = [hist EXCEPT ![e] = [hist[e] EXCEPT !.got = got, !.read = read]]
    <3>1. PICK rest, read :
            /\ rcv' = [rcv EXCEPT ![e] = [rcv[e] EXCEPT !.pc = "idle", !.out = <<>>, !.rest = rest]]
            /\ hist' = [hist EXCEPT ![e] = [hist[e] EXCEPT !.got = got, !.read = read]]
      BY <2>2, Zenon
    <3> HIDE DEF got
    <3>2. rcv'[e].out = <<>>
      BY <1>0, <3>1 DEF Rcv
    <3>3. hist'[e].got = got
      BY <1>0, <3>1 DEF Hist
    <3>4. QED
      BY <3>2, <3>3
  <2>3. QED
    BY <1>1, <2>1, <2>2, Zenon
<1>3. Taken(e)' = Taken(e)
  <2>1. \A g, o \in Texts : (g \o o) \o <<>> = g \o o
    BY DEF Texts
  <2>2. Taken(e)' = got \o <<>>
    BY <1>2, Zenon DEF Taken
  <2>3. QED
    BY <1>0, <2>1, <2>2, Zenon DEF Taken
<1>4. QED
  BY <1>1, <1>2, <1>3, Zenon DEF EndAlone

(* The steps of e that take something off the way to it.                   *)
Takes(e) == \/ ConsumeFrame(e, "drain") \/ ConsumeFrame(e, "try") \/ DispatchRecv(e)

(* All others leave that end alone.                                        *)
LEMMA OtherStepsAlone ==
  ASSUME Typing, NEW e \in Peers, Moves(e)
  PROVE  Takes(e) \/ EndAlone(e)
<1>r. CASE RecvReturn(e)
  BY <1>r, ReturnTakes, Zenon
<1>d. CASE DispatchSend(e)
  <2>1. /\ rcv' = rcv /\ hist' = hist
        /\ nic'[e].inbox = nic[e].inbox /\ nic'[e].down = nic[e].down
        /\ \/ tp' = tp \/ tp' = [tp EXCEPT ![e].sendFree = @ + 1]
           \/ tp' = [tp EXCEPT ![e].creditFree = @ + 1]
    BY <1>d, DispatchSendEffect, Zenon
  <2>2. TpAside(e)
    BY <2>1, Zenon DEF TpAside
  <2>3. \E n, pc : plr' = [plr EXCEPT ![e] = [plr[e] EXCEPT !.sends = n, !.pc = pc]]
    BY <1>d, Zenon DEF DispatchSend
  <2>4. plr[e].final => plr'[e].final
    BY <2>3 DEF Typing, Plr
  <2>5. tp \in [Peers -> Tp]
    BY DEF Typing
  <2>6. Taken(e)' = Taken(e)
    BY <2>1, Zenon DEF Taken
  <2>7. QED
    BY <2>1, <2>2, <2>4, <2>5, <2>6, TpStays, Zenon DEF EndAlone
<1>1. ASSUME ~RecvReturn(e), ~DispatchSend(e), ~Takes(e)
      PROVE  TpAside(e) /\ NicAside(e) /\ PlrAside(e) /\ RcvAside(e) /\ HistAside(e)
  <2>1. CASE SendCall(e)
    <3>1. NicAside(e) /\ TpAside(e)
      BY <2>1, Zenon DEF SendCall, BringUp, NicAside, TpAside
    <3>2. PlrAside(e) /\ RcvAside(e) /\ HistAside(e)
      BY <2>1, Zenon DEF SendCall, StartPoller, PlrAside, RcvAside, HistAside
    <3>3. QED
      BY <3>1, <3>2
  <2>2. CASE RecvCall(e)
    <3>1. NicAside(e) /\ TpAside(e)
      BY <2>2, Zenon DEF RecvCall, BringUp, NicAside, TpAside
    <3>2. PlrAside(e) /\ HistAside(e)
      BY <2>2, Zenon DEF RecvCall, StartPoller, PlrAside, HistAside
    <3>3. RcvAside(e)
      BY <2>2, Zenon DEF RecvCall, RcvAside
    <3>4. QED
      BY <3>1, <3>2, <3>3
  <2>3. CASE Sender(e)
    <3>1. rcv' = rcv /\ plr' = plr
      BY <2>3, Zenon DEF Sender, DrainSendDone, AcquireCredit, PostFrame, WaitToken, SendReturn
    <3>2. TpAside(e) /\ NicAside(e)
      BY <2>3, Zenon DEF Sender, DrainSendDone, AcquireCredit, PostFrame, WaitToken, SendReturn,
                         TpAside, NicAside
    <3>3. HistAside(e)
      BY <2>3, Zenon DEF Sender, DrainSendDone, AcquireCredit, PostFrame, WaitToken, SendReturn,
                         HistAside
    <3>4. QED
      BY <3>1, <3>2, <3>3, Zenon DEF PlrAside, RcvAside
  <2>4. CASE Receiver(e)
    <3>1. plr' = plr
      BY <1>1, <2>4, Zenon DEF Receiver, RecvDrain, RecvBlock, RecvTry, RecvEnd, ReturnCredit, Takes
    <3>2. TpAside(e) /\ NicAside(e)
      BY <1>1, <2>4, Zenon DEF Receiver, RecvDrain, RecvBlock, RecvTry, RecvEnd, ReturnCredit, Takes,
                         TpAside, NicAside
    <3>3. HistAside(e)
      BY <1>1, <2>4, Zenon DEF Receiver, RecvDrain, RecvBlock, RecvTry, RecvEnd, ReturnCredit, Takes,
                         HistAside
    <3>4. RcvAside(e)
      BY <1>1, <2>4, Zenon DEF Receiver, RecvDrain, RecvBlock, RecvTry, RecvEnd, ReturnCredit, Takes,
                         RcvAside
    <3>5. QED
      BY <3>1, <3>2, <3>3, <3>4, Zenon DEF PlrAside
  <2>5. CASE Poller(e)
    <3>1. rcv' = rcv /\ hist' = hist /\ nic' = nic
      BY <1>1, <2>5, Zenon DEF Poller, PushToken, DispatchError, PollLast, PollerExit, Takes
    <3>2. TpAside(e) /\ PlrAside(e)
      BY <1>1, <2>5, Zenon DEF Poller, PushToken, DispatchError, PollLast, PollerExit, Takes,
                               TpAside, PlrAside
    <3>3. QED
      BY <3>1, <3>2, Zenon DEF NicAside, RcvAside, HistAside
  <2>6. CASE CloseCall(e) \/ Closer(e)
    <3>1. rcv' = rcv /\ hist' = hist /\ plr' = plr
      BY <2>6, Zenon DEF CloseCall, Closer, CloseFin, CloseDone, TearDown
    <3>2. TpAside(e) /\ NicAside(e)
      BY <2>6, Zenon DEF CloseCall, Closer, CloseFin, CloseDone, TearDown, TpAside, NicAside
    <3>3. QED
      BY <3>1, <3>2, Zenon DEF PlrAside, RcvAside, HistAside
  <2>7. QED
    BY <2>1, <2>2, <2>3, <2>4, <2>5, <2>6, Zenon DEF Moves
<1>2. QED
  BY <1>r, <1>d, <1>1, AsideIsAlone, Zenon

(* The receiving end of the stream: what any goroutine of r does keeps it. *)
LEMMA StreamReceived ==
  ASSUME Typing, NEW r \in Peers, LandedOfQueued(Peer(r)), StreamOf(r), BatchOf(r),
         Moves(r), scene' = scene
  PROVE  StreamOf(r)'
<1>1. Still(Peer(r))
  BY ThePeers, OthersStill, Zenon
<1>2. CASE DispatchRecv(r)
  BY <1>1, <1>2, StreamDispatched, Zenon
<1>3. CASE ConsumeFrame(r, "drain") \/ ConsumeFrame(r, "try")
  <2>1. "drain" \in RecvPcs /\ "try" \in RecvPcs
    BY DEF RecvPcs
  <2>2. QED
    BY <1>1, <1>3, <2>1, StreamConsumed, Zenon
<1>4. CASE EndAlone(r)
  <2>1. SenderKeeps(Peer(r)) /\ Unlanded(Peer(r))' = Unlanded(Peer(r))
    BY <1>1, ThePeers, StillSends, Zenon
  <2>2. Pipe(r)' = Pipe(r)
    BY <1>4, <2>1, Zenon DEF Pipe, EndAlone
  <2>3. ReceiverKeeps(r) /\ tp'[r].recvQ = tp[r].recvQ
    BY <1>4, Zenon DEF EndAlone, ReceiverKeeps
  <2>4. QED
    BY <2>1, <2>2, <2>3, StreamStays, Zenon
<1>5. QED
  BY <1>2, <1>3, <1>4, OtherStepsAlone, Zenon DEF Takes

-----------------------------------------------------------------------------
(* The sending end: what it has begun of a message, and what goes out.     *)

(* An end that stands still takes nothing.                                 *)
LEMMA StillReceives ==
  ASSUME NEW r, Still(r)
  PROVE  /\ ReceiverKeeps(r) /\ tp'[r].recvQ = tp[r].recvQ
         /\ nic'[r].inbox = nic[r].inbox
<1>1. /\ rcv'[r] = rcv[r] /\ plr'[r] = plr[r] /\ tp'[r] = tp[r] /\ nic'[r] = nic[r]
      /\ hist'[r] = hist[r]
  BY Zenon DEF Still
<1>2. QED
  BY <1>1, Zenon DEF ReceiverKeeps, Taken

(* A step that leaves the sender and its record alone keeps its messages.  *)
LEMMA NotSending ==
  ASSUME NEW s, scene' = scene, snd'[s] = snd[s],
         hist'[s].stream = hist[s].stream, hist'[s].promised = hist[s].promised,
         hist'[s].lost = hist[s].lost, cls'[s] = "open" => cls[s] = "open",
         tp[s].closed => tp'[s].closed, nic[s].down => nic'[s].down
  PROVE  SenderKeeps(s)
<1>1. Begun(s)' = Begun(s)
  BY Zenon DEF Begun
<1>2. (Silent(s) => Silent(s)') /\ Refused(s)' = Refused(s)
  BY Zenon DEF Silent, Refused, Ample
<1>3. QED
  BY <1>1, <1>2, Zenon DEF SenderKeeps

(* The goroutines of s other than the sender do not send, nor does a call. *)
LEMMA OthersDoNotSend ==
  ASSUME Typing, NEW s \in Peers, scene' = scene,
         RecvCall(s) \/ Receiver(s) \/ Poller(s) \/ CloseCall(s) \/ Closer(s)
  PROVE  SenderKeeps(s)
<1>0. /\ tp \in [Peers -> Tp] /\ nic \in [Peers -> Nic] /\ hist \in [Peers -> Hist]
      /\ cls \in [Peers -> {"open", "fin", "close", "teardown", "closed"}]
  BY DEF Typing
<1>1. snd' = snd
  <2>1. CASE RecvCall(s) \/ Receiver(s)
    BY <2>1, Zenon DEF RecvCall, Receiver, RecvDrain, RecvBlock, RecvTry, RecvEnd, ReturnCredit,
                       RecvReturn, ConsumeFrame
  <2>2. CASE Poller(s)
    BY <2>2, Zenon DEF Poller, DispatchSend, PushToken, DispatchRecv, DispatchError, PollLast, PollerExit
  <2>3. CASE CloseCall(s) \/ Closer(s)
    BY <2>3, Zenon DEF CloseCall, Closer, CloseFin, CloseDone, TearDown
  <2>4. QED
    BY <2>1, <2>2, <2>3
<1>2. /\ hist'[s].stream = hist[s].stream /\ hist'[s].promised = hist[s].promised
      /\ hist'[s].lost = hist[s].lost
  <2>1. CASE RecvReturn(s)
    <3>1. \/ \E g : hist' = [hist EXCEPT ![s].got = g]
          \/ \E g, x : hist' = [hist EXCEPT ![s] = [hist[s] EXCEPT !.got = g, !.read = x]]
      BY <2>1, Zenon DEF RecvReturn
    <3>2. CASE \E g : hist' = [hist EXCEPT ![s].got = g]
      BY <1>0, <3>2 DEF Hist
    <3>3. CASE \E g, x : hist' = [hist EXCEPT ![s] = [hist[s] EXCEPT !.got = g, !.read = x]]
      BY <1>0, <3>3 DEF Hist
    <3>4. QED
      BY <3>1, <3>2, <3>3
  <2>2. CASE ~RecvReturn(s)
    <3>1. hist' = hist \/ hist' = [hist EXCEPT ![s].eof = TRUE]
      <4>1. CASE RecvCall(s) \/ Receiver(s)
        BY <2>2, <4>1, Zenon DEF RecvCall, Receiver, RecvDrain, RecvBlock, RecvTry, RecvEnd,
                                 ReturnCredit, ConsumeFrame
      <4>2. CASE Poller(s)
        BY <4>2, Zenon DEF Poller, DispatchSend, PushToken, DispatchRecv, DispatchError,
                           PollLast, PollerExit
      <4>3. CASE CloseCall(s) \/ Closer(s)
        BY <4>3, Zenon DEF CloseCall, Closer, CloseFin, CloseDone, TearDown
      <4>4. QED
        BY <4>1, <4>2, <4>3
    <3>2. QED
      BY <1>0, <3>1 DEF Hist
  <2>3. QED
    BY <2>1, <2>2
<1>m. Moves(s)
  BY Zenon DEF Moves
<1>3. cls'[s] = "open" => cls[s] = "open"
  BY <1>m, ClosedStays, Zenon
<1>4. (tp[s].closed => tp'[s].closed) /\ (nic[s].down => nic'[s].down)
  <2>1. tp[s].closed => tp'[s].closed
    BY <1>m, ClosedStays, Zenon
  <2>2. nic[s].down => nic'[s].down
    <3>1. CASE Takes(s)
      <4>1. "drain" \in RecvPcs /\ "try" \in RecvPcs
        BY DEF RecvPcs
      <4>2. QED
        BY <3>1, <4>1, ConsumeEffect, DispatchRecvEffect, Zenon DEF Takes
    <3>2. CASE EndAlone(s)
      BY <3>2, Zenon DEF EndAlone
    <3>3. QED
      BY <1>m, <3>1, <3>2, OtherStepsAlone, Zenon
  <2>3. QED
    BY <2>1, <2>2
<1>5. QED
  BY <1>1, <1>2, <1>3, <1>4, NotSending, Zenon

(* A frame on the send queue is a data or a control frame.                 *)
LEMMA QueueLength ==
  ASSUME NEW seq \in Seq(Frames)
  PROVE  Len(seq) <= Amount(seq, 0, "data") + Amount(seq, 0, "ctl")
<1> DEFINE D == Cells(seq, 0, "data")
           C == Cells(seq, 0, "ctl")
           L == Len(seq)
           S == (1 .. L) \X {1}
<1>0. L \in Nat /\ 0 \in Nat
  OBVIOUS
<1>1. IsFiniteSet(D) /\ IsFiniteSet(C)
  BY <1>0, WhatKinds, CellsFinite, Zenon
<1>2. S \subseteq D \cup C
  <2>1. ASSUME NEW i \in 1 .. L PROVE <<i, 1>> \in D \cup C
    <3>1. seq[i] \in Frames /\ i \in 0 + 1 .. L
      BY <1>0
    <3>2. Carries(seq[i], "data") = 1 \/ Carries(seq[i], "ctl") = 1
      BY <3>1, FrameCarries, Zenon
    <3>3. 1 \in 1 .. 1
      OBVIOUS
    <3>4. CASE Carries(seq[i], "data") = 1
      <4>1. <<i, 1>> \in D
        BY <3>1, <3>4 DEF Cells
      <4>2. QED
        BY <4>1, Zenon
    <3>5. CASE Carries(seq[i], "ctl") = 1
      <4>1. <<i, 1>> \in C
        BY <3>1, <3>5 DEF Cells
      <4>2. QED
        BY <4>1, Zenon
    <3>6. QED
      BY <3>2, <3>4, <3>5, Zenon
  <2>2. QED
    <3> HIDE DEF D, C
    <3>1. QED
      BY <2>1
<1>3. IsFiniteSet(S) /\ Cardinality(S) = L
  <2>1. IsFiniteSet(1 .. L) /\ Cardinality(1 .. L) = L
    BY <1>0, FS_Interval
  <2>2. IsFiniteSet({1}) /\ Cardinality({1}) = 1
    BY FS_Singleton
  <2> HIDE DEF L
  <2>3. IsFiniteSet(S) /\ Cardinality(S) = Cardinality(1 .. L) * Cardinality({1})
    BY <2>1, <2>2, FS_Product, Zenon
  <2>4. QED
    BY <1>0, <2>1, <2>2, <2>3
<1>4. /\ IsFiniteSet(D \cup C)
      /\ Cardinality(D \cup C) = Cardinality(D) + Cardinality(C) - Cardinality(D \cap C)
  BY <1>1, FS_Union, Zenon
<1>5. Cardinality(S) <= Cardinality(D \cup C)
  BY <1>2, <1>4, FS_Subset, Zenon
<1>6. IsFiniteSet(D \cap C)
  BY <1>1, FS_Intersection, Zenon
<1>7. Cardinality(D) \in Nat /\ Cardinality(C) \in Nat /\ Cardinality(D \cap C) \in Nat
  BY <1>1, <1>6, FS_CardinalityType, Zenon
<1> HIDE DEF D, C, S, L
<1>8. L <= Cardinality(D) + Cardinality(C)
  BY <1>0, <1>3, <1>4, <1>5, <1>7
<1>9. QED
  BY <1>8, Zenon DEF D, C, L, Amount

(* With a send queue for every slot, PostSend refuses a frame for which a  *)
(* data slot is free only on a queue pair that is down.                    *)
LEMMA AmpleAccepts ==
  ASSUME Types, NEW s \in Peers, SlotsOf(s), Ample, tp[s].sendFree > 0, ~CanPost(s)
  PROVE  nic[s].down
<1>1. nic[s].sq \in Seq(Frames) /\ scene.sqCap \in Nat
  BY NicFields, ScriptType, Zenon DEF Types, Typing, FrameSeq
<1>2. Len(nic[s].sq) <= Queued(s, "data") + Queued(s, "ctl")
  BY <1>1, QueueLength, Zenon DEF Queued
<1>3. tp[s].sendFree + Queued(s, "data") <= Depth /\ tp[s].creditFree + Queued(s, "ctl") <= CreditSlots
      /\ scene.sqCap >= Depth + CreditSlots
  BY Zenon DEF SlotsOf, Ample
<1>4. /\ Queued(s, "data") \in Nat /\ Queued(s, "ctl") \in Nat /\ tp[s].sendFree \in Nat
      /\ tp[s].creditFree \in Nat /\ Depth \in Nat /\ CreditSlots \in Nat
      /\ Len(nic[s].sq) \in Nat
  BY SendTypes, Zenon
<1>5. Len(nic[s].sq) < scene.sqCap
  <2>1. \A len, d, c, f, g, depth, slots, cap \in Nat :
          /\ len <= d + c /\ f + d <= depth /\ g + c <= slots /\ cap >= depth + slots /\ f > 0
          => len < cap
    OBVIOUS
  <2>2. QED
    BY <1>1, <1>2, <1>3, <1>4, <2>1, Zenon
<1>6. QED
  BY <1>5, Zenon DEF CanPost

(* No bytes.                                                               *)
LEMMA NoBytes == \A c, k : Bytes(c, k, 1, (1 - 1) * Payload) = <<>>
<1>1. (1 - 1) * Payload = 0
  BY TransportAssumption
<1>2. ASSUME NEW c, NEW k PROVE Bytes(c, k, 1, 0) = <<>>
  <2>1. Bytes(c, k, 1, 0) = [i \in 1 .. 0 |-> <<c, k, i>>]
    BY DEF Bytes
  <2>2. QED
    BY <2>1
<1>3. QED
  BY <1>1, <1>2, Zenon

(* Between messages nothing is begun.                                      *)
LEMMA NothingBegun ==
  ASSUME NEW s
  PROVE  snd[s].pc \notin {"drain", "acquire", "post"} \/ snd[s].f = 1 => Begun(s) = <<>>
<1>1. CASE snd[s].f = 1
  BY <1>1, NoBytes DEF Begun
<1>2. QED
  BY <1>1 DEF Begun

(* Nor is it in the state after a step.                                    *)
LEMMA NothingBegunNext ==
  ASSUME NEW s
  PROVE  snd'[s].pc \notin {"drain", "acquire", "post"} \/ snd'[s].f = 1 => Begun(s)' = <<>>
<1>1. CASE snd'[s].f = 1
  BY <1>1, NoBytes DEF Begun
<1>2. QED
  BY <1>1 DEF Begun

(* Entering a call, the sender has begun no message.                       *)
LEMMA CallBegins ==
  ASSUME Typing, NEW s \in Peers, scene' = scene, SendCall(s)
  PROVE  /\ SenderKeeps(s)
         /\ nic'[s].sq = nic[s].sq /\ nic'[s].landed = nic[s].landed
<1>0. /\ snd \in [Peers -> Snd] /\ tp \in [Peers -> Tp] /\ nic \in [Peers -> Nic]
  BY DEF Typing
<1>1. /\ snd[s].pc = "idle" /\ cls' = cls /\ hist' = hist
      /\ tp' = [tp EXCEPT ![s].up = TRUE]
      /\ nic' = nic \/ nic' = [nic EXCEPT ![s].ring = Depth]
      /\ \/ \E c : snd' = [snd EXCEPT ![s].call = c]
         \/ \E c : snd' = [snd EXCEPT ![s] = [pc |-> "drain", call |-> c, k |-> 1, f |-> 1,
                                              owed |-> 0, err |-> FALSE]]
  BY Zenon DEF SendCall, BringUp
<1>2. tp'[s].closed = tp[s].closed
  BY <1>0, <1>1 DEF Tp
<1>3. /\ nic'[s].sq = nic[s].sq /\ nic'[s].landed = nic[s].landed
      /\ nic'[s].down = nic[s].down
  BY <1>0, <1>1 DEF Nic
<1>4. snd'[s].pc = "idle" \/ (snd'[s].pc = "drain" /\ snd'[s].f = 1)
  <2>1. CASE \E c : snd' = [snd EXCEPT ![s].call = c]
    BY <1>0, <1>1, <2>1 DEF Snd
  <2>2. CASE \E c : snd' = [snd EXCEPT ![s] = [pc |-> "drain", call |-> c, k |-> 1, f |-> 1,
                                              owed |-> 0, err |-> FALSE]]
    BY <1>0, <2>2
  <2>3. QED
    BY <1>1, <2>1, <2>2, Zenon
<1>5. Begun(s) = <<>>
  BY <1>1, NothingBegun
<1>6. Begun(s)' = <<>>
  BY <1>4, NothingBegunNext
<1>7. (Silent(s) => Silent(s)') /\ Refused(s)' = Refused(s)
  <2>1. snd'[s].pc # "post"
    BY <1>4
  <2>2. QED
    BY <1>1, <1>2, <1>3, <2>1, Zenon DEF Silent, Refused, Ample
<1>8. QED
  BY <1>1, <1>3, <1>5, <1>6, <1>7, Zenon DEF SenderKeeps

(* The sender has posted a data frame.                                     *)
PostsData(s) ==
  LET frame == DataFrame(s, snd[s].call, snd[s].k, snd[s].f) IN
  /\ snd[s].pc = "post" /\ CanPost(s)
  /\ tp'  = [tp EXCEPT ![s].sendFree = @ - 1]
  /\ nic' = Posted(s, frame)
  /\ snd' = [snd EXCEPT ![s] = NextFrame(s)]
  /\ hist' = IF frame.more THEN hist
             ELSE [hist EXCEPT ![s].stream = Append(@, Message(s, snd[s].call, snd[s].k))]
  /\ UNCHANGED <<scene, rcv, plr, cls>>

(* No other step of the sender touches its messages, but that a refusal    *)
(* breaks one off, which needs a queue too short or a queue pair gone.     *)
LEMMA SenderRests ==
  ASSUME Types, NEW s \in Peers, SlotsOf(s), Sender(s), scene' = scene
  PROVE  \/ PostsData(s)
         \/ /\ SenderKeeps(s)
            /\ nic' = nic
<1>0. /\ snd \in [Peers -> Snd] /\ tp \in [Peers -> Tp] /\ nic \in [Peers -> Nic]
      /\ hist \in [Peers -> Hist]
  BY DEF Types, Typing
<1>1. CASE DrainSendDone(s)
  <2>1. /\ snd[s].pc = "drain" /\ nic' = nic /\ cls' = cls /\ hist' = hist
        /\ tp' = [tp EXCEPT ![s].sendDone = 0]
        /\ \E n : snd' = [snd EXCEPT ![s] = [[snd[s] EXCEPT !.owed = n] EXCEPT !.pc = "acquire"]]
    BY <1>1, Zenon DEF DrainSendDone, Collected
  <2>2. tp'[s].closed = tp[s].closed
    BY <1>0, <2>1 DEF Tp
  <2>3. /\ snd'[s].pc = "acquire" /\ snd'[s].call = snd[s].call /\ snd'[s].k = snd[s].k
        /\ snd'[s].f = snd[s].f
    BY <1>0, <2>1 DEF Snd
  <2>4. Begun(s)' = Begun(s)
    BY <2>1, <2>3 DEF Begun
  <2>5. (Silent(s) => Silent(s)') /\ Refused(s)' = Refused(s)
    <3>1. snd'[s].pc # "post"
      BY <2>3
    <3>2. QED
      BY <2>1, <2>2, <3>1, Zenon DEF Silent, Refused, Ample
  <2>6. QED
    BY <2>1, <2>4, <2>5, Zenon DEF SenderKeeps
<1>2. CASE AcquireCredit(s)
  <2>1. snd[s].pc = "acquire" /\ nic' = nic /\ cls' = cls /\ hist' = hist
    BY <1>2, Zenon DEF AcquireCredit
  <2>2. CASE tp[s].closed /\ SendFails(s) /\ tp' = tp
    <3>1. snd'[s].pc = "wait"
      BY <1>0, <2>2 DEF SendFails, Snd
    <3>2. Silent(s)' /\ Refused(s)' = Refused(s)
      <4>1. snd'[s].pc # "post"
        BY <3>1
      <4>2. QED
        BY <2>1, <2>2, <4>1, Zenon DEF Silent, Refused, Ample
    <3>3. QED
      BY <2>1, <3>2, Zenon DEF SenderKeeps
  <2>3. CASE /\ ~tp[s].closed /\ tp' = [tp EXCEPT ![s].credits = @ - 1]
             /\ snd' = [snd EXCEPT ![s].pc = "post"]
    <3>1. tp'[s].closed = tp[s].closed
      BY <1>0, <2>3 DEF Tp
    <3>2. /\ snd'[s].pc = "post" /\ snd'[s].call = snd[s].call /\ snd'[s].k = snd[s].k
          /\ snd'[s].f = snd[s].f
      BY <1>0, <2>3 DEF Snd
    <3>3. Begun(s)' = Begun(s)
      BY <2>1, <3>2 DEF Begun
    <3>4. (Silent(s) => Silent(s)') /\ Refused(s)' = Refused(s)
      BY <2>1, <2>3, Zenon DEF Silent, Refused, Ample
    <3>5. QED
      BY <2>1, <3>3, <3>4, Zenon DEF SenderKeeps
  <2>4. QED
    BY <1>2, <2>2, <2>3, Zenon DEF AcquireCredit
<1>3. CASE PostFrame(s)
  <2>1. CASE PostsData(s)
    BY <2>1
  <2>2. CASE /\ tp[s].sendFree > 0 /\ ~CanPost(s) /\ SendFails(s)
             /\ hist' = [hist EXCEPT ![s].lost = @ + 1] /\ nic' = nic
             /\ tp' = tp \/ tp' = [tp EXCEPT ![s].sendFree = @ - 1]
    <3>0. tp'[s].closed = tp[s].closed
      BY <1>0, <2>2 DEF Tp
    <3>1. snd[s].pc = "post" /\ cls' = cls
      BY <1>3, Zenon DEF PostFrame
    <3>2. /\ hist'[s].stream = hist[s].stream /\ hist'[s].promised = hist[s].promised
          /\ hist'[s].lost = hist[s].lost + 1 /\ hist[s].lost \in Nat
      BY <1>0, <2>2 DEF Hist
    <3>3. hist'[s].lost # 0
      BY <3>2
    <3>4. Ample => nic'[s].down
      BY <2>2, AmpleAccepts, Zenon
    <3>5. Refused(s)' \/ Silent(s)'
      BY <3>3, <3>4, Zenon DEF Refused, Silent, Ample
    <3>6. Refused(s) => Refused(s)'
      BY <3>3, Zenon DEF Refused, Ample
    <3>7. Silent(s) => Silent(s)'
      BY <2>2, <3>0, <3>1, Zenon DEF Silent
    <3>8. QED
      BY <2>2, <3>1, <3>2, <3>5, <3>6, <3>7, Zenon DEF SenderKeeps
  <2>3. CASE tp[s].closed /\ SendFails(s) /\ tp' = tp /\ nic' = nic /\ hist' = hist
    <3>1. cls' = cls
      BY <1>3, Zenon DEF PostFrame
    <3>2. snd'[s].pc = "wait"
      BY <1>0, <2>3 DEF SendFails, Snd
    <3>3. Silent(s)' /\ Refused(s)' = Refused(s)
      <4>1. snd'[s].pc # "post"
        BY <3>2
      <4>2. QED
        BY <2>3, <4>1, Zenon DEF Silent, Refused, Ample
    <3>4. QED
      BY <2>3, <3>1, <3>3, Zenon DEF SenderKeeps
  <2>4. QED
    BY <1>3, <2>1, <2>2, <2>3, Zenon DEF PostFrame, PostsData
<1>4. CASE WaitToken(s) \/ SendReturn(s)
  <2>1. snd[s].pc = "wait" /\ nic' = nic /\ cls' = cls
    BY <1>4, Zenon DEF WaitToken, SendReturn
  <2>2. /\ tp' = tp \/ \E n : tp' = [tp EXCEPT ![s].sendDone = n]
        /\ \/ hist' = hist
           \/ \E n : hist' = [hist EXCEPT ![s].promised = n] /\ cls[s] = "open"
        /\ \/ \E n : snd' = [snd EXCEPT ![s] = [snd[s] EXCEPT !.owed = n]]
           \/ \E n : snd' = [snd EXCEPT ![s] = [snd[s] EXCEPT !.owed = n, !.err = TRUE]]
           \/ snd' = [snd EXCEPT ![s].pc = "idle"]
    BY <1>4, Zenon DEF WaitToken, SendReturn, Collected
  <2>3. tp'[s].closed = tp[s].closed
    BY <1>0, <2>2 DEF Tp
  <2>4. snd'[s].pc = "wait" \/ snd'[s].pc = "idle"
    <3>1. CASE \E n : snd' = [snd EXCEPT ![s] = [snd[s] EXCEPT !.owed = n]]
      BY <1>0, <2>1, <3>1 DEF Snd
    <3>2. CASE \E n : snd' = [snd EXCEPT ![s] = [snd[s] EXCEPT !.owed = n, !.err = TRUE]]
      BY <1>0, <2>1, <3>2 DEF Snd
    <3>3. CASE snd' = [snd EXCEPT ![s].pc = "idle"]
      BY <1>0, <3>3 DEF Snd
    <3>4. QED
      BY <2>2, <3>1, <3>2, <3>3, Zenon
  <2>5. /\ hist'[s].stream = hist[s].stream /\ hist'[s].lost = hist[s].lost
        /\ hist'[s].promised = hist[s].promised \/ cls[s] = "open"
    BY <1>0, <2>2 DEF Hist
  <2>6. Begun(s) = <<>> /\ Begun(s)' = <<>>
    <3>1. Begun(s) = <<>>
      BY <2>1, NothingBegun
    <3>2. Begun(s)' = <<>>
      BY <2>4, NothingBegunNext
    <3>3. QED
      BY <3>1, <3>2
  <2>7. (Silent(s) => Silent(s)') /\ Refused(s)' = Refused(s)
    <3>1. snd'[s].pc # "post"
      BY <2>4
    <3>2. QED
      BY <2>1, <2>3, <2>5, <3>1, Zenon DEF Silent, Refused, Ample
  <2>8. QED
    BY <2>1, <2>5, <2>6, <2>7, Zenon DEF SenderKeeps
<1>5. QED
  BY <1>1, <1>2, <1>3, <1>4, Zenon DEF Sender

(* Multiples of the payload.                                               *)
LEMMA Multiples ==
  \A x, y \in Nat : x <= y => x * Payload \in Nat /\ x * Payload <= y * Payload
                              /\ (x + 1) * Payload = x * Payload + Payload
<1>1. Payload \in Nat
  BY TransportAssumption
<1>2. QED
  BY <1>1

(* A message of some bytes is cut into frames of Payload bytes, the last   *)
(* of which has what is left, and an empty one is sent in an empty frame.  *)
LEMMA Fragments ==
  ASSUME NEW len \in Nat, NEW f \in Nat \ {0}, f <= FragmentCount(len)
  PROVE  /\ FragmentCount(len) \in Nat \ {0}
         /\ (f - 1) * Payload \in 0 .. len
         /\ (f - 1) * Payload + Payload = f * Payload
         /\ f < FragmentCount(len) => f * Payload < len
         /\ f = FragmentCount(len) => len <= f * Payload
<1> DEFINE n == (len + Payload - 1) \div Payload
<1>0. Payload \in Nat /\ Payload >= 1
  BY TransportAssumption
<1>1. /\ n \in Nat /\ n * Payload <= len + Payload - 1 /\ len + Payload - 1 < n * Payload + Payload
  BY <1>0
<1>2. len # 0 => n >= 1
  BY <1>0, <1>1
<1>3. FragmentCount(len) = IF len = 0 THEN 1 ELSE n
  BY DEF FragmentCount
<1> HIDE DEF n
<1>4. FragmentCount(len) \in Nat \ {0}
  BY <1>1, <1>2, <1>3
<1>5. (f - 1) * Payload + Payload = f * Payload
  <2>1. f - 1 \in Nat /\ (f - 1) + 1 = f
    OBVIOUS
  <2>2. ((f - 1) + 1) * Payload = (f - 1) * Payload + Payload
    BY <2>1, Multiples
  <2>3. QED
    BY <2>1, <2>2
<1>6. CASE len = 0
  <2>1. f = 1 /\ FragmentCount(len) = 1
    BY <1>3, <1>6
  <2>2. (f - 1) * Payload = 0 /\ 1 * Payload = Payload
    BY <1>0, <2>1
  <2>3. QED
    BY <1>0, <1>4, <1>5, <1>6, <2>1, <2>2
<1>7. CASE len # 0
  <2>1. f \in Nat /\ f - 1 \in Nat /\ f <= n /\ FragmentCount(len) = n
    BY <1>3, <1>7
  <2>2. f * Payload \in Nat /\ f * Payload <= n * Payload /\ n * Payload \in Nat
    BY <1>1, <2>1, Multiples
  <2>3. (f - 1) * Payload \in Nat
    BY <2>1, Multiples
  <2>4. (f - 1) * Payload <= len
    BY <1>0, <1>1, <1>5, <2>2, <2>3
  <2>5. f < n => f * Payload < len
    <3>1. SUFFICES ASSUME f < n PROVE f * Payload < len
      OBVIOUS
    <3>2. f + 1 \in Nat /\ f + 1 <= n /\ f <= f + 1
      BY <1>1, <2>1, <3>1
    <3>3. (f + 1) * Payload <= n * Payload /\ (f + 1) * Payload = f * Payload + Payload
      BY <1>1, <2>1, <3>2, Multiples
    <3>4. QED
      BY <1>0, <1>1, <2>2, <3>3
  <2>6. f = n => len <= f * Payload
    BY <1>0, <1>1, <2>2
  <2>7. QED
    BY <1>4, <1>5, <2>1, <2>3, <2>4, <2>5, <2>6
<1>8. QED
  BY <1>6, <1>7

(* The first i bytes of a message and those after them.                    *)
LEMMA BytesFollow ==
  ASSUME NEW c \in Nat, NEW k \in Nat, NEW m \in Nat, NEW n \in Nat, m <= n
  PROVE  /\ Bytes(c, k, 1, m) \o Bytes(c, k, m + 1, n) = Bytes(c, k, 1, n)
         /\ Len(Bytes(c, k, 1, n)) = n /\ Bytes(c, k, 1, n) \in Text
<1> DEFINE a == Bytes(c, k, 1, m)
           b == Bytes(c, k, m + 1, n)
           t == Bytes(c, k, 1, n)
<1>1. a \in Text /\ b \in Text /\ t \in Text
  <2>1. 1 \in Nat \ {0} /\ m + 1 \in Nat \ {0} /\ m \in Int /\ n \in Int
    OBVIOUS
  <2>2. QED
    BY <2>1, BytesType, Zenon
<1>2. Len(a) = m /\ \A i \in 1 .. m : a[i] = <<c, k, i>>
  <2>1. a = [i \in 1 .. m |-> <<c, k, i>>]
    BY DEF Bytes
  <2>2. QED
    BY <1>1, <2>1 DEF Text
<1>3. Len(t) = n /\ \A i \in 1 .. n : t[i] = <<c, k, i>>
  <2>1. t = [i \in 1 .. n |-> <<c, k, i>>]
    BY DEF Bytes
  <2>2. QED
    BY <1>1, <2>1 DEF Text
<1>4. Len(b) = n - m /\ \A i \in 1 .. n - m : b[i] = <<c, k, m + i>>
  <2>1. b = [i \in 1 .. n - m |-> <<c, k, m + i>>]
    BY DEF Bytes
  <2>2. QED
    BY <1>1, <2>1 DEF Text
<1> HIDE DEF a, b, t
<1>5. a \o b \in Text /\ Len(a \o b) = n
  <2>1. a \o b \in Text /\ Len(a \o b) = Len(a) + Len(b)
    BY <1>1, ConcatProperties DEF Text
  <2>2. QED
    BY <1>2, <1>4, <2>1
<1>6. ASSUME NEW i \in 1 .. n PROVE (a \o b)[i] = t[i]
  <2>1. (a \o b)[i] = IF i <= m THEN a[i] ELSE b[i - m]
    BY <1>1, <1>2, <1>4 DEF Text
  <2>2. CASE i <= m
    BY <1>2, <1>3, <2>1, <2>2
  <2>3. CASE ~(i <= m)
    <3>1. i - m \in 1 .. n - m /\ m + (i - m) = i
      BY <2>3
    <3>2. QED
      BY <1>3, <1>4, <2>1, <2>3, <3>1
  <2>4. QED
    BY <2>2, <2>3
<1>7. a \o b = t
  BY <1>1, <1>3, <1>5, <1>6, SeqEqual DEF Text
<1>8. QED
  BY <1>1, <1>3, <1>7, Zenon DEF a, b, t

(* Every message has a frame.                                              *)
LEMMA FragmentSome ==
  \A len \in Nat : FragmentCount(len) \in Nat \ {0}
<1> SUFFICES ASSUME NEW len \in Nat PROVE FragmentCount(len) \in Nat \ {0}
  OBVIOUS
<1> DEFINE n == (len + Payload - 1) \div Payload
<1>0. Payload \in Nat /\ Payload >= 1
  BY TransportAssumption
<1>1. /\ n \in Nat /\ n * Payload <= len + Payload - 1 /\ len + Payload - 1 < n * Payload + Payload
  BY <1>0
<1>2. len # 0 => n >= 1
  BY <1>0, <1>1
<1>3. FragmentCount(len) = IF len = 0 THEN 1 ELSE n
  BY DEF FragmentCount
<1> HIDE DEF n
<1>4. QED
  BY <1>1, <1>2, <1>3

(* The frame that is posted is the next part of the message, or its rest.  *)
LEMMA DataExtends ==
  ASSUME Types, NEW s \in Peers, MessageOf(s), PostsData(s)
  PROVE  LET fr == DataFrame(s, snd[s].call, snd[s].k, snd[s].f) IN
         /\ fr \in DataFrames /\ Begun(s) \o fr.data \in Partial
         /\ \/ /\ fr.more /\ hist'[s].stream = hist[s].stream
               /\ Begun(s)' = Begun(s) \o fr.data
            \/ /\ ~fr.more /\ Begun(s)' = <<>>
               /\ hist'[s].stream = Append(hist[s].stream, Begun(s) \o fr.data)
               /\ Begun(s) \o fr.data = Message(s, snd[s].call, snd[s].k)
         /\ hist'[s].promised = hist[s].promised /\ hist'[s].lost = hist[s].lost
         /\ MessageOf(s)'
<1> DEFINE c == snd[s].call
           k == snd[s].k
           f == snd[s].f
           len == Script[s][c][k]
           start == (f - 1) * Payload
           end == IF start + Payload > len THEN len ELSE start + Payload
           fr == DataFrame(s, c, k, f)
<1>0. /\ snd \in [Peers -> Snd] /\ hist \in [Peers -> Hist] /\ snd[s].pc = "post"
      /\ c \in 1 .. Len(Script[s]) /\ k \in 1 .. Len(Script[s][c])
      /\ Script[s] \in Seq(Seq(Nat))
  BY ScriptType DEF Types, Typing, InCall, PostsData
<1>1. Script[s][c] \in Seq(Nat) /\ len \in Nat /\ c \in Nat /\ k \in Nat
  <2> HIDE DEF c, k
  <2>1. Script[s][c] \in Seq(Nat) /\ c \in Nat
    BY <1>0
  <2>2. k \in Nat /\ Script[s][c][k] \in Nat
    BY <1>0, <2>1
  <2>3. QED
    BY <2>1, <2>2, Zenon
<1>2. f \in Nat \ {0} /\ snd[s].pc \in {"drain", "acquire", "post"}
  BY <1>0, SndFields, Zenon
<1>3. /\ f <= FragmentCount(len) /\ \A i \in DOMAIN Script[s][c] : Script[s][c][i] <= MaxMessage
  BY <1>2, Zenon DEF MessageOf
<1>4. /\ FragmentCount(len) \in Nat \ {0} /\ start \in 0 .. len /\ start + Payload = f * Payload
      /\ f < FragmentCount(len) => f * Payload < len
      /\ f = FragmentCount(len) => len <= f * Payload
  <2> HIDE DEF len, f
  <2>1. QED
    BY <1>1, <1>2, <1>3, Fragments, Zenon
<1>5. len <= MaxMessage
  <2>1. k \in DOMAIN Script[s][c]
    BY <1>0, <1>1
  <2>2. QED
    BY <1>3, <2>1, Zenon
<1>6. fr \in DataFrames
  BY <1>0, DataPosted, Zenon
<1>d. /\ fr.data = Bytes(c, k, start + 1, end) /\ fr.more = (f < FragmentCount(len))
      /\ Begun(s) = Bytes(c, k, 1, start)
  <2>1. Begun(s) = Bytes(c, k, 1, start)
    BY <1>2, Zenon DEF Begun
  <2>2. fr = [kind |-> "data", data |-> Bytes(c, k, start + 1, end), more |-> More(f, len)]
    BY Zenon DEF DataFrame
  <2> HIDE DEF fr
  <2>3. QED
    BY <2>1, <2>2 DEF More
<1>n. /\ snd'[s] = NextFrame(s)
      /\ hist' = IF fr.more THEN hist
                 ELSE [hist EXCEPT ![s].stream = Append(@, Message(s, c, k))]
  <2>1. snd' = [snd EXCEPT ![s] = NextFrame(s)]
    BY Zenon DEF PostsData
  <2>2. snd'[s] = NextFrame(s)
    BY <1>0, <2>1, Zenon
  <2>3. QED
    BY <2>2, Zenon DEF PostsData
<1>x. /\ snd'[s].call = c
      /\ f # FragmentCount(len) => snd'[s].f = f + 1 /\ snd'[s].k = k /\ snd'[s].pc = "drain"
      /\ f = FragmentCount(len) =>
           /\ snd'[s].f = 1
           /\ snd'[s].k = k + 1 /\ (snd'[s].pc = "wait" \/ (snd'[s].pc = "drain" /\ k # Len(Script[s][c])))
  <2> DEFINE last == f = FragmentCount(len)
             owed == snd[s].owed + 1
             f1 == IF last THEN 1 ELSE f + 1
             k1 == IF last THEN k + 1 ELSE k
             pc1 == IF last /\ k = Len(Script[s][c]) THEN "wait" ELSE "drain"
  <2>1. snd'[s] = [snd[s] EXCEPT !.owed = owed, !.f = f1, !.k = k1, !.pc = pc1]
    BY <1>n, Zenon DEF NextFrame
  <2>2. snd[s] \in Snd
    BY <1>0, SndFields, Zenon
  <2> HIDE DEF f1, k1, pc1, owed
  <2>3. snd'[s].f = f1 /\ snd'[s].k = k1 /\ snd'[s].pc = pc1 /\ snd'[s].call = snd[s].call
    BY <2>1, <2>2 DEF Snd
  <2>4. QED
    <3> HIDE DEF last
    <3>1. CASE last
      BY <2>3, <3>1 DEF f1, k1, pc1, last
    <3>2. CASE ~last
      BY <2>3, <3>2 DEF f1, k1, pc1, last
    <3>3. QED
      BY <3>1, <3>2
<1>w. /\ hist'[s].promised = hist[s].promised /\ hist'[s].lost = hist[s].lost
      /\ fr.more => hist'[s].stream = hist[s].stream
      /\ ~fr.more => hist'[s].stream = Append(hist[s].stream, Message(s, c, k))
  <2> HIDE DEF fr, c, k
  <2>1. CASE fr.more
    BY <1>n, <2>1
  <2>2. CASE ~fr.more
    BY <1>0, <1>n, <2>2 DEF Hist
  <2>3. QED
    BY <2>1, <2>2
<1>e. /\ end \in Nat /\ start <= end /\ start \in Nat /\ end <= len
      /\ f < FragmentCount(len) => end = f * Payload
  <2> HIDE DEF len, start, f
  <2>0. Payload \in Nat
    BY TransportAssumption
  <2>1. f * Payload \in Int
    BY <1>4, <2>0
  <2>2. QED
    BY <1>1, <1>2, <1>4, <2>0, <2>1
<1>g. ~(f < FragmentCount(len)) => end = len /\ f = FragmentCount(len)
  <2> HIDE DEF len, start, f
  <2>0. Payload \in Nat
    BY TransportAssumption
  <2>1. f * Payload \in Int
    BY <1>4, <2>0
  <2>2. QED
    BY <1>1, <1>2, <1>3, <1>4, <2>0, <2>1
<1>7. /\ Begun(s) \o fr.data = Bytes(c, k, 1, end)
      /\ Len(Bytes(c, k, 1, end)) = end /\ Bytes(c, k, 1, end) \in Text
  <2> HIDE DEF start, end, c, k, fr
  <2>1. start \in Nat /\ end \in Nat /\ start <= end /\ c \in Nat /\ k \in Nat
    BY <1>1, <1>e, Zenon
  <2>2. /\ Bytes(c, k, 1, start) \o Bytes(c, k, start + 1, end) = Bytes(c, k, 1, end)
        /\ Len(Bytes(c, k, 1, end)) = end /\ Bytes(c, k, 1, end) \in Text
    BY <2>1, BytesFollow, Zenon
  <2>3. Begun(s) = Bytes(c, k, 1, start) /\ fr.data = Bytes(c, k, start + 1, end)
    BY <1>d, Zenon
  <2>4. QED
    BY <2>2, <2>3
<1>8. Begun(s) \o fr.data \in Partial
  <2>1. Len(Bytes(c, k, 1, end)) <= MaxMessage
    <3>1. \A x, y, z \in Nat : x <= y /\ y <= z => x <= z
      OBVIOUS
    <3>2. MaxMessage \in Nat
      BY TransportAssumption
    <3>3. end <= MaxMessage
      <4> HIDE DEF end, len
      <4>1. end \in Nat /\ len \in Nat /\ end <= len /\ len <= MaxMessage
        BY <1>1, <1>5, <1>e, Zenon
      <4>2. QED
        BY <3>1, <3>2, <4>1, Zenon
    <3>4. QED
      BY <1>7, <3>3, Zenon
  <2>2. QED
    BY <1>7, <2>1, Zenon DEF Partial
<1>9. CASE f < FragmentCount(len)
  <2>1. snd'[s].f = f + 1 /\ snd'[s].k = k /\ snd'[s].pc = "drain"
    <3>1. f # FragmentCount(len)
      BY <1>4, <1>9
    <3>2. QED
      BY <1>x, <3>1, Zenon
  <2>2. Begun(s)' = Bytes(c, k, 1, end)
    <3>1. Begun(s)' = Bytes(snd'[s].call, snd'[s].k, 1, (snd'[s].f - 1) * Payload)
      BY <2>1 DEF Begun
    <3>2. snd'[s].f - 1 = f
      BY <1>2, <2>1
    <3>3. end = f * Payload /\ snd'[s].call = c /\ snd'[s].k = k
      <4>1. end = f * Payload
        <5> HIDE DEF end, f, len
        <5>1. QED
          BY <1>9, <1>e, Zenon
      <4>2. QED
        BY <1>x, <2>1, <4>1, Zenon
    <3>4. (snd'[s].f - 1) * Payload = end
      BY <3>2, <3>3, Zenon
    <3> HIDE DEF end, c, k
    <3>5. QED
      BY <3>1, <3>3, <3>4, Zenon
  <2>3. MessageOf(s)'
    <3>1. f + 1 <= FragmentCount(len)
      BY <1>2, <1>4, <1>9
    <3>2. scene' = scene
      BY Zenon DEF PostsData
    <3>3. QED
      BY <1>3, <1>x, <2>1, <3>1, <3>2, Zenon DEF MessageOf, Script
  <2>4. QED
    BY <1>6, <1>7, <1>8, <1>9, <1>d, <1>w, <2>2, <2>3, Zenon
<1>10. CASE ~(f < FragmentCount(len))
  <2>1. /\ snd'[s].f = 1 /\ snd'[s].k = k + 1
        /\ snd'[s].pc = "wait" \/ (snd'[s].pc = "drain" /\ k # Len(Script[s][c]))
    BY <1>10, <1>g, <1>x, Zenon
  <2>2. Begun(s)' = <<>>
    BY <2>1, NothingBegunNext
  <2>3. Message(s, c, k) = Bytes(c, k, 1, end)
    BY <1>10, <1>g, Zenon DEF Message
  <2>4. MessageOf(s)'
    <3>1. scene' = scene
      BY Zenon DEF PostsData
    <3>2. CASE snd'[s].pc = "wait"
      BY <3>2 DEF MessageOf
    <3>3. CASE k # Len(Script[s][c])
      <4>1. k + 1 \in 1 .. Len(Script[s][c])
        <5> HIDE DEF c, k
        <5>1. QED
          BY <1>0, <1>1, <3>3
      <4>2. Script[s][c][k + 1] \in Nat
        <5> HIDE DEF c, k
        <5>1. QED
          BY <1>1, <4>1
      <4>3. 1 <= FragmentCount(Script[s][c][k + 1])
        <5>1. \A x \in Nat \ {0} : 1 <= x
          OBVIOUS
        <5>2. QED
          BY <4>2, <5>1, FragmentSome, Zenon
      <4>4. QED
        BY <1>3, <1>x, <2>1, <3>1, <4>3, Zenon DEF MessageOf, Script
    <3>4. QED
      BY <2>1, <3>2, <3>3, Zenon
  <2>5. ~fr.more
    BY <1>10, <1>d, Zenon
  <2>6. Begun(s) \o fr.data = Message(s, c, k)
    <3> HIDE DEF fr, c, k, end
    <3>1. QED
      BY <1>7, <2>3
  <2>7. hist'[s].stream = Append(hist[s].stream, Begun(s) \o fr.data)
    BY <1>w, <2>5, <2>6, Zenon
  <2> HIDE DEF fr, c, k
  <2>8. QED
    BY <1>6, <1>8, <1>w, <2>2, <2>4, <2>5, <2>6, <2>7, Zenon DEF fr, c, k
<1>11. QED
  BY <1>9, <1>10

(* A frame that is posted is the last on the way.                          *)
LEMMA PipePosted ==
  ASSUME Typing, NEW r \in Peers, LandedOfQueued(Peer(r)), Still(r),
         NEW fr \in Frames, nic' = Posted(Peer(r), fr)
  PROVE  Pipe(r)' = Append(Pipe(r), fr)
<1> DEFINE s == Peer(r)
           a == tp[r].recvQ
           b == nic[r].inbox
           c == nic[s].sq
           m == nic[s].landed
<1>s. s \in Peers /\ s # r
  BY ThePeers, Zenon
<1>1. /\ a \in FrameSeq /\ b \in FrameSeq /\ c \in FrameSeq /\ m \in 0 .. Len(c)
      /\ Pipe(r) = Lane(a, b, c, m)
  BY PipeFrames, Zenon
<1>2. nic'[s].sq = Append(c, fr) /\ nic'[s].landed = m
  BY <1>s DEF Posted, Nic, Typing
<1>3. tp'[r].recvQ = a /\ nic'[r].inbox = b
  BY Zenon DEF Still
<1>4. Pipe(r)' = Lane(a, b, Append(c, fr), m)
  BY <1>2, <1>3, Zenon DEF Pipe, Unlanded, Lane
<1> HIDE DEF a, b, c, m
<1>5. Lane(a, b, Append(c, fr), m) = Append(Lane(a, b, c, m), fr)
  BY <1>1, LanePosted, Zenon
<1>6. QED
  BY <1>1, <1>4, <1>5

(* The completion of a frame that has landed leaves the way alone.         *)
LEMMA PipeFreed ==
  ASSUME Typing, NEW r \in Peers, LandedOfQueued(Peer(r)), Still(r), DispatchSend(Peer(r))
  PROVE  Pipe(r)' = Pipe(r)
<1> DEFINE s == Peer(r)
           a == tp[r].recvQ
           b == nic[r].inbox
           c == nic[s].sq
           m == nic[s].landed
<1>s. s \in Peers
  BY ThePeers, Zenon
<1>1. /\ a \in FrameSeq /\ b \in FrameSeq /\ c \in FrameSeq /\ m \in 0 .. Len(c)
      /\ Pipe(r) = Lane(a, b, c, m)
  BY PipeFrames, Zenon
<1>2. nic'[s].sq = Tail(c) /\ nic'[s].landed = m - 1 /\ m > 0
  BY <1>s, DispatchSendEffect, Zenon
<1>3. tp'[r].recvQ = a /\ nic'[r].inbox = b
  BY Zenon DEF Still
<1>4. Pipe(r)' = Lane(a, b, Tail(c), m - 1)
  BY <1>2, <1>3, Zenon DEF Pipe, Unlanded, Lane
<1> HIDE DEF a, b, c, m
<1>5. m \in 1 .. Len(c)
  BY <1>1, <1>2
<1>6. QED
  BY <1>1, <1>4, <1>5, LaneFreed, Zenon

(* Nothing is posted, lands or completes.                                  *)
LEMMA PipeSame ==
  ASSUME NEW r, Still(r), nic'[Peer(r)].sq = nic[Peer(r)].sq,
         nic'[Peer(r)].landed = nic[Peer(r)].landed
  PROVE  Pipe(r)' = Pipe(r)
BY Zenon DEF Pipe, Unlanded, Still

(* A step of one end that changes nothing on its send queue and none of    *)
(* its messages keeps the stream to the other.                             *)
LEMMA StreamAlone ==
  ASSUME Typing, NEW r \in Peers, LandedOfQueued(Peer(r)), StreamOf(r), Still(r),
         SenderKeeps(Peer(r)), Pipe(r)' = Pipe(r)
  PROVE  StreamOf(r)'
BY StillReceives, StreamStays, Zenon

(* A data frame goes out.                                                  *)
LEMMA StreamPosted ==
  ASSUME Types, NEW r \in Peers, StreamOf(r), Still(r), MessageOf(Peer(r)),
         PostsData(Peer(r))
  PROVE  StreamOf(r)' /\ MessageOf(Peer(r))'
<1> DEFINE s == Peer(r)
           fr == DataFrame(s, snd[s].call, snd[s].k, snd[s].f)
<1>s. s \in Peers
  BY ThePeers, Zenon
<1>0. Typing /\ LandedOfQueued(s)
  BY <1>s, Zenon DEF Types
<1>1. /\ fr \in DataFrames /\ Begun(s) \o fr.data \in Partial
      /\ \/ /\ fr.more /\ hist'[s].stream = hist[s].stream
            /\ Begun(s)' = Begun(s) \o fr.data
         \/ /\ ~fr.more /\ Begun(s)' = <<>>
            /\ hist'[s].stream = Append(hist[s].stream, Begun(s) \o fr.data)
      /\ hist'[s].promised = hist[s].promised /\ hist'[s].lost = hist[s].lost
      /\ MessageOf(s)'
  BY <1>s, DataExtends, Zenon
<1>2. /\ snd[s].pc = "post" /\ CanPost(s) /\ nic' = Posted(s, fr)
      /\ scene' = scene /\ cls' = cls
  BY Zenon DEF PostsData
<1> HIDE DEF fr
<1>3. fr \in Frames
  BY <1>1 DEF Frames
<1>4. Pipe(r)' = Append(Pipe(r), fr)
  BY <1>0, <1>2, <1>3, PipePosted, Zenon
<1>5. ~Silent(s)
  BY <1>2, Zenon DEF Silent, CanPost
<1>6. Refused(s) => Refused(s)'
  BY <1>1, <1>2, Zenon DEF Refused, Ample
<1>7. ReceiverKeeps(r) /\ tp'[r].recvQ = tp[r].recvQ
  BY StillReceives, Zenon
<1>8. cls'[s] = cls[s]
  BY <1>2, Zenon
<1>9. StreamOf(r)'
  BY <1>0, <1>1, <1>4, <1>5, <1>6, <1>7, <1>8, DataFollows, Zenon
<1>10. QED
  BY <1>1, <1>9, Zenon

(* A credit or the fin goes out.                                           *)
LEMMA StreamControlled ==
  ASSUME Types, NEW r \in Peers, StreamOf(r), Still(r), SenderKeeps(Peer(r)),
         PromiseOf(Peer(r)), hist' = hist,
         \/ ReturnCredit(Peer(r))
         \/ CloseFin(Peer(r))
  PROVE  StreamOf(r)'
<1> DEFINE s == Peer(r)
<1>s. s \in Peers
  BY ThePeers, Zenon
<1>0. Typing /\ LandedOfQueued(s) /\ CreditInHand(s)
  BY <1>s, Zenon DEF Types
<1>7. ReceiverKeeps(r) /\ tp'[r].recvQ = tp[r].recvQ
  BY StillReceives, Zenon
<1>1. CASE ReturnCredit(s)
  <2>1. CASE nic' = Posted(s, CreditFrame(rcv[s].n))
    <3> DEFINE fr == CreditFrame(rcv[s].n)
    <3>1. rcv[s].n \in 1 .. Depth
      BY <1>0, <1>1, Zenon DEF ReturnCredit, CreditInHand
    <3>2. fr \in Frames /\ fr.kind = "credit"
      BY <3>1 DEF CreditFrame, Frames
    <3> HIDE DEF fr
    <3>3. Pipe(r)' = Append(Pipe(r), fr)
      BY <1>0, <2>1, <3>2, PipePosted, Zenon DEF fr
    <3>4. fr.kind # "data" /\ fr.kind # "fin"
      BY <3>2
    <3>5. QED
      BY <1>0, <1>7, <3>2, <3>3, <3>4, ControlFollows, Zenon
  <2>2. CASE nic' = nic
    BY <1>0, <2>2, PipeSame, StreamAlone, Zenon
  <2>3. QED
    BY <1>1, <2>1, <2>2, Zenon DEF ReturnCredit
<1>2. CASE CloseFin(s)
  <2>1. CASE nic' = Posted(s, FinFrame)
    <3>2. FinFrame \in Frames /\ FinFrame.kind = "fin"
      BY DEF FinFrame, Frames
    <3>3. Pipe(r)' = Append(Pipe(r), FinFrame)
      BY <1>0, <2>1, <3>2, PipePosted, Zenon
    <3>4. FinFrame.kind # "data"
      BY <3>2
    <3>5. cls'[s] # "open"
      BY <1>2, <1>s, <1>0 DEF CloseFin, Typing
    <3>6. hist[s].promised <= Len(hist[s].stream)
      <4>1. /\ hist[s].promised \in Nat /\ hist[s].stream \in Texts
        BY <1>0, <1>s, HistFields, Zenon DEF Typing
      <4>2. Len(hist[s].stream) \in Nat
        BY <4>1 DEF Texts
      <4>3. InFlight(s, "last") \in Nat
        BY <1>0, <1>s, QueueAmounts, WhatKinds, Zenon DEF Typing
      <4>4. QED
        BY <4>1, <4>2, <4>3 DEF PromiseOf
    <3>7. hist'[s].promised <= Len(hist[s].stream)
      BY <3>6, Zenon
    <3>8. QED
      BY <1>0, <1>7, <3>2, <3>3, <3>4, <3>5, <3>7, ControlFollows, Zenon
  <2>2. CASE nic' = nic
    BY <1>0, <2>2, PipeSame, StreamAlone, Zenon
  <2>3. QED
    BY <1>2, <2>1, <2>2, Zenon DEF CloseFin
<1>3. QED
  BY <1>1, <1>2

(* What any goroutine of the sending end does keeps the stream.            *)
LEMMA StreamSent ==
  ASSUME Types, NEW r \in Peers, StreamOf(r), SendSide(Peer(r)), MessageOf(Peer(r)),
         Moves(Peer(r)), scene' = scene
  PROVE  StreamOf(r)'
<1> DEFINE s == Peer(r)
<1>s. s \in Peers /\ s # r
  BY ThePeers, Zenon
<1>0. Typing /\ LandedOfQueued(s)
  BY <1>s, Zenon DEF Types
<1>t. Still(r)
  BY <1>0, <1>s, OthersStill, Zenon
<1>1. CASE SendCall(s)
  BY <1>0, <1>1, <1>s, <1>t, CallBegins, PipeSame, StreamAlone, Zenon
<1>2. CASE Sender(s)
  <2>1. CASE PostsData(s)
    BY <1>t, <2>1, StreamPosted, Zenon
  <2>2. CASE SenderKeeps(s) /\ nic' = nic
    BY <1>0, <1>t, <2>2, PipeSame, StreamAlone, Zenon
  <2>3. QED
    BY <1>2, <1>s, <2>1, <2>2, SenderRests, Zenon DEF SendSide
<1>3. CASE RecvCall(s) \/ Receiver(s) \/ Poller(s) \/ CloseCall(s) \/ Closer(s)
  <2>0. SenderKeeps(s)
    BY <1>0, <1>3, <1>s, OthersDoNotSend, Zenon
  <2>1. CASE ReturnCredit(s) \/ CloseFin(s)
    <3>1. hist' = hist
      BY <2>1, Zenon DEF ReturnCredit, CloseFin
    <3>2. QED
      BY <1>t, <2>0, <2>1, <3>1, StreamControlled, Zenon DEF SendSide
  <2>2. CASE DispatchSend(s)
    BY <1>0, <1>t, <2>0, <2>2, PipeFreed, StreamAlone, Zenon
  <2>3. CASE Takes(s)
    <3>1. "drain" \in RecvPcs /\ "try" \in RecvPcs
      BY DEF RecvPcs
    <3>2. nic'[s].sq = nic[s].sq /\ nic'[s].landed = nic[s].landed
      BY <1>0, <1>s, <2>3, <3>1, ConsumeEffect, DispatchRecvEffect, Zenon DEF Takes
    <3>3. QED
      BY <1>0, <1>t, <2>0, <3>2, PipeSame, StreamAlone, Zenon
  <2>4. CASE ~Takes(s) /\ ~DispatchSend(s) /\ ~ReturnCredit(s) /\ ~CloseFin(s)
    <3>1. nic' = nic \/ nic' = [nic EXCEPT ![s].ring = Depth] \/ nic' = [nic EXCEPT ![s].down = TRUE]
      <4>1. CASE RecvCall(s) \/ Receiver(s)
        BY <2>4, <4>1, Zenon DEF RecvCall, BringUp, Receiver, RecvDrain, RecvBlock, RecvTry, RecvEnd,
                                 RecvReturn, Takes
      <4>2. CASE Poller(s)
        BY <2>4, <4>2, Zenon DEF Poller, PushToken, DispatchError, PollLast, PollerExit, Takes
      <4>3. CASE CloseCall(s) \/ Closer(s)
        BY <2>4, <4>3, Zenon DEF CloseCall, Closer, CloseDone, TearDown
      <4>4. QED
        BY <1>3, <4>1, <4>2, <4>3
    <3>2. nic'[s].sq = nic[s].sq /\ nic'[s].landed = nic[s].landed
      BY <1>0, <1>s, <3>1 DEF Typing, Nic
    <3>3. QED
      BY <1>0, <1>t, <2>0, <3>2, PipeSame, StreamAlone, Zenon
  <2>5. QED
    BY <2>1, <2>2, <2>3, <2>4
<1>4. QED
  BY <1>1, <1>2, <1>3, Zenon DEF Moves

(* What lands is on the way to the receiver as before.                     *)
LEMMA StreamLands ==
  ASSUME Typing, NEW r \in Peers, LandedOfQueued(Peer(r)), StreamOf(r),
         NEW e \in Peers, Land(e), scene' = scene
  PROVE  StreamOf(r)'
<1> DEFINE s == Peer(r)
           a == tp[r].recvQ
           b == nic[r].inbox
           c == nic[s].sq
           m == nic[s].landed
<1>s. s \in Peers /\ s # r /\ (e = s \/ e = r)
  BY ThePeers
<1>0. nic \in [Peers -> Nic]
  BY DEF Typing
<1>1. /\ snd' = snd /\ rcv' = rcv /\ plr' = plr /\ cls' = cls /\ tp' = tp /\ hist' = hist
      /\ nic[e].landed < Len(nic[e].sq)
  BY Zenon DEF Land
<1>2. /\ nic'[e].sq = nic[e].sq /\ nic'[e].landed = nic[e].landed + 1
      /\ nic'[e].inbox = nic[e].inbox /\ nic'[e].down = nic[e].down
      /\ nic'[Peer(e)].sq = nic[Peer(e)].sq /\ nic'[Peer(e)].landed = nic[Peer(e)].landed
      /\ nic'[Peer(e)].inbox = Append(nic[Peer(e)].inbox, nic[e].sq[nic[e].landed + 1])
      /\ nic'[Peer(e)].down = nic[Peer(e)].down
  <2>1. Peer(e) \in Peers /\ Peer(e) # e
    BY ThePeers, Zenon
  <2>2. QED
    BY <1>0, <2>1 DEF Land, Nic
<1>3. nic'[s].down = nic[s].down /\ nic'[r].down = nic[r].down
  BY <1>2, <1>s, ThePeers, Zenon
<1>4. SenderKeeps(s)
  BY <1>1, <1>3, NotSending, Zenon
<1>5. ReceiverKeeps(r) /\ tp'[r].recvQ = tp[r].recvQ
  BY <1>1, <1>3, Zenon DEF ReceiverKeeps, Taken
<1>6. Pipe(r)' = Pipe(r)
  <2>1. CASE e = r
    <3>1. nic'[r].inbox = nic[r].inbox /\ nic'[s].sq = nic[s].sq /\ nic'[s].landed = nic[s].landed
      BY <1>2, <2>1, Zenon
    <3>2. QED
      BY <1>1, <3>1, Zenon DEF Pipe, Unlanded
  <2>2. CASE e = s
    <3>0. Peer(s) = r
      BY ThePeers, Zenon
    <3>1. /\ nic'[r].inbox = Append(b, c[m + 1]) /\ nic'[s].sq = c /\ nic'[s].landed = m + 1
          /\ m < Len(c)
      BY <1>1, <1>2, <2>2, <3>0, Zenon
    <3>2. /\ a \in FrameSeq /\ b \in FrameSeq /\ c \in FrameSeq /\ m \in 0 .. Len(c)
          /\ Pipe(r) = Lane(a, b, c, m)
      BY PipeFrames, Zenon
    <3>3. Pipe(r)' = Lane(a, Append(b, c[m + 1]), c, m + 1)
      BY <1>1, <3>1, Zenon DEF Pipe, Unlanded, Lane
    <3> HIDE DEF a, b, c, m
    <3>4. QED
      BY <3>1, <3>2, <3>3, LaneLanded, Zenon
  <2>3. QED
    BY <1>s, <2>1, <2>2
<1>7. QED
  BY <1>4, <1>5, <1>6, StreamStays, Zenon

-----------------------------------------------------------------------------
(* The invariant of the streams.                                           *)

(* The place of a sender in its message is all that MessageOf looks at.    *)
LEMMA PlaceStays ==
  ASSUME NEW s, MessageOf(s), scene' = scene, snd'[s].call = snd[s].call,
         snd'[s].k = snd[s].k, snd'[s].f = snd[s].f,
         \/ snd'[s].pc \notin {"drain", "acquire", "post"}
         \/ snd[s].pc \in {"drain", "acquire", "post"}
  PROVE  MessageOf(s)'
BY Zenon DEF MessageOf, Script

(* A sender that is not sending a message is nowhere in one.               *)
LEMMA NowhereNext ==
  ASSUME NEW s, snd'[s].pc \notin {"drain", "acquire", "post"}
  PROVE  MessageOf(s)'
BY Zenon DEF MessageOf

(* The sender stays within its message.                                    *)
LEMMA MessageStep ==
  ASSUME Types, NEW s \in Peers, MessageOf(s), [Next]_vars
  PROVE  MessageOf(s)'
<1>0. /\ snd \in [Peers -> Snd] /\ scene' = scene
  BY WhoMoves, Zenon DEF Types, Typing
<1>1. CASE snd'[s] = snd[s]
  BY <1>0, <1>1, PlaceStays, Zenon
<1>2. CASE SendCall(s)
  <2> DEFINE c == snd[s].call + 1
  <2>1. \/ snd' = [snd EXCEPT ![s].call = c] /\ snd[s].pc = "idle"
        \/ /\ snd' = [snd EXCEPT ![s] = [pc |-> "drain", call |-> c, k |-> 1, f |-> 1,
                                         owed |-> 0, err |-> FALSE]]
           /\ Script[s][c] # <<>>
           /\ ~ \E k \in 1 .. Len(Script[s][c]) : Script[s][c][k] > MaxMessage
           /\ c <= Len(Script[s])
    BY <1>2, Zenon DEF SendCall
  <2>2. CASE snd' = [snd EXCEPT ![s].call = c] /\ snd[s].pc = "idle"
    <3>1. snd'[s].pc = "idle"
      BY <1>0, <2>2 DEF Snd
    <3>2. QED
      BY <3>1, NowhereNext
  <2>3. CASE /\ snd' = [snd EXCEPT ![s] = [pc |-> "drain", call |-> c, k |-> 1, f |-> 1,
                                         owed |-> 0, err |-> FALSE]]
             /\ Script[s][c] # <<>>
             /\ ~ \E k \in 1 .. Len(Script[s][c]) : Script[s][c][k] > MaxMessage
             /\ c <= Len(Script[s])
    <3>1. snd'[s].call = c /\ snd'[s].k = 1 /\ snd'[s].f = 1
      BY <1>0, <2>3
    <3>2. Script[s] \in Seq(Seq(Nat)) /\ snd[s].call \in Nat
      BY <1>0, ScriptType, SndFields, Zenon DEF Types, Typing
    <3> DEFINE sizes == Script[s][c]
    <3>3. c \in 1 .. Len(Script[s])
      BY <2>3, <3>2
    <3>4. sizes \in Seq(Nat) /\ sizes # <<>>
      <4>1. \A i \in 1 .. Len(Script[s]) : Script[s][i] \in Seq(Nat)
        BY <3>2
      <4>2. QED
        BY <2>3, <3>3, <4>1, Zenon
    <3>5. \A k \in 1 .. Len(sizes) : ~ (sizes[k] > MaxMessage)
      BY <2>3, Zenon
    <3> HIDE DEF sizes, c
    <3>6. 1 \in DOMAIN sizes /\ sizes[1] \in Nat
      BY <3>4
    <3>7. 1 <= FragmentCount(sizes[1])
      <4>1. \A x \in Nat \ {0} : 1 <= x
        OBVIOUS
      <4>2. QED
        BY <3>6, <4>1, FragmentSome, Zenon
    <3>8. \A k \in DOMAIN sizes : sizes[k] <= MaxMessage
      <4>1. \A x \in Nat : ~(x > MaxMessage) => x <= MaxMessage
        BY TransportAssumption
      <4>2. \A k \in DOMAIN sizes : sizes[k] \in Nat /\ k \in 1 .. Len(sizes)
        BY <3>4
      <4>3. QED
        BY <3>5, <4>1, <4>2, Zenon
    <3>9. Script'[s][c] = sizes
      BY <1>0, Zenon DEF Script, sizes
    <3>10. QED
      BY <3>1, <3>7, <3>8, <3>9, Zenon DEF MessageOf
  <2>4. QED
    BY <2>1, <2>2, <2>3
<1>3. CASE Sender(s)
  <2>1. CASE PostsData(s)
    BY <2>1, DataExtends, Zenon
  <2>2. CASE \/ \E n : snd' = [snd EXCEPT ![s] = [[snd[s] EXCEPT !.owed = n] EXCEPT !.pc = "acquire"]]
                       /\ snd[s].pc = "drain"
             \/ snd' = [snd EXCEPT ![s].pc = "post"] /\ snd[s].pc = "acquire"
    <3>1. /\ snd'[s].call = snd[s].call /\ snd'[s].k = snd[s].k /\ snd'[s].f = snd[s].f
      BY <1>0, <2>2 DEF Snd
    <3>2. QED
      BY <1>0, <2>2, <3>1, PlaceStays, Zenon
  <2>3. CASE SendFails(s)
    <3>1. snd'[s].pc = "wait"
      BY <1>0, <2>3 DEF SendFails, Snd
    <3>2. QED
      BY <3>1, NowhereNext
  <2>4. CASE WaitToken(s) \/ SendReturn(s)
    <3>1. /\ snd[s].pc = "wait"
          /\ \/ \E n : snd' = [snd EXCEPT ![s] = [snd[s] EXCEPT !.owed = n]]
             \/ \E n : snd' = [snd EXCEPT ![s] = [snd[s] EXCEPT !.owed = n, !.err = TRUE]]
             \/ snd' = [snd EXCEPT ![s].pc = "idle"]
      BY <2>4, Zenon DEF WaitToken, SendReturn, Collected
    <3>2. snd'[s].pc \in {"wait", "idle"}
      <4>1. CASE \E n : snd' = [snd EXCEPT ![s] = [snd[s] EXCEPT !.owed = n]]
        BY <1>0, <3>1, <4>1 DEF Snd
      <4>2. CASE \E n : snd' = [snd EXCEPT ![s] = [snd[s] EXCEPT !.owed = n, !.err = TRUE]]
        BY <1>0, <3>1, <4>2 DEF Snd
      <4>3. CASE snd' = [snd EXCEPT ![s].pc = "idle"]
        BY <1>0, <4>3 DEF Snd
      <4>4. QED
        BY <3>1, <4>1, <4>2, <4>3
    <3>3. QED
      BY <3>2, NowhereNext
  <2>5. QED
    BY <1>3, <2>1, <2>2, <2>3, <2>4, Zenon
       DEF Sender, DrainSendDone, AcquireCredit, PostFrame, PostsData, Collected
<1>4. QED
  <2>1. ASSUME NEW e \in Peers, SendCall(e) \/ Sender(e), e # s
        PROVE  snd'[s] = snd[s]
    BY <2>1, OthersStill, Zenon DEF Moves, Types, Still
  <2>2. CASE UNCHANGED snd
    BY <1>1, <2>2, Zenon
  <2>3. QED
    BY <1>1, <1>2, <1>3, <2>1, <2>2, WhoMoves, Zenon

(* The poller stays within its last batch.                                 *)
LEMMA BatchStep ==
  ASSUME Types, NEW r \in Peers, BatchOf(r), [Next]_vars
  PROVE  BatchOf(r)'
<1>0. plr \in [Peers -> Plr] /\ Typing
  BY DEF Types, Typing
<1>1. CASE plr'[r].recvs = plr[r].recvs /\ plr'[r].final = plr[r].final
  BY <1>1, Zenon DEF BatchOf
<1>2. CASE SendCall(r) \/ RecvCall(r) \/ PushToken(r) \/ DispatchError(r) \/ PollerExit(r)
  <2>1. plr' = plr \/ \E pc : plr' = [plr EXCEPT ![r].pc = pc]
    BY <1>2, Zenon DEF SendCall, RecvCall, StartPoller, PushToken, DispatchError, PollerExit
  <2>2. plr'[r].recvs = plr[r].recvs /\ plr'[r].final = plr[r].final
    BY <1>0, <2>1 DEF Plr
  <2>3. QED
    BY <1>1, <2>2
<1>3. CASE DispatchSend(r)
  <2>1. \E n, pc : plr' = [plr EXCEPT ![r] = [[plr[r] EXCEPT !.sends = n] EXCEPT !.pc = pc]]
    BY <1>3, Zenon DEF DispatchSend
  <2>2. plr'[r].recvs = plr[r].recvs /\ plr'[r].final = plr[r].final
    BY <1>0, <2>1 DEF Plr
  <2>3. QED
    BY <1>1, <2>2
<1>4. CASE PollLast(r)
  <2>1. \E a, b : plr' = [plr EXCEPT ![r] = [pc |-> "poll", final |-> TRUE, sends |-> a, recvs |-> b]]
    BY <1>4, Zenon DEF PollLast
  <2>2. plr'[r].final
    BY <1>0, <2>1
  <2>3. QED
    BY <2>2, Zenon DEF BatchOf
<1>5. CASE DispatchRecv(r)
  <2>1. /\ plr'[r].final = plr[r].final /\ (tp[r].closed => plr[r].recvs > 0)
        /\ plr'[r].recvs = IF tp[r].closed THEN plr[r].recvs - 1 ELSE plr[r].recvs
    BY <1>0, <1>5, DispatchRecvRest, Zenon
  <2>2. CASE tp[r].closed
    <3>1. plr[r].recvs # 0
      BY <2>1, <2>2
    <3>2. QED
      BY <2>1, <3>1, Zenon DEF BatchOf
  <2>3. CASE ~tp[r].closed
    BY <1>1, <2>1, <2>3
  <2>4. QED
    BY <2>2, <2>3
<1>6. QED
  <2>1. ASSUME NEW e \in Peers, SendCall(e) \/ RecvCall(e) \/ Poller(e), e # r
        PROVE  plr'[r] = plr[r]
    BY <1>0, <2>1, OthersStill, Zenon DEF Moves, Still
  <2>2. CASE plr'[r] = plr[r]
    BY <1>1, <2>2, Zenon
  <2>3. CASE SendCall(r) \/ RecvCall(r) \/ Poller(r)
    BY <1>2, <1>3, <1>4, <1>5, <2>3, Zenon DEF Poller
  <2>4. CASE UNCHANGED plr
    BY <2>2, <2>4, Zenon
  <2>5. QED
    BY <2>1, <2>2, <2>3, <2>4, WhoMoves, Zenon

(* Every step keeps every stream.                                          *)
LEMMA StreamStep ==
  ASSUME IInv, NEW r \in Peers, StreamOf(r), BatchOf(r), MessageOf(Peer(r)), [Next]_vars
  PROVE  StreamOf(r)'
<1> DEFINE s == Peer(r)
<1>s. s \in Peers /\ \A e \in Peers : e = r \/ e = s
  BY ThePeers
<1>0. Types /\ Typing /\ LandedOfQueued(s) /\ SendSide(s) /\ scene' = scene
  BY <1>s, IInvTypes, WhoMoves, Zenon DEF Types, IInv
<1>1. CASE Moves(r)
  BY <1>0, <1>1, StreamReceived, Zenon
<1>2. CASE Moves(s)
  BY <1>0, <1>2, StreamSent, Zenon
<1>3. CASE \E e \in Peers : Land(e)
  BY <1>0, <1>3, StreamLands, Zenon
<1>4. CASE UNCHANGED vars
  <2>1. /\ SenderKeeps(s)
    BY <1>4, Zenon DEF vars, SenderKeeps, Begun, Silent, Refused, Ample
  <2>2. ReceiverKeeps(r) /\ tp'[r].recvQ = tp[r].recvQ /\ Pipe(r)' = Pipe(r)
    BY <1>4, Zenon DEF vars, ReceiverKeeps, Taken, Pipe, Unlanded
  <2>3. QED
    BY <1>0, <2>1, <2>2, StreamStays, Zenon
<1>5. QED
  BY <1>1, <1>2, <1>3, <1>4, <1>s, NextCases, Zenon DEF Moves

(* At the start the streams are empty.                                     *)
LEMMA StreamInit == Init => StreamInv
<1> SUFFICES ASSUME Init, NEW r \in Peers PROVE StreamOf(r) /\ MessageOf(r) /\ BatchOf(r)
  BY Zenon DEF StreamInv
<1> DEFINE s == Peer(r)
<1>s. s \in Peers
  BY ThePeers, Zenon
<1>1. MessageOf(r) /\ BatchOf(r)
  BY DEF Init, MessageOf, BatchOf
<1>2. /\ tp[r].recvQ = <<>> /\ tp[r].reasm = <<>> /\ ~tp[r].peerFin
      /\ nic[r].inbox = <<>> /\ nic[s].sq = <<>> /\ nic[s].landed = 0
      /\ hist[r].got = <<>> /\ rcv[r].out = <<>> /\ hist[s].stream = <<>>
      /\ snd[s].pc = "idle"
  BY <1>s DEF Init
<1>3. Pipe(r) = <<>> /\ Taken(r) = <<>>
  <2>1. SubSeq(<<>>, 0 + 1, Len(<<>>)) = <<>> /\ <<>> \o <<>> = <<>> /\ <<>> \o <<>> \o <<>> = <<>>
    OBVIOUS
  <2>2. QED
    BY <1>2, <2>1, Zenon DEF Pipe, Unlanded, Taken
<1>4. IsPrefix(Taken(r), hist[s].stream)
  <2>1. Len(<<>>) <= Len(<<>>)
    OBVIOUS
  <2>2. QED
    BY <1>2, <1>3, <2>1, Zenon DEF IsPrefix
<1>5. InStep(r, [i \in 0 .. 0 |-> 0], [i \in 0 .. 0 |-> <<>>])
  <2> DEFINE done == [i \in 0 .. 0 |-> 0]
             part == [i \in 0 .. 0 |-> <<>>]
  <2>1. done \in [0 .. 0 -> 0 .. 0] /\ done[0] = 0 /\ part[0] = <<>> /\ part \in [0 .. 0 -> Partial]
    BY NoPart
  <2> HIDE DEF done, part
  <2>2. Len(<<>>) = 0 /\ 1 .. 0 = {}
    OBVIOUS
  <2>3. Walk(<<>>, <<>>, done, part)
    BY <2>1, <2>2, Zenon DEF Walk
  <2>4. Begun(s) = <<>>
    BY <1>2, NothingBegun
  <2>5. InStep(r, done, part)
    BY <1>2, <1>3, <2>1, <2>2, <2>3, <2>4, Zenon DEF InStep
  <2>6. QED
    BY <2>5, Zenon DEF done, part
<1>6. QED
  BY <1>1, <1>4, <1>5, Zenon DEF StreamOf

(* The streams are kept in every reachable state.                          *)
THEOREM StreamsAreKept == Spec => []StreamInv
<1>1. IInv /\ StreamInv /\ [Next]_vars => StreamInv'
  <2> SUFFICES ASSUME IInv, StreamInv, [Next]_vars, NEW r \in Peers
               PROVE  StreamOf(r)' /\ MessageOf(r)' /\ BatchOf(r)'
    BY Zenon DEF StreamInv
  <2>1. Types /\ Peer(r) \in Peers
    BY IInvTypes, ThePeers, Zenon
  <2>2. QED
    BY <2>1, StreamStep, MessageStep, BatchStep, Zenon DEF StreamInv
<1>2. QED
  BY <1>1, StreamInit, InductiveInvariant, PTL DEF Spec

(* conn_linux.go:271 "RecvMsg blocks until a full message arrives and      *)
(* returns it": what an end has received, returned or not, is what its     *)
(* peer sent first, whole and in order.                                    *)
THEOREM TakenIsPrefix ==
  Spec => [](\A r \in Peers : Whole(r) => IsPrefix(Taken(r), hist[Peer(r)].stream))
<1>1. StreamInv => \A r \in Peers : Whole(r) => IsPrefix(Taken(r), hist[Peer(r)].stream)
  BY Zenon DEF StreamInv, StreamOf
<1>2. QED
  BY <1>1, StreamsAreKept, PTL

-----------------------------------------------------------------------------
(* The receiving ends: what a receiver holds, what its application has     *)
(* been told, and when it gets every frame.                                *)

(* Where a flush leads the receiver.                                       *)
LEMMA FlushPlace ==
  ASSUME rcv \in [Peers -> Rcv(scene.calls)], NEW e \in Peers, NEW n \in Nat,
         NEW next \in RecvPcs, NEW out \in Texts, Flush(e, n, next, out)
  PROVE  /\ next # "credit" => Place(e)' = next
         /\ rcv'[e].out = out /\ rcv'[e].call = rcv[e].call /\ rcv'[e].rest = rcv[e].rest
<1>1. /\ n > 0 => /\ rcv'[e].pc = "credit" /\ rcv'[e].then = next
      /\ n = 0 => rcv'[e].pc = next
      /\ rcv'[e].out = out
  <2>1. rcv \in [Peers -> Rcv(scene.calls)]
    OBVIOUS
  <2>2. QED
    BY <2>1, FlushShape
<1>2. n > 0 \/ n = 0
  OBVIOUS
<1>3. next # "credit" => Place(e)' = next
  BY <1>1, <1>2, Zenon DEF Place
<1>4. rcv[e] \in Rcv(scene.calls)
  OBVIOUS
<1>5. rcv'[e].call = rcv[e].call /\ rcv'[e].rest = rcv[e].rest
  <2>1. \/ rcv' = [rcv EXCEPT ![e] = [rcv[e] EXCEPT !.pc = "credit", !.then = next, !.n = n, !.out = out]]
        \/ rcv' = [rcv EXCEPT ![e] = [rcv[e] EXCEPT !.pc = next, !.out = out]]
    BY Zenon DEF Flush
  <2>2. QED
    BY <1>4, <2>1 DEF Rcv
<1>6. QED
  BY <1>1, <1>3, <1>5

(* Where a receiver goes that has taken a frame.                           *)
LEMMA ConsumePlace ==
  ASSUME Typing, NEW e \in Peers, NEW more \in RecvPcs \ {"credit"}, ConsumeFrame(e, more)
  PROVE  LET fr    == Head(tp[e].recvQ)
             bytes == tp[e].reasm \o fr.data
             over  == Len(bytes) > MaxMessage
         IN  \/ Place(e)' = "return"
             \/ fr.more /\ ~over /\ Place(e)' = more
             \/ rcv[e].call.how = "batch" /\ ~over /\ ~fr.more /\ Place(e)' \in {"try", "end"}
<1> DEFINE r == rcv[e]
           t == tp[e]
           fr == Head(t.recvQ)
           bytes == t.reasm \o fr.data
           over == Len(bytes) > MaxMessage
           done  == ~over /\ ~fr.more
           out   == IF done THEN Append(r.out, bytes) ELSE r.out
           next  == IF over THEN "return"
                    ELSE IF fr.more THEN more
                    ELSE IF r.call.how # "batch" THEN "return"
                    ELSE IF Len(out) < r.call.n THEN "try" ELSE "end"
           owed  == t.pending + 1
           full  == owed >= CreditFlushThreshold
<1>0. rcv \in [Peers -> Rcv(scene.calls)] /\ tp \in [Peers -> Tp]
  BY DEF Typing
<1>1. bytes \in Text
  BY ConsumeTakes, Zenon
<1>2. out \in Texts
  <2>1. r.out \in Texts
    BY <1>0, RcvFields, Zenon
  <2>2. Append(r.out, bytes) \in Texts
    <3> HIDE DEF r, bytes
    <3>1. QED
      BY <1>1, <2>1 DEF Texts
  <2>3. QED
    BY <2>1, <2>2, Zenon
<1>3. next \in RecvPcs /\ next # "credit"
  BY DEF RecvPcs
<1>4. owed \in Nat /\ 0 \in Nat
  BY <1>0, TpFields
<1>5. CASE nic[e].down
  <2>1. rcv' = [rcv EXCEPT ![e].pc = "return"]
    BY <1>5, Zenon DEF ConsumeFrame
  <2>2. rcv'[e].pc = "return"
    BY <1>0, <2>1 DEF Rcv
  <2>3. QED
    BY <2>2 DEF Place
<1>6. CASE ~nic[e].down
  <2>1. Flush(e, IF full THEN owed ELSE 0, next, out)
    BY <1>6, Zenon DEF ConsumeFrame
  <2>2. Place(e)' = next
    <3> DEFINE n == IF full THEN owed ELSE 0
    <3>1. n \in Nat
      BY <1>4
    <3> HIDE DEF next, out, n
    <3>2. QED
      BY <1>0, <1>2, <1>3, <2>1, <3>1, FlushPlace, Zenon DEF n
  <2>3. \/ next = "return"
        \/ fr.more /\ ~over /\ next = more
        \/ rcv[e].call.how = "batch" /\ ~over /\ ~fr.more /\ next \in {"try", "end"}
    <3> DEFINE fits == Len(out) < r.call.n
    <3> HIDE DEF fr, bytes, out, over, fits, r
    <3>1. QED
      BY DEF fits, r
  <2> HIDE DEF next
  <2>4. QED
    BY <2>2, <2>3, Zenon
<1>7. QED
  BY <1>5, <1>6

(* What a receiver holds, in the state after a step.                       *)
LEMMA HandsAre ==
  ASSUME NEW e \in Peers, scene' = scene,
         Place(e)' \in {"idle", "drain", "block", "stop"} => rcv'[e].out = <<>>,
         Place(e)' \in {"try", "end"} => rcv'[e].call.how = "batch",
         Place(e)' # "idle" => rcv'[e].call \in scene.calls,
         rcv'[e].call.how # "batch" => Len(rcv'[e].out) <= 1
  PROVE  HandsOf(e)'
BY Zenon DEF HandsOf

(* A receiver that has taken a frame holds what it may.                    *)
LEMMA HandsConsume ==
  ASSUME Typing, NEW e \in Peers, scene' = scene, HandsOf(e), Place(e) # "idle",
         NEW more \in {"drain", "try"}, ConsumeFrame(e, more),
         more = "drain" => Place(e) \in {"drain", "block"},
         more = "try" => Place(e) = "try"
  PROVE  HandsOf(e)'
<1> DEFINE fr    == Head(tp[e].recvQ)
           bytes == tp[e].reasm \o fr.data
           over  == Len(bytes) > MaxMessage
<1>0. more \in RecvPcs \ {"credit"} /\ more \in RecvPcs
  BY DEF RecvPcs
<1>1. /\ rcv'[e].call = rcv[e].call
      /\ nic[e].down => rcv'[e].out = rcv[e].out
      /\ ~nic[e].down =>
           rcv'[e].out = IF over \/ fr.more THEN rcv[e].out ELSE Append(rcv[e].out, bytes)
  BY <1>0, ConsumeTakes, Zenon
<1>2. \/ Place(e)' = "return"
      \/ fr.more /\ ~over /\ Place(e)' = more
      \/ rcv[e].call.how = "batch" /\ ~over /\ ~fr.more /\ Place(e)' \in {"try", "end"}
  BY <1>0, ConsumePlace, Zenon
<1>3. rcv[e].out \in Texts /\ bytes \in Text
  BY <1>0, RcvFields, ConsumeTakes, Zenon DEF Typing
<1> HIDE DEF fr, bytes, over
<1>4. rcv[e].call.how # "batch" => rcv[e].out = <<>>
  BY Zenon DEF HandsOf
<1>5. rcv'[e].call.how # "batch" => Len(rcv'[e].out) <= 1
  <2>1. Len(<<>>) <= 1 /\ \A x : Len(Append(<<>>, x)) <= 1
    OBVIOUS
  <2>2. QED
    BY <1>1, <1>4, <2>1, Zenon
<1>6. rcv'[e].call \in scene.calls
  BY <1>1, Zenon DEF HandsOf
<1>7. Place(e)' \in {"idle", "drain", "block", "stop"} => rcv'[e].out = <<>>
  BY <1>1, <1>2, Zenon DEF HandsOf
<1>8. Place(e)' \in {"try", "end"} => rcv'[e].call.how = "batch"
  BY <1>1, <1>2, Zenon DEF HandsOf
<1>9. QED
  BY <1>5, <1>6, <1>7, <1>8, HandsAre, Zenon

(* Every step leaves the receivers with what they may hold.                *)
LEMMA HandsStep ==
  ASSUME Types, NEW r \in Peers, RecvSide(r), HandsOf(r), [Next]_vars
  PROVE  HandsOf(r)'
<1>0. /\ rcv \in [Peers -> Rcv(scene.calls)] /\ scene' = scene /\ Typing
      /\ rcv[r] \in Rcv(scene.calls) /\ rcv[r].out \in Texts
      /\ tp[r].pending \in Nat
  BY WhoMoves, RcvFields, TpFields, Zenon DEF Types, Typing
<1>1. CASE rcv'[r] = rcv[r]
  BY <1>0, <1>1, Zenon DEF HandsOf, Place
<1>2. CASE RecvCall(r)
  <2>1. PICK c \in scene.calls : \E pc \in {"return", "drain"} :
          rcv' = [rcv EXCEPT ![r] = [rcv[r] EXCEPT !.pc = pc, !.call = c]]
    BY <1>2, Zenon DEF RecvCall
  <2>2. rcv[r].pc = "idle"
    BY <1>2, Zenon DEF RecvCall
  <2>3. rcv[r].out = <<>>
    BY <2>2, Zenon DEF HandsOf, Place
  <2>4. rcv'[r].call = c /\ rcv'[r].out = <<>> /\ rcv'[r].pc \in {"return", "drain"}
    BY <1>0, <2>1, <2>3 DEF Rcv
  <2>5. Place(r)' \in {"return", "drain"}
    BY <2>4 DEF Place
  <2>6. Len(<<>>) <= 1
    OBVIOUS
  <2>7. rcv'[r].call \in scene.calls
    BY <2>1, <2>4, Zenon
  <2>8. ~(Place(r)' \in {"try", "end"})
    BY <2>5
  <2>9. QED
    BY <1>0, <2>4, <2>6, <2>7, <2>8, HandsAre, Zenon
<1>3. CASE \/ RecvDrain(r) /\ ConsumeFrame(r, "drain")
           \/ RecvBlock(r) /\ ConsumeFrame(r, "drain")
  <2>1. Place(r) \in {"drain", "block"} /\ Place(r) # "idle"
    BY <1>3 DEF RecvDrain, RecvBlock, Place
  <2>2. QED
    BY <1>0, <1>3, <2>1, HandsConsume
<1>4. CASE RecvTry(r) /\ ConsumeFrame(r, "try")
  <2>1. Place(r) = "try"
    BY <1>4 DEF RecvTry, Place
  <2>2. QED
    BY <1>0, <1>4, <2>1, HandsConsume
<1>5. CASE \/ rcv[r].pc = "drain" /\ Flush(r, tp[r].pending, "block", rcv[r].out)
           \/ rcv[r].pc = "end" /\ Flush(r, tp[r].pending, "return", rcv[r].out)
  <2>0. "block" \in RecvPcs /\ "return" \in RecvPcs /\ "block" # "credit" /\ "return" # "credit"
    BY DEF RecvPcs
  <2>1. /\ rcv'[r].out = rcv[r].out /\ rcv'[r].call = rcv[r].call
        /\ Place(r)' \in {"block", "return"}
        /\ Place(r)' = "block" => rcv[r].pc = "drain"
    BY <1>0, <1>5, <2>0, FlushPlace, Zenon
  <2>2. Place(r)' \in {"idle", "drain", "block", "stop"} => rcv[r].pc = "drain"
    BY <2>1
  <2>3. ~(Place(r)' \in {"try", "end"})
    BY <2>1
  <2>4. Place(r) = rcv[r].pc /\ Place(r) # "idle"
    BY <1>5 DEF Place
  <2>5. rcv[r].pc = "drain" => rcv'[r].out = <<>>
    BY <2>1, <2>4, Zenon DEF HandsOf
  <2>6. rcv'[r].call \in scene.calls /\ (rcv'[r].call.how # "batch" => Len(rcv'[r].out) <= 1)
    BY <2>1, <2>4, Zenon DEF HandsOf
  <2>7. QED
    BY <1>0, <2>2, <2>3, <2>5, <2>6, HandsAre, Zenon
<1>6. CASE \/ rcv[r].pc = "block" /\ rcv' = [rcv EXCEPT ![r].pc = "stop"]
           \/ rcv[r].pc = "try" /\ rcv' = [rcv EXCEPT ![r].pc = "end"]
  <2>1. /\ rcv'[r].out = rcv[r].out /\ rcv'[r].call = rcv[r].call
        /\ \/ rcv[r].pc = "block" /\ rcv'[r].pc = "stop"
           \/ rcv[r].pc = "try" /\ rcv'[r].pc = "end"
    BY <1>0, <1>6 DEF Rcv
  <2>2. \/ Place(r) = "block" /\ Place(r)' = "stop"
        \/ Place(r) = "try" /\ Place(r)' = "end"
    BY <2>1 DEF Place
  <2>3. QED
    BY <1>0, <2>1, <2>2, Zenon DEF HandsOf
<1>7. CASE ReturnCredit(r)
  <2>1. /\ rcv[r].pc = "credit"
        /\ rcv' = [rcv EXCEPT ![r] = [rcv[r] EXCEPT !.pc = rcv[r].then, !.then = "idle", !.n = 0]]
    BY <1>7, Zenon DEF ReturnCredit
  <2>2. /\ rcv'[r].out = rcv[r].out /\ rcv'[r].call = rcv[r].call /\ rcv'[r].pc = rcv[r].then
    BY <1>0, <2>1 DEF Rcv
  <2>3. rcv[r].then # "credit"
    BY <2>1 DEF RecvSide
  <2>4. Place(r)' = Place(r)
    BY <2>1, <2>2, <2>3, Zenon DEF Place
  <2>5. QED
    BY <1>0, <2>2, <2>4, Zenon DEF HandsOf
<1>8. CASE RecvReturn(r)
  <2>1. \/ rcv' = [rcv EXCEPT ![r] = [rcv[r] EXCEPT !.pc = "idle", !.out = <<>>]]
        \/ \E x : rcv' = [rcv EXCEPT ![r] = [rcv[r] EXCEPT !.pc = "idle", !.out = <<>>, !.rest = x]]
    BY <1>8, Zenon DEF RecvReturn
  <2>2. rcv'[r].pc = "idle" /\ rcv'[r].out = <<>>
    BY <1>0, <2>1 DEF Rcv
  <2>3. Place(r)' = "idle"
    BY <2>2 DEF Place
  <2>4. Len(<<>>) <= 1 /\ ~("idle" \in {"try", "end"})
    OBVIOUS
  <2>5. QED
    BY <1>0, <2>2, <2>3, <2>4, HandsAre, Zenon
<1>9. CASE Receiver(r)
  BY <1>3, <1>4, <1>5, <1>6, <1>7, <1>8, <1>9, Zenon
     DEF Receiver, RecvDrain, RecvBlock, RecvTry, RecvEnd
<1>10. QED
  <2>1. ASSUME NEW e \in Peers, RecvCall(e) \/ Receiver(e), e # r
        PROVE  rcv'[r] = rcv[r]
    BY <1>0, <2>1, OthersStill, Zenon DEF Moves, Still
  <2>2. CASE UNCHANGED rcv
    BY <1>1, <2>2, Zenon
  <2>3. QED
    BY <1>1, <1>2, <1>9, <2>1, <2>2, WhoMoves, Zenon

(* A receiver is told of the end of the stream.                            *)
MeetsEnd(r) ==
  /\ rcv[r].pc = "block" /\ AtEOF(r)
  /\ rcv'  = [rcv EXCEPT ![r].pc = "stop"]
  /\ hist' = [hist EXCEPT ![r].eof = TRUE]
  /\ UNCHANGED <<scene, snd, plr, cls, tp, nic>>

(* What a receiver returned is recorded when it returns, and no step but   *)
(* MeetsEnd ends a stream.                                                 *)
LEMMA RecordStays ==
  ASSUME Typing, NEW r \in Peers, [Next]_vars
  PROVE  \/ RecvReturn(r) \/ MeetsEnd(r)
         \/ /\ hist'[r].got = hist[r].got /\ hist'[r].eof = hist[r].eof
            /\ hist'[r].read = hist[r].read
<1>0. hist \in [Peers -> Hist]
  BY DEF Typing
<1>1. CASE hist'[r] = hist[r]
  BY <1>1, Zenon
<1>2. CASE Sender(r)
  <2>1. \/ hist' = hist
        \/ \E x : \/ hist' = [hist EXCEPT ![r].stream = x]  \/ hist' = [hist EXCEPT ![r].lost = x]
                  \/ hist' = [hist EXCEPT ![r].promised = x]
    BY <1>2, Zenon DEF Sender, DrainSendDone, AcquireCredit, PostFrame, WaitToken, SendReturn
  <2>2. QED
    BY <1>0, <2>1 DEF Hist
<1>3. CASE Receiver(r)
  <2>1. RecvReturn(r) \/ MeetsEnd(r) \/ hist' = hist
    BY <1>3, Zenon DEF Receiver, RecvDrain, RecvBlock, RecvTry, RecvEnd, ReturnCredit, ConsumeFrame,
                       MeetsEnd
  <2>2. QED
    BY <2>1, Zenon
<1>4. CASE SendCall(r) \/ RecvCall(r) \/ Poller(r) \/ CloseCall(r) \/ Closer(r)
  <2>1. hist' = hist
    <3>1. CASE SendCall(r) \/ RecvCall(r) \/ CloseCall(r) \/ Closer(r)
      BY <3>1, Zenon DEF SendCall, RecvCall, CloseCall, Closer, CloseFin, CloseDone, TearDown
    <3>2. CASE Poller(r)
      BY <3>2, Zenon DEF Poller, DispatchSend, PushToken, DispatchRecv, DispatchError, PollLast,
                         PollerExit
    <3>3. QED
      BY <1>4, <3>1, <3>2
  <2>2. QED
    BY <2>1, Zenon
<1>5. CASE Moves(r)
  BY <1>2, <1>3, <1>4, <1>5, Zenon DEF Moves
<1>6. CASE \E e \in Peers : Moves(e) /\ e # r
  <2>1. hist'[r] = hist[r]
    BY <1>6, OthersStill, Zenon DEF Still
  <2>2. QED
    BY <1>1, <2>1
<1>7. CASE (\E e \in Peers : Land(e)) \/ UNCHANGED vars
  <2>1. hist' = hist
    BY <1>7, Zenon DEF Land, vars
  <2>2. QED
    BY <2>1, Zenon
<1>8. QED
  BY <1>5, <1>6, <1>7, NextCases, Zenon DEF Moves

(* Once told of the fin, the transport stays told.                         *)
LEMMA FinStays ==
  ASSUME Typing, NEW r \in Peers, [Next]_vars
  PROVE  tp[r].peerFin => tp'[r].peerFin
<1>1. CASE Moves(r)
  <2>1. CASE EndAlone(r)
    BY <2>1, Zenon DEF EndAlone
  <2>2. CASE ConsumeFrame(r, "drain") \/ ConsumeFrame(r, "try")
    <3>1. "drain" \in RecvPcs /\ "try" \in RecvPcs
      BY DEF RecvPcs
    <3>2. QED
      BY <2>2, <3>1, ConsumeTakes, Zenon
  <2>3. CASE DispatchRecv(r)
    <3>1. \/ tp'[r].peerFin = tp[r].peerFin \/ tp'[r].peerFin = TRUE \/ tp' = tp
      BY <2>3, DispatchRecvRest, Zenon
    <3>2. QED
      BY <3>1, Zenon
  <2>4. QED
    BY <1>1, <2>1, <2>2, <2>3, OtherStepsAlone, Zenon DEF Takes
<1>2. CASE \E e \in Peers : Moves(e) /\ e # r
  <2>1. tp'[r] = tp[r]
    BY <1>2, OthersStill, Zenon DEF Still
  <2>2. QED
    BY <2>1, Zenon
<1>3. CASE (\E e \in Peers : Land(e)) \/ UNCHANGED vars
  BY <1>3, Zenon DEF Land, vars
<1>4. QED
  BY <1>1, <1>2, <1>3, NextCases, Zenon DEF Moves

(* A receiver that has stopped, or whose application does not receive,     *)
(* stays where it is.                                                      *)
LEMMA StoppedStays ==
  ASSUME Typing, NEW r \in Peers, [Next]_vars,
         rcv[r].pc = "stop" \/ (rcv[r].pc = "idle" /\ r \notin scene.receivers)
  PROVE  rcv'[r] = rcv[r] /\ ~RecvReturn(r) /\ ~MeetsEnd(r)
<1>1. ~RecvCall(r)
  <2>1. "stop" # "idle"
    OBVIOUS
  <2>2. QED
    BY <2>1, Zenon DEF RecvCall
<1>2. ~Receiver(r) /\ ~MeetsEnd(r)
  <2>1. rcv[r].pc \notin {"drain", "block", "try", "end", "credit", "return"}
    OBVIOUS
  <2>2. QED
    BY <2>1, Zenon DEF Receiver, RecvDrain, RecvBlock, RecvTry, RecvEnd, ReturnCredit, RecvReturn,
                       MeetsEnd
<1>3. ASSUME NEW e \in Peers, RecvCall(e) \/ Receiver(e) PROVE rcv'[r] = rcv[r]
  BY <1>1, <1>2, <1>3, OthersStill, Zenon DEF Moves, Still
<1>4. QED
  BY <1>2, <1>3, WhoMoves, Zenon DEF Receiver

(* Every step keeps what an end has been told and given.                   *)
LEMMA EndStep ==
  ASSUME Typing, NEW r \in Peers, EndOf(r), [Next]_vars
  PROVE  EndOf(r)'
<1>0. /\ scene' = scene /\ rcv \in [Peers -> Rcv(scene.calls)] /\ hist \in [Peers -> Hist]
  BY WhoMoves, Zenon DEF Typing
<1>1. hist'[r].eof => rcv'[r].pc = "stop" /\ tp'[r].peerFin
  <2>1. CASE hist[r].eof
    <3>1. rcv[r].pc = "stop" /\ tp[r].peerFin
      BY <2>1, Zenon DEF EndOf
    <3>2. QED
      BY <3>1, StoppedStays, FinStays, Zenon
  <2>2. CASE MeetsEnd(r)
    <3>1. rcv'[r].pc = "stop"
      BY <1>0, <2>2 DEF MeetsEnd, Rcv
    <3>2. QED
      BY <2>2, <3>1, Zenon DEF MeetsEnd, AtEOF
  <2>3. CASE RecvReturn(r) /\ ~hist[r].eof
    <3>1. \/ \E g : hist' = [hist EXCEPT ![r].got = g]
          \/ \E g, x : hist' = [hist EXCEPT ![r] = [hist[r] EXCEPT !.got = g, !.read = x]]
      BY <2>3, Zenon DEF RecvReturn
    <3>2. hist'[r].eof = hist[r].eof
      <4>1. CASE \E g : hist' = [hist EXCEPT ![r].got = g]
        BY <1>0, <4>1 DEF Hist
      <4>2. CASE \E g, x : hist' = [hist EXCEPT ![r] = [hist[r] EXCEPT !.got = g, !.read = x]]
        BY <1>0, <4>2 DEF Hist
      <4>3. QED
        BY <3>1, <4>1, <4>2
    <3>3. QED
      BY <2>3, <3>2, Zenon
  <2>4. QED
    BY <2>1, <2>2, <2>3, RecordStays, Zenon
<1>2. r \notin scene.receivers =>
        rcv'[r].pc = "idle" /\ hist'[r].got = <<>> /\ ~hist'[r].eof
  <2>1. SUFFICES ASSUME r \notin scene.receivers
                 PROVE  rcv'[r].pc = "idle" /\ hist'[r].got = <<>> /\ ~hist'[r].eof
    OBVIOUS
  <2>2. rcv[r].pc = "idle" /\ hist[r].got = <<>> /\ ~hist[r].eof
    BY <2>1, Zenon DEF EndOf
  <2>3. QED
    BY <2>1, <2>2, StoppedStays, RecordStays, Zenon
<1>3. QED
  BY <1>0, <1>1, <1>2, Zenon DEF EndOf

(* With room for every frame returnCredit fails on a queue pair that is    *)
(* gone, and on no other.                                                  *)
LEMMA AmpleCredits ==
  ASSUME Types, NEW s \in Peers, SlotsOf(s), Ample, tp[s].creditFree > 0, ~CanPost(s)
  PROVE  nic[s].down
<1>0. /\ nic[s].sq \in Seq(Frames) /\ tp[s].sendFree \in Nat /\ tp[s].creditFree \in Nat
      /\ nic \in [Peers -> Nic] /\ scene.sqCap \in Nat
  BY NicFields, TpFields, ScriptType, Zenon DEF Types, Typing, FrameSeq
<1>1. Queued(s, "data") \in Nat /\ Queued(s, "ctl") \in Nat
  BY <1>0, QueueAmounts, WhatKinds, Zenon
<1>2. Len(nic[s].sq) <= Queued(s, "data") + Queued(s, "ctl")
  BY <1>0, QueueLength, Zenon DEF Queued
<1>3. /\ tp[s].sendFree + Queued(s, "data") <= Depth
      /\ tp[s].creditFree + Queued(s, "ctl") <= CreditSlots
  BY Zenon DEF SlotsOf
<1>4. Depth \in Nat /\ CreditSlots \in Nat
  BY DepthAssumption, TransportAssumption
<1>5. Depth + CreditSlots <= scene.sqCap
  BY <1>0, <1>4 DEF Ample
<1>6. Len(nic[s].sq) \in Nat
  BY <1>0
<1>7. \A l, d, c, f, g, cap, dd, cc \in Nat :
        l <= d + c /\ f + d <= dd /\ g + c <= cc /\ dd + cc <= cap /\ g > 0 => l < cap
  OBVIOUS
<1>8. Len(nic[s].sq) < scene.sqCap
  BY <1>0, <1>1, <1>2, <1>3, <1>4, <1>5, <1>6, <1>7
<1>9. QED
  BY <1>8, Zenon DEF CanPost

(* An end that does not close stays open, and loses no frame.              *)
LEMMA OpenStep ==
  ASSUME Types, NEW r \in Peers, SlotsOf(r), RecvSide(r), OpenOf(r), [Next]_vars
  PROVE  OpenOf(r)'
<1>0. /\ scene' = scene /\ Typing /\ plr \in [Peers -> Plr] /\ tp \in [Peers -> Tp]
  BY WhoMoves, Zenon DEF Types, Typing
<1>1. SUFFICES ASSUME r \notin scene.closers
               PROVE  /\ cls'[r] = "open"
                      /\ Ample => ~plr'[r].final /\ (tp'[r].closed => plr'[r].pc = "exit")
  BY <1>0, Zenon DEF OpenOf, Ample
<1>2. /\ cls[r] = "open"
      /\ Ample => ~plr[r].final /\ (tp[r].closed => plr[r].pc = "exit")
  BY <1>1, Zenon DEF OpenOf
<1>3. ~CloseCall(r) /\ ~Closer(r)
  <2>1. cls[r] \notin {"fin", "close", "teardown"}
    BY <1>2
  <2>2. QED
    BY <1>1, <2>1, Zenon DEF CloseCall, Closer, CloseFin, CloseDone, TearDown
<1>4. CASE plr'[r] = plr[r] /\ tp'[r].closed = tp[r].closed /\ cls'[r] = cls[r]
  BY <1>2, <1>4, Zenon
<1>5. CASE \E e \in Peers : Moves(e) /\ e # r
  BY <1>4, <1>5, <1>0, OthersStill, Zenon DEF Still
<1>6. CASE (\E e \in Peers : Land(e)) \/ UNCHANGED vars
  <2>1. plr' = plr /\ tp' = tp /\ cls' = cls
    BY <1>6, Zenon DEF Land, vars
  <2>2. QED
    BY <1>4, <2>1, Zenon
<1>7. CASE Moves(r)
  <2>c. cls'[r] = "open"
    <3>1. cls' = cls
      BY <1>3, <1>7, Zenon DEF Moves, SendCall, Sender, DrainSendDone, AcquireCredit, PostFrame,
         WaitToken, SendReturn, RecvCall, Receiver, RecvDrain, RecvBlock, RecvTry, RecvEnd,
         ReturnCredit, RecvReturn, ConsumeFrame, Poller, DispatchSend, PushToken, DispatchRecv,
         DispatchError, PollLast, PollerExit
    <3>2. QED
      BY <1>2, <3>1, Zenon
  <2> SUFFICES ASSUME Ample
               PROVE  ~plr'[r].final /\ (tp'[r].closed => plr'[r].pc = "exit")
    BY <2>c, Zenon
  <2>0. ~plr[r].final /\ (tp[r].closed => plr[r].pc = "exit")
    BY <1>2, Zenon
  <2>1. CASE SendCall(r) \/ RecvCall(r)
    <3>1. /\ tp' = [tp EXCEPT ![r].up = TRUE]
          /\ plr' = plr \/ plr' = [plr EXCEPT ![r].pc = IF plr[r].pc = "off" THEN "poll" ELSE plr[r].pc]
      BY <2>1, Zenon DEF SendCall, RecvCall, BringUp, StartPoller
    <3>2. tp'[r].closed = tp[r].closed
      BY <1>0, <3>1 DEF Tp
    <3>3. plr'[r].final = plr[r].final /\ (plr[r].pc = "exit" => plr'[r].pc = "exit")
      BY <1>0, <3>1 DEF Plr
    <3>4. QED
      BY <2>0, <3>2, <3>3, Zenon
  <2>2. CASE Sender(r) \/ RecvDrain(r) \/ RecvBlock(r) \/ RecvTry(r) \/ RecvEnd(r) \/ RecvReturn(r)
    <3>1. plr' = plr
      BY <2>2, Zenon DEF Sender, DrainSendDone, AcquireCredit, PostFrame, WaitToken, SendReturn,
                         RecvDrain, RecvBlock, RecvTry, RecvEnd, RecvReturn, ConsumeFrame
    <3>2. tp'[r].closed = tp[r].closed
      <4>1. CASE ConsumeFrame(r, "drain") \/ ConsumeFrame(r, "try")
        <5>1. "drain" \in RecvPcs /\ "try" \in RecvPcs
          BY DEF RecvPcs
        <5>2. QED
          BY <1>0, <4>1, <5>1, ConsumeEffect, Zenon
      <4>2. CASE ~ConsumeFrame(r, "drain") /\ ~ConsumeFrame(r, "try")
        <5>1. \/ tp' = tp
              \/ \E n : \/ tp' = [tp EXCEPT ![r].credits = n]  \/ tp' = [tp EXCEPT ![r].sendFree = n]
                        \/ tp' = [tp EXCEPT ![r].sendDone = n] \/ tp' = [tp EXCEPT ![r].pending = n]
          BY <2>2, <4>2, Zenon DEF Sender, DrainSendDone, AcquireCredit, PostFrame, WaitToken,
                           SendReturn, RecvDrain, RecvBlock, RecvTry, RecvEnd, RecvReturn
        <5>2. QED
          BY <1>0, <5>1 DEF Tp
      <4>3. QED
        BY <4>1, <4>2
    <3>3. QED
      BY <2>0, <3>1, <3>2, Zenon
  <2>3. CASE ReturnCredit(r)
    <3>0. plr' = plr
      BY <2>3, Zenon DEF ReturnCredit
    <3>1. ~nic[r].down
      <4>1. cls[r] # "closed"
        BY <1>2
      <4>2. QED
        BY <4>1, Zenon DEF RecvSide
    <3>2. tp[r].creditFree > 0 => CanPost(r)
      BY <3>1, AmpleCredits, Zenon
    <3>3. tp' = [tp EXCEPT ![r].creditFree = @ - 1] \/ tp' = tp
      BY <2>3, <3>2, Zenon DEF ReturnCredit
    <3>4. tp'[r].closed = tp[r].closed
      BY <1>0, <3>3 DEF Tp
    <3>5. QED
      BY <2>0, <3>0, <3>4, Zenon
  <2>4. CASE Poller(r)
    <3>1. plr[r].pc = "poll" \/ plr[r].pc = "token"
      BY <2>4, Zenon DEF Poller, DispatchSend, PushToken, DispatchRecv, DispatchError, PollLast,
                         PollerExit
    <3>2. ~tp[r].closed
      BY <2>0, <3>1
    <3>3. CASE DispatchError(r)
      <4>1. plr' = [plr EXCEPT ![r].pc = "exit"]
        BY <3>3, Zenon DEF DispatchError
      <4>2. plr'[r].pc = "exit" /\ plr'[r].final = plr[r].final
        BY <1>0, <4>1 DEF Plr
      <4>3. QED
        BY <2>0, <4>2, Zenon
    <3>4. CASE DispatchRecv(r)
      BY <1>0, <2>0, <3>2, <3>4, DispatchRecvRest, Zenon
    <3>5. CASE DispatchSend(r) \/ PushToken(r)
      <4>1. \E n : \/ tp' = [tp EXCEPT ![r].sendFree = n] \/ tp' = [tp EXCEPT ![r].creditFree = n]
                   \/ tp' = [tp EXCEPT ![r].sendDone = n] \/ tp' = tp
        BY <3>5, Zenon DEF DispatchSend, FreeSlot, PushToken
      <4>2. \/ \E n, pc : plr' = [plr EXCEPT ![r] = [[plr[r] EXCEPT !.sends = n] EXCEPT !.pc = pc]]
            \/ plr' = [plr EXCEPT ![r].pc = "poll"]
        <5>1. CASE DispatchSend(r)
          BY <5>1, Zenon DEF DispatchSend
        <5>2. CASE PushToken(r)
          BY <5>2, Zenon DEF PushToken
        <5>3. QED
          BY <3>5, <5>1, <5>2
      <4>3. tp'[r].closed = tp[r].closed
        BY <1>0, <4>1 DEF Tp
      <4>4. plr'[r].final = plr[r].final
        BY <1>0, <4>2 DEF Plr
      <4>5. QED
        BY <2>0, <3>2, <4>3, <4>4, Zenon
    <3>6. ~PollLast(r) /\ ~PollerExit(r)
      BY <3>2, Zenon DEF PollLast, PollerExit
    <3>7. QED
      BY <2>4, <3>3, <3>4, <3>5, <3>6, Zenon DEF Poller
  <2>5. QED
    BY <1>3, <1>7, <2>1, <2>2, <2>3, <2>4, Zenon DEF Moves, Receiver
<1>8. QED
  BY <1>5, <1>6, <1>7, NextCases, Zenon DEF Moves

-----------------------------------------------------------------------------
(* Messages end to end: FlattenSeq, a choice of a recursive function, in   *)
(* terms of its values.                                                    *)

(* Induction, for a set in place of a predicate.                           *)
LEMMA NaturalInduction ==
  ASSUME NEW S \in SUBSET Nat, 0 \in S, \A n \in S : n + 1 \in S
  PROVE  S = Nat
<1> SUFFICES ASSUME NEW m \in Nat, m \notin S PROVE FALSE
  OBVIOUS
<1> DEFINE T == {0 .. n : n \in Nat \ S}
           R == StrictSubsetOrdering(Nat)
<1>1. T # {} /\ T \subseteq FiniteSubsetsOf(Nat)
  <2>1. ASSUME NEW n \in Nat PROVE 0 .. n \in FiniteSubsetsOf(Nat)
    BY FS_Interval DEF FiniteSubsetsOf
  <2> QED
    BY <2>1
<1>2. IsWellFoundedOn(R, FiniteSubsetsOf(Nat))
  BY FS_StrictSubsetOrderingWellFounded
<1>3. PICK x \in T : \A y \in T : ~(<<y, x>> \in R)
  <2> HIDE DEF T, R
  <2> QED
    BY <1>1, <1>2, WFMin, Zenon
<1>4. PICK n \in Nat \ S : x = 0 .. n
  OBVIOUS
<1>5. n # 0 /\ n - 1 \in Nat \ S
  BY <1>4
<1>6. 0 .. n - 1 \in T
  BY <1>5
<1>7. /\ 0 .. n - 1 \subseteq 0 .. n /\ 0 .. n - 1 # 0 .. n
      /\ 0 .. n - 1 \in SUBSET Nat /\ 0 .. n \in SUBSET Nat
  BY <1>4, <1>5
<1>8. <<0 .. n - 1, 0 .. n>> \in R
  BY <1>7 DEF StrictSubsetOrdering
<1> QED
  BY <1>3, <1>4, <1>6, <1>8

(* g[i] is the concatenation of the first i of the sequences in s, for i   *)
(* up to n.                                                                *)
Joins(s, n, g) ==
  \A i \in 1 .. n : g[i] = IF i = 1 THEN s[i] ELSE g[i - 1] \o s[i]

(* There is one such g.                                                    *)
LEMMA JoinsOnce ==
  ASSUME NEW s, NEW n \in Nat, NEW g, Joins(s, n, g), NEW h, Joins(s, n, h)
  PROVE  \A i \in 1 .. n : g[i] = h[i]
<1> DEFINE S == {k \in Nat : k \in 1 .. n => g[k] = h[k]}
<1>1. 0 \in S
  OBVIOUS
<1>2. ASSUME NEW k \in S PROVE k + 1 \in S
  <2>1. SUFFICES ASSUME k + 1 \in 1 .. n PROVE g[k + 1] = h[k + 1]
    OBVIOUS
  <2>2. k \in Nat /\ (k \in 1 .. n => g[k] = h[k]) /\ (k + 1) - 1 = k
    OBVIOUS
  <2>3. /\ g[k + 1] = IF k + 1 = 1 THEN s[k + 1] ELSE g[k] \o s[k + 1]
        /\ h[k + 1] = IF k + 1 = 1 THEN s[k + 1] ELSE h[k] \o s[k + 1]
    BY <2>1, <2>2, Zenon DEF Joins
  <2>4. k + 1 # 1 => k \in 1 .. n
    BY <2>1, <2>2
  <2>5. QED
    BY <2>2, <2>3, <2>4, Zenon
<1> HIDE DEF S
<1>3. S \in SUBSET Nat
  BY DEF S
<1>4. S = Nat
  BY <1>1, <1>2, <1>3, NaturalInduction, Zenon
<1>5. QED
  BY <1>4 DEF S

(* In particular its last value is one.                                    *)
LEMMA JoinsLast ==
  ASSUME NEW s, NEW n \in Nat, NEW g, Joins(s, n, g), NEW h, Joins(s, n, h), n # 0
  PROVE  g[n] = h[n]
<1>1. \A i \in 1 .. n : g[i] = h[i]
  BY JoinsOnce, SMT
<1>2. QED
  BY <1>1

(* And there is one.                                                       *)
LEMMA JoinsExist ==
  ASSUME NEW T, NEW s \in Seq(Seq(T))
  PROVE  \E g \in [1 .. Len(s) -> Seq(T)] : Joins(s, Len(s), g)
<1> DEFINE S == {n \in Nat : n <= Len(s) => \E g \in [1 .. n -> Seq(T)] : Joins(s, n, g)}
<1>0. Len(s) \in Nat
  OBVIOUS
<1>1. 0 \in S
  <2>1. [i \in 1 .. 0 |-> <<>>] \in [1 .. 0 -> Seq(T)]
    OBVIOUS
  <2>2. Joins(s, 0, [i \in 1 .. 0 |-> <<>>])
    BY DEF Joins
  <2>3. QED
    BY <2>1, <2>2
<1>2. ASSUME NEW n \in S PROVE n + 1 \in S
  <2>0. n \in Nat /\ n + 1 \in Nat
    OBVIOUS
  <2>1. SUFFICES ASSUME n + 1 <= Len(s)
                 PROVE  \E g \in [1 .. n + 1 -> Seq(T)] : Joins(s, n + 1, g)
    BY <2>0
  <2>2. PICK g \in [1 .. n -> Seq(T)] : Joins(s, n, g)
    BY <1>0, <2>0, <2>1
  <2> DEFINE last == IF n = 0 THEN s[n + 1] ELSE g[n] \o s[n + 1]
             h == [i \in 1 .. n + 1 |-> IF i = n + 1 THEN last ELSE g[i]]
  <2>3. s[n + 1] \in Seq(T)
    BY <1>0, <2>0, <2>1
  <2>4. last \in Seq(T)
    <3>1. CASE n = 0
      BY <2>3, <3>1
    <3>2. CASE n # 0
      <4>1. g[n] \in Seq(T)
        BY <2>0, <3>2
      <4>2. g[n] \o s[n + 1] \in Seq(T)
        BY <2>3, <4>1, ConcatProperties, Zenon
      <4>3. QED
        BY <3>2, <4>2
    <3>3. QED
      BY <3>1, <3>2
  <2>5. h \in [1 .. n + 1 -> Seq(T)]
    <3> HIDE DEF last
    <3>1. QED
      BY <2>0, <2>4
  <2>6. Joins(s, n + 1, h)
    <3>1. SUFFICES ASSUME NEW i \in 1 .. n + 1
                   PROVE  h[i] = IF i = 1 THEN s[i] ELSE h[i - 1] \o s[i]
      BY Zenon DEF Joins
    <3>2. CASE i = n + 1
      <4>1. h[i] = last
        BY <3>2
      <4>2. n # 0 => h[i - 1] = g[n] /\ i # 1
        BY <2>0, <3>2
      <4>3. n = 0 => i = 1
        BY <3>2
      <4> HIDE DEF h
      <4>4. QED
        BY <3>2, <4>1, <4>2, <4>3, Zenon
    <3>3. CASE i # n + 1
      <4>1. i \in 1 .. n
        BY <2>0, <3>3
      <4>2. h[i] = g[i] /\ (i # 1 => h[i - 1] = g[i - 1])
        <5>1. i # n + 1 /\ i \in 1 .. n + 1
          BY <3>3
        <5>2. i # 1 => i - 1 # n + 1 /\ i - 1 \in 1 .. n + 1
          BY <2>0, <4>1
        <5> HIDE DEF last
        <5>3. \A j \in 1 .. n + 1 : j # n + 1 => h[j] = g[j]
          OBVIOUS
        <5> HIDE DEF h
        <5>4. QED
          BY <5>1, <5>2, <5>3, Zenon
      <4>3. g[i] = IF i = 1 THEN s[i] ELSE g[i - 1] \o s[i]
        BY <2>2, <4>1, Zenon DEF Joins
      <4> HIDE DEF h
      <4>4. QED
        BY <4>2, <4>3, Zenon
    <3>4. QED
      BY <3>2, <3>3
  <2>7. QED
    BY <2>5, <2>6, Zenon
<1> HIDE DEF S
<1>3. S \in SUBSET Nat
  BY DEF S
<1>4. S = Nat
  BY <1>1, <1>2, <1>3, NaturalInduction, Zenon
<1>5. QED
  BY <1>0, <1>4 DEF S

(* FlattenSeq joins them all.                                              *)
LEMMA FlattenJoins ==
  ASSUME NEW T, NEW s \in Seq(Seq(T)), s # <<>>,
         NEW g \in [1 .. Len(s) -> Seq(T)], Joins(s, Len(s), g)
  PROVE  FlattenSeq(s) = g[Len(s)]
<1> DEFINE h == CHOOSE f : f = [i \in 1 .. Len(s) |-> IF i = 1 THEN s[i] ELSE f[i - 1] \o s[i]]
<1>0. Len(s) \in Nat /\ Len(s) # 0 /\ Len(s) \in 1 .. Len(s)
  OBVIOUS
<1>1. g = [i \in 1 .. Len(s) |-> IF i = 1 THEN s[i] ELSE g[i - 1] \o s[i]]
  <2>1. g = [i \in 1 .. Len(s) |-> g[i]]
    OBVIOUS
  <2>2. \A i \in 1 .. Len(s) : g[i] = IF i = 1 THEN s[i] ELSE g[i - 1] \o s[i]
    BY Zenon DEF Joins
  <2>3. QED
    BY <2>1, <2>2
<1>2. h = [i \in 1 .. Len(s) |-> IF i = 1 THEN s[i] ELSE h[i - 1] \o s[i]]
  BY <1>1
<1>3. FlattenSeq(s) = h[Len(s)]
  BY <1>0, Zenon DEF FlattenSeq
<1> HIDE DEF h
<1>4. Joins(s, Len(s), h)
  <2>1. ASSUME NEW i \in 1 .. Len(s)
        PROVE  h[i] = IF i = 1 THEN s[i] ELSE h[i - 1] \o s[i]
    <3>1. h[i] = [j \in 1 .. Len(s) |-> IF j = 1 THEN s[j] ELSE h[j - 1] \o s[j]][i]
      BY <1>2, Zenon
    <3>2. QED
      BY <3>1, Zenon
  <2>2. QED
    BY <2>1, Zenon DEF Joins
<1>5. h[Len(s)] = g[Len(s)]
  <2> DEFINE n == Len(s)
  <2>1. n \in Nat /\ n \in 1 .. n /\ Joins(s, n, g) /\ Joins(s, n, h)
    BY <1>0, <1>4
  <2> HIDE DEF n
  <2>2. PICK f : f = h
    OBVIOUS
  <2>3. Joins(s, n, f)
    BY <2>1, <2>2, Zenon
  <2>4. n \in Nat /\ Joins(s, n, g) /\ n # 0
    BY <2>1
  <2>6. g[n] = f[n]
    BY <2>3, <2>4, JoinsLast, Zenon
  <2>7. QED
    BY <2>2, <2>6, Zenon DEF n
<1>6. QED
  BY <1>3, <1>5

(* Joining the first of some sequences takes the first parts.              *)
LEMMA JoinsFewer ==
  ASSUME NEW T, NEW s \in Seq(Seq(T)), NEW g \in [1 .. Len(s) -> Seq(T)], Joins(s, Len(s), g),
         NEW a \in Seq(Seq(T)), a # <<>>, IsPrefix(a, s)
  PROVE  FlattenSeq(a) = g[Len(a)]
<1> DEFINE h == [i \in 1 .. Len(a) |-> g[i]]
<1>0. Len(a) \in Nat /\ Len(a) # 0 /\ Len(s) \in Nat
  OBVIOUS
<1>1. Len(a) <= Len(s) /\ \A i \in 1 .. Len(a) : a[i] = s[i]
  <2>1. a \in Seq(Seq(T)) /\ s \in Seq(Seq(T))
    OBVIOUS
  <2>2. QED
    BY <2>1, PrefixAt
<1>2. h \in [1 .. Len(a) -> Seq(T)]
  BY <1>0, <1>1
<1>3. Joins(a, Len(a), h)
  <2>1. SUFFICES ASSUME NEW i \in 1 .. Len(a)
                 PROVE  h[i] = IF i = 1 THEN a[i] ELSE h[i - 1] \o a[i]
    BY Zenon DEF Joins
  <2>2. i \in 1 .. Len(s) /\ a[i] = s[i] /\ h[i] = g[i] /\ (i # 1 => h[i - 1] = g[i - 1])
    BY <1>0, <1>1
  <2>3. g[i] = IF i = 1 THEN s[i] ELSE g[i - 1] \o s[i]
    BY <2>2, Zenon DEF Joins
  <2> HIDE DEF h
  <2>4. QED
    BY <2>2, <2>3, Zenon
<1>4. h[Len(a)] = g[Len(a)]
  BY <1>0
<1> HIDE DEF h
<1>5. FlattenSeq(a) = h[Len(a)]
  BY <1>2, <1>3, FlattenJoins, Zenon
<1>6. QED
  BY <1>4, <1>5

(* What is concatenated begins with what there was.                        *)
LEMMA PrefixOfConcat ==
  ASSUME NEW T, NEW a \in Seq(T), NEW b \in Seq(T), IsPrefix(a, b), NEW c \in Seq(T)
  PROVE  IsPrefix(a, b \o c)
<1>1. Len(a) <= Len(b) /\ \A i \in 1 .. Len(a) : a[i] = b[i]
  BY PrefixAt
<1>2. /\ b \o c \in Seq(T) /\ Len(b \o c) = Len(b) + Len(c)
      /\ \A i \in 1 .. Len(b) : (b \o c)[i] = b[i]
  OBVIOUS
<1>3. Len(a) \in Nat /\ Len(b) \in Nat /\ Len(c) \in Nat
  OBVIOUS
<1>4. Len(a) <= Len(b \o c) /\ \A i \in 1 .. Len(a) : a[i] = (b \o c)[i]
  <2>1. \A i \in 1 .. Len(a) : i \in 1 .. Len(b)
    BY <1>1, <1>3
  <2>2. Len(a) <= Len(b \o c)
    BY <1>1, <1>2, <1>3
  <2>3. QED
    BY <1>1, <1>2, <2>1, <2>2, Zenon
<1>5. QED
  BY <1>2, <1>4, PrefixAt, Zenon

(* A sequence is a prefix of itself, and so is the empty one of any.       *)
LEMMA PrefixOfItself ==
  ASSUME NEW T, NEW a \in Seq(T)
  PROVE  IsPrefix(a, a) /\ IsPrefix(<<>>, a)
BY DEF IsPrefix

(* To join more makes longer.                                              *)
LEMMA JoinsGrow ==
  ASSUME NEW T, NEW s \in Seq(Seq(T)), NEW g \in [1 .. Len(s) -> Seq(T)], Joins(s, Len(s), g),
         NEW i \in 1 .. Len(s), NEW j \in i .. Len(s)
  PROVE  IsPrefix(g[i], g[j])
<1> DEFINE S == {d \in Nat : i + d <= Len(s) => IsPrefix(g[i], g[i + d])}
<1>0. Len(s) \in Nat /\ i \in Nat /\ j \in Nat /\ i >= 1
  OBVIOUS
<1>1. 0 \in S
  <2>0. i + 0 = i
    BY <1>0
  <2>1. g[i] \in Seq(T) /\ g[i + 0] = g[i]
    BY <2>0
  <2>2. IsPrefix(g[i], g[i])
    BY <2>1, PrefixOfItself, Zenon
  <2>3. QED
    BY <2>1, <2>2
<1>2. ASSUME NEW d \in S PROVE d + 1 \in S
  <2>0. d \in Nat /\ d + 1 \in Nat
    OBVIOUS
  <2>1. SUFFICES ASSUME i + (d + 1) <= Len(s) PROVE IsPrefix(g[i], g[i + (d + 1)])
    BY <2>0
  <2> DEFINE k == i + (d + 1)
  <2>2. k \in 1 .. Len(s) /\ k # 1 /\ k - 1 = i + d /\ k - 1 \in 1 .. Len(s) /\ i + d <= Len(s)
    BY <1>0, <2>0, <2>1
  <2>3. IsPrefix(g[i], g[i + d])
    BY <2>2
  <2> HIDE DEF k
  <2>5. g[i] \in Seq(T) /\ s[k] \in Seq(T)
    <3>1. \A t \in Seq(Seq(T)) : \A l \in 1 .. Len(t) : t[l] \in Seq(T)
      OBVIOUS
    <3>2. QED
      BY <2>2, <3>1
  <2>4. g[k] = g[k - 1] \o s[k]
    BY <2>2, Zenon DEF Joins
  <2>6. g[k - 1] \in Seq(T)
    BY <2>2
  <2>7. IsPrefix(g[i], g[k - 1])
    BY <2>2, <2>3, Zenon
  <2>8. IsPrefix(g[i], g[k])
    BY <2>4, <2>5, <2>6, <2>7, PrefixOfConcat
  <2>9. QED
    BY <2>8, Zenon DEF k
<1> HIDE DEF S
<1>3. S \in SUBSET Nat
  BY DEF S
<1>4. S = Nat
  BY <1>1, <1>2, <1>3, NaturalInduction, Zenon
<1>5. j - i \in S /\ i + (j - i) = j /\ j <= Len(s)
  BY <1>0, <1>4
<1>6. i + (j - i) <= Len(s) => IsPrefix(g[i], g[i + (j - i)])
  BY <1>5, Zenon DEF S
<1>7. QED
  BY <1>5, <1>6, Zenon

(* Flattened, a prefix is one.                                             *)
LEMMA FlattenPrefix ==
  ASSUME NEW T, NEW a \in Seq(Seq(T)), NEW b \in Seq(Seq(T)), IsPrefix(a, b)
  PROVE  IsPrefix(FlattenSeq(a), FlattenSeq(b)) /\ FlattenSeq(b) \in Seq(T)
<1>1. PICK g \in [1 .. Len(b) -> Seq(T)] : Joins(b, Len(b), g)
  BY JoinsExist, Zenon
<1>2. CASE b = <<>>
  <2>1. a = <<>>
    <3>1. Len(a) <= Len(b)
      BY Zenon DEF IsPrefix
    <3>2. Len(b) = 0 /\ Len(a) \in Nat
      BY <1>2
    <3>3. Len(a) = 0
      BY <3>1, <3>2
    <3>4. QED
      BY <3>3
  <2>2. FlattenSeq(<<>>) = <<>>
    <3>1. Len(<<>>) = 0
      OBVIOUS
    <3>2. QED
      BY <3>1, Zenon DEF FlattenSeq
  <2>3. <<>> \in Seq(T)
    OBVIOUS
  <2>4. QED
    BY <1>2, <2>1, <2>2, <2>3, PrefixOfItself, Zenon
<1>3. CASE b # <<>>
  <2>1. FlattenSeq(b) = g[Len(b)]
    BY <1>1, <1>3, FlattenJoins, Zenon
  <2>0. Len(b) \in 1 .. Len(b) /\ Len(a) \in Nat /\ Len(b) \in Nat
    BY <1>3
  <2>2. g[Len(b)] \in Seq(T)
    BY <2>0
  <2>3. CASE a = <<>>
    <3>1. FlattenSeq(a) = <<>>
      <4>1. Len(a) = 0
        BY <2>3
      <4>2. QED
        BY <2>3, <4>1, Zenon DEF FlattenSeq
    <3>2. QED
      BY <2>1, <2>2, <3>1, PrefixOfItself, Zenon
  <2>4. CASE a # <<>>
    <3>1. FlattenSeq(a) = g[Len(a)]
      BY <1>1, <2>4, JoinsFewer, Zenon
    <3>2. Len(a) <= Len(b)
      BY Zenon DEF IsPrefix
    <3>3. Len(a) \in 1 .. Len(b) /\ Len(b) \in Len(a) .. Len(b)
      BY <2>0, <2>4, <3>2
    <3>4. IsPrefix(g[Len(a)], g[Len(b)])
      BY <1>1, <3>3, JoinsGrow, Zenon
    <3>5. QED
      BY <2>1, <2>2, <3>1, <3>4, Zenon
  <2>5. QED
    BY <2>3, <2>4
<1>4. QED
  BY <1>2, <1>3

(* One more sequence is joined at the end.                                 *)
LEMMA FlattenMore ==
  ASSUME NEW T, NEW s \in Seq(Seq(T)), NEW m \in Seq(T)
  PROVE  FlattenSeq(Append(s, m)) = FlattenSeq(s) \o m
<1> DEFINE b == Append(s, m)
<1>1. /\ b \in Seq(Seq(T)) /\ Len(b) = Len(s) + 1 /\ b # <<>> /\ b[Len(b)] = m
      /\ Len(s) \in Nat /\ Len(b) \in 1 .. Len(b)
  OBVIOUS
<1>2. IsPrefix(s, b)
  <2>1. IsPrefix(s, s)
    <3>1. s \in Seq(Seq(T))
      OBVIOUS
    <3>2. QED
      BY <3>1, PrefixOfItself
  <2>2. QED
    BY <2>1, PrefixGrows
<1> HIDE DEF b
<1>3. PICK g \in [1 .. Len(b) -> Seq(T)] : Joins(b, Len(b), g)
  BY <1>1, JoinsExist, Zenon
<1>4. FlattenSeq(b) = g[Len(b)]
  BY <1>1, <1>3, FlattenJoins, Zenon
<1>5. g[Len(b)] = IF Len(b) = 1 THEN b[Len(b)] ELSE g[Len(b) - 1] \o b[Len(b)]
  BY <1>1, <1>3, Zenon DEF Joins
<1>6. CASE s = <<>>
  <2>1. FlattenSeq(s) = <<>>
    <3>1. Len(s) = 0
      BY <1>6
    <3>2. QED
      BY <1>6, <3>1, Zenon DEF FlattenSeq
  <2>2. Len(b) = 1 /\ <<>> \o m = m
    BY <1>1, <1>6
  <2>3. QED
    BY <1>1, <1>4, <1>5, <2>1, <2>2, Zenon DEF b
<1>7. CASE s # <<>>
  <2>1. FlattenSeq(s) = g[Len(s)]
    BY <1>1, <1>2, <1>3, <1>7, JoinsFewer, Zenon
  <2>2. Len(b) # 1 /\ Len(b) - 1 = Len(s)
    BY <1>1, <1>7
  <2>3. QED
    BY <1>1, <1>4, <1>5, <2>1, <2>2, Zenon DEF b
<1>8. QED
  BY <1>6, <1>7

-----------------------------------------------------------------------------
(* What Read has returned and what it keeps.                               *)

(* What a Read keeps for the next one changes when a call returns.         *)
LEMMA RestStays ==
  ASSUME Typing, NEW r \in Peers, [Next]_vars
  PROVE  RecvReturn(r) \/ rcv'[r].rest = rcv[r].rest
<1>0. /\ rcv \in [Peers -> Rcv(scene.calls)] /\ rcv[r].out \in Texts /\ tp[r].pending \in Nat
  BY RcvFields, TpFields, Zenon DEF Typing
<1>1. CASE rcv'[r] = rcv[r]
  BY <1>1, Zenon
<1>2. CASE RecvCall(r)
  <2>1. \E pc, c : rcv' = [rcv EXCEPT ![r] = [rcv[r] EXCEPT !.pc = pc, !.call = c]]
    BY <1>2, Zenon DEF RecvCall
  <2>2. QED
    BY <1>0, <2>1 DEF Rcv
<1>3. CASE ConsumeFrame(r, "drain") \/ ConsumeFrame(r, "try")
  <2>0. "drain" \in RecvPcs /\ "try" \in RecvPcs
    BY DEF RecvPcs
  <2>1. \/ rcv' = [rcv EXCEPT ![r].pc = "return"]
        \/ \E n, next, out : Flush(r, n, next, out)
    BY <1>3, Zenon DEF ConsumeFrame
  <2>2. \/ rcv' = [rcv EXCEPT ![r].pc = "return"]
        \/ \E n, next, out : rcv' = [rcv EXCEPT ![r] = [rcv[r] EXCEPT !.pc = "credit", !.then = next, !.n = n, !.out = out]]
        \/ \E next, out : rcv' = [rcv EXCEPT ![r] = [rcv[r] EXCEPT !.pc = next, !.out = out]]
    BY <2>1, Zenon DEF Flush
  <2>3. QED
    BY <1>0, <2>2 DEF Rcv
<1>4. CASE \/ rcv[r].pc = "drain" /\ Flush(r, tp[r].pending, "block", rcv[r].out)
           \/ rcv[r].pc = "end" /\ Flush(r, tp[r].pending, "return", rcv[r].out)
  <2>0. "block" \in RecvPcs /\ "return" \in RecvPcs
    BY DEF RecvPcs
  <2>1. QED
    BY <1>0, <1>4, <2>0, FlushPlace, Zenon
<1>5. CASE \/ rcv[r].pc = "block" /\ rcv' = [rcv EXCEPT ![r].pc = "stop"]
           \/ rcv[r].pc = "try" /\ rcv' = [rcv EXCEPT ![r].pc = "end"]
  BY <1>0, <1>5 DEF Rcv
<1>6. CASE ReturnCredit(r)
  <2>1. rcv' = [rcv EXCEPT ![r] = [rcv[r] EXCEPT !.pc = rcv[r].then, !.then = "idle", !.n = 0]]
    BY <1>6, Zenon DEF ReturnCredit
  <2>2. QED
    BY <1>0, <2>1 DEF Rcv
<1>7. CASE Receiver(r)
  BY <1>3, <1>4, <1>5, <1>6, <1>7, Zenon
     DEF Receiver, RecvDrain, RecvBlock, RecvTry, RecvEnd
<1>8. QED
  <2>1. ASSUME NEW e \in Peers, RecvCall(e) \/ Receiver(e), e # r
        PROVE  rcv'[r] = rcv[r]
    BY <2>1, OthersStill, Zenon DEF Moves, Still
  <2>2. CASE UNCHANGED rcv
    BY <1>1, <2>2, Zenon
  <2>3. QED
    BY <1>1, <1>2, <1>7, <2>1, <2>2, WhoMoves, Zenon

(* What a Read copies and what it keeps are what it had.                   *)
LEMMA CopiedAndKept ==
  ASSUME NEW T, NEW read \in Seq(T), NEW buf \in Seq(T), NEW n \in 0 .. Len(buf)
  PROVE  (read \o SubSeq(buf, 1, n)) \o SubSeq(buf, n + 1, Len(buf)) = read \o buf
<1> DEFINE a == SubSeq(buf, 1, n)
           b == SubSeq(buf, n + 1, Len(buf))
<1>0. n \in Nat /\ Len(buf) \in Nat /\ n <= Len(buf)
  OBVIOUS
<1>1. a \in Seq(T) /\ Len(a) = n /\ \A i \in 1 .. n : a[i] = buf[i]
  BY <1>0
<1>2. b \in Seq(T) /\ Len(b) = Len(buf) - n /\ \A i \in 1 .. Len(buf) - n : b[i] = buf[i + n]
  BY <1>0
<1>3. a \o b = buf
  <2>1. 1 \in 1 .. Len(buf) + 1 /\ n \in 1 - 1 .. Len(buf) /\ Len(buf) \in n .. Len(buf)
    BY <1>0
  <2>2. a \o b = SubSeq(buf, 1, Len(buf))
    BY <2>1, ConcatAdjacentSubSeq, Zenon
  <2>3. SubSeq(buf, 1, Len(buf)) = buf
    BY SubSeqFull, Zenon
  <2>4. QED
    BY <2>2, <2>3, Zenon
<1> HIDE DEF a, b
<1>4. (read \o a) \o b = read \o (a \o b)
  BY <1>1, <1>2
<1>5. QED
  BY <1>3, <1>4, Zenon DEF a, b

(* A sequence of one element at most.                                      *)
LEMMA OneAtMost ==
  ASSUME NEW T, NEW o \in Seq(T), Len(o) <= 1
  PROVE  o = <<>> \/ (o = <<Head(o)>> /\ Head(o) \in T)
<1>1. Len(o) = 0 \/ Len(o) = 1
  <2>1. \A l \in Nat : l <= 1 => l = 0 \/ l = 1
    OBVIOUS
  <2>2. Len(o) \in Nat
    OBVIOUS
  <2>3. QED
    BY <2>1, <2>2, Zenon
<1>2. CASE Len(o) = 0
  BY <1>2
<1>3. CASE Len(o) = 1
  <2>1. o = <<o[1]>> /\ o[1] \in T
    BY <1>3
  <2>2. o # <<>>
    BY <1>3
  <2>3. Head(o) = o[1]
    BY <2>2
  <2>4. QED
    BY <2>1, <2>3, Zenon
<1>4. QED
  BY <1>1, <1>2, <1>3

(* A Read gives what it has and the message it has taken, in that order.   *)
LEMMA ReadReturn ==
  ASSUME Typing, NEW r \in Peers, RecvReturn(r), rcv[r].call.how = "read", IsRecvCall(rcv[r].call),
         Len(rcv[r].out) <= 1, hist[r].read \o rcv[r].rest = FlattenSeq(hist[r].got)
  PROVE  hist'[r].read \o rcv'[r].rest = FlattenSeq(hist'[r].got)
<1> DEFINE out == rcv[r].out
           got == hist[r].got
           rest == rcv[r].rest
           read == hist[r].read
           most == rcv[r].call.n
           buf == IF out = <<>> THEN rest ELSE rest \o Head(out)
           n   == IF most < Len(buf) THEN most ELSE Len(buf)
<1>0. /\ rcv \in [Peers -> Rcv(scene.calls)] /\ hist \in [Peers -> Hist]
      /\ out \in Texts /\ rest \in Text /\ got \in Texts /\ read \in Text
  BY RcvFields, HistFields, Zenon DEF Typing
<1>1. /\ rcv' = [rcv EXCEPT ![r] = [rcv[r] EXCEPT !.pc = "idle", !.out = <<>>, !.rest = LeftOver(buf, n)]]
      /\ hist' = [hist EXCEPT ![r] = [hist[r] EXCEPT !.got = got \o out,
                                                      !.read = read \o SubSeq(buf, 1, n)]]
  BY Zenon DEF RecvReturn
<1>2. most \in Nat
  BY DEF IsRecvCall
<1> DEFINE got1 == got \o out
           read1 == read \o SubSeq(buf, 1, n)
           rest1 == LeftOver(buf, n)
<1>3. hist'[r].got = got1 /\ hist'[r].read = read1 /\ rcv'[r].rest = rest1
  <2>1. /\ rcv' = [rcv EXCEPT ![r] = [rcv[r] EXCEPT !.pc = "idle", !.out = <<>>, !.rest = rest1]]
        /\ hist' = [hist EXCEPT ![r] = [hist[r] EXCEPT !.got = got1, !.read = read1]]
    BY <1>1, Zenon
  <2> HIDE DEF got1, read1, rest1
  <2>2. QED
    BY <1>0, <2>1 DEF Rcv, Hist
<1>4. out = <<>> \/ (out = <<Head(out)>> /\ Head(out) \in Text)
  <2>1. out \in Seq(Text) /\ Len(out) <= 1
    BY <1>0, Zenon DEF Texts
  <2> HIDE DEF out
  <2>2. QED
    BY <2>1, OneAtMost
<1>5. buf \in Text
  <2>1. Head(out) \in Text => rest \o Head(out) \in Text
    BY <1>0, ConcatProperties, Zenon DEF Text
  <2>2. QED
    BY <1>0, <1>4, <2>1, Zenon
<1>6. read \o buf = FlattenSeq(got1)
  <2>1. CASE out = <<>>
    <3>1. got1 = got
      <4>1. \A g \in Texts : g \o <<>> = g
        BY DEF Texts
      <4>2. QED
        BY <1>0, <2>1, <4>1, Zenon
    <3>2. QED
      BY <2>1, <3>1, Zenon
  <2>2. CASE out = <<Head(out)>> /\ Head(out) \in Text /\ out # <<>>
    <3> DEFINE m == Head(out)
    <3>1. got1 = Append(got, m)
      <4>1. \A g \in Texts : \A x \in Text : g \o <<x>> = Append(g, x)
        BY DEF Texts
      <4>2. QED
        BY <1>0, <2>2, <4>1, Zenon
    <3>2. FlattenSeq(Append(got, m)) = FlattenSeq(got) \o m
      <4>1. got \in Seq(Seq(Byte)) /\ m \in Seq(Byte)
        BY <1>0, <2>2, Zenon DEF Texts, Text
      <4> HIDE DEF got, m
      <4>2. QED
        BY <4>1, FlattenMore, Zenon
    <3>3. read \o (rest \o m) = (read \o rest) \o m
      <4>1. \A a, b, c \in Text : a \o (b \o c) = (a \o b) \o c
        BY DEF Text
      <4>2. QED
        BY <1>0, <2>2, <4>1, Zenon
    <3>4. QED
      BY <2>2, <3>1, <3>2, <3>3, Zenon
  <2>3. QED
    BY <1>4, <2>1, <2>2, Zenon
<1>7. read1 \o rest1 = read \o buf
  <2>1. buf \in Seq(Byte) /\ read \in Seq(Byte)
    BY <1>0, <1>5, Zenon DEF Text
  <2> HIDE DEF buf, read, most
  <2>2. n \in 0 .. Len(buf)
    BY <1>2, <2>1
  <2> HIDE DEF n
  <2>3. QED
    BY <2>1, <2>2, CopiedAndKept, Zenon DEF LeftOver
<1>8. QED
  BY <1>3, <1>6, <1>7, Zenon

(* Every step keeps what has been read.                                    *)
LEMMA ReadStep ==
  ASSUME Typing, NEW r \in Peers, HandsOf(r), ReadOf(r), [Next]_vars
  PROVE  ReadOf(r)'
<1>0. scene' = scene /\ scene \in Scenes /\ hist \in [Peers -> Hist]
  BY WhoMoves, Zenon DEF Typing
<1>1. CASE ~RecvReturn(r)
  <2>1. rcv'[r].rest = rcv[r].rest
    BY <1>1, RestStays, Zenon
  <2>2. hist'[r].got = hist[r].got /\ hist'[r].read = hist[r].read
    <3>1. CASE MeetsEnd(r)
      <4>1. hist' = [hist EXCEPT ![r].eof = TRUE]
        BY <3>1, Zenon DEF MeetsEnd
      <4>2. QED
        BY <1>0, <4>1 DEF Hist
    <3>2. QED
      BY <1>1, <3>1, RecordStays, Zenon
  <2>3. QED
    BY <1>0, <2>1, <2>2, Zenon DEF ReadOf
<1>2. CASE RecvReturn(r)
  <2>1. Place(r) = "return"
    BY <1>2 DEF RecvReturn, Place
  <2>2. rcv[r].call \in scene.calls
    <3>1. "return" # "idle"
      OBVIOUS
    <3>2. QED
      BY <2>1, <3>1, Zenon DEF HandsOf
  <2>3. (\A c \in scene.calls : c.how = "read")
          => hist'[r].read \o rcv'[r].rest = FlattenSeq(hist'[r].got)
    <3> SUFFICES ASSUME \A c \in scene.calls : c.how = "read"
                 PROVE  hist'[r].read \o rcv'[r].rest = FlattenSeq(hist'[r].got)
      OBVIOUS
    <3>1. rcv[r].call.how = "read" /\ IsRecvCall(rcv[r].call)
      BY <1>0, <2>2, TransportAssumption, Zenon
    <3>2. "read" # "batch"
      OBVIOUS
    <3>3. Len(rcv[r].out) <= 1
      BY <3>1, <3>2, Zenon DEF HandsOf
    <3>4. hist[r].read \o rcv[r].rest = FlattenSeq(hist[r].got)
      BY Zenon DEF ReadOf
    <3>5. QED
      BY <1>2, <3>1, <3>3, <3>4, ReadReturn, Zenon
  <2>4. (\A c \in scene.calls : c.how # "read") => hist'[r].read = <<>>
    <3> SUFFICES ASSUME \A c \in scene.calls : c.how # "read" PROVE hist'[r].read = <<>>
      OBVIOUS
    <3>1. rcv[r].call.how # "read" /\ hist[r].read = <<>>
      BY <2>2, Zenon DEF ReadOf
    <3>2. \E g : hist' = [hist EXCEPT ![r].got = g]
      BY <1>2, <3>1, Zenon DEF RecvReturn
    <3>3. QED
      BY <1>0, <3>1, <3>2 DEF Hist
  <2>5. QED
    BY <1>0, <2>3, <2>4, Zenon DEF ReadOf
<1>3. QED
  BY <1>1, <1>2

(* The ends start so.                                                      *)
LEMMA EndsInit == Init => EndsInv
<1> SUFFICES ASSUME Init, NEW r \in Peers
             PROVE  HandsOf(r) /\ EndOf(r) /\ OpenOf(r) /\ ReadOf(r)
  BY Zenon DEF EndsInv
<1>1. /\ rcv[r].pc = "idle" /\ rcv[r].out = <<>> /\ rcv[r].rest = <<>>
      /\ hist[r].got = <<>> /\ hist[r].read = <<>> /\ hist[r].eof = FALSE
      /\ cls[r] = "open" /\ plr[r].final = FALSE /\ tp[r].closed = FALSE
  BY DEF Init
<1>2. Place(r) = "idle"
  BY <1>1 DEF Place
<1>3. HandsOf(r)
  <2>1. Len(<<>>) <= 1 /\ "idle" \notin {"try", "end"}
    OBVIOUS
  <2>2. QED
    BY <1>1, <1>2, <2>1, Zenon DEF HandsOf
<1>4. EndOf(r) /\ OpenOf(r)
  BY <1>1, Zenon DEF EndOf, OpenOf
<1>5. ReadOf(r)
  <2>1. FlattenSeq(<<>>) = <<>>
    <3>1. Len(<<>>) = 0
      OBVIOUS
    <3>2. QED
      BY <3>1, Zenon DEF FlattenSeq
  <2>2. <<>> \o <<>> = <<>>
    OBVIOUS
  <2>3. QED
    BY <1>1, <2>1, <2>2, Zenon DEF ReadOf
<1>6. QED
  BY <1>3, <1>4, <1>5

(* And stay so.                                                            *)
LEMMA EndsAreKept == Spec => []EndsInv
<1>1. IInv /\ EndsInv /\ [Next]_vars => EndsInv'
  <2> SUFFICES ASSUME IInv, EndsInv, [Next]_vars, NEW r \in Peers
               PROVE  HandsOf(r)' /\ EndOf(r)' /\ OpenOf(r)' /\ ReadOf(r)'
    BY Zenon DEF EndsInv
  <2>1. Types /\ Typing /\ SlotsOf(r) /\ RecvSide(r)
    BY IInvTypes, Zenon DEF IInv, SendSide
  <2>2. QED
    BY <2>1, HandsStep, EndStep, OpenStep, ReadStep, Zenon DEF EndsInv
<1>2. QED
  BY <1>1, EndsInit, InductiveInvariant, PTL DEF Spec

-----------------------------------------------------------------------------
(* What that means for the two applications.                               *)

(* The theorems below are about scenes, which no step changes, that are    *)
(* Ample, so that PostSend refuses no frame of a queue pair that is up (a  *)
(* provider rounds MaxSendWR up, see README), and Steady: no application   *)
(* closes the end it receives on.                                          *)
Steady == scene.receivers \cap scene.closers = {}

(* An application receives with Read, or never does.                       *)
Uniform == \/ \A c \in scene.calls : c.how = "read"
           \/ \A c \in scene.calls : c.how # "read"

LEMMA SceneStays ==
  ASSUME Types, [Next]_vars, Ample, Steady
  PROVE  Ample' /\ Steady'
<1>1. scene' = scene
  BY WhoMoves, Zenon DEF Types
<1>2. QED
  BY <1>1 DEF Ample, Steady

(* What is a prefix when more is joined to it is one before.               *)
LEMMA PrefixOfPart ==
  ASSUME NEW T, NEW a \in Seq(T), NEW b \in Seq(T), NEW c \in Seq(T), IsPrefix(a \o b, c)
  PROVE  IsPrefix(a, c)
<1> DEFINE w == a \o b
<1>1. w \in Seq(T) /\ Len(w) = Len(a) + Len(b) /\ \A i \in 1 .. Len(a) : w[i] = a[i]
  OBVIOUS
<1>2. Len(a) \in Nat /\ Len(b) \in Nat /\ Len(c) \in Nat
  OBVIOUS
<1> HIDE DEF w
<1>3. IsPrefix(w, c)
  BY Zenon DEF w
<1>4. Len(w) <= Len(c) /\ \A i \in 1 .. Len(w) : w[i] = c[i]
  BY <1>1, <1>3, PrefixAt
<1>5. Len(a) <= Len(c) /\ \A i \in 1 .. Len(a) : i \in 1 .. Len(w)
  BY <1>1, <1>2, <1>4
<1>6. \A i \in 1 .. Len(a) : a[i] = c[i]
  BY <1>1, <1>4, <1>5, Zenon
<1>7. QED
  BY <1>5, <1>6, PrefixAt

(* An end that receives gets every frame of its peer.                      *)
LEMMA ReceiversAreWhole ==
  ASSUME Ample, Steady, Typing, NEW r \in Peers, OpenOf(r), r \in scene.receivers
  PROVE  Whole(r) /\ r \notin scene.closers /\ Ample
<1>1. r \notin scene.closers
  BY DEF Steady
<1>2. QED
  BY <1>1, Zenon DEF OpenOf, Whole, Refused

(* What an application has got is what its peer sent first.                *)
LEMMA GotIsPrefix ==
  ASSUME Ample, Steady, Typing, NEW r \in Peers, OpenOf(r), EndOf(r), StreamOf(r)
  PROVE  IsPrefix(hist[r].got, hist[Peer(r)].stream)
<1>0. /\ Peer(r) \in Peers
      /\ hist[r].got \in Texts /\ rcv[r].out \in Texts /\ hist[Peer(r)].stream \in Texts
  BY ThePeers, HistFields, RcvFields, Zenon DEF Typing
<1>1. CASE r \in scene.receivers
  <2>1. IsPrefix(Taken(r), hist[Peer(r)].stream)
    BY <1>1, ReceiversAreWhole, Zenon DEF StreamOf
  <2>2. QED
    BY <1>0, <2>1, PrefixOfPart, Zenon DEF Taken, Texts
<1>2. CASE r \notin scene.receivers
  <2>1. hist[r].got = <<>>
    BY <1>2, Zenon DEF EndOf
  <2>2. hist[Peer(r)].stream \in Seq(Text)
    BY <1>0, Zenon DEF Texts
  <2>3. IsPrefix(<<>>, hist[Peer(r)].stream)
    BY <2>2, PrefixOfItself, Zenon
  <2>4. QED
    BY <2>1, <2>3, Zenon
<1>3. QED
  BY <1>1, <1>2

(* And what it has read are the first bytes of it.                         *)
LEMMA ReadIsPrefix ==
  ASSUME Ample, Steady, Uniform, Typing, NEW r \in Peers, OpenOf(r), EndOf(r), ReadOf(r), StreamOf(r)
  PROVE  IsPrefix(hist[r].read, FlattenSeq(hist[Peer(r)].stream))
<1> DEFINE got == hist[r].got
           stream == hist[Peer(r)].stream
           read == hist[r].read
           rest == rcv[r].rest
<1>0. /\ Peer(r) \in Peers /\ scene \in Scenes
      /\ got \in Texts /\ stream \in Texts /\ read \in Text /\ rest \in Text
  BY ThePeers, HistFields, RcvFields, Zenon DEF Typing
<1>1. IsPrefix(got, stream)
  BY GotIsPrefix, Zenon
<1>2. /\ got \in Seq(Seq(Byte)) /\ stream \in Seq(Seq(Byte))
      /\ read \in Seq(Byte) /\ rest \in Seq(Byte)
  BY <1>0, Zenon DEF Texts, Text
<1>3. \/ read \o rest = FlattenSeq(got)
      \/ read = <<>>
  BY <1>0, Zenon DEF Uniform, ReadOf
<1> HIDE DEF got, stream, read, rest
<1>4. IsPrefix(FlattenSeq(got), FlattenSeq(stream)) /\ FlattenSeq(stream) \in Seq(Byte)
  BY <1>1, <1>2, FlattenPrefix, Zenon
<1>5. IsPrefix(read, FlattenSeq(stream))
  <2>1. CASE read \o rest = FlattenSeq(got)
    <3>1. IsPrefix(read \o rest, FlattenSeq(stream))
      BY <1>4, <2>1, Zenon
    <3>2. QED
      BY <1>2, <1>4, <3>1, PrefixOfPart, Zenon
  <2>2. CASE read = <<>>
    BY <1>4, <2>2, PrefixOfItself, Zenon
  <2>3. QED
    BY <1>3, <2>1, <2>2
<1>6. QED
  BY <1>5, Zenon DEF read, stream

(* conn_linux.go:320 "returns bytes from the received messages,            *)
(* transparently spanning message boundaries": the bytes that the          *)
(* application of either end has read are the first bytes its peer sent.   *)
THEOREM StreamIsRead ==
  Spec => [](Ample /\ Steady /\ Uniform => ReadsTheStream)
<1>1. IInv /\ StreamInv /\ EndsInv => (Ample /\ Steady /\ Uniform => ReadsTheStream)
  <2> SUFFICES ASSUME IInv, StreamInv, EndsInv, Ample, Steady, Uniform, NEW r \in Peers
               PROVE  IsPrefix(hist[r].read, FlattenSeq(hist[Peer(r)].stream))
    BY Zenon DEF ReadsTheStream
  <2>1. Typing /\ OpenOf(r) /\ EndOf(r) /\ ReadOf(r) /\ StreamOf(r)
    BY Zenon DEF IInv, StreamInv, EndsInv
  <2>2. QED
    BY <2>1, ReadIsPrefix, Zenon
<1>2. QED
  BY <1>1, InductiveInvariant, StreamsAreKept, EndsAreKept, PTL

-----------------------------------------------------------------------------
(* Each direction as MessageStream.                                        *)

(* The direction from s to its peer, as MessageStream sees it.             *)
Talk(s) == INSTANCE MessageStream WITH
  stream <- hist[s].stream,     promised <- hist[s].promised,
  got    <- hist[Peer(s)].got,  eof      <- hist[Peer(s)].eof

(* A step of that direction, or none.                                      *)
TalkStep(s) == Talk(s)!Next \/ UNCHANGED Talk(s)!vars

(* The messages of the script of s.                                        *)
Messages(s) == {Message(s, m[1], m[2]) : m \in Sent(s)}

(* One of them is posted.                                                  *)
SaysMore(s) ==
  \E m \in Text \cap Messages(s) : hist' = [hist EXCEPT ![s].stream = Append(hist[s].stream, m)]

(* What an end has sent and promised changes in these two steps.           *)
LEMMA SentStays ==
  ASSUME Types, NEW s \in Peers, [Next]_vars
  PROVE  \/ SaysMore(s) \/ SendReturn(s)
         \/ hist'[s].stream = hist[s].stream /\ hist'[s].promised = hist[s].promised
<1>0. hist \in [Peers -> Hist] /\ Typing
  BY DEF Types, Typing
<1>1. CASE hist'[s] = hist[s]
  BY <1>1, Zenon
<1>2. CASE Sender(s)
  <2>1. CASE PostFrame(s)
    <3>1. Message(s, snd[s].call, snd[s].k) \in Text \cap Messages(s)
      <4>1. InCall(s) /\ snd[s].pc = "post"
        BY <2>1, Zenon DEF Types, PostFrame
      <4>2. /\ snd[s].call \in 1 .. Len(Script[s])
            /\ snd[s].k \in 1 .. Len(Script[s][snd[s].call])
        BY <4>1 DEF InCall
      <4>3. 1 \in Nat \ {0} /\ scene \in Scenes
        BY <1>0 DEF Typing
      <4>4. Message(s, snd[s].call, snd[s].k) \in Text
        BY <4>2, <4>3, FrameType, Zenon
      <4>5. Message(s, snd[s].call, snd[s].k) \in Messages(s)
        <5>1. /\ Script[s] \in Seq(Seq(Nat))
              /\ Script[s][snd[s].call] \in Seq(Nat)
          BY <4>2, <4>3, ScriptType
        <5>2. DOMAIN Script[s] = 1 .. Len(Script[s])
              /\ DOMAIN Script[s][snd[s].call] = 1 .. Len(Script[s][snd[s].call])
          BY <5>1
        <5> DEFINE m == <<snd[s].call, snd[s].k>>
        <5>3. m \in Sent(s)
          <6> DEFINE c == snd[s].call
                     k == snd[s].k
                     all == {{<<b, j>> : j \in DOMAIN Script[s][b]} : b \in DOMAIN Script[s]}
          <6>1. c \in DOMAIN Script[s] /\ k \in DOMAIN Script[s][c]
            BY <4>2, <5>2, Zenon
          <6> HIDE DEF c, k
          <6>2. {<<c, j>> : j \in DOMAIN Script[s][c]} \in all
            BY <6>1
          <6>3. <<c, k>> \in {<<c, j>> : j \in DOMAIN Script[s][c]}
            BY <6>1
          <6>4. <<c, k>> \in UNION all
            BY <6>2, <6>3, Zenon
          <6>5. QED
            BY <6>4, Zenon DEF Sent, c, k
        <5>4. m[1] = snd[s].call /\ m[2] = snd[s].k
          OBVIOUS
        <5> HIDE DEF m
        <5>5. Message(s, m[1], m[2]) \in Messages(s)
          BY <5>3, Zenon DEF Messages
        <5>6. QED
          BY <5>4, <5>5, Zenon
      <4>6. QED
        BY <4>4, <4>5, Zenon
    <3>2. \/ SaysMore(s) \/ hist' = hist \/ \E x : hist' = [hist EXCEPT ![s].lost = x]
      BY <2>1, <3>1, Zenon DEF PostFrame, SaysMore
    <3>3. CASE \E x : hist' = [hist EXCEPT ![s].lost = x]
      BY <1>0, <3>3 DEF Hist
    <3>4. QED
      BY <3>2, <3>3, Zenon
  <2>2. CASE SendReturn(s)
    BY <2>2
  <2>3. CASE DrainSendDone(s) \/ AcquireCredit(s) \/ WaitToken(s)
    <3>1. hist' = hist
      BY <2>3, Zenon DEF DrainSendDone, AcquireCredit, WaitToken
    <3>2. QED
      BY <3>1, Zenon
  <2>4. QED
    BY <1>2, <2>1, <2>2, <2>3, Zenon DEF Sender
<1>3. CASE Receiver(s)
  <2>1. RecvReturn(s) \/ MeetsEnd(s) \/ hist' = hist
    BY <1>3, Zenon DEF Receiver, RecvDrain, RecvBlock, RecvTry, RecvEnd, ReturnCredit, ConsumeFrame,
                       MeetsEnd
  <2>2. CASE RecvReturn(s)
    <3>1. \/ \E x : hist' = [hist EXCEPT ![s].got = x]
          \/ \E x, y : hist' = [hist EXCEPT ![s] = [hist[s] EXCEPT !.got = x, !.read = y]]
      BY <2>2, Zenon DEF RecvReturn
    <3>2. CASE \E x : hist' = [hist EXCEPT ![s].got = x]
      BY <1>0, <3>2 DEF Hist
    <3>3. CASE \E x, y : hist' = [hist EXCEPT ![s] = [hist[s] EXCEPT !.got = x, !.read = y]]
      BY <1>0, <3>3 DEF Hist
    <3>4. QED
      BY <3>1, <3>2, <3>3, Zenon
  <2>3. CASE MeetsEnd(s)
    <3>1. hist' = [hist EXCEPT ![s].eof = TRUE]
      BY <2>3, Zenon DEF MeetsEnd
    <3>2. QED
      BY <1>0, <3>1 DEF Hist
  <2>4. QED
    BY <2>1, <2>2, <2>3, Zenon
<1>4. CASE SendCall(s) \/ RecvCall(s) \/ Poller(s) \/ CloseCall(s) \/ Closer(s)
  <2>1. hist' = hist
    <3>1. CASE SendCall(s) \/ RecvCall(s) \/ CloseCall(s) \/ Closer(s)
      BY <3>1, Zenon DEF SendCall, RecvCall, CloseCall, Closer, CloseFin, CloseDone, TearDown
    <3>2. CASE Poller(s)
      BY <3>2, Zenon DEF Poller, DispatchSend, PushToken, DispatchRecv, DispatchError, PollLast,
                         PollerExit
    <3>3. QED
      BY <1>4, <3>1, <3>2
  <2>2. QED
    BY <2>1, Zenon
<1>5. CASE Moves(s)
  BY <1>2, <1>3, <1>4, <1>5, Zenon DEF Moves
<1>6. CASE \E e \in Peers : Moves(e) /\ e # s
  <2>1. hist'[s] = hist[s]
    BY <1>0, <1>6, OthersStill, Zenon DEF Still
  <2>2. QED
    BY <1>1, <2>1
<1>7. CASE (\E e \in Peers : Land(e)) \/ UNCHANGED vars
  <2>1. hist' = hist
    BY <1>7, Zenon DEF Land, vars
  <2>2. QED
    BY <2>1, Zenon
<1>8. QED
  BY <1>5, <1>6, <1>7, NextCases, Zenon DEF Moves

(* A call that returns does not end the stream.                            *)
LEMMA ReturnRecords ==
  ASSUME Typing, NEW r \in Peers, RecvReturn(r)
  PROVE  hist'[r].eof = hist[r].eof
<1>0. hist \in [Peers -> Hist]
  BY DEF Typing
<1>1. \/ \E x : hist' = [hist EXCEPT ![r].got = x]
      \/ \E x, y : hist' = [hist EXCEPT ![r] = [hist[r] EXCEPT !.got = x, !.read = y]]
  BY Zenon DEF RecvReturn
<1>2. CASE \E x : hist' = [hist EXCEPT ![r].got = x]
  BY <1>0, <1>2 DEF Hist
<1>3. CASE \E x, y : hist' = [hist EXCEPT ![r] = [hist[r] EXCEPT !.got = x, !.read = y]]
  BY <1>0, <1>3 DEF Hist
<1>4. QED
  BY <1>1, <1>2, <1>3, Zenon

(* RecvReturn is Receive.                                                  *)
LEMMA ReturnIsReceive ==
  ASSUME Ample, Steady, Typing, NEW s \in Peers, NEW r \in Peers, r = Peer(s), s = Peer(r),
         OpenOf(r), EndOf(r), StreamOf(r), RecvReturn(r),
         hist'[s].stream = hist[s].stream, hist'[s].promised = hist[s].promised
  PROVE  Talk(s)!Receive
<1>0. /\ hist[r].got \in Texts /\ rcv[r].out \in Texts /\ hist[s].stream \in Texts
  BY HistFields, RcvFields, Zenon DEF Typing
<1>1. rcv[r].pc = "return"
  BY Zenon DEF RecvReturn
<1>2. r \in scene.receivers /\ ~hist[r].eof
  <2>1. "return" # "idle" /\ "return" # "stop"
    OBVIOUS
  <2>2. QED
    BY <1>1, <2>1, Zenon DEF EndOf
<1>3. IsPrefix(Taken(r), hist[s].stream)
  BY <1>2, ReceiversAreWhole, Zenon DEF StreamOf
<1>4. hist'[r].got = Taken(r) /\ hist'[r].eof = hist[r].eof
  BY ReturnTakes, ReturnRecords, Zenon DEF Taken
<1>5. \E n \in Len(hist[r].got) .. Len(hist[s].stream) : Taken(r) = SubSeq(hist[s].stream, 1, n)
  <2> DEFINE a == hist[r].got
             b == rcv[r].out
             w == a \o b
             c == hist[s].stream
  <2>1. a \in Seq(Text) /\ b \in Seq(Text) /\ c \in Seq(Text) /\ IsPrefix(w, c)
    BY <1>0, <1>3, Zenon DEF Texts, Taken
  <2> SUFFICES \E n \in Len(a) .. Len(c) : w = SubSeq(c, 1, n)
    BY Zenon DEF Taken
  <2> HIDE DEF a, b, c
  <2>2. w \in Seq(Text) /\ Len(w) = Len(a) + Len(b) /\ Len(a) \in Nat /\ Len(b) \in Nat /\ Len(c) \in Nat
    BY <2>1
  <2> HIDE DEF w
  <2>3. Len(w) <= Len(c) /\ SubSeq(w, 1, Len(w)) = SubSeq(c, 1, Len(w))
    BY <2>1, Zenon DEF IsPrefix
  <2>4. SubSeq(w, 1, Len(w)) = w
    BY <2>2, SubSeqFull, Zenon
  <2>5. Len(w) \in Len(a) .. Len(c)
    BY <2>2, <2>3
  <2>6. QED
    BY <2>3, <2>4, <2>5, Zenon
<1>6. QED
  BY <1>2, <1>4, <1>5, Zenon DEF Talk!Receive

(* The peer of an end that has been told of the end is closing.            *)
LEMMA EndMeansClosing ==
  ASSUME Ample, Steady, Typing, NEW s \in Peers, NEW r \in Peers, r = Peer(s), s = Peer(r),
         OpenOf(r), EndOf(r), StreamOf(r), RecvSide(r), r \in scene.receivers
  PROVE  /\ ~nic[r].down
         /\ \E done, part : InStep(r, done, part)
         /\ hist[r].eof => cls[s] # "open"
<1>1. Whole(r) /\ r \notin scene.closers
  BY ReceiversAreWhole, Zenon
<1>2. ~nic[r].down
  <2>1. "open" # "closed"
    OBVIOUS
  <2>2. QED
    BY <1>1, <2>1, Zenon DEF OpenOf, RecvSide
<1>3. PICK done, part : InStep(r, done, part)
  BY <1>1, <1>2, Zenon DEF StreamOf
<1>4. hist[r].eof => cls[s] # "open"
  BY <1>3, Zenon DEF EndOf, InStep
<1>5. QED
  BY <1>2, <1>3, <1>4, Zenon

(* MeetsEnd is EndOfFile.                                                  *)
LEMMA MeetsEndIsEndOfFile ==
  ASSUME Ample, Steady, Typing, NEW s \in Peers, NEW r \in Peers, r = Peer(s), s = Peer(r),
         HandsOf(r), OpenOf(r), EndOf(r), StreamOf(r), RecvSide(r), MeetsEnd(r),
         hist'[s].stream = hist[s].stream, hist'[s].promised = hist[s].promised
  PROVE  Talk(s)!EndOfFile
<1>0. hist[r].got \in Texts /\ hist \in [Peers -> Hist]
  BY HistFields, Zenon DEF Typing
<1>1. rcv[r].pc = "block" /\ tp[r].peerFin /\ tp[r].recvQ = <<>>
  BY Zenon DEF MeetsEnd, AtEOF
<1>2. r \in scene.receivers
  <2>1. "block" # "idle"
    OBVIOUS
  <2>2. QED
    BY <1>1, <2>1, Zenon DEF EndOf
<1>3. PICK done, part : InStep(r, done, part)
  BY <1>2, EndMeansClosing, Zenon
<1>4. rcv[r].out = <<>>
  <2>1. Place(r) = "block"
    BY <1>1 DEF Place
  <2>2. QED
    BY <2>1, Zenon DEF HandsOf
<1>5. Taken(r) = hist[r].got
  <2>1. hist[r].got \in Seq(Text)
    BY <1>0, Zenon DEF Texts
  <2>2. QED
    BY <1>4, <2>1, ConcatEmptySeq, Zenon DEF Taken
<1>6. hist[s].promised <= Len(hist[r].got)
  <2>1. Len(<<>>) = 0
    OBVIOUS
  <2>2. hist[s].promised <= done[0] /\ done[0] = Len(Taken(r))
    BY <1>1, <1>3, <2>1, Zenon DEF InStep
  <2>3. QED
    BY <1>5, <2>2, Zenon
<1>7. hist'[r].eof = TRUE /\ hist'[r].got = hist[r].got
  <2>1. hist' = [hist EXCEPT ![r].eof = TRUE]
    BY Zenon DEF MeetsEnd
  <2>2. QED
    BY <1>0, <2>1 DEF Hist
<1>8. QED
  BY <1>6, <1>7, Zenon DEF Talk!EndOfFile

(* SendReturn is Promise, or promises nothing.                             *)
LEMMA SendReturnIsPromise ==
  ASSUME Ample, Steady, Typing, NEW s \in Peers, NEW r \in Peers, r = Peer(s), s = Peer(r),
         OpenOf(r), EndOf(r), StreamOf(r), RecvSide(r), PromiseOf(s), SendReturn(s),
         InFlight(s, "last") \in Nat,
         hist'[r].got = hist[r].got, hist'[r].eof = hist[r].eof
  PROVE  TalkStep(s)
<1>0. hist \in [Peers -> Hist] /\ hist[s].promised \in Nat /\ hist[s].stream \in Texts
  BY HistFields, Zenon DEF Typing
<1>1. \/ hist' = hist
      \/ cls[s] = "open" /\ hist' = [hist EXCEPT ![s].promised = Len(hist[s].stream)]
  BY Zenon DEF SendReturn
<1>2. CASE hist' = hist
  BY <1>2, Zenon DEF TalkStep, Talk!vars
<1>3. CASE cls[s] = "open" /\ hist' = [hist EXCEPT ![s].promised = Len(hist[s].stream)]
  <2>1. hist'[s].stream = hist[s].stream /\ hist'[s].promised = Len(hist[s].stream)
    <3> DEFINE n == Len(hist[s].stream)
    <3>1. hist' = [hist EXCEPT ![s].promised = n]
      BY <1>3
    <3> HIDE DEF n
    <3>2. hist'[s].stream = hist[s].stream /\ hist'[s].promised = n
      BY <1>0, <3>1 DEF Hist
    <3>3. QED
      BY <3>2, Zenon DEF n
  <2>2. ~hist[r].eof
    BY <1>3, EndMeansClosing, Zenon DEF EndOf
  <2>3. Len(hist[s].stream) \in hist[s].promised .. Len(hist[s].stream)
    <3>1. Len(hist[s].stream) \in Nat
      BY <1>0 DEF Texts
    <3>2. hist[s].promised + InFlight(s, "last") <= Len(hist[s].stream)
      BY Zenon DEF PromiseOf
    <3>3. \A l, n, i \in Nat : n + i <= l => l \in n .. l
      OBVIOUS
    <3>4. QED
      BY <1>0, <3>1, <3>2, <3>3, Zenon
  <2>4. Talk(s)!Promise
    BY <2>1, <2>2, <2>3, Zenon DEF Talk!Promise
  <2>5. QED
    BY <2>4, Zenon DEF TalkStep, Talk!Next
<1>4. QED
  BY <1>1, <1>2, <1>3

(* A message that is posted is Send.                                       *)
LEMMA SaysMoreIsSend ==
  ASSUME Typing, NEW s \in Peers, SaysMore(s),
         hist'[Peer(s)].got = hist[Peer(s)].got, hist'[Peer(s)].eof = hist[Peer(s)].eof
  PROVE  Talk(s)!Send
<1>0. hist \in [Peers -> Hist] /\ hist[s].stream \in Texts
  BY HistFields, Zenon DEF Typing
<1>1. PICK m \in Text : hist' = [hist EXCEPT ![s].stream = Append(hist[s].stream, m)]
  <2>1. \A x \in Text \cap Messages(s) : x \in Text
    OBVIOUS
  <2>2. QED
    BY <2>1, Zenon DEF SaysMore
<1> DEFINE w == hist[s].stream
           w1 == Append(w, m)
<1>2. hist'[s].stream = w1 /\ hist'[s].promised = hist[s].promised
  <2>1. hist' = [hist EXCEPT ![s].stream = w1]
    BY <1>1
  <2> HIDE DEF w1
  <2>2. QED
    BY <1>0, <2>1 DEF Hist
<1>3. w \in Seq(Text)
  BY <1>0, Zenon DEF Texts
<1>4. Len(w1) = Len(w) + 1 /\ SubSeq(w1, 1, Len(w)) = w
  <2> HIDE DEF w
  <2>1. w1 \in Seq(Text) /\ Len(w1) = Len(w) + 1 /\ Len(w) \in Nat /\ \A i \in 1 .. Len(w) : w1[i] = w[i]
    BY <1>1, <1>3
  <2> HIDE DEF w1
  <2>2. SubSeq(w1, 1, Len(w)) \in Seq(Text) /\ Len(SubSeq(w1, 1, Len(w))) = Len(w)
        /\ \A i \in 1 .. Len(w) : SubSeq(w1, 1, Len(w))[i] = w1[i]
    BY <2>1
  <2> DEFINE v == SubSeq(w1, 1, Len(w))
  <2> HIDE DEF v
  <2>3. v \in Seq(Text) /\ Len(v) = Len(w) /\ \A i \in 1 .. Len(v) : v[i] = w[i]
    BY <2>1, <2>2, Zenon DEF v
  <2>4. v = w
    BY <1>3, <2>3, SeqEqual
  <2>5. QED
    BY <2>1, <2>4, Zenon DEF v
<1>5. QED
  BY <1>2, <1>4, Zenon DEF Talk!Send

(* Every step maps to a step of the direction or to none.                  *)
LEMMA TalkKept ==
  ASSUME Ample, Steady, IInv, StreamInv, EndsInv, [Next]_vars, NEW s \in Peers
  PROVE  TalkStep(s)
<1> DEFINE r == Peer(s)
<1>1. r \in Peers /\ s = Peer(r) /\ s # r
  BY ThePeers, Zenon
<1>2. Types /\ Typing
  BY IInvTypes, Zenon DEF IInv
<1>3. /\ HandsOf(r) /\ OpenOf(r) /\ EndOf(r) /\ StreamOf(r) /\ RecvSide(r) /\ PromiseOf(s)
      /\ InFlight(s, "last") \in Nat
  BY <1>1, <1>2, SendTypes, Zenon DEF IInv, SendSide, StreamInv, EndsInv
<1> HIDE DEF r
<1>4. CASE RecvReturn(r) \/ MeetsEnd(r)
  <2>1. hist'[s] = hist[s]
    <3>1. Moves(r)
      BY <1>4, Zenon DEF Moves, Receiver, MeetsEnd, RecvBlock
    <3>2. QED
      BY <1>1, <1>2, <3>1, OthersStill, Zenon DEF Still
  <2>2. r = Peer(s)
    BY Zenon DEF r
  <2>3. Talk(s)!Receive \/ Talk(s)!EndOfFile
    BY <1>1, <1>2, <1>3, <1>4, <2>1, <2>2, ReturnIsReceive, MeetsEndIsEndOfFile, Zenon
  <2>4. QED
    BY <2>3, Zenon DEF TalkStep, Talk!Next
<1>5. CASE hist'[r].got = hist[r].got /\ hist'[r].eof = hist[r].eof
  <2>0. r = Peer(s)
    BY Zenon DEF r
  <2>1. CASE SaysMore(s)
    BY <1>2, <1>5, <2>0, <2>1, SaysMoreIsSend, Zenon DEF TalkStep, Talk!Next
  <2>2. CASE SendReturn(s)
    BY <1>1, <1>2, <1>3, <1>5, <2>0, <2>2, SendReturnIsPromise, Zenon
  <2>3. CASE hist'[s].stream = hist[s].stream /\ hist'[s].promised = hist[s].promised
    BY <1>5, <2>0, <2>3, Zenon DEF TalkStep, Talk!vars
  <2>4. QED
    BY <1>2, <2>1, <2>2, <2>3, SentStays, Zenon
<1>6. QED
  BY <1>1, <1>2, <1>4, <1>5, RecordStays, Zenon

(* The initial state maps to that of the direction.                        *)
LEMMA TalkInit ==
  ASSUME Init, NEW s \in Peers
  PROVE  Talk(s)!Init
<1>1. Peer(s) \in Peers
  BY ThePeers, Zenon
<1>2. \A e \in Peers : /\ hist[e].stream = <<>> /\ hist[e].promised = 0
                       /\ hist[e].got = <<>> /\ hist[e].eof = FALSE
  BY DEF Init
<1>3. QED
  BY <1>1, <1>2, Zenon DEF Talk!Init

(* The data path preserves message boundaries and order, and reports       *)
(* io.EOF only after what was promised: under the mapping of               *)
(* TransportProperties each direction implements MessageStream.            *)
THEOREM StreamImplemented ==
  Spec /\ Ample /\ Steady => ImplementsMessageStream
<1>0. "A" \in Peers /\ "B" \in Peers /\ Peer("A") = "B" /\ Peer("B") = "A"
  BY DEF Peers, Peer
<1>1. Init => Stream!Init /\ Back!Init
  <2>1. Init => Talk("A")!Init /\ Talk("B")!Init
    BY <1>0, TalkInit, Zenon
  <2>2. Talk("A")!Init /\ Talk("B")!Init => Stream!Init /\ Back!Init
    BY <1>0 DEF Talk!Init, Stream!Init, Back!Init, p, q
  <2>3. QED
    BY <2>1, <2>2
<1>2. IInv /\ StreamInv /\ EndsInv /\ Ample /\ Steady /\ [Next]_vars =>
        [Stream!Next]_(Stream!vars) /\ [Back!Next]_(Back!vars)
  <2>1. IInv /\ StreamInv /\ EndsInv /\ Ample /\ Steady /\ [Next]_vars => TalkStep("A") /\ TalkStep("B")
    BY <1>0, TalkKept, Zenon
  <2>2. TalkStep("A") => [Stream!Next]_(Stream!vars)
    BY <1>0 DEF TalkStep, p, q, Talk!Next, Talk!vars, Talk!Send, Talk!Promise, Talk!Receive, Talk!EndOfFile,
                Stream!Next, Stream!vars, Stream!Send, Stream!Promise, Stream!Receive, Stream!EndOfFile
  <2>3. TalkStep("B") => [Back!Next]_(Back!vars)
    BY <1>0 DEF TalkStep, p, q, Talk!Next, Talk!vars, Talk!Send, Talk!Promise, Talk!Receive, Talk!EndOfFile,
                Back!Next, Back!vars, Back!Send, Back!Promise, Back!Receive, Back!EndOfFile
  <2>4. QED
    BY <2>1, <2>2, <2>3, Zenon
<1>3. IInv /\ Ample /\ Steady /\ [Next]_vars => Ample' /\ Steady'
  BY IInvTypes, SceneStays, Zenon
<1>4. QED
  BY <1>1, <1>2, <1>3, InductiveInvariant, StreamsAreKept, EndsAreKept, PTL
     DEF Spec, ImplementsMessageStream, Stream!Spec, Back!Spec

(* What an end has sent are messages of its script.                        *)
SaidOf(s) ==
  \A i \in 1 .. Len(hist[s].stream) : hist[s].stream[i] \in Messages(s)

(* It sends no others.                                                     *)
LEMMA SaidStep ==
  ASSUME Types, NEW s \in Peers, SaidOf(s), [Next]_vars
  PROVE  SaidOf(s)'
<1>0. hist \in [Peers -> Hist] /\ hist[s].stream \in Texts /\ scene' = scene
  BY HistFields, WhoMoves, Zenon DEF Types, Typing
<1>1. Messages(s)' = Messages(s)
  BY <1>0 DEF Messages, Message, Sent, Script
<1>2. CASE hist'[s].stream = hist[s].stream
  BY <1>1, <1>2, Zenon DEF SaidOf
<1>3. CASE SaysMore(s)
  <2>1. PICK m \in Messages(s) : hist' = [hist EXCEPT ![s].stream = Append(hist[s].stream, m)]
    <3>1. \A x \in Text \cap Messages(s) : x \in Messages(s)
      OBVIOUS
    <3>2. QED
      BY <1>3, <3>1, Zenon DEF SaysMore
  <2> DEFINE w == hist[s].stream
             w1 == Append(w, m)
  <2>2. hist'[s].stream = w1
    <3>1. hist' = [hist EXCEPT ![s].stream = w1]
      BY <2>1
    <3> HIDE DEF w1
    <3>2. QED
      BY <1>0, <3>1 DEF Hist
  <2>3. w \in Seq(Text)
    BY <1>0, Zenon DEF Texts
  <2>4. \A i \in 1 .. Len(w) : w[i] \in Messages(s)
    BY Zenon DEF SaidOf
  <2>5. \A i \in 1 .. Len(w1) : w1[i] \in Messages(s)
    <3> HIDE DEF w
    <3>1. Len(w1) = Len(w) + 1 /\ w1[Len(w) + 1] = m /\ Len(w) \in Nat
      BY <2>3
    <3>2. \A i \in 1 .. Len(w) : w1[i] = w[i]
      BY <2>3
    <3>3. \A i \in 1 .. Len(w) + 1 : i \in 1 .. Len(w) \/ i = Len(w) + 1
      BY <3>1
    <3> HIDE DEF w1
    <3>4. QED
      BY <2>1, <2>4, <3>1, <3>2, <3>3, Zenon
  <2>6. QED
    BY <1>1, <2>2, <2>5, Zenon DEF SaidOf
<1>4. CASE SendReturn(s)
  <2>1. hist' = hist \/ \E x : hist' = [hist EXCEPT ![s].promised = x]
    BY <1>4, Zenon DEF SendReturn
  <2>2. hist'[s].stream = hist[s].stream
    BY <1>0, <2>1 DEF Hist
  <2>3. QED
    BY <1>2, <2>2
<1>5. QED
  BY <1>2, <1>3, <1>4, SentStays, Zenon

(* conn_linux.go:271 "RecvMsg blocks until a full message arrives and      *)
(* returns it": where no application closes the end it receives on,        *)
(* whatever a call returns is a message of its peer, complete. (The run    *)
(* bug_close_truncates shows what becomes of it where one does.)           *)
THEOREM WholeMessagesOnly ==
  Spec => [](Ample /\ Steady => OnlyWholeMessages)
<1> DEFINE Said == \A s \in Peers : SaidOf(s)
<1>1. Init => Said
  <2>1. Init => \A s \in Peers : hist[s].stream = <<>>
    BY DEF Init
  <2>2. \A i \in 1 .. Len(<<>>) : FALSE
    OBVIOUS
  <2>3. QED
    BY <2>1, <2>2, Zenon DEF SaidOf
<1>2. IInv /\ Said /\ [Next]_vars => Said'
  <2> SUFFICES ASSUME IInv, Said, [Next]_vars, NEW s \in Peers PROVE SaidOf(s)'
    OBVIOUS
  <2>1. Types /\ SaidOf(s)
    BY IInvTypes, Zenon
  <2>2. QED
    BY <2>1, SaidStep, Zenon
<1>3. IInv /\ StreamInv /\ EndsInv /\ Said => (Ample /\ Steady => OnlyWholeMessages)
  <2> SUFFICES ASSUME IInv, StreamInv, EndsInv, Said, Ample, Steady, NEW r \in Peers,
                      NEW i \in DOMAIN hist[r].got
               PROVE  hist[r].got[i] \in Messages(Peer(r))
    BY Zenon DEF OnlyWholeMessages, Messages
  <2> DEFINE got == hist[r].got
             stream == hist[Peer(r)].stream
  <2>1. Typing /\ OpenOf(r) /\ EndOf(r) /\ StreamOf(r) /\ Peer(r) \in Peers
    BY ThePeers, Zenon DEF IInv, StreamInv, EndsInv
  <2>2. IsPrefix(got, stream)
    BY <2>1, GotIsPrefix, Zenon
  <2>3. got \in Seq(Text) /\ stream \in Seq(Text)
    BY <2>1, HistFields, Zenon DEF Typing, Texts
  <2>4. \A j \in 1 .. Len(stream) : stream[j] \in Messages(Peer(r))
    BY <2>1, Zenon DEF SaidOf
  <2> HIDE DEF got, stream, Said
  <2>5. Len(got) <= Len(stream) /\ \A j \in 1 .. Len(got) : got[j] = stream[j]
    BY <2>2, <2>3, PrefixAt
  <2>6. i \in 1 .. Len(got)
    <3>1. i \in DOMAIN got
      BY Zenon DEF got
    <3>2. QED
      BY <2>3, <3>1
  <2>7. i \in 1 .. Len(stream)
    BY <2>3, <2>5, <2>6
  <2>8. got[i] \in Messages(Peer(r))
    BY <2>4, <2>5, <2>6, <2>7, Zenon
  <2>9. QED
    BY <2>8, Zenon DEF got
<1> HIDE DEF Said
<1>4. QED
  BY <1>1, <1>2, <1>3, InductiveInvariant, StreamsAreKept, EndsAreKept, PTL DEF Spec
=============================================================================
