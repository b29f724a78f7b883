---------------------------- MODULE StreamProofs ----------------------------
(***************************************************************************)
(* The two streams, for every plan length, window and hop, and every way   *)
(* to cut the signal or its frames into calls.                             *)
(*                                                                         *)
(* The forward stream delivers the frames of the whole signal, if the hop  *)
(* is not longer than the window.  The inductive invariant says where the  *)
(* buffer starts: at the first sample of the next frame.                   *)
(*                                                                         *)
(* The inverse stream gives out their overlap-add.  The inductive          *)
(* invariant reads queue and accumulator as one line of samples, those     *)
(* given out before them: each sums the frame samples that belong at its   *)
(* place.  The frames of one call are added by a recursive function, whose *)
(* values are reached by induction over the number of frames.              *)
(***************************************************************************)
EXTENDS StreamRoundTrip, Induction, SequenceTheorems

(* The buffer starts where the next frame starts.                            *)
Aligned ==
  /\ offset = 0
  /\ front = delivered * Hop
  /\ delivered > 0 => last = (delivered - 1) * Hop

StreamInv == TypeOK /\ Aligned

-----------------------------------------------------------------------------
(* Multiplication distributes.                                               *)
LEMMA Distributes ==
  ASSUME NEW a \in Nat, NEW b \in Nat, NEW h \in Nat
  PROVE  (a + b) * h = a * h + b * h
  BY SMT

(* k frames of those counted end within the samples they were counted in.    *)
LEMMA FramesFit ==
  ASSUME NEW samples \in Nat, NEW w \in Nat \ {0}, NEW h \in Nat \ {0},
         NEW k \in Nat, k >= 1, k <= FullFrames(samples, w, h)
  PROVE  (k - 1) * h + w <= samples
<1>1. samples >= w /\ k <= 1 + (samples - w) \div h
  BY DEF FullFrames
<1> DEFINE x == samples - w
           q == x \div h
<1>2. x \in Nat
  BY <1>1
<1>3. q \in Nat /\ q * h <= x
  BY <1>2, SMT
<1>4. k - 1 \in Nat /\ k - 1 <= q
  BY <1>1, <1>3
<1>5. (k - 1) * h <= q * h
  <2> DEFINE d == q - (k - 1)
             j == k - 1
  <2>1. d \in Nat /\ j \in Nat /\ q = j + d
    BY <1>3, <1>4
  <2>2. (j + d) * h = j * h + d * h
    BY <2>1, Distributes
  <2>3. d * h \in Nat /\ j * h \in Nat
    BY <2>1
  <2> HIDE DEF d, j
  <2>4. q * h = j * h + d * h
    BY <2>1, <2>2
  <2>5. j * h <= q * h
    BY <2>3, <2>4
  <2> QED BY <2>5 DEF j
<1>6. (k - 1) * h \in Nat /\ q * h \in Nat
  BY <1>3, <1>4
<1> HIDE DEF q
<1> QED BY <1>1, <1>3, <1>5, <1>6

-----------------------------------------------------------------------------
(* An empty stream is aligned.                                               *)
LEMMA InitAligned == Init => StreamInv
  BY StreamAssumption DEF Init, StreamInv, TypeOK, Aligned, FlushModes

(* One call keeps the buffer aligned, and the frames it produces are the     *)
(* next ones of the signal.                                                  *)
LEMMA PushStep ==
  ASSUME Hop <= Window, StreamInv,
         NEW n \in Pieces, NEW limit \in Limits, NEW flush \in FlushModes,
         PushPcm(n, limit, flush)
  PROVE  StreamInv' /\ Ideal!Call
<1> DEFINE available == FullFrames(back + n - front - offset, Window, Hop)
           asked == IF limit # 0 /\ available > limit THEN limit ELSE available
<1>1. n \in Nat /\ limit \in Nat /\ Window \in Nat \ {0} /\ Hop \in Nat \ {0}
  BY StreamAssumption
<1>2. /\ front \in Nat /\ back \in Nat /\ front <= back /\ offset = 0
      /\ delivered \in Nat /\ last \in Nat /\ front = delivered * Hop
      /\ delivered > 0 => last = (delivered - 1) * Hop
  BY DEF StreamInv, TypeOK, Aligned
<1> DEFINE samples == back + n - front
<1>3. samples \in Nat /\ available = FullFrames(samples, Window, Hop)
  BY <1>1, <1>2
<1>4. available \in Nat
  <2>1. CASE samples < Window
    BY <2>1, <1>3 DEF FullFrames
  <2>2. CASE samples >= Window
    <3>1. samples - Window \in Nat
      BY <1>1, <1>3, <2>2
    <3>2. (samples - Window) \div Hop \in Nat
      BY <1>1, <3>1, SMT
    <3> QED BY <1>1, <1>3, <2>2, <3>2 DEF FullFrames
  <2> QED BY <1>1, <1>3, <2>1, <2>2
<1>5. asked \in Nat /\ asked <= available
  BY <1>1, <1>4
<1>6. back' = back + n
  BY DEF PushPcm
<1>7. PICK k \in 0..(IF Window > PlanSize THEN 0 ELSE asked) :
        /\ IF k = 0 THEN UNCHANGED <<front, offset, last>>
           ELSE Consume(n, k) /\ last' = front + offset + (k - 1) * Hop
        /\ delivered' = delivered + k
        /\ flushed' = IF k = available THEN flush ELSE "none"
  BY DEF PushPcm
<1>8. k \in Nat /\ k <= available
  BY <1>4, <1>5, <1>7
<1>9. flushed' \in FlushModes
  BY <1>7 DEF FlushModes
<1> HIDE DEF available, asked
<1>10. CASE k = 0
  <2>1. front' = front /\ offset' = offset /\ last' = last /\ delivered' = delivered
    BY <1>2, <1>7, <1>10
  <2>2. back' \in Nat /\ back' >= back /\ front' <= back'
    BY <1>1, <1>2, <1>6, <2>1
  <2> QED BY <1>2, <1>9, <2>1, <2>2 DEF StreamInv, TypeOK, Aligned, Ideal!Call
<1>11. CASE k # 0
  <2> DEFINE start == delivered * Hop
             span == (k - 1) * Hop
  <2>1. span + Window <= samples /\ span \in Nat
    <3>1. k >= 1 /\ k <= FullFrames(samples, Window, Hop)
      BY <1>3, <1>8, <1>11
    <3>2. span + Window <= samples
      BY <1>1, <1>3, <1>8, <3>1, FramesFit
    <3>3. k - 1 \in Nat
      BY <1>8, <3>1
    <3> QED BY <1>1, <3>2, <3>3
  <2>2. k * Hop = span + Hop
    <3>1. k - 1 \in Nat /\ 1 \in Nat /\ Hop \in Nat /\ k = (k - 1) + 1
      BY <1>1, <1>8, <1>11
    <3>2. ((k - 1) + 1) * Hop = (k - 1) * Hop + 1 * Hop
      BY <3>1, Distributes
    <3> QED BY <3>1, <3>2
  <2>3. (delivered + k) * Hop = start + (span + Hop)
    BY <1>1, <1>2, <1>8, <2>2, Distributes
  <2>4. (delivered + k - 1) * Hop = start + span
    <3>1. k - 1 \in Nat /\ delivered + k - 1 = delivered + (k - 1)
      BY <1>2, <1>8, <1>11
    <3> QED BY <1>1, <1>2, <3>1, Distributes
  <2>5. start \in Nat /\ front = start
    BY <1>1, <1>2
  <2>6. /\ front' = IF k * Hop >= back + n - front THEN back + n ELSE front + k * Hop
        /\ offset' = 0 /\ last' = front + (k - 1) * Hop
        /\ delivered' = delivered + k
    <3>1. /\ Consume(n, k) /\ last' = front + offset + (k - 1) * Hop
          /\ delivered' = delivered + k
      BY <1>7, <1>11
    <3>2. k * Hop \in Nat
      BY <1>1, <2>1, <2>2
    <3>3. offset + k * Hop = k * Hop /\ front + offset = front
      BY <1>2, <3>2
    <3> QED BY <3>1, <3>3 DEF Consume
  <2> DEFINE step == k * Hop
  <2> HIDE DEF start, span, step
  <2>7. front' = start + (span + Hop)
    <3>1. step = span + Hop
      BY <2>2 DEF step
    <3>2. front' = IF step >= back + n - front THEN back + n ELSE front + step
      BY <2>6 DEF step
    <3> QED BY <1>1, <1>2, <2>1, <2>5, <3>1, <3>2
  <2>8. front' \in Nat /\ front' <= back' /\ back' \in Nat
    BY <1>1, <1>2, <1>6, <2>1, <2>5, <2>7
  <2>9. last' = start + span
    BY <2>5, <2>6 DEF span
  <2>10. front' = delivered' * Hop /\ last' = (delivered' - 1) * Hop
    <3>1. delivered' = delivered + k
      BY <2>6
    <3>2. delivered' * Hop = start + (span + Hop)
      BY <2>3, <3>1
    <3>3. (delivered' - 1) * Hop = start + span
      <4>1. delivered' - 1 = delivered + k - 1
        BY <1>2, <1>8, <3>1
      <4> QED BY <2>4, <4>1, Zenon
    <3> QED BY <2>7, <2>9, <3>2, <3>3
  <2>11. last' + Window <= back' /\ last' \in Nat
    BY <1>1, <1>2, <1>6, <2>1, <2>5, <2>9
  <2>12. delivered' \in Nat /\ delivered' > delivered /\ back' >= back
    BY <1>1, <1>2, <1>6, <1>8, <1>11, <2>6
  <2>13. StreamInv'
    BY <1>9, <2>6, <2>8, <2>10, <2>11, <2>12 DEF StreamInv, TypeOK, Aligned
  <2>14. Ideal!Call
    <3>1. delivered' >= delivered
      BY <1>2, <2>12
    <3> QED BY <2>10, <2>11, <2>12, <3>1 DEF Ideal!Call
  <2> QED BY <2>13, <2>14
<1> QED BY <1>10, <1>11

(* A reset of the forward stream starts a new signal.                        *)
LEMMA ResetStep == Reset => StreamInv' /\ Ideal!Reset
  BY StreamAssumption DEF Reset, StreamInv, TypeOK, Aligned, FlushModes, Ideal!Reset

(* Every call and reset keeps the stream aligned and is a step of            *)
(* FrameStream, or none.                                                     *)
LEMMA StreamStep ==
  ASSUME Hop <= Window, StreamInv, [Next]_vars
  PROVE  StreamInv' /\ [Ideal!Next]_(Ideal!vars)
<1>1. CASE \E n \in Pieces, limit \in Limits, flush \in FlushModes : PushPcm(n, limit, flush)
  BY <1>1, PushStep DEF Ideal!Next
<1>2. CASE Reset
  BY <1>2, ResetStep DEF Ideal!Next
<1>3. CASE UNCHANGED vars
  BY <1>3 DEF vars, StreamInv, TypeOK, Aligned, Ideal!vars
<1> QED BY <1>1, <1>2, <1>3 DEF Next

-----------------------------------------------------------------------------
(* Every frame of the forward stream starts a whole number of hops into the  *)
(* signal, for every window and every hop up to the window's length.         *)
THEOREM FramesAreHopAligned ==
  ASSUME Hop <= Window
  PROVE  Spec => []HopAligned
<1>1. StreamInv => HopAligned
  BY DEF StreamInv, Aligned, HopAligned
<1>2. StreamInv /\ [Next]_vars => StreamInv'
  BY StreamStep
<1> QED BY InitAligned, <1>1, <1>2, PTL DEF Spec

\* With the read position at the next frame, the backlog is what the signal
\* still owes; only a buffer read to its end may be short of that position.
LEMMA BacklogIsOwed == StreamInv => OwesTheRest
<1> SUFFICES ASSUME StreamInv PROVE OwesTheRest
  OBVIOUS
<1> DEFINE next == delivered * Hop
<1>1. front \in Nat /\ back \in Nat /\ front <= back /\ offset = 0 /\ front = next
  BY DEF StreamInv, Aligned, TypeOK
<1>2. Backlog = back - next /\ next <= back
  BY <1>1 DEF Backlog
<1>3. Pending = IF back < next THEN 0 ELSE FullFrames(back - next, Window, Hop)
  BY <1>1, <1>2 DEF Pending
<1>4. front >= next
  BY <1>1
<1> QED BY <1>3, <1>4 DEF OwesTheRest

(* What the stream reports as pending is what the signal so far still owes,  *)
(* and its buffer keeps no sample that is no longer needed.                  *)
THEOREM StreamOwesTheRest ==
  ASSUME Hop <= Window
  PROVE  Spec => []OwesTheRest
<1>1. StreamInv /\ [Next]_vars => StreamInv'
  BY StreamStep
<1> QED BY InitAligned, BacklogIsOwed, <1>1, PTL DEF Spec

(* fft_stream_push_pcm implements the ideal stream of frames.                *)
THEOREM StreamDelivers ==
  ASSUME Hop <= Window
  PROVE  Spec => DeliversTheSignal
<1>1. Init => Ideal!Init
  BY DEF Init, Ideal!Init
<1>2. StreamInv /\ [Next]_vars => StreamInv' /\ [Ideal!Next]_(Ideal!vars)
  BY StreamStep
<1> QED BY InitAligned, <1>1, <1>2, PTL DEF Spec, DeliversTheSignal, Ideal!Spec

-----------------------------------------------------------------------------
(* The inverse stream.                                                     *)

Parts == SUBSET (Nat \X Nat)          \* what one sample sums
Samp == [sum : Parts, weight : Parts, normed : BOOLEAN]
Buffer == [Synth!Index -> Parts]
Norms == Buffer \cup {Synth!Absent}
Running == [accum : Buffer, norm : Norms, queue : Seq(Samp), placed : Seq(Nat), base : Nat]

(* What frames placed at pl have at output position p.                       *)
Summed(pl, p) == {<<f, p - pl[f]>> : f \in {g \in DOMAIN pl : p - pl[g] \in Synth!Index}}

(* Output out and accumulator a, one after the other, sum the frames at pl,  *)
(* and no frame starts after the output.                                     *)
Overlapped(out, pl, a) ==
  /\ out \in Seq(Samp) /\ pl \in Seq(Nat) /\ a \in Buffer
  /\ \A f \in DOMAIN pl : pl[f] <= Len(out)
  /\ \A n \in DOMAIN out : out[n].sum = Summed(pl, n - 1)
  /\ \A i \in Synth!Index : a[i] = Summed(pl, Len(out) + i)

(* Norms, where there are any, are of the samples beside them.               *)
Weighted(out, a, w) ==
  /\ \A n \in DOMAIN out : out[n].normed => out[n].weight = out[n].sum
  /\ w # Synth!Absent => w = a

-----------------------------------------------------------------------------
(* Sums are of frames and their samples.                                     *)
LEMMA SummedIsParts ==
  ASSUME NEW pl \in Seq(Nat), NEW p \in Nat
  PROVE  Summed(pl, p) \in Parts
  BY DEF Summed, Parts, Synth!Index

(* Silence is a buffer of nothing, and not the vector of size zero.          *)
LEMMA SilenceIs ==
  /\ Synth!Silence \in Buffer /\ Synth!Silence # Synth!Absent
  /\ \A i \in Synth!Index : Synth!Silence[i] = {}
<1>1. 0 \in Synth!Index
  BY RoundTripAssumption, StreamAssumption DEF Synth!Index
<1>2. DOMAIN Synth!Silence = Synth!Index /\ DOMAIN Synth!Absent = {}
  BY DEF Synth!Silence, Synth!Absent
<1>3. Synth!Silence # Synth!Absent
  BY <1>1, <1>2
<1> QED BY <1>3 DEF Synth!Silence, Buffer, Parts

(* A buffer of the plan's length is not empty.                               *)
LEMMA BufferIsThere ==
  ASSUME NEW a \in Buffer
  PROVE  a # Synth!Absent
<1>1. 0 \in Synth!Index
  BY StreamAssumption, RoundTripAssumption DEF Synth!Index
<1>2. DOMAIN a = Synth!Index /\ DOMAIN Synth!Absent = {}
  BY DEF Buffer, Synth!Absent
<1> QED BY <1>1, <1>2

(* The first n samples of a buffer, queued.                                  *)
LEMMA SamplesAre ==
  ASSUME NEW a \in Buffer, NEW w \in Norms, NEW n \in 0..PlanSize
  PROVE  /\ Synth!Samples(a, w, n) \in Seq(Samp)
         /\ Len(Synth!Samples(a, w, n)) = n
         /\ \A j \in 1..n : /\ j - 1 \in Synth!Index
                            /\ Synth!Samples(a, w, n)[j] = Synth!Sample(a, w, j - 1)
<1> DEFINE e == Synth!Samples(a, w, n)
<1>1. n \in Nat /\ PlanSize \in Nat
  BY StreamAssumption
<1>2. ASSUME NEW j \in 1..n PROVE j - 1 \in Synth!Index /\ Synth!Sample(a, w, j - 1) \in Samp
  <2>1. j - 1 \in Synth!Index
    BY <1>1 DEF Synth!Index
  <2>2. a[j - 1] \in Parts /\ (w # Synth!Absent => w[j - 1] \in Parts) /\ {} \in Parts
    BY <2>1 DEF Buffer, Norms, Parts
  <2> QED BY <2>1, <2>2 DEF Synth!Sample, Samp
<1>3. e = [j \in 1..n |-> Synth!Sample(a, w, j - 1)]
  BY DEF Synth!Samples
<1>4. e \in Seq(Samp) /\ Len(e) = n
  BY <1>1, <1>2, <1>3
<1> QED BY <1>2, <1>3, <1>4

(* A frame added at the end of the output: what moves out of the accumulator *)
(* and what stays in it sums the frames placed so far and the new one.       *)
LEMMA AddedOverlap ==
  ASSUME NEW out, NEW pl, NEW a, NEW w \in Norms, NEW n \in 0..PlanSize,
         Overlapped(out, pl, a)
  PROVE  LET f == Len(pl) + 1
             b == Synth!Added(a, f)
         IN  Overlapped(out \o Synth!Samples(b, w, n), Append(pl, Len(out)),
                        Synth!Shifted(b, n))
<1> DEFINE f == Len(pl) + 1
           b == Synth!Added(a, f)
           pl2 == Append(pl, Len(out))
           more == Synth!Samples(b, w, n)
           out2 == out \o more
           rest == Synth!Shifted(b, n)
<1>1. /\ out \in Seq(Samp) /\ pl \in Seq(Nat) /\ a \in Buffer
      /\ Len(out) \in Nat /\ Len(pl) \in Nat /\ n \in Nat /\ PlanSize \in Nat
      /\ DOMAIN pl = 1..Len(pl) /\ DOMAIN out = 1..Len(out)
      /\ \A g \in 1..Len(pl) : pl[g] \in Nat /\ pl[g] <= Len(out)
  BY StreamAssumption DEF Overlapped
<1>2. /\ pl2 \in Seq(Nat) /\ Len(pl2) = f /\ DOMAIN pl2 = 1..f
      /\ \A g \in 1..Len(pl) : pl2[g] = pl[g]
      /\ pl2[f] = Len(out)
  BY <1>1, AppendProperties
<1> HIDE DEF pl2
<1>3. ASSUME NEW p \in Nat, p < Len(out) PROVE Summed(pl2, p) = Summed(pl, p)
  <2>1. p - Len(out) \notin Synth!Index
    BY <1>1, <1>3 DEF Synth!Index
  <2>2. {g \in DOMAIN pl2 : p - pl2[g] \in Synth!Index}
          = {g \in DOMAIN pl : p - pl[g] \in Synth!Index}
    BY <1>1, <1>2, <2>1, SMTT(30)
  <2>3. \A g \in DOMAIN pl : pl2[g] = pl[g]
    BY <1>1, <1>2
  <2> QED BY <2>2, <2>3 DEF Summed
<1>4. ASSUME NEW i \in Synth!Index
      PROVE  Summed(pl2, Len(out) + i) = Summed(pl, Len(out) + i) \cup {<<f, i>>}
  <2> DEFINE p == Len(out) + i
  <2>1. p - Len(out) = i /\ p \in Nat
    BY <1>1 DEF Synth!Index
  <2> HIDE DEF p
  <2>2. {g \in DOMAIN pl2 : p - pl2[g] \in Synth!Index}
          = {g \in DOMAIN pl : p - pl[g] \in Synth!Index} \cup {f}
    <3>1. DOMAIN pl2 = DOMAIN pl \cup {f} /\ f \notin DOMAIN pl
      BY <1>1, <1>2
    <3>2. p - pl2[f] \in Synth!Index
      BY <1>2, <2>1
    <3>3. \A g \in DOMAIN pl : pl2[g] = pl[g]
      BY <1>1, <1>2
    <3> HIDE DEF f
    <3> QED BY <3>1, <3>2, <3>3
  <2>3. \A g \in DOMAIN pl : pl2[g] = pl[g]
    BY <1>1, <1>2
  <2>4. p - pl2[f] = i
    BY <1>2, <2>1
  <2>5. Summed(pl2, p) = Summed(pl, p) \cup {<<f, i>>}
    BY <2>2, <2>3, <2>4 DEF Summed
  <2> QED BY <2>5 DEF p
<1>5. ASSUME NEW p \in Nat, p >= Len(out) + PlanSize PROVE Summed(pl2, p) = {}
  <2>1. \A g \in DOMAIN pl2 : p - pl2[g] \notin Synth!Index
    BY <1>1, <1>2, <1>5, SMTT(30) DEF Synth!Index
  <2> QED BY <2>1 DEF Summed
<1>6. b \in Buffer /\ \A i \in Synth!Index : b[i] = Summed(pl2, Len(out) + i)
  <2>1. DOMAIN a = Synth!Index
    BY <1>1 DEF Buffer
  <2>2. ASSUME NEW i \in Synth!Index
        PROVE  b[i] = Summed(pl2, Len(out) + i) /\ b[i] \in Parts
    <3>1. b[i] = a[i] \cup {<<f, i>>}
      BY <2>1 DEF Synth!Added
    <3>2. a[i] = Summed(pl, Len(out) + i)
      BY DEF Overlapped
    <3>3. b[i] = Summed(pl2, Len(out) + i)
      BY <3>1, <3>2, <1>4
    <3>4. Len(out) + i \in Nat
      BY <1>1 DEF Synth!Index
    <3> QED BY <3>3, <3>4, <1>2, SummedIsParts
  <2>3. b = [i \in Synth!Index |-> b[i]]
    BY <2>1 DEF Synth!Added
  <2> QED BY <2>2, <2>3 DEF Buffer
<1> HIDE DEF b
<1>7. /\ more \in Seq(Samp) /\ Len(more) = n
      /\ \A j \in 1..n : j - 1 \in Synth!Index /\ more[j] = Synth!Sample(b, w, j - 1)
  BY <1>6, SamplesAre
<1> HIDE DEF more
<1>8. /\ out2 \in Seq(Samp) /\ Len(out2) = Len(out) + n /\ DOMAIN out2 = 1..(Len(out) + n)
      /\ \A m \in 1..(Len(out) + n) :
           out2[m] = IF m <= Len(out) THEN out[m] ELSE more[m - Len(out)]
  <2>1. /\ out \o more \in Seq(Samp) /\ Len(out \o more) = Len(out) + Len(more)
        /\ \A m \in 1..(Len(out) + Len(more)) :
             (out \o more)[m] = IF m <= Len(out) THEN out[m] ELSE more[m - Len(out)]
    <3>1. out \in Seq(Samp) /\ more \in Seq(Samp)
      BY <1>1, <1>7
    <3> QED BY <3>1, ConcatProperties
  <2>2. out2 \in Seq(Samp) /\ Len(out2) = Len(out) + n
    BY <2>1, <1>7
  <2>3. DOMAIN out2 = 1..(Len(out) + n)
    BY <2>2, LenProperties
  <2>4. Len(out) + Len(more) = Len(out) + n
    BY <1>7
  <2> HIDE DEF more
  <2> QED BY <2>1, <2>2, <2>3, <2>4, Zenon
<1> HIDE DEF out2
<1>9. ASSUME NEW m \in DOMAIN out2 PROVE out2[m].sum = Summed(pl2, m - 1)
  <2>1. CASE m <= Len(out)
    <3>1. out2[m] = out[m] /\ m \in DOMAIN out /\ m - 1 \in Nat /\ m - 1 < Len(out)
      BY <1>1, <1>8, <2>1
    <3>2. out[m].sum = Summed(pl, m - 1)
      BY <3>1 DEF Overlapped
    <3> QED BY <3>1, <3>2, <1>3
  <2>2. CASE ~(m <= Len(out))
    <3> DEFINE j == m - Len(out)
    <3>1. j \in 1..n /\ Len(out) + (j - 1) = m - 1 /\ out2[m] = more[j]
      BY <1>1, <1>8, <2>2
    <3> HIDE DEF j
    <3>2. more[j].sum = b[j - 1]
      BY <3>1, <1>7 DEF Synth!Sample
    <3>3. b[j - 1] = Summed(pl2, Len(out) + (j - 1))
      BY <3>1, <1>6, <1>7
    <3> QED BY <3>1, <3>2, <3>3
  <2> QED BY <2>1, <2>2
<1>10. /\ rest \in Buffer
       /\ \A i \in Synth!Index : rest[i] = Summed(pl2, Len(out2) + i)
  <2>1. DOMAIN b = Synth!Index
    BY <1>6 DEF Buffer
  <2>2. ASSUME NEW i \in Synth!Index
        PROVE  rest[i] = Summed(pl2, Len(out2) + i) /\ rest[i] \in Parts
    <3>1. rest[i] = IF i + n < PlanSize THEN b[i + n] ELSE {}
      BY <2>1 DEF Synth!Shifted
    <3>2. i \in Nat
      BY DEF Synth!Index
    <3>3. CASE i + n < PlanSize
      <4>1. i + n \in Synth!Index /\ Len(out) + (i + n) = Len(out2) + i
        BY <1>1, <1>8, <3>2, <3>3 DEF Synth!Index
      <4>2. b[i + n] \in Parts
        BY <4>1, <1>6 DEF Buffer
      <4> QED BY <3>1, <3>3, <4>1, <4>2, <1>6
    <3>4. CASE ~(i + n < PlanSize)
      <4>1. Len(out2) + i \in Nat /\ Len(out2) + i >= Len(out) + PlanSize
        BY <1>1, <1>8, <3>2, <3>4
      <4> QED BY <3>1, <3>4, <4>1, <1>5 DEF Parts
    <3> QED BY <3>3, <3>4
  <2>3. rest = [i \in Synth!Index |-> rest[i]]
    BY <2>1 DEF Synth!Shifted
  <2> QED BY <2>2, <2>3 DEF Buffer
<1>11. \A g \in DOMAIN pl2 : pl2[g] <= Len(out2)
  <2>1. Len(out2) >= Len(out) /\ Len(out2) \in Nat
    BY <1>1, <1>8
  <2>2. ASSUME NEW g \in 1..f PROVE pl2[g] <= Len(out)
    <3>1. CASE g \in 1..Len(pl)
      <4>1. pl2[g] = pl[g] /\ pl[g] <= Len(out)
        BY <3>1, <1>1, <1>2
      <4> QED BY <4>1
    <3>2. CASE g = f
      <4>1. pl2[g] = Len(out)
        BY <3>2, <1>2
      <4> QED BY <4>1, <1>1
    <3>3. g \in 1..Len(pl) \/ g = f
      BY <1>1
    <3> QED BY <3>1, <3>2, <3>3
  <2>3. pl2 \in [1..f -> Nat]
    BY <1>2
  <2> QED BY <1>1, <1>2, <2>1, <2>2, <2>3
<1> HIDE DEF rest
<1>12. Overlapped(out2, pl2, rest)
  BY <1>2, <1>8, <1>9, <1>10, <1>11 DEF Overlapped
<1> QED BY <1>12 DEF out2, pl2, rest, more, b

(* A missing norm stays missing; one that is there keeps its length.         *)
LEMMA NormsStay ==
  ASSUME NEW w \in Norms, NEW f \in Nat, NEW n \in 0..PlanSize
  PROVE  /\ Synth!Added(w, f) \in Norms /\ Synth!Shifted(w, n) \in Norms
         /\ w = Synth!Absent <=> Synth!Added(w, f) = Synth!Absent
         /\ w = Synth!Absent <=> Synth!Shifted(w, n) = Synth!Absent
<1>1. CASE w = Synth!Absent
  <2>1. DOMAIN w = {}
    BY <1>1 DEF Synth!Absent
  <2>2. Synth!Added(w, f) = Synth!Absent /\ Synth!Shifted(w, n) = Synth!Absent
    BY <2>1 DEF Synth!Added, Synth!Shifted, Synth!Absent
  <2> QED BY <1>1, <2>2 DEF Norms
<1>2. CASE w # Synth!Absent
  <2>1. w \in Buffer /\ DOMAIN w = Synth!Index
    BY <1>2 DEF Norms, Buffer
  <2>2. \A i \in Synth!Index : i \in Nat /\ w[i] \in Parts
    BY <2>1 DEF Buffer, Synth!Index
  <2>3. Synth!Added(w, f) \in Buffer
    <3>1. \A i \in Synth!Index : w[i] \cup {<<f, i>>} \in Parts
      BY <2>2 DEF Parts
    <3> QED BY <2>1, <3>1 DEF Synth!Added, Buffer
  <2>4. Synth!Shifted(w, n) \in Buffer
    <3>1. \A i \in Synth!Index : (IF i + n < PlanSize THEN w[i + n] ELSE {}) \in Parts
      <4> TAKE i \in Synth!Index
      <4>1. i + n < PlanSize => i + n \in Synth!Index
        BY StreamAssumption DEF Synth!Index
      <4> QED BY <4>1, <2>2 DEF Parts
    <3> QED BY <2>1, <3>1 DEF Synth!Shifted, Buffer
  <2>5. Synth!Added(w, f) # Synth!Absent /\ Synth!Shifted(w, n) # Synth!Absent
    BY <2>3, <2>4, BufferIsThere
  <2> QED BY <1>2, <2>3, <2>4, <2>5 DEF Norms
<1> QED BY <1>1, <1>2

(* What is appended to the output is weighed by its own parts.               *)
LEMMA WeightsFollow ==
  ASSUME NEW out \in Seq(Samp), NEW a \in Buffer, NEW w \in Norms, NEW n \in 0..PlanSize,
         Weighted(out, a, w)
  PROVE  \A m \in DOMAIN (out \o Synth!Samples(a, w, n)) :
           LET o == (out \o Synth!Samples(a, w, n))[m]
           IN  o.normed => o.weight = o.sum
<1> DEFINE more == Synth!Samples(a, w, n)
           out2 == out \o more
<1>1. /\ more \in Seq(Samp) /\ Len(more) = n
      /\ \A j \in 1..n : more[j] = Synth!Sample(a, w, j - 1)
  BY SamplesAre
<1> HIDE DEF more
<1>2. /\ out2 \in Seq(Samp) /\ Len(out2) = Len(out) + Len(more)
      /\ \A m \in 1..(Len(out) + Len(more)) :
           out2[m] = IF m <= Len(out) THEN out[m] ELSE more[m - Len(out)]
  <2>1. out \in Seq(Samp) /\ more \in Seq(Samp)
    BY <1>1
  <2> QED BY <2>1, ConcatProperties
<1> HIDE DEF out2
<1>3. ASSUME NEW m \in DOMAIN out2 PROVE out2[m].normed => out2[m].weight = out2[m].sum
  <2>1. m \in 1..(Len(out) + n) /\ Len(out) \in Nat /\ DOMAIN out = 1..Len(out) /\ n \in Nat
    BY <1>1, <1>2
  <2>2. CASE m <= Len(out)
    <3>1. out2[m] = out[m] /\ m \in DOMAIN out
      BY <1>1, <1>2, <2>1, <2>2
    <3> QED BY <3>1 DEF Weighted
  <2>3. CASE ~(m <= Len(out))
    <3> DEFINE j == m - Len(out)
    <3>1. j \in 1..n /\ out2[m] = more[j]
      BY <1>1, <1>2, <2>1, <2>3
    <3> HIDE DEF j
    <3>2. more[j] = Synth!Sample(a, w, j - 1)
      BY <1>1, <3>1
    <3>3. w # Synth!Absent => w = a
      BY DEF Weighted
    <3> DEFINE o == Synth!Sample(a, w, j - 1)
    <3>4. o.normed = (w # Synth!Absent) /\ o.sum = a[j - 1]
      BY DEF Synth!Sample
    <3>5. w # Synth!Absent => o.weight = w[j - 1]
      BY DEF Synth!Sample
    <3>6. o.normed => o.weight = o.sum
      BY <3>3, <3>4, <3>5, Zenon
    <3> QED BY <3>1, <3>2, <3>6, Zenon
  <2> QED BY <2>2, <2>3
<1> QED BY <1>3 DEF out2, more

-----------------------------------------------------------------------------
Loaded(a) == IF a = Synth!Absent THEN Synth!Silence ELSE a

(* Frames placed hop by hop; a flushed section is longer by what the last    *)
(* frame has beyond its hop.                                                 *)
AtHops(pl) == \A f \in DOMAIN pl : pl[f] = (f - 1) * Hop
Lined(out, pl, complete) ==
  /\ AtHops(pl)
  /\ Len(out) = IF complete THEN (Len(pl) - 1) * Hop + PlanSize ELSE Len(pl) * Hop

InverseTypes ==
  /\ emitted \in Seq(Samp) /\ queue \in Seq(Samp)
  /\ accum \in Norms /\ norm \in Norms
  /\ cola \in BOOLEAN /\ mixed \in BOOLEAN

Sums == Overlapped(Synth!Output, placed, Loaded(accum))

Weights ==
  ~mixed => /\ Weighted(Synth!Output, accum, norm)
            /\ (cola /\ norm = Synth!Absent) => Synth!IsEmpty(accum)

Cuts ==
  /\ cuts \subseteq 0..Len(placed)
  /\ Len(placed) \in cuts => Synth!IsEmpty(accum)

Places ==
  (Hop <= PlanSize /\ cuts \subseteq {Len(placed)}) =>
    /\ AtHops(placed)
    /\ cuts = {} => Lined(Synth!Output, placed, FALSE)
    /\ (cuts # {} /\ placed # <<>>) =>
         Len(Synth!Output) >= (Len(placed) - 1) * Hop + PlanSize

InverseInv == InverseTypes /\ Sums /\ Weights /\ Cuts /\ Places

(* Where a call that has added n of its k frames has got to.                 *)
Reached(n, k, flush, s) ==
  LET out == emitted \o s.queue
      complete == n = k /\ k # 0 /\ flush = "final"
  IN  /\ s \in Running /\ s.base = Len(emitted)
      /\ Len(s.placed) = Len(placed) + n
      /\ Overlapped(out, s.placed, s.accum)
      /\ ~mixed => Weighted(out, s.accum, s.norm)
      /\ cola => s.norm # Synth!Absent
      /\ complete => Synth!IsEmpty(s.accum)
      /\ (Hop <= PlanSize /\ cuts = {}) => Lined(out, s.placed, complete)

(* A buffer that holds nothing, and a missing one, are loaded as silence.    *)
LEMMA EmptyIsSilence ==
  ASSUME NEW a \in Norms, Synth!IsEmpty(a)
  PROVE  Loaded(a) = Synth!Silence
<1>1. CASE a = Synth!Absent
  BY <1>1 DEF Loaded
<1>2. CASE a # Synth!Absent
  <2>1. a \in Buffer
    BY <1>2 DEF Norms
  <2>2. a = [i \in Synth!Index |-> a[i]] /\ \A i \in Synth!Index : a[i] = {}
    BY <2>1 DEF Buffer, Synth!IsEmpty
  <2>3. a = Synth!Silence
    BY <2>2 DEF Synth!Silence
  <2> QED BY <1>2, <2>3 DEF Loaded
<1> QED BY <1>1, <1>2

(* What a call loads is a buffer.                                            *)
LEMMA LoadedIsBuffer ==
  ASSUME NEW a \in Norms
  PROVE  Loaded(a) \in Buffer /\ Loaded(a) # Synth!Absent
<1>1. CASE a = Synth!Absent
  BY <1>1, SilenceIs DEF Loaded
<1>2. CASE a # Synth!Absent
  BY <1>2 DEF Loaded, Norms
<1> QED BY <1>1, <1>2

(* The vectors as a call finds them.                                         *)
LEMMA SizedReached ==
  ASSUME InverseInv, NEW k \in Nat, NEW flush
  PROVE  Reached(0, k, flush, Synth!Sized)
<1> DEFINE s == Synth!Sized
           out == emitted \o queue
           w == IF ~cola THEN Synth!Absent ELSE IF norm = Synth!Absent THEN Synth!Silence ELSE norm
<1>1. s = [accum |-> Loaded(accum), norm |-> w, queue |-> queue, placed |-> placed, base |-> Len(emitted)]
  BY DEF Synth!Sized, Loaded
<1>2. s.accum = Loaded(accum) /\ s.norm = w /\ s.queue = queue /\ s.placed = placed /\ s.base = Len(emitted)
  BY <1>1
<1>3. /\ emitted \in Seq(Samp) /\ queue \in Seq(Samp) /\ accum \in Norms /\ norm \in Norms
      /\ placed \in Seq(Nat) /\ Len(placed) \in Nat /\ Len(emitted) \in Nat
  BY DEF InverseInv, InverseTypes, Sums, Overlapped
<1>4. w \in Norms /\ Loaded(accum) \in Buffer
  BY <1>3, SilenceIs, LoadedIsBuffer DEF Norms
<1>5. s \in Running
  <2> HIDE DEF w, s
  <2> QED BY <1>1, <1>3, <1>4 DEF Running
<1>6. Overlapped(out, s.placed, s.accum)
  BY <1>2 DEF InverseInv, Sums, Synth!Output
<1>7. ASSUME ~mixed PROVE Weighted(out, s.accum, s.norm)
  <2>1. Weighted(out, accum, norm) /\ ((cola /\ norm = Synth!Absent) => Synth!IsEmpty(accum))
    BY <1>7 DEF InverseInv, Weights, Synth!Output
  <2>2. w # Synth!Absent => w = Loaded(accum)
    <3>1. CASE cola /\ norm = Synth!Absent
      BY <3>1, <2>1, <1>3, EmptyIsSilence
    <3>2. CASE cola /\ norm # Synth!Absent
      <4>1. norm = accum
        BY <3>2, <2>1 DEF Weighted
      <4> QED BY <3>2, <4>1 DEF Loaded
    <3>3. CASE ~cola
      BY <3>3
    <3> QED BY <3>1, <3>2, <3>3
  <2> HIDE DEF w, s
  <2> QED BY <1>2, <2>1, <2>2 DEF Weighted
<1>8. ASSUME Hop <= PlanSize, cuts = {} PROVE Lined(out, s.placed, FALSE)
  BY <1>2, <1>8 DEF InverseInv, Places, Synth!Output
<1>9. Len(s.placed) = Len(placed) + 0
  BY <1>2, <1>3
<1>10. ~(0 = k /\ k # 0 /\ flush = "final")
  OBVIOUS
<1>11. cola => s.norm # Synth!Absent
  BY <1>2, SilenceIs
<1> HIDE DEF s
<1>12. out = emitted \o s.queue
  BY <1>2
<1> HIDE DEF out
<1>13. Reached(0, k, flush, s)
  BY <1>2, <1>5, <1>6, <1>7, <1>8, <1>9, <1>10, <1>11, <1>12 DEF Reached
<1> QED BY <1>13 DEF s

(* A hop, or the whole plan on a final flush.                                *)
LEMMA EmitIs ==
  ASSUME NEW end \in BOOLEAN, NEW flush
  PROVE  /\ Synth!Emit(end, flush) \in 0..PlanSize
         /\ Hop <= PlanSize => Synth!Emit(end, flush) = IF flush = "final" /\ end THEN PlanSize ELSE Hop
         /\ (flush = "final" /\ end) => Synth!Emit(end, flush) = PlanSize
  BY StreamAssumption DEF Synth!Emit

(* One frame added.                                                          *)
LEMMA AddFrameReaches ==
  ASSUME NEW k \in Nat, NEW n \in 1..k, NEW flush, NEW s, Reached(n - 1, k, flush, s),
         placed \in Seq(Nat), emitted \in Seq(Samp)
  PROVE  Reached(n, k, flush, Synth!AddFrame(s, Len(placed) + n, n = k, flush))
<1> DEFINE f == Len(placed) + n
           out == emitted \o s.queue
           b == Synth!Added(s.accum, f)
           w == Synth!Added(s.norm, f)
           m == Synth!Emit(n = k, flush)
           more == Synth!Samples(b, w, m)
           t == Synth!AddFrame(s, f, n = k, flush)
           out2 == emitted \o t.queue
           complete == n = k /\ k # 0 /\ flush = "final"
<1>1. /\ s \in Running /\ s.base = Len(emitted)
      /\ Len(s.placed) = Len(placed) + (n - 1)
      /\ Overlapped(out, s.placed, s.accum)
      /\ ~mixed => Weighted(out, s.accum, s.norm)
      /\ cola => s.norm # Synth!Absent
      /\ (Hop <= PlanSize /\ cuts = {}) => Lined(out, s.placed, FALSE)
  <2>1. ~(n - 1 = k /\ k # 0 /\ flush = "final")
    OBVIOUS
  <2> QED BY <2>1 DEF Reached
<1>2. /\ s.accum \in Buffer /\ s.norm \in Norms /\ s.queue \in Seq(Samp) /\ s.placed \in Seq(Nat)
      /\ Len(placed) \in Nat /\ Len(emitted) \in Nat /\ n \in Nat /\ Len(s.queue) \in Nat
  BY <1>1 DEF Running
<1>3. f = Len(s.placed) + 1 /\ f \in Nat
  BY <1>1, <1>2
<1>4. m \in 0..PlanSize
  BY EmitIs
<1>5. out \in Seq(Samp) /\ Len(out) = s.base + Len(s.queue)
  BY <1>1, <1>2, ConcatProperties
<1>6. t = [accum |-> Synth!Shifted(b, m), norm |-> Synth!Shifted(w, m), queue |-> s.queue \o more,
           placed |-> Append(s.placed, Len(out)), base |-> s.base]
  BY <1>5 DEF Synth!AddFrame
<1> HIDE DEF t, m, b, w, more, out
<1>7. /\ t.accum = Synth!Shifted(b, m) /\ t.norm = Synth!Shifted(w, m) /\ t.queue = s.queue \o more
      /\ t.placed = Append(s.placed, Len(out)) /\ t.base = s.base
  BY <1>6
<1> USE DEF b, w, more, out
<1>8. /\ w \in Norms /\ Synth!Shifted(w, m) \in Norms
      /\ s.norm = Synth!Absent <=> w = Synth!Absent
      /\ w = Synth!Absent <=> Synth!Shifted(w, m) = Synth!Absent
  <2> HIDE DEF f
  <2>1. w \in Norms /\ (s.norm = Synth!Absent <=> w = Synth!Absent)
    BY <1>2, <1>3, <1>4, NormsStay
  <2> HIDE DEF w
  <2>2. /\ Synth!Shifted(w, m) \in Norms
        /\ w = Synth!Absent <=> Synth!Shifted(w, m) = Synth!Absent
    BY <2>1, <1>3, <1>4, NormsStay
  <2> QED BY <2>1, <2>2
<1>9. b \in Buffer
  <2>1. s.accum \in Norms /\ s.accum # Synth!Absent
    BY <1>2, BufferIsThere DEF Norms
  <2>2. b \in Norms /\ b # Synth!Absent
    <3> HIDE DEF f
    <3> QED BY <2>1, <1>3, <1>4, NormsStay
  <2> QED BY <2>2 DEF Norms
<1>10. more \in Seq(Samp) /\ Len(more) = m
  <2> HIDE DEF b, w
  <2> QED BY <1>4, <1>8, <1>9, SamplesAre
<1>11. out2 = out \o more
  <2> HIDE DEF more
  <2>1. emitted \in Seq(Samp) /\ s.queue \in Seq(Samp) /\ more \in Seq(Samp)
    BY <1>2, <1>10
  <2>2. (emitted \o s.queue) \o more = emitted \o (s.queue \o more)
    <3> DEFINE q == s.queue
    <3>1. q \in Seq(Samp)
      BY <2>1
    <3> HIDE DEF q
    <3>2. (emitted \o q) \o more = emitted \o (q \o more)
      BY <2>1, <3>1, ConcatAssociative, SMTT(30)
    <3> QED BY <3>2 DEF q
  <2> QED BY <2>2, <1>7
<1>12. Overlapped(out2, t.placed, t.accum)
  <2> HIDE DEF out2, out
  <2>1. Overlapped(out \o Synth!Samples(Synth!Added(s.accum, Len(s.placed) + 1), w, m),
                   Append(s.placed, Len(out)),
                   Synth!Shifted(Synth!Added(s.accum, Len(s.placed) + 1), m))
    <3> HIDE DEF w
    <3> QED BY <1>1, <1>4, <1>8, AddedOverlap
  <2> QED BY <2>1, <1>3, <1>7, <1>11
<1>13. Len(out2) = Len(out) + m /\ out2 \in Seq(Samp)
  <2> HIDE DEF out, more, out2
  <2> QED BY <1>5, <1>10, <1>11, ConcatProperties
<1>14. t \in Running
  <2>1. t.accum \in Buffer /\ t.placed \in Seq(Nat)
    BY <1>12 DEF Overlapped
  <2>2. t.queue \in Seq(Samp)
    <3> HIDE DEF more
    <3> QED BY <1>2, <1>7, <1>10, ConcatProperties
  <2>3. t.norm \in Norms /\ t.base \in Nat
    BY <1>1, <1>2, <1>7, <1>8
  <2>4. t = [accum |-> t.accum, norm |-> t.norm, queue |-> t.queue, placed |-> t.placed, base |-> t.base]
    BY <1>6, <1>7
  <2> QED BY <2>1, <2>2, <2>3, <2>4 DEF Running
<1>15. ASSUME ~mixed PROVE Weighted(out2, t.accum, t.norm)
  <2>1. Weighted(out, s.accum, s.norm)
    BY <1>1, <1>15
  <2>2. w # Synth!Absent => w = b
    BY <2>1, <1>8 DEF Weighted
  <2>3. Weighted(out, b, w)
    <3> HIDE DEF w, b
    <3> QED BY <2>1, <2>2 DEF Weighted
  <2>4. \A j \in DOMAIN out2 : out2[j].normed => out2[j].weight = out2[j].sum
    <3> HIDE DEF out, w, b, out2
    <3> QED BY <2>3, <1>4, <1>5, <1>8, <1>9, <1>11, WeightsFollow
  <2>5. t.norm # Synth!Absent => t.norm = t.accum
    BY <1>7, <1>8, <2>2
  <2> QED BY <2>4, <2>5 DEF Weighted
<1>16. Len(t.placed) = Len(placed) + n
  BY <1>1, <1>2, <1>5, <1>7, AppendProperties
<1>17. ASSUME complete PROVE Synth!IsEmpty(t.accum)
  <2>1. m = PlanSize
    BY <1>17, EmitIs DEF m
  <2>2. \A i \in Synth!Index : ~(i + m < PlanSize)
    BY <2>1, StreamAssumption DEF Synth!Index
  <2>3. DOMAIN b = Synth!Index
    BY <1>9 DEF Buffer
  <2> HIDE DEF b
  <2> QED BY <2>2, <2>3, <1>7 DEF Synth!IsEmpty, Synth!Shifted
<1>18. ASSUME Hop <= PlanSize, cuts = {} PROVE Lined(out2, t.placed, complete)
  <2>1. AtHops(s.placed) /\ Len(out) = Len(s.placed) * Hop
    BY <1>1, <1>18 DEF Lined
  <2> DEFINE l == Len(s.placed)
  <2>2. /\ Len(t.placed) = l + 1 /\ DOMAIN t.placed = 1..(l + 1) /\ DOMAIN s.placed = 1..l
        /\ \A g \in 1..l : t.placed[g] = s.placed[g]
        /\ t.placed[l + 1] = Len(out) /\ l \in Nat
    BY <1>2, <1>5, <1>7, AppendProperties
  <2>3. AtHops(t.placed)
    <3> HIDE DEF l
    <3>1. ASSUME NEW g \in DOMAIN t.placed PROVE t.placed[g] = (g - 1) * Hop
      <4>1. CASE g \in 1..l
        BY <4>1, <2>1, <2>2 DEF AtHops
      <4>2. CASE g = l + 1
        <5>1. (l + 1) - 1 = l
          BY <2>2
        <5> QED BY <4>2, <5>1, <2>1, <2>2 DEF l
      <4> QED BY <4>1, <4>2, <2>2
    <3> QED BY <3>1 DEF AtHops
  <2>4. m = IF complete THEN PlanSize ELSE Hop
    <3>1. k # 0
      BY <1>2
    <3> QED BY <3>1, <1>18, StreamAssumption DEF m, Synth!Emit
  <2>5. (l + 1) * Hop = l * Hop + Hop /\ ((l + 1) - 1) * Hop = l * Hop
    <3>1. Hop \in Nat /\ 1 * Hop = Hop /\ 1 \in Nat /\ l \in Nat
      BY <2>2, StreamAssumption
    <3>2. (l + 1) * Hop = l * Hop + 1 * Hop
      BY <3>1, Distributes
    <3>3. (l + 1) - 1 = l
      BY <3>1
    <3> QED BY <3>1, <3>2, <3>3
  <2> HIDE DEF complete, out2, out, l
  <2>6. Len(out2) = IF complete THEN (Len(t.placed) - 1) * Hop + PlanSize ELSE Len(t.placed) * Hop
    BY <2>1, <2>2, <2>4, <2>5, <1>13 DEF l
  <2> QED BY <2>3, <2>6 DEF Lined
<1>19. t.base = Len(emitted)
  BY <1>1, <1>7
<1>20. cola => t.norm # Synth!Absent
  BY <1>1, <1>7, <1>8
<1> HIDE DEF out2
<1>21. Reached(n, k, flush, t)
  BY <1>12, <1>14, <1>15, <1>16, <1>17, <1>18, <1>19, <1>20 DEF Reached, out2
<1> QED BY <1>21 DEF t

-----------------------------------------------------------------------------
(* The state after n frames, from those before.                              *)
FrameAt(g, n, k, flush) ==
  IF n = 0 THEN Synth!Sized ELSE Synth!AddFrame(g[n - 1], Len(placed) + n, n = k, flush)

(* The recursion over the frames of a call has a solution.                   *)
LEMMA FramesDefined ==
  ASSUME NEW k \in Nat, NEW flush
  PROVE  \E g : g = [n \in 0..k |-> FrameAt(g, n, k, flush)]
<1> DEFINE Upto(m) == \E g : g = [n \in 0..m |-> FrameAt(g, n, k, flush)]
           T == {m \in Nat : Upto(m)}
<1>1. 0 \in T
  <2> DEFINE g == [n \in 0..0 |-> Synth!Sized]
  <2>1. \A n \in 0..0 : FrameAt(g, n, k, flush) = Synth!Sized
    BY DEF FrameAt
  <2>2. g = [n \in 0..0 |-> FrameAt(g, n, k, flush)]
    BY <2>1
  <2> QED BY <2>2
<1>2. ASSUME NEW m \in Nat, m \in T PROVE m + 1 \in T
  <2>1. PICK g : g = [n \in 0..m |-> FrameAt(g, n, k, flush)]
    BY <1>2
  <2> DEFINE new == FrameAt(g, m + 1, k, flush)
             h == [n \in 0..(m + 1) |-> IF n = m + 1 THEN new ELSE g[n]]
  <2>2. \A n \in 0..m : h[n] = g[n]
    BY <1>2
  <2>3. h[m + 1] = new
    BY <1>2
  <2>4. ASSUME NEW n \in 0..(m + 1) PROVE h[n] = FrameAt(h, n, k, flush)
    <3> HIDE DEF h
    <3>1. n # 0 => n - 1 \in 0..m
      BY <1>2
    <3>2. FrameAt(h, n, k, flush) = FrameAt(g, n, k, flush)
      BY <2>2, <3>1 DEF FrameAt
    <3>3. CASE n = m + 1
      BY <2>3, <3>2, <3>3
    <3>4. CASE n # m + 1
      <4>1. n \in 0..m
        BY <1>2, <3>4
      <4>2. g[n] = FrameAt(g, n, k, flush)
        BY <2>1, <4>1
      <4> QED BY <2>2, <3>2, <4>1, <4>2
    <3> QED BY <3>3, <3>4
  <2>5. h = [n \in 0..(m + 1) |-> h[n]]
    OBVIOUS
  <2> HIDE DEF h
  <2>6. h = [n \in 0..(m + 1) |-> FrameAt(h, n, k, flush)]
    BY <2>4, <2>5
  <2> QED BY <2>6
<1>3. k \in T
  <2> HIDE DEF T
  <2> QED BY <1>1, <1>2, SetInduction
<1> QED BY <1>3

(* After its k frames a call has reached what the invariant says.            *)
LEMMA FramesReached ==
  ASSUME InverseInv, NEW k \in Nat, NEW flush
  PROVE  Reached(k, k, flush, Synth!AfterFrames(k, flush))
<1> DEFINE g == CHOOSE g : g = [n \in 0..k |-> FrameAt(g, n, k, flush)]
<1>1. Synth!AfterFrames(k, flush) = g[k]
  BY DEF Synth!AfterFrames, FrameAt
<1>2. g = [n \in 0..k |-> FrameAt(g, n, k, flush)]
  BY FramesDefined
<1> HIDE DEF g
<1> DEFINE T == {n \in Nat : n <= k => Reached(n, k, flush, g[n])}
<1>3. 0 \in T
  <2>1. g[0] = Synth!Sized
    BY <1>2 DEF FrameAt
  <2> QED BY <2>1, SizedReached
<1>4. ASSUME NEW n \in Nat, n \in T PROVE n + 1 \in T
  <2> SUFFICES ASSUME n + 1 <= k PROVE Reached(n + 1, k, flush, g[n + 1])
    OBVIOUS
  <2> DEFINE m == n + 1
  <2>1. m \in 1..k /\ m \in 0..k /\ m - 1 = n /\ m # 0
    OBVIOUS
  <2>2. Reached(n, k, flush, g[n])
    BY <1>4
  <2> HIDE DEF m
  <2>3. g[m] = Synth!AddFrame(g[m - 1], Len(placed) + m, m = k, flush)
    BY <1>2, <2>1 DEF FrameAt
  <2>4. placed \in Seq(Nat) /\ emitted \in Seq(Samp)
    BY DEF InverseInv, Sums, Overlapped, InverseTypes
  <2>5. Reached(m, k, flush, g[m])
    BY <2>1, <2>2, <2>3, <2>4, AddFrameReaches
  <2> QED BY <2>5 DEF m
<1>5. k \in T
  <2> HIDE DEF T
  <2> QED BY <1>3, <1>4, SetInduction
<1> QED BY <1>1, <1>5

(* A call without frames only sizes the vectors.                             *)
LEMMA NoFrames ==
  ASSUME NEW flush
  PROVE  Synth!AfterFrames(0, flush) = Synth!Sized
<1> DEFINE g == CHOOSE g : g = [n \in 0..0 |-> FrameAt(g, n, 0, flush)]
<1>1. Synth!AfterFrames(0, flush) = g[0]
  BY DEF Synth!AfterFrames, FrameAt
<1>2. g = [n \in 0..0 |-> FrameAt(g, n, 0, flush)]
  BY FramesDefined
<1> HIDE DEF g
<1> QED BY <1>1, <1>2 DEF FrameAt

(* Giving samples to the caller moves them from the queue to what was given  *)
(* out, and changes nothing of the whole.                                    *)
LEMMA HandedOut ==
  ASSUME NEW e \in Seq(Samp), NEW q \in Seq(Samp), NEW room \in 0..Len(q)
  PROVE  /\ e \o SubSeq(q, 1, room) \in Seq(Samp)
         /\ SubSeq(q, room + 1, Len(q)) \in Seq(Samp)
         /\ (e \o SubSeq(q, 1, room)) \o SubSeq(q, room + 1, Len(q)) = e \o q
<1> DEFINE head == SubSeq(q, 1, room)
           tail == SubSeq(q, room + 1, Len(q))
<1>1. Len(q) \in Nat /\ room \in Nat /\ \A i \in 1..Len(q) : q[i] \in Samp
  OBVIOUS
<1>2. head \in Seq(Samp)
  BY <1>1, SubSeqProperties
<1>3. tail \in Seq(Samp)
  BY <1>1, SubSeqProperties
<1>4. head \o tail = q
  <2>1. head \o tail = SubSeq(q, 1, Len(q))
    <3>1. /\ 1 \in 1..(Len(q) + 1) /\ room \in (1 - 1)..Len(q)
          /\ Len(q) \in room..Len(q)
      BY <1>1
    <3> QED BY <3>1, ConcatAdjacentSubSeq
  <2> QED BY <2>1, SubSeqFull
<1> HIDE DEF head, tail
<1>5. (e \o head) \o tail = e \o (head \o tail)
  BY <1>2, <1>3, ConcatAssociative, SMTT(30)
<1>6. e \o head \in Seq(Samp)
  BY <1>2, ConcatProperties
<1> QED BY <1>2, <1>3, <1>4, <1>5, <1>6 DEF head, tail

(* No more than the queue has is given out.                                  *)
LEMMA RoomFits ==
  ASSUME NEW q \in Seq(Samp), NEW limit \in Nat, NEW output
  PROVE  Synth!Room(q, limit, output) \in 0..Len(q)
  BY DEF Synth!Room

(* Draining queues the whole accumulator: the output grows by a plan length  *)
(* and no frame reaches beyond it.                                           *)
LEMMA DrainedKeeps ==
  ASSUME NEW s \in Running, Overlapped(emitted \o s.queue, s.placed, s.accum),
         ~mixed => Weighted(emitted \o s.queue, s.accum, s.norm),
         emitted \in Seq(Samp)
  PROVE  LET t == Synth!Drained(s)
             out == emitted \o t.queue
         IN  /\ t \in Running /\ t.placed = s.placed /\ Synth!IsEmpty(t.accum)
             /\ Overlapped(out, t.placed, t.accum)
             /\ ~mixed => Weighted(out, t.accum, t.norm)
             /\ Len(out) = Len(emitted \o s.queue) + PlanSize
             /\ s.norm = Synth!Absent <=> t.norm = Synth!Absent
<1> DEFINE t == Synth!Drained(s)
           out == emitted \o s.queue
           more == Synth!Samples(s.accum, s.norm, PlanSize)
           out2 == emitted \o t.queue
<1>1. /\ s.accum \in Buffer /\ s.norm \in Norms /\ s.queue \in Seq(Samp) /\ s.placed \in Seq(Nat)
      /\ s.base \in Nat /\ PlanSize \in Nat /\ PlanSize \in 0..PlanSize
  BY StreamAssumption DEF Running
<1>2. /\ t.accum = Synth!Silence /\ t.queue = s.queue \o more /\ t.placed = s.placed /\ t.base = s.base
      /\ t.norm = IF s.norm = Synth!Absent THEN Synth!Absent ELSE Synth!Silence
      /\ t = [accum |-> t.accum, norm |-> t.norm, queue |-> t.queue, placed |-> t.placed, base |-> t.base]
  <2> DEFINE w == IF s.norm = Synth!Absent THEN Synth!Absent ELSE Synth!Silence
             q == s.queue \o more
  <2>1. DOMAIN s = {"accum", "norm", "queue", "placed", "base"}
    BY DEF Running
  <2>2. t = [s EXCEPT !.queue = q, !.accum = Synth!Silence, !.norm = w]
    BY DEF Synth!Drained
  <2> HIDE DEF t, q, w
  <2>3. t = [accum |-> Synth!Silence, norm |-> w, queue |-> q, placed |-> s.placed, base |-> s.base]
    BY <2>2 DEF Running
  <2> QED BY <2>3 DEF q, w
<1> HIDE DEF t
<1>3. /\ more \in Seq(Samp) /\ Len(more) = PlanSize
      /\ \A j \in 1..PlanSize : j - 1 \in Synth!Index /\ more[j] = Synth!Sample(s.accum, s.norm, j - 1)
  BY <1>1, SamplesAre
<1>4. t \in Running /\ Synth!IsEmpty(t.accum) /\ (s.norm = Synth!Absent <=> t.norm = Synth!Absent)
  <2>1. s.queue \o more \in Seq(Samp)
    <3> DEFINE q == s.queue
    <3> HIDE DEF more, q
    <3>1. q \in Seq(Samp) /\ more \in Seq(Samp)
      BY <1>1, <1>3 DEF q
    <3>2. q \o more \in Seq(Samp)
      BY <3>1, ConcatProperties
    <3> QED BY <3>2 DEF q
  <2>2. t.accum \in Buffer /\ t.norm \in Norms
    BY <1>2, SilenceIs DEF Norms
  <2>3. Synth!IsEmpty(t.accum)
    BY <1>2, SilenceIs DEF Synth!IsEmpty, Buffer, Synth!Silence
  <2>4. s.norm = Synth!Absent <=> t.norm = Synth!Absent
    BY <1>2, SilenceIs
  <2>5. t \in Running
    <3> HIDE DEF more
    <3> QED BY <1>1, <1>2, <2>1, <2>2 DEF Running
  <2> QED BY <2>3, <2>4, <2>5
<1>5. out2 = out \o more
  <2> DEFINE q == s.queue
  <2>1. q \in Seq(Samp) /\ more \in Seq(Samp)
    BY <1>1, <1>3
  <2> HIDE DEF q, more
  <2>2. (emitted \o q) \o more = emitted \o (q \o more)
    BY <2>1, ConcatAssociative
  <2> QED BY <2>2, <1>2 DEF q
<1>6. out \in Seq(Samp) /\ Len(out) \in Nat /\ DOMAIN out = 1..Len(out)
  BY DEF Overlapped
<1> HIDE DEF out2, more, out
<1>7. /\ out2 \in Seq(Samp) /\ Len(out2) = Len(out) + PlanSize
      /\ \A m \in 1..(Len(out) + PlanSize) :
           out2[m] = IF m <= Len(out) THEN out[m] ELSE more[m - Len(out)]
  <2>1. /\ out2 \in Seq(Samp) /\ Len(out2) = Len(out) + Len(more)
        /\ \A m \in 1..(Len(out) + Len(more)) :
             out2[m] = IF m <= Len(out) THEN out[m] ELSE more[m - Len(out)]
    BY <1>3, <1>5, <1>6, ConcatProperties
  <2> QED BY <2>1, <1>3
<1>8. Overlapped(out2, t.placed, t.accum)
  <2>0. Overlapped(out, s.placed, s.accum)
    BY DEF out
  <2>1. ASSUME NEW m \in DOMAIN out2 PROVE out2[m].sum = Summed(s.placed, m - 1)
    <3>1. CASE m <= Len(out)
      <4>1. out2[m] = out[m] /\ m \in DOMAIN out
        BY <1>1, <1>6, <1>7, <3>1
      <4> QED BY <4>1, <2>0 DEF Overlapped
    <3>2. CASE ~(m <= Len(out))
      <4> DEFINE j == m - Len(out)
      <4>1. j \in 1..PlanSize /\ Len(out) + (j - 1) = m - 1 /\ out2[m] = more[j]
        BY <1>1, <1>6, <1>7, <3>2
      <4> HIDE DEF j
      <4>2. more[j].sum = s.accum[j - 1] /\ j - 1 \in Synth!Index
        BY <1>3, <4>1 DEF Synth!Sample
      <4>3. s.accum[j - 1] = Summed(s.placed, Len(out) + (j - 1))
        BY <4>2, <2>0 DEF Overlapped
      <4> QED BY <4>1, <4>2, <4>3
    <3> QED BY <3>1, <3>2
  <2>2. \A f \in DOMAIN s.placed : s.placed[f] \in Nat /\ s.placed[f] <= Len(out)
    BY <1>1, <2>0 DEF Overlapped
  <2>3. ASSUME NEW i \in Synth!Index PROVE Summed(s.placed, Len(out2) + i) = {}
    <3>1. \A f \in DOMAIN s.placed : (Len(out2) + i) - s.placed[f] \notin Synth!Index
      BY <1>1, <1>6, <1>7, <2>2 DEF Synth!Index
    <3> QED BY <3>1 DEF Summed
  <2>4. \A i \in Synth!Index : t.accum[i] = Summed(s.placed, Len(out2) + i)
    BY <1>2, <2>3, SilenceIs
  <2>5. \A f \in DOMAIN s.placed : s.placed[f] <= Len(out2)
    BY <1>1, <1>6, <1>7, <2>2
  <2> QED BY <1>1, <1>2, <1>7, <2>1, <2>4, <2>5, SilenceIs DEF Overlapped
<1>9. ASSUME ~mixed PROVE Weighted(out2, t.accum, t.norm)
  <2>1. Weighted(out, s.accum, s.norm)
    BY <1>9 DEF out
  <2>2. \A m \in DOMAIN out2 : out2[m].normed => out2[m].weight = out2[m].sum
    BY <2>1, <1>1, <1>5, <1>6, WeightsFollow DEF more
  <2>3. t.norm # Synth!Absent => t.norm = t.accum
    BY <1>2
  <2> QED BY <2>2, <2>3 DEF Weighted
<1> QED BY <1>2, <1>4, <1>7, <1>8, <1>9 DEF t, out2, out

(* A call of fft_stream_push_spectrum keeps the invariant.                   *)
LEMMA PushSpectrumKeeps ==
  ASSUME InverseInv, NEW k \in Nat, NEW limit \in Nat, NEW flush, NEW output \in BOOLEAN,
         Synth!PushSpectrum(k, limit, flush, output)
  PROVE  InverseInv'
<1> DEFINE final == flush = "final"
<1>1. PICK p \in {0, k} :
        LET base == Synth!AfterFrames(p, flush)
            s == IF k = 0 /\ flush = "final" THEN Synth!Drained(base) ELSE base
            room == Synth!Room(s.queue, limit, output)
        IN  /\ accum' = s.accum /\ norm' = s.norm /\ placed' = s.placed
            /\ Synth!EmitPcm(s.queue, room)
            /\ cuts' = IF flush = "final" /\ p = k THEN cuts \cup {Len(s.placed)} ELSE cuts
            /\ UNCHANGED <<cola, mixed>>
  BY DEF Synth!PushSpectrum
<1> DEFINE base == Synth!AfterFrames(p, flush)
           s == IF k = 0 /\ final THEN Synth!Drained(base) ELSE base
           room == Synth!Room(s.queue, limit, output)
           out == emitted \o s.queue
<1>2. /\ accum' = s.accum /\ norm' = s.norm /\ placed' = s.placed
      /\ emitted' = emitted \o SubSeq(s.queue, 1, room)
      /\ queue' = SubSeq(s.queue, room + 1, Len(s.queue))
      /\ cuts' = IF final /\ p = k THEN cuts \cup {Len(s.placed)} ELSE cuts
      /\ cola' = cola /\ mixed' = mixed
  BY <1>1 DEF Synth!EmitPcm
<1>3. p \in Nat /\ Reached(p, p, flush, base)
  BY FramesReached
<1>4. /\ emitted \in Seq(Samp) /\ queue \in Seq(Samp) /\ placed \in Seq(Nat) /\ Len(placed) \in Nat
      /\ cola \in BOOLEAN /\ mixed \in BOOLEAN
      /\ PlanSize \in Nat /\ Hop \in Nat
      /\ Synth!Output \in Seq(Samp) /\ Len(Synth!Output) \in Nat
  BY StreamAssumption DEF InverseInv, InverseTypes, Sums, Overlapped
<1>5. Overlapped(Synth!Output, placed, Loaded(accum))
  BY DEF InverseInv, Sums
<1>6. cuts \subseteq 0..Len(placed) /\ (Len(placed) \in cuts => Synth!IsEmpty(accum))
  BY DEF InverseInv, Cuts
<1>7. /\ base \in Running
      /\ Len(base.placed) = Len(placed) + p
      /\ Overlapped(emitted \o base.queue, base.placed, base.accum)
      /\ ~mixed => Weighted(emitted \o base.queue, base.accum, base.norm)
      /\ cola => base.norm # Synth!Absent
  <2> HIDE DEF base
  <2> QED BY <1>3 DEF Reached
<1> HIDE DEF base
<1>8. /\ s \in Running
      /\ Overlapped(out, s.placed, s.accum)
      /\ ~mixed => Weighted(out, s.accum, s.norm)
      /\ cola => s.norm # Synth!Absent
      /\ s.placed = base.placed
      /\ Len(out) = IF k = 0 /\ final THEN Len(emitted \o base.queue) + PlanSize
                    ELSE Len(emitted \o base.queue)
  <2>1. CASE k = 0 /\ final
    <3>1. s = Synth!Drained(base)
      BY <2>1
    <3> HIDE DEF s
    <3> QED BY <2>1, <3>1, <1>4, <1>7, DrainedKeeps
  <2>2. CASE ~(k = 0 /\ final)
    <3>1. s = base
      BY <2>2
    <3> HIDE DEF s
    <3> QED BY <2>2, <3>1, <1>7
  <2> QED BY <2>1, <2>2
<1>9. k = 0 /\ final => Synth!IsEmpty(s.accum)
  <2> SUFFICES ASSUME k = 0 /\ final PROVE Synth!IsEmpty(s.accum)
    OBVIOUS
  <2>1. s = Synth!Drained(base)
    OBVIOUS
  <2> HIDE DEF s
  <2> QED BY <2>1, <1>4, <1>7, DrainedKeeps
<1>10. p = 0 => /\ base.placed = placed /\ emitted \o base.queue = Synth!Output
                /\ Synth!IsEmpty(accum) => Synth!IsEmpty(base.accum)
  <2> SUFFICES ASSUME p = 0
               PROVE  /\ base.placed = placed /\ emitted \o base.queue = Synth!Output
                      /\ Synth!IsEmpty(accum) => Synth!IsEmpty(base.accum)
    OBVIOUS
  <2>1. base = Synth!Sized
    BY NoFrames DEF base
  <2>2. base.queue = queue /\ base.placed = placed /\ base.accum = Loaded(accum)
    BY <2>1 DEF Synth!Sized, Loaded
  <2>3. Synth!IsEmpty(accum) => Synth!IsEmpty(Loaded(accum))
    BY SilenceIs DEF Loaded, Synth!IsEmpty, Synth!Silence
  <2> QED BY <2>2, <2>3 DEF Synth!Output
<1>11. p = k /\ k # 0 => /\ final => Synth!IsEmpty(base.accum)
                         /\ (Hop <= PlanSize /\ cuts = {}) =>
                              Lined(emitted \o base.queue, base.placed, final)
  BY <1>3 DEF Reached
<1>12. ~(k = 0 /\ final) => s = base
  OBVIOUS
<1> HIDE DEF s
<1>13. /\ s.accum \in Buffer /\ s.norm \in Norms /\ s.queue \in Seq(Samp) /\ s.placed \in Seq(Nat)
       /\ Len(s.placed) = Len(placed) + p
  BY <1>7, <1>8 DEF Running
<1>14. /\ emitted' \in Seq(Samp) /\ queue' \in Seq(Samp)
       /\ Synth!Output' = out
  <2> DEFINE q == s.queue
  <2>1. q \in Seq(Samp) /\ room \in 0..Len(q)
    BY <1>13, RoomFits
  <2>2. emitted' = emitted \o SubSeq(q, 1, room) /\ queue' = SubSeq(q, room + 1, Len(q))
    BY <1>2
  <2>3. out = emitted \o q
    OBVIOUS
  <2> HIDE DEF q, room, out
  <2>4. /\ emitted \o SubSeq(q, 1, room) \in Seq(Samp) /\ SubSeq(q, room + 1, Len(q)) \in Seq(Samp)
        /\ (emitted \o SubSeq(q, 1, room)) \o SubSeq(q, room + 1, Len(q)) = emitted \o q
    BY <1>4, <2>1, HandedOut
  <2> QED BY <2>2, <2>3, <2>4 DEF Synth!Output
<1> HIDE DEF out, room
<1>15. InverseTypes'
  BY <1>2, <1>4, <1>13, <1>14 DEF InverseTypes, Norms
<1>16. Loaded(s.accum) = s.accum
  BY <1>13, BufferIsThere DEF Loaded
<1>17. Sums'
  <2>1. Sums' = Overlapped(Synth!Output', placed', Loaded(accum'))
    BY DEF Sums, Loaded, Overlapped, Summed
  <2> QED BY <2>1, <1>2, <1>8, <1>14, <1>16
<1>18. Weights'
  <2> SUFFICES ASSUME ~mixed'
               PROVE  /\ Weighted(Synth!Output, accum, norm)'
                      /\ ((cola /\ norm = Synth!Absent) => Synth!IsEmpty(accum))'
    BY DEF Weights
  <2>1. Weighted(out, s.accum, s.norm)
    BY <1>2, <1>8
  <2>2. Weighted(Synth!Output, accum, norm)'
    BY <2>1, <1>2, <1>14 DEF Weighted
  <2> QED BY <2>2, <1>2, <1>8
<1>19. Len(s.placed) \in cuts' => Synth!IsEmpty(s.accum)
  <2>1. CASE k = 0 /\ final
    BY <2>1, <1>9
  <2>2. CASE ~(k = 0 /\ final) /\ p = 0
    BY <2>2, <1>2, <1>6, <1>8, <1>10, <1>12
  <2>3. CASE ~(k = 0 /\ final) /\ p # 0
    <3>1. p = k /\ k # 0 /\ Len(s.placed) \notin cuts
      BY <2>3, <1>3, <1>4, <1>6, <1>13
    <3> QED BY <2>3, <3>1, <1>2, <1>11, <1>12
  <2> QED BY <2>1, <2>2, <2>3
<1>20. Cuts'
  <2>1. cuts' \subseteq 0..Len(placed')
    <3>1. Len(placed') = Len(placed) + p /\ Len(s.placed) = Len(placed')
      BY <1>2, <1>13
    <3>2. cuts' \subseteq cuts \cup {Len(placed')}
      BY <1>2
    <3>3. 0..Len(placed) \subseteq 0..Len(placed') /\ Len(placed') \in 0..Len(placed')
      BY <3>1, <1>3, <1>4
    <3> QED BY <3>2, <3>3, <1>6
  <2>2. Len(placed') \in cuts' => Synth!IsEmpty(accum')
    BY <1>2, <1>19
  <2> QED BY <2>1, <2>2 DEF Cuts, Synth!IsEmpty
<1>21. Places'
  <2> SUFFICES ASSUME Hop <= PlanSize, cuts' \subseteq {Len(placed')}
               PROVE  /\ AtHops(s.placed)
                      /\ cuts' = {} => Lined(out, s.placed, FALSE)
                      /\ (cuts' # {} /\ s.placed # <<>>) =>
                           Len(out) >= (Len(s.placed) - 1) * Hop + PlanSize
    BY <1>2, <1>14 DEF Places, AtHops, Lined
  <2>1. CASE p = 0
    <3>1. s.placed = placed /\ cuts \subseteq {Len(placed)}
      BY <2>1, <1>2, <1>8, <1>10
    <3>2. /\ AtHops(placed)
          /\ cuts = {} => Lined(Synth!Output, placed, FALSE)
          /\ (cuts # {} /\ placed # <<>>) =>
               Len(Synth!Output) >= (Len(placed) - 1) * Hop + PlanSize
      BY <3>1 DEF InverseInv, Places
    <3>3. CASE k = 0 /\ final
      <4>1. Len(out) = Len(Synth!Output) + PlanSize /\ cuts' # {}
        BY <2>1, <3>3, <1>2, <1>8, <1>10
      <4>2. ASSUME placed # <<>>, cuts = {} PROVE Len(out) >= (Len(placed) - 1) * Hop + PlanSize
        <5>1. Len(Synth!Output) = Len(placed) * Hop
          BY <4>2, <3>2 DEF Lined
        <5> DEFINE l == Len(placed) - 1
        <5>2. l \in Nat /\ Len(placed) = l + 1
          BY <4>2, <1>4, EmptySeq
        <5> HIDE DEF l
        <5>3. (l + 1) * Hop = l * Hop + 1 * Hop /\ l * Hop \in Nat
          BY <5>2, <1>4, Distributes
        <5>4. 1 * Hop = Hop /\ Len(placed) - 1 = l
          BY <1>4, <5>2
        <5> QED BY <4>1, <5>1, <5>2, <5>3, <5>4, <1>4
      <4>3. (Len(placed) - 1) * Hop \in Int
        BY <1>4
      <4>4. ASSUME placed # <<>>, cuts # {} PROVE Len(out) >= (Len(placed) - 1) * Hop + PlanSize
        <5> DEFINE x == (Len(placed) - 1) * Hop
        <5>1. Len(Synth!Output) >= x + PlanSize /\ x \in Int
          BY <4>4, <3>2, <4>3
        <5> HIDE DEF x
        <5>2. Len(out) >= x + PlanSize
          BY <5>1, <4>1, <1>4
        <5> QED BY <5>2 DEF x
      <4> QED BY <3>1, <3>2, <4>1, <4>2, <4>4
    <3>4. CASE ~(k = 0 /\ final)
      <4>1. cuts' = cuts
        BY <2>1, <3>4, <1>2
      <4>2. Lined(Synth!Output, placed, FALSE) => Lined(out, s.placed, FALSE)
        BY <2>1, <3>1, <3>4, <1>8, <1>10 DEF Lined
      <4>3. Len(out) = Len(Synth!Output)
        BY <2>1, <3>4, <1>8, <1>10
      <4> QED BY <3>1, <3>2, <4>1, <4>2, <4>3
    <3> QED BY <3>3, <3>4
  <2>2. CASE p # 0
    <3>1. p = k /\ k # 0 /\ s = base /\ s.placed = base.placed
      BY <2>2, <1>12
    <3>2. cuts = {}
      <4>1. Len(placed') = Len(placed) + p /\ cuts \subseteq cuts'
        BY <1>2, <1>13
      <4> QED BY <2>2, <4>1, <1>3, <1>4, <1>6
    <3>3. Lined(emitted \o base.queue, base.placed, final)
      BY <3>1, <3>2, <1>11
    <3>4. Lined(out, s.placed, final)
      BY <3>1, <3>3 DEF out
    <3>5. cuts' = IF final THEN {Len(s.placed)} ELSE {}
      BY <3>1, <3>2, <1>2
    <3>6. (Len(s.placed) - 1) * Hop + PlanSize \in Int
      BY <1>4, <1>13
    <3> HIDE DEF final
    <3>7. CASE final
      <4>1. AtHops(s.placed) /\ Len(out) = (Len(s.placed) - 1) * Hop + PlanSize /\ cuts' # {}
        BY <3>4, <3>5, <3>7 DEF Lined
      <4> DEFINE x == (Len(s.placed) - 1) * Hop + PlanSize
      <4>2. Len(out) = x /\ x \in Int
        BY <4>1, <3>6
      <4> HIDE DEF x
      <4>3. Len(out) >= x
        BY <4>2
      <4> QED BY <4>1, <4>3 DEF x
    <3>8. CASE ~final
      <4>1. cuts' = {} /\ Lined(out, s.placed, FALSE)
        BY <3>4, <3>5, <3>8 DEF Lined
      <4> QED BY <4>1 DEF Lined
    <3> QED BY <3>7, <3>8
  <2> QED BY <2>1, <2>2
<1> QED BY <1>15, <1>17, <1>18, <1>20, <1>21 DEF InverseInv

-----------------------------------------------------------------------------
(* The inverse stream as it starts, and as a reset leaves it.                *)
Blank ==
  /\ emitted = <<>> /\ queue = <<>> /\ accum = Synth!Absent /\ norm = Synth!Absent
  /\ placed = <<>> /\ cuts = {} /\ mixed = FALSE /\ cola \in BOOLEAN

(* A blank stream satisfies the invariant, now ...                           *)
LEMMA BlankIsFine == Blank => InverseInv
<1> SUFFICES ASSUME Blank PROVE InverseInv
  OBVIOUS
<1> USE DEF Blank
<1>1. emitted \in Seq(Samp) /\ queue \in Seq(Samp) /\ placed \in Seq(Nat)
  BY EmptySeq
<1>2. Synth!Output = <<>> /\ Len(Synth!Output) = 0 /\ DOMAIN Synth!Output = {}
  BY DEF Synth!Output
<1>3. Loaded(accum) = Synth!Silence
  BY DEF Loaded
<1>4. \A p : Summed(placed, p) = {}
  BY DEF Summed
<1>5. Synth!Output \in Seq(Samp)
  BY <1>2, EmptySeq
<1>6. Overlapped(Synth!Output, placed, Synth!Silence)
  <2>1. DOMAIN placed = {}
    OBVIOUS
  <2> QED BY <1>1, <1>2, <1>4, <1>5, <2>1, SilenceIs DEF Overlapped
<1>7. Sums
  BY <1>3, <1>6 DEF Sums
<1>8. Synth!IsEmpty(accum)
  BY DEF Synth!IsEmpty, Synth!Absent
<1>9. InverseTypes
  BY <1>1 DEF InverseTypes, Norms
<1>10. Weights
  BY <1>2, <1>8 DEF Weights, Weighted
<1>11. Cuts
  BY <1>8 DEF Cuts
<1>12. Places
  <2>1. AtHops(placed)
    BY DEF AtHops
  <2>2. Len(placed) = 0 /\ 0 * Hop = 0
    BY StreamAssumption
  <2>3. Lined(Synth!Output, placed, FALSE)
    BY <1>2, <2>1, <2>2 DEF Lined
  <2> QED BY <2>1, <2>3 DEF Places
<1> QED BY <1>7, <1>9, <1>10, <1>11, <1>12 DEF InverseInv

(* ... and after a step.                                                     *)
LEMMA BlankAgain == Blank' => InverseInv'
  BY BlankIsFine, PTL

(* Changing the cola mode keeps the invariant: over a pending overlap it     *)
(* makes mixed true.                                                         *)
LEMMA ConfigKeeps ==
  ASSUME InverseInv, Synth!ConfigWindow
  PROVE  InverseInv'
<1>1. /\ cola' = ~cola /\ mixed' = (mixed \/ ~Synth!IsEmpty(accum))
      /\ accum' = accum /\ norm' = norm /\ queue' = queue /\ emitted' = emitted
      /\ placed' = placed /\ cuts' = cuts
  BY DEF Synth!ConfigWindow
<1>2. InverseTypes'
  BY <1>1 DEF InverseInv, InverseTypes
<1>3. Sums'
  BY <1>1 DEF InverseInv, Sums, Synth!Output, Loaded, Overlapped, Summed
<1>4. Weights'
  BY <1>1 DEF InverseInv, Weights, Weighted, Synth!Output, Synth!IsEmpty
<1>5. Cuts'
  BY <1>1 DEF InverseInv, Cuts, Synth!IsEmpty
<1>6. Places'
  BY <1>1 DEF InverseInv, Places, AtHops, Lined, Synth!Output
<1> QED BY <1>2, <1>3, <1>4, <1>5, <1>6 DEF InverseInv

(* Steps of the forward stream do not concern the inverse one.               *)
LEMMA InverseStutters ==
  ASSUME InverseInv, UNCHANGED inverseVars
  PROVE  InverseInv'
<1>1. /\ cola' = cola /\ mixed' = mixed
      /\ accum' = accum /\ norm' = norm /\ queue' = queue /\ emitted' = emitted
      /\ placed' = placed /\ cuts' = cuts
  BY DEF inverseVars
<1>2. InverseTypes'
  BY <1>1 DEF InverseInv, InverseTypes
<1>3. Sums'
  BY <1>1 DEF InverseInv, Sums, Synth!Output, Loaded, Overlapped, Summed
<1>4. Weights'
  BY <1>1 DEF InverseInv, Weights, Weighted, Synth!Output, Synth!IsEmpty
<1>5. Cuts'
  BY <1>1 DEF InverseInv, Cuts, Synth!IsEmpty
<1>6. Places'
  BY <1>1 DEF InverseInv, Places, AtHops, Lined, Synth!Output
<1> QED BY <1>2, <1>3, <1>4, <1>5, <1>6 DEF InverseInv

(* A reset makes the stream blank.                                           *)
LEMMA ResetKeeps ==
  ASSUME InverseInv, Synth!Reset
  PROVE  InverseInv'
<1>1. Blank'
  BY DEF Blank, Synth!Reset, InverseInv, InverseTypes
<1> QED BY <1>1, BlankAgain

-----------------------------------------------------------------------------
(* The frames handed over are those of the signal: each starts a whole       *)
(* number of hops into it, and the first so many were handed over.           *)
SignalInv ==
  /\ starts \in Seq(Nat) /\ Len(starts) = delivered
  /\ \A f \in DOMAIN starts : starts[f] = (f - 1) * Hop
  /\ handed \in Nat /\ handed <= Len(starts)
  /\ ~slipped => Len(placed) = handed
  /\ delivered > 0 => Window <= PlanSize

RoundTripInv == StreamInv /\ InverseInv /\ SignalInv

(* Every step of the round trip keeps the inverse stream's invariant.        *)
LEMMA InverseStep ==
  ASSUME InverseInv, [RoundTripNext]_allVars
  PROVE  InverseInv'
<1>1. ASSUME Analyse PROVE InverseInv'
  BY <1>1, InverseStutters DEF Analyse
<1>2. ASSUME Synthesise PROVE InverseInv'
  <2>1. PICK k \in Batches, limit \in SampleLimits, flush \in Synth!FlushModes, output \in BOOLEAN :
          Synth!PushSpectrum(k, limit, flush, output)
    BY <1>2 DEF Synthesise
  <2>2. k \in Nat /\ limit \in Nat
    BY RoundTripAssumption
  <2> QED BY <2>1, <2>2, PushSpectrumKeeps
<1>3. ASSUME Configure PROVE InverseInv'
  BY <1>3, ConfigKeeps DEF Configure
<1>4. ASSUME ResetBoth PROVE InverseInv'
  BY <1>4, ResetKeeps DEF ResetBoth
<1>5. ASSUME UNCHANGED allVars PROVE InverseInv'
  BY <1>5, InverseStutters DEF allVars
<1> QED BY <1>1, <1>2, <1>3, <1>4, <1>5 DEF RoundTripNext

(* It holds at the start.                                                    *)
LEMMA InverseInit == RoundTripInit => InverseInv
  BY BlankIsFine DEF RoundTripInit, Synth!Init, Blank

(* The invariant of the inverse stream, whatever plan length and hop.        *)
THEOREM InverseInvariant == RoundTrip => []InverseInv
<1>1. InverseInv /\ [RoundTripNext]_allVars => InverseInv'
  BY InverseStep
<1> QED BY InverseInit, <1>1, PTL DEF RoundTrip

(* No sample is lost at a shift of the accumulator, summed twice, or taken   *)
(* from a place of another: what is given out, queued or still accumulating  *)
(* is the overlap-add of the frames that came through.                       *)
THEOREM OutputIsOverlapAdd == RoundTrip => []SumsTheOverlap
<1>1. InverseInv => SumsTheOverlap
  <2> SUFFICES ASSUME InverseInv PROVE SumsTheOverlap
    OBVIOUS
  <2>1. Overlapped(Synth!Output, placed, Loaded(accum)) /\ accum \in Norms
    BY DEF InverseInv, InverseTypes, Sums
  <2>2. \A p : Synth!Overlap(p) = Summed(placed, p)
    BY DEF Synth!Overlap, Summed
  <2>3. \A n \in DOMAIN Synth!Output : Synth!Output[n].sum = Synth!Overlap(n - 1)
    BY <2>1, <2>2 DEF Overlapped
  <2>4. ASSUME NEW i \in DOMAIN accum PROVE accum[i] = Synth!Overlap(Len(Synth!Output) + i)
    <3>1. accum # Synth!Absent
      BY <2>4 DEF Synth!Absent
    <3>2. accum \in Buffer /\ Loaded(accum) = accum
      BY <2>1, <3>1 DEF Norms, Loaded
    <3>3. i \in Synth!Index
      BY <3>2 DEF Buffer
    <3> QED BY <2>1, <2>2, <3>2, <3>3 DEF Overlapped
  <2> QED BY <2>3, <2>4 DEF SumsTheOverlap, Synth!SumsTheOverlap
<1> QED BY InverseInvariant, <1>1, PTL

(* A sample is divided by the weights of exactly the parts it sums, as long  *)
(* as the cola mode does not change over a pending overlap.                  *)
THEOREM NormsAreOfTheirSamples == RoundTrip => []NormMatches
<1>1. InverseInv => NormMatches
  BY DEF InverseInv, Weights, Weighted, NormMatches, Synth!NormMatches
<1> QED BY InverseInvariant, <1>1, PTL

(* A final flush that went through leaves nothing in the accumulator.        *)
THEOREM FlushLeavesNothing == RoundTrip => []FlushCompletes
<1>1. InverseInv => FlushCompletes
  BY DEF InverseInv, Cuts, FlushCompletes, Synth!FlushCompletes
<1> QED BY InverseInvariant, <1>1, PTL

(* The analysed frames start hop by hop.                                     *)
LEMMA AnalyseKeeps ==
  ASSUME Hop <= Window, StreamInv, SignalInv, Analyse
  PROVE  StreamInv' /\ SignalInv'
<1>1. PICK n \in Pieces, limit \in Limits, flush \in FlushModes : PushPcm(n, limit, flush)
  BY DEF Analyse
<1>2. StreamInv'
  BY <1>1, PushStep
<1> DEFINE asked == LET available == FullFrames(back + n - front - offset, Window, Hop)
                    IN  IF limit # 0 /\ available > limit THEN limit ELSE available
<1>3. PICK d \in 0..(IF Window > PlanSize THEN 0 ELSE asked) : delivered' = delivered + d
  BY <1>1 DEF PushPcm
<1> HIDE DEF asked
<1>4. d \in Nat /\ (d > 0 => Window <= PlanSize)
  BY <1>3, StreamAssumption
<1>5. /\ delivered \in Nat /\ front = delivered * Hop /\ offset = 0 /\ Hop \in Nat
  BY StreamAssumption DEF StreamInv, TypeOK, Aligned
<1> DEFINE new == [k \in 1..d |-> front + offset + (k - 1) * Hop]
<1>6. new \in Seq(Nat) /\ Len(new) = d /\ \A k \in 1..d : new[k] = front + (k - 1) * Hop
  <2>1. \A k \in 1..d : front + offset + (k - 1) * Hop \in Nat
                        /\ front + offset + (k - 1) * Hop = front + (k - 1) * Hop
    <3> TAKE k \in 1..d
    <3>1. k - 1 \in Nat /\ delivered * Hop \in Nat
      BY <1>4, <1>5
    <3>2. (k - 1) * Hop \in Nat
      BY <3>1, <1>5
    <3> QED BY <3>1, <3>2, <1>5
  <2>2. new \in [1..d -> Nat]
    BY <2>1
  <2> QED BY <1>4, <2>1, <2>2
<1>7. delivered' - delivered = d
  BY <1>3, <1>4, <1>5
<1>8. starts' = starts \o new
  BY <1>7 DEF Analyse
<1>9. starts \in Seq(Nat) /\ Len(starts) = delivered /\ \A f \in DOMAIN starts : starts[f] = (f - 1) * Hop
  BY DEF SignalInv
<1> HIDE DEF new
<1>10. /\ starts' \in Seq(Nat) /\ Len(starts') = delivered + d
       /\ \A f \in 1..(delivered + d) :
            starts'[f] = IF f <= delivered THEN starts[f] ELSE new[f - delivered]
  <2>1. /\ starts \o new \in Seq(Nat) /\ Len(starts \o new) = Len(starts) + Len(new)
        /\ \A f \in 1..(Len(starts) + Len(new)) :
             (starts \o new)[f] = IF f <= Len(starts) THEN starts[f] ELSE new[f - Len(starts)]
    BY <1>6, <1>9, ConcatProperties
  <2> QED BY <2>1, <1>6, <1>8, <1>9
<1>11. ASSUME NEW f \in DOMAIN starts' PROVE starts'[f] = (f - 1) * Hop
  <2>1. f \in 1..(delivered + d)
    BY <1>10
  <2>2. CASE f <= delivered
    BY <2>1, <2>2, <1>5, <1>9, <1>10
  <2>3. CASE ~(f <= delivered)
    <3> DEFINE k == f - delivered
    <3>1. k \in 1..d /\ starts'[f] = new[k] /\ k - 1 \in Nat
      BY <2>1, <2>3, <1>4, <1>5, <1>10, SMTT(30)
    <3>2. f - 1 = delivered + (k - 1)
      BY <2>1, <1>5
    <3> HIDE DEF k
    <3>3. (delivered + (k - 1)) * Hop = delivered * Hop + (k - 1) * Hop
      BY <3>1, <1>5, Distributes
    <3> QED BY <3>1, <3>2, <3>3, <1>5, <1>6
  <2> QED BY <2>2, <2>3
<1>12. handed' = handed /\ slipped' = slipped /\ placed' = placed
  BY DEF Analyse, inverseVars
<1>13. handed \in Nat /\ handed <= Len(starts) /\ (~slipped => Len(placed) = handed)
       /\ (delivered > 0 => Window <= PlanSize)
  BY DEF SignalInv
<1>14. Len(starts') = delivered' /\ Len(starts') \in Nat /\ handed' <= Len(starts')
  BY <1>3, <1>4, <1>5, <1>9, <1>10, <1>12, <1>13
<1>15. delivered' > 0 => Window <= PlanSize
  BY <1>3, <1>4, <1>5, <1>13
<1>16. SignalInv'
  BY <1>10, <1>11, <1>12, <1>13, <1>14, <1>15 DEF SignalInv
<1> QED BY <1>2, <1>16

(* Every step keeps the invariant of both.                                   *)
LEMMA RoundTripStep ==
  ASSUME Hop <= Window, RoundTripInv, [RoundTripNext]_allVars
  PROVE  RoundTripInv'
<1> USE DEF RoundTripInv
<1>1. InverseInv'
  BY InverseStep
<1>2. ASSUME Analyse PROVE StreamInv' /\ SignalInv'
  BY <1>2, AnalyseKeeps
<1>3. ASSUME Synthesise PROVE StreamInv' /\ SignalInv'
  <2>1. PICK k \in Batches, limit \in SampleLimits, flush \in Synth!FlushModes, output \in BOOLEAN :
          /\ handed + k <= Len(starts) /\ handed' = handed + k
          /\ slipped' = (slipped \/ Len(placed') # Len(placed) + k)
    BY <1>3 DEF Synthesise
  <2>2. UNCHANGED vars /\ starts' = starts
    BY <1>3 DEF Synthesise
  <2>3. StreamInv'
    BY <2>2, StreamStep
  <2>4. k \in Nat
    BY RoundTripAssumption
  <2>5. delivered' = delivered
    BY <2>2 DEF vars
  <2>6. SignalInv'
    <3>1. ~slipped' => ~slipped /\ Len(placed') = Len(placed) + k
      BY <2>1, Zenon
    <3>2. /\ starts \in Seq(Nat) /\ Len(starts) = delivered
          /\ \A f \in DOMAIN starts : starts[f] = (f - 1) * Hop
          /\ handed \in Nat /\ (~slipped => Len(placed) = handed)
          /\ delivered > 0 => Window <= PlanSize
      BY DEF SignalInv
    <3>3. handed' \in Nat /\ handed' <= Len(starts')
      BY <2>1, <2>2, <2>4, <3>2
    <3>4. ~slipped' => Len(placed') = handed'
      BY <2>1, <3>1, <3>2
    <3> QED BY <2>2, <2>5, <3>2, <3>3, <3>4 DEF SignalInv
  <2> QED BY <2>3, <2>6
<1>4. ASSUME Configure PROVE StreamInv' /\ SignalInv'
  <2>1. UNCHANGED vars /\ starts' = starts /\ handed' = handed /\ slipped' = slipped /\ placed' = placed
    BY <1>4 DEF Configure, Synth!ConfigWindow
  <2>2. delivered' = delivered
    BY <2>1 DEF vars
  <2> QED BY <2>1, <2>2, StreamStep DEF SignalInv
<1>5. ASSUME ResetBoth PROVE StreamInv' /\ SignalInv'
  <2>1. /\ Reset /\ placed' = <<>> /\ starts' = <<>> /\ handed' = 0 /\ slipped' = FALSE /\ delivered' = 0
    BY <1>5 DEF ResetBoth, Reset, Synth!Reset
  <2>2. <<>> \in Seq(Nat) /\ Len(<<>>) = 0
    BY EmptySeq
  <2>3. SignalInv'
    BY <2>1, <2>2 DEF SignalInv
  <2> QED BY <2>1, <2>3, ResetStep
<1>6. ASSUME UNCHANGED allVars PROVE StreamInv' /\ SignalInv'
  <2>1. UNCHANGED vars /\ starts' = starts /\ handed' = handed /\ slipped' = slipped /\ placed' = placed
    BY <1>6 DEF allVars, inverseVars
  <2>2. delivered' = delivered
    BY <2>1 DEF vars
  <2> QED BY <2>1, <2>2, StreamStep DEF SignalInv
<1> QED BY <1>1, <1>2, <1>3, <1>4, <1>5, <1>6 DEF RoundTripNext

(* It holds at the start.                                                    *)
LEMMA RoundTripStarts == RoundTripInit => RoundTripInv
<1> SUFFICES ASSUME RoundTripInit PROVE RoundTripInv
  OBVIOUS
<1>1. StreamInv /\ InverseInv
  BY InitAligned, InverseInit DEF RoundTripInit
<1>2. placed = <<>> /\ starts = <<>> /\ handed = 0 /\ slipped = FALSE /\ delivered = 0
  BY DEF RoundTripInit, Init, Synth!Init
<1>3. <<>> \in Seq(Nat) /\ Len(<<>>) = 0
  BY EmptySeq
<1> QED BY <1>1, <1>2, <1>3 DEF RoundTripInv, SignalInv

(* Both streams in one: the frames lie where they were taken from.           *)
LEMMA InvGivesBack ==
  ASSUME Hop <= Window
  PROVE  RoundTripInv => GivesTheSignalBack
<1> SUFFICES ASSUME RoundTripInv, ~slipped, cuts \subseteq {Len(placed)}
             PROVE  /\ \A n \in DOMAIN Synth!Output : Synth!Output[n].sum = Copies(n - 1)
                    /\ (placed # <<>> /\ cuts # {}) =>
                         Len(Synth!Output) >= starts[Len(placed)] + PlanSize
  BY DEF GivesTheSignalBack
<1>1. /\ starts \in Seq(Nat) /\ Len(starts) = delivered
      /\ \A f \in DOMAIN starts : starts[f] = (f - 1) * Hop
      /\ handed <= Len(starts) /\ Len(placed) = handed
      /\ delivered > 0 => Window <= PlanSize
  BY DEF RoundTripInv, SignalInv
<1>2. /\ placed \in Seq(Nat) /\ Len(placed) \in Nat /\ DOMAIN placed = 1..Len(placed)
      /\ \A n \in DOMAIN Synth!Output : Synth!Output[n].sum = Summed(placed, n - 1)
      /\ Synth!Output \in Seq(Samp)
  BY DEF RoundTripInv, InverseInv, Sums, Overlapped
<1>3. placed # <<>> =>
        /\ AtHops(placed)
        /\ cuts # {} => Len(Synth!Output) >= (Len(placed) - 1) * Hop + PlanSize
  <2> SUFFICES ASSUME placed # <<>>
               PROVE  /\ AtHops(placed)
                      /\ cuts # {} => Len(Synth!Output) >= (Len(placed) - 1) * Hop + PlanSize
    OBVIOUS
  <2>1. Len(placed) # 0
    BY <1>2
  <2>2. Hop <= PlanSize
    BY <1>1, <1>2, <2>1, StreamAssumption
  <2> QED BY <2>2 DEF RoundTripInv, InverseInv, Places
<1>4. DOMAIN starts = 1..Len(starts) /\ Len(starts) \in Nat
  BY <1>1
<1>5. {g \in DOMAIN starts : g <= Len(placed)} = DOMAIN placed
  BY <1>1, <1>2, <1>4
<1>6. ASSUME NEW f \in DOMAIN placed PROVE placed[f] = starts[f]
  <2>1. placed # <<>> /\ f \in DOMAIN starts
    BY <1>5, <1>2, <1>6
  <2> QED BY <2>1, <1>1, <1>3 DEF AtHops
<1>7. \A t : Copies(t) = Summed(placed, t)
  <2> TAKE t
  <2>1. {g \in DOMAIN starts : g <= Len(placed) /\ t - starts[g] \in Synth!Index}
          = {g \in DOMAIN placed : t - placed[g] \in Synth!Index}
    BY <1>5, <1>6
  <2> QED BY <2>1, <1>6 DEF Copies, Summed
<1>8. ASSUME placed # <<>>, cuts # {} PROVE Len(Synth!Output) >= starts[Len(placed)] + PlanSize
  <2>1. Len(placed) \in DOMAIN placed /\ Len(placed) \in DOMAIN starts
    BY <1>2, <1>5, <1>8
  <2>2. starts[Len(placed)] = (Len(placed) - 1) * Hop
    BY <1>1, <2>1
  <2> QED BY <1>3, <1>8, <2>2
<1> QED BY <1>2, <1>7, <1>8

(* Output sample t sums the windowed copies of signal sample t and nothing   *)
(* else, and a flush after the last frame brings all the frames cover,       *)
(* however signal and frames are cut into calls: for every window, every     *)
(* plan length and every hop not longer than the window.                     *)
THEOREM SignalComesBack ==
  ASSUME Hop <= Window
  PROVE  RoundTrip => []GivesTheSignalBack
<1>1. RoundTripInv /\ [RoundTripNext]_allVars => RoundTripInv'
  BY RoundTripStep
<1> QED BY RoundTripStarts, InvGivesBack, <1>1, PTL DEF RoundTrip
=============================================================================
