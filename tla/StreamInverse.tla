--------------------------- MODULE StreamInverse ---------------------------
(***************************************************************************)
(* fft_stream_push_spectrum (fft_cffi.cpp): inverse transforms of frames   *)
(* are overlap-added in an accumulator of one plan length, samples that no *)
(* later frame can reach are queued, and the queue is drained into the     *)
(* caller's buffers.  A sample is abstracted to the set of contributions   *)
(* it sums, <<f, i>> being sample i of frame f, and its normalisation to   *)
(* the set of contributions whose window weights were summed.              *)
(***************************************************************************)
EXTENDS Integers, Sequences, SequencesExt

CONSTANTS
  PlanSize, Hop,
  Batches,      (* frames of one call                                      *)
  Limits,       (* values of max_samples, 0 for none                       *)
  MaxFrames,    (* bound: frames accepted before a reset                   *)
  MaxQueued     (* bound: samples queued or given out before a reset       *)

FlushModes == {"none", "final"}     \* partial is treated as none
Index == 0..(PlanSize - 1)
Silence == [i \in Index |-> {}]     \* plan_n zeros
Absent == [i \in {} |-> {}]         \* a vector of size zero

VARIABLES
  accum,     (* streaming_inverse_accum                                    *)
  norm,      (* streaming_inverse_norm                                     *)
  queue,     (* streaming_inverse_queue, from its offset on                *)
  cola,      (* cola_mode = FFT_COLA_NORMALIZE                             *)
  emitted,   (* history: the samples given to the caller                   *)
  placed,    (* history: where in the output each frame was placed         *)
  cuts,      (* history: the frames that ended a flushed section           *)
  mixed      (* history: cola_mode changed over a pending overlap          *)

vars == <<accum, norm, queue, cola, emitted, placed, cuts, mixed>>

Init ==
  /\ accum = Absent /\ norm = Absent
  /\ queue = <<>> /\ emitted = <<>>
  /\ cola \in BOOLEAN
  /\ placed = <<>> /\ cuts = {} /\ mixed = FALSE

Output == emitted \o queue
IsEmpty(v) == \A i \in DOMAIN v : v[i] = {}

\* A queued sample, divided by its norm when there is one.
Sample(a, w, i) == [sum |-> a[i], weight |-> IF w = Absent THEN {} ELSE w[i],
                    normed |-> w # Absent]

\* The first n samples leave v, zeros come in at the end.
Shifted(v, n) == [i \in DOMAIN v |-> IF i + n < PlanSize THEN v[i + n] ELSE {}]

Samples(a, w, n) == [j \in 1..n |-> Sample(a, w, j - 1)]
Added(v, f) == [i \in DOMAIN v |-> v[i] \cup {<<f, i>>}]

\* Mutant: a final flush of every frame, not of the last one only.
EmitAlways(last, flush) ==
  IF flush = "final" \/ Hop > PlanSize THEN PlanSize ELSE Hop

\* The samples queued after a frame: a hop, or all on a final flush.
Emit(last, flush) ==
  IF (flush = "final" /\ last) \/ Hop > PlanSize THEN PlanSize ELSE Hop

\* Mutant: the norms keep their place when the samples move.
AddFrameNormStays(s, f, last, flush) ==
  LET a == Added(s.accum, f)
      w == Added(s.norm, f)
      n == Emit(last, flush)
  IN  [accum |-> Shifted(a, n), norm |-> w,
       queue |-> s.queue \o Samples(a, w, n),
       placed |-> Append(s.placed, s.base + Len(s.queue)), base |-> s.base]

\* One frame is overlap-added and what it completes is queued.
AddFrame(s, f, last, flush) ==
  LET a == Added(s.accum, f)
      w == Added(s.norm, f)
      n == Emit(last, flush)
  IN  [accum |-> Shifted(a, n), norm |-> Shifted(w, n),
       queue |-> s.queue \o Samples(a, w, n),
       placed |-> Append(s.placed, s.base + Len(s.queue)), base |-> s.base]

\* The vectors as a call finds them, (re)sized to the plan.
Sized ==
  [accum |-> IF accum = Absent THEN Silence ELSE accum,
   norm  |-> IF ~cola THEN Absent ELSE IF norm = Absent THEN Silence ELSE norm,
   queue |-> queue, placed |-> placed, base |-> Len(emitted)]

\* The state after the first n of k frames.
AfterFrames(k, flush) ==
  LET after[n \in 0..k] ==
        IF n = 0 THEN Sized
        ELSE AddFrame(after[n - 1], Len(placed) + n, n = k, flush)
  IN  after[k]

\* Mutant: the flushed accumulator keeps its samples.
DrainedTwice(s) == [s EXCEPT !.queue = @ \o Samples(s.accum, s.norm, PlanSize)]

\* A final flush without frames queues the whole accumulator.
Drained(s) ==
  [s EXCEPT !.queue = @ \o Samples(s.accum, s.norm, PlanSize),
            !.accum = Silence,
            !.norm = IF s.norm = Absent THEN Absent ELSE Silence]

\* Mutant: samples the caller's buffer has no room for are dropped.
EmitPcmDropping(q, room) == /\ emitted' = emitted \o SubSeq(q, 1, room)
                            /\ queue' = <<>>

\* stream_inverse_emit: as many queued samples as the caller takes.
EmitPcm(q, room) == /\ emitted' = emitted \o SubSeq(q, 1, room)
                    /\ queue' = SubSeq(q, room + 1, Len(q))

Room(q, limit, output) ==
  IF ~output THEN 0 ELSE IF limit # 0 /\ Len(q) > limit THEN limit ELSE Len(q)

\* fft_stream_push_spectrum with k frames; the transform produces p of them:
\* all, or none when an input is null or it fails.
PushSpectrum(k, limit, flush, output) ==
  \E p \in {0, k} :
    LET base == AfterFrames(p, flush)
        s == IF k = 0 /\ flush = "final" THEN Drained(base) ELSE base
        room == Room(s.queue, limit, output)
    IN  /\ Len(placed) + p <= MaxFrames /\ s.base + Len(s.queue) <= MaxQueued
        /\ accum' = s.accum /\ norm' = s.norm /\ placed' = s.placed
        /\ EmitPcm(s.queue, room)
        /\ cuts' = IF flush = "final" /\ p = k THEN cuts \cup {Len(s.placed)} ELSE cuts
        /\ UNCHANGED <<cola, mixed>>

\* fft_config_window: the cola mode changes, the streams stay as they are.
ConfigWindow ==
  /\ cola' = ~cola
  /\ mixed' = (mixed \/ ~IsEmpty(accum))
  /\ UNCHANGED <<accum, norm, queue, emitted, placed, cuts>>

\* fft_stream_reset.
Reset ==
  /\ accum' = Absent /\ norm' = Absent /\ queue' = <<>>
  /\ emitted' = <<>> /\ placed' = <<>> /\ cuts' = {} /\ mixed' = FALSE
  /\ UNCHANGED cola

Next ==
  \/ \E k \in Batches, limit \in Limits, flush \in FlushModes, output \in BOOLEAN :
       PushSpectrum(k, limit, flush, output)
  \/ ConfigWindow \/ Reset

Spec == Init /\ [][Next]_vars

-----------------------------------------------------------------------------
\* What the overlap-add of all frames has at output position p.
Overlap(p) == {<<f, p - placed[f]>> : f \in {g \in DOMAIN placed : p - placed[g] \in Index}}

(* Every sample given out, queued or still accumulating sums exactly the     *)
(* frame samples that belong there: none lost at a shift, none summed twice. *)
SumsTheOverlap ==
  /\ \A n \in DOMAIN Output : Output[n].sum = Overlap(n - 1)
  /\ \A i \in DOMAIN accum : accum[i] = Overlap(Len(Output) + i)

(* A sample is divided by the weights of exactly the contributions it sums,  *)
(* unless the cola mode was changed in the middle of an overlap.             *)
NormMatches ==
  ~mixed => /\ \A n \in DOMAIN Output : Output[n].normed => Output[n].weight = Output[n].sum
            /\ norm # Absent => norm = accum

(* After a final flush that went through, every frame is in the output.      *)
FlushCompletes ==
  Len(placed) \in cuts => IsEmpty(accum)
=============================================================================
