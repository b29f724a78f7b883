----------------------------- MODULE FftKernels -----------------------------
(***************************************************************************)
(* One call of fft_apply_axis (eigen_fft.hpp) with either built-in kernel: *)
(* the columns of a batch are cut into chunks of Lanes columns, and chunks *)
(* go to the threads of the plan's dispatcher.                             *)
(*                                                                         *)
(* Cooley-Tukey works in place: one dispatch permutes every column into    *)
(* bit-reversed order, then each of the lg N stages is a dispatch, and a   *)
(* serial loop scales an inverse transform.  Stockham has one dispatch: a  *)
(* chunk is loaded into the buffers of its worker's slot, goes through all *)
(* the stages from one buffer to the other, and is stored.  The dispatcher *)
(* is taken at its word, as in Dispatch: a chunk goes to one worker, and a *)
(* dispatch ends when its chunks are settled.                              *)
(*                                                                         *)
(* A call may ask for a trace: what each stage left in the first column or *)
(* in all of them, which two elements and which twiddle made each element  *)
(* (StageSnapshot, ButterflyPairs, TwiddleIndexMap and their variants for  *)
(* the batch).  Stockham knows the first column only.                      *)
(*                                                                         *)
(* store_polar and reduce_magnitude are off (they are not linear).         *)
(***************************************************************************)
EXTENDS Cyclotomic, FiniteSets

CONSTANTS
  Kernels,       (* of "cooleytukey", "stockham"                           *)
  Sizes,         (* values of Plan::N, divisors of Order                   *)
  Modes,         (* of "C2C", "R2C", "C2R", "R2R": Plan::transform_mode    *)
  Traces,        (* of "none", "first", "all": what C2C calls ask for      *)
  Batch,         (* layout.batch_size of a call on one axis                *)
  Lanes,         (* active_lane_cols, lane_cols                            *)
  Threads,       (* the dispatcher's workers                               *)
  SlotCapacity   (* arena.stockham_thread_capacity                         *)

\* 1 << n.
Pow2[n \in Nat] == IF n = 0 THEN 1 ELSE 2 * Pow2[n - 1]

IsPow2(n) == \E l \in 0..n : Pow2[l] = n

ASSUME KernelsAssumption ==
  /\ Kernels \subseteq {"cooleytukey", "stockham"}
  /\ Sizes \subseteq {n \in 1..Order : Order % n = 0 /\ IsPow2(n)}
  /\ Modes \subseteq {"C2C", "R2C", "C2R", "R2R"}
  /\ Traces \subseteq {"none", "first", "all"}
  /\ {Batch, Lanes, Threads, SlotCapacity} \subseteq Nat \ {0}

VARIABLES
  plan,     (* the Plan: kernel, N, inverse, transform_mode, half_spectrum *)
  input,    (* history: the columns when the call began                    *)
  data,     (* data[c][i]: element i of column c                           *)
  phase,    (* pre, permute, stage, scale, chunks, post, done, and turned,
               which is for FftPlanes                                      *)
  stage,    (* Cooley-Tukey's stage_idx                                    *)
  next,     (* the next chunk the dispatcher hands out                     *)
  task,     (* task[w]: the chunk worker w is at, or Idle                  *)
  step,     (* step[w]: Stockham stages its chunk has been through, or -1  *)
  ping, pong, (* the buffers of slot w                                     *)
  lost,     (* chunks whose every attempt threw                            *)
  asked,    (* layout.metadata_requests: of which columns a trace is asked *)
  trace     (* trace[<<s, c, i>>]: how stage s made element i of column c  *)

call == <<plan, input, asked>>
work == <<next, task, step, ping, pong, lost, trace>>
vars == <<call, data, phase, stage, work>>

Columns == DOMAIN data
Workers == 0..(Threads - 1)
ChunkCount == (Cardinality(Columns) + Lanes - 1) \div Lanes
Idle == -1

ColumnsOf(chunk) == {c \in Columns : c \div Lanes = chunk}

-----------------------------------------------------------------------------
(* The plan's tables.                                                      *)

N == plan.N
Positions == 0..(N - 1)
LgN == CHOOSE l \in 0..N : Pow2[l] = N

\* W[k] = exp(-+ 2 pi i k / N), as a power of z.
Twiddle(k) == (IF plan.inverse THEN 1 ELSE -1) * k * (Order \div N)

\* The low lgN bits of i in reverse order.
BitRev(i) ==
  LET low[b \in 0..LgN] == IF b = 0 THEN 0 ELSE (2 * low[b - 1]) + ((i \div Pow2[b - 1]) % 2)
  IN  low[LgN]

-----------------------------------------------------------------------------
(* What happens to one column v.                                           *)

Mirrored(v) ==
  LET w == [i \in Positions |-> IF i \in {0, N \div 2} THEN RealPart(v[i]) ELSE v[i]]
  IN  [i \in Positions |-> IF i > N \div 2 THEN Conjugate(w[N - i]) ELSE w[i]]

\* apply_pre_transform.
Prepared(v) ==
  CASE plan.mode = "R2C" -> [i \in Positions |-> RealPart(v[i])]
    [] plan.mode = "C2R" /\ plan.half -> Mirrored(v)
    [] OTHER -> v

\* apply_post_transform.
Finished(v) ==
  CASE plan.mode = "R2C" /\ plan.half ->
         [i \in Positions |-> IF i > N \div 2 THEN Zero
                              ELSE IF i \in {0, N \div 2} THEN RealPart(v[i]) ELSE v[i]]
    [] plan.mode = "C2R" -> [i \in Positions |-> RealPart(v[i])]
    [] OTHER -> v

Scaled(v) == IF plan.inverse THEN [i \in Positions |-> Over(v[i], N)] ELSE v

\* Mutant: the test `src <= i` is dropped, so every pair is swapped twice.
PermutedTwice(v) == v

\* Every pair i < bitrev[i] is swapped once.
Permuted(v) == [i \in Positions |-> v[BitRev(i)]]

\* The radix-2 butterfly of a and b, twiddle W[k]: t = W[k] * b, a + t and a - t.
Y0(a, b, k) == Plus(a, Turned(b, Twiddle(k)))
Y1(a, b, k) == Minus(a, Turned(b, Twiddle(k)))

\* Stage s of Cooley-Tukey: butterflies of a[k] and b[k] = a[k + half] in
\* blocks of len = 2 * half elements, with twiddle W[k * step].
Staged(v, s) ==
  LET half == Pow2[s]
      len  == 2 * half
      base(i) == len * (i \div len)
      k(i) == i % half
      a(i) == v[base(i) + k(i)]
      b(i) == v[base(i) + k(i) + half]
      tw(i) == k(i) * (N \div len)
  IN  [i \in Positions |-> IF i % len < half THEN Y0(a(i), b(i), tw(i)) ELSE Y1(a(i), b(i), tw(i))]

\* Stage s of Stockham: the pair (2j, 2j+1) of segments goes to segment j of
\* each half of the output, with twiddle W[j * segments].
Scattered(v, s) ==
  LET segments == N \div Pow2[s + 1]
      half == N \div 2
      j(i) == (i % half) \div segments
      g(i) == i % segments
      a(i) == v[2 * j(i) * segments + g(i)]
      b(i) == v[(2 * j(i) + 1) * segments + g(i)]
      tw(i) == j(i) * segments
  IN  [i \in Positions |-> IF i < half THEN Y0(a(i), b(i), tw(i)) ELSE Y1(a(i), b(i), tw(i))]

StageOf(v, s) == IF plan.kernel = "cooleytukey" THEN Staged(v, s) ELSE Scattered(v, s)

\* v after each number of stages.
Levels(v) ==
  LET level[s \in 0..LgN] == IF s = 0 THEN v ELSE StageOf(level[s - 1], s - 1)
  IN  level

-----------------------------------------------------------------------------
(* What the metadata writers record.                                       *)

\* Of stage s, place Pow2[s] - 1 + j: the power of the j-th twiddle (Twiddle metadata).
TwiddleTable ==
  [place \in 0..(N - 2) |->
     LET s == CHOOSE t \in 0..LgN : Pow2[t] <= place + 1 /\ place + 1 < Pow2[t + 1]
     IN  Twiddle((place + 1 - Pow2[s]) * (N \div Pow2[s + 1]))]

Entry(value, pair, index) == [value |-> value, pair |-> pair, index |-> index]
Overlaid(f, g) == [x \in DOMAIN f \cup DOMAIN g |-> IF x \in DOMAIN g THEN g[x] ELSE f[x]]

\* Mutant: the index counts within the stage's twiddles.
StageTraceByCount(s, columns, after) ==
  LET half == Pow2[s]
      k(i) == i % half
      a(i) == (2 * half * (i \div (2 * half))) + k(i)
      traced == CASE asked = "all" -> columns
                  [] asked = "first" -> columns \cap {0}
                  [] OTHER -> {}
  IN  [x \in {s} \X traced \X Positions |->
         Entry(after[x[2]][x[3]], <<a(x[3]), a(x[3]) + half>>, k(x[3]))]

\* Cooley-Tukey, for the columns of a chunk after stage s.
StageTrace(s, columns, after) ==
  LET half == Pow2[s]
      k(i) == i % half
      a(i) == (2 * half * (i \div (2 * half))) + k(i)
      traced == CASE asked = "all" -> columns
                  [] asked = "first" -> columns \cap {0}
                  [] OTHER -> {}
  IN  [x \in {s} \X traced \X Positions |->
         Entry(after[x[2]][x[3]], <<a(x[3]), a(x[3]) + half>>, k(x[3]) * (N \div (2 * half)))]

\* Stockham, for the first lane of the first chunk.
ScatterTrace(s, chunk, out) ==
  LET segments == N \div Pow2[s + 1]
      j(i) == (i % (N \div 2)) \div segments
      first(i) == (2 * j(i) * segments) + (i % segments)
      traced == IF asked = "first" /\ chunk = 0 THEN {0} ELSE {}
  IN  [x \in {s} \X traced \X Positions |->
         Entry(out[x[2]][x[3]], <<first(x[3]), first(x[3]) + segments>>, j(x[3]) * segments)]

-----------------------------------------------------------------------------
\* data with f applied to the columns of a chunk.
OnChunk(f(_), chunk) ==
  [c \in Columns |-> IF c \in ColumnsOf(chunk) THEN f(data[c]) ELSE data[c]]

-----------------------------------------------------------------------------
\* How a call of fft_apply_axis begins.
Started ==
  /\ data = input
  /\ phase = IF plan.kernel = "cooleytukey" THEN "pre" ELSE "chunks"
  /\ stage = 0 /\ next = 0 /\ lost = {}
  /\ task = [w \in Workers |-> Idle]
  /\ step = [w \in Workers |-> -1]
  /\ ping = [w \in Workers |-> <<>>]
  /\ pong = [w \in Workers |-> <<>>]
  /\ trace = <<>>

\* Any plan; columns that hold, one after the other, the vectors with a
\* single element, real or imaginary, not zero: a transform is linear over
\* the reals, so these stand for all inputs.  The element is large enough for
\* every division to be exact.
Unit(n, i) == [p \in Powers |-> IF p = (i % 2) * (Order \div 4) THEN 4 * n ELSE 0]
Basis(n, i) ==
  [m \in 0..(n - 1) |-> IF m = (i \div 2) % n THEN Unit(n, i) ELSE Zero]

Init ==
  /\ plan \in {p \in [kernel : Kernels, N : Sizes, inverse : BOOLEAN,
                      mode : Modes, half : BOOLEAN] :
                 p.half => p.mode \in {"R2C", "C2R"}}
  /\ \E i \in 0..(2 * N - 1) : input = [c \in 0..(Batch - 1) |-> Basis(N, i + c)]
  /\ asked \in IF plan.mode = "C2C" THEN Traces ELSE {"none"}
  /\ Started

PreTransform ==
  /\ phase = "pre"
  /\ data' = [c \in Columns |-> Prepared(data[c])]
  /\ phase' = "permute"
  /\ UNCHANGED <<call, stage, work>>

Dispatching == phase \in {"permute", "stage", "chunks"}

\* An idle worker takes the next chunk.
Take(w) ==
  /\ Dispatching /\ task[w] = Idle /\ next < ChunkCount
  /\ task' = [task EXCEPT ![w] = next]
  /\ next' = next + 1
  /\ UNCHANGED <<call, data, phase, stage, step, ping, pong, lost, trace>>

Settled(w) == task' = [task EXCEPT ![w] = Idle]

\* permute_fn.
PermuteChunk(w) ==
  /\ phase = "permute" /\ task[w] # Idle
  /\ data' = OnChunk(Permuted, task[w])
  /\ Settled(w)
  /\ UNCHANGED <<call, phase, stage, next, step, ping, pong, lost, trace>>

\* stage_chunk.
StageChunk(w) ==
  /\ phase = "stage" /\ task[w] # Idle
  /\ data' = OnChunk(LAMBDA v : Staged(v, stage), task[w])
  /\ trace' = Overlaid(trace, StageTrace(stage, ColumnsOf(task[w]), data'))
  /\ Settled(w)
  /\ UNCHANGED <<call, phase, stage, next, step, ping, pong, lost>>

\* process_chunk throws before it touches anything when the worker has no
\* slot in the arena; so does every retry, and the chunk is given up.
NoSlot(w) ==
  /\ phase = "chunks" /\ task[w] # Idle /\ w >= SlotCapacity
  /\ lost' = lost \cup {task[w]}
  /\ Settled(w)
  /\ UNCHANGED <<call, data, phase, stage, next, step, ping, pong, trace>>

\* The load phase of process_chunk.
Load(w) ==
  /\ phase = "chunks" /\ task[w] # Idle /\ w < SlotCapacity /\ step[w] = -1
  /\ ping' = [ping EXCEPT ![w] = [c \in ColumnsOf(task[w]) |-> data[c]]]
  /\ step' = [step EXCEPT ![w] = 0]
  /\ UNCHANGED <<call, data, phase, stage, next, task, pong, lost, trace>>

Through(buffer, s) == [c \in DOMAIN buffer |-> Scattered(buffer[c], s)]

\* Mutant: the stage works on the columns themselves.
TransformInPlace(w) ==
  /\ phase = "chunks" /\ step[w] \in 0..(LgN - 1) /\ step' = [step EXCEPT ![w] = @ + 1]
  /\ ping' = [ping EXCEPT ![w] = Through(@, step[w])]
  /\ pong' = [pong EXCEPT ![w] = ping'[w]]
  /\ data' = OnChunk(LAMBDA v : Scattered(v, step[w]), task[w])
  /\ UNCHANGED <<call, phase, stage, next, task, lost, trace>>

\* One stage, from one buffer of the slot to the other.
TransformStage(w) ==
  /\ phase = "chunks" /\ step[w] \in 0..(LgN - 1)
  /\ IF step[w] % 2 = 0
       THEN pong' = [pong EXCEPT ![w] = Through(ping[w], step[w])] /\ UNCHANGED ping
       ELSE ping' = [ping EXCEPT ![w] = Through(pong[w], step[w])] /\ UNCHANGED pong
  /\ trace' = Overlaid(trace, ScatterTrace(step[w], task[w],
                                           IF step[w] % 2 = 0 THEN pong'[w] ELSE ping'[w]))
  /\ step' = [step EXCEPT ![w] = @ + 1]
  /\ UNCHANGED <<call, data, phase, stage, next, task, lost>>

\* The store phase: final_buf is ping after an even number of stages.
Store(w) ==
  /\ phase = "chunks" /\ step[w] = LgN
  /\ LET final == IF LgN % 2 = 0 THEN ping[w] ELSE pong[w]
     IN  data' = [c \in Columns |-> IF c \in DOMAIN final THEN Scaled(final[c]) ELSE data[c]]
  /\ step' = [step EXCEPT ![w] = -1]
  /\ Settled(w)
  /\ UNCHANGED <<call, phase, stage, next, ping, pong, lost, trace>>

\* The dispatch returns: on to the next one, or to the serial rest.
EndDispatch ==
  /\ Dispatching /\ next = ChunkCount /\ \A w \in Workers : task[w] = Idle
  /\ next' = 0
  /\ \/ /\ phase = "permute"
        /\ phase' = IF LgN > 0 THEN "stage" ELSE "scale"
        /\ UNCHANGED stage
     \/ /\ phase = "stage"
        /\ stage' = stage + 1
        /\ phase' = IF stage + 1 < LgN THEN "stage" ELSE "scale"
     \/ phase = "chunks" /\ phase' = "post" /\ UNCHANGED stage
  /\ UNCHANGED <<call, data, task, step, ping, pong, lost, trace>>

Scale ==
  /\ phase = "scale"
  /\ data' = [c \in Columns |-> Scaled(data[c])]
  /\ phase' = "post"
  /\ UNCHANGED <<call, stage, work>>

PostTransform ==
  /\ phase = "post"
  /\ data' = [c \in Columns |-> Finished(data[c])]
  /\ phase' = "done"
  /\ UNCHANGED <<call, stage, work>>

Next ==
  \/ PreTransform \/ EndDispatch \/ Scale \/ PostTransform
  \/ \E w \in Workers :
       \/ Take(w) \/ PermuteChunk(w) \/ StageChunk(w)
       \/ NoSlot(w) \/ Load(w) \/ TransformStage(w) \/ Store(w)

Spec == Init /\ [][Next]_vars

-----------------------------------------------------------------------------
(* What the transform modes promise, by definition.                        *)

\* The discrete Fourier transform, an inverse one divided by N.
Dft(v) ==
  Scaled([k \in Positions |-> Total([n \in Positions |-> Turned(v[n], Twiddle(n * k))], N)])

Reals(v) == [i \in Positions |-> RealPart(v[i])]
LowerBins(v) == [i \in Positions |-> IF i <= N \div 2 THEN v[i] ELSE Zero]

\* The spectrum of a real signal that agrees with v on the bins 0..N/2.
Hermitian(v) ==
  [i \in Positions |->
     CASE i \in {0, N \div 2} -> RealPart(v[i])
       [] i \notin {0, N \div 2} /\ 2 * i < N -> v[i]
       [] OTHER -> Conjugate(v[N - i])]

Promised(v) ==
  CASE plan.mode = "C2C" -> Dft(v)
    [] plan.mode = "R2C" /\ ~plan.half -> Dft(Reals(v))
    [] plan.mode = "R2C" /\ plan.half -> LowerBins(Dft(Reals(v)))
    [] plan.mode = "C2R" /\ ~plan.half -> Reals(Dft(v))
    [] plan.mode = "C2R" /\ plan.half -> Reals(Dft(Hermitian(v)))
    [] plan.mode = "R2R" -> Reals(Dft(Reals(v)))

\* Input that the mode needs no preparation for.
Prearranged(v) ==
  /\ plan.mode = "R2C" => v = Reals(v)
  /\ plan.mode = "C2R" /\ plan.half => v = Hermitian(v)

LostColumns == UNION {ColumnsOf(chunk) : chunk \in lost}

(* However the chunks are spread over the workers, every column that was not *)
(* lost ends as the transform its plan promises, computed from its own       *)
(* input: with Cooley-Tukey always (R2R aside), with Stockham when the input *)
(* needs no preparation.                                                     *)
TransformsCorrectly ==
  (phase = "done" /\ plan.mode # "R2R") =>
    \A c \in Columns \ LostColumns :
      plan.kernel = "cooleytukey" \/ Prearranged(input[c]) =>
        data[c] = Promised(input[c])

(* Stockham's chunks can be attempted again without a snapshot: until its    *)
(* chunk is stored, a column is the caller's input, and then what the stages *)
(* make of that input and of nothing else.                                   *)
StoredWholeOrNotAtAll ==
  phase = "chunks" => \A c \in Columns : data[c] \in {input[c], Scaled(Levels(input[c])[LgN])}

(* A trace accounts for the result: the stages start from the caller's      *)
(* column (Cooley-Tukey permutes it first) and every value of the next one   *)
(* is the sum or difference of the two it names, the second multiplied with  *)
(* the recorded twiddle, until the column that is returned.  The traced      *)
(* columns are complete, in whatever order the chunks were done (2958-3010,  *)
(* 3462-3532).                                                               *)
TraceExplains ==
  (phase = "done" /\ asked # "none" /\ N > 1) =>
    LET ct == plan.kernel = "cooleytukey"
        traced == (CASE asked = "first" -> {0}
                     [] asked = "all" -> IF ct THEN Columns ELSE {}) \ LostColumns
        Column(s, c) ==
          IF s = -1 THEN IF ct THEN Permuted(input[c]) ELSE input[c]
          ELSE [i \in Positions |-> trace[<<s, c, i>>].value]
        Factor(s, e) == TwiddleTable[(Pow2[s] - 1) + (e.index \div (N \div Pow2[s + 1]))]
        Explained(s, c, i) ==
          LET e == trace[<<s, c, i>>]
              a == Column(s - 1, c)[e.pair[1]]
              b == Turned(Column(s - 1, c)[e.pair[2]], Factor(s, e))
          IN  e.value = IF (IF ct THEN i = e.pair[1] ELSE 2 * i < N)
                        THEN Plus(a, b) ELSE Minus(a, b)
    IN  /\ DOMAIN trace = (0..(LgN - 1)) \X traced \X Positions
        /\ \A x \in DOMAIN trace : Explained(x[1], x[2], x[3])
        /\ \A c \in traced : data[c] = Scaled(Column(LgN - 1, c))

(* "Half-spectrum packing (R2C/C2R): ... Inverse expands correctly", for any *)
(* kernel.                                                                   *)
HalfSpectrumExpands ==
  (phase = "done" /\ plan.mode = "C2R" /\ plan.half) =>
    \A c \in Columns \ LostColumns : data[c] = Promised(input[c])
=============================================================================
