----------------------------- MODULE GridTools -----------------------------
(***************************************************************************)
(* The time-frequency pipelines of ft_tools.hpp and their C entry points   *)
(* (ft_tools_cffi.cpp): one call takes a grid of spectral samples, row by  *)
(* row in a flat buffer, refines it, quantizes magnitudes at harmonics,    *)
(* boosts local contrast, coarsens it, and writes it back if it has the    *)
(* caller's shape again.                                                   *)
(*                                                                         *)
(* The samples of a call lie on one line through zero, which every step    *)
(* keeps: a complex sample is a signed integer, a polar one a magnitude    *)
(* and a phase of zero or half a turn.  Constants are scaled so that every *)
(* division is exact.  gamma is 1.                                         *)
(***************************************************************************)
EXTENDS Integers

CONSTANTS
  Grids,      (* inputs: [times, freqs, cells], complex samples             *)
  Plans,      (* resample plans, as the caller gives them                   *)
  Quantizers, (* quantizer configurations                                   *)
  Contrasts,  (* contrast configurations                                    *)
  Unit,       (* what stands for 1 in steps and frequencies                 *)
  MaxCells    (* stands for the largest int                                 *)

ASSUME GridAssumption ==
  /\ \A g \in Grids :
       g \in [times : Int, freqs : Int, cells : [0..(g.times * g.freqs - 1) -> Int]]
  /\ Plans \subseteq [upT : Int, upF : Int, downT : Int, downF : Int,
                      energy : BOOLEAN, step : Nat]
  /\ Quantizers \subseteq [on : BOOLEAN, base : Int, step : Int, mix : Int, sharp : BOOLEAN]
  /\ Contrasts \subseteq [on : BOOLEAN, kt : Int, kf : Int, brightness : Int,
                          contrast : Int, clamp : BOOLEAN]
  /\ Unit \in Nat \ {0} /\ MaxCells \in Nat

VARIABLES
  call,    (* [form, grid, plan, quant, contrast]: what the caller passed   *)
  pc,      (* the next step of the call                                     *)
  field,   (* [form, times, freqs, cells, tstep, fstep], the working copy   *)
  buffer,  (* the caller's buffers                                          *)
  result   (* what the call returned, or None                               *)

gridVars == <<call, pc, field, buffer, result>>

None == "none"
Larger(a, b) == IF a >= b THEN a ELSE b
Smaller(a, b) == IF a <= b THEN a ELSE b
Magnitude(x) == IF x < 0 THEN -x ELSE x

\* linear_index, and the cells of a field by row and column.
\* Mutant: rows are as long as there are rows.
AtSkewed(g, t, f) == g.cells[Smaller(t * g.times + f, g.times * g.freqs - 1)]
At(g, t, f) == g.cells[t * g.freqs + f]
Filled(g, Cell(_, _)) ==
  [g EXCEPT !.cells = [i \in 0..(g.times * g.freqs - 1) |-> Cell(i \div g.freqs, i % g.freqs)]]

\* The sum of n terms, and of the cells of a block of rows and columns.
Added(term, n) ==
  LET upto[k \in Nat] == IF k = 0 THEN 0 ELSE upto[k - 1] + term[k - 1]
  IN  upto[n]

Total(g, rows, cols) ==
  LET InRow(t) == Added([f \in 0..(g.freqs - 1) |-> IF f \in cols THEN At(g, t, f) ELSE 0], g.freqs)
  IN  Added([t \in 0..(g.times - 1) |-> IF t \in rows THEN InRow(t) ELSE 0], g.times)

Mean(g, rows, cols) ==
  Total(g, rows, cols) \div Total([g EXCEPT !.cells = [i \in DOMAIN @ |-> 1]], rows, cols)

\* std::polar and std::abs, std::arg on the line.
ToComplex(x) == IF x.phase = 0 THEN x.mag ELSE -x.mag
ToPolar(v) == [mag |-> Magnitude(v), phase |-> IF v < 0 THEN 1 ELSE 0]
PolarToComplex(g) == [g EXCEPT !.form = "complex", !.cells = [i \in DOMAIN @ |-> ToComplex(@[i])]]
ComplexToPolar(g) == [g EXCEPT !.form = "polar", !.cells = [i \in DOMAIN @ |-> ToPolar(@[i])]]

-----------------------------------------------------------------------------
Lerp(a, b, k, n) == a + ((b - a) * k) \div n

\* upsample_complex: between two bins along each axis, the last bin repeated.
UpsampledComplex(g, ut, uf) ==
  LET Neighbour(x, n) == Smaller(x + 1, n - 1)
      Cell(t, f) ==
        LET t0 == t \div ut  f0 == f \div uf
            t1 == Neighbour(t0, g.times)  f1 == Neighbour(f0, g.freqs)
        IN  Lerp(Lerp(At(g, t0, f0), At(g, t1, f0), t % ut, ut),
                 Lerp(At(g, t0, f1), At(g, t1, f1), t % ut, ut), f % uf, uf)
  IN  Filled([g EXCEPT !.times = @ * ut, !.freqs = @ * uf,
                       !.tstep = @ \div ut, !.fstep = @ \div uf], Cell)

\* downsample_complex: the sum of each block, or its mean; the last may be short.
DownsampledComplex(g, dt, df, energy) ==
  LET Span(x, d, n) == (x * d)..(Smaller(x * d + d, n) - 1)
      Cell(t, f) ==
        LET rows == Span(t, dt, g.times)  cols == Span(f, df, g.freqs)
        IN  IF energy THEN Mean(g, rows, cols) ELSE Total(g, rows, cols)
  IN  Filled([g EXCEPT !.times = (@ + dt - 1) \div dt, !.freqs = (@ + df - 1) \div df,
                       !.tstep = @ * dt, !.fstep = @ * df], Cell)

\* The polar forms go through the complex ones, unless there is nothing to do.
Upsampled(g, ut, uf) ==
  IF ut <= 1 /\ uf <= 1 THEN g
  ELSE IF g.form = "complex" THEN UpsampledComplex(g, ut, uf)
  ELSE ComplexToPolar(UpsampledComplex(PolarToComplex(g), ut, uf))

\* Mutant: averages magnitudes, and keeps the phase of the first sample.
DownsampledApart(g, dt, df, energy) ==
  IF dt <= 1 /\ df <= 1 THEN g
  ELSE IF g.form = "complex" THEN DownsampledComplex(g, dt, df, energy)
  ELSE LET mags == DownsampledComplex([g EXCEPT !.cells = [i \in DOMAIN @ |-> @[i].mag]],
                                      dt, df, energy)
           Cell(t, f) == [mag |-> At(mags, t, f), phase |-> At(g, t * dt, f * df).phase]
       IN  Filled(mags, Cell)

Downsampled(g, dt, df, energy) ==
  IF dt <= 1 /\ df <= 1 THEN g
  ELSE IF g.form = "complex" THEN DownsampledComplex(g, dt, df, energy)
  ELSE ComplexToPolar(DownsampledComplex(PolarToComplex(g), dt, df, energy))

-----------------------------------------------------------------------------
\* ExponentialHarmonicQuantizer: to the nearest multiple of its step, ...
Rounded(mag, step) ==
  IF step <= 0 THEN mag ELSE ((2 * mag + step) \div (2 * step)) * step

\* ... with a weight, in halves, that a sharp decay leaves to the harmonics, ...
Weight(q, freq) ==
  IF q.mix <= 0 THEN 0
  ELSE IF q.base <= 0 \/ ~q.sharp \/ freq % q.base = 0 THEN Smaller(q.mix, 2)
  ELSE 0

Adjusted(q, mag, freq) == Lerp(mag, Rounded(mag, q.step), Weight(q, freq), 2)

\* ... and for complex samples only where there is a phase to keep.
Quantized(g, q) ==
  LET Freq(f) == g.fstep * f
      Turned(v, mag) == IF v < 0 THEN -mag ELSE mag
      Cell(t, f) ==
        LET x == At(g, t, f)
        IN  IF g.form = "polar" THEN [x EXCEPT !.mag = Adjusted(q, @, Freq(f))]
            ELSE IF x = 0 THEN x
            ELSE Turned(x, Larger(Adjusted(q, Magnitude(x), Freq(f)), 0))
  IN  IF ~q.on \/ q.mix <= 0 THEN g ELSE Filled(g, Cell)

-----------------------------------------------------------------------------
\* SpectralLocalContrastBooster: away from the mean of a window, cut off at the edges.
Within(x, center, kernel) == kernel <= 0 \/ Magnitude(x - center) <= kernel \div 2
Mags(g) ==
  IF g.form = "polar" THEN [g EXCEPT !.cells = [i \in DOMAIN @ |-> @[i].mag]]
  ELSE [g EXCEPT !.cells = [i \in DOMAIN @ |-> Magnitude(@[i])]]
Lifted(mags, c, t, f) ==
  LET mean == Mean(mags, {r \in 0..(mags.times - 1) : Within(r, t, c.kt)},
                         {k \in 0..(mags.freqs - 1) : Within(k, f, c.kf)})
      boosted == mean + ((At(mags, t, f) - mean) * (2 + c.contrast)) \div 2 + c.brightness
  IN  IF c.clamp THEN Larger(boosted, 0) ELSE boosted

Relit(g, mags) ==
  [g EXCEPT !.cells =
     [i \in DOMAIN @ |-> IF g.form = "polar" THEN [@[i] EXCEPT !.mag = mags.cells[i]]
                         ELSE IF @[i] < 0 THEN -mags.cells[i] ELSE mags.cells[i]]]

\* Mutant: writes where it still reads.
BoostedInPlace(g, c) ==
  LET mags == Mags(g)
      done[i \in -1..(g.times * g.freqs - 1)] ==
        IF i = -1 THEN mags
        ELSE LET so_far == done[i - 1]
             IN  [so_far EXCEPT !.cells[i] = Lifted(so_far, c, i \div g.freqs, i % g.freqs)]
  IN  IF ~c.on THEN g ELSE Relit(g, done[g.times * g.freqs - 1])

\* The new magnitudes are all found before one replaces an old one.
Boosted(g, c) ==
  LET mags == Mags(g)
      Cell(t, f) == Lifted(mags, c, t, f)
  IN  IF ~c.on THEN g ELSE Relit(g, Filled(mags, Cell))

-----------------------------------------------------------------------------
\* to_grid_spec, to_plan, validate_shape: what a call makes of its arguments.
Step(step) == IF step = 0 THEN Unit ELSE step
Factor(n) == Larger(n, 1)
ValidShape(times, freqs) == times > 0 /\ freqs > 0 /\ times * freqs < MaxCells

Loaded(c) ==
  LET g == [form |-> "complex", times |-> c.grid.times, freqs |-> c.grid.freqs,
            cells |-> c.grid.cells, tstep |-> Step(c.plan.step), fstep |-> Step(c.plan.step)]
  IN  IF c.form = "complex" THEN g ELSE ComplexToPolar(g)

Refined(g, c) == Upsampled(g, Factor(c.plan.upT), Factor(c.plan.upF))
Coarsened(g, c) == Downsampled(g, Factor(c.plan.downT), Factor(c.plan.downF), c.plan.energy)
SameShape(g, c) == g.times = c.grid.times /\ g.freqs = c.grid.freqs

Start ==
  /\ pc = "start"
  /\ IF ValidShape(call.grid.times, call.grid.freqs)
     THEN pc' = "upsample" /\ field' = Loaded(call) /\ UNCHANGED result
     ELSE pc' = "returned" /\ result' = 0 /\ UNCHANGED field
  /\ UNCHANGED <<call, buffer>>

Apply(step, g, next) ==
  /\ pc = step
  /\ field' = g /\ pc' = next
  /\ UNCHANGED <<call, buffer, result>>

Upsample == Apply("upsample", Refined(field, call), "quantize")
Quantize == Apply("quantize", Quantized(field, call.quant), "contrast")
Boost == Apply("contrast", Boosted(field, call.contrast), "downsample")
Downsample == Apply("downsample", Coarsened(field, call), "return")

\* Mutant: copies what there is, whatever its shape.
ReturnUnchecked ==
  /\ pc = "return"
  /\ pc' = "returned" /\ result' = 1 /\ buffer' = field.cells
  /\ UNCHANGED <<call, field>>

\* The buffers are written only if the field has the caller's shape again.
Return ==
  /\ pc = "return"
  /\ pc' = "returned"
  /\ IF SameShape(field, call)
     THEN result' = 1 /\ buffer' = field.cells
     ELSE result' = 0 /\ UNCHANGED buffer
  /\ UNCHANGED <<call, field>>

GridInit ==
  /\ call \in [form : {"complex", "polar"}, grid : Grids, plan : Plans,
               quant : Quantizers, contrast : Contrasts]
  /\ pc = "start"
  /\ field = Loaded(call)
  /\ buffer = field.cells
  /\ result = None

GridNext == Start \/ Upsample \/ Quantize \/ Boost \/ Downsample \/ Return

GridSpec == GridInit /\ [][GridNext]_gridVars

-----------------------------------------------------------------------------
\* What a call makes of a grid, all steps at once.
Piped(c) ==
  Coarsened(Boosted(Quantized(Refined(Loaded(c), c), c.quant), c.contrast), c)

Signal(cells, form) ==
  [i \in DOMAIN cells |-> IF form = "polar" THEN ToComplex(cells[i]) ELSE cells[i]]

(* Both entry points compute the same signal from the same signal, as long *)
(* as no magnitude can leave zero, where a complex sample has no phase to  *)
(* come back with (ft_apply_complex_pipeline, ft_apply_polar_pipeline).    *)
FormsAgree ==
  (pc = "returned" /\ result = 1 /\ call.form = "polar"
     /\ \/ ~call.quant.on \/ ~call.contrast.on
        \/ /\ call.contrast.clamp /\ call.contrast.brightness <= 0
           /\ call.contrast.contrast >= 0) =>
    Signal(buffer, "polar") = Piped([call EXCEPT !.form = "complex"]).cells

(* Rows are processed apart when nothing asks to mix times: each row of    *)
(* the result is what the pipeline makes of that row alone, so no index    *)
(* into the flat buffers ever reaches into the neighbour's row.            *)
RowsApart ==
  (pc = "returned" /\ result = 1 /\ Factor(call.plan.upT) = 1 /\ Factor(call.plan.downT) = 1
     /\ (call.contrast.on => call.contrast.kt = 1)) =>
    LET freqs == call.grid.freqs
        Row(cells, t) == [f \in 0..(freqs - 1) |-> cells[t * freqs + f]]
        Alone(t) == [call EXCEPT !.grid.times = 1, !.grid.cells = Row(@, t)]
    IN  \A t \in 0..(call.grid.times - 1) : Row(buffer, t) = Piped(Alone(t)).cells

(* Time has no direction where nothing is refined: the pipeline of the     *)
(* reversed grid is the reverse of the pipeline of the grid.               *)
TimeReversible ==
  (pc = "return" /\ Factor(call.plan.upT) = 1
     /\ call.grid.times % Factor(call.plan.downT) = 0) =>
    LET Reversed(cells, times, freqs) ==
          [i \in DOMAIN cells |-> cells[(times - 1 - (i \div freqs)) * freqs + (i % freqs)]]
        mirror == [call EXCEPT !.grid.cells = Reversed(@, call.grid.times, call.grid.freqs)]
    IN  Piped(mirror).cells = Reversed(field.cells, field.times, field.freqs)

(* A call that succeeds hands back a signal on the caller's grid: as many  *)
(* bins, each of which starts within the span the caller's bins covered,   *)
(* even when the factors do not match.  A call that fails hands back what  *)
(* it was given.                                                           *)
OnTheCallersGrid ==
  pc = "returned" =>
    IF result = 1
    THEN /\ DOMAIN buffer = DOMAIN call.grid.cells
         /\ (call.grid.times - 1) * field.tstep < call.grid.times * Step(call.plan.step)
         /\ (call.grid.freqs - 1) * field.fstep < call.grid.freqs * Step(call.plan.step)
    ELSE buffer = Loaded(call).cells
=============================================================================
