-------------------------- MODULE ContextProofs ---------------------------
(***************************************************************************)
(* Whatever an application makes, configures and calls, for any arguments: *)
(* windows that are applied reach as far as they are read, columns made of *)
(* half a spectrum are symmetric, failures stay where they happened, and   *)
(* the overlap-add of one call is that of a stream with the same frames.   *)
(***************************************************************************)
EXTENDS Resynthesis, Induction, SequenceTheorems

\* The fields of a context; those of its windows matter only where they apply.
Shape ==
  ctx = [size |-> ctx.size, pad |-> ctx.pad, window |-> ctx.window, hop |-> ctx.hop,
         half |-> ctx.half, c2r |-> ctx.c2r, kernel |-> ctx.kernel, workers |-> ctx.workers,
         ola |-> ctx.ola, cola |-> ctx.cola, enabled |-> ctx.enabled,
         analysis |-> ctx.analysis, synthesis |-> ctx.synthesis]

Typed == ctx.size \in Nat \ {0} /\ {ctx.pad, ctx.window, ctx.hop} \subseteq Nat

\* A plan of an initialised context has a power of two of samples.
Halves == ctx.size = 1 \/ ctx.size % 2 = 0

\* Only fft_init_full_v2 applies windows, and it builds them for the plan's size.
Fits == ctx.enabled => ctx.analysis.length = ctx.size /\ ctx.synthesis.length = ctx.size

ContextInv == ctx = NoContext \/ (Shape /\ Typed /\ Halves /\ Fits)

-----------------------------------------------------------------------------
(* Twice a power of two is one: an odd divisor of 2p divides p.              *)
LEMMA DoublePower ==
  ASSUME NEW p \in Nat, IsPowerOfTwo(p)
  PROVE  IsPowerOfTwo(2 * p)
<1>1. p # 0 /\ 2 * p # 0
  BY DEF IsPowerOfTwo
<1>2. ASSUME NEW d \in 1..(2 * p), NEW e \in 1..(2 * p), d * e = 2 * p, d % 2 # 0
      PROVE  d = 1
  <2>1. PICK a \in Nat : d = 2 * a + 1
    BY <1>2
  <2>2. ASSUME NEW b \in Nat, e = 2 * b + 1 PROVE FALSE
    <3>1. d * e = 2 * (2 * (a * b) + a + b) + 1
      <4>1. d * e = (2 * a + 1) * (2 * b + 1)
        BY <2>1, <2>2
      <4>2. (2 * a + 1) * (2 * b + 1) = (2 * a) * (2 * b + 1) + (2 * b + 1)
        OBVIOUS
      <4>3. (2 * a) * (2 * b + 1) = 4 * (a * b) + 2 * a
        OBVIOUS
      <4> QED BY <4>1, <4>2, <4>3
    <3>2. a * b \in Nat
      OBVIOUS
    <3> QED BY <1>2, <3>1, <3>2
  <2>3. PICK j \in Nat : e = 2 * j
    <3>1. (\E b \in Nat : e = 2 * b) \/ (\E b \in Nat : e = 2 * b + 1)
      <4>1. e \in Nat /\ e \div 2 \in Nat /\ (e = 2 * (e \div 2) \/ e = 2 * (e \div 2) + 1)
        OBVIOUS
      <4> QED BY <4>1
    <3> QED BY <2>2, <3>1
  <2>4. d * j = p
    <3>1. d * e = 2 * (d * j)
      BY <1>2, <2>3
    <3>2. d * j \in Nat
      BY <1>2
    <3> QED BY <1>2, <3>1, <3>2
  <2>5. j # 0
    BY <1>2, <2>3
  <2>6. d <= p /\ j <= p
    BY <1>2, <2>4, <2>5
  <2> QED BY <1>2, <2>4, <2>5, <2>6 DEF IsPowerOfTwo
<1> QED BY <1>1, <1>2 DEF IsPowerOfTwo

(* There is a power of two between a number and its double.                  *)
LEMMA NextPowerIs ==
  ASSUME NEW n \in Nat \ {0}
  PROVE  NextPowerOfTwo(n) \in n..(2 * n) /\ IsPowerOfTwo(NextPowerOfTwo(n))
<1> DEFINE Powers(m) == {p \in m..(2 * m) : IsPowerOfTwo(p)}
           T == {m \in Nat : m # 0 => Powers(m) # {}}
<1>1. 0 \in T
  OBVIOUS
<1>2. ASSUME NEW m \in Nat, m \in T PROVE m + 1 \in T
  <2>1. CASE m = 0
    <3>1. IsPowerOfTwo(1)
      BY DEF IsPowerOfTwo
    <3> QED BY <2>1, <3>1
  <2>2. CASE m # 0
    <3>1. PICK p \in m..(2 * m) : IsPowerOfTwo(p)
      BY <1>2, <2>2
    <3>2. CASE p = m
      <4>1. IsPowerOfTwo(2 * p) /\ 2 * p \in (m + 1)..(2 * (m + 1))
        BY <2>2, <3>1, <3>2, DoublePower
      <4> QED BY <4>1
    <3>3. CASE p # m
      <4>1. p \in (m + 1)..(2 * (m + 1))
        BY <3>1, <3>3
      <4> QED BY <3>1, <4>1
    <3> QED BY <3>2, <3>3
  <2> QED BY <2>1, <2>2
<1>3. Powers(n) # {}
  <2> HIDE DEF T
  <2>1. Nat \subseteq T
    BY <1>1, <1>2, SetInduction
  <2> QED BY <2>1 DEF T
<1>4. PICK p \in Powers(n) : \A q \in Powers(n) : p <= q
  <2>1. Powers(n) \subseteq Nat
    OBVIOUS
  <2> HIDE DEF Powers
  <2> QED BY <1>3, <2>1, LeastNumber
<1>5. p \in n..(2 * n) /\ IsPowerOfTwo(p) /\ \A q \in n..(p - 1) : ~IsPowerOfTwo(q)
  <2> SUFFICES ASSUME NEW q \in n..(p - 1), IsPowerOfTwo(q) PROVE FALSE
    OBVIOUS
  <2>1. q \in Powers(n)
    OBVIOUS
  <2> QED BY <1>4, <2>1
<1> QED BY <1>5 DEF NextPowerOfTwo

(* A power of two is 1 or even.                                              *)
LEMMA PowersHalve ==
  ASSUME NEW p \in Nat, IsPowerOfTwo(p)
  PROVE  p \in Nat \ {0} /\ (p = 1 \/ p % 2 = 0)
<1>1. p # 0 /\ 1 \in 1..p /\ p \in 1..p /\ p * 1 = p
  BY DEF IsPowerOfTwo
<1> QED BY <1>1 DEF IsPowerOfTwo

(* Normalising a window does not change its length.                          *)
LEMMA BuiltLength ==
  ASSUME NEW n, NEW policy
  PROVE  Built(n, policy).length = n
BY DEF Built, Normalized

(* The context keeps its fields and its windows fit, whatever is done to it. *)
LEMMA ContextStepFits == ContextInv /\ ContextStep => ContextInv'
<1> SUFFICES ASSUME ContextInv, ContextStep PROVE ContextInv'
  OBVIOUS
<1> USE DEF ContextInv
<1>1. CASE \E a \in Legacy : InitEx(a)
  <2>1. PICK a \in Legacy : InitEx(a)
    BY <1>1
  <2>2. a.n \in Nat \ {0} /\ {a.pad, a.window, a.hop} \subseteq Nat
    BY <2>1, ContextAssumption DEF InitEx
  <2> DEFINE size == IF IsPowerOfTwo(a.n) THEN a.n ELSE NextPowerOfTwo(a.n)
  <2>3. size \in Nat /\ IsPowerOfTwo(size)
    BY <2>2, NextPowerIs
  <2>4. size \in Nat \ {0} /\ (size = 1 \/ size % 2 = 0)
    BY <2>3, PowersHalve
  <2> HIDE DEF size
  <2>5. /\ Shape' /\ ctx'.size = size /\ ctx'.pad = a.pad /\ ctx'.window = a.window
        /\ ctx'.hop = a.hop /\ ctx'.enabled = FALSE
    BY <2>1 DEF InitEx, Shape, size
  <2> QED BY <2>2, <2>4, <2>5 DEF Typed, Halves, Fits
<1>2. CASE \E a \in Full : InitFull(a)
  <2>1. PICK a \in Full : InitFull(a)
    BY <1>2
  <2>2. a.n \in Nat /\ IsPowerOfTwo(a.n) /\ {a.pad, a.window, a.hop} \subseteq Nat
    BY <2>1, ContextAssumption DEF InitFull
  <2>3. a.n \in Nat \ {0} /\ (a.n = 1 \/ a.n % 2 = 0)
    BY <2>2, PowersHalve
  <2>4. /\ Shape' /\ ctx'.size = a.n /\ ctx'.pad = a.pad /\ ctx'.window = a.window
        /\ ctx'.hop = a.hop
        /\ ctx'.analysis = Built(a.n, a.policy) /\ ctx'.synthesis = Built(a.n, a.policy)
    BY <2>1 DEF InitFull, Shape
  <2>5. Fits'
    BY <2>4, BuiltLength DEF Fits
  <2> QED BY <2>2, <2>3, <2>4, <2>5 DEF Typed, Halves
<1>3. CASE \E policy \in Policies, cola \in BOOLEAN : ConfigWindow(policy, cola)
  <2>1. PICK policy \in Policies, cola \in BOOLEAN : ConfigWindow(policy, cola)
    BY <1>3
  <2>2. Shape /\ Typed /\ Halves
    BY <2>1 DEF ConfigWindow
  <2>3. /\ Shape' /\ ctx'.enabled = FALSE /\ ctx'.size = ctx.size /\ ctx'.pad = ctx.pad
        /\ ctx'.window = ctx.window /\ ctx'.hop = ctx.hop
    BY <2>1, <2>2 DEF ConfigWindow, Shape
  <2> QED BY <2>2, <2>3 DEF Fits, Typed, Halves
<1>4. CASE \E analysis \in Customs, synthesis \in Customs, policy \in Policies, cola \in BOOLEAN :
             ConfigWindowCustom(analysis, synthesis, policy, cola)
  <2>1. PICK analysis \in Customs, synthesis \in Customs, policy \in Policies, cola \in BOOLEAN :
          ConfigWindowCustom(analysis, synthesis, policy, cola)
    BY <1>4
  <2>2. Shape /\ Typed /\ Halves
    BY <2>1 DEF ConfigWindowCustom
  <2>3. /\ Shape' /\ ctx'.enabled = FALSE /\ ctx'.size = ctx.size /\ ctx'.pad = ctx.pad
        /\ ctx'.window = ctx.window /\ ctx'.hop = ctx.hop
    BY <2>1, <2>2 DEF ConfigWindowCustom, Shape
  <2> QED BY <2>2, <2>3 DEF Fits, Typed, Halves
<1>5. CASE Free
  BY <1>5 DEF Free
<1> QED BY <1>1, <1>2, <1>3, <1>4, <1>5 DEF ContextStep

(* Every step of the system configures the context or leaves it alone.       *)
LEMMA OnlyConfigure == [Next]_vars => ContextStep \/ UNCHANGED ctx
<1> SUFFICES ASSUME [Next]_vars PROVE ContextStep \/ UNCHANGED ctx
  OBVIOUS
<1>1. CASE UNCHANGED vars
  BY <1>1 DEF vars
<1>2. CASE Configure
  BY <1>2 DEF Configure
<1>3. CASE \E len \in Lengths, pad \in PadModes, limit \in FrameLimits, b \in BOOLEAN :
             Call(len, pad, limit, b)
  BY <1>3 DEF Call, Begin
<1>4. CASE \E frames \in Spectra, limit \in FrameLimits, b \in BOOLEAN :
             CallSpectra(frames, limit, b)
  BY <1>4 DEF CallSpectra, Begin
<1>5. CASE (\E on \in Persistence : SetPersistent(on)) \/ ClearDropped
  BY <1>5 DEF SetPersistent, ClearDropped
<1>6. CASE Proceed
  BY <1>6 DEF Proceed, Fill, Shared, TransformShared, SharedProcess, SharedDrop, SharedNoSlot,
              SharedDies, SharedReturn, GiveUp, CopyOut, SignalRounds, SpectraRounds,
              Rounds, Judge, ChunkStep, Process, ProcessSwallows, Drop
<1> QED BY <1>1, <1>2, <1>3, <1>4, <1>5, <1>6 DEF Next

(* Whatever is done, a context is whole: typed fields, a plan of a power of  *)
(* two of samples, windows that fit.                                         *)
THEOREM ContextInvariant == Spec => []ContextInv
<1>1. Init => ContextInv
  BY DEF Init, ContextInit, ContextInv
<1>2. ContextInv /\ [Next]_vars => ContextInv'
  <2> SUFFICES ASSUME ContextInv, [Next]_vars PROVE ContextInv'
    OBVIOUS
  <2>1. CASE ContextStep
    BY <2>1, ContextStepFits
  <2>2. CASE UNCHANGED ctx
    BY <2>2 DEF ContextInv, Shape, Typed, Halves, Fits
  <2> QED BY <2>1, <2>2, OnlyConfigure
<1> QED BY <1>1, <1>2, PTL DEF Spec

(* For any arguments of the initialisers and of fft_config_window(_custom),  *)
(* in any order with any calls, no call reads past the end of a window.      *)
THEOREM NoReadPastWindows == Spec => []WindowsCover
<1>1. ContextInv => WindowsCover
  BY DEF ContextInv, Typed, Fits, WindowsCover, WindowOf
<1> QED BY ContextInvariant, <1>1, PTL

(* The index the conjugate half is read from.                                *)
LEMMA Wrapped ==
  ASSUME NEW n \in Nat \ {0}, NEW k \in 0..(n - 1)
  PROVE  (n - k) % n = IF k = 0 THEN 0 ELSE n - k
<1>1. CASE k = 0
  <2>1. n = 1 * n + 0
    OBVIOUS
  <2> QED BY <1>1, <2>1
<1>2. CASE k # 0
  <2>1. n - k \in 0..(n - 1)
    BY <1>2
  <2> QED BY <1>2, <2>1
<1> QED BY <1>1, <1>2

(* Element k of a column and its mirror image come from one bin.             *)
LEMMA MirrorsOneBin ==
  ASSUME NEW c, c.size \in Nat \ {0}, c.size = 1 \/ c.size % 2 = 0, c.half, c.c2r,
         NEW k \in 0..(c.size - 1)
  PROVE  LET x == Column(c)[k]
             y == Column(c)[(c.size - k) % c.size]
         IN  \/ x.as = "real" /\ y = x
             \/ x.bin = y.bin /\ {x.as, y.as} = {"is", "conjugate"}
<1> DEFINE n == c.size
           m == n \div 2
           j == (n - k) % n
           x == Column(c)[k]
           y == Column(c)[j]
<1>1. \A i \in 0..(n - 1) :
        /\ (i = 0 \/ 2 * i = n) => Column(c)[i] = Real(i)
        /\ (i # 0 /\ 2 * i # n /\ n - i \in 1..(m - 1)) => Column(c)[i] = Conjugated(n - i)
        /\ (i # 0 /\ 2 * i # n /\ n - i \notin 1..(m - 1) /\ i < m + 1) => Column(c)[i] = Plain(i)
  BY DEF Column, Mirrored, Bins
<1>2. n \in Nat \ {0} /\ (n = 1 \/ n = 2 * m) /\ m \in Nat /\ k \in 0..(n - 1)
  OBVIOUS
<1>3. j = IF k = 0 THEN 0 ELSE n - k
  BY <1>2, Wrapped
<1> HIDE DEF n, m, j
<1>4. CASE k = 0 \/ 2 * k = n
  <2>1. j = k
    BY <1>2, <1>3, <1>4
  <2>2. x = Real(k)
    BY <1>1, <1>2, <1>4
  <2> HIDE DEF x, y
  <2>3. x.as = "real" /\ y = x
    <3>1. y = x
      BY <2>1 DEF x, y
    <3> QED BY <2>2, <3>1 DEF Real
  <2> QED BY <2>3 DEF x, y, n, j
<1>5. CASE k # 0 /\ 2 * k < n
  <2>1. j = n - k /\ n = 2 * m
    BY <1>2, <1>3, <1>5
  <2>2. /\ k # 0 /\ 2 * k # n /\ n - k \notin 1..(m - 1) /\ k < m + 1
        /\ j \in 0..(n - 1) /\ j # 0 /\ 2 * j # n /\ n - j = k /\ n - j \in 1..(m - 1)
    BY <1>2, <1>5, <2>1
  <2>3. x = Plain(k) /\ y = Conjugated(k)
    BY <1>1, <1>2, <2>2
  <2> HIDE DEF x, y
  <2>4. x.bin = y.bin /\ {x.as, y.as} = {"is", "conjugate"}
    BY <2>3 DEF Plain, Conjugated
  <2> QED BY <2>4 DEF x, y, n, j
<1>6. CASE 2 * k > n
  <2>1. j = n - k /\ n = 2 * m
    BY <1>2, <1>3, <1>6
  <2>2. /\ k # 0 /\ 2 * k # n /\ n - k \in 1..(m - 1)
        /\ j \in 0..(n - 1) /\ j # 0 /\ 2 * j # n /\ n - j \notin 1..(m - 1) /\ j < m + 1
    BY <1>2, <1>6, <2>1
  <2>3. x = Conjugated(j) /\ y = Plain(j)
    BY <1>1, <1>2, <2>1, <2>2
  <2> HIDE DEF x, y
  <2>4. x.bin = y.bin /\ {x.as, y.as} = {"is", "conjugate"}
    BY <2>3 DEF Plain, Conjugated
  <2> QED BY <2>4 DEF x, y, n, j
<1>7. (k = 0 \/ 2 * k = n) \/ (k # 0 /\ 2 * k < n) \/ 2 * k > n
  BY <1>2
<1> QED BY <1>4, <1>5, <1>6, <1>7

(* For contexts of any size, half a spectrum becomes a column whose inverse  *)
(* transform is real (fft_execute_complex_batched).                          *)
THEOREM HalvesMakeReals == Spec => []HalfSpectrumMirrored
<1>1. ContextInv => HalfSpectrumMirrored
  <2> SUFFICES ASSUME ContextInv, ctx # NoContext, ctx.half, ctx.c2r, NEW k \in 0..(ctx.size - 1)
               PROVE  LET x == Column(ctx)[k]
                          y == Column(ctx)[(ctx.size - k) % ctx.size]
                      IN  \/ x.as = "real" /\ y = x
                          \/ x.bin = y.bin /\ {x.as, y.as} = {"is", "conjugate"}
    BY DEF HalfSpectrumMirrored
  <2>1. ctx.size \in Nat \ {0} /\ (ctx.size = 1 \/ ctx.size % 2 = 0)
    BY DEF ContextInv, Typed, Halves
  <2> QED BY <2>1, MirrorsOneBin
<1> QED BY ContextInvariant, <1>1, PTL

-----------------------------------------------------------------------------
(* How a call proceeds: its batches one after the other, and what a column   *)
(* of the buffer may hold while its chunk is with the pool, and afterwards.  *)

CallInv ==
  /\ produced \in Nat
  /\ phase # "idle" => /\ call.frames \in Nat \ {0} /\ call.batch \in Nat \ {0}
                       /\ bstart \in 0..(call.frames - 1) /\ produced = bstart

\* The frames something went wrong with.
Past == failing \cup abandoned \cup swallowed

\* They are frames of the batches so far.
PastInv ==
  phase \notin {"idle", "dead"} =>
    \A n \in Past : n \in Nat /\ n < bstart + (IF phase = "fill" THEN 0 ELSE Batch)

\* Only the chunks that are done have touched their columns.  Of the others none was given
\* up, and what the coordinator counts as failing will be dropped again.
RoundInv ==
  /\ DOMAIN buffer = Columns /\ backup = [f \in Columns |-> Input]
  /\ DOMAIN tries = Chunks /\ DOMAIN restores = Chunks
  /\ \A r \in Chunks : tries[r] \in Nat /\ (phase = "ranges" => tries[r] = restores[r])
  /\ \A r \in Chunks \ finished : \A f \in Ranges[r] :
       /\ buffer[f] = Input /\ bstart + f \notin abandoned \cup swallowed
       /\ bstart + f \in failing => persistent /\ r \in DropIndices /\ ~Inline
  /\ \A r \in Chunks \cap finished : \A f \in Ranges[r] : Holds(buffer[f], bstart + f)
  /\ (phase = "shared" /\ Inline) => finished = {}

\* An index that has been dropped once is not dropped again.
OnceInv ==
  /\ OneShotRecovers
  /\ (phase \in {"ranges", "shared"} /\ ~persistent) =>
       \A r \in Chunks : tries[r] = 0 \/ (tries[r] = 1 /\ r \in dropped)

BatchInv ==
  /\ PastInv
  /\ phase \in {"shared", "ranges"} => RoundInv
  /\ phase = "copy" => \A f \in Columns : Holds(buffer[f], bstart + f)

FailInv == ContextInv /\ CallInv /\ BatchInv /\ FailuresContained /\ OnceInv

(* The ranges of a batch partition its columns, on either path.              *)
LEMMA RangesPartition ==
  /\ \A r \in Chunks : Ranges[r] \subseteq Columns
  /\ \A r, s \in Chunks : r # s => Ranges[r] \cap Ranges[s] = {}
  /\ \A f \in Columns : \E r \in Chunks : f \in Ranges[r]
<1>1. CASE ~call.backup
  BY <1>1 DEF Ranges, Chunks
<1>2. CASE call.backup /\ DropIndices # {}
  BY <1>2 DEF Ranges, Chunks
<1>3. CASE call.backup /\ DropIndices = {}
  BY <1>3 DEF Ranges, Chunks
<1> QED BY <1>1, <1>2, <1>3

(* A batch lies within the frames, and only the last one may be shorter.     *)
LEMMA BatchFits ==
  ASSUME CallInv, phase # "idle"
  PROVE  /\ Batch \in 1..call.batch /\ bstart + Batch <= call.frames
         /\ bstart + call.batch < call.frames => Batch = call.batch
         /\ bstart \in Nat /\ Columns \subseteq Nat
BY DEF CallInv, Batch, Columns

(* The transform changes what is in the buffer.                              *)
LEMMA SpectrumIsNew == Transform(Input) = Spectrum
BY DEF Transform, Input, Spectrum

(* The number of frames of a signal is a natural number, whatever the        *)
(* padding.                                                                  *)
LEMMA FrameCountNat ==
  ASSUME NEW samples \in Nat, NEW window \in Nat, NEW hop \in Nat \ {0}, NEW pad
  PROVE  FrameCount(samples, window, hop, pad) \in Nat
<1>1. FullFrames(samples, window, hop) \in Nat
  <2>1. CASE samples < window
    BY <2>1 DEF FullFrames
  <2>2. CASE ~(samples < window)
    <3>1. samples - window \in Nat
      BY <2>2
    <3>2. \A a \in Nat : a \div hop \in Nat
      OBVIOUS
    <3> QED BY <2>2, <3>1, <3>2 DEF FullFrames
  <2> QED BY <2>1, <2>2
<1> DEFINE full == FullFrames(samples, window, hop)
<1> HIDE DEF full
<1>2. FrameCount(samples, window, hop, pad) \in {0, 1, full, full - 1} /\ full \in Nat
      /\ (full = 0 => FrameCount(samples, window, hop, pad) \in {0, 1})
  BY <1>1 DEF FrameCount, full, PadLast, DropLast
<1> QED BY <1>2

(* A call is refused, or has frames to produce, none of them so far.         *)
LEMMA BeginStep ==
  ASSUME FailInv, NEW c, Begin(c), c.frames \in Nat, c.frames # 0 => c.batch \in Nat \ {0}
  PROVE  FailInv'
<1>1. /\ call' = c /\ bstart' = 0 /\ produced' = 0 /\ ctx' = ctx
      /\ failing' = {} /\ abandoned' = {} /\ swallowed' = {}
      /\ phase' = IF c.frames = 0 THEN "idle" ELSE "fill"
  BY DEF Begin
<1>2. CallInv'
  BY <1>1 DEF CallInv
<1>3. phase' \in {"idle", "fill"}
  BY <1>1
<1>4. BatchInv' /\ FailuresContained' /\ OnceInv'
  BY <1>1, <1>3 DEF BatchInv, PastInv, Past, FailuresContained, OnceInv, OneShotRecovers
<1>5. ContextInv'
  BY <1>1 DEF FailInv, ContextInv, Shape, Typed, Halves, Fits
<1> QED BY <1>2, <1>4, <1>5 DEF FailInv

(* So it is when the caller limits it.                                       *)
LEMMA LimitedNat ==
  ASSUME NEW frames \in Nat, NEW limit \in Nat
  PROVE  Limited(frames, limit) \in Nat
BY DEF Limited

(* A new call on a signal starts with no history of failures.                *)
LEMMA CallStep ==
  ASSUME FailInv, NEW len \in Lengths, NEW pad, NEW limit \in FrameLimits, NEW b,
         Call(len, pad, limit, b)
  PROVE  FailInv'
<1> DEFINE count == IF WindowOf(ctx) > ctx.size THEN 0
                    ELSE FrameCount(len, WindowOf(ctx), HopOf(ctx), EffectivePad(pad, ctx.pad))
           c == [of |-> "signal", length |-> len, frames |-> Limited(count, limit),
                 batch |-> BatchFrames, pad |-> EffectivePad(pad, ctx.pad),
                 backup |-> b /\ ctx.workers # 0]
<1>1. Begin(c)
  BY DEF Call
<1>2. Typed
  BY <1>1 DEF FailInv, ContextInv, Begin
<1>3. WindowOf(ctx) \in Nat \ {0} /\ HopOf(ctx) \in Nat \ {0}
  BY <1>2 DEF Typed, WindowOf, HopOf
<1>4. len \in Nat /\ limit \in Nat /\ BatchFrames \in Nat \ {0}
  BY BatchAssumption
<1>5. count \in Nat
  BY <1>3, <1>4, FrameCountNat
<1> HIDE DEF count
<1>6. c.frames \in Nat /\ c.batch \in Nat \ {0}
  BY <1>4, <1>5, LimitedNat
<1> HIDE DEF c
<1> QED BY <1>1, <1>6, BeginStep

(* Likewise a call on spectra.                                               *)
LEMMA CallSpectraStep ==
  ASSUME FailInv, NEW frames \in Spectra, NEW limit \in FrameLimits, NEW b,
         CallSpectra(frames, limit, b)
  PROVE  FailInv'
<1> DEFINE count == Limited(frames, limit)
           c == [of |-> "spectra", length |-> 0, frames |-> count, batch |-> count,
                 pad |-> Refuse, backup |-> b /\ ctx.workers # 0]
<1>1. Begin(c)
  BY DEF CallSpectra
<1>2. count \in Nat
  BY BatchAssumption, LimitedNat
<1> HIDE DEF count
<1>3. c.frames \in Nat /\ (c.frames # 0 => c.batch \in Nat \ {0})
  BY <1>2
<1> HIDE DEF c
<1> QED BY <1>1, <1>3, BeginStep

(* Between calls nothing but the context and the dropout mode changes.       *)
LEMMA BetweenStep ==
  ASSUME FailInv,
         Configure \/ (\E on \in Persistence : SetPersistent(on)) \/ ClearDropped
  PROVE  FailInv'
<1>1. phase = "idle" /\ phase' = "idle" /\ UNCHANGED <<failing, abandoned, swallowed>>
  BY DEF Configure, SetPersistent, ClearDropped, history
<1>2. ContextInv'
  <2>1. CASE Configure
    BY <2>1, ContextStepFits DEF Configure, FailInv
  <2>2. CASE UNCHANGED ctx
    BY <2>2 DEF FailInv, ContextInv, Shape, Typed, Halves, Fits
  <2> QED BY <2>1, <2>2 DEF SetPersistent, ClearDropped
<1>3. produced' = 0 \/ UNCHANGED <<produced, output>>
  BY DEF Configure, SetPersistent, ClearDropped, results
<1>4. CallInv'
  BY <1>1, <1>3 DEF FailInv, CallInv
<1>5. FailuresContained'
  BY <1>1, <1>3 DEF FailInv, FailuresContained, Holds
<1>6. BatchInv' /\ OnceInv'
  BY <1>1 DEF BatchInv, PastInv, OnceInv, OneShotRecovers
<1> QED BY <1>2, <1>4, <1>5, <1>6 DEF FailInv

(* Steps of a batch that leave the call and what it has produced alone, and  *)
(* add to the history frames of this batch only.                             *)
LEMMA WithinStep ==
  ASSUME FailInv, phase # "idle",
         UNCHANGED <<ctx, call, bstart, persistent, produced, output>>,
         swallowed \subseteq swallowed',
         \A n \in 0..(bstart - 1) :
           n \in failing' \cup abandoned' <=> n \in failing \cup abandoned
  PROVE  /\ ContextInv' /\ CallInv' /\ FailuresContained' /\ Batch' = Batch
         /\ Columns' = Columns /\ Chunks' = Chunks /\ Ranges' = Ranges /\ (Inline' <=> Inline)
<1>1. ContextInv'
  BY DEF FailInv, ContextInv, Shape, Typed, Halves, Fits
<1>2. CallInv' /\ produced = bstart /\ bstart \in Nat
  BY DEF FailInv, CallInv
<1>3. FailuresContained'
  <2> SUFFICES ASSUME NEW n \in 0..(bstart - 1) PROVE n \in DOMAIN output /\ Holds(output[n], n)'
    BY <1>2 DEF FailuresContained
  <2>1. n \in DOMAIN output /\ Holds(output[n], n)
    BY <1>2 DEF FailInv, FailuresContained
  <2>2. Holds(output[n], n)'
    BY <2>1 DEF Holds
  <2> QED BY <2>1, <2>2
<1>4. Batch' = Batch /\ Columns' = Columns
  BY DEF Columns, Batch
<1>5. Ranges' = Ranges
  BY <1>4 DEF Ranges
<1>6. Chunks' = Chunks
  BY <1>5 DEF Chunks
<1>7. Inline' <=> Inline
  BY <1>6 DEF Inline
<1> QED BY <1>1, <1>2, <1>3, <1>4, <1>5, <1>6, <1>7

(* So a step that adds nothing to the history.                               *)
LEMMA SameHistory ==
  ASSUME FailInv, phase # "idle",
         UNCHANGED <<ctx, call, bstart, persistent, produced, output,
                     failing, abandoned, swallowed>>
  PROVE  /\ ContextInv' /\ CallInv' /\ FailuresContained' /\ Batch' = Batch
         /\ Columns' = Columns /\ Chunks' = Chunks /\ Ranges' = Ranges /\ (Inline' <=> Inline)
         /\ Past' = Past
<1>1. Past' = Past
  BY DEF Past
<1> QED BY <1>1, WithinStep

(* The frames of a chunk are those of its columns, and no other's.           *)
LEMMA FramesOfChunk ==
  ASSUME CallInv, phase # "idle", NEW r \in Chunks
  PROVE  /\ \A n \in FramesOf(r) : n \in Nat /\ n >= bstart /\ n < bstart + Batch
         /\ \A f \in Columns \ Ranges[r] : bstart + f \notin FramesOf(r)
         /\ \A f \in Ranges[r] : bstart + f \in FramesOf(r)
<1>1. bstart \in Nat /\ Batch \in Nat /\ Ranges[r] \subseteq Columns
  BY BatchFits, RangesPartition DEF CallInv
<1>2. \A f \in Columns : f \in Nat /\ f < Batch
  BY <1>1 DEF Columns
<1>3. ASSUME NEW f \in Columns \ Ranges[r], bstart + f \in FramesOf(r) PROVE FALSE
  <2>1. PICK g \in Ranges[r] : bstart + f = bstart + g
    BY <1>3 DEF FramesOf
  <2>2. f = g
    BY <1>1, <1>2, <2>1
  <2> QED BY <1>3, <2>1, <2>2
<1> QED BY <1>1, <1>2, <1>3 DEF FramesOf

(* A filled batch has fresh columns, a backup of them, no attempts and no    *)
(* history.                                                                  *)
LEMMA FillStep ==
  ASSUME FailInv, Fill
  PROVE  FailInv'
<1>1. /\ phase = "fill" /\ phase' \in {"shared", "ranges"}
      /\ buffer' = [f \in Columns |-> Input] /\ backup' = [f \in Columns |-> Input]
      /\ tries' = [r \in Chunks |-> 0] /\ restores' = [r \in Chunks |-> 0] /\ finished' = {}
      /\ UNCHANGED <<ctx, call, bstart, persistent, dropped, produced, output,
                     failing, abandoned, swallowed>>
  BY DEF Fill, dropout, results, history
<1>2. /\ ContextInv' /\ CallInv' /\ FailuresContained' /\ Batch' = Batch /\ Past' = Past
      /\ Columns' = Columns /\ Chunks' = Chunks /\ Ranges' = Ranges
  BY <1>1, SameHistory
<1>3. bstart \in Nat /\ Batch \in Nat /\ Columns \subseteq Nat
  BY <1>1, BatchFits DEF FailInv
<1>4. \A n \in Past : n \in Nat /\ n < bstart
  BY <1>1, <1>3 DEF FailInv, BatchInv, PastInv
<1>5. \A f \in Columns : bstart + f \notin Past
  BY <1>3, <1>4
<1>6. RoundInv'
  <2>1. \A r \in Chunks : \A f \in Ranges[r] : f \in Columns
    BY RangesPartition
  <2> QED BY <1>1, <1>2, <1>5, <2>1 DEF RoundInv, Past
<1>7. PastInv'
  BY <1>1, <1>2, <1>3, <1>4 DEF PastInv
<1>8. BatchInv'
  BY <1>1, <1>6, <1>7 DEF BatchInv
<1>9. OnceInv'
  BY <1>1, <1>2 DEF FailInv, OnceInv, OneShotRecovers, Slotted
<1> QED BY <1>2, <1>8, <1>9 DEF FailInv

(* A transform that runs inline settles all columns of the batch at once.    *)
LEMMA TransformSharedStep ==
  ASSUME FailInv, TransformShared
  PROVE  FailInv'
<1>1. /\ phase = "shared" /\ phase' = "copy" /\ Inline /\ buffer' = Transformed(buffer, Columns)
      /\ UNCHANGED <<ctx, call, bstart, persistent, dropped, produced, output,
                     failing, abandoned, swallowed>>
  BY DEF TransformShared, dropout, results, history
<1>2. /\ ContextInv' /\ CallInv' /\ FailuresContained' /\ Columns' = Columns /\ Batch' = Batch
      /\ Past' = Past
  BY <1>1, SameHistory
<1>3. ASSUME NEW f \in Columns PROVE Holds(buffer[f], bstart + f)'
  <2>1. RoundInv /\ finished = {}
    BY <1>1 DEF FailInv, BatchInv, RoundInv
  <2>2. PICK r \in Chunks : f \in Ranges[r]
    BY RangesPartition
  <2>3. buffer[f] = Input /\ bstart + f \notin abandoned \cup swallowed \cup failing
    BY <1>1, <2>1, <2>2 DEF RoundInv
  <2>4. buffer'[f] = Spectrum
    BY <1>1, <2>1, <2>3, SpectrumIsNew DEF RoundInv, Transformed
  <2> QED BY <1>1, <2>3, <2>4 DEF Holds
<1>4. PastInv'
  BY <1>1, <1>2 DEF FailInv, BatchInv, PastInv
<1>5. BatchInv'
  BY <1>1, <1>2, <1>3, <1>4 DEF BatchInv
<1>6. OnceInv'
  BY <1>1 DEF FailInv, OnceInv, OneShotRecovers, Slotted
<1> QED BY <1>2, <1>5, <1>6 DEF FailInv

(* A call that ends before its time, with the results it has, or with the    *)
(* process.                                                                  *)
LEMMA EndedEarly ==
  ASSUME FailInv, phase # "idle", phase' \in {"idle", "dead"},
         UNCHANGED <<ctx, call, bstart, persistent, produced, output,
                     failing, abandoned, swallowed>>
  PROVE  FailInv'
<1>1. ContextInv' /\ CallInv' /\ FailuresContained'
  BY SameHistory
<1>2. BatchInv' /\ OnceInv'
  BY DEF FailInv, BatchInv, PastInv, OnceInv, OneShotRecovers, Slotted
<1> QED BY <1>1, <1>2 DEF FailInv

(* A step of one chunk: others' columns, tries and history stay; its own     *)
(* columns are untouched and it will be tried again, or it is done and they  *)
(* hold what the history says.                                               *)
LEMMA ChunkKeepsRound ==
  ASSUME FailInv, phase \in {"ranges", "shared"}, phase = "shared" => ~Inline,
         NEW r \in Chunks \ finished,
         UNCHANGED <<ctx, call, bstart, persistent, produced, output, phase, backup>>,
         swallowed \subseteq swallowed', swallowed' \subseteq swallowed \cup FramesOf(r),
         failing \subseteq failing', failing' \subseteq failing \cup FramesOf(r),
         abandoned \subseteq abandoned', abandoned' \subseteq abandoned \cup FramesOf(r),
         DOMAIN buffer' = Columns,
         \A f \in Columns \ Ranges[r] : buffer'[f] = buffer[f],
         DOMAIN tries' = Chunks, DOMAIN restores' = Chunks,
         \A s \in Chunks : tries'[s] \in Nat /\ (phase = "ranges" => tries'[s] = restores'[s]),
         \/ /\ finished' = finished /\ UNCHANGED <<abandoned, swallowed>>
            /\ \A f \in Ranges[r] : buffer'[f] = Input
            /\ failing' = failing \/ (persistent /\ r \in DropIndices /\ ~Inline)
         \/ /\ finished' = finished \cup {r}
            /\ \A f \in Ranges[r] : Holds(buffer[f], bstart + f)'
  PROVE  ContextInv' /\ CallInv' /\ FailuresContained' /\ BatchInv'
<1>0. CallInv /\ phase # "idle" /\ bstart \in Nat /\ Batch \in Nat
  BY BatchFits DEF FailInv
<1>1. /\ \A n \in FramesOf(r) : n \in Nat /\ n >= bstart /\ n < bstart + Batch
      /\ \A f \in Columns \ Ranges[r] : bstart + f \notin FramesOf(r)
  BY <1>0, FramesOfChunk
<1>2. /\ ContextInv' /\ CallInv' /\ FailuresContained' /\ Batch' = Batch
      /\ Columns' = Columns /\ Chunks' = Chunks /\ Ranges' = Ranges /\ (Inline' <=> Inline)
  <2>1. \A n \in 0..(bstart - 1) : n \notin FramesOf(r)
    BY <1>0, <1>1
  <2>2. \A n \in 0..(bstart - 1) :
          n \in failing' \cup abandoned' <=> n \in failing \cup abandoned
    BY <2>1
  <2> QED BY <1>0, <2>2, WithinStep
<1>3. RoundInv
  BY DEF FailInv, BatchInv
<1>4. \A s \in Chunks \ {r} : Ranges[s] \subseteq Columns \ Ranges[r]
  BY RangesPartition
<1>5. ASSUME NEW s \in Chunks \ {r}, NEW f \in Ranges[s]
      PROVE  /\ buffer'[f] = buffer[f]
             /\ bstart + f \in failing' <=> bstart + f \in failing
             /\ bstart + f \in abandoned' <=> bstart + f \in abandoned
             /\ bstart + f \in swallowed' <=> bstart + f \in swallowed
  <2>1. f \in Columns \ Ranges[r] /\ bstart + f \notin FramesOf(r)
    BY <1>1, <1>4
  <2> QED BY <2>1
<1>6. ASSUME NEW s \in Chunks \ finished', NEW f \in Ranges[s]
      PROVE  /\ buffer'[f] = Input /\ bstart + f \notin abandoned' \cup swallowed'
             /\ bstart + f \in failing' => persistent /\ s \in DropIndices /\ ~Inline
  <2>1. CASE s = r
    <3>1. finished' = finished
      BY <1>6, <2>1
    <3>2. bstart + f \in failing => persistent /\ s \in DropIndices /\ ~Inline
      BY <1>3, <1>6, <2>1 DEF RoundInv
    <3>3. bstart + f \notin abandoned \cup swallowed
      BY <1>3, <1>6, <2>1 DEF RoundInv
    <3> QED BY <1>6, <2>1, <3>1, <3>2, <3>3
  <2>2. CASE s # r
    <3>1. s \in Chunks \ finished
      BY <1>6
    <3> QED BY <1>3, <1>5, <1>6, <2>2, <3>1 DEF RoundInv
  <2> QED BY <2>1, <2>2
<1>7. ASSUME NEW s \in Chunks \cap finished', NEW f \in Ranges[s] PROVE Holds(buffer[f], bstart + f)'
  <2>1. CASE s = r
    BY <1>7, <2>1
  <2>2. CASE s # r
    <3>1. s \in Chunks \cap finished
      BY <1>7, <2>2
    <3>2. Holds(buffer[f], bstart + f)
      BY <1>3, <1>7, <3>1 DEF RoundInv
    <3>3. /\ buffer'[f] = buffer[f] /\ bstart' = bstart
          /\ bstart + f \in failing' <=> bstart + f \in failing
          /\ bstart + f \in abandoned' <=> bstart + f \in abandoned
          /\ bstart + f \in swallowed' <=> bstart + f \in swallowed
      BY <1>5, <1>7, <2>2
    <3> QED BY <3>2, <3>3 DEF Holds
  <2> QED BY <2>1, <2>2
<1>8. RoundInv'
  <2>1. /\ DOMAIN buffer' = Columns' /\ backup' = [f \in Columns' |-> Input]
        /\ DOMAIN tries' = Chunks' /\ DOMAIN restores' = Chunks'
        /\ \A s \in Chunks' : tries'[s] \in Nat /\ (phase' = "ranges" => tries'[s] = restores'[s])
    BY <1>2, <1>3 DEF RoundInv
  <2>2. ~(phase' = "shared" /\ Inline')
    BY <1>2
  <2> QED BY <1>2, <1>6, <1>7, <2>1, <2>2 DEF RoundInv
<1>9. PastInv'
  <2>1. Past' \subseteq Past \cup FramesOf(r)
    BY DEF Past
  <2>2. \A n \in Past : n \in Nat /\ n < bstart + Batch
    BY DEF FailInv, BatchInv, PastInv
  <2> QED BY <1>1, <1>2, <2>1, <2>2 DEF PastInv
<1>10. BatchInv'
  BY <1>8, <1>9 DEF BatchInv
<1> QED BY <1>2, <1>10

(* A worker transforms one chunk and touches no other: on either path a      *)
(* chunk that is not dropped now has no failure in its history.              *)
LEMMA ProcessStep ==
  ASSUME FailInv, NEW r \in Chunks, ~Hit(r), Process(r) \/ SharedProcess(r)
  PROVE  FailInv'
<1>1. /\ phase \in {"ranges", "shared"} /\ (phase = "shared" => ~Inline) /\ r \in Chunks \ finished
      /\ buffer' = Transformed(buffer, Ranges[r]) /\ finished' = finished \cup {r}
      /\ UNCHANGED <<ctx, phase, call, bstart, backup, tries, restores, persistent, dropped,
                     produced, output, failing, abandoned, swallowed>>
  BY DEF Process, SharedProcess, dropout, results, history
<1>2. RoundInv
  BY <1>1 DEF FailInv, BatchInv
<1>3. /\ DOMAIN buffer' = Columns
      /\ \A f \in Columns \ Ranges[r] : buffer'[f] = buffer[f]
      /\ \A f \in Ranges[r] : buffer'[f] = Spectrum
  <2>1. Ranges[r] \subseteq Columns /\ DOMAIN buffer = Columns
    BY <1>1, <1>2, RangesPartition DEF RoundInv
  <2>2. \A f \in Ranges[r] : buffer[f] = Input
    BY <1>1, <1>2 DEF RoundInv
  <2>3. buffer' = [f \in Columns |-> IF f \in Ranges[r] THEN Transform(buffer[f]) ELSE buffer[f]]
    BY <1>1, <2>1 DEF Transformed
  <2> QED BY <2>1, <2>2, <2>3, SpectrumIsNew
<1>4. /\ DOMAIN tries' = Chunks /\ DOMAIN restores' = Chunks
      /\ \A s \in Chunks : tries'[s] \in Nat /\ (phase = "ranges" => tries'[s] = restores'[s])
  BY <1>1, <1>2 DEF RoundInv
<1>5. ASSUME NEW f \in Ranges[r] PROVE Holds(buffer[f], bstart + f)'
  <2>1. bstart + f \notin failing \cup abandoned
    BY <1>1, <1>2 DEF RoundInv, Hit
  <2> QED BY <1>1, <1>3, <2>1 DEF Holds
<1>6. ContextInv' /\ CallInv' /\ FailuresContained' /\ BatchInv'
  BY <1>1, <1>3, <1>4, <1>5, ChunkKeepsRound
<1>7. Chunks' = Chunks
  BY <1>1 DEF Chunks, Ranges, Columns, Batch
<1>8. OnceInv'
  BY <1>1, <1>7 DEF FailInv, OnceInv, OneShotRecovers, Slotted
<1> QED BY <1>6, <1>8 DEF FailInv

(* A worker that swallows its exception spoils frames of its own chunk       *)
(* only.                                                                     *)
LEMMA SwallowsStep ==
  ASSUME FailInv, NEW r \in Chunks, ProcessSwallows(r)
  PROVE  FailInv'
<1>1. /\ phase = "ranges" /\ r \in Chunks \ finished
      /\ finished' = finished \cup {r} /\ swallowed' = swallowed \cup FramesOf(r)
      /\ UNCHANGED <<ctx, phase, call, bstart, backup, tries, restores, persistent, dropped,
                     produced, output, failing, abandoned>>
  BY DEF ProcessSwallows, dropout, results
<1>2. RoundInv
  BY <1>1 DEF FailInv, BatchInv
<1>3. PICK f \in Ranges[r] : \E left \in {buffer[f], Broken} :
        buffer' = [Transformed(buffer, {g \in Ranges[r] : g < f}) EXCEPT ![f] = left]
  BY DEF ProcessSwallows
<1>4. DOMAIN buffer' = Columns /\ \A g \in Columns \ Ranges[r] : buffer'[g] = buffer[g]
  BY <1>2, <1>3 DEF Transformed, RoundInv
<1>5. \A g \in Ranges[r] : Holds(buffer[g], bstart + g)'
  BY <1>1 DEF Holds, FramesOf
<1>6. /\ DOMAIN tries' = Chunks /\ DOMAIN restores' = Chunks
      /\ \A s \in Chunks : tries'[s] \in Nat /\ (phase = "ranges" => tries'[s] = restores'[s])
  BY <1>1, <1>2 DEF RoundInv
<1>7. ContextInv' /\ CallInv' /\ FailuresContained' /\ BatchInv'
  BY <1>1, <1>4, <1>5, <1>6, ChunkKeepsRound
<1>8. Chunks' = Chunks
  BY <1>1 DEF Chunks, Ranges, Columns, Batch
<1>9. OnceInv'
  BY <1>1, <1>8 DEF FailInv, OnceInv, OneShotRecovers, Slotted
<1> QED BY <1>7, <1>9 DEF FailInv

(* An index whose one dropout has passed is not hit: an attempt that is      *)
(* dropped in one-shot mode is the chunk's first.                            *)
LEMMA FirstHit ==
  ASSUME FailInv, phase \in {"ranges", "shared"}, NEW r \in Chunks, Hit(r), ~persistent,
         UNCHANGED <<persistent, phase>>, Chunks' = Chunks, dropped' = AfterHit(r)
  PROVE  /\ tries[r] = 0
         /\ (DOMAIN tries = Chunks /\ tries' = [tries EXCEPT ![r] = tries[r] + 1]) =>
              \A s \in Chunks : tries'[s] = 0 \/ (tries'[s] = 1 /\ s \in dropped')
<1>1. r \notin dropped /\ dropped' = dropped \cup {r}
  BY DEF Hit, AfterHit
<1>2. \A s \in Chunks : tries[s] = 0 \/ (tries[s] = 1 /\ s \in dropped)
  BY DEF FailInv, OnceInv
<1> QED BY <1>1, <1>2

(* A dropped attempt leaves its columns as they were, and a chunk the pool   *)
(* gives up has been counted as failing at an attempt before.                *)
LEMMA DropStep ==
  ASSUME FailInv, NEW r \in Chunks, Drop(r)
  PROVE  FailInv'
<1>1. /\ phase = "ranges" /\ r \in Chunks \ finished /\ Hit(r)
      /\ dropped' = AfterHit(r)
      /\ buffer' = Restored(r) /\ restores' = [restores EXCEPT ![r] = restores[r] + 1]
      /\ failing' = IF FailedForGood(restores[r] + 1) THEN failing \cup FramesOf(r) ELSE failing
      /\ tries' = [tries EXCEPT ![r] = tries[r] + 1]
      /\ finished' = IF tries[r] + 1 > RetryCount THEN finished \cup {r} ELSE finished
      /\ UNCHANGED <<ctx, phase, call, bstart, backup, persistent, produced, output,
                     swallowed, abandoned>>
  BY DEF Drop, results
<1>2. RoundInv
  BY <1>1 DEF FailInv, BatchInv
<1>3. /\ DOMAIN buffer' = Columns
      /\ \A f \in Columns \ Ranges[r] : buffer'[f] = buffer[f]
      /\ \A f \in Ranges[r] : buffer'[f] = Input
  BY <1>1, <1>2, RangesPartition DEF Restored, RoundInv
<1>4. /\ DOMAIN tries' = Chunks /\ DOMAIN restores' = Chunks
      /\ \A s \in Chunks : tries'[s] \in Nat /\ (phase = "ranges" => tries'[s] = restores'[s])
  BY <1>1, <1>2 DEF RoundInv
<1>5. tries[r] \in Nat /\ tries[r] = restores[r]
  BY <1>1, <1>2 DEF RoundInv
<1>6. Chunks' = Chunks
  BY <1>1 DEF Chunks, Ranges, Columns, Batch
<1>7. ~persistent => tries[r] = 0 /\ ~FailedForGood(restores[r] + 1)
  <2> SUFFICES ASSUME ~persistent PROVE tries[r] = 0 /\ ~FailedForGood(restores[r] + 1)
    OBVIOUS
  <2>1. tries[r] = 0
    BY <1>1, <1>6, FirstHit
  <2> QED BY <1>5, <2>1 DEF FailedForGood, RetryCount
<1>8. ContextInv' /\ CallInv' /\ FailuresContained' /\ BatchInv'
  <2>1. CASE tries[r] + 1 > RetryCount
    <3>1. FailedForGood(restores[r] + 1)
      BY <1>5, <2>1 DEF FailedForGood, RetryCount
    <3>2. finished' = finished \cup {r} /\ \A f \in Ranges[r] : bstart + f \in failing'
      BY <1>1, <2>1, <3>1 DEF FramesOf
    <3>3. \A f \in Ranges[r] : Holds(buffer[f], bstart + f)'
      BY <1>1, <1>3, <3>2 DEF Holds
    <3> QED BY <1>1, <1>3, <1>4, <3>2, <3>3, ChunkKeepsRound
  <2>2. CASE ~(tries[r] + 1 > RetryCount)
    <3>1. finished' = finished
      BY <1>1, <2>2
    <3>2. failing' = failing \/ (persistent /\ r \in DropIndices /\ ~Inline)
      BY <1>1, <1>7 DEF Hit
    <3> QED BY <1>1, <1>3, <1>4, <3>1, <3>2, ChunkKeepsRound
  <2> QED BY <2>1, <2>2
<1>9. OnceInv'
  <2>1. CASE persistent
    BY <1>1, <2>1 DEF OnceInv, OneShotRecovers
  <2>2. CASE ~persistent
    <3>1. failing' = failing
      BY <1>1, <1>7, <2>2
    <3>2. \A s \in Chunks : tries'[s] = 0 \/ (tries'[s] = 1 /\ s \in dropped')
      BY <1>1, <1>2, <1>6, <2>2, FirstHit DEF RoundInv
    <3> QED BY <1>1, <1>6, <2>2, <3>1, <3>2 DEF FailInv, OnceInv, OneShotRecovers, Slotted
  <2> QED BY <2>1, <2>2
<1> QED BY <1>8, <1>9 DEF FailInv

(* On the shared path a dropped attempt has not touched its columns, and a   *)
(* chunk that dropped once only is not given up.                             *)
LEMMA SharedDropStep ==
  ASSUME FailInv, NEW r \in Chunks, SharedDrop(r)
  PROVE  FailInv'
<1>1. /\ phase = "shared" /\ r \in Chunks \ finished /\ Hit(r) /\ ~Inline
      /\ dropped' = AfterHit(r) /\ tries' = [tries EXCEPT ![r] = tries[r] + 1]
      /\ UNCHANGED <<ctx, phase, call, bstart, buffer, backup, restores, persistent,
                     produced, output, swallowed, failing>>
  BY DEF SharedDrop, results, Hit
<1>2. IF tries[r] + 1 > RetryCount
      THEN finished' = finished \cup {r} /\ abandoned' = abandoned \cup FramesOf(r)
      ELSE finished' = finished /\ abandoned' = abandoned
  BY DEF SharedDrop
<1>3. RoundInv
  BY <1>1 DEF FailInv, BatchInv
<1>4. DOMAIN buffer' = Columns /\ \A f \in Ranges[r] : buffer'[f] = Input
  BY <1>1, <1>3 DEF RoundInv
<1>5. /\ DOMAIN tries' = Chunks /\ DOMAIN restores' = Chunks
      /\ \A s \in Chunks : tries'[s] \in Nat /\ (phase = "ranges" => tries'[s] = restores'[s])
  BY <1>1, <1>3 DEF RoundInv
<1>6. ContextInv' /\ CallInv' /\ FailuresContained' /\ BatchInv'
  <2>1. CASE tries[r] + 1 > RetryCount
    <3>1. finished' = finished \cup {r} /\ abandoned' = abandoned \cup FramesOf(r)
      BY <1>2, <2>1
    <3>2. \A f \in Ranges[r] : Holds(buffer[f], bstart + f)'
      BY <1>1, <1>4, <3>1 DEF Holds, FramesOf
    <3> QED BY <1>1, <1>4, <1>5, <3>1, <3>2, ChunkKeepsRound
  <2>2. CASE ~(tries[r] + 1 > RetryCount)
    <3>1. finished' = finished /\ abandoned' = abandoned
      BY <1>2, <2>2
    <3> QED BY <1>1, <1>4, <1>5, <3>1, ChunkKeepsRound
  <2> QED BY <2>1, <2>2
<1>7. Chunks' = Chunks
  BY <1>1 DEF Chunks, Ranges, Columns, Batch
<1>8. OnceInv'
  <2>1. CASE persistent
    BY <1>1, <2>1 DEF OnceInv, OneShotRecovers
  <2>2. CASE ~persistent
    <3>1. tries[r] = 0 /\ \A s \in Chunks : tries'[s] = 0 \/ (tries'[s] = 1 /\ s \in dropped')
      BY <1>1, <1>3, <1>7, <2>2, FirstHit DEF RoundInv
    <3>2. abandoned' = abandoned
      BY <1>2, <3>1 DEF RetryCount
    <3> QED BY <1>1, <1>7, <2>2, <3>1, <3>2 DEF FailInv, OnceInv, OneShotRecovers, Slotted
  <2> QED BY <2>1, <2>2
<1> QED BY <1>6, <1>8 DEF FailInv

(* Nor has a worker without a slot touched them.                             *)
LEMMA SharedNoSlotStep ==
  ASSUME FailInv, NEW r \in Chunks, SharedNoSlot(r)
  PROVE  FailInv'
<1>1. /\ phase = "shared" /\ r \in Chunks \ finished /\ ~Inline /\ ~Slotted
      /\ dropped' = AfterHit(r)
      /\ finished' = finished \cup {r} /\ abandoned' = abandoned \cup FramesOf(r)
      /\ UNCHANGED <<ctx, phase, call, bstart, buffer, backup, tries, restores, persistent,
                     produced, output, swallowed, failing>>
  BY DEF SharedNoSlot, results
<1>2. RoundInv
  BY <1>1 DEF FailInv, BatchInv
<1>3. DOMAIN buffer' = Columns /\ \A f \in Ranges[r] : buffer'[f] = Input
  BY <1>1, <1>2 DEF RoundInv
<1>4. /\ DOMAIN tries' = Chunks /\ DOMAIN restores' = Chunks
      /\ \A s \in Chunks : tries'[s] \in Nat /\ (phase = "ranges" => tries'[s] = restores'[s])
  BY <1>1, <1>2 DEF RoundInv
<1>5. \A f \in Ranges[r] : Holds(buffer[f], bstart + f)'
  BY <1>1, <1>3 DEF Holds, FramesOf
<1>6. ContextInv' /\ CallInv' /\ FailuresContained' /\ BatchInv'
  BY <1>1, <1>3, <1>4, <1>5, ChunkKeepsRound
<1>7. Chunks' = Chunks /\ dropped \subseteq dropped'
  BY <1>1 DEF Chunks, Ranges, Columns, Batch, AfterHit
<1>8. ~Slotted'
  BY <1>1 DEF Slotted
<1>9. OnceInv'
  BY <1>1, <1>7, <1>8 DEF FailInv, OnceInv, OneShotRecovers, Slotted
<1> QED BY <1>6, <1>9 DEF FailInv

(* When all chunks are done, all columns hold what the history says, and     *)
(* the batch is copied out whatever the coordinator found.                   *)
LEMMA DoneStep ==
  ASSUME FailInv, Judge \/ SharedReturn
  PROVE  FailInv'
<1>1. /\ phase \in {"ranges", "shared"} /\ finished = Chunks /\ phase' = "copy"
      /\ UNCHANGED <<ctx, call, bstart, buffer, persistent, produced, output,
                     failing, abandoned, swallowed>>
  BY DEF Judge, SharedReturn, dropout, results, history
<1>2. /\ ContextInv' /\ CallInv' /\ FailuresContained' /\ Columns' = Columns /\ Batch' = Batch
      /\ Past' = Past
  BY <1>1, SameHistory
<1>3. ASSUME NEW f \in Columns PROVE Holds(buffer[f], bstart + f)'
  <2>1. RoundInv
    BY <1>1 DEF FailInv, BatchInv
  <2>2. PICK r \in Chunks : f \in Ranges[r]
    BY RangesPartition
  <2>3. Holds(buffer[f], bstart + f)
    BY <1>1, <2>1, <2>2 DEF RoundInv
  <2> QED BY <1>1, <2>3 DEF Holds
<1>4. PastInv'
  BY <1>1, <1>2 DEF FailInv, BatchInv, PastInv
<1>5. BatchInv'
  BY <1>1, <1>2, <1>3, <1>4 DEF BatchInv
<1>6. OnceInv'
  BY <1>1 DEF FailInv, OnceInv, OneShotRecovers, Slotted
<1> QED BY <1>2, <1>5, <1>6 DEF FailInv

(* The batch's frames join those that were produced before.                  *)
LEMMA CopyOutStep ==
  ASSUME FailInv, CopyOut
  PROVE  FailInv'
<1>1. /\ phase = "copy"
      /\ output' = [n \in DOMAIN output \cup {bstart + f : f \in Columns} |->
                      IF n >= bstart THEN buffer[n - bstart] ELSE output[n]]
      /\ produced' = produced + Batch /\ bstart' = bstart + call.batch
      /\ phase' = IF bstart + call.batch < call.frames THEN "fill" ELSE "idle"
      /\ UNCHANGED <<ctx, call, persistent, dropped, failing, abandoned, swallowed>>
  BY DEF CopyOut, dropout, history
<1>2. /\ Batch \in 1..call.batch /\ bstart + Batch <= call.frames /\ produced = bstart
      /\ bstart \in Nat /\ call.frames \in Nat \ {0} /\ call.batch \in Nat \ {0}
      /\ bstart + call.batch < call.frames => Batch = call.batch
  BY <1>1, BatchFits DEF FailInv, CallInv
<1>3. CallInv'
  BY <1>1, <1>2 DEF CallInv
<1>4. ASSUME NEW n \in 0..(produced' - 1)
      PROVE  n \in DOMAIN output' /\ Holds(output[n], n)'
  <2>1. CASE n < bstart
    <3>1. n \in DOMAIN output /\ Holds(output[n], n)
      BY <1>2, <1>4, <2>1 DEF FailInv, FailuresContained
    <3>2. output'[n] = output[n] /\ n \in DOMAIN output'
      BY <1>1, <1>2, <2>1, <3>1
    <3> QED BY <1>1, <3>1, <3>2 DEF Holds
  <2>2. CASE ~(n < bstart)
    <3>1. n - bstart \in Columns /\ n = bstart + (n - bstart)
      BY <1>1, <1>2, <1>4, <2>2 DEF Columns
    <3>2. n \in DOMAIN output' /\ output'[n] = buffer[n - bstart]
      BY <1>1, <1>2, <2>2, <3>1
    <3>3. Holds(buffer[n - bstart], n)
      BY <1>1, <3>1 DEF FailInv, BatchInv
    <3> QED BY <1>1, <3>2, <3>3 DEF Holds
  <2> QED BY <2>1, <2>2
<1>5. FailuresContained'
  BY <1>4 DEF FailuresContained
<1>6. phase' \in {"fill", "idle"}
  BY <1>1
<1>7. PastInv'
  <2>1. Past' = Past /\ \A n \in Past : n \in Nat /\ n < bstart + Batch
    BY <1>1 DEF FailInv, BatchInv, PastInv, Past
  <2> QED BY <1>1, <1>2, <2>1 DEF PastInv
<1>8. BatchInv' /\ OnceInv'
  BY <1>1, <1>6, <1>7 DEF FailInv, BatchInv, OnceInv, OneShotRecovers, Slotted
<1>9. ContextInv'
  BY <1>1 DEF FailInv, ContextInv, Shape, Typed, Halves, Fits
<1> QED BY <1>3, <1>5, <1>8, <1>9 DEF FailInv

(* What happens to a batch on the shared path.                               *)
LEMMA SharedStep ==
  ASSUME FailInv, Shared
  PROVE  FailInv'
<1>1. CASE TransformShared \/ SharedReturn
  BY <1>1, TransformSharedStep, DoneStep
<1>2. ASSUME NEW r \in Chunks, SharedDies(r) PROVE FailInv'
  <2>1. /\ phase = "shared" /\ phase' = "dead"
        /\ UNCHANGED <<ctx, call, bstart, persistent, produced, output,
                       failing, abandoned, swallowed>>
    BY <1>2 DEF SharedDies, dropout, results
  <2> QED BY <2>1, EndedEarly
<1>3. ASSUME NEW r \in Chunks, SharedProcess(r) PROVE FailInv'
  <2>1. ~Hit(r)
    BY <1>3 DEF SharedProcess
  <2> QED BY <1>3, <2>1, ProcessStep
<1> QED BY <1>1, <1>2, <1>3, SharedDropStep, SharedNoSlotStep DEF Shared

(* An exception on the caller's thread.                                      *)
LEMMA GiveUpStep ==
  ASSUME FailInv, GiveUp
  PROVE  FailInv'
<1>1. /\ phase # "idle" /\ phase' = "idle"
      /\ UNCHANGED <<ctx, call, bstart, persistent, produced, output,
                     failing, abandoned, swallowed>>
  BY DEF GiveUp, dropout, results
<1> QED BY <1>1, EndedEarly

(* What happens to the chunks of a batch, up to the coordinator's verdict.   *)
LEMMA RoundsStep ==
  ASSUME FailInv, Rounds
  PROVE  FailInv'
<1>1. CASE Judge
  BY <1>1, DoneStep
<1>2. CASE \E r \in Chunks : ChunkStep(r)
  BY <1>2, ProcessStep, SwallowsStep, DropStep DEF ChunkStep
<1> QED BY <1>1, <1>2 DEF Rounds

(* Frames of chunks the pool gave up hold their input, of chunks whose       *)
(* exception was swallowed anything, all others their spectrum.              *)
THEOREM FailureInvariant == Spec => []FailInv
<1>1. Init => FailInv
  <2> SUFFICES ASSUME Init PROVE FailInv
    OBVIOUS
  <2>1. phase = "idle" /\ produced = 0 /\ ctx = NoContext
    BY DEF Init, ContextInit
  <2> QED BY <2>1 DEF FailInv, ContextInv, CallInv, BatchInv, PastInv, FailuresContained, OnceInv, OneShotRecovers
<1>2. FailInv /\ [Next]_vars => FailInv'
  <2> SUFFICES ASSUME FailInv, [Next]_vars PROVE FailInv'
    OBVIOUS
  <2>1. CASE UNCHANGED vars
    <3>1. /\ UNCHANGED <<ctx, phase, call, bstart, buffer, backup, tries, finished, restores>>
          /\ UNCHANGED <<persistent, dropped, output, produced, swallowed, failing, abandoned>>
      BY <2>1 DEF vars, round, dropout, results, history
    <3>2. Columns' = Columns /\ Ranges' = Ranges /\ Chunks' = Chunks
      BY <3>1 DEF Columns, Batch, Ranges, Chunks
    <3>3. ContextInv' /\ CallInv' /\ FailuresContained'
      BY <3>1 DEF FailInv, ContextInv, Shape, Typed, Halves, Fits, CallInv, FailuresContained, Holds
    <3>4. BatchInv'
      <4>1. Batch' = Batch /\ Past' = Past /\ (Inline' <=> Inline)
        BY <3>1, <3>2 DEF Batch, Past, Inline
      <4>2. PastInv'
        BY <3>1, <4>1 DEF FailInv, BatchInv, PastInv
      <4>3. RoundInv => RoundInv'
        BY <3>1, <3>2, <4>1 DEF RoundInv, Holds
      <4> QED BY <3>1, <3>2, <4>2, <4>3 DEF FailInv, BatchInv, Holds
    <3>5. OnceInv'
      BY <3>1, <3>2 DEF FailInv, OnceInv, OneShotRecovers, Slotted
    <3> QED BY <3>3, <3>4, <3>5 DEF FailInv
  <2>2. CASE \E len \in Lengths, pad \in PadModes, limit \in FrameLimits, b \in BOOLEAN :
               Call(len, pad, limit, b)
    BY <2>2, CallStep
  <2>3. CASE \E frames \in Spectra, limit \in FrameLimits, b \in BOOLEAN :
               CallSpectra(frames, limit, b)
    BY <2>3, CallSpectraStep
  <2>4. CASE Configure \/ (\E on \in Persistence : SetPersistent(on)) \/ ClearDropped
    BY <2>4, BetweenStep
  <2>5. CASE Proceed
    BY <2>5, FillStep, SharedStep, GiveUpStep, RoundsStep, CopyOutStep
       DEF Proceed, SignalRounds, SpectraRounds
  <2> QED BY <2>1, <2>2, <2>3, <2>4, <2>5 DEF Next
<1> QED BY <1>1, <1>2, PTL DEF Spec

(* For any signals, batches, lanes, workers and dropouts: a frame that was   *)
(* produced holds its spectrum, or its untouched input if the pool gave its  *)
(* own chunk up, with recovery or without, unless its own chunk swallowed an *)
(* exception; restore_cb undoes no other chunk's work.                       *)
THEOREM FailuresStayContained == Spec => []FailuresContained
<1>1. FailInv => FailuresContained
  BY DEF FailInv
<1> QED BY FailureInvariant, <1>1, PTL

(* A one-shot dropout never counts as a persistent failure, and on the       *)
(* shared path costs no chunk if every worker has a slot, whatever was       *)
(* dropped in earlier batches and calls (kRetryCount is more than one).      *)
THEOREM OneShotAlwaysRecovers == Spec => []OneShotRecovers
<1>1. FailInv => OneShotRecovers
  BY DEF FailInv, OnceInv
<1> QED BY FailureInvariant, <1>1, PTL

-----------------------------------------------------------------------------
(* One call and a stream: both overlap-adds sum the same contributions.    *)

\* Sample t of the overlap-add of k frames, h samples apart.
Out(k, h, t) ==
  LET sum == Contributions(k, h, t)
  IN  [sum |-> sum, weight |-> IF ctx.cola THEN sum ELSE {}, normed |-> ctx.cola]

(* The place of a frame is a hop behind that of the next, at least.          *)
LEMMA HopGap ==
  ASSUME NEW m \in Nat, NEW g \in 0..(m - 1), NEW h \in Nat
  PROVE  g * h \in Nat /\ g * h + h <= m * h
<1> DEFINE d == m - (g + 1)
<1>1. d \in Nat /\ m = g + (1 + d) /\ g \in Nat
  OBVIOUS
<1> HIDE DEF d
<1>2. d * h \in Nat /\ g * h \in Nat
  BY <1>1
<1>3. m * h = g * h + (h + d * h)
  BY <1>1
<1> QED BY <1>2, <1>3

(* Frames that begin after a sample add nothing to it.                       *)
LEMMA LaterFramesDoNotReach ==
  ASSUME NEW k \in Nat, NEW m \in 0..k, NEW h \in Nat, NEW t \in Nat, t < m * h
  PROVE  Contributions(k, h, t) = Contributions(m, h, t)
<1>1. ASSUME NEW g \in 0..(k - 1), t - g * h \in 0..(ctx.size - 1) PROVE g \in 0..(m - 1)
  <2>1. CASE g = m
    BY <1>1, <2>1
  <2>2. CASE g > m
    <3>1. m \in 0..(g - 1) /\ g \in Nat
      BY <2>2
    <3>2. m * h + h <= g * h /\ g * h \in Int /\ m * h \in Nat
      BY <3>1, HopGap
    <3> QED BY <1>1, <3>2
  <2> QED BY <2>1, <2>2
<1>2. 0..(m - 1) \subseteq 0..(k - 1)
  OBVIOUS
<1>3. {g \in 0..(k - 1) : t - g * h \in 0..(ctx.size - 1)} = {g \in 0..(m - 1) : t - g * h \in 0..(ctx.size - 1)}
  BY <1>1, <1>2
<1> QED BY <1>3 DEF Contributions

(* A frame adds its own sample to the place it covers.                       *)
LEMMA FrameReaches ==
  ASSUME NEW m \in Nat, NEW h \in Nat, NEW i \in 0..(ctx.size - 1)
  PROVE  Contributions(m + 1, h, m * h + i) = Contributions(m, h, m * h + i) \cup {<<m + 1, i>>}
<1> DEFINE p == m * h
           Here(g) == (p + i) - g * h \in 0..(ctx.size - 1)
<1>1. p \in Nat /\ i \in Int
  OBVIOUS
<1> HIDE DEF p
<1>2. (p + i) - p = i
  BY <1>1
<1>3. Here(m)
  BY <1>2 DEF p
<1>4. {g \in 0..((m + 1) - 1) : Here(g)} = {g \in 0..(m - 1) : Here(g)} \cup {m}
  <2>1. 0..((m + 1) - 1) = 0..(m - 1) \cup {m}
    OBVIOUS
  <2> HIDE DEF Here
  <2> QED BY <1>3, <2>1
<1>5. Contributions(m + 1, h, p + i) = {<<f + 1, (p + i) - f * h>> : f \in {g \in 0..((m + 1) - 1) : Here(g)}}
  BY DEF Contributions
<1>6. Contributions(m, h, p + i) = {<<f + 1, (p + i) - f * h>> : f \in {g \in 0..(m - 1) : Here(g)}}
  BY DEF Contributions
<1>7. <<m + 1, (p + i) - m * h>> = <<m + 1, i>>
  BY <1>2 DEF p
<1> HIDE DEF Here
<1> QED BY <1>4, <1>5, <1>6, <1>7 DEF p

(* No frame reaches a plan's length beyond the last.                         *)
LEMMA NoFrameReaches ==
  ASSUME NEW m \in Nat \ {0}, NEW h \in Nat, ctx.size \in Nat, NEW t \in Nat, t >= (m - 1) * h + ctx.size
  PROVE  Contributions(m, h, t) = {}
<1>1. ASSUME NEW g \in 0..(m - 1) PROVE t - g * h \notin 0..(ctx.size - 1)
  <2>1. g * h \in Nat /\ (m - 1) * h \in Nat /\ g * h <= (m - 1) * h
    <3>1. CASE g = m - 1
      BY <3>1
    <3>2. CASE g # m - 1
      <4>1. m - 1 \in Nat /\ g \in 0..((m - 1) - 1)
        BY <3>2
      <4>2. g * h \in Nat /\ g * h + h <= (m - 1) * h
        BY <4>1, HopGap
      <4>3. (m - 1) * h \in Nat
        BY <4>1
      <4> QED BY <4>2, <4>3
    <3> QED BY <3>1, <3>2
  <2> QED BY <2>1
<1> QED BY <1>1 DEF Contributions

\* The stream after m of its k frames.
AfterSome(s, m, k, h, n) ==
  /\ s.queue = [j \in 1..(IF m = k THEN (k - 1) * h + n ELSE m * h) |-> Out(k, h, j - 1)]
  /\ m # k => /\ s.accum = [i \in 0..(n - 1) |-> Contributions(m, h, m * h + i)]
              /\ s.norm = IF ctx.cola THEN s.accum ELSE Stream!Absent

\* What the two are compared for: the same plan and hop, which frames overlap by.
SameSize(h, n) ==
  /\ h = StreamHop /\ n = StreamSize /\ n = ctx.size
  /\ h \in Nat \ {0} /\ n \in Nat \ {0} /\ h <= n /\ ctx.cola \in BOOLEAN

(* A stream that has seen nothing.                                           *)
LEMMA StreamBegins ==
  ASSUME NEW h, NEW n, SameSize(h, n), NEW k \in Nat \ {0}
  PROVE  AfterSome(Stream!Sized, 0, k, h, n)
<1>1. Empty = Stream!Absent
  <2>1. DOMAIN Empty = {} /\ DOMAIN Stream!Absent = {}
    BY DEF Empty, Stream!Absent
  <2> QED BY <2>1 DEF Empty, Stream!Absent
<1>2. Stream!Sized = [accum |-> Stream!Silence, norm |-> IF ctx.cola THEN Stream!Silence ELSE Stream!Absent,
                      queue |-> <<>>, placed |-> <<>>, base |-> Len(<<>>)]
  BY <1>1 DEF Stream!Sized, SameSize
<1>3. Stream!Silence = [i \in 0..(n - 1) |-> Contributions(0, h, 0 * h + i)]
  <2>1. \A t : Contributions(0, h, t) = {}
    BY DEF Contributions
  <2> QED BY <2>1 DEF Stream!Silence, Stream!Index, SameSize
<1>4. 0 # k /\ 0 * h = 0
  BY DEF SameSize
<1>5. <<>> = [j \in 1..0 |-> Out(k, h, j - 1)]
  OBVIOUS
<1> QED BY <1>2, <1>3, <1>4, <1>5 DEF AfterSome

(* One more frame: a hop of finished samples goes to the queue, or, after    *)
(* the last frame, all of them.                                              *)
LEMMA StreamAdds ==
  ASSUME NEW h, NEW n, SameSize(h, n), NEW k \in Nat \ {0}, NEW m \in 0..(k - 1), NEW s,
         AfterSome(s, m, k, h, n)
  PROVE  AfterSome(Stream!AddFrame(s, Len(<<>>) + (m + 1), m + 1 = k, "final"), m + 1, k, h, n)
<1> DEFINE f == m + 1
           p == m * h
           a == Stream!Added(s.accum, f)
           w == Stream!Added(s.norm, f)
           e == IF f = k THEN n ELSE h
           more == Stream!Samples(a, w, e)
           acc == [i \in 0..(n - 1) |-> Contributions(f, h, p + i)]
           t == Stream!AddFrame(s, Len(<<>>) + f, f = k, "final")
<1>1. /\ h \in Nat \ {0} /\ n \in Nat \ {0} /\ h <= n /\ n = ctx.size /\ ctx.cola \in BOOLEAN
      /\ m \in Nat /\ f \in Nat \ {0} /\ p \in Nat /\ e \in Nat \ {0} /\ e <= n
      /\ Len(<<>>) + f = f /\ f # 0 /\ m # k /\ f \in 0..k /\ k \in Nat
  BY DEF SameSize
<1>2. /\ s.queue = [j \in 1..p |-> Out(k, h, j - 1)]
      /\ s.accum = [i \in 0..(n - 1) |-> Contributions(m, h, p + i)]
      /\ s.norm = IF ctx.cola THEN s.accum ELSE Stream!Absent
  BY <1>1 DEF AfterSome
<1>3. a = acc
  <2>1. \A i \in 0..(n - 1) : Contributions(f, h, p + i) = Contributions(m, h, p + i) \cup {<<f, i>>}
    BY <1>1, FrameReaches
  <2> HIDE DEF f, p
  <2> QED BY <1>2, <2>1 DEF Stream!Added
<1>4. w = IF ctx.cola THEN acc ELSE Stream!Absent
  <2>1. CASE ctx.cola
    BY <1>2, <1>3, <2>1
  <2>2. CASE ~ctx.cola
    <3>1. s.norm = [i \in {} |-> {}]
      BY <1>2, <2>2 DEF Stream!Absent
    <3> HIDE DEF f
    <3>2. Stream!Added(s.norm, f) = [i \in {} |-> {}]
      BY <3>1 DEF Stream!Added
    <3> QED BY <2>2, <3>2 DEF Stream!Absent
  <2> QED BY <2>1, <2>2
<1>5. acc # Stream!Absent
  <2>1. 0 \in DOMAIN acc
    BY <1>1
  <2> HIDE DEF acc
  <2> QED BY <2>1 DEF Stream!Absent
<1>6. Stream!Emit(f = k, "final") = e
  BY <1>1 DEF Stream!Emit, SameSize
<1>7. t = [accum |-> Stream!Shifted(a, e), norm |-> Stream!Shifted(w, e), queue |-> s.queue \o more,
           placed |-> Append(s.placed, s.base + Len(s.queue)), base |-> s.base]
  <2> HIDE DEF f, e
  <2> QED BY <1>1, <1>6 DEF Stream!AddFrame
<1> HIDE DEF a, w, t
<1>8. t.accum = Stream!Shifted(a, e) /\ t.norm = Stream!Shifted(w, e) /\ t.queue = s.queue \o more
  BY <1>7
<1>9. ASSUME NEW j \in 1..e PROVE more[j] = Out(k, h, (p + j) - 1)
  <2> DEFINE i == j - 1
  <2>1. i \in 0..(n - 1) /\ i < e /\ p + i = (p + j) - 1 /\ p + i \in Nat
    BY <1>1
  <2>2. Contributions(k, h, p + i) = Contributions(f, h, p + i)
    <3>1. CASE f = k
      BY <3>1
    <3>2. CASE f # k
      <4>1. f * h = p + h
        BY <1>1
      <4>2. p + i < f * h
        BY <1>1, <2>1, <3>2, <4>1
      <4> HIDE DEF f, p, i
      <4> QED BY <1>1, <2>1, <4>2, LaterFramesDoNotReach
    <3> QED BY <3>1, <3>2
  <2>3. acc[i] = Contributions(k, h, p + i)
    BY <2>1, <2>2
  <2>4. more[j] = Stream!Sample(a, w, i)
    <3> HIDE DEF e
    <3> QED BY DEF Stream!Samples
  <2> HIDE DEF acc, i, p, more
  <2>5. Stream!Sample(a, w, i) = Out(k, h, p + i)
    BY <1>1, <1>3, <1>4, <1>5, <2>3 DEF Stream!Sample, Out
  <2> QED BY <2>1, <2>4, <2>5
<1>10. more = [j \in 1..e |-> more[j]]
  BY DEF Stream!Samples
<1>11. t.queue = [j \in 1..(p + e) |-> Out(k, h, j - 1)]
  <2> HIDE DEF more, p, e
  <2> DEFINE T == {Out(k, h, j - 1) : j \in 1..(p + e)}
  <2>1. \A j \in 1..p : Out(k, h, j - 1) \in T
    BY <1>1
  <2>2. \A j \in 1..e : more[j] \in T
    <3> TAKE j \in 1..e
    <3>1. p + j \in 1..(p + e)
      BY <1>1
    <3> QED BY <1>9, <3>1
  <2> HIDE DEF T
  <2>3. s.queue \in Seq(T) /\ Len(s.queue) = p /\ \A j \in 1..p : s.queue[j] = Out(k, h, j - 1)
    BY <1>1, <1>2, <2>1
  <2>4. more \in Seq(T) /\ Len(more) = e
    BY <1>1, <1>10, <2>2
  <2> DEFINE q == s.queue
  <2>5. q \in Seq(T) /\ Len(q) = p /\ \A j \in 1..p : q[j] = Out(k, h, j - 1)
    BY <2>3
  <2> HIDE DEF q
  <2>6. q \o more = [j \in 1..(p + e) |-> IF j <= p THEN q[j] ELSE more[j - p]]
    <3> DEFINE z == q \o more
    <3>1. q \in Seq(T) /\ more \in Seq(T) /\ Len(q) = p /\ Len(more) = e
      BY <2>4, <2>5
    <3>2. /\ z \in Seq(T) /\ Len(z) = p + e
          /\ \A j \in 1..(p + e) : z[j] = IF j <= p THEN q[j] ELSE more[j - p]
      BY <3>1, ConcatProperties
    <3> HIDE DEF z
    <3>3. z = [j \in 1..(p + e) |-> z[j]]
      BY <3>2
    <3>4. z = [j \in 1..(p + e) |-> IF j <= p THEN q[j] ELSE more[j - p]]
      BY <3>2, <3>3
    <3> QED BY <3>4 DEF z
  <2>7. ASSUME NEW j \in 1..(p + e) PROVE (IF j <= p THEN q[j] ELSE more[j - p]) = Out(k, h, j - 1)
    <3>1. CASE j <= p
      BY <1>1, <2>5, <3>1
    <3>2. CASE ~(j <= p)
      <4>1. j - p \in 1..e /\ (p + (j - p)) - 1 = j - 1
        BY <1>1, <3>2
      <4>2. more[j - p] = Out(k, h, (p + (j - p)) - 1)
        BY <1>9, <4>1
      <4> QED BY <3>2, <4>1, <4>2
    <3> QED BY <3>1, <3>2
  <2>8. t.queue = q \o more
    BY <1>8 DEF q
  <2> QED BY <2>6, <2>7, <2>8
<1>12. p + e = IF f = k THEN (k - 1) * h + n ELSE f * h
  <2>1. CASE f = k
    <3>1. m = k - 1
      BY <1>1, <2>1
    <3> QED BY <2>1, <3>1
  <2>2. CASE f # k
    <3>1. f * h = p + h
      BY <1>1
    <3> QED BY <2>2, <3>1
  <2> QED BY <2>1, <2>2
<1>13. ASSUME f # k
       PROVE  /\ t.accum = [i \in 0..(n - 1) |-> Contributions(f, h, f * h + i)]
              /\ t.norm = IF ctx.cola THEN t.accum ELSE Stream!Absent
  <2>1. e = h /\ f * h = p + h
    BY <1>1, <1>13
  <2>2. ASSUME NEW i \in 0..(n - 1)
        PROVE  Stream!Shifted(acc, h)[i] = Contributions(f, h, f * h + i)
    <3>1. CASE i + h < n
      <4>1. i + h \in 0..(n - 1) /\ p + (i + h) = f * h + i
        BY <1>1, <2>1, <3>1
      <4> QED BY <3>1, <4>1 DEF Stream!Shifted, SameSize
    <3>2. CASE ~(i + h < n)
      <4>1. f * h + i \in Nat /\ f * h + i >= (f - 1) * h + ctx.size
        BY <1>1, <2>1, <3>2
      <4>2. Contributions(f, h, f * h + i) = {}
        <5> HIDE DEF f
        <5> QED BY <1>1, <4>1, NoFrameReaches
      <4> QED BY <3>2, <4>2 DEF Stream!Shifted, SameSize
    <3> QED BY <3>1, <3>2
  <2>3. Stream!Shifted(acc, h) = [i \in 0..(n - 1) |-> Stream!Shifted(acc, h)[i]]
    BY DEF Stream!Shifted
  <2>4. Stream!Shifted(acc, h) = [i \in 0..(n - 1) |-> Contributions(f, h, f * h + i)]
    <3> HIDE DEF acc, f
    <3> QED BY <2>2, <2>3
  <2>5. Stream!Shifted(Stream!Absent, h) = Stream!Absent
    BY DEF Stream!Shifted, Stream!Absent
  <2> HIDE DEF acc
  <2> QED BY <1>3, <1>4, <1>8, <2>1, <2>4, <2>5
<1> HIDE DEF f, p
<1>14. AfterSome(t, f, k, h, n)
  BY <1>11, <1>12, <1>13 DEF AfterSome
<1> QED BY <1>14 DEF t, f

\* The stream after m of k frames, from those before.
StreamAt(g, m, k) ==
  IF m = 0 THEN Stream!Sized ELSE Stream!AddFrame(g[m - 1], Len(<<>>) + m, m = k, "final")

(* The recursion over the frames has a solution.                             *)
LEMMA StreamDefined ==
  ASSUME NEW k \in Nat
  PROVE  \E g : g = [m \in 0..k |-> StreamAt(g, m, k)]
<1> DEFINE Upto(l) == \E g : g = [m \in 0..l |-> StreamAt(g, m, k)]
           T == {l \in Nat : Upto(l)}
<1>1. 0 \in T
  <2> DEFINE g == [m \in 0..0 |-> Stream!Sized]
  <2>1. \A m \in 0..0 : StreamAt(g, m, k) = Stream!Sized
    BY DEF StreamAt
  <2>2. g = [m \in 0..0 |-> StreamAt(g, m, k)]
    BY <2>1
  <2> QED BY <2>2
<1>2. ASSUME NEW l \in Nat, l \in T PROVE l + 1 \in T
  <2>1. PICK g : g = [m \in 0..l |-> StreamAt(g, m, k)]
    BY <1>2
  <2> DEFINE new == StreamAt(g, l + 1, k)
             f == [m \in 0..(l + 1) |-> IF m = l + 1 THEN new ELSE g[m]]
  <2>2. (\A m \in 0..l : f[m] = g[m]) /\ f[l + 1] = new
    BY <1>2
  <2>3. f = [m \in 0..(l + 1) |-> f[m]]
    OBVIOUS
  <2>4. ASSUME NEW m \in 0..(l + 1) PROVE f[m] = StreamAt(f, m, k)
    <3> HIDE DEF f
    <3>1. m # 0 => m - 1 \in 0..l
      BY <1>2
    <3>2. StreamAt(f, m, k) = StreamAt(g, m, k)
      BY <2>2, <3>1 DEF StreamAt
    <3>3. CASE m = l + 1
      BY <2>2, <3>2, <3>3
    <3>4. CASE m # l + 1
      <4>1. m \in 0..l
        BY <1>2, <3>4
      <4>2. g[m] = StreamAt(g, m, k)
        BY <2>1, <4>1
      <4> QED BY <2>2, <3>2, <4>1, <4>2
    <3> QED BY <3>3, <3>4
  <2> HIDE DEF f
  <2>5. f = [m \in 0..(l + 1) |-> StreamAt(f, m, k)]
    BY <2>3, <2>4
  <2> QED BY <2>5
<1>3. k \in T
  <2> HIDE DEF T
  <2> QED BY <1>1, <1>2, SetInduction
<1> QED BY <1>3

(* What the stream has queued after all frames.                              *)
LEMMA StreamEnds ==
  ASSUME NEW h, NEW n, SameSize(h, n), NEW k \in Nat \ {0}
  PROVE  AfterSome(Stream!AfterFrames(k, "final"), k, k, h, n)
<1> DEFINE g == CHOOSE g : g = [m \in 0..k |-> StreamAt(g, m, k)]
<1>1. Stream!AfterFrames(k, "final") = g[k]
  BY DEF Stream!AfterFrames, StreamAt
<1>2. g = [m \in 0..k |-> StreamAt(g, m, k)]
  BY StreamDefined
<1> HIDE DEF g
<1> DEFINE T == {m \in Nat : m <= k => AfterSome(g[m], m, k, h, n)}
<1>3. 0 \in T
  <2>1. g[0] = Stream!Sized
    BY <1>2 DEF StreamAt
  <2> QED BY <2>1, StreamBegins
<1>4. ASSUME NEW m \in Nat, m \in T PROVE m + 1 \in T
  <2> SUFFICES ASSUME m + 1 <= k PROVE AfterSome(g[m + 1], m + 1, k, h, n)
    OBVIOUS
  <2>1. m \in 0..(k - 1) /\ m + 1 \in 0..k /\ m + 1 # 0 /\ (m + 1) - 1 = m
    OBVIOUS
  <2>2. AfterSome(g[m], m, k, h, n)
    BY <1>4
  <2>3. g[m + 1] = Stream!AddFrame(g[m], Len(<<>>) + (m + 1), m + 1 = k, "final")
    BY <1>2, <2>1 DEF StreamAt
  <2> QED BY <2>1, <2>2, <2>3, StreamAdds
<1>5. k \in T
  <2> HIDE DEF T
  <2> QED BY <1>3, <1>4, SetInduction
<1> QED BY <1>1, <1>5

\* The samples a call has returned are its overlap-add, on the context it was made with.
PcmInv ==
  /\ ctx # NoContext => ctx.cola \in BOOLEAN
  /\ phase # "idle" => ctx # NoContext
  /\ pcm # Empty =>
       ctx # NoContext /\ call.frames \in Nat \ {0} /\ (ctx.ola => pcm = OverlapAdded(call.frames))

(* A context keeps its flags.                                                *)
LEMMA ColaTyped ==
  ASSUME ctx # NoContext => ctx.cola \in BOOLEAN, ContextInv, ContextStep
  PROVE  ctx' # NoContext => ctx'.cola \in BOOLEAN
<1>1. CASE \E a \in Legacy : InitEx(a)
  BY <1>1 DEF InitEx
<1>2. CASE \E a \in Full : InitFull(a)
  BY <1>2, ContextAssumption DEF InitFull
<1>3. CASE \E policy \in Policies, cola \in BOOLEAN : ConfigWindow(policy, cola)
  <2>1. Shape /\ ctx # NoContext
    BY <1>3 DEF ContextInv, ConfigWindow
  <2> QED BY <1>3, <2>1 DEF ConfigWindow, Shape
<1>4. CASE \E analysis \in Customs, synthesis \in Customs, policy \in Policies, cola \in BOOLEAN :
             ConfigWindowCustom(analysis, synthesis, policy, cola)
  <2>1. Shape /\ ctx # NoContext
    BY <1>4 DEF ContextInv, ConfigWindowCustom
  <2> QED BY <1>4, <2>1 DEF ConfigWindowCustom, Shape
<1>5. CASE Free
  BY <1>5 DEF Free
<1> QED BY <1>1, <1>2, <1>3, <1>4, <1>5 DEF ContextStep

(* Samples are returned at the end of a call, and dropped when the next one  *)
(* begins or the context changes.                                            *)
LEMMA PcmKept == FailInv /\ PcmInv /\ [Next]_vars => PcmInv'
<1> SUFFICES ASSUME FailInv, PcmInv, [Next]_vars PROVE PcmInv'
  OBVIOUS
<1>0. UNCHANGED ctx => \A k : OverlapAdded(k)' = OverlapAdded(k)
  BY DEF OverlapAdded, Contributions, HopOf, WindowOf
<1>1. CASE UNCHANGED vars
  BY <1>0, <1>1 DEF vars, results, PcmInv
<1>2. CASE Configure
  <2>1. ctx' # NoContext => ctx'.cola \in BOOLEAN
    BY <1>2, ColaTyped DEF Configure, PcmInv, FailInv
  <2> QED BY <1>2, <2>1 DEF Configure, PcmInv
<1>3. CASE \E len \in Lengths, pad \in PadModes, limit \in FrameLimits, b \in BOOLEAN :
             Call(len, pad, limit, b)
  BY <1>3 DEF Call, Begin, PcmInv
<1>4. CASE \E frames \in Spectra, limit \in FrameLimits, b \in BOOLEAN :
             CallSpectra(frames, limit, b)
  BY <1>4 DEF CallSpectra, Begin, PcmInv
<1>5. CASE (\E on \in Persistence : SetPersistent(on)) \/ ClearDropped
  BY <1>0, <1>5 DEF SetPersistent, ClearDropped, results, PcmInv
<1>6. CASE Fill \/ Shared \/ GiveUp
  <2>1. UNCHANGED <<ctx, call, results>> /\ phase # "idle"
    BY <1>6 DEF Fill, Shared, TransformShared, SharedProcess, SharedDrop, SharedNoSlot, SharedDies,
                SharedReturn, GiveUp
  <2> QED BY <1>0, <2>1 DEF results, PcmInv
<1>7. CASE Rounds
  <2>1. UNCHANGED <<ctx, call, results>> /\ phase # "idle"
    BY <1>7 DEF Rounds, Judge, ChunkStep, Process, ProcessSwallows, Drop
  <2> QED BY <1>0, <2>1 DEF results, PcmInv
<1>8. CASE CopyOut
  <2>1. /\ phase # "idle" /\ UNCHANGED <<ctx, call>>
        /\ pcm' = IF call.of = "signal" THEN Empty
                  ELSE IF ctx.ola THEN OverlapAdded(call.frames) ELSE SideBySide(call.frames)
    BY <1>8 DEF CopyOut
  <2>2. call.frames \in Nat \ {0}
    BY <2>1 DEF FailInv, CallInv
  <2> QED BY <1>0, <2>1, <2>2 DEF PcmInv
<1> QED BY <1>1, <1>2, <1>3, <1>4, <1>5, <1>6, <1>7, <1>8
        DEF Next, Proceed, SignalRounds, SpectraRounds

(* So what one call returns is what the stream queues.                       *)
LEMMA PcmIsStreamed == FailInv /\ PcmInv => OneCallAsStream
<1> SUFFICES ASSUME FailInv, PcmInv, pcm # Empty, ctx.ola, ctx.size = StreamSize,
                    HopOf(ctx) = StreamHop, StreamHop <= StreamSize,
                    NEW t \in DOMAIN pcm
             PROVE  LET q == Stream!AfterFrames(call.frames, "final").queue
                    IN  IF t < Len(q) THEN pcm[t] = q[t + 1] ELSE pcm[t].sum = {}
  BY DEF OneCallAsStream
<1> DEFINE k == call.frames
           h == StreamHop
           n == StreamSize
           q == Stream!AfterFrames(k, "final").queue
           l == (k - 1) * h + n
<1>1. k \in Nat \ {0} /\ pcm = OverlapAdded(k) /\ ctx.cola \in BOOLEAN /\ Typed
  BY DEF PcmInv, FailInv, ContextInv
<1>2. SameSize(h, n)
  BY <1>1 DEF Typed, HopOf, WindowOf, SameSize
<1>3. h \in Nat \ {0} /\ n \in Nat \ {0} /\ n = ctx.size
  BY <1>2 DEF SameSize
<1>4. q = [j \in 1..l |-> Out(k, h, j - 1)]
  <2> HIDE DEF k, h, n
  <2> QED BY <1>1, <1>2, StreamEnds DEF AfterSome
<1>5. l \in Nat
  <2> HIDE DEF k, h, n
  <2> QED BY <1>1, <1>3
<1>6. t \in Nat /\ pcm[t] = Out(k, h, t)
  BY <1>1, <1>3 DEF OverlapAdded, Out
<1>7. Len(q) = l
  <2> HIDE DEF q, l
  <2> QED BY <1>4, <1>5
<1> HIDE DEF q
<1>8. CASE t < l
  <2> HIDE DEF l, k, h
  <2>1. t + 1 \in 1..l /\ (t + 1) - 1 = t
    BY <1>5, <1>6, <1>8
  <2>2. q[t + 1] = Out(k, h, t)
    BY <1>4, <2>1
  <2> QED BY <1>6, <1>7, <1>8, <2>2 DEF q, k
<1>9. CASE ~(t < l)
  <2>1. t >= (k - 1) * h + ctx.size
    BY <1>3, <1>5, <1>6, <1>9
  <2>2. Contributions(k, h, t) = {}
    <3> HIDE DEF k, h
    <3> QED BY <1>1, <1>3, <1>6, <2>1, NoFrameReaches
  <2>3. pcm[t].sum = {}
    BY <1>6, <2>2 DEF Out
  <2> HIDE DEF l
  <2> QED BY <1>7, <1>9, <2>3 DEF q
<1> QED BY <1>8, <1>9

(* For any number of frames, plan and hop not longer than it: the samples    *)
(* fft_execute_complex_batched overlap-adds are those that                   *)
(* fft_stream_push_spectrum queues for the same frames and a final flush,    *)
(* in sums and weights (fft_cffi.cpp 1118-1146 and 1597-1742).               *)
THEOREM OneCallIsAStream == Spec => []OneCallAsStream
<1>1. Init => PcmInv
  BY DEF Init, ContextInit, PcmInv
<1>2. FailInv /\ FailInv' /\ PcmInv /\ [Next]_vars => PcmInv'
  BY PcmKept
<1>3. Spec => []PcmInv
  BY <1>1, <1>2, FailureInvariant, PTL DEF Spec
<1>4. FailInv /\ PcmInv => OneCallAsStream
  BY PcmIsStreamed
<1> QED BY <1>3, <1>4, FailureInvariant, PTL
=============================================================================
