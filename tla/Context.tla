------------------------------ MODULE Context ------------------------------
(***************************************************************************)
(* A context of the C API (fft_cffi.cpp): how it is made, how its windows  *)
(* are configured, and what its calls read from it.  A window vector is    *)
(* its length and the policy it was last normalised with; its shape is a   *)
(* floating-point formula.  Negative sizes and windows are left out, and   *)
(* every radix has a butterfly that needs a power of two.                  *)
(***************************************************************************)
EXTENDS Framing, Integers

CONSTANTS
  Legacy,     (* arguments of fft_init_ex                                  *)
  Full,       (* arguments of fft_init_full_v2                             *)
  Policies,   (* normalisation policies an application configures          *)
  Customs     (* lengths of its own windows, 0 for a null pointer          *)

ASSUME ContextAssumption ==
  /\ Legacy \subseteq [n : Nat, pad : Nat, window : Nat, hop : Nat]
  /\ Full \subseteq [n : Nat \ {0}, pad : Nat, window : Nat, hop : Nat, half : BOOLEAN,
                     c2r : BOOLEAN, kernel : STRING, workers : Nat, windows : BOOLEAN,
                     ola : BOOLEAN, policy : STRING, cola : BOOLEAN]
  /\ Policies \subseteq STRING /\ Customs \subseteq Nat

VARIABLE ctx   (* the FftContext, or NoContext                             *)

NoContext == [size |-> 0]

\* Of its divisors only 1 is odd.
IsPowerOfTwo(n) == n # 0 /\ \A d, e \in 1..n : d * e = n => d = 1 \/ d % 2 = 0
NextPowerOfTwo(n) ==
  CHOOSE p \in n..(2 * n) : IsPowerOfTwo(p) /\ \A q \in n..(p - 1) : ~IsPowerOfTwo(q)

\* 0 stands for the plan's size, and for the window.
WindowOf(c) == IF c.window = 0 THEN c.size ELSE c.window
HopOf(c) == IF c.hop = 0 THEN WindowOf(c) ELSE c.hop

-----------------------------------------------------------------------------
NoWindow == [length |-> 0, policy |-> "none"]

\* normalize_window.
Normalized(w, policy) ==
  IF w.length = 0 \/ policy = "none" THEN w ELSE [w EXCEPT !.policy = policy]

Built(length, policy) == Normalized([length |-> length, policy |-> "none"], policy)

\* fft_init_ex: no worker pool, no windows, the default kernel.
InitEx(a) ==
  /\ ctx = NoContext
  /\ a.n # 0 /\ (IsPowerOfTwo(a.n) \/ a.pad = PadLast)
  /\ ctx' = [size |-> IF IsPowerOfTwo(a.n) THEN a.n ELSE NextPowerOfTwo(a.n),
             pad |-> a.pad, window |-> a.window, hop |-> a.hop, half |-> FALSE,
             c2r |-> FALSE, kernel |-> "ct", workers |-> 0, ola |-> FALSE, cola |-> FALSE,
             enabled |-> FALSE, analysis |-> NoWindow, synthesis |-> NoWindow]

\* fft_init_full_v2 pads nothing: a size that is no power of two has no plan to
\* warm the cache with.  The pool has `threads` workers, at least one and at most the
\* machine's, if outer parallelism is allowed, else there is none: 0.  Windows are built for `window` samples and filled up
\* with ones, or cut, to the plan's size.
InitFull(a) ==
  /\ ctx = NoContext
  /\ IsPowerOfTwo(a.n)
  /\ ctx' = [size |-> a.n, pad |-> a.pad, window |-> a.window, hop |-> a.hop,
             half |-> a.half, c2r |-> a.c2r, kernel |-> a.kernel, workers |-> a.workers,
             ola |-> a.ola, cola |-> a.cola, enabled |-> a.windows,
             analysis |-> Built(a.n, a.policy), synthesis |-> Built(a.n, a.policy)]

\* Mutant: the new windows are applied at once, if windows were.
ConfigWindowKeeping(policy, cola) ==
  /\ ctx # NoContext
  /\ ctx' = [ctx EXCEPT !.cola = cola, !.analysis = Built(WindowOf(ctx), policy),
                        !.synthesis = Built(WindowOf(ctx), policy)]

\* fft_config_window: windows of `window` samples, not applied.
ConfigWindow(policy, cola) ==
  /\ ctx # NoContext
  /\ ctx' = [ctx EXCEPT !.cola = cola, !.enabled = FALSE,
                        !.analysis = Built(WindowOf(ctx), policy),
                        !.synthesis = Built(WindowOf(ctx), policy)]

\* fft_config_window_custom: an array of another length is passed over.
ConfigWindowCustom(analysis, synthesis, policy, cola) ==
  LET Custom(w, length) == IF length = WindowOf(ctx) THEN Built(length, policy)
                           ELSE Normalized(w, policy)
  IN  /\ ctx # NoContext
      /\ ctx' = [ctx EXCEPT !.cola = cola, !.enabled = FALSE,
                            !.analysis = Custom(@, analysis),
                            !.synthesis = Custom(@, synthesis)]

\* fft_free.
Free == ctx # NoContext /\ ctx' = NoContext

ContextInit == ctx = NoContext

ContextStep ==
  \/ \E a \in Legacy : InitEx(a)
  \/ \E a \in Full : InitFull(a)
  \/ \E policy \in Policies, cola \in BOOLEAN : ConfigWindow(policy, cola)
  \/ \E analysis \in Customs, synthesis \in Customs, policy \in Policies, cola \in BOOLEAN :
       ConfigWindowCustom(analysis, synthesis, policy, cola)
  \/ Free

-----------------------------------------------------------------------------
\* What fft_execute_complex_batched makes of the bins of a frame: element k of the
\* column is bin `bin`, real or conjugated, or nothing.
Bins(c) == IF c.half THEN c.size \div 2 + 1 ELSE c.size
Plain(k) == [bin |-> k, as |-> "is"]
Real(k) == [bin |-> k, as |-> "real"]
Conjugated(k) == [bin |-> k, as |-> "conjugate"]
Zero == [bin |-> 0, as |-> "zero"]

\* Mutant: the loop stops one bin before the last.
MirroredShort(c) == 1..(c.size \div 2 - 2)

\* The bins that are copied, conjugated, to the upper half.
Mirrored(c) == 1..(c.size \div 2 - 1)

Column(c) ==
  [k \in 0..(c.size - 1) |->
     IF c.half /\ c.c2r /\ (k = 0 \/ 2 * k = c.size) THEN Real(k)
     ELSE IF c.half /\ c.c2r /\ c.size - k \in Mirrored(c) THEN Conjugated(c.size - k)
     ELSE IF k < Bins(c) THEN Plain(k) ELSE Zero]

-----------------------------------------------------------------------------
(* Windows that are applied reach as far as the calls read them: the         *)
(* analysis window over a frame of samples (774), the synthesis window over  *)
(* a whole column (1130), although fft_config_window replaces them by        *)
(* shorter vectors.                                                          *)
WindowsCover ==
  (ctx # NoContext /\ ctx.enabled) =>
    /\ WindowOf(ctx) <= ctx.size => ctx.analysis.length >= WindowOf(ctx)
    /\ ctx.synthesis.length >= ctx.size

(* The column made of half a spectrum is conjugate symmetric, so that its    *)
(* inverse transform is real: what C2R promises, without the kernel's help.  *)
HalfSpectrumMirrored ==
  (ctx # NoContext /\ ctx.half /\ ctx.c2r) =>
    \A k \in 0..(ctx.size - 1) :
      LET x == Column(ctx)[k]
          y == Column(ctx)[(ctx.size - k) % ctx.size]
      IN  \/ x.as = "real" /\ y = x
          \/ x.bin = y.bin /\ {x.as, y.as} = {"is", "conjugate"}

(* What the header says and the code does not keep: a null pointer leaves    *)
(* the window "unchanged" (fft_cffi.hpp 337).  It is normalised again.       *)
NullLeavesUnchanged ==
  [][\A policy \in Policies, cola \in BOOLEAN :
       ConfigWindowCustom(0, 0, policy, cola) =>
         ctx'.analysis = ctx.analysis /\ ctx'.synthesis = ctx.synthesis]_ctx
=============================================================================
