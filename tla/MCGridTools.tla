---------------------------- MODULE MCGridTools ----------------------------
(***************************************************************************)
(* Values of GridTools' constants for TLC.  A sample of 1 is One, which    *)
(* four interpolations, a mix of a half, a window of up to 24 cells, a     *)
(* contrast of a half and blocks of up to 9 cells divide without rest.     *)
(***************************************************************************)
EXTENDS GridTools

One == 4 * 2 * 144 * 2 * 36

Rectangle(times, freqs, samples) ==
  {[times |-> times, freqs |-> freqs, cells |-> c] : c \in [0..(times * freqs - 1) -> samples]}

\* One row, a square, two rows; a grid without rows and one that is too large.
SomeGrids ==
  Rectangle(1, 3, {-One, 0, 2 * One}) \cup Rectangle(2, 2, {-One, 0, 2 * One})
    \cup Rectangle(3, 2, {One, -3 * One}) \cup Rectangle(0, 2, {0}) \cup Rectangle(1, 7, {One})

Resample(upT, upF, downT, downF, energy, step) ==
  [upT |-> upT, upF |-> upF, downT |-> downT, downF |-> downF, energy |-> energy, step |-> step]

\* Nothing; there and back; matching by accident; too coarse; frequency only.
SomePlans ==
  {Resample(1, 0, 1, -1, TRUE, 0), Resample(2, 2, 2, 2, TRUE, 72), Resample(2, 2, 3, 3, TRUE, 36),
   Resample(1, 1, 2, 1, FALSE, 36), Resample(1, 2, 1, 2, FALSE, 36), Resample(2, 1, 1, 2, TRUE, 0)}

SomeQuantizers ==
  {[on |-> FALSE, base |-> 0, step |-> 0, mix |-> 0, sharp |-> FALSE],
   [on |-> TRUE, base |-> 72, step |-> (3 * One) \div 2, mix |-> 1, sharp |-> TRUE],
   [on |-> TRUE, base |-> 0, step |-> 3 * One, mix |-> 3, sharp |-> FALSE]}

Contrast(kt, kf, brightness, contrast, clamp) ==
  [on |-> TRUE, kt |-> kt, kf |-> kf, brightness |-> brightness, contrast |-> contrast,
   clamp |-> clamp]
SomeContrasts ==
  {[on |-> FALSE, kt |-> 0, kf |-> 0, brightness |-> 0, contrast |-> 0, clamp |-> FALSE],
   Contrast(3, 3, 0, 1, TRUE), Contrast(1, 3, 0, 1, TRUE), Contrast(0, 0, One, -1, FALSE)}
=============================================================================
