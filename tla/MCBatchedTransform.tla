------------------------ MODULE MCBatchedTransform ------------------------
(***************************************************************************)
(* Values of the constants of BatchedTransform and Resynthesis for TLC.    *)
(***************************************************************************)
EXTENDS Resynthesis

Legacy3(n, pad, window, hop) == [n |-> n, pad |-> pad, window |-> window, hop |-> hop]

\* Padded; refused; with a window longer than its plan.
LegacyContexts ==
  {Legacy3(3, 1, 2, 0), Legacy3(3, 2, 2, 1), Legacy3(2, 0, 4, 1)}

Context(n, pad, window, hop, half, kernel, workers, ola) ==
  [n |-> n, pad |-> pad, window |-> window, hop |-> hop, half |-> half, c2r |-> half,
   kernel |-> kernel, workers |-> workers, windows |-> TRUE, ola |-> ola, policy |-> "none",
   cola |-> half]

\* Workers without a slot; half spectra, overlap-add one hop apart with norms;
\* Cooley-Tukey on the pool; no pool; refused.
FullContexts ==
  {Context(2, 2, 2, 1, FALSE, "stockham", 2, FALSE),
   Context(4, 2, 4, 3, TRUE, "stockham", 1, TRUE),
   Context(2, 1, 2, 0, FALSE, "ct", 1, FALSE),
   Context(8, 1, 3, 0, TRUE, "stockham", 0, TRUE),
   Context(6, 1, 2, 1, FALSE, "ct", 2, FALSE)}
=============================================================================
