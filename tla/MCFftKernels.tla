---------------------------- MODULE MCFftKernels ----------------------------
(***************************************************************************)
(* FftKernels for TLC: the constants are given in the configurations.      *)
(***************************************************************************)
EXTENDS FftKernels
=============================================================================
