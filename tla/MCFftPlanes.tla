---------------------------- MODULE MCFftPlanes ----------------------------
(***************************************************************************)
(* Values of FftPlanes' constants for TLC: square, wide and high matrices, *)
(* and tiles that do not fill the wider ones.                              *)
(***************************************************************************)
EXTENDS FftPlanes

Shape(rows, cols) == [rows |-> rows, cols |-> cols]
SomeShapes == {Shape(2, 2), Shape(2, 4), Shape(4, 2)}
=============================================================================
