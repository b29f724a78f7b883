----------------------------- MODULE FftPlanes -----------------------------
(***************************************************************************)
(* fft_inplace_2d (eigen_fft.hpp): the columns of a matrix go through one  *)
(* call of fft_apply_axis, the matrix is transposed into scratch memory    *)
(* tile by tile, its rows go through a second call with a plan of their    *)
(* own, and the result is transposed back.  Calls on one axis alone, as    *)
(* in FftKernels, are among the behaviours.                                *)
(*                                                                         *)
(* Here is what the call computes; PlanArena has what it does to the       *)
(* scratch memory of its plans.                                            *)
(***************************************************************************)
EXTENDS FftKernels

CONSTANTS
  Shapes,             (* [rows, cols] of the matrices                      *)
  TileRows, TileCols  (* tile_rows, tile_cols; 64 and 128 by default       *)

ASSUME PlanesAssumption ==
  /\ Shapes \subseteq [rows : 1..Order, cols : 1..Order]
  /\ \A s \in Shapes : \A n \in {s.rows, s.cols} : Order % n = 0 /\ IsPow2(n)
  /\ {TileRows, TileCols} \subseteq Nat \ {0}

VARIABLES
  plane,  (* axis0_plan, axis1_plan and X when the call began, or NoPlane  *)
  side,   (* what is transformed: the columns, or the rows in the scratch  *)
  whole   (* history: no column was given up on the first axis             *)

planeVars == <<plane, side, whole>>
allVars == <<vars, planeVars>>

NoPlane == [first |-> "none"]   \* one call of fft_apply_axis, on its own

ComplexPlan(kernel, n, inverse) ==
  [kernel |-> kernel, N |-> n, inverse |-> inverse, mode |-> "C2C", half |-> FALSE]

\* Matrices with a single element, as in FftKernels.
BasisMatrix(rows, cols, i) ==
  [c \in 0..(cols - 1) |->
     [r \in 0..(rows - 1) |-> IF c * rows + r = i \div 2 THEN Unit(rows * cols, i) ELSE Zero]]

PlaneInit ==
  /\ side = "columns" /\ whole = TRUE
  /\ \/ plane = NoPlane /\ Init
     \/ \E s \in Shapes, k0 \in Kernels, k1 \in Kernels, inverse \in BOOLEAN :
          /\ plan = ComplexPlan(k0, s.rows, inverse)
          /\ \E i \in 0..(2 * s.rows * s.cols - 1) : input = BasisMatrix(s.rows, s.cols, i)
          /\ plane = [first |-> plan, second |-> ComplexPlan(k1, s.cols, inverse),
                      matrix |-> input]
          /\ asked = "none"
          /\ Started

-----------------------------------------------------------------------------
\* Mutant: a last tile that is not full is left out.
TiledWhole(n, tile) == 0..((n \div tile) * tile - 1)

\* The indices below n that tiles of a given size reach.
Tiled(n, tile) ==
  UNION {c0..((IF c0 + tile < n THEN c0 + tile ELSE n) - 1) :
           c0 \in {c \in 0..(n - 1) : c % tile = 0}}

\* tiled_transpose_colmajor; what no tile reaches would be lost.
Transposed(m) ==
  LET rows == Cardinality(DOMAIN m[0])
      cols == Cardinality(DOMAIN m)
  IN  [r \in 0..(rows - 1) |->
         [c \in 0..(cols - 1) |->
            IF r \in Tiled(rows, TileRows) /\ c \in Tiled(cols, TileCols) THEN m[c][r] ELSE Zero]]

\* One of the two calls goes on.
AxisStep == Next /\ UNCHANGED planeVars

\* The first call has returned: the second begins, in scratch memory.
TurnOver ==
  /\ plane # NoPlane /\ side = "columns" /\ phase = "done"
  /\ side' = "rows"
  /\ plan' = plane.second
  /\ input' = Transposed(data) /\ data' = input'
  /\ phase' = IF plan'.kernel = "cooleytukey" THEN "pre" ELSE "chunks"
  /\ stage' = 0 /\ next' = 0
  /\ whole' = (lost = {}) /\ lost' = {}
  /\ ping' = [w \in Workers |-> <<>>] /\ pong' = [w \in Workers |-> <<>>]
  /\ UNCHANGED <<plane, asked, task, step, trace>>

\* The second has returned: the result goes back to the caller's matrix.
TurnBack ==
  /\ side = "rows" /\ phase = "done"
  /\ phase' = "turned"
  /\ data' = Transposed(data)
  /\ UNCHANGED <<call, stage, work, planeVars>>

PlaneNext == AxisStep \/ TurnOver \/ TurnBack

PlaneSpec == PlaneInit /\ [][PlaneNext]_allVars

-----------------------------------------------------------------------------
\* Element r of column c of the two-dimensional transform, by its definition.
Dft2(r, c) ==
  LET p == plane.first
      q == plane.second
      Power(axis, k) == (IF axis.inverse THEN 1 ELSE -1) * k * (Order \div axis.N)
      Term(x, y) == Turned(plane.matrix[y][x], Power(p, x * r) + Power(q, y * c))
      Column(y) == Total([x \in 0..(p.N - 1) |-> Term(x, y)], p.N)
      sum == Total([y \in 0..(q.N - 1) |-> Column(y)], q.N)
  IN  Over(sum, (IF p.inverse THEN p.N ELSE 1) * (IF q.inverse THEN q.N ELSE 1))

(* The caller's matrix ends as its two-dimensional transform, its rows as     *)
(* rows and its columns as columns, whatever its shape, the kernels of the    *)
(* two plans and the tiles, if no column was given up on the way.             *)
PlaneTransformed ==
  (phase = "turned" /\ whole /\ lost = {}) =>
    /\ DOMAIN data = 0..(plane.second.N - 1)
    /\ \A c \in DOMAIN data :
         data[c] = [r \in 0..(plane.first.N - 1) |-> Dft2(r, c)]
=============================================================================
