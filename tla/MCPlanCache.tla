---------------------------- MODULE MCPlanCache ----------------------------
(***************************************************************************)
(* Values of PlanCache's constants for TLC.                                *)
(***************************************************************************)
EXTENDS PlanCache, TLC

CONSTANTS t1, t2, a, b, k1, k2

TwoThreads == {t1, t2}
TwoSlots   == {a, b}
TwoKeys    == {k1, k2}
OneTwo     == k1 :> 1 @@ k2 :> 2
FirstKey   == {k1}
OneCopy    == k1 :> 1

ThreadSymmetry == Permutations(TwoThreads) \cup Permutations(TwoSlots)
=============================================================================
