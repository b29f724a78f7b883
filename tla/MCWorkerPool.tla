---------------------------- MODULE MCWorkerPool ----------------------------
(***************************************************************************)
(* Values of WorkerPool's constants for TLC.                               *)
(***************************************************************************)
EXTENDS WorkerPool, Sequences

Recovering == [restore |-> "set", ops |-> TRUE]
Callback   == [restore |-> "set", ops |-> FALSE]
EmptyFn    == [restore |-> "empty", ops |-> TRUE]   \* Cooley-Tukey's dispatches

\* One worker: an inline call, a recovering job, a plain job, a Cooley-Tukey job.
SoloChunks == <<1, 2, 2, 2>>
SoloKinds  == <<Recovering, Recovering, Plain, EmptyFn>>

\* Two workers and two dispatches.
PairChunks == <<2, 2>>
PairKinds  == <<Plain, Callback>>

\* Three workers and a single dispatch.
OneJob       == <<2>>
OneRecovering == <<Recovering>>
OnePlain     == <<Plain>>

None  == {}
First == {0}
Both  == {0, 1}
=============================================================================
