------------------------------ MODULE Dispatch ------------------------------
(***************************************************************************)
(* What a caller of eigfft's job dispatchers may rely on, whatever thread  *)
(* does the work: a dispatch is one bulk-synchronous call.  Its chunks are *)
(* settled one by one while the call is in progress -- processed, or given *)
(* up after the retries -- and the call returns only once every chunk is   *)
(* settled, or raises the exception of one chunk that ran on the caller's  *)
(* own thread, leaving that chunk's successors alone.  Nothing touches a   *)
(* chunk of a call that has returned.                                      *)
(*                                                                         *)
(* JobDispatcher, InlineDispatcher and WorkerPool::parallel_for (all in    *)
(* eigen_fft.hpp) are meant to implement this.                             *)
(***************************************************************************)
EXTENDS Naturals

CONSTANTS
  MaxJobs,     (* bound on the number of dispatches of a behaviour         *)
  JobChunks    (* JobChunks[j]: how many chunks the j-th dispatch has      *)

VARIABLES
  phase,     (* "idle", "busy" with a call, or "dead": the process aborted *)
  call,      (* number of the current, or last, call; 0 before the first   *)
  outcome    (* outcome[j][i]: what became of chunk i of call j: "todo",   *)
             (* "done", "lost" or "raised"                                 *)

vars == <<phase, call, outcome>>

ChunksOf(j) == 0..(JobChunks[j] - 1)
Todo(i) == outcome[call][i] = "todo"

Init ==
  /\ phase = "idle"
  /\ call = 0
  /\ outcome = [j \in 1..MaxJobs |-> [i \in ChunksOf(j) |-> "todo"]]

\* A caller hands a new job to the dispatcher.
Begin ==
  /\ phase = "idle" /\ call < MaxJobs
  /\ phase' = "busy"
  /\ call' = call + 1
  /\ UNCHANGED outcome

\* One chunk of the call in progress is processed, or abandoned for good.
Settle(i, o) ==
  /\ Todo(i)
  /\ outcome' = [outcome EXCEPT ![call][i] = o]
  /\ UNCHANGED <<phase, call>>

\* The call returns normally: no chunk is left.
Return ==
  /\ phase = "busy"
  /\ \A i \in ChunksOf(call) : ~Todo(i)
  /\ phase' = "idle"
  /\ UNCHANGED <<call, outcome>>

\* The call raises the exception of chunk i: the chunks before it are done,
\* those after it are untouched.
Raise(i) ==
  /\ \A k \in ChunksOf(call) : Todo(k) <=> k >= i
  /\ outcome' = [outcome EXCEPT ![call][i] = "raised"]
  /\ phase' = "idle"
  /\ UNCHANGED call

\* An exception nobody can catch ends the process.
Abort ==
  /\ phase = "busy"
  /\ phase' = "dead"
  /\ UNCHANGED call
  /\ \E half \in SUBSET {i \in ChunksOf(call) : Todo(i)} :
       outcome' = [outcome EXCEPT ![call] =
                     [i \in ChunksOf(call) |-> IF i \in half THEN "raised" ELSE @[i]]]

Next ==
  \/ Begin
  \/ /\ phase = "busy"
     /\ \E i \in ChunksOf(call) : Raise(i) \/ \E o \in {"done", "lost"} : Settle(i, o)
  \/ Return
  \/ Abort

Spec == Init /\ [][Next]_vars
=============================================================================
