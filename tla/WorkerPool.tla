----------------------------- MODULE WorkerPool -----------------------------
(***************************************************************************)
(* eigfft::detail::WorkerPool (eigen_fft.hpp): a fleet of threads that     *)
(* drain one shared job.  The caller of parallel_for publishes the job     *)
(* under mutex_, wakes the fleet and sleeps until some worker's decrement  *)
(* of `pending` finds 1 and clears `active`.  Workers claim chunk indices  *)
(* with next.fetch_add and read the job's fields WITHOUT the mutex, so     *)
(* arming is modelled one store at a time.                                 *)
(*                                                                         *)
(* mutex_ : only an arming caller keeps it over several steps, so it is    *)
(* held exactly when `Locked`; every other critical section is one action  *)
(* guarded by ~Locked.  cv_job_ and cv_done_ : a thread that waits in vain *)
(* goes to "asleep" and moves again only after a notification (no lost     *)
(* wake-up is assumed away).                                               *)
(***************************************************************************)
EXTENDS Naturals, Integers, FiniteSets

CONSTANTS
  Hardware,    (* std::thread::hardware_concurrency()                      *)
  MaxJobs,     (* bound: number of dispatches of a behaviour               *)
  JobChunks,   (* JobChunks[j]: chunk_count of the j-th dispatch           *)
  JobKind,     (* JobKind[j]: which hooks the j-th dispatch carries        *)
  Retries,     (* EIGFFT_JOB_RETRY_COUNT                                   *)
  DropChunks,  (* chunk indices the debug dropout selects                  *)
  RandomDrop,  (* a probabilistic dropout rate is configured               *)
  Persistent,  (* WorkerPoolDebug::persistent_mode                         *)
  MaxThrows    (* bound: exceptions thrown by job callables                *)

\* The plain form carries nothing; the _ex form always stores a callback
\* object, which may be an empty std::function, and hooks or none.
Plain == [restore |-> "none", ops |-> FALSE]
Kinds == {Plain} \cup [restore : {"empty", "set"}, ops : BOOLEAN]

ASSUME PoolAssumption ==
  /\ Hardware \in Nat \ {0}
  /\ MaxJobs \in Nat \ {0}
  /\ JobChunks \in [1..MaxJobs -> Nat]
  /\ JobKind \in [1..MaxJobs -> Kinds]
  /\ Retries \in Nat
  /\ DropChunks \subseteq Nat
  /\ RandomDrop \in BOOLEAN
  /\ Persistent \in BOOLEAN
  /\ MaxThrows \in Nat

Workers == 0..(Hardware - 1)
Jobs == 1..MaxJobs
NoJob == 0                    \* a null job_.fn

\* The state of a chunk's columns: untouched input, half transformed,
\* transformed once, transformed from anything but the input.
Data == {"in", "dirty", "out", "bad"}

VARIABLES
  fn,           (* job_.fn: the published callable, by job number          *)
  onFailure,    (* job_.on_failure: null, an empty std::function, or set   *)
  hooks,        (* job_.ops and job_.job_ctx: whose hooks are published    *)
  chunkCount,   (* job_.chunk_count                                        *)
  next,         (* job_.next                                               *)
  pending,      (* job_.pending                                            *)
  active,       (* job_.active                                             *)
  stop,         (* stop_                                                   *)
  workerCount,  (* worker_count_                                           *)
  callerPc,     (* where the calling thread is                             *)
  jobNo,        (* number of the caller's current, or last, dispatch       *)
  cursor,       (* the caller's chunk in an inline dispatch                *)
  workerPc,     (* where each worker thread is                             *)
  index,        (* drain_chunks' local index                               *)
  local,        (* drain_chunks' local copy of fn                          *)
  attempt,      (* drain_chunks' local attempt                             *)
  woke,         (* history: jobNo when the worker last left cv_job_        *)
  dropped,      (* WorkerPoolDebug::dropped_once()                         *)
  throws,       (* number of exceptions thrown so far                      *)
  data,         (* data[j][i]: the columns of chunk i of job j             *)
  snap,         (* snap[j][i]: their snapshot, or "none"                   *)
  claims,       (* history: how often chunk i of job j was taken up        *)
  lost          (* history: chunks given up after the retries              *)

jobVars    == <<fn, onFailure, hooks, chunkCount, next, pending, active>>
callerVars == <<callerPc, jobNo, cursor>>
workerVars == <<workerPc, index, local, attempt, woke>>
chunkVars  == <<dropped, throws, data, snap, claims, lost>>
vars == <<jobVars, stop, workerCount, callerVars, workerVars, chunkVars>>

Indices == 0..(IF \A j \in Jobs : JobChunks[j] = 0 THEN 0
               ELSE CHOOSE m \in {JobChunks[j] - 1 : j \in Jobs} :
                      \A j \in Jobs : JobChunks[j] - 1 <= m)

Started == 0..(workerCount - 1)
Locked  == callerPc \in {"armRange", "armNext", "armActive"}

\* Threads that are not inside a dispatch: off, at or in cv_job_.wait, gone.
Resting == {"off", "wait", "asleep", "exit"}

Goto(w, pc) == workerPc' = [workerPc EXCEPT ![w] = pc]

Init ==
  /\ fn = NoJob /\ onFailure = "none" /\ hooks = NoJob
  /\ chunkCount = 0 /\ next = 0 /\ pending = 0 /\ active = FALSE
  /\ stop = FALSE /\ workerCount = 0
  /\ callerPc = "idle" /\ jobNo = 0 /\ cursor = 0
  /\ workerPc = [w \in Workers |-> "off"]
  /\ index = [w \in Workers |-> 0]
  /\ local = [w \in Workers |-> NoJob]
  /\ attempt = [w \in Workers |-> 0]
  /\ woke = [w \in Workers |-> 0]
  /\ dropped = {} /\ throws = 0
  /\ data = [j \in Jobs |-> [i \in Indices |-> "in"]]
  /\ snap = [j \in Jobs |-> [i \in Indices |-> "none"]]
  /\ claims = [j \in Jobs |-> [i \in Indices |-> 0]]
  /\ lost = {}

-----------------------------------------------------------------------------
(* The calling thread.                                                     *)

\* reset(threads): grows the fleet up to the hardware; never shrinks it.
Reset(threads) ==
  /\ callerPc = "idle" /\ ~stop
  /\ threads > workerCount /\ threads <= Hardware
  /\ workerCount' = threads
  /\ workerPc' = [w \in Workers |->
                    IF w \in Started \/ w >= threads THEN workerPc[w] ELSE "wait"]
  /\ UNCHANGED <<jobVars, stop, callerVars, index, local, attempt, woke, chunkVars>>

\* parallel_for / parallel_for_with_restore_ex is entered: run the chunks on
\* this thread when there is no fleet or at most one chunk, else arm the job.
Call ==
  /\ callerPc = "idle" /\ ~stop /\ jobNo < MaxJobs
  /\ jobNo' = jobNo + 1
  /\ cursor' = 0
  /\ callerPc' = IF workerCount = 0 \/ JobChunks[jobNo + 1] <= 1
                   THEN "inline" ELSE "armFn"
  /\ UNCHANGED <<jobVars, stop, workerCount, workerVars, chunkVars>>

\* wrapped(start, end, 0) in the inline loop: no dropout, no retry; an
\* exception leaves the loop (and the finalize hook) and reaches the caller.
InlineChunk ==
  /\ callerPc = "inline" /\ cursor < JobChunks[jobNo]
  /\ snap' = IF JobKind[jobNo].ops THEN [snap EXCEPT ![jobNo][cursor] = data[jobNo][cursor]]
             ELSE snap
  /\ claims' = [claims EXCEPT ![jobNo][cursor] = @ + 1]
  /\ \/ /\ data' = [data EXCEPT ![jobNo][cursor] = "out"]
        /\ cursor' = cursor + 1
        /\ UNCHANGED <<callerPc, throws>>
     \/ /\ throws < MaxThrows
        /\ throws' = throws + 1
        /\ data' = [data EXCEPT ![jobNo][cursor] = "dirty"]
        /\ callerPc' = "idle"
        /\ UNCHANGED cursor
  /\ UNCHANGED <<jobVars, stop, workerCount, jobNo, workerVars, dropped, lost>>

InlineReturn ==
  /\ callerPc = "inline" /\ cursor = JobChunks[jobNo]
  /\ callerPc' = "idle"
  /\ UNCHANGED <<jobVars, stop, workerCount, jobNo, cursor, workerVars, chunkVars>>

\* Arming, first store: the callable and the restore callback.  mutex_ is
\* taken here and kept until ArmActive.  The _ex form stores a non-null
\* pointer even when restore_fn is an empty std::function.
ArmFn ==
  /\ callerPc = "armFn"
  /\ fn' = jobNo
  /\ onFailure' = JobKind[jobNo].restore
  /\ callerPc' = "armRange"
  /\ UNCHANGED <<hooks, chunkCount, next, pending, active, stop, workerCount,
                 jobNo, cursor, workerVars, chunkVars>>

\* job_.total, job_.chunk and job_.chunk_count.
ArmRange ==
  /\ callerPc = "armRange"
  /\ chunkCount' = JobChunks[jobNo]
  /\ callerPc' = "armNext"
  /\ UNCHANGED <<fn, onFailure, hooks, next, pending, active, stop, workerCount,
                 jobNo, cursor, workerVars, chunkVars>>

\* Mutant: the claim counter keeps the value the previous job left.
ArmNextForgotten ==
  /\ callerPc = "armNext" /\ callerPc' = "armActive"
  /\ UNCHANGED <<jobVars, stop, workerCount, jobNo, cursor, workerVars, chunkVars>>

\* job_.next.store(0).
ArmNext ==
  /\ callerPc = "armNext"
  /\ next' = 0
  /\ callerPc' = "armActive"
  /\ UNCHANGED <<fn, onFailure, hooks, chunkCount, pending, active, stop, workerCount,
                 jobNo, cursor, workerVars, chunkVars>>

\* Mutant: the first worker to leave ends the job.
ArmActiveForOne ==
  /\ callerPc = "armActive" /\ callerPc' = "notify"
  /\ pending' = 1 /\ active' = TRUE
  /\ hooks' = IF JobKind[jobNo].ops THEN jobNo ELSE hooks
  /\ UNCHANGED <<fn, onFailure, chunkCount, next, stop, workerCount, jobNo, cursor,
                 workerVars, chunkVars>>

\* pending, active, ops and job_ctx (the plain form stores no ops); ops.init
\* sizes the snapshots, still empty; the mutex is released.  One step: pending
\* and active are only used under the mutex, and hooks seen a moment earlier
\* are hooks whose snapshots are still empty, which do nothing.
ArmActive ==
  /\ callerPc = "armActive"
  /\ pending' = workerCount
  /\ active' = TRUE
  /\ hooks' = IF JobKind[jobNo].ops THEN jobNo ELSE hooks
  /\ callerPc' = "notify"
  /\ UNCHANGED <<fn, onFailure, chunkCount, next, stop, workerCount, jobNo, cursor,
                 workerVars, chunkVars>>

\* cv_job_.notify_all(), after the mutex is released.
NotifyAll ==
  /\ callerPc = "notify"
  /\ workerPc' = [w \in Workers |->
                    IF workerPc[w] = "asleep" THEN "wait" ELSE workerPc[w]]
  /\ callerPc' = "wait"
  /\ UNCHANGED <<jobVars, stop, workerCount, jobNo, cursor, index, local, attempt,
                 woke, chunkVars>>

\* Mutant: cv_done_.wait(lock) without its predicate.
AwaitDoneBlindly ==
  /\ callerPc = "wait" /\ callerPc' = "asleep"
  /\ UNCHANGED <<jobVars, stop, workerCount, jobNo, cursor, workerVars, chunkVars>>

\* cv_done_.wait(lock, !active) in vain.
AwaitDone ==
  /\ callerPc = "wait" /\ active
  /\ callerPc' = "asleep"
  /\ UNCHANGED <<jobVars, stop, workerCount, jobNo, cursor, workerVars, chunkVars>>

\* The wait is over: finalize drops the snapshots, the callbacks are cleared
\* under the mutex, and parallel_for returns.  One step: what matters to a
\* worker still in the job is whether the callable was cleared before or after
\* it loaded it, and hooks without snapshots do as little as no hooks.
ReturnToCaller ==
  /\ callerPc = "wait" /\ ~active
  /\ snap' = IF hooks = NoJob THEN snap
             ELSE [snap EXCEPT ![hooks] = [i \in Indices |-> "none"]]
  /\ fn' = NoJob
  /\ onFailure' = "none"
  /\ hooks' = NoJob
  /\ callerPc' = "idle"
  /\ UNCHANGED <<chunkCount, next, pending, active, stop, workerCount, jobNo, cursor,
                 workerVars, dropped, throws, data, claims, lost>>

\* Mutant: a single worker is told of the shutdown.
ShutdownNotifyOne ==
  /\ callerPc = "idle" /\ ~stop /\ callerPc' = "join"
  /\ stop' = TRUE /\ active' = FALSE
  /\ \E w \in Workers :
       workerPc' = [workerPc EXCEPT ![w] = IF @ = "asleep" THEN "wait" ELSE @]
  /\ UNCHANGED <<fn, onFailure, hooks, chunkCount, next, pending, workerCount,
                 jobNo, cursor, index, local, attempt, woke, chunkVars>>

\* shutdown(), from the destructor: raise stop_ under the mutex, wake everyone.
Shutdown ==
  /\ callerPc = "idle" /\ ~stop
  /\ stop' = TRUE
  /\ active' = FALSE
  /\ workerPc' = [w \in Workers |->
                    IF workerPc[w] = "asleep" THEN "wait" ELSE workerPc[w]]
  /\ callerPc' = "join"
  /\ UNCHANGED <<fn, onFailure, hooks, chunkCount, next, pending, workerCount,
                 jobNo, cursor, index, local, attempt, woke, chunkVars>>

\* ... and join: every thread of the fleet has returned from worker_loop.
Joined ==
  /\ callerPc = "join"
  /\ \A w \in Started : workerPc[w] = "exit"
  /\ workerCount' = 0
  /\ callerPc' = "gone"
  /\ UNCHANGED <<jobVars, stop, jobNo, cursor, workerVars, chunkVars>>

-----------------------------------------------------------------------------
(* A worker thread: worker_loop and drain_chunks.                          *)

\* cv_job_.wait(lock, stop_ || active): leave when stopping, go to work when
\* a job is active, sleep otherwise.
Wake(w) ==
  /\ workerPc[w] = "wait" /\ ~Locked
  /\ \/ stop /\ Goto(w, "exit") /\ UNCHANGED woke
     \/ ~stop /\ active /\ Goto(w, "claim") /\ woke' = [woke EXCEPT ![w] = jobNo]
     \/ ~stop /\ ~active /\ Goto(w, "asleep") /\ UNCHANGED woke
  /\ UNCHANGED <<jobVars, stop, workerCount, callerVars, index, local, attempt, chunkVars>>

\* Mutant: a load and a store instead of fetch_add, so an increment gets lost.
ClaimRacing(w) ==
  /\ workerPc[w] = "claim" /\ Goto(w, "check")
  /\ index' = [index EXCEPT ![w] = next]
  /\ next' \in {next, next + 1}
  /\ UNCHANGED <<fn, onFailure, hooks, chunkCount, pending, active, stop, workerCount,
                 callerVars, local, attempt, woke, chunkVars>>

\* index = next.fetch_add(1), without the mutex.
Claim(w) ==
  /\ workerPc[w] = "claim"
  /\ index' = [index EXCEPT ![w] = next]
  /\ next' = next + 1
  /\ Goto(w, "check")
  /\ UNCHANGED <<fn, onFailure, hooks, chunkCount, pending, active, stop, workerCount,
                 callerVars, local, attempt, woke, chunkVars>>

\* index >= job_.chunk_count ends the draining.
Check(w) ==
  /\ workerPc[w] = "check"
  /\ Goto(w, IF index[w] >= chunkCount THEN "leave" ELSE "load")
  /\ UNCHANGED <<jobVars, stop, workerCount, callerVars, index, local, attempt, woke, chunkVars>>

\* atomic_load(&job_.fn): a null callable also ends the draining.
Load(w) ==
  /\ workerPc[w] = "load"
  /\ local' = [local EXCEPT ![w] = fn]
  /\ attempt' = [attempt EXCEPT ![w] = 0]
  /\ Goto(w, IF fn = NoJob THEN "leave" ELSE "capture")
  /\ claims' = IF fn = NoJob THEN claims
               ELSE [claims EXCEPT ![fn][index[w]] = @ + 1]
  /\ UNCHANGED <<jobVars, stop, workerCount, callerVars, index, woke,
                 dropped, throws, data, snap, lost>>

\* ops.capture_chunk, before every attempt, on whatever context is published.
Capture(w) ==
  /\ workerPc[w] = "capture"
  /\ snap' = IF hooks = NoJob THEN snap
             ELSE [snap EXCEPT ![hooks][index[w]] = data[hooks][index[w]]]
  /\ Goto(w, "run")
  /\ UNCHANGED <<jobVars, stop, workerCount, callerVars, index, local, attempt, woke,
                 dropped, throws, data, claims, lost>>

\* The injected dropout may hit this attempt: by chunk index, or at random;
\* unless persistent_mode is on, at most once per chunk index.
MayDrop(i)  == (i \in DropChunks \/ RandomDrop) /\ (Persistent \/ i \notin dropped)
MustDrop(i) == MayDrop(i) /\ i \in DropChunks

\* Mutant: completion is signalled with the last chunk, not after the draining.
RunCompletesJob(w) ==
  /\ workerPc[w] = "run" /\ ~MustDrop(index[w]) /\ Goto(w, "claim")
  /\ data' = [data EXCEPT ![local[w]][index[w]] = IF @ = "in" THEN "out" ELSE "bad"]
  /\ active' = (active /\ index[w] + 1 # chunkCount)
  /\ UNCHANGED <<fn, onFailure, hooks, chunkCount, next, pending, stop, workerCount,
                 callerVars, index, local, attempt, woke, dropped, throws, snap, claims, lost>>

\* The callable returns: the chunk is transformed, once, from its input --
\* or a second time, or from a half-written buffer.
RunCompletes(w) ==
  /\ workerPc[w] = "run" /\ ~MustDrop(index[w])
  /\ data' = [data EXCEPT ![local[w]][index[w]] = IF @ = "in" THEN "out" ELSE "bad"]
  /\ Goto(w, "claim")
  /\ UNCHANGED <<jobVars, stop, workerCount, callerVars, index, local, attempt, woke,
                 dropped, throws, snap, claims, lost>>

\* Mutant: the one-shot dropout does not remember its victims.
RunDroppedAgain(w) ==
  /\ workerPc[w] = "run" /\ MayDrop(index[w]) /\ Goto(w, "failed")
  /\ UNCHANGED <<jobVars, stop, workerCount, callerVars, index, local, attempt, woke,
                 chunkVars>>

\* The dropout throws before the callable is entered.
RunDropped(w) ==
  /\ workerPc[w] = "run" /\ MayDrop(index[w])
  /\ dropped' = IF Persistent THEN dropped ELSE dropped \cup {index[w]}
  /\ Goto(w, "failed")
  /\ UNCHANGED <<jobVars, stop, workerCount, callerVars, index, local, attempt, woke,
                 throws, data, snap, claims, lost>>

\* The callable throws halfway.
RunThrows(w) ==
  /\ workerPc[w] = "run" /\ ~MustDrop(index[w]) /\ throws < MaxThrows
  /\ throws' = throws + 1
  /\ data' = [data EXCEPT ![local[w]][index[w]] = "dirty"]
  /\ Goto(w, "failed")
  /\ UNCHANGED <<jobVars, stop, workerCount, callerVars, index, local, attempt, woke,
                 dropped, snap, claims, lost>>

\* The buffer after a failed attempt: restore_range copies the snapshot back,
\* but only when a restore callback is published.
Restored(w) ==
  IF /\ onFailure = "set"
     /\ hooks # NoJob
     /\ snap[hooks][index[w]] # "none"
    THEN [data EXCEPT ![hooks][index[w]] = snap[hooks][index[w]]]
    ELSE data

\* Mutants: one retry too many; no restore once the retries are used up.
RecoverOnceMore(w) ==
  /\ workerPc[w] = "failed" /\ onFailure # "empty"
  /\ data' = Restored(w)
  /\ attempt' = [attempt EXCEPT ![w] = @ + 1]
  /\ \/ attempt[w] > Retries /\ Goto(w, "claim") /\ lost' = lost \cup {<<local[w], index[w]>>}
     \/ attempt[w] <= Retries /\ Goto(w, "capture") /\ UNCHANGED lost
  /\ UNCHANGED <<jobVars, stop, workerCount, callerVars, index, local, woke,
                 dropped, throws, snap, claims>>

RecoverUnlessLast(w) ==
  /\ workerPc[w] = "failed" /\ onFailure # "empty"
  /\ data' = IF attempt[w] < Retries THEN Restored(w) ELSE data
  /\ attempt' = [attempt EXCEPT ![w] = @ + 1]
  /\ \/ attempt[w] >= Retries /\ Goto(w, "claim") /\ lost' = lost \cup {<<local[w], index[w]>>}
     \/ attempt[w] < Retries /\ Goto(w, "capture") /\ UNCHANGED lost
  /\ UNCHANGED <<jobVars, stop, workerCount, callerVars, index, local, woke,
                 dropped, throws, snap, claims>>

\* Restore, then retry or give the chunk up after Retries retries.
Recover(w) ==
  /\ workerPc[w] = "failed" /\ onFailure # "empty"
  /\ data' = Restored(w)
  /\ attempt' = [attempt EXCEPT ![w] = @ + 1]
  /\ IF attempt[w] + 1 > Retries
       THEN /\ lost' = lost \cup {<<local[w], index[w]>>}
            /\ Goto(w, "claim")
       ELSE /\ Goto(w, "capture")
            /\ UNCHANGED lost
  /\ UNCHANGED <<jobVars, stop, workerCount, callerVars, index, local, woke,
                 dropped, throws, snap, claims>>

\* (*restore_cb)(start, end) on an empty std::function throws bad_function_call
\* outside any try block: std::terminate ends the process.
Terminate(w) ==
  /\ workerPc[w] = "failed" /\ onFailure = "empty"
  /\ callerPc' = "aborted"
  /\ workerPc' = [v \in Workers |-> "exit"]
  /\ UNCHANGED <<jobVars, stop, workerCount, jobNo, cursor, index, local, attempt, woke,
                 chunkVars>>

\* pending.fetch_sub(1) under the mutex; whoever finds 1 ends the job and
\* notifies the caller.
Leave(w) ==
  /\ workerPc[w] = "leave" /\ ~Locked
  /\ pending' = pending - 1
  /\ active' = (active /\ pending # 1)
  /\ callerPc' = IF pending = 1 /\ callerPc = "asleep" THEN "wait" ELSE callerPc
  /\ Goto(w, "wait")
  /\ UNCHANGED <<fn, onFailure, hooks, chunkCount, next, stop, workerCount, jobNo, cursor,
                 index, local, attempt, woke, chunkVars>>

-----------------------------------------------------------------------------
CallerStep ==
  \/ InlineChunk \/ InlineReturn
  \/ ArmFn \/ ArmRange \/ ArmNext \/ ArmActive \/ NotifyAll
  \/ AwaitDone \/ ReturnToCaller \/ Joined

\* One step inside drain_chunks.
DrainStep(w) ==
  \/ Claim(w) \/ Check(w) \/ Load(w) \/ Capture(w)
  \/ RunCompletes(w) \/ RunDropped(w) \/ RunThrows(w) \/ Recover(w)

WorkerStep(w) == Wake(w) \/ DrainStep(w) \/ Terminate(w) \/ Leave(w)

\* The process has ended: the pool is destroyed, or the runtime aborted it.
Ended == callerPc \in {"gone", "aborted"} /\ UNCHANGED vars

Next ==
  \/ \E n \in 1..Hardware : Reset(n)
  \/ Call \/ Shutdown
  \/ CallerStep
  \/ \E w \in Workers : WorkerStep(w)
  \/ Ended

\* Threads that can run are scheduled; whether the application calls again,
\* resizes the pool or destroys it is its own affair.
Fairness == WF_vars(CallerStep) /\ \A w \in Workers : WF_vars(WorkerStep(w))

Spec == Init /\ [][Next]_vars /\ Fairness

-----------------------------------------------------------------------------
JobTypeOK ==
  /\ fn \in Jobs \cup {NoJob}
  /\ onFailure \in {"none", "empty", "set"}
  /\ hooks \in Jobs \cup {NoJob}
  /\ chunkCount \in Nat /\ next \in Nat /\ pending \in Int
  /\ active \in BOOLEAN /\ stop \in BOOLEAN

CallerTypeOK ==
  /\ workerCount \in 0..Hardware
  /\ callerPc \in {"idle", "inline", "armFn", "armRange", "armNext", "armActive",
                   "notify", "wait", "asleep", "join", "gone", "aborted"}
  /\ jobNo \in 0..MaxJobs /\ cursor \in Nat

WorkerTypeOK ==
  /\ workerPc \in [Workers -> Resting \cup {"claim", "check", "load", "capture",
                                           "run", "failed", "leave"}]
  /\ index \in [Workers -> Nat]
  /\ local \in [Workers -> Jobs \cup {NoJob}]
  /\ attempt \in [Workers -> 0..(Retries + 1)]
  /\ woke \in [Workers -> 0..MaxJobs]

ChunkTypeOK ==
  /\ dropped \subseteq Nat /\ throws \in 0..MaxThrows
  /\ data \in [Jobs -> [Indices -> Data]]
  /\ snap \in [Jobs -> [Indices -> Data \cup {"none"}]]
  /\ claims \in [Jobs -> [Indices -> Nat]]
  /\ lost \subseteq (Jobs \X Nat)

TypeOK == JobTypeOK /\ CallerTypeOK /\ WorkerTypeOK /\ ChunkTypeOK

ChunksOf(j) == 0..(JobChunks[j] - 1)

\* The caller is inside a dispatch handed to the fleet and `active` says it
\* is over.
Released == callerPc \in {"wait", "asleep"} /\ ~active

\* A worker is between its wake-up and its decrement of `pending`.
Draining(w) == workerPc[w] \notin Resting

\* Late workers woke for an earlier dispatch than the current one and have
\* not yet decremented: they will decrement the counter of a job they may
\* never look at.
Late == {w \in Workers : Draining(w) /\ woke[w] # jobNo}

(* Whatever late or early decrements do to `pending`, `active` is cleared    *)
(* only after every chunk index of the current job has been handed out by    *)
(* next.fetch_add: parallel_for never returns with chunks nobody ever took.  *)
AllHandedOut == Released => next >= JobChunks[jobNo]

(* While indices remain to be handed out, `pending` exceeds the number of    *)
(* late workers, so late decrements alone can never end the job.             *)
LateCannotEnd ==
  active /\ next < chunkCount => Cardinality(Late) < pending

(* No chunk is taken up twice (FFTFREE_ASSERT_UNIQUE_CLAIMS).                 *)
UniqueClaims == \A j \in Jobs : \A i \in ChunksOf(j) : claims[j][i] <= 1

(* "At this point all workers have finished draining chunks": when the       *)
(* caller's wait is over, no worker is inside the job.                       *)
Barrier == Released => \A w \in Workers : ~Draining(w)

(* The callable is cleared under the mutex so that no worker sees a cleared  *)
(* fn while it can still enter the call site.                                *)
NoClearedFn == \A w \in Workers : workerPc[w] = "load" => fn # NoJob

(* An exception of the job never ends the process.                           *)
NeverAborts == callerPc # "aborted"

(* As long as a job's hooks and restore callback are published, every chunk  *)
(* of it outside a failed attempt holds its input or its result: no retry    *)
(* starts from a half-written buffer, no chunk is transformed twice.         *)
RestoredOrDone ==
  (hooks # NoJob /\ onFailure = "set") =>
    \A i \in ChunksOf(hooks) :
      data[hooks][i] \notin {"in", "out"} =>
        /\ data[hooks][i] = "dirty"
        /\ \E w \in Workers : /\ workerPc[w] = "failed"
                              /\ local[w] = hooks /\ index[w] = i

(* One-shot dropouts cost retries, never results: if callables themselves    *)
(* never throw, no chunk is given up.                                        *)
DropoutHarmless == (MaxThrows = 0 /\ ~Persistent) => lost = {}

(* Every dispatch returns, by itself or by ending the process.               *)
InDispatch == callerPc \in {"inline", "armFn", "armRange", "armNext", "armActive",
                            "notify", "wait", "asleep"}
DispatchReturns == InDispatch ~> ~InDispatch

(* The destructor terminates: no worker sleeps through shutdown.             *)
ShutdownJoins == (callerPc = "join") ~> (callerPc = "gone")

-----------------------------------------------------------------------------
(* What became of a chunk, for the caller: a half-written chunk is work in   *)
(* progress during its dispatch and the trace of an exception after it.      *)
Outcome(j, i) ==
  CASE <<j, i>> \in lost -> "lost"
    [] <<j, i>> \notin lost /\ data[j][i] \in {"out", "bad"} -> "done"
    [] <<j, i>> \notin lost /\ data[j][i] = "dirty" /\ ~(InDispatch /\ j = jobNo) -> "raised"
    [] OTHER -> "todo"

Abstract == INSTANCE Dispatch
  WITH phase <- IF InDispatch THEN "busy" ELSE IF callerPc = "aborted" THEN "dead" ELSE "idle",
       call <- jobNo,
       outcome <- [j \in Jobs |-> [i \in ChunksOf(j) |-> Outcome(j, i)]]

(* The pool is a bulk-synchronous dispatcher.                                *)
RefinesDispatch == Abstract!Spec
=============================================================================
