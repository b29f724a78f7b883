# fftfree: a verification project

fftfree is a header-only FFT core (`eigen_fft.hpp`) with a worker pool that runs its loops, a cache of
prepared plans (`plan_support.hpp`), a C API with single, batched and streaming entry points
(`fft_cffi.cpp`) and tools built on top of them. This directory holds TLA+ models of its control
logic, TLC configurations that check them on small instances, and proofs, checked by TLAPS, of the
results that should hold for instances of any size. All line numbers refer to the sources beside it.

Contents: 1 inventory, 2 hard behaviours, 3 modules and their code, 4 runs, 5 promises the code does
not keep, 6 proofs, 7 what is not modelled, 8 plan, 9 running it.

## 1. Inventory

### Parts that are modelled

| Part | State it keeps | Operations | What makes it correct |
|---|---|---|---|
| **Worker pool**, `WorkerPool` (`eigen_fft.hpp` 818-1419) | one shared job (callable, restore callback, hooks, chunk count, `next`, `pending`, `active`), `stop_`, the threads | `reset`, `parallel_for`, `parallel_for_with_restore(_ex)`, `shutdown`; `worker_loop`, `drain_chunks` in the threads | a dispatch is one bulk-synchronous call: each chunk is processed once or given up after its retries, from its input and never from half-written columns; the call returns, only afterwards, and nobody touches its chunks any more; shutdown joins |
| **Dropout injection**, `WorkerPoolDebug` (98-163) | rate, pattern, `persistent_mode`, `dropped_once` | setters; consulted at each attempt | a one-shot dropout costs a retry and never a result |
| **Column recovery**, `RecoveryOps` and `ColumnRecoveryJobContext` (`recovery_ops.hpp`, `eigen_fft.hpp` 352-470) | one snapshot per chunk | `init`, `capture_chunk`, `restore_range`, `finalize` | a retry starts from the columns the first attempt saw |
| **Plan cache**, `PlanCache` and `Token` (`plan_support.hpp` 317-632) | buckets of plans by key, `in_use` marks, the tokens | `get_plan`, `warm_audio_profiles`, release, move | a leased plan has one holder; no lease leaks; no plan keeps a pointer to a dead dispatcher; buckets do not pile up |
| **Plan arena**, `PlanEnvironment`, `PlanArena`, `Plan::Workspace` (`plan_support.hpp` 47-315, `eigen_fft.hpp` 605-666, 2000-2202) | the scratch vectors, the pointers and capacities published to the plan, the workspace's limits, pending and cached requests | `initialize`, `discard_plan`, `ensure`, `ensure_nd_buffer`, `reserve_advanced_workspace`, each of which may resize; the kernels' and the two-dimensional transform's calls of them | kernels index within the buffers and get the lanes they ask for; no request loses another one its buffers or the plan its threads |
| **Context**, `FftContext` (`fft_cffi.cpp` 40-82, 535-658, 1775-2032) | sizes, pad policy, pool, windows and whether calls apply them, overlap-add and normalisation flags | `fft_init(_ex)`, `fft_init_full(_v2)`, `fft_config_window(_custom)`, `fft_free` | window vectors are never shorter than what the calls read of them |
| **Batched transforms**, `fft_execute_batched`, `fft_execute_complex_batched` (701-1340) | one call's batch buffer, backup, ranges, restore counts, the list of persistent failures | frames of a signal, or their spectra, are transformed in batches, with recovery as ranges of frames on the pool, without it by one transform whose kernel may use the pool itself; samples are laid side by side or overlap-added | every frame they produce holds its transform, or untouched input where the pool gave it up, whatever failed elsewhere; half spectra are completed symmetrically; one call overlap-adds as a stream does; the call returns |
| **Streaming**, `fft_stream_push_pcm`, `fft_stream_push_spectrum` (1344-1742) | forward: sample buffer and offset; inverse: accumulator, norm, output queue | push, flush, reset, pending queries | any cutting of the signal into calls gives the same frames; the inverse emits each overlap-added sample once, in order |
| **FFT kernels**, Cooley-Tukey and Stockham (`eigen_fft.hpp` 2485-3101, 3227-3623; the butterfly, `butterfly_kernel.hpp`) | the columns in place; for Stockham a ping and a pong buffer per worker; the traces a call asked for | hooks before and after, permutation, stages, scaling, all dispatched in chunks of columns; snapshots, butterfly pairs and twiddle indices of every stage | the columns end as the transform of the mode, by its definition, however chunks meet workers; a trace accounts for what happened, value by value |
| **Two-dimensional transform**, `fft_inplace_2d` (`eigen_fft.hpp`) | the caller's matrix, a scratch matrix | the columns, a tiled transposition, the rows with a plan of their own, the transposition back | the matrix ends as its two-dimensional transform, whatever its shape and the tiles |
| **Grid tools** (`ft_tools.hpp`, `ft_tools_cffi.cpp`) | a working copy of a time-frequency grid, complex or polar, and its steps | one call refines, quantizes, boosts contrast, coarsens, and writes back | complex and polar entry points agree; rows and columns of the flat buffers do not leak into each other; the caller gets a signal on its own grid, or its buffers untouched |
| **Trace logger**, `TraceLogger` (`eigen_fft.hpp` 469-567, with `EIGFFT_TRACE_THREADS`) | thread-local buffers, a queue, a background thread, the run log | `log` on any thread, `run` in the background, the destructor at exit | messages stay in order, once each; what was pushed in time is written; the program can exit |

### Parts that are not, or not for themselves

Plan construction, the butterflies nothing selects and their registry, the metadata beyond the stage
traces, window shapes, single-frame transform and channel copies, phase inference and Griffin-Lim, prepared transforms, crash
handler, demo programs, Python tools, tests and build files. `PROJECT.json` gives the reason for each;
section 7 the larger ones.

### How the parts interact

A *context* of the C API owns a plan cache and, if it allows outer parallelism, a worker pool.
`fft_stream_push_pcm` calls `fft_execute_batched` on a copy of the samples of the frames it wants
and consumes from its buffer what that call produced; `fft_stream_push_spectrum` calls
`fft_execute_complex_batched` and overlap-adds the result. `fft_execute_batched` takes a token from the
cache and installs a dispatcher from its own stack in the plan, which runs the kernel's chunks of columns inline or on
the pool (shared path), or hands the pool a
list of *ranges* of frames, each worker taking a token of its own (recovery path). Every plan has an arena
of its own, which the kernels size before they dispatch. A kernel runs its
loops through the plan's dispatcher: inline, or on the pool, with snapshot hooks (Cooley-Tukey) or
without (Stockham). The pool calls back into all of them: the callable, the hooks, and the restore
callback, on its own threads. An application joins the two streaming entry points itself: it keeps a forward
and an inverse context, hands the frames of the one to the other, and resets both together. The grid tools
stand alone, between the two if the application wishes. The trace logger is a static object that any thread may use
until the program exits.

## 2. Hard behaviours

* **Interleaving.** Workers claim indices and read the job's fields without the mutex, while the
  caller arms the next job store by store. A worker that is late, left over from an earlier dispatch,
  decrements the counter of a job it may never look at; a worker that is fast wakes twice for one job.
* **Partial failure.** A chunk fails halfway through its columns; it is restored and retried while
  the other chunks run in the same buffer. Failures are counted in two places, the pool and the
  coordinator of a batch, each with its own idea of when to give up. Without the coordinator, on the shared
  path, nobody hears of a chunk the pool gave up.
* **Lifetime.** A cached plan outlives the dispatcher that was installed in it; tokens move; plan
  construction throws halfway through filling a bucket.
* **Long sequences of legal calls.** Streams: pieces of any size, limits, failed calls, flushes, resets,
  settings changed in the middle, on two handles at once. Plans: requests that grow and shrink the same arena.
* **The end of the program.** The logger's destructor lowers a flag and notifies outside the mutex, while
  its thread may be between the look at the flag and the wait, or hold messages it has not yet written.
* **Boundaries.** The last chunk, the last batch, the trailing partial frame, a hop longer than the
  window, odd and even numbers of stages, workers beyond the capacity of the scratch arena, blocks of a grid
  that do not fill up.

`PROJECT.json` lists 40 such places under `hazards`, each with the properties that watch it, or the
reason why none does yet.

## 3. Modules and their code

| Module | Models | Remarks |
|---|---|---|
| `Dispatch` | what `JobDispatcher::parallel_for` promises | abstract specification: a call is in progress, chunks are settled one by one |
| `WorkerPool`, `MCWorkerPool`, `WorkerPoolProofs` | `WorkerPool`, dropouts, recovery hooks | refines `Dispatch` for one worker |
| `PlanCache`, `MCPlanCache`, `PlanCacheProofs` | `PlanCache`, `Token`, installation of a stack dispatcher | |
| `PlanArena`, `MCPlanArena`, `PlanArenaProofs` | the scratch memory of a plan and every request that resizes it | one plan, one thread: `PlanCache` makes leases exclusive |
| `Framing` | frame counts and pad modes | shared by the next two |
| `Context`, `ContextProofs` | the context and its windows | extended by the next two, which the proofs cover too |
| `BatchedTransform` | `fft_execute_batched`, `fft_execute_complex_batched` | takes the pool at its word |
| `Resynthesis`, `MCBatchedTransform` | composes `BatchedTransform` with `StreamInverse`: their overlap-adds agree | the run of all batches |
| `FrameStream` | what a streaming STFT promises | abstract specification |
| `StreamForward`, `StreamProofs` | `fft_stream_push_pcm`, `fft_stream_reset` | refines `FrameStream`; the proofs cover the next two as well |
| `StreamInverse` | `fft_stream_push_spectrum`, `fft_config_window`, `fft_stream_reset` | |
| `StreamRoundTrip` | composes the two: one application with a forward and an inverse context | the run of all three |
| `Cyclotomic` | complex arithmetic, exactly | external: `std::complex` |
| `FftKernels`, `MCFftKernels` | both kernels, the hooks around them, the traces they write | |
| `FftPlanes`, `MCFftPlanes`, `KernelProofs` | what `fft_inplace_2d` computes, over `FftKernels` | its scratch memory is in `PlanArena`; the proofs are about both modules |
| `GridTools`, `MCGridTools` | `ft_apply_complex_pipeline`, `ft_apply_polar_pipeline` and what they call | proofs in the next |
| `TraceLogger`, `ToolProofs` | the trace logger | the proofs are about both tools, logger and grids |
| `Induction` | | lemmas the proofs share: induction over the naturals, for sets, and division |

**WorkerPool.** `callerPc` and `workerPc` say where each thread is. `mutex_` is kept over several steps
only by the caller while it arms a job (`Locked`); each other critical section is one action guarded
by `~Locked`. What a worker does without the mutex is one action per shared access: `Claim`
(`next.fetch_add`), `Check` (against `chunk_count`), `Load` (the callable), `Capture`, the attempt
(`RunCompletes`, `RunDropped`, `RunThrows`), `Recover`. A thread that waits in vain is "asleep" until a
notification: a lost wake-up would be a deadlock or a liveness error. A chunk's columns are "in",
"dirty" (an attempt broke off), "out" (transformed once from the input) or "bad" (transformed from
anything else). `woke`, `claims` and `lost` are history variables. Exceptions thrown by a callable
are bounded by `MaxThrows`, dispatches by `MaxJobs`; nothing else is bounded.

**PlanCache.** An entry is its key and its place in the bucket. Every public operation holds the
mutex from end to end and is one action; `ConstructionFails` is the exception half-way. `scoped`
and `unwinding` follow a thread that has installed a dispatcher from its stack: `LeaveScope` is the
end of the scope, by return or by exception, before the token is released. `Settings` is what a
configuration says beyond the key.

**PlanArena.** `vectors` are the lengths of what `PlanEnvironment` owns, `arena` the capacities the plan reads
and the extent of the memory its pointers name; a resize that moved a vector and forgot the pointers
would make them differ. The operators `Resized`, `Ensured`, `NdEnsured` and `Reserved` are the C++ functions
of those names, from memory to memory, because one call may resize twice. `Dispatch` is the
preparation every kernel makes; `FirstAxis` to `TransposeBack` are the steps of `fft_inplace_2d`, which holds
a scratch pointer over a second dispatch, on the same plan if the matrix is square.

**BatchedTransform.** A column holds input, a spectrum, or something broken. `phase` follows the call
through a batch. The pool appears through its promise, one worker per chunk and return when all are
done, together with what the coordinator sees of it: dropouts, `restore_cb` and its count, retries.
On the shared path (`Shared`) the chunks are `Lanes` columns each. Inline, `TransformShared` has them all. On the pool
each chunk is done (`SharedProcess`), or, with Stockham, dropped until the pool gives it up
without a word (`SharedDrop`), or given up because its worker has no slot in the arena (`SharedNoSlot`): the call copies
these columns out and counts their frames, and the history variable `abandoned` is all that knows. With Cooley-Tukey a failed attempt ends the process
(`SharedDies`, phase "dead"), because of the empty restore callback of section 5.
`SetPersistent` and `ClearDropped` are the switches an application uses between calls. A call with spectra is
a single batch that goes through the same steps, which the code writes out a second time
(`SpectraRounds`); what it gives out is, as in `StreamInverse`, the set of contributions each sample sums.
`Resynthesis` instantiates `StreamInverse` as a stream that has seen nothing and compares.

**Context.** `workers` is the size of the pool, 0 without one, `kernel` the one the shared path sets. A window vector is its length and the policy it was last normalised with. `Column` is what a
spectrum call makes of the bins it is given, element by element.

**StreamForward.** A sample is its position in the signal, so the buffer is an interval
`front .. back - 1` and `offset` the read position in it. A failed call of `fft_execute_batched`, or
one that ran out of memory, produces fewer frames than asked for.

**StreamInverse.** A sample is the set of contributions <<frame, index>> it sums, a norm the set of
contributions whose weights it sums. Shifting, zero-filling, queueing and draining are set and
sequence operations on these.

**StreamRoundTrip.** `Analyse` pushes into the forward context and records in `starts` where in the signal
each new frame begins; `Synthesise` hands the next frames, in order, to the inverse context, which is an
instance of `StreamInverse`; `ResetBoth` begins a new signal. Contributions <<frame, index>> then name samples of
the signal itself, which is what lets a property compare what comes out with what went in.

**FftKernels.** Elements are integer combinations of the powers of a root of unity (`Cyclotomic`), scaled
so that the division by N is exact: equality of results is equality of complex numbers, with no
rounding. One dispatch hands chunks to workers in any order; `stage` separates the dispatches of
Cooley-Tukey, `step` the stages a worker takes a Stockham chunk through in its own buffers. `trace` is what
the stages write into the caller's metadata: for each stage, column and element its value, the two
elements it was made of and the index of the twiddle. Cooley-Tukey traces one column or all, Stockham the first.
Sizes are powers of two, which the plan's constructor insists on; `Levels` is what the stages make of one column,
one after the other, and is what a schedule of chunks is measured against.

**FftPlanes.** `side` says which of the two calls of `fft_apply_axis` is in progress; each goes through the steps
of `FftKernels`. `TurnOver` and `TurnBack` are the transpositions, by the indices the tiles reach; an index none
reaches would be lost. A call on one axis alone is among the behaviours, so one run serves both modules.

**GridTools.** One call, one step per stage of its pipeline. The operators `Upsampled`, `Downsampled`,
`Quantized` and `Boosted` are the C++ functions; indices into the flat buffers are kept, because mixing up rows
and columns is the plausible error. The samples of a call lie on one line through zero: a complex sample is a
signed integer, a polar one a magnitude and half a turn or none, and the conversions lose what
`std::abs` and `std::arg` lose, the phase of zero. Samples are scaled so that every division is exact. Sums are
the loops of the code (`Added`, `Total`, `Mean`), as recursive functions.

**TraceLogger.** Each critical section and each access outside of one is a step: the flag `running_`, read and
written without the mutex, the push under it, the notification after it. A notification to a thread that does not
wait is lost. What is left in thread-local buffers at exit is lost too, as the class says (501-502).

## 4. Runs

Ten runs pass; each property has a mutant of a mapped definition (`PROJECT.json`, `mutants`; the
operators called *Mutant* in the modules) that makes TLC report it.

| Run | Instance | What it shows |
|---|---|---|
| `pool_solo` | 1 worker, or none yet; 4 dispatches: inline, recovering, plain, Cooley-Tukey (empty restore callback); random and indexed one-shot dropouts, 3 exceptions | the pool implements `Dispatch`, whose `Settle` and `Return` say that each chunk is processed once or given up, and all before the call returns |
| `pool_fleet` | 2 workers, 2 dispatches of 2 chunks, one index dropped once | no dispatch ends before its last index is handed out, one-shot dropouts lose nothing, dispatches return, shutdown joins |
| `pool_recovery` | 3 workers, 1 recovering dispatch, one dropout and 2 exceptions | each chunk is taken up once, no retry starts from a half-written buffer |
| `cache_leases` | 2 threads with 2 tokens each, 2 keys with minimum pools 1 and 2, one throwing construction; symmetric in threads and tokens | leases exclusive and accounted, no dangling dispatcher, bounded growth |
| `plan_arena` | plans of 3 configurations in an environment for up to 4 threads and 4 lanes on 2 hardware threads; packet steps 1, 3 and 5; square and oblong two-dimensional transforms; 4 advanced requests, one naming a slot that does not exist | indices stay within the buffers, the scratch pointer survives, lanes are as asked, no resize costs the plan threads |
| `batch_faults` | 8 sets of arguments for a context, some refused; both kernels, pools of none, 1 and 2 workers, one Stockham slot, chunks of 2 columns; 2 calls with signals below, at and above one batch of 3 frames, or with 1 or 3 spectra; with and without recovery; all pad modes; indices 0 and 2 dropped once or always, switched between calls; one exception | failures stay in their chunk, what is given up holds its input whole, one-shot dropouts lose no frame, windows reach as far as they are read, half spectra are mirrored, one call overlap-adds like a stream, the call returns or the process has ended |
| `stream_roundtrip` | plan length and window 3, hop 2; pieces of 0, 1, 2 and 5 samples, with and without a frame limit, any shortfall, 8 samples; frames handed over 0 to 2 at a time, output limits, both flush modes, failing transforms, `cola_mode` changing | the frames are those of the whole signal (refinement of `FrameStream`), none is owed that was not, the output is the overlap-add of the frames, each normalised by its own weights, and each output sample is the signal sample of its place |
| `kernels_both` | sizes 1, 2, 4 and 8; both directions, kernels, all modes, half spectra; every basis vector; 3 columns in 2 chunks on 3 workers, 2 Stockham slots; traces of the first column or of all; matrices of 2 by 2, 2 by 4 and 4 by 2, tiles of 3 by 3, each pair of kernels | columns end as the transform promised; Stockham stores a chunk whole or not at all; every traced value follows from the traced pair and twiddle of the stage before; a matrix ends as its two-dimensional transform |
| `grid_pipeline` | some 170 grids of 1 to 3 rows, empty and oversized ones; 6 resample plans, matching, matching by accident and not; 3 quantizers, 4 contrast settings; both entry points | the two forms compute one signal, rows that should not mix do not, time has no direction, results lie on the caller's grid |
| `trace_logger` | 2 threads, 5 messages each, 2 to a buffer, exit at any moment | order, no loss of what was pushed in time, the destructor returns |

**Bounds.** *Pool:* the hazards need one late and one current worker, hence two workers and two
dispatches; two chunks are the least that are not run inline; one dropped index plus exceptions
reach every outcome of the retry loop, and two retries are the code's constant. *Cache:* two threads
with two tokens give a lease, a competing lease, a move onto a valid and onto an empty token, and a
bucket that must grow. *Arena:* no step is bounded, the capacities bound themselves; configurations and
steps lie below, at and above the limits, and every request is met by arenas larger and smaller in
each dimension. *Batches:* three frames give a first, a middle and a last chunk, five a second,
shorter batch; on the shared path chunks of two columns make two chunks of three frames, a full and a partial one, and a batch of two runs inline;
contexts have sizes 2, 4 and 8, windows as long as the plan, shorter and longer, a hop of
their own or the window's. *Streams:* window and hop are coprime and their overlap is shorter than the hop, so all
residues of the read position occur; pieces are shorter and longer than the window; 8 samples are three
frames, so that a sample lies neither in the first nor in the last overlap, and the buffer is compacted in between.
*Kernels:* the transforms are linear in the
real and imaginary parts of their input (`store_polar` and `reduce_magnitude`, which are not, are left
out), so the basis vectors stand for all inputs; sizes 1 to 8 give 0 to 3 stages, even and odd
counts of buffer swaps; of three workers one has no slot; a side of 4 is a full tile of 3 and a
part of one. *Grids:* two or three rows and columns give a
first, a last and (in a row) a middle cell, odd lengths give short blocks under factors of 2 and 3. *Logger:* five messages
at two to a buffer are two full buffers and a rest, so one buffer can be in the background thread's hands, one in the queue.

**Stopping.** `CHECK_DEADLOCK FALSE` is set for the batches (calls are bounded by `MaxCalls`, and the process may end) and the
kernels, the grids (one call ends) and the logger (the program ends). Everywhere else TLC also checks that the system never stops: the pool ends
only in `Ended`, after shutdown or when the process has died.

**Fairness.** *Pool:* weak fairness of the caller's steps inside a dispatch and of each worker. The code
justifies it by running each on its own thread, which the operating system schedules; nothing is assumed
about the application, which may never call, resize or shut down, about which worker gets the mutex, or
about notifications beyond what `notify_all` and `notify_one` do. *BatchedTransform:* weak fairness of the
call's next step, which is the caller's own thread or the pool's; `CallReturns` lets a call end with the process, as
Cooley-Tukey's can. *TraceLogger:* weak fairness of the
background thread, whose timed wait ends, and of the destructor once called; nobody has to log or exit.
With `wait` in place of `wait_for` the destructor could hang, which is a mutant. The streams, the cache,
the arena and the grid tools have no liveness properties: their operations are single calls.

## 5. Promises the code does not keep

Two runs end in a violation, on purpose: they check what a comment or document says, and TLC shows
how the code departs from it (`PROJECT.json`, `findings`, with the quotations).

* `pool_barrier` (`eigen_fft.hpp` 959, "At this point all workers have finished draining chunks"): with
  two workers the caller is released while a worker is still inside the job. A worker that finds
  nothing to do decrements `pending`, wakes again while `active` is still set, finds nothing again, and
  decrements a second time in place of the worker that is busy.
* `kernels_half` (`README.md` 71, "Inverse expands correctly"): the Stockham kernel never runs the
  preparation that expands a half spectrum.

More promises are stated in the modules, each under its name, and fail when put as the `INVARIANT` of
the configuration given; they have no run of their own.

| Property | Module, configuration | What happens |
|---|---|---|
| `NoClearedFn` | `WorkerPool`, `pool_barrier.cfg` | consequence of the released caller: a worker with a valid index finds the callable cleared and drops the chunk in silence, against `eigen_fft.hpp` 960 |
| `NeverAborts` | `WorkerPool`, `pool_solo.cfg` | Cooley-Tukey passes an empty `std::function` as restore callback (2877, 3046); after a failed attempt the pool calls it outside any `try` and the process ends, against the containment announced at 1249; `batch_faults` has the same end as `SharedDies` |
| `UniqueClaims` | `WorkerPool`, `pool_fleet.cfg` | a late worker's `fetch_add` falls between the dispatches and its comparison after the counter was reset: one chunk is taken twice, the case `fft_cffi.cpp` 892 reports as a failed assertion |
| `AsConfigured` | `PlanCache`, `cache_leases.cfg` with `Settings = {"c2c", "r2c"}` | the key leaves out transform, half spectrum, polar and radix settings: `get_plan` returns a plan built for another configuration. Every context of the C API has a cache of its own and one configuration, so only users of the C++ class are hit |
| `CachedRequestsMet` | `PlanArena`, `plan_arena.cfg` | a request for more lanes is granted and cached; a later one shrinks the lanes; the first, asked again, is granted unseen, against `eigen_fft.hpp` 2136 ("Returns true if the Plan (PlanArena) meets the request") |
| `SlotForEveryWorker` | `PlanArena`, `plan_arena.cfg` | a resize sizes the arena for the hardware's threads, fewer than an inner pool of more workers was promised; `eigen_fft.hpp` 3381 then throws for the extra worker |
| `HopAligned` | `StreamForward`, `stream_roundtrip.cfg` with `Window = 1` | with a hop longer than the window, `stream_compact` forgets the samples still to be skipped |
| `FlushDelivers` | `StreamForward`, `stream_roundtrip.cfg` | the forward stream only prints `flush_mode` |
| `PadsLast` | `BatchedTransform`, `batch_faults.cfg` | the frame count includes full frames only, so a trailing partial frame is left out, against `fft_cffi.hpp` 166 ("1=pad last"); `tools/ft_tools_pipeline.py` 264 counts on it |
| `ProducedAreTransformed` | `BatchedTransform`, `batch_faults.cfg` | an aborted batch is copied out and counted as produced, and so is a chunk that the pool gave up on the shared path (`fft_cffi.cpp` 808-828), against the count `fft_cffi.hpp` 164 announces |
| `NullLeavesUnchanged` | `Context`, `batch_faults.cfg` with `Policies = {"none", "L2"}` | a null window is normalised again, against "NULL to indicate unchanged" (`fft_cffi.hpp` 338) |
| `SwallowedAreRestored` | `BatchedTransform`, `batch_faults.cfg` | the worker swallows the exception, so the pool sees a success and nobody restores |

Found by reading alone: a spectrum call whose shared path fails announces to "fall back to recovery path"
(`fft_cffi.cpp` 1160), whose condition is the negation of the one that led to the shared path: it
returns 0. With a hop longer than the plan, its overlap-add cuts off the frames that end beyond
frames times plan size, where the stream goes on. The comment on R2R at `eigen_fft.hpp` 1947 ("imag cleared both pre and post") has
no counterpart in either hook, which is why `TransformsCorrectly` leaves R2R out. The workers of the recovery
paths lease plans of their own and never call `use_kernel` (896, 1220), so with
recovery on a context made for Stockham transforms frames with the default kernel.

## 6. Proofs

The theorems hold for every value of the constants that satisfies the modules' `ASSUME`s: any number of
threads, jobs, chunks, retries, tokens, keys, samples, frames, columns. The assumptions only give types and exclude
empty windows, hops and fleets, and sizes of plans that are not powers of two, which the code refuses. A grid is as many
numbers as its two dimensions say, for which the C interface takes its caller's word.

**WorkerPoolProofs**, the threads (`TypeCorrect`, `LateNeverEnds`, `ReturnsAfterHandOut`, `SoloBarrier`,
`OneShotDropoutHarmless`). That `active` is cleared only after all indices are handed out is not obvious,
because `pending` counts wake-ups and late workers decrement a counter that was not armed for them.
The argument is a count. While indices remain, `pending` is greater than the number of late workers
(`LateCannotEnd`): when a job is armed, `pending` is the size of the fleet and at least one worker is at
rest (`SomeoneRests`); afterwards only a late worker can decrement, and it ceases to be late, because a
worker that woke for this job leaves only after it has seen the indices run out (`FreshInv`). `CallerInv`
and `WorkerInv` tie the program counters to the job's fields; the conjunction `IInv` is inductive. With
a single worker the same invariant gives the barrier that fails for two. Dropouts need one more fact:
an index was dropped at most once, so a worker that retries it is past its dropout and never uses up
its retries.

**WorkerPoolProofs**, the chunks (`NobodyLateClaimsUnique`, `NobodyLateRestores`, `SoloIsBulkSynchronous`). A late worker
can take up a chunk that another one has (section 5), so what is promised about chunks is false in general. The hypothesis
`NobodyLate`, one worker or one dispatch, is where the promise starts to hold: in a first dispatch of any fleet nobody is left
over from an earlier one, and a single worker is never late when a job is armed. Under it, `ClaimInv` says that workers
in the loop belong to the current job (`OnTime`), that no two have the same index (`IndicesApart`) and that indices not yet handed
out name untouched chunks (`AheadFresh`); then each is claimed once. `WorkInv` adds what a worker knows of its own chunk,
by its program counter, and that chunks behind the counter and in nobody's hands are settled. For the refinement one more step is
needed: the caller cannot return before a single worker is out of the loop, so the table of outcomes is complete when
`Dispatch` returns. With more workers the caller may return early (`pool_barrier`) and there is no refinement to prove.

**PlanCacheProofs** (`LeasesAreExclusive`, `LeasesAreAccounted`, `NoDanglingDispatcher`, `BucketsAreBounded`). `LeaseInv` adds to the two properties
that tokens have their type, that a bucket of size n holds exactly the entries 0 to n - 1, and that every
entry in use exists; the last two make sure that growing a bucket never reuses a held entry. There is a
lemma per operation; the moves, which first release what the target holds, are the long one. `NoDangling` is too
weak to be inductive, because it forgets whose the dispatcher is: `DispatcherHeld` says that a plan with a
thread's dispatcher is in the hands of that very thread, which is in the scope or unwinding, so the release that
resets the plan comes first. `BoundedGrowth` needs a count: a bucket grows only when all its entries are in
use, and exclusive leases map them one to one to tokens (`FullBucket`), so one lease more is a new peak.

**PlanArenaProofs** (`KernelsStayInBounds`, `ScratchIsKept`, `DispatchGetsItsLanes`, `NoResizeCostsThreads`). The invariant `Fits` says that
the vectors have exactly the threads, lanes and elements the arena promises, that the plan's workspace lies within the arena, and
that the arena has at least the threads the plan may use. Every resizing function, as an operator from memory to memory, serves: it
keeps this and costs the plan no thread; the actions are chains of such functions.
The scratch pointer survives because no dispatch, the row plan's included, changes the length of the n-dimensional
vector. The arithmetic of products (threads times lanes times size) is in lemmas about monotonicity.

**ContextProofs**, the windows (`NoReadPastWindows`). `WindowsCover` is not inductive by itself: a reconfigured window may
be shorter than the plan, and is safe only because it is no longer applied. `ContextInv` says that applied
windows have exactly the plan's size: `fft_init_full_v2` makes them so, and every other operation that
touches a window clears `enabled`. `OnlyConfigure` shows that no step of a call changes the context.

**ContextProofs**, the calls (`FailuresStayContained`, `OneShotAlwaysRecovers`, `HalvesMakeReals`). `FailureInvariant` relates a column to
the history of its chunk: which attempts it has had, whether the pool or the coordinator has given up, what it counts. A chunk is
spoilt only by its own failures. That one given up holds its input, and not a spectrum, needs a look ahead: the coordinator notes a
failure at the last but one attempt, so `RoundInv` says of a noted chunk that is not finished that its next attempt will be dropped
as well. `PastInv` keeps the histories to frames of this and earlier batches. An index that was dropped once is never
retried into a second dropout; that this saves every chunk of the shared path too supposes a slot for every worker (`Slotted`). That half spectra
are mirrored is a fact about the operator `Column` for sizes that are 1 or even (`Halves`), and plans have only such sizes,
powers of two; `NextPowerIs` shows that rounding up always finds one.

**ContextProofs**, one call and a stream (`OneCallIsAStream`), for hops not longer than the plan. The call adds a frame
to the whole signal; the stream adds it to an accumulator of one plan's length, queues a hop and shifts. Both are followed frame by
frame: `Contributions(m, h, t)` are the pairs of frame and index that meet at sample t after m frames, `AfterSome` says that the stream's queue and
accumulator hold these, the last frame being flushed whole, and `PcmInv` that the call still holds what it added up on the context it
was made with.

**StreamProofs**, forward (`FramesAreHopAligned`, `StreamOwesTheRest`, `StreamDelivers`), for hops not longer than the window. The
invariant `Aligned` says that the read position, `front + offset`, is the first sample of the next frame,
`delivered * Hop`. `FramesFit` is the arithmetic behind `stream_available_frames`: that many frames
lie within the samples. `StreamDelivers` is the refinement of `FrameStream`: initial states map to
initial states, each push or reset to a step of the promise or a stutter. `StreamOwesTheRest` follows from `Aligned`:
the backlog starts where the next frame does. Without the hypothesis it is
false (section 5).

**StreamProofs**, inverse and round trip (`OutputIsOverlapAdd`, `NormsAreOfTheirSamples`, `FlushLeavesNothing`, `SignalComesBack`). The
invariant gives every sample in the accumulator, in the queue and already given out the exact set of contributions it
must sum, by its place in the stream. A push adds frames in a loop, which is a recursive function in the model;
that the loop does the same for any number of frames is an induction over the frames. `SignalComesBack` combines both streams: as
the analysis began frame k at sample k * Hop of the signal and the synthesis adds it at k * Hop of its
output, each output sample sums contributions of one signal sample, its own, across resets, partial outputs and flushes.

**KernelProofs** (`StockhamStoresWhole`, `TracesExplain`, `ScheduleDoesNotMatter`), for calls on one axis and for both calls of a
two-dimensional transform. `KernelInv` says of each column how many stages it has been through (`Depth`), as a function of the phase,
of whether its chunk has been given back (`Gone`) and of how far its worker is, and that its elements, in
`data` or in the buffers of that worker's slot, are its `Levels` at that depth; the trace has exactly the entries below it.
There is a lemma per step. `ScheduleDoesNotMatter` is what a dispatcher may rely on: the result is a function of input and
plan, column by column, and a column is given up only if there are fewer slots than threads, and then keeps its input.
`TracesExplain` adds the index arithmetic of a stage: `StagedExplained`, `ScatteredExplained` and `TwiddleAt` find, for
every size and stage, the two elements and the place in the table of twiddles an index stands for, from laws of powers of two
and of division that are proved first.

**KernelProofs**, the transform (`StagesAreFourier`, `TransformsAreFourier`, `CallsAreFourier`, `PlanesAreFourier`): the stages
of both kernels are the discrete Fourier transform, for every power of two and for columns of any numbers. Both are
followed through their stages by an invariant of one column: before stage s, Stockham has sorted 2^s interleaved transforms by frequency
(`Autosorted`), Cooley-Tukey has adjacent blocks of 2^s, each the transform of the elements that the reversal of its place begins
(`Bitsorted`). `Sub` is such a transform of every `st`-th element; a butterfly joins two to one of twice the length (`ButterflyJoins`).
The permutation of bits is followed bit by bit (`ReverseNext`). The numbers are integer
combinations of roots of unity, so what has to be known of them are laws of `Plus` and `Turned`; that the division
by N loses nothing is an invariant of its own (`ExactInput`), inputs being multiples of it. For the modes
it is shown that the preparation expands a half spectrum to a mirrored one (`MirroredIs`), and that the spectrum of real numbers is real at
frequency 0 and at the highest (`RealBins`). In two dimensions `PlaneData` says that after the first axis the scratch
memory holds what it made of each column (`RowOf`), and `TwoAxes` that the two transforms, each with its division, are one sum over both.

**ToolProofs**, the trace logger (`MessagesStayInOrder`). A thread's messages move from its own buffer to the queue, to the background
thread's hands and to the file; the invariant says that these four, put one after the other, are the thread's messages in the order logged,
because at most one hand holds them at any moment. Flattening a sequence of buffers is what needs induction.

**ToolProofs**, the grids (`FormsAlwaysAgree`, `CallerGetsItsGrid`, `RowsStayApart`, `TimeHasNoDirection`), for grids, factors and
configurations of any size. The invariant `GridStages` says that the field in work is as many operators of `Piped` into
the pipeline as the step tells, so the four properties are facts about the composition `Piped`; each operator is first given cell by cell, free of
its loops over the flat buffer. `Forms` relates a polar field to a complex one of the same signal;
each operator keeps the relation except that a booster may lift a magnitude from zero, whose phase the complex form has lost
(`KeepsDark` excludes it where a quantizer follows). `Rerowed(g, h, r)` says that h has the rows of g that
the map r names: one row alone, or all in reverse order. Each operator takes fields so related to fields so related; windows of the
booster meet the same rows (`WindowsMeet`), blocks of times are mapped to blocks if they are full (`BlockMap`), and a sum does not depend on the
order of its terms (`SameTotal`, `SameMean`, from `AddedLaws`). The number of bins is arithmetic of rounded quotients (`BinsInSpan`).

**Induction.** The prover cannot instantiate the library's induction principles, which take an operator as a parameter.
The library also states, without one, that strict inclusion is well-founded on the finite subsets of a set; applied to the
intervals 0..n it gives a least element of every set of naturals, hence induction in the form "a set that has 0 and with each n
also n + 1 has all naturals" (`SetInduction`). The proofs use it with sets for hypotheses. With it a recursive *function* can be shown to satisfy its
equation (`PowLaws`, `LevelLaws`), which is where facts about powers of two, stages and loops over frames come from.

**Only model-checked.** Liveness, which is beyond the prover (dispatches and calls return, shutdown joins,
the logger's destructor returns and what was pushed is written). `UniqueClaims`, `RestoredOrDone` and the refinement of `Dispatch` beyond the
hypotheses given: `pool_recovery` has three workers in one dispatch, which the theorems cover, and for more dispatches they are false.
Every other property of a passing run is stated by a theorem.

## 7. What is not modelled, and why

* *The Windows branch* of `drain_chunks` (structured exceptions, lines 1250-1348): a second retry loop that
  restores once less than it attempts. The models follow the POSIX branch.
* *Two callers of one pool.* Nothing in the code serialises them and nothing says they are allowed.
* *Torn reads* of the job's plain fields (`ops`, `chunk`, `total`): each store and each read is taken as one
  step, in program order. Spurious wake-ups are covered: a waiter re-evaluates its predicate, which
  gives a step the model has or no change.
* *Allocations that fail* half-way through a resize of the arena, and the build that allows a sequential
  fallback (`EIGFFT_ALLOW_SEQUENTIAL`), in which a plan may be told not to use threads.
* *The dropout rate* is a nondeterministic choice; its settings do not change during a dispatch.
* *Floating point*: windows, magnitudes, polar forms. The kernels and the grids are exact.
* *Grid tools*: a `gamma` other than 1, which maps each magnitude by itself; samples whose phases do not lie on
  one line; integers that overflow past the one check of the shape.
* *Trace logger*: a log file that cannot be opened, and threads that log after the static object is destroyed.
* *Metadata* beyond the stage traces: constants of the plan, or maxima of rounding errors. *Crash handling,
  I/O*: no control of the library depends on them.
* *Griffin-Lim and phase inference*: their loops do a fixed number of iterations over floating-point
  values; the two plans they lease are leased as in `PlanCache`.
* *Negative or zero sizes, null handles*: refused on entry; the models start behind those checks. A plan of
  size 0 never leaves its constructor's loop and is excluded.
* *`apply_ola` with streams*: spectra are overlap-added twice; no document says what should happen.

## 8. Plan

Done, in the order of importance: pool and its promise; plan cache; streams and their promise; batched
transforms; kernels; plan arena; contexts and their windows; the round trip through two streams; grid tools;
trace logger; the kernels' traces; the two-dimensional transform.

Next, modules:

1. `PlanCache` composed with `BatchedTransform`: which kernel a leased plan runs after `use_kernel`.
2. The loop of Griffin-Lim (`phase_infer.hpp` 74-205, `fft_cffi.cpp` 2100-2249) over the two plans it leases.

Every safety property of these is proved, with the limits section 6 gives. Theorems to come are those of the
modules to come: that a context's transforms run the kernel it was made with, once leases and kernels are composed.

## 9. Running it

    tlc -workers 2 -config pool_fleet.cfg MCWorkerPool     # a run: module and configuration
    tlapm WorkerPoolProofs.tla                             # the proofs of a module

`PROJECT.json` names the module of every configuration, the source lines every definition stands for, the
mutants, and the properties each hazard is watched by. `cache_leases` and `plan_arena` take about a minute on two
cores, `kernels_both` a minute and a half, `stream_roundtrip` about two, the other runs seconds. The proofs of
`KernelProofs` take some five minutes, those of `WorkerPoolProofs` and `ToolProofs` about four, of `StreamProofs`
about two, of `ContextProofs` one and a half, the others less than one.
