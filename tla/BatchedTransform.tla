-------------------------- MODULE BatchedTransform --------------------------
(***************************************************************************)
(* fft_execute_batched and fft_execute_complex_batched (fft_cffi.cpp): a   *)
(* signal is cut into frames, the frames are transformed batch by batch in *)
(* a buffer, and the spectra are copied out; or the spectra of frames are  *)
(* transformed back in one batch, and the samples are copied out, side by  *)
(* side or overlap-added.                                                  *)
(*                                                                         *)
(* On the recovery path the batch is a list of ranges given to the worker  *)
(* pool, one per chunk; the pool retries a chunk whose attempt threw,      *)
(* after calling restore_cb, which copies the range back from a backup and *)
(* counts.  On the shared path one transform has the whole batch, and its  *)
(* kernel hands chunks of columns to the pool: Stockham's are retried and  *)
(* then given up without a word, Cooley-Tukey's end the process, for its   *)
(* restore callback is empty.  The pool is taken at its word here: each    *)
(* chunk is processed by one worker and parallel_for returns when all are  *)
(* done (WorkerPool says when that is so).                                 *)
(*                                                                         *)
(* On the recovery path ranges of several frames occur only as the single  *)
(* range of a batch without dropouts; a job of one chunk runs inline,      *)
(* where nothing calls restore_cb, so no range is ever split.              *)
(*                                                                         *)
(* A column of the buffer holds input samples, a spectrum, or neither:     *)
(* what a transform that broke off, or one of a spectrum, leaves.          *)
(***************************************************************************)
EXTENDS Context, FiniteSets

CONSTANTS
  Lengths,        (* of signals                                            *)
  PadModes,       (* pad_mode arguments                                    *)
  Spectra,        (* frames of calls with spectra                          *)
  FrameLimits,    (* max_frames arguments, 0 for none                      *)
  BatchFrames,    (* frames of a signal that fit in 64 MB                  *)
  Lanes,          (* columns of a chunk on the shared path                 *)
  SlotCapacity,   (* workers the scratch arena has slots for, at most      *)
  DropIndices,    (* chunk indices the dropout pattern hits                *)
  Persistence,    (* values persistent_mode is given                       *)
  MaxThrows,      (* bound: transforms and plan acquisitions that throw    *)
  MaxCalls        (* bound: calls on one context                           *)

RetryCount == 2   \* EIGFFT_JOB_RETRY_COUNT and kRetryCount

ASSUME BatchAssumption ==
  /\ Lengths \subseteq Nat \ {0} /\ Spectra \subseteq Nat \ {0}
  /\ {BatchFrames, Lanes, SlotCapacity} \subseteq Nat \ {0}
  /\ FrameLimits \subseteq Nat /\ DropIndices \subseteq Nat
  /\ MaxThrows \in Nat /\ MaxCalls \in Nat
  /\ Persistence \subseteq BOOLEAN /\ Persistence # {}

Input == "input"
Spectrum == "spectrum"
Broken == "broken"
NoCall == [of |-> "signal", length |-> 0, frames |-> 0, batch |-> 1, pad |-> 0, backup |-> FALSE]

VARIABLES
  phase,      (* of the call: idle, fill, shared, ranges, copy, dead       *)
  call,       (* its arguments and frame count                             *)
  bstart,     (* first frame of the batch                                  *)
  buffer,     (* buffer[f]: column of frame bstart + f                     *)
  backup,     (* the buffer when the ranges were given to the pool         *)
  tries,      (* tries[r]: failed attempts of chunk r, in the pool         *)
  finished,   (* chunks the pool is done with                              *)
  restores,   (* attempt_count: restore_cb calls for each range            *)
  persistent, (* persistent_mode: dropouts hit every attempt               *)
  dropped,    (* dropped_once: chunk indices that had their dropout        *)
  output,     (* the caller's arrays: what frame n holds, or is made of    *)
  pcm,        (* its samples, after a call with spectra                    *)
  produced,   (* frames the call has produced so far                       *)
  throws,     (* exceptions thrown so far                                  *)
  swallowed,  (* history: frames of chunks whose exception was swallowed   *)
  failing,    (* history: frames in persistent_failures                    *)
  abandoned,  (* history: frames the pool gave up on the shared path       *)
  calls       (* calls made                                                *)

round == <<backup, tries, finished, restores>>
history == <<throws, swallowed, failing, abandoned, calls>>
dropout == <<persistent, dropped>>
results == <<output, pcm, produced>>
vars == <<ctx, phase, call, bstart, buffer, round, dropout, results, history>>

Batch == LET left == call.frames - bstart
         IN  IF left < call.batch THEN left ELSE call.batch
Columns == 0..(Batch - 1)

\* The columns of each chunk.  Recovery: single frames if a dropout is configured,
\* else all.  Shared path: as many as the kernel has lanes.
Ranges ==
  IF ~call.backup THEN [r \in {f \div Lanes : f \in Columns} |-> {f \in Columns : f \div Lanes = r}]
  ELSE IF DropIndices # {} THEN [r \in Columns |-> {r}]
  ELSE [r \in {0} |-> Columns]
Chunks == DOMAIN Ranges
FramesOf(r) == {bstart + f : f \in Ranges[r]}

\* Without workers, and for a single chunk, parallel_for runs on the caller's thread.
Inline == ctx.workers = 0 \/ Cardinality(Chunks) = 1

\* Every worker has a slot of its own in the scratch arena.
Slotted == ctx.workers <= SlotCapacity

\* A worker's next attempt at chunk r is dropped, and no other once it has been, unless
\* dropouts persist.
Hit(r) == ~Inline /\ r \in DropIndices /\ (persistent \/ r \notin dropped)
AfterHit(r) == IF Hit(r) /\ ~persistent THEN dropped \cup {r} ELSE dropped

Transform(c) == IF c = Input THEN Spectrum ELSE Broken
Transformed(b, fs) == [f \in DOMAIN b |-> IF f \in fs THEN Transform(b[f]) ELSE b[f]]
Empty == [f \in {} |-> Input]

Init ==
  /\ ContextInit /\ pcm = Empty
  /\ phase = "idle" /\ call = NoCall /\ bstart = 0
  /\ buffer = Empty /\ backup = Empty
  /\ tries = Empty /\ finished = {} /\ restores = Empty
  /\ persistent \in Persistence /\ dropped = {} /\ output = Empty /\ produced = 0
  /\ throws = 0 /\ swallowed = {} /\ failing = {} /\ abandoned = {} /\ calls = 0

-----------------------------------------------------------------------------
\* The context is made, configured or freed, between two calls.
Configure ==
  /\ phase = "idle" /\ calls < MaxCalls
  /\ ContextStep
  /\ call' = NoCall /\ output' = Empty /\ pcm' = Empty /\ produced' = 0
  /\ UNCHANGED <<phase, bstart, buffer, round, dropout, history>>

\* fft_set_workerpool_dropout_persistent, between two calls.
SetPersistent(on) ==
  /\ phase = "idle" /\ calls < MaxCalls
  /\ persistent' = on
  /\ UNCHANGED <<ctx, phase, call, bstart, buffer, round, dropped, results, history>>

\* fft_clear_workerpool_dropout_history, between two calls.
ClearDropped ==
  /\ phase = "idle" /\ calls < MaxCalls
  /\ dropped' = {}
  /\ UNCHANGED <<ctx, phase, call, bstart, buffer, round, persistent, results, history>>

\* A call that is refused, for it has no frames, returns 0.
Begin(c) ==
  /\ phase = "idle" /\ calls < MaxCalls /\ ctx # NoContext
  /\ calls' = calls + 1
  /\ call' = c
  /\ phase' = IF c.frames = 0 THEN "idle" ELSE "fill"
  /\ bstart' = 0 /\ produced' = 0 /\ output' = Empty /\ pcm' = Empty
  /\ swallowed' = {} /\ failing' = {} /\ abandoned' = {}
  /\ UNCHANGED <<ctx, buffer, round, dropout, throws>>

Limited(frames, limit) == IF limit # 0 /\ frames > limit THEN limit ELSE frames

\* fft_execute_batched: the entry checks and the frame count.
Call(len, padMode, limit, enableBackup) ==
  LET pad == EffectivePad(padMode, ctx.pad)
      count == IF WindowOf(ctx) > ctx.size THEN 0
               ELSE FrameCount(len, WindowOf(ctx), HopOf(ctx), pad)
  IN  Begin([of |-> "signal", length |-> len, frames |-> Limited(count, limit),
             batch |-> BatchFrames, pad |-> pad, backup |-> enableBackup /\ ctx.workers # 0])

\* fft_execute_complex_batched: all frames are one batch; its pad_mode is unused.
CallSpectra(frames, limit, enableBackup) ==
  LET count == Limited(frames, limit)
  IN  Begin([of |-> "spectra", length |-> 0, frames |-> count, batch |-> count,
             pad |-> Refuse, backup |-> enableBackup /\ ctx.workers # 0])

\* A new buffer with the samples, or the spectra, of the batch's frames.
Fill ==
  /\ phase = "fill"
  /\ buffer' = [f \in Columns |-> Input]
  /\ phase' = IF call.backup THEN "ranges" ELSE "shared"
  /\ backup' = [f \in Columns |-> Input]
  /\ tries' = [r \in Chunks |-> 0] /\ restores' = [r \in Chunks |-> 0]
  /\ finished' = {}
  /\ UNCHANGED <<ctx, call, bstart, dropout, results, history>>

\* Without recovery: one plan, one transform of the whole batch.  Inline, it has all columns
\* when it returns.
TransformShared ==
  /\ phase = "shared" /\ Inline
  /\ buffer' = Transformed(buffer, Columns)
  /\ phase' = "copy"
  /\ UNCHANGED <<ctx, call, bstart, round, dropout, results, history>>

\* On the pool, a worker transforms the columns of chunk r ...
SharedProcess(r) ==
  /\ phase = "shared" /\ ~Inline /\ r \in Chunks \ finished /\ ~Hit(r)
  /\ buffer' = Transformed(buffer, Ranges[r])
  /\ finished' = finished \cup {r}
  /\ UNCHANGED <<ctx, phase, call, bstart, backup, tries, restores, dropout, results, history>>

\* ... or its attempt is dropped before it has touched them; Stockham has no restore
\* callback, and after RetryCount retries the pool passes on to the next chunk.
SharedDrop(r) ==
  /\ phase = "shared" /\ r \in Chunks \ finished /\ ctx.kernel = "stockham" /\ Hit(r)
  /\ dropped' = AfterHit(r)
  /\ tries' = [tries EXCEPT ![r] = @ + 1]
  /\ IF tries[r] + 1 > RetryCount
     THEN finished' = finished \cup {r} /\ abandoned' = abandoned \cup FramesOf(r)
     ELSE UNCHANGED <<finished, abandoned>>
  /\ UNCHANGED <<ctx, phase, call, bstart, buffer, backup, restores, persistent, results,
                 throws, swallowed, failing, calls>>

\* A worker without a slot throws on every attempt, before it has loaded a column.
SharedNoSlot(r) ==
  /\ phase = "shared" /\ ~Inline /\ r \in Chunks \ finished
  /\ ctx.kernel = "stockham" /\ ~Slotted
  /\ dropped' = AfterHit(r)
  /\ finished' = finished \cup {r}
  /\ abandoned' = abandoned \cup FramesOf(r)
  /\ UNCHANGED <<ctx, phase, call, bstart, buffer, backup, tries, restores, persistent, results,
                 throws, swallowed, failing, calls>>

\* An attempt of Cooley-Tukey that is dropped, or throws, ends the process: the pool
\* calls the restore callback, which is empty, outside of any try.
SharedDies(r) ==
  /\ phase = "shared" /\ ~Inline /\ r \in Chunks \ finished /\ ctx.kernel = "ct"
  /\ Hit(r) \/ throws < MaxThrows
  /\ throws' = IF Hit(r) THEN throws ELSE throws + 1
  /\ phase' = "dead"
  /\ UNCHANGED <<ctx, call, bstart, buffer, round, dropout, results,
                 swallowed, failing, abandoned, calls>>

\* The transform returns when the pool is done with every chunk, one way or the other.
SharedReturn ==
  /\ phase = "shared" /\ ~Inline /\ finished = Chunks
  /\ phase' = "copy"
  /\ UNCHANGED <<ctx, call, bstart, buffer, round, dropout, results, history>>

Shared ==
  \/ TransformShared \/ SharedReturn
  \/ \E r \in Chunks : SharedProcess(r) \/ SharedDrop(r) \/ SharedNoSlot(r) \/ SharedDies(r)

\* An allocation, get_plan or the transform throws, on the caller's thread, where no job
\* is under way: the call returns what it has produced.
GiveUp ==
  /\ phase \in {"fill", "shared"} /\ throws < MaxThrows
  /\ phase = "shared" => finished = {} /\ \A r \in Chunks : tries[r] = 0
  /\ throws' = throws + 1
  /\ phase' = "idle"
  /\ UNCHANGED <<ctx, call, bstart, buffer, round, dropout, results,
                 swallowed, failing, abandoned, calls>>

\* worker_for_ranges transforms the frames of range r.
Process(r) ==
  /\ phase = "ranges" /\ r \in Chunks \ finished
  /\ buffer' = Transformed(buffer, Ranges[r])
  /\ finished' = finished \cup {r}
  /\ UNCHANGED <<ctx, phase, call, bstart, backup, tries, restores, dropout, results, history>>

\* It throws at frame f, before or within its transform, and swallows that:
\* the pool takes the chunk for done.
ProcessSwallows(r) ==
  /\ phase = "ranges" /\ r \in Chunks \ finished /\ throws < MaxThrows
  /\ \E f \in Ranges[r] : \E left \in {buffer[f], Broken} :
       buffer' = [Transformed(buffer, {g \in Ranges[r] : g < f}) EXCEPT ![f] = left]
  /\ finished' = finished \cup {r}
  /\ throws' = throws + 1
  /\ swallowed' = swallowed \cup FramesOf(r)
  /\ UNCHANGED <<ctx, phase, call, bstart, backup, tries, restores, dropout, results,
                 failing, abandoned, calls>>

\* Mutant: the whole backup is copied back.
RestoredAll(r) == backup

\* restore_cb copies the columns of range r back from the backup.
Restored(r) == [f \in DOMAIN buffer |-> IF f \in Ranges[r] THEN backup[f] ELSE buffer[f]]

\* Mutant: the first restore already counts as a persistent failure.
FailedForGoodEarly(n) == n >= RetryCount - 1

FailedForGood(n) == n >= RetryCount

\* An attempt is dropped: restore_cb runs, the pool retries or gives up.
Drop(r) ==
  /\ phase = "ranges" /\ r \in Chunks \ finished /\ Hit(r)
  /\ dropped' = AfterHit(r)
  /\ buffer' = Restored(r)
  /\ restores' = [restores EXCEPT ![r] = @ + 1]
  /\ failing' = IF FailedForGood(restores[r] + 1)
                THEN failing \cup FramesOf(r) ELSE failing
  /\ tries' = [tries EXCEPT ![r] = @ + 1]
  /\ finished' = IF tries[r] + 1 > RetryCount THEN finished \cup {r} ELSE finished
  /\ UNCHANGED <<ctx, phase, call, bstart, backup, persistent, results,
                 throws, swallowed, abandoned, calls>>

\* Mutant: persistent failures are requeued until they succeed.
JudgeRequeueing ==
  /\ phase = "ranges" /\ finished = Chunks
  /\ IF \E f \in failing : f >= bstart
     THEN /\ tries' = [r \in Chunks |-> 0] /\ restores' = [r \in Chunks |-> 0]
          /\ finished' = {} /\ failing' = {} /\ UNCHANGED <<phase, backup>>
     ELSE phase' = "copy" /\ UNCHANGED <<round, failing>>
  /\ UNCHANGED <<ctx, call, bstart, buffer, dropout, results, throws, swallowed, abandoned,
                 calls>>

\* The coordinator looks at persistent_failures: they are single frames, so
\* the batch is aborted, and copied out all the same.
Judge ==
  /\ phase = "ranges" /\ finished = Chunks
  /\ phase' = "copy"
  /\ UNCHANGED <<ctx, call, bstart, buffer, round, dropout, results, history>>

\* The contributions <<frame, index>> to sample t, frames starting h samples apart.
Contributions(frames, h, t) ==
  {<<f + 1, t - f * h>> : f \in {g \in 0..(frames - 1) : t - g * h \in 0..(ctx.size - 1)}}

\* Mutant: frames are one window apart.
OverlapAddedByWindow(frames) ==
  [t \in 0..(frames * ctx.size - 1) |->
     LET sum == Contributions(frames, WindowOf(ctx), t)
     IN  [sum |-> sum, weight |-> IF ctx.cola THEN sum ELSE {}, normed |-> ctx.cola]]

\* apply_ola: within the samples of frames laid side by side, the frames are added
\* one hop apart and, if asked for, divided by the weights they were added with.
OverlapAdded(frames) ==
  [t \in 0..(frames * ctx.size - 1) |->
     LET sum == Contributions(frames, HopOf(ctx), t)
     IN  [sum |-> sum, weight |-> IF ctx.cola THEN sum ELSE {}, normed |-> ctx.cola]]

SideBySide(frames) ==
  [t \in 0..(frames * ctx.size - 1) |->
     [sum |-> Contributions(frames, ctx.size, t), weight |-> {}, normed |-> FALSE]]

\* The batch goes to the caller's arrays; the next batch, or return.
CopyOut ==
  /\ phase = "copy"
  /\ output' = [n \in DOMAIN output \cup {bstart + f : f \in Columns} |->
                  IF n >= bstart THEN buffer[n - bstart] ELSE output[n]]
  /\ pcm' = IF call.of = "signal" THEN Empty
            ELSE IF ctx.ola THEN OverlapAdded(call.frames) ELSE SideBySide(call.frames)
  /\ produced' = produced + Batch
  /\ bstart' = bstart + call.batch
  /\ phase' = IF bstart + call.batch < call.frames THEN "fill" ELSE "idle"
  /\ UNCHANGED <<ctx, call, buffer, round, dropout, history>>

ChunkStep(r) ==
  \/ ~Hit(r) /\ (Process(r) \/ ProcessSwallows(r))
  \/ Drop(r)

\* Until every chunk of the batch is done and the coordinator has judged them ...
Rounds == Judge \/ \E r \in Chunks : ChunkStep(r)
SignalRounds == call.of = "signal" /\ Rounds

\* ... which fft_execute_complex_batched does with a coordinator of its own.
SpectraRounds == call.of = "spectra" /\ Rounds

Proceed == Fill \/ Shared \/ GiveUp \/ SignalRounds \/ SpectraRounds \/ CopyOut

Next ==
  \/ \E len \in Lengths, pad \in PadModes, limit \in FrameLimits, b \in BOOLEAN :
       Call(len, pad, limit, b)
  \/ \E frames \in Spectra, limit \in FrameLimits, b \in BOOLEAN :
       CallSpectra(frames, limit, b)
  \/ Configure
  \/ \E on \in Persistence : SetPersistent(on)
  \/ ClearDropped
  \/ Proceed

(* The caller's thread and the pool's workers keep running.                  *)
Spec == Init /\ [][Next]_vars /\ WF_vars(Proceed)

-----------------------------------------------------------------------------
\* Frame n as column c holds it: given up by the pool, it is as it was filled in; else it
\* is a spectrum, unless its chunk swallowed an exception.
Holds(c, n) == n \in swallowed \/ c = IF n \in failing \cup abandoned THEN Input ELSE Spectrum

(* Failures are contained: every frame that was produced holds its spectrum, *)
(* transformed exactly once, unless the pool gave its chunk up, as the       *)
(* coordinator counted (914-949) or on the shared path without telling       *)
(* anyone (797-828): then it holds its input, whole, or its chunk swallowed  *)
(* an exception (908); restoring a chunk undoes no other chunk's work.       *)
FailuresContained ==
  \A n \in 0..(produced - 1) : n \in DOMAIN output /\ Holds(output[n], n)

(* One-shot dropouts never make the coordinator abort a batch, nor the pool  *)
(* give up a chunk of the shared path, unless a worker has no slot.          *)
OneShotRecovers ==
  (phase # "idle" /\ ~persistent) =>
    failing = {} /\ (Slotted => abandoned = {})

(* Every call returns, or the process has ended.                             *)
CallReturns == phase # "idle" ~> phase \in {"idle", "dead"}

-----------------------------------------------------------------------------
(* What comments and the header say and the code does not keep.              *)

(* "returns the number of frames produced": frames that hold no spectrum,    *)
(* for their chunk failed or was given up, are not among them.               *)
ProducedAreTransformed == \A n \in 0..(produced - 1) : output[n] # Input

(* "Swallow; restore will be attempted by pool's restore callback": no frame *)
(* left half-transformed by an exception is handed to the caller.            *)
SwallowedAreRestored == \A n \in DOMAIN output : output[n] # Broken

(* "1=pad last": a signal that is accepted in that mode, without a frame     *)
(* limit, has all of its samples in frames.                                  *)
PadsLast ==
  (call.pad = PadLast /\ call.frames > 0) =>
    (call.frames - 1) * HopOf(ctx) + WindowOf(ctx) >= call.length
=============================================================================
