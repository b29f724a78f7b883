---------------------------- MODULE Resynthesis ----------------------------
(***************************************************************************)
(* Two overlap-adds, one promise: fft_execute_complex_batched adds the     *)
(* frames of one call (BatchedTransform), fft_stream_push_spectrum those   *)
(* of many (StreamInverse), with code of their own.  For contexts of one   *)
(* size and hop, this module compares them.                                *)
(***************************************************************************)
EXTENDS BatchedTransform, Sequences

CONSTANTS StreamSize, StreamHop

\* A stream that has seen nothing yet, on the same context.
Stream == INSTANCE StreamInverse WITH
  PlanSize <- StreamSize, Hop <- StreamHop, Batches <- Spectra, Limits <- {0},
  MaxFrames <- 0, MaxQueued <- 0, accum <- Empty, norm <- Empty, queue <- <<>>,
  cola <- ctx.cola, emitted <- <<>>, placed <- <<>>, cuts <- {}, mixed <- FALSE

(* What a call overlap-adds is what a stream that gets the same frames and   *)
(* a final flush gives out, sample by sample, sums and weights, and silence  *)
(* after it, unless the hop is longer than the plan.                         *)
OneCallAsStream ==
  (pcm # Empty /\ ctx.ola /\ ctx.size = StreamSize /\ HopOf(ctx) = StreamHop
     /\ StreamHop <= StreamSize) =>
    LET q == Stream!AfterFrames(call.frames, "final").queue
    IN  \A t \in DOMAIN pcm :
          IF t < Len(q) THEN pcm[t] = q[t + 1] ELSE pcm[t].sum = {}
=============================================================================
