--------------------------- MODULE StreamForward ---------------------------
(***************************************************************************)
(* fft_stream_push_pcm and fft_stream_reset (fft_cffi.cpp).  A context     *)
(* keeps the samples it was given in streaming_buffer and reads from       *)
(* streaming_offset on.  Samples are named by their position in the        *)
(* signal, so the buffer is the interval front .. back - 1: insert only    *)
(* extends it at the back, stream_compact only cuts at the front.          *)
(*                                                                         *)
(* fft_execute_batched, called on a copy of the samples of the frames      *)
(* asked for, may produce fewer of them when it runs out of memory, and    *)
(* none when the window is longer than the plan.                           *)
(***************************************************************************)
EXTENDS Framing

CONSTANTS
  Window, Hop, PlanSize,
  Pieces,       (* sizes of the pieces the signal comes in                 *)
  Limits,       (* values of max_frames, 0 for none                        *)
  MaxReceived   (* bound: samples pushed before a reset                    *)

ASSUME StreamAssumption ==
  /\ Window \in Nat \ {0} /\ Hop \in Nat \ {0} /\ PlanSize \in Nat
  /\ Pieces \subseteq Nat /\ Limits \subseteq Nat /\ MaxReceived \in Nat

FlushModes == {"none", "partial", "final"}

VARIABLES
  front, back,  (* streaming_buffer holds samples front .. back - 1        *)
  offset,       (* streaming_offset                                        *)
  delivered,    (* history: frames produced                                *)
  last,         (* history: first sample of the last of them               *)
  flushed       (* history: flush_mode, when the call met no limit or error *)

vars == <<front, back, offset, delivered, last, flushed>>

Backlog == IF offset >= back - front THEN 0 ELSE back - front - offset
Pending == FullFrames(Backlog, Window, Hop)

Init ==
  /\ front = 0 /\ back = 0 /\ offset = 0
  /\ delivered = 0 /\ last = 0 /\ flushed = "none"

\* Mutant: the buffer is not compacted.
ConsumeUncompacted(n, k) == front' = front /\ offset' = offset + k * Hop

\* The offset moves k hops, then stream_compact: a buffer read to its end is
\* cleared, else the samples before the offset are erased.
Consume(n, k) ==
  LET read == offset + k * Hop
  IN  /\ front' = IF read >= back + n - front THEN back + n ELSE front + read
      /\ offset' = 0

\* Mutant: the frames asked for are consumed, not the frames produced.
PushPcmSkipping(n, limit, flush) ==
  LET available == FullFrames(back + n - front - offset, Window, Hop)
      asked == IF limit # 0 /\ available > limit THEN limit ELSE available
  IN  /\ back + n <= MaxReceived
      /\ back' = back + n
      /\ Consume(n, asked)
      /\ \E k \in 0..asked :
           /\ last' = IF k = 0 THEN last ELSE front + offset + (k - 1) * Hop
           /\ delivered' = delivered + k
      /\ flushed' = "none"

\* fft_stream_push_pcm with n samples; k frames are produced.  The flush mode
\* is printed and otherwise unused.
PushPcm(n, limit, flush) ==
  LET available == FullFrames(back + n - front - offset, Window, Hop)
      asked == IF limit # 0 /\ available > limit THEN limit ELSE available
  IN  /\ back + n <= MaxReceived
      /\ back' = back + n
      /\ \E k \in 0..(IF Window > PlanSize THEN 0 ELSE asked) :
           /\ IF k = 0 THEN UNCHANGED <<front, offset, last>>
              ELSE /\ Consume(n, k)
                   /\ last' = front + offset + (k - 1) * Hop
           /\ delivered' = delivered + k
           /\ flushed' = IF k = available THEN flush ELSE "none"

\* fft_stream_reset.
Reset ==
  /\ front' = 0 /\ back' = 0 /\ offset' = 0
  /\ delivered' = 0 /\ last' = 0 /\ flushed' = "none"

Next ==
  \/ \E n \in Pieces, limit \in Limits, flush \in FlushModes : PushPcm(n, limit, flush)
  \/ Reset

Spec == Init /\ [][Next]_vars

-----------------------------------------------------------------------------
TypeOK ==
  /\ front \in Nat /\ back \in Nat /\ front <= back
  /\ offset \in Nat
  /\ delivered \in Nat /\ last \in Nat
  /\ flushed \in FlushModes

Ideal == INSTANCE FrameStream WITH received <- back

(* The frames are those of the whole signal, however it is cut into pieces,  *)
(* limited by the caller and interrupted by failed calls.                    *)
DeliversTheSignal == Ideal!Spec

(* "maintains a sliding buffer so each call produces the next hop-aligned    *)
(* frames": the last frame starts a whole number of hops into the signal.    *)
HopAligned == delivered > 0 => last = (delivered - 1) * Hop

(* The stream owes what the signal so far owes: fft_stream_pending_frames      *)
(* reports the frames still to come, and the buffer keeps no sample that       *)
(* none of them needs.                                                         *)
OwesTheRest ==
  /\ Pending = IF back < delivered * Hop THEN 0
               ELSE FullFrames(back - delivered * Hop, Window, Hop)
  /\ front >= delivered * Hop \/ front = back

(* What the name of the mode promises and the code does not keep: a flush in *)
(* mode final leaves no sample undelivered.                                  *)
FlushDelivers == flushed = "final" => Backlog = 0
=============================================================================
