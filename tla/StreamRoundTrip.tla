-------------------------- MODULE StreamRoundTrip --------------------------
(***************************************************************************)
(* Analysis and resynthesis end to end (fft_cffi.cpp, and the way round    *)
(* of tests/cffi_stft_compare_test.cpp): a signal is pushed into the       *)
(* stream of a forward context, and the frames that come out are handed,   *)
(* in order and each once, to the stream of an inverse context with the    *)
(* same size, window and hop.  The application cuts both streams into      *)
(* calls as it likes, flushes when it likes and resets both together.      *)
(***************************************************************************)
EXTENDS StreamForward, Sequences

CONSTANTS
  Batches,       (* frames handed over in one call                         *)
  SampleLimits,  (* values of max_samples, 0 for none                      *)
  MaxFrames,     (* bound: frames resynthesised before a reset             *)
  MaxQueued      (* bound: samples queued or given out before a reset      *)

ASSUME RoundTripAssumption ==
  /\ PlanSize > 0 /\ Batches \subseteq Nat /\ SampleLimits \subseteq Nat
  /\ MaxFrames \in Nat /\ MaxQueued \in Nat

VARIABLES
  accum, norm, queue, cola,        (* the inverse context's stream, and ... *)
  emitted, placed, cuts, mixed,    (* ... its history: see StreamInverse    *)
  starts,   (* history: where in the signal each analysed frame starts     *)
  handed,   (* frames handed over so far                                   *)
  slipped   (* history: a transform failed, its frames are missing         *)

Synth == INSTANCE StreamInverse WITH Limits <- SampleLimits

inverseVars == <<accum, norm, queue, cola, emitted, placed, cuts, mixed>>
allVars == <<vars, inverseVars, starts, handed, slipped>>

RoundTripInit ==
  /\ Init /\ Synth!Init
  /\ starts = <<>> /\ handed = 0 /\ slipped = FALSE

\* The forward context: where its new frames start is recorded.
Analyse ==
  /\ \E n \in Pieces, limit \in Limits, flush \in FlushModes : PushPcm(n, limit, flush)
  /\ starts' = starts \o [k \in 1..(delivered' - delivered) |-> front + offset + (k - 1) * Hop]
  /\ UNCHANGED <<inverseVars, handed, slipped>>

\* The inverse context gets the next k frames; it may fail to transform them.
Synthesise ==
  /\ \E k \in Batches, limit \in SampleLimits, flush \in Synth!FlushModes, output \in BOOLEAN :
       /\ handed + k <= Len(starts) /\ handed' = handed + k
       /\ Synth!PushSpectrum(k, limit, flush, output)
       /\ slipped' = (slipped \/ Len(placed') # Len(placed) + k)
  /\ UNCHANGED <<vars, starts>>

\* fft_config_window on the inverse context.
Configure == Synth!ConfigWindow /\ UNCHANGED <<vars, starts, handed, slipped>>

\* fft_stream_reset on both.
ResetBoth ==
  /\ Reset /\ Synth!Reset
  /\ starts' = <<>> /\ handed' = 0 /\ slipped' = FALSE

RoundTripNext == Analyse \/ Synthesise \/ Configure \/ ResetBoth

RoundTrip == RoundTripInit /\ [][RoundTripNext]_allVars

-----------------------------------------------------------------------------
SumsTheOverlap == Synth!SumsTheOverlap
NormMatches    == Synth!NormMatches
FlushCompletes == Synth!FlushCompletes

\* The windowed copies of signal sample t in the frames that came through.
Copies(t) ==
  {<<f, t - starts[f]>> : f \in {g \in DOMAIN starts :
                                  g <= Len(placed) /\ t - starts[g] \in Synth!Index}}

(* What comes out is what went in: output sample t sums the copies of signal *)
(* sample t and nothing else, and once the last frame was flushed as many    *)
(* samples have come out as the frames cover, however both streams are cut   *)
(* into calls.  A failed transform or a flush in the middle breaks the       *)
(* alignment, so it is claimed up to there.                                  *)
GivesTheSignalBack ==
  (~slipped /\ cuts \subseteq {Len(placed)}) =>
    /\ \A n \in DOMAIN Synth!Output : Synth!Output[n].sum = Copies(n - 1)
    /\ (placed # <<>> /\ cuts # {}) =>
         Len(Synth!Output) >= starts[Len(placed)] + PlanSize
=============================================================================
