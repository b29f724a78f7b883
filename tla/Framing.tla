------------------------------ MODULE Framing ------------------------------
(***************************************************************************)
(* How fft_cffi.cpp cuts a PCM signal of a given length into frames of     *)
(* `window` samples, `hop` samples apart.                                  *)
(***************************************************************************)
EXTENDS Naturals

\* The pad modes of a context and of fft_execute_batched.
Refuse == 0
PadLast == 1
DropLast == 2

\* Full frames in `samples` samples (stream_available_frames).
FullFrames(samples, window, hop) ==
  IF samples < window THEN 0 ELSE 1 + (samples - window) \div hop

\* The frame count of fft_execute_batched; 0 stands for its refusals.
FrameCount(samples, window, hop, pad) ==
  LET full == FullFrames(samples, window, hop)
      remaining == samples - (full - 1) * hop
  IN  IF full = 0 THEN (IF pad = PadLast THEN 1 ELSE 0)
      ELSE IF remaining >= window THEN full
      ELSE CASE pad = PadLast -> full
             [] pad = DropLast -> full - 1
             [] OTHER -> 0

\* A pad mode of 0 defers to the context's own.
EffectivePad(pad, contextPad) == IF pad = 0 THEN contextPad ELSE pad
=============================================================================
