---------------------------- MODULE FrameStream ----------------------------
(***************************************************************************)
(* What a streaming STFT promises: whatever the sizes of the pieces a      *)
(* signal arrives in, the frames that come out are those of the whole      *)
(* signal, in order, hop samples apart, each one of received samples only. *)
(***************************************************************************)
EXTENDS Naturals

CONSTANTS Window, Hop

VARIABLES
  received,   (* samples the stream was given                             *)
  delivered,  (* frames it gave back                                      *)
  last        (* first sample of the frame given back last                *)

vars == <<received, delivered, last>>

Init == received = 0 /\ delivered = 0 /\ last = 0

\* One call: samples in, frames out.
Call ==
  /\ received' >= received /\ delivered' >= delivered
  /\ \/ delivered' = delivered /\ last' = last
     \/ delivered' > delivered /\ last' = (delivered' - 1) * Hop
                               /\ last' + Window <= received'

Reset == received' = 0 /\ delivered' = 0 /\ last' = 0

Next == Call \/ Reset

Spec == Init /\ [][Next]_vars
=============================================================================
