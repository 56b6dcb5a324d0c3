---------------------------- MODULE MCEventGroup ----------------------------
(* Every block of up to three events at two samples and before them, with   *)
(* every snapshot of up to two gestures; three attacks overfill a chord.    *)
EXTENDS EventGroup

CONSTANT earlier

TwoSamples == {0, 1}
=============================================================================
