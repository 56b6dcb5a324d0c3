--------------------------- MODULE MCUiMidiQueue ---------------------------
(***************************************************************************)
(* A small ring with one conditioning gesture and two playable ones.       *)
(***************************************************************************)
EXTENDS UiMidiDispatch, SequencesExt

CONSTANTS click, press, lift, blank

GestureEvents == {click, press, lift}
ConditioningEvents == {click}

\* The places of a partition, against the sequences they stand for: every
\* window longer than the ring's, and everything that could be played of it.
ASSUME PlacesPartition ==
    \A window, played \in BoundedSeq(GestureEvents, Capacity) :
        IsStablePartition(played, window) <=>
            played = SelectSeq(window, LAMBDA e : e \in Conditioning)
                     \o SelectSeq(window, LAMBDA e : e \notin Conditioning)
=============================================================================
