--------------------------- MODULE MCStringVoice ---------------------------
(* Two frets of a string, played with the pick, under the palm, by a       *)
(* hammered and by a sliding finger; a pick comes at once or strums.        *)
EXTENDS StringVoice, TLC

CONSTANTS n1, n2

TwoNotes == {n1, n2}
FourStyles == {"Sustain", "PalmMute", "Hammer", "Slide"}
PreRolls == {0, 2}

Fingers == Permutations(Note)
=============================================================================
