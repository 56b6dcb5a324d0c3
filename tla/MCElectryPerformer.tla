------------------------- MODULE MCElectryPerformer -------------------------
(* Two play styles, two solo strings, one note whose sounding pitch is also *)
(* the number of an unassigned key.                                         *)
EXTENDS ElectryPerformer

CONSTANTS palm, alternate, lowString, highString, vibrato

MCPlayStyles == {Sustain, palm}
MCPickStyles == {DownStroke, alternate}
MCStrings == {lowString, highString}
MCGestures == {vibrato}
MCPlayable == {45, 57}
MCGap == {33}
=============================================================================
