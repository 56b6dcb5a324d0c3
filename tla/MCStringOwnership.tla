--------------------------- MODULE MCStringOwnership ---------------------------
(***************************************************************************)
(* Two strings a fourth apart with six frets each: notes 2 and 3 are       *)
(* playable on the first only, note 6 on both, note 10 on the second only. *)
(***************************************************************************)
EXTENDS StringOwnership

TwoStrings == 1 .. 2
TwoOpenNotes == <<0, 5>>

\* Chords on the whole neck.
Chordal == [notes |-> {2, 3, 6}, expressions |-> {Legacy}, solos |-> {},
            chord |-> 3, due |-> 4]
\* Single notes, with solo strings and a member channel.
Melodic == [notes |-> {2, 6}, expressions |-> {Legacy, 1}, solos |-> {1, 2},
            chord |-> 1, due |-> 2]
\* Chords while a solo mask selects strings.
SoloChords == [notes |-> {2, 6}, expressions |-> {Legacy}, solos |-> {1, 2},
               chord |-> 2, due |-> 3]

OneHand == {Chordal, Melodic}
ChordsOfSoloists == {SoloChords}
=============================================================================
