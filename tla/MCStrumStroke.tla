--------------------------- MODULE MCStrumStroke ---------------------------
(* Three strings under Alternate picking.                                  *)
EXTENDS StrumStroke

Plain == [strings |-> Strings, notes |-> {1}, picks |-> {"Alternate"},
          plays |-> {"Sustain"}, spreads |-> {1}, pedal |-> FALSE, tremolo |-> TRUE,
          delays |-> {0}, boundaries |-> {0}]
\* Two strings and two notes each: hammered ones between the picked ones.
Hammers == [Plain EXCEPT !.strings = {1, 2}, !.notes = {1, 2}, !.tremolo = FALSE,
                         !.plays = {"Sustain", "Hammer"}]
Slides == [Hammers EXCEPT !.plays = {"Slide"}]
\* Fret boundaries that hold the pick up.
Refrets == [Hammers EXCEPT !.plays = {"Sustain"}, !.boundaries = {0, 2}]
\* A wrist that is late, and settings that change.
Loose == [Plain EXCEPT !.strings = {1, 2}, !.tremolo = FALSE, !.pedal = TRUE,
                       !.picks = {"Down", "Alternate"}, !.spreads = {0, 1},
                       !.delays = {1}]

FiveHosts == {Plain, Hammers, Slides, Refrets, Loose}
=============================================================================
