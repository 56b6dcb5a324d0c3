-------------------------- MODULE MCStratPerformer --------------------------
(* Two strings a fourth apart with seven frets each.  Both have the low     *)
(* note, the upper one open; the high one is at the upper string's last     *)
(* fret, and the lower string's octave harmonic.                            *)
EXTENDS StratPerformer, TLC

CONSTANTS low, high

TwoStrings == <<0, 5>>
TwoKeys == {low, high}
Neck == (low :> 5) @@ (high :> 12)

NobodyAsks == [k \in TwoKeys |-> None]
LowAsksForOne == (low :> 1) @@ (high :> None)

NoLookahead == [lookahead |-> FALSE, strum |-> 2]
WithLookahead == [lookahead |-> TRUE, strum |-> 1]

\* Alternate strokes, strummed.
Live(styles, damps) ==
    [controls |-> {NoLookahead}, styles |-> styles, strokes |-> {},
     damps |-> damps, pedals |-> ~damps, asks |-> NobodyAsks, careful |-> TRUE]
\* The hand reads ahead, until the player turns that off.
Ahead ==
    [controls |-> {WithLookahead, NoLookahead}, styles |-> {}, strokes |-> {},
     damps |-> FALSE, pedals |-> FALSE, asks |-> NobodyAsks, careful |-> TRUE]

\* They wait for nothing: the pedal, the damping hand, the next stroke and the
\* switch come while picks, touches, slides and fingers are on their way.
Close == [lookahead |-> FALSE, strum |-> 1]
CloseAhead == [lookahead |-> TRUE, strum |-> 1]
Hurried(controls, styles, damps, pedals) ==
    [controls |-> controls, styles |-> styles, strokes |-> {},
     damps |-> damps, pedals |-> pedals, asks |-> LowAsksForOne, careful |-> FALSE]

EightPlayers ==
    {Live({"sustain", "harmonic"}, FALSE), Live({"sustain", "legato", "slide"}, TRUE),
     Live({"sustain", "deadNote", "pinch"}, FALSE), Ahead,
     Hurried({Close}, {"sustain", "pinch"}, FALSE, TRUE),
     Hurried({Close}, {"sustain", "slide"}, FALSE, FALSE),
     Hurried({Close}, {}, TRUE, FALSE),
     Hurried({CloseAhead, Close}, {}, FALSE, FALSE)}
=============================================================================
