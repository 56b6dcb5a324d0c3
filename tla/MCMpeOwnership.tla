--------------------------- MODULE MCMpeOwnership ---------------------------
(* Channel 1 is the lower zone's master, channel 2 its only member.  Or the *)
(* upper zone takes both for members; its own master is not played.         *)
EXTENDS MpeOwnership, TLC

CONSTANTS e2, g3

Zone(lower, upper) == ("lower" :> lower) @@ ("upper" :> upper)
NoneOneOrOther == {Zone({}, {}), Zone({2}, {}), Zone({}, {1, 2})}

\* The lower zone alone, with three keys down and changing ranges; or the
\* upper zone too, which makes members of what the lower zone had for master.
OneZone == [layouts |-> NoneOneOrOther \ {Zone({}, {1, 2})}, ranges |-> {2, 3}, down |-> 3]
NewMaster == [layouts |-> NoneOneOrOther, ranges |-> {2}, down |-> 3]
TwoSetups == {OneZone, NewMaster}

\* Nothing tells one key from another.
KeySymmetry == Permutations({e2, g3})

TwoKeys == {e2, g3}
MasterAndMember == {1, 2}
CentreAndUp == {0, 1}
TwoRanges == {2, 3}
=============================================================================
