SPECIFICATION Spec
CONSTANTS
    low = low
    high = high
    Damp = damp
    None = none
    OpenNote <- TwoStrings
    Frets = 7
    Keys <- TwoKeys
    Note <- Neck
    Players <- EightPlayers
    MaxPending = 2
    MaxEvents = 6
    MaxMidi = 2
    Lookahead = 2
    PressTicks = 1
    PickGapTicks = 0
    LiftTicks = 1
    TouchTicks = 1
    HarmonicTicks = 1
    MaxUnread = 1
    HandAtNut = 5
INVARIANTS
    CarefulHands
    CarefulFrets
    NoMidiIsOvertaken
PROPERTIES
    OnlyLatePicksRingForNobody
    OnlyTheLateLiftFlesh
