SPECIFICATION Spec
CONSTANTS
    Sustain = Sustain
    palm = palm
    DownStroke = DownStroke
    alternate = alternate
    lowString = lowString
    highString = highString
    vibrato = vibrato
    PlayStyles <- MCPlayStyles
    PickStyles <- MCPickStyles
    Strings <- MCStrings
    Gestures <- MCGestures
    PlayableNotes <- MCPlayable
    GapNotes <- MCGap
    Shift = 12
    MaxDown = 3
INVARIANTS
    StyleIsLatestOrBase
    SoloMaskIsOwned
    NoPhantomKeys
    GuitarsAgree
PROPERTY
    OnlyItsOwnKeyLifts
