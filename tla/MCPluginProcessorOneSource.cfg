SPECIFICATION OneSource
CONSTANTS
    key = key
    sustain = sustain
    hammer = hammer
    blank = blank
    Capacity = 2
    Keys <- TheKeys
    Styles <- BothStyles
    ClickStyles <- BothStyles
    HostStyles <- BothStyles
    Blank = blank
INVARIANTS
    NoHangingKey
    StripShowsBaseStyle
PROPERTIES
    LiftedKeysFallSilent
