SPECIFICATION Spec
CONSTANTS
    StringCount = 3
    None = none
    Hosts <- FiveHosts
    Window = 2
    PreRoll = 1
INVARIANTS
    PickCrossesOneWay
    HeardStrokesAlternate
