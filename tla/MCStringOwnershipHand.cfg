SPECIFICATION Spec
CONSTANTS
    Strings <- TwoStrings
    OpenNote <- TwoOpenNotes
    FretCount = 6
    Clients <- OneHand
INVARIANTS
    HeldIsOwed
    KeyDownMeansHeld
    NothingRingsUnattended
    OneStringPerMember
PROPERTIES
    LastNoteOffLifts
    FingerMovesOnlyWhenNeeded
