SPECIFICATION Spec
CONSTANTS
    Strings <- TwoStrings
    OpenNote <- TwoOpenNotes
    FretCount = 6
    Clients <- ChordsOfSoloists
INVARIANTS
    KeyDownMeansHeld
