SPECIFICATION GroupSpec
CONSTANTS
    earlier = earlier
    Before = earlier
    MaxHost = 3
    MaxGestures = 2
    Samples <- TwoSamples
    ChordEvents = 2
INVARIANTS
    GroupIsStablePartition
    ChordsAreWhole
