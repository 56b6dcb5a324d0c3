SPECIFICATION MpeSpec
CONSTANTS
    e2 = e2
    g3 = g3
    Notes <- TwoKeys
    Channels <- MasterAndMember
    Layouts <- NoneOneOrOther
    Wheel <- CentreAndUp
    Ranges <- TwoRanges
    DefaultRange = 2
    OwnersPerNote = 2
    Setups <- TwoSetups
SYMMETRY KeySymmetry
INVARIANTS
    OwnersAgree
    NoteOffKeepsIdentity
PROPERTIES
    OwnedBendsFollow
