SPECIFICATION Spec
CONSTANTS
    n1 = n1
    n2 = n2
    Note <- TwoNotes
    Style <- FourStyles
    Contact = 4
    Boundary = 5
    Excitation = 1
    Travel <- PreRolls
SYMMETRY Fingers
INVARIANTS
    NothingClicks
    StopOpensGently
    PlayedStringIsOpen
    BoundaryIsWhole
    OneHand
