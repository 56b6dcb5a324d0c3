SPECIFICATION Spec
CONSTANTS
    RingSize = 4
    Delay = 2
    Scratch = 1
    RampLength = 2
    Full = 8
    FreezeAfter = 2
    MaxBlock = 3
    Silence = Silence
    Hosts <- TwoHosts
INVARIANTS
    RoundTripIsConstant
    NothingStaleIsHeard
    FadeHasNoStep
