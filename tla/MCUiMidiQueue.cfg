SPECIFICATION HistoryFairSpec
CONSTANTS
    click = click
    press = press
    lift = lift
    blank = blank
    Capacity = 3
    Events <- GestureEvents
    Conditioning <- ConditioningEvents
    Blank = blank
INVARIANTS
    ProducerKeepsOut
PROPERTIES
    StablePartition
    RingImplementsMailbox
    EveryPanicIsAnswered
    EveryGestureIsConsumed
