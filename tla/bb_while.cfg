SPECIFICATION FairSpec
CONSTANTS
    NumProducers = 2
    NumConsumers = 2
    Loops = 2
    Max = 2
    Variant <- TwoCvsWhile
    MaxWakeups = 1
INVARIANTS NeverFails RingConsistent NoLostWakeup
PROPERTIES Termination ImplementsChannel
