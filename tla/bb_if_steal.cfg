SPECIFICATION Spec
CONSTANTS
    NumProducers = 1
    NumConsumers = 2
    Loops = 1
    Max = 1
    Variant <- TwoCvsIf
    MaxWakeups = 0
INVARIANTS NeverFails
