\* CHECK_DEADLOCK is off: vector-deadlock.c -d is there to deadlock.
SPECIFICATION FairSpec
CONSTANTS
    NumThreads = 3
    Loops = 2
    Size = 2
INVARIANTS NoDeadlock NoLostAdd
PROPERTIES Termination ImplementsAtomicAdd
CHECK_DEADLOCK FALSE
