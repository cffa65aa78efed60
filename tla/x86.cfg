SPECIFICATION Spec
CONSTANTS
    NumThreads = 2
    Loops = 2
    Runs <- Programs
    Frequencies = {1, 2, 4}
    Manual <- MCManual
INVARIANTS MutualExclusion
PROPERTIES Termination ImplementsThreads
