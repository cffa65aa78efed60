------------------------------- MODULE MCAFS -------------------------------
\* Instances of AFS for TLC.  Files are numbered in the order the simulator
\* creates them, which is also their first value.
EXTENDS AFS, TLC

CONSTANTS NumFiles
MCFiles     == 0 .. NumFiles - 1
MCFileValue == [f \in MCFiles |-> f]
Symmetry    == Permutations(FDs)
=============================================================================
