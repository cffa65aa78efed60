------------------------------- MODULE MCSSD -------------------------------
\* Instances of SSD for TLC.
EXTENDS SSD, TLC

Symmetry == Permutations(Values)
=============================================================================
