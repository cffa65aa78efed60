---------------------------- MODULE MCVectorAdd ----------------------------
\* Instances of VectorAdd for TLC.
EXTENDS VectorAdd
=============================================================================
