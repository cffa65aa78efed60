-------------------------- MODULE MCBoundedBuffer --------------------------
\* Instances of BoundedBuffer for TLC.
EXTENDS BoundedBuffer
=============================================================================
