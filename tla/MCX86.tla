------------------------------- MODULE MCX86 -------------------------------
\* Instances of X86 for TLC.
EXTENDS X86

\* The schedules of two threads of up to four places.
MCManual ==
    {s \in UNION {[1 .. n -> Threads] : n \in 2 .. 4} : Threads = {s[k] : k \in DOMAIN s}}
=============================================================================
