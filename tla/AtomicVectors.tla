--------------------------- MODULE AtomicVectors ---------------------------
(***************************************************************************)
(* What vector_add of threads-bugs/ promises: every thread adds one vector *)
(* to another a number of times, and each addition is one atomic step on   *)
(* all the elements.                                                       *)
(***************************************************************************)
EXTENDS Integers

CONSTANTS
    Threads, Vectors, Elements,
    First(_),           \* the value of every element of a vector at the start
    Quota               \* additions per thread

VARIABLES
    to, from,           \* the vectors a thread adds to, and adds
    vals,               \* the vectors
    adds                \* per thread, additions made

atomicVars == <<to, from, vals, adds>>

AtomicInit ==
    /\ to \in [Threads -> Vectors]
    /\ from \in [Threads -> Vectors]
    /\ vals = [v \in Vectors |-> [e \in Elements |-> First(v)]]
    /\ adds = [t \in Threads |-> 0]

Add(t) ==
    /\ adds[t] < Quota
    /\ vals' = [vals EXCEPT ![to[t]] = [e \in Elements |-> @[e] + vals[from[t]][e]]]
    /\ adds' = [adds EXCEPT ![t] = @ + 1]
    /\ UNCHANGED <<to, from>>

AtomicNext == \E t \in Threads : Add(t)

AtomicSpec == AtomicInit /\ [][AtomicNext]_atomicVars
=============================================================================
