----------------------------- MODULE VectorAdd -----------------------------
(***************************************************************************)
(* The five programs of threads-bugs/: threads that call vector_add with a *)
(* different locking discipline each.  A step is one call of the pthread   *)
(* library, or one load or store of an element; the count of retries that  *)
(* vector-try-wait.c prints is left out.                                   *)
(***************************************************************************)
EXTENDS Integers, Sequences, FiniteSets

CONSTANTS
    NumThreads,             \* -n
    Loops,                  \* -l
    Size                    \* VECTOR_SIZE

Programs == {"deadlock", "global-order", "try-wait", "avoid-hold-and-wait", "nolock"}

ASSUME VectorAssumption ==
    NumThreads \in Nat \ {0} /\ Loops \in Nat \ {0} /\ Size \in Nat \ {0}

Threads  == 0 .. NumThreads - 1
Vectors  == 0 .. 2 * NumThreads - 1
Elements == 0 .. Size - 1
Nobody   == -1
Global   == 2 * NumThreads      \* the mutex "global" of avoid-hold-and-wait
Locks    == Vectors \cup {Global}

VARIABLES
    program,                \* which of the five programs runs
    cause_deadlock,         \* -d
    enable_parallelism,     \* -p
    values,     \* the vectors
    lock,       \* per mutex, its holder or Nobody
    pc,         \* per thread, the step it takes next
    n,          \* per thread, which mutex of its order comes next
    k,          \* per thread, the element it is at
    reg,        \* per thread, the value it has loaded
    done        \* per thread, calls of vector_add that have returned

options == <<program, cause_deadlock, enable_parallelism>>
vars == <<options, values, lock, pc, n, k, reg, done>>

\* main(): the two vectors of a thread, and which of them it adds to.
vector_0(t) == IF enable_parallelism THEN 2 * t ELSE 0
vector_1(t) == vector_0(t) + 1
Swapped(t)  == cause_deadlock /\ t % 2 = 1
Dst(t) == IF Swapped(t) THEN vector_1(t) ELSE vector_0(t)
Src(t) == IF Swapped(t) THEN vector_0(t) ELSE vector_1(t)

\* vector_init(&v[i], i)
InitialValue(v) == v

\* The order in which each program takes the mutexes ...
DstThenSrc(t)   == <<Dst(t), Src(t)>>
\* Faulty: the order of the parameters is kept.
ByAddress_Unsorted(t) == <<Dst(t), Src(t)>>

ByAddress(t)    == IF Dst(t) < Src(t) THEN <<Dst(t), Src(t)>> ELSE <<Src(t), Dst(t)>>
GlobalFirst(t)  == <<Global, Dst(t), Src(t)>>
LockOrder(t) ==
    CASE program = "global-order"        -> ByAddress(t)
      [] program = "avoid-hold-and-wait" -> GlobalFirst(t)
      [] OTHER                           -> DstThenSrc(t)
\* Faulty: the mutex of the destination is released twice.
UnlockOrder_DstTwice(t) == <<Dst(t), Dst(t)>>

\* ... and in which it releases them after the loop.
UnlockOrder(t) ==
    IF program = "global-order" THEN <<Src(t), Dst(t)>> ELSE <<Dst(t), Src(t)>>

Entry ==
    CASE program = "try-wait" -> "tryDst"
      [] program = "nolock"   -> "loadSrc"
      [] OTHER                -> "acquire"

Init ==
    /\ program \in Programs
    /\ cause_deadlock \in BOOLEAN
    /\ enable_parallelism \in BOOLEAN
    /\ values = [v \in Vectors |-> [e \in Elements |-> InitialValue(v)]]
    /\ lock = [l \in Locks |-> Nobody]
    /\ pc = [t \in Threads |-> Entry]
    /\ n = [t \in Threads |-> 1]
    /\ k = [t \in Threads |-> 0]
    /\ reg = [t \in Threads |-> 0]
    /\ done = [t \in Threads |-> 0]

Goto(t, label) == pc' = [pc EXCEPT ![t] = label]

\* Pthread_mutex_lock on the next mutex of the order.
Acquire(t) ==
    /\ pc[t] = "acquire"
    /\ lock[LockOrder(t)[n[t]]] = Nobody
    /\ lock' = [lock EXCEPT ![LockOrder(t)[n[t]]] = t]
    /\ IF n[t] < Len(LockOrder(t))
       THEN n' = [n EXCEPT ![t] = @ + 1] /\ UNCHANGED pc
       ELSE /\ n' = [n EXCEPT ![t] = 1]
            /\ Goto(t, IF program = "avoid-hold-and-wait" THEN "releaseGlobal" ELSE "load")
    /\ UNCHANGED <<values, k, reg, done>>

ReleaseGlobal(t) ==
    /\ pc[t] = "releaseGlobal"
    /\ lock' = [lock EXCEPT ![Global] = Nobody]
    /\ Goto(t, "load")
    /\ UNCHANGED <<values, n, k, reg, done>>

\* vector-try-wait.c: a failed trylock of dst only goes back to the top.
TryDst(t) ==
    /\ pc[t] = "tryDst" /\ lock[Dst(t)] = Nobody
    /\ lock' = [lock EXCEPT ![Dst(t)] = t]
    /\ Goto(t, "trySrc")
    /\ UNCHANGED <<values, n, k, reg, done>>

\* Faulty: a failed trylock of the source does not stop the addition.
TrySrc_Anyway(t) ==
    /\ pc[t] = "trySrc"
    /\ lock' = [lock EXCEPT ![Src(t)] = t]
    /\ Goto(t, "load")
    /\ UNCHANGED <<values, n, k, reg, done>>

TrySrc(t) ==
    /\ pc[t] = "trySrc"
    /\ IF lock[Src(t)] = Nobody
       THEN lock' = [lock EXCEPT ![Src(t)] = t] /\ Goto(t, "load")
       ELSE Goto(t, "backOff") /\ UNCHANGED lock
    /\ UNCHANGED <<values, n, k, reg, done>>

BackOff(t) ==
    /\ pc[t] = "backOff"
    /\ lock' = [lock EXCEPT ![Dst(t)] = Nobody]
    /\ Goto(t, "tryDst")
    /\ UNCHANGED <<values, n, k, reg, done>>

\* One round of the loop over the elements.
Load(t) ==
    /\ pc[t] = "load"
    /\ reg' = [reg EXCEPT ![t] = values[Dst(t)][k[t]] + values[Src(t)][k[t]]]
    /\ Goto(t, "store")
    /\ UNCHANGED <<values, lock, n, k, done>>

Store(t) ==
    /\ pc[t] = "store"
    /\ values' = [values EXCEPT ![Dst(t)][k[t]] = reg[t]]
    /\ k' = [k EXCEPT ![t] = @ + 1]
    /\ Goto(t, IF k[t] + 1 < Size THEN "load" ELSE "unlock")
    /\ UNCHANGED <<lock, n, reg, done>>

\* The call returns; worker() calls it again, Loops times in all.
Return(t) ==
    /\ done' = [done EXCEPT ![t] = @ + 1]
    /\ k' = [k EXCEPT ![t] = 0]
    /\ n' = [n EXCEPT ![t] = 1]
    /\ Goto(t, IF done[t] + 1 < Loops THEN Entry ELSE "done")

Unlock(t) ==
    /\ pc[t] = "unlock"
    /\ lock' = [lock EXCEPT ![UnlockOrder(t)[n[t]]] = Nobody]
    /\ IF n[t] < Len(UnlockOrder(t))
       THEN n' = [n EXCEPT ![t] = @ + 1] /\ UNCHANGED <<pc, k, done>>
       ELSE Return(t)
    /\ UNCHANGED <<values, reg>>

\* vector-nolock.c: the source element is loaded, then added atomically.
LoadSrc(t) ==
    /\ pc[t] = "loadSrc"
    /\ reg' = [reg EXCEPT ![t] = values[Src(t)][k[t]]]
    /\ Goto(t, "xadd")
    /\ UNCHANGED <<values, lock, n, k, done>>

fetch_and_add(t) == values' = [values EXCEPT ![Dst(t)][k[t]] = @ + reg[t]]

\* Faulty: without the lock prefix the addition is a load and a store.
Xadd_TwoSteps(t) ==
    \/ /\ pc[t] = "xadd"
       /\ reg' = [reg EXCEPT ![t] = @ + values[Dst(t)][k[t]]]
       /\ Goto(t, "xaddStore")
       /\ UNCHANGED <<values, lock, n, k, done>>
    \/ /\ pc[t] = "xaddStore"
       /\ values' = [values EXCEPT ![Dst(t)][k[t]] = reg[t]]
       /\ IF k[t] + 1 < Size
          THEN k' = [k EXCEPT ![t] = @ + 1] /\ Goto(t, "loadSrc") /\ UNCHANGED <<n, done>>
          ELSE Return(t)
       /\ UNCHANGED <<lock, reg>>

Xadd(t) ==
    /\ pc[t] = "xadd"
    /\ fetch_and_add(t)
    /\ IF k[t] + 1 < Size
       THEN k' = [k EXCEPT ![t] = @ + 1] /\ Goto(t, "loadSrc") /\ UNCHANGED <<n, done>>
       ELSE Return(t)
    /\ UNCHANGED <<lock, reg>>

ThreadStep(t) ==
    \/ Acquire(t) \/ ReleaseGlobal(t) \/ TryDst(t) \/ TrySrc(t) \/ BackOff(t)
    \/ Load(t) \/ Store(t) \/ Unlock(t) \/ LoadSrc(t) \/ Xadd(t)

\* main() has joined every thread.
AllDone  == \A t \in Threads : pc[t] = "done"
Finished == AllDone /\ UNCHANGED vars

Next ==
    \/ \E t \in Threads : ThreadStep(t) /\ UNCHANGED options
    \/ Finished

Spec == Init /\ [][Next]_vars
FairSpec == Spec /\ \A t \in Threads : WF_vars(ThreadStep(t) /\ UNCHANGED options)

-----------------------------------------------------------------------------
TypeOK ==
    /\ program \in Programs /\ cause_deadlock \in BOOLEAN /\ enable_parallelism \in BOOLEAN
    /\ values \in [Vectors -> [Elements -> Int]]
    /\ lock \in [Locks -> Threads \cup {Nobody}]
    /\ pc \in [Threads -> {"acquire", "releaseGlobal", "tryDst", "trySrc", "backOff",
                           "load", "store", "unlock", "loadSrc", "xadd", "done"}]
    /\ n \in [Threads -> 1 .. 3]
    /\ k \in [Threads -> 0 .. Size]
    /\ reg \in [Threads -> Int]
    /\ done \in [Threads -> 0 .. Loops]

\* A thread is stuck at a mutex that is held; at a trylock nobody is.
Waits(t) == pc[t] = "acquire" /\ lock[LockOrder(t)[n[t]]] # Nobody

\* vector-deadlock.c deadlocks when -d turns every other thread's addition
\* round and -p does not keep the threads apart.
MayDeadlock == program = "deadlock" /\ cause_deadlock /\ ~enable_parallelism

\* No deadlock: under every other program and option, as long as a thread has
\* additions to make, some thread that has is not waiting for a mutex.
NoDeadlock ==
    ~MayDeadlock => AllDone \/ \E t \in Threads : pc[t] # "done" /\ ~Waits(t)

\* Every worker finishes its additions, in every program that cannot deadlock;
\* in vector-try-wait.c two threads may back off from each other for ever.
MayRunOn == program = "try-wait" /\ cause_deadlock /\ ~enable_parallelism
Termination == <>(AllDone \/ MayDeadlock \/ MayRunOn)

\* Refinement: an addition takes effect for all its elements at once, when the
\* thread enters the loop holding both mutexes; the elements the loop has not
\* reached yet count as already added.  vector-nolock.c does not promise it.
Adding(t) == pc[t] \in {"load", "store", "releaseGlobal"}
AddsTo(v) == {t \in Threads : Adding(t) /\ Dst(t) = v}
Total(v, e) ==
    IF \E t \in AddsTo(v) : k[t] <= e
    THEN values[v][e] + values[Src(CHOOSE t \in AddsTo(v) : TRUE)][e]
    ELSE values[v][e]

Atomic == INSTANCE AtomicVectors WITH
    First <- InitialValue, Quota <- Loops,
    to   <- [t \in Threads |-> Dst(t)],
    from <- [t \in Threads |-> Src(t)],
    vals <- [v \in Vectors |-> [e \in Elements |-> Total(v, e)]],
    adds <- [t \in Threads |-> done[t] + IF Adding(t) \/ pc[t] = "unlock" THEN 1 ELSE 0]

ImplementsAtomicAdd ==
    Atomic!AtomicInit /\ [][program = "nolock" \/ Atomic!AtomicNext]_(Atomic!atomicVars)

\* Without locks the additions interleave element by element, yet none is
\* lost: when every thread adds the same way round, the result is exact.
NoLostAdd ==
    AllDone /\ ~cause_deadlock =>
        \A t \in Threads : \A e \in Elements :
            values[Dst(t)][e] =
                InitialValue(Dst(t)) + Loops * InitialValue(Src(t))
                                     * Cardinality({u \in Threads : Dst(u) = Dst(t)})
=============================================================================
