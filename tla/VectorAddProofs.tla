-------------------------- MODULE VectorAddProofs --------------------------
(***************************************************************************)
(* The programs of threads-bugs/, for any number of threads, calls and     *)
(* elements: they do not deadlock, but for the one that is there to;       *)
(* VectorAdd implements AtomicVectors under the four programs that lock,   *)
(* also where it may deadlock; and under all five no addition is lost.     *)
(*                                                                         *)
(* A thread's place in its call determines which mutexes it holds, and     *)
(* nobody else does (LockInv).  The mutexes form no cycle: a thread that   *)
(* holds one of two waits for the other, which is the odd one of a pair,   *)
(* and the odd one is held only by a thread that has both.                 *)
(*                                                                         *)
(* A thread in the loop holds both of its vectors, so that no other one in *)
(* the loop shares a vector with it (Exclusive), and what it has loaded is *)
(* still the sum when it stores it (DataInv).  An element is at all times  *)
(* what the additions that have reached it make it (SumInv).               *)
(***************************************************************************)
EXTENDS VectorAdd, FiniteSetTheorems, TLAPS

USE VectorAssumption

Options ==
    /\ program \in Programs /\ cause_deadlock \in BOOLEAN /\ enable_parallelism \in BOOLEAN

LockTypes ==
    /\ Options
    /\ lock \in [Locks -> Threads \cup {Nobody}]
    /\ pc \in [Threads -> {"acquire", "releaseGlobal", "tryDst", "trySrc", "backOff",
                           "load", "store", "unlock", "loadSrc", "xadd", "done"}]
    /\ n \in [Threads -> 1 .. 3]

\* The programs that take their mutexes with pthread_mutex_lock.
Blocking == program \in {"deadlock", "global-order", "avoid-hold-and-wait"}

\* Which places a program has, and how far a thread is in its orders.
PlaceInv ==
    \A t \in Threads :
        /\ pc[t] = "acquire" => Blocking /\ n[t] \in 1 .. Len(LockOrder(t))
        /\ pc[t] = "releaseGlobal" => program = "avoid-hold-and-wait"
        /\ pc[t] = "unlock" => n[t] \in 1 .. 2
        /\ pc[t] \notin {"acquire", "unlock"} => n[t] = 1

\* The mutexes a thread holds at its place.
Holds(t, l) ==
    \/ pc[t] = "acquire" /\ n[t] >= 2 /\ l = LockOrder(t)[1]
    \/ pc[t] = "acquire" /\ n[t] = 3 /\ l = LockOrder(t)[2]
    \/ pc[t] = "releaseGlobal" /\ l \in {Global, Dst(t), Src(t)}
    \/ pc[t] \in {"trySrc", "backOff"} /\ l = Dst(t)
    \/ pc[t] \in {"load", "store"} /\ l \in {Dst(t), Src(t)}
    \/ pc[t] = "unlock" /\ n[t] = 1 /\ l = UnlockOrder(t)[1]
    \/ pc[t] = "unlock" /\ l = UnlockOrder(t)[2]

LockInv == \A t \in Threads, l \in Locks : lock[l] = t <=> Holds(t, l)

IInv == LockTypes /\ PlaceInv /\ LockInv

-----------------------------------------------------------------------------
\* The two vectors of a thread: a pair, the even one first.
LEMMA Pair ==
    ASSUME Options, NEW t \in Threads
    PROVE  /\ vector_0(t) \in Vectors /\ vector_1(t) \in Vectors
           /\ vector_1(t) = vector_0(t) + 1
           /\ \E i \in Nat : vector_0(t) = 2 * i
           /\ \/ Dst(t) = vector_0(t) /\ Src(t) = vector_1(t)
              \/ Dst(t) = vector_1(t) /\ Src(t) = vector_0(t)
           /\ Dst(t) \in Vectors /\ Src(t) \in Vectors /\ Dst(t) # Src(t)
           /\ Global \notin Vectors
<1>1. t \in Nat /\ 2 * t \in Vectors /\ 2 * t + 1 \in Vectors /\ 0 \in Vectors /\ 1 \in Vectors
    BY DEF Threads, Vectors
<1>2. vector_0(t) \in {0, 2 * t} BY DEF vector_0, Options
<1>3. /\ vector_0(t) \in Vectors /\ vector_1(t) \in Vectors
      /\ vector_1(t) = vector_0(t) + 1
      /\ \E i \in Nat : vector_0(t) = 2 * i
    <2>1. \E i \in {0, t} : vector_0(t) = 2 * i BY <1>1, <1>2
    <2> QED BY <1>1, <1>2, <2>1 DEF vector_1
<1>4. \/ Dst(t) = vector_0(t) /\ Src(t) = vector_1(t)
      \/ Dst(t) = vector_1(t) /\ Src(t) = vector_0(t)
    BY Zenon DEF Dst, Src
<1>5. vector_0(t) # vector_1(t) BY <1>3 DEF Vectors
<1> QED BY <1>3, <1>4, <1>5 DEF Vectors, Global

\* The orders as the programs have them.
LEMMA Orders ==
    ASSUME Options, NEW t \in Threads
    PROVE  /\ program = "avoid-hold-and-wait" =>
                /\ Len(LockOrder(t)) = 3 /\ LockOrder(t)[1] = Global
                /\ LockOrder(t)[2] = Dst(t) /\ LockOrder(t)[3] = Src(t)
           /\ program = "global-order" =>
                /\ Len(LockOrder(t)) = 2
                /\ LockOrder(t)[1] = vector_0(t) /\ LockOrder(t)[2] = vector_1(t)
           /\ program = "deadlock" =>
                /\ Len(LockOrder(t)) = 2
                /\ LockOrder(t)[1] = Dst(t) /\ LockOrder(t)[2] = Src(t)
           /\ Len(UnlockOrder(t)) = 2
           /\ \/ UnlockOrder(t)[1] = Dst(t) /\ UnlockOrder(t)[2] = Src(t)
              \/ UnlockOrder(t)[1] = Src(t) /\ UnlockOrder(t)[2] = Dst(t)
<1>1. CASE program = "avoid-hold-and-wait"
    BY <1>1 DEF LockOrder, GlobalFirst, UnlockOrder
<1>2. CASE program = "global-order"
    <2>1. LockOrder(t) = <<vector_0(t), vector_1(t)>>
        BY <1>2, Pair DEF LockOrder, ByAddress, Vectors
    <2> QED BY <1>2, <2>1 DEF UnlockOrder
<1>3. CASE program = "deadlock"
    BY <1>3 DEF LockOrder, DstThenSrc, UnlockOrder
<1>4. CASE program \in {"try-wait", "nolock"}
    BY <1>4 DEF UnlockOrder
<1> QED BY <1>1, <1>2, <1>3, <1>4 DEF Options, Programs

\* The mutexes of an order are different ones.
LEMMA OrderOf ==
    ASSUME Options, NEW t \in Threads
    PROVE  /\ Blocking => Len(LockOrder(t)) \in {2, 3}
           /\ Blocking => \A i \in 1 .. Len(LockOrder(t)) :
                /\ LockOrder(t)[i] \in {Dst(t), Src(t), Global} /\ LockOrder(t)[i] \in Locks
                /\ \A j \in 1 .. Len(LockOrder(t)) : LockOrder(t)[i] = LockOrder(t)[j] => i = j
           /\ UnlockOrder(t)[1] \in Locks /\ UnlockOrder(t)[2] \in Locks
           /\ UnlockOrder(t)[1] # UnlockOrder(t)[2]
           /\ \A l : l \in {UnlockOrder(t)[1], UnlockOrder(t)[2]} <=> l \in {Dst(t), Src(t)}
           /\ Blocking /\ program # "avoid-hold-and-wait" =>
                /\ Len(LockOrder(t)) = 2
                /\ \A l : l \in {LockOrder(t)[1], LockOrder(t)[2]} <=> l \in {Dst(t), Src(t)}
<1>1. UnlockOrder(t)[1] \in Locks /\ UnlockOrder(t)[2] \in Locks
    BY Pair, Orders DEF Locks
<1>2. /\ UnlockOrder(t)[1] # UnlockOrder(t)[2]
      /\ \A l : l \in {UnlockOrder(t)[1], UnlockOrder(t)[2]} <=> l \in {Dst(t), Src(t)}
    BY Pair, Orders
<1>3. CASE program = "avoid-hold-and-wait"
    <2>1. Global # Dst(t) /\ Global # Src(t) /\ Dst(t) # Src(t)
          /\ {Dst(t), Src(t), Global} \subseteq Locks
        BY Pair DEF Locks
    <2> QED BY <1>1, <1>2, <1>3, <2>1, Orders
<1>4. CASE program \in {"deadlock", "global-order"}
    <2>1. Dst(t) # Src(t) /\ {Dst(t), Src(t)} \subseteq Locks
        BY Pair DEF Locks
    <2>2. /\ Len(LockOrder(t)) = 2
          /\ \/ LockOrder(t)[1] = Dst(t) /\ LockOrder(t)[2] = Src(t)
             \/ LockOrder(t)[1] = Src(t) /\ LockOrder(t)[2] = Dst(t)
        BY <1>4, Pair, Orders
    <2> QED BY <1>1, <1>2, <1>4, <2>1, <2>2
<1> QED BY <1>1, <1>2, <1>3, <1>4 DEF Blocking

\* The options do not change, and with them neither do the orders.
LEMMA SameOrders ==
    ASSUME UNCHANGED options, NEW t
    PROVE  /\ Dst(t)' = Dst(t) /\ Src(t)' = Src(t)
           /\ LockOrder(t)' = LockOrder(t) /\ UnlockOrder(t)' = UnlockOrder(t)
           /\ program' = program /\ Options' = Options /\ Blocking' = Blocking
<1>1. /\ program' = program /\ cause_deadlock' = cause_deadlock
      /\ enable_parallelism' = enable_parallelism
    BY DEF options
<1> QED BY <1>1, Zenon DEF Dst, Src, LockOrder, UnlockOrder, ByAddress, GlobalFirst, DstThenSrc,
        vector_0, vector_1, Swapped, Options, Blocking
-----------------------------------------------------------------------------
\* At the start of main() no mutex is held and every thread is before its first call.
LEMMA InitInv == Init => IInv
<1> SUFFICES ASSUME Init PROVE IInv OBVIOUS
<1>1. Options BY DEF Init, Options
<1>2. LockTypes
    BY <1>1 DEF Init, LockTypes, Entry, Programs, Locks
<1>3. ASSUME NEW t \in Threads
      PROVE  /\ pc[t] \in {"acquire", "tryDst", "loadSrc"} /\ n[t] = 1
             /\ pc[t] = "acquire" => Blocking
    BY DEF Init, Entry, Blocking, Programs
<1>4. PlaceInv
    <2> SUFFICES ASSUME NEW t \in Threads, pc[t] = "acquire" PROVE 1 \in 1 .. Len(LockOrder(t))
        BY <1>3 DEF PlaceInv
    <2>1. Blocking BY <1>3
    <2>2. Len(LockOrder(t)) \in {2, 3} BY <1>1, <2>1, OrderOf, Zenon
    <2> QED BY <2>2
<1>5. LockInv
    <2> SUFFICES ASSUME NEW t \in Threads, NEW l \in Locks PROVE lock[l] # t /\ ~Holds(t, l)
        BY DEF LockInv
    <2>1. lock[l] # t BY DEF Init, Nobody, Threads
    <2>2. ~Holds(t, l) BY <1>3 DEF Holds
    <2> QED BY <2>1, <2>2
<1> QED BY <1>2, <1>4, <1>5 DEF IInv

\* A step takes t to a place its program has, ...
Goes(t, place, m) ==
    /\ pc' = [pc EXCEPT ![t] = place] /\ n' = [n EXCEPT ![t] = m]
    /\ m \in 1 .. 3
    /\ place \in {"acquire", "releaseGlobal", "tryDst", "trySrc", "backOff",
                  "load", "store", "unlock", "loadSrc", "xadd", "done"}
    /\ place = "acquire" => Blocking /\ m \in 1 .. Len(LockOrder(t))
    /\ place = "releaseGlobal" => program = "avoid-hold-and-wait"
    /\ place = "unlock" => m \in 1 .. 2
    /\ place \notin {"acquire", "unlock"} => m = 1

\* ... and takes mutexes from nobody and gives back its own.
Touches(t) ==
    /\ lock' \in [Locks -> Threads \cup {Nobody}]
    /\ \A l \in Locks : lock'[l] # lock[l] => {lock[l], lock'[l]} \subseteq {t, Nobody}

\* A step that changes only its thread's place, and mutexes from or to that thread, keeps the
\* invariant for the others.
LEMMA StepKeeps ==
    ASSUME IInv, UNCHANGED options, NEW t \in Threads, NEW place, NEW m,
           Goes(t, place, m), Touches(t),
           \A l \in Locks : lock'[l] = t <=> Holds(t, l)'
    PROVE  IInv'
<1>1. LockTypes'
    BY SameOrders DEF IInv, LockTypes, Goes, Touches
<1>2. /\ pc'[t] = place /\ n'[t] = m
      /\ \A u \in Threads : u # t => pc'[u] = pc[u] /\ n'[u] = n[u]
    BY DEF IInv, LockTypes, Goes
<1>3. PlaceInv'
    <2> SUFFICES ASSUME NEW u \in Threads
                 PROVE  /\ pc'[u] = "acquire" => Blocking' /\ n'[u] \in 1 .. Len(LockOrder(u)')
                        /\ pc'[u] = "releaseGlobal" => program' = "avoid-hold-and-wait"
                        /\ pc'[u] = "unlock" => n'[u] \in 1 .. 2
                        /\ pc'[u] \notin {"acquire", "unlock"} => n'[u] = 1
        BY DEF PlaceInv
    <2>1. LockOrder(u)' = LockOrder(u) /\ program' = program /\ Blocking' = Blocking
        BY SameOrders
    <2> QED BY <1>2, <2>1 DEF IInv, PlaceInv, Goes
<1>4. LockInv'
    <2> SUFFICES ASSUME NEW u \in Threads, NEW l \in Locks PROVE lock'[l] = u <=> Holds(u, l)'
        BY DEF LockInv, Locks, Threads, Vectors, Global
    <2>1. CASE u = t BY <2>1
    <2>2. CASE u # t
        <3>1. Holds(u, l)' <=> Holds(u, l)
            <4>1. /\ Dst(u)' = Dst(u) /\ Src(u)' = Src(u) /\ Global' = Global
                  /\ LockOrder(u)' = LockOrder(u) /\ UnlockOrder(u)' = UnlockOrder(u)
                BY SameOrders DEF Global
            <4> QED BY <1>2, <2>2, <4>1 DEF Holds
        <3>2. lock'[l] = u <=> lock[l] = u
            BY <2>2 DEF Nobody, Threads, Touches
        <3> QED BY <3>1, <3>2 DEF IInv, LockInv
    <2> QED BY <2>1, <2>2
<1> QED BY <1>1, <1>3, <1>4 DEF IInv

\* One step of a thread, action by action.
LEMMA StepInv == IInv /\ [Next]_vars => IInv'
<1> SUFFICES ASSUME IInv, [Next]_vars PROVE IInv'
    OBVIOUS
<1>t. /\ Options /\ lock \in [Locks -> Threads \cup {Nobody}]
      /\ n \in [Threads -> 1 .. 3] /\ Nobody \notin Threads
    BY DEF IInv, LockTypes, Nobody, Threads
<1>1. CASE UNCHANGED vars
    <2>1. UNCHANGED options /\ UNCHANGED <<lock, pc, n>> BY <1>1 DEF vars
    <2>2. \A u : /\ Dst(u)' = Dst(u) /\ Src(u)' = Src(u)
                 /\ LockOrder(u)' = LockOrder(u) /\ UnlockOrder(u)' = UnlockOrder(u)
                 /\ Blocking' = Blocking /\ Options' = Options /\ program' = program
        BY <2>1, SameOrders
    <2>3. LockTypes' BY <2>1, <2>2 DEF IInv, LockTypes
    <2>4. PlaceInv' BY <2>1, <2>2 DEF IInv, PlaceInv
    <2>5. ASSUME NEW u \in Threads, NEW l \in Locks PROVE Holds(u, l)' <=> Holds(u, l)
        BY <2>1, <2>2 DEF Holds, Global
    <2>6. LockInv' BY <2>1, <2>5 DEF IInv, LockInv, Locks, Threads, Vectors, Global
    <2> QED BY <2>3, <2>4, <2>6 DEF IInv
<1>2. ASSUME NEW t \in Threads, ThreadStep(t), UNCHANGED options
      PROVE  IInv'
    <2>o. /\ Dst(t)' = Dst(t) /\ Src(t)' = Src(t) /\ Global' = Global
          /\ LockOrder(t)' = LockOrder(t) /\ UnlockOrder(t)' = UnlockOrder(t)
        BY <1>2, SameOrders DEF Global
    <2>h. \A l \in Locks : lock[l] = t <=> Holds(t, l)
        BY <1>2 DEF IInv, LockInv
    <2>p. /\ pc[t] = "acquire" => Blocking /\ n[t] \in 1 .. Len(LockOrder(t))
          /\ pc[t] = "unlock" => n[t] \in 1 .. 2
          /\ pc[t] \notin {"acquire", "unlock"} => n[t] = 1
          /\ pc[t] = "releaseGlobal" => program = "avoid-hold-and-wait"
          /\ pc \in [Threads -> {"acquire", "releaseGlobal", "tryDst", "trySrc", "backOff",
                                  "load", "store", "unlock", "loadSrc", "xadd", "done"}]
        BY <1>2 DEF IInv, PlaceInv, LockTypes
    <2>v. /\ Dst(t) \in Locks \ {Global} /\ Src(t) \in Locks \ {Global} /\ Dst(t) # Src(t)
          /\ Global \in Locks
        BY <1>t, <1>2, Pair DEF Locks
    <2>w. /\ UnlockOrder(t)[1] \in Locks /\ UnlockOrder(t)[2] \in Locks
          /\ UnlockOrder(t)[1] # UnlockOrder(t)[2]
          /\ \A l : l \in {UnlockOrder(t)[1], UnlockOrder(t)[2]} <=> l \in {Dst(t), Src(t)}
          /\ Len(UnlockOrder(t)) = 2
        BY <1>t, <1>2, OrderOf, Orders
    <2>e. /\ Entry \in {"acquire", "tryDst", "loadSrc"}
          /\ Entry = "acquire" => Blocking /\ 1 \in 1 .. Len(LockOrder(t))
        <3>1. Entry = "acquire" => Blocking BY <1>t DEF Entry, Blocking, Options, Programs
        <3> QED BY <1>t, <1>2, <3>1, OrderOf DEF Entry
    <2>1. CASE Acquire(t)
        <3> DEFINE l0 == LockOrder(t)[n[t]]
        <3>1. /\ Blocking /\ n[t] \in 1 .. Len(LockOrder(t)) /\ pc[t] = "acquire"
              /\ Len(LockOrder(t)) \in {2, 3}
            BY <2>1, <2>p, <1>t, <1>2, OrderOf DEF Acquire
        <3>2. /\ l0 \in Locks /\ lock[l0] = Nobody /\ lock' = [lock EXCEPT ![l0] = t]
              /\ \A i \in 1 .. Len(LockOrder(t)) : LockOrder(t)[i] = l0 => i = n[t]
            BY <2>1, <3>1, <1>t, <1>2, OrderOf DEF Acquire
        <3>3. CASE n[t] < Len(LockOrder(t))
            <4>1. /\ n' = [n EXCEPT ![t] = n[t] + 1] /\ pc' = [pc EXCEPT ![t] = "acquire"]
                  /\ n[t] + 1 \in 1 .. 3 /\ n[t] + 1 \in 1 .. Len(LockOrder(t))
                <5>1. n' = [n EXCEPT ![t] = n[t] + 1] /\ pc' = pc
                    BY <2>1, <3>3, Zenon DEF Acquire
                <5>2. pc = [pc EXCEPT ![t] = "acquire"] BY <1>2, <2>p, <3>1
                <5>3. n[t] + 1 \in 1 .. 3 /\ n[t] + 1 \in 1 .. Len(LockOrder(t))
                    <6> DEFINE last == Len(LockOrder(t))
                    <6>1. last \in {2, 3} /\ n[t] \in 1 .. last /\ n[t] < last BY <3>1, <3>3
                    <6> HIDE DEF last
                    <6>2. n[t] + 1 \in 1 .. 3 /\ n[t] + 1 \in 1 .. last BY <6>1
                    <6> QED BY <6>2 DEF last
                <5> QED BY <5>1, <5>2, <5>3, Zenon
            <4>2. pc'[t] = "acquire" /\ n'[t] = n[t] + 1 BY <4>1, <1>t, <2>p, <1>2
            <4>3. \A l \in Locks : lock'[l] = t <=> Holds(t, l)'
                BY <1>t, <1>2, <2>h, <2>o, <3>1, <3>2, <4>1, <4>2 DEF Holds
            <4>8. Goes(t, "acquire", n[t] + 1)
                BY <1>t, <1>2, <3>1, <3>2, <4>1 DEF Goes
            <4>9. Touches(t) BY <1>t, <1>2, <3>1, <3>2, <4>1 DEF Touches
            <4> QED BY <1>2, <4>8, <4>9, <4>3, StepKeeps
        <3>4. CASE n[t] = Len(LockOrder(t))
            <4> DEFINE place == IF program = "avoid-hold-and-wait" THEN "releaseGlobal" ELSE "load"
            <4>1. n' = [n EXCEPT ![t] = 1] /\ pc' = [pc EXCEPT ![t] = place]
                BY <2>1, <3>1, <3>4 DEF Acquire, Goto
            <4>2. pc'[t] = place /\ n'[t] = 1 BY <4>1, <1>t, <2>p, <1>2
            <4>3. \A l \in Locks : lock'[l] = t <=> Holds(t, l)'
                <5>1. CASE program = "avoid-hold-and-wait"
                    <6>1. /\ n[t] = 3 /\ LockOrder(t)[1] = Global /\ LockOrder(t)[2] = Dst(t)
                          /\ l0 = Src(t)
                        BY <5>1, <3>4, <1>t, <1>2, Orders
                    <6> QED BY <1>t, <1>2, <2>h, <2>o, <2>v, <3>1, <3>2, <4>2, <5>1, <6>1 DEF Holds
                <5>2. CASE program # "avoid-hold-and-wait"
                    <6>1. /\ n[t] = 2 /\ Len(LockOrder(t)) = 2
                          /\ \A l : l \in {LockOrder(t)[1], l0} <=> l \in {Dst(t), Src(t)}
                        BY <5>2, <3>1, <3>4, <1>t, <1>2, OrderOf
                    <6> QED BY <1>t, <1>2, <2>h, <2>o, <2>v, <3>1, <3>2, <4>2, <5>2, <6>1 DEF Holds
                <5> QED BY <5>1, <5>2
            <4>8. Goes(t, place, 1)
                BY <1>t, <1>2, <3>1, <3>2, <4>1 DEF Goes
            <4>9. Touches(t) BY <1>t, <1>2, <3>1, <3>2, <4>1 DEF Touches
            <4> QED BY <1>2, <4>8, <4>9, <4>3, StepKeeps
        <3> QED BY <3>1, <3>3, <3>4
    <2>2. CASE ReleaseGlobal(t)
        <3>1. /\ pc[t] = "releaseGlobal" /\ lock' = [lock EXCEPT ![Global] = Nobody]
              /\ pc' = [pc EXCEPT ![t] = "load"] /\ n' = [n EXCEPT ![t] = 1]
            BY <2>2, <2>p, <1>t, <1>2 DEF ReleaseGlobal, Goto
        <3>2. lock[Global] = t BY <2>h, <2>v, <3>1 DEF Holds
        <3>3. pc'[t] = "load" /\ n'[t] = 1 BY <3>1, <1>t, <2>p, <1>2
        <3>4. \A l \in Locks : lock'[l] = t <=> Holds(t, l)'
            BY <1>t, <1>2, <2>h, <2>o, <2>v, <3>1, <3>3 DEF Holds
        <3>8. Goes(t, "load", 1)
            BY <1>t, <1>2, <3>1, <3>2 DEF Goes
        <3>9. Touches(t) BY <1>t, <1>2, <3>1, <3>2 DEF Touches
        <3> QED BY <1>2, <3>8, <3>9, <3>4, StepKeeps
    <2>3. CASE TryDst(t)
        <3>1. /\ pc[t] = "tryDst" /\ lock[Dst(t)] = Nobody /\ lock' = [lock EXCEPT ![Dst(t)] = t]
              /\ pc' = [pc EXCEPT ![t] = "trySrc"] /\ n' = [n EXCEPT ![t] = 1]
            BY <2>3, <2>p, <1>t, <1>2 DEF TryDst, Goto
        <3>3. pc'[t] = "trySrc" /\ n'[t] = 1 BY <3>1, <1>t, <2>p, <1>2
        <3>4. \A l \in Locks : lock'[l] = t <=> Holds(t, l)'
            BY <1>t, <1>2, <2>h, <2>o, <2>v, <3>1, <3>3 DEF Holds
        <3>8. Goes(t, "trySrc", 1)
            BY <1>t, <1>2, <3>1 DEF Goes
        <3>9. Touches(t) BY <1>t, <1>2, <3>1 DEF Touches
        <3> QED BY <1>2, <3>8, <3>9, <3>4, StepKeeps
    <2>4. CASE TrySrc(t)
        <3>1. pc[t] = "trySrc" /\ n' = [n EXCEPT ![t] = 1]
            BY <2>4, <2>p, <1>t, <1>2 DEF TrySrc
        <3>2. CASE lock[Src(t)] = Nobody
            <4>1. /\ lock' = [lock EXCEPT ![Src(t)] = t] /\ pc' = [pc EXCEPT ![t] = "load"]
                BY <2>4, <3>2 DEF TrySrc, Goto
            <4>2. pc'[t] = "load" /\ n'[t] = 1 BY <3>1, <4>1, <1>t, <2>p, <1>2
            <4>3. \A l \in Locks : lock'[l] = t <=> Holds(t, l)'
                BY <1>t, <1>2, <2>h, <2>o, <2>v, <3>1, <4>1, <4>2 DEF Holds
            <4>8. Goes(t, "load", 1)
                BY <1>t, <1>2, <3>1, <3>2, <4>1 DEF Goes
            <4>9. Touches(t) BY <1>t, <1>2, <3>1, <3>2, <4>1 DEF Touches
            <4> QED BY <1>2, <4>8, <4>9, <4>3, StepKeeps
        <3>3. CASE lock[Src(t)] # Nobody
            <4>1. lock' = lock /\ pc' = [pc EXCEPT ![t] = "backOff"]
                BY <2>4, <3>3 DEF TrySrc, Goto
            <4>2. pc'[t] = "backOff" /\ n'[t] = 1 BY <3>1, <4>1, <1>t, <2>p, <1>2
            <4>3. \A l \in Locks : lock'[l] = t <=> Holds(t, l)'
                BY <1>t, <1>2, <2>h, <2>o, <2>v, <3>1, <4>1, <4>2 DEF Holds
            <4>8. Goes(t, "backOff", 1)
                BY <1>t, <1>2, <3>1, <4>1 DEF Goes
            <4>9. Touches(t) BY <1>t, <1>2, <3>1, <4>1 DEF Touches
            <4> QED BY <1>2, <4>8, <4>9, <4>3, StepKeeps
        <3> QED BY <3>2, <3>3
    <2>5. CASE BackOff(t)
        <3>1. /\ pc[t] = "backOff" /\ lock' = [lock EXCEPT ![Dst(t)] = Nobody]
              /\ pc' = [pc EXCEPT ![t] = "tryDst"] /\ n' = [n EXCEPT ![t] = 1]
            BY <2>5, <2>p, <1>t, <1>2 DEF BackOff, Goto
        <3>2. lock[Dst(t)] = t BY <2>h, <2>v, <3>1 DEF Holds
        <3>3. pc'[t] = "tryDst" /\ n'[t] = 1 BY <3>1, <1>t, <2>p, <1>2
        <3>4. \A l \in Locks : lock'[l] = t <=> Holds(t, l)'
            BY <1>t, <1>2, <2>h, <2>o, <2>v, <3>1, <3>3 DEF Holds
        <3>8. Goes(t, "tryDst", 1)
            BY <1>t, <1>2, <3>1, <3>2 DEF Goes
        <3>9. Touches(t) BY <1>t, <1>2, <3>1, <3>2 DEF Touches
        <3> QED BY <1>2, <3>8, <3>9, <3>4, StepKeeps
    <2>6. CASE Load(t)
        <3>1. /\ pc[t] = "load" /\ lock' = lock /\ pc' = [pc EXCEPT ![t] = "store"]
              /\ n' = [n EXCEPT ![t] = 1]
            BY <2>6, <2>p, <1>t, <1>2 DEF Load, Goto
        <3>3. pc'[t] = "store" /\ n'[t] = 1 BY <3>1, <1>t, <2>p, <1>2
        <3>4. \A l \in Locks : lock'[l] = t <=> Holds(t, l)'
            BY <1>t, <1>2, <2>h, <2>o, <2>v, <3>1, <3>3 DEF Holds
        <3>8. Goes(t, "store", 1)
            BY <1>t, <1>2, <3>1 DEF Goes
        <3>9. Touches(t) BY <1>t, <1>2, <3>1 DEF Touches
        <3> QED BY <1>2, <3>8, <3>9, <3>4, StepKeeps
    <2>7. CASE Store(t)
        <3>1. PICK place \in {"load", "unlock"} :
                /\ pc[t] = "store" /\ lock' = lock /\ pc' = [pc EXCEPT ![t] = place]
                /\ n' = [n EXCEPT ![t] = 1]
            BY <2>7, <2>p, <1>t, <1>2 DEF Store, Goto
        <3>3. pc'[t] = place /\ n'[t] = 1 BY <3>1, <1>t, <2>p, <1>2
        <3>4. \A l \in Locks : lock'[l] = t <=> Holds(t, l)'
            BY <1>t, <1>2, <2>h, <2>o, <2>v, <2>w, <3>1, <3>3 DEF Holds
        <3>8. Goes(t, place, 1)
            BY <1>t, <1>2, <3>1 DEF Goes
        <3>9. Touches(t) BY <1>t, <1>2, <3>1 DEF Touches
        <3> QED BY <1>2, <3>8, <3>9, <3>4, StepKeeps
    <2>8. CASE Unlock(t)
        <3> DEFINE l0 == UnlockOrder(t)[n[t]]
        <3>1. pc[t] = "unlock" /\ lock' = [lock EXCEPT ![l0] = Nobody] /\ n[t] \in 1 .. 2
            BY <2>8, <2>p DEF Unlock
        <3>2. l0 \in Locks /\ lock[l0] = t BY <2>h, <2>w, <3>1 DEF Holds
        <3>3. CASE n[t] = 1
            <4>1. n' = [n EXCEPT ![t] = 2] /\ pc' = [pc EXCEPT ![t] = "unlock"]
                BY <2>8, <2>p, <2>w, <3>1, <3>3 DEF Unlock
            <4>2. pc'[t] = "unlock" /\ n'[t] = 2 BY <4>1, <1>t, <2>p, <1>2
            <4>3. \A l \in Locks : lock'[l] = t <=> Holds(t, l)'
                BY <1>t, <1>2, <2>h, <2>o, <2>w, <3>1, <3>3, <4>2 DEF Holds
            <4>8. Goes(t, "unlock", 2)
                BY <1>t, <1>2, <3>1, <3>2, <4>1 DEF Goes
            <4>9. Touches(t) BY <1>t, <1>2, <3>1, <3>2, <4>1 DEF Touches
            <4> QED BY <1>2, <4>8, <4>9, <4>3, StepKeeps
        <3>4. CASE n[t] = 2
            <4>1. PICK place \in {Entry, "done"} :
                    n' = [n EXCEPT ![t] = 1] /\ pc' = [pc EXCEPT ![t] = place]
                BY <2>8, <2>w, <3>4 DEF Unlock, Return, Goto
            <4>2. pc'[t] = place /\ n'[t] = 1 BY <4>1, <1>t, <2>p, <1>2
            <4>3. \A l \in Locks : lock'[l] = t <=> Holds(t, l)'
                BY <1>t, <1>2, <2>e, <2>h, <2>o, <2>w, <3>1, <3>4, <4>1, <4>2 DEF Holds
            <4>8. Goes(t, place, 1)
                BY <1>t, <1>2, <2>e, <3>1, <3>2, <4>1 DEF Goes
            <4>9. Touches(t) BY <1>t, <1>2, <2>e, <3>1, <3>2, <4>1 DEF Touches
            <4> QED BY <1>2, <4>8, <4>9, <4>3, StepKeeps
        <3> QED BY <3>1, <3>3, <3>4
    <2>9. CASE LoadSrc(t) \/ Xadd(t)
        <3>1. PICK place \in {Entry, "done", "loadSrc", "xadd"} :
                /\ pc[t] \in {"loadSrc", "xadd"} /\ lock' = lock
                /\ pc' = [pc EXCEPT ![t] = place] /\ n' = [n EXCEPT ![t] = 1]
            <4>1. CASE LoadSrc(t) BY <4>1, <2>p, <1>t, <1>2 DEF LoadSrc, Goto
            <4>2. CASE Xadd(t) BY <4>2, <2>p, <1>t, <1>2 DEF Xadd, Return, Goto
            <4> QED BY <2>9, <4>1, <4>2
        <3>3. pc'[t] = place /\ n'[t] = 1 BY <3>1, <1>t, <2>p, <1>2
        <3>4. \A l \in Locks : lock'[l] = t <=> Holds(t, l)'
            BY <1>t, <1>2, <2>e, <2>h, <2>o, <3>1, <3>3 DEF Holds
        <3>8. Goes(t, place, 1)
            BY <1>t, <1>2, <2>e, <3>1 DEF Goes
        <3>9. Touches(t) BY <1>t, <1>2, <2>e, <3>1 DEF Touches
        <3> QED BY <1>2, <3>8, <3>9, <3>4, StepKeeps
    <2> QED BY <1>2, <2>1, <2>2, <2>3, <2>4, <2>5, <2>6, <2>7, <2>8, <2>9 DEF ThreadStep
<1> QED BY <1>1, <1>2 DEF Next, Finished

-----------------------------------------------------------------------------
\* A thread that waits holds the first mutexes of its order and none of the others.
LEMMA WaitsFor ==
    ASSUME IInv, NEW t \in Threads, Waits(t)
    PROVE  /\ pc[t] = "acquire" /\ Blocking /\ n[t] \in 1 .. Len(LockOrder(t))
           /\ \E u \in Threads : lock[LockOrder(t)[n[t]]] = u /\ Holds(u, LockOrder(t)[n[t]])
<1>1. pc[t] = "acquire" /\ Blocking /\ n[t] \in 1 .. Len(LockOrder(t))
    BY DEF Waits, IInv, PlaceInv
<1>2. LockOrder(t)[n[t]] \in Locks
    BY <1>1, OrderOf DEF IInv, LockTypes
<1>3. lock[LockOrder(t)[n[t]]] \in Threads
    BY <1>2 DEF Waits, IInv, LockTypes
<1> QED BY <1>1, <1>2, <1>3 DEF IInv, LockInv

\* Of two mutexes in a fixed order the second is held only by a thread that has both.
LEMMA PairsFree ==
    ASSUME IInv, ~MayDeadlock, program \in {"deadlock", "global-order"},
           \A t \in Threads : pc[t] = "done" \/ Waits(t)
    PROVE  AllDone
<1> SUFFICES ASSUME NEW t \in Threads, Waits(t) PROVE FALSE
    BY DEF AllDone
<1>1. Options BY DEF IInv, LockTypes
<1>2. ASSUME NEW u \in Threads, pc[u] = "acquire"
      PROVE  /\ Len(LockOrder(u)) = 2 /\ n[u] \in 1 .. 2
             /\ \/ /\ LockOrder(u)[1] = vector_0(u) /\ LockOrder(u)[2] = vector_1(u)
                \/ enable_parallelism
             /\ LockOrder(u)[1] # LockOrder(u)[2]
             /\ {LockOrder(u)[1], LockOrder(u)[2]} = {vector_0(u), vector_1(u)}
    <2>1. Len(LockOrder(u)) = 2 /\ n[u] \in 1 .. 2
        BY <1>1, <1>2, Orders DEF IInv, PlaceInv
    <2>2. /\ LockOrder(u)[1] # LockOrder(u)[2]
          /\ {LockOrder(u)[1], LockOrder(u)[2]} = {vector_0(u), vector_1(u)}
        BY <1>1, <1>2, Pair, Orders DEF Vectors
    <2>3. CASE program = "global-order" BY <1>1, <2>1, <2>2, <2>3, Orders
    <2>4. CASE program = "deadlock" /\ ~enable_parallelism
        <3>1. ~Swapped(u) BY <2>4, Zenon DEF MayDeadlock, Swapped
        <3> QED BY <1>1, <2>1, <2>2, <2>4, <3>1, Orders DEF Dst, Src
    <2> QED BY <2>1, <2>2, <2>3, <2>4
\* Whoever waits for its second mutex would find it free.
<1>3. ASSUME NEW u \in Threads, Waits(u) PROVE n[u] = 1
    <2> SUFFICES ASSUME n[u] # 1 PROVE FALSE OBVIOUS
    <2>1. pc[u] = "acquire" /\ n[u] = 2 BY <1>2, <1>3, WaitsFor
    <2>2. PICK w \in Threads : lock[LockOrder(u)[2]] = w /\ Holds(w, LockOrder(u)[2])
        BY <1>3, <2>1, WaitsFor
    <2>3. pc[w] = "acquire" /\ n[w] = 2 /\ LockOrder(u)[2] = LockOrder(w)[1]
        <3>1. pc[w] \in {"acquire", "done"} BY DEF Waits
        <3> QED BY <1>2, <2>2, <3>1 DEF Holds
    <2>4. CASE enable_parallelism
        <3>1. vector_0(u) = 2 * u /\ vector_1(u) = 2 * u + 1
            BY <2>4 DEF vector_0, vector_1
        <3>2. vector_0(w) = 2 * w /\ vector_1(w) = 2 * w + 1
            BY <2>4 DEF vector_0, vector_1
        <3>3. u = w
            <4>1. LockOrder(u)[2] \in {2 * u, 2 * u + 1} BY <1>2, <2>1, <3>1
            <4>2. LockOrder(u)[2] \in {2 * w, 2 * w + 1} BY <1>2, <2>3, <3>2
            <4> QED BY <4>1, <4>2 DEF Threads
        <3> QED BY <1>2, <2>1, <2>3, <3>3
    <2>5. CASE ~enable_parallelism
        <3>1. vector_0(w) = 0 /\ vector_1(u) = 1
            BY <2>5 DEF vector_0, vector_1
        <3>2. LockOrder(u)[2] = vector_1(u) /\ LockOrder(w)[1] = vector_0(w)
            BY <1>2, <2>1, <2>3, <2>5
        <3>3. vector_0(w) # vector_1(u) BY <3>1
        <3> QED BY <2>3, <3>2, <3>3, Zenon
    <2> QED BY <2>4, <2>5
<1>4. PICK u \in Threads : Holds(u, LockOrder(t)[n[t]])
    BY WaitsFor
<1>5. Waits(u) /\ n[u] # 1
    <2>1. pc[u] \in {"acquire", "done"} BY DEF Waits
    <2>2. pc[u] = "acquire" /\ n[u] >= 2 BY <1>4, <2>1 DEF Holds
    <2> QED BY <2>2
<1> QED BY <1>3, <1>5

\* Who has the global mutex finds the others free.
LEMMA GlobalFree ==
    ASSUME IInv, program = "avoid-hold-and-wait",
           \A t \in Threads : pc[t] = "done" \/ Waits(t)
    PROVE  AllDone
<1> SUFFICES ASSUME NEW t \in Threads, Waits(t) PROVE FALSE
    BY DEF AllDone
<1>1. Options BY DEF IInv, LockTypes
<1>2. ASSUME NEW u \in Threads
      PROVE  /\ LockOrder(u)[1] = Global /\ LockOrder(u)[2] = Dst(u) /\ LockOrder(u)[3] = Src(u)
             /\ Len(LockOrder(u)) = 3
             /\ Dst(u) # Src(u) /\ Global \notin {Dst(u), Src(u)} /\ Global \in Locks
    BY <1>1, Orders, Pair DEF Locks
\* Whoever holds a mutex has the global one, and there is one such thread only.
<1>3. ASSUME NEW u \in Threads, NEW l, Holds(u, l)
      PROVE  pc[u] = "acquire" /\ Waits(u) /\ n[u] >= 2 /\ lock[Global] = u
    <2>1. pc[u] \in {"acquire", "done"} BY DEF Waits
    <2>2. pc[u] = "acquire" /\ n[u] >= 2
        <3>1. n[u] \in 1 .. 3 BY DEF IInv, LockTypes
        <3> QED BY <1>3, <2>1, <3>1 DEF Holds
    <2>3. Holds(u, Global) BY <1>2, <2>2 DEF Holds
    <2> QED BY <1>2, <2>2, <2>3 DEF IInv, LockInv
<1>4. PICK u \in Threads : Holds(u, LockOrder(t)[n[t]])
    BY WaitsFor
<1>5. /\ Waits(u) /\ n[u] \in 2 .. 3 /\ lock[Global] = u /\ pc[u] = "acquire"
    BY <1>3, <1>4 DEF IInv, LockTypes
<1>6. PICK w \in Threads : Holds(w, LockOrder(u)[n[u]])
    BY <1>5, WaitsFor
<1>7. w = u BY <1>3, <1>5, <1>6
<1> QED BY <1>2, <1>5, <1>6, <1>7 DEF Holds

\* At trylock and without locks nobody waits.
LEMMA InvNoDeadlock == IInv => NoDeadlock
<1> SUFFICES ASSUME IInv, ~MayDeadlock, \A t \in Threads : pc[t] = "done" \/ Waits(t)
             PROVE  AllDone
    BY DEF NoDeadlock
<1>1. CASE Blocking BY <1>1, PairsFree, GlobalFree DEF Blocking
<1>2. CASE ~Blocking BY <1>2, WaitsFor DEF AllDone
<1> QED BY <1>1, <1>2

\* The places of the threads say which mutexes are held, and by whom.
THEOREM VectorLocks == Spec => [](LockTypes /\ LockInv)
<1>1. IInv => LockTypes /\ LockInv BY DEF IInv
<1> QED BY InitInv, StepInv, <1>1, PTL DEF Spec

\* vector_add: under no program and no options but vector-deadlock.c -d without -p do all
\* threads that have additions to make wait for a mutex.
THEOREM VectorNoDeadlock == Spec => []NoDeadlock
<1> QED BY InitInv, StepInv, InvNoDeadlock, PTL DEF Spec

-----------------------------------------------------------------------------
\* What the additions come to.
DataInv ==
    program # "nolock" =>
        /\ values \in [Vectors -> [Elements -> Int]]
        /\ k \in [Threads -> Nat] /\ reg \in [Threads -> Int] /\ done \in [Threads -> Nat]
        /\ \A t \in Threads :
              /\ pc[t] \notin {"loadSrc", "xadd"}
              /\ pc[t] \in {"load", "store"} => k[t] \in Elements
              /\ pc[t] \notin {"load", "store", "unlock"} => k[t] = 0
              /\ pc[t] = "store" => reg[t] = values[Dst(t)][k[t]] + values[Src(t)][k[t]]
              /\ pc[t] # "done" => done[t] < Loops

AInv == IInv /\ DataInv

-----------------------------------------------------------------------------
\* Two threads in the loop have no vector in common.
LEMMA Exclusive ==
    IInv => \A t, u \in Threads :
        Adding(t) /\ Adding(u) /\ t # u =>
            {Dst(t), Src(t)} \cap {Dst(u), Src(u)} = {}
<1> SUFFICES ASSUME IInv, NEW t \in Threads, NEW u \in Threads, Adding(t), Adding(u), t # u,
                    NEW l, l \in {Dst(t), Src(t)}, l \in {Dst(u), Src(u)}
             PROVE  FALSE
    OBVIOUS
<1>1. l \in Locks BY Pair DEF IInv, LockTypes, Locks
<1>2. Holds(t, l) /\ Holds(u, l) BY DEF Holds, Adding
<1> QED BY <1>1, <1>2 DEF IInv, LockInv

\* The same in the next state.
LEMMA ExclusiveNext ==
    IInv' => \A t, u \in Threads :
        Adding(t)' /\ Adding(u)' /\ t # u =>
            {Dst(t)', Src(t)'} \cap {Dst(u)', Src(u)'} = {}
<1>1. (IInv => \A t, u \in Threads :
        Adding(t) /\ Adding(u) /\ t # u =>
            {Dst(t), Src(t)} \cap {Dst(u), Src(u)} = {})'
    BY Exclusive, PTL
<1> QED BY <1>1 DEF Threads

\* The elements a thread has not reached count as added, and those of a vector nobody
\* adds to are what they are.
LEMMA TotalIs ==
    IInv => \A v \in Vectors, e \in Elements :
        /\ (\A t \in Threads : Adding(t) /\ Dst(t) = v => ~(k[t] <= e))
              => Total(v, e) = values[v][e]
        /\ \A t \in Threads : Adding(t) /\ Dst(t) = v /\ k[t] <= e
              => Total(v, e) = values[v][e] + values[Src(t)][e]
<1> SUFFICES ASSUME IInv, NEW v \in Vectors, NEW e \in Elements
             PROVE  /\ (\A t \in Threads : Adding(t) /\ Dst(t) = v => ~(k[t] <= e))
                          => Total(v, e) = values[v][e]
                    /\ \A t \in Threads : Adding(t) /\ Dst(t) = v /\ k[t] <= e
                          => Total(v, e) = values[v][e] + values[Src(t)][e]
    OBVIOUS
<1>1. ASSUME \A t \in Threads : Adding(t) /\ Dst(t) = v => ~(k[t] <= e)
      PROVE  Total(v, e) = values[v][e]
    BY <1>1 DEF Total, AddsTo
<1>2. ASSUME NEW t \in Threads, Adding(t), Dst(t) = v, k[t] <= e
      PROVE  Total(v, e) = values[v][e] + values[Src(t)][e]
    <2>1. AddsTo(v) = {t}
        <3>1. \A u \in AddsTo(v) : u = t BY <1>2, Exclusive DEF AddsTo
        <3> QED BY <1>2, <3>1 DEF AddsTo
    <2>2. (CHOOSE u \in AddsTo(v) : TRUE) = t BY <2>1
    <2> QED BY <1>2, <2>1, <2>2 DEF Total
<1> QED BY <1>1, <1>2

\* The same in the next state.
LEMMA TotalNext ==
    IInv' => \A v \in Vectors, e \in Elements :
        /\ (\A t \in Threads : Adding(t)' /\ Dst(t)' = v => ~(k'[t] <= e))
              => Total(v, e)' = values'[v][e]
        /\ \A t \in Threads : Adding(t)' /\ Dst(t)' = v /\ k'[t] <= e
              => Total(v, e)' = values'[v][e] + values'[Src(t)'][e]
<1>1. (IInv => \A v \in Vectors, e \in Elements :
        /\ (\A t \in Threads : Adding(t) /\ Dst(t) = v => ~(k[t] <= e))
              => Total(v, e) = values[v][e]
        /\ \A t \in Threads : Adding(t) /\ Dst(t) = v /\ k[t] <= e
              => Total(v, e) = values[v][e] + values[Src(t)][e])'
    BY TotalIs, PTL
<1> QED BY <1>1 DEF Threads, Vectors, Elements

-----------------------------------------------------------------------------
\* The vector of which nothing is known to change keeps its total.
LEMMA Frame ==
    ASSUME IInv, IInv', UNCHANGED options, NEW v \in Vectors, NEW e \in Elements,
           values'[v][e] = values[v][e],
           \A u \in Threads : Dst(u) = v =>
                /\ Adding(u)' /\ k'[u] <= e <=> Adding(u) /\ k[u] <= e
                /\ Adding(u) => values'[Src(u)][e] = values[Src(u)][e]
    PROVE  Total(v, e)' = Total(v, e)
<1>1. \A u : Dst(u)' = Dst(u) /\ Src(u)' = Src(u) BY SameOrders
<1>2. CASE \E u \in Threads : Adding(u) /\ Dst(u) = v /\ k[u] <= e
    <2>1. PICK u \in Threads : Adding(u) /\ Dst(u) = v /\ k[u] <= e BY <1>2
    <2>2. Adding(u)' /\ k'[u] <= e /\ values'[Src(u)][e] = values[Src(u)][e] BY <2>1
    <2>3. Total(v, e) = values[v][e] + values[Src(u)][e] BY <2>1, TotalIs
    <2>4. Total(v, e)' = values'[v][e] + values'[Src(u)][e] BY <1>1, <2>1, <2>2, TotalNext
    <2> QED BY <2>2, <2>3, <2>4
<1>3. CASE ~\E u \in Threads : Adding(u) /\ Dst(u) = v /\ k[u] <= e
    <2>1. Total(v, e) = values[v][e] BY <1>3, TotalIs
    <2>2. Total(v, e)' = values'[v][e] BY <1>1, <1>3, TotalNext
    <2> QED BY <2>1, <2>2
<1> QED BY <1>2, <1>3

-----------------------------------------------------------------------------
\* At the start no thread has loaded anything.
LEMMA DataInit == Init => DataInv
<1> SUFFICES ASSUME Init, program # "nolock" PROVE DataInv BY DEF DataInv
<1>1. /\ values \in [Vectors -> [Elements -> Int]]
      /\ k \in [Threads -> Nat] /\ reg \in [Threads -> Int] /\ done \in [Threads -> Nat]
    BY DEF Init, InitialValue, Vectors
<1>2. ASSUME NEW t \in Threads
      PROVE  pc[t] \in {"acquire", "tryDst"} /\ k[t] = 0 /\ done[t] < Loops
    BY VectorAssumption DEF Init, Entry
<1> QED BY <1>1, <1>2 DEF DataInv

\* What a thread has loaded stays the sum, since only itself may store to its vectors.
LEMMA DataStep == AInv /\ [Next]_vars => DataInv'
<1> SUFFICES ASSUME IInv, DataInv, [Next]_vars, program' # "nolock" PROVE DataInv'
    BY DEF AInv, DataInv
<1>i. IInv' BY StepInv
<1>1. CASE UNCHANGED vars
    <2>1. UNCHANGED options /\ UNCHANGED <<values, pc, k, reg, done>> BY <1>1 DEF vars
    <2>2. \A u : Dst(u)' = Dst(u) /\ Src(u)' = Src(u) /\ program' = program
        BY <2>1, SameOrders
    <2> QED BY <2>1, <2>2 DEF DataInv
<1>2. ASSUME NEW t \in Threads, ThreadStep(t), UNCHANGED options
      PROVE  DataInv'
    <2>o. \A u : Dst(u)' = Dst(u) /\ Src(u)' = Src(u) /\ program' = program
        BY <1>2, SameOrders
    <2>d. /\ program # "nolock"
          /\ values \in [Vectors -> [Elements -> Int]]
          /\ k \in [Threads -> Nat] /\ reg \in [Threads -> Int] /\ done \in [Threads -> Nat]
          /\ \A u \in Threads :
                /\ pc[u] \notin {"loadSrc", "xadd"}
                /\ pc[u] \in {"load", "store"} => k[u] \in Elements
                /\ pc[u] \notin {"load", "store", "unlock"} => k[u] = 0
                /\ pc[u] = "store" => reg[u] = values[Dst(u)][k[u]] + values[Src(u)][k[u]]
                /\ pc[u] # "done" => done[u] < Loops
        BY <2>o DEF DataInv
    <2>p. pc \in [Threads -> {"acquire", "releaseGlobal", "tryDst", "trySrc", "backOff",
                              "load", "store", "unlock", "loadSrc", "xadd", "done"}]
        BY DEF IInv, LockTypes
    <2>v. Dst(t) \in Vectors /\ Src(t) \in Vectors /\ Dst(t) # Src(t)
        BY <1>2, Pair DEF IInv, LockTypes
    <2>n. 0 \in Elements /\ Elements \subseteq Nat BY VectorAssumption DEF Elements
    <2>1. CASE /\ UNCHANGED <<values, k, reg, done>>
               /\ \E place \in {"acquire", "releaseGlobal", "tryDst", "trySrc", "backOff",
                               "load", "unlock"} :
                     /\ pc' = [pc EXCEPT ![t] = place]
                     /\ pc[t] \notin {"load", "store", "done"}
                     /\ pc[t] = "unlock" <=> place = "unlock"
        <3>1. ASSUME NEW u \in Threads
              PROVE  /\ pc'[u] \notin {"loadSrc", "xadd"}
                     /\ pc'[u] \in {"load", "store"} => k[u] \in Elements
                     /\ pc'[u] \notin {"load", "store", "unlock"} => k[u] = 0
                     /\ pc'[u] = "store" => reg[u] = values[Dst(u)][k[u]] + values[Src(u)][k[u]]
                     /\ pc'[u] # "done" => done[u] < Loops
            <4>1. CASE u = t BY <2>1, <2>d, <2>p, <2>n, <4>1
            <4>2. CASE u # t BY <2>1, <2>d, <2>p, <4>2
            <4> QED BY <4>1, <4>2
        <3> QED BY <2>1, <2>d, <2>o, <3>1 DEF DataInv
    <2>2. CASE Load(t)
        <3>1. /\ pc[t] = "load" /\ pc' = [pc EXCEPT ![t] = "store"]
              /\ reg' = [reg EXCEPT ![t] = values[Dst(t)][k[t]] + values[Src(t)][k[t]]]
              /\ UNCHANGED <<values, k, done>>
            BY <2>2 DEF Load, Goto
        <3>2. k[t] \in Elements BY <1>2, <2>d, <3>1
        <3>3. values[Dst(t)][k[t]] + values[Src(t)][k[t]] \in Int BY <2>d, <2>v, <3>2
        <3>4. reg' \in [Threads -> Int] BY <2>d, <3>1, <3>3
        <3>5. ASSUME NEW u \in Threads
              PROVE  /\ pc'[u] \notin {"loadSrc", "xadd"}
                     /\ pc'[u] \in {"load", "store"} => k[u] \in Elements
                     /\ pc'[u] \notin {"load", "store", "unlock"} => k[u] = 0
                     /\ pc'[u] = "store" => reg'[u] = values[Dst(u)][k[u]] + values[Src(u)][k[u]]
                     /\ pc'[u] # "done" => done[u] < Loops
            <4>1. CASE u = t BY <2>d, <2>p, <3>1, <3>2, <4>1
            <4>2. CASE u # t BY <2>d, <2>p, <3>1, <4>2
            <4> QED BY <4>1, <4>2
        <3> QED BY <2>d, <2>o, <3>1, <3>4, <3>5 DEF DataInv
    <2>3. CASE Store(t)
        <3> DEFINE place == IF k[t] + 1 < Size THEN "load" ELSE "unlock"
        <3>1. /\ pc[t] = "store" /\ pc' = [pc EXCEPT ![t] = place]
              /\ values' = [values EXCEPT ![Dst(t)][k[t]] = reg[t]]
              /\ k' = [k EXCEPT ![t] = k[t] + 1]
              /\ UNCHANGED <<reg, done>>
            BY <2>3, Zenon DEF Store, Goto
        <3>2. k[t] \in Elements BY <1>2, <2>d, <3>1
        <3>3. values' \in [Vectors -> [Elements -> Int]] /\ k' \in [Threads -> Nat]
            <4>1. [values[Dst(t)] EXCEPT ![k[t]] = reg[t]] \in [Elements -> Int]
                BY <1>2, <2>d, <2>v
            <4>2. values' = [values EXCEPT ![Dst(t)] = [values[Dst(t)] EXCEPT ![k[t]] = reg[t]]]
                BY <3>1, Zenon
            <4>3. values' \in [Vectors -> [Elements -> Int]] BY <2>d, <4>1, <4>2
            <4>4. k[t] + 1 \in Nat BY <1>2, <2>d
            <4>5. k' \in [Threads -> Nat] BY <2>d, <3>1, <4>4
            <4> QED BY <4>3, <4>5
        <3>4. \A v \in Vectors : v # Dst(t) => values'[v] = values[v] BY <2>d, <3>1
        <3>5. place = "load" => k[t] + 1 \in Elements
            BY <1>2, <2>d, VectorAssumption DEF Elements
        <3>6. ASSUME NEW u \in Threads
              PROVE  /\ pc'[u] \notin {"loadSrc", "xadd"}
                     /\ pc'[u] \in {"load", "store"} => k'[u] \in Elements
                     /\ pc'[u] \notin {"load", "store", "unlock"} => k'[u] = 0
                     /\ pc'[u] = "store" => reg[u] = values'[Dst(u)][k'[u]] + values'[Src(u)][k'[u]]
                     /\ pc'[u] # "done" => done[u] < Loops
            <4>1. CASE u = t
                <5>1. pc'[t] = place /\ k'[t] = k[t] + 1 BY <1>2, <2>d, <2>p, <3>1
                <5> QED BY <1>2, <2>d, <3>1, <3>5, <4>1, <5>1
            <4>2. CASE u # t
                <5>1. pc'[u] = pc[u] /\ k'[u] = k[u] BY <2>d, <2>p, <3>1, <4>2
                <5>2. pc[u] = "store" => values'[Dst(u)] = values[Dst(u)] /\ values'[Src(u)] = values[Src(u)]
                    <6>1. Dst(u) \in Vectors /\ Src(u) \in Vectors BY Pair DEF IInv, LockTypes
                    <6>2. pc[u] = "store" => Dst(u) # Dst(t) /\ Src(u) # Dst(t)
                        BY <1>2, <3>1, <4>2, Exclusive DEF Adding
                    <6> QED BY <3>4, <6>1, <6>2
                <5> QED BY <2>d, <5>1, <5>2
            <4> QED BY <4>1, <4>2
        <3> QED BY <2>d, <2>o, <3>1, <3>3, <3>6 DEF DataInv
    <2>4. CASE Unlock(t)
        <3>1. /\ pc[t] = "unlock" /\ UNCHANGED <<values, reg>>
              /\ \/ UNCHANGED <<pc, k, done>>
                 \/ /\ done' = [done EXCEPT ![t] = @ + 1] /\ k' = [k EXCEPT ![t] = 0]
                    /\ pc' = [pc EXCEPT ![t] = IF done[t] + 1 < Loops THEN Entry ELSE "done"]
            BY <2>4 DEF Unlock, Return, Goto
        <3>2. CASE UNCHANGED <<pc, k, done>> BY <2>d, <2>o, <3>1, <3>2 DEF DataInv
        <3>3. CASE /\ done' = [done EXCEPT ![t] = @ + 1] /\ k' = [k EXCEPT ![t] = 0]
                   /\ pc' = [pc EXCEPT ![t] = IF done[t] + 1 < Loops THEN Entry ELSE "done"]
            <4>1. Entry \in {"acquire", "tryDst"} BY <2>d DEF Entry
            <4>2. done' \in [Threads -> Nat] /\ k' \in [Threads -> Nat] BY <2>d, <3>3
            <4>3. ASSUME NEW u \in Threads
                  PROVE  /\ pc'[u] \notin {"loadSrc", "xadd"}
                         /\ pc'[u] \in {"load", "store"} => k'[u] \in Elements
                         /\ pc'[u] \notin {"load", "store", "unlock"} => k'[u] = 0
                         /\ pc'[u] = "store" =>
                                reg[u] = values[Dst(u)][k'[u]] + values[Src(u)][k'[u]]
                         /\ pc'[u] # "done" => done'[u] < Loops
                <5>1. CASE u = t
                    <6>1. /\ pc'[t] = (IF done[t] + 1 < Loops THEN Entry ELSE "done")
                          /\ k'[t] = 0 /\ done'[t] = done[t] + 1
                        BY <1>2, <2>d, <2>p, <3>3
                    <6> QED BY <4>1, <5>1, <6>1
                <5>2. CASE u # t BY <2>d, <2>p, <3>3, <5>2
                <5> QED BY <5>1, <5>2
            <4> QED BY <2>d, <2>o, <3>1, <4>2, <4>3 DEF DataInv
        <3> QED BY <3>1, <3>2, <3>3
    <2>5. CASE Acquire(t)
        <3>1. /\ pc[t] = "acquire" /\ UNCHANGED <<values, k, reg, done>>
              /\ \/ pc' = pc
                 \/ pc' = [pc EXCEPT ![t] = "releaseGlobal"]
                 \/ pc' = [pc EXCEPT ![t] = "load"]
            BY <2>5 DEF Acquire, Goto
        <3>2. pc = [pc EXCEPT ![t] = "acquire"] BY <1>2, <2>p, <3>1
        <3> QED BY <2>1, <3>1, <3>2
    <2>6. CASE ReleaseGlobal(t) BY <2>1, <2>6 DEF ReleaseGlobal, Goto
    <2>7. CASE TryDst(t) BY <2>1, <2>7 DEF TryDst, Goto
    <2>8. CASE TrySrc(t) BY <2>1, <2>8 DEF TrySrc, Goto
    <2>9. CASE BackOff(t) BY <2>1, <2>9 DEF BackOff, Goto
    <2>10. ~LoadSrc(t) /\ ~Xadd(t) BY <1>2, <2>d DEF LoadSrc, Xadd
    <2> QED BY <1>2, <2>2, <2>3, <2>4, <2>5, <2>6, <2>7, <2>8, <2>9, <2>10 DEF ThreadStep
<1> QED BY <1>1, <1>2 DEF Next, Finished

-----------------------------------------------------------------------------
\* The vectors and the additions as AtomicVectors has them.
Vals == [v \in Vectors |-> [e \in Elements |-> Total(v, e)]]
Counted(t) == Adding(t) \/ pc[t] = "unlock"
Adds == [t \in Threads |-> done[t] + IF Counted(t) THEN 1 ELSE 0]

\* A step by which no thread enters or leaves the loop, and totals stay, is none there.
LEMMA Stutters ==
    ASSUME UNCHANGED options,
           \A v \in Vectors, e \in Elements : Total(v, e)' = Total(v, e),
           \A t \in Threads :
              (done[t] + IF Counted(t) THEN 1 ELSE 0)' = done[t] + IF Counted(t) THEN 1 ELSE 0
    PROVE  UNCHANGED Atomic!atomicVars
<1>1. \A u : Dst(u)' = Dst(u) /\ Src(u)' = Src(u) BY SameOrders
<1>2. Vals' = Vals BY DEF Vals, Vectors, Elements
<1>3. Adds' = Adds BY DEF Adds, Threads
<1>4. [t \in Threads |-> Dst(t)]' = [t \in Threads |-> Dst(t)] BY <1>1 DEF Threads
<1>5. [t \in Threads |-> Src(t)]' = [t \in Threads |-> Src(t)] BY <1>1 DEF Threads
<1> QED BY <1>2, <1>3, <1>4, <1>5 DEF Vals, Adds, Counted, Atomic!atomicVars

\* Where nobody stores and nobody enters the loop, totals stay.
LEMMA Quiet ==
    ASSUME AInv, AInv', program # "nolock", UNCHANGED options, UNCHANGED <<values, done>>,
           \A u \in Threads :
              /\ Adding(u)' <=> Adding(u)
              /\ Counted(u)' <=> Counted(u)
              /\ Adding(u) => k'[u] = k[u]
    PROVE  UNCHANGED Atomic!atomicVars
<1>1. ASSUME NEW v \in Vectors, NEW e \in Elements PROVE Total(v, e)' = Total(v, e)
    <2>1. IInv /\ IInv' /\ values'[v][e] = values[v][e] BY DEF AInv
    <2>2. ASSUME NEW u \in Threads, Adding(u)
          PROVE  (k'[u] <= e <=> k[u] <= e) /\ values'[Src(u)][e] = values[Src(u)][e]
        BY <2>2
    <2> QED BY <2>1, <2>2, Frame
<1>2. ASSUME NEW t \in Threads
      PROVE  (done[t] + IF Counted(t) THEN 1 ELSE 0)' = done[t] + IF Counted(t) THEN 1 ELSE 0
    <2>1. done' = done /\ (Counted(t)' <=> Counted(t)) OBVIOUS
    <2>2. CASE Counted(t) BY <2>1, <2>2
    <2>3. CASE ~Counted(t) BY <2>1, <2>3
    <2> QED BY <2>2, <2>3
<1> QED BY <1>1, <1>2, Stutters

\* Entering the loop makes the addition.
LEMMA Enters ==
    ASSUME AInv, AInv', program # "nolock", UNCHANGED options, UNCHANGED <<values, k, done>>,
           NEW t \in Threads, NEW place \in {"releaseGlobal", "load"},
           pc' = [pc EXCEPT ![t] = place], pc[t] \in {"acquire", "trySrc"}
    PROVE  Atomic!Add(t)
<1>p. /\ pc \in [Threads -> {"acquire", "releaseGlobal", "tryDst", "trySrc", "backOff",
                              "load", "store", "unlock", "loadSrc", "xadd", "done"}]
      /\ Dst(t) \in Vectors /\ Src(t) \in Vectors /\ Dst(t) # Src(t)
    BY Pair DEF AInv, IInv, LockTypes
<1>d. /\ k[t] = 0 /\ done \in [Threads -> Nat] /\ done[t] < Loops
      /\ values \in [Vectors -> [Elements -> Int]]
    BY DEF AInv, DataInv
<1>o. \A u : Dst(u)' = Dst(u) /\ Src(u)' = Src(u) BY SameOrders
<1>1. Adding(t)' /\ ~Adding(t) /\ \A u \in Threads \ {t} : pc'[u] = pc[u]
    BY <1>p DEF Adding
<1>2. \A u \in Threads \ {t} : Adding(u)' <=> Adding(u)
    BY <1>1 DEF Adding
<1>3. \A u \in Threads : Adding(u) => Dst(u) \notin {Dst(t), Src(t)}
    BY <1>1, <1>2, <1>o, ExclusiveNext DEF AInv
<1>4. ASSUME NEW v \in Vectors, NEW e \in Elements, v = Dst(t)
      PROVE  /\ Total(v, e) = values[v][e] /\ Total(Src(t), e) = values[Src(t)][e]
             /\ Total(v, e)' = values[v][e] + values[Src(t)][e]
    <2>1. Total(v, e) = values[v][e] /\ Total(Src(t), e) = values[Src(t)][e]
        BY <1>p, <1>3, <1>4, TotalIs DEF AInv
    <2>2. Adding(t)' /\ Dst(t)' = Dst(t) /\ Src(t)' = Src(t) /\ k'[t] <= e
        BY <1>1, <1>o, <1>d DEF Elements
    <2>3. Total(v, e)' = values'[v][e] + values'[Src(t)][e]
        BY <1>p, <1>4, <1>o, <2>2, TotalNext DEF AInv
    <2> QED BY <2>1, <2>3
<1>5. ASSUME NEW v \in Vectors, NEW e \in Elements, v # Dst(t)
      PROVE  Total(v, e)' = Total(v, e)
    BY <1>2, <1>5, Frame DEF AInv
<1>6. Vals' = [Vals EXCEPT ![Dst(t)] = [e \in Elements |-> @[e] + Vals[Src(t)][e]]]
    <2> DEFINE sum == [e \in Elements |-> Vals[Dst(t)][e] + Vals[Src(t)][e]]
    <2>1. sum = [e \in Elements |-> values[Dst(t)][e] + values[Src(t)][e]]
        BY <1>p, <1>4 DEF Vals
    <2>2. Vals' = [v \in Vectors |-> [e \in Elements |-> Total(v, e)']]
        BY DEF Vals, Vectors, Elements
    <2>3. ASSUME NEW v \in Vectors
          PROVE  [e \in Elements |-> Total(v, e)'] = IF v = Dst(t) THEN sum ELSE Vals[v]
        <3>1. CASE v = Dst(t) BY <1>4, <2>1, <3>1
        <3>2. CASE v # Dst(t) BY <1>5, <3>2 DEF Vals
        <3> QED BY <3>1, <3>2
    <2> HIDE DEF sum
    <2>4. Vals' = [v \in Vectors |-> IF v = Dst(t) THEN sum ELSE Vals[v]]
        BY <2>2, <2>3
    <2>5. Vals' = [Vals EXCEPT ![Dst(t)] = sum]
        BY <2>4 DEF Vals
    <2> QED BY <2>5 DEF sum
<1>7. Adds[t] < Loops /\ Adds' = [Adds EXCEPT ![t] = @ + 1]
    <2>1. ~Counted(t) /\ Counted(t)' BY <1>1 DEF Counted
    <2>2. \A u \in Threads \ {t} : Counted(u)' <=> Counted(u) BY <1>1, <1>2 DEF Counted
    <2>3. Adds' = [u \in Threads |-> done[u] + IF Counted(u)' THEN 1 ELSE 0]
        BY DEF Adds, Threads
    <2>4. ASSUME NEW u \in Threads
          PROVE  done[u] + (IF Counted(u)' THEN 1 ELSE 0) = IF u = t THEN Adds[t] + 1 ELSE Adds[u]
        BY <1>d, <2>1, <2>2 DEF Adds
    <2>5. Adds' = [u \in Threads |-> IF u = t THEN Adds[t] + 1 ELSE Adds[u]]
        BY <2>3, <2>4
    <2>6. Adds' = [Adds EXCEPT ![t] = Adds[t] + 1] BY <2>5 DEF Adds
    <2> QED BY <1>d, <2>1, <2>6 DEF Adds
<1>8. [u \in Threads |-> Dst(u)]' = [u \in Threads |-> Dst(u)] BY <1>o DEF Threads
<1>9. [u \in Threads |-> Src(u)]' = [u \in Threads |-> Src(u)] BY <1>o DEF Threads
<1>10. /\ [u \in Threads |-> Dst(u)][t] = Dst(t) /\ [u \in Threads |-> Src(u)][t] = Src(t)
    OBVIOUS
<1> QED BY <1>6, <1>7, <1>8, <1>9, <1>10 DEF Vals, Adds, Counted, Atomic!Add

\* Storing an element replaces what counted as added by what is.
LEMMA Stores ==
    ASSUME AInv, AInv', program # "nolock", UNCHANGED options, NEW t \in Threads, Store(t)
    PROVE  UNCHANGED Atomic!atomicVars
<1>p. /\ pc \in [Threads -> {"acquire", "releaseGlobal", "tryDst", "trySrc", "backOff",
                              "load", "store", "unlock", "loadSrc", "xadd", "done"}]
      /\ Dst(t) \in Vectors /\ Src(t) \in Vectors /\ Dst(t) # Src(t)
    BY Pair DEF AInv, IInv, LockTypes
<1>s. /\ pc[t] = "store" /\ UNCHANGED <<reg, done>>
      /\ values' = [values EXCEPT ![Dst(t)][k[t]] = reg[t]]
      /\ k' = [k EXCEPT ![t] = k[t] + 1]
      /\ pc' = [pc EXCEPT ![t] = IF k[t] + 1 < Size THEN "load" ELSE "unlock"]
    BY Zenon DEF Store, Goto
<1>d. /\ k \in [Threads -> Nat] /\ k[t] \in Elements /\ done \in [Threads -> Nat]
      /\ values \in [Vectors -> [Elements -> Int]] /\ Elements \subseteq Nat
      /\ reg[t] = values[Dst(t)][k[t]] + values[Src(t)][k[t]]
    BY <1>s DEF AInv, DataInv, Elements
<1>o. \A u : Dst(u)' = Dst(u) /\ Src(u)' = Src(u) BY SameOrders
<1>1. /\ k'[t] = k[t] + 1 /\ pc'[t] = (IF k[t] + 1 < Size THEN "load" ELSE "unlock")
      /\ \A u \in Threads \ {t} : pc'[u] = pc[u] /\ k'[u] = k[u]
    BY <1>p, <1>s, <1>d
<1>2. \A u \in Threads \ {t} : Adding(u)' <=> Adding(u) BY <1>1 DEF Adding
<1>3. /\ Adding(t) /\ \A u \in Threads \ {t} : Adding(u) => Dst(t) \notin {Dst(u), Src(u)}
    <2>1. Adding(t) BY <1>s DEF Adding
    <2> QED BY <2>1, Exclusive DEF AInv
<1>4. /\ \A v \in Vectors : v # Dst(t) => values'[v] = values[v]
      /\ \A e \in Elements : e # k[t] => values'[Dst(t)][e] = values[Dst(t)][e]
      /\ values'[Dst(t)][k[t]] = reg[t]
    BY <1>p, <1>s, <1>d
<1>5. ASSUME NEW v \in Vectors, NEW e \in Elements PROVE Total(v, e)' = Total(v, e)
    <2>i. IInv /\ IInv' BY DEF AInv
    <2>1. CASE v # Dst(t)
        <3>1. values'[v][e] = values[v][e] BY <1>4, <2>1
        <3>2. ASSUME NEW u \in Threads, Dst(u) = v
              PROVE  /\ Adding(u)' /\ k'[u] <= e <=> Adding(u) /\ k[u] <= e
                     /\ Adding(u) => values'[Src(u)][e] = values[Src(u)][e]
            <4>1. u \in Threads \ {t} BY <2>1, <3>2
            <4>2. Src(u) \in Vectors BY <2>i, Pair DEF IInv, LockTypes
            <4>3. Adding(u) => Src(u) # Dst(t) BY <1>3, <4>1
            <4> QED BY <1>1, <1>2, <1>4, <4>1, <4>2, <4>3
        <3> QED BY <2>i, <3>1, <3>2, Frame
    <2>2. CASE v = Dst(t) /\ e # k[t]
        <3>1. values'[v][e] = values[v][e] BY <1>4, <2>2
        <3>2. ASSUME NEW u \in Threads, Dst(u) = v
              PROVE  /\ Adding(u)' /\ k'[u] <= e <=> Adding(u) /\ k[u] <= e
                     /\ Adding(u) => values'[Src(u)][e] = values[Src(u)][e]
            <4>1. CASE u # t BY <1>2, <1>3, <2>2, <3>2, <4>1
            <4>2. CASE u = t
                <5>1. k[t] + 1 <= e <=> k[t] <= e BY <1>d, <2>2
                <5>2. k[t] + 1 <= e => pc'[t] = "load"
                    BY <1>d, <1>1, VectorAssumption DEF Elements
                <5>3. k[t] + 1 <= e => Adding(t)' BY <5>2 DEF Adding
                <5>4. values'[Src(t)] = values[Src(t)] BY <1>p, <1>4
                <5> QED BY <1>1, <1>3, <4>2, <5>1, <5>3, <5>4
            <4> QED BY <4>1, <4>2
        <3> QED BY <2>i, <3>1, <3>2, Frame
    <2>3. CASE v = Dst(t) /\ e = k[t]
        <3>1. Total(v, e) = values[v][e] + values[Src(t)][e]
            BY <1>3, <1>d, <2>i, <2>3, TotalIs
        <3>2. \A u \in Threads : Adding(u)' /\ Dst(u)' = v => ~(k'[u] <= e)
            <4>1. ~(k[t] + 1 <= e) BY <1>d, <2>3
            <4> QED BY <1>1, <1>2, <1>3, <1>o, <2>3, <4>1
        <3>3. Total(v, e)' = values'[v][e] BY <2>i, <3>2, TotalNext
        <3> QED BY <1>4, <1>d, <2>3, <3>1, <3>3
    <2> QED BY <2>1, <2>2, <2>3
<1>6. ASSUME NEW u \in Threads
      PROVE  (done[u] + IF Counted(u) THEN 1 ELSE 0)' = done[u] + IF Counted(u) THEN 1 ELSE 0
    <2>1. Counted(u)' <=> Counted(u)
        <3>1. CASE u = t BY <1>s, <1>1, <3>1 DEF Counted, Adding
        <3>2. CASE u # t BY <1>1, <3>2 DEF Counted, Adding
        <3> QED BY <3>1, <3>2
    <2>2. done' = done BY <1>s
    <2>3. CASE Counted(u) BY <2>1, <2>2, <2>3
    <2>4. CASE ~Counted(u) BY <2>1, <2>2, <2>4
    <2> QED BY <2>3, <2>4
<1> QED BY <1>5, <1>6, Stutters

\* The end of a call is the end of an addition that has been made.
LEMMA Returns ==
    ASSUME AInv, AInv', program # "nolock", UNCHANGED options, UNCHANGED values,
           NEW t \in Threads, pc[t] = "unlock", Return(t)
    PROVE  UNCHANGED Atomic!atomicVars
<1>p. /\ pc \in [Threads -> {"acquire", "releaseGlobal", "tryDst", "trySrc", "backOff",
                              "load", "store", "unlock", "loadSrc", "xadd", "done"}]
      /\ k \in [Threads -> Nat] /\ done \in [Threads -> Nat]
    BY DEF AInv, IInv, LockTypes, DataInv
<1>1. /\ pc'[t] \in {Entry, "done"} /\ done'[t] = done[t] + 1
      /\ \A u \in Threads \ {t} : pc'[u] = pc[u] /\ k'[u] = k[u] /\ done'[u] = done[u]
    BY <1>p DEF Return, Goto
<1>2. ~Adding(t) /\ Counted(t) /\ ~Adding(t)' /\ ~Counted(t)'
    <2>1. Entry \in {"acquire", "tryDst", "loadSrc"} BY DEF Entry
    <2> QED BY <1>1, <2>1 DEF Adding, Counted
<1>3. \A u \in Threads \ {t} : (Adding(u)' <=> Adding(u)) /\ (Counted(u)' <=> Counted(u))
    BY <1>1 DEF Adding, Counted
<1>4. ASSUME NEW v \in Vectors, NEW e \in Elements PROVE Total(v, e)' = Total(v, e)
    <2>1. IInv /\ IInv' /\ values' = values BY DEF AInv
    <2>2. ASSUME NEW u \in Threads
          PROVE  Adding(u)' /\ k'[u] <= e <=> Adding(u) /\ k[u] <= e
        BY <1>1, <1>2, <1>3
    <2> QED BY <2>1, <2>2, Frame
<1>5. ASSUME NEW u \in Threads
      PROVE  (done[u] + IF Counted(u) THEN 1 ELSE 0)' = done[u] + IF Counted(u) THEN 1 ELSE 0
    <2>1. CASE u = t BY <1>1, <1>2, <1>p, <2>1
    <2>2. CASE u # t /\ Counted(u) BY <1>1, <1>3, <2>2
    <2>3. CASE u # t /\ ~Counted(u) BY <1>1, <1>3, <2>3
    <2> QED BY <2>1, <2>2, <2>3
<1> QED BY <1>4, <1>5, Stutters

-----------------------------------------------------------------------------
\* Every step of a thread makes an addition, ends one, or is none there.
LEMMA AtomicStep ==
    AInv /\ AInv' /\ [Next]_vars => [program = "nolock" \/ Atomic!AtomicNext]_(Atomic!atomicVars)
<1> SUFFICES ASSUME AInv, AInv', [Next]_vars, program # "nolock"
             PROVE  Atomic!AtomicNext \/ UNCHANGED Atomic!atomicVars
    OBVIOUS
<1>1. CASE UNCHANGED vars
    <2>1. UNCHANGED options /\ UNCHANGED <<values, done>> /\ pc' = pc /\ k' = k
        BY <1>1 DEF vars
    <2> QED BY <2>1, Quiet DEF Adding, Counted
<1>2. ASSUME NEW t \in Threads, ThreadStep(t), UNCHANGED options
      PROVE  Atomic!AtomicNext \/ UNCHANGED Atomic!atomicVars
    <2>p. pc \in [Threads -> {"acquire", "releaseGlobal", "tryDst", "trySrc", "backOff",
                              "load", "store", "unlock", "loadSrc", "xadd", "done"}]
        BY DEF AInv, IInv, LockTypes
    <2>d. pc[t] \notin {"loadSrc", "xadd"} BY <1>2 DEF AInv, DataInv
    <2>1. CASE \E place \in {"releaseGlobal", "load"} :
                  /\ pc' = [pc EXCEPT ![t] = place] /\ pc[t] \in {"acquire", "trySrc"}
                  /\ UNCHANGED <<values, k, done>>
        <3>1. Atomic!Add(t) BY <1>2, <2>1, Enters
        <3> QED BY <1>2, <3>1 DEF Atomic!AtomicNext
    <2>2. CASE \E place \in {"acquire", "tryDst", "trySrc", "backOff", "load", "store", "unlock"} :
                  /\ pc' = [pc EXCEPT ![t] = place]
                  /\ UNCHANGED <<values, k, done>>
                  /\ pc[t] \in {"releaseGlobal", "load"} <=> place \in {"load", "store"}
                  /\ pc[t] = "unlock" <=> place = "unlock"
                  /\ pc[t] # "store"
        <3>1. PICK place \in {"acquire", "tryDst", "trySrc", "backOff", "load", "store", "unlock"} :
                  /\ pc' = [pc EXCEPT ![t] = place]
                  /\ UNCHANGED <<values, k, done>>
                  /\ pc[t] \in {"releaseGlobal", "load"} <=> place \in {"load", "store"}
                  /\ pc[t] = "unlock" <=> place = "unlock"
                  /\ pc[t] # "store"
            BY <2>2
        <3>2. ASSUME NEW u \in Threads
              PROVE  (Adding(u)' <=> Adding(u)) /\ (Counted(u)' <=> Counted(u))
            <4>1. CASE u = t
                <5>1. pc'[t] = place BY <1>2, <2>p, <3>1
                <5> QED BY <3>1, <4>1, <5>1 DEF Adding, Counted
            <4>2. CASE u # t
                <5>1. pc'[u] = pc[u] BY <2>p, <3>1, <4>2
                <5> QED BY <5>1 DEF Adding, Counted
            <4> QED BY <4>1, <4>2
        <3> QED BY <1>2, <3>1, <3>2, Quiet
    <2>3. CASE Acquire(t)
        <3>1. /\ pc[t] = "acquire" /\ UNCHANGED <<values, k, done>>
              /\ \/ pc' = pc
                 \/ pc' = [pc EXCEPT ![t] = "releaseGlobal"]
                 \/ pc' = [pc EXCEPT ![t] = "load"]
            BY <2>3 DEF Acquire, Goto
        <3>2. pc = [pc EXCEPT ![t] = "acquire"] BY <1>2, <2>p, <3>1
        <3> QED BY <2>1, <2>2, <3>1, <3>2
    <2>4. CASE ReleaseGlobal(t) BY <2>2, <2>4 DEF ReleaseGlobal, Goto
    <2>5. CASE TryDst(t) BY <2>2, <2>5 DEF TryDst, Goto
    <2>6. CASE TrySrc(t) BY <2>1, <2>2, <2>6 DEF TrySrc, Goto
    <2>7. CASE BackOff(t) BY <2>2, <2>7 DEF BackOff, Goto
    <2>8. CASE Load(t) BY <2>2, <2>8 DEF Load, Goto
    <2>9. CASE Store(t) BY <1>2, <2>9, Stores
    <2>10. CASE Unlock(t)
        <3>1. pc[t] = "unlock" /\ UNCHANGED values BY <2>10 DEF Unlock
        <3>2. CASE UNCHANGED <<pc, k, done>>
            <4>1. pc = [pc EXCEPT ![t] = "unlock"] BY <1>2, <2>p, <3>1
            <4> QED BY <2>2, <3>1, <3>2, <4>1
        <3>3. CASE Return(t) BY <1>2, <3>1, <3>3, Returns
        <3> QED BY <2>10, <3>2, <3>3 DEF Unlock
    <2>11. ~LoadSrc(t) /\ ~Xadd(t) BY <2>d DEF LoadSrc, Xadd
    <2> QED BY <1>2, <2>3, <2>4, <2>5, <2>6, <2>7, <2>8, <2>9, <2>10, <2>11 DEF ThreadStep
<1> QED BY <1>1, <1>2 DEF Next, Finished

\* Vectors as main() fills them are the vectors of the promise, with no addition made.
LEMMA AtomicStart == Init => Atomic!AtomicInit
<1> SUFFICES ASSUME Init PROVE Atomic!AtomicInit OBVIOUS
<1>1. \A t \in Threads : Dst(t) \in Vectors /\ Src(t) \in Vectors
    BY Pair DEF Init, Options
<1>2. \A t \in Threads : ~Adding(t) /\ ~Counted(t)
    BY DEF Init, Entry, Adding, Counted
<1>3. Vals = [v \in Vectors |-> [e \in Elements |-> InitialValue(v)]]
    <2>1. \A v \in Vectors, e \in Elements : Total(v, e) = InitialValue(v)
        BY <1>2, TotalIs, InitInv DEF Init
    <2> QED BY <2>1 DEF Vals
<1>4. Adds = [t \in Threads |-> 0]
    BY <1>2 DEF Init, Adds
<1> QED BY <1>1, <1>3, <1>4 DEF Atomic!AtomicInit, Vals, Adds, Counted

\* vector_add under the programs that lock: every addition takes effect on all elements at
\* once, however the threads interleave, lock, fail a trylock and back out.
THEOREM VectorAtomic == Spec => ImplementsAtomicAdd
<1>1. Init => AInv BY InitInv, DataInit DEF AInv
<1>2. AInv /\ [Next]_vars => AInv' BY StepInv, DataStep DEF AInv
<1> QED BY <1>1, <1>2, AtomicStart, AtomicStep, PTL DEF Spec, ImplementsAtomicAdd

-----------------------------------------------------------------------------
\* None is lost: where a thread is in its call, and which additions it has made.
Fine(prog, place, elem, calls) ==
    /\ place \in IF prog = "nolock" THEN {"loadSrc", "xadd", "done"}
                 ELSE {"acquire", "releaseGlobal", "tryDst", "trySrc", "backOff",
                       "load", "store", "unlock", "done"}
    /\ place \in {"load", "store", "loadSrc", "xadd"} => elem \in Elements
    /\ place = "unlock" => elem = Size
    /\ place \notin {"load", "store", "loadSrc", "xadd", "unlock"} => elem = 0
    /\ IF place = "done" THEN calls = Loops ELSE calls < Loops

ElementInv ==
    /\ values \in [Vectors -> [Elements -> Int]]
    /\ k \in [Threads -> Nat] /\ reg \in [Threads -> Int] /\ done \in [Threads -> Nat]
    /\ \A t \in Threads : Fine(program, pc[t], k[t], done[t])

\* The additions to element e that t has made, and those to element e of vector v.
Calls(t, e) == done[t] + IF k[t] > e THEN 1 ELSE 0
Made(v, e)  == {p \in Threads \X (1 .. Loops) : Dst(p[1]) = v /\ p[2] <= Calls(p[1], e)}

\* Added the same way round, every addition adds the next vector's initial value.
SumInv ==
    ~cause_deadlock =>
        /\ \A t \in Threads : pc[t] = "xadd" => reg[t] = InitialValue(Src(t))
        /\ \A v \in Vectors, e \in Elements :
              values[v][e] = InitialValue(v) + (v + 1) * Cardinality(Made(v, e))

CInv == AInv /\ ElementInv /\ SumInv

-----------------------------------------------------------------------------
\* It holds at first.
LEMMA ElementInit == Init => ElementInv
<1> SUFFICES ASSUME Init PROVE ElementInv OBVIOUS
<1>1. /\ values \in [Vectors -> [Elements -> Int]]
      /\ k \in [Threads -> Nat] /\ reg \in [Threads -> Int] /\ done \in [Threads -> Nat]
    BY DEF Init, InitialValue, Vectors
<1>2. ASSUME NEW t \in Threads PROVE Fine(program, pc[t], k[t], done[t])
    <2>1. pc[t] = Entry /\ k[t] = 0 /\ done[t] = 0 BY DEF Init
    <2>2. program = "nolock" => Entry = "loadSrc" BY DEF Entry
    <2>3. program # "nolock" => Entry \in {"acquire", "tryDst"} BY DEF Entry
    <2>4. 0 \in Elements /\ 0 < Loops BY VectorAssumption DEF Elements
    <2> QED BY <2>1, <2>2, <2>3, <2>4 DEF Fine
<1> QED BY <1>1, <1>2 DEF ElementInv

\* The step of one thread leaves the others where they are.
LEMMA OneMoves ==
    ASSUME ElementInv, program' = program, NEW t \in Threads,
           values' \in [Vectors -> [Elements -> Int]], reg' \in [Threads -> Int],
           k' \in [Threads -> Nat], done' \in [Threads -> Nat],
           Fine(program, pc'[t], k'[t], done'[t]),
           \A u \in Threads : u # t => pc'[u] = pc[u] /\ k'[u] = k[u] /\ done'[u] = done[u]
    PROVE  ElementInv'
<1>1. \A u \in Threads : Fine(program', pc'[u], k'[u], done'[u]) BY DEF ElementInv
<1> QED BY <1>1 DEF ElementInv, Vectors, Elements, Threads, Fine

\* What the step of thread t does to its place, its element and its calls.
Stays(t, place) ==
    /\ \A u \in Threads : pc'[u] = IF u = t THEN place ELSE pc[u]
    /\ UNCHANGED <<k, done>>
Moves(t, place) ==
    /\ \A u \in Threads : pc'[u] = IF u = t THEN place ELSE pc[u]
    /\ \A u \in Threads : k'[u] = IF u = t THEN k[t] + 1 ELSE k[u]
    /\ k[t] \in Elements /\ k' \in [Threads -> Nat] /\ UNCHANGED done
Ends(t, place) ==
    /\ \A u \in Threads : pc'[u] = IF u = t THEN place ELSE pc[u]
    /\ \A u \in Threads : k'[u] = IF u = t THEN 0 ELSE k[u]
    /\ \A u \in Threads : done'[u] = IF u = t THEN done[t] + 1 ELSE done[u]
    /\ k' \in [Threads -> Nat] /\ done' \in [Threads -> Nat]
    /\ place = IF done[t] + 1 < Loops THEN Entry ELSE "done"

\* Storing element k[t], and adding to it.
Writes(t, value) ==
    /\ k[t] \in Elements /\ values' \in [Vectors -> [Elements -> Int]]
    /\ \A v \in Vectors, e \in Elements :
          values'[v][e] = IF v = Dst(t) /\ e = k[t] THEN value ELSE values[v][e]

-----------------------------------------------------------------------------
\* The additions made are finitely many.
LEMMA MadeFinite ==
    ASSUME NEW v, NEW e
    PROVE  IsFiniteSet(Made(v, e)) /\ Cardinality(Made(v, e)) \in Nat
<1>1. IsFiniteSet(Threads) /\ IsFiniteSet(1 .. Loops)
    BY FS_Interval, VectorAssumption DEF Threads
<1>2. IsFiniteSet(Threads \X (1 .. Loops)) BY <1>1, FS_Product
<1>3. Made(v, e) \subseteq Threads \X (1 .. Loops) BY DEF Made
<1> QED BY <1>2, <1>3, FS_Subset, FS_CardinalityType

\* Nobody's additions change, ...
LEMMA MadeSame ==
    ASSUME UNCHANGED options, NEW v, NEW e,
           \A u \in Threads : Dst(u) = v => Calls(u, e)' = Calls(u, e)
    PROVE  Cardinality(Made(v, e)') = Cardinality(Made(v, e))
<1>1. \A u : Dst(u)' = Dst(u) BY SameOrders
<1>2. Made(v, e)' = {q \in Threads \X (1 .. Loops) : Dst(q[1]) = v /\ q[2] <= Calls(q[1], e)'}
    BY <1>1 DEF Made, Threads
<1>3. Made(v, e)' = Made(v, e) BY <1>2 DEF Made
<1> QED BY <1>3

\* ... or t has made one more.
LEMMA MadeOne ==
    ASSUME UNCHANGED options, NEW t \in Threads, NEW v, NEW e, v = Dst(t),
           \A u \in Threads : Calls(u, e) \in Nat, Calls(t, e) < Loops,
           \A u \in Threads : Calls(u, e)' = IF u = t THEN Calls(t, e) + 1 ELSE Calls(u, e)
    PROVE  Cardinality(Made(v, e)') = Cardinality(Made(v, e)) + 1
<1> DEFINE p == <<t, Calls(t, e) + 1>>
<1>1. \A u : Dst(u)' = Dst(u) BY SameOrders
<1>2. /\ p \in Threads \X (1 .. Loops) /\ p[1] = t /\ p[2] = Calls(t, e) + 1
    BY VectorAssumption
<1>3. p \notin Made(v, e) BY <1>2 DEF Made
<1>4. Made(v, e)' = {q \in Threads \X (1 .. Loops) : Dst(q[1]) = v /\ q[2] <= Calls(q[1], e)'}
    BY <1>1 DEF Made, Threads
<1>5. ASSUME NEW q \in Threads \X (1 .. Loops)
      PROVE  q \in Made(v, e)' <=> q \in Made(v, e) \/ q = p
    <2>1. q[1] \in Threads /\ q[2] \in 1 .. Loops /\ q = <<q[1], q[2]>> OBVIOUS
    <2>2. q \in Made(v, e)' <=> Dst(q[1]) = v /\ q[2] <= Calls(q[1], e)' BY <1>4
    <2>3. q \in Made(v, e) <=> Dst(q[1]) = v /\ q[2] <= Calls(q[1], e) BY DEF Made
    <2>4. q = p <=> q[1] = t /\ q[2] = Calls(t, e) + 1 BY <2>1
    <2> HIDE DEF p
    <2>5. CASE q[1] = t BY <2>1, <2>2, <2>3, <2>4, <2>5
    <2>6. CASE q[1] # t BY <2>1, <2>2, <2>3, <2>4, <2>6
    <2> QED BY <2>5, <2>6
<1>6. Made(v, e)' = Made(v, e) \cup {p}
    <2>1. Made(v, e)' \subseteq Threads \X (1 .. Loops) BY <1>4
    <2>2. Made(v, e) \subseteq Threads \X (1 .. Loops) BY DEF Made
    <2> HIDE DEF p
    <2> QED BY <1>2, <1>5, <2>1, <2>2
<1> HIDE DEF p
<1> QED BY <1>3, <1>6, MadeFinite, FS_AddElement

\* Added the same way round, a vector is added to or added, never both.
LEMMA SameWay ==
    ASSUME Options, ~cause_deadlock, NEW t \in Threads
    PROVE  /\ Src(t) = Dst(t) + 1 /\ Dst(t) \in Vectors /\ Src(t) \in Vectors
           /\ \A u \in Threads : Dst(u) # Src(t)
<1>1. \A u \in Threads : Dst(u) = vector_0(u) /\ Src(u) = vector_1(u)
    BY Zenon DEF Dst, Src, Swapped
<1>2. \A u \in Threads : \E j \in Nat : vector_0(u) = 2 * j BY Pair
<1>3. /\ Src(t) = Dst(t) + 1 /\ Dst(t) \in Vectors /\ Src(t) \in Vectors BY <1>1, Pair
<1>4. ASSUME NEW u \in Threads, Dst(u) = Src(t) PROVE FALSE
    <2>1. PICK j \in Nat : Dst(u) = 2 * j BY <1>1, <1>2
    <2>2. PICK m \in Nat : Dst(t) = 2 * m BY <1>1, <1>2
    <2> QED BY <1>3, <1>4, <2>1, <2>2
<1> QED BY <1>3, <1>4

\* So the vector a thread adds has its initial value.
LEMMA SourceIs ==
    ASSUME Options, SumInv, ~cause_deadlock, NEW t \in Threads, NEW e \in Elements
    PROVE  values[Src(t)][e] = InitialValue(Src(t)) /\ InitialValue(Src(t)) \in Int
<1>1. Src(t) \in Vectors /\ Src(t) \in Int BY SameWay DEF Vectors
<1>2. Made(Src(t), e) = {} BY SameWay DEF Made
<1>3. Cardinality(Made(Src(t), e)) = 0 BY <1>2, FS_EmptySet
<1>4. values[Src(t)][e] = InitialValue(Src(t)) + (Src(t) + 1) * 0 BY <1>1, <1>3 DEF SumInv
<1> QED BY <1>1, <1>4 DEF InitialValue

\* It holds at first: nothing is added yet.
LEMMA SumInit == Init => SumInv
<1> SUFFICES ASSUME Init PROVE SumInv OBVIOUS
<1>1. ASSUME NEW v \in Vectors, NEW e \in Elements
      PROVE  values[v][e] = InitialValue(v) + (v + 1) * Cardinality(Made(v, e))
    <2>1. \A u \in Threads : Calls(u, e) = 0 BY DEF Init, Calls, Elements
    <2>2. Made(v, e) = {} BY <2>1 DEF Made
    <2>3. Cardinality(Made(v, e)) = 0 BY <2>2, FS_EmptySet
    <2>4. values[v][e] = InitialValue(v) /\ v \in Int BY DEF Init, Vectors
    <2> QED BY <2>3, <2>4 DEF InitialValue
<1>2. \A t \in Threads : pc[t] # "xadd" BY DEF Init, Entry
<1> QED BY <1>1, <1>2 DEF SumInv

-----------------------------------------------------------------------------
\* A thread goes to another place, writes an element, returns, or writes the last one and
\* returns; and what it writes is what was there plus what it adds.
Sum(t, value) ==
    /\ value \in Int
    /\ ~cause_deadlock => value = values[Dst(t)][k[t]] + InitialValue(Src(t))

Shape(t, place) ==
    \/ Stays(t, place) /\ UNCHANGED values
    \/ \E value : Moves(t, place) /\ Sum(t, value) /\ Writes(t, value)
    \/ Ends(t, place) /\ UNCHANGED values /\ pc[t] = "unlock"
    \/ \E value : Ends(t, place) /\ Sum(t, value) /\ Writes(t, value) /\ pc[t] = "xadd" /\ k[t] + 1 = Size

\* An assignment to the element a thread is at is a Write of it.
LEMMA WritesIf ==
    ASSUME ElementInv, Options, NEW t \in Threads, k[t] \in Elements, NEW value \in Int,
           values' = [values EXCEPT ![Dst(t)][k[t]] = value]
    PROVE  Writes(t, value)
<1>1. Dst(t) \in Vectors /\ values \in [Vectors -> [Elements -> Int]] BY Pair DEF ElementInv
<1>2. [values[Dst(t)] EXCEPT ![k[t]] = value] \in [Elements -> Int] BY <1>1
<1>3. values' = [values EXCEPT ![Dst(t)] = [values[Dst(t)] EXCEPT ![k[t]] = value]]
    BY Zenon
<1>4. values' \in [Vectors -> [Elements -> Int]] BY <1>1, <1>2, <1>3
<1>5. \A v \in Vectors, e \in Elements :
          values'[v][e] = IF v = Dst(t) /\ e = k[t] THEN value ELSE values[v][e]
    BY <1>1, <1>3
<1> QED BY <1>4, <1>5 DEF Writes

\* Every step of a thread that may lose no addition has one of the shapes.
LEMMA Shapes ==
    ASSUME CInv, NEW t \in Threads, ThreadStep(t), UNCHANGED options
    PROVE  /\ reg' \in [Threads -> Int]
           /\ \E place :
                 /\ Fine(program, place, k'[t], done'[t]) /\ Shape(t, place)
                 /\ ~cause_deadlock => \A u \in Threads :
                       pc'[u] = "xadd" => reg'[u] = InitialValue(Src(u))
<1>p. /\ pc \in [Threads -> {"acquire", "releaseGlobal", "tryDst", "trySrc", "backOff",
                             "load", "store", "unlock", "loadSrc", "xadd", "done"}]
      /\ Options
    BY DEF CInv, AInv, IInv, LockTypes
<1>d. /\ values \in [Vectors -> [Elements -> Int]]
      /\ k \in [Threads -> Nat] /\ reg \in [Threads -> Int] /\ done \in [Threads -> Nat]
      /\ Fine(program, pc[t], k[t], done[t])
    BY DEF CInv, ElementInv
<1>v. Dst(t) \in Vectors /\ Src(t) \in Vectors BY <1>p, Pair
<1>n. Size \in Nat \ {0} /\ Loops \in Nat \ {0} /\ Elements = 0 .. Size - 1 /\ 0 \in Elements
    BY VectorAssumption DEF Elements
<1>s. ~cause_deadlock => \A u \in Threads : pc[u] = "xadd" => reg[u] = InitialValue(Src(u))
    BY DEF CInv, SumInv
<1>e. /\ program = "nolock" => Entry = "loadSrc"
      /\ program # "nolock" => Entry \in {"acquire", "tryDst"}
    BY DEF Entry
<1>1. CASE \E place \in {"acquire", "releaseGlobal", "tryDst", "trySrc", "backOff", "load", "unlock"} :
              /\ UNCHANGED <<values, k, reg, done>>
              /\ pc' = [pc EXCEPT ![t] = place]
              /\ Fine(program, place, k[t], done[t])
    <2>1. PICK place \in {"acquire", "releaseGlobal", "tryDst", "trySrc", "backOff", "load", "unlock"} :
              /\ UNCHANGED <<values, k, reg, done>>
              /\ pc' = [pc EXCEPT ![t] = place]
              /\ Fine(program, place, k[t], done[t])
        BY <1>1
    <2>2. Stays(t, place) BY <1>p, <2>1 DEF Stays
    <2>3. \A u \in Threads : pc'[u] = "xadd" => pc[u] = "xadd" BY <1>p, <2>1
    <2> QED BY <1>d, <1>s, <2>1, <2>2, <2>3 DEF Shape
<1>2. CASE Acquire(t)
    <2>1. /\ pc[t] = "acquire" /\ UNCHANGED <<values, k, reg, done>>
          /\ \/ pc' = pc
             \/ pc' = [pc EXCEPT ![t] = "releaseGlobal"]
             \/ pc' = [pc EXCEPT ![t] = "load"]
        BY <1>2 DEF Acquire, Goto
    <2>2. pc = [pc EXCEPT ![t] = "acquire"] BY <1>p, <2>1
    <2> QED BY <1>1, <1>d, <1>n, <2>1, <2>2 DEF Fine
<1>3. CASE ReleaseGlobal(t) BY <1>1, <1>3, <1>d, <1>n DEF ReleaseGlobal, Goto, Fine
<1>4. CASE TryDst(t) BY <1>1, <1>4, <1>d, <1>n DEF TryDst, Goto, Fine
<1>5. CASE TrySrc(t) BY <1>1, <1>5, <1>d, <1>n DEF TrySrc, Goto, Fine
<1>6. CASE BackOff(t) BY <1>1, <1>6, <1>d, <1>n DEF BackOff, Goto, Fine
<1>7. CASE Load(t)
    <2>1. /\ pc[t] = "load" /\ pc' = [pc EXCEPT ![t] = "store"]
          /\ reg' = [reg EXCEPT ![t] = values[Dst(t)][k[t]] + values[Src(t)][k[t]]]
          /\ UNCHANGED <<values, k, done>>
        BY <1>7 DEF Load, Goto
    <2>2. k[t] \in Elements BY <1>d, <2>1 DEF Fine
    <2>3. reg' \in [Threads -> Int]
        <3>1. values[Dst(t)][k[t]] + values[Src(t)][k[t]] \in Int BY <1>d, <1>v, <2>2
        <3> QED BY <1>d, <2>1, <3>1
    <2>4. Stays(t, "store") BY <1>p, <2>1 DEF Stays
    <2>5. Fine(program, "store", k'[t], done'[t]) BY <1>d, <2>1 DEF Fine
    <2>6. \A u \in Threads : pc'[u] = "xadd" => pc[u] = "xadd" /\ reg'[u] = reg[u]
        BY <1>p, <1>d, <2>1
    <2> QED BY <1>s, <2>1, <2>3, <2>4, <2>5, <2>6 DEF Shape
<1>8. CASE Store(t)
    <2> DEFINE place == IF k[t] + 1 < Size THEN "load" ELSE "unlock"
    <2>1. /\ pc[t] = "store" /\ pc' = [pc EXCEPT ![t] = place]
          /\ values' = [values EXCEPT ![Dst(t)][k[t]] = reg[t]]
          /\ k' = [k EXCEPT ![t] = k[t] + 1]
          /\ UNCHANGED <<reg, done>>
        BY <1>8, Zenon DEF Store, Goto
    <2>2. k[t] \in Elements /\ program # "nolock" BY <1>d, <2>1 DEF Fine
    <2>3. k'[t] = k[t] + 1 /\ Moves(t, place)
        BY <1>p, <1>d, <2>1, <2>2 DEF Moves
    <2>4. Fine(program, place, k'[t], done'[t]) BY <1>d, <1>n, <2>1, <2>2, <2>3 DEF Fine
    <2>5. Writes(t, reg[t]) BY <1>p, <1>d, <2>1, <2>2, WritesIf DEF CInv
    <2>6. Sum(t, reg[t])
        <3>1. reg[t] = values[Dst(t)][k[t]] + values[Src(t)][k[t]]
            BY <2>1, <2>2 DEF CInv, AInv, DataInv
        <3>2. ~cause_deadlock => values[Src(t)][k[t]] = InitialValue(Src(t))
            BY <1>p, <2>2, SourceIs DEF CInv
        <3> QED BY <1>d, <3>1, <3>2 DEF Sum
    <2>7. \A u \in Threads : pc'[u] = "xadd" => pc[u] = "xadd" BY <1>p, <2>1
    <2> HIDE DEF place
    <2> QED BY <1>s, <1>d, <2>1, <2>3, <2>4, <2>5, <2>6, <2>7 DEF Shape
<1>9. CASE Unlock(t)
    <2>1. pc[t] = "unlock" /\ UNCHANGED <<values, reg>> BY <1>9 DEF Unlock
    <2>2. CASE UNCHANGED <<pc, k, done>>
        <3>1. pc = [pc EXCEPT ![t] = "unlock"] BY <1>p, <2>1
        <3> QED BY <1>1, <1>d, <2>1, <2>2, <3>1
    <2>3. CASE Return(t)
        <3> DEFINE place == IF done[t] + 1 < Loops THEN Entry ELSE "done"
        <3>1. /\ pc' = [pc EXCEPT ![t] = place] /\ k' = [k EXCEPT ![t] = 0]
              /\ done' = [done EXCEPT ![t] = done[t] + 1]
            BY <2>3, Zenon DEF Return, Goto
        <3>2. Ends(t, place) /\ k'[t] = 0 /\ done'[t] = done[t] + 1
            BY <1>p, <1>d, <3>1 DEF Ends
        <3>3. Fine(program, place, k'[t], done'[t])
            <4>1. done[t] \in Nat /\ done[t] < Loops /\ program # "nolock" BY <1>d, <2>1 DEF Fine
            <4> QED BY <1>n, <1>e, <3>2, <4>1 DEF Fine
        <3>4. \A u \in Threads : pc'[u] = "xadd" => pc[u] = "xadd"
            <4>1. place # "xadd" BY DEF Entry
            <4> HIDE DEF place
            <4> QED BY <1>p, <3>1, <4>1
        <3> HIDE DEF place
        <3> QED BY <1>s, <1>d, <2>1, <3>2, <3>3, <3>4 DEF Shape
    <2> QED BY <1>9, <2>2, <2>3 DEF Unlock
<1>10. CASE LoadSrc(t)
    <2>1. /\ pc[t] = "loadSrc" /\ pc' = [pc EXCEPT ![t] = "xadd"]
          /\ reg' = [reg EXCEPT ![t] = values[Src(t)][k[t]]]
          /\ UNCHANGED <<values, k, done>>
        BY <1>10 DEF LoadSrc, Goto
    <2>2. k[t] \in Elements BY <1>d, <2>1 DEF Fine
    <2>3. reg' \in [Threads -> Int]
        <3>1. values[Src(t)][k[t]] \in Int BY <1>d, <1>v, <2>2
        <3> QED BY <1>d, <2>1, <3>1
    <2>4. Stays(t, "xadd") BY <1>p, <2>1 DEF Stays
    <2>5. Fine(program, "xadd", k'[t], done'[t]) BY <1>d, <2>1 DEF Fine
    <2>6. ASSUME ~cause_deadlock, NEW u \in Threads, pc'[u] = "xadd"
          PROVE  reg'[u] = InitialValue(Src(u))
        <3>1. CASE u = t
            <4>1. values[Src(t)][k[t]] = InitialValue(Src(t))
                BY <1>p, <2>2, <2>6, SourceIs DEF CInv
            <4> QED BY <1>d, <2>1, <3>1, <4>1
        <3>2. CASE u # t BY <1>s, <1>p, <1>d, <2>1, <2>6, <3>2
        <3> QED BY <3>1, <3>2
    <2> QED BY <2>1, <2>3, <2>4, <2>5, <2>6 DEF Shape
<1>11. CASE Xadd(t)
    <2>1. /\ pc[t] = "xadd" /\ UNCHANGED reg
          /\ values' = [values EXCEPT ![Dst(t)][k[t]] = @ + reg[t]]
        BY <1>11 DEF Xadd, fetch_and_add
    <2>2. k[t] \in Elements /\ program = "nolock" /\ done[t] < Loops BY <1>d, <2>1 DEF Fine
    <2> DEFINE value == values[Dst(t)][k[t]] + reg[t]
    <2>3. value \in Int /\ Sum(t, value)
        <3>1. value \in Int BY <1>d, <1>v, <2>2
        <3>2. ~cause_deadlock => reg[t] = InitialValue(Src(t)) BY <1>s, <2>1
        <3> QED BY <3>1, <3>2 DEF Sum
    <2>4. Writes(t, value)
        <3>1. values' = [values EXCEPT ![Dst(t)][k[t]] = value] BY <2>1, Zenon
        <3> QED BY <1>p, <2>2, <2>3, <3>1, WritesIf DEF CInv
    <2>5. CASE k[t] + 1 < Size
        <3>1. /\ pc' = [pc EXCEPT ![t] = "loadSrc"] /\ k' = [k EXCEPT ![t] = k[t] + 1]
              /\ UNCHANGED done
            BY <1>11, <2>5, Zenon DEF Xadd, Goto
        <3>2. k'[t] = k[t] + 1 /\ Moves(t, "loadSrc")
            BY <1>p, <1>d, <2>2, <3>1 DEF Moves
        <3>3. Fine(program, "loadSrc", k'[t], done'[t]) BY <1>d, <1>n, <2>2, <2>5, <3>1, <3>2 DEF Fine
        <3>4. \A u \in Threads : pc'[u] = "xadd" => pc[u] = "xadd" BY <1>p, <3>1
        <3> HIDE DEF value
        <3> QED BY <1>s, <1>d, <2>1, <2>3, <2>4, <3>2, <3>3, <3>4 DEF Shape
    <2>6. CASE ~(k[t] + 1 < Size)
        <3> DEFINE place == IF done[t] + 1 < Loops THEN Entry ELSE "done"
        <3>1. /\ pc' = [pc EXCEPT ![t] = place] /\ k' = [k EXCEPT ![t] = 0]
              /\ done' = [done EXCEPT ![t] = done[t] + 1]
            BY <1>11, <2>6, Zenon DEF Xadd, Return, Goto
        <3>2. Ends(t, place) /\ k'[t] = 0 /\ done'[t] = done[t] + 1
            BY <1>p, <1>d, <3>1 DEF Ends
        <3>3. Fine(program, place, k'[t], done'[t])
            BY <1>n, <1>e, <1>d, <2>2, <3>2 DEF Fine
        <3>4. \A u \in Threads : pc'[u] = "xadd" => pc[u] = "xadd"
            <4>1. place # "xadd" BY DEF Entry
            <4> HIDE DEF place
            <4> QED BY <1>p, <3>1, <4>1
        <3>5. k[t] + 1 = Size BY <1>n, <2>2, <2>6
        <3> HIDE DEF place, value
        <3> QED BY <1>s, <1>d, <2>1, <2>3, <2>4, <3>2, <3>3, <3>4, <3>5 DEF Shape
    <2> QED BY <2>5, <2>6
<1> QED BY <1>2, <1>3, <1>4, <1>5, <1>6, <1>7, <1>8, <1>9, <1>10, <1>11 DEF ThreadStep

\* Each write is one addition more, to the element it is made to.
LEMMA SumStep ==
    ASSUME CInv, [Next]_vars
    PROVE  ElementInv' /\ SumInv'
<1>p. /\ pc \in [Threads -> {"acquire", "releaseGlobal", "tryDst", "trySrc", "backOff",
                             "load", "store", "unlock", "loadSrc", "xadd", "done"}]
      /\ Options
    BY DEF CInv, AInv, IInv, LockTypes
<1>d. /\ values \in [Vectors -> [Elements -> Int]]
      /\ k \in [Threads -> Nat] /\ reg \in [Threads -> Int] /\ done \in [Threads -> Nat]
      /\ \A u \in Threads : Fine(program, pc[u], k[u], done[u])
    BY DEF CInv, ElementInv
<1>n. Size \in Nat \ {0} /\ Loops \in Nat \ {0} /\ Elements = 0 .. Size - 1
    BY VectorAssumption DEF Elements
<1>1. CASE UNCHANGED vars
    <2>1. UNCHANGED options /\ UNCHANGED <<values, pc, k, reg, done>> BY <1>1 DEF vars
    <2>2. \A u : Dst(u)' = Dst(u) /\ Src(u)' = Src(u) BY <2>1, SameOrders
    <2>3. program' = program /\ cause_deadlock' = cause_deadlock BY <2>1 DEF options
    <2>4. ElementInv' BY <1>d, <2>1, <2>3 DEF ElementInv
    <2>5. \A v, e : Cardinality(Made(v, e)') = Cardinality(Made(v, e))
        BY <2>1, MadeSame DEF Calls
    <2>6. SumInv' BY <2>1, <2>2, <2>3, <2>5 DEF CInv, SumInv, InitialValue, Vectors, Elements
    <2> QED BY <2>4, <2>6
<1>2. ASSUME NEW t \in Threads, ThreadStep(t), UNCHANGED options
      PROVE  ElementInv' /\ SumInv'
    <2>o. /\ \A u : Dst(u)' = Dst(u) /\ Src(u)' = Src(u)
          /\ program' = program /\ cause_deadlock' = cause_deadlock
        BY <1>2, SameOrders DEF options
    <2>g. pc[t] # "done"
        <3>1. \E place \in {"acquire", "releaseGlobal", "tryDst", "trySrc", "backOff",
                            "load", "store", "unlock", "loadSrc", "xadd"} : pc[t] = place
            BY <1>2, Zenon DEF ThreadStep, Acquire, ReleaseGlobal, TryDst, TrySrc,
               BackOff, Load, Store, Unlock, LoadSrc, Xadd
        <3> QED BY <3>1
    <2>1. PICK place :
             /\ reg' \in [Threads -> Int]
             /\ Fine(program, place, k'[t], done'[t]) /\ Shape(t, place)
             /\ ~cause_deadlock => \A u \in Threads :
                   pc'[u] = "xadd" => reg'[u] = InitialValue(Src(u))
        BY <1>2, Shapes
    <2>2. ElementInv'
        <3>1. /\ values' \in [Vectors -> [Elements -> Int]]
              /\ k' \in [Threads -> Nat] /\ done' \in [Threads -> Nat]
              /\ pc'[t] = place
              /\ \A u \in Threads : u # t => pc'[u] = pc[u] /\ k'[u] = k[u] /\ done'[u] = done[u]
            BY <1>d, <2>1 DEF Shape, Stays, Moves, Ends, Writes
        <3> QED BY <2>o, <2>1, <3>1, OneMoves DEF CInv
    <2>3. ASSUME ~cause_deadlock, NEW v \in Vectors, NEW e \in Elements
          PROVE  values'[v][e] = InitialValue(v) + (v + 1) * Cardinality(Made(v, e)')
        <3> DEFINE c == Cardinality(Made(v, e))
        <3>1. values[v][e] = InitialValue(v) + (v + 1) * c /\ c \in Nat /\ v \in Int
            BY <2>3, MadeFinite DEF CInv, SumInv, Vectors
        <3>2. ASSUME values'[v][e] = values[v][e],
                     \A u \in Threads : Dst(u) = v => Calls(u, e)' = Calls(u, e)
              PROVE  values'[v][e] = InitialValue(v) + (v + 1) * Cardinality(Made(v, e)')
            BY <1>2, <3>1, <3>2, MadeSame
        <3>3. CASE Stays(t, place) /\ UNCHANGED values
            BY <3>2, <3>3 DEF Stays, Calls
        <3>4. CASE Ends(t, place) /\ UNCHANGED values /\ pc[t] = "unlock"
            <4>1. k[t] = Size BY <1>d, <3>4 DEF Fine
            <4>2. ASSUME NEW u \in Threads PROVE Calls(u, e)' = Calls(u, e)
                <5>1. CASE u = t
                    <6>1. Calls(t, e) = done[t] + 1 BY <1>d, <1>n, <4>1 DEF Calls
                    <6>2. Calls(t, e)' = done[t] + 1 BY <1>d, <1>n, <3>4 DEF Ends, Calls
                    <6> QED BY <5>1, <6>1, <6>2
                <5>2. CASE u # t BY <3>4, <5>2 DEF Ends, Calls
                <5> QED BY <5>1, <5>2
            <4> QED BY <3>2, <3>4, <4>2
        <3>5. ASSUME NEW value, Sum(t, value), Writes(t, value),
                     \/ Moves(t, place)
                     \/ Ends(t, place) /\ pc[t] = "xadd" /\ k[t] + 1 = Size
              PROVE  values'[v][e] = InitialValue(v) + (v + 1) * Cardinality(Made(v, e)')
            <4>1. k[t] \in Elements BY <3>5 DEF Writes
            <4>2. done[t] < Loops
                BY <1>d, <1>2, <2>g DEF Fine
            <4>3. ASSUME NEW u \in Threads
                  PROVE  /\ Calls(u, e) \in Nat
                         /\ Calls(u, e)' = IF u = t /\ e = k[t] THEN Calls(t, e) + 1 ELSE Calls(u, e)
                <5>1. CASE Moves(t, place) BY <1>d, <1>n, <4>1, <5>1 DEF Moves, Calls
                <5>2. CASE Ends(t, place) /\ k[t] + 1 = Size
                    <6>1. /\ done[u] \in Nat /\ k[u] \in Nat /\ k[t] + 1 = Size
                          /\ e \in Nat /\ e < Size /\ k[t] \in Nat
                        BY <1>d, <1>n, <4>1, <5>2
                    <6>2. u # t => k'[u] = k[u] /\ done'[u] = done[u]
                        BY <5>2 DEF Ends
                    <6>3. k'[t] = 0 /\ done'[t] = done[t] + 1
                        BY <5>2 DEF Ends
                    <6>4. Calls(u, e) \in Nat BY <6>1 DEF Calls
                    <6>5. u # t => Calls(u, e)' = Calls(u, e) BY <6>2 DEF Calls
                    <6>6. CASE u = t
                        BY <6>1, <6>3, <6>6 DEF Calls
                    <6> QED BY <6>4, <6>5, <6>6
                <5> QED BY <3>5, <5>1, <5>2
            <4>4. CASE v = Dst(t) /\ e = k[t]
                <5>1. Calls(t, e) < Loops BY <1>d, <1>n, <4>1, <4>2, <4>4 DEF Calls
                <5>2. Cardinality(Made(v, e)') = c + 1 BY <1>2, <4>3, <4>4, <5>1, MadeOne
                <5>3. values'[v][e] = values[v][e] + InitialValue(Src(t))
                    BY <2>3, <3>5, <4>4 DEF Writes, Sum
                <5>4. InitialValue(Src(t)) = v + 1
                    BY <1>p, <2>3, <4>4, SameWay DEF InitialValue
                <5>5. (v + 1) * (c + 1) = (v + 1) * c + (v + 1) /\ (v + 1) * c \in Int
                    <6> HIDE DEF c
                    <6> QED BY <3>1
                <5>6. InitialValue(v) \in Int BY <3>1 DEF InitialValue
                <5> HIDE DEF c
                <5> QED BY <3>1, <5>2, <5>3, <5>4, <5>5, <5>6
            <4>5. CASE v # Dst(t) \/ e # k[t]
                <5>1. values'[v][e] = values[v][e] BY <3>5, <4>5 DEF Writes
                <5>2. \A u \in Threads : Dst(u) = v => Calls(u, e)' = Calls(u, e)
                    BY <4>3, <4>5
                <5> QED BY <3>2, <5>1, <5>2
            <4> QED BY <4>4, <4>5
        <3> QED BY <2>1, <3>3, <3>4, <3>5 DEF Shape
    <2>4. SumInv'
        BY <2>1, <2>3, <2>o DEF SumInv, InitialValue, Vectors, Elements, Threads
    <2> QED BY <2>2, <2>4
<1> QED BY <1>1, <1>2 DEF Next, Finished

\* When all calls have returned, the additions to an element are those of every thread.
LEMMA SumAtEnd == CInv => NoLostAdd
<1> SUFFICES ASSUME CInv, AllDone, ~cause_deadlock, NEW t \in Threads, NEW e \in Elements
             PROVE  values[Dst(t)][e] =
                        InitialValue(Dst(t)) + Loops * InitialValue(Src(t))
                                             * Cardinality({u \in Threads : Dst(u) = Dst(t)})
    BY DEF NoLostAdd
<1> DEFINE S == {u \in Threads : Dst(u) = Dst(t)}
<1>1. Options BY DEF CInv, AInv, IInv, LockTypes
<1>2. \A u \in Threads : Calls(u, e) = Loops
    <2>1. \A u \in Threads : k[u] = 0 /\ done[u] = Loops
        BY DEF CInv, ElementInv, Fine, AllDone
    <2> QED BY <2>1, VectorAssumption DEF Calls, Elements
<1>3. Made(Dst(t), e) = S \X (1 .. Loops)
    <2>1. Made(Dst(t), e) = {p \in Threads \X (1 .. Loops) : Dst(p[1]) = Dst(t) /\ p[2] <= Calls(p[1], e)}
        BY DEF Made
    <2>2. \A p \in Threads \X (1 .. Loops) : p[2] <= Calls(p[1], e) BY <1>2, VectorAssumption
    <2> QED BY <2>1, <2>2
<1>4. /\ IsFiniteSet(S) /\ Cardinality(S) \in Nat
      /\ IsFiniteSet(1 .. Loops) /\ Cardinality(1 .. Loops) = Loops
    <2>1. IsFiniteSet(Threads) BY FS_Interval, VectorAssumption DEF Threads
    <2>2. IsFiniteSet(S) BY <2>1, FS_Subset
    <2>3. IsFiniteSet(1 .. Loops) /\ Cardinality(1 .. Loops) = Loops
        BY FS_Interval, VectorAssumption
    <2> QED BY <2>2, <2>3, FS_CardinalityType
<1>5. Cardinality(Made(Dst(t), e)) = Cardinality(S) * Loops
    BY <1>3, <1>4, FS_Product
<1>6. /\ Src(t) = Dst(t) + 1 /\ Dst(t) \in Vectors /\ Dst(t) \in Int
    BY <1>1, SameWay DEF Vectors
<1>7. values[Dst(t)][e] = InitialValue(Dst(t)) + (Dst(t) + 1) * (Cardinality(S) * Loops)
    BY <1>5, <1>6 DEF CInv, SumInv
<1>8. \A x \in Int, y, z \in Nat : x * (y * z) = z * x * y OBVIOUS
<1> HIDE DEF S
<1>9. (Dst(t) + 1) * (Cardinality(S) * Loops) = Loops * (Dst(t) + 1) * Cardinality(S)
    BY <1>4, <1>6, <1>8, VectorAssumption
<1> QED BY <1>6, <1>7, <1>9 DEF InitialValue, S

\* vector-nolock.c and the programs that lock: with all threads adding the same way round no
\* addition to any element is lost, for any number of threads, calls and elements.
THEOREM VectorNoLostAdd == Spec => []NoLostAdd
<1>1. Init => CInv BY InitInv, DataInit, ElementInit, SumInit DEF CInv, AInv
<1>2. CInv /\ [Next]_vars => CInv' BY StepInv, DataStep, SumStep DEF CInv, AInv
<1> QED BY <1>1, <1>2, SumAtEnd, PTL DEF Spec

\* The variables of vector_add keep their types, and the indices their bounds.
THEOREM VectorTypes == Spec => []TypeOK
<1>1. Init => CInv BY InitInv, DataInit, ElementInit, SumInit DEF CInv, AInv
<1>2. CInv /\ [Next]_vars => CInv' BY StepInv, DataStep, SumStep DEF CInv, AInv
<1>3. CInv => TypeOK
    <2> SUFFICES ASSUME CInv PROVE TypeOK OBVIOUS
    <2>1. LockTypes /\ ElementInv BY DEF CInv, AInv, IInv
    <2>2. \A t \in Threads : k[t] \in 0 .. Size /\ done[t] \in 0 .. Loops
        <3> SUFFICES ASSUME NEW t \in Threads PROVE k[t] \in 0 .. Size /\ done[t] \in 0 .. Loops
            OBVIOUS
        <3>1. Fine(program, pc[t], k[t], done[t]) /\ k[t] \in Nat /\ done[t] \in Nat
            BY <2>1 DEF ElementInv
        <3>2. k[t] \in Elements \/ k[t] = Size \/ k[t] = 0 BY <3>1 DEF Fine
        <3>3. done[t] <= Loops BY <3>1, VectorAssumption DEF Fine
        <3> QED BY <3>1, <3>2, <3>3, VectorAssumption DEF Elements
    <2>3. k \in [Threads -> 0 .. Size] /\ done \in [Threads -> 0 .. Loops]
        BY <2>1, <2>2 DEF ElementInv
    <2> QED BY <2>1, <2>3 DEF LockTypes, Options, ElementInv, TypeOK
<1> QED BY <1>1, <1>2, <1>3, PTL DEF Spec
=============================================================================
