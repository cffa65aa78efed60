--------------------------- MODULE BoundedBuffer ---------------------------
(***************************************************************************)
(* The producer/consumer programs of threads-cv/ that hold the mutex while *)
(* they touch the buffer: main-one-cv-while.c, main-two-cvs-if.c and       *)
(* main-two-cvs-while.c, with the main() they share (main-common.c).       *)
(*                                                                         *)
(* A thread is a number, as in main(): producers first, then consumers;    *)
(* the main thread, which waits for the producers and then puts one        *)
(* END_OF_STREAM per consumer, is the number after them.  A step is the    *)
(* code between two calls of the pthread library, except that the check of *)
(* num_full and the call that follows it are one step: the mutex is held.  *)
(***************************************************************************)
EXTENDS Integers, Sequences, FiniteSets

CONSTANTS
    NumProducers,   \* -p
    NumConsumers,   \* -c
    Loops,          \* -l, items per producer
    Max,            \* -m, slots of the buffer
    Variant,        \* which program: one of the three records below
    MaxWakeups      \* bound on the returns of Cond_wait without a signal

\* The three programs differ in the condition variables they use and in
\* whether a thread that returns from Cond_wait tests num_full again.
TwoCvsWhile == [fill_cv |-> "fill", empty_cv |-> "empty", recheck |-> TRUE]
TwoCvsIf    == [fill_cv |-> "fill", empty_cv |-> "empty", recheck |-> FALSE]
OneCvWhile  == [fill_cv |-> "cv",   empty_cv |-> "cv",    recheck |-> TRUE]

ASSUME ParametersAssumption ==
    /\ NumProducers \in Nat
    /\ NumConsumers \in Nat \ {0}
    /\ Loops \in Nat \ {0}
    /\ Max \in Nat \ {0}
    /\ Variant \in {TwoCvsWhile, TwoCvsIf, OneCvWhile}
    /\ MaxWakeups \in Nat

EMPTY         == -2
END_OF_STREAM == -1

Producers == 0 .. NumProducers - 1
Consumers == NumProducers .. NumProducers + NumConsumers - 1
Main      == NumProducers + NumConsumers
Fillers   == Producers \cup {Main}
Threads   == Fillers \cup Consumers
Nobody    == -1
Slots     == 0 .. Max - 1
CondVars  == {Variant.fill_cv, Variant.empty_cv}

\* base + i in the producer's loop; main puts the marker.
Value(t, n) == IF t = Main THEN END_OF_STREAM ELSE t * Loops + n
Rounds(t)   == IF t = Main THEN NumConsumers ELSE Loops
Values      == -1 .. NumProducers * Loops - 1

VARIABLES
    buffer, use_ptr, fill_ptr, num_full,    \* globals of pc-header.h
    m,              \* the mutex: its holder, or Nobody
    sleepers,       \* per condition variable, the threads in Cond_wait
    pc,             \* per thread, the step it takes next
    i,              \* per filler, the loop counter
    got,            \* per consumer, every value of tmp: consumed_count is its length
    failed,         \* an ensure() failed: the process has exited
    wakeups         \* returns of Cond_wait without a signal

sync == <<m, sleepers>>
data == <<buffer, use_ptr, fill_ptr, num_full>>
vars == <<buffer, use_ptr, fill_ptr, num_full, m, sleepers, pc, i, got, failed, wakeups>>

Init ==
    /\ buffer = [s \in Slots |-> EMPTY]
    /\ use_ptr = 0 /\ fill_ptr = 0 /\ num_full = 0
    /\ m = Nobody
    /\ sleepers = [cv \in CondVars |-> {}]
    /\ pc = [t \in Threads |-> IF t = Main THEN "join" ELSE "lock"]
    /\ i = [t \in Fillers |-> 0]
    /\ got = [c \in Consumers |-> << >>]
    /\ failed = FALSE /\ wakeups = 0

-----------------------------------------------------------------------------
Blocked(t)  == IF t \in Fillers THEN num_full = Max ELSE num_full = 0
WaitsOn(t)  == IF t \in Fillers THEN Variant.empty_cv ELSE Variant.fill_cv
\* Faulty: a thread signals the condition its own kind waits on.
Signals_OwnKind(t) == IF t \in Fillers THEN Variant.empty_cv ELSE Variant.fill_cv

Signals(t)  == IF t \in Fillers THEN Variant.fill_cv ELSE Variant.empty_cv

Goto(t, label) == pc' = [pc EXCEPT ![t] = label]

Lock(t) ==
    /\ pc[t] = "lock" /\ m = Nobody
    /\ m' = t
    /\ Goto(t, "check")
    /\ UNCHANGED <<data, sleepers, i, got, failed, wakeups>>

\* Cond_wait releases the mutex and sleeps in one step.
CheckAndWait(t) ==
    /\ pc[t] = "check" /\ Blocked(t)
    /\ m' = Nobody
    /\ sleepers' = [sleepers EXCEPT ![WaitsOn(t)] = @ \cup {t}]
    /\ Goto(t, "asleep")
    /\ UNCHANGED <<data, i, got, failed, wakeups>>

CheckAndGo(t) ==
    /\ pc[t] = "check" /\ ~Blocked(t)
    /\ Goto(t, "work")
    /\ UNCHANGED <<data, sync, i, got, failed, wakeups>>

\* Faulty: a thread that was signalled does not test num_full again.
Reacquire_NoTest(t) ==
    /\ pc[t] = "woken" /\ m = Nobody
    /\ m' = t
    /\ Goto(t, "work")
    /\ UNCHANGED <<data, sleepers, i, got, failed, wakeups>>

\* Cond_wait returns holding the mutex: to the test of a while, past an if;
\* main() has a while in every program.
Reacquire(t) ==
    /\ pc[t] = "woken" /\ m = Nobody
    /\ m' = t
    /\ Goto(t, IF Variant.recheck \/ t = Main THEN "check" ELSE "work")
    /\ UNCHANGED <<data, sleepers, i, got, failed, wakeups>>

SpuriousWakeup(t) ==
    /\ ~failed
    /\ pc[t] = "asleep" /\ wakeups < MaxWakeups
    /\ wakeups' = wakeups + 1
    /\ sleepers' = [sleepers EXCEPT ![WaitsOn(t)] = @ \ {t}]
    /\ Goto(t, "woken")
    /\ UNCHANGED <<data, m, i, got, failed>>

do_fill(t) ==
    /\ pc[t] = "work" /\ t \in Fillers
    /\ IF buffer[fill_ptr] = EMPTY
       THEN /\ buffer' = [buffer EXCEPT ![fill_ptr] = Value(t, i[t])]
            /\ fill_ptr' = (fill_ptr + 1) % Max
            /\ num_full' = num_full + 1
            /\ Goto(t, "signal")
            /\ UNCHANGED failed
       ELSE failed' = TRUE /\ UNCHANGED <<buffer, fill_ptr, num_full, pc>>
    /\ UNCHANGED <<use_ptr, sync, i, got, wakeups>>

\* Faulty: the slot is not set back to EMPTY.
do_get_KeepsSlot(t) ==
    /\ pc[t] = "work" /\ t \in Consumers
    /\ IF buffer[use_ptr] # EMPTY
       THEN /\ got' = [got EXCEPT ![t] = Append(@, buffer[use_ptr])]
            /\ use_ptr' = (use_ptr + 1) % Max
            /\ num_full' = num_full - 1
            /\ Goto(t, "signal")
            /\ UNCHANGED <<buffer, failed>>
       ELSE failed' = TRUE /\ UNCHANGED <<buffer, use_ptr, num_full, pc, got>>
    /\ UNCHANGED <<fill_ptr, sync, i, wakeups>>

do_get(t) ==
    /\ pc[t] = "work" /\ t \in Consumers
    /\ IF buffer[use_ptr] # EMPTY
       THEN /\ got' = [got EXCEPT ![t] = Append(@, buffer[use_ptr])]
            /\ buffer' = [buffer EXCEPT ![use_ptr] = EMPTY]
            /\ use_ptr' = (use_ptr + 1) % Max
            /\ num_full' = num_full - 1
            /\ Goto(t, "signal")
            /\ UNCHANGED failed
       ELSE failed' = TRUE /\ UNCHANGED <<buffer, use_ptr, num_full, pc, got>>
    /\ UNCHANGED <<fill_ptr, sync, i, wakeups>>

\* Faulty: the thread is taken off the queue and never made runnable.
SignalOne_LosesThread(t) ==
    /\ pc[t] = "signal"
    /\ \E w \in sleepers[Signals(t)] :
          sleepers' = [sleepers EXCEPT ![Signals(t)] = @ \ {w}]
    /\ Goto(t, "unlock")
    /\ UNCHANGED <<data, m, i, got, failed, wakeups>>

SignalOne(t) ==
    /\ pc[t] = "signal"
    /\ \E w \in sleepers[Signals(t)] :
          /\ sleepers' = [sleepers EXCEPT ![Signals(t)] = @ \ {w}]
          /\ pc' = [pc EXCEPT ![t] = "unlock", ![w] = "woken"]
    /\ UNCHANGED <<data, m, i, got, failed, wakeups>>

SignalNone(t) ==
    /\ pc[t] = "signal" /\ sleepers[Signals(t)] = {}
    /\ Goto(t, "unlock")
    /\ UNCHANGED <<data, sync, i, got, failed, wakeups>>

Last(s) == s[Len(s)]

UnlockFiller(t) ==
    /\ pc[t] = "unlock" /\ t \in Fillers
    /\ m' = Nobody
    /\ i' = [i EXCEPT ![t] = @ + 1]
    /\ Goto(t, IF i[t] + 1 < Rounds(t) THEN "lock"
               ELSE IF t = Main THEN "joinConsumers" ELSE "done")
    /\ UNCHANGED <<data, sleepers, got, failed, wakeups>>

\* Faulty: a consumer takes the marker for an item and goes on.
UnlockConsumer_NoEnd(t) ==
    /\ pc[t] = "unlock" /\ t \in Consumers
    /\ m' = Nobody
    /\ Goto(t, "lock")
    /\ UNCHANGED <<data, sleepers, i, got, failed, wakeups>>

UnlockConsumer(t) ==
    /\ pc[t] = "unlock" /\ t \in Consumers
    /\ m' = Nobody
    /\ Goto(t, IF Last(got[t]) = END_OF_STREAM THEN "done" ELSE "lock")
    /\ UNCHANGED <<data, sleepers, i, got, failed, wakeups>>

JoinProducers(t) ==
    /\ pc[t] = "join" /\ \A p \in Producers : pc[p] = "done"
    /\ Goto(t, "lock")
    /\ UNCHANGED <<data, sync, i, got, failed, wakeups>>

JoinConsumers(t) ==
    /\ pc[t] = "joinConsumers" /\ \A c \in Consumers : pc[c] = "done"
    /\ Goto(t, "done")
    /\ UNCHANGED <<data, sync, i, got, failed, wakeups>>

ThreadStep(t) ==
    /\ ~failed
    /\ \/ Lock(t) \/ CheckAndWait(t) \/ CheckAndGo(t) \/ Reacquire(t)
       \/ do_fill(t) \/ do_get(t) \/ SignalOne(t) \/ SignalNone(t)
       \/ UnlockFiller(t) \/ UnlockConsumer(t)
       \/ JoinProducers(t) \/ JoinConsumers(t)

\* main() has returned or ensure() has called exit(): the process is gone.
Exited == /\ failed \/ pc[Main] = "done"
          /\ UNCHANGED vars

Next == (\E t \in Threads : ThreadStep(t) \/ SpuriousWakeup(t)) \/ Exited

Spec == Init /\ [][Next]_vars

\* The operating system runs every thread that can run.
FairSpec == Spec /\ \A t \in Threads : WF_vars(ThreadStep(t))

-----------------------------------------------------------------------------
Labels == {"join", "lock", "check", "asleep", "woken", "work", "signal",
           "unlock", "joinConsumers", "done"}

TypeOK ==
    /\ buffer \in [Slots -> Values \cup {EMPTY}]
    /\ use_ptr \in Slots /\ fill_ptr \in Slots
    /\ num_full \in Int
    /\ m \in Threads \cup {Nobody}
    /\ sleepers \in [CondVars -> SUBSET Threads]
    /\ pc \in [Threads -> Labels]
    /\ i \in [Fillers -> Nat]
    /\ got \in [Consumers -> Seq(Values)]
    /\ failed \in BOOLEAN
    /\ wakeups \in Nat

\* The ensure() calls of do_fill and do_get never fail: nobody fills a slot in
\* use or gets from an empty one.
NeverFails == ~failed

\* Slot s is one of the num_full slots from use_ptr on, going round the end.
InUse(s) ==
    IF use_ptr + num_full <= Max
    THEN use_ptr <= s /\ s < use_ptr + num_full
    ELSE use_ptr <= s \/ s < use_ptr + num_full - Max

\* num_full, the two pointers and the contents of the slots always tell the
\* same story, whatever the order in which threads fill, get, sleep and wake.
RingConsistent ==
    /\ num_full \in 0 .. Max
    /\ fill_ptr = (use_ptr + num_full) % Max
    /\ \A s \in Slots : buffer[s] # EMPTY <=> InUse(s)

\* No wakeup is lost: while consumers sleep, the items in the buffer do not
\* outnumber the consumers on their way to do_get plus the signal still owed;
\* while fillers sleep, the same holds of free slots and fillers.
AwakeBefore(S) == {t \in S : pc[t] \in {"lock", "check", "woken", "work"}}
AtSignal(S)    == {t \in S : pc[t] = "signal"}

NoLostWakeup ==
    /\ sleepers[Variant.fill_cv] # {} =>
          num_full <= Cardinality(AwakeBefore(Consumers))
                      + Cardinality(AtSignal(Fillers))
    /\ sleepers[Variant.empty_cv] # {} =>
          Max - num_full <= Cardinality(AwakeBefore(Fillers))
                            + Cardinality(AtSignal(Consumers))

\* The program comes to an end: nobody sleeps for ever.
Termination == <>(pc[Main] = "done")

\* Refinement: the program is a bounded FIFO channel.  An item enters it when
\* do_fill returns and leaves it when do_get does.
Channel == INSTANCE BoundedFifo WITH
    Capacity <- Max, Sources <- Fillers, Closer <- Main, Sinks <- Consumers,
    Quota <- Rounds, Item <- Value, End <- END_OF_STREAM,
    queue <- [k \in 1 .. num_full |-> buffer[(use_ptr + k - 1) % Max]],
    put <- [t \in Fillers |-> i[t] + IF pc[t] \in {"signal", "unlock"} THEN 1 ELSE 0],
    got <- got

\* Every behaviour of the program is one of the channel, and it keeps moving
\* as the channel does.
ImplementsChannel == Channel!FifoSpec
=============================================================================
