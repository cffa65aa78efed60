------------------------ MODULE BoundedBufferProofs ------------------------
(***************************************************************************)
(* The programs that test num_full in a while: no ensure() fails, no wakeup*)
(* is lost with two condition variables, and the buffer is a bounded FIFO  *)
(* channel, for every number of producers, consumers, items and slots.     *)
(***************************************************************************)
EXTENDS BoundedBuffer, TLAPS, FiniteSetTheorems, SequenceTheorems

Holding == {"check", "work", "signal", "unlock"}

\* The mutex is held by the one thread that is between its lock and unlock.
MutexInv == \A t \in Threads : pc[t] \in Holding <=> m = t

\* A thread is in the wait set of its condition variable while it is asleep.
SleepInv ==
    \A cv \in CondVars : \A t \in Threads :
        t \in sleepers[cv] <=> pc[t] = "asleep" /\ WaitsOn(t) = cv

\* A thread about to fill or get has tested num_full under the mutex.
WorkInv == \A t \in Threads : pc[t] = "work" => ~Blocked(t)

\* A filler inside its loop has items left.
RoundInv ==
    \A t \in Fillers :
        i[t] < Rounds(t) \/ pc[t] \in {"joinConsumers", "done"}

IInv == /\ TypeOK /\ MutexInv /\ SleepInv /\ WorkInv /\ RoundInv
        /\ RingConsistent /\ NeverFails

-----------------------------------------------------------------------------
\* Going round the buffer: what % does in fill_ptr, use_ptr and RingConsistent.
LEMMA Wrap ==
    \A n \in 0 .. 2 * Max - 1 : n % Max = IF n < Max THEN n ELSE n - Max
  BY ParametersAssumption

\* base + i stays below NumProducers * Loops, so no value is mistaken for
\* EMPTY or END_OF_STREAM.
LEMMA ValueType ==
    ASSUME NEW t \in Fillers, NEW n \in Nat, n < Rounds(t)
    PROVE  Value(t, n) \in Values /\ Value(t, n) # EMPTY
<1>1. CASE t = Main
  BY <1>1, ParametersAssumption DEF Value, Values, EMPTY, END_OF_STREAM
<1>2. CASE t # Main
  <2>1. t \in 0 .. NumProducers - 1 /\ n < Loops
    BY <1>2 DEF Fillers, Producers, Rounds
  <2>2. t * Loops + n <= NumProducers * Loops - 1 /\ 0 <= t * Loops + n
    BY <2>1, ParametersAssumption
  <2> QED BY <1>2, <2>1, <2>2, ParametersAssumption DEF Value, Values, EMPTY
<1> QED BY <1>1, <1>2

\* Producers, consumers and main are different threads.
LEMMA Roles ==
    /\ Threads \subseteq Nat /\ Nobody \notin Threads
    /\ Fillers \cap Consumers = {} /\ Threads = Fillers \cup Consumers
  BY ParametersAssumption DEF Threads, Fillers, Consumers, Producers, Main, Nobody

\* It holds at first.
LEMMA InitInv == Init => IInv
<1> SUFFICES ASSUME Init PROVE IInv
  OBVIOUS
<1> USE DEF Init
<1>1. TypeOK
  <2>1. << >> \in Seq(Values)
    OBVIOUS
  <2>2. got \in [Consumers -> Seq(Values)]
    BY <2>1
  <2>3. 0 \in Slots
    BY ParametersAssumption DEF Slots
  <2>4. pc \in [Threads -> Labels]
    BY DEF Labels
  <2>5. sleepers \in [CondVars -> SUBSET Threads]
    OBVIOUS
  <2>6. num_full \in Int /\ wakeups \in Nat /\ i \in [Fillers -> Nat]
    OBVIOUS
  <2> QED BY <2>2, <2>3, <2>4, <2>5, <2>6 DEF TypeOK
<1>2. MutexInv /\ SleepInv /\ WorkInv
  BY Roles DEF MutexInv, SleepInv, WorkInv, Holding, Nobody
<1>3. RoundInv
  BY ParametersAssumption, Roles DEF RoundInv, Rounds
<1>4. RingConsistent /\ NeverFails
  BY ParametersAssumption, Wrap DEF RingConsistent, NeverFails, InUse, Slots, EMPTY
<1> QED BY <1>1, <1>2, <1>3, <1>4 DEF IInv

\* Every step of a program with a while keeps it.
LEMMA NextInv ==
    ASSUME Variant.recheck, IInv, [Next]_vars
    PROVE  IInv'
<1> USE DEF IInv, Holding
<1>0. ASSUME UNCHANGED vars PROVE IInv'
  BY <1>0 DEF vars, TypeOK, MutexInv, SleepInv, WorkInv, RoundInv, RingConsistent, NeverFails, InUse, Blocked
<1>1. ASSUME NEW t \in Threads, Lock(t) PROVE IInv'
  <2> USE DEF Lock, Goto, data, sync
  <2>1. TypeOK'
    BY <1>1, Roles DEF TypeOK, Labels
  <2>2. MutexInv'
    BY <1>1, Roles DEF TypeOK, MutexInv
  <2>3. SleepInv'
    BY <1>1 DEF TypeOK, SleepInv, CondVars, WaitsOn, Signals
  <2>4. WorkInv'
    BY <1>1, Roles DEF TypeOK, WorkInv, MutexInv, Blocked
  <2>5. RoundInv'
    BY <1>1, Roles DEF TypeOK, RoundInv
  <2>6. RingConsistent' /\ NeverFails'
    BY <1>1 DEF RingConsistent, NeverFails, InUse
  <2> QED BY <2>1, <2>2, <2>3, <2>4, <2>5, <2>6
<1>2. ASSUME NEW t \in Threads, CheckAndWait(t) PROVE IInv'
  <2> USE DEF CheckAndWait, Goto, data, sync
  <2>1. TypeOK'
    BY <1>2, Roles DEF TypeOK, Labels
  <2>2. MutexInv'
    BY <1>2, Roles DEF TypeOK, MutexInv
  <2>3. SleepInv'
    BY <1>2 DEF TypeOK, SleepInv, CondVars, WaitsOn, Signals
  <2>4. WorkInv'
    BY <1>2, Roles DEF TypeOK, WorkInv, MutexInv, Blocked
  <2>5. RoundInv'
    BY <1>2, Roles DEF TypeOK, RoundInv
  <2>6. RingConsistent' /\ NeverFails'
    BY <1>2 DEF RingConsistent, NeverFails, InUse
  <2> QED BY <2>1, <2>2, <2>3, <2>4, <2>5, <2>6
<1>3. ASSUME NEW t \in Threads, CheckAndGo(t) PROVE IInv'
  <2> USE DEF CheckAndGo, Goto, data, sync
  <2>1. TypeOK'
    BY <1>3, Roles DEF TypeOK, Labels
  <2>2. MutexInv'
    BY <1>3, Roles DEF TypeOK, MutexInv
  <2>3. SleepInv'
    BY <1>3 DEF TypeOK, SleepInv, CondVars, WaitsOn, Signals
  <2>4. WorkInv'
    BY <1>3, Roles DEF TypeOK, WorkInv, MutexInv, Blocked
  <2>5. RoundInv'
    BY <1>3, Roles DEF TypeOK, RoundInv
  <2>6. RingConsistent' /\ NeverFails'
    BY <1>3 DEF RingConsistent, NeverFails, InUse
  <2> QED BY <2>1, <2>2, <2>3, <2>4, <2>5, <2>6
<1>4. ASSUME NEW t \in Threads, Reacquire(t) PROVE IInv'
  <2> USE DEF Reacquire, Goto, data, sync
  <2>1. TypeOK'
    BY <1>4, Roles DEF TypeOK, Labels
  <2>2. MutexInv'
    BY <1>4, Roles DEF TypeOK, MutexInv
  <2>3. SleepInv'
    BY <1>4 DEF TypeOK, SleepInv, CondVars, WaitsOn, Signals
  <2>4. WorkInv'
    BY <1>4, Roles DEF TypeOK, WorkInv, MutexInv, Blocked
  <2>5. RoundInv'
    BY <1>4, Roles DEF TypeOK, RoundInv
  <2>6. RingConsistent' /\ NeverFails'
    BY <1>4 DEF RingConsistent, NeverFails, InUse
  <2> QED BY <2>1, <2>2, <2>3, <2>4, <2>5, <2>6
<1>5. ASSUME NEW t \in Threads, SpuriousWakeup(t) PROVE IInv'
  <2> USE DEF SpuriousWakeup, Goto, data, sync
  <2>1. TypeOK'
    <3>1. wakeups' \in Nat
      BY <1>5 DEF TypeOK
    <3>2. sleepers' \in [CondVars -> SUBSET Threads] /\ pc' \in [Threads -> Labels]
      BY <1>5 DEF TypeOK, Labels
    <3> QED BY <1>5, <3>1, <3>2 DEF TypeOK
  <2>2. MutexInv'
    BY <1>5, Roles DEF TypeOK, MutexInv
  <2>3. SleepInv'
    BY <1>5 DEF TypeOK, SleepInv, CondVars, WaitsOn, Signals
  <2>4. WorkInv'
    BY <1>5, Roles DEF TypeOK, WorkInv, MutexInv, Blocked
  <2>5. RoundInv'
    BY <1>5, Roles DEF TypeOK, RoundInv
  <2>6. RingConsistent' /\ NeverFails'
    BY <1>5 DEF RingConsistent, NeverFails, InUse
  <2> QED BY <2>1, <2>2, <2>3, <2>4, <2>5, <2>6
<1>6. ASSUME NEW t \in Threads, do_fill(t) PROVE IInv'
  <2> USE DEF do_fill, Goto, data, sync
  <2>1. /\ t \in Fillers /\ i[t] \in Nat /\ i[t] < Rounds(t)
        /\ num_full \in 0 .. Max - 1 /\ use_ptr \in Slots /\ fill_ptr \in Slots
    <3>1. pc[t] = "work" /\ t \in Fillers /\ i[t] \in Nat /\ use_ptr \in Slots /\ fill_ptr \in Slots
      BY <1>6 DEF TypeOK
    <3>2. i[t] < Rounds(t)
      BY <3>1 DEF RoundInv
    <3>3. num_full # Max /\ num_full \in 0 .. Max
      BY <3>1 DEF WorkInv, Blocked, RingConsistent
    <3> QED BY <3>1, <3>2, <3>3, ParametersAssumption
  <2>2. fill_ptr = IF use_ptr + num_full < Max THEN use_ptr + num_full
                   ELSE use_ptr + num_full - Max
    BY <2>1, Wrap, ParametersAssumption DEF RingConsistent, Slots
  <2>3. buffer[fill_ptr] = EMPTY
    <3>1. ~InUse(fill_ptr)
      BY <2>1, <2>2, ParametersAssumption DEF InUse, Slots
    <3> QED BY <2>1, <3>1 DEF RingConsistent
  <2>4. /\ buffer' = [buffer EXCEPT ![fill_ptr] = Value(t, i[t])]
        /\ fill_ptr' = (fill_ptr + 1) % Max
        /\ num_full' = num_full + 1
        /\ pc' = [pc EXCEPT ![t] = "signal"]
        /\ UNCHANGED <<use_ptr, m, sleepers, i, got, failed, wakeups>>
    BY <1>6, <2>3
  <2>5. Value(t, i[t]) \in Values /\ Value(t, i[t]) # EMPTY
    BY <2>1, ValueType
  <2>6. fill_ptr' = IF fill_ptr + 1 < Max THEN fill_ptr + 1 ELSE 0
    <3>1. PICK n \in 0 .. 2 * Max - 1 : n = fill_ptr + 1
      BY <2>1, ParametersAssumption DEF Slots
    <3>2. n % Max = IF n < Max THEN n ELSE n - Max
      BY Wrap
    <3>3. fill_ptr \in 0 .. Max - 1 /\ fill_ptr' = n % Max
      BY <2>1, <2>4, <3>1 DEF Slots
    <3> QED BY <3>1, <3>2, <3>3, ParametersAssumption
  <2>7. TypeOK'
    <3>1. fill_ptr' \in Slots
      BY <2>1, <2>6, ParametersAssumption DEF Slots
    <3>2. buffer' \in [Slots -> Values \cup {EMPTY}]
      BY <2>1, <2>4, <2>5 DEF TypeOK
    <3> QED BY <2>1, <2>4, <3>1, <3>2, Roles DEF TypeOK, Labels
  <2>8. MutexInv' /\ SleepInv' /\ RoundInv' /\ WorkInv'
    BY <1>6, <2>4, Roles DEF TypeOK, MutexInv, SleepInv, WorkInv, RoundInv, CondVars, WaitsOn, Blocked
  <2>9. RingConsistent' /\ NeverFails'
    <3>1. fill_ptr' = (use_ptr' + num_full') % Max'
      <4>1. use_ptr' \in Int /\ num_full' \in Int /\ use_ptr' + num_full' \in 0 .. 2 * Max - 1
        BY <2>1, <2>4, ParametersAssumption DEF Slots
      <4>2. PICK n \in 0 .. 2 * Max - 1 : n = use_ptr' + num_full'
        BY <4>1
      <4>3. n % Max = IF n < Max THEN n ELSE n - Max
        BY Wrap
      <4> QED BY <2>1, <2>2, <2>4, <2>6, <4>2, <4>3, ParametersAssumption DEF Slots
    <3>2. ASSUME NEW s \in Slots PROVE InUse(s)' <=> InUse(s) \/ s = fill_ptr
      BY <2>1, <2>2, <2>4, ParametersAssumption DEF InUse, Slots
    <3>3. \A s \in Slots : buffer'[s] # EMPTY <=> InUse(s)'
      BY <2>1, <2>4, <2>5, <3>2 DEF TypeOK, RingConsistent
    <3> QED BY <2>1, <2>4, <3>1, <3>3, ParametersAssumption DEF RingConsistent, NeverFails
  <2> QED BY <2>7, <2>8, <2>9
<1>7. ASSUME NEW t \in Threads, do_get(t) PROVE IInv'
  <2> USE DEF do_get, Goto, data, sync
  <2>1. /\ t \in Consumers /\ t \notin Fillers
        /\ num_full \in 1 .. Max /\ use_ptr \in Slots /\ fill_ptr \in Slots
    BY <1>7, Roles, ParametersAssumption DEF TypeOK, WorkInv, Blocked, RingConsistent
  <2>2. fill_ptr = IF use_ptr + num_full < Max THEN use_ptr + num_full
                   ELSE use_ptr + num_full - Max
    BY <2>1, Wrap, ParametersAssumption DEF RingConsistent, Slots
  <2>3. buffer[use_ptr] # EMPTY /\ buffer[use_ptr] \in Values
    <3>1. InUse(use_ptr)
      BY <2>1, ParametersAssumption DEF InUse, Slots
    <3> QED BY <2>1, <3>1 DEF RingConsistent, TypeOK
  <2>4. /\ buffer' = [buffer EXCEPT ![use_ptr] = EMPTY]
        /\ got' = [got EXCEPT ![t] = Append(@, buffer[use_ptr])]
        /\ use_ptr' = (use_ptr + 1) % Max
        /\ num_full' = num_full - 1
        /\ pc' = [pc EXCEPT ![t] = "signal"]
        /\ UNCHANGED <<fill_ptr, m, sleepers, i, failed, wakeups>>
    BY <1>7, <2>3
  <2>5. use_ptr' = IF use_ptr + 1 < Max THEN use_ptr + 1 ELSE 0
    <3>1. use_ptr + 1 \in 0 .. 2 * Max - 1
      BY <2>1, ParametersAssumption DEF Slots
    <3>2. PICK n \in 0 .. 2 * Max - 1 : n = use_ptr + 1
      BY <3>1
    <3>3. n % Max = IF n < Max THEN n ELSE n - Max
      BY Wrap
    <3>4. use_ptr \in 0 .. Max - 1 /\ use_ptr' = n % Max
      BY <2>1, <2>4, <3>2 DEF Slots
    <3> QED BY <3>2, <3>3, <3>4, ParametersAssumption
  <2>6. use_ptr' \in Slots
    BY <2>1, <2>5, ParametersAssumption DEF Slots
  <2>7. TypeOK'
    <3>1. buffer' \in [Slots -> Values \cup {EMPTY}]
      BY <2>1, <2>4 DEF TypeOK
    <3>2. Append(got[t], buffer[use_ptr]) \in Seq(Values)
      BY <2>1, <2>3 DEF TypeOK
    <3>3. got' \in [Consumers -> Seq(Values)]
      BY <2>1, <2>4, <3>2 DEF TypeOK
    <3> QED BY <2>1, <2>4, <2>6, <3>1, <3>3, Roles DEF TypeOK, Labels
  <2>8. MutexInv' /\ SleepInv' /\ RoundInv' /\ WorkInv'
    BY <1>7, <2>1, <2>4, Roles DEF TypeOK, MutexInv, SleepInv, WorkInv, RoundInv, CondVars, WaitsOn, Blocked
  <2>9. RingConsistent' /\ NeverFails'
    <3>1. fill_ptr' = (use_ptr' + num_full') % Max'
      <4>1. use_ptr' \in Int /\ num_full' \in Int /\ use_ptr' + num_full' \in 0 .. 2 * Max - 1
        BY <2>1, <2>4, <2>6, ParametersAssumption DEF Slots
      <4>2. PICK n \in 0 .. 2 * Max - 1 : n = use_ptr' + num_full'
        BY <4>1
      <4>3. n % Max = IF n < Max THEN n ELSE n - Max
        BY Wrap
      <4>4. n = IF use_ptr + 1 < Max THEN use_ptr + num_full ELSE num_full - 1
        BY <2>1, <2>4, <2>5, <4>2, ParametersAssumption DEF Slots
      <4>5. fill_ptr = n % Max
        BY <2>1, <2>2, <4>3, <4>4, ParametersAssumption DEF Slots
      <4> QED BY <2>4, <4>2, <4>5
    <3>2. ASSUME NEW s \in Slots PROVE InUse(s)' <=> InUse(s) /\ s # use_ptr
      BY <2>1, <2>2, <2>4, <2>5, ParametersAssumption DEF InUse, Slots
    <3>3. \A s \in Slots : buffer'[s] # EMPTY <=> InUse(s)'
      BY <2>1, <2>4, <3>2 DEF TypeOK, RingConsistent
    <3> QED BY <2>1, <2>4, <3>1, <3>3, ParametersAssumption DEF RingConsistent, NeverFails
  <2> QED BY <2>7, <2>8, <2>9
<1>8. ASSUME NEW t \in Threads, SignalOne(t) PROVE IInv'
  <2> USE DEF SignalOne, data
  <2>1. PICK w \in sleepers[Signals(t)] :
           /\ sleepers' = [sleepers EXCEPT ![Signals(t)] = @ \ {w}]
           /\ pc' = [pc EXCEPT ![t] = "unlock", ![w] = "woken"]
    BY <1>8
  <2>2. /\ Signals(t) \in CondVars
        /\ w \in Threads /\ pc[w] = "asleep" /\ w # t /\ WaitsOn(w) = Signals(t)
    BY <1>8, <2>1 DEF TypeOK, SleepInv, CondVars, Signals
  <2>3. TypeOK'
    BY <1>8, <2>1, <2>2, Roles DEF TypeOK, Labels
  <2>4. MutexInv' /\ WorkInv' /\ RoundInv'
    BY <1>8, <2>1, <2>2, Roles DEF TypeOK, MutexInv, WorkInv, RoundInv, Blocked
  <2>5. SleepInv'
    BY <1>8, <2>1, <2>2 DEF TypeOK, SleepInv, CondVars, WaitsOn
  <2>6. RingConsistent' /\ NeverFails'
    BY <1>8 DEF RingConsistent, NeverFails, InUse
  <2> QED BY <2>3, <2>4, <2>5, <2>6
<1>9. ASSUME NEW t \in Threads, SignalNone(t) PROVE IInv'
  <2> USE DEF SignalNone, Goto, data, sync
  <2>1. TypeOK'
    BY <1>9, Roles DEF TypeOK, Labels
  <2>2. MutexInv'
    BY <1>9, Roles DEF TypeOK, MutexInv
  <2>3. SleepInv'
    BY <1>9 DEF TypeOK, SleepInv, CondVars, WaitsOn, Signals
  <2>4. WorkInv'
    BY <1>9, Roles DEF TypeOK, WorkInv, MutexInv, Blocked
  <2>5. RoundInv'
    BY <1>9, Roles DEF TypeOK, RoundInv
  <2>6. RingConsistent' /\ NeverFails'
    BY <1>9 DEF RingConsistent, NeverFails, InUse
  <2> QED BY <2>1, <2>2, <2>3, <2>4, <2>5, <2>6
<1>10. ASSUME NEW t \in Threads, UnlockFiller(t) PROVE IInv'
  <2> USE DEF UnlockFiller, Goto, data, sync
  <2>1. TypeOK'
    BY <1>10, Roles DEF TypeOK, Labels
  <2>2. MutexInv'
    BY <1>10, Roles DEF TypeOK, MutexInv
  <2>3. SleepInv'
    BY <1>10 DEF TypeOK, SleepInv, CondVars, WaitsOn, Signals
  <2>4. WorkInv'
    BY <1>10, Roles DEF TypeOK, WorkInv, MutexInv, Blocked
  <2>5. RoundInv'
    BY <1>10, Roles DEF TypeOK, RoundInv
  <2>6. RingConsistent' /\ NeverFails'
    BY <1>10 DEF RingConsistent, NeverFails, InUse
  <2> QED BY <2>1, <2>2, <2>3, <2>4, <2>5, <2>6
<1>11. ASSUME NEW t \in Threads, UnlockConsumer(t) PROVE IInv'
  <2> USE DEF UnlockConsumer, Goto, data, sync
  <2>1. TypeOK'
    BY <1>11, Roles DEF TypeOK, Labels
  <2>2. MutexInv'
    BY <1>11, Roles DEF TypeOK, MutexInv
  <2>3. SleepInv'
    BY <1>11 DEF TypeOK, SleepInv, CondVars, WaitsOn, Signals
  <2>4. WorkInv'
    BY <1>11, Roles DEF TypeOK, WorkInv, MutexInv, Blocked
  <2>5. RoundInv'
    BY <1>11, Roles DEF TypeOK, RoundInv
  <2>6. RingConsistent' /\ NeverFails'
    BY <1>11 DEF RingConsistent, NeverFails, InUse
  <2> QED BY <2>1, <2>2, <2>3, <2>4, <2>5, <2>6
<1>12. ASSUME NEW t \in Threads, JoinProducers(t) PROVE IInv'
  <2> USE DEF JoinProducers, Goto, data, sync
  <2>1. TypeOK'
    BY <1>12, Roles DEF TypeOK, Labels
  <2>2. MutexInv'
    BY <1>12, Roles DEF TypeOK, MutexInv
  <2>3. SleepInv'
    BY <1>12 DEF TypeOK, SleepInv, CondVars, WaitsOn, Signals
  <2>4. WorkInv'
    BY <1>12, Roles DEF TypeOK, WorkInv, MutexInv, Blocked
  <2>5. RoundInv'
    BY <1>12, Roles DEF TypeOK, RoundInv
  <2>6. RingConsistent' /\ NeverFails'
    BY <1>12 DEF RingConsistent, NeverFails, InUse
  <2> QED BY <2>1, <2>2, <2>3, <2>4, <2>5, <2>6
<1>13. ASSUME NEW t \in Threads, JoinConsumers(t) PROVE IInv'
  <2> USE DEF JoinConsumers, Goto, data, sync
  <2>1. TypeOK'
    BY <1>13, Roles DEF TypeOK, Labels
  <2>2. MutexInv'
    BY <1>13, Roles DEF TypeOK, MutexInv
  <2>3. SleepInv'
    BY <1>13 DEF TypeOK, SleepInv, CondVars, WaitsOn, Signals
  <2>4. WorkInv'
    BY <1>13, Roles DEF TypeOK, WorkInv, MutexInv, Blocked
  <2>5. RoundInv'
    BY <1>13, Roles DEF TypeOK, RoundInv
  <2>6. RingConsistent' /\ NeverFails'
    BY <1>13 DEF RingConsistent, NeverFails, InUse
  <2> QED BY <2>1, <2>2, <2>3, <2>4, <2>5, <2>6
<1> QED BY <1>0, <1>1, <1>2, <1>3, <1>4, <1>5, <1>6, <1>7, <1>8, <1>9, <1>10, <1>11, <1>12, <1>13 DEF Next, ThreadStep, Exited

\* The strengthened invariant holds of every behaviour of a program with while.
LEMMA WhileInv ==
    ASSUME Variant.recheck
    PROVE  Spec => []IInv
<1> QED BY InitInv, NextInv, PTL DEF Spec

\* The variables of the while programs keep their types.
THEOREM WhileTypes ==
    ASSUME Variant.recheck
    PROVE  Spec => []TypeOK
<1>1. IInv => TypeOK
  BY DEF IInv
<1> QED BY WhileInv, <1>1, PTL

\* In main-one-cv-while.c and main-two-cvs-while.c no ensure() ever fails:
\* do_fill finds its slot empty and do_get finds its slot full, however many
\* threads there are and however often Cond_wait returns by itself.
THEOREM WhileNeverFails ==
    ASSUME Variant.recheck
    PROVE  Spec => []NeverFails
<1>1. IInv => NeverFails
  BY DEF IInv
<1> QED BY WhileInv, <1>1, PTL

\* In the same programs num_full, use_ptr, fill_ptr and the slots always agree.
THEOREM WhileRing ==
    ASSUME Variant.recheck
    PROVE  Spec => []RingConsistent
<1>1. IInv => RingConsistent
  BY DEF IInv
<1> QED BY WhileInv, <1>1, PTL

-----------------------------------------------------------------------------
\* No wakeup is lost in main-two-cvs-while.c: counting the threads at a set of labels.
Early == {"lock", "check", "woken", "work"}
At(f, S, labels) == {t \in S : f[t] \in labels}
Is(t, f, S, labels) == IF t \in S /\ f[t] \in labels THEN 1 ELSE 0

\* The threads can be counted.
LEMMA FiniteThreads ==
    /\ IsFiniteSet(Fillers) /\ IsFiniteSet(Consumers)
    /\ Fillers \subseteq Threads /\ Consumers \subseteq Threads
<1>1. IsFiniteSet(Producers) /\ IsFiniteSet(Consumers)
  BY FS_Interval, ParametersAssumption DEF Producers, Consumers
<1>2. IsFiniteSet(Fillers)
  BY <1>1, FS_AddElement DEF Fillers
<1> QED BY <1>1, <1>2 DEF Threads

\* When one thread moves it is counted where it went and no longer where it was.
LEMMA MovesOne ==
    ASSUME NEW S, IsFiniteSet(S), NEW labels, NEW f, NEW g, NEW t,
           \A u \in S : u # t => g[u] = f[u]
    PROVE  /\ Cardinality(At(f, S, labels)) \in Nat
           /\ Cardinality(At(g, S, labels))
                = Cardinality(At(f, S, labels)) + Is(t, g, S, labels) - Is(t, f, S, labels)
<1> DEFINE old == At(f, S, labels)
           new == At(g, S, labels)
<1> SUFFICES /\ Cardinality(old) \in Nat
             /\ Cardinality(new) = Cardinality(old)
                    + (IF t \in S /\ g[t] \in labels THEN 1 ELSE 0)
                    - (IF t \in S /\ f[t] \in labels THEN 1 ELSE 0)
  BY DEF Is
<1>1. IsFiniteSet(old) /\ Cardinality(old) \in Nat
  BY FS_Subset, FS_CardinalityType DEF At
<1>2. CASE t \in S /\ g[t] \in labels
  <2>1. new = old \cup {t}
    BY <1>2 DEF At
  <2>2. t \in old <=> f[t] \in labels
    BY <1>2 DEF At
  <2> HIDE DEF old, new
  <2>3. Cardinality(new) = IF t \in old THEN Cardinality(old) ELSE Cardinality(old) + 1
    BY <1>1, <2>1, FS_AddElement
  <2> QED BY <1>1, <1>2, <2>2, <2>3
<1>3. CASE t \in S /\ g[t] \notin labels
  <2>1. new = old \ {t}
    BY <1>3 DEF At
  <2>2. t \in old <=> f[t] \in labels
    BY <1>3 DEF At
  <2> HIDE DEF old, new
  <2>3. Cardinality(new) = IF t \in old THEN Cardinality(old) - 1 ELSE Cardinality(old)
    BY <1>1, <2>1, FS_RemoveElement
  <2> QED BY <1>1, <1>3, <2>2, <2>3
<1>4. CASE t \notin S
  <2>1. new = old
    BY <1>4 DEF At
  <2> QED BY <1>1, <1>4, <2>1
<1> QED BY <1>2, <1>3, <1>4

\* The four numbers NoLostWakeup compares, after a thread has moved.
LEMMA CountsAfter ==
    ASSUME NEW t \in Threads, NEW l, \A u \in Threads : pc'[u] = IF u = t THEN l ELSE pc[u],
           NEW S \in {Fillers, Consumers}
    PROVE  /\ Cardinality(AwakeBefore(S)) \in Nat /\ Cardinality(AtSignal(S)) \in Nat
           /\ Cardinality(AwakeBefore(S)') \in Nat /\ Cardinality(AtSignal(S)') \in Nat
           /\ Cardinality(AwakeBefore(S)') \in Nat /\ Cardinality(AtSignal(S)') \in Nat
           /\ Cardinality(AwakeBefore(S)') \in Nat /\ Cardinality(AtSignal(S)') \in Nat
           /\ Cardinality(AwakeBefore(S)') \in Nat /\ Cardinality(AtSignal(S)') \in Nat
           /\ Cardinality(AwakeBefore(S)') = Cardinality(AwakeBefore(S))
                  + (IF t \in S /\ l \in Early THEN 1 ELSE 0) - (IF t \in S /\ pc[t] \in Early THEN 1 ELSE 0)
           /\ Cardinality(AtSignal(S)') = Cardinality(AtSignal(S))
                  + (IF t \in S /\ l = "signal" THEN 1 ELSE 0) - (IF t \in S /\ pc[t] = "signal" THEN 1 ELSE 0)
<1>1. IsFiniteSet(S) /\ \A u \in S : u # t => pc'[u] = pc[u]
  BY FiniteThreads
<1>2. /\ AwakeBefore(S) = At(pc, S, Early) /\ AtSignal(S) = At(pc, S, {"signal"})
      /\ AwakeBefore(S)' = At(pc', S, Early) /\ AtSignal(S)' = At(pc', S, {"signal"})
      /\ pc'[t] = l
  BY DEF AwakeBefore, AtSignal, At, Early
<1>3. /\ Cardinality(At(pc, S, Early)) \in Nat
      /\ Cardinality(At(pc', S, Early))
           = Cardinality(At(pc, S, Early)) + Is(t, pc', S, Early) - Is(t, pc, S, Early)
  BY <1>1, MovesOne
<1>4. /\ Cardinality(At(pc, S, {"signal"})) \in Nat
      /\ Cardinality(At(pc', S, {"signal"})) = Cardinality(At(pc, S, {"signal"}))
           + Is(t, pc', S, {"signal"}) - Is(t, pc, S, {"signal"})
  BY <1>1, MovesOne
<1>5. Cardinality(At(pc', S, Early)) \in Nat /\ Cardinality(At(pc', S, {"signal"})) \in Nat
  BY <1>1, MovesOne
<1> QED BY <1>2, <1>3, <1>4, <1>5 DEF Is

\* The condition variables of main-two-cvs-while.c: consumers sleep on the one, fillers
\* on the other.
LEMMA TwoQueues ==
    ASSUME Variant = TwoCvsWhile, IInv
    PROVE  /\ Variant.fill_cv # Variant.empty_cv
           /\ CondVars = {Variant.fill_cv, Variant.empty_cv}
           /\ sleepers[Variant.fill_cv] \subseteq Consumers
           /\ sleepers[Variant.empty_cv] \subseteq Fillers
<1>1. Variant.fill_cv = "fill" /\ Variant.empty_cv = "empty"
  BY DEF TwoCvsWhile
<1>2. \A cv \in CondVars : \A t \in sleepers[cv] : t \in Threads /\ WaitsOn(t) = cv
  BY DEF IInv, TypeOK, SleepInv
<1> QED BY <1>1, <1>2, Roles DEF CondVars, WaitsOn

\* A signal counts its thread no longer, and the thread it wakes from then on.
LEMMA SignalCounts ==
    ASSUME NEW t \in Threads, NEW w \in Threads, t # w, pc[t] = "signal", pc[w] = "asleep",
           \A u \in Threads : pc'[u] = IF u = w THEN "woken" ELSE IF u = t THEN "unlock" ELSE pc[u],
           NEW S \in {Fillers, Consumers}
    PROVE  /\ Cardinality(AwakeBefore(S)) \in Nat /\ Cardinality(AtSignal(S)) \in Nat
           /\ Cardinality(AwakeBefore(S)')
                = Cardinality(AwakeBefore(S)) + (IF w \in S THEN 1 ELSE 0)
           /\ Cardinality(AtSignal(S)')
                = Cardinality(AtSignal(S)) - (IF t \in S THEN 1 ELSE 0)
<1>1. PICK mid : mid = [u \in Threads |-> IF u = t THEN "unlock" ELSE pc[u]]
  OBVIOUS
<1>2. /\ IsFiniteSet(S) /\ S \subseteq Threads
      /\ \A u \in S : u # t => mid[u] = pc[u]
      /\ \A u \in S : u # w => pc'[u] = mid[u]
  BY <1>1, FiniteThreads
<1>3. /\ AwakeBefore(S) = At(pc, S, Early) /\ AtSignal(S) = At(pc, S, {"signal"})
      /\ AwakeBefore(S)' = At(pc', S, Early) /\ AtSignal(S)' = At(pc', S, {"signal"})
      /\ pc'[w] = "woken" /\ mid[w] = "asleep" /\ mid[t] = "unlock"
  BY <1>1 DEF AwakeBefore, AtSignal, At, Early
<1> HIDE <1>1
<1>4. /\ Cardinality(At(pc, S, Early)) \in Nat
      /\ Cardinality(At(mid, S, Early))
           = Cardinality(At(pc, S, Early)) + Is(t, mid, S, Early) - Is(t, pc, S, Early)
  BY <1>2, MovesOne
<1>5. /\ Cardinality(At(mid, S, Early)) \in Nat
      /\ Cardinality(At(pc', S, Early))
           = Cardinality(At(mid, S, Early)) + Is(w, pc', S, Early) - Is(w, mid, S, Early)
  BY <1>2, MovesOne
<1>6. /\ Cardinality(At(pc, S, {"signal"})) \in Nat
      /\ Cardinality(At(mid, S, {"signal"})) = Cardinality(At(pc, S, {"signal"}))
           + Is(t, mid, S, {"signal"}) - Is(t, pc, S, {"signal"})
  BY <1>2, MovesOne
<1>7. /\ Cardinality(At(mid, S, {"signal"})) \in Nat
      /\ Cardinality(At(pc', S, {"signal"})) = Cardinality(At(mid, S, {"signal"}))
           + Is(w, pc', S, {"signal"}) - Is(w, mid, S, {"signal"})
  BY <1>2, MovesOne
<1> QED BY <1>3, <1>4, <1>5, <1>6, <1>7 DEF Is, Early

\* What is added to the items or to the free slots is added to those awake or owing a
\* signal, and a thread falls asleep only when there are none.
LEMMA WakeStep ==
    ASSUME Variant = TwoCvsWhile, IInv, NoLostWakeup, [Next]_vars
    PROVE  NoLostWakeup'
<1> DEFINE sC == sleepers[Variant.fill_cv]
           sF == sleepers[Variant.empty_cv]
           aC == Cardinality(AwakeBefore(Consumers))
           aF == Cardinality(AwakeBefore(Fillers))
           gC == Cardinality(AtSignal(Consumers))
           gF == Cardinality(AtSignal(Fillers))
           WakeC == sC # {} => num_full <= aC + gF
           WakeF == sF # {} => Max - num_full <= aF + gC
<1>1. /\ pc \in [Threads -> Labels] /\ sleepers \in [CondVars -> SUBSET Threads]
      /\ num_full \in 0 .. Max /\ Max \in Nat
  BY ParametersAssumption DEF IInv, TypeOK, RingConsistent
<1>2. WakeC /\ WakeF
  BY DEF NoLostWakeup
<1> SUFFICES WakeC' /\ WakeF'
  BY DEF NoLostWakeup
<1>3. CASE UNCHANGED vars
  <2>1. sC' = sC /\ sF' = sF /\ aC' = aC /\ aF' = aF /\ gC' = gC /\ gF' = gF
    BY <1>3 DEF vars, AwakeBefore, AtSignal
  <2> HIDE DEF sC, sF, aC, aF, gC, gF
  <2> QED BY <1>2, <1>3, <2>1 DEF vars
<1>4. ASSUME NEW t \in Threads, NEW l, \A u \in Threads : pc'[u] = IF u = t THEN l ELSE pc[u]
      PROVE  /\ aC \in Nat /\ aF \in Nat /\ gC \in Nat /\ gF \in Nat
             /\ aC' \in Nat /\ aF' \in Nat /\ gC' \in Nat /\ gF' \in Nat
             /\ t \in Consumers =>
                  /\ aF' = aF /\ gF' = gF
                  /\ aC' = aC + (IF l \in Early THEN 1 ELSE 0) - (IF pc[t] \in Early THEN 1 ELSE 0)
                  /\ gC' = gC + (IF l = "signal" THEN 1 ELSE 0) - (IF pc[t] = "signal" THEN 1 ELSE 0)
             /\ t \in Fillers =>
                  /\ aC' = aC /\ gC' = gC
                  /\ aF' = aF + (IF l \in Early THEN 1 ELSE 0) - (IF pc[t] \in Early THEN 1 ELSE 0)
                  /\ gF' = gF + (IF l = "signal" THEN 1 ELSE 0) - (IF pc[t] = "signal" THEN 1 ELSE 0)
  <2> DEFINE Counted(S) ==
               /\ Cardinality(AwakeBefore(S)) \in Nat /\ Cardinality(AtSignal(S)) \in Nat
               /\ Cardinality(AwakeBefore(S)') \in Nat /\ Cardinality(AtSignal(S)') \in Nat
               /\ Cardinality(AwakeBefore(S)') = Cardinality(AwakeBefore(S))
                    + (IF t \in S /\ l \in Early THEN 1 ELSE 0)
                    - (IF t \in S /\ pc[t] \in Early THEN 1 ELSE 0)
               /\ Cardinality(AtSignal(S)') = Cardinality(AtSignal(S))
                    + (IF t \in S /\ l = "signal" THEN 1 ELSE 0)
                    - (IF t \in S /\ pc[t] = "signal" THEN 1 ELSE 0)
  <2>1. Counted(Fillers)
    BY <1>4, CountsAfter
  <2>2. Counted(Consumers)
    BY <1>4, CountsAfter
  <2>3. t \in Consumers <=> t \notin Fillers
    BY Roles
  <2>4. /\ aC' = Cardinality(AwakeBefore(Consumers)') /\ aF' = Cardinality(AwakeBefore(Fillers)')
        /\ gC' = Cardinality(AtSignal(Consumers)') /\ gF' = Cardinality(AtSignal(Fillers)')
    OBVIOUS
  <2> QED BY <2>1, <2>2, <2>3, <2>4
<1> HIDE DEF aC, aF, gC, gF
\* Steps that leave num_full alone and nobody asleep.
<1>5. ASSUME NEW t \in Threads, NEW l, pc' = [pc EXCEPT ![t] = l], num_full' = num_full,
             pc[t] # "signal", pc[t] \in Early => l \in Early,
             sC' \subseteq sC, sF' \subseteq sF
      PROVE  WakeC' /\ WakeF'
  <2>1. \A u \in Threads : pc'[u] = IF u = t THEN l ELSE pc[u]
    BY <1>1, <1>5
  <2>2. aC' >= aC /\ gF' >= gF /\ aF' >= aF /\ gC' >= gC
    BY <1>4, <1>5, <2>1, Roles
  <2> QED BY <1>1, <1>2, <1>4, <1>5, <2>1, <2>2
<1>6. ASSUME NEW t \in Threads, CheckAndWait(t) PROVE WakeC' /\ WakeF'
  <2>1. \A u \in Threads : pc'[u] = IF u = t THEN "asleep" ELSE pc[u]
    BY <1>1, <1>6 DEF CheckAndWait, Goto
  <2>2. pc[t] = "check" /\ num_full' = num_full
    BY <1>6 DEF CheckAndWait, data
  <2>3. CASE t \in Consumers
    <3>1. t \notin Fillers /\ num_full = 0 /\ sF' = sF
      BY <1>1, <1>6, <2>3, Roles, TwoQueues DEF CheckAndWait, Blocked, WaitsOn
    <3> HIDE DEF sC, sF
    <3> QED BY <1>1, <1>2, <1>4, <2>1, <2>2, <2>3, <3>1 DEF Early
  <2>4. CASE t \in Fillers
    <3>1. num_full = Max /\ sC' = sC
      BY <1>1, <1>6, <2>4, TwoQueues DEF CheckAndWait, Blocked, WaitsOn
    <3> QED BY <1>1, <1>2, <1>4, <2>1, <2>2, <2>4, <3>1 DEF Early
  <2> QED BY <2>3, <2>4, Roles
<1>7. ASSUME NEW t \in Threads, do_fill(t) PROVE WakeC' /\ WakeF'
  <2>1. CASE buffer[fill_ptr] = EMPTY
    <3>1. \A u \in Threads : pc'[u] = IF u = t THEN "signal" ELSE pc[u]
      BY <1>1, <1>7, <2>1 DEF do_fill, Goto
    <3>2. /\ t \in Fillers /\ pc[t] = "work" /\ num_full' = num_full + 1
          /\ sC' = sC /\ sF' = sF
      BY <1>7, <2>1 DEF do_fill, sync
    <3> QED BY <1>1, <1>2, <1>4, <3>1, <3>2 DEF Early
  <2>2. CASE buffer[fill_ptr] # EMPTY
    <3>1. /\ num_full' = num_full /\ sC' = sC /\ sF' = sF /\ pc' = pc
      BY <1>7, <2>2 DEF do_fill, sync
    <3>2. aC' = aC /\ aF' = aF /\ gC' = gC /\ gF' = gF
      BY <3>1 DEF aC, aF, gC, gF, AwakeBefore, AtSignal
    <3> QED BY <1>2, <3>1, <3>2
  <2> QED BY <2>1, <2>2
<1>8. ASSUME NEW t \in Threads, do_get(t) PROVE WakeC' /\ WakeF'
  <2>1. CASE buffer[use_ptr] # EMPTY
    <3>1. \A u \in Threads : pc'[u] = IF u = t THEN "signal" ELSE pc[u]
      BY <1>1, <1>8, <2>1 DEF do_get, Goto
    <3>2. /\ t \in Consumers /\ pc[t] = "work" /\ num_full' = num_full - 1
          /\ sC' = sC /\ sF' = sF
      BY <1>8, <2>1 DEF do_get, sync
    <3> QED BY <1>1, <1>2, <1>4, <3>1, <3>2 DEF Early
  <2>2. CASE buffer[use_ptr] = EMPTY
    <3>1. /\ num_full' = num_full /\ sC' = sC /\ sF' = sF /\ pc' = pc
      BY <1>8, <2>2 DEF do_get, sync
    <3>2. aC' = aC /\ aF' = aF /\ gC' = gC /\ gF' = gF
      BY <3>1 DEF aC, aF, gC, gF, AwakeBefore, AtSignal
    <3> QED BY <1>2, <3>1, <3>2
  <2> QED BY <2>1, <2>2
<1>9. ASSUME NEW t \in Threads, SignalNone(t) PROVE WakeC' /\ WakeF'
  <2>1. \A u \in Threads : pc'[u] = IF u = t THEN "unlock" ELSE pc[u]
    BY <1>1, <1>9 DEF SignalNone, Goto
  <2>2. /\ pc[t] = "signal" /\ num_full' = num_full /\ sC' = sC /\ sF' = sF
        /\ t \in Fillers => sC = {}
        /\ t \in Consumers => sF = {}
    BY <1>9, Roles DEF SignalNone, sync, data, Signals
  <2>3. t \in Consumers \/ t \in Fillers
    BY Roles
  <2> HIDE DEF sC, sF
  <2> QED BY <1>1, <1>2, <1>4, <2>1, <2>2, <2>3 DEF Early
<1>10. ASSUME NEW t \in Threads, SignalOne(t) PROVE WakeC' /\ WakeF'
  <2>1. PICK w \in sleepers[Signals(t)] :
           /\ sleepers' = [sleepers EXCEPT ![Signals(t)] = @ \ {w}]
           /\ pc' = [pc EXCEPT ![t] = "unlock", ![w] = "woken"]
    BY <1>10 DEF SignalOne
  <2>2. /\ Signals(t) \in CondVars
        /\ w \in Threads /\ pc[w] = "asleep" /\ w # t /\ WaitsOn(w) = Signals(t)
        /\ pc[t] = "signal" /\ num_full' = num_full
    BY <1>10, <2>1 DEF IInv, TypeOK, SleepInv, CondVars, Signals, SignalOne, data
  <2>3. sC' \subseteq sC /\ sF' \subseteq sF
    BY <1>1, <2>1, <2>2, TwoQueues
  <2>4. \/ t \in Fillers /\ w \in Consumers
        \/ t \in Consumers /\ w \in Fillers
    <3>1. w \in Consumers \/ w \in Fillers
      BY <2>2, Roles
    <3>2. CASE t \in Fillers
      <4>1. WaitsOn(w) = Variant.fill_cv
        BY <2>2, <3>2 DEF Signals
      <4>2. Variant.fill_cv # Variant.empty_cv
        BY TwoQueues
      <4>3. w \notin Fillers
        BY <4>1, <4>2 DEF WaitsOn
      <4> QED BY <3>1, <3>2, <4>3
    <3>3. CASE t \notin Fillers
      <4>1. WaitsOn(w) = Variant.empty_cv
        BY <2>2, <3>3 DEF Signals
      <4>2. Variant.fill_cv # Variant.empty_cv
        BY TwoQueues
      <4>3. w \in Fillers
        BY <4>1, <4>2 DEF WaitsOn
      <4> QED BY <3>3, <4>3, Roles
    <3> QED BY <3>2, <3>3
  <2>5. \A u \in Threads : pc'[u] = IF u = w THEN "woken" ELSE IF u = t THEN "unlock" ELSE pc[u]
    BY <1>1, <2>1, <2>2
  <2> DEFINE Counted(S) ==
               /\ Cardinality(AwakeBefore(S)) \in Nat /\ Cardinality(AtSignal(S)) \in Nat
               /\ Cardinality(AwakeBefore(S)')
                    = Cardinality(AwakeBefore(S)) + (IF w \in S THEN 1 ELSE 0)
               /\ Cardinality(AtSignal(S)')
                    = Cardinality(AtSignal(S)) - (IF t \in S THEN 1 ELSE 0)
  <2>6. Counted(Fillers) /\ Counted(Consumers)
    BY <2>2, <2>5, SignalCounts
  <2>7. /\ aC' = Cardinality(AwakeBefore(Consumers)') /\ aF' = Cardinality(AwakeBefore(Fillers)')
        /\ gC' = Cardinality(AtSignal(Consumers)') /\ gF' = Cardinality(AtSignal(Fillers)')
    BY DEF aC, aF, gC, gF
  <2>8. /\ aC \in Nat /\ aF \in Nat /\ gC \in Nat /\ gF \in Nat
        /\ t \in Fillers => aC' = aC + 1 /\ gF' = gF - 1 /\ aF' = aF /\ gC' = gC
        /\ t \in Consumers => aF' = aF + 1 /\ gC' = gC - 1 /\ aC' = aC /\ gF' = gF
    BY <2>4, <2>6, <2>7, Roles DEF aC, aF, gC, gF
  <2> HIDE DEF sC, sF
  <2> QED BY <1>1, <1>2, <2>2, <2>3, <2>4, <2>8
<1>11. ASSUME NEW t \in Threads, SpuriousWakeup(t) PROVE WakeC' /\ WakeF'
  <2>1. /\ pc' = [pc EXCEPT ![t] = "woken"] /\ num_full' = num_full /\ pc[t] = "asleep"
        /\ WaitsOn(t) \in CondVars
        /\ sleepers' = [sleepers EXCEPT ![WaitsOn(t)] = @ \ {t}]
    BY <1>11 DEF SpuriousWakeup, Goto, data, WaitsOn, CondVars
  <2>2. sC' \subseteq sC /\ sF' \subseteq sF
    BY <1>1, <2>1, TwoQueues
  <2> QED BY <1>5, <2>1, <2>2 DEF Early
<1>12. ASSUME NEW t \in Threads, NEW l, pc' = [pc EXCEPT ![t] = l], num_full' = num_full,
              sleepers' = sleepers, pc[t] # "signal", pc[t] \in Early => l \in Early
       PROVE  WakeC' /\ WakeF'
  BY <1>5, <1>12
<1>13. ASSUME NEW t \in Threads, Lock(t) \/ CheckAndGo(t) \/ Reacquire(t) \/ UnlockFiller(t)
                                 \/ UnlockConsumer(t) \/ JoinProducers(t) \/ JoinConsumers(t)
       PROVE  WakeC' /\ WakeF'
  <2> USE DEF Goto, data, sync, Early
  <2>1. CASE Lock(t)
    BY <1>12, <2>1 DEF Lock
  <2>2. CASE CheckAndGo(t)
    BY <1>12, <2>2 DEF CheckAndGo
  <2>3. CASE Reacquire(t)
    BY <1>12, <2>3 DEF Reacquire
  <2>4. CASE UnlockFiller(t)
    BY <1>12, <2>4 DEF UnlockFiller
  <2>5. CASE UnlockConsumer(t)
    BY <1>12, <2>5 DEF UnlockConsumer
  <2>6. CASE JoinProducers(t)
    BY <1>12, <2>6 DEF JoinProducers
  <2>7. CASE JoinConsumers(t)
    BY <1>12, <2>7 DEF JoinConsumers
  <2> QED BY <1>13, <2>1, <2>2, <2>3, <2>4, <2>5, <2>6, <2>7
<1> QED BY <1>3, <1>6, <1>7, <1>8, <1>9, <1>10, <1>11, <1>13 DEF Next, ThreadStep, Exited

\* In main-two-cvs-while.c no wakeup is lost: whoever sleeps while there is something to do
\* for it does so because as many others are on their way to do it, for every number of
\* producers, consumers, items and slots.
THEOREM TwoCvsNoLostWakeup ==
    ASSUME Variant = TwoCvsWhile
    PROVE  Spec => []NoLostWakeup
<1>1. Variant.recheck
  BY DEF TwoCvsWhile
<1>2. Init => NoLostWakeup
  <2>1. Init => \A cv \in CondVars : sleepers[cv] = {}
    BY DEF Init
  <2> QED BY <2>1 DEF NoLostWakeup, CondVars
<1>3. IInv /\ NoLostWakeup /\ [Next]_vars => NoLostWakeup'
  BY WakeStep
<1> QED BY <1>1, <1>2, <1>3, WhileInv, PTL DEF Spec

-----------------------------------------------------------------------------
\* The refinement.  Main puts its markers when the producers have put everything.
JoinInv ==
    /\ pc[Main] # "join" => \A p \in Producers : pc[p] = "done"
    /\ \A p \in Producers : pc[p] = "done" => i[p] = Rounds(p)
    /\ \A t \in Threads : pc[t] \in {"join", "joinConsumers"} => t = Main

\* A consumer that has seen a marker does not get another item.
EndInv ==
    \A c \in Consumers :
        pc[c] \in {"lock", "check", "asleep", "woken", "work"} => ~Channel!Closed(c)

\* Main is a filler, and no producer.
LEMMA Closers ==
    /\ Main \in Fillers /\ Main \notin Producers
    /\ Fillers = Producers \cup {Main} /\ Producers \subseteq Threads
  BY ParametersAssumption DEF Fillers, Producers, Main, Threads

\* Both hold at first.
LEMMA InitEnds == Init => JoinInv /\ EndInv
<1> SUFFICES ASSUME Init PROVE JoinInv /\ EndInv
  OBVIOUS
<1>1. JoinInv
  BY Closers DEF Init, JoinInv, Threads
<1>2. EndInv
  BY DEF Init, EndInv, Channel!Closed
<1> QED BY <1>1, <1>2

\* One thread at most goes to a label of its choice, and at most one sleeper is woken.
LEMMA NextEnds ==
    ASSUME Variant.recheck, IInv, JoinInv, EndInv, [Next]_vars
    PROVE  JoinInv' /\ EndInv'
<1>0. /\ pc \in [Threads -> Labels] /\ i \in [Fillers -> Nat] /\ got \in [Consumers -> Seq(Values)]
      /\ \A t \in Threads : t \in Fillers <=> t \notin Consumers
      /\ Fillers \subseteq Threads /\ Consumers \subseteq Threads
  BY Roles DEF IInv, TypeOK
<1> USE DEF Channel!Closed
<1>1. CASE UNCHANGED vars
  BY <1>1 DEF vars, JoinInv, EndInv
<1>2. ASSUME NEW t \in Threads, \A u \in Threads : u # t => pc'[u] = pc[u],
             pc[t] \notin {"join", "done"}, pc'[t] \notin {"join", "joinConsumers", "done"},
             i' = i, got' = got,
             t \in Consumers /\ pc'[t] \in {"lock", "check", "asleep", "woken", "work"}
               => pc[t] \in {"lock", "check", "asleep", "woken", "work"}
      PROVE  JoinInv' /\ EndInv'
  <2>1. JoinInv'
    BY <1>0, <1>2, Closers DEF JoinInv
  <2>2. EndInv'
    BY <1>0, <1>2 DEF EndInv
  <2> QED BY <2>1, <2>2
<1>3. ASSUME NEW t \in Threads,
             \/ Lock(t) \/ CheckAndWait(t) \/ CheckAndGo(t) \/ Reacquire(t)
             \/ SignalNone(t) \/ SpuriousWakeup(t)
      PROVE  JoinInv' /\ EndInv'
  <2> USE DEF Goto, data, sync
  <2>1. CASE Lock(t)
    BY <1>0, <1>2, <2>1 DEF Lock
  <2>2. CASE CheckAndWait(t)
    BY <1>0, <1>2, <2>2 DEF CheckAndWait
  <2>3. CASE CheckAndGo(t)
    BY <1>0, <1>2, <2>3 DEF CheckAndGo
  <2>4. CASE Reacquire(t)
    BY <1>0, <1>2, <2>4 DEF Reacquire
  <2>5. CASE SignalNone(t)
    BY <1>0, <1>2, <2>5 DEF SignalNone
  <2>6. CASE SpuriousWakeup(t)
    BY <1>0, <1>2, <2>6 DEF SpuriousWakeup
  <2> QED BY <1>3, <2>1, <2>2, <2>3, <2>4, <2>5, <2>6
<1>4. ASSUME NEW t \in Threads, SignalOne(t) PROVE JoinInv' /\ EndInv'
  <2>1. PICK w \in sleepers[Signals(t)] : pc' = [pc EXCEPT ![t] = "unlock", ![w] = "woken"]
    BY <1>4 DEF SignalOne
  <2>2. w \in Threads /\ pc[w] = "asleep" /\ w # t /\ pc[t] = "signal" /\ i' = i /\ got' = got
    BY <1>4 DEF IInv, TypeOK, SleepInv, CondVars, Signals, SignalOne
  <2>3. JoinInv'
    BY <1>0, <2>1, <2>2, Closers DEF JoinInv
  <2>4. EndInv'
    BY <1>0, <2>1, <2>2 DEF EndInv
  <2> QED BY <2>3, <2>4
<1>5. ASSUME NEW t \in Threads, do_fill(t) PROVE JoinInv' /\ EndInv'
  <2>1. CASE pc' = pc
    BY <1>0, <1>5, <2>1 DEF do_fill, JoinInv, EndInv
  <2>2. CASE pc' = [pc EXCEPT ![t] = "signal"]
    BY <1>0, <1>2, <1>5, <2>2 DEF do_fill
  <2> QED BY <1>5, <2>1, <2>2 DEF do_fill, Goto
<1>6. ASSUME NEW t \in Threads, do_get(t) PROVE JoinInv' /\ EndInv'
  <2>1. CASE pc' = pc /\ got' = got
    BY <1>0, <1>6, <2>1 DEF do_get, JoinInv, EndInv
  <2>2. CASE pc' = [pc EXCEPT ![t] = "signal"] /\ got' = [got EXCEPT ![t] = Append(@, buffer[use_ptr])]
    <3>1. pc[t] = "work" /\ t \in Consumers /\ i' = i
      BY <1>6 DEF do_get
    <3>2. JoinInv'
      BY <1>0, <2>2, <3>1, Closers DEF JoinInv
    <3>3. EndInv'
      BY <1>0, <2>2, <3>1 DEF EndInv
    <3> QED BY <3>2, <3>3
  <2> QED BY <1>6, <2>1, <2>2 DEF do_get, Goto
<1>7. ASSUME NEW t \in Threads, UnlockFiller(t) PROVE JoinInv' /\ EndInv'
  <2>1. /\ pc[t] = "unlock" /\ t \in Fillers /\ i' = [i EXCEPT ![t] = @ + 1] /\ got' = got
        /\ pc' = [pc EXCEPT ![t] = IF i[t] + 1 < Rounds(t) THEN "lock"
                                   ELSE IF t = Main THEN "joinConsumers" ELSE "done"]
    BY <1>7 DEF UnlockFiller, Goto
  <2>2. i[t] < Rounds(t) /\ i[t] \in Nat
    BY <1>0, <2>1 DEF IInv, RoundInv
  <2>3. EndInv'
    BY <1>0, <2>1 DEF EndInv
  <2>4. Rounds(t) \in Int
    BY ParametersAssumption DEF Rounds
  <2>5. CASE t = Main
    <3>1. /\ pc'[Main] # "join" /\ pc[Main] # "join"
          /\ \A p \in Producers : pc'[p] = pc[p] /\ i'[p] = i[p]
          /\ \A u \in Threads : u # Main => pc'[u] = pc[u]
      BY <1>0, <2>1, <2>5, Closers
    <3> QED BY <2>3, <3>1 DEF JoinInv
  <2>6. CASE t # Main
    <3>1. t \in Producers /\ pc'[Main] = pc[Main]
      BY <1>0, <2>1, <2>6, Closers
    <3>2. \A p \in Producers : pc[p] = "done" => p # t /\ pc'[p] = "done"
      BY <1>0, <2>1, Closers
    <3>3. pc'[t] = "done" => i'[t] = Rounds(t)
      BY <1>0, <2>1, <2>2, <2>4, <2>6, Closers
    <3>4. \A p \in Producers \ {t} : pc'[p] = pc[p] /\ i'[p] = i[p]
      BY <1>0, <2>1, Closers
    <3>5. \A u \in Threads : pc'[u] \in {"join", "joinConsumers"} => pc'[u] = pc[u]
      BY <1>0, <2>1, <2>6
    <3> QED BY <2>3, <3>1, <3>2, <3>3, <3>4, <3>5 DEF JoinInv
  <2> QED BY <2>5, <2>6
<1>8. ASSUME NEW t \in Threads, UnlockConsumer(t) PROVE JoinInv' /\ EndInv'
  <2>1. /\ pc[t] = "unlock" /\ t \in Consumers /\ i' = i /\ got' = got
        /\ pc' = [pc EXCEPT ![t] = IF Last(got[t]) = END_OF_STREAM THEN "done" ELSE "lock"]
    BY <1>8 DEF UnlockConsumer, Goto
  <2>2. JoinInv'
    BY <1>0, <2>1, Closers DEF JoinInv
  <2>3. EndInv'
    BY <1>0, <2>1 DEF EndInv, Last
  <2> QED BY <2>2, <2>3
<1>9. ASSUME NEW t \in Threads, JoinProducers(t) PROVE JoinInv' /\ EndInv'
  <2>1. /\ pc[t] = "join" /\ \A p \in Producers : pc[p] = "done"
        /\ pc' = [pc EXCEPT ![t] = "lock"] /\ i' = i /\ got' = got
    BY <1>9 DEF JoinProducers, Goto
  <2>2. t = Main
    BY <2>1 DEF JoinInv
  <2>3. JoinInv'
    BY <1>0, <2>1, <2>2, Closers DEF JoinInv
  <2>4. EndInv'
    BY <1>0, <2>1, <2>2, Closers DEF EndInv
  <2> QED BY <2>3, <2>4
<1>10. ASSUME NEW t \in Threads, JoinConsumers(t) PROVE JoinInv' /\ EndInv'
  <2>1. pc[t] = "joinConsumers" /\ pc' = [pc EXCEPT ![t] = "done"] /\ i' = i /\ got' = got
    BY <1>10 DEF JoinConsumers, Goto
  <2>2. t = Main
    BY <2>1 DEF JoinInv
  <2>3. JoinInv'
    BY <1>0, <2>1, <2>2, Closers DEF JoinInv
  <2>4. EndInv'
    BY <1>0, <2>1, <2>2, Closers DEF EndInv
  <2> QED BY <2>3, <2>4
<1> QED BY <1>1, <1>3, <1>4, <1>5, <1>6, <1>7, <1>8, <1>9, <1>10 DEF Next, ThreadStep, Exited

\* The items in the n slots from slot u on, as the sequence they were put in: what
\* putting one at its end and taking one off its head do to it.
Ring(b, u, n) == [j \in 1 .. n |-> b[(u + j - 1) % Max]]

\* The ring is a sequence, and its items are where the pointer and the count say.
LEMMA RingIs ==
    ASSUME NEW b \in [Slots -> Int], NEW u \in Slots, NEW n \in 0 .. Max
    PROVE  /\ Ring(b, u, n) \in Seq(Int) /\ Len(Ring(b, u, n)) = n
           /\ \A j \in 1 .. n : Ring(b, u, n)[j] = b[IF u + j - 1 < Max THEN u + j - 1
                                                     ELSE u + j - 1 - Max]
<1>1. Max \in Nat \ {0} /\ u \in 0 .. Max - 1
  BY ParametersAssumption DEF Slots
<1>2. ASSUME NEW j \in 1 .. n
      PROVE  /\ (u + j - 1) % Max = IF u + j - 1 < Max THEN u + j - 1 ELSE u + j - 1 - Max
             /\ (u + j - 1) % Max \in Slots
  <2>1. PICK o \in 0 .. 2 * Max - 1 : o = u + j - 1
    BY <1>1
  <2>2. o % Max = IF o < Max THEN o ELSE o - Max
    BY Wrap
  <2> QED BY <1>1, <2>1, <2>2 DEF Slots
<1>3. Ring(b, u, n) \in [1 .. n -> Int]
  BY <1>2 DEF Ring
<1>4. \A j \in 1 .. n : Ring(b, u, n)[j] = b[(u + j - 1) % Max]
  BY DEF Ring
<1>5. Ring(b, u, n) \in Seq(Int) /\ Len(Ring(b, u, n)) = n
  <2> HIDE DEF Ring
  <2>1. n \in Nat
    BY <1>1
  <2> QED BY <1>3, <2>1
<1> QED BY <1>2, <1>4, <1>5

\* What is put in the slot after the last is appended.
LEMMA RingPut ==
    ASSUME NEW b \in [Slots -> Int], NEW u \in Slots, NEW n \in 0 .. Max - 1, NEW v \in Int,
           NEW f \in Slots, f = (u + n) % Max
    PROVE  Ring([b EXCEPT ![f] = v], u, n + 1) = Append(Ring(b, u, n), v)
<1> DEFINE c == [b EXCEPT ![f] = v]
           old == Ring(b, u, n)
           new == Ring(c, u, n + 1)
           at(j) == IF u + j - 1 < Max THEN u + j - 1 ELSE u + j - 1 - Max
<1>1. Max \in Nat \ {0} /\ u \in 0 .. Max - 1 /\ f \in 0 .. Max - 1 /\ c \in [Slots -> Int]
  BY ParametersAssumption DEF Slots
<1>2. /\ n \in 0 .. Max /\ n + 1 \in 0 .. Max
      /\ n \in Nat
  BY <1>1
<1>3. /\ old \in Seq(Int) /\ Len(old) = n /\ \A j \in 1 .. n : old[j] = b[at(j)]
  BY <1>1, <1>2, RingIs
<1>4. /\ new \in Seq(Int) /\ Len(new) = n + 1 /\ \A j \in 1 .. n + 1 : new[j] = c[at(j)]
  BY <1>1, <1>2, RingIs
<1>5. f = at(n + 1)
  <2>1. PICK o \in 0 .. 2 * Max - 1 : o = u + n
    BY <1>1, <1>2
  <2>2. o % Max = IF o < Max THEN o ELSE o - Max
    BY Wrap
  <2> QED BY <1>1, <1>2, <2>1, <2>2
<1>6. ASSUME NEW j \in 1 .. n PROVE at(j) # f /\ at(j) \in Slots
  BY <1>1, <1>2, <1>5 DEF Slots
<1> HIDE DEF old, new, at, c
<1>7. \A j \in 1 .. n : new[j] = old[j]
  BY <1>1, <1>2, <1>3, <1>4, <1>6 DEF c
<1>8. new[n + 1] = v
  BY <1>1, <1>2, <1>4, <1>5 DEF c
<1>9. /\ Append(old, v) \in Seq(Int) /\ Len(Append(old, v)) = n + 1
      /\ \A j \in 1 .. n + 1 : Append(old, v)[j] = IF j <= n THEN old[j] ELSE v
  BY <1>2, <1>3
<1>10. \A j \in 1 .. Len(new) : new[j] = Append(old, v)[j]
  BY <1>2, <1>4, <1>7, <1>8, <1>9
<1>11. new = Append(old, v)
  BY <1>4, <1>9, <1>10, SeqEqual
<1> QED BY <1>11 DEF new, old, c

\* What is taken from the slot of the pointer is the head, and the tail is left.
LEMMA RingTake ==
    ASSUME NEW b \in [Slots -> Int], NEW u \in Slots, NEW n \in 1 .. Max, NEW v \in Int
    PROVE  /\ Ring(b, u, n) # << >> /\ Head(Ring(b, u, n)) = b[u]
           /\ Ring([b EXCEPT ![u] = v], (u + 1) % Max, n - 1) = Tail(Ring(b, u, n))
<1> DEFINE c == [b EXCEPT ![u] = v]
           w == (u + 1) % Max
           old == Ring(b, u, n)
           new == Ring(c, w, n - 1)
           at(x, j) == IF x + j - 1 < Max THEN x + j - 1 ELSE x + j - 1 - Max
<1>1. Max \in Nat \ {0} /\ u \in 0 .. Max - 1 /\ n - 1 \in 0 .. Max /\ n \in 0 .. Max
      /\ c \in [Slots -> Int]
  BY ParametersAssumption DEF Slots
<1>2. w = (IF u + 1 < Max THEN u + 1 ELSE 0) /\ w \in Slots
  <2>1. PICK o \in 0 .. 2 * Max - 1 : o = u + 1
    BY <1>1
  <2>2. o % Max = IF o < Max THEN o ELSE o - Max
    BY Wrap
  <2> QED BY <1>1, <2>1, <2>2 DEF Slots
<1>3. /\ old \in Seq(Int) /\ Len(old) = n /\ \A j \in 1 .. n : old[j] = b[at(u, j)]
  BY <1>1, RingIs
<1>4. /\ new \in Seq(Int) /\ Len(new) = n - 1 /\ \A j \in 1 .. n - 1 : new[j] = c[at(w, j)]
  BY <1>1, <1>2, RingIs
<1> HIDE DEF w
<1>5. ASSUME NEW j \in 1 .. n - 1
      PROVE at(w, j) = at(u, j + 1) /\ at(w, j) # u /\ at(w, j) \in Slots
  <2>1. CASE u + 1 < Max
    BY <1>1, <1>2, <2>1 DEF Slots
  <2>2. CASE u + 1 = Max
    BY <1>1, <1>2, <2>2 DEF Slots
  <2> QED BY <1>1, <2>1, <2>2
<1>6. at(u, 1) = u
  BY <1>1
<1> HIDE DEF old, new, at, c, w
<1>7. \A j \in 1 .. n - 1 : new[j] = old[j + 1]
  BY <1>1, <1>3, <1>4, <1>5 DEF c
<1>8. old # << >> /\ Head(old) = b[u]
  BY <1>1, <1>3, <1>6
<1>9. /\ Tail(old) \in Seq(Int) /\ Len(Tail(old)) = n - 1
      /\ \A j \in 1 .. n - 1 : Tail(old)[j] = old[j + 1]
  BY <1>1, <1>3, <1>8
<1>10. \A j \in 1 .. Len(new) : new[j] = Tail(old)[j]
  BY <1>4, <1>7, <1>9
<1>11. new = Tail(old)
  BY <1>4, <1>9, <1>10, SeqEqual
<1> QED BY <1>8, <1>11 DEF new, old, c, w

-----------------------------------------------------------------------------
\* The channel's variables under the refinement mapping.
Queue == [k \in 1 .. num_full |-> buffer[(use_ptr + k - 1) % Max]]
Put   == [t \in Fillers |-> i[t] + IF pc[t] \in {"signal", "unlock"} THEN 1 ELSE 0]

\* What the invariant says of them.
LEMMA QueueIs ==
    IInv => /\ Queue = Ring(buffer, use_ptr, num_full) /\ Len(Queue) = num_full
            /\ buffer \in [Slots -> Int] /\ use_ptr \in Slots /\ fill_ptr \in Slots
            /\ num_full \in 0 .. Max /\ fill_ptr = (use_ptr + num_full) % Max
<1> SUFFICES ASSUME IInv
             PROVE  /\ Queue = Ring(buffer, use_ptr, num_full) /\ Len(Queue) = num_full
                    /\ buffer \in [Slots -> Int] /\ use_ptr \in Slots /\ fill_ptr \in Slots
                    /\ num_full \in 0 .. Max /\ fill_ptr = (use_ptr + num_full) % Max
  OBVIOUS
<1>1. /\ use_ptr \in Slots /\ num_full \in 0 .. Max /\ fill_ptr \in Slots
      /\ fill_ptr = (use_ptr + num_full) % Max
  BY DEF IInv, TypeOK, RingConsistent
<1>2. buffer \in [Slots -> Int]
  <2>1. Values \cup {EMPTY} \subseteq Int
    BY ParametersAssumption DEF Values, EMPTY
  <2> QED BY <2>1 DEF IInv, TypeOK
<1>3. Queue = Ring(buffer, use_ptr, num_full)
  BY DEF Queue, Ring
<1> QED BY <1>1, <1>2, <1>3, RingIs

\* do_fill puts an item at the end of the queue, when it may ...
LEMMA FillPuts ==
    ASSUME Variant.recheck, IInv, NeverFails', JoinInv, NEW t \in Threads, do_fill(t)
    PROVE  t \in Fillers /\ Channel!Put(t)
<1>1. /\ t \in Fillers /\ pc[t] = "work" /\ i[t] \in Nat /\ i[t] < Rounds(t) /\ ~failed'
      /\ num_full \in 0 .. Max /\ num_full # Max /\ Max \in Nat
      /\ pc \in [Threads -> Labels] /\ i \in [Fillers -> Nat]
  BY ParametersAssumption
     DEF IInv, TypeOK, RoundInv, WorkInv, Blocked, RingConsistent, NeverFails, do_fill
<1>2. /\ buffer' = [buffer EXCEPT ![fill_ptr] = Value(t, i[t])]
      /\ num_full' = num_full + 1 /\ pc' = [pc EXCEPT ![t] = "signal"]
      /\ use_ptr' = use_ptr /\ i' = i /\ got' = got
  BY <1>1 DEF do_fill, Goto
<1>3. Put[t] = i[t] /\ Put' = [Put EXCEPT ![t] = @ + 1]
  <2>1. Put[t] = i[t]
    BY <1>1 DEF Put
  <2>2. \A u \in Fillers : Put'[u] = IF u = t THEN i[t] + 1 ELSE Put[u]
    BY <1>1, <1>2, Roles DEF Put
  <2>3. DOMAIN Put' = Fillers /\ Put' = [u \in Fillers |-> Put'[u]] /\ DOMAIN Put = Fillers
        /\ Put = [u \in Fillers |-> Put[u]]
    BY DEF Put
  <2> QED BY <1>1, <2>1, <2>2, <2>3
<1>4. Queue' = Append(Queue, Value(t, i[t]))
  <2>1. Value(t, i[t]) \in Int
    <3>1. Values \subseteq Int
      BY ParametersAssumption DEF Values
    <3> QED BY <1>1, <3>1, ValueType
  <2>2. Ring([buffer EXCEPT ![fill_ptr] = Value(t, i[t])], use_ptr, num_full + 1)
          = Append(Ring(buffer, use_ptr, num_full), Value(t, i[t]))
    <3>1. num_full \in 0 .. Max - 1
      BY <1>1
    <3>2. /\ buffer \in [Slots -> Int] /\ use_ptr \in Slots /\ fill_ptr \in Slots
          /\ fill_ptr = (use_ptr + num_full) % Max
      BY QueueIs
    <3> HIDE DEF Ring
    <3> QED BY <2>1, <3>1, <3>2, RingPut
  <2>3. Queue' = Ring([buffer EXCEPT ![fill_ptr] = Value(t, i[t])], use_ptr, num_full + 1)
    BY <1>2 DEF Queue, Ring
  <2> QED BY <2>2, <2>3, QueueIs
<1>5. t = Main => \A u \in Fillers \ {Main} : Put[u] = Rounds(u)
  <2> SUFFICES ASSUME t = Main, NEW u \in Fillers \ {Main} PROVE Put[u] = Rounds(u)
    OBVIOUS
  <2>1. pc[u] = "done" /\ i[u] = Rounds(u) /\ i[u] \in Nat
    BY <1>1, Closers DEF JoinInv
  <2> QED BY <2>1 DEF Put
<1>6. Len(Queue) < Max /\ Put[t] < Rounds(t)
  BY <1>1, <1>3, QueueIs
<1> QED BY <1>1, <1>2, <1>3, <1>4, <1>5, <1>6 DEF Channel!Put, Put, Queue

\* ... do_get takes the item at its head ...
LEMMA GetTakes ==
    ASSUME Variant.recheck, IInv, NeverFails', EndInv, NEW t \in Threads, do_get(t)
    PROVE  t \in Consumers /\ Channel!Take(t)
<1>1. /\ t \in Consumers /\ t \notin Fillers /\ pc[t] = "work" /\ ~failed'
      /\ num_full \in 0 .. Max /\ num_full # 0 /\ Max \in Nat
      /\ pc \in [Threads -> Labels] /\ i \in [Fillers -> Nat]
  BY ParametersAssumption, Roles
     DEF IInv, TypeOK, WorkInv, Blocked, RingConsistent, NeverFails, do_get
<1>2. /\ buffer' = [buffer EXCEPT ![use_ptr] = EMPTY]
      /\ got' = [got EXCEPT ![t] = Append(@, buffer[use_ptr])]
      /\ use_ptr' = (use_ptr + 1) % Max /\ num_full' = num_full - 1
      /\ pc' = [pc EXCEPT ![t] = "signal"] /\ i' = i
  BY <1>1 DEF do_get, Goto
<1>3. ~Channel!Closed(t)
  BY <1>1 DEF EndInv
<1>4. Put' = Put
  BY <1>1, <1>2, Roles DEF Put
<1>5. Queue # << >> /\ Head(Queue) = buffer[use_ptr] /\ Queue' = Tail(Queue)
  <2>1. EMPTY \in Int /\ num_full \in 1 .. Max
    BY <1>1 DEF EMPTY
  <2>2. /\ Queue # << >> /\ Head(Queue) = buffer[use_ptr]
        /\ Ring([buffer EXCEPT ![use_ptr] = EMPTY], (use_ptr + 1) % Max, num_full - 1) = Tail(Queue)
    BY <2>1, QueueIs, RingTake
  <2>3. Queue' = Ring([buffer EXCEPT ![use_ptr] = EMPTY], (use_ptr + 1) % Max, num_full - 1)
    BY <1>2 DEF Queue, Ring
  <2> QED BY <2>2, <2>3
<1> QED BY <1>1, <1>2, <1>3, <1>4, <1>5 DEF Channel!Take, Put, Queue

\* ... and no other step shows in the channel: an item counts as put from do_fill on, and
\* the loop counter takes its place when the mutex is released.
LEMMA OthersStutter ==
    ASSUME IInv, NEW t \in Threads,
           \/ Lock(t) \/ CheckAndWait(t) \/ CheckAndGo(t) \/ Reacquire(t) \/ SignalOne(t)
           \/ SignalNone(t) \/ UnlockFiller(t) \/ UnlockConsumer(t) \/ JoinProducers(t)
           \/ JoinConsumers(t) \/ SpuriousWakeup(t)
    PROVE  Queue' = Queue /\ Put' = Put /\ got' = got
<1>0. /\ pc \in [Threads -> Labels] /\ i \in [Fillers -> Nat]
      /\ Fillers \subseteq Threads /\ \A u \in Threads : u \in Fillers <=> u \notin Consumers
  BY Roles DEF IInv, TypeOK
<1>1. UNCHANGED <<data, got>>
  BY DEF Lock, CheckAndWait, CheckAndGo, Reacquire, SignalOne, SignalNone, UnlockFiller,
         UnlockConsumer, JoinProducers, JoinConsumers, SpuriousWakeup
<1>2. Queue' = Queue
  BY <1>1 DEF data, Queue
<1>3. ASSUME i' = i, \A u \in Fillers : pc'[u] \in {"signal", "unlock"} <=> pc[u] \in {"signal", "unlock"}
      PROVE  Put' = Put
  BY <1>3 DEF Put
<1>4. CASE SignalOne(t)
  <2>1. PICK w \in sleepers[Signals(t)] : pc' = [pc EXCEPT ![t] = "unlock", ![w] = "woken"]
    BY <1>4 DEF SignalOne
  <2>2. w \in Threads /\ pc[w] = "asleep" /\ w # t /\ pc[t] = "signal" /\ i' = i
    BY <1>4 DEF IInv, TypeOK, SleepInv, CondVars, Signals, SignalOne
  <2> QED BY <1>0, <1>1, <1>2, <1>3, <2>1, <2>2
<1>5. CASE UnlockFiller(t)
  <2>1. /\ pc[t] = "unlock" /\ t \in Fillers /\ i' = [i EXCEPT ![t] = @ + 1]
        /\ pc'[t] \notin {"signal", "unlock"} /\ \A u \in Fillers \ {t} : pc'[u] = pc[u]
    BY <1>0, <1>5 DEF UnlockFiller, Goto
  <2>2. \A u \in Fillers : Put'[u] = Put[u]
    BY <1>0, <2>1 DEF Put
  <2>3. Put' = [u \in Fillers |-> Put'[u]] /\ Put = [u \in Fillers |-> Put[u]]
    BY DEF Put
  <2> QED BY <1>1, <1>2, <2>2, <2>3
<1>6. CASE UnlockConsumer(t)
  <2>1. t \notin Fillers /\ i' = i /\ \A u \in Threads \ {t} : pc'[u] = pc[u]
    BY <1>0, <1>6 DEF UnlockConsumer, Goto
  <2> QED BY <1>0, <1>1, <1>2, <1>3, <2>1
<1>7. CASE \/ Lock(t) \/ CheckAndWait(t) \/ CheckAndGo(t) \/ Reacquire(t) \/ SignalNone(t)
           \/ JoinProducers(t) \/ JoinConsumers(t) \/ SpuriousWakeup(t)
  <2>1. /\ i' = i /\ \A u \in Threads \ {t} : pc'[u] = pc[u]
        /\ pc'[t] \in {"signal", "unlock"} <=> pc[t] \in {"signal", "unlock"}
    BY <1>0, <1>7 DEF Lock, CheckAndWait, CheckAndGo, Reacquire, SignalNone, JoinProducers,
                      JoinConsumers, SpuriousWakeup, Goto
  <2> QED BY <1>0, <1>1, <1>2, <1>3, <2>1
<1> QED BY <1>4, <1>5, <1>6, <1>7

\* The programs with while implement the bounded FIFO channel of BoundedFifo, for every
\* number of producers, consumers, items and slots: no item is lost, invented, duplicated or
\* overtaken by a later one, the markers come last, and no consumer goes past one.  (That the
\* program also keeps moving, the fairness of ImplementsChannel, is model-checked.)
THEOREM WhileChannel ==
    ASSUME Variant.recheck
    PROVE  Spec => Channel!FifoSafe
<1>1. Init => Channel!FifoInit
  <2> SUFFICES ASSUME Init PROVE Channel!FifoInit
    OBVIOUS
  <2>1. Queue = << >> /\ Put = [t \in Fillers |-> 0]
    <3>1. num_full = 0 /\ \A t \in Fillers : i[t] = 0 /\ pc[t] \notin {"signal", "unlock"}
      BY Closers DEF Init, Threads
    <3>2. Queue = [j \in 1 .. 0 |-> buffer[(use_ptr + j - 1) % Max]]
      BY <3>1 DEF Queue
    <3>3. Queue = << >>
      BY <3>2
    <3>4. \A t \in Fillers : Put[t] = 0
      BY <3>1 DEF Put
    <3>5. Put = [t \in Fillers |-> Put[t]]
      BY DEF Put
    <3> QED BY <3>3, <3>4, <3>5
  <2> QED BY <2>1 DEF Init, Channel!FifoInit, Queue, Put
<1>2. IInv /\ NeverFails' /\ JoinInv /\ EndInv /\ [Next]_vars
        => [Channel!FifoNext]_(Channel!fifoVars)
  <2> SUFFICES ASSUME IInv, NeverFails', JoinInv, EndInv, [Next]_vars
               PROVE  [Channel!FifoNext]_(Channel!fifoVars)
    OBVIOUS
  <2>1. ASSUME Queue' = Queue, Put' = Put, got' = got
        PROVE  [Channel!FifoNext]_(Channel!fifoVars)
    BY <2>1 DEF Channel!fifoVars, Queue, Put
  <2>2. ASSUME UNCHANGED vars PROVE [Channel!FifoNext]_(Channel!fifoVars)
    BY <2>1, <2>2 DEF vars, Queue, Put
  <2>3. ASSUME NEW t \in Threads, do_fill(t) PROVE [Channel!FifoNext]_(Channel!fifoVars)
    BY <2>3, FillPuts DEF Channel!FifoNext
  <2>4. ASSUME NEW t \in Threads, do_get(t) PROVE [Channel!FifoNext]_(Channel!fifoVars)
    BY <2>4, GetTakes DEF Channel!FifoNext
  <2>5. ASSUME NEW t \in Threads,
               \/ Lock(t) \/ CheckAndWait(t) \/ CheckAndGo(t) \/ Reacquire(t) \/ SignalOne(t)
               \/ SignalNone(t) \/ UnlockFiller(t) \/ UnlockConsumer(t) \/ JoinProducers(t)
               \/ JoinConsumers(t) \/ SpuriousWakeup(t)
        PROVE  [Channel!FifoNext]_(Channel!fifoVars)
    BY <2>1, <2>5, OthersStutter
  <2> QED BY <2>2, <2>3, <2>4, <2>5 DEF Next, ThreadStep, Exited
<1>3. IInv /\ JoinInv /\ EndInv /\ [Next]_vars => JoinInv' /\ EndInv'
  BY NextEnds
<1>4. IInv => NeverFails
  BY DEF IInv
<1> QED BY <1>1, <1>2, <1>3, <1>4, InitEnds, WhileInv, PTL DEF Spec, Channel!FifoSafe

=============================================================================
