----------------------------- MODULE X86Proofs -----------------------------
(***************************************************************************)
(* Two facts about x86.py.  The cpu, with its process list and interrupts, *)
(* implements threads with a cpu each: for any programs, number of         *)
(* threads, schedule, interrupt frequency, and whatever the instructions   *)
(* do.  And the programs with a lock exclude the threads from each other's *)
(* critical section and lose no increment, for any number of threads, loop *)
(* count, schedule and interrupt frequency.                                *)
(*                                                                         *)
(* The second goes from the source of each program to the code load makes  *)
(* of it, from there to what each instruction does to the context of the   *)
(* thread that executes it, and from there to an invariant of each lock:   *)
(* who has the mutex, the ticket, or the turn.                             *)
(***************************************************************************)
EXTENDS X86, TLAPS, WellFoundedInduction, FiniteSetTheorems

\* A least number with a property exists, for a set of naturals.
LEMMA LeastExists ==
    ASSUME NEW S \in SUBSET Nat, S # {}
    PROVE  \E m \in S : \A y \in S : ~(y < m)
<1>1. PICK m \in S : \A y \in S : ~(<<y, m>> \in OpToRel(<, Nat))
  BY NatLessThanWellFounded, WFMin
<1> QED BY <1>1 DEF OpToRel

\* The invariant: the schedule has exactly the threads in it, and unless run()
\* has returned the current thread has not halted.
Scheduled ==
    /\ procsched \in Seq(Threads)
    /\ Threads = {procsched[k] : k \in DOMAIN procsched}
    /\ curr \in DOMAIN procsched
    /\ done \subseteq Threads
    /\ ~returned => getcurr \notin done
    /\ DOMAIN plist = Threads
    /\ plist = [t \in Threads |-> plist[t]]

\* The schedule has the threads in it at first.
LEMMA InitScheduled == Init => Scheduled
<1> SUFFICES ASSUME Init PROVE Scheduled
  OBVIOUS
<1>1. procsched \in Seq(Threads) /\ Threads = {procsched[k] : k \in DOMAIN procsched}
  <2>1. CASE procsched = RoundRobin
    <3>1. procsched \in Seq(Threads)
      BY <2>1, X86Assumption DEF RoundRobin, Threads
    <3>2. DOMAIN procsched = 1 .. NumThreads
      BY <2>1 DEF RoundRobin
    <3>3. \A t \in Threads : t + 1 \in DOMAIN procsched /\ procsched[t + 1] = t
      BY <2>1, X86Assumption DEF RoundRobin, Threads
    <3>4. \A k \in DOMAIN procsched : procsched[k] \in Threads
      BY <3>1
    <3> QED BY <3>1, <3>3, <3>4
  <2>2. CASE procsched \in Manual
    BY <2>2, X86Assumption
  <2> QED BY <2>1, <2>2 DEF Init
<1>2. curr \in DOMAIN procsched
  <2>1. 0 \in Threads
    BY X86Assumption DEF Threads
  <2>2. PICK k \in DOMAIN procsched : procsched[k] = 0
    BY <1>1, <2>1
  <2>3. DOMAIN procsched = 1 .. Len(procsched) /\ Len(procsched) \in Nat
    BY <1>1
  <2> QED BY <2>2, <2>3 DEF Init
<1> QED BY <1>1, <1>2 DEF Init, Scheduled

\* proclist.next finds a place whose thread has not halted, if there is one.
LEMMA NextPlace ==
    ASSUME Scheduled, NEW k \in DOMAIN procsched,
           NEW halted \in SUBSET Threads, halted # Threads
    PROVE  next(k, halted) \in DOMAIN procsched /\ procsched[next(k, halted)] \notin halted
<1> DEFINE N == Len(procsched)
           Place(j) == IF k + j <= N THEN k + j ELSE k + j - N
           Good == {j \in 1 .. N : procsched[Place(j)] \notin halted}
<1>1. N \in Nat /\ DOMAIN procsched = 1 .. N
  BY DEF Scheduled
<1>2. \A j \in 1 .. N : Place(j) \in 1 .. N
  BY <1>1
<1>3. Good # {}
  <2>1. PICK q \in 1 .. N : procsched[q] \notin halted
    BY <1>1 DEF Scheduled
  <2>2. \E j \in 1 .. N : Place(j) = q
    <3>1. CASE q > k
      <4>1. q - k \in 1 .. N /\ Place(q - k) = q
        BY <1>1, <3>1
      <4> QED BY <4>1
    <3>2. CASE q <= k
      <4>1. q - k + N \in 1 .. N /\ Place(q - k + N) = q
        BY <1>1, <3>2
      <4> QED BY <4>1
    <3> QED BY <1>1, <3>1, <3>2
  <2> QED BY <2>1, <2>2
<1>4. PICK m \in Good : \A i \in Good : ~(i < m)
  <2>1. Good \in SUBSET Nat
    BY <1>1
  <2> QED BY <1>3, <2>1, LeastExists
<1>5. \A i \in 1 .. m - 1 : procsched[Place(i)] \in halted
  <2> SUFFICES ASSUME NEW i \in 1 .. m - 1 PROVE procsched[Place(i)] \in halted
    OBVIOUS
  <2>1. i \in 1 .. N /\ i < m
    BY <1>1
  <2> QED BY <1>4, <2>1
<1> DEFINE First(j) == /\ procsched[Place(j)] \notin halted
                       /\ \A i \in 1 .. j - 1 : procsched[Place(i)] \in halted
           c == CHOOSE j \in 1 .. N : First(j)
<1>6. c \in 1 .. N /\ First(c)
  <2>1. m \in 1 .. N /\ First(m)
    BY <1>4, <1>5
  <2> HIDE DEF First
  <2> QED BY <2>1
<1>7. next(k, halted) = Place(c)
  BY DEF next
<1> QED BY <1>1, <1>2, <1>6, <1>7

\* What one round of run() does, in the words of its definition.
Out    == Execute(Code[prog][cpu.pc], cpu, memory)
Halted == IF Out.rc = HALT THEN done \cup {getcurr} ELSE done
Place  == IF Out.rc = HALT THEN next(curr, Halted) ELSE curr
Loaded == IF Out.rc = HALT THEN plist[procsched[Place]] ELSE Out.ctx

\* While a thread is left to run, the round ends at a place whose thread has
\* not halted, and with the context of that thread.
LEMMA RoundPlace ==
    ASSUME Scheduled, ~returned, Halted # Threads
    PROVE  /\ Halted \in SUBSET Threads
           /\ Place \in DOMAIN procsched
           /\ procsched[Place] \in Threads \ Halted
           /\ next(Place, Halted) \in DOMAIN procsched
           /\ procsched[next(Place, Halted)] \in Threads \ Halted
<1>1. \A k \in DOMAIN procsched : procsched[k] \in Threads
  BY DEF Scheduled
<1>2. Halted \in SUBSET Threads
  BY <1>1 DEF Scheduled, Halted, getcurr
<1>3. Place \in DOMAIN procsched /\ procsched[Place] \notin Halted
  <2>1. CASE Out.rc = HALT
    BY <1>2, <2>1, NextPlace DEF Place, Scheduled
  <2>2. CASE Out.rc # HALT
    BY <2>2 DEF Place, Halted, Scheduled, getcurr
  <2> QED BY <2>1, <2>2
<1>4. next(Place, Halted) \in DOMAIN procsched /\ procsched[next(Place, Halted)] \notin Halted
  BY <1>2, <1>3, NextPlace
<1> QED BY <1>1, <1>2, <1>3, <1>4

\* The three ways a round can end.
LEMMA RoundEnds ==
    ASSUME Cycle
    PROVE  /\ ~returned /\ memory' = Out.mem /\ done' = Halted /\ UNCHANGED options
           /\ \/ Halted = Threads /\ returned' /\ UNCHANGED <<curr, plist>>
              \/ /\ Halted # Threads /\ curr' = Place /\ cpu' = Loaded
                 /\ UNCHANGED <<plist, returned>>
              \/ /\ Halted # Threads
                 /\ plist' = [plist EXCEPT ![procsched[Place]] = Loaded]
                 /\ curr' = next(Place, Halted)
                 /\ cpu' = plist'[procsched[curr']]
                 /\ UNCHANGED returned
BY DEF Cycle, Out, Halted, Place, Loaded, save

\* A round of run() keeps the schedule and goes to a thread that has not halted.
LEMMA CycleScheduled == Scheduled /\ Cycle => Scheduled'
<1> SUFFICES ASSUME Scheduled, Cycle PROVE Scheduled'
  OBVIOUS
<1> USE RoundEnds
<1>1. ~returned /\ procsched' = procsched /\ done' = Halted
  BY DEF options
<1>2. CASE Halted = Threads
  BY <1>1, <1>2 DEF Scheduled
<1>3. CASE Halted # Threads
  <2>1. /\ done' \subseteq Threads /\ curr' \in DOMAIN procsched'
        /\ procsched'[curr'] \notin done'
    BY <1>1, <1>3, RoundPlace
  <2>2. DOMAIN plist' = Threads /\ plist' = [t \in Threads |-> plist'[t]]
    BY <1>3 DEF Scheduled
  <2> QED BY <1>1, <2>1, <2>2 DEF Scheduled, getcurr
<1> QED BY <1>2, <1>3

\* Where the context of a thread is after a round: what the current thread
\* made of the cpu, and for the others what they had.
LEMMA ContextAfter ==
    ASSUME Scheduled, Cycle, NEW t \in Threads
    PROVE  Context(t)' = IF t \in Halted THEN Gone
                         ELSE IF t = getcurr THEN Out.ctx ELSE Context(t)
<1>1. ~returned /\ procsched' = procsched /\ done' = Halted
  BY RoundEnds DEF options
<1>2. CASE t \in Halted
  BY <1>1, <1>2 DEF Context
<1>3. CASE t \notin Halted
  <2>1. Halted # Threads
    BY <1>3
  <2>2. procsched[Place] \in Threads \ Halted
    BY <1>1, <2>1, RoundPlace
  <2>3. t \notin done /\ Context(t) = IF t = getcurr THEN cpu ELSE plist[t]
    BY <1>3 DEF Halted, Context
  \* Loaded is the context of the thread at Place, whichever that is.
  <2>4. procsched[Place] = t => Loaded = IF t = getcurr THEN Out.ctx ELSE plist[t]
    <3>1. CASE Out.rc = HALT
      <4>1. t # getcurr
        BY <1>3, <3>1 DEF Halted
      <4> QED BY <3>1, <4>1 DEF Loaded
    <3>2. CASE Out.rc # HALT
      BY <3>2 DEF Loaded, Place, getcurr
    <3> QED BY <3>1, <3>2
  <2>5. procsched[Place] # t => t # getcurr
    <3>1. CASE Out.rc = HALT
      BY <1>3, <3>1 DEF Halted
    <3>2. CASE Out.rc # HALT
      BY <3>2 DEF Place, getcurr
    <3> QED BY <3>1, <3>2
  <2>6. Context(t)' = IF t = procsched[curr'] THEN cpu' ELSE plist'[t]
    BY <1>1, <1>3 DEF Context, getcurr
  <2>7. CASE curr' = Place /\ cpu' = Loaded /\ UNCHANGED plist
    BY <1>3, <2>3, <2>4, <2>5, <2>6, <2>7
  <2>8. CASE /\ plist' = [plist EXCEPT ![procsched[Place]] = Loaded]
             /\ curr' = next(Place, Halted) /\ cpu' = plist'[procsched[curr']]
    <3>1. Context(t)' = plist'[t]
      BY <2>6, <2>8
    <3>2. plist'[t] = IF t = procsched[Place] THEN Loaded ELSE plist[t]
      BY <2>8 DEF Scheduled
    <3> QED BY <1>3, <2>3, <2>4, <2>5, <3>1, <3>2
  <2> QED BY <2>1, <2>7, <2>8, RoundEnds
<1> QED BY <1>2, <1>3

\* A round of run() is a step of the current thread.
LEMMA CycleSteps == Scheduled /\ Cycle => Machine!MachineNext
<1> SUFFICES ASSUME Scheduled, Cycle PROVE Machine!MachineNext
  OBVIOUS
<1> DEFINE ctx == [t \in Threads |-> Context(t)]
<1>1. ~returned /\ memory' = Out.mem /\ done' = Halted /\ prog' = prog
  BY RoundEnds DEF options
<1>2. getcurr \in Threads /\ getcurr \notin done
  BY <1>1 DEF Scheduled, getcurr
<1>3. ctx[getcurr] = cpu
  BY <1>2 DEF Context
<1>4. ctx' = [ctx EXCEPT ![getcurr] = IF Halts(Out) THEN Gone ELSE Out.ctx]
  <2>1. \A t \in Threads : Context(t)' = IF t = getcurr
                                         THEN IF Halts(Out) THEN Gone ELSE Out.ctx
                                         ELSE Context(t)
    <3> SUFFICES ASSUME NEW t \in Threads
                 PROVE  Context(t)' = IF t = getcurr THEN IF Halts(Out) THEN Gone ELSE Out.ctx
                                      ELSE Context(t)
      OBVIOUS
    <3>1. Context(t)' = IF t \in Halted THEN Gone ELSE IF t = getcurr THEN Out.ctx ELSE Context(t)
      BY ContextAfter
    <3>2. t \in Halted <=> (t \in done \/ (t = getcurr /\ Halts(Out)))
      BY DEF Halted, Halts
    <3>3. t \in done => Context(t) = Gone
      BY DEF Context
    <3> QED BY <1>2, <3>1, <3>2, <3>3
  <2>2. ctx' = [t \in Threads |-> Context(t)']
    OBVIOUS
  <2> QED BY <2>1, <2>2
<1>5. done' = IF Halts(Out) THEN done \cup {getcurr} ELSE done
  BY <1>1 DEF Halted, Halts
<1>6. Machine!Step(getcurr)
  BY <1>1, <1>2, <1>3, <1>4, <1>5 DEF Machine!Step, Out
<1>7. \E t \in Threads : Machine!Step(t)
  BY <1>2, <1>6
<1> QED BY <1>7 DEF Machine!MachineNext

\* Whatever the interrupts do, the one cpu with its process list behaves as
\* if each thread had a cpu of its own: a switch loses and mixes up nothing.
THEOREM X86ImplementsThreads == Spec => ImplementsThreads
<1>1. Init => Machine!MachineInit
  <2> SUFFICES ASSUME Init PROVE Machine!MachineInit
    OBVIOUS
  <2>1. prog \in DOMAIN Code
    BY X86Assumption DEF Init, Code
  <2>2. \A t \in Threads : Context(t) = Start(prog, t)
    <3>1. getcurr \in Threads
      BY InitScheduled DEF Scheduled, getcurr
    <3>2. curr = 1 /\ done = {} /\ cpu = plist[procsched[1]]
      BY DEF Init
    <3>3. plist = [t \in Threads |-> Start(prog, t)]
      BY DEF Init
    <3> QED BY <3>1, <3>2, <3>3 DEF Context, getcurr
  <2> QED BY <2>1, <2>2 DEF Init, Machine!MachineInit
<1>2. Scheduled /\ [Next]_vars => Scheduled'
  <2> SUFFICES ASSUME Scheduled, [Next]_vars PROVE Scheduled'
    OBVIOUS
  <2>1. CASE Cycle
    BY <2>1, CycleScheduled
  <2>2. CASE UNCHANGED vars
    BY <2>2 DEF Scheduled, vars, options, getcurr
  <2> QED BY <2>1, <2>2 DEF Next, Returned
<1>3. Scheduled /\ [Next]_vars => [Machine!MachineNext]_(Machine!machine)
  <2> SUFFICES ASSUME Scheduled, [Next]_vars PROVE [Machine!MachineNext]_(Machine!machine)
    OBVIOUS
  <2>1. CASE Cycle
    BY <2>1, CycleSteps
  <2>2. CASE UNCHANGED vars
    <3>1. \A t \in Threads : Context(t)' = Context(t)
      BY <2>2 DEF vars, options, Context, getcurr
    <3> QED BY <2>2, <3>1 DEF vars, options, Machine!machine
  <2> QED BY <2>1, <2>2 DEF Next, Returned
<1> QED BY <1>1, <1>2, <1>3, InitScheduled, PTL DEF Spec, ImplementsThreads, Machine!MachineSpec

-----------------------------------------------------------------------------
\* Loading: at which address cpu.load puts a line of a program, and what the
\* six programs with a lock look like in memory.

\* A line is one address behind the line before it, or at the same address if
\* that one is a label: instructions have addresses of their own.
LEMMA NextLine ==
    ASSUME NEW s, NEW n \in Nat, DOMAIN s.lines = 1 .. n, NEW k \in 1 .. n
    PROVE  /\ LineAddress(s, k) \in Int
           /\ LineAddress(s, k + 1) = IF k \in Instructions(s) THEN LineAddress(s, k) + 1
                                      ELSE LineAddress(s, k)
           /\ \A j \in Instructions(s) : k < j /\ k \in Instructions(s) =>
                  LineAddress(s, k) < LineAddress(s, j)
<1> DEFINE B(j) == {i \in Instructions(s) : i < j}
<1>1. \A j : IsFiniteSet(B(j)) /\ Cardinality(B(j)) \in Nat
  <2> SUFFICES ASSUME NEW j PROVE IsFiniteSet(B(j)) /\ Cardinality(B(j)) \in Nat
    OBVIOUS
  <2>1. B(j) \in SUBSET (1 .. n)
    BY DEF Instructions
  <2>2. IsFiniteSet(1 .. n)
    BY FS_Interval
  <2> HIDE DEF B
  <2>3. IsFiniteSet(B(j))
    BY <2>1, <2>2, FS_Subset
  <2> QED BY <2>3, FS_CardinalityType
<1>2. B(k + 1) = IF k \in Instructions(s) THEN B(k) \cup {k} ELSE B(k)
  BY DEF Instructions
<1>3. Cardinality(B(k + 1)) = IF k \in Instructions(s) THEN Cardinality(B(k)) + 1 ELSE Cardinality(B(k))
  <2>1. k \notin B(k)
    OBVIOUS
  <2>2. Cardinality(B(k) \cup {k}) = Cardinality(B(k)) + 1
    BY <1>1, <2>1, FS_AddElement
  <2> QED BY <1>2, <2>2
<1>4. \A j \in Instructions(s) : k < j => Cardinality(B(k + 1)) <= Cardinality(B(j))
  <2> SUFFICES ASSUME NEW j \in Instructions(s), k < j PROVE Cardinality(B(k + 1)) <= Cardinality(B(j))
    OBVIOUS
  <2>1. B(k + 1) \in SUBSET B(j)
    BY DEF Instructions
  <2> QED BY <1>1, <2>1, FS_Subset
<1>5. \A j : LineAddress(s, j) = 1000 + Cardinality(B(j))
  BY DEF LineAddress, loadaddr
<1> HIDE DEF B
<1>6. \A j \in Instructions(s) : k < j /\ k \in Instructions(s) => LineAddress(s, k) < LineAddress(s, j)
  BY <1>1, <1>3, <1>4, <1>5
<1> QED BY <1>1, <1>3, <1>5, <1>6

\* The first line is at the load address.
LEMMA FirstLine == \A s, n : n \in Nat /\ DOMAIN s.lines = 1 .. n => LineAddress(s, 1) = 1000
<1> SUFFICES ASSUME NEW s, NEW n \in Nat, DOMAIN s.lines = 1 .. n PROVE LineAddress(s, 1) = 1000
  OBVIOUS
<1>1. {i \in Instructions(s) : i < 1} = {}
  BY DEF Instructions
<1>2. Cardinality({i \in Instructions(s) : i < 1}) = 0
  BY <1>1, FS_EmptySet, Zenon
<1> QED BY <1>2 DEF LineAddress, loadaddr

\* load puts every instruction at its own address.
LEMMA LoadedAt ==
    ASSUME NEW s, NEW n \in Nat, DOMAIN s.lines = 1 .. n, NEW k \in Instructions(s)
    PROVE  load(s)[LineAddress(s, k)] = Encode(s, s.lines[k])
<1> DEFINE pc == LineAddress(s, k)
           c == CHOOSE j \in Instructions(s) : LineAddress(s, j) = pc
<1>1. Instructions(s) \subseteq 1 .. n
  BY DEF Instructions
<1>2. c \in Instructions(s) /\ LineAddress(s, c) = pc
  OBVIOUS
<1> HIDE DEF c
<1>3. c = k
  <2>1. c < k => LineAddress(s, c) < pc
    BY <1>1, <1>2, NextLine
  <2>2. k < c => pc < LineAddress(s, c)
    BY <1>1, <1>2, NextLine
  <2>3. pc \in Int
    BY <1>1, NextLine
  <2>4. c \in Int /\ k \in Int
    BY <1>1, <1>2
  <2> QED BY <1>2, <2>1, <2>2, <2>3, <2>4
<1>4. load(s)[pc] = Encode(s, s.lines[c])
  BY DEF load, c
<1> QED BY <1>3, <1>4

\* Encoding an instruction with two operands replaces the names in both.
LEMMA EncodeTwo ==
    ASSUME NEW s, NEW op \in {"mov", "add", "sub", "lea", "xchg", "fetchadd", "test"}, NEW x, NEW y
    PROVE  Encode(s, Two(op, x, y)) = Two(op, getarg(s, x), getarg(s, y))
<1>1. PICK i : i = Two(op, x, y)
  OBVIOUS
<1>2. i.op = op /\ i.src = x /\ i.dst = y
  BY <1>1 DEF Two
<1>3. Encode(s, i) = Two(i.op, getarg(s, i.src), getarg(s, i.dst))
  BY <1>2 DEF Encode
<1> QED BY <1>1, <1>2, <1>3, Zenon

\* Encoding a jump or call gives it an address, the others keep what they have.
LEMMA EncodeOthers ==
    ASSUME NEW s
    PROVE  /\ \A cond, l : Encode(s, J(cond, l)) = J(cond, LabelAddress(s, l))
           /\ \A l : Encode(s, Call(l)) = Call(LabelAddress(s, l))
           /\ \A op \in {"neg", "push", "pop_r"} : \A x : Encode(s, One(op, x)) = One(op, getarg(s, x))
           /\ \A op \in {"pop", "ret", "yield", "halt"} : Encode(s, Bare(op)) = Bare(op)
<1>1. ASSUME NEW cond, NEW l PROVE Encode(s, J(cond, l)) = J(cond, LabelAddress(s, l))
  <2>1. PICK i : i = J(cond, l)
    OBVIOUS
  <2>2. i.op = "j" /\ i.cond = cond /\ i.targ = l
    BY <2>1 DEF J
  <2>3. Encode(s, i) = J(i.cond, LabelAddress(s, i.targ))
    BY <2>2 DEF Encode
  <2> QED BY <2>1, <2>2, <2>3, Zenon
<1>2. ASSUME NEW l PROVE Encode(s, Call(l)) = Call(LabelAddress(s, l))
  <2>1. PICK i : i = Call(l)
    OBVIOUS
  <2>2. i.op = "call" /\ i.targ = l
    BY <2>1 DEF Call
  <2>3. Encode(s, i) = Call(LabelAddress(s, i.targ))
    BY <2>2 DEF Encode
  <2> QED BY <2>1, <2>2, <2>3, Zenon
<1>3. ASSUME NEW op \in {"neg", "push", "pop_r"}, NEW x
      PROVE  Encode(s, One(op, x)) = One(op, getarg(s, x))
  <2>1. PICK i : i = One(op, x)
    OBVIOUS
  <2>2. i.op = op /\ i.src = x
    BY <2>1 DEF One
  <2>3. Encode(s, i) = One(i.op, getarg(s, i.src))
    BY <2>2 DEF Encode
  <2> QED BY <2>1, <2>2, <2>3, Zenon
<1>4. ASSUME NEW op \in {"pop", "ret", "yield", "halt"} PROVE Encode(s, Bare(op)) = Bare(op)
  <2>1. PICK i : i = Bare(op)
    OBVIOUS
  <2>2. i.op = op
    BY <2>1 DEF Bare
  <2>3. Encode(s, i) = i
    BY <2>2 DEF Encode
  <2> QED BY <2>1, <2>3, Zenon
<1> QED BY <1>1, <1>2, <1>3, <1>4, Zenon

\* An operand that is a variable becomes its address, the others stay.
LEMMA EncodeArgs ==
    ASSUME NEW s
    PROVE  /\ \A n : getarg(s, Imm(n)) = Imm(n)
           /\ \A r : getarg(s, Reg(r)) = Reg(r)
           /\ \A n, q, r, k : getarg(s, Mem(n, q, r, k)) = Mem(n, q, r, k)
           /\ \A v : getarg(s, Var(v)) = At(VarAddress(s, v))
BY DEF getarg, Imm, Reg, Mem, Var

\* A label that is declared once stands for the address of its line.
LEMMA LabelAt ==
    ASSUME NEW s, NEW k \in DOMAIN s.lines, NEW l, s.lines[k] = Label(l),
           \A j \in DOMAIN s.lines : s.lines[j] = Label(l) => j = k
    PROVE  LabelAddress(s, l) = LineAddress(s, k)
<1>1. (CHOOSE j \in DOMAIN s.lines : s.lines[j] = Label(l)) = k
  OBVIOUS
<1> QED BY <1>1, Zenon DEF LabelAddress

\* The addresses of up to three variables with different names.
LEMMA VariableAt ==
    ASSUME NEW s, NEW n \in 1 .. 3, DOMAIN s.vars = 1 .. n,
           \A j, k \in 1 .. n : s.vars[j][1] = s.vars[k][1] => j = k,
           \A k \in 1 .. n : s.vars[k][2] \in Int
    PROVE  /\ VarAddress(s, s.vars[1][1]) = 100
           /\ n > 1 => VarAddress(s, s.vars[2][1]) = 100 + 4 * s.vars[1][2]
           /\ n > 2 => VarAddress(s, s.vars[3][1]) = 100 + 4 * s.vars[1][2] + 4 * s.vars[2][2]
<1> DEFINE data[k \in DOMAIN s.vars] ==
               IF k = 1 THEN FirstVar ELSE data[k - 1] + 4 * s.vars[k - 1][2]
           F == [k \in DOMAIN s.vars |->
                    CASE k = 1 -> 100 [] k = 2 -> 100 + 4 * s.vars[1][2]
                      [] k = 3 -> 100 + 4 * s.vars[1][2] + 4 * s.vars[2][2]]
<1>1. F = [k \in DOMAIN s.vars |-> IF k = 1 THEN FirstVar ELSE F[k - 1] + 4 * s.vars[k - 1][2]]
  BY DEF FirstVar
<1>2. data = [k \in DOMAIN s.vars |-> IF k = 1 THEN FirstVar ELSE data[k - 1] + 4 * s.vars[k - 1][2]]
  <2> HIDE DEF F
  <2> QED BY <1>1
<1>3. \A k \in 1 .. n : VarAddress(s, s.vars[k][1]) = data[k]
  <2> SUFFICES ASSUME NEW k \in 1 .. n PROVE VarAddress(s, s.vars[k][1]) = data[k]
    OBVIOUS
  <2>1. (CHOOSE j \in DOMAIN s.vars : s.vars[j][1] = s.vars[k][1]) = k
    OBVIOUS
  <2> QED BY <2>1, Zenon DEF VarAddress
<1> HIDE DEF data, F
<1>4. data[1] = 100
  BY <1>2 DEF FirstVar
<1>5. n > 1 => data[2] = 100 + 4 * s.vars[1][2]
  <2> SUFFICES ASSUME n > 1 PROVE data[2] = 100 + 4 * s.vars[1][2]
    OBVIOUS
  <2>1. data[2] = IF 2 = 1 THEN FirstVar ELSE data[2 - 1] + 4 * s.vars[2 - 1][2]
    <3>1. 2 \in DOMAIN s.vars
      OBVIOUS
    <3> QED BY <1>2, <3>1, Zenon
  <2>2. 2 - 1 = 1 /\ 2 # 1
    OBVIOUS
  <2> QED BY <1>4, <2>1, <2>2, Zenon
<1>6. n > 2 => data[3] = 100 + 4 * s.vars[1][2] + 4 * s.vars[2][2]
  <2> SUFFICES ASSUME n > 2 PROVE data[3] = 100 + 4 * s.vars[1][2] + 4 * s.vars[2][2]
    OBVIOUS
  <2>1. data[3] = IF 3 = 1 THEN FirstVar ELSE data[3 - 1] + 4 * s.vars[3 - 1][2]
    <3>1. 3 \in DOMAIN s.vars
      OBVIOUS
    <3> QED BY <1>2, <3>1, Zenon
  <2>2. 3 - 1 = 2 /\ 3 # 1 /\ n > 1
    OBVIOUS
  <2> QED BY <1>5, <2>1, <2>2, Zenon
<1> QED BY <1>3, <1>4, <1>5, <1>6

\* test-and-set.s, line by line.
LEMMA TasLines ==
    LET l == test_and_set.lines IN
    /\ DOMAIN l = 1 .. 14
    /\ l[1] = Label("top")
    /\ l[2] = Label("acquire")
    /\ l[3] = mov(Imm(1), Reg("ax"))
    /\ l[4] = Two("xchg", Reg("ax"), Var("mutex"))
    /\ l[5] = Two("test", Imm(0), Reg("ax"))
    /\ l[6] = J("neq", "acquire")
    /\ l[7] = mov(Var("count"), Reg("ax"))
    /\ l[8] = Two("add", Imm(1), Reg("ax"))
    /\ l[9] = mov(Reg("ax"), Var("count"))
    /\ l[10] = mov(Imm(0), Var("mutex"))
    /\ l[11] = Two("sub", Imm(1), Reg("bx"))
    /\ l[12] = Two("test", Imm(0), Reg("bx"))
    /\ l[13] = J("gt", "top")
    /\ l[14] = Bare("halt")
BY DEF test_and_set, Swap, CriticalSection, Increment, StillLooping

\* The addresses of the variables of test-and-set.s.
LEMMA TasVars ==
    VarAddress(test_and_set, "mutex") = 100 /\ VarAddress(test_and_set, "count") = 104
<1> DEFINE s == test_and_set
<1>1. /\ DOMAIN s.vars = 1 .. 2
      /\ s.vars[1][1] = "mutex" /\ s.vars[1][2] = 1
      /\ s.vars[2][1] = "count" /\ s.vars[2][2] = 1
  BY DEF test_and_set
<1> HIDE DEF s
<1>2. /\ \A j, k \in 1 .. 2 : s.vars[j][1] = s.vars[k][1] => j = k
      /\ \A k \in 1 .. 2 : s.vars[k][2] \in Int
  BY <1>1
<1>3. VarAddress(s, s.vars[1][1]) = 100 /\ VarAddress(s, s.vars[2][1]) = 104
  BY <1>1, <1>2, VariableAt
<1> QED BY <1>1, <1>3 DEF s

\* What load makes of test-and-set.s: labels gone, names replaced by addresses.
LEMMA TasCode ==
    LET c == Code["test_and_set"] IN
    /\ DOMAIN c = 1000 .. 1011
    /\ c[1000] = mov(Imm(1), Reg("ax"))
    /\ c[1001] = Two("xchg", Reg("ax"), At(100))
    /\ c[1002] = Two("test", Imm(0), Reg("ax"))
    /\ c[1003] = J("neq", 1000)
    /\ c[1004] = mov(At(104), Reg("ax"))
    /\ c[1005] = Two("add", Imm(1), Reg("ax"))
    /\ c[1006] = mov(Reg("ax"), At(104))
    /\ c[1007] = mov(Imm(0), At(100))
    /\ c[1008] = Two("sub", Imm(1), Reg("bx"))
    /\ c[1009] = Two("test", Imm(0), Reg("bx"))
    /\ c[1010] = J("gt", 1000)
    /\ c[1011] = Bare("halt")
<1> DEFINE s == test_and_set
           a(k) == LineAddress(s, k)
<1>1. DOMAIN s.lines = 1 .. 14
  BY TasLines
<1>2. Instructions(s) = (1 .. 14) \ {1, 2}
  BY TasLines DEF Instructions, Label, mov, Two, One, J, Call, Bare
<1>3. \A k \in 1 .. 14 : a(k) \in Int /\ a(k + 1) = IF k \in {1, 2} THEN a(k) ELSE a(k) + 1
  BY <1>1, <1>2, NextLine
<1>4. a(1) = 1000
  BY <1>1, FirstLine
<1> HIDE DEF a
<1>5. a(2) = 1000 /\ a(3) = 1000 /\ a(4) = 1001 /\ a(5) = 1002 /\ a(6) = 1003 /\
        a(7) = 1004 /\ a(8) = 1005 /\ a(9) = 1006 /\ a(10) = 1007 /\ a(11) = 1008 /\
        a(12) = 1009 /\ a(13) = 1010 /\ a(14) = 1011
  BY <1>3, <1>4
<1>6. \A k \in (1 .. 14) \ {1, 2} : load(s)[a(k)] = Encode(s, s.lines[k])
  BY <1>1, <1>2, LoadedAt DEF a
<1>7. LabelAddress(s, "top") = 1000 /\ LabelAddress(s, "acquire") = 1000
  <2>1. 1 \in DOMAIN s.lines /\ s.lines[1] = Label("top")
    BY <1>1, TasLines
  <2>2. \A j \in DOMAIN s.lines : s.lines[j] = Label("top") => j = 1
    BY <1>1, TasLines DEF Label, mov, Two, One, J, Call, Bare
  <2>3. LabelAddress(s, "top") = 1000
    <3>1. LabelAddress(s, "top") = a(1)
      BY <2>1, <2>2, LabelAt DEF a
    <3> QED BY <1>4, <1>5, <3>1
  <2>4. 2 \in DOMAIN s.lines /\ s.lines[2] = Label("acquire")
    BY <1>1, TasLines
  <2>5. \A j \in DOMAIN s.lines : s.lines[j] = Label("acquire") => j = 2
    BY <1>1, TasLines DEF Label, mov, Two, One, J, Call, Bare
  <2>6. LabelAddress(s, "acquire") = 1000
    <3>1. LabelAddress(s, "acquire") = a(2)
      BY <2>4, <2>5, LabelAt DEF a
    <3> QED BY <1>4, <1>5, <3>1
  <2> QED BY <2>3, <2>6
<1> HIDE DEF s
<1>8. load(s)[1000] = Encode(s, s.lines[3]) /\ load(s)[1001] = Encode(s, s.lines[4]) /\
        load(s)[1002] = Encode(s, s.lines[5]) /\ load(s)[1003] = Encode(s, s.lines[6]) /\
        load(s)[1004] = Encode(s, s.lines[7]) /\ load(s)[1005] = Encode(s, s.lines[8]) /\
        load(s)[1006] = Encode(s, s.lines[9]) /\ load(s)[1007] = Encode(s, s.lines[10]) /\
        load(s)[1008] = Encode(s, s.lines[11]) /\ load(s)[1009] = Encode(s, s.lines[12]) /\
        load(s)[1010] = Encode(s, s.lines[13]) /\ load(s)[1011] = Encode(s, s.lines[14])
  BY <1>4, <1>5, <1>6
<1>9. s = test_and_set /\ Code["test_and_set"] = load(s)
  BY DEF s, Code, Programs, Source
<1>10. DOMAIN load(s) = 1000 .. 1011
  <2>1. DOMAIN load(s) = {a(k) : k \in (1 .. 14) \ {1, 2}}
    BY <1>2, Zenon DEF load, a
  <2>2. {a(k) : k \in (1 .. 14) \ {1, 2}} = 1000 .. 1011
    BY <1>4, <1>5
  <2> QED BY <2>1, <2>2
<1>11. load(s)[1000] = mov(Imm(1), Reg("ax"))
  BY <1>7, <1>8, <1>9, TasLines, TasVars, EncodeTwo, EncodeOthers, EncodeArgs DEF mov
<1>12. load(s)[1001] = Two("xchg", Reg("ax"), At(100))
  BY <1>7, <1>8, <1>9, TasLines, TasVars, EncodeTwo, EncodeOthers, EncodeArgs DEF mov
<1>13. load(s)[1002] = Two("test", Imm(0), Reg("ax"))
  BY <1>7, <1>8, <1>9, TasLines, TasVars, EncodeTwo, EncodeOthers, EncodeArgs DEF mov
<1>14. load(s)[1003] = J("neq", 1000)
  BY <1>7, <1>8, <1>9, TasLines, TasVars, EncodeTwo, EncodeOthers, EncodeArgs DEF mov
<1>15. load(s)[1004] = mov(At(104), Reg("ax"))
  BY <1>7, <1>8, <1>9, TasLines, TasVars, EncodeTwo, EncodeOthers, EncodeArgs DEF mov
<1>16. load(s)[1005] = Two("add", Imm(1), Reg("ax"))
  BY <1>7, <1>8, <1>9, TasLines, TasVars, EncodeTwo, EncodeOthers, EncodeArgs DEF mov
<1>17. load(s)[1006] = mov(Reg("ax"), At(104))
  BY <1>7, <1>8, <1>9, TasLines, TasVars, EncodeTwo, EncodeOthers, EncodeArgs DEF mov
<1>18. load(s)[1007] = mov(Imm(0), At(100))
  BY <1>7, <1>8, <1>9, TasLines, TasVars, EncodeTwo, EncodeOthers, EncodeArgs DEF mov
<1>19. load(s)[1008] = Two("sub", Imm(1), Reg("bx"))
  BY <1>7, <1>8, <1>9, TasLines, TasVars, EncodeTwo, EncodeOthers, EncodeArgs DEF mov
<1>20. load(s)[1009] = Two("test", Imm(0), Reg("bx"))
  BY <1>7, <1>8, <1>9, TasLines, TasVars, EncodeTwo, EncodeOthers, EncodeArgs DEF mov
<1>21. load(s)[1010] = J("gt", 1000)
  BY <1>7, <1>8, <1>9, TasLines, TasVars, EncodeTwo, EncodeOthers, EncodeArgs DEF mov
<1>22. load(s)[1011] = Bare("halt")
  BY <1>7, <1>8, <1>9, TasLines, TasVars, EncodeTwo, EncodeOthers, EncodeArgs DEF mov
<1> QED BY <1>9, <1>10, <1>11, <1>12, <1>13, <1>14, <1>15, <1>16, <1>17, <1>18, <1>19, <1>20, <1>21, <1>22

\* test-and-test-and-set.s, line by line.
LEMMA TaTasLines ==
    LET l == test_and_test_and_set.lines IN
    /\ DOMAIN l = 1 .. 17
    /\ l[1] = Label("top")
    /\ l[2] = Label("acquire")
    /\ l[3] = mov(Var("mutex"), Reg("ax"))
    /\ l[4] = Two("test", Imm(0), Reg("ax"))
    /\ l[5] = J("neq", "acquire")
    /\ l[6] = mov(Imm(1), Reg("ax"))
    /\ l[7] = Two("xchg", Reg("ax"), Var("mutex"))
    /\ l[8] = Two("test", Imm(0), Reg("ax"))
    /\ l[9] = J("neq", "acquire")
    /\ l[10] = mov(Var("count"), Reg("ax"))
    /\ l[11] = Two("add", Imm(1), Reg("ax"))
    /\ l[12] = mov(Reg("ax"), Var("count"))
    /\ l[13] = mov(Imm(0), Var("mutex"))
    /\ l[14] = Two("sub", Imm(1), Reg("bx"))
    /\ l[15] = Two("test", Imm(0), Reg("bx"))
    /\ l[16] = J("gt", "top")
    /\ l[17] = Bare("halt")
BY DEF test_and_test_and_set, Swap, CriticalSection, Increment, StillLooping

\* The addresses of the variables of test-and-test-and-set.s.
LEMMA TaTasVars ==
    VarAddress(test_and_test_and_set, "mutex") = 100 /\ VarAddress(test_and_test_and_set, "count") = 104
<1> DEFINE s == test_and_test_and_set
<1>1. /\ DOMAIN s.vars = 1 .. 2
      /\ s.vars[1][1] = "mutex" /\ s.vars[1][2] = 1
      /\ s.vars[2][1] = "count" /\ s.vars[2][2] = 1
  BY DEF test_and_test_and_set
<1> HIDE DEF s
<1>2. /\ \A j, k \in 1 .. 2 : s.vars[j][1] = s.vars[k][1] => j = k
      /\ \A k \in 1 .. 2 : s.vars[k][2] \in Int
  BY <1>1
<1>3. VarAddress(s, s.vars[1][1]) = 100 /\ VarAddress(s, s.vars[2][1]) = 104
  BY <1>1, <1>2, VariableAt
<1> QED BY <1>1, <1>3 DEF s

\* What load makes of test-and-test-and-set.s: labels gone, names replaced by addresses.
LEMMA TaTasCode ==
    LET c == Code["test_and_test_and_set"] IN
    /\ DOMAIN c = 1000 .. 1014
    /\ c[1000] = mov(At(100), Reg("ax"))
    /\ c[1001] = Two("test", Imm(0), Reg("ax"))
    /\ c[1002] = J("neq", 1000)
    /\ c[1003] = mov(Imm(1), Reg("ax"))
    /\ c[1004] = Two("xchg", Reg("ax"), At(100))
    /\ c[1005] = Two("test", Imm(0), Reg("ax"))
    /\ c[1006] = J("neq", 1000)
    /\ c[1007] = mov(At(104), Reg("ax"))
    /\ c[1008] = Two("add", Imm(1), Reg("ax"))
    /\ c[1009] = mov(Reg("ax"), At(104))
    /\ c[1010] = mov(Imm(0), At(100))
    /\ c[1011] = Two("sub", Imm(1), Reg("bx"))
    /\ c[1012] = Two("test", Imm(0), Reg("bx"))
    /\ c[1013] = J("gt", 1000)
    /\ c[1014] = Bare("halt")
<1> DEFINE s == test_and_test_and_set
           a(k) == LineAddress(s, k)
<1>1. DOMAIN s.lines = 1 .. 17
  BY TaTasLines
<1>2. Instructions(s) = (1 .. 17) \ {1, 2}
  BY TaTasLines DEF Instructions, Label, mov, Two, One, J, Call, Bare
<1>3. \A k \in 1 .. 17 : a(k) \in Int /\ a(k + 1) = IF k \in {1, 2} THEN a(k) ELSE a(k) + 1
  BY <1>1, <1>2, NextLine
<1>4. a(1) = 1000
  BY <1>1, FirstLine
<1> HIDE DEF a
<1>5. a(2) = 1000 /\ a(3) = 1000 /\ a(4) = 1001 /\ a(5) = 1002 /\ a(6) = 1003 /\
        a(7) = 1004 /\ a(8) = 1005 /\ a(9) = 1006 /\ a(10) = 1007 /\ a(11) = 1008 /\
        a(12) = 1009 /\ a(13) = 1010 /\ a(14) = 1011 /\ a(15) = 1012 /\ a(16) = 1013 /\
        a(17) = 1014
  BY <1>3, <1>4
<1>6. \A k \in (1 .. 17) \ {1, 2} : load(s)[a(k)] = Encode(s, s.lines[k])
  BY <1>1, <1>2, LoadedAt DEF a
<1>7. LabelAddress(s, "top") = 1000 /\ LabelAddress(s, "acquire") = 1000
  <2>1. 1 \in DOMAIN s.lines /\ s.lines[1] = Label("top")
    BY <1>1, TaTasLines
  <2>2. \A j \in DOMAIN s.lines : s.lines[j] = Label("top") => j = 1
    BY <1>1, TaTasLines DEF Label, mov, Two, One, J, Call, Bare
  <2>3. LabelAddress(s, "top") = 1000
    <3>1. LabelAddress(s, "top") = a(1)
      BY <2>1, <2>2, LabelAt DEF a
    <3> QED BY <1>4, <1>5, <3>1
  <2>4. 2 \in DOMAIN s.lines /\ s.lines[2] = Label("acquire")
    BY <1>1, TaTasLines
  <2>5. \A j \in DOMAIN s.lines : s.lines[j] = Label("acquire") => j = 2
    BY <1>1, TaTasLines DEF Label, mov, Two, One, J, Call, Bare
  <2>6. LabelAddress(s, "acquire") = 1000
    <3>1. LabelAddress(s, "acquire") = a(2)
      BY <2>4, <2>5, LabelAt DEF a
    <3> QED BY <1>4, <1>5, <3>1
  <2> QED BY <2>3, <2>6
<1> HIDE DEF s
<1>8. load(s)[1000] = Encode(s, s.lines[3]) /\ load(s)[1001] = Encode(s, s.lines[4]) /\
        load(s)[1002] = Encode(s, s.lines[5]) /\ load(s)[1003] = Encode(s, s.lines[6]) /\
        load(s)[1004] = Encode(s, s.lines[7]) /\ load(s)[1005] = Encode(s, s.lines[8]) /\
        load(s)[1006] = Encode(s, s.lines[9]) /\ load(s)[1007] = Encode(s, s.lines[10]) /\
        load(s)[1008] = Encode(s, s.lines[11]) /\ load(s)[1009] = Encode(s, s.lines[12]) /\
        load(s)[1010] = Encode(s, s.lines[13]) /\ load(s)[1011] = Encode(s, s.lines[14]) /\
        load(s)[1012] = Encode(s, s.lines[15]) /\ load(s)[1013] = Encode(s, s.lines[16]) /\
        load(s)[1014] = Encode(s, s.lines[17])
  BY <1>4, <1>5, <1>6
<1>9. s = test_and_test_and_set /\ Code["test_and_test_and_set"] = load(s)
  BY DEF s, Code, Programs, Source
<1>10. DOMAIN load(s) = 1000 .. 1014
  <2>1. DOMAIN load(s) = {a(k) : k \in (1 .. 17) \ {1, 2}}
    BY <1>2, Zenon DEF load, a
  <2>2. {a(k) : k \in (1 .. 17) \ {1, 2}} = 1000 .. 1014
    BY <1>4, <1>5
  <2> QED BY <2>1, <2>2
<1>11. load(s)[1000] = mov(At(100), Reg("ax"))
  BY <1>7, <1>8, <1>9, TaTasLines, TaTasVars, EncodeTwo, EncodeOthers, EncodeArgs DEF mov
<1>12. load(s)[1001] = Two("test", Imm(0), Reg("ax"))
  BY <1>7, <1>8, <1>9, TaTasLines, TaTasVars, EncodeTwo, EncodeOthers, EncodeArgs DEF mov
<1>13. load(s)[1002] = J("neq", 1000)
  BY <1>7, <1>8, <1>9, TaTasLines, TaTasVars, EncodeTwo, EncodeOthers, EncodeArgs DEF mov
<1>14. load(s)[1003] = mov(Imm(1), Reg("ax"))
  BY <1>7, <1>8, <1>9, TaTasLines, TaTasVars, EncodeTwo, EncodeOthers, EncodeArgs DEF mov
<1>15. load(s)[1004] = Two("xchg", Reg("ax"), At(100))
  BY <1>7, <1>8, <1>9, TaTasLines, TaTasVars, EncodeTwo, EncodeOthers, EncodeArgs DEF mov
<1>16. load(s)[1005] = Two("test", Imm(0), Reg("ax"))
  BY <1>7, <1>8, <1>9, TaTasLines, TaTasVars, EncodeTwo, EncodeOthers, EncodeArgs DEF mov
<1>17. load(s)[1006] = J("neq", 1000)
  BY <1>7, <1>8, <1>9, TaTasLines, TaTasVars, EncodeTwo, EncodeOthers, EncodeArgs DEF mov
<1>18. load(s)[1007] = mov(At(104), Reg("ax"))
  BY <1>7, <1>8, <1>9, TaTasLines, TaTasVars, EncodeTwo, EncodeOthers, EncodeArgs DEF mov
<1>19. load(s)[1008] = Two("add", Imm(1), Reg("ax"))
  BY <1>7, <1>8, <1>9, TaTasLines, TaTasVars, EncodeTwo, EncodeOthers, EncodeArgs DEF mov
<1>20. load(s)[1009] = mov(Reg("ax"), At(104))
  BY <1>7, <1>8, <1>9, TaTasLines, TaTasVars, EncodeTwo, EncodeOthers, EncodeArgs DEF mov
<1>21. load(s)[1010] = mov(Imm(0), At(100))
  BY <1>7, <1>8, <1>9, TaTasLines, TaTasVars, EncodeTwo, EncodeOthers, EncodeArgs DEF mov
<1>22. load(s)[1011] = Two("sub", Imm(1), Reg("bx"))
  BY <1>7, <1>8, <1>9, TaTasLines, TaTasVars, EncodeTwo, EncodeOthers, EncodeArgs DEF mov
<1>23. load(s)[1012] = Two("test", Imm(0), Reg("bx"))
  BY <1>7, <1>8, <1>9, TaTasLines, TaTasVars, EncodeTwo, EncodeOthers, EncodeArgs DEF mov
<1>24. load(s)[1013] = J("gt", 1000)
  BY <1>7, <1>8, <1>9, TaTasLines, TaTasVars, EncodeTwo, EncodeOthers, EncodeArgs DEF mov
<1>25. load(s)[1014] = Bare("halt")
  BY <1>7, <1>8, <1>9, TaTasLines, TaTasVars, EncodeTwo, EncodeOthers, EncodeArgs DEF mov
<1> QED BY <1>9, <1>10, <1>11, <1>12, <1>13, <1>14, <1>15, <1>16, <1>17, <1>18, <1>19, <1>20, <1>21, <1>22, <1>23, <1>24, <1>25

\* yield.s, line by line.
LEMMA YieldLines ==
    LET l == yield.lines IN
    /\ DOMAIN l = 1 .. 17
    /\ l[1] = Label("top")
    /\ l[2] = Label("acquire")
    /\ l[3] = mov(Imm(1), Reg("ax"))
    /\ l[4] = Two("xchg", Reg("ax"), Var("mutex"))
    /\ l[5] = Two("test", Imm(0), Reg("ax"))
    /\ l[6] = J("eq", "acquire_done")
    /\ l[7] = Bare("yield")
    /\ l[8] = J("always", "acquire")
    /\ l[9] = Label("acquire_done")
    /\ l[10] = mov(Var("count"), Reg("ax"))
    /\ l[11] = Two("add", Imm(1), Reg("ax"))
    /\ l[12] = mov(Reg("ax"), Var("count"))
    /\ l[13] = mov(Imm(0), Var("mutex"))
    /\ l[14] = Two("sub", Imm(1), Reg("bx"))
    /\ l[15] = Two("test", Imm(0), Reg("bx"))
    /\ l[16] = J("gt", "top")
    /\ l[17] = Bare("halt")
BY DEF yield, Swap, CriticalSection, Increment, StillLooping

\* The addresses of the variables of yield.s.
LEMMA YieldVars ==
    VarAddress(yield, "mutex") = 100 /\ VarAddress(yield, "count") = 104
<1> DEFINE s == yield
<1>1. /\ DOMAIN s.vars = 1 .. 2
      /\ s.vars[1][1] = "mutex" /\ s.vars[1][2] = 1
      /\ s.vars[2][1] = "count" /\ s.vars[2][2] = 1
  BY DEF yield
<1> HIDE DEF s
<1>2. /\ \A j, k \in 1 .. 2 : s.vars[j][1] = s.vars[k][1] => j = k
      /\ \A k \in 1 .. 2 : s.vars[k][2] \in Int
  BY <1>1
<1>3. VarAddress(s, s.vars[1][1]) = 100 /\ VarAddress(s, s.vars[2][1]) = 104
  BY <1>1, <1>2, VariableAt
<1> QED BY <1>1, <1>3 DEF s

\* What load makes of yield.s: labels gone, names replaced by addresses.
LEMMA YieldCode ==
    LET c == Code["yield"] IN
    /\ DOMAIN c = 1000 .. 1013
    /\ c[1000] = mov(Imm(1), Reg("ax"))
    /\ c[1001] = Two("xchg", Reg("ax"), At(100))
    /\ c[1002] = Two("test", Imm(0), Reg("ax"))
    /\ c[1003] = J("eq", 1006)
    /\ c[1004] = Bare("yield")
    /\ c[1005] = J("always", 1000)
    /\ c[1006] = mov(At(104), Reg("ax"))
    /\ c[1007] = Two("add", Imm(1), Reg("ax"))
    /\ c[1008] = mov(Reg("ax"), At(104))
    /\ c[1009] = mov(Imm(0), At(100))
    /\ c[1010] = Two("sub", Imm(1), Reg("bx"))
    /\ c[1011] = Two("test", Imm(0), Reg("bx"))
    /\ c[1012] = J("gt", 1000)
    /\ c[1013] = Bare("halt")
<1> DEFINE s == yield
           a(k) == LineAddress(s, k)
<1>1. DOMAIN s.lines = 1 .. 17
  BY YieldLines
<1>2. Instructions(s) = (1 .. 17) \ {1, 2, 9}
  BY YieldLines DEF Instructions, Label, mov, Two, One, J, Call, Bare
<1>3. \A k \in 1 .. 17 : a(k) \in Int /\ a(k + 1) = IF k \in {1, 2, 9} THEN a(k) ELSE a(k) + 1
  BY <1>1, <1>2, NextLine
<1>4. a(1) = 1000
  BY <1>1, FirstLine
<1> HIDE DEF a
<1>5. a(2) = 1000 /\ a(3) = 1000 /\ a(4) = 1001 /\ a(5) = 1002 /\ a(6) = 1003 /\
        a(7) = 1004 /\ a(8) = 1005 /\ a(9) = 1006 /\ a(10) = 1006 /\ a(11) = 1007 /\
        a(12) = 1008 /\ a(13) = 1009 /\ a(14) = 1010 /\ a(15) = 1011 /\ a(16) = 1012 /\
        a(17) = 1013
  BY <1>3, <1>4
<1>6. \A k \in (1 .. 17) \ {1, 2, 9} : load(s)[a(k)] = Encode(s, s.lines[k])
  BY <1>1, <1>2, LoadedAt DEF a
<1>7. LabelAddress(s, "top") = 1000 /\ LabelAddress(s, "acquire") = 1000 /\ LabelAddress(s, "acquire_done") = 1006
  <2>1. 1 \in DOMAIN s.lines /\ s.lines[1] = Label("top")
    BY <1>1, YieldLines
  <2>2. \A j \in DOMAIN s.lines : s.lines[j] = Label("top") => j = 1
    BY <1>1, YieldLines DEF Label, mov, Two, One, J, Call, Bare
  <2>3. LabelAddress(s, "top") = 1000
    <3>1. LabelAddress(s, "top") = a(1)
      BY <2>1, <2>2, LabelAt DEF a
    <3> QED BY <1>4, <1>5, <3>1
  <2>4. 2 \in DOMAIN s.lines /\ s.lines[2] = Label("acquire")
    BY <1>1, YieldLines
  <2>5. \A j \in DOMAIN s.lines : s.lines[j] = Label("acquire") => j = 2
    BY <1>1, YieldLines DEF Label, mov, Two, One, J, Call, Bare
  <2>6. LabelAddress(s, "acquire") = 1000
    <3>1. LabelAddress(s, "acquire") = a(2)
      BY <2>4, <2>5, LabelAt DEF a
    <3> QED BY <1>4, <1>5, <3>1
  <2>7. 9 \in DOMAIN s.lines /\ s.lines[9] = Label("acquire_done")
    BY <1>1, YieldLines
  <2>8. \A j \in DOMAIN s.lines : s.lines[j] = Label("acquire_done") => j = 9
    BY <1>1, YieldLines DEF Label, mov, Two, One, J, Call, Bare
  <2>9. LabelAddress(s, "acquire_done") = 1006
    <3>1. LabelAddress(s, "acquire_done") = a(9)
      BY <2>7, <2>8, LabelAt DEF a
    <3> QED BY <1>4, <1>5, <3>1
  <2> QED BY <2>3, <2>6, <2>9
<1> HIDE DEF s
<1>8. load(s)[1000] = Encode(s, s.lines[3]) /\ load(s)[1001] = Encode(s, s.lines[4]) /\
        load(s)[1002] = Encode(s, s.lines[5]) /\ load(s)[1003] = Encode(s, s.lines[6]) /\
        load(s)[1004] = Encode(s, s.lines[7]) /\ load(s)[1005] = Encode(s, s.lines[8]) /\
        load(s)[1006] = Encode(s, s.lines[10]) /\ load(s)[1007] = Encode(s, s.lines[11]) /\
        load(s)[1008] = Encode(s, s.lines[12]) /\ load(s)[1009] = Encode(s, s.lines[13]) /\
        load(s)[1010] = Encode(s, s.lines[14]) /\ load(s)[1011] = Encode(s, s.lines[15]) /\
        load(s)[1012] = Encode(s, s.lines[16]) /\ load(s)[1013] = Encode(s, s.lines[17])
  BY <1>4, <1>5, <1>6
<1>9. s = yield /\ Code["yield"] = load(s)
  BY DEF s, Code, Programs, Source
<1>10. DOMAIN load(s) = 1000 .. 1013
  <2>1. DOMAIN load(s) = {a(k) : k \in (1 .. 17) \ {1, 2, 9}}
    BY <1>2, Zenon DEF load, a
  <2>2. {a(k) : k \in (1 .. 17) \ {1, 2, 9}} = 1000 .. 1013
    BY <1>4, <1>5
  <2> QED BY <2>1, <2>2
<1>11. load(s)[1000] = mov(Imm(1), Reg("ax"))
  BY <1>7, <1>8, <1>9, YieldLines, YieldVars, EncodeTwo, EncodeOthers, EncodeArgs DEF mov
<1>12. load(s)[1001] = Two("xchg", Reg("ax"), At(100))
  BY <1>7, <1>8, <1>9, YieldLines, YieldVars, EncodeTwo, EncodeOthers, EncodeArgs DEF mov
<1>13. load(s)[1002] = Two("test", Imm(0), Reg("ax"))
  BY <1>7, <1>8, <1>9, YieldLines, YieldVars, EncodeTwo, EncodeOthers, EncodeArgs DEF mov
<1>14. load(s)[1003] = J("eq", 1006)
  BY <1>7, <1>8, <1>9, YieldLines, YieldVars, EncodeTwo, EncodeOthers, EncodeArgs DEF mov
<1>15. load(s)[1004] = Bare("yield")
  BY <1>7, <1>8, <1>9, YieldLines, YieldVars, EncodeTwo, EncodeOthers, EncodeArgs DEF mov
<1>16. load(s)[1005] = J("always", 1000)
  BY <1>7, <1>8, <1>9, YieldLines, YieldVars, EncodeTwo, EncodeOthers, EncodeArgs DEF mov
<1>17. load(s)[1006] = mov(At(104), Reg("ax"))
  BY <1>7, <1>8, <1>9, YieldLines, YieldVars, EncodeTwo, EncodeOthers, EncodeArgs DEF mov
<1>18. load(s)[1007] = Two("add", Imm(1), Reg("ax"))
  BY <1>7, <1>8, <1>9, YieldLines, YieldVars, EncodeTwo, EncodeOthers, EncodeArgs DEF mov
<1>19. load(s)[1008] = mov(Reg("ax"), At(104))
  BY <1>7, <1>8, <1>9, YieldLines, YieldVars, EncodeTwo, EncodeOthers, EncodeArgs DEF mov
<1>20. load(s)[1009] = mov(Imm(0), At(100))
  BY <1>7, <1>8, <1>9, YieldLines, YieldVars, EncodeTwo, EncodeOthers, EncodeArgs DEF mov
<1>21. load(s)[1010] = Two("sub", Imm(1), Reg("bx"))
  BY <1>7, <1>8, <1>9, YieldLines, YieldVars, EncodeTwo, EncodeOthers, EncodeArgs DEF mov
<1>22. load(s)[1011] = Two("test", Imm(0), Reg("bx"))
  BY <1>7, <1>8, <1>9, YieldLines, YieldVars, EncodeTwo, EncodeOthers, EncodeArgs DEF mov
<1>23. load(s)[1012] = J("gt", 1000)
  BY <1>7, <1>8, <1>9, YieldLines, YieldVars, EncodeTwo, EncodeOthers, EncodeArgs DEF mov
<1>24. load(s)[1013] = Bare("halt")
  BY <1>7, <1>8, <1>9, YieldLines, YieldVars, EncodeTwo, EncodeOthers, EncodeArgs DEF mov
<1> QED BY <1>9, <1>10, <1>11, <1>12, <1>13, <1>14, <1>15, <1>16, <1>17, <1>18, <1>19, <1>20, <1>21, <1>22, <1>23, <1>24

\* ticket.s, line by line.
LEMMA TicketLines ==
    LET l == ticket.lines IN
    /\ DOMAIN l = 1 .. 17
    /\ l[1] = Label("top")
    /\ l[2] = Label("acquire")
    /\ l[3] = mov(Imm(1), Reg("ax"))
    /\ l[4] = Two("fetchadd", Reg("ax"), Var("ticket"))
    /\ l[5] = Label("tryagain")
    /\ l[6] = mov(Var("turn"), Reg("cx"))
    /\ l[7] = Two("test", Reg("cx"), Reg("ax"))
    /\ l[8] = J("neq", "tryagain")
    /\ l[9] = mov(Var("count"), Reg("ax"))
    /\ l[10] = Two("add", Imm(1), Reg("ax"))
    /\ l[11] = mov(Reg("ax"), Var("count"))
    /\ l[12] = mov(Imm(1), Reg("ax"))
    /\ l[13] = Two("fetchadd", Reg("ax"), Var("turn"))
    /\ l[14] = Two("sub", Imm(1), Reg("bx"))
    /\ l[15] = Two("test", Imm(0), Reg("bx"))
    /\ l[16] = J("gt", "top")
    /\ l[17] = Bare("halt")
BY DEF ticket, CriticalSection, Increment, StillLooping

\* The addresses of the variables of ticket.s.
LEMMA TicketVars ==
    VarAddress(ticket, "ticket") = 100 /\ VarAddress(ticket, "turn") = 104 /\ VarAddress(ticket, "count") = 108
<1> DEFINE s == ticket
<1>1. /\ DOMAIN s.vars = 1 .. 3
      /\ s.vars[1][1] = "ticket" /\ s.vars[1][2] = 1
      /\ s.vars[2][1] = "turn" /\ s.vars[2][2] = 1
      /\ s.vars[3][1] = "count" /\ s.vars[3][2] = 1
  BY DEF ticket
<1> HIDE DEF s
<1>2. /\ \A j, k \in 1 .. 3 : s.vars[j][1] = s.vars[k][1] => j = k
      /\ \A k \in 1 .. 3 : s.vars[k][2] \in Int
  BY <1>1
<1>3. VarAddress(s, s.vars[1][1]) = 100 /\ VarAddress(s, s.vars[2][1]) = 104 /\ VarAddress(s, s.vars[3][1]) = 108
  BY <1>1, <1>2, VariableAt
<1> QED BY <1>1, <1>3 DEF s

\* What load makes of ticket.s: labels gone, names replaced by addresses.
LEMMA TicketCode ==
    LET c == Code["ticket"] IN
    /\ DOMAIN c = 1000 .. 1013
    /\ c[1000] = mov(Imm(1), Reg("ax"))
    /\ c[1001] = Two("fetchadd", Reg("ax"), At(100))
    /\ c[1002] = mov(At(104), Reg("cx"))
    /\ c[1003] = Two("test", Reg("cx"), Reg("ax"))
    /\ c[1004] = J("neq", 1002)
    /\ c[1005] = mov(At(108), Reg("ax"))
    /\ c[1006] = Two("add", Imm(1), Reg("ax"))
    /\ c[1007] = mov(Reg("ax"), At(108))
    /\ c[1008] = mov(Imm(1), Reg("ax"))
    /\ c[1009] = Two("fetchadd", Reg("ax"), At(104))
    /\ c[1010] = Two("sub", Imm(1), Reg("bx"))
    /\ c[1011] = Two("test", Imm(0), Reg("bx"))
    /\ c[1012] = J("gt", 1000)
    /\ c[1013] = Bare("halt")
<1> DEFINE s == ticket
           a(k) == LineAddress(s, k)
<1>1. DOMAIN s.lines = 1 .. 17
  BY TicketLines
<1>2. Instructions(s) = (1 .. 17) \ {1, 2, 5}
  BY TicketLines DEF Instructions, Label, mov, Two, One, J, Call, Bare
<1>3. \A k \in 1 .. 17 : a(k) \in Int /\ a(k + 1) = IF k \in {1, 2, 5} THEN a(k) ELSE a(k) + 1
  BY <1>1, <1>2, NextLine
<1>4. a(1) = 1000
  BY <1>1, FirstLine
<1> HIDE DEF a
<1>5. a(2) = 1000 /\ a(3) = 1000 /\ a(4) = 1001 /\ a(5) = 1002 /\ a(6) = 1002 /\
        a(7) = 1003 /\ a(8) = 1004 /\ a(9) = 1005 /\ a(10) = 1006 /\ a(11) = 1007 /\
        a(12) = 1008 /\ a(13) = 1009 /\ a(14) = 1010 /\ a(15) = 1011 /\ a(16) = 1012 /\
        a(17) = 1013
  BY <1>3, <1>4
<1>6. \A k \in (1 .. 17) \ {1, 2, 5} : load(s)[a(k)] = Encode(s, s.lines[k])
  BY <1>1, <1>2, LoadedAt DEF a
<1>7. LabelAddress(s, "top") = 1000 /\ LabelAddress(s, "acquire") = 1000 /\ LabelAddress(s, "tryagain") = 1002
  <2>1. 1 \in DOMAIN s.lines /\ s.lines[1] = Label("top")
    BY <1>1, TicketLines
  <2>2. \A j \in DOMAIN s.lines : s.lines[j] = Label("top") => j = 1
    BY <1>1, TicketLines DEF Label, mov, Two, One, J, Call, Bare
  <2>3. LabelAddress(s, "top") = 1000
    <3>1. LabelAddress(s, "top") = a(1)
      BY <2>1, <2>2, LabelAt DEF a
    <3> QED BY <1>4, <1>5, <3>1
  <2>4. 2 \in DOMAIN s.lines /\ s.lines[2] = Label("acquire")
    BY <1>1, TicketLines
  <2>5. \A j \in DOMAIN s.lines : s.lines[j] = Label("acquire") => j = 2
    BY <1>1, TicketLines DEF Label, mov, Two, One, J, Call, Bare
  <2>6. LabelAddress(s, "acquire") = 1000
    <3>1. LabelAddress(s, "acquire") = a(2)
      BY <2>4, <2>5, LabelAt DEF a
    <3> QED BY <1>4, <1>5, <3>1
  <2>7. 5 \in DOMAIN s.lines /\ s.lines[5] = Label("tryagain")
    BY <1>1, TicketLines
  <2>8. \A j \in DOMAIN s.lines : s.lines[j] = Label("tryagain") => j = 5
    BY <1>1, TicketLines DEF Label, mov, Two, One, J, Call, Bare
  <2>9. LabelAddress(s, "tryagain") = 1002
    <3>1. LabelAddress(s, "tryagain") = a(5)
      BY <2>7, <2>8, LabelAt DEF a
    <3> QED BY <1>4, <1>5, <3>1
  <2> QED BY <2>3, <2>6, <2>9
<1> HIDE DEF s
<1>8. load(s)[1000] = Encode(s, s.lines[3]) /\ load(s)[1001] = Encode(s, s.lines[4]) /\
        load(s)[1002] = Encode(s, s.lines[6]) /\ load(s)[1003] = Encode(s, s.lines[7]) /\
        load(s)[1004] = Encode(s, s.lines[8]) /\ load(s)[1005] = Encode(s, s.lines[9]) /\
        load(s)[1006] = Encode(s, s.lines[10]) /\ load(s)[1007] = Encode(s, s.lines[11]) /\
        load(s)[1008] = Encode(s, s.lines[12]) /\ load(s)[1009] = Encode(s, s.lines[13]) /\
        load(s)[1010] = Encode(s, s.lines[14]) /\ load(s)[1011] = Encode(s, s.lines[15]) /\
        load(s)[1012] = Encode(s, s.lines[16]) /\ load(s)[1013] = Encode(s, s.lines[17])
  BY <1>4, <1>5, <1>6
<1>9. s = ticket /\ Code["ticket"] = load(s)
  BY DEF s, Code, Programs, Source
<1>10. DOMAIN load(s) = 1000 .. 1013
  <2>1. DOMAIN load(s) = {a(k) : k \in (1 .. 17) \ {1, 2, 5}}
    BY <1>2, Zenon DEF load, a
  <2>2. {a(k) : k \in (1 .. 17) \ {1, 2, 5}} = 1000 .. 1013
    BY <1>4, <1>5
  <2> QED BY <2>1, <2>2
<1>11. load(s)[1000] = mov(Imm(1), Reg("ax"))
  BY <1>7, <1>8, <1>9, TicketLines, TicketVars, EncodeTwo, EncodeOthers, EncodeArgs DEF mov
<1>12. load(s)[1001] = Two("fetchadd", Reg("ax"), At(100))
  BY <1>7, <1>8, <1>9, TicketLines, TicketVars, EncodeTwo, EncodeOthers, EncodeArgs DEF mov
<1>13. load(s)[1002] = mov(At(104), Reg("cx"))
  BY <1>7, <1>8, <1>9, TicketLines, TicketVars, EncodeTwo, EncodeOthers, EncodeArgs DEF mov
<1>14. load(s)[1003] = Two("test", Reg("cx"), Reg("ax"))
  BY <1>7, <1>8, <1>9, TicketLines, TicketVars, EncodeTwo, EncodeOthers, EncodeArgs DEF mov
<1>15. load(s)[1004] = J("neq", 1002)
  BY <1>7, <1>8, <1>9, TicketLines, TicketVars, EncodeTwo, EncodeOthers, EncodeArgs DEF mov
<1>16. load(s)[1005] = mov(At(108), Reg("ax"))
  BY <1>7, <1>8, <1>9, TicketLines, TicketVars, EncodeTwo, EncodeOthers, EncodeArgs DEF mov
<1>17. load(s)[1006] = Two("add", Imm(1), Reg("ax"))
  BY <1>7, <1>8, <1>9, TicketLines, TicketVars, EncodeTwo, EncodeOthers, EncodeArgs DEF mov
<1>18. load(s)[1007] = mov(Reg("ax"), At(108))
  BY <1>7, <1>8, <1>9, TicketLines, TicketVars, EncodeTwo, EncodeOthers, EncodeArgs DEF mov
<1>19. load(s)[1008] = mov(Imm(1), Reg("ax"))
  BY <1>7, <1>8, <1>9, TicketLines, TicketVars, EncodeTwo, EncodeOthers, EncodeArgs DEF mov
<1>20. load(s)[1009] = Two("fetchadd", Reg("ax"), At(104))
  BY <1>7, <1>8, <1>9, TicketLines, TicketVars, EncodeTwo, EncodeOthers, EncodeArgs DEF mov
<1>21. load(s)[1010] = Two("sub", Imm(1), Reg("bx"))
  BY <1>7, <1>8, <1>9, TicketLines, TicketVars, EncodeTwo, EncodeOthers, EncodeArgs DEF mov
<1>22. load(s)[1011] = Two("test", Imm(0), Reg("bx"))
  BY <1>7, <1>8, <1>9, TicketLines, TicketVars, EncodeTwo, EncodeOthers, EncodeArgs DEF mov
<1>23. load(s)[1012] = J("gt", 1000)
  BY <1>7, <1>8, <1>9, TicketLines, TicketVars, EncodeTwo, EncodeOthers, EncodeArgs DEF mov
<1>24. load(s)[1013] = Bare("halt")
  BY <1>7, <1>8, <1>9, TicketLines, TicketVars, EncodeTwo, EncodeOthers, EncodeArgs DEF mov
<1> QED BY <1>9, <1>10, <1>11, <1>12, <1>13, <1>14, <1>15, <1>16, <1>17, <1>18, <1>19, <1>20, <1>21, <1>22, <1>23, <1>24

\* peterson.s, line by line.
LEMMA PetersonLines ==
    LET l == peterson.lines IN
    /\ DOMAIN l = 1 .. 23
    /\ l[1] = Two("lea", Var("flag"), Reg("fx"))
    /\ l[2] = mov(Reg("bx"), Reg("cx"))
    /\ l[3] = One("neg", Reg("cx"))
    /\ l[4] = Two("add", Imm(1), Reg("cx"))
    /\ l[5] = Label("acquire")
    /\ l[6] = mov(Imm(1), Mem(0, "fx", "bx", 4))
    /\ l[7] = mov(Reg("cx"), Var("turn"))
    /\ l[8] = Label("spin1")
    /\ l[9] = mov(Mem(0, "fx", "cx", 4), Reg("ax"))
    /\ l[10] = Two("test", Imm(1), Reg("ax"))
    /\ l[11] = J("neq", "fini")
    /\ l[12] = Label("spin2")
    /\ l[13] = mov(Var("turn"), Reg("ax"))
    /\ l[14] = Two("test", Reg("cx"), Reg("ax"))
    /\ l[15] = J("eq", "spin1")
    /\ l[16] = Label("fini")
    /\ l[17] = mov(Var("count"), Reg("ax"))
    /\ l[18] = Two("add", Imm(1), Reg("ax"))
    /\ l[19] = mov(Reg("ax"), Var("count"))
    /\ l[20] = Label("release")
    /\ l[21] = mov(Imm(0), Mem(0, "fx", "bx", 4))
    /\ l[22] = mov(Reg("cx"), Var("turn"))
    /\ l[23] = Bare("halt")
BY DEF peterson, CriticalSection, Increment

\* The addresses of the variables of peterson.s.
LEMMA PetersonVars ==
    VarAddress(peterson, "flag") = 100 /\ VarAddress(peterson, "turn") = 108 /\ VarAddress(peterson, "count") = 112
<1> DEFINE s == peterson
<1>1. /\ DOMAIN s.vars = 1 .. 3
      /\ s.vars[1][1] = "flag" /\ s.vars[1][2] = 2
      /\ s.vars[2][1] = "turn" /\ s.vars[2][2] = 1
      /\ s.vars[3][1] = "count" /\ s.vars[3][2] = 1
  BY DEF peterson
<1> HIDE DEF s
<1>2. /\ \A j, k \in 1 .. 3 : s.vars[j][1] = s.vars[k][1] => j = k
      /\ \A k \in 1 .. 3 : s.vars[k][2] \in Int
  BY <1>1
<1>3. VarAddress(s, s.vars[1][1]) = 100 /\ VarAddress(s, s.vars[2][1]) = 108 /\ VarAddress(s, s.vars[3][1]) = 112
  BY <1>1, <1>2, VariableAt
<1> QED BY <1>1, <1>3 DEF s

\* What load makes of peterson.s: labels gone, names replaced by addresses.
LEMMA PetersonCode ==
    LET c == Code["peterson"] IN
    /\ DOMAIN c = 1000 .. 1017
    /\ c[1000] = Two("lea", At(100), Reg("fx"))
    /\ c[1001] = mov(Reg("bx"), Reg("cx"))
    /\ c[1002] = One("neg", Reg("cx"))
    /\ c[1003] = Two("add", Imm(1), Reg("cx"))
    /\ c[1004] = mov(Imm(1), Mem(0, "fx", "bx", 4))
    /\ c[1005] = mov(Reg("cx"), At(108))
    /\ c[1006] = mov(Mem(0, "fx", "cx", 4), Reg("ax"))
    /\ c[1007] = Two("test", Imm(1), Reg("ax"))
    /\ c[1008] = J("neq", 1012)
    /\ c[1009] = mov(At(108), Reg("ax"))
    /\ c[1010] = Two("test", Reg("cx"), Reg("ax"))
    /\ c[1011] = J("eq", 1006)
    /\ c[1012] = mov(At(112), Reg("ax"))
    /\ c[1013] = Two("add", Imm(1), Reg("ax"))
    /\ c[1014] = mov(Reg("ax"), At(112))
    /\ c[1015] = mov(Imm(0), Mem(0, "fx", "bx", 4))
    /\ c[1016] = mov(Reg("cx"), At(108))
    /\ c[1017] = Bare("halt")
<1> DEFINE s == peterson
           a(k) == LineAddress(s, k)
<1>1. DOMAIN s.lines = 1 .. 23
  BY PetersonLines
<1>2. Instructions(s) = (1 .. 23) \ {5, 8, 12, 16, 20}
  BY PetersonLines DEF Instructions, Label, mov, Two, One, J, Call, Bare
<1>3. \A k \in 1 .. 23 : a(k) \in Int /\ a(k + 1) = IF k \in {5, 8, 12, 16, 20} THEN a(k) ELSE a(k) + 1
  BY <1>1, <1>2, NextLine
<1>4. a(1) = 1000
  BY <1>1, FirstLine
<1> HIDE DEF a
<1>5. a(2) = 1001 /\ a(3) = 1002 /\ a(4) = 1003 /\ a(5) = 1004 /\ a(6) = 1004 /\
        a(7) = 1005 /\ a(8) = 1006 /\ a(9) = 1006 /\ a(10) = 1007 /\ a(11) = 1008 /\
        a(12) = 1009 /\ a(13) = 1009 /\ a(14) = 1010 /\ a(15) = 1011 /\ a(16) = 1012 /\
        a(17) = 1012 /\ a(18) = 1013 /\ a(19) = 1014 /\ a(20) = 1015 /\ a(21) = 1015 /\
        a(22) = 1016 /\ a(23) = 1017
  BY <1>3, <1>4
<1>6. \A k \in (1 .. 23) \ {5, 8, 12, 16, 20} : load(s)[a(k)] = Encode(s, s.lines[k])
  BY <1>1, <1>2, LoadedAt DEF a
<1>7. LabelAddress(s, "acquire") = 1004 /\ LabelAddress(s, "spin1") = 1006 /\ LabelAddress(s, "spin2") = 1009 /\ LabelAddress(s, "fini") = 1012 /\ LabelAddress(s, "release") = 1015
  <2>1. 5 \in DOMAIN s.lines /\ s.lines[5] = Label("acquire")
    BY <1>1, PetersonLines
  <2>2. \A j \in DOMAIN s.lines : s.lines[j] = Label("acquire") => j = 5
    BY <1>1, PetersonLines DEF Label, mov, Two, One, J, Call, Bare
  <2>3. LabelAddress(s, "acquire") = 1004
    <3>1. LabelAddress(s, "acquire") = a(5)
      BY <2>1, <2>2, LabelAt DEF a
    <3> QED BY <1>4, <1>5, <3>1
  <2>4. 8 \in DOMAIN s.lines /\ s.lines[8] = Label("spin1")
    BY <1>1, PetersonLines
  <2>5. \A j \in DOMAIN s.lines : s.lines[j] = Label("spin1") => j = 8
    BY <1>1, PetersonLines DEF Label, mov, Two, One, J, Call, Bare
  <2>6. LabelAddress(s, "spin1") = 1006
    <3>1. LabelAddress(s, "spin1") = a(8)
      BY <2>4, <2>5, LabelAt DEF a
    <3> QED BY <1>4, <1>5, <3>1
  <2>7. 12 \in DOMAIN s.lines /\ s.lines[12] = Label("spin2")
    BY <1>1, PetersonLines
  <2>8. \A j \in DOMAIN s.lines : s.lines[j] = Label("spin2") => j = 12
    BY <1>1, PetersonLines DEF Label, mov, Two, One, J, Call, Bare
  <2>9. LabelAddress(s, "spin2") = 1009
    <3>1. LabelAddress(s, "spin2") = a(12)
      BY <2>7, <2>8, LabelAt DEF a
    <3> QED BY <1>4, <1>5, <3>1
  <2>10. 16 \in DOMAIN s.lines /\ s.lines[16] = Label("fini")
    BY <1>1, PetersonLines
  <2>11. \A j \in DOMAIN s.lines : s.lines[j] = Label("fini") => j = 16
    BY <1>1, PetersonLines DEF Label, mov, Two, One, J, Call, Bare
  <2>12. LabelAddress(s, "fini") = 1012
    <3>1. LabelAddress(s, "fini") = a(16)
      BY <2>10, <2>11, LabelAt DEF a
    <3> QED BY <1>4, <1>5, <3>1
  <2>13. 20 \in DOMAIN s.lines /\ s.lines[20] = Label("release")
    BY <1>1, PetersonLines
  <2>14. \A j \in DOMAIN s.lines : s.lines[j] = Label("release") => j = 20
    BY <1>1, PetersonLines DEF Label, mov, Two, One, J, Call, Bare
  <2>15. LabelAddress(s, "release") = 1015
    <3>1. LabelAddress(s, "release") = a(20)
      BY <2>13, <2>14, LabelAt DEF a
    <3> QED BY <1>4, <1>5, <3>1
  <2> QED BY <2>3, <2>6, <2>9, <2>12, <2>15
<1> HIDE DEF s
<1>8. load(s)[1000] = Encode(s, s.lines[1]) /\ load(s)[1001] = Encode(s, s.lines[2]) /\
        load(s)[1002] = Encode(s, s.lines[3]) /\ load(s)[1003] = Encode(s, s.lines[4]) /\
        load(s)[1004] = Encode(s, s.lines[6]) /\ load(s)[1005] = Encode(s, s.lines[7]) /\
        load(s)[1006] = Encode(s, s.lines[9]) /\ load(s)[1007] = Encode(s, s.lines[10]) /\
        load(s)[1008] = Encode(s, s.lines[11]) /\ load(s)[1009] = Encode(s, s.lines[13]) /\
        load(s)[1010] = Encode(s, s.lines[14]) /\ load(s)[1011] = Encode(s, s.lines[15]) /\
        load(s)[1012] = Encode(s, s.lines[17]) /\ load(s)[1013] = Encode(s, s.lines[18]) /\
        load(s)[1014] = Encode(s, s.lines[19]) /\ load(s)[1015] = Encode(s, s.lines[21]) /\
        load(s)[1016] = Encode(s, s.lines[22]) /\ load(s)[1017] = Encode(s, s.lines[23])
  BY <1>4, <1>5, <1>6
<1>9. s = peterson /\ Code["peterson"] = load(s)
  BY DEF s, Code, Programs, Source
<1>10. DOMAIN load(s) = 1000 .. 1017
  <2>1. DOMAIN load(s) = {a(k) : k \in (1 .. 23) \ {5, 8, 12, 16, 20}}
    BY <1>2, Zenon DEF load, a
  <2>2. {a(k) : k \in (1 .. 23) \ {5, 8, 12, 16, 20}} = 1000 .. 1017
    BY <1>4, <1>5
  <2> QED BY <2>1, <2>2
<1>11. load(s)[1000] = Two("lea", At(100), Reg("fx"))
  BY <1>7, <1>8, <1>9, PetersonLines, PetersonVars, EncodeTwo, EncodeOthers, EncodeArgs DEF mov
<1>12. load(s)[1001] = mov(Reg("bx"), Reg("cx"))
  BY <1>7, <1>8, <1>9, PetersonLines, PetersonVars, EncodeTwo, EncodeOthers, EncodeArgs DEF mov
<1>13. load(s)[1002] = One("neg", Reg("cx"))
  BY <1>7, <1>8, <1>9, PetersonLines, PetersonVars, EncodeTwo, EncodeOthers, EncodeArgs DEF mov
<1>14. load(s)[1003] = Two("add", Imm(1), Reg("cx"))
  BY <1>7, <1>8, <1>9, PetersonLines, PetersonVars, EncodeTwo, EncodeOthers, EncodeArgs DEF mov
<1>15. load(s)[1004] = mov(Imm(1), Mem(0, "fx", "bx", 4))
  BY <1>7, <1>8, <1>9, PetersonLines, PetersonVars, EncodeTwo, EncodeOthers, EncodeArgs DEF mov
<1>16. load(s)[1005] = mov(Reg("cx"), At(108))
  BY <1>7, <1>8, <1>9, PetersonLines, PetersonVars, EncodeTwo, EncodeOthers, EncodeArgs DEF mov
<1>17. load(s)[1006] = mov(Mem(0, "fx", "cx", 4), Reg("ax"))
  BY <1>7, <1>8, <1>9, PetersonLines, PetersonVars, EncodeTwo, EncodeOthers, EncodeArgs DEF mov
<1>18. load(s)[1007] = Two("test", Imm(1), Reg("ax"))
  BY <1>7, <1>8, <1>9, PetersonLines, PetersonVars, EncodeTwo, EncodeOthers, EncodeArgs DEF mov
<1>19. load(s)[1008] = J("neq", 1012)
  BY <1>7, <1>8, <1>9, PetersonLines, PetersonVars, EncodeTwo, EncodeOthers, EncodeArgs DEF mov
<1>20. load(s)[1009] = mov(At(108), Reg("ax"))
  BY <1>7, <1>8, <1>9, PetersonLines, PetersonVars, EncodeTwo, EncodeOthers, EncodeArgs DEF mov
<1>21. load(s)[1010] = Two("test", Reg("cx"), Reg("ax"))
  BY <1>7, <1>8, <1>9, PetersonLines, PetersonVars, EncodeTwo, EncodeOthers, EncodeArgs DEF mov
<1>22. load(s)[1011] = J("eq", 1006)
  BY <1>7, <1>8, <1>9, PetersonLines, PetersonVars, EncodeTwo, EncodeOthers, EncodeArgs DEF mov
<1>23. load(s)[1012] = mov(At(112), Reg("ax"))
  BY <1>7, <1>8, <1>9, PetersonLines, PetersonVars, EncodeTwo, EncodeOthers, EncodeArgs DEF mov
<1>24. load(s)[1013] = Two("add", Imm(1), Reg("ax"))
  BY <1>7, <1>8, <1>9, PetersonLines, PetersonVars, EncodeTwo, EncodeOthers, EncodeArgs DEF mov
<1>25. load(s)[1014] = mov(Reg("ax"), At(112))
  BY <1>7, <1>8, <1>9, PetersonLines, PetersonVars, EncodeTwo, EncodeOthers, EncodeArgs DEF mov
<1>26. load(s)[1015] = mov(Imm(0), Mem(0, "fx", "bx", 4))
  BY <1>7, <1>8, <1>9, PetersonLines, PetersonVars, EncodeTwo, EncodeOthers, EncodeArgs DEF mov
<1>27. load(s)[1016] = mov(Reg("cx"), At(108))
  BY <1>7, <1>8, <1>9, PetersonLines, PetersonVars, EncodeTwo, EncodeOthers, EncodeArgs DEF mov
<1>28. load(s)[1017] = Bare("halt")
  BY <1>7, <1>8, <1>9, PetersonLines, PetersonVars, EncodeTwo, EncodeOthers, EncodeArgs DEF mov
<1> QED BY <1>9, <1>10, <1>11, <1>12, <1>13, <1>14, <1>15, <1>16, <1>17, <1>18, <1>19, <1>20, <1>21, <1>22, <1>23, <1>24, <1>25, <1>26, <1>27, <1>28

\* looping-race-withlock-withcallret.s, line by line.
LEMMA CallLines ==
    LET l == looping_race_withlock_withcallret.lines IN
    /\ DOMAIN l = 1 .. 26
    /\ l[1] = Label("top")
    /\ l[2] = One("push", Var("mutex"))
    /\ l[3] = Call("lock")
    /\ l[4] = Bare("pop")
    /\ l[5] = mov(Var("count"), Reg("ax"))
    /\ l[6] = Two("add", Imm(1), Reg("ax"))
    /\ l[7] = mov(Reg("ax"), Var("count"))
    /\ l[8] = One("push", Var("mutex"))
    /\ l[9] = Call("unlock")
    /\ l[10] = Bare("pop")
    /\ l[11] = Two("sub", Imm(1), Reg("bx"))
    /\ l[12] = Two("test", Imm(0), Reg("bx"))
    /\ l[13] = J("gt", "top")
    /\ l[14] = Bare("halt")
    /\ l[15] = Label("lock")
    /\ l[16] = Label("acquire")
    /\ l[17] = mov(Mem(-4, "sp", "zero", 1), Reg("ax"))
    /\ l[18] = mov(Imm(1), Reg("cx"))
    /\ l[19] = Two("xchg", Reg("cx"), Mem(0, "ax", "zero", 1))
    /\ l[20] = Two("test", Imm(0), Reg("cx"))
    /\ l[21] = J("neq", "acquire")
    /\ l[22] = Bare("ret")
    /\ l[23] = Label("unlock")
    /\ l[24] = mov(Mem(-4, "sp", "zero", 1), Reg("ax"))
    /\ l[25] = mov(Imm(0), Mem(0, "ax", "zero", 1))
    /\ l[26] = Bare("ret")
BY DEF looping_race_withlock_withcallret, CriticalSection, Increment, StillLooping

\* The addresses of the variables of looping-race-withlock-withcallret.s.
LEMMA CallVars ==
    VarAddress(looping_race_withlock_withcallret, "mutex") = 100 /\ VarAddress(looping_race_withlock_withcallret, "count") = 104
<1> DEFINE s == looping_race_withlock_withcallret
<1>1. /\ DOMAIN s.vars = 1 .. 2
      /\ s.vars[1][1] = "mutex" /\ s.vars[1][2] = 1
      /\ s.vars[2][1] = "count" /\ s.vars[2][2] = 1
  BY DEF looping_race_withlock_withcallret
<1> HIDE DEF s
<1>2. /\ \A j, k \in 1 .. 2 : s.vars[j][1] = s.vars[k][1] => j = k
      /\ \A k \in 1 .. 2 : s.vars[k][2] \in Int
  BY <1>1
<1>3. VarAddress(s, s.vars[1][1]) = 100 /\ VarAddress(s, s.vars[2][1]) = 104
  BY <1>1, <1>2, VariableAt
<1> QED BY <1>1, <1>3 DEF s

\* What load makes of looping-race-withlock-withcallret.s: labels gone, names replaced by addresses.
LEMMA CallCode ==
    LET c == Code["looping_race_withlock_withcallret"] IN
    /\ DOMAIN c = 1000 .. 1021
    /\ c[1000] = One("push", At(100))
    /\ c[1001] = Call(1013)
    /\ c[1002] = Bare("pop")
    /\ c[1003] = mov(At(104), Reg("ax"))
    /\ c[1004] = Two("add", Imm(1), Reg("ax"))
    /\ c[1005] = mov(Reg("ax"), At(104))
    /\ c[1006] = One("push", At(100))
    /\ c[1007] = Call(1019)
    /\ c[1008] = Bare("pop")
    /\ c[1009] = Two("sub", Imm(1), Reg("bx"))
    /\ c[1010] = Two("test", Imm(0), Reg("bx"))
    /\ c[1011] = J("gt", 1000)
    /\ c[1012] = Bare("halt")
    /\ c[1013] = mov(Mem(-4, "sp", "zero", 1), Reg("ax"))
    /\ c[1014] = mov(Imm(1), Reg("cx"))
    /\ c[1015] = Two("xchg", Reg("cx"), Mem(0, "ax", "zero", 1))
    /\ c[1016] = Two("test", Imm(0), Reg("cx"))
    /\ c[1017] = J("neq", 1013)
    /\ c[1018] = Bare("ret")
    /\ c[1019] = mov(Mem(-4, "sp", "zero", 1), Reg("ax"))
    /\ c[1020] = mov(Imm(0), Mem(0, "ax", "zero", 1))
    /\ c[1021] = Bare("ret")
<1> DEFINE s == looping_race_withlock_withcallret
           a(k) == LineAddress(s, k)
<1>1. DOMAIN s.lines = 1 .. 26
  BY CallLines
<1>2. Instructions(s) = (1 .. 26) \ {1, 15, 16, 23}
  BY CallLines DEF Instructions, Label, mov, Two, One, J, Call, Bare
<1>3. \A k \in 1 .. 26 : a(k) \in Int /\ a(k + 1) = IF k \in {1, 15, 16, 23} THEN a(k) ELSE a(k) + 1
  BY <1>1, <1>2, NextLine
<1>4. a(1) = 1000
  BY <1>1, FirstLine
<1> HIDE DEF a
<1>5. a(2) = 1000 /\ a(3) = 1001 /\ a(4) = 1002 /\ a(5) = 1003 /\ a(6) = 1004 /\
        a(7) = 1005 /\ a(8) = 1006 /\ a(9) = 1007 /\ a(10) = 1008 /\ a(11) = 1009 /\
        a(12) = 1010 /\ a(13) = 1011 /\ a(14) = 1012 /\ a(15) = 1013 /\ a(16) = 1013 /\
        a(17) = 1013 /\ a(18) = 1014 /\ a(19) = 1015 /\ a(20) = 1016 /\ a(21) = 1017 /\
        a(22) = 1018 /\ a(23) = 1019 /\ a(24) = 1019 /\ a(25) = 1020 /\ a(26) = 1021
  BY <1>3, <1>4
<1>6. \A k \in (1 .. 26) \ {1, 15, 16, 23} : load(s)[a(k)] = Encode(s, s.lines[k])
  BY <1>1, <1>2, LoadedAt DEF a
<1>7. LabelAddress(s, "top") = 1000 /\ LabelAddress(s, "lock") = 1013 /\ LabelAddress(s, "acquire") = 1013 /\ LabelAddress(s, "unlock") = 1019
  <2>1. 1 \in DOMAIN s.lines /\ s.lines[1] = Label("top")
    BY <1>1, CallLines
  <2>2. \A j \in DOMAIN s.lines : s.lines[j] = Label("top") => j = 1
    BY <1>1, CallLines DEF Label, mov, Two, One, J, Call, Bare
  <2>3. LabelAddress(s, "top") = 1000
    <3>1. LabelAddress(s, "top") = a(1)
      BY <2>1, <2>2, LabelAt DEF a
    <3> QED BY <1>4, <1>5, <3>1
  <2>4. 15 \in DOMAIN s.lines /\ s.lines[15] = Label("lock")
    BY <1>1, CallLines
  <2>5. \A j \in DOMAIN s.lines : s.lines[j] = Label("lock") => j = 15
    BY <1>1, CallLines DEF Label, mov, Two, One, J, Call, Bare
  <2>6. LabelAddress(s, "lock") = 1013
    <3>1. LabelAddress(s, "lock") = a(15)
      BY <2>4, <2>5, LabelAt DEF a
    <3> QED BY <1>4, <1>5, <3>1
  <2>7. 16 \in DOMAIN s.lines /\ s.lines[16] = Label("acquire")
    BY <1>1, CallLines
  <2>8. \A j \in DOMAIN s.lines : s.lines[j] = Label("acquire") => j = 16
    BY <1>1, CallLines DEF Label, mov, Two, One, J, Call, Bare
  <2>9. LabelAddress(s, "acquire") = 1013
    <3>1. LabelAddress(s, "acquire") = a(16)
      BY <2>7, <2>8, LabelAt DEF a
    <3> QED BY <1>4, <1>5, <3>1
  <2>10. 23 \in DOMAIN s.lines /\ s.lines[23] = Label("unlock")
    BY <1>1, CallLines
  <2>11. \A j \in DOMAIN s.lines : s.lines[j] = Label("unlock") => j = 23
    BY <1>1, CallLines DEF Label, mov, Two, One, J, Call, Bare
  <2>12. LabelAddress(s, "unlock") = 1019
    <3>1. LabelAddress(s, "unlock") = a(23)
      BY <2>10, <2>11, LabelAt DEF a
    <3> QED BY <1>4, <1>5, <3>1
  <2> QED BY <2>3, <2>6, <2>9, <2>12
<1> HIDE DEF s
<1>8. load(s)[1000] = Encode(s, s.lines[2]) /\ load(s)[1001] = Encode(s, s.lines[3]) /\
        load(s)[1002] = Encode(s, s.lines[4]) /\ load(s)[1003] = Encode(s, s.lines[5]) /\
        load(s)[1004] = Encode(s, s.lines[6]) /\ load(s)[1005] = Encode(s, s.lines[7]) /\
        load(s)[1006] = Encode(s, s.lines[8]) /\ load(s)[1007] = Encode(s, s.lines[9]) /\
        load(s)[1008] = Encode(s, s.lines[10]) /\ load(s)[1009] = Encode(s, s.lines[11]) /\
        load(s)[1010] = Encode(s, s.lines[12]) /\ load(s)[1011] = Encode(s, s.lines[13]) /\
        load(s)[1012] = Encode(s, s.lines[14]) /\ load(s)[1013] = Encode(s, s.lines[17]) /\
        load(s)[1014] = Encode(s, s.lines[18]) /\ load(s)[1015] = Encode(s, s.lines[19]) /\
        load(s)[1016] = Encode(s, s.lines[20]) /\ load(s)[1017] = Encode(s, s.lines[21]) /\
        load(s)[1018] = Encode(s, s.lines[22]) /\ load(s)[1019] = Encode(s, s.lines[24]) /\
        load(s)[1020] = Encode(s, s.lines[25]) /\ load(s)[1021] = Encode(s, s.lines[26])
  BY <1>4, <1>5, <1>6
<1>9. s = looping_race_withlock_withcallret /\ Code["looping_race_withlock_withcallret"] = load(s)
  BY DEF s, Code, Programs, Source
<1>10. DOMAIN load(s) = 1000 .. 1021
  <2>1. DOMAIN load(s) = {a(k) : k \in (1 .. 26) \ {1, 15, 16, 23}}
    BY <1>2, Zenon DEF load, a
  <2>2. {a(k) : k \in (1 .. 26) \ {1, 15, 16, 23}} = 1000 .. 1021
    BY <1>4, <1>5
  <2> QED BY <2>1, <2>2
<1>11. load(s)[1000] = One("push", At(100))
  BY <1>7, <1>8, <1>9, CallLines, CallVars, EncodeTwo, EncodeOthers, EncodeArgs DEF mov
<1>12. load(s)[1001] = Call(1013)
  BY <1>7, <1>8, <1>9, CallLines, CallVars, EncodeTwo, EncodeOthers, EncodeArgs DEF mov
<1>13. load(s)[1002] = Bare("pop")
  BY <1>7, <1>8, <1>9, CallLines, CallVars, EncodeTwo, EncodeOthers, EncodeArgs DEF mov
<1>14. load(s)[1003] = mov(At(104), Reg("ax"))
  BY <1>7, <1>8, <1>9, CallLines, CallVars, EncodeTwo, EncodeOthers, EncodeArgs DEF mov
<1>15. load(s)[1004] = Two("add", Imm(1), Reg("ax"))
  BY <1>7, <1>8, <1>9, CallLines, CallVars, EncodeTwo, EncodeOthers, EncodeArgs DEF mov
<1>16. load(s)[1005] = mov(Reg("ax"), At(104))
  BY <1>7, <1>8, <1>9, CallLines, CallVars, EncodeTwo, EncodeOthers, EncodeArgs DEF mov
<1>17. load(s)[1006] = One("push", At(100))
  BY <1>7, <1>8, <1>9, CallLines, CallVars, EncodeTwo, EncodeOthers, EncodeArgs DEF mov
<1>18. load(s)[1007] = Call(1019)
  BY <1>7, <1>8, <1>9, CallLines, CallVars, EncodeTwo, EncodeOthers, EncodeArgs DEF mov
<1>19. load(s)[1008] = Bare("pop")
  BY <1>7, <1>8, <1>9, CallLines, CallVars, EncodeTwo, EncodeOthers, EncodeArgs DEF mov
<1>20. load(s)[1009] = Two("sub", Imm(1), Reg("bx"))
  BY <1>7, <1>8, <1>9, CallLines, CallVars, EncodeTwo, EncodeOthers, EncodeArgs DEF mov
<1>21. load(s)[1010] = Two("test", Imm(0), Reg("bx"))
  BY <1>7, <1>8, <1>9, CallLines, CallVars, EncodeTwo, EncodeOthers, EncodeArgs DEF mov
<1>22. load(s)[1011] = J("gt", 1000)
  BY <1>7, <1>8, <1>9, CallLines, CallVars, EncodeTwo, EncodeOthers, EncodeArgs DEF mov
<1>23. load(s)[1012] = Bare("halt")
  BY <1>7, <1>8, <1>9, CallLines, CallVars, EncodeTwo, EncodeOthers, EncodeArgs DEF mov
<1>24. load(s)[1013] = mov(Mem(-4, "sp", "zero", 1), Reg("ax"))
  BY <1>7, <1>8, <1>9, CallLines, CallVars, EncodeTwo, EncodeOthers, EncodeArgs DEF mov
<1>25. load(s)[1014] = mov(Imm(1), Reg("cx"))
  BY <1>7, <1>8, <1>9, CallLines, CallVars, EncodeTwo, EncodeOthers, EncodeArgs DEF mov
<1>26. load(s)[1015] = Two("xchg", Reg("cx"), Mem(0, "ax", "zero", 1))
  BY <1>7, <1>8, <1>9, CallLines, CallVars, EncodeTwo, EncodeOthers, EncodeArgs DEF mov
<1>27. load(s)[1016] = Two("test", Imm(0), Reg("cx"))
  BY <1>7, <1>8, <1>9, CallLines, CallVars, EncodeTwo, EncodeOthers, EncodeArgs DEF mov
<1>28. load(s)[1017] = J("neq", 1013)
  BY <1>7, <1>8, <1>9, CallLines, CallVars, EncodeTwo, EncodeOthers, EncodeArgs DEF mov
<1>29. load(s)[1018] = Bare("ret")
  BY <1>7, <1>8, <1>9, CallLines, CallVars, EncodeTwo, EncodeOthers, EncodeArgs DEF mov
<1>30. load(s)[1019] = mov(Mem(-4, "sp", "zero", 1), Reg("ax"))
  BY <1>7, <1>8, <1>9, CallLines, CallVars, EncodeTwo, EncodeOthers, EncodeArgs DEF mov
<1>31. load(s)[1020] = mov(Imm(0), Mem(0, "ax", "zero", 1))
  BY <1>7, <1>8, <1>9, CallLines, CallVars, EncodeTwo, EncodeOthers, EncodeArgs DEF mov
<1>32. load(s)[1021] = Bare("ret")
  BY <1>7, <1>8, <1>9, CallLines, CallVars, EncodeTwo, EncodeOthers, EncodeArgs DEF mov
<1> QED BY <1>9, <1>10, <1>11, <1>12, <1>13, <1>14, <1>15, <1>16, <1>17, <1>18, <1>19, <1>20, <1>21, <1>22, <1>23, <1>24, <1>25, <1>26, <1>27, <1>28, <1>29, <1>30, <1>31, <1>32

-----------------------------------------------------------------------------
\* Instructions: what each kind of instruction gives, as the program counter,
\* registers, condition codes and memory after it.

\* A context with its three parts; registers hold integers.
Ctx(pc, regs, cc) == [pc |-> pc, regs |-> regs, cc |-> cc]
IsContext(c) == c = Ctx(c.pc, c.regs, c.cc) /\ c.pc \in Int /\ c.regs \in [Registers -> Int]

\* The context when the instruction has been fetched.
Past(c) == Ctx(c.pc + 1, c.regs, c.cc)

\* The registers after a write to r.
Put(regs, r, v) == [regs EXCEPT ![r] = v]

\* Memory holds integers.
IntMem(m) == \A a \in Int : Peek(m, a) \in Int

\* The outcome o of an instruction: no halt, and the context and memory given.
Gives(o, pc, regs, cc, m) ==
    /\ o.rc # HALT /\ o.mem = m
    /\ IsContext(o.ctx) /\ o.ctx.pc = pc /\ o.ctx.regs = regs /\ o.ctx.cc = cc

\* Which function executes which instruction.
LEMMA EffectOf ==
    ASSUME NEW i, NEW c, NEW m
    PROVE  /\ i.op = "mov" => Effect(i, c, m) = move(i, c, m)
           /\ i.op = "lea" => Effect(i, c, m) = lea_m_to_r(i, c, m)
           /\ i.op \in {"add", "sub"} => Effect(i, c, m) = arithmetic(i, c, m)
           /\ i.op = "neg" => Effect(i, c, m) = neg_r(i, c, m)
           /\ i.op = "xchg" => Effect(i, c, m) = atomic_exchange(i, c, m)
           /\ i.op = "fetchadd" => Effect(i, c, m) = fetchadd(i, c, m)
           /\ i.op = "test" => Effect(i, c, m) = test(i, c, m)
           /\ i.op = "j" => Effect(i, c, m) = jump(i, c, m)
           /\ i.op = "call" => Effect(i, c, m) = call(i, c, m)
           /\ i.op = "ret" => Effect(i, c, m) = ret(i, c, m)
           /\ i.op = "push" => Effect(i, c, m) = push(i, c, m)
           /\ i.op = "pop" => Effect(i, c, m) = pop(i, c, m)
           /\ i.op = "yield" => Effect(i, c, m) = [Outcome(c, m) EXCEPT !.rc = YIELD]
           /\ i.op = "halt" => Effect(i, c, m) = [Outcome(c, m) EXCEPT !.rc = HALT]
BY DEF Effect

\* A read after a write: what was written, or what was there.
LEMMA PeekPoke == \A m, a, v, b : Peek(Poke(m, a, v), b) = IF b = a THEN v ELSE Peek(m, b)
<1> SUFFICES ASSUME NEW m, NEW a, NEW v, NEW b
             PROVE  Peek(Poke(m, a, v), b) = IF b = a THEN v ELSE Peek(m, b)
  OBVIOUS
<1>1. PICK q : q = Poke(m, a, v)
  OBVIOUS
<1>2. DOMAIN q = DOMAIN m \cup {a} /\ \A x \in DOMAIN m \cup {a} : q[x] = IF x = a THEN v ELSE m[x]
  BY <1>1 DEF Poke
<1>3. Peek(q, b) = IF b = a THEN v ELSE Peek(m, b)
  BY <1>2 DEF Peek
<1> QED BY <1>1, <1>3, Zenon

\* Writing an integer keeps memory integer.
LEMMA IntPoke == \A m, a, v : IntMem(m) /\ v \in Int => IntMem(Poke(m, a, v))
<1> SUFFICES ASSUME NEW m, NEW a, NEW v \in Int, IntMem(m), NEW b \in Int
             PROVE  Peek(Poke(m, a, v), b) \in Int
  BY DEF IntMem
<1>1. Peek(Poke(m, a, v), b) = IF b = a THEN v ELSE Peek(m, b)
  BY PeekPoke
<1>2. Peek(m, b) \in Int
  BY DEF IntMem
<1> QED BY <1>1, <1>2

\* Writing an integer to a register keeps the others and the type.
LEMMA PutInt ==
    ASSUME NEW regs \in [Registers -> Int], NEW r \in Registers, NEW v \in Int
    PROVE  /\ Put(regs, r, v) \in [Registers -> Int]
           /\ Put(regs, r, v)[r] = v
           /\ \A q \in Registers \ {r} : Put(regs, r, v)[q] = regs[q]
<1>1. PICK f : f = Put(regs, r, v)
  OBVIOUS
<1>2. f = [regs EXCEPT ![r] = v]
  BY <1>1 DEF Put
<1>3. f \in [Registers -> Int] /\ f[r] = v /\ \A q \in Registers \ {r} : f[q] = regs[q]
  BY <1>2
<1> QED BY <1>1, <1>3, Zenon

\* Execute is the effect of the instruction on the context behind the fetch.
LEMMA Fetched ==
    ASSUME NEW c, IsContext(c)
    PROVE  /\ \A i, m : Execute(i, c, m) = Effect(i, Past(c), m)
           /\ IsContext(Past(c)) /\ Past(c).pc = c.pc + 1 /\ Past(c).regs = c.regs /\ Past(c).cc = c.cc
<1>1. [c EXCEPT !.pc = @ + 1] = Past(c)
  BY DEF IsContext, Ctx, Past
<1> QED BY <1>1 DEF Execute, IsContext, Ctx, Past

\* The value of an operand of each kind.
LEMMA OperandOf ==
    ASSUME NEW c, NEW m
    PROVE  /\ \A n : Operand(Imm(n), c, m) = n
           /\ \A r : Operand(Reg(r), c, m) = c.regs[r]
           /\ \A n, q, r, k : Operand(Mem(n, q, r, k), c, m) = Peek(m, n + c.regs[q] + k * c.regs[r])
BY DEF Operand, Imm, Reg, Mem, Address

\* The outcomes the instructions build: a new program counter, new condition
\* codes, a register written, or both.
LEMMA OutcomeGives ==
    ASSUME NEW c, IsContext(c), NEW m
    PROVE  /\ \A pc \in Int : Gives(Outcome([Past(c) EXCEPT !.pc = pc], m), pc, c.regs, c.cc, m)
           /\ \A cc : Gives(Outcome([Past(c) EXCEPT !.cc = cc], m), c.pc + 1, c.regs, cc, m)
           /\ Gives(Outcome(Past(c), m), c.pc + 1, c.regs, c.cc, m)
           /\ \A r \in Registers, v \in Int :
                  /\ SetReg(Past(c), r, v).regs = Put(c.regs, r, v)
                  /\ Gives(Outcome(SetReg(Past(c), r, v), m), c.pc + 1, Put(c.regs, r, v), c.cc, m)
                  /\ \A pc \in Int : Gives(Outcome([SetReg(Past(c), r, v) EXCEPT !.pc = pc], m),
                                           pc, Put(c.regs, r, v), c.cc, m)
<1>1. c.pc + 1 \in Int /\ c.regs \in [Registers -> Int] /\ 0 # HALT
  BY DEF IsContext, HALT
<1>2. \A d : Outcome(d, m).ctx = d /\ Outcome(d, m).mem = m /\ Outcome(d, m).rc = 0
  BY DEF Outcome
<1>3. \A pc \in Int, regs \in [Registers -> Int] : \A cc :
          Gives(Outcome(Ctx(pc, regs, cc), m), pc, regs, cc, m)
  BY <1>1, <1>2 DEF Gives, Ctx, IsContext
<1>4. \A pc : [Past(c) EXCEPT !.pc = pc] = Ctx(pc, c.regs, c.cc)
  BY DEF Past, Ctx
<1>5. \A cc : [Past(c) EXCEPT !.cc = cc] = Ctx(c.pc + 1, c.regs, cc)
  BY DEF Past, Ctx
<1>6. \A r, v : SetReg(Past(c), r, v) = Ctx(c.pc + 1, Put(c.regs, r, v), c.cc)
  BY DEF Past, Ctx, SetReg, Put
<1>7. \A r, v, pc : [SetReg(Past(c), r, v) EXCEPT !.pc = pc] = Ctx(pc, Put(c.regs, r, v), c.cc)
  BY <1>6 DEF Ctx
<1>8. \A r, v : SetReg(Past(c), r, v).regs = Put(c.regs, r, v)
  BY <1>6 DEF Ctx
<1>9. \A r \in Registers, v \in Int : Put(c.regs, r, v) \in [Registers -> Int]
  BY <1>1, PutInt
<1>10. \A pc \in Int : Gives(Outcome([Past(c) EXCEPT !.pc = pc], m), pc, c.regs, c.cc, m)
  BY <1>1, <1>3, <1>4
<1>11. \A cc : Gives(Outcome([Past(c) EXCEPT !.cc = cc], m), c.pc + 1, c.regs, cc, m)
  BY <1>1, <1>3, <1>5
<1>12. Gives(Outcome(Past(c), m), c.pc + 1, c.regs, c.cc, m)
  BY <1>1, <1>3 DEF Past
<1>13. ASSUME NEW r \in Registers, NEW v \in Int
       PROVE  /\ Gives(Outcome(SetReg(Past(c), r, v), m), c.pc + 1, Put(c.regs, r, v), c.cc, m)
              /\ \A pc \in Int : Gives(Outcome([SetReg(Past(c), r, v) EXCEPT !.pc = pc], m),
                                       pc, Put(c.regs, r, v), c.cc, m)
  <2>1. Put(c.regs, r, v) \in [Registers -> Int]
    BY <1>9
  <2> QED BY <1>1, <1>3, <1>6, <1>7, <2>1
<1> QED BY <1>8, <1>10, <1>11, <1>12, <1>13

\* What the lemmas about instructions take for granted.
Given(c, m) == IsContext(c) /\ IntMem(m) /\ c.regs["zero"] = 0

\* Addresses and register contents are integers, and zero adds nothing.
LEMMA GivenFacts ==
    ASSUME NEW c, NEW m, Given(c, m)
    PROVE  /\ IsContext(c) /\ c.pc + 1 \in Int /\ \A r \in Registers : c.regs[r] \in Int
           /\ \A a \in Int : Peek(m, a) \in Int
           /\ "zero" \in Registers /\ "sp" \in Registers
           /\ \A n, k \in Int, q, r \in Registers : n + c.regs[q] + k * c.regs[r] \in Int
           /\ \A n \in Int, q, r \in Registers : n + c.regs[q] + c.regs[r] \in Int
           /\ \A a \in Int : a + c.regs["zero"] + 1 * c.regs["zero"] = a /\ a + c.regs["zero"] + c.regs["zero"] = a
<1>1. "zero" \in Registers /\ "sp" \in Registers
  BY DEF Registers
<1> QED BY <1>1 DEF Given, IsContext, IntMem

\* A mov to a register writes the operand's value to it.
LEMMA MoveToReg ==
    ASSUME NEW c, NEW m, Given(c, m), NEW x, NEW r \in Registers, NEW v \in Int,
           v = Operand(x, Past(c), m)
    PROVE  Gives(Execute(mov(x, Reg(r)), c, m), c.pc + 1, Put(c.regs, r, v), c.cc, m)
<1>1. PICK i : i = mov(x, Reg(r))
  OBVIOUS
<1>2. i.op = "mov" /\ i.src = x /\ i.dst.type = "register" /\ i.dst.reg = r
  BY <1>1 DEF mov, Two, Reg
<1>3. Effect(i, Past(c), m) = move(i, Past(c), m)
  BY <1>2, EffectOf
<1>4. move(i, Past(c), m) = Outcome(SetReg(Past(c), r, v), m)
  BY <1>2 DEF move
<1>5. IsContext(c)
  BY DEF Given
<1>6. Execute(i, c, m) = Effect(i, Past(c), m)
  BY <1>5, Fetched
<1>7. Gives(Outcome(SetReg(Past(c), r, v), m), c.pc + 1, Put(c.regs, r, v), c.cc, m)
  BY <1>5, OutcomeGives
<1> QED BY <1>1, <1>3, <1>4, <1>6, <1>7, Zenon

\* A mov to memory writes the operand's value there.
LEMMA MoveToMem ==
    ASSUME NEW c, NEW m, Given(c, m), NEW x, NEW n, NEW q, NEW r, NEW k
    PROVE  Gives(Execute(mov(x, Mem(n, q, r, k)), c, m), c.pc + 1, c.regs, c.cc,
                 Poke(m, n + c.regs[q] + k * c.regs[r], Operand(x, Past(c), m)))
<1>1. PICK i : i = mov(x, Mem(n, q, r, k))
  OBVIOUS
<1>2. i.op = "mov" /\ i.src = x /\ i.dst.type # "register" /\ i.dst = Mem(n, q, r, k)
  BY <1>1 DEF mov, Two, Mem
<1>3. Effect(i, Past(c), m) = move(i, Past(c), m)
  BY <1>2, EffectOf
<1>4. Past(c).regs = c.regs
  BY GivenFacts, Fetched
<1>5. Address(i.dst, Past(c).regs) = n + c.regs[q] + k * c.regs[r]
  BY <1>2, <1>4 DEF Address, Mem
<1>6. move(i, Past(c), m)
        = Outcome(Past(c), Poke(m, n + c.regs[q] + k * c.regs[r], Operand(x, Past(c), m)))
  BY <1>2, <1>5, Zenon DEF move
<1> QED BY <1>1, <1>3, <1>6, GivenFacts, Fetched, OutcomeGives

\* mov, by the kinds of its operands.
LEMMA Moves ==
    ASSUME NEW c, NEW m, Given(c, m)
    PROVE  /\ \A n \in Int, r \in Registers :
                  Gives(Execute(mov(Imm(n), Reg(r)), c, m), c.pc + 1, Put(c.regs, r, n), c.cc, m)
           /\ \A q, r \in Registers :
                  Gives(Execute(mov(Reg(q), Reg(r)), c, m), c.pc + 1, Put(c.regs, r, c.regs[q]), c.cc, m)
           /\ \A a \in Int, r \in Registers :
                  Gives(Execute(mov(At(a), Reg(r)), c, m), c.pc + 1, Put(c.regs, r, Peek(m, a)), c.cc, m)
           /\ \A a \in Int, r \in Registers :
                  Gives(Execute(mov(Reg(r), At(a)), c, m), c.pc + 1, c.regs, c.cc, Poke(m, a, c.regs[r]))
           /\ \A n, a \in Int :
                  Gives(Execute(mov(Imm(n), At(a)), c, m), c.pc + 1, c.regs, c.cc, Poke(m, a, n))
           /\ \A n, k \in Int, p, q, r \in Registers :
                  Gives(Execute(mov(Mem(n, p, q, k), Reg(r)), c, m), c.pc + 1,
                        Put(c.regs, r, Peek(m, n + c.regs[p] + k * c.regs[q])), c.cc, m)
           /\ \A v, n, k \in Int, p, q \in Registers :
                  Gives(Execute(mov(Imm(v), Mem(n, p, q, k)), c, m), c.pc + 1, c.regs, c.cc,
                        Poke(m, n + c.regs[p] + k * c.regs[q], v))
<1>1. /\ IsContext(c) /\ \A r \in Registers : c.regs[r] \in Int
      /\ \A a \in Int : Peek(m, a) \in Int
      /\ "zero" \in Registers
      /\ \A n, k \in Int, q, r \in Registers : n + c.regs[q] + k * c.regs[r] \in Int
      /\ \A a \in Int : a + c.regs["zero"] + 1 * c.regs["zero"] = a
  BY GivenFacts
<1>2. Past(c).regs = c.regs
  BY <1>1, Fetched
<1>3. /\ \A n : Operand(Imm(n), Past(c), m) = n
      /\ \A r : Operand(Reg(r), Past(c), m) = c.regs[r]
      /\ \A n, p, q, k : Operand(Mem(n, p, q, k), Past(c), m) = Peek(m, n + c.regs[p] + k * c.regs[q])
  BY <1>2, OperandOf
<1>4. \A a \in Int : Operand(At(a), Past(c), m) = Peek(m, a)
  <2> SUFFICES ASSUME NEW a \in Int PROVE Operand(At(a), Past(c), m) = Peek(m, a)
    OBVIOUS
  <2>1. Operand(At(a), Past(c), m) = Peek(m, a + c.regs["zero"] + 1 * c.regs["zero"])
    BY <1>3 DEF At
  <2> QED BY <1>1, <2>1
<1>5. \A x : \A a \in Int : Gives(Execute(mov(x, At(a)), c, m), c.pc + 1, c.regs, c.cc,
                                  Poke(m, a, Operand(x, Past(c), m)))
  <2> SUFFICES ASSUME NEW x, NEW a \in Int
               PROVE  Gives(Execute(mov(x, At(a)), c, m), c.pc + 1, c.regs, c.cc,
                            Poke(m, a, Operand(x, Past(c), m)))
    OBVIOUS
  <2>1. Gives(Execute(mov(x, Mem(a, "zero", "zero", 1)), c, m), c.pc + 1, c.regs, c.cc,
              Poke(m, a + c.regs["zero"] + 1 * c.regs["zero"], Operand(x, Past(c), m)))
    BY MoveToMem
  <2>2. a + c.regs["zero"] + 1 * c.regs["zero"] = a
    BY <1>1
  <2> QED BY <2>1, <2>2, Zenon DEF At
<1>6. \A n \in Int, r \in Registers :
          Gives(Execute(mov(Imm(n), Reg(r)), c, m), c.pc + 1, Put(c.regs, r, n), c.cc, m)
  BY <1>1, <1>3, MoveToReg
<1>7. \A q, r \in Registers :
          Gives(Execute(mov(Reg(q), Reg(r)), c, m), c.pc + 1, Put(c.regs, r, c.regs[q]), c.cc, m)
  BY <1>1, <1>3, MoveToReg
<1>8. \A a \in Int, r \in Registers :
          Gives(Execute(mov(At(a), Reg(r)), c, m), c.pc + 1, Put(c.regs, r, Peek(m, a)), c.cc, m)
  BY <1>1, <1>4, MoveToReg
<1>9. \A a \in Int, r \in Registers :
          Gives(Execute(mov(Reg(r), At(a)), c, m), c.pc + 1, c.regs, c.cc, Poke(m, a, c.regs[r]))
  BY <1>3, <1>5
<1>10. \A n, a \in Int :
          Gives(Execute(mov(Imm(n), At(a)), c, m), c.pc + 1, c.regs, c.cc, Poke(m, a, n))
  BY <1>3, <1>5
<1>11. ASSUME NEW n \in Int, NEW k \in Int, NEW p \in Registers, NEW q \in Registers, NEW r \in Registers
       PROVE  Gives(Execute(mov(Mem(n, p, q, k), Reg(r)), c, m), c.pc + 1,
                    Put(c.regs, r, Peek(m, n + c.regs[p] + k * c.regs[q])), c.cc, m)
  <2>1. PICK a \in Int : a = n + c.regs[p] + k * c.regs[q]
    BY <1>1
  <2>2. PICK v \in Int : v = Peek(m, a)
    BY <1>1
  <2>3. v = Operand(Mem(n, p, q, k), Past(c), m)
    BY <1>3, <2>1, <2>2
  <2>4. Gives(Execute(mov(Mem(n, p, q, k), Reg(r)), c, m), c.pc + 1, Put(c.regs, r, v), c.cc, m)
    BY <2>3, MoveToReg
  <2> QED BY <2>1, <2>2, <2>4, Zenon
<1>12. \A v, n, k \in Int, p, q \in Registers :
           Gives(Execute(mov(Imm(v), Mem(n, p, q, k)), c, m), c.pc + 1, c.regs, c.cc,
                 Poke(m, n + c.regs[p] + k * c.regs[q], v))
  BY <1>3, MoveToMem
<1> QED BY <1>6, <1>7, <1>8, <1>9, <1>10, <1>11, <1>12

\* lea, add, sub and neg.
LEMMA Arithmetic ==
    ASSUME NEW c, NEW m, Given(c, m), NEW r \in Registers, NEW n \in Int
    PROVE  /\ Gives(Execute(Two("lea", At(n), Reg(r)), c, m), c.pc + 1, Put(c.regs, r, n), c.cc, m)
           /\ Gives(Execute(Two("add", Imm(n), Reg(r)), c, m), c.pc + 1, Put(c.regs, r, c.regs[r] + n), c.cc, m)
           /\ Gives(Execute(Two("sub", Imm(n), Reg(r)), c, m), c.pc + 1, Put(c.regs, r, c.regs[r] - n), c.cc, m)
           /\ Gives(Execute(One("neg", Reg(r)), c, m), c.pc + 1, Put(c.regs, r, -c.regs[r]), c.cc, m)
<1> DEFINE d == Past(c)
<1>1. /\ c.regs[r] \in Int /\ c.regs["zero"] = 0 /\ "zero" \in Registers
      /\ \A i : Execute(i, c, m) = Effect(i, d, m)
      /\ \A v \in Int : Gives(Outcome(SetReg(d, r, v), m), c.pc + 1, Put(c.regs, r, v), c.cc, m)
      /\ d.regs = c.regs
  BY GivenFacts, Fetched, OutcomeGives DEF Given
<1> HIDE DEF d
<1>2. Gives(Execute(Two("lea", At(n), Reg(r)), c, m), c.pc + 1, Put(c.regs, r, n), c.cc, m)
  <2>1. PICK i : i = Two("lea", At(n), Reg(r))
    OBVIOUS
  <2>2. i.op = "lea" /\ i.src = At(n) /\ i.dst.reg = r
    BY <2>1 DEF Two, Reg
  <2>3. Effect(i, d, m) = lea_m_to_r(i, d, m)
    BY <2>2, EffectOf
  <2>4. Address(i.src, d.regs) = n
    BY <1>1, <2>2 DEF Address, At, Mem
  <2>5. lea_m_to_r(i, d, m) = Outcome(SetReg(d, r, n), m)
    BY <2>2, <2>4, Zenon DEF lea_m_to_r
  <2> QED BY <1>1, <2>1, <2>3, <2>5, Zenon
<1>3. Gives(Execute(Two("add", Imm(n), Reg(r)), c, m), c.pc + 1, Put(c.regs, r, c.regs[r] + n), c.cc, m)
  <2>1. PICK i : i = Two("add", Imm(n), Reg(r))
    OBVIOUS
  <2>2. i.op = "add" /\ i.src = Imm(n) /\ i.dst.reg = r
    BY <2>1 DEF Two, Reg
  <2>3. Effect(i, d, m) = arithmetic(i, d, m)
    BY <2>2, EffectOf
  <2>4. Operand(i.src, d, m) = n
    BY <2>2, OperandOf
  <2>5. PICK v \in Int : v = c.regs[r] + n
    BY <1>1
  <2>6. arithmetic(i, d, m) = Outcome(SetReg(d, r, v), m)
    BY <1>1, <2>2, <2>4, <2>5 DEF arithmetic
  <2> QED BY <1>1, <2>1, <2>3, <2>5, <2>6, Zenon
<1>4. Gives(Execute(Two("sub", Imm(n), Reg(r)), c, m), c.pc + 1, Put(c.regs, r, c.regs[r] - n), c.cc, m)
  <2>1. PICK i : i = Two("sub", Imm(n), Reg(r))
    OBVIOUS
  <2>2. i.op = "sub" /\ i.src = Imm(n) /\ i.dst.reg = r
    BY <2>1 DEF Two, Reg
  <2>3. Effect(i, d, m) = arithmetic(i, d, m)
    BY <2>2, EffectOf
  <2>4. Operand(i.src, d, m) = n
    BY <2>2, OperandOf
  <2>5. PICK v \in Int : v = c.regs[r] - n
    BY <1>1
  <2>6. arithmetic(i, d, m) = Outcome(SetReg(d, r, v), m)
    BY <1>1, <2>2, <2>4, <2>5 DEF arithmetic
  <2> QED BY <1>1, <2>1, <2>3, <2>5, <2>6, Zenon
<1>5. Gives(Execute(One("neg", Reg(r)), c, m), c.pc + 1, Put(c.regs, r, -c.regs[r]), c.cc, m)
  <2>1. PICK i : i = One("neg", Reg(r))
    OBVIOUS
  <2>2. i.op = "neg" /\ i.src.reg = r
    BY <2>1 DEF One, Reg
  <2>3. Effect(i, d, m) = neg_r(i, d, m)
    BY <2>2, EffectOf
  <2>4. PICK v \in Int : v = -c.regs[r]
    BY <1>1
  <2>5. neg_r(i, d, m) = Outcome(SetReg(d, r, v), m)
    BY <1>1, <2>2, <2>4, Zenon DEF neg_r
  <2> QED BY <1>1, <2>1, <2>3, <2>4, <2>5, Zenon
<1> QED BY <1>2, <1>3, <1>4, <1>5

\* xchg and fetchadd, on an address that registers may shift.
LEMMA Atomics ==
    ASSUME NEW c, NEW m, Given(c, m), NEW r \in Registers, NEW n, NEW q, NEW p, NEW k,
           NEW a \in Int, a = n + c.regs[q] + c.regs[p]
    PROVE  /\ Gives(Execute(Two("xchg", Reg(r), Mem(n, q, p, k)), c, m), c.pc + 1,
                    Put(c.regs, r, Peek(m, a)), c.cc, Poke(m, a, c.regs[r]))
           /\ Gives(Execute(Two("fetchadd", Reg(r), Mem(n, q, p, k)), c, m), c.pc + 1,
                    Put(c.regs, r, Peek(m, a)), c.cc, Poke(m, a, Peek(m, a) + c.regs[r]))
<1> DEFINE d == Past(c)
<1>1. /\ \A i : Execute(i, c, m) = Effect(i, d, m)
      /\ \A m2 : Gives(Outcome(SetReg(d, r, Peek(m, a)), m2), c.pc + 1, Put(c.regs, r, Peek(m, a)), c.cc, m2)
      /\ d.regs = c.regs
  BY GivenFacts, Fetched, OutcomeGives
<1> HIDE DEF d
<1>2. LockAddress(Mem(n, q, p, k), d.regs) = a
  BY <1>1 DEF LockAddress, Mem
<1>3. Gives(Execute(Two("xchg", Reg(r), Mem(n, q, p, k)), c, m), c.pc + 1,
            Put(c.regs, r, Peek(m, a)), c.cc, Poke(m, a, c.regs[r]))
  <2>1. PICK i : i = Two("xchg", Reg(r), Mem(n, q, p, k))
    OBVIOUS
  <2>2. i.op = "xchg" /\ i.src.reg = r /\ i.dst = Mem(n, q, p, k)
    BY <2>1 DEF Two, Reg
  <2>3. Effect(i, d, m) = atomic_exchange(i, d, m)
    BY <2>2, EffectOf
  <2>4. atomic_exchange(i, d, m) = Outcome(SetReg(d, r, Peek(m, a)), Poke(m, a, c.regs[r]))
    BY <1>1, <1>2, <2>2, Zenon DEF atomic_exchange
  <2> QED BY <1>1, <2>1, <2>3, <2>4, Zenon
<1>4. Gives(Execute(Two("fetchadd", Reg(r), Mem(n, q, p, k)), c, m), c.pc + 1,
            Put(c.regs, r, Peek(m, a)), c.cc, Poke(m, a, Peek(m, a) + c.regs[r]))
  <2>1. PICK i : i = Two("fetchadd", Reg(r), Mem(n, q, p, k))
    OBVIOUS
  <2>2. i.op = "fetchadd" /\ i.src.reg = r /\ i.dst = Mem(n, q, p, k)
    BY <2>1 DEF Two, Reg
  <2>3. Effect(i, d, m) = fetchadd(i, d, m)
    BY <2>2, EffectOf
  <2>4. fetchadd(i, d, m) = Outcome(SetReg(d, r, Peek(m, a)), Poke(m, a, Peek(m, a) + c.regs[r]))
    BY <1>1, <1>2, <2>2, Zenon DEF fetchadd
  <2> QED BY <1>1, <2>1, <2>3, <2>4, Zenon
<1> QED BY <1>3, <1>4

\* xchg and fetchadd on a variable.
LEMMA AtomicsAt ==
    ASSUME NEW c, NEW m, Given(c, m), NEW r \in Registers, NEW a \in Int
    PROVE  /\ Gives(Execute(Two("xchg", Reg(r), At(a)), c, m), c.pc + 1,
                    Put(c.regs, r, Peek(m, a)), c.cc, Poke(m, a, c.regs[r]))
           /\ Gives(Execute(Two("fetchadd", Reg(r), At(a)), c, m), c.pc + 1,
                    Put(c.regs, r, Peek(m, a)), c.cc, Poke(m, a, Peek(m, a) + c.regs[r]))
<1>1. a = a + c.regs["zero"] + c.regs["zero"]
  BY GivenFacts
<1> QED BY <1>1, Atomics DEF At

\* test sets the condition codes, and the jumps look at them.
LEMMA Branches ==
    ASSUME NEW c, NEW m, Given(c, m)
    PROVE  /\ \A n, r : Gives(Execute(Two("test", Imm(n), Reg(r)), c, m), c.pc + 1, c.regs,
                              Compare(n, c.regs[r]), m)
           /\ \A q, r : Gives(Execute(Two("test", Reg(q), Reg(r)), c, m), c.pc + 1, c.regs,
                              Compare(c.regs[q], c.regs[r]), m)
           /\ \A targ \in Int : Gives(Execute(J("always", targ), c, m), targ, c.regs, c.cc, m)
           /\ \A cond \in Conditions, targ \in Int :
                  Gives(Execute(J(cond, targ), c, m), IF c.cc[cond] THEN targ ELSE c.pc + 1,
                        c.regs, c.cc, m)
<1> DEFINE d == Past(c)
<1>1. /\ \A i : Execute(i, c, m) = Effect(i, d, m)
      /\ \A cc : Gives(Outcome([d EXCEPT !.cc = cc], m), c.pc + 1, c.regs, cc, m)
      /\ \A pc \in Int : Gives(Outcome([d EXCEPT !.pc = pc], m), pc, c.regs, c.cc, m)
      /\ Gives(Outcome(d, m), c.pc + 1, c.regs, c.cc, m)
      /\ d.regs = c.regs /\ d.cc = c.cc
  BY GivenFacts, Fetched, OutcomeGives
<1> HIDE DEF d
<1>2. ASSUME NEW x, NEW y
      PROVE  Gives(Execute(Two("test", x, y), c, m), c.pc + 1, c.regs,
                   Compare(Operand(x, d, m), Operand(y, d, m)), m)
  <2>1. PICK i : i = Two("test", x, y)
    OBVIOUS
  <2>2. i.op = "test" /\ i.src = x /\ i.dst = y
    BY <2>1 DEF Two
  <2>3. Effect(i, d, m) = test(i, d, m)
    BY <2>2, EffectOf
  <2>4. test(i, d, m) = Outcome([d EXCEPT !.cc = Compare(Operand(x, d, m), Operand(y, d, m))], m)
    BY <2>2, Zenon DEF test
  <2> QED BY <1>1, <2>1, <2>3, <2>4, Zenon
<1>3. /\ \A n : Operand(Imm(n), d, m) = n
      /\ \A r : Operand(Reg(r), d, m) = c.regs[r]
  BY <1>1, OperandOf
<1>4. ASSUME NEW targ \in Int PROVE Gives(Execute(J("always", targ), c, m), targ, c.regs, c.cc, m)
  <2>1. PICK i : i = J("always", targ)
    OBVIOUS
  <2>2. i.op = "j" /\ i.cond = "always" /\ i.targ = targ
    BY <2>1 DEF J
  <2>3. Effect(i, d, m) = jump(i, d, m)
    BY <2>2, EffectOf
  <2>4. jump(i, d, m) = Outcome([d EXCEPT !.pc = targ], m)
    BY <2>2, Zenon DEF jump
  <2> QED BY <1>1, <2>1, <2>3, <2>4, Zenon
<1>5. ASSUME NEW cond \in Conditions, NEW targ \in Int
      PROVE  Gives(Execute(J(cond, targ), c, m), IF c.cc[cond] THEN targ ELSE c.pc + 1, c.regs, c.cc, m)
  <2>1. PICK i : i = J(cond, targ)
    OBVIOUS
  <2>2. i.op = "j" /\ i.cond = cond /\ i.targ = targ /\ i.cond # "always"
    BY <2>1 DEF J, Conditions
  <2>3. Effect(i, d, m) = jump(i, d, m)
    BY <2>2, EffectOf
  <2>4. jump(i, d, m) = Outcome(IF c.cc[cond] THEN [d EXCEPT !.pc = targ] ELSE d, m)
    BY <1>1, <2>2, Zenon DEF jump
  <2>5. CASE c.cc[cond]
    BY <1>1, <2>1, <2>3, <2>4, <2>5, Zenon
  <2>6. CASE ~c.cc[cond]
    BY <1>1, <2>1, <2>3, <2>4, <2>6, Zenon
  <2> QED BY <2>5, <2>6
<1>6. ASSUME NEW n, NEW r
      PROVE  Gives(Execute(Two("test", Imm(n), Reg(r)), c, m), c.pc + 1, c.regs, Compare(n, c.regs[r]), m)
  BY <1>2, <1>3, Zenon
<1>7. ASSUME NEW q, NEW r
      PROVE  Gives(Execute(Two("test", Reg(q), Reg(r)), c, m), c.pc + 1, c.regs,
                   Compare(c.regs[q], c.regs[r]), m)
  BY <1>2, <1>3, Zenon
<1> QED BY <1>4, <1>5, <1>6, <1>7

\* push, pop, call and ret.
LEMMA Stack ==
    ASSUME NEW c, NEW m, Given(c, m), NEW sp, sp = c.regs["sp"], NEW n \in Int
    PROVE  /\ Gives(Execute(Call(n), c, m), n, Put(c.regs, "sp", sp - 4), c.cc, Poke(m, sp - 4, c.pc + 1))
           /\ Gives(Execute(Bare("ret"), c, m), Peek(m, sp), Put(c.regs, "sp", sp + 4), c.cc, m)
           /\ Gives(Execute(One("push", At(n)), c, m), c.pc + 1, Put(c.regs, "sp", sp - 4), c.cc,
                    Poke(m, sp - 4, n))
           /\ Gives(Execute(Bare("pop"), c, m), c.pc + 1, Put(c.regs, "sp", sp + 4), c.cc, m)
<1> DEFINE d == Past(c)
<1>1. sp \in Int /\ sp - 4 \in Int /\ sp + 4 \in Int /\ Peek(m, sp) \in Int
  <2>1. sp \in Int
    BY GivenFacts, Zenon
  <2> QED BY <2>1 DEF Given, IntMem
<1>2. /\ \A i : Execute(i, c, m) = Effect(i, d, m)
      /\ \A v \in Int : \A m2 :
            /\ SetReg(d, "sp", v).regs = Put(c.regs, "sp", v)
            /\ Gives(Outcome(SetReg(d, "sp", v), m2), c.pc + 1, Put(c.regs, "sp", v), c.cc, m2)
            /\ \A pc \in Int : Gives(Outcome([SetReg(d, "sp", v) EXCEPT !.pc = pc], m2),
                                     pc, Put(c.regs, "sp", v), c.cc, m2)
      /\ d.regs = c.regs /\ d.pc = c.pc + 1
  BY GivenFacts, Fetched, OutcomeGives
<1> HIDE DEF d
<1>3. Gives(Execute(Call(n), c, m), n, Put(c.regs, "sp", sp - 4), c.cc, Poke(m, sp - 4, c.pc + 1))
  <2>1. PICK i : i = Call(n)
    OBVIOUS
  <2>2. i.op = "call" /\ i.targ = n
    BY <2>1 DEF Call
  <2>3. Effect(i, d, m) = call(i, d, m)
    BY <2>2, EffectOf
  <2>4. call(i, d, m) = Outcome([SetReg(d, "sp", sp - 4) EXCEPT !.pc = n], Poke(m, sp - 4, c.pc + 1))
    BY <1>2, <2>2, Zenon DEF call
  <2>5. PICK m2, v : m2 = Poke(m, sp - 4, c.pc + 1) /\ v = sp - 4
    OBVIOUS
  <2>6. Gives(Outcome([SetReg(d, "sp", v) EXCEPT !.pc = n], m2), n, Put(c.regs, "sp", v), c.cc, m2)
    BY <1>1, <1>2, <2>5
  <2> QED BY <1>2, <2>1, <2>3, <2>4, <2>5, <2>6, Zenon
<1>4. Gives(Execute(Bare("ret"), c, m), Peek(m, sp), Put(c.regs, "sp", sp + 4), c.cc, m)
  <2>1. PICK i : i = Bare("ret")
    OBVIOUS
  <2>2. i.op = "ret"
    BY <2>1 DEF Bare
  <2>3. Effect(i, d, m) = ret(i, d, m)
    BY <2>2, EffectOf
  <2>4. ret(i, d, m) = Outcome([SetReg(d, "sp", sp + 4) EXCEPT !.pc = Peek(m, sp)], m)
    BY <1>2, Zenon DEF ret
  <2>5. PICK v, pc : v = sp + 4 /\ pc = Peek(m, sp)
    OBVIOUS
  <2>6. Gives(Outcome([SetReg(d, "sp", v) EXCEPT !.pc = pc], m), pc, Put(c.regs, "sp", v), c.cc, m)
    BY <1>1, <1>2, <2>5
  <2> QED BY <1>2, <2>1, <2>3, <2>4, <2>5, <2>6, Zenon
<1>5. Gives(Execute(One("push", At(n)), c, m), c.pc + 1, Put(c.regs, "sp", sp - 4), c.cc, Poke(m, sp - 4, n))
  <2>1. PICK i : i = One("push", At(n))
    OBVIOUS
  <2>2. i.op = "push" /\ i.src.type # "register" /\ i.src = At(n)
    BY <2>1 DEF One, At, Mem
  <2>3. Effect(i, d, m) = push(i, d, m)
    BY <2>2, EffectOf
  <2>4. PICK rs : rs = SetReg(d, "sp", sp - 4).regs
    OBVIOUS
  <2>5. rs["zero"] = 0
    <3>1. c.regs \in [Registers -> Int] /\ "zero" \in Registers \ {"sp"} /\ c.regs["zero"] = 0
      BY GivenFacts DEF Given, IsContext
    <3> QED BY <1>1, <1>2, <2>4, <3>1 DEF Put
  <2>6. Address(At(n), rs) = n
    BY <2>5 DEF Address, At, Mem
  <2>7. push(i, d, m) = Outcome(SetReg(d, "sp", sp - 4), Poke(m, sp - 4, Address(i.src, rs)))
    BY <1>2, <2>2, <2>4, Zenon DEF push
  <2>8. PICK m2, v : m2 = Poke(m, sp - 4, n) /\ v = sp - 4
    OBVIOUS
  <2>9. Gives(Outcome(SetReg(d, "sp", v), m2), c.pc + 1, Put(c.regs, "sp", v), c.cc, m2)
    BY <1>1, <1>2, <2>8
  <2> QED BY <1>2, <2>1, <2>2, <2>3, <2>6, <2>7, <2>8, <2>9, Zenon
<1>6. Gives(Execute(Bare("pop"), c, m), c.pc + 1, Put(c.regs, "sp", sp + 4), c.cc, m)
  <2>1. PICK i : i = Bare("pop")
    OBVIOUS
  <2>2. i.op = "pop"
    BY <2>1 DEF Bare
  <2>3. Effect(i, d, m) = pop(i, d, m)
    BY <2>2, EffectOf
  <2>4. pop(i, d, m) = Outcome(SetReg(d, "sp", sp + 4), m)
    BY <1>2, Zenon DEF pop
  <2>5. Gives(Outcome(SetReg(d, "sp", sp + 4), m), c.pc + 1, Put(c.regs, "sp", sp + 4), c.cc, m)
    BY <1>1, <1>2
  <2> QED BY <1>2, <2>1, <2>3, <2>4, <2>5, Zenon
<1> QED BY <1>3, <1>4, <1>5, <1>6

\* yield and halt change nothing but the code they return.
LEMMA Switches ==
    ASSUME NEW c, NEW m, Given(c, m)
    PROVE  /\ Gives(Execute(Bare("yield"), c, m), c.pc + 1, c.regs, c.cc, m)
           /\ Execute(Bare("halt"), c, m).rc = HALT
           /\ Execute(Bare("halt"), c, m).mem = m
<1> DEFINE d == Past(c)
<1>1. /\ \A i : Execute(i, c, m) = Effect(i, d, m)
      /\ Gives(Outcome(d, m), c.pc + 1, c.regs, c.cc, m)
  BY GivenFacts, Fetched, OutcomeGives
<1>2. \A v : /\ [Outcome(d, m) EXCEPT !.rc = v].ctx = Outcome(d, m).ctx
             /\ [Outcome(d, m) EXCEPT !.rc = v].mem = Outcome(d, m).mem
             /\ [Outcome(d, m) EXCEPT !.rc = v].rc = v
             /\ Outcome(d, m).mem = m
  BY DEF Outcome
<1> HIDE DEF d
<1>3. PICK i, j : i = Bare("yield") /\ j = Bare("halt")
  OBVIOUS
<1>4. i.op = "yield" /\ j.op = "halt"
  BY <1>3 DEF Bare
<1>5. /\ Effect(i, d, m) = [Outcome(d, m) EXCEPT !.rc = YIELD]
      /\ Effect(j, d, m) = [Outcome(d, m) EXCEPT !.rc = HALT]
  BY <1>4, EffectOf
<1>6. YIELD # HALT
  BY DEF YIELD, HALT
<1>7. /\ Effect(i, d, m).ctx = Outcome(d, m).ctx /\ Effect(i, d, m).mem = Outcome(d, m).mem
      /\ Effect(i, d, m).rc # HALT
      /\ Effect(j, d, m).mem = m /\ Effect(j, d, m).rc = HALT
  BY <1>2, <1>5, <1>6
<1>8. Gives(Effect(i, d, m), c.pc + 1, c.regs, c.cc, m)
  BY <1>1, <1>7 DEF Gives
<1> QED BY <1>1, <1>3, <1>7, <1>8, Zenon

-----------------------------------------------------------------------------
\* The locks, one thread at a time: what is true of a thread by the line it
\* is on, and what each of its instructions does to the lock and the counter.

\* Where in the listing of a spin lock it does what: the address of the lock,
\* the load of the counter, the register the exchange sets and the test of it,
\* the lines on which the thread owns the lock and those on which the counter
\* is ahead of the loop count, the decrement of that, and the last line.
Listing(lock, entry, reg, testing, owned, after, sub, last) ==
    [lock |-> lock, entry |-> entry, reg |-> reg, test |-> testing, owned |-> owned,
     after |-> after, sub |-> sub, last |-> last]

SpinLock ==
    [test_and_set |->
        Listing(100, 1004, "ax", 1002, 1004 .. 1007, 1007 .. 1008, 1008, 1011),
     test_and_test_and_set |->
        Listing(100, 1007, "ax", 1005, 1007 .. 1010, 1010 .. 1011, 1011, 1014),
     yield |->
        Listing(100, 1006, "ax", 1002, 1006 .. 1009, 1009 .. 1010, 1010, 1013),
     looping_race_withlock_withcallret |->
        Listing(0, 1003, "cx", 1016, (1002 .. 1007) \cup (1018 .. 1020),
                (1006 .. 1009) \cup (1019 .. 1021), 1009, 1021)]

\* The loop count in the thread's bx, from sub to the jump behind it.
Looping(sub, c) ==
    /\ c.regs["bx"] \in Int
    /\ c.regs["bx"] <= Loops
    /\ c.pc \in sub + 1 .. sub + 3 => 0 <= c.regs["bx"] /\ c.regs["bx"] < Loops
    /\ c.pc \notin sub + 1 .. sub + 3 => 1 <= c.regs["bx"]
    /\ c.pc = sub + 2 => (c.cc["gt"] <=> c.regs["bx"] > 0)
    /\ c.pc = sub + 3 => c.regs["bx"] = 0

\* The increments a looping thread has made: its loops, and one more between
\* the store of the counter and the decrement of bx.
Rounds(after, c) == Loops - c.regs["bx"] + (IF c.pc \in after THEN 1 ELSE 0)

\* The thread owns the lock: it is there, or about to see that it may go there.
Holds(s, c) ==
    \/ c.pc \in s.owned
    \/ c.pc = s.test /\ c.regs[s.reg] = 0
    \/ c.pc = s.test + 1 /\ c.cc["eq"]

\* The stack of a thread that calls lock and unlock.
Stacked(t, c, m) ==
    /\ Peek(m, stack(t) - 12) = 0
    /\ c.pc \in {1000} \cup (1003 .. 1006) \cup (1009 .. 1012) => c.regs["sp"] = stack(t)
    /\ c.pc \in {1001, 1002, 1007, 1008} => c.regs["sp"] = stack(t) - 4
    /\ c.pc \in 1013 .. 1021 => c.regs["sp"] = stack(t) - 8
    /\ c.pc \in 1013 .. 1018 => Peek(m, stack(t) - 8) = 1002
    /\ c.pc \in 1019 .. 1021 => Peek(m, stack(t) - 8) = 1008
    /\ c.pc \in (1014 .. 1016) \cup {1020} => c.regs["ax"] = 0

\* What is true of a thread of a spin lock, by its line.
SpinAt(s, t, c, m) ==
    /\ IsContext(c) /\ c.regs["zero"] = 0
    /\ c.pc \in 1000 .. s.last
    /\ Looping(s.sub, c)
    /\ c.pc = s.test - 1 => c.regs[s.reg] = 1
    /\ c.pc = s.test + 1 => (c.cc["neq"] <=> ~c.cc["eq"])
    /\ s.lock = 0 => Stacked(t, c, m)

\* What an instruction of the thread with context c does to the lock: nothing,
\* or an exchange, which takes the lock if nobody holds it, or the release.
Turns(s, c, m, o) ==
    \/ /\ Peek(o.mem, s.lock) = Peek(m, s.lock)
       /\ o.rc = HALT => ~Holds(s, c)
       /\ o.rc # HALT => (Holds(s, o.ctx) <=> Holds(s, c))
    \/ /\ o.rc # HALT /\ ~Holds(s, c)
       /\ Holds(s, o.ctx) => Peek(m, s.lock) = 0
       /\ Peek(o.mem, s.lock) = 1
    \/ /\ o.rc # HALT /\ Holds(s, c) /\ ~Holds(s, o.ctx)

\* ... and to the counter at a, loaded at L; old and new are the rounds the
\* thread has made.
Counts(L, a, quota, c, m, o, old, new) ==
    \/ /\ o.rc = HALT /\ old = quota /\ Peek(o.mem, a) = Peek(m, a)
    \/ /\ o.rc # HALT /\ Peek(o.mem, a) = Peek(m, a) /\ new = old
       /\ o.ctx.pc \notin L + 1 .. L + 2
    \/ /\ o.rc # HALT /\ Peek(o.mem, a) = Peek(m, a) /\ new = old
       /\ c.pc = L /\ o.ctx.pc = L + 1 /\ o.ctx.regs["ax"] = Peek(m, a)
    \/ /\ o.rc # HALT /\ Peek(o.mem, a) = Peek(m, a) /\ new = old
       /\ c.pc = L + 1 /\ o.ctx.pc = L + 2 /\ o.ctx.regs["ax"] = c.regs["ax"] + 1
    \/ /\ o.rc # HALT /\ c.pc = L + 2 /\ o.ctx.pc = L + 3
       /\ Peek(o.mem, a) = c.regs["ax"] /\ new = old + 1

\* The result of an instruction that writes a register, register by register.
LEMMA GivesRegs ==
    \A o, pc, regs, cc, m, r, v :
        /\ regs \in [Registers -> Int] /\ r \in Registers /\ v \in Int
        /\ Gives(o, pc, Put(regs, r, v), cc, m)
        => /\ o.rc # HALT /\ o.mem = m /\ IsContext(o.ctx) /\ o.ctx.pc = pc /\ o.ctx.cc = cc
           /\ o.ctx.regs[r] = v
           /\ \A q \in Registers \ {r} : o.ctx.regs[q] = regs[q]
BY PutInt DEF Gives

\* The address two registers make up.
Via(n, p, q, k, c) == n + c.regs[p] + k * c.regs[q]

\* mov from and to such an address.
LEMMA MovesVia ==
    ASSUME NEW c, NEW m, Given(c, m), NEW n \in Int, NEW k \in Int, NEW p \in Registers, NEW q \in Registers,
           NEW a \in Int, a = Via(n, p, q, k, c)
    PROVE  /\ \A r \in Registers :
                  Gives(Execute(mov(Mem(n, p, q, k), Reg(r)), c, m), c.pc + 1,
                        Put(c.regs, r, Peek(m, a)), c.cc, m)
           /\ \A v \in Int :
                  Gives(Execute(mov(Imm(v), Mem(n, p, q, k)), c, m), c.pc + 1, c.regs, c.cc,
                        Poke(m, a, v))
BY Moves DEF Via

\* The condition codes a test sets.
LEMMA Compared ==
    ASSUME NEW x, NEW y
    PROVE  /\ Compare(x, y)["gt"] <=> y > x
           /\ Compare(x, y)["eq"] <=> y = x
           /\ Compare(x, y)["neq"] <=> y # x
BY DEF Compare

\* What an instruction of a thread leaves of all this.
SpinStep(s, t, c, m, o) ==
    /\ IntMem(o.mem)
    /\ o.rc # HALT => SpinAt(s, t, o.ctx, o.mem)
    /\ Turns(s, c, m, o)
    /\ Counts(s.entry, 104, Loops, c, m, o, Rounds(s.after, c), Rounds(s.after, o.ctx))
    /\ s.lock = 0 => \A u \in Threads \ {t} : \A d : Stacked(u, d, m) => Stacked(u, d, o.mem)

\* ticket.s: from its draw to its leaving, a thread has a number.
Active(c) == c.pc \in 1002 .. 1009
Number(c, m) == IF c.pc \in 1002 .. 1004 THEN c.regs["ax"] ELSE Peek(m, 104)

\* What is true of a thread of ticket.s, by its line: its number is one that
\* has been drawn and whose turn has not passed.
TicketAt(c, m) ==
    /\ IsContext(c) /\ c.regs["zero"] = 0
    /\ c.pc \in 1000 .. 1013
    /\ Looping(1010, c)
    /\ Peek(m, 104) <= Peek(m, 100)
    /\ c.pc \in {1001, 1009} => c.regs["ax"] = 1
    /\ Active(c) => Peek(m, 104) <= Number(c, m) /\ Number(c, m) < Peek(m, 100)
    /\ c.pc = 1003 => c.regs["cx"] <= Peek(m, 104)
    /\ c.pc = 1004 => c.cc["neq"] \/ c.regs["ax"] = Peek(m, 104)

\* What an instruction does to the numbers: the next one is drawn, the turn
\* passes on, or nothing.
Draws(c, m, o) ==
    \/ /\ o.rc # HALT /\ ~Active(c)
       /\ Number(o.ctx, o.mem) = Peek(m, 100)
       /\ Peek(o.mem, 100) = Peek(m, 100) + 1 /\ Peek(o.mem, 104) = Peek(m, 104)
    \/ /\ o.rc # HALT /\ c.pc = 1009 /\ ~Active(o.ctx)
       /\ Peek(o.mem, 100) = Peek(m, 100) /\ Peek(o.mem, 104) = Peek(m, 104) + 1
    \/ /\ Peek(o.mem, 100) = Peek(m, 100) /\ Peek(o.mem, 104) = Peek(m, 104)
       /\ o.rc # HALT /\ Active(o.ctx) => Active(c) /\ Number(o.ctx, o.mem) = Number(c, m)

\* What an instruction of a thread of ticket.s leaves of all this.
TicketStep(c, m, o) ==
    /\ IntMem(o.mem)
    /\ o.rc # HALT => TicketAt(o.ctx, o.mem)
    /\ Draws(c, m, o)
    /\ Counts(1005, 108, Loops, c, m, o, Rounds(1008 .. 1010, c), Rounds(1008 .. 1010, o.ctx))

\* peterson.s: a thread has asked for the lock; it may go in, even if it has
\* not yet got there.
Asks(c) == c.pc \in 1006 .. 1015
Through(c) ==
    \/ c.pc \in 1012 .. 1015
    \/ c.pc = 1007 /\ c.regs["ax"] # 1
    \/ c.pc = 1008 /\ c.cc["neq"]
    \/ c.pc = 1010 /\ c.regs["ax"] # c.regs["cx"]
    \/ c.pc = 1011 /\ ~c.cc["eq"]

\* The address of a thread's flag.
Flag(t) == 100 + 4 * t

\* What is true of thread t of peterson.s, by its line.
PetersonAt(t, c, m) ==
    /\ IsContext(c) /\ c.regs["zero"] = 0
    /\ c.pc \in 1000 .. 1017
    /\ c.regs["bx"] = t
    /\ c.pc # 1000 => c.regs["fx"] = 100
    /\ c.pc = 1002 => c.regs["cx"] = t
    /\ c.pc = 1003 => c.regs["cx"] = -t
    /\ c.pc \in 1004 .. 1017 => c.regs["cx"] = 1 - t
    /\ Peek(m, 108) \in {0, 1}
    /\ c.pc \in 1005 .. 1015 => Peek(m, Flag(t)) = 1

\* What an instruction does to the turn: it is given to the other thread, or
\* stays, and the thread may go in as the other one does not ask, or has not
\* the turn.
Yields(t, c, m, o) ==
    \/ /\ o.rc # HALT /\ ~Through(o.ctx)
       /\ Peek(o.mem, 108) = 1 - t
    \/ /\ Peek(o.mem, 108) = Peek(m, 108)
       /\ o.rc # HALT => /\ Asks(o.ctx) => Asks(c)
                         /\ Through(o.ctx) => \/ Through(c)
                                              \/ Peek(m, Flag(1 - t)) # 1
                                              \/ Peek(m, 108) = t

\* The increments a thread of peterson.s has made: it does not loop.
Passed(c) == IF c.pc \in 1015 .. 1017 THEN 1 ELSE 0

\* What an instruction of thread t of peterson.s leaves of all this, of the
\* other thread too.
PetersonStep(t, c, m, o) ==
    /\ IntMem(o.mem)
    /\ o.rc # HALT => PetersonAt(t, o.ctx, o.mem)
    /\ \A u \in {0, 1} \ {t} : \A d : PetersonAt(u, d, m) => PetersonAt(u, d, o.mem)
    /\ Yields(t, c, m, o)
    /\ Counts(1012, 112, 1, c, m, o, Passed(c), Passed(o.ctx))

\* Each instruction of test-and-set.s is such a step.
LEMMA TasStep ==
    ASSUME NEW t \in Threads, NEW c, NEW m, IntMem(m),
           NEW s, s = SpinLock["test_and_set"], SpinAt(s, t, c, m),
           NEW o, o = Execute(Code["test_and_set"][c.pc], c, m)
    PROVE  SpinStep(s, t, c, m, o)
<1>1. /\ s.lock = 100 /\ s.entry = 1004 /\ s.reg = "ax" /\ s.test = 1002
      /\ s.owned = 1004 .. 1007 /\ s.after = 1007 .. 1008
      /\ s.sub = 1008 /\ s.last = 1011
  BY DEF SpinLock, Listing
<1>2. /\ Given(c, m) /\ IsContext(c) /\ c.pc \in 1000 .. 1011
      /\ Looping(1008, c) /\ c.regs["zero"] = 0
      /\ c.pc = 1001 => c.regs["ax"] = 1
      /\ c.pc = 1003 => (c.cc["neq"] <=> ~c.cc["eq"])
  BY <1>1 DEF SpinAt, Given
<1>3. c.regs \in [Registers -> Int] /\ \A r \in Registers : c.regs[r] \in Int
  BY <1>2 DEF IsContext
<1>4. /\ "zero" \in Registers /\ "ax" \in Registers /\ "bx" \in Registers
      /\ "cx" \in Registers /\ "sp" \in Registers
      /\ "gt" \in Conditions /\ "eq" \in Conditions /\ "neq" \in Conditions
  BY DEF Registers, Conditions
<1>5. \A a \in Int : Peek(m, a) \in Int
  BY DEF IntMem
<1>6. Loops \in Nat \ {0}
  BY X86Assumption
<1>7. CASE c.pc = 1000
  <2>1. Gives(o, 1001, Put(c.regs, "ax", 1), c.cc, m)
    BY <1>2, <1>3, <1>4, <1>5, <1>7, TasCode, Moves
  <2>2. /\ o.rc # HALT /\ IsContext(o.ctx) /\ o.ctx.pc = 1001
        /\ o.ctx.regs["ax"] = 1 /\ o.ctx.regs["bx"] = c.regs["bx"]
        /\ o.ctx.regs["cx"] = c.regs["cx"] /\ o.ctx.regs["sp"] = c.regs["sp"] /\ o.ctx.regs["zero"] = 0
        /\ o.ctx.cc = c.cc
    BY <1>2, <1>3, <1>4, <1>5, <2>1, GivesRegs
  <2>3. o.mem = m
    BY <2>1 DEF Gives
  <2>4. SpinAt(s, t, o.ctx, o.mem)
    BY <1>1, <1>2, <1>3, <1>6, <1>7, <2>2, <2>3 DEF SpinAt, Looping
  <2>5. Turns(s, c, m, o)
    BY <1>1, <1>2, <1>7, <2>2, <2>3 DEF Turns, Holds
  <2>6. Counts(s.entry, 104, Loops, c, m, o, Rounds(s.after, c), Rounds(s.after, o.ctx))
    BY <1>1, <1>2, <1>3, <1>6, <1>7, <2>2, <2>3 DEF Counts, Rounds, Looping
  <2> QED BY <1>1, <2>3, <2>4, <2>5, <2>6 DEF SpinStep
<1>8. CASE c.pc = 1001
  <2>1. Gives(o, 1002, Put(c.regs, "ax", Peek(m, 100)), c.cc, Poke(m, 100, c.regs["ax"]))
    BY <1>2, <1>3, <1>4, <1>5, <1>8, TasCode, AtomicsAt
  <2>2. /\ o.rc # HALT /\ IsContext(o.ctx) /\ o.ctx.pc = 1002
        /\ o.ctx.regs["ax"] = Peek(m, 100) /\ o.ctx.regs["bx"] = c.regs["bx"]
        /\ o.ctx.regs["cx"] = c.regs["cx"] /\ o.ctx.regs["sp"] = c.regs["sp"] /\ o.ctx.regs["zero"] = 0
        /\ o.ctx.cc = c.cc
    BY <1>2, <1>3, <1>4, <1>5, <2>1, GivesRegs
  <2>3. /\ IntMem(o.mem)
        /\ \A b : Peek(o.mem, b) = IF b = 100 THEN c.regs["ax"] ELSE Peek(m, b)
    BY <1>3, <1>4, <1>5, <2>1, PeekPoke, IntPoke DEF Gives
  <2>4. SpinAt(s, t, o.ctx, o.mem)
    BY <1>1, <1>2, <1>3, <1>6, <1>8, <2>2, <2>3 DEF SpinAt, Looping
  <2>5. Turns(s, c, m, o)
    BY <1>1, <1>2, <1>8, <2>2, <2>3 DEF Turns, Holds
  <2>6. Counts(s.entry, 104, Loops, c, m, o, Rounds(s.after, c), Rounds(s.after, o.ctx))
    BY <1>1, <1>2, <1>3, <1>6, <1>8, <2>2, <2>3 DEF Counts, Rounds, Looping
  <2> QED BY <1>1, <2>3, <2>4, <2>5, <2>6 DEF SpinStep
<1>9. CASE c.pc = 1002
  <2>1. Gives(o, 1003, c.regs, Compare(0, c.regs["ax"]), m)
    BY <1>2, <1>3, <1>4, <1>5, <1>9, TasCode, Branches
  <2>2. /\ o.rc # HALT /\ IsContext(o.ctx) /\ o.ctx.pc = 1003
        /\ o.ctx.regs["ax"] = c.regs["ax"] /\ o.ctx.regs["bx"] = c.regs["bx"]
        /\ o.ctx.regs["cx"] = c.regs["cx"] /\ o.ctx.regs["sp"] = c.regs["sp"] /\ o.ctx.regs["zero"] = 0
        /\ (o.ctx.cc["gt"] <=> c.regs["ax"] > 0) /\ (o.ctx.cc["eq"] <=> c.regs["ax"] = 0) /\ (o.ctx.cc["neq"] <=> c.regs["ax"] # 0)
    BY <1>2, <2>1, Compared DEF Gives
  <2>3. o.mem = m
    BY <2>1 DEF Gives
  <2>4. SpinAt(s, t, o.ctx, o.mem)
    BY <1>1, <1>2, <1>3, <1>6, <1>9, <2>2, <2>3 DEF SpinAt, Looping
  <2>5. Turns(s, c, m, o)
    BY <1>1, <1>2, <1>9, <2>2, <2>3 DEF Turns, Holds
  <2>6. Counts(s.entry, 104, Loops, c, m, o, Rounds(s.after, c), Rounds(s.after, o.ctx))
    BY <1>1, <1>2, <1>3, <1>6, <1>9, <2>2, <2>3 DEF Counts, Rounds, Looping
  <2> QED BY <1>1, <2>3, <2>4, <2>5, <2>6 DEF SpinStep
<1>10. CASE c.pc = 1003
  <2>1. Gives(o, IF c.cc["neq"] THEN 1000 ELSE 1004, c.regs, c.cc, m)
    BY <1>2, <1>3, <1>4, <1>5, <1>10, TasCode, Branches
  <2>2. /\ o.rc # HALT /\ IsContext(o.ctx) /\ o.ctx.pc = (IF c.cc["neq"] THEN 1000 ELSE 1004)
        /\ o.ctx.regs["ax"] = c.regs["ax"] /\ o.ctx.regs["bx"] = c.regs["bx"]
        /\ o.ctx.regs["cx"] = c.regs["cx"] /\ o.ctx.regs["sp"] = c.regs["sp"] /\ o.ctx.regs["zero"] = 0
        /\ o.ctx.cc = c.cc
    BY <1>2, <2>1 DEF Gives
  <2>3. o.mem = m
    BY <2>1 DEF Gives
  <2>4. SpinAt(s, t, o.ctx, o.mem)
    BY <1>1, <1>2, <1>3, <1>6, <1>10, <2>2, <2>3 DEF SpinAt, Looping
  <2>5. Turns(s, c, m, o)
    BY <1>1, <1>2, <1>10, <2>2, <2>3 DEF Turns, Holds
  <2>6. Counts(s.entry, 104, Loops, c, m, o, Rounds(s.after, c), Rounds(s.after, o.ctx))
    BY <1>1, <1>2, <1>3, <1>6, <1>10, <2>2, <2>3 DEF Counts, Rounds, Looping
  <2> QED BY <1>1, <2>3, <2>4, <2>5, <2>6 DEF SpinStep
<1>11. CASE c.pc = 1004
  <2>1. Gives(o, 1005, Put(c.regs, "ax", Peek(m, 104)), c.cc, m)
    BY <1>2, <1>3, <1>4, <1>5, <1>11, TasCode, Moves
  <2>2. /\ o.rc # HALT /\ IsContext(o.ctx) /\ o.ctx.pc = 1005
        /\ o.ctx.regs["ax"] = Peek(m, 104) /\ o.ctx.regs["bx"] = c.regs["bx"]
        /\ o.ctx.regs["cx"] = c.regs["cx"] /\ o.ctx.regs["sp"] = c.regs["sp"] /\ o.ctx.regs["zero"] = 0
        /\ o.ctx.cc = c.cc
    BY <1>2, <1>3, <1>4, <1>5, <2>1, GivesRegs
  <2>3. o.mem = m
    BY <2>1 DEF Gives
  <2>4. SpinAt(s, t, o.ctx, o.mem)
    BY <1>1, <1>2, <1>3, <1>6, <1>11, <2>2, <2>3 DEF SpinAt, Looping
  <2>5. Turns(s, c, m, o)
    BY <1>1, <1>2, <1>11, <2>2, <2>3 DEF Turns, Holds
  <2>6. Counts(s.entry, 104, Loops, c, m, o, Rounds(s.after, c), Rounds(s.after, o.ctx))
    BY <1>1, <1>2, <1>3, <1>6, <1>11, <2>2, <2>3 DEF Counts, Rounds, Looping
  <2> QED BY <1>1, <2>3, <2>4, <2>5, <2>6 DEF SpinStep
<1>12. CASE c.pc = 1005
  <2>1. Gives(o, 1006, Put(c.regs, "ax", c.regs["ax"] + 1), c.cc, m)
    BY <1>2, <1>3, <1>4, <1>5, <1>12, TasCode, Arithmetic
  <2>2. /\ o.rc # HALT /\ IsContext(o.ctx) /\ o.ctx.pc = 1006
        /\ o.ctx.regs["ax"] = c.regs["ax"] + 1 /\ o.ctx.regs["bx"] = c.regs["bx"]
        /\ o.ctx.regs["cx"] = c.regs["cx"] /\ o.ctx.regs["sp"] = c.regs["sp"] /\ o.ctx.regs["zero"] = 0
        /\ o.ctx.cc = c.cc
    BY <1>2, <1>3, <1>4, <1>5, <2>1, GivesRegs
  <2>3. o.mem = m
    BY <2>1 DEF Gives
  <2>4. SpinAt(s, t, o.ctx, o.mem)
    BY <1>1, <1>2, <1>3, <1>6, <1>12, <2>2, <2>3 DEF SpinAt, Looping
  <2>5. Turns(s, c, m, o)
    BY <1>1, <1>2, <1>12, <2>2, <2>3 DEF Turns, Holds
  <2>6. Counts(s.entry, 104, Loops, c, m, o, Rounds(s.after, c), Rounds(s.after, o.ctx))
    BY <1>1, <1>2, <1>3, <1>6, <1>12, <2>2, <2>3 DEF Counts, Rounds, Looping
  <2> QED BY <1>1, <2>3, <2>4, <2>5, <2>6 DEF SpinStep
<1>13. CASE c.pc = 1006
  <2>1. Gives(o, 1007, c.regs, c.cc, Poke(m, 104, c.regs["ax"]))
    BY <1>2, <1>3, <1>4, <1>5, <1>13, TasCode, Moves
  <2>2. /\ o.rc # HALT /\ IsContext(o.ctx) /\ o.ctx.pc = 1007
        /\ o.ctx.regs["ax"] = c.regs["ax"] /\ o.ctx.regs["bx"] = c.regs["bx"]
        /\ o.ctx.regs["cx"] = c.regs["cx"] /\ o.ctx.regs["sp"] = c.regs["sp"] /\ o.ctx.regs["zero"] = 0
        /\ o.ctx.cc = c.cc
    BY <1>2, <2>1 DEF Gives
  <2>3. /\ IntMem(o.mem)
        /\ \A b : Peek(o.mem, b) = IF b = 104 THEN c.regs["ax"] ELSE Peek(m, b)
    BY <1>3, <1>4, <1>5, <2>1, PeekPoke, IntPoke DEF Gives
  <2>4. SpinAt(s, t, o.ctx, o.mem)
    BY <1>1, <1>2, <1>3, <1>6, <1>13, <2>2, <2>3 DEF SpinAt, Looping
  <2>5. Turns(s, c, m, o)
    BY <1>1, <1>2, <1>13, <2>2, <2>3 DEF Turns, Holds
  <2>6. Counts(s.entry, 104, Loops, c, m, o, Rounds(s.after, c), Rounds(s.after, o.ctx))
    BY <1>1, <1>2, <1>3, <1>6, <1>13, <2>2, <2>3 DEF Counts, Rounds, Looping
  <2> QED BY <1>1, <2>3, <2>4, <2>5, <2>6 DEF SpinStep
<1>14. CASE c.pc = 1007
  <2>1. Gives(o, 1008, c.regs, c.cc, Poke(m, 100, 0))
    BY <1>2, <1>3, <1>4, <1>5, <1>14, TasCode, Moves
  <2>2. /\ o.rc # HALT /\ IsContext(o.ctx) /\ o.ctx.pc = 1008
        /\ o.ctx.regs["ax"] = c.regs["ax"] /\ o.ctx.regs["bx"] = c.regs["bx"]
        /\ o.ctx.regs["cx"] = c.regs["cx"] /\ o.ctx.regs["sp"] = c.regs["sp"] /\ o.ctx.regs["zero"] = 0
        /\ o.ctx.cc = c.cc
    BY <1>2, <2>1 DEF Gives
  <2>3. /\ IntMem(o.mem)
        /\ \A b : Peek(o.mem, b) = IF b = 100 THEN 0 ELSE Peek(m, b)
    BY <1>3, <1>4, <1>5, <2>1, PeekPoke, IntPoke DEF Gives
  <2>4. SpinAt(s, t, o.ctx, o.mem)
    BY <1>1, <1>2, <1>3, <1>6, <1>14, <2>2, <2>3 DEF SpinAt, Looping
  <2>5. Turns(s, c, m, o)
    BY <1>1, <1>2, <1>14, <2>2, <2>3 DEF Turns, Holds
  <2>6. Counts(s.entry, 104, Loops, c, m, o, Rounds(s.after, c), Rounds(s.after, o.ctx))
    BY <1>1, <1>2, <1>3, <1>6, <1>14, <2>2, <2>3 DEF Counts, Rounds, Looping
  <2> QED BY <1>1, <2>3, <2>4, <2>5, <2>6 DEF SpinStep
<1>15. CASE c.pc = 1008
  <2>1. Gives(o, 1009, Put(c.regs, "bx", c.regs["bx"] - 1), c.cc, m)
    BY <1>2, <1>3, <1>4, <1>5, <1>15, TasCode, Arithmetic
  <2>2. /\ o.rc # HALT /\ IsContext(o.ctx) /\ o.ctx.pc = 1009
        /\ o.ctx.regs["ax"] = c.regs["ax"] /\ o.ctx.regs["bx"] = c.regs["bx"] - 1
        /\ o.ctx.regs["cx"] = c.regs["cx"] /\ o.ctx.regs["sp"] = c.regs["sp"] /\ o.ctx.regs["zero"] = 0
        /\ o.ctx.cc = c.cc
    BY <1>2, <1>3, <1>4, <1>5, <2>1, GivesRegs
  <2>3. o.mem = m
    BY <2>1 DEF Gives
  <2>4. SpinAt(s, t, o.ctx, o.mem)
    BY <1>1, <1>2, <1>3, <1>6, <1>15, <2>2, <2>3 DEF SpinAt, Looping
  <2>5. Turns(s, c, m, o)
    BY <1>1, <1>2, <1>15, <2>2, <2>3 DEF Turns, Holds
  <2>6. Counts(s.entry, 104, Loops, c, m, o, Rounds(s.after, c), Rounds(s.after, o.ctx))
    BY <1>1, <1>2, <1>3, <1>6, <1>15, <2>2, <2>3 DEF Counts, Rounds, Looping
  <2> QED BY <1>1, <2>3, <2>4, <2>5, <2>6 DEF SpinStep
<1>16. CASE c.pc = 1009
  <2>1. Gives(o, 1010, c.regs, Compare(0, c.regs["bx"]), m)
    BY <1>2, <1>3, <1>4, <1>5, <1>16, TasCode, Branches
  <2>2. /\ o.rc # HALT /\ IsContext(o.ctx) /\ o.ctx.pc = 1010
        /\ o.ctx.regs["ax"] = c.regs["ax"] /\ o.ctx.regs["bx"] = c.regs["bx"]
        /\ o.ctx.regs["cx"] = c.regs["cx"] /\ o.ctx.regs["sp"] = c.regs["sp"] /\ o.ctx.regs["zero"] = 0
        /\ (o.ctx.cc["gt"] <=> c.regs["bx"] > 0) /\ (o.ctx.cc["eq"] <=> c.regs["bx"] = 0) /\ (o.ctx.cc["neq"] <=> c.regs["bx"] # 0)
    BY <1>2, <2>1, Compared DEF Gives
  <2>3. o.mem = m
    BY <2>1 DEF Gives
  <2>4. SpinAt(s, t, o.ctx, o.mem)
    BY <1>1, <1>2, <1>3, <1>6, <1>16, <2>2, <2>3 DEF SpinAt, Looping
  <2>5. Turns(s, c, m, o)
    BY <1>1, <1>2, <1>16, <2>2, <2>3 DEF Turns, Holds
  <2>6. Counts(s.entry, 104, Loops, c, m, o, Rounds(s.after, c), Rounds(s.after, o.ctx))
    BY <1>1, <1>2, <1>3, <1>6, <1>16, <2>2, <2>3 DEF Counts, Rounds, Looping
  <2> QED BY <1>1, <2>3, <2>4, <2>5, <2>6 DEF SpinStep
<1>17. CASE c.pc = 1010
  <2>1. Gives(o, IF c.cc["gt"] THEN 1000 ELSE 1011, c.regs, c.cc, m)
    BY <1>2, <1>3, <1>4, <1>5, <1>17, TasCode, Branches
  <2>2. /\ o.rc # HALT /\ IsContext(o.ctx) /\ o.ctx.pc = (IF c.cc["gt"] THEN 1000 ELSE 1011)
        /\ o.ctx.regs["ax"] = c.regs["ax"] /\ o.ctx.regs["bx"] = c.regs["bx"]
        /\ o.ctx.regs["cx"] = c.regs["cx"] /\ o.ctx.regs["sp"] = c.regs["sp"] /\ o.ctx.regs["zero"] = 0
        /\ o.ctx.cc = c.cc
    BY <1>2, <2>1 DEF Gives
  <2>3. o.mem = m
    BY <2>1 DEF Gives
  <2>4. SpinAt(s, t, o.ctx, o.mem)
    BY <1>1, <1>2, <1>3, <1>6, <1>17, <2>2, <2>3 DEF SpinAt, Looping
  <2>5. Turns(s, c, m, o)
    BY <1>1, <1>2, <1>17, <2>2, <2>3 DEF Turns, Holds
  <2>6. Counts(s.entry, 104, Loops, c, m, o, Rounds(s.after, c), Rounds(s.after, o.ctx))
    BY <1>1, <1>2, <1>3, <1>6, <1>17, <2>2, <2>3 DEF Counts, Rounds, Looping
  <2> QED BY <1>1, <2>3, <2>4, <2>5, <2>6 DEF SpinStep
<1>18. CASE c.pc = 1011
  <2>1. o.rc = HALT /\ o.mem = m
    BY <1>2, <1>18, TasCode, Switches
  <2>2. Turns(s, c, m, o)
    BY <1>1, <1>2, <1>18, <2>1 DEF Turns, Holds
  <2>3. Counts(s.entry, 104, Loops, c, m, o, Rounds(s.after, c), Rounds(s.after, o.ctx))
    BY <1>1, <1>2, <1>6, <1>18, <2>1 DEF Counts, Rounds, Looping
  <2> QED BY <2>1, <2>2, <2>3 DEF SpinStep
<1> QED BY <1>2, <1>7, <1>8, <1>9, <1>10, <1>11, <1>12, <1>13, <1>14, <1>15, <1>16, <1>17, <1>18

\* Each instruction of test-and-test-and-set.s is such a step.
LEMMA TaTasStep ==
    ASSUME NEW t \in Threads, NEW c, NEW m, IntMem(m),
           NEW s, s = SpinLock["test_and_test_and_set"], SpinAt(s, t, c, m),
           NEW o, o = Execute(Code["test_and_test_and_set"][c.pc], c, m)
    PROVE  SpinStep(s, t, c, m, o)
<1>1. /\ s.lock = 100 /\ s.entry = 1007 /\ s.reg = "ax" /\ s.test = 1005
      /\ s.owned = 1007 .. 1010 /\ s.after = 1010 .. 1011
      /\ s.sub = 1011 /\ s.last = 1014
  BY DEF SpinLock, Listing
<1>2. /\ Given(c, m) /\ IsContext(c) /\ c.pc \in 1000 .. 1014
      /\ Looping(1011, c) /\ c.regs["zero"] = 0
      /\ c.pc = 1004 => c.regs["ax"] = 1
      /\ c.pc = 1006 => (c.cc["neq"] <=> ~c.cc["eq"])
  BY <1>1 DEF SpinAt, Given
<1>3. c.regs \in [Registers -> Int] /\ \A r \in Registers : c.regs[r] \in Int
  BY <1>2 DEF IsContext
<1>4. /\ "zero" \in Registers /\ "ax" \in Registers /\ "bx" \in Registers
      /\ "cx" \in Registers /\ "sp" \in Registers
      /\ "gt" \in Conditions /\ "eq" \in Conditions /\ "neq" \in Conditions
  BY DEF Registers, Conditions
<1>5. \A a \in Int : Peek(m, a) \in Int
  BY DEF IntMem
<1>6. Loops \in Nat \ {0}
  BY X86Assumption
<1>7. CASE c.pc = 1000
  <2>1. Gives(o, 1001, Put(c.regs, "ax", Peek(m, 100)), c.cc, m)
    BY <1>2, <1>3, <1>4, <1>5, <1>7, TaTasCode, Moves
  <2>2. /\ o.rc # HALT /\ IsContext(o.ctx) /\ o.ctx.pc = 1001
        /\ o.ctx.regs["ax"] = Peek(m, 100) /\ o.ctx.regs["bx"] = c.regs["bx"]
        /\ o.ctx.regs["cx"] = c.regs["cx"] /\ o.ctx.regs["sp"] = c.regs["sp"] /\ o.ctx.regs["zero"] = 0
        /\ o.ctx.cc = c.cc
    BY <1>2, <1>3, <1>4, <1>5, <2>1, GivesRegs
  <2>3. o.mem = m
    BY <2>1 DEF Gives
  <2>4. SpinAt(s, t, o.ctx, o.mem)
    BY <1>1, <1>2, <1>3, <1>6, <1>7, <2>2, <2>3 DEF SpinAt, Looping
  <2>5. Turns(s, c, m, o)
    BY <1>1, <1>2, <1>7, <2>2, <2>3 DEF Turns, Holds
  <2>6. Counts(s.entry, 104, Loops, c, m, o, Rounds(s.after, c), Rounds(s.after, o.ctx))
    BY <1>1, <1>2, <1>3, <1>6, <1>7, <2>2, <2>3 DEF Counts, Rounds, Looping
  <2> QED BY <1>1, <2>3, <2>4, <2>5, <2>6 DEF SpinStep
<1>8. CASE c.pc = 1001
  <2>1. Gives(o, 1002, c.regs, Compare(0, c.regs["ax"]), m)
    BY <1>2, <1>3, <1>4, <1>5, <1>8, TaTasCode, Branches
  <2>2. /\ o.rc # HALT /\ IsContext(o.ctx) /\ o.ctx.pc = 1002
        /\ o.ctx.regs["ax"] = c.regs["ax"] /\ o.ctx.regs["bx"] = c.regs["bx"]
        /\ o.ctx.regs["cx"] = c.regs["cx"] /\ o.ctx.regs["sp"] = c.regs["sp"] /\ o.ctx.regs["zero"] = 0
        /\ (o.ctx.cc["gt"] <=> c.regs["ax"] > 0) /\ (o.ctx.cc["eq"] <=> c.regs["ax"] = 0) /\ (o.ctx.cc["neq"] <=> c.regs["ax"] # 0)
    BY <1>2, <2>1, Compared DEF Gives
  <2>3. o.mem = m
    BY <2>1 DEF Gives
  <2>4. SpinAt(s, t, o.ctx, o.mem)
    BY <1>1, <1>2, <1>3, <1>6, <1>8, <2>2, <2>3 DEF SpinAt, Looping
  <2>5. Turns(s, c, m, o)
    BY <1>1, <1>2, <1>8, <2>2, <2>3 DEF Turns, Holds
  <2>6. Counts(s.entry, 104, Loops, c, m, o, Rounds(s.after, c), Rounds(s.after, o.ctx))
    BY <1>1, <1>2, <1>3, <1>6, <1>8, <2>2, <2>3 DEF Counts, Rounds, Looping
  <2> QED BY <1>1, <2>3, <2>4, <2>5, <2>6 DEF SpinStep
<1>9. CASE c.pc = 1002
  <2>1. Gives(o, IF c.cc["neq"] THEN 1000 ELSE 1003, c.regs, c.cc, m)
    BY <1>2, <1>3, <1>4, <1>5, <1>9, TaTasCode, Branches
  <2>2. /\ o.rc # HALT /\ IsContext(o.ctx) /\ o.ctx.pc = (IF c.cc["neq"] THEN 1000 ELSE 1003)
        /\ o.ctx.regs["ax"] = c.regs["ax"] /\ o.ctx.regs["bx"] = c.regs["bx"]
        /\ o.ctx.regs["cx"] = c.regs["cx"] /\ o.ctx.regs["sp"] = c.regs["sp"] /\ o.ctx.regs["zero"] = 0
        /\ o.ctx.cc = c.cc
    BY <1>2, <2>1 DEF Gives
  <2>3. o.mem = m
    BY <2>1 DEF Gives
  <2>4. SpinAt(s, t, o.ctx, o.mem)
    BY <1>1, <1>2, <1>3, <1>6, <1>9, <2>2, <2>3 DEF SpinAt, Looping
  <2>5. Turns(s, c, m, o)
    BY <1>1, <1>2, <1>9, <2>2, <2>3 DEF Turns, Holds
  <2>6. Counts(s.entry, 104, Loops, c, m, o, Rounds(s.after, c), Rounds(s.after, o.ctx))
    BY <1>1, <1>2, <1>3, <1>6, <1>9, <2>2, <2>3 DEF Counts, Rounds, Looping
  <2> QED BY <1>1, <2>3, <2>4, <2>5, <2>6 DEF SpinStep
<1>10. CASE c.pc = 1003
  <2>1. Gives(o, 1004, Put(c.regs, "ax", 1), c.cc, m)
    BY <1>2, <1>3, <1>4, <1>5, <1>10, TaTasCode, Moves
  <2>2. /\ o.rc # HALT /\ IsContext(o.ctx) /\ o.ctx.pc = 1004
        /\ o.ctx.regs["ax"] = 1 /\ o.ctx.regs["bx"] = c.regs["bx"]
        /\ o.ctx.regs["cx"] = c.regs["cx"] /\ o.ctx.regs["sp"] = c.regs["sp"] /\ o.ctx.regs["zero"] = 0
        /\ o.ctx.cc = c.cc
    BY <1>2, <1>3, <1>4, <1>5, <2>1, GivesRegs
  <2>3. o.mem = m
    BY <2>1 DEF Gives
  <2>4. SpinAt(s, t, o.ctx, o.mem)
    BY <1>1, <1>2, <1>3, <1>6, <1>10, <2>2, <2>3 DEF SpinAt, Looping
  <2>5. Turns(s, c, m, o)
    BY <1>1, <1>2, <1>10, <2>2, <2>3 DEF Turns, Holds
  <2>6. Counts(s.entry, 104, Loops, c, m, o, Rounds(s.after, c), Rounds(s.after, o.ctx))
    BY <1>1, <1>2, <1>3, <1>6, <1>10, <2>2, <2>3 DEF Counts, Rounds, Looping
  <2> QED BY <1>1, <2>3, <2>4, <2>5, <2>6 DEF SpinStep
<1>11. CASE c.pc = 1004
  <2>1. Gives(o, 1005, Put(c.regs, "ax", Peek(m, 100)), c.cc, Poke(m, 100, c.regs["ax"]))
    BY <1>2, <1>3, <1>4, <1>5, <1>11, TaTasCode, AtomicsAt
  <2>2. /\ o.rc # HALT /\ IsContext(o.ctx) /\ o.ctx.pc = 1005
        /\ o.ctx.regs["ax"] = Peek(m, 100) /\ o.ctx.regs["bx"] = c.regs["bx"]
        /\ o.ctx.regs["cx"] = c.regs["cx"] /\ o.ctx.regs["sp"] = c.regs["sp"] /\ o.ctx.regs["zero"] = 0
        /\ o.ctx.cc = c.cc
    BY <1>2, <1>3, <1>4, <1>5, <2>1, GivesRegs
  <2>3. /\ IntMem(o.mem)
        /\ \A b : Peek(o.mem, b) = IF b = 100 THEN c.regs["ax"] ELSE Peek(m, b)
    BY <1>3, <1>4, <1>5, <2>1, PeekPoke, IntPoke DEF Gives
  <2>4. SpinAt(s, t, o.ctx, o.mem)
    BY <1>1, <1>2, <1>3, <1>6, <1>11, <2>2, <2>3 DEF SpinAt, Looping
  <2>5. Turns(s, c, m, o)
    BY <1>1, <1>2, <1>11, <2>2, <2>3 DEF Turns, Holds
  <2>6. Counts(s.entry, 104, Loops, c, m, o, Rounds(s.after, c), Rounds(s.after, o.ctx))
    BY <1>1, <1>2, <1>3, <1>6, <1>11, <2>2, <2>3 DEF Counts, Rounds, Looping
  <2> QED BY <1>1, <2>3, <2>4, <2>5, <2>6 DEF SpinStep
<1>12. CASE c.pc = 1005
  <2>1. Gives(o, 1006, c.regs, Compare(0, c.regs["ax"]), m)
    BY <1>2, <1>3, <1>4, <1>5, <1>12, TaTasCode, Branches
  <2>2. /\ o.rc # HALT /\ IsContext(o.ctx) /\ o.ctx.pc = 1006
        /\ o.ctx.regs["ax"] = c.regs["ax"] /\ o.ctx.regs["bx"] = c.regs["bx"]
        /\ o.ctx.regs["cx"] = c.regs["cx"] /\ o.ctx.regs["sp"] = c.regs["sp"] /\ o.ctx.regs["zero"] = 0
        /\ (o.ctx.cc["gt"] <=> c.regs["ax"] > 0) /\ (o.ctx.cc["eq"] <=> c.regs["ax"] = 0) /\ (o.ctx.cc["neq"] <=> c.regs["ax"] # 0)
    BY <1>2, <2>1, Compared DEF Gives
  <2>3. o.mem = m
    BY <2>1 DEF Gives
  <2>4. SpinAt(s, t, o.ctx, o.mem)
    BY <1>1, <1>2, <1>3, <1>6, <1>12, <2>2, <2>3 DEF SpinAt, Looping
  <2>5. Turns(s, c, m, o)
    BY <1>1, <1>2, <1>12, <2>2, <2>3 DEF Turns, Holds
  <2>6. Counts(s.entry, 104, Loops, c, m, o, Rounds(s.after, c), Rounds(s.after, o.ctx))
    BY <1>1, <1>2, <1>3, <1>6, <1>12, <2>2, <2>3 DEF Counts, Rounds, Looping
  <2> QED BY <1>1, <2>3, <2>4, <2>5, <2>6 DEF SpinStep
<1>13. CASE c.pc = 1006
  <2>1. Gives(o, IF c.cc["neq"] THEN 1000 ELSE 1007, c.regs, c.cc, m)
    BY <1>2, <1>3, <1>4, <1>5, <1>13, TaTasCode, Branches
  <2>2. /\ o.rc # HALT /\ IsContext(o.ctx) /\ o.ctx.pc = (IF c.cc["neq"] THEN 1000 ELSE 1007)
        /\ o.ctx.regs["ax"] = c.regs["ax"] /\ o.ctx.regs["bx"] = c.regs["bx"]
        /\ o.ctx.regs["cx"] = c.regs["cx"] /\ o.ctx.regs["sp"] = c.regs["sp"] /\ o.ctx.regs["zero"] = 0
        /\ o.ctx.cc = c.cc
    BY <1>2, <2>1 DEF Gives
  <2>3. o.mem = m
    BY <2>1 DEF Gives
  <2>4. SpinAt(s, t, o.ctx, o.mem)
    BY <1>1, <1>2, <1>3, <1>6, <1>13, <2>2, <2>3 DEF SpinAt, Looping
  <2>5. Turns(s, c, m, o)
    BY <1>1, <1>2, <1>13, <2>2, <2>3 DEF Turns, Holds
  <2>6. Counts(s.entry, 104, Loops, c, m, o, Rounds(s.after, c), Rounds(s.after, o.ctx))
    BY <1>1, <1>2, <1>3, <1>6, <1>13, <2>2, <2>3 DEF Counts, Rounds, Looping
  <2> QED BY <1>1, <2>3, <2>4, <2>5, <2>6 DEF SpinStep
<1>14. CASE c.pc = 1007
  <2>1. Gives(o, 1008, Put(c.regs, "ax", Peek(m, 104)), c.cc, m)
    BY <1>2, <1>3, <1>4, <1>5, <1>14, TaTasCode, Moves
  <2>2. /\ o.rc # HALT /\ IsContext(o.ctx) /\ o.ctx.pc = 1008
        /\ o.ctx.regs["ax"] = Peek(m, 104) /\ o.ctx.regs["bx"] = c.regs["bx"]
        /\ o.ctx.regs["cx"] = c.regs["cx"] /\ o.ctx.regs["sp"] = c.regs["sp"] /\ o.ctx.regs["zero"] = 0
        /\ o.ctx.cc = c.cc
    BY <1>2, <1>3, <1>4, <1>5, <2>1, GivesRegs
  <2>3. o.mem = m
    BY <2>1 DEF Gives
  <2>4. SpinAt(s, t, o.ctx, o.mem)
    BY <1>1, <1>2, <1>3, <1>6, <1>14, <2>2, <2>3 DEF SpinAt, Looping
  <2>5. Turns(s, c, m, o)
    BY <1>1, <1>2, <1>14, <2>2, <2>3 DEF Turns, Holds
  <2>6. Counts(s.entry, 104, Loops, c, m, o, Rounds(s.after, c), Rounds(s.after, o.ctx))
    BY <1>1, <1>2, <1>3, <1>6, <1>14, <2>2, <2>3 DEF Counts, Rounds, Looping
  <2> QED BY <1>1, <2>3, <2>4, <2>5, <2>6 DEF SpinStep
<1>15. CASE c.pc = 1008
  <2>1. Gives(o, 1009, Put(c.regs, "ax", c.regs["ax"] + 1), c.cc, m)
    BY <1>2, <1>3, <1>4, <1>5, <1>15, TaTasCode, Arithmetic
  <2>2. /\ o.rc # HALT /\ IsContext(o.ctx) /\ o.ctx.pc = 1009
        /\ o.ctx.regs["ax"] = c.regs["ax"] + 1 /\ o.ctx.regs["bx"] = c.regs["bx"]
        /\ o.ctx.regs["cx"] = c.regs["cx"] /\ o.ctx.regs["sp"] = c.regs["sp"] /\ o.ctx.regs["zero"] = 0
        /\ o.ctx.cc = c.cc
    BY <1>2, <1>3, <1>4, <1>5, <2>1, GivesRegs
  <2>3. o.mem = m
    BY <2>1 DEF Gives
  <2>4. SpinAt(s, t, o.ctx, o.mem)
    BY <1>1, <1>2, <1>3, <1>6, <1>15, <2>2, <2>3 DEF SpinAt, Looping
  <2>5. Turns(s, c, m, o)
    BY <1>1, <1>2, <1>15, <2>2, <2>3 DEF Turns, Holds
  <2>6. Counts(s.entry, 104, Loops, c, m, o, Rounds(s.after, c), Rounds(s.after, o.ctx))
    BY <1>1, <1>2, <1>3, <1>6, <1>15, <2>2, <2>3 DEF Counts, Rounds, Looping
  <2> QED BY <1>1, <2>3, <2>4, <2>5, <2>6 DEF SpinStep
<1>16. CASE c.pc = 1009
  <2>1. Gives(o, 1010, c.regs, c.cc, Poke(m, 104, c.regs["ax"]))
    BY <1>2, <1>3, <1>4, <1>5, <1>16, TaTasCode, Moves
  <2>2. /\ o.rc # HALT /\ IsContext(o.ctx) /\ o.ctx.pc = 1010
        /\ o.ctx.regs["ax"] = c.regs["ax"] /\ o.ctx.regs["bx"] = c.regs["bx"]
        /\ o.ctx.regs["cx"] = c.regs["cx"] /\ o.ctx.regs["sp"] = c.regs["sp"] /\ o.ctx.regs["zero"] = 0
        /\ o.ctx.cc = c.cc
    BY <1>2, <2>1 DEF Gives
  <2>3. /\ IntMem(o.mem)
        /\ \A b : Peek(o.mem, b) = IF b = 104 THEN c.regs["ax"] ELSE Peek(m, b)
    BY <1>3, <1>4, <1>5, <2>1, PeekPoke, IntPoke DEF Gives
  <2>4. SpinAt(s, t, o.ctx, o.mem)
    BY <1>1, <1>2, <1>3, <1>6, <1>16, <2>2, <2>3 DEF SpinAt, Looping
  <2>5. Turns(s, c, m, o)
    BY <1>1, <1>2, <1>16, <2>2, <2>3 DEF Turns, Holds
  <2>6. Counts(s.entry, 104, Loops, c, m, o, Rounds(s.after, c), Rounds(s.after, o.ctx))
    BY <1>1, <1>2, <1>3, <1>6, <1>16, <2>2, <2>3 DEF Counts, Rounds, Looping
  <2> QED BY <1>1, <2>3, <2>4, <2>5, <2>6 DEF SpinStep
<1>17. CASE c.pc = 1010
  <2>1. Gives(o, 1011, c.regs, c.cc, Poke(m, 100, 0))
    BY <1>2, <1>3, <1>4, <1>5, <1>17, TaTasCode, Moves
  <2>2. /\ o.rc # HALT /\ IsContext(o.ctx) /\ o.ctx.pc = 1011
        /\ o.ctx.regs["ax"] = c.regs["ax"] /\ o.ctx.regs["bx"] = c.regs["bx"]
        /\ o.ctx.regs["cx"] = c.regs["cx"] /\ o.ctx.regs["sp"] = c.regs["sp"] /\ o.ctx.regs["zero"] = 0
        /\ o.ctx.cc = c.cc
    BY <1>2, <2>1 DEF Gives
  <2>3. /\ IntMem(o.mem)
        /\ \A b : Peek(o.mem, b) = IF b = 100 THEN 0 ELSE Peek(m, b)
    BY <1>3, <1>4, <1>5, <2>1, PeekPoke, IntPoke DEF Gives
  <2>4. SpinAt(s, t, o.ctx, o.mem)
    BY <1>1, <1>2, <1>3, <1>6, <1>17, <2>2, <2>3 DEF SpinAt, Looping
  <2>5. Turns(s, c, m, o)
    BY <1>1, <1>2, <1>17, <2>2, <2>3 DEF Turns, Holds
  <2>6. Counts(s.entry, 104, Loops, c, m, o, Rounds(s.after, c), Rounds(s.after, o.ctx))
    BY <1>1, <1>2, <1>3, <1>6, <1>17, <2>2, <2>3 DEF Counts, Rounds, Looping
  <2> QED BY <1>1, <2>3, <2>4, <2>5, <2>6 DEF SpinStep
<1>18. CASE c.pc = 1011
  <2>1. Gives(o, 1012, Put(c.regs, "bx", c.regs["bx"] - 1), c.cc, m)
    BY <1>2, <1>3, <1>4, <1>5, <1>18, TaTasCode, Arithmetic
  <2>2. /\ o.rc # HALT /\ IsContext(o.ctx) /\ o.ctx.pc = 1012
        /\ o.ctx.regs["ax"] = c.regs["ax"] /\ o.ctx.regs["bx"] = c.regs["bx"] - 1
        /\ o.ctx.regs["cx"] = c.regs["cx"] /\ o.ctx.regs["sp"] = c.regs["sp"] /\ o.ctx.regs["zero"] = 0
        /\ o.ctx.cc = c.cc
    BY <1>2, <1>3, <1>4, <1>5, <2>1, GivesRegs
  <2>3. o.mem = m
    BY <2>1 DEF Gives
  <2>4. SpinAt(s, t, o.ctx, o.mem)
    BY <1>1, <1>2, <1>3, <1>6, <1>18, <2>2, <2>3 DEF SpinAt, Looping
  <2>5. Turns(s, c, m, o)
    BY <1>1, <1>2, <1>18, <2>2, <2>3 DEF Turns, Holds
  <2>6. Counts(s.entry, 104, Loops, c, m, o, Rounds(s.after, c), Rounds(s.after, o.ctx))
    BY <1>1, <1>2, <1>3, <1>6, <1>18, <2>2, <2>3 DEF Counts, Rounds, Looping
  <2> QED BY <1>1, <2>3, <2>4, <2>5, <2>6 DEF SpinStep
<1>19. CASE c.pc = 1012
  <2>1. Gives(o, 1013, c.regs, Compare(0, c.regs["bx"]), m)
    BY <1>2, <1>3, <1>4, <1>5, <1>19, TaTasCode, Branches
  <2>2. /\ o.rc # HALT /\ IsContext(o.ctx) /\ o.ctx.pc = 1013
        /\ o.ctx.regs["ax"] = c.regs["ax"] /\ o.ctx.regs["bx"] = c.regs["bx"]
        /\ o.ctx.regs["cx"] = c.regs["cx"] /\ o.ctx.regs["sp"] = c.regs["sp"] /\ o.ctx.regs["zero"] = 0
        /\ (o.ctx.cc["gt"] <=> c.regs["bx"] > 0) /\ (o.ctx.cc["eq"] <=> c.regs["bx"] = 0) /\ (o.ctx.cc["neq"] <=> c.regs["bx"] # 0)
    BY <1>2, <2>1, Compared DEF Gives
  <2>3. o.mem = m
    BY <2>1 DEF Gives
  <2>4. SpinAt(s, t, o.ctx, o.mem)
    BY <1>1, <1>2, <1>3, <1>6, <1>19, <2>2, <2>3 DEF SpinAt, Looping
  <2>5. Turns(s, c, m, o)
    BY <1>1, <1>2, <1>19, <2>2, <2>3 DEF Turns, Holds
  <2>6. Counts(s.entry, 104, Loops, c, m, o, Rounds(s.after, c), Rounds(s.after, o.ctx))
    BY <1>1, <1>2, <1>3, <1>6, <1>19, <2>2, <2>3 DEF Counts, Rounds, Looping
  <2> QED BY <1>1, <2>3, <2>4, <2>5, <2>6 DEF SpinStep
<1>20. CASE c.pc = 1013
  <2>1. Gives(o, IF c.cc["gt"] THEN 1000 ELSE 1014, c.regs, c.cc, m)
    BY <1>2, <1>3, <1>4, <1>5, <1>20, TaTasCode, Branches
  <2>2. /\ o.rc # HALT /\ IsContext(o.ctx) /\ o.ctx.pc = (IF c.cc["gt"] THEN 1000 ELSE 1014)
        /\ o.ctx.regs["ax"] = c.regs["ax"] /\ o.ctx.regs["bx"] = c.regs["bx"]
        /\ o.ctx.regs["cx"] = c.regs["cx"] /\ o.ctx.regs["sp"] = c.regs["sp"] /\ o.ctx.regs["zero"] = 0
        /\ o.ctx.cc = c.cc
    BY <1>2, <2>1 DEF Gives
  <2>3. o.mem = m
    BY <2>1 DEF Gives
  <2>4. SpinAt(s, t, o.ctx, o.mem)
    BY <1>1, <1>2, <1>3, <1>6, <1>20, <2>2, <2>3 DEF SpinAt, Looping
  <2>5. Turns(s, c, m, o)
    BY <1>1, <1>2, <1>20, <2>2, <2>3 DEF Turns, Holds
  <2>6. Counts(s.entry, 104, Loops, c, m, o, Rounds(s.after, c), Rounds(s.after, o.ctx))
    BY <1>1, <1>2, <1>3, <1>6, <1>20, <2>2, <2>3 DEF Counts, Rounds, Looping
  <2> QED BY <1>1, <2>3, <2>4, <2>5, <2>6 DEF SpinStep
<1>21. CASE c.pc = 1014
  <2>1. o.rc = HALT /\ o.mem = m
    BY <1>2, <1>21, TaTasCode, Switches
  <2>2. Turns(s, c, m, o)
    BY <1>1, <1>2, <1>21, <2>1 DEF Turns, Holds
  <2>3. Counts(s.entry, 104, Loops, c, m, o, Rounds(s.after, c), Rounds(s.after, o.ctx))
    BY <1>1, <1>2, <1>6, <1>21, <2>1 DEF Counts, Rounds, Looping
  <2> QED BY <2>1, <2>2, <2>3 DEF SpinStep
<1> QED BY <1>2, <1>7, <1>8, <1>9, <1>10, <1>11, <1>12, <1>13, <1>14, <1>15, <1>16, <1>17, <1>18, <1>19, <1>20, <1>21

\* Each instruction of yield.s is such a step.
LEMMA YieldStep ==
    ASSUME NEW t \in Threads, NEW c, NEW m, IntMem(m),
           NEW s, s = SpinLock["yield"], SpinAt(s, t, c, m),
           NEW o, o = Execute(Code["yield"][c.pc], c, m)
    PROVE  SpinStep(s, t, c, m, o)
<1>1. /\ s.lock = 100 /\ s.entry = 1006 /\ s.reg = "ax" /\ s.test = 1002
      /\ s.owned = 1006 .. 1009 /\ s.after = 1009 .. 1010
      /\ s.sub = 1010 /\ s.last = 1013
  BY DEF SpinLock, Listing
<1>2. /\ Given(c, m) /\ IsContext(c) /\ c.pc \in 1000 .. 1013
      /\ Looping(1010, c) /\ c.regs["zero"] = 0
      /\ c.pc = 1001 => c.regs["ax"] = 1
      /\ c.pc = 1003 => (c.cc["neq"] <=> ~c.cc["eq"])
  BY <1>1 DEF SpinAt, Given
<1>3. c.regs \in [Registers -> Int] /\ \A r \in Registers : c.regs[r] \in Int
  BY <1>2 DEF IsContext
<1>4. /\ "zero" \in Registers /\ "ax" \in Registers /\ "bx" \in Registers
      /\ "cx" \in Registers /\ "sp" \in Registers
      /\ "gt" \in Conditions /\ "eq" \in Conditions /\ "neq" \in Conditions
  BY DEF Registers, Conditions
<1>5. \A a \in Int : Peek(m, a) \in Int
  BY DEF IntMem
<1>6. Loops \in Nat \ {0}
  BY X86Assumption
<1>7. CASE c.pc = 1000
  <2>1. Gives(o, 1001, Put(c.regs, "ax", 1), c.cc, m)
    BY <1>2, <1>3, <1>4, <1>5, <1>7, YieldCode, Moves
  <2>2. /\ o.rc # HALT /\ IsContext(o.ctx) /\ o.ctx.pc = 1001
        /\ o.ctx.regs["ax"] = 1 /\ o.ctx.regs["bx"] = c.regs["bx"]
        /\ o.ctx.regs["cx"] = c.regs["cx"] /\ o.ctx.regs["sp"] = c.regs["sp"] /\ o.ctx.regs["zero"] = 0
        /\ o.ctx.cc = c.cc
    BY <1>2, <1>3, <1>4, <1>5, <2>1, GivesRegs
  <2>3. o.mem = m
    BY <2>1 DEF Gives
  <2>4. SpinAt(s, t, o.ctx, o.mem)
    BY <1>1, <1>2, <1>3, <1>6, <1>7, <2>2, <2>3 DEF SpinAt, Looping
  <2>5. Turns(s, c, m, o)
    BY <1>1, <1>2, <1>7, <2>2, <2>3 DEF Turns, Holds
  <2>6. Counts(s.entry, 104, Loops, c, m, o, Rounds(s.after, c), Rounds(s.after, o.ctx))
    BY <1>1, <1>2, <1>3, <1>6, <1>7, <2>2, <2>3 DEF Counts, Rounds, Looping
  <2> QED BY <1>1, <2>3, <2>4, <2>5, <2>6 DEF SpinStep
<1>8. CASE c.pc = 1001
  <2>1. Gives(o, 1002, Put(c.regs, "ax", Peek(m, 100)), c.cc, Poke(m, 100, c.regs["ax"]))
    BY <1>2, <1>3, <1>4, <1>5, <1>8, YieldCode, AtomicsAt
  <2>2. /\ o.rc # HALT /\ IsContext(o.ctx) /\ o.ctx.pc = 1002
        /\ o.ctx.regs["ax"] = Peek(m, 100) /\ o.ctx.regs["bx"] = c.regs["bx"]
        /\ o.ctx.regs["cx"] = c.regs["cx"] /\ o.ctx.regs["sp"] = c.regs["sp"] /\ o.ctx.regs["zero"] = 0
        /\ o.ctx.cc = c.cc
    BY <1>2, <1>3, <1>4, <1>5, <2>1, GivesRegs
  <2>3. /\ IntMem(o.mem)
        /\ \A b : Peek(o.mem, b) = IF b = 100 THEN c.regs["ax"] ELSE Peek(m, b)
    BY <1>3, <1>4, <1>5, <2>1, PeekPoke, IntPoke DEF Gives
  <2>4. SpinAt(s, t, o.ctx, o.mem)
    BY <1>1, <1>2, <1>3, <1>6, <1>8, <2>2, <2>3 DEF SpinAt, Looping
  <2>5. Turns(s, c, m, o)
    BY <1>1, <1>2, <1>8, <2>2, <2>3 DEF Turns, Holds
  <2>6. Counts(s.entry, 104, Loops, c, m, o, Rounds(s.after, c), Rounds(s.after, o.ctx))
    BY <1>1, <1>2, <1>3, <1>6, <1>8, <2>2, <2>3 DEF Counts, Rounds, Looping
  <2> QED BY <1>1, <2>3, <2>4, <2>5, <2>6 DEF SpinStep
<1>9. CASE c.pc = 1002
  <2>1. Gives(o, 1003, c.regs, Compare(0, c.regs["ax"]), m)
    BY <1>2, <1>3, <1>4, <1>5, <1>9, YieldCode, Branches
  <2>2. /\ o.rc # HALT /\ IsContext(o.ctx) /\ o.ctx.pc = 1003
        /\ o.ctx.regs["ax"] = c.regs["ax"] /\ o.ctx.regs["bx"] = c.regs["bx"]
        /\ o.ctx.regs["cx"] = c.regs["cx"] /\ o.ctx.regs["sp"] = c.regs["sp"] /\ o.ctx.regs["zero"] = 0
        /\ (o.ctx.cc["gt"] <=> c.regs["ax"] > 0) /\ (o.ctx.cc["eq"] <=> c.regs["ax"] = 0) /\ (o.ctx.cc["neq"] <=> c.regs["ax"] # 0)
    BY <1>2, <2>1, Compared DEF Gives
  <2>3. o.mem = m
    BY <2>1 DEF Gives
  <2>4. SpinAt(s, t, o.ctx, o.mem)
    BY <1>1, <1>2, <1>3, <1>6, <1>9, <2>2, <2>3 DEF SpinAt, Looping
  <2>5. Turns(s, c, m, o)
    BY <1>1, <1>2, <1>9, <2>2, <2>3 DEF Turns, Holds
  <2>6. Counts(s.entry, 104, Loops, c, m, o, Rounds(s.after, c), Rounds(s.after, o.ctx))
    BY <1>1, <1>2, <1>3, <1>6, <1>9, <2>2, <2>3 DEF Counts, Rounds, Looping
  <2> QED BY <1>1, <2>3, <2>4, <2>5, <2>6 DEF SpinStep
<1>10. CASE c.pc = 1003
  <2>1. Gives(o, IF c.cc["eq"] THEN 1006 ELSE 1004, c.regs, c.cc, m)
    BY <1>2, <1>3, <1>4, <1>5, <1>10, YieldCode, Branches
  <2>2. /\ o.rc # HALT /\ IsContext(o.ctx) /\ o.ctx.pc = (IF c.cc["eq"] THEN 1006 ELSE 1004)
        /\ o.ctx.regs["ax"] = c.regs["ax"] /\ o.ctx.regs["bx"] = c.regs["bx"]
        /\ o.ctx.regs["cx"] = c.regs["cx"] /\ o.ctx.regs["sp"] = c.regs["sp"] /\ o.ctx.regs["zero"] = 0
        /\ o.ctx.cc = c.cc
    BY <1>2, <2>1 DEF Gives
  <2>3. o.mem = m
    BY <2>1 DEF Gives
  <2>4. SpinAt(s, t, o.ctx, o.mem)
    BY <1>1, <1>2, <1>3, <1>6, <1>10, <2>2, <2>3 DEF SpinAt, Looping
  <2>5. Turns(s, c, m, o)
    BY <1>1, <1>2, <1>10, <2>2, <2>3 DEF Turns, Holds
  <2>6. Counts(s.entry, 104, Loops, c, m, o, Rounds(s.after, c), Rounds(s.after, o.ctx))
    BY <1>1, <1>2, <1>3, <1>6, <1>10, <2>2, <2>3 DEF Counts, Rounds, Looping
  <2> QED BY <1>1, <2>3, <2>4, <2>5, <2>6 DEF SpinStep
<1>11. CASE c.pc = 1004
  <2>1. Gives(o, 1005, c.regs, c.cc, m)
    BY <1>2, <1>3, <1>4, <1>5, <1>11, YieldCode, Switches
  <2>2. /\ o.rc # HALT /\ IsContext(o.ctx) /\ o.ctx.pc = 1005
        /\ o.ctx.regs["ax"] = c.regs["ax"] /\ o.ctx.regs["bx"] = c.regs["bx"]
        /\ o.ctx.regs["cx"] = c.regs["cx"] /\ o.ctx.regs["sp"] = c.regs["sp"] /\ o.ctx.regs["zero"] = 0
        /\ o.ctx.cc = c.cc
    BY <1>2, <2>1 DEF Gives
  <2>3. o.mem = m
    BY <2>1 DEF Gives
  <2>4. SpinAt(s, t, o.ctx, o.mem)
    BY <1>1, <1>2, <1>3, <1>6, <1>11, <2>2, <2>3 DEF SpinAt, Looping
  <2>5. Turns(s, c, m, o)
    BY <1>1, <1>2, <1>11, <2>2, <2>3 DEF Turns, Holds
  <2>6. Counts(s.entry, 104, Loops, c, m, o, Rounds(s.after, c), Rounds(s.after, o.ctx))
    BY <1>1, <1>2, <1>3, <1>6, <1>11, <2>2, <2>3 DEF Counts, Rounds, Looping
  <2> QED BY <1>1, <2>3, <2>4, <2>5, <2>6 DEF SpinStep
<1>12. CASE c.pc = 1005
  <2>1. Gives(o, 1000, c.regs, c.cc, m)
    BY <1>2, <1>3, <1>4, <1>5, <1>12, YieldCode, Branches
  <2>2. /\ o.rc # HALT /\ IsContext(o.ctx) /\ o.ctx.pc = 1000
        /\ o.ctx.regs["ax"] = c.regs["ax"] /\ o.ctx.regs["bx"] = c.regs["bx"]
        /\ o.ctx.regs["cx"] = c.regs["cx"] /\ o.ctx.regs["sp"] = c.regs["sp"] /\ o.ctx.regs["zero"] = 0
        /\ o.ctx.cc = c.cc
    BY <1>2, <2>1 DEF Gives
  <2>3. o.mem = m
    BY <2>1 DEF Gives
  <2>4. SpinAt(s, t, o.ctx, o.mem)
    BY <1>1, <1>2, <1>3, <1>6, <1>12, <2>2, <2>3 DEF SpinAt, Looping
  <2>5. Turns(s, c, m, o)
    BY <1>1, <1>2, <1>12, <2>2, <2>3 DEF Turns, Holds
  <2>6. Counts(s.entry, 104, Loops, c, m, o, Rounds(s.after, c), Rounds(s.after, o.ctx))
    BY <1>1, <1>2, <1>3, <1>6, <1>12, <2>2, <2>3 DEF Counts, Rounds, Looping
  <2> QED BY <1>1, <2>3, <2>4, <2>5, <2>6 DEF SpinStep
<1>13. CASE c.pc = 1006
  <2>1. Gives(o, 1007, Put(c.regs, "ax", Peek(m, 104)), c.cc, m)
    BY <1>2, <1>3, <1>4, <1>5, <1>13, YieldCode, Moves
  <2>2. /\ o.rc # HALT /\ IsContext(o.ctx) /\ o.ctx.pc = 1007
        /\ o.ctx.regs["ax"] = Peek(m, 104) /\ o.ctx.regs["bx"] = c.regs["bx"]
        /\ o.ctx.regs["cx"] = c.regs["cx"] /\ o.ctx.regs["sp"] = c.regs["sp"] /\ o.ctx.regs["zero"] = 0
        /\ o.ctx.cc = c.cc
    BY <1>2, <1>3, <1>4, <1>5, <2>1, GivesRegs
  <2>3. o.mem = m
    BY <2>1 DEF Gives
  <2>4. SpinAt(s, t, o.ctx, o.mem)
    BY <1>1, <1>2, <1>3, <1>6, <1>13, <2>2, <2>3 DEF SpinAt, Looping
  <2>5. Turns(s, c, m, o)
    BY <1>1, <1>2, <1>13, <2>2, <2>3 DEF Turns, Holds
  <2>6. Counts(s.entry, 104, Loops, c, m, o, Rounds(s.after, c), Rounds(s.after, o.ctx))
    BY <1>1, <1>2, <1>3, <1>6, <1>13, <2>2, <2>3 DEF Counts, Rounds, Looping
  <2> QED BY <1>1, <2>3, <2>4, <2>5, <2>6 DEF SpinStep
<1>14. CASE c.pc = 1007
  <2>1. Gives(o, 1008, Put(c.regs, "ax", c.regs["ax"] + 1), c.cc, m)
    BY <1>2, <1>3, <1>4, <1>5, <1>14, YieldCode, Arithmetic
  <2>2. /\ o.rc # HALT /\ IsContext(o.ctx) /\ o.ctx.pc = 1008
        /\ o.ctx.regs["ax"] = c.regs["ax"] + 1 /\ o.ctx.regs["bx"] = c.regs["bx"]
        /\ o.ctx.regs["cx"] = c.regs["cx"] /\ o.ctx.regs["sp"] = c.regs["sp"] /\ o.ctx.regs["zero"] = 0
        /\ o.ctx.cc = c.cc
    BY <1>2, <1>3, <1>4, <1>5, <2>1, GivesRegs
  <2>3. o.mem = m
    BY <2>1 DEF Gives
  <2>4. SpinAt(s, t, o.ctx, o.mem)
    BY <1>1, <1>2, <1>3, <1>6, <1>14, <2>2, <2>3 DEF SpinAt, Looping
  <2>5. Turns(s, c, m, o)
    BY <1>1, <1>2, <1>14, <2>2, <2>3 DEF Turns, Holds
  <2>6. Counts(s.entry, 104, Loops, c, m, o, Rounds(s.after, c), Rounds(s.after, o.ctx))
    BY <1>1, <1>2, <1>3, <1>6, <1>14, <2>2, <2>3 DEF Counts, Rounds, Looping
  <2> QED BY <1>1, <2>3, <2>4, <2>5, <2>6 DEF SpinStep
<1>15. CASE c.pc = 1008
  <2>1. Gives(o, 1009, c.regs, c.cc, Poke(m, 104, c.regs["ax"]))
    BY <1>2, <1>3, <1>4, <1>5, <1>15, YieldCode, Moves
  <2>2. /\ o.rc # HALT /\ IsContext(o.ctx) /\ o.ctx.pc = 1009
        /\ o.ctx.regs["ax"] = c.regs["ax"] /\ o.ctx.regs["bx"] = c.regs["bx"]
        /\ o.ctx.regs["cx"] = c.regs["cx"] /\ o.ctx.regs["sp"] = c.regs["sp"] /\ o.ctx.regs["zero"] = 0
        /\ o.ctx.cc = c.cc
    BY <1>2, <2>1 DEF Gives
  <2>3. /\ IntMem(o.mem)
        /\ \A b : Peek(o.mem, b) = IF b = 104 THEN c.regs["ax"] ELSE Peek(m, b)
    BY <1>3, <1>4, <1>5, <2>1, PeekPoke, IntPoke DEF Gives
  <2>4. SpinAt(s, t, o.ctx, o.mem)
    BY <1>1, <1>2, <1>3, <1>6, <1>15, <2>2, <2>3 DEF SpinAt, Looping
  <2>5. Turns(s, c, m, o)
    BY <1>1, <1>2, <1>15, <2>2, <2>3 DEF Turns, Holds
  <2>6. Counts(s.entry, 104, Loops, c, m, o, Rounds(s.after, c), Rounds(s.after, o.ctx))
    BY <1>1, <1>2, <1>3, <1>6, <1>15, <2>2, <2>3 DEF Counts, Rounds, Looping
  <2> QED BY <1>1, <2>3, <2>4, <2>5, <2>6 DEF SpinStep
<1>16. CASE c.pc = 1009
  <2>1. Gives(o, 1010, c.regs, c.cc, Poke(m, 100, 0))
    BY <1>2, <1>3, <1>4, <1>5, <1>16, YieldCode, Moves
  <2>2. /\ o.rc # HALT /\ IsContext(o.ctx) /\ o.ctx.pc = 1010
        /\ o.ctx.regs["ax"] = c.regs["ax"] /\ o.ctx.regs["bx"] = c.regs["bx"]
        /\ o.ctx.regs["cx"] = c.regs["cx"] /\ o.ctx.regs["sp"] = c.regs["sp"] /\ o.ctx.regs["zero"] = 0
        /\ o.ctx.cc = c.cc
    BY <1>2, <2>1 DEF Gives
  <2>3. /\ IntMem(o.mem)
        /\ \A b : Peek(o.mem, b) = IF b = 100 THEN 0 ELSE Peek(m, b)
    BY <1>3, <1>4, <1>5, <2>1, PeekPoke, IntPoke DEF Gives
  <2>4. SpinAt(s, t, o.ctx, o.mem)
    BY <1>1, <1>2, <1>3, <1>6, <1>16, <2>2, <2>3 DEF SpinAt, Looping
  <2>5. Turns(s, c, m, o)
    BY <1>1, <1>2, <1>16, <2>2, <2>3 DEF Turns, Holds
  <2>6. Counts(s.entry, 104, Loops, c, m, o, Rounds(s.after, c), Rounds(s.after, o.ctx))
    BY <1>1, <1>2, <1>3, <1>6, <1>16, <2>2, <2>3 DEF Counts, Rounds, Looping
  <2> QED BY <1>1, <2>3, <2>4, <2>5, <2>6 DEF SpinStep
<1>17. CASE c.pc = 1010
  <2>1. Gives(o, 1011, Put(c.regs, "bx", c.regs["bx"] - 1), c.cc, m)
    BY <1>2, <1>3, <1>4, <1>5, <1>17, YieldCode, Arithmetic
  <2>2. /\ o.rc # HALT /\ IsContext(o.ctx) /\ o.ctx.pc = 1011
        /\ o.ctx.regs["ax"] = c.regs["ax"] /\ o.ctx.regs["bx"] = c.regs["bx"] - 1
        /\ o.ctx.regs["cx"] = c.regs["cx"] /\ o.ctx.regs["sp"] = c.regs["sp"] /\ o.ctx.regs["zero"] = 0
        /\ o.ctx.cc = c.cc
    BY <1>2, <1>3, <1>4, <1>5, <2>1, GivesRegs
  <2>3. o.mem = m
    BY <2>1 DEF Gives
  <2>4. SpinAt(s, t, o.ctx, o.mem)
    BY <1>1, <1>2, <1>3, <1>6, <1>17, <2>2, <2>3 DEF SpinAt, Looping
  <2>5. Turns(s, c, m, o)
    BY <1>1, <1>2, <1>17, <2>2, <2>3 DEF Turns, Holds
  <2>6. Counts(s.entry, 104, Loops, c, m, o, Rounds(s.after, c), Rounds(s.after, o.ctx))
    BY <1>1, <1>2, <1>3, <1>6, <1>17, <2>2, <2>3 DEF Counts, Rounds, Looping
  <2> QED BY <1>1, <2>3, <2>4, <2>5, <2>6 DEF SpinStep
<1>18. CASE c.pc = 1011
  <2>1. Gives(o, 1012, c.regs, Compare(0, c.regs["bx"]), m)
    BY <1>2, <1>3, <1>4, <1>5, <1>18, YieldCode, Branches
  <2>2. /\ o.rc # HALT /\ IsContext(o.ctx) /\ o.ctx.pc = 1012
        /\ o.ctx.regs["ax"] = c.regs["ax"] /\ o.ctx.regs["bx"] = c.regs["bx"]
        /\ o.ctx.regs["cx"] = c.regs["cx"] /\ o.ctx.regs["sp"] = c.regs["sp"] /\ o.ctx.regs["zero"] = 0
        /\ (o.ctx.cc["gt"] <=> c.regs["bx"] > 0) /\ (o.ctx.cc["eq"] <=> c.regs["bx"] = 0) /\ (o.ctx.cc["neq"] <=> c.regs["bx"] # 0)
    BY <1>2, <2>1, Compared DEF Gives
  <2>3. o.mem = m
    BY <2>1 DEF Gives
  <2>4. SpinAt(s, t, o.ctx, o.mem)
    BY <1>1, <1>2, <1>3, <1>6, <1>18, <2>2, <2>3 DEF SpinAt, Looping
  <2>5. Turns(s, c, m, o)
    BY <1>1, <1>2, <1>18, <2>2, <2>3 DEF Turns, Holds
  <2>6. Counts(s.entry, 104, Loops, c, m, o, Rounds(s.after, c), Rounds(s.after, o.ctx))
    BY <1>1, <1>2, <1>3, <1>6, <1>18, <2>2, <2>3 DEF Counts, Rounds, Looping
  <2> QED BY <1>1, <2>3, <2>4, <2>5, <2>6 DEF SpinStep
<1>19. CASE c.pc = 1012
  <2>1. Gives(o, IF c.cc["gt"] THEN 1000 ELSE 1013, c.regs, c.cc, m)
    BY <1>2, <1>3, <1>4, <1>5, <1>19, YieldCode, Branches
  <2>2. /\ o.rc # HALT /\ IsContext(o.ctx) /\ o.ctx.pc = (IF c.cc["gt"] THEN 1000 ELSE 1013)
        /\ o.ctx.regs["ax"] = c.regs["ax"] /\ o.ctx.regs["bx"] = c.regs["bx"]
        /\ o.ctx.regs["cx"] = c.regs["cx"] /\ o.ctx.regs["sp"] = c.regs["sp"] /\ o.ctx.regs["zero"] = 0
        /\ o.ctx.cc = c.cc
    BY <1>2, <2>1 DEF Gives
  <2>3. o.mem = m
    BY <2>1 DEF Gives
  <2>4. SpinAt(s, t, o.ctx, o.mem)
    BY <1>1, <1>2, <1>3, <1>6, <1>19, <2>2, <2>3 DEF SpinAt, Looping
  <2>5. Turns(s, c, m, o)
    BY <1>1, <1>2, <1>19, <2>2, <2>3 DEF Turns, Holds
  <2>6. Counts(s.entry, 104, Loops, c, m, o, Rounds(s.after, c), Rounds(s.after, o.ctx))
    BY <1>1, <1>2, <1>3, <1>6, <1>19, <2>2, <2>3 DEF Counts, Rounds, Looping
  <2> QED BY <1>1, <2>3, <2>4, <2>5, <2>6 DEF SpinStep
<1>20. CASE c.pc = 1013
  <2>1. o.rc = HALT /\ o.mem = m
    BY <1>2, <1>20, YieldCode, Switches
  <2>2. Turns(s, c, m, o)
    BY <1>1, <1>2, <1>20, <2>1 DEF Turns, Holds
  <2>3. Counts(s.entry, 104, Loops, c, m, o, Rounds(s.after, c), Rounds(s.after, o.ctx))
    BY <1>1, <1>2, <1>6, <1>20, <2>1 DEF Counts, Rounds, Looping
  <2> QED BY <2>1, <2>2, <2>3 DEF SpinStep
<1> QED BY <1>2, <1>7, <1>8, <1>9, <1>10, <1>11, <1>12, <1>13, <1>14, <1>15, <1>16, <1>17, <1>18, <1>19, <1>20

\* Each instruction of looping-race-withlock-withcallret.s is such a step: its
\* lock word is address 0, as it reads a 0 below its stack pointer.
LEMMA CallStep ==
    ASSUME NEW t \in Threads, NEW c, NEW m, IntMem(m),
           NEW s, s = SpinLock["looping_race_withlock_withcallret"], SpinAt(s, t, c, m),
           NEW o, o = Execute(Code["looping_race_withlock_withcallret"][c.pc], c, m)
    PROVE  SpinStep(s, t, c, m, o)
<1>1. /\ s.lock = 0 /\ s.entry = 1003 /\ s.reg = "cx" /\ s.test = 1016
      /\ s.owned = (1002 .. 1007) \cup (1018 .. 1020) /\ s.after = (1006 .. 1009) \cup (1019 .. 1021)
      /\ s.sub = 1009 /\ s.last = 1021
  BY DEF SpinLock, Listing
<1>2. /\ Given(c, m) /\ IsContext(c) /\ c.pc \in 1000 .. 1021
      /\ Looping(1009, c) /\ c.regs["zero"] = 0
      /\ c.pc = 1015 => c.regs["cx"] = 1
      /\ c.pc = 1017 => (c.cc["neq"] <=> ~c.cc["eq"])
  BY <1>1 DEF SpinAt, Given
<1>3. c.regs \in [Registers -> Int] /\ \A r \in Registers : c.regs[r] \in Int
  BY <1>2 DEF IsContext
<1>4. /\ "zero" \in Registers /\ "ax" \in Registers /\ "bx" \in Registers
      /\ "cx" \in Registers /\ "sp" \in Registers
      /\ "gt" \in Conditions /\ "eq" \in Conditions /\ "neq" \in Conditions
  BY DEF Registers, Conditions
<1>5. \A a \in Int : Peek(m, a) \in Int
  BY DEF IntMem
<1>6. Loops \in Nat \ {0}
  BY X86Assumption
<1>7. PICK S \in Int : S = stack(t)
  BY DEF stack, Threads
<1>8. /\ Peek(m, S - 12) = 0 /\ Peek(m, S - 12) \in Int
      /\ S - 4 \notin {0, 104} /\ S - 8 \notin {0, 104} /\ S - 12 \notin {0, 104}
      /\ c.pc \in {1000} \cup (1003 .. 1006) \cup (1009 .. 1012) => c.regs["sp"] = S
      /\ c.pc \in {1001, 1002, 1007, 1008} => c.regs["sp"] = S - 4
      /\ c.pc \in 1013 .. 1021 => c.regs["sp"] = S - 8
      /\ c.pc \in 1013 .. 1018 => Peek(m, S - 8) = 1002
      /\ c.pc \in 1019 .. 1021 => Peek(m, S - 8) = 1008
      /\ c.pc \in (1014 .. 1016) \cup {1020} => c.regs["ax"] = 0
  BY <1>1, <1>5, <1>7 DEF SpinAt, Stacked, stack, Threads
<1>9. CASE c.pc = 1000
  <2>1. Gives(o, 1001, Put(c.regs, "sp", S - 4), c.cc, Poke(m, S - 4, 100))
    BY <1>2, <1>3, <1>4, <1>5, <1>7, <1>8, <1>9, CallCode, Stack
  <2>2. /\ o.rc # HALT /\ IsContext(o.ctx) /\ o.ctx.pc = 1001
        /\ o.ctx.regs["ax"] = c.regs["ax"] /\ o.ctx.regs["bx"] = c.regs["bx"]
        /\ o.ctx.regs["cx"] = c.regs["cx"] /\ o.ctx.regs["sp"] = S - 4 /\ o.ctx.regs["zero"] = 0
        /\ o.ctx.cc = c.cc
    BY <1>2, <1>3, <1>4, <1>5, <1>7, <2>1, GivesRegs
  <2>3. /\ IntMem(o.mem)
        /\ \A b : Peek(o.mem, b) = IF b = S - 4 THEN 100 ELSE Peek(m, b)
    BY <1>3, <1>4, <1>5, <1>7, <2>1, PeekPoke, IntPoke DEF Gives
  <2>4. SpinAt(s, t, o.ctx, o.mem)
    BY <1>1, <1>2, <1>3, <1>6, <1>7, <1>8, <1>9, <2>2, <2>3 DEF SpinAt, Looping, Stacked
  <2>5. Turns(s, c, m, o)
    BY <1>1, <1>2, <1>7, <1>8, <1>9, <2>2, <2>3 DEF Turns, Holds
  <2>6. Counts(s.entry, 104, Loops, c, m, o, Rounds(s.after, c), Rounds(s.after, o.ctx))
    BY <1>1, <1>2, <1>3, <1>6, <1>7, <1>8, <1>9, <2>2, <2>3 DEF Counts, Rounds, Looping
  <2>7. \A u \in Threads \ {t} : \A d : Stacked(u, d, m) => Stacked(u, d, o.mem)
    BY <1>7, <2>3 DEF Stacked, stack, Threads
  <2> QED BY <1>1, <2>3, <2>4, <2>5, <2>6, <2>7 DEF SpinStep
<1>10. CASE c.pc = 1001
  <2>1. Gives(o, 1013, Put(c.regs, "sp", S - 8), c.cc, Poke(m, S - 8, 1002))
    BY <1>2, <1>3, <1>4, <1>5, <1>7, <1>8, <1>10, CallCode, Stack
  <2>2. /\ o.rc # HALT /\ IsContext(o.ctx) /\ o.ctx.pc = 1013
        /\ o.ctx.regs["ax"] = c.regs["ax"] /\ o.ctx.regs["bx"] = c.regs["bx"]
        /\ o.ctx.regs["cx"] = c.regs["cx"] /\ o.ctx.regs["sp"] = S - 8 /\ o.ctx.regs["zero"] = 0
        /\ o.ctx.cc = c.cc
    BY <1>2, <1>3, <1>4, <1>5, <1>7, <2>1, GivesRegs
  <2>3. /\ IntMem(o.mem)
        /\ \A b : Peek(o.mem, b) = IF b = S - 8 THEN 1002 ELSE Peek(m, b)
    BY <1>3, <1>4, <1>5, <1>7, <2>1, PeekPoke, IntPoke DEF Gives
  <2>4. SpinAt(s, t, o.ctx, o.mem)
    BY <1>1, <1>2, <1>3, <1>6, <1>7, <1>8, <1>10, <2>2, <2>3 DEF SpinAt, Looping, Stacked
  <2>5. Turns(s, c, m, o)
    BY <1>1, <1>2, <1>7, <1>8, <1>10, <2>2, <2>3 DEF Turns, Holds
  <2>6. Counts(s.entry, 104, Loops, c, m, o, Rounds(s.after, c), Rounds(s.after, o.ctx))
    BY <1>1, <1>2, <1>3, <1>6, <1>7, <1>8, <1>10, <2>2, <2>3 DEF Counts, Rounds, Looping
  <2>7. \A u \in Threads \ {t} : \A d : Stacked(u, d, m) => Stacked(u, d, o.mem)
    BY <1>7, <2>3 DEF Stacked, stack, Threads
  <2> QED BY <1>1, <2>3, <2>4, <2>5, <2>6, <2>7 DEF SpinStep
<1>11. CASE c.pc = 1002
  <2>1. Gives(o, 1003, Put(c.regs, "sp", S), c.cc, m)
    BY <1>2, <1>3, <1>4, <1>5, <1>7, <1>8, <1>11, CallCode, Stack
  <2>2. /\ o.rc # HALT /\ IsContext(o.ctx) /\ o.ctx.pc = 1003
        /\ o.ctx.regs["ax"] = c.regs["ax"] /\ o.ctx.regs["bx"] = c.regs["bx"]
        /\ o.ctx.regs["cx"] = c.regs["cx"] /\ o.ctx.regs["sp"] = S /\ o.ctx.regs["zero"] = 0
        /\ o.ctx.cc = c.cc
    BY <1>2, <1>3, <1>4, <1>5, <1>7, <2>1, GivesRegs
  <2>3. o.mem = m
    BY <2>1 DEF Gives
  <2>4. SpinAt(s, t, o.ctx, o.mem)
    BY <1>1, <1>2, <1>3, <1>6, <1>7, <1>8, <1>11, <2>2, <2>3 DEF SpinAt, Looping, Stacked
  <2>5. Turns(s, c, m, o)
    BY <1>1, <1>2, <1>7, <1>8, <1>11, <2>2, <2>3 DEF Turns, Holds
  <2>6. Counts(s.entry, 104, Loops, c, m, o, Rounds(s.after, c), Rounds(s.after, o.ctx))
    BY <1>1, <1>2, <1>3, <1>6, <1>7, <1>8, <1>11, <2>2, <2>3 DEF Counts, Rounds, Looping
  <2>7. \A u \in Threads \ {t} : \A d : Stacked(u, d, m) => Stacked(u, d, o.mem)
    BY <2>3
  <2> QED BY <1>1, <2>3, <2>4, <2>5, <2>6, <2>7 DEF SpinStep
<1>12. CASE c.pc = 1003
  <2>1. Gives(o, 1004, Put(c.regs, "ax", Peek(m, 104)), c.cc, m)
    BY <1>2, <1>3, <1>4, <1>5, <1>7, <1>8, <1>12, CallCode, Moves
  <2>2. /\ o.rc # HALT /\ IsContext(o.ctx) /\ o.ctx.pc = 1004
        /\ o.ctx.regs["ax"] = Peek(m, 104) /\ o.ctx.regs["bx"] = c.regs["bx"]
        /\ o.ctx.regs["cx"] = c.regs["cx"] /\ o.ctx.regs["sp"] = c.regs["sp"] /\ o.ctx.regs["zero"] = 0
        /\ o.ctx.cc = c.cc
    BY <1>2, <1>3, <1>4, <1>5, <1>7, <2>1, GivesRegs
  <2>3. o.mem = m
    BY <2>1 DEF Gives
  <2>4. SpinAt(s, t, o.ctx, o.mem)
    BY <1>1, <1>2, <1>3, <1>6, <1>7, <1>8, <1>12, <2>2, <2>3 DEF SpinAt, Looping, Stacked
  <2>5. Turns(s, c, m, o)
    BY <1>1, <1>2, <1>7, <1>8, <1>12, <2>2, <2>3 DEF Turns, Holds
  <2>6. Counts(s.entry, 104, Loops, c, m, o, Rounds(s.after, c), Rounds(s.after, o.ctx))
    BY <1>1, <1>2, <1>3, <1>6, <1>7, <1>8, <1>12, <2>2, <2>3 DEF Counts, Rounds, Looping
  <2>7. \A u \in Threads \ {t} : \A d : Stacked(u, d, m) => Stacked(u, d, o.mem)
    BY <2>3
  <2> QED BY <1>1, <2>3, <2>4, <2>5, <2>6, <2>7 DEF SpinStep
<1>13. CASE c.pc = 1004
  <2>1. Gives(o, 1005, Put(c.regs, "ax", c.regs["ax"] + 1), c.cc, m)
    BY <1>2, <1>3, <1>4, <1>5, <1>7, <1>8, <1>13, CallCode, Arithmetic
  <2>2. /\ o.rc # HALT /\ IsContext(o.ctx) /\ o.ctx.pc = 1005
        /\ o.ctx.regs["ax"] = c.regs["ax"] + 1 /\ o.ctx.regs["bx"] = c.regs["bx"]
        /\ o.ctx.regs["cx"] = c.regs["cx"] /\ o.ctx.regs["sp"] = c.regs["sp"] /\ o.ctx.regs["zero"] = 0
        /\ o.ctx.cc = c.cc
    BY <1>2, <1>3, <1>4, <1>5, <1>7, <2>1, GivesRegs
  <2>3. o.mem = m
    BY <2>1 DEF Gives
  <2>4. SpinAt(s, t, o.ctx, o.mem)
    BY <1>1, <1>2, <1>3, <1>6, <1>7, <1>8, <1>13, <2>2, <2>3 DEF SpinAt, Looping, Stacked
  <2>5. Turns(s, c, m, o)
    BY <1>1, <1>2, <1>7, <1>8, <1>13, <2>2, <2>3 DEF Turns, Holds
  <2>6. Counts(s.entry, 104, Loops, c, m, o, Rounds(s.after, c), Rounds(s.after, o.ctx))
    BY <1>1, <1>2, <1>3, <1>6, <1>7, <1>8, <1>13, <2>2, <2>3 DEF Counts, Rounds, Looping
  <2>7. \A u \in Threads \ {t} : \A d : Stacked(u, d, m) => Stacked(u, d, o.mem)
    BY <2>3
  <2> QED BY <1>1, <2>3, <2>4, <2>5, <2>6, <2>7 DEF SpinStep
<1>14. CASE c.pc = 1005
  <2>1. Gives(o, 1006, c.regs, c.cc, Poke(m, 104, c.regs["ax"]))
    BY <1>2, <1>3, <1>4, <1>5, <1>7, <1>8, <1>14, CallCode, Moves
  <2>2. /\ o.rc # HALT /\ IsContext(o.ctx) /\ o.ctx.pc = 1006
        /\ o.ctx.regs["ax"] = c.regs["ax"] /\ o.ctx.regs["bx"] = c.regs["bx"]
        /\ o.ctx.regs["cx"] = c.regs["cx"] /\ o.ctx.regs["sp"] = c.regs["sp"] /\ o.ctx.regs["zero"] = 0
        /\ o.ctx.cc = c.cc
    BY <1>2, <2>1 DEF Gives
  <2>3. /\ IntMem(o.mem)
        /\ \A b : Peek(o.mem, b) = IF b = 104 THEN c.regs["ax"] ELSE Peek(m, b)
    BY <1>3, <1>4, <1>5, <1>7, <2>1, PeekPoke, IntPoke DEF Gives
  <2>4. SpinAt(s, t, o.ctx, o.mem)
    BY <1>1, <1>2, <1>3, <1>6, <1>7, <1>8, <1>14, <2>2, <2>3 DEF SpinAt, Looping, Stacked
  <2>5. Turns(s, c, m, o)
    BY <1>1, <1>2, <1>7, <1>8, <1>14, <2>2, <2>3 DEF Turns, Holds
  <2>6. Counts(s.entry, 104, Loops, c, m, o, Rounds(s.after, c), Rounds(s.after, o.ctx))
    BY <1>1, <1>2, <1>3, <1>6, <1>7, <1>8, <1>14, <2>2, <2>3 DEF Counts, Rounds, Looping
  <2>7. \A u \in Threads \ {t} : \A d : Stacked(u, d, m) => Stacked(u, d, o.mem)
    BY <1>7, <2>3 DEF Stacked, stack, Threads
  <2> QED BY <1>1, <2>3, <2>4, <2>5, <2>6, <2>7 DEF SpinStep
<1>15. CASE c.pc = 1006
  <2>1. Gives(o, 1007, Put(c.regs, "sp", S - 4), c.cc, Poke(m, S - 4, 100))
    BY <1>2, <1>3, <1>4, <1>5, <1>7, <1>8, <1>15, CallCode, Stack
  <2>2. /\ o.rc # HALT /\ IsContext(o.ctx) /\ o.ctx.pc = 1007
        /\ o.ctx.regs["ax"] = c.regs["ax"] /\ o.ctx.regs["bx"] = c.regs["bx"]
        /\ o.ctx.regs["cx"] = c.regs["cx"] /\ o.ctx.regs["sp"] = S - 4 /\ o.ctx.regs["zero"] = 0
        /\ o.ctx.cc = c.cc
    BY <1>2, <1>3, <1>4, <1>5, <1>7, <2>1, GivesRegs
  <2>3. /\ IntMem(o.mem)
        /\ \A b : Peek(o.mem, b) = IF b = S - 4 THEN 100 ELSE Peek(m, b)
    BY <1>3, <1>4, <1>5, <1>7, <2>1, PeekPoke, IntPoke DEF Gives
  <2>4. SpinAt(s, t, o.ctx, o.mem)
    BY <1>1, <1>2, <1>3, <1>6, <1>7, <1>8, <1>15, <2>2, <2>3 DEF SpinAt, Looping, Stacked
  <2>5. Turns(s, c, m, o)
    BY <1>1, <1>2, <1>7, <1>8, <1>15, <2>2, <2>3 DEF Turns, Holds
  <2>6. Counts(s.entry, 104, Loops, c, m, o, Rounds(s.after, c), Rounds(s.after, o.ctx))
    BY <1>1, <1>2, <1>3, <1>6, <1>7, <1>8, <1>15, <2>2, <2>3 DEF Counts, Rounds, Looping
  <2>7. \A u \in Threads \ {t} : \A d : Stacked(u, d, m) => Stacked(u, d, o.mem)
    BY <1>7, <2>3 DEF Stacked, stack, Threads
  <2> QED BY <1>1, <2>3, <2>4, <2>5, <2>6, <2>7 DEF SpinStep
<1>16. CASE c.pc = 1007
  <2>1. Gives(o, 1019, Put(c.regs, "sp", S - 8), c.cc, Poke(m, S - 8, 1008))
    BY <1>2, <1>3, <1>4, <1>5, <1>7, <1>8, <1>16, CallCode, Stack
  <2>2. /\ o.rc # HALT /\ IsContext(o.ctx) /\ o.ctx.pc = 1019
        /\ o.ctx.regs["ax"] = c.regs["ax"] /\ o.ctx.regs["bx"] = c.regs["bx"]
        /\ o.ctx.regs["cx"] = c.regs["cx"] /\ o.ctx.regs["sp"] = S - 8 /\ o.ctx.regs["zero"] = 0
        /\ o.ctx.cc = c.cc
    BY <1>2, <1>3, <1>4, <1>5, <1>7, <2>1, GivesRegs
  <2>3. /\ IntMem(o.mem)
        /\ \A b : Peek(o.mem, b) = IF b = S - 8 THEN 1008 ELSE Peek(m, b)
    BY <1>3, <1>4, <1>5, <1>7, <2>1, PeekPoke, IntPoke DEF Gives
  <2>4. SpinAt(s, t, o.ctx, o.mem)
    BY <1>1, <1>2, <1>3, <1>6, <1>7, <1>8, <1>16, <2>2, <2>3 DEF SpinAt, Looping, Stacked
  <2>5. Turns(s, c, m, o)
    BY <1>1, <1>2, <1>7, <1>8, <1>16, <2>2, <2>3 DEF Turns, Holds
  <2>6. Counts(s.entry, 104, Loops, c, m, o, Rounds(s.after, c), Rounds(s.after, o.ctx))
    BY <1>1, <1>2, <1>3, <1>6, <1>7, <1>8, <1>16, <2>2, <2>3 DEF Counts, Rounds, Looping
  <2>7. \A u \in Threads \ {t} : \A d : Stacked(u, d, m) => Stacked(u, d, o.mem)
    BY <1>7, <2>3 DEF Stacked, stack, Threads
  <2> QED BY <1>1, <2>3, <2>4, <2>5, <2>6, <2>7 DEF SpinStep
<1>17. CASE c.pc = 1008
  <2>1. Gives(o, 1009, Put(c.regs, "sp", S), c.cc, m)
    BY <1>2, <1>3, <1>4, <1>5, <1>7, <1>8, <1>17, CallCode, Stack
  <2>2. /\ o.rc # HALT /\ IsContext(o.ctx) /\ o.ctx.pc = 1009
        /\ o.ctx.regs["ax"] = c.regs["ax"] /\ o.ctx.regs["bx"] = c.regs["bx"]
        /\ o.ctx.regs["cx"] = c.regs["cx"] /\ o.ctx.regs["sp"] = S /\ o.ctx.regs["zero"] = 0
        /\ o.ctx.cc = c.cc
    BY <1>2, <1>3, <1>4, <1>5, <1>7, <2>1, GivesRegs
  <2>3. o.mem = m
    BY <2>1 DEF Gives
  <2>4. SpinAt(s, t, o.ctx, o.mem)
    BY <1>1, <1>2, <1>3, <1>6, <1>7, <1>8, <1>17, <2>2, <2>3 DEF SpinAt, Looping, Stacked
  <2>5. Turns(s, c, m, o)
    BY <1>1, <1>2, <1>7, <1>8, <1>17, <2>2, <2>3 DEF Turns, Holds
  <2>6. Counts(s.entry, 104, Loops, c, m, o, Rounds(s.after, c), Rounds(s.after, o.ctx))
    BY <1>1, <1>2, <1>3, <1>6, <1>7, <1>8, <1>17, <2>2, <2>3 DEF Counts, Rounds, Looping
  <2>7. \A u \in Threads \ {t} : \A d : Stacked(u, d, m) => Stacked(u, d, o.mem)
    BY <2>3
  <2> QED BY <1>1, <2>3, <2>4, <2>5, <2>6, <2>7 DEF SpinStep
<1>18. CASE c.pc = 1009
  <2>1. Gives(o, 1010, Put(c.regs, "bx", c.regs["bx"] - 1), c.cc, m)
    BY <1>2, <1>3, <1>4, <1>5, <1>7, <1>8, <1>18, CallCode, Arithmetic
  <2>2. /\ o.rc # HALT /\ IsContext(o.ctx) /\ o.ctx.pc = 1010
        /\ o.ctx.regs["ax"] = c.regs["ax"] /\ o.ctx.regs["bx"] = c.regs["bx"] - 1
        /\ o.ctx.regs["cx"] = c.regs["cx"] /\ o.ctx.regs["sp"] = c.regs["sp"] /\ o.ctx.regs["zero"] = 0
        /\ o.ctx.cc = c.cc
    BY <1>2, <1>3, <1>4, <1>5, <1>7, <2>1, GivesRegs
  <2>3. o.mem = m
    BY <2>1 DEF Gives
  <2>4. SpinAt(s, t, o.ctx, o.mem)
    BY <1>1, <1>2, <1>3, <1>6, <1>7, <1>8, <1>18, <2>2, <2>3 DEF SpinAt, Looping, Stacked
  <2>5. Turns(s, c, m, o)
    BY <1>1, <1>2, <1>7, <1>8, <1>18, <2>2, <2>3 DEF Turns, Holds
  <2>6. Counts(s.entry, 104, Loops, c, m, o, Rounds(s.after, c), Rounds(s.after, o.ctx))
    BY <1>1, <1>2, <1>3, <1>6, <1>7, <1>8, <1>18, <2>2, <2>3 DEF Counts, Rounds, Looping
  <2>7. \A u \in Threads \ {t} : \A d : Stacked(u, d, m) => Stacked(u, d, o.mem)
    BY <2>3
  <2> QED BY <1>1, <2>3, <2>4, <2>5, <2>6, <2>7 DEF SpinStep
<1>19. CASE c.pc = 1010
  <2>1. Gives(o, 1011, c.regs, Compare(0, c.regs["bx"]), m)
    BY <1>2, <1>3, <1>4, <1>5, <1>7, <1>8, <1>19, CallCode, Branches
  <2>2. /\ o.rc # HALT /\ IsContext(o.ctx) /\ o.ctx.pc = 1011
        /\ o.ctx.regs["ax"] = c.regs["ax"] /\ o.ctx.regs["bx"] = c.regs["bx"]
        /\ o.ctx.regs["cx"] = c.regs["cx"] /\ o.ctx.regs["sp"] = c.regs["sp"] /\ o.ctx.regs["zero"] = 0
        /\ (o.ctx.cc["gt"] <=> c.regs["bx"] > 0) /\ (o.ctx.cc["eq"] <=> c.regs["bx"] = 0) /\ (o.ctx.cc["neq"] <=> c.regs["bx"] # 0)
    BY <1>2, <2>1, Compared DEF Gives
  <2>3. o.mem = m
    BY <2>1 DEF Gives
  <2>4. SpinAt(s, t, o.ctx, o.mem)
    BY <1>1, <1>2, <1>3, <1>6, <1>7, <1>8, <1>19, <2>2, <2>3 DEF SpinAt, Looping, Stacked
  <2>5. Turns(s, c, m, o)
    BY <1>1, <1>2, <1>7, <1>8, <1>19, <2>2, <2>3 DEF Turns, Holds
  <2>6. Counts(s.entry, 104, Loops, c, m, o, Rounds(s.after, c), Rounds(s.after, o.ctx))
    BY <1>1, <1>2, <1>3, <1>6, <1>7, <1>8, <1>19, <2>2, <2>3 DEF Counts, Rounds, Looping
  <2>7. \A u \in Threads \ {t} : \A d : Stacked(u, d, m) => Stacked(u, d, o.mem)
    BY <2>3
  <2> QED BY <1>1, <2>3, <2>4, <2>5, <2>6, <2>7 DEF SpinStep
<1>20. CASE c.pc = 1011
  <2>1. Gives(o, IF c.cc["gt"] THEN 1000 ELSE 1012, c.regs, c.cc, m)
    BY <1>2, <1>3, <1>4, <1>5, <1>7, <1>8, <1>20, CallCode, Branches
  <2>2. /\ o.rc # HALT /\ IsContext(o.ctx) /\ o.ctx.pc = (IF c.cc["gt"] THEN 1000 ELSE 1012)
        /\ o.ctx.regs["ax"] = c.regs["ax"] /\ o.ctx.regs["bx"] = c.regs["bx"]
        /\ o.ctx.regs["cx"] = c.regs["cx"] /\ o.ctx.regs["sp"] = c.regs["sp"] /\ o.ctx.regs["zero"] = 0
        /\ o.ctx.cc = c.cc
    BY <1>2, <2>1 DEF Gives
  <2>3. o.mem = m
    BY <2>1 DEF Gives
  <2>4. SpinAt(s, t, o.ctx, o.mem)
    BY <1>1, <1>2, <1>3, <1>6, <1>7, <1>8, <1>20, <2>2, <2>3 DEF SpinAt, Looping, Stacked
  <2>5. Turns(s, c, m, o)
    BY <1>1, <1>2, <1>7, <1>8, <1>20, <2>2, <2>3 DEF Turns, Holds
  <2>6. Counts(s.entry, 104, Loops, c, m, o, Rounds(s.after, c), Rounds(s.after, o.ctx))
    BY <1>1, <1>2, <1>3, <1>6, <1>7, <1>8, <1>20, <2>2, <2>3 DEF Counts, Rounds, Looping
  <2>7. \A u \in Threads \ {t} : \A d : Stacked(u, d, m) => Stacked(u, d, o.mem)
    BY <2>3
  <2> QED BY <1>1, <2>3, <2>4, <2>5, <2>6, <2>7 DEF SpinStep
<1>21. CASE c.pc = 1012
  <2>1. o.rc = HALT /\ o.mem = m
    BY <1>2, <1>21, CallCode, Switches
  <2>2. Turns(s, c, m, o)
    BY <1>1, <1>2, <1>21, <2>1 DEF Turns, Holds
  <2>3. Counts(s.entry, 104, Loops, c, m, o, Rounds(s.after, c), Rounds(s.after, o.ctx))
    BY <1>1, <1>2, <1>6, <1>21, <2>1 DEF Counts, Rounds, Looping
  <2> QED BY <2>1, <2>2, <2>3 DEF SpinStep
<1>22. CASE c.pc = 1013
  <2>1. Gives(o, 1014, Put(c.regs, "ax", 0), c.cc, m)
    <3>1. PICK n, k, a : /\ n = -4 /\ k = 1 /\ a = S - 12 /\ n \in Int /\ k \in Int /\ a \in Int
                       /\ a = n + c.regs["sp"] + k * c.regs["zero"]
      BY <1>2, <1>3, <1>4, <1>5, <1>7, <1>8, <1>22
    <3>2. /\ Given(c, m) /\ n \in Int /\ k \in Int /\ a \in Int
          /\ "sp" \in Registers /\ "zero" \in Registers /\ "ax" \in Registers
          /\ a = Via(n, "sp", "zero", k, c)
      BY <1>2, <1>4, <3>1 DEF Via
    <3>3. Gives(Execute(mov(Mem(n, "sp", "zero", k), Reg("ax")), c, m), c.pc + 1, Put(c.regs, "ax", Peek(m, a)), c.cc, m)
      BY <3>2, MovesVia
    <3>4. o = Execute(mov(Mem(n, "sp", "zero", k), Reg("ax")), c, m) /\ c.pc + 1 = 1014 /\ Peek(m, a) = 0
      BY <1>2, <1>3, <1>4, <1>5, <1>7, <1>8, <1>22, <3>1, CallCode
    <3>5. Gives(o, 1014, Put(c.regs, "ax", Peek(m, a)), c.cc, m)
      BY <3>3, <3>4, ZenonT(30)
    <3> QED BY <3>4, <3>5, ZenonT(30)
  <2>2. /\ o.rc # HALT /\ IsContext(o.ctx) /\ o.ctx.pc = 1014
        /\ o.ctx.regs["ax"] = 0 /\ o.ctx.regs["bx"] = c.regs["bx"]
        /\ o.ctx.regs["cx"] = c.regs["cx"] /\ o.ctx.regs["sp"] = c.regs["sp"] /\ o.ctx.regs["zero"] = 0
        /\ o.ctx.cc = c.cc
    BY <1>2, <1>3, <1>4, <1>5, <1>7, <2>1, GivesRegs
  <2>3. o.mem = m
    BY <2>1 DEF Gives
  <2>4. SpinAt(s, t, o.ctx, o.mem)
    BY <1>1, <1>2, <1>3, <1>6, <1>7, <1>8, <1>22, <2>2, <2>3 DEF SpinAt, Looping, Stacked
  <2>5. Turns(s, c, m, o)
    BY <1>1, <1>2, <1>7, <1>8, <1>22, <2>2, <2>3 DEF Turns, Holds
  <2>6. Counts(s.entry, 104, Loops, c, m, o, Rounds(s.after, c), Rounds(s.after, o.ctx))
    BY <1>1, <1>2, <1>3, <1>6, <1>7, <1>8, <1>22, <2>2, <2>3 DEF Counts, Rounds, Looping
  <2>7. \A u \in Threads \ {t} : \A d : Stacked(u, d, m) => Stacked(u, d, o.mem)
    BY <2>3
  <2> QED BY <1>1, <2>3, <2>4, <2>5, <2>6, <2>7 DEF SpinStep
<1>23. CASE c.pc = 1014
  <2>1. Gives(o, 1015, Put(c.regs, "cx", 1), c.cc, m)
    BY <1>2, <1>3, <1>4, <1>5, <1>7, <1>8, <1>23, CallCode, Moves
  <2>2. /\ o.rc # HALT /\ IsContext(o.ctx) /\ o.ctx.pc = 1015
        /\ o.ctx.regs["ax"] = c.regs["ax"] /\ o.ctx.regs["bx"] = c.regs["bx"]
        /\ o.ctx.regs["cx"] = 1 /\ o.ctx.regs["sp"] = c.regs["sp"] /\ o.ctx.regs["zero"] = 0
        /\ o.ctx.cc = c.cc
    BY <1>2, <1>3, <1>4, <1>5, <1>7, <2>1, GivesRegs
  <2>3. o.mem = m
    BY <2>1 DEF Gives
  <2>4. SpinAt(s, t, o.ctx, o.mem)
    BY <1>1, <1>2, <1>3, <1>6, <1>7, <1>8, <1>23, <2>2, <2>3 DEF SpinAt, Looping, Stacked
  <2>5. Turns(s, c, m, o)
    BY <1>1, <1>2, <1>7, <1>8, <1>23, <2>2, <2>3 DEF Turns, Holds
  <2>6. Counts(s.entry, 104, Loops, c, m, o, Rounds(s.after, c), Rounds(s.after, o.ctx))
    BY <1>1, <1>2, <1>3, <1>6, <1>7, <1>8, <1>23, <2>2, <2>3 DEF Counts, Rounds, Looping
  <2>7. \A u \in Threads \ {t} : \A d : Stacked(u, d, m) => Stacked(u, d, o.mem)
    BY <2>3
  <2> QED BY <1>1, <2>3, <2>4, <2>5, <2>6, <2>7 DEF SpinStep
<1>24. CASE c.pc = 1015
  <2>1. Gives(o, 1016, Put(c.regs, "cx", Peek(m, 0)), c.cc, Poke(m, 0, 1))
    BY <1>2, <1>3, <1>4, <1>5, <1>7, <1>8, <1>24, CallCode, Atomics
  <2>2. /\ o.rc # HALT /\ IsContext(o.ctx) /\ o.ctx.pc = 1016
        /\ o.ctx.regs["ax"] = c.regs["ax"] /\ o.ctx.regs["bx"] = c.regs["bx"]
        /\ o.ctx.regs["cx"] = Peek(m, 0) /\ o.ctx.regs["sp"] = c.regs["sp"] /\ o.ctx.regs["zero"] = 0
        /\ o.ctx.cc = c.cc
    BY <1>2, <1>3, <1>4, <1>5, <1>7, <2>1, GivesRegs
  <2>3. /\ IntMem(o.mem)
        /\ \A b : Peek(o.mem, b) = IF b = 0 THEN 1 ELSE Peek(m, b)
    BY <1>3, <1>4, <1>5, <1>7, <2>1, PeekPoke, IntPoke DEF Gives
  <2>4. SpinAt(s, t, o.ctx, o.mem)
    BY <1>1, <1>2, <1>3, <1>6, <1>7, <1>8, <1>24, <2>2, <2>3 DEF SpinAt, Looping, Stacked
  <2>5. Turns(s, c, m, o)
    BY <1>1, <1>2, <1>7, <1>8, <1>24, <2>2, <2>3 DEF Turns, Holds
  <2>6. Counts(s.entry, 104, Loops, c, m, o, Rounds(s.after, c), Rounds(s.after, o.ctx))
    BY <1>1, <1>2, <1>3, <1>6, <1>7, <1>8, <1>24, <2>2, <2>3 DEF Counts, Rounds, Looping
  <2>7. \A u \in Threads \ {t} : \A d : Stacked(u, d, m) => Stacked(u, d, o.mem)
    BY <1>7, <2>3 DEF Stacked, stack, Threads
  <2> QED BY <1>1, <2>3, <2>4, <2>5, <2>6, <2>7 DEF SpinStep
<1>25. CASE c.pc = 1016
  <2>1. Gives(o, 1017, c.regs, Compare(0, c.regs["cx"]), m)
    BY <1>2, <1>3, <1>4, <1>5, <1>7, <1>8, <1>25, CallCode, Branches
  <2>2. /\ o.rc # HALT /\ IsContext(o.ctx) /\ o.ctx.pc = 1017
        /\ o.ctx.regs["ax"] = c.regs["ax"] /\ o.ctx.regs["bx"] = c.regs["bx"]
        /\ o.ctx.regs["cx"] = c.regs["cx"] /\ o.ctx.regs["sp"] = c.regs["sp"] /\ o.ctx.regs["zero"] = 0
        /\ (o.ctx.cc["gt"] <=> c.regs["cx"] > 0) /\ (o.ctx.cc["eq"] <=> c.regs["cx"] = 0) /\ (o.ctx.cc["neq"] <=> c.regs["cx"] # 0)
    BY <1>2, <2>1, Compared DEF Gives
  <2>3. o.mem = m
    BY <2>1 DEF Gives
  <2>4. SpinAt(s, t, o.ctx, o.mem)
    BY <1>1, <1>2, <1>3, <1>6, <1>7, <1>8, <1>25, <2>2, <2>3 DEF SpinAt, Looping, Stacked
  <2>5. Turns(s, c, m, o)
    BY <1>1, <1>2, <1>7, <1>8, <1>25, <2>2, <2>3 DEF Turns, Holds
  <2>6. Counts(s.entry, 104, Loops, c, m, o, Rounds(s.after, c), Rounds(s.after, o.ctx))
    BY <1>1, <1>2, <1>3, <1>6, <1>7, <1>8, <1>25, <2>2, <2>3 DEF Counts, Rounds, Looping
  <2>7. \A u \in Threads \ {t} : \A d : Stacked(u, d, m) => Stacked(u, d, o.mem)
    BY <2>3
  <2> QED BY <1>1, <2>3, <2>4, <2>5, <2>6, <2>7 DEF SpinStep
<1>26. CASE c.pc = 1017
  <2>1. Gives(o, IF c.cc["neq"] THEN 1013 ELSE 1018, c.regs, c.cc, m)
    BY <1>2, <1>3, <1>4, <1>5, <1>7, <1>8, <1>26, CallCode, Branches
  <2>2. /\ o.rc # HALT /\ IsContext(o.ctx) /\ o.ctx.pc = (IF c.cc["neq"] THEN 1013 ELSE 1018)
        /\ o.ctx.regs["ax"] = c.regs["ax"] /\ o.ctx.regs["bx"] = c.regs["bx"]
        /\ o.ctx.regs["cx"] = c.regs["cx"] /\ o.ctx.regs["sp"] = c.regs["sp"] /\ o.ctx.regs["zero"] = 0
        /\ o.ctx.cc = c.cc
    BY <1>2, <2>1 DEF Gives
  <2>3. o.mem = m
    BY <2>1 DEF Gives
  <2>4. SpinAt(s, t, o.ctx, o.mem)
    BY <1>1, <1>2, <1>3, <1>6, <1>7, <1>8, <1>26, <2>2, <2>3 DEF SpinAt, Looping, Stacked
  <2>5. Turns(s, c, m, o)
    BY <1>1, <1>2, <1>7, <1>8, <1>26, <2>2, <2>3 DEF Turns, Holds
  <2>6. Counts(s.entry, 104, Loops, c, m, o, Rounds(s.after, c), Rounds(s.after, o.ctx))
    BY <1>1, <1>2, <1>3, <1>6, <1>7, <1>8, <1>26, <2>2, <2>3 DEF Counts, Rounds, Looping
  <2>7. \A u \in Threads \ {t} : \A d : Stacked(u, d, m) => Stacked(u, d, o.mem)
    BY <2>3
  <2> QED BY <1>1, <2>3, <2>4, <2>5, <2>6, <2>7 DEF SpinStep
<1>27. CASE c.pc = 1018
  <2>1. Gives(o, 1002, Put(c.regs, "sp", S - 4), c.cc, m)
    BY <1>2, <1>3, <1>4, <1>5, <1>7, <1>8, <1>27, CallCode, Stack
  <2>2. /\ o.rc # HALT /\ IsContext(o.ctx) /\ o.ctx.pc = 1002
        /\ o.ctx.regs["ax"] = c.regs["ax"] /\ o.ctx.regs["bx"] = c.regs["bx"]
        /\ o.ctx.regs["cx"] = c.regs["cx"] /\ o.ctx.regs["sp"] = S - 4 /\ o.ctx.regs["zero"] = 0
        /\ o.ctx.cc = c.cc
    BY <1>2, <1>3, <1>4, <1>5, <1>7, <2>1, GivesRegs
  <2>3. o.mem = m
    BY <2>1 DEF Gives
  <2>4. SpinAt(s, t, o.ctx, o.mem)
    BY <1>1, <1>2, <1>3, <1>6, <1>7, <1>8, <1>27, <2>2, <2>3 DEF SpinAt, Looping, Stacked
  <2>5. Turns(s, c, m, o)
    BY <1>1, <1>2, <1>7, <1>8, <1>27, <2>2, <2>3 DEF Turns, Holds
  <2>6. Counts(s.entry, 104, Loops, c, m, o, Rounds(s.after, c), Rounds(s.after, o.ctx))
    BY <1>1, <1>2, <1>3, <1>6, <1>7, <1>8, <1>27, <2>2, <2>3 DEF Counts, Rounds, Looping
  <2>7. \A u \in Threads \ {t} : \A d : Stacked(u, d, m) => Stacked(u, d, o.mem)
    BY <2>3
  <2> QED BY <1>1, <2>3, <2>4, <2>5, <2>6, <2>7 DEF SpinStep
<1>28. CASE c.pc = 1019
  <2>1. Gives(o, 1020, Put(c.regs, "ax", 0), c.cc, m)
    <3>1. PICK n, k, a : /\ n = -4 /\ k = 1 /\ a = S - 12 /\ n \in Int /\ k \in Int /\ a \in Int
                       /\ a = n + c.regs["sp"] + k * c.regs["zero"]
      BY <1>2, <1>3, <1>4, <1>5, <1>7, <1>8, <1>28
    <3>2. /\ Given(c, m) /\ n \in Int /\ k \in Int /\ a \in Int
          /\ "sp" \in Registers /\ "zero" \in Registers /\ "ax" \in Registers
          /\ a = Via(n, "sp", "zero", k, c)
      BY <1>2, <1>4, <3>1 DEF Via
    <3>3. Gives(Execute(mov(Mem(n, "sp", "zero", k), Reg("ax")), c, m), c.pc + 1, Put(c.regs, "ax", Peek(m, a)), c.cc, m)
      BY <3>2, MovesVia
    <3>4. o = Execute(mov(Mem(n, "sp", "zero", k), Reg("ax")), c, m) /\ c.pc + 1 = 1020 /\ Peek(m, a) = 0
      BY <1>2, <1>3, <1>4, <1>5, <1>7, <1>8, <1>28, <3>1, CallCode
    <3>5. Gives(o, 1020, Put(c.regs, "ax", Peek(m, a)), c.cc, m)
      BY <3>3, <3>4, ZenonT(30)
    <3> QED BY <3>4, <3>5, ZenonT(30)
  <2>2. /\ o.rc # HALT /\ IsContext(o.ctx) /\ o.ctx.pc = 1020
        /\ o.ctx.regs["ax"] = 0 /\ o.ctx.regs["bx"] = c.regs["bx"]
        /\ o.ctx.regs["cx"] = c.regs["cx"] /\ o.ctx.regs["sp"] = c.regs["sp"] /\ o.ctx.regs["zero"] = 0
        /\ o.ctx.cc = c.cc
    BY <1>2, <1>3, <1>4, <1>5, <1>7, <2>1, GivesRegs
  <2>3. o.mem = m
    BY <2>1 DEF Gives
  <2>4. SpinAt(s, t, o.ctx, o.mem)
    BY <1>1, <1>2, <1>3, <1>6, <1>7, <1>8, <1>28, <2>2, <2>3 DEF SpinAt, Looping, Stacked
  <2>5. Turns(s, c, m, o)
    BY <1>1, <1>2, <1>7, <1>8, <1>28, <2>2, <2>3 DEF Turns, Holds
  <2>6. Counts(s.entry, 104, Loops, c, m, o, Rounds(s.after, c), Rounds(s.after, o.ctx))
    BY <1>1, <1>2, <1>3, <1>6, <1>7, <1>8, <1>28, <2>2, <2>3 DEF Counts, Rounds, Looping
  <2>7. \A u \in Threads \ {t} : \A d : Stacked(u, d, m) => Stacked(u, d, o.mem)
    BY <2>3
  <2> QED BY <1>1, <2>3, <2>4, <2>5, <2>6, <2>7 DEF SpinStep
<1>29. CASE c.pc = 1020
  <2>1. Gives(o, 1021, c.regs, c.cc, Poke(m, 0, 0))
    <3>1. PICK n, k, a, v : /\ n = 0 /\ k = 1 /\ a = 0 /\ n \in Int /\ k \in Int /\ a \in Int
                       /\ a = n + c.regs["ax"] + k * c.regs["zero"] /\ v = 0 /\ v \in Int
      BY <1>2, <1>3, <1>4, <1>5, <1>7, <1>8, <1>29
    <3>2. /\ Given(c, m) /\ n \in Int /\ k \in Int /\ a \in Int /\ v \in Int
          /\ "ax" \in Registers /\ "zero" \in Registers
          /\ a = Via(n, "ax", "zero", k, c)
      BY <1>2, <1>4, <3>1 DEF Via
    <3>3. Gives(Execute(mov(Imm(v), Mem(n, "ax", "zero", k)), c, m), c.pc + 1, c.regs, c.cc, Poke(m, a, v))
      BY <3>2, MovesVia
    <3>4. o = Execute(mov(Imm(v), Mem(n, "ax", "zero", k)), c, m) /\ c.pc + 1 = 1021 /\ a = 0 /\ v = 0
      BY <1>2, <1>3, <1>4, <1>5, <1>7, <1>8, <1>29, <3>1, CallCode
    <3> QED BY <3>3, <3>4, Zenon
  <2>2. /\ o.rc # HALT /\ IsContext(o.ctx) /\ o.ctx.pc = 1021
        /\ o.ctx.regs["ax"] = c.regs["ax"] /\ o.ctx.regs["bx"] = c.regs["bx"]
        /\ o.ctx.regs["cx"] = c.regs["cx"] /\ o.ctx.regs["sp"] = c.regs["sp"] /\ o.ctx.regs["zero"] = 0
        /\ o.ctx.cc = c.cc
    BY <1>2, <2>1 DEF Gives
  <2>3. /\ IntMem(o.mem)
        /\ \A b : Peek(o.mem, b) = IF b = 0 THEN 0 ELSE Peek(m, b)
    BY <1>3, <1>4, <1>5, <1>7, <2>1, PeekPoke, IntPoke DEF Gives
  <2>4. SpinAt(s, t, o.ctx, o.mem)
    BY <1>1, <1>2, <1>3, <1>6, <1>7, <1>8, <1>29, <2>2, <2>3 DEF SpinAt, Looping, Stacked
  <2>5. Turns(s, c, m, o)
    BY <1>1, <1>2, <1>7, <1>8, <1>29, <2>2, <2>3 DEF Turns, Holds
  <2>6. Counts(s.entry, 104, Loops, c, m, o, Rounds(s.after, c), Rounds(s.after, o.ctx))
    BY <1>1, <1>2, <1>3, <1>6, <1>7, <1>8, <1>29, <2>2, <2>3 DEF Counts, Rounds, Looping
  <2>7. \A u \in Threads \ {t} : \A d : Stacked(u, d, m) => Stacked(u, d, o.mem)
    BY <1>7, <2>3 DEF Stacked, stack, Threads
  <2> QED BY <1>1, <2>3, <2>4, <2>5, <2>6, <2>7 DEF SpinStep
<1>30. CASE c.pc = 1021
  <2>1. Gives(o, 1008, Put(c.regs, "sp", S - 4), c.cc, m)
    BY <1>2, <1>3, <1>4, <1>5, <1>7, <1>8, <1>30, CallCode, Stack
  <2>2. /\ o.rc # HALT /\ IsContext(o.ctx) /\ o.ctx.pc = 1008
        /\ o.ctx.regs["ax"] = c.regs["ax"] /\ o.ctx.regs["bx"] = c.regs["bx"]
        /\ o.ctx.regs["cx"] = c.regs["cx"] /\ o.ctx.regs["sp"] = S - 4 /\ o.ctx.regs["zero"] = 0
        /\ o.ctx.cc = c.cc
    BY <1>2, <1>3, <1>4, <1>5, <1>7, <2>1, GivesRegs
  <2>3. o.mem = m
    BY <2>1 DEF Gives
  <2>4. SpinAt(s, t, o.ctx, o.mem)
    BY <1>1, <1>2, <1>3, <1>6, <1>7, <1>8, <1>30, <2>2, <2>3 DEF SpinAt, Looping, Stacked
  <2>5. Turns(s, c, m, o)
    BY <1>1, <1>2, <1>7, <1>8, <1>30, <2>2, <2>3 DEF Turns, Holds
  <2>6. Counts(s.entry, 104, Loops, c, m, o, Rounds(s.after, c), Rounds(s.after, o.ctx))
    BY <1>1, <1>2, <1>3, <1>6, <1>7, <1>8, <1>30, <2>2, <2>3 DEF Counts, Rounds, Looping
  <2>7. \A u \in Threads \ {t} : \A d : Stacked(u, d, m) => Stacked(u, d, o.mem)
    BY <2>3
  <2> QED BY <1>1, <2>3, <2>4, <2>5, <2>6, <2>7 DEF SpinStep
<1> QED BY <1>2, <1>9, <1>10, <1>11, <1>12, <1>13, <1>14, <1>15, <1>16, <1>17, <1>18, <1>19, <1>20, <1>21, <1>22, <1>23, <1>24, <1>25, <1>26, <1>27, <1>28, <1>29, <1>30

\* Each instruction of ticket.s is such a step.
LEMMA TicketSteps ==
    ASSUME NEW c, NEW m, IntMem(m), TicketAt(c, m),
           NEW o, o = Execute(Code["ticket"][c.pc], c, m)
    PROVE  TicketStep(c, m, o)
<1>1. /\ Given(c, m) /\ IsContext(c) /\ c.pc \in 1000 .. 1013
      /\ Looping(1010, c) /\ c.regs["zero"] = 0
      /\ Peek(m, 104) <= Peek(m, 100)
      /\ c.pc \in {1001, 1009} => c.regs["ax"] = 1
      /\ Active(c) => Peek(m, 104) <= Number(c, m) /\ Number(c, m) < Peek(m, 100)
      /\ c.pc = 1003 => c.regs["cx"] <= Peek(m, 104)
      /\ c.pc = 1004 => c.cc["neq"] \/ c.regs["ax"] = Peek(m, 104)
  BY DEF TicketAt, Given
<1>2. c.regs \in [Registers -> Int] /\ \A r \in Registers : c.regs[r] \in Int
  BY <1>1 DEF IsContext
<1>3. /\ "zero" \in Registers /\ "ax" \in Registers /\ "bx" \in Registers /\ "cx" \in Registers
      /\ "gt" \in Conditions /\ "eq" \in Conditions /\ "neq" \in Conditions
  BY DEF Registers, Conditions
<1>4. \A a \in Int : Peek(m, a) \in Int
  BY DEF IntMem
<1>5. Loops \in Nat \ {0}
  BY X86Assumption
<1>6. CASE c.pc = 1000
  <2>1. Gives(o, 1001, Put(c.regs, "ax", 1), c.cc, m)
    BY <1>1, <1>2, <1>3, <1>4, <1>6, TicketCode, Moves
  <2>2. /\ o.rc # HALT /\ IsContext(o.ctx) /\ o.ctx.pc = 1001
        /\ o.ctx.regs["ax"] = 1 /\ o.ctx.regs["bx"] = c.regs["bx"]
        /\ o.ctx.regs["cx"] = c.regs["cx"] /\ o.ctx.regs["zero"] = 0
        /\ o.ctx.cc = c.cc
    BY <1>1, <1>2, <1>3, <1>4, <2>1, GivesRegs
  <2>3. o.mem = m
    BY <2>1 DEF Gives
  <2>4. TicketAt(o.ctx, o.mem)
    BY <1>1, <1>2, <1>3, <1>4, <1>5, <1>6, <2>2, <2>3 DEF TicketAt, Looping, Active, Number
  <2>5. Draws(c, m, o)
    BY <1>1, <1>2, <1>3, <1>4, <1>6, <2>2, <2>3 DEF Draws, Active, Number
  <2>6. Counts(1005, 108, Loops, c, m, o, Rounds(1008 .. 1010, c), Rounds(1008 .. 1010, o.ctx))
    BY <1>1, <1>2, <1>5, <1>6, <2>2, <2>3 DEF Counts, Rounds, Looping
  <2> QED BY <2>3, <2>4, <2>5, <2>6 DEF TicketStep
<1>7. CASE c.pc = 1001
  <2>1. Gives(o, 1002, Put(c.regs, "ax", Peek(m, 100)), c.cc, Poke(m, 100, Peek(m, 100) + c.regs["ax"]))
    BY <1>1, <1>2, <1>3, <1>4, <1>7, TicketCode, AtomicsAt
  <2>2. /\ o.rc # HALT /\ IsContext(o.ctx) /\ o.ctx.pc = 1002
        /\ o.ctx.regs["ax"] = Peek(m, 100) /\ o.ctx.regs["bx"] = c.regs["bx"]
        /\ o.ctx.regs["cx"] = c.regs["cx"] /\ o.ctx.regs["zero"] = 0
        /\ o.ctx.cc = c.cc
    BY <1>1, <1>2, <1>3, <1>4, <2>1, GivesRegs
  <2>3. /\ IntMem(o.mem)
        /\ \A b : Peek(o.mem, b) = IF b = 100 THEN Peek(m, 100) + c.regs["ax"] ELSE Peek(m, b)
    BY <1>1, <1>2, <1>3, <1>4, <2>1, PeekPoke, IntPoke DEF Gives
  <2>4. TicketAt(o.ctx, o.mem)
    BY <1>1, <1>2, <1>3, <1>4, <1>5, <1>7, <2>2, <2>3 DEF TicketAt, Looping, Active, Number
  <2>5. Draws(c, m, o)
    BY <1>1, <1>2, <1>3, <1>4, <1>7, <2>2, <2>3 DEF Draws, Active, Number
  <2>6. Counts(1005, 108, Loops, c, m, o, Rounds(1008 .. 1010, c), Rounds(1008 .. 1010, o.ctx))
    BY <1>1, <1>2, <1>5, <1>7, <2>2, <2>3 DEF Counts, Rounds, Looping
  <2> QED BY <2>3, <2>4, <2>5, <2>6 DEF TicketStep
<1>8. CASE c.pc = 1002
  <2>1. Gives(o, 1003, Put(c.regs, "cx", Peek(m, 104)), c.cc, m)
    BY <1>1, <1>2, <1>3, <1>4, <1>8, TicketCode, Moves
  <2>2. /\ o.rc # HALT /\ IsContext(o.ctx) /\ o.ctx.pc = 1003
        /\ o.ctx.regs["ax"] = c.regs["ax"] /\ o.ctx.regs["bx"] = c.regs["bx"]
        /\ o.ctx.regs["cx"] = Peek(m, 104) /\ o.ctx.regs["zero"] = 0
        /\ o.ctx.cc = c.cc
    BY <1>1, <1>2, <1>3, <1>4, <2>1, GivesRegs
  <2>3. o.mem = m
    BY <2>1 DEF Gives
  <2>4. TicketAt(o.ctx, o.mem)
    BY <1>1, <1>2, <1>3, <1>4, <1>5, <1>8, <2>2, <2>3 DEF TicketAt, Looping, Active, Number
  <2>5. Draws(c, m, o)
    BY <1>1, <1>2, <1>3, <1>4, <1>8, <2>2, <2>3 DEF Draws, Active, Number
  <2>6. Counts(1005, 108, Loops, c, m, o, Rounds(1008 .. 1010, c), Rounds(1008 .. 1010, o.ctx))
    BY <1>1, <1>2, <1>5, <1>8, <2>2, <2>3 DEF Counts, Rounds, Looping
  <2> QED BY <2>3, <2>4, <2>5, <2>6 DEF TicketStep
<1>9. CASE c.pc = 1003
  <2>1. Gives(o, 1004, c.regs, Compare(c.regs["cx"], c.regs["ax"]), m)
    BY <1>1, <1>2, <1>3, <1>4, <1>9, TicketCode, Branches
  <2>2. /\ o.rc # HALT /\ IsContext(o.ctx) /\ o.ctx.pc = 1004
        /\ o.ctx.regs["ax"] = c.regs["ax"] /\ o.ctx.regs["bx"] = c.regs["bx"]
        /\ o.ctx.regs["cx"] = c.regs["cx"] /\ o.ctx.regs["zero"] = 0
        /\ (o.ctx.cc["gt"] <=> c.regs["ax"] > c.regs["cx"]) /\ (o.ctx.cc["eq"] <=> c.regs["ax"] = c.regs["cx"]) /\ (o.ctx.cc["neq"] <=> c.regs["ax"] # c.regs["cx"])
    BY <1>1, <2>1, Compared DEF Gives
  <2>3. o.mem = m
    BY <2>1 DEF Gives
  <2>4. TicketAt(o.ctx, o.mem)
    BY <1>1, <1>2, <1>3, <1>4, <1>5, <1>9, <2>2, <2>3 DEF TicketAt, Looping, Active, Number
  <2>5. Draws(c, m, o)
    BY <1>1, <1>2, <1>3, <1>4, <1>9, <2>2, <2>3 DEF Draws, Active, Number
  <2>6. Counts(1005, 108, Loops, c, m, o, Rounds(1008 .. 1010, c), Rounds(1008 .. 1010, o.ctx))
    BY <1>1, <1>2, <1>5, <1>9, <2>2, <2>3 DEF Counts, Rounds, Looping
  <2> QED BY <2>3, <2>4, <2>5, <2>6 DEF TicketStep
<1>10. CASE c.pc = 1004
  <2>1. Gives(o, IF c.cc["neq"] THEN 1002 ELSE 1005, c.regs, c.cc, m)
    BY <1>1, <1>2, <1>3, <1>4, <1>10, TicketCode, Branches
  <2>2. /\ o.rc # HALT /\ IsContext(o.ctx) /\ o.ctx.pc = (IF c.cc["neq"] THEN 1002 ELSE 1005)
        /\ o.ctx.regs["ax"] = c.regs["ax"] /\ o.ctx.regs["bx"] = c.regs["bx"]
        /\ o.ctx.regs["cx"] = c.regs["cx"] /\ o.ctx.regs["zero"] = 0
        /\ o.ctx.cc = c.cc
    BY <1>1, <2>1 DEF Gives
  <2>3. o.mem = m
    BY <2>1 DEF Gives
  <2>4. TicketAt(o.ctx, o.mem)
    BY <1>1, <1>2, <1>3, <1>4, <1>5, <1>10, <2>2, <2>3 DEF TicketAt, Looping, Active, Number
  <2>5. Draws(c, m, o)
    BY <1>1, <1>2, <1>3, <1>4, <1>10, <2>2, <2>3 DEF Draws, Active, Number
  <2>6. Counts(1005, 108, Loops, c, m, o, Rounds(1008 .. 1010, c), Rounds(1008 .. 1010, o.ctx))
    BY <1>1, <1>2, <1>5, <1>10, <2>2, <2>3 DEF Counts, Rounds, Looping
  <2> QED BY <2>3, <2>4, <2>5, <2>6 DEF TicketStep
<1>11. CASE c.pc = 1005
  <2>1. Gives(o, 1006, Put(c.regs, "ax", Peek(m, 108)), c.cc, m)
    BY <1>1, <1>2, <1>3, <1>4, <1>11, TicketCode, Moves
  <2>2. /\ o.rc # HALT /\ IsContext(o.ctx) /\ o.ctx.pc = 1006
        /\ o.ctx.regs["ax"] = Peek(m, 108) /\ o.ctx.regs["bx"] = c.regs["bx"]
        /\ o.ctx.regs["cx"] = c.regs["cx"] /\ o.ctx.regs["zero"] = 0
        /\ o.ctx.cc = c.cc
    BY <1>1, <1>2, <1>3, <1>4, <2>1, GivesRegs
  <2>3. o.mem = m
    BY <2>1 DEF Gives
  <2>4. TicketAt(o.ctx, o.mem)
    BY <1>1, <1>2, <1>3, <1>4, <1>5, <1>11, <2>2, <2>3 DEF TicketAt, Looping, Active, Number
  <2>5. Draws(c, m, o)
    BY <1>1, <1>2, <1>3, <1>4, <1>11, <2>2, <2>3 DEF Draws, Active, Number
  <2>6. Counts(1005, 108, Loops, c, m, o, Rounds(1008 .. 1010, c), Rounds(1008 .. 1010, o.ctx))
    BY <1>1, <1>2, <1>5, <1>11, <2>2, <2>3 DEF Counts, Rounds, Looping
  <2> QED BY <2>3, <2>4, <2>5, <2>6 DEF TicketStep
<1>12. CASE c.pc = 1006
  <2>1. Gives(o, 1007, Put(c.regs, "ax", c.regs["ax"] + 1), c.cc, m)
    BY <1>1, <1>2, <1>3, <1>4, <1>12, TicketCode, Arithmetic
  <2>2. /\ o.rc # HALT /\ IsContext(o.ctx) /\ o.ctx.pc = 1007
        /\ o.ctx.regs["ax"] = c.regs["ax"] + 1 /\ o.ctx.regs["bx"] = c.regs["bx"]
        /\ o.ctx.regs["cx"] = c.regs["cx"] /\ o.ctx.regs["zero"] = 0
        /\ o.ctx.cc = c.cc
    BY <1>1, <1>2, <1>3, <1>4, <2>1, GivesRegs
  <2>3. o.mem = m
    BY <2>1 DEF Gives
  <2>4. TicketAt(o.ctx, o.mem)
    BY <1>1, <1>2, <1>3, <1>4, <1>5, <1>12, <2>2, <2>3 DEF TicketAt, Looping, Active, Number
  <2>5. Draws(c, m, o)
    BY <1>1, <1>2, <1>3, <1>4, <1>12, <2>2, <2>3 DEF Draws, Active, Number
  <2>6. Counts(1005, 108, Loops, c, m, o, Rounds(1008 .. 1010, c), Rounds(1008 .. 1010, o.ctx))
    BY <1>1, <1>2, <1>5, <1>12, <2>2, <2>3 DEF Counts, Rounds, Looping
  <2> QED BY <2>3, <2>4, <2>5, <2>6 DEF TicketStep
<1>13. CASE c.pc = 1007
  <2>1. Gives(o, 1008, c.regs, c.cc, Poke(m, 108, c.regs["ax"]))
    BY <1>1, <1>2, <1>3, <1>4, <1>13, TicketCode, Moves
  <2>2. /\ o.rc # HALT /\ IsContext(o.ctx) /\ o.ctx.pc = 1008
        /\ o.ctx.regs["ax"] = c.regs["ax"] /\ o.ctx.regs["bx"] = c.regs["bx"]
        /\ o.ctx.regs["cx"] = c.regs["cx"] /\ o.ctx.regs["zero"] = 0
        /\ o.ctx.cc = c.cc
    BY <1>1, <2>1 DEF Gives
  <2>3. /\ IntMem(o.mem)
        /\ \A b : Peek(o.mem, b) = IF b = 108 THEN c.regs["ax"] ELSE Peek(m, b)
    BY <1>1, <1>2, <1>3, <1>4, <2>1, PeekPoke, IntPoke DEF Gives
  <2>4. TicketAt(o.ctx, o.mem)
    BY <1>1, <1>2, <1>3, <1>4, <1>5, <1>13, <2>2, <2>3 DEF TicketAt, Looping, Active, Number
  <2>5. Draws(c, m, o)
    BY <1>1, <1>2, <1>3, <1>4, <1>13, <2>2, <2>3 DEF Draws, Active, Number
  <2>6. Counts(1005, 108, Loops, c, m, o, Rounds(1008 .. 1010, c), Rounds(1008 .. 1010, o.ctx))
    BY <1>1, <1>2, <1>5, <1>13, <2>2, <2>3 DEF Counts, Rounds, Looping
  <2> QED BY <2>3, <2>4, <2>5, <2>6 DEF TicketStep
<1>14. CASE c.pc = 1008
  <2>1. Gives(o, 1009, Put(c.regs, "ax", 1), c.cc, m)
    BY <1>1, <1>2, <1>3, <1>4, <1>14, TicketCode, Moves
  <2>2. /\ o.rc # HALT /\ IsContext(o.ctx) /\ o.ctx.pc = 1009
        /\ o.ctx.regs["ax"] = 1 /\ o.ctx.regs["bx"] = c.regs["bx"]
        /\ o.ctx.regs["cx"] = c.regs["cx"] /\ o.ctx.regs["zero"] = 0
        /\ o.ctx.cc = c.cc
    BY <1>1, <1>2, <1>3, <1>4, <2>1, GivesRegs
  <2>3. o.mem = m
    BY <2>1 DEF Gives
  <2>4. TicketAt(o.ctx, o.mem)
    BY <1>1, <1>2, <1>3, <1>4, <1>5, <1>14, <2>2, <2>3 DEF TicketAt, Looping, Active, Number
  <2>5. Draws(c, m, o)
    BY <1>1, <1>2, <1>3, <1>4, <1>14, <2>2, <2>3 DEF Draws, Active, Number
  <2>6. Counts(1005, 108, Loops, c, m, o, Rounds(1008 .. 1010, c), Rounds(1008 .. 1010, o.ctx))
    BY <1>1, <1>2, <1>5, <1>14, <2>2, <2>3 DEF Counts, Rounds, Looping
  <2> QED BY <2>3, <2>4, <2>5, <2>6 DEF TicketStep
<1>15. CASE c.pc = 1009
  <2>1. Gives(o, 1010, Put(c.regs, "ax", Peek(m, 104)), c.cc, Poke(m, 104, Peek(m, 104) + c.regs["ax"]))
    BY <1>1, <1>2, <1>3, <1>4, <1>15, TicketCode, AtomicsAt
  <2>2. /\ o.rc # HALT /\ IsContext(o.ctx) /\ o.ctx.pc = 1010
        /\ o.ctx.regs["ax"] = Peek(m, 104) /\ o.ctx.regs["bx"] = c.regs["bx"]
        /\ o.ctx.regs["cx"] = c.regs["cx"] /\ o.ctx.regs["zero"] = 0
        /\ o.ctx.cc = c.cc
    BY <1>1, <1>2, <1>3, <1>4, <2>1, GivesRegs
  <2>3. /\ IntMem(o.mem)
        /\ \A b : Peek(o.mem, b) = IF b = 104 THEN Peek(m, 104) + c.regs["ax"] ELSE Peek(m, b)
    BY <1>1, <1>2, <1>3, <1>4, <2>1, PeekPoke, IntPoke DEF Gives
  <2>4. TicketAt(o.ctx, o.mem)
    BY <1>1, <1>2, <1>3, <1>4, <1>5, <1>15, <2>2, <2>3 DEF TicketAt, Looping, Active, Number
  <2>5. Draws(c, m, o)
    BY <1>1, <1>2, <1>3, <1>4, <1>15, <2>2, <2>3 DEF Draws, Active, Number
  <2>6. Counts(1005, 108, Loops, c, m, o, Rounds(1008 .. 1010, c), Rounds(1008 .. 1010, o.ctx))
    BY <1>1, <1>2, <1>5, <1>15, <2>2, <2>3 DEF Counts, Rounds, Looping
  <2> QED BY <2>3, <2>4, <2>5, <2>6 DEF TicketStep
<1>16. CASE c.pc = 1010
  <2>1. Gives(o, 1011, Put(c.regs, "bx", c.regs["bx"] - 1), c.cc, m)
    BY <1>1, <1>2, <1>3, <1>4, <1>16, TicketCode, Arithmetic
  <2>2. /\ o.rc # HALT /\ IsContext(o.ctx) /\ o.ctx.pc = 1011
        /\ o.ctx.regs["ax"] = c.regs["ax"] /\ o.ctx.regs["bx"] = c.regs["bx"] - 1
        /\ o.ctx.regs["cx"] = c.regs["cx"] /\ o.ctx.regs["zero"] = 0
        /\ o.ctx.cc = c.cc
    BY <1>1, <1>2, <1>3, <1>4, <2>1, GivesRegs
  <2>3. o.mem = m
    BY <2>1 DEF Gives
  <2>4. TicketAt(o.ctx, o.mem)
    BY <1>1, <1>2, <1>3, <1>4, <1>5, <1>16, <2>2, <2>3 DEF TicketAt, Looping, Active, Number
  <2>5. Draws(c, m, o)
    BY <1>1, <1>2, <1>3, <1>4, <1>16, <2>2, <2>3 DEF Draws, Active, Number
  <2>6. Counts(1005, 108, Loops, c, m, o, Rounds(1008 .. 1010, c), Rounds(1008 .. 1010, o.ctx))
    BY <1>1, <1>2, <1>5, <1>16, <2>2, <2>3 DEF Counts, Rounds, Looping
  <2> QED BY <2>3, <2>4, <2>5, <2>6 DEF TicketStep
<1>17. CASE c.pc = 1011
  <2>1. Gives(o, 1012, c.regs, Compare(0, c.regs["bx"]), m)
    BY <1>1, <1>2, <1>3, <1>4, <1>17, TicketCode, Branches
  <2>2. /\ o.rc # HALT /\ IsContext(o.ctx) /\ o.ctx.pc = 1012
        /\ o.ctx.regs["ax"] = c.regs["ax"] /\ o.ctx.regs["bx"] = c.regs["bx"]
        /\ o.ctx.regs["cx"] = c.regs["cx"] /\ o.ctx.regs["zero"] = 0
        /\ (o.ctx.cc["gt"] <=> c.regs["bx"] > 0) /\ (o.ctx.cc["eq"] <=> c.regs["bx"] = 0) /\ (o.ctx.cc["neq"] <=> c.regs["bx"] # 0)
    BY <1>1, <2>1, Compared DEF Gives
  <2>3. o.mem = m
    BY <2>1 DEF Gives
  <2>4. TicketAt(o.ctx, o.mem)
    BY <1>1, <1>2, <1>3, <1>4, <1>5, <1>17, <2>2, <2>3 DEF TicketAt, Looping, Active, Number
  <2>5. Draws(c, m, o)
    BY <1>1, <1>2, <1>3, <1>4, <1>17, <2>2, <2>3 DEF Draws, Active, Number
  <2>6. Counts(1005, 108, Loops, c, m, o, Rounds(1008 .. 1010, c), Rounds(1008 .. 1010, o.ctx))
    BY <1>1, <1>2, <1>5, <1>17, <2>2, <2>3 DEF Counts, Rounds, Looping
  <2> QED BY <2>3, <2>4, <2>5, <2>6 DEF TicketStep
<1>18. CASE c.pc = 1012
  <2>1. Gives(o, IF c.cc["gt"] THEN 1000 ELSE 1013, c.regs, c.cc, m)
    BY <1>1, <1>2, <1>3, <1>4, <1>18, TicketCode, Branches
  <2>2. /\ o.rc # HALT /\ IsContext(o.ctx) /\ o.ctx.pc = (IF c.cc["gt"] THEN 1000 ELSE 1013)
        /\ o.ctx.regs["ax"] = c.regs["ax"] /\ o.ctx.regs["bx"] = c.regs["bx"]
        /\ o.ctx.regs["cx"] = c.regs["cx"] /\ o.ctx.regs["zero"] = 0
        /\ o.ctx.cc = c.cc
    BY <1>1, <2>1 DEF Gives
  <2>3. o.mem = m
    BY <2>1 DEF Gives
  <2>4. TicketAt(o.ctx, o.mem)
    BY <1>1, <1>2, <1>3, <1>4, <1>5, <1>18, <2>2, <2>3 DEF TicketAt, Looping, Active, Number
  <2>5. Draws(c, m, o)
    BY <1>1, <1>2, <1>3, <1>4, <1>18, <2>2, <2>3 DEF Draws, Active, Number
  <2>6. Counts(1005, 108, Loops, c, m, o, Rounds(1008 .. 1010, c), Rounds(1008 .. 1010, o.ctx))
    BY <1>1, <1>2, <1>5, <1>18, <2>2, <2>3 DEF Counts, Rounds, Looping
  <2> QED BY <2>3, <2>4, <2>5, <2>6 DEF TicketStep
<1>19. CASE c.pc = 1013
  <2>1. o.rc = HALT /\ o.mem = m
    BY <1>1, <1>19, TicketCode, Switches
  <2>2. Draws(c, m, o)
    BY <1>1, <1>19, <2>1 DEF Draws, Active
  <2>3. Counts(1005, 108, Loops, c, m, o, Rounds(1008 .. 1010, c), Rounds(1008 .. 1010, o.ctx))
    BY <1>1, <1>5, <1>19, <2>1 DEF Counts, Rounds, Looping
  <2> QED BY <2>1, <2>2, <2>3 DEF TicketStep
<1> QED BY <1>1, <1>6, <1>7, <1>8, <1>9, <1>10, <1>11, <1>12, <1>13, <1>14, <1>15, <1>16, <1>17, <1>18, <1>19

\* Each instruction of peterson.s is such a step.
LEMMA PetersonSteps ==
    ASSUME NEW t \in {0, 1}, NEW c, NEW m, IntMem(m), PetersonAt(t, c, m),
           NEW o, o = Execute(Code["peterson"][c.pc], c, m)
    PROVE  PetersonStep(t, c, m, o)
<1>1. /\ Flag(t) \in Int /\ Flag(1 - t) \in Int /\ Flag(t) # Flag(1 - t)
      /\ Flag(t) \notin {108, 112} /\ Flag(1 - t) \notin {108, 112}
      /\ \A u \in {0, 1} \ {t} : Flag(u) \notin {108, 112, Flag(t)}
  BY DEF Flag
<1>2. Given(c, m) /\ IsContext(c) /\ c.pc \in 1000 .. 1017
  BY DEF PetersonAt, Given
<1>3. /\ c.regs \in [Registers -> Int] /\ \A r \in Registers : c.regs[r] \in Int
      /\ c.regs["zero"] = 0 /\ t \in Int
  BY <1>2 DEF IsContext, Given
<1>4. /\ "zero" \in Registers /\ "ax" \in Registers /\ "bx" \in Registers
      /\ "cx" \in Registers /\ "fx" \in Registers
      /\ "gt" \in Conditions /\ "eq" \in Conditions /\ "neq" \in Conditions
  BY DEF Registers, Conditions
<1>5. \A a \in Int : Peek(m, a) \in Int
  BY DEF IntMem
<1>6. /\ c.regs["bx"] = t
      /\ c.pc # 1000 => c.regs["fx"] = 100
      /\ c.pc = 1002 => c.regs["cx"] = t
      /\ c.pc = 1003 => c.regs["cx"] = -t
      /\ c.pc \in 1004 .. 1017 => c.regs["cx"] = 1 - t
      /\ Peek(m, 108) \in {0, 1}
      /\ c.pc \in 1005 .. 1015 => Peek(m, Flag(t)) = 1
  BY DEF PetersonAt
<1>7. CASE c.pc = 1000
  <2>1. Gives(o, 1001, Put(c.regs, "fx", 100), c.cc, m)
    <3>1. o = Execute(Two("lea", At(100), Reg("fx")), c, m) /\ c.pc + 1 = 1001
      BY <1>7, PetersonCode
    <3> QED BY <1>2, <1>3, <1>4, <1>5, <3>1, Arithmetic
  <2>2. /\ o.rc # HALT /\ IsContext(o.ctx) /\ o.ctx.pc = 1001
        /\ o.ctx.regs["ax"] = c.regs["ax"] /\ o.ctx.regs["bx"] = c.regs["bx"]
        /\ o.ctx.regs["cx"] = c.regs["cx"] /\ o.ctx.regs["fx"] = 100 /\ o.ctx.regs["zero"] = 0
        /\ o.ctx.cc = c.cc
    BY <1>3, <1>4, <1>5, <2>1, GivesRegs
  <2>3. o.mem = m
    BY <2>1 DEF Gives
  <2>4. PetersonAt(t, o.ctx, o.mem)
    BY <1>3, <1>6, <1>7, <2>2, <2>3 DEF PetersonAt
  <2>5. \A u \in {0, 1} \ {t} : \A d : PetersonAt(u, d, m) => PetersonAt(u, d, o.mem)
    BY <2>3
  <2>6. Yields(t, c, m, o)
    BY <1>3, <1>7, <2>2, <2>3 DEF Yields, Asks, Through
  <2>7. Counts(1012, 112, 1, c, m, o, Passed(c), Passed(o.ctx))
    BY <1>3, <1>7, <2>2, <2>3 DEF Counts, Passed
  <2> QED BY <2>3, <2>4, <2>5, <2>6, <2>7 DEF PetersonStep
<1>8. CASE c.pc = 1001
  <2>1. Gives(o, 1002, Put(c.regs, "cx", c.regs["bx"]), c.cc, m)
    BY <1>2, <1>3, <1>4, <1>5, <1>8, PetersonCode, Moves
  <2>2. /\ o.rc # HALT /\ IsContext(o.ctx) /\ o.ctx.pc = 1002
        /\ o.ctx.regs["ax"] = c.regs["ax"] /\ o.ctx.regs["bx"] = c.regs["bx"]
        /\ o.ctx.regs["cx"] = c.regs["bx"] /\ o.ctx.regs["fx"] = c.regs["fx"] /\ o.ctx.regs["zero"] = 0
        /\ o.ctx.cc = c.cc
    BY <1>3, <1>4, <1>5, <2>1, GivesRegs
  <2>3. o.mem = m
    BY <2>1 DEF Gives
  <2>4. PetersonAt(t, o.ctx, o.mem)
    BY <1>3, <1>6, <1>8, <2>2, <2>3 DEF PetersonAt
  <2>5. \A u \in {0, 1} \ {t} : \A d : PetersonAt(u, d, m) => PetersonAt(u, d, o.mem)
    BY <2>3
  <2>6. Yields(t, c, m, o)
    BY <1>3, <1>8, <2>2, <2>3 DEF Yields, Asks, Through
  <2>7. Counts(1012, 112, 1, c, m, o, Passed(c), Passed(o.ctx))
    BY <1>3, <1>8, <2>2, <2>3 DEF Counts, Passed
  <2> QED BY <2>3, <2>4, <2>5, <2>6, <2>7 DEF PetersonStep
<1>9. CASE c.pc = 1002
  <2>1. Gives(o, 1003, Put(c.regs, "cx", -c.regs["cx"]), c.cc, m)
    <3>1. o = Execute(One("neg", Reg("cx")), c, m) /\ c.pc + 1 = 1003
      BY <1>9, PetersonCode
    <3> QED BY <1>2, <1>3, <1>4, <1>5, <3>1, Arithmetic
  <2>2. /\ o.rc # HALT /\ IsContext(o.ctx) /\ o.ctx.pc = 1003
        /\ o.ctx.regs["ax"] = c.regs["ax"] /\ o.ctx.regs["bx"] = c.regs["bx"]
        /\ o.ctx.regs["cx"] = -c.regs["cx"] /\ o.ctx.regs["fx"] = c.regs["fx"] /\ o.ctx.regs["zero"] = 0
        /\ o.ctx.cc = c.cc
    BY <1>3, <1>4, <1>5, <2>1, GivesRegs
  <2>3. o.mem = m
    BY <2>1 DEF Gives
  <2>4. PetersonAt(t, o.ctx, o.mem)
    BY <1>3, <1>6, <1>9, <2>2, <2>3 DEF PetersonAt
  <2>5. \A u \in {0, 1} \ {t} : \A d : PetersonAt(u, d, m) => PetersonAt(u, d, o.mem)
    BY <2>3
  <2>6. Yields(t, c, m, o)
    BY <1>3, <1>9, <2>2, <2>3 DEF Yields, Asks, Through
  <2>7. Counts(1012, 112, 1, c, m, o, Passed(c), Passed(o.ctx))
    BY <1>3, <1>9, <2>2, <2>3 DEF Counts, Passed
  <2> QED BY <2>3, <2>4, <2>5, <2>6, <2>7 DEF PetersonStep
<1>10. CASE c.pc = 1003
  <2>1. Gives(o, 1004, Put(c.regs, "cx", c.regs["cx"] + 1), c.cc, m)
    <3>1. o = Execute(Two("add", Imm(1), Reg("cx")), c, m) /\ c.pc + 1 = 1004
      BY <1>10, PetersonCode
    <3> QED BY <1>2, <1>3, <1>4, <1>5, <3>1, Arithmetic
  <2>2. /\ o.rc # HALT /\ IsContext(o.ctx) /\ o.ctx.pc = 1004
        /\ o.ctx.regs["ax"] = c.regs["ax"] /\ o.ctx.regs["bx"] = c.regs["bx"]
        /\ o.ctx.regs["cx"] = c.regs["cx"] + 1 /\ o.ctx.regs["fx"] = c.regs["fx"] /\ o.ctx.regs["zero"] = 0
        /\ o.ctx.cc = c.cc
    BY <1>3, <1>4, <1>5, <2>1, GivesRegs
  <2>3. o.mem = m
    BY <2>1 DEF Gives
  <2>4. PetersonAt(t, o.ctx, o.mem)
    BY <1>3, <1>6, <1>10, <2>2, <2>3 DEF PetersonAt
  <2>5. \A u \in {0, 1} \ {t} : \A d : PetersonAt(u, d, m) => PetersonAt(u, d, o.mem)
    BY <2>3
  <2>6. Yields(t, c, m, o)
    BY <1>3, <1>10, <2>2, <2>3 DEF Yields, Asks, Through
  <2>7. Counts(1012, 112, 1, c, m, o, Passed(c), Passed(o.ctx))
    BY <1>3, <1>10, <2>2, <2>3 DEF Counts, Passed
  <2> QED BY <2>3, <2>4, <2>5, <2>6, <2>7 DEF PetersonStep
<1>11. CASE c.pc = 1004
  <2>1. Gives(o, 1005, c.regs, c.cc, Poke(m, Flag(t), 1))
    <3>1. PICK n, k, a, v : /\ n = 0 /\ k = 4 /\ a = Flag(t) /\ n \in Int /\ k \in Int /\ a \in Int
                       /\ a = n + c.regs["fx"] + k * c.regs["bx"] /\ v = 1 /\ v \in Int
      BY <1>2, <1>3, <1>4, <1>5, <1>1, <1>6, <1>11 DEF Flag
    <3>2. /\ Given(c, m) /\ n \in Int /\ k \in Int /\ a \in Int /\ v \in Int
          /\ "fx" \in Registers /\ "bx" \in Registers
          /\ a = Via(n, "fx", "bx", k, c)
      BY <1>2, <1>4, <3>1 DEF Via
    <3>3. Gives(Execute(mov(Imm(v), Mem(n, "fx", "bx", k)), c, m), c.pc + 1, c.regs, c.cc, Poke(m, a, v))
      BY <3>2, MovesVia
    <3>4. o = Execute(mov(Imm(v), Mem(n, "fx", "bx", k)), c, m) /\ c.pc + 1 = 1005 /\ a = Flag(t) /\ v = 1
      BY <1>2, <1>3, <1>4, <1>5, <1>1, <1>6, <1>11, <3>1, PetersonCode
    <3> QED BY <3>3, <3>4, Zenon
  <2>2. /\ o.rc # HALT /\ IsContext(o.ctx) /\ o.ctx.pc = 1005
        /\ o.ctx.regs["ax"] = c.regs["ax"] /\ o.ctx.regs["bx"] = c.regs["bx"]
        /\ o.ctx.regs["cx"] = c.regs["cx"] /\ o.ctx.regs["fx"] = c.regs["fx"] /\ o.ctx.regs["zero"] = 0
        /\ o.ctx.cc = c.cc
    BY <1>3, <2>1 DEF Gives
  <2>3. /\ IntMem(o.mem)
        /\ \A b : Peek(o.mem, b) = IF b = Flag(t) THEN 1 ELSE Peek(m, b)
    BY <1>3, <1>4, <1>5, <1>1, <2>1, PeekPoke, IntPoke DEF Gives
  <2>4. PetersonAt(t, o.ctx, o.mem)
    BY <1>1, <1>3, <1>6, <1>11, <2>2, <2>3 DEF PetersonAt
  <2>5. \A u \in {0, 1} \ {t} : \A d : PetersonAt(u, d, m) => PetersonAt(u, d, o.mem)
    BY <1>1, <1>3, <1>6, <1>11, <2>3 DEF PetersonAt
  <2>6. Yields(t, c, m, o)
    BY <1>1, <1>6, <1>3, <1>11, <2>2, <2>3 DEF Yields, Asks, Through
  <2>7. Counts(1012, 112, 1, c, m, o, Passed(c), Passed(o.ctx))
    BY <1>1, <1>3, <1>11, <2>2, <2>3 DEF Counts, Passed
  <2> QED BY <2>3, <2>4, <2>5, <2>6, <2>7 DEF PetersonStep
<1>12. CASE c.pc = 1005
  <2>1. Gives(o, 1006, c.regs, c.cc, Poke(m, 108, c.regs["cx"]))
    BY <1>2, <1>3, <1>4, <1>5, <1>12, PetersonCode, Moves
  <2>2. /\ o.rc # HALT /\ IsContext(o.ctx) /\ o.ctx.pc = 1006
        /\ o.ctx.regs["ax"] = c.regs["ax"] /\ o.ctx.regs["bx"] = c.regs["bx"]
        /\ o.ctx.regs["cx"] = c.regs["cx"] /\ o.ctx.regs["fx"] = c.regs["fx"] /\ o.ctx.regs["zero"] = 0
        /\ o.ctx.cc = c.cc
    BY <1>3, <2>1 DEF Gives
  <2>3. /\ IntMem(o.mem)
        /\ \A b : Peek(o.mem, b) = IF b = 108 THEN c.regs["cx"] ELSE Peek(m, b)
    BY <1>3, <1>4, <1>5, <2>1, PeekPoke, IntPoke DEF Gives
  <2>4. PetersonAt(t, o.ctx, o.mem)
    BY <1>1, <1>3, <1>6, <1>12, <2>2, <2>3 DEF PetersonAt
  <2>5. \A u \in {0, 1} \ {t} : \A d : PetersonAt(u, d, m) => PetersonAt(u, d, o.mem)
    BY <1>1, <1>3, <1>6, <1>12, <2>3 DEF PetersonAt
  <2>6. Yields(t, c, m, o)
    BY <1>1, <1>6, <1>3, <1>12, <2>2, <2>3 DEF Yields, Asks, Through
  <2>7. Counts(1012, 112, 1, c, m, o, Passed(c), Passed(o.ctx))
    BY <1>1, <1>3, <1>12, <2>2, <2>3 DEF Counts, Passed
  <2> QED BY <2>3, <2>4, <2>5, <2>6, <2>7 DEF PetersonStep
<1>13. CASE c.pc = 1006
  <2>1. Gives(o, 1007, Put(c.regs, "ax", Peek(m, Flag(1 - t))), c.cc, m)
    <3>1. PICK n, k, a : /\ n = 0 /\ k = 4 /\ a = Flag(1 - t) /\ n \in Int /\ k \in Int /\ a \in Int
                       /\ a = n + c.regs["fx"] + k * c.regs["cx"]
      BY <1>2, <1>3, <1>4, <1>5, <1>1, <1>6, <1>13 DEF Flag
    <3>2. /\ Given(c, m) /\ n \in Int /\ k \in Int /\ a \in Int
          /\ "fx" \in Registers /\ "cx" \in Registers /\ "ax" \in Registers
          /\ a = Via(n, "fx", "cx", k, c)
      BY <1>2, <1>4, <3>1 DEF Via
    <3>3. Gives(Execute(mov(Mem(n, "fx", "cx", k), Reg("ax")), c, m), c.pc + 1, Put(c.regs, "ax", Peek(m, a)), c.cc, m)
      BY <3>2, MovesVia
    <3>4. o = Execute(mov(Mem(n, "fx", "cx", k), Reg("ax")), c, m) /\ c.pc + 1 = 1007 /\ Peek(m, a) = Peek(m, Flag(1 - t)) /\ a = Flag(1 - t)
      BY <1>2, <1>3, <1>4, <1>5, <1>1, <1>6, <1>13, <3>1, PetersonCode
    <3> QED BY <3>3, <3>4, Zenon
  <2>2. /\ o.rc # HALT /\ IsContext(o.ctx) /\ o.ctx.pc = 1007
        /\ o.ctx.regs["ax"] = Peek(m, Flag(1 - t)) /\ o.ctx.regs["bx"] = c.regs["bx"]
        /\ o.ctx.regs["cx"] = c.regs["cx"] /\ o.ctx.regs["fx"] = c.regs["fx"] /\ o.ctx.regs["zero"] = 0
        /\ o.ctx.cc = c.cc
    BY <1>3, <1>4, <1>5, <1>1, <2>1, GivesRegs
  <2>3. o.mem = m
    BY <2>1 DEF Gives
  <2>4. PetersonAt(t, o.ctx, o.mem)
    BY <1>3, <1>6, <1>13, <2>2, <2>3 DEF PetersonAt
  <2>5. \A u \in {0, 1} \ {t} : \A d : PetersonAt(u, d, m) => PetersonAt(u, d, o.mem)
    BY <2>3
  <2>6. Yields(t, c, m, o)
    BY <1>6, <1>3, <1>13, <2>2, <2>3 DEF Yields, Asks, Through
  <2>7. Counts(1012, 112, 1, c, m, o, Passed(c), Passed(o.ctx))
    BY <1>3, <1>13, <2>2, <2>3 DEF Counts, Passed
  <2> QED BY <2>3, <2>4, <2>5, <2>6, <2>7 DEF PetersonStep
<1>14. CASE c.pc = 1007
  <2>1. Gives(o, 1008, c.regs, Compare(1, c.regs["ax"]), m)
    BY <1>2, <1>3, <1>4, <1>5, <1>14, PetersonCode, Branches
  <2>2. /\ o.rc # HALT /\ IsContext(o.ctx) /\ o.ctx.pc = 1008
        /\ o.ctx.regs["ax"] = c.regs["ax"] /\ o.ctx.regs["bx"] = c.regs["bx"]
        /\ o.ctx.regs["cx"] = c.regs["cx"] /\ o.ctx.regs["fx"] = c.regs["fx"] /\ o.ctx.regs["zero"] = 0
        /\ (o.ctx.cc["gt"] <=> c.regs["ax"] > 1) /\ (o.ctx.cc["eq"] <=> c.regs["ax"] = 1) /\ (o.ctx.cc["neq"] <=> c.regs["ax"] # 1)
    BY <1>3, <2>1, Compared DEF Gives
  <2>3. o.mem = m
    BY <2>1 DEF Gives
  <2>4. PetersonAt(t, o.ctx, o.mem)
    BY <1>3, <1>6, <1>14, <2>2, <2>3 DEF PetersonAt
  <2>5. \A u \in {0, 1} \ {t} : \A d : PetersonAt(u, d, m) => PetersonAt(u, d, o.mem)
    BY <2>3
  <2>6. Yields(t, c, m, o)
    BY <1>6, <1>3, <1>14, <2>2, <2>3 DEF Yields, Asks, Through
  <2>7. Counts(1012, 112, 1, c, m, o, Passed(c), Passed(o.ctx))
    BY <1>3, <1>14, <2>2, <2>3 DEF Counts, Passed
  <2> QED BY <2>3, <2>4, <2>5, <2>6, <2>7 DEF PetersonStep
<1>15. CASE c.pc = 1008
  <2>1. Gives(o, IF c.cc["neq"] THEN 1012 ELSE 1009, c.regs, c.cc, m)
    BY <1>2, <1>3, <1>4, <1>5, <1>15, PetersonCode, Branches
  <2>2. /\ o.rc # HALT /\ IsContext(o.ctx) /\ o.ctx.pc = (IF c.cc["neq"] THEN 1012 ELSE 1009)
        /\ o.ctx.regs["ax"] = c.regs["ax"] /\ o.ctx.regs["bx"] = c.regs["bx"]
        /\ o.ctx.regs["cx"] = c.regs["cx"] /\ o.ctx.regs["fx"] = c.regs["fx"] /\ o.ctx.regs["zero"] = 0
        /\ o.ctx.cc = c.cc
    BY <1>3, <2>1 DEF Gives
  <2>3. o.mem = m
    BY <2>1 DEF Gives
  <2>4. PetersonAt(t, o.ctx, o.mem)
    BY <1>3, <1>6, <1>15, <2>2, <2>3 DEF PetersonAt
  <2>5. \A u \in {0, 1} \ {t} : \A d : PetersonAt(u, d, m) => PetersonAt(u, d, o.mem)
    BY <2>3
  <2>6. Yields(t, c, m, o)
    BY <1>6, <1>3, <1>15, <2>2, <2>3 DEF Yields, Asks, Through
  <2>7. Counts(1012, 112, 1, c, m, o, Passed(c), Passed(o.ctx))
    BY <1>3, <1>15, <2>2, <2>3 DEF Counts, Passed
  <2> QED BY <2>3, <2>4, <2>5, <2>6, <2>7 DEF PetersonStep
<1>16. CASE c.pc = 1009
  <2>1. Gives(o, 1010, Put(c.regs, "ax", Peek(m, 108)), c.cc, m)
    BY <1>2, <1>3, <1>4, <1>5, <1>16, PetersonCode, Moves
  <2>2. /\ o.rc # HALT /\ IsContext(o.ctx) /\ o.ctx.pc = 1010
        /\ o.ctx.regs["ax"] = Peek(m, 108) /\ o.ctx.regs["bx"] = c.regs["bx"]
        /\ o.ctx.regs["cx"] = c.regs["cx"] /\ o.ctx.regs["fx"] = c.regs["fx"] /\ o.ctx.regs["zero"] = 0
        /\ o.ctx.cc = c.cc
    BY <1>3, <1>4, <1>5, <2>1, GivesRegs
  <2>3. o.mem = m
    BY <2>1 DEF Gives
  <2>4. PetersonAt(t, o.ctx, o.mem)
    BY <1>3, <1>6, <1>16, <2>2, <2>3 DEF PetersonAt
  <2>5. \A u \in {0, 1} \ {t} : \A d : PetersonAt(u, d, m) => PetersonAt(u, d, o.mem)
    BY <2>3
  <2>6. Yields(t, c, m, o)
    BY <1>6, <1>3, <1>16, <2>2, <2>3 DEF Yields, Asks, Through
  <2>7. Counts(1012, 112, 1, c, m, o, Passed(c), Passed(o.ctx))
    BY <1>3, <1>16, <2>2, <2>3 DEF Counts, Passed
  <2> QED BY <2>3, <2>4, <2>5, <2>6, <2>7 DEF PetersonStep
<1>17. CASE c.pc = 1010
  <2>1. Gives(o, 1011, c.regs, Compare(c.regs["cx"], c.regs["ax"]), m)
    BY <1>2, <1>3, <1>4, <1>5, <1>17, PetersonCode, Branches
  <2>2. /\ o.rc # HALT /\ IsContext(o.ctx) /\ o.ctx.pc = 1011
        /\ o.ctx.regs["ax"] = c.regs["ax"] /\ o.ctx.regs["bx"] = c.regs["bx"]
        /\ o.ctx.regs["cx"] = c.regs["cx"] /\ o.ctx.regs["fx"] = c.regs["fx"] /\ o.ctx.regs["zero"] = 0
        /\ (o.ctx.cc["gt"] <=> c.regs["ax"] > c.regs["cx"]) /\ (o.ctx.cc["eq"] <=> c.regs["ax"] = c.regs["cx"]) /\ (o.ctx.cc["neq"] <=> c.regs["ax"] # c.regs["cx"])
    BY <1>3, <2>1, Compared DEF Gives
  <2>3. o.mem = m
    BY <2>1 DEF Gives
  <2>4. PetersonAt(t, o.ctx, o.mem)
    BY <1>3, <1>6, <1>17, <2>2, <2>3 DEF PetersonAt
  <2>5. \A u \in {0, 1} \ {t} : \A d : PetersonAt(u, d, m) => PetersonAt(u, d, o.mem)
    BY <2>3
  <2>6. Yields(t, c, m, o)
    BY <1>6, <1>3, <1>17, <2>2, <2>3 DEF Yields, Asks, Through
  <2>7. Counts(1012, 112, 1, c, m, o, Passed(c), Passed(o.ctx))
    BY <1>3, <1>17, <2>2, <2>3 DEF Counts, Passed
  <2> QED BY <2>3, <2>4, <2>5, <2>6, <2>7 DEF PetersonStep
<1>18. CASE c.pc = 1011
  <2>1. Gives(o, IF c.cc["eq"] THEN 1006 ELSE 1012, c.regs, c.cc, m)
    BY <1>2, <1>3, <1>4, <1>5, <1>18, PetersonCode, Branches
  <2>2. /\ o.rc # HALT /\ IsContext(o.ctx) /\ o.ctx.pc = (IF c.cc["eq"] THEN 1006 ELSE 1012)
        /\ o.ctx.regs["ax"] = c.regs["ax"] /\ o.ctx.regs["bx"] = c.regs["bx"]
        /\ o.ctx.regs["cx"] = c.regs["cx"] /\ o.ctx.regs["fx"] = c.regs["fx"] /\ o.ctx.regs["zero"] = 0
        /\ o.ctx.cc = c.cc
    BY <1>3, <2>1 DEF Gives
  <2>3. o.mem = m
    BY <2>1 DEF Gives
  <2>4. PetersonAt(t, o.ctx, o.mem)
    BY <1>3, <1>6, <1>18, <2>2, <2>3 DEF PetersonAt
  <2>5. \A u \in {0, 1} \ {t} : \A d : PetersonAt(u, d, m) => PetersonAt(u, d, o.mem)
    BY <2>3
  <2>6. Yields(t, c, m, o)
    BY <1>6, <1>3, <1>18, <2>2, <2>3 DEF Yields, Asks, Through
  <2>7. Counts(1012, 112, 1, c, m, o, Passed(c), Passed(o.ctx))
    BY <1>3, <1>18, <2>2, <2>3 DEF Counts, Passed
  <2> QED BY <2>3, <2>4, <2>5, <2>6, <2>7 DEF PetersonStep
<1>19. CASE c.pc = 1012
  <2>1. Gives(o, 1013, Put(c.regs, "ax", Peek(m, 112)), c.cc, m)
    BY <1>2, <1>3, <1>4, <1>5, <1>19, PetersonCode, Moves
  <2>2. /\ o.rc # HALT /\ IsContext(o.ctx) /\ o.ctx.pc = 1013
        /\ o.ctx.regs["ax"] = Peek(m, 112) /\ o.ctx.regs["bx"] = c.regs["bx"]
        /\ o.ctx.regs["cx"] = c.regs["cx"] /\ o.ctx.regs["fx"] = c.regs["fx"] /\ o.ctx.regs["zero"] = 0
        /\ o.ctx.cc = c.cc
    BY <1>3, <1>4, <1>5, <2>1, GivesRegs
  <2>3. o.mem = m
    BY <2>1 DEF Gives
  <2>4. PetersonAt(t, o.ctx, o.mem)
    BY <1>3, <1>6, <1>19, <2>2, <2>3 DEF PetersonAt
  <2>5. \A u \in {0, 1} \ {t} : \A d : PetersonAt(u, d, m) => PetersonAt(u, d, o.mem)
    BY <2>3
  <2>6. Yields(t, c, m, o)
    BY <1>6, <1>3, <1>19, <2>2, <2>3 DEF Yields, Asks, Through
  <2>7. Counts(1012, 112, 1, c, m, o, Passed(c), Passed(o.ctx))
    BY <1>3, <1>19, <2>2, <2>3 DEF Counts, Passed
  <2> QED BY <2>3, <2>4, <2>5, <2>6, <2>7 DEF PetersonStep
<1>20. CASE c.pc = 1013
  <2>1. Gives(o, 1014, Put(c.regs, "ax", c.regs["ax"] + 1), c.cc, m)
    <3>1. o = Execute(Two("add", Imm(1), Reg("ax")), c, m) /\ c.pc + 1 = 1014
      BY <1>20, PetersonCode
    <3> QED BY <1>2, <1>3, <1>4, <1>5, <3>1, Arithmetic
  <2>2. /\ o.rc # HALT /\ IsContext(o.ctx) /\ o.ctx.pc = 1014
        /\ o.ctx.regs["ax"] = c.regs["ax"] + 1 /\ o.ctx.regs["bx"] = c.regs["bx"]
        /\ o.ctx.regs["cx"] = c.regs["cx"] /\ o.ctx.regs["fx"] = c.regs["fx"] /\ o.ctx.regs["zero"] = 0
        /\ o.ctx.cc = c.cc
    BY <1>3, <1>4, <1>5, <2>1, GivesRegs
  <2>3. o.mem = m
    BY <2>1 DEF Gives
  <2>4. PetersonAt(t, o.ctx, o.mem)
    BY <1>3, <1>6, <1>20, <2>2, <2>3 DEF PetersonAt
  <2>5. \A u \in {0, 1} \ {t} : \A d : PetersonAt(u, d, m) => PetersonAt(u, d, o.mem)
    BY <2>3
  <2>6. Yields(t, c, m, o)
    BY <1>6, <1>3, <1>20, <2>2, <2>3 DEF Yields, Asks, Through
  <2>7. Counts(1012, 112, 1, c, m, o, Passed(c), Passed(o.ctx))
    BY <1>3, <1>20, <2>2, <2>3 DEF Counts, Passed
  <2> QED BY <2>3, <2>4, <2>5, <2>6, <2>7 DEF PetersonStep
<1>21. CASE c.pc = 1014
  <2>1. Gives(o, 1015, c.regs, c.cc, Poke(m, 112, c.regs["ax"]))
    BY <1>2, <1>3, <1>4, <1>5, <1>21, PetersonCode, Moves
  <2>2. /\ o.rc # HALT /\ IsContext(o.ctx) /\ o.ctx.pc = 1015
        /\ o.ctx.regs["ax"] = c.regs["ax"] /\ o.ctx.regs["bx"] = c.regs["bx"]
        /\ o.ctx.regs["cx"] = c.regs["cx"] /\ o.ctx.regs["fx"] = c.regs["fx"] /\ o.ctx.regs["zero"] = 0
        /\ o.ctx.cc = c.cc
    BY <1>3, <2>1 DEF Gives
  <2>3. /\ IntMem(o.mem)
        /\ \A b : Peek(o.mem, b) = IF b = 112 THEN c.regs["ax"] ELSE Peek(m, b)
    BY <1>3, <1>4, <1>5, <2>1, PeekPoke, IntPoke DEF Gives
  <2>4. PetersonAt(t, o.ctx, o.mem)
    BY <1>1, <1>3, <1>6, <1>21, <2>2, <2>3 DEF PetersonAt
  <2>5. \A u \in {0, 1} \ {t} : \A d : PetersonAt(u, d, m) => PetersonAt(u, d, o.mem)
    BY <1>1, <1>3, <1>6, <1>21, <2>3 DEF PetersonAt
  <2>6. Yields(t, c, m, o)
    BY <1>1, <1>6, <1>3, <1>21, <2>2, <2>3 DEF Yields, Asks, Through
  <2>7. Counts(1012, 112, 1, c, m, o, Passed(c), Passed(o.ctx))
    BY <1>1, <1>3, <1>21, <2>2, <2>3 DEF Counts, Passed
  <2> QED BY <2>3, <2>4, <2>5, <2>6, <2>7 DEF PetersonStep
<1>22. CASE c.pc = 1015
  <2>1. Gives(o, 1016, c.regs, c.cc, Poke(m, Flag(t), 0))
    <3>1. PICK n, k, a, v : /\ n = 0 /\ k = 4 /\ a = Flag(t) /\ n \in Int /\ k \in Int /\ a \in Int
                       /\ a = n + c.regs["fx"] + k * c.regs["bx"] /\ v = 0 /\ v \in Int
      BY <1>2, <1>3, <1>4, <1>5, <1>1, <1>6, <1>22 DEF Flag
    <3>2. /\ Given(c, m) /\ n \in Int /\ k \in Int /\ a \in Int /\ v \in Int
          /\ "fx" \in Registers /\ "bx" \in Registers
          /\ a = Via(n, "fx", "bx", k, c)
      BY <1>2, <1>4, <3>1 DEF Via
    <3>3. Gives(Execute(mov(Imm(v), Mem(n, "fx", "bx", k)), c, m), c.pc + 1, c.regs, c.cc, Poke(m, a, v))
      BY <3>2, MovesVia
    <3>4. o = Execute(mov(Imm(v), Mem(n, "fx", "bx", k)), c, m) /\ c.pc + 1 = 1016 /\ a = Flag(t) /\ v = 0
      BY <1>2, <1>3, <1>4, <1>5, <1>1, <1>6, <1>22, <3>1, PetersonCode
    <3> QED BY <3>3, <3>4, Zenon
  <2>2. /\ o.rc # HALT /\ IsContext(o.ctx) /\ o.ctx.pc = 1016
        /\ o.ctx.regs["ax"] = c.regs["ax"] /\ o.ctx.regs["bx"] = c.regs["bx"]
        /\ o.ctx.regs["cx"] = c.regs["cx"] /\ o.ctx.regs["fx"] = c.regs["fx"] /\ o.ctx.regs["zero"] = 0
        /\ o.ctx.cc = c.cc
    BY <1>3, <2>1 DEF Gives
  <2>3. /\ IntMem(o.mem)
        /\ \A b : Peek(o.mem, b) = IF b = Flag(t) THEN 0 ELSE Peek(m, b)
    BY <1>3, <1>4, <1>5, <1>1, <2>1, PeekPoke, IntPoke DEF Gives
  <2>4. PetersonAt(t, o.ctx, o.mem)
    BY <1>1, <1>3, <1>6, <1>22, <2>2, <2>3 DEF PetersonAt
  <2>5. \A u \in {0, 1} \ {t} : \A d : PetersonAt(u, d, m) => PetersonAt(u, d, o.mem)
    BY <1>1, <1>3, <1>6, <1>22, <2>3 DEF PetersonAt
  <2>6. Yields(t, c, m, o)
    BY <1>1, <1>6, <1>3, <1>22, <2>2, <2>3 DEF Yields, Asks, Through
  <2>7. Counts(1012, 112, 1, c, m, o, Passed(c), Passed(o.ctx))
    BY <1>1, <1>3, <1>22, <2>2, <2>3 DEF Counts, Passed
  <2> QED BY <2>3, <2>4, <2>5, <2>6, <2>7 DEF PetersonStep
<1>23. CASE c.pc = 1016
  <2>1. Gives(o, 1017, c.regs, c.cc, Poke(m, 108, c.regs["cx"]))
    BY <1>2, <1>3, <1>4, <1>5, <1>23, PetersonCode, Moves
  <2>2. /\ o.rc # HALT /\ IsContext(o.ctx) /\ o.ctx.pc = 1017
        /\ o.ctx.regs["ax"] = c.regs["ax"] /\ o.ctx.regs["bx"] = c.regs["bx"]
        /\ o.ctx.regs["cx"] = c.regs["cx"] /\ o.ctx.regs["fx"] = c.regs["fx"] /\ o.ctx.regs["zero"] = 0
        /\ o.ctx.cc = c.cc
    BY <1>3, <2>1 DEF Gives
  <2>3. /\ IntMem(o.mem)
        /\ \A b : Peek(o.mem, b) = IF b = 108 THEN c.regs["cx"] ELSE Peek(m, b)
    BY <1>3, <1>4, <1>5, <2>1, PeekPoke, IntPoke DEF Gives
  <2>4. PetersonAt(t, o.ctx, o.mem)
    BY <1>1, <1>3, <1>6, <1>23, <2>2, <2>3 DEF PetersonAt
  <2>5. \A u \in {0, 1} \ {t} : \A d : PetersonAt(u, d, m) => PetersonAt(u, d, o.mem)
    BY <1>1, <1>3, <1>6, <1>23, <2>3 DEF PetersonAt
  <2>6. Yields(t, c, m, o)
    BY <1>1, <1>6, <1>3, <1>23, <2>2, <2>3 DEF Yields, Asks, Through
  <2>7. Counts(1012, 112, 1, c, m, o, Passed(c), Passed(o.ctx))
    BY <1>1, <1>3, <1>23, <2>2, <2>3 DEF Counts, Passed
  <2> QED BY <2>3, <2>4, <2>5, <2>6, <2>7 DEF PetersonStep
<1>24. CASE c.pc = 1017
  <2>1. o.rc = HALT /\ o.mem = m
    BY <1>2, <1>24, PetersonCode, Switches
  <2>2. Yields(t, c, m, o)
    BY <2>1 DEF Yields
  <2>3. Counts(1012, 112, 1, c, m, o, Passed(c), Passed(o.ctx))
    BY <1>24, <2>1 DEF Counts, Passed
  <2> QED BY <2>1, <2>2, <2>3 DEF PetersonStep
<1> QED BY <1>2, <1>7, <1>8, <1>9, <1>10, <1>11, <1>12, <1>13, <1>14, <1>15, <1>16, <1>17, <1>18, <1>19, <1>20, <1>21, <1>22, <1>23, <1>24

-----------------------------------------------------------------------------
\* The locks, all threads together.  x is the context of each thread, h the
\* threads that have halted, m the memory.

\* Per program, the line that loads the counter, and the counter's address.
Entry(p) == CASE p = "ticket" -> 1005 [] p = "peterson" -> 1012 [] OTHER -> SpinLock[p].entry
CountAt(p) == CASE p = "ticket" -> 108 [] p = "peterson" -> 112 [] OTHER -> 104

\* The increments a thread is to make, and those it has made.
Quota(p) == IF p = "peterson" THEN 1 ELSE Loops
Done(p, c) ==
    CASE p = "ticket"   -> Rounds(1008 .. 1010, c)
      [] p = "peterson" -> Passed(c)
      [] OTHER          -> Rounds(SpinLock[p].after, c)

\* What is true of thread t of program p.
ThreadAt(p, t, c, m) ==
    CASE p = "ticket"   -> TicketAt(c, m)
      [] p = "peterson" -> PetersonAt(t, c, m)
      [] OTHER          -> SpinAt(SpinLock[p], t, c, m)

\* The sum of r over the threads, none of it above Q: one pair for each unit.
Tally(Q, r) == Cardinality({w \in Threads \X (1 .. Q) : w[2] <= r[w[1]]})

\* The increments each thread has made.
Made(p, x, h) == [t \in Threads |-> IF t \in h THEN Quota(p) ELSE Done(p, x[t])]

\* The counter is the number of increments made, and between its load and its
\* store the thread's ax has it, or one more.
Counted(p, x, h, m) ==
    /\ Made(p, x, h) \in [Threads -> 0 .. Quota(p)]
    /\ Peek(m, CountAt(p)) = Tally(Quota(p), Made(p, x, h))
    /\ \A t \in Threads \ h :
          /\ x[t].pc = Entry(p) + 1 => x[t].regs["ax"] = Peek(m, CountAt(p))
          /\ x[t].pc = Entry(p) + 2 => x[t].regs["ax"] = Peek(m, CountAt(p)) + 1

\* The tally is a natural number.
LEMMA TallyFinite ==
    ASSUME NEW Q \in Nat, NEW r
    PROVE  /\ IsFiniteSet({w \in Threads \X (1 .. Q) : w[2] <= r[w[1]]})
           /\ Tally(Q, r) \in Nat
           /\ Cardinality(Threads \X (1 .. Q)) = NumThreads * Q
<1>1. IsFiniteSet(Threads) /\ Cardinality(Threads) = NumThreads
  BY X86Assumption, FS_Interval DEF Threads
<1>2. IsFiniteSet(1 .. Q) /\ Cardinality(1 .. Q) = Q
  BY FS_Interval
<1>3. IsFiniteSet(Threads \X (1 .. Q)) /\ Cardinality(Threads \X (1 .. Q)) = NumThreads * Q
  BY <1>1, <1>2, FS_Product
<1>4. {w \in Threads \X (1 .. Q) : w[2] <= r[w[1]]} \subseteq Threads \X (1 .. Q)
  OBVIOUS
<1>5. IsFiniteSet({w \in Threads \X (1 .. Q) : w[2] <= r[w[1]]})
  BY <1>3, <1>4, FS_Subset
<1> QED BY <1>3, <1>5, FS_CardinalityType DEF Tally

\* One more increment of one thread is one more in the tally.
LEMMA TallyRises ==
    ASSUME NEW Q \in Nat, NEW g \in Threads,
           NEW r \in [Threads -> 0 .. Q], NEW q \in [Threads -> 0 .. Q],
           q[g] = r[g] + 1, \A t \in Threads \ {g} : q[t] = r[t]
    PROVE  Tally(Q, q) = Tally(Q, r) + 1
<1> DEFINE R == {w \in Threads \X (1 .. Q) : w[2] <= r[w[1]]}
           S == {w \in Threads \X (1 .. Q) : w[2] <= q[w[1]]}
           new == <<g, q[g]>>
<1>1. S = R \cup {new}
  <2>1. ASSUME NEW w \in S PROVE w \in R \cup {new}
    <3>1. PICK t \in Threads, n \in 1 .. Q : w = <<t, n>> /\ n <= q[t]
      OBVIOUS
    <3>2. CASE t = g /\ n = q[g]
      BY <3>1, <3>2
    <3>3. CASE ~(t = g /\ n = q[g])
      <4>1. n <= r[t]
        BY <3>1, <3>3
      <4> QED BY <3>1, <4>1
    <3> QED BY <3>2, <3>3
  <2>2. ASSUME NEW w \in R PROVE w \in S
    <3>1. PICK t \in Threads, n \in 1 .. Q : w = <<t, n>> /\ n <= r[t]
      OBVIOUS
    <3>2. n <= q[t]
      BY <3>1
    <3> QED BY <3>1, <3>2
  <2>3. new \in S
    OBVIOUS
  <2> QED BY <2>1, <2>2, <2>3
<1>2. new \notin R
  OBVIOUS
<1>3. IsFiniteSet(R)
  BY TallyFinite
<1> HIDE DEF R, S, new
<1>4. Cardinality(S) = Cardinality(R) + 1
  BY <1>1, <1>2, <1>3, FS_AddElement
<1> QED BY <1>4 DEF Tally, R, S

\* The tally of threads that have made none, and of those that have made all.
LEMMA TallyEnds ==
    ASSUME NEW Q \in Nat
    PROVE  /\ Tally(Q, [t \in Threads |-> 0]) = 0
           /\ Tally(Q, [t \in Threads |-> Q]) = NumThreads * Q
<1>1. {w \in Threads \X (1 .. Q) : w[2] <= [t \in Threads |-> 0][w[1]]} = {}
  OBVIOUS
<1>2. {w \in Threads \X (1 .. Q) : w[2] <= [t \in Threads |-> Q][w[1]]} = Threads \X (1 .. Q)
  OBVIOUS
<1>3. Cardinality({}) = 0
  BY FS_EmptySet
<1>4. Cardinality(Threads \X (1 .. Q)) = NumThreads * Q
  BY TallyFinite
<1> QED BY <1>1, <1>2, <1>3, <1>4, Zenon DEF Tally

\* What the count needs of the instruction a thread executes: a pass stays in
\* its quota and is counted where the program counts.
Counting(p, c, m, o) ==
    /\ Quota(p) \in Nat
    /\ Entry(p) \in Nat
    /\ o.rc # HALT => Done(p, o.ctx) \in 0 .. Quota(p)
    /\ Counts(Entry(p), CountAt(p), Quota(p), c, m, o, Done(p, c), Done(p, o.ctx))

\* No other thread is between the load and the store of the counter while g is.
CountsAlone(p, x, h, g) ==
    \A t \in Threads \ h : /\ x[g].pc \in Entry(p) .. Entry(p) + 2
                           /\ x[t].pc \in Entry(p) .. Entry(p) + 2
                           => t = g

\* An instruction keeps the count if one thread at a time is between the load
\* and the store.
LEMMA CountedKept ==
    ASSUME NEW p, NEW x, NEW h \in SUBSET Threads, NEW m, Counted(p, x, h, m),
           NEW g \in Threads \ h, NEW o, NEW y, NEW k,
           \A t \in Threads \ {g} : y[t] = x[t],
           o.rc # HALT => y[g] = o.ctx,
           k = IF o.rc = HALT THEN h \cup {g} ELSE h,
           Counting(p, x[g], m, o), CountsAlone(p, x, h, g)
    PROVE  Counted(p, y, k, o.mem)
<1> /\ Quota(p) \in Nat /\ Entry(p) \in Nat
    /\ o.rc # HALT => Done(p, o.ctx) \in 0 .. Quota(p)
    /\ Counts(Entry(p), CountAt(p), Quota(p), x[g], m, o, Done(p, x[g]), Done(p, o.ctx))
    /\ \A t \in Threads \ h : /\ x[g].pc \in Entry(p) .. Entry(p) + 2
                              /\ x[t].pc \in Entry(p) .. Entry(p) + 2
                              => t = g
  BY DEF Counting, CountsAlone
<1> DEFINE r == Made(p, x, h)
           q == Made(p, y, k)
           L == Entry(p)
           a == CountAt(p)
           Q == Quota(p)
<1>1. /\ r \in [Threads -> 0 .. Q] /\ Peek(m, a) = Tally(Q, r)
      /\ r[g] = Done(p, x[g])
      /\ \A t \in Threads \ {g} : q[t] = r[t]
      /\ q[g] = IF o.rc = HALT THEN Q ELSE Done(p, o.ctx)
      /\ q = [t \in Threads |-> q[t]]
  BY DEF Counted, Made
<1>2. q \in [Threads -> 0 .. Q]
  <2> HIDE DEF r, q, Q
  <2>1. ASSUME NEW t \in Threads PROVE q[t] \in 0 .. Q
    BY <1>1 DEF Q
  <2> QED BY <1>1, <2>1
<1>3. \A t \in Threads \ h :
          /\ x[t].pc = L + 1 => x[t].regs["ax"] = Peek(m, a)
          /\ x[t].pc = L + 2 => x[t].regs["ax"] = Peek(m, a) + 1
  BY DEF Counted
<1>4. Tally(Q, r) \in Nat
  BY TallyFinite
<1>5. Threads \ k = IF o.rc = HALT THEN (Threads \ h) \ {g} ELSE Threads \ h
  OBVIOUS
<1> SUFFICES /\ Peek(o.mem, a) = Tally(Q, q)
             /\ \A t \in Threads \ k : /\ y[t].pc = L + 1 => y[t].regs["ax"] = Peek(o.mem, a)
                                       /\ y[t].pc = L + 2 => y[t].regs["ax"] = Peek(o.mem, a) + 1
  BY <1>2 DEF Counted
<1> HIDE DEF r, q, L, a, Q
<1>6. CASE o.rc = HALT /\ Done(p, x[g]) = Q /\ Peek(o.mem, a) = Peek(m, a)
  <2>1. q = r
    BY <1>1, <1>6
  <2> QED BY <1>1, <1>3, <1>5, <1>6, <2>1
<1>7. CASE o.rc # HALT /\ Peek(o.mem, a) = Peek(m, a) /\ Done(p, o.ctx) = Done(p, x[g])
  <2>1. q = r
    BY <1>1, <1>7
  <2>2. \/ o.ctx.pc \notin L + 1 .. L + 2
        \/ o.ctx.pc = L + 1 /\ o.ctx.regs["ax"] = Peek(m, a)
        \/ o.ctx.pc = L + 2 /\ o.ctx.regs["ax"] = Peek(m, a) + 1
    BY <1>3, <1>7 DEF Counts, L, a, Q
  <2>3. y[g].pc = o.ctx.pc /\ y[g].regs["ax"] = o.ctx.regs["ax"]
    BY <1>7
  <2>4. ASSUME NEW t \in Threads \ k
        PROVE  /\ y[t].pc = L + 1 => y[t].regs["ax"] = Peek(o.mem, a)
               /\ y[t].pc = L + 2 => y[t].regs["ax"] = Peek(o.mem, a) + 1
    <3>1. CASE t = g
      BY <1>7, <2>2, <2>3, <3>1 DEF L
    <3>2. CASE t # g
      BY <1>3, <1>5, <1>7, <3>2
    <3> QED BY <3>1, <3>2
  <2> QED BY <1>1, <1>7, <2>1, <2>4
<1>8. CASE /\ o.rc # HALT /\ x[g].pc = L + 2 /\ o.ctx.pc = L + 3
           /\ Peek(o.mem, a) = x[g].regs["ax"] /\ Done(p, o.ctx) = Done(p, x[g]) + 1
  <2>1. Tally(Q, q) = Tally(Q, r) + 1
    <3>1. q[g] = r[g] + 1 /\ \A t \in Threads \ {g} : q[t] = r[t]
      BY <1>1, <1>8
    <3> QED BY <1>1, <1>2, <3>1, TallyRises DEF Q
  <2>2. Peek(o.mem, a) = Peek(m, a) + 1
    BY <1>3, <1>8
  <2>3. ASSUME NEW t \in Threads \ k PROVE y[t].pc \notin {L + 1, L + 2}
    <3>1. CASE t = g
      BY <1>8, <3>1 DEF L
    <3>2. CASE t # g
      BY <1>5, <1>8, <3>2 DEF L
    <3> QED BY <3>1, <3>2
  <2> QED BY <1>1, <2>1, <2>2, <2>3
<1> QED BY <1>6, <1>7, <1>8 DEF Counts, L, a, Q

\* A thread that holds the mutex has it set and is alone.
SpinLocked(s, x, h, m) ==
    \A t \in Threads \ h : Holds(s, x[t]) =>
        /\ Peek(m, s.lock) = 1
        /\ \A u \in Threads \ h : Holds(s, x[u]) => t = u

\* No two threads have the same number.
TicketLocked(x, h, m) ==
    \A t, u \in Threads \ h :
        Active(x[t]) /\ Active(x[u]) /\ Number(x[t], m) = Number(x[u], m) => t = u

\* While one thread may go in and the other asks, the turn is the first one's.
PetersonLocked(x, h, m) ==
    \A t, u \in Threads \ h : t # u /\ Through(x[t]) /\ Asks(x[u]) => Peek(m, 108) = t

\* An instruction keeps the mutex to one thread: it is taken where nobody has
\* it.
LEMMA SpinKept ==
    ASSUME NEW s, NEW x, NEW h \in SUBSET Threads, NEW m, SpinLocked(s, x, h, m),
           NEW g \in Threads \ h, NEW o, NEW y, NEW k,
           \A t \in Threads \ {g} : y[t] = x[t],
           o.rc # HALT => y[g] = o.ctx,
           k = IF o.rc = HALT THEN h \cup {g} ELSE h,
           Turns(s, x[g], m, o)
    PROVE  SpinLocked(s, y, k, o.mem)
<1>1. \A t \in Threads \ k : /\ t \in Threads \ h
                             /\ t = g => o.rc # HALT
                             /\ t # g => y[t] = x[t]
  OBVIOUS
<1>2. \A t \in Threads \ h : Holds(s, x[t]) =>
          /\ Peek(m, s.lock) = 1
          /\ \A u \in Threads \ h : Holds(s, x[u]) => t = u
  BY DEF SpinLocked
<1> SUFFICES ASSUME NEW t \in Threads \ k, Holds(s, y[t])
             PROVE  /\ Peek(o.mem, s.lock) = 1
                    /\ \A u \in Threads \ k : Holds(s, y[u]) => t = u
  BY DEF SpinLocked
<1>3. CASE /\ Peek(o.mem, s.lock) = Peek(m, s.lock)
           /\ o.rc # HALT => (Holds(s, o.ctx) <=> Holds(s, x[g]))
  <2>1. \A u \in Threads \ k : Holds(s, y[u]) => Holds(s, x[u])
    BY <1>1, <1>3
  <2> QED BY <1>1, <1>2, <1>3, <2>1
<1>4. CASE /\ o.rc # HALT /\ ~Holds(s, x[g])
           /\ Holds(s, o.ctx) => Peek(m, s.lock) = 0
           /\ Peek(o.mem, s.lock) = 1
  <2>1. ASSUME NEW u \in Threads \ k, Holds(s, y[u]) PROVE t = u
    <3>1. CASE t = g
      <4>1. Peek(m, s.lock) # 1
        BY <1>1, <1>4, <3>1
      <4> QED BY <1>1, <1>2, <2>1, <3>1, <4>1
    <3>2. CASE u = g
      <4>1. Peek(m, s.lock) # 1
        BY <1>1, <1>4, <2>1, <3>2
      <4> QED BY <1>1, <1>2, <3>2, <4>1
    <3>3. CASE t # g /\ u # g
      BY <1>1, <1>2, <2>1, <3>3
    <3> QED BY <3>1, <3>2, <3>3
  <2> QED BY <1>4, <2>1
<1>5. CASE o.rc # HALT /\ Holds(s, x[g]) /\ ~Holds(s, o.ctx)
  <2>1. t # g
    BY <1>1, <1>5
  <2> QED BY <1>1, <1>2, <1>5, <2>1
<1> QED BY <1>3, <1>4, <1>5 DEF Turns

\* The two locks with the lines of their threads.
TicketSafe(x, h, m) == TicketLocked(x, h, m) /\ \A t \in Threads \ h : TicketAt(x[t], m)
PetersonSafe(x, h, m) == PetersonLocked(x, h, m) /\ \A t \in Threads \ h : PetersonAt(t, x[t], m)

\* An instruction keeps the numbers apart: the one drawn is higher than all of
\* them, and the turn that passes on is that of nobody else.
LEMMA TicketKept ==
    ASSUME NEW x, NEW h \in SUBSET Threads, NEW m, IntMem(m), TicketSafe(x, h, m),
           NEW g \in Threads \ h, NEW o, NEW y, NEW k,
           \A t \in Threads \ {g} : y[t] = x[t],
           o.rc # HALT => y[g] = o.ctx,
           k = IF o.rc = HALT THEN h \cup {g} ELSE h,
           TicketStep(x[g], m, o)
    PROVE  TicketSafe(y, k, o.mem)
<1> SUFFICES ASSUME TicketLocked(x, h, m), \A t \in Threads \ h : TicketAt(x[t], m)
             PROVE  /\ TicketLocked(y, k, o.mem)
                    /\ \A t \in Threads \ k : TicketAt(y[t], o.mem)
  BY DEF TicketSafe
<1>1. \A t \in Threads \ k : /\ t \in Threads \ h
                             /\ t = g => o.rc # HALT
                             /\ t # g => y[t] = x[t]
  OBVIOUS
<1> DEFINE num(t) == Number(x[t], m)
<1>2. \A t, u \in Threads \ h : Active(x[t]) /\ Active(x[u]) /\ num(t) = num(u) => t = u
  BY DEF TicketLocked
<1>3. /\ Peek(m, 100) \in Int /\ Peek(m, 104) \in Int
      /\ \A t \in Threads \ h :
            /\ x[t].regs["ax"] \in Int /\ x[t].regs["cx"] \in Int /\ num(t) \in Int
            /\ Active(x[t]) => Peek(m, 104) <= num(t) /\ num(t) < Peek(m, 100)
            /\ x[t].pc \in 1000 .. 1013
  BY DEF TicketAt, IntMem, IsContext, Registers, Number
<1>4. CASE /\ o.rc # HALT /\ ~Active(x[g])
           /\ Number(o.ctx, o.mem) = Peek(m, 100)
           /\ Peek(o.mem, 100) = Peek(m, 100) + 1 /\ Peek(o.mem, 104) = Peek(m, 104)
  <2>1. \A t \in Threads \ k : t # g =>
            TicketAt(y[t], o.mem) /\ (Active(y[t]) => Active(x[t]) /\ Number(y[t], o.mem) = num(t))
    <3> SUFFICES ASSUME NEW t \in Threads \ k, t # g
                 PROVE  TicketAt(y[t], o.mem)
                        /\ (Active(y[t]) => Active(x[t]) /\ Number(y[t], o.mem) = num(t))
      OBVIOUS
    <3>1. y[t] = x[t] /\ TicketAt(x[t], m)
      BY <1>1
    <3>2. Number(x[t], o.mem) = num(t)
      BY <1>4 DEF Number
    <3> QED BY <1>3, <1>4, <3>1, <3>2 DEF TicketAt
  <2>2. \A t, u \in Threads \ k : Active(y[t]) /\ Active(y[u]) /\ Number(y[t], o.mem) = Number(y[u], o.mem) => t = u
    <3> SUFFICES ASSUME NEW t \in Threads \ k, NEW u \in Threads \ k, Active(y[t]), Active(y[u]),
                        Number(y[t], o.mem) = Number(y[u], o.mem), t # u
                 PROVE  FALSE
      OBVIOUS
    <3>1. CASE t = g
      BY <1>1, <1>3, <1>4, <2>1, <3>1
    <3>2. CASE u = g
      BY <1>1, <1>3, <1>4, <2>1, <3>2
    <3>3. CASE t # g /\ u # g
      BY <1>1, <1>2, <2>1, <3>3
    <3> QED BY <3>1, <3>2, <3>3
  <2>3. \A t \in Threads \ k : TicketAt(y[t], o.mem)
    BY <1>1, <2>1 DEF TicketStep
  <2> QED BY <2>2, <2>3 DEF TicketLocked
<1>5. CASE /\ o.rc # HALT /\ x[g].pc = 1009 /\ ~Active(o.ctx)
           /\ Peek(o.mem, 100) = Peek(m, 100) /\ Peek(o.mem, 104) = Peek(m, 104) + 1
  <2>1. Active(x[g]) /\ num(g) = Peek(m, 104)
    BY <1>5 DEF Active, Number
  <2>2. \A t \in Threads \ k : t # g =>
            TicketAt(y[t], o.mem) /\ (Active(y[t]) => Active(x[t]) /\ Number(y[t], o.mem) = num(t))
    <3> SUFFICES ASSUME NEW t \in Threads \ k, t # g
                 PROVE  TicketAt(y[t], o.mem)
                        /\ (Active(y[t]) => Active(x[t]) /\ Number(y[t], o.mem) = num(t))
      OBVIOUS
    <3>1. y[t] = x[t] /\ TicketAt(x[t], m) /\ t \in Threads \ h
      BY <1>1
    <3>2. Active(x[t]) => num(t) # Peek(m, 104) /\ Peek(m, 104) + 1 <= num(t)
      BY <1>2, <1>3, <2>1, <3>1
    <3>3. Active(x[t]) => x[t].pc \in 1002 .. 1004 /\ Number(x[t], o.mem) = num(t)
      BY <1>3, <3>1, <3>2 DEF Active, Number
    <3>4. x[t].pc = 1004 => x[t].cc["neq"]
      BY <1>3, <3>1, <3>2 DEF TicketAt, Active, Number
    <3>5. x[t].pc = 1003 => x[t].regs["cx"] <= Peek(o.mem, 104)
      BY <1>3, <1>5, <3>1 DEF TicketAt
    <3>6. Peek(o.mem, 104) <= Peek(o.mem, 100)
      BY <1>3, <1>5, <2>1
    <3> QED BY <1>3, <1>5, <3>1, <3>2, <3>3, <3>4, <3>5, <3>6 DEF TicketAt
  <2>3. ASSUME NEW t \in Threads \ k, NEW u \in Threads \ k, Active(y[t]), Active(y[u]),
               Number(y[t], o.mem) = Number(y[u], o.mem)
        PROVE  t = u
    <3>1. t # g /\ u # g
      BY <1>1, <1>5, <2>3
    <3> QED BY <1>1, <1>2, <2>2, <2>3, <3>1
  <2>4. \A t \in Threads \ k : TicketAt(y[t], o.mem)
    BY <1>1, <2>2 DEF TicketStep
  <2> QED BY <2>3, <2>4 DEF TicketLocked
<1>6. CASE /\ Peek(o.mem, 100) = Peek(m, 100) /\ Peek(o.mem, 104) = Peek(m, 104)
           /\ o.rc # HALT /\ Active(o.ctx) => Active(x[g]) /\ Number(o.ctx, o.mem) = num(g)
  <2>1. \A t \in Threads \ k : TicketAt(y[t], o.mem)
                               /\ (Active(y[t]) => Active(x[t]) /\ Number(y[t], o.mem) = num(t))
    <3> SUFFICES ASSUME NEW t \in Threads \ k
                 PROVE  TicketAt(y[t], o.mem)
                        /\ (Active(y[t]) => Active(x[t]) /\ Number(y[t], o.mem) = num(t))
      OBVIOUS
    <3>1. CASE t = g
      BY <1>1, <1>6, <3>1 DEF TicketStep
    <3>2. CASE t # g
      <4>1. y[t] = x[t] /\ TicketAt(x[t], m)
        BY <1>1, <3>2
      <4>2. Number(x[t], o.mem) = num(t)
        BY <1>6 DEF Number
      <4> QED BY <1>6, <4>1, <4>2 DEF TicketAt
    <3> QED BY <3>1, <3>2
  <2> QED BY <1>1, <1>2, <2>1 DEF TicketLocked
<1> QED BY <1>4, <1>5, <1>6 DEF TicketStep, Draws

\* An instruction keeps the turn of two threads: one that asks gives it away,
\* one that goes in has it or is not contended.
LEMMA PetersonKept ==
    ASSUME NEW x, NEW h \in SUBSET Threads, NEW m, PetersonSafe(x, h, m),
           Threads \subseteq {0, 1},
           NEW g \in Threads \ h, NEW o, NEW y, NEW k,
           \A t \in Threads \ {g} : y[t] = x[t],
           o.rc # HALT => y[g] = o.ctx,
           k = IF o.rc = HALT THEN h \cup {g} ELSE h,
           PetersonStep(g, x[g], m, o)
    PROVE  PetersonSafe(y, k, o.mem)
<1> SUFFICES ASSUME PetersonLocked(x, h, m), \A t \in Threads \ h : PetersonAt(t, x[t], m)
             PROVE  /\ PetersonLocked(y, k, o.mem)
                    /\ \A t \in Threads \ k : PetersonAt(t, y[t], o.mem)
  BY DEF PetersonSafe
<1>1. \A t \in Threads \ k : /\ t \in Threads \ h
                             /\ t = g => o.rc # HALT
                             /\ t # g => y[t] = x[t] /\ t = 1 - g
  OBVIOUS
<1>2. \A t \in Threads \ k : PetersonAt(t, y[t], o.mem)
  <2> SUFFICES ASSUME NEW t \in Threads \ k PROVE PetersonAt(t, y[t], o.mem)
    OBVIOUS
  <2>1. CASE t = g
    BY <1>1, <2>1 DEF PetersonStep
  <2>2. CASE t # g
    BY <1>1, <2>2 DEF PetersonStep
  <2> QED BY <2>1, <2>2
<1>3. ASSUME NEW t \in Threads \ k, NEW u \in Threads \ k, t # u, Through(y[t]), Asks(y[u])
      PROVE  Peek(o.mem, 108) = t
  <2>1. t \in Threads \ h /\ u \in Threads \ h
    BY <1>1
  <2>2. Through(x[t]) /\ Asks(x[u]) => Peek(m, 108) = t
    BY <1>3, <2>1 DEF PetersonLocked
  <2>3. CASE /\ o.rc # HALT /\ ~Through(o.ctx)
             /\ Peek(o.mem, 108) = 1 - g
    <3>1. t # g
      BY <1>3, <2>3
    <3> QED BY <1>1, <2>3, <3>1
  <2>4. CASE /\ Peek(o.mem, 108) = Peek(m, 108)
             /\ o.rc # HALT => /\ Asks(o.ctx) => Asks(x[g])
                               /\ Through(o.ctx) => \/ Through(x[g])
                                                    \/ Peek(m, Flag(1 - g)) # 1
                                                    \/ Peek(m, 108) = g
    <3>1. CASE t = g
      <4>1. u = 1 - g /\ y[u] = x[u]
        BY <1>1, <1>3, <3>1
      <4>2. Peek(m, Flag(u)) = 1
        BY <1>3, <2>1, <4>1 DEF PetersonAt, Asks
      <4> QED BY <1>1, <1>3, <2>2, <2>4, <3>1, <4>1, <4>2
    <3>2. CASE t # g
      <4>1. y[t] = x[t]
        BY <1>1, <3>2
      <4>2. Asks(x[u])
        BY <1>1, <1>3, <2>4
      <4> QED BY <1>3, <2>2, <2>4, <4>1, <4>2
    <3> QED BY <3>1, <3>2
  <2> QED BY <2>3, <2>4 DEF PetersonStep, Yields
<1> QED BY <1>2, <1>3 DEF PetersonLocked

-----------------------------------------------------------------------------
\* The invariant of the programs with a lock, whichever lock it is.

\* What the program's lock promises.
Locked(p, x, h, m) ==
    CASE p = "ticket"   -> TicketLocked(x, h, m)
      [] p = "peterson" -> PetersonLocked(x, h, m)
      [] OTHER          -> SpinLocked(SpinLock[p], x, h, m)

\* The invariant: memory, threads, lock and count.
Safe(p, x, h, m) ==
    /\ IntMem(m)
    /\ \A t \in Threads \ h : ThreadAt(p, t, x[t], m)
    /\ Locked(p, x, h, m)
    /\ Counted(p, x, h, m)

\* The programs that promise a lock.
Spinning == {"test_and_set", "test_and_test_and_set", "yield", "looping_race_withlock_withcallret"}
Locks == Spinning \cup {"ticket", "peterson"}

\* Of the spin locks: the critical section is within the owned lines, the
\* counter has moved on before the decrement.
LEMMA SpinLocks ==
    ASSUME NEW p \in Spinning
    PROVE  /\ SpinLock[p].entry \in {1003, 1004, 1006, 1007}
           /\ \A n \in 0 .. 2 : SpinLock[p].entry + n \in SpinLock[p].owned
           /\ SpinLock[p].lock \in {0, 100}
           /\ SpinLock[p].sub \in Nat
           /\ \A n \in 1 .. 3 : SpinLock[p].sub + n \notin SpinLock[p].after
           /\ SpinLock[p].lock = 0 <=> p = "looping_race_withlock_withcallret"
BY DEF SpinLock, Listing, Spinning

\* The definitions above, program by program.
LEMMA CasesOf ==
    ASSUME NEW p, NEW t, NEW c, NEW m, NEW x, NEW h
    PROVE  /\ p \in Spinning =>
                 /\ ThreadAt(p, t, c, m) <=> SpinAt(SpinLock[p], t, c, m)
                 /\ Locked(p, x, h, m) <=> SpinLocked(SpinLock[p], x, h, m)
                 /\ Entry(p) = SpinLock[p].entry /\ CountAt(p) = 104 /\ Quota(p) = Loops
                 /\ Done(p, c) = Rounds(SpinLock[p].after, c)
           /\ p = "ticket" =>
                 /\ ThreadAt(p, t, c, m) <=> TicketAt(c, m)
                 /\ Locked(p, x, h, m) <=> TicketLocked(x, h, m)
                 /\ Entry(p) = 1005 /\ CountAt(p) = 108 /\ Quota(p) = Loops
                 /\ Done(p, c) = Rounds(1008 .. 1010, c)
           /\ p = "peterson" =>
                 /\ ThreadAt(p, t, c, m) <=> PetersonAt(t, c, m)
                 /\ Locked(p, x, h, m) <=> PetersonLocked(x, h, m)
                 /\ Entry(p) = 1012 /\ CountAt(p) = 112 /\ Quota(p) = 1
                 /\ Done(p, c) = Passed(c)
BY DEF ThreadAt, Locked, Entry, CountAt, Quota, Done, Spinning

\* A looping thread has made no more increments than it is to make.
LEMMA RoundsInQuota ==
    ASSUME NEW sub \in Int, NEW after, \A n \in 1 .. 3 : sub + n \notin after,
           NEW c, c.pc \in Int, Looping(sub, c)
    PROVE  Rounds(after, c) \in 0 .. Loops
<1>1. CASE c.pc \in sub + 1 .. sub + 3
  <2>1. PICK n \in 1 .. 3 : c.pc = sub + n
    <3>1. c.pc - sub \in 1 .. 3 /\ c.pc = sub + (c.pc - sub)
      BY <1>1
    <3> QED BY <3>1
  <2>2. c.pc \notin after
    BY <2>1
  <2> QED BY <1>1, <2>2, X86Assumption DEF Rounds, Looping
<1>2. CASE c.pc \notin sub + 1 .. sub + 3
  BY <1>2, X86Assumption DEF Rounds, Looping
<1> QED BY <1>1, <1>2

\* ... and neither has any other.
LEMMA DoneInQuota ==
    ASSUME NEW p \in Locks, NEW t, NEW c, NEW m, ThreadAt(p, t, c, m)
    PROVE  Done(p, c) \in 0 .. Quota(p)
<1>1. CASE p \in Spinning
  <2>1. SpinAt(SpinLock[p], t, c, m) /\ Quota(p) = Loops /\ Done(p, c) = Rounds(SpinLock[p].after, c)
    BY <1>1, CasesOf
  <2>2. c.pc \in Int /\ Looping(SpinLock[p].sub, c)
    BY <2>1 DEF SpinAt, IsContext
  <2>3. SpinLock[p].sub \in Int /\ \A n \in 1 .. 3 : SpinLock[p].sub + n \notin SpinLock[p].after
    BY <1>1, SpinLocks
  <2>4. \E sub, after : sub = SpinLock[p].sub /\ after = SpinLock[p].after
    BY Zenon
  <2>5. PICK sub, after : sub = SpinLock[p].sub /\ after = SpinLock[p].after
    BY <2>4, Zenon
  <2>6. Rounds(after, c) \in 0 .. Loops
    BY <2>2, <2>3, <2>5, RoundsInQuota
  <2> QED BY <2>1, <2>5, <2>6
<1>2. CASE p = "ticket"
  <2>1. TicketAt(c, m) /\ Quota(p) = Loops /\ Done(p, c) = Rounds(1008 .. 1010, c)
    BY <1>2, CasesOf
  <2>2. c.pc \in Int /\ Looping(1010, c)
    BY <2>1 DEF TicketAt, IsContext
  <2>3. PICK sub : sub = 1010
    OBVIOUS
  <2>4. PICK after : after = 1008 .. 1010
    OBVIOUS
  <2>5. sub \in Int /\ \A n \in 1 .. 3 : sub + n \notin after
    BY <2>4, <2>3, SMT
  <2>6. Looping(sub, c)
    BY <2>2, <2>3, Zenon
  <2>7. Rounds(after, c) \in 0 .. Loops
    BY <2>2, <2>5, <2>6, RoundsInQuota
  <2> QED BY <2>1, <2>4, <2>7
<1>3. CASE p = "peterson"
  BY <1>3, CasesOf DEF Passed
<1> QED BY <1>1, <1>2, <1>3 DEF Locks

\* The invariant keeps the threads out of each other's critical section.
LEMMA LocksExclude ==
    ASSUME NEW p \in Locks, NEW x, NEW h \in SUBSET Threads, NEW m, Safe(p, x, h, m),
           p = "peterson" => Threads \subseteq {0, 1},
           NEW t \in Threads \ h, NEW u \in Threads \ h,
           x[t].pc \in Entry(p) .. Entry(p) + 2, x[u].pc \in Entry(p) .. Entry(p) + 2
    PROVE  t = u
<1>1. ThreadAt(p, t, x[t], m) /\ ThreadAt(p, u, x[u], m) /\ Locked(p, x, h, m)
  BY DEF Safe
<1>2. CASE p \in Spinning
  <2>1. SpinLocked(SpinLock[p], x, h, m) /\ Entry(p) = SpinLock[p].entry
    BY <1>1, <1>2, CasesOf
  <2>2. Entry(p) \in Int /\ \A n \in 0 .. 2 : Entry(p) + n \in SpinLock[p].owned
    BY <1>2, <2>1, SpinLocks
  <2>3. ASSUME NEW pc \in Entry(p) .. Entry(p) + 2 PROVE pc \in SpinLock[p].owned
    <3>1. pc - Entry(p) \in 0 .. 2 /\ pc = Entry(p) + (pc - Entry(p))
      BY <2>2
    <3> QED BY <2>2, <3>1
  <2>4. Holds(SpinLock[p], x[t]) /\ Holds(SpinLock[p], x[u])
    BY <2>3 DEF Holds
  <2> QED BY <2>1, <2>4 DEF SpinLocked
<1>3. CASE p = "ticket"
  <2>1. TicketLocked(x, h, m) /\ Entry(p) = 1005
    BY <1>1, <1>3, CasesOf
  <2>2. /\ Active(x[t]) /\ Number(x[t], m) = Peek(m, 104)
        /\ Active(x[u]) /\ Number(x[u], m) = Peek(m, 104)
    BY <2>1 DEF Active, Number
  <2> QED BY <2>1, <2>2 DEF TicketLocked
<1>4. CASE p = "peterson"
  <2>1. PetersonLocked(x, h, m) /\ Entry(p) = 1012
    BY <1>1, <1>4, CasesOf
  <2>2. Through(x[t]) /\ Asks(x[t]) /\ Through(x[u]) /\ Asks(x[u])
    BY <2>1 DEF Through, Asks
  <2>3. t # u => Peek(m, 108) = t /\ Peek(m, 108) = u
    BY <2>1, <2>2 DEF PetersonLocked
  <2> QED BY <2>3
<1> QED BY <1>2, <1>3, <1>4 DEF Locks

\* Each instruction of a spin lock is a step of a spin lock.
LEMMA SpinSteps ==
    ASSUME NEW p \in Spinning, NEW t \in Threads, NEW c, NEW m, IntMem(m),
           SpinAt(SpinLock[p], t, c, m), NEW o, o = Execute(Code[p][c.pc], c, m)
    PROVE  SpinStep(SpinLock[p], t, c, m, o)
<1>1. PICK s : s = SpinLock[p]
  OBVIOUS
<1>2. CASE p = "test_and_set"
  BY <1>1, <1>2, TasStep
<1>3. CASE p = "test_and_test_and_set"
  BY <1>1, <1>3, TaTasStep
<1>4. CASE p = "yield"
  BY <1>1, <1>4, YieldStep
<1>5. CASE p = "looping_race_withlock_withcallret"
  BY <1>1, <1>5, CallStep
<1> QED BY <1>2, <1>3, <1>4, <1>5 DEF Spinning

\* An instruction of a thread that has not halted keeps the invariant; k are
\* the halted threads after it, y the contexts.
LEMMA SafeKept ==
    ASSUME NEW p \in Locks, NEW x, NEW h \in SUBSET Threads, NEW m, Safe(p, x, h, m),
           p = "peterson" => Threads \subseteq {0, 1},
           NEW g \in Threads \ h, NEW o, o = Execute(Code[p][x[g].pc], x[g], m),
           NEW y, \A t \in Threads \ {g} : y[t] = x[t],
           o.rc # HALT => y[g] = o.ctx,
           NEW k, k = IF o.rc = HALT THEN h \cup {g} ELSE h
    PROVE  Safe(p, y, k, o.mem)
<1>1. PICK c : c = x[g]
  OBVIOUS
<1>2. /\ IntMem(m) /\ \A t \in Threads \ h : ThreadAt(p, t, x[t], m)
      /\ Locked(p, x, h, m) /\ Counted(p, x, h, m)
  BY DEF Safe
<1>3. ThreadAt(p, g, c, m) /\ o = Execute(Code[p][c.pc], c, m)
  BY <1>1, <1>2
<1>4. \A t \in Threads \ k : /\ t \in Threads \ h
                             /\ t = g => o.rc # HALT
                             /\ t # g => y[t] = x[t]
  OBVIOUS
<1>5. /\ IntMem(o.mem)
      /\ \A t \in Threads \ k : ThreadAt(p, t, y[t], o.mem)
      /\ Locked(p, y, k, o.mem)
      /\ Counts(Entry(p), CountAt(p), Quota(p), c, m, o, Done(p, c), Done(p, o.ctx))
  <2>1. CASE p \in Spinning
    <3>1. PICK s : s = SpinLock[p]
      OBVIOUS
    <3>2. SpinAt(s, g, c, m) /\ SpinLocked(s, x, h, m) /\ \A t \in Threads \ h : SpinAt(s, t, x[t], m)
      BY <1>2, <1>3, <2>1, <3>1, CasesOf
    <3>3. SpinStep(s, g, c, m, o)
      BY <1>2, <1>3, <2>1, <3>1, <3>2, SpinSteps
    <3>4. SpinLocked(s, x, h, m) /\ Turns(s, x[g], m, o)
      BY <1>1, <3>2, <3>3 DEF SpinStep
    <3>5. SpinLocked(s, y, k, o.mem)
      BY <3>4, SpinKept
    <3>6. ASSUME NEW t \in Threads \ k PROVE SpinAt(s, t, y[t], o.mem)
      <4>1. CASE t = g
        BY <1>4, <3>3, <4>1 DEF SpinStep
      <4>2. CASE t # g
        <5>1. y[t] = x[t] /\ SpinAt(s, t, x[t], m)
          BY <1>4, <3>2, <4>2
        <5>2. s.lock = 0 => Stacked(t, x[t], o.mem)
          BY <3>3, <4>2, <5>1 DEF SpinStep, SpinAt
        <5> QED BY <5>1, <5>2 DEF SpinAt
      <4> QED BY <4>1, <4>2
    <3>7. IntMem(o.mem) /\ Counts(s.entry, 104, Loops, c, m, o, Rounds(s.after, c), Rounds(s.after, o.ctx))
      BY <3>3 DEF SpinStep
    <3>8. Counts(Entry(p), CountAt(p), Quota(p), c, m, o, Done(p, c), Done(p, o.ctx))
      BY <2>1, <3>1, <3>7, CasesOf
    <3>9. Locked(p, y, k, o.mem) /\ \A t \in Threads \ k : ThreadAt(p, t, y[t], o.mem)
      BY <2>1, <3>1, <3>5, <3>6, CasesOf
    <3> QED BY <3>7, <3>8, <3>9
  <2>2. CASE p = "ticket"
    <3>1. TicketAt(c, m) /\ TicketLocked(x, h, m) /\ \A t \in Threads \ h : TicketAt(x[t], m)
      BY <1>2, <1>3, <2>2, CasesOf
    <3>2. TicketStep(c, m, o)
      BY <1>2, <1>3, <2>2, <3>1, TicketSteps
    <3>3. TicketStep(x[g], m, o)
      BY <1>1, <3>2, Zenon
    <3>4. TicketSafe(x, h, m)
      BY <3>1 DEF TicketSafe
    <3>5. TicketSafe(y, k, o.mem)
      BY <1>2, <3>3, <3>4, TicketKept
    <3>6. TicketLocked(y, k, o.mem) /\ \A t \in Threads \ k : TicketAt(y[t], o.mem)
      BY <3>5 DEF TicketSafe
    <3>7. /\ IntMem(o.mem)
          /\ Counts(1005, 108, Loops, c, m, o, Rounds(1008 .. 1010, c), Rounds(1008 .. 1010, o.ctx))
      BY <3>2 DEF TicketStep
    <3>8. Counts(Entry(p), CountAt(p), Quota(p), c, m, o, Done(p, c), Done(p, o.ctx))
      BY <2>2, <3>7, CasesOf
    <3>9. Locked(p, y, k, o.mem) /\ \A t \in Threads \ k : ThreadAt(p, t, y[t], o.mem)
      BY <2>2, <3>6, CasesOf
    <3> QED BY <3>7, <3>8, <3>9
  <2>3. CASE p = "peterson"
    <3>1. PetersonAt(g, c, m) /\ PetersonLocked(x, h, m) /\ \A t \in Threads \ h : PetersonAt(t, x[t], m)
      BY <1>2, <1>3, <2>3, CasesOf
    <3>2. PetersonStep(g, c, m, o)
      BY <1>2, <1>3, <2>3, <3>1, PetersonSteps
    <3>3. PetersonStep(g, x[g], m, o)
      BY <1>1, <3>2, Zenon
    <3>4. Threads \subseteq {0, 1}
      BY <2>3
    <3>5. PetersonSafe(x, h, m)
      BY <3>1 DEF PetersonSafe
    <3>6. PetersonSafe(y, k, o.mem)
      BY <3>3, <3>4, <3>5, PetersonKept
    <3>7. PetersonLocked(y, k, o.mem) /\ \A t \in Threads \ k : PetersonAt(t, y[t], o.mem)
      BY <3>6 DEF PetersonSafe
    <3>8. IntMem(o.mem) /\ Counts(1012, 112, 1, c, m, o, Passed(c), Passed(o.ctx))
      BY <3>2 DEF PetersonStep
    <3>9. Counts(Entry(p), CountAt(p), Quota(p), c, m, o, Done(p, c), Done(p, o.ctx))
      BY <2>3, <3>8, CasesOf
    <3>10. Locked(p, y, k, o.mem) /\ \A t \in Threads \ k : ThreadAt(p, t, y[t], o.mem)
      BY <2>3, <3>7, CasesOf
    <3> QED BY <3>8, <3>9, <3>10
  <2> QED BY <2>1, <2>2, <2>3 DEF Locks
<1>6. o.rc # HALT => Done(p, o.ctx) \in 0 .. Quota(p)
  <2> SUFFICES ASSUME o.rc # HALT PROVE Done(p, o.ctx) \in 0 .. Quota(p)
    OBVIOUS
  <2>1. g \in Threads \ k /\ y[g] = o.ctx
    OBVIOUS
  <2> QED BY <1>5, <2>1, DoneInQuota
<1>7. Quota(p) \in Nat /\ Entry(p) \in Nat
  <2>1. Quota(p) \in Nat
    BY X86Assumption DEF Quota
  <2>2. CASE p \in Spinning
    <3>1. Entry(p) = SpinLock[p].entry
      BY <2>2, CasesOf
    <3>2. SpinLock[p].entry \in {1003, 1004, 1006, 1007}
      BY <2>2, SpinLocks
    <3> QED BY <2>1, <3>1, <3>2
  <2>3. CASE p \notin Spinning
    BY <2>1, <2>3 DEF Entry, Locks
  <2> QED BY <2>2, <2>3
<1>8. CountsAlone(p, x, h, g)
  BY LocksExclude DEF CountsAlone
<1>9. Counted(p, y, k, o.mem)
  <2>1. Counts(Entry(p), CountAt(p), Quota(p), x[g], m, o, Done(p, x[g]), Done(p, o.ctx))
    BY <1>1, <1>5
  <2>2. Counting(p, x[g], m, o)
    BY <1>6, <1>7, <2>1 DEF Counting
  <2>3. Counted(p, x, h, m)
    BY <1>2
  <2> QED BY <1>8, <2>2, <2>3, CountedKept
<1> QED BY <1>5, <1>9 DEF Safe

-----------------------------------------------------------------------------
\* Where the critical section is, and how the threads start.

\* The counter's address, and the one place it is loaded into ax from.
LEMMA LoadOfCount ==
    ASSUME NEW p \in Locks
    PROVE  /\ VarAddress(Source[p], "count") = CountAt(p)
           /\ \A pc \in DOMAIN Code[p] : Code[p][pc] = mov(At(CountAt(p)), Reg("ax")) => pc = Entry(p)
<1>1. CASE p = "test_and_set"
  <2>1. Source[p] = test_and_set /\ CountAt(p) = 104 /\ Entry(p) = 1004
    BY <1>1 DEF Source, CountAt, Entry, SpinLock, Listing
  <2>2. VarAddress(test_and_set, "count") = 104
    BY TasVars
  <2>3. \A pc \in DOMAIN Code["test_and_set"] :
            Code["test_and_set"][pc] = mov(At(104), Reg("ax")) => pc = 1004
    BY TasCode DEF mov, Two, One, J, Call, Bare, At, Mem, Imm, Reg
  <2> QED BY <1>1, <2>1, <2>2, <2>3
<1>2. CASE p = "test_and_test_and_set"
  <2>1. Source[p] = test_and_test_and_set /\ CountAt(p) = 104 /\ Entry(p) = 1007
    BY <1>2 DEF Source, CountAt, Entry, SpinLock, Listing
  <2>2. VarAddress(test_and_test_and_set, "count") = 104
    BY TaTasVars
  <2>3. \A pc \in DOMAIN Code["test_and_test_and_set"] :
            Code["test_and_test_and_set"][pc] = mov(At(104), Reg("ax")) => pc = 1007
    BY TaTasCode DEF mov, Two, One, J, Call, Bare, At, Mem, Imm, Reg
  <2> QED BY <1>2, <2>1, <2>2, <2>3
<1>3. CASE p = "yield"
  <2>1. Source[p] = yield /\ CountAt(p) = 104 /\ Entry(p) = 1006
    BY <1>3 DEF Source, CountAt, Entry, SpinLock, Listing
  <2>2. VarAddress(yield, "count") = 104
    BY YieldVars
  <2>3. \A pc \in DOMAIN Code["yield"] :
            Code["yield"][pc] = mov(At(104), Reg("ax")) => pc = 1006
    BY YieldCode DEF mov, Two, One, J, Call, Bare, At, Mem, Imm, Reg
  <2> QED BY <1>3, <2>1, <2>2, <2>3
<1>4. CASE p = "ticket"
  <2>1. Source[p] = ticket /\ CountAt(p) = 108 /\ Entry(p) = 1005
    BY <1>4 DEF Source, CountAt, Entry, SpinLock, Listing
  <2>2. VarAddress(ticket, "count") = 108
    BY TicketVars
  <2>3. \A pc \in DOMAIN Code["ticket"] :
            Code["ticket"][pc] = mov(At(108), Reg("ax")) => pc = 1005
    BY TicketCode DEF mov, Two, One, J, Call, Bare, At, Mem, Imm, Reg
  <2> QED BY <1>4, <2>1, <2>2, <2>3
<1>5. CASE p = "peterson"
  <2>1. Source[p] = peterson /\ CountAt(p) = 112 /\ Entry(p) = 1012
    BY <1>5 DEF Source, CountAt, Entry, SpinLock, Listing
  <2>2. VarAddress(peterson, "count") = 112
    BY PetersonVars
  <2>3. \A pc \in DOMAIN Code["peterson"] :
            Code["peterson"][pc] = mov(At(112), Reg("ax")) => pc = 1012
    BY PetersonCode DEF mov, Two, One, J, Call, Bare, At, Mem, Imm, Reg
  <2> QED BY <1>5, <2>1, <2>2, <2>3
<1>6. CASE p = "looping_race_withlock_withcallret"
  <2>1. Source[p] = looping_race_withlock_withcallret /\ CountAt(p) = 104 /\ Entry(p) = 1003
    BY <1>6 DEF Source, CountAt, Entry, SpinLock, Listing
  <2>2. VarAddress(looping_race_withlock_withcallret, "count") = 104
    BY CallVars
  <2>3. \A pc \in DOMAIN Code["looping_race_withlock_withcallret"] :
            Code["looping_race_withlock_withcallret"][pc] = mov(At(104), Reg("ax")) => pc = 1003
    BY CallCode DEF mov, Two, One, J, Call, Bare, At, Mem, Imm, Reg
  <2> QED BY <1>6, <2>1, <2>2, <2>3
<1> QED BY <1>1, <1>2, <1>3, <1>4, <1>5, <1>6 DEF Locks, Spinning

\* The context a thread of these programs starts with.
LEMMA Starts ==
    ASSUME NEW p \in Locks, NEW t \in Threads
    PROVE  /\ IsContext(Start(p, t)) /\ Start(p, t).pc = 1000
           /\ Start(p, t).regs["zero"] = 0 /\ Start(p, t).regs["sp"] = stack(t)
           /\ Start(p, t).regs["bx"] = IF p = "peterson" THEN t ELSE Loops
<1>1. PICK v : v = IF p = "peterson" THEN t ELSE Loops
  OBVIOUS
<1>2. v \in Int /\ stack(t) \in Int
  BY <1>1, X86Assumption DEF Threads, stack
<1>3. Argv(p, t, Loops) = [bx |-> v]
  BY <1>1 DEF Argv, Locks, Spinning
<1>4. PICK regs : regs = [r \in Registers |-> IF r = "sp" THEN stack(t) ELSE IF r = "bx" THEN v ELSE 0]
  OBVIOUS
<1>5. PICK cc : cc = [c \in Conditions |-> FALSE]
  OBVIOUS
<1>6. Start(p, t) = [pc |-> 1000, regs |-> regs, cc |-> cc]
  <2>1. PICK args : args = [bx |-> v]
    OBVIOUS
  <2>2. DOMAIN args = {"bx"} /\ args["bx"] = v
    BY <2>1
  <2>3. \A r \in Registers : (IF r = "sp" THEN stack(t) ELSE IF r \in DOMAIN args THEN args[r] ELSE 0)
                             = (IF r = "sp" THEN stack(t) ELSE IF r = "bx" THEN v ELSE 0)
    BY <2>2
  <2>4. [r \in Registers |-> IF r = "sp" THEN stack(t) ELSE IF r \in DOMAIN args THEN args[r] ELSE 0] = regs
    BY <1>4, <2>3
  <2>5. Argv(p, t, Loops) = args
    BY <1>3, <2>1
  <2>6. Start(p, t) = [pc |-> loadaddr,
                       regs |-> [r \in Registers |-> IF r = "sp" THEN stack(t)
                                                     ELSE IF r \in DOMAIN args THEN args[r] ELSE 0],
                       cc |-> [c \in Conditions |-> FALSE]]
    BY <2>5, Zenon DEF Start
  <2> QED BY <1>5, <2>4, <2>6, Zenon DEF loadaddr
<1>7. regs \in [Registers -> Int] /\ regs["zero"] = 0 /\ regs["sp"] = stack(t) /\ regs["bx"] = v
  BY <1>2, <1>4 DEF Registers
<1>8. PICK c : c = [pc |-> 1000, regs |-> regs, cc |-> cc]
  OBVIOUS
<1>9. c.pc = 1000 /\ c.regs = regs /\ c.cc = cc
  BY <1>8
<1>10. IsContext(c)
  BY <1>7, <1>8, <1>9 DEF IsContext, Ctx
<1>11. Start(p, t) = c
  BY <1>6, <1>8
<1> QED BY <1>1, <1>7, <1>9, <1>10, <1>11

\* The first line of a spin lock is outside of everything.
LEMMA SpinFirst ==
    ASSUME NEW p \in Spinning
    PROVE  /\ SpinLock[p].last \in Int /\ 1000 <= SpinLock[p].last
           /\ SpinLock[p].sub \in Int /\ 1000 <= SpinLock[p].sub
           /\ SpinLock[p].test \in Int /\ 1002 <= SpinLock[p].test
           /\ 1000 \notin SpinLock[p].owned /\ 1000 \notin SpinLock[p].after
BY DEF SpinLock, Listing, Spinning

\* The invariant holds at first.
LEMMA SafeInit ==
    ASSUME NEW p \in Locks, NEW x, \A t \in Threads : x[t] = Start(p, t)
    PROVE  Safe(p, x, {}, << >>)
<1>1. PICK m : m = << >>
  OBVIOUS
<1>2. \A a : Peek(m, a) = 0
  BY <1>1 DEF Peek
<1>3. \A t \in Threads : /\ IsContext(x[t]) /\ x[t].pc = 1000
                         /\ x[t].regs["zero"] = 0 /\ x[t].regs["sp"] = stack(t)
                         /\ x[t].regs["bx"] = IF p = "peterson" THEN t ELSE Loops
  BY Starts
<1>4. IntMem(m)
  BY <1>2 DEF IntMem
<1>5. /\ \A t \in Threads : ThreadAt(p, t, x[t], m) /\ Done(p, x[t]) = 0
      /\ Locked(p, x, {}, m)
  <2>1. CASE p \in Spinning
    <3>1. PICK s : s = SpinLock[p]
      OBVIOUS
    <3>2. /\ s.last \in Int /\ 1000 <= s.last /\ s.sub \in Int /\ 1000 <= s.sub
          /\ s.test \in Int /\ 1002 <= s.test /\ 1000 \notin s.owned /\ 1000 \notin s.after
      BY <2>1, <3>1, SpinFirst
    <3>3. p # "peterson"
      BY <2>1 DEF Spinning
    <3>4. ASSUME NEW t \in Threads
          PROVE  SpinAt(s, t, x[t], m) /\ Rounds(s.after, x[t]) = 0 /\ ~Holds(s, x[t])
      <4>1. PICK c : c = x[t]
        OBVIOUS
      <4>2. /\ IsContext(c) /\ c.pc = 1000 /\ c.regs["zero"] = 0 /\ c.regs["sp"] = stack(t)
            /\ c.regs["bx"] = Loops
        BY <1>3, <3>3, <4>1
      <4>3. Looping(s.sub, c)
        BY <3>2, <4>2, X86Assumption DEF Looping
      <4>4. Stacked(t, c, m)
        BY <1>2, <4>2 DEF Stacked
      <4>5. SpinAt(s, t, c, m)
        BY <3>2, <4>2, <4>3, <4>4 DEF SpinAt
      <4>6. Rounds(s.after, c) = 0
        BY <3>2, <4>2, X86Assumption DEF Rounds
      <4>7. ~Holds(s, c)
        BY <3>2, <4>2 DEF Holds
      <4> QED BY <4>1, <4>5, <4>6, <4>7, Zenon
    <3>5. SpinLocked(s, x, {}, m)
      BY <3>4 DEF SpinLocked
    <3> QED BY <2>1, <3>1, <3>4, <3>5, CasesOf
  <2>2. CASE p = "ticket"
    <3>1. ASSUME NEW t \in Threads
          PROVE  TicketAt(x[t], m) /\ Rounds(1008 .. 1010, x[t]) = 0 /\ ~Active(x[t])
      <4>1. PICK c : c = x[t]
        OBVIOUS
      <4>2. IsContext(c) /\ c.pc = 1000 /\ c.regs["zero"] = 0 /\ c.regs["bx"] = Loops
        BY <1>3, <2>2, <4>1
      <4>3. Looping(1010, c) /\ Rounds(1008 .. 1010, c) = 0 /\ ~Active(c)
        BY <4>2, X86Assumption DEF Looping, Rounds, Active
      <4>4. TicketAt(c, m)
        BY <1>2, <4>2, <4>3 DEF TicketAt
      <4> QED BY <4>1, <4>3, <4>4
    <3>2. TicketLocked(x, {}, m)
      BY <3>1 DEF TicketLocked
    <3> QED BY <2>2, <3>1, <3>2, CasesOf
  <2>3. CASE p = "peterson"
    <3>1. ASSUME NEW t \in Threads
          PROVE  PetersonAt(t, x[t], m) /\ Passed(x[t]) = 0 /\ ~Asks(x[t])
      <4>1. PICK c : c = x[t]
        OBVIOUS
      <4>2. IsContext(c) /\ c.pc = 1000 /\ c.regs["zero"] = 0 /\ c.regs["bx"] = t
        BY <1>3, <2>3, <4>1
      <4>3. PetersonAt(t, c, m) /\ Passed(c) = 0 /\ ~Asks(c)
        BY <1>2, <4>2 DEF PetersonAt, Passed, Asks
      <4> QED BY <4>1, <4>3, Zenon
    <3>2. PetersonLocked(x, {}, m)
      BY <3>1 DEF PetersonLocked
    <3> QED BY <2>3, <3>1, <3>2, CasesOf
  <2> QED BY <2>1, <2>2, <2>3 DEF Locks
<1>6. Counted(p, x, {}, m)
  <2>1. Quota(p) \in Nat
    BY X86Assumption DEF Quota
  <2>2. Made(p, x, {}) = [t \in Threads |-> 0]
    BY <1>5 DEF Made
  <2>3. Tally(Quota(p), [t \in Threads |-> 0]) = 0
    BY <2>1, TallyEnds
  <2>4. Entry(p) \in Nat /\ Entry(p) > 1000
    BY DEF Entry, Locks, Spinning, SpinLock, Listing
  <2>5. \A t \in Threads : x[t].pc \notin {Entry(p) + 1, Entry(p) + 2}
    BY <1>3, <2>4
  <2>6. [t \in Threads |-> 0] \in [Threads -> 0 .. Quota(p)]
    BY <2>1
  <2> QED BY <1>2, <2>2, <2>3, <2>5, <2>6 DEF Counted
<1> QED BY <1>1, <1>4, <1>5, <1>6 DEF Safe

-----------------------------------------------------------------------------
\* The invariant of the machine.

\* The contexts of all threads, wherever they are kept.
Contexts == [t \in Threads |-> Context(t)]

\* The invariant of the machine: run() returns when all threads have halted,
\* and the programs with a lock are safe.
Excluding ==
    /\ Scheduled
    /\ returned => done = Threads
    /\ prog \in Runs
    /\ prog \in Locks => Safe(prog, Contexts, done, memory)

\* At first every thread has the context it starts with.
LEMMA InitContexts == Init => Contexts = [t \in Threads |-> Start(prog, t)]
<1> SUFFICES ASSUME Init PROVE \A t \in Threads : Context(t) = Start(prog, t)
  BY DEF Contexts
<1>1. getcurr \in Threads
  BY InitScheduled DEF Scheduled, getcurr
<1>2. curr = 1 /\ done = {} /\ cpu = plist[procsched[1]]
  BY DEF Init
<1>3. plist = [t \in Threads |-> Start(prog, t)]
  BY DEF Init
<1> QED BY <1>1, <1>2, <1>3 DEF Context, getcurr

\* The invariant holds at first.
LEMMA InitExcluding == Init => Excluding
<1> SUFFICES ASSUME Init PROVE Excluding
  OBVIOUS
<1>1. Scheduled
  BY InitScheduled
<1>2. done = {} /\ memory = << >> /\ prog \in Runs /\ returned = FALSE
  BY DEF Init
<1>3. ASSUME prog \in Locks PROVE Safe(prog, Contexts, done, memory)
  <2>1. \A t \in Threads : Contexts[t] = Start(prog, t)
    BY InitContexts
  <2>2. Safe(prog, Contexts, {}, << >>)
    BY <1>3, <2>1, SafeInit
  <2> QED BY <1>2, <2>2
<1> QED BY <1>1, <1>2, <1>3 DEF Excluding

\* A round of run() keeps it: it is an instruction of the current thread, and
\* the switch mixes up no contexts.
LEMMA CycleExcluding ==
    ASSUME "peterson" \in Runs => NumThreads <= 2
    PROVE  Excluding /\ Cycle => Excluding'
<1> SUFFICES ASSUME Excluding, Cycle PROVE Excluding'
  OBVIOUS
<1>1. Scheduled /\ Scheduled'
  BY CycleScheduled DEF Excluding
<1>2. ~returned /\ memory' = Out.mem /\ done' = Halted /\ prog' = prog /\ prog \in Runs
  BY RoundEnds DEF options, Excluding
<1>3. returned' => done' = Threads
  BY <1>2, RoundEnds
<1>4. ASSUME prog \in Locks PROVE Safe(prog, Contexts', Halted, Out.mem)
  <2>1. PICK x : x = Contexts
    OBVIOUS
  <2>2. PICK y : y = Contexts'
    OBVIOUS
  <2>3. PICK g : g = getcurr
    OBVIOUS
  <2>4. g \in Threads \ done /\ done \in SUBSET Threads
    BY <1>1, <1>2, <2>3 DEF Scheduled, getcurr
  <2>5. x[g] = cpu
    BY <2>1, <2>3, <2>4 DEF Contexts, Context
  <2>6. PICK o : o = Out
    OBVIOUS
  <2>7. o = Execute(Code[prog][x[g].pc], x[g], memory)
    BY <2>5, <2>6 DEF Out
  <2>8. Halted = IF o.rc = HALT THEN done \cup {g} ELSE done
    BY <2>3, <2>6 DEF Halted
  <2>9. \A t \in Threads : y[t] = IF t \in Halted THEN Gone ELSE IF t = g THEN o.ctx ELSE x[t]
    <3> SUFFICES ASSUME NEW t \in Threads
                 PROVE  y[t] = IF t \in Halted THEN Gone ELSE IF t = g THEN o.ctx ELSE x[t]
      OBVIOUS
    <3>1. Context(t)' = IF t \in Halted THEN Gone ELSE IF t = getcurr THEN Out.ctx ELSE Context(t)
      BY <1>1, ContextAfter
    <3>2. y[t] = Context(t)' /\ x[t] = Context(t)
      BY <2>1, <2>2 DEF Contexts
    <3> QED BY <2>3, <2>6, <3>1, <3>2
  <2>10. \A t \in done : x[t] = Gone
    BY <2>1, <2>4 DEF Contexts, Context
  <2>11. \A t \in Threads \ {g} : y[t] = x[t]
    BY <2>8, <2>9, <2>10
  <2>12. o.rc # HALT => y[g] = o.ctx
    BY <2>4, <2>8, <2>9
  <2>13. prog = "peterson" => Threads \subseteq {0, 1}
    BY <1>2, X86Assumption DEF Threads
  <2>14. Safe(prog, x, done, memory)
    BY <1>4, <2>1 DEF Excluding
  <2>15. PICK k : k = Halted
    OBVIOUS
  <2>16. k = IF o.rc = HALT THEN done \cup {g} ELSE done
    BY <2>8, <2>15
  <2>17. Safe(prog, y, k, o.mem)
    BY <1>4, <2>4, <2>7, <2>11, <2>12, <2>13, <2>14, <2>16, SafeKept
  <2> QED BY <2>2, <2>6, <2>15, <2>17
<1>5. prog' \in Locks => Safe(prog', Contexts', done', memory')
  BY <1>2, <1>4, Zenon
<1> QED BY <1>1, <1>2, <1>3, <1>5 DEF Excluding

\* A thread in the critical section is on one of the three lines.
LEMMA InSection ==
    ASSUME Excluding, prog \in Locks, NEW t \in Threads, InCriticalSection(t)
    PROVE  t \notin done /\ Contexts[t].pc \in Entry(prog) .. Entry(prog) + 2
<1>1. PICK c : c = Context(t)
  OBVIOUS
<1>2. PICK d : d = Code[prog]
  OBVIOUS
<1>3. PICK i : i = mov(At(VarAddress(Source[prog], "count")), Reg("ax"))
  OBVIOUS
<1>4. t \notin done /\ \E k \in 0 .. 2 : c.pc - k \in DOMAIN d /\ d[c.pc - k] = i
  BY <1>1, <1>2, <1>3 DEF InCriticalSection
<1>5. PICK k \in 0 .. 2 : c.pc - k \in DOMAIN d /\ d[c.pc - k] = i
  BY <1>4
<1>6. i = mov(At(CountAt(prog)), Reg("ax"))
  BY <1>3, LoadOfCount
<1>7. \A pc \in DOMAIN d : d[pc] = i => pc = Entry(prog)
  BY <1>2, <1>6, LoadOfCount
<1>8. c.pc - k = Entry(prog)
  BY <1>5, <1>7
<1>9. Contexts[t] = c
  BY <1>1 DEF Contexts
<1>10. c.pc \in Int
  <2>1. ThreadAt(prog, t, c, memory)
    BY <1>4, <1>9 DEF Excluding, Safe
  <2>2. CASE prog \in Spinning
    <3>1. SpinAt(SpinLock[prog], t, c, memory)
      BY <2>1, <2>2, CasesOf
    <3> QED BY <3>1 DEF SpinAt, IsContext
  <2>3. CASE prog = "ticket"
    <3>1. TicketAt(c, memory)
      BY <2>1, <2>3, CasesOf
    <3> QED BY <3>1 DEF TicketAt, IsContext
  <2>4. CASE prog = "peterson"
    <3>1. PetersonAt(t, c, memory)
      BY <2>1, <2>4, CasesOf
    <3> QED BY <3>1 DEF PetersonAt, IsContext
  <2> QED BY <2>2, <2>3, <2>4 DEF Locks
<1>11. Entry(prog) \in Int /\ c.pc = Entry(prog) + k
  BY <1>8, <1>10
<1> QED BY <1>4, <1>9, <1>11

\* The invariant implies the property; when all have halted, each thread has
\* made all its increments.
LEMMA ExcludingExcludes ==
    ASSUME "peterson" \in Runs => NumThreads <= 2
    PROVE  Excluding => MutualExclusion
<1> SUFFICES ASSUME Excluding, prog \in Locking PROVE
        /\ \A t, u \in Threads : InCriticalSection(t) /\ InCriticalSection(u) => t = u
        /\ returned => Peek(memory, VarAddress(Source[prog], "count"))
                         = NumThreads * (IF prog = "peterson" THEN 1 ELSE Loops)
  BY DEF MutualExclusion
<1>1. prog \in Locks /\ (prog = "peterson" => Threads \subseteq {0, 1})
  <2>1. prog \in Runs /\ prog \in DOMAIN Source
    BY X86Assumption DEF Locking, Programs
  <2>2. prog \in Locks
    BY <2>1 DEF Source, Locking, Locks, Spinning
  <2>3. prog = "peterson" => Threads \subseteq {0, 1}
    BY <2>1, X86Assumption DEF Threads
  <2> QED BY <2>2, <2>3
<1>2. Safe(prog, Contexts, done, memory) /\ done \in SUBSET Threads
  BY <1>1 DEF Excluding, Scheduled
<1>3. ASSUME NEW t \in Threads, NEW u \in Threads, InCriticalSection(t), InCriticalSection(u)
      PROVE  t = u
  <2>1. /\ t \in Threads \ done /\ Contexts[t].pc \in Entry(prog) .. Entry(prog) + 2
        /\ u \in Threads \ done /\ Contexts[u].pc \in Entry(prog) .. Entry(prog) + 2
    BY <1>1, <1>3, InSection
  <2> QED BY <1>1, <1>2, <2>1, LocksExclude
<1>4. ASSUME returned
      PROVE  Peek(memory, VarAddress(Source[prog], "count"))
               = NumThreads * (IF prog = "peterson" THEN 1 ELSE Loops)
  <2>1. done = Threads
    BY <1>4 DEF Excluding
  <2>2. Made(prog, Contexts, done) = [t \in Threads |-> Quota(prog)]
    BY <2>1 DEF Made
  <2>3. Peek(memory, CountAt(prog)) = Tally(Quota(prog), [t \in Threads |-> Quota(prog)])
    BY <1>2, <2>2 DEF Safe, Counted
  <2>4. Quota(prog) \in Nat /\ Quota(prog) = IF prog = "peterson" THEN 1 ELSE Loops
    BY X86Assumption DEF Quota
  <2>5. Tally(Quota(prog), [t \in Threads |-> Quota(prog)]) = NumThreads * Quota(prog)
    BY <2>4, TallyEnds
  <2>6. VarAddress(Source[prog], "count") = CountAt(prog)
    BY <1>1, LoadOfCount
  <2>7. Peek(memory, VarAddress(Source[prog], "count")) = NumThreads * Quota(prog)
    BY <2>3, <2>5, <2>6, Zenon
  <2> QED BY <2>4, <2>7
<1> QED BY <1>3, <1>4

\* MutualExclusion, of the six programs of threads-locks/ with a lock: for any
\* number of threads, loop count, schedule and interrupt frequency, no two
\* threads are between the load and the store of the counter, and when run()
\* returns no increment is missing.  peterson.s is for two threads, 0 and 1:
\* it looks at the flag of thread 1 - bx.
THEOREM X86MutualExclusion ==
    ASSUME "peterson" \in Runs => NumThreads <= 2
    PROVE  Spec => []MutualExclusion
<1>1. Excluding /\ [Next]_vars => Excluding'
  <2> SUFFICES ASSUME Excluding, [Next]_vars PROVE Excluding'
    OBVIOUS
  <2>1. CASE Cycle
    BY <2>1, CycleExcluding
  <2>2. CASE UNCHANGED vars
    <3>1. Contexts' = Contexts
      <4>1. \A t \in Threads : Context(t)' = Context(t)
        BY <2>2 DEF vars, options, Context, getcurr
      <4> QED BY <4>1 DEF Contexts
    <3>2. Scheduled'
      BY <2>2 DEF Excluding, Scheduled, vars, options, getcurr
    <3>3. UNCHANGED <<prog, done, memory, returned>>
      BY <2>2 DEF vars, options
    <3>4. (prog \in Locks => Safe(prog, Contexts, done, memory))'
      BY <3>1, <3>3, Zenon DEF Excluding
    <3> QED BY <3>2, <3>3, <3>4 DEF Excluding
  <2> QED BY <2>1, <2>2 DEF Next, Returned
<1>2. Excluding => MutualExclusion
  BY ExcludingExcludes
<1> QED BY <1>1, <1>2, InitExcluding, PTL DEF Spec
=============================================================================
