-------------------------------- MODULE X86 --------------------------------
(***************************************************************************)
(* threads-locks/x86.py: one cpu, the list of processes, and run(), which  *)
(* executes the instructions of the current process and switches to the    *)
(* next one when the interrupt counter runs out, on a yield and on a halt. *)
(* A step is one round of its loop.  The counter is reloaded with the      *)
(* interrupt frequency (-i), with a random number up to it (-r), or with 1 *)
(* under a schedule given by hand (-P), which is followed round and round. *)
(***************************************************************************)
EXTENDS X86Programs, FiniteSets

CONSTANTS
    NumThreads,         \* -t
    Loops,              \* the loop count -a gives a thread
    Runs,               \* the programs looked at
    Frequencies,        \* the interrupt frequencies looked at
    Manual              \* the schedules -P looked at, sequences of threads

Threads == 0 .. NumThreads - 1

ASSUME X86Assumption ==
    /\ NumThreads \in Nat \ {0} /\ Loops \in Nat \ {0}
    /\ Runs \subseteq Programs
    /\ Frequencies \subseteq Nat \ {0}
    /\ \A s \in Manual : s \in Seq(Threads) /\ Threads = {s[k] : k \in DOMAIN s}

VARIABLES
    prog,           \* -p
    intrand,        \* -r
    intfreq,        \* -i
    procsched,      \* proclist.procsched
    curr,           \* proclist.curr, counted from 1
    plist,          \* per thread, the context process.save() has put away
    done,           \* the threads that have halted
    cpu,            \* program counter, registers and condition codes
    memory,
    interrupt,      \* instructions to the next interrupt
    returned        \* run() has returned

options == <<prog, intrand, intfreq, procsched>>
vars == <<options, curr, plist, done, cpu, memory, interrupt, returned>>

\* process.__init__: all registers 0, those of -a, and a stack of its own.
stack(t) == 128000 - 1000 * t
Start(p, t) ==
    LET args == Argv(p, t, Loops)
    IN  [pc |-> loadaddr,
         regs |-> [r \in Registers |-> IF r = "sp" THEN stack(t)
                                       ELSE IF r \in DOMAIN args THEN args[r] ELSE 0],
         cc |-> [c \in Conditions |-> FALSE]]

\* setint
Interrupts == IF intrand THEN 1 .. intfreq ELSE {intfreq}

RoundRobin == [k \in 1 .. NumThreads |-> k - 1]

\* proclist.finalize: without -P the processes take turns in their order; with
\* it, run() counts every instruction.
Init ==
    /\ prog \in Runs
    /\ \/ procsched = RoundRobin /\ intrand \in BOOLEAN /\ intfreq \in Frequencies
       \/ procsched \in Manual /\ intrand = FALSE /\ intfreq = 1
    /\ curr = 1
    /\ plist = [t \in Threads |-> Start(prog, t)]
    /\ done = {}
    /\ cpu = plist[procsched[1]]
    /\ memory = << >>
    /\ interrupt \in Interrupts
    /\ returned = FALSE

getcurr == procsched[curr]

\* proclist.next: the next place of the schedule whose thread has not halted.
next(k, halted) ==
    LET Place(j) == IF k + j <= Len(procsched) THEN k + j ELSE k + j - Len(procsched)
        j == CHOOSE j \in 1 .. Len(procsched) :
                /\ procsched[Place(j)] \notin halted
                /\ \A i \in 1 .. j - 1 : procsched[Place(i)] \in halted
    IN  Place(j)

\* Faulty: the condition codes are left in the cpu.
save_NoConditions(t, c) == [plist EXCEPT ![t] = [c EXCEPT !.cc = plist[t].cc]]

\* process.save
save(t, c) == [plist EXCEPT ![t] = c]

\* One round of run(): fetch and execute; after a halt go to the next process;
\* then count down, and when the counter is at 0, or after a yield, save the
\* context and restore that of the next process.  After a halt it is the next
\* process that the interrupt finds running.
Cycle ==
    LET out    == Execute(Code[prog][cpu.pc], cpu, memory)
        halted == IF out.rc = HALT THEN done \cup {getcurr} ELSE done
        at     == IF out.rc = HALT THEN next(curr, halted) ELSE curr
        c      == IF out.rc = HALT THEN plist[procsched[at]] ELSE out.ctx
    IN  /\ ~returned
        /\ memory' = out.mem
        /\ done' = halted
        /\ \/ /\ halted = Threads
              /\ returned' = TRUE /\ cpu' = out.ctx
              /\ UNCHANGED <<curr, plist, interrupt>>
           \/ /\ halted # Threads /\ interrupt # 1 /\ out.rc # YIELD
              /\ interrupt' = interrupt - 1
              /\ curr' = at /\ cpu' = c
              /\ UNCHANGED <<plist, returned>>
           \/ /\ halted # Threads /\ (interrupt = 1 \/ out.rc = YIELD)
              /\ interrupt' \in Interrupts
              /\ plist' = save(procsched[at], c)
              /\ curr' = next(at, halted)
              /\ cpu' = plist'[procsched[curr']]
              /\ UNCHANGED returned
        /\ UNCHANGED options

Returned == returned /\ UNCHANGED vars

Next == Cycle \/ Returned

Spec == Init /\ [][Next]_vars /\ WF_vars(Cycle)

-----------------------------------------------------------------------------
\* The context of a thread, wherever it is kept.
Gone == << >>
Context(t) == IF t \in done THEN Gone ELSE IF t = getcurr THEN cpu ELSE plist[t]

\* The programs that promise a lock, and those that do not.
Locking == Runs \ {"simple_race", "looping_race_nolock", "loop", "wait_for_me", "flag",
                   "flag_withcallret"}

\* From the load of the counter to the store of it.
InCriticalSection(t) ==
    /\ t \notin done
    /\ \E k \in 0 .. 2 :
          LET pc == Context(t).pc - k
          IN  /\ pc \in DOMAIN Code[prog]
              /\ Code[prog][pc] = mov(At(VarAddress(Source[prog], "count")), Reg("ax"))

\* Every lock keeps the threads out of each other's critical section, whenever
\* the interrupts come, and so no increment of the counter is lost.
MutualExclusion ==
    prog \in Locking =>
        /\ \A t, u \in Threads : InCriticalSection(t) /\ InCriticalSection(u) => t = u
        /\ returned => Peek(memory, VarAddress(Source[prog], "count"))
                         = NumThreads * (IF prog = "peterson" THEN 1 ELSE Loops)

\* Every thread of every program halts: nobody spins for ever, as every turn
\* of the schedule brings whoever holds the lock forward.
Termination == <>returned

\* Refinement: switching from process to process on one cpu is the same as
\* every thread having a cpu of its own.
Halts(out) == out.rc = HALT
Machine == INSTANCE ThreadMachine WITH
    Blank <- << >>, halted <- done, ctx <- [t \in Threads |-> Context(t)]

ImplementsThreads == Machine!MachineSpec
=============================================================================
