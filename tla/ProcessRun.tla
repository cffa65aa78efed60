----------------------------- MODULE ProcessRun -----------------------------
(***************************************************************************)
(* file-devices/process-run.py, and cpu-intro/process-run.py, an earlier   *)
(* version that ends an I/O with an instruction: processes that compute    *)
(* and wait for I/O on one cpu, with a choice of when to switch and what   *)
(* to run after an I/O.  Statistics and printing are left out, and instead *)
(* of the time an I/O ends the model keeps how long it has to go.          *)
(***************************************************************************)
EXTENDS Integers, Sequences, SequencesExt, FiniteSets

CONSTANT
    Systems     \* [version, programs, process_switch_behavior, io_done_behavior, io_length]

\* What the constants have to be; MC modules assume it of the values they give them.
ProcessRunAssumption ==
    \A s \in Systems :
        /\ s.version \in {"cpu-intro", "file-devices"}
        /\ s.process_switch_behavior \in {"SWITCH_ON_IO", "SWITCH_ON_END"}
        /\ s.io_done_behavior \in {"IO_RUN_LATER", "IO_RUN_IMMEDIATE"}
        /\ s.io_length \in Nat
        /\ s.programs \in Seq(Seq({"c", "i", "p"})) \ {<< >>}
        /\ s.version = "cpu-intro" => \A p \in ToSet(s.programs) : "p" \notin ToSet(p)

VARIABLES
    system,
    proc_code,      \* per process, the instructions that are left
    proc_state,     \* per process, "READY", "RUNNING", "WAITING" or "DONE"
    curr_proc,
    io_left         \* per process, in how many ticks its I/O is seen to be done, or 0

processVars == <<system, proc_code, proc_state, curr_proc, io_left>>

Pids == DOMAIN system.programs

\* load_program: a programmed I/O keeps the cpu busy; in the earlier version the end of
\* an I/O takes an instruction.
Instructions(s, op) ==
    CASE op = "c" -> <<"cpu">>
      [] op = "i" -> IF s.version = "cpu-intro" THEN <<"io", "io_done">> ELSE <<"io">>
      [] op = "p" -> [i \in 1 .. s.io_length |-> "p_io"]

load_program(s, program) ==
    FlattenSeq([i \in DOMAIN program |-> Instructions(s, program[i])])

ProcessRunInit ==
    /\ system \in Systems
    /\ proc_code = [p \in Pids |-> load_program(system, system.programs[p])]
    /\ proc_state = [p \in Pids |-> IF p = 1 THEN "RUNNING" ELSE "READY"]
    /\ curr_proc = 1
    /\ io_left = [p \in Pids |-> 0]

-----------------------------------------------------------------------------
\* st has the states of the processes and the current one, as they change in a tick.
Now == [state |-> proc_state, curr |-> curr_proc]

Runs(st, p) == [state |-> [st.state EXCEPT ![p] = "RUNNING"], curr |-> p]

\* next_proc: round from the current one on; it is itself the last to be asked.
next_proc(st) ==
    LET n == Len(system.programs)
        Round(k) == IF st.curr + k > n THEN st.curr + k - n ELSE st.curr + k
        ready == {k \in 1 .. n : st.state[Round(k)] = "READY"}
    IN  IF ready = {} THEN st
        ELSE Runs(st, Round(CHOOSE k \in ready : \A l \in ready : k <= l))

\* The current process has nothing left to do.
check_if_done(st, code) ==
    IF code[st.curr] = << >> /\ st.state[st.curr] = "RUNNING"
    THEN next_proc([st EXCEPT !.state[st.curr] = "DONE"]) ELSE st

Runnable(st) == Cardinality({p \in Pids : st.state[p] \in {"READY", "RUNNING"}})

\* Faulty: a process that may not be interrupted is not run again after its I/O.
io_ended_Ready(st, p) ==
    LET ready == [st EXCEPT !.state[p] = "READY"]
        preempted == IF ready.curr # p /\ ready.state[ready.curr] = "RUNNING"
                     THEN [ready EXCEPT !.state[ready.curr] = "READY"] ELSE ready
    IN  check_if_done(CASE system.io_done_behavior = "IO_RUN_IMMEDIATE" -> Runs(preempted, p)
                        [] OTHER -> IF Runnable(ready) = 1 THEN Runs(ready, p) ELSE ready,
                      proc_code)

\* Faulty: the process that is interrupted stays as it is.
io_ended_StillRuns(st, p) ==
    LET ready == [st EXCEPT !.state[p] = "READY"]
        runs == \/ system.io_done_behavior = "IO_RUN_IMMEDIATE" \/ Runnable(ready) = 1
                \/ system.process_switch_behavior = "SWITCH_ON_END"
    IN  check_if_done(IF runs THEN Runs(ready, p) ELSE ready, proc_code)

\* The I/O of p has ended.
io_ended(st, p) ==
    LET ready == [st EXCEPT !.state[p] = "READY"]
        preempted == IF ready.curr # p /\ ready.state[ready.curr] = "RUNNING"
                     THEN [ready EXCEPT !.state[ready.curr] = "READY"] ELSE ready
        runsAtOnce == \/ Runnable(ready) = 1
                      \/ system.process_switch_behavior = "SWITCH_ON_END"
        woken == CASE system.io_done_behavior = "IO_RUN_IMMEDIATE" -> Runs(preempted, p)
                   [] system.io_done_behavior = "IO_RUN_LATER" /\ runsAtOnce -> Runs(ready, p)
                   [] OTHER -> ready
    IN  check_if_done(woken, proc_code)

\* The program asks every process; that no two I/Os end in one tick is part of CpuShared.
Ends(p) == io_left[p] = 1
AfterIO ==
    IF \E p \in Pids : Ends(p) THEN io_ended(Now, CHOOSE p \in Pids : Ends(p)) ELSE Now

\* The running process waits until it is io_length ticks later; in the earlier version
\* one tick more.
IOLength == IF system.version = "cpu-intro" THEN system.io_length + 1 ELSE system.io_length

IOIssued(st) ==
    LET waits == [st EXCEPT !.state[st.curr] = "WAITING"]
    IN  IF system.process_switch_behavior = "SWITCH_ON_IO" THEN next_proc(waits) ELSE waits

\* One tick: the I/Os that end, then an instruction of the current process.
Tick ==
    /\ \E p \in Pids : proc_state[p] # "DONE"
    /\ \E st \in {AfterIO} :
        LET p == st.curr
            executes == st.state[p] = "RUNNING" /\ proc_code[p] # << >>
            code == IF executes THEN [proc_code EXCEPT ![p] = Tail(@)] ELSE proc_code
            io == executes /\ Head(proc_code[p]) = "io"
            left == [q \in Pids |-> IF io_left[q] > 0 THEN io_left[q] - 1 ELSE 0]
            end == check_if_done(IF io THEN IOIssued(st) ELSE st, code)
        IN  /\ proc_code' = code
            /\ proc_state' = end.state
            /\ curr_proc' = end.curr
            /\ io_left' = IF io THEN [left EXCEPT ![p] = IOLength] ELSE left
    /\ UNCHANGED system

ProcessRunSpec == ProcessRunInit /\ [][Tick]_processVars /\ WF_processVars(Tick)

-----------------------------------------------------------------------------
\* One process at most has the cpu, the current one; a process waits as long as its I/O
\* goes on, and no two I/Os end at once; and a switching system never leaves the cpu idle
\* while a process is ready.
CpuShared ==
    /\ \A p \in Pids : proc_state[p] = "RUNNING" => p = curr_proc
    /\ \A p \in Pids : io_left[p] > 0 => proc_state[p] = "WAITING"
    /\ \A p, q \in Pids : Ends(p) /\ Ends(q) => p = q
    /\ system.process_switch_behavior = "SWITCH_ON_IO"
       /\ (\E p \in Pids : proc_state[p] = "READY") => proc_state[curr_proc] = "RUNNING"

\* All processes finish, but where an I/O takes no time in the later version: its end is
\* looked for in the tick after, and then it has passed.
EndsMissed == system.io_length = 0 /\ system.version = "file-devices"
              /\ \E p \in Pids : proc_state[p] = "WAITING"
Ended == EndsMissed \/ \A p \in Pids : proc_state[p] = "DONE"
=============================================================================
