--------------------------- MODULE ThreadMachine ---------------------------
(***************************************************************************)
(* What x86.py promises about threads: each has a program counter, a set   *)
(* of registers and condition codes of its own and they share the memory.  *)
(* At any time any thread executes its next instruction.                   *)
(***************************************************************************)
CONSTANTS
    Threads,
    Code,                   \* per program, its instructions
    Execute(_, _, _),       \* what one makes of a context and the memory
    Halts(_),               \* whether an outcome is that of a halt
    Start(_, _),            \* the context a thread of a program starts with
    Blank,                  \* the memory at first
    Gone                    \* what is left of the context of a thread that has halted

VARIABLES prog, ctx, memory, halted

machine == <<prog, ctx, memory, halted>>

MachineInit ==
    /\ prog \in DOMAIN Code
    /\ ctx = [t \in Threads |-> Start(prog, t)]
    /\ memory = Blank
    /\ halted = {}

Step(t) ==
    LET out == Execute(Code[prog][ctx[t].pc], ctx[t], memory)
    IN  /\ t \notin halted
        /\ ctx' = [ctx EXCEPT ![t] = IF Halts(out) THEN Gone ELSE out.ctx]
        /\ halted' = IF Halts(out) THEN halted \cup {t} ELSE halted
        /\ memory' = out.mem
        /\ UNCHANGED prog

MachineNext == \E t \in Threads : Step(t)

MachineSpec == MachineInit /\ [][MachineNext]_machine
=============================================================================
