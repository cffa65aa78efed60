-------------------------- MODULE X86Instructions --------------------------
(***************************************************************************)
(* The instructions of threads-locks/x86.py.  A thread's context is its    *)
(* program counter, registers and condition codes; memory holds 0 wherever *)
(* nothing has been written.  Execute gives what one instruction makes of  *)
(* the two, the program counter being incremented before, and the code by  *)
(* which it asks run() for a switch.                                       *)
(***************************************************************************)
EXTENDS Integers

Registers == {"zero", "ax", "bx", "cx", "dx", "ex", "fx", "sp", "bp"}
Conditions == {"gt", "gte", "lt", "lte", "eq", "neq"}

\* init_memory, and what every access makes of it
Peek(mem, a) == IF a \in DOMAIN mem THEN mem[a] ELSE 0
Poke(mem, a, v) == [x \in DOMAIN mem \cup {a} |-> IF x = a THEN v ELSE mem[x]]

\* Operands, as getarg tells them apart.
Imm(i)  == [type |-> "immediate", value |-> i]
Reg(r)  == [type |-> "register", reg |-> r]
Mem(v, r1, r2, s) == [type |-> "memory", value |-> v, reg1 |-> r1, reg2 |-> r2, scale |-> s]

Address(x, regs) == x.value + regs[x.reg1] + x.scale * regs[x.reg2]
\* atomic_exchange and fetchadd do not scale.
LockAddress(x, regs) == x.value + regs[x.reg1] + regs[x.reg2]

Operand(x, c, mem) ==
    CASE x.type = "immediate" -> x.value
      [] x.type = "register"  -> c.regs[x.reg]
      [] x.type = "memory"    -> Peek(mem, Address(x, c.regs))

\* What an instruction leaves behind: context, memory and return code.
HALT  == -1
YIELD == -2
Outcome(c, mem) == [ctx |-> c, mem |-> mem, rc |-> 0]
SetReg(c, r, v) == [c EXCEPT !.regs[r] = v]

-----------------------------------------------------------------------------
move(i, c, mem) ==
    IF i.dst.type = "register"
    THEN Outcome(SetReg(c, i.dst.reg, Operand(i.src, c, mem)), mem)
    ELSE Outcome(c, Poke(mem, Address(i.dst, c.regs), Operand(i.src, c, mem)))

lea_m_to_r(i, c, mem) == Outcome(SetReg(c, i.dst.reg, Address(i.src, c.regs)), mem)

arithmetic(i, c, mem) ==
    LET s == Operand(i.src, c, mem)
        d == c.regs[i.dst.reg]
    IN  Outcome(SetReg(c, i.dst.reg, CASE i.op = "add" -> d + s
                                       [] i.op = "sub" -> d - s
                                       [] i.op = "mul" -> d * s), mem)

neg_r(i, c, mem) == Outcome(SetReg(c, i.src.reg, -c.regs[i.src.reg]), mem)

\* Faulty: the register keeps its value.
atomic_exchange_KeepsRegister(i, c, mem) ==
    Outcome(c, Poke(mem, LockAddress(i.dst, c.regs), c.regs[i.src.reg]))

atomic_exchange(i, c, mem) ==
    LET a == LockAddress(i.dst, c.regs)
    IN  Outcome(SetReg(c, i.src.reg, Peek(mem, a)), Poke(mem, a, c.regs[i.src.reg]))

fetchadd(i, c, mem) ==
    LET a == LockAddress(i.dst, c.regs)
    IN  Outcome(SetReg(c, i.src.reg, Peek(mem, a)),
                Poke(mem, a, Peek(mem, a) + c.regs[i.src.reg]))

\* test_all compares the destination with the source.
Compare(s, d) ==
    [gt |-> d > s, gte |-> d >= s, lt |-> d < s, lte |-> d <= s, eq |-> d = s, neq |-> d # s]
test(i, c, mem) ==
    Outcome([c EXCEPT !.cc = Compare(Operand(i.src, c, mem), Operand(i.dst, c, mem))], mem)

jump(i, c, mem) ==
    Outcome(IF i.cond = "always" THEN [c EXCEPT !.pc = i.targ]
            ELSE IF c.cc[i.cond] THEN [c EXCEPT !.pc = i.targ] ELSE c, mem)

call(i, c, mem) ==
    LET sp == c.regs["sp"] - 4
    IN  Outcome([SetReg(c, "sp", sp) EXCEPT !.pc = i.targ], Poke(mem, sp, c.pc))

ret(i, c, mem) ==
    LET sp == c.regs["sp"]
    IN  Outcome([SetReg(c, "sp", sp + 4) EXCEPT !.pc = Peek(mem, sp)], mem)

\* push_m pushes the address of its operand, not what is stored there.
push(i, c, mem) ==
    LET sp == c.regs["sp"] - 4
        d  == SetReg(c, "sp", sp)
    IN  Outcome(d, Poke(mem, sp, IF i.src.type = "register" THEN d.regs[i.src.reg]
                                 ELSE Address(i.src, d.regs)))

pop(i, c, mem) == Outcome(SetReg(c, "sp", c.regs["sp"] + 4), mem)

pop_r(i, c, mem) ==
    LET d == SetReg(c, i.src.reg, Peek(mem, c.regs["sp"]))
    IN  Outcome(SetReg(d, "sp", d.regs["sp"] + 4), mem)

\* eval(instruction)
Effect(i, c, mem) ==
    CASE i.op = "mov"                 -> move(i, c, mem)
      [] i.op = "lea"                 -> lea_m_to_r(i, c, mem)
      [] i.op \in {"add", "sub", "mul"} -> arithmetic(i, c, mem)
      [] i.op = "neg"                 -> neg_r(i, c, mem)
      [] i.op = "xchg"                -> atomic_exchange(i, c, mem)
      [] i.op = "fetchadd"            -> fetchadd(i, c, mem)
      [] i.op = "test"                -> test(i, c, mem)
      [] i.op = "j"                   -> jump(i, c, mem)
      [] i.op = "call"                -> call(i, c, mem)
      [] i.op = "ret"                 -> ret(i, c, mem)
      [] i.op = "push"                -> push(i, c, mem)
      [] i.op = "pop"                 -> pop(i, c, mem)
      [] i.op = "pop_r"               -> pop_r(i, c, mem)
      [] i.op = "yield"               -> [Outcome(c, mem) EXCEPT !.rc = YIELD]
      [] i.op = "halt"                -> [Outcome(c, mem) EXCEPT !.rc = HALT]
      [] OTHER                        -> Outcome(c, mem)    \* nop, rdump, mdump

Execute(i, c, mem) == Effect(i, [c EXCEPT !.pc = @ + 1], mem)
=============================================================================
