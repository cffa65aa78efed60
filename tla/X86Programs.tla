---------------------------- MODULE X86Programs ----------------------------
(***************************************************************************)
(* The programs of threads-locks/ and threads-intro/ that x86.py runs, and *)
(* how cpu.load puts one into memory.  A source is its .var declarations,  *)
(* with their sizes, and its lines, each a label or an instruction; loading*)
(* gives the variables and the labels their addresses.                     *)
(***************************************************************************)
EXTENDS X86Instructions, Sequences, FiniteSets

loadaddr == 1000        \* -L
FirstVar == 100         \* where load puts the first .var

Label(l)      == [op |-> "label", name |-> l]
Var(v)        == [type |-> "variable", name |-> v]
At(a)         == Mem(a, "zero", "zero", 1)
Two(op, s, d) == [op |-> op, src |-> s, dst |-> d]
mov(s, d)     == Two("mov", s, d)
One(op, s)    == [op |-> op, src |-> s]
Bare(op)      == [op |-> op]
J(cond, l)    == [op |-> "j", cond |-> cond, targ |-> l]
Call(l)       == [op |-> "call", targ |-> l]

-----------------------------------------------------------------------------
\* The critical section of all programs with a lock, and of one without.
Increment(x) == << mov(x, Reg("ax")), Two("add", Imm(1), Reg("ax")), mov(Reg("ax"), x) >>
CriticalSection == Increment(Var("count"))

\* see if we're still looping
StillLooping ==
    << Two("sub", Imm(1), Reg("bx")), Two("test", Imm(0), Reg("bx")), J("gt", "top"),
       Bare("halt") >>

simple_race == [vars |-> << >>, lines |-> Increment(Mem(2000, "bx", "zero", 1)) \o <<Bare("halt")>>]

looping_race_nolock ==
    [vars |-> << >>, lines |-> <<Label("top")>> \o Increment(At(2000)) \o StillLooping]

loop ==
    [vars |-> << >>,
     lines |-> << Label("top"), Two("sub", Imm(1), Reg("dx")), Two("test", Imm(0), Reg("dx")),
                  J("gte", "top"), Bare("halt") >>]

wait_for_me ==
    [vars |-> << >>,
     lines |-> << Two("test", Imm(1), Reg("ax")), J("eq", "signaller"),
                  Label("waiter"), mov(At(2000), Reg("cx")), Two("test", Imm(1), Reg("cx")),
                  J("neq", "waiter"), Bare("halt"),
                  Label("signaller"), mov(Imm(1), At(2000)), Bare("halt") >>]

flag ==
    [vars |-> << <<"flag", 1>>, <<"count", 1>> >>,
     lines |-> << Label("top"),
                  Label("acquire"), mov(Var("flag"), Reg("ax")), Two("test", Imm(0), Reg("ax")),
                  J("neq", "acquire"), mov(Imm(1), Var("flag")) >>
               \o CriticalSection \o << mov(Imm(0), Var("flag")) >> \o StillLooping]

\* Faulty: the swap is a load and a store.
Swap_TwoSteps(x) == << mov(x, Reg("cx")), mov(Reg("ax"), x), mov(Reg("cx"), Reg("ax")) >>

\* The exchange all the test-and-set programs are built on.
Swap(x) == << Two("xchg", Reg("ax"), x) >>

test_and_set ==
    [vars |-> << <<"mutex", 1>>, <<"count", 1>> >>,
     lines |-> << Label("top"), Label("acquire"), mov(Imm(1), Reg("ax")) >> \o Swap(Var("mutex"))
               \o << Two("test", Imm(0), Reg("ax")), J("neq", "acquire") >>
               \o CriticalSection \o << mov(Imm(0), Var("mutex")) >> \o StillLooping]

test_and_test_and_set ==
    [vars |-> << <<"mutex", 1>>, <<"count", 1>> >>,
     lines |-> << Label("top"), Label("acquire"),
                  mov(Var("mutex"), Reg("ax")), Two("test", Imm(0), Reg("ax")), J("neq", "acquire"),
                  mov(Imm(1), Reg("ax")) >> \o Swap(Var("mutex"))
               \o << Two("test", Imm(0), Reg("ax")), J("neq", "acquire") >>
               \o CriticalSection \o << mov(Imm(0), Var("mutex")) >> \o StillLooping]

yield ==
    [vars |-> << <<"mutex", 1>>, <<"count", 1>> >>,
     lines |-> << Label("top"), Label("acquire"), mov(Imm(1), Reg("ax")) >> \o Swap(Var("mutex"))
               \o << Two("test", Imm(0), Reg("ax")), J("eq", "acquire_done"),
                     Bare("yield"), J("always", "acquire"), Label("acquire_done") >>
               \o CriticalSection \o << mov(Imm(0), Var("mutex")) >> \o StillLooping]

ticket ==
    [vars |-> << <<"ticket", 1>>, <<"turn", 1>>, <<"count", 1>> >>,
     lines |-> << Label("top"), Label("acquire"),
                  mov(Imm(1), Reg("ax")), Two("fetchadd", Reg("ax"), Var("ticket")),
                  Label("tryagain"), mov(Var("turn"), Reg("cx")),
                  Two("test", Reg("cx"), Reg("ax")), J("neq", "tryagain") >>
               \o CriticalSection
               \o << mov(Imm(1), Reg("ax")), Two("fetchadd", Reg("ax"), Var("turn")) >>
               \o StillLooping]

peterson ==
    LET flag_self  == Mem(0, "fx", "bx", 4)
        flag_other == Mem(0, "fx", "cx", 4)
    IN  [vars |-> << <<"flag", 2>>, <<"turn", 1>>, <<"count", 1>> >>,
         lines |-> << Two("lea", Var("flag"), Reg("fx")), mov(Reg("bx"), Reg("cx")),
                      One("neg", Reg("cx")), Two("add", Imm(1), Reg("cx")),
                      Label("acquire"), mov(Imm(1), flag_self), mov(Reg("cx"), Var("turn")),
                      Label("spin1"), mov(flag_other, Reg("ax")), Two("test", Imm(1), Reg("ax")),
                      J("neq", "fini"),
                      Label("spin2"), mov(Var("turn"), Reg("ax")), Two("test", Reg("cx"), Reg("ax")),
                      J("eq", "spin1"), Label("fini") >>
                   \o CriticalSection
                   \o << Label("release"), mov(Imm(0), flag_self), mov(Reg("cx"), Var("turn")),
                         Bare("halt") >>]

\* The argument is looked for below the stack pointer, so the lock word is
\* whatever address has been left there.
looping_race_withlock_withcallret ==
    [vars |-> << <<"mutex", 1>>, <<"count", 1>> >>,
     lines |-> << Label("top"), One("push", Var("mutex")), Call("lock"), Bare("pop") >>
               \o CriticalSection
               \o << One("push", Var("mutex")), Call("unlock"), Bare("pop") >> \o StillLooping
               \o << Label("lock"), Label("acquire"), mov(Mem(-4, "sp", "zero", 1), Reg("ax")),
                     mov(Imm(1), Reg("cx")), Two("xchg", Reg("cx"), Mem(0, "ax", "zero", 1)),
                     Two("test", Imm(0), Reg("cx")), J("neq", "acquire"), Bare("ret"),
                     Label("unlock"), mov(Mem(-4, "sp", "zero", 1), Reg("ax")),
                     mov(Imm(0), Mem(0, "ax", "zero", 1)), Bare("ret") >>]

\* The flag's value is taken for its address: 1 is stored at address 0.
flag_withcallret ==
    [vars |-> << <<"mutex", 1>>, <<"count", 1>> >>,
     lines |-> << Label("top"), mov(Reg("sp"), Reg("bp")), Two("lea", Var("mutex"), Reg("ax")),
                  One("push", Reg("ax")), Call("lock"), Bare("pop") >>
               \o CriticalSection
               \o << Two("lea", Var("mutex"), Reg("ax")), One("push", Reg("ax")),
                     Call("unlock"), Bare("pop") >> \o StillLooping
               \o << Label("lock"), Label("acquire"), One("push", Reg("bp")),
                     mov(Reg("sp"), Reg("bp")), mov(Mem(8, "bp", "zero", 1), Reg("ax")),
                     mov(Mem(0, "ax", "zero", 1), Reg("cx")), Two("test", Imm(0), Reg("cx")),
                     J("neq", "acquire"), mov(Imm(1), Mem(0, "cx", "zero", 1)),
                     One("pop_r", Reg("bp")), Bare("ret"),
                     Label("unlock"), mov(Mem(8, "bp", "zero", 1), Reg("ax")),
                     mov(Imm(0), Mem(0, "ax", "zero", 1)), Bare("ret") >>]

Source ==
    [simple_race |-> simple_race, looping_race_nolock |-> looping_race_nolock, loop |-> loop,
     wait_for_me |-> wait_for_me, flag |-> flag, test_and_set |-> test_and_set,
     test_and_test_and_set |-> test_and_test_and_set, yield |-> yield, ticket |-> ticket,
     peterson |-> peterson,
     looping_race_withlock_withcallret |-> looping_race_withlock_withcallret,
     flag_withcallret |-> flag_withcallret]

-----------------------------------------------------------------------------
\* cpu.load, first pass: the addresses of variables and labels.  A variable comes behind
\* the ones before it, a line behind the instructions before it.
VarAddress(s, v) ==
    LET data[k \in DOMAIN s.vars] == IF k = 1 THEN FirstVar ELSE data[k - 1] + 4 * s.vars[k - 1][2]
    IN  data[CHOOSE k \in DOMAIN s.vars : s.vars[k][1] = v]

Instructions(s) == {k \in DOMAIN s.lines : s.lines[k].op # "label"}
LineAddress(s, k) == loadaddr + Cardinality({i \in Instructions(s) : i < k})
LabelAddress(s, l) == LineAddress(s, CHOOSE k \in DOMAIN s.lines : s.lines[k] = Label(l))

\* Second pass: every line but a label becomes an instruction without names.
getarg(s, x) == IF x.type = "variable" THEN At(VarAddress(s, x.name)) ELSE x
Encode(s, i) ==
    CASE i.op = "j"                             -> J(i.cond, LabelAddress(s, i.targ))
      [] i.op = "call"                          -> Call(LabelAddress(s, i.targ))
      [] i.op \in {"neg", "push", "pop_r"}      -> One(i.op, getarg(s, i.src))
      [] i.op \in {"pop", "ret", "yield", "halt"} -> i
      [] OTHER                                  -> Two(i.op, getarg(s, i.src), getarg(s, i.dst))

load(s) ==
    [pc \in {LineAddress(s, k) : k \in Instructions(s)} |->
        Encode(s, s.lines[CHOOSE k \in Instructions(s) : LineAddress(s, k) = pc])]

Programs == DOMAIN Source
Code     == [p \in Programs |-> load(Source[p])]

\* The registers -a sets: the loop count, or who the thread is.
Argv(p, t, loops) ==
    CASE p = "peterson"    -> [bx |-> t]
      [] p = "wait_for_me" -> [ax |-> IF t = 0 THEN 1 ELSE 0]
      [] p = "loop"        -> [dx |-> loops]
      [] p = "simple_race" -> [ax |-> 0]
      [] OTHER             -> [bx |-> loops]
=============================================================================
