------------------------------- MODULE Multi -------------------------------
(***************************************************************************)
(* cpu-sched-multi/multi.py: jobs on several cpus with a cache each, from  *)
(* one queue or from a queue per cpu with stealing.  A job runs faster on  *)
(* a cpu whose cache holds its working set.  Names are made up, statistics *)
(* and traces are left out; what is drawn at random is any choice.         *)
(***************************************************************************)
EXTENDS Integers, Sequences, Steps, FiniteSetsExt

CONSTANT
    Machines    \* [jobs, per name [run_time, working_set_size, affinity]; job_name_list;
                \*  num_cpus, per_cpu_queues, peek_interval, time_slice, random_order;
                \*  cache_size, cache_rate_warm, cache_warmup_time]

\* What the constants have to be; MC modules assume it of the values they give them.
MultiAssumption ==
    \A m \in Machines :
        /\ m.num_cpus \in Nat \ {0} /\ m.time_slice \in Nat \ {0} /\ m.peek_interval \in Nat
        /\ m.cache_size \in Nat /\ m.cache_rate_warm \in Nat \ {0} /\ m.cache_warmup_time \in Nat
        /\ {m.per_cpu_queues, m.random_order} \subseteq BOOLEAN
        /\ ToSet(m.job_name_list) = DOMAIN m.jobs
        /\ Cardinality(DOMAIN m.jobs) = Len(m.job_name_list)
        /\ \A j \in DOMAIN m.jobs :
              /\ m.jobs[j].run_time \in Nat /\ m.jobs[j].working_set_size \in Nat
              /\ m.jobs[j].affinity \subseteq 0 .. m.num_cpus - 1

VARIABLES
    machine,
    sched_queue,        \* per queue: one for all cpus, number 0, or one for each
    sched_current,      \* per cpu, the job it runs or Nobody
    time_left,          \* per job, Done when it has finished
    cache_contents,     \* per cpu, the jobs that are warm, the latest first
    cache_warming,      \* per cpu and job that warms up, how long it has to
    system_time,        \* modulo what interrupts and peeks are timed by
    crashed             \* random.choice was given no cpu

multiVars == <<machine, sched_queue, sched_current, time_left, cache_contents,
               cache_warming, system_time, crashed>>

Nobody == ""
Cpus == 0 .. machine.num_cpus - 1
QueueOf(cpu) == IF machine.per_cpu_queues THEN cpu ELSE 0
Queues == {QueueOf(cpu) : cpu \in Cpus}
AnyCpu(j) == machine.jobs[j].affinity = {}
MayRun(j, cpu) == AnyCpu(j) \/ cpu \in machine.jobs[j].affinity
Done == -1
Finished(j) == time_left[j] = Done
CpuList == [i \in 1 .. machine.num_cpus |-> i - 1]

\* From one to the next cpu, round after round, each is given the first job that may
\* run on it.
Assigned ==
    LET Deal(st, cpu) ==
            LET n == SelectInSeq(st.left, LAMBDA j : MayRun(j, cpu))
            IN  IF n = 0 THEN st
                ELSE [left |-> RemoveAt(st.left, n),
                      queues |-> [st.queues EXCEPT ![cpu] = Append(@, st.left[n])]]
        rounds == FlattenSeq([i \in DOMAIN machine.job_name_list |-> CpuList])
    IN  ForEach(Deal, [left |-> machine.job_name_list, queues |-> [c \in Cpus |-> << >>]],
                rounds).queues

MultiInit ==
    /\ machine \in Machines
    /\ sched_queue = IF machine.per_cpu_queues THEN Assigned ELSE (0 :> machine.job_name_list)
    /\ sched_current = [cpu \in Cpus |-> Nobody]
    /\ time_left = [j \in DOMAIN machine.jobs |-> machine.jobs[j].run_time]
    /\ cache_contents = [cpu \in Cpus |-> << >>]
    /\ cache_warming = [cpu \in Cpus |-> << >>]
    /\ system_time = 0
    /\ crashed = FALSE

-----------------------------------------------------------------------------
\* The cache of a cpu, c: contents and warming.
With(f, x, v) == [y \in DOMAIN f \cup {x} |-> IF y = x THEN v ELSE f[y]]
Without(f, x) == [y \in DOMAIN f \ {x} |-> f[y]]

WorkingSets(contents) ==
    FoldLeft(LAMBDA sum, j : sum + machine.jobs[j].working_set_size, 0, contents)

\* adjust_size: the oldest go, and have to warm up again, until the rest fits.
adjust_size(c) ==
    LET EvictLast(st, i) ==
            IF WorkingSets(st.contents) <= machine.cache_size THEN st
            ELSE [contents |-> Front(st.contents),
                  warming |-> With(st.warming, Last(st.contents), machine.cache_warmup_time)]
    IN  ForEach(EvictLast, c, c.contents)

Warm(c, j) ==
    adjust_size([contents |-> <<j>> \o c.contents, warming |-> Without(c.warming, j)])

new_job(c, j) ==
    CASE j \in ToSet(c.contents) \cup DOMAIN c.warming -> c
      [] j \notin ToSet(c.contents) \cup DOMAIN c.warming /\ machine.cache_warmup_time = 0 ->
            Warm(c, j)
      [] OTHER -> [c EXCEPT !.warming = With(@, j, machine.cache_warmup_time)]

update_warming(c, j) ==
    IF j \notin DOMAIN c.warming THEN c
    ELSE IF c.warming[j] <= 1 THEN Warm(c, j)
         ELSE [c EXCEPT !.warming[j] = @ - 1]

-----------------------------------------------------------------------------
\* The parts of a tick.  st has queues, current, left and caches.
Now == [queues |-> sched_queue, current |-> sched_current, left |-> time_left,
        caches |-> [cpu \in Cpus |-> [contents |-> cache_contents[cpu],
                                      warming |-> cache_warming[cpu]]]]

At(interval) == system_time > 0 /\ system_time % interval = 0

\* At the end of a time slice what runs goes back to a queue.
handle_interrupts(st) ==
    LET Deschedule(s, cpu) ==
            IF s.current[cpu] = Nobody THEN s
            ELSE [s EXCEPT !.current[cpu] = Nobody,
                           !.queues[QueueOf(cpu)] = Append(@, s.current[cpu])]
    IN  IF At(machine.time_slice) THEN ForEach(Deschedule, st, CpuList) ELSE st

\* A cpu whose queue is empty looks at another one, victim[cpu].  The test for affinity
\* looks for the cpu among the fields of the job instead, and finds its run time or its
\* working set.
Steals == machine.per_cpu_queues /\ machine.peek_interval > 0 /\ At(machine.peek_interval)
\* Faulty: the test the wrong way round.
LooksStealable_Inverted(j, cpu) == cpu \notin machine.jobs[j].affinity

LooksStealable(j, cpu) ==
    AnyCpu(j) \/ cpu \in {machine.jobs[j].run_time, machine.jobs[j].working_set_size}

steal_jobs(st, victim) ==
    LET Steal(s, cpu) ==
            LET from == s.queues[victim[cpu]]
                n == SelectInSeq(from, LAMBDA j : LooksStealable(j, cpu))
            IN  IF s.queues[cpu] # << >> \/ n = 0 THEN s
                ELSE [s EXCEPT !.queues[victim[cpu]] = RemoveAt(@, n),
                               !.queues[cpu] = <<from[n]>>]
    IN  ForEach(Steal, st, CpuList)

get_job(st, cpu) ==
    LET n == SelectInSeq(st.queues[QueueOf(cpu)], LAMBDA j : MayRun(j, cpu))
        j == st.queues[QueueOf(cpu)][n]
    IN  IF st.current[cpu] # Nobody \/ n = 0 THEN st
        ELSE [st EXCEPT !.queues[QueueOf(cpu)] = RemoveAt(@, n), !.current[cpu] = j,
                        !.caches[cpu] = new_job(@, j)]

run_one_tick(st, cpu) ==
    LET j == st.current[cpu]
        rate == IF Contains(st.caches[cpu].contents, j) THEN machine.cache_rate_warm ELSE 1
    IN  CASE j = Nobody -> st
          [] j # Nobody /\ st.left[j] <= rate ->
                [st EXCEPT !.caches[cpu] = update_warming(@, j),
                           !.left[j] = Done, !.current[cpu] = Nobody]
          [] OTHER -> [st EXCEPT !.caches[cpu] = update_warming(@, j), !.left[j] = @ - rate]

\* The orders in which the cpus get jobs, and the choices of whom to steal from.
Orders == IF machine.random_order THEN SetToSeqs(Cpus) ELSE {CpuList}
Victims == {f \in [Cpus -> Cpus] : \A cpu \in Cpus : f[cpu] # cpu}

Running == \E j \in DOMAIN machine.jobs : ~ Finished(j)

Becomes(st) ==
    /\ sched_queue' = st.queues /\ sched_current' = st.current /\ time_left' = st.left
    /\ cache_contents' = [cpu \in Cpus |-> st.caches[cpu].contents]
    /\ cache_warming' = [cpu \in Cpus |-> st.caches[cpu].warming]

\* A turn of run.  The time matters by its remainders only.
Tick ==
    /\ Running /\ ~ crashed
    /\ system_time' = IF system_time = machine.time_slice * Max({machine.peek_interval, 1})
                      THEN 1 ELSE system_time + 1
    /\ UNCHANGED machine
    /\ \E st \in {handle_interrupts(Now)} :
          \/ /\ Steals /\ machine.num_cpus = 1 /\ st.queues[0] = << >>
             /\ crashed' = TRUE
             /\ UNCHANGED <<sched_queue, sched_current, time_left, cache_contents,
                            cache_warming>>
          \/ /\ ~ (Steals /\ machine.num_cpus = 1 /\ st.queues[0] = << >>)
             /\ \E stolen \in IF Steals /\ machine.num_cpus > 1
                              THEN {steal_jobs(st, v) : v \in Victims} ELSE {st} :
                \E given \in {ForEach(get_job, stolen, o) : o \in Orders} :
                \E ran \in {ForEach(run_one_tick, given, CpuList)} : Becomes(ran)
             /\ UNCHANGED crashed

MultiSpec == MultiInit /\ [][Tick]_multiVars /\ WF_multiVars(Tick)

-----------------------------------------------------------------------------
Queued(j) == UNION {{q} \X {n \in DOMAIN sched_queue[q] : sched_queue[q][n] = j} : q \in Queues}
RunsOn(j) == {cpu \in Cpus : sched_current[cpu] = j}

\* A job that is not finished waits in one place or runs on one cpu, one it may run on,
\* whoever steals it and however the cpus take turns; and what a cache holds fits in.
RunsOnce ==
    /\ \A j \in DOMAIN machine.jobs :
          /\ Cardinality(Queued(j)) + Cardinality(RunsOn(j)) = (IF Finished(j) THEN 0 ELSE 1)
          /\ \A cpu \in RunsOn(j) : MayRun(j, cpu)
    /\ \A cpu \in Cpus :
          /\ WorkingSets(cache_contents[cpu]) <= machine.cache_size
          /\ ToSet(cache_contents[cpu]) \cap DOMAIN cache_warming[cpu] = {}

\* A job waits with a cpu it may not run on only if it was stolen by a cpu whose number
\* is its run time or its working set.
Strays(j) == machine.per_cpu_queues /\ \E q \in Queued(j) : ~ MayRun(j, q[1])

Confined ==
    \A j \in DOMAIN machine.jobs :
        Strays(j) => {machine.jobs[j].run_time, machine.jobs[j].working_set_size} \cap Cpus # {}

\* The jobs come to an end, but for those nobody may run where they are.
Ended == ~ Running \/ crashed \/ \E j \in DOMAIN machine.jobs : Strays(j)
=============================================================================
