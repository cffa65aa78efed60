-------------------------------- MODULE MLFQ --------------------------------
(***************************************************************************)
(* cpu-sched-mlfq/mlfq.py: the multi-level feedback queue.  A job runs for *)
(* a quantum at a time and goes one queue down when it has used up its     *)
(* allotment of quanta; an I/O takes it off its queue for a while; a boost *)
(* takes all jobs back to the top.  Statistics and printing are left out.  *)
(***************************************************************************)
EXTENDS Integers, Sequences, Steps, FiniteSets

CONSTANT
    Workloads   \* [jobs, a sequence of [startTime, runTime, ioFreq]; quantum and
                \*  allotment per queue; boost; ioTime; stay; iobump]

Levels(w) == DOMAIN w.quantum

\* What the constants have to be; MC modules assume it of the values they give them.
MLFQAssumption ==
    \A w \in Workloads :
        /\ Levels(w) = 0 .. Cardinality(Levels(w)) - 1 /\ Levels(w) # {}
        /\ DOMAIN w.allotment = Levels(w)
        /\ \A q \in Levels(w) : w.quantum[q] \in Nat \ {0} /\ w.allotment[q] \in Nat \ {0}
        /\ w.boost \in Nat /\ w.ioTime \in Nat \ {0} /\ {w.stay, w.iobump} \subseteq BOOLEAN
        /\ \A j \in DOMAIN w.jobs :
              w.jobs[j].startTime \in Nat /\ w.jobs[j].runTime \in Nat \ {0}
              /\ w.jobs[j].ioFreq \in Nat

VARIABLES
    workload,
    job,            \* per job: currPri, ticksLeft, allotLeft, timeLeft, doingIO
    queue,          \* per level, the jobs that are ready
    ioDone,         \* what is to come, as [time, job, type], in the order it was noted
    currTime,
    finishedJobs

mlfqVars == <<workload, job, queue, ioDone, currTime, finishedJobs>>

Jobs == DOMAIN workload.jobs
hiQueue == Cardinality(Levels(workload)) - 1

MLFQInit ==
    /\ workload \in Workloads
    /\ job = [j \in Jobs |->
                [currPri |-> hiQueue, ticksLeft |-> workload.quantum[hiQueue],
                 allotLeft |-> workload.allotment[hiQueue],
                 timeLeft |-> workload.jobs[j].runTime, doingIO |-> FALSE]]
    /\ queue = [q \in Levels(workload) |-> << >>]
    /\ ioDone = [j \in Jobs |->
                   [time |-> workload.jobs[j].startTime, job |-> j, type |-> "JOB BEGINS"]]
    /\ currTime = 0
    /\ finishedJobs = 0

-----------------------------------------------------------------------------
\* One turn of the main loop.  st has the variables as they change on the way.
Now == [job |-> job, queue |-> queue, ioDone |-> ioDone, finished |-> finishedJobs]

\* Faulty: the lower queues are not emptied.
Boosted_KeepsQueues(st) ==
    LET ready(q) == SelectSeq(st.queue[q], LAMBDA j : ~ st.job[j].doingIO)
        all == st.queue[hiQueue] \o FlattenSeq([i \in 1 .. hiQueue |-> ready(i - 1)])
    IN  IF workload.boost > 0 /\ currTime # 0 /\ currTime % workload.boost = 0
        THEN [st EXCEPT !.queue[hiQueue] = all] ELSE st

\* The lower queues are emptied into the high one, and every job that is not finished
\* gets its priority, and as many ticks as the high queue has quanta of allotment.
Boosted(st) ==
    LET ready(q) == SelectSeq(st.queue[q], LAMBDA j : ~ st.job[j].doingIO)
        all == st.queue[hiQueue] \o FlattenSeq([i \in 1 .. hiQueue |-> ready(i - 1)])
        top(j) == [st.job[j] EXCEPT !.currPri = hiQueue,
                                    !.ticksLeft = workload.allotment[hiQueue]]
    IN  IF workload.boost > 0 /\ currTime # 0 /\ currTime % workload.boost = 0
        THEN [st EXCEPT
                !.queue = [q \in DOMAIN queue |-> IF q = hiQueue THEN all ELSE << >>],
                !.job = [j \in Jobs |-> IF st.job[j].timeLeft > 0 THEN top(j) ELSE st.job[j]]]
        ELSE st

Arrives(st, event) ==
    [st EXCEPT !.job[event.job].doingIO = FALSE,
               !.queue[st.job[event.job].currPri] =
                    IF workload.iobump /\ event.type = "IO_DONE" THEN <<event.job>> \o @
                    ELSE Append(@, event.job)]

Interrupted(st) ==
    ForEach(Arrives,
            [st EXCEPT !.ioDone = SelectSeq(@, LAMBDA e : e.time # currTime)],
            SelectSeq(st.ioDone, LAMBDA e : e.time = currTime))

FindQueue(st) ==
    LET busy == {q \in DOMAIN st.queue : st.queue[q] # << >>}
    IN  IF busy = {} THEN -1 ELSE Max(busy)

StartsIO(st, j) ==
    LET w == workload.jobs[j]
    IN  w.ioFreq > 0 /\ (w.runTime - st.job[j].timeLeft) % w.ioFreq = 0

\* Faulty: the ticks start anew after every I/O.
IOStarted_Resets(st, q, j) ==
    [st EXCEPT !.queue[q] = Tail(@), !.job[j].doingIO = TRUE,
               !.job[j].ticksLeft = workload.quantum[q],
               !.ioDone = Append(@, [time |-> currTime + 1 + workload.ioTime, job |-> j,
                                     type |-> "IO_DONE"])]

\* An I/O: off the queue; under -S the ticks and the allotment start anew.
IOStarted(st, q, j) ==
    [st EXCEPT !.queue[q] = Tail(@),
               !.job[j].doingIO = TRUE,
               !.job[j].ticksLeft = IF workload.stay THEN workload.quantum[q] ELSE @,
               !.job[j].allotLeft = IF workload.stay THEN workload.allotment[q] ELSE @,
               !.ioDone = Append(@, [time |-> currTime + 1 + workload.ioTime, job |-> j,
                                     type |-> "IO_DONE"])]

\* The quantum is over; n is the level the job goes on at.
QuantumEnded(st, q, j, issuedIO) ==
    LET left == st.job[j].allotLeft - 1
        n == IF left = 0 /\ q > 0 THEN q - 1 ELSE q
        off == IF issuedIO THEN st ELSE [st EXCEPT !.queue[q] = Tail(@)]
    IN  [off EXCEPT !.job[j].currPri = n,
                    !.job[j].ticksLeft = workload.quantum[n],
                    !.job[j].allotLeft = IF left = 0 THEN workload.allotment[n] ELSE left,
                    !.queue[n] = IF issuedIO THEN @ ELSE Append(@, j)]

\* The job at the head of queue q runs for one tick.  That its quantum is over is seen
\* from the ticks it had before an I/O under -S reset them.
Ran(st, q) ==
    LET j == Head(st.queue[q])
        ran == [st EXCEPT !.job[j].timeLeft = @ - 1, !.job[j].ticksLeft = @ - 1]
        io == StartsIO(ran, j)
        on == IF io THEN IOStarted(ran, q, j) ELSE ran
    IN  CASE ran.job[j].timeLeft = 0 ->
                [ran EXCEPT !.queue[q] = Tail(@), !.finished = @ + 1]
          [] ran.job[j].timeLeft # 0 /\ ran.job[j].ticksLeft = 0 ->
                QuantumEnded(on, q, j, io)
          [] OTHER -> on

\* The loop ends when all jobs have; a tick without a job that is ready is idle.
Tick ==
    /\ finishedJobs < Len(workload.jobs)
    /\ currTime' = currTime + 1
    /\ \E st \in {Given(Boosted(Now), Interrupted)} :
          \E new \in {IF FindQueue(st) = -1 THEN st ELSE Ran(st, FindQueue(st))} :
             /\ job' = new.job /\ queue' = new.queue
             /\ ioDone' = new.ioDone /\ finishedJobs' = new.finished
    /\ UNCHANGED workload

MLFQSpec == MLFQInit /\ [][Tick]_mlfqVars /\ WF_mlfqVars(Tick)

-----------------------------------------------------------------------------
\* Every job is in one place: it is still to come or its I/O is, once; or it is in the
\* queue of its priority, once; or it is finished.  A boost in the middle of an I/O, or
\* an I/O at the end of a quantum, neither loses it nor has it twice.
EachJobOnce ==
    \A j \in Jobs :
        LET coming == {n \in DOMAIN ioDone : ioDone[n].job = j}
            ready == {<<q, n>> \in UNION {{q} \X DOMAIN queue[q] : q \in DOMAIN queue} :
                        queue[q][n] = j}
        IN  /\ Cardinality(coming) + Cardinality(ready)
                  = (IF job[j].timeLeft = 0 THEN 0 ELSE 1)
            /\ \A r \in ready : r[1] = job[j].currPri
            /\ job[j].doingIO => coming # {}
            /\ \A n \in coming : ioDone[n].time >= currTime

\* Nothing a job does gets it around its allotment: without boosts and -S, the ticks it
\* ran are those that the queues above its own allow and what is missing in its own,
\* however often it gave up the cpu for an I/O.
AllotmentBinds ==
    LET Allowed(q) == workload.quantum[q] * workload.allotment[q]
        Above(p) == FoldFunctionOnSet(LAMBDA a, b : a + b, 0,
                                      [q \in DOMAIN queue |-> Allowed(q)], p + 1 .. hiQueue)
    IN  workload.boost = 0 /\ ~ workload.stay =>
          \A j \in Jobs :
             LET p == job[j].currPri
                 ran == workload.jobs[j].runTime - job[j].timeLeft
                 here == (workload.allotment[p] - job[j].allotLeft) * workload.quantum[p]
                         + workload.quantum[p] - job[j].ticksLeft
             IN  IF p = 0 THEN ran >= Above(0) + here ELSE ran = Above(p) + here

Ended == finishedJobs = Len(workload.jobs)
=============================================================================
