----------------------------- MODULE MCMachines -----------------------------
(***************************************************************************)
(* The simulators of the chapters on the cpu and on memory.  As with those *)
(* of storage, a behaviour is one of one simulator, picked at the start.   *)
(* PageTable and ProcessRun, when not picked, stand where they start.      *)
(***************************************************************************)
EXTENDS Integers, Sequences, TLC, PageTable, ProcessRun

VARIABLES
    simulator,
    workload, job, queue, ioDone, currTime, finishedJobs,
    machine, sched_queue, sched_current, time_left, cache_contents, cache_warming,
    system_time, crashed,
    heap, freelist, sizemap, pointers, allocs, ops, aborted,
    trace, addrIndex, cached, miss, ref

mlfq == <<workload, job, queue, ioDone, currTime, finishedJobs>>
multi == <<machine, sched_queue, sched_current, time_left, cache_contents, cache_warming,
           system_time, crashed>>
free_space == <<heap, freelist, sizemap, pointers, allocs, ops, aborted>>
policies == <<trace, addrIndex, cached, miss, ref>>
vars == <<simulator, mlfq, multi, processVars, free_space, policies, pageTableVars>>

NoMLFQ ==
    /\ workload = << >> /\ job = << >> /\ queue = << >> /\ ioDone = << >> /\ currTime = 0
    /\ finishedJobs = 0
NoMulti ==
    /\ machine = << >> /\ sched_queue = << >> /\ sched_current = << >> /\ time_left = << >>
    /\ cache_contents = << >> /\ cache_warming = << >> /\ system_time = 0 /\ crashed = FALSE
NoProcesses == system = (CHOOSE s \in Systems : TRUE) /\ ProcessRunInit
NoFreeSpace ==
    /\ heap = << >> /\ freelist = << >> /\ sizemap = << >> /\ pointers = << >> /\ allocs = 0
    /\ ops = 0 /\ aborted = FALSE
NoPolicies ==
    /\ trace = << >> /\ addrIndex = 0 /\ cached = << >> /\ miss = 0 /\ ref = << >>
NoTables == numPages = 0 /\ pdbr = 0 /\ PageTableInit

-----------------------------------------------------------------------------
\* Two jobs over three queues, with I/O never, after every tick and after three.
Q == INSTANCE MLFQ WITH
    Workloads <-
        [jobs : [1 .. 2 -> [startTime : {0, 2}, runTime : {1, 5, 8}, ioFreq : {0, 1, 3}]],
         quantum : {(0 :> 2) @@ (1 :> 1) @@ (2 :> 2)},
         allotment : {(0 :> 1) @@ (1 :> 2) @@ (2 :> 1)},
         boost : {0, 3}, ioTime : {2}, stay : BOOLEAN, iobump : BOOLEAN]

\* Jobs that fit a cache and that do not, that are bound to a cpu and that are not; one
\* whose run time or working set is the number of a cpu; one cpu that steals.
J(run, size, cpus) == [run_time |-> run, working_set_size |-> size, affinity |-> cpus]
Hardware ==
    [num_cpus : {2}, per_cpu_queues : BOOLEAN, peek_interval : {0, 3}, time_slice : {2},
     random_order : BOOLEAN, cache_size : {10}, cache_rate_warm : {2},
     cache_warmup_time : {0, 2}, job_name_list : {<<"a", "b", "c">>},
     jobs : {("a" :> J(3, 5, {})) @@ ("b" :> b) @@ ("c" :> c) :
                b \in {J(14, 6, {1}), J(14, 0, {1}), J(5, 12, {})},
                c \in {J(5, 4, {}), J(2, 4, {0, 1})}}]
    \cup
    [num_cpus : {1, 3}, per_cpu_queues : BOOLEAN, peek_interval : {3}, time_slice : {2},
     random_order : {FALSE}, cache_size : {10}, cache_rate_warm : {2},
     cache_warmup_time : {2}, job_name_list : {<<"a", "b">>},
     jobs : {("a" :> J(4, 5, {})) @@ ("b" :> J(3, 6, {}))}]

C == INSTANCE Multi WITH Machines <- Hardware

\* Three processes of up to two instructions in both versions.
Programs(ops_) == UNION {[1 .. n -> ops_] : n \in 0 .. 2}
Versions(version_, ops_) ==
    [version : {version_}, programs : [1 .. 3 -> Programs(ops_)],
     process_switch_behavior : {"SWITCH_ON_IO", "SWITCH_ON_END"},
     io_done_behavior : {"IO_RUN_LATER", "IO_RUN_IMMEDIATE"}, io_length : {0, 1, 3}]

BothVersions == Versions("cpu-intro", {"c", "i"}) \cup Versions("file-devices", {"i", "p"})

\* Every way to search, to order and to merge a heap of a few bytes.
Orders == {"ADDRSORT", "SIZESORT+", "SIZESORT-", "INSERT-FRONT", "INSERT-BACK"}
H == INSTANCE Malloc WITH
    Heaps <- [size : {6}, start : {10}, headerSize : {0, 1}, policy : {"FIRST", "BEST", "WORST"},
              returnPolicy : Orders, coalesce : BOOLEAN, align : {-1, 2}, opsList : BOOLEAN],
    AllocSizes <- {0, 1, 2, 3}, opsNum <- 4

\* All lists of six references to four pages, up to the names of the pages.
Lists(n, k) ==
    {s \in [1 .. n -> 1 .. k] :
        \A i \in 1 .. n : \A page \in 1 .. s[i] - 1 : \E j \in 1 .. i - 1 : s[j] = page}
A == INSTANCE PagingPolicy WITH
    Traces <- [policy : {"FIFO", "LRU", "MRU", "RAND", "CLOCK", "OPT", "UNOPT"},
               cachesize : {2, 3}, clockbits : {1, 2}, addrList : Lists(6, 4)],
    memory <- cached

ASSUME MachinesAssumption ==
    /\ Q!MLFQAssumption /\ C!MultiAssumption /\ ProcessRunAssumption
    /\ H!MallocAssumption /\ A!PagingPolicyAssumption /\ PageTableAssumption

-----------------------------------------------------------------------------
MachinesInit ==
    \/ /\ simulator = "mlfq" /\ Q!MLFQInit
       /\ NoMulti /\ NoProcesses /\ NoFreeSpace /\ NoPolicies /\ NoTables
    \/ /\ simulator = "multi" /\ C!MultiInit
       /\ NoMLFQ /\ NoProcesses /\ NoFreeSpace /\ NoPolicies /\ NoTables
    \/ /\ simulator = "processes" /\ ProcessRunInit
       /\ NoMLFQ /\ NoMulti /\ NoFreeSpace /\ NoPolicies /\ NoTables
    \/ /\ simulator = "malloc" /\ H!MallocInit
       /\ NoMLFQ /\ NoMulti /\ NoProcesses /\ NoPolicies /\ NoTables
    \/ /\ simulator = "policies" /\ A!PagingInit
       /\ NoMLFQ /\ NoMulti /\ NoProcesses /\ NoFreeSpace /\ NoTables
    \/ /\ simulator = "tables" /\ PageTableInit
       /\ NoMLFQ /\ NoMulti /\ NoProcesses /\ NoFreeSpace /\ NoPolicies

MLFQStep ==
    /\ simulator = "mlfq" /\ Q!Tick
    /\ UNCHANGED <<simulator, multi, processVars, free_space, policies, pageTableVars>>
MultiStep ==
    /\ simulator = "multi" /\ C!Tick
    /\ UNCHANGED <<simulator, mlfq, processVars, free_space, policies, pageTableVars>>
ProcessStep ==
    /\ simulator = "processes" /\ Tick
    /\ UNCHANGED <<simulator, mlfq, multi, free_space, policies, pageTableVars>>
MallocStep ==
    /\ simulator = "malloc" /\ H!MallocNext
    /\ UNCHANGED <<simulator, mlfq, multi, processVars, policies, pageTableVars>>
PolicyStep ==
    /\ simulator = "policies" /\ A!Access
    /\ UNCHANGED <<simulator, mlfq, multi, processVars, free_space, pageTableVars>>
TableStep ==
    /\ simulator = "tables" /\ AllocPage
    /\ UNCHANGED <<simulator, mlfq, multi, processVars, free_space, policies>>

MachinesNext ==
    MLFQStep \/ MultiStep \/ ProcessStep \/ MallocStep \/ PolicyStep \/ TableStep

MachinesSpec ==
    /\ MachinesInit /\ [][MachinesNext]_vars
    /\ WF_vars(MLFQStep) /\ WF_vars(MultiStep) /\ WF_vars(ProcessStep)

-----------------------------------------------------------------------------
\* MLFQ, Multi: a job that is not finished is in one place, its queue, its cpu or its I/O,
\* once, and is where the rules of the scheduler allow it to be: in Multi it waits where it
\* may not run only if its run time or its working set is the number of a cpu.
JobsKept ==
    /\ simulator = "mlfq" => Q!EachJobOnce
    /\ simulator = "multi" => C!RunsOnce /\ C!Confined

\* MLFQ: a job's ticks are those its allotments allow, however it cuts them up by I/O.
AllotmentBinds == simulator = "mlfq" => Q!AllotmentBinds

\* Malloc: free and given pieces cover the heap once, merged where they can be.
HeapCovered == simulator = "malloc" => H!HeapCovered

\* PagingPolicy: OPT has the fewest misses there can be; LRU holds what was used last.
FewestMisses == simulator = "policies" => A!FewestMisses

\* MLFQ, Multi, ProcessRun: the loops end, but for jobs that strayed and I/O of no length.
Finishes ==
    <>(/\ simulator = "mlfq" => Q!Ended
       /\ simulator = "multi" => C!Ended
       /\ simulator = "processes" => Ended)
=============================================================================
