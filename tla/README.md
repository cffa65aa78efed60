# Verification of ostep-homework

The repository is the set of programs that go with a book on operating systems: simulators in
Python (a cpu with threads, schedulers, memory, disks, file systems, an SSD, a distributed file
system) and small concurrent programs in C. They do not form one system. Each directory is a
component with its own `main`, and the components share no state; what interacts is inside
each one: threads with mutexes and condition variables, clients with a server, a command loop with a
collector, processes with a scheduler. This project models the components one by one in TLA+,
checks small instances with TLC and proves with TLAPS what can be proved for all instances.

## Files

| modules | code | runs | theorems |
|---|---|---|---|
| `BoundedBuffer`, `BoundedFifo` (abstract) | `threads-cv/` | `bb_while`, `bb_if_steal` | `BoundedBufferProofs` |
| `VectorAdd`, `AtomicVectors` (abstract) | `threads-bugs/` | `va` | `VectorAddProofs` |
| `AFS`, `AFSSessions` (abstract) | `dist-afs/` | `file_systems`, `afs_reopen` | `AFSProofs` |
| `SSD`, `LogicalDisk` (abstract) | `file-ssd/` | `ssd`, `ssd_small_reserve` | `SSDProofs` |
| `VSFS`, `Fsck`, `FileTree` (abstract) | `file-implementation/`, `file-journaling/` | `file_systems` | `FsckProofs` |
| `X86Instructions`, `X86Programs`, `X86`, `ThreadMachine` (abstract) | `threads-locks/`, `threads-intro/` | `x86` | `X86Proofs` |
| `RaidMaps`, `Raid` | `file-raid/` | `storage` | |
| `RaidGraphics` | `file-raid/` | `storage` | `StorageProofs` |
| `LFS`, `LogTree` (abstract, on `FileTree`) | `file-lfs/` | `storage`, `lfs_link` | `StorageProofs` |
| `FFS` | `file-ffs/` | `storage`, `ffs_delete` | |
| `MLFQ` | `cpu-sched-mlfq/` | `machines` | |
| `Multi` | `cpu-sched-multi/` | `machines` | |
| `ProcessRun` | `cpu-intro/`, `file-devices/` | `machines` | `MachinesProofs` |
| `Malloc`, `PagingPolicy` | `vm-freespace/`, `vm-beyondphys-policy/` | `machines` | |
| `PageTable` | `vm-smalltables/` | `machines` | `MachinesProofs` |

`Steps` has the operators for handlers that change their state in a loop.

`MC*.tla` hold the definitions the configurations need. `PROJECT.json` maps every definition to
the lines it models and every property to a fault that breaks it. Run `tlc -config x86.cfg MCX86` for a run and
`tlapm AFSProofs.tla` for a proof. Operators whose comment starts with "Faulty:" are those
faults: no specification uses them, they show that the property beside them can fail.

## Inventory

What every component keeps, does, and owes. "Hard" is what makes it hard to test.

### Concurrent programs

* **threads-cv.** Producers and consumers over a ring of `max` slots. State: `buffer`, `use_ptr`,
  `fill_ptr`, `num_full`, a mutex, one or two condition variables, per-thread loop counters and
  consumed counts. Operations: `do_fill`, `do_get`, the two loops, `main()` with its joins and
  end-of-stream markers. Four programs differ in the condition variables, `if` or `while`, and
  where the lock is. Hard: a signal is lost when nobody sleeps, wakes any one thread, and the
  woken thread returns later, after others. Owes: no slot filled twice or read empty, every item
  delivered once, no sleeper forgotten, an end.
* **threads-bugs.** `vector_add` under five disciplines: lock as given, lock by address, trylock
  and back off, one global lock around the two, no lock but an atomic add. State: the vectors
  with a mutex each. Hard: deadlock and livelock by opposite orders; partial back-out. Owes: no
  deadlock, mutexes released by their holders, atomic additions (or, without locks, none lost).
* **threads-locks, threads-intro.** A simulator of an x86-like cpu that interleaves threads
  instruction by instruction, and the lock programs it runs. State: the memory, the cpu
  (registers, condition codes, pc), the process list with saved contexts, the interrupt counter.
  Operations: the instruction set, `load`, `save`/`restore`, `next`, `run`. Hard: an interrupt
  anywhere; halt, yield and interrupt in one round. Owes: the simulator, that switching is
  invisible to a thread; the locks, exclusion and an end.
* **c29_questions.** A counter with a lock, an approximate counter with local counts and a
  threshold, and a list with hand-over-hand locks. State: counters, nodes and a lock for each. Hard: the
  order of two locks, traversal next to deletion. Owes: an error bound; a list that is a set.
* **threads-api.** Five programs of a screen each (race, lock order, global lock, spinning on a
  flag, condition variable), for a race detector.
* **threads-sema.** Skeletons: the synchronisation is left for the reader to write.

### Storage

* **dist-afs.** A file server and clients that cache whole files. State: server contents and
  callback lists; per client a cache (data, dirty, refcnt, valid), descriptors, a program.
  Operations: open, read, write, close, each with the calls on cache and server it makes.
  Interaction: a close that stores calls `invalidate` on every other client on the list. Hard:
  a callback between the open and the close, several writers, a file opened twice. Owes: close-to-open
  consistency; the client must not notice its cache.
* **file-ssd.** Flash pages, three translation layers, a log with a garbage collector. State: page
  states and data, `forward_map`, `reverse_map`, the cursor, used blocks. Operations: write, trim,
  read, then `upkeep`. Hard: the collector writes to the log it collects; it runs out of room. Owes: an array of pages.
* **file-implementation, file-journaling.** An inode file system with bitmaps, and the same with
  one corruption. State: two bitmaps, inodes, blocks. Operations: create, link, unlink, mkdir,
  append. Hard: failure half way through an allocation; counts of references. Owes: bitmaps, inodes
  and directories that agree.
* **file-lfs.** Inodes, inode map and data in one log behind a checkpoint region. State: the log, the map and the
  checkpoint region in memory. Operations: create file and directory, write, link, delete, sync. Hard: which pieces of the map
  a command must write; a checkpoint that lags. Owes: a tree of files; a checkpoint a restart can start from.
* **file-ffs.** Allocation in groups. State: two bitmaps per group, counts, names, inodes. Operations: create file and
  directory, delete. Hard: full groups, several policies at once. Owes: bitmaps, counts and files that agree, and locality.
* **file-raid.** `raid.py`: where a block and its parity lie for levels 0, 1, 4, 5 and which reads and writes a request turns into.
  `raid-graphics.py`: four disks serve a queue of requests at once, a parity write in two phases. Hard: a phase that ends on
  one disk before the other; full stripes. Owes: a mapping that is one to one, parity that can be computed when it is written, an end.
* **file-disks, file-integrity.** A disk arm with floating-point geometry and scheduling; checksums of four bytes.

### Scheduling and memory

* **cpu-intro, file-devices** (`process-run.py`). Processes with cpu and io instructions. State: the code left and the state of
  each process, the one that runs, when each io ends. One operation, a tick. Hard: an io that ends in the tick in which
  another process stops. Owes: one process runs at a time, the cpu is not idle while one could, an end.
* **cpu-sched-mlfq.** A feedback queue. State: per job its priority, ticks and allotment, the queues, pending events. A tick
  boosts, handles events, runs one job. Hard: a boost during an io, an io at the end of a quantum. Owes: no job
  lost or twice; with boosts none starved; no gain from giving up the cpu early.
* **cpu-sched-multi.** Cpus with caches and one queue or one each. State: queues, the job on each cpu, warm and warming jobs. A tick
  runs, ends slices, peeks at other queues. Hard: stealing against affinity. Owes: a job is in one place, where it may be.
* **cpu-sched, cpu-sched-lottery**: arithmetic on lists of jobs; a random draw. **cpu-api**:
  a random tree of processes, and exercises in system calls.
* **vm-freespace**: a free list with three policies, five orders and coalescing. Owes: the pieces cover the heap once.
  **vm-beyondphys-policy**: page replacement by seven policies. Owes: OPT is the best. **vm-smalltables**: page tables of
  two levels in simulated memory. Owes: what was mapped translates. **vm-paging, vm-segmentation, vm-mechanism,
  vm-beyondphys**: single translations; a memory walker.
* **c6, c13, c14, c19, c23**: measurements and deliberate memory errors, without state to reason about.

## Modules and code

### BoundedBuffer

Thread numbers are those of `main()`: producers, consumers, then the main thread, which acts
as one more filler that puts the markers. A step is the code between two calls of the pthread
library; the test of `num_full` and what follows it are one step, since the mutex is held. `pc`
names the place: `lock`, `check`, `asleep`, `woken`, `work`, `signal`, `unlock`. A signal takes
any one sleeper off the condition variable and makes it `woken`; it must then get the mutex again.
The programs are three records (`TwoCvsWhile`, `TwoCvsIf`, `OneCvWhile`) that say which
condition variables there are and whether a woken thread tests again. A failed `ensure()`
ends the process. `main-two-cvs-while-extra-unlock.c` fills and empties outside the mutex, which takes
steps of another size; it is not modelled. `do_pause` and the tracing are left out.

`bb_while` has two producers with two items each, two consumers, two slots and one spurious
wakeup: enough for a signal to reach a thread of either kind, the pointers to go round
the ring, both kinds to sleep two at a time, and a marker to overtake nothing. `bb_if_steal` is the smallest
instance of `main-two-cvs-if.c` in which a second consumer comes between a signal and the return from
`Cond_wait`. `BoundedFifo` is the promise: one FIFO channel; the refinement maps the used slots,
from `use_ptr` on, to its queue.

Fairness is weak fairness of each thread's step: the operating system runs every thread that
can run. No fairness is assumed of the choice among sleepers or of a mutex (a thread may be
passed over as long as others take it), nor that spurious wakeups happen.

### VectorAdd

A step is one pthread call, or one load or store of an element. The five programs differ in the
order of locks, in trylock and back-off, and in having no lock; `main()`'s `-d` turns every second
thread's addition round and `-p` gives each thread vectors of its own. Program and options are chosen in
the initial state, so the one run `va` covers all twenty combinations, with three threads, two
calls and two elements (three threads make a cycle through the global lock possible, two elements a
half-finished addition). `NoDeadlock` leaves out the one combination that is there to deadlock, and
`Termination` also the one in which two threads may back off from each other for ever. Fairness: as above. The count of retries of
`vector-try-wait.c`, an unprotected `retry++` that is only printed, is left out. The refinement says
that an addition with locks takes effect at once: it is mapped to the moment the loop is
entered, and the elements the loop has not reached count as added.

### X86Instructions, X86Programs, X86

`X86Instructions` has an operator per instruction of `cpu.*`: from an instruction, a context
(pc, registers, condition codes) and the memory it makes an outcome (context, memory, return code). `X86Programs` has the
sources of `threads-locks/*.s` and of the programs of `threads-intro/` and what `cpu.load` does to them: the first pass gives
variables and lines their addresses (`VarAddress`, `LineAddress`: a label has that of the instruction behind it), the second decodes. Addresses of operands
follow `getarg`; reading them from text is left out, and so is `test-mov.s`,
which does nothing else. `X86` is the machine: `Cycle` is one round of the loop of `run()`, with the halt, the
interrupt and the yield in the order of the code. A halt moves on to the next process before
the interrupt is counted, and an interrupt in the same round then skips one; `next` follows the
schedule list, over processes that are done. `threads-intro/x86.py`
is an earlier version of the same simulator and is not modelled apart.

`x86` runs each of twelve programs with two threads, two times round, under interrupt
frequencies 1, 2 and 4, fixed and random, and under all schedules by hand of up to four places. A frequency of 1 puts an interrupt after
every instruction, and the random ones up to 4 reach every split of the critical section of three instructions.
`ThreadMachine` is the promise: a cpu for each thread. The two programs whose locks
do not exclude (`flag.s` by design, `flag-withcallret.s` below) are left out of `MutualExclusion` by name (`Locking`). Fairness is
that of a loop: `run()` goes on as long as it can.

Two remarks on the programs. `flag-withcallret.s:38` says "store 1 into flag" and its code stores at address 0, the value of the flag;
`looping-race-withlock-withcallret.s:29` says "get addr of flag" and reads below the stack pointer, where there is 0, so that all
threads lock address 0. Both are modelled as they are; the second still excludes.

### AFS

An action is one call of `client.step()`, with all it calls on the cache and, through it, on the
server and the other clients. The entry of a file is a record with the code's four fields, or `Absent`. A program is any
sequence of opens, reads, writes and closes in which a descriptor is opened once, used
while open and closed at most once; the schedule is any. `Reopeners` are the
clients that may open a file they have open: `-A` allows it, the generated programs never do it. A failing
`assert` stops the simulator.

`file_systems` has one steady client, one that may reopen, one file and three descriptors,
and values up to 3 (three writes): enough for both to hold the file, write it, be called back in
between, close, and open again. Files do not interact in the code, so one is enough. `AFSSessions` is the
promise: every open of a file that is not open fetches it, and reads and writes touch that copy until the last
close. `MaxValue` bounds the counter of `getvalue()`; a client that would pass it does something else.

### SSD

The main loop runs a command and then `upkeep`, which may start the collector; the collector is
taken block by block and page by page, although no command comes in between, so that the invariants
are checked between its steps. The maps, the cursor and the used-block table are those of the code; the type is
chosen in the initial state. `copies` is the set of live pages still to copy; they go lowest first. Statistics and times are left out.

`ssd` has three blocks of two pages and three addresses, the collector starting at three used
blocks and stopping at two: less would leave no room for copies, and with
these a block is dead, half live or live at a collection, and the cursor goes round the end of the device. The refinement maps `busy` of `LogicalDisk` to the phases of the collector, so that a command comes only when it is done. `ssd_small_reserve` has five addresses on the six pages. `LogicalDisk` is the promise.

### VSFS, Fsck

`VSFS` is the file system that `vsfs.py` and `fsck.py` share: two bitmaps, inodes with one block each,
directories that are lists of names and inode numbers, and what `run()` remembers (`files`, `dirs`,
`nameToInum`), from which it makes up its requests. A step is one request, from the choice to the
bitmaps' check at the end of the round: `deleteFile`, `createLink`, `create`, `mkdir`, `writeFile`,
`mkdirWithoutBlock`, which gives back the inode it has taken, or `Refused` for any other that returns -1. `first_fit` tells the two programs apart: `vsfs.py` takes the first free
bit, `fsck.py` any. A random choice is any choice; `fsck.py` deletes only the oldest of its files (line 433 rounds its random
number down to 0), and `VSFS` any, which allows more. The entry of a deleted name stays in the code's `nameToInum`
but is never read, so the model drops it. A path is a sequence of names; a block's contents one value.

`Fsck` adds `corrupt()`: twelve kinds of change, one of which is made when the requests are over. A kind for which
`pickRandom` or `findFreeData` finds nothing fails an assertion, so it cannot be made. `Exited` is the end of the program: the requests are done
or a bitmap is full.

`file_systems` picks AFS or this program at the start. It has three file systems: five inodes with three blocks, four with four, and one
that starts with all its blocks in use, the only state in which a directory gets an inode and no block, since `run()` gives up when a bitmap is full; two letters
for names, two for contents. Five inodes and three blocks
hold a subdirectory with files in it and beside it, and either bitmap can fill first; four inodes and four blocks allow a subdirectory
of a subdirectory beside a file with contents, and fill their inodes no later than their blocks; two letters make names collide in every
directory. More of either only repeats
these. Directories with 32 entries do not occur, and the guard on `maxUsed` is exercised by no run. `FileTree` is the
promise: directories and files at paths, links that share a file, contents written once. The refinement maps the
names of `run()` to it, and `NamesResolve` says that these are what a walk over the disk finds.

### RaidMaps, Raid, RaidGraphics

`RaidMaps` has the four maps from blocks to places, `Raid` the requests of `raid.py`: one action, `Request`, makes the
reads and writes of a request in their order and moves the disks' positions and counters. The times
computed from the counters are left out. `RaidGraphics` is the program that draws four disks at work: `Start`, `Pause` and `Animate`
are its key and timer handlers; an `Animate` takes the four disks in turn, and a disk that ends an I/O
makes the scheduler hand out work at once, as in the code. The
queues are made of lists of requests that meet on one parity disk, fill a stripe, or go back and forth. A full stripe marked for reads
(raid-graphics.py:428 subtracts its savings whatever the operation) makes the count of needed I/Os too small, so that reads of
three blocks in a row never stop; the comment at 416 says as much ("XXX This really only works for SOME demos"), and the queues
avoid it (`FullStripesWritten`). `SameLayout`, a part of `RaidServes`, finds every request where `raid.py` puts it.

### LFS, LogTree

The disk is the log itself, a sequence of blocks; a command (`file_create`, `file_link`, `file_write`, `file_delete`, `sync`) appends its blocks, the
touched pieces of the inode map, and, unless `-N`, rewrites the checkpoint region. `option` has the three switches: lookup
through the checkpoint or in memory, no forced checkpoint, random inodes. `Walk` and `find_matching_dir_slot` follow the code, its assertions
included: a path that leads through a file fails one, and so does a link into a directory that is missing (`Fails`). `file_link`
writes only the piece of the map of dst's directory, not the one with src, so that the disk leads to the inode with the old reference
count; `CheckpointCurrent` leaves that count out. In memory the count is right, and what a restart would do with the old one is not modelled. But with
`-D` every lookup goes through the disk, and the program itself uses the old count: a delete frees an inode that has a name left, and the next
command on that name fails an assertion (`lfs_link`). An inode freed that way is given out again, perhaps to a directory, which then has two names. Without
`-D` the promises hold as they stand; with `-D` they except just this. `Miscounted` says of an inode that the entries that lead to it are not as many
as the count that `file_delete` reads, and `LosesCount` excepts from `ImplementsLogTree` the steps by which such an inode is freed or given out, and those next to a
directory with two names. `FailsOnStrayOrLost` excepts from the assertions a command on a name whose inode is gone; `FailsOnStrayPath` is the promise without the exception.

`storage` takes three options, each with all six commands: lookups in memory, `-N`, and `-D` with random inodes, where the inodes of
two pieces of the map mix. Random inodes without `-D` are left out, where it does not matter which inode a file gets, and `-D` together with `-N`, where
a lookup sees the state of the last sync ("maybe old", lfs.py:784) and nothing is promised. Bounds: four inodes in two pieces, two pointers, two entries a block (so the
first name in a directory needs a second block, and the third finds the directory full), four paths of which one is in a directory, four commands (so the
inodes run out, and a file can be made, linked, deleted and used). The three properties were also checked with six commands on fewer paths and with single
options, and hold there. `LogTree` is `FileTree` with writes at an offset.

### FFS

An action is a command of the program: `do_create` (files and directories) or `do_delete`, with the choice of the group, the search for
a run of free blocks group by group, and the bitmaps. An exception ends the program (`aborted`). Sizes of 0, which fail an assertion, are left
out. With `-A` above 1 the chosen group may be full and the bitmap be written at index -1; the runs use 1. The model keeps `do_delete`'s
index arithmetic as it is: it divides by the number of groups where it should divide by what a group holds. `storage` uses
three groups of three blocks and inodes, where both are the same; `ffs_delete` two groups of three.

### MLFQ, Multi, ProcessRun

In each, `Tick` is one turn of the main loop. Within it a record of the changing variables goes through the parts of the turn in
the order of the code (`Steps!ForEach` for its loops). `MLFQ`: boost, events, the job at the head of the highest queue.
A boost sets the ticks of a job to its allotment (mlfq.py:249), not to a quantum; only without boosts is `AllotmentBinds` exact. The allotment (`-A`) counts
time slices, as the code and its help text have it; cpu-sched-mlfq/README.md gives it in milliseconds. `Multi`:
end of slices, peeking, getting jobs, running. `system_time` is kept modulo slice times peek, all the code asks of it. Two lines are
modelled as they are: multi.py:356 asks whether the cpu is among a job's fields rather than in its affinity, and multi.py:350 lets
`random.choice` take from an empty list when one cpu steals (`crashed`). The comment at 53-58 about what a cache evicts
disagrees with `adjust_size`, which is what the model follows. `ProcessRun` has both versions
of `process-run.py`, with the end of an I/O kept as the time left. In the later one an I/O of length 0 is never seen to end
(`EndsMissed`).

### Malloc, PagingPolicy, PageTable

`Malloc`: `malloc` and `free` with search, split, return and merge; `opsList` tells the two ways in which `main()` makes requests
apart. A request for no bytes may hand one address out twice and then fails the assertion at malloc.py:46. `PagingPolicy`: one `Access`
per reference; CLOCK's random scan may leave any counts its loop could leave. `PageTable`: the memory, whose pages are directory, table or data, is
written through the entries that are in it, and `AllocPage` takes any free page. With many pages (`-a` 96 and more) none may be left,
and `findFree` fails its assertion (`failed`). The asserts at paging-multilevel-translate.py:132, 141 and 142 (a free entry, a table that is a used page) are
not modelled; they follow from the invariant of `TranslatesAsMapped`.

## What the runs show

* `bb_while`: the `ensure()` calls never fail (`NeverFails`); count, pointers and slots agree
  (`RingConsistent`); while a thread sleeps, somebody awake or owing a signal answers for every item or slot it
  could have (`NoLostWakeup`); `main` returns (`Termination`); everything is delivered once, in order, and the markers last
  (`ImplementsChannel`).
* `va`: `NoDeadlock`, `Termination`, `ImplementsAtomicAdd`, and `NoLostAdd`:
  additions without locks interleave but none is lost.
* `x86`: `MutualExclusion` (one thread at a time from the load to the store of the counter, and the counter loses no
  increment), `Termination` of every program, and `ImplementsThreads`.
* `ssd`: `MapsAgree`, `LogInOrder`, `NeverFull` (neither a write of the user nor a copy of the collector finds the device full),
  `ImplementsDisk`.
* `file_systems` picks one of two programs. `afs.py`: `Coherent` (a valid entry that is not dirty is what the server has), `CallbackPromise` (it is
  on the callback list), `SteadyNeverFail` (a client that does not reopen never
  fails an assertion, and counts its opens right), `ImplementsSessions`.
  `vsfs.py` and `fsck.py`: `BitmapsHold` (bitmaps, inodes and blocks agree as long as nothing is corrupted), `LinksHold` (directories and reference
  counts do), `NamesResolve`, `ImplementsTree`, and `CorruptionShows`: every change but one kind leaves a disk
  that breaks one of the two rules, so that the user can find it. The exception is kind 7, which renames an entry:
  with a letter nobody has in that directory, the disk is as good as before.
* `storage` picks one of four simulators at the start; the others' variables stand still.
  `RaidServes`: a request goes to the blocks it names and no two blocks share a place; when parity is written the program has read what it is
  computed from; a sequential workload moves each arm once; `raid-graphics.py` puts a block where `raid.py` does. `TwoPhases`: neither disk of a parity write writes before both have read.
  `StopsWhenServed`: the program stops by counting I/Os, and when it does all are served. `Serves`: it does stop, unless left paused.
  `CheckpointCurrent`: a restart from the checkpoint finds the inodes and blocks in memory, none of them taken for dead.
  `ImplementsLogTree`: a tree of files, whatever moves in the log, but with `-D` for an inode whose count a link left behind. `AssertionsHold`: what the
  programs assert of themselves, that is `do_verify` of `ffs.py` and more, and that an assertion of `lfs.py` fails only at a path that leads through a file, at a link
  into a directory that is missing, or with `-D` at a name whose inode is gone. `AllocatesNearest`:
  a new file begins with the first free run as long as `-C` demands, if there is one in any group, and without a demand has the nearest free blocks.
* `machines` does the same for six simulators. `JobsKept`: a job is in one place in `mlfq.py` and `multi.py`, where the scheduler's rules allow. `CpuShared`: the
  same in `process-run.py`, and a system that switches at I/Os does not leave the cpu idle while a process is ready.
  `AllotmentBinds`: a job's ticks are those its allotments allow, however it cuts them up. In `multi.py` a job waits at a cpu
  it may not use only through the test at multi.py:356 (`Confined`, a part of `JobsKept`). `HeapCovered`: free and given pieces cover the heap once. `FewestMisses`: OPT is optimal among all ways to replace, LRU holds
  the latest. `TranslatesAsMapped`: what was mapped translates, each page to its own, and nothing else does. `Finishes`: the three loops end.

Bounds of `storage`: two requests of one to five blocks to arrays of one to four disks; for `machines`: two jobs over three queues; up to three jobs
on up to three cpus with two per cache; three processes of two instructions; four operations on a heap of six bytes; all lists of six references to four pages; two by two entries on five pages. The
smallest at which every branch is taken: parts, whole and more than one stripe; boosts during an I/O; jobs that fit a cache
and that do not; merges on both sides; a table that needs a second page, and memory that runs out.

Fairness there: weak fairness of `Animate`, which the timer calls again as long as the window is open, and of each scheduler's `Tick`, a loop
that goes on as long as jobs are left.

### Disagreements with the code

* `bb_if_steal`: in `main-two-cvs-if.c` a consumer that was signalled finds the buffer empty and the
  `ensure` at line 30 fails. (The program is there to show it.)
* `afs_reopen`: `getfile` replaces the entry of an open file after a callback and its count starts at 0, so
  the entry is deleted while a descriptor uses it, and the `assert` of `cache.get` fails.
* `ffs_delete`: `do_delete` finds the bits of a file by dividing by the number of groups (ffs.py:290), so
  that it frees the bits of others, and `do_verify` fails.
* `lfs_link`: with `-D` and `-a r`, `file_link` leaves the old count where `file_delete` looks for it (lfs.py:552), which then frees an inode with
  a name left (lfs.py:626); the next command on it fails the assertion at lfs.py:340. `lfs.py -s 0 -D -a r -o -e -L c,/a:l,/a,/b:r,/a:w,/b,0,1` shows it.
* `ssd_small_reserve`: the collector ignores a failed copy and erases the block: live data is lost.

## What is proved

All theorems hold for every value of the constants that meets the named assumption of the module.

* **BoundedBufferProofs** (`WhileTypes`, `WhileNeverFails`, `WhileRing`), for the programs with a `while`. The invariant
  adds to types, ring and `~failed`: the mutex belongs to the one thread between its lock and its unlock (`MutexInv`), a
  thread is in a wait set exactly while asleep (`SleepInv`), a thread about to fill or get has seen room or an item (`WorkInv`),
  and fillers in the loop have items left (`RoundInv`). `WorkInv` is what a
  woken thread without the second test breaks; it needs `MutexInv`, since only the mutex keeps the count still.
  `TwoCvsNoLostWakeup` is the same with two condition variables: no more items (or free slots) than consumers (fillers) awake in the loop and
  signals still owed by the other kind, while one of theirs sleeps. It compares numbers of threads, so `MovesOne` says what a step does to such a number. It is inductive with the
  invariant above, and holds with spurious wakeups. `WhileChannel` is the refinement to `BoundedFifo` (its steps; fairness stays with TLC):
  main puts its markers when the producers are done (`JoinInv`), and a consumer that
  has its marker is on its way out (`EndInv`); `RingPut` and `RingTake` say that the ring is the queue.
* **AFSProofs** (`AFSCoherent`, `AFSCallbacks`), reopening included. The invariant adds that every entry, valid or not, has its
  file on the callback list (`EntryInv`): an invalid entry may be written and become valid again at its close, so the promise
  about valid entries alone is not inductive. `AFSSteady` (of `SteadyNeverFail`) adds `CountInv`: a steady client's file has one descriptor and the count 1
  from the open to the close, callbacks notwithstanding. `AFSSessionsKept` is the refinement to `AFSSessions`, for any set of reopening
  clients. It needs that the entry of a file a steady client has closed is not written (`CleanInv`): then `Coherent` says that what the next open finds in
  the cache, if it may use it, is what the server holds. `OpenSession`, `ReadSession`, `WriteSession` and `CloseSession` map the steps; of the
  steps of a client that reopens, at most the store of a written copy is seen by the others (`StoreByOthers`).
* **VectorAddProofs** (`VectorNoDeadlock`, `VectorLocks`), for any number of threads, calls and elements, and all options but
  `vector-deadlock.c` with `-d` and without `-p`. The invariant says that the place of a thread in its call determines the mutexes it holds
  (`LockInv`). Two threads that wait for each other's mutexes then want the same pair, whose odd mutex, in the fixed order, is held only by a
  thread that has both; under the global mutex its holder finds the others free.
  `VectorAtomic` is the refinement to `AtomicVectors` under the four programs that lock, back-outs and the deadlocking options included. Two
  threads in the loop share no vector (`Exclusive`), so what a thread has loaded is still the sum when it stores it (`DataInv`).
  `Enters`, `Stores`, `Returns` map the steps; the others change nothing there. `VectorNoLostAdd` is about all five programs, without
  `-d` also the one without locks: an element is its initial value and one addend for every addition made to it, counted over threads and
  calls (`SumInv`). It needs what a thread has loaded (`DataInv`) and, without locks, that nobody writes the vector added from.
* **X86Proofs**. `X86ImplementsThreads` is the whole refinement, for any instructions. The invariant `Scheduled`
  says the schedule names exactly the threads and that the current place names one that has not halted. The heart is
  `ContextAfter`: after a round, each thread's context, in the cpu or saved, is what it was, or, for the thread
  that ran, what its instruction made of it. `NextPlace` shows that `next`
  finds a place, with the least-number principle of the library.
  `X86MutualExclusion`: the six programs with a lock (`test-and-set.s`, `test-and-test-and-set.s`, `yield.s`, `ticket.s`, `peterson.s`,
  `looping-race-withlock-withcallret.s`) exclude and count right, for any number of threads, loop count, schedule and interrupt frequency. `peterson.s`
  looks at the flag of thread `1 - bx`, so the theorem supposes at most two threads if it is among the programs. The proof goes from the source
  up: `NextLine` and `LoadedAt` say where `load` puts a line, and `TasCode`, `TicketCode`, ... what each program is in memory; `Moves`, `Arithmetic`, `Atomics`, `Branches`
  and `Stack` say what an instruction makes of the context and the memory; `TasStep`, `TicketSteps`, `PetersonSteps`, ... take the programs instruction by
  instruction. What they keep is by the line of a thread (`SpinAt`, `TicketAt`, `PetersonAt`), and across threads what makes the lock one:
  the mutex is set while somebody holds it, and one does, even if the exchange has only shown it and the jump has not yet been taken
  (`SpinLocked`); the numbers drawn differ and lie from the turn up to the next (`TicketLocked`); while one of the two may go in and the other asks, the turn is
  the first one's (`PetersonLocked`). `Counted` says that the counter is the sum of the increments made, and that a thread between load and store has the
  counter in its register: it needs the exclusion, and gives `NumThreads` times the loop count when all have halted. The release is part of it:
  `ticket.s` adds to the turn with a fetch-and-add that only the holder reaches, and the store to `turn` behind the release of `peterson.s` gives the turn
  away once more, which does no harm. In `looping-race-withlock-withcallret.s` `lock` reads its argument from below the stack pointer, where there
  is a 0 for every thread: the mutex is the word at address 0. The theorem holds because it is the same word for all of them, which `Stacked` says.
* **FsckProofs**, for any sizes, names and contents, and either choice of free bits. `FsckBitmaps`: the bitmaps alone are
  not inductive: `deleteFile` frees an inode when its count is 1, and is right only because the count is the number of names that lead to it, and
  `addDirEntry` writes to a block that is right only because the name of the directory leads to an inode in use. `KnownInv` says
  this of all that `run()` remembers: names lead to inodes in use of the right type, no two directories to the same, every name has its
  entry (so that `MayEnter` keeps a name from being given twice), and counts are numbers of names. A lemma per request
  (`CreateLinkSound`, `CreateSound`, `MkdirSound`, `WriteFileSound`, `DeleteFileSound`) shows that it is kept; that `mkdirWithoutBlock` leaves all as it was
  (`GivesBack`) needs that a free inode has no block (`FreeInv`). `corrupt` ends the run.
  `FsckTree` is the whole refinement to `FileTree`; it adds that every file has a name (`NamedInv`), or a link could bring back
  what the tree has forgotten. `FsckLinks` adds `ListInv`: a directory's list is its own two entries and one for every known
  name in it, and its count is 2 and its subdirectories. `FsckCorruption`
  takes the twelve kinds of `corrupt()` one by one and names the rule that each breaks. `FsckNames` is about walks:
  the set that `NamesResolve` computes from the root is what `run()` knows, by the least length of a path that would be missing.
* **SSDProofs** (`SSDLogInOrder`, `SSDNeverFull`, `SSDKeepsPages`), for any geometry, water marks and number of addresses, and all three types,
  with a high water mark above 0 (at 0 the collector would also run where there is no log). `LogInOrder` holds whatever happens, a full
  device included; it needs that the pages of a block without log are all alike (`Shape`), since `is_block_free` looks at the first one only, and that the
  block the collector empties is not one the log can enter (`Collected`), which is so because a page that was never erased was never written
  (`NeverErased`). `SSDMapsAgree` and `SSDImplementsDisk` suppose `NeverFull`, which the collector needs and does not test, and add that what is
  left to copy is exactly what is live (`CopiesLive`). `SSDNeverFull` shows it under `Roomy`: the high water mark is
  no more than the number of blocks, and the addresses fit in all blocks but one. Then `SSDKeepsPages` has the other two without a
  condition. `RoomInv` says that between commands a block is free, and that the collector, while it copies, has that block or the
  one it just freed. The step to a next round is a pigeonhole: when all blocks but the log's were seen and left alone they are full of
  live pages (`SeenLive`), and there are not as many live pages (`SomeDead`). Both halves of `Roomy` are needed: `ssd_small_reserve` has
  five addresses on three blocks of two pages, and loses a page. The program does not ask for either: its defaults are 7 blocks and a
  mark of 10, with which the collector never starts. `LogWrite` says once what a write to the log does.
* **StorageProofs** is about two of the simulators of `storage`. `RaidTwoPhases` and `RaidStopsWhenServed`, for any list of requests, window, speed and kind of array. The invariant `Right`
  is about the whole state as one record, because a tick of `Animate` is a chain of loops over it: the statuses of a small parity write are both
  of the first or both of the second phase, an arm that works has a request with a status that says so on that disk (`AtWork`), and a request that may go to either of two
  disks is begun on both at once (`Fresh`). `AtWork` is what makes `mark_done` safe: an arm that ends an I/O moves the status of that I/O on, and no
  other. `RaidStopsWhenServed` is a count. `Begun` reads off the statuses of a request how many I/Os it has begun; `Counted` says that
  the I/Os that ended and the arms that work are together the sum of that over all requests. A request begins at most as many as it takes
  (`BegunAtMost`), and `request_count_needed`, which counts four for every part of a full stripe and takes eight back at its end, is the sum of what they take
  (`NeededIs`). So when the ended I/Os are as many as needed no arm works, every request has begun all it takes (`SumsCompare`), and since a write in
  status "write" has an arm (`WorkedFor`) every write is done. The theorem assumes `FullStripesWritten`: a full stripe is three writes. Without it the count
  is too small, as said above. The loops are folds; the first lemmas show that the recursive function behind a fold exists (`StepsExist`, by the least number for which it would
  not) and that what every step keeps holds at the end (`StepsStay`). A lemma per loop (`LooksKeep`, `ScanKeeps`, `TickKeeps`) uses them.
  `CheckpointIsCurrent`: for any sizes of the log, names and paths, and any option but `-N`, under which nothing is promised. `CheckpointCurrent` is not
  inductive, because with lookup through the checkpoint every command reads the disk it has written: an address out of the log, or one of a block
  of another kind, and the walk reads something else. `LogOK` says of the whole log what its blocks can be: the entries of a directory name
  inodes whose piece of the map is on the disk (`Known`; only of such numbers do disk and memory tell the same), the blocks of a directory are there
  (`Filled`), the map and the checkpoint lead to inodes and to pieces (`Mapped`, `Listed`), and the two copies of an inode differ in its names at
  most (`Current`). A command reads what these say (`InodeIs`, `DirectoryIs`, `LookupIs`, `WalkIs`), and what it may do to the map is `Kept`: leave an entry,
  change one whose piece it writes, or write the same inode again. The last is what saves `file_link`, which
  leaves the piece of the linked file as it was. `CommitKeeps` shows once that such a command keeps the log in order, from what the loop over the pieces
  of the map leaves behind (`UpdatesAre`); a lemma per command (`CreateKeeps`, `LinkKeeps`, `WriteKeeps`, `DeleteKeeps`) shows that it is one.
* **MachinesProofs** is about two of the simulators of `machines`. `PageTableTranslates`: for any size of a page, up to as many pages as an entry can name, and any order of requests. `TableInv` says of the memory, and not of the
  program's lists, that the directory's valid entries lead to pages of tables and their valid entries to pages of data, all different and
  all used (`Maps`), and that no used page is anything else (`NoneLost`). It is needed because every write goes through
  the entries themselves: an entry that led to the page of another table would be followed. `AllocPage` is taken in its two parts, a page for a
  new table (`TableAdded`) and the page asked for (`PageAdded`), and in the cases where one of them finds no page.
  `ProcessCpuShared`: for any programs, any length of an I/O, both versions and every switching rule. `Sound` says of the states and the current
  process what `CpuShared` says of them, and that a system that does not switch has nobody wait but the current process, which is why the end of an I/O may
  give the cpu away without asking who has it. It is kept by every part of a tick (`NextProcSound`, `CheckIfDoneSound`, `IoEndedSound`,
  `IOIssuedSound`), so that a tick is their composition. No two I/Os end at once because each that starts is longer than what is left of the others (`IOInv`).

Only model-checked: the liveness properties (fairness and ENABLED are out of the prover's reach); `RaidServes`, `AssertionsHold`, `AllocatesNearest`; the
properties of `machines` but `CpuShared` and `TranslatesAsMapped`; and the refinement to `LogTree`. Of these, what is about `FFS` cannot be
proved at all, since its search for blocks is a RECURSIVE operator. Induction theorems whose parameter is an operator cannot be used either, nor is anything
known to the prover of `SelectSeq` (the queues of `MLFQ`). A fold can be reasoned about as in `StorageProofs`.

## Not modelled, and the plan

What would come next, in order:

1. Proofs of `HeapCovered` in `Malloc`, `Confined` in `Multi` and `RaidServes` in `Raid`, with the lemmas on folds of `StorageProofs`; for `lfs.py` without
   `-D` and `-N`, that nothing it wrote makes it fail, and its refinement to `LogTree`, both of which need that a file's count in memory is the number of its entries.
2. `c29_questions/`: the approximate counter within its error bound; the hand-over-hand list against a set.
3. `threads-cv/main-two-cvs-while-extra-unlock.c`, which needs steps of single loads and stores.
4. The request scheduling of `disk.py` and `disk-precise.py` on whole-number geometry; the tree of `fork.py`.

Left out for good: programs that measure or print (c6, c13, c14, c19, c23, vm-beyondphys), pictures
(the canvases of `raid-graphics.py`, `disk*.py`), random generators, single arithmetic translations (vm-paging, vm-segmentation, vm-mechanism,
file-integrity), batch arithmetic on job lists without events (cpu-sched, lottery), and the skeletons of threads-sema.
