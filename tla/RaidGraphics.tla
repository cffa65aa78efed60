---------------------------- MODULE RaidGraphics ----------------------------
(***************************************************************************)
(* file-raid/raid-graphics.py: an array of four disks that serve a queue   *)
(* of requests at the same time.  Every tick of the animation goes through *)
(* the disks in order; a disk that ends an I/O makes the scheduler look    *)
(* for work for all idle disks.  A write to a parity array is two reads    *)
(* and, when both have ended, two writes.  Drawing, the time and the       *)
(* latencies are left out.                                                 *)
(***************************************************************************)
EXTENDS Integers, Sequences, Steps

CONSTANTS
    Jobs,           \* [mapping, queue of [op, logical], window, seek_speed]
    MaxStarts,      \* how often the user presses s
    MaxPauses       \* and p

disk_count == 4
Disks == 0 .. disk_count - 1
block_count(mapping) == CASE mapping = 0 -> 80 [] mapping = 1 -> 40 [] OTHER -> 60

\* What the constants have to be; MC modules assume it of the values they give them.
RaidGraphicsAssumption ==
    /\ MaxStarts \in Nat /\ MaxPauses \in Nat
    /\ \A j \in Jobs :
          /\ j.mapping \in {0, 1, 4, 5} /\ j.window \in {-1} \cup (Nat \ {0})
          /\ j.seek_speed \in {1, 2, 4, 5, 10, 20}
          /\ j.queue # << >>
          /\ j.queue \in Seq([op : {"read", "write"}, logical : 0 .. block_count(j.mapping) - 1])

\* A full stripe of RAID 4 is three writes, as in the demos: the count the program stops
\* at takes the I/Os of small writes for them, and does not fit a stripe that is read.
FullStripesWritten ==
    \A j \in Jobs : \A f \in DOMAIN j.queue :
        /\ j.mapping = 4 /\ f % 3 = 1 /\ f + 2 \in DOMAIN j.queue
        /\ \A k \in 1 .. 2 : j.queue[f + k].logical = j.queue[f].logical + k
        => \A k \in 0 .. 2 : j.queue[f + k].op = "write"

VARIABLES
    job,
    window,         \* how many requests the scheduler looks at, -1: all
    status,         \* per request, how far each of its disks is
    arms,           \* per disk, its head and the I/O it does
    request_count,  \* I/Os that have ended
    do_animate, is_done,
    starts, pauses  \* how often each key was pressed

rgVars == <<job, window, status, arms, request_count, do_animate, is_done, starts, pauses>>

Requests == DOMAIN job.queue

-----------------------------------------------------------------------------
\* Where a request goes: one disk, a pair, or a disk and the parity disk.
Offset(mapping, logical) ==
    CASE mapping = 0 -> logical \div disk_count
      [] mapping = 1 -> logical \div (disk_count \div 2)
      [] OTHER -> logical \div (disk_count - 1)

PhysicalDisks(mapping, logical) ==
    LET first == 2 * (logical % (disk_count \div 2))
        column == logical % (disk_count - 1)
        parity == 3 - (Offset(mapping, logical) % 4)
    IN  CASE mapping = 0 -> <<logical % disk_count>>
          [] mapping = 1 -> <<first, first + 1>>
          [] mapping = 4 -> <<column, 3>>
          [] mapping = 5 -> <<IF column >= parity THEN column + 1 ELSE column, parity>>

DisksOf(i) == PhysicalDisks(job.mapping, job.queue[i].logical)
OffsetOf(i) == Offset(job.mapping, job.queue[i].logical)
IsWrite(i) == job.queue[i].op = "write"

\* RAID 4: the requests are taken in threes; three blocks in a row are a full stripe.
FirstOfThree(i) == ((i - 1) \div 3) * 3 + 1
FullStripe(i) ==
    LET f == FirstOfThree(i)
    IN  /\ job.mapping = 4
        /\ f + 2 \in Requests
        /\ \A k \in 1 .. 2 : job.queue[f + k].logical = job.queue[f].logical + k
WithParity(i) == i = FirstOfThree(i) + 2

\* Faulty: a mirrored write is counted once.
request_count_needed_OneMirror ==
    FoldLeftDomain(LAMBDA n, i :
        n + (IF ~ IsWrite(i) \/ job.mapping \in {0, 1} THEN 1 ELSE 4)
          - (IF FullStripe(i) /\ WithParity(i) THEN 8 ELSE 0), 0, job.queue)

request_count_needed ==
    LET IOs(i) == IF ~ IsWrite(i) \/ job.mapping = 0 THEN 1
                  ELSE IF job.mapping = 1 THEN 2 ELSE 4
        Saved(i) == IF FullStripe(i) /\ WithParity(i) THEN 8 ELSE 0
    IN  FoldLeftDomain(LAMBDA n, i : n + IOs(i) - Saved(i), 0, job.queue)

-----------------------------------------------------------------------------
\* What becomes of the status s of request i when the k-th of its disks is idle.
Scheduled(i, k, s) ==
    LET fresh == s[k] = "not started"
        only(st) == [j \in DOMAIN s |-> IF j = k THEN st ELSE "done"]
    IN  CASE fresh /\ ~ IsWrite(i) /\ job.mapping = 1 -> only("read")
          [] fresh /\ ~ IsWrite(i) /\ job.mapping # 1 /\ k = 1 -> [s EXCEPT ![k] = "read"]
          [] fresh /\ IsWrite(i) /\ job.mapping \in {0, 1} -> [s EXCEPT ![k] = "write"]
          [] fresh /\ IsWrite(i) /\ FullStripe(i) ->
                IF WithParity(i) THEN [s EXCEPT ![k] = "write"] ELSE only("write")
          [] fresh /\ IsWrite(i) /\ job.mapping \in {4, 5} /\ ~ FullStripe(i) ->
                [s EXCEPT ![k] = "read"]
          [] s[k] = "write begin" -> [s EXCEPT ![k] = "write"]
          [] OTHER -> s

\* Faulty: a disk that has read writes, without regard to the other.
Ended_NoWait(i, k, s) ==
    CASE s[k] = "read" /\ job.mapping \in {4, 5} ->
            IF IsWrite(i) THEN [s EXCEPT ![k] = "write begin"] ELSE s
      [] OTHER -> [s EXCEPT ![k] = "done"]

\* What becomes of it when the k-th disk has ended its I/O, and whether the
\* request has.
Ended(i, k, s) ==
    LET ended == CASE s[k] = "read" /\ job.mapping \in {4, 5} ->
                        IF IsWrite(i) THEN [s EXCEPT ![k] = "read done"] ELSE s
                   [] OTHER -> [s EXCEPT ![k] = "done"]
    IN  IF \A j \in DOMAIN ended : ended[j] = "read done"
        THEN [j \in DOMAIN ended |-> "write begin"] ELSE ended

RequestDone(i, s) == ~ IsWrite(i) \/ \A j \in DOMAIN s : s[j] = "done"

\* StartRequest: the arm of disk d sets out for request i.
SetOut(arm, i) ==
    [arm EXCEPT !.state = "seek", !.last = arm.request, !.request = i,
                !.delta = IF arm.y < 20 * OffsetOf(i) THEN job.seek_speed
                          ELSE - job.seek_speed]

\* st holds the variables a callback changes, as it goes along.
Look(st, d, i) ==
    LET k == SelectInSeq(DisksOf(i), LAMBDA e : e = d)
    IN  IF st.arms[d].state # "null" \/ k = 0 THEN st
        ELSE LET s == Scheduled(i, k, st.status[i])
             IN  IF s = st.status[i] THEN st
                 ELSE [st EXCEPT !.status[i] = s, !.arms[d] = SetOut(@, i)]

GetNextIOs(st) ==
    IF st.request_count = request_count_needed
    THEN [st EXCEPT !.do_animate = FALSE, !.is_done = TRUE]
    ELSE LET n == Len(job.queue)
             seen == IF st.window = -1 \/ st.window > n THEN n ELSE st.window
             OneDisk(s, d) == ForEach(LAMBDA t, i : Look(t, d, i), s, [i \in 1 .. seen |-> i])
         IN  ForEach(OneDisk, st, <<0, 1, 2, 3>>)

\* Faulty: the window stays where it is.
MarkDone_WindowStays(st, d) ==
    LET i == st.arms[d].request
    IN  [st EXCEPT !.status[i] = Ended(i, SelectInSeq(DisksOf(i), LAMBDA e : e = d), @),
                   !.request_count = @ + 1,
                   !.arms[d].state = "null"]

MarkDone(st, d) ==
    LET i == st.arms[d].request
        s == Ended(i, SelectInSeq(DisksOf(i), LAMBDA e : e = d), st.status[i])
    IN  [st EXCEPT !.status[i] = s,
                   !.window = IF RequestDone(i, s) /\ @ > 0 THEN @ + 1 ELSE @,
                   !.request_count = @ + 1,
                   !.arms[d].state = "null"]

\* One disk in one tick.  A block that follows the last one needs no rotation.
Seek(arm) ==
    IF arm.y # 20 * OffsetOf(arm.request) THEN [arm EXCEPT !.y = @ + arm.delta]
    ELSE LET before == IF arm.last = 0 THEN -1 ELSE OffsetOf(arm.last)
         IN  [arm EXCEPT !.state = "xfer",
                         !.transfer_count = IF OffsetOf(arm.request) = before + 1
                                            THEN 1 ELSE 10]

AnimateDisk(st, d) ==
    LET arm == IF st.arms[d].state = "seek" THEN Seek(st.arms[d]) ELSE st.arms[d]
        moved == [st EXCEPT !.arms[d] = arm]
        turned == [moved EXCEPT !.arms[d].transfer_count = @ - 1]
    IN  CASE arm.state # "xfer" -> moved
          [] arm.state = "xfer" /\ arm.transfer_count > 1 -> turned
          [] OTHER -> Given(MarkDone(turned, d), GetNextIOs)

Animated(st) == IF st.do_animate THEN ForEach(AnimateDisk, st, <<0, 1, 2, 3>>) ELSE st

-----------------------------------------------------------------------------
Now == [window |-> window, status |-> status, arms |-> arms,
        request_count |-> request_count, do_animate |-> do_animate, is_done |-> is_done]

Becomes(st) ==
    /\ window' = st.window /\ status' = st.status /\ arms' = st.arms
    /\ request_count' = st.request_count
    /\ do_animate' = st.do_animate /\ is_done' = st.is_done

RaidGraphicsInit ==
    /\ job \in Jobs
    /\ window = job.window
    /\ status = [i \in Requests |-> [k \in DOMAIN DisksOf(i) |-> "not started"]]
    /\ arms = [d \in Disks |-> [state |-> "null", y |-> 0, delta |-> 0, request |-> 0,
                                last |-> 0, transfer_count |-> -1]]
    /\ request_count = 0
    /\ do_animate = TRUE
    /\ is_done = FALSE
    /\ starts = 0 /\ pauses = 0

\* The s key: look for work and tick; from then on Animate calls itself, once more
\* for every time the key was pressed.
Start ==
    /\ starts < MaxStarts
    /\ starts' = starts + 1
    /\ \E st \in {Animated(GetNextIOs(Now))} : Becomes(st)
    /\ UNCHANGED <<job, pauses>>

Animate ==
    /\ starts > 0
    /\ \E st \in {Animated(Now)} : Becomes(st)
    /\ UNCHANGED <<job, starts, pauses>>

Pause ==
    /\ pauses < MaxPauses
    /\ pauses' = pauses + 1
    /\ do_animate' = ~ do_animate
    /\ UNCHANGED <<job, window, status, arms, request_count, is_done, starts>>

RaidGraphicsNext == Start \/ Animate \/ Pause

RaidGraphicsSpec == RaidGraphicsInit /\ [][RaidGraphicsNext]_rgVars /\ WF_rgVars(Animate)

-----------------------------------------------------------------------------
\* No disk of a parity write starts to write before both have read: the disk that is
\* quick waits, whatever else the two arms have to do.
TwoPhases ==
    \A i \in Requests :
        IsWrite(i) /\ job.mapping \in {4, 5} /\ ~ FullStripe(i) =>
            \/ \A k \in 1 .. 2 : status[i][k] \in {"not started", "read", "read done"}
            \/ \A k \in 1 .. 2 : status[i][k] \in {"write begin", "write", "done"}

\* The program stops by counting I/Os.  When it does, every request was served, and
\* no arm is on its way; and while an arm works, its request knows.
StopsWhenServed ==
    /\ is_done => /\ \A d \in Disks : arms[d].state = "null"
                  /\ \A i \in Requests :
                        IF IsWrite(i) THEN \A k \in DOMAIN status[i] : status[i][k] = "done"
                        ELSE status[i][1] # "not started"
    /\ \A d \in Disks : arms[d].state # "null" =>
          \E k \in DOMAIN DisksOf(arms[d].request) :
              /\ DisksOf(arms[d].request)[k] = d
              /\ status[arms[d].request][k] \in {"read", "write"}

\* Once started, and unless it is left paused, it comes to an end.
Serves == (starts > 0) /\ []<>(do_animate \/ is_done) ~> is_done

Maps == INSTANCE RaidMaps

\* A request goes to the two disks, and the place on them, that raid.py computes for it
\* with one block per chunk, whatever the level.
SameLayout ==
    LET l == [level |-> job.mapping, numDisks |-> disk_count, chunkSize |-> 1,
              raid5type |-> "LA"]
        home(b) == CASE l.level = 0 -> Maps!bmap0(l, b)
                     [] l.level = 1 -> Maps!bmap1(l, b)
                     [] OTHER -> Maps!bmap(l, b)
        second(b) == IF l.level = 1 THEN home(b).disk + 1 ELSE Maps!pmap(l, home(b).off)
    IN  \A i \in Requests :
          LET b == job.queue[i].logical
          IN  /\ home(b) = [disk |-> DisksOf(i)[1], off |-> OffsetOf(i)]
              /\ l.level # 0 => DisksOf(i)[2] = second(b)
=============================================================================
