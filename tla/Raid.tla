-------------------------------- MODULE Raid --------------------------------
(***************************************************************************)
(* file-raid/raid.py: the reads and writes of the disks that a request to  *)
(* an array of RAID level 0, 1, 4 or 5 turns into; RaidMaps says to which  *)
(* disks.  A disk keeps its position and counts its I/Os as sequential,    *)
(* nearly so or random; the times that follow from these are left out.     *)
(***************************************************************************)
EXTENDS RaidMaps, Sequences, SequencesExt, FiniteSets

CONSTANTS
    Layouts,        \* [level, numDisks, chunkSize (in blocks), raid5type]
    randRange,      \* -R
    Sizes,          \* request sizes in blocks
    numRequests,    \* -n
    numTracks, blocksPerTrack

\* What the constants have to be; MC modules assume it of the values they give them.
RaidAssumption ==
    /\ \A l \in Layouts :
          /\ l.level \in {0, 1, 4, 5} /\ l.raid5type \in {"LS", "LA"}
          /\ l.numDisks \in Nat \ {0} /\ l.chunkSize \in Nat \ {0}
          /\ l.level = 1 => l.numDisks % 2 = 0
          /\ l.level # 0 => l.numDisks >= 2
    /\ Sizes \subseteq Nat \ {0}
    /\ randRange \in Nat \ {0} /\ numRequests \in Nat
    /\ numTracks \in Nat \ {0} /\ blocksPerTrack \in Nat \ {0}

VARIABLES
    layout,
    workload,       \* "seq" or "rand", with the size of all requests
    off,            \* where a sequential workload continues
    requests,       \* how many have been made
    disks,          \* per disk [currAddr, countIO, countSeq, countNseq, countRand]
    physical        \* the last request, and its reads and writes in order

raidVars == <<layout, workload, off, requests, disks, physical>>

Disks(l) == 0 .. l.numDisks - 1

-----------------------------------------------------------------------------
\* The I/Os of a request.
range(a, b) == [i \in 1 .. b - a |-> a + i - 1]
IO(op, p) == [op |-> op, disk |-> p.disk, off |-> p.off]
Op(isWrite) == IF isWrite THEN "write" ELSE "read"

enqueue0(l, addr, size, isWrite) ==
    [i \in 1 .. size |-> IO(Op(isWrite), bmap0(l, addr + i - 1))]

enqueue1(l, addr, size, isWrite) ==
    FlattenSeq([i \in 1 .. size |->
        LET p == bmap1(l, addr + i - 1)
            mirror == [p EXCEPT !.disk = @ + 1]
        IN  IF isWrite THEN <<IO("write", p), IO("write", mirror)>>
            ELSE IF p.off % 2 = 0 THEN <<IO("read", p)>> ELSE <<IO("read", mirror)>>])

All(op, l, blocks) == [i \in 1 .. Len(blocks) |-> IO(op, bmap(l, blocks[i]))]

\* offList: the offsets of some blocks, each once, in the order they appear.
offList(l, blocks) ==
    FoldLeft(LAMBDA offs, b : IF Contains(offs, bmap(l, b).off) THEN offs
                              ELSE Append(offs, bmap(l, b).off), << >>, blocks)

Parity(op, l, stripe, blocks) ==
    LET offs == offList(l, blocks)
    IN  [i \in 1 .. Len(offs) |-> IO(op, At(pmap(l, stripe), offs[i]))]

\* A few blocks: the old blocks and the old parity are read; many: the others.
doPartialWrite(l, stripe, begin, end) ==
    LET B == blocksInStripe(l)
        written == range(begin, end)
        reads == IF Len(written) + 1 <= B - Len(written)
                 THEN All("read", l, written) \o Parity("read", l, stripe, written)
                 ELSE All("read", l, range(stripe * B, begin))
                      \o All("read", l, range(end, (stripe + 1) * B))
    IN  reads \o All("write", l, written) \o Parity("write", l, stripe, written)

\* Where the part of a write that begins at begin, with left blocks to go, ends.
EndIn(l, stripe, begin, left) ==
    LET B == blocksInStripe(l)
        end == IF left >= B THEN begin + B ELSE begin + left
    IN  IF end >= (stripe + 1) * B THEN (stripe + 1) * B ELSE end

enqueue45(l, addr, size, isWrite) ==
    LET B == blocksInStripe(l)
        Part(w, stripe) ==
            LET end == EndIn(l, stripe, w.begin, w.left)
            IN  [ios |-> w.ios \o doPartialWrite(l, stripe, w.begin, end),
                 begin |-> end, left |-> w.left - (end - w.begin)]
    IN  IF isWrite
        THEN FoldLeft(Part, [ios |-> << >>, begin |-> addr, left |-> size],
                      range(addr \div B, (addr + size - 1) \div B + 1)).ios
        ELSE All("read", l, range(addr, addr + size))

enqueue(l, addr, size, isWrite) ==
    CASE l.level = 0 -> enqueue0(l, addr, size, isWrite)
      [] l.level = 1 -> enqueue1(l, addr, size, isWrite)
      [] OTHER -> enqueue45(l, addr, size, isWrite)

-----------------------------------------------------------------------------
\* One I/O of a disk.  int() cuts towards zero; addresses before the first
\* I/O are far below.
Track(addr) == IF addr < 0 THEN -((-addr) \div numTracks) ELSE addr \div numTracks

DiskEnqueue(d, addr) ==
    LET diff == IF addr < d.currAddr THEN d.currAddr - addr ELSE addr - d.currAddr
        near == Track(addr) = Track(d.currAddr) \/ diff < blocksPerTrack
    IN  [currAddr |-> addr, countIO |-> d.countIO + 1,
         countSeq  |-> d.countSeq + (IF near /\ diff = 1 THEN 1 ELSE 0),
         countNseq |-> d.countNseq + (IF near /\ diff # 1 THEN 1 ELSE 0),
         countRand |-> d.countRand + (IF near THEN 0 ELSE 1)]

NewDisk == [currAddr |-> -10000, countIO |-> 0, countSeq |-> 0, countNseq |-> 0,
            countRand |-> 0]

RaidInit ==
    /\ layout \in Layouts
    /\ workload \in [order : {"seq", "rand"}, size : Sizes]
    /\ off = 0
    /\ requests = 0
    /\ disks = [d \in Disks(layout) |-> NewDisk]
    /\ physical = [addr |-> 0, size |-> 0, isWrite |-> FALSE, ios |-> << >>]

\* A request: the capacity of the disks is not reached with this randRange.
Request(isWrite) ==
    \E blk \in IF workload.order = "seq" THEN {off} ELSE 0 .. randRange - 1 :
       LET ios == enqueue(layout, blk, workload.size, isWrite)
       IN  /\ requests < numRequests
           /\ requests' = requests + 1
           /\ off' = IF workload.order = "seq" THEN off + workload.size ELSE off
           /\ disks' = FoldLeft(LAMBDA ds, io :
                                    [ds EXCEPT ![io.disk] = DiskEnqueue(@, io.off)],
                                disks, ios)
           /\ physical' = [addr |-> blk, size |-> workload.size, isWrite |-> isWrite,
                           ios |-> ios]
           /\ UNCHANGED <<layout, workload>>

RaidNext == \E isWrite \in BOOLEAN : Request(isWrite)

RaidSpec == RaidInit /\ [][RaidNext]_raidVars

-----------------------------------------------------------------------------
\* The places the last request read before its n-th I/O, and all it wrote.
Place(io) == At(io.disk, io.off)
ReadBefore(n) == {Place(physical.ios[i]) :
                    i \in {j \in 1 .. n - 1 : physical.ios[j].op = "read"}}
Written == {Place(physical.ios[i]) :
              i \in {j \in DOMAIN physical.ios : physical.ios[j].op = "write"}}

Stripe(p) == p.off \div layout.chunkSize
IsParity(p) == p.disk = pmap(layout, Stripe(p))
DataRow(o) == {At(d, o) : d \in {e \in Disks(layout) : ~ IsParity(At(e, o))}}

\* RAID 4 and 5: when a parity block is written, the program has what it takes to
\* compute it: the rest of its row of blocks, or the old blocks and the old parity.
\* Every block that is written has its parity written.
ParityComputable ==
    layout.level \in {4, 5} /\ physical.isWrite =>
        /\ \A n \in DOMAIN physical.ios :
              LET p == Place(physical.ios[n])
                  new == DataRow(p.off) \cap Written
              IN  physical.ios[n].op = "write" /\ IsParity(p) =>
                    \/ DataRow(p.off) \subseteq new \cup ReadBefore(n)
                    \/ new \cup {p} \subseteq ReadBefore(n)
        /\ \A p \in Written : \E q \in Written : IsParity(q) /\ q.off = p.off

\* The blocks a request names are those it reads or writes, on both disks of a pair
\* when it writes, and no two blocks of the array share a place or lie on parity.
Homes(b) ==
    CASE layout.level = 0 -> {bmap0(layout, b)}
      [] layout.level = 1 -> {bmap1(layout, b), [bmap1(layout, b) EXCEPT !.disk = @ + 1]}
      [] OTHER -> {bmap(layout, b)}

EveryBlockServed ==
    LET named == physical.addr .. physical.addr + physical.size - 1
        data == {p \in Written : layout.level \in {0, 1} \/ ~ IsParity(p)}
    IN  /\ physical.isWrite => data = UNION {Homes(b) : b \in named}
        /\ ~ physical.isWrite =>
              /\ Cardinality(ReadBefore(Len(physical.ios) + 1)) = physical.size
              /\ \A b \in named : Homes(b) \cap ReadBefore(Len(physical.ios) + 1) # {}
        /\ \A b, c \in 0 .. randRange : b # c => Homes(b) \cap Homes(c) = {}
        /\ layout.level \in {4, 5} => \A b \in named : \A p \in Homes(b) : ~ IsParity(p)

\* A sequential workload moves no arm but to its first block.
SequentialSeeksOnce ==
    workload.order = "seq" => \A d \in Disks(layout) : disks[d].countRand <= 1
=============================================================================
