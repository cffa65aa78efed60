-------------------------------- MODULE SSD --------------------------------
(***************************************************************************)
(* file-ssd/ssd.py: the flash (state and data of every page), the flash    *)
(* translation layer (forward_map, reverse_map, the write cursor) and the  *)
(* garbage collector.  The main loop runs one command and then upkeep();   *)
(* the collector, which upkeep may start, is taken block by block and page *)
(* by page, and the next command waits for it, as it does in the program.  *)
(* Statistics are left out.                                                *)
(***************************************************************************)
EXTENDS Integers, Sequences, FiniteSets

CONSTANTS
    Types,              \* the -T options looked at
    num_logical_pages,  \* -l
    num_blocks,         \* -B
    pages_per_block,    \* -p
    gc_high_water_mark, \* -G
    gc_low_water_mark,  \* -g
    Values,             \* what can be written
    None                \* what a page without data holds

ASSUME SSDAssumption ==
    /\ Types \subseteq {"direct", "log", "ideal"}
    /\ num_blocks \in Nat \ {0} /\ pages_per_block \in Nat \ {0}
    /\ num_logical_pages \in 1 .. num_blocks * pages_per_block
    /\ gc_high_water_mark \in Nat /\ gc_low_water_mark \in Nat
    /\ None \notin Values

Blocks    == 0 .. num_blocks - 1
Pages     == 0 .. num_blocks * pages_per_block - 1
Addresses == 0 .. num_logical_pages - 1

First(b)   == b * pages_per_block
PagesOf(b) == First(b) .. First(b) + pages_per_block - 1
BlockOf(p) == p \div pages_per_block

VARIABLES
    ssd_type,           \* -T
    state,              \* per page: "invalid", "erased" or "valid"
    data,               \* per page
    forward_map,        \* per address, its page or -1
    reverse_map,        \* per page, the address last written there or -1
    current_page,       \* where the log continues, or -1: in a new block
    current_block,      \* the block of the log
    gc_used_blocks,     \* blocks that hold part of the log
    gc_current_block,   \* where the collector starts
    phase,              \* "command", "upkeep", "scan", "copy"
    scan,               \* blocks the collector has still to look at
    copies              \* the live pages it has still to copy out of Head(scan)

flash == <<state, data>>
map   == <<forward_map, reverse_map>>
log   == <<current_page, current_block, gc_used_blocks>>
gc    == <<gc_current_block, scan, copies>>
vars  == <<ssd_type, flash, map, log, gc, phase>>

Init ==
    /\ ssd_type \in Types
    /\ state = [p \in Pages |-> "invalid"]
    /\ data = [p \in Pages |-> None]
    /\ forward_map = [a \in Addresses |-> -1]
    /\ reverse_map = [p \in Pages |-> -1]
    /\ current_page = -1
    /\ current_block = 0
    /\ gc_used_blocks = {}
    /\ gc_current_block = 0
    /\ phase = "command"
    /\ scan = << >> /\ copies = {}

\* The blocks from b on, going round the end.
Round(b) == [k \in 1 .. num_blocks |-> (b + k - 1) % num_blocks]

-----------------------------------------------------------------------------
\* write_direct: read the block, erase it, program the old pages and the new.
write_direct(a, v) ==
    LET b == BlockOf(a)
        old == {p \in PagesOf(b) : state[p] = "valid"}
    IN  /\ state' = [p \in Pages |->
                        IF p \in PagesOf(b)
                        THEN IF p \in old \cup {a} THEN "valid" ELSE "erased"
                        ELSE state[p]]
        /\ data' = [p \in Pages |->
                        IF p = a THEN v
                        ELSE IF p \in PagesOf(b) \ old THEN None ELSE data[p]]
        /\ forward_map' = [forward_map EXCEPT ![a] = a]
        /\ reverse_map' = [reverse_map EXCEPT ![a] = a]
        /\ gc_used_blocks' = gc_used_blocks \ {b}
        /\ UNCHANGED <<current_page, current_block>>

write_ideal(a, v) ==
    /\ state' = [state EXCEPT ![a] = "valid"]
    /\ data' = [data EXCEPT ![a] = v]
    /\ forward_map' = [forward_map EXCEPT ![a] = a]
    /\ reverse_map' = [reverse_map EXCEPT ![a] = a]
    /\ UNCHANGED log

\* is_block_free looks at the first page only.
is_block_free(b) == state[First(b)] \in {"invalid", "erased"}
FreeBlocks == {b \in Blocks : is_block_free(b)}
DeviceFull == current_page = -1 /\ FreeBlocks = {}

\* get_cursor: go on in the current block, or take the first free one from there on,
\* going round the end, which is erased first if it has never been.
Ahead(b)  == (b - current_block) % num_blocks
NextBlock == IF current_page # -1 THEN current_block
             ELSE CHOOSE b \in FreeBlocks : \A c \in FreeBlocks : Ahead(b) <= Ahead(c)
Cursor    == IF current_page # -1 THEN current_page ELSE First(NextBlock)

write_logging(a, v) ==
    LET b     == NextBlock
        p     == Cursor
        fresh == current_page = -1 /\ state[p] = "invalid"
    IN  /\ ~DeviceFull
        /\ state' = [q \in Pages |-> IF q = p THEN "valid"
                                     ELSE IF fresh /\ q \in PagesOf(b) THEN "erased"
                                     ELSE state[q]]
        /\ data' = [q \in Pages |-> IF q = p THEN v
                                    ELSE IF fresh /\ q \in PagesOf(b) THEN None
                                    ELSE data[q]]
        /\ forward_map' = [forward_map EXCEPT ![a] = p]
        /\ reverse_map' = [reverse_map EXCEPT ![p] = a]
        /\ current_block' = b
        /\ gc_used_blocks' = gc_used_blocks \cup {b}
        /\ current_page' = IF (p + 1) % pages_per_block = 0 THEN -1 ELSE p + 1

\* write: what a write command calls, and the collector for its copies.
write(a, v) ==
    \/ ssd_type = "direct" /\ write_direct(a, v)
    \/ ssd_type = "ideal" /\ write_ideal(a, v)
    \/ ssd_type = "log" /\ write_logging(a, v)
    \/ ssd_type = "log" /\ DeviceFull /\ UNCHANGED <<flash, map, log>>

\* The commands of the main loop.  Those that fail change nothing, and upkeep
\* follows all of them.
WriteCommand(a, v) ==
    /\ phase = "command"
    /\ write(a, v)
    /\ phase' = "upkeep"
    /\ UNCHANGED gc

TrimCommand(a) ==
    /\ phase = "command"
    /\ forward_map' = [forward_map EXCEPT ![a] = -1]
    /\ phase' = "upkeep"
    /\ UNCHANGED <<flash, reverse_map, log, gc>>

\* What a read of an address returns; the command itself changes nothing.
read(a) == IF forward_map[a] = -1 THEN None ELSE data[forward_map[a]]

ReadCommand ==
    /\ phase = "command"
    /\ phase' = "upkeep"
    /\ UNCHANGED <<flash, map, log, gc>>

-----------------------------------------------------------------------------
blocks_in_use == Cardinality(gc_used_blocks)

\* Faulty: the collector starts one block too late.
Upkeep_Late ==
    /\ phase = "upkeep"
    /\ IF blocks_in_use > gc_high_water_mark
       THEN phase' = "scan" /\ scan' = Round(gc_current_block)
       ELSE phase' = "command" /\ UNCHANGED scan
    /\ UNCHANGED <<flash, map, log, gc_current_block, copies>>

Upkeep ==
    /\ phase = "upkeep"
    /\ IF blocks_in_use >= gc_high_water_mark
       THEN phase' = "scan" /\ scan' = Round(gc_current_block)
       ELSE phase' = "command" /\ UNCHANGED scan
    /\ UNCHANGED <<flash, map, log, gc_current_block, copies>>

\* Faulty: a page is taken for live because its address is in use.
IsLive_AddressInUse(p) == reverse_map[p] # -1 /\ forward_map[reverse_map[p]] # -1

\* A page is live when the address last written there is still mapped to it.
IsLive(p) == reverse_map[p] # -1 /\ forward_map[reverse_map[p]] = p

\* Faulty: the first page of the block is not looked at.
LivePages_NotFirst(b) == {p \in PagesOf(b) \ {First(b)} : IsLive(p)}

LivePages(b) == {p \in PagesOf(b) : IsLive(p)}

\* A block is passed over when the log is in it, when it is erased, and when
\* all its pages are live.
Skipped(b) ==
    \/ b = current_block
    \/ state[First(b)] = "erased"
    \/ LivePages(b) = PagesOf(b)

SkipBlock ==
    /\ phase = "scan" /\ scan # << >> /\ Skipped(Head(scan))
    /\ scan' = Tail(scan)
    /\ UNCHANGED <<flash, map, log, gc_current_block, copies, phase>>

TakeBlock ==
    /\ phase = "scan" /\ scan # << >> /\ ~Skipped(Head(scan))
    /\ copies' = LivePages(Head(scan))
    /\ phase' = "copy"
    /\ UNCHANGED <<flash, map, log, gc_current_block, scan>>

\* Page after page from the first on.  The result of the write is not looked at.
CopyPage ==
    /\ phase = "copy"
    /\ \E p \in copies :
          /\ \A q \in copies : p <= q
          /\ write(reverse_map[p], data[p])
          /\ copies' = copies \ {p}
    /\ UNCHANGED <<gc_current_block, scan, phase>>

\* Faulty: the block still counts as used.
EraseBlock_StillUsed ==
    LET b == Head(scan)
    IN  /\ phase = "copy" /\ copies = {}
        /\ state' = [p \in Pages |-> IF p \in PagesOf(b) THEN "erased" ELSE state[p]]
        /\ data' = [p \in Pages |-> IF p \in PagesOf(b) THEN None ELSE data[p]]
        /\ IF Cardinality(gc_used_blocks) <= gc_low_water_mark
           THEN phase' = "command" /\ gc_current_block' = b /\ scan' = << >>
           ELSE phase' = "scan" /\ scan' = Tail(scan) /\ UNCHANGED gc_current_block
        /\ UNCHANGED <<map, log, copies>>

EraseBlock ==
    LET b == Head(scan)
    IN  /\ phase = "copy" /\ copies = {}
        /\ state' = [p \in Pages |-> IF p \in PagesOf(b) THEN "erased" ELSE state[p]]
        /\ data' = [p \in Pages |-> IF p \in PagesOf(b) THEN None ELSE data[p]]
        /\ gc_used_blocks' = gc_used_blocks \ {b}
        /\ IF Cardinality(gc_used_blocks') <= gc_low_water_mark
           THEN phase' = "command" /\ gc_current_block' = b /\ scan' = << >>
           ELSE phase' = "scan" /\ scan' = Tail(scan) /\ UNCHANGED gc_current_block
        /\ UNCHANGED <<map, current_page, current_block, copies>>

\* Every block has been looked at.
EndScan ==
    /\ phase = "scan" /\ scan = << >>
    /\ phase' = "command"
    /\ UNCHANGED <<flash, map, log, gc>>

garbage_collect == SkipBlock \/ TakeBlock \/ CopyPage \/ EraseBlock \/ EndScan

Command ==
    \/ \E a \in Addresses : \/ \E v \in Values : WriteCommand(a, v)
                            \/ TrimCommand(a)
    \/ ReadCommand

Next == (Command \/ Upkeep \/ garbage_collect) /\ UNCHANGED ssd_type

Spec == Init /\ [][Next]_vars

-----------------------------------------------------------------------------
TypeOK ==
    /\ ssd_type \in Types
    /\ state \in [Pages -> {"invalid", "erased", "valid"}]
    /\ data \in [Pages -> Values \cup {None}]
    /\ forward_map \in [Addresses -> Pages \cup {-1}]
    /\ reverse_map \in [Pages -> Addresses \cup {-1}]
    /\ current_page \in Pages \cup {-1}
    /\ current_block \in Blocks
    /\ gc_used_blocks \subseteq Blocks
    /\ gc_current_block \in Blocks
    /\ phase \in {"command", "upkeep", "scan", "copy"}
    /\ scan \in Seq(Blocks)
    /\ copies \subseteq Pages

\* An address is mapped to a page that holds data, written there for it; so no
\* two addresses share a page.
MapsAgree ==
    \A a \in Addresses : forward_map[a] # -1 =>
        /\ state[forward_map[a]] = "valid"
        /\ reverse_map[forward_map[a]] = a

\* The log fills a block from its first page on: behind the cursor pages are
\* valid, from the cursor on they are erased, as write_logging asserts; and a
\* block counts as used exactly while it holds part of the log.
LogInOrder ==
    /\ current_page # -1 =>
        /\ BlockOf(current_page) = current_block
        /\ \A p \in PagesOf(current_block) :
              state[p] = IF p < current_page THEN "valid" ELSE "erased"
    /\ ssd_type = "log" =>
        gc_used_blocks = {b \in Blocks : state[First(b)] = "valid"}

\* No write is refused, neither one of the user nor a copy of the collector, which does
\* not look: room is made in time.
NeverFull ==
    ssd_type = "log" /\ (phase = "command" \/ (phase = "copy" /\ copies # {})) => ~DeviceFull

\* Refinement: whatever the flash does, the user sees an array of pages, which
\* upkeep and the collector leave alone.
Disk == INSTANCE LogicalDisk WITH
    store <- [a \in Addresses |-> read(a)], busy <- phase # "command"

ImplementsDisk == Disk!DiskSpec
=============================================================================
