----------------------------- MODULE SSDProofs -----------------------------
(***************************************************************************)
(* The SSD of ssd.py, for any geometry, marks and number of addresses: the *)
(* log is written in order, whatever happens; as long as no write is       *)
(* refused (NeverFull), the maps agree and the user sees an array of       *)
(* pages; and no write is refused if the collector starts in time and the  *)
(* addresses fit in all blocks but one.  A high water mark of 0 is left    *)
(* out: with it the collector also runs on the types that have no log.     *)
(***************************************************************************)
EXTENDS SSD, FiniteSetTheorems, TLAPS, WellFoundedInduction

\* The collector waits for a block to be in use.
Marked == gc_high_water_mark # 0

-----------------------------------------------------------------------------
\* Blocks and pages.
N == num_blocks
P == pages_per_block

\* There are blocks, they have pages, and their number is a number.
LEMMA Sizes == N \in Nat /\ N >= 1 /\ P \in Nat /\ P >= 1 /\ N * P \in Nat
  BY SSDAssumption DEF N, P

\* Products are monotonic.
LEMMA Times ==
    ASSUME NEW a \in Nat, NEW b \in Nat, NEW c \in Nat
    PROVE  /\ a * c \in Nat
           /\ a <= b => a * c <= b * c
           /\ (a + 1) * c = a * c + c
  OBVIOUS

\* A block has its first page, its pages are pages, and no page is in two blocks.
LEMMA BlockPages ==
    ASSUME NEW b \in Blocks
    PROVE  /\ First(b) \in Nat /\ First(b) \in PagesOf(b)
           /\ PagesOf(b) \subseteq Pages
           /\ \A c \in Blocks : b # c => PagesOf(b) \cap PagesOf(c) = {}
<1>0. b \in Nat /\ b + 1 <= N BY Sizes DEF Blocks, N
<1>1. /\ First(b) = b * P /\ First(b) \in Nat
      /\ PagesOf(b) = First(b) .. First(b) + P - 1
    BY <1>0, Sizes, Times DEF First, PagesOf, P
<1>2. First(b) + P <= N * P
    <2>1. (b + 1) * P <= N * P BY <1>0, Sizes, Times
    <2> QED BY <1>0, <1>1, <2>1, Sizes, Times
<1>3. PagesOf(b) \subseteq Pages
    BY <1>1, <1>2, Sizes DEF Pages, N, P
<1>4. ASSUME NEW c \in Blocks, b # c PROVE PagesOf(b) \cap PagesOf(c) = {}
    <2>0. c \in Nat BY Sizes DEF Blocks, N
    <2>1. /\ First(c) = c * P /\ First(c) \in Nat
          /\ PagesOf(c) = First(c) .. First(c) + P - 1
        BY <2>0, Sizes, Times DEF First, PagesOf, P
    <2>2. CASE b < c
        <3>1. (b + 1) * P <= c * P BY <1>0, <2>0, <2>2, Sizes, Times
        <3>2. First(b) + P <= First(c) BY <1>0, <1>1, <2>1, <3>1, Sizes, Times
        <3> QED BY <1>1, <2>1, <3>2, Sizes
    <2>3. CASE c < b
        <3>1. (c + 1) * P <= b * P BY <1>0, <2>0, <2>3, Sizes, Times
        <3>2. First(c) + P <= First(b) BY <2>0, <1>1, <2>1, <3>1, Sizes, Times
        <3> QED BY <1>1, <2>1, <3>2, Sizes
    <2> QED BY <1>0, <1>4, <2>0, <2>2, <2>3
<1> QED BY <1>1, <1>3, <1>4, Sizes

\* Every page is in its block, ...
LEMMA PageBlock ==
    ASSUME NEW p \in Pages
    PROVE  BlockOf(p) \in Blocks /\ p \in PagesOf(BlockOf(p))
<1>0. p \in Nat /\ p < N * P BY Sizes DEF Pages, N, P
<1> DEFINE b == p \div P
<1>1. b \in Nat /\ b * P <= p /\ p < b * P + P
    BY <1>0, Sizes
<1>2. b < N
    <2>1. CASE N <= b
        <3>1. N * P <= b * P BY <1>1, <2>1, Sizes, Times
        <3> QED BY <1>0, <1>1, <3>1, Sizes, Times
    <2> QED BY <1>1, <2>1, Sizes
<1> QED BY <1>0, <1>1, <1>2, Sizes, Times DEF BlockOf, Blocks, PagesOf, First, N, P

\* ... and in no other.
LEMMA InBlock ==
    ASSUME NEW b \in Blocks, NEW p \in PagesOf(b)
    PROVE  BlockOf(p) = b
  BY BlockPages, PageBlock

\* The page after one of a block is in the block, or the block is full.
LEMMA NextPage ==
    ASSUME NEW b \in Blocks, NEW p \in PagesOf(b)
    PROVE  IF (p + 1) % pages_per_block = 0
           THEN \A q \in PagesOf(b) : q <= p
           ELSE p + 1 \in PagesOf(b)
<1>0. b \in Nat /\ P \in Nat /\ P >= 1 BY Sizes DEF Blocks, N
<1>1. /\ b * P \in Nat /\ PagesOf(b) = b * P .. b * P + P - 1
    BY <1>0, Times DEF PagesOf, First, P
<1>2. PICK i \in 0 .. P - 1 : p = b * P + i
    <2>1. p - b * P \in 0 .. P - 1 /\ p = b * P + (p - b * P) BY <1>0, <1>1
    <2> QED BY <2>1
<1>3. CASE i = P - 1 BY <1>0, <1>1, <1>2, <1>3, SMTT(30) DEF P
<1>4. CASE i < P - 1
    <2>1. p + 1 \in PagesOf(b) BY <1>0, <1>1, <1>2, <1>4
    <2>2. (p + 1) % P = i + 1
        <3>1. p + 1 = P * b + (i + 1) /\ i + 1 \in 0 .. P - 1 BY <1>0, <1>1, <1>2, <1>4
        <3> QED BY <1>0, <3>1
    <2> QED BY <1>0, <1>2, <1>4, <2>1, <2>2 DEF P
<1> QED BY <1>0, <1>2, <1>3, <1>4
-----------------------------------------------------------------------------
\* What is true of the log, and of the collector, in every state.

\* The pages of a block that holds no part of the log are all as its first.
Shape == \A b \in Blocks : state[First(b)] # "valid" =>
            \A p \in PagesOf(b) : state[p] = state[First(b)]

\* The block of the log is valid up to the cursor and erased behind it.
InCurrent ==
    current_page # -1 =>
        /\ current_page \in PagesOf(current_block) /\ current_page # First(current_block)
        /\ \A p \in PagesOf(current_block) :
              state[p] = IF p < current_page THEN "valid" ELSE "erased"

UsedBlocks == gc_used_blocks = {b \in Blocks : state[First(b)] = "valid"}

\* A page that was never erased was never written.
NeverErased == \A p \in Pages : state[p] = "invalid" => reverse_map[p] = -1

\* The collector copies out of a block that the log does not enter.
Collected ==
    phase = "copy" =>
        /\ scan # << >> /\ Head(scan) \in Blocks /\ Head(scan) # current_block
        /\ copies \subseteq PagesOf(Head(scan))
        /\ \A p \in copies : reverse_map[p] # -1
        /\ copies # {} => state[First(Head(scan))] = "valid"

LogInv == Shape /\ InCurrent /\ UsedBlocks /\ NeverErased /\ Collected

\* The types without a log use neither the cursor nor the collector.
NoLogInv ==
    /\ gc_used_blocks = {} /\ current_page = -1 /\ phase \in {"command", "upkeep"}
    /\ \A a \in Addresses : forward_map[a] \in {-1, a}

IInv == TypeOK /\ IF ssd_type = "log" THEN LogInv ELSE NoLogInv

\* A non-empty set of naturals has a least element.
LEMMA LeastExists ==
    ASSUME NEW S \in SUBSET Nat, S # {}
    PROVE  \E m \in S : \A y \in S : ~(y < m)
<1>1. PICK m \in S : \A y \in S : ~(<<y, m>> \in OpToRel(<, Nat))
    BY NatLessThanWellFounded, WFMin
<1> QED BY <1>1 DEF OpToRel

\* get_cursor finds a free block when there is one.
LEMMA NextBlockFree ==
    ASSUME TypeOK, ~DeviceFull
    PROVE  IF current_page # -1 THEN NextBlock = current_block ELSE NextBlock \in FreeBlocks
<1>1. CASE current_page # -1 BY <1>1 DEF NextBlock
<1>2. CASE current_page = -1
    <2>1. ASSUME NEW b \in FreeBlocks PROVE Ahead(b) \in Nat
        BY Sizes DEF FreeBlocks, Blocks, Ahead, N, TypeOK
    <2> DEFINE S == {Ahead(b) : b \in FreeBlocks}
    <2>2. S \in SUBSET Nat /\ S # {} BY <1>2, <2>1 DEF DeviceFull
    <2>3. PICK m \in S : \A y \in S : ~(y < m) BY <2>2, LeastExists
    <2>4. PICK b \in FreeBlocks : Ahead(b) = m BY <2>3
    <2>5. \A c \in FreeBlocks : Ahead(b) <= Ahead(c)
        <3> SUFFICES ASSUME NEW c \in FreeBlocks PROVE Ahead(b) <= Ahead(c) OBVIOUS
        <3>1. ~(Ahead(c) < m) BY <2>3
        <3>2. Ahead(b) \in Nat /\ Ahead(c) \in Nat BY <2>1
        <3> QED BY <2>4, <3>1, <3>2
    <2>6. NextBlock = CHOOSE x \in FreeBlocks : \A c \in FreeBlocks : Ahead(x) <= Ahead(c)
        BY <1>2 DEF NextBlock
    <2> QED BY <1>2, <2>5, <2>6
<1> QED BY <1>1, <1>2

\* A write to the log: the page at the cursor of the block b, which was erased or is
\* now; the rest of the flash is left alone.
LEMMA LogWrite ==
    ASSUME TypeOK, Shape, InCurrent,
           NEW a \in Addresses, NEW v, write_logging(a, v)
    PROVE  \E b \in Blocks : \E p \in PagesOf(b) :
              /\ b = NextBlock /\ p = Cursor /\ p \in Pages
              /\ (b = current_block /\ state[First(b)] = "valid") \/ state[First(b)] # "valid"
              /\ state[p] # "valid" /\ data'[p] = v
              /\ \A q \in PagesOf(b) :
                    /\ state'[q] = IF q <= p THEN "valid" ELSE "erased"
                    /\ state[q] = "valid" => q < p /\ data'[q] = data[q]
              /\ \A q \in Pages \ PagesOf(b) : state'[q] = state[q] /\ data'[q] = data[q]
              /\ forward_map' = [forward_map EXCEPT ![a] = p]
              /\ reverse_map' = [reverse_map EXCEPT ![p] = a]
              /\ current_block' = b
              /\ gc_used_blocks' = gc_used_blocks \cup {b}
              /\ current_page' = IF (p + 1) % pages_per_block = 0 THEN -1 ELSE p + 1
<1> DEFINE b == NextBlock
           p == Cursor
<1>1. /\ b \in Blocks /\ p \in PagesOf(b) /\ state[p] # "valid"
      /\ (b = current_block /\ state[First(b)] = "valid") \/ state[First(b)] # "valid"
      /\ \A q \in PagesOf(b) :
            /\ state'[q] = IF q <= p THEN "valid" ELSE "erased"
            /\ state[q] = "valid" => q < p
    <2>1. CASE current_page # -1
        <3>1. b = current_block /\ p = current_page /\ b \in Blocks
            BY <2>1, NextBlockFree DEF write_logging, Cursor, TypeOK
        <3>2. PagesOf(b) \subseteq Pages /\ First(b) \in PagesOf(b) /\ First(b) \in Nat
            BY <3>1, BlockPages
        <3>3. /\ p \in PagesOf(b) /\ p # First(b)
              /\ \A q \in PagesOf(b) : state[q] = IF q < p THEN "valid" ELSE "erased"
            BY <2>1, <3>1 DEF InCurrent
        <3>4. \A q \in PagesOf(b) : q \in Nat /\ q >= First(b)
            BY <3>1, <3>2, Sizes DEF PagesOf, P
        <3>5. First(b) < p BY <3>2, <3>3, <3>4
        <3>6. \A q \in PagesOf(b) : state'[q] = IF q = p THEN "valid" ELSE state[q]
            BY <2>1, <3>2 DEF write_logging
        <3> QED BY <3>1, <3>2, <3>3, <3>4, <3>5, <3>6
    <2>2. CASE current_page = -1
        <3>1. b \in FreeBlocks /\ p = First(b)
            BY <2>2, NextBlockFree DEF write_logging, Cursor
        <3>2. b \in Blocks /\ state[First(b)] \in {"invalid", "erased"}
            BY <3>1 DEF FreeBlocks, is_block_free
        <3>3. PagesOf(b) \subseteq Pages /\ First(b) \in PagesOf(b) /\ First(b) \in Nat
            BY <3>2, BlockPages
        <3>4. \A q \in PagesOf(b) : q \in Nat /\ q >= First(b)
            BY <3>2, <3>3, Sizes DEF PagesOf, P
        <3>5. \A q \in PagesOf(b) : state[q] = state[First(b)] BY <3>2 DEF Shape
        <3>6. \A q \in PagesOf(b) : state'[q] = IF q = p THEN "valid" ELSE "erased"
            BY <2>2, <3>1, <3>2, <3>3, <3>5 DEF write_logging
        <3> QED BY <3>1, <3>2, <3>3, <3>4, <3>5, <3>6
    <2> QED BY <2>1, <2>2
<1>2. PagesOf(b) \subseteq Pages BY <1>1, BlockPages
<1>3. /\ data'[p] = v
      /\ \A q \in Pages \ PagesOf(b) : state'[q] = state[q] /\ data'[q] = data[q]
    BY <1>1, <1>2 DEF write_logging
<1>4. ASSUME NEW q \in PagesOf(b), state[q] = "valid" PROVE data'[q] = data[q]
    <2>1. q # p BY <1>1, <1>4
    <2>2. CASE current_page # -1 BY <1>2, <2>1, <2>2 DEF write_logging
    <2>3. CASE current_page = -1
        <3>1. p = First(b) /\ state[p] # "valid" BY <1>1, <2>3 DEF Cursor
        <3>2. state[q] = state[First(b)] BY <1>1, <3>1 DEF Shape
        <3> QED BY <1>4, <3>1, <3>2
    <2> QED BY <2>2, <2>3
<1>5. /\ forward_map' = [forward_map EXCEPT ![a] = p]
      /\ reverse_map' = [reverse_map EXCEPT ![p] = a]
      /\ current_block' = b
      /\ gc_used_blocks' = gc_used_blocks \cup {b}
      /\ current_page' = IF (p + 1) % pages_per_block = 0 THEN -1 ELSE p + 1
    BY DEF write_logging
<1> HIDE DEF b, p
<1>6. b = NextBlock /\ p = Cursor BY DEF b, p
<1> QED BY <1>1, <1>2, <1>3, <1>4, <1>5, <1>6

\* ... and what is true of the log stays true.
LEMMA LogWriteInv ==
    ASSUME TypeOK, Shape, InCurrent, UsedBlocks, NeverErased,
           NEW a \in Addresses, NEW v \in Values \cup {None}, write_logging(a, v)
    PROVE  /\ Shape' /\ InCurrent' /\ UsedBlocks' /\ NeverErased'
           /\ state' \in [Pages -> {"invalid", "erased", "valid"}]
           /\ data' \in [Pages -> Values \cup {None}]
           /\ forward_map' \in [Addresses -> Pages \cup {-1}]
           /\ reverse_map' \in [Pages -> Addresses \cup {-1}]
           /\ current_page' \in Pages \cup {-1} /\ current_block' \in Blocks
           /\ gc_used_blocks' \subseteq Blocks
<1>1. PICK b \in Blocks : \E p \in PagesOf(b) :
              /\ p \in Pages
              /\ (b = current_block /\ state[First(b)] = "valid") \/ state[First(b)] # "valid"
              /\ state[p] # "valid"
              /\ \A q \in PagesOf(b) : state'[q] = IF q <= p THEN "valid" ELSE "erased"
              /\ \A q \in Pages \ PagesOf(b) : state'[q] = state[q]
              /\ forward_map' = [forward_map EXCEPT ![a] = p]
              /\ reverse_map' = [reverse_map EXCEPT ![p] = a]
              /\ current_block' = b
              /\ gc_used_blocks' = gc_used_blocks \cup {b}
              /\ current_page' = IF (p + 1) % pages_per_block = 0 THEN -1 ELSE p + 1
    BY LogWrite
<1>2. PICK p \in PagesOf(b) :
              /\ p \in Pages
              /\ (b = current_block /\ state[First(b)] = "valid") \/ state[First(b)] # "valid"
              /\ state[p] # "valid"
              /\ \A q \in PagesOf(b) : state'[q] = IF q <= p THEN "valid" ELSE "erased"
              /\ \A q \in Pages \ PagesOf(b) : state'[q] = state[q]
              /\ forward_map' = [forward_map EXCEPT ![a] = p]
              /\ reverse_map' = [reverse_map EXCEPT ![p] = a]
              /\ current_block' = b
              /\ gc_used_blocks' = gc_used_blocks \cup {b}
              /\ current_page' = IF (p + 1) % pages_per_block = 0 THEN -1 ELSE p + 1
    BY <1>1
<1>3. /\ First(b) \in PagesOf(b) /\ First(b) \in Nat /\ PagesOf(b) \subseteq Pages
      /\ \A q \in PagesOf(b) : q \in Nat /\ First(b) <= q
    BY BlockPages, Sizes DEF PagesOf, P
<1>4. state'[First(b)] = "valid" BY <1>2, <1>3
<1>5. ASSUME NEW c \in Blocks, c # b
      PROVE  /\ First(c) \in PagesOf(c) /\ PagesOf(c) \subseteq Pages
             /\ \A q \in PagesOf(c) : state'[q] = state[q]
    BY <1>2, <1>5, BlockPages
<1>6. Shape' BY <1>4, <1>5 DEF Shape
<1>7. UsedBlocks' BY <1>2, <1>4, <1>5 DEF UsedBlocks
<1>8. NeverErased'
    <2> SUFFICES ASSUME NEW q \in Pages, state'[q] = "invalid" PROVE reverse_map'[q] = -1
        BY DEF NeverErased
    <2>1. q \notin PagesOf(b) BY <1>2
    <2> QED BY <1>2, <2>1 DEF NeverErased, TypeOK
<1>9. InCurrent'
    <2> SUFFICES ASSUME current_page' # -1
                 PROVE  /\ current_page' \in PagesOf(b) /\ current_page' # First(b)
                        /\ \A q \in PagesOf(b) :
                              state'[q] = IF q < current_page' THEN "valid" ELSE "erased"
        BY <1>2 DEF InCurrent
    <2>1. current_page' = p + 1 /\ p + 1 \in PagesOf(b) BY <1>2, NextPage
    <2>2. \A q \in PagesOf(b) : q <= p <=> q < p + 1 BY <1>3
    <2> QED BY <1>2, <1>3, <2>1, <2>2
<1>10. current_page' \in Pages \cup {-1} BY <1>2, <1>3, NextPage
<1>11. /\ state' \in [Pages -> {"invalid", "erased", "valid"}]
       /\ data' \in [Pages -> Values \cup {None}]
    BY DEF write_logging, TypeOK
<1> QED BY <1>2, <1>3, <1>6, <1>7, <1>8, <1>9, <1>10, <1>11 DEF TypeOK

-----------------------------------------------------------------------------
\* The invariant, step by step.
LEMMA InitInv == Init => IInv
<1> SUFFICES ASSUME Init PROVE IInv OBVIOUS
<1>1. 0 \in Blocks BY Sizes DEF Blocks, N
<1>2. TypeOK BY <1>1 DEF Init, TypeOK
<1>3. \A b \in Blocks : First(b) \in PagesOf(b) /\ PagesOf(b) \subseteq Pages BY BlockPages
<1>4. LogInv BY <1>3 DEF Init, LogInv, Shape, InCurrent, UsedBlocks, NeverErased, Collected
<1>5. NoLogInv BY DEF Init, NoLogInv
<1> QED BY <1>2, <1>4, <1>5 DEF IInv

\* A command that writes, to any type of SSD.
LEMMA WriteInv ==
    ASSUME IInv, NEW a \in Addresses, NEW v \in Values, WriteCommand(a, v), ssd_type' = ssd_type
    PROVE  IInv'
<1> USE DEF WriteCommand
<1>0. TypeOK BY DEF IInv
<1>1. CASE ssd_type = "log" /\ write_logging(a, v)
    <2>1. LogInv BY <1>1 DEF IInv
    <2>2. Collected' BY DEF Collected
    <2>3. TypeOK' BY <1>0, <1>1, <2>1, LogWriteInv DEF TypeOK, LogInv, gc
    <2>4. LogInv' BY <1>0, <1>1, <2>1, <2>2, LogWriteInv DEF LogInv
    <2> QED BY <1>1, <2>3, <2>4 DEF IInv
<1>2. CASE ssd_type = "log" /\ UNCHANGED <<flash, map, log>>
    <2>1. LogInv BY <1>2 DEF IInv
    <2>2. TypeOK' BY <1>0, <1>2 DEF TypeOK, flash, map, log, gc
    <2>3. LogInv'
        BY <1>2, <2>1 DEF LogInv, Shape, InCurrent, UsedBlocks, NeverErased, Collected, flash,
            map, log, gc
    <2> QED BY <1>2, <2>2, <2>3 DEF IInv
<1>3. CASE ssd_type # "log"
    <2>1. NoLogInv BY <1>3 DEF IInv
    <2>2. a \in Pages BY SSDAssumption, Sizes DEF Addresses, Pages, N, P
    <2>3. write_direct(a, v) \/ write_ideal(a, v) BY <1>3 DEF write
    <2>4. TypeOK'
        <3>1. CASE write_direct(a, v)
            BY <1>0, <2>2, <3>1 DEF write_direct, TypeOK, gc
        <3>2. CASE write_ideal(a, v)
            BY <1>0, <2>2, <3>2 DEF write_ideal, TypeOK, gc, log
        <3> QED BY <2>3, <3>1, <3>2
    <2>5. NoLogInv'
        BY <1>0, <2>1, <2>3 DEF write_direct, write_ideal, NoLogInv, log, TypeOK
    <2> QED BY <1>3, <2>4, <2>5 DEF IInv
<1> QED BY <1>1, <1>2, <1>3 DEF write

\* The commands that do not write, and the collector where it only looks.
LEMMA LookInv ==
    ASSUME Marked, IInv, ssd_type' = ssd_type,
           \/ \E a \in Addresses : TrimCommand(a)
           \/ ReadCommand \/ Upkeep \/ SkipBlock \/ TakeBlock \/ EndScan
    PROVE  IInv'
<1>0. TypeOK BY DEF IInv
<1>1. UNCHANGED <<flash, reverse_map, log, gc_current_block>>
    BY DEF TrimCommand, ReadCommand, Upkeep, SkipBlock, TakeBlock, EndScan, map, gc
<1>2. forward_map' \in [Addresses -> Pages \cup {-1}]
    BY <1>0 DEF TrimCommand, ReadCommand, Upkeep, SkipBlock, TakeBlock, EndScan, map, TypeOK
<1>3. scan' \in Seq(Blocks)
    <2>1. \A b \in Blocks : Round(b) \in Seq(Blocks)
        <3>1. ASSUME NEW b \in Blocks, NEW k \in 1 .. N PROVE (b + k - 1) % N \in Blocks
            BY Sizes DEF Blocks, N
        <3> QED BY <3>1, Sizes DEF Round, N
    <2>2. Round(gc_current_block) \in Seq(Blocks) BY <1>0, <2>1 DEF TypeOK
    <2>3. scan # << >> => Tail(scan) \in Seq(Blocks) BY <1>0 DEF TypeOK
    <2>4. \/ scan' = scan \/ scan' = Round(gc_current_block)
          \/ scan # << >> /\ scan' = Tail(scan)
        BY DEF TrimCommand, ReadCommand, Upkeep, SkipBlock, TakeBlock, EndScan, gc
    <2> QED BY <1>0, <2>2, <2>3, <2>4 DEF TypeOK
<1>4. copies' \subseteq Pages /\ phase' \in {"command", "upkeep", "scan", "copy"}
    <2>1. CASE TakeBlock
        <3>1. Head(scan) \in Blocks BY <1>0, <2>1 DEF TakeBlock, TypeOK
        <3> QED BY <2>1, <3>1, BlockPages DEF TakeBlock, LivePages
    <2> QED BY <1>0, <2>1 DEF TrimCommand, ReadCommand, Upkeep, SkipBlock, EndScan, TypeOK, gc
<1>5. TypeOK' BY <1>0, <1>1, <1>2, <1>3, <1>4 DEF TypeOK, flash, log
<1>6. CASE ssd_type = "log"
    <2>0. LogInv BY <1>6 DEF IInv
    <2>1. Shape' /\ InCurrent' /\ UsedBlocks' /\ NeverErased'
        BY <1>1, <2>0 DEF LogInv, Shape, InCurrent, UsedBlocks, NeverErased, flash, log
    <2>2. Collected'
        <3> SUFFICES ASSUME phase' = "copy" PROVE Collected' BY DEF Collected
        <3>1. TakeBlock /\ UNCHANGED <<scan, current_block, state, reverse_map>>
            BY <1>1, TypeOK DEF TrimCommand, ReadCommand, Upkeep, SkipBlock, TakeBlock, EndScan,
                flash, log
        <3>2. /\ scan # << >> /\ Head(scan) \in Blocks /\ Head(scan) # current_block
              /\ state[First(Head(scan))] # "erased"
            BY <1>0, <3>1 DEF TakeBlock, Skipped, TypeOK
        <3>3. /\ copies' \subseteq PagesOf(Head(scan))
              /\ \A p \in copies' : reverse_map[p] # -1
            BY <3>1 DEF TakeBlock, LivePages, IsLive
        <3>4. ASSUME copies' # {} PROVE state[First(Head(scan))] = "valid"
            <4>1. PICK p \in copies' : TRUE BY <3>4
            <4>2. p \in PagesOf(Head(scan)) /\ p \in Pages /\ state[p] # "invalid"
                BY <2>0, <3>2, <3>3, BlockPages DEF LogInv, NeverErased
            <4>3. First(Head(scan)) \in Pages BY <3>2, BlockPages
            <4> QED BY <1>0, <2>0, <3>2, <4>2, <4>3 DEF LogInv, Shape, TypeOK
        <3> QED BY <3>1, <3>2, <3>3, <3>4 DEF Collected
    <2> QED BY <1>5, <1>6, <2>1, <2>2 DEF IInv, LogInv
<1>7. CASE ssd_type # "log"
    <2>0. NoLogInv BY <1>7 DEF IInv
    <2>1. ~SkipBlock /\ ~TakeBlock /\ ~EndScan
        BY <2>0 DEF NoLogInv, SkipBlock, TakeBlock, EndScan
    <2>2. blocks_in_use = 0
        BY <2>0, FS_EmptySet DEF NoLogInv, blocks_in_use
    <2>3. phase' \in {"command", "upkeep"}
        BY <2>1, <2>2, SSDAssumption DEF Marked, TrimCommand, ReadCommand, Upkeep
    <2>4. \A a \in Addresses : forward_map'[a] \in {-1, a}
        BY <1>0, <2>0, <2>1 DEF NoLogInv, TrimCommand, ReadCommand, Upkeep, map, TypeOK
    <2> QED BY <1>1, <1>5, <1>7, <2>0, <2>3, <2>4 DEF IInv, NoLogInv, log
<1> QED BY <1>6, <1>7

\* A copy is written into another block than the one it comes from.
LEMMA CopyInv ==
    ASSUME IInv, CopyPage, ssd_type' = ssd_type
    PROVE  IInv'
<1>0. TypeOK /\ ssd_type = "log" /\ LogInv
    BY DEF IInv, NoLogInv, CopyPage
<1>1. PICK p \in copies : write(reverse_map[p], data[p]) /\ copies' = copies \ {p}
    BY DEF CopyPage
<1>2. PICK a \in Addresses, v \in Values \cup {None} : a = reverse_map[p] /\ v = data[p]
    BY <1>0, <1>1 DEF LogInv, Collected, CopyPage, TypeOK
<1>3. /\ phase = "copy" /\ phase' = phase /\ scan' = scan /\ gc_current_block' = gc_current_block
      /\ scan # << >> /\ Head(scan) \in Blocks /\ Head(scan) # current_block
      /\ copies' \subseteq copies /\ copies \subseteq PagesOf(Head(scan))
      /\ state[First(Head(scan))] = "valid"
    BY <1>0, <1>1 DEF LogInv, Collected, CopyPage
<1>4. CASE write_logging(a, v)
    <2>1. PICK b \in Blocks :
              /\ (b = current_block /\ state[First(b)] = "valid") \/ state[First(b)] # "valid"
              /\ current_block' = b
              /\ \A q \in Pages \ PagesOf(b) : state'[q] = state[q]
        BY <1>0, <1>2, <1>4, LogWrite DEF LogInv
    <2>2. b # Head(scan) BY <1>3, <2>1
    <2>3. First(Head(scan)) \in Pages \ PagesOf(b) BY <1>3, <2>2, BlockPages
    <2>4. \A q \in copies' : reverse_map'[q] # -1
        BY <1>0, <1>2, <1>3, <1>4, Sizes DEF write_logging, TypeOK, LogInv, Collected, Addresses
    <2>5. Collected' BY <1>3, <2>1, <2>2, <2>3, <2>4 DEF Collected
    <2>6. TypeOK' BY <1>0, <1>2, <1>3, <1>4, LogWriteInv DEF TypeOK, LogInv
    <2> QED BY <1>0, <1>2, <1>4, <2>5, <2>6, LogWriteInv DEF IInv, LogInv
<1>5. CASE UNCHANGED <<flash, map, log>>
    <2>1. TypeOK' BY <1>0, <1>3, <1>5 DEF TypeOK, flash, map, log
    <2>2. LogInv'
        BY <1>0, <1>3, <1>5 DEF LogInv, Shape, InCurrent, UsedBlocks, NeverErased, Collected,
            flash, map, log
    <2> QED BY <1>0, <2>1, <2>2 DEF IInv
<1> QED BY <1>0, <1>1, <1>2, <1>4, <1>5 DEF write

\* A block that is erased is not the one of the log.
LEMMA EraseInv ==
    ASSUME IInv, EraseBlock, ssd_type' = ssd_type
    PROVE  IInv'
<1>0. TypeOK /\ ssd_type = "log" /\ LogInv
    BY DEF IInv, NoLogInv, EraseBlock
<1> DEFINE h == Head(scan)
<1>1. h \in Blocks /\ h # current_block /\ scan # << >>
    BY <1>0 DEF EraseBlock, LogInv, Collected
<1>2. /\ First(h) \in PagesOf(h) /\ PagesOf(h) \subseteq Pages
      /\ \A c \in Blocks : c # h => PagesOf(c) \cap PagesOf(h) = {}
      /\ \A c \in Blocks : First(c) \in PagesOf(c) /\ PagesOf(c) \subseteq Pages
    BY <1>1, BlockPages
<1>3. /\ \A q \in PagesOf(h) : state'[q] = "erased"
      /\ \A q \in Pages \ PagesOf(h) : state'[q] = state[q]
      /\ gc_used_blocks' = gc_used_blocks \ {h}
      /\ UNCHANGED <<reverse_map, forward_map, current_page, current_block, copies>>
      /\ phase' # "copy"
    BY <1>2 DEF EraseBlock, map
<1>4. TypeOK'
    <2>1. scan' = << >> \/ scan' = Tail(scan) BY DEF EraseBlock
    <2>2. << >> \in Seq(Blocks) /\ Tail(scan) \in Seq(Blocks) BY <1>0, <1>1 DEF TypeOK
    <2>3. scan' \in Seq(Blocks) BY <2>1, <2>2
    <2> QED BY <1>0, <1>1, <1>3, <2>3 DEF EraseBlock, TypeOK
<1> HIDE DEF h
<1>5. Shape' BY <1>0, <1>2, <1>3 DEF LogInv, Shape
<1>6. InCurrent' BY <1>0, <1>1, <1>2, <1>3 DEF LogInv, InCurrent, TypeOK
<1>7. UsedBlocks' BY <1>0, <1>2, <1>3 DEF LogInv, UsedBlocks
<1>8. NeverErased' BY <1>0, <1>3 DEF LogInv, NeverErased
<1>9. Collected' BY <1>3 DEF Collected
<1> QED BY <1>0, <1>4, <1>5, <1>6, <1>7, <1>8, <1>9 DEF IInv, LogInv

\* Every step keeps the invariant.
LEMMA NextInv == Marked /\ IInv /\ [Next]_vars => IInv'
<1> SUFFICES ASSUME Marked, IInv, [Next]_vars PROVE IInv' OBVIOUS
<1>1. CASE UNCHANGED vars
    BY <1>1 DEF vars, flash, map, log, gc, IInv, TypeOK, LogInv, Shape, InCurrent, UsedBlocks,
        NeverErased, Collected, NoLogInv
<1>2. CASE Next
    <2>1. ssd_type' = ssd_type BY <1>2 DEF Next
    <2>2. CASE Command BY <2>1, <2>2, WriteInv, LookInv DEF Command
    <2>3. CASE Upkeep BY <2>1, <2>3, LookInv
    <2>4. CASE garbage_collect
        BY <2>1, <2>4, LookInv, CopyInv, EraseInv DEF garbage_collect
    <2> QED BY <1>2, <2>2, <2>3, <2>4 DEF Next
<1> QED BY <1>1, <1>2

\* The log is written in order, and the blocks it uses are counted right.
THEOREM SSDLogInOrder == ASSUME Marked PROVE Spec => []LogInOrder
<1>1. IInv => LogInOrder
    <2> SUFFICES ASSUME IInv PROVE LogInOrder OBVIOUS
    <2>1. CASE ssd_type = "log"
        <3>1. LogInv /\ current_block \in Blocks BY <2>1 DEF IInv, TypeOK
        <3>2. current_page # -1 => BlockOf(current_page) = current_block
            BY <3>1, InBlock DEF LogInv, InCurrent
        <3> QED BY <3>1, <3>2 DEF LogInv, LogInOrder, InCurrent, UsedBlocks
    <2>2. CASE ssd_type # "log" BY <2>2 DEF IInv, NoLogInv, LogInOrder
    <2> QED BY <2>1, <2>2
<1>2. IInv /\ [Next]_vars => IInv' BY NextInv
<1> QED BY <1>1, <1>2, InitInv, PTL DEF Spec

-----------------------------------------------------------------------------
\* The maps, and what a user reads, as long as no write is refused.

\* While the collector is at a block, what it has still to copy is what is live there.
CopiesLive == ssd_type = "log" /\ phase = "copy" => copies = LivePages(Head(scan))

\* What a write does to the user's pages.
Writes(a, v) ==
    /\ read(a)' = v
    /\ \A x \in Addresses \ {a} : read(x)' = read(x)

SameReads == \A x \in Addresses : read(x)' = read(x)

\* A write to the log keeps the maps in agreement and replaces one page of the user's.
LEMMA LogWriteMaps ==
    ASSUME TypeOK, Shape, InCurrent, MapsAgree,
           NEW a \in Addresses, NEW v, write_logging(a, v)
    PROVE  MapsAgree' /\ Writes(a, v)
<1>1. PICK b \in Blocks : \E p \in PagesOf(b) :
              /\ p \in Pages /\ state[p] # "valid" /\ data'[p] = v
              /\ \A q \in PagesOf(b) :
                    /\ state'[q] = IF q <= p THEN "valid" ELSE "erased"
                    /\ state[q] = "valid" => q < p /\ data'[q] = data[q]
              /\ \A q \in Pages \ PagesOf(b) : state'[q] = state[q] /\ data'[q] = data[q]
              /\ forward_map' = [forward_map EXCEPT ![a] = p]
              /\ reverse_map' = [reverse_map EXCEPT ![p] = a]
    BY LogWrite
<1>2. PICK p \in PagesOf(b) :
              /\ p \in Pages /\ state[p] # "valid" /\ data'[p] = v
              /\ \A q \in PagesOf(b) :
                    /\ state'[q] = IF q <= p THEN "valid" ELSE "erased"
                    /\ state[q] = "valid" => q < p /\ data'[q] = data[q]
              /\ \A q \in Pages \ PagesOf(b) : state'[q] = state[q] /\ data'[q] = data[q]
              /\ forward_map' = [forward_map EXCEPT ![a] = p]
              /\ reverse_map' = [reverse_map EXCEPT ![p] = a]
    BY <1>1
<1>3. p \in Nat /\ \A q \in PagesOf(b) : q \in Nat
    BY BlockPages, Sizes DEF Pages, N, P
<1>4. /\ forward_map'[a] = p /\ reverse_map'[p] = a /\ state'[p] = "valid" /\ p # -1
    BY <1>2, <1>3 DEF TypeOK
<1>5. ASSUME NEW x \in Addresses \ {a}
      PROVE  /\ forward_map'[x] = forward_map[x]
             /\ forward_map[x] # -1 =>
                  /\ state'[forward_map[x]] = "valid"
                  /\ reverse_map'[forward_map[x]] = x
                  /\ data'[forward_map[x]] = data[forward_map[x]]
    <2>1. forward_map'[x] = forward_map[x] BY <1>2 DEF TypeOK
    <2> DEFINE q == forward_map[x]
    <2> SUFFICES ASSUME q # -1
                 PROVE  state'[q] = "valid" /\ reverse_map'[q] = x /\ data'[q] = data[q]
        BY <2>1
    <2>2. q \in Pages /\ state[q] = "valid" /\ reverse_map[q] = x BY DEF MapsAgree, TypeOK
    <2> HIDE DEF q
    <2>3. q # p BY <1>2, <2>2
    <2>4. reverse_map'[q] = x BY <1>2, <2>2, <2>3 DEF TypeOK
    <2>5. state'[q] = "valid" /\ data'[q] = data[q]
        BY <1>2, <1>3, <2>2
    <2> QED BY <2>4, <2>5
<1>6. MapsAgree' BY <1>4, <1>5 DEF MapsAgree
<1>7. read(a)' = v BY <1>2, <1>4 DEF read
<1>8. \A x \in Addresses \ {a} : read(x)' = read(x) BY <1>5 DEF read
<1> QED BY <1>6, <1>7, <1>8 DEF Writes

\* So does a write in place, with or without the erase.
LEMMA PlainWriteMaps ==
    ASSUME TypeOK, NoLogInv, MapsAgree,
           NEW a \in Addresses, NEW v, write_direct(a, v) \/ write_ideal(a, v)
    PROVE  MapsAgree' /\ Writes(a, v)
<1>1. a \in Pages /\ a # -1 BY SSDAssumption, Sizes DEF Addresses, Pages, N, P
<1>2. BlockOf(a) \in Blocks /\ a \in PagesOf(BlockOf(a)) BY <1>1, PageBlock
<1>3. /\ forward_map' = [forward_map EXCEPT ![a] = a]
      /\ reverse_map' = [reverse_map EXCEPT ![a] = a]
    BY DEF write_direct, write_ideal
<1>4. forward_map'[a] = a /\ reverse_map'[a] = a BY <1>1, <1>3 DEF TypeOK
<1>5. state'[a] = "valid" /\ data'[a] = v
    BY <1>1, <1>2 DEF write_direct, write_ideal, TypeOK
<1>6. ASSUME NEW x \in Addresses \ {a}
      PROVE  /\ forward_map'[x] = forward_map[x]
             /\ forward_map[x] # -1 =>
                  /\ state'[forward_map[x]] = "valid"
                  /\ reverse_map'[forward_map[x]] = x
                  /\ data'[forward_map[x]] = data[forward_map[x]]
    <2>1. forward_map'[x] = forward_map[x] BY <1>3 DEF TypeOK
    <2> SUFFICES ASSUME forward_map[x] # -1
                 PROVE  state'[x] = "valid" /\ reverse_map'[x] = x /\ data'[x] = data[x]
        BY <2>1 DEF NoLogInv
    <2>2. forward_map[x] = x /\ x \in Pages /\ state[x] = "valid" /\ reverse_map[x] = x
        BY DEF MapsAgree, NoLogInv, TypeOK
    <2>3. reverse_map'[x] = x BY <1>3, <2>2 DEF TypeOK
    <2>4. CASE write_direct(a, v) BY <2>2, <2>3, <2>4 DEF write_direct
    <2>5. CASE write_ideal(a, v) BY <2>2, <2>3, <2>5 DEF write_ideal, TypeOK
    <2> QED BY <2>4, <2>5
<1>7. MapsAgree' BY <1>4, <1>5, <1>6 DEF MapsAgree
<1>8. read(a)' = v BY <1>1, <1>4, <1>5 DEF read
<1>9. \A x \in Addresses \ {a} : read(x)' = read(x) BY <1>6 DEF read
<1> QED BY <1>7, <1>8, <1>9 DEF Writes

\* A write command writes, when it is not refused.
LEMMA WriteCommandMaps ==
    ASSUME IInv, MapsAgree, NeverFull, NEW a \in Addresses, NEW v \in Values, WriteCommand(a, v)
    PROVE  MapsAgree' /\ CopiesLive' /\ Writes(a, v)
<1>1. CASE ssd_type = "log"
    <2>1. write_logging(a, v) BY <1>1 DEF WriteCommand, write, NeverFull
    <2>2. TypeOK /\ LogInv BY <1>1 DEF IInv
    <2> QED BY <2>1, <2>2, LogWriteMaps DEF LogInv, WriteCommand, CopiesLive
<1>2. CASE ssd_type # "log"
    <2>1. write_direct(a, v) \/ write_ideal(a, v) BY <1>2 DEF WriteCommand, write
    <2>2. TypeOK /\ NoLogInv BY <1>2 DEF IInv
    <2> QED BY <2>1, <2>2, PlainWriteMaps DEF WriteCommand, CopiesLive
<1> QED BY <1>1, <1>2

\* A copy makes the page it is copied from dead, and is the same to the user.
LEMMA CopyMaps ==
    ASSUME IInv, MapsAgree, CopiesLive, NeverFull, CopyPage, ssd_type' = ssd_type
    PROVE  MapsAgree' /\ CopiesLive' /\ SameReads
<1>0. TypeOK /\ ssd_type = "log" /\ LogInv
    BY DEF IInv, NoLogInv, CopyPage
<1>1. PICK p \in copies : write(reverse_map[p], data[p]) /\ copies' = copies \ {p}
    BY DEF CopyPage
<1>2. PICK a \in Addresses, v \in Values \cup {None}, h \in Blocks :
            a = reverse_map[p] /\ v = data[p] /\ h = Head(scan)
    BY <1>0, <1>1 DEF LogInv, Collected, CopyPage, TypeOK
<1>3. /\ p \in Pages /\ forward_map[a] = p /\ p # -1
      /\ copies = LivePages(h) /\ h # current_block
      /\ state[First(h)] = "valid" /\ scan' = scan /\ phase' = "copy"
    BY <1>0, <1>1, <1>2, Sizes DEF LogInv, Collected, CopyPage, TypeOK, CopiesLive, LivePages,
        IsLive, Pages
<1>4. write_logging(a, v)
    BY <1>0, <1>1, <1>2 DEF write, NeverFull, CopyPage
<1>5. MapsAgree' /\ Writes(a, v) BY <1>0, <1>4, LogWriteMaps DEF LogInv
<1>6. SameReads
    <2>1. read(a) = v BY <1>2, <1>3 DEF read
    <2> QED BY <1>5, <2>1 DEF Writes, SameReads
<1>7. copies' = LivePages(h)'
    <2>1. PICK b \in Blocks : \E c \in PagesOf(b) :
              /\ c \in Pages
              /\ (b = current_block /\ state[First(b)] = "valid") \/ state[First(b)] # "valid"
              /\ forward_map' = [forward_map EXCEPT ![a] = c]
              /\ reverse_map' = [reverse_map EXCEPT ![c] = a]
        BY <1>0, <1>4, LogWrite DEF LogInv
    <2>2. PICK c \in PagesOf(b) :
              /\ c \in Pages
              /\ forward_map' = [forward_map EXCEPT ![a] = c]
              /\ reverse_map' = [reverse_map EXCEPT ![c] = a]
        BY <2>1
    <2>3. b # h BY <1>3, <2>1
    <2>4. PagesOf(h) \subseteq Pages /\ c \notin PagesOf(h) BY <2>3, BlockPages
    <2>5. ASSUME NEW q \in PagesOf(h) PROVE IsLive(q)' <=> q # p /\ IsLive(q)
        <3>1. q \in Pages /\ q # c BY <2>4
        <3>2. reverse_map'[q] = reverse_map[q] BY <1>0, <2>2, <3>1 DEF TypeOK
        <3>3. CASE reverse_map[q] = a
            <4>1. forward_map'[a] = c BY <1>0, <2>2 DEF TypeOK
            <4>2. ~IsLive(q)' BY <3>1, <3>2, <3>3, <4>1 DEF IsLive
            <4>3. IsLive(q) => q = p BY <1>3, <3>3 DEF IsLive
            <4> QED BY <4>2, <4>3
        <3>4. CASE reverse_map[q] # a
            <4>1. reverse_map[q] # -1 => forward_map'[reverse_map[q]] = forward_map[reverse_map[q]]
                BY <1>0, <2>2, <3>1, <3>4 DEF TypeOK
            <4>2. IsLive(q)' <=> IsLive(q) BY <3>2, <4>1 DEF IsLive
            <4> QED BY <1>2, <3>4, <4>2
        <3> QED BY <3>3, <3>4
    <2>6. LivePages(h)' = {q \in PagesOf(h) : IsLive(q)'} BY DEF LivePages
    <2>7. LivePages(h) = {q \in PagesOf(h) : IsLive(q)} BY DEF LivePages
    <2> QED BY <1>1, <1>3, <2>5, <2>6, <2>7
<1> QED BY <1>2, <1>3, <1>5, <1>6, <1>7 DEF CopiesLive

\* In a block that is erased nothing is live.
LEMMA EraseMaps ==
    ASSUME IInv, MapsAgree, CopiesLive, EraseBlock
    PROVE  MapsAgree' /\ CopiesLive' /\ SameReads
<1>0. TypeOK /\ ssd_type = "log" /\ LogInv
    BY DEF IInv, NoLogInv, EraseBlock
<1>1. /\ LivePages(Head(scan)) = {} /\ phase' # "copy"
      /\ forward_map' = forward_map /\ reverse_map' = reverse_map
      /\ \A q \in Pages \ PagesOf(Head(scan)) : state'[q] = state[q] /\ data'[q] = data[q]
    BY <1>0 DEF EraseBlock, CopiesLive, map
<1>2. ASSUME NEW x \in Addresses, forward_map[x] # -1
      PROVE  /\ state'[forward_map[x]] = state[forward_map[x]]
             /\ data'[forward_map[x]] = data[forward_map[x]]
    <2>1. /\ forward_map[x] \in Pages /\ reverse_map[forward_map[x]] = x /\ x # -1
        BY <1>0, <1>2, Sizes DEF MapsAgree, TypeOK, Addresses
    <2>2. IsLive(forward_map[x]) BY <2>1 DEF IsLive
    <2>3. forward_map[x] \notin PagesOf(Head(scan)) BY <1>1, <2>2 DEF LivePages
    <2> QED BY <1>1, <2>1, <2>3
<1>3. MapsAgree' BY <1>1, <1>2 DEF MapsAgree
<1>4. SameReads BY <1>1, <1>2 DEF SameReads, read
<1> QED BY <1>1, <1>3, <1>4 DEF CopiesLive

\* The rest leaves flash and reverse_map alone, and only a trim changes forward_map.
LEMMA LookMaps ==
    ASSUME MapsAgree, CopiesLive, ssd_type' = ssd_type,
           ReadCommand \/ Upkeep \/ SkipBlock \/ TakeBlock \/ EndScan
    PROVE  MapsAgree' /\ CopiesLive' /\ SameReads
<1>1. UNCHANGED <<flash, map>>
    BY DEF ReadCommand, Upkeep, SkipBlock, TakeBlock, EndScan
<1>2. MapsAgree' /\ SameReads BY <1>1 DEF MapsAgree, SameReads, read, flash, map
<1>3. CASE TakeBlock
    <2>1. /\ copies' = LivePages(Head(scan)) /\ scan' = scan
          /\ reverse_map' = reverse_map /\ forward_map' = forward_map
        BY <1>1, <1>3 DEF TakeBlock, map
    <2>2. LivePages(Head(scan))' = LivePages(Head(scan)) BY <2>1 DEF LivePages, IsLive
    <2> QED BY <1>2, <2>1, <2>2 DEF CopiesLive
<1>4. CASE ~TakeBlock
    <2>1. phase' # "copy" BY <1>4 DEF ReadCommand, Upkeep, SkipBlock, EndScan
    <2> QED BY <1>2, <2>1 DEF CopiesLive
<1> QED BY <1>2, <1>3, <1>4

\* A trim empties one page of the user's.
LEMMA TrimMaps ==
    ASSUME TypeOK, MapsAgree, NEW a \in Addresses, TrimCommand(a)
    PROVE  MapsAgree' /\ CopiesLive' /\ Writes(a, None)
<1>1. /\ forward_map'[a] = -1 /\ \A x \in Addresses \ {a} : forward_map'[x] = forward_map[x]
      /\ UNCHANGED <<state, data, reverse_map>> /\ phase' # "copy"
    BY DEF TrimCommand, TypeOK, flash
<1>2. MapsAgree' BY <1>1 DEF MapsAgree
<1>3. Writes(a, None) BY <1>1 DEF Writes, read
<1> QED BY <1>1, <1>2, <1>3 DEF CopiesLive

MapsInv == IInv /\ MapsAgree /\ CopiesLive

\* At the start nothing is mapped.
LEMMA MapsInit == Init => MapsInv
  BY InitInv DEF MapsInv, Init, MapsAgree, CopiesLive

\* What each step does: a command that writes or trims replaces one page, all else
\* leaves the user's pages as they are.
LEMMA MapsStep ==
    ASSUME Marked, MapsInv, NeverFull, [Next]_vars
    PROVE  /\ MapsInv'
           /\ \/ /\ phase = "command" /\ phase' # "command"
                 /\ \E a \in Addresses, v \in Values \cup {None} : Writes(a, v)
              \/ SameReads
<1>1. IInv' BY NextInv DEF MapsInv
<1>2. CASE UNCHANGED vars
    BY <1>1, <1>2 DEF MapsInv, vars, flash, map, log, gc, MapsAgree, CopiesLive, SameReads, read,
        LivePages, IsLive
<1>3. CASE Next
    <2>0. ssd_type' = ssd_type BY <1>3 DEF Next
    <2>1. ASSUME NEW a \in Addresses, NEW v \in Values, WriteCommand(a, v)
          PROVE  /\ MapsAgree' /\ CopiesLive' /\ Writes(a, v)
                 /\ phase = "command" /\ phase' # "command"
        BY <2>1, WriteCommandMaps DEF MapsInv, WriteCommand
    <2>2. ASSUME NEW a \in Addresses, TrimCommand(a)
          PROVE  /\ MapsAgree' /\ CopiesLive' /\ Writes(a, None)
                 /\ phase = "command" /\ phase' # "command"
        BY <2>2, TrimMaps DEF MapsInv, IInv, TrimCommand
    <2>3. CASE ReadCommand \/ Upkeep \/ SkipBlock \/ TakeBlock \/ EndScan
        BY <1>1, <2>0, <2>3, LookMaps DEF MapsInv
    <2>4. CASE CopyPage BY <1>1, <2>0, <2>4, CopyMaps DEF MapsInv
    <2>5. CASE EraseBlock BY <1>1, <2>5, EraseMaps DEF MapsInv
    <2> QED BY <1>1, <1>3, <2>1, <2>2, <2>3, <2>4, <2>5 DEF Next, Command, garbage_collect, MapsInv
<1> QED BY <1>2, <1>3

\* As long as no write is refused, forward_map and reverse_map agree on valid pages: the
\* collector erases no page that an address is mapped to.
THEOREM SSDMapsAgree == ASSUME Marked PROVE Spec /\ []NeverFull => []MapsAgree
<1>1. MapsInv /\ NeverFull /\ [Next]_vars => MapsInv' BY MapsStep
<1>2. MapsInv => MapsAgree BY DEF MapsInv
<1> QED BY <1>1, <1>2, MapsInit, PTL DEF Spec

\* As long as no write is refused, every SSD implements an array of pages: a command
\* replaces at most one page, and upkeep and the collector change none.
THEOREM SSDImplementsDisk == ASSUME Marked PROVE Spec /\ []NeverFull => ImplementsDisk
<1> DEFINE Store == [a \in Addresses |-> read(a)]
<1>1. Init => Disk!DiskInit
    <2> SUFFICES ASSUME Init PROVE Store = [a \in Addresses |-> None] /\ (phase # "command") = FALSE
        BY DEF Disk!DiskInit
    <2>1. \A a \in Addresses : read(a) = None BY DEF Init, read
    <2> QED BY <2>1 DEF Init
<1>2. ASSUME Marked, MapsInv, NeverFull, [Next]_vars
      PROVE  [Disk!DiskCommand \/ Disk!Ready]_(Disk!diskVars)
    <2>0. Store' = [a \in Addresses |-> read(a)'] OBVIOUS
    <2>1. CASE /\ phase = "command" /\ phase' # "command"
               /\ \E a \in Addresses, v \in Values \cup {None} : Writes(a, v)
        <3>1. PICK a \in Addresses, v \in Values \cup {None} : Writes(a, v) BY <2>1
        <3>2. Store' = [Store EXCEPT ![a] = v] BY <2>0, <3>1 DEF Writes
        <3>3. /\ ~(phase # "command") /\ (phase # "command")' = TRUE BY <2>1
        <3> HIDE DEF Store
        <3>4. Disk!DiskCommand
            BY <3>2, <3>3 DEF Disk!DiskCommand, Store
        <3> QED BY <3>4
    <2>2. CASE SameReads
        <3>1. Store' = Store BY <2>0, <2>2 DEF SameReads
        <3>2. CASE phase = "command" /\ phase' # phase
            <4>1. Disk!DiskCommand BY <3>1, <3>2 DEF Disk!DiskCommand
            <4> QED BY <4>1
        <3>3. CASE phase # "command" /\ phase' = "command"
            <4>1. Disk!Ready BY <3>1, <3>3 DEF Disk!Ready
            <4> QED BY <4>1
        <3>4. CASE (phase # "command") = (phase' # "command")
            BY <3>1, <3>4 DEF Disk!diskVars
        <3> QED BY <3>2, <3>3, <3>4
    <2> QED BY <1>2, <2>1, <2>2, MapsStep
<1>3. Marked /\ MapsInv /\ NeverFull /\ [Next]_vars => MapsInv' BY MapsStep
<1>4. Marked /\ MapsInv /\ NeverFull /\ [Next]_vars
        => [Disk!DiskCommand \/ Disk!Ready]_(Disk!diskVars)
    BY <1>2
<1> HIDE DEF Store
<1> QED BY <1>1, <1>3, <1>4, MapsInit, PTL DEF Spec, ImplementsDisk, Disk!DiskSpec
-----------------------------------------------------------------------------
\* Room for the log.

\* The collector starts before the device is full, and it is not full of live pages
\* but for one block.
Roomy ==
    /\ gc_high_water_mark <= num_blocks
    /\ num_logical_pages <= (num_blocks - 1) * pages_per_block

FreeBlock == \E b \in Blocks : b \notin gc_used_blocks

\* How many pages are left in the block of the log.
Room == IF current_page = -1 THEN 0 ELSE First(current_block) + P - current_page

\* One page of the block of the log at most is written, and that is live.
JustOpened == Room >= P - 1 /\ LivePages(current_block) # {}

\* All blocks that the collector has looked at are live.
SeenLive ==
    \A b \in Blocks : \/ b = current_block
                      \/ LivePages(b) = PagesOf(b)
                      \/ \E k \in DOMAIN scan : scan[k] = b

RoomInv ==
    ssd_type = "log" =>
        /\ phase = "command" => FreeBlock
        /\ phase = "upkeep" => FreeBlock \/ JustOpened
        /\ phase = "scan" => FreeBlock \/ (JustOpened /\ SeenLive)
        /\ phase = "copy" => /\ IsFiniteSet(copies) /\ Cardinality(copies) <= P - 1
                             /\ FreeBlock \/ Room >= Cardinality(copies)

\* A block has P pages, and fewer that are live unless all are.
LEMMA LiveFew ==
    ASSUME NEW b \in Blocks
    PROVE  /\ IsFiniteSet(PagesOf(b)) /\ Cardinality(PagesOf(b)) = P
           /\ IsFiniteSet(LivePages(b)) /\ Cardinality(LivePages(b)) \in Nat
           /\ LivePages(b) # PagesOf(b) => Cardinality(LivePages(b)) <= P - 1
<1>1. First(b) \in Int /\ PagesOf(b) = First(b) .. First(b) + P - 1 /\ P \in Nat /\ P >= 1
    BY BlockPages, Sizes DEF PagesOf, P
<1>2. IsFiniteSet(PagesOf(b)) /\ Cardinality(PagesOf(b)) = P
    <2>1. PICK m, n : m = First(b) /\ n = First(b) + P - 1 OBVIOUS
    <2>2. m \in Int /\ n \in Int /\ PagesOf(b) = m .. n /\ ~(m > n) /\ n - m + 1 = P
        BY <1>1, <2>1
    <2>3. IsFiniteSet(m .. n) /\ Cardinality(m .. n) = IF m > n THEN 0 ELSE n - m + 1
        BY <2>2, FS_Interval
    <2> QED BY <2>2, <2>3
<1>3. LivePages(b) \in SUBSET PagesOf(b) BY DEF LivePages
<1>4. /\ IsFiniteSet(LivePages(b)) /\ Cardinality(LivePages(b)) <= Cardinality(PagesOf(b))
      /\ Cardinality(PagesOf(b)) = Cardinality(LivePages(b)) => PagesOf(b) = LivePages(b)
    BY <1>2, <1>3, FS_Subset
<1>5. Cardinality(LivePages(b)) \in Nat BY <1>4, FS_CardinalityType
<1> QED BY <1>1, <1>2, <1>4, <1>5

\* There are fewer addresses than pages in the other blocks and one: when something is
\* live in a block, not everything is in all others.
LEMMA SomeDead ==
    ASSUME TypeOK, Roomy, NEW c \in Blocks, LivePages(c) # {}
    PROVE  \E b \in Blocks : b # c /\ LivePages(b) # PagesOf(b)
<1>1. SUFFICES ASSUME \A b \in Blocks : b # c => LivePages(b) = PagesOf(b)
               PROVE  FALSE
    OBVIOUS
<1>2. PICK p \in PagesOf(c) : IsLive(p) BY DEF LivePages
<1>3. PICK S, T : S = (Pages \ PagesOf(c)) \cup {p} /\ T = Addresses OBVIOUS
<1>4. \A q \in S : q \in Pages /\ IsLive(q)
    <2> SUFFICES ASSUME NEW q \in S PROVE q \in Pages /\ IsLive(q) OBVIOUS
    <2>1. CASE q = p BY <1>2, <2>1, BlockPages
    <2>2. CASE q # p
        <3>1. q \in Pages /\ q \notin PagesOf(c) BY <1>3, <2>2
        <3>2. PICK b : b = BlockOf(q) OBVIOUS
        <3>3. b \in Blocks /\ q \in PagesOf(b) BY <3>1, <3>2, PageBlock
        <3>4. q \in LivePages(b) BY <1>1, <3>1, <3>3
        <3> QED BY <3>1, <3>4 DEF LivePages
    <2> QED BY <2>1, <2>2
<1>5. PICK f : f = [q \in S |-> reverse_map[q]] OBVIOUS
<1>6. f \in [S -> T]
    BY <1>3, <1>4, <1>5 DEF TypeOK, IsLive
<1>7. IsFiniteSet(T) /\ Cardinality(T) = num_logical_pages
    <2>1. num_logical_pages \in Nat /\ num_logical_pages >= 1
        BY SSDAssumption, Sizes DEF N, P
    <2>2. PICK n : n = num_logical_pages - 1 OBVIOUS
    <2>3. 0 \in Int /\ n \in Int /\ ~(0 > n) /\ n - 0 + 1 = num_logical_pages BY <2>1, <2>2
    <2>4. IsFiniteSet(0 .. n) /\ Cardinality(0 .. n) = IF 0 > n THEN 0 ELSE n - 0 + 1
        BY <2>3, FS_Interval
    <2> QED BY <1>3, <2>2, <2>3, <2>4 DEF Addresses
<1>8. IsFiniteSet(S) /\ Cardinality(S) = N * P - P + 1
    <2>1. IsFiniteSet(Pages) /\ Cardinality(Pages) = N * P
        <3>1. N * P \in Nat /\ N * P >= 1
            <4>1. N * P >= 1 * P BY Sizes, Times
            <4> QED BY <4>1, Sizes
        <3>2. PICK n : n = N * P - 1 OBVIOUS
        <3>3. 0 \in Int /\ n \in Int /\ ~(0 > n) /\ n - 0 + 1 = N * P BY <3>1, <3>2
        <3>4. IsFiniteSet(0 .. n) /\ Cardinality(0 .. n) = IF 0 > n THEN 0 ELSE n - 0 + 1
            BY <3>3, FS_Interval
        <3> QED BY <3>2, <3>3, <3>4 DEF Pages, N, P
    <2>2. Pages \cap PagesOf(c) = PagesOf(c) BY BlockPages
    <2>3. /\ IsFiniteSet(Pages \ PagesOf(c))
          /\ Cardinality(Pages \ PagesOf(c)) = Cardinality(Pages) - Cardinality(Pages \cap PagesOf(c))
        BY <2>1, FS_Difference
    <2>4. PICK R : R = Pages \ PagesOf(c) OBVIOUS
    <2>5. IsFiniteSet(R) /\ Cardinality(R) = N * P - P /\ p \notin R
        BY <1>2, <2>1, <2>2, <2>3, <2>4, LiveFew
    <2>6. IsFiniteSet(R \cup {p}) /\ Cardinality(R \cup {p}) = Cardinality(R) + 1
        BY <2>5, FS_AddElement
    <2> QED BY <1>3, <2>4, <2>5, <2>6
<1>9. Cardinality(T) < Cardinality(S)
    <2>1. (N - 1) * P = N * P - P /\ num_logical_pages <= (N - 1) * P /\ num_logical_pages \in Nat
        <3>1. PICK m : m = N - 1 OBVIOUS
        <3>2. m \in Nat /\ N = m + 1 BY <3>1, Sizes
        <3>3. (m + 1) * P = m * P + P /\ m * P \in Nat BY <3>2, Sizes, Times
        <3>4. num_logical_pages <= m * P BY <3>1 DEF Roomy, N, P
        <3> QED BY <3>1, <3>2, <3>3, <3>4, SSDAssumption, Sizes
    <2> QED BY <1>7, <1>8, <2>1, Sizes
<1>10. PICK x \in S, y \in S : x # y /\ f[x] = f[y]
    BY <1>6, <1>7, <1>8, <1>9, FS_PigeonHole
<1>11. forward_map[reverse_map[x]] = x /\ forward_map[reverse_map[y]] = y
    BY <1>4 DEF IsLive
<1> QED BY <1>5, <1>10, <1>11

\* A write takes a page of the block of the log, or opens a free block for it; then
\* what is written there is live.
LEMMA WriteRoom ==
    ASSUME TypeOK, Shape, InCurrent, UsedBlocks, NEW a \in Addresses, NEW v, write_logging(a, v)
    PROVE  /\ current_page # -1 => /\ Room \in Nat /\ Room >= 1 /\ Room' = Room - 1
                                   /\ gc_used_blocks' = gc_used_blocks
           /\ current_page = -1 => Room' = P - 1 /\ LivePages(current_block)' # {}
<1>1. PICK b \in Blocks : \E p \in PagesOf(b) :
              /\ b = NextBlock /\ p = Cursor /\ p \in Pages
              /\ forward_map' = [forward_map EXCEPT ![a] = p]
              /\ reverse_map' = [reverse_map EXCEPT ![p] = a]
              /\ current_block' = b
              /\ gc_used_blocks' = gc_used_blocks \cup {b}
              /\ current_page' = IF (p + 1) % pages_per_block = 0 THEN -1 ELSE p + 1
    BY LogWrite
<1>2. PICK p \in PagesOf(b) :
              /\ b = NextBlock /\ p = Cursor /\ p \in Pages
              /\ forward_map' = [forward_map EXCEPT ![a] = p]
              /\ reverse_map' = [reverse_map EXCEPT ![p] = a]
              /\ current_block' = b
              /\ gc_used_blocks' = gc_used_blocks \cup {b}
              /\ current_page' = IF (p + 1) % pages_per_block = 0 THEN -1 ELSE p + 1
    BY <1>1
<1>3. /\ First(b) \in Nat /\ PagesOf(b) = First(b) .. First(b) + P - 1 /\ P \in Nat /\ P >= 1
      /\ p \in Nat /\ First(b) <= p /\ p <= First(b) + P - 1
    <2>1. First(b) \in Nat /\ PagesOf(b) = First(b) .. First(b) + P - 1 /\ P \in Nat /\ P >= 1
        BY BlockPages, Sizes DEF PagesOf, P
    <2> QED BY <2>1
<1>4. Room' = First(b) + P - p - 1
    <2>1. CASE (p + 1) % pages_per_block = 0
        <3>1. \A q \in PagesOf(b) : q <= p BY <2>1, NextPage
        <3>2. First(b) + P - 1 \in PagesOf(b) BY <1>3
        <3>3. First(b) + P - 1 = p BY <1>3, <3>1, <3>2
        <3>4. Room' = 0 BY <1>2, <2>1 DEF Room
        <3> QED BY <1>3, <3>3, <3>4
    <2>2. CASE (p + 1) % pages_per_block # 0
        <3>1. current_page' = p + 1 /\ p + 1 # -1 BY <1>2, <1>3, <2>2
        <3>2. Room' = First(b) + P - (p + 1) BY <1>2, <3>1 DEF Room, First
        <3> QED BY <1>3, <3>2
    <2> QED BY <2>1, <2>2
<1>5. CASE current_page # -1
    <2>1. b = current_block /\ p = current_page BY <1>2, <1>5 DEF NextBlock, Cursor
    <2>2. Room = First(b) + P - p BY <1>5, <2>1 DEF Room
    <2>3. state[First(b)] = "valid"
        <3>1. p # First(b) /\ First(b) \in PagesOf(b)
            BY <1>5, <2>1, BlockPages DEF InCurrent
        <3>2. First(b) < p BY <1>3, <3>1
        <3> QED BY <1>5, <2>1, <3>1, <3>2 DEF InCurrent
    <2>4. b \in gc_used_blocks BY <2>3 DEF UsedBlocks
    <2>5. gc_used_blocks' = gc_used_blocks BY <1>2, <2>4
    <2> QED BY <1>3, <1>4, <1>5, <2>2, <2>5
<1>6. CASE current_page = -1
    <2>1. p = First(b) BY <1>2, <1>6 DEF Cursor
    <2>2. forward_map'[a] = p /\ reverse_map'[p] = a /\ a # -1
        BY <1>2, Sizes DEF TypeOK, Addresses
    <2>3. IsLive(p)' BY <2>2 DEF IsLive
    <2>4. p \in LivePages(current_block)' BY <1>2, <2>3 DEF LivePages, PagesOf, First
    <2> QED BY <1>3, <1>4, <1>6, <2>1, <2>4
<1> QED BY <1>5, <1>6

\* The room there is, the free blocks and what is live are the same.
SameRoom == UNCHANGED <<ssd_type, map, log>>

\* So the room for the log is the same as well.
LEMMA RoomStays ==
    ASSUME SameRoom
    PROVE  /\ Room' = Room /\ (FreeBlock' <=> FreeBlock) /\ (JustOpened' <=> JustOpened)
           /\ current_block' = current_block /\ ssd_type' = ssd_type
           /\ \A b : LivePages(b)' = LivePages(b) /\ PagesOf(b)' = PagesOf(b)
<1>1. /\ ssd_type' = ssd_type /\ forward_map' = forward_map /\ reverse_map' = reverse_map
      /\ current_page' = current_page /\ current_block' = current_block
      /\ gc_used_blocks' = gc_used_blocks
    BY DEF SameRoom, map, log
<1>2. Room' = Room BY <1>1 DEF Room, First
<1>3. \A b : LivePages(b)' = LivePages(b) /\ PagesOf(b)' = PagesOf(b)
    BY <1>1 DEF LivePages, IsLive, PagesOf, First
<1>4. LivePages(current_block)' = LivePages(current_block) BY <1>1 DEF LivePages, IsLive, PagesOf, First
<1> QED BY <1>1, <1>2, <1>3, <1>4 DEF FreeBlock, JustOpened

\* There is a free block, and so room for a write.
LEMMA FreeHasRoom ==
    ASSUME TypeOK, UsedBlocks, FreeBlock
    PROVE  ~DeviceFull
<1>1. PICK b \in Blocks : b \notin gc_used_blocks BY DEF FreeBlock
<1>2. state[First(b)] # "valid" /\ First(b) \in Pages BY <1>1, BlockPages DEF UsedBlocks
<1>3. state[First(b)] \in {"invalid", "erased"} BY <1>2 DEF TypeOK
<1> QED BY <1>3 DEF DeviceFull, FreeBlocks, is_block_free

\* The collector looks at every block.
LEMMA RoundAll ==
    ASSUME NEW b \in Blocks, NEW c \in Blocks
    PROVE  \E k \in DOMAIN Round(b) : Round(b)[k] = c
<1>1. N \in Nat /\ b \in 0 .. N - 1 /\ c \in 0 .. N - 1 BY Sizes DEF Blocks, N
<1>2. PICK k : k = IF c >= b THEN c - b + 1 ELSE c - b + 1 + N OBVIOUS
<1>3. k \in 1 .. N /\ b + k - 1 = (IF c >= b THEN c ELSE c + N) BY <1>1, <1>2
<1>4. (b + k - 1) % N = c
    <2>1. CASE c >= b BY <1>1, <1>3, <2>1
    <2>2. CASE ~(c >= b)
        <3>1. b + k - 1 = N * 1 + c BY <1>1, <1>3, <2>2
        <3> QED BY <1>1, <3>1
    <2> QED BY <2>1, <2>2
<1> QED BY <1>3, <1>4 DEF Round, N

\* So no write is refused.
LEMMA RoomEnough ==
    ASSUME IInv, RoomInv
    PROVE  NeverFull
<1> SUFFICES ASSUME ssd_type = "log", phase = "command" \/ (phase = "copy" /\ copies # {})
             PROVE  ~DeviceFull
    BY DEF NeverFull
<1>1. TypeOK /\ UsedBlocks BY DEF IInv, LogInv
<1>2. CASE FreeBlock BY <1>1, <1>2, FreeHasRoom
<1>3. CASE ~FreeBlock
    <2>1. IsFiniteSet(copies) /\ copies # {} /\ Room >= Cardinality(copies)
        BY <1>3 DEF RoomInv
    <2>2. Cardinality(copies) \in Nat /\ Cardinality(copies) # 0
        BY <2>1, FS_EmptySet, FS_CardinalityType
    <2>3. current_page # -1 BY <2>1, <2>2 DEF Room
    <2> QED BY <2>3 DEF DeviceFull
<1> QED BY <1>2, <1>3

\* At the start all blocks are free.
LEMMA RoomInit == Init => RoomInv
<1> SUFFICES ASSUME Init PROVE FreeBlock BY DEF Init, RoomInv
<1>1. 0 \in Blocks BY Sizes DEF Blocks, N
<1> QED BY <1>1 DEF Init, FreeBlock

\* A command takes one page at most.
LEMMA CommandRoom ==
    ASSUME IInv, RoomInv, Command, ssd_type' = ssd_type
    PROVE  RoomInv'
<1> SUFFICES ASSUME ssd_type = "log" PROVE FreeBlock' \/ JustOpened'
    BY DEF RoomInv, Command, WriteCommand, TrimCommand, ReadCommand
<1>1. /\ TypeOK /\ Shape /\ InCurrent /\ UsedBlocks /\ FreeBlock /\ phase = "command"
    BY DEF IInv, LogInv, RoomInv, Command, WriteCommand, TrimCommand, ReadCommand
<1>2. CASE (\E a \in Addresses : TrimCommand(a)) \/ ReadCommand
    <2>1. gc_used_blocks' = gc_used_blocks BY <1>2 DEF TrimCommand, ReadCommand, log
    <2> QED BY <1>1, <2>1 DEF FreeBlock
<1>3. ASSUME NEW a \in Addresses, NEW v \in Values, WriteCommand(a, v)
      PROVE  FreeBlock' \/ JustOpened'
    <2>1. NeverFull BY RoomEnough
    <2>2. write_logging(a, v) BY <1>1, <1>3, <2>1 DEF WriteCommand, write, NeverFull
    <2>3. /\ current_page # -1 => gc_used_blocks' = gc_used_blocks
          /\ current_page = -1 => Room' = P - 1 /\ LivePages(current_block)' # {}
        BY <1>1, <2>2, WriteRoom
    <2>4. CASE current_page # -1 BY <1>1, <2>3, <2>4 DEF FreeBlock
    <2>5. CASE current_page = -1
        <3>1. Room' >= P - 1 BY <2>3, <2>5, Sizes
        <3> QED BY <2>3, <2>5, <3>1 DEF JustOpened, P
    <2> QED BY <2>4, <2>5
<1> QED BY <1>2, <1>3 DEF Command

\* The collector does not start while few blocks are in use, and sees all blocks when it does.
LEMMA UpkeepRoom ==
    ASSUME Roomy, IInv, RoomInv, Upkeep, ssd_type' = ssd_type
    PROVE  RoomInv'
<1> SUFFICES ASSUME ssd_type = "log" PROVE RoomInv' BY DEF RoomInv
<1>0. TypeOK /\ UsedBlocks /\ (FreeBlock \/ JustOpened) BY DEF IInv, LogInv, RoomInv, Upkeep
<1>1. SameRoom BY DEF SameRoom, Upkeep
<1>2. CASE blocks_in_use >= gc_high_water_mark
    <2>1. phase' = "scan" /\ scan' = Round(gc_current_block) BY <1>2 DEF Upkeep
    <2>2. SeenLive'
        <3>1. ASSUME NEW b \in Blocks PROVE \E k \in DOMAIN scan' : scan'[k] = b
            BY <1>0, <2>1, RoundAll DEF TypeOK
        <3> QED BY <3>1 DEF SeenLive, Blocks
    <2>3. FreeBlock' \/ JustOpened' BY <1>0, <1>1, RoomStays
    <2> QED BY <2>1, <2>2, <2>3 DEF RoomInv
<1>3. CASE ~(blocks_in_use >= gc_high_water_mark)
    <2>1. phase' = "command" BY <1>3 DEF Upkeep
    <2>2. FreeBlock
        <3> SUFFICES ASSUME ~FreeBlock PROVE FALSE OBVIOUS
        <3>1. gc_used_blocks = Blocks BY <1>0 DEF FreeBlock, TypeOK
        <3>2. Cardinality(Blocks) = N
            <4>1. PICK n : n = N - 1 OBVIOUS
            <4>2. 0 \in Int /\ n \in Int /\ ~(0 > n) /\ n - 0 + 1 = N BY <4>1, Sizes
            <4>3. Cardinality(0 .. n) = IF 0 > n THEN 0 ELSE n - 0 + 1 BY <4>2, FS_Interval
            <4> QED BY <4>1, <4>2, <4>3 DEF Blocks, N
        <3>3. blocks_in_use = N BY <3>1, <3>2 DEF blocks_in_use
        <3> QED BY <1>3, <3>3, SSDAssumption DEF Roomy, N
    <2>3. FreeBlock' BY <1>1, <2>2, RoomStays
    <2> QED BY <2>1, <2>3 DEF RoomInv
<1> QED BY <1>2, <1>3

\* What the collector passes over is live, or it was the block of the log.
LEMMA SkipRoom ==
    ASSUME IInv, RoomInv, SkipBlock, ssd_type' = ssd_type
    PROVE  RoomInv'
<1> SUFFICES ASSUME ssd_type = "log" PROVE FreeBlock' \/ (JustOpened' /\ SeenLive')
    BY DEF RoomInv, SkipBlock
<1>0. TypeOK /\ UsedBlocks /\ (FreeBlock \/ (JustOpened /\ SeenLive)) /\ scan # << >> /\ scan' = Tail(scan)
    BY DEF IInv, LogInv, RoomInv, SkipBlock
<1>1. SameRoom BY DEF SameRoom, SkipBlock
<1>2. CASE FreeBlock BY <1>1, <1>2, RoomStays
<1>3. CASE ~FreeBlock
    <2>1. JustOpened' BY <1>0, <1>1, <1>3, RoomStays
    <2>2. PICK h : h = Head(scan) OBVIOUS
    <2>3. h \in Blocks BY <1>0, <2>2 DEF TypeOK
    <2>4. h = current_block \/ LivePages(h) = PagesOf(h)
        <3>1. h \in gc_used_blocks BY <1>3, <2>3 DEF FreeBlock
        <3>2. state[First(h)] # "erased" BY <1>0, <2>3, <3>1 DEF UsedBlocks
        <3> QED BY <2>2, <3>2 DEF SkipBlock, Skipped
    <2>5. ASSUME NEW b \in Blocks
          PROVE  \/ b = current_block
                 \/ LivePages(b) = PagesOf(b)
                 \/ \E k \in DOMAIN scan' : scan'[k] = b
        <3>1. CASE \E k \in DOMAIN scan : scan[k] = b
            <4>1. PICK k \in DOMAIN scan : scan[k] = b BY <3>1
            <4>2. CASE k = 1 BY <1>0, <2>2, <2>4, <4>1, <4>2 DEF TypeOK
            <4>3. CASE k # 1
                <5>1. k - 1 \in DOMAIN Tail(scan) /\ Tail(scan)[k - 1] = b
                    BY <1>0, <4>1, <4>3 DEF TypeOK
                <5> QED BY <1>0, <5>1
            <4> QED BY <4>2, <4>3
        <3> QED BY <1>0, <1>3, <3>1 DEF SeenLive
    <2>6. SeenLive' BY <1>1, <2>5, RoomStays DEF SeenLive, Blocks
    <2> QED BY <2>1, <2>6
<1> QED BY <1>2, <1>3

\* What is copied out of a block fits.
LEMMA TakeRoom ==
    ASSUME IInv, RoomInv, TakeBlock, ssd_type' = ssd_type
    PROVE  RoomInv'
<1> SUFFICES ASSUME ssd_type = "log"
             PROVE  /\ IsFiniteSet(copies') /\ Cardinality(copies') <= P - 1
                    /\ FreeBlock' \/ Room' >= Cardinality(copies')
    BY DEF RoomInv, TakeBlock, P
<1>0. TypeOK /\ scan # << >> /\ (FreeBlock \/ JustOpened) BY DEF IInv, RoomInv, TakeBlock
<1>1. SameRoom BY DEF SameRoom, TakeBlock
<1>2. PICK h : h = Head(scan) OBVIOUS
<1>3. h \in Blocks /\ LivePages(h) # PagesOf(h) /\ copies' = LivePages(h)
    BY <1>0, <1>2 DEF TypeOK, TakeBlock, Skipped
<1>4. IsFiniteSet(copies') /\ Cardinality(copies') \in Nat /\ Cardinality(copies') <= P - 1
    BY <1>3, LiveFew
<1>5. CASE FreeBlock BY <1>1, <1>4, <1>5, RoomStays
<1>6. CASE JustOpened
    <2>1. Room >= P - 1 /\ Room' = Room BY <1>1, <1>6, RoomStays DEF JustOpened
    <2>2. Room \in Int
        <3>1. First(current_block) \in Nat BY <1>0, BlockPages DEF TypeOK
        <3> QED BY <1>0, <3>1, Sizes DEF Room, TypeOK, Pages
    <2> QED BY <1>4, <2>1, <2>2, Sizes
<1> QED BY <1>0, <1>5, <1>6

\* A copy takes one page, and there is one copy less.
LEMMA CopyRoom ==
    ASSUME IInv, RoomInv, CopyPage, ssd_type' = ssd_type
    PROVE  RoomInv'
<1>0. TypeOK /\ ssd_type = "log" /\ LogInv /\ phase = "copy" /\ phase' = "copy"
    BY DEF IInv, NoLogInv, CopyPage
<1>1. PICK p \in copies : write(reverse_map[p], data[p]) /\ copies' = copies \ {p}
    BY DEF CopyPage
<1>2. PICK a \in Addresses, v \in Values \cup {None} : a = reverse_map[p] /\ v = data[p]
    BY <1>0, <1>1 DEF LogInv, Collected, CopyPage, TypeOK
<1>3. write_logging(a, v)
    <2>1. NeverFull BY RoomEnough
    <2> QED BY <1>0, <1>1, <1>2, <2>1 DEF write, NeverFull
<1>4. IsFiniteSet(copies) /\ Cardinality(copies) <= P - 1 /\ (FreeBlock \/ Room >= Cardinality(copies))
    BY <1>0 DEF RoomInv
<1>5. /\ IsFiniteSet(copies') /\ Cardinality(copies') = Cardinality(copies) - 1
      /\ Cardinality(copies) \in Nat
    BY <1>1, <1>4, FS_RemoveElement, FS_CardinalityType
<1>6. /\ current_page # -1 => /\ Room \in Nat /\ Room' = Room - 1
                              /\ gc_used_blocks' = gc_used_blocks
      /\ current_page = -1 => Room' = P - 1
    BY <1>0, <1>3, WriteRoom DEF LogInv
<1>7. FreeBlock' \/ Room' >= Cardinality(copies')
    <2>1. CASE current_page # -1 /\ FreeBlock BY <1>6, <2>1 DEF FreeBlock
    <2>2. CASE current_page # -1 /\ ~FreeBlock BY <1>4, <1>5, <1>6, <2>2
    <2>3. CASE current_page = -1 BY <1>4, <1>5, <1>6, <2>3, Sizes
    <2> QED BY <2>1, <2>2, <2>3
<1>8. Cardinality(copies') <= P - 1 BY <1>4, <1>5, Sizes
<1> QED BY <1>0, <1>5, <1>7, <1>8 DEF RoomInv, P

\* A block that is erased is free, and when nothing was there is a block that is not live.
LEMMA EraseRoom ==
    ASSUME Roomy, IInv, RoomInv, EraseBlock \/ EndScan, ssd_type' = ssd_type
    PROVE  RoomInv'
<1> SUFFICES ASSUME ssd_type = "log" PROVE FreeBlock'
    BY DEF RoomInv, EraseBlock, EndScan
<1>0. TypeOK /\ LogInv BY DEF IInv
<1>1. CASE EraseBlock
    <2>1. Head(scan) \in Blocks /\ gc_used_blocks' = gc_used_blocks \ {Head(scan)}
        BY <1>0, <1>1 DEF LogInv, Collected, EraseBlock
    <2> QED BY <2>1 DEF FreeBlock
<1>2. CASE EndScan
    <2>1. SameRoom /\ scan = << >> /\ (FreeBlock \/ (JustOpened /\ SeenLive))
        BY <1>2 DEF SameRoom, EndScan, RoomInv
    <2>2. CASE FreeBlock BY <2>1, <2>2, RoomStays
    <2>3. CASE JustOpened /\ SeenLive
        <3>1. current_block \in Blocks /\ LivePages(current_block) # {}
            BY <1>0, <2>3 DEF TypeOK, JustOpened
        <3>2. PICK b \in Blocks : b # current_block /\ LivePages(b) # PagesOf(b)
            BY <1>0, <3>1, SomeDead
        <3>3. DOMAIN scan = {} BY <2>1
        <3> QED BY <2>3, <3>2, <3>3 DEF SeenLive
    <2> QED BY <2>1, <2>2, <2>3
<1> QED BY <1>1, <1>2

\* No write is ever refused, and no copy of the collector lost, for any geometry, when
\* the collector starts before the device is full and one block is left over by the
\* addresses.
THEOREM SSDNeverFull == ASSUME Marked, Roomy PROVE Spec => []NeverFull
<1>1. IInv /\ RoomInv /\ [Next]_vars => (IInv /\ RoomInv)'
    <2> SUFFICES ASSUME IInv, RoomInv, [Next]_vars PROVE RoomInv' BY NextInv
    <2>1. CASE UNCHANGED vars
        <3>1. SameRoom /\ phase' = phase /\ scan' = scan /\ copies' = copies
            BY <2>1 DEF vars, SameRoom, gc
        <3>2. SeenLive' <=> SeenLive BY <3>1, RoomStays DEF SeenLive, Blocks
        <3>3. /\ Room' = Room /\ (FreeBlock' <=> FreeBlock) /\ (JustOpened' <=> JustOpened)
              /\ ssd_type' = ssd_type
            BY <3>1, RoomStays
        <3> QED BY <3>1, <3>2, <3>3 DEF RoomInv, P
    <2>2. CASE Next
        <3>1. ssd_type' = ssd_type BY <2>2 DEF Next
        <3> QED BY <2>2, <3>1, CommandRoom, UpkeepRoom, SkipRoom, TakeRoom, CopyRoom, EraseRoom
                DEF Next, garbage_collect
    <2> QED BY <2>1, <2>2
<1>2. Init => IInv /\ RoomInv BY InitInv, RoomInit
<1>3. IInv /\ RoomInv => NeverFull BY RoomEnough
<1> QED BY <1>1, <1>2, <1>3, PTL DEF Spec

\* Then the maps agree, and every SSD implements an array of pages, without more ado.
THEOREM SSDKeepsPages == ASSUME Marked, Roomy PROVE Spec => []MapsAgree /\ ImplementsDisk
  BY SSDNeverFull, SSDMapsAgree, SSDImplementsDisk, PTL
=============================================================================
