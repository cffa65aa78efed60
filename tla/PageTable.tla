------------------------------ MODULE PageTable ------------------------------
(***************************************************************************)
(* vm-smalltables/paging-multilevel-translate.py: a page directory whose   *)
(* entries lead to pages of a page table, in the memory that also holds    *)
(* the pages they map.  An entry is a byte: its high bit says whether it   *)
(* is valid, the others are a page number.  What random pages hold is one  *)
(* number below the entries that are valid.                                *)
(***************************************************************************)
EXTENDS Integers, Sequences, FiniteSets, SequencesExt, FiniteSetsExt

CONSTANTS
    pageSize,       \* bytes, and entries, in a page
    physPages,
    Allocated,      \* the numbers of pages that are asked for
    Fills           \* what random bytes are

vaPages == pageSize * pageSize
pfnMask == 127

\* What the constants have to be; MC modules assume it of the values they give them.
PageTableAssumption ==
    /\ pageSize \in Nat \ {0} /\ physPages \in 1 .. pfnMask + 1
    /\ Allocated \subseteq 0 .. vaPages /\ Fills \subseteq 0 .. 30

VARIABLES
    numPages,       \* how many are asked for
    usedPages,
    memory,         \* per page and byte
    pdbr,           \* the page of the directory
    allocatedVPs,
    failed          \* the assertion in findFree: there is no page left

pageTableVars == <<numPages, usedPages, memory, pdbr, allocatedVPs, failed>>

Pages == 0 .. physPages - 1
Free == Pages \ usedPages

\* An invalid entry has all bits of the page number set.
Invalid == [i \in 0 .. pageSize - 1 |-> pfnMask]

Valid(entry) == entry > pfnMask
Pfn(entry) == entry % (pfnMask + 1)
Entry(page) == pfnMask + 1 + page

PageTableInit ==
    /\ numPages \in Allocated
    /\ pdbr \in Pages
    /\ usedPages = {pdbr}
    /\ memory = [p \in Pages |-> IF p = pdbr THEN Invalid ELSE [i \in 0 .. pageSize - 1 |-> 0]]
    /\ allocatedVPs = << >>
    /\ failed = FALSE

-----------------------------------------------------------------------------
\* A virtual page number has an index for the directory and one for the page table.
pdeBits(vpn) == vpn \div pageSize
\* Faulty: the index for the directory is used for the table, too.
pteBits_High(vpn) == vpn \div pageSize

pteBits(vpn) == vpn % pageSize

PageDirEntry(vpn) == memory[pdbr][pdeBits(vpn)]
PageTableEntry(vpn, ptePage) == memory[ptePage][pteBits(vpn)]

\* allocVirtualPage: a page of the table is allocated after pp, which is mapped there.
\* pp is filled last.
MapsIn(table, ptePage, vp, pp, fill) ==
    [table EXCEPT ![ptePage][pteBits(vp)] = Entry(pp),
                  ![pp] = [i \in 0 .. pageSize - 1 |-> fill]]

Mapped(vp, pp, fill) ==
    IF Valid(PageDirEntry(vp))
    THEN /\ memory' = MapsIn(memory, Pfn(PageDirEntry(vp)), vp, pp, fill)
         /\ usedPages' = usedPages \cup {pp}
         /\ allocatedVPs' = Append(allocatedVPs, vp)
         /\ UNCHANGED failed
    ELSE IF Free = {pp}
    THEN /\ failed' = TRUE
         /\ usedPages' = usedPages \cup {pp}
         /\ allocatedVPs' = Append(allocatedVPs, vp)
         /\ UNCHANGED memory
    ELSE \E ptePage \in Free \ {pp} :
         /\ memory' = MapsIn([memory EXCEPT ![pdbr][pdeBits(vp)] = Entry(ptePage),
                                            ![ptePage] = Invalid], ptePage, vp, pp, fill)
         /\ usedPages' = usedPages \cup {pp, ptePage}
         /\ allocatedVPs' = Append(allocatedVPs, vp)
         /\ UNCHANGED failed

\* procAlloc: one page more, at a virtual page that was not chosen yet.
AllocPage ==
    /\ ~ failed /\ Len(allocatedVPs) < numPages
    /\ UNCHANGED <<numPages, pdbr>>
    /\ \E vp \in 0 .. vaPages - 1 \ ToSet(allocatedVPs) :
          \/ /\ Free = {}
             /\ failed' = TRUE
             /\ allocatedVPs' = Append(allocatedVPs, vp)
             /\ UNCHANGED <<usedPages, memory>>
          \/ \E pp \in Free : \E fill \in Fills : Mapped(vp, pp, fill)

PageTableSpec == PageTableInit /\ [][AllocPage]_pageTableVars

\* translate: the page a virtual one is in, or a fault; the offset is that of the address.
DirectoryFault == -1
TableFault == -2
translate(vpn) ==
    IF ~ Valid(PageDirEntry(vpn)) THEN DirectoryFault
    ELSE IF ~ Valid(PageTableEntry(vpn, Pfn(PageDirEntry(vpn)))) THEN TableFault
    ELSE Pfn(PageTableEntry(vpn, Pfn(PageDirEntry(vpn))))

-----------------------------------------------------------------------------
\* The pages that were allocated, and no others, translate, each to a page of its own
\* that is neither the directory nor a page of the table, whatever was put in its memory
\* and in whatever order; the directory lacks an entry only where nothing was allocated;
\* all pages that are used are one of these; and allocation fails only for want of one.
TranslatesAsMapped ==
    LET mapped == IF failed THEN ToSet(Front(allocatedVPs)) ELSE ToSet(allocatedVPs)
        data == {translate(vp) : vp \in mapped}
        tables == {Pfn(memory[pdbr][i]) : i \in {k \in 0 .. pageSize - 1 : Valid(memory[pdbr][k])}}
    IN  /\ \A vpn \in 0 .. vaPages - 1 :
              translate(vpn) = DirectoryFault
                 <=> \A vp \in mapped : pdeBits(vp) # pdeBits(vpn)
        /\ \A vpn \in 0 .. vaPages - 1 : translate(vpn) >= 0 <=> vpn \in mapped
        /\ Cardinality(data) = Cardinality(mapped)
        /\ Cardinality(tables) = Cardinality({pdeBits(vp) : vp \in mapped})
        /\ data \cap (tables \cup {pdbr}) = {} /\ pdbr \notin tables
        /\ failed => Free = {}
        /\ ~ failed => usedPages = data \cup tables \cup {pdbr}
=============================================================================
