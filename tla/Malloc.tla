------------------------------- MODULE Malloc -------------------------------
(***************************************************************************)
(* vm-freespace/malloc.py: a heap with a free list that is searched for    *)
(* the first, the best or the worst fit, kept in one of five orders, and   *)
(* merged where it can be.  main() allocates and frees: by lot it frees    *)
(* what it has, from a list of operations any pointer it once got.         *)
(***************************************************************************)
EXTENDS Integers, Sequences, SequencesExt, FiniteSets

CONSTANTS
    Heaps,          \* [size, start, headerSize, policy, returnPolicy, coalesce, align, opsList]
    AllocSizes,
    opsNum

\* What the constants have to be; MC modules assume it of the values they give them.
MallocAssumption ==
    /\ \A h \in Heaps :
          /\ h.size \in Nat \ {0} /\ h.start \in Nat /\ h.headerSize \in Nat
          /\ h.policy \in {"FIRST", "BEST", "WORST"}
          /\ h.returnPolicy \in {"ADDRSORT", "SIZESORT+", "SIZESORT-", "INSERT-FRONT",
                                 "INSERT-BACK"}
          /\ h.align = -1 \/ h.align \in Nat \ {0}
          /\ {h.coalesce, h.opsList} \subseteq BOOLEAN
    /\ AllocSizes \subseteq Nat /\ opsNum \in Nat

VARIABLES
    heap,
    freelist,       \* pieces <<address, size>>
    sizemap,        \* per address that was returned, its size
    pointers,       \* p: per allocation that was one, the address
    allocs,         \* c: how many allocations were tried
    ops,
    aborted         \* an assertion has failed, or a pointer was missing

mallocVars == <<heap, freelist, sizemap, pointers, allocs, ops, aborted>>

MallocInit ==
    /\ heap \in Heaps
    /\ freelist = <<<<heap.start, heap.size>>>>
    /\ sizemap = << >>
    /\ pointers = << >>
    /\ allocs = 0 /\ ops = 0
    /\ aborted = FALSE

-----------------------------------------------------------------------------
With(f, x, v) == [y \in DOMAIN f \cup {x} |-> IF y = x THEN v ELSE f[y]]
Without(f, x) == [y \in DOMAIN f \ {x} |-> f[y]]

\* What a request takes up.
Padded(size) ==
    (IF heap.align = -1 THEN size ELSE ((size + heap.align - 1) \div heap.align) * heap.align)
    + heap.headerSize

\* The place in the list of the piece the policy picks, 0 if none is large enough; of
\* pieces of one size the first.
Picked(size) ==
    LET fits == {i \in DOMAIN freelist : freelist[i][2] >= size}
        Better(i, j) ==
            \/ heap.policy = "BEST" /\ freelist[i][2] < freelist[j][2]
            \/ heap.policy = "WORST" /\ freelist[i][2] > freelist[j][2]
            \/ i <= j /\ (heap.policy = "FIRST" \/ freelist[i][2] = freelist[j][2])
    IN  IF fits = {} THEN 0 ELSE CHOOSE i \in fits : \A j \in fits : Better(i, j)

malloc(size) ==
    LET n == Picked(Padded(size))
        addr == freelist[n][1]
        left == freelist[n][2] - Padded(size)
    IN  /\ allocs' = allocs + 1
        /\ \/ n = 0 /\ UNCHANGED <<freelist, sizemap, pointers, aborted>>
           \/ /\ n # 0
              /\ freelist' = IF left > 0 THEN [freelist EXCEPT ![n] = <<addr + Padded(size), left>>]
                             ELSE RemoveAt(freelist, n)
              \* addToMap; only a piece of no bytes can leave its address to another
              /\ IF addr \in DOMAIN sizemap
                 THEN aborted' = TRUE /\ UNCHANGED <<sizemap, pointers>>
                 ELSE /\ sizemap' = With(sizemap, addr, Padded(size))
                      /\ pointers' = With(pointers, allocs, addr)
                      /\ UNCHANGED aborted

-----------------------------------------------------------------------------
\* sorted: equal ones stay in the order they are in.
Sorted(list, Key(_)) ==
    LET order == SetToSortSeq(DOMAIN list, LAMBDA i, j :
                    Key(list[i]) < Key(list[j]) \/ (Key(list[i]) = Key(list[j]) /\ i < j))
    IN  [i \in DOMAIN list |-> list[order[i]]]

Returned(piece) ==
    CASE heap.returnPolicy = "INSERT-BACK" -> Append(freelist, piece)
      [] heap.returnPolicy = "INSERT-FRONT" -> <<piece>> \o freelist
      [] heap.returnPolicy = "ADDRSORT" -> Sorted(Append(freelist, piece), LAMBDA e : e[1])
      [] heap.returnPolicy = "SIZESORT+" -> Sorted(Append(freelist, piece), LAMBDA e : e[2])
      [] heap.returnPolicy = "SIZESORT-" -> Sorted(Append(freelist, piece), LAMBDA e : -e[2])

\* Faulty: pieces that follow each other in the list become one.
Merge_InList(done, piece) ==
    IF done # << >> THEN [done EXCEPT ![Len(done)][2] = @ + piece[2]] ELSE <<piece>>

\* Pieces that follow each other in the list and in the heap become one.
Merge(done, piece) ==
    IF done # << >> /\ Last(done)[1] + Last(done)[2] = piece[1]
    THEN [done EXCEPT ![Len(done)][2] = @ + piece[2]]
    ELSE Append(done, piece)

Coalesced(list) == IF heap.coalesce THEN FoldLeft(Merge, << >>, list) ELSE list

\* By lot the pointer is one that is held and is forgotten.  In a list of operations it
\* is kept, and may be missing, or name what is freed or another's by now.
free(c) ==
    LET addr == pointers[c]
    IN  /\ UNCHANGED allocs
        /\ \/ /\ c \in DOMAIN pointers /\ addr \in DOMAIN sizemap
              /\ freelist' = Coalesced(Returned(<<addr, sizemap[addr]>>))
              /\ sizemap' = Without(sizemap, addr)
              /\ pointers' = IF heap.opsList THEN pointers ELSE Without(pointers, c)
              /\ UNCHANGED aborted
           \/ /\ c \in DOMAIN pointers /\ addr \notin DOMAIN sizemap
              /\ UNCHANGED <<freelist, sizemap, pointers, aborted>>
           \/ /\ c \notin DOMAIN pointers
              /\ aborted' = TRUE
              /\ UNCHANGED <<freelist, sizemap, pointers>>

Free(c) ==
    /\ IF heap.opsList THEN c < Cardinality(DOMAIN pointers) ELSE c \in DOMAIN pointers
    /\ free(c)

MallocNext ==
    /\ ops < opsNum /\ ~ aborted
    /\ ops' = ops + 1
    /\ UNCHANGED heap
    /\ \/ \E size \in AllocSizes : (heap.opsList \/ size > 0) /\ malloc(size)
       \/ \E c \in 0 .. allocs - 1 : Free(c)

MallocSpec == MallocInit /\ [][MallocNext]_mallocVars

-----------------------------------------------------------------------------
\* The free pieces and the pieces that were given out cover the heap, each byte once,
\* whatever is freed in whatever order and merged with what; an ordered list that is
\* merged holds no two pieces side by side; pointers that are held are valid and differ;
\* and the program only fails on a request for no bytes or a pointer it never got.
Bytes(addr, size) == addr .. addr + size - 1

HeapCovered ==
    LET FreeHolding(b) == {i \in DOMAIN freelist : b \in Bytes(freelist[i][1], freelist[i][2])}
        GivenHolding(b) == {a \in DOMAIN sizemap : b \in Bytes(a, sizemap[a])}
        Total == FoldLeft(LAMBDA sum, e : sum + e[2], 0, freelist)
                 + FoldFunction(LAMBDA x, y : x + y, 0, sizemap)
    IN  /\ ~ aborted =>
              /\ Total = heap.size
              /\ \A b \in Bytes(heap.start, heap.size) :
                    Cardinality(FreeHolding(b)) + Cardinality(GivenHolding(b)) = 1
        /\ heap.coalesce /\ heap.returnPolicy = "ADDRSORT"
           /\ (\A i \in DOMAIN freelist : freelist[i][2] > 0) =>
              \A i \in 1 .. Len(freelist) - 1 :
                  freelist[i][1] + freelist[i][2] < freelist[i + 1][1]
        /\ ~ heap.opsList =>
              /\ ~ aborted /\ IsInjective(pointers)
              /\ Range(pointers) = DOMAIN sizemap
=============================================================================
