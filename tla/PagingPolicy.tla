---------------------------- MODULE PagingPolicy ----------------------------
(***************************************************************************)
(* vm-beyondphys-policy/paging-policy.py: a cache of pages that serves a   *)
(* list of references and replaces by one of seven policies.  CLOCK scans  *)
(* at random and counts references down until it meets one that is at 0.   *)
(***************************************************************************)
EXTENDS Integers, Sequences, Steps, FiniteSets

CONSTANT
    Traces      \* [policy, cachesize, clockbits, addrList]

Policies == {"FIFO", "LRU", "MRU", "RAND", "CLOCK", "OPT", "UNOPT"}

\* What the constants have to be; MC modules assume it of the values they give them.
PagingPolicyAssumption ==
    \A t \in Traces : t.policy \in Policies /\ t.cachesize \in Nat \ {0} /\ t.clockbits \in Nat

VARIABLES
    trace,
    addrIndex,      \* how many references were served
    memory,         \* the pages that are in, in the order they came or, for LRU and
                    \* MRU, were used
    miss,
    ref             \* per page, how often it was used, up to clockbits

pagingVars == <<trace, addrIndex, memory, miss, ref>>

addrList == trace.addrList

PagingInit ==
    /\ trace \in Traces
    /\ addrIndex = 0 /\ memory = << >> /\ miss = 0 /\ ref = << >>

-----------------------------------------------------------------------------
\* Faulty: the next reference is not seen.
whenReferenced_TooLate(page) ==
    LET future == {k \in addrIndex + 2 .. Len(addrList) - 1 : addrList[k + 1] = page}
    IN  IF future = {} THEN Len(addrList) ELSE Min(future)

\* When the page is needed again, the length of the list if it never is.
whenReferenced(page) ==
    LET future == {k \in addrIndex + 1 .. Len(addrList) - 1 : addrList[k + 1] = page}
    IN  IF future = {} THEN Len(addrList) ELSE Min(future)

\* The place in memory of the page to replace, for the policies that leave no choice: of
\* pages that are needed at one time, that is never, the last for OPT, the first for UNOPT.
Later(i, j) ==
    \/ whenReferenced(memory[i]) > whenReferenced(memory[j])
    \/ whenReferenced(memory[i]) = whenReferenced(memory[j]) /\ i >= j
Sooner(i, j) ==
    \/ whenReferenced(memory[i]) < whenReferenced(memory[j])
    \/ whenReferenced(memory[i]) = whenReferenced(memory[j]) /\ i <= j

\* The counts CLOCK can leave: until it takes the victim it has met the others any number
\* of times.
Scanned(victim) ==
    {[page \in DOMAIN ref \ {victim} |-> IF page \in DOMAIN left THEN left[page] ELSE ref[page]] :
        left \in {f \in [ToSet(memory) \ {victim} -> 0 .. trace.clockbits + 1] :
                    \A page \in DOMAIN f : f[page] <= ref[page]}}

\* The choices of a place and of the reference counts the others are left with.
Replaced ==
    LET All(places) == {[idx |-> i, ref |-> ref] : i \in places}
        Places == DOMAIN memory
    IN  CASE trace.policy \in {"FIFO", "LRU"} -> All({1})
          [] trace.policy = "MRU" -> All({Len(memory)})
          [] trace.policy = "RAND" -> All(Places)
          [] trace.policy = "OPT" -> All({i \in Places : \A j \in Places : Later(i, j)})
          [] trace.policy = "UNOPT" -> All({i \in Places : \A j \in Places : Sooner(i, j)})
          [] trace.policy = "CLOCK" ->
                UNION {{[idx |-> i, ref |-> left] : left \in Scanned(memory[i])} : i \in Places}

\* A page that is not counted starts at 1, whatever the clock bits.
Counted(counts, n) ==
    [page \in DOMAIN counts \cup {n} |->
        IF page # n THEN counts[page]
        ELSE IF n \notin DOMAIN counts THEN 1
        ELSE IF counts[n] + 1 > trace.clockbits THEN trace.clockbits ELSE counts[n] + 1]

Hit(n) ==
    /\ n \in ToSet(memory)
    /\ memory' = IF trace.policy \in {"LRU", "MRU"} THEN Append(Remove(memory, n), n)
                 ELSE memory
    /\ ref' = Counted(ref, n)
    /\ UNCHANGED miss

Miss(n) ==
    /\ n \notin ToSet(memory)
    /\ miss' = miss + 1
    /\ \/ /\ Len(memory) < trace.cachesize
          /\ memory' = Append(memory, n)
          /\ ref' = Counted(ref, n)
       \/ /\ Len(memory) = trace.cachesize
          /\ \E v \in Replaced :
                /\ memory' = Append(RemoveAt(memory, v.idx), n)
                /\ ref' = Counted(v.ref, n)

Access ==
    /\ addrIndex < Len(addrList)
    /\ addrIndex' = addrIndex + 1
    /\ UNCHANGED trace
    /\ LET n == addrList[addrIndex + 1] IN Hit(n) \/ Miss(n)

PagingSpec == PagingInit /\ [][Access]_pagingVars

-----------------------------------------------------------------------------
\* The fewest misses any way of replacing can have on what was served: what can be in
\* memory after some references, and the fewest misses that lead there.
Least(best, n) ==
    LET Next(m) == IF n \in m THEN {m}
                   ELSE IF Cardinality(m) < trace.cachesize THEN {m \cup {n}}
                   ELSE {(m \ {page}) \cup {n} : page \in m}
        Cost(m, to) == best[m] + IF n \in m THEN 0 ELSE 1
    IN  [to \in UNION {Next(m) : m \in DOMAIN best} |->
            Min({Cost(m, to) : m \in {k \in DOMAIN best : to \in Next(k)}})]

Fewest == LET best == ForEach(Least, ({} :> 0), SubSeq(addrList, 1, addrIndex))
          IN  Min({best[m] : m \in DOMAIN best})

\* The pages in the order of their last use, or of the time they were brought in.
LastUse(page) == Max({k \in 1 .. addrIndex : addrList[k] = page})

\* OPT has the fewest misses there can be and no policy has fewer; LRU holds the pages
\* that were used last, in that order; no page is in twice; and the clock's counts belong
\* to the pages that are in, and let one be replaced.
FewestMisses ==
    /\ addrIndex = Len(addrList) => miss >= Fewest
    /\ addrIndex = Len(addrList) /\ trace.policy = "OPT" => miss = Fewest
    /\ IsInjective(memory) /\ Len(memory) <= trace.cachesize
    /\ trace.policy = "LRU" =>
          /\ \A i, j \in DOMAIN memory : i < j => LastUse(memory[i]) < LastUse(memory[j])
          /\ \A page \in ToSet(SubSeq(addrList, 1, addrIndex)) \ ToSet(memory) :
                \A i \in DOMAIN memory : LastUse(page) < LastUse(memory[i])
    /\ trace.policy = "CLOCK" => DOMAIN ref = ToSet(memory)
=============================================================================
