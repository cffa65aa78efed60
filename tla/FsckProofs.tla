----------------------------- MODULE FsckProofs -----------------------------
(***************************************************************************)
(* The file system that fsck.py makes and damages, for any sizes, names    *)
(* and contents and either choice of free bits.                            *)
(*                                                                         *)
(* After every request its bitmaps agree with its inodes and blocks        *)
(* (FsckBitmaps), its directories and reference counts with each other     *)
(* (FsckLinks), what run() believes to be there with what a walk finds     *)
(* (FsckNames), and what it shows is the tree of FileTree (FsckTree).      *)
(* What corrupt() does to it can then be seen (FsckCorruption).            *)
(*                                                                         *)
(* None of these is inductive by itself: the disk stays sound because      *)
(* run() knows what is on it.  KnownInv says that its names lead to what   *)
(* they are names of, NamedInv and ListInv that nothing else is there.     *)
(***************************************************************************)
EXTENDS Fsck, FiniteSetTheorems, WellFoundedInduction, TLAPS

Entry == (Names \cup {".", ".."}) \X Inodes
Inode == [ftype : {"free", "f", "d"}, addr : Blocks \cup {-1}, refCnt : Int]
Block == [ftype : {"free", "f", "d"}, dirList : Seq(Entry), data : Contents \cup {Empty}]
InodeTable == [Inodes -> Inode]
BlockTable == [Blocks -> Block]
USE DEF Inode, Block, InodeTable, BlockTable

\* The file system keeps its promise through what run() knows of it: the names
\* lead to inodes in use of the right type, no two directories to the same one;
\* a name has its entry in its directory, so that no name is given twice; and
\* an inode counts the names that lead to it, so that it is freed with the last.
NamesOf(i) == {p \in files : nameToInum[p] = i}

KnownInv ==
    /\ files \subseteq Seq(Names) /\ dirs \subseteq Seq(Names)
    /\ IsFiniteSet(files) /\ << >> \notin files
    /\ \A p \in files : nameToInum[p] \in ibitmap /\ inodes[nameToInum[p]].ftype = "f"
    /\ \A d \in dirs : nameToInum[d] \in ibitmap /\ inodes[nameToInum[d]].ftype = "d"
    /\ \A c, d \in dirs : nameToInum[c] = nameToInum[d] => c = d
    /\ \A p \in files \cup dirs :
          p # << >> => Front(p) \in dirs /\ dirEntryExists(Front(p), Last(p))
    /\ \A i \in ibitmap : inodes[i].ftype = "f" => inodes[i].refCnt = Cardinality(NamesOf(i))

Sound == FsckTypeOK /\ BitmapsAgree /\ KnownInv

\* A free inode has no block, so that giving one back changes nothing.
FreeInv == \A i \in Inodes : inodes[i].ftype = "free" => inodes[i].addr = -1

IInv == IF corruption = -1 THEN Sound /\ FreeInv ELSE phase = "exit"

-----------------------------------------------------------------------------
\* A set of natural numbers that is not empty has a least one (SelectInSeq takes it).
LEMMA LeastExists ==
    ASSUME NEW S \in SUBSET Nat, S # {}
    PROVE  \E m \in S : \A y \in S : m <= y
<1>1. PICK m \in S : \A y \in S : ~(<<y, m>> \in OpToRel(<, Nat))
  BY NatLessThanWellFounded, WFMin
<1>2. \A y \in S : y \in Nat /\ ~(y < m)
  BY <1>1 DEF OpToRel
<1>3. m \in Nat /\ \A y \in S : m <= y
  BY <1>2
<1> QED BY <1>3

\* What a concatenation holds, and where.
LEMMA Concatenation ==
    ASSUME NEW S, NEW a \in Seq(S), NEW b \in Seq(S)
    PROVE  /\ a \o b \in Seq(S) /\ Len(a \o b) = Len(a) + Len(b)
           /\ \A k \in 1 .. Len(a) : (a \o b)[k] = a[k]
           /\ \A k \in 1 .. Len(b) : (a \o b)[Len(a) + k] = b[k]
  OBVIOUS

\* What block.delDirEntry leaves of a list.
Removed(s, n) == RemoveFirstMatch(s, LAMBDA e : e[1] = n)

\* Removing the entry of a name that a list has.
LEMMA RemovedIs ==
    ASSUME NEW S, NEW s \in Seq(S), NEW n, NEW r, r = Removed(s, n),
           \E i \in 1 .. Len(s) : s[i][1] = n
    PROVE  r \in Seq(S) /\
           \E x \in 1 .. Len(s) :
              /\ s[x][1] = n /\ Len(r) = Len(s) - 1
              /\ \A k \in 1 .. Len(r) : r[k] = IF k < x THEN s[k] ELSE s[k + 1]
<1> DEFINE N == Len(s)
           I == {i \in 1 .. N : s[i][1] = n}
           x == CHOOSE m \in I : \A y \in I : m <= y
           before == SubSeq(s, 1, x - 1)
           after  == SubSeq(s, x + 1, N)
<1>1. N \in Nat /\ DOMAIN s = 1 .. N
  OBVIOUS
<1>2. x \in 1 .. N /\ s[x][1] = n
  <2>1. I \in SUBSET Nat /\ I # {}
    BY <1>1
  <2>2. \E m \in I : \A y \in I : m <= y
    BY <2>1, LeastExists
  <2>3. x \in I
    BY <2>2
  <2> QED BY <2>3
<1>3. r = before \o after
  BY <1>1 DEF Removed, RemoveFirstMatch, RemoveAt, SelectInSeq, Min
<1> HIDE DEF x, N
<1>4. /\ before \in Seq(S) /\ Len(before) = x - 1
      /\ \A k \in 1 .. x - 1 : before[k] = s[k]
  BY <1>1, <1>2
<1>5. /\ after \in Seq(S) /\ Len(after) = N - x
      /\ \A k \in 1 .. N - x : after[k] = s[k + x]
  BY <1>1, <1>2
<1> HIDE DEF before, after
<1>6. /\ r \in Seq(S) /\ Len(r) = Len(before) + Len(after)
      /\ \A k \in 1 .. Len(before) : r[k] = before[k]
      /\ \A k \in 1 .. Len(after) : r[Len(before) + k] = after[k]
  BY <1>3, <1>4, <1>5, Concatenation
<1>7. Len(r) = N - 1
  BY <1>1, <1>2, <1>4, <1>5, <1>6
<1>8. ASSUME NEW k \in 1 .. Len(r)
      PROVE  r[k] = IF k < x THEN s[k] ELSE s[k + 1]
  <2>1. CASE k < x
    <3>1. k \in 1 .. x - 1
      BY <1>1, <1>2, <1>7, <2>1
    <3> QED BY <1>4, <1>6, <2>1, <3>1
  <2>2. CASE ~(k < x)
    <3>1. k - x + 1 \in 1 .. N - x
      BY <1>1, <1>2, <1>7, <2>2
    <3>2. r[x - 1 + (k - x + 1)] = s[(k - x + 1) + x]
      BY <1>4, <1>5, <1>6, <3>1
    <3>3. x - 1 + (k - x + 1) = k /\ (k - x + 1) + x = k + 1
      BY <1>1, <1>2, <1>7
    <3> QED BY <2>2, <3>2, <3>3
  <2> QED BY <2>1, <2>2
<1> QED BY <1>2, <1>6, <1>7, <1>8 DEF N

\* It leaves an entry list, and the entries of all other names.
LEMMA RemoveEntry ==
    ASSUME NEW S, NEW s \in Seq(S), NEW n, NEW r,
           r = Removed(s, n)
    PROVE  /\ r \in Seq(S)
           /\ \A k \in DOMAIN s : s[k][1] # n => \E j \in DOMAIN r : r[j] = s[k]
<1>0. Len(s) \in Nat /\ DOMAIN s = 1 .. Len(s)
  OBVIOUS
<1>1. CASE \E i \in 1 .. Len(s) : s[i][1] = n
  <2>1. PICK x \in 1 .. Len(s) :
           /\ s[x][1] = n /\ Len(r) = Len(s) - 1
           /\ \A k \in 1 .. Len(r) : r[k] = IF k < x THEN s[k] ELSE s[k + 1]
    BY <1>1, RemovedIs
  <2>2. r \in Seq(S) /\ DOMAIN r = 1 .. Len(s) - 1
    BY <1>1, <2>1, RemovedIs
  <2>3. ASSUME NEW k \in DOMAIN s, s[k][1] # n
        PROVE  \E j \in DOMAIN r : r[j] = s[k]
    <3>1. CASE k < x
      <4>1. k \in 1 .. Len(r) /\ k \in DOMAIN r
        BY <1>0, <2>1, <2>2, <3>1
      <4> QED BY <2>1, <3>1, <4>1
    <3>2. CASE k > x
      <4>1. k - 1 \in 1 .. Len(r) /\ k - 1 \in DOMAIN r /\ ~(k - 1 < x) /\ k - 1 + 1 = k
        BY <1>0, <2>1, <2>2, <3>2
      <4>2. r[k - 1] = s[k]
        BY <2>1, <4>1
      <4> QED BY <4>1, <4>2
    <3> QED BY <1>0, <2>1, <2>3, <3>1, <3>2
  <2> QED BY <2>2, <2>3
<1>2. CASE ~\E i \in 1 .. Len(s) : s[i][1] = n
  <2>1. r = s
    BY <1>2 DEF Removed, RemoveFirstMatch
  <2> QED BY <2>1
<1> QED BY <1>1, <1>2

\* Appending an entry leaves the old ones and adds the new one.
LEMMA AppendEntry ==
    ASSUME NEW S, NEW s \in Seq(S), NEW e \in S
    PROVE  /\ Append(s, e) \in Seq(S)
           /\ \A k \in DOMAIN s : \E j \in DOMAIN Append(s, e) : Append(s, e)[j] = s[k]
           /\ \E j \in DOMAIN Append(s, e) : Append(s, e)[j] = e
<1>1. /\ Append(s, e) \in Seq(S) /\ Len(Append(s, e)) = Len(s) + 1
      /\ \A k \in 1 .. Len(s) : Append(s, e)[k] = s[k]
      /\ Append(s, e)[Len(s) + 1] = e
  OBVIOUS
<1>2. /\ Len(s) \in Nat /\ DOMAIN s = 1 .. Len(s)
      /\ DOMAIN Append(s, e) = 1 .. Len(s) + 1
  BY <1>1
<1>3. /\ \A k \in 1 .. Len(s) : k \in 1 .. Len(s) + 1
      /\ Len(s) + 1 \in 1 .. Len(s) + 1
  BY <1>2
<1> QED BY <1>1, <1>2, <1>3

\* The steps of a path are names.
LEMMA ElementsOfPath == \A p \in Seq(Names) : \A k \in 1 .. Len(p) : p[k] \in Names
  OBVIOUS

\* A path and its last step.
LEMMA PathAndLast ==
    /\ \A d \in Seq(Names), n \in Names :
          Append(d, n) \in Seq(Names) /\ Append(d, n) # << >>
          /\ Front(Append(d, n)) = d /\ Last(Append(d, n)) = n
    /\ \A p \in Seq(Names) :
          p # << >> => /\ Front(p) \in Seq(Names) /\ Last(p) \in Names
                       /\ p = Append(Front(p), Last(p))
<1>1. ASSUME NEW d \in Seq(Names), NEW n \in Names
      PROVE  /\ Append(d, n) \in Seq(Names) /\ Append(d, n) # << >>
             /\ Front(Append(d, n)) = d /\ Last(Append(d, n)) = n
  <2>1. /\ Append(d, n) \in Seq(Names) /\ Len(Append(d, n)) = Len(d) + 1
        /\ Append(d, n)[Len(d) + 1] = n /\ \A k \in 1 .. Len(d) : Append(d, n)[k] = d[k]
    OBVIOUS
  <2>2. SubSeq(Append(d, n), 1, Len(d)) = d
    BY <2>1
  <2> QED BY <2>1, <2>2 DEF Front, Last
<1>2. ASSUME NEW p \in Seq(Names), p # << >>
      PROVE  /\ Front(p) \in Seq(Names) /\ Last(p) \in Names
             /\ p = Append(Front(p), Last(p))
  <2>1. Len(p) \in Nat \ {0}
    BY <1>2
  <2>2. /\ Front(p) \in Seq(Names) /\ Len(Front(p)) = Len(p) - 1
        /\ \A k \in 1 .. Len(p) - 1 : Front(p)[k] = p[k]
    <3>1. Len(p) - 1 \in 0 .. Len(p)
      BY <2>1
    <3>2. /\ SubSeq(p, 1, Len(p) - 1) \in Seq(Names)
          /\ Len(SubSeq(p, 1, Len(p) - 1)) = Len(p) - 1
      <4>1. Len(SubSeq(p, 1, Len(p) - 1)) = Len(p) - 1
        BY <2>1, <3>1
      <4>2. \A k \in 1 .. Len(p) - 1 : p[k] \in Names
        BY <2>1, ElementsOfPath
      <4>3. SubSeq(p, 1, Len(p) - 1) \in Seq(Names)
        BY <2>1, <3>1, <4>2
      <4> QED BY <4>1, <4>3
    <3>3. \A k \in 1 .. Len(p) - 1 : SubSeq(p, 1, Len(p) - 1)[k] = p[k]
      BY <2>1, <3>1
    <3> QED BY <3>2, <3>3 DEF Front
  <2>3. Last(p) \in Names
    BY <2>1, ElementsOfPath DEF Last
  <2>4. p = Append(Front(p), Last(p))
    BY <2>1, <2>2, <2>3 DEF Last
  <2> QED BY <2>2, <2>3, <2>4
<1> QED BY <1>1, <1>2

-----------------------------------------------------------------------------
\* Where a name's inode points to.
Addr(p) == inodes[nameToInum[p]].addr

\* Directories have blocks of their own, and none of them is a file's.
LEMMA BlocksOfNames ==
    ASSUME Sound
    PROVE  /\ \A d \in dirs : /\ Addr(d) \in dbitmap /\ Addr(d) \in Blocks
                              /\ data[Addr(d)].ftype = "d" /\ dirList(d) \in Seq(Entry)
           /\ \A c, d \in dirs : Addr(c) = Addr(d) => c = d
           /\ \A p \in files : \/ Addr(p) = -1
                               \/ Addr(p) \in Blocks /\ data[Addr(p)].ftype = "f"
<1>1. /\ inodes \in InodeTable
      /\ \A b \in Blocks : data[b].dirList \in Seq(Entry)
      /\ ibitmap \subseteq Inodes
  BY DEF Sound, FsckTypeOK, Entry
<1>2. \A i \in ibitmap : inodes[i].addr \in Blocks \cup {-1}
  BY <1>1
<1>3. \A d \in dirs : /\ nameToInum[d] \in ibitmap /\ Addr(d) \in Blocks
                     /\ data[Addr(d)].ftype = "d"
  <2> SUFFICES ASSUME NEW d \in dirs
               PROVE  /\ nameToInum[d] \in ibitmap /\ Addr(d) \in Blocks
                      /\ data[Addr(d)].ftype = "d"
    OBVIOUS
  <2>1. nameToInum[d] \in ibitmap /\ inodes[nameToInum[d]].ftype = "d"
    BY DEF Sound, KnownInv
  <2>2. IF Addr(d) = -1 THEN inodes[nameToInum[d]].ftype = "f"
        ELSE data[Addr(d)].ftype = inodes[nameToInum[d]].ftype
    BY <2>1 DEF Sound, BitmapsAgree, Addr
  <2> QED BY <1>2, <2>1, <2>2 DEF Addr
<1>4. -1 \notin Blocks
  BY DEF Blocks
<1>5. \A d \in dirs : Addr(d) \in dbitmap /\ dirList(d) \in Seq(Entry)
  BY <1>1, <1>3 DEF Sound, BitmapsAgree, Addr, dirList
<1>6. \A c, d \in dirs : Addr(c) = Addr(d) => c = d
  <2> SUFFICES ASSUME NEW c \in dirs, NEW d \in dirs, Addr(c) = Addr(d)
               PROVE  c = d
    OBVIOUS
  <2>1. nameToInum[c] = nameToInum[d]
    BY <1>3, <1>4 DEF Sound, BitmapsAgree, Addr
  <2> QED BY <2>1 DEF Sound, KnownInv
<1>7. \A p \in files : \/ Addr(p) = -1
                       \/ Addr(p) \in Blocks /\ data[Addr(p)].ftype = "f"
  <2> SUFFICES ASSUME NEW p \in files, Addr(p) # -1
               PROVE  Addr(p) \in Blocks /\ data[Addr(p)].ftype = "f"
    OBVIOUS
  <2>1. nameToInum[p] \in ibitmap /\ inodes[nameToInum[p]].ftype = "f"
    BY DEF Sound, KnownInv
  <2>2. data[Addr(p)].ftype = inodes[nameToInum[p]].ftype
    BY <2>1 DEF Sound, BitmapsAgree, Addr
  <2> QED BY <1>2, <2>1, <2>2 DEF Addr
<1> QED BY <1>3, <1>5, <1>6, <1>7

\* The same for the entries of a directory.
LEMMA AppendToList ==
    ASSUME NEW s \in Seq(Entry), NEW e \in Entry
    PROVE  /\ Append(s, e) \in Seq(Entry)
           /\ \A k \in DOMAIN s : \E j \in DOMAIN Append(s, e) : Append(s, e)[j] = s[k]
           /\ \E j \in DOMAIN Append(s, e) : Append(s, e)[j] = e
  BY AppendEntry

\* The same for removing the entry of a name.
LEMMA RemoveFromList ==
    ASSUME NEW s \in Seq(Entry), NEW n
    PROVE  /\ Removed(s, n) \in Seq(Entry)
           /\ \A k \in DOMAIN s :
                 s[k][1] # n => \E j \in DOMAIN Removed(s, n) : Removed(s, n)[j] = s[k]
<1>1. PICK r : r = Removed(s, n)
  OBVIOUS
<1> QED BY <1>1, RemoveEntry

\* The constants behind Inodes and Blocks do not change.
LEMMA SizesStay ==
    ASSUME Sound, UNCHANGED sizes
    PROVE  /\ numInodes' = numInodes /\ numData' = numData /\ first_fit' = first_fit
           /\ Inodes' = Inodes /\ Blocks' = Blocks /\ -1 \notin Blocks
           /\ <<numInodes, numData>>' \in Sizes /\ first_fit' \in BOOLEAN
<1>1. numInodes' = numInodes /\ numData' = numData /\ first_fit' = first_fit
  BY DEF sizes
<1>2. Inodes' = Inodes /\ Blocks' = Blocks /\ -1 \notin Blocks
  BY <1>1 DEF Inodes, Blocks
<1> QED BY <1>1, <1>2 DEF Sound, FsckTypeOK

\* A new name: createLink, create and mkdir alike.
LEMMA NewName ==
    ASSUME Sound, UNCHANGED sizes,
           NEW parent \in dirs, NEW n \in Names, NEW inum \in Inodes, MayEnter(parent, n),
           NEW p \in Seq(Names), p # << >>, Front(p) = parent, Last(p) = n,
           Remember(p, inum),
           dirs \subseteq dirs', files' \cup dirs' = files \cup dirs \cup {p},
           \A d \in dirs :
              /\ inodes'[nameToInum[d]].addr = Addr(d)
              /\ data'[Addr(d)].dirList = IF d = parent THEN Append(dirList(d), <<n, inum>>)
                                          ELSE dirList(d)
    PROVE  /\ p \notin files \cup dirs
           /\ nameToInum'[p] = inum
           /\ \A q \in files \cup dirs : nameToInum'[q] = nameToInum[q]
           /\ \A q \in files' \cup dirs' :
                 q # << >> => Front(q) \in dirs' /\ dirEntryExists(Front(q), Last(q))'
<1>3. p \notin files \cup dirs
  <2>1. ~dirEntryExists(parent, n)
    BY DEF MayEnter
  <2> QED BY <2>1 DEF Sound, KnownInv
<1>4. /\ nameToInum'[p] = inum
      /\ \A q \in files \cup dirs : nameToInum'[q] = nameToInum[q]
  <2>1. nameToInum' = [q \in files \cup dirs \cup {p} |-> IF q = p THEN inum ELSE nameToInum[q]]
    BY DEF Remember
  <2> QED BY <1>3, <2>1
<1>5. \A d \in dirs : dirList(d)' = IF d = parent THEN Append(dirList(d), <<n, inum>>)
                                    ELSE dirList(d)
  BY <1>4 DEF dirList
<1>6. ASSUME NEW d \in dirs, NEW m, dirEntryExists(d, m)
      PROVE  dirEntryExists(d, m)'
  <2>1. dirList(d) \in Seq(Entry)
    BY BlocksOfNames
  <2>2. <<n, inum>> \in Entry
    BY DEF Entry
  <2>3. \A k \in DOMAIN dirList(d) : \E j \in DOMAIN dirList(d)' : dirList(d)'[j] = dirList(d)[k]
    <3>1. CASE d = parent
      <4>1. \A k \in DOMAIN dirList(d) :
               \E j \in DOMAIN Append(dirList(d), <<n, inum>>) :
                  Append(dirList(d), <<n, inum>>)[j] = dirList(d)[k]
        BY <2>1, <2>2, AppendToList
      <4>2. dirList(d)' = Append(dirList(d), <<n, inum>>)
        BY <1>5, <3>1
      <4> QED BY <4>1, <4>2
    <3>2. CASE d # parent
      BY <1>5, <3>2
    <3> QED BY <3>1, <3>2
  <2> QED BY <1>6, <2>3 DEF dirEntryExists
<1>7. dirEntryExists(parent, n)'
  <2>1. dirList(parent) \in Seq(Entry) /\ <<n, inum>> \in Entry
    BY BlocksOfNames DEF Entry
  <2>2. \E j \in DOMAIN dirList(parent)' : dirList(parent)'[j] = <<n, inum>>
    <3>1. \E j \in DOMAIN Append(dirList(parent), <<n, inum>>) :
             Append(dirList(parent), <<n, inum>>)[j] = <<n, inum>>
      BY <2>1, AppendToList
    <3>2. dirList(parent)' = Append(dirList(parent), <<n, inum>>)
      BY <1>5
    <3> QED BY <3>1, <3>2
  <2> QED BY <2>2 DEF dirEntryExists
<1>8. ASSUME NEW q \in files' \cup dirs', q # << >>
      PROVE  Front(q) \in dirs' /\ dirEntryExists(Front(q), Last(q))'
  <2>1. CASE q = p
    BY <1>7, <2>1
  <2>2. CASE q \in files \cup dirs
    <3>1. Front(q) \in dirs /\ dirEntryExists(Front(q), Last(q))
      BY <1>8, <2>2 DEF Sound, KnownInv
    <3> QED BY <1>6, <3>1
  <2>3. q = p \/ q \in files \cup dirs
    OBVIOUS
  <2> QED BY <2>1, <2>2, <2>3
<1> QED BY <1>3, <1>4, <1>8

\* addDirEntry changes nothing but one list.
LEMMA AddingEntry ==
    ASSUME Sound, NEW parent \in dirs, NEW n \in Names, NEW inum \in Inodes,
           data' = addDirEntry(data, parent, n, inum)
    PROVE  /\ \A d \in dirs :
                 data'[Addr(d)].dirList = IF d = parent THEN Append(dirList(d), <<n, inum>>)
                                          ELSE dirList(d)
           /\ \A b \in Blocks : data'[b].ftype = data[b].ftype
           /\ data' \in BlockTable
<1>1. data \in BlockTable
  BY DEF Sound, FsckTypeOK, Entry
<1>2. data' = [data EXCEPT ![Addr(parent)].dirList = Append(@, <<n, inum>>)]
  BY DEF addDirEntry, Addr
<1>3. Addr(parent) \in Blocks /\ \A d \in dirs : Addr(d) \in Blocks
  BY BlocksOfNames
<1>4. \A d \in dirs : Addr(d) = Addr(parent) => d = parent
  BY BlocksOfNames
<1>5. \A d \in dirs : dirList(d) = data[Addr(d)].dirList
  BY DEF dirList, Addr
<1>6. Append(data[Addr(parent)].dirList, <<n, inum>>) \in Seq(Entry)
  <2>1. data[Addr(parent)].dirList \in Seq(Entry) /\ <<n, inum>> \in Entry
    BY <1>1, <1>3 DEF Entry
  <2> QED BY <2>1, AppendToList
<1> DEFINE longer == Append(data[Addr(parent)].dirList, <<n, inum>>)
<1>7. data' = [data EXCEPT ![Addr(parent)] = [data[Addr(parent)] EXCEPT !.dirList = longer]]
  BY <1>1, <1>2, <1>3
<1>8. longer \in Seq(Entry)
  BY <1>6
<1> HIDE DEF longer
<1>9. /\ data' \in BlockTable
      /\ \A b \in Blocks : data'[b].ftype = data[b].ftype
    <2>1. data[Addr(parent)] \in Block
    BY <1>1, <1>3
  <2>2. [data[Addr(parent)] EXCEPT !.dirList = longer] \in Block
    BY <2>1, <1>8
  <2>3. [data[Addr(parent)] EXCEPT !.dirList = longer].ftype = data[Addr(parent)].ftype
    BY <2>1
  <2> HIDE DEF Block
  <2>4. data' \in BlockTable
    BY <1>1, <1>3, <1>7, <2>2 DEF Block
  <2>5. \A b \in Blocks : data'[b].ftype = data[b].ftype
    BY <1>1, <1>3, <1>7, <2>3
  <2> QED BY <2>4, <2>5 DEF Block
<1>10. \A d \in dirs : data'[Addr(d)].dirList = IF d = parent THEN longer ELSE data[Addr(d)].dirList
  BY <1>1, <1>3, <1>4, <1>7
<1> QED BY <1>5, <1>9, <1>10 DEF longer

-----------------------------------------------------------------------------
\* Typing of what a request leaves behind besides the disk.
LEMMA TypesAfter ==
    ASSUME Sound, Done, UNCHANGED corruption,
           ibitmap' \subseteq Inodes, dbitmap' \subseteq Blocks, dirs' # {},
           inodes' \in InodeTable,
           data' \in BlockTable,
           nameToInum' \in [files' \cup dirs' -> Inodes]
    PROVE  FsckTypeOK'
<1>1. /\ Inodes' = Inodes /\ Blocks' = Blocks
      /\ <<numInodes, numData>>' \in Sizes /\ first_fit' \in BOOLEAN
  BY SizesStay DEF Done
<1>2. phase' \in {"run", "exit"}
  BY DEF Done
<1>3. corruption' \in -1 .. 11
  BY DEF Sound, FsckTypeOK
<1> QED BY <1>1, <1>2, <1>3 DEF FsckTypeOK, Entry

\* The bitmaps go on to agree when types, blocks and bits stay as they are.
LEMMA SameShape ==
    ASSUME Sound, UNCHANGED <<sizes, ibitmap, dbitmap>>,
           \A i \in Inodes : inodes'[i].ftype = inodes[i].ftype /\ inodes'[i].addr = inodes[i].addr,
           \A b \in Blocks : data'[b].ftype = data[b].ftype
    PROVE  BitmapsAgree'
<1>1. Inodes' = Inodes /\ Blocks' = Blocks /\ -1 \notin Blocks
  BY SizesStay
<1>2. \A i \in ibitmap : i \in Inodes /\ inodes[i].addr \in Blocks \cup {-1}
  BY DEF Sound, FsckTypeOK
<1>3. BitmapsAgree /\ ibitmap' = ibitmap /\ dbitmap' = dbitmap
  BY DEF Sound
<1>4. \A i \in Inodes : i \in ibitmap' <=> inodes'[i].ftype # "free"
  BY <1>3 DEF BitmapsAgree
<1>5. \A b \in Blocks : b \in dbitmap' <=> data'[b].ftype # "free"
  BY <1>3 DEF BitmapsAgree
<1>6. \A b \in Blocks : b \in dbitmap' <=> \E i \in ibitmap' : inodes'[i].addr = b
  BY <1>2, <1>3 DEF BitmapsAgree
<1>7. \A i, j \in ibitmap' : inodes'[i].addr = inodes'[j].addr => i = j \/ inodes'[i].addr = -1
  BY <1>2, <1>3 DEF BitmapsAgree
<1>8. \A i \in ibitmap' : IF inodes'[i].addr = -1 THEN inodes'[i].ftype = "f"
                          ELSE data'[inodes'[i].addr].ftype = inodes'[i].ftype
  BY <1>2, <1>3 DEF BitmapsAgree
<1> QED BY <1>1, <1>4, <1>5, <1>6, <1>7, <1>8 DEF BitmapsAgree

\* createLink adds a name and counts it.
LEMMA CreateLinkSound ==
    ASSUME Sound, Done, UNCHANGED corruption,
           NEW target \in files, NEW parent \in dirs, NEW n \in Names,
           createLink(target, parent, n)
    PROVE  Sound'
<1>0. PICK inum, p : inum = nameToInum[target] /\ p = Append(parent, n)
  OBVIOUS
<1>1. inum \in ibitmap /\ inum \in Inodes /\ inodes[inum].ftype = "f"
  BY <1>0 DEF Sound, FsckTypeOK, KnownInv
<1>2. /\ MayEnter(parent, n)
      /\ inodes' = [inodes EXCEPT ![inum].refCnt = @ + 1]
      /\ data' = addDirEntry(data, parent, n, inum)
      /\ files' = files \cup {p}
      /\ Remember(p, inum)
      /\ ibitmap' = ibitmap /\ dbitmap' = dbitmap /\ dirs' = dirs
  BY <1>0 DEF createLink
<1>3. inodes \in InodeTable
  BY DEF Sound, FsckTypeOK
<1>4. /\ inodes' \in InodeTable
      /\ \A i \in Inodes : inodes'[i].ftype = inodes[i].ftype /\ inodes'[i].addr = inodes[i].addr
      /\ \A i \in Inodes : inodes'[i].refCnt = IF i = inum THEN inodes[i].refCnt + 1
                                               ELSE inodes[i].refCnt
  BY <1>1, <1>2, <1>3
<1>5. /\ \A d \in dirs :
            data'[Addr(d)].dirList = IF d = parent THEN Append(dirList(d), <<n, inum>>)
                                     ELSE dirList(d)
      /\ \A b \in Blocks : data'[b].ftype = data[b].ftype
      /\ data' \in BlockTable
  BY <1>1, <1>2, AddingEntry
<1>6. UNCHANGED sizes /\ Inodes' = Inodes /\ Blocks' = Blocks /\ -1 \notin Blocks
  BY SizesStay DEF Done
<1>7. \A d \in dirs : inodes'[nameToInum[d]].addr = Addr(d)
  BY <1>4 DEF Sound, FsckTypeOK, Addr
<1>8. /\ p \in Seq(Names) /\ p # << >> /\ p \notin files \cup dirs
      /\ nameToInum' \in [files' \cup dirs' -> Inodes]
      /\ nameToInum'[p] = inum
      /\ \A q \in files \cup dirs : nameToInum'[q] = nameToInum[q]
      /\ \A q \in files' \cup dirs' :
            q # << >> => Front(q) \in dirs' /\ dirEntryExists(Front(q), Last(q))'
  <2>1. files' \cup dirs' = files \cup dirs \cup {p} /\ dirs \subseteq dirs'
    BY <1>2
  <2>2. parent \in Seq(Names)
    BY DEF Sound, KnownInv
  <2>3. p \in Seq(Names) /\ p # << >> /\ Front(p) = parent /\ Last(p) = n
    BY <1>0, <2>2, PathAndLast
  <2>4. /\ p \notin files \cup dirs
        /\ nameToInum' \in [files' \cup dirs' -> Inodes]
        /\ nameToInum'[p] = inum
        /\ \A q \in files \cup dirs : nameToInum'[q] = nameToInum[q]
    <3>1. p \notin files \cup dirs
      BY <1>1, <1>2, <1>5, <1>6, <1>7, <2>1, <2>3, NewName
    <3>2. nameToInum' \in [files' \cup dirs' -> Inodes]
      BY <1>1, <1>2, <2>1 DEF Remember, Sound, FsckTypeOK
    <3>3. nameToInum'[p] = inum
      BY <1>1, <1>2, <1>5, <1>6, <1>7, <2>1, <2>3, NewName
    <3>4. \A q \in files \cup dirs : nameToInum'[q] = nameToInum[q]
      BY <1>1, <1>2, <1>5, <1>6, <1>7, <2>1, <2>3, NewName
    <3> QED BY <3>1, <3>2, <3>3, <3>4
  <2>5. \A q \in files' \cup dirs' :
            q # << >> => Front(q) \in dirs' /\ dirEntryExists(Front(q), Last(q))'
    BY <1>1, <1>2, <1>5, <1>6, <1>7, <2>1, <2>3, NewName
  <2> QED BY <2>3, <2>4, <2>5
<1>9. FsckTypeOK'
  <2>1. ibitmap' \subseteq Inodes /\ dbitmap' \subseteq Blocks /\ dirs' # {}
    BY <1>2 DEF Sound, FsckTypeOK
  <2> QED BY <1>4, <1>5, <1>8, <2>1, TypesAfter
<1>10. BitmapsAgree'
  BY <1>2, <1>4, <1>5, SameShape DEF Done
<1>11. KnownInv'
  <2>1. /\ files' \subseteq Seq(Names) /\ dirs' \subseteq Seq(Names)
        /\ IsFiniteSet(files') /\ << >> \notin files'
    BY <1>2, <1>8, FS_AddElement DEF Sound, KnownInv
  <2>2. \A q \in files' : nameToInum'[q] \in ibitmap' /\ inodes'[nameToInum'[q]].ftype = "f"
    BY <1>1, <1>2, <1>4, <1>8 DEF Sound, FsckTypeOK, KnownInv
  <2>3. \A d \in dirs' : nameToInum'[d] \in ibitmap' /\ inodes'[nameToInum'[d]].ftype = "d"
    BY <1>2, <1>4, <1>8 DEF Sound, FsckTypeOK, KnownInv
  <2>4. \A c, d \in dirs' : nameToInum'[c] = nameToInum'[d] => c = d
    BY <1>2, <1>8 DEF Sound, KnownInv
  <2>5. ASSUME NEW i \in ibitmap', inodes'[i].ftype = "f"
        PROVE  inodes'[i].refCnt = Cardinality(NamesOf(i)')
    <3>1. i \in ibitmap /\ i \in Inodes /\ inodes[i].ftype = "f"
      BY <1>2, <1>4, <2>5 DEF Sound, FsckTypeOK
    <3>2. inodes[i].refCnt = Cardinality(NamesOf(i)) /\ IsFiniteSet(NamesOf(i))
      <4>1. NamesOf(i) \in SUBSET files
        BY DEF NamesOf
      <4> QED BY <3>1, <4>1, FS_Subset DEF Sound, KnownInv
    <3>3. NamesOf(i)' = IF i = inum THEN NamesOf(i) \cup {p} ELSE NamesOf(i)
      BY <1>2, <1>8 DEF NamesOf
    <3>4. p \notin NamesOf(i)
      BY <1>8 DEF NamesOf
    <3>5. CASE i = inum
      <4>1. Cardinality(NamesOf(i) \cup {p}) = Cardinality(NamesOf(i)) + 1
        BY <3>2, <3>4, FS_AddElement
      <4>2. inodes'[i].refCnt = inodes[i].refCnt + 1
        BY <1>4, <3>1, <3>5
      <4> QED BY <3>2, <3>3, <3>5, <4>1, <4>2
    <3>6. CASE i # inum
      BY <1>4, <3>1, <3>2, <3>3, <3>6
    <3> QED BY <3>5, <3>6
  <2> QED BY <1>8, <2>1, <2>2, <2>3, <2>4, <2>5 DEF KnownInv
<1> QED BY <1>9, <1>10, <1>11 DEF Sound

\* What bitmap.alloc gives out was free.
LEMMA Allocated ==
    ASSUME NEW bitmap, NEW numbers, NEW n \in alloc(bitmap, numbers)
    PROVE  n \in numbers /\ n \notin bitmap
  BY DEF alloc

\* A new file takes a free inode, which no name led to, and no block.
LEMMA CreateSound ==
    ASSUME Sound, Done, UNCHANGED corruption, NEW parent \in dirs, NEW n \in Names,
           create(parent, n)
    PROVE  Sound'
<1>1. PICK inum \in Inodes :
         /\ inum \notin ibitmap
         /\ ibitmap' = ibitmap \cup {inum}
         /\ inodes' = [inodes EXCEPT ![inum] = [ftype |-> "f", addr |-> -1, refCnt |-> 1]]
         /\ data' = addDirEntry(data, parent, n, inum)
         /\ files' = files \cup {Append(parent, n)}
         /\ Remember(Append(parent, n), inum)
  BY Allocated DEF create
<1>2. PICK p : p = Append(parent, n)
  OBVIOUS
<1>3. /\ MayEnter(parent, n) /\ Remember(p, inum)
      /\ files' = files \cup {p} /\ dirs' = dirs /\ dbitmap' = dbitmap
  BY <1>1, <1>2 DEF create
<1>4. /\ inodes \in InodeTable
      /\ ibitmap \subseteq Inodes
  BY DEF Sound, FsckTypeOK
<1>5. /\ inodes' \in InodeTable
      /\ \A i \in Inodes : i # inum => inodes'[i] = inodes[i]
      /\ inodes'[inum].ftype = "f" /\ inodes'[inum].addr = -1 /\ inodes'[inum].refCnt = 1
  BY <1>1, <1>4
<1>6. /\ \A d \in dirs :
            data'[Addr(d)].dirList = IF d = parent THEN Append(dirList(d), <<n, inum>>)
                                     ELSE dirList(d)
      /\ \A b \in Blocks : data'[b].ftype = data[b].ftype
      /\ data' \in BlockTable
  BY <1>1, AddingEntry
<1>7. UNCHANGED sizes /\ Inodes' = Inodes /\ Blocks' = Blocks /\ -1 \notin Blocks
  BY SizesStay DEF Done
<1>8. /\ \A q \in files \cup dirs : nameToInum[q] \in ibitmap /\ nameToInum[q] # inum
      /\ \A d \in dirs : inodes'[nameToInum[d]].addr = Addr(d)
  <2>1. \A q \in files \cup dirs : nameToInum[q] \in ibitmap
    BY DEF Sound, KnownInv
  <2> QED BY <1>1, <1>4, <1>5, <2>1 DEF Addr
<1>9. /\ p \in Seq(Names) /\ p # << >> /\ p \notin files \cup dirs
      /\ nameToInum' \in [files' \cup dirs' -> Inodes]
      /\ nameToInum'[p] = inum
      /\ \A q \in files \cup dirs : nameToInum'[q] = nameToInum[q]
      /\ \A q \in files' \cup dirs' :
            q # << >> => Front(q) \in dirs' /\ dirEntryExists(Front(q), Last(q))'
  <2>1. files' \cup dirs' = files \cup dirs \cup {p} /\ dirs \subseteq dirs'
    BY <1>3
  <2>2. parent \in Seq(Names)
    BY DEF Sound, KnownInv
  <2>3. p \in Seq(Names) /\ p # << >> /\ Front(p) = parent /\ Last(p) = n
    BY <1>2, <2>2, PathAndLast
  <2>4. nameToInum' \in [files' \cup dirs' -> Inodes]
    BY <1>3, <2>1 DEF Remember, Sound, FsckTypeOK
  <2>5. p \notin files \cup dirs
    BY <1>3, <1>6, <1>7, <1>8, <2>1, <2>3, NewName
  <2>6. nameToInum'[p] = inum
    BY <1>3, <1>6, <1>7, <1>8, <2>1, <2>3, NewName
  <2>7. \A q \in files \cup dirs : nameToInum'[q] = nameToInum[q]
    BY <1>3, <1>6, <1>7, <1>8, <2>1, <2>3, NewName
  <2>8. \A q \in files' \cup dirs' :
            q # << >> => Front(q) \in dirs' /\ dirEntryExists(Front(q), Last(q))'
    BY <1>3, <1>6, <1>7, <1>8, <2>1, <2>3, NewName
  <2> QED BY <2>3, <2>4, <2>5, <2>6, <2>7, <2>8
<1>10. FsckTypeOK'
  <2>1. ibitmap' \subseteq Inodes /\ dbitmap' \subseteq Blocks /\ dirs' # {}
    BY <1>1, <1>3 DEF Sound, FsckTypeOK
  <2> QED BY <1>5, <1>6, <1>9, <2>1, TypesAfter
<1>11. BitmapsAgree'
  <2>1. /\ BitmapsAgree /\ ibitmap' = ibitmap \cup {inum} /\ dbitmap' = dbitmap
        /\ \A i \in ibitmap : /\ i \in Inodes /\ inodes[i].addr \in Blocks \cup {-1}
                              /\ inodes'[i] = inodes[i]
    BY <1>1, <1>3, <1>4, <1>5 DEF Sound
  <2>2. \A i \in Inodes : i \in ibitmap' <=> inodes'[i].ftype # "free"
    BY <1>5, <2>1 DEF BitmapsAgree
  <2>3. \A b \in Blocks : b \in dbitmap' <=> data'[b].ftype # "free"
    BY <1>6, <2>1 DEF BitmapsAgree
  <2>4. \A b \in Blocks : b \in dbitmap' <=> \E i \in ibitmap' : inodes'[i].addr = b
    BY <1>5, <1>7, <2>1 DEF BitmapsAgree
  <2>5. \A i, j \in ibitmap' : inodes'[i].addr = inodes'[j].addr => i = j \/ inodes'[i].addr = -1
    BY <1>5, <2>1 DEF BitmapsAgree
  <2>6. \A i \in ibitmap' : IF inodes'[i].addr = -1 THEN inodes'[i].ftype = "f"
                            ELSE data'[inodes'[i].addr].ftype = inodes'[i].ftype
    BY <1>5, <1>6, <2>1 DEF BitmapsAgree
  <2> QED BY <1>7, <2>2, <2>3, <2>4, <2>5, <2>6 DEF BitmapsAgree
<1>12. KnownInv'
  <2>1. /\ files' \subseteq Seq(Names) /\ dirs' \subseteq Seq(Names)
        /\ IsFiniteSet(files') /\ << >> \notin files'
    BY <1>3, <1>9, FS_AddElement DEF Sound, KnownInv
  <2>2. \A q \in files' : nameToInum'[q] \in ibitmap' /\ inodes'[nameToInum'[q]].ftype = "f"
    BY <1>1, <1>3, <1>4, <1>5, <1>8, <1>9 DEF Sound, KnownInv
  <2>3. \A d \in dirs' : nameToInum'[d] \in ibitmap' /\ inodes'[nameToInum'[d]].ftype = "d"
    BY <1>1, <1>3, <1>4, <1>5, <1>8, <1>9 DEF Sound, KnownInv
  <2>4. \A c, d \in dirs' : nameToInum'[c] = nameToInum'[d] => c = d
    BY <1>3, <1>9 DEF Sound, KnownInv
  <2>5. ASSUME NEW i \in ibitmap', inodes'[i].ftype = "f"
        PROVE  inodes'[i].refCnt = Cardinality(NamesOf(i)')
    <3>1. CASE i = inum
      <4>1. NamesOf(i)' = {p}
        BY <1>3, <1>8, <1>9, <3>1 DEF NamesOf
      <4> QED BY <1>5, <3>1, <4>1, FS_Singleton
    <3>2. CASE i # inum
      <4>1. i \in ibitmap /\ inodes'[i] = inodes[i]
        BY <1>1, <1>4, <1>5, <2>5, <3>2
      <4>2. NamesOf(i)' = NamesOf(i)
        BY <1>3, <1>8, <1>9, <3>2 DEF NamesOf
      <4> QED BY <2>5, <4>1, <4>2 DEF Sound, KnownInv
    <3> QED BY <3>1, <3>2
  <2> QED BY <1>9, <2>1, <2>2, <2>3, <2>4, <2>5 DEF KnownInv
<1> QED BY <1>10, <1>11, <1>12 DEF Sound

\* The blocks that the code writes anew are blocks.
LEMMA FreshBlocks ==
    ASSUME NEW i \in Inodes, NEW j \in Inodes
    PROVE  /\ FreeBlock \in Block
           /\ DirBlock(i, j) \in Block
           /\ DirBlock(i, j).ftype = "d"
<1>1. << <<".", i>>, <<"..", j>> >> \in Seq(Entry)
  BY DEF Entry
<1>2. FreeBlock \in Block
  BY DEF FreeBlock
<1>3. DirBlock(i, j) \in Block /\ DirBlock(i, j).ftype = "d"
  BY <1>1 DEF DirBlock, FreeBlock
<1> QED BY <1>2, <1>3

\* A new directory takes a free inode and a free block, which no inode had.
LEMMA MkdirSound ==
    ASSUME Sound, Done, UNCHANGED corruption, NEW parent \in dirs, NEW n \in Names,
           mkdir(parent, n)
    PROVE  Sound'
<1>1. PICK pinum : pinum = nameToInum[parent]
  OBVIOUS
<1>2. PICK inum \in Inodes, block \in Blocks :
         /\ inum \notin ibitmap /\ block \notin dbitmap
         /\ ibitmap' = ibitmap \cup {inum} /\ dbitmap' = dbitmap \cup {block}
         /\ inodes' = [inodes EXCEPT ![inum] = [ftype |-> "d", addr |-> block, refCnt |-> 2],
                                     ![pinum].refCnt = @ + 1]
         /\ data' = addDirEntry([data EXCEPT ![block] = DirBlock(inum, pinum)], parent, n, inum)
         /\ dirs' = dirs \cup {Append(parent, n)}
         /\ Remember(Append(parent, n), inum)
  BY <1>1, Allocated DEF mkdir
<1>3. PICK p : p = Append(parent, n)
  OBVIOUS
<1>4. /\ MayEnter(parent, n) /\ Remember(p, inum)
      /\ dirs' = dirs \cup {p} /\ files' = files
  BY <1>2, <1>3 DEF mkdir
<1>5. /\ inodes \in InodeTable
      /\ ibitmap \subseteq Inodes
      /\ data \in BlockTable
  BY DEF Sound, FsckTypeOK, Entry
<1>6. /\ pinum \in ibitmap /\ pinum \in Inodes /\ pinum # inum /\ inodes[pinum].ftype = "d"
      /\ \A q \in files \cup dirs : nameToInum[q] \in ibitmap /\ nameToInum[q] # inum
  BY <1>1, <1>2, <1>5 DEF Sound, KnownInv
<1>7. /\ inodes' \in InodeTable
      /\ \A i \in Inodes : i # inum => inodes'[i].ftype = inodes[i].ftype
                                       /\ inodes'[i].addr = inodes[i].addr
      /\ \A i \in Inodes : i # inum /\ i # pinum => inodes'[i] = inodes[i]
      /\ inodes'[inum].ftype = "d" /\ inodes'[inum].addr = block
  <2> DEFINE child == [ftype |-> "d", addr |-> block, refCnt |-> 2]
             up    == [inodes[pinum] EXCEPT !.refCnt = @ + 1]
  <2>1. child \in Inode /\ up \in Inode
    <3>1. child \in Inode
      OBVIOUS
    <3>2. inodes[pinum] \in Inode
      BY <1>5, <1>6
    <3> QED BY <3>1, <3>2
  <2>2. inodes' = [i \in Inodes |-> IF i = inum THEN child ELSE IF i = pinum THEN up
                                    ELSE inodes[i]]
    BY <1>2, <1>5, <1>6
  <2>3. child.ftype = "d" /\ child.addr = block
    OBVIOUS
  <2>4. up.ftype = inodes[pinum].ftype /\ up.addr = inodes[pinum].addr
    BY <1>5, <1>6
  <2> HIDE DEF child, up
  <2>5. inodes' \in InodeTable
    BY <1>5, <2>1, <2>2
  <2>6. \A i \in Inodes : i # inum => inodes'[i].ftype = inodes[i].ftype
                                      /\ inodes'[i].addr = inodes[i].addr
    BY <2>2, <2>4
  <2>7. \A i \in Inodes : i # inum /\ i # pinum => inodes'[i] = inodes[i]
    BY <2>2
  <2>8. inodes'[inum].ftype = "d" /\ inodes'[inum].addr = block
    BY <2>2, <2>3
  <2> QED BY <2>5, <2>6, <2>7, <2>8
<1>8. UNCHANGED sizes /\ Inodes' = Inodes /\ Blocks' = Blocks /\ -1 \notin Blocks
  BY SizesStay DEF Done
<1>9. /\ \A d \in dirs : Addr(d) \in Blocks /\ Addr(d) # block
      /\ \A d \in dirs : inodes'[nameToInum[d]].addr = Addr(d)
  <2>1. \A d \in dirs : Addr(d) \in Blocks /\ Addr(d) # block
    BY <1>2, BlocksOfNames
  <2> QED BY <1>5, <1>6, <1>7, <2>1 DEF Addr
<1>10. /\ \A d \in dirs :
             data'[Addr(d)].dirList = IF d = parent THEN Append(dirList(d), <<n, inum>>)
                                      ELSE dirList(d)
       /\ \A b \in Blocks : b # block => data'[b].ftype = data[b].ftype
       /\ data'[block].ftype = "d"
       /\ data' \in BlockTable
  <2> DEFINE new == DirBlock(inum, pinum)
             old == data[Addr(parent)]
             lst == Append(old.dirList, <<n, inum>>)
             upd == [old EXCEPT !.dirList = lst]
  <2>1. new \in Block /\ new.ftype = "d"
    BY <1>6, FreshBlocks
  <2>2. old \in Block
    BY <1>5, <1>9
  <2>3. lst \in Seq(Entry)
    <3>1. old.dirList \in Seq(Entry) /\ <<n, inum>> \in Entry
      BY <2>2 DEF Entry
    <3> QED BY <3>1, AppendToList
  <2>4. data' = [[data EXCEPT ![block] = new] EXCEPT ![Addr(parent)] = upd]
    <3>1. [data EXCEPT ![block] = new][Addr(parent)] = old
      BY <1>5, <1>9
    <3> QED BY <1>2, <1>5, <1>9, <3>1 DEF addDirEntry, Addr
  <2>5. \A d \in dirs : dirList(d) = data[Addr(d)].dirList
    BY DEF dirList, Addr
  <2> HIDE DEF new, lst
  <2>6. upd \in Block /\ upd.ftype = old.ftype /\ upd.dirList = lst
    BY <2>2, <2>3
  <2> HIDE DEF upd, old
  <2>7. \A b \in Blocks : data'[b] = IF b = Addr(parent) THEN upd
                                     ELSE IF b = block THEN new ELSE data[b]
    BY <1>5, <1>9, <2>4
  <2>8. data' \in BlockTable
    <3> HIDE DEF Block
    <3>1. data \in BlockTable
      BY <1>5 DEF Block
    <3> QED BY <1>9, <2>1, <2>4, <2>6, <3>1
  <2>9. \A d \in dirs : Addr(d) = Addr(parent) => d = parent
    BY BlocksOfNames
  <2>10. \A d \in dirs : data'[Addr(d)].dirList = IF d = parent THEN lst ELSE dirList(d)
    BY <1>9, <2>5, <2>6, <2>7, <2>9
  <2>11. lst = Append(dirList(parent), <<n, inum>>)
    BY <2>5 DEF lst, old
  <2>12. /\ \A b \in Blocks : b # block => data'[b].ftype = data[b].ftype
         /\ data'[block].ftype = "d"
    BY <1>9, <2>1, <2>6, <2>7 DEF old
  <2> QED BY <2>8, <2>10, <2>11, <2>12
<1>11. /\ p \in Seq(Names) /\ p # << >> /\ p \notin files \cup dirs
       /\ nameToInum' \in [files' \cup dirs' -> Inodes]
       /\ nameToInum'[p] = inum
       /\ \A q \in files \cup dirs : nameToInum'[q] = nameToInum[q]
       /\ \A q \in files' \cup dirs' :
             q # << >> => Front(q) \in dirs' /\ dirEntryExists(Front(q), Last(q))'
  <2>1. files' \cup dirs' = files \cup dirs \cup {p} /\ dirs \subseteq dirs'
    BY <1>4
  <2>2. parent \in Seq(Names)
    BY DEF Sound, KnownInv
  <2>3. p \in Seq(Names) /\ p # << >> /\ Front(p) = parent /\ Last(p) = n
    BY <1>3, <2>2, PathAndLast
  <2>4. nameToInum' \in [files' \cup dirs' -> Inodes]
    BY <1>4, <2>1 DEF Remember, Sound, FsckTypeOK
  <2>5. p \notin files \cup dirs
    BY <1>4, <1>8, <1>9, <1>10, <2>1, <2>3, NewName
  <2>6. nameToInum'[p] = inum
    BY <1>4, <1>8, <1>9, <1>10, <2>1, <2>3, NewName
  <2>7. \A q \in files \cup dirs : nameToInum'[q] = nameToInum[q]
    BY <1>4, <1>8, <1>9, <1>10, <2>1, <2>3, NewName
  <2>8. \A q \in files' \cup dirs' :
            q # << >> => Front(q) \in dirs' /\ dirEntryExists(Front(q), Last(q))'
    BY <1>4, <1>8, <1>9, <1>10, <2>1, <2>3, NewName
  <2> QED BY <2>3, <2>4, <2>5, <2>6, <2>7, <2>8
<1>12. FsckTypeOK'
  <2>1. ibitmap' \subseteq Inodes /\ dbitmap' \subseteq Blocks /\ dirs' # {}
    BY <1>2, <1>4 DEF Sound, FsckTypeOK
  <2> QED BY <1>7, <1>10, <1>11, <2>1, TypesAfter
<1>13. BitmapsAgree'
  <2>1. /\ BitmapsAgree /\ ibitmap' = ibitmap \cup {inum} /\ dbitmap' = dbitmap \cup {block}
        /\ \A i \in ibitmap : /\ i \in Inodes /\ inodes[i].addr \in Blocks \cup {-1}
                              /\ inodes'[i].ftype = inodes[i].ftype
                              /\ inodes'[i].addr = inodes[i].addr
    BY <1>2, <1>5, <1>7 DEF Sound
  <2>2. \A i \in ibitmap : inodes[i].addr # block
    BY <1>2, <2>1 DEF BitmapsAgree
  <2>3. \A i \in Inodes : i \in ibitmap' <=> inodes'[i].ftype # "free"
    BY <1>7, <2>1 DEF BitmapsAgree
  <2>4. \A b \in Blocks : b \in dbitmap' <=> data'[b].ftype # "free"
    BY <1>10, <2>1 DEF BitmapsAgree
  <2>5. \A b \in Blocks : b \in dbitmap' <=> \E i \in ibitmap' : inodes'[i].addr = b
    BY <1>7, <1>8, <2>1 DEF BitmapsAgree
  <2>6. \A i, j \in ibitmap' : inodes'[i].addr = inodes'[j].addr => i = j \/ inodes'[i].addr = -1
    BY <1>7, <2>1, <2>2 DEF BitmapsAgree
  <2>7. \A i \in ibitmap' : IF inodes'[i].addr = -1 THEN inodes'[i].ftype = "f"
                            ELSE data'[inodes'[i].addr].ftype = inodes'[i].ftype
    <3>1. \A i \in ibitmap : IF inodes[i].addr = -1 THEN inodes[i].ftype = "f"
                             ELSE data[inodes[i].addr].ftype = inodes[i].ftype
      BY <2>1 DEF BitmapsAgree
    <3>2. \A i \in ibitmap : IF inodes'[i].addr = -1 THEN inodes'[i].ftype = "f"
                             ELSE data'[inodes'[i].addr].ftype = inodes'[i].ftype
      BY <1>10, <2>1, <2>2, <3>1
    <3>3. inodes'[inum].addr # -1 /\ data'[inodes'[inum].addr].ftype = inodes'[inum].ftype
      BY <1>7, <1>8, <1>10
    <3> QED BY <2>1, <3>2, <3>3
  <2> QED BY <1>8, <2>3, <2>4, <2>5, <2>6, <2>7 DEF BitmapsAgree
<1>14. KnownInv'
  <2>1. /\ files' \subseteq Seq(Names) /\ dirs' \subseteq Seq(Names)
        /\ IsFiniteSet(files') /\ << >> \notin files'
    BY <1>4, <1>11 DEF Sound, KnownInv
  <2>2. \A q \in files' : nameToInum'[q] \in ibitmap' /\ inodes'[nameToInum'[q]].ftype = "f"
    <3>1. \A q \in files : /\ nameToInum[q] \in ibitmap /\ nameToInum[q] # inum
                           /\ inodes[nameToInum[q]].ftype = "f"
      BY <1>6 DEF Sound, KnownInv
    <3>2. \A q \in files : nameToInum[q] \in Inodes /\ nameToInum'[q] = nameToInum[q]
      BY <1>5, <1>6, <1>11
    <3> QED BY <1>2, <1>4, <1>7, <3>1, <3>2
  <2>3. \A d \in dirs' : nameToInum'[d] \in ibitmap' /\ inodes'[nameToInum'[d]].ftype = "d"
    <3>1. \A d \in dirs : /\ nameToInum[d] \in ibitmap /\ nameToInum[d] # inum
                          /\ inodes[nameToInum[d]].ftype = "d"
      BY <1>6 DEF Sound, KnownInv
    <3>2. \A d \in dirs : nameToInum[d] \in Inodes /\ nameToInum'[d] = nameToInum[d]
      BY <1>5, <1>6, <1>11
    <3>3. nameToInum'[p] = inum
      BY <1>11
    <3> QED BY <1>2, <1>4, <1>7, <3>1, <3>2, <3>3
  <2>4. \A c, d \in dirs' : nameToInum'[c] = nameToInum'[d] => c = d
    BY <1>4, <1>6, <1>11 DEF Sound, KnownInv
  <2>5. ASSUME NEW i \in ibitmap', inodes'[i].ftype = "f"
        PROVE  inodes'[i].refCnt = Cardinality(NamesOf(i)')
    <3>1. i # inum /\ i \in ibitmap /\ i \in Inodes
      BY <1>2, <1>5, <1>7, <2>5
    <3>2. i # pinum
      BY <1>6, <1>7, <2>5
    <3>3. inodes'[i] = inodes[i]
      BY <1>7, <3>1, <3>2
    <3>4. NamesOf(i)' = NamesOf(i)
      BY <1>4, <1>11 DEF NamesOf
    <3> QED BY <2>5, <3>1, <3>3, <3>4 DEF Sound, KnownInv
  <2> QED BY <1>11, <2>1, <2>2, <2>3, <2>4, <2>5 DEF KnownInv
<1> QED BY <1>12, <1>13, <1>14 DEF Sound

\* A file without a block gets one that no inode had.
LEMMA WriteFileSound ==
    ASSUME Sound, Done, UNCHANGED corruption, NEW p \in files, NEW v \in Contents,
           writeFile(p, v)
    PROVE  Sound'
<1>1. PICK inum : inum = nameToInum[p]
  OBVIOUS
<1>2. PICK block \in Blocks :
         /\ block \notin dbitmap
         /\ dbitmap' = dbitmap \cup {block}
         /\ data' = [data EXCEPT ![block].ftype = "f", ![block].data = v]
         /\ inodes' = [inodes EXCEPT ![inum].addr = block]
  BY <1>1, Allocated DEF writeFile
<1>3. /\ inodes[inum].addr = -1
      /\ ibitmap' = ibitmap /\ files' = files /\ dirs' = dirs /\ nameToInum' = nameToInum
  BY <1>1 DEF writeFile, known
<1>4. /\ inodes \in InodeTable
      /\ ibitmap \subseteq Inodes
      /\ data \in BlockTable
  BY DEF Sound, FsckTypeOK, Entry
<1>5. inum \in ibitmap /\ inum \in Inodes /\ inodes[inum].ftype = "f"
  BY <1>1, <1>4 DEF Sound, KnownInv
<1>6. /\ inodes' \in InodeTable
      /\ \A i \in Inodes : inodes'[i].ftype = inodes[i].ftype /\ inodes'[i].refCnt = inodes[i].refCnt
      /\ \A i \in Inodes : inodes'[i].addr = IF i = inum THEN block ELSE inodes[i].addr
  BY <1>2, <1>4, <1>5
<1>7. UNCHANGED sizes /\ Inodes' = Inodes /\ Blocks' = Blocks /\ -1 \notin Blocks
  BY SizesStay DEF Done
<1>8. /\ data' \in BlockTable
      /\ \A b \in Blocks : data'[b].ftype = IF b = block THEN "f" ELSE data[b].ftype
      /\ \A b \in Blocks : data'[b].dirList = data[b].dirList
  BY <1>2, <1>4
<1>9. FsckTypeOK'
  <2>1. ibitmap' \subseteq Inodes /\ dbitmap' \subseteq Blocks /\ dirs' # {}
    BY <1>2, <1>3 DEF Sound, FsckTypeOK
  <2>2. nameToInum' \in [files' \cup dirs' -> Inodes]
    BY <1>3 DEF Sound, FsckTypeOK
  <2> QED BY <1>6, <1>8, <2>1, <2>2, TypesAfter
<1>10. BitmapsAgree'
  <2>1. /\ BitmapsAgree /\ ibitmap' = ibitmap /\ dbitmap' = dbitmap \cup {block}
        /\ \A i \in ibitmap : i \in Inodes /\ inodes[i].addr \in Blocks \cup {-1}
    BY <1>2, <1>3, <1>4 DEF Sound
  <2>2. \A i \in ibitmap : inodes[i].addr # block
    BY <1>2, <2>1 DEF BitmapsAgree
  <2>3. \A i \in Inodes : i \in ibitmap' <=> inodes'[i].ftype # "free"
    BY <1>6, <2>1 DEF BitmapsAgree
  <2>4. \A b \in Blocks : b \in dbitmap' <=> data'[b].ftype # "free"
    BY <1>8, <2>1 DEF BitmapsAgree
  <2>5. \A b \in Blocks : b \in dbitmap' <=> \E i \in ibitmap' : inodes'[i].addr = b
    <3>1. \A b \in Blocks : b \in dbitmap <=> \E i \in ibitmap : inodes[i].addr = b
      BY <2>1 DEF BitmapsAgree
    <3>2. \A b \in Blocks : (\E i \in ibitmap : inodes[i].addr = b)
                            => \E i \in ibitmap : inodes'[i].addr = b
      BY <1>3, <1>6, <1>7, <2>1
    <3>3. \A b \in Blocks : (\E i \in ibitmap : inodes'[i].addr = b)
                            => b = block \/ \E i \in ibitmap : inodes[i].addr = b
      BY <1>6, <2>1
    <3>4. inum \in ibitmap /\ inodes'[inum].addr = block
      BY <1>5, <1>6
    <3> QED BY <2>1, <3>1, <3>2, <3>3, <3>4
  <2>6. \A i, j \in ibitmap' : inodes'[i].addr = inodes'[j].addr => i = j \/ inodes'[i].addr = -1
    BY <1>6, <2>1, <2>2 DEF BitmapsAgree
  <2>7. \A i \in ibitmap' : IF inodes'[i].addr = -1 THEN inodes'[i].ftype = "f"
                            ELSE data'[inodes'[i].addr].ftype = inodes'[i].ftype
    <3>1. \A i \in ibitmap : IF inodes[i].addr = -1 THEN inodes[i].ftype = "f"
                             ELSE data[inodes[i].addr].ftype = inodes[i].ftype
      BY <2>1 DEF BitmapsAgree
    <3>2. \A i \in ibitmap : i # inum =>
             IF inodes'[i].addr = -1 THEN inodes'[i].ftype = "f"
             ELSE data'[inodes'[i].addr].ftype = inodes'[i].ftype
      <4> SUFFICES ASSUME NEW i \in ibitmap, i # inum
                   PROVE  IF inodes'[i].addr = -1 THEN inodes'[i].ftype = "f"
                          ELSE data'[inodes'[i].addr].ftype = inodes'[i].ftype
        OBVIOUS
      <4>1. inodes'[i].addr = inodes[i].addr /\ inodes'[i].ftype = inodes[i].ftype
        BY <1>6, <2>1
      <4>2. CASE inodes[i].addr = -1
        BY <3>1, <4>1, <4>2
      <4>3. CASE inodes[i].addr # -1
        <5>1. data'[inodes[i].addr].ftype = data[inodes[i].addr].ftype
          BY <1>8, <2>1, <2>2, <4>3
        <5> QED BY <3>1, <4>1, <4>3, <5>1
      <4> QED BY <4>2, <4>3
    <3>3. inodes'[inum].addr # -1 /\ data'[inodes'[inum].addr].ftype = inodes'[inum].ftype
      BY <1>5, <1>6, <1>7, <1>8
    <3> QED BY <2>1, <3>2, <3>3
  <2> QED BY <1>7, <2>3, <2>4, <2>5, <2>6, <2>7 DEF BitmapsAgree
<1>11. KnownInv'
  <2>1. \A d \in dirs : /\ nameToInum[d] # inum /\ nameToInum[d] \in Inodes
                        /\ Addr(d) \in Blocks /\ inodes'[nameToInum[d]].addr = Addr(d)
    <3>1. \A d \in dirs : Addr(d) \in Blocks
      BY BlocksOfNames
    <3>2. \A d \in dirs : nameToInum[d] \in ibitmap /\ inodes[nameToInum[d]].ftype = "d"
      BY DEF Sound, KnownInv
    <3>3. \A d \in dirs : nameToInum[d] # inum /\ nameToInum[d] \in Inodes
      BY <1>4, <1>5, <3>2
    <3> QED BY <1>6, <3>1, <3>3 DEF Addr
  <2>2. \A d \in dirs : dirList(d)' = dirList(d)
    BY <1>3, <1>8, <2>1 DEF dirList, Addr
  <2>3. \A q \in files' \cup dirs' :
            q # << >> => Front(q) \in dirs' /\ dirEntryExists(Front(q), Last(q))'
    <3>1. \A q \in files \cup dirs :
            q # << >> => Front(q) \in dirs /\ dirEntryExists(Front(q), Last(q))
      BY DEF Sound, KnownInv
    <3> QED BY <1>3, <2>2, <3>1 DEF dirEntryExists
  <2>4. \A i \in ibitmap' : inodes'[i].ftype = "f" => inodes'[i].refCnt = Cardinality(NamesOf(i)')
    <3>1. \A i : NamesOf(i)' = NamesOf(i)
      BY <1>3 DEF NamesOf
    <3> QED BY <1>3, <1>4, <1>6, <3>1 DEF Sound, KnownInv
  <2>5. \A q \in files' : nameToInum'[q] \in ibitmap' /\ inodes'[nameToInum'[q]].ftype = "f"
    BY <1>3, <1>4, <1>6 DEF Sound, KnownInv
  <2>6. \A d \in dirs' : nameToInum'[d] \in ibitmap' /\ inodes'[nameToInum'[d]].ftype = "d"
    BY <1>3, <1>4, <1>6 DEF Sound, KnownInv
  <2>7. /\ files' \subseteq Seq(Names) /\ dirs' \subseteq Seq(Names)
        /\ IsFiniteSet(files') /\ << >> \notin files'
        /\ \A c, d \in dirs' : nameToInum'[c] = nameToInum'[d] => c = d
    BY <1>3 DEF Sound, KnownInv
  <2> QED BY <2>3, <2>4, <2>5, <2>6, <2>7 DEF KnownInv
<1> QED BY <1>9, <1>10, <1>11 DEF Sound

\* delDirEntry changes nothing but one list.
LEMMA RemovingEntry ==
    ASSUME Sound, NEW p \in files, Front(p) \in dirs,
           NEW blocks \in BlockTable,
           \A d \in dirs : blocks[Addr(d)] = data[Addr(d)],
           data' = delDirEntry(blocks, p)
    PROVE  /\ \A d \in dirs :
                 data'[Addr(d)].dirList = IF d = Front(p) THEN Removed(dirList(d), Last(p))
                                          ELSE dirList(d)
           /\ \A b \in Blocks : data'[b].ftype = blocks[b].ftype
           /\ data' \in BlockTable
<1> DEFINE old == blocks[Addr(Front(p))]
           lst == Removed(old.dirList, Last(p))
           upd == [old EXCEPT !.dirList = lst]
<1>1. /\ \A d \in dirs : Addr(d) \in Blocks
      /\ \A d \in dirs : Addr(d) = Addr(Front(p)) => d = Front(p)
  BY BlocksOfNames
<1>2. \A d \in dirs : dirList(d) = data[Addr(d)].dirList
  BY DEF dirList, Addr
<1>3. old \in Block
  BY <1>1
<1>4. lst \in Seq(Entry)
  BY <1>3, RemoveFromList
<1>5. data' = [blocks EXCEPT ![Addr(Front(p))] = upd]
  <2>1. data' = [blocks EXCEPT ![Addr(Front(p))].dirList = Removed(@, Last(p))]
    BY DEF delDirEntry, Removed, Addr
  <2> QED BY <1>1, <2>1
<1> HIDE DEF lst
<1>6. upd \in Block /\ upd.ftype = old.ftype /\ upd.dirList = lst
  BY <1>3, <1>4
<1> HIDE DEF upd, old
<1>7. data' \in BlockTable
  <2> HIDE DEF Block
  <2>1. blocks \in BlockTable
    BY DEF Block
  <2> QED BY <1>1, <1>5, <1>6, <2>1
<1>8. \A b \in Blocks : data'[b] = IF b = Addr(Front(p)) THEN upd ELSE blocks[b]
  BY <1>1, <1>5
<1>9. \A b \in Blocks : data'[b].ftype = blocks[b].ftype
  BY <1>6, <1>8 DEF old
<1>10. \A d \in dirs : data'[Addr(d)].dirList = IF d = Front(p) THEN lst ELSE dirList(d)
  BY <1>1, <1>2, <1>6, <1>8
<1>11. lst = Removed(dirList(Front(p)), Last(p))
  BY <1>2 DEF lst, old
<1> QED BY <1>7, <1>9, <1>10, <1>11

\* A name less: all others keep their inodes and their entries.
LEMMA NameGone ==
    ASSUME Sound, NEW p \in files,
           files' = files \ {p}, dirs' = dirs,
           nameToInum' = [q \in files' \cup dirs |-> nameToInum[q]],
           \A d \in dirs :
              /\ inodes'[nameToInum[d]].addr = Addr(d)
              /\ data'[Addr(d)].dirList = IF d = Front(p) THEN Removed(dirList(d), Last(p))
                                          ELSE dirList(d)
    PROVE  /\ \A q \in files' \cup dirs' : nameToInum'[q] = nameToInum[q]
           /\ \A q \in files' \cup dirs' :
                 q # << >> => Front(q) \in dirs' /\ dirEntryExists(Front(q), Last(q))'
<1>1. \A q \in files' \cup dirs' : nameToInum'[q] = nameToInum[q]
  OBVIOUS
<1>2. \A d \in dirs : dirList(d)' = IF d = Front(p) THEN Removed(dirList(d), Last(p))
                                    ELSE dirList(d)
  BY <1>1 DEF dirList
<1>3. p \notin dirs
  <2>1. inodes[nameToInum[p]].ftype = "f"
    BY DEF Sound, KnownInv
  <2>2. \A d \in dirs : inodes[nameToInum[d]].ftype = "d"
    BY DEF Sound, KnownInv
  <2> QED BY <2>1, <2>2
<1>4. ASSUME NEW q \in files' \cup dirs', q # << >>
      PROVE  Front(q) \in dirs' /\ dirEntryExists(Front(q), Last(q))'
  <2>1. q \in files \cup dirs /\ q # p
    BY <1>3
  <2>2. Front(q) \in dirs /\ dirEntryExists(Front(q), Last(q))
    BY <1>4, <2>1 DEF Sound, KnownInv
  <2>3. PICK k \in DOMAIN dirList(Front(q)) : dirList(Front(q))[k][1] = Last(q)
    BY <2>2 DEF dirEntryExists
  <2>4. dirList(Front(q)) \in Seq(Entry)
    BY <2>2, BlocksOfNames
  <2>5. \E j \in DOMAIN dirList(Front(q))' : dirList(Front(q))'[j] = dirList(Front(q))[k]
    <3>1. CASE Front(q) = Front(p)
      <4>1. Last(q) # Last(p)
        <5>1. /\ p \in Seq(Names) /\ q \in Seq(Names) /\ p # << >>
          BY <2>1 DEF Sound, KnownInv
        <5>2. p = Append(Front(p), Last(p)) /\ q = Append(Front(q), Last(q))
          BY <1>4, <5>1, PathAndLast
        <5> QED BY <2>1, <3>1, <5>2
      <4>2. dirList(Front(q))' = Removed(dirList(Front(q)), Last(p))
        BY <1>2, <2>2, <3>1
      <4>3. \E j \in DOMAIN Removed(dirList(Front(q)), Last(p)) :
               Removed(dirList(Front(q)), Last(p))[j] = dirList(Front(q))[k]
        <5>1. \A i \in DOMAIN dirList(Front(q)) :
                 dirList(Front(q))[i][1] # Last(p) =>
                    \E j \in DOMAIN Removed(dirList(Front(q)), Last(p)) :
                       Removed(dirList(Front(q)), Last(p))[j] = dirList(Front(q))[i]
          BY <2>4, RemoveFromList
        <5> QED BY <2>3, <4>1, <5>1
      <4> QED BY <4>2, <4>3
    <3>2. CASE Front(q) # Front(p)
      BY <1>2, <2>2, <3>2
    <3> QED BY <3>1, <3>2
  <2> QED BY <2>2, <2>3, <2>5 DEF dirEntryExists
<1> QED BY <1>1, <1>4

\* The last name of a file takes its inode and its block with it; any other name
\* is only counted.
LEMMA DeleteFileSound ==
    ASSUME Sound, Done, UNCHANGED corruption, NEW p \in files, deleteFile(p)
    PROVE  Sound'
<1>1. PICK inum : inum = nameToInum[p]
  OBVIOUS
<1>2. PICK block : block = inodes[inum].addr
  OBVIOUS
<1>3. /\ files' = files \ {p} /\ dirs' = dirs
      /\ nameToInum' = [q \in files' \cup dirs |-> nameToInum[q]]
  BY DEF deleteFile
<1>4. /\ inodes \in InodeTable
      /\ ibitmap \subseteq Inodes /\ dbitmap \subseteq Blocks
      /\ data \in BlockTable
      /\ nameToInum \in [files \cup dirs -> Inodes] /\ dirs # {}
  BY DEF Sound, FsckTypeOK, Entry
<1>5. /\ inum \in ibitmap /\ inum \in Inodes /\ inodes[inum].ftype = "f"
      /\ block \in Blocks \cup {-1} /\ (block # -1 => data[block].ftype = "f")
  <2>1. inum \in ibitmap /\ inum \in Inodes /\ inodes[inum].ftype = "f"
    BY <1>1, <1>4 DEF Sound, KnownInv
  <2>2. block = -1 \/ data[block].ftype = "f"
    BY <1>1, <1>2, BlocksOfNames DEF Addr
  <2> QED BY <1>2, <1>4, <2>1, <2>2
<1>6. UNCHANGED sizes /\ Inodes' = Inodes /\ Blocks' = Blocks /\ -1 \notin Blocks
  BY SizesStay DEF Done
<1>7. Front(p) \in dirs
  BY DEF Sound, KnownInv
<1>8. \A d \in dirs : /\ nameToInum[d] \in ibitmap /\ nameToInum[d] \in Inodes
                      /\ inodes[nameToInum[d]].ftype = "d" /\ nameToInum[d] # inum
                      /\ Addr(d) \in Blocks /\ data[Addr(d)].ftype = "d" /\ Addr(d) # block
  <2>1. \A d \in dirs : nameToInum[d] \in ibitmap /\ inodes[nameToInum[d]].ftype = "d"
    BY DEF Sound, KnownInv
  <2>2. \A d \in dirs : Addr(d) \in Blocks /\ data[Addr(d)].ftype = "d"
    BY BlocksOfNames
  <2> QED BY <1>4, <1>5, <1>6, <2>1, <2>2
<1>9. /\ IsFiniteSet(NamesOf(inum)) /\ p \in NamesOf(inum)
      /\ inodes[inum].refCnt = Cardinality(NamesOf(inum))
  <2>1. NamesOf(inum) \in SUBSET files /\ p \in NamesOf(inum)
    BY <1>1 DEF NamesOf
  <2> QED BY <1>5, <2>1, FS_Subset DEF Sound, KnownInv
<1>10. /\ files' \subseteq Seq(Names) /\ dirs' \subseteq Seq(Names)
       /\ IsFiniteSet(files') /\ << >> \notin files'
  BY <1>3, FS_RemoveElement DEF Sound, KnownInv
\* What is left to show in either case.
<1>11. ASSUME /\ ibitmap' \subseteq Inodes /\ dbitmap' \subseteq Blocks
              /\ inodes' \in InodeTable,
              /\ \A d \in dirs : nameToInum[d] \in ibitmap' /\ inodes'[nameToInum[d]].ftype = "d"
                                 /\ inodes'[nameToInum[d]].addr = Addr(d)
              /\ \A q \in files' : nameToInum[q] \in ibitmap' /\ inodes'[nameToInum[q]].ftype = "f",
              NEW blocks \in BlockTable,
              \A d \in dirs : blocks[Addr(d)] = data[Addr(d)],
              data' = delDirEntry(blocks, p),
              BitmapsAgree',
              \A i \in ibitmap' : inodes'[i].ftype = "f" =>
                    inodes'[i].refCnt = Cardinality(NamesOf(i) \ {p})
       PROVE  Sound'
  <2>1. /\ \A d \in dirs :
              data'[Addr(d)].dirList = IF d = Front(p) THEN Removed(dirList(d), Last(p))
                                       ELSE dirList(d)
        /\ data' \in BlockTable
    BY <1>7, <1>11, RemovingEntry
  <2>2. /\ \A q \in files' \cup dirs' : nameToInum'[q] = nameToInum[q]
        /\ \A q \in files' \cup dirs' :
              q # << >> => Front(q) \in dirs' /\ dirEntryExists(Front(q), Last(q))'
    BY <1>3, <1>11, <2>1, NameGone
  <2>3. FsckTypeOK'
    <3>1. nameToInum' \in [files' \cup dirs' -> Inodes] /\ dirs' # {}
      BY <1>3, <1>4
    <3> QED BY <1>11, <2>1, <3>1, TypesAfter
  <2>4. /\ \A q \in files' : nameToInum'[q] \in ibitmap' /\ inodes'[nameToInum'[q]].ftype = "f"
        /\ \A d \in dirs' : nameToInum'[d] \in ibitmap' /\ inodes'[nameToInum'[d]].ftype = "d"
        /\ \A c, d \in dirs' : nameToInum'[c] = nameToInum'[d] => c = d
    BY <1>3, <1>11, <2>2 DEF Sound, KnownInv
  <2>5. \A i : NamesOf(i)' = NamesOf(i) \ {p}
    BY <1>3, <2>2 DEF NamesOf
  <2>6. KnownInv'
    BY <1>10, <1>11, <2>2, <2>4, <2>5 DEF KnownInv
  <2> QED BY <1>11, <2>3, <2>6 DEF Sound
<1>12. CASE inodes[inum].refCnt = 1
  <2>1. /\ inodes' = [inodes EXCEPT ![inum] = [@ EXCEPT !.ftype = "free", !.addr = -1]]
        /\ ibitmap' = ibitmap \ {inum} /\ dbitmap' = dbitmap \ {block}
        /\ data' = delDirEntry([b \in Blocks |-> IF b = block THEN FreeBlock ELSE data[b]], p)
    BY <1>1, <1>2, <1>12 DEF deleteFile
  <2>2. PICK blocks : blocks = [b \in Blocks |-> IF b = block THEN FreeBlock ELSE data[b]]
    OBVIOUS
  <2>3. /\ blocks \in BlockTable
        /\ \A d \in dirs : blocks[Addr(d)] = data[Addr(d)]
        /\ data' = delDirEntry(blocks, p)
    <3>1. FreeBlock \in Block
      BY DEF FreeBlock
    <3>2. blocks \in BlockTable
      BY <1>4, <2>2, <3>1
    <3> QED BY <1>8, <2>1, <2>2, <3>2
  <2>4. \A b \in Blocks : data'[b].ftype = IF b = block THEN "free" ELSE data[b].ftype
    <3>1. \A b \in Blocks : data'[b].ftype = blocks[b].ftype
      BY <1>7, <2>3, RemovingEntry
    <3> QED BY <2>2, <3>1 DEF FreeBlock
  <2>5. /\ inodes' \in InodeTable
        /\ \A i \in Inodes : i # inum => inodes'[i] = inodes[i]
        /\ inodes'[inum].ftype = "free"
    BY <1>4, <1>5, <2>1
  <2>6. NamesOf(inum) = {p}
    <3>1. IsFiniteSet(NamesOf(inum)) /\ Cardinality(NamesOf(inum)) = 1
      BY <1>9, <1>12
    <3>2. \E x : NamesOf(inum) = {x}
      BY <3>1, FS_Singleton
    <3> QED BY <1>9, <3>2
  <2>7. \A q \in files' : nameToInum[q] \in ibitmap' /\ inodes'[nameToInum[q]].ftype = "f"
    <3>1. \A q \in files' : nameToInum[q] # inum
      BY <1>3, <2>6 DEF NamesOf
    <3>2. \A q \in files : nameToInum[q] \in ibitmap /\ inodes[nameToInum[q]].ftype = "f"
      BY DEF Sound, KnownInv
    <3> QED BY <1>3, <1>4, <2>1, <2>5, <3>1, <3>2
  <2>8. \A d \in dirs : nameToInum[d] \in ibitmap' /\ inodes'[nameToInum[d]].ftype = "d"
                        /\ inodes'[nameToInum[d]].addr = Addr(d)
    BY <1>8, <2>1, <2>5 DEF Addr
  <2>9. \A i \in ibitmap' : inodes'[i].ftype = "f" =>
              inodes'[i].refCnt = Cardinality(NamesOf(i) \ {p})
    <3> SUFFICES ASSUME NEW i \in ibitmap', inodes'[i].ftype = "f"
                 PROVE  inodes'[i].refCnt = Cardinality(NamesOf(i) \ {p})
      OBVIOUS
    <3>1. i \in ibitmap /\ i # inum /\ inodes'[i] = inodes[i]
      BY <1>4, <2>1, <2>5
    <3>2. NamesOf(i) \ {p} = NamesOf(i)
      BY <1>1, <3>1 DEF NamesOf
    <3> QED BY <3>1, <3>2 DEF Sound, KnownInv
  <2>10. BitmapsAgree'
    <3>1. /\ BitmapsAgree
          /\ \A i \in ibitmap : i \in Inodes /\ inodes[i].addr \in Blocks \cup {-1}
          /\ \A i \in ibitmap' : i \in ibitmap /\ i # inum /\ inodes'[i] = inodes[i]
      BY <1>4, <2>1, <2>5 DEF Sound
    <3>2. \A i \in ibitmap : i # inum => inodes[i].addr # block \/ block = -1
      BY <1>2, <1>5, <3>1 DEF BitmapsAgree
    <3>3. \A i \in Inodes : i \in ibitmap' <=> inodes'[i].ftype # "free"
      BY <2>1, <2>5, <3>1 DEF BitmapsAgree
    <3>4. \A b \in Blocks : b \in dbitmap' <=> data'[b].ftype # "free"
      BY <2>1, <2>4, <3>1 DEF BitmapsAgree
    <3>5. \A b \in Blocks : b \in dbitmap' <=> \E i \in ibitmap' : inodes'[i].addr = b
      <4>1. \A b \in Blocks : b \in dbitmap <=> \E i \in ibitmap : inodes[i].addr = b
        BY <3>1 DEF BitmapsAgree
      <4>2. \A i \in ibitmap : i # inum => i \in ibitmap' /\ inodes'[i] = inodes[i]
        BY <2>1, <3>1
      <4>3. \A b \in Blocks : b # block /\ (\E i \in ibitmap : inodes[i].addr = b)
                              => \E i \in ibitmap' : inodes'[i].addr = b
        BY <1>2, <4>2
      <4>4. \A b \in Blocks : (\E i \in ibitmap' : inodes'[i].addr = b)
                              => b # block /\ \E i \in ibitmap : inodes[i].addr = b
        BY <1>6, <3>1, <3>2
      <4> QED BY <2>1, <4>1, <4>3, <4>4
    <3>6. \A i, j \in ibitmap' : inodes'[i].addr = inodes'[j].addr => i = j \/ inodes'[i].addr = -1
      BY <3>1 DEF BitmapsAgree
    <3>7. \A i \in ibitmap' : IF inodes'[i].addr = -1 THEN inodes'[i].ftype = "f"
                              ELSE data'[inodes'[i].addr].ftype = inodes'[i].ftype
      <4> SUFFICES ASSUME NEW i \in ibitmap'
                   PROVE  IF inodes[i].addr = -1 THEN inodes[i].ftype = "f"
                          ELSE data'[inodes[i].addr].ftype = inodes[i].ftype
        BY <3>1
      <4>1. IF inodes[i].addr = -1 THEN inodes[i].ftype = "f"
            ELSE data[inodes[i].addr].ftype = inodes[i].ftype
        BY <3>1 DEF BitmapsAgree
      <4>2. inodes[i].addr # -1 => data'[inodes[i].addr].ftype = data[inodes[i].addr].ftype
        BY <2>4, <3>1, <3>2
      <4> QED BY <4>1, <4>2
    <3> QED BY <1>6, <3>3, <3>4, <3>5, <3>6, <3>7 DEF BitmapsAgree
  <2>11. ibitmap' \subseteq Inodes /\ dbitmap' \subseteq Blocks
    BY <1>4, <2>1
  <2> QED BY <1>11, <2>3, <2>5, <2>7, <2>8, <2>9, <2>10, <2>11
<1>13. CASE inodes[inum].refCnt # 1
  <2>1. /\ inodes' = [inodes EXCEPT ![inum].refCnt = @ - 1]
        /\ data' = delDirEntry(data, p)
        /\ ibitmap' = ibitmap /\ dbitmap' = dbitmap
    BY <1>1, <1>13 DEF deleteFile
  <2>2. /\ inodes' \in InodeTable
        /\ \A i \in Inodes : inodes'[i].ftype = inodes[i].ftype /\ inodes'[i].addr = inodes[i].addr
        /\ \A i \in Inodes : inodes'[i].refCnt = IF i = inum THEN inodes[i].refCnt - 1
                                                 ELSE inodes[i].refCnt
    BY <1>4, <1>5, <2>1
  <2>3. \A b \in Blocks : data'[b].ftype = data[b].ftype
    BY <1>4, <1>7, <2>1, RemovingEntry
  <2>4. BitmapsAgree'
    BY <1>6, <2>1, <2>2, <2>3, SameShape
  <2>5. \A q \in files' : nameToInum[q] \in ibitmap' /\ inodes'[nameToInum[q]].ftype = "f"
    BY <1>3, <1>4, <2>1, <2>2 DEF Sound, KnownInv
  <2>6. \A d \in dirs : nameToInum[d] \in ibitmap' /\ inodes'[nameToInum[d]].ftype = "d"
                        /\ inodes'[nameToInum[d]].addr = Addr(d)
    BY <1>8, <2>1, <2>2 DEF Addr
  <2>7. \A i \in ibitmap' : inodes'[i].ftype = "f" =>
              inodes'[i].refCnt = Cardinality(NamesOf(i) \ {p})
    <3> SUFFICES ASSUME NEW i \in ibitmap', inodes'[i].ftype = "f"
                 PROVE  inodes'[i].refCnt = Cardinality(NamesOf(i) \ {p})
      OBVIOUS
    <3>1. i \in ibitmap /\ i \in Inodes /\ inodes[i].ftype = "f"
      BY <1>4, <2>1, <2>2
    <3>2. inodes[i].refCnt = Cardinality(NamesOf(i))
      BY <3>1 DEF Sound, KnownInv
    <3>3. CASE i = inum
      <4>1. Cardinality(NamesOf(inum) \ {p}) = Cardinality(NamesOf(inum)) - 1
        BY <1>9, FS_RemoveElement
      <4> QED BY <2>2, <3>1, <3>2, <3>3, <4>1
    <3>4. CASE i # inum
      <4>1. NamesOf(i) \ {p} = NamesOf(i)
        BY <1>1, <3>4 DEF NamesOf
      <4> QED BY <2>2, <3>1, <3>2, <3>4, <4>1
    <3> QED BY <3>3, <3>4
  <2>8. ibitmap' \subseteq Inodes /\ dbitmap' \subseteq Blocks
    BY <1>4, <2>1
  <2> QED BY <1>4, <1>11, <2>1, <2>2, <2>4, <2>5, <2>6, <2>7, <2>8
<1> QED BY <1>12, <1>13

-----------------------------------------------------------------------------
\* A step that changes neither the disk nor what is known of it.
LEMMA NothingChanged ==
    ASSUME Sound, UNCHANGED <<sizes, disk, known>>, UNCHANGED corruption,
           phase' \in {"run", "exit"}
    PROVE  Sound' /\ (FreeInv => FreeInv')
<1>1. /\ numInodes' = numInodes /\ numData' = numData /\ first_fit' = first_fit
      /\ ibitmap' = ibitmap /\ dbitmap' = dbitmap /\ inodes' = inodes /\ data' = data
      /\ files' = files /\ dirs' = dirs /\ nameToInum' = nameToInum
  BY DEF sizes, disk, known
<1>2. Inodes' = Inodes /\ Blocks' = Blocks
  BY <1>1 DEF Inodes, Blocks
<1>3. FsckTypeOK'
  BY <1>1, <1>2 DEF Sound, FsckTypeOK
<1>4. BitmapsAgree'
  BY <1>1, <1>2 DEF Sound, BitmapsAgree
<1>5. /\ \A d, n : dirEntryExists(d, n)' <=> dirEntryExists(d, n)
      /\ \A i : NamesOf(i)' = NamesOf(i)
  BY <1>1 DEF dirEntryExists, dirList, NamesOf
<1>6. KnownInv'
  BY <1>1, <1>5 DEF Sound, KnownInv
<1>7. FreeInv => FreeInv'
  BY <1>1, <1>2 DEF FreeInv
<1> QED BY <1>3, <1>4, <1>6, <1>7 DEF Sound

\* The file system that __init__ makes.
LEMMA InitSound == FsckInit => Sound /\ FreeInv
<1> SUFFICES ASSUME FsckInit
             PROVE  Sound /\ FreeInv
  OBVIOUS
<1>1. PICK s \in Sizes : numInodes = s[1] /\ numData = s[2]
  BY DEF FsckInit, VSFSInit
<1>2. /\ numInodes \in Nat \ {0} /\ numData \in Nat \ {0}
      /\ <<numInodes, numData>> \in Sizes
  BY <1>1, VSFSAssumption
<1>3. 0 \in Inodes /\ 0 \in Blocks /\ -1 \notin Blocks
  BY <1>2 DEF Inodes, Blocks
<1>4. /\ ibitmap = {0} /\ dbitmap = {0} /\ files = {} /\ dirs = {<< >>}
      /\ nameToInum = [p \in dirs |-> 0]
      /\ inodes = [i \in Inodes |-> IF i = 0 THEN [ftype |-> "d", addr |-> 0, refCnt |-> 2]
                                    ELSE FreeInode]
      /\ data = [b \in Blocks |-> IF b = 0 THEN DirBlock(0, 0) ELSE FreeBlock]
      /\ first_fit \in BOOLEAN /\ phase = "run" /\ corruption = -1
  BY DEF FsckInit, VSFSInit, ROOT
<1>5. /\ FreeBlock \in Block
      /\ DirBlock(0, 0) \in Block
      /\ FreeBlock.ftype = "free" /\ DirBlock(0, 0).ftype = "d"
  BY <1>3, FreshBlocks DEF FreeBlock
<1>6. FsckTypeOK
  <2>1. data \in BlockTable
    BY <1>4, <1>5
  <2>2. inodes \in InodeTable
    BY <1>3, <1>4 DEF FreeInode
  <2>3. nameToInum \in [files \cup dirs -> Inodes]
    BY <1>3, <1>4
  <2> QED BY <1>2, <1>3, <1>4, <2>1, <2>2, <2>3 DEF FsckTypeOK, Entry
<1>7. BitmapsAgree
  <2>1. /\ inodes[0].ftype = "d" /\ inodes[0].addr = 0
        /\ \A i \in Inodes : i # 0 => inodes[i].ftype = "free"
        /\ data[0].ftype = "d" /\ \A b \in Blocks : b # 0 => data[b].ftype = "free"
    BY <1>3, <1>4, <1>5 DEF FreeInode
  <2> QED BY <1>3, <1>4, <2>1 DEF BitmapsAgree
<1>8. KnownInv
  <2>1. << >> \in Seq(Names) /\ nameToInum[<< >>] = 0 /\ inodes[0].ftype = "d"
    BY <1>3, <1>4
  <2>2. \A i \in ibitmap : inodes[i].ftype = "d"
    BY <1>4, <2>1
  <2> QED BY <1>4, <2>1, <2>2, FS_EmptySet DEF KnownInv
<1>9. FreeInv
  BY <1>4 DEF FreeInv, FreeInode
<1> QED BY <1>6, <1>7, <1>8, <1>9 DEF Sound

\* A directory that gets no block.
LEMMA GivesBack ==
    ASSUME Sound, FreeInv, NEW parent, NEW n, mkdirWithoutBlock(parent, n)
    PROVE  UNCHANGED <<disk, known>>
<1>1. PICK inum \in alloc(ibitmap, Inodes) :
         /\ ibitmap' = (ibitmap \cup {inum}) \ {inum}
         /\ inodes' = [inodes EXCEPT ![inum] = [@ EXCEPT !.ftype = "free", !.addr = -1]]
  BY DEF mkdirWithoutBlock
<1>2. inum \in Inodes \ ibitmap
  BY DEF alloc
<1>3. /\ inodes[inum].ftype = "free" /\ inodes[inum].addr = -1
      /\ inodes \in InodeTable /\ inodes[inum] \in Inode
  BY <1>2 DEF Sound, FsckTypeOK, BitmapsAgree, FreeInv
<1>4. [inodes[inum] EXCEPT !.ftype = "free", !.addr = -1] = inodes[inum]
  BY <1>3
<1>5. inodes' = inodes /\ ibitmap' = ibitmap
  BY <1>1, <1>2, <1>3, <1>4
<1> QED BY <1>5 DEF mkdirWithoutBlock, disk, known

\* Every request leaves free inodes without a block.
LEMMA FreeStays ==
    ASSUME Sound, FreeInv, VSFSNext
    PROVE  FreeInv'
<1>1. Inodes' = Inodes
  BY DEF VSFSNext, Done, sizes, Inodes
<1>2. inodes \in InodeTable
  BY DEF Sound, FsckTypeOK
<1>3. \A p \in files \cup dirs : nameToInum[p] \in Inodes
  BY DEF Sound, FsckTypeOK
<1>4. ASSUME NEW p \in files, deleteFile(p)
      PROVE  FreeInv'
  <2> DEFINE inum == nameToInum[p]
  <2>1. \/ inodes' = [inodes EXCEPT ![inum] = [@ EXCEPT !.ftype = "free", !.addr = -1]]
        \/ inodes' = [inodes EXCEPT ![inum].refCnt = @ - 1]
    BY <1>4 DEF deleteFile
  <2>2. inum \in Inodes
    BY <1>3
  <2> HIDE DEF inum
  <2>3. \A i \in Inodes : inodes'[i].ftype = "free" => inodes'[i].addr = -1
    BY <1>2, <2>1, <2>2 DEF FreeInv
  <2> QED BY <1>1, <2>3 DEF FreeInv
<1>5. ASSUME NEW p \in files, NEW v \in Contents, writeFile(p, v)
      PROVE  FreeInv'
  <2>1. inodes[nameToInum[p]].ftype = "f"
    BY DEF Sound, KnownInv
  <2> QED BY <1>1, <1>2, <1>3, <1>5, <2>1 DEF writeFile, FreeInv
<1>6. ASSUME NEW parent \in dirs, NEW n \in Names, NEW target \in files,
             createLink(target, parent, n)
      PROVE  FreeInv'
  BY <1>1, <1>2, <1>3, <1>6 DEF createLink, FreeInv
<1>7. ASSUME NEW parent \in dirs, NEW n \in Names, create(parent, n)
      PROVE  FreeInv'
  BY <1>1, <1>2, <1>7 DEF create, FreeInv
<1>8. ASSUME NEW parent \in dirs, NEW n \in Names, mkdir(parent, n)
      PROVE  FreeInv'
  BY <1>1, <1>2, <1>3, <1>8 DEF mkdir, FreeInv
<1>9. ASSUME UNCHANGED <<disk, known>>
      PROVE  FreeInv'
  BY <1>1, <1>9 DEF disk, FreeInv
<1> QED BY <1>4, <1>5, <1>6, <1>7, <1>8, <1>9, GivesBack DEF VSFSNext, Request, Refused

\* Every request, refused or not.
LEMMA RequestSound ==
    ASSUME Sound, FreeInv, VSFSNext, UNCHANGED corruption
    PROVE  Sound' /\ FreeInv'
<1>1. Done
  BY DEF VSFSNext
<1>2. ASSUME NEW p \in files, deleteFile(p)
      PROVE  Sound'
  BY <1>1, <1>2, DeleteFileSound
<1>3. ASSUME NEW p \in files, NEW v \in Contents, writeFile(p, v)
      PROVE  Sound'
  BY <1>1, <1>3, WriteFileSound
<1>4. ASSUME NEW parent \in dirs, NEW n \in Names, NEW target \in files,
             createLink(target, parent, n)
      PROVE  Sound'
  BY <1>1, <1>4, CreateLinkSound
<1>5. ASSUME NEW parent \in dirs, NEW n \in Names, create(parent, n)
      PROVE  Sound'
  BY <1>1, <1>5, CreateSound
<1>6. ASSUME NEW parent \in dirs, NEW n \in Names, mkdir(parent, n)
      PROVE  Sound'
  BY <1>1, <1>6, MkdirSound
<1>7. ASSUME UNCHANGED <<disk, known>>
      PROVE  Sound'
  <2>1. UNCHANGED <<sizes, disk, known>> /\ phase' \in {"run", "exit"}
    BY <1>1, <1>7 DEF Done
  <2> QED BY <2>1, NothingChanged
<1>8. Sound'
  BY <1>2, <1>3, <1>4, <1>5, <1>6, <1>7, GivesBack DEF VSFSNext, Request, Refused
<1> QED BY <1>8, FreeStays

\* After every request the bitmaps mark exactly what is in use, each block
\* belongs to one inode and is of its type, for a file system of any size, with
\* any names and contents and either choice of free bits, until corrupt().
THEOREM FsckBitmaps == FsckSpec => []BitmapsHold
<1>1. FsckInit => IInv
  <2>1. FsckInit => corruption = -1
    BY DEF FsckInit
  <2> QED BY <2>1, InitSound DEF IInv
<1>2. IInv /\ [FsckNext]_fsckVars => IInv'
  <2> SUFFICES ASSUME IInv, [FsckNext]_fsckVars
               PROVE  IInv'
    OBVIOUS
  <2>1. CASE VSFSNext /\ UNCHANGED corruption
    <3>1. phase = "run"
      BY <2>1 DEF VSFSNext, Done
    <3>2. corruption = -1 /\ Sound /\ FreeInv
      BY <3>1 DEF IInv
    <3> QED BY <2>1, <3>2, RequestSound DEF IInv
  <2>2. CASE corrupt
    <3>1. corruption' \in 0 .. 11 /\ phase' = "exit"
      BY <2>2 DEF corrupt
    <3>2. corruption' # -1
      BY <3>1
    <3> QED BY <3>1, <3>2 DEF IInv
  <2>3. CASE UNCHANGED fsckVars
    <3>1. UNCHANGED <<sizes, disk, known>> /\ UNCHANGED corruption /\ phase' = phase
      BY <2>3 DEF fsckVars, vsfsVars
    <3>2. CASE corruption = -1
      <4>1. Sound /\ FreeInv /\ phase \in {"run", "exit"}
        BY <3>2 DEF IInv, Sound, FsckTypeOK
      <4> QED BY <3>1, <3>2, <4>1, NothingChanged DEF IInv
    <3>3. CASE corruption # -1
      BY <3>1, <3>3 DEF IInv
    <3> QED BY <3>2, <3>3
  <2> QED BY <2>1, <2>2, <2>3 DEF FsckNext, Exited
<1>3. IInv => BitmapsHold
  BY DEF IInv, Sound, BitmapsHold
<1> QED BY <1>1, <1>2, <1>3, PTL DEF FsckSpec

-----------------------------------------------------------------------------
\* Every file has a name.
NamedInv == \A i \in OfType("f") : \E p \in files : nameToInum[p] = i

\* The variables of the tree.
Entered    == [p \in files |-> nameToInum[p]]
Content(i) == IF inodes[i].addr = -1 THEN Empty ELSE data[inodes[i].addr].data
Shown      == [i \in OfType("f") |-> Content(i)]

\* What the invariant says of names and files.
LEMMA FilesAre ==
    ASSUME Sound, NamedInv
    PROVE  /\ Tree!FilesNamed = OfType("f")
           /\ \A i : i \in OfType("f") <=> i \in Inodes /\ inodes[i].ftype = "f"
           /\ \A p \in files : nameToInum[p] \in OfType("f")
           /\ \A d \in dirs : nameToInum[d] \in Inodes /\ inodes[nameToInum[d]].ftype = "d"
           /\ \A i \in OfType("f") : i \in ibitmap /\ inodes[i].addr \in Blocks \cup {-1}
           /\ \A i, j \in OfType("f") :
                 inodes[i].addr = inodes[j].addr => i = j \/ inodes[i].addr = -1
           /\ \A i \in OfType("f") : inodes[i].addr # -1 => inodes[i].addr \in dbitmap
           /\ inodes \in InodeTable /\ data \in BlockTable /\ ibitmap \subseteq Inodes
<1>1. inodes \in InodeTable /\ data \in BlockTable /\ ibitmap \subseteq Inodes
  BY DEF Sound, FsckTypeOK, Entry
<1>2. \A i : i \in OfType("f") <=> i \in Inodes /\ inodes[i].ftype = "f"
  BY DEF OfType
<1>3. \A p \in files : nameToInum[p] \in OfType("f")
  BY <1>1, <1>2 DEF Sound, KnownInv
<1>4. \A d \in dirs : nameToInum[d] \in Inodes /\ inodes[nameToInum[d]].ftype = "d"
  BY <1>1 DEF Sound, KnownInv
<1>5. \A i \in OfType("f") : i \in ibitmap /\ inodes[i].addr \in Blocks \cup {-1}
  <2> SUFFICES ASSUME NEW i \in OfType("f")
               PROVE  i \in ibitmap /\ inodes[i].addr \in Blocks \cup {-1}
    OBVIOUS
  <2>1. i \in Inodes /\ inodes[i].ftype = "f"
    BY <1>2
  <2>2. inodes[i] \in Inode
    BY <1>1, <2>1
  <2> QED BY <2>1, <2>2 DEF Sound, BitmapsAgree
<1>6. /\ \A i, j \in OfType("f") :
             inodes[i].addr = inodes[j].addr => i = j \/ inodes[i].addr = -1
      /\ \A i \in OfType("f") : inodes[i].addr # -1 => inodes[i].addr \in dbitmap
  BY <1>5 DEF Sound, BitmapsAgree
<1>7. Tree!FilesNamed = OfType("f")
  <2>1. Tree!FilesNamed = {nameToInum[p] : p \in files}
    BY DEF Tree!FilesNamed
  <2> QED BY <1>3, <2>1 DEF NamedInv
<1> QED BY <1>1, <1>2, <1>3, <1>4, <1>5, <1>6, <1>7

\* A name that may be entered is the name of nothing yet.
LEMMA FreshName ==
    ASSUME Sound, NEW parent \in dirs, NEW n \in Names, MayEnter(parent, n)
    PROVE  Append(parent, n) \notin files \cup dirs
<1>1. parent \in Seq(Names)
  BY DEF Sound, KnownInv
<1>2. Append(parent, n) # << >> /\ Front(Append(parent, n)) = parent /\ Last(Append(parent, n)) = n
  BY <1>1, PathAndLast
<1>3. ~dirEntryExists(parent, n)
  BY DEF MayEnter
<1> QED BY <1>2, <1>3 DEF Sound, KnownInv

\* What a step remembers of a new name.
LEMMA Remembered ==
    ASSUME NEW p, p \notin files \cup dirs, NEW inum, Remember(p, inum),
           files' \subseteq files \cup {p}, dirs' \subseteq dirs \cup {p}
    PROVE  /\ \A q \in files' : nameToInum'[q] = IF q = p THEN inum ELSE nameToInum[q]
           /\ \A q \in files \cup dirs : nameToInum'[q] = nameToInum[q]
  BY DEF Remember

\* Entering a name in a directory or removing one changes the contents of no block.
LEMMA ListsOnly ==
    ASSUME Sound, NEW d \in dirs, NEW blocks \in BlockTable, NEW list,
           data' = [blocks EXCEPT ![Addr(d)].dirList = list]
    PROVE  \A b \in Blocks : data'[b].data = blocks[b].data
<1>1. Addr(d) \in Blocks
  BY BlocksOfNames
<1>2. data' = [blocks EXCEPT ![Addr(d)] = [blocks[Addr(d)] EXCEPT !.dirList = list]]
  OBVIOUS
<1>3. [blocks[Addr(d)] EXCEPT !.dirList = list].data = blocks[Addr(d)].data
  <2>1. blocks[Addr(d)] \in Block
    BY <1>1
  <2> QED BY <2>1
<1> QED BY <1>1, <1>2, <1>3

\* Both directory operations are such changes.
LEMMA AddingShows ==
    ASSUME Sound, NEW d \in dirs, NEW blocks \in BlockTable, NEW n, NEW inum,
           data' = addDirEntry(blocks, d, n, inum)
    PROVE  \A b \in Blocks : data'[b].data = blocks[b].data
<1> DEFINE list == Append(blocks[Addr(d)].dirList, <<n, inum>>)
<1>1. data' = [blocks EXCEPT ![Addr(d)].dirList = list]
  <2>1. Addr(d) \in Blocks
    BY BlocksOfNames
  <2> QED BY <2>1 DEF addDirEntry, Addr
<1> HIDE DEF list
<1> QED BY <1>1, ListsOnly

-----------------------------------------------------------------------------
\* A new name of a file shows the same file.
LEMMA LinkTree ==
    ASSUME Sound, NamedInv, Done, NEW target \in files, NEW parent \in dirs, NEW n \in Names,
           createLink(target, parent, n)
    PROVE  Tree!Link(target, parent, n) /\ NamedInv'
<1>0. PICK inum, p : inum = nameToInum[target] /\ p = Append(parent, n)
  OBVIOUS
<1>1. inum \in OfType("f") /\ p \notin files \cup dirs /\ Inodes' = Inodes
  BY <1>0, FilesAre, FreshName, SizesStay DEF createLink, Done
<1>2. /\ inodes' = [inodes EXCEPT ![inum].refCnt = @ + 1]
      /\ data' = addDirEntry(data, parent, n, inum)
      /\ files' = files \cup {p} /\ Remember(p, inum) /\ dirs' = dirs
  BY <1>0 DEF createLink
<1>3. \A i \in Inodes : inodes'[i].ftype = inodes[i].ftype /\ inodes'[i].addr = inodes[i].addr
  BY <1>1, <1>2, FilesAre
<1>4. \A q \in files' : nameToInum'[q] = IF q = p THEN inum ELSE nameToInum[q]
  BY <1>1, <1>2, Remembered
<1>5. OfType("f")' = OfType("f")
  BY <1>1, <1>3 DEF OfType
<1>6. \A i \in OfType("f") : Content(i)' = Content(i)
  BY <1>2, <1>3, AddingShows, FilesAre DEF Content
<1>7. Shown' = Shown
  BY <1>5, <1>6 DEF Shown
<1>8. Entered' = [q \in files \cup {p} |-> IF q = p THEN inum ELSE nameToInum[q]]
  BY <1>2, <1>4 DEF Entered
<1>9. NamedInv'
  BY <1>1, <1>2, <1>4, <1>5 DEF NamedInv
<1>10. Tree!Link(target, parent, n)
  BY <1>0, <1>1, <1>2, <1>7, <1>8 DEF Tree!Link, Tree!MayName, Tree!Named, Shown, Content, Entered
<1> QED BY <1>9, <1>10

\* The inode of a new file is that of no other name, and shows nothing.
LEMMA CreateTree ==
    ASSUME Sound, NamedInv, Done, NEW parent \in dirs, NEW n \in Names, create(parent, n)
    PROVE  Tree!Creat(parent, n) /\ NamedInv'
<1>1. PICK inum \in Inodes :
         /\ inum \notin ibitmap
         /\ inodes' = [inodes EXCEPT ![inum] = [ftype |-> "f", addr |-> -1, refCnt |-> 1]]
         /\ data' = addDirEntry(data, parent, n, inum)
         /\ files' = files \cup {Append(parent, n)}
         /\ Remember(Append(parent, n), inum)
  BY Allocated DEF create
<1>2. PICK p : p = Append(parent, n)
  OBVIOUS
<1>3. /\ p \notin files \cup dirs /\ Inodes' = Inodes /\ dirs' = dirs /\ inum \notin OfType("f")
  BY <1>1, <1>2, FreshName, FilesAre, SizesStay DEF create, Done
<1>4. /\ \A i \in Inodes : i # inum => inodes'[i] = inodes[i]
      /\ inodes'[inum].ftype = "f" /\ inodes'[inum].addr = -1
  BY <1>1, FilesAre
<1>5. \A q \in files' : nameToInum'[q] = IF q = p THEN inum ELSE nameToInum[q]
  BY <1>1, <1>2, <1>3, Remembered
<1>6. OfType("f")' = OfType("f") \cup {inum}
  BY <1>1, <1>3, <1>4 DEF OfType
<1>7. \A i \in OfType("f") \cup {inum} : Content(i)' = IF i = inum THEN Empty ELSE Content(i)
  <2>1. Content(inum)' = Empty
    BY <1>4 DEF Content
  <2>2. \A i \in OfType("f") : Content(i)' = Content(i)
    BY <1>1, <1>3, <1>4, AddingShows, FilesAre DEF Content
  <2> QED BY <1>3, <2>1, <2>2
<1>8. Shown' = [i \in OfType("f") \cup {inum} |-> IF i = inum THEN Empty ELSE Shown[i]]
  <2>1. Shown' = [i \in OfType("f") \cup {inum} |-> IF i = inum THEN Empty ELSE Content(i)]
    BY <1>6, <1>7 DEF Shown
  <2> QED BY <1>3, <2>1 DEF Shown
<1>9. Entered' = [q \in files \cup {p} |-> IF q = p THEN inum ELSE Entered[q]]
  BY <1>1, <1>2, <1>5 DEF Entered
<1>10. NamedInv'
  BY <1>1, <1>2, <1>3, <1>5, <1>6 DEF NamedInv
<1>11. inum \in UNION {0 .. s[1] - 1 : s \in Sizes}
  <2>1. <<numInodes, numData>> \in Sizes /\ inum \in 0 .. <<numInodes, numData>>[1] - 1
    BY DEF Sound, FsckTypeOK, Inodes
  <2> QED BY <2>1
<1>12. DOMAIN Entered = files
  BY DEF Entered
<1>13. Tree!Creat(parent, n)
  <2>1. inum \in UNION {0 .. s[1] - 1 : s \in Sizes} /\ inum \notin Tree!FilesNamed
    BY <1>3, <1>11, FilesAre
  <2>2. /\ Entered' = Tree!Named(p, inum)
        /\ Shown' = [f \in Tree!FilesNamed \cup {inum} |-> IF f = inum THEN Empty ELSE Shown[f]]
    BY <1>8, <1>9, <1>12, FilesAre DEF Tree!Named, Entered
  <2>3. Tree!MayName(p)
    BY <1>3, <1>12 DEF Tree!MayName, Entered
  <2> QED BY <1>2, <1>3, <2>1, <2>2, <2>3 DEF Tree!Creat, Shown, Content, Entered
<1> QED BY <1>10, <1>13

\* The block of a new directory is no file's.
LEMMA MkdirTree ==
    ASSUME Sound, NamedInv, Done, NEW parent \in dirs, NEW n \in Names, mkdir(parent, n)
    PROVE  Tree!Mkdir(parent, n) /\ NamedInv'
<1>1. PICK pinum, p : pinum = nameToInum[parent] /\ p = Append(parent, n)
  OBVIOUS
<1>2. PICK inum \in Inodes, block \in Blocks :
         /\ inum \notin ibitmap /\ block \notin dbitmap
         /\ inodes' = [inodes EXCEPT ![inum] = [ftype |-> "d", addr |-> block, refCnt |-> 2],
                                     ![pinum].refCnt = @ + 1]
         /\ data' = addDirEntry([data EXCEPT ![block] = DirBlock(inum, pinum)], parent, n, inum)
         /\ dirs' = dirs \cup {p}
         /\ Remember(p, inum)
  BY <1>1, Allocated DEF mkdir
<1>3. /\ p \notin files \cup dirs /\ Inodes' = Inodes /\ files' = files /\ inum \notin OfType("f")
      /\ pinum \in Inodes /\ inodes[pinum].ftype = "d" /\ pinum # inum
  <2>1. pinum \in ibitmap
    BY <1>1 DEF Sound, KnownInv
  <2> QED BY <1>1, <1>2, <2>1, FreshName, FilesAre, SizesStay DEF mkdir, Done
<1>4. /\ \A i \in Inodes : i # inum /\ i # pinum => inodes'[i] = inodes[i]
      /\ inodes'[inum].ftype = "d" /\ inodes'[pinum].ftype = "d"
  BY <1>2, <1>3, FilesAre
<1>5. \A q \in files : nameToInum'[q] = nameToInum[q]
  BY <1>2, <1>3, Remembered
<1>6. OfType("f")' = OfType("f")
  BY <1>3, <1>4 DEF OfType
<1>7. \A i \in OfType("f") : Content(i)' = Content(i)
  <2> SUFFICES ASSUME NEW i \in OfType("f") PROVE Content(i)' = Content(i)
    OBVIOUS
  <2>1. inodes'[i] = inodes[i] /\ inodes[i].addr \in Blocks \cup {-1} /\ inodes[i].addr # block
    BY <1>2, <1>3, <1>4, FilesAre DEF Blocks
  <2> DEFINE blocks == [data EXCEPT ![block] = DirBlock(inum, pinum)]
  <2>2. blocks \in BlockTable
    <3>1. DirBlock(inum, pinum) \in Block
      BY <1>3, FreshBlocks
    <3> HIDE DEF Block
    <3> QED BY <3>1, FilesAre DEF Block
  <2>3. inodes[i].addr \in Blocks => blocks[inodes[i].addr] = data[inodes[i].addr]
    BY <2>1, FilesAre
  <2> HIDE DEF blocks
  <2>4. \A b \in Blocks : data'[b].data = blocks[b].data
    BY <1>2, <2>2, AddingShows DEF blocks
  <2> QED BY <2>1, <2>3, <2>4 DEF Content
<1>8. Shown' = Shown
  BY <1>6, <1>7 DEF Shown
<1>9. Entered' = Entered
  BY <1>3, <1>5 DEF Entered
<1>10. NamedInv'
  BY <1>3, <1>5, <1>6 DEF NamedInv
<1>11. DOMAIN Entered = files
  BY DEF Entered
<1>12. Tree!Mkdir(parent, n)
  BY <1>1, <1>2, <1>3, <1>8, <1>9, <1>11 DEF Tree!Mkdir, Tree!MayName, Shown, Content, Entered
<1> QED BY <1>10, <1>12

\* The entry that delDirEntry takes out of a directory changes no file.
LEMMA RemovingShows ==
    ASSUME Sound, NEW p \in files, NEW blocks \in BlockTable,
           data' = delDirEntry(blocks, p)
    PROVE  \A b \in Blocks : data'[b].data = blocks[b].data
<1> DEFINE list == Removed(blocks[Addr(Front(p))].dirList, Last(p))
<1>1. Front(p) \in dirs
  BY DEF Sound, KnownInv
<1>2. data' = [blocks EXCEPT ![Addr(Front(p))].dirList = list]
  <2>1. Addr(Front(p)) \in Blocks
    BY <1>1, BlocksOfNames
  <2> QED BY <2>1 DEF delDirEntry, Addr, Removed
<1> HIDE DEF list
<1> QED BY <1>1, <1>2, ListsOnly

\* Only the last name takes what the file shows with it: its block is freed then,
\* and with another name left, the file goes on.
LEMMA DeleteTree ==
    ASSUME Sound, NamedInv, Done, NEW p \in files, deleteFile(p)
    PROVE  Tree!Unlink(p) /\ NamedInv'
<1>1. PICK inum : inum = nameToInum[p]
  OBVIOUS
<1>2. /\ inum \in OfType("f") /\ inum \in Inodes /\ inodes[inum].ftype = "f" /\ inum \in ibitmap
      /\ Inodes' = Inodes /\ inodes \in InodeTable /\ data \in BlockTable
      /\ \A i \in OfType("f") : inodes[i].addr \in Blocks \cup {-1}
      /\ -1 \notin Blocks
  BY <1>1, FilesAre, SizesStay DEF Done
<1>3. /\ files' = files \ {p} /\ dirs' = dirs
      /\ \A q \in files' : nameToInum'[q] = nameToInum[q]
  BY DEF deleteFile
<1>4. Entered' = [q \in files \ {p} |-> Entered[q]]
  BY <1>3 DEF Entered
<1>5. \A i : NamesOf(i) = {q \in files : nameToInum[q] = i}
  BY DEF NamesOf
\* In either case the files that are left show what they showed.
<1>6. ASSUME OfType("f")' = {nameToInum[q] : q \in files \ {p}},
             \A i \in OfType("f")' : i \in OfType("f") /\ Content(i)' = Content(i)
      PROVE  Tree!Unlink(p) /\ NamedInv'
  <2>1. NamedInv'
    BY <1>3, <1>6 DEF NamedInv
  <2>2. Shown' = [i \in OfType("f")' |-> Shown[i]]
    BY <1>6 DEF Shown
  <2>3. {Entered'[q] : q \in DOMAIN Entered'} = OfType("f")'
    BY <1>4, <1>6 DEF Entered
  <2>4. DOMAIN Entered = files
    BY DEF Entered
  <2>5. Tree!Unlink(p)
    BY <1>3, <1>4, <2>2, <2>3, <2>4 DEF Tree!Unlink, Tree!FilesNamed, Shown, Content, Entered
  <2> QED BY <2>1, <2>5
<1>7. CASE inodes[inum].refCnt = 1
  <2>0. PICK block, blocks :
           /\ block = inodes[inum].addr
           /\ blocks = [b \in Blocks |-> IF b = block THEN FreeBlock ELSE data[b]]
    OBVIOUS
  <2>1. /\ inodes' = [inodes EXCEPT ![inum] = [@ EXCEPT !.ftype = "free", !.addr = -1]]
        /\ data' = delDirEntry(blocks, p)
    BY <1>1, <1>7, <2>0 DEF deleteFile
  <2>2. /\ \A i \in Inodes : i # inum => inodes'[i] = inodes[i]
        /\ inodes'[inum].ftype = "free"
    BY <1>2, <2>1
  <2>3. OfType("f")' = OfType("f") \ {inum}
    BY <1>2, <2>2 DEF OfType
  <2>4. NamesOf(inum) = {p}
    <3>1. NamesOf(inum) \subseteq files /\ p \in NamesOf(inum)
      BY <1>1 DEF NamesOf
    <3>2. IsFiniteSet(NamesOf(inum)) /\ Cardinality(NamesOf(inum)) = 1
      BY <1>2, <1>7, <3>1, FS_Subset DEF Sound, KnownInv
    <3>3. \E x : NamesOf(inum) = {x}
      BY <3>2, FS_Singleton
    <3> QED BY <3>1, <3>3
  <2>5. OfType("f")' = {nameToInum[q] : q \in files \ {p}}
    <3>1. \A q \in files \ {p} : nameToInum[q] # inum
      BY <1>5, <2>4
    <3>2. \A q \in files : nameToInum[q] \in OfType("f")
      BY FilesAre
    <3>3. \A i \in OfType("f") : \E q \in files : nameToInum[q] = i
      BY DEF NamedInv
    <3> QED BY <1>1, <2>3, <3>1, <3>2, <3>3
  <2>6. blocks \in BlockTable
    <3>1. FreeBlock \in Block
      BY DEF FreeBlock
    <3> QED BY <1>2, <2>0, <2>1, <3>1
  <2>7. \A b \in Blocks : b # block => data'[b].data = data[b].data
    BY <2>0, <2>1, <2>6, RemovingShows
  <2>8. \A i \in OfType("f")' : i \in OfType("f") /\ Content(i)' = Content(i)
    <3> SUFFICES ASSUME NEW i \in OfType("f") \ {inum}
                 PROVE  Content(i)' = Content(i)
      BY <2>3
    <3>1. inodes'[i] = inodes[i] /\ (inodes[i].addr # block \/ inodes[i].addr = -1)
      BY <1>2, <2>0, <2>1, <2>2, FilesAre
    <3> QED BY <1>2, <2>7, <3>1 DEF Content
  <2> QED BY <1>6, <2>5, <2>8
<1>8. CASE inodes[inum].refCnt # 1
  <2>1. inodes' = [inodes EXCEPT ![inum].refCnt = @ - 1] /\ data' = delDirEntry(data, p)
    BY <1>1, <1>8 DEF deleteFile
  <2>2. \A i \in Inodes : inodes'[i].ftype = inodes[i].ftype /\ inodes'[i].addr = inodes[i].addr
    BY <1>2, <2>1
  <2>3. OfType("f")' = OfType("f")
    BY <1>2, <2>2 DEF OfType
  <2>4. \E q \in files \ {p} : nameToInum[q] = inum
    <3>1. p \in NamesOf(inum) /\ Cardinality(NamesOf(inum)) # 1
      BY <1>1, <1>2, <1>8 DEF NamesOf, Sound, KnownInv
    <3>2. NamesOf(inum) # {p}
      BY <3>1, FS_Singleton
    <3> QED BY <1>5, <3>1, <3>2
  <2>5. OfType("f")' = {nameToInum[q] : q \in files \ {p}}
    <3>1. \A q \in files : nameToInum[q] \in OfType("f")
      BY FilesAre
    <3>2. \A i \in OfType("f") : \E q \in files : nameToInum[q] = i
      BY DEF NamedInv
    <3>3. \A i \in OfType("f") : \E q \in files \ {p} : nameToInum[q] = i
      BY <1>1, <2>4, <3>2
    <3> QED BY <2>3, <3>1, <3>3
  <2>6. \A i \in OfType("f") : Content(i)' = Content(i)
    <3>1. \A b \in Blocks : data'[b].data = data[b].data
      BY <1>2, <2>1, RemovingShows
    <3>2. \A i \in OfType("f") : i \in Inodes
      BY FilesAre
    <3> QED BY <1>2, <2>2, <3>1, <3>2 DEF Content
  <2> QED BY <1>6, <2>3, <2>5, <2>6
<1> QED BY <1>7, <1>8

\* What is written goes to a block of the file's own.
LEMMA WriteTree ==
    ASSUME Sound, NamedInv, Done, NEW p \in files, NEW v \in Contents, writeFile(p, v)
    PROVE  Tree!AppendTo(p, v) /\ NamedInv'
<1>1. PICK inum : inum = nameToInum[p]
  OBVIOUS
<1>2. PICK block \in Blocks :
         /\ block \notin dbitmap
         /\ data' = [data EXCEPT ![block].ftype = "f", ![block].data = v]
         /\ inodes' = [inodes EXCEPT ![inum].addr = block]
  BY <1>1, Allocated DEF writeFile
<1>3. /\ inum \in OfType("f") /\ inodes[inum].addr = -1
      /\ Inodes' = Inodes /\ inodes \in InodeTable /\ data \in BlockTable
      /\ files' = files /\ dirs' = dirs /\ nameToInum' = nameToInum
      /\ -1 \notin Blocks
  BY <1>1, FilesAre, SizesStay DEF writeFile, Done, known
<1>4. /\ \A i \in Inodes : inodes'[i].ftype = inodes[i].ftype
      /\ \A i \in Inodes : i # inum => inodes'[i] = inodes[i]
      /\ inodes'[inum].addr = block
  BY <1>2, <1>3, FilesAre
<1>5. \A b \in Blocks : data'[b].data = IF b = block THEN v ELSE data[b].data
  BY <1>2, <1>3
<1>6. OfType("f")' = OfType("f")
  BY <1>3, <1>4 DEF OfType
<1>7. \A i \in OfType("f") : Content(i)' = IF i = inum THEN v ELSE Content(i)
  <2>1. Content(inum)' = v
    BY <1>2, <1>3, <1>4, <1>5 DEF Content
  <2>2. ASSUME NEW i \in OfType("f"), i # inum
        PROVE  Content(i)' = Content(i)
    <3>1. inodes'[i] = inodes[i] /\ inodes[i].addr \in Blocks \cup {-1} /\ inodes[i].addr # block
      BY <1>2, <1>3, <1>4, <2>2, FilesAre
    <3> QED BY <1>5, <3>1 DEF Content
  <2> QED BY <2>1, <2>2
<1>8. Shown' = [Shown EXCEPT ![inum] = v]
  BY <1>3, <1>6, <1>7 DEF Shown
<1>9. Shown[inum] = Empty
  BY <1>3 DEF Shown, Content
<1>10. Entered' = Entered /\ Entered[p] = inum
  BY <1>1, <1>3 DEF Entered
<1>11. NamedInv'
  BY <1>3, <1>6 DEF NamedInv
<1>12. Tree!AppendTo(p, v)
  BY <1>3, <1>8, <1>9, <1>10 DEF Tree!AppendTo, Shown, Content, Entered
<1> QED BY <1>11, <1>12

\* A refused request shows nothing.
LEMMA NothingShown ==
    ASSUME UNCHANGED <<sizes, disk, known>>
    PROVE  UNCHANGED Tree!treeVars /\ (NamedInv => NamedInv')
<1>1. /\ inodes' = inodes /\ data' = data /\ Inodes' = Inodes
      /\ files' = files /\ dirs' = dirs /\ nameToInum' = nameToInum
  BY DEF sizes, disk, known, Inodes
<1>2. OfType("f")' = OfType("f")
  BY <1>1 DEF OfType
<1>3. Entered' = Entered /\ Shown' = Shown
  BY <1>1, <1>2 DEF Entered, Shown, Content
<1> QED BY <1>1, <1>2, <1>3 DEF NamedInv, Tree!treeVars, Entered, Shown, Content

\* Every request is a step of the tree or none.
LEMMA RequestTree ==
    ASSUME Sound, FreeInv, NamedInv, VSFSNext
    PROVE  [Tree!TreeNext]_(Tree!treeVars) /\ NamedInv'
<1>0. Done
  BY DEF VSFSNext
<1>1. DOMAIN Entered = files
  BY DEF Entered
<1>2. ASSUME NEW p \in files, deleteFile(p)
      PROVE  Tree!TreeNext /\ NamedInv'
  BY <1>0, <1>1, <1>2, DeleteTree DEF Tree!TreeNext, Entered
<1>3. ASSUME NEW p \in files, NEW v \in Contents, writeFile(p, v)
      PROVE  Tree!TreeNext /\ NamedInv'
  BY <1>0, <1>1, <1>3, WriteTree DEF Tree!TreeNext, Entered
<1>4. ASSUME NEW parent \in dirs, NEW n \in Names, NEW target \in files,
             createLink(target, parent, n)
      PROVE  Tree!TreeNext /\ NamedInv'
  BY <1>0, <1>1, <1>4, LinkTree DEF Tree!TreeNext, Entered
<1>5. ASSUME NEW parent \in dirs, NEW n \in Names, create(parent, n)
      PROVE  Tree!TreeNext /\ NamedInv'
  BY <1>0, <1>5, CreateTree DEF Tree!TreeNext
<1>6. ASSUME NEW parent \in dirs, NEW n \in Names, mkdir(parent, n)
      PROVE  Tree!TreeNext /\ NamedInv'
  BY <1>0, <1>6, MkdirTree DEF Tree!TreeNext
<1>7. ASSUME UNCHANGED <<disk, known>>
      PROVE  NamedInv' /\ UNCHANGED Tree!treeVars
  BY <1>0, <1>7, NothingShown DEF Done
<1> QED BY <1>2, <1>3, <1>4, <1>5, <1>6, <1>7, GivesBack DEF VSFSNext, Request, Refused

\* Until corrupt(), what the bitmaps, inodes and blocks of vsfs.py and fsck.py hold
\* is a tree of directories and files: a file shows the same under all its names
\* and is gone with the last of them, no request on one file shows in another, and
\* a refused one shows nowhere; for any sizes, names and contents.
THEOREM FsckTree == FsckSpec => ImplementsTree
<1> DEFINE TreeInv == IF corruption = -1 THEN Sound /\ FreeInv /\ NamedInv ELSE phase = "exit"
<1>1. FsckInit => TreeInv /\ Tree!TreeInit
  <2> SUFFICES ASSUME FsckInit
               PROVE  TreeInv /\ Tree!TreeInit
    OBVIOUS
  <2>1. Sound /\ FreeInv /\ corruption = -1
    BY InitSound DEF FsckInit
  <2>2. /\ files = {} /\ dirs = {<< >>}
        /\ inodes = [i \in Inodes |-> IF i = 0 THEN [ftype |-> "d", addr |-> 0, refCnt |-> 2]
                                      ELSE FreeInode]
    BY DEF FsckInit, VSFSInit, ROOT
  <2>3. OfType("f") = {}
    BY <2>2 DEF OfType, FreeInode
  <2>4. Entered = << >> /\ Shown = << >>
    BY <2>2, <2>3 DEF Entered, Shown
  <2> QED BY <2>1, <2>2, <2>3, <2>4 DEF Tree!TreeInit, NamedInv, Entered, Shown, Content
<1>2. TreeInv /\ [FsckNext]_fsckVars =>
         TreeInv' /\ [corruption' # -1 \/ Tree!TreeNext]_(Tree!treeVars)
  <2> SUFFICES ASSUME TreeInv, [FsckNext]_fsckVars
               PROVE  TreeInv' /\ [corruption' # -1 \/ Tree!TreeNext]_(Tree!treeVars)
    OBVIOUS
  <2>1. CASE VSFSNext /\ UNCHANGED corruption
    <3>1. corruption = -1 /\ Sound /\ FreeInv /\ NamedInv
      BY <2>1 DEF VSFSNext, Done
    <3>2. Sound' /\ FreeInv' /\ NamedInv' /\ [Tree!TreeNext]_(Tree!treeVars)
      BY <2>1, <3>1, RequestSound, RequestTree
    <3> QED BY <2>1, <3>1, <3>2
  <2>2. CASE corrupt
    <3>1. corruption' \in 0 .. 11 /\ phase' = "exit"
      BY <2>2 DEF corrupt
    <3>2. corruption' # -1
      BY <3>1
    <3> QED BY <3>1, <3>2
  <2>3. CASE UNCHANGED fsckVars
    <3>1. UNCHANGED <<sizes, disk, known>> /\ UNCHANGED corruption /\ phase' = phase
      BY <2>3 DEF fsckVars, vsfsVars
    <3>2. CASE corruption = -1
      <4>1. Sound /\ FreeInv /\ NamedInv /\ phase \in {"run", "exit"}
        BY <3>2 DEF Sound, FsckTypeOK
      <4> QED BY <3>1, <3>2, <4>1, NothingChanged, NothingShown
    <3>3. CASE corruption # -1
      BY <3>1, <3>3, NothingShown
    <3> QED BY <3>2, <3>3
  <2> QED BY <2>1, <2>2, <2>3 DEF FsckNext, Exited
<1>3. FsckSpec => Tree!TreeInit /\ [][corruption' # -1 \/ Tree!TreeNext]_(Tree!treeVars)
  BY <1>1, <1>2, PTL DEF FsckSpec
<1> QED BY <1>3 DEF ImplementsTree

-----------------------------------------------------------------------------
\* What the directories hold.

\* The directories within d.
Within(d) == {c \in dirs : c # << >> /\ Front(c) = d}

\* The list of a directory d with inode i in one with inode j: after itself and
\* its parent, names in it and what they lead to, each once.
WellListed(list, d, i, j, names, num) ==
    /\ Len(list) >= 2 /\ list[1] = <<".", i>> /\ list[2] = <<"..", j>>
    /\ \A k \in 3 .. Len(list) : /\ list[k][1] \in Names
                                 /\ Append(d, list[k][1]) \in names
                                 /\ list[k][2] = num[Append(d, list[k][1])]
    /\ \A k, l \in 1 .. Len(list) : list[k][1] = list[l][1] => k = l

ParentInum(d) == IF d = << >> THEN ROOT ELSE nameToInum[Front(d)]

\* The disk holds no directory, and a directory no entry, that run() does not know
\* of; and a directory counts those within it.
ListInv ==
    /\ \A i \in OfType("d") : \E d \in dirs : nameToInum[d] = i
    /\ IsFiniteSet(dirs) /\ << >> \in dirs /\ nameToInum[<< >>] = ROOT
    /\ \A d \in dirs :
          /\ WellListed(dirList(d), d, nameToInum[d], ParentInum(d), files \cup dirs, nameToInum)
          /\ inodes[nameToInum[d]].refCnt = 2 + Cardinality(Within(d))

-----------------------------------------------------------------------------
\* Sets with as many elements as each other.
LEMMA SameSize ==
    ASSUME NEW S, NEW T, IsFiniteSet(S), NEW f \in [S -> T],
           \A x, y \in S : f[x] = f[y] => x = y,
           \A t \in T : \E x \in S : f[x] = t
    PROVE  Cardinality(T) = Cardinality(S)
<1>1. f \in Injection(S, T)
  BY DEF Injection, IsInjective
<1>2. f \in Surjection(S, T)
  BY DEF Surjection
<1> QED BY <1>1, <1>2, FS_Surjection

\* The entries of the directory with a given inode, found from its name.
LEMMA ListsOfNames ==
    ASSUME Sound, ListInv
    PROVE  /\ \A i : i \in OfType("d") <=> i \in Inodes /\ inodes[i].ftype = "d"
           /\ \A d \in dirs : /\ nameToInum[d] \in OfType("d") /\ nameToInum[d] \in ibitmap
                              /\ List(nameToInum[d]) = dirList(d)
                              /\ dirList(d) \in Seq(Entry) /\ DOMAIN dirList(d) = 1 .. Len(dirList(d))
                              /\ Len(dirList(d)) \in Nat
           /\ \A c, d \in dirs : nameToInum[c] = nameToInum[d] => c = d
           /\ \A d \in dirs : \A k \in 1 .. Len(dirList(d)) : dirList(d)[k][1] \in Names <=> k > 2
<1>1. \A i : i \in OfType("d") <=> i \in Inodes /\ inodes[i].ftype = "d"
  BY DEF OfType
<1>2. \A d \in dirs : nameToInum[d] \in OfType("d") /\ nameToInum[d] \in ibitmap
  BY <1>1 DEF Sound, KnownInv, FsckTypeOK
<1>3. \A d \in dirs : dirList(d) \in Seq(Entry) /\ Addr(d) # -1
  BY BlocksOfNames DEF Blocks
<1>4. \A d \in dirs : List(nameToInum[d]) = dirList(d)
  BY <1>1, <1>2, <1>3 DEF List, dirList, Addr
<1>5. \A c, d \in dirs : nameToInum[c] = nameToInum[d] => c = d
  BY DEF Sound, KnownInv
<1>6. \A d \in dirs : DOMAIN dirList(d) = 1 .. Len(dirList(d)) /\ Len(dirList(d)) \in Nat
  BY <1>3
<1>7. ASSUME NEW d \in dirs, NEW k \in 1 .. Len(dirList(d))
      PROVE  dirList(d)[k][1] \in Names <=> k > 2
  <2>1. WellListed(dirList(d), d, nameToInum[d], ParentInum(d), files \cup dirs, nameToInum)
    BY DEF ListInv
  <2>2. k = 1 \/ k = 2 \/ k \in 3 .. Len(dirList(d))
    BY <1>6, <1>7
  <2>3. k = 1 => dirList(d)[k][1] = "."
    BY <2>1 DEF WellListed
  <2>4. k = 2 => dirList(d)[k][1] = ".."
    BY <2>1 DEF WellListed
  <2>5. k \in 3 .. Len(dirList(d)) => dirList(d)[k][1] \in Names /\ k > 2
    BY <1>6, <2>1 DEF WellListed
  <2> QED BY <2>2, <2>3, <2>4, <2>5, VSFSAssumption
<1> QED BY <1>1, <1>2, <1>3, <1>4, <1>5, <1>6, <1>7

\* A name below a directory leads where the entry there leads, and only it does.
LEMMA EntryOfName ==
    ASSUME Sound, ListInv, NEW p \in files \cup dirs, p # << >>
    PROVE  /\ Front(p) \in dirs /\ p = Append(Front(p), Last(p))
           /\ \E k \in 3 .. Len(dirList(Front(p))) :
                 dirList(Front(p))[k] = <<Last(p), nameToInum[p]>>
<1>1. Front(p) \in dirs /\ p = Append(Front(p), Last(p)) /\ Last(p) \in Names
  BY PathAndLast DEF Sound, KnownInv
<1>2. PICK k \in DOMAIN dirList(Front(p)) : dirList(Front(p))[k][1] = Last(p)
  BY DEF Sound, KnownInv, dirEntryExists
<1>3. k \in 3 .. Len(dirList(Front(p))) /\ dirList(Front(p)) \in Seq(Entry)
  BY <1>1, <1>2, ListsOfNames
<1>4. dirList(Front(p))[k][2] = nameToInum[p]
  <2>1. WellListed(dirList(Front(p)), Front(p), nameToInum[Front(p)], ParentInum(Front(p)),
                   files \cup dirs, nameToInum)
    BY <1>1 DEF ListInv
  <2>2. dirList(Front(p))[k][2] = nameToInum[Append(Front(p), dirList(Front(p))[k][1])]
    BY <1>3, <2>1 DEF WellListed
  <2> QED BY <1>1, <1>2, <2>2
<1>5. dirList(Front(p))[k] = <<dirList(Front(p))[k][1], dirList(Front(p))[k][2]>>
  <2>1. dirList(Front(p))[k] \in Entry
    BY <1>3
  <2> QED BY <2>1 DEF Entry
<1> QED BY <1>1, <1>2, <1>3, <1>4, <1>5

\* What an entry of its own name stands for.
LEMMA NameOfEntry ==
    ASSUME Sound, ListInv, NEW d \in dirs, NEW k \in 3 .. Len(dirList(d))
    PROVE  LET p == Append(d, dirList(d)[k][1])
           IN  /\ p \in files \cup dirs /\ p # << >>
               /\ Front(p) = d /\ Last(p) = dirList(d)[k][1]
               /\ nameToInum[p] = dirList(d)[k][2]
               /\ p \in files <=> inodes[dirList(d)[k][2]].ftype = "f"
               /\ p \in dirs <=> inodes[dirList(d)[k][2]].ftype = "d"
<1> DEFINE n == dirList(d)[k][1]
           p == Append(d, n)
<1>1. n \in Names /\ p \in files \cup dirs /\ dirList(d)[k][2] = nameToInum[p]
  BY DEF ListInv, WellListed
<1>2. p # << >> /\ Front(p) = d /\ Last(p) = n
  BY <1>1, PathAndLast DEF Sound, KnownInv
<1>3. /\ p \in files => inodes[nameToInum[p]].ftype = "f"
      /\ p \in dirs => inodes[nameToInum[p]].ftype = "d"
  BY DEF Sound, KnownInv
<1> QED BY <1>1, <1>2, <1>3

\* A directory counts its subdirectories.
LEMMA SubdirectoriesAre ==
    ASSUME Sound, ListInv, NEW d \in dirs
    PROVE  Cardinality(Subdirectories(nameToInum[d])) = Cardinality(Within(d))
<1>1. PICK S : S = Subdirectories(nameToInum[d])
  OBVIOUS
<1>2. S = {k \in 3 .. Len(dirList(d)) : inodes[dirList(d)[k][2]].ftype = "d"}
  BY <1>1, ListsOfNames DEF Subdirectories
<1>3. PICK f : f = [k \in S |-> Append(d, dirList(d)[k][1])]
  OBVIOUS
<1>4. \A k \in S : f[k] \in Within(d)
  BY <1>2, <1>3, NameOfEntry DEF Within
<1>5. \A k, l \in S : f[k] = f[l] => k = l
  <2> SUFFICES ASSUME NEW k \in S, NEW l \in S, f[k] = f[l]
               PROVE  k = l
    OBVIOUS
  <2>1. dirList(d)[k][1] = dirList(d)[l][1]
    BY <1>2, <1>3, NameOfEntry
  <2>2. k \in 1 .. Len(dirList(d)) /\ l \in 1 .. Len(dirList(d))
    BY <1>2
  <2> QED BY <2>1, <2>2 DEF ListInv, WellListed
<1>6. \A c \in Within(d) : \E k \in S : f[k] = c
  <2> SUFFICES ASSUME NEW c \in dirs, c # << >>, Front(c) = d
               PROVE  \E k \in S : f[k] = c
    BY DEF Within
  <2>1. PICK k \in 3 .. Len(dirList(d)) : dirList(d)[k] = <<Last(c), nameToInum[c]>>
    BY EntryOfName
  <2>2. c = Append(d, Last(c)) /\ inodes[nameToInum[c]].ftype = "d"
    BY EntryOfName, ListsOfNames
  <2> QED BY <1>2, <1>3, <2>1, <2>2
<1>7. IsFiniteSet(S)
  <2>1. IsFiniteSet(3 .. Len(dirList(d)))
    BY FS_Interval, ListsOfNames
  <2> QED BY <1>2, <2>1, FS_Subset
<1>8. f \in [S -> Within(d)]
  BY <1>3, <1>4
<1> QED BY <1>1, <1>5, <1>6, <1>7, <1>8, SameSize

\* The entries of an inode.
LEMMA EntryPlaces ==
    ASSUME Sound, ListInv, NEW i, NEW e \in EntriesOf(i)
    PROVE  \E d \in dirs : \E k \in 3 .. Len(dirList(d)) :
              e = <<nameToInum[d], k>> /\ dirList(d)[k][2] = i
<1>1. PICK dn \in OfType("d") :
         e \in {<<dn, k>> : k \in {j \in DOMAIN List(dn) : List(dn)[j][1] \in Names
                                                           /\ List(dn)[j][2] = i}}
  BY DEF EntriesOf
<1>2. PICK k \in DOMAIN List(dn) : /\ e = <<dn, k>> /\ List(dn)[k][1] \in Names
                                   /\ List(dn)[k][2] = i
  BY <1>1
<1>3. PICK d \in dirs : nameToInum[d] = dn
  BY DEF ListInv
<1>4. List(dn) = dirList(d) /\ k \in 3 .. Len(dirList(d))
  BY <1>2, <1>3, ListsOfNames
<1> QED BY <1>2, <1>3, <1>4

\* A file has as many entries as names, one for each.
LEMMA EntriesAre ==
    ASSUME Sound, ListInv, NEW i \in OfType("f")
    PROVE  Cardinality(EntriesOf(i)) = Cardinality(NamesOf(i))
           /\ \A p \in NamesOf(i) : EntriesOf(i) # {}
<1>1. PICK S : S = EntriesOf(i)
  OBVIOUS
<1>2. PICK T : T = NamesOf(i)
  OBVIOUS
<1>3. \A e \in S : \E d \in dirs : \E k \in 3 .. Len(dirList(d)) :
         e = <<nameToInum[d], k>> /\ dirList(d)[k][2] = i
  BY <1>1, EntryPlaces
<1>4. \A d \in dirs : \A k \in 3 .. Len(dirList(d)) :
         dirList(d)[k][2] = i => <<nameToInum[d], k>> \in S
  BY <1>1, ListsOfNames DEF EntriesOf
<1>5. \A p \in T : p \in files /\ p # << >> /\ nameToInum[p] = i
  BY <1>2 DEF NamesOf, Sound, KnownInv
\* From the names, which are finitely many, to the entries.
<1>6. PICK place : place = [p \in T |-> CHOOSE k \in 3 .. Len(dirList(Front(p))) :
                                           dirList(Front(p))[k] = <<Last(p), i>>]
  OBVIOUS
<1>7. ASSUME NEW p \in T
      PROVE  /\ Front(p) \in dirs /\ p = Append(Front(p), Last(p))
             /\ place[p] \in 3 .. Len(dirList(Front(p)))
             /\ dirList(Front(p))[place[p]] = <<Last(p), i>>
  <2>1. /\ Front(p) \in dirs /\ p = Append(Front(p), Last(p))
        /\ \E k \in 3 .. Len(dirList(Front(p))) : dirList(Front(p))[k] = <<Last(p), i>>
    BY <1>5, EntryOfName
  <2> QED BY <1>6, <2>1
<1>8. PICK f : f = [p \in T |-> <<nameToInum[Front(p)], place[p]>>]
  OBVIOUS
<1>9. f \in [T -> S]
  BY <1>4, <1>7, <1>8
<1>10. \A p, q \in T : f[p] = f[q] => p = q
  <2> SUFFICES ASSUME NEW p \in T, NEW q \in T, f[p] = f[q]
               PROVE  p = q
    OBVIOUS
  <2>1. nameToInum[Front(p)] = nameToInum[Front(q)] /\ place[p] = place[q]
    BY <1>8
  <2>2. Front(p) = Front(q)
    BY <1>7, <2>1, ListsOfNames
  <2>3. Last(p) = Last(q)
    BY <1>7, <2>1, <2>2
  <2> QED BY <1>7, <2>2, <2>3
<1>11. \A e \in S : \E p \in T : f[p] = e
  <2> SUFFICES ASSUME NEW d \in dirs, NEW k \in 3 .. Len(dirList(d)), dirList(d)[k][2] = i
               PROVE  \E p \in T : f[p] = <<nameToInum[d], k>>
    BY <1>3
  <2>1. PICK p : p = Append(d, dirList(d)[k][1])
    OBVIOUS
  <2>2. /\ p \in files /\ Front(p) = d /\ Last(p) = dirList(d)[k][1] /\ nameToInum[p] = i
    <3>1. inodes[i].ftype = "f"
      BY DEF OfType
    <3> QED BY <2>1, <3>1, NameOfEntry
  <2>3. p \in T
    BY <1>2, <2>2 DEF NamesOf
  <2>4. dirList(d)[place[p]][1] = dirList(d)[k][1] /\ place[p] \in 3 .. Len(dirList(d))
    BY <1>7, <2>2, <2>3
  <2>5. WellListed(dirList(d), d, nameToInum[d], ParentInum(d), files \cup dirs, nameToInum)
    BY DEF ListInv
  <2>6. place[p] = k
    BY <2>4, <2>5 DEF WellListed
  <2> QED BY <1>8, <2>2, <2>3, <2>6
<1>12. IsFiniteSet(T)
  <2>1. T \subseteq files
    BY <1>5
  <2> QED BY <2>1, FS_Subset DEF Sound, KnownInv
<1>13. Cardinality(S) = Cardinality(T)
  BY <1>9, <1>10, <1>11, <1>12, SameSize
<1>14. \A p \in T : S # {}
  BY <1>9
<1> QED BY <1>1, <1>2, <1>13, <1>14

\* From what run() knows of the disk to what its inodes and blocks say by themselves.
LEMMA LinksFollow ==
    ASSUME Sound, NamedInv, ListInv
    PROVE  LinksAgree
<1>1. ASSUME NEW i \in OfType("f")
      PROVE  EntriesOf(i) # {} /\ inodes[i].refCnt = Cardinality(EntriesOf(i))
  <2>1. PICK p \in files : nameToInum[p] = i
    BY DEF NamedInv
  <2>2. p \in NamesOf(i)
    BY <2>1 DEF NamesOf
  <2>3. inodes[i].refCnt = Cardinality(NamesOf(i))
    BY FilesAre DEF Sound, KnownInv
  <2> QED BY <2>2, <2>3, EntriesAre
<1>2. ASSUME NEW d \in OfType("d")
      PROVE  /\ Len(List(d)) >= 2 /\ List(d)[1] = <<".", d>> /\ List(d)[2][1] = ".."
             /\ \A j, k \in DOMAIN List(d) : List(d)[j][1] = List(d)[k][1] => j = k
             /\ \A k \in DOMAIN List(d) : List(d)[k][2] \notin OfType("free")
             /\ inodes[d].refCnt = 2 + Cardinality(Subdirectories(d))
             /\ IF d = ROOT THEN EntriesOf(d) = {} /\ List(d)[2][2] = ROOT
                ELSE \E e \in EntriesOf(d) : EntriesOf(d) = {e} /\ List(d)[2][2] = e[1]
  <2>1. PICK D \in dirs : nameToInum[D] = d
    BY DEF ListInv
  <2>2. /\ WellListed(dirList(D), D, d, ParentInum(D), files \cup dirs, nameToInum)
        /\ inodes[d].refCnt = 2 + Cardinality(Within(D))
    BY <2>1 DEF ListInv
  <2>3. List(d) = dirList(D) /\ DOMAIN dirList(D) = 1 .. Len(dirList(D)) /\ Len(dirList(D)) \in Nat
    BY <2>1, ListsOfNames
  <2>4. /\ Len(List(d)) >= 2 /\ List(d)[1] = <<".", d>> /\ List(d)[2] = <<"..", ParentInum(D)>>
        /\ \A j, k \in DOMAIN List(d) : List(d)[j][1] = List(d)[k][1] => j = k
    BY <2>2, <2>3 DEF WellListed
  <2>5. inodes[d].refCnt = 2 + Cardinality(Subdirectories(d))
    BY <2>1, <2>2, SubdirectoriesAre
  <2>6. ParentInum(D) \in ibitmap
    <3>1. D # << >> => Front(D) \in dirs
      BY DEF Sound, KnownInv
    <3>2. << >> \in dirs /\ nameToInum[<< >>] = ROOT
      BY DEF ListInv
    <3> QED BY <3>1, <3>2, ListsOfNames DEF ParentInum
  <2>7. ASSUME NEW k \in DOMAIN List(d)
        PROVE  List(d)[k][2] \notin OfType("free")
    <3>1. CASE k = 1
      BY <2>4, <3>1 DEF OfType
    <3>2. CASE k = 2
      BY <2>4, <2>6, <3>2 DEF OfType, Sound, BitmapsAgree
    <3>3. CASE k \in 3 .. Len(dirList(D))
      BY <2>3, <3>3, NameOfEntry DEF OfType
    <3> QED BY <2>3, <3>1, <3>2, <3>3
  <2>8. ASSUME NEW e \in EntriesOf(d)
        PROVE  D # << >> /\ e[1] = nameToInum[Front(D)]
               /\ e[2] \in 3 .. Len(dirList(Front(D))) /\ dirList(Front(D))[e[2]][1] = Last(D)
               /\ e = <<e[1], e[2]>>
    <3>0. PICK E \in dirs : \E k \in 3 .. Len(dirList(E)) :
             e = <<nameToInum[E], k>> /\ dirList(E)[k][2] = d
      BY EntryPlaces
    <3>1. PICK k \in 3 .. Len(dirList(E)) : e = <<nameToInum[E], k>> /\ dirList(E)[k][2] = d
      BY <3>0
    <3>2. PICK p : p = Append(E, dirList(E)[k][1])
      OBVIOUS
    <3>3. /\ p \in dirs /\ p # << >> /\ Front(p) = E /\ Last(p) = dirList(E)[k][1]
          /\ nameToInum[p] = d
      BY <2>1, <3>1, <3>2, NameOfEntry, ListsOfNames
    <3>4. p = D
      BY <2>1, <3>3, ListsOfNames
    <3> QED BY <3>1, <3>3, <3>4
  <2>9. CASE d = ROOT
    <3>1. D = << >>
      BY <2>1, <2>9, ListsOfNames DEF ListInv
    <3> QED BY <2>4, <2>5, <2>7, <2>8, <2>9, <3>1 DEF ParentInum
  <2>10. CASE d # ROOT
    <3>1. D # << >>
      BY <2>1, <2>10 DEF ListInv
    <3>2. PICK k \in 3 .. Len(dirList(Front(D))) : dirList(Front(D))[k] = <<Last(D), d>>
      BY <2>1, <3>1, EntryOfName
    <3>3. Front(D) \in dirs
      BY <3>1, EntryOfName
    <3>4. <<nameToInum[Front(D)], k>> \in EntriesOf(d)
      BY <3>2, <3>3, ListsOfNames DEF EntriesOf
    <3>5. \A j, l \in 1 .. Len(dirList(Front(D))) :
             dirList(Front(D))[j][1] = dirList(Front(D))[l][1] => j = l
      BY <3>3 DEF ListInv, WellListed
    <3>6. \A e \in EntriesOf(d) : e = <<nameToInum[Front(D)], k>>
      BY <2>8, <3>2, <3>5
    <3>7. EntriesOf(d) = {<<nameToInum[Front(D)], k>>}
      BY <3>4, <3>6
    <3> QED BY <2>4, <2>5, <2>7, <2>10, <3>1, <3>7 DEF ParentInum
  <2> QED BY <2>9, <2>10
<1> QED BY <1>1, <1>2 DEF LinksAgree

-----------------------------------------------------------------------------
\* A list stays a list of what is there when no name in it goes or leads elsewhere.
LEMMA SameList ==
    ASSUME NEW list, NEW d, NEW i, NEW j, NEW names, NEW num, NEW names2, NEW num2,
           WellListed(list, d, i, j, names, num),
           \A k \in 3 .. Len(list) : LET q == Append(d, list[k][1])
                                     IN  q \in names2 /\ num2[q] = num[q]
    PROVE  WellListed(list, d, i, j, names2, num2)
  BY DEF WellListed

\* And it stays one when a name is added that it did not have ...
LEMMA LongerList ==
    ASSUME NEW list \in Seq(Entry), NEW d, NEW i, NEW j, NEW names, NEW num,
           NEW names2, NEW num2, NEW n \in Names, NEW inum \in Inodes,
           WellListed(list, d, i, j, names, num),
           \A k \in 1 .. Len(list) : list[k][1] # n,
           \A q \in names : q \in names2 /\ num2[q] = num[q],
           Append(d, n) \in names2, num2[Append(d, n)] = inum
    PROVE  WellListed(Append(list, <<n, inum>>), d, i, j, names2, num2)
<1>1. PICK longer : longer = Append(list, <<n, inum>>)
  OBVIOUS
<1>2. Len(list) \in Nat /\ Len(list) >= 2
  BY DEF WellListed
<1>3. /\ Len(longer) = Len(list) + 1
      /\ \A k \in 1 .. Len(list) : longer[k] = list[k]
      /\ longer[Len(list) + 1] = <<n, inum>>
  BY <1>1
<1>4. \A k \in 1 .. Len(longer) : k \in 1 .. Len(list) \/ k = Len(list) + 1
  BY <1>2, <1>3
<1>5. Len(longer) >= 2 /\ longer[1] = <<".", i>> /\ longer[2] = <<"..", j>>
  <2>1. 1 \in 1 .. Len(list) /\ 2 \in 1 .. Len(list)
    BY <1>2
  <2> QED BY <1>2, <1>3, <2>1 DEF WellListed
<1>6. ASSUME NEW k \in 3 .. Len(longer)
      PROVE  /\ longer[k][1] \in Names /\ Append(d, longer[k][1]) \in names2
             /\ longer[k][2] = num2[Append(d, longer[k][1])]
  <2>1. CASE k = Len(list) + 1
    BY <1>3, <2>1
  <2>2. CASE k \in 3 .. Len(list)
    <3>1. longer[k] = list[k]
      BY <1>2, <1>3, <2>2
    <3> QED BY <2>2, <3>1 DEF WellListed
  <2> QED BY <1>2, <1>3, <2>1, <2>2
<1>7. ASSUME NEW k \in 1 .. Len(longer), NEW l \in 1 .. Len(longer), longer[k][1] = longer[l][1]
      PROVE  k = l
  <2>1. CASE k \in 1 .. Len(list) /\ l \in 1 .. Len(list)
    BY <1>3, <1>7, <2>1 DEF WellListed
  <2>2. CASE k = Len(list) + 1 \/ l = Len(list) + 1
    BY <1>3, <1>4, <1>7, <2>2
  <2> QED BY <1>4, <2>1, <2>2
<1> QED BY <1>1, <1>5, <1>6, <1>7 DEF WellListed

\* ... or one that it had is removed.
LEMMA ShorterList ==
    ASSUME NEW list \in Seq(Entry), NEW d, NEW i, NEW j, NEW names, NEW num,
           NEW names2, NEW num2, NEW n \in Names,
           WellListed(list, d, i, j, names, num),
           \E k \in 1 .. Len(list) : list[k][1] = n,
           \A m \in Names : m # n /\ Append(d, m) \in names =>
                Append(d, m) \in names2 /\ num2[Append(d, m)] = num[Append(d, m)]
    PROVE  WellListed(Removed(list, n), d, i, j, names2, num2)
<1>1. PICK r : r = Removed(list, n)
  OBVIOUS
<1>2. Len(list) \in Nat /\ Len(list) >= 2
  BY DEF WellListed
<1>3. PICK x \in 1 .. Len(list) :
         /\ list[x][1] = n /\ Len(r) = Len(list) - 1
         /\ \A k \in 1 .. Len(r) : r[k] = IF k < x THEN list[k] ELSE list[k + 1]
  <2>1. PICK S, s : S = Entry /\ s = list
    OBVIOUS
  <2>2. s \in Seq(S) /\ r = Removed(s, n) /\ \E k \in 1 .. Len(s) : s[k][1] = n
    BY <1>1, <2>1
  <2>3. \E x \in 1 .. Len(s) :
              /\ s[x][1] = n /\ Len(Removed(s, n)) = Len(s) - 1
              /\ \A k \in 1 .. Len(Removed(s, n)) :
                    Removed(s, n)[k] = IF k < x THEN s[k] ELSE s[k + 1]
    <3>1. s \in Seq(S)
      BY <2>2
    <3>2. \E k \in 1 .. Len(s) : s[k][1] = n
      BY <2>2
    <3> QED BY <3>1, <3>2, RemovedIs
  <2> QED BY <2>1, <2>2, <2>3
<1>4. x > 2
  <2>1. list[1][1] = "." /\ list[2][1] = ".."
    BY DEF WellListed
  <2>2. x # 1 /\ x # 2
    BY <1>3, <2>1, VSFSAssumption
  <2> QED BY <1>2, <2>2
<1>5. Len(r) >= 2 /\ r[1] = <<".", i>> /\ r[2] = <<"..", j>>
  <2>1. 1 \in 1 .. Len(r) /\ 2 \in 1 .. Len(r) /\ Len(r) >= 2
    BY <1>2, <1>3, <1>4
  <2> QED BY <1>2, <1>3, <1>4, <2>1 DEF WellListed
\* Where the entries were.
<1>6. PICK was : was = [k \in 1 .. Len(r) |-> IF k < x THEN k ELSE k + 1]
  OBVIOUS
<1>7. \A k \in 1 .. Len(r) : /\ r[k] = list[was[k]] /\ was[k] \in 1 .. Len(list) /\ was[k] # x
                             /\ k > 2 => was[k] \in 3 .. Len(list)
  BY <1>2, <1>3, <1>4, <1>6
<1>8. \A k, l \in 1 .. Len(r) : was[k] = was[l] => k = l
  BY <1>2, <1>3, <1>6
<1>9. \A k \in 1 .. Len(list) : k # x => list[k][1] # n
  BY <1>3 DEF WellListed
<1>10. ASSUME NEW k \in 3 .. Len(r)
       PROVE  /\ r[k][1] \in Names /\ Append(d, r[k][1]) \in names2
              /\ r[k][2] = num2[Append(d, r[k][1])]
  <2>1. r[k] = list[was[k]] /\ was[k] \in 3 .. Len(list) /\ list[was[k]][1] # n
    <3>1. k \in 1 .. Len(r) /\ k > 2
      BY <1>2, <1>3
    <3> QED BY <1>7, <1>9, <3>1
  <2> QED BY <2>1 DEF WellListed
<1>11. \A k, l \in 1 .. Len(r) : r[k][1] = r[l][1] => k = l
  BY <1>7, <1>8 DEF WellListed
<1> QED BY <1>1, <1>5, <1>10, <1>11 DEF WellListed

-----------------------------------------------------------------------------
\* What the two operations on directories make of the lists.
LEMMA ListChanged ==
    ASSUME Sound, NEW d \in dirs, NEW blocks \in BlockTable, NEW list,
           data' = [blocks EXCEPT ![Addr(d)].dirList = list]
    PROVE  \A b \in Blocks : data'[b].dirList = IF b = Addr(d) THEN list ELSE blocks[b].dirList
<1>1. Addr(d) \in Blocks
  BY BlocksOfNames
<1>2. data' = [blocks EXCEPT ![Addr(d)] = [blocks[Addr(d)] EXCEPT !.dirList = list]]
  OBVIOUS
<1>3. [blocks[Addr(d)] EXCEPT !.dirList = list].dirList = list
  <2>1. blocks[Addr(d)] \in Block
    BY <1>1
  <2> QED BY <2>1
<1> QED BY <1>1, <1>2, <1>3

\* addDirEntry puts an entry at the end of the list of its directory ...
LEMMA ListsAfterAdding ==
    ASSUME Sound, NEW d \in dirs, NEW blocks \in BlockTable, NEW n, NEW inum,
           data' = addDirEntry(blocks, d, n, inum)
    PROVE  \A b \in Blocks : data'[b].dirList = IF b = Addr(d)
                                                THEN Append(blocks[b].dirList, <<n, inum>>)
                                                ELSE blocks[b].dirList
<1> DEFINE list == Append(blocks[Addr(d)].dirList, <<n, inum>>)
<1>1. data' = [blocks EXCEPT ![Addr(d)].dirList = list]
  <2>1. Addr(d) \in Blocks
    BY BlocksOfNames
  <2> QED BY <2>1 DEF addDirEntry, Addr
<1> HIDE DEF list
<1>2. \A b \in Blocks : data'[b].dirList = IF b = Addr(d) THEN list ELSE blocks[b].dirList
  BY <1>1, ListChanged
<1> QED BY <1>2 DEF list

\* ... and delDirEntry removes one, from the list of its directory alone.
LEMMA ListsAfterRemoving ==
    ASSUME Sound, NEW p \in files, NEW blocks \in BlockTable,
           data' = delDirEntry(blocks, p)
    PROVE  /\ Front(p) \in dirs
           /\ \A b \in Blocks : data'[b].dirList = IF b = Addr(Front(p))
                                                   THEN Removed(blocks[b].dirList, Last(p))
                                                   ELSE blocks[b].dirList
<1> DEFINE list == Removed(blocks[Addr(Front(p))].dirList, Last(p))
<1>1. Front(p) \in dirs
  BY DEF Sound, KnownInv
<1>2. data' = [blocks EXCEPT ![Addr(Front(p))].dirList = list]
  <2>1. Addr(Front(p)) \in Blocks
    BY <1>1, BlocksOfNames
  <2> QED BY <2>1 DEF delDirEntry, Addr, Removed
<1> HIDE DEF list
<1>3. \A b \in Blocks : data'[b].dirList = IF b = Addr(Front(p)) THEN list ELSE blocks[b].dirList
  BY <1>1, <1>2, ListChanged
<1> QED BY <1>1, <1>3 DEF list

\* A request that makes no directory keeps the invariant when it keeps each list.
LEMMA SameDirectories ==
    ASSUME Sound, ListInv, dirs' = dirs, OfType("d")' = OfType("d"),
           \A d \in dirs :
              /\ nameToInum'[d] = nameToInum[d]
              /\ inodes'[nameToInum[d]].refCnt = inodes[nameToInum[d]].refCnt
              /\ WellListed(dirList(d)', d, nameToInum[d], ParentInum(d),
                            files' \cup dirs', nameToInum')
    PROVE  ListInv'
<1>1. \A d \in dirs : ParentInum(d)' = ParentInum(d)
  BY DEF ParentInum, Sound, KnownInv
<1>2. \A d \in dirs : Within(d)' = Within(d)
  BY DEF Within
<1>3. \A i \in OfType("d")' : \E d \in dirs' : nameToInum'[d] = i
  BY DEF ListInv
<1>4. IsFiniteSet(dirs') /\ << >> \in dirs' /\ nameToInum'[<< >>] = ROOT
  BY DEF ListInv
<1>5. \A d \in dirs' :
         /\ WellListed(dirList(d)', d, nameToInum'[d], ParentInum(d)', files' \cup dirs', nameToInum')
         /\ inodes'[nameToInum'[d]].refCnt = 2 + Cardinality(Within(d)')
  BY <1>1, <1>2 DEF ListInv
<1> QED BY <1>3, <1>4, <1>5 DEF ListInv

\* The directory keeps its list when nothing is entered in it or removed from it.
LEMMA OtherLists ==
    ASSUME Sound, ListInv, NEW d \in dirs, NEW list, list = dirList(d), NEW names, NEW num,
           \A q \in files \cup dirs : Front(q) = d /\ q # << >> => q \in names /\ num[q] = nameToInum[q]
    PROVE  WellListed(list, d, nameToInum[d], ParentInum(d), names, num)
<1>1. WellListed(list, d, nameToInum[d], ParentInum(d), files \cup dirs, nameToInum)
  BY DEF ListInv
<1>2. \A k \in 3 .. Len(list) : LET q == Append(d, list[k][1])
                                IN  q \in names /\ num[q] = nameToInum[q]
  BY NameOfEntry
<1> QED BY <1>1, <1>2, SameList

\* The directory with a new entry.
LEMMA ListWithEntry ==
    ASSUME Sound, ListInv, NEW d \in dirs, NEW n \in Names, NEW inum \in Inodes, MayEnter(d, n),
           NEW names, NEW num, NEW list, list = Append(dirList(d), <<n, inum>>),
           \A q \in files \cup dirs : q \in names /\ num[q] = nameToInum[q],
           Append(d, n) \in names, num[Append(d, n)] = inum
    PROVE  WellListed(list, d, nameToInum[d], ParentInum(d), names, num)
<1>1. /\ WellListed(dirList(d), d, nameToInum[d], ParentInum(d), files \cup dirs, nameToInum)
      /\ dirList(d) \in Seq(Entry)
  BY ListsOfNames DEF ListInv
<1>2. \A k \in 1 .. Len(dirList(d)) : dirList(d)[k][1] # n
  BY <1>1 DEF MayEnter, dirEntryExists
<1> QED BY <1>1, <1>2, LongerList

\* The directory that loses an entry.
LEMMA ListWithout ==
    ASSUME Sound, ListInv, NEW p \in files, NEW names, NEW num, NEW list,
           list = Removed(dirList(Front(p)), Last(p)),
           \A q \in files \cup dirs : q # p => q \in names /\ num[q] = nameToInum[q]
    PROVE  WellListed(list, Front(p), nameToInum[Front(p)], ParentInum(Front(p)), names, num)
<1>1. /\ Front(p) \in dirs /\ p # << >> /\ p = Append(Front(p), Last(p)) /\ Last(p) \in Names
      /\ \E k \in 3 .. Len(dirList(Front(p))) :
            dirList(Front(p))[k] = <<Last(p), nameToInum[p]>>
  <2>1. p # << >> /\ p \in Seq(Names)
    BY DEF Sound, KnownInv
  <2> QED BY <2>1, EntryOfName, PathAndLast
<1>2. /\ WellListed(dirList(Front(p)), Front(p), nameToInum[Front(p)], ParentInum(Front(p)),
                    files \cup dirs, nameToInum)
      /\ dirList(Front(p)) \in Seq(Entry)
  BY <1>1, ListsOfNames DEF ListInv
<1>3. \E k \in 1 .. Len(dirList(Front(p))) : dirList(Front(p))[k][1] = Last(p)
  <2>1. PICK k \in 3 .. Len(dirList(Front(p))) :
           dirList(Front(p))[k] = <<Last(p), nameToInum[p]>>
    BY <1>1
  <2> QED BY <2>1
<1>4. ASSUME NEW m \in Names, m # Last(p), Append(Front(p), m) \in files \cup dirs
      PROVE  Append(Front(p), m) \in names /\ num[Append(Front(p), m)] = nameToInum[Append(Front(p), m)]
  <2>1. Last(Append(Front(p), m)) = m
    BY <1>1, PathAndLast DEF Sound, KnownInv
  <2> QED BY <1>4, <2>1
<1> QED BY <1>1, <1>2, <1>3, <1>4, ShorterList

-----------------------------------------------------------------------------
\* A new name of a file: its directory has one entry more.
LEMMA LinkLists ==
    ASSUME Sound, ListInv, Done, NEW target \in files, NEW parent \in dirs, NEW n \in Names,
           createLink(target, parent, n)
    PROVE  ListInv'
<1>1. PICK inum, p : inum = nameToInum[target] /\ p = Append(parent, n)
  OBVIOUS
<1>2. /\ inum \in Inodes /\ inodes[inum].ftype = "f" /\ inodes \in InodeTable /\ data \in BlockTable
      /\ Inodes' = Inodes /\ p \notin files \cup dirs
  <2>1. inum \in ibitmap /\ inodes[inum].ftype = "f"
    BY <1>1 DEF Sound, KnownInv
  <2> QED BY <1>1, <2>1, FreshName, SizesStay DEF createLink, Done, Sound, FsckTypeOK, Entry
<1>3. /\ inodes' = [inodes EXCEPT ![inum].refCnt = @ + 1]
      /\ data' = addDirEntry(data, parent, n, inum)
      /\ files' = files \cup {p} /\ dirs' = dirs /\ Remember(p, inum) /\ MayEnter(parent, n)
  BY <1>1 DEF createLink
<1>4. /\ \A i \in Inodes : inodes'[i].ftype = inodes[i].ftype /\ inodes'[i].addr = inodes[i].addr
      /\ \A i \in Inodes : i # inum => inodes'[i].refCnt = inodes[i].refCnt
  BY <1>2, <1>3
<1>5. OfType("d")' = OfType("d")
  BY <1>2, <1>4 DEF OfType
<1>6. /\ nameToInum'[p] = inum
      /\ \A q \in files \cup dirs : nameToInum'[q] = nameToInum[q]
  BY <1>2, <1>3, Remembered
<1>7. \A d \in dirs : /\ nameToInum[d] \in Inodes /\ nameToInum[d] # inum
                      /\ inodes'[nameToInum[d]] .addr = Addr(d) /\ Addr(d) \in Blocks
                      /\ inodes'[nameToInum[d]].refCnt = inodes[nameToInum[d]].refCnt
  BY <1>2, <1>4, BlocksOfNames, ListsOfNames DEF Addr
<1>8. \A d \in dirs : dirList(d)' = IF d = parent THEN Append(dirList(d), <<n, inum>>) ELSE dirList(d)
  <2>1. \A b \in Blocks : data'[b].dirList = IF b = Addr(parent)
                                             THEN Append(data[b].dirList, <<n, inum>>)
                                             ELSE data[b].dirList
    BY <1>2, <1>3, ListsAfterAdding
  <2>2. \A d \in dirs : Addr(d) = Addr(parent) => d = parent
    BY BlocksOfNames
  <2>3. \A d \in dirs : dirList(d) = data[Addr(d)].dirList /\ dirList(d)' = data'[Addr(d)].dirList
    BY <1>3, <1>6, <1>7 DEF dirList, Addr
  <2> QED BY <1>7, <2>1, <2>2, <2>3
<1>9. ASSUME NEW d \in dirs
      PROVE  WellListed(dirList(d)', d, nameToInum[d], ParentInum(d), files' \cup dirs', nameToInum')
  <2>1. CASE d = parent
    BY <1>1, <1>2, <1>3, <1>6, <1>8, <2>1, ListWithEntry
  <2>2. CASE d # parent
    BY <1>3, <1>6, <1>8, <2>2, OtherLists
  <2> QED BY <2>1, <2>2
<1> QED BY <1>3, <1>5, <1>6, <1>7, <1>9, SameDirectories

\* A new file: its inode was free, so no list led to it.
LEMMA CreateLists ==
    ASSUME Sound, ListInv, Done, NEW parent \in dirs, NEW n \in Names, create(parent, n)
    PROVE  ListInv'
<1>1. PICK inum \in Inodes :
         /\ inum \notin ibitmap
         /\ inodes' = [inodes EXCEPT ![inum] = [ftype |-> "f", addr |-> -1, refCnt |-> 1]]
         /\ data' = addDirEntry(data, parent, n, inum)
         /\ files' = files \cup {Append(parent, n)}
         /\ Remember(Append(parent, n), inum)
  BY Allocated DEF create
<1>2. PICK p : p = Append(parent, n)
  OBVIOUS
<1>3. /\ dirs' = dirs /\ MayEnter(parent, n) /\ p \notin files \cup dirs /\ Inodes' = Inodes
      /\ inodes \in InodeTable /\ data \in BlockTable
  BY <1>2, FreshName, SizesStay DEF create, Done, Sound, FsckTypeOK, Entry
<1>4. /\ \A i \in Inodes : i # inum => inodes'[i] = inodes[i]
      /\ inodes'[inum].ftype = "f" /\ inodes[inum].ftype = "free"
  BY <1>1, <1>3 DEF Sound, BitmapsAgree
<1>5. OfType("d")' = OfType("d")
  BY <1>3, <1>4 DEF OfType
<1>6. /\ nameToInum'[p] = inum
      /\ \A q \in files \cup dirs : nameToInum'[q] = nameToInum[q]
  BY <1>1, <1>2, <1>3, Remembered
<1>7. \A d \in dirs : /\ nameToInum[d] \in Inodes /\ nameToInum[d] # inum
                      /\ inodes'[nameToInum[d]] = inodes[nameToInum[d]] /\ Addr(d) \in Blocks
  BY <1>1, <1>4, BlocksOfNames, ListsOfNames
<1>8. \A d \in dirs : dirList(d)' = IF d = parent THEN Append(dirList(d), <<n, inum>>) ELSE dirList(d)
  <2>1. \A b \in Blocks : data'[b].dirList = IF b = Addr(parent)
                                             THEN Append(data[b].dirList, <<n, inum>>)
                                             ELSE data[b].dirList
    BY <1>1, <1>3, ListsAfterAdding
  <2>2. \A d \in dirs : Addr(d) = Addr(parent) => d = parent
    BY BlocksOfNames
  <2>3. \A d \in dirs : dirList(d) = data[Addr(d)].dirList /\ dirList(d)' = data'[Addr(d)].dirList
    BY <1>3, <1>6, <1>7 DEF dirList, Addr
  <2> QED BY <1>7, <2>1, <2>2, <2>3
<1>9. ASSUME NEW d \in dirs
      PROVE  WellListed(dirList(d)', d, nameToInum[d], ParentInum(d), files' \cup dirs', nameToInum')
  <2>1. files' \cup dirs' = files \cup dirs \cup {p}
    BY <1>1, <1>2, <1>3
  <2>2. CASE d = parent
    BY <1>1, <1>2, <1>3, <1>6, <1>8, <2>1, <2>2, ListWithEntry
  <2>3. CASE d # parent
    BY <1>6, <1>8, <2>1, <2>3, OtherLists
  <2> QED BY <2>2, <2>3
<1> QED BY <1>3, <1>5, <1>6, <1>7, <1>9, SameDirectories

\* Writing takes no block of a directory.
LEMMA WriteLists ==
    ASSUME Sound, ListInv, Done, NEW p \in files, NEW v \in Contents, writeFile(p, v)
    PROVE  ListInv'
<1>1. PICK inum : inum = nameToInum[p]
  OBVIOUS
<1>2. PICK block \in Blocks :
         /\ block \notin dbitmap
         /\ data' = [data EXCEPT ![block].ftype = "f", ![block].data = v]
         /\ inodes' = [inodes EXCEPT ![inum].addr = block]
  BY <1>1, Allocated DEF writeFile
<1>3. /\ inum \in Inodes /\ inodes[inum].ftype = "f" /\ Inodes' = Inodes
      /\ inodes \in InodeTable /\ data \in BlockTable
      /\ files' = files /\ dirs' = dirs /\ nameToInum' = nameToInum
  <2>1. inum \in ibitmap /\ inodes[inum].ftype = "f"
    BY <1>1 DEF Sound, KnownInv
  <2> QED BY <2>1, SizesStay DEF writeFile, Done, known, Sound, FsckTypeOK, Entry
<1>4. /\ \A i \in Inodes : inodes'[i].ftype = inodes[i].ftype
      /\ \A i \in Inodes : i # inum => inodes'[i] = inodes[i]
  BY <1>2, <1>3
<1>5. OfType("d")' = OfType("d")
  BY <1>3, <1>4 DEF OfType
<1>6. \A d \in dirs : /\ nameToInum[d] \in Inodes /\ nameToInum[d] # inum
                      /\ inodes'[nameToInum[d]] = inodes[nameToInum[d]] /\ Addr(d) \in Blocks
  BY <1>3, <1>4, BlocksOfNames, ListsOfNames
<1>7. \A b \in Blocks : data'[b].dirList = data[b].dirList
  BY <1>2, <1>3
<1>8. \A d \in dirs : dirList(d)' = dirList(d)
  BY <1>3, <1>6, <1>7 DEF dirList, Addr
<1>9. \A d \in dirs :
         WellListed(dirList(d)', d, nameToInum[d], ParentInum(d), files' \cup dirs', nameToInum')
  BY <1>3, <1>8, OtherLists
<1> QED BY <1>3, <1>5, <1>6, <1>9, SameDirectories

\* A name less: its directory loses the one entry of that name, and the inode that
\* may become free is no directory.
LEMMA DeleteLists ==
    ASSUME Sound, ListInv, Done, NEW p \in files, deleteFile(p)
    PROVE  ListInv'
<1>1. PICK inum, block : inum = nameToInum[p] /\ block = inodes[inum].addr
  OBVIOUS
<1>2. /\ inum \in Inodes /\ inodes[inum].ftype = "f" /\ Inodes' = Inodes
      /\ inodes \in InodeTable /\ data \in BlockTable
  <2>1. inum \in ibitmap /\ inodes[inum].ftype = "f"
    BY <1>1 DEF Sound, KnownInv
  <2> QED BY <2>1, SizesStay DEF Done, Sound, FsckTypeOK, Entry
<1>3. /\ files' = files \ {p} /\ dirs' = dirs
      /\ \A q \in files' \cup dirs' : nameToInum'[q] = nameToInum[q]
  BY DEF deleteFile
<1>4. p \notin dirs
  <2>1. \A d \in dirs : nameToInum[d] # inum
    BY <1>2, ListsOfNames
  <2> QED BY <1>1, <2>1
\* The freed block, if any, is no directory's.
<1>5. PICK blocks \in BlockTable :
         /\ data' = delDirEntry(blocks, p)
         /\ \A d \in dirs : blocks[Addr(d)] = data[Addr(d)]
  <2>1. CASE inodes[inum].refCnt = 1
    <3>1. PICK blocks : blocks = [b \in Blocks |-> IF b = block THEN FreeBlock ELSE data[b]]
      OBVIOUS
    <3>2. blocks \in BlockTable
      <4>1. FreeBlock \in Block
        BY DEF FreeBlock
      <4> QED BY <1>2, <3>1, <4>1
    <3>3. data' = delDirEntry(blocks, p)
      BY <1>1, <2>1, <3>1 DEF deleteFile
    <3>4. \A d \in dirs : Addr(d) \in Blocks /\ Addr(d) # block
      <4>1. Addr(p) = block /\ -1 \notin Blocks
        BY <1>1 DEF Addr, Blocks
      <4>2. block \in Blocks => data[block].ftype = "f"
        BY <4>1, BlocksOfNames
      <4> QED BY <4>2, BlocksOfNames
    <3> QED BY <3>1, <3>2, <3>3, <3>4
  <2>2. CASE inodes[inum].refCnt # 1
    <3>1. data' = delDirEntry(data, p)
      BY <1>1, <2>2 DEF deleteFile
    <3> QED BY <1>2, <3>1
  <2> QED BY <2>1, <2>2
<1>6. /\ \A i \in Inodes : i # inum => inodes'[i] = inodes[i]
      /\ inodes'[inum].ftype # "d"
  <2>1. CASE inodes[inum].refCnt = 1
    <3>1. inodes' = [inodes EXCEPT ![inum] = [@ EXCEPT !.ftype = "free", !.addr = -1]]
      BY <1>1, <2>1 DEF deleteFile
    <3> QED BY <1>2, <3>1
  <2>2. CASE inodes[inum].refCnt # 1
    <3>1. inodes' = [inodes EXCEPT ![inum].refCnt = @ - 1]
      BY <1>1, <2>2 DEF deleteFile
    <3> QED BY <1>2, <3>1
  <2> QED BY <2>1, <2>2
<1>7. OfType("d")' = OfType("d")
  BY <1>2, <1>6 DEF OfType
<1>8. \A d \in dirs : /\ nameToInum[d] \in Inodes /\ nameToInum[d] # inum
                      /\ inodes'[nameToInum[d]] = inodes[nameToInum[d]] /\ Addr(d) \in Blocks
  BY <1>2, <1>6, BlocksOfNames, ListsOfNames
<1>9. \A d \in dirs : dirList(d)' = IF d = Front(p) THEN Removed(dirList(d), Last(p)) ELSE dirList(d)
  <2>1. /\ Front(p) \in dirs
        /\ \A b \in Blocks : data'[b].dirList = IF b = Addr(Front(p))
                                                THEN Removed(blocks[b].dirList, Last(p))
                                                ELSE blocks[b].dirList
    BY <1>5, ListsAfterRemoving
  <2>2. \A d \in dirs : Addr(d) = Addr(Front(p)) => d = Front(p)
    BY <2>1, BlocksOfNames
  <2>3. \A d \in dirs : dirList(d) = data[Addr(d)].dirList /\ dirList(d)' = data'[Addr(d)].dirList
    BY <1>3, <1>8 DEF dirList, Addr
  <2> QED BY <1>5, <1>8, <2>1, <2>2, <2>3
<1>10. \A q \in files \cup dirs : q # p => q \in files' \cup dirs' /\ nameToInum'[q] = nameToInum[q]
  BY <1>3
<1>11. ASSUME NEW d \in dirs
       PROVE  WellListed(dirList(d)', d, nameToInum[d], ParentInum(d), files' \cup dirs', nameToInum')
  <2>1. CASE d = Front(p)
    <3>1. dirList(d)' = Removed(dirList(Front(p)), Last(p))
      BY <1>9, <2>1
    <3> QED BY <1>10, <2>1, <3>1, ListWithout
  <2>2. CASE d # Front(p)
    BY <1>9, <1>10, <2>2, OtherLists
  <2> QED BY <2>1, <2>2
<1> QED BY <1>3, <1>4, <1>7, <1>8, <1>11, SameDirectories

\* A new directory: its list is that of its block, its parent has one entry and
\* counts one more.
LEMMA MkdirLists ==
    ASSUME Sound, ListInv, Done, NEW parent \in dirs, NEW n \in Names, mkdir(parent, n)
    PROVE  ListInv'
<1>1. PICK pinum, p : pinum = nameToInum[parent] /\ p = Append(parent, n)
  OBVIOUS
<1>2. PICK inum \in Inodes, block \in Blocks :
         /\ inum \notin ibitmap /\ block \notin dbitmap
         /\ inodes' = [inodes EXCEPT ![inum] = [ftype |-> "d", addr |-> block, refCnt |-> 2],
                                     ![pinum].refCnt = @ + 1]
         /\ data' = addDirEntry([data EXCEPT ![block] = DirBlock(inum, pinum)], parent, n, inum)
         /\ dirs' = dirs \cup {p}
         /\ Remember(p, inum)
  BY <1>1, Allocated DEF mkdir
<1>3. /\ files' = files /\ MayEnter(parent, n) /\ p \notin files \cup dirs /\ Inodes' = Inodes
      /\ inodes \in InodeTable /\ data \in BlockTable
      /\ parent \in Seq(Names) /\ p \in Seq(Names) /\ p # << >> /\ Front(p) = parent
  <2>1. parent \in Seq(Names)
    BY DEF Sound, KnownInv
  <2> QED BY <1>1, <2>1, FreshName, PathAndLast, SizesStay DEF mkdir, Done, Sound, FsckTypeOK, Entry
<1>4. /\ pinum \in Inodes /\ pinum \in ibitmap /\ pinum # inum /\ inodes[pinum].ftype = "d"
      /\ inodes[inum].ftype = "free"
  BY <1>1, <1>2, ListsOfNames DEF Sound, BitmapsAgree
<1>5. /\ \A i \in Inodes : i # inum => /\ inodes'[i].ftype = inodes[i].ftype
                                       /\ inodes'[i].addr = inodes[i].addr
      /\ \A i \in Inodes : i # inum /\ i # pinum => inodes'[i].refCnt = inodes[i].refCnt
      /\ inodes'[pinum].refCnt = inodes[pinum].refCnt + 1
      /\ inodes'[inum] = [ftype |-> "d", addr |-> block, refCnt |-> 2]
  BY <1>2, <1>3, <1>4
<1>6. OfType("d")' = OfType("d") \cup {inum}
  BY <1>2, <1>3, <1>5 DEF OfType
<1>7. /\ nameToInum'[p] = inum
      /\ \A q \in files \cup dirs : nameToInum'[q] = nameToInum[q]
  <2>1. nameToInum'[p] = inum
    BY <1>2 DEF Remember
  <2> QED BY <1>2, <1>3, <2>1, Remembered
<1>8. \A d \in dirs : /\ nameToInum[d] \in Inodes /\ nameToInum[d] # inum
                      /\ inodes'[nameToInum[d]].addr = Addr(d) /\ Addr(d) \in Blocks
                      /\ Addr(d) # block /\ Addr(d) \in dbitmap
  <2> SUFFICES ASSUME NEW d \in dirs
               PROVE  /\ nameToInum[d] \in Inodes /\ nameToInum[d] # inum
                      /\ inodes'[nameToInum[d]].addr = Addr(d) /\ Addr(d) \in Blocks
                      /\ Addr(d) # block /\ Addr(d) \in dbitmap
    OBVIOUS
  <2>1. nameToInum[d] \in Inodes /\ nameToInum[d] # inum
    BY <1>2, ListsOfNames
  <2>2. Addr(d) \in Blocks /\ Addr(d) \in dbitmap
    BY BlocksOfNames
  <2> QED BY <1>2, <1>5, <2>1, <2>2 DEF Addr
\* The new block is written first, and then the parent's.
<1>9. PICK blocks : blocks = [data EXCEPT ![block] = DirBlock(inum, pinum)]
  OBVIOUS
<1>10. /\ blocks \in BlockTable
       /\ blocks[block].dirList = << <<".", inum>>, <<"..", pinum>> >>
       /\ \A d \in dirs : blocks[Addr(d)] = data[Addr(d)]
  <2>1. DirBlock(inum, pinum) \in Block
    BY <1>2, <1>4, FreshBlocks
  <2>2. DirBlock(inum, pinum).dirList = << <<".", inum>>, <<"..", pinum>> >>
    BY DEF DirBlock, FreeBlock
  <2>3. blocks[block] = DirBlock(inum, pinum)
    BY <1>3, <1>9
  <2>4. blocks \in BlockTable
    <3> HIDE DEF Block
    <3> QED BY <1>3, <1>9, <2>1 DEF Block
  <2> QED BY <1>8, <1>9, <2>2, <2>3, <2>4
<1>11. \A b \in Blocks : data'[b].dirList = IF b = Addr(parent)
                                            THEN Append(blocks[b].dirList, <<n, inum>>)
                                            ELSE blocks[b].dirList
  <2>1. data' = addDirEntry(blocks, parent, n, inum)
    BY <1>2, <1>9
  <2> QED BY <1>10, <2>1, ListsAfterAdding
<1>12. \A d \in dirs : dirList(d)' = IF d = parent THEN Append(dirList(d), <<n, inum>>) ELSE dirList(d)
  <2>1. \A d \in dirs : Addr(d) = Addr(parent) => d = parent
    BY BlocksOfNames
  <2>2. \A d \in dirs : dirList(d) = data[Addr(d)].dirList /\ dirList(d)' = data'[Addr(d)].dirList
    BY <1>7, <1>8 DEF dirList, Addr
  <2>3. \A d \in dirs : dirList(d) = blocks[Addr(d)].dirList
    BY <1>10, <2>2
  <2> QED BY <1>8, <1>11, <2>1, <2>2, <2>3
<1>13. dirList(p)' = << <<".", inum>>, <<"..", pinum>> >>
  <2>1. dirList(p)' = data'[block].dirList
    BY <1>5, <1>7 DEF dirList
  <2> QED BY <1>8, <1>10, <1>11, <2>1
<1>14. \A d \in dirs : ParentInum(d)' = ParentInum(d)
  BY <1>7 DEF ParentInum, Sound, KnownInv
<1>15. ParentInum(p)' = pinum
  BY <1>1, <1>3, <1>7 DEF ParentInum
<1>16. files' \cup dirs' = files \cup dirs \cup {p}
  BY <1>2, <1>3
<1>17. ASSUME NEW d \in dirs
       PROVE  WellListed(dirList(d)', d, nameToInum[d], ParentInum(d), files' \cup dirs', nameToInum')
  <2>1. CASE d = parent
    BY <1>1, <1>3, <1>7, <1>12, <1>16, <2>1, ListWithEntry
  <2>2. CASE d # parent
    BY <1>7, <1>12, <1>16, <2>2, OtherLists
  <2> QED BY <2>1, <2>2
<1>18. WellListed(dirList(p)', p, inum, pinum, files' \cup dirs', nameToInum')
  <2>1. PICK list : list = << <<".", inum>>, <<"..", pinum>> >>
    OBVIOUS
  <2>2. Len(list) = 2 /\ list[1] = <<".", inum>> /\ list[2] = <<"..", pinum>>
    BY <2>1
  <2>3. \A k, l \in 1 .. Len(list) : list[k][1] = list[l][1] => k = l
    <3>1. \A k \in 1 .. Len(list) : k = 1 \/ k = 2
      BY <2>2
    <3> QED BY <2>2, <3>1
  <2>4. 3 .. Len(list) = {}
    BY <2>2
  <2> QED BY <1>13, <2>1, <2>2, <2>3, <2>4 DEF WellListed
<1>19. /\ \A d \in dirs : d # parent => Within(d)' = Within(d)
       /\ Within(parent)' = Within(parent) \cup {p} /\ p \notin Within(parent)
       /\ Within(p)' = {}
  <2>1. p # parent /\ \A c \in dirs : c # << >> => Front(c) # p
    BY <1>3 DEF Sound, KnownInv
  <2> QED BY <1>2, <1>3, <2>1 DEF Within
<1>20. IsFiniteSet(dirs') /\ << >> \in dirs' /\ nameToInum'[<< >>] = ROOT
  BY <1>2, <1>7, FS_AddElement DEF ListInv
<1>21. \A i \in OfType("d")' : \E d \in dirs' : nameToInum'[d] = i
  BY <1>2, <1>6, <1>7 DEF ListInv
<1>22. ASSUME NEW d \in dirs'
       PROVE  /\ WellListed(dirList(d)', d, nameToInum'[d], ParentInum(d)', files' \cup dirs', nameToInum')
              /\ inodes'[nameToInum'[d]].refCnt = 2 + Cardinality(Within(d)')
  <2>1. CASE d = p
    <3>1. nameToInum'[p] = inum /\ inodes'[inum].refCnt = 2 /\ Cardinality(Within(p)') = 0
      BY <1>5, <1>7, <1>19, FS_EmptySet
    <3> QED BY <1>15, <1>18, <2>1, <3>1
  <2>2. CASE d \in dirs /\ d # parent
    <3>1. nameToInum'[d] = nameToInum[d] /\ nameToInum[d] # pinum
      BY <1>1, <1>7, <2>2, ListsOfNames
    <3>2. inodes'[nameToInum[d]].refCnt = inodes[nameToInum[d]].refCnt
      BY <1>5, <1>8, <2>2, <3>1
    <3> QED BY <1>14, <1>17, <1>19, <2>2, <3>1, <3>2 DEF ListInv
  <2>3. CASE d = parent
    <3>1. IsFiniteSet(Within(parent))
      <4>1. Within(parent) \subseteq dirs
        BY DEF Within
      <4> QED BY <4>1, FS_Subset DEF ListInv
    <3>2. Cardinality(Within(parent)') = Cardinality(Within(parent)) + 1
      BY <1>19, <3>1, FS_AddElement
    <3>3. inodes[pinum].refCnt = 2 + Cardinality(Within(parent)) /\ nameToInum'[d] = pinum
      BY <1>1, <1>7, <2>3 DEF ListInv
    <3>4. Cardinality(Within(parent)) \in Nat
      BY <3>1, FS_CardinalityType
    <3>5. inodes'[pinum].refCnt = 2 + Cardinality(Within(parent)')
      BY <1>5, <3>2, <3>3, <3>4
    <3> QED BY <1>1, <1>14, <1>17, <2>3, <3>3, <3>5
  <2> QED BY <1>2, <2>1, <2>2, <2>3
<1> QED BY <1>20, <1>21, <1>22 DEF ListInv

\* A refused request.
LEMMA ListsStay ==
    ASSUME ListInv, UNCHANGED <<sizes, disk, known>>
    PROVE  ListInv'
<1>1. /\ inodes' = inodes /\ data' = data /\ Inodes' = Inodes
      /\ files' = files /\ dirs' = dirs /\ nameToInum' = nameToInum
  BY DEF sizes, disk, known, Inodes
<1>2. /\ OfType("d")' = OfType("d")
      /\ \A d : dirList(d)' = dirList(d) /\ ParentInum(d)' = ParentInum(d) /\ Within(d)' = Within(d)
  BY <1>1 DEF OfType, dirList, ParentInum, Within
<1> QED BY <1>1, <1>2 DEF ListInv

\* The start: the root, which holds itself twice.
LEMMA InitLists == FsckInit => NamedInv /\ ListInv
<1> SUFFICES ASSUME FsckInit
             PROVE  NamedInv /\ ListInv
  OBVIOUS
<1>1. /\ files = {} /\ dirs = {<< >>} /\ nameToInum = [p \in dirs |-> 0]
      /\ inodes = [i \in Inodes |-> IF i = 0 THEN [ftype |-> "d", addr |-> 0, refCnt |-> 2]
                                    ELSE FreeInode]
      /\ data = [b \in Blocks |-> IF b = 0 THEN DirBlock(0, 0) ELSE FreeBlock]
  BY DEF FsckInit, VSFSInit, ROOT
<1>2. 0 \in Inodes /\ 0 \in Blocks
  <2>1. PICK s \in Sizes : numInodes = s[1] /\ numData = s[2]
    BY DEF FsckInit, VSFSInit
  <2>2. numInodes \in Nat \ {0} /\ numData \in Nat \ {0}
    BY <2>1, VSFSAssumption
  <2> QED BY <2>2 DEF Inodes, Blocks
<1>3. OfType("f") = {} /\ OfType("d") = {0}
  BY <1>1, <1>2 DEF OfType, FreeInode
<1>4. PICK list : list = << <<".", 0>>, <<"..", 0>> >>
  OBVIOUS
<1>5. dirList(<< >>) = list /\ nameToInum[<< >>] = 0 /\ ParentInum(<< >>) = 0
  <2>1. DirBlock(0, 0).dirList = list
    BY <1>4 DEF DirBlock, FreeBlock
  <2>2. inodes[0].addr = 0 /\ nameToInum[<< >>] = 0
    BY <1>1, <1>2
  <2> QED BY <1>1, <1>2, <2>1, <2>2 DEF dirList, ParentInum, ROOT
<1>6. \A names, num : WellListed(list, << >>, 0, 0, names, num)
  <2>1. Len(list) = 2 /\ list[1] = <<".", 0>> /\ list[2] = <<"..", 0>>
    BY <1>4
  <2>2. \A k, l \in 1 .. Len(list) : list[k][1] = list[l][1] => k = l
    <3>1. \A k \in 1 .. Len(list) : k = 1 \/ k = 2
      BY <2>1
    <3> QED BY <2>1, <3>1
  <2>3. 3 .. Len(list) = {}
    BY <2>1
  <2> QED BY <2>1, <2>2, <2>3 DEF WellListed
<1>7. Within(<< >>) = {} /\ inodes[0].refCnt = 2 /\ Cardinality({}) = 0
  BY <1>1, <1>2, FS_EmptySet DEF Within
<1>8. IsFiniteSet(dirs)
  BY <1>1, FS_Singleton
<1>9. ASSUME NEW d \in dirs
      PROVE  /\ WellListed(dirList(d), d, nameToInum[d], ParentInum(d), files \cup dirs, nameToInum)
             /\ inodes[nameToInum[d]].refCnt = 2 + Cardinality(Within(d))
  <2>1. d = << >>
    BY <1>1
  <2>2. WellListed(dirList(<< >>), << >>, nameToInum[<< >>], ParentInum(<< >>),
                   files \cup dirs, nameToInum)
    BY <1>5, <1>6
  <2>3. inodes[nameToInum[<< >>]].refCnt = 2 + Cardinality(Within(<< >>))
    BY <1>5, <1>7
  <2> QED BY <2>1, <2>2, <2>3
<1>10. ListInv
  BY <1>1, <1>3, <1>5, <1>8, <1>9 DEF ListInv, ROOT
<1> QED BY <1>3, <1>10 DEF NamedInv

\* Every request, refused or not.
LEMMA RequestLists ==
    ASSUME Sound, FreeInv, ListInv, VSFSNext
    PROVE  ListInv'
<1>0. Done
  BY DEF VSFSNext
<1>1. ASSUME NEW p \in files, deleteFile(p)
      PROVE  ListInv'
  BY <1>0, <1>1, DeleteLists
<1>2. ASSUME NEW p \in files, NEW v \in Contents, writeFile(p, v)
      PROVE  ListInv'
  BY <1>0, <1>2, WriteLists
<1>3. ASSUME NEW parent \in dirs, NEW n \in Names, NEW target \in files,
             createLink(target, parent, n)
      PROVE  ListInv'
  BY <1>0, <1>3, LinkLists
<1>4. ASSUME NEW parent \in dirs, NEW n \in Names, create(parent, n)
      PROVE  ListInv'
  BY <1>0, <1>4, CreateLists
<1>5. ASSUME NEW parent \in dirs, NEW n \in Names, mkdir(parent, n)
      PROVE  ListInv'
  BY <1>0, <1>5, MkdirLists
<1>6. ASSUME UNCHANGED <<disk, known>>
      PROVE  ListInv'
  BY <1>0, <1>6, ListsStay DEF Done
<1> QED BY <1>1, <1>2, <1>3, <1>4, <1>5, <1>6, GivesBack DEF VSFSNext, Request, Refused

-----------------------------------------------------------------------------
\* The rules are about the inodes and the blocks alone.
LEMMA RulesStay ==
    ASSUME UNCHANGED <<sizes, disk>>
    PROVE  (BitmapsAgree' <=> BitmapsAgree) /\ (LinksAgree' <=> LinksAgree)
<1>1. /\ inodes' = inodes /\ data' = data /\ ibitmap' = ibitmap /\ dbitmap' = dbitmap
      /\ Inodes' = Inodes /\ Blocks' = Blocks
  BY DEF sizes, disk, Inodes, Blocks
<1>2. BitmapsAgree' <=> BitmapsAgree
  BY <1>1 DEF BitmapsAgree
<1>3. \A t : OfType(t)' = OfType(t)
  BY <1>1 DEF OfType
<1>4. \A i : List(i)' = List(i)
  BY <1>1 DEF List
<1>5. \A i : EntriesOf(i)' = EntriesOf(i) /\ Subdirectories(i)' = Subdirectories(i)
  BY <1>1, <1>3, <1>4 DEF EntriesOf, Subdirectories
<1>6. LinksAgree' <=> LinksAgree
  BY <1>1, <1>3, <1>4, <1>5 DEF LinksAgree
<1> QED BY <1>2, <1>6

\* Flipping a bit.
LEMMA BitmapCorrupted ==
    ASSUME Sound, NEW num, CorruptBitmap(num), Inodes' = Inodes, Blocks' = Blocks
    PROVE  ~BitmapsAgree'
<1>1. CASE num = 0
  <2>1. PICK n \in Blocks : dbitmap' = Flipped(dbitmap, n) /\ data' = data
    BY <1>1 DEF CorruptBitmap
  <2> QED BY <2>1 DEF Flipped, BitmapsAgree, Sound
<1>2. CASE num = 1
  <2>1. PICK n \in Inodes : ibitmap' = Flipped(ibitmap, n) /\ inodes' = inodes
    BY <1>2 DEF CorruptBitmap
  <2> QED BY <2>1 DEF Flipped, BitmapsAgree, Sound
<1> QED BY <1>1, <1>2 DEF CorruptBitmap

\* Changing an inode: a count is not what is counted, a type not what the bitmap
\* or the block says, and a free block is not marked.
LEMMA InodeCorrupted ==
    ASSUME Sound, LinksAgree, NEW num, CorruptInode(num), Inodes' = Inodes, Blocks' = Blocks
    PROVE  ~(BitmapsAgree' /\ LinksAgree')
<1> DEFINE t     == IF num <= 5 THEN "f" ELSE "d"
           other == IF num <= 5 THEN "d" ELSE "f"
<1>1. /\ ibitmap' = ibitmap /\ dbitmap' = dbitmap /\ data' = data
      /\ inodes \in InodeTable /\ data \in BlockTable /\ BitmapsAgree /\ ibitmap \subseteq Inodes
  BY DEF CorruptInode, Sound, FsckTypeOK, Entry
<1>2. t \in {"f", "d"} /\ other \in {"f", "d"} /\ t # other
  OBVIOUS
<1> HIDE DEF t, other
<1>3. ASSUME NEW i \in OfType(t), NEW by \in {-1, 1},
             inodes' = [inodes EXCEPT ![i].refCnt = @ + by]
      PROVE  ~LinksAgree'
  <2>1. i \in Inodes /\ i \in OfType(t)
    BY <1>3 DEF OfType
  <2>2. /\ \A j \in Inodes : inodes'[j].ftype = inodes[j].ftype /\ inodes'[j].addr = inodes[j].addr
        /\ inodes'[i].refCnt # inodes[i].refCnt
    BY <1>1, <1>3, <2>1
  <2>3. \A u : OfType(u)' = OfType(u)
    BY <2>2 DEF OfType
  <2>4. \A d \in OfType("d") : List(d)' = List(d)
    BY <1>1, <2>2 DEF List, OfType
  <2>5. \A j : EntriesOf(j)' = EntriesOf(j)
    BY <2>3, <2>4 DEF EntriesOf
  <2>6. \A d \in OfType("d") : Subdirectories(d)' = Subdirectories(d)
    <3>1. \A d \in OfType("d") : \A k \in DOMAIN List(d) : List(d)[k][2] \in Inodes
      <4>1. \A d \in OfType("d") : List(d) \in Seq(Entry)
        <5>1. \A d \in OfType("d") : inodes[d].addr # -1 => data[inodes[d].addr].dirList \in Seq(Entry)
          BY <1>1 DEF OfType
        <5> QED BY <5>1 DEF List
      <4>2. \A s \in Seq(Entry) : \A k \in DOMAIN s : s[k] \in Entry
        OBVIOUS
      <4> QED BY <4>1, <4>2 DEF Entry
    <3> QED BY <2>2, <2>4, <3>1 DEF Subdirectories
  <2>7. CASE t = "f"
    BY <2>1, <2>2, <2>3, <2>5, <2>7 DEF LinksAgree
  <2>8. CASE t = "d"
    BY <2>1, <2>2, <2>3, <2>6, <2>8 DEF LinksAgree
  <2> QED BY <1>2, <2>7, <2>8
<1>4. ASSUME NEW i \in OfType("free"),
             inodes' = [inodes EXCEPT ![i] = [ftype |-> t, addr |-> -1, refCnt |-> 1]]
      PROVE  ~BitmapsAgree'
  <2>1. i \in Inodes /\ i \notin ibitmap /\ inodes'[i].ftype = t
    BY <1>1, <1>4 DEF OfType, BitmapsAgree
  <2> QED BY <1>1, <1>2, <2>1 DEF BitmapsAgree
<1>5. ASSUME NEW i \in OfType(t), NEW b \in findFreeData,
             inodes' = [inodes EXCEPT ![i].addr = b]
      PROVE  ~BitmapsAgree'
  <2>1. i \in Inodes /\ i \in ibitmap /\ inodes'[i].addr = b
    BY <1>1, <1>2, <1>5 DEF OfType, BitmapsAgree
  <2>2. b \in Blocks /\ b \notin dbitmap
    BY <1>1, <1>5 DEF findFreeData, BitmapsAgree
  <2> QED BY <1>1, <2>1, <2>2 DEF BitmapsAgree
<1>6. ASSUME NEW i \in OfType(t), inodes' = [inodes EXCEPT ![i].ftype = other]
      PROVE  ~BitmapsAgree'
  <2>1. /\ i \in Inodes /\ i \in ibitmap /\ inodes[i].ftype = t
        /\ inodes'[i].ftype = other /\ inodes'[i].addr = inodes[i].addr
    BY <1>1, <1>2, <1>6 DEF OfType, BitmapsAgree
  <2>2. IF inodes[i].addr = -1 THEN t = "f" ELSE data[inodes[i].addr].ftype = t
    BY <1>1, <2>1 DEF BitmapsAgree
  <2>3. BitmapsAgree' => IF inodes[i].addr = -1 THEN other = "f"
                         ELSE data[inodes[i].addr].ftype = other
    BY <1>1, <2>1 DEF BitmapsAgree
  <2> QED BY <1>2, <2>2, <2>3
<1> QED BY <1>3, <1>4, <1>5, <1>6 DEF CorruptInode, t, other

\* An entry with a free inode.
LEMMA EntryCorrupted ==
    ASSUME Sound, CorruptEntry(6), Inodes' = Inodes, Blocks' = Blocks
    PROVE  ~LinksAgree'
<1>1. /\ inodes' = inodes /\ inodes \in InodeTable /\ data \in BlockTable /\ BitmapsAgree
      /\ ibitmap \subseteq Inodes
  BY DEF CorruptEntry, Sound, FsckTypeOK, Entry
<1>2. PICK i \in OfType("d") : \E k \in DOMAIN data[inodes[i].addr].dirList : \E inum \in Inodes \ ibitmap :
         data' = [data EXCEPT ![inodes[i].addr].dirList[k][2] = inum]
  BY DEF CorruptEntry
<1>3. PICK b : b = inodes[i].addr
  OBVIOUS
<1>4. b \in Blocks /\ b # -1 /\ i \in Inodes /\ inodes[i].ftype = "d" /\ Inodes' = Inodes
  BY <1>1, <1>2, <1>3 DEF OfType, BitmapsAgree
<1>5. PICK k \in DOMAIN data[b].dirList : \E inum \in Inodes \ ibitmap :
         data' = [data EXCEPT ![b].dirList[k][2] = inum]
  BY <1>2, <1>3
<1>6. PICK inum \in Inodes \ ibitmap : data' = [data EXCEPT ![b].dirList[k][2] = inum]
  BY <1>5
<1>7. PICK list : list = data[b].dirList
  OBVIOUS
<1>8. list \in Seq(Entry) /\ list[k] \in Entry
  <2>1. list \in Seq(Entry)
    BY <1>1, <1>4, <1>7
  <2> QED BY <1>7, <2>1
<1>9. data'[b].dirList = [list EXCEPT ![k] = [list[k] EXCEPT ![2] = inum]]
  BY <1>1, <1>4, <1>6, <1>7
<1>10. k \in DOMAIN data'[b].dirList /\ data'[b].dirList[k][2] = inum
  <2>1. [list[k] EXCEPT ![2] = inum][2] = inum
    BY <1>8 DEF Entry
  <2> QED BY <1>5, <1>7, <1>8, <1>9, <2>1
<1>11. List(i)' = data'[b].dirList
  BY <1>1, <1>3, <1>4 DEF List
<1>12. i \in OfType("d")' /\ inum \in OfType("free")'
  BY <1>1, <1>2, <1>4, <1>6 DEF OfType, BitmapsAgree
<1> QED BY <1>10, <1>11, <1>12 DEF LinksAgree

\* Every kind of corrupt() breaks a rule, but for the name that nobody looks for.
LEMMA CorruptionBreaks ==
    ASSUME Sound, LinksAgree, corrupt
    PROVE  corruption' # 7 => ~(BitmapsAgree' /\ LinksAgree')
<1>1. UNCHANGED sizes
  BY DEF corrupt
<1>2. Inodes' = Inodes /\ Blocks' = Blocks
  BY <1>1, SizesStay
<1>3. PICK num \in 0 .. 11 : /\ CorruptBitmap(num) \/ CorruptInode(num) \/ CorruptEntry(num)
                             /\ corruption' = num
  BY DEF corrupt
<1>4. CorruptEntry(num) => num = 6 \/ num = 7
  BY DEF CorruptEntry
<1> QED BY <1>2, <1>3, <1>4, BitmapCorrupted, InodeCorrupted, EntryCorrupted

-----------------------------------------------------------------------------
\* What holds until corrupt() and after it.
DiskInv == IF corruption = -1 THEN Sound /\ FreeInv /\ NamedInv /\ ListInv
           ELSE phase = "exit" /\ CorruptionShows

\* It holds through every request and what corrupt() does.
LEMMA DiskInvHolds == FsckSpec => []DiskInv
<1>1. FsckInit => DiskInv
  <2>1. FsckInit => corruption = -1
    BY DEF FsckInit
  <2> QED BY <2>1, InitSound, InitLists DEF DiskInv
<1>2. DiskInv /\ [FsckNext]_fsckVars => DiskInv'
  <2> SUFFICES ASSUME DiskInv, [FsckNext]_fsckVars
               PROVE  DiskInv'
    OBVIOUS
  <2>1. CASE VSFSNext /\ UNCHANGED corruption
    <3>1. corruption = -1 /\ Sound /\ FreeInv /\ NamedInv /\ ListInv
      BY <2>1 DEF VSFSNext, Done, DiskInv
    <3> QED BY <2>1, <3>1, RequestSound, RequestTree, RequestLists DEF DiskInv
  <2>2. CASE corrupt
    <3>1. corruption' \in 0 .. 11 /\ phase' = "exit" /\ phase = "run"
      BY <2>2 DEF corrupt
    <3>2. corruption' # -1
      BY <3>1
    <3>3. Sound /\ LinksAgree
      BY <3>1, LinksFollow DEF DiskInv
    <3> QED BY <2>2, <3>1, <3>2, <3>3, CorruptionBreaks DEF DiskInv, CorruptionShows
  <2>3. CASE UNCHANGED fsckVars
    <3>1. UNCHANGED <<sizes, disk, known>> /\ UNCHANGED <<sizes, disk>>
          /\ corruption' = corruption /\ phase' = phase
      BY <2>3 DEF fsckVars, vsfsVars
    <3>2. CASE corruption = -1
      <4>1. Sound /\ FreeInv /\ NamedInv /\ ListInv /\ phase \in {"run", "exit"}
        BY <3>2 DEF Sound, FsckTypeOK, DiskInv
      <4> QED BY <3>1, <3>2, <4>1, NothingChanged, NothingShown, ListsStay DEF DiskInv
    <3>3. CASE corruption # -1
      BY <3>1, <3>3, RulesStay DEF DiskInv, CorruptionShows
    <3> QED BY <3>2, <3>3
  <2> QED BY <2>1, <2>2, <2>3 DEF FsckNext, Exited
<1> QED BY <1>1, <1>2, PTL DEF FsckSpec

\* After every request each directory starts with itself and its parent and has
\* every name once, no entry leads to a free inode, and every reference count is
\* what fsck.py's README says it counts; for any sizes, names and contents.
THEOREM FsckLinks == FsckSpec => []LinksHold
<1>1. DiskInv => LinksHold
  BY LinksFollow DEF DiskInv, LinksHold
<1> QED BY <1>1, DiskInvHolds, PTL

\* Whatever the state of the disk, what corrupt() changes can be seen: a rule of
\* the bitmaps or of the links no longer holds.
THEOREM FsckCorruption == FsckSpec => []CorruptionShows
<1>1. DiskInv => CorruptionShows
  BY DEF DiskInv, CorruptionShows
<1> QED BY <1>1, DiskInvHolds, PTL

-----------------------------------------------------------------------------
\* Walks.

\* One step of a walk.
Onward(i, n) == IF i = -1 THEN -1 ELSE Enter(i, n)

\* A fold along p is a function on the sets of places in p: what comes of the steps
\* at these places, the last of them taken last.
IsWalk(g, p, D) ==
    g = [s \in SUBSET D |-> IF s = {} THEN ROOT ELSE Onward(g[s \ {Max(s)}], p[Max(s)])]

\* The function that Walk takes.
LEMMA WalkIs ==
    ASSUME NEW p
    PROVE  Walk(p) = (CHOOSE g : IsWalk(g, p, DOMAIN p))[DOMAIN p]
  BY DEF Walk, FoldLeft, MapThenFoldSet, IsWalk, Onward

\* The last place.
LEMMA LastPlace ==
    ASSUME NEW n \in Nat, NEW s \in SUBSET (1 .. n), s # {}
    PROVE  Max(s) \in s /\ \A y \in s : y <= Max(s)
<1>1. PICK S : S = {k \in 0 .. n : n - k \in s}
  OBVIOUS
<1>2. S \in SUBSET Nat /\ S # {}
  <2>1. PICK y \in s : TRUE
    OBVIOUS
  <2>2. n - y \in 0 .. n /\ n - (n - y) = y
    OBVIOUS
  <2> QED BY <1>1, <2>1, <2>2
<1>3. PICK k \in S : \A l \in S : k <= l
  BY <1>2, LeastExists
<1>4. n - k \in s /\ k \in 0 .. n
  BY <1>1, <1>3
<1>5. ASSUME NEW y \in s
      PROVE  n - k >= y
  <2>1. n - y \in 0 .. n /\ n - (n - y) = y
    OBVIOUS
  <2>2. n - y \in S
    BY <1>1, <2>1
  <2> QED BY <1>3, <1>4, <2>1, <2>2
<1>6. \E x \in s : \A y \in s : x >= y
  BY <1>4, <1>5
<1>7. Max(s) \in s /\ \A y \in s : Max(s) >= y
  BY <1>6 DEF Max
<1> QED BY <1>7

\* There is such a function, for one place more whenever there is one for fewer.
LEMMA OnePlaceMore ==
    ASSUME NEW p, NEW n \in Nat, NEW g, IsWalk(g, p, 1 .. n)
    PROVE  \E h : IsWalk(h, p, 1 .. n + 1)
<1>1. PICK h : h = [s \in SUBSET (1 .. n + 1) |-> IF n + 1 \in s THEN Onward(g[s \ {n + 1}], p[n + 1])
                                                 ELSE g[s]]
  OBVIOUS
<1>2. ASSUME NEW s \in SUBSET (1 .. n + 1)
      PROVE  h[s] = IF s = {} THEN ROOT ELSE Onward(h[s \ {Max(s)}], p[Max(s)])
  <2>1. CASE s = {}
    BY <1>1, <2>1 DEF IsWalk
  <2>2. CASE n + 1 \in s
    <3>1. Max(s) \in s /\ \A y \in s : y <= Max(s)
      <4>1. n + 1 \in Nat
        OBVIOUS
      <4> QED BY <2>2, <4>1, LastPlace
    <3>2. Max(s) = n + 1
      <4>1. Max(s) \in 1 .. n + 1 /\ n + 1 <= Max(s)
        BY <2>2, <3>1
      <4> QED BY <4>1
    <3>3. s \ {n + 1} \in SUBSET (1 .. n + 1) /\ n + 1 \notin s \ {n + 1}
      OBVIOUS
    <3>4. h[s \ {n + 1}] = g[s \ {n + 1}]
      BY <1>1, <3>3
    <3> QED BY <1>1, <2>2, <3>2, <3>4
  <2>3. CASE s # {} /\ n + 1 \notin s
    <3>1. s \in SUBSET (1 .. n)
      BY <2>3
    <3>2. g[s] = Onward(g[s \ {Max(s)}], p[Max(s)])
      BY <2>3, <3>1 DEF IsWalk
    <3>3. h[s \ {Max(s)}] = g[s \ {Max(s)}]
      BY <1>1, <2>3
    <3> QED BY <1>1, <2>3, <3>2, <3>3
  <2> QED BY <2>1, <2>2, <2>3
<1>3. IsWalk(h, p, 1 .. n + 1)
  BY <1>1, <1>2 DEF IsWalk
<1> QED BY <1>3

\* There is one for any number of places.
LEMMA WalkExists ==
    ASSUME NEW p, NEW n \in Nat
    PROVE  \E g : IsWalk(g, p, 1 .. n)
<1>1. PICK S : S = {k \in Nat : ~\E g : IsWalk(g, p, 1 .. k)}
  OBVIOUS
<1>2. S = {}
  <2> SUFFICES ASSUME S # {}
               PROVE  FALSE
    OBVIOUS
  <2>1. PICK k \in S : \A l \in S : k <= l
    BY <1>1, LeastExists
  <2>2. CASE k = 0
    <3>1. PICK g : g = [s \in SUBSET (1 .. 0) |-> ROOT]
      OBVIOUS
    <3>2. \A s \in SUBSET (1 .. 0) : s = {}
      OBVIOUS
    <3>3. IsWalk(g, p, 1 .. 0)
      BY <3>1, <3>2 DEF IsWalk
    <3> QED BY <1>1, <2>1, <2>2, <3>3
  <2>3. CASE k # 0
    <3>1. k - 1 \in Nat /\ k - 1 + 1 = k /\ ~(k <= k - 1)
      BY <1>1, <2>1, <2>3
    <3>2. PICK g : IsWalk(g, p, 1 .. k - 1)
      BY <1>1, <2>1, <3>1
    <3>3. \E h : IsWalk(h, p, 1 .. k - 1 + 1)
      BY <3>1, <3>2, OnePlaceMore
    <3> QED BY <1>1, <2>1, <3>1, <3>3
  <2> QED BY <2>2, <2>3
<1> QED BY <1>1, <1>2

\* So a walk goes along its path from the root, one step after the other.
LEMMA WalkGoes ==
    ASSUME NEW p \in Seq(Names)
    PROVE  \E at : /\ at[0] = ROOT /\ at[Len(p)] = Walk(p)
                   /\ \A k \in 1 .. Len(p) : at[k] = Onward(at[k - 1], p[k])
<1>1. Len(p) \in Nat /\ DOMAIN p = 1 .. Len(p)
  OBVIOUS
<1>2. PICK g : IsWalk(g, p, 1 .. Len(p)) /\ Walk(p) = g[1 .. Len(p)]
  <2>1. IsWalk(CHOOSE g : IsWalk(g, p, 1 .. Len(p)), p, 1 .. Len(p))
    BY <1>1, WalkExists
  <2> QED BY <1>1, <2>1, WalkIs
<1>3. PICK at : at = [k \in 0 .. Len(p) |-> g[1 .. k]]
  OBVIOUS
<1>4. at[0] = ROOT
  <2>1. 1 .. 0 = {} /\ 0 \in 0 .. Len(p)
    BY <1>1
  <2> QED BY <1>2, <1>3, <2>1 DEF IsWalk
<1>5. at[Len(p)] = Walk(p)
  BY <1>1, <1>2, <1>3
<1>6. ASSUME NEW k \in 1 .. Len(p)
      PROVE  at[k] = Onward(at[k - 1], p[k])
  <2>1. /\ k \in Nat /\ k \in 0 .. Len(p) /\ k - 1 \in 0 .. Len(p)
        /\ 1 .. k \in SUBSET (1 .. Len(p)) /\ k \in 1 .. k
        /\ (1 .. k) \ {k} = 1 .. k - 1
    BY <1>1
  <2>2. Max(1 .. k) = k
    <3>1. Max(1 .. k) \in 1 .. k /\ k <= Max(1 .. k)
      BY <2>1, LastPlace
    <3> QED BY <3>1
  <2>3. g[1 .. k] = Onward(g[1 .. k - 1], p[k])
    BY <1>2, <2>1, <2>2 DEF IsWalk
  <2> QED BY <1>3, <2>1, <2>3
<1> QED BY <1>4, <1>5, <1>6

\* The part of a path that its first steps are.
LEMMA FirstSteps ==
    ASSUME NEW p \in Seq(Names)
    PROVE  /\ SubSeq(p, 1, 0) = << >> /\ SubSeq(p, 1, Len(p)) = p
           /\ \A k \in 0 .. Len(p) : SubSeq(p, 1, k) \in Seq(Names) /\ Len(SubSeq(p, 1, k)) = k
           /\ \A k \in 1 .. Len(p) : /\ SubSeq(p, 1, k) = Append(SubSeq(p, 1, k - 1), p[k])
                                     /\ SubSeq(p, 1, k) # << >>
                                     /\ Front(SubSeq(p, 1, k)) = SubSeq(p, 1, k - 1)
                                     /\ p[k] \in Names
<1>1. Len(p) \in Nat /\ \A k \in 1 .. Len(p) : p[k] \in Names
  BY ElementsOfPath
<1>2. SubSeq(p, 1, 0) = << >> /\ SubSeq(p, 1, Len(p)) = p
  OBVIOUS
<1>3. ASSUME NEW k \in 0 .. Len(p)
      PROVE  SubSeq(p, 1, k) \in Seq(Names) /\ Len(SubSeq(p, 1, k)) = k
  <2>1. Len(SubSeq(p, 1, k)) = k
    BY <1>1
  <2>2. SubSeq(p, 1, k) \in Seq(Names)
    BY <1>1, <2>1
  <2> QED BY <2>1, <2>2
<1>4. ASSUME NEW k \in 1 .. Len(p)
      PROVE  SubSeq(p, 1, k) = Append(SubSeq(p, 1, k - 1), p[k])
  <2>1. /\ k - 1 \in 0 .. Len(p) /\ SubSeq(p, 1, k - 1) \in Seq(Names)
        /\ Len(SubSeq(p, 1, k - 1)) = k - 1
    BY <1>1, <1>3
  <2>2. /\ \A l \in 1 .. k - 1 : SubSeq(p, 1, k - 1)[l] = p[l]
        /\ \A l \in 1 .. k : SubSeq(p, 1, k)[l] = p[l]
    BY <1>1
  <2> QED BY <1>1, <1>3, <2>1, <2>2
<1>5. ASSUME NEW k \in 1 .. Len(p)
      PROVE  SubSeq(p, 1, k) # << >> /\ Front(SubSeq(p, 1, k)) = SubSeq(p, 1, k - 1)
  <2>1. k - 1 \in 0 .. Len(p)
    BY <1>1
  <2>2. SubSeq(p, 1, k - 1) \in Seq(Names) /\ p[k] \in Names
    BY <1>1, <1>3, <2>1
  <2>3. \A q \in Seq(Names), n \in Names : Append(q, n) # << >> /\ Front(Append(q, n)) = q
    BY PathAndLast
  <2> QED BY <1>4, <2>2, <2>3
<1> QED BY <1>1, <1>2, <1>3, <1>4, <1>5

\* A step leads from a directory to what has that name in it, and from a file nowhere.
LEMMA EnterIs ==
    ASSUME Sound, ListInv, NEW n \in Names
    PROVE  /\ \A d \in dirs : Enter(nameToInum[d], n) = IF Append(d, n) \in files \cup dirs
                                                        THEN nameToInum[Append(d, n)] ELSE -1
           /\ \A p \in files : Enter(nameToInum[p], n) = -1
<1>1. ASSUME NEW p \in files
      PROVE  Enter(nameToInum[p], n) = -1
  <2>1. inodes[nameToInum[p]].ftype = "f"
    BY DEF Sound, KnownInv
  <2>2. List(nameToInum[p]) = << >> /\ DOMAIN << >> = {}
    BY <2>1 DEF List
  <2> QED BY <2>2 DEF Enter
<1>2. ASSUME NEW d \in dirs
      PROVE  Enter(nameToInum[d], n) = IF Append(d, n) \in files \cup dirs
                                       THEN nameToInum[Append(d, n)] ELSE -1
  <2>1. PICK list : list = dirList(d)
    OBVIOUS
  <2>2. List(nameToInum[d]) = list /\ DOMAIN list = 1 .. Len(list)
    BY <2>1, ListsOfNames
  <2>3. PICK p : p = Append(d, n)
    OBVIOUS
  <2>4. p # << >> /\ Front(p) = d /\ Last(p) = n
    BY <2>3, PathAndLast DEF Sound, KnownInv
  <2>5. CASE \E k \in DOMAIN list : list[k][1] = n
    <3>1. PICK k : k = CHOOSE l \in DOMAIN list : list[l][1] = n
      OBVIOUS
    <3>2. k \in DOMAIN list /\ list[k][1] = n
      BY <2>5, <3>1
    <3>3. Enter(nameToInum[d], n) = list[k][2]
      BY <2>2, <2>5, <3>1 DEF Enter
    <3>4. k \in 3 .. Len(list)
      BY <2>1, <2>2, <3>2, ListsOfNames
    <3>5. p \in files \cup dirs /\ nameToInum[p] = list[k][2]
      BY <2>1, <2>3, <3>2, <3>4, NameOfEntry
    <3> QED BY <2>3, <3>3, <3>5
  <2>6. CASE ~\E k \in DOMAIN list : list[k][1] = n
    <3>1. Enter(nameToInum[d], n) = -1
      BY <2>2, <2>6 DEF Enter
    <3>2. p \notin files \cup dirs
      BY <2>1, <2>4, <2>6 DEF Sound, KnownInv, dirEntryExists
    <3> QED BY <2>3, <3>1, <3>2
  <2> QED BY <2>5, <2>6
<1> QED BY <1>1, <1>2

\* A walk along a path ends at what the name stands for, or nowhere.
LEMMA WalkLeads ==
    ASSUME Sound, ListInv, NEW p \in Seq(Names)
    PROVE  Walk(p) = IF p \in files \cup dirs THEN nameToInum[p] ELSE -1
<1>1. PICK at : /\ at[0] = ROOT /\ at[Len(p)] = Walk(p)
                /\ \A k \in 1 .. Len(p) : at[k] = Onward(at[k - 1], p[k])
  BY WalkGoes
<1>2. PICK Right : Right = {k \in 0 .. Len(p) : at[k] = IF SubSeq(p, 1, k) \in files \cup dirs
                                                      THEN nameToInum[SubSeq(p, 1, k)] ELSE -1}
  OBVIOUS
<1>3. PICK Wrong : Wrong = (0 .. Len(p)) \ Right
  OBVIOUS
<1>4. Wrong = {}
  <2> SUFFICES ASSUME Wrong # {}
               PROVE  FALSE
    OBVIOUS
  <2>1. PICK k \in Wrong : \A l \in Wrong : k <= l
    <3>1. Wrong \in SUBSET Nat
      BY <1>3
    <3> QED BY <3>1, LeastExists
  <2>2. k \in 0 .. Len(p) /\ k \notin Right
    BY <1>3
  <2>3. CASE k = 0
    BY <1>1, <1>2, <2>2, <2>3, FirstSteps DEF ListInv
  <2>4. CASE k # 0
    <3>1. k \in 1 .. Len(p) /\ k - 1 \in 0 .. Len(p) /\ ~(k <= k - 1)
      BY <2>2, <2>4
    <3>2. k - 1 \in Right
      BY <1>3, <2>1, <3>1
    <3>3. PICK q : q = SubSeq(p, 1, k - 1)
      OBVIOUS
    <3>4. /\ at[k - 1] = IF q \in files \cup dirs THEN nameToInum[q] ELSE -1
          /\ at[k] = Onward(at[k - 1], p[k])
          /\ SubSeq(p, 1, k) = Append(q, p[k]) /\ SubSeq(p, 1, k) # << >>
          /\ Front(SubSeq(p, 1, k)) = q /\ p[k] \in Names
      <4>1. at[k - 1] = IF q \in files \cup dirs THEN nameToInum[q] ELSE -1
        BY <1>2, <3>2, <3>3
      <4>2. at[k] = Onward(at[k - 1], p[k])
        BY <1>1, <3>1
      <4>3. /\ SubSeq(p, 1, k) = Append(SubSeq(p, 1, k - 1), p[k]) /\ SubSeq(p, 1, k) # << >>
            /\ Front(SubSeq(p, 1, k)) = SubSeq(p, 1, k - 1) /\ p[k] \in Names
        BY <3>1, FirstSteps
      <4> QED BY <3>3, <4>1, <4>2, <4>3
    <3>5. Append(q, p[k]) \in files \cup dirs => q \in dirs
      BY <3>4 DEF Sound, KnownInv
    <3>6. \A r \in files \cup dirs : nameToInum[r] # -1
      <4>1. \A r \in files \cup dirs : nameToInum[r] \in ibitmap
        BY DEF Sound, KnownInv
      <4>2. -1 \notin ibitmap
        BY DEF Sound, FsckTypeOK, Inodes
      <4> QED BY <4>1, <4>2
    <3>7. files \cap dirs = {}
      BY DEF Sound, KnownInv
    <3>8. at[k] = IF Append(q, p[k]) \in files \cup dirs THEN nameToInum[Append(q, p[k])] ELSE -1
      <4>1. CASE q \in dirs
        BY <3>4, <3>6, <4>1, EnterIs DEF Onward
      <4>2. CASE q \in files
        BY <3>4, <3>5, <3>6, <3>7, <4>2, EnterIs DEF Onward
      <4>3. CASE q \notin files \cup dirs
        BY <3>4, <3>5, <4>3 DEF Onward
      <4> QED BY <4>1, <4>2, <4>3
    <3> QED BY <1>2, <2>2, <3>4, <3>8
  <2> QED BY <2>3, <2>4
<1>5. Len(p) \in Right
  BY <1>3, <1>4
<1> QED BY <1>1, <1>2, <1>5, FirstSteps

\* The inodes along a path are different ones, so a path is shorter than they are many.
LEMMA PathsFit ==
    ASSUME Sound, ListInv, NEW p \in files \cup dirs
    PROVE  p \in Paths
<1>1. p \in Seq(Names) /\ Len(p) \in Nat /\ numInodes \in Nat \ {0}
  <2>1. <<numInodes, numData>> \in (Nat \ {0}) \X (Nat \ {0})
    BY VSFSAssumption DEF Sound, FsckTypeOK
  <2>2. p \in Seq(Names)
    BY DEF Sound, KnownInv
  <2> QED BY <2>1, <2>2
<1>2. PICK part : part = [k \in 0 .. Len(p) |-> SubSeq(p, 1, k)]
  OBVIOUS
<1>3. /\ part[0] = << >> /\ part[Len(p)] = p
      /\ \A k \in 0 .. Len(p) : Len(part[k]) = k
      /\ \A k \in 1 .. Len(p) : part[k] # << >> /\ Front(part[k]) = part[k - 1]
  <2>1. \A k \in 1 .. Len(p) : k \in 0 .. Len(p) /\ k - 1 \in 0 .. Len(p)
    BY <1>1
  <2>2. 0 \in 0 .. Len(p) /\ Len(p) \in 0 .. Len(p)
    BY <1>1
  <2>3. part[0] = << >> /\ part[Len(p)] = p
    BY <1>1, <1>2, <2>2, FirstSteps
  <2>4. \A k \in 0 .. Len(p) : Len(part[k]) = k
    BY <1>1, <1>2, FirstSteps
  <2>5. ASSUME NEW k \in 1 .. Len(p)
        PROVE  part[k] # << >> /\ Front(part[k]) = part[k - 1]
    <3>1. part[k] = SubSeq(p, 1, k) /\ part[k - 1] = SubSeq(p, 1, k - 1)
      BY <1>2, <2>1
    <3>2. SubSeq(p, 1, k) # << >> /\ Front(SubSeq(p, 1, k)) = SubSeq(p, 1, k - 1)
      BY <1>1, FirstSteps
    <3> QED BY <3>1, <3>2
  <2> QED BY <2>3, <2>4, <2>5
<1>4. \A k \in 0 .. Len(p) : part[k] \in files \cup dirs
  <2> SUFFICES ASSUME NEW l \in 0 .. Len(p), part[l] \notin files \cup dirs
               PROVE  FALSE
    OBVIOUS
  <2>1. PICK Bad : Bad = {k \in 0 .. Len(p) : part[k] \notin files \cup dirs}
    OBVIOUS
  <2>2. 0 \notin Bad /\ Len(p) \notin Bad /\ l \in Bad /\ Bad \in SUBSET (1 .. Len(p))
    <3>1. 0 \notin Bad /\ Len(p) \notin Bad /\ l \in Bad
      BY <1>3, <2>1 DEF ListInv
    <3> QED BY <1>1, <2>1, <3>1
  <2>3. PICK k \in Bad : \A m \in Bad : m <= k
    BY <1>1, <2>2, LastPlace
  <2>4. k + 1 \in 1 .. Len(p) /\ k + 1 \in 0 .. Len(p) /\ ~(k + 1 <= k) /\ k + 1 - 1 = k
    BY <1>1, <2>2, <2>3
  <2>5. part[k + 1] \in files \cup dirs
    BY <2>1, <2>3, <2>4
  <2>6. part[k] \in dirs
    <3>1. part[k + 1] # << >> /\ Front(part[k + 1]) = part[k]
      <4>1. PICK m : m = k + 1
        OBVIOUS
      <4>2. m \in 1 .. Len(p) /\ m - 1 = k
        BY <1>1, <2>2, <2>3, <2>4, <4>1
      <4>3. part[m] # << >> /\ Front(part[m]) = part[m - 1]
        BY <1>3, <4>2
      <4> QED BY <4>1, <4>2, <4>3
    <3> QED BY <2>5, <3>1 DEF Sound, KnownInv
  <2> QED BY <2>1, <2>3, <2>6
<1>5. \A k \in 0 .. Len(p) : k # Len(p) => part[k] \in dirs
  <2> SUFFICES ASSUME NEW k \in 0 .. Len(p), k # Len(p)
               PROVE  part[k] \in dirs
    OBVIOUS
  <2>1. k + 1 \in 1 .. Len(p) /\ k + 1 \in 0 .. Len(p) /\ k + 1 - 1 = k
    BY <1>1
  <2>2. part[k + 1] \in files \cup dirs
    BY <1>4, <2>1
  <2> QED BY <1>3, <2>1, <2>2 DEF Sound, KnownInv
<1>6. PICK f : f = [k \in 0 .. Len(p) |-> nameToInum[part[k]]]
  OBVIOUS
<1>7. f \in [0 .. Len(p) -> Inodes]
  <2>1. \A q \in files \cup dirs : nameToInum[q] \in Inodes
    BY DEF Sound, FsckTypeOK
  <2> QED BY <1>4, <1>6, <2>1
<1>8. \A k, l \in 0 .. Len(p) : f[k] = f[l] => k = l
  <2> SUFFICES ASSUME NEW k \in 0 .. Len(p), NEW l \in 0 .. Len(p), f[k] = f[l]
               PROVE  k = l
    OBVIOUS
  <2>1. nameToInum[part[k]] = nameToInum[part[l]]
    BY <1>6
  <2>2. CASE part[k] \in dirs /\ part[l] \in dirs
    <3>1. part[k] = part[l]
      BY <2>1, <2>2, ListsOfNames
    <3> QED BY <1>3, <3>1
  <2>3. CASE k = Len(p) /\ part[k] \in files
    BY <1>4, <1>5, <2>1, <2>3 DEF Sound, KnownInv
  <2>4. CASE l = Len(p) /\ part[l] \in files
    BY <1>4, <1>5, <2>1, <2>4 DEF Sound, KnownInv
  <2> QED BY <1>4, <1>5, <2>2, <2>3, <2>4
<1>9. f \in Injection(0 .. Len(p), Inodes)
  BY <1>7, <1>8 DEF Injection, IsInjective
<1>10. /\ IsFiniteSet(Inodes) /\ Cardinality(Inodes) = numInodes
       /\ Cardinality(0 .. Len(p)) = Len(p) + 1
  <2>1. /\ IsFiniteSet(0 .. numInodes - 1)
        /\ Cardinality(0 .. numInodes - 1) = IF 0 > numInodes - 1 THEN 0 ELSE (numInodes - 1) - 0 + 1
        /\ Cardinality(0 .. Len(p)) = IF 0 > Len(p) THEN 0 ELSE Len(p) - 0 + 1
    BY <1>1, FS_Interval
  <2> QED BY <1>1, <2>1 DEF Inodes
<1>11. Cardinality(0 .. Len(p)) <= Cardinality(Inodes)
  BY <1>9, <1>10, FS_Injection
<1>12. Len(p) \in 0 .. numInodes - 1
  BY <1>1, <1>10, <1>11
<1>13. p \in [1 .. Len(p) -> Names]
  BY <1>1
<1> QED BY <1>12, <1>13 DEF Paths

\* The names that run() knows are those that a walk over the disk finds.
LEMMA NamesFollow ==
    ASSUME Sound, ListInv
    PROVE  /\ files = Found("f") /\ dirs = Found("d")
           /\ \A p \in files \cup dirs : nameToInum[p] = Walk(p)
<1>1. \A p \in Paths : p \in Seq(Names)
  BY DEF Paths
<1>2. \A p \in Paths : Walk(p) = IF p \in files \cup dirs THEN nameToInum[p] ELSE -1
  BY <1>1, WalkLeads
<1>3. \A p \in files \cup dirs : p \in Paths /\ Walk(p) = nameToInum[p] /\ Walk(p) # -1
  <2> SUFFICES ASSUME NEW p \in files \cup dirs
               PROVE  p \in Paths /\ Walk(p) = nameToInum[p] /\ Walk(p) # -1
    OBVIOUS
  <2>1. p \in Paths /\ Walk(p) = nameToInum[p]
    BY <1>2, PathsFit
  <2>2. nameToInum[p] \in Inodes
    BY DEF Sound, FsckTypeOK
  <2> QED BY <2>1, <2>2 DEF Inodes
<1>4. /\ \A p \in files : inodes[nameToInum[p]].ftype = "f"
      /\ \A d \in dirs : inodes[nameToInum[d]].ftype = "d"
  BY DEF Sound, KnownInv
<1>5. \A t : Found(t) = {p \in files \cup dirs : inodes[nameToInum[p]].ftype = t}
  BY <1>2, <1>3 DEF Found
<1> QED BY <1>3, <1>4, <1>5

\* What run() believes to be on the disk, from which it makes up its requests, is
\* what a walk from the root finds there, and no more is: in reach of no path is a
\* file or a directory that it does not know.
THEOREM FsckNames == FsckSpec => []NamesResolve
<1>1. DiskInv => NamesResolve
  BY NamesFollow DEF DiskInv, NamesResolve
<1> QED BY <1>1, DiskInvHolds, PTL
=============================================================================
