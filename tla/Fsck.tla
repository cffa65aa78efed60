-------------------------------- MODULE Fsck --------------------------------
(***************************************************************************)
(* file-journaling/fsck.py: the file system of VSFS in which, at the end,  *)
(* one thing on the disk is changed, for the user to find.  Here are also  *)
(* the rules by which it can be found, which the file system itself keeps. *)
(***************************************************************************)
EXTENDS VSFS

VARIABLES corruption    \* which kind of change has been made, or -1

fsckVars == <<vsfsVars, corruption>>

FsckInit == VSFSInit /\ corruption = -1

\* bitmap.corrupt
Flipped(bitmap, n) == IF n \in bitmap THEN bitmap \ {n} ELSE bitmap \cup {n}

OfType(t) == {i \in Inodes : inodes[i].ftype = t}

\* Faulty: a block in use will do.
findFreeData_Any == Blocks

findFreeData == {b \in Blocks : data[b].ftype = "free"}

CorruptBitmap(num) ==
    \/ /\ num = 0
       /\ \E n \in Blocks : dbitmap' = Flipped(dbitmap, n)
       /\ UNCHANGED <<ibitmap, inodes, data>>
    \/ /\ num = 1
       /\ \E n \in Inodes : ibitmap' = Flipped(ibitmap, n)
       /\ UNCHANGED <<dbitmap, inodes, data>>

\* Kinds 2 to 5 change the inode of a file, and 8 to 11 that of a directory.
CorruptInode(num) ==
    LET t     == IF num <= 5 THEN "f" ELSE "d"
        other == IF num <= 5 THEN "d" ELSE "f"
    IN  /\ \/ /\ num \in {2, 8}
              /\ \E i \in OfType(t) : \E by \in {-1, 1} :
                    inodes' = [inodes EXCEPT ![i].refCnt = @ + by]
           \/ /\ num \in {3, 9}
              /\ \E i \in OfType("free") :
                    inodes' = [inodes EXCEPT ![i] = [ftype |-> t, addr |-> -1, refCnt |-> 1]]
           \/ /\ num \in {4, 10}
              /\ \E i \in OfType(t), b \in findFreeData : inodes' = [inodes EXCEPT ![i].addr = b]
           \/ /\ num \in {5, 11}
              /\ \E i \in OfType(t) : inodes' = [inodes EXCEPT ![i].ftype = other]
        /\ UNCHANGED <<ibitmap, dbitmap, data>>

\* An entry gets an inode that is free, or another name.
CorruptEntry(num) ==
    /\ \E i \in OfType("d") :
          LET b == inodes[i].addr
          IN  \E k \in DOMAIN data[b].dirList :
                 \/ /\ num = 6
                    /\ \E inum \in Inodes \ ibitmap :
                          data' = [data EXCEPT ![b].dirList[k][2] = inum]
                 \/ /\ num = 7
                    /\ \E n \in Names : data' = [data EXCEPT ![b].dirList[k][1] = n]
    /\ UNCHANGED <<ibitmap, dbitmap, inodes>>

\* vsfs.py has no corrupt().
corrupt ==
    /\ phase = "run" /\ ~first_fit
    /\ \E num \in 0 .. 11 :
          /\ CorruptBitmap(num) \/ CorruptInode(num) \/ CorruptEntry(num)
          /\ corruption' = num
    /\ phase' = "exit"
    /\ UNCHANGED <<sizes, known>>

Exited == phase = "exit" /\ UNCHANGED fsckVars

FsckNext == (VSFSNext /\ UNCHANGED corruption) \/ corrupt \/ Exited

FsckSpec == FsckInit /\ [][FsckNext]_fsckVars

-----------------------------------------------------------------------------
FsckTypeOK ==
    /\ <<numInodes, numData>> \in Sizes /\ first_fit \in BOOLEAN
    /\ ibitmap \subseteq Inodes /\ dbitmap \subseteq Blocks
    /\ inodes \in [Inodes -> [ftype : {"free", "f", "d"}, addr : Blocks \cup {-1}, refCnt : Int]]
    /\ data \in [Blocks -> [ftype : {"free", "f", "d"},
                            dirList : Seq((Names \cup {".", ".."}) \X Inodes),
                            data : Contents \cup {Empty}]]
    /\ dirs # {} /\ nameToInum \in [files \cup dirs -> Inodes]
    /\ phase \in {"run", "exit"}
    /\ corruption \in -1 .. 11

\* The bitmaps mark the inodes and the blocks in use, a block is in use by one
\* inode and of its type, and a directory has one.
BitmapsAgree ==
    /\ \A i \in Inodes : i \in ibitmap <=> inodes[i].ftype # "free"
    /\ \A b \in Blocks : b \in dbitmap <=> data[b].ftype # "free"
    /\ \A b \in Blocks : b \in dbitmap <=> \E i \in ibitmap : inodes[i].addr = b
    /\ \A i, j \in ibitmap : inodes[i].addr = inodes[j].addr => i = j \/ inodes[i].addr = -1
    /\ \A i \in ibitmap : IF inodes[i].addr = -1 THEN inodes[i].ftype = "f"
                          ELSE data[inodes[i].addr].ftype = inodes[i].ftype

\* The entries of a directory, found from its inode.
List(i) == IF inodes[i].ftype = "d" /\ inodes[i].addr # -1
           THEN data[inodes[i].addr].dirList ELSE << >>
\* The places where an inode is entered under a name of its own.
EntriesOf(i) == UNION {{<<d, k>> : k \in {j \in DOMAIN List(d) : /\ List(d)[j][1] \in Names
                                                                 /\ List(d)[j][2] = i}}
                       : d \in OfType("d")}
Subdirectories(d) == {k \in DOMAIN List(d) : /\ List(d)[k][1] \in Names
                                             /\ inodes[List(d)[k][2]].ftype = "d"}

\* A directory starts with itself and its parent and holds every name once; no
\* entry leads to a free inode; and reference counts are what the README of
\* fsck.py says: names of a file, directories within a directory.
LinksAgree ==
    /\ \A d \in OfType("d") :
          /\ Len(List(d)) >= 2 /\ List(d)[1] = <<".", d>> /\ List(d)[2][1] = ".."
          /\ \A j, k \in DOMAIN List(d) : List(d)[j][1] = List(d)[k][1] => j = k
          /\ \A k \in DOMAIN List(d) : List(d)[k][2] \notin OfType("free")
          /\ inodes[d].refCnt = 2 + Cardinality(Subdirectories(d))
          /\ IF d = ROOT THEN EntriesOf(d) = {} /\ List(d)[2][2] = ROOT
             ELSE \E e \in EntriesOf(d) : EntriesOf(d) = {e} /\ List(d)[2][2] = e[1]
    /\ \A i \in OfType("f") : EntriesOf(i) # {} /\ inodes[i].refCnt = Cardinality(EntriesOf(i))

\* As long as nothing is corrupted the disk obeys both.
BitmapsHold == corruption = -1 => BitmapsAgree
LinksHold   == corruption = -1 => LinksAgree

\* What the README of fsck.py promises: the change has made the disk inconsistent
\* and can be seen.  Kind 7 is left out: an entry that gets a name nobody has
\* leaves a disk that is as good as before.
CorruptionShows == corruption \notin {-1, 7} => ~(BitmapsAgree /\ LinksAgree)

\* A walk over the disk, as the user does it, from the root along a path.
Enter(i, n) ==
    IF \E k \in DOMAIN List(i) : List(i)[k][1] = n
    THEN List(i)[CHOOSE k \in DOMAIN List(i) : List(i)[k][1] = n][2]
    ELSE -1
Walk(path) == FoldLeft(LAMBDA i, n : IF i = -1 THEN -1 ELSE Enter(i, n), ROOT, path)

\* Each place along a path takes an inode, so no path is longer.
Paths == UNION {[1 .. n -> Names] : n \in 0 .. numInodes - 1}
Found(t) == {p \in Paths : Walk(p) # -1 /\ inodes[Walk(p)].ftype = t}

\* What run() believes to be on the disk, from which it makes up its requests,
\* is what is there.
NamesResolve ==
    corruption = -1 =>
        /\ files = Found("f") /\ dirs = Found("d")
        /\ \A p \in files \cup dirs : nameToInum[p] = Walk(p)

\* Refinement: what can be found on the disk (by NamesResolve, at these names) is
\* a tree of directories and files, and every request is one step of it or none.
Tree == INSTANCE FileTree WITH
    Objects <- UNION {0 .. s[1] - 1 : s \in Sizes},
    directories <- dirs,
    file <- [p \in files |-> nameToInum[p]],
    content <- [i \in OfType("f") |->
                   IF inodes[i].addr = -1 THEN Empty ELSE data[inodes[i].addr].data]

ImplementsTree == Tree!TreeInit /\ [][corruption' # -1 \/ Tree!TreeNext]_(Tree!treeVars)
=============================================================================
