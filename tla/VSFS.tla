-------------------------------- MODULE VSFS --------------------------------
(***************************************************************************)
(* The file system that file-implementation/vsfs.py and                    *)
(* file-journaling/fsck.py simulate: two bitmaps, inodes with one block    *)
(* each, and directories that are lists of names and inode numbers.  A     *)
(* step is one request of run(), any of those the program can make up,     *)
(* whether or not it is refused.                                           *)
(***************************************************************************)
EXTENDS Integers, Sequences, FiniteSets, SequencesExt

CONSTANTS
    Names,          \* what makeName() picks from
    Contents,       \* what doAppend() writes
    Empty,          \* in place of data where there is none
    Sizes           \* the pairs <<-i, -d>> looked at

ASSUME VSFSAssumption ==
    /\ Sizes \subseteq (Nat \ {0}) \X (Nat \ {0})
    /\ "." \notin Names /\ ".." \notin Names
    /\ Empty \notin Contents

ROOT    == 0
maxUsed == 32       \* entries of a directory

VARIABLES
    numInodes, numData,
    first_fit,          \* vsfs.py takes the first free bit, fsck.py any
    ibitmap, dbitmap,   \* the numbers whose bit is set
    inodes, data,
    files, dirs,        \* the names run() knows, as sequences of names
    nameToInum,         \* for these; entries of deleted names are not kept
    phase               \* "run" or "exit"

disk  == <<ibitmap, dbitmap, inodes, data>>
known == <<files, dirs, nameToInum>>
sizes == <<numInodes, numData, first_fit>>
vsfsVars  == <<sizes, disk, known, phase>>

Inodes == 0 .. numInodes - 1
Blocks == 0 .. numData - 1

FreeInode == [ftype |-> "free", addr |-> -1, refCnt |-> 1]
FreeBlock == [ftype |-> "free", dirList |-> << >>, data |-> Empty]
DirBlock(inum, parent) ==
    [FreeBlock EXCEPT !.ftype = "d", !.dirList = << <<".", inum>>, <<"..", parent>> >>]

VSFSInit ==
    /\ \E s \in Sizes : numInodes = s[1] /\ numData = s[2]
    /\ first_fit \in BOOLEAN
    /\ ibitmap = {ROOT} /\ dbitmap = {0}
    /\ inodes = [i \in Inodes |-> IF i = ROOT THEN [ftype |-> "d", addr |-> 0, refCnt |-> 2]
                                  ELSE FreeInode]
    /\ data = [b \in Blocks |-> IF b = 0 THEN DirBlock(ROOT, ROOT) ELSE FreeBlock]
    /\ files = {} /\ dirs = {<< >>}
    /\ nameToInum = [p \in dirs |-> ROOT]
    /\ phase = "run"

\* bitmap.alloc, where a bit is free.
alloc(bitmap, numbers) ==
    LET free == numbers \ bitmap
    IN  IF first_fit THEN {n \in free : \A m \in free : n <= m} ELSE free

Full == ibitmap = Inodes \/ dbitmap = Blocks

\* After every request run() gives up when one of the bitmaps is full.
Done == /\ phase = "run"
        /\ UNCHANGED sizes
        /\ phase' = IF Full' THEN "exit" ELSE "run"

dirList(path)        == data[inodes[nameToInum[path]].addr].dirList
dirEntryExists(d, n) == \E k \in DOMAIN dirList(d) : dirList(d)[k][1] = n
MayEnter(parent, n)  == Len(dirList(parent)) < maxUsed /\ ~dirEntryExists(parent, n)

\* block.addDirEntry and delDirEntry, in the block of a directory.
addDirEntry(blocks, d, n, inum) ==
    [blocks EXCEPT ![inodes[nameToInum[d]].addr].dirList = Append(@, <<n, inum>>)]

\* Faulty: the entry is found by its inode.
delDirEntry_ByInode(blocks, p) ==
    [blocks EXCEPT ![inodes[nameToInum[Front(p)]].addr].dirList =
                        RemoveFirstMatch(@, LAMBDA e : e[2] = nameToInum[p])]

delDirEntry(blocks, p) ==
    [blocks EXCEPT ![inodes[nameToInum[Front(p)]].addr].dirList =
                        RemoveFirstMatch(@, LAMBDA e : e[1] = Last(p))]

\* What run() remembers of a new name.
Remember(p, inum) ==
    nameToInum' = [q \in files \cup dirs \cup {p} |-> IF q = p THEN inum ELSE nameToInum[q]]

-----------------------------------------------------------------------------
\* Faulty: the block of the file stays allocated.
deleteFile_KeepsBlock(p) ==
    LET inum == nameToInum[p]
    IN  /\ p \in files
        /\ IF inodes[inum].refCnt = 1
           THEN /\ inodes' = [inodes EXCEPT ![inum] = FreeInode]
                /\ ibitmap' = ibitmap \ {inum}
           ELSE /\ inodes' = [inodes EXCEPT ![inum].refCnt = @ - 1]
                /\ UNCHANGED ibitmap
        /\ data' = delDirEntry(data, p)
        /\ files' = files \ {p}
        /\ nameToInum' = [q \in files' \cup dirs |-> nameToInum[q]]
        /\ UNCHANGED <<dbitmap, dirs>>

\* The last name of a file takes its block and its inode with it.  (files has
\* no directories in it.)
deleteFile(p) ==
    LET inum  == nameToInum[p]
        block == inodes[inum].addr
    IN  /\ p \in files
        /\ IF inodes[inum].refCnt = 1
           THEN /\ inodes' = [inodes EXCEPT ![inum] = [@ EXCEPT !.ftype = "free", !.addr = -1]]
                /\ ibitmap' = ibitmap \ {inum}
                /\ dbitmap' = dbitmap \ {block}
                /\ data' = delDirEntry([b \in Blocks |-> IF b = block THEN FreeBlock
                                                         ELSE data[b]], p)
           ELSE /\ inodes' = [inodes EXCEPT ![inum].refCnt = @ - 1]
                /\ data' = delDirEntry(data, p)
                /\ UNCHANGED <<ibitmap, dbitmap>>
        /\ files' = files \ {p}
        /\ nameToInum' = [q \in files' \cup dirs |-> nameToInum[q]]
        /\ UNCHANGED dirs

\* Faulty: the new name is not counted.
createLink_NoCount(target, parent, n) ==
    LET inum == nameToInum[target]
    IN  /\ MayEnter(parent, n)
        /\ data' = addDirEntry(data, parent, n, inum)
        /\ files' = files \cup {Append(parent, n)}
        /\ Remember(Append(parent, n), inum)
        /\ UNCHANGED <<ibitmap, dbitmap, inodes, dirs>>

createLink(target, parent, n) ==
    LET inum == nameToInum[target]
    IN  /\ MayEnter(parent, n)
        /\ inodes' = [inodes EXCEPT ![inum].refCnt = @ + 1]
        /\ data' = addDirEntry(data, parent, n, inum)
        /\ files' = files \cup {Append(parent, n)}
        /\ Remember(Append(parent, n), inum)
        /\ UNCHANGED <<ibitmap, dbitmap, dirs>>

\* createFile for a file ...
create(parent, n) ==
    /\ MayEnter(parent, n)
    /\ \E inum \in alloc(ibitmap, Inodes) :
          /\ ibitmap' = ibitmap \cup {inum}
          /\ inodes' = [inodes EXCEPT ![inum] = [ftype |-> "f", addr |-> -1, refCnt |-> 1]]
          /\ data' = addDirEntry(data, parent, n, inum)
          /\ files' = files \cup {Append(parent, n)}
          /\ Remember(Append(parent, n), inum)
    /\ UNCHANGED <<dbitmap, dirs>>

\* ... and for a directory, which has a block and counts in its parent.
mkdir(parent, n) ==
    LET pinum == nameToInum[parent]
    IN  /\ MayEnter(parent, n)
        /\ \E inum \in alloc(ibitmap, Inodes), block \in alloc(dbitmap, Blocks) :
              /\ ibitmap' = ibitmap \cup {inum}
              /\ dbitmap' = dbitmap \cup {block}
              /\ inodes' = [inodes EXCEPT ![inum] = [ftype |-> "d", addr |-> block, refCnt |-> 2],
                                          ![pinum].refCnt = @ + 1]
              /\ data' = addDirEntry([data EXCEPT ![block] = DirBlock(inum, pinum)],
                                     parent, n, inum)
              /\ dirs' = dirs \cup {Append(parent, n)}
              /\ Remember(Append(parent, n), inum)
        /\ UNCHANGED files

\* Without a block left, a directory has taken an inode and gives it back.
mkdirWithoutBlock(parent, n) ==
    /\ MayEnter(parent, n)
    /\ alloc(dbitmap, Blocks) = {}
    /\ \E inum \in alloc(ibitmap, Inodes) :
          /\ ibitmap' = (ibitmap \cup {inum}) \ {inum}
          /\ inodes' = [inodes EXCEPT ![inum] = [@ EXCEPT !.ftype = "free", !.addr = -1]]
    /\ UNCHANGED <<dbitmap, data, known>>

\* Faulty: a file that has its block gets another one.
writeFile_Again(p, v) ==
    LET inum == nameToInum[p]
    IN  /\ \E block \in alloc(dbitmap, Blocks) :
              /\ dbitmap' = dbitmap \cup {block}
              /\ data' = [data EXCEPT ![block].ftype = "f", ![block].data = v]
              /\ inodes' = [inodes EXCEPT ![inum].addr = block]
        /\ UNCHANGED <<ibitmap, known>>

writeFile(p, v) ==
    LET inum == nameToInum[p]
    IN  /\ inodes[inum].addr = -1
        /\ \E block \in alloc(dbitmap, Blocks) :
              /\ dbitmap' = dbitmap \cup {block}
              /\ data' = [data EXCEPT ![block].ftype = "f", ![block].data = v]
              /\ inodes' = [inodes EXCEPT ![inum].addr = block]
        /\ UNCHANGED <<ibitmap, known>>

\* The other requests that return -1 have changed nothing.
Refused ==
    /\ \/ files = {} \/ ibitmap = Inodes
       \/ \E parent \in dirs, n \in Names : ~MayEnter(parent, n)
       \/ \E p \in files : inodes[nameToInum[p]].addr # -1 \/ dbitmap = Blocks
    /\ UNCHANGED <<disk, known>>

Request ==
    \/ \E p \in files : deleteFile(p) \/ \E v \in Contents : writeFile(p, v)
    \/ \E parent \in dirs, n \in Names :
          \/ \E target \in files : createLink(target, parent, n)
          \/ create(parent, n) \/ mkdir(parent, n) \/ mkdirWithoutBlock(parent, n)
    \/ Refused

VSFSNext == Request /\ Done
=============================================================================
