-------------------------------- MODULE LFS --------------------------------
(***************************************************************************)
(* file-lfs/lfs.py: a file system whose disk is a log.  Block 0 is the     *)
(* checkpoint region and the only one that is ever overwritten; everything *)
(* else, directories, inodes and the pieces of the inode map, is written   *)
(* behind what is there.  A command that fails leaves all as it was; one   *)
(* that runs into an assertion ends the program.                           *)
(***************************************************************************)
EXTENDS Integers, Sequences, SequencesExt, FiniteSets, FiniteSetsExt

CONSTANTS
    Options,                \* [use_disk_cr, no_force, random, commands]
    Names,                  \* of files and directories
    NUM_IMAP_PTRS_IN_CR, NUM_INODES_PER_IMAP_CHUNK, NUM_INODE_PTRS,
    EntriesPerBlock,        \* of a directory: 8 in the program
    Paths,                  \* that commands name: sequences of Names
    MaxCommands

\* What the constants have to be; MC modules assume it of the values they give them.
LFSAssumption ==
    /\ Options \subseteq [use_disk_cr : BOOLEAN, no_force : BOOLEAN, random : BOOLEAN,
                          commands : SUBSET {"c", "d", "r", "w", "l", "s"}]
    /\ NUM_IMAP_PTRS_IN_CR \in Nat \ {0} /\ NUM_INODES_PER_IMAP_CHUNK \in Nat \ {0}
    /\ NUM_INODE_PTRS \in Nat \ {0} /\ EntriesPerBlock \in Nat \ {0, 1}
    /\ Paths \subseteq Seq(Names) \ {<< >>} /\ MaxCommands \in Nat

NUM_INODES == NUM_IMAP_PTRS_IN_CR * NUM_INODES_PER_IMAP_CHUNK
Inums == 0 .. NUM_INODES - 1
ROOT_INODE == 0

VARIABLES
    option,
    disk,           \* the block at address a is disk[a + 1]
    cr,             \* the checkpoint region in memory
    inode_map,      \* in memory, per inode number an address or -1
    commands,       \* how many have changed something
    failed          \* the command that ended the program, NoFailure before

lfsVars == <<option, disk, cr, inode_map, commands, failed>>

-----------------------------------------------------------------------------
NoFailure == [command |-> "none", paths |-> {}]

\* Blocks.  Entries of a directory are pairs, "-" marks a free one.
Free == <<"-", -1>>
Checkpoint(entries) == [block_type |-> "cp", entries |-> entries]
DirBlock(entries) == [block_type |-> "dir", entries |-> entries]
DataBlock(contents) == [block_type |-> "data", contents |-> contents]
Inode(type, size, refs, pointers) ==
    [block_type |-> "inode", type |-> type, size |-> size, refs |-> refs,
     pointers |-> pointers]

EmptyEntries == [i \in 1 .. EntriesPerBlock |-> Free]
NoPointers == [i \in 1 .. NUM_INODE_PTRS |-> -1]
NewDirBlock(parent, current) ==
    DirBlock([EmptyEntries EXCEPT ![1] = <<".", current>>, ![2] = <<"..", parent>>])

Chunk(inum) == inum \div NUM_INODES_PER_IMAP_CHUNK
ImapChunk(map, c) ==
    [block_type |-> "imap",
     entries |-> [i \in 1 .. NUM_INODES_PER_IMAP_CHUNK |->
                    map[c * NUM_INODES_PER_IMAP_CHUNK + i - 1]]]

LFSInit ==
    LET map == [i \in Inums |-> IF i = ROOT_INODE THEN 2 ELSE -1]
        first == [c \in 1 .. NUM_IMAP_PTRS_IN_CR |-> IF c = 1 THEN 3 ELSE -1]
    IN  /\ option \in Options
        /\ cr = first
        /\ inode_map = map
        /\ disk = <<Checkpoint(first), NewDirBlock(ROOT_INODE, ROOT_INODE),
                    Inode("dir", 1, 2, [NoPointers EXCEPT ![1] = 1]), ImapChunk(map, 0)>>
        /\ commands = 0
        /\ failed = NoFailure

-----------------------------------------------------------------------------
\* Reading.  Python takes address -1 for the last block.
At(a) == disk[(a % Len(disk)) + 1]

OnDisk(inum) ==
    At(At(0).entries[Chunk(inum) + 1]).entries[(inum % NUM_INODES_PER_IMAP_CHUNK) + 1]
InodeAddress(inum) == IF option.use_disk_cr THEN OnDisk(inum) ELSE inode_map[inum]

\* get_inode_from_inumber, and the assertions it makes.
IsInode(inum) == InodeAddress(inum) # -1 /\ At(InodeAddress(inum)).block_type = "inode"
GetInode(inum) == At(InodeAddress(inum))

IsDirectory(inum) ==
    /\ IsInode(inum)
    /\ \E inode \in {GetInode(inum)} :
          /\ inode.type = "dir"
          /\ \A a \in ToSet(inode.pointers) \ {-1} : At(a).block_type = "dir"

\* The first entry of that name, as <<block, entry>>, in the order they are searched.
NoSlot == <<0, 0>>
EntryAt(inode, s) == At(inode.pointers[s[1]]).entries[s[2]]

find_matching_dir_slot(name, inode) ==
    LET matching == {s \in (1 .. inode.size) \X (1 .. EntriesPerBlock) :
                        EntryAt(inode, s)[1] = name}
    IN  IF matching = {} THEN NoSlot
        ELSE CHOOSE s \in matching :
                \A t \in matching : s[1] < t[1] \/ (s[1] = t[1] /\ s[2] <= t[2])

Lookup(inum, name) ==
    LET s == find_matching_dir_slot(name, GetInode(inum))
    IN  IF s = NoSlot THEN -1 ELSE EntryAt(GetInode(inum), s)[2]

\* walk_path: "ok" with the directory and the inode (or -1), "error" when a directory
\* is missing; "fails" by an assertion when something on the way is no directory.
Walk(path) ==
    LET Enter(w, name) ==
            CASE w.result # "ok" -> w
              [] w.result = "ok" /\ w.inum = -1 -> [w EXCEPT !.result = "error"]
              [] w.result = "ok" /\ w.inum # -1 /\ ~ IsDirectory(w.inum) ->
                    [w EXCEPT !.result = "fails"]
              [] OTHER -> [w EXCEPT !.parent = w.inum, !.inum = Lookup(w.inum, name)]
    IN  FoldLeft(Enter, [result |-> "ok", parent |-> ROOT_INODE, inum |-> ROOT_INODE], path)

-----------------------------------------------------------------------------
\* Writing.  Blocks go behind the log, then the pieces of the map that hold inums,
\* then, unless -N, the checkpoint region goes to block 0.
AddressOf(n) == Len(disk) + n - 1       \* of the n-th block a command writes

\* Faulty: the checkpoint is left in memory.
Synced_Never(d, c) == d

Synced(d, c) == [d EXCEPT ![1] = Checkpoint(c)]

Commit(blocks, map, inums) ==
    LET written == disk \o blocks
        Update(u, inum) ==
            IF Contains(u.chunks, Chunk(inum)) THEN u
            ELSE [chunks |-> Append(u.chunks, Chunk(inum)),
                  disk |-> Append(u.disk, ImapChunk(map, Chunk(inum))),
                  cr |-> [u.cr EXCEPT ![Chunk(inum) + 1] = Len(u.disk)]]
        updated == FoldLeft(Update, [chunks |-> << >>, disk |-> written, cr |-> cr], inums)
    IN  /\ inode_map' = map
        /\ cr' = updated.cr
        /\ disk' = IF option.no_force THEN updated.disk ELSE Synced(updated.disk, updated.cr)
        /\ commands' = commands + 1
        /\ UNCHANGED <<option, failed>>

\* allocate_inode: the first free one, or any.
Allocatable ==
    LET free == {i \in Inums : inode_map[i] = -1}
    IN  IF option.random \/ free = {} THEN free ELSE {Min(free)}

\* Faulty: the new block of a full directory replaces its last.
AddDirEntry_Replaces(parent, name, inum) ==
    LET s == find_matching_dir_slot("-", parent)
    IN  <<[index |-> IF s = NoSlot THEN parent.size ELSE s[1], size |-> parent.size,
           block |-> IF s = NoSlot THEN DirBlock([EmptyEntries EXCEPT ![1] = <<name, inum>>])
                     ELSE [At(parent.pointers[s[1]]) EXCEPT !.entries[s[2]] = <<name, inum>>]]>>

\* add_dir_entry: the block with the new entry, and where it goes; << >> when the
\* directory is full.
AddDirEntry(parent, name, inum) ==
    LET s == find_matching_dir_slot("-", parent)
    IN  CASE s # NoSlot ->
                <<[index |-> s[1], size |-> parent.size,
                   block |-> [At(parent.pointers[s[1]]) EXCEPT
                                !.entries[s[2]] = <<name, inum>>]]>>
          [] s = NoSlot /\ parent.size # NUM_INODE_PTRS ->
                <<[index |-> parent.size + 1, size |-> parent.size + 1,
                   block |-> DirBlock([EmptyEntries EXCEPT ![1] = <<name, inum>>])]>>
          [] OTHER -> << >>

Fails(command, paths) ==
    /\ failed' = [command |-> command, paths |-> paths]
    /\ UNCHANGED <<option, disk, cr, inode_map, commands>>

file_create(command, path) ==
    \E w \in {Walk(path)} :
        \/ w.result = "fails" /\ Fails(command, {path})
        \/ /\ w.result = "ok" /\ w.inum = -1
           /\ \E new \in Allocatable, parent \in {GetInode(w.parent)} :
              \E add \in ToSet(AddDirEntry(parent, Last(path), new)) :
                LET is_file == command = "c"
                    above == [parent EXCEPT
                                !.size = add.size,
                                !.refs = IF is_file THEN @ ELSE @ + 1,
                                !.pointers[add.index] = AddressOf(1)]
                    blocks == IF is_file
                              THEN <<add.block, above, Inode("reg", 0, 1, NoPointers)>>
                              ELSE <<add.block, NewDirBlock(w.parent, new), above,
                                     Inode("dir", 1, 2, [NoPointers EXCEPT ![1] = AddressOf(2)])>>
                    n == IF is_file THEN 3 ELSE 4
                IN  Commit(blocks,
                           [inode_map EXCEPT ![w.parent] = AddressOf(n - 1), ![new] = AddressOf(n)],
                           <<w.parent, new>>)

\* What the inode a path leads to is, when walk_path has succeeded.
TypeOf(w) == IF w.result # "ok" \/ w.inum = -1 THEN "none"
             ELSE IF IsInode(w.inum) THEN GetInode(w.inum).type ELSE "no inode"

\* The directory of dst is not looked at before it is used, and the piece of the map
\* that holds src is not written.
file_link(src, dst) ==
    \E s \in {Walk(src)}, d \in {Walk(dst)} : \E type \in {TypeOf(s)} :
        \/ /\ \/ s.result = "fails" \/ type = "no inode"
              \/ type = "reg" /\ d.result \in {"fails", "error"}
           /\ Fails("l", {src, dst})
        \/ /\ type = "reg" /\ d.result = "ok" /\ d.inum = -1
           /\ \E parent \in {GetInode(d.parent)} :
              \E add \in ToSet(AddDirEntry(parent, Last(dst), s.inum)) :
                Commit(<<add.block,
                         [parent EXCEPT !.size = add.size, !.pointers[add.index] = AddressOf(1)],
                         [GetInode(s.inum) EXCEPT !.refs = @ + 1]>>,
                       [inode_map EXCEPT ![d.parent] = AddressOf(2), ![s.inum] = AddressOf(3)],
                       <<d.parent>>)

\* num_blks blocks from offset on, as far as the inode has pointers.
file_write(path, offset, num_blks) ==
    \E w \in {Walk(path)} : \E type \in {TypeOf(w)} :
        \/ /\ w.result = "fails" \/ type = "no inode"
           /\ Fails("w", {path})
        \/ /\ type = "reg"
           /\ \E inode \in {GetInode(w.inum)}, end \in {Min({offset + num_blks, NUM_INODE_PTRS})} :
                LET n == end - offset
                    pointers == [i \in 1 .. NUM_INODE_PTRS |->
                                    IF i - offset \in 1 .. n THEN AddressOf(i - offset)
                                    ELSE inode.pointers[i]]
                IN  Commit([i \in 1 .. n |-> DataBlock(<<commands, i>>)]
                           \o <<[inode EXCEPT !.size = Max({end, @}), !.pointers = pointers]>>,
                           [inode_map EXCEPT ![w.inum] = AddressOf(n + 1)],
                           <<w.inum>>)

\* The last name of a file takes its inode along, which must be in the map in memory.
file_delete(path) ==
    \E w \in {Walk(path)} : \E type \in {TypeOf(w)} :
        LET lastName == GetInode(w.inum).refs = 1
            unmapped == lastName /\ inode_map[w.inum] = -1
        IN  \/ /\ w.result = "fails" \/ type = "no inode" \/ (type = "reg" /\ unmapped)
               /\ Fails("r", {path})
            \/ /\ type = "reg" /\ ~ unmapped
               /\ \E inode \in {GetInode(w.inum)}, parent \in {GetInode(w.parent)} :
                  \E s \in {find_matching_dir_slot(Last(path), parent)} :
                    LET blocks == <<[At(parent.pointers[s[1]]) EXCEPT !.entries[s[2]] = Free],
                                    [parent EXCEPT !.pointers[s[1]] = AddressOf(1)]>>
                    IN  Commit(IF lastName THEN blocks
                               ELSE blocks \o <<[inode EXCEPT !.refs = @ - 1]>>,
                               [inode_map EXCEPT
                                    ![w.inum] = IF lastName THEN -1 ELSE AddressOf(3),
                                    ![w.parent] = AddressOf(2)],
                               <<w.inum, w.parent>>)

sync ==
    /\ disk' = Synced(disk, cr)
    /\ UNCHANGED <<option, cr, inode_map, commands, failed>>

LFSNext ==
    /\ failed = NoFailure
    /\ \/ /\ commands < MaxCommands
          /\ \E path \in Paths :
                \/ "c" \in option.commands /\ file_create("c", path)
                \/ "d" \in option.commands /\ file_create("d", path)
                \/ "r" \in option.commands /\ file_delete(path)
                \/ /\ "w" \in option.commands
                   /\ \E offset \in 0 .. NUM_INODE_PTRS - 1, n \in 0 .. NUM_INODE_PTRS :
                        file_write(path, offset, n)
                \/ "l" \in option.commands /\ \E dst \in Paths : file_link(path, dst)
       \/ "s" \in option.commands /\ sync

LFSSpec == LFSInit /\ [][LFSNext]_lfsVars

-----------------------------------------------------------------------------
\* determine_liveness: what the last checkpoint in memory, the map in memory and the
\* inodes it names point to.
Pointed(inode) == {inode.pointers[i] : i \in 1 .. NUM_INODE_PTRS} \ {-1}

Live ==
    LET inodes == {inode_map[i] : i \in Inums} \ {-1}
    IN  {0} \cup (ToSet(cr) \ {-1}) \cup inodes
        \cup UNION {Pointed(At(a)) : a \in inodes}

\* A program that starts from block 0 finds what the one that runs has in memory: the
\* same inodes, with the same blocks, none of them taken for dead.  The names of a file
\* are not counted: file_link leaves the old count on the disk.
CheckpointCurrent ==
    LET Same(a, b) ==
            /\ At(a).type = At(b).type /\ At(a).size = At(b).size
            /\ At(a).pointers = At(b).pointers
            /\ At(a).type = "dir" => At(a).refs = At(b).refs
    IN  ~ option.no_force =>
          \A i \in Inums :
             IF At(0).entries[Chunk(i) + 1] = -1 THEN inode_map[i] = -1
             ELSE /\ (OnDisk(i) = -1) <=> (inode_map[i] = -1)
                  /\ OnDisk(i) # -1 =>
                        Same(OnDisk(i), inode_map[i]) /\ Pointed(At(OnDisk(i))) \subseteq Live

Before(p) == {SubSeq(p, 1, n) : n \in 1 .. Len(p) - 1}

\* The program is only ended by a command whose path leads through a file, or by a link
\* into a directory that is missing; the inode that an entry names is always found, as
\* the assertion at lfs.py:340 has it.  With -D this is not so: see lfs_link.
FailsOnStrayPath ==
    failed # NoFailure =>
        \E p \in failed.paths :
            \/ \E q \in Before(p) : TypeOf(Walk(q)) = "reg"
            \/ failed.command = "l" /\ Walk(p).result = "error"

\* ... and with -D, else, only by one that needs an inode which is gone while a name of it
\* is left.
FailsOnStrayOrLost ==
    \/ FailsOnStrayPath
    \/ /\ option.use_disk_cr
       /\ \E p \in failed.paths : \E q \in Before(p) \cup {p} : TypeOf(Walk(q)) = "no inode"

-----------------------------------------------------------------------------
\* The tree that the map in memory leads to.
Entered(inum, name) ==
    LET found == {e \in UNION {ToSet(At(a).entries) : a \in Pointed(At(inode_map[inum]))} :
                    e[1] = name}
    IN  IF found = {} THEN -1 ELSE (CHOOSE e \in found : TRUE)[2]

\* What path leads to, from the root on, or -1.
Find(path) ==
    LET Enter(inum, name) ==
            IF inum = -1 \/ inode_map[inum] = -1 \/ At(inode_map[inum]).type # "dir" THEN -1
            ELSE Entered(inum, name)
    IN  FoldLeft(Enter, ROOT_INODE, path)

Skipped == <<-1, -1>>

ContentOf(inum) ==
    LET inode == At(inode_map[inum])
    IN  [i \in 1 .. inode.size |->
            IF inode.pointers[i] = -1 THEN Skipped ELSE At(inode.pointers[i]).contents]

\* The paths that lead to an inode of that type.
Typed(type, paths) ==
    {p \in paths : LET inum == Find(p) IN /\ inum # -1 /\ inode_map[inum] # -1
                                         /\ At(inode_map[inum]).type = type}

TreeDirectories == Typed("dir", Paths \cup {Front(p) : p \in Paths})
TreeFile == [p \in Typed("reg", Paths) |-> Find(p)]
TreeContent == [i \in {Find(p) : p \in Typed("reg", Paths)} |-> ContentOf(i)]

Tree == INSTANCE LogTree WITH
    Contents <- {}, Empty <- << >>, Objects <- Inums, Hole <- Skipped,
    directories <- TreeDirectories, file <- TreeFile, content <- TreeContent

\* The entries of an inode in the directories, "." and ".." aside, and how many names it has
\* by the count that file_delete reads.
EntriesOf(inum) ==
    LET dirs == {d \in Inums : inode_map[d] # -1 /\ At(inode_map[d]).type = "dir"}
        blocks == UNION {Pointed(At(inode_map[d])) : d \in dirs}
    IN  {e \in blocks \X (1 .. EntriesPerBlock) :
            LET entry == At(e[1]).entries[e[2]]
            IN  entry[1] \notin {".", ".."} /\ entry[2] = inum}

CountedNames(inum) ==
    CASE inode_map[inum] = -1 -> 0
      [] inode_map[inum] # -1 /\ GetInode(inum).type = "reg" -> GetInode(inum).refs
      [] OTHER -> IF inum = ROOT_INODE THEN 0 ELSE 1

Miscounted(inum) == Cardinality(EntriesOf(inum)) # CountedNames(inum)

\* With -D file_link leaves the old count where file_delete looks for it (lfs.py:552): the
\* inode is freed while it has a name, and then given to something else, perhaps to a
\* directory that has two names from then on.
LosesCount ==
    /\ option.use_disk_cr
    /\ \E i \in Inums :
          /\ Miscounted(i)
          /\ \/ (inode_map[i] = -1) # (inode_map'[i] = -1)
             \/ inode_map[i] # -1 /\ GetInode(i).type = "dir"

\* Whatever is written behind the log, the files and directories are those of a tree with
\* names for files, but for what a wrong count does with -D.
ImplementsLogTree ==
    Tree!TreeInit /\ [][Tree!LogTreeNext \/ LosesCount]_(Tree!treeVars)
=============================================================================
