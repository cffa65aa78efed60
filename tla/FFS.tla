-------------------------------- MODULE FFS --------------------------------
(***************************************************************************)
(* file-ffs/ffs.py: inodes and data blocks in cylinder groups, and where   *)
(* the program puts a new file: the inode in the group of its directory,   *)
(* that of a directory where most inodes are free, the data near the       *)
(* inode.  After every command do_verify compares the bitmaps with the     *)
(* counts and the files.  Sizes are at least 1; symbols, drawing and the   *)
(* spans are left out.                                                     *)
(***************************************************************************)
EXTENDS Integers, Sequences, SequencesExt, FiniteSets, FiniteSetsExt, Functions

CONSTANTS
    Policies,           \* [large_file_exception, contig_allocation_policy,
                        \*  spread_inodes, spread_data_blocks, allocate_faraway]
    num_groups, blocks_per_group, inodes_per_group,
    FilePaths,          \* that commands name: sequences of names
    FileSizes           \* in blocks

\* What the constants have to be; MC modules assume it of the values they give them.
FFSAssumption ==
    /\ num_groups \in Nat \ {0} /\ blocks_per_group \in Nat \ {0}
    /\ inodes_per_group \in Nat \ {0}
    /\ \A p \in Policies :
          /\ p.large_file_exception \in Nat /\ p.contig_allocation_policy \in Nat \ {0}
          /\ p.allocate_faraway \in Nat \ {0}
          /\ {p.spread_inodes, p.spread_data_blocks} \subseteq BOOLEAN
    /\ FileSizes \subseteq Nat \ {0}

Groups == 0 .. num_groups - 1
FREE == -2
Next_(g) == (g + 1) % num_groups

VARIABLES
    policy,
    inode_bitmap, data_bitmap,      \* per group and index, an inode number or FREE
    total_inodes_free, total_data_free,
    name_to_inode,                  \* per path; the root is << >>
    dir_data,                       \* per directory, its names and inode numbers
    inode_type, inode_blocks,       \* per inode number
    aborted                         \* the program has run into an exception

ffsVars == <<policy, inode_bitmap, data_bitmap, total_inodes_free, total_data_free,
             name_to_inode, dir_data, inode_type, inode_blocks, aborted>>

FFSInit ==
    LET bitmap(n) == [g \in Groups |-> [i \in 0 .. n - 1 |-> IF g = 0 /\ i = 0 THEN 0 ELSE FREE]]
    IN  /\ policy \in Policies
        /\ inode_bitmap = bitmap(inodes_per_group)
        /\ data_bitmap = bitmap(blocks_per_group)
        /\ total_inodes_free = inodes_per_group * num_groups - 1
        /\ total_data_free = blocks_per_group * num_groups - 1
        /\ name_to_inode = (<< >> :> 0)
        /\ dir_data = (0 :> {})
        /\ inode_type = (0 :> "directory")
        /\ inode_blocks = (0 :> <<0>>)
        /\ aborted = FALSE

-----------------------------------------------------------------------------
\* Where the inode goes.
FreeCount(bitmap) == Cardinality({i \in DOMAIN bitmap : bitmap[i] = FREE})
FreeInodes(g) == FreeCount(inode_bitmap[g])

\* The first of the groups gs for which the count is largest.
MostFree(gs, Count(_)) ==
    FoldLeft(LAMBDA best, g : IF Count(g) > (IF best = -1 THEN 0 ELSE Count(best)) THEN g
                              ELSE best, -1, gs)

find_most_free_inodes_multiple(how_many) ==
    LET InRange(g) == MapThenSumSet(LAMBDA k : FreeInodes((g + k) % num_groups),
                                    0 .. how_many - 1)
        starts == SelectSeq([i \in 1 .. num_groups |-> i - 1], LAMBDA g : g % how_many = 0)
    IN  MostFree(starts, InRange)

\* One group up, one down, two up, two down: the first with a free inode.
find_free_inodes_near(target) ==
    LET near == [i \in 1 .. num_groups - 1 |->
                    IF i % 2 = 1 THEN (target + (i + 1) \div 2) % num_groups
                    ELSE (target - i \div 2) % num_groups]
        n == SelectInSeq(near, LAMBDA g : FreeInodes(g) > 0)
    IN  IF n = 0 THEN 1 ELSE near[n]

pick_group(parent, type) ==
    LET target == name_to_inode[parent] \div inodes_per_group
    IN  CASE type = "regular" /\ ~ policy.spread_inodes /\ FreeInodes(target) > 0 -> target
          [] type = "regular" /\ ~ policy.spread_inodes /\ FreeInodes(target) = 0 ->
                find_free_inodes_near(target)
          [] OTHER -> find_most_free_inodes_multiple(policy.allocate_faraway)

\* The first free inode of a group, or -1.
find_free_inode(g) ==
    LET free == {i \in 0 .. inodes_per_group - 1 : inode_bitmap[g][i] = FREE}
    IN  IF free = {} THEN -1 ELSE Min(free)

-----------------------------------------------------------------------------
\* Faulty: one free block will do, as in the lines behind the return of range_free.
RangeFree_ThisOne(bitmap, index, needed, contig) == bitmap[index] = FREE

\* Where the data goes: group by group from the target on.  A block is taken when as
\* many behind it are free as the policy or the rest of the file needs; once round, any
\* free block is.  After large_file_exception blocks the next group has its turn.
RangeFree(bitmap, index, needed, contig) ==
    LET end == index + Min({needed, contig}) - 1
    IN  end < blocks_per_group /\ \A i \in index .. end : bitmap[i] = FREE

\* The loop, until the file has its blocks.
RECURSIVE Allocated(_, _, _)
Allocated(st, target, size) ==
    LET take == RangeFree(st.bitmap[st.group], st.index, size - Len(st.blocks), st.contig)
        taken == IF take
                 THEN [st EXCEPT !.bitmap[st.group][st.index] = st.inode,
                                 !.inGroup = @ + 1,
                                 !.blocks = Append(@, st.index + st.group * blocks_per_group)]
                 ELSE st
        leaves == \/ st.index + 1 = blocks_per_group
                  \/ policy.large_file_exception > 0
                     /\ taken.inGroup = policy.large_file_exception
        group == Next_(st.group)
        moved == IF leaves
                 THEN [taken EXCEPT !.inGroup = 0, !.index = 0, !.group = group,
                                    !.contig = IF group = target THEN 1 ELSE @]
                 ELSE [taken EXCEPT !.index = @ + 1]
    IN  IF Len(taken.blocks) = size THEN taken
        ELSE CHOOSE r \in {Allocated(m, target, size) : m \in {moved}} : TRUE

allocate_blocks(target, size, inode) ==
    Allocated([bitmap |-> data_bitmap, blocks |-> << >>, index |-> 0, inGroup |-> 0,
               group |-> target, inode |-> inode, contig |-> policy.contig_allocation_policy],
              target, size)

\* find_min_data_usage: the group with most free blocks.
find_min_data_usage ==
    MostFree([i \in 1 .. num_groups |-> i - 1], LAMBDA g : FreeCount(data_bitmap[g]))

-----------------------------------------------------------------------------
Parent(path) == SubSeq(path, 1, Len(path) - 1)
Taken(parent, name) == \E e \in dir_data[name_to_inode[parent]] : e[1] = name
With(f, x, v) == [y \in DOMAIN f \cup {x} |-> IF y = x THEN v ELSE f[y]]

\* A parent that is no directory is not noticed: dir_data has no entry for it.
Abort ==
    /\ aborted' = TRUE
    /\ UNCHANGED <<policy, inode_bitmap, data_bitmap, total_inodes_free, total_data_free,
                   name_to_inode, dir_data, inode_type, inode_blocks>>

do_create(path, size, type) ==
    LET parent == Parent(path)
        name == Last(path)
        p == name_to_inode[parent]
    IN  /\ total_inodes_free > 0 /\ total_data_free >= size
        /\ parent \in DOMAIN name_to_inode
        /\ \/ p \notin DOMAIN dir_data /\ Abort
           \/ /\ p \in DOMAIN dir_data /\ ~ Taken(parent, name)
              /\ LET group == pick_group(parent, type)
                     index == find_free_inode(group)
                     inode == index + group * inodes_per_group
                     to == IF policy.spread_data_blocks THEN find_min_data_usage ELSE group
                 IN  \E done \in {allocate_blocks(to, size, inode)} :
                       \* Python takes index -1 for the last inode of the group.
                       /\ inode_bitmap' = [inode_bitmap EXCEPT
                             ![group][IF index = -1 THEN inodes_per_group - 1 ELSE index] = inode]
                       /\ data_bitmap' = done.bitmap
                       /\ inode_blocks' = With(inode_blocks, inode, done.blocks)
                       /\ inode_type' = With(inode_type, inode, type)
                       /\ name_to_inode' = With(name_to_inode, path, inode)
                       /\ dir_data' = LET d == [dir_data EXCEPT ![p] = @ \cup {<<name, inode>>}]
                                      IN  IF type = "directory" THEN With(d, inode, {}) ELSE d
                       /\ total_inodes_free' = total_inodes_free - 1
                       /\ total_data_free' = total_data_free - size
                       /\ UNCHANGED <<policy, aborted>>

\* Faulty: index and group swapped.
PlaceInGroup_Swapped(n) == <<n % num_groups, n \div num_groups>>

\* do_delete finds the place in the bitmaps by the number of groups, not by what a group
\* holds: right when the three are the same.
PlaceInGroup(n) == <<n \div num_groups, n % num_groups>>
InBitmap(place, n) == place[1] < num_groups /\ place[2] < n

do_delete(path) ==
    LET parent == Parent(path)
        p == name_to_inode[parent]
        inode == (CHOOSE e \in dir_data[p] : e[1] = Last(path))[2]
        blocks == {PlaceInGroup(b) : b \in ToSet(inode_blocks[inode])}
        at == PlaceInGroup(inode)
        inBitmaps == InBitmap(at, inodes_per_group)
                     /\ \A b \in blocks : InBitmap(b, blocks_per_group)
    IN  /\ parent \in DOMAIN name_to_inode
        /\ \/ p \notin DOMAIN dir_data /\ Abort
           \/ /\ p \in DOMAIN dir_data /\ Taken(parent, Last(path))
              /\ inode_type[inode] = "regular"
              /\ \/ ~ inBitmaps /\ Abort
                 \/ /\ inBitmaps
                    /\ data_bitmap' = [g \in Groups |-> [i \in 0 .. blocks_per_group - 1 |->
                                          IF <<g, i>> \in blocks THEN FREE ELSE data_bitmap[g][i]]]
                    /\ inode_bitmap' = [inode_bitmap EXCEPT ![at[1]][at[2]] = FREE]
                    /\ dir_data' = [dir_data EXCEPT ![p] = @ \ {<<Last(path), inode>>}]
                    /\ name_to_inode' = Restrict(name_to_inode, DOMAIN name_to_inode \ {path})
                    /\ total_inodes_free' = total_inodes_free + 1
                    /\ total_data_free' = total_data_free + Len(inode_blocks[inode])
                    /\ inode_type' = [inode_type EXCEPT ![inode] = ""]
                    /\ inode_blocks' = [inode_blocks EXCEPT ![inode] = << >>]
                    /\ UNCHANGED <<policy, aborted>>

FFSNext ==
    /\ ~ aborted
    /\ \E path \in FilePaths :
          \/ \E size \in FileSizes : do_create(path, size, "regular")
          \/ do_create(path, 1, "directory")
          \/ do_delete(path)

FFSSpec == FFSInit /\ [][FFSNext]_ffsVars

-----------------------------------------------------------------------------
Used(bitmap) ==
    SumFunction([g \in Groups |-> Cardinality({i \in DOMAIN bitmap[g] : bitmap[g][i] # FREE})])
Block(b) == data_bitmap[b \div blocks_per_group][b % blocks_per_group]
BlocksOf(f) == ToSet(inode_blocks[name_to_inode[f]])

\* do_verify, the assertions the program makes after every command: what is used and what
\* is counted free add up, and the blocks of a file are marked as its own.
VerifyPasses ==
    /\ Used(data_bitmap) + total_data_free = num_groups * blocks_per_group
    /\ Used(inode_bitmap) + total_inodes_free = num_groups * inodes_per_group
    /\ \A f \in DOMAIN name_to_inode : \A b \in BlocksOf(f) : Block(b) = name_to_inode[f]

\* Moreover the inodes of two names differ and are marked, and every marked block belongs
\* to a name.
Verified ==
    LET Mark(i) == inode_bitmap[i \div inodes_per_group][i % inodes_per_group]
    IN  /\ VerifyPasses
        /\ \A f \in DOMAIN name_to_inode : Mark(name_to_inode[f]) = name_to_inode[f]
        /\ IsInjective(name_to_inode)
        /\ Used(data_bitmap) = Cardinality(UNION {BlocksOf(f) : f \in DOMAIN name_to_inode})

\* A new file has as many blocks as asked for, all of them free before.  Where no policy
\* scatters it, it begins with the first free run as long as is asked for (-C), from the
\* group of its inode on, in whatever group that is; and without such a demand it has the
\* first free blocks.
NearestStep ==
    \A f \in DOMAIN name_to_inode' \ DOMAIN name_to_inode :
        LET inode == name_to_inode'[f]
            blocks == inode_blocks'[inode]
            FreeBefore(b) == data_bitmap[b \div blocks_per_group][b % blocks_per_group] = FREE
            first == (inode \div inodes_per_group) * blocks_per_group
            all == num_groups * blocks_per_group
            inOrder == SelectSeq([i \in 1 .. all |-> (first + i - 1) % all], FreeBefore)
            run == Min({Len(blocks), policy.contig_allocation_policy})
            BeginsRun(b) == /\ (b % blocks_per_group) + run <= blocks_per_group
                            /\ \A i \in 0 .. run - 1 : FreeBefore(b + i)
            runs == SelectSeq(inOrder, BeginsRun)
        IN  /\ Cardinality(ToSet(blocks)) = total_data_free - total_data_free'
            /\ \A b \in ToSet(blocks) : FreeBefore(b)
            /\ policy.large_file_exception = 0 /\ ~ policy.spread_data_blocks =>
                  /\ runs # << >> => blocks[1] = runs[1]
                  /\ policy.contig_allocation_policy = 1 => blocks = SubSeq(inOrder, 1, Len(blocks))

AllocatesNearest == [][NearestStep]_ffsVars
=============================================================================
