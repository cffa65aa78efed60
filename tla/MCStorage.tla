----------------------------- MODULE MCStorage -----------------------------
(***************************************************************************)
(* The simulators of the storage chapters.  They have nothing in common at *)
(* run time: a behaviour is one of one of them, picked at the start, and   *)
(* the variables of the others stay as they are.  RaidGraphics and LFS,    *)
(* when they are not picked, stand where they start.                       *)
(***************************************************************************)
EXTENDS Integers, Sequences, RaidGraphics, LFS

VARIABLES
    simulator,
    layout, workload, off, requests, disks, physical,
    policy, inode_bitmap, data_bitmap, total_inodes_free, total_data_free,
    name_to_inode, dir_data, inode_type, inode_blocks, aborted

raid == <<layout, workload, off, requests, disks, physical>>
ffs == <<policy, inode_bitmap, data_bitmap, total_inodes_free, total_data_free,
         name_to_inode, dir_data, inode_type, inode_blocks, aborted>>
vars == <<simulator, raid, rgVars, lfsVars, ffs>>

NoRaid ==
    /\ layout = << >> /\ workload = << >> /\ off = << >> /\ requests = << >>
    /\ disks = << >> /\ physical = << >>
NoGraphics == job = (CHOOSE j \in Jobs : TRUE) /\ RaidGraphicsInit
NoLFS == option = (CHOOSE o \in Options : TRUE) /\ LFSInit
NoFFS ==
    /\ policy = << >> /\ inode_bitmap = << >> /\ data_bitmap = << >>
    /\ total_inodes_free = << >> /\ total_data_free = << >> /\ name_to_inode = << >>
    /\ dir_data = << >> /\ inode_type = << >> /\ inode_blocks = << >> /\ aborted = << >>

-----------------------------------------------------------------------------
\* Two requests to every kind of array: parts of a stripe, one, and more than one.
Layouts ==
    LET Of(level, ns, types) ==
            [level : {level}, numDisks : ns, chunkSize : {1, 2}, raid5type : types]
    IN  Of(0, {1, 3}, {"LS"}) \cup Of(1, {2, 4}, {"LS"}) \cup Of(4, {2, 4}, {"LS"})
        \cup Of(5, {2, 3, 4}, {"LS", "LA"})

R == INSTANCE Raid WITH
    randRange <- 7, Sizes <- {1, 3, 5}, numRequests <- 2, numTracks <- 10, blocksPerTrack <- 10

\* Requests that meet on a parity disk, full stripes, a window of one.
Queues(n, ls) == [1 .. n -> [op : {"read", "write"}, logical : ls]]
Ops(op, ls) == [i \in DOMAIN ls |-> [op |-> op, logical |-> ls[i]]]
SomeJobs ==
    [mapping : {4, 5}, queue : Queues(2, {0, 1, 4}), window : {-1, 1}, seek_speed : {20}]
    \cup [mapping : {0, 1}, queue : Queues(2, {0, 5}), window : {-1, 2}, seek_speed : {20}]
    \cup [mapping : {4}, window : {-1, 2}, seek_speed : {20},
          queue : {Ops("write", <<0, 1, 2>>), Ops("write", <<6, 7, 8, 6>>),
                   Ops("read", <<3, 1, 6>>) \o Ops("write", <<3, 7, 8>>)}]

\* Full directories, full files, few inodes; lookups in memory and, with -D, through the
\* checkpoint.  -D together with -N is left out: lookups are then as old as the last sync.
AllCommands == {"c", "d", "r", "w", "l", "s"}
SomeOptions ==
    {[use_disk_cr |-> FALSE, no_force |-> FALSE, random |-> FALSE, commands |-> AllCommands],
     [use_disk_cr |-> FALSE, no_force |-> TRUE, random |-> FALSE, commands |-> AllCommands],
     [use_disk_cr |-> TRUE, no_force |-> FALSE, random |-> TRUE, commands |-> AllCommands]}

SomePaths == {<<"a">>, <<"b">>, <<"a", "b">>}
LFSPaths == {<<"a">>, <<"b">>, <<"c">>, <<"a", "b">>}

\* Files that do not fit into a group, directories in other groups, a full disk.
Policies ==
    {p \in [large_file_exception : {0, 2}, contig_allocation_policy : {1, 2},
            spread_inodes : BOOLEAN, spread_data_blocks : BOOLEAN, allocate_faraway : {1}] :
        p.large_file_exception = 2 =>
            p.contig_allocation_policy = 2 /\ ~ p.spread_data_blocks}

F == INSTANCE FFS WITH
    num_groups <- 3, blocks_per_group <- 3, inodes_per_group <- 3, FileSizes <- {1, 2, 4},
    FilePaths <- SomePaths

ASSUME StorageAssumption ==
    /\ R!RaidAssumption /\ RaidGraphicsAssumption /\ FullStripesWritten
    /\ LFSAssumption /\ F!FFSAssumption

-----------------------------------------------------------------------------
StorageInit ==
    \/ simulator = "raid" /\ R!RaidInit /\ NoGraphics /\ NoLFS /\ NoFFS
    \/ simulator = "graphics" /\ RaidGraphicsInit /\ NoRaid /\ NoLFS /\ NoFFS
    \/ simulator = "lfs" /\ LFSInit /\ NoRaid /\ NoGraphics /\ NoFFS
    \/ simulator = "ffs" /\ F!FFSInit /\ NoRaid /\ NoGraphics /\ NoLFS

RaidStep == simulator = "raid" /\ R!RaidNext /\ UNCHANGED <<simulator, rgVars, lfsVars, ffs>>
GraphicsStep ==
    simulator = "graphics" /\ RaidGraphicsNext /\ UNCHANGED <<simulator, raid, lfsVars, ffs>>
Animates == simulator = "graphics" /\ Animate /\ UNCHANGED <<simulator, raid, lfsVars, ffs>>
LFSStep == simulator = "lfs" /\ LFSNext /\ UNCHANGED <<simulator, raid, rgVars, ffs>>
FFSStep == simulator = "ffs" /\ F!FFSNext /\ UNCHANGED <<simulator, raid, rgVars, lfsVars>>

StorageNext == RaidStep \/ GraphicsStep \/ LFSStep \/ FFSStep

StorageSpec == StorageInit /\ [][StorageNext]_vars /\ WF_vars(Animates)

-----------------------------------------------------------------------------
\* Raid: a request goes to the blocks it names, which no two blocks share; a parity block
\* is written when what it is computed from has been read; and a sequential workload moves
\* each arm to its first block only.  RaidGraphics puts a block where Raid does.
RaidServes ==
    /\ simulator = "raid" =>
          R!ParityComputable /\ R!EveryBlockServed /\ R!SequentialSeeksOnce
    /\ SameLayout

\* What the programs assert of themselves.  FFS: bitmaps, counts and files agree, as
\* do_verify has it.  LFS: nothing the program wrote makes one of its assertions fail,
\* only a path that leads through a file does, and with -D a name that lost its inode.
AssertionsHold == (simulator = "ffs" => F!Verified) /\ FailsOnStrayOrLost

\* FFS: the blocks of a new file are free ones, the nearest unless a policy says else.
AllocatesNearest == [][simulator = "ffs" => F!NearestStep]_vars
=============================================================================
