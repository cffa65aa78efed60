SPECIFICATION StorageSpec
CONSTANTS
    Jobs <- SomeJobs
    MaxStarts = 1
    MaxPauses = 1
    Options <- SomeOptions
    Names = {"a", "b", "c"}
    NUM_IMAP_PTRS_IN_CR = 2
    NUM_INODES_PER_IMAP_CHUNK = 2
    NUM_INODE_PTRS = 2
    EntriesPerBlock = 2
    Paths <- LFSPaths
    MaxCommands = 4
INVARIANTS RaidServes TwoPhases StopsWhenServed CheckpointCurrent AssertionsHold
PROPERTIES Serves ImplementsLogTree AllocatesNearest
CHECK_DEADLOCK FALSE
