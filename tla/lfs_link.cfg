SPECIFICATION LFSSpec
CONSTANTS
    Options <- FromDisk
    Names = {"a", "b"}
    NUM_IMAP_PTRS_IN_CR = 2
    NUM_INODES_PER_IMAP_CHUNK = 2
    NUM_INODE_PTRS = 2
    EntriesPerBlock = 2
    Paths <- TwoNames
    MaxCommands = 4
INVARIANTS FailsOnStrayPath
CHECK_DEADLOCK FALSE
