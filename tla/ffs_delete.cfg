SPECIFICATION FFSSpec
CONSTANTS
    Policies <- DefaultPolicy
    num_groups = 2
    blocks_per_group = 3
    inodes_per_group = 2
    FilePaths <- TwoFiles
    FileSizes = {1, 2}
INVARIANT VerifyPasses
CHECK_DEADLOCK FALSE
