SPECIFICATION Spec
CONSTANTS
    Clients = {c1, c2}
    Reopeners = {c1, c2}
    NumFiles = 1
    Files <- MCFiles
    FDs = {fd1, fd2, fd3}
    FileValue <- MCFileValue
    MaxValue = 3
INVARIANTS NeverFails
SYMMETRY Symmetry
