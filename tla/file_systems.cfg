SPECIFICATION FileSystemsSpec
CONSTANTS
    Clients = {c1, c2}
    Reopeners = {c2}
    NumFiles = 1
    Files <- MCFiles
    FDs = {fd1, fd2, fd3}
    FileValue <- MCFileValue
    MaxValue = 3
    Names = {"a", "b"}
    Contents = {"x", "y"}
    Empty = ""
    Sizes <- MCSizes
INVARIANTS Coherent CallbackPromise SteadyNeverFail BitmapsHold LinksHold NamesResolve CorruptionShows
PROPERTIES ImplementsSessions ImplementsTree
SYMMETRY Symmetry
