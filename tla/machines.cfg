SPECIFICATION MachinesSpec
CONSTANTS
    \* Tables of two entries; as many pages as are needed for some.
    pageSize = 2
    physPages = 5
    Allocated = {0, 1, 2, 3, 4}
    Fills = {0, 1}
    Systems <- BothVersions
INVARIANTS JobsKept CpuShared AllotmentBinds HeapCovered FewestMisses TranslatesAsMapped
PROPERTIES Finishes
CHECK_DEADLOCK FALSE
