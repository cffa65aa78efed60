SPECIFICATION Spec
CONSTANTS
    Types = {"direct", "log", "ideal"}
    num_logical_pages = 3
    num_blocks = 3
    pages_per_block = 2
    gc_high_water_mark = 3
    gc_low_water_mark = 2
    Values = {v, w}
    None = None
INVARIANTS MapsAgree LogInOrder NeverFull
PROPERTIES ImplementsDisk
SYMMETRY Symmetry
