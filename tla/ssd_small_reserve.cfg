SPECIFICATION Spec
CONSTANTS
    Types = {"log"}
    num_logical_pages = 5
    num_blocks = 3
    pages_per_block = 2
    gc_high_water_mark = 3
    gc_low_water_mark = 2
    Values = {v}
    None = None
PROPERTIES ImplementsDisk
