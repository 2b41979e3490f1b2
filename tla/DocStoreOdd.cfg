\* Documents with a key "_ID" that is a number.
CONSTANTS
    a = a
    b = b
    x = x
    y = y
    none = none
    c1 = c1
    c2 = c2
    Coll = {c1}
    Id = {a, b}
    Val = {x, y}
    Fp <- MCFp
    ValLen <- MCValLen
    TombLen = 1
    Header = 1
    NoId = none
    Stored <- MCStored
    Odd = {y}
    Filters <- MCFilters
    Deletes = TRUE
    TornTails = FALSE
    WriteErrors = FALSE
    SyncAlways = TRUE
    SyncErrors = FALSE
    MaxLog = 3
    MaxBatch = 2
SPECIFICATION Spec
INVARIANTS NeverCorrupt
