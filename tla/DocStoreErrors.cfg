\* An insert whose record is written and whose fsync fails.
CONSTANTS
    a = a
    b = b
    x = x
    y = y
    none = none
    c1 = c1
    c2 = c2
    Coll = {c1}
    Id = {a, b}
    Val = {x, y}
    Fp <- MCFp
    ValLen <- MCValLen
    TombLen = 1
    Header = 1
    NoId = none
    Stored <- MCStored
    Odd = {}
    Filters <- MCFilters
    Deletes = TRUE
    TornTails = FALSE
    WriteErrors = FALSE
    SyncAlways = TRUE
    SyncErrors = TRUE
    MaxLog = 2
    MaxBatch = 2
SPECIFICATION Spec
PROPERTIES ErrorMeansNoEffect
