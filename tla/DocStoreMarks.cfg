\* A torn record behind a tombstone.
CONSTANTS
    a = a
    b = b
    x = x
    y = y
    none = none
    c1 = c1
    c2 = c2
    Coll = {c1}
    Id = {a, b}
    Val = {x, y}
    Fp <- MCFp
    ValLen <- MCValLen
    TombLen = 1
    Header = 1
    NoId = none
    Stored <- MCStored
    Odd = {}
    Filters <- MCFilters
    Deletes = TRUE
    TornTails = TRUE
    WriteErrors = TRUE
    SyncAlways = TRUE
    SyncErrors = TRUE
    MaxLog = 3
    MaxBatch = 2
SPECIFICATION Spec
INVARIANTS PublishedArraysHoldNoMark
