\* Every operation on one collection; a crash cuts the log at a record or in one.
CONSTANTS
    a = a
    b = b
    x = x
    y = y
    none = none
    c1 = c1
    c2 = c2
    Coll = {c1}
    Id = {a, b}
    Val = {x, y}
    Fp <- MCFp
    ValLen <- MCValLen
    TombLen = 1
    Header = 1
    NoId = none
    Stored <- MCStored
    Odd = {}
    Filters <- MCFilters
    Deletes = TRUE
    TornTails = TRUE
    WriteErrors = TRUE
    SyncAlways = TRUE
    SyncErrors = TRUE
    MaxLog = 4
    MaxBatch = 2
SPECIFICATION Spec
INVARIANTS TypeOK IndexIsFold TableExact UniqueIds StatAgrees ScansAgree NeverCorrupt
PROPERTIES ImplementsStore
