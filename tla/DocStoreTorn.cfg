\* Inserts and replaces on two collections; a crash may leave a torn record.
CONSTANTS
    a = a
    b = b
    x = x
    y = y
    none = none
    c1 = c1
    c2 = c2
    Coll = {c1, c2}
    Id = {a, b}
    Val = {x, y}
    Fp <- MCFp
    ValLen <- MCValLen
    TombLen = 1
    Header = 1
    NoId = none
    Stored <- MCStored
    Odd = {}
    Filters <- MCFilters
    Deletes = FALSE
    TornTails = TRUE
    WriteErrors = FALSE
    SyncAlways = FALSE
    SyncErrors = FALSE
    MaxLog = 4
    MaxBatch = 1
SPECIFICATION Spec
INVARIANTS TypeOK IndexIsFold TableExact UniqueIds StatAgrees ScansAgree NeverCorrupt
