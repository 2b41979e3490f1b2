\* A failed write whose remains are partly overwritten before a crash.
CONSTANTS
    short = short
    long = long
    tomb = tomb
    Record = {short, long, tomb}
    Insert = {short, long}
    PayloadCells <- MCPayloadCells
    SyncAlways = TRUE
    FastOpen = FALSE
    WriteErrors = TRUE
    SyncErrors = FALSE
    MaxBatch = 2
    MaxRecords = 3
SPECIFICATION Spec
INVARIANT NeverRefused
