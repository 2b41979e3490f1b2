\* SyncNever, and an fsync that fails in Sync.
CONSTANTS
    short = short
    long = long
    tomb = tomb
    Record = {short, long, tomb}
    Insert = {short, long}
    PayloadCells <- MCPayloadCells
    SyncAlways = FALSE
    FastOpen = FALSE
    WriteErrors = FALSE
    SyncErrors = TRUE
    MaxBatch = 2
    MaxRecords = 3
SPECIFICATION Spec
INVARIANT CloseFlushes
