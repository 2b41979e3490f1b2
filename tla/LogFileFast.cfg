\* SyncNever and WithFastOpen, no failing system call.
CONSTANTS
    short = short
    long = long
    tomb = tomb
    Record = {short, long, tomb}
    Insert = {short, long}
    PayloadCells <- MCPayloadCells
    SyncAlways = FALSE
    FastOpen = TRUE
    WriteErrors = FALSE
    SyncErrors = FALSE
    MaxBatch = 2
    MaxRecords = 3
SPECIFICATION Spec
INVARIANTS IndexTilesFile Durable NeverRefused CloseFlushes
