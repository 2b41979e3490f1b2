\* Writes that stop part way, fsyncs that fail, crashes and replay.
CONSTANTS
    short = short
    long = long
    tomb = tomb
    Record = {short, long, tomb}
    Insert = {short, long}
    PayloadCells <- MCPayloadCells
    SyncAlways = TRUE
    FastOpen = FALSE
    WriteErrors = TRUE
    SyncErrors = TRUE
    MaxBatch = 2
    MaxRecords = 3
SPECIFICATION Spec
INVARIANTS TypeOK IInv VerifySeesDamage
PROPERTIES AppendOnly ImplementsDurableLog
