\* Every way a process can lose records, with and without fsync, all ids used up.
CONSTANTS
    Goroutine = {g1, g2}
    Name = {m1, m2, m3}
    IdSpace = 3
    SyncAlways = {TRUE, FALSE}
    WriteErrors = TRUE
    SyncErrors = FALSE
    MaxFile = 4
SPECIFICATION Spec
INVARIANTS HandlesAgree Reopenable DefinesDurable InsertsLandHome CreatedStays
