\* A known name, and a count, asked of a closed database.
CONSTANTS
    Goroutine = {g1, g2}
    Name = {m1, m2, m3}
    IdSpace = 3
    SyncAlways = {TRUE}
    WriteErrors = FALSE
    SyncErrors = FALSE
    MaxFile = 3
SPECIFICATION Spec
INVARIANT ClosedIsErrClosed
