\* The fsync of a define record fails and the caller tries again.
CONSTANTS
    Goroutine = {g1, g2}
    Name = {m1, m2, m3}
    IdSpace = 3
    SyncAlways = {TRUE}
    WriteErrors = FALSE
    SyncErrors = TRUE
    MaxFile = 3
SPECIFICATION Spec
INVARIANT Reopenable
