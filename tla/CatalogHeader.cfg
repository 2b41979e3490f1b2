\* A crash, or a full disk, while Open writes the header of a new file.
CONSTANTS
    Goroutine = {g1, g2}
    Name = {m1, m2, m3}
    IdSpace = 3
    SyncAlways = {TRUE}
    WriteErrors = FALSE
    SyncErrors = FALSE
    MaxFile = 3
SPECIFICATION Spec
INVARIANT EveryCrashRecovers
