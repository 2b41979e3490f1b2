\* Two goroutines that scan and write.
CONSTANTS
    Goroutine = {g1, g2}
    Free = Free
    MaxRecords = 3
SPECIFICATION FairSpec
INVARIANTS ScanIsSnapshot
PROPERTIES OneRule NothingAfterClose CallsReturn
