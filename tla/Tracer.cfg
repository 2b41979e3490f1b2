\* Behaviours end when MaxSeq numbers were taken and MaxRuns Opens were made.
CONSTANTS
    Goroutine = {g1, g2, g3}
    Lengths = {1, 2}
    MaxBytes = 3
    AppendModes = {TRUE, FALSE}
    MaxSeq = 4
    MaxRuns = 2
SPECIFICATION Spec
INVARIANTS Capped WritersInOrder
CHECK_DEADLOCK FALSE
SYMMETRY Symmetry
