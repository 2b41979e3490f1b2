\* Others insert, replace and delete.
CONSTANTS
    Batch = {1, 2}
    Skip = {0, 1}
    Replaces = TRUE
    Deletes = TRUE
    MaxDocs = 4
SPECIFICATION FairIterSpec
INVARIANTS StableWhileGrowing
PROPERTIES IterationEnds
