\* Others delete.
CONSTANTS
    Batch = {1, 2}
    Skip = {0, 1}
    Replaces = FALSE
    Deletes = TRUE
    MaxDocs = 3
SPECIFICATION FairIterSpec
INVARIANT PagesStable
