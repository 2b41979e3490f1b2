\* Four threads and two databases, with stale numbers.
CONSTANTS
    Thread = {t1, t2, t3, t4}
    MaxOpens = 2
SPECIFICATION FairSpec
INVARIANTS IInv NoUseAfterClose
PROPERTIES ClosesReturn
