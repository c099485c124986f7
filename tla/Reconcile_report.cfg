\* Fetching and reporting while the log grows; the tool ends, so the system may stop.
SPECIFICATION FairSpec
CONSTANTS
    ann = ann
    g1 = g1
    Author = {ann}
    GistId = {g1}
    Batches <- MCBatches
    Data <- MCData
    Ranges <- MCRange
    PageLimit = 1
    MaxEvents = 3
    MaxLedger = 1
CHECK_DEADLOCK FALSE
INVARIANTS
    TypeOK
    ListsAreSnapshots
    ReportExact
    ExitTellsBadTips
PROPERTIES
    NeverOverstates
    Terminates
