\* events.rs: data that cannot be decoded is logged, not fatal.
SPECIFICATION Spec
CONSTANTS
    ann = ann
    g1 = g1
    Author = {ann}
    GistId = {g1}
    Batches <- MCBatches
    Data <- DocumentedData
    Ranges <- MCRange
    PageLimit = 1
    MaxEvents = 3
    MaxLedger = 1
CHECK_DEADLOCK FALSE
INVARIANTS
    UndecodableNotFatal
