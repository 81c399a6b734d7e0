\* Three keys, vectors of up to three models or ids in chunks of two, so a
\* call has one or two chunks and a key can repeat within or across them.
\* No insert fails (a failing one is dropped: see the save_errors_dropped
\* run); a query's select may fail.
CONSTANTS
    k1 = k1
    k2 = k2
    k3 = k3
    Keys <- MCKeys
    Matching <- MCMatching
    ChunkSize = 2
    MaxLen = 3
    SaveMayFail = FALSE
    QueryMayFail = TRUE
    None = None
SPECIFICATION Spec
INVARIANTS SaveStoresAll QueryFindsStored
\* Both calls return, and the model stops.
CHECK_DEADLOCK FALSE
