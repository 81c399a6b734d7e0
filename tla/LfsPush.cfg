\* Three objects, any of them pointed to, stored locally or already on the
\* server, and every answer the server may give.
CONSTANTS
    o1 = o1
    o2 = o2
    o3 = o3
    Oids <- MCOids
    MayFail = TRUE
SPECIFICATION Spec
INVARIANT SilentMeansPushed
SYMMETRY MCSymmetry
\* push_objects returns, or completes, and the model stops.
CHECK_DEADLOCK FALSE
