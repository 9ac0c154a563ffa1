\* The application also updates rows: an update stamped in the tick of a
\* scan, to a row below the new cursor, is never delivered.
CONSTANTS
    Procs = {p1}
    Groups = {g1}
    FirstId = 1
    LastId = 2
    MaxTime = 1
    MaxWrites = 3
    MaxFaults = 0
    WriteKinds = {"insert", "update"}
    ScanOrders = {"pk"}
    ExpiryWhileHeld = FALSE
    GroupsLeave = FALSE
SPECIFICATION Spec
INVARIANT CheckpointSound
