\* Two processes, inserts and deletes: the cron job of one process uses a
\* cursor read before mutex.Lock, after the other process moved it on.
CONSTANTS
    Procs = {p1, p2}
    Groups = {g1}
    FirstId = 1
    LastId = 3
    MaxTime = 0
    MaxWrites = 4
    MaxFaults = 0
    WriteKinds = {"insert", "delete"}
    ScanOrders = {"pk"}
    ExpiryWhileHeld = FALSE
    GroupsLeave = FALSE
SPECIFICATION Spec
PROPERTY CursorMonotone
