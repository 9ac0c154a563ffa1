\* A row deleted between the cron job's COUNT and its SELECT.
CONSTANTS
    Procs = {p1}
    Groups = {g1}
    FirstId = 1
    LastId = 2
    MaxTime = 0
    MaxWrites = 3
    MaxFaults = 0
    WriteKinds = {"insert", "delete"}
    ScanOrders = {"pk"}
    ExpiryWhileHeld = FALSE
    GroupsLeave = FALSE
SPECIFICATION Spec
INVARIANT NoLeakedTx
