\* One consumer group, inserts and deletes, two injected faults, fair
\* scheduling: every row version the group should see reaches it.
CONSTANTS
    Procs = {p1}
    Groups = {g1}
    FirstId = 1
    LastId = 4
    MaxTime = 2
    MaxWrites = 5
    MaxFaults = 2
    WriteKinds = {"insert", "delete"}
    ScanOrders = {"pk", "index"}
    ExpiryWhileHeld = FALSE
    GroupsLeave = FALSE
SPECIFICATION FairSpec
PROPERTY EventuallyDelivered
