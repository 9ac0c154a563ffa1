\* Two consumer groups that stay on the broker, inserts and updates, one
\* injected fault, fair scheduling: each group is eventually seeded.
CONSTANTS
    Procs = {p1}
    Groups = {g1, g2}
    FirstId = 1
    LastId = 2
    MaxTime = 1
    MaxWrites = 3
    MaxFaults = 1
    WriteKinds = {"insert", "update"}
    ScanOrders = {"pk", "index"}
    ExpiryWhileHeld = FALSE
    GroupsLeave = FALSE
SPECIFICATION FairSpec
PROPERTY GroupEventuallyCheckpointed
