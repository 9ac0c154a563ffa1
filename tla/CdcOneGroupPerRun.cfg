\* Two consumer groups: queryTask's "limit 1" hands the cron job a single
\* group, so the other group's checkpoint never moves again.
CONSTANTS
    Procs = {p1}
    Groups = {g1, g2}
    FirstId = 1
    LastId = 2
    MaxTime = 1
    MaxWrites = 2
    MaxFaults = 0
    WriteKinds = {"insert"}
    ScanOrders = {"pk"}
    ExpiryWhileHeld = FALSE
    GroupsLeave = FALSE
SPECIFICATION FairSpec
PROPERTY EventuallyDelivered
