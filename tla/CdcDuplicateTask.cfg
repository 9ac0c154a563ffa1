\* Two processes: both discover the same group before either commits.
CONSTANTS
    Procs = {p1, p2}
    Groups = {g1}
    FirstId = 1
    LastId = 1
    MaxTime = 0
    MaxWrites = 1
    MaxFaults = 0
    WriteKinds = {"insert"}
    ScanOrders = {"pk"}
    ExpiryWhileHeld = FALSE
    GroupsLeave = FALSE
SPECIFICATION Spec
INVARIANT OneTaskPerGroup
