\* One process, two consumer groups that join and leave, inserts and
\* deletes, two injected faults.  Ids 8..10 make "10" sort below "9" in
\* cdc_task's VARCHAR id column.
CONSTANTS
    Procs = {p1}
    Groups = {g1, g2}
    FirstId = 8
    LastId = 10
    MaxTime = 2
    MaxWrites = 4
    MaxFaults = 2
    WriteKinds = {"insert", "delete"}
    ScanOrders = {"pk", "index"}
    ExpiryWhileHeld = FALSE
    GroupsLeave = TRUE
SPECIFICATION Spec
SYMMETRY GroupSymmetry
INVARIANT TypeOK
INVARIANT MutualExclusion
INVARIANT CheckpointSound
PROPERTY CheckpointSpec
