\* Four clients with distinct values (c3 and c4 call the package-level
\* functions), one level of locking, a new lock object per section, three
\* redis failures or crashes, and a TTL that only runs out on a key whose
\* holder is gone.
CONSTANTS
    Clients = {c1, c2, c3, c4}
    NoKey = NoKey
    MaxDepth = 1
    MaxFaults = 3
    FnClients = {c3, c4}
    ReuseObjects = FALSE
    ExpiryWhileHeld = FALSE
    ValueOf <- DistinctValueOf
SPECIFICATION Spec
INVARIANT TypeOK
INVARIANT MutualExclusion
PROPERTY LeaseLockSpec
