\* A client nests two Lock calls (the reentrancy the comment on LockCtx
\* promises): the inner UnLock deletes the key under the outer section.
CONSTANTS
    Clients = {c1, c2}
    NoKey = NoKey
    MaxDepth = 2
    MaxFaults = 0
    FnClients = {}
    ReuseObjects = FALSE
    ExpiryWhileHeld = FALSE
    ValueOf <- DistinctValueOf
SPECIFICATION Spec
INVARIANT MutualExclusion
