\* Two members, four messages, handlers that succeed or fail, two
\* rebalances beyond the forced ones, and one fault (a crash, a failed Start,
\* a lost commit, a nil message or a Stop), so one member always stays alive.
CONSTANTS
    Members = {m1, m2}
    None = None
    End = 4
    Outcomes = {TRUE, FALSE}
    MaxRebalances = 2
    MaxFaults = 1
SPECIFICATION FairSpec
INVARIANT TypeOK
PROPERTY ConsumerSpec
PROPERTY AllDelivered
PROPERTY StopTerminates
\* With every message handed out, ConsumeClaim blocks in its select until
\* the next rebalance or message: a real resting state, not a deadlock.
CHECK_DEADLOCK FALSE
