---------------------------- MODULE MC_RedisLock ----------------------------
EXTENDS RedisLock

\* every lock object has its own idx.NewUUID() value
DistinctValueOf == [c \in Clients |-> c]
=============================================================================
