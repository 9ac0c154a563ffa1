------------------------------ MODULE RedisLock ------------------------------
(***************************************************************************)
(* The redis lock of src/core/redis_tool/redislock.go: one key, used by a *)
(* set of clients (goroutines or processes).  A client's lock value is    *)
(* idx.NewUUID() (NewRedisLock) or one it passes in (NewAutoRedisLock);   *)
(* ValueOf gives it.  Lock runs luaLock and UnLock runs luaUnLock; UnLock *)
(* then closes the object's unlockCh.                                     *)
(*                                                                         *)
(* A client nests critical sections up to MaxDepth deep (the reentrancy   *)
(* the code's comment promises); depth[c] is how many it is inside, and   *)
(* unlockCh[c][d] is the state of the unlockCh of the lock object it uses  *)
(* at level d.  With ReuseObjects the caller keeps one object per   *)
(* level across sections; otherwise it builds a new one for each section. *)
(* Redis calls may fail or lose their reply (bounded by MaxFaults), a      *)
(* client may crash and restart with new objects, and the key's PX TTL    *)
(* may run out.                                                            *)
(*                                                                         *)
(* The clients in FnClients use the package-level functions instead:       *)
(* Lock/LockCtx and UnLockCtx run the same two scripts through rl.Write    *)
(* with a value the caller passes, and there is no lock object and no     *)
(* unlockCh.                                                               *)
(*                                                                         *)
(* go-redis retries a command whose reply timed out (MaxRetries, 1 by     *)
(* default in conf.go): pending[c] records an Eval whose first run may or  *)
(* may not have reached redis and whose retry has not answered yet.  The  *)
(* caller is blocked in LockCtx or UnLockCtx meanwhile, while the other    *)
(* clients go on.                                                          *)
(***************************************************************************)
EXTENDS Integers, FiniteSets

CONSTANTS
    Clients,         \* goroutines or processes using the lock key
    ValueOf,         \* client -> the value of its lock objects
    NoKey,           \* the key is absent in redis
    MaxDepth,        \* deepest nesting of Lock calls by one client
    MaxFaults,       \* bound on failed redis calls and crashes
    FnClients,       \* clients calling the package-level LockCtx/UnLockCtx
    ReuseObjects,    \* does a caller reuse a RedisLock object after UnLock?
    ExpiryWhileHeld  \* can the PX TTL run out while a holder is inside?

ASSUME /\ NoKey \notin {ValueOf[c] : c \in Clients} /\ FnClients \subseteq Clients
       /\ MaxDepth \in Nat \ {0} /\ MaxFaults \in Nat
       /\ ReuseObjects \in BOOLEAN /\ ExpiryWhileHeld \in BOOLEAN

VARIABLES
    key,       \* the value stored at the lock key, or NoKey
    depth,     \* client -> number of critical sections it is inside
    unlockCh,  \* client -> level -> "open" or "closed": that object's channel
    panicked,  \* clients whose UnLock closed a closed channel
    faults,    \* failed redis calls and crashes so far
    pending    \* client -> "none", or the Eval ("lock", "unlock") awaiting its retry

vars == <<key, depth, unlockCh, panicked, faults, pending>>

Levels == 1..MaxDepth
Values == {ValueOf[c] : c \in Clients}

Fault == faults < MaxFaults /\ faults' = faults + 1

\* the client is not blocked in a retried Eval
Idle(c) == pending[c] = "none"

\* Mutation: the constructor leaves unlockCh nil (no make).
NewObjectsNil == [d \in Levels |-> "nil"]

\* NewRedisLock / NewAutoRedisLock: a fresh unlockCh at every level
NewObjects == [d \in Levels |-> "open"]

-----------------------------------------------------------------------------
(* The two Lua scripts, run atomically by redis.                           *)

\* Mutation: SET without NX, so a held key is overwritten.
LuaLockOverwrites(v) == TRUE

\* luaLock: GET = value -> SET PX, "OK"; else SET NX PX, which succeeds
\* only on an absent key
LuaLockOK(v) == key = v \/ key = NoKey

\* Mutation: DEL without comparing the value first.
LuaUnLockBlind(v) == NoKey

\* luaUnLock: GET = value -> DEL, 1; else 0
LuaUnLock(v) == IF key = v THEN NoKey ELSE key

-----------------------------------------------------------------------------
Init ==
    /\ key = NoKey
    /\ depth = [c \in Clients |-> 0]
    /\ unlockCh = [c \in Clients |-> NewObjects]
    /\ panicked = {}
    /\ faults = 0
    /\ pending = [c \in Clients |-> "none"]

\* luaLock answered "OK": the client's value is in the key and it enters one
\* level deeper; a method caller that does not reuse objects built a new
\* one for this section
Entered(c) ==
    /\ key' = ValueOf[c]
    /\ depth' = [depth EXCEPT ![c] = @ + 1]
    /\ unlockCh' = IF c \in FnClients \/ ReuseObjects THEN unlockCh
                   ELSE [unlockCh EXCEPT ![c][depth[c] + 1] = "open"]

\* close(rl.unlockCh) of the object at level d, which panics if an earlier
\* UnLock of that object closed it
CloseCh(c, d) ==
    IF unlockCh[c][d] = "open"
    THEN unlockCh' = [unlockCh EXCEPT ![c][d] = "closed"] /\ UNCHANGED panicked
    ELSE panicked' = panicked \cup {c} /\ UNCHANGED unlockCh

\* LockCtx answers (true, nil): the client enters one level deeper.  A
\* caller that does not reuse objects built a new one for this section.
Lock(c) ==
    /\ c \notin FnClients /\ Idle(c)
    /\ depth[c] < MaxDepth
    /\ LuaLockOK(ValueOf[c])
    /\ Entered(c)
    /\ UNCHANGED <<panicked, faults, pending>>

\* the package-level LockCtx(ctx, key, value, seconds) answers (true, nil):
\* the same luaLock through rl.Write, with no object to build
LockFn(c) ==
    /\ c \in FnClients /\ Idle(c)
    /\ depth[c] < MaxDepth
    /\ LuaLockOK(ValueOf[c])
    /\ Entered(c)
    /\ UNCHANGED <<panicked, faults, pending>>

\* LockCtx answers (false, redis.Nil): SET NX found another value; the
\* caller does not enter
LockBusy(c) ==
    /\ Idle(c)
    /\ depth[c] < MaxDepth
    /\ ~LuaLockOK(ValueOf[c])
    /\ UNCHANGED vars

\* Eval fails for good (an error go-redis does not retry, or the last
\* retry): either the script never ran, or it ran and set the key but the
\* reply was lost; the caller sees an error and does not enter
LockLost(c) ==
    /\ pending[c] \in {"none", "lock"}
    /\ depth[c] < MaxDepth
    /\ Fault
    /\ \/ UNCHANGED key
       \/ LuaLockOK(ValueOf[c]) /\ key' = ValueOf[c]
    /\ pending' = [pending EXCEPT ![c] = "none"]
    /\ UNCHANGED <<depth, unlockCh, panicked>>

\* the Eval of luaLock times out: the script ran or not, and go-redis
\* sends it again after a backoff
LockTimeout(c) ==
    /\ Idle(c)
    /\ depth[c] < MaxDepth
    /\ Fault
    /\ \/ UNCHANGED key
       \/ LuaLockOK(ValueOf[c]) /\ key' = ValueOf[c]
    /\ pending' = [pending EXCEPT ![c] = "lock"]
    /\ UNCHANGED <<depth, unlockCh, panicked>>

\* the retried luaLock answers: "OK" (a free key, or the key the first run
\* set) and the caller enters, or redis.Nil and it does not
LockRetry(c) ==
    /\ pending[c] = "lock"
    /\ pending' = [pending EXCEPT ![c] = "none"]
    /\ IF LuaLockOK(ValueOf[c]) THEN Entered(c)
       ELSE UNCHANGED <<key, depth, unlockCh>>
    /\ UNCHANGED <<panicked, faults>>

\* UnLockCtx with a reply: the script ran, then close(rl.unlockCh), which
\* panics if this object's channel was closed by an earlier UnLock
UnLock(c) ==
    LET d == depth[c] IN
    /\ c \notin FnClients /\ Idle(c)
    /\ d > 0
    /\ key' = LuaUnLock(ValueOf[c])
    /\ depth' = [depth EXCEPT ![c] = d - 1]
    /\ CloseCh(c, d)
    /\ UNCHANGED <<faults, pending>>

\* the package-level UnLockCtx with a reply: luaUnLock through rl.Write;
\* nothing is closed
UnLockFn(c) ==
    /\ c \in FnClients /\ Idle(c)
    /\ depth[c] > 0
    /\ key' = LuaUnLock(ValueOf[c])
    /\ depth' = [depth EXCEPT ![c] = @ - 1]
    /\ UNCHANGED <<unlockCh, panicked, faults, pending>>

\* Eval fails: the script ran or not, the channel stays open, and the
\* caller's section (which deferred the UnLock) ends regardless
UnLockLost(c) ==
    LET d == depth[c] IN
    /\ Idle(c)
    /\ d > 0
    /\ Fault
    /\ key' \in {key, LuaUnLock(ValueOf[c])}
    /\ depth' = [depth EXCEPT ![c] = d - 1]
    /\ UNCHANGED <<unlockCh, panicked, pending>>

\* the Eval of luaUnLock times out: the script ran or not, the section is
\* over, and go-redis sends the script again after a backoff
UnLockTimeout(c) ==
    /\ Idle(c)
    /\ depth[c] > 0
    /\ Fault
    /\ key' \in {key, LuaUnLock(ValueOf[c])}
    /\ depth' = [depth EXCEPT ![c] = @ - 1]
    /\ pending' = [pending EXCEPT ![c] = "unlock"]
    /\ UNCHANGED <<unlockCh, panicked>>

\* the retried luaUnLock answers 1 or 0 (an int64 either way), and a method
\* caller closes the channel of the object it unlocked; or the retry
\* fails too and the caller gets the error
UnLockRetry(c) ==
    /\ pending[c] = "unlock"
    /\ pending' = [pending EXCEPT ![c] = "none"]
    /\ \/ /\ key' = LuaUnLock(ValueOf[c])
          /\ IF c \in FnClients THEN UNCHANGED <<unlockCh, panicked>>
             ELSE CloseCh(c, depth[c] + 1)
          /\ UNCHANGED faults
       \/ /\ Fault
          /\ key' \in {key, LuaUnLock(ValueOf[c])}
          /\ UNCHANGED <<unlockCh, panicked>>
    /\ UNCHANGED depth

\* the client's process dies and restarts with new lock objects; the key
\* stays until its TTL runs out
Crash(c) ==
    /\ Fault
    /\ depth' = [depth EXCEPT ![c] = 0]
    /\ unlockCh' = [unlockCh EXCEPT ![c] = NewObjects]
    /\ pending' = [pending EXCEPT ![c] = "none"]
    /\ UNCHANGED <<key, panicked>>

\* the PX TTL (SetExpire seconds * 1000, or the 500 ms tolerance) runs out
Expire ==
    /\ key # NoKey
    /\ ExpiryWhileHeld \/ \A c \in Clients : ValueOf[c] = key => depth[c] = 0
    /\ key' = NoKey
    /\ UNCHANGED <<depth, unlockCh, panicked, faults, pending>>

Next ==
    \/ \E c \in Clients :
          Lock(c) \/ LockFn(c) \/ LockBusy(c) \/ LockLost(c)
          \/ LockTimeout(c) \/ LockRetry(c)
          \/ UnLock(c) \/ UnLockFn(c) \/ UnLockLost(c)
          \/ UnLockTimeout(c) \/ UnLockRetry(c)
          \/ Crash(c)
    \/ Expire

Spec == Init /\ [][Next]_vars

-----------------------------------------------------------------------------
(* Properties.                                                             *)

TypeOK ==
    /\ key \in Values \cup {NoKey}
    /\ depth \in [Clients -> 0..MaxDepth]
    /\ unlockCh \in [Clients -> [Levels -> {"open", "closed"}]]
    /\ panicked \subseteq Clients
    /\ faults \in 0..MaxFaults
    /\ pending \in [Clients -> {"none", "lock", "unlock"}]

\* No two clients are inside a critical section guarded by the key at the
\* same time (what LockCtx returning true is for).
MutualExclusion ==
    \A c, d \in Clients : c # d => ~(depth[c] > 0 /\ depth[d] > 0)

\* No UnLock panics on closing an already closed unlockCh.
NoUnlockPanic == panicked = {}

\* The refinement mapping: the lease owner is the client whose value the key
\* holds (values must be distinct), the clients inside are the busy ones.
KeyOwner == IF key = NoKey THEN NoKey ELSE CHOOSE c \in Clients : ValueOf[c] = key

Abstract == INSTANCE LeaseLock
    WITH owner <- KeyOwner, busy <- {c \in Clients : depth[c] > 0}, None <- NoKey

\* The lock, seen through the key's value and the clients inside, behaves
\* as a lease lock: LockCtx lets a client in only on a free or own lease,
\* UnLockCtx returns it, and the TTL takes it away only from a client that
\* is out of its section.
LeaseLockSpec == Abstract!Spec

=============================================================================
