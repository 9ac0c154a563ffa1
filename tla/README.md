# TLA+ models of idrm-go-frame

This directory holds TLA+ models of the parts of idrm-go-frame that have
concurrent, persistent or distributed state, together with the TLC
configurations that check them. The repository is a Go service framework.
Most of it is plumbing: configuration loading, logging, tracing, validation,
error codes and REST helpers. Its one hard subsystem is the polling CDC
(change-data-capture) engine in `src/core/cdc/source.go`. The models
concentrate there. Beside it, the lock, the Kafka consumer and the enum
registry (`src/core/enum/enum.go`) are modelled.

## 1. The system

### Parts and how they interact

| Part | Source | State | Interacts with |
|---|---|---|---|
| CDC source: discovery loop | `source.go` `Start`, `listenTopicGroupIds` | none (reads cdc_task and the broker every 30 s) | broker, cdc_task, full sync |
| CDC source: full sync | `source.go` `doFullSync`, `createTask` | holds the redsync mutex; one transaction on cdc_task | source table, cdc_task, broker, mutex |
| CDC source: incremental cron job | `source.go` `dispatchCron`, `queryTask`, `querySourceTable`, `updateTask` | holds the mutex; one transaction | source table, cdc_task, broker, mutex |
| Checkpoint store | table `cdc_task` (DDL at `source.go:30`) | rows (database, table, columns, topic, group_id, id VARCHAR, updated_at DATETIME(3)); no key | both syncs |
| Distributed mutex | redsync (`rs.NewMutex(topic)`) | a redis key with an 8 s TTL, released only by its token | both syncs, all processes |
| Change publisher | `kafkax/sync_producer.go` | broker offsets; `ListTopicGroupIds` lists the groups whose members are currently assigned the topic | both syncs, discovery |
| CDC sink | `cdc/sink.go` over `kafkax/consumer_service.go`, `kafka_consumer.go` | consumer-group offsets, committed after a handler returns true | broker |
| RedisLock | `redis_tool/redislock.go` | a reentrant Lua lock with a TTL, an unlock channel | redis |
| corn SyncMiddleware | `corn/corn.go` | an older CDC prototype: cron job with redsync `TryLock` | redis, kafka |
| Enum registry | `enum/enum.go` | package-level maps filled by `New` at init: per type a String, an Integer and a Display map and the declared Strings; short type name -> type | every package that declares enums |
| Other packages | config, gormx, validator, errorx, telemetry, rest, httpclient, utils, cmd/permission | no shared mutable state | none |

Every process that calls `Source.Start` runs two goroutines per configured
table (a *topic*). The first is a 30 s ticker. It calls
`listenTopicGroupIds`, which diffs the broker's groups against the groups
in `cdc_task`, and then calls `doFullSync` for any new groups. The second is
a robfig/cron job registered by `dispatchCron`. It reads the newest
`cdc_task` row, counts the changed rows, takes the mutex and publishes the
delta.

Both syncs write `cdc_task` in a transaction. The transaction commits only
after every message is published. Processes share the database, redis and
the broker, and nothing else.

### Hard behaviours of the code

- **Interleavings.** Several processes each run a discovery goroutine and a
  cron job for the same topic. Both read `cdc_task` *before* taking the
  mutex and act on what they read after taking it (`source.go:334`,
  `source.go:392-427`).
- **Lease expiry.** The redsync key expires after 8 s and is never extended,
  while a full table scan may take longer.
- **Early returns that keep the lock.** Every early return in `doFullSync`
  leaves the mutex held (`source.go:175,181,230,261,267,284`). Only
  line 288 unlocks.
- **Dual write.** Broker publishes and the `cdc_task` transaction are not
  atomic. Publishing may fail after some messages are out, and the commit's
  error is ignored (`286`, `490`).
- **Crashes.** `log.Fatal` fires on a scan error (`195`, `536`), and a
  process can die anywhere.
- **Ordering and cursor edges:**
  - The full-sync SELECT has no ORDER BY.
  - The incremental WHERE works on (ts, id).
  - `cdc_task.id` is a VARCHAR, so "9" sorts above "10".
  - `queryTask` reads only `limit 1`.
- **Discovery compares counts, not sets** (`351`).

## 2. Modules

| Module | Models | Kind |
|---|---|---|
| `CdcSource` | `source.go` for one topic, any number of processes, the redsync mutex, the source table and the broker's group assignment | component |
| `CdcCheckpoint` | what spec.md (4.1, 4.5, 4.6, 8) promises of checkpoints: seeded only for unknown groups at one cursor, advanced only forward, only over rows the group was sent | abstract spec |
| `MC_CdcSource` | `CdcSource` plus symmetry sets for TLC | MC module |
| `RedisLock` | `redis_tool/redislock.go`: one lock key, its two Lua scripts, `LockCtx`, `UnLockCtx`, the lock objects' `unlockCh` | component |
| `LeaseLock` | what a lock with a lease promises: an owner recorded in the store, the clients inside | abstract spec |
| `MC_RedisLock` | `RedisLock` with one distinct value per client | MC module |
| `KafkaConsumer` | `transport/mq/kafkax`: `ConsumeClaim`, the `registerHandle` Consume loop, the group coordinator's generations, one partition | component |
| `CommittedLog` | what a consumer group's committed offset promises: it moves forward only over messages handed out | abstract spec |
| `MC_KafkaConsumer` | `KafkaConsumer` for TLC | MC module |
| `Enum` | `enum/enum.go`: `New`/`set` as an action, the lookups and the flag operations as operators over the registry | component and pure algorithms |
| `MC_Enum` | `Enum` with two types, short names and displays for TLC | MC module |

### CdcSource: state

| Variable | Code |
|---|---|
| `srcTable`, `nextId`, `writes`, `clock` | the source table: id -> (timestamp column, version); the auto-increment; the timestamp column's clock in ticks of its precision |
| `brokerGroups` | what `ListTopicGroupIds` returns now |
| `cdcTask` | rows of `cdc_task` for the topic, records of `Task` (cdc.go's `Task`): `[group, id, ts]`, plus the ghost field `by` (the process whose full sync inserted the row) |
| `lock` | the holder of the redsync key, or `NoHolder` |
| `pc`, `grp`, `cur`, `pend` | each actor's control point, its `newGroupIds` or `groupIds`, the cursor it read from `cdc_task`, and the cursor its open transaction writes |
| `delivered` | ghost: the row versions published in messages addressed to each group |
| `leaked` | per process, transactions begun and never ended |
| `faults` | injected failures so far, bounded by `MaxFaults` |

An actor is `<<p, "full">>` (the discovery goroutine of process `p`) or
`<<p, "incr">>` (its cron job). Each actor's actions follow the code in
order:

- **Full-sync actor:**
  1. `DiscoveryTick` runs `listenTopicGroupIds` and finds new groups.
     `DiscoveryIdle` is a tick that finds none, or whose query failed.
     The broker's answer is `Listing`, from `ListTopicGroupIds`. It is
     normally every group with a member assigned the topic. A failed
     `DescribeConsumerGroups` or `GetMemberAssignment` instead returns a
     proper subset with a nil error, and this costs a fault
     (`sync_producer.go:64-77`).
  2. `FullLock` models `mutex.Lock`. The code spins on it, so the action
     waits until the key is free.
  3. `FullScan` models the SELECT, Begin, `createTask` and
     `packAndPublishMsg`, with every early return. Each early return goes
     back to idle *keeping the lock*. A publish failure has already
     delivered a prefix of the rows in scan order.
  4. `FullCommit` models `tx.Commit`, which makes the `createTask` rows
     visible, or a commit failure. Either way it then unlocks.
- **Incremental actor:**
  1. `IncrFire` runs `queryTask` and the COUNT query, which found rows.
     `IncrIdle` is an early return.
  2. `IncrLock` takes the mutex. `IncrLockFail` gives up on a held key.
  3. `IncrScan` models `querySourceTable`, Begin, `rowData[len-1]`,
     `updateTask` and publish. An empty `rowData` panics after Begin: the
     deferred Unlock runs but the transaction leaks.
  4. `IncrCommit` models `tx.Commit` and the deferred Unlock.
- **Environment:**
  - `Insert`, `Update(i)` and `Delete(i)` are application writes. They
    stamp the current tick.
  - `Tick` advances the clock.
  - `Join(g)` and `Leave(g)` change the broker's group assignment.
  - `Crash(p)` restarts a process. Its transactions roll back and the
    redis key stays.
  - `Expire` is the redsync TTL running out.

The SQL is modelled by what it selects:
- `IncrPredicate` is the incremental WHERE.
- `KeyLess` is ORDER BY ts, id.
- `TopTasks` is `ORDER BY id desc, updated_at desc limit 1` over the VARCHAR
  id. The order comes from `Digits` (strconv.FormatInt) and `LexLess`
  (string comparison), both RECURSIVE.
- `ScanBefore` gives the orders an un-ORDERed full scan can return: the
  clustered index (id) or a (ts, id) index.
- `NewGroupIds` is the count-then-diff of `listenTopicGroupIds`.

### RedisLock

| Variable | Code |
|---|---|
| `key` | the value stored at the lock key (`rl.key`), or `NoKey` |
| `depth` | per client, how many `Lock` calls it is inside (the nesting the comment on `LockCtx` calls reentrancy) |
| `unlockCh` | per client and nesting level, whether that lock object's `unlockCh` is open or closed |
| `panicked` | clients whose `UnLockCtx` closed a closed channel |
| `pending` | per client, `none`, or the Eval (`lock`, `unlock`) that timed out and that go-redis is about to retry |
| `faults` | failed redis calls and crashes, bounded by `MaxFaults` |

A client's lock value is the constant `ValueOf[c]`. `NewRedisLock` takes it
from `idx.NewUUID()` and `NewAutoRedisLock` from the caller. The actions are:
- `Lock` models `LockCtx` answering true, after `luaLock` (`LuaLockOK`).
- `LockBusy` models the `redis.Nil` answer.
- `LockLost` models an Eval error. The script may have set the key anyway.
- `UnLock` models `luaUnLock` (`LuaUnLock`) followed by `close(rl.unlockCh)`.
- `UnLockLost` models an Eval error. No reply, so no close.
- `LockTimeout`/`LockRetry` and `UnLockTimeout`/`UnLockRetry` model
  go-redis's retry of a command whose reply timed out (`MaxRetries` is 1
  by default in `conf.go`, 2 for the write-read client). The first run
  may or may not reach redis. The caller stays blocked in `Eval`
  (`Idle` is false), the other clients go on, and then the script runs
  again and its answer is the caller's result. A retried unlock ends the
  section at the timeout, because the caller's work is done once it calls
  `UnLock`. A retry that fails again is `LockLost`, or the fault branch of
  `UnLockRetry`.
- `Crash` restarts a client with new objects.
- `Expire` is the PX TTL running out.
- `LockFn` and `UnLockFn` model the package-level `Lock`/`UnLock`. They
  call `luaLock`/`luaUnLock` with the caller's value and have no lock
  object, so there is no channel to close. The clients in `FnClients`
  use only these; the others use only the methods.

Two switches select how callers use the lock:
- `ReuseObjects`: a caller keeps its lock object across sections. Otherwise
  each section builds a new one, as `NewAutoRedisLock` per call does.
- `ExpiryWhileHeld`: the TTL may run out while the holder is still inside.

`RedisLock` is shown to implement `LeaseLock` through the refinement mapping
`owner <- KeyOwner` (the client whose value is in the key) and
`busy <- {c : depth[c] > 0}`. In that mapping:
- a lost lock reply is `Claim` (the store gave a lease nobody knows about);
- a lost unlock reply or a crash is `Abandon`;
- the TTL on an abandoned key is `Lapse`.

A delayed `luaUnLock` that arrives after the key expired and was set again
with the same value deletes the new holder's key (`redislock.go:88`). With
distinct values per client this needs a client to reuse its value, which
`NewAutoRedisLock` allows; it is listed as a hazard without a property.

### KafkaConsumer

| Variable | Code |
|---|---|
| `committed` | the group's committed offset for the partition, kept by the broker |
| `gen`, `owner` | the group generation and the member assigned the partition in it |
| `st` | per member: `new` (subscribed, `Start` not yet run), `down`, `idle` (between two `client.Consume` calls), `fetch` (in `ConsumeClaim`'s select), `commit` (between `MarkMessage` and `Commit`) or `exited` (`Start` returned after `Stop`) |
| `stopping` | per member, whether `Stop` has cancelled the service's context |
| `sgen` | per member, the generation whose session it runs |
| `pos`, `marked` | per member, the claim's next offset and the session's marked offset |
| `delivered` | ghost: offsets handed to the handler at least once |
| `faults`, `rebalances` | bounded counters of faults and of rebalances nobody forced |

The actions are:
- `Start` is `consumerService.Start` creating the client and running
  `init`. `StartFail` is `getClient` returning an error: `Subscribe`
  (`consumer_service.go:54`) only logs it, so the member never joins.
- `StopEarly` is `Stop` called while the member is still `new`: `cancel`
  is nil and the call changes nothing.
- `Rebalance` is the coordinator's new generation. It is forced when the
  owner is gone or rejoined (`RebalanceNeeded`), and optional otherwise,
  bounded by `MaxRebalances`.
- `Join` is `client.Consume` joining the generation and starting
  `ConsumeClaim` at the committed offset. `getClient` sets `OffsetOldest`,
  which is offset 0 when nothing is committed.
- `HandleOk` is a message whose handler returns true. It is marked
  (`MarkMessage`), and `Commit` then sends the marked offset.
- `HandleFail` is `Wrap` returning false on an error. The message is
  skipped and the loop goes on.
- A commit of a stale generation is rejected by the coordinator. A lost
  commit is a fault that only `errHandle` logs.
- `EndSession` is `ConsumeClaim` returning when the session's context is
  done (`SessionDone`), after a new generation or a `Stop`.
  `registerHandle` then loops into `Consume` again.
- `Stop` is `consumerService.Stop` cancelling the context. It shares the
  `MaxFaults` budget, so one member of the group always stays.
- `Exit` is the loop seeing `ctx.Err()` after `Consume` returns. The
  goroutine returns, `Start` closes the client, and the member leaves
  the group. A forced `Rebalance` follows. A stopping owner never counts
  as rejoining, because it does not call `Consume` again.
- `NilMessage` is the select receiving from the closed `Messages()`
  channel, after which `handle(nil)` panics.
- `Crash` and `Restart` are the process dying (`log.Panicf` on a Consume
  error) and being subscribed again; the restarted member is `new`.

`KafkaConsumer` is shown to implement `CommittedLog` with the identity
mapping on `committed` and `delivered`. Every commit is an `Advance` over
offsets the handler has seen, and every handled message is a `Deliver`.

### Enum

| Variable | Code |
|---|---|
| `known` | types with an entry in `allRecords` |
| `recs` | per type its `recordPair`: `str`, `int`, `disp` (Go maps as TLA+ functions) and `values` |
| `typeRecords` | `typeRecords`: short name (`ObjectName`) -> type |
| `history` | ghost: each type's `New` calls in order |
| `decls` | `New` calls so far, bounded by `MaxDecls` |

`New(T, i, s, d)` is `New[T](i, s, d)` with `set` inlined. A type's first
declaration creates its maps and records its short name. The object's
`index` is the size of the String map before the insert. The object goes
into the three maps, into the Display map only when the Display is not
`""`, and its String is appended to `values`.

The read-only functions are operators:
- `ToStr` is `ToString`; TLC's own `ToString` takes that name.
- `ToInteger`, `IsString`/`IsInteger` (the two branches of `Is`),
  `GetObj`, `Objects`, `Values`, `Query`, `TypeDict`, `BitsMerge` and
  `BitsSplit` carry their Go names.

`Objects` is the set of every order that `sort.Slice` by `index` can
return. That sort is not stable and the map iteration is random.

A `uint32` is an integer mod `2^Width`, and `BitsSplit`'s loop runs over
the `Width` bits. `Query` keeps the code's fallback: a key that is neither
a String nor a Display goes through `strconv.Atoi`, whose error is ignored.
A non-numeric key therefore looks up the object with Integer 0.

`Get` is `Get[T]`, `GetObj` under another name. `Strings(T, p)` is
`Strings[T](p)`: the `%v` of each object of `Objects`, where `p` is the
Integer, String or Display. For `Integer` the code formats a
`*IntegerType`, which prints the pointer, so `IntegerText` is an opaque
token per object, not the number. `StringDict` is `StringDict[S, D]`. Its
`panic` on a nil source is unreachable, because `GetObj` returns the
address of a local: an unknown string yields the zero object, whose String
`""` is then looked up in `D`. `GetObj` follows the code's type switch:
every string (a String, a Display or `""`) takes the String-map branch, so
that lookup also gives `D`'s zero object. Only an integer goes through
`Atoi`.

### Abstractions

- Kafka: one topic with one partition, and messages as offsets. Payloads,
  headers and the tracing span are left out. More partitions only multiply
  independent copies of this model, because sarama runs one
  `ConsumeClaim` per claim.

- One topic. Topics share nothing but the process, whose only cross-topic
  effect is `log.Fatal`, which is modelled as `Crash`.
- A row is (id, timestamp, version). Columns and payloads are left out. A
  message is the set of row versions it carries, recorded per addressed
  group.
- Time is counted in ticks of the timestamp column. The WHERE's
  `ts < now()` holds for every committed row and is dropped.
- Failures of Prepare, Query, Begin, createTask, updateTask, SendWithKey and
  Commit are nondeterministic, bounded by `MaxFaults`. A failing SendWithKey
  fails at some row after publishing the rows before it.

## 3. Runs

| Run | Cfg | Expect | Checks | Shows |
|---|---|---|---|---|
| cdc_safety | `CdcSafety.cfg` | pass | `TypeOK`, `MutualExclusion`, `CheckpointSound`, `CheckpointSpec` | see below |
| cdc_delivery | `CdcDelivery.cfg` | pass | `EventuallyDelivered` | see below |
| cdc_discovery | `CdcDiscovery.cfg` | pass | `GroupEventuallyCheckpointed` | see below |
| cdc_lost_update | `CdcLostUpdate.cfg` | violation | `CheckpointSound` | see below |
| cdc_one_group_per_run | `CdcOneGroupPerRun.cfg` | violation | `EventuallyDelivered` | see below |
| cdc_duplicate_task | `CdcDuplicateTask.cfg` | violation | `OneTaskPerGroup` | see below |
| cdc_tx_leak | `CdcTxLeak.cfg` | violation | `NoLeakedTx` | see below |
| cdc_cursor_regress | `CdcCursorRegress.cfg` | violation | `CursorMonotone` | see below |
| redislock_safety | `RedisLockSafety.cfg` | pass | `TypeOK`, `MutualExclusion`, `LeaseLockSpec` | see below |
| redislock_reentrant | `RedisLockReentrant.cfg` | violation | `MutualExclusion` | see below |
| kafka_safety | `KafkaSafety.cfg` | pass | `TypeOK`, `ConsumerSpec`, `AllDelivered`, `StopTerminates` | see below |
| enum_algorithms | `EnumAlgorithms.cfg` | pass | `TypeOK`, `LookupsAgree`, `StringsInOrder`, `DictAgrees`, `BitsRoundTrip` | see below |

**Passing runs:**

- **cdc_safety.** With one process, inserts and deletes, groups that join
  and leave, and faults:
  - the lock excludes;
  - no checkpoint passes a row the group has not been sent;
  - the engine refines `CdcCheckpoint` (`CheckpointSpec`). The mapping
    takes the table's rows, the `cdc_task` rows without the process that
    wrote them, and `delivered`. Each `createTask` commit is a `Seed` of
    groups without a record. Each `updateTask` commit is an `Advance` that
    moves a cursor forward only, over rows the group has been sent.

  This holds although the lock is kept after early returns and
  transactions leak.
- **cdc_delivery.** With one group, every row version is eventually
  delivered under fair scheduling. This holds despite crashes, failures and
  TTL-only unlocking.
- **cdc_discovery.** Every group that stays assigned is eventually seeded.
- **redislock_safety.** The setup is four clients with distinct values.
  Two build a new lock object per section; the other two use the
  package-level `Lock`/`UnLock`. Up to three Eval calls
  fail, lose their reply or time out and are retried, or clients crash,
  and the TTL runs out only on an abandoned key. Under these conditions:
  - the key excludes;
  - the lock refines `LeaseLock`.

  The retries are safe only because `luaUnLock` compares the value before
  `DEL`. With a blind `DEL` (the mutant `LuaUnLockBlind`), an unlock
  retried after another client took the key deletes that client's key,
  and a third client enters. TLC finds this only with the retry steps in
  the model: without them, the same mutant passes.
- **kafka_safety.** Two members and four messages. The handler may fail,
  there are up to two optional rebalances, and one fault (a crash, a failed
  `Start`, a lost commit, a nil message or a `Stop`). Under these conditions:
  - the committed offset refines `CommittedLog`, so it never passes a
    message the handler has not seen, despite stale sessions that keep
    handling after a rebalance;
  - every message is eventually handed to a handler;
  - a stopped member eventually leaves its loop (`StopTerminates`). This
    holds even when the member is waiting in the select with no message
    left, because `ConsumeClaim` also selects on the session's context.

  A `Stop` that comes before `Start`'s goroutine has run `init` finds
  `cancel` nil and is lost. `StopEarly` models this and TLC fires it, but
  the member then runs on, which no passing property can state without
  an extra violation run; it stays a hazard without a property.

  A handler that returns false is skipped for good once a later message
  commits. `ConsumerSpec` allows this, because the message was handed out.
  At-least-once delivery here means "handed out", not "handled".
- **enum_algorithms.** It covers every registry that three declarations
  over two types can build. The checks hold for types with distinct
  Strings and Integers:
  - `LookupsAgree`: `ToString(ToInteger(s))`, `Query(name, s)` and
    `GetObj(i)` agree. This holds when a Display equals another object's
    String, because the String map is consulted first.
  - `StringsInOrder`: every order in which `Strings(T, "string")` can
    list the Strings is the declaration order (`Values`).
  - `DictAgrees`: `StringDict[S, D](s)` equals `TypeDict(S, D, s)` for
    every String of both types, so the generic and the name-based
    translation agree.
  - `BitsRoundTrip`: for flag enums, `BitsSplit(BitsMerge(ss))` gives back
    exactly the objects that `ss` names, lowest flag first. `ss` is any
    list of Strings, Displays and undeclared strings that names each
    object once.

  The run also shows where these stop holding:
  - `BitsMerge` adds (`+=`) instead of OR-ing. A list that names one
    flag twice, even as a String and its Display, carries into the next
    bit (`enum.go:327`).
  - Redeclaring a String gives two objects the same `index`, so
    `Objects`' order is no longer determined.

**Violation runs:**

- **cdc_lost_update.** An update in the checkpoint's own tick, to a row with
  a smaller id, is never delivered.
- **cdc_one_group_per_run.** `limit 1` serves one group per run. The second
  group never gets incremental changes.
- **cdc_duplicate_task.** Two processes both seed the same group.
- **cdc_tx_leak.** A row deleted between the COUNT and the SELECT leaks the
  cron job's transaction (index panic after Begin).
- **cdc_cursor_regress.** A cursor read before the lock, plus a delete of
  the newest row, moves the checkpoint backwards.
- **redislock_reentrant.** A client nests two `Lock` calls with the same
  value. Its inner `UnLock` DELs the key, and a second client enters while
  the outer section still runs.

Four hazards are switches of the models rather than runs. Two depend on
timing that the models do not measure. Setting the switch of any of the
first three makes `MutualExclusion` (or, for reuse, `NoUnlockPanic`) fail in
a few steps:
- redsync's 8 s TTL outliving a sync (`ExpiryWhileHeld` of
  `CdcSource`);
- the 500 ms default TTL of `RedisLock`, with `autoLock` never started
  (`ExpiryWhileHeld`);
- reusing a `RedisLock` object after `UnLock`, which closes `unlockCh` a
  second time and panics (`ReuseObjects`, property `NoUnlockPanic`).

The fourth is discovery's count comparison (`source.go:351`). With
`GroupsLeave = TRUE` in `CdcDiscovery.cfg`, `GroupEventuallyCheckpointed`
fails: a seeded group that is off the broker hides a newly joined one.
spec.md 4.4 computes the new groups as a set difference.

`PROJECT.json` lists them as hazards with that note.

Each violated property states what spec.md says of the engine. The findings
in `PROJECT.json` give the code line and the spec text.

### Bounds

- **cdc_safety** uses ids 8..10, so the VARCHAR order puts "10" below "9"
  and `TopTasks` can pick a lagging group. Other bounds:
  - three ticks, so rows share and differ in timestamps;
  - four writes;
  - two faults, so a failure can follow a failure;
  - both scan orders;
  - symmetry over the two groups. Sound because no definition names a
    group.

  It covers every action of the model except `Update`.
- **cdc_discovery** adds updates and checks liveness over two groups.
- **cdc_delivery** uses four ids, five writes and two faults.
- **redislock_safety** uses four clients, two of each API, so a lost lock
  reply, an abandoned section and a third client's entry can all happen in
  one trace, and the function API meets the method API. It reaches 1,826
  distinct states in about a second.
  Three faults let a lost reply follow a crash. Nesting is one level,
  because nested sections break exclusion (`redislock_reentrant`).

- **kafka_safety** uses two members, so a stale session and the new
  owner can overlap. Other bounds:
  - four messages, so a failed message can be followed by a committed
    one;
  - two optional rebalances;
  - one fault.

  It reaches 354,700 distinct states in about 40 s. No symmetry is used, because
  the run checks liveness.

- **enum_algorithms** uses two types, three Strings, and Displays `""`,
  one of the Strings and one other string. The Integers are 0, 1, 2 and
  4, over a 3-bit `uint32`, and there are three declarations. This covers
  several cases:
  - flag and non-flag types (0 is no flag);
  - a Display shadowing a String;
  - a repeated String or Integer;
  - a flag on the top bit, which `BitsSplit`'s last iteration must reach.

  It reaches 190,585 states in about 40 s. Deadlock is not checked,
  because declarations stop after package init.

Each violation run uses the smallest bounds under which TLC finds the
trace.

### Fairness

`FairSpec` assumes weak fairness of every actor's steps and of `Expire`:

- The ticker and the cron scheduler fire forever, and a goroutine that can
  run eventually runs.
- `DiscoveryIdle` and `IncrIdle` are stuttering steps, so fairness forces
  the step that makes progress whenever one is enabled.
- Redis expires keys whose TTL ran out, which is the only way the mutex is
  released after an early return of `doFullSync`.

`RedisLock` has no liveness property: `LockCtx` makes one attempt and
returns false on a held key, so nothing in the code promises eventual entry.

`KafkaConsumer.FairSpec` assumes weak fairness of two things:
- each member's loop steps (`Join`, handling, `Commit`, `EndSession`,
  `Exit`),
  because they are one goroutine's straight-line code;
- a forced `Rebalance`, because the coordinator evicts a member whose
  session timed out.

Optional rebalances, faults and restarts get no fairness. The run does not
assume that a crashed process comes back, only that a live member keeps
running.

`Enum` has safety properties only and no fairness.

No fairness is assumed of faults, writes or group changes. They stop
because they are bounded.

### Mutants

Each property of a passing run is shown to depend on the code by a mutation
that TLC must catch:

| Mutation | Models | Caught by |
|---|---|---|
| `IncrPredicateTsOnly` | the WHERE without its equal-timestamp clause | `CheckpointSound`, `CheckpointSpec`, `EventuallyDelivered` |
| `IncrLockUnchecked` | the cron job ignoring the lock result, as corn.go does | `MutualExclusion` |
| `NewGroupIdsOffByOne` | an off-by-one in the count comparison | `GroupEventuallyCheckpointed` |
| `IncrCommitAfterReset` | the locals cleared before `updateTask` | `TypeOK` (CdcSource) |
| `LuaLockOverwrites` | `luaLock` with SET without NX | `LeaseLockSpec` (RedisLock) |
| `LuaUnLockBlind` | `luaUnLock` deleting the key without comparing the value | `MutualExclusion` (RedisLock) |
| `NewObjectsNil` | a constructor without `make(chan struct{})` | `TypeOK` (RedisLock) |
| `JoinPastCommitted` | a session starting one past the committed offset | `TypeOK`, `ConsumerSpec` (KafkaConsumer) |
| `EndSessionExit` | the Consume loop returning after one session | `AllDelivered` (KafkaConsumer) |
| `EndSessionOnRebalance` | `ConsumeClaim` ending its session only on a new generation | `StopTerminates` |
| `SetAnyDisplay` | `set` without the `Display != ""` check | `TypeOK` (Enum) |
| `ToIntegerDisplayFirst` | `ToInteger` consulting Displays before Strings | `LookupsAgree` |
| `IndexUnset` | `set` not assigning `index` | `StringsInOrder` |
| `QueryDisplayFirst` | `Query` consulting Displays before Strings | `DictAgrees` |
| `FlagsShort` | `BitsSplit`'s loop as `i < 31` | `BitsRoundTrip` |

## 4. Plan for later work

Every run slot is in use (twelve runs, six of them violation runs). Each
item below needs one, or a violation run dropped to make room:

1. **The uncovered lock and CDC hazards as violation runs.** Each is one
   switch or constant away in the existing modules:
   - the redsync key lapsing under a long full sync (`source.go:153`);
   - a reused lock object closing `unlockCh` twice (`ReuseObjects`,
     `NoUnlockPanic`);
   - a TTL that runs out under a holder (`ExpiryWhileHeld`);
   - a `Stop` before `init` (`StopEarly`, which the passing run already
     fires).
2. **CdcCheckpoint under more processes.** `cdc_safety` checks the
   refinement with one process. With two, `cdc_duplicate_task` and
   `cdc_cursor_regress` show that `Seed` and `Advance` are broken. The
   remaining question is whether anything else breaks once those two are
   fixed.
3. **A redis client model** (`redis.go`, `conf.go`): a master and a
   lagging replica, the `Write`/`Read` routing of each mode, and go-redis
   retries. Every property worth stating there (read-your-writes, no lost
   `LPop`, `Incr` counted once) fails in some mode, so this needs a
   passing run for the standalone mode and violation runs for the others.
4. **nsqx consumers.** `Register` on a topic that is already registered
   overwrites `th.consumer`, so `Close` stops only the newest one.
5. **Pure algorithms.** Sonyflake's id composition, the `BitsMerge`
   carry, and `TypeDict` passing its nil check on an unknown key through
   `Query`'s Atoi fallback.

## 5. Not modelled

- Configuration loading (`config`, `InitSource`, `initCronMap`).
  Several of the functions the `config` package calls (`New`,
  `WithSource`, the `Observer` and watcher types, `format`) are not in the
  repository, so the package cannot be read as a whole.
- `corn.go`'s `ScheduleIncrementalSync` is a stub. Its `db` field is never
  assigned, so every cron run panics on `s.db.Query`. The panic is
  recovered by the cron library, and no state changes. The lock result it
  ignores is the mutation `IncrLockUnchecked` of `CdcSource`.
- `utils/isutil.go`'s conversions (`ToString` passes a `uint` to
  `i.(int)` and formats an `int32` as a rune). These are sequential
  string conversions that a unit test reaches directly.
- DSN building and gorm callbacks (`gormx`).
- Validation, error codes, REST responses, middleware and the HTTP
  client.
- Logging and tracing setup (`telemetry/log`, `telemetry/trace`). Each is
  a call into zap or OpenTelemetry made once at startup.
- Enum's `List`, `Objs`, `convert` and `BitsTransfer`. They copy what the
  modelled lookups return.
- The redis client (`redis_tool`). Two of its hazards are listed without a
  property: cluster clients route reads to replicas (`conf.go:158`), and
  go-redis retries a timed-out command, which may run a non-idempotent
  one twice (`redis.go:136`). Both concern the server's replication and
  the driver's retry, not code in this repository. The one retry the
  model does cover is the lock's `Eval` (`RedisLock`). Each wrapper is
  otherwise one go-redis call that maps an error to a zero value (so
  `Decr` returning 0 is ambiguous and `LRem` returns true even on an
  error), which a unit test reaches. `InitRedisConf` drops the result of
  `getRedisEnv` (`conf.go:57`), so `REDIS_CONNECT_TYPE` never changes the
  mode. That too is sequential configuration code.
- The CDC sink (`cdc/sink.go`) registers handlers on a kafkax consumer
  service and starts it. Its behaviour is `KafkaConsumer`'s (`Start`, and
  `HandleFail` for the handlers `RegisterLocal` wraps).
- The kq publisher (`transport/kq/kafka/publisher.go`) sends a batch
  message by message over a sarama `SyncProducer` and stops at the first
  failure. Nothing in the repository calls it.
- The nsqx consumer and producer: registration at startup into one map,
  and a `Publish` per `Send`. Nothing concurrent, but see the plan above.
- The permission annotation parser (`cmd/permission`), a code generator
  that parses Go comments at build time.
- sonyflake's machine id from the private IP's low 16 bits
  (`sonyflake.go:47`): two hosts may collide. This is a deployment fact.

These hold no concurrent or persistent state that a property could be about.
The startup calls `createCdcTaskTable` and `topicOffsetInit` run once, before
the loops start. Their only effect is that the table and a topic offset
exist, which the model assumes.
