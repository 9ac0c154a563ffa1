----------------------------- MODULE CdcSource -----------------------------
(***************************************************************************)
(* The polling CDC source of src/core/cdc/source.go for ONE topic, i.e.    *)
(* one configured (database, table) mapping, run by one or more process   *)
(* instances that share the database, the redis lock and the broker.      *)
(*                                                                         *)
(* Every process runs two actors for the topic:                            *)
(*   <<p, "full">>  the 30 s discovery goroutine of Start, which calls     *)
(*                  listenTopicGroupIds and then doFullSync;               *)
(*   <<p, "incr">>  the cron job registered by dispatchCron.               *)
(* The environment writes the source table, lets consumer groups join and  *)
(* leave the broker, advances the clock, crashes processes and lets the    *)
(* redsync key expire.                                                     *)
(*                                                                         *)
(* Data is abstracted: a row is its id, its timestamp column and a version *)
(* number that is unique per write; a message is the set of row versions   *)
(* it carries, recorded per addressed group in `delivered`.               *)
(***************************************************************************)
EXTENDS Integers, FiniteSets, Sequences, Functions, TLC

CONSTANTS
    Procs,           \* process instances running Source.Start
    Groups,          \* consumer groups that may subscribe to the topic
    FirstId, LastId, \* the ids the table's auto-increment hands out, in order
    MaxTime,         \* last tick of the timestamp column's clock
    MaxWrites,       \* bound on inserts, updates and deletes of the application
    MaxFaults,       \* bound on injected failures (query, publish, commit, crash)
    WriteKinds,      \* the kinds of write the application performs
    ScanOrders,      \* row orders the un-ORDERed full-sync SELECT may return
    ExpiryWhileHeld, \* can the 8 s redsync TTL run out while the holder works?
    GroupsLeave      \* can a group lose its topic assignment on the broker?

ASSUME /\ FirstId \in Nat /\ LastId \in Nat /\ FirstId <= LastId
       /\ MaxTime \in Nat /\ MaxWrites \in Nat /\ MaxFaults \in Nat
       /\ WriteKinds \subseteq {"insert", "update", "delete"}
       /\ ScanOrders \subseteq {"pk", "index"} /\ ScanOrders # {}
       /\ ExpiryWhileHeld \in BOOLEAN /\ GroupsLeave \in BOOLEAN

VARIABLES
    clock,        \* current tick of the timestamp column
    srcTable,     \* the source table: id -> [ts, v]
    nextId,       \* next auto-increment id
    writes,       \* number of application writes so far (also the version)
    brokerGroups, \* groups whose members are assigned the topic (ListTopicGroupIds)
    cdcTask,      \* rows of the cdc_task table: [by, group, id, ts]
    lock,         \* holder of the redsync key for the topic, or NoHolder
    pc,           \* control point of every actor
    grp,          \* newGroupIds (full) or groupIds (incr) of the actor
    cur,          \* cursor the incr actor read from cdc_task
    pend,         \* cursor written by the actor's open transaction
    delivered,    \* group -> row versions published in messages addressed to it
    leaked,       \* process -> transactions begun and never ended
    faults        \* injected failures so far

vars == <<clock, srcTable, nextId, writes, brokerGroups, cdcTask, lock, pc,
          grp, cur, pend, delivered, leaked, faults>>

Actors == Procs \X {"full", "incr"}
Times == 0..MaxTime
Ids == FirstId..LastId
NoHolder == <<"none", "none">>
NoCursor == [id |-> 0, ts |-> 0]
Cursor == [id : Ids, ts : Times]
\* a cdc_task row (Task of cdc.go): its group, its cursor (id, updated_at),
\* and the process whose sync wrote it; database, table, columns and topic
\* are the same for every row of the one topic
Task == [by : Procs, group : Groups, id : Ids, ts : Times]
\* the states between mutex.Lock and mutex.Unlock in doFullSync / the cron job
Locked == {"scan", "commit"}

-----------------------------------------------------------------------------
(* Orders and predicates the SQL of source.go evaluates.                    *)

\* the row with id i as the SELECT returns it
Row(i) == [id |-> i, ts |-> srcTable[i].ts, v |-> srcTable[i].v]
Rows == {Row(i) : i \in DOMAIN srcTable}

\* (ts, id) ascending: ORDER BY ts, id ASC of querySourceTable
KeyLess(a, b) == a.ts < b.ts \/ (a.ts = b.ts /\ a.id < b.id)

\* Mutation: the WHERE without the equal-timestamp clause (ts > ? only).
IncrPredicateTsOnly(r, c) == r.ts > c.ts

\* ((ts = ? AND id > ?) OR ts > ?) AND ts < now(): the WHERE of the count
\* query and of querySourceTable.  A write stamps the current tick and
\* time.Now() lies inside or after it, so ts < now holds for every row.
IncrPredicate(r, c) == (r.ts = c.ts /\ r.id > c.id) \/ r.ts > c.ts

\* the rows the incremental queries select for cursor c
Delta(c) == {r \in Rows : IncrPredicate(r, c)}

\* position of row a before row b in a full-table SELECT without ORDER BY:
\* clustered-index (id) order, or the order of a covering (ts, id) index
ScanBefore(o, a, b) == IF o = "pk" THEN a.id < b.id ELSE KeyLess(a, b)

\* decimal digits of n, most significant first: strconv.FormatInt(n, 10)
RECURSIVE Digits(_)
Digits(n) == IF n < 10 THEN <<n>> ELSE Digits(n \div 10) \o <<n % 10>>

\* lexicographic order of digit sequences (VARCHAR comparison)
RECURSIVE LexLess(_, _)
LexLess(s, t) ==
    IF s = <<>> THEN t # <<>>
    ELSE IF t = <<>> THEN FALSE
    ELSE \/ Head(s) < Head(t)
         \/ Head(s) = Head(t) /\ LexLess(Tail(s), Tail(t))

\* cdc_task.id is VARCHAR(255): "ORDER BY id" compares the decimal strings
IdStrLess(a, b) == LexLess(Digits(a), Digits(b))

\* queryTask: SELECT * FROM cdc_task WHERE topic = ? ORDER BY id desc,
\* updated_at desc limit 1 -- the rows that can come first
TopTasks ==
    {t \in cdcTask : \A u \in cdcTask :
        ~(IdStrLess(t.id, u.id) \/ (t.id = u.id /\ t.ts < u.ts))}

Fault == faults < MaxFaults /\ faults' = faults + 1

\* ListTopicGroupIds: the groups with a member assigned the topic.  A failed
\* DescribeConsumerGroups returns an empty list with a nil error, and a
\* member whose assignment fails to decode is skipped, so a failing call
\* returns some proper subset of them, as if nothing had gone wrong.
Listing(listed) ==
    \/ listed = brokerGroups /\ UNCHANGED faults
    \/ listed # brokerGroups /\ Fault

\* Mutation: the count comparison off by one (len(groupsInDB)+1 < len(groupIds)).
NewGroupIdsOffByOne(listed) ==
    LET inDB == {t.group : t \in cdcTask}
    IN IF Cardinality(inDB) + 1 < Cardinality(listed)
       THEN listed \ inDB ELSE {}

\* listenTopicGroupIds: the listed groups minus the groups in cdc_task,
\* computed only when cdc_task holds fewer distinct groups than were listed
NewGroupIds(listed) ==
    LET inDB == {t.group : t \in cdcTask}
    IN IF Cardinality(inDB) < Cardinality(listed)
       THEN listed \ inDB ELSE {}

\* createTask: one INSERT INTO cdc_task per new group, all at cursor c
\* (process p is recorded only to tell the seeding sync apart)
CreateTask(p, G, c) ==
    cdcTask \cup {[by |-> p, group |-> g, id |-> c.id, ts |-> c.ts] : g \in G}

\* updateTask: UPDATE cdc_task SET id, updated_at WHERE group_id IN (G),
\* which moves every row of those groups, duplicates included
UpdateTask(G, c) ==
    {IF t.group \in G THEN [t EXCEPT !.id = c.id, !.ts = c.ts] ELSE t : t \in cdcTask}

\* the versions of rows in S, added to the messages of every group in G
Deliver(G, S) ==
    [g \in Groups |-> IF g \in G THEN delivered[g] \cup {r.v : r \in S}
                                 ELSE delivered[g]]

\* mutex.Unlock: the redsync script deletes the key only for its own value
Unlock(a) == lock' = IF lock = a THEN NoHolder ELSE lock

\* the actor returns to its loop with no locals
Return(a) ==
    /\ pc' = [pc EXCEPT ![a] = "idle"]
    /\ grp' = [grp EXCEPT ![a] = {}]
    /\ cur' = [cur EXCEPT ![a] = NoCursor]
    /\ pend' = [pend EXCEPT ![a] = NoCursor]

-----------------------------------------------------------------------------
Init ==
    /\ clock = 0
    /\ srcTable = <<>>
    /\ nextId = FirstId
    /\ writes = 0
    /\ brokerGroups = {}
    /\ cdcTask = {}
    /\ lock = NoHolder
    /\ pc = [a \in Actors |-> "idle"]
    /\ grp = [a \in Actors |-> {}]
    /\ cur = [a \in Actors |-> NoCursor]
    /\ pend = [a \in Actors |-> NoCursor]
    /\ delivered = [g \in Groups |-> {}]
    /\ leaked = [p \in Procs |-> 0]
    /\ faults = 0

-----------------------------------------------------------------------------
(* The discovery goroutine: listenTopicGroupIds and doFullSync.             *)

\* a tick of the 30 s ticker that finds new groups
DiscoveryTick(a) ==
    /\ a[2] = "full" /\ pc[a] = "idle"
    /\ \E listed \in SUBSET brokerGroups :
          /\ NewGroupIds(listed) # {}
          /\ Listing(listed)
          /\ grp' = [grp EXCEPT ![a] = NewGroupIds(listed)]
    /\ pc' = [pc EXCEPT ![a] = "lock"]
    /\ UNCHANGED <<cur, pend, lock, cdcTask, delivered, leaked>>

\* a tick that finds nothing new (or whose broker or DB query failed)
DiscoveryIdle(a) ==
    /\ a[2] = "full" /\ pc[a] = "idle"
    /\ UNCHANGED vars

\* mutex.Lock() succeeds; while the key is held the loop sleeps and retries
FullLock(a) ==
    /\ a[2] = "full" /\ pc[a] = "lock"
    /\ lock = NoHolder
    /\ lock' = a
    /\ pc' = [pc EXCEPT ![a] = "scan"]
    /\ UNCHANGED <<grp, cur, pend, cdcTask, delivered, leaked, faults>>

\* SELECT of all rows, Begin, createTask and packAndPublishMsg.  Every
\* early return of doFullSync leaves the mutex locked.
FullScan(a) ==
    /\ a[2] = "full" /\ pc[a] = "scan"
    /\ \/ /\ Fault                             \* Prepare or Query error
          /\ Return(a) /\ UNCHANGED delivered
       \/ /\ Rows = {}                          \* no rows: return
          /\ Return(a) /\ UNCHANGED <<delivered, faults>>
       \/ /\ Rows # {}
          /\ \E o \in ScanOrders :
               LET last == CHOOSE r \in Rows :
                              \A s \in Rows : s = r \/ ScanBefore(o, s, r)
               IN \/ /\ Fault                    \* Begin or createTask error
                     /\ Return(a) /\ UNCHANGED delivered
                  \/ /\ Fault                    \* SendWithKey fails at row k
                     /\ \E k \in Rows :
                          delivered' = Deliver(grp[a],
                                         {s \in Rows : ScanBefore(o, s, k)})
                     /\ Return(a)
                  \/ /\ delivered' = Deliver(grp[a], Rows)
                     /\ pend' = [pend EXCEPT ![a] = [id |-> last.id, ts |-> last.ts]]
                     /\ pc' = [pc EXCEPT ![a] = "commit"]
                     /\ UNCHANGED <<grp, cur, faults>>
    /\ UNCHANGED <<lock, cdcTask, leaked>>

\* tx.Commit (its error is ignored) and mutex.Unlock
FullCommit(a) ==
    /\ a[2] = "full" /\ pc[a] = "commit"
    /\ \/ cdcTask' = CreateTask(a[1], grp[a], pend[a]) /\ UNCHANGED faults
       \/ Fault /\ UNCHANGED cdcTask
    /\ Unlock(a)
    /\ Return(a)
    /\ UNCHANGED <<delivered, leaked>>

-----------------------------------------------------------------------------
(* The cron job of dispatchCron (incremental sync).                        *)

\* queryTask, then the COUNT query finds rows after the cursor
IncrFire(a) ==
    /\ a[2] = "incr" /\ pc[a] = "idle"
    /\ \E t \in TopTasks :
         LET c == [id |-> t.id, ts |-> t.ts]
         IN /\ Delta(c) # {}
            /\ pc' = [pc EXCEPT ![a] = "lock"]
            /\ grp' = [grp EXCEPT ![a] = {t.group}]
            /\ cur' = [cur EXCEPT ![a] = c]
    /\ UNCHANGED <<pend, lock, cdcTask, delivered, leaked, faults>>

\* the job returns early: no task yet, count 0, or a query error
IncrIdle(a) ==
    /\ a[2] = "incr" /\ pc[a] = "idle"
    /\ UNCHANGED vars

\* Mutation: the result of taking the lock is ignored, as the TryLock call
\* of corn.go's ScheduleIncrementalSync does.
IncrLockUnchecked(a) ==
    /\ a[2] = "incr" /\ pc[a] = "lock"
    /\ lock' = IF lock = NoHolder THEN a ELSE lock
    /\ pc' = [pc EXCEPT ![a] = "scan"]
    /\ UNCHANGED <<grp, cur, pend, cdcTask, delivered, leaked, faults>>

\* mutex.Lock() succeeds
IncrLock(a) ==
    /\ a[2] = "incr" /\ pc[a] = "lock"
    /\ lock = NoHolder
    /\ lock' = a
    /\ pc' = [pc EXCEPT ![a] = "scan"]
    /\ UNCHANGED <<grp, cur, pend, cdcTask, delivered, leaked, faults>>

\* mutex.Lock() gives up while another holder keeps the key: the run is
\* abandoned (the log call on err panics; cron recovers it)
IncrLockFail(a) ==
    /\ a[2] = "incr" /\ pc[a] = "lock"
    /\ lock # NoHolder
    /\ Return(a)
    /\ UNCHANGED <<lock, cdcTask, delivered, leaked, faults>>

\* querySourceTable, Begin, rowData[len(rowData)-1], updateTask and
\* packAndPublishMsg; the deferred Unlock runs on every return and panic
IncrScan(a) ==
    /\ a[2] = "incr" /\ pc[a] = "scan"
    /\ LET rows == Delta(cur[a])
           latest == CHOOSE r \in rows : \A s \in rows : s = r \/ KeyLess(s, r)
       IN \/ /\ Fault                            \* Begin error
             /\ Unlock(a) /\ Return(a) /\ UNCHANGED <<delivered, leaked>>
          \/ /\ \/ rows = {} /\ UNCHANGED faults  \* rows gone since the count
                \/ Fault                         \* query error: empty rowData
             \* index out of range after Begin: the tx is never ended
             /\ leaked' = [leaked EXCEPT ![a[1]] = @ + 1]
             /\ Unlock(a) /\ Return(a) /\ UNCHANGED delivered
          \/ /\ rows # {}
             /\ \/ /\ Fault                      \* updateTask error
                   /\ Unlock(a) /\ Return(a) /\ UNCHANGED delivered
                \/ /\ Fault                      \* SendWithKey fails at row k
                   /\ \E k \in rows :
                        delivered' = Deliver(grp[a], {s \in rows : KeyLess(s, k)})
                   /\ Unlock(a) /\ Return(a)
                \/ /\ delivered' = Deliver(grp[a], rows)
                   /\ pend' = [pend EXCEPT ![a] = [id |-> latest.id, ts |-> latest.ts]]
                   /\ pc' = [pc EXCEPT ![a] = "commit"]
                   /\ UNCHANGED <<lock, grp, cur, faults>>
             /\ UNCHANGED leaked
    /\ UNCHANGED cdcTask

\* Mutation: the actor's locals are cleared before updateTask reads them.
IncrCommitAfterReset(a) ==
    /\ a[2] = "incr" /\ pc[a] = "commit"
    /\ cdcTask' = UpdateTask(grp[a], NoCursor)
    /\ Unlock(a) /\ Return(a)
    /\ UNCHANGED <<delivered, leaked, faults>>

\* tx.Commit of updateTask (its error is ignored), then the deferred Unlock
IncrCommit(a) ==
    /\ a[2] = "incr" /\ pc[a] = "commit"
    /\ \/ cdcTask' = UpdateTask(grp[a], pend[a]) /\ UNCHANGED faults
       \/ Fault /\ UNCHANGED cdcTask
    /\ Unlock(a)
    /\ Return(a)
    /\ UNCHANGED <<delivered, leaked>>

-----------------------------------------------------------------------------
(* The environment.                                                        *)

Env == <<clock, srcTable, nextId, writes, brokerGroups>>
Engine == <<cdcTask, lock, pc, grp, cur, pend, delivered, leaked, faults>>

\* the application inserts a row stamped with the current tick
Insert ==
    /\ "insert" \in WriteKinds /\ writes < MaxWrites /\ nextId <= LastId
    /\ srcTable' = srcTable @@ (nextId :> [ts |-> clock, v |-> writes + 1])
    /\ nextId' = nextId + 1
    /\ writes' = writes + 1
    /\ UNCHANGED <<clock, brokerGroups>> /\ UNCHANGED Engine

\* the application updates a row, which restamps its timestamp column
Update(i) ==
    /\ "update" \in WriteKinds /\ writes < MaxWrites /\ i \in DOMAIN srcTable
    /\ srcTable' = [srcTable EXCEPT ![i] = [ts |-> clock, v |-> writes + 1]]
    /\ writes' = writes + 1
    /\ UNCHANGED <<clock, nextId, brokerGroups>> /\ UNCHANGED Engine

\* the application deletes a row
Delete(i) ==
    /\ "delete" \in WriteKinds /\ writes < MaxWrites /\ i \in DOMAIN srcTable
    /\ srcTable' = Restrict(srcTable, DOMAIN srcTable \ {i})
    /\ writes' = writes + 1
    /\ UNCHANGED <<clock, nextId, brokerGroups>> /\ UNCHANGED Engine

Tick ==
    /\ clock < MaxTime
    /\ clock' = clock + 1
    /\ UNCHANGED <<srcTable, nextId, writes, brokerGroups>> /\ UNCHANGED Engine

\* a member of g is assigned a partition of the topic
Join(g) ==
    /\ g \notin brokerGroups
    /\ brokerGroups' = brokerGroups \cup {g}
    /\ UNCHANGED <<clock, srcTable, nextId, writes>> /\ UNCHANGED Engine

\* g has no member assigned the topic any more (stopped or rebalancing)
Leave(g) ==
    /\ GroupsLeave /\ g \in brokerGroups
    /\ brokerGroups' = brokerGroups \ {g}
    /\ UNCHANGED <<clock, srcTable, nextId, writes>> /\ UNCHANGED Engine

\* process p dies and is restarted: its goroutines start over, its open
\* transactions are rolled back, the redis key stays until its TTL ends
Crash(p) ==
    /\ Fault
    /\ pc' = [a \in Actors |-> IF a[1] = p THEN "idle" ELSE pc[a]]
    /\ grp' = [a \in Actors |-> IF a[1] = p THEN {} ELSE grp[a]]
    /\ cur' = [a \in Actors |-> IF a[1] = p THEN NoCursor ELSE cur[a]]
    /\ pend' = [a \in Actors |-> IF a[1] = p THEN NoCursor ELSE pend[a]]
    /\ leaked' = [leaked EXCEPT ![p] = 0]
    /\ UNCHANGED <<cdcTask, lock, delivered>> /\ UNCHANGED Env

\* the redsync key's TTL runs out
Expire ==
    /\ lock # NoHolder
    /\ ExpiryWhileHeld \/ pc[lock] \notin Locked
    /\ lock' = NoHolder
    /\ UNCHANGED <<cdcTask, pc, grp, cur, pend, delivered, leaked, faults>>
    /\ UNCHANGED Env

-----------------------------------------------------------------------------
ActorStep(a) ==
    \/ DiscoveryTick(a) \/ DiscoveryIdle(a) \/ FullLock(a) \/ FullScan(a)
    \/ FullCommit(a)
    \/ IncrFire(a) \/ IncrIdle(a) \/ IncrLock(a) \/ IncrLockFail(a)
    \/ IncrScan(a) \/ IncrCommit(a)

EngineStep(a) == ActorStep(a) /\ UNCHANGED Env

Next ==
    \/ \E a \in Actors : EngineStep(a)
    \/ Insert
    \/ \E i \in Ids : Update(i) \/ Delete(i)
    \/ Tick
    \/ \E g \in Groups : Join(g) \/ Leave(g)
    \/ \E p \in Procs : Crash(p)
    \/ Expire

\* the ticker and the cron scheduler keep firing, the goroutines keep running,
\* and redis expires keys
Fairness ==
    /\ \A a \in Actors : WF_vars(EngineStep(a))
    /\ WF_vars(Expire)

Spec == Init /\ [][Next]_vars
FairSpec == Spec /\ Fairness

-----------------------------------------------------------------------------
(* Properties.                                                             *)

TypeOK ==
    /\ clock \in Times
    /\ DOMAIN srcTable \subseteq Ids
    /\ \A i \in DOMAIN srcTable : srcTable[i] \in [ts : Times, v : 1..MaxWrites]
    /\ nextId \in FirstId..LastId + 1 /\ writes \in 0..MaxWrites
    /\ brokerGroups \subseteq Groups
    /\ cdcTask \subseteq Task
    /\ lock \in Actors \cup {NoHolder}
    /\ pc \in [Actors -> {"idle", "lock", "scan", "commit"}]
    /\ grp \in [Actors -> SUBSET Groups]
    /\ cur \in [Actors -> Cursor \cup {NoCursor}]
    /\ pend \in [Actors -> Cursor \cup {NoCursor}]
    /\ delivered \in [Groups -> SUBSET (1..MaxWrites)]
    /\ leaked \in [Procs -> Nat] /\ faults \in 0..MaxFaults

\* At most one full or incremental sync of the topic is between its
\* mutex.Lock and its commit/unlock at any time, across all processes
\* (doFullSync and the dispatchCron job both rely on the redsync mutex).
MutualExclusion ==
    \A a, b \in Actors : a # b => ~(pc[a] \in Locked /\ pc[b] \in Locked)

\* A checkpoint never passes an undelivered row: every row of the table at
\* or below the (ts, id) cursor of a cdc_task row has had its current
\* version published to that row's group.  Broken, the group never gets
\* the row, since the incremental predicate only looks above the cursor.
CheckpointSound ==
    \A t \in cdcTask : \A r \in Rows :
        ~KeyLess(t, r) => r.v \in delivered[t.group]

\* No cdc_task row's cursor moves backwards under (ts, id) order
\* (updateTask of the cron job is the only statement that moves it).
CursorMonotone ==
    [][\A t \in cdcTask, u \in cdcTask' :
          (t.by = u.by /\ t.group = u.group) => ~KeyLess(u, t)]_vars

\* Once the table and the broker stop changing, every group assigned the
\* topic has received the current version of every row (discovery, full
\* sync and the cron job together).
EventuallyDelivered ==
    <>[](\A g \in brokerGroups : \A r \in Rows : r.v \in delivered[g])

\* A group that stays assigned the topic while the table has rows is
\* eventually checkpointed in cdc_task (listenTopicGroupIds must report it
\* as new and doFullSync must commit its row).
GroupEventuallyCheckpointed ==
    \A g \in Groups :
        <>[](g \in brokerGroups /\ Rows # {}) => <>(\E t \in cdcTask : t.group = g)

\* cdc_task holds at most one row per (topic, group): a group is seeded
\* once, by one full sync.
OneTaskPerGroup ==
    \A t, u \in cdcTask : t.group = u.group => t = u

\* Every transaction the cron job begins is committed or rolled back.
NoLeakedTx ==
    \A p \in Procs : leaked[p] = 0

\* The refinement mapping: the table's rows, the cdc_task rows without the
\* process that wrote them, and the messages published per group.
Checkpoint == {[group |-> t.group, id |-> t.id, ts |-> t.ts] : t \in cdcTask}

Abstract == INSTANCE CdcCheckpoint
    WITH rows <- Rows, checkpoint <- Checkpoint, Cursors <- Cursor

\* Through scans, partial publishes, failed commits, crashes and group
\* changes, the engine behaves as CdcCheckpoint: doFullSync's createTask
\* seeds only groups without a cdc_task row, all at one cursor, and the
\* cron job's updateTask moves a group's cursor forward only; each only
\* over rows whose current version the group has been sent.
CheckpointSpec == Abstract!Spec

=============================================================================
