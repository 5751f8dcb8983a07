# A TLA+ model of libSQL

This directory holds a formal model of the concurrent core of libSQL: the
scheduler of write transactions in sqld, the replication log of a primary with
its compaction, the two kinds of replica that read from it, the scheduler of
schema migrations, the meta store with the creation and removal of databases,
and the streams of the HTTP interface. TLC checks the models on small
instances; TLAPS proves the main results about four of them for every
instance. Source paths below start at `src/`.

`PROJECT.json` is the index: every part of the system (`components`), the model
checking `runs` with one `mutant` per property, the source lines of each
definition (`map`), the `hazards` of the code with the properties that cover
them, the `findings`, and the `theorems`.

## The system and its parts

A **primary** (`libsql-server`) serves *namespaces*, each a SQLite database.

* A request runs on a connection (`connection/connection_core.rs`), whose WAL
  is wrapped by the **connection manager** (`connection/connection_manager.rs`).
  It owns one write slot per namespace, queues writers, steals transactions
  that are too old, and makes checkpoints exclusive.
* Below it the **replication logger** (`replication/primary/`) copies each
  frame SQLite commits to the *log file*. A log file that is full is swapped
  with an empty one and passed to the **compactor**, which writes a *snapshot*
  (the last version of each page); a **merger** joins snapshots
  (`replication/snapshot.rs`).
* The **replication service** (`rpc/replication/replication_log.rs`) serves
  frames from the log file, and answers that a snapshot is needed for older
  ones.
* A **replica** runs a **replicator** (`libsql-replication/src/replicator.rs`),
  fed by the client of a replica server (`replication/replicator_client.rs`) or
  of an embedded replica (`libsql/src/replication/`). An **injector** writes
  the frames to its WAL, and a **meta file** records how far it got.
* A database may be *linked* to a schema database. The **migration scheduler**
  (`schema/`) takes a migration of the schema, tries it on every linked
  database with writes blocked, and runs it on all of them or none.
* The **namespace store** (`namespace/store.rs`) caches loaded databases and
  creates a linked one as a copy of its schema. The **meta store**
  (`namespace/meta_store.rs`) keeps their configurations in memory and in a
  database of its own, and the registry of **schema locks**
  (`namespace/schema_lock.rs`) keeps creations and registrations of migrations
  apart.
* The **Hrana server** (`hrana/http/`) keeps a connection open between the HTTP
  requests of a client as a *stream*, taken up again with a *baton*.
* Around these: the write proxy of replicas, WebSockets, bottomless backup,
  offline sync, and the front ends.

| Part | Status | Modules |
| --- | --- | --- |
| connection manager | modelled | ConnectionManager, its three proof modules |
| connection core | partly | ConnectionManager |
| replication log | modelled | ReplicationLog, implementing FrameLog |
| log compactor, snapshot merger | modelled | ReplicationLog |
| primary namespace set-up | partly | ReplicationLog |
| replicator, injector, replica meta file | modelled | Replica, on top of FrameLog |
| replica server client, embedded client, replication service | partly | Replica |
| schema migration scheduler | modelled | SchemaScheduler |
| namespace store, meta store, schema locks | partly | MetaStore, its three proof modules |
| Hrana over HTTP | partly | HranaStreams, HranaStreamsProofs |
| everything else | not modelled | see the last section |

## Modules

### ConnectionManager

`current` is the slot, `write_queue` the FIFO of waiting calls, `abort_handle`
the registered handles, `wlock` SQLite's own write lock, `mutex[c]` the lock
around a connection. The thread of connection `c` is at program point `pc[c]`;
`enqueued`, `stale`, `token` and `target` are the locals of `acquire()`.

Each critical section of the `current` mutex is one action, and so is each
thing the code does without it. `acquire()` is `AcquireStale`, `AcquireBusy`,
`AcquireOwn`, `AcquireSteal`, `AcquireWait`, `AcquireSchedule`, then `Unpark`
or `Deadline` for a parked thread, and `AbortLookup`, `AbortLock`,
`AbortRelease` for a steal. `Release` is `release()`, shared by commit,
rollback, abort, checkpoint and close. `BumpToken`, `QueueLen`, `Drain` are the
steps of a checkpoint that drains the queue.

`Slot::started_at` becomes one of three ages that `Tick` advances: younger than
the acquire timeout, between the two timeouts, or at least `TXN_TIMEOUT` old.
`crashed` is a panic that crosses the `extern "C"` WAL callback.

`Slow` are the connections that may keep the slot for `TXN_TIMEOUT`; `Silent`
those whose client opens a transaction and goes mute; `Leaving` those that may
be dropped; `Refused` those to which the inner WAL may refuse a transaction.
`MaxQueue` and `MaxRetries` bound the queue and the busy handler's repeats.

### FrameLog

What a primary promises its readers. A log has an `id` and a growing sequence
`hist`; frames before `start` are in log files waiting for the compactor
(`pend`) or in snapshots (`snaps`), both kept as ranges. Actions: `Commit`,
`Compact`, `Publish`, `Merge`, `RemoveFile` and `RemoveSnapshot` (only of what
another file holds), `Reset` (a new log made from the database).

### ReplicationLog

The disk is `db`, `log`, `files`, `snaps` and `sentinel`; everything else
belongs to the process, and `Volatile` clears it. A page's contents are the
number of the transaction that wrote it.

* A write is `Spill`, `Flush`, `Undo`, `WalCommit` (SQLite's commit) and
  `LogCommit` (the log header): a crash may fall between the last two.
* `SwapLog` is used by the writer (`WriterCompacts`) and by the timer
  (`TickCompacts`); the bounded channel makes `WriterSends` and `TickSends`
  steps of their own.
* The compactor is `Take`, `Build`, `Register`, `RemoveLog`; the merger
  `ListSnapshots`, `Recv`, `MergeBuild`, `RemoveMerged`, `MergeDone`. Each has
  its failures.
* `OpenLog`, `OpenDirty` and `Recover` are a start; `Exit` and `Crash` an end. A
  shutdown may fall anywhere, since nobody waits for the connections, the
  compactor or the merger. `Starts` are the databases the first start may find:
  none, or one without a log, which is dirty.

Two variables record what a property excepts. `torn`: a shutdown closed the log
as clean between the two commits. `doubled`: the merger was told of some frames
twice when it started, because an interrupted merge or compaction left both its
input and its result, or because a compaction ended before the merger listed the
directory.

`Promise` maps this state to FrameLog: `start` is the first number of the log
file, `pend` and `snaps` the ranges of the files on disk. `PromiseKept` says
that every step is one of FrameLog's or a stutter.

### Replica

Extends FrameLog, so the primary is exactly what ReplicationLog is shown to
implement. `st` is `ReplicatorState`; `buf`, `wal` and `biggest` are the
injector; `disk` and `meta` the meta file and its copy in memory; `tok`,
`last`, `pre`, `dirty`, `index` the client. The version of a page is the log
and number of the frame that wrote it, so the contents of the database tell
which frames were applied. `Inject` covers a flush in the middle of a
transaction, and `SetCommitFrameNo` is the separate write of the meta file. The
faults are broken streams, failed injections, failed meta writes, crashes and,
for an embedded replica, a `sync` future that is dropped (`Cancel`). A session
token is the pair of the primary's process and the version of the namespace's
configuration; `NewSession` changes one of the two, and the replica answers the
two differently (a restart may have recovered the log, a changed configuration
only closes the stream).

`Kind` selects the client. `Capacity` is the injector's buffer, `MaxBatch` the
frames in a batch. `Tidy` says whether a merge and the removal of its inputs
happen at one moment.

### SchemaScheduler

`jobs` and `tasks` are the tables of the meta store, `enqueued` its temporary
table `enqueued_tasks`, `rows[n]` the table each linked database keeps of its
own tasks, `applied[d][j]` how often job `j` was committed in database `d`.
`job`, `batch`, `has_work` are the fields of `Scheduler`; `pool` are the workers
it spawned, `results` those that ended and were not joined yet.

A branch of the `select!` in `Scheduler::step` runs to its end before the next
one, so it is one action: `ScheduleMigration` and `GetJobStatus` for a message,
`EnqueueWork` for a permit, `TaskDone` and `JobDone` for a worker that ended.
Workers interleave with it: `TaskConnect`, `TaskStep` (the transaction on the
linked database), `TaskReport` (the meta store), `TaskExit`, and
`JobMigrateSchema`, `JobUpdate` for the job's own transitions. `BeginWrite` and
`EndWrite` are clients of a linked database; `Preempted` is one that looked at
`block_writes` and did not take SQLite's lock yet, `BeginDdl` one that runs DDL,
which is not checked. `Lagged` is a waiting client whose broadcast receiver lags.
`Restart` keeps the tables and rebuilds the rest as `db.rs` infers it from them.
Whether a migration goes through on a database is the bit `fits[n]`, which
writes change. A job's counters are `usize` and wrap at `Usize`.

The fault kinds are named by what they do: `io` is answered by a retry or a
failed dry run, `lost` leaves a task in `enqueued_tasks`, `message` lowers
`has_work`, `unblocked` is a statement that passes `block_writes`, `sql` a run
that fails on data the dry run accepted, `schema` a migration the schema does
not get, `lag` and `crash` are what they say.

### MetaStore

`configs` and `rows` are a database's configuration in memory and on disk,
`links` the table of links to the schema, `entry` the cache of the namespace
store, `files` and `content` the directories and the migrations each database
has. `queue` and `store` are the task that stores changes; the mutexes of
`configs` and of the connection are implied by where it and the calls of
`remove()` are (`ConfigsFree`, `ConnFree`). `locks`, `arc` and `held` are the
registry of schema locks: the lock object registered, the object each process
refers to, and its guard. Lock objects have an identity, so two processes may
hold different locks of the same schema if the registry gets it wrong.

A request of the admin API goes through its awaits one action at a time: a
creation is `Create`, `CreateLocked`, `CreateHandle`, `CreateStored`,
`CreateCopy`, `CreateFlushed`, then `DropLock` and `Unlock`, or `RemoveConn`,
`RemoveConfigs` and `Cleanup` when it failed (its destructor `Bomb`), which are
also the steps of `Destroy`. `PostConfig` changes a configuration, `Cancel`
drops a request at an await, `Evict` is the cache's. Migrations are what
SchemaScheduler shows of them: the databases linked at registration, then the
schema, or none.

Assumptions, which the code does not enforce: there is one schema; requests in
progress are on different databases (a post that overlaps a destroy of the same
database can bring back its row and link, or leave a configuration in memory
only, `meta_store.rs:312-330` with `:511-556`); only entries nobody uses are
evicted; a task that meets an empty cache entry is not tried again before a
restart (it stays in `enqueued_tasks`); the copy of the schema is exact
(`configurator/fork.rs:176` can stop one frame early); a migration runs on all
linked databases and the schema or on none (SchemaScheduler shows the
exceptions). The fork endpoint (`http/admin/mod.rs:449-471`), which makes a
linked database without the schema lock, is not modelled.

### HranaStreams

`handle`, `seq`, `expire` and `cleanup` are `ServerStreamState`; `sleep`,
`waker`, `woken` its timer and the task that waits for it. What a request does
under the mutex is one action: `Create`, `Acquire` (with a baton), `CloseDb`,
`Release`, `Abandon` (the guard is dropped without a release). `pump_expire()`
keeps the mutex over `PumpStart`, `PumpExpire`, `PumpAlarm`, `PumpCleanup` and
`PumpSleep`. Instants are kept as the time left until them, which `Tick` counts
down. A timer set for an instant that is already past (`PumpTooLate`) fires
while it is being set, and leaves the task asleep without a timer. A random
stream id is taken to be one that was never used; `gen_stream_id()` panics when
it finds none, which is not modelled. A cursor request releases its guard when it
is about to answer, with its batch still to be run.

### Faults and excuses

Where the code does not survive a fault, a property names the fault that
excuses it rather than the model leaving the fault out. `trouble` and `faults`
are the faults that happened. In MetaStore, `raced`, `erased` and `upset` are
the databases to which something happened after which a property does not hold
in the code (the comments at their declaration say what); in ReplicationLog,
`torn` and `doubled` are such events of the log. The comment of a property names
its excuses. They are needed: without them TLC shows the behaviours listed below
under "Where code and documentation disagree". (For `raced` in
TasksHaveDatabases it takes three requests: `MaxCalls = 3`.)

## What is model-checked

The states are the distinct ones TLC reaches; the runs take between seconds and
three minutes.

| Run | Instance | Properties | Result |
| --- | --- | --- | --- |
| `conn_slots` | 3 connections, checkpoints that may be raised to TRUNCATE, drops and refusals | WriterOwnsSlot, AssertionsHold, WaiterIsQueued, DrainIsExclusive, NoSilentRollback, AbortIsEffective, NoLostWakeup | hold (1,469,480 states) |
| `conn_progress` | 2 connections, one silent, checkpoints that drain the queue | NotifiedIsAwaited, EveryCallReturns | hold |
| `conn_wait_cycle` | 2 connections, both slow | AllTxnsEventuallyAcquire | **violated** |
| `log_calm` | 4 transactions, 2 starts, 1 I/O error | SnapshotsAreExact, MergerSurvives, PromiseKept, SnapshotBecomesReady | hold (174,023 states) |
| `log_restarts` | a new or a restored database, 3 transactions, 3 starts, timer, VACUUM | LogMirrorsDb, LogFileIsSuffix | hold (1,742,021 states) |
| `log_vacuum` | a database that shrinks | NothingIsLost | **violated** |
| `replica_server` | buffer of 1 frame, reset, restart and changed configuration of the primary | ReplicaIsExact, NeverGoesBack, CatchesUp | hold under Tidy (805,159 states) |
| `replica_embedded` | buffer of 3 frames, one failing meta write, crash or dropped sync | ReplicaIsExact, NeverGoesBack, CatchesUp | hold under Tidy (505,714 states) |
| `replica_overlap` | overlapping snapshots, a broken stream | ReplicaIsExact | **violated** |
| `schema_jobs` | 2 jobs, 2 linked databases, one of them written to, 2 workers, batches of 2, one fault of 8 kinds | ExactlyOnce, NeverTorn, WritesStayBlocked, WritesUnblocked, CountersAgree, NeverPanics, AnswerIsTrue, JobsFinish | hold (351,441 states) |
| `meta_store` | 2 databases, 2 requests together, 1 migration, one fault of 7 kinds | SchemaLockExcludes, LinkedMissesNothing, TasksHaveDatabases, AcknowledgedSurvives, MemoryMatchesDisk, CallsEnd | hold (131,120 states) |
| `hrana_streams` | 2 streams, 2 requests together, 3 requests per stream | NeverPanics, BatonUsedOnce, IdleIsTimed, AlarmIsSet, StreamsEnd | hold (44,039 states) |

Every module states the types of its variables. The type invariants of
ConnectionManager, FrameLog and HranaStreams are proved; those of the other
modules hold in the instances above, where no run lists them. That no frame is
lost (`NothingIsLost`) follows in `log_calm` from `PromiseKept` and the theorem
`AlwaysCovered`.

### What the bounds leave in, and what they leave out

* Three connections are an owner, an aborter and a waiter: the smallest set in
  which a queue has an order while a steal is under way. Liveness uses two
  because it allows no symmetry reduction.
* Four transactions with a log of one frame give several snapshots, a merge
  (`MaxSnapshots` is 2) and a compaction during it. `QueueSize` 1 makes the
  channel full; the code's holds 8. `log_restarts` has three starts instead, so
  that what a recovery made is itself recovered, and no I/O error.
* A replica's buffer of one frame makes every transaction of two frames a
  flush without commit. The small instances have databases of at most two
  pages and three different transactions.
* Two jobs are needed for the scheduler to go from one to the next, and two
  linked databases for a job to be done on one and not on the other. A batch of
  two tasks leaves one in `current_batch` when the first is spawned, a retry
  makes it fetch again, two permits make workers overlap.
* In `conn_slots` every checkpoint is asked for below RESTART. One in ten is
  raised (`BumpToken`), from where on it is what one at RESTART is, so both
  kinds are there.
* In `replica_embedded` a fault is one of the kinds only an embedded replica
  meets, or a crash. Broken streams and failed injections are in
  `replica_server`.
* In `meta_store`, two requests are a creation and another one beside it, or
  one that meets what the first left; the migration is beside either. Its
  invariants are proved for any number of requests; `CallsEnd` is not. Free
  request slots and unused names are taken in order, which is a symmetry
  reduction by hand.
* In `hrana_streams` a cleanup takes longer than a sleep and an expiry, as in
  the code (300, 60 and 10 seconds).
* A run with one fault says nothing about two faults in a row. This matters:
  one disagreement listed below needs two.
* **Not every pass is unconditional.** Beside the excuses that the properties
  name, these constants narrow a passing run, and the code does not enforce
  them all:
  * `Shrinks` is off in `log_calm`; `log_vacuum` shows why.
  * `Tidy`, and a buffer of three frames for the embedded replica, are needed
    by `ReplicaIsExact`. `replica_overlap` shows the first; the second is among
    the counterexamples below. A server on which a merge is being finished is
    outside `replica_server` for this reason.
  * `EveryCallReturns` is checked with one connection that can be slow, and
    nobody refused. `conn_wait_cycle` shows that two slow ones break it; a waiter
    behind a `Failure` slot does too, and no safety property sees that.
  * `NotifiedIsAwaited` is checked without checkpoints below RESTART, after
    which a call leaves its entry in the queue. SQLite's automatic checkpoint is
    one of those.
  * `AssertionsHold` leaves out the release of `close()` and the `expect()` of
    an abort, where the assertions can fail.
* Deadlock is checked where the system cannot stop by itself. `conn_slots`,
  `replica_server`, `schema_jobs` and `meta_store` end when their bounds are
  used up, or in a panic.

### Fairness

* ConnectionManager: time passes and every thread runs (weak fairness).
  `AbortLock` is strongly fair since a `parking_lot` mutex is eventually fair.
  `InnerOk` is strongly fair for `Refused` connections: nobody outside the
  manager holds the WAL lock for good. The client of a connection that is not
  `Silent` ends its transaction; `Silent` ones get no fairness.
* ReplicationLog: weak fairness of opening, recovery, the sends, the compactor
  and the merger, which are tokio tasks that nothing disables. None for writes,
  faults, shutdowns or crashes.
* Replica: weak fairness of the replicator's steps and of `Publish`. For a
  replica server the endless loop of `run()` justifies it. For an embedded
  replica it assumes an application that goes on calling `sync`. The bound on
  faults makes `CatchesUp` a statement about what happens once they stop.
* SchemaScheduler: weak fairness of the scheduler and its workers taken
  together, and of the end of a client's transaction, which has a timeout. None
  for requests and faults.
* MetaStore: weak fairness of all the steps of tasks already begun, taken
  together: the runtime does not stop while one of them can go on. `CallsEnd`
  has no infinite behaviour in which some task is passed over for ever, since
  requests and jobs are bounded.
* HranaStreams: time passes, and a task that was woken is polled. Clients may
  stay away for ever.

## What is proved

TLAPS checks every proof below; none uses a bound.

**ConnectionManager**, for every set of connections. The only assumption is
`ConnsAssumption`, the types of the constants. `TypeCorrect` is the type
invariant. `WriterOwnsSlotAlways`, `AssertionsHoldAtWork`, `AbortAlwaysEffective`,
`RollbackNeverSilent`, `WaiterAlwaysQueued`, `DrainAlwaysExclusive` and
`WakeupNeverLost` state the seven invariants of `conn_slots`. The second is, as
its property, about every caller of `release()` but `close()`.

None of the first four is inductive: what makes a holder of the write lock own
the slot is where each thread is in its call. The invariant is `IInv`: `TypeOK` and, for
each connection, six links between its program point and the shared state
(`ConnectionManagerLinks`).

* `PointSlot`, `SlotPoint`: which points imply a state of the slot, and which
  states of the slot imply a point.
* `LockPoint`: the write lock is held by a thread that just got it or by the
  owner of a `WriteTxn` slot.
* `MutexPoint`: a connection's mutex is held by its own thread, or by an
  aborter while the connection is idle.
* `AbortPoint`: an aborter's target is another connection, whose slot it
  releases.
* `FlagPoint`: `forced_rollback` is up only while the connection does not hold
  the lock, and a client that believes it is in a transaction holds the lock,
  is flagged, or is being aborted.

`ConnectionManagerTypes` shows that each action keeps the types;
`ConnectionManagerLinks` states the links and the facts used for each kind of
step; `ConnectionManagerProofs` has `InductiveInit`, `InductiveStep`,
`Inductive` and the theorems.

The other three are about the queue, and need more than `IInv`. `QInv` adds, for
each connection (`Queued`):

* a call that pushed itself is in the queue with a live Parker, owns the slot,
  or must see a new sync token;
* the owner of a slot marked `Failure` has not pushed itself, so that what a
  failed call leaves in the slot never stands for a queued caller;
* a call on its way to `park` is in the queue with a live Parker, or has been
  unparked. This is said from the moment it pushed itself, up to three points earlier,
  since another thread may take it off the queue in between;
* while a checkpoint counts and drains the queue, every call that pushed itself
  must see a new token. Hence nobody pushes, and the count stays right.

There are two lemmas to reduce most steps to: `QuietStays`, for a step that
leaves the queue alone, and `OthersStay`, for what a step does to the other
calls.

**FrameLog**, for every set of frames: `LogTypeCorrect` and `AlwaysCovered` (each
frame before the log file is in a snapshot or in a file that will become one).
The invariant is `LogTypeOK /\ Covered`.

**HranaStreams**, for every number of streams, requests and all durations:
`StreamsNeverPanic`, `BatonAlwaysUsedOnce`, `IdleAlwaysTimed` and
`AlarmAlwaysSet`, from `StreamsAssumption`. The invariant adds to the properties
that a guard and an `Acquired` handle go together, one guard per stream
(`GuardsAgree`); that the cleanup queue holds `Expired` streams, each once
(`CleanupAgrees`, which the assertion of `pump_expire()` needs); that an id not
yet generated has no handle; that the number of a used baton is below the one
its stream expects (`UsedIsOld`); and that the timer is early enough, or the
task is about to be polled (`AlarmCovers`).

**MetaStore**, for every number of databases, requests, migrations and faults,
from `MetaStoreAssumption`, and under the assumptions listed with the module:
requests in progress are on different databases. `MetaStoreProofs` is about the locks:
`SchemaLockAlwaysExcludes`. The proof looks at a process through the phase it is
in (`out`, `want`, `hold`, `leave`). The invariant `LockInv` says that one that
wants the lock or holds it refers to the registered object, which is what the
count of references in the destructor is for (`LockAgrees`); that the scheduler
holds it alone (`HoldsAlone`); and that only creations use it. A lemma per kind
of step says what it does to the phases. `NewLockIsNew`, by counting, says that
a new lock object is one nobody refers to.

`MetaStoreInvariant` and `MetaStoreData` are about what the requests leave
behind: `LinkedComplete`, `JobsReachDatabases`, `AcknowledgedDurable` and
`MemoryDiskAgree` state the other four invariants of `meta_store`, with the same
excuses: in particular `AcknowledgedDurable` excepts a database that is created
again while it is not loaded, as none is after a restart (`erased`). Each of them
is about a database at rest, and what holds while it is not is in none of them.
The invariant `DataInv` adds it:

* `Requests`, `Messages`: what a request may be doing, one database each; a
  message in the queue or with the storing task is the one its request waits
  for, or one of a request that was cancelled.
* `InOrder`, `OverdueWaits`: what a cancelled request sent is stored before
  what a later creation of the same database sends. A cancelled change can link
  a database behind the back of a creation, and only this order limits the
  damage to databases in `raced`.
* `LinksAgree`, `Acknowledged`: a link, its row and its configuration in memory
  go together, except between the two halves of such a change.
* `Progress`, `Agreed`: what a request has done at each of its points, and that
  memory and disk agree on a database no request is about to change.
* `TasksLinked`, `UpToDate`: which migrations a linked database has while a job
  is at work, and that a database which may become linked has those of the
  schema.

There is a lemma per action (`HandleKeeps`, `CopyKeeps`, ...), resting on lemmas
about kinds of steps: one that leaves the data alone (`Unmoved`), only moves a
request (`Moves`), sends (`Sends`), answers (`Answers`), or changes one database
(`OnlyItsDatabase`, `OnlyItsCall`, `OnlyItsContent`).

The theorems about FrameLog speak of the abstract log. That ReplicationLog
implements it is model-checked (`PromiseKept`), not proved, and it does so
without `Shrinks` only.

### Only model-checked

Liveness everywhere, which is out of TLAPS's reach here, and every property of
ReplicationLog, Replica and SchemaScheduler, the refinement included.
`SnapshotsAreExact`, `MergerSurvives`, `LogMirrorsDb`, `ReplicaIsExact` and
`NeverGoesBack` rest on what compacting, merging and replaying sequences of
frames give, which calls for induction over data. For `LogFileIsSuffix`,
`NotifiedIsAwaited` and the invariants of the scheduler an inductive
strengthening is within the prover's means; none is proved here.

## Where code and documentation disagree

Three disagreements are runs of their own; `findings` quotes the lines.

1. `conn_wait_cycle`: an aborter waits for its victim's mutex. The victim,
   which has committed meanwhile, holds it in `acquire()`, waiting for the slot
   reserved for the aborter. The doc of a test says that all transactions
   eventually acquire the lock.
2. `log_vacuum`: after a VACUUM one snapshot can be worth merging alone. The
   merge gets the name of its input, and is then removed as an input.
3. `replica_overlap`: `rollback()` leaves `biggest_uncommitted_seen`, so a
   narrower snapshot is committed under the end of a wider one.

The following are counterexamples TLC gives when constants change or an excuse
is taken out of a property. They are not runs; the change that shows each is in
parentheses.

* `acquire()` returns `SQLITE_BUSY` while its entry is still queued
  (`connection_manager.rs:184`; the comment is at 188-189).
* The target of an abort is gone when it is looked up (`:39`; `Leaving`), and
  `close()` releases a slot it does not own (`:549`, `:365`; `Refused` and
  `Leaving`).
* A waiter stays parked behind a `Failure` slot (`:277`;
  AllTxnsEventuallyAcquire, 3 connections, `Refused = Conns`, `MaxRetries = 0`).
* A merge panics on snapshots that overlap, or the merger is told of a snapshot
  that is gone, and later snapshots are then never made
  (`replication/snapshot.rs:483`, `:327`; MergerSurvives and
  SnapshotBecomesReady without `doubled`).
* A shutdown between the two commits leaves a log that differs from the
  database and is opened as clean (`namespace/mod.rs:94`; `lib.rs:764-772` shuts
  the namespaces down before the services; LogMirrorsDb without `torn`).
* The biggest frame number of an old log survives into a new one
  (`injector/sqlite_injector/mod.rs:206`; embedded, `Capacity = 1`,
  `MaxFaults = 0`, `MaxResets = 1`).
* A meta file that lags behind the database is combined with a reset
  (`configurator/replica.rs:154`; server, `{"meta", "crash"}`, `MaxFaults = 2`,
  `MaxFrames = 4`).
* A dropped `sync` loses frames it had received (`remote_client.rs:248`;
  ReplicaIsExact without its excuse for `"cancel"`). With a crash after it, or
  after a failed write of the meta file, pages go back to earlier versions
  (NeverGoesBack without its excuse, `MaxFaults = 2`).
* A request to migrate that arrives between two steps of a job lowers `has_work`
  and the job stalls (`schema/scheduler.rs:172`, whose comment says "the job
  will be picked up anyway"; JobsFinish without `"message"`).
* A database that cannot be loaded, or a status that cannot be written, leaves
  its task in `enqueued_tasks`, and the job waits for a restart
  (`scheduler.rs:349`, `:469`, whose message says "retryng later"; JobsFinish
  without `"lost"`).
* After a restart in the middle of a job its inferred status can be one for
  which the scheduler has `unreachable!()` or `todo!()` (`scheduler.rs:291-292`;
  NeverPanics without `"crash"`).
* A writer preempted between its look at `block_writes` and SQLite's lock, or a
  DDL statement, which does not look at it, makes a run fail after its dry run
  succeeded (`connection_core.rs:213`, `:215`; NeverTorn without `"unblocked"`).
  A run that fails for another reason (`schema/migration.rs:183-192`) leaves the
  job as torn (NeverTorn without `"sql"`). Both lead to `todo!()`
  (`scheduler.rs:264`).
* The error of the schema's own migration is dropped, and a `schema_version`
  that is the job's id by chance, as DDL of a dump can make it, skips it: the job
  is RunSuccess, the schema is not migrated (`scheduler.rs:780-792`; ExactlyOnce
  without `"schema"`).
* A client whose broadcast receiver lags stops waiting and takes the status of a
  job in progress for success (`schema/handle.rs:31`, `database/schema.rs:106-120`;
  AnswerIsTrue without `"lag"`).
* A migration registered before a creation and finished between the creation's
  copy and its flush is missing in the new database. `schema/mod.rs:2-4` says it
  is "executed exactly one on every database" (`store.rs:282`;
  LinkedMissesNothing without `raced`, no fault).
* Creating a database that exists but is not loaded fails at the rename, and its
  clean-up removes the existing directory (`configurator/fork.rs:134`) and
  configuration (AcknowledgedSurvives without `erased`).
* A flush takes the mutex of `configs` and then the connection's, `remove()` the
  other way round (`meta_store.rs:333`, `:354`, `:520`, `:522`; CallsEnd without
  `Deadlocked`).
* `process()` keeps a configuration in memory whose write failed
  (`meta_store.rs:316`); a creation refused because of a pending migration
  leaves its entry, since `remove()` is refused too (`:533`); and a change that
  was given up may come after the removal of its database and bring its row back
  (MemoryMatchesDisk without `upset`).
* A timer of `pump_expire()` that fires while it is being set wakes nobody, and
  streams stay until the next request (`hrana/http/stream.rs:406`; StreamsEnd
  without `sleep = Off`).

Seen while reading and not modelled: `RemoteConnection::execute()` returns a
frame number its closure had a copy of (`connection/write_proxy.rs:369-405`);
the copy of a fork stops one frame early (`configurator/fork.rs:176`); the fork
endpoint takes no schema lock (`http/admin/mod.rs:449-471`).

## What is not modelled

* The bytes of pages, checksums, encodings and wording of errors: no property
  depends on them.
* SQLite and its bindings, taken as they are used: an atomic write transaction,
  a busy timeout, a WAL whose last commit survives a crash. A loss of power that
  undoes writes the process had made is left out.
* In connections: the interpreter of programs, authorisation, hooks. In
  replicas: copying the configuration, the publication of the current frame
  number, periodic sync, replication from files.
* In the log: a namespace that is evicted and opened again by the same process,
  logs of a version below 2 (`logger.rs:596`), and a `remove_dir_all` that fails
  when a dirty log is opened, which the code ignores (`logger.rs:699-702`).
* In the replication service: a namespace that is destroyed and created again by
  one process and keeps its session token; only a new process recovers a log.
* In the namespace store: `reset()`, databases without a schema, the fork
  endpoint, forks at a point in time, two requests on one database at once, the
  order of a shutdown. In the meta store: its backup, and the
  import of old configurations at start-up.
* In Hrana over HTTP: the requests of a pipeline, stored SQL texts, the body of
  a cursor. Hrana over WebSocket has a task per stream behind a channel and
  answers in the order of requests; streams share no state.
* The write proxy: the state of a replica's connection is sequential, with one
  request in progress. What interleaves with it is replication, which Replica
  has, and the primary's timeout for idle clients.
* Bottomless backup depends on the listings and partial uploads of an S3 bucket,
  and offline sync on a server that is not in this repository. A model of either
  would be mostly of a service the code does not define.
* Change notifications: a counter per table, and a channel that may drop.
* Parsing, results, front ends, statistics, dumps, shell: single-request or
  sequential code.
