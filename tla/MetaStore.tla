----------------------------- MODULE MetaStore -----------------------------
(***************************************************************************)
(* The meta store and the life of a database linked to a shared schema     *)
(* (libsql-server/src/namespace: meta_store.rs, store.rs, schema_lock.rs,  *)
(* configurator/fork.rs): the configurations in memory and in the meta     *)
(* database, their two locks, the task that stores changes, the registry   *)
(* of schema locks, the creation of a database as a copy of its schema,    *)
(* its configuration and its removal, next to the migrations of the        *)
(* schema.                                                                 *)
(*                                                                         *)
(* There is one schema.  A migration is a job id, the content of a         *)
(* database the set of migrations it has.  The scheduler is kept to what   *)
(* SchemaScheduler shows of it: a job runs on the databases linked when it *)
(* was registered, then on the schema, or on none of them.  That a run may *)
(* fail on some of them, and on the schema without notice, is shown there, *)
(* not here.                                                               *)
(***************************************************************************)
EXTENDS Integers, Sequences, FiniteSets

CONSTANTS
  MaxDbs,      \* databases linked, or to be linked, to the schema
  MaxActive,   \* bound on requests to the admin API that are in progress together
  Settings,    \* what a configuration can say besides the link
  MaxCalls,    \* bound on requests
  MaxJobs,     \* bound on migrations
  FaultKinds,  \* the faults that may happen ("again": a job is asked for while one is
               \* unfinished), each at most once, ...
  MaxFaults    \* ... this many in all

Dbs == 1..MaxDbs
Schema == 0
Scheduler == 0
Clients == 1..MaxActive
Procs == Clients \cup {Scheduler}
Jobs == 1..MaxJobs
LockIds == 1..Cardinality(Procs) + 1

ASSUME MetaStoreAssumption ==
  /\ MaxDbs \in Nat /\ Settings \cap {"none", "absent", "default"} = {}
  /\ MaxActive \in Nat /\ MaxCalls \in Nat /\ MaxJobs \in Nat /\ MaxFaults \in Nat

VARIABLES
  configs,   \* MetaStoreInner::configs: "absent", "default", or a setting of a linked database
  rows,      \* table namespace_configs
  links,     \* table shared_schema_links
  entry,     \* NamespaceStoreInner::store: "none", or an entry that is "empty" or holds a Namespace ("full")
  files,     \* the databases that have a directory
  content,   \* content[x]: the migrations that database x has
  queue,     \* the channel to the task that stores changes
  store,     \* what that task does, or NoMsg
  call,      \* call[c]: the request of client c
  calls,     \* requests so far
  locks,     \* SchemaLocksRegistry::locks: the lock object of the schema, or 0
  arc,       \* arc[p]: the lock object p has a reference to, or 0
  held,      \* held[p]: the guard p has
  reg,       \* where register_migration_job() is
  registered, \* table jobs: how many there are
  job,       \* the unfinished one, or 0
  todo,      \* its databases that are not done
  migrated,  \* the schema is
  acked,     \* databases whose creation was answered with success, until they are removed
  raced,     \* databases that something overtook: their schema was migrated between their copy and
             \* their link, they were made without a copy, or a change of theirs was given up
  erased,    \* linked databases whose directory the creation of one with their name removed
  upset,     \* databases with a change that failed, or was still queued when given up
  trouble,   \* the faults that happened
  panicked   \* the unreachable!() of schema_lock.rs

memory == <<configs, entry, queue, store>>
disk == <<rows, links, files, content>>
schema_lock == <<locks, arc, held>>
sched == <<reg, registered, job, todo, migrated>>
ghosts == <<acked, raced, erased, upset>>
vars == <<memory, disk, call, calls, schema_lock, sched, ghosts, trouble, panicked>>

NoMsg == [pc |-> "idle"]
Idle == [op |-> "none", db |-> 0, pc |-> "idle", reply |-> "none"]

Init ==
  /\ configs = [d \in Dbs |-> "absent"] /\ rows = configs /\ links = {}
  /\ entry = [d \in Dbs |-> "none"] /\ files = {} /\ content = [x \in Dbs \cup {Schema} |-> {}]
  /\ queue = <<>> /\ store = NoMsg
  /\ call = [c \in Clients |-> Idle] /\ calls = 0
  /\ locks = 0 /\ arc = [p \in Procs |-> 0] /\ held = [p \in Procs |-> "no"]
  /\ reg = "idle" /\ registered = 0 /\ job = 0 /\ todo = {} /\ migrated = FALSE
  /\ acked = {} /\ raced = {} /\ erased = {} /\ upset = {} /\ trouble = {} /\ panicked = FALSE

Fault(kind) ==
  /\ kind \in FaultKinds \ trouble /\ Cardinality(trouble) < MaxFaults
  /\ trouble' = trouble \cup {kind}

-----------------------------------------------------------------------------
(* The two locks of the meta store: conn is only kept over a step by       *)
(* remove(), which then wants configs; configs only by a flush, which then *)
(* wants conn.                                                             *)

ConnFree == \A c \in Clients : call[c].pc # "remove_configs"
ConfigsFree == store.pc # "flush_conn"

\* The request of c waits for the storing task, or goes on.
Goto(c, pc) == call' = [call EXCEPT ![c].pc = pc, ![c].reply = "none"]
Waiting == {"stored", "flushing", "posted"}

\* A message to the storing task; config is "none" for a flush.
Send(c, d, config, flush) ==
  queue' = Append(queue, [client |-> c, db |-> d, config |-> config, flush |-> flush])

\* A message of a request that is gone has nobody to answer.
Nobody == 0
Orphan(c, m) == IF m.client = c THEN [m EXCEPT !.client = Nobody] ELSE m

Reply(ok) ==
  /\ call' = [c \in Clients |-> IF c = store.msg.client
                               THEN [call[c] EXCEPT !.reply = IF ok THEN "ok" ELSE "err"] ELSE call[c]]
  /\ store' = NoMsg

-----------------------------------------------------------------------------
(* SchemaLocksRegistry.                                                    *)

\* A lock object that nobody refers to.
NewLock == CHOOSE id \in LockIds : \A q \in Procs : arc[q] # id

\* The reference to the lock object, made when there is none.
Clone(p) ==
  /\ locks' = IF locks # 0 THEN locks ELSE NewLock
  /\ arc' = [arc EXCEPT ![p] = locks']
  /\ UNCHANGED held

Grant(p, kind) ==
  /\ held[p] = "no"
  /\ \A q \in Procs : arc[q] = arc[p] /\ held[q] # "no" => kind = "shared" /\ held[q] = "shared"
  /\ held' = [held EXCEPT ![p] = kind]
  /\ UNCHANGED <<locks, arc>>

\* Mutant: the references are not counted.
DropEntryAlways(p) ==
  /\ locks' = 0 /\ panicked' = (locks = 0)
  /\ UNCHANGED <<arc, held>>

\* Drop of SchemaLock: the entry goes when only the map and p refer to it ...
DropEntry(p) ==
  /\ locks' = IF {q \in Procs : arc[q] = locks} = {p} THEN 0 ELSE locks
  /\ panicked' = (locks = 0)
  /\ UNCHANGED <<arc, held>>

\* ... and then the guard.
DropGuard(p) ==
  /\ arc' = [arc EXCEPT ![p] = 0] /\ held' = [held EXCEPT ![p] = "no"]
  /\ UNCHANGED locks

-----------------------------------------------------------------------------
(* The task that stores changes.                                           *)

Receive ==
  /\ store = NoMsg /\ queue # <<>>
  /\ queue' = Tail(queue)
  /\ LET m == Head(queue) IN
       store' = [msg |-> m, ok |-> TRUE,
                 pc |-> CASE m.config = "none" -> "flush"
                          [] m.config # "none" /\ m.flush -> "write"
                          [] OTHER -> "update"]
  /\ UNCHANGED <<configs, entry, disk, call, calls, schema_lock, sched, ghosts, trouble, panicked>>

\* Mutant: jobs are not looked for.
PendingMigrationMissed(config) == FALSE

\* has_pending_migration_jobs() of the schema that a configuration names.
PendingMigration(config) == config \in Settings /\ job # 0

\* try_process(): one transaction on the configuration and the link, refused while a
\* migration of the schema is pending.
TryProcess(d, config, ok) ==
  \/ /\ ok /\ ~PendingMigration(config)
     /\ rows' = [rows EXCEPT ![d] = config]
     /\ links' = IF config \in Settings THEN links \cup {d} ELSE links
     /\ UNCHANGED <<upset, trouble>>
  \/ /\ ~ok
     /\ (PendingMigration(config) /\ UNCHANGED trouble) \/ Fault("sql")
     /\ upset' = upset \cup {d}
     /\ UNCHANGED <<rows, links>>

\* process() with a configuration: the database first, then the memory, whatever came of it.
StoreWrite ==
  /\ store.pc = "write" /\ ConnFree
  /\ \E ok \in BOOLEAN :
       /\ TryProcess(store.msg.db, store.msg.config, ok)
       /\ store' = [store EXCEPT !.pc = "update", !.ok = ok]
  /\ UNCHANGED <<configs, entry, queue, files, content, call, calls, schema_lock, sched, acked, raced,
                 erased, panicked>>

\* Mutant: an error returns before the answer is sent.
StoreUpdateSilent ==
  /\ store.pc = "update"
  /\ configs' = [configs EXCEPT ![store.msg.db] = store.msg.config]
  /\ IF store.ok THEN Reply(TRUE) ELSE store' = NoMsg /\ UNCHANGED call
  /\ UNCHANGED <<entry, queue, disk, calls, schema_lock, sched, ghosts, trouble, panicked>>

StoreUpdate ==
  /\ store.pc = "update"
  /\ configs' = [configs EXCEPT ![store.msg.db] = store.msg.config]
  /\ Reply(store.ok)
  /\ UNCHANGED <<entry, queue, disk, calls, schema_lock, sched, ghosts, trouble, panicked>>

\* process() without: what is in memory is stored, with both locks.
StoreFlush ==
  /\ store.pc = "flush"
  /\ IF configs[store.msg.db] = "absent"
       THEN Reply(TRUE)
       ELSE store' = [store EXCEPT !.pc = "flush_conn"] /\ UNCHANGED call
  /\ UNCHANGED <<configs, entry, queue, disk, calls, schema_lock, sched, ghosts, trouble, panicked>>

\* Mutant: the result of the write is not passed on.
StoreFlushConnUnheard ==
  /\ store.pc = "flush_conn" /\ ConnFree
  /\ \E ok \in BOOLEAN : TryProcess(store.msg.db, configs[store.msg.db], ok) /\ Reply(TRUE)
  /\ UNCHANGED <<configs, entry, queue, files, content, calls, schema_lock, sched, acked, raced, erased, panicked>>

StoreFlushConn ==
  /\ store.pc = "flush_conn" /\ ConnFree
  /\ \E ok \in BOOLEAN : TryProcess(store.msg.db, configs[store.msg.db], ok) /\ Reply(ok)
  /\ UNCHANGED <<configs, entry, queue, files, content, calls, schema_lock, sched, acked, raced, erased, panicked>>

Store == Receive \/ StoreWrite \/ StoreUpdate \/ StoreFlush \/ StoreFlushConn

-----------------------------------------------------------------------------
(* Requests.  Two in progress are about different databases, which nothing *)
(* in the code makes sure of: a post that overlaps a destroy of the same   *)
(* database, whose row it can bring back, is not modelled.  Requests are   *)
(* alike, and so are names not used yet: the first of each is taken.       *)

Unused(d) ==
  /\ configs[d] = "absent" /\ rows[d] = "absent" /\ entry[d] = "none" /\ content[d] = {}
  /\ d \notin links \cup files \cup raced \cup erased \cup upset /\ \A c \in Clients : call[c].db # d

Start(c, op, d, pc) ==
  /\ call[c] = Idle /\ calls < MaxCalls /\ \A q \in 1..(c - 1) : call[q] # Idle
  /\ \A q \in Clients : call[q].db # d
  /\ Unused(d) => \A e \in 1..(d - 1) : ~Unused(e)
  /\ calls' = calls + 1
  /\ call' = [call EXCEPT ![c] = [op |-> op, db |-> d, pc |-> pc, reply |-> "none"]]

\* NamespaceStore::create() of a database with a shared schema.  The fork endpoint, which makes
\* a copy of a linked database without the schema lock, is not modelled.
Create(c, d) ==
  /\ Start(c, "create", d, "lock") /\ Clone(c)
  /\ UNCHANGED <<memory, disk, sched, ghosts, trouble, panicked>>

CreateLocked(c) ==
  /\ call[c].pc = "lock" /\ Grant(c, "shared")
  /\ Goto(c, "handle")
  /\ UNCHANGED <<memory, disk, calls, sched, ghosts, trouble, panicked>>

\* fork(), until it has told the storing task of the configuration, in memory only.
CreateHandle(c) ==
  LET d == call[c].db IN
  /\ call[c].pc = "handle" /\ ConfigsFree
  /\ IF entry[d] = "full"
       THEN Goto(c, "drop") /\ UNCHANGED <<configs, entry, queue>>
       ELSE /\ entry' = [entry EXCEPT ![d] = "empty"]
            /\ configs' = [configs EXCEPT ![d] = IF @ = "absent" THEN "default" ELSE @]
            /\ \E v \in Settings : Send(c, d, v, FALSE)
            /\ Goto(c, "stored")
  /\ UNCHANGED <<store, disk, calls, schema_lock, sched, ghosts, trouble, panicked>>

CreateStored(c) ==
  /\ call[c].pc = "stored" /\ call[c].reply # "none"
  /\ Goto(c, IF call[c].reply = "ok" THEN "copy" ELSE "remove_conn")
  /\ UNCHANGED <<memory, disk, calls, schema_lock, sched, ghosts, trouble, panicked>>

\* The copy of the schema, taken to be exact, renamed to its place, and the flush; a directory
\* in that place makes the rename fail and is removed.
CreateCopy(c) ==
  LET d == call[c].db IN
  /\ call[c].pc = "copy"
  /\ \/ /\ d \notin files
        /\ files' = files \cup {d} /\ content' = [content EXCEPT ![d] = content[Schema]]
        /\ entry' = [entry EXCEPT ![d] = "full"]
        /\ raced' = raced \ ({d} \ links) /\ erased' = erased \ ({d} \ links)
        /\ Send(c, d, "none", TRUE) /\ Goto(c, "flushing")
        /\ UNCHANGED trouble
     \/ /\ (d \in files /\ UNCHANGED trouble) \/ Fault("fork")
        /\ files' = files \ {d} /\ erased' = erased \cup ({d} \cap links) /\ Goto(c, "remove_conn")
        /\ UNCHANGED <<content, entry, raced, queue>>
  /\ UNCHANGED <<configs, store, rows, links, calls, schema_lock, sched, acked, upset, panicked>>

CreateFlushed(c) ==
  /\ call[c].pc = "flushing" /\ call[c].reply # "none"
  /\ \/ call[c].reply = "ok" /\ acked' = acked \cup {call[c].db} /\ Goto(c, "drop")
     \/ call[c].reply = "err" /\ Goto(c, "remove_conn") /\ UNCHANGED acked
  /\ UNCHANGED <<memory, disk, calls, schema_lock, sched, raced, erased, upset, trouble, panicked>>

DropLock(c) ==
  /\ call[c].pc = "drop" /\ DropEntry(c) /\ Goto(c, "unlock")
  /\ UNCHANGED <<memory, disk, calls, sched, ghosts, trouble>>

Unlock(c) ==
  /\ call[c].pc = "unlock" /\ DropGuard(c) /\ call' = [call EXCEPT ![c] = Idle]
  /\ UNCHANGED <<memory, disk, calls, sched, ghosts, trouble, panicked>>

\* NamespaceStore::destroy().
Destroy(c, d) ==
  /\ Start(c, "destroy", d, "remove_conn")
  /\ UNCHANGED <<memory, disk, schema_lock, sched, ghosts, trouble, panicked>>

\* MetaStore::remove(), of a destroy() or of a creation that failed: it takes conn, ...
RemoveConn(c) ==
  /\ call[c].pc = "remove_conn" /\ ConnFree
  /\ Goto(c, "remove_configs")
  /\ UNCHANGED <<memory, disk, calls, schema_lock, sched, ghosts, trouble, panicked>>

\* Mutant: remove() does not look for jobs.
MayRemoveAlways(config) == TRUE

\* What remove() asks of a configuration that names a schema.
MayRemove(config) == ~PendingMigration(config)

\* ... then configs.  A creation does not look at the result.
RemoveConfigs(c) ==
  LET d == call[c].db
      create == call[c].op = "create" IN
  /\ call[c].pc = "remove_configs" /\ ConfigsFree
  /\ \/ /\ configs[d] = "absent"
        /\ call' = [call EXCEPT ![c] = IF create THEN [@ EXCEPT !.pc = "drop"] ELSE Idle]
        /\ UNCHANGED <<configs, rows, links, acked, upset, trouble>>
     \/ /\ configs[d] # "absent" /\ MayRemove(configs[d])
        /\ rows' = [rows EXCEPT ![d] = "absent"]
        /\ links' = IF configs[d] \in Settings THEN links \ {d} ELSE links
        /\ configs' = [configs EXCEPT ![d] = "absent"]
        /\ acked' = acked \ {d}
        /\ Goto(c, IF create THEN "drop" ELSE "cleanup")
        /\ UNCHANGED <<upset, trouble>>
     \/ /\ configs[d] # "absent"
        /\ (~MayRemove(configs[d]) /\ UNCHANGED trouble) \/ Fault("sql")
        /\ call' = [call EXCEPT ![c] = IF create THEN [@ EXCEPT !.pc = "drop"] ELSE Idle]
        /\ upset' = IF create THEN upset \cup {d} ELSE upset
        /\ UNCHANGED <<configs, rows, links, acked>>
  /\ UNCHANGED <<entry, queue, store, files, content, calls, schema_lock, sched, raced, erased, panicked>>

\* Mutant: the entry of the cache is forgotten.
CleanupKeepsEntry(c) ==
  /\ call[c].pc = "cleanup"
  /\ files' = files \ {call[c].db}
  /\ call' = [call EXCEPT ![c] = Idle]
  /\ UNCHANGED <<memory, rows, links, content, calls, schema_lock, sched, ghosts, trouble, panicked>>

\* The end of destroy(): the entry of the cache and the directory.  An error of ns.destroy() or of
\* cleanup() is the answer, and leaves the directory of a database that has no row any more.
Cleanup(c) ==
  LET d == call[c].db IN
  /\ call[c].pc = "cleanup"
  /\ entry' = [entry EXCEPT ![d] = "none"]
  /\ \/ files' = files \ {d} /\ UNCHANGED trouble
     \/ Fault("cleanup") /\ UNCHANGED files
  /\ call' = [call EXCEPT ![c] = Idle]
  /\ UNCHANGED <<configs, queue, store, rows, links, content, calls, schema_lock, sched, ghosts, panicked>>

\* NamespaceStore::with(): a database that has no entry is loaded, and made when it has no
\* directory; an entry that a failed creation left empty is an error.
Load(d, done) ==
  /\ entry[d] # "empty" /\ ConfigsFree
  /\ entry' = [entry EXCEPT ![d] = "full"] /\ files' = files \cup {d}
  /\ content' = [content EXCEPT ![d] = (IF d \in files THEN @ ELSE {}) \cup done]

\* handle_post_config(), of a linked database.
PostConfig(c, d, v) ==
  /\ configs[d] \in Settings /\ Load(d, {})
  /\ Start(c, "post", d, "posted")
  /\ raced' = IF d \in files THEN raced ELSE raced \cup {d}
  /\ Send(c, d, v, TRUE)
  /\ UNCHANGED <<configs, store, rows, links, schema_lock, sched, acked, erased, upset, trouble, panicked>>

Posted(c) ==
  /\ call[c].pc = "posted" /\ call[c].reply # "none"
  /\ call' = [call EXCEPT ![c] = Idle]
  /\ UNCHANGED <<memory, disk, calls, schema_lock, sched, ghosts, trouble, panicked>>

\* The client goes away: the future is dropped where it waits, and with it the Bomb of a
\* creation; a copy may already be in its place.
Cancel(c) ==
  LET d == call[c].db IN
  /\ Fault("cancel")
  /\ upset' = IF call[c].pc = "lock" THEN upset ELSE upset \cup {d}
  /\ raced' = IF call[c].pc \in Waiting THEN raced \cup {d} ELSE raced
  /\ \/ /\ call[c].pc = "lock" /\ DropGuard(c)
        /\ call' = [call EXCEPT ![c] = Idle] /\ UNCHANGED <<files, content>>
     \/ /\ call[c].pc \in {"posted", "cleanup"}
        /\ call' = [call EXCEPT ![c] = Idle] /\ UNCHANGED <<files, content, schema_lock>>
     \/ /\ call[c].pc \in {"stored", "flushing"}
        /\ Goto(c, "remove_conn") /\ UNCHANGED <<files, content, schema_lock>>
     \/ /\ call[c].pc = "copy" /\ Goto(c, "remove_conn")
        /\ files' = files \cup {d}
        /\ content' = IF d \in files THEN content ELSE [content EXCEPT ![d] = content[Schema]]
        /\ UNCHANGED schema_lock
  /\ queue' = [i \in DOMAIN queue |-> Orphan(c, queue[i])]
  /\ store' = IF store = NoMsg THEN NoMsg ELSE [store EXCEPT !.msg = Orphan(c, @)]
  /\ UNCHANGED <<configs, entry, rows, links, calls, sched, acked, erased, panicked>>

\* The cache drops an entry that nobody uses.
Evict(d) ==
  /\ Fault("evict")
  /\ entry[d] # "none" /\ \A c \in Clients : call[c].db # d
  /\ entry' = [entry EXCEPT ![d] = "none"]
  /\ UNCHANGED <<configs, queue, store, disk, call, calls, schema_lock, sched, ghosts, panicked>>

Request(c) ==
  \/ CreateLocked(c) \/ CreateHandle(c) \/ CreateStored(c) \/ CreateCopy(c) \/ CreateFlushed(c)
  \/ RemoveConn(c) \/ RemoveConfigs(c) \/ Cleanup(c) \/ Posted(c) \/ DropLock(c) \/ Unlock(c)

-----------------------------------------------------------------------------
(* Migrations of the schema.                                               *)

\* Scheduler::register_migration_job() has the lock alone while it writes the job down.
RegisterJob ==
  /\ reg = "idle"
  /\ (registered < MaxJobs /\ UNCHANGED trouble) \/ (job # 0 /\ Fault("again"))
  /\ reg' = "lock" /\ Clone(Scheduler)
  /\ UNCHANGED <<memory, disk, call, calls, registered, job, todo, migrated, ghosts, panicked>>

RegisterLocked ==
  /\ reg = "lock" /\ Grant(Scheduler, "excl")
  /\ reg' = "insert"
  /\ UNCHANGED <<memory, disk, call, calls, registered, job, todo, migrated, ghosts, trouble, panicked>>

\* register_schema_migration_job(): one unfinished job for a schema.  A job over the bound is
\* left out.
InsertJob ==
  /\ reg = "insert" /\ reg' = "drop"
  /\ \/ job # 0 /\ UNCHANGED <<registered, job, todo>>
     \/ job = 0 /\ registered < MaxJobs /\ registered' = registered + 1 /\ job' = registered' /\ todo' = links
     \/ job = 0 /\ registered = MaxJobs /\ UNCHANGED <<registered, job, todo>>
  /\ UNCHANGED <<memory, disk, call, calls, schema_lock, migrated, ghosts, trouble, panicked>>

RegisterDrop ==
  /\ reg = "drop" /\ reg' = "unlock" /\ DropEntry(Scheduler)
  /\ UNCHANGED <<memory, disk, call, calls, registered, job, todo, migrated, ghosts, trouble>>

RegisterUnlock ==
  /\ reg = "unlock" /\ reg' = "idle" /\ DropGuard(Scheduler)
  /\ UNCHANGED <<memory, disk, call, calls, registered, job, todo, migrated, ghosts, trouble, panicked>>

\* The tasks, each of which loads its database; then the schema; then the job is done.
RunTask(d) ==
  /\ job # 0 /\ d \in todo /\ Load(d, {job})
  /\ todo' = todo \ {d}
  /\ UNCHANGED <<configs, queue, store, rows, links, call, calls, schema_lock, reg, registered, job, migrated,
                 ghosts, trouble, panicked>>

MigrateSchema ==
  /\ job # 0 /\ todo = {} /\ ~migrated
  /\ migrated' = TRUE
  /\ content' = [content EXCEPT ![Schema] = @ \cup {job}]
  /\ raced' = raced \cup (files \ links)
  /\ UNCHANGED <<memory, rows, links, files, call, calls, schema_lock, reg, registered, job, todo, acked, erased,
                 upset, trouble, panicked>>

FinishJob ==
  /\ migrated /\ job' = 0 /\ migrated' = FALSE
  /\ UNCHANGED <<memory, disk, call, calls, schema_lock, reg, registered, todo, ghosts, trouble, panicked>>

\* A dry run failed: nothing was migrated.
AbortJob ==
  /\ job # 0 /\ todo # {} /\ todo = links
  /\ job' = 0 /\ todo' = {}
  /\ UNCHANGED <<memory, disk, call, calls, schema_lock, reg, registered, migrated, ghosts, trouble, panicked>>

Migration ==
  \/ RegisterLocked \/ InsertJob \/ RegisterDrop \/ RegisterUnlock
  \/ MigrateSchema \/ FinishJob \/ AbortJob \/ \E d \in Dbs : RunTask(d)

-----------------------------------------------------------------------------
\* The process dies; MetaStoreInner::restore() reads the configurations.
Restart ==
  /\ Fault("crash")
  /\ configs' = rows /\ entry' = [d \in Dbs |-> "none"] /\ queue' = <<>> /\ store' = NoMsg
  /\ call' = [c \in Clients |-> Idle]
  /\ locks' = 0 /\ arc' = [p \in Procs |-> 0] /\ held' = [p \in Procs |-> "no"]
  /\ reg' = "idle" /\ upset' = {}
  /\ UNCHANGED <<disk, calls, registered, job, todo, migrated, acked, raced, erased, panicked>>

System == Store \/ Migration \/ \E c \in Clients : Request(c)

Next ==
  \/ System \/ RegisterJob \/ Restart
  \/ \E d \in Dbs : Evict(d)
  \/ \E c \in Clients :
       \/ Cancel(c)
       \/ \E d \in Dbs :
            \/ Create(c, d) \/ Destroy(c, d)
            \/ \E v \in Settings : PostConfig(c, d, v)

Spec == Init /\ [][Next]_vars
\* The runtime goes on running tasks that can run.
LiveSpec == Spec /\ WF_vars(System)
-----------------------------------------------------------------------------
(* Properties.                                                             *)

Config == {"absent", "default"} \cup Settings
Message == [client : Clients \cup {Nobody}, db : Dbs, config : Settings \cup {"none"}, flush : BOOLEAN]

\* Every variable is what its comment says; no more messages wait than requests were made.
TypeOK ==
  /\ configs \in [Dbs -> Config] /\ rows \in [Dbs -> Config]
  /\ links \subseteq Dbs /\ files \subseteq Dbs
  /\ entry \in [Dbs -> {"none", "empty", "full"}]
  /\ content \in [Dbs \cup {Schema} -> SUBSET Jobs]
  /\ queue \in Seq(Message) /\ Len(queue) <= calls
  /\ store \in {NoMsg} \cup [msg : Message, ok : BOOLEAN, pc : {"write", "update", "flush", "flush_conn"}]
  /\ \A c \in Clients : call[c] = Idle \/
       call[c] \in [op : {"create", "destroy", "post"}, db : Dbs,
                   pc : {"lock", "handle", "copy", "remove_conn", "remove_configs", "cleanup", "drop", "unlock"}
                        \cup Waiting,
                   reply : {"none", "ok", "err"}]
  /\ locks \in LockIds \cup {0} /\ arc \in [Procs -> LockIds \cup {0}]
  /\ held \in [Procs -> {"no", "shared", "excl"}]
  /\ reg \in {"idle", "lock", "insert", "drop", "unlock"} /\ registered \in 0..MaxJobs
  /\ job \in {0, registered} /\ todo \subseteq Dbs /\ migrated \in BOOLEAN
  /\ acked \subseteq Dbs /\ raced \subseteq Dbs /\ erased \subseteq Dbs /\ upset \subseteq Dbs
  /\ trouble \subseteq FaultKinds /\ panicked \in BOOLEAN

\* While a migration is registered no create() makes a database of the schema: the lock that a
\* creation has and the one of register_migration_job() are one lock, though its entry comes
\* and goes with its holders, and the unreachable!() of its drop is not reached.
SchemaLockExcludes ==
  LET using(p) == held[p] # "no" /\ IF p = Scheduler THEN reg # "unlock" ELSE call[p].pc # "unlock" IN
  /\ ~panicked
  /\ \A p, q \in Procs : using(p) /\ using(q) /\ p # q => held[p] = "shared" /\ held[q] = "shared"

\* When no job is pending a linked database has exactly the migrations of its schema, whatever
\* was migrated, and whatever other database was created or removed, at the same time; not one
\* whose creation overlapped the end of a migration (raced), which the flush of fork() cannot
\* tell from one that did not, and not one that the creation of an existing, unloaded database
\* has removed (erased).
LinkedMissesNothing ==
  \A d \in links \ (raced \cup erased) : job = 0 => content[d] = content[Schema]

\* A pending job has a task only for databases that are there, so that the load in the
\* scheduler's step_task() does not make an empty one: neither destroy() nor the Bomb of a
\* failed creation removes a database that a job counts on.  Excepted are a database that the
\* creation of an existing, unloaded one removed (erased) and one that is gone and that a change
\* given up has linked (raced).
TasksHaveDatabases ==
  job # 0 => todo \subseteq links \cap (files \cup erased \cup raced)

\* A database whose creation was answered with success is in the meta database, linked, and has
\* its directory, and a restart does not change that, until remove() takes it out of the meta
\* database: create() only answers when the flush has committed.  Two ways to lose it are
\* excepted, both of a second creation that finds the database unloaded, as every database is
\* after a restart: that creation fails on the directory and deletes it (erased), and then its
\* Bomb calls remove() as destroy() does.
AcknowledgedSurvives ==
  \A d \in acked \ erased : d \in links /\ d \in files /\ rows[d] \in Settings

\* When nothing is in progress on a database, memory and disk agree on it, and a loaded one has a
\* configuration; after a change that failed or was given up (upset) they may not until the next
\* restart.  Requests on one database follow each other here (Start).
MemoryMatchesDisk ==
  \A d \in Dbs \ upset :
    store = NoMsg /\ queue = <<>> /\ (\A c \in Clients : call[c].db # d) =>
      /\ configs[d] = rows[d] /\ (d \in links <=> rows[d] \in Settings)
      /\ entry[d] = "full" => configs[d] # "absent"

\* A flush has configs and wants conn, remove() has conn and wants configs.
Deadlocked ==
  store.pc = "flush_conn" /\ \E c \in Clients : call[c].pc = "remove_configs"

\* Every request and every registration of a job ends, unless process() and remove() have come
\* to wait for each other: no other way to wait for ever is in the locks.
CallsEnd ==
  []<>(Deadlocked \/ (reg = "idle" /\ \A c \in Clients : call[c] = Idle))

=============================================================================
