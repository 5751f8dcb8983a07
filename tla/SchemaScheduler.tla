-------------------------- MODULE SchemaScheduler --------------------------
(***************************************************************************)
(* The migration scheduler of shared-schema databases                      *)
(* (libsql-server/src/schema): the job and task tables of the meta store,  *)
(* the task table each linked database keeps for itself, the scheduler     *)
(* loop with its current job, its batch and its has_work flag, the workers *)
(* it spawns, the block_writes flag, and the clients that write to linked  *)
(* databases or wait for a migration.                                      *)
(*                                                                         *)
(* A branch of the select! in Scheduler::step runs to its end before the   *)
(* next one starts, so a branch is one action; the workers are tasks of    *)
(* their own and interleave with it.  A migration is a job id; whether it  *)
(* applies to a database is the bit fits[n], which client writes change.   *)
(*                                                                         *)
(* What goes wrong is named by what it does: "io" is answered by a retry   *)
(* (a connection, a backup) or by a failed dry run, "lost" leaves a task   *)
(* in enqueued_tasks (a namespace that is not loaded, a status that is not *)
(* written), "message" is a request that lowers has_work, "unblocked" a    *)
(* statement that passes block_writes, "sql" a run that fails on data that *)
(* the dry run accepted, "schema" a migration that the schema itself does  *)
(* not get, "lag" a client too slow for the broadcast, "crash" a restart.  *)
(***************************************************************************)
EXTENDS Integers, Sequences, FiniteSets, FiniteSetsExt

CONSTANTS
  Schemas,        \* shared-schema databases
  Linked,         \* Linked[s]: the databases whose shared_schema_name is s
  Busy,           \* the linked databases that clients write to
  MaxJobs,        \* bound on registered jobs
  MaxConcurrent,  \* MAX_CONCURRENT, the permits of the worker pool
  MaxBatch,       \* MAX_BATCH_SIZE
  FaultKinds,     \* the faults that may happen, each at most once, ...
  MaxFaults       \* ... this many in all (fewer than MAX_ERROR_RETRIES)

Namespaces == UNION {Linked[s] : s \in Schemas}
JobIds == 1..MaxJobs
Permits == 1..MaxConcurrent
Usize == 64       \* the counters of a job are usize: they wrap in a release build
TaskStatus == {"Enqueued", "DryRunSuccess", "DryRunFailure", "Run", "Success", "Failure"}
FinishedTask == {"Success", "Failure"}
FinishedJob == {"RunSuccess", "RunFailure"}
JobStatus == {"WaitingDryRun", "DryRunSuccess", "DryRunFailure", "WaitingRun"} \cup FinishedJob

ASSUME SchedulerAssumption ==
  /\ MaxConcurrent \in Nat \ {0} /\ MaxBatch \in Nat \ {0} /\ MaxFaults \in 0..9 /\ Busy \subseteq Namespaces
  /\ \A s, t \in Schemas : s # t => Linked[s] \cap Linked[t] = {}

VARIABLES
  jobs,       \* meta store: table jobs, a sequence of [schema, status, error]
  tasks,      \* meta store: table pending_tasks, tasks[j][n] is a status
  enqueued,   \* the TEMPORARY table enqueued_tasks of the scheduler's connection
  rows,       \* rows[n][j]: n's own sqlite3_libsql_tasks, "none" when absent
  applied,    \* applied[d][j]: times job j was committed in database d
  version,    \* version[s]: PRAGMA schema_version of the schema database
  fits,       \* fits[n]: n's data is such that a migration goes through
  block,      \* block[n]: the AtomicBool block_writes
  wtx,        \* wtx[n]: a client's write transaction on n
  job,        \* current_job, or NoJob
  batch,      \* current_batch: tasks [job, ns, status]
  has_work,
  pool,       \* pool[i]: the worker that holds the i-th permit, or Idle
  results,    \* the finished workers of the JoinSet, in the order they finished
  client,     \* client[j]: the request that registered j
  trouble,    \* the faults that happened
  panicked    \* the scheduler task panicked

meta == <<jobs, tasks>>
dbs == <<rows, applied, version, fits>>
sched == <<job, batch, has_work>>
vars == <<meta, enqueued, dbs, block, wtx, sched, pool, results, client, trouble, panicked>>

NoJob == [id |-> 0]
Idle == [pc |-> "idle"]

Init ==
  /\ jobs = <<>> /\ tasks = <<>> /\ enqueued = {}
  /\ rows = [n \in Namespaces |-> [j \in JobIds |-> "none"]]
  /\ applied = [d \in Namespaces \cup Schemas |-> [j \in JobIds |-> 0]]
  /\ version = [s \in Schemas |-> 0]
  /\ fits \in [Namespaces -> BOOLEAN]
  /\ block = [n \in Namespaces |-> FALSE] /\ wtx = [n \in Namespaces |-> "none"]
  /\ job = NoJob /\ batch = {} /\ has_work = TRUE
  /\ pool = [i \in Permits |-> Idle] /\ results = <<>>
  /\ client = [j \in JobIds |-> "none"]
  /\ trouble = {} /\ panicked = FALSE

-----------------------------------------------------------------------------
(* Faults and bookkeeping.                                                 *)

\* Each kind of fault happens in at most one step, MaxFaults of them in all.
Faults(kinds) ==
  /\ kinds \subseteq FaultKinds \ trouble
  /\ trouble' = trouble \cup kinds /\ Cardinality(trouble') <= MaxFaults

Fault(kind) == Faults({kind})

\* Permits taken: a worker drops its own as it finishes, before join_next returns it.
InFlight == Cardinality({i \in Permits : pool[i] # Idle})

Spawn(w) == pool' = [pool EXCEPT ![Min({i \in Permits : pool[i] = Idle})] = w]

Unfinished == {j \in DOMAIN jobs : jobs[j].status \notin FinishedJob}

\* How many tasks of job j are in each status.
Progress(j) == [s \in TaskStatus |-> Cardinality({n \in DOMAIN tasks[j] : tasks[j][n] = s})]

ProgressAll(p, s) == \A t \in TaskStatus \ {s} : p[t] = 0

StatusFromProgress(p) ==
  CASE p["DryRunFailure"] # 0 -> "DryRunFailure"
    [] p["DryRunFailure"] = 0 /\ p["Failure"] # 0 -> "RunFailure"
    [] p["DryRunFailure"] + p["Failure"] = 0 /\ p["Enqueued"] # 0 -> "WaitingDryRun"
    [] p["DryRunFailure"] + p["Failure"] + p["Enqueued"] = 0
       /\ p["DryRunSuccess"] + p["Run"] # 0 -> "WaitingRun"
    [] ProgressAll(p, "Success") /\ p["Success"] # 0 -> "RunSuccess"
    [] OTHER -> "WaitingDryRun"

\* get_next_pending_migration_job: the status is the one the tasks tell, not the stored one.
GetNextPendingMigrationJob ==
  LET j == Min(Unfinished)
  IN  [id |-> j, status |-> StatusFromProgress(Progress(j)), progress |-> Progress(j),
       error |-> FALSE]

CountPendingTasks(b) ==
  CASE b.status = "WaitingDryRun" -> b.progress["Enqueued"]
    [] b.status = "WaitingRun" -> b.progress["DryRunSuccess"] + b.progress["Run"]
    [] b.status = "DryRunFailure" ->
         MapThenSumSet(LAMBDA s : b.progress[s], TaskStatus \ {"Failure"}) % Usize
    [] OTHER -> 0

-----------------------------------------------------------------------------
(* Requests.                                                               *)

\* handle_msg(ScheduleMigration): a schema has at most one unfinished job, and the flag is
\* set to whether no job is current.
ScheduleMigration(s) ==
  /\ ~panicked /\ Len(jobs) < MaxJobs
  /\ IF \E j \in Unfinished : jobs[j].schema = s
       THEN UNCHANGED <<meta, client>>
       ELSE /\ jobs' = Append(jobs, [schema |-> s, status |-> "WaitingDryRun", error |-> FALSE])
            /\ tasks' = Append(tasks, [n \in Linked[s] |-> "Enqueued"])
            /\ client' = [client EXCEPT ![Len(jobs) + 1] = "waiting"]
  /\ has_work' = (job = NoJob)
  /\ IF has_work /\ job # NoJob THEN Fault("message") ELSE UNCHANGED trouble
  /\ UNCHANGED <<enqueued, dbs, block, wtx, job, batch, pool, results, panicked>>

\* wait_for() ends early: the receiver lags behind the broadcast, which recv() says with an error.
Lagged(j) ==
  /\ client[j] = "waiting" /\ Fault("lag")
  /\ client' = [client EXCEPT ![j] = "woken"]
  /\ UNCHANGED <<meta, enqueued, dbs, block, wtx, sched, pool, results, panicked>>

\* The waiting request, woken, asks for the job's status; any but a failure is a success.
GetJobStatus(j) ==
  /\ ~panicked /\ client[j] = "woken"
  /\ client' = [client EXCEPT ![j] =
       IF jobs[j].status \in {"DryRunFailure", "RunFailure"} /\ jobs[j].error
       THEN "failed" ELSE "ok"]
  /\ UNCHANGED <<meta, enqueued, dbs, block, wtx, sched, pool, results, trouble, panicked>>

-----------------------------------------------------------------------------
(* Scheduler::enqueue_work, with a free permit.                            *)

CurrentJob == IF job # NoJob THEN job ELSE GetNextPendingMigrationJob

\* What maybe_step_job finds: a transition to spawn, a panic, nothing but to wait, or
\* tasks to enqueue.
JobTransition(b) ==
  LET p == b.progress IN
  CASE b.status = "WaitingDryRun" /\ p["DryRunFailure"] # 0 ->
         IF b.error THEN "dry_run_failure" ELSE "panic"
    [] b.status = "WaitingDryRun" /\ ProgressAll(p, "DryRunSuccess") -> "dry_run_success"
    [] b.status = "DryRunSuccess" -> "waiting_run"
    [] b.status = "DryRunFailure" /\ ProgressAll(p, "Failure") -> "failure"
    [] b.status = "WaitingRun" /\ p["Failure"] # 0 -> "panic"
    [] b.status = "WaitingRun" /\ ProgressAll(p, "Success") -> "run_success"
    [] b.status = "WaitingTransition" -> "wait"
    [] b.status \in FinishedJob -> "panic"
    [] OTHER -> "tasks"

\* No job left: wait for the next message.
NothingPending ==
  /\ job = NoJob /\ Unfinished = {}
  /\ has_work' = FALSE
  /\ UNCHANGED <<meta, enqueued, dbs, block, wtx, job, batch, pool, results, client, trouble, panicked>>

StepJob(b) ==
  LET t == JobTransition(b) IN
  /\ t \notin {"tasks", "panic"}
  /\ IF t = "wait"
       THEN job' = b /\ UNCHANGED pool
       ELSE /\ job' = [b EXCEPT !.status = "WaitingTransition"]
            /\ Spawn([pc |-> IF t = "run_success" THEN "migrate" ELSE "update", step |-> t])
  /\ has_work' = FALSE
  /\ UNCHANGED <<meta, enqueued, dbs, block, wtx, batch, results, client, trouble, panicked>>

\* expect(), unreachable!() or todo!() in maybe_step_job.
Panic(b) ==
  /\ JobTransition(b) = "panic"
  /\ panicked' = TRUE /\ job' = b
  /\ UNCHANGED <<meta, enqueued, dbs, block, wtx, batch, has_work, pool, results, client, trouble>>

\* The batches enqueue_task may fetch for job b; a fetched task is in enqueued_tasks until
\* its status is updated.
Batches(b) ==
  LET wanted == CASE b.status = "WaitingDryRun" -> {"Enqueued"}
                  [] b.status = "WaitingRun" -> {"DryRunSuccess"}
                  [] b.status = "DryRunFailure" -> TaskStatus \ FinishedTask
      found == {n \in DOMAIN tasks[b.id] :
                  tasks[b.id][n] \in wanted /\ <<b.id, n>> \notin enqueued}
  IN  {{[job |-> b.id, ns |-> n, status |-> tasks[b.id][n]] : n \in chosen} :
         chosen \in kSubset(Min({MaxBatch, Cardinality(found)}), found)}

EnqueueTask(b) ==
  /\ JobTransition(b) = "tasks"
  /\ job' = b
  /\ \E fetched \in IF batch = {} THEN Batches(b) ELSE {{}} :
       LET ready == batch \cup fetched IN
       /\ enqueued' = enqueued \cup {<<t.job, t.ns>> : t \in fetched}
       /\ \/ /\ ready = {} /\ batch' = {} /\ has_work' = FALSE
             /\ UNCHANGED <<block, pool, trouble>>
          \/ \E t \in ready :
               /\ batch' = ready \ {t}
               /\ UNCHANGED has_work
               /\ \/ /\ block' = [block EXCEPT ![t.ns] = @ \/ t.status = "Enqueued"]
                     /\ Spawn([pc |-> "connect", task |-> t, during |-> b.status,
                               new |-> t.status, error |-> FALSE])
                     /\ UNCHANGED trouble
                  \/ Fault("lost") /\ UNCHANGED <<block, pool>>
  /\ UNCHANGED <<meta, dbs, wtx, results, client, panicked>>

EnqueueWork ==
  /\ ~panicked /\ has_work /\ InFlight < MaxConcurrent
  /\ \/ NothingPending
     \/ /\ job # NoJob \/ Unfinished # {}
        /\ \/ StepJob(CurrentJob) \/ Panic(CurrentJob) \/ EnqueueTask(CurrentJob)

-----------------------------------------------------------------------------
(* try_step_task, on a worker.                                             *)

\* Connect and, before a dry run, hold a BEGIN IMMEDIATE once, so that no write
\* transaction that began before block_writes is still open.  A failure is reported with
\* the old status: the task is rescheduled.
TaskConnect(i) ==
  LET w == pool[i] IN
  /\ w.pc = "connect"
  /\ \/ /\ w.task.status = "Enqueued" => wtx[w.task.ns] # "open"
        /\ pool' = [pool EXCEPT ![i].pc = "step"]
        /\ UNCHANGED trouble
     \/ Fault("io") /\ pool' = [pool EXCEPT ![i].pc = "report"]
  /\ UNCHANGED <<meta, enqueued, dbs, block, wtx, sched, results, client, panicked>>

\* Mutant: the row is written without regard to what an earlier attempt left.
PreparedRowAfresh(w, row) ==
  IF w.during = "DryRunFailure" THEN "Failure"
  ELSE IF w.task.status = "Enqueued" THEN "Enqueued" ELSE "Run"

\* The row of the task before step_task looks at it.
PreparedRow(w, row) ==
  IF w.during = "DryRunFailure" THEN "Failure"                       \* INSERT OR REPLACE
  ELSE IF w.task.status = "Enqueued" THEN (IF row = "none" THEN "Enqueued" ELSE row)
  ELSE IF row = "DryRunSuccess" THEN "Run" ELSE row

\* step_task: a dry run, the migration itself, or the outcome of an earlier attempt.
SteppedRow(row, ok) ==
  CASE row = "Enqueued" -> IF ok THEN "DryRunSuccess" ELSE "DryRunFailure"
    [] row = "Run" -> IF ok THEN "Success" ELSE "Failure"
    [] OTHER -> row

\* Mutant: writes are allowed again after a success only.
UnblocksSuccess(status) == status = "Success"

\* is_finished(): the step that ends a task clears block_writes.
Unblocks(status) == status \in FinishedTask

\* The unreachable!() of try_step_task_inner; the JoinError is a todo!() of the scheduler.
Unexpected(w) ==
  /\ w.during # "DryRunFailure" /\ w.task.status # "Enqueued"
  /\ ~(w.task.status = "DryRunSuccess" /\ w.during = "WaitingRun")

\* The transaction on the linked database, then its backup.  perform_migration() fails on data
\* that does not fit and for any other reason; when only the backup fails, the old status is
\* reported although the transaction is committed.
TaskStep(i) ==
  LET w == pool[i]
      n == w.task.ns
      j == w.task.job
      prepared == PreparedRow(w, rows[n][j])
  IN
  /\ w.pc = "step" /\ wtx[n] # "open"
  /\ \E ok, saved \in BOOLEAN :
       LET new == SteppedRow(prepared, ok)
           failed == new \in {"DryRunFailure", "Failure"}
       IN
       /\ ok # fits[n] => fits[n] /\ prepared \in {"Enqueued", "Run"}
       /\ Faults((IF ok = fits[n] THEN {} ELSE {IF prepared = "Run" THEN "sql" ELSE "io"})
                   \cup (IF saved THEN {} ELSE {"io"}))
       /\ rows' = [rows EXCEPT ![n][j] = new]
       /\ applied' = [applied EXCEPT ![n][j] = @ + IF prepared = "Run" /\ ok THEN 1 ELSE 0]
       /\ block' = [block EXCEPT ![n] = @ /\ ~Unblocks(new)]
       /\ pool' = [pool EXCEPT ![i] = IF saved THEN [w EXCEPT !.pc = "report", !.new = new, !.error = failed]
                                      ELSE [w EXCEPT !.pc = "report"]]
  /\ panicked' = (panicked \/ Unexpected(w))
  /\ UNCHANGED <<meta, enqueued, version, fits, wtx, sched, results, client>>

\* update_meta_task_status, whose trigger takes the task out of enqueued_tasks.
TaskReport(i) ==
  LET w == pool[i]
      t == w.task
  IN
  /\ w.pc = "report"
  /\ \/ /\ tasks' = [tasks EXCEPT ![t.job][t.ns] = w.new]
        /\ enqueued' = enqueued \ {<<t.job, t.ns>>}
        /\ pool' = [pool EXCEPT ![i].pc = "exit"]
        /\ UNCHANGED trouble
     \/ /\ Fault("lost")
        /\ pool' = [pool EXCEPT ![i].pc = "exit", ![i].new = t.status]
        /\ UNCHANGED <<tasks, enqueued>>
  /\ UNCHANGED <<jobs, dbs, block, wtx, sched, results, client, panicked>>

\* The worker returns its WorkResult; only now is the permit free.
Finish(i, w) == pool' = [pool EXCEPT ![i] = Idle] /\ results' = Append(results, w)

TaskExit(i) ==
  /\ pool[i].pc = "exit" /\ Finish(i, pool[i])
  /\ UNCHANGED <<meta, enqueued, dbs, block, wtx, sched, client, trouble, panicked>>

\* Mutant: the task is counted in its new status and still in its old one.
TaskDoneCountsTwice ==
  LET w == Head(results)
      moved == [job.progress EXCEPT ![w.new] = (@ + 1) % Usize]
      b == [job EXCEPT !.progress = moved, !.error = @ \/ w.error]
      pending == CountPendingTasks(b)
  IN
  /\ ~panicked /\ results # <<>> /\ w.pc = "exit"
  /\ results' = Tail(results)
  /\ IF job = NoJob
       THEN panicked' = TRUE /\ UNCHANGED <<job, has_work>>
       ELSE /\ job' = b
            /\ has_work' = (batch # {} \/ (pending = 0 /\ InFlight = 0) \/ pending > InFlight)
            /\ UNCHANGED panicked
  /\ UNCHANGED <<meta, enqueued, dbs, block, wtx, batch, pool, client, trouble>>

\* Mutant: the error is not kept.
TaskDoneNoError ==
  LET w == Head(results)
      moved == [[job.progress EXCEPT ![w.task.status] = (@ - 1) % Usize]
                   EXCEPT ![w.new] = (@ + 1) % Usize]
      b == [job EXCEPT !.progress = moved]
      pending == CountPendingTasks(b)
  IN
  /\ ~panicked /\ results # <<>> /\ w.pc = "exit"
  /\ results' = Tail(results)
  /\ IF job = NoJob
       THEN panicked' = TRUE /\ UNCHANGED <<job, has_work>>
       ELSE /\ job' = b
            /\ has_work' = (batch # {} \/ (pending = 0 /\ InFlight = 0) \/ pending > InFlight)
            /\ UNCHANGED panicked
  /\ UNCHANGED <<meta, enqueued, dbs, block, wtx, batch, pool, client, trouble>>

\* Mutant: there is only work while tasks are pending.
TaskDoneSleeps ==
  LET w == Head(results)
      moved == [[job.progress EXCEPT ![w.task.status] = (@ - 1) % Usize]
                   EXCEPT ![w.new] = (@ + 1) % Usize]
      b == [job EXCEPT !.progress = moved, !.error = @ \/ w.error]
      pending == CountPendingTasks(b)
  IN
  /\ ~panicked /\ results # <<>> /\ w.pc = "exit"
  /\ results' = Tail(results)
  /\ IF job = NoJob
       THEN panicked' = TRUE /\ UNCHANGED <<job, has_work>>
       ELSE /\ job' = b
            /\ has_work' = (batch # {} \/ pending > InFlight)
            /\ UNCHANGED panicked
  /\ UNCHANGED <<meta, enqueued, dbs, block, wtx, batch, pool, client, trouble>>

\* WorkResult::Task in Scheduler::step.
TaskDone ==
  LET w == Head(results)
      moved == [[job.progress EXCEPT ![w.task.status] = (@ - 1) % Usize]
                   EXCEPT ![w.new] = (@ + 1) % Usize]
      b == [job EXCEPT !.progress = moved, !.error = @ \/ w.error]
      pending == CountPendingTasks(b)
  IN
  /\ ~panicked /\ results # <<>> /\ w.pc = "exit"
  /\ results' = Tail(results)
  /\ IF job = NoJob
       THEN panicked' = TRUE /\ UNCHANGED <<job, has_work>>
       ELSE /\ job' = b
            /\ has_work' = (batch # {} \/ (pending = 0 /\ InFlight = 0) \/ pending > InFlight)
            /\ UNCHANGED panicked
  /\ UNCHANGED <<meta, enqueued, dbs, block, wtx, batch, pool, client, trouble>>

-----------------------------------------------------------------------------
(* The step_job_* functions, on a worker.                                  *)

\* Where try_step_job falls back to, and where the step goes.
Fallback == [dry_run_failure |-> "WaitingDryRun", dry_run_success |-> "WaitingDryRun",
             waiting_run |-> "DryRunSuccess", failure |-> "DryRunFailure",
             run_success |-> "WaitingRun"]
Target == [dry_run_failure |-> "DryRunFailure", dry_run_success |-> "DryRunSuccess",
           waiting_run |-> "WaitingRun", failure |-> "RunFailure",
           run_success |-> "RunSuccess"]

JobResult(i, status) == Finish(i, [pc |-> "job", status |-> status])

\* step_job_run_success, on the schema database: schema_version = job_id is committed with the
\* migration, or without it, since the error of perform_migration() is dropped, and a
\* schema_version that happens to be job_id already skips it; then the schema is backed up.
JobMigrateSchema(i) ==
  LET s == jobs[job.id].schema IN
  /\ pool[i].pc = "migrate"
  /\ version' = [version EXCEPT ![s] = job.id]
  /\ \E ok, saved \in BOOLEAN :
       /\ version[s] = job.id => ok
       /\ Faults((IF ok THEN {} ELSE {"schema"}) \cup (IF saved THEN {} ELSE {"io"}))
       /\ applied' = [applied EXCEPT ![s][job.id] = @ + IF ok /\ version[s] # job.id THEN 1 ELSE 0]
       /\ IF saved THEN pool' = [pool EXCEPT ![i].pc = "update"] /\ UNCHANGED results
                   ELSE JobResult(i, "WaitingRun")
  /\ UNCHANGED <<meta, enqueued, rows, fits, block, wtx, sched, client, panicked>>

\* update_job_status or job_step_dry_run_success, then backup_meta_store.
JobUpdate(i) ==
  LET j == job.id
      step == pool[i].step
      refused == /\ step = "dry_run_success"
                 /\ \/ jobs[j].status \notin {"WaitingDryRun", "DryRunSuccess"}
                    \/ \E n \in DOMAIN tasks[j] : tasks[j][n] # "DryRunSuccess"
  IN
  /\ pool[i].pc = "update"
  /\ \/ /\ refused
        /\ JobResult(i, Fallback[step]) /\ UNCHANGED <<jobs, trouble>>
     \/ /\ ~refused
        /\ jobs' = [jobs EXCEPT ![j].status = Target[step],
                                ![j].error = @ \/ step = "dry_run_failure"]
        /\ \/ JobResult(i, Target[step]) /\ UNCHANGED trouble
           \/ Fault("io") /\ JobResult(i, Fallback[step])
  /\ UNCHANGED <<tasks, enqueued, dbs, block, wtx, sched, client, panicked>>

\* Mutant: the client is told of the dry run's success.
JobDoneEarly ==
  LET status == Head(results).status IN
  /\ ~panicked /\ results # <<>> /\ Head(results).pc = "job"
  /\ results' = Tail(results) /\ has_work' = TRUE
  /\ job' = IF status \in FinishedJob THEN NoJob ELSE [job EXCEPT !.status = status]
  /\ client' = [client EXCEPT ![job.id] =
       IF @ = "waiting" /\ status # "WaitingDryRun" THEN "woken" ELSE @]
  /\ UNCHANGED <<meta, enqueued, dbs, block, wtx, batch, pool, trouble, panicked>>

\* WorkResult::Job in Scheduler::step.
JobDone ==
  LET status == Head(results).status IN
  /\ ~panicked /\ results # <<>> /\ Head(results).pc = "job"
  /\ results' = Tail(results) /\ has_work' = TRUE
  /\ job' = IF status \in FinishedJob THEN NoJob ELSE [job EXCEPT !.status = status]
  /\ client' = [client EXCEPT ![job.id] =
       IF @ = "waiting" /\ status \in {"DryRunFailure"} \cup FinishedJob THEN "woken" ELSE @]
  /\ UNCHANGED <<meta, enqueued, dbs, block, wtx, batch, pool, trouble, panicked>>

-----------------------------------------------------------------------------
(* Clients of the linked databases, and the process.                       *)

\* Mutant: block_writes is not looked at.
BeginWriteUnchecked(n) ==
  /\ wtx[n] = "none"
  /\ \A i \in Permits : pool[i].pc = "step" => pool[i].task.ns # n
  /\ wtx' = [wtx EXCEPT ![n] = "open"]
  /\ UNCHANGED <<meta, enqueued, dbs, block, sched, pool, results, client, trouble, panicked>>

\* A statement that writes looks at block_writes and takes the write lock, which a worker whose
\* transaction has come to its turn in the write queue gets first.
BeginWrite(n) ==
  /\ wtx[n] = "none" /\ ~block[n]
  /\ \A i \in Permits : pool[i].pc = "step" => pool[i].task.ns # n
  /\ wtx' = [wtx EXCEPT ![n] = "open"]
  /\ UNCHANGED <<meta, enqueued, dbs, block, sched, pool, results, client, trouble, panicked>>

\* One that changes the schema does not, and a client with full access may run it.
BeginDdl(n) ==
  /\ wtx[n] = "none" /\ block[n] /\ Fault("unblocked")
  /\ wtx' = [wtx EXCEPT ![n] = "open"]
  /\ UNCHANGED <<meta, enqueued, dbs, block, sched, pool, results, client, panicked>>

\* The thread is preempted between the look and the lock ...
Preempted(n) ==
  /\ wtx[n] = "none" /\ ~block[n] /\ Fault("unblocked")
  /\ wtx' = [wtx EXCEPT ![n] = "checked"]
  /\ UNCHANGED <<meta, enqueued, dbs, block, sched, pool, results, client, panicked>>

\* ... and resumes.
Resumed(n) ==
  /\ wtx[n] = "checked"
  /\ wtx' = [wtx EXCEPT ![n] = "open"]
  /\ UNCHANGED <<meta, enqueued, dbs, block, sched, pool, results, client, trouble, panicked>>

\* COMMIT or ROLLBACK, which are never blocked.
EndWrite(n) ==
  /\ wtx[n] = "open"
  /\ wtx' = [wtx EXCEPT ![n] = "none"]
  /\ \E f \in BOOLEAN : fits' = [fits EXCEPT ![n] = f]
  /\ UNCHANGED <<meta, enqueued, rows, applied, version, block, sched, pool, results, client, trouble,
                 panicked>>

\* Mutant: a database is loaded with its writes allowed.
RestartUnblocked ==
  /\ Fault("crash")
  /\ enqueued' = {} /\ job' = NoJob /\ batch' = {} /\ has_work' = TRUE
  /\ pool' = [i \in Permits |-> Idle] /\ results' = <<>>
  /\ block' = [n \in Namespaces |-> FALSE]
  /\ wtx' = [n \in Namespaces |-> "none"]
  /\ client' = [j \in JobIds |-> IF client[j] \in {"waiting", "woken"} THEN "gone" ELSE client[j]]
  /\ panicked' = FALSE
  /\ UNCHANGED <<meta, dbs>>

\* The process dies and starts again.  A database is loaded before anyone can use it, and
\* then has its writes blocked when its own table has an unfinished task.
Restart ==
  /\ Fault("crash")
  /\ enqueued' = {} /\ job' = NoJob /\ batch' = {} /\ has_work' = TRUE
  /\ pool' = [i \in Permits |-> Idle] /\ results' = <<>>
  /\ block' = [n \in Namespaces |->
       \E j \in JobIds : rows[n][j] \notin {"none"} \cup FinishedTask]
  /\ wtx' = [n \in Namespaces |-> "none"]
  /\ client' = [j \in JobIds |-> IF client[j] \in {"waiting", "woken"} THEN "gone" ELSE client[j]]
  /\ panicked' = FALSE
  /\ UNCHANGED <<meta, dbs>>

-----------------------------------------------------------------------------
Worker(i) ==
  \/ TaskConnect(i) \/ TaskStep(i) \/ TaskReport(i) \/ TaskExit(i)
  \/ JobMigrateSchema(i) \/ JobUpdate(i)

\* The scheduler and its workers together.
System == EnqueueWork \/ TaskDone \/ JobDone \/ \E i \in Permits : Worker(i)

Next ==
  \/ System
  \/ \E n \in Busy : BeginWrite(n) \/ BeginDdl(n) \/ Preempted(n) \/ Resumed(n) \/ EndWrite(n)
  \/ \E s \in Schemas : ScheduleMigration(s)
  \/ \E j \in JobIds : Lagged(j) \/ GetJobStatus(j)
  \/ Restart

Spec == Init /\ [][Next]_vars

\* The runtime does not stop while the scheduler or a worker can go on, and a client's
\* transaction ends (it has a timeout).  Requests and faults need not happen.
Fairness == WF_vars(System) /\ \A n \in Busy : WF_vars(EndWrite(n))

LiveSpec == Spec /\ Fairness

-----------------------------------------------------------------------------
(* Properties.                                                             *)

TypeOK ==
  /\ Len(jobs) <= MaxJobs /\ Len(tasks) = Len(jobs)
  /\ \A j \in DOMAIN jobs :
       /\ jobs[j] \in [schema : Schemas, status : JobStatus, error : BOOLEAN]
       /\ tasks[j] \in [Linked[jobs[j].schema] -> TaskStatus \ {"Run"}]
  /\ enqueued \subseteq JobIds \X Namespaces
  /\ rows \in [Namespaces -> [JobIds -> {"none"} \cup TaskStatus]]
  /\ version \in [Schemas -> 0..MaxJobs]
  /\ fits \in [Namespaces -> BOOLEAN] /\ block \in [Namespaces -> BOOLEAN]
  /\ wtx \in [Namespaces -> {"none", "checked", "open"}]
  /\ has_work \in BOOLEAN /\ panicked \in BOOLEAN /\ trouble \subseteq FaultKinds
  /\ job # NoJob => /\ job.id \in DOMAIN jobs
                     /\ job.progress \in [TaskStatus -> 0..Usize - 1]

\* schema/mod.rs: a migration "is executed exactly one on every database" linked to the
\* schema: never twice on any database, whatever is retried; when the job is RunSuccess,
\* once on every linked database, and on the schema; when it is RunFailure, on none.  The
\* schema is excepted from the second when its migration failed, which step_job_run_success()
\* does not notice, or was skipped.
ExactlyOnce ==
  \A j \in DOMAIN jobs :
    LET touched == Linked[jobs[j].schema] \cup {jobs[j].schema} IN
    \A d \in touched :
      /\ applied[d][j] <= 1
      /\ jobs[j].status = "RunSuccess" => applied[d][j] = 1 \/ (d \in Schemas /\ "schema" \in trouble)
      /\ jobs[j].status = "RunFailure" => applied[d][j] = 0

\* No job is half applied for good: once one database has run the migration, no database
\* linked to the same schema has failed or aborted it, whatever dry run fails, whatever is
\* retried and whenever the process dies.  Excepted is what happens after a dry run succeeded:
\* a run that fails on the same data (sql), and a statement that changes the data in spite of
\* block_writes, a DDL statement or one whose thread was preempted between its look at
\* block_writes and the write lock (unblocked).
NeverTorn ==
  \A j \in DOMAIN jobs : \A n, m \in Linked[jobs[j].schema] :
    rows[n][j] = "Success" /\ rows[m][j] \in {"DryRunFailure", "Failure"}
      => trouble \cap {"sql", "unblocked"} # {}

\* From the dry run that succeeded until the task is finished, across retries and restarts,
\* block_writes is set.  (What passes it all the same is named at NeverTorn.)
WritesStayBlocked ==
  \A n \in Namespaces, j \in JobIds : rows[n][j] \in {"Enqueued", "DryRunSuccess", "Run"} => block[n]

\* And they do not stay blocked: when no task is left and no worker runs, none is.
WritesUnblocked ==
  InFlight = 0
    /\ (\A j \in DOMAIN tasks : \A n \in DOMAIN tasks[j] : tasks[j][n] \in FinishedTask)
  => \A n \in Namespaces : ~block[n]

\* The counters of the current job, on which every transition is decided, differ from the
\* task table by exactly the updates whose worker was not joined yet.
CountersAgree ==
  job # NoJob =>
    LET unjoined == {i \in Permits : pool[i].pc = "exit"}
        queued == {k \in DOMAIN results : results[k].pc = "exit"}
        Delta(w, s) == (IF w.task.status = s THEN 1 ELSE 0) - (IF w.new = s THEN 1 ELSE 0)
    IN \A s \in TaskStatus :
         job.progress[s] =
           (Progress(job.id)[s] + MapThenSumSet(LAMBDA i : Delta(pool[i], s), unjoined)
              + MapThenSumSet(LAMBDA k : Delta(results[k], s), queued)) % Usize

\* The expect(), unreachable!() and todo!() of the scheduler and of its tasks are never reached,
\* in a process that was not restarted in the middle of a job and in which no run fails after
\* its dry run (which leads to todo!()), on the same data or on data changed past the block.
NeverPanics == panicked => trouble \cap {"crash", "sql", "unblocked"} # {}

\* A request that answers success has a job that is RunSuccess, and its migration is on every
\* linked database (of the schema ExactlyOnce speaks).  Excepted is a client that lagged behind
\* the broadcast: its wait ends early, and any status but a failure is then a success.
AnswerIsTrue ==
  \A j \in JobIds : client[j] = "ok" /\ "lag" \notin trouble =>
    jobs[j].status = "RunSuccess" /\ \A n \in Linked[jobs[j].schema] : applied[n][j] = 1

\* Every job ends, even if connections, backups and dry runs fail on the way; not if the
\* namespace cannot be loaded or the task table not be updated (lost: the task then stays in
\* enqueued_tasks), nor if a message lowers has_work between two steps of the job, nor after
\* what leads to the panics above.
JobsFinish ==
  []<>(Unfinished = {} \/ trouble \cap {"lost", "message", "crash", "sql", "unblocked"} # {})
=============================================================================
