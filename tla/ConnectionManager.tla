------------------------- MODULE ConnectionManager -------------------------
(***************************************************************************)
(* The write-slot scheduler of sqld                                        *)
(* (libsql-server/src/connection/connection_manager.rs), together with the *)
(* part of CoreConnection that drives it (connection_core.rs): a           *)
(* connection is an Arc<Mutex<CoreConnection>>, one thread at a time runs  *)
(* a program step on it, and every write transaction and every checkpoint  *)
(* of the database has to own the single `current` slot first.             *)
(*                                                                         *)
(* Every critical section of the `current` mutex is one action; whatever   *)
(* the code does without that mutex (the inner WAL call, the lookup of an  *)
(* abort handle, locking the victim's connection, each steal of the queue  *)
(* drain) is an action of its own.  The thread of connection c is at       *)
(* program point pc[c].                                                    *)
(***************************************************************************)
EXTENDS Naturals, Sequences

CONSTANTS
  Conns,            \* connection ids (next_conn_id)
  None,             \* "no connection"
  CheckpointModes,  \* subset of {"passive", "restart"}: modes that are requested
  Slow,             \* connections that may keep the slot for TXN_TIMEOUT
  Silent,           \* connections whose client opens one transaction and then stays mute
  Leaving,          \* connections that may be dropped
  Refused,          \* connections to which the inner WAL may refuse a write transaction
  MaxQueue,         \* bound on the length of the write queue
  MaxRetries        \* bound on the calls the busy handler repeats in one step

ASSUME ConnsAssumption ==
  /\ None \notin Conns
  /\ CheckpointModes \subseteq {"passive", "restart"}
  /\ Slow \subseteq Conns /\ Silent \subseteq Conns
  /\ Leaving \subseteq Conns /\ Refused \subseteq Conns
  /\ MaxQueue \in Nat /\ MaxRetries \in Nat

VARIABLES
  current,         \* the slot: its owner (or None), its state and its age
  write_queue,     \* FIFO of waiting acquire() calls
  abort_handle,    \* ids with a registered abort handle
  wlock,           \* holder of SQLite's own WAL write lock (inner WAL)
  pc,              \* where each connection's thread is
  op,              \* what acquire() was called for
  enqueued,        \* acquire()'s local `enqueued`
  stale,           \* acquire()'s local sync_token differs from the shared one
  token,           \* the Parker of the running acquire() has been unparked
  target,          \* the connection an acquire() call decided to abort
  mutex,           \* holder of each connection's mutex
  forced_rollback, \* CoreConnection::forced_rollback
  retries,         \* calls repeated by the busy handler in the running step
  in_txn,          \* the client was told it is in a write transaction, and nothing since
  left,            \* entries the running queue drain still has to steal
  crashed          \* a panic crossed the extern "C" WAL callback: process abort

vars == <<current, write_queue, abort_handle, wlock, pc, op, enqueued, stale,
          token, target, mutex, forced_rollback, retries, in_txn, left, crashed>>

manager == <<abort_handle, wlock, left, crashed>>
locals  == <<op, enqueued, stale, token, target>>
conn    == <<mutex, forced_rollback, retries, in_txn>>

Entry == [id : Conns, live : BOOLEAN]

\* Slot::started_at is kept as an age: below acquire_timeout_duration, between the two
\* timeouts, or at least txn_timeout_duration old.
Ages == {"fresh", "grace", "timeout"}

\* SlotState; Acquired(WriteTxn) and Acquired(Checkpoint) by their SlotType.
SlotStates == {"Notified", "Acquiring", "WriteTxn", "Checkpoint", "Failure"}

\* current = None
FreeSlot == [id |-> None, state |-> "Notified", age |-> "fresh"]

Slot == [id : Conns, state : SlotStates, age : Ages]

\* Program points of a thread while it is inside acquire().
InAcquire == {"loop", "park", "parkd", "lookup", "lock", "abortrel"}

\* Program points from which release() is called, with the point that follows.
AfterRelease ==
  [release |-> "released", errrel |-> "failed", droprel |-> "close", closerel |-> "unreg"]

Points == InAcquire \cup DOMAIN AfterRelease \cup
  {"new", "idle", "step", "enter", "inner", "begun", "innerbusy", "failed", "open",
   "endread", "released", "done",
   "ckpt", "qlen", "drain", "ckptrun", "dropping", "close", "unreg", "closed"}

Init ==
  /\ current = FreeSlot
  /\ write_queue = <<>>
  /\ abort_handle = {}
  /\ wlock = None
  /\ pc = [c \in Conns |-> "new"]
  /\ op = [c \in Conns |-> "write"]
  /\ enqueued = [c \in Conns |-> FALSE]
  /\ stale = [c \in Conns |-> FALSE]
  /\ token = [c \in Conns |-> FALSE]
  /\ target = [c \in Conns |-> None]
  /\ mutex = [c \in Conns |-> None]
  /\ forced_rollback = [c \in Conns |-> FALSE]
  /\ retries = [c \in Conns |-> 0]
  /\ in_txn = [c \in Conns |-> FALSE]
  /\ left = 0
  /\ crashed = FALSE

Goto(c, p) == pc' = [pc EXCEPT ![c] = p]

(***************************************************************************)
(* schedule_next and release                                               *)
(***************************************************************************)
\* The slot is given to the head of a non-empty queue q.
NotifiedSlot(q) == [id |-> Head(q).id, state |-> "Notified", age |-> "fresh"]

UnparkedNobody(entry, t) == t

\* unpark() sets the token of the Parker the entry was pushed with; the Parker of a
\* finished acquire() call is gone and the unpark reaches nobody.
Unparked(entry, t) == IF entry.live THEN [t EXCEPT ![entry.id] = TRUE] ELSE t

ReleaseSchedulesNobody == current' = FreeSlot /\ UNCHANGED <<write_queue, token>>

\* release(): take the slot, hand it to the next waiter or leave it empty.
Release ==
  IF write_queue = <<>>
    THEN current' = FreeSlot /\ UNCHANGED <<write_queue, token>>
    ELSE /\ current' = NotifiedSlot(write_queue)
         /\ write_queue' = Tail(write_queue)
         /\ token' = Unparked(Head(write_queue), token)

\* release() called by the connection's own thread.  It asserts that the slot is its own.
DoRelease(c) ==
  /\ pc[c] \in DOMAIN AfterRelease
  /\ IF current.id = c
       THEN Release /\ Goto(c, AfterRelease[pc[c]]) /\ UNCHANGED crashed
       ELSE crashed' = TRUE /\ UNCHANGED <<current, write_queue, token, pc>>
  /\ UNCHANGED <<abort_handle, wlock, left, conn, op, enqueued, stale, target>>

(***************************************************************************)
(* acquire()                                                               *)
(***************************************************************************)
\* Entries pushed by c's acquire() call outlive the call if nobody stole them.
Abandon(c, q) ==
  [i \in DOMAIN q |-> IF q[i].id = c THEN [q[i] EXCEPT !.live = FALSE] ELSE q[i]]

\* The call of acquire(): a new Parker, and the sync token as of now.
LoadToken(c) ==
  /\ pc[c] = "enter"
  /\ Goto(c, "loop")
  /\ UNCHANGED <<current, write_queue, manager, conn, locals>>

OtherCheckpoint(c) == current.id \notin {c, None} /\ current.state = "Checkpoint"

\* The write queue after the loop's "if not us and not enqueued, then enqueue".
Enqueued(c) ==
  IF current.id # c /\ ~enqueued[c]
    THEN Append(write_queue, [id |-> c, live |-> TRUE])
    ELSE write_queue

\* acquire() leaves with the slot or with an error; its locals go out of scope.
LeaveAcquire(c, q) ==
  /\ write_queue' = Abandon(c, q)
  /\ enqueued' = [enqueued EXCEPT ![c] = FALSE]
  /\ token' = [token EXCEPT ![c] = FALSE]
  /\ stale' = [stale EXCEPT ![c] = FALSE]
  /\ target' = [target EXCEPT ![c] = None]

\* The sync token changed since the call: extended code 517, stale read.
AcquireStale(c) ==
  /\ pc[c] = "loop"
  /\ stale[c]
  /\ LeaveAcquire(c, write_queue)
  /\ Goto(c, "failed")
  /\ UNCHANGED <<current, manager, conn, op>>

\* Another connection is checkpointing: SQLITE_BUSY.
AcquireBusy(c) ==
  /\ pc[c] = "loop"
  /\ ~stale[c]
  /\ OtherCheckpoint(c)
  /\ LeaveAcquire(c, write_queue)
  /\ Goto(c, "failed")
  /\ UNCHANGED <<current, manager, conn, op>>

\* Neither early return applies (and the queue has room, which bounds the model only).
Contending(c) ==
  /\ pc[c] = "loop"
  /\ ~stale[c]
  /\ ~OtherCheckpoint(c)
  /\ Len(Enqueued(c)) <= MaxQueue

\* The slot is ours already.
AcquireOwn(c) ==
  /\ Contending(c)
  /\ current.id = c
  /\ current.state \in {"Notified", "Failure"}
  /\ current' = [current EXCEPT !.state = "Acquiring"]
  /\ LeaveAcquire(c, write_queue)
  /\ Goto(c, "inner")
  /\ UNCHANGED <<manager, conn, op>>

\* The owner's transaction is older than the timeout: enqueue, unlock, go and abort it.
AcquireSteal(c) ==
  /\ Contending(c)
  /\ current.id \notin {c, None}
  /\ current.state = "WriteTxn"
  /\ current.age = "timeout"
  /\ write_queue' = Enqueued(c)
  /\ enqueued' = [enqueued EXCEPT ![c] = TRUE]
  /\ target' = [target EXCEPT ![c] = current.id]
  /\ Goto(c, "lookup")
  /\ UNCHANGED <<current, manager, conn, op, stale, token>>

\* The owner still has time: park until its deadline.
AcquireWait(c) ==
  /\ Contending(c)
  /\ current.id \notin {c, None}
  /\ \/ current.state = "WriteTxn" /\ current.age # "timeout"
     \/ current.state \in {"Acquiring", "Notified"}
     \/ current.state = "Failure" /\ current.age = "fresh"
  /\ write_queue' = Enqueued(c)
  /\ enqueued' = [enqueued EXCEPT ![c] = TRUE]
  /\ Goto(c, "parkd")
  /\ UNCHANGED <<current, manager, conn, op, stale, token, target>>

\* schedule_next() from inside acquire(): the slot is free, or its owner failed to start
\* its transaction within the grace period.  The head of the queue is us or another.
AcquireSchedule(c) ==
  /\ Contending(c)
  /\ \/ current.id = None
     \/ current.id # c /\ current.state = "Failure" /\ current.age # "fresh"
  /\ Enqueued(c) # <<>>
  /\ LET q == Enqueued(c) IN
     IF Head(q).id = c
       THEN /\ current' = [NotifiedSlot(q) EXCEPT !.state = "Acquiring"]
            /\ LeaveAcquire(c, Tail(q))
            /\ Goto(c, "inner")
       ELSE /\ current' = NotifiedSlot(q)
            /\ write_queue' = Tail(q)
            /\ enqueued' = [enqueued EXCEPT ![c] = TRUE]
            /\ token' = Unparked(Head(q), token)
            /\ Goto(c, "park")
            /\ UNCHANGED <<stale, target>>
  /\ UNCHANGED <<manager, conn, op>>

\* park() and park_deadline() return when the Parker was unparked ...
Unpark(c) ==
  /\ pc[c] \in {"park", "parkd"}
  /\ token[c]
  /\ token' = [token EXCEPT ![c] = FALSE]
  /\ Goto(c, "loop")
  /\ UNCHANGED <<current, write_queue, manager, conn, op, enqueued, stale, target>>

\* ... park_deadline() also when its deadline has passed.  The deadline was computed from
\* the slot seen when parking, which may have changed hands since, so it can pass at any
\* age of the present slot; woken early the loop just parks again.
Deadline(c) ==
  /\ pc[c] = "parkd"
  /\ Goto(c, "loop")
  /\ UNCHANGED <<current, write_queue, manager, conn, locals>>

(***************************************************************************)
(* Forcing the rollback of a transaction that timed out                    *)
(***************************************************************************)
\* The Arc<Mutex<CoreConnection>> still has an owner, so Weak::upgrade succeeds.
Alive(c) == pc[c] \notin {"new", "dropping", "droprel", "close", "closerel", "unreg", "closed"}

\* abort_handle.get(&id).unwrap() and Weak::upgrade().expect(...): both panic when the
\* victim is gone.  On success the caller holds a strong reference to the victim.
AbortLookup(c) ==
  /\ pc[c] = "lookup"
  /\ IF target[c] \in abort_handle /\ Alive(target[c])
       THEN Goto(c, "lock") /\ UNCHANGED crashed
       ELSE crashed' = TRUE /\ UNCHANGED pc
  /\ UNCHANGED <<current, write_queue, abort_handle, wlock, left, conn, locals>>

\* lock() of the victim and force_rollback(): a flag that is still up from an earlier
\* rollback makes it a no-op, a victim without a write transaction is only flagged, and
\* otherwise ROLLBACK first ends the inner write transaction.
AbortLock(c) ==
  LET v == target[c] IN
  /\ pc[c] = "lock"
  /\ mutex[v] = None
  /\ IF ~forced_rollback[v] /\ wlock = v
       THEN /\ wlock' = None
            /\ mutex' = [mutex EXCEPT ![v] = c]
            /\ Goto(c, "abortrel")
            /\ UNCHANGED forced_rollback
       ELSE /\ forced_rollback' = [forced_rollback EXCEPT ![v] = TRUE]
            /\ Goto(c, "park")
            /\ UNCHANGED <<wlock, mutex>>
  /\ UNCHANGED <<current, write_queue, abort_handle, left, crashed, retries, in_txn, locals>>

AbortReleaseNoFlag(c) ==
  /\ pc[c] = "abortrel"
  /\ current.id = target[c]
  /\ Release
  /\ mutex' = [mutex EXCEPT ![target[c]] = None]
  /\ Goto(c, "park")
  /\ UNCHANGED <<manager, forced_rollback, retries, in_txn, op, enqueued, stale, target>>

\* ... and then end_write_txn() of the victim releases the slot.  The aborting call
\* parks without a deadline.
AbortRelease(c) ==
  LET v == target[c] IN
  /\ pc[c] = "abortrel"
  /\ current.id = v
  /\ Release
  /\ mutex' = [mutex EXCEPT ![v] = None]
  /\ forced_rollback' = [forced_rollback EXCEPT ![v] = TRUE]
  /\ Goto(c, "park")
  /\ UNCHANGED <<manager, retries, in_txn, op, enqueued, stale, target>>

(***************************************************************************)
(* A connection's life and its program steps                               *)
(***************************************************************************)
\* LegacyConnection::new: the connection is opened and then registered.
Open(c) ==
  /\ pc[c] = "new"
  /\ abort_handle' = abort_handle \cup {c}
  /\ Goto(c, "idle")
  /\ UNCHANGED <<current, write_queue, wlock, left, crashed, conn, locals>>

\* run() finds the flag up: the step is answered with LibSqlTxTimeout, the flag is reset.
StepTimedOut(c) ==
  /\ pc[c] = "idle"
  /\ mutex[c] = None
  /\ forced_rollback[c]
  /\ c \notin Silent
  /\ forced_rollback' = [forced_rollback EXCEPT ![c] = FALSE]
  /\ in_txn' = [in_txn EXCEPT ![c] = FALSE]
  /\ UNCHANGED <<current, write_queue, manager, pc, mutex, retries, locals>>

StepBeginIgnoresFlag(c) ==
  /\ pc[c] = "idle"
  /\ mutex[c] = None
  /\ c \in Silent => wlock # c
  /\ mutex' = [mutex EXCEPT ![c] = c]
  /\ Goto(c, "step")
  /\ UNCHANGED <<current, write_queue, manager, forced_rollback, retries, in_txn, locals>>

\* A step is run with the connection's mutex held.  (A statement inside an open
\* transaction that does not end it changes nothing here and is left out.)
StepBegin(c) ==
  /\ pc[c] = "idle"
  /\ mutex[c] = None
  /\ ~forced_rollback[c]
  /\ c \in Silent => wlock # c
  /\ mutex' = [mutex EXCEPT ![c] = c]
  /\ Goto(c, "step")
  /\ UNCHANGED <<current, write_queue, manager, forced_rollback, retries, in_txn, locals>>

\* The step is over: nothing to do for the manager, BEGIN IMMEDIATE, or all done.
StepEnd(c) ==
  /\ pc[c] \in {"step", "open", "released", "done"}
  /\ pc[c] = "step" => wlock # c
  /\ mutex' = [mutex EXCEPT ![c] = None]
  /\ op' = [op EXCEPT ![c] = "write"]
  /\ retries' = [retries EXCEPT ![c] = 0]
  /\ Goto(c, "idle")
  /\ UNCHANGED <<current, write_queue, manager, forced_rollback, in_txn,
                 enqueued, stale, token, target>>

\* The step upgrades to a write transaction, or checkpoints.
Call(c, what) ==
  /\ wlock # c
  /\ op' = [op EXCEPT ![c] = what]
  /\ Goto(c, "enter")
  /\ UNCHANGED <<current, write_queue, manager, conn, enqueued, stale, token, target>>

BeginWriteTxn(c) == pc[c] = "step" /\ Call(c, "write")

\* PRAGMA wal_checkpoint, or the automatic checkpoint after a commit.
BeginCheckpoint(c) ==
  /\ pc[c] = "step" \/ (pc[c] = "released" /\ op[c] = "write")
  /\ \E mode \in CheckpointModes : Call(c, mode)

\* wrapped.begin_write_txn(): it fails when somebody outside the manager holds the lock
\* or the read snapshot is too old (DatabaseBusy), or for another reason.
InnerOk(c) ==
  /\ pc[c] = "inner"
  /\ op[c] = "write"
  /\ wlock = None
  /\ wlock' = c
  /\ Goto(c, "begun")
  /\ UNCHANGED <<current, write_queue, abort_handle, left, crashed, conn, locals>>

InnerErr(c) ==
  /\ pc[c] = "inner"
  /\ c \in Refused
  /\ op[c] = "write"
  /\ \E p \in {"innerbusy", "errrel"} : Goto(c, p)
  /\ UNCHANGED <<current, write_queue, manager, conn, locals>>

\* state = s on whatever slot is current, after an unwrap(), and on to point p.
MarkSlot(c, s, p) ==
  /\ current.id # None
  /\ current' = [current EXCEPT !.state = s]
  /\ Goto(c, p)
  /\ UNCHANGED <<write_queue, manager, mutex, forced_rollback, retries, locals>>

MarkAcquired(c) ==
  /\ pc[c] = "begun"
  /\ MarkSlot(c, "WriteTxn", "open")
  /\ in_txn' = [in_txn EXCEPT ![c] = TRUE]

MarkFailure(c) == pc[c] = "innerbusy" /\ MarkSlot(c, "Failure", "failed") /\ UNCHANGED in_txn

MarkCheckpoint(c) ==
  /\ pc[c] = "inner"
  /\ op[c] # "write"
  /\ MarkSlot(c, "Checkpoint", "ckpt")
  /\ UNCHANGED in_txn

\* The error reaches SQLite, whose busy handler calls again for 100 ms and then gives up.
Retry(c) ==
  /\ pc[c] = "failed"
  /\ retries[c] < MaxRetries
  /\ retries' = [retries EXCEPT ![c] = retries[c] + 1]
  /\ Goto(c, "enter")
  /\ UNCHANGED <<current, write_queue, manager, mutex, forced_rollback, in_txn, locals>>

GiveUp(c) ==
  /\ pc[c] = "failed"
  /\ Goto(c, "done")
  /\ UNCHANGED <<current, write_queue, manager, conn, locals>>

\* COMMIT or ROLLBACK: end_write_txn().
EndWriteTxn(c) ==
  /\ pc[c] \in {"step", "open"}
  /\ wlock = c
  /\ c \notin Silent
  /\ wlock' = None
  /\ Goto(c, "release")
  /\ in_txn' = [in_txn EXCEPT ![c] = FALSE]
  /\ UNCHANGED <<current, write_queue, abort_handle, left, crashed, mutex, forced_rollback, retries, locals>>

EndReadTxnKeepsLock(c) ==
  /\ pc[c] \in {"step", "open"}
  /\ c \notin Silent
  /\ in_txn' = [in_txn EXCEPT ![c] = FALSE]
  /\ Goto(c, "endread")
  /\ UNCHANGED <<current, write_queue, manager, mutex, forced_rollback, retries, locals>>

\* end_read_txn() also gives up an inner write lock (wal.c); the slot is released in a
\* second critical section if it is ours and Acquired.
EndReadTxn(c) ==
  /\ pc[c] \in {"step", "open"}
  /\ c \notin Silent
  /\ wlock' = IF wlock = c THEN None ELSE wlock
  /\ Goto(c, "endread")
  /\ in_txn' = [in_txn EXCEPT ![c] = FALSE]
  /\ UNCHANGED <<current, write_queue, abort_handle, left, crashed, mutex, forced_rollback, retries, locals>>

EndReadCheckAnyState(c) ==
  /\ pc[c] = "endread"
  /\ Goto(c, IF current.id = c THEN "release" ELSE "done")
  /\ UNCHANGED <<current, write_queue, manager, conn, locals>>

EndReadCheck(c) ==
  /\ pc[c] = "endread"
  /\ IF current.id = c /\ current.state \in {"WriteTxn", "Checkpoint"}
       THEN Goto(c, "release")
       ELSE Goto(c, "done")
  /\ UNCHANGED <<current, write_queue, manager, conn, locals>>

(***************************************************************************)
(* checkpoint()                                                            *)
(***************************************************************************)
BumpTokenNot(c) ==
  /\ pc[c] = "ckpt"
  /\ Goto(c, "qlen")
  /\ UNCHANGED <<current, write_queue, manager, conn, locals>>

\* One call in ten is turned into TRUNCATE; from RESTART on the shared token is bumped,
\* which makes the token of every running acquire() a different one.
BumpToken(c) ==
  /\ pc[c] = "ckpt"
  /\ stale' = [d \in Conns |-> pc[d] \in InAcquire]
  /\ Goto(c, "qlen")
  /\ UNCHANGED <<current, write_queue, manager, conn, op, enqueued, token, target>>

\* Below RESTART the queue is left alone.
SkipSync(c) ==
  /\ pc[c] = "ckpt"
  /\ op[c] = "passive"
  /\ Goto(c, "ckptrun")
  /\ UNCHANGED <<current, write_queue, manager, conn, locals>>

QueueLenZero(c) ==
  /\ pc[c] = "qlen"
  /\ left' = 0
  /\ Goto(c, "drain")
  /\ UNCHANGED <<current, write_queue, abort_handle, wlock, crashed, conn, locals>>

\* queue_len is read once, before the drain.
QueueLen(c) ==
  /\ pc[c] = "qlen"
  /\ left' = Len(write_queue)
  /\ Goto(c, "drain")
  /\ UNCHANGED <<current, write_queue, abort_handle, wlock, crashed, conn, locals>>

\* steal().success().unwrap(), and unpark.
Drain(c) ==
  /\ pc[c] = "drain"
  /\ IF left = 0
       THEN Goto(c, "ckptrun") /\ UNCHANGED <<write_queue, token, left>>
       ELSE /\ write_queue # <<>>
            /\ write_queue' = Tail(write_queue)
            /\ token' = Unparked(Head(write_queue), token)
            /\ left' = left - 1
            /\ UNCHANGED pc
  /\ UNCHANGED <<current, abort_handle, wlock, crashed, conn, op, enqueued, stale, target>>

\* wrapped.checkpoint() returns.
CheckpointDone(c) ==
  /\ pc[c] = "ckptrun"
  /\ Goto(c, "release")
  /\ UNCHANGED <<current, write_queue, manager, conn, locals>>

(***************************************************************************)
(* Dropping a connection                                                   *)
(***************************************************************************)
\* The last owner drops its reference.  An aborting call that upgraded its Weak owns one.
Drop(c) ==
  /\ pc[c] = "idle"
  /\ c \in Leaving
  /\ mutex[c] = None
  /\ \A w \in Conns : pc[w] = "lock" => target[w] # c
  /\ Goto(c, "dropping")
  /\ in_txn' = [in_txn EXCEPT ![c] = FALSE]
  /\ UNCHANGED <<current, write_queue, manager, mutex, forced_rollback, retries, locals>>

\* Closing the SQLite handle rolls back an open transaction (end_write_txn).
DropRollback(c) ==
  /\ pc[c] = "dropping"
  /\ IF wlock = c THEN wlock' = None /\ Goto(c, "droprel")
                  ELSE Goto(c, "close") /\ UNCHANGED wlock
  /\ UNCHANGED <<current, write_queue, abort_handle, left, crashed, conn, locals>>

\* close(): the slot may still be ours, e.g. Notified or Failure.
CloseCheck(c) ==
  /\ pc[c] = "close"
  /\ Goto(c, IF current.id = c THEN "closerel" ELSE "unreg")
  /\ UNCHANGED <<current, write_queue, manager, conn, locals>>

Unregister(c) ==
  /\ pc[c] = "unreg"
  /\ abort_handle' = abort_handle \ {c}
  /\ Goto(c, "closed")
  /\ UNCHANGED <<current, write_queue, wlock, left, crashed, conn, locals>>

(***************************************************************************)
(* Time, and the specification                                             *)
(***************************************************************************)
Tick ==
  /\ current.id # None
  /\ \/ current.age = "fresh" /\ current' = [current EXCEPT !.age = "grace"]
     \/ /\ current.age = "grace"
        /\ current.id \in Slow
        /\ current' = [current EXCEPT !.age = "timeout"]
  /\ UNCHANGED <<write_queue, manager, pc, conn, locals>>

Acquire(c) ==
  \/ LoadToken(c) \/ AcquireStale(c) \/ AcquireBusy(c) \/ AcquireOwn(c)
  \/ AcquireSteal(c) \/ AcquireWait(c) \/ AcquireSchedule(c)
  \/ Unpark(c) \/ Deadline(c) \/ AbortLookup(c) \/ AbortLock(c) \/ AbortRelease(c)

WriteTxn(c) ==
  \/ BeginWriteTxn(c) \/ InnerOk(c) \/ InnerErr(c) \/ MarkAcquired(c) \/ MarkFailure(c)
  \/ Retry(c) \/ GiveUp(c) \/ EndWriteTxn(c) \/ EndReadTxn(c) \/ EndReadCheck(c)
  \/ DoRelease(c)

Checkpoint(c) ==
  \/ BeginCheckpoint(c) \/ MarkCheckpoint(c) \/ BumpToken(c) \/ SkipSync(c)
  \/ QueueLen(c) \/ Drain(c) \/ CheckpointDone(c)

Lifecycle(c) ==
  \/ Open(c) \/ StepTimedOut(c) \/ StepBegin(c) \/ StepEnd(c)
  \/ Drop(c) \/ DropRollback(c) \/ CloseCheck(c) \/ Unregister(c)

\* The process is gone, or every connection is closed.
Terminated ==
  /\ crashed \/ \A c \in Conns : pc[c] = "closed"
  /\ UNCHANGED vars

Step == ~crashed /\ (Tick \/ \E c \in Conns :
                       Acquire(c) \/ WriteTxn(c) \/ Checkpoint(c) \/ Lifecycle(c))

Next == Step \/ Terminated

Spec == Init /\ [][Next]_vars

(***************************************************************************)
(* Fairness.  Threads keep running and time passes; a parking_lot mutex is *)
(* eventually fair; nobody outside the manager refuses the WAL lock for    *)
(* good.  The client of a connection that is not Silent ends its           *)
(* transaction.                                                            *)
(***************************************************************************)
ThreadStep(c) ==
  ~crashed /\ \/ Acquire(c) \/ WriteTxn(c) \/ Checkpoint(c) \/ StepEnd(c)
              \/ DropRollback(c) \/ CloseCheck(c) \/ Unregister(c)

Fairness ==
  /\ WF_vars(~crashed /\ Tick)
  /\ \A c \in Conns : WF_vars(ThreadStep(c)) /\ SF_vars(~crashed /\ AbortLock(c))
  /\ \A c \in Refused : SF_vars(~crashed /\ InnerOk(c))
  /\ \A c \in Conns \ Silent : WF_vars(~crashed /\ wlock = c /\ StepBegin(c))

LiveSpec == Spec /\ Fairness

(***************************************************************************)
(* Properties                                                              *)
(***************************************************************************)
TypeOK ==
  /\ current \in Slot \cup {FreeSlot}
  /\ write_queue \in Seq(Entry)
  /\ abort_handle \subseteq Conns
  /\ wlock \in Conns \cup {None}
  /\ pc \in [Conns -> Points]
  /\ op \in [Conns -> {"write", "passive", "restart"}]
  /\ enqueued \in [Conns -> BOOLEAN]
  /\ stale \in [Conns -> BOOLEAN]
  /\ token \in [Conns -> BOOLEAN]
  /\ target \in [Conns -> Conns \cup {None}]
  /\ mutex \in [Conns -> Conns \cup {None}]
  /\ forced_rollback \in [Conns -> BOOLEAN]
  /\ retries \in [Conns -> Nat]
  /\ in_txn \in [Conns -> BOOLEAN]
  /\ left \in Nat
  /\ crashed \in BOOLEAN

\* SQLite's write lock is only ever held by the owner of the slot, and the slot says so:
\* begin_write_txn takes the slot before the inner lock and every way out (commit, read
\* end, forced rollback, drop) gives the inner lock back before the slot moves on.
WriterOwnsSlot ==
  wlock # None => current.id = wlock /\ current.state \in {"Acquiring", "WriteTxn"}

\* What a thread that owns the slot relies on at each program point.
Holds(c, states) == current.id = c /\ current.state \in states

\* The assertions and unwraps on the slot cannot fail for a connection at work: the assertion
\* of acquire() that its own slot is Notified or in Failure, the unwraps that mark the slot
\* after the inner call (which would mark somebody else's slot if the owner could lose it
\* meanwhile), and "no lock to release" and assert_eq!(slot.id, self.id) in the release() of
\* every path but one.  Two places are left out, because they can fail there: the release()
\* of close() (:549, point closerel), since a slot in Failure may go to a waiter after
\* close() looked at it, and the expect() of an abort (:39), when its victim is being dropped.
AssertionsHold ==
  \A c \in Conns :
    /\ Contending(c) /\ current.id = c => current.state \in {"Notified", "Failure"}
    /\ pc[c] \in {"inner", "begun", "innerbusy", "errrel"} => Holds(c, {"Acquiring"})
    /\ pc[c] \in {"ckpt", "qlen", "drain", "ckptrun"} => Holds(c, {"Checkpoint"})
    /\ pc[c] \in {"release", "droprel"} => Holds(c, {"WriteTxn", "Checkpoint"})
    /\ pc[c] = "abortrel" => Holds(target[c], {"WriteTxn"})

\* schedule_next() inside acquire() always finds somebody, at worst the caller: a caller
\* that pushed itself is still queued, owns the slot, or must see a new sync token.  The
\* two `None` arms after schedule_next() are never taken; one of them would leave the slot
\* Acquiring and run into the assertion at the top of the loop.
WaiterIsQueued ==
  \A c \in Conns :
    pc[c] \in InAcquire /\ enqueued[c] =>
      \/ \E i \in DOMAIN write_queue : write_queue[i].id = c
      \/ current.id = c
      \/ stale[c]

\* Nobody touches the queue while a checkpoint drains it without holding `current`, so no
\* steal().success().unwrap() of the drain finds it empty and nobody is left behind.
DrainIsExclusive ==
  \A c \in Conns : pc[c] = "drain" => left = Len(write_queue)

\* A client that was told its transaction is open either still has it, or will be told
\* LibSqlTxTimeout by its next step: no interleaving of aborting calls, early commits and
\* later transactions of the victim loses the forced_rollback flag of a rolled back one.
NoSilentRollback ==
  \A c \in Conns :
    in_txn[c] => \/ wlock = c
                 \/ forced_rollback[c]
                 \/ \E w \in Conns : pc[w] = "abortrel" /\ target[w] = c

\* force_rollback() is a no-op while the flag is up, so the flag must be down whenever the
\* connection has a write transaction: otherwise an aborting call would park for ever
\* without having aborted anything.
AbortIsEffective == \A c \in Conns : forced_rollback[c] => wlock # c

\* A slot in state Notified belongs to a connection that is inside acquire() and will take
\* it; nobody else may, since a Notified slot is never stolen.  (Not so when a checkpoint
\* below RESTART may run: acquire() then returns SQLITE_BUSY and leaves its entry behind.)
NotifiedIsAwaited ==
  current.id # None /\ current.state = "Notified" => pc[current.id] \in InAcquire

\* Nobody sleeps without a deadline unless a later release() or drain is going to unpark
\* that very Parker.
NoLostWakeup ==
  \A c \in Conns :
    pc[c] = "park" /\ ~token[c] =>
      \E i \in DOMAIN write_queue : write_queue[i] = [id |-> c, live |-> TRUE]

\* Every acquire() call returns, with the slot or with an error.
EveryCallReturns == \A c \in Conns : pc[c] = "loop" ~> pc[c] \notin InAcquire

\* connection_core.rs:485, the doc of serialized_txn_timeouts: "All txn should eventually
\* acquire the write lock": no call of acquire() waits forever.
AllTxnsEventuallyAcquire == \A c \in Conns : pc[c] \in InAcquire ~> pc[c] \notin InAcquire

=============================================================================
