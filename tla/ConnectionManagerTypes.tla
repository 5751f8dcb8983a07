----------------------- MODULE ConnectionManagerTypes -----------------------
(***************************************************************************)
(* What the operations of ConnectionManager do to the types of its         *)
(* variables: facts about the slot, the queue and release(), and the proof *)
(* that every step of a thread preserves TypeOK.                           *)
(***************************************************************************)
EXTENDS ConnectionManager, TLAPS

\* Changing the state of a slot (the `slot.state = ...` assignments) gives a slot.
LEMMA SlotType ==
  ASSUME NEW s \in Slot, NEW st \in SlotStates
  PROVE  [s EXCEPT !.state = st] \in Slot
  BY DEF Slot

\* An entry of the queue names a connection, and dropping its Parker leaves an entry.
LEMMA EntryType ==
  ASSUME NEW e \in Entry
  PROVE  /\ [e EXCEPT !.live = FALSE] \in Entry
         /\ e.id \in Conns
         /\ e.live \in BOOLEAN
  BY ZenonT(60) DEF Entry

\* What schedule_next() takes from a non-empty queue, and the slot it makes of it.
LEMMA QueueType ==
  ASSUME NEW q \in Seq(Entry), q # <<>>
  PROVE  /\ Head(q) \in Entry
         /\ Tail(q) \in Seq(Entry)
         /\ NotifiedSlot(q) \in Slot
         /\ NotifiedSlot(q).id = Head(q).id
         /\ NotifiedSlot(q).state = "Notified"
<1>1. Head(q) \in Entry /\ Tail(q) \in Seq(Entry)
  OBVIOUS
<1> QED
  BY <1>1, EntryType, ZenonT(60) DEF NotifiedSlot, Slot, SlotStates, Ages

\* A call that leaves acquire() drops its Parkers; the queue keeps its shape.
LEMMA AbandonType ==
  ASSUME NEW c \in Conns, NEW q \in Seq(Entry)
  PROVE  Abandon(c, q) \in Seq(Entry)
<1>1. \A i \in DOMAIN q : q[i] \in Entry /\ [q[i] EXCEPT !.live = FALSE] \in Entry
  BY EntryType
<1> QED
  BY <1>1 DEF Abandon

\* Pushing the caller, or not, gives a queue.
LEMMA EnqueuedType ==
  ASSUME TypeOK, NEW c \in Conns
  PROVE  Enqueued(c) \in Seq(Entry)
<1>1. [id |-> c, live |-> TRUE] \in Entry
  BY DEF Entry
<1> QED
  BY <1>1 DEF TypeOK, Enqueued

\* Unparking an entry sets at most one token.
LEMMA UnparkedType ==
  ASSUME NEW e \in Entry, NEW t \in [Conns -> BOOLEAN]
  PROVE  Unparked(e, t) \in [Conns -> BOOLEAN]
  BY EntryType, ZenonT(60) DEF Unparked

\* release() leaves a free slot or a Notified one, never one that is being used.
LEMMA ReleaseType ==
  ASSUME TypeOK, Release
  PROVE  /\ current' \in Slot \cup {FreeSlot}
         /\ current'.state = "Notified"
         /\ write_queue' \in Seq(Entry)
         /\ token' \in [Conns -> BOOLEAN]
<1>1. CASE write_queue = <<>>
  BY <1>1 DEF TypeOK, Release, FreeSlot
<1>2. CASE write_queue # <<>>
  <2>1. write_queue \in Seq(Entry) /\ token \in [Conns -> BOOLEAN]
    BY DEF TypeOK
  <2>2. /\ Head(write_queue) \in Entry
        /\ Tail(write_queue) \in Seq(Entry)
        /\ NotifiedSlot(write_queue) \in Slot
        /\ NotifiedSlot(write_queue).state = "Notified"
    BY <1>2, <2>1, QueueType
  <2> QED
    BY <1>2, <2>1, <2>2, UnparkedType DEF Release
<1> QED
  BY <1>1, <1>2

\* Locking a connection's mutex for c leaves the mutexes well typed.
LEMMA MutexType ==
  ASSUME TypeOK, NEW c \in Conns, NEW v
  PROVE  [mutex EXCEPT ![v] = c] \in [Conns -> Conns \cup {None}]
  BY ZenonT(60) DEF TypeOK

\* The program points, spelled out.
LEMMA PointsAre ==
  Points = {"loop", "park", "parkd", "lookup", "lock", "abortrel",
            "release", "errrel", "droprel", "closerel",
            "new", "idle", "step", "enter", "inner", "begun", "innerbusy", "failed", "open",
            "endread", "released", "done",
            "ckpt", "qlen", "drain", "ckptrun", "dropping", "close", "unreg", "closed"}
<1>1. DOMAIN AfterRelease = {"release", "errrel", "droprel", "closerel"}
  BY DEF AfterRelease
<1> QED
  BY <1>1 DEF Points, InAcquire

\* Of a connection's thread, the steps of acquire() preserve the type invariant.
LEMMA TypeAcquire ==
  ASSUME TypeOK, NEW c \in Conns, Acquire(c)
  PROVE  TypeOK'
<1> USE ConnsAssumption, PointsAre DEF TypeOK, Goto, manager, locals, conn
<1>1. CASE LoadToken(c)
  BY <1>1 DEF LoadToken
<1>2. CASE AcquireStale(c)
  BY <1>2, AbandonType DEF AcquireStale, LeaveAcquire
<1>3. CASE AcquireBusy(c)
  BY <1>3, AbandonType DEF AcquireBusy, LeaveAcquire
<1>4. CASE AcquireOwn(c)
  <2>1. current \in Slot
    BY <1>4 DEF AcquireOwn, FreeSlot
  <2> QED
    BY <1>4, <2>1, SlotType, AbandonType, ZenonT(60) DEF AcquireOwn, LeaveAcquire, SlotStates
<1>5. CASE AcquireSteal(c)
  <2>1. current.id \in Conns
    BY <1>5 DEF AcquireSteal, Slot, FreeSlot
  <2> QED
    BY <1>5, <2>1, EnqueuedType DEF AcquireSteal
<1>6. CASE AcquireWait(c)
  BY <1>6, EnqueuedType DEF AcquireWait
<1>7. CASE AcquireSchedule(c)
  <2> DEFINE q == Enqueued(c)
  <2>1. q \in Seq(Entry) /\ q # <<>>
    BY <1>7, EnqueuedType DEF AcquireSchedule
  <2>2. Head(q) \in Entry /\ Tail(q) \in Seq(Entry) /\ NotifiedSlot(q) \in Slot
    BY <2>1, QueueType
  <2>3. [NotifiedSlot(q) EXCEPT !.state = "Acquiring"] \in Slot
    BY <2>2, SlotType, ZenonT(60) DEF SlotStates
  <2>4. Unparked(Head(q), token) \in [Conns -> BOOLEAN]
    BY <2>2, UnparkedType
  <2>5. Abandon(c, Tail(q)) \in Seq(Entry)
    BY <2>2, AbandonType, ZenonT(60)
  <2> HIDE DEF q
  <2>6. CASE Head(q).id = c
    BY <1>7, <2>3, <2>5, <2>6, ZenonT(60) DEF AcquireSchedule, LeaveAcquire, q
  <2>7. CASE Head(q).id # c
    <3>1. /\ current' = NotifiedSlot(q) /\ write_queue' = Tail(q)
          /\ token' = Unparked(Head(q), token)
          /\ enqueued' = [enqueued EXCEPT ![c] = TRUE]
          /\ pc' = [pc EXCEPT ![c] = "park"]
          /\ UNCHANGED <<stale, target, manager, conn, op>>
      BY <1>7, <2>7 DEF AcquireSchedule, q
    <3> QED
      BY <2>2, <2>4, <3>1
  <2> QED
    BY <2>6, <2>7
<1>8. CASE Unpark(c)
  BY <1>8 DEF Unpark
<1>9. CASE Deadline(c)
  BY <1>9 DEF Deadline
<1>10. CASE AbortLookup(c)
  <2>1. /\ pc' = pc \/ pc' = [pc EXCEPT ![c] = "lock"]
        /\ crashed' = crashed \/ crashed' = TRUE
        /\ UNCHANGED <<current, write_queue, abort_handle, wlock, left, conn, locals>>
    BY <1>10, Zenon DEF AbortLookup
  <2>2. pc' \in [Conns -> Points]
    BY <2>1, ZenonT(60)
  <2>3. crashed' \in BOOLEAN
    BY <2>1, Zenon
  <2> QED
    BY <2>1, <2>2, <2>3
<1>11. CASE AbortLock(c)
  <2>1. UNCHANGED <<current, write_queue, abort_handle, left, crashed, retries, in_txn, locals>>
    BY <1>11 DEF AbortLock
  <2>2. \/ /\ wlock' = None
           /\ mutex' = [mutex EXCEPT ![target[c]] = c]
           /\ pc' = [pc EXCEPT ![c] = "abortrel"]
           /\ UNCHANGED forced_rollback
        \/ /\ forced_rollback' = [forced_rollback EXCEPT ![target[c]] = TRUE]
           /\ pc' = [pc EXCEPT ![c] = "park"]
           /\ UNCHANGED <<wlock, mutex>>
    BY <1>11, Zenon DEF AbortLock
  <2>3. [mutex EXCEPT ![target[c]] = c] \in [Conns -> Conns \cup {None}]
    BY MutexType
  <2>4. pc' \in [Conns -> Points]
    BY <2>2, ZenonT(60)
  <2>5. forced_rollback' \in [Conns -> BOOLEAN]
    BY <2>2, ZenonT(60)
  <2>6. mutex' \in [Conns -> Conns \cup {None}]
    BY <2>2, <2>3, Zenon
  <2>7. wlock' \in Conns \cup {None}
    BY <2>2
  <2> QED
    BY <2>1, <2>4, <2>5, <2>6, <2>7
<1>12. CASE AbortRelease(c)
  BY <1>12, ReleaseType, ZenonT(60) DEF AbortRelease
<1> QED
  BY <1>1, <1>2, <1>3, <1>4, <1>5, <1>6, <1>7, <1>8, <1>9, <1>10, <1>11, <1>12, ZenonT(60) DEF Acquire

\* Of a connection's thread, the steps of a write transaction preserve the type invariant.
LEMMA TypeWriteTxn ==
  ASSUME TypeOK, NEW c \in Conns, WriteTxn(c)
  PROVE  TypeOK'
<1> USE ConnsAssumption, PointsAre DEF TypeOK, Goto, manager, locals, conn
<1>1. CASE BeginWriteTxn(c)
  BY <1>1 DEF BeginWriteTxn, Call
<1>2. CASE InnerOk(c)
  BY <1>2 DEF InnerOk
<1>3. CASE InnerErr(c)
  BY <1>3 DEF InnerErr
<1>4. CASE MarkAcquired(c)
  <2>1. current \in Slot
    BY <1>4 DEF MarkAcquired, MarkSlot, FreeSlot
  <2> QED
    BY <1>4, <2>1, SlotType, ZenonT(60) DEF MarkAcquired, MarkSlot, SlotStates
<1>5. CASE MarkFailure(c)
  <2>1. current \in Slot
    BY <1>5 DEF MarkFailure, MarkSlot, FreeSlot
  <2> QED
    BY <1>5, <2>1, SlotType, ZenonT(60) DEF MarkFailure, MarkSlot, SlotStates
<1>6. CASE Retry(c)
  BY <1>6 DEF Retry
<1>7. CASE GiveUp(c)
  BY <1>7 DEF GiveUp
<1>8. CASE EndWriteTxn(c)
  BY <1>8 DEF EndWriteTxn
<1>9. CASE EndReadTxn(c)
  BY <1>9 DEF EndReadTxn
<1>10. CASE EndReadCheck(c)
  <2>1. /\ pc' = [pc EXCEPT ![c] = "release"] \/ pc' = [pc EXCEPT ![c] = "done"]
        /\ UNCHANGED <<current, write_queue, manager, conn, locals>>
    BY <1>10, Zenon DEF EndReadCheck
  <2>2. pc' \in [Conns -> Points]
    BY <2>1
  <2> QED
    BY <2>1, <2>2
<1>11. CASE DoRelease(c)
  <2>1. CASE current.id = c
    <3>1. AfterRelease[pc[c]] \in Points
      BY <1>11 DEF DoRelease, AfterRelease
    <3> QED
      BY <1>11, <2>1, <3>1, ReleaseType, ZenonT(60) DEF DoRelease
  <2>2. CASE current.id # c
    BY <1>11, <2>2 DEF DoRelease
  <2> QED
    BY <2>1, <2>2
<1> QED
  BY <1>1, <1>2, <1>3, <1>4, <1>5, <1>6, <1>7, <1>8, <1>9, <1>10, <1>11, ZenonT(60) DEF WriteTxn

\* Of a connection's thread, the steps of checkpoint() preserve the type invariant.
LEMMA TypeCheckpoint ==
  ASSUME TypeOK, NEW c \in Conns, Checkpoint(c)
  PROVE  TypeOK'
<1> USE ConnsAssumption, PointsAre DEF TypeOK, Goto, manager, locals, conn
<1>1. CASE BeginCheckpoint(c)
  BY <1>1 DEF BeginCheckpoint, Call
<1>2. CASE MarkCheckpoint(c)
  <2>1. current \in Slot
    BY <1>2 DEF MarkCheckpoint, MarkSlot, FreeSlot
  <2> QED
    BY <1>2, <2>1, SlotType, ZenonT(60) DEF MarkCheckpoint, MarkSlot, SlotStates
<1>3. CASE BumpToken(c)
  BY <1>3 DEF BumpToken
<1>4. CASE SkipSync(c)
  BY <1>4 DEF SkipSync
<1>5. CASE QueueLen(c)
  BY <1>5 DEF QueueLen
<1>6. CASE Drain(c)
  <2>1. CASE left = 0
    BY <1>6, <2>1, ZenonT(60) DEF Drain
  <2>2. CASE left # 0
    <3>1. /\ Tail(write_queue) \in Seq(Entry)
          /\ Unparked(Head(write_queue), token) \in [Conns -> BOOLEAN]
      BY <1>6, <2>2, QueueType, UnparkedType, ZenonT(60) DEF Drain
    <3>2. left - 1 \in Nat
      BY <2>2
    <3> QED
      BY <1>6, <2>2, <3>1, <3>2, ZenonT(60) DEF Drain
  <2> QED
    BY <2>1, <2>2
<1>7. CASE CheckpointDone(c)
  BY <1>7 DEF CheckpointDone
<1> QED
  BY <1>1, <1>2, <1>3, <1>4, <1>5, <1>6, <1>7, ZenonT(60) DEF Checkpoint

\* Of a connection's thread, the steps of a connection's life preserve the type invariant.
LEMMA TypeLifecycle ==
  ASSUME TypeOK, NEW c \in Conns, Lifecycle(c)
  PROVE  TypeOK'
<1> USE ConnsAssumption, PointsAre DEF TypeOK, Goto, manager, locals, conn
<1>1. CASE Open(c)
  BY <1>1 DEF Open
<1>2. CASE StepTimedOut(c)
  BY <1>2 DEF StepTimedOut
<1>3. CASE StepBegin(c)
  BY <1>3 DEF StepBegin
<1>4. CASE StepEnd(c)
  BY <1>4 DEF StepEnd
<1>5. CASE Drop(c)
  BY <1>5 DEF Drop
<1>6. CASE DropRollback(c)
  <2>1. CASE wlock = c
    <3>1. /\ wlock' = None /\ pc' = [pc EXCEPT ![c] = "droprel"]
          /\ UNCHANGED <<current, write_queue, abort_handle, left, crashed>>
          /\ UNCHANGED <<conn, locals>>
      BY <1>6, <2>1 DEF DropRollback
    <3> QED
      BY <3>1
  <2>2. CASE wlock # c
    BY <1>6, <2>2, ZenonT(60) DEF DropRollback
  <2> QED
    BY <2>1, <2>2
<1>7. CASE CloseCheck(c)
  BY <1>7 DEF CloseCheck
<1>8. CASE Unregister(c)
  BY <1>8 DEF Unregister
<1> QED
  BY <1>1, <1>2, <1>3, <1>4, <1>5, <1>6, <1>7, <1>8, ZenonT(60) DEF Lifecycle

=============================================================================
