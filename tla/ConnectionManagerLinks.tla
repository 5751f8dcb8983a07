----------------------- MODULE ConnectionManagerLinks -----------------------
(***************************************************************************)
(* The inductive invariant of ConnectionManager.  The safety invariants    *)
(* are not inductive as they stand.  IInv ties the state of the slot to    *)
(* the program point of its owner (SlotPoint), the program points to the   *)
(* slot (PointSlot), the inner write lock to both (LockPoint), the         *)
(* connection mutexes to the threads that hold them (MutexPoint), an       *)
(* aborting call to its victim (AbortPoint), and the forced_rollback flag  *)
(* to what the victim may be doing (FlagPoint).                            *)
(***************************************************************************)
EXTENDS ConnectionManagerTypes

\* The program points at which a connection's thread does not hold the connection's mutex.
Resting == {"new", "idle", "dropping", "droprel", "close", "closerel", "unreg", "closed"}

PointSlot(c) ==
  /\ pc[c] \in {"inner", "begun", "innerbusy", "errrel"} => Holds(c, {"Acquiring"})
  /\ pc[c] \in {"ckpt", "qlen", "drain", "ckptrun"} => Holds(c, {"Checkpoint"})
  /\ pc[c] \in {"release", "droprel"} => Holds(c, {"WriteTxn", "Checkpoint"})

SlotPoint(c) ==
  current.id = c =>
    /\ current.state = "Acquiring" => pc[c] \in {"inner", "begun", "innerbusy", "errrel"}
    /\ current.state = "Checkpoint" => pc[c] \in {"ckpt", "qlen", "drain", "ckptrun", "release"}
    /\ current.state = "WriteTxn" =>
         \/ pc[c] \in {"release", "droprel", "endread"}
         \/ wlock = c
         \/ pc[c] = "idle" /\ mutex[c] # None

LockPoint(c) ==
  /\ pc[c] = "begun" => wlock = c
  /\ wlock = c => \/ pc[c] = "begun"
                  \/ pc[c] \in {"open", "step", "idle", "dropping"} /\ Holds(c, {"WriteTxn"})

MutexPoint(c) ==
  /\ pc[c] \notin Resting <=> mutex[c] = c
  /\ mutex[c] \notin {None, c} =>
       /\ pc[c] = "idle"
       /\ pc[mutex[c]] = "abortrel"
       /\ target[mutex[c]] = c

AbortPoint(c) ==
  /\ pc[c] \in {"lookup", "lock", "abortrel"} => target[c] \in Conns \ {c}
  /\ pc[c] = "lock" => Alive(target[c])
  /\ pc[c] = "abortrel" =>
       Holds(target[c], {"WriteTxn"}) /\ mutex[target[c]] = c /\ wlock # target[c]

FlagPoint(c) ==
  /\ forced_rollback[c] =>
       wlock # c /\ pc[c] \in {"idle", "dropping", "close", "closerel", "unreg", "closed"}
  /\ in_txn[c] =>
       /\ pc[c] \notin {"dropping", "droprel", "close", "closerel", "unreg", "closed"}
       /\ wlock = c \/ forced_rollback[c] \/ mutex[c] \notin {None, c}

\* The six links together.
Links(c) ==
  /\ PointSlot(c) /\ SlotPoint(c) /\ LockPoint(c)
  /\ MutexPoint(c) /\ AbortPoint(c) /\ FlagPoint(c)

IInv == TypeOK /\ \A c \in Conns : Links(c)

\* The types the links rest on.
Shape ==
  /\ pc \in [Conns -> Points]
  /\ mutex \in [Conns -> Conns \cup {None}]
  /\ target \in [Conns -> Conns \cup {None}]
  /\ forced_rollback \in [Conns -> BOOLEAN]
  /\ in_txn \in [Conns -> BOOLEAN]
  /\ wlock \in Conns \cup {None}
  /\ current.id \in Conns \cup {None}
  /\ None \notin Conns

\* The inductive invariant gives those types and the links of every connection.
LEMMA IInvFacts ==
  ASSUME IInv
  PROVE  TypeOK /\ Shape /\ \A e \in Conns : Links(e)
<1>1. TypeOK /\ \A e \in Conns : Links(e)
  BY DEF IInv
<1>2. current.id \in Conns \cup {None}
  BY <1>1 DEF TypeOK, Slot, FreeSlot
<1> QED
  BY <1>1, <1>2, ConnsAssumption DEF TypeOK, Shape

\* Of a connection's thread, the steps of acquire() preserve the links of every connection.
LEMMA LinksAcquire ==
  ASSUME IInv, NEW c \in Conns, NEW d \in Conns, Acquire(c)
  PROVE  Links(d)'
<1> TypeOK /\ Shape /\ \A e \in Conns : Links(e)
  BY IInvFacts
<1> USE DEF Shape, Links, PointSlot, SlotPoint, LockPoint, MutexPoint, AbortPoint, FlagPoint,
            Holds, Alive, Resting, Goto, manager, locals, conn
<1>1. CASE LoadToken(c)
  BY <1>1 DEF LoadToken
<1>2. CASE AcquireStale(c)
  BY <1>2 DEF AcquireStale, LeaveAcquire, Contending
<1>3. CASE AcquireBusy(c)
  BY <1>3 DEF AcquireBusy, LeaveAcquire, Contending
<1>4. CASE AcquireOwn(c)
  BY <1>4 DEF AcquireOwn, LeaveAcquire, Contending
<1>5. CASE AcquireSteal(c)
  BY <1>5 DEF AcquireSteal, Contending
<1>6. CASE AcquireWait(c)
  <2>1. /\ pc[c] = "loop" /\ pc' = [pc EXCEPT ![c] = "parkd"]
        /\ UNCHANGED <<current, wlock, mutex, target, forced_rollback, in_txn>>
    BY <1>6, ZenonT(60) DEF AcquireWait, Contending
  <2> QED
    BY <2>1
<1>7. CASE AcquireSchedule(c)
  <2> DEFINE q == Enqueued(c)
  <2>1. q \in Seq(Entry) /\ q # <<>>
    BY <1>7, EnqueuedType DEF AcquireSchedule
  <2>2. /\ NotifiedSlot(q) \in Slot
        /\ NotifiedSlot(q).id = Head(q).id
        /\ NotifiedSlot(q).state = "Notified"
    BY <2>1, QueueType
  <2>3. /\ [NotifiedSlot(q) EXCEPT !.state = "Acquiring"].id = NotifiedSlot(q).id
        /\ [NotifiedSlot(q) EXCEPT !.state = "Acquiring"].state = "Acquiring"
    BY <2>2 DEF Slot
  <2> HIDE DEF q
  <2>4. /\ pc[c] = "loop"
        /\ UNCHANGED <<wlock, mutex, forced_rollback, in_txn, abort_handle>>
    BY <1>7 DEF AcquireSchedule, Contending
  <2>5. \A e \in Conns :
          /\ wlock # e
          /\ pc[e] \notin {"inner", "begun", "innerbusy", "errrel", "ckpt", "qlen", "drain",
                           "ckptrun", "release", "droprel", "abortrel"}
    BY <1>7 DEF AcquireSchedule
  <2>6. CASE Head(q).id = c
    <3>1. /\ current' = [NotifiedSlot(q) EXCEPT !.state = "Acquiring"]
          /\ pc' = [pc EXCEPT ![c] = "inner"]
          /\ target' = [target EXCEPT ![c] = None]
      BY <1>7, <2>6, Zenon DEF AcquireSchedule, LeaveAcquire, q
    <3>2. current'.id = c /\ current'.state = "Acquiring"
      BY <2>2, <2>3, <2>6, <3>1
    <3> QED
      BY <2>4, <2>5, <3>1, <3>2
  <2>7. CASE Head(q).id # c
    <3>1. /\ current' = NotifiedSlot(q)
          /\ pc' = [pc EXCEPT ![c] = "park"]
          /\ UNCHANGED target
      BY <1>7, <2>7, Zenon DEF AcquireSchedule, q
    <3> QED
      BY <2>2, <2>4, <2>5, <3>1
  <2> QED
    BY <2>6, <2>7, Zenon
<1>8. CASE Unpark(c)
  BY <1>8 DEF Unpark
<1>9. CASE Deadline(c)
  BY <1>9 DEF Deadline
<1>10. CASE AbortLookup(c)
  BY <1>10 DEF AbortLookup
<1>11. CASE AbortLock(c)
  BY <1>11 DEF AbortLock
<1>12. CASE AbortRelease(c)
  <2>1. current'.state = "Notified"
    BY <1>12, ReleaseType DEF AbortRelease
  <2>10. PointSlot(d)'
    BY <1>12, <2>1 DEF AbortRelease
  <2>11. SlotPoint(d)'
    BY <1>12, <2>1 DEF AbortRelease
  <2>12. LockPoint(d)'
    BY <1>12, <2>1 DEF AbortRelease
  <2>13. MutexPoint(d)'
    BY <1>12, <2>1 DEF AbortRelease
  <2>14. AbortPoint(d)'
    BY <1>12, <2>1 DEF AbortRelease
  <2>15. FlagPoint(d)'
    BY <1>12, <2>1 DEF AbortRelease
  <2> QED
    BY <2>10, <2>11, <2>12, <2>13, <2>14, <2>15, Zenon
<1> QED
  BY <1>1, <1>2, <1>3, <1>4, <1>5, <1>6, <1>7, <1>8, <1>9, <1>10, <1>11, <1>12, ZenonT(60) DEF Acquire

\* Of a connection's thread, the steps of a write transaction preserve the links of every connection.
LEMMA LinksWriteTxn ==
  ASSUME IInv, NEW c \in Conns, NEW d \in Conns, WriteTxn(c)
  PROVE  Links(d)'
<1> TypeOK /\ Shape /\ \A e \in Conns : Links(e)
  BY IInvFacts
<1> USE DEF Shape, Links, PointSlot, SlotPoint, LockPoint, MutexPoint, AbortPoint, FlagPoint,
            Holds, Alive, Resting, Goto, manager, locals, conn
<1>1. CASE BeginWriteTxn(c)
  BY <1>1 DEF BeginWriteTxn, Call
<1>2. CASE InnerOk(c)
  BY <1>2 DEF InnerOk
<1>3. CASE InnerErr(c)
  BY <1>3 DEF InnerErr
<1>4. CASE MarkAcquired(c)
  <2>1. current.id = c /\ wlock = c
    BY <1>4 DEF MarkAcquired
  <2>2. current'.id = c /\ current'.state = "WriteTxn"
    BY <1>4, <2>1 DEF MarkAcquired, MarkSlot, Slot, FreeSlot
  <2>10. PointSlot(d)'
    BY <1>4, <2>1, <2>2 DEF MarkAcquired, MarkSlot
  <2>11. SlotPoint(d)'
    BY <1>4, <2>1, <2>2 DEF MarkAcquired, MarkSlot
  <2>12. LockPoint(d)'
    BY <1>4, <2>1, <2>2 DEF MarkAcquired, MarkSlot
  <2>13. MutexPoint(d)'
    BY <1>4, <2>1, <2>2 DEF MarkAcquired, MarkSlot
  <2>14. AbortPoint(d)'
    BY <1>4, <2>1, <2>2 DEF MarkAcquired, MarkSlot
  <2>15. FlagPoint(d)'
    BY <1>4, <2>1, <2>2 DEF MarkAcquired, MarkSlot
  <2> QED
    BY <2>10, <2>11, <2>12, <2>13, <2>14, <2>15, Zenon
<1>5. CASE MarkFailure(c)
  BY <1>5 DEF MarkFailure, MarkSlot
<1>6. CASE Retry(c)
  BY <1>6 DEF Retry
<1>7. CASE GiveUp(c)
  BY <1>7 DEF GiveUp
<1>8. CASE EndWriteTxn(c)
  <2>1. /\ pc[c] \in {"step", "open"} /\ pc' = [pc EXCEPT ![c] = "release"]
        /\ wlock = c /\ wlock' = None
        /\ in_txn' = [in_txn EXCEPT ![c] = FALSE]
        /\ UNCHANGED <<current, mutex, target, forced_rollback>>
    BY <1>8, ZenonT(60) DEF EndWriteTxn
  <2> QED
    BY <2>1
<1>9. CASE EndReadTxn(c)
  <2>1. /\ pc[c] \in {"step", "open"} /\ pc' = [pc EXCEPT ![c] = "endread"]
        /\ in_txn' = [in_txn EXCEPT ![c] = FALSE]
        /\ UNCHANGED <<current, mutex, target, forced_rollback>>
    BY <1>9, ZenonT(60) DEF EndReadTxn
  <2>2. CASE wlock = c
    <3>1. wlock' = None
      BY <1>9, <2>2, ZenonT(60) DEF EndReadTxn
    <3> QED
      BY <2>1, <2>2, <3>1
  <2>3. CASE wlock # c
    <3>1. wlock' = wlock
      BY <1>9, <2>3, ZenonT(60) DEF EndReadTxn
    <3> QED
      BY <2>1, <2>3, <3>1
  <2> QED
    BY <2>2, <2>3, Zenon
<1>10. CASE EndReadCheck(c)
  <2>1. CASE current.id = c /\ current.state \in {"WriteTxn", "Checkpoint"}
    <3>1. /\ pc[c] = "endread" /\ pc' = [pc EXCEPT ![c] = "release"]
          /\ UNCHANGED <<current, wlock, mutex, target, forced_rollback, in_txn, abort_handle>>
      BY <1>10, <2>1 DEF EndReadCheck
    <3>2. wlock # c
      BY <3>1
    <3> QED
      BY <2>1, <3>1, <3>2
  <2>2. CASE ~(current.id = c /\ current.state \in {"WriteTxn", "Checkpoint"})
    <3>1. /\ pc[c] = "endread" /\ pc' = [pc EXCEPT ![c] = "done"]
          /\ UNCHANGED <<current, wlock, mutex, target, forced_rollback, in_txn>>
      BY <1>10, <2>2, ZenonT(60) DEF EndReadCheck
    <3> QED
      BY <2>2, <3>1
  <2> QED
    BY <2>1, <2>2, Zenon
<1>11. CASE DoRelease(c)
  <2>1. CASE current.id = c
    <3>1. current'.state = "Notified"
      BY <1>11, <2>1, ReleaseType DEF DoRelease
    <3>2. /\ pc[c] \in {"release", "errrel", "droprel", "closerel"}
          /\ pc' \in {[pc EXCEPT ![c] = p] : p \in {"released", "failed", "close", "unreg"}}
          /\ pc[c] \in {"droprel", "closerel"} => pc'[c] \in {"close", "unreg"}
          /\ pc[c] \in {"release", "errrel"} => pc'[c] \in {"released", "failed"}
      BY <1>11, <2>1 DEF DoRelease, AfterRelease
    <3>3. UNCHANGED <<abort_handle, wlock, left, conn, op, enqueued, stale, target>>
      BY <1>11 DEF DoRelease
    <3>10. PointSlot(d)' /\ SlotPoint(d)'
      BY <2>1, <3>1, <3>2, <3>3
    <3>4. wlock = None
      BY <2>1, <3>2
    <3>11. LockPoint(d)'
      BY <3>2, <3>3, <3>4
    <3>12. MutexPoint(d)'
      BY <2>1, <3>1, <3>2, <3>3
    <3>13. AbortPoint(d)'
      BY <2>1, <3>1, <3>2, <3>3
    <3>14. FlagPoint(d)'
      BY <2>1, <3>1, <3>2, <3>3
    <3> QED
      BY <3>10, <3>11, <3>12, <3>13, <3>14, Zenon
  <2>2. CASE current.id # c
    BY <1>11, <2>2 DEF DoRelease
  <2> QED
    BY <2>1, <2>2, Zenon
<1> QED
  BY <1>1, <1>2, <1>3, <1>4, <1>5, <1>6, <1>7, <1>8, <1>9, <1>10, <1>11, ZenonT(60) DEF WriteTxn

=============================================================================
