---------------------- MODULE ConnectionManagerProofs ----------------------
(***************************************************************************)
(* Machine-checked theorems about ConnectionManager, for any set of        *)
(* connections and any value of the other constants.                       *)
(*                                                                         *)
(* The first part is about the slot.  The second is about the queue of     *)
(* waiting calls.  A call that pushed itself is in the queue with its own  *)
(* Parker, or has the slot, or must see a new sync token (Queued); a call  *)
(* about to park without a deadline is in the queue or was unparked; and   *)
(* while a checkpoint drains the queue every waiting call is one that must *)
(* see the new token.                                                      *)
(***************************************************************************)
EXTENDS ConnectionManagerLinks

\* Of a connection's thread, the steps of checkpoint() preserve the links of every connection.
LEMMA LinksCheckpoint ==
  ASSUME IInv, NEW c \in Conns, NEW d \in Conns, Checkpoint(c)
  PROVE  Links(d)'
<1> TypeOK /\ Shape /\ \A e \in Conns : Links(e)
  BY IInvFacts
<1> USE DEF Shape, Links, PointSlot, SlotPoint, LockPoint, MutexPoint, AbortPoint, FlagPoint,
            Holds, Alive, Resting, Goto, manager, locals, conn
<1>1. CASE BeginCheckpoint(c)
  BY <1>1 DEF BeginCheckpoint, Call
<1>2. CASE MarkCheckpoint(c)
  BY <1>2 DEF MarkCheckpoint, MarkSlot
<1>3. CASE BumpToken(c)
  BY <1>3 DEF BumpToken, InAcquire
<1>4. CASE SkipSync(c)
  BY <1>4 DEF SkipSync, InAcquire
<1>5. CASE QueueLen(c)
  BY <1>5 DEF QueueLen
<1>6. CASE Drain(c)
  BY <1>6 DEF Drain
<1>7. CASE CheckpointDone(c)
  BY <1>7 DEF CheckpointDone
<1> QED
  BY <1>1, <1>2, <1>3, <1>4, <1>5, <1>6, <1>7, ZenonT(60) DEF Checkpoint

\* Of a connection's thread, the steps of a connection's life preserve the links of every connection.
LEMMA LinksLifecycle ==
  ASSUME IInv, NEW c \in Conns, NEW d \in Conns, Lifecycle(c)
  PROVE  Links(d)'
<1> TypeOK /\ Shape /\ \A e \in Conns : Links(e)
  BY IInvFacts
<1> USE DEF Shape, Links, PointSlot, SlotPoint, LockPoint, MutexPoint, AbortPoint, FlagPoint,
            Holds, Alive, Resting, Goto, manager, locals, conn
<1>1. CASE Open(c)
  BY <1>1 DEF Open
<1>2. CASE StepTimedOut(c)
  BY <1>2 DEF StepTimedOut
<1>3. CASE StepBegin(c)
  BY <1>3 DEF StepBegin
<1>4. CASE StepEnd(c)
  BY <1>4 DEF StepEnd
<1>5. CASE Drop(c)
  BY <1>5 DEF Drop
<1>6. CASE DropRollback(c)
  BY <1>6 DEF DropRollback
<1>7. CASE CloseCheck(c)
  BY <1>7 DEF CloseCheck
<1>8. CASE Unregister(c)
  BY <1>8 DEF Unregister
<1> QED
  BY <1>1, <1>2, <1>3, <1>4, <1>5, <1>6, <1>7, <1>8, ZenonT(60) DEF Lifecycle

\* The passing of time changes the age of the slot and nothing the invariant is about.
LEMMA TickStep ==
  ASSUME IInv, Tick
  PROVE  IInv'
<1> USE ConnsAssumption DEF manager, locals, conn
<1>1. current \in Slot
  BY DEF IInv, TypeOK, Tick, FreeSlot
<1>2. /\ current' \in Slot
      /\ current'.id = current.id
      /\ current'.state = current.state
  BY <1>1 DEF Tick, Slot, Ages
<1>3. TypeOK'
  BY <1>2 DEF IInv, TypeOK, Tick
<1>4. ASSUME NEW d \in Conns
      PROVE  Links(d)'
  BY <1>2 DEF IInv, Tick, Links, PointSlot, SlotPoint, LockPoint, MutexPoint, AbortPoint, FlagPoint,
              Holds, Alive, Resting
<1> QED
  BY <1>3, <1>4 DEF IInv

\* The manager starts in a state of the inductive invariant.
LEMMA InductiveInit == Init => IInv
<1> SUFFICES ASSUME Init PROVE IInv
  OBVIOUS
<1> USE ConnsAssumption DEF Init
<1>1. TypeOK
  <2>1. write_queue \in Seq(Entry) /\ pc \in [Conns -> Points]
    BY PointsAre
  <2> QED
    BY <2>1, ZenonT(60) DEF TypeOK
<1>2. ASSUME NEW d \in Conns
      PROVE  Links(d)
  BY DEF FreeSlot, Links, PointSlot, SlotPoint, LockPoint, MutexPoint, AbortPoint, FlagPoint,
         Holds, Alive, Resting
<1> QED
  BY <1>1, <1>2 DEF IInv

\* The inductive invariant is preserved by every step.
LEMMA InductiveStep == IInv /\ [Next]_vars => IInv'
<1> SUFFICES ASSUME IInv, [Next]_vars PROVE IInv'
  OBVIOUS
<1>1. ASSUME NEW c \in Conns,
             Acquire(c) \/ WriteTxn(c) \/ Checkpoint(c) \/ Lifecycle(c)
      PROVE  IInv'
  <2>1. TypeOK'
    BY <1>1, TypeAcquire, TypeWriteTxn, TypeCheckpoint, TypeLifecycle DEF IInv
  <2>2. ASSUME NEW d \in Conns
        PROVE  Links(d)'
    BY <1>1, LinksAcquire, LinksWriteTxn, LinksCheckpoint, LinksLifecycle
  <2> QED
    BY <2>1, <2>2 DEF IInv
<1>2. CASE UNCHANGED vars
  BY <1>2 DEF vars, manager, locals, conn, IInv, TypeOK, Links, PointSlot, SlotPoint, LockPoint,
              MutexPoint, AbortPoint, FlagPoint, Holds, Alive
<1> QED
  BY <1>1, <1>2, TickStep DEF Next, Step, Terminated

\* IInv holds of every reachable state of the connection manager.
THEOREM Inductive == Spec => []IInv
  BY InductiveInit, InductiveStep, PTL DEF Spec

\* The type invariant holds for any number of connections.
THEOREM TypeCorrect == Spec => []TypeOK
<1>1. IInv => TypeOK
  BY DEF IInv
<1> QED
  BY <1>1, Inductive, PTL

\* SQLite's write lock is only held by the owner of the slot: two connections never
\* believe they may write, whatever is stolen, aborted, dropped or refused meanwhile.
THEOREM WriterOwnsSlotAlways == Spec => []WriterOwnsSlot
<1>1. IInv => WriterOwnsSlot
  BY ConnsAssumption DEF IInv, TypeOK, WriterOwnsSlot, Links, LockPoint, PointSlot, Holds
<1> QED
  BY <1>1, Inductive, PTL

\* The assertions and unwraps on the slot cannot fail where AssertionsHold states them: in
\* acquire(), where the slot is marked after the inner call, and in every release() but the
\* one at the end of close().
THEOREM AssertionsHoldAtWork == Spec => []AssertionsHold
<1>1. ASSUME IInv, NEW c \in Conns, Contending(c), current.id = c
      PROVE  current.state \in {"Notified", "Failure"}
  <2>1. current.state \in SlotStates
    BY <1>1, ConnsAssumption DEF IInv, TypeOK, Slot, FreeSlot
  <2> QED
    BY <1>1, <2>1 DEF IInv, Links, SlotPoint, LockPoint, Contending, SlotStates
<1>2. IInv => AssertionsHold
  BY <1>1, Zenon DEF IInv, AssertionsHold, Links, PointSlot, AbortPoint, Holds
<1> QED
  BY <1>2, Inductive, PTL

\* The forced_rollback flag of a connection is down whenever it has a write transaction, so
\* force_rollback() is never skipped for a transaction it should roll back.
THEOREM AbortAlwaysEffective == Spec => []AbortIsEffective
<1>1. IInv => AbortIsEffective
  BY DEF IInv, AbortIsEffective, Links, FlagPoint
<1> QED
  BY <1>1, Inductive, PTL

\* A client whose transaction was taken away is always told so by its next step: the
\* forced_rollback flag is not lost in any interleaving.
THEOREM RollbackNeverSilent == Spec => []NoSilentRollback
<1>1. ASSUME IInv, NEW c \in Conns, in_txn[c]
      PROVE  \/ wlock = c
             \/ forced_rollback[c]
             \/ \E w \in Conns : pc[w] = "abortrel" /\ target[w] = c
  <2>1. CASE mutex[c] \notin {None, c}
    <3>1. mutex[c] \in Conns
      BY <1>1, <2>1 DEF IInv, TypeOK
    <3> QED
      BY <1>1, <2>1, <3>1 DEF IInv, Links, MutexPoint
  <2> QED
    BY <1>1, <2>1 DEF IInv, Links, FlagPoint
<1>2. IInv => NoSilentRollback
  BY <1>1 DEF NoSilentRollback
<1> QED
  BY <1>2, Inductive, PTL

-----------------------------------------------------------------------------
(* The invariant of the queue.                                             *)

In(q, e) == \E i \in DOMAIN q : q[i] = e
Listed(c) == In(write_queue, [id |-> c, live |-> TRUE])

\* The points from which a call goes on to park without a deadline.
Parks == {"lookup", "lock", "abortrel", "park"}

Queued(c) ==
  /\ enqueued[c] => pc[c] \in InAcquire /\ (Listed(c) \/ current.id = c \/ stale[c])
  /\ current.id = c /\ current.state = "Failure" => ~enqueued[c]
  /\ pc[c] \in Parks => token[c] \/ Listed(c)
  /\ pc[c] \in {"qlen", "drain"} => \A e \in Conns : enqueued[e] => stale[e]
  /\ pc[c] = "drain" => left = Len(write_queue)

QInv == IInv /\ \A c \in Conns : Queued(c)

-----------------------------------------------------------------------------
(* The queue.                                                              *)

\* Taking the head of the queue leaves the other entries in it.
LEMMA InTail ==
  ASSUME NEW q \in Seq(Entry), q # <<>>, NEW e, In(q, e)
  PROVE  e = Head(q) \/ In(Tail(q), e)
<1>1. PICK i \in DOMAIN q : q[i] = e
  BY Zenon DEF In
<1>2. CASE i = 1
  BY <1>1, <1>2
<1>3. CASE i # 1
  <2>1. i - 1 \in DOMAIN Tail(q) /\ Tail(q)[i - 1] = q[i]
    BY <1>3
  <2> QED BY <1>1, <2>1, Zenon DEF In
<1> QED BY <1>2, <1>3, Zenon

\* The loop's push keeps what is queued; after it the caller is listed if it pushed itself.
LEMMA InEnqueued ==
  ASSUME TypeOK, NEW c \in Conns
  PROVE  /\ \A e : In(write_queue, e) => In(Enqueued(c), e)
         /\ current.id # c /\ ~enqueued[c] => In(Enqueued(c), [id |-> c, live |-> TRUE])
<1> DEFINE r == [id |-> c, live |-> TRUE]
<1>1. write_queue \in Seq(Entry) /\ r \in Entry
  BY Zenon DEF TypeOK, Entry
<1> HIDE DEF r
<1>2. CASE current.id # c /\ ~enqueued[c]
  <2>1. Enqueued(c) = Append(write_queue, r)
    BY <1>2, Zenon DEF Enqueued, r
  <2>2. Append(write_queue, r)[Len(write_queue) + 1] = r /\ Len(write_queue) + 1 \in DOMAIN Append(write_queue, r)
    BY <1>1
  <2>3. \A i \in DOMAIN write_queue : i \in DOMAIN Append(write_queue, r) /\ Append(write_queue, r)[i] = write_queue[i]
    BY <1>1
  <2> QED BY <2>1, <2>2, <2>3, Zenon DEF In, r
<1>3. CASE ~(current.id # c /\ ~enqueued[c])
  <2>1. Enqueued(c) = write_queue
    BY <1>3, Zenon DEF Enqueued
  <2> QED BY <1>3, <2>1, Zenon
<1> QED BY <1>2, <1>3, Zenon

\* A call that leaves acquire() leaves the entries of the others, and the length.
LEMMA InAbandon ==
  ASSUME NEW q \in Seq(Entry), NEW c \in Conns
  PROVE  /\ Len(Abandon(c, q)) = Len(q) /\ DOMAIN Abandon(c, q) = DOMAIN q
         /\ \A i \in DOMAIN q : Abandon(c, q)[i].id = q[i].id
         /\ \A e \in Conns \ {c} : In(q, [id |-> e, live |-> TRUE]) => In(Abandon(c, q), [id |-> e, live |-> TRUE])
<1>1. DOMAIN Abandon(c, q) = DOMAIN q
  BY Zenon DEF Abandon
<1>2. Abandon(c, q) \in Seq(Entry)
  BY AbandonType, Zenon
<1>3. Len(Abandon(c, q)) = Len(q)
  BY <1>1, <1>2
<1>4. \A i \in DOMAIN q : Abandon(c, q)[i] = IF q[i].id = c THEN [q[i] EXCEPT !.live = FALSE] ELSE q[i]
  BY Zenon DEF Abandon
<1>5. \A i \in DOMAIN q : q[i] \in Entry
  OBVIOUS
<1>6. \A i \in DOMAIN q : Abandon(c, q)[i].id = q[i].id
  BY <1>4, <1>5, Zenon DEF Entry
<1>7. \A e \in Conns \ {c} : In(q, [id |-> e, live |-> TRUE]) => In(Abandon(c, q), [id |-> e, live |-> TRUE])
  <2> SUFFICES ASSUME NEW e \in Conns \ {c}, NEW i \in DOMAIN q, q[i] = [id |-> e, live |-> TRUE]
               PROVE  In(Abandon(c, q), [id |-> e, live |-> TRUE])
    BY Zenon DEF In
  <2>1. q[i].id # c
    OBVIOUS
  <2>2. Abandon(c, q)[i] = q[i]
    BY <1>4, <2>1, Zenon
  <2> QED BY <1>1, <2>2, Zenon DEF In
<1> QED BY <1>1, <1>3, <1>6, <1>7, Zenon

\* release() gives the slot to the call whose entry it takes, and unparks it.
LEMMA ReleaseKeeps ==
  ASSUME TypeOK, Release, NEW e \in Conns
  PROVE  /\ Listed(e) => Listed(e)' \/ (token'[e] /\ current'.id = e)
         /\ token[e] => token'[e]
<1>1. CASE write_queue = <<>>
  BY <1>1, Zenon DEF Release, Listed
<1>2. CASE write_queue # <<>>
  <2>1. /\ write_queue \in Seq(Entry) /\ token \in [Conns -> BOOLEAN]
        /\ current' = NotifiedSlot(write_queue) /\ write_queue' = Tail(write_queue)
        /\ token' = Unparked(Head(write_queue), token)
    BY <1>2, Zenon DEF TypeOK, Release
  <2>2. Head(write_queue) \in Entry /\ NotifiedSlot(write_queue).id = Head(write_queue).id
    BY <1>2, <2>1, QueueType, Zenon
  <2>3. Head(write_queue) = [id |-> e, live |-> TRUE] => token'[e] /\ current'.id = e
    BY <2>1, <2>2 DEF Unparked
  <2>4. token[e] => token'[e]
    BY <2>1, <2>2, EntryType, Zenon DEF Unparked
  <2>5. Listed(e) => Listed(e)' \/ Head(write_queue) = [id |-> e, live |-> TRUE]
    BY <1>2, <2>1, InTail, Zenon DEF Listed
  <2> QED BY <2>3, <2>4, <2>5, Zenon
<1> QED BY <1>1, <1>2, Zenon

-----------------------------------------------------------------------------
(* What a step of connection c may do to the others.                       *)

Others(c) ==
  /\ \A e \in Conns \ {c} :
       /\ pc'[e] = pc[e] /\ enqueued'[e] = enqueued[e] /\ (token[e] => token'[e])
       /\ enqueued[e] /\ stale[e] => stale'[e]
       /\ Listed(e) => Listed(e)' \/ (token'[e] /\ (current'.id = e \/ (enqueued[e] => stale'[e])))
       /\ current.id = e /\ enqueued[e] => current'.id = e
       /\ current'.id = e /\ current'.state = "Failure" => current.id = e /\ current.state = "Failure"
       /\ pc[e] \in {"qlen", "drain"} => (enqueued'[c] => stale'[c])
       /\ pc[e] = "drain" => left' = left /\ Len(write_queue') = Len(write_queue)

\* Such a step keeps the others queued.
LEMMA OthersStay ==
  ASSUME QInv, NEW c \in Conns, Others(c), Queued(c)'
  PROVE  \A e \in Conns : Queued(e)'
<1> SUFFICES ASSUME NEW e \in Conns \ {c} PROVE Queued(e)'
  BY Zenon
<1>1. Queued(e)
  BY Zenon DEF QInv
<1>2. /\ pc'[e] = pc[e] /\ enqueued'[e] = enqueued[e] /\ (token[e] => token'[e])
      /\ enqueued[e] /\ stale[e] => stale'[e]
      /\ Listed(e) => Listed(e)' \/ (token'[e] /\ (current'.id = e \/ (enqueued[e] => stale'[e])))
      /\ current.id = e /\ enqueued[e] => current'.id = e
      /\ current'.id = e /\ current'.state = "Failure" => current.id = e /\ current.state = "Failure"
      /\ pc[e] \in {"qlen", "drain"} => (enqueued'[c] => stale'[c])
      /\ pc[e] = "drain" => left' = left /\ Len(write_queue') = Len(write_queue)
  BY Zenon DEF Others
<1>3. enqueued'[e] => pc'[e] \in InAcquire /\ (Listed(e)' \/ current'.id = e \/ stale'[e])
  BY <1>1, <1>2, Zenon DEF Queued
<1>4. pc'[e] \in Parks => token'[e] \/ Listed(e)'
  BY <1>1, <1>2, Zenon DEF Queued
<1>5. pc'[e] \in {"qlen", "drain"} => \A f \in Conns : enqueued'[f] => stale'[f]
  <2> SUFFICES ASSUME pc'[e] \in {"qlen", "drain"}, NEW f \in Conns, enqueued'[f] PROVE stale'[f]
    BY Zenon
  <2>1. CASE f = c
    BY <1>2, <2>1, Zenon
  <2>2. CASE f # c
    <3>1. enqueued[f] /\ (enqueued[f] /\ stale[f] => stale'[f])
      BY <2>2, Zenon DEF Others
    <3>2. enqueued[f] => stale[f]
      BY <1>1, <1>2, Zenon DEF Queued
    <3> QED BY <3>1, <3>2, Zenon
  <2> QED BY <2>1, <2>2, Zenon
<1> QED BY <1>1, <1>2, <1>3, <1>4, <1>5, Zenon DEF Queued

\* A step of c that leaves the queue and the calls alone, and may change the slot's state or
\* age, and then only to Failure if it is its own.
Quiet(c) ==
  /\ UNCHANGED <<write_queue, enqueued, stale, token>>
  /\ \A e \in Conns \ {c} : pc'[e] = pc[e]
  /\ current'.id = current.id
  /\ current'.state = "Failure" => current.state = "Failure" \/ current.id \notin Conns \ {c}
  /\ (\E e \in Conns \ {c} : pc[e] = "drain") => left' = left
  /\ pc[c] \in InAcquire => pc'[c] \in InAcquire
  /\ pc'[c] \in Parks => pc[c] \in Parks
  /\ pc'[c] \in {"qlen", "drain"} => pc[c] \in {"qlen", "drain"}
  /\ pc'[c] = "drain" => left' = Len(write_queue)
  /\ current'.state = "Failure" => current.state = "Failure" \/ pc[c] \notin InAcquire

\* It keeps everybody queued.
LEMMA QuietStays ==
  ASSUME QInv, NEW c \in Conns, Quiet(c)
  PROVE  \A e \in Conns : Queued(e)'
<1>1. Others(c)
  <2> SUFFICES ASSUME NEW e \in Conns \ {c}
               PROVE  /\ pc[e] \in {"qlen", "drain"} => (enqueued'[c] => stale'[c])
                      /\ current'.id = e /\ current'.state = "Failure" => current.id = e /\ current.state = "Failure"
    BY Zenon DEF Others, Quiet, Listed
  <2>1. pc[e] \in {"qlen", "drain"} => (enqueued[c] => stale[c])
    BY Zenon DEF QInv, Queued
  <2> QED BY <2>1, Zenon DEF Quiet
<1>2. Queued(c)'
  <2>1. Queued(c)
    BY Zenon DEF QInv
  <2>2. UNCHANGED <<write_queue, enqueued, stale, token>> /\ current'.id = current.id /\ Listed(c)' = Listed(c)
    BY Zenon DEF Quiet, Listed
  <2>3. enqueued'[c] => pc'[c] \in InAcquire /\ (Listed(c)' \/ current'.id = c \/ stale'[c])
    BY <2>1, <2>2, Zenon DEF Queued, Quiet
  <2>4. current'.id = c /\ current'.state = "Failure" => ~enqueued'[c]
    BY <2>1, <2>2, Zenon DEF Queued, Quiet
  <2>5. pc'[c] \in Parks => token'[c] \/ Listed(c)'
    BY <2>1, <2>2, Zenon DEF Queued, Quiet
  <2>6. pc'[c] \in {"qlen", "drain"} => \A e \in Conns : enqueued'[e] => stale'[e]
    BY <2>1, <2>2, Zenon DEF Queued, Quiet
  <2> QED BY <2>2, <2>3, <2>4, <2>5, <2>6, Zenon DEF Queued, Quiet
<1> QED BY <1>1, <1>2, OthersStay, Zenon

-----------------------------------------------------------------------------
(* The actions.                                                            *)

\* The program point of the thread that takes a step.
LEMMA GotoPoint ==
  ASSUME TypeOK, NEW c \in Conns, NEW p, Goto(c, p)
  PROVE  pc'[c] = p /\ \A e \in Conns \ {c} : pc'[e] = pc[e]
  BY Zenon DEF TypeOK, Goto

\* The steps that end a call and come before one, and those of a connection's life, are quiet.
LEMMA LifecycleQuiet ==
  ASSUME IInv, NEW c \in Conns, Lifecycle(c)
  PROVE  Quiet(c)
<1> TypeOK
  BY Zenon DEF IInv
<1> USE DEF manager, locals, conn
<1>1. /\ UNCHANGED <<write_queue, enqueued, stale, token, current, left>>
      /\ \A e \in Conns \ {c} : pc'[e] = pc[e]
  BY GotoPoint, ZenonT(30) DEF Lifecycle, Open, StepTimedOut, StepBegin, StepEnd, Drop, DropRollback,
     CloseCheck, Unregister
<1>2. /\ pc[c] \notin InAcquire \cup {"drain"}
      /\ pc'[c] \in {"idle", "step", "dropping", "droprel", "close", "closerel", "unreg", "closed"}
  BY GotoPoint, Zenon DEF Lifecycle, Open, StepTimedOut, StepBegin, StepEnd, Drop, DropRollback, CloseCheck,
     Unregister, InAcquire
<1> QED BY <1>1, <1>2, Zenon DEF Quiet, InAcquire, Parks

\* So are the steps of a write transaction other than release().
LEMMA WriteTxnQuiet ==
  ASSUME IInv, NEW c \in Conns, WriteTxn(c), ~DoRelease(c)
  PROVE  Quiet(c)
<1> TypeOK
  BY Zenon DEF IInv
<1> USE DEF manager, locals, conn
<1>1. /\ UNCHANGED <<write_queue, enqueued, stale, token, left>>
      /\ \A e \in Conns \ {c} : pc'[e] = pc[e]
  BY GotoPoint, ZenonT(30) DEF WriteTxn, BeginWriteTxn, Call, InnerOk, InnerErr, MarkAcquired, MarkFailure,
     MarkSlot, Retry, GiveUp, EndWriteTxn, EndReadTxn, EndReadCheck
<1>2. /\ pc[c] \in {"step", "inner", "begun", "innerbusy", "failed", "open", "endread"}
      /\ pc'[c] \in {"enter", "begun", "innerbusy", "errrel", "open", "failed", "done", "release", "endread"}
  BY GotoPoint, Zenon DEF WriteTxn, BeginWriteTxn, Call, InnerOk, InnerErr, MarkAcquired, MarkFailure,
     MarkSlot, Retry, GiveUp, EndWriteTxn, EndReadTxn, EndReadCheck
<1>3. current'.id = current.id /\ (current'.state = "Failure" => current.state = "Failure" \/ current.id = c)
  <2>1. CASE MarkAcquired(c)
    BY <2>1, Zenon DEF MarkAcquired, MarkSlot, TypeOK, Slot, FreeSlot
  <2>2. CASE MarkFailure(c)
    <3>1. current.id = c
      BY <2>2, Zenon DEF MarkFailure, IInv, Links, PointSlot, Holds
    <3> QED BY <2>2, <3>1, Zenon DEF MarkFailure, MarkSlot, TypeOK, Slot, FreeSlot
  <2>3. CASE ~MarkAcquired(c) /\ ~MarkFailure(c)
    BY <2>3, Zenon DEF WriteTxn, BeginWriteTxn, Call, InnerOk, InnerErr, Retry, GiveUp, EndWriteTxn,
       EndReadTxn, EndReadCheck
  <2> QED BY <2>1, <2>2, <2>3, Zenon
<1> QED BY <1>1, <1>2, <1>3 DEF Quiet, InAcquire, Parks

\* So are the steps of a checkpoint that do not touch the token or the queue.
LEMMA CheckpointQuiet ==
  ASSUME IInv, NEW c \in Conns, Checkpoint(c), ~BumpToken(c), ~Drain(c)
  PROVE  Quiet(c)
<1> TypeOK
  BY Zenon DEF IInv
<1> USE DEF manager, locals, conn
<1>1. UNCHANGED <<write_queue, enqueued, stale, token>> /\ \A e \in Conns \ {c} : pc'[e] = pc[e]
  BY GotoPoint, ZenonT(30) DEF Checkpoint, BeginCheckpoint, Call, MarkCheckpoint, MarkSlot, SkipSync, QueueLen,
     CheckpointDone
<1>2. current'.id = current.id /\ (current'.state = "Failure" => current.state = "Failure")
  <2>1. CASE MarkCheckpoint(c)
    BY <2>1, Zenon DEF MarkCheckpoint, MarkSlot, TypeOK, Slot, FreeSlot
  <2>2. CASE ~MarkCheckpoint(c)
    BY <2>2, Zenon DEF Checkpoint, BeginCheckpoint, Call, SkipSync, QueueLen, CheckpointDone
  <2> QED BY <2>1, <2>2, Zenon
<1>3. CASE QueueLen(c)
  <2>1. \A e \in Conns \ {c} : pc[e] # "drain"
    BY <1>3, Zenon DEF QueueLen, IInv, Links, PointSlot, Holds
  <2>2. pc[c] = "qlen" /\ pc'[c] = "drain" /\ left' = Len(write_queue)
    BY <1>3, GotoPoint, Zenon DEF QueueLen
  <2> QED BY <1>1, <1>2, <2>1, <2>2, Zenon DEF Quiet, InAcquire, Parks
<1>4. CASE ~QueueLen(c)
  <2>1. left' = left
    BY <1>4, Zenon DEF Checkpoint, BeginCheckpoint, Call, MarkCheckpoint, MarkSlot, SkipSync, CheckpointDone
  <2>2. pc[c] \in {"step", "released", "inner", "ckpt", "ckptrun"} /\ pc'[c] \in {"enter", "ckpt", "ckptrun", "release"}
    BY <1>4, GotoPoint, Zenon DEF Checkpoint, BeginCheckpoint, Call, MarkCheckpoint, MarkSlot, SkipSync,
       CheckpointDone
  <2> QED BY <1>1, <1>2, <2>1, <2>2, Zenon DEF Quiet, InAcquire, Parks
<1> QED BY <1>3, <1>4, Zenon

\* So are the steps of acquire() that neither push, leave, wake up nor release.
LEMMA AcquireQuiet ==
  ASSUME IInv, NEW c \in Conns, LoadToken(c) \/ Deadline(c) \/ AbortLookup(c) \/ AbortLock(c)
  PROVE  Quiet(c)
<1> TypeOK
  BY Zenon DEF IInv
<1> USE DEF manager, locals, conn
<1>1. UNCHANGED <<write_queue, enqueued, stale, token, current, left>> /\ \A e \in Conns \ {c} : pc'[e] = pc[e]
  BY GotoPoint, ZenonT(30) DEF LoadToken, Deadline, AbortLookup, AbortLock
<1>2. \/ pc[c] \in {"enter", "parkd"} /\ pc'[c] = "loop"
      \/ pc[c] \in {"lookup", "lock"} /\ pc'[c] \in {"lookup", "lock", "abortrel", "park"}
  BY GotoPoint, Zenon DEF LoadToken, Deadline, AbortLookup, AbortLock
<1> QED BY <1>1, <1>2, Zenon DEF Quiet, InAcquire, Parks

\* While a call contends for the slot nobody drains the queue.
LEMMA NobodyDrains ==
  ASSUME IInv, NEW c \in Conns, Contending(c), NEW e \in Conns
  PROVE  pc[e] \notin {"ckpt", "qlen", "drain", "ckptrun"}
<1> SUFFICES ASSUME pc[e] \in {"ckpt", "qlen", "drain", "ckptrun"} PROVE FALSE
  BY Zenon
<1>1. current.id = e /\ current.state = "Checkpoint"
  BY Zenon DEF IInv, Links, PointSlot, Holds
<1>2. e = c
  BY <1>1, ConnsAssumption, Zenon DEF Contending, OtherCheckpoint
<1> QED BY <1>2, Zenon DEF Contending

\* A call that contends for a slot that is not its own is in the queue after its push.
LEMMA Pushed ==
  ASSUME QInv, NEW c \in Conns, Contending(c), current.id # c
  PROVE  In(Enqueued(c), [id |-> c, live |-> TRUE])
<1>1. CASE enqueued[c]
  <2>1. Listed(c)
    BY <1>1, Zenon DEF QInv, Queued, Contending
  <2> QED BY <2>1, InEnqueued, Zenon DEF QInv, IInv, Listed
<1>2. CASE ~enqueued[c]
  BY <1>2, InEnqueued, Zenon DEF QInv, IInv
<1> QED BY <1>1, <1>2, Zenon

\* A call that ends with an error, or because the slot is its own.
LEMMA LeaveStays ==
  ASSUME QInv, NEW c \in Conns, AcquireStale(c) \/ AcquireBusy(c) \/ AcquireOwn(c)
  PROVE  \A e \in Conns : Queued(e)'
<1>0. TypeOK /\ write_queue \in Seq(Entry)
  BY Zenon DEF QInv, IInv, TypeOK
<1>1. /\ LeaveAcquire(c, write_queue) /\ left' = left /\ (Goto(c, "failed") \/ Goto(c, "inner"))
      /\ current' = current \/ (current.id = c /\ current' = [current EXCEPT !.state = "Acquiring"])
  BY Zenon DEF AcquireStale, AcquireBusy, AcquireOwn, manager
<1>2. pc'[c] \in {"failed", "inner"} /\ \A e \in Conns \ {c} : pc'[e] = pc[e]
  BY <1>0, <1>1, GotoPoint, Zenon
<1>3. current'.id = current.id /\ (current'.state = "Failure" => current.state = "Failure")
  BY <1>0, <1>1, Zenon DEF TypeOK, Slot, FreeSlot
<1>4. /\ enqueued'[c] = FALSE
      /\ \A e \in Conns \ {c} : enqueued'[e] = enqueued[e] /\ token'[e] = token[e] /\ stale'[e] = stale[e]
  BY <1>0, <1>1, Zenon DEF LeaveAcquire, TypeOK
<1>5. Len(write_queue') = Len(write_queue) /\ \A e \in Conns \ {c} : Listed(e) => Listed(e)'
  BY <1>0, <1>1, InAbandon, Zenon DEF LeaveAcquire, Listed
<1>6. Others(c)
  BY <1>1, <1>2, <1>3, <1>4, <1>5, Zenon DEF Others
<1>7. Queued(c)'
  BY <1>2, <1>4, Zenon DEF Queued, Parks
<1> QED BY <1>6, <1>7, OthersStay, Zenon

\* A call that pushes itself and waits, or goes to abort the owner.
LEMMA PushStays ==
  ASSUME QInv, NEW c \in Conns, AcquireSteal(c) \/ AcquireWait(c)
  PROVE  \A e \in Conns : Queued(e)'
<1>0. TypeOK /\ write_queue \in Seq(Entry)
  BY Zenon DEF QInv, IInv, TypeOK
<1>1. /\ Contending(c) /\ current.id # c /\ write_queue' = Enqueued(c)
      /\ enqueued' = [enqueued EXCEPT ![c] = TRUE]
      /\ UNCHANGED <<current, left, stale, token>> /\ (Goto(c, "lookup") \/ Goto(c, "parkd"))
  BY Zenon DEF AcquireSteal, AcquireWait, manager
<1>2. pc'[c] \in {"lookup", "parkd"} /\ \A e \in Conns \ {c} : pc'[e] = pc[e]
  BY <1>0, <1>1, GotoPoint, Zenon
<1>3. enqueued'[c] = TRUE /\ \A e \in Conns \ {c} : enqueued'[e] = enqueued[e]
  BY <1>0, <1>1, Zenon DEF TypeOK
<1>4. Listed(c)' /\ \A e \in Conns : Listed(e) => Listed(e)'
  BY <1>0, <1>1, Pushed, InEnqueued, Zenon DEF Listed
<1>5. Others(c)
  <2>1. \A e \in Conns : pc[e] \notin {"ckpt", "qlen", "drain", "ckptrun"}
    BY <1>1, NobodyDrains, Zenon DEF QInv
  <2> QED BY <1>1, <1>2, <1>3, <1>4, <2>1, Zenon DEF Others
<1>6. Queued(c)'
  <2>1. ~(current'.id = c)
    BY <1>1, Zenon
  <2> QED BY <1>2, <1>3, <1>4, <2>1, Zenon DEF Queued, InAcquire, Parks
<1> QED BY <1>5, <1>6, OthersStay, Zenon

\* A call that schedules the next one, itself or another.
LEMMA ScheduleStays ==
  ASSUME QInv, NEW c \in Conns, AcquireSchedule(c)
  PROVE  \A e \in Conns : Queued(e)'
<1> DEFINE q == Enqueued(c)
           r(e) == [id |-> e, live |-> TRUE]
<1>0. TypeOK /\ write_queue \in Seq(Entry) /\ token \in [Conns -> BOOLEAN] /\ None \notin Conns
  BY ConnsAssumption, Zenon DEF QInv, IInv, TypeOK
<1>1. /\ Contending(c) /\ current.id # c /\ left' = left
      /\ q # <<>> /\ (current.id = None \/ current.state = "Failure")
  BY <1>0, Zenon DEF AcquireSchedule, manager
<1>2. q \in Seq(Entry) /\ In(q, r(c)) /\ \A e \in Conns : Listed(e) => In(q, r(e))
  BY <1>0, <1>1, EnqueuedType, Pushed, InEnqueued, Zenon DEF Listed
<1>3. /\ Head(q) \in Entry /\ Tail(q) \in Seq(Entry)
      /\ NotifiedSlot(q).id = Head(q).id /\ NotifiedSlot(q).state = "Notified"
      /\ NotifiedSlot(q) \in Slot
  BY <1>1, <1>2, QueueType, Zenon
<1>4. \A e \in Conns : In(q, r(e)) => r(e) = Head(q) \/ In(Tail(q), r(e))
  BY <1>1, <1>2, InTail, Zenon
<1>5. \A e \in Conns \ {c} :
        /\ ~(current.id = e /\ enqueued[e])
        /\ pc[e] \notin {"qlen", "drain"}
  <2>1. \A e \in Conns : pc[e] \notin {"ckpt", "qlen", "drain", "ckptrun"}
    BY <1>1, NobodyDrains, Zenon DEF QInv
  <2>2. \A e \in Conns : current.id = e => ~enqueued[e]
    BY <1>0, <1>1, Zenon DEF QInv, Queued
  <2> QED BY <2>1, <2>2, Zenon
<1> HIDE DEF q
<1>6. CASE Head(q).id = c
  <2>1. /\ current' = [NotifiedSlot(q) EXCEPT !.state = "Acquiring"]
        /\ LeaveAcquire(c, Tail(q)) /\ Goto(c, "inner")
    BY <1>6, Zenon DEF AcquireSchedule, q
  <2>2. current'.id = c /\ current'.state = "Acquiring"
    BY <1>3, <1>6, <2>1, Zenon DEF Slot
  <2>3. pc'[c] = "inner" /\ \A e \in Conns \ {c} : pc'[e] = pc[e]
    BY <1>0, <2>1, GotoPoint, Zenon
  <2>4. /\ enqueued'[c] = FALSE
        /\ \A e \in Conns \ {c} : enqueued'[e] = enqueued[e] /\ token'[e] = token[e] /\ stale'[e] = stale[e]
    BY <1>0, <2>1, Zenon DEF LeaveAcquire, TypeOK
  <2>5. \A e \in Conns \ {c} : r(e) # Head(q)
    BY <1>6
  <2>6. \A e \in Conns \ {c} : Listed(e) => Listed(e)'
    BY <1>2, <1>3, <1>4, <2>1, <2>5, InAbandon, Zenon DEF LeaveAcquire, Listed
  <2>7. Others(c)
    BY <1>5, <2>2, <2>3, <2>4, <2>6, Zenon DEF Others
  <2>8. Queued(c)'
    BY <2>2, <2>3, <2>4, Zenon DEF Queued, Parks
  <2> QED BY <2>7, <2>8, OthersStay, Zenon
<1>7. CASE Head(q).id # c
  <2>1. /\ current' = NotifiedSlot(q) /\ write_queue' = Tail(q) /\ token' = Unparked(Head(q), token)
        /\ enqueued' = [enqueued EXCEPT ![c] = TRUE] /\ stale' = stale /\ Goto(c, "park")
    BY <1>7, Zenon DEF AcquireSchedule, q
  <2>2. pc'[c] = "park" /\ \A e \in Conns \ {c} : pc'[e] = pc[e]
    BY <1>0, <2>1, GotoPoint, Zenon
  <2>3. enqueued'[c] = TRUE /\ \A e \in Conns \ {c} : enqueued'[e] = enqueued[e]
    BY <1>0, <2>1, Zenon DEF TypeOK
  <2>4. \A e \in Conns : token[e] => token'[e]
    BY <1>0, <1>3, <2>1, EntryType, Zenon DEF Unparked
  <2>5. \A e \in Conns : r(e) = Head(q) => token'[e] /\ current'.id = e
    BY <1>0, <1>3, <2>1 DEF Unparked
  <2>6. \A e \in Conns : Listed(e) => Listed(e)' \/ (token'[e] /\ current'.id = e)
    BY <1>2, <1>4, <2>1, <2>5, Zenon DEF Listed
  <2>7. Listed(c)'
    <3>1. r(c) # Head(q)
      BY <1>7
    <3> QED BY <1>2, <1>4, <2>1, <3>1, Zenon DEF Listed
  <2>8. Others(c)
    BY <1>3, <1>5, <2>1, <2>2, <2>3, <2>4, <2>6, Zenon DEF Others
  <2>9. Queued(c)'
    BY <1>3, <2>1, <2>2, <2>3, <2>7, Zenon DEF Queued, InAcquire, Parks
  <2> QED BY <2>8, <2>9, OthersStay, Zenon
<1> QED BY <1>6, <1>7, Zenon

\* A call that wakes up.
LEMMA UnparkStays ==
  ASSUME QInv, NEW c \in Conns, Unpark(c)
  PROVE  \A e \in Conns : Queued(e)'
<1>0. TypeOK /\ Queued(c) /\ \A e \in Conns : Queued(e)
  BY Zenon DEF QInv, IInv
<1>1. /\ pc[c] \in InAcquire /\ UNCHANGED <<current, write_queue, enqueued, stale, left>>
      /\ pc'[c] = "loop" /\ \A e \in Conns \ {c} : pc'[e] = pc[e]
      /\ \A e \in Conns \ {c} : token'[e] = token[e]
  BY <1>0, GotoPoint, Zenon DEF Unpark, InAcquire, manager, TypeOK
<1>2. Others(c)
  BY <1>0, <1>1, Zenon DEF Others, Listed, Queued
<1>3. Queued(c)'
  BY <1>0, <1>1, Zenon DEF Queued, Listed, InAcquire, Parks
<1> QED BY <1>2, <1>3, OthersStay, Zenon

\* release(), of the call's own thread or of one that aborts another.
LEMMA ReleaseStays ==
  ASSUME QInv, NEW c \in Conns, DoRelease(c) \/ AbortRelease(c)
  PROVE  \A e \in Conns : Queued(e)'
<1>0. TypeOK /\ IInv /\ Queued(c) /\ \A e \in Conns : Queued(e)
  BY Zenon DEF QInv, IInv
<1>1. CASE DoRelease(c) /\ current.id # c
  <2>1. UNCHANGED <<current, write_queue, token, pc, left, enqueued, stale>>
    BY <1>1, Zenon DEF DoRelease
  <2> QED BY <1>0, <2>1, Zenon DEF Queued, Listed
<1>2. CASE Release /\ ((DoRelease(c) /\ current.id = c) \/ AbortRelease(c))
  <2>1. /\ UNCHANGED <<left, enqueued, stale>> /\ \A e \in Conns \ {c} : pc'[e] = pc[e]
    BY <1>0, <1>2, GotoPoint, Zenon DEF DoRelease, AbortRelease, manager
  <2>2. /\ \A e \in Conns : pc[e] \notin {"qlen", "drain"}
        /\ \A e \in Conns : ~(current.id = e /\ enqueued[e])
    <3>1. CASE DoRelease(c) /\ current.id = c
      <4>1. pc[c] \in {"release", "errrel", "droprel", "closerel"}
        BY <3>1, Zenon DEF DoRelease, AfterRelease
      <4>2. ~enqueued[c]
        BY <1>0, <4>1, Zenon DEF Queued, InAcquire
      <4> QED BY <1>0, <3>1, <4>1, <4>2, Zenon DEF IInv, Links, PointSlot, Holds
    <3>2. CASE AbortRelease(c)
      <4>1. pc[c] = "abortrel" /\ current.id = target[c]
        BY <3>2, Zenon DEF AbortRelease
      <4>2. target[c] \in Conns \ {c} /\ Holds(target[c], {"WriteTxn"}) /\ mutex[target[c]] = c
        BY <1>0, <4>1, Zenon DEF IInv, Links, AbortPoint
      <4>3. pc[target[c]] = "idle"
        BY <1>0, <4>2, ConnsAssumption DEF IInv, Links, MutexPoint
      <4>4. ~enqueued[target[c]]
        BY <1>0, <4>2, <4>3, Zenon DEF Queued, InAcquire
      <4>5. \A e \in Conns : pc[e] \notin {"qlen", "drain"}
        BY <1>0, <4>1, <4>2, Zenon DEF IInv, Links, PointSlot, Holds
      <4> QED BY <4>1, <4>4, <4>5, Zenon
    <3> QED BY <1>2, <3>1, <3>2, Zenon
  <2>3. current'.state = "Notified"
    BY <1>0, <1>2, ReleaseType, Zenon
  <2>4. \A e \in Conns : (Listed(e) => Listed(e)' \/ (token'[e] /\ current'.id = e)) /\ (token[e] => token'[e])
    BY <1>0, <1>2, ReleaseKeeps, Zenon
  <2>5. Others(c)
    BY <2>1, <2>2, <2>3, <2>4, Zenon DEF Others
  <2>6. pc'[c] \notin {"qlen", "drain"} /\ (enqueued[c] => pc'[c] \in InAcquire) /\ (pc'[c] \in Parks => pc[c] \in Parks)
    <3>1. CASE DoRelease(c) /\ current.id = c
      <4>1. pc[c] \in {"release", "errrel", "droprel", "closerel"} /\ pc'[c] \in {"released", "failed", "close", "unreg"}
        BY <1>0, <3>1, GotoPoint DEF DoRelease, AfterRelease
      <4> QED BY <1>0, <4>1, Zenon DEF Queued, InAcquire, Parks
    <3>2. CASE AbortRelease(c)
      BY <1>0, <3>2, GotoPoint DEF AbortRelease, InAcquire, Parks
    <3> QED BY <1>2, <3>1, <3>2, Zenon
  <2>7. Queued(c)'
    <3>1. enqueued'[c] => pc'[c] \in InAcquire /\ (Listed(c)' \/ current'.id = c \/ stale'[c])
      BY <1>0, <2>1, <2>2, <2>4, <2>6, Zenon DEF Queued
    <3>2. pc'[c] \in Parks => token'[c] \/ Listed(c)'
      BY <1>0, <2>4, <2>6, Zenon DEF Queued
    <3> QED BY <2>3, <2>6, <3>1, <3>2, Zenon DEF Queued
  <2> QED BY <2>5, <2>7, OthersStay, Zenon
<1> QED BY <1>1, <1>2, Zenon DEF DoRelease, AbortRelease

\* A checkpoint that drains the queue tells every running call to give up.
LEMMA BumpStays ==
  ASSUME QInv, NEW c \in Conns, BumpToken(c)
  PROVE  \A e \in Conns : Queued(e)'
<1>0. TypeOK /\ IInv /\ Queued(c) /\ \A e \in Conns : Queued(e)
  BY Zenon DEF QInv, IInv
<1>1. /\ pc[c] = "ckpt" /\ UNCHANGED <<current, write_queue, enqueued, token, left>>
      /\ pc'[c] = "qlen" /\ \A e \in Conns \ {c} : pc'[e] = pc[e]
      /\ \A e \in Conns : stale'[e] = (pc[e] \in InAcquire)
  BY <1>0, GotoPoint, Zenon DEF BumpToken, manager
<1>2. \A e \in Conns : enqueued[e] => stale'[e]
  BY <1>0, <1>1, Zenon DEF Queued
<1>3. \A e \in Conns \ {c} : pc[e] \notin {"qlen", "drain"}
  BY <1>0, <1>1, Zenon DEF IInv, Links, PointSlot, Holds
<1>4. ~enqueued[c]
  BY <1>0, <1>1, Zenon DEF Queued, InAcquire
<1>5. Others(c)
  BY <1>1, <1>2, <1>3, <1>4, Zenon DEF Others, Listed
<1>6. Queued(c)'
  BY <1>1, <1>2, <1>4, Zenon DEF Queued, Parks
<1> QED BY <1>5, <1>6, OthersStay, Zenon

\* ... and takes one entry after the other.
LEMMA DrainStays ==
  ASSUME QInv, NEW c \in Conns, Drain(c)
  PROVE  \A e \in Conns : Queued(e)'
<1>0. TypeOK /\ IInv /\ Queued(c) /\ \A e \in Conns : Queued(e)
  BY Zenon DEF QInv, IInv
<1>1. /\ pc[c] = "drain" /\ UNCHANGED <<current, enqueued, stale>> /\ left = Len(write_queue)
      /\ ~enqueued[c] /\ current.state = "Checkpoint"
      /\ \A e \in Conns : enqueued[e] => stale[e]
  BY <1>0, Zenon DEF Drain, Queued, InAcquire, IInv, Links, PointSlot, Holds
<1>2. \A e \in Conns \ {c} : pc[e] \notin {"qlen", "drain"}
  BY <1>0, <1>1, Zenon DEF IInv, Links, PointSlot, Holds
<1>3. CASE left = 0
  <2>1. UNCHANGED <<write_queue, token, left>> /\ pc'[c] = "ckptrun" /\ \A e \in Conns \ {c} : pc'[e] = pc[e]
    BY <1>0, <1>3, GotoPoint, Zenon DEF Drain
  <2>2. Others(c)
    BY <1>1, <1>2, <2>1, Zenon DEF Others, Listed
  <2>3. Queued(c)'
    BY <1>1, <2>1, Zenon DEF Queued, Parks
  <2> QED BY <2>2, <2>3, OthersStay, Zenon
<1>4. CASE left # 0
  <2>1. /\ write_queue # <<>> /\ write_queue' = Tail(write_queue) /\ pc' = pc
        /\ token' = Unparked(Head(write_queue), token) /\ left' = left - 1
    BY <1>4, Zenon DEF Drain
  <2>2. write_queue \in Seq(Entry) /\ token \in [Conns -> BOOLEAN]
    BY <1>0, Zenon DEF TypeOK
  <2>3. Head(write_queue) \in Entry /\ Len(write_queue') = Len(write_queue) - 1
    BY <2>1, <2>2
  <2>4. \A e \in Conns : token[e] => token'[e]
    BY <2>1, <2>2, <2>3, EntryType, Zenon DEF Unparked
  <2>5. \A e \in Conns : Head(write_queue) = [id |-> e, live |-> TRUE] => token'[e]
    BY <2>1, <2>2, <2>3 DEF Unparked
  <2>6. \A e \in Conns : Listed(e) => Listed(e)' \/ token'[e]
    BY <2>1, <2>2, <2>5, InTail, Zenon DEF Listed
  <2>7. Others(c)
    BY <1>1, <1>2, <2>1, <2>4, <2>6, Zenon DEF Others
  <2>8. Queued(c)'
    BY <1>1, <2>1, <2>3, Zenon DEF Queued, Parks
  <2> QED BY <2>7, <2>8, OthersStay, Zenon
<1> QED BY <1>3, <1>4, Zenon

\* The queue invariant holds at the start and is kept by every step.
LEMMA QueueInit == Init => QInv
<1> SUFFICES ASSUME Init PROVE QInv
  BY Zenon
<1>1. IInv
  BY InductiveInit, Zenon
<1>2. ASSUME NEW c \in Conns PROVE Queued(c)
  BY Zenon DEF Init, Queued, Parks, FreeSlot
<1> QED BY <1>1, <1>2, Zenon DEF QInv

\* Every step keeps it.
LEMMA QueueStep == QInv /\ [Next]_vars => QInv'
<1> SUFFICES ASSUME QInv, [Next]_vars PROVE QInv'
  BY Zenon
<1>1. IInv'
  BY InductiveStep, Zenon DEF QInv
<1>2. ASSUME NEW c \in Conns, Acquire(c) PROVE \A e \in Conns : Queued(e)'
  <2>1. CASE LoadToken(c) \/ Deadline(c) \/ AbortLookup(c) \/ AbortLock(c)
    BY <2>1, AcquireQuiet, QuietStays, Zenon DEF QInv
  <2> QED BY <1>2, <2>1, LeaveStays, PushStays, ScheduleStays, UnparkStays, ReleaseStays, Zenon DEF Acquire
<1>3. ASSUME NEW c \in Conns, WriteTxn(c) PROVE \A e \in Conns : Queued(e)'
  BY <1>3, ReleaseStays, WriteTxnQuiet, QuietStays, Zenon DEF QInv
<1>4. ASSUME NEW c \in Conns, Checkpoint(c) PROVE \A e \in Conns : Queued(e)'
  BY <1>4, BumpStays, DrainStays, CheckpointQuiet, QuietStays, Zenon DEF QInv
<1>5. ASSUME NEW c \in Conns, Lifecycle(c) PROVE \A e \in Conns : Queued(e)'
  BY <1>5, LifecycleQuiet, QuietStays, Zenon DEF QInv
<1>6. CASE Tick
  <2>1. current \in Slot
    BY <1>6 DEF QInv, IInv, TypeOK, Tick, FreeSlot
  <2>2. current'.id = current.id /\ current'.state = current.state
    BY <1>6, <2>1, Zenon DEF Tick, Slot
  <2> QED BY <1>1, <1>6, <2>2, Zenon DEF Tick, QInv, Queued, Listed, manager, locals
<1>7. CASE UNCHANGED vars
  BY <1>1, <1>7, Zenon DEF vars, QInv, Queued, Listed
<1> QED BY <1>1, <1>2, <1>3, <1>4, <1>5, <1>6, <1>7, Zenon DEF QInv, Next, Step, Terminated

\* QInv holds of every reachable state, for any number of connections.
THEOREM QueueInvariant == Spec => []QInv
  BY QueueInit, QueueStep, PTL DEF Spec

\* schedule_next() inside acquire() finds its caller at worst, so the `None` arms after it are
\* never taken.
THEOREM WaiterAlwaysQueued == Spec => []WaiterIsQueued
<1>1. QInv => WaiterIsQueued
  BY DEF QInv, Queued, WaiterIsQueued, Listed, In
<1> QED BY <1>1, QueueInvariant, PTL

\* The length of the queue that a checkpoint read is the number of entries it finds, however
\* its drain interleaves with calls: no unwrap of a steal() fails and no entry is left.
THEOREM DrainAlwaysExclusive == Spec => []DrainIsExclusive
<1>1. QInv => DrainIsExclusive
  BY Zenon DEF QInv, Queued, DrainIsExclusive
<1> QED BY <1>1, QueueInvariant, PTL

\* A call that parks without a deadline has been unparked, or has its Parker in the queue.
THEOREM WakeupNeverLost == Spec => []NoLostWakeup
<1>1. QInv => NoLostWakeup
  BY Zenon DEF QInv, Queued, NoLostWakeup, Listed, In, Parks
<1> QED BY <1>1, QueueInvariant, PTL

=============================================================================
