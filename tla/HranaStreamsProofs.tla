------------------------- MODULE HranaStreamsProofs -------------------------
(***************************************************************************)
(* Proofs about HranaStreams, for any number of streams and requests and   *)
(* any durations.                                                          *)
(***************************************************************************)
EXTENDS HranaStreams, SequenceTheorems, TLAPS

\* A Guard and an Acquired handle go together, one Guard per stream.
GuardsAgree ==
  /\ \A r \in Requests : guard[r] # NoStream => handle[guard[r]] = "Acquired"
  /\ \A r, q \in Requests : r # q /\ guard[r] # NoStream => guard[r] # guard[q]

\* The cleanup queue holds streams that are Expired, each once.
CleanupAgrees ==
  /\ \A i \in 1..Len(cleanup) : handle[cleanup[i].id] = "Expired"
  /\ \A i, j \in 1..Len(cleanup) : i # j => cleanup[i].id # cleanup[j].id

\* An id that was not generated has no handle.
FreshHasNoHandle == \A s \in fresh : handle[s] = "none"

\* The number of a used baton is below the one its stream expects.
UsedIsOld == \A b \in accepted : b[2] < seq[b[1]]

\* Where the expiring task is not in its first loop, its timer is early enough.
AlarmCovers ==
  /\ AlarmIsSet
  /\ pump = "cleanup" => \A s \in StreamIds : expire[s] # Off => sleep <= expire[s]
  /\ pump = "idle" => woken \/ waker

IInv ==
  /\ TypeOK /\ NeverPanics /\ BatonUsedOnce /\ IdleIsTimed
  /\ GuardsAgree /\ CleanupAgrees /\ FreshHasNoHandle /\ UsedIsOld /\ AlarmCovers

-----------------------------------------------------------------------------
\* No stream, no guard, and the expiring task is about to be polled.
LEMMA InitIInv == Init => IInv
<1> SUFFICES ASSUME Init PROVE IInv
  BY Zenon
<1> USE StreamsAssumption DEF Init
<1>1. TypeOK
  <2>1. cleanup \in Seq([id : StreamIds, at : Nat])
    OBVIOUS
  <2>2. guard \in [Requests -> StreamIds \cup {NoStream}] /\ open \in [Requests -> BOOLEAN]
    BY Zenon
  <2>3. /\ handle \in [StreamIds -> {"none", "Available", "Acquired", "Expired"}]
        /\ seq \in [StreamIds -> Nat] /\ expire \in [StreamIds -> Nat \cup {Off}]
    BY Zenon
  <2>4. sleep \in Nat \cup {Off}
    BY Zenon
  <2>5. pump \in {"idle", "expire", "cleanup"} /\ fresh \subseteq StreamIds
    BY Zenon
  <2>6. /\ waker \in BOOLEAN /\ woken \in BOOLEAN /\ replayed \in BOOLEAN /\ panicked \in BOOLEAN
        /\ issued \subseteq StreamIds \X Nat /\ accepted \subseteq StreamIds \X Nat
    BY Zenon
  <2> QED BY <2>1, <2>2, <2>3, <2>4, <2>5, <2>6, Zenon DEF TypeOK
<1>2. cleanup = <<>> /\ Len(cleanup) = 0
  BY Zenon
<1>3. CleanupAgrees
  BY <1>2 DEF CleanupAgrees
<1>4. GuardsAgree /\ FreshHasNoHandle /\ UsedIsOld /\ AlarmCovers
  BY Zenon DEF GuardsAgree, FreshHasNoHandle, UsedIsOld, AlarmCovers, AlarmIsSet
<1>5. NeverPanics /\ BatonUsedOnce /\ IdleIsTimed
  BY Zenon DEF NeverPanics, BatonUsedOnce, IdleIsTimed
<1> QED BY <1>1, <1>3, <1>4, <1>5, Zenon DEF IInv

\* The entries of the cleanup queue.
LEMMA CleanupEntries ==
  ASSUME TypeOK, NEW i \in 1..Len(cleanup)
  PROVE  cleanup[i].id \in StreamIds /\ cleanup[i].at \in Nat
<1>1. cleanup \in Seq([id : StreamIds, at : Nat])
  BY Zenon DEF TypeOK
<1>2. cleanup[i] \in [id : StreamIds, at : Nat]
  BY <1>1, ElementOfSeq, Zenon
<1> QED BY <1>2, Zenon

\* A new stream has an id that was in no queue.
LEMMA CreateKeeps ==
  ASSUME IInv, NEW r \in Requests, Create(r) PROVE IInv'
<1> USE StreamsAssumption DEF IInv
<1>1. PICK s \in fresh :
        /\ handle' = [handle EXCEPT ![s] = "Acquired"]
        /\ guard' = [guard EXCEPT ![r] = s] /\ open' = [open EXCEPT ![r] = TRUE]
        /\ fresh' = fresh \ {s}
  BY Zenon DEF Create
<1>2. s \in StreamIds /\ handle[s] = "none"
  BY Zenon DEF TypeOK, FreshHasNoHandle
<1>3. TypeOK'
  BY <1>1, <1>2, Zenon DEF Create, TypeOK, streams, alarm
<1>4. GuardsAgree'
  BY <1>1, <1>2 DEF GuardsAgree, TypeOK
<1>5. CleanupAgrees'
  <2>1. cleanup' = cleanup
    BY Zenon DEF Create
  <2>2. \A i \in 1..Len(cleanup) : cleanup[i].id \in StreamIds
    BY CleanupEntries, Zenon
  <2>3. handle \in [StreamIds -> {"none", "Available", "Acquired", "Expired"}]
    BY Zenon DEF TypeOK
  <2>4. \A t \in StreamIds : handle'[t] = "Expired" <=> handle[t] = "Expired"
    BY <1>1, <1>2, <2>3
  <2> QED BY <2>1, <2>2, <2>4, Zenon DEF CleanupAgrees
<1>6. FreshHasNoHandle'
  BY <1>1, <1>2, Zenon DEF FreshHasNoHandle, TypeOK
<1>7. UsedIsOld' /\ AlarmCovers' /\ NeverPanics' /\ BatonUsedOnce'
  BY Zenon DEF Create, UsedIsOld, AlarmCovers, AlarmIsSet, NeverPanics, BatonUsedOnce, alarm
<1>8. IdleIsTimed'
  BY <1>1, <1>2 DEF Create, IdleIsTimed, TypeOK
<1> QED BY <1>3, <1>4, <1>5, <1>6, <1>7, <1>8, Zenon

\* A request takes up an idle stream: its timer goes, its baton is used.
LEMMA AcquireKeeps ==
  ASSUME IInv, NEW r \in Requests, NEW b \in Baton, Acquire(r, b) PROVE IInv'
<1> USE StreamsAssumption DEF IInv
<1>1. b[1] \in StreamIds /\ b[2] \in Nat /\ b = <<b[1], b[2]>>
  BY DEF Baton
<1>2. handle[b[1]] = "Available" /\ seq[b[1]] = b[2]
  BY Zenon DEF Acquire, BatonFits
<1>3. /\ handle' = [handle EXCEPT ![b[1]] = "Acquired"]
      /\ seq' = [seq EXCEPT ![b[1]] = @ + 1]
      /\ expire' = [expire EXCEPT ![b[1]] = Off]
      /\ guard' = [guard EXCEPT ![r] = b[1]]
      /\ accepted' = accepted \cup {b}
  BY Zenon DEF Acquire
<1>4. TypeOK'
  BY <1>1, <1>3 DEF Acquire, TypeOK, alarm
<1>5. b \notin accepted
  BY <1>2, <1>1 DEF UsedIsOld, TypeOK
<1>6. BatonUsedOnce' /\ NeverPanics'
  BY <1>5, Zenon DEF Acquire, BatonUsedOnce, NeverPanics
<1>7. IdleIsTimed'
  BY <1>1, <1>3, Zenon DEF IdleIsTimed, TypeOK
<1>8. GuardsAgree'
  BY <1>1, <1>2, <1>3 DEF GuardsAgree, TypeOK
<1>9. CleanupAgrees'
  <2>1. cleanup' = cleanup
    BY Zenon DEF Acquire
  <2>2. \A i \in 1..Len(cleanup) : cleanup[i].id \in StreamIds
    BY CleanupEntries, Zenon
  <2>3. handle \in [StreamIds -> {"none", "Available", "Acquired", "Expired"}]
    BY Zenon DEF TypeOK
  <2>4. \A t \in StreamIds : handle'[t] = "Expired" <=> handle[t] = "Expired"
    BY <1>1, <1>2, <1>3, <2>3
  <2> QED BY <2>1, <2>2, <2>4, Zenon DEF CleanupAgrees
<1>10. FreshHasNoHandle'
  BY <1>1, <1>2, <1>3 DEF Acquire, FreshHasNoHandle, TypeOK
<1>11. UsedIsOld'
  <2>1. seq \in [StreamIds -> Nat] /\ accepted \subseteq StreamIds \X Nat
    BY Zenon DEF TypeOK
  <2>2. SUFFICES ASSUME NEW c \in accepted' PROVE c[2] < seq'[c[1]]
    BY Zenon DEF UsedIsOld
  <2>3. CASE c = b
    BY <2>1, <2>3, <1>1, <1>2, <1>3
  <2>4. CASE c \in accepted
    <3>1. c[1] \in StreamIds /\ c[2] \in Nat
      BY <2>1, <2>4
    <3>2. c[2] < seq[c[1]]
      BY <2>4, Zenon DEF UsedIsOld
    <3> QED BY <2>1, <3>1, <3>2, <1>1, <1>3
  <2> QED BY <2>3, <2>4, <1>3, Zenon
<1>12. AlarmCovers'
  BY <1>1, <1>3 DEF Acquire, AlarmCovers, AlarmIsSet, TypeOK, alarm
<1> QED BY <1>4, <1>6, <1>7, <1>8, <1>9, <1>10, <1>11, <1>12, Zenon

\* Closing the connection of a stream touches nothing of the invariant.
LEMMA CloseDbKeeps ==
  ASSUME IInv, NEW r \in Requests, CloseDb(r) PROVE IInv'
  BY Zenon DEF CloseDb, streams, alarm, IInv, TypeOK, NeverPanics, BatonUsedOnce, IdleIsTimed,
     GuardsAgree, CleanupAgrees, FreshHasNoHandle, UsedIsOld, AlarmCovers, AlarmIsSet

\* What a destructor of Guard starts from.
LEMMA GuardedIsAcquired ==
  ASSUME IInv, NEW r \in Requests, guard[r] # NoStream
  PROVE  guard[r] \in StreamIds /\ handle[guard[r]] = "Acquired"
  BY Zenon DEF IInv, TypeOK, GuardsAgree

\* A guard's stream is in neither queue, so its handle may go.
LEMMA RemoveKeeps ==
  ASSUME IInv, NEW r \in Requests, guard[r] # NoStream, RemoveStream(guard[r]),
         guard' = [guard EXCEPT ![r] = NoStream],
         UNCHANGED <<open, fresh, issued, accepted, replayed>>
  PROVE  IInv'
<1> USE StreamsAssumption DEF IInv
<1>1. guard[r] \in StreamIds /\ handle[guard[r]] = "Acquired"
  BY GuardedIsAcquired, Zenon
<1>2. handle' = [handle EXCEPT ![guard[r]] = "none"] /\ panicked' = FALSE
  BY <1>1, Zenon DEF RemoveStream
<1>3. UNCHANGED <<seq, expire, cleanup, sleep, waker, woken, pump>>
  BY Zenon DEF RemoveStream, alarm
<1>4. TypeOK'
  <2>1. /\ handle' \in [StreamIds -> {"none", "Available", "Acquired", "Expired"}]
        /\ guard' \in [Requests -> StreamIds \cup {NoStream}]
    BY <1>1, <1>2, Zenon DEF TypeOK
  <2>2. panicked' \in BOOLEAN
    BY <1>2, Zenon
  <2> QED BY <1>3, <2>1, <2>2, Zenon DEF TypeOK
<1>5. NeverPanics' /\ BatonUsedOnce' /\ UsedIsOld' /\ AlarmCovers'
  BY <1>2, <1>3 DEF NeverPanics, BatonUsedOnce, UsedIsOld, AlarmCovers, AlarmIsSet
<1>6. IdleIsTimed'
  BY <1>1, <1>2, <1>3, Zenon DEF IdleIsTimed, TypeOK
<1>7. GuardsAgree'
  BY <1>1, <1>2, Zenon DEF GuardsAgree, TypeOK
<1>8. CleanupAgrees'
  <2>1. \A i \in 1..Len(cleanup) : cleanup[i].id \in StreamIds
    BY CleanupEntries, Zenon
  <2> QED BY <1>1, <1>2, <1>3, <2>1 DEF CleanupAgrees, TypeOK
<1>9. FreshHasNoHandle'
  BY <1>1, <1>2, Zenon DEF FreshHasNoHandle, TypeOK
<1> QED BY <1>4, <1>5, <1>6, <1>7, <1>8, <1>9, Zenon

\* An abandoned request removes its stream.
LEMMA AbandonKeeps ==
  ASSUME IInv, NEW r \in Requests, Abandon(r) PROVE IInv'
  BY RemoveKeeps, Zenon DEF Abandon

\* A released stream is timed, and the alarm is early enough for it.
LEMMA ReleaseStreamKeeps ==
  ASSUME IInv, NEW r \in Requests, guard[r] # NoStream, Unlocked, ReleaseStream(guard[r]),
         guard' = [guard EXCEPT ![r] = NoStream],
         issued' = issued \cup {<<guard[r], seq[guard[r]]>>},
         UNCHANGED <<open, fresh, accepted, replayed>>
  PROVE  IInv'
<1> USE StreamsAssumption DEF IInv
<1> DEFINE s == guard[r]
           at == Expiration + 1
<1>1. s \in StreamIds /\ handle[s] = "Acquired"
  BY GuardedIsAcquired, Zenon
<1>2. handle' = [handle EXCEPT ![s] = "Available"] /\ panicked' = FALSE
  BY <1>1, Zenon DEF ReleaseStream
<1>3. /\ expire' = [expire EXCEPT ![s] = at]
      /\ woken' = (woken \/ (sleep > at /\ waker)) /\ waker' = (waker /\ sleep <= at)
      /\ UNCHANGED <<sleep, pump, seq, cleanup>>
  BY Zenon DEF ReleaseStream, MarkExpire
<1>4. at \in Nat /\ at # Off
  BY DEF Off
<1> HIDE DEF s, at
<1>5. TypeOK'
  <2>1. /\ handle' \in [StreamIds -> {"none", "Available", "Acquired", "Expired"}]
        /\ guard' \in [Requests -> StreamIds \cup {NoStream}]
        /\ expire' \in [StreamIds -> Nat \cup {Off}]
    BY <1>1, <1>2, <1>3, <1>4, Zenon DEF TypeOK
  <2>2. waker' \in BOOLEAN /\ woken' \in BOOLEAN /\ panicked' \in BOOLEAN
    BY <1>2, <1>3, Zenon DEF TypeOK
  <2>3. issued' \subseteq StreamIds \X Nat
    BY <1>1 DEF TypeOK, s
  <2> QED BY <1>3, <2>1, <2>2, <2>3, Zenon DEF TypeOK
<1>6. NeverPanics' /\ BatonUsedOnce' /\ UsedIsOld'
  BY <1>2, <1>3, Zenon DEF NeverPanics, BatonUsedOnce, UsedIsOld
<1>7. IdleIsTimed'
  BY <1>1, <1>2, <1>3, <1>4, Zenon DEF IdleIsTimed, TypeOK
<1>8. GuardsAgree'
  BY <1>1, <1>2 DEF GuardsAgree, TypeOK, s
<1>9. CleanupAgrees'
  <2>1. \A i \in 1..Len(cleanup) : cleanup[i].id \in StreamIds
    BY CleanupEntries, Zenon
  <2>2. handle \in [StreamIds -> {"none", "Available", "Acquired", "Expired"}]
    BY Zenon DEF TypeOK
  <2>3. \A t \in StreamIds : handle'[t] = "Expired" <=> handle[t] = "Expired"
    BY <1>1, <1>2, <2>2
  <2> QED BY <1>3, <2>1, <2>3, Zenon DEF CleanupAgrees
<1>10. FreshHasNoHandle'
  BY <1>1, <1>2, Zenon DEF FreshHasNoHandle, TypeOK
<1>11. AlarmCovers'
  <2>1. pump = "idle" /\ pump' = "idle"
    BY <1>3, Zenon DEF Unlocked
  <2>2. woken' \/ waker'
    <3>1. woken \/ waker
      BY <2>1, Zenon DEF AlarmCovers
    <3>2. sleep \in Nat \cup {Off}
      BY Zenon DEF TypeOK
    <3>3. sleep > at \/ sleep <= at
      BY <3>2, <1>4 DEF Off
    <3> QED BY <3>1, <3>3, <1>3, Zenon
  <2>3. ASSUME NEW t \in StreamIds, expire'[t] # Off, sleep # Off
        PROVE  sleep' <= expire'[t] \/ woken'
    <3>1. CASE t = s
      <4>1. expire'[t] = at
        BY <3>1, <1>1, <1>3, Zenon DEF TypeOK
      <4>2. sleep \in Nat \cup {Off}
        BY Zenon DEF TypeOK
      <4>3. sleep <= at \/ sleep > at
        BY <4>2, <1>4 DEF Off
      <4> QED BY <4>1, <4>3, <2>1, <1>3, Zenon DEF AlarmCovers
    <3>2. CASE t # s
      <4>1. expire'[t] = expire[t]
        BY <3>2, <1>3, Zenon DEF TypeOK
      <4> QED BY <4>1, <2>1, <2>3, <1>3, Zenon DEF AlarmCovers, AlarmIsSet
    <3> QED BY <3>1, <3>2, Zenon
  <2> QED BY <1>3, <2>1, <2>2, <2>3, Zenon DEF AlarmCovers, AlarmIsSet
<1> QED BY <1>5, <1>6, <1>7, <1>8, <1>9, <1>10, <1>11, Zenon

\* Both ways in which a request ends.
LEMMA ReleaseKeeps ==
  ASSUME IInv, NEW r \in Requests, Release(r) PROVE IInv'
  BY RemoveKeeps, ReleaseStreamKeeps, Zenon DEF Release

\* The expiring task is polled.
LEMMA PumpStartKeeps ==
  ASSUME IInv, PumpStart PROVE IInv'
<1> USE DEF IInv, PumpStart, streams, clients
<1>1. TypeOK'
  BY Zenon DEF TypeOK
<1>2. AlarmCovers'
  BY Zenon DEF AlarmCovers, AlarmIsSet
<1>3. NeverPanics' /\ BatonUsedOnce' /\ IdleIsTimed' /\ UsedIsOld'
  BY Zenon DEF NeverPanics, BatonUsedOnce, IdleIsTimed, UsedIsOld
<1>4. GuardsAgree' /\ CleanupAgrees' /\ FreshHasNoHandle'
  BY DEF GuardsAgree, CleanupAgrees, FreshHasNoHandle
<1> QED BY <1>1, <1>2, <1>3, <1>4, Zenon

\* An idle stream expires: it moves from one queue to the other.
LEMMA PumpExpireKeeps ==
  ASSUME IInv, PumpExpire PROVE IInv'
<1> USE StreamsAssumption DEF IInv
<1>1. PICK s \in StreamIds :
        /\ expire[s] = 0 /\ expire' = [expire EXCEPT ![s] = Off]
        /\ IF handle[s] = "Available"
             THEN /\ handle' = [handle EXCEPT ![s] = "Expired"]
                  /\ cleanup' = Append(cleanup, [id |-> s, at |-> CleanupTime + 1])
             ELSE UNCHANGED <<handle, cleanup>>
  BY Zenon DEF PumpExpire
<1>2. handle[s] = "Available"
  BY <1>1 DEF IdleIsTimed, Off
<1>3. /\ handle' = [handle EXCEPT ![s] = "Expired"]
      /\ cleanup' = Append(cleanup, [id |-> s, at |-> CleanupTime + 1])
  BY <1>1, <1>2, Zenon
<1>4. /\ UNCHANGED <<seq, sleep, waker, woken, guard, open, fresh, issued, accepted, replayed, panicked>>
      /\ pump = "expire" /\ pump' = "expire"
  BY Zenon DEF PumpExpire, alarm, clients
<1>5. cleanup \in Seq([id : StreamIds, at : Nat])
  BY Zenon DEF TypeOK
<1>6. [id |-> s, at |-> CleanupTime + 1] \in [id : StreamIds, at : Nat]
  OBVIOUS
<1>7. /\ cleanup' \in Seq([id : StreamIds, at : Nat])
      /\ Len(cleanup') = Len(cleanup) + 1
      /\ \A i \in 1..Len(cleanup) : cleanup'[i] = cleanup[i]
      /\ cleanup'[Len(cleanup) + 1].id = s
  BY <1>3, <1>5, <1>6, AppendProperties
<1>8. TypeOK'
  <2>1. /\ handle' \in [StreamIds -> {"none", "Available", "Acquired", "Expired"}]
        /\ expire' \in [StreamIds -> Nat \cup {Off}]
    BY <1>1, <1>3, Zenon DEF TypeOK
  <2> QED BY <1>4, <1>7, <2>1, Zenon DEF TypeOK
<1>9. CleanupAgrees'
  <2>1. Len(cleanup) \in Nat
    BY <1>5
  <2>2. \A i \in 1..Len(cleanup) : cleanup[i].id \in StreamIds
    BY CleanupEntries, Zenon
  <2>3. \A i \in 1..Len(cleanup) : cleanup[i].id # s
    BY <1>2, Zenon DEF CleanupAgrees
  <2>4. ASSUME NEW i \in 1..Len(cleanup') PROVE i \in 1..Len(cleanup) \/ i = Len(cleanup) + 1
    BY <1>7, <2>1
  <2>5. ASSUME NEW i \in 1..Len(cleanup') PROVE handle'[cleanup'[i].id] = "Expired"
    <3>1. CASE i \in 1..Len(cleanup)
      BY <1>3, <1>7, <2>2, <2>3, <3>1 DEF CleanupAgrees, TypeOK
    <3>2. CASE i = Len(cleanup) + 1
      BY <1>3, <1>7, <3>2 DEF TypeOK
    <3> QED BY <2>4, <3>1, <3>2, Zenon
  <2>6. ASSUME NEW i \in 1..Len(cleanup'), NEW j \in 1..Len(cleanup'), i # j
        PROVE  cleanup'[i].id # cleanup'[j].id
    <3>1. CASE i \in 1..Len(cleanup) /\ j \in 1..Len(cleanup)
      BY <1>7, <2>6, <3>1, Zenon DEF CleanupAgrees
    <3>2. CASE i \in 1..Len(cleanup) /\ j = Len(cleanup) + 1
      BY <1>7, <2>3, <3>2, Zenon
    <3>3. CASE i = Len(cleanup) + 1 /\ j \in 1..Len(cleanup)
      BY <1>7, <2>3, <3>3, Zenon
    <3> QED BY <2>4, <2>6, <3>1, <3>2, <3>3, Zenon
  <2> QED BY <2>5, <2>6, Zenon DEF CleanupAgrees
<1>10. NeverPanics' /\ BatonUsedOnce' /\ UsedIsOld' /\ AlarmCovers'
  BY <1>4, Zenon DEF NeverPanics, BatonUsedOnce, UsedIsOld, AlarmCovers, AlarmIsSet
<1>11. IdleIsTimed'
  BY <1>1, <1>3, Zenon DEF IdleIsTimed, TypeOK
<1>12. GuardsAgree'
  BY <1>2, <1>3, <1>4, Zenon DEF GuardsAgree, TypeOK
<1>13. FreshHasNoHandle'
  BY <1>2, <1>3, <1>4, Zenon DEF FreshHasNoHandle, TypeOK
<1> QED BY <1>8, <1>9, <1>10, <1>11, <1>12, <1>13, Zenon

\* The timer is set to the first expiry that is left.
LEMMA PumpAlarmKeeps ==
  ASSUME IInv, PumpAlarm PROVE IInv'
<1> USE StreamsAssumption DEF IInv
<1>1. /\ UNCHANGED <<handle, seq, expire, cleanup, waker, woken, guard, open, fresh, issued,
                     accepted, replayed, panicked>>
      /\ pump' = "cleanup"
  BY Zenon DEF PumpAlarm, streams, clients
<1>2. sleep' \in Nat /\ \A t \in StreamIds : expire[t] # Off => sleep' <= expire[t]
  BY DEF PumpAlarm, TypeOK
<1>3. TypeOK'
  BY <1>1, <1>2, Zenon DEF TypeOK
<1>4. AlarmCovers'
  BY <1>1, <1>2, Zenon DEF AlarmCovers, AlarmIsSet
<1>5. NeverPanics' /\ BatonUsedOnce' /\ IdleIsTimed' /\ UsedIsOld'
  BY <1>1, Zenon DEF NeverPanics, BatonUsedOnce, IdleIsTimed, UsedIsOld
<1>6. GuardsAgree' /\ CleanupAgrees' /\ FreshHasNoHandle'
  BY <1>1 DEF GuardsAgree, CleanupAgrees, FreshHasNoHandle
<1> QED BY <1>3, <1>4, <1>5, <1>6, Zenon

\* The stream at the head of the cleanup queue is Expired, and in it once.
LEMMA PumpCleanupKeeps ==
  ASSUME IInv, PumpCleanup PROVE IInv'
<1> USE StreamsAssumption DEF IInv
<1> DEFINE Entry == [id : StreamIds, at : Nat]
           s == cleanup[1].id
<1>1. cleanup \in Seq(Entry) /\ cleanup # <<>>
  BY Zenon DEF TypeOK, PumpCleanup
<1>2. /\ Tail(cleanup) \in Seq(Entry) /\ Len(Tail(cleanup)) = Len(cleanup) - 1
      /\ \A i \in 1..Len(Tail(cleanup)) : Tail(cleanup)[i] = cleanup[i + 1]
  BY <1>1, HeadTailProperties, Zenon
<1>3. 1 \in 1..Len(cleanup) /\ Len(cleanup) \in Nat /\ Head(cleanup) = cleanup[1]
  BY <1>1
<1>4. s \in StreamIds /\ handle[s] = "Expired"
  BY <1>3, CleanupEntries, Zenon DEF CleanupAgrees
<1>5. /\ cleanup' = Tail(cleanup) /\ handle' = [handle EXCEPT ![s] = "none"]
      /\ panicked' = (handle[s] # "Expired")
      /\ UNCHANGED <<seq, expire, sleep, waker, woken, pump, guard, open, fresh, issued,
                     accepted, replayed>>
  BY <1>3, Zenon DEF PumpCleanup, alarm, clients
<1>6. \A i \in 1..Len(cleanup) : cleanup[i].id \in StreamIds
  BY CleanupEntries, Zenon
<1>7. CleanupAgrees'
  <2>1. Len(cleanup') = Len(cleanup) - 1
    BY <1>2, <1>5, Zenon
  <2>2. \A i \in 1..Len(cleanup') : i + 1 \in 1..Len(cleanup) /\ cleanup'[i] = cleanup[i + 1]
    BY <1>2, <1>3, <1>5, <2>1
  <2>3. \A i \in 1..Len(cleanup') : cleanup[i + 1].id # s
    BY <1>3, <2>2 DEF CleanupAgrees
  <2>4. \A i \in 1..Len(cleanup') : handle'[cleanup'[i].id] = "Expired"
    BY <1>4, <1>5, <1>6, <2>2, <2>3 DEF CleanupAgrees, TypeOK
  <2>5. \A i, j \in 1..Len(cleanup') : i # j => i + 1 # j + 1
    OBVIOUS
  <2>6. ASSUME NEW i \in 1..Len(cleanup'), NEW j \in 1..Len(cleanup'), i # j
        PROVE  cleanup'[i].id # cleanup'[j].id
    <3>1. i + 1 \in 1..Len(cleanup) /\ j + 1 \in 1..Len(cleanup) /\ i + 1 # j + 1
      BY <2>2, <2>5, <2>6, Zenon
    <3>2. cleanup[i + 1].id # cleanup[j + 1].id
      BY <3>1, Zenon DEF CleanupAgrees
    <3> QED BY <2>2, <3>2, Zenon
  <2> QED BY <2>4, <2>6, Zenon DEF CleanupAgrees
<1> HIDE DEF s
<1>8. TypeOK'
  <2>1. handle' \in [StreamIds -> {"none", "Available", "Acquired", "Expired"}]
    BY <1>4, <1>5, Zenon DEF TypeOK
  <2>2. panicked' \in BOOLEAN
    BY <1>5, Zenon
  <2> QED BY <1>2, <1>5, <2>1, <2>2, Zenon DEF TypeOK
<1>9. NeverPanics' /\ BatonUsedOnce' /\ UsedIsOld' /\ AlarmCovers'
  BY <1>4, <1>5, Zenon DEF NeverPanics, BatonUsedOnce, UsedIsOld, AlarmCovers, AlarmIsSet
<1>10. IdleIsTimed'
  BY <1>4, <1>5, Zenon DEF IdleIsTimed, TypeOK
<1>11. GuardsAgree'
  BY <1>4, <1>5, Zenon DEF GuardsAgree, TypeOK
<1>12. FreshHasNoHandle'
  BY <1>4, <1>5, Zenon DEF FreshHasNoHandle, TypeOK
<1> QED BY <1>7, <1>8, <1>9, <1>10, <1>11, <1>12, Zenon

\* The task sleeps again, with a waker.
LEMMA PumpSleepKeeps ==
  ASSUME IInv, PumpSleep PROVE IInv'
<1> USE DEF IInv, PumpSleep, streams, clients
<1>1. TypeOK'
  BY Zenon DEF TypeOK
<1>2. AlarmCovers'
  BY Zenon DEF AlarmCovers, AlarmIsSet
<1>3. NeverPanics' /\ BatonUsedOnce' /\ IdleIsTimed' /\ UsedIsOld'
  BY Zenon DEF NeverPanics, BatonUsedOnce, IdleIsTimed, UsedIsOld
<1>4. GuardsAgree' /\ CleanupAgrees' /\ FreshHasNoHandle'
  BY DEF GuardsAgree, CleanupAgrees, FreshHasNoHandle
<1> QED BY <1>1, <1>2, <1>3, <1>4, Zenon

\* Counting down keeps an instant an instant, and the order of two.
LEMMA LessProperties ==
  /\ \A t \in Nat : Less(t) \in Nat
  /\ \A t \in Nat \cup {Off} : Less(t) \in Nat \cup {Off} /\ (Less(t) = Off <=> t = Off)
  /\ \A t, u \in Nat : t <= u => Less(t) <= Less(u)
  BY DEF Less, Off

\* A second that passes for all streams alike leaves all but the alarm as it should be.
LEMMA SecondKeeps ==
  ASSUME IInv, SecondPasses,
         UNCHANGED <<handle, seq, guard, open, fresh, issued, accepted, replayed, panicked, woken>>,
         sleep' \in Nat \cup {Off}, waker' \in BOOLEAN, pump' = "idle"
  PROVE  /\ TypeOK' /\ NeverPanics' /\ BatonUsedOnce' /\ IdleIsTimed'
         /\ GuardsAgree' /\ CleanupAgrees' /\ FreshHasNoHandle' /\ UsedIsOld'
<1> USE DEF IInv
<1> DEFINE Entry == [id : StreamIds, at : Nat]
<1>1. expire' = [s \in StreamIds |-> Less(expire[s])]
  BY Zenon DEF SecondPasses
<1>2. cleanup \in Seq(Entry) /\ DOMAIN cleanup = 1..Len(cleanup) /\ Len(cleanup) \in Nat
  BY DEF TypeOK
<1>3. cleanup' = [i \in 1..Len(cleanup) |-> [cleanup[i] EXCEPT !.at = Less(@)]]
  BY <1>2, Zenon DEF SecondPasses
<1>4. \A i \in 1..Len(cleanup) :
        /\ [cleanup[i] EXCEPT !.at = Less(@)] \in Entry
        /\ [cleanup[i] EXCEPT !.at = Less(@)].id = cleanup[i].id
  <2> TAKE i \in 1..Len(cleanup)
  <2>1. cleanup[i] \in Entry
    BY <1>2, ElementOfSeq, Zenon
  <2>2. Less(cleanup[i].at) \in Nat
    BY <2>1, LessProperties, Zenon
  <2> QED BY <2>1, <2>2, Zenon
<1>5. /\ cleanup' \in Seq(Entry) /\ Len(cleanup') = Len(cleanup)
      /\ \A i \in 1..Len(cleanup) : cleanup'[i].id = cleanup[i].id
  BY <1>2, <1>3, <1>4
<1>6. TypeOK'
  <2>1. expire' \in [StreamIds -> Nat \cup {Off}]
    BY <1>1, LessProperties, Zenon DEF TypeOK
  <2> QED BY <1>5, <2>1, Zenon DEF TypeOK
<1>7. IdleIsTimed'
  BY <1>1, LessProperties, Zenon DEF IdleIsTimed, TypeOK
<1>8. CleanupAgrees'
  BY <1>5, Zenon DEF CleanupAgrees
<1>9. NeverPanics' /\ BatonUsedOnce' /\ UsedIsOld' /\ GuardsAgree' /\ FreshHasNoHandle'
  BY Zenon DEF NeverPanics, BatonUsedOnce, UsedIsOld, GuardsAgree, FreshHasNoHandle
<1> QED BY <1>6, <1>7, <1>8, <1>9, Zenon

\* A second passes for all instants alike.
LEMMA TickKeeps ==
  ASSUME IInv, Tick PROVE IInv'
<1>1. /\ UNCHANGED <<handle, seq, waker, woken, pump, guard, open, fresh, issued, accepted,
                     replayed, panicked>>
      /\ SecondPasses
      /\ pump = "idle" /\ sleep' = Less(sleep)
      /\ expire' = [s \in StreamIds |-> Less(expire[s])]
  BY DEF Tick, Unlocked, clients, SecondPasses
<1>2. sleep' \in Nat \cup {Off} /\ (sleep' = Off <=> sleep = Off) /\ waker' \in BOOLEAN
  BY <1>1, LessProperties, Zenon DEF IInv, TypeOK
<1>3. AlarmCovers'
  <2>1. ASSUME NEW s \in StreamIds, expire'[s] # Off, sleep' # Off
        PROVE  sleep' <= expire'[s] \/ woken'
    <3>1. expire'[s] = Less(expire[s]) /\ expire[s] # Off /\ expire[s] \in Nat /\ sleep \in Nat
      BY <1>1, <1>2, <2>1, LessProperties, Zenon DEF IInv, TypeOK
    <3>2. sleep <= expire[s] \/ woken
      BY <1>1, <1>2, <2>1, <3>1, Zenon DEF IInv, AlarmCovers, AlarmIsSet
    <3>3. sleep <= expire[s] => sleep' <= expire'[s]
      BY <1>1, <3>1, LessProperties, Zenon
    <3> QED BY <1>1, <3>2, <3>3, Zenon
  <2> QED BY <1>1, <2>1, Zenon DEF IInv, AlarmCovers, AlarmIsSet
<1> QED BY <1>1, <1>2, <1>3, SecondKeeps, Zenon DEF IInv

\* The timer fires while it is being set.
LEMMA PumpTooLateKeeps ==
  ASSUME IInv, PumpTooLate PROVE IInv'
<1>1. /\ UNCHANGED <<handle, seq, woken, guard, open, fresh, issued, accepted, replayed, panicked>>
      /\ SecondPasses
      /\ pump' = "idle" /\ sleep' = Off /\ waker' = TRUE
  BY Zenon DEF PumpTooLate, clients
<1>2. AlarmCovers'
  BY <1>1, Zenon DEF AlarmCovers, AlarmIsSet
<1> QED BY <1>1, <1>2, SecondKeeps, Zenon DEF IInv

\* Nothing happens.
LEMMA StutterKeeps ==
  ASSUME IInv, UNCHANGED vars PROVE IInv'
  BY DEF vars, streams, alarm, clients, IInv, TypeOK, NeverPanics, BatonUsedOnce, IdleIsTimed,
     GuardsAgree, CleanupAgrees, FreshHasNoHandle, UsedIsOld, AlarmCovers, AlarmIsSet

\* The inductive invariant holds for ever.
THEOREM StreamsInvariant == Spec => []IInv
<1>1. ASSUME IInv, [Next]_vars PROVE IInv'
  BY <1>1, CreateKeeps, AcquireKeeps, CloseDbKeeps, ReleaseKeeps, AbandonKeeps, PumpStartKeeps,
     PumpExpireKeeps, PumpAlarmKeeps, PumpCleanupKeeps, PumpSleepKeeps, PumpTooLateKeeps,
     TickKeeps, StutterKeeps, Zenon
     DEF Next, Pump
<1> QED BY InitIInv, <1>1, PTL DEF Spec

\* The panics of stream.rs (a Guard dropped on a missing or free handle, a stream cleaned
\* up that is not Expired) are unreachable.
THEOREM StreamsNeverPanic == Spec => []NeverPanics
  BY StreamsInvariant, PTL DEF IInv

\* However many clients present a baton, and whenever, one of them gets the stream.
THEOREM BatonAlwaysUsedOnce == Spec => []BatonUsedOnce
  BY StreamsInvariant, PTL DEF IInv

\* The expire queue holds exactly the idle streams.
THEOREM IdleAlwaysTimed == Spec => []IdleIsTimed
  BY StreamsInvariant, PTL DEF IInv

\* The expiring task never sleeps past the end of an idle stream, for any durations, unless
\* its timer fired while it was being set.
THEOREM AlarmAlwaysSet == Spec => []AlarmIsSet
  BY StreamsInvariant, PTL DEF IInv, AlarmCovers
=============================================================================
