-------------------------- MODULE MetaStoreProofs --------------------------
(***************************************************************************)
(* Proofs about MetaStore: the schema lock, for any number of databases,   *)
(* requests, migrations and faults.                                        *)
(***************************************************************************)
EXTENDS MetaStore, FiniteSetTheorems, TLAPS

Steps ==
  {"idle", "lock", "handle", "stored", "copy", "flushing", "remove_conn", "remove_configs", "cleanup", "drop",
   "unlock", "posted"}
CallRecord ==
  [op : {"none", "create", "destroy", "post"}, db : Int, pc : Steps, reply : {"none", "ok", "err"}]

LockTypes ==
  /\ locks \in LockIds \cup {0} /\ arc \in [Procs -> LockIds \cup {0}]
  /\ held \in [Procs -> {"no", "shared", "excl"}]
  /\ call \in [Clients -> CallRecord] /\ reg \in {"idle", "lock", "insert", "drop", "unlock"}

\* Where a process is with respect to the lock.
CallPhase(r) ==
  IF r.pc \in {"idle", "posted", "cleanup"} \/ (r.pc \in {"remove_conn", "remove_configs"} /\ r.op # "create")
  THEN "out" ELSE IF r.pc = "lock" THEN "want" ELSE IF r.pc = "unlock" THEN "leave" ELSE "hold"
RegPhase(g) ==
  IF g = "idle" THEN "out" ELSE IF g = "lock" THEN "want" ELSE IF g = "unlock" THEN "leave" ELSE "hold"
Phase(p) == IF p = Scheduler THEN RegPhase(reg) ELSE CallPhase(call[p])
Kind(p) == IF p = Scheduler THEN "excl" ELSE "shared"

\* Only a creation has to do with the lock.
LockIsForCreation ==
  \A c \in Clients :
    call[c].pc \in {"lock", "handle", "stored", "copy", "flushing", "drop", "unlock"} => call[c].op = "create"

\* A process that wants the lock or has it refers to the one in the registry; one that drops it
\* may refer to an older one.
LockAgrees ==
  \A p \in Procs :
    /\ Phase(p) = "out" => arc[p] = 0 /\ held[p] = "no"
    /\ Phase(p) = "want" => locks # 0 /\ arc[p] = locks /\ held[p] = "no"
    /\ Phase(p) = "hold" => locks # 0 /\ arc[p] = locks /\ held[p] = Kind(p)
    /\ Phase(p) = "leave" => arc[p] # 0 /\ held[p] = Kind(p)

\* The scheduler has it alone.
HoldsAlone ==
  \A p, q \in Procs : p # q /\ Phase(p) = "hold" /\ Phase(q) = "hold" => Kind(p) = "shared"

LockInv == LockTypes /\ LockIsForCreation /\ LockAgrees /\ HoldsAlone /\ ~panicked

-----------------------------------------------------------------------------
\* There are more lock objects than processes, so a new one is one that nobody refers to.
LEMMA NewLockIsNew ==
  ASSUME arc \in [Procs -> LockIds \cup {0}]
  PROVE  NewLock \in LockIds /\ \A q \in Procs : arc[q] # NewLock
<1>1. IsFiniteSet(Clients) /\ Cardinality(Clients) \in Nat
  BY MetaStoreAssumption, FS_Interval, FS_CardinalityType DEF Clients
<1>2. IsFiniteSet(Procs) /\ Cardinality(Procs) \in Nat
  BY <1>1, FS_AddElement, FS_CardinalityType DEF Procs
<1>3. IsFiniteSet(LockIds) /\ Cardinality(LockIds) = Cardinality(Procs) + 1
  <2>1. Cardinality(Procs) + 1 \in Int /\ 1 \in Int /\ ~(1 > Cardinality(Procs) + 1)
    BY <1>2
  <2> QED BY <1>2, <2>1, FS_Interval DEF LockIds
<1>4. \E id \in LockIds : \A q \in Procs : arc[q] # id
  <2>1. SUFFICES ASSUME \A id \in LockIds : \E q \in Procs : arc[q] = id PROVE FALSE
    OBVIOUS
  <2> DEFINE f == [id \in LockIds |-> CHOOSE q \in Procs : arc[q] = id]
  <2>2. \A id \in LockIds : f[id] \in Procs /\ arc[f[id]] = id
    BY <2>1
  <2>3. f \in [LockIds -> Procs]
    BY <2>2
  <2> HIDE DEF f
  <2>4. Cardinality(Procs) < Cardinality(LockIds)
    BY <1>2, <1>3
  <2>5. \E x, y \in LockIds : x # y /\ f[x] = f[y]
    BY <1>2, <1>3, <2>3, <2>4, FS_PigeonHole
  <2> QED BY <2>2, <2>5
<1> QED BY <1>4 DEF NewLock

-----------------------------------------------------------------------------
(* What a step does to the lock, by what it does to the phases.            *)

\* A step that moves nobody from one phase to another.
LEMMA NothingHappens ==
  ASSUME LockInv, LockTypes', LockIsForCreation', UNCHANGED schema_lock, ~panicked',
         \A p \in Procs : Phase(p)' = Phase(p)
  PROVE  LockInv'
<1>1. LockAgrees'
  BY DEF LockInv, LockAgrees, schema_lock, Kind
<1>2. HoldsAlone'
  BY DEF LockInv, HoldsAlone, Kind
<1> QED BY <1>1, <1>2 DEF LockInv

\* A process comes to want the lock: it takes the registered object, or registers a new one.
LEMMA CloneKeeps ==
  ASSUME LockInv, LockTypes', LockIsForCreation', ~panicked', NEW p \in Procs, Clone(p),
         Phase(p) = "out", Phase(p)' = "want", \A q \in Procs \ {p} : Phase(q)' = Phase(q)
  PROVE  LockInv'
<1>1. NewLock \in LockIds /\ \A q \in Procs : arc[q] # NewLock
  BY NewLockIsNew DEF LockInv, LockTypes
<1>2. 0 \notin LockIds
  BY DEF LockIds
<1>3. LockAgrees'
  BY <1>1, <1>2 DEF LockInv, LockTypes, LockAgrees, Clone, Kind
<1>4. HoldsAlone'
  BY DEF LockInv, HoldsAlone, Kind
<1> QED BY <1>3, <1>4 DEF LockInv

\* A process gets the lock, when nobody has it in its way.
LEMMA GrantKeeps ==
  ASSUME LockInv, LockTypes', LockIsForCreation', ~panicked', NEW p \in Procs, Grant(p, Kind(p)),
         Phase(p) = "want", Phase(p)' = "hold", \A q \in Procs \ {p} : Phase(q)' = Phase(q)
  PROVE  LockInv'
<1>1. LockAgrees'
  BY DEF LockInv, LockTypes, LockAgrees, Grant, Kind
<1>2. HoldsAlone'
  BY DEF LockInv, LockAgrees, HoldsAlone, Grant, Kind
<1> QED BY <1>1, <1>2 DEF LockInv

\* A process leaves: it removes the entry only if nobody else refers to the object.
LEMMA DropEntryKeeps ==
  ASSUME LockInv, LockTypes', LockIsForCreation', NEW p \in Procs, DropEntry(p),
         Phase(p) = "hold", Phase(p)' = "leave", \A q \in Procs \ {p} : Phase(q)' = Phase(q)
  PROVE  LockInv'
<1>1. ~panicked'
  BY Zenon DEF LockInv, LockAgrees, DropEntry
<1>2. LockAgrees'
  BY DEF LockInv, LockTypes, LockAgrees, DropEntry, Kind
<1>3. HoldsAlone'
  BY DEF LockInv, HoldsAlone, Kind
<1> QED BY <1>1, <1>2, <1>3 DEF LockInv

\* A process that left lets go of the object.
LEMMA DropGuardKeeps ==
  ASSUME LockInv, LockTypes', LockIsForCreation', ~panicked', NEW p \in Procs, DropGuard(p),
         Phase(p)' = "out", \A q \in Procs \ {p} : Phase(q)' = Phase(q)
  PROVE  LockInv'
<1>1. LockAgrees'
  BY DEF LockInv, LockTypes, LockAgrees, DropGuard, Kind
<1>2. HoldsAlone'
  BY DEF LockInv, HoldsAlone, Kind
<1> QED BY <1>1, <1>2 DEF LockInv

-----------------------------------------------------------------------------
(* What a step does to the phases, by what it does to the requests.        *)

CreationSteps == {"lock", "handle", "stored", "copy", "flushing", "drop", "unlock"}

\* What a step of one request does to the phases.
LEMMA OneCall ==
  ASSUME LockInv, NEW c \in Clients, NEW r \in CallRecord, call' = [call EXCEPT ![c] = r], reg' = reg,
         r.pc \in CreationSteps => r.op = "create"
  PROVE  /\ call' \in [Clients -> CallRecord] /\ reg' \in {"idle", "lock", "insert", "drop", "unlock"}
         /\ LockIsForCreation'
         /\ c \in Procs /\ Kind(c) = "shared" /\ Phase(c) = CallPhase(call[c]) /\ Phase(c)' = CallPhase(r)
         /\ \A q \in Procs \ {c} : Phase(q)' = Phase(q)
<1>1. c \in Procs /\ c # Scheduler
  BY MetaStoreAssumption DEF Clients, Procs, Scheduler
<1>2. call' \in [Clients -> CallRecord] /\ reg' \in {"idle", "lock", "insert", "drop", "unlock"}
  BY DEF LockInv, LockTypes
<1>3. call'[c] = r /\ \A q \in Clients \ {c} : call'[q] = call[q]
  BY DEF LockInv, LockTypes
<1>4. LockIsForCreation'
  BY <1>3 DEF LockInv, LockIsForCreation, CreationSteps
<1>5. Phase(c) = CallPhase(call[c]) /\ Phase(c)' = CallPhase(r)
  BY <1>1, <1>3 DEF Phase
<1>6. \A q \in Procs \ {c} : Phase(q)' = Phase(q)
  BY <1>3 DEF Phase, Procs
<1> QED BY <1>1, <1>2, <1>4, <1>5, <1>6 DEF Kind

\* A request moves on and the lock is left alone.
LEMMA GoesOn ==
  ASSUME LockInv, NEW c \in Clients, NEW r \in CallRecord, call' = [call EXCEPT ![c] = r], reg' = reg,
         r.pc \in CreationSteps => r.op = "create", CallPhase(r) = CallPhase(call[c]),
         UNCHANGED <<schema_lock, panicked>>
  PROVE  LockInv'
<1>1. LockTypes' /\ LockIsForCreation' /\ \A p \in Procs : Phase(p)' = Phase(p)
  BY OneCall, Zenon DEF LockInv, LockTypes, schema_lock
<1> QED BY <1>1, NothingHappens DEF LockInv

\* No request moves, except that it may have its answer.
LEMMA Answered ==
  ASSUME LockInv, reg' = reg, UNCHANGED <<schema_lock, panicked>>, call' \in [Clients -> CallRecord],
         \A c \in Clients : call'[c].pc = call[c].pc /\ call'[c].op = call[c].op
  PROVE  LockInv'
<1>1. LockTypes' /\ LockIsForCreation'
  BY DEF LockInv, LockTypes, LockIsForCreation, schema_lock
<1>2. \A p \in Procs : Phase(p)' = Phase(p)
  BY DEF Phase, CallPhase, Procs
<1> QED BY <1>1, <1>2, NothingHappens DEF LockInv

\* The record that Goto() makes.
LEMMA GotoRecord ==
  ASSUME LockInv, NEW c \in Clients, NEW pc \in Steps, Goto(c, pc)
  PROVE  \E r \in CallRecord : call' = [call EXCEPT ![c] = r] /\ r.pc = pc /\ r.op = call[c].op
<1> DEFINE r == [call[c] EXCEPT !.pc = pc, !.reply = "none"]
<1>1. call[c] \in CallRecord
  BY DEF LockInv, LockTypes
<1>2. r \in CallRecord /\ r.pc = pc /\ r.op = call[c].op
  BY <1>1, Zenon DEF CallRecord
<1>3. call' = [call EXCEPT ![c] = r]
  BY Zenon DEF Goto, LockInv, LockTypes
<1> QED BY <1>2, <1>3, Zenon

\* A request goes on within its phase.
LEMMA GoesTo ==
  ASSUME LockInv, NEW c \in Clients, NEW pc \in Steps, Goto(c, pc), reg' = reg,
         UNCHANGED <<schema_lock, panicked>>,
         pc \in CreationSteps => call[c].op = "create",
         CallPhase([pc |-> pc, op |-> call[c].op]) = CallPhase(call[c])
  PROVE  LockInv'
<1>1. PICK r \in CallRecord : call' = [call EXCEPT ![c] = r] /\ r.pc = pc /\ r.op = call[c].op
  BY GotoRecord
<1>2. CallPhase(r) = CallPhase(call[c])
  BY <1>1 DEF CallPhase
<1> QED BY <1>1, <1>2, GoesOn, Zenon

\* A request without the lock ends.
LEMMA Ends ==
  ASSUME LockInv, NEW c \in Clients, call' = [call EXCEPT ![c] = Idle], reg' = reg,
         UNCHANGED <<schema_lock, panicked>>, CallPhase(call[c]) = "out"
  PROVE  LockInv'
<1>1. Idle \in CallRecord /\ Idle.pc \notin CreationSteps /\ CallPhase(Idle) = "out"
  BY DEF Idle, CallRecord, Steps, CreationSteps, CallPhase
<1> QED BY <1>1, GoesOn, Zenon

-----------------------------------------------------------------------------

\* At the start nobody has to do with the lock.
LEMMA InitLockInv == Init => LockInv
<1> SUFFICES ASSUME Init PROVE LockInv
  OBVIOUS
<1>1. Idle \in CallRecord /\ CallPhase(Idle) = "out"
  BY DEF Idle, CallRecord, Steps, CallPhase
<1>2. LockTypes
  BY <1>1 DEF Init, LockTypes
<1>3. LockIsForCreation
  BY DEF Init, LockIsForCreation, Idle
<1>4. \A p \in Procs : Phase(p) = "out"
  BY <1>1 DEF Init, Phase, RegPhase, Procs
<1>5. LockAgrees /\ HoldsAlone
  BY <1>4 DEF LockAgrees, HoldsAlone, Init
<1> QED BY <1>2, <1>3, <1>5 DEF LockInv, Init

\* The task that stores changes.
LEMMA StoreKeepsLock == ASSUME LockInv, Store PROVE LockInv'
<1>1. reg' = reg /\ UNCHANGED <<schema_lock, panicked>>
  BY Zenon DEF Store, Receive, StoreWrite, StoreUpdate, StoreFlush, StoreFlushConn, sched
<1>2. call' = call \/ \E ok \in BOOLEAN : Reply(ok)
  <2>1. CASE Receive BY <2>1 DEF Receive
  <2>2. CASE StoreWrite BY <2>2 DEF StoreWrite
  <2>3. CASE StoreUpdate
    <3>1. \E ok \in {store.ok} : Reply(ok)
      BY <2>3 DEF StoreUpdate
    <3>2. Reply(store.ok) => Reply(TRUE) \/ Reply(FALSE)
      BY DEF Reply
    <3> QED BY <3>1, <3>2, Zenon
  <2>4. CASE StoreFlush BY <2>4, Zenon DEF StoreFlush
  <2>5. CASE StoreFlushConn BY <2>5 DEF StoreFlushConn
  <2> QED BY <2>1, <2>2, <2>3, <2>4, <2>5 DEF Store
<1>3. /\ call' \in [Clients -> CallRecord]
      /\ \A c \in Clients : call'[c].pc = call[c].pc /\ call'[c].op = call[c].op
  <2>1. CASE call' = call
    BY <2>1 DEF LockInv, LockTypes
  <2>2. ASSUME NEW ok \in BOOLEAN, Reply(ok) PROVE <1>3
    <3>1. \A c \in Clients : /\ call[c] \in CallRecord
                            /\ [call[c] EXCEPT !.reply = IF ok THEN "ok" ELSE "err"] \in CallRecord
                            /\ [call[c] EXCEPT !.reply = IF ok THEN "ok" ELSE "err"].pc = call[c].pc
                            /\ [call[c] EXCEPT !.reply = IF ok THEN "ok" ELSE "err"].op = call[c].op
      BY DEF LockInv, LockTypes, CallRecord
    <3> QED BY <3>1, <2>2 DEF Reply
  <2> QED BY <1>2, <2>1, <2>2
<1> QED BY <1>1, <1>3, Answered, Zenon

\* The steps of a request that began.
LEMMA RequestKeepsLock == ASSUME LockInv, NEW c \in Clients, Request(c) PROVE LockInv'
<1> USE DEF Steps, CreationSteps
<1>0. call[c] \in CallRecord /\ c \in Procs /\ Kind(c) = "shared"
  BY MetaStoreAssumption DEF LockInv, LockTypes, Procs, Kind, Clients, Scheduler
<1>op. call[c].pc \in CreationSteps => call[c].op = "create"
  BY DEF LockInv, LockIsForCreation
<1>1. CASE CreateLocked(c)
  <2>1. reg' = reg /\ ~panicked' /\ Goto(c, "handle") /\ Grant(c, "shared") /\ call[c].pc = "lock"
    BY <1>1 DEF CreateLocked, LockInv, sched
  <2>2. PICK r \in CallRecord : call' = [call EXCEPT ![c] = r] /\ r.pc = "handle" /\ r.op = call[c].op
    BY <2>1, GotoRecord
  <2>3. CallPhase(call[c]) = "want" /\ CallPhase(r) = "hold"
    BY <2>1, <2>2 DEF CallPhase
  <2>4. LockIsForCreation' /\ Phase(c) = "want" /\ Phase(c)' = "hold" /\ \A q \in Procs \ {c} : Phase(q)' = Phase(q)
    BY <1>op, <2>1, <2>2, <2>3, OneCall, Zenon
  <2>5. LockTypes'
    BY <1>op, <2>1, <2>2, OneCall, Zenon DEF LockInv, LockTypes, Grant
  <2> QED BY <1>0, <2>1, <2>4, <2>5, GrantKeeps
<1>2. CASE CreateHandle(c)
  <2>1. reg' = reg /\ UNCHANGED <<schema_lock, panicked>> /\ (Goto(c, "drop") \/ Goto(c, "stored"))
    BY <1>2, Zenon DEF CreateHandle, sched
  <2>2. call[c].pc = "handle"
    BY <1>2 DEF CreateHandle
  <2> QED BY <1>op, <2>1, <2>2, GoesTo DEF CallPhase
<1>3. CASE CreateStored(c)
  <2>1. reg' = reg /\ UNCHANGED <<schema_lock, panicked>> /\ (Goto(c, "copy") \/ Goto(c, "remove_conn"))
    BY <1>3 DEF CreateStored, sched
  <2>2. call[c].pc = "stored"
    BY <1>3 DEF CreateStored
  <2> QED BY <1>op, <2>1, <2>2, GoesTo DEF CallPhase
<1>4. CASE CreateCopy(c)
  <2>1. reg' = reg /\ UNCHANGED <<schema_lock, panicked>> /\ (Goto(c, "flushing") \/ Goto(c, "remove_conn"))
    BY <1>4, Zenon DEF CreateCopy, sched
  <2>2. call[c].pc = "copy"
    BY <1>4 DEF CreateCopy
  <2> QED BY <1>op, <2>1, <2>2, GoesTo DEF CallPhase
<1>5. CASE CreateFlushed(c)
  <2>1. reg' = reg /\ UNCHANGED <<schema_lock, panicked>> /\ (Goto(c, "drop") \/ Goto(c, "remove_conn"))
    BY <1>5 DEF CreateFlushed, sched
  <2>2. call[c].pc = "flushing"
    BY <1>5 DEF CreateFlushed
  <2> QED BY <1>op, <2>1, <2>2, GoesTo DEF CallPhase
<1>6. CASE RemoveConn(c)
  <2>1. reg' = reg /\ UNCHANGED <<schema_lock, panicked>> /\ Goto(c, "remove_configs") /\ call[c].pc = "remove_conn"
    BY <1>6 DEF RemoveConn, sched
  <2> QED BY <2>1, GoesTo DEF CallPhase
<1>7. CASE RemoveConfigs(c)
  <2>1. reg' = reg /\ UNCHANGED <<schema_lock, panicked>> /\ call[c].pc = "remove_configs"
    BY <1>7 DEF RemoveConfigs, sched
  <2>2. \/ Goto(c, IF call[c].op = "create" THEN "drop" ELSE "cleanup")
        \/ call' = [call EXCEPT ![c] = IF call[c].op = "create" THEN [@ EXCEPT !.pc = "drop"] ELSE Idle]
    BY <1>7 DEF RemoveConfigs
  <2>3. CASE call[c].op = "create"
    <3>1. CASE Goto(c, "drop")
      BY <2>1, <2>3, <3>1, GoesTo DEF CallPhase
    <3>2. CASE call' = [call EXCEPT ![c] = [@ EXCEPT !.pc = "drop"]]
      <4> DEFINE r == [call[c] EXCEPT !.pc = "drop"]
      <4>1. r \in CallRecord /\ r.pc = "drop" /\ r.op = "create"
        BY <1>0, <2>3 DEF CallRecord
      <4>2. call' = [call EXCEPT ![c] = r]
        BY <3>2 DEF LockInv, LockTypes
      <4>3. CallPhase(r) = CallPhase(call[c])
        BY <2>1, <2>3, <4>1 DEF CallPhase
      <4> HIDE DEF r
      <4> QED BY <2>1, <4>1, <4>2, <4>3, GoesOn, Zenon
    <3> QED BY <2>2, <2>3, <3>1, <3>2
  <2>4. CASE call[c].op # "create"
    <3>1. CASE Goto(c, "cleanup")
      BY <2>1, <2>4, <3>1, GoesTo DEF CallPhase
    <3>2. CASE call' = [call EXCEPT ![c] = Idle]
      BY <2>1, <2>4, <3>2, Ends, Zenon DEF CallPhase
    <3> QED BY <2>2, <2>4, <3>1, <3>2
  <2> QED BY <2>3, <2>4
<1>8. CASE Cleanup(c)
  <2>1. reg' = reg /\ UNCHANGED <<schema_lock, panicked>> /\ call[c].pc = "cleanup" /\ call' = [call EXCEPT ![c] = Idle]
    BY <1>8 DEF Cleanup, sched
  <2> QED BY <2>1, Ends, Zenon DEF CallPhase
<1>9. CASE Posted(c)
  <2>1. reg' = reg /\ UNCHANGED <<schema_lock, panicked>> /\ call[c].pc = "posted" /\ call' = [call EXCEPT ![c] = Idle]
    BY <1>9 DEF Posted, sched
  <2> QED BY <2>1, Ends, Zenon DEF CallPhase
<1>10. CASE DropLock(c)
  <2>1. reg' = reg /\ Goto(c, "unlock") /\ DropEntry(c) /\ call[c].pc = "drop"
    BY <1>10 DEF DropLock, sched
  <2>2. PICK r \in CallRecord : call' = [call EXCEPT ![c] = r] /\ r.pc = "unlock" /\ r.op = call[c].op
    BY <2>1, GotoRecord
  <2>3. CallPhase(call[c]) = "hold" /\ CallPhase(r) = "leave"
    BY <2>1, <2>2 DEF CallPhase
  <2>4. LockIsForCreation' /\ Phase(c) = "hold" /\ Phase(c)' = "leave" /\ \A q \in Procs \ {c} : Phase(q)' = Phase(q)
    BY <1>op, <2>1, <2>2, <2>3, OneCall, Zenon
  <2>5. LockTypes'
    BY <1>op, <2>1, <2>2, OneCall DEF LockInv, LockTypes, DropEntry
  <2> QED BY <1>0, <2>1, <2>4, <2>5, DropEntryKeeps
<1>11. CASE Unlock(c)
  <2>1. reg' = reg /\ ~panicked' /\ call' = [call EXCEPT ![c] = Idle] /\ DropGuard(c)
    BY <1>11 DEF Unlock, LockInv, sched
  <2>2. Idle \in CallRecord /\ Idle.pc \notin CreationSteps /\ CallPhase(Idle) = "out"
    BY DEF Idle, CallRecord, CallPhase
  <2>3. LockIsForCreation' /\ Phase(c)' = "out" /\ \A q \in Procs \ {c} : Phase(q)' = Phase(q)
    BY <2>1, <2>2, OneCall, Zenon
  <2>4. LockTypes'
    BY <2>1, <2>2, OneCall, Zenon DEF LockInv, LockTypes, DropGuard
  <2> QED BY <1>0, <2>1, <2>3, <2>4, DropGuardKeeps
<1> QED BY <1>1, <1>2, <1>3, <1>4, <1>5, <1>6, <1>7, <1>8, <1>9, <1>10, <1>11 DEF Request

\* The record that Start() makes, in the place of a request that is not there.
LEMMA StartRecord ==
  ASSUME LockInv, NEW c \in Clients, NEW op \in {"create", "destroy", "post"}, NEW d \in Dbs, NEW pc \in Steps,
         Start(c, op, d, pc)
  PROVE  /\ CallPhase(call[c]) = "out"
         /\ \E r \in CallRecord : call' = [call EXCEPT ![c] = r] /\ r.pc = pc /\ r.op = op
<1> DEFINE r == [op |-> op, db |-> d, pc |-> pc, reply |-> "none"]
<1>1. r \in CallRecord /\ r.pc = pc /\ r.op = op
  BY MetaStoreAssumption DEF CallRecord, Dbs
<1>2. call' = [call EXCEPT ![c] = r]
  BY DEF Start
<1>3. CallPhase(call[c]) = "out"
  BY DEF Start, Idle, CallPhase
<1> QED BY <1>1, <1>2, <1>3, Zenon

\* Requests that begin or are cancelled, and eviction.
LEMMA ClientKeepsLock ==
  ASSUME LockInv, NEW c \in Clients,
         \/ Cancel(c)
         \/ \E d \in Dbs : Create(c, d) \/ Destroy(c, d) \/ \E v \in Settings : PostConfig(c, d, v)
  PROVE  LockInv'
<1> USE DEF Steps, CreationSteps
<1>0. call[c] \in CallRecord /\ c \in Procs
  BY DEF LockInv, LockTypes, Procs
<1>op. call[c].pc \in CreationSteps => call[c].op = "create"
  BY DEF LockInv, LockIsForCreation
<1>1. ASSUME NEW d \in Dbs, Create(c, d) PROVE LockInv'
  <2>1. reg' = reg /\ ~panicked' /\ Start(c, "create", d, "lock") /\ Clone(c)
    BY <1>1 DEF Create, LockInv, sched
  <2>2. PICK r \in CallRecord : call' = [call EXCEPT ![c] = r] /\ r.pc = "lock" /\ r.op = "create"
    BY <2>1, StartRecord
  <2>3. CallPhase(call[c]) = "out" /\ CallPhase(r) = "want"
    <3>1. CallPhase(call[c]) = "out"
      BY <2>1, StartRecord
    <3>2. CallPhase(r) = "want"
      BY <2>2 DEF CallPhase
    <3> QED BY <3>1, <3>2
  <2>4. LockIsForCreation' /\ Phase(c) = "out" /\ Phase(c)' = "want" /\ \A q \in Procs \ {c} : Phase(q)' = Phase(q)
    BY <2>1, <2>2, <2>3, OneCall, Zenon
  <2>5. NewLock \in LockIds
    BY NewLockIsNew DEF LockInv, LockTypes
  <2>6. LockTypes'
    BY <2>1, <2>2, <2>5, OneCall, Zenon DEF LockInv, LockTypes, Clone
  <2> QED BY <1>0, <2>1, <2>4, <2>6, CloneKeeps
<1>2. ASSUME NEW d \in Dbs, Destroy(c, d) PROVE LockInv'
  <2>1. reg' = reg /\ UNCHANGED <<schema_lock, panicked>> /\ Start(c, "destroy", d, "remove_conn")
    BY <1>2 DEF Destroy, sched
  <2>2. PICK r \in CallRecord : call' = [call EXCEPT ![c] = r] /\ r.pc = "remove_conn" /\ r.op = "destroy"
    BY <2>1, StartRecord
  <2>3. CallPhase(r) = CallPhase(call[c])
    <3>1. CallPhase(call[c]) = "out"
      BY <2>1, StartRecord
    <3>2. CallPhase(r) = "out"
      BY <2>2 DEF CallPhase
    <3> QED BY <3>1, <3>2
  <2> QED BY <2>1, <2>2, <2>3, GoesOn, Zenon
<1>3. ASSUME NEW d \in Dbs, NEW v \in Settings, PostConfig(c, d, v) PROVE LockInv'
  <2>1. reg' = reg /\ UNCHANGED <<schema_lock, panicked>> /\ Start(c, "post", d, "posted")
    BY <1>3 DEF PostConfig, sched
  <2>2. PICK r \in CallRecord : call' = [call EXCEPT ![c] = r] /\ r.pc = "posted" /\ r.op = "post"
    BY <2>1, StartRecord
  <2>3. CallPhase(r) = CallPhase(call[c])
    <3>1. CallPhase(call[c]) = "out"
      BY <2>1, StartRecord
    <3>2. CallPhase(r) = "out"
      BY <2>2 DEF CallPhase
    <3> QED BY <3>1, <3>2
  <2> QED BY <2>1, <2>2, <2>3, GoesOn, Zenon
<1>4. CASE Cancel(c)
  <2>1. reg' = reg /\ panicked' = panicked
    BY <1>4 DEF Cancel, sched
  <2>2. CASE call[c].pc = "lock" /\ DropGuard(c) /\ call' = [call EXCEPT ![c] = Idle]
    <3>1. Idle \in CallRecord /\ Idle.pc \notin CreationSteps /\ CallPhase(Idle) = "out"
      BY DEF Idle, CallRecord, CallPhase
    <3>2. LockIsForCreation' /\ Phase(c)' = "out" /\ \A q \in Procs \ {c} : Phase(q)' = Phase(q)
      BY <2>1, <2>2, <3>1, OneCall, Zenon
    <3>3. LockTypes'
      BY <2>1, <2>2, <3>1, OneCall, Zenon DEF LockInv, LockTypes, DropGuard
    <3> QED BY <1>0, <2>1, <2>2, <3>2, <3>3, DropGuardKeeps DEF LockInv
  <2>3. CASE call[c].pc \in {"posted", "cleanup"} /\ call' = [call EXCEPT ![c] = Idle] /\ UNCHANGED schema_lock
    <3>1. CallPhase(call[c]) = "out"
      BY <2>3 DEF CallPhase
    <3> QED BY <2>1, <2>3, <3>1, Ends, Zenon
  <2>4. CASE call[c].pc \in {"stored", "flushing", "copy"} /\ Goto(c, "remove_conn") /\ UNCHANGED schema_lock
    <3>1. CallPhase([pc |-> "remove_conn", op |-> call[c].op]) = CallPhase(call[c])
      BY <1>op, <2>4 DEF CallPhase
    <3> QED BY <2>1, <2>4, <3>1, GoesTo, Zenon
  <2> QED BY <1>4, <2>2, <2>3, <2>4 DEF Cancel
<1> QED BY <1>1, <1>2, <1>3, <1>4

\* A step of the registration, by the phase it comes to.
LEMMA RegSteps ==
  ASSUME LockInv, call' = call, reg' \in {"idle", "lock", "insert", "drop", "unlock"}
  PROVE  /\ LockIsForCreation' /\ Scheduler \in Procs /\ Kind(Scheduler) = "excl"
         /\ Phase(Scheduler) = RegPhase(reg) /\ Phase(Scheduler)' = RegPhase(reg')
         /\ \A q \in Procs \ {Scheduler} : Phase(q)' = Phase(q)
<1>1. LockIsForCreation'
  BY DEF LockInv, LockIsForCreation
<1> QED BY <1>1 DEF Procs, Kind, Phase

\* The registration of a job, and its steps.
LEMMA MigrationKeepsLock == ASSUME LockInv, Migration \/ RegisterJob PROVE LockInv'
<1>1. CASE RegisterJob
  <2>1. call' = call /\ reg = "idle" /\ reg' = "lock" /\ ~panicked' /\ Clone(Scheduler)
    BY <1>1 DEF RegisterJob, LockInv
  <2>2. NewLock \in LockIds
    BY NewLockIsNew DEF LockInv, LockTypes
  <2>3. LockTypes'
    BY <2>1, <2>2, Zenon DEF LockInv, LockTypes, Clone
  <2> QED BY <2>1, <2>3, RegSteps, CloneKeeps DEF RegPhase
<1>2. CASE RegisterLocked
  <2>1. call' = call /\ reg = "lock" /\ reg' = "insert" /\ ~panicked' /\ Grant(Scheduler, "excl")
    BY <1>2 DEF RegisterLocked, LockInv
  <2>2. LockTypes'
    BY <2>1, Zenon DEF LockInv, LockTypes, Grant
  <2> QED BY <2>1, <2>2, RegSteps, GrantKeeps DEF RegPhase
<1>3. CASE InsertJob
  <2>1. call' = call /\ reg = "insert" /\ reg' = "drop" /\ UNCHANGED <<schema_lock, panicked>>
    BY <1>3 DEF InsertJob
  <2>2. LockTypes'
    BY <2>1 DEF LockInv, LockTypes, schema_lock
  <2>3. LockIsForCreation' /\ \A p \in Procs : Phase(p)' = Phase(p)
    BY <2>1, RegSteps DEF RegPhase
  <2> QED BY <2>1, <2>2, <2>3, NothingHappens DEF LockInv
<1>4. CASE RegisterDrop
  <2>1. call' = call /\ reg = "drop" /\ reg' = "unlock" /\ DropEntry(Scheduler)
    BY <1>4 DEF RegisterDrop
  <2>2. LockTypes'
    BY <2>1 DEF LockInv, LockTypes, DropEntry
  <2> QED BY <2>1, <2>2, RegSteps, DropEntryKeeps DEF RegPhase
<1>5. CASE RegisterUnlock
  <2>1. call' = call /\ reg' = "idle" /\ ~panicked' /\ DropGuard(Scheduler)
    BY <1>5 DEF RegisterUnlock, LockInv
  <2>2. LockTypes'
    BY <2>1, Zenon DEF LockInv, LockTypes, DropGuard
  <2> QED BY <2>1, <2>2, RegSteps, DropGuardKeeps DEF RegPhase
<1>6. CASE MigrateSchema \/ FinishJob \/ AbortJob \/ \E d \in Dbs : RunTask(d)
  <2>1. reg' = reg /\ call' = call /\ UNCHANGED <<schema_lock, panicked>>
    BY <1>6 DEF MigrateSchema, FinishJob, AbortJob, RunTask
  <2> QED BY <2>1, Answered, Zenon DEF LockInv, LockTypes
<1> QED BY <1>1, <1>2, <1>3, <1>4, <1>5, <1>6 DEF Migration

\* A restart begins with an empty registry.
LEMMA RestartKeepsLock == ASSUME LockInv, Restart PROVE LockInv'
<1>1. Idle \in CallRecord /\ CallPhase(Idle) = "out"
  BY DEF Idle, CallRecord, Steps, CallPhase
<1>2. LockTypes'
  BY <1>1 DEF Restart, LockTypes
<1>3. LockIsForCreation'
  BY DEF Restart, LockIsForCreation, Idle
<1>4. \A p \in Procs : Phase(p)' = "out"
  BY <1>1 DEF Restart, Phase, RegPhase, Procs
<1>5. LockAgrees' /\ HoldsAlone'
  BY <1>4 DEF LockAgrees, HoldsAlone, Restart
<1> QED BY <1>2, <1>3, <1>5 DEF LockInv, Restart

-----------------------------------------------------------------------------
\* The inductive invariant: who wants or has the schema lock refers to the object that is in
\* the registry, so that drop() of schema_lock.rs, which counts references, never removes the
\* lock from under somebody.
THEOREM LockInvariant == Spec => []LockInv
<1>1. LockInv /\ [Next]_vars => LockInv'
  <2> SUFFICES ASSUME LockInv, [Next]_vars PROVE LockInv'
    OBVIOUS
  <2>1. CASE System
    BY <2>1, StoreKeepsLock, MigrationKeepsLock, RequestKeepsLock DEF System
  <2>2. CASE RegisterJob
    BY <2>2, MigrationKeepsLock
  <2>3. CASE Restart
    BY <2>3, RestartKeepsLock
  <2>4. ASSUME NEW d \in Dbs, Evict(d) PROVE LockInv'
    <3>1. reg' = reg /\ call' = call /\ UNCHANGED <<schema_lock, panicked>>
      BY <2>4 DEF Evict, sched
    <3> QED BY <3>1, Answered, Zenon DEF LockInv, LockTypes
  <2>5. ASSUME NEW c \in Clients,
               \/ Cancel(c)
               \/ \E d \in Dbs : Create(c, d) \/ Destroy(c, d) \/ \E v \in Settings : PostConfig(c, d, v)
        PROVE  LockInv'
    BY <2>5, ClientKeepsLock
  <2>6. CASE UNCHANGED vars
    <3>1. reg' = reg /\ call' = call /\ UNCHANGED <<schema_lock, panicked>>
      BY <2>6 DEF vars, sched
    <3> QED BY <3>1, Answered, Zenon DEF LockInv, LockTypes
  <2> QED BY <2>1, <2>2, <2>3, <2>4, <2>5, <2>6 DEF Next
<1> QED BY <1>1, InitLockInv, PTL DEF Spec

\* A creation and register_migration_job() never have the lock of a schema together, and the
\* unreachable!() of schema_lock.rs is not reached, however many requests come, are given up
\* or fail.
THEOREM SchemaLockAlwaysExcludes == Spec => []SchemaLockExcludes
<1>1. LockInv => SchemaLockExcludes
  <2> SUFFICES ASSUME LockInv PROVE SchemaLockExcludes
    OBVIOUS
  <2>1. \A p \in Procs : held[p] # "no" /\ (IF p = Scheduler THEN reg # "unlock" ELSE call[p].pc # "unlock")
                        => Phase(p) = "hold" /\ held[p] = Kind(p)
    <3>1. \A p \in Procs : Phase(p) \in {"out", "want", "hold", "leave"}
      BY DEF Phase, CallPhase, RegPhase
    <3>2. \A p \in Procs : Phase(p) = "leave" => IF p = Scheduler THEN reg = "unlock" ELSE call[p].pc = "unlock"
      BY DEF Phase, CallPhase, RegPhase
    <3> QED BY <3>1, <3>2 DEF LockInv, LockAgrees
  <2> QED BY <2>1 DEF LockInv, HoldsAlone, SchemaLockExcludes, Kind
<1> QED BY <1>1, LockInvariant, PTL

=============================================================================
