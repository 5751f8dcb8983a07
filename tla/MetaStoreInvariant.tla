------------------------- MODULE MetaStoreInvariant -------------------------
(***************************************************************************)
(* What the tables, the memory and the databases of MetaStore say of each  *)
(* other, for any number of databases, requests, migrations and faults:    *)
(* the invariant, and the proof that requests, migrations and restarts     *)
(* keep it.  The storing task, and what the invariant shows, are in        *)
(* MetaStoreData.                                                          *)
(***************************************************************************)
EXTENDS MetaStore, TLAPS

Removing == {"remove_conn", "remove_configs"}
Creating == {"lock", "handle", "stored", "copy", "flushing", "drop", "unlock"}
Steps == {"idle", "posted", "cleanup"} \cup Removing \cup Creating
CallRecord ==
  [op : {"none", "create", "destroy", "post"}, db : Dbs \cup {0}, pc : Steps, reply : {"none", "ok", "err"}]
StoreRecord == [msg : Message, ok : BOOLEAN, pc : {"write", "update", "flush", "flush_conn"}]

Types ==
  /\ configs \in [Dbs -> Config] /\ rows \in [Dbs -> Config]
  /\ entry \in [Dbs -> {"none", "empty", "full"}]
  /\ content \in [Dbs \cup {Schema} -> SUBSET Nat]
  /\ links \subseteq Dbs /\ files \subseteq Dbs /\ todo \subseteq Dbs
  /\ queue \in Seq(Message) /\ store \in {NoMsg} \cup StoreRecord
  /\ call \in [Clients -> CallRecord]
  /\ registered \in Nat /\ job \in Nat /\ migrated \in BOOLEAN

\* A request does what its kind does, and two are about different databases.
Requests ==
  /\ \A c \in Clients :
       /\ call[c].pc = "idle" <=> call[c].db = 0
       /\ call[c].pc = "idle" => call[c] = Idle
       /\ call[c].pc \in Creating => call[c].op = "create"
       /\ call[c].pc \in Removing => call[c].op \in {"create", "destroy"}
  /\ \A c, q \in Clients : c # q /\ call[c].db = call[q].db => call[c].db = 0

\* A message that somebody waits for is the one of the request; nobody waits for a message of
\* a request that was cancelled, which happens once.
Awaited(m) ==
  /\ call[m.client].db = m.db /\ call[m.client].reply = "none"
  /\ call[m.client].pc = IF m.config = "none" THEN "flushing" ELSE IF m.flush THEN "posted" ELSE "stored"
MessageFits(m) ==
  IF m.client = Nobody THEN "cancel" \in trouble /\ m.db \in raced /\ m.db \in upset ELSE Awaited(m)

Messages ==
  /\ \A i \in DOMAIN queue : MessageFits(queue[i])
  /\ \A i, j \in DOMAIN queue : i # j => queue[i].client = Nobody \/ queue[i].client # queue[j].client
  /\ store # NoMsg =>
       /\ MessageFits(store.msg)
       /\ \A i \in DOMAIN queue : queue[i].client = Nobody \/ queue[i].client # store.msg.client
       /\ store.pc \in {"flush", "flush_conn"} <=> store.msg.config = "none"
       /\ store.pc = "write" => store.msg.flush
       /\ ~store.ok => store.pc = "update" /\ store.msg.db \in upset

\* What a cancelled request sent is stored before what the next creation of the database sends.
OrphanOf(m, d) == m.client = Nobody /\ m.db = d
InOrder ==
  \A c \in Clients :
    LET d == call[c].db IN
    /\ call[c].pc = "stored" =>
         \A i, j \in DOMAIN queue : queue[i].client = c /\ OrphanOf(queue[j], d) => j < i
    /\ call[c].pc = "stored" /\ store # NoMsg /\ store.msg.client = c =>
         \A j \in DOMAIN queue : ~OrphanOf(queue[j], d)
    /\ call[c].pc = "copy" \/ (call[c].pc = "stored" /\ call[c].reply # "none") =>
         /\ \A j \in DOMAIN queue : ~OrphanOf(queue[j], d)
         /\ store # NoMsg => ~OrphanOf(store.msg, d)

\* The link and the configuration are stored together, and memory knows of a link, except
\* before an overdue change is applied to it.
Overdue(d) == store.pc = "update" /\ OrphanOf(store.msg, d) /\ store.msg.flush
LinksAgree ==
  \A d \in Dbs :
    /\ d \in links <=> rows[d] \in Settings
    /\ d \in links /\ configs[d] \notin Settings => Overdue(d)

\* While an overdue change is on its way a configuration without a link is one of a creation
\* that waits.
OverdueWaits ==
  \A d \in Dbs :
    /\ configs[d] = "default"
    /\ \/ \E i \in DOMAIN queue : OrphanOf(queue[i], d) /\ queue[i].flush /\ queue[i].config # "none"
       \/ store # NoMsg /\ OrphanOf(store.msg, d) /\ store.msg.flush /\ store.msg.config # "none"
    => \E c \in Clients : call[c].db = d /\ call[c].pc = "stored" /\ call[c].reply = "none"

\* What a request that is on its way has done.
ProgressOf(r) ==
  /\ r.pc \in {"copy", "flushing", "posted"} \/ (r.pc = "stored" /\ r.reply = "ok") => configs[r.db] \in Settings
  /\ r.pc \in {"flushing", "posted"} => r.db \in files
  /\ r.pc = "flushing" /\ r.reply = "ok" => r.db \in links
  /\ r.pc = "cleanup" => r.db \notin acked /\ r.db \notin links \ raced
  /\ r.reply = "err" => r.db \in upset
Progress == \A c \in Clients : ProgressOf(call[c])

\* What an answer of create() promises.
Acknowledged ==
  \A d \in acked : d \in links /\ configs[d] \in Settings /\ d \in files \cup erased

\* Memory and disk agree on a database that no request is about to change, and a request
\* that is brings them together again.
AtRest(r) == r.pc \in {"lock", "handle", "drop", "unlock"} \/ (r.pc \in Removing /\ r.op = "destroy")
Settled(d) == configs[d] = rows[d] /\ (entry[d] = "full" => configs[d] # "absent")
Intended(d) == IF store.pc = "update" /\ store.msg.db = d THEN store.msg.config ELSE configs[d]
Settles(r) ==
  LET d == r.db IN
  /\ r.pc \in Removing /\ r.op = "create" => configs[d] \in Settings /\ entry[d] = "empty"
  /\ r.pc \in {"stored", "copy"} => entry[d] = "empty"
  /\ r.pc = "flushing" /\ r.reply # "none" => configs[d] = rows[d]
  /\ r.pc = "cleanup" => configs[d] = "absent" /\ rows[d] = "absent"
  /\ r.pc = "posted" => rows[d] = Intended(d)
Agreed ==
  /\ \A d \in Dbs \ upset : (\A c \in Clients : call[c].db = d => AtRest(call[c])) => Settled(d)
  /\ \A c \in Clients : call[c].db \in upset \/ Settles(call[c])

\* A job has tasks for linked databases only, and a link has a database.
TasksLinked ==
  /\ job # 0 => todo \subseteq links
  /\ links \subseteq files \cup erased \cup raced
  /\ migrated => job # 0 /\ job \in content[Schema] /\ todo = {}

\* What a linked database has of the migrations, and what one has that may be linked.
Done == IF job = 0 THEN {} ELSE {job}
UpToDate ==
  /\ \A d \in links \ (raced \cup erased) :
       content[d] = IF d \in todo THEN content[Schema] ELSE content[Schema] \cup Done
  /\ \A d \in files \ (links \cup raced \cup erased) : content[d] = content[Schema]

DataInv ==
  /\ Types /\ Requests /\ Messages /\ InOrder /\ LinksAgree /\ OverdueWaits /\ Progress
  /\ Acknowledged /\ Agreed /\ TasksLinked /\ UpToDate

-----------------------------------------------------------------------------
(* What a step leaves alone.                                               *)

\* Each part of the invariant stays when nothing it is about changes for the worse.
LEMMA Unmoved ==
  ASSUME DataInv
  PROVE  /\ call' = call => Requests'
         /\ UNCHANGED <<call, queue, store>> /\ trouble \subseteq trouble' /\ raced \subseteq raced'
            /\ upset \subseteq upset' => Messages'
         /\ UNCHANGED <<call, queue, store>> => InOrder'
         /\ UNCHANGED <<links, rows, configs, store>> => LinksAgree'
         /\ UNCHANGED <<configs, queue, store, call>> => OverdueWaits'
<1>1. call' = call => Requests'
  BY DEF DataInv, Requests
<1>2. UNCHANGED <<call, queue, store>> /\ trouble \subseteq trouble' /\ raced \subseteq raced'
      /\ upset \subseteq upset' => Messages'
  <2> SUFFICES ASSUME UNCHANGED <<call, queue, store>>, trouble \subseteq trouble', raced \subseteq raced',
                      upset \subseteq upset', Messages
               PROVE  Messages'
    BY Zenon DEF DataInv
  <2>1. ASSUME NEW m, MessageFits(m) PROVE MessageFits(m)'
    BY <2>1, Zenon DEF MessageFits, Awaited
  <2>2. \A i \in DOMAIN queue : MessageFits(queue[i])'
    BY <2>1, Zenon DEF Messages
  <2>3. store # NoMsg => MessageFits(store.msg)'
    BY <2>1, Zenon DEF Messages
  <2> QED BY <2>2, <2>3, Zenon DEF Messages
<1>3. UNCHANGED <<call, queue, store>> => InOrder'
  BY DEF DataInv, InOrder, OrphanOf
<1>4. UNCHANGED <<links, rows, configs, store>> => LinksAgree'
  BY Zenon DEF DataInv, LinksAgree, Overdue, OrphanOf
<1>5. UNCHANGED <<configs, queue, store, call>> => OverdueWaits'
  BY DEF DataInv, OverdueWaits, OrphanOf
<1> QED BY <1>1, <1>2, <1>3, <1>4, <1>5, Zenon

\* The same, of the parts that are about databases.
LEMMA DatabasesUnmoved ==
  ASSUME DataInv
  PROVE  /\ UNCHANGED <<call, configs, links>> /\ files \subseteq files' /\ acked' \subseteq acked
            /\ raced \subseteq raced' /\ upset \subseteq upset' => Progress'
         /\ UNCHANGED <<links, configs>> /\ acked' \subseteq acked /\ files \cup erased \subseteq files' \cup erased'
            => Acknowledged'
         /\ UNCHANGED <<call, configs, rows, entry, store>> /\ upset \subseteq upset' => Agreed'
         /\ UNCHANGED <<job, todo, links, migrated, content>>
            /\ files \cup erased \cup raced \subseteq files' \cup erased' \cup raced' => TasksLinked'
         /\ UNCHANGED <<links, content, todo, job>> /\ files' \subseteq files /\ raced \subseteq raced'
            /\ erased \subseteq erased' => UpToDate'
<1>1. UNCHANGED <<call, configs, links>> /\ files \subseteq files' /\ acked' \subseteq acked
      /\ raced \subseteq raced' /\ upset \subseteq upset' => Progress'
  BY Zenon DEF DataInv, Progress, ProgressOf
<1>2. UNCHANGED <<links, configs>> /\ acked' \subseteq acked /\ files \cup erased \subseteq files' \cup erased'
      => Acknowledged'
  BY Zenon DEF DataInv, Acknowledged
<1>3. UNCHANGED <<call, configs, rows, entry, store>> /\ upset \subseteq upset' => Agreed'
  BY DEF DataInv, Agreed, AtRest, Settled, Settles, Intended
<1>4. UNCHANGED <<job, todo, links, migrated, content>>
      /\ files \cup erased \cup raced \subseteq files' \cup erased' \cup raced' => TasksLinked'
  BY DEF DataInv, TasksLinked
<1>5. UNCHANGED <<links, content, todo, job>> /\ files' \subseteq files /\ raced \subseteq raced'
      /\ erased \subseteq erased' => UpToDate'
  BY Zenon DEF DataInv, UpToDate, Done
<1> QED BY <1>1, <1>2, <1>3, <1>4, <1>5, Zenon

-----------------------------------------------------------------------------
(* Requests that go on.                                                    *)

\* A request that does not wait for the storing task has no message on its way.
LEMMA NoMessage ==
  ASSUME DataInv, NEW c \in Clients, ~(call[c].pc \in Waiting /\ call[c].reply = "none")
  PROVE  /\ \A i \in DOMAIN queue : queue[i].client # c
         /\ store # NoMsg => store.msg.client # c
<1>1. c # Nobody
  BY MetaStoreAssumption DEF Clients, Nobody
<1>2. ASSUME NEW m, MessageFits(m) PROVE m.client # c
  BY <1>1, <1>2, Zenon DEF MessageFits, Awaited, Waiting
<1> QED BY <1>2, Zenon DEF DataInv, Messages

\* Where a request may go, from where it is.
MayGo(c, r) ==
  /\ r.pc = "idle" <=> r.db = 0
  /\ r.pc = "idle" => r = Idle
  /\ r.pc \in Creating => r.op = "create"
  /\ r.pc \in Removing => r.op \in {"create", "destroy"}
  /\ r.db = 0 \/ \A q \in Clients \ {c} : call[q].db # r.db
  /\ r.pc # "stored"
  /\ r.pc = "copy" => call[c].pc = "stored" /\ call[c].reply # "none" /\ r.db = call[c].db

\* A step of a request that sends nothing leaves the messages in order.
LEMMA Moves ==
  ASSUME DataInv, NEW c \in Clients, NEW r \in CallRecord, call' = [call EXCEPT ![c] = r], MayGo(c, r),
         UNCHANGED <<queue, store>>, trouble \subseteq trouble', raced \subseteq raced', upset \subseteq upset',
         ~(call[c].pc \in Waiting /\ call[c].reply = "none"),
         \A d \in Dbs : configs'[d] = "default" => configs[d] = "default"
  PROVE  Requests' /\ Messages' /\ InOrder' /\ OverdueWaits'
<1>1. call'[c] = r /\ \A q \in Clients \ {c} : call'[q] = call[q]
  BY Zenon DEF DataInv, Types
<1>2. Requests'
  BY <1>1 DEF DataInv, Requests, MayGo
<1>3. (\A i \in DOMAIN queue : queue[i].client # c) /\ (store # NoMsg => store.msg.client # c)
  BY NoMessage, Zenon
<1>4. Messages'
  <2>1. ASSUME NEW m \in Message, m.client # c, MessageFits(m) PROVE MessageFits(m)'
    BY <1>1, <2>1 DEF MessageFits, Awaited, Message
  <2>2. \A i \in DOMAIN queue : queue[i] \in Message
    BY DEF DataInv, Types
  <2>3. store # NoMsg => store.msg \in Message
    BY Zenon DEF DataInv, Types, StoreRecord
  <2>4. \A i \in DOMAIN queue : MessageFits(queue[i])'
    BY <1>3, <2>1, <2>2, Zenon DEF DataInv, Messages
  <2>5. store # NoMsg => MessageFits(store.msg)'
    BY <1>3, <2>1, <2>3, Zenon DEF DataInv, Messages
  <2> QED BY <2>4, <2>5, Zenon DEF DataInv, Messages
<1>5. InOrder'
  BY <1>1, <1>3 DEF DataInv, InOrder, OrphanOf, MayGo
<1>6. OverdueWaits'
  BY <1>1 DEF DataInv, OverdueWaits, OrphanOf, Waiting
<1> QED BY <1>2, <1>4, <1>5, <1>6, Zenon

\* A step of a request that changes no database keeps what it says of its database.
LEMMA OnlyMoves ==
  ASSUME DataInv, NEW c \in Clients, NEW r \in CallRecord, call' = [call EXCEPT ![c] = r], MayGo(c, r),
         UNCHANGED <<memory, disk, sched, raced, erased>>, upset \subseteq upset', trouble \subseteq trouble',
         acked' = acked \/ (acked' = acked \cup {call[c].db} /\ call[c].db # 0 /\ r.pc # "cleanup"), Acknowledged',
         ~(call[c].pc \in Waiting /\ call[c].reply = "none"),
         ProgressOf(r), r.db \in upset' \/ Settles(r),
         \/ call[c].db = 0 \/ AtRest(call[c]) \/ (r.db = call[c].db /\ ~AtRest(r))
         \/ call[c].db \in upset' \/ Settled(call[c].db)
  PROVE  DataInv'
<1>0. call'[c] = r /\ \A q \in Clients \ {c} : call'[q] = call[q]
  BY Zenon DEF DataInv, Types
<1>1. Types'
  BY Zenon DEF DataInv, Types, memory, disk, sched
<1>2. Requests' /\ Messages' /\ InOrder' /\ OverdueWaits'
  BY Moves, Zenon DEF memory
<1>3. LinksAgree' /\ TasksLinked' /\ UpToDate'
  BY Unmoved, DatabasesUnmoved, Zenon DEF memory, disk, sched
<1>4. Progress'
  <2>1. \A q \in Clients : ProgressOf(call'[q])
    BY <1>0, Zenon DEF DataInv, Progress
  <2>2. \A q \in Clients : call'[q].pc = "cleanup" => call'[q].db \notin acked'
    <3>1. \A q \in Clients : call'[q].pc = "cleanup" => call'[q].db \notin acked
      BY <2>1 DEF ProgressOf
    <3>2. \A q \in Clients \ {c} : call[q].db # call[c].db \/ call[c].db = 0
      BY DEF DataInv, Requests
    <3> QED BY <1>0, <3>1, <3>2
  <2> QED BY <2>1, <2>2, Zenon DEF Progress, ProgressOf, memory, disk
<1>5. Agreed'
  <2>1. \A q \in Clients : call'[q].db \in upset' \/ Settles(call'[q])
    BY <1>0, Zenon DEF DataInv, Agreed
  <2>2. \A d \in Dbs \ upset' : (\A q \in Clients : call'[q].db = d => AtRest(call'[q])) => Settled(d)
    <3> SUFFICES ASSUME NEW d \in Dbs \ upset', \A q \in Clients : call'[q].db = d => AtRest(call'[q])
                 PROVE  Settled(d)
      BY Zenon
    <3>1. CASE d = call[c].db /\ ~AtRest(call[c]) /\ d # 0
      BY <1>0, <3>1, Zenon
    <3>2. CASE d # call[c].db \/ AtRest(call[c])
      BY <1>0, <3>2, Zenon DEF DataInv, Agreed
    <3>3. d # 0
      BY MetaStoreAssumption DEF Dbs
    <3> QED BY <3>1, <3>2, <3>3, Zenon
  <2>3. UNCHANGED <<configs, rows, entry, store>>
    BY Zenon DEF memory, disk
  <2>4. \A q \in Clients : (call[q].db \in upset \/ Settles(call[q]))'
    <3> SUFFICES ASSUME NEW q \in Clients, call'[q].db \notin upset' PROVE Settles(call[q])'
      BY Zenon
    <3>1. Settles(call'[q])
      BY <2>1, Zenon
    <3>2. \A d : Intended(d)' = Intended(d)
      BY <2>3, Zenon DEF Intended
    <3> QED BY <2>3, <3>1, <3>2, Zenon DEF Settles
  <2> QED BY <2>2, <2>3, <2>4, Zenon DEF Agreed, AtRest, Settled
<1> QED BY <1>1, <1>2, <1>3, <1>4, <1>5, Zenon DEF DataInv

\* The record that Goto() makes.
LEMMA GotoRecord ==
  ASSUME DataInv, NEW c \in Clients, NEW pc \in Steps, Goto(c, pc)
  PROVE  \E r \in CallRecord : /\ call' = [call EXCEPT ![c] = r]
                               /\ r.pc = pc /\ r.op = call[c].op /\ r.db = call[c].db /\ r.reply = "none"
<1> DEFINE r == [call[c] EXCEPT !.pc = pc, !.reply = "none"]
<1>1. call[c] \in CallRecord
  BY Zenon DEF DataInv, Types
<1>2. r \in CallRecord /\ r.pc = pc /\ r.op = call[c].op /\ r.db = call[c].db /\ r.reply = "none"
  BY <1>1, Zenon DEF CallRecord
<1>3. call' = [call EXCEPT ![c] = r]
  BY Zenon DEF Goto, DataInv, Types
<1> QED BY <1>2, <1>3, Zenon

\* A request that goes on with its database.
LEMMA GoesOn ==
  ASSUME DataInv, NEW c \in Clients, call[c].pc # "idle", NEW r \in CallRecord,
         r.op = call[c].op, r.db = call[c].db, r.pc \notin {"idle", "stored", "copy"},
         r.pc \in Creating => r.op = "create", r.pc \in Removing => r.op \in {"create", "destroy"}
  PROVE  MayGo(c, r)
BY Zenon DEF DataInv, Requests, MayGo

\* A request that ends.
LEMMA IdleFits ==
  /\ Idle \in CallRecord /\ Idle.db = 0 /\ Idle.pc = "idle"
  /\ \A c \in Clients : MayGo(c, Idle)
  /\ ProgressOf(Idle) /\ Settles(Idle)
<1>1. Idle \in CallRecord /\ Idle.db = 0 /\ Idle.pc = "idle" /\ Idle.reply = "none"
  BY Zenon DEF Idle, CallRecord, Steps
<1> QED BY <1>1, Zenon DEF MayGo, ProgressOf, Settles, Creating, Removing

\* A creation that goes on within the steps that leave its database alone, and remove().
LEMMA StepsAside ==
  ASSUME DataInv, NEW c \in Clients, CreateLocked(c) \/ RemoveConn(c) \/ DropLock(c)
  PROVE  DataInv'
<1>0. /\ UNCHANGED <<memory, disk, sched, raced, erased, upset, trouble>> /\ acked' = acked
      /\ \/ call[c].pc = "lock" /\ Goto(c, "handle")
         \/ call[c].pc = "remove_conn" /\ Goto(c, "remove_configs")
         \/ call[c].pc = "drop" /\ Goto(c, "unlock")
  BY Zenon DEF CreateLocked, RemoveConn, DropLock, ghosts
<1>1. PICK r \in CallRecord :
        /\ call' = [call EXCEPT ![c] = r] /\ r.op = call[c].op /\ r.db = call[c].db /\ r.reply = "none"
        /\ \/ call[c].pc = "lock" /\ r.pc = "handle"
           \/ call[c].pc = "remove_conn" /\ r.pc = "remove_configs"
           \/ call[c].pc = "drop" /\ r.pc = "unlock"
  BY <1>0, GotoRecord DEF Steps, Creating, Removing
<1>2. MayGo(c, r)
  BY <1>1, GoesOn, Zenon DEF DataInv, Requests, Creating, Removing
<1>3. Acknowledged'
  BY <1>0, DatabasesUnmoved, Zenon DEF memory, disk
<1>4. ProgressOf(r)
  BY <1>1, Zenon DEF ProgressOf
<1>5. r.db \in upset \/ Settles(r)
  BY <1>1, Zenon DEF DataInv, Agreed, Settles, Removing
<1>6. AtRest(call[c]) \/ (r.db = call[c].db /\ ~AtRest(r))
  BY <1>1, Zenon DEF AtRest, Removing
<1> QED BY <1>0, <1>1, <1>2, <1>3, <1>4, <1>5, <1>6, OnlyMoves, Zenon DEF Waiting

\* The end of a creation and of a change.
LEMMA EndsWell ==
  ASSUME DataInv, NEW c \in Clients, Unlock(c) \/ Posted(c)
  PROVE  DataInv'
<1>0. /\ UNCHANGED <<memory, disk, sched, raced, erased, upset, trouble>> /\ acked' = acked
      /\ call' = [call EXCEPT ![c] = Idle]
      /\ call[c].pc = "unlock" \/ (call[c].pc = "posted" /\ call[c].reply # "none")
  BY Zenon DEF Unlock, Posted, ghosts
<1>1. Acknowledged'
  BY <1>0, DatabasesUnmoved, Zenon DEF memory, disk
<1>2. AtRest(call[c]) \/ call[c].db \in upset \/ Settled(call[c].db)
  <2>1. ASSUME call[c].pc = "posted", call[c].reply # "none", call[c].db \notin upset PROVE Settled(call[c].db)
    <3>1. store.pc = "update" => store.msg.db # call[c].db
      <4> SUFFICES ASSUME store.pc = "update", store.msg.db = call[c].db PROVE FALSE
        BY Zenon
      <4>1. store # NoMsg /\ store.msg \in Message /\ MessageFits(store.msg)
        BY DEF DataInv, Types, Messages, NoMsg, StoreRecord
      <4>2. store.msg.client \in Clients /\ call[store.msg.client].db = call[c].db
        BY <2>1, <4>1, Zenon DEF MessageFits, Awaited, Message
      <4>3. store.msg.client # c
        BY <2>1, <4>1, NoMessage, Zenon
      <4> QED BY <2>1, <4>2, <4>3, Zenon DEF DataInv, Requests
    <3>2. configs[call[c].db] = rows[call[c].db] /\ configs[call[c].db] \in Settings
      BY <2>1, <3>1, Zenon DEF DataInv, Agreed, Settles, Intended, Progress, ProgressOf
    <3> QED BY <3>2, MetaStoreAssumption, Zenon DEF Settled
  <2> QED BY <1>0, <2>1, Zenon DEF AtRest
<1> QED BY <1>0, <1>1, <1>2, IdleFits, OnlyMoves, Zenon DEF Waiting

\* The answers of the storing task to a creation.
LEMMA CreateAnswered ==
  ASSUME DataInv, NEW c \in Clients, CreateStored(c) \/ CreateFlushed(c)
  PROVE  DataInv'
<1>0. /\ UNCHANGED <<memory, disk, sched, raced, erased, upset, trouble>> /\ call[c].reply # "none"
      /\ \/ /\ call[c].pc = "stored" /\ acked' = acked
            /\ \/ call[c].reply = "ok" /\ Goto(c, "copy")
               \/ call[c].reply # "ok" /\ Goto(c, "remove_conn")
         \/ /\ call[c].pc = "flushing"
            /\ \/ call[c].reply = "ok" /\ Goto(c, "drop") /\ acked' = acked \cup {call[c].db}
               \/ call[c].reply = "err" /\ Goto(c, "remove_conn") /\ acked' = acked
  BY Zenon DEF CreateStored, CreateFlushed, ghosts
<1>1. PICK r \in CallRecord :
        /\ call' = [call EXCEPT ![c] = r] /\ r.op = call[c].op /\ r.db = call[c].db /\ r.reply = "none"
        /\ \/ call[c].pc = "stored" /\ call[c].reply = "ok" /\ r.pc = "copy"
           \/ call[c].reply # "ok" /\ r.pc = "remove_conn"
           \/ call[c].pc = "flushing" /\ call[c].reply = "ok" /\ r.pc = "drop"
  BY <1>0, GotoRecord DEF Steps, Creating, Removing
<1>2. call[c] \in CallRecord /\ call[c].op = "create" /\ ProgressOf(call[c]) /\ call[c].db # 0
  BY <1>0, Zenon DEF DataInv, Types, Requests, Progress, Creating
<1>3. MayGo(c, r)
  <2>1. CASE r.pc = "copy"
    BY <1>0, <1>1, <1>2, <2>1, Zenon DEF DataInv, Requests, MayGo, Creating, Removing
  <2> QED BY <1>0, <1>1, <1>2, <2>1, GoesOn, Zenon DEF Creating, Removing
<1>4. Acknowledged'
  <2>1. acked' = acked => Acknowledged'
    BY <1>0, DatabasesUnmoved, Zenon DEF memory, disk
  <2>2. call[c].pc = "flushing" /\ call[c].reply = "ok" /\ acked' = acked \cup {call[c].db} => Acknowledged'
    BY <1>0, <1>2, Zenon DEF DataInv, Acknowledged, ProgressOf, memory, disk
  <2> QED BY <1>0, <2>1, <2>2, Zenon
<1>5. ProgressOf(r)
  BY <1>1, <1>2, Zenon DEF ProgressOf
<1>6. r.db \in upset \/ Settles(r)
  BY <1>0, <1>1, <1>2, Zenon DEF DataInv, Agreed, Settles, ProgressOf, Removing, CallRecord
<1>7. (r.db = call[c].db /\ ~AtRest(r)) \/ call[c].db \in upset \/ Settled(call[c].db)
  <2>1. r.pc # "drop" => ~AtRest(r)
    BY <1>0, <1>1, <1>2, Zenon DEF AtRest, Removing
  <2>2. r.pc = "drop" => call[c].db \in upset \/ Settled(call[c].db)
    BY <1>0, <1>1, <1>2, MetaStoreAssumption, Zenon DEF DataInv, Agreed, Settles, Settled, ProgressOf
  <2> QED BY <1>1, <2>1, <2>2, Zenon
<1> QED BY <1>0, <1>1, <1>2, <1>3, <1>4, <1>5, <1>6, <1>7, OnlyMoves, Zenon DEF Waiting

\* The record that Start() makes, in the place of a request that is not there.
LEMMA StartRecord ==
  ASSUME DataInv, NEW c \in Clients, NEW op \in {"create", "destroy", "post"}, NEW d \in Dbs,
         NEW pc \in {"lock", "remove_conn", "posted"}, Start(c, op, d, pc),
         pc = "lock" => op = "create", pc = "remove_conn" => op = "destroy"
  PROVE  /\ call[c].pc = "idle" /\ call[c].db = 0 /\ \A q \in Clients : call[q].db # d
         /\ \E r \in CallRecord : /\ call' = [call EXCEPT ![c] = r] /\ MayGo(c, r)
                                  /\ r.pc = pc /\ r.op = op /\ r.db = d /\ r.reply = "none"
<1> DEFINE r == [op |-> op, db |-> d, pc |-> pc, reply |-> "none"]
<1>1. r \in CallRecord /\ r.pc = pc /\ r.op = op /\ r.db = d /\ r.reply = "none"
  BY Zenon DEF CallRecord, Steps, Creating, Removing
<1>2. call' = [call EXCEPT ![c] = r] /\ call[c] = Idle /\ \A q \in Clients : call[q].db # d
  BY Zenon DEF Start
<1>3. MayGo(c, r)
  <2>1. d # 0
    BY MetaStoreAssumption DEF Dbs
  <2> QED BY <1>1, <1>2, <2>1, Zenon DEF MayGo, Creating, Removing
<1>4. call[c].pc = "idle" /\ call[c].db = 0
  BY <1>2 DEF Idle
<1> HIDE DEF r
<1> QED BY <1>1, <1>2, <1>3, <1>4, Zenon

\* A creation and a removal begin.
LEMMA Begins ==
  ASSUME DataInv, NEW c \in Clients, NEW d \in Dbs, Create(c, d) \/ Destroy(c, d)
  PROVE  DataInv'
<1>0. /\ UNCHANGED <<memory, disk, sched, raced, erased, upset, trouble>> /\ acked' = acked
      /\ Start(c, "create", d, "lock") \/ Start(c, "destroy", d, "remove_conn")
  BY Zenon DEF Create, Destroy, ghosts
<1>1. PICK r \in CallRecord :
        /\ call' = [call EXCEPT ![c] = r] /\ MayGo(c, r) /\ r.reply = "none"
        /\ (r.pc = "lock" /\ r.op = "create") \/ (r.pc = "remove_conn" /\ r.op = "destroy")
  BY <1>0, StartRecord
<1>2. call[c].pc = "idle" /\ call[c].db = 0
  BY <1>0, StartRecord
<1>3. Acknowledged'
  BY <1>0, DatabasesUnmoved, Zenon DEF memory, disk
<1>4. ProgressOf(r) /\ Settles(r)
  BY <1>1, Zenon DEF ProgressOf, Settles, Removing
<1> QED BY <1>0, <1>1, <1>2, <1>3, <1>4, OnlyMoves, Zenon DEF Waiting

-----------------------------------------------------------------------------
(* Steps of a request that change its database.                            *)

\* A step that is about one database keeps what requests and memory say of the others.
LEMMA OnlyItsDatabase ==
  ASSUME DataInv, NEW d \in Dbs,
         \A q \in Clients :
           \/ call'[q] = call[q] /\ call[q].db # d
           \/ /\ call[q].db \in {0, d} /\ call'[q].db \in {0, d} /\ ProgressOf(call[q])'
              /\ (call[q].db \in upset \/ Settles(call[q]))',
         \A e \in Dbs \ {d} :
           /\ configs'[e] = configs[e] /\ rows'[e] = rows[e] /\ entry'[e] = entry[e] /\ Intended(e)' = Intended(e)
           /\ (e \in links' <=> e \in links) /\ (e \in files' <=> e \in files),
         acked' \subseteq acked \cup {d}, raced \subseteq raced' \cup {d}, upset \subseteq upset',
         (\A q \in Clients : call'[q].db = d => AtRest(call'[q])) => d \in upset' \/ Settled(d)'
  PROVE  Progress' /\ Agreed'
<1>1. ASSUME NEW q \in Clients, call'[q] = call[q], call[q].db # d
      PROVE  ProgressOf(call[q])' /\ (call[q].db \in upset \/ Settles(call[q]))'
  <2>1. call[q].db \in Dbs \/ call[q].pc = "idle"
    BY Zenon DEF DataInv, Types, Requests, CallRecord
  <2>2. ProgressOf(call[q]) /\ (call[q].db \in upset \/ Settles(call[q]))
    BY Zenon DEF DataInv, Progress, Agreed
  <2>3. CASE call[q].pc = "idle"
    <3>1. call'[q] = Idle
      BY <1>1, <2>3, Zenon DEF DataInv, Requests
    <3>2. call'[q].pc = "idle" /\ call'[q].reply = "none"
      BY <3>1 DEF Idle
    <3> QED BY <3>2, Zenon DEF ProgressOf, Settles, Removing
  <2>4. CASE call[q].db \in Dbs
    <3>1. PICK e \in Dbs \ {d} : e = call[q].db
      BY <1>1, <2>4, Zenon
    <3>2. /\ configs'[e] = configs[e] /\ rows'[e] = rows[e] /\ entry'[e] = entry[e] /\ Intended(e)' = Intended(e)
          /\ (e \in links' <=> e \in links) /\ (e \in files' <=> e \in files)
      BY Zenon
    <3>3. (e \in acked' => e \in acked) /\ (e \in raced => e \in raced') /\ (e \in upset => e \in upset')
      BY Zenon
    <3>4. ProgressOf(call[q])'
      BY <1>1, <2>2, <3>1, <3>2, <3>3, Zenon DEF ProgressOf
    <3>5. (call[q].db \in upset \/ Settles(call[q]))'
      <4> SUFFICES ASSUME Settles(call[q]) PROVE Settles(call[q])'
        BY <1>1, <2>2, <3>1, <3>3, Zenon
      <4>1. call'[q] = call[q] /\ call'[q].db = e /\ call[q].db = e
        BY <1>1, <3>1, Zenon
      <4>2. /\ call[q].pc \in Removing /\ call[q].op = "create" => configs[e] \in Settings /\ entry[e] = "empty"
            /\ call[q].pc \in {"stored", "copy"} => entry[e] = "empty"
            /\ call[q].pc = "flushing" /\ call[q].reply # "none" => configs[e] = rows[e]
            /\ call[q].pc = "cleanup" => configs[e] = "absent" /\ rows[e] = "absent"
            /\ call[q].pc = "posted" => rows[e] = Intended(e)
        BY <4>1, Zenon DEF Settles
      <4>3. /\ call'[q].pc \in Removing /\ call'[q].op = "create" => configs'[e] \in Settings /\ entry'[e] = "empty"
            /\ call'[q].pc \in {"stored", "copy"} => entry'[e] = "empty"
            /\ call'[q].pc = "flushing" /\ call'[q].reply # "none" => configs'[e] = rows'[e]
            /\ call'[q].pc = "cleanup" => configs'[e] = "absent" /\ rows'[e] = "absent"
            /\ call'[q].pc = "posted" => rows'[e] = Intended(e)'
        BY <3>2, <4>1, <4>2, Zenon
      <4> QED BY <4>1, <4>3, Zenon DEF Settles
    <3> QED BY <3>4, <3>5, Zenon
  <2> QED BY <2>1, <2>3, <2>4, Zenon
<1>2. Progress'
  BY <1>1, Zenon DEF Progress
<1>3. \A q \in Clients : (call[q].db \in upset \/ Settles(call[q]))'
  BY <1>1, Zenon
<1>4. \A e \in Dbs \ upset' : (\A q \in Clients : call'[q].db = e => AtRest(call'[q])) => Settled(e)'
  <2> SUFFICES ASSUME NEW e \in Dbs \ upset', \A q \in Clients : call'[q].db = e => AtRest(call'[q])
               PROVE  Settled(e)'
    BY Zenon
  <2>1. CASE e # d
    <3>1. \A q \in Clients : call[q].db = e => AtRest(call[q])
      BY <2>1, MetaStoreAssumption DEF Dbs
    <3>2. Settled(e)
      BY <3>1, Zenon DEF DataInv, Agreed
    <3> QED BY <2>1, <3>2, Zenon DEF Settled
  <2> QED BY <2>1, Zenon
<1>5. Agreed'
  BY <1>3, <1>4, Zenon DEF Agreed, AtRest
<1> QED BY <1>2, <1>5, Zenon

\* The same for a step of one request, on the database it is about.
LEMMA OnlyItsCall ==
  ASSUME DataInv, NEW d \in Dbs, NEW c \in Clients,
         /\ call[c].db \in {0, d} /\ call'[c].db \in {0, d}
         /\ \A q \in Clients \ {c} : call'[q] = call[q] /\ call[q].db # d
         /\ ProgressOf(call[c])' /\ (call[c].db \in upset \/ Settles(call[c]))'
         /\ (call'[c].db = d /\ ~AtRest(call'[c])) \/ d \in upset' \/ Settled(d)',
         \A e \in Dbs \ {d} :
           /\ configs'[e] = configs[e] /\ rows'[e] = rows[e] /\ entry'[e] = entry[e] /\ Intended(e)' = Intended(e)
           /\ (e \in links' <=> e \in links) /\ (e \in files' <=> e \in files),
         acked' \subseteq acked \cup {d} /\ raced \subseteq raced' \cup {d} /\ upset \subseteq upset'
  PROVE  Progress' /\ Agreed'
<1>1. \A q \in Clients :
        \/ call'[q] = call[q] /\ call[q].db # d
        \/ /\ call[q].db \in {0, d} /\ call'[q].db \in {0, d} /\ ProgressOf(call[q])'
           /\ (call[q].db \in upset \/ Settles(call[q]))'
  <2> SUFFICES ASSUME NEW q \in Clients
               PROVE  \/ call'[q] = call[q] /\ call[q].db # d
                      \/ /\ call[q].db \in {0, d} /\ call'[q].db \in {0, d} /\ ProgressOf(call[q])'
                         /\ (call[q].db \in upset \/ Settles(call[q]))'
    BY Zenon
  <2>1. CASE q = c
    BY <2>1, Zenon
  <2>2. CASE q # c
    BY <2>2, Zenon
  <2> QED BY <2>1, <2>2, Zenon
<1>2. (\A q \in Clients : call'[q].db = d => AtRest(call'[q])) => d \in upset' \/ Settled(d)'
  <2> SUFFICES ASSUME \A q \in Clients : call'[q].db = d => AtRest(call'[q]) PROVE d \in upset' \/ Settled(d)'
    BY Zenon
  <2>1. call'[c].db = d => AtRest(call'[c])
    BY Zenon
  <2> QED BY <2>1
<1> QED BY <1>1, <1>2, OnlyItsDatabase, Zenon

\* A step that changes what one database has keeps what the others have.
LEMMA OnlyItsContent ==
  ASSUME DataInv, NEW d \in Dbs, job' = job, content'[Schema] = content[Schema], links' \subseteq Dbs, files' \subseteq Dbs,
         \A e \in Dbs \ {d} :
           /\ content'[e] = content[e] /\ (e \in todo' <=> e \in todo) /\ (e \in links' <=> e \in links)
           /\ (e \in files' => e \in files) /\ (e \in raced \cup erased => e \in raced' \cup erased'),
         d \in links' \ (raced' \cup erased') =>
           content'[d] = IF d \in todo' THEN content[Schema] ELSE content[Schema] \cup Done,
         d \in files' \ (links' \cup raced' \cup erased') => content'[d] = content[Schema]
  PROVE  UpToDate'
<1>1. ASSUME NEW e \in links' \ (raced' \cup erased')
      PROVE  content'[e] = IF e \in todo' THEN content[Schema] ELSE content[Schema] \cup Done
  <2>1. CASE e # d
    <3>1. e \in links \ (raced \cup erased) /\ content'[e] = content[e] /\ (e \in todo' <=> e \in todo)
      BY <1>1, <2>1, Zenon
    <3> QED BY <3>1, Zenon DEF DataInv, UpToDate
  <2> QED BY <1>1, <2>1, Zenon
<1>2. ASSUME NEW e \in files' \ (links' \cup raced' \cup erased') PROVE content'[e] = content[Schema]
  <2>1. CASE e # d
    <3>1. e \in files \ (links \cup raced \cup erased) /\ content'[e] = content[e]
      BY <1>2, <2>1, Zenon
    <3> QED BY <3>1, Zenon DEF DataInv, UpToDate
  <2> QED BY <1>2, <2>1, Zenon
<1> QED BY <1>1, <1>2, Zenon DEF UpToDate, Done

\* destroy() is done with its database.
LEMMA CleanupKeeps == ASSUME DataInv, NEW c \in Clients, Cleanup(c) PROVE DataInv'
<1>0. PICK d \in Dbs :
      /\ d = call[c].db /\ call[c].pc = "cleanup" /\ call' = [call EXCEPT ![c] = Idle]
      /\ entry' = [entry EXCEPT ![d] = "none"] /\ files' \in {files, files \ {d}} /\ trouble \subseteq trouble'
      /\ UNCHANGED <<configs, queue, store, rows, links, content, sched, ghosts>>
  BY Zenon DEF Cleanup, Fault, DataInv, Types, Requests, CallRecord
<1>1. call'[c] = Idle /\ \A q \in Clients \ {c} : call'[q] = call[q] /\ call[q].db # d
  BY <1>0, Zenon DEF DataInv, Types, Requests
<1>2. d \notin acked /\ d \notin links \ raced
  BY <1>0, Zenon DEF DataInv, Progress, ProgressOf
<1>3. Types'
  BY <1>0, IdleFits, Zenon DEF DataInv, Types, sched
<1>4. Requests' /\ Messages' /\ InOrder' /\ OverdueWaits'
  BY <1>0, IdleFits, Moves, Zenon DEF Waiting, ghosts
<1>5. LinksAgree'
  BY <1>0, Unmoved, Zenon
<1>6. Acknowledged'
  BY <1>0, <1>2, Zenon DEF DataInv, Acknowledged, ghosts
<1>7. Progress' /\ Agreed'
  <2>1. ProgressOf(call[c])' /\ Settles(call[c])'
    BY <1>1 DEF ProgressOf, Settles, Idle, Removing
  <2>2. \A e \in Dbs \ {d} : entry'[e] = entry[e] /\ (e \in files' <=> e \in files) /\ Intended(e)' = Intended(e)
    BY <1>0, Zenon DEF DataInv, Types, Intended
  <2>3. d \in upset' \/ Settled(d)'
    <3>1. d \in upset \/ (configs[d] = "absent" /\ rows[d] = "absent")
      BY <1>0, Zenon DEF DataInv, Agreed, Settles
    <3>2. entry'[d] = "none"
      BY <1>0, Zenon DEF DataInv, Types
    <3> QED BY <1>0, <3>1, <3>2, Zenon DEF Settled, ghosts
  <2>4. call'[c].db = 0
    BY <1>1 DEF Idle
  <2>5. /\ call[c].db \in {0, d} /\ call'[c].db \in {0, d}
        /\ \A q \in Clients \ {c} : call'[q] = call[q] /\ call[q].db # d
        /\ ProgressOf(call[c])' /\ (call[c].db \in upset \/ Settles(call[c]))'
        /\ (call'[c].db = d /\ ~AtRest(call'[c])) \/ d \in upset' \/ Settled(d)'
    BY <1>0, <1>1, <2>1, <2>3, <2>4, Zenon
  <2>6. \A e \in Dbs \ {d} :
          /\ configs'[e] = configs[e] /\ rows'[e] = rows[e] /\ entry'[e] = entry[e] /\ Intended(e)' = Intended(e)
          /\ (e \in links' <=> e \in links) /\ (e \in files' <=> e \in files)
    BY <1>0, <2>2, Zenon
  <2>7. acked' \subseteq acked \cup {d} /\ raced \subseteq raced' \cup {d} /\ upset \subseteq upset'
    BY <1>0, Zenon DEF ghosts
  <2> QED BY <2>5, <2>6, <2>7, OnlyItsCall, Zenon
<1>8. TasksLinked'
  BY <1>0, <1>2, Zenon DEF DataInv, TasksLinked, sched, ghosts
<1>9. UpToDate'
  BY <1>0, Zenon DEF DataInv, UpToDate, Done, sched, ghosts
<1> QED BY <1>3, <1>4, <1>5, <1>6, <1>7, <1>8, <1>9, Zenon DEF DataInv

\* remove() of a database whose configuration in memory names no schema finds no link.
LEMMA NoLinkWithoutSchema ==
  ASSUME DataInv, NEW c \in Clients, call[c].pc \in Removing, configs[call[c].db] = "default"
  PROVE  call[c].db \notin links
<1> DEFINE d == call[c].db
<1> SUFFICES ASSUME d \in links PROVE FALSE
  BY Zenon
<1>1. d \in Dbs /\ Overdue(d)
  BY MetaStoreAssumption, Zenon DEF DataInv, Types, LinksAgree
<1>2. store # NoMsg /\ OrphanOf(store.msg, d) /\ store.msg.flush /\ store.msg.config # "none"
  <2>1. store # NoMsg /\ store.pc = "update"
    BY <1>1 DEF Overdue, NoMsg
  <2> QED BY <1>1, <2>1, Zenon DEF Overdue, DataInv, Messages
<1>3. PICK q \in Clients : call[q].db = d /\ call[q].pc = "stored"
  BY <1>1, <1>2, Zenon DEF DataInv, OverdueWaits
<1> QED BY <1>1, <1>3, MetaStoreAssumption, Zenon DEF DataInv, Requests, Removing, Dbs

\* remove() that changes nothing.
LEMMA RemoveRefused ==
  ASSUME DataInv, NEW c \in Clients, call[c].pc = "remove_configs",
         LET create == call[c].op = "create" IN
         /\ call' = [call EXCEPT ![c] = IF create THEN [@ EXCEPT !.pc = "drop"] ELSE Idle]
         /\ \/ configs[call[c].db] = "absent" /\ UNCHANGED <<upset, trouble>>
            \/ upset' = (IF create THEN upset \cup {call[c].db} ELSE upset) /\ trouble \subseteq trouble',
         UNCHANGED <<memory, disk, sched, acked, raced, erased>>
  PROVE  DataInv'
<1>0. call[c] \in CallRecord /\ call[c].db \in Dbs /\ ProgressOf(call[c]) /\ call[c].op \in {"create", "destroy"}
  BY Zenon DEF DataInv, Types, Requests, CallRecord, Progress, Removing
<1>1. PICK r \in CallRecord :
        /\ call' = [call EXCEPT ![c] = r]
        /\ \/ r = Idle /\ call[c].op = "destroy"
           \/ r.pc = "drop" /\ r.op = "create" /\ call[c].op = "create" /\ r.db = call[c].db /\ r.reply = call[c].reply
  <2> DEFINE r == IF call[c].op = "create" THEN [call[c] EXCEPT !.pc = "drop"] ELSE Idle
  <2>1. /\ r \in CallRecord
        /\ \/ r = Idle /\ call[c].op = "destroy"
           \/ r.pc = "drop" /\ r.op = "create" /\ call[c].op = "create" /\ r.db = call[c].db /\ r.reply = call[c].reply
    BY <1>0, IdleFits DEF CallRecord, Steps, Creating
  <2>2. call' = [call EXCEPT ![c] = r]
    BY Zenon DEF DataInv, Types
  <2> HIDE DEF r
  <2> QED BY <2>1, <2>2, Zenon
<1>2. MayGo(c, r) /\ ProgressOf(r) /\ Settles(r)
  <2>1. CASE r = Idle
    BY <2>1, IdleFits, Zenon
  <2>2. CASE r.pc = "drop" /\ r.op = "create" /\ call[c].op = "create" /\ r.db = call[c].db /\ r.reply = call[c].reply
    <3>1. MayGo(c, r)
      BY <2>2, GoesOn, Zenon DEF Creating, Removing
    <3> QED BY <1>0, <2>2, <3>1, Zenon DEF ProgressOf, Settles, Removing
  <2> QED BY <1>1, <2>1, <2>2, Zenon
<1>3. Acknowledged'
  BY DatabasesUnmoved, Zenon DEF memory, disk
<1>4. upset \subseteq upset' /\ trouble \subseteq trouble'
  BY Zenon
<1>5. AtRest(call[c]) \/ call[c].db \in upset'
  <2>1. call[c].op = "destroy" => AtRest(call[c])
    BY Zenon DEF AtRest, Removing
  <2>2. call[c].op = "create" /\ configs[call[c].db] = "absent" => call[c].db \in upset
    BY MetaStoreAssumption, Zenon DEF DataInv, Agreed, Settles, Removing
  <2> QED BY <1>0, <1>4, <2>1, <2>2, Zenon
<1> QED BY <1>1, <1>2, <1>3, <1>4, <1>5, OnlyMoves, Zenon DEF Waiting

\* remove(), of a destroy() or of a creation that failed.
LEMMA RemoveKeeps == ASSUME DataInv, NEW c \in Clients, RemoveConfigs(c) PROVE DataInv'
<1> DEFINE d == call[c].db
           create == call[c].op = "create"
<1>0. /\ call[c].pc = "remove_configs" /\ d \in Dbs /\ call[c].op \in {"create", "destroy"} /\ call[c].db # 0
      /\ UNCHANGED <<entry, queue, store, files, content, sched, raced, erased>>
  <2>1. call[c].pc = "remove_configs"
    BY Zenon DEF RemoveConfigs
  <2>2. UNCHANGED <<entry, queue, store, files, content, sched, raced, erased>>
    BY Zenon DEF RemoveConfigs
  <2> QED BY <2>1, <2>2, Zenon DEF DataInv, Types, Requests, CallRecord, Removing
<1>1. CASE /\ configs[d] # "absent" /\ MayRemove(configs[d])
           /\ rows' = [rows EXCEPT ![d] = "absent"]
           /\ links' = IF configs[d] \in Settings THEN links \ {d} ELSE links
           /\ configs' = [configs EXCEPT ![d] = "absent"]
           /\ acked' = acked \ {d}
           /\ Goto(c, IF create THEN "drop" ELSE "cleanup")
           /\ UNCHANGED <<upset, trouble>>
  <2>1. PICK r \in CallRecord :
          /\ call' = [call EXCEPT ![c] = r] /\ r.op = call[c].op /\ r.db = d /\ r.reply = "none"
          /\ r.pc = IF create THEN "drop" ELSE "cleanup"
    BY <1>1, GotoRecord DEF Steps, Creating
  <2>2. call'[c] = r /\ \A q \in Clients \ {c} : call'[q] = call[q] /\ call[q].db # d
    BY <1>0, <2>1, Zenon DEF DataInv, Types, Requests
  <2>3. links' = links \ {d}
    <3>1. configs[d] \notin Settings => d \notin links
      BY <1>0, <1>1, NoLinkWithoutSchema, Zenon DEF DataInv, Types, Config, Removing
    <3> QED BY <1>1, <3>1, Zenon
  <2>4. d \in links => job = 0
    <3>1. d \in links => configs[d] \in Settings
      BY <1>0, <1>1, NoLinkWithoutSchema, Zenon DEF DataInv, Types, Config, Removing
    <3> QED BY <1>1, <3>1, Zenon DEF MayRemove, PendingMigration
  <2>5. Types'
    <3>1. configs' \in [Dbs -> Config] /\ rows' \in [Dbs -> Config]
      BY <1>1, Zenon DEF DataInv, Types, Config
    <3> QED BY <1>0, <2>1, <2>3, <3>1, Zenon DEF DataInv, Types, sched
  <2>6. Requests' /\ Messages' /\ InOrder' /\ OverdueWaits'
    <3>1. MayGo(c, r)
      BY <1>0, <2>1, GoesOn, Zenon DEF Creating, Removing
    <3>2. \A e \in Dbs : configs'[e] = "default" => configs[e] = "default"
      BY <1>1, Zenon DEF DataInv, Types
    <3> QED BY <1>0, <1>1, <2>1, <3>1, <3>2, Moves, Zenon DEF Waiting
  <2>7. LinksAgree'
    BY <1>0, <1>1, <2>3, MetaStoreAssumption DEF DataInv, Types, LinksAgree, Overdue, OrphanOf
  <2>8. Acknowledged'
    BY <1>0, <1>1, <2>3, Zenon DEF DataInv, Types, Acknowledged
  <2>9. Progress' /\ Agreed'
    <3>1. ProgressOf(call[c])'
      BY <1>1, <2>1, <2>2, <2>3 DEF ProgressOf
    <3>2. Settles(call[c])'
      BY <1>0, <1>1, <2>1, <2>2, Zenon DEF Settles, Removing, DataInv, Types
    <3>3. \A e \in Dbs \ {d} : configs'[e] = configs[e] /\ rows'[e] = rows[e] /\ (e \in links' <=> e \in links)
      BY <1>1, <2>3, Zenon DEF DataInv, Types
    <3>4. \A e \in Dbs \ {d} : Intended(e)' = Intended(e)
      BY <1>0, <3>3, Zenon DEF Intended
    <3>5. AtRest(call'[c]) => d \in upset \/ Settled(d)'
      <4>1. configs'[d] = "absent" /\ rows'[d] = "absent"
        BY <1>0, <1>1, Zenon DEF DataInv, Types
      <4>2. create => d \in upset \/ entry[d] = "empty"
        BY <1>0, Zenon DEF DataInv, Agreed, Settles, Removing
      <4> QED BY <1>0, <2>1, <2>2, <4>1, <4>2 DEF AtRest, Settled, Removing
    <3>6. PICK x \in Dbs : x = d
      BY <1>0, Zenon
    <3>7. /\ call[c].db \in {0, x} /\ call'[c].db \in {0, x}
          /\ \A q \in Clients \ {c} : call'[q] = call[q] /\ call[q].db # x
          /\ ProgressOf(call[c])' /\ (call[c].db \in upset \/ Settles(call[c]))'
          /\ (call'[c].db = x /\ ~AtRest(call'[c])) \/ x \in upset' \/ Settled(x)'
      BY <1>0, <1>1, <2>1, <2>2, <3>1, <3>2, <3>5, <3>6, Zenon
    <3>8. \A e \in Dbs \ {x} :
            /\ configs'[e] = configs[e] /\ rows'[e] = rows[e] /\ entry'[e] = entry[e] /\ Intended(e)' = Intended(e)
            /\ (e \in links' <=> e \in links) /\ (e \in files' <=> e \in files)
      BY <1>0, <3>3, <3>4, <3>6, Zenon
    <3>9. acked' \subseteq acked \cup {x} /\ raced \subseteq raced' \cup {x} /\ upset \subseteq upset'
      BY <1>0, <1>1, <3>6, Zenon
    <3> QED BY <3>7, <3>8, <3>9, OnlyItsCall, Zenon
  <2>10. TasksLinked'
    BY <1>0, <2>3, <2>4, Zenon DEF DataInv, TasksLinked, sched
  <2>11. UpToDate'
    <3>1. \A e \in links' \ (raced \cup erased) :
            content[e] = IF e \in todo THEN content[Schema] ELSE content[Schema] \cup Done
      BY <2>3, Zenon DEF DataInv, UpToDate
    <3>2. \A e \in files \ (links' \cup raced \cup erased) : content[e] = content[Schema]
      <4>1. d \in links \ (raced \cup erased) => content[d] = content[Schema]
        BY <2>4, Zenon DEF DataInv, UpToDate, Done
      <4> QED BY <2>3, <4>1 DEF DataInv, UpToDate
    <3> QED BY <1>0, <3>1, <3>2, Zenon DEF UpToDate, Done, sched
  <2> QED BY <2>5, <2>6, <2>7, <2>8, <2>9, <2>10, <2>11, Zenon DEF DataInv
<1>2. CASE configs[d] = "absent" /\ UNCHANGED <<configs, rows, links, acked, upset, trouble>>
           /\ call' = [call EXCEPT ![c] = IF create THEN [@ EXCEPT !.pc = "drop"] ELSE Idle]
  BY <1>0, <1>2, RemoveRefused, Zenon DEF memory, disk
<1>3. CASE /\ trouble \subseteq trouble' /\ UNCHANGED <<configs, rows, links, acked>>
           /\ call' = [call EXCEPT ![c] = IF create THEN [@ EXCEPT !.pc = "drop"] ELSE Idle]
           /\ upset' = IF create THEN upset \cup {d} ELSE upset
  BY <1>0, <1>3, RemoveRefused, Zenon DEF memory, disk
<1> QED BY <1>1, <1>2, <1>3, Zenon DEF RemoveConfigs, Fault

-----------------------------------------------------------------------------
(* Steps of a request that send to the storing task.                       *)

\* The order of the channel.
LEMMA Appended ==
  ASSUME NEW m \in Message, queue \in Seq(Message), queue' = Append(queue, m)
  PROVE  /\ queue' \in Seq(Message) /\ DOMAIN queue' = DOMAIN queue \cup {Len(queue) + 1}
         /\ queue'[Len(queue) + 1] = m /\ \A i \in DOMAIN queue : queue'[i] = queue[i]
         /\ \A i \in DOMAIN queue : i \in Nat /\ i < Len(queue) + 1
OBVIOUS

NoOrphan(d) ==
  (\A j \in DOMAIN queue : ~OrphanOf(queue[j], d)) /\ (store # NoMsg => ~OrphanOf(store.msg, d))

\* Request r of c sends m and then waits for the answer.
SendStep(c, r, m) ==
  /\ call' = [call EXCEPT ![c] = r] /\ queue' = Append(queue, m) /\ store' = store
  /\ r.db # 0 /\ r.reply = "none"
  /\ r.pc = "posted" \/ (r.op = "create" /\ r.pc \in {"stored", "flushing"})
  /\ \A q \in Clients \ {c} : call[q].db # r.db
  /\ m.client = c /\ m.db = r.db
  /\ r.pc = IF m.config = "none" THEN "flushing" ELSE IF m.flush THEN "posted" ELSE "stored"
  /\ ~(call[c].pc \in Waiting /\ call[c].reply = "none")
  /\ trouble \subseteq trouble' /\ upset \subseteq upset' /\ \A e \in raced \ raced' : NoOrphan(e)
  /\ \A e \in Dbs : configs'[e] = "default" => configs[e] = "default" \/ (e = r.db /\ r.pc = "stored")

\* It finds the messages in order.
LEMMA Sends ==
  ASSUME DataInv, NEW c \in Clients, NEW r \in CallRecord, NEW m \in Message, SendStep(c, r, m)
  PROVE  Requests' /\ Messages' /\ InOrder' /\ OverdueWaits'
<1> DEFINE n == Len(queue) + 1
<1>0. /\ store' = store /\ trouble \subseteq trouble' /\ upset \subseteq upset'
      /\ m.client = c /\ m.db = r.db /\ r.reply = "none"
      /\ r.pc = IF m.config = "none" THEN "flushing" ELSE IF m.flush THEN "posted" ELSE "stored"
  BY DEF SendStep
<1>1. call'[c] = r /\ \A q \in Clients \ {c} : call'[q] = call[q]
  BY Zenon DEF DataInv, Types, SendStep
<1>2. c # Nobody
  BY MetaStoreAssumption DEF Clients, Nobody
<1>3. (\A i \in DOMAIN queue : queue[i].client # c) /\ (store # NoMsg => store.msg.client # c)
  BY NoMessage, Zenon DEF SendStep
<1>4. /\ DOMAIN queue' = DOMAIN queue \cup {n} /\ queue'[n] = m /\ \A i \in DOMAIN queue : queue'[i] = queue[i]
      /\ \A i \in DOMAIN queue : i \in Nat /\ i < n
  BY Appended, Zenon DEF DataInv, Types, SendStep
<1> HIDE DEF n
<1>5. Requests'
  BY <1>1 DEF DataInv, Requests, Creating, Removing, SendStep
<1>6. Messages'
  <2>1. MessageFits(m)'
    BY <1>0, <1>1, <1>2 DEF MessageFits, Awaited
  <2>2. ASSUME NEW o \in Message, o.client # c, MessageFits(o), o.client = Nobody => o.db \in raced' PROVE MessageFits(o)'
    BY <1>0, <1>1, <2>2 DEF MessageFits, Awaited, Message
  <2>3. \A i \in DOMAIN queue : MessageFits(queue[i])'
    <3> SUFFICES ASSUME NEW i \in DOMAIN queue PROVE MessageFits(queue[i])'
      BY Zenon
    <3>1. queue[i] \in Message /\ MessageFits(queue[i])
      BY DEF DataInv, Types, Messages
    <3>2. queue[i].client = Nobody => queue[i].db \in raced'
      BY <3>1, Zenon DEF MessageFits, NoOrphan, OrphanOf, SendStep
    <3>3. queue'[i] = queue[i] /\ queue[i].client # c
      BY <1>3, <1>4, Zenon
    <3> QED BY <2>2, <3>1, <3>2, <3>3 DEF MessageFits, Awaited
  <2>4. store # NoMsg => MessageFits(store.msg)'
    <3> SUFFICES ASSUME store # NoMsg PROVE MessageFits(store.msg)'
      BY Zenon
    <3>1. store.msg \in Message /\ MessageFits(store.msg)
      BY Zenon DEF DataInv, Types, Messages, StoreRecord
    <3>2. store.msg.client = Nobody => store.msg.db \in raced'
      BY <3>1, Zenon DEF MessageFits, NoOrphan, OrphanOf, SendStep
    <3> QED BY <1>0, <1>3, <2>2, <3>1, <3>2 DEF MessageFits, Awaited
  <2>5. (\A i \in DOMAIN queue : MessageFits(queue[i]))'
    BY <1>4, <2>1, <2>3 DEF MessageFits, Awaited
  <2>6. \A i, j \in DOMAIN queue' : i # j => queue'[i].client = Nobody \/ queue'[i].client # queue'[j].client
    BY <1>0, <1>3, <1>4 DEF DataInv, Messages
  <2>7. store # NoMsg =>
          \A i \in DOMAIN queue' : queue'[i].client = Nobody \/ queue'[i].client # store.msg.client
    BY <1>0, <1>3, <1>4 DEF DataInv, Messages
  <2>8. store # NoMsg =>
          /\ store.pc \in {"flush", "flush_conn"} <=> store.msg.config = "none"
          /\ store.pc = "write" => store.msg.flush
          /\ ~store.ok => store.pc = "update" /\ store.msg.db \in upset'
    BY <1>0, Zenon DEF DataInv, Messages
  <2> QED BY <1>0, <2>4, <2>5, <2>6, <2>7, <2>8, Zenon DEF Messages, MessageFits, Awaited
<1>7. InOrder'
  <2> SUFFICES ASSUME NEW q \in Clients PROVE
               /\ call'[q].pc = "stored" =>
                    \A i, j \in DOMAIN queue' : queue'[i].client = q /\ OrphanOf(queue'[j], call'[q].db) => j < i
               /\ call'[q].pc = "stored" /\ store # NoMsg /\ store.msg.client = q =>
                    \A j \in DOMAIN queue' : ~OrphanOf(queue'[j], call'[q].db)
               /\ call'[q].pc = "copy" \/ (call'[q].pc = "stored" /\ call'[q].reply # "none") =>
                    /\ \A j \in DOMAIN queue' : ~OrphanOf(queue'[j], call'[q].db)
                    /\ store # NoMsg => ~OrphanOf(store.msg, call'[q].db)
    BY <1>0, Zenon DEF InOrder, OrphanOf
  <2>1. ~OrphanOf(m, call'[q].db)
    BY <1>0, <1>2, Zenon DEF OrphanOf
  <2>2. CASE q # c
    <3>1. call'[q] = call[q]
      BY <1>1, <2>2, Zenon
    <3>2. m.client # q
      BY <1>0, <2>2, Zenon
    <3> QED BY <1>4, <2>1, <3>1, <3>2, Zenon DEF DataInv, InOrder
  <2>3. CASE q = c
    <3>1. r.pc # "copy" /\ r.reply = "none"
      BY <1>0
    <3> QED BY <1>1, <1>3, <1>4, <2>1, <2>3, <3>1, Zenon
  <2> QED BY <2>2, <2>3, Zenon
<1>8. OverdueWaits'
  <2> SUFFICES ASSUME NEW e \in Dbs, configs'[e] = "default",
                      \/ \E i \in DOMAIN queue' : OrphanOf(queue'[i], e) /\ queue'[i].flush /\ queue'[i].config # "none"
                      \/ store # NoMsg /\ OrphanOf(store.msg, e) /\ store.msg.flush /\ store.msg.config # "none"
               PROVE  \E q \in Clients : call'[q].db = e /\ call'[q].pc = "stored" /\ call'[q].reply = "none"
    BY <1>0, Zenon DEF OverdueWaits, OrphanOf
  <2>1. \/ \E i \in DOMAIN queue : OrphanOf(queue[i], e) /\ queue[i].flush /\ queue[i].config # "none"
        \/ store # NoMsg /\ OrphanOf(store.msg, e) /\ store.msg.flush /\ store.msg.config # "none"
    BY <1>0, <1>2, <1>4, Zenon DEF OrphanOf
  <2>2. CASE configs[e] = "default"
    <3>1. PICK q \in Clients : call[q].db = e /\ call[q].pc = "stored" /\ call[q].reply = "none"
      BY <2>1, <2>2, Zenon DEF DataInv, OverdueWaits
    <3>2. q # c
      BY <3>1, Zenon DEF SendStep, Waiting
    <3> QED BY <1>1, <3>1, <3>2, Zenon
  <2>3. CASE e = r.db /\ r.pc = "stored"
    BY <1>0, <1>1, <2>3, Zenon
  <2> QED BY <2>2, <2>3, Zenon DEF SendStep
<1> QED BY <1>5, <1>6, <1>7, <1>8, Zenon

\* fork() tells the storing task of the configuration.
LEMMA HandleKeeps == ASSUME DataInv, NEW c \in Clients, CreateHandle(c) PROVE DataInv'
<1>0. PICK d \in Dbs :
        /\ d = call[c].db /\ call[c].pc = "handle" /\ call[c].op = "create" /\ call[c].db # 0
        /\ UNCHANGED <<store, disk, sched, ghosts, trouble>>
  BY Zenon DEF CreateHandle, DataInv, Types, Requests, CallRecord, Creating
<1>1. CASE Goto(c, "drop") /\ UNCHANGED <<configs, entry, queue>>
  <2>1. PICK r \in CallRecord :
          call' = [call EXCEPT ![c] = r] /\ r.op = call[c].op /\ r.db = d /\ r.reply = "none" /\ r.pc = "drop"
    BY <1>0, <1>1, GotoRecord DEF Steps, Creating
  <2>2. MayGo(c, r) /\ ProgressOf(r) /\ Settles(r)
    BY <1>0, <2>1, GoesOn, Zenon DEF ProgressOf, Settles, Creating, Removing
  <2>3. Acknowledged'
    BY <1>0, <1>1, DatabasesUnmoved, Zenon DEF disk, ghosts
  <2>4. AtRest(call[c])
    BY <1>0, Zenon DEF AtRest
  <2>5. UNCHANGED <<memory, disk, sched, raced, erased, upset, trouble, acked>>
    BY <1>0, <1>1, Zenon DEF memory, ghosts
  <2> QED BY <1>0, <2>1, <2>2, <2>3, <2>4, <2>5, OnlyMoves, Zenon DEF Waiting
<1>2. ASSUME NEW v \in Settings, Send(c, d, v, FALSE), Goto(c, "stored"), entry' = [entry EXCEPT ![d] = "empty"],
             configs' = [configs EXCEPT ![d] = IF @ = "absent" THEN "default" ELSE @]
      PROVE  DataInv'
  <2>1. PICK r \in CallRecord :
          call' = [call EXCEPT ![c] = r] /\ r.op = call[c].op /\ r.db = d /\ r.reply = "none" /\ r.pc = "stored"
    BY <1>0, <1>2, GotoRecord DEF Steps, Creating
  <2>2. call'[c] = r /\ \A q \in Clients \ {c} : call'[q] = call[q] /\ call[q].db # d
    BY <1>0, <2>1 DEF DataInv, Types, Requests
  <2>3. PICK m \in Message :
          m.client = c /\ m.db = d /\ m.config # "none" /\ ~m.flush /\ queue' = Append(queue, m)
    BY <1>2, MetaStoreAssumption, Zenon DEF Send, Message
  <2>4. \A e \in Dbs :
          /\ configs'[e] \in Settings <=> configs[e] \in Settings
          /\ configs'[e] = "default" => configs[e] = "default" \/ e = d
          /\ e # d => configs'[e] = configs[e] /\ entry'[e] = entry[e]
    BY <1>2, MetaStoreAssumption, Zenon DEF DataInv, Types
  <2>5. Types'
    <3>1. configs' \in [Dbs -> Config] /\ entry' \in [Dbs -> {"none", "empty", "full"}]
      BY <1>2, Zenon DEF DataInv, Types, Config
    <3>2. queue' \in Seq(Message)
      BY <2>3, Appended, Zenon DEF DataInv, Types
    <3> QED BY <1>0, <2>1, <3>1, <3>2, Zenon DEF DataInv, Types, disk, sched
  <2>6. Requests' /\ Messages' /\ InOrder' /\ OverdueWaits'
    <3>1. /\ r.db # 0 /\ r.op = "create" /\ r.pc \in {"stored", "flushing"} /\ call[c].pc \notin Waiting
          /\ r.pc = IF m.config = "none" THEN "flushing" ELSE IF m.flush THEN "posted" ELSE "stored"
      BY <1>0, <2>1, <2>3, Zenon DEF Waiting
    <3>2. \A e \in Dbs : configs'[e] = "default" => configs[e] = "default" \/ (e = r.db /\ r.pc = "stored")
      BY <2>1, <2>4, Zenon
    <3>3. /\ store' = store /\ trouble \subseteq trouble' /\ upset \subseteq upset' /\ \A e \in raced \ raced' : NoOrphan(e)
          /\ m.db = r.db /\ \A q \in Clients \ {c} : call[q].db # r.db
      BY <1>0, <2>1, <2>2, <2>3, Zenon DEF ghosts
    <3> QED BY <2>1, <2>3, <3>1, <3>2, <3>3, Sends, Zenon DEF SendStep
  <2>7. LinksAgree'
    BY <1>0, <2>4, Zenon DEF DataInv, LinksAgree, Overdue, OrphanOf, disk
  <2>8. Acknowledged'
    BY <1>0, <2>4, Zenon DEF DataInv, Types, Acknowledged, disk, ghosts
  <2>9. Progress' /\ Agreed'
    <3>1. ProgressOf(call[c])' /\ Settles(call[c])' /\ ~AtRest(call'[c])
      BY <1>2, <2>1, <2>2, Zenon DEF ProgressOf, Settles, AtRest, Removing, DataInv, Types
    <3>2. \A e \in Dbs \ {d} : Intended(e)' = Intended(e)
      BY <1>0, <2>4, Zenon DEF Intended
    <3>3. /\ call[c].db \in {0, d} /\ call'[c].db \in {0, d}
          /\ \A q \in Clients \ {c} : call'[q] = call[q] /\ call[q].db # d
          /\ ProgressOf(call[c])' /\ (call[c].db \in upset \/ Settles(call[c]))'
          /\ (call'[c].db = d /\ ~AtRest(call'[c])) \/ d \in upset' \/ Settled(d)'
      BY <1>0, <2>1, <2>2, <3>1, Zenon
    <3>4. \A e \in Dbs \ {d} :
            /\ configs'[e] = configs[e] /\ rows'[e] = rows[e] /\ entry'[e] = entry[e] /\ Intended(e)' = Intended(e)
            /\ (e \in links' <=> e \in links) /\ (e \in files' <=> e \in files)
      BY <1>0, <2>4, <3>2, Zenon DEF disk
    <3>5. acked' \subseteq acked \cup {d} /\ raced \subseteq raced' \cup {d} /\ upset \subseteq upset'
      BY <1>0, Zenon DEF ghosts
    <3> QED BY <3>3, <3>4, <3>5, OnlyItsCall, Zenon
  <2>10. TasksLinked' /\ UpToDate'
    BY <1>0, DatabasesUnmoved, Zenon DEF disk, sched, ghosts
  <2> QED BY <2>5, <2>6, <2>7, <2>8, <2>9, <2>10, Zenon DEF DataInv
<1> QED BY <1>0, <1>1, <1>2, Zenon DEF CreateHandle

\* fork() makes the copy, or fails to.
LEMMA CopyKeeps == ASSUME DataInv, NEW c \in Clients, CreateCopy(c) PROVE DataInv'
<1>0. PICK d \in Dbs :
        /\ d = call[c].db /\ call[c].pc = "copy" /\ call[c].op = "create" /\ call[c].db # 0 /\ configs[d] \in Settings
        /\ d \in upset \/ entry[d] = "empty"
        /\ UNCHANGED <<configs, store, rows, links, sched, acked, upset>>
  <2>1. call[c].pc = "copy" /\ UNCHANGED <<configs, store, rows, links, sched, acked, upset>>
    BY Zenon DEF CreateCopy
  <2>2. call[c].db \in Dbs /\ call[c].op = "create" /\ call[c].db # 0 /\ configs[call[c].db] \in Settings
    BY <2>1, Zenon DEF DataInv, Types, Requests, CallRecord, Creating, Progress, ProgressOf
  <2>3. call[c].db \in upset \/ entry[call[c].db] = "empty"
    BY <2>1, Zenon DEF DataInv, Agreed, Settles
  <2> QED BY <2>1, <2>2, <2>3, Zenon
<1>1. CASE /\ d \notin files
           /\ files' = files \cup {d} /\ content' = [content EXCEPT ![d] = content[Schema]]
           /\ entry' = [entry EXCEPT ![d] = "full"]
           /\ raced' = raced \ ({d} \ links) /\ erased' = erased \ ({d} \ links)
           /\ Send(c, d, "none", TRUE) /\ Goto(c, "flushing")
           /\ UNCHANGED trouble
  <2>1. PICK r \in CallRecord :
          call' = [call EXCEPT ![c] = r] /\ r.op = call[c].op /\ r.db = d /\ r.reply = "none" /\ r.pc = "flushing"
    BY <1>0, <1>1, GotoRecord DEF Steps, Creating
  <2>2. call'[c] = r /\ \A q \in Clients \ {c} : call'[q] = call[q] /\ call[q].db # d
    BY <1>0, <2>1 DEF DataInv, Types, Requests
  <2>3. PICK m \in Message : m.client = c /\ m.db = d /\ m.config = "none" /\ queue' = Append(queue, m)
    BY <1>1, Zenon DEF Send, Message
  <2>4. NoOrphan(d)
    BY <1>0, Zenon DEF DataInv, InOrder, NoOrphan
  <2>5. content'[d] = content[Schema] /\ content'[Schema] = content[Schema] /\ \A e \in Dbs \ {d} : content'[e] = content[e]
    BY <1>1, MetaStoreAssumption, Zenon DEF DataInv, Types, Schema, Dbs
  <2>6. Types'
    <3>1. content' \in [Dbs \cup {Schema} -> SUBSET Nat] /\ entry' \in [Dbs -> {"none", "empty", "full"}]
      BY <1>1, Zenon DEF DataInv, Types
    <3>2. queue' \in Seq(Message)
      BY <2>3, Appended, Zenon DEF DataInv, Types
    <3> QED BY <1>0, <1>1, <2>1, <3>1, <3>2, Zenon DEF DataInv, Types, sched
  <2>7. Requests' /\ Messages' /\ InOrder' /\ OverdueWaits'
    <3>1. SendStep(c, r, m)
      BY <1>0, <1>1, <2>1, <2>2, <2>3, <2>4 DEF SendStep, Waiting, Creating
    <3> QED BY <3>1, Sends, Zenon
  <2>8. LinksAgree'
    BY <1>0, Unmoved, Zenon
  <2>9. Acknowledged'
    BY <1>0, <1>1, DatabasesUnmoved, Zenon
  <2>10. Progress' /\ Agreed'
    <3>1. ProgressOf(call[c])' /\ Settles(call[c])' /\ ~AtRest(call'[c])
      <4>0. configs[d] \in Settings /\ configs' = configs /\ d \in files'
        BY <1>0, <1>1, Zenon
      <4>1. /\ call'[c].pc = "flushing" /\ call'[c].reply = "none"
            /\ configs'[call'[c].db] \in Settings /\ call'[c].db \in files'
        BY <2>1, <2>2, <4>0, Zenon
      <4> QED BY <4>1 DEF ProgressOf, Settles, AtRest, Removing
    <3>2. \A e \in Dbs \ {d} : entry'[e] = entry[e] /\ Intended(e)' = Intended(e) /\ (e \in files' <=> e \in files)
      BY <1>0, <1>1, Zenon DEF Intended, DataInv, Types
    <3>3. /\ call[c].db \in {0, d} /\ call'[c].db \in {0, d}
          /\ \A q \in Clients \ {c} : call'[q] = call[q] /\ call[q].db # d
          /\ ProgressOf(call[c])' /\ (call[c].db \in upset \/ Settles(call[c]))'
          /\ (call'[c].db = d /\ ~AtRest(call'[c])) \/ d \in upset' \/ Settled(d)'
      BY <1>0, <2>1, <2>2, <3>1, Zenon
    <3>4. \A e \in Dbs \ {d} :
            /\ configs'[e] = configs[e] /\ rows'[e] = rows[e] /\ entry'[e] = entry[e] /\ Intended(e)' = Intended(e)
            /\ (e \in links' <=> e \in links) /\ (e \in files' <=> e \in files)
      BY <1>0, <3>2, Zenon
    <3>5. acked' \subseteq acked \cup {d} /\ raced \subseteq raced' \cup {d} /\ upset \subseteq upset'
      BY <1>0, <1>1, Zenon
    <3> QED BY <3>3, <3>4, <3>5, OnlyItsCall, Zenon
  <2>11. TasksLinked'
    BY <1>0, <1>1, <2>5, Zenon DEF DataInv, TasksLinked, sched
  <2>12. UpToDate'
    <3>1. d \in links => d \in raced' \cup erased'
      BY <1>1, Zenon DEF DataInv, TasksLinked
    <3>2. \A e \in Dbs \ {d} :
            (e \in files' => e \in files) /\ (e \in raced \cup erased => e \in raced' \cup erased')
      BY <1>1, Zenon
    <3> QED BY <1>0, <2>5, <2>6, <3>1, <3>2, OnlyItsContent, Zenon DEF Types, sched
  <2> QED BY <2>6, <2>7, <2>8, <2>9, <2>10, <2>11, <2>12, Zenon DEF DataInv
<1>2. CASE /\ trouble \subseteq trouble' /\ Goto(c, "remove_conn")
           /\ files' = files \ {d} /\ erased' = erased \cup ({d} \cap links)
           /\ UNCHANGED <<content, entry, raced, queue>>
  <2>1. PICK r \in CallRecord :
          call' = [call EXCEPT ![c] = r] /\ r.op = call[c].op /\ r.db = d /\ r.reply = "none" /\ r.pc = "remove_conn"
    BY <1>0, <1>2, GotoRecord DEF Steps, Removing
  <2>2. call'[c] = r /\ \A q \in Clients \ {c} : call'[q] = call[q] /\ call[q].db # d
    BY <1>0, <2>1 DEF DataInv, Types, Requests
  <2>3. Types'
    BY <1>0, <1>2, <2>1, Zenon DEF DataInv, Types, sched
  <2>4. Requests' /\ Messages' /\ InOrder' /\ OverdueWaits'
    <3>1. MayGo(c, r)
      BY <1>0, <2>1, GoesOn, Zenon DEF Creating, Removing
    <3> QED BY <1>0, <1>2, <2>1, <3>1, Moves, Zenon DEF Waiting
  <2>5. LinksAgree'
    BY <1>0, Unmoved, Zenon
  <2>6. Acknowledged'
    BY <1>0, <1>2, Zenon DEF DataInv, Acknowledged
  <2>7. Progress' /\ Agreed'
    <3>1. ProgressOf(call[c])' /\ (call[c].db \in upset \/ Settles(call[c]))' /\ ~AtRest(call'[c])
      <4>0. /\ d = call[c].db /\ call[c].op = "create"
            /\ d \in upset' \/ (configs'[d] \in Settings /\ entry'[d] = "empty")
        BY <1>0, <1>2, Zenon
      <4>1. /\ call'[c].pc = "remove_conn" /\ call'[c].op = "create" /\ call'[c].reply = "none"
            /\ call'[c].db \in upset' \/ (configs'[call'[c].db] \in Settings /\ entry'[call'[c].db] = "empty")
        BY <2>1, <2>2, <4>0, Zenon
      <4> QED BY <4>1 DEF ProgressOf, Settles, AtRest, Removing
    <3>2. \A e \in Dbs \ {d} : Intended(e)' = Intended(e) /\ (e \in files' <=> e \in files)
      BY <1>0, <1>2, Zenon DEF Intended
    <3>3. /\ call[c].db \in {0, d} /\ call'[c].db \in {0, d}
          /\ \A q \in Clients \ {c} : call'[q] = call[q] /\ call[q].db # d
          /\ ProgressOf(call[c])' /\ (call[c].db \in upset \/ Settles(call[c]))'
          /\ (call'[c].db = d /\ ~AtRest(call'[c])) \/ d \in upset' \/ Settled(d)'
      BY <1>0, <2>1, <2>2, <3>1, Zenon
    <3>4. \A e \in Dbs \ {d} :
            /\ configs'[e] = configs[e] /\ rows'[e] = rows[e] /\ entry'[e] = entry[e] /\ Intended(e)' = Intended(e)
            /\ (e \in links' <=> e \in links) /\ (e \in files' <=> e \in files)
      BY <1>0, <1>2, <3>2, Zenon
    <3>5. acked' \subseteq acked \cup {d} /\ raced \subseteq raced' \cup {d} /\ upset \subseteq upset'
      BY <1>0, <1>2, Zenon
    <3> QED BY <3>3, <3>4, <3>5, OnlyItsCall, Zenon
  <2>8. TasksLinked'
    BY <1>0, <1>2, Zenon DEF DataInv, TasksLinked, sched
  <2>9. UpToDate'
    <3>1. UNCHANGED <<links, raced, content, job, todo>> /\ files' \subseteq files /\ erased \subseteq erased'
      BY <1>0, <1>2, Zenon DEF sched
    <3> QED BY <3>1, DatabasesUnmoved, Zenon
  <2> QED BY <2>3, <2>4, <2>5, <2>6, <2>7, <2>8, <2>9, Zenon DEF DataInv
<1> QED BY <1>0, <1>1, <1>2, Zenon DEF CreateCopy, Fault

\* handle_post_config() loads the database and sends the change.
LEMMA PostKeeps ==
  ASSUME DataInv, NEW c \in Clients, NEW d \in Dbs, NEW v \in Settings, PostConfig(c, d, v)
  PROVE  DataInv'
<1>0. /\ configs[d] \in Settings /\ Start(c, "post", d, "posted") /\ Send(c, d, v, TRUE)
      /\ entry' = [entry EXCEPT ![d] = "full"] /\ files' = files \cup {d}
      /\ content' = [content EXCEPT ![d] = (IF d \in files THEN @ ELSE {}) \cup {}]
      /\ raced' = IF d \in files THEN raced ELSE raced \cup {d}
      /\ UNCHANGED <<configs, store, rows, links, sched, acked, erased, upset, trouble>>
  BY Zenon DEF PostConfig, Load
<1>1. PICK r \in CallRecord : call' = [call EXCEPT ![c] = r] /\ r.pc = "posted" /\ r.db = d /\ r.reply = "none"
  BY <1>0, StartRecord
<1>2. call[c].pc = "idle" /\ call[c].db = 0 /\ (\A q \in Clients : call[q].db # d) /\ d # 0
  BY <1>0, StartRecord, MetaStoreAssumption DEF Dbs
<1>3. call'[c] = r /\ \A q \in Clients \ {c} : call'[q] = call[q]
  BY <1>1, Zenon DEF DataInv, Types
<1>4. PICK m \in Message : m.client = c /\ m.db = d /\ m.config # "none" /\ m.flush /\ queue' = Append(queue, m)
  BY <1>0, MetaStoreAssumption, Zenon DEF Send, Message
<1>5. /\ content'[d] = IF d \in files THEN content[d] ELSE {}
      /\ content'[Schema] = content[Schema] /\ \A e \in Dbs \ {d} : content'[e] = content[e]
  BY <1>0, MetaStoreAssumption DEF DataInv, Types, Schema, Dbs
<1>6. Types'
  <2>1. content' \in [Dbs \cup {Schema} -> SUBSET Nat]
    BY <1>0, Zenon DEF DataInv, Types
  <2>2. entry' \in [Dbs -> {"none", "empty", "full"}]
    BY <1>0, Zenon DEF DataInv, Types
  <2>3. queue' \in Seq(Message)
    BY <1>4, Appended, Zenon DEF DataInv, Types
  <2> QED BY <1>0, <1>1, <2>1, <2>2, <2>3, Zenon DEF DataInv, Types, sched
<1>7. Requests' /\ Messages' /\ InOrder' /\ OverdueWaits'
  <2>1. SendStep(c, r, m)
    BY <1>0, <1>1, <1>2, <1>4 DEF SendStep, Waiting
  <2> QED BY <2>1, Sends, Zenon
<1>8. LinksAgree' /\ Acknowledged'
  BY <1>0, Unmoved, DatabasesUnmoved, Zenon
<1>9. Progress' /\ Agreed'
  <2>1. ProgressOf(call[c])' /\ ~AtRest(call'[c])
    <3>1. call'[c].pc = "posted" /\ call'[c].reply = "none" /\ configs'[call'[c].db] \in Settings /\ call'[c].db \in files'
      <4>1. configs[d] \in Settings /\ configs' = configs /\ d \in files'
        BY <1>0, Zenon
      <4> QED BY <1>1, <1>3, <4>1, Zenon
    <3> QED BY <3>1 DEF ProgressOf, AtRest, Removing
  <2>2. d \in upset \/ (rows[d] = configs[d] /\ Intended(d) = configs[d])
    <3>1. d \in upset \/ configs[d] = rows[d]
      BY <1>2, Zenon DEF DataInv, Agreed, Settled
    <3>2. store.pc = "update" /\ store.msg.db = d => d \in upset
      <4> SUFFICES ASSUME store.pc = "update", store.msg.db = d PROVE d \in upset
        BY Zenon
      <4>0. store # NoMsg
        BY DEF NoMsg
      <4>1. store.msg \in Message /\ MessageFits(store.msg)
        BY <4>0, Zenon DEF DataInv, Types, Messages, StoreRecord
      <4> QED BY <1>2, <4>1, Zenon DEF MessageFits, Awaited, Message
    <3> QED BY <3>1, <3>2, Zenon DEF Intended
  <2>3. (call[c].db \in upset \/ Settles(call[c]))'
    <3>0. upset' = upset /\ UNCHANGED <<configs, rows, store>>
      BY <1>0, Zenon
    <3>1. call'[c].pc = "posted" /\ call'[c].db = d
      BY <1>1, <1>3, Zenon
    <3>2. call'[c].pc \notin Removing /\ call'[c].pc \notin {"stored", "copy", "flushing", "cleanup"}
      BY <3>1 DEF Removing
    <3>3. Intended(d)' = Intended(d) /\ rows'[d] = rows[d]
      BY <3>0, Zenon DEF Intended
    <3>4. d \notin upset => rows'[d] = Intended(d)'
      BY <2>2, <3>3, Zenon
    <3> QED BY <3>0, <3>1, <3>2, <3>4, Zenon DEF Settles
  <2>4. \A e \in Dbs \ {d} : entry'[e] = entry[e] /\ Intended(e)' = Intended(e) /\ (e \in files' <=> e \in files)
    BY <1>0, Zenon DEF Intended, DataInv, Types
  <2>5. /\ call[c].db \in {0, d} /\ call'[c].db \in {0, d}
        /\ \A q \in Clients \ {c} : call'[q] = call[q] /\ call[q].db # d
        /\ ProgressOf(call[c])' /\ (call[c].db \in upset \/ Settles(call[c]))'
        /\ (call'[c].db = d /\ ~AtRest(call'[c])) \/ d \in upset' \/ Settled(d)'
    BY <1>1, <1>2, <1>3, <2>1, <2>3, Zenon
  <2>6. \A e \in Dbs \ {d} :
          /\ configs'[e] = configs[e] /\ rows'[e] = rows[e] /\ entry'[e] = entry[e] /\ Intended(e)' = Intended(e)
          /\ (e \in links' <=> e \in links) /\ (e \in files' <=> e \in files)
    BY <1>0, <2>4, Zenon
  <2>7. acked' \subseteq acked \cup {d} /\ raced \subseteq raced' \cup {d} /\ upset \subseteq upset'
    BY <1>0, Zenon
  <2> QED BY <2>5, <2>6, <2>7, OnlyItsCall, Zenon
<1>10. TasksLinked'
  BY <1>0, <1>5, Zenon DEF DataInv, TasksLinked, sched
<1>11. UpToDate'
  <2>1. d \notin files => d \in raced'
    BY <1>0, Zenon
  <2>2. d \in links \ (raced' \cup erased) =>
          content'[d] = IF d \in todo THEN content[Schema] ELSE content[Schema] \cup Done
    BY <1>0, <1>5, <2>1, Zenon DEF DataInv, UpToDate
  <2>3. d \in files' \ (links \cup raced' \cup erased) => content'[d] = content[Schema]
    BY <1>0, <1>5, <2>1, Zenon DEF DataInv, UpToDate
  <2>4. \A e \in Dbs \ {d} : (e \in files' => e \in files) /\ (e \in raced \cup erased => e \in raced' \cup erased)
    BY <1>0, Zenon
  <2> QED BY <1>0, <1>5, <1>6, <2>2, <2>3, <2>4, OnlyItsContent, Zenon DEF Types, sched
<1> QED BY <1>6, <1>7, <1>8, <1>9, <1>10, <1>11, Zenon DEF DataInv

-----------------------------------------------------------------------------
(* Evictions, restarts and migrations.                                     *)

\* The cache drops the entry of a database that no request is about.
LEMMA EvictKeeps == ASSUME DataInv, NEW d \in Dbs, Evict(d) PROVE DataInv'
<1>0. /\ entry' = [entry EXCEPT ![d] = "none"] /\ (\A c \in Clients : call[c].db # d) /\ trouble \subseteq trouble'
      /\ UNCHANGED <<configs, queue, store, disk, call, sched, ghosts>>
  BY Zenon DEF Evict, Fault
<1>1. Types'
  BY <1>0, Zenon DEF DataInv, Types, disk, sched
<1>2. Requests' /\ Messages' /\ InOrder' /\ LinksAgree' /\ OverdueWaits'
  BY <1>0, Unmoved, Zenon DEF disk, ghosts
<1>3. Acknowledged' /\ TasksLinked' /\ UpToDate'
  BY <1>0, DatabasesUnmoved, Zenon DEF disk, sched, ghosts
<1>4. Progress' /\ Agreed'
  <2>1. \A e \in Dbs \ {d} : entry'[e] = entry[e] /\ Intended(e)' = Intended(e)
    BY <1>0, Zenon DEF Intended, DataInv, Types
  <2>2. d \in upset \/ Settled(d)
    BY <1>0, Zenon DEF DataInv, Agreed
  <2>3. d \in upset' \/ Settled(d)'
    BY <1>0, <2>2, Zenon DEF Settled, DataInv, Types, disk, ghosts
  <2> QED BY <1>0, <2>1, <2>3, OnlyItsDatabase, Zenon DEF disk, ghosts
<1> QED BY <1>1, <1>2, <1>3, <1>4, Zenon DEF DataInv

\* restore() reads what is on disk.
LEMMA RestartKeeps == ASSUME DataInv, Restart PROVE DataInv'
<1>0. /\ configs' = rows /\ entry' = [d \in Dbs |-> "none"] /\ queue' = <<>> /\ store' = NoMsg
      /\ call' = [c \in Clients |-> Idle] /\ upset' = {}
      /\ UNCHANGED <<disk, registered, job, todo, migrated, acked, raced, erased>>
  BY Zenon DEF Restart
<1>1. \A c \in Clients : call'[c] = Idle
  BY <1>0, Zenon
<1>2. DOMAIN queue' = {} /\ store'.pc = "idle"
  BY <1>0 DEF NoMsg
<1>3. Types'
  BY <1>0, IdleFits DEF DataInv, Types, disk
<1>4. Requests'
  BY <1>1 DEF Requests, Idle, Creating, Removing
<1>5. Messages' /\ InOrder' /\ OverdueWaits'
  BY <1>0, <1>1, <1>2, Zenon DEF Messages, InOrder, OverdueWaits, Idle
<1>6. LinksAgree'
  BY <1>0, Zenon DEF DataInv, LinksAgree, disk
<1>7. Progress'
  BY <1>1 DEF Progress, ProgressOf, Idle
<1>8. Acknowledged'
  BY <1>0, Zenon DEF DataInv, Types, Acknowledged, LinksAgree, disk
<1>9. Agreed'
  <2>1. \A d \in Dbs : Settled(d)'
    BY <1>0, Zenon DEF Settled, disk
  <2>2. \A c \in Clients : Settles(call[c])'
    BY <1>1 DEF Settles, Idle, Removing
  <2> QED BY <2>1, <2>2, Zenon DEF Agreed
<1>10. TasksLinked' /\ UpToDate'
  BY <1>0, DatabasesUnmoved, Zenon DEF disk
<1> QED BY <1>3, <1>4, <1>5, <1>6, <1>7, <1>8, <1>9, <1>10, Zenon DEF DataInv

\* A step of register_migration_job() that leaves the tables alone.
LEMMA RegisterKeeps ==
  ASSUME DataInv, RegisterJob \/ RegisterLocked \/ RegisterDrop \/ RegisterUnlock
  PROVE  DataInv'
<1>0. UNCHANGED <<memory, disk, call, registered, job, todo, migrated, ghosts>> /\ trouble \subseteq trouble'
  BY Zenon DEF RegisterJob, RegisterLocked, RegisterDrop, RegisterUnlock, Fault
<1>1. Types'
  BY <1>0, Zenon DEF DataInv, Types, memory, disk
<1>2. Requests' /\ Messages' /\ InOrder' /\ LinksAgree' /\ OverdueWaits'
  BY <1>0, Unmoved, Zenon DEF memory, disk, ghosts
<1>3. Progress' /\ Acknowledged' /\ Agreed' /\ TasksLinked' /\ UpToDate'
  BY <1>0, DatabasesUnmoved, Zenon DEF memory, disk, ghosts
<1> QED BY <1>1, <1>2, <1>3, Zenon DEF DataInv

\* A job begins and ends with databases that have what their schema has.
LEMMA JobKeeps == ASSUME DataInv, InsertJob \/ FinishJob \/ AbortJob PROVE DataInv'
<1>0. UNCHANGED <<memory, disk, call, ghosts, trouble>>
  BY Zenon DEF InsertJob, FinishJob, AbortJob
<1>1. registered' \in Nat /\ job' \in Nat /\ todo' \subseteq Dbs /\ migrated' \in BOOLEAN
  <2>1. registered' \in Nat /\ job' \in Nat
    BY DEF InsertJob, FinishJob, AbortJob, DataInv, Types
  <2>2. todo' \subseteq Dbs
    BY Zenon DEF InsertJob, FinishJob, AbortJob, DataInv, Types
  <2>3. migrated' \in BOOLEAN
    BY Zenon DEF InsertJob, FinishJob, AbortJob, DataInv, Types
  <2> QED BY <2>1, <2>2, <2>3, Zenon
<1>2. Types'
  BY <1>0, <1>1, Zenon DEF DataInv, Types, memory, disk
<1>3. Requests' /\ Messages' /\ InOrder' /\ LinksAgree' /\ OverdueWaits'
  BY <1>0, Unmoved, Zenon DEF memory, disk, ghosts
<1>4. Progress' /\ Acknowledged' /\ Agreed'
  BY <1>0, DatabasesUnmoved, Zenon DEF memory, disk, ghosts
<1>5. TasksLinked'
  BY <1>0 DEF InsertJob, FinishJob, AbortJob, DataInv, TasksLinked, Types, disk, ghosts
<1>6. ASSUME UNCHANGED <<job, todo>> PROVE UpToDate'
  BY <1>0, <1>6, DatabasesUnmoved, Zenon DEF disk, ghosts
<1>7. ASSUME ~UNCHANGED <<job, todo>> PROVE UpToDate'
  <2>1. \A d \in links \ (raced \cup erased) : content[d] = content[Schema]
    <3>1. CASE InsertJob
      BY <1>7, <3>1, Zenon DEF InsertJob, DataInv, UpToDate, Done
    <3>2. CASE FinishJob
      <4>1. todo = {} /\ job # 0 /\ job \in content[Schema]
        BY <3>2, Zenon DEF FinishJob, DataInv, TasksLinked
      <4>2. content[Schema] \cup Done = content[Schema]
        BY <4>1, Zenon DEF Done
      <4> QED BY <4>1, <4>2, Zenon DEF DataInv, UpToDate
    <3>3. CASE AbortJob
      BY <3>3, Zenon DEF AbortJob, DataInv, UpToDate
    <3> QED BY <3>1, <3>2, <3>3, Zenon
  <2>2. \A d \in links : d \in todo' \/ Done' = {}
    BY <1>7, Zenon DEF InsertJob, FinishJob, AbortJob, Done
  <2> QED BY <1>0, <2>1, <2>2, Zenon DEF DataInv, UpToDate, disk, ghosts
<1> QED BY <1>2, <1>3, <1>4, <1>5, <1>6, <1>7, Zenon DEF DataInv

\* A task of a job loads and migrates a database that is there.
LEMMA TaskKeeps == ASSUME DataInv, NEW d \in Dbs, RunTask(d) PROVE DataInv'
<1>0. /\ job # 0 /\ d \in todo /\ todo' = todo \ {d}
      /\ entry[d] # "empty" /\ entry' = [entry EXCEPT ![d] = "full"] /\ files' = files \cup {d}
      /\ content' = [content EXCEPT ![d] = (IF d \in files THEN @ ELSE {}) \cup {job}]
      /\ UNCHANGED <<configs, queue, store, rows, links, call, registered, job, migrated, ghosts, trouble>>
  BY Zenon DEF RunTask, Load
<1>1. d \in links
  BY <1>0, Zenon DEF DataInv, TasksLinked
<1>2. /\ content'[d] = (IF d \in files THEN content[d] ELSE {}) \cup {job}
      /\ content'[Schema] = content[Schema] /\ \A e \in Dbs \ {d} : content'[e] = content[e]
  BY <1>0, MetaStoreAssumption DEF DataInv, Types, Schema, Dbs
<1>3. Types'
  <2>1. content' \in [Dbs \cup {Schema} -> SUBSET Nat]
    BY <1>0, Zenon DEF DataInv, Types
  <2>2. entry' \in [Dbs -> {"none", "empty", "full"}]
    BY <1>0, Zenon DEF DataInv, Types
  <2> QED BY <1>0, <2>1, <2>2, Zenon DEF DataInv, Types
<1>4. Requests' /\ Messages' /\ InOrder' /\ LinksAgree' /\ OverdueWaits'
  BY <1>0, Unmoved, Zenon DEF ghosts
<1>5. Acknowledged'
  BY <1>0, DatabasesUnmoved, Zenon DEF ghosts
<1>6. Progress'
  BY <1>0, DatabasesUnmoved, Zenon DEF ghosts
<1>7. Agreed'
  <2>1. d \in upset \/ configs[d] # "absent"
    <3>1. Overdue(d) => d \in upset
      <4> SUFFICES ASSUME Overdue(d) PROVE d \in upset
        BY Zenon
      <4>1. store # NoMsg
        BY DEF Overdue, NoMsg
      <4> QED BY <4>1, Zenon DEF Overdue, OrphanOf, DataInv, Messages, MessageFits
    <3> QED BY <1>1, <3>1, MetaStoreAssumption, Zenon DEF DataInv, LinksAgree
  <2>2. \A c \in Clients : call[c].db = d => d \in upset \/ Settles(call[c])'
    <3>1. \A c \in Clients : call[c].db = d => d \in upset \/ Settles(call[c])
      BY Zenon DEF DataInv, Agreed
    <3>2. call' = call /\ configs' = configs /\ rows' = rows /\ entry[d] # "empty" /\ Intended(d)' = Intended(d)
      BY <1>0, Zenon DEF Intended
    <3> SUFFICES ASSUME NEW c \in Clients, call[c].db = d, d \notin upset PROVE Settles(call[c])'
      BY Zenon
    <3>3. /\ call[c].pc \in Removing /\ call[c].op = "create" => entry[d] = "empty"
          /\ call[c].pc \in {"stored", "copy"} => entry[d] = "empty"
          /\ call[c].pc = "flushing" /\ call[c].reply # "none" => configs[d] = rows[d]
          /\ call[c].pc = "cleanup" => configs[d] = "absent" /\ rows[d] = "absent"
          /\ call[c].pc = "posted" => rows[d] = Intended(d)
      BY <3>1, Zenon DEF Settles
    <3>4. /\ ~(call'[c].pc \in Removing /\ call'[c].op = "create") /\ call'[c].pc \notin {"stored", "copy"}
          /\ call'[c].pc = "flushing" /\ call'[c].reply # "none" => configs'[d] = rows'[d]
          /\ call'[c].pc = "cleanup" => configs'[d] = "absent" /\ rows'[d] = "absent"
          /\ call'[c].pc = "posted" => rows'[d] = Intended(d)'
      BY <3>2, <3>3, Zenon
    <3>5. call'[c].db = d
      BY <3>2, Zenon
    <3> QED BY <3>4, <3>5, Zenon DEF Settles
  <2>3. \A c \in Clients : call[c].db = d => ProgressOf(call[c])'
    BY <1>6, <1>0, Zenon DEF Progress
  <2>4. Settled(d) /\ d \notin upset => Settled(d)'
    BY <1>0, <2>1, Zenon DEF Settled
  <2>5. (\A q \in Clients : call'[q].db = d => AtRest(call'[q])) => d \in upset' \/ Settled(d)'
    BY <1>0, <2>4, Zenon DEF DataInv, Agreed, ghosts
  <2>6. \A e \in Dbs \ {d} : entry'[e] = entry[e] /\ Intended(e)' = Intended(e) /\ (e \in files' <=> e \in files)
    BY <1>0, Zenon DEF Intended, DataInv, Types
  <2>7. \A q \in Clients :
          \/ call'[q] = call[q] /\ call[q].db # d
          \/ /\ call[q].db \in {0, d} /\ call'[q].db \in {0, d} /\ ProgressOf(call[q])'
             /\ (call[q].db \in upset \/ Settles(call[q]))'
    <3>1. call' = call /\ upset' = upset
      BY <1>0, Zenon DEF ghosts
    <3> QED BY <2>2, <2>3, <3>1, Zenon
  <2>8. UNCHANGED <<configs, rows, links, acked, raced, upset>>
    BY <1>0, Zenon DEF ghosts
  <2> QED BY <2>5, <2>6, <2>7, <2>8, OnlyItsDatabase, Zenon
<1>8. TasksLinked'
  BY <1>0, <1>2, Zenon DEF DataInv, TasksLinked, ghosts
<1>9. UpToDate'
  <2>1. d \in links \ (raced \cup erased) => content'[d] = content[Schema] \cup Done
    BY <1>0, <1>2, Zenon DEF DataInv, UpToDate, TasksLinked, Done
  <2>2. \A e \in Dbs \ {d} : (e \in files' => e \in files) /\ (e \in todo' <=> e \in todo)
    BY <1>0, Zenon
  <2> QED BY <1>0, <1>1, <1>2, <1>3, <2>1, <2>2, OnlyItsContent, Zenon DEF Types, ghosts
<1> QED BY <1>3, <1>4, <1>5, <1>6, <1>7, <1>8, <1>9, Zenon DEF DataInv

\* The schema is migrated last; what was copied from it before is not.
LEMMA SchemaKeeps == ASSUME DataInv, MigrateSchema PROVE DataInv'
<1>0. /\ job # 0 /\ todo = {} /\ migrated' = TRUE /\ raced' = raced \cup (files \ links)
      /\ content' = [content EXCEPT ![Schema] = @ \cup {job}]
      /\ UNCHANGED <<memory, rows, links, files, call, registered, job, todo, acked, erased, upset, trouble>>
  BY Zenon DEF MigrateSchema
<1>1. content'[Schema] = content[Schema] \cup {job} /\ \A d \in Dbs : content'[d] = content[d]
  BY <1>0, MetaStoreAssumption DEF DataInv, Types, Schema, Dbs
<1>2. Types'
  <2>1. content' \in [Dbs \cup {Schema} -> SUBSET Nat]
    BY <1>0, Zenon DEF DataInv, Types
  <2> QED BY <1>0, <2>1, Zenon DEF DataInv, Types, memory
<1>3. Requests' /\ Messages' /\ InOrder' /\ LinksAgree' /\ OverdueWaits'
  BY <1>0, Unmoved, Zenon DEF memory
<1>4. Progress' /\ Acknowledged' /\ Agreed'
  BY <1>0, DatabasesUnmoved, Zenon DEF memory
<1>5. TasksLinked'
  BY <1>0, <1>1, Zenon DEF DataInv, TasksLinked
<1>6. UpToDate'
  <2>1. \A d \in links \ (raced' \cup erased) : content'[d] = content'[Schema] \cup Done
    BY <1>0, <1>1 DEF DataInv, Types, UpToDate, Done
  <2> QED BY <1>0, <2>1, Zenon DEF UpToDate, Done
<1> QED BY <1>2, <1>3, <1>4, <1>5, <1>6, Zenon DEF DataInv

=============================================================================
