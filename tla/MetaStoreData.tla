--------------------------- MODULE MetaStoreData ---------------------------
(***************************************************************************)
(* The invariant of MetaStoreInvariant is kept by a request that is given  *)
(* up and by the task that stores changes, so it holds in every reachable  *)
(* state of MetaStore; and what it shows.                                  *)
(***************************************************************************)
EXTENDS MetaStoreInvariant

-----------------------------------------------------------------------------
(* A request is given up.                                                  *)

\* A message of a request that is gone keeps what it is about.
LEMMA OrphanIs ==
  ASSUME NEW c, NEW m \in Message
  PROVE  /\ Orphan(c, m) \in Message /\ Orphan(c, m).db = m.db /\ Orphan(c, m).config = m.config
         /\ Orphan(c, m).flush = m.flush /\ Orphan(c, m).client = IF m.client = c THEN Nobody ELSE m.client
BY Zenon DEF Orphan, Message

\* What Cancel() does to the channel and to the storing task.
LEMMA Orphaned ==
  ASSUME DataInv, NEW c \in Clients,
         queue' = [i \in DOMAIN queue |-> Orphan(c, queue[i])],
         store' = IF store = NoMsg THEN NoMsg ELSE [store EXCEPT !.msg = Orphan(c, @)]
  PROVE  /\ queue' \in Seq(Message) /\ DOMAIN queue' = DOMAIN queue
         /\ \A i \in DOMAIN queue : queue[i] \in Message /\ queue'[i] = Orphan(c, queue[i])
         /\ store = NoMsg => store' = NoMsg
         /\ store # NoMsg => /\ store \in StoreRecord /\ store' \in StoreRecord /\ store' # NoMsg
                             /\ store'.msg = Orphan(c, store.msg) /\ store'.pc = store.pc /\ store'.ok = store.ok
<1>1. queue \in Seq(Message) /\ store \in {NoMsg} \cup StoreRecord
  BY Zenon DEF DataInv, Types
<1>2. \A i \in DOMAIN queue : queue[i] \in Message /\ queue'[i] = Orphan(c, queue[i])
  BY <1>1
<1>3. queue' \in Seq(Message) /\ DOMAIN queue' = DOMAIN queue
  <2>1. queue' \in [1..Len(queue) -> Message]
    BY <1>1, <1>2, OrphanIs
  <2> QED BY <1>1, <2>1
<1>4. ASSUME store # NoMsg
      PROVE  /\ store \in StoreRecord /\ store' \in StoreRecord /\ store' # NoMsg
             /\ store'.msg = Orphan(c, store.msg) /\ store'.pc = store.pc /\ store'.ok = store.ok
  <2>1. store \in StoreRecord /\ store.msg \in Message
    BY <1>1, <1>4, Zenon DEF StoreRecord
  <2>2. Orphan(c, store.msg) \in Message
    BY <2>1, OrphanIs, Zenon
  <2>3. store' = [store EXCEPT !.msg = Orphan(c, store.msg)]
    BY <1>4, <2>1, Zenon DEF StoreRecord
  <2> HIDE DEF Orphan
  <2>4. /\ store' \in StoreRecord /\ store'.msg = Orphan(c, store.msg) /\ store'.pc = store.pc /\ store'.ok = store.ok
    BY <2>1, <2>2, <2>3, Zenon DEF StoreRecord
  <2>5. store'.pc # "idle"
    BY <2>4, Zenon DEF StoreRecord
  <2> QED BY <2>1, <2>4, <2>5, Zenon DEF NoMsg
<1> QED BY <1>2, <1>3, <1>4, Zenon

\* The client of a request goes away.
LEMMA CancelKeeps == ASSUME DataInv, NEW c \in Clients, Cancel(c) PROVE DataInv'
<1>0. PICK d \in Dbs, r \in CallRecord :
        /\ d = call[c].db /\ call' = [call EXCEPT ![c] = r] /\ MayGo(c, r) /\ r.reply = "none"
        /\ \/ r = Idle /\ call[c].pc \in {"lock", "posted", "cleanup"} /\ UNCHANGED <<files, content>>
           \/ /\ r.pc = "remove_conn" /\ r.db = d /\ r.op = "create" /\ call[c].pc \in {"stored", "flushing"}
              /\ UNCHANGED <<files, content>>
           \/ /\ r.pc = "remove_conn" /\ r.db = d /\ r.op = "create" /\ call[c].pc = "copy"
              /\ files' = files \cup {d}
              /\ content' = IF d \in files THEN content ELSE [content EXCEPT ![d] = content[Schema]]
  <2>1. call[c].pc \in {"lock", "posted", "cleanup", "stored", "flushing", "copy"}
    BY Zenon DEF Cancel
  <2>2. call[c].db \in Dbs
    BY <2>1, Zenon DEF DataInv, Types, Requests, CallRecord
  <2>3. CASE call[c].pc \in {"lock", "posted", "cleanup"}
    <3>1. call' = [call EXCEPT ![c] = Idle] /\ UNCHANGED <<files, content>>
      BY <2>3, Zenon DEF Cancel
    <3>2. Idle.reply = "none"
      BY Zenon DEF Idle
    <3> QED BY <2>2, <2>3, <3>1, <3>2, IdleFits, Zenon
  <2>4. CASE call[c].pc \in {"stored", "flushing", "copy"}
    <3>1. /\ Goto(c, "remove_conn")
          /\ \/ call[c].pc # "copy" /\ UNCHANGED <<files, content>>
             \/ /\ call[c].pc = "copy" /\ files' = files \cup {call[c].db}
                /\ content' = IF call[c].db \in files THEN content ELSE [content EXCEPT ![call[c].db] = content[Schema]]
      BY <2>4, Zenon DEF Cancel
    <3>2. PICK r \in CallRecord :
            /\ call' = [call EXCEPT ![c] = r] /\ r.op = call[c].op /\ r.db = call[c].db /\ r.reply = "none"
            /\ r.pc = "remove_conn"
      BY <3>1, GotoRecord DEF Steps, Removing
    <3>3. r.op = "create" /\ MayGo(c, r)
      BY <2>4, <3>2, GoesOn, Zenon DEF DataInv, Requests, Creating, Removing
    <3> QED BY <2>2, <2>4, <3>1, <3>2, <3>3, Zenon
  <2> QED BY <2>1, <2>3, <2>4, Zenon
<1>1. /\ "cancel" \notin trouble /\ "cancel" \in trouble' /\ trouble \subseteq trouble'
      /\ upset' = IF call[c].pc = "lock" THEN upset ELSE upset \cup {d}
      /\ raced' = IF call[c].pc \in Waiting THEN raced \cup {d} ELSE raced
      /\ UNCHANGED <<configs, entry, rows, links, sched, acked, erased>>
      /\ queue' = [i \in DOMAIN queue |-> Orphan(c, queue[i])]
      /\ store' = IF store = NoMsg THEN NoMsg ELSE [store EXCEPT !.msg = Orphan(c, @)]
  BY <1>0, Zenon DEF Cancel, Fault
<1>2. call'[c] = r /\ (\A q \in Clients \ {c} : call'[q] = call[q] /\ call[q].db # d) /\ d # 0 /\ c # Nobody
  BY <1>0, MetaStoreAssumption DEF DataInv, Types, Requests, Dbs, Clients, Nobody
<1>3. /\ queue' \in Seq(Message) /\ DOMAIN queue' = DOMAIN queue
      /\ \A i \in DOMAIN queue : queue[i] \in Message /\ queue'[i] = Orphan(c, queue[i])
      /\ store = NoMsg => store' = NoMsg
      /\ store # NoMsg => /\ store \in StoreRecord /\ store' \in StoreRecord /\ store' # NoMsg
                          /\ store'.msg = Orphan(c, store.msg) /\ store'.pc = store.pc /\ store'.ok = store.ok
  BY <1>1, Orphaned, Zenon
<1>4. ASSUME NEW m \in Message, MessageFits(m)
      PROVE  /\ m.client \in Clients /\ MessageFits(Orphan(c, m))' /\ (OrphanOf(Orphan(c, m), d) <=> m.client = c)
             /\ \A e \in Dbs \ {d} : ~OrphanOf(Orphan(c, m), e)
             /\ m.client = c /\ m.flush /\ m.config # "none" => configs[d] \in Settings
  <2>1. m.client \in Clients /\ m.client # Nobody /\ Awaited(m)
    BY <1>1, <1>4, MetaStoreAssumption, Zenon DEF MessageFits, Message, Clients, Nobody
  <2>2. CASE m.client = c
    <3>1. call[c].pc \in Waiting /\ m.db = d
      BY <1>0, <2>1, <2>2, Zenon DEF Awaited, Waiting
    <3>2. d \in raced' /\ d \in upset'
      BY <1>1, <3>1, Zenon DEF Waiting
    <3>3. m.flush /\ m.config # "none" => configs[d] \in Settings
      BY <1>0, <2>1, <2>2, Zenon DEF Awaited, DataInv, Progress, ProgressOf
    <3> QED BY <1>1, <2>2, <2>1, <3>1, <3>2, <3>3, OrphanIs, Zenon DEF MessageFits, OrphanOf
  <2>3. CASE m.client # c
    <3>1. Orphan(c, m).client = m.client /\ Orphan(c, m).db = m.db /\ Orphan(c, m).config = m.config
          /\ Orphan(c, m).flush = m.flush
      BY <2>3, OrphanIs
    <3>2. MessageFits(Orphan(c, m))'
      BY <1>2, <2>1, <2>3, <3>1, Zenon DEF MessageFits, Awaited
    <3> QED BY <2>1, <2>3, <3>1, <3>2, Zenon DEF OrphanOf
  <2> QED BY <2>2, <2>3, Zenon
<1>5. /\ \A i \in DOMAIN queue : queue[i] \in Message /\ MessageFits(queue[i])
      /\ store # NoMsg => store.msg \in Message /\ MessageFits(store.msg)
  BY <1>3, Zenon DEF DataInv, Messages, StoreRecord
<1>6. Types'
  <2>1. content' \in [Dbs \cup {Schema} -> SUBSET Nat] /\ files' \subseteq Dbs
    BY <1>0, Zenon DEF DataInv, Types
  <2> QED BY <1>0, <1>1, <1>3, <2>1, Zenon DEF DataInv, Types, sched
<1>7. Requests'
  BY <1>0, <1>2 DEF DataInv, Requests, MayGo
<1>8. Messages'
  <2>1. (\A i \in DOMAIN queue : MessageFits(queue[i]))'
    BY <1>3, <1>4, <1>5 DEF MessageFits, Awaited
  <2>2. \A i \in DOMAIN queue : queue'[i].client = IF queue[i].client = c THEN Nobody ELSE queue[i].client
    BY <1>3, OrphanIs
  <2>3. (\A i, j \in DOMAIN queue : i # j => queue[i].client = Nobody \/ queue[i].client # queue[j].client)'
    BY <1>3, <2>2, Zenon DEF DataInv, Messages
  <2>4. ASSUME store' # NoMsg
        PROVE  /\ MessageFits(store.msg)'
               /\ \A i \in DOMAIN queue : queue'[i].client = Nobody \/ queue'[i].client # store'.msg.client
    <3>1. /\ store # NoMsg /\ store'.msg.client = IF store.msg.client = c THEN Nobody ELSE store.msg.client
      BY <1>3, <1>5, <2>4, OrphanIs
    <3>2. MessageFits(store.msg)'
      BY <1>3, <1>4, <1>5, <3>1 DEF MessageFits, Awaited
    <3> QED BY <2>2, <3>1, <3>2, Zenon DEF DataInv, Messages
  <2>5. ASSUME store' # NoMsg
        PROVE  /\ store'.pc \in {"flush", "flush_conn"} <=> store'.msg.config = "none"
               /\ store'.pc = "write" => store'.msg.flush
               /\ ~store'.ok => store'.pc = "update" /\ store'.msg.db \in upset'
    BY <1>1, <1>3, <1>5, <2>5, OrphanIs DEF DataInv, Messages
  <2> QED BY <1>3, <2>1, <2>3, <2>4, <2>5, Zenon DEF Messages
<1>9. /\ \A e \in Dbs \ {d} : NoOrphan(e)'
      /\ configs[d] \notin Settings =>
           /\ ~\E i \in DOMAIN queue' : OrphanOf(queue'[i], d) /\ queue'[i].flush /\ queue'[i].config # "none"
           /\ ~(store' # NoMsg /\ OrphanOf(store'.msg, d) /\ store'.msg.flush /\ store'.msg.config # "none")
  BY <1>3, <1>4, <1>5, OrphanIs DEF NoOrphan, OrphanOf
<1>10. InOrder'
  <2>1. \A q \in Clients : call'[q].pc \in {"stored", "copy"} => q # c /\ call'[q].db \in Dbs \ {d}
    BY <1>0, <1>2, IdleFits DEF DataInv, Types, CallRecord, Requests
  <2>2. \A q \in Clients : call'[q].pc \in {"stored", "copy"} => NoOrphan(call[q].db)'
    BY <1>9, <2>1, Zenon
  <2> QED BY <2>2, Zenon DEF InOrder, NoOrphan
<1>11. OverdueWaits'
  BY <1>1, <1>9, MetaStoreAssumption DEF OverdueWaits, NoOrphan
<1>12. LinksAgree'
  <2>1. \A e \in Dbs : ~Overdue(e)
    <3> SUFFICES ASSUME NEW e \in Dbs, Overdue(e) PROVE FALSE
      BY Zenon
    <3>1. store # NoMsg
      BY DEF Overdue, NoMsg
    <3> QED BY <1>4, <1>5, <3>1, MetaStoreAssumption DEF Overdue, OrphanOf, Clients, Nobody
  <2> QED BY <1>1, <2>1, Zenon DEF DataInv, LinksAgree
<1>13. Acknowledged'
  BY <1>0, <1>1, Zenon DEF DataInv, Acknowledged
<1>14. Progress' /\ Agreed'
  <2>1. ProgressOf(call[c])'
    <3>1. r.pc \in {"idle", "remove_conn"}
      BY <1>0, IdleFits, Zenon
    <3> QED BY <1>0, <1>2, <3>1, Zenon DEF ProgressOf
  <2>2. (call[c].db \in upset \/ Settles(call[c]))' /\ call'[c].db \in {0, d}
    <3>1. CASE r = Idle
      BY <1>2, <3>1 DEF Settles, Idle, Removing
    <3>2. CASE r # Idle
      BY <1>0, <1>1, <1>2, <3>2
    <3> QED BY <3>1, <3>2, Zenon
  <2>3. d \in upset' \/ Settled(d)'
    <3>1. CASE call[c].pc = "lock"
      <4>1. d \in upset \/ Settled(d)
        BY <1>0, <1>2, <3>1, Zenon DEF DataInv, Agreed, AtRest
      <4> QED BY <1>1, <4>1, Zenon DEF Settled
    <3> QED BY <1>1, <3>1, Zenon
  <2>4. \A e \in Dbs \ {d} : Intended(e)' = Intended(e)
    <3>1. store'.pc = store.pc /\ (store.pc = "update" => store'.msg.db = store.msg.db /\ store'.msg.config = store.msg.config)
      BY <1>3, <1>5, OrphanIs DEF NoMsg
    <3> QED BY <1>1, <3>1, Zenon DEF Intended
  <2>5. /\ \A e \in Dbs \ {d} : (e \in files' <=> e \in files)
        /\ raced \subseteq raced' /\ upset \subseteq upset'
    BY <1>0, <1>1, Zenon
  <2> QED BY <1>0, <1>1, <1>2, <2>1, <2>2, <2>3, <2>4, <2>5, OnlyItsDatabase
<1>15. content'[Schema] = content[Schema] /\ \A e \in Dbs \ {d} : content'[e] = content[e]
  BY <1>0, MetaStoreAssumption, Zenon DEF DataInv, Types, Schema, Dbs
<1>16. TasksLinked'
  BY <1>0, <1>1, <1>15, Zenon DEF DataInv, TasksLinked, sched
<1>17. UpToDate'
  <2>1. UNCHANGED <<files, content>> => UpToDate'
    BY <1>1, DatabasesUnmoved, Zenon DEF sched
  <2>2. ASSUME files' = files \cup {d}, content' = IF d \in files THEN content ELSE [content EXCEPT ![d] = content[Schema]]
        PROVE  UpToDate'
    <3>1. d \in files => UpToDate'
      BY <1>1, <2>2, DatabasesUnmoved, Zenon DEF sched
    <3>2. ASSUME d \notin files PROVE UpToDate'
      <4>1. d \in links => d \in raced' \cup erased'
        BY <1>1, <3>2, Zenon DEF DataInv, TasksLinked
      <4>2. content'[d] = content[Schema]
        BY <2>2, <3>2, Zenon DEF DataInv, Types
      <4>3. \A e \in Dbs \ {d} :
              (e \in files' => e \in files) /\ (e \in raced \cup erased => e \in raced' \cup erased')
        BY <1>1, <2>2, Zenon
      <4> QED BY <1>1, <1>6, <1>15, <4>1, <4>2, <4>3, OnlyItsContent, Zenon DEF Types, sched
    <3> QED BY <3>1, <3>2, Zenon
  <2> QED BY <1>0, <2>1, <2>2, Zenon
<1> QED BY <1>6, <1>7, <1>8, <1>10, <1>11, <1>12, <1>13, <1>14, <1>16, <1>17, Zenon DEF DataInv

-----------------------------------------------------------------------------
(* The storing task.                                                       *)

\* What is known of the message that the storing task has.
LEMMA InHand ==
  ASSUME DataInv, store.pc # "idle"
  PROVE  /\ store # NoMsg /\ store \in StoreRecord /\ store.msg \in Message /\ store.msg.db \in Dbs
         /\ store.pc \in {"flush", "flush_conn"} <=> store.msg.config = "none"
         /\ store.pc = "write" => store.msg.flush
         /\ ~store.ok => store.msg.db \in upset
         /\ \/ store.msg.client = Nobody /\ store.msg.db \in raced /\ store.msg.db \in upset
            \/ store.msg.client \in Clients /\ store.msg.client # Nobody /\ Awaited(store.msg)
<1>1. store # NoMsg /\ store \in StoreRecord
  BY DEF DataInv, Types, NoMsg
<1>2. store.msg \in Message /\ store.msg.db \in Dbs /\ (store.msg.client # Nobody => store.msg.client \in Clients)
  BY <1>1, Zenon DEF StoreRecord, Message
<1> QED BY <1>1, <1>2, Zenon DEF DataInv, Messages, MessageFits

\* What an answer changes.
LEMMA ReplyIs ==
  ASSUME DataInv, NEW ok \in BOOLEAN, Reply(ok)
  PROVE  /\ store' = NoMsg /\ store'.pc = "idle" /\ call' \in [Clients -> CallRecord]
         /\ \A q \in Clients : /\ call'[q].op = call[q].op /\ call'[q].db = call[q].db /\ call'[q].pc = call[q].pc
                               /\ q # store.msg.client => call'[q] = call[q]
                               /\ q = store.msg.client => call'[q].reply = IF ok THEN "ok" ELSE "err"
<1>1. store' = NoMsg /\ store'.pc = "idle"
  BY Zenon DEF Reply, NoMsg
<1>2. ASSUME NEW q \in Clients
      PROVE  /\ call'[q] \in CallRecord
             /\ call'[q].op = call[q].op /\ call'[q].db = call[q].db /\ call'[q].pc = call[q].pc
             /\ q # store.msg.client => call'[q] = call[q]
             /\ q = store.msg.client => call'[q].reply = IF ok THEN "ok" ELSE "err"
  <2>1. call[q] \in CallRecord
    BY Zenon DEF DataInv, Types
  <2>2. call'[q] = IF q = store.msg.client THEN [call[q] EXCEPT !.reply = IF ok THEN "ok" ELSE "err"] ELSE call[q]
    BY Zenon DEF Reply
  <2> QED BY <2>1, <2>2 DEF CallRecord
<1>3. call' \in [Clients -> CallRecord]
  BY <1>2, Zenon DEF Reply
<1> QED BY <1>1, <1>2, <1>3, Zenon

\* An answer leaves the other messages in order.
LEMMA Answers ==
  ASSUME DataInv, store.pc # "idle", NEW ok \in BOOLEAN, Reply(ok), queue' = queue, raced' = raced,
         trouble \subseteq trouble', upset \subseteq upset',
         \A e \in Dbs : configs'[e] = "default" => configs[e] = "default"
  PROVE  Requests' /\ Messages' /\ InOrder' /\ OverdueWaits'
<1> DEFINE n == store.msg.client
<1>1. /\ store' = NoMsg
      /\ \A q \in Clients : /\ call'[q].op = call[q].op /\ call'[q].db = call[q].db /\ call'[q].pc = call[q].pc
                            /\ q # n => call'[q] = call[q]
  BY ReplyIs, Zenon
<1>2. store # NoMsg
  BY InHand, Zenon
<1>3. Requests'
  <2>1. \A q \in Clients : call'[q].pc = "idle" => call'[q] = Idle
    <3>1. n \in Clients => call[n].pc # "idle"
      BY InHand DEF Awaited, Nobody, Clients
    <3> QED BY <1>1, <3>1 DEF DataInv, Requests
  <2> QED BY <1>1, <2>1 DEF DataInv, Requests
<1>4. Messages'
  <2>1. (\A i \in DOMAIN queue : MessageFits(queue[i]))'
    <3> SUFFICES ASSUME NEW i \in DOMAIN queue PROVE MessageFits(queue[i])'
      BY Zenon
    <3>1. queue[i] \in Message /\ MessageFits(queue[i]) /\ (queue[i].client = Nobody \/ queue[i].client # n)
      BY <1>2 DEF DataInv, Types, Messages
    <3> QED BY <1>1, <3>1 DEF MessageFits, Awaited, Message
  <2> QED BY <1>1, <2>1, Zenon DEF DataInv, Messages
<1>5. InOrder'
  BY <1>1, <1>2 DEF DataInv, InOrder, OrphanOf
<1>6. OverdueWaits'
  <2> SUFFICES ASSUME NEW e \in Dbs, configs'[e] = "default", NEW i \in DOMAIN queue,
                      OrphanOf(queue[i], e), queue[i].flush, queue[i].config # "none"
               PROVE  \E q \in Clients : call'[q].db = e /\ call'[q].pc = "stored" /\ call'[q].reply = "none"
    BY <1>1, Zenon DEF OverdueWaits, OrphanOf
  <2>1. PICK q \in Clients : call[q].db = e /\ call[q].pc = "stored" /\ call[q].reply = "none"
    BY DEF DataInv, OverdueWaits
  <2>2. q # n
    BY <1>2, <2>1, Zenon DEF DataInv, InOrder
  <2> QED BY <1>1, <2>1, <2>2
<1> QED BY <1>3, <1>4, <1>5, <1>6, Zenon

\* A link that is stored is one of a database that is there, with what its schema has.
LEMMA LinkKeeps ==
  ASSUME DataInv, NEW d \in Dbs, links' = links \/ (links' = links \cup {d} /\ job = 0 /\ d \in files \cup raced),
         UNCHANGED <<configs, files, content, sched, acked, raced, erased>>
  PROVE  Acknowledged' /\ TasksLinked' /\ UpToDate'
<1>1. Acknowledged'
  BY Zenon DEF DataInv, Acknowledged
<1>2. TasksLinked'
  BY Zenon DEF DataInv, TasksLinked, sched
<1>3. UpToDate'
  <2>1. links' = links => UpToDate'
    BY DatabasesUnmoved, Zenon DEF sched
  <2>2. ASSUME links' = links \cup {d}, job = 0, d \in files \cup raced PROVE UpToDate'
    <3>1. Done = {} /\ Done' = {}
      BY <2>2, Zenon DEF Done, sched
    <3>2. \A e \in links' \ (raced \cup erased) : content[e] = content[Schema]
      BY <2>2, <3>1, Zenon DEF DataInv, UpToDate
    <3> QED BY <2>2, <3>1, <3>2 DEF DataInv, UpToDate, sched
  <2> QED BY <2>1, <2>2, Zenon
<1> QED BY <1>1, <1>2, <1>3, Zenon

\* A message is received, in the order of the channel.
LEMMA ReceiveKeeps == ASSUME DataInv, Receive PROVE DataInv'
<1>0. /\ store = NoMsg /\ queue # <<>> /\ queue' = Tail(queue)
      /\ UNCHANGED <<configs, entry, disk, call, sched, ghosts, trouble>>
  BY Zenon DEF Receive
<1>1. /\ queue' \in Seq(Message) /\ 1 \in DOMAIN queue /\ \A i \in DOMAIN queue : i >= 1
      /\ \A i \in DOMAIN queue' : i \in Nat /\ i + 1 \in DOMAIN queue /\ i + 1 # 1 /\ queue'[i] = queue[i + 1]
  BY <1>0 DEF DataInv, Types
<1>2. PICK m \in Message : m = queue[1]
  BY <1>1 DEF DataInv, Types
<1>3. /\ store' \in StoreRecord /\ store' # NoMsg /\ store'.msg = m /\ store'.ok
      /\ store'.pc = "update" => m.config # "none" /\ ~m.flush
      /\ store'.pc \in {"flush", "flush_conn"} <=> m.config = "none"
      /\ store'.pc = "write" => m.flush
  <2> DEFINE pc == CASE m.config = "none" -> "flush"
                     [] m.config # "none" /\ m.flush -> "write"
                     [] OTHER -> "update"
  <2>1. Head(queue) = m
    BY <1>0, <1>2 DEF DataInv, Types
  <2>2. store' = [msg |-> m, ok |-> TRUE, pc |-> pc]
    BY <2>1, Zenon DEF Receive
  <2>3. /\ pc \in {"flush", "write", "update"} /\ (pc = "update" => m.config # "none" /\ ~m.flush)
        /\ (pc = "flush" <=> m.config = "none") /\ (pc = "write" => m.flush)
    BY Zenon
  <2> HIDE DEF pc
  <2>4. store' \in StoreRecord /\ store'.msg = m /\ store'.ok /\ store'.pc = pc
    BY <2>2, <2>3, Zenon DEF StoreRecord
  <2> QED BY <2>3, <2>4 DEF NoMsg
<1>4. MessageFits(m) /\ (m.client = Nobody => m.db \in upset)
  BY <1>1, <1>2, Zenon DEF DataInv, Messages, MessageFits
<1>5. Types'
  BY <1>0, <1>1, <1>3, Zenon DEF DataInv, Types, disk, sched
<1>6. Requests' /\ Acknowledged' /\ Progress' /\ TasksLinked' /\ UpToDate'
  BY <1>0, Unmoved, DatabasesUnmoved, Zenon DEF disk, sched, ghosts
<1>7. Messages'
  <2>1. ASSUME NEW o \in Message, MessageFits(o) PROVE MessageFits(o)'
    BY <1>0, <2>1, Zenon DEF MessageFits, Awaited, ghosts
  <2>2. (\A i \in DOMAIN queue : MessageFits(queue[i]))'
    <3> SUFFICES ASSUME NEW i \in DOMAIN queue' PROVE MessageFits(queue[i])'
      BY Zenon
    <3>1. queue'[i] = queue[i + 1] /\ queue[i + 1] \in Message /\ MessageFits(queue[i + 1])
      BY <1>1 DEF DataInv, Types, Messages
    <3> QED BY <1>0, <3>1, Zenon DEF MessageFits, Awaited, ghosts
  <2>3. MessageFits(store.msg)'
    BY <1>0, <1>3, <1>4, Zenon DEF MessageFits, Awaited, ghosts
  <2>4. /\ (\A i, j \in DOMAIN queue : i # j => queue[i].client = Nobody \/ queue[i].client # queue[j].client)'
        /\ \A i \in DOMAIN queue' : queue'[i].client = Nobody \/ queue'[i].client # store'.msg.client
    BY <1>1, <1>2, <1>3 DEF DataInv, Messages
  <2> QED BY <1>3, <2>2, <2>3, <2>4, Zenon DEF Messages
<1>8. InOrder'
  BY <1>0, <1>1, <1>2, <1>3 DEF DataInv, InOrder, OrphanOf
<1>9. OverdueWaits'
  BY <1>0, <1>1, <1>2, <1>3 DEF DataInv, OverdueWaits, OrphanOf
<1>10. LinksAgree'
  BY <1>0, Zenon DEF DataInv, LinksAgree, Overdue, NoMsg, disk
<1>11. Agreed'
  <2>1. \A q \in Clients : (call[q].db \in upset \/ Settles(call[q]))'
    <3> SUFFICES ASSUME NEW q \in Clients, call[q].db \notin upset PROVE Settles(call[q])'
      BY <1>0, Zenon DEF ghosts
    <3>1. Settles(call[q])
      BY Zenon DEF DataInv, Agreed
    <3>2. call[q].pc = "posted" => Intended(call[q].db)' = Intended(call[q].db)
      <4> SUFFICES ASSUME call[q].pc = "posted", store'.pc = "update", m.db = call[q].db PROVE FALSE
        BY <1>0, <1>3, Zenon DEF Intended, NoMsg
      <4>1. m.client \in Clients /\ call[m.client].db = m.db /\ call[m.client].pc = "stored"
        BY <1>3, <1>4, Zenon DEF MessageFits, Awaited, Message
      <4> QED BY <4>1 DEF DataInv, Requests
    <3> QED BY <1>0, <3>1, <3>2, Zenon DEF Settles, disk
  <2>2. (\A e \in Dbs \ upset : (\A q \in Clients : call[q].db = e => AtRest(call[q])) => Settled(e))'
    BY <1>0, Zenon DEF DataInv, Agreed, AtRest, Settled, disk, ghosts
  <2> QED BY <2>1, <2>2, Zenon DEF Agreed
<1> QED BY <1>5, <1>6, <1>7, <1>8, <1>9, <1>10, <1>11, Zenon DEF DataInv

\* What the storing task does next with a message keeps the messages in order.
LEMMA StoreGoesOn ==
  ASSUME DataInv, store.pc # "idle", NEW pc \in {"update", "flush_conn"}, NEW ok \in BOOLEAN,
         store' = [store EXCEPT !.pc = pc, !.ok = ok],
         pc = "flush_conn" <=> store.msg.config = "none", ~ok => pc = "update" /\ store.msg.db \in upset',
         UNCHANGED <<configs, queue, call, raced>>, trouble \subseteq trouble', upset \subseteq upset'
  PROVE  /\ store' \in StoreRecord /\ store' # NoMsg /\ store'.msg = store.msg /\ store'.pc = pc
         /\ Requests' /\ Messages' /\ InOrder' /\ OverdueWaits'
<1>1. store # NoMsg /\ store \in StoreRecord /\ store.msg \in Message /\ (store.pc = "write" => store.msg.flush)
  BY InHand, Zenon
<1>2. store' \in StoreRecord /\ store'.msg = store.msg /\ store'.pc = pc /\ store'.ok = ok
  BY <1>1, Zenon DEF StoreRecord
<1>3. store' # NoMsg
  BY <1>2, Zenon DEF NoMsg
<1>4. Requests'
  BY Unmoved, Zenon
<1>5. Messages'
  <2>1. ASSUME NEW o \in Message, MessageFits(o) PROVE MessageFits(o)'
    BY <2>1, Zenon DEF MessageFits, Awaited
  <2>2. (\A i \in DOMAIN queue : MessageFits(queue[i]))'
    BY <2>1 DEF DataInv, Types, Messages, MessageFits, Awaited
  <2>3. MessageFits(store.msg)'
    BY <1>1, <1>2, <2>1 DEF DataInv, Messages, MessageFits, Awaited
  <2> QED BY <1>1, <1>2, <2>2, <2>3 DEF DataInv, Messages
<1>6. InOrder'
  BY <1>1, <1>2, <1>3 DEF DataInv, InOrder, OrphanOf
<1>7. OverdueWaits'
  BY <1>1, <1>2, <1>3 DEF DataInv, OverdueWaits, OrphanOf
<1> QED BY <1>2, <1>3, <1>4, <1>5, <1>6, <1>7, Zenon

\* The transaction on a configuration and its link, whatever came of it.
LEMMA Processed ==
  ASSUME DataInv, NEW d \in Dbs, NEW config \in Config, NEW ok \in BOOLEAN, TryProcess(d, config, ok)
  PROVE  /\ rows' \in [Dbs -> Config] /\ links' \subseteq Dbs /\ trouble \subseteq trouble' /\ upset \subseteq upset'
         /\ \A e \in Dbs \ {d} : rows'[e] = rows[e] /\ (e \in links' <=> e \in links)
         /\ ok => /\ rows'[d] = config /\ upset' = upset
                  /\ config \in Settings => links' = links \cup {d} /\ job = 0
                  /\ config \notin Settings => links' = links
         /\ ~ok => rows' = rows /\ links' = links /\ d \in upset'
<1>1. CASE ok
  BY <1>1 DEF TryProcess, PendingMigration, DataInv, Types
<1>2. CASE ~ok
  <2>1. rows' = rows /\ links' = links /\ upset' = upset \cup {d}
    BY <1>2, Zenon DEF TryProcess
  <2>2. trouble \subseteq trouble'
    BY <1>2, Zenon DEF TryProcess, Fault
  <2> QED BY <1>2, <2>1, <2>2, Zenon DEF DataInv, Types
<1> QED BY <1>1, <1>2, Zenon

\* A change that a request waits for is written to the meta database.
LEMMA WriteKeeps == ASSUME DataInv, StoreWrite PROVE DataInv'
<1>0. PICK d \in Dbs, config \in Settings, ok \in BOOLEAN :
        /\ d = store.msg.db /\ config = store.msg.config /\ store.pc = "write"
        /\ TryProcess(d, config, ok) /\ store' = [store EXCEPT !.pc = "update", !.ok = ok]
  <2>1. store.pc = "write"
    BY Zenon DEF StoreWrite
  <2>2. store.msg \in Message /\ store.msg.config # "none"
    BY <2>1, InHand, Zenon
  <2>3. store.msg.db \in Dbs /\ store.msg.config \in Settings
    BY <2>2, Zenon DEF Message
  <2>4. PICK ok \in BOOLEAN : /\ TryProcess(store.msg.db, store.msg.config, ok)
                             /\ store' = [store EXCEPT !.pc = "update", !.ok = ok]
    BY Zenon DEF StoreWrite
  <2> QED BY <2>1, <2>3, <2>4, Zenon
<1>1. UNCHANGED <<configs, entry, queue, files, content, call, sched, acked, raced, erased>>
  BY Zenon DEF StoreWrite
<1>2. /\ rows' \in [Dbs -> Config] /\ links' \subseteq Dbs /\ trouble \subseteq trouble' /\ upset \subseteq upset'
      /\ \A e \in Dbs \ {d} : rows'[e] = rows[e] /\ (e \in links' <=> e \in links)
      /\ ok => rows'[d] = config /\ links' = links \cup {d} /\ job = 0
      /\ ~ok => rows' = rows /\ links' = links /\ d \in upset'
  BY <1>0, Processed DEF Config
<1>3. \/ store.msg.client = Nobody /\ d \in raced /\ d \in upset
      \/ /\ store.msg.client \in Clients /\ call[store.msg.client].db = d /\ call[store.msg.client].pc = "posted"
         /\ configs[d] \in Settings /\ d \in files
  BY <1>0, InHand, MetaStoreAssumption, Zenon DEF Awaited, DataInv, Progress, ProgressOf
<1>4. /\ store' \in StoreRecord /\ store' # NoMsg /\ store'.msg = store.msg /\ store'.pc = "update"
      /\ Requests' /\ Messages' /\ InOrder' /\ OverdueWaits'
  BY <1>0, <1>1, <1>2, MetaStoreAssumption, StoreGoesOn, Zenon
<1>5. Types'
  BY <1>1, <1>2, <1>4, Zenon DEF DataInv, Types, sched
<1>6. LinksAgree'
  <2>1. \A e \in Dbs : e \in links => configs[e] \in Settings
    BY <1>0, Zenon DEF DataInv, LinksAgree, Overdue
  <2>2. configs[d] \notin Settings => Overdue(d)'
    <3>1. store.msg.flush
      BY <1>0, InHand, Zenon
    <3> QED BY <1>0, <1>3, <1>4, <3>1, Zenon DEF Overdue, OrphanOf
  <2> QED BY <1>1, <1>2, <2>1, <2>2, Zenon DEF DataInv, LinksAgree
<1>7. Acknowledged' /\ TasksLinked' /\ UpToDate'
  BY <1>1, <1>2, <1>3, LinkKeeps, Zenon
<1>8. ASSUME NEW q \in Clients, call[q].db = d PROVE ProgressOf(call[q])' /\ (call[q].db \in upset \/ Settles(call[q]))'
  <2>1. ProgressOf(call[q])
    BY Zenon DEF DataInv, Progress
  <2>2. d \in raced \/ call[q].pc # "cleanup"
    BY <1>3, <1>8, MetaStoreAssumption, Zenon DEF DataInv, Requests, Dbs
  <2>3. links \subseteq links'
    BY <1>2, Zenon
  <2>4. ProgressOf(call[q])'
    BY <1>1, <1>2, <1>8, <2>1, <2>2, <2>3, Zenon DEF ProgressOf
  <2>5. d \notin upset' => call[q].pc = "posted" /\ rows'[d] = config
    BY <1>2, <1>3, <1>8, MetaStoreAssumption DEF DataInv, Requests, Dbs
  <2>6. (call[q].db \in upset \/ Settles(call[q]))'
    BY <1>0, <1>1, <1>4, <1>8, <2>5, Zenon DEF Settles, Intended, Removing
  <2> QED BY <2>4, <2>6, Zenon
<1>9. Progress' /\ Agreed'
  <2>1. (\A q \in Clients : call'[q].db = d => AtRest(call'[q])) => d \in upset'
    BY <1>1, <1>2, <1>3, Zenon DEF AtRest, Removing
  <2>2. \A e \in Dbs \ {d} : Intended(e)' = Intended(e)
    BY <1>0, <1>1, <1>4, Zenon DEF Intended
  <2>3. \A q \in Clients :
          \/ call'[q] = call[q] /\ call[q].db # d
          \/ /\ call[q].db \in {0, d} /\ call'[q].db \in {0, d} /\ ProgressOf(call[q])'
             /\ (call[q].db \in upset \/ Settles(call[q]))'
    BY <1>1, <1>8, Zenon
  <2>4. \A e \in Dbs \ {d} :
          /\ configs'[e] = configs[e] /\ rows'[e] = rows[e] /\ entry'[e] = entry[e] /\ Intended(e)' = Intended(e)
          /\ (e \in links' <=> e \in links) /\ (e \in files' <=> e \in files)
    BY <1>1, <1>2, <2>2, Zenon
  <2>5. acked' \subseteq acked \cup {d} /\ raced \subseteq raced' \cup {d} /\ upset \subseteq upset' /\ d \in Dbs
    BY <1>0, <1>1, <1>2, Zenon
  <2> QED BY <2>1, <2>3, <2>4, <2>5, OnlyItsDatabase, Zenon
<1> QED BY <1>4, <1>5, <1>6, <1>7, <1>9, Zenon DEF DataInv

\* A change is applied to the configurations in memory, and answered.
LEMMA UpdateKeeps == ASSUME DataInv, StoreUpdate PROVE DataInv'
<1>0. PICK d \in Dbs, config \in Settings :
        /\ d = store.msg.db /\ config = store.msg.config /\ store.pc = "update"
        /\ configs' = [configs EXCEPT ![d] = config] /\ store.ok \in BOOLEAN /\ Reply(store.ok)
  <2>1. store.pc = "update"
    BY Zenon DEF StoreUpdate
  <2>2. store.msg \in Message /\ store.msg.config # "none" /\ store \in StoreRecord
    BY <2>1, InHand, Zenon
  <2>3. store.msg.db \in Dbs /\ store.msg.config \in Settings /\ store.ok \in BOOLEAN
    BY <2>2, Zenon DEF Message, StoreRecord
  <2> QED BY <2>1, <2>3, Zenon DEF StoreUpdate
<1>1. UNCHANGED <<entry, queue, disk, sched, ghosts, trouble>>
  BY Zenon DEF StoreUpdate
<1>2. /\ store' = NoMsg /\ store'.pc = "idle" /\ call' \in [Clients -> CallRecord]
      /\ \A q \in Clients : /\ call'[q].op = call[q].op /\ call'[q].db = call[q].db /\ call'[q].pc = call[q].pc
                            /\ q # store.msg.client => call'[q] = call[q]
                            /\ q = store.msg.client => call'[q].reply = IF store.ok THEN "ok" ELSE "err"
  BY <1>0, ReplyIs, Zenon
<1>3. /\ ~store.ok => d \in upset
      /\ \/ store.msg.client = Nobody /\ d \in raced /\ d \in upset
         \/ /\ store.msg.client \in Clients /\ call[store.msg.client].db = d
            /\ call[store.msg.client].pc \in {"stored", "posted"}
  BY <1>0, InHand, MetaStoreAssumption, Zenon DEF Awaited
<1>4. configs'[d] = config /\ (\A e \in Dbs \ {d} : configs'[e] = configs[e]) /\ configs' \in [Dbs -> Config]
  BY <1>0, Zenon DEF DataInv, Types, Config
<1>5. Requests' /\ Messages' /\ InOrder' /\ OverdueWaits'
  <2>1. \A e \in Dbs : configs'[e] = "default" => configs[e] = "default"
    BY <1>4, MetaStoreAssumption, Zenon
  <2> QED BY <1>0, <1>1, <2>1, Answers, Zenon DEF ghosts
<1>6. Types'
  BY <1>1, <1>2, <1>4, Zenon DEF DataInv, Types, disk, sched
<1>7. LinksAgree'
  BY <1>0, <1>1, <1>4, Zenon DEF DataInv, LinksAgree, Overdue, OrphanOf, disk
<1>8. Acknowledged'
  BY <1>1, <1>4, Zenon DEF DataInv, Types, Acknowledged, disk, ghosts
<1>9. TasksLinked' /\ UpToDate'
  BY <1>1, DatabasesUnmoved, Zenon DEF disk, sched, ghosts
<1>10. ASSUME NEW q \in Clients, call[q].db = d PROVE ProgressOf(call[q])' /\ (call[q].db \in upset \/ Settles(call[q]))'
  <2>1. ProgressOf(call[q]) /\ (d \in upset \/ Settles(call[q]))
    BY <1>10, Zenon DEF DataInv, Progress, Agreed
  <2>2. q = store.msg.client => call[q].pc \in {"stored", "posted"}
    BY <1>3, MetaStoreAssumption DEF Clients, Nobody
  <2>3. ProgressOf(call[q])'
    BY <1>1, <1>2, <1>3, <1>4, <1>10, <2>1, <2>2, Zenon DEF ProgressOf, disk, ghosts
  <2>4. d \notin upset => call[q].pc \in {"stored", "posted"}
    BY <1>3, <1>10, MetaStoreAssumption, Zenon DEF DataInv, Requests, Dbs
  <2>5. (call[q].db \in upset \/ Settles(call[q]))'
    <3> SUFFICES ASSUME d \notin upset PROVE Settles(call[q])'
      BY <1>1, <1>2, <1>10, Zenon DEF ghosts
    <3>1. call'[q].pc \in {"stored", "posted"} /\ call'[q].pc = call[q].pc /\ call'[q].db = d
      BY <1>2, <1>10, <2>4, Zenon
    <3>2. /\ call[q].pc = "stored" => entry[d] = "empty"
          /\ call[q].pc = "posted" => rows[d] = Intended(d)
      BY <1>10, <2>1, Zenon DEF Settles
    <3>3. Intended(d) = config /\ Intended(d)' = config
      BY <1>0, <1>2, <1>4, Zenon DEF Intended
    <3>4. entry' = entry /\ rows' = rows
      BY <1>1, Zenon DEF disk
    <3>5. /\ call'[q].pc = "stored" => entry'[d] = "empty"
          /\ call'[q].pc = "posted" => rows'[d] = Intended(d)'
      BY <3>1, <3>2, <3>3, <3>4, Zenon
    <3>6. call'[q].pc \notin Removing /\ call'[q].pc \notin {"copy", "flushing", "cleanup"}
      BY <3>1 DEF Removing
    <3> QED BY <3>1, <3>5, <3>6, Zenon DEF Settles
  <2> QED BY <2>3, <2>5, Zenon
<1>11. Progress' /\ Agreed'
  <2>1. (\A q \in Clients : call'[q].db = d => AtRest(call'[q])) => d \in upset
    <3> SUFFICES ASSUME d \notin upset PROVE \E q \in Clients : call'[q].db = d /\ ~AtRest(call'[q])
      BY Zenon
    <3>1. PICK q \in Clients : call'[q].db = d /\ call'[q].pc \in {"stored", "posted"}
      BY <1>2, <1>3, Zenon
    <3> QED BY <3>1 DEF AtRest, Removing
  <2>2. \A e \in Dbs \ {d} : Intended(e)' = Intended(e)
    BY <1>0, <1>2, <1>4, Zenon DEF Intended
  <2>3. \A q \in Clients : call[q].db # d => call'[q] = call[q]
    BY <1>2, <1>3, MetaStoreAssumption DEF Clients, Nobody
  <2>4. \A q \in Clients :
          \/ call'[q] = call[q] /\ call[q].db # d
          \/ /\ call[q].db \in {0, d} /\ call'[q].db \in {0, d} /\ ProgressOf(call[q])'
             /\ (call[q].db \in upset \/ Settles(call[q]))'
    <3> SUFFICES ASSUME NEW q \in Clients, call[q].db = d
                 PROVE  /\ call[q].db \in {0, d} /\ call'[q].db \in {0, d} /\ ProgressOf(call[q])'
                        /\ (call[q].db \in upset \/ Settles(call[q]))'
      BY <2>3, Zenon
    <3>1. call'[q].db = d
      BY <1>2, Zenon
    <3> QED BY <1>10, <3>1, Zenon
  <2>5. UNCHANGED <<entry, rows, links, files, acked, raced, upset>>
    BY <1>1, Zenon DEF disk, ghosts
  <2>6. \A e \in Dbs \ {d} :
          /\ configs'[e] = configs[e] /\ rows'[e] = rows[e] /\ entry'[e] = entry[e] /\ Intended(e)' = Intended(e)
          /\ (e \in links' <=> e \in links) /\ (e \in files' <=> e \in files)
    BY <1>4, <2>2, <2>5, Zenon
  <2>7. acked' \subseteq acked \cup {d} /\ raced \subseteq raced' \cup {d} /\ upset \subseteq upset'
    BY <2>5, Zenon
  <2>8. d \in Dbs
    BY <1>0, Zenon
  <2> QED BY <2>1, <2>4, <2>5, <2>6, <2>7, <2>8, OnlyItsDatabase, Zenon
<1> QED BY <1>5, <1>6, <1>7, <1>8, <1>9, <1>11, Zenon DEF DataInv

\* A flush looks for the configuration in memory.
LEMMA FlushKeeps == ASSUME DataInv, StoreFlush PROVE DataInv'
<1>0. /\ store.pc = "flush" /\ UNCHANGED <<configs, entry, queue, disk, sched, ghosts, trouble>>
      /\ \/ configs[store.msg.db] = "absent" /\ Reply(TRUE)
         \/ configs[store.msg.db] # "absent" /\ store' = [store EXCEPT !.pc = "flush_conn"] /\ UNCHANGED call
  BY Zenon DEF StoreFlush
<1>1. /\ store \in StoreRecord /\ store.msg.config = "none" /\ store.ok
  <2>1. store \in StoreRecord /\ store # NoMsg /\ store.msg.config = "none"
    BY <1>0, InHand, Zenon
  <2> QED BY <1>0, <2>1, Zenon DEF DataInv, Messages
<1>2. /\ call' = call /\ store' \in {NoMsg} \cup StoreRecord /\ store'.pc # "update"
      /\ Requests' /\ Messages' /\ InOrder' /\ OverdueWaits'
  <2>1. CASE configs[store.msg.db] = "absent" /\ Reply(TRUE)
    <3>1. store.msg.client \notin Clients
      BY <1>0, <1>1, <2>1, InHand, MetaStoreAssumption DEF Awaited, DataInv, Progress, ProgressOf, Clients, Nobody
    <3>2. call' = call
      BY <2>1, <3>1 DEF Reply, DataInv, Types
    <3>3. store' = NoMsg /\ store'.pc = "idle"
      BY <2>1, ReplyIs, Zenon
    <3> QED BY <1>0, <2>1, <3>2, <3>3, Answers, Zenon DEF ghosts
  <2>2. CASE store' = [store EXCEPT !.pc = "flush_conn"] /\ UNCHANGED call
    <3>1. store' = [store EXCEPT !.pc = "flush_conn", !.ok = TRUE]
      BY <1>1, <2>2, Zenon DEF StoreRecord
    <3> QED BY <1>0, <1>1, <2>2, <3>1, StoreGoesOn, Zenon DEF ghosts
  <2> QED BY <1>0, <2>1, <2>2, Zenon
<1>3. Types'
  BY <1>0, <1>2, Zenon DEF DataInv, Types, disk, sched
<1>4. LinksAgree'
  BY <1>0, Zenon DEF DataInv, LinksAgree, Overdue, disk
<1>5. Progress' /\ Acknowledged' /\ TasksLinked' /\ UpToDate'
  BY <1>0, <1>2, DatabasesUnmoved, Zenon DEF disk, sched, ghosts
<1>6. Agreed'
  BY <1>0, <1>2 DEF DataInv, Agreed, AtRest, Settled, Settles, Intended, disk, ghosts
<1> QED BY <1>2, <1>3, <1>4, <1>5, <1>6, Zenon DEF DataInv

\* A flush stores the configuration that is in memory, and is answered.
LEMMA FlushConnKeeps == ASSUME DataInv, StoreFlushConn PROVE DataInv'
<1>0. PICK d \in Dbs, ok \in BOOLEAN :
        d = store.msg.db /\ store.pc = "flush_conn" /\ TryProcess(d, configs[d], ok) /\ Reply(ok)
  <2>1. store.pc = "flush_conn"
    BY Zenon DEF StoreFlushConn
  <2>2. store.msg.db \in Dbs
    BY <2>1, InHand, Zenon
  <2> QED BY <2>1, <2>2, Zenon DEF StoreFlushConn
<1>1. UNCHANGED <<configs, entry, queue, files, content, sched, acked, raced, erased>>
  BY Zenon DEF StoreFlushConn
<1>2. /\ rows' \in [Dbs -> Config] /\ links' \subseteq Dbs /\ trouble \subseteq trouble' /\ upset \subseteq upset'
      /\ \A e \in Dbs \ {d} : rows'[e] = rows[e] /\ (e \in links' <=> e \in links)
      /\ ok => /\ rows'[d] = configs[d] /\ upset' = upset
               /\ configs[d] \in Settings => links' = links \cup {d} /\ job = 0
               /\ configs[d] \notin Settings => links' = links
      /\ ~ok => rows' = rows /\ links' = links /\ d \in upset'
  <2>1. configs[d] \in Config
    BY Zenon DEF DataInv, Types
  <2> QED BY <1>0, <2>1, Processed
<1>3. \/ store.msg.client = Nobody /\ d \in raced /\ d \in upset
      \/ /\ store.msg.client \in Clients /\ call[store.msg.client].db = d /\ call[store.msg.client].pc = "flushing"
         /\ configs[d] \in Settings /\ d \in files
  BY <1>0, InHand, Zenon DEF Awaited, DataInv, Progress, ProgressOf
<1>4. /\ store' = NoMsg /\ store'.pc = "idle" /\ call' \in [Clients -> CallRecord]
      /\ \A q \in Clients : /\ call'[q].op = call[q].op /\ call'[q].db = call[q].db /\ call'[q].pc = call[q].pc
                            /\ q # store.msg.client => call'[q] = call[q]
                            /\ q = store.msg.client => call'[q].reply = IF ok THEN "ok" ELSE "err"
  BY <1>0, ReplyIs, Zenon
<1>5. Requests' /\ Messages' /\ InOrder' /\ OverdueWaits'
  BY <1>0, <1>1, <1>2, Answers, Zenon
<1>6. Types'
  BY <1>1, <1>2, <1>4, Zenon DEF DataInv, Types, sched
<1>7. LinksAgree'
  <2>1. \A e \in Dbs : e \in links => configs[e] \in Settings
    BY <1>0, Zenon DEF DataInv, LinksAgree, Overdue
  <2> QED BY <1>1, <1>2, <2>1, Zenon DEF DataInv, LinksAgree
<1>8. Acknowledged' /\ TasksLinked' /\ UpToDate'
  BY <1>1, <1>2, <1>3, LinkKeeps, Zenon
<1>9. ASSUME NEW q \in Clients, call[q].db = d PROVE ProgressOf(call[q])' /\ (call[q].db \in upset \/ Settles(call[q]))'
  <2>1. ProgressOf(call[q]) /\ links \subseteq links'
    BY <1>2, Zenon DEF DataInv, Progress
  <2>2. CASE q = store.msg.client
    <3>1. call[q].pc = "flushing" /\ configs[d] \in Settings /\ d \in files
      BY <1>3, <2>2, MetaStoreAssumption DEF Clients, Nobody
    <3>2. ok => d \in links'
      BY <1>2, <3>1, Zenon
    <3>3. ProgressOf(call[q])'
      BY <1>1, <1>2, <1>4, <1>9, <2>2, <3>1, <3>2, Zenon DEF ProgressOf
    <3>4. (call[q].db \in upset \/ Settles(call[q]))'
      BY <1>1, <1>2, <1>4, <1>9, <3>1, Zenon DEF Settles, Removing
    <3> QED BY <3>3, <3>4, Zenon
  <2>3. CASE q # store.msg.client
    <3>1. d \in raced /\ d \in upset /\ call'[q] = call[q]
      BY <1>3, <1>4, <1>9, <2>3, MetaStoreAssumption DEF DataInv, Requests, Dbs
    <3>2. ProgressOf(call[q])'
      BY <1>1, <1>2, <1>9, <2>1, <3>1, Zenon DEF ProgressOf
    <3> QED BY <1>2, <1>9, <3>1, <3>2, Zenon
  <2> QED BY <2>2, <2>3, Zenon
<1>10. Progress' /\ Agreed'
  <2>1. (\A q \in Clients : call'[q].db = d => AtRest(call'[q])) => d \in upset'
    <3> SUFFICES ASSUME d \notin upset' PROVE \E q \in Clients : call'[q].db = d /\ ~AtRest(call'[q])
      BY Zenon
    <3>0. d \notin upset
      BY <1>2, Zenon
    <3>1. PICK q \in Clients : call'[q].db = d /\ call'[q].pc = "flushing"
      BY <1>3, <1>4, <3>0, Zenon
    <3> QED BY <3>1 DEF AtRest, Removing
  <2>2. \A e \in Dbs \ {d} : Intended(e)' = Intended(e)
    BY <1>0, <1>1, <1>4, Zenon DEF Intended
  <2>3. \A q \in Clients : call[q].db # d => call'[q] = call[q]
    BY <1>3, <1>4, MetaStoreAssumption DEF Clients, Nobody
  <2>4. \A q \in Clients :
          \/ call'[q] = call[q] /\ call[q].db # d
          \/ /\ call[q].db \in {0, d} /\ call'[q].db \in {0, d} /\ ProgressOf(call[q])'
             /\ (call[q].db \in upset \/ Settles(call[q]))'
    <3> SUFFICES ASSUME NEW q \in Clients, call[q].db = d
                 PROVE  /\ call[q].db \in {0, d} /\ call'[q].db \in {0, d} /\ ProgressOf(call[q])'
                        /\ (call[q].db \in upset \/ Settles(call[q]))'
      BY <2>3, Zenon
    <3>1. call'[q].db = d
      BY <1>4, Zenon
    <3> QED BY <1>9, <3>1, Zenon
  <2>5. \A e \in Dbs \ {d} :
          /\ configs'[e] = configs[e] /\ rows'[e] = rows[e] /\ entry'[e] = entry[e] /\ Intended(e)' = Intended(e)
          /\ (e \in links' <=> e \in links) /\ (e \in files' <=> e \in files)
    BY <1>1, <1>2, <2>2, Zenon
  <2>6. acked' \subseteq acked \cup {d} /\ raced \subseteq raced' \cup {d} /\ upset \subseteq upset' /\ d \in Dbs
    BY <1>0, <1>1, <1>2, Zenon
  <2> QED BY <2>1, <2>4, <2>5, <2>6, OnlyItsDatabase, Zenon
<1> QED BY <1>5, <1>6, <1>7, <1>8, <1>10, Zenon DEF DataInv

-----------------------------------------------------------------------------
(* The invariant, and what it shows.                                       *)

\* It holds when the server starts.
LEMMA InitData == ASSUME Init PROVE DataInv
<1>1. DOMAIN queue = {} /\ store = NoMsg /\ store.pc = "idle" /\ \A c \in Clients : call[c] = Idle
  BY DEF Init, NoMsg
<1>2. Types
  <2>1. configs \in [Dbs -> Config] /\ rows \in [Dbs -> Config] /\ entry \in [Dbs -> {"none", "empty", "full"}]
    BY Zenon DEF Init, Config
  <2>2. content \in [Dbs \cup {Schema} -> SUBSET Nat] /\ links = {} /\ files = {} /\ todo = {}
    BY Zenon DEF Init
  <2>3. queue \in Seq(Message) /\ store = NoMsg /\ call \in [Clients -> CallRecord]
    BY IdleFits DEF Init
  <2>4. registered \in Nat /\ job \in Nat /\ migrated \in BOOLEAN
    BY Zenon DEF Init
  <2> QED BY <2>1, <2>2, <2>3, <2>4, Zenon DEF Types
<1>3. Requests /\ Progress
  BY <1>1 DEF Requests, Progress, ProgressOf, Idle, Creating, Removing
<1>4. Messages /\ InOrder /\ OverdueWaits
  BY <1>1, Zenon DEF Messages, InOrder, OverdueWaits, Idle
<1>5. LinksAgree /\ Acknowledged /\ TasksLinked /\ UpToDate
  BY MetaStoreAssumption, Zenon DEF Init, LinksAgree, Acknowledged, TasksLinked, UpToDate
<1>6. Agreed
  BY <1>1, Zenon DEF Init, Agreed, Settled, Settles, Idle, Removing
<1> QED BY <1>2, <1>3, <1>4, <1>5, <1>6, Zenon DEF DataInv

\* Every step keeps it.
LEMMA NextData == ASSUME DataInv, [Next]_vars PROVE DataInv'
<1>1. CASE Store
  BY <1>1, ReceiveKeeps, WriteKeeps, UpdateKeeps, FlushKeeps, FlushConnKeeps, Zenon DEF Store
<1>2. CASE Migration
  BY <1>2, RegisterKeeps, JobKeeps, SchemaKeeps, TaskKeeps, Zenon DEF Migration
<1>3. ASSUME NEW c \in Clients, Request(c) PROVE DataInv'
  BY <1>3, StepsAside, HandleKeeps, CreateAnswered, CopyKeeps, RemoveKeeps, CleanupKeeps, EndsWell, Zenon DEF Request
<1>4. CASE RegisterJob \/ Restart
  BY <1>4, RegisterKeeps, RestartKeeps, Zenon
<1>5. ASSUME NEW d \in Dbs, Evict(d) PROVE DataInv'
  BY <1>5, EvictKeeps, Zenon
<1>6. ASSUME NEW c \in Clients, Cancel(c) PROVE DataInv'
  BY <1>6, CancelKeeps, Zenon
<1>7. ASSUME NEW c \in Clients, NEW d \in Dbs, Create(c, d) \/ Destroy(c, d) \/ \E v \in Settings : PostConfig(c, d, v)
      PROVE  DataInv'
  BY <1>7, Begins, PostKeeps, Zenon
<1>8. CASE UNCHANGED vars
  <2>1. UNCHANGED <<memory, disk, call, sched, ghosts, trouble>>
    BY <1>8, Zenon DEF vars
  <2>2. Types' /\ Requests' /\ Messages' /\ InOrder' /\ LinksAgree' /\ OverdueWaits'
    BY <2>1, Unmoved, Zenon DEF DataInv, Types, memory, disk, sched, ghosts
  <2>3. Progress' /\ Acknowledged' /\ Agreed' /\ TasksLinked' /\ UpToDate'
    BY <2>1, DatabasesUnmoved, Zenon DEF memory, disk, sched, ghosts
  <2> QED BY <2>2, <2>3, Zenon DEF DataInv
<1> QED BY <1>1, <1>2, <1>3, <1>4, <1>5, <1>6, <1>7, <1>8, Zenon DEF Next, System

\* The invariant holds in every reachable state, requests in progress being about different
\* databases.
THEOREM DataInvariant == Spec => []DataInv
BY InitData, NextData, PTL DEF Spec

\* A linked database has exactly the migrations of its schema when no job is pending.
THEOREM LinkedComplete == Spec => []LinkedMissesNothing
<1>1. DataInv => LinkedMissesNothing
  BY Zenon DEF DataInv, UpToDate, Done, LinkedMissesNothing
<1> QED BY <1>1, DataInvariant, PTL

\* The tasks of a pending job are of linked databases that are there.
THEOREM JobsReachDatabases == Spec => []TasksHaveDatabases
<1>1. DataInv => TasksHaveDatabases
  BY Zenon DEF DataInv, TasksLinked, TasksHaveDatabases
<1> QED BY <1>1, DataInvariant, PTL

\* What create() answered with success is on disk through every crash and restart, until remove()
\* takes it out of the meta database, but for the directory of one that was created again while
\* it was unloaded.
THEOREM AcknowledgedDurable == Spec => []AcknowledgedSurvives
<1>1. DataInv => AcknowledgedSurvives
  BY Zenon DEF DataInv, Types, Acknowledged, LinksAgree, AcknowledgedSurvives
<1> QED BY <1>1, DataInvariant, PTL

\* At rest, memory and disk say the same of a database.
THEOREM MemoryDiskAgree == Spec => []MemoryMatchesDisk
<1>1. DataInv => MemoryMatchesDisk
  BY Zenon DEF DataInv, Agreed, Settled, LinksAgree, MemoryMatchesDisk
<1> QED BY <1>1, DataInvariant, PTL

=============================================================================
