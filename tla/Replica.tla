------------------------------ MODULE Replica ------------------------------
(***************************************************************************)
(* A replica of one namespace: the replicator's state machine              *)
(* (replicator.rs), the injector that writes frames to the replica's WAL   *)
(* (sqlite_injector), the file that records how far it got (meta.rs) and   *)
(* the two clients that read from a primary: the one of a replica server   *)
(* (replicator_client.rs), which follows a stream, and the one of an       *)
(* embedded replica (remote_client.rs), which fetches batches.             *)
(*                                                                         *)
(* The primary is what FrameLog promises.  The version of a page is        *)
(* <<id, no>>: the log and the number of the frame that wrote it.  -1      *)
(* stands for None: no frame, no log, no session.                          *)
(***************************************************************************)
EXTENDS FrameLog, FiniteSets, SequencesExt

CONSTANTS
  Kind,        \* "server" or "embedded"
  Txns,        \* the transactions a primary may commit, sequences of Frame
  Capacity,    \* INJECTOR_BUFFER_CAPACITY
  MaxBatch,    \* MAX_FRAMES_PER_BATCH
  Tidy,        \* whether merged snapshots disappear at the moment their merge appears
  FaultKinds,  \* what may fail: some of "stream", "inject", "meta", "crash", "cancel"
  MaxFrames, MaxResets, MaxSessions, MaxFaults   \* bounds

ASSUME ReplicaAssumption ==
  /\ Kind \in {"server", "embedded"} /\ Tidy \in BOOLEAN
  /\ Capacity \in Nat \ {0} /\ MaxBatch \in Nat \ {0}
  /\ FaultKinds \subseteq {"stream", "inject", "meta", "crash", "cancel"}
  /\ {MaxFrames, MaxResets, MaxSessions, MaxFaults} \subseteq Nat

VARIABLES
  session,     \* the primary's session token: <<process, version of the configuration>>
  faults,      \* the kinds of faults so far
  db, disk,    \* the replica's database and its meta file
  meta,        \* WalIndexMeta in memory: log id and committed frame number
  st, strm,    \* ReplicatorState, and the stream that is being read
  buf, wal, biggest,   \* injector: buffer, uncommitted frames, biggest_uncommitted_seen
  todo,        \* commit that was injected and is not recorded yet
  tok, last, pre, dirty, index   \* client: token, last_received, prefetched, dirty, last index

store == <<db, disk, meta>>
injector == <<buf, wal, biggest, todo>>
client == <<tok, last, pre, dirty, index>>
replica == <<store, st, strm, injector, client>>
repvars == <<logvars, session, faults, replica>>

NoMeta == [id |-> -1, no |-> -1]
NoToken == <<-1, -1>>
NoStream == [kind |-> "none"]
Nothing == [kind |-> "nothing"]

ReplicaInit ==
  /\ Init
  /\ session = <<0, 0>> /\ faults = {}
  /\ db = <<>> /\ disk = NoMeta /\ meta = NoMeta
  /\ st = "NeedHandshake" /\ strm = NoStream
  /\ buf = <<>> /\ wal = <<>> /\ biggest = 0 /\ todo = -1
  /\ tok = NoToken /\ last = -1 /\ pre = Nothing /\ dirty = FALSE /\ index = -1

(***************************************************************************)
(* The primary                                                             *)
(***************************************************************************)
SizeAt(n) == IF n < 0 THEN 0 ELSE hist[n + 1].size

DbSize == SizeAt(Len(hist) - 1)

Pages(t) == {t[i].page : i \in DOMAIN t}

\* A transaction of SQLite: every new page is written.
Fits(t) == \A p \in DbSize + 1..Last(t).size : p \in Pages(t)

\* recover(): one frame per page of the database.
Image == [p \in 1..DbSize |-> [page |-> p, size |-> IF p = DbSize THEN p ELSE 0]]

\* A merge of neighbours and the removal of what it holds, at one moment.
MergeAndRemove(a, b) ==
  /\ {a, b} \subseteq snaps \ pend /\ a[2] + 1 = b[1]
  /\ snaps' = (snaps \ {a, b}) \cup {<<a[1], b[2]>>}
  /\ UNCHANGED <<id, hist, start, pend>>

\* The primary was killed: its next process makes a new log from the database.
Recovers ==
  /\ id < MaxResets /\ Reset(Image)
  /\ session' = <<session[1] + 1, 0>>
  /\ UNCHANGED <<faults, replica>>

Primary ==
  \/ /\ \/ \E t \in Txns : Len(hist) + Len(t) <= MaxFrames /\ Fits(t) /\ Commit(t)
        \/ Compact
        \/ \E r \in pend : r \notin snaps /\ Publish(r)
        \/ \E a, b \in snaps : ~Tidy /\ a[2] + 1 = b[1] /\ <<a[1], b[2]>> \notin snaps /\ Merge(a, b)
        \/ \E a, b \in snaps : Tidy /\ MergeAndRemove(a, b)
        \/ \E r \in pend : RemoveFile(r)
        \/ \E r \in snaps : RemoveSnapshot(r)
     /\ UNCHANGED <<session, faults, replica>>
  \/ Recovers

\* The primary restarts, or the configuration of the namespace changes.
NewSession ==
  /\ session[1] + session[2] < MaxSessions
  /\ session' \in {<<session[1] + 1, 0>>, <<session[1], session[2] + 1>>}
  /\ UNCHANGED <<logvars, faults, replica>>

(***************************************************************************)
(* What the primary answers                                                *)
(***************************************************************************)
\* The frame a reader gets: header and, as its data, the frame's identity.
FrameAt(n) == [no |-> n, page |-> hist[n + 1].page, size |-> hist[n + 1].size, ver |-> <<id, n>>]

\* batch_log_entries(): up to the first end of a transaction after MaxBatch frames.
BatchEnd(from) ==
  LET ends == {n \in from..Len(hist) - 1 : hist[n + 1].size # 0 /\ n - from + 1 >= MaxBatch} IN
  IF ends = {} THEN Len(hist) - 1 ELSE CHOOSE n \in ends : \A m \in ends : n <= m

BatchOffByOne(from, token) ==
  IF token # session THEN [kind |-> "NoHandshake"]
  ELSE IF from <= start THEN [kind |-> "NeedSnapshot"]
  ELSE [kind |-> "batch", frames |-> [i \in 1..BatchEnd(from) - from + 1 |-> FrameAt(from + i - 1)]]

Batch(from, token) ==
  IF token # session THEN [kind |-> "NoHandshake"]
  ELSE IF from < start THEN [kind |-> "NeedSnapshot"]
  ELSE [kind |-> "batch", frames |-> [i \in 1..BatchEnd(from) - from + 1 |-> FrameAt(from + i - 1)]]

\* make_snapshot_stream(): from the end of the snapshot back to the frame asked for, the last
\* version of every page; the last one sent ends the transaction.
SnapshotFrames(r, from) ==
  LET newest == {n \in r[1]..r[2] : \A m \in n + 1..r[2] : hist[m + 1].page # hist[n + 1].page}
      nos == SetToSortSeq({n \in newest : n >= from}, >)
  IN [i \in 1..Len(nos) |->
        [FrameAt(nos[i]) EXCEPT !.size = IF i = Len(nos) THEN SizeAt(r[2]) ELSE 0]]

(***************************************************************************)
(* Errors                                                                  *)
(***************************************************************************)
FailAtKeepsLast(state, committed) ==
  /\ st' = state /\ strm' = NoStream
  /\ buf' = <<>> /\ wal' = <<>> /\ todo' = -1
  /\ UNCHANGED last

\* The error path of try_replicate_step(): client and injector roll back.  The injector
\* keeps biggest_uncommitted_seen.
FailAt(state, committed) ==
  /\ st' = state /\ strm' = NoStream
  /\ buf' = <<>> /\ wal' = <<>> /\ todo' = -1
  /\ last' = IF Kind = "embedded" THEN committed ELSE last

Fail(state) == FailAt(state, meta.no)

\* The replica's database directory is removed and the namespace set up again.
StartOver ==
  /\ db' = <<>> /\ disk' = NoMeta /\ meta' = NoMeta
  /\ st' = "NeedHandshake" /\ strm' = NoStream
  /\ buf' = <<>> /\ wal' = <<>> /\ biggest' = 0 /\ todo' = -1
  /\ tok' = NoToken /\ last' = -1 /\ pre' = Nothing /\ dirty' = FALSE /\ index' = -1

Fault(kind) ==
  /\ kind \in FaultKinds \ faults /\ Cardinality(faults) < MaxFaults
  /\ faults' = faults \cup {kind}

(***************************************************************************)
(* Handshake                                                               *)
(***************************************************************************)
\* init_from_hello()
Compatible == meta.id \in {-1, id}

HelloMeta == IF meta.id = -1 THEN [id |-> id, no |-> -1] ELSE meta

\* The server's client: the meta file is not written.
ServerHandshake ==
  /\ Kind = "server" /\ st = "NeedHandshake"
  /\ \/ /\ Compatible
        /\ meta' = HelloMeta /\ tok' = session
        /\ st' = "NeedFrames"
        /\ UNCHANGED <<db, disk, strm, injector, last, pre, dirty, index>>
     \/ ~Compatible /\ StartOver
  /\ UNCHANGED <<logvars, session, faults>>

\* do_handshake_with_prefetch(): with a token of an earlier handshake the next batch is asked
\* for at the same time.  The answer may come before that of hello() ...
PrefetchAnswered ==
  /\ Kind = "embedded" /\ st = "NeedHandshake"
  /\ tok # NoToken /\ pre = Nothing
  /\ pre' = Batch(IF dirty THEN 0 ELSE last + 1, tok)
  /\ UNCHANGED <<logvars, session, faults, store, st, strm, injector, tok, last, dirty, index>>

\* ... and is kept unless the token turns out to be a new one; an answer that comes later is
\* that of FetchBatch.  A log of another id makes the client dirty, and the next handshake
\* forgets what was replicated.  The meta file may not get written.
EmbeddedHandshake ==
  /\ Kind = "embedded" /\ st = "NeedHandshake"
  /\ tok' = session
  /\ IF dirty \/ Compatible
       THEN /\ meta' = IF dirty THEN [id |-> id, no |-> -1] ELSE HelloMeta
            /\ dirty' = FALSE /\ index' = Len(hist) - 1
            /\ \/ /\ disk' = meta'
                  /\ pre' = IF tok = session THEN pre ELSE Nothing
                  /\ last' = IF dirty THEN -1 ELSE last
                  /\ st' = "NeedFrames"
                  /\ UNCHANGED <<strm, buf, wal, todo, faults>>
               \/ /\ Fault("meta")
                  /\ FailAt("NeedHandshake", meta'.no)
                  /\ pre' = Nothing
                  /\ UNCHANGED disk
       ELSE /\ dirty' = TRUE
            /\ Fail("NeedHandshake")
            /\ pre' = Nothing
            /\ UNCHANGED <<meta, disk, index, faults>>
  /\ UNCHANGED <<logvars, session, db, biggest>>

(***************************************************************************)
(* Frames                                                                  *)
(***************************************************************************)
OpenStreamIgnoresNoHandshake ==
  /\ Kind = "server" /\ st = "NeedFrames" /\ strm = NoStream
  /\ IF tok = session
       THEN /\ strm' = [kind |-> "log", id |-> id, session |-> session, next |-> meta.no + 1]
            /\ UNCHANGED <<st, injector, last>>
       ELSE Fail("NeedFrames") /\ UNCHANGED biggest
  /\ UNCHANGED <<logvars, session, faults, store, tok, pre, dirty, index>>

\* next_frames() of the server's client opens a stream at the next frame ...
OpenStream ==
  /\ Kind = "server" /\ st = "NeedFrames" /\ strm = NoStream
  /\ IF tok = session
       THEN /\ strm' = [kind |-> "log", id |-> id, session |-> session, next |-> meta.no + 1]
            /\ UNCHANGED <<st, injector, last>>
       ELSE Fail("NeedHandshake") /\ UNCHANGED biggest
  /\ UNCHANGED <<logvars, session, faults, store, tok, pre, dirty, index>>

\* ... which ends with an error when the frame is not in the log file any more.
StreamNeedsSnapshot ==
  /\ strm.kind = "log" /\ strm.session = session /\ todo = -1
  /\ strm.next < start
  /\ Fail("NeedSnapshot")
  /\ UNCHANGED <<logvars, session, faults, store, biggest, tok, pre, dirty, index>>

\* do_next_frames(): the prefetched answer, or a request.
FetchBatch ==
  /\ Kind = "embedded" /\ st = "NeedFrames" /\ strm = NoStream
  /\ LET answer == IF pre # Nothing THEN pre ELSE Batch(last + 1, tok) IN
     IF answer.kind = "batch"
       THEN /\ strm' = [kind |-> "batch", frames |-> answer.frames]
            /\ last' = IF answer.frames = <<>> THEN last ELSE Last(answer.frames).no
            /\ UNCHANGED <<st, injector>>
       ELSE /\ Fail(IF answer.kind = "NeedSnapshot" THEN "NeedSnapshot" ELSE "NeedHandshake")
            /\ UNCHANGED biggest
  /\ pre' = Nothing
  /\ UNCHANGED <<logvars, session, faults, store, tok, dirty, index>>

\* load_snapshot(): any snapshot that holds the next frame.  If there is none, the server's
\* client waits and the embedded one gives up until the next sync.
OpenSnapshot ==
  /\ st = "NeedSnapshot" /\ strm = NoStream
  /\ LET next == (IF Kind = "embedded" THEN last ELSE meta.no) + 1 IN
     IF tok # session THEN Fail("NeedHandshake")
     ELSE \/ /\ \E r \in snaps :
                  /\ Has(r, next)
                  /\ strm' = [kind |-> "snap", session |-> session, frames |-> SnapshotFrames(r, next)]
             /\ last' = IF Kind = "embedded" THEN Head(strm'.frames).no ELSE last
             /\ buf' = <<>> /\ wal' = <<>>
             /\ UNCHANGED <<st, todo>>
          \/ Kind = "embedded" /\ ~Ready(next) /\ Fail("NeedHandshake")
  /\ UNCHANGED <<logvars, session, faults, store, biggest, tok, pre, dirty, index>>

(***************************************************************************)
(* Injection                                                               *)
(***************************************************************************)
Max3(a, b, c) == IF a >= b /\ a >= c THEN a ELSE IF b >= c THEN b ELSE c

\* What the database is once the frames are in its WAL: the last one of a page counts.
Applied(frames, size) ==
  [p \in 1..size |->
     LET writes == {i \in DOMAIN frames : frames[i].page = p} IN
     IF writes # {} THEN frames[CHOOSE i \in writes : \A j \in writes : j <= i].ver
     ELSE IF p \in DOMAIN db THEN db[p] ELSE <<>>]

InjectForgetsFlushed(f) ==
  LET b == Append(buf, f)
      seen == Max3(biggest, Head(b).no, f.no)
  IN
  IF f.size # 0
    THEN /\ db' = Applied(b, f.size)
         /\ wal' = <<>> /\ buf' = <<>>
         /\ todo' = seen /\ biggest' = 0
  ELSE IF Len(b) >= Capacity
    THEN wal' = wal \o b /\ buf' = <<>> /\ biggest' = seen /\ UNCHANGED <<db, todo>>
    ELSE buf' = b /\ UNCHANGED <<db, wal, biggest, todo>>

\* inject_frame(): the buffer is flushed when it is full or the frame ends a transaction.
Inject(f) ==
  LET b == Append(buf, f)
      seen == Max3(biggest, Head(b).no, f.no)
  IN
  IF f.size # 0
    THEN /\ db' = Applied(wal \o b, f.size)
         /\ wal' = <<>> /\ buf' = <<>>
         /\ todo' = seen /\ biggest' = 0
  ELSE IF Len(b) >= Capacity
    THEN wal' = wal \o b /\ buf' = <<>> /\ biggest' = seen /\ UNCHANGED <<db, todo>>
    ELSE buf' = b /\ UNCHANGED <<db, wal, biggest, todo>>

\* The next frame of the stream is here.  A batch is in memory; the others need their primary.
Arrived ==
  /\ strm # NoStream /\ todo = -1
  /\ strm.kind = "log" => strm.session = session
  /\ strm.kind = "snap" => strm.session[1] = session[1]
  /\ IF strm.kind = "log" THEN start <= strm.next /\ strm.next < Len(hist) ELSE strm.frames # <<>>

NextFrame == IF strm.kind = "log" THEN FrameAt(strm.next) ELSE Head(strm.frames)

InjectNext ==
  /\ Arrived
  /\ Inject(NextFrame)
  /\ strm' = IF strm.kind = "log" THEN [strm EXCEPT !.next = @ + 1]
                                  ELSE [strm EXCEPT !.frames = Tail(@)]
  /\ UNCHANGED <<logvars, session, faults, disk, meta, st, client>>

SetInMemory ==
  /\ todo # -1
  /\ meta' = [meta EXCEPT !.no = todo]
  /\ UNCHANGED disk
  /\ todo' = -1
  /\ UNCHANGED <<logvars, session, faults, db, st, strm, buf, wal, biggest, client>>

\* commit_frame_no(): the number is recorded after the commit.
SetCommitFrameNo ==
  /\ todo # -1
  /\ meta' = [meta EXCEPT !.no = todo]
  /\ disk' = meta'
  /\ todo' = -1
  /\ UNCHANGED <<logvars, session, faults, db, st, strm, buf, wal, biggest, client>>

\* The end of a batch or of a snapshot.  sync_oneshot() goes on until it has everything the
\* primary had at the handshake.
StreamEnds ==
  /\ strm.kind \in {"batch", "snap"} /\ strm.frames = <<>> /\ todo = -1
  /\ strm' = NoStream
  /\ st' = IF strm.kind = "batch" /\ meta.no >= index THEN "Exit" ELSE "NeedFrames"
  /\ UNCHANGED <<logvars, session, faults, store, injector, client>>

\* sync_oneshot() is called again: force_handshake().
Sync ==
  /\ st = "Exit"
  /\ st' = "NeedHandshake"
  /\ UNCHANGED <<logvars, session, faults, store, strm, injector, client>>

(***************************************************************************)
(* Faults                                                                  *)
(***************************************************************************)
\* A stream of an earlier process of the primary is gone.  When the configuration changes, the
\* stream of the log ends without an error, in the middle of a transaction if need be.
StreamClosed ==
  /\ todo = -1
  /\ \/ /\ strm.kind \in {"log", "snap"} /\ strm.session[1] # session[1]
        /\ Fail("NeedHandshake") /\ UNCHANGED biggest
     \/ /\ strm.kind = "log" /\ strm.session[1] = session[1] /\ strm.session # session
        /\ strm' = NoStream
        /\ UNCHANGED <<st, injector, last>>
  /\ UNCHANGED <<logvars, session, faults, store, tok, pre, dirty, index>>

\* The connection is lost.
StreamBreaks ==
  /\ strm.kind \in {"log", "snap"} /\ todo = -1 /\ Fault("stream")
  /\ Fail("NeedHandshake")
  /\ UNCHANGED <<logvars, session, store, biggest, tok, pre, dirty, index>>

\* flush() fails and clears biggest_uncommitted_seen: the server starts over, the embedded
\* replica reports the error.
InjectFails ==
  /\ Arrived /\ (NextFrame.size # 0 \/ Len(buf) + 1 >= Capacity) /\ Fault("inject")
  /\ IF Kind = "server" THEN StartOver
     ELSE Fail("NeedHandshake") /\ biggest' = 0 /\ UNCHANGED <<store, tok, pre, dirty, index>>
  /\ UNCHANGED <<logvars, session>>

\* The meta file cannot be written: "non-fatal replication error".
MetaFails ==
  /\ todo # -1 /\ Fault("meta")
  /\ meta' = [meta EXCEPT !.no = todo]
  /\ FailAt("NeedHandshake", todo)
  /\ UNCHANGED <<logvars, session, db, disk, biggest, tok, pre, dirty, index>>

\* The replica's process stops and starts again.
Crash ==
  /\ Fault("crash")
  /\ meta' = disk
  /\ st' = "NeedHandshake" /\ strm' = NoStream
  /\ buf' = <<>> /\ wal' = <<>> /\ biggest' = 0 /\ todo' = -1
  /\ tok' = NoToken /\ last' = (IF Kind = "embedded" THEN disk.no ELSE -1)
  /\ pre' = Nothing /\ dirty' = FALSE /\ index' = -1
  /\ UNCHANGED <<logvars, session, db, disk>>

\* The future of sync_oneshot() is dropped; the replicator stays as it is.
Cancel ==
  /\ Kind = "embedded" /\ st \in {"NeedFrames", "NeedSnapshot"} /\ Fault("cancel")
  /\ st' = "NeedHandshake" /\ strm' = NoStream /\ todo' = -1
  /\ UNCHANGED <<logvars, session, store, buf, wal, biggest, client>>

(***************************************************************************)
(* Specification                                                           *)
(***************************************************************************)
Replicate ==
  \/ ServerHandshake \/ PrefetchAnswered \/ EmbeddedHandshake
  \/ OpenStream \/ StreamNeedsSnapshot \/ FetchBatch \/ OpenSnapshot
  \/ InjectNext \/ SetCommitFrameNo \/ StreamEnds \/ StreamClosed \/ Sync

ReplicaNext ==
  \/ Primary \/ NewSession
  \/ Replicate
  \/ StreamBreaks \/ InjectFails \/ MetaFails \/ Crash \/ Cancel

ReplicaSpec == ReplicaInit /\ [][ReplicaNext]_repvars

\* The replica's task runs, and the primary's compactor publishes what it has to.
ReplicaLive ==
  /\ ReplicaSpec
  /\ WF_repvars(Replicate)
  /\ WF_repvars((\E r \in pend : r \notin snaps /\ Publish(r)) /\ UNCHANGED <<session, faults, replica>>)

(***************************************************************************)
(* Properties                                                              *)
(***************************************************************************)
Version == {<<>>} \cup ((0..MaxResets) \X (0..MaxFrames - 1))

\* The types of the replica's variables.
ReplicaTypeOK ==
  /\ session \in Nat \X Nat /\ faults \subseteq FaultKinds
  /\ db \in Seq(Version)
  /\ {disk, meta} \subseteq [id : -1..MaxResets, no : -1..MaxFrames - 1]
  /\ st \in {"NeedHandshake", "NeedFrames", "NeedSnapshot", "Exit"}
  /\ strm.kind \in {"none", "log", "batch", "snap"}
  /\ Len(buf) < Capacity
  /\ biggest \in 0..MaxFrames - 1 /\ todo \in -1..MaxFrames - 1
  /\ (tok = NoToken \/ tok \in Nat \X Nat) /\ last \in -1..MaxFrames - 1
  /\ pre.kind \in {"nothing", "batch", "NoHandshake", "NeedSnapshot"}
  /\ dirty \in BOOLEAN /\ index \in -1..MaxFrames - 1

\* The primary's database after frame n.
Content(n) ==
  [p \in 1..SizeAt(n) |->
     <<id, CHOOSE k \in 0..n : /\ hist[k + 1].page = p
                               /\ \A m \in k + 1..n : hist[m + 1].page # p>>]

CommitPoint(n) == n \in 0..Len(hist) - 1 /\ hist[n + 1].size # 0

\* The replica's database is a state the primary's database was in, and not an older one than
\* the meta file says: no frame is skipped, none is applied to the wrong state, and a reader
\* of the replica never sees half of a transaction or of a snapshot.  (Not so once a sync was
\* abandoned half-way, which keeps the frames it had buffered.)
ReplicaIsExact ==
  meta.id = id /\ meta.no >= 0 /\ "cancel" \notin faults =>
    \E n \in meta.no..Len(hist) - 1 : CommitPoint(n) /\ db = Content(n)

\* v is an earlier version than u, of the same log.
Older(v, u) == u # <<>> /\ (v = <<>> \/ (v[1] = u[1] /\ v[2] < u[2]))

\* While a replica follows one log no page of its database goes back to an earlier version,
\* whatever is interrupted between a commit and the recording of its frame number and however
\* much is then applied again: its readers never see the past.  (Not so when the replica's
\* process crashes and there also was a sync that was abandoned half-way or a meta file that
\* could not be written: it then starts again several transactions back.)
NeverGoesBack ==
  [][meta'.id = meta.id /\ ("crash" \in faults => {"meta", "cancel"} \cap faults = {}) =>
       \A p \in DOMAIN db \cap DOMAIN db' : ~Older(db'[p], db[p])]_repvars

\* A replica gets everything the primary has, once primary and network are left alone.
CatchesUp ==
  <>[]( \/ "cancel" \in faults
        \/ meta.id = id /\ meta.no = Len(hist) - 1 /\ (hist # <<>> => db = Content(meta.no)))

=============================================================================
