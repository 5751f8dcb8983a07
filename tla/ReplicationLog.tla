--------------------------- MODULE ReplicationLog ---------------------------
(***************************************************************************)
(* The replication log of one namespace on a primary: the WAL wrapper that *)
(* shadows SQLite's WAL into the log (replication_logger_wal.rs), the log  *)
(* file and its recovery (logger.rs), the compactor task that turns full   *)
(* log files into snapshots and the merger task that merges snapshots      *)
(* (snapshot.rs), across restarts and crashes of the process.              *)
(*                                                                         *)
(* A page's data is the number of the transaction that wrote it.  id, hist *)
(* are history: the log's identity and every frame committed under it.     *)
(***************************************************************************)
EXTENDS Integers, SequencesExt, FiniteSets

CONSTANTS
  Starts,         \* the databases a namespace may start with: none, or one of a backup
  Writes,         \* what a transaction may write: [pages : Seq(page), size : db size after it]
  MaxLogFrames,   \* LogFile::max_log_frame_count
  Timed,          \* whether max_log_duration is set, so that a log is compacted at any time
  MaxSnapshots,   \* MAX_SNAPSHOT_NUMBER
  QueueSize,      \* capacity of the compactor's channel
  Shrinks,        \* whether a transaction (VACUUM) may make the database smaller
  MaxTxns, MaxOpens, MaxFaults   \* bounds: transactions, process starts, I/O errors

ASSUME BoundsAssumption ==
  /\ MaxLogFrames \in Nat /\ MaxSnapshots \in Nat /\ QueueSize \in Nat \ {0}
  /\ {Timed, Shrinks} \subseteq BOOLEAN
  /\ {MaxTxns, MaxOpens, MaxFaults} \subseteq Nat

VARIABLES
  db,        \* SQLite's committed database: the data of each page
  log,       \* the wallog file: its first frame number and its committed frames
  files,     \* the log files in to_compact/
  snaps,     \* the files in snapshots/
  sentinel,  \* whether .sentinel exists
  id, hist,  \* history
  torn,      \* history: the log was closed as clean between the two commits of a transaction
  doubled,   \* history: the merger was told of some frames twice, by the directory and by files
  proc, opens, faults, ver,
  w, txn,    \* the connection that holds SQLite's write lock, and its transaction
  unc,       \* frames written after the committed ones
  tick,      \* run_periodic_compactions
  pending, queue, cpc, cjob,   \* compactor: found at startup, channel, program point, log file
  mpc, mlist, mchan, job       \* merger: state, snapshot list, channel, running merge

disk == <<db, log, files, snaps, sentinel, id, hist, torn>>
process == <<proc, opens, faults, ver>>
writer == <<w, txn, unc>>
compactor == <<pending, queue, cpc, cjob>>
merger == <<mpc, mlist, mchan, job, doubled>>
vars == <<disk, process, writer, tick, compactor, merger>>

\* SNAPHOT_SPACE_AMPLIFICATION_FACTOR
Amplification == 2

NoTxn == [pages |-> <<>>, size |-> 0]
NoFile == [start |-> 0, frames |-> <<>>]
NoJob == [pc |-> "none", list |-> <<>>]

\* Nothing of the running process survives it.
Volatile ==
  /\ w' = "idle" /\ txn' = NoTxn /\ unc' = <<>> /\ tick' = "idle"
  /\ queue' = <<>> /\ cpc' = "idle" /\ cjob' = NoFile
  /\ mpc' = "init" /\ mlist' = <<>> /\ mchan' = <<>> /\ job' = NoJob /\ doubled' = FALSE

\* There is no log yet.
Init ==
  /\ db \in Starts /\ log = NoFile /\ files = {} /\ snaps = {} /\ sentinel = FALSE
  /\ id = 0 /\ hist = <<>> /\ torn = FALSE
  /\ proc = "down" /\ opens = 0 /\ faults = 0 /\ ver = 0
  /\ w = "idle" /\ txn = NoTxn /\ unc = <<>> /\ tick = "idle"
  /\ pending = <<>> /\ queue = <<>> /\ cpc = "idle" /\ cjob = NoFile
  /\ mpc = "init" /\ mlist = <<>> /\ mchan = <<>> /\ job = NoJob /\ doubled = FALSE

(***************************************************************************)
(* Opening, recovering and stopping                                        *)
(***************************************************************************)
LastNo(f) == f.start + Len(f.frames) - 1

\* pending_snapshots_list, sorted by first frame number.
PendingLogs == SetToSortSeq(files, LAMBDA f, g : f.start < g.start)

\* .sentinel was left by an earlier process, or there is a database and no log file yet.
Dirty == sentinel \/ opens = 0

OpenDirtyKeepsId ==
  /\ proc = "down" /\ opens < MaxOpens
  /\ Dirty /\ db # <<>>
  /\ sentinel' = TRUE
  /\ opens' = opens + 1 /\ proc' = "recover"
  /\ log' = NoFile /\ files' = {} /\ snaps' = {}
  /\ UNCHANGED id /\ hist' = <<>> /\ torn' = FALSE
  /\ UNCHANGED <<db, faults, ver, writer, tick, compactor, merger>>

\* ReplicationLogger::open.  A log that is dirty, or missing, is reset under a new id, and
\* snapshots/ and to_compact/ are removed, which is taken to succeed ...
OpenDirty ==
  /\ proc = "down" /\ opens < MaxOpens
  /\ Dirty /\ db # <<>>
  /\ sentinel' = TRUE
  /\ opens' = opens + 1 /\ proc' = "recover"
  /\ log' = NoFile /\ files' = {} /\ snaps' = {}
  /\ id' = id + 1 /\ hist' = <<>> /\ torn' = FALSE
  /\ UNCHANGED <<db, faults, ver, writer, tick, compactor, merger>>

\* ... unless there is no database.
OpenLog ==
  /\ proc = "down" /\ opens < MaxOpens
  /\ ~Dirty \/ db = <<>>
  /\ sentinel' = TRUE
  /\ opens' = opens + 1 /\ proc' = "up"
  /\ pending' = PendingLogs
  /\ UNCHANGED <<db, log, files, snaps, id, hist, torn, faults, ver, writer, tick,
                 queue, cpc, cjob, merger>>

\* The second half of recover(): one frame per page of the checkpointed database.
Recover ==
  /\ proc = "recover"
  /\ hist' = [p \in 1..Len(db) |-> [no |-> p - 1, page |-> p, data |-> db[p],
                                    size |-> IF p = Len(db) THEN p ELSE 0]]
  /\ log' = [start |-> 0, frames |-> hist']
  /\ proc' = "up"
  /\ UNCHANGED <<db, files, snaps, sentinel, id, torn, opens, faults, ver,
                 writer, tick, compactor, merger>>

\* No frame is in two of the files that a process finds when it starts.
NoOverlap ==
  /\ \A r, s \in snaps : r = s \/ r.end < s.start \/ s.end < r.start
  /\ \A f \in files, s \in snaps : LastNo(f) < s.start \/ s.end < f.start

\* Namespace::shutdown and the end of the process.  Nobody waits for the connections (the
\* namespaces are shut down before the services are), for the compactor or for the merger.
Exit ==
  /\ proc = "up"
  /\ opens < MaxOpens
  /\ sentinel' = FALSE
  /\ torn' = (torn \/ w = "inserted")
  /\ proc' = "down"
  /\ Volatile
  /\ pending' = <<>>
  /\ UNCHANGED <<db, log, files, snaps, id, hist, opens, faults, ver>>

\* The process is killed, or aborts.
Stop ==
  /\ proc' = "down"
  /\ Volatile
  /\ pending' = <<>>
  /\ UNCHANGED <<disk, opens, faults, ver>>

Crash == proc # "down" /\ opens < MaxOpens /\ Stop

(***************************************************************************)
(* The WAL wrapper: one transaction at a time, SQLite's write lock         *)
(***************************************************************************)
\* The frames push_page() writes for the given pages.
FramesOf(pages, size) ==
  LET next == log.start + Len(log.frames) + Len(unc) IN
  [i \in 1..Len(pages) |-> [no |-> next + i - 1, page |-> pages[i], data |-> ver',
                            size |-> IF i = Len(pages) THEN size ELSE 0]]

\* A transaction SQLite can make: new pages are written, no page is beyond the end.
Fits(t) ==
  /\ t.size >= Len(db) \/ Shrinks
  /\ \A i \in DOMAIN t.pages : t.pages[i] <= t.size
  /\ \A p \in Len(db) + 1..t.size : Contains(t.pages, p)

\* The periodic compaction waits for room in the channel with log_file locked.
LogFree == proc = "up" /\ tick # "sending"

Pages(t, point) == IF point = "spilled" THEN Tail(t.pages) ELSE t.pages

\* insert_frames() of a cache spill: the page goes to the log and the WAL, uncommitted.
Spill(t) ==
  /\ LogFree /\ w = "idle" /\ ver < MaxTxns
  /\ Fits(t) /\ Len(t.pages) > 1
  /\ ver' = ver + 1
  /\ unc' = FramesOf(<<Head(t.pages)>>, 0)
  /\ w' = "spilled" /\ txn' = t
  /\ UNCHANGED <<disk, proc, opens, faults, tick, compactor, merger>>

\* insert_frames() of a commit: first the pages are written to the log ...
Flush(t) ==
  /\ LogFree
  /\ \/ w = "idle" /\ ver < MaxTxns /\ Fits(t) /\ ver' = ver + 1
     \/ w = "spilled" /\ t = txn /\ ver' = ver
  /\ unc' = unc \o FramesOf(Pages(t, w), t.size)
  /\ w' = "flushed" /\ txn' = t
  /\ UNCHANGED <<disk, proc, opens, faults, tick, compactor, merger>>

UndoKeepsFrames ==
  /\ LogFree /\ w \in {"spilled", "flushed"}
  /\ UNCHANGED unc
  /\ w' = "idle" /\ txn' = NoTxn
  /\ UNCHANGED <<disk, process, tick, compactor, merger>>

\* undo(): a ROLLBACK, or SQLite's answer to an error of insert_frames().
Undo ==
  /\ LogFree /\ w \in {"spilled", "flushed"}
  /\ unc' = <<>>
  /\ w' = "idle" /\ txn' = NoTxn
  /\ UNCHANGED <<disk, process, tick, compactor, merger>>

\* ... then the wrapped WAL commits them: the transaction is in the database ...
WalCommit ==
  /\ proc = "up" /\ w = "flushed"
  /\ db' = [p \in 1..txn.size |-> IF Contains(txn.pages, p) THEN ver ELSE db[p]]
  /\ w' = "inserted"
  /\ UNCHANGED <<log, files, snaps, sentinel, id, hist, torn, process, txn, unc,
                 tick, compactor, merger>>

\* ... and the log's header is updated and the new frame number announced.  A failure
\* aborts the process (Crash).
LogCommit ==
  /\ LogFree /\ w = "inserted"
  /\ log' = [log EXCEPT !.frames = @ \o unc]
  /\ hist' = hist \o unc
  /\ unc' = <<>> /\ txn' = NoTxn
  /\ w' = "committed"
  /\ UNCHANGED <<db, files, snaps, sentinel, id, torn, process, tick, compactor, merger>>

(***************************************************************************)
(* Compaction of the log file                                              *)
(***************************************************************************)
ShouldCompact == (Timed \/ Len(log.frames) > MaxLogFrames) /\ unc = <<>>

SwapLogKeepsStart ==
  /\ log.frames # <<>>
  /\ files' = files \cup {log}
  /\ log' = [start |-> log.start, frames |-> <<>>]
  /\ UNCHANGED <<db, snaps, sentinel, id, hist, torn>>

\* do_compaction(): the log file is exchanged with an empty one in to_compact/.
SwapLog ==
  /\ log.frames # <<>>
  /\ files' = files \cup {log}
  /\ log' = [start |-> LastNo(log) + 1, frames |-> <<>>]
  /\ UNCHANGED <<db, snaps, sentinel, id, hist, torn>>

\* The log file that was just swapped out; log_file stays locked until it is sent.
Swapped == CHOOSE f \in files : LastNo(f) + 1 = log.start

\* The committing connection compacts if it should ...
WriterCompacts ==
  /\ LogFree /\ w = "committed"
  /\ ShouldCompact /\ SwapLog
  /\ w' = "sending"
  /\ UNCHANGED <<process, txn, unc, tick, compactor, merger>>

WriterDone ==
  /\ LogFree /\ w = "committed"
  /\ Len(log.frames) <= MaxLogFrames
  /\ w' = "idle"
  /\ UNCHANGED <<disk, process, txn, unc, tick, compactor, merger>>

\* ... and waits for room in the compactor's channel ...
WriterSends ==
  /\ w = "sending" /\ cpc # "dead" /\ Len(queue) < QueueSize
  /\ queue' = Append(queue, Swapped)
  /\ w' = "idle"
  /\ UNCHANGED <<disk, process, txn, unc, tick, pending, cpc, cjob, merger>>

\* ... and aborts the process when the compactor is gone.
WriterAborts == w = "sending" /\ cpc = "dead" /\ Stop

\* ReplicationLogger::maybe_compact, every second.
TickCompacts ==
  /\ proc = "up" /\ tick = "idle" /\ w # "sending"
  /\ ShouldCompact /\ SwapLog
  /\ tick' = "sending"
  /\ UNCHANGED <<process, writer, compactor, merger>>

TickSends ==
  /\ tick = "sending" /\ cpc # "dead" /\ Len(queue) < QueueSize
  /\ queue' = Append(queue, Swapped)
  /\ tick' = "idle"
  /\ UNCHANGED <<disk, process, writer, pending, cpc, cjob, merger>>

\* An error ends the task, and nothing else.
TickFails ==
  /\ tick = "sending" /\ cpc = "dead"
  /\ tick' = "dead"
  /\ UNCHANGED <<disk, process, writer, compactor, merger>>

(***************************************************************************)
(* SnapshotBuilder                                                         *)
(***************************************************************************)
AppendFramesKeepsAll(frames) == [i \in DOMAIN frames |-> [frames[i] EXCEPT !.size = 0]]

\* append_frames(): the frames arrive newest first, and only the first one of each page is
\* kept, as a frame that does not commit.
AppendFrames(frames) ==
  LET New(i) == \A j \in 1..i - 1 : frames[j].page # frames[i].page
      kept == SelectSeq([i \in DOMAIN frames |-> i], New)
  IN [k \in DOMAIN kept |-> [frames[kept[k]] EXCEPT !.size = 0]]

\* assert!(frame_no < last_seen_frame_no)
Decreasing(frames) == \A i \in 1..Len(frames) - 1 : frames[i + 1].no < frames[i].no

\* finish(): rename over whatever had that name.
Renamed(s) == {r \in snaps : <<r.start, r.end>> # <<s.start, s.end>>} \cup {s}

Info(s) == [start |-> s.start, end |-> s.end, count |-> Len(s.frames)]

(***************************************************************************)
(* The compactor task                                                      *)
(***************************************************************************)
\* The next log file: those found at startup first, then the channel.
Take ==
  /\ proc = "up" /\ cpc = "idle"
  /\ \/ pending # <<>> /\ cjob' = Head(pending) /\ pending' = Tail(pending) /\ UNCHANGED queue
     \/ /\ pending = <<>> /\ queue # <<>>
        /\ cjob' = Head(queue) /\ queue' = Tail(queue) /\ UNCHANGED pending
  /\ cpc' = "build"
  /\ UNCHANGED <<disk, process, writer, tick, merger>>

SnapshotOf(f) ==
  [start |-> f.start, end |-> LastNo(f), size |-> Last(f.frames).size,
   frames |-> AppendFrames(Reverse(f.frames))]

\* perform_compaction()
Build ==
  /\ cpc = "build"
  /\ snaps' = Renamed(SnapshotOf(cjob))
  /\ cpc' = "register"
  /\ UNCHANGED <<db, log, files, sentinel, id, hist, torn, process, writer, tick,
                 pending, queue, cjob, merger>>

\* "fatal error creating snapshot", "failed to remove old log file": the task ends.
CompactFails ==
  /\ cpc \in {"build", "remove"} /\ faults < MaxFaults
  /\ faults' = faults + 1
  /\ cpc' = "dead" /\ pending' = <<>> /\ queue' = <<>> /\ cjob' = NoFile
  /\ UNCHANGED <<disk, proc, opens, ver, writer, tick, merger>>

MergerAlive == mpc \in {"init", "run"}

\* register_snapshot(): wait for room in the merger's channel.
Register ==
  /\ cpc = "register" /\ MergerAlive /\ mchan = <<>>
  /\ LET s == SnapshotOf(cjob) IN mchan' = <<[info |-> Info(s), pages |-> s.size]>>
  /\ cpc' = "remove"
  /\ UNCHANGED <<disk, process, writer, tick, pending, queue, cjob, mpc, mlist, job,
                 doubled>>

RegisterFailsWhenFull ==
  /\ cpc = "register" /\ (~MergerAlive \/ mchan # <<>>)
  /\ cpc' = "dead" /\ pending' = <<>> /\ queue' = <<>> /\ cjob' = NoFile
  /\ UNCHANGED <<disk, process, writer, tick, merger>>

\* The merger is gone: the task ends too.
RegisterFails ==
  /\ cpc = "register" /\ ~MergerAlive
  /\ cpc' = "dead" /\ pending' = <<>> /\ queue' = <<>> /\ cjob' = NoFile
  /\ UNCHANGED <<disk, process, writer, tick, merger>>

RemoveLog ==
  /\ cpc = "remove"
  /\ files' = files \ {cjob}
  /\ cpc' = "idle" /\ cjob' = NoFile
  /\ UNCHANGED <<db, log, snaps, sentinel, id, hist, torn, process, writer, tick,
                 pending, queue, merger>>

(***************************************************************************)
(* The merger task and the merge it runs                                   *)
(***************************************************************************)
\* init_snapshot_info_list(): what is in the directory, by first frame number.  The order
\* of two snapshots that start with the same frame is the directory's.
ListSnapshots ==
  /\ proc = "up" /\ mpc = "init"
  /\ \E order \in SetToSeqs({Info(s) : s \in snaps}) :
       /\ \A i \in 1..Len(order) - 1 : order[i].start <= order[i + 1].start
       /\ mlist' = order
  /\ doubled' = (~NoOverlap \/ mchan # <<>>)
  /\ mpc' = "run"
  /\ UNCHANGED <<disk, process, writer, tick, compactor, mchan, job>>

\* The loop ends with the error of the listing or of its job.
MergerEnds(how) ==
  /\ mpc' = how
  /\ job' = NoJob /\ mlist' = <<>> /\ mchan' = <<>>
  /\ UNCHANGED <<disk, proc, opens, ver, writer, tick, compactor, doubled>>

ListFails ==
  /\ proc = "up" /\ mpc = "init" /\ faults < MaxFaults
  /\ faults' = faults + 1
  /\ MergerEnds("failed")

ShouldMerge(list, pages) ==
  \/ FoldSeq(LAMBDA e, sum : sum + e.count, 0, list) >= Amplification * pages
  \/ Len(list) > MaxSnapshots

\* A new snapshot is appended; all of them are merged if no merge is running and it pays.
Recv ==
  /\ mpc = "run" /\ mchan # <<>>
  /\ LET list == Append(mlist, Head(mchan).info) IN
     IF job = NoJob /\ ShouldMerge(list, Head(mchan).pages)
       THEN job' = [pc |-> "merge", list |-> list] /\ mlist' = <<>>
       ELSE mlist' = list /\ UNCHANGED job
  /\ mchan' = <<>>
  /\ UNCHANGED <<disk, process, writer, tick, compactor, mpc, doubled>>

Named(e) == {s \in snaps : s.start = e.start /\ s.end = e.end}

FileOf(e) == CHOOSE s \in Named(e) : TRUE

\* The frames append_frames() gets, from the last snapshot of the list to the first.
Gathered(list) == FlattenSeq([i \in 1..Len(list) |-> FileOf(Reverse(list)[i]).frames])

MergedOf(list) ==
  [start |-> list[1].start, end |-> Last(list).end, size |-> FileOf(Last(list)).size,
   frames |-> AppendFrames(Gathered(list))]

\* merge_snapshots(), up to the rename.
MergeBuild ==
  /\ job.pc = "merge" /\ \A i \in DOMAIN job.list : Named(job.list[i]) # {}
  /\ Decreasing(Gathered(job.list))
  /\ snaps' = Renamed(MergedOf(job.list))
  /\ job' = [pc |-> "clean", list |-> job.list, merged |-> Info(MergedOf(job.list))]
  /\ UNCHANGED <<db, log, files, sentinel, id, hist, torn, process, writer, tick, compactor,
                 mpc, mlist, mchan, doubled>>

\* A snapshot to merge is not there, or an I/O error while they are merged or removed.
MergeFails ==
  /\ \/ /\ job.pc = "merge" /\ \E i \in DOMAIN job.list : Named(job.list[i]) = {}
        /\ UNCHANGED faults
     \/ job # NoJob /\ faults < MaxFaults /\ faults' = faults + 1
  /\ MergerEnds("failed")

\* append_frames() panics.
MergePanics ==
  /\ job.pc = "merge" /\ \A i \in DOMAIN job.list : Named(job.list[i]) # {}
  /\ ~Decreasing(Gathered(job.list))
  /\ MergerEnds("panicked") /\ UNCHANGED faults

\* The merged snapshots are removed one by one.
RemoveMerged ==
  /\ job.pc = "clean" /\ job.list # <<>> /\ Named(Head(job.list)) # {}
  /\ snaps' = snaps \ Named(Head(job.list))
  /\ job' = [job EXCEPT !.list = Tail(@)]
  /\ UNCHANGED <<db, log, files, sentinel, id, hist, torn, process, writer, tick, compactor,
                 mpc, mlist, mchan, doubled>>

MergeDoneAppends ==
  /\ job.pc = "clean" /\ job.list = <<>>
  /\ mlist' = mlist \o <<job.merged>>
  /\ job' = NoJob
  /\ UNCHANGED <<disk, process, writer, tick, compactor, mpc, mchan, doubled>>

\* "the new merged snapshot is prepended to the snapshot list"
MergeDone ==
  /\ job.pc = "clean" /\ job.list = <<>>
  /\ mlist' = <<job.merged>> \o mlist
  /\ job' = NoJob
  /\ UNCHANGED <<disk, process, writer, tick, compactor, mpc, mchan, doubled>>

(***************************************************************************)
(* Specification                                                           *)
(***************************************************************************)
Write ==
  \/ \E t \in Writes : Spill(t) \/ Flush(t)
  \/ Undo \/ WalCommit \/ LogCommit \/ WriterCompacts \/ WriterDone \/ WriterSends \/ WriterAborts

Background ==
  \/ TickSends \/ TickFails
  \/ Take \/ Build \/ Register \/ RegisterFails \/ RemoveLog
  \/ ListSnapshots \/ Recv \/ MergeBuild \/ MergeFails \/ MergePanics \/ RemoveMerged \/ MergeDone

\* Everything the bounds allow was done.
Rest ==
  /\ \/ proc = "down" /\ opens = MaxOpens
     \/ ver = MaxTxns /\ w = "idle" /\ tick # "sending" /\ cpc \in {"idle", "dead"}
  /\ UNCHANGED vars

Next ==
  \/ OpenDirty \/ OpenLog \/ Recover \/ Exit \/ Crash
  \/ Write \/ TickCompacts \/ Background \/ CompactFails \/ ListFails
  \/ Rest

Spec == Init /\ [][Next]_vars

\* The tasks run, and a connection that waits for the compactor goes on when it can.
LiveSpec ==
  /\ Spec
  /\ WF_vars(OpenDirty \/ OpenLog) /\ WF_vars(Recover)
  /\ WF_vars(WriterSends) /\ WF_vars(TickSends)
  /\ WF_vars(Take \/ Build \/ Register \/ RegisterFails \/ RemoveLog)
  /\ WF_vars(ListSnapshots \/ Recv)
  /\ WF_vars(MergeBuild \/ MergeFails \/ MergePanics \/ RemoveMerged \/ MergeDone)

(***************************************************************************)
(* Properties                                                              *)
(***************************************************************************)
Frame == [no : Nat, page : Nat, data : Nat, size : Nat]

\* The types of the variables.
TypeOK ==
  /\ db \in Seq(0..MaxTxns)
  /\ log.start \in Nat /\ log.frames \in Seq(Frame)
  /\ \A f \in files : f.start \in Nat /\ f.frames \in Seq(Frame) \ {<<>>}
  /\ \A s \in snaps : /\ s.start \in Nat /\ s.end \in Nat /\ s.size \in Nat
                      /\ s.frames \in Seq(Frame)
  /\ sentinel \in BOOLEAN /\ id \in Nat /\ hist \in Seq(Frame) /\ unc \in Seq(Frame)
  /\ proc \in {"down", "recover", "up"}
  /\ w \in {"idle", "spilled", "flushed", "inserted", "committed", "sending"}
  /\ tick \in {"idle", "sending", "dead"}
  /\ cpc \in {"idle", "build", "register", "remove", "dead"}
  /\ mpc \in {"init", "run", "failed", "panicked"}
  /\ Len(queue) <= QueueSize /\ Len(mchan) <= 1

\* The last version of every page that frames a to b wrote.
Newest(a, b) ==
  {f \in ToSet(hist) : /\ a <= f.no /\ f.no <= b
                       /\ \A g \in ToSet(hist) : f.no < g.no /\ g.no <= b => g.page # f.page}

\* Every snapshot that a replica can find holds exactly what its name says: of every page
\* that its range of frames wrote the last version, newest first, and the size of the
\* database after its last frame, however often and in whatever order log files were
\* compacted and snapshots merged, and whatever was interrupted.
SnapshotsAreExact ==
  \A s \in snaps :
    /\ s.end < Len(hist)
    /\ Decreasing(s.frames)
    /\ ToSet(s.frames) = {[f EXCEPT !.size = 0] : f \in Newest(s.start, s.end)}
    /\ s.size = hist[s.end + 1].size /\ s.size # 0

\* Replaying the log gives the database: at every moment but between the two commits of
\* insert_frames() the log is exactly the history of the database SQLite has, whatever was
\* rolled back, crashed or recovered.  The exception is a log that a shutdown closed as clean
\* between those two commits (torn): nobody waits for the connections, .sentinel is removed,
\* and the next process does not know that a transaction is missing from the log.
LogMirrorsDb ==
  proc = "up" /\ w # "inserted" /\ ~torn =>
    LET size == IF hist = <<>> THEN 0 ELSE Last(hist).size IN
    /\ size = Len(db)
    /\ \A f \in Newest(0, Len(hist) - 1) : f.page <= size => db[f.page] = f.data
    /\ \A p \in 1..size : \E f \in ToSet(hist) : f.page = p

\* get_frame() of a frame of the log file gives that frame of the history, and the log file
\* ends where the history ends, while frames are being written behind it.
LogFileIsSuffix ==
  proc = "up" => log.frames = SubSeq(hist, log.start + 1, Len(hist))

\* The merger ends only for a reason outside it: an I/O error, or a start at which it was
\* told of some frames twice (doubled), by its listing of the directory and once more: a merge
\* or a compaction that the last shutdown interrupted left both its input and its result, or
\* a compaction of this process ended before the listing.  Otherwise append_frames() sees
\* "Frames must be in decreasing frame_no order", and every snapshot to merge is there.
MergerSurvives ==
  /\ mpc = "panicked" => doubled
  /\ mpc = "failed" => doubled \/ faults > 0

\* What the log promises its readers: log files and snapshots as the ranges they hold.
Promise == INSTANCE FrameLog WITH
  start <- log.start,
  pend <- {<<f.start, LastNo(f)>> : f \in files},
  snaps <- {<<s.start, s.end>> : s \in snaps}

\* The log, its compactor and its merger implement FrameLog, across restarts and crashes.
PromiseKept == Promise!Spec

\* A frame that left the log file is in a snapshot or in a log file that waits for the
\* compactor: no replica is told to wait for a snapshot nobody can make.
NothingIsLost == Promise!Covered

\* error.rs of libsql-replication calls it "Snapshot not ready yet": a frame that was
\* compacted becomes available in a snapshot unless the process stops, the disk fails, or the
\* merger, told of some frames twice when it started, panicked or lost a file: the compactor
\* then ends at its next register_snapshot(), and what is compacted later is never ready.
SnapshotBecomesReady ==
  []<>(\/ proc # "up" \/ faults > 0 \/ (doubled /\ ~MergerAlive)
       \/ \A n \in 0..log.start - 1 : Promise!Ready(n))

=============================================================================
