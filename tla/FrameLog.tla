------------------------------ MODULE FrameLog ------------------------------
(***************************************************************************)
(* What the replication log of a primary promises to its readers.          *)
(*                                                                         *)
(* A log is identified by its id and is an ever growing sequence of        *)
(* frames, frame number n being hist[n + 1].  The frames from start on are *)
(* in the current log file; those before it were compacted: a range of     *)
(* them is first a log file that waits for the compactor (pend) and then a *)
(* snapshot (snaps), which holds the last version of every page the range  *)
(* wrote.  Snapshots are merged into wider ones.  A log that cannot be     *)
(* trusted any more is given up for a new one with another id, made from   *)
(* the database.                                                           *)
(*                                                                         *)
(* ReplicationLog implements this module; Replica reads from it.           *)
(***************************************************************************)
EXTENDS Integers, Sequences

CONSTANT Frame   \* page number, contents and, on the last frame of a transaction, size

VARIABLES id, hist, start, pend, snaps

logvars == <<id, hist, start, pend, snaps>>

\* A range of frame numbers, both ends included.
Span == {r \in Nat \X Nat : r[1] <= r[2]}

Has(r, n) == r[1] <= n /\ n <= r[2]

Within(r, q) == q[1] <= r[1] /\ r[2] <= q[2]

Init ==
  /\ id = 0
  /\ hist = <<>>
  /\ start = 0
  /\ pend = {}
  /\ snaps = {}

\* A transaction is appended, all of it.
Commit(t) ==
  /\ t # <<>>
  /\ hist' = hist \o t
  /\ UNCHANGED <<id, start, pend, snaps>>

\* The log file is swapped with an empty one.
Compact ==
  /\ start < Len(hist)
  /\ pend' = pend \cup {<<start, Len(hist) - 1>>}
  /\ start' = Len(hist)
  /\ UNCHANGED <<id, hist, snaps>>

\* A waiting log file was turned into a snapshot.
Publish(r) ==
  /\ r \in pend
  /\ snaps' = snaps \cup {r}
  /\ UNCHANGED <<id, hist, start, pend>>

\* A wider snapshot that holds everything from the start of a to the end of b.
Merge(a, b) ==
  /\ a \in snaps
  /\ b \in snaps
  /\ a[1] <= b[1] /\ a[2] <= b[2]
  /\ snaps' = snaps \cup {<<a[1], b[2]>>}
  /\ UNCHANGED <<id, hist, start, pend>>

\* A log file is removed once a snapshot holds all of it ...
RemoveFile(r) ==
  /\ r \in pend
  /\ \E q \in snaps : Within(r, q)
  /\ pend' = pend \ {r}
  /\ UNCHANGED <<id, hist, start, snaps>>

\* ... and a snapshot once another one does.  merge_snapshots() does not look for the other
\* one: it removes what it has just merged, and that this is enough is part of the promise.
RemoveSnapshot(r) ==
  /\ r \in snaps
  /\ \E q \in snaps \ {r} : Within(r, q)
  /\ snaps' = snaps \ {r}
  /\ UNCHANGED <<id, hist, start, pend>>

\* The log is given up for a new one.
Reset(t) ==
  /\ id' = id + 1
  /\ hist' = t
  /\ start' = 0
  /\ pend' = {}
  /\ snaps' = {}

Next ==
  \/ hist' \in Seq(Frame) /\ Commit(SubSeq(hist', Len(hist) + 1, Len(hist')))
  \/ Compact
  \/ \E r \in pend : Publish(r)
  \/ \E a, b \in snaps : Merge(a, b)
  \/ \E r \in pend : RemoveFile(r)
  \/ \E r \in snaps : RemoveSnapshot(r)
  \/ hist' \in Seq(Frame) /\ Reset(hist')

Spec == Init /\ [][Next]_logvars

(***************************************************************************)
(* Properties                                                              *)
(***************************************************************************)
\* The types of the variables; what was compacted lies before the log file.
LogTypeOK ==
  /\ id \in Nat
  /\ hist \in Seq(Frame)
  /\ start \in 0..Len(hist)
  /\ pend \subseteq Span
  /\ snaps \subseteq Span
  /\ \A r \in pend \cup snaps : r[2] < start

\* A frame that is not in the log file any more is in a snapshot or in a log file that waits
\* for the compactor: no reader is told to wait for a snapshot nobody can make.
Covered == \A n \in 0..start - 1 : \E r \in pend \cup snaps : Has(r, n)

\* Frame n can be had from a snapshot, as find_snapshot_file() looks for it.
Ready(n) == \E r \in snaps : Has(r, n)

=============================================================================
