--------------------------- MODULE FrameLogProofs ---------------------------
(***************************************************************************)
(* What FrameLog promises holds for every log: proofs of its properties.   *)
(***************************************************************************)
EXTENDS FrameLog, TLAPS

\* The empty log of a new namespace is well typed, and has nothing to cover.
LEMMA LogInit == Init => LogTypeOK /\ Covered
  BY DEF Init, LogTypeOK, Covered

\* Every step of a log keeps the types: frames are only appended, the log file starts after
\* everything that was compacted, and a merge of two ranges is a range.
LEMMA LogTypeStep == LogTypeOK /\ [Next]_logvars => LogTypeOK'
<1> SUFFICES ASSUME LogTypeOK, [Next]_logvars PROVE LogTypeOK'
  OBVIOUS
<1> USE DEF LogTypeOK, Span
<1>1. CASE hist' \in Seq(Frame) /\ Commit(SubSeq(hist', Len(hist) + 1, Len(hist')))
  <2> DEFINE t == SubSeq(hist', Len(hist) + 1, Len(hist'))
  <2>1. /\ hist' = hist \o t
        /\ UNCHANGED <<id, start, pend, snaps>>
    BY <1>1 DEF Commit
  <2>2. t \in Seq(Frame)
    BY <1>1
  <2>3. Len(hist') = Len(hist) + Len(t) /\ Len(t) \in Nat
    BY <2>1, <2>2
  <2> QED
    BY <1>1, <2>1, <2>3
<1>2. CASE Compact
  BY <1>2 DEF Compact
<1>3. ASSUME NEW r \in pend, Publish(r) PROVE LogTypeOK'
  BY <1>3 DEF Publish
<1>4. ASSUME NEW a \in snaps, NEW b \in snaps, Merge(a, b) PROVE LogTypeOK'
  BY <1>4 DEF Merge
<1>5. ASSUME NEW r \in pend, RemoveFile(r) PROVE LogTypeOK'
  BY <1>5 DEF RemoveFile
<1>6. ASSUME NEW r \in snaps, RemoveSnapshot(r) PROVE LogTypeOK'
  BY <1>6 DEF RemoveSnapshot
<1>7. CASE hist' \in Seq(Frame) /\ Reset(hist')
  BY <1>7 DEF Reset
<1>8. CASE UNCHANGED logvars
  BY <1>8 DEF logvars
<1> QED
  BY <1>1, <1>2, <1>3, <1>4, <1>5, <1>6, <1>7, <1>8 DEF Next

\* A range of frames can be given up if another one that holds all of it stays.
LEMMA StillHad ==
  ASSUME LogTypeOK, Covered, start' = start,
         NEW r \in pend \cup snaps, \A c \in pend \cup snaps : c # r => c \in pend' \cup snaps',
         NEW q \in snaps, q \in pend' \cup snaps', Within(r, q)
  PROVE  Covered'
<1>1. r \in Nat \X Nat /\ q \in Nat \X Nat /\ start \in Nat
  BY DEF LogTypeOK, Span
<1>2. ASSUME NEW n \in 0..start - 1 PROVE \E c \in pend' \cup snaps' : Has(c, n)
  <2>1. PICK c \in pend \cup snaps : Has(c, n)
    BY <1>2 DEF Covered
  <2>2. CASE c = r
    BY <1>1, <2>1, <2>2 DEF Within, Has
  <2> QED
    BY <2>1, <2>2
<1> QED
  BY <1>2 DEF Covered

\* Every step keeps the frames before the log file covered: a log file that is swapped out
\* joins the waiting ones, and what is removed is within another snapshot.
LEMMA CoveredStep == LogTypeOK /\ Covered /\ [Next]_logvars => Covered'
<1> SUFFICES ASSUME LogTypeOK, Covered, [Next]_logvars PROVE Covered'
  OBVIOUS
<1> USE DEF Covered, Has
<1>1. CASE hist' \in Seq(Frame) /\ Commit(SubSeq(hist', Len(hist) + 1, Len(hist')))
  BY <1>1 DEF Commit
<1>2. CASE Compact
  <2> DEFINE new == <<start, Len(hist) - 1>>
  <2>1. /\ start \in Nat /\ Len(hist) \in Nat
        /\ start' = Len(hist) /\ snaps' = snaps /\ pend' = pend \cup {new}
    BY <1>2 DEF Compact, LogTypeOK
  <2>2. new[1] = start /\ new[2] = Len(hist) - 1
    OBVIOUS
  <2> HIDE DEF new
  <2>3. ASSUME NEW n \in 0..start' - 1 PROVE \E r \in pend' \cup snaps' : Has(r, n)
    <3>1. CASE n < start
      BY <2>1, <2>3, <3>1
    <3>2. CASE ~(n < start)
      BY <2>1, <2>2, <2>3, <3>2
    <3> QED
      BY <3>1, <3>2
  <2> QED
    BY <2>3
<1>3. ASSUME NEW r \in pend, Publish(r) PROVE Covered'
  BY <1>3 DEF Publish
<1>4. ASSUME NEW a \in snaps, NEW b \in snaps, Merge(a, b) PROVE Covered'
  BY <1>4 DEF Merge
<1>5. ASSUME NEW r \in pend, RemoveFile(r) PROVE Covered'
  <2>1. start' = start
    BY <1>5 DEF RemoveFile
  <2>2. \A q \in pend \cup snaps : q # r => q \in pend' \cup snaps'
    BY <1>5 DEF RemoveFile
  <2>3. PICK q \in snaps : q \in pend' \cup snaps' /\ Within(r, q)
    BY <1>5 DEF RemoveFile
  <2> QED
    BY <2>1, <2>2, <2>3, StillHad
<1>6. ASSUME NEW r \in snaps, RemoveSnapshot(r) PROVE Covered'
  <2>1. start' = start
    BY <1>6 DEF RemoveSnapshot
  <2>2. \A q \in pend \cup snaps : q # r => q \in pend' \cup snaps'
    BY <1>6 DEF RemoveSnapshot
  <2>3. PICK q \in snaps : q \in pend' \cup snaps' /\ Within(r, q)
    BY <1>6 DEF RemoveSnapshot
  <2> QED
    BY <2>1, <2>2, <2>3, StillHad
<1>7. CASE hist' \in Seq(Frame) /\ Reset(hist')
  BY <1>7 DEF Reset
<1>8. CASE UNCHANGED logvars
  BY <1>8 DEF logvars
<1> QED
  BY <1>1, <1>2, <1>3, <1>4, <1>5, <1>6, <1>7, <1>8 DEF Next

\* The log is well typed, and what was compacted lies before the log file, always.
THEOREM LogTypeCorrect == Spec => []LogTypeOK
  BY LogInit, LogTypeStep, PTL DEF Spec

\* For every sequence of commits, compactions, merges, removals and resets, a frame that left
\* the log file is in a snapshot or in a log file that waits for the compactor.
THEOREM AlwaysCovered == Spec => []Covered
  BY LogInit, LogTypeStep, CoveredStep, PTL DEF Spec

=============================================================================
