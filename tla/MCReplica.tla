----------------------------- MODULE MCReplica -----------------------------
(* Small instances of Replica: a database of up to two pages. *)
EXTENDS Replica

SmallFrames == [page : 1..2, size : 0..2]

SmallTxns == {<<[page |-> 1, size |-> 1]>>,
              <<[page |-> 2, size |-> 0], [page |-> 1, size |-> 2]>>,
              <<[page |-> 2, size |-> 2]>>}

TwoTxns == {<<[page |-> 1, size |-> 1]>>,
            <<[page |-> 2, size |-> 0], [page |-> 1, size |-> 2]>>}

=============================================================================
