-------------------------- MODULE MCReplicationLog --------------------------
(* Small instances of ReplicationLog: a database of up to two pages. *)
EXTENDS ReplicationLog

SmallWrites == {[pages |-> <<1>>, size |-> 1],
                [pages |-> <<1, 2>>, size |-> 2],
                [pages |-> <<2>>, size |-> 2]}

GrowingWrites == {[pages |-> <<1>>, size |-> 1], [pages |-> <<1, 2>>, size |-> 2]}

NewDb == {<<>>}
NewOrRestoredDb == {<<>>, <<0>>}

=============================================================================
