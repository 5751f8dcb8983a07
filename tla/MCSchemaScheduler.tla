------------------------- MODULE MCSchemaScheduler -------------------------
(* A small instance of SchemaScheduler: one schema with two linked databases. *)
EXTENDS SchemaScheduler

CONSTANTS s1, n1, n2

TwoLinked == [s \in {s1} |-> {n1, n2}]
=============================================================================
