-------------------------- MODULE MCNotifyPipeline --------------------------
(* Instances of NotifyPipeline for TLC: a row for everybody and a row for one *)
(* person; a .cfg makes one of them unknown or without a queue.              *)
EXTENDS NotifyPipeline, TLC

CONSTANTS n1, n2, p1, p2

Lists == [n \in Notes |-> IF n = n1 THEN Persons ELSE {p1}]

=============================================================================
