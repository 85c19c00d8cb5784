---------------------------- MODULE MCTaskStore ----------------------------
(* Instances of TaskStore for TLC. *)
EXTENDS TaskStore, TLC

CONSTANTS n1, n2, t1, t2

(* The second task may be retried once, and waits behind the first. *)
MCMaxAttempts == [t \in Task |-> IF t = t1 THEN 1 ELSE 2]
MCPriority == [t \in Task |-> IF t = t1 THEN 10 ELSE 5]
=============================================================================
