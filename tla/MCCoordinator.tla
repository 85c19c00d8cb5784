--------------------------- MODULE MCCoordinator ---------------------------
(* Instances of Coordinator for TLC. *)
EXTENDS Coordinator

CONSTANTS n1, n2, t1, j1

(* One failure is final. *)
MCMaxAttempts == [t \in Task |-> 1]
MCPriority == [t \in Task |-> 1]
=============================================================================
