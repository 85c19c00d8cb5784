----------------------------- MODULE MCPipeline -----------------------------
(* Instances of Pipeline for TLC. *)
EXTENDS Pipeline, TLC

CONSTANTS n1, n2, n3, t1, j1, j2

MCMaxAttempts == [t \in Task |-> 1]

MCTwoAttempts == [t \in Task |-> 2]

(* Nodes differ in nothing. *)
MCNodeSymmetry == Permutations(Node)
=============================================================================
