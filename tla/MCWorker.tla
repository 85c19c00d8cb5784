------------------------------ MODULE MCWorker ------------------------------
(* Instances of Worker for TLC. *)
EXTENDS Worker, TLC

CONSTANTS n1, n2, t1, w1, w2

MCMaxAttempts == [t \in Task |-> 2]
MCPriority == [t \in Task |-> 10]

(* The defaults of WORKER_CPU, WORKER_RAM_MB and WORKER_SCORE. *)
MCHardware == [n \in Node |-> [cpuCores |-> 4, ramMb |-> 8192, performanceScore |-> 1]]

(* No definition tells nodes apart, nor processes. *)
MCSymmetry == Permutations(Node) \cup Permutations(Worker)
=============================================================================
