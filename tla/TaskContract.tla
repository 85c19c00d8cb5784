---------------------------- MODULE TaskContract ----------------------------
(***************************************************************************)
(* What the task store promises to the rest of the coordinator, without    *)
(* nodes' loads, deadlines, attempts or transactions: the statuses a task  *)
(* goes through and the results nodes report.  TaskStore implements it;    *)
(* Pipeline builds on it.                                                  *)
(***************************************************************************)
EXTENDS Integers, FiniteSets

CONSTANTS Node, Task, MaxAttempts

VARIABLES status, result

taskVars == <<status, result>>

ContractTypeOK ==
  /\ status \in [Task -> {"absent", "queued", "assigned", "succeeded", "failed"}]
  /\ result \in [Task -> [Node -> {"none", "success", "failure"}]]

ContractInit ==
  /\ status = [t \in Task |-> "absent"]
  /\ result = [t \in Task |-> [n \in Node |-> "none"]]

FailedAt(t) == {n \in Node : result[t][n] = "failure"}

SetStatus(S, s) == status' = [t \in Task |-> IF t \in S THEN s ELSE status[t]]

(* New tasks are queued. *)
Insert(S) ==
  /\ \A t \in S : status[t] = "absent"
  /\ SetStatus(S, "queued")
  /\ UNCHANGED result

(* The scheduler assigns a task: one that was queued when it looked. *)
Assign(t) ==
  /\ status[t] # "absent"
  /\ SetStatus({t}, "assigned")
  /\ UNCHANGED result

(* Recovery gives assigned tasks back to the queue. *)
Requeue(S) ==
  /\ \A t \in S : status[t] = "assigned"
  /\ SetStatus(S, "queued")
  /\ UNCHANGED result

(* A node reports a task for the first time. *)
Report(t, n, outcome) ==
  /\ status[t] # "absent" /\ result[t][n] = "none"
  /\ result' = [result EXCEPT ![t][n] = outcome]

Succeed(t, n) == Report(t, n, "success") /\ SetStatus({t}, "succeeded")

(* A failure for good needs max_attempts nodes that failed, this one included. *)
Fail(t, n) ==
  /\ Report(t, n, "failure")
  /\ \/ SetStatus({t}, "queued")
     \/ /\ MaxAttempts[t] <= Cardinality(FailedAt(t)')
        /\ SetStatus({t}, "failed")

ContractNext ==
  \/ \E S \in SUBSET Task : Insert(S) \/ Requeue(S)
  \/ \E t \in Task : Assign(t) \/ \E n \in Node : Succeed(t, n) \/ Fail(t, n)

ContractSpec == ContractInit /\ [][ContractNext]_taskVars
=============================================================================
