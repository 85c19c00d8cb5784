----------------------------- MODULE TaskStore -----------------------------
(***************************************************************************)
(* The coordinator's database of nodes, tasks and task results, and every  *)
(* operation on it: the HTTP handlers of the worker API, which run         *)
(* concurrently on the I/O threads, and the periodic tick of               *)
(* RecoveryService, which runs on the main loop.  A transaction is one     *)
(* step, unless another transaction can commit between two of its          *)
(* statements and the later statement depends on the earlier one           *)
(* (PostgreSQL's READ COMMITTED); then each statement is a step.           *)
(*                                                                         *)
(* The pipeline stages of the tick are empty here; Pipeline.tla fills them.*)
(*                                                                         *)
(* XMutantY is X with a plausible bug Y: used by no action, it replaces X  *)
(* to see that a property notices.                                         *)
(***************************************************************************)
EXTENDS Integers, FiniteSets

CONSTANTS
  Node,         \* worker_nodes.id
  Task,         \* tasks.id
  NoNode,       \* SQL NULL in tasks.assigned_node_id
  NoTask,       \* std::nullopt from fetchNextQueueTask
  MaxAttempts,  \* tasks.max_attempts, given by the client
  Priority,     \* tasks.priority, given by the client
  Prompt,       \* nodes whose heartbeats always arrive within 15 s
  LoadCap,      \* bound: current_load saturates here
  AsyncCommit,  \* TRUE: a COMMIT is only sent when a Transaction goes out of
                \* scope, and later reads of the thread may overtake it
  Faults        \* TRUE: exceptions, crashes and lost requests happen, and
                \* processes are started with the NODE_ID of another one

ASSUME NodeAssumption == IsFiniteSet(Node) /\ NoNode \notin Node /\ Prompt \subseteq Node
ASSUME TaskAssumption == IsFiniteSet(Task) /\ NoTask \notin Task
ASSUME ParamAssumption == MaxAttempts \in [Task -> Int] /\ Priority \in [Task -> Int]
ASSUME LoadCapAssumption == LoadCap \in Nat /\ Cardinality(Task) <= LoadCap
ASSUME SwitchAssumption == AsyncCommit \in BOOLEAN /\ Faults \in BOOLEAN

VARIABLES
  nodeStatus,  \* worker_nodes.status
  stale,       \* last_heartbeat is more than 15 s old
  load,        \* worker_nodes.current_load
  status,      \* tasks.status
  assignedTo,  \* tasks.assigned_node_id
  attempts,    \* tasks.attempts
  due,         \* the time the task waits for has come: next_retry_at of a
               \* queued task, timeout_at of an assigned one
  result,      \* task_results: the row of (task, node), if any
  reading,     \* failure handlers between their SELECT and their UPDATE
  held,        \* tasks a worker got from a poll and has not reported
  phase,       \* what the tick does next
  picked,      \* the tick's local variables task
  chosen,      \* and selected
  lagTask,     \* tasks assigned by the tick, COMMIT not yet executed
  lagNode      \* nodes taken offline by the tick, COMMIT not yet executed

nodeVars == <<nodeStatus, stale, load>>
taskVars == <<status, assignedTo, attempts, due>>
tickVars == <<phase, picked, chosen>>
lagVars == <<lagTask, lagNode>>
vars == <<nodeVars, taskVars, result, reading, held, tickVars, lagVars>>

TaskStatus == {"queued", "assigned", "succeeded", "failed"}
Handler == [task : Task, node : Node, attempts : Nat]

TypeOK ==
  /\ nodeStatus \in [Node -> {"absent", "online", "offline"}]
  /\ stale \in [Node -> BOOLEAN]
  /\ load \in [Node -> 0 .. LoadCap]
  /\ status \in [Task -> {"absent"} \cup TaskStatus]
  /\ assignedTo \in [Task -> Node \cup {NoNode}]
  /\ attempts \in [Task -> Nat]
  /\ due \in [Task -> BOOLEAN]
  /\ result \in [Task -> [Node -> {"none", "success", "failure"}]]
  /\ reading \subseteq Handler
  /\ held \in [Node -> SUBSET Task]
  /\ phase \in {"recover", "split", "fetch", "select", "update", "reduce"}
  /\ picked \in IF phase \in {"select", "update"} THEN Task ELSE {NoTask}
  /\ chosen \in IF phase = "update" THEN Node ELSE {NoNode}
  /\ lagTask \subseteq Task
  /\ lagNode \subseteq Node

Init ==
  /\ nodeStatus = [n \in Node |-> "absent"]
  /\ stale = [n \in Node |-> FALSE]
  /\ load = [n \in Node |-> 0]
  /\ status = [t \in Task |-> "absent"]
  /\ assignedTo = [t \in Task |-> NoNode]
  /\ attempts = [t \in Task |-> 0]
  /\ due = [t \in Task |-> FALSE]
  /\ result = [t \in Task |-> [n \in Node |-> "none"]]
  /\ reading = {}
  /\ held = [n \in Node |-> {}]
  /\ phase = "recover"
  /\ picked = NoTask
  /\ chosen = NoNode
  /\ lagTask = {}
  /\ lagNode = {}

-----------------------------------------------------------------------------
(* Helpers *)

RunningOnMutantAnyNode(n) == {t \in Task : status[t] = "assigned"}

RunningOn(n) == {t \in Task : status[t] = "assigned" /\ assignedTo[t] = n}
Ready == {t \in Task : status[t] = "queued" /\ due[t]}
OnlineNodes == {n \in Node : nodeStatus[n] = "online"}
FailureRows(t) == {n \in Node : result[t][n] = "failure"}
HandlerAt(t, n) == {h \in reading : h.task = t /\ h.node = n}

LoadPlusOne(l) == IF l < LoadCap THEN l + 1 ELSE l
LoadMinusOne(l) == IF l > 0 THEN l - 1 ELSE 0       \* GREATEST(current_load-1,0)

(* The tasks of S become queued again, not before a later moment. *)
Requeue(S) ==
  /\ status' = [t \in Task |-> IF t \in S THEN "queued" ELSE status[t]]
  /\ assignedTo' = [t \in Task |-> IF t \in S THEN NoNode ELSE assignedTo[t]]
  /\ due' = [t \in Task |-> IF t \in S THEN FALSE ELSE due[t]]

(* New rows of tasks: queued, no attempts, next_retry_at NULL. *)
InsertTasks(S) ==
  /\ \A t \in S : status[t] = "absent"
  /\ status' = [t \in Task |-> IF t \in S THEN "queued" ELSE status[t]]
  /\ due' = [t \in Task |-> IF t \in S THEN TRUE ELSE due[t]]
  /\ UNCHANGED <<assignedTo, attempts>>

-----------------------------------------------------------------------------
(* Nodes and clients *)

(* A worker registers: a new row of worker_nodes. *)
Register(n) ==
  /\ nodeStatus[n] = "absent"
  /\ nodeStatus' = [nodeStatus EXCEPT ![n] = "online"]
  /\ UNCHANGED <<stale, load, taskVars, result, reading, held, tickVars, lagVars>>

(* A heartbeat; it waits for the row lock of a recovery that has not committed. *)
Heartbeat(n) ==
  /\ nodeStatus[n] # "absent" /\ n \notin lagNode
  /\ nodeStatus' = [nodeStatus EXCEPT ![n] = "online"]
  /\ stale' = [stale EXCEPT ![n] = FALSE]
  /\ UNCHANGED <<load, taskVars, result, reading, held, tickVars, lagVars>>

(* 15 s pass since the last heartbeat of n. *)
HeartbeatAges(n) ==
  /\ n \notin Prompt
  /\ nodeStatus[n] # "absent" /\ ~stale[n]
  /\ stale' = [stale EXCEPT ![n] = TRUE]
  /\ UNCHANGED <<nodeStatus, load, taskVars, result, reading, held, tickVars, lagVars>>

(* generateTasks inserts any number of tasks in one transaction, and         *)
(* submitProjectTask one.                                                    *)
GenerateTasks(S) ==
  /\ S # {}
  /\ InsertTasks(S)
  /\ UNCHANGED <<nodeVars, result, reading, held, tickVars, lagVars>>

(* The task's next_retry_at or timeout_at passes. *)
DueArrives(t) ==
  /\ status[t] \in {"queued", "assigned"} /\ ~due[t]
  /\ due' = [due EXCEPT ![t] = TRUE]
  /\ UNCHANGED <<nodeVars, status, assignedTo, attempts, result, reading, held,
                 tickVars, lagVars>>

-----------------------------------------------------------------------------
(* The tick of RecoveryService *)

Gone == {n \in Node : nodeStatus[n] # "absent" /\ stale[n]}
OfflineNodes == Gone \cup {n \in Node : nodeStatus[n] = "offline"}

LostMutantAnyStatus == {t \in Task : due[t] \/ assignedTo[t] \in OfflineNodes}
LostMutantNoTimeout == {t \in Task : status[t] = "assigned" /\ assignedTo[t] \in OfflineNodes}

Lost == {t \in Task : status[t] = "assigned" /\ (due[t] \/ assignedTo[t] \in OfflineNodes)}

(* Stale nodes go offline; running tasks that timed out or whose node is     *)
(* offline go back to the queue.  current_load stays as it is.               *)
Recover ==
  /\ phase = "recover" /\ lagTask = {} /\ lagNode = {}
  /\ nodeStatus' = [n \in Node |-> IF n \in Gone THEN "offline" ELSE nodeStatus[n]]
  /\ Requeue(Lost)
  /\ lagNode' = IF AsyncCommit THEN {n \in Gone : nodeStatus[n] = "online"} ELSE {}
  /\ phase' = "split"
  /\ UNCHANGED <<stale, load, attempts, result, reading, held, picked, chosen, lagTask>>

(* processPendingPipelineSplits finds no job. *)
NothingToSplit ==
  /\ phase = "split"
  /\ phase' = "fetch"
  /\ UNCHANGED <<nodeVars, taskVars, result, reading, held, picked, chosen, lagVars>>

(* fetchNextQueueTask: a ready task of the highest priority (the older one   *)
(* of two; here either).  A task the loop has just assigned still looks      *)
(* ready until its COMMIT is executed.                                       *)
AssignFetch(t) ==
  /\ phase = "fetch"
  /\ t \in Ready \cup lagTask
  /\ \A u \in Ready : Priority[u] <= Priority[t]
  /\ picked' = t
  /\ phase' = "select"
  /\ UNCHANGED <<nodeVars, taskVars, result, reading, held, chosen, lagVars>>

AssignDone ==
  /\ phase = "fetch" /\ Ready = {}
  /\ phase' = "reduce"
  /\ UNCHANGED <<nodeVars, taskVars, result, reading, held, picked, chosen, lagVars>>

(* loadOnlineNodes and selectNode.  The score depends on the cores, memory   *)
(* and rating a node registered with and on its load; here any node may win. *)
AssignSelect(n) ==
  /\ phase = "select"
  /\ n \in OnlineNodes \cup lagNode
  /\ chosen' = n
  /\ phase' = "update"
  /\ UNCHANGED <<nodeVars, taskVars, result, reading, held, picked, lagVars>>

AssignNoNodeMutantFallsThrough ==
  /\ phase = "select" /\ OnlineNodes = {}
  /\ phase' = "update"
  /\ UNCHANGED <<nodeVars, taskVars, result, reading, held, picked, chosen, lagVars>>

AssignNoNode ==
  /\ phase = "select" /\ OnlineNodes = {}
  /\ picked' = NoTask
  /\ phase' = "reduce"
  /\ UNCHANGED <<nodeVars, taskVars, result, reading, held, chosen, lagVars>>

(* The UPDATE names the task by its id alone: whatever status it has by now, *)
(* it becomes assigned.                                                      *)
AssignUpdate ==
  /\ phase = "update" /\ picked \notin lagTask
  /\ status' = [status EXCEPT ![picked] = "assigned"]
  /\ assignedTo' = [assignedTo EXCEPT ![picked] = chosen]
  /\ due' = [due EXCEPT ![picked] = FALSE]
  /\ load' = [load EXCEPT ![chosen] = LoadPlusOne(@)]
  /\ lagTask' = IF AsyncCommit THEN lagTask \cup {picked} ELSE lagTask
  /\ picked' = NoTask
  /\ chosen' = NoNode
  /\ phase' = "fetch"
  /\ UNCHANGED <<nodeStatus, stale, attempts, result, reading, held, lagNode>>

NothingToReduceMutantOneShot ==
  /\ phase = "reduce"
  /\ phase' = "stopped"
  /\ UNCHANGED <<nodeVars, taskVars, result, reading, held, picked, chosen, lagVars>>

(* processReadyPipelineReduces finds no job; the timer is armed again. *)
NothingToReduce ==
  /\ phase = "reduce"
  /\ phase' = "recover"
  /\ UNCHANGED <<nodeVars, taskVars, result, reading, held, picked, chosen, lagVars>>

(* An exception leaves the tick; the next one starts from the beginning. *)
TickAborts ==
  /\ Faults
  /\ phase # "recover"
  /\ picked' = NoTask
  /\ chosen' = NoNode
  /\ phase' = "recover"
  /\ UNCHANGED <<nodeVars, taskVars, result, reading, held, lagVars>>

(* PostgreSQL executes a COMMIT that was still on its way. *)
CommitTask(t) ==
  /\ t \in lagTask
  /\ lagTask' = lagTask \ {t}
  /\ UNCHANGED <<nodeVars, taskVars, result, reading, held, tickVars, lagNode>>

CommitRecovery ==
  /\ lagNode # {}
  /\ lagNode' = {}
  /\ UNCHANGED <<nodeVars, taskVars, result, reading, held, tickVars, lagTask>>

(* The coordinator process dies and starts again: open transactions roll     *)
(* back, the tick starts over.  A COMMIT that is lost as well is a crash     *)
(* before its UPDATE, so none is pending here.                               *)
CoordinatorCrash ==
  /\ Faults
  /\ lagTask = {} /\ lagNode = {}
  /\ reading' = {}
  /\ picked' = NoTask
  /\ chosen' = NoNode
  /\ phase' = "recover"
  /\ UNCHANGED <<nodeVars, taskVars, result, held, lagVars>>

-----------------------------------------------------------------------------
(* The worker's requests *)

PollMutantRunningOnly(n) ==
  /\ nodeStatus[n] # "absent"
  /\ held' = [held EXCEPT ![n] = @ \cup {t \in RunningOn(n) : status[t] = "running"}]
  /\ held' # held
  /\ UNCHANGED <<nodeVars, taskVars, result, reading, tickVars, lagVars>>

(* GET /nodes/{id}/tasks: what is assigned to n, as far as it is committed. *)
Poll(n) ==
  /\ nodeStatus[n] # "absent"
  /\ held' = [held EXCEPT ![n] = @ \cup (RunningOn(n) \ lagTask)]
  /\ held' # held
  /\ UNCHANGED <<nodeVars, taskVars, result, reading, tickVars, lagVars>>

(* A process of n ends, or an exception makes it leave its batch. *)
Drop(n) ==
  /\ Faults
  /\ \E S \in (SUBSET held[n]) \ {{}} : held' = [held EXCEPT ![n] = @ \ S]
  /\ UNCHANGED <<nodeVars, taskVars, result, reading, tickVars, lagVars>>

(* The process that reports t is done with it; another one with the same    *)
(* NODE_ID may hold it still.                                                *)
Reported(t, n) == held' = [held EXCEPT ![n] = @ \ {t}] \/ (Faults /\ held' = held)

FirstReportMutantNoConstraint(t, n) == t \in held[n]

(* n reports t and no transaction holds or has inserted the row (t, n). *)
FirstReport(t, n) ==
  /\ t \in held[n]
  /\ result[t][n] = "none"
  /\ HandlerAt(t, n) = {}

(* submitResult, success: INSERT, UPDATE of the task by its id, UPDATE of    *)
(* the load.  Neither the status nor the assigned node of t is looked at.    *)
SubmitSuccess(t, n) ==
  /\ FirstReport(t, n) /\ t \notin lagTask
  /\ result' = [result EXCEPT ![t][n] = "success"]
  /\ status' = [status EXCEPT ![t] = "succeeded"]
  /\ due' = [due EXCEPT ![t] = FALSE]
  /\ load' = [load EXCEPT ![n] = LoadMinusOne(@)]
  /\ Reported(t, n)
  /\ UNCHANGED <<nodeStatus, stale, assignedTo, attempts, reading, tickVars, lagVars>>

(* submitResult, failure: the INSERT and the SELECT of attempts ... *)
SubmitFailureRead(t, n) ==
  /\ FirstReport(t, n)
  /\ reading' = reading \cup {[task |-> t, node |-> n, attempts |-> attempts[t]]}
  /\ Reported(t, n)
  /\ UNCHANGED <<nodeVars, taskVars, result, tickVars, lagVars>>

(* ... and the UPDATEs, computed from the attempts read then. *)
SubmitFailureWrite(h) ==
  LET t == h.task
      n == h.node
      tried == h.attempts + 1
  IN /\ h \in reading /\ t \notin lagTask
     /\ reading' = reading \ {h}
     /\ result' = [result EXCEPT ![t][n] = "failure"]
     /\ attempts' = [attempts EXCEPT ![t] = tried]
     /\ IF tried < MaxAttempts[t]
        THEN Requeue({t})
        ELSE /\ status' = [status EXCEPT ![t] = "failed"]
             /\ due' = [due EXCEPT ![t] = FALSE]
             /\ UNCHANGED assignedTo
     /\ load' = [load EXCEPT ![n] = LoadMinusOne(@)]
     /\ UNCHANGED <<nodeStatus, stale, held, tickVars, lagVars>>

(* The transaction of a failure handler is rolled back. *)
SubmitFailureRollback(h) ==
  /\ Faults
  /\ h \in reading
  /\ reading' = reading \ {h}
  /\ UNCHANGED <<nodeVars, taskVars, result, held, tickVars, lagVars>>

SubmitDuplicateMutantFreesLoad(t, n) ==
  /\ t \in held[n]
  /\ result[t][n] # "none"
  /\ load' = [load EXCEPT ![n] = LoadMinusOne(@)]
  /\ Reported(t, n)
  /\ UNCHANGED <<nodeStatus, stale, taskVars, result, reading, tickVars, lagVars>>

SubmitDuplicateMutantSucceeds(t, n) ==
  /\ t \in held[n]
  /\ result[t][n] # "none"
  /\ status' = [status EXCEPT ![t] = "succeeded"]
  /\ Reported(t, n)
  /\ UNCHANGED <<nodeVars, assignedTo, attempts, due, result, reading, tickVars, lagVars>>

(* ON CONFLICT(task_id,node_id) DO NOTHING: n has reported t before, and     *)
(* whatever it reports now changes no table.                                 *)
SubmitDuplicate(t, n) ==
  /\ t \in held[n]
  /\ result[t][n] # "none"
  /\ Reported(t, n)
  /\ UNCHANGED <<nodeVars, taskVars, result, reading, tickVars, lagVars>>

-----------------------------------------------------------------------------
NodeNext ==
  \E n \in Node : Register(n) \/ Heartbeat(n) \/ HeartbeatAges(n) \/ Poll(n) \/ Drop(n)

TaskNext ==
  \/ \E S \in SUBSET Task : GenerateTasks(S)
  \/ \E t \in Task : DueArrives(t)

TickNext ==
  \/ Recover
  \/ NothingToSplit
  \/ \E t \in Task : AssignFetch(t)
  \/ AssignDone
  \/ \E n \in Node : AssignSelect(n)
  \/ AssignNoNode
  \/ AssignUpdate
  \/ NothingToReduce

FaultNext == TickAborts \/ CoordinatorCrash

CommitNext == CommitRecovery \/ \E t \in Task : CommitTask(t)

SubmitNext ==
  \/ \E t \in Task, n \in Node :
       \/ SubmitSuccess(t, n)
       \/ SubmitFailureRead(t, n)
       \/ SubmitDuplicate(t, n)
  \/ \E h \in reading : SubmitFailureWrite(h) \/ SubmitFailureRollback(h)

Next == NodeNext \/ TaskNext \/ TickNext \/ FaultNext \/ CommitNext \/ SubmitNext

Spec == Init /\ [][Next]_vars

-----------------------------------------------------------------------------
(* Safety *)

(* The scheduler never takes a node for less loaded than it is: current_load *)
(* covers the tasks assigned to the node, those it still holds unreported    *)
(* and the failures being recorded, through late, repeated and rolled back   *)
(* reports, timeouts and reassignment.  It may well be too high: requeueing  *)
(* and repeated reports never give a unit back.                              *)
UnfinishedAt(n) ==
  RunningOn(n) \cup {t \in held[n] : result[t][n] = "none"} \cup {h.task : h \in {g \in reading : g.node = n}}

LoadCoversWork == \A n \in Node : Cardinality(UnfinishedAt(n)) <= load[n]

(* A task fails for good only after max_attempts different nodes have        *)
(* reported a failure, although attempts is read and written in separate     *)
(* statements: a node's second report is never counted.                      *)
FailedNeedsDistinctNodes ==
  \A t \in Task : status[t] = "failed" => MaxAttempts[t] <= Cardinality(FailureRows(t))

(* The same, strengthened to an inductive invariant: one handler at a time   *)
(* works on the row (t, n), and neither a task's attempts nor the attempts a *)
(* handler has read exceed the failures recorded.                            *)
OneHandlerPerRow ==
  \A h, g \in reading : h.task = g.task /\ h.node = g.node => h = g

AttemptsAreFailures ==
  /\ \A h \in reading : /\ result[h.task][h.node] = "none"
                        /\ h.attempts <= Cardinality(FailureRows(h.task))
  /\ \A t \in Task : attempts[t] <= Cardinality(FailureRows(t))

AttemptsInv == OneHandlerPerRow /\ AttemptsAreFailures /\ FailedNeedsDistinctNodes

(* A task is shown as succeeded only if a node's success is stored, so a     *)
(* reduce that finds all children succeeded finds a result of each.          *)
SucceededHasResult ==
  \A t \in Task : status[t] = "succeeded" => \E n \in Node : result[t][n] = "success"

(* The store keeps its contract with the rest of the coordinator. *)
Contract == INSTANCE TaskContract

KeepsContract == Contract!ContractSpec

-----------------------------------------------------------------------------
(* Liveness *)

(* The main loop's timer, the clock and the database make progress, and a    *)
(* prompt node is registered.  The reads of the assign loop do not overtake  *)
(* its own COMMITs for ever, and a transaction that waits for a row lock     *)
(* gets it at last (PostgreSQL queues the waiters).  Nothing is assumed of   *)
(* what workers or clients do.                                               *)
CoordinatorFairness ==
  /\ WF_vars(TickNext)
  /\ SF_vars(AssignDone)
  /\ WF_vars(CommitRecovery)
  /\ \A t \in Task : WF_vars(CommitTask(t)) /\ WF_vars(DueArrives(t)) /\ SF_vars(AssignFetch(t))
  /\ \A t \in Task, n \in Node : SF_vars(\E h \in HandlerAt(t, n) : SubmitFailureWrite(h))
  /\ \A n \in Prompt : WF_vars(Register(n))

CoordinatorSpec == Spec /\ CoordinatorFairness

(* A prompt worker polls and reports for ever.  A task assigned to it again  *)
(* and again is some time still assigned when it polls: every 5 s, and the   *)
(* task timeout is 60 s.                                                     *)
WorkerFairness ==
  \A n \in Prompt, t \in Task :
    /\ SF_vars(Poll(n) /\ t \in held'[n] \ held[n])
    /\ SF_vars(SubmitSuccess(t, n) \/ SubmitFailureRead(t, n) \/ SubmitDuplicate(t, n))

FairSpec == CoordinatorSpec /\ WorkerFairness

(* While one node is alive every queued task leaves the queue.               *)
QueuedIsServed == \A t \in Task : (status[t] = "queued") ~> (status[t] # "queued")

(* A task assigned to a node that does not report it does not stay there,    *)
(* even if its heartbeats go on.                                             *)
OrphanIsReleased ==
  \A t \in Task : \A n \in Node :
    (status[t] = "assigned" /\ assignedTo[t] = n) ~> ~(status[t] = "assigned" /\ assignedTo[t] = n)

(* If every node is alive and its worker works, each task is at some time    *)
(* reported by one.                                                          *)
EveryTaskIsReported ==
  WorkerFairness =>
    \A t \in Task : (status[t] = "queued") ~> (\E n \in Node : result[t][n] # "none")

(* What the code does not do: bring every queued task to a verdict.          *)
EveryTaskGetsVerdict ==
  \A t \in Task : (status[t] = "queued") ~> (status[t] \in {"succeeded", "failed"})
=============================================================================
