-------------------------- MODULE TaskStoreProofs --------------------------
(***************************************************************************)
(* Theorems about TaskStore, for any finite sets of nodes and tasks, any   *)
(* attempt limits and priorities, with asynchronous commits and faults or  *)
(* without them.                                                           *)
(***************************************************************************)
EXTENDS TaskStore, FiniteSetTheorems, TLAPS

USE NodeAssumption, TaskAssumption, ParamAssumption, LoadCapAssumption, SwitchAssumption

-----------------------------------------------------------------------------
(* Typing *)

(* The steps of nodes keep the types. *)
LEMMA NodeNextTypes == ASSUME TypeOK, NodeNext PROVE TypeOK'
<1> USE DEF TypeOK, nodeVars, taskVars, tickVars, lagVars, TaskStatus
<1> PICK n \in Node : Register(n) \/ Heartbeat(n) \/ HeartbeatAges(n) \/ Poll(n) \/ Drop(n)
  BY DEF NodeNext
<1>1. CASE Register(n)      BY <1>1 DEF Register
<1>2. CASE Heartbeat(n)     BY <1>2 DEF Heartbeat
<1>3. CASE HeartbeatAges(n) BY <1>3 DEF HeartbeatAges
<1>4. CASE Poll(n)
  <2>1. RunningOn(n) \subseteq Task BY DEF RunningOn
  <2>2. held' \in [Node -> SUBSET Task] BY <1>4, <2>1 DEF Poll
  <2> QED BY <1>4, <2>2 DEF Poll
<1>5. CASE Drop(n)          BY <1>5 DEF Drop
<1> QED BY <1>1, <1>2, <1>3, <1>4, <1>5

(* The steps of clients and of the clock keep the types. *)
LEMMA TaskNextTypes == ASSUME TypeOK, TaskNext PROVE TypeOK'
<1> USE DEF TypeOK, nodeVars, taskVars, tickVars, lagVars, TaskStatus
<1>1. ASSUME NEW S \in SUBSET Task, GenerateTasks(S) PROVE TypeOK'
  BY <1>1 DEF GenerateTasks, InsertTasks
<1>2. ASSUME NEW t \in Task, DueArrives(t) PROVE TypeOK'
  BY <1>2 DEF DueArrives
<1> QED BY <1>1, <1>2 DEF TaskNext

(* The stages of the tick keep the types. *)
LEMMA TickNextTypes == ASSUME TypeOK, TickNext PROVE TypeOK'
<1> USE DEF TypeOK, nodeVars, taskVars, tickVars, lagVars, TaskStatus
<1>1. CASE Recover BY <1>1 DEF Recover, Gone, Lost, Requeue
<1>2. CASE NothingToSplit BY <1>2 DEF NothingToSplit
<1>3. ASSUME NEW t \in Task, AssignFetch(t) PROVE TypeOK' BY <1>3 DEF AssignFetch
<1>4. CASE AssignDone BY <1>4 DEF AssignDone
<1>5. ASSUME NEW n \in Node, AssignSelect(n) PROVE TypeOK' BY <1>5 DEF AssignSelect
<1>6. CASE AssignNoNode BY <1>6 DEF AssignNoNode
<1>7. CASE AssignUpdate BY <1>7 DEF AssignUpdate, LoadPlusOne
<1>8. CASE NothingToReduce BY <1>8 DEF NothingToReduce
<1> QED BY <1>1, <1>2, <1>3, <1>4, <1>5, <1>6, <1>7, <1>8 DEF TickNext

(* A report takes at most the reported task from a node. *)
LEMMA ReportedHeld ==
  ASSUME TypeOK, NEW t \in Task, NEW n \in Node, Reported(t, n)
  PROVE  held' \in [Node -> SUBSET Task] /\ \A m \in Node : held'[m] \subseteq held[m]
<1>1. held \in [Node -> SUBSET Task] BY DEF TypeOK
<1>2. held' = held \/ held' = [held EXCEPT ![n] = @ \ {t}] BY DEF Reported
<1> QED BY <1>1, <1>2

(* The handlers of reports keep the types. *)
LEMMA SubmitNextTypes == ASSUME TypeOK, SubmitNext PROVE TypeOK'
<1> USE DEF TypeOK, nodeVars, taskVars, tickVars, lagVars, TaskStatus
<1>1. ASSUME NEW t \in Task, NEW n \in Node, SubmitSuccess(t, n) PROVE TypeOK'
  BY <1>1, ReportedHeld DEF SubmitSuccess, LoadMinusOne
<1>2. ASSUME NEW t \in Task, NEW n \in Node, SubmitFailureRead(t, n) PROVE TypeOK'
  BY <1>2, ReportedHeld DEF SubmitFailureRead, Handler
<1>3. ASSUME NEW t \in Task, NEW n \in Node, SubmitDuplicate(t, n) PROVE TypeOK'
  BY <1>3, ReportedHeld DEF SubmitDuplicate
<1>4. ASSUME NEW h \in reading, SubmitFailureWrite(h) PROVE TypeOK'
  <2>1. h.task \in Task /\ h.node \in Node /\ h.attempts \in Nat BY DEF Handler
  <2>2. load' \in [Node -> 0 .. LoadCap] BY <1>4, <2>1 DEF SubmitFailureWrite, LoadMinusOne
  <2>3. result' \in [Task -> [Node -> {"none", "success", "failure"}]]
    BY <1>4, <2>1 DEF SubmitFailureWrite
  <2>4. attempts' \in [Task -> Nat] BY <1>4, <2>1 DEF SubmitFailureWrite
  <2>5. /\ status' \in [Task -> {"absent"} \cup TaskStatus]
        /\ assignedTo' \in [Task -> Node \cup {NoNode}]
        /\ due' \in [Task -> BOOLEAN]
    BY <1>4, <2>1 DEF SubmitFailureWrite, Requeue
  <2> QED BY <1>4, <2>2, <2>3, <2>4, <2>5 DEF SubmitFailureWrite
<1>5. ASSUME NEW h \in reading, SubmitFailureRollback(h) PROVE TypeOK'
  BY <1>5 DEF SubmitFailureRollback
<1> QED BY <1>1, <1>2, <1>3, <1>4, <1>5 DEF SubmitNext

(* So does every step. *)
LEMMA TypeStep == ASSUME TypeOK, [Next]_vars PROVE TypeOK'
<1> USE DEF TypeOK, nodeVars, taskVars, tickVars, lagVars
<1>1. CASE NodeNext BY <1>1, NodeNextTypes
<1>2. CASE TaskNext BY <1>2, TaskNextTypes
<1>3. CASE TickNext BY <1>3, TickNextTypes
<1>4. CASE FaultNext BY <1>4 DEF FaultNext, TickAborts, CoordinatorCrash
<1>5. CASE CommitNext BY <1>5 DEF CommitNext, CommitRecovery, CommitTask
<1>6. CASE SubmitNext BY <1>6, SubmitNextTypes
<1>7. CASE UNCHANGED vars BY <1>7 DEF vars
<1> QED BY <1>1, <1>2, <1>3, <1>4, <1>5, <1>6, <1>7 DEF Next

(* Every variable keeps its type under every operation. *)
THEOREM TypeCorrect == Spec => []TypeOK
<1>1. Init => TypeOK BY DEF Init, TypeOK
<1>2. TypeOK /\ [Next]_vars => TypeOK' BY TypeStep
<1> QED BY <1>1, <1>2, PTL DEF Spec

-----------------------------------------------------------------------------
(* Every operation on rows of task_results and on their handlers. *)

(* A set is no larger than one it is part of. *)
LEMMA SubsetCardinality ==
  ASSUME NEW S, IsFiniteSet(S), NEW A \in SUBSET S, NEW B \in SUBSET A
  PROVE  Cardinality(A) \in Nat /\ Cardinality(B) \in Nat /\ Cardinality(B) <= Cardinality(A)
<1>1. IsFiniteSet(A) BY FS_Subset
<1> QED BY <1>1, FS_Subset, FS_CardinalityType

(* The steps that record no report. *)
Quiet ==
  \/ NodeNext \/ TaskNext \/ TickNext \/ FaultNext \/ CommitNext \/ UNCHANGED vars
  \/ \E t \in Task, n \in Node : SubmitDuplicate(t, n)
  \/ \E h \in reading : SubmitFailureRollback(h)

(* They leave the rows and attempts alone, add no handler and make no task   *)
(* fail.                                                                     *)
LEMMA QuietSteps ==
  ASSUME TypeOK, Quiet
  PROVE  /\ UNCHANGED <<result, attempts>>
         /\ reading' \subseteq reading
         /\ \A t \in Task : status'[t] = "failed" => status[t] = "failed"
<1> USE DEF taskVars, TypeOK
<1>1. CASE NodeNext BY <1>1 DEF NodeNext, Register, Heartbeat, HeartbeatAges, Poll, Drop
<1>2. CASE TaskNext BY <1>2 DEF TaskNext, GenerateTasks, InsertTasks, DueArrives
<1>3. CASE TickNext
  <2>1. CASE Recover BY <2>1 DEF Recover, Gone, Lost, Requeue
  <2>2. CASE AssignUpdate BY <2>2 DEF AssignUpdate
  <2> QED BY <1>3, <2>1, <2>2 DEF TickNext, NothingToSplit, AssignFetch, AssignDone,
             AssignSelect, AssignNoNode, NothingToReduce
<1>4. CASE FaultNext BY <1>4 DEF FaultNext, TickAborts, CoordinatorCrash
<1>5. CASE CommitNext BY <1>5 DEF CommitNext, CommitRecovery, CommitTask
<1>6. CASE UNCHANGED vars BY <1>6 DEF vars
<1>7. CASE \E t \in Task, n \in Node : SubmitDuplicate(t, n) BY <1>7 DEF SubmitDuplicate
<1>8. CASE \E h \in reading : SubmitFailureRollback(h) BY <1>8 DEF SubmitFailureRollback
<1> QED BY <1>1, <1>2, <1>3, <1>4, <1>5, <1>6, <1>7, <1>8 DEF Quiet

(* What the handler of a first failure report does to the rows of its task.  *)
LEMMA FailureAddsRow ==
  ASSUME TypeOK, AttemptsInv, NEW h \in reading, SubmitFailureWrite(h)
  PROVE  /\ h.task \in Task /\ h.node \in Node /\ h.attempts \in Nat
         /\ Cardinality(FailureRows(h.task)') = Cardinality(FailureRows(h.task)) + 1
         /\ \A t \in Task \ {h.task} : FailureRows(t)' = FailureRows(t)
<1>1. h.task \in Task /\ h.node \in Node /\ h.attempts \in Nat BY DEF TypeOK, Handler
<1>2. h.node \notin FailureRows(h.task)
  BY DEF AttemptsInv, AttemptsAreFailures, FailureRows
<1>3. FailureRows(h.task)' = FailureRows(h.task) \cup {h.node}
  BY <1>1 DEF SubmitFailureWrite, FailureRows, TypeOK
<1>4. IsFiniteSet(FailureRows(h.task)) BY FS_Subset DEF FailureRows
<1>5. \A t \in Task \ {h.task} : FailureRows(t)' = FailureRows(t)
  BY <1>1 DEF SubmitFailureWrite, FailureRows, TypeOK
<1> QED BY <1>1, <1>2, <1>3, <1>4, <1>5, FS_AddElement

(* The failures of a task are finitely many. *)
LEMMA RowsAreCounted ==
  ASSUME TypeOK
  PROVE  \A t \in Task : IsFiniteSet(FailureRows(t)) /\ Cardinality(FailureRows(t)) \in Nat
BY FS_Subset, FS_CardinalityType DEF FailureRows

(* Every step keeps the invariant on attempts. *)
LEMMA AttemptsStep == ASSUME TypeOK, AttemptsInv, [Next]_vars PROVE AttemptsInv'
<1> USE DEF TypeOK
<1>1. CASE Quiet
  <2>1. \A t \in Task : FailureRows(t)' = FailureRows(t)
    BY <1>1, QuietSteps DEF FailureRows
  <2>2. reading \subseteq Handler OBVIOUS
  <2> QED BY <1>1, <2>1, <2>2, QuietSteps
          DEF AttemptsInv, OneHandlerPerRow, AttemptsAreFailures, FailedNeedsDistinctNodes, Handler
<1>2. ASSUME NEW t \in Task, NEW n \in Node, SubmitSuccess(t, n) PROVE AttemptsInv'
  <2>1. \A u \in Task : FailureRows(u)' = FailureRows(u)
    BY <1>2 DEF SubmitSuccess, FirstReport, FailureRows
  <2>2. \A h \in reading : h.task \in Task /\ h.node \in Node /\ ~(h.task = t /\ h.node = n)
    BY <1>2 DEF SubmitSuccess, FirstReport, HandlerAt, Handler
  <2>3. OneHandlerPerRow' BY <1>2 DEF AttemptsInv, OneHandlerPerRow, SubmitSuccess
  <2>4. AttemptsAreFailures'
    BY <1>2, <2>1, <2>2 DEF AttemptsInv, AttemptsAreFailures, SubmitSuccess
  <2>5. FailedNeedsDistinctNodes'
    BY <1>2, <2>1 DEF AttemptsInv, FailedNeedsDistinctNodes, SubmitSuccess
  <2> QED BY <2>3, <2>4, <2>5 DEF AttemptsInv
<1>3. ASSUME NEW t \in Task, NEW n \in Node, SubmitFailureRead(t, n) PROVE AttemptsInv'
  <2> DEFINE new == [task |-> t, node |-> n, attempts |-> attempts[t]]
  <2>1. \A u \in Task : FailureRows(u)' = FailureRows(u)
    BY <1>3 DEF SubmitFailureRead, FailureRows
  <2>2. reading' = reading \cup {new} /\ result[t][n] = "none"
    BY <1>3 DEF SubmitFailureRead, FirstReport
  <2>3. \A h \in reading : h.task \in Task /\ ~(h.task = t /\ h.node = n)
    BY <1>3 DEF SubmitFailureRead, FirstReport, HandlerAt, Handler
  <2>4. OneHandlerPerRow' BY <2>2, <2>3 DEF AttemptsInv, OneHandlerPerRow
  <2>5. AttemptsAreFailures'
    BY <1>3, <2>1, <2>2, <2>3 DEF AttemptsInv, AttemptsAreFailures, SubmitFailureRead, taskVars
  <2>6. FailedNeedsDistinctNodes'
    BY <1>3, <2>1 DEF AttemptsInv, FailedNeedsDistinctNodes, SubmitFailureRead, taskVars
  <2> QED BY <2>4, <2>5, <2>6 DEF AttemptsInv
<1>4. ASSUME NEW h \in reading, SubmitFailureWrite(h) PROVE AttemptsInv'
  <2>1. /\ h.task \in Task /\ h.node \in Node /\ h.attempts \in Nat
        /\ Cardinality(FailureRows(h.task)') = Cardinality(FailureRows(h.task)) + 1
        /\ \A t \in Task \ {h.task} : FailureRows(t)' = FailureRows(t)
    BY <1>4, FailureAddsRow
  <2>2. h.attempts + 1 <= Cardinality(FailureRows(h.task)')
    BY <2>1, RowsAreCounted DEF AttemptsInv, AttemptsAreFailures
  <2>3. OneHandlerPerRow'
    BY <1>4 DEF AttemptsInv, OneHandlerPerRow, SubmitFailureWrite
  <2>4. \A g \in reading' : /\ g \in reading /\ g.task \in Task /\ g.node \in Node
                            /\ g.attempts \in Nat
                            /\ ~(g.task = h.task /\ g.node = h.node)
    BY <1>4 DEF AttemptsInv, OneHandlerPerRow, SubmitFailureWrite, Handler
  <2>5. \A t \in Task : /\ Cardinality(FailureRows(t)) \in Nat
                        /\ Cardinality(FailureRows(t)') \in Nat
                        /\ Cardinality(FailureRows(t)) <= Cardinality(FailureRows(t)')
    BY <2>1, RowsAreCounted
  <2>6. \A g \in reading' : /\ result'[g.task][g.node] = "none"
                            /\ g.attempts <= Cardinality(FailureRows(g.task)')
    <3> TAKE g \in reading'
    <3>1. result'[g.task][g.node] = result[g.task][g.node]
      BY <1>4, <2>1, <2>4 DEF SubmitFailureWrite
    <3>2. g.attempts <= Cardinality(FailureRows(g.task)) /\ result[g.task][g.node] = "none"
      BY <2>4 DEF AttemptsInv, AttemptsAreFailures
    <3> QED BY <2>4, <2>5, <3>1, <3>2
  <2>7. \A t \in Task : attempts'[t] <= Cardinality(FailureRows(t)')
    BY <1>4, <2>1, <2>2, <2>5 DEF SubmitFailureWrite, AttemptsInv, AttemptsAreFailures
  <2>8. FailedNeedsDistinctNodes'
    <3> SUFFICES ASSUME NEW t \in Task, status'[t] = "failed"
                 PROVE  MaxAttempts[t] <= Cardinality(FailureRows(t)')
      BY DEF FailedNeedsDistinctNodes
    <3>1. CASE t = h.task
      <4>1. ~(h.attempts + 1 < MaxAttempts[h.task])
        BY <1>4, <2>1, <3>1 DEF SubmitFailureWrite, Requeue
      <4> QED BY <2>1, <2>2, <3>1, <4>1, RowsAreCounted
    <3>2. CASE t # h.task
      <4>1. status[t] = "failed" BY <1>4, <2>1, <3>2 DEF SubmitFailureWrite, Requeue
      <4> QED BY <2>1, <3>2, <4>1 DEF AttemptsInv, FailedNeedsDistinctNodes
    <3> QED BY <3>1, <3>2
  <2> QED BY <2>3, <2>6, <2>7, <2>8 DEF AttemptsInv, AttemptsAreFailures
<1> QED BY <1>1, <1>2, <1>3, <1>4 DEF Next, SubmitNext, Quiet

(* No task has more attempts counted than failures recorded, and no handler  *)
(* has read more: the inductive invariant behind the next theorem.           *)
THEOREM AttemptsInvariant == Spec => []AttemptsInv
<1>1. Init => AttemptsInv
  <2> SUFFICES ASSUME Init PROVE AttemptsInv OBVIOUS
  <2>1. \A t \in Task : FailureRows(t) = {} BY DEF Init, FailureRows
  <2>2. \A t \in Task : Cardinality(FailureRows(t)) = 0 BY <2>1, FS_EmptySet
  <2>3. reading = {} /\ \A t \in Task : attempts[t] = 0 /\ status[t] # "failed" BY DEF Init
  <2> QED BY <2>2, <2>3 DEF AttemptsInv, OneHandlerPerRow, AttemptsAreFailures,
                            FailedNeedsDistinctNodes
<1>2. TypeOK /\ AttemptsInv /\ [Next]_vars => AttemptsInv' BY AttemptsStep
<1> QED BY <1>1, <1>2, TypeCorrect, PTL DEF Spec

(* A task fails for good only after max_attempts different nodes failed it. *)
THEOREM FailureNeedsDistinctNodes == Spec => []FailedNeedsDistinctNodes
<1>1. AttemptsInv => FailedNeedsDistinctNodes BY DEF AttemptsInv
<1> QED BY <1>1, AttemptsInvariant, PTL

(* With fewer nodes than max_attempts (5 unless the client says otherwise) a *)
(* task never fails, however often its executor does.                        *)
THEOREM FewNodesNeverFail ==
  Spec => [](\A t \in Task : Cardinality(Node) < MaxAttempts[t] => status[t] # "failed")
<1>1. FailedNeedsDistinctNodes
        => \A t \in Task : Cardinality(Node) < MaxAttempts[t] => status[t] # "failed"
  <2>1. \A t \in Task : /\ Cardinality(FailureRows(t)) <= Cardinality(Node)
                        /\ Cardinality(FailureRows(t)) \in Nat /\ Cardinality(Node) \in Nat
    BY FS_Subset, FS_CardinalityType DEF FailureRows
  <2> QED BY <2>1 DEF FailedNeedsDistinctNodes
<1> QED BY <1>1, FailureNeedsDistinctNodes, PTL

-----------------------------------------------------------------------------
(* current_load covers the unfinished work of a node. *)

(* What it is for a task to be unfinished work of a node. *)
LEMMA UnfinishedTasks ==
  ASSUME TypeOK, NEW n \in Node
  PROVE  /\ UnfinishedAt(n) \in SUBSET Task
         /\ \A t \in Task : t \in UnfinishedAt(n) <=>
              \/ status[t] = "assigned" /\ assignedTo[t] = n
              \/ t \in held[n] /\ result[t][n] = "none"
              \/ \E h \in reading : h.task = t /\ h.node = n
BY DEF TypeOK, UnfinishedAt, RunningOn, Handler

(* The same after a step. *)
LEMMA UnfinishedTasksAfter ==
  ASSUME TypeOK', NEW n \in Node
  PROVE  /\ UnfinishedAt(n)' \in SUBSET Task
         /\ \A t \in Task : t \in UnfinishedAt(n)' <=>
              \/ status'[t] = "assigned" /\ assignedTo'[t] = n
              \/ t \in held'[n] /\ result'[t][n] = "none"
              \/ \E h \in reading' : h.task = t /\ h.node = n
BY DEF TypeOK, UnfinishedAt, RunningOn, Handler

(* A step that adds no work to a node and leaves its load alone. *)
LEMMA NoMoreWork ==
  ASSUME TypeOK, TypeOK', LoadCoversWork, NEW n \in Node,
         UnfinishedAt(n)' \subseteq UnfinishedAt(n), load'[n] = load[n]
  PROVE  Cardinality(UnfinishedAt(n)') <= load'[n]
<1>1. UnfinishedAt(n) \in SUBSET Task BY UnfinishedTasks
<1>2. /\ Cardinality(UnfinishedAt(n)') <= Cardinality(UnfinishedAt(n))
      /\ Cardinality(UnfinishedAt(n)') \in Nat /\ Cardinality(UnfinishedAt(n)) \in Nat
  BY <1>1, SubsetCardinality
<1>3. load[n] \in Nat BY DEF TypeOK
<1> QED BY <1>2, <1>3 DEF LoadCoversWork

(* A step that takes one task off a node and one off its load. *)
LEMMA OneTaskLess ==
  ASSUME TypeOK, TypeOK', LoadCoversWork, NEW n \in Node, NEW t \in UnfinishedAt(n),
         UnfinishedAt(n)' \subseteq UnfinishedAt(n) \ {t}, load'[n] = LoadMinusOne(load[n])
  PROVE  Cardinality(UnfinishedAt(n)') <= load'[n]
<1>1. UnfinishedAt(n) \in SUBSET Task BY UnfinishedTasks
<1>2. IsFiniteSet(UnfinishedAt(n)) /\ Cardinality(UnfinishedAt(n)) \in Nat
  BY <1>1, FS_Subset, FS_CardinalityType
<1>3. Cardinality(UnfinishedAt(n) \ {t}) = Cardinality(UnfinishedAt(n)) - 1
  BY <1>2, FS_RemoveElement
<1>4. /\ Cardinality(UnfinishedAt(n)') <= Cardinality(UnfinishedAt(n)) - 1
      /\ Cardinality(UnfinishedAt(n)') \in Nat
  <2>1. UnfinishedAt(n) \ {t} \in SUBSET Task BY <1>1
  <2> QED BY <1>3, <2>1, SubsetCardinality
<1>5. load[n] \in Nat BY DEF TypeOK
<1> QED BY <1>2, <1>4, <1>5 DEF LoadCoversWork, LoadMinusOne

(* A step that adds one task to a node and one to its load. *)
LEMMA OneTaskMore ==
  ASSUME TypeOK, TypeOK', LoadCoversWork, NEW n \in Node, NEW t \in Task,
         UnfinishedAt(n)' \subseteq UnfinishedAt(n) \cup {t}, load'[n] = LoadPlusOne(load[n])
  PROVE  Cardinality(UnfinishedAt(n)') <= load'[n]
<1>1. UnfinishedAt(n) \in SUBSET Task /\ UnfinishedAt(n)' \in SUBSET Task
  BY UnfinishedTasks, UnfinishedTasksAfter
<1>2. IsFiniteSet(UnfinishedAt(n)) /\ Cardinality(UnfinishedAt(n)) \in Nat
  BY <1>1, FS_Subset, FS_CardinalityType
<1>3. Cardinality(UnfinishedAt(n) \cup {t}) <= Cardinality(UnfinishedAt(n)) + 1
  <2>1. Cardinality(UnfinishedAt(n) \cup {t})
          = IF t \in UnfinishedAt(n) THEN Cardinality(UnfinishedAt(n))
            ELSE Cardinality(UnfinishedAt(n)) + 1
    BY <1>2, FS_AddElement
  <2> QED BY <1>2, <2>1
<1>4. /\ Cardinality(UnfinishedAt(n)') <= Cardinality(UnfinishedAt(n)) + 1
      /\ Cardinality(UnfinishedAt(n)') \in Nat
  <2>1. UnfinishedAt(n) \cup {t} \in SUBSET Task BY <1>1
  <2>2. Cardinality(UnfinishedAt(n) \cup {t}) \in Nat BY <2>1, FS_Subset, FS_CardinalityType
  <2> QED BY <1>2, <1>3, <2>1, <2>2, SubsetCardinality
<1>5. Cardinality(UnfinishedAt(n)') <= Cardinality(Task) /\ Cardinality(Task) \in Nat
  BY <1>1, FS_Subset, FS_CardinalityType
<1>6. load[n] \in 0 .. LoadCap BY DEF TypeOK
<1> QED BY <1>2, <1>4, <1>5, <1>6 DEF LoadCoversWork, LoadPlusOne

(* No step but an assignment and a first report touches the load, and none   *)
(* of the others adds work to a node.                                        *)
LEMMA OtherStepsAddNoWork ==
  ASSUME TypeOK, TypeOK', [Next]_vars, NEW n \in Node,
         ~AssignUpdate,
         \A t \in Task, m \in Node : ~SubmitSuccess(t, m),
         \A h \in reading : ~SubmitFailureWrite(h)
  PROVE  UnfinishedAt(n)' \subseteq UnfinishedAt(n) /\ load'[n] = load[n]
<1>1. SUFFICES
        /\ load'[n] = load[n]
        /\ \A t \in Task :
             /\ status'[t] = "assigned" /\ assignedTo'[t] = n
                  => status[t] = "assigned" /\ assignedTo[t] = n
             /\ t \in held'[n] /\ result'[t][n] = "none"
                  => \/ status[t] = "assigned" /\ assignedTo[t] = n
                     \/ t \in held[n] /\ result[t][n] = "none"
             /\ (\E h \in reading' : h.task = t /\ h.node = n)
                  => \/ \E h \in reading : h.task = t /\ h.node = n
                     \/ t \in held[n] /\ result[t][n] = "none"
  <2>1. UnfinishedAt(n)' \in SUBSET Task BY UnfinishedTasksAfter
  <2> QED BY <2>1, UnfinishedTasks, UnfinishedTasksAfter
<1> USE DEF nodeVars, taskVars, TypeOK
<1>2. CASE NodeNext
  <2>1. PICK m \in Node : Register(m) \/ Heartbeat(m) \/ HeartbeatAges(m) \/ Poll(m) \/ Drop(m)
    BY <1>2 DEF NodeNext
  <2>2. CASE Register(m) \/ Heartbeat(m) \/ HeartbeatAges(m)
    BY <2>2 DEF Register, Heartbeat, HeartbeatAges
  <2>3. CASE Poll(m) BY <2>3 DEF Poll, RunningOn
  <2>4. CASE Drop(m) BY <2>4 DEF Drop
  <2> QED BY <2>1, <2>2, <2>3, <2>4
<1>3. CASE TaskNext BY <1>3 DEF TaskNext, GenerateTasks, InsertTasks, DueArrives
<1>4. CASE TickNext
  <2>1. CASE Recover BY <2>1 DEF Recover, Gone, Lost, Requeue
  <2> QED BY <1>4, <2>1 DEF TickNext, NothingToSplit, AssignFetch, AssignDone,
             AssignSelect, AssignNoNode, NothingToReduce
<1>5. CASE FaultNext BY <1>5 DEF FaultNext, TickAborts, CoordinatorCrash
<1>6. CASE CommitNext BY <1>6 DEF CommitNext, CommitRecovery, CommitTask
<1>7. CASE SubmitNext
  <2>1. ASSUME NEW u \in Task, NEW m \in Node, SubmitFailureRead(u, m)
        PROVE  /\ load' = load /\ status' = status /\ assignedTo' = assignedTo /\ result' = result
               /\ held'[n] \subseteq held[n]
               /\ reading' = reading \cup {[task |-> u, node |-> m, attempts |-> attempts[u]]}
               /\ u \in held[m] /\ result[u][m] = "none"
    BY <2>1, ReportedHeld DEF SubmitFailureRead, FirstReport
  <2>2. CASE \E t \in Task, m \in Node : SubmitFailureRead(t, m)
    <3> HIDE DEF TypeOK
    <3>1. PICK u \in Task, m \in Node : SubmitFailureRead(u, m) BY <2>2
    <3> DEFINE new == [task |-> u, node |-> m, attempts |-> attempts[u]]
    <3>2. \A h \in reading' : h \in reading \/ (h.task = u /\ h.node = m)
      <4>1. reading' = reading \cup {new} BY <2>1, <3>1
      <4> QED BY <4>1
    <3>3. \A t \in Task : (\E h \in reading' : h.task = t /\ h.node = n)
                => \/ \E h \in reading : h.task = t /\ h.node = n
                   \/ t \in held[n] /\ result[t][n] = "none"
      BY <2>1, <3>1, <3>2
    <3> QED BY <2>1, <3>1, <3>3
  <2>3. CASE \E t \in Task, m \in Node : SubmitDuplicate(t, m)
    <3>1. held'[n] \subseteq held[n] BY <2>3, ReportedHeld DEF SubmitDuplicate
    <3> QED BY <2>3, <3>1 DEF SubmitDuplicate
  <2>4. CASE \E h \in reading : SubmitFailureRollback(h) BY <2>4 DEF SubmitFailureRollback
  <2> QED BY <1>7, <2>2, <2>3, <2>4 DEF SubmitNext
<1>8. CASE UNCHANGED vars BY <1>8 DEF vars
<1> QED BY <1>2, <1>3, <1>4, <1>5, <1>6, <1>7, <1>8 DEF Next

(* Every step keeps the load of each node at or above its work. *)
LEMMA LoadStep ==
  ASSUME TypeOK, TypeOK', OneHandlerPerRow, LoadCoversWork, [Next]_vars
  PROVE  LoadCoversWork'
<1> SUFFICES ASSUME NEW n \in Node PROVE Cardinality(UnfinishedAt(n)') <= load'[n]
  BY DEF LoadCoversWork
<1>1. CASE AssignUpdate
  <2> USE DEF TypeOK
  <2>1. picked \in Task /\ chosen \in Node BY <1>1 DEF AssignUpdate
  <2>2. CASE n = chosen
    <3>1. UnfinishedAt(n)' \subseteq UnfinishedAt(n) \cup {picked}
      BY <1>1, <2>1, UnfinishedTasks, UnfinishedTasksAfter DEF AssignUpdate
    <3>2. load'[n] = LoadPlusOne(load[n]) BY <1>1, <2>1, <2>2 DEF AssignUpdate
    <3> QED BY <2>1, <3>1, <3>2, OneTaskMore
  <2>3. CASE n # chosen
    <3>1. UnfinishedAt(n)' \subseteq UnfinishedAt(n)
      BY <1>1, <2>1, <2>3, UnfinishedTasks, UnfinishedTasksAfter DEF AssignUpdate
    <3>2. load'[n] = load[n] BY <1>1, <2>1, <2>3 DEF AssignUpdate
    <3> QED BY <3>1, <3>2, NoMoreWork
  <2> QED BY <2>2, <2>3
<1>2. ASSUME NEW t \in Task, NEW m \in Node, SubmitSuccess(t, m)
      PROVE  Cardinality(UnfinishedAt(n)') <= load'[n]
  <2>1. t \in held[m] /\ result[t][m] = "none" /\ HandlerAt(t, m) = {}
    BY <1>2 DEF SubmitSuccess, FirstReport
  <2>2. UnfinishedAt(n)' \subseteq UnfinishedAt(n)
    <3>1. \A u \in Task :
            /\ status'[u] = "assigned" => status[u] = "assigned" /\ u # t
            /\ assignedTo'[u] = assignedTo[u]
            /\ u \in held'[n] => u \in held[n]
            /\ result'[u][n] = "none" => result[u][n] = "none"
      <4>1. held'[n] \subseteq held[n] BY <1>2, ReportedHeld DEF SubmitSuccess
      <4> QED BY <1>2, <4>1 DEF SubmitSuccess, TypeOK
    <3>2. reading' = reading BY <1>2 DEF SubmitSuccess
    <3>3. UnfinishedAt(n)' \in SUBSET Task BY UnfinishedTasksAfter
    <3> QED BY <3>1, <3>2, <3>3, UnfinishedTasks, UnfinishedTasksAfter
  <2>3. CASE n = m
    <3>1. t \in UnfinishedAt(n) BY <2>1, <2>3, UnfinishedTasks, UnfinishedTasksAfter
    <3>2. t \notin UnfinishedAt(n)'
      <4>1. status'[t] = "succeeded" /\ result'[t][n] = "success" /\ reading' = reading
        BY <1>2, <2>3 DEF SubmitSuccess, TypeOK
      <4>2. ~\E h \in reading : h.task = t /\ h.node = n BY <2>1, <2>3 DEF HandlerAt
      <4> QED BY <4>1, <4>2, UnfinishedTasksAfter
    <3>3. load'[n] = LoadMinusOne(load[n]) BY <1>2, <2>3 DEF SubmitSuccess, TypeOK
    <3> QED BY <2>2, <3>1, <3>2, <3>3, OneTaskLess
  <2>4. CASE n # m
    <3>1. load'[n] = load[n] BY <1>2, <2>4 DEF SubmitSuccess, TypeOK
    <3> QED BY <2>2, <3>1, NoMoreWork
  <2> QED BY <2>3, <2>4
<1>3. ASSUME NEW h \in reading, SubmitFailureWrite(h)
      PROVE  Cardinality(UnfinishedAt(n)') <= load'[n]
  <2>1. h.task \in Task /\ h.node \in Node BY DEF Handler, TypeOK
  <2>2. \A t \in Task : status'[t] = "assigned" =>
          t # h.task /\ status[t] = "assigned" /\ assignedTo'[t] = assignedTo[t]
    <3>1. CASE h.attempts + 1 < MaxAttempts[h.task]
      BY <1>3, <2>1, <3>1 DEF SubmitFailureWrite, Requeue, TypeOK
    <3>2. CASE ~(h.attempts + 1 < MaxAttempts[h.task])
      BY <1>3, <2>1, <3>2 DEF SubmitFailureWrite, TypeOK
    <3> QED BY <3>1, <3>2
  <2>3. \A t \in Task : result'[t][n] = "none" =>
          result[t][n] = "none" /\ ~(t = h.task /\ n = h.node)
    BY <1>3, <2>1 DEF SubmitFailureWrite, TypeOK
  <2>4. held' = held /\ reading' \subseteq reading BY <1>3 DEF SubmitFailureWrite
  <2>5. UnfinishedAt(n)' \subseteq UnfinishedAt(n)
    <3>1. UnfinishedAt(n)' \in SUBSET Task BY UnfinishedTasksAfter
    <3> QED BY <2>2, <2>3, <2>4, <3>1, UnfinishedTasks, UnfinishedTasksAfter
  <2>6. CASE n = h.node
    <3>1. h.task \in UnfinishedAt(n) BY <2>1, <2>6, UnfinishedTasks, UnfinishedTasksAfter
    <3>2. ~\E g \in reading' : g.task = h.task /\ g.node = n
      BY <1>3, <2>6 DEF SubmitFailureWrite, OneHandlerPerRow
    <3>3. h.task \notin UnfinishedAt(n)'
      BY <2>1, <2>2, <2>3, <2>6, <3>2, UnfinishedTasksAfter
    <3>4. load'[n] = LoadMinusOne(load[n]) BY <1>3, <2>6 DEF SubmitFailureWrite, TypeOK
    <3> QED BY <2>5, <3>1, <3>3, <3>4, OneTaskLess
  <2>7. CASE n # h.node
    <3>1. load'[n] = load[n] BY <1>3, <2>1, <2>7 DEF SubmitFailureWrite, TypeOK
    <3> QED BY <2>5, <3>1, NoMoreWork
  <2> QED BY <2>6, <2>7
<1>4. CASE /\ ~AssignUpdate
           /\ \A t \in Task, m \in Node : ~SubmitSuccess(t, m)
           /\ \A h \in reading : ~SubmitFailureWrite(h)
  BY <1>4, OtherStepsAddNoWork, NoMoreWork
<1> QED BY <1>1, <1>2, <1>3, <1>4

(* The scheduler never sees a node less loaded than it is. *)
THEOREM LoadIsCovered == Spec => []LoadCoversWork
<1>1. Init => LoadCoversWork
  <2> SUFFICES ASSUME Init, NEW n \in Node PROVE Cardinality(UnfinishedAt(n)) <= load[n]
    BY DEF LoadCoversWork
  <2>1. UnfinishedAt(n) = {} /\ load[n] = 0 BY DEF Init, UnfinishedAt, RunningOn
  <2> QED BY <2>1, FS_EmptySet
<1>2. AttemptsInv => OneHandlerPerRow BY DEF AttemptsInv
<1>3. TypeOK /\ TypeOK' /\ OneHandlerPerRow /\ LoadCoversWork /\ [Next]_vars => LoadCoversWork'
  BY LoadStep
<1> QED BY <1>1, <1>2, <1>3, TypeCorrect, AttemptsInvariant, PTL DEF Spec

-----------------------------------------------------------------------------
(* The contract of the store *)

(* No row of tasks is deleted. *)
LEMMA TasksStay ==
  ASSUME TypeOK, [Next]_vars
  PROVE  \A t \in Task : status[t] # "absent" => status'[t] # "absent"
<1> USE DEF TypeOK, taskVars
<1>1. CASE NodeNext BY <1>1 DEF NodeNext, Register, Heartbeat, HeartbeatAges, Poll, Drop
<1>2. CASE TaskNext BY <1>2 DEF TaskNext, GenerateTasks, InsertTasks, DueArrives
<1>3. CASE TickNext
  <2>1. CASE Recover BY <2>1 DEF Recover, Requeue
  <2>2. CASE AssignUpdate BY <2>2 DEF AssignUpdate
  <2> QED BY <1>3, <2>1, <2>2 DEF TickNext, NothingToSplit, AssignFetch, AssignDone,
             AssignSelect, AssignNoNode, NothingToReduce
<1>4. CASE FaultNext BY <1>4 DEF FaultNext, TickAborts, CoordinatorCrash
<1>5. CASE CommitNext BY <1>5 DEF CommitNext, CommitRecovery, CommitTask
<1>6. CASE UNCHANGED vars BY <1>6 DEF vars
<1>7. ASSUME NEW t \in Task, NEW n \in Node,
             SubmitSuccess(t, n) \/ SubmitFailureRead(t, n) \/ SubmitDuplicate(t, n)
      PROVE  \A u \in Task : status[u] # "absent" => status'[u] # "absent"
  BY <1>7 DEF SubmitSuccess, SubmitFailureRead, SubmitDuplicate
<1>8. ASSUME NEW h \in reading, SubmitFailureWrite(h) \/ SubmitFailureRollback(h)
      PROVE  \A u \in Task : status[u] # "absent" => status'[u] # "absent"
  <2>1. h.task \in Task BY DEF Handler
  <2>2. CASE SubmitFailureWrite(h) /\ h.attempts + 1 < MaxAttempts[h.task]
    BY <2>1, <2>2 DEF SubmitFailureWrite, Requeue
  <2>3. CASE SubmitFailureWrite(h) /\ ~(h.attempts + 1 < MaxAttempts[h.task])
    BY <2>1, <2>3 DEF SubmitFailureWrite
  <2>4. CASE SubmitFailureRollback(h) BY <2>4 DEF SubmitFailureRollback
  <2> QED BY <1>8, <2>2, <2>3, <2>4
<1> QED BY <1>1, <1>2, <1>3, <1>4, <1>5, <1>6, <1>7, <1>8 DEF Next, SubmitNext

(* The tick, the workers and the handlers only know tasks that exist. *)
KnownTasks ==
  /\ picked \in Task => status[picked] # "absent"
  /\ \A t \in lagTask : status[t] # "absent"
  /\ \A n \in Node : \A t \in held[n] : status[t] # "absent"
  /\ \A h \in reading : status[h.task] # "absent"

(* Every step keeps it so. *)
LEMMA KnownTasksStep == ASSUME TypeOK, KnownTasks, [Next]_vars PROVE KnownTasks'
<1>1. \A t \in Task : status[t] # "absent" => status'[t] # "absent" BY TasksStay
<1>2. CASE UNCHANGED <<picked, lagTask, held, reading>>
  BY <1>1, <1>2 DEF KnownTasks, TypeOK, Handler
<1>3. ASSUME NEW t \in Task, AssignFetch(t) PROVE KnownTasks'
  BY <1>1, <1>3 DEF AssignFetch, Ready, KnownTasks, TypeOK, Handler, lagVars
<1>4. CASE AssignUpdate
  BY <1>1, <1>4, TaskAssumption DEF AssignUpdate, KnownTasks, TypeOK, Handler
<1>5. ASSUME picked' = NoTask, held' = held, lagTask' \subseteq lagTask, reading' \subseteq reading
      PROVE  KnownTasks'
  BY <1>1, <1>5, TaskAssumption DEF KnownTasks, TypeOK, Handler
<1>6. ASSUME UNCHANGED <<picked, held, reading>>, lagTask' \subseteq lagTask PROVE KnownTasks'
  BY <1>1, <1>6 DEF KnownTasks, TypeOK, Handler
<1>7. ASSUME NEW n \in Node, Poll(n) PROVE KnownTasks'
  <2>1. \A m \in Node : \A t \in held'[m] : t \in held[m] \/ t \in RunningOn(m)
    BY <1>7 DEF Poll, TypeOK
  <2>2. \A m \in Node : \A t \in RunningOn(m) : t \in Task /\ status[t] # "absent" BY DEF RunningOn
  <2>3. UNCHANGED <<status, picked, lagTask, reading>> BY <1>7 DEF Poll, taskVars, tickVars, lagVars
  <2> QED BY <2>1, <2>2, <2>3 DEF KnownTasks, TypeOK
<1>8. ASSUME UNCHANGED <<picked, lagTask, reading>>, \A m \in Node : held'[m] \subseteq held[m]
      PROVE  KnownTasks'
  BY <1>1, <1>8 DEF KnownTasks, TypeOK, Handler
<1>9. ASSUME UNCHANGED <<picked, lagTask, held>>, reading' \subseteq reading PROVE KnownTasks'
  BY <1>1, <1>9 DEF KnownTasks, TypeOK, Handler
<1>10. ASSUME NEW t \in Task, NEW n \in Node, SubmitFailureRead(t, n) PROVE KnownTasks'
  <2>1. t \in held[n] BY <1>10 DEF SubmitFailureRead, FirstReport
  <2>2. \A m \in Node : held'[m] \subseteq held[m] BY <1>10, ReportedHeld DEF SubmitFailureRead
  <2>3. \A h \in reading' : h \in reading \/ h.task = t BY <1>10 DEF SubmitFailureRead
  <2>4. UNCHANGED <<status, picked, lagTask>> BY <1>10 DEF SubmitFailureRead, taskVars, tickVars, lagVars
  <2> QED BY <2>1, <2>2, <2>3, <2>4 DEF KnownTasks, TypeOK
<1>11. CASE NodeNext
  <2>1. ASSUME NEW n \in Node, Drop(n) PROVE \A m \in Node : held'[m] \subseteq held[m]
    BY <2>1 DEF Drop, TypeOK
  <2> QED BY <1>2, <1>7, <1>8, <1>11, <2>1
          DEF NodeNext, Register, Heartbeat, HeartbeatAges, Drop, tickVars, lagVars
<1>12. CASE TaskNext BY <1>2, <1>12 DEF TaskNext, GenerateTasks, DueArrives, tickVars, lagVars
<1>13. CASE TickNext
  BY <1>2, <1>3, <1>4, <1>5, <1>13
  DEF TickNext, Recover, NothingToSplit, AssignDone, AssignSelect, AssignNoNode, NothingToReduce,
      tickVars, lagVars
<1>14. CASE FaultNext BY <1>5, <1>14 DEF FaultNext, TickAborts, CoordinatorCrash, lagVars
<1>15. CASE CommitNext BY <1>2, <1>6, <1>15 DEF CommitNext, CommitRecovery, CommitTask, tickVars
<1>16. CASE SubmitNext
  <2>1. ASSUME NEW t \in Task, NEW n \in Node, SubmitSuccess(t, n) \/ SubmitDuplicate(t, n)
        PROVE  /\ \A m \in Node : held'[m] \subseteq held[m]
               /\ UNCHANGED <<picked, lagTask, reading>>
    <3>1. CASE SubmitSuccess(t, n) BY <3>1, ReportedHeld DEF SubmitSuccess, tickVars, lagVars
    <3>2. CASE SubmitDuplicate(t, n) BY <3>2, ReportedHeld DEF SubmitDuplicate, tickVars, lagVars
    <3> QED BY <2>1, <3>1, <3>2
  <2>2. ASSUME NEW h \in reading, SubmitFailureWrite(h) \/ SubmitFailureRollback(h)
        PROVE  UNCHANGED <<picked, lagTask, held>> /\ reading' \subseteq reading
    BY <2>2 DEF SubmitFailureWrite, SubmitFailureRollback, tickVars, lagVars
  <2> QED BY <1>8, <1>9, <1>10, <1>16, <2>1, <2>2 DEF SubmitNext
<1>17. CASE UNCHANGED vars BY <1>2, <1>17 DEF vars, tickVars, lagVars
<1> QED BY <1>11, <1>12, <1>13, <1>14, <1>15, <1>16, <1>17 DEF Next

(* The instance of the contract brings its own copy of Cardinality. *)
LEMMA SameCardinality == ASSUME NEW S PROVE Contract!Cardinality(S) = Cardinality(S)
BY DEF Cardinality, Contract!Cardinality

(* A step is a step of the contract or leaves what the contract shows alone. *)
LEMMA ContractStep ==
  ASSUME TypeOK, KnownTasks, FailedNeedsDistinctNodes', AttemptsInv, [Next]_vars
  PROVE  [Contract!ContractNext]_<<status, result>>
<1> DEFINE SetTo(S, s) == status' = [t \in Task |-> IF t \in S THEN s ELSE status[t]]
<1>1. CASE UNCHANGED <<status, result>> BY <1>1
<1>2. ASSUME NEW S \in SUBSET Task, Contract!Insert(S) \/ Contract!Requeue(S)
      PROVE  Contract!ContractNext
  BY <1>2 DEF Contract!ContractNext
<1>3. ASSUME NEW t \in Task,
             \/ Contract!Assign(t)
             \/ \E n \in Node : Contract!Succeed(t, n) \/ Contract!Fail(t, n)
      PROVE  Contract!ContractNext
  BY <1>3 DEF Contract!ContractNext
<1>4. CASE NodeNext
  BY <1>1, <1>4 DEF NodeNext, Register, Heartbeat, HeartbeatAges, Poll, Drop, taskVars
<1>5. ASSUME NEW S \in SUBSET Task, GenerateTasks(S) PROVE Contract!Insert(S)
  BY <1>5 DEF GenerateTasks, InsertTasks, Contract!Insert, Contract!SetStatus
<1>6. CASE Recover
  <2>1. Lost \in SUBSET Task /\ \A t \in Lost : status[t] = "assigned" BY DEF Lost
  <2>2. Contract!Requeue(Lost)
    BY <1>6, <2>1 DEF Recover, Requeue, Contract!Requeue, Contract!SetStatus
  <2> QED BY <1>2, <2>1, <2>2
<1>7. CASE AssignUpdate
  <2>1. picked \in Task /\ status[picked] # "absent"
    BY <1>7 DEF AssignUpdate, TypeOK, KnownTasks
  <2>2. SetTo({picked}, "assigned") BY <1>7, <2>1 DEF AssignUpdate, TypeOK
  <2>3. Contract!Assign(picked)
    BY <1>7, <2>1, <2>2 DEF AssignUpdate, Contract!Assign, Contract!SetStatus
  <2> QED BY <1>3, <2>1, <2>3
<1>8. CASE TickNext
  BY <1>1, <1>6, <1>7, <1>8
  DEF TickNext, NothingToSplit, AssignFetch, AssignDone, AssignSelect, AssignNoNode,
      NothingToReduce, taskVars
<1>9. CASE FaultNext BY <1>1, <1>9 DEF FaultNext, TickAborts, CoordinatorCrash, taskVars
<1>10. CASE CommitNext BY <1>1, <1>10 DEF CommitNext, CommitRecovery, CommitTask, taskVars
<1>11. ASSUME NEW t \in Task, NEW n \in Node, SubmitSuccess(t, n) PROVE Contract!ContractNext
  <2>1. status[t] # "absent" BY <1>11 DEF SubmitSuccess, FirstReport, KnownTasks
  <2>2. SetTo({t}, "succeeded") BY <1>11 DEF SubmitSuccess, TypeOK
  <2>3. Contract!Succeed(t, n)
    BY <1>11, <2>1, <2>2
    DEF SubmitSuccess, FirstReport, Contract!Succeed, Contract!Report, Contract!SetStatus
  <2> QED BY <1>3, <2>3
<1>12. ASSUME NEW h \in reading, SubmitFailureWrite(h) PROVE Contract!ContractNext
  <2> DEFINE t == h.task
             n == h.node
  <2>1. t \in Task /\ n \in Node /\ status[t] # "absent" /\ result[t][n] = "none"
    BY DEF TypeOK, Handler, KnownTasks, AttemptsInv, AttemptsAreFailures
  <2>2. Contract!Report(t, n, "failure") BY <1>12, <2>1 DEF SubmitFailureWrite, Contract!Report
  <2>3. CASE h.attempts + 1 < MaxAttempts[t]
    <3>1. Contract!SetStatus({t}, "queued")
      BY <1>12, <2>3 DEF SubmitFailureWrite, Requeue, Contract!SetStatus
    <3> QED BY <1>3, <2>1, <2>2, <3>1 DEF Contract!Fail
  <2>4. CASE ~(h.attempts + 1 < MaxAttempts[t])
    <3>1. SetTo({t}, "failed") BY <1>12, <2>1, <2>4 DEF SubmitFailureWrite, TypeOK
    <3>2. MaxAttempts[t] <= Cardinality(Contract!FailedAt(t))'
      BY <2>1, <3>1 DEF FailedNeedsDistinctNodes, FailureRows, Contract!FailedAt
    <3>3. Contract!SetStatus({t}, "failed") BY <3>1 DEF Contract!SetStatus
    <3>4. Contract!Fail(t, n) BY <2>2, <3>2, <3>3, SameCardinality DEF Contract!Fail
    <3> QED BY <1>3, <2>1, <3>4
  <2> QED BY <2>3, <2>4
<1>13. CASE SubmitNext
  <2>1. ASSUME NEW t \in Task, NEW n \in Node, SubmitFailureRead(t, n) \/ SubmitDuplicate(t, n)
        PROVE  UNCHANGED <<status, result>>
    BY <2>1 DEF SubmitFailureRead, SubmitDuplicate, taskVars
  <2>2. ASSUME NEW h \in reading, SubmitFailureRollback(h) PROVE UNCHANGED <<status, result>>
    BY <2>2 DEF SubmitFailureRollback, taskVars
  <2> QED BY <1>1, <1>11, <1>12, <1>13, <2>1, <2>2 DEF SubmitNext
<1>14. CASE TaskNext
  <2>1. ASSUME NEW t \in Task, DueArrives(t) PROVE UNCHANGED <<status, result>>
    BY <2>1 DEF DueArrives
  <2> QED BY <1>1, <1>2, <1>5, <1>14, <2>1 DEF TaskNext
<1>15. CASE UNCHANGED vars BY <1>1, <1>15 DEF vars, taskVars
<1> QED BY <1>4, <1>8, <1>9, <1>10, <1>13, <1>14, <1>15 DEF Next

(* The store implements its contract: whatever handlers, tick, workers and   *)
(* faults do, the rest of the coordinator sees the steps of TaskContract.    *)
THEOREM ContractKept == Spec => KeepsContract
<1>1. Init => Contract!ContractInit BY DEF Init, Contract!ContractInit
<1>2. Init => KnownTasks BY TaskAssumption DEF Init, KnownTasks
<1>3. TypeOK /\ KnownTasks /\ [Next]_vars => KnownTasks' BY KnownTasksStep
<1>4. AttemptsInv => FailedNeedsDistinctNodes BY DEF AttemptsInv
<1>5. TypeOK /\ KnownTasks /\ FailedNeedsDistinctNodes' /\ AttemptsInv /\ [Next]_vars
        => [Contract!ContractNext]_(Contract!taskVars)
  BY ContractStep DEF Contract!taskVars
<1> QED BY <1>1, <1>2, <1>3, <1>4, <1>5, TypeCorrect, AttemptsInvariant, PTL
        DEF Spec, KeepsContract, Contract!ContractSpec

(* A task shown as succeeded has a stored success: every first report, late  *)
(* or not, leaves its row, and no other step shows success.                  *)
THEOREM SuccessIsStored == Spec => []SucceededHasResult
<1>1. Init => SucceededHasResult BY DEF Init, SucceededHasResult
<1>2. TypeOK /\ SucceededHasResult /\ [Contract!ContractNext]_<<status, result>>
        => SucceededHasResult'
  <2> SUFFICES ASSUME TypeOK, SucceededHasResult, [Contract!ContractNext]_<<status, result>>,
                      NEW t \in Task, status'[t] = "succeeded"
               PROVE  \E n \in Node : result'[t][n] = "success"
    BY DEF SucceededHasResult
  <2>1. CASE UNCHANGED <<status, result>> BY <2>1 DEF SucceededHasResult
  <2>2. ASSUME NEW S \in SUBSET Task, Contract!Insert(S) \/ Contract!Requeue(S)
        PROVE  \E n \in Node : result'[t][n] = "success"
    BY <2>2 DEF Contract!Insert, Contract!Requeue, Contract!SetStatus, SucceededHasResult
  <2>3. ASSUME NEW u \in Task, Contract!Assign(u)
        PROVE  \E n \in Node : result'[t][n] = "success"
    BY <2>3 DEF Contract!Assign, Contract!SetStatus, SucceededHasResult
  <2>4. ASSUME NEW u \in Task, NEW m \in Node, Contract!Succeed(u, m) \/ Contract!Fail(u, m)
        PROVE  \E n \in Node : result'[t][n] = "success"
    <3>1. result[u][m] = "none" /\ \A v \in Task, n \in Node :
             ~(v = u /\ n = m) => result'[v][n] = result[v][n]
      BY <2>4 DEF Contract!Succeed, Contract!Fail, Contract!Report, TypeOK
    <3>2. CASE t = u
      <4>1. Contract!Succeed(u, m)
        BY <2>4, <3>2 DEF Contract!Fail, Contract!SetStatus
      <4> QED BY <3>2, <4>1 DEF Contract!Succeed, Contract!Report, TypeOK
    <3>3. CASE t # u
      <4>1. status[t] = "succeeded"
        BY <2>4, <3>3 DEF Contract!Succeed, Contract!Fail, Contract!SetStatus
      <4> QED BY <3>1, <3>3, <4>1 DEF SucceededHasResult
    <3> QED BY <3>2, <3>3
  <2> QED BY <2>1, <2>2, <2>3, <2>4 DEF Contract!ContractNext
<1>3. KeepsContract => [][Contract!ContractNext]_<<status, result>>
  BY PTL DEF KeepsContract, Contract!ContractSpec, Contract!taskVars
<1> QED BY <1>1, <1>2, <1>3, TypeCorrect, ContractKept, PTL DEF Spec
=============================================================================
