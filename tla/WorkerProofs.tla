---------------------------- MODULE WorkerProofs ----------------------------
(***************************************************************************)
(* Theorems about Worker, for any processes, nodes and tasks, any number   *)
(* of restarts with whichever NODE_ID, with asynchronous commits and       *)
(* faults or without them.                                                 *)
(***************************************************************************)
EXTENDS Worker, TaskStoreProofs, SchedulerProofs

USE NodeAssumption, TaskAssumption

-----------------------------------------------------------------------------
(* Typing *)

(* A step that leaves the processes and what is held alone. *)
LEMMA SameProcesses ==
  ASSUME WorkerTypeOK, UNCHANGED <<workerVars, held>>, taken' \subseteq Task
  PROVE  WorkerTypeOK'
<1>1. \A n \in Node : Held(n)' = Held(n) BY DEF Held, workerVars
<1> QED BY <1>1 DEF WorkerTypeOK, workerVars

(* What a thread does keeps the types of the workers. *)
LEMMA ThreadTypes ==
  ASSUME TypeOK, WorkerTypeOK, NEW w \in Worker, Thread(w) \/ Dies(w) PROVE WorkerTypeOK'
<1> USE DEF WorkerTypeOK, At, Goto
<1>1. ASSUME NEW label \in {"beat", "poll", "batch"}, pc[w] \in {"beat", "poll"},
             label # "batch" => batch' = batch,
             pc' = [pc EXCEPT ![w] = label], UNCHANGED <<nodeId, taken, current>>,
             batch' \in [Worker -> SUBSET Task], \A v \in Worker \ {w} : batch'[v] = batch[v],
             held' = [n \in Node |-> Held(n)']
      PROVE  WorkerTypeOK'
  BY <1>1
<1>2. ASSUME UNCHANGED <<batch, nodeId, held>> PROVE held' = [n \in Node |-> Held(n)']
  BY <1>2 DEF Held
<1>3. CASE Beats(w) BY <1>1, <1>2, <1>3 DEF Beats, Heartbeat
<1>4. CASE BeatFails(w) BY <1>1, <1>2, <1>4 DEF BeatFails, vars
<1>5. CASE PollsNothing(w) BY <1>1, <1>2, <1>5 DEF PollsNothing, vars
<1>6. CASE Polls(w)
  <2> DEFINE n == nodeId[w]
             new == RunningOn(n) \ lagTask
  <2>1. /\ pc[w] = "poll" /\ pc' = [pc EXCEPT ![w] = "batch"]
        /\ batch' = [batch EXCEPT ![w] = new]
        /\ UNCHANGED <<nodeId, taken, current>>
        /\ Poll(n) \/ held' = held
        /\ batch'[w] \subseteq held'[n]
    BY <1>6 DEF Polls, vars
  <2>2. n \in Node /\ new \subseteq Task /\ batch[w] = {} /\ held \in [Node -> SUBSET Task]
    BY <2>1 DEF RunningOn, TypeOK
  <2>3. held' = [held EXCEPT ![n] = @ \cup new]
    <3>1. CASE Poll(n) BY <3>1 DEF Poll
    <3>2. CASE held' = held
      <4>1. new \subseteq held[n] BY <2>1, <2>2, <3>2
      <4> QED BY <2>2, <3>2, <4>1
    <3> QED BY <2>1, <3>1, <3>2
  <2> HIDE DEF new
  <2>4. \A m \in Node : Held(m)' = IF m = n THEN Held(m) \cup new ELSE Held(m)
    BY <2>1, <2>2 DEF Held
  <2>5. held' = [m \in Node |-> Held(m)'] BY <2>2, <2>3, <2>4
  <2> QED BY <1>1, <2>1, <2>2, <2>5
<1>7. ASSUME NEW t \in Task, Reports(w, t) PROVE WorkerTypeOK'
  BY <1>7 DEF Reports, HeldStaysExact
<1>8. CASE Answers(w)
  <2>1. held' = [n \in Node |-> Held(n)'] BY <1>2, <1>8 DEF Answers, vars
  <2> QED BY <1>8, <2>1 DEF Answers
<1>9. CASE RequestFails(w) BY <1>9 DEF RequestFails, Abandons, HeldStaysExact
<1>10. CASE Dies(w) BY <1>10 DEF Dies, Abandons, HeldStaysExact
<1> QED BY <1>3, <1>4, <1>5, <1>6, <1>7, <1>8, <1>9, <1>10 DEF Thread

(* So does every other step. *)
LEMMA WorkerTypesStep == ASSUME TypeOK, WorkerTypeOK, [WorkerNext]_allVars PROVE WorkerTypeOK'
<1>1. CASE CoordinatorNext /\ UNCHANGED workerVars
  <2>1. taken' \subseteq Task
    BY <1>1 DEF WorkerTypeOK, CoordinatorNext, Takes, Assigns, AssignUpdate, Lost, TypeOK
  <2>2. held' = held
    BY <1>1 DEF CoordinatorNext, Takes, Assigns, Recover, AssignUpdate, AssignSelect, HeartbeatAges,
                AssignFetch, DueArrives, CommitTask, GenerateTasks, SubmitFailureWrite,
                SubmitFailureRollback, NothingToSplit, AssignDone, AssignNoNode, NothingToReduce,
                CommitRecovery, TickAborts, CoordinatorCrash
  <2> QED BY <1>1, <2>1, <2>2, SameProcesses
<1>2. ASSUME NEW w \in Worker, NEW n \in Node, Registers(w, n) \/ Resumes(w, n)
      PROVE  WorkerTypeOK'
  <2>1. Enters(w, n) /\ held' = held BY <1>2 DEF Registers, Resumes, Register, vars
  <2>2. batch[w] = {} BY <2>1 DEF WorkerTypeOK, Enters
  <2>3. \A m \in Node : Held(m)' = Held(m) BY <2>1, <2>2 DEF WorkerTypeOK, Enters, Held
  <2> QED BY <2>1, <2>2, <2>3 DEF WorkerTypeOK, Enters
<1>3. ASSUME NEW w \in Worker, NEW n \in Node, RegistersUnheard(w, n) PROVE WorkerTypeOK'
  BY <1>3, SameProcesses DEF RegistersUnheard, Register, WorkerTypeOK
<1>4. ASSUME NEW w \in Worker, Thread(w) \/ Dies(w) PROVE WorkerTypeOK' BY <1>4, ThreadTypes
<1>5. CASE UNCHANGED allVars BY <1>5, SameProcesses DEF allVars, vars, WorkerTypeOK
<1> QED BY <1>1, <1>2, <1>3, <1>4, <1>5 DEF WorkerNext, Launch

-----------------------------------------------------------------------------
(* The workers and the store *)

(* What a thread does to the store: a step of its node, a report or nothing. *)
LEMMA ThreadStep ==
  ASSUME WorkerTypeOK, NEW w \in Worker, Thread(w) \/ Dies(w)
  PROVE  \/ NodeNext
         \/ UNCHANGED vars
         \/ \E t \in Task, n \in Node :
              SubmitSuccess(t, n) \/ SubmitFailureRead(t, n) \/ SubmitDuplicate(t, n)
<1>1. ASSUME NEW n \in Node, Heartbeat(n) \/ Poll(n) \/ Drop(n) PROVE NodeNext
  BY <1>1 DEF NodeNext
<1>2. ~At(w, "down") /\ nodeId[w] \in Node
  BY DEF WorkerTypeOK, Thread, At, Beats, BeatFails, Polls, PollsNothing, Reports, Answers,
         RequestFails, Dies
<1>3. CASE Beats(w) \/ Polls(w) BY <1>1, <1>2, <1>3 DEF Beats, Polls
<1>4. CASE \E t \in Task : Reports(w, t) BY <1>2, <1>4 DEF Reports
<1>5. CASE RequestFails(w) \/ Dies(w) BY <1>1, <1>2, <1>5 DEF RequestFails, Dies, Abandons
<1>6. CASE BeatFails(w) \/ PollsNothing(w) \/ Answers(w)
  BY <1>6 DEF BeatFails, PollsNothing, Answers
<1> QED BY <1>3, <1>4, <1>5, <1>6 DEF Thread

(* Every step is one of the store, or changes nothing in it. *)
LEMMA WorkerStoreStep == ASSUME WorkerTypeOK, [WorkerNext]_allVars PROVE [Next]_vars
<1>1. CASE CoordinatorNext
  BY <1>1 DEF CoordinatorNext, Takes, Assigns, Next, NodeNext, TaskNext, TickNext, FaultNext,
              CommitNext, SubmitNext
<1>2. ASSUME NEW w \in Worker, Launch(w) PROVE [Next]_vars
  BY <1>2 DEF Launch, Registers, RegistersUnheard, Resumes, Next, NodeNext
<1>3. CASE UNCHANGED allVars BY <1>3 DEF allVars
<1> QED BY <1>1, <1>2, <1>3, ThreadStep DEF WorkerNext, Next, SubmitNext

(* Both modules' type invariants, which need each other. *)
LEMMA BothTypes == WorkerSpec => [](TypeOK /\ WorkerTypeOK)
<1>1. WorkerInit => TypeOK /\ WorkerTypeOK
  <2> SUFFICES ASSUME WorkerInit PROVE TypeOK /\ WorkerTypeOK OBVIOUS
  <2>1. ASSUME NEW n \in Node PROVE Held(n) = {}
    <3>1. \A w \in Worker : nodeId[w] # n BY DEF WorkerInit
    <3> QED BY <3>1 DEF Held
  <2>2. TypeOK BY LoadCapAssumption DEF WorkerInit, Init, TypeOK
  <2> QED BY <2>1, <2>2 DEF WorkerInit, Init, WorkerTypeOK
<1>2. TypeOK /\ WorkerTypeOK /\ [WorkerNext]_allVars => (TypeOK /\ WorkerTypeOK)'
  BY TypeStep, WorkerStoreStep, WorkerTypesStep
<1> QED BY <1>1, <1>2, PTL DEF WorkerSpec

(* Every variable of the workers keeps its type, a process that is up has a  *)
(* node id, one that waits for an answer has a task it has reported, and the *)
(* store's held is what the processes hold.                                  *)
THEOREM WorkerTypes == WorkerSpec => []WorkerTypeOK
BY BothTypes, PTL

(* The worker program uses the store as TaskStore lets nodes use it, so what *)
(* is proved of the store holds of the two together.                         *)
THEOREM WorkerUsesStore == WorkerSpec => Spec
<1>1. WorkerInit => Init BY DEF WorkerInit
<1>2. WorkerTypeOK /\ [WorkerNext]_allVars => [Next]_vars BY WorkerStoreStep
<1> QED BY <1>1, <1>2, WorkerTypes, PTL DEF WorkerSpec, Spec

(* What any user of the store relies on: loads that are never too low,       *)
(* attempts that are never too many, a stored success behind each success.   *)
COROLLARY StoreOfWorkers ==
  WorkerSpec => [](TypeOK /\ AttemptsInv /\ LoadCoversWork /\ SucceededHasResult)
BY WorkerUsesStore, TypeCorrect, AttemptsInvariant, LoadIsCovered, SuccessIsStored, PTL

-----------------------------------------------------------------------------
(* Whose report counts *)

(* A step that brings no report on the way and leaves assignments alone.     *)
LEMMA NoMoreReports ==
  ASSUME CountsFromAssignee, taken \subseteq taken',
         \A t \in Task \ taken' : \A n \in Node :
           WillCount(n, t)' => /\ WillCount(n, t)
                               /\ status'[t] = status[t] /\ assignedTo'[t] = assignedTo[t]
  PROVE  CountsFromAssignee'
BY DEF CountsFromAssignee

(* The report of t by n arrives: no other one is on the way, so t is free to *)
(* get whatever status the handler gives it.                                 *)
LEMMA LastReport ==
  ASSUME CountsFromAssignee, taken' = taken, NEW t \in Task, NEW n \in Node,
         WillCount(n, t), ~WillCount(n, t)',
         \A u \in Task : \A m \in Node : WillCount(m, u)' => WillCount(m, u),
         \A u \in Task \ {t} : status'[u] = status[u] /\ assignedTo'[u] = assignedTo[u]
  PROVE  CountsFromAssignee'
<1> SUFFICES ASSUME NEW u \in Task \ taken, NEW m \in Node, WillCount(m, u)'
             PROVE  status'[u] = "assigned" /\ assignedTo'[u] = m
  BY DEF CountsFromAssignee
<1>1. WillCount(m, u) /\ status[u] = "assigned" /\ assignedTo[u] = m BY DEF CountsFromAssignee
<1>2. u # t
  <2> SUFFICES ASSUME u = t PROVE FALSE OBVIOUS
  <2>1. assignedTo[t] = n BY DEF CountsFromAssignee
  <2> QED BY <1>1, <2>1
<1> QED BY <1>1, <1>2

(* The steps of the coordinator and of clients. *)
LEMMA CoordinatorCounts ==
  ASSUME TypeOK, TypeOK', AttemptsInv, CountsFromAssignee, CoordinatorNext
  PROVE  CountsFromAssignee'
<1> USE DEF TypeOK, WillCount, HandlerAt
<1>1. CASE Takes
  <2>1. \A t \in Task \ taken' : status'[t] = status[t] /\ assignedTo'[t] = assignedTo[t]
    BY <1>1 DEF Takes, Recover, Requeue
  <2>2. UNCHANGED <<held, result, reading>> /\ taken \subseteq taken' BY <1>1 DEF Takes, Recover
  <2> QED BY <2>1, <2>2, NoMoreReports
<1>2. CASE Assigns
  <2>1. picked \in Task BY <1>2 DEF Assigns, AssignUpdate
  <2>2. UNCHANGED <<held, result, reading>> /\ taken \subseteq taken'
    BY <1>2 DEF Assigns, AssignUpdate
  <2>3. \A t \in Task \ {picked} : status'[t] = status[t] /\ assignedTo'[t] = assignedTo[t]
    BY <1>2 DEF Assigns, AssignUpdate
  <2>4. picked \notin taken' => \A n \in Node : ~WillCount(n, picked)
    BY <1>2, <2>1, <2>2 DEF Assigns, CountsFromAssignee
  <2> QED BY <2>2, <2>3, <2>4, NoMoreReports
<1>3. ASSUME NEW S \in SUBSET Task, GenerateTasks(S), taken' = taken PROVE CountsFromAssignee'
  <2>1. UNCHANGED <<held, result, reading, assignedTo>> BY <1>3 DEF GenerateTasks, InsertTasks
  <2>2. \A t \in Task : status[t] = "assigned" => status'[t] = status[t]
    BY <1>3 DEF GenerateTasks, InsertTasks
  <2> QED BY <1>3, <2>1, <2>2, NoMoreReports DEF CountsFromAssignee
<1>4. ASSUME NEW h \in reading, SubmitFailureWrite(h), taken' = taken PROVE CountsFromAssignee'
  <2>1. h.task \in Task /\ h.node \in Node /\ h.attempts \in Nat BY DEF Handler
  <2>2. WillCount(h.node, h.task) BY <2>1
  <2>3. /\ ~WillCount(h.node, h.task)'
        /\ \A t \in Task : \A n \in Node : WillCount(n, t)' => WillCount(n, t)
    BY <1>4, <2>1 DEF SubmitFailureWrite, AttemptsInv, OneHandlerPerRow
  <2>4. \A t \in Task \ {h.task} : status'[t] = status[t] /\ assignedTo'[t] = assignedTo[t]
    <3>1. CASE h.attempts + 1 < MaxAttempts[h.task] BY <1>4, <2>1, <3>1 DEF SubmitFailureWrite, Requeue
    <3>2. CASE ~(h.attempts + 1 < MaxAttempts[h.task]) BY <1>4, <2>1, <3>2 DEF SubmitFailureWrite
    <3> QED BY <3>1, <3>2
  <2> HIDE DEF WillCount, HandlerAt
  <2> QED BY <1>4, <2>1, <2>2, <2>3, <2>4, LastReport
<1>5. ASSUME UNCHANGED <<status, assignedTo, held, result, taken>>, reading' \subseteq reading
      PROVE  CountsFromAssignee'
  BY <1>5, NoMoreReports
<1>6. ASSUME NEW h \in reading, SubmitFailureRollback(h), taken' = taken PROVE CountsFromAssignee'
  BY <1>5, <1>6 DEF SubmitFailureRollback, taskVars
<1>7. CASE /\ \/ \E n \in Node : AssignSelect(n) \/ HeartbeatAges(n)
              \/ \E t \in Task : AssignFetch(t) \/ DueArrives(t) \/ CommitTask(t)
              \/ NothingToSplit \/ AssignDone \/ AssignNoNode \/ NothingToReduce
              \/ CommitRecovery \/ TickAborts \/ CoordinatorCrash
           /\ taken' = taken
  BY <1>5, <1>7 DEF AssignSelect, HeartbeatAges, AssignFetch, DueArrives, CommitTask, NothingToSplit,
                    AssignDone, AssignNoNode, NothingToReduce, CommitRecovery, TickAborts,
                    CoordinatorCrash, taskVars
<1> QED BY <1>1, <1>2, <1>3, <1>4, <1>6, <1>7 DEF CoordinatorNext

(* The requests of workers. *)
LEMMA WorkersCount ==
  ASSUME TypeOK, TypeOK', AttemptsInv, CountsFromAssignee, taken' = taken,
         \/ NodeNext
         \/ UNCHANGED vars
         \/ \E t \in Task, n \in Node :
              SubmitSuccess(t, n) \/ SubmitFailureRead(t, n) \/ SubmitDuplicate(t, n)
  PROVE  CountsFromAssignee'
<1> USE DEF TypeOK, WillCount, HandlerAt, taskVars
<1>1. ASSUME UNCHANGED <<status, assignedTo>>,
             \A t \in Task : \A n \in Node : WillCount(n, t)' => WillCount(n, t)
      PROVE  CountsFromAssignee'
  BY <1>1, NoMoreReports
<1>2. ASSUME NEW n \in Node, Register(n) \/ Heartbeat(n) \/ HeartbeatAges(n)
      PROVE  CountsFromAssignee'
  BY <1>1, <1>2 DEF Register, Heartbeat, HeartbeatAges
<1>3. ASSUME NEW n \in Node, Poll(n) PROVE CountsFromAssignee'
  BY <1>3 DEF CountsFromAssignee, Poll, RunningOn
<1>4. ASSUME NEW n \in Node, Drop(n) PROVE CountsFromAssignee' BY <1>1, <1>4 DEF Drop
<1>5. ASSUME NEW t \in Task, NEW n \in Node, SubmitSuccess(t, n) PROVE CountsFromAssignee'
  <2>1. WillCount(n, t) BY <1>5 DEF SubmitSuccess, FirstReport
  <2>2. ~WillCount(n, t)' /\ \A u \in Task : \A m \in Node : WillCount(m, u)' => WillCount(m, u)
    <3>1. \A m \in Node : held'[m] \subseteq held[m] BY <1>5, ReportedHeld DEF SubmitSuccess
    <3>2. reading' = reading /\ HandlerAt(t, n) = {} BY <1>5 DEF SubmitSuccess, FirstReport
    <3>3. result'[t][n] = "success"
          /\ \A u \in Task : \A m \in Node : result'[u][m] = "none" => result[u][m] = "none"
      BY <1>5 DEF SubmitSuccess
    <3> QED BY <3>1, <3>2, <3>3
  <2>3. \A u \in Task \ {t} : status'[u] = status[u] /\ assignedTo'[u] = assignedTo[u]
    BY <1>5 DEF SubmitSuccess
  <2> HIDE DEF WillCount, HandlerAt
  <2> QED BY <2>1, <2>2, <2>3, LastReport
<1>6. ASSUME NEW t \in Task, NEW n \in Node, SubmitFailureRead(t, n) PROVE CountsFromAssignee'
  <2>1. \A m \in Node : held'[m] \subseteq held[m] BY <1>6, ReportedHeld DEF SubmitFailureRead
  <2>2. t \in held[n] /\ result[t][n] = "none" /\ UNCHANGED <<status, assignedTo, result>>
    BY <1>6 DEF SubmitFailureRead, FirstReport
  <2>3. \A h \in reading' : h \in reading \/ (h.task = t /\ h.node = n)
    BY <1>6 DEF SubmitFailureRead
  <2> QED BY <1>1, <2>1, <2>2, <2>3
<1>7. ASSUME NEW t \in Task, NEW n \in Node, SubmitDuplicate(t, n) PROVE CountsFromAssignee'
  <2>1. \A m \in Node : held'[m] \subseteq held[m] BY <1>7, ReportedHeld DEF SubmitDuplicate
  <2> QED BY <1>1, <1>7, <2>1 DEF SubmitDuplicate
<1>8. CASE UNCHANGED vars BY <1>1, <1>8 DEF vars
<1> QED BY <1>2, <1>3, <1>4, <1>5, <1>6, <1>7, <1>8 DEF NodeNext

(* A report of a task that was not taken from a node counts only if it comes *)
(* from the node the task is assigned to: through restarts with whichever    *)
(* NODE_ID, lost requests and answers, and COMMITs that lag.                 *)
THEOREM ReportsCountFromAssignee == WorkerSpec => []CountsFromAssignee
<1>1. WorkerInit => CountsFromAssignee
  BY DEF WorkerInit, Init, CountsFromAssignee, WillCount, HandlerAt
<1>2. ASSUME WorkerTypeOK, TypeOK, TypeOK', AttemptsInv, CountsFromAssignee, [WorkerNext]_allVars
      PROVE  CountsFromAssignee'
  <2>1. CASE CoordinatorNext BY <1>2, <2>1, CoordinatorCounts
  <2>2. CASE ~CoordinatorNext
    <3>1. taken' = taken
      BY <1>2, <2>2
      DEF WorkerNext, Launch, Registers, RegistersUnheard, Resumes, Enters, Thread, Beats, BeatFails,
          Polls, PollsNothing, Reports, Answers, RequestFails, Dies, Abandons, Goto, allVars
    <3>2. ASSUME NEW w \in Worker, Launch(w) PROVE UNCHANGED vars \/ NodeNext
      BY <3>2 DEF Launch, Registers, RegistersUnheard, Resumes, NodeNext
    <3> QED BY <1>2, <2>2, <3>1, <3>2, ThreadStep, WorkersCount DEF WorkerNext, allVars
  <2> QED BY <2>1, <2>2
<1> QED BY <1>1, <1>2, WorkerTypes, StoreOfWorkers, PTL DEF WorkerSpec

-----------------------------------------------------------------------------
(* The scheduler *)

(* A row of an online node is one that the scheduler can score. *)
LEMMA RowIsMetric ==
  ASSUME TypeOK, NEW n \in Node
  PROVE  Row(n) \in Metric
BY HardwareAssumption, LoadCapAssumption DEF TypeOK, Row, Metric

(* The score is monotone: with as good hardware it falls with the load. *)
LEMMA AsGoodScores ==
  ASSUME TypeOK, NEW m \in Node, NEW n \in Node, AsGood(m, n), Score(Row(m)) <= Score(Row(n))
  PROVE  load[n] <= load[m]
<1>1. /\ Hardware[m].cpuCores \in Int /\ Hardware[n].cpuCores \in Int
      /\ Hardware[m].ramMb \in Int /\ Hardware[n].ramMb \in Int
      /\ Hardware[m].performanceScore \in Int /\ Hardware[n].performanceScore \in Int
      /\ load[m] \in Int /\ load[n] \in Int
  BY HardwareAssumption, LoadCapAssumption DEF TypeOK
<1> QED BY <1>1 DEF Score, Row, AsGood

LEMMA LowerLoadNow == TypeOK => LowerLoadFirst
<1> SUFFICES ASSUME TypeOK, OnlineNodes # {}, NEW list \in Lists(OnlineNodes)
             PROVE  LET n == list[SelectNode([i \in DOMAIN list |-> Row(list[i])])]
                    IN \A m \in OnlineNodes : AsGood(m, n) => load[n] <= load[m]
  BY DEF LowerLoadFirst
<1> DEFINE rows == [i \in DOMAIN list |-> Row(list[i])]
           k == Cardinality(OnlineNodes)
           b == SelectNode(rows)
<1>1. OnlineNodes \subseteq Node BY DEF OnlineNodes
<1>2. k \in Nat /\ k # 0
  BY <1>1, NodeAssumption, FS_Subset, FS_CardinalityType, FS_EmptySet
<1>3. list \in [1 .. k -> OnlineNodes] /\ \A m \in OnlineNodes : \E i \in 1 .. k : list[i] = m
  BY DEF Lists
<1>4. rows \in Seq(Metric) /\ Len(rows) = k /\ \A i \in 1 .. k : rows[i] = Row(list[i])
  <2> HIDE DEF k
  <2>1. \A i \in 1 .. k : Row(list[i]) \in Metric BY <1>1, <1>3, RowIsMetric
  <2>2. rows \in [1 .. k -> Metric] BY <1>3, <2>1
  <2>3. \A i \in 1 .. k : rows[i] = Row(list[i]) BY <1>3
  <2> HIDE DEF rows
  <2> QED BY <1>2, <2>2, <2>3
<1>5. b \in 1 .. k /\ \A i \in 1 .. k : Score(rows[i]) <= Score(rows[b])
  <2> HIDE DEF rows, k
  <2> QED BY <1>2, <1>4, SelectNodeIsFirstBest DEF FirstBest
<1>6. ASSUME NEW m \in OnlineNodes, AsGood(m, list[b]) PROVE load[list[b]] <= load[m]
  <2> HIDE DEF rows, k, b
  <2>1. PICK i \in 1 .. k : list[i] = m BY <1>3
  <2>2. Score(Row(m)) <= Score(Row(list[b])) BY <1>4, <1>5, <2>1
  <2>3. m \in Node /\ list[b] \in Node BY <1>1, <1>3, <1>5
  <2> QED BY <1>6, <2>2, <2>3, AsGoodScores
<1> QED BY <1>6

(* Whatever order the query returns the online nodes in, the scheduler never *)
(* prefers a node to one with as good hardware and a lower load.             *)
THEOREM SchedulerPrefersLowerLoad == WorkerSpec => []LowerLoadFirst
<1>1. Spec => []TypeOK BY TypeCorrect
<1> QED BY <1>1, WorkerUsesStore, LowerLoadNow, PTL
=============================================================================
