------------------------- MODULE CoordinatorProofs -------------------------
(***************************************************************************)
(* Theorems about Coordinator: the store and the jobs, put together, are   *)
(* each what its own module says.  For any nodes, tasks and jobs, limits   *)
(* and switches; and with them the theorems of both modules hold.          *)
(***************************************************************************)
EXTENDS Coordinator, TaskStoreProofs

USE NodeAssumption, TaskAssumption, NoJobAssumption, SwitchAssumption

-----------------------------------------------------------------------------
(* The invariant that carries the refinement *)

(* Store and jobs agree on the stage of the tick.  No assignment waits for   *)
(* its COMMIT while a job is split: the recovery before has waited for it.   *)
StagesAgree ==
  /\ tick = "recover" <=> phase = "recover"
  /\ tick \in {"list", "reduce"} <=> phase = "reduce"
  /\ phase \in {"fetch", "select", "update"} => tick = "assign"
  /\ phase = "split" => lagTask = {}

(* What other sessions see differs from the table only in the tasks whose    *)
(* assignment is not committed.                                              *)
SeenTasks ==
  /\ committed \in [Task -> {"absent"} \cup TaskStatus]
  /\ \A t \in Task :
       IF t \in lagTask THEN AsyncCommit /\ status[t] = "assigned" /\ committed[t] # "absent"
       ELSE committed[t] = status[t]

(* A worker holds, and reports, only tasks that were handed out.             *)
HeldAreHanded ==
  /\ handed \subseteq Task
  /\ \A n \in Node : held[n] \cup (RunningOn(n) \ lagTask) \subseteq handed
  /\ \A h \in reading : h.task \in handed

(* What the induction of KeepsPipeline needs of where tick, handlers and     *)
(* COMMITs are.  It is bookkeeping between the two modules, no claim.        *)
CoordInv == StagesAgree /\ SeenTasks /\ HeldAreHanded

-----------------------------------------------------------------------------
(* The store *)

(* Every step is one of TaskStore or leaves its tables alone. *)
LEMMA CoordStoreStep == ASSUME [CoordNext /\ Commit]_coordVars PROVE [Next]_vars
<1>1. CASE StoreAlone
  BY <1>1 DEF StoreAlone, Next, TaskNext, TickNext, CommitNext, SubmitNext
<1>2. CASE Recovers \/ Assigns \/ AssignEnds \/ SplitEnds \/ TickEnds
  BY <1>2 DEF Recovers, Assigns, AssignEnds, SplitEnds, TickEnds, Next, TickNext
<1>3. ASSUME NEW t \in Task,
             AssignCommits(t) \/ \E n \in Node : Succeeds(t, n) \/ Repeats(t, n)
      PROVE  Next
  BY <1>3 DEF AssignCommits, Succeeds, Repeats, Next, CommitNext, SubmitNext
<1>4. ASSUME NEW h \in reading, Fails(h) PROVE Next BY <1>4 DEF Fails, Next, SubmitNext
<1>5. CASE JobsAlone BY <1>5 DEF JobsAlone
<1>6. ASSUME NEW S \in SUBSET Task, Splits(S) PROVE [Next]_vars
  BY <1>6 DEF Splits, Next, TaskNext
<1>7. CASE Aborts \/ Crashes BY <1>7 DEF Aborts, Crashes, Next, FaultNext
<1>8. CASE UNCHANGED coordVars BY <1>8 DEF coordVars
<1> QED BY <1>1, <1>2, <1>3, <1>4, <1>5, <1>6, <1>7, <1>8 DEF CoordNext

(* The coordinator as a whole uses the task store as TaskStore says, so all  *)
(* the theorems about the store hold of it.                                  *)
THEOREM CoordinatorUsesStore == CoordSpec => Spec
<1>1. CoordInit => Init BY DEF CoordInit
<1>2. [CoordNext /\ Commit]_coordVars => [Next]_vars BY CoordStoreStep
<1> QED BY <1>1, <1>2, PTL DEF CoordSpec, Spec

-----------------------------------------------------------------------------
(* Stages of the tick *)

(* A step of the jobs alone, for what becomes of the tick. *)
LEMMA JobsAloneTick ==
  ASSUME JobsAlone
  PROVE  /\ UNCHANGED vars /\ UNCHANGED handed
         /\ \/ UNCHANGED tick
            \/ /\ tick \in {"split", "running_split", "invalid_subtask"}
               /\ tick' \in {"running_split", "assign"}
            \/ tick = "list" /\ tick' = "reduce"
BY DEF JobsAlone, Jobs!SplitNone, Jobs!SplitFails, Jobs!ListReady, Jobs!HookNext, Jobs!HookReads,
  Jobs!HookFailsJob, Jobs!HookClaims, Jobs!HookClaimThrows, Jobs!HookIgnores, Jobs!ReduceNext,
  Jobs!ReadParts, Jobs!ReduceDone, Jobs!ReduceFails, Jobs!CreateJob, Jobs!SplitClaim,
  Jobs!TickClaims, Jobs!TickPasses, Jobs!TickClaimThrows, Jobs!HookDies, Jobs!tickVars

(* Store and jobs move through the stages of the tick together. *)
LEMMA StagesStep ==
  ASSUME TypeOK, StagesAgree, [CoordNext /\ Commit]_coordVars
  PROVE  StagesAgree'
<1> USE DEF StagesAgree
<1>1. CASE StoreAlone
  <2>1. UNCHANGED tick BY <1>1 DEF StoreAlone, jobsVars, stageVars
  <2>2. ASSUME NEW t \in Task, AssignFetch(t) PROVE StagesAgree'
    BY <2>1, <2>2 DEF AssignFetch, lagVars
  <2>3. ASSUME NEW n \in Node, AssignSelect(n) PROVE StagesAgree'
    BY <2>1, <2>3 DEF AssignSelect, lagVars
  <2>4. CASE UNCHANGED <<phase, lagTask>> BY <2>1, <2>4
  <2> QED BY <1>1, <2>2, <2>3, <2>4
          DEF StoreAlone, NodeNext, Register, Heartbeat, HeartbeatAges, Poll, Drop, CommitRecovery,
              GenerateTasks, DueArrives, SubmitFailureRead, SubmitFailureRollback, tickVars, lagVars
<1>2. CASE Recovers BY <1>2 DEF Recovers, Recover, TickTo
<1>3. CASE Assigns BY <1>3 DEF Assigns, AssignUpdate, Hands, stageVars
<1>4. CASE AssignEnds BY <1>4 DEF AssignEnds, AssignDone, AssignNoNode, TickTo, lagVars
<1>5. ASSUME NEW t \in Task, AssignCommits(t) PROVE StagesAgree'
  BY <1>5 DEF AssignCommits, CommitTask, Hands, tickVars, stageVars
<1>6. ASSUME NEW t \in Task, NEW n \in Node, Succeeds(t, n) \/ Repeats(t, n) PROVE StagesAgree'
  BY <1>6 DEF Succeeds, Repeats, SubmitSuccess, SubmitDuplicate, Continues, jobsVars, tickVars,
    lagVars, stageVars
<1>7. ASSUME NEW h \in reading, Fails(h) PROVE StagesAgree'
  BY <1>7 DEF Fails, SubmitFailureWrite, Continues, tickVars, lagVars, stageVars
<1>8. CASE JobsAlone
  <2>1. UNCHANGED <<phase, lagTask>> BY <1>8 DEF JobsAlone, vars, tickVars, lagVars
  <2>2. phase \in {"recover", "split", "fetch", "select", "update", "reduce"} BY DEF TypeOK
  <2> QED BY <1>8, <2>1, <2>2, JobsAloneTick
<1>9. ASSUME NEW S \in SUBSET Task, Splits(S) PROVE StagesAgree'
  <2>1. UNCHANGED <<phase, lagTask>>
    BY <1>9 DEF Splits, GenerateTasks, vars, tickVars, lagVars
  <2>2. tick = "running_split" /\ tick' \in {"assign", "invalid_subtask"}
    BY <1>9 DEF Splits, Jobs!SplitDone, Jobs!SplitInvalid
  <2>3. phase \in {"recover", "split", "fetch", "select", "update", "reduce"} BY DEF TypeOK
  <2> QED BY <2>1, <2>2, <2>3
<1>10. CASE SplitEnds BY <1>10 DEF SplitEnds, NothingToSplit, jobsVars, stageVars, lagVars
<1>11. CASE TickEnds BY <1>11 DEF TickEnds, NothingToReduce, Jobs!ReducesDone, lagVars
<1>12. CASE Aborts BY <1>12 DEF Aborts, TickAborts, Jobs!TickAborts, lagVars
<1>13. CASE Crashes BY <1>13 DEF Crashes, CoordinatorCrash, Jobs!Crash, lagVars
<1>14. CASE UNCHANGED coordVars
  BY <1>14 DEF coordVars, vars, tickVars, lagVars, jobsVars, stageVars
<1> QED BY <1>1, <1>2, <1>3, <1>4, <1>5, <1>6, <1>7, <1>8, <1>9, <1>10, <1>11, <1>12, <1>13, <1>14
        DEF CoordNext

-----------------------------------------------------------------------------
(* What other sessions see *)

(* A failure that is recorded: its task is requeued or fails for good. *)
LEMMA FailureStatus ==
  ASSUME TypeOK, NEW h \in reading, SubmitFailureWrite(h)
  PROVE  /\ h.task \in Task \ lagTask /\ h.node \in Node
         /\ status' = [status EXCEPT ![h.task] =
                        IF h.attempts + 1 < MaxAttempts[h.task] THEN "queued" ELSE "failed"]
         /\ \A t \in Task \ {h.task} : assignedTo'[t] = assignedTo[t]
         /\ UNCHANGED <<held, lagTask>>
         /\ reading' = reading \ {h}
<1> USE DEF TypeOK, Handler
<1>1. h.task \in Task \ lagTask /\ h.node \in Node BY DEF SubmitFailureWrite
<1>2. UNCHANGED <<held, lagTask>> /\ reading' = reading \ {h} BY DEF SubmitFailureWrite, lagVars
<1>3. CASE h.attempts + 1 < MaxAttempts[h.task]
  <2>1. Requeue({h.task}) BY <1>3 DEF SubmitFailureWrite
  <2>2. status' = [status EXCEPT ![h.task] = "queued"] BY <1>1, <2>1 DEF Requeue
  <2>3. \A t \in Task \ {h.task} : assignedTo'[t] = assignedTo[t] BY <1>1, <2>1 DEF Requeue
  <2> QED BY <1>1, <1>2, <1>3, <2>2, <2>3
<1>4. CASE ~(h.attempts + 1 < MaxAttempts[h.task])
  <2>1. status' = [status EXCEPT ![h.task] = "failed"] /\ assignedTo' = assignedTo
    BY <1>4 DEF SubmitFailureWrite
  <2> QED BY <1>1, <1>2, <1>4, <2>1
<1> QED BY <1>3, <1>4

(* An assignment joins those that are not committed only when the tick makes *)
(* it, and no step touches the status of a task that is among them.          *)
LEMMA LagStep ==
  ASSUME TypeOK, \A t \in lagTask : AsyncCommit /\ status[t] = "assigned", [Next]_vars
  PROVE  /\ \A t \in lagTask' : AsyncCommit /\ status'[t] = "assigned"
         /\ \A t \in lagTask' \ lagTask : t = picked /\ phase = "update"
<1> USE DEF taskVars, lagVars
<1>1. CASE UNCHANGED <<status, lagTask>> BY <1>1
<1>2. CASE NodeNext BY <1>1, <1>2 DEF NodeNext, Register, Heartbeat, HeartbeatAges, Poll, Drop
<1>3. ASSUME NEW S \in SUBSET Task, GenerateTasks(S)
      PROVE  lagTask' = lagTask /\ \A t \in lagTask : status'[t] = "assigned"
  BY <1>3 DEF GenerateTasks, InsertTasks, TypeOK
<1>4. ASSUME NEW t \in Task, DueArrives(t) PROVE UNCHANGED <<status, lagTask>>
  BY <1>4 DEF DueArrives
<1>5. CASE Recover BY <1>5 DEF Recover
<1>6. CASE AssignUpdate
  <2>1. picked \in Task BY <1>6 DEF AssignUpdate, TypeOK
  <2>2. status'[picked] = "assigned" /\ \A t \in lagTask : status'[t] = status[t]
    BY <1>6, <2>1 DEF AssignUpdate, TypeOK
  <2> QED BY <1>6, <2>2 DEF AssignUpdate
<1>7. CASE TickNext
  BY <1>1, <1>5, <1>6, <1>7
  DEF TickNext, NothingToSplit, AssignFetch, AssignDone, AssignSelect, AssignNoNode, NothingToReduce
<1>8. CASE FaultNext BY <1>1, <1>8 DEF FaultNext, TickAborts, CoordinatorCrash
<1>9. CASE CommitNext BY <1>9 DEF CommitNext, CommitRecovery, CommitTask
<1>10. ASSUME NEW t \in Task, NEW n \in Node, SubmitSuccess(t, n)
       PROVE  lagTask' = lagTask /\ \A u \in lagTask : status'[u] = status[u]
  BY <1>10 DEF SubmitSuccess, TypeOK
<1>11. ASSUME NEW t \in Task, NEW n \in Node, SubmitFailureRead(t, n) \/ SubmitDuplicate(t, n)
       PROVE  UNCHANGED <<status, lagTask>>
  BY <1>11 DEF SubmitFailureRead, SubmitDuplicate
<1>12. ASSUME NEW h \in reading, SubmitFailureWrite(h) \/ SubmitFailureRollback(h)
       PROVE  lagTask' = lagTask /\ \A u \in lagTask : status'[u] = status[u]
  <2>1. CASE SubmitFailureWrite(h) BY <2>1, FailureStatus DEF TypeOK
  <2>2. CASE SubmitFailureRollback(h) BY <2>2 DEF SubmitFailureRollback
  <2> QED BY <1>12, <2>1, <2>2
<1>13. CASE SubmitNext BY <1>1, <1>10, <1>11, <1>12, <1>13 DEF SubmitNext
<1>14. CASE TaskNext BY <1>1, <1>3, <1>4, <1>14 DEF TaskNext
<1>15. CASE UNCHANGED vars BY <1>1, <1>15 DEF vars
<1> QED BY <1>2, <1>7, <1>8, <1>9, <1>13, <1>14, <1>15 DEF Next

(* Every step keeps what others see apart only in the tasks that lag. *)
LEMMA SeenTasksStep ==
  ASSUME TypeOK, TypeOK', KnownTasks, SeenTasks, [CoordNext /\ Commit]_coordVars
  PROVE  SeenTasks'
<1>1. CASE UNCHANGED coordVars
  BY <1>1 DEF coordVars, vars, taskVars, lagVars, SeenTasks
<1>2. CASE Commit
  <2>1. \A t \in lagTask : AsyncCommit /\ status[t] = "assigned" BY DEF SeenTasks, TypeOK
  <2>2. /\ \A t \in lagTask' : AsyncCommit /\ status'[t] = "assigned"
        /\ \A t \in lagTask' \ lagTask : t = picked /\ phase = "update"
    BY <2>1, CoordStoreStep, LagStep
  <2>3. \A t \in lagTask' : committed[t] # "absent"
    BY <2>2 DEF SeenTasks, KnownTasks, TypeOK
  <2>4. /\ committed' \in [Task -> {"absent"} \cup TaskStatus]
        /\ \A t \in Task : committed'[t] = IF t \in lagTask' THEN committed[t] ELSE status'[t]
    BY <1>2 DEF Commit, SeenTasks, TypeOK
  <2> QED BY <2>2, <2>3, <2>4 DEF SeenTasks
<1> QED BY <1>1, <1>2

-----------------------------------------------------------------------------
(* What was handed out *)

(* A poll returns committed assignments only, and those are handed out. *)
LEMMA HeldAreHandedStep ==
  ASSUME TypeOK, SeenTasks, HeldAreHanded, [CoordNext /\ Commit]_coordVars
  PROVE  HeldAreHanded'
<1> USE DEF HeldAreHanded, RunningOn, TypeOK, Handler, tickVars, lagVars, taskVars
<1> DEFINE Fewer == /\ handed \subseteq handed' /\ handed' \subseteq Task
                    /\ \A n \in Node : held'[n] \subseteq handed'
                    /\ \A n \in Node : RunningOn(n)' \ lagTask' \subseteq handed'
                    /\ \A h \in reading' : h.task \in handed'
<1>1. Fewer => HeldAreHanded' OBVIOUS
<1>2. ASSUME UNCHANGED <<handed, held, reading>>,
             \A n \in Node : RunningOn(n)' \ lagTask' \subseteq RunningOn(n) \ lagTask
      PROVE  HeldAreHanded'
  BY <1>2
<1>3. CASE StoreAlone
  <2>1. handed' = handed BY <1>3 DEF StoreAlone, jobsVars
  <2>2. ASSUME NEW n \in Node, Poll(n) \/ Drop(n) PROVE HeldAreHanded'
    BY <2>1, <2>2 DEF Poll, Drop
  <2>3. ASSUME NEW S \in SUBSET Task, GenerateTasks(S) PROVE HeldAreHanded'
    BY <1>2, <2>1, <2>3 DEF GenerateTasks, InsertTasks
  <2>4. ASSUME NEW t \in Task, NEW n \in Node, SubmitFailureRead(t, n) PROVE HeldAreHanded'
    <3>1. t \in handed BY <2>4 DEF SubmitFailureRead, FirstReport
    <3> QED BY <2>1, <2>4, <3>1, ReportedHeld DEF SubmitFailureRead
  <2>5. ASSUME NEW h \in reading, SubmitFailureRollback(h) PROVE HeldAreHanded'
    BY <2>1, <2>5 DEF SubmitFailureRollback
  <2>6. CASE UNCHANGED <<status, assignedTo, held, reading, lagTask>>
    BY <1>2, <2>1, <2>6
  <2> QED BY <1>3, <2>2, <2>3, <2>4, <2>5, <2>6
          DEF StoreAlone, NodeNext, Register, Heartbeat, HeartbeatAges, CommitRecovery, DueArrives,
              AssignFetch, AssignSelect
<1>4. CASE Recovers BY <1>2, <1>4 DEF Recovers, Recover, Requeue, TickTo
<1>5. CASE Assigns
  <2>1. picked \in Task BY <1>5 DEF Assigns, AssignUpdate
  <2>2. \A n \in Node : RunningOn(n)' \subseteq RunningOn(n) \cup {picked}
    BY <1>5, <2>1 DEF Assigns, AssignUpdate
  <2>3. IF AsyncCommit THEN picked \in lagTask' /\ handed' = handed
        ELSE handed' = handed \cup {picked}
    BY <1>5 DEF Assigns, AssignUpdate, Hands
  <2>4. lagTask \subseteq lagTask' /\ UNCHANGED <<held, reading>>
    BY <1>5 DEF Assigns, AssignUpdate
  <2> QED BY <2>1, <2>2, <2>3, <2>4
<1>6. ASSUME NEW t \in Task, AssignCommits(t) PROVE HeldAreHanded'
  BY <1>6 DEF AssignCommits, CommitTask, Hands
<1>7. CASE AssignEnds BY <1>2, <1>7 DEF AssignEnds, AssignDone, AssignNoNode, TickTo
<1>8. ASSUME NEW t \in Task, NEW n \in Node, Succeeds(t, n) PROVE HeldAreHanded'
  BY <1>8, ReportedHeld DEF Succeeds, SubmitSuccess, Continues
<1>9. ASSUME NEW t \in Task, NEW n \in Node, Repeats(t, n) PROVE HeldAreHanded'
  BY <1>9, ReportedHeld DEF Repeats, SubmitDuplicate, Continues, jobsVars
<1>10. ASSUME NEW h \in reading, Fails(h) PROVE HeldAreHanded'
  <2>1. handed' = handed BY <1>10 DEF Fails, Continues
  <2>2. SubmitFailureWrite(h) BY <1>10 DEF Fails
  <2>3. /\ h.task \in Task
        /\ status' = [status EXCEPT ![h.task] =
                       IF h.attempts + 1 < MaxAttempts[h.task] THEN "queued" ELSE "failed"]
        /\ \A t \in Task \ {h.task} : assignedTo'[t] = assignedTo[t]
        /\ UNCHANGED <<held, lagTask>> /\ reading' = reading \ {h}
    BY <2>2, FailureStatus
  <2>4. \A n \in Node : RunningOn(n)' \subseteq RunningOn(n) BY <2>3
  <2> QED BY <2>1, <2>3, <2>4
<1>11. CASE JobsAlone
  BY <1>2, <1>11, JobsAloneTick DEF vars
<1>12. ASSUME NEW S \in SUBSET Task, Splits(S) PROVE HeldAreHanded'
  <2>1. handed' = handed BY <1>12 DEF Splits, Jobs!SplitDone, Jobs!SplitInvalid
  <2>2. UNCHANGED <<held, reading, lagTask>> BY <1>12 DEF Splits, GenerateTasks, vars
  <2>3. CASE UNCHANGED <<status, assignedTo>> BY <2>1, <2>2, <2>3
  <2>4. CASE InsertTasks(S)
    <3>1. \A n \in Node : RunningOn(n)' \subseteq RunningOn(n) BY <2>4 DEF InsertTasks
    <3> QED BY <2>1, <2>2, <3>1
  <2> QED BY <1>12, <2>3, <2>4 DEF Splits, GenerateTasks, vars
<1>13. CASE SplitEnds \/ TickEnds \/ Aborts \/ Crashes
  <2>1. handed' = handed
    BY <1>13 DEF SplitEnds, TickEnds, Aborts, Crashes, jobsVars, Jobs!ReducesDone, Jobs!TickAborts,
                Jobs!Crash
  <2>2. UNCHANGED <<status, assignedTo, held, lagTask>> /\ reading' \subseteq reading
    BY <1>13 DEF SplitEnds, TickEnds, Aborts, Crashes, NothingToSplit, NothingToReduce, TickAborts,
                CoordinatorCrash
  <2> QED BY <2>1, <2>2
<1>14. CASE UNCHANGED coordVars BY <1>2, <1>14 DEF coordVars, vars, jobsVars
<1> QED BY <1>3, <1>4, <1>5, <1>6, <1>7, <1>8, <1>9, <1>10, <1>11, <1>12, <1>13, <1>14 DEF CoordNext

(* At whichever points tick, handlers and COMMITs are, store and jobs fit    *)
(* together.                                                                 *)
LEMMA CoordinatorFits == CoordSpec => []CoordInv
<1>1. CoordInit => CoordInv /\ KnownTasks
  BY TaskAssumption
  DEF CoordInit, Init, Jobs!Init, Jobs!ContractInit, CoordInv, StagesAgree, SeenTasks, HeldAreHanded,
      KnownTasks, RunningOn, TaskStatus
<1>2. TypeOK /\ KnownTasks /\ [Next]_vars => KnownTasks' BY KnownTasksStep
<1>3. TypeOK /\ TypeOK' /\ KnownTasks /\ CoordInv /\ [CoordNext /\ Commit]_coordVars => CoordInv'
  <2> SUFFICES ASSUME TypeOK, TypeOK', KnownTasks, CoordInv, [CoordNext /\ Commit]_coordVars
               PROVE  CoordInv'
    OBVIOUS
  <2>1. StagesAgree /\ SeenTasks /\ HeldAreHanded BY DEF CoordInv
  <2>2. StagesAgree' BY <2>1, StagesStep
  <2>3. SeenTasks' BY <2>1, SeenTasksStep
  <2>4. HeldAreHanded' BY <2>1, HeldAreHandedStep
  <2> QED BY <2>2, <2>3, <2>4 DEF CoordInv
<1>4. CoordSpec => [](TypeOK /\ KnownTasks)
  BY <1>2, <1>1, CoordinatorUsesStore, TypeCorrect, PTL DEF CoordSpec, Spec
<1> QED BY <1>1, <1>3, <1>4, PTL DEF CoordSpec

-----------------------------------------------------------------------------
(* The jobs *)

(* A change of status that is committed at once, or whose COMMIT is executed *)
(* now, is one the jobs see.                                                 *)
LEMMA SeenChange ==
  ASSUME TypeOK, SeenTasks, Commit, NEW S \in SUBSET Task, NEW s,
         lagTask' \subseteq lagTask, S \cap lagTask' = {}, lagTask \ lagTask' \subseteq S,
         \A t \in Task : status'[t] = IF t \in S THEN s ELSE status[t]
  PROVE  Jobs!SetStatus(S, s)
BY DEF SeenTasks, Commit, TypeOK, Jobs!SetStatus

(* A change of a status whose COMMIT is on its way, or no change, is one     *)
(* they do not see.                                                          *)
LEMMA NothingSeen ==
  ASSUME TypeOK, SeenTasks, Commit, lagTask \subseteq lagTask',
         \A t \in Task \ lagTask' : status'[t] = status[t]
  PROVE  committed' = committed
BY DEF SeenTasks, Commit, TypeOK

(* A step that changes no row of tasks shows the jobs nothing new.           *)
LEMMA NoChangeSeen ==
  ASSUME TypeOK, SeenTasks, Commit, UNCHANGED <<status, result, lagTask>>
  PROVE  UNCHANGED Jobs!taskVars
BY NothingSeen DEF Jobs!taskVars

(* The instance of Pipeline brings its own copy of Cardinality. *)
LEMMA SameJobsCardinality == ASSUME NEW S PROVE Jobs!Cardinality(S) = Cardinality(S)
BY DEF Cardinality, Jobs!Cardinality

(* Steps of the store the jobs do not take part in. *)
LEMMA StoreAloneToJobs ==
  ASSUME TypeOK, SeenTasks, StoreAlone, Commit
  PROVE  UNCHANGED Jobs!vars \/ \E S \in SUBSET Task : Jobs!InsertPlain(S)
<1> USE DEF jobsVars, jobVars, stageVars, Jobs!vars, Jobs!jobVars, Jobs!tickVars
<1>1. UNCHANGED jobsVars BY DEF StoreAlone
<1>2. CASE UNCHANGED <<status, result, lagTask>> BY <1>1, <1>2, NoChangeSeen
<1>3. ASSUME NEW S \in SUBSET Task, GenerateTasks(S) PROVE Jobs!InsertPlain(S)
  <2>1. \A t \in S : status[t] = "absent" BY <1>3 DEF GenerateTasks, InsertTasks
  <2>2. S \cap lagTask = {} /\ \A t \in S : committed[t] = "absent" BY <2>1 DEF SeenTasks, TaskStatus
  <2>3. lagTask' = lagTask /\ \A t \in Task : status'[t] = IF t \in S THEN "queued" ELSE status[t]
    BY <1>3 DEF GenerateTasks, InsertTasks, lagVars
  <2>4. Jobs!SetStatus(S, "queued") BY <2>2, <2>3, SeenChange
  <2> QED BY <1>1, <1>3, <2>2, <2>4 DEF GenerateTasks, Jobs!InsertPlain, Jobs!Insert
<1> QED BY <1>2, <1>3
        DEF StoreAlone, NodeNext, Register, Heartbeat, HeartbeatAges, Poll, Drop, CommitRecovery,
            DueArrives, AssignFetch, AssignSelect, SubmitFailureRead, SubmitFailureRollback,
            taskVars, lagVars

(* Steps of the tick in the store. *)
LEMMA TickToJobs ==
  ASSUME TypeOK, KnownTasks, StagesAgree, SeenTasks,
         Recovers \/ Assigns \/ AssignEnds \/ SplitEnds, Commit
  PROVE  \/ \E S \in SUBSET Task : Jobs!RecoverTasks(S)
         \/ \E t \in Task : Jobs!AssignTask(t)
         \/ Jobs!AssignDone \/ UNCHANGED Jobs!vars
<1> USE DEF jobsVars, jobVars, stageVars, Jobs!vars, Jobs!jobVars, Jobs!tickVars
<1>1. CASE Recovers
  <2>1. Lost \in SUBSET Task /\ lagTask = {} /\ lagTask' = {} BY <1>1 DEF Lost, Recovers, Recover
  <2>2. \A t \in Lost : committed[t] = "assigned" BY <2>1 DEF Lost, SeenTasks
  <2>3. \A t \in Task : status'[t] = IF t \in Lost THEN "queued" ELSE status[t]
    BY <1>1, <2>1 DEF Recovers, Recover, Requeue
  <2>4. Jobs!SetStatus(Lost, "queued") BY <2>1, <2>3, SeenChange
  <2>5. tick = "recover" BY <1>1 DEF Recovers, Recover, StagesAgree
  <2>6. Jobs!RecoverTasks(Lost)
    BY <1>1, <2>2, <2>4, <2>5 DEF Recovers, Recover, TickTo, Jobs!RecoverTasks, Jobs!Requeue
  <2> QED BY <2>1, <2>6
<1>2. CASE Assigns
  <2>1. /\ picked \in Task \ lagTask /\ status[picked] # "absent" /\ tick = "assign"
        /\ \A t \in Task : status'[t] = IF t \in {picked} THEN "assigned" ELSE status[t]
        /\ UNCHANGED result
    BY <1>2 DEF Assigns, AssignUpdate, TypeOK, KnownTasks, StagesAgree
  <2>2. CASE AsyncCommit
    <3>1. lagTask' = lagTask \cup {picked} BY <1>2, <2>2 DEF Assigns, AssignUpdate
    <3>2. committed' = committed BY <2>1, <3>1, NothingSeen
    <3>3. UNCHANGED jobsVars BY <1>2, <2>2 DEF Assigns, Hands, TypeOK
    <3> QED BY <2>1, <3>2, <3>3 DEF Jobs!taskVars
  <2>3. CASE ~AsyncCommit
    <3>1. lagTask' = lagTask BY <1>2, <2>3 DEF Assigns, AssignUpdate
    <3>2. Jobs!SetStatus({picked}, "assigned") BY <2>1, <3>1, SeenChange
    <3>3. Jobs!AssignTask(picked)
      BY <1>2, <2>1, <2>3, <3>2 DEF Assigns, Hands, SeenTasks, Jobs!AssignTask, Jobs!Assign
    <3> QED BY <2>1, <3>3
  <2> QED BY <2>2, <2>3
<1>3. CASE AssignEnds
  <2>1. UNCHANGED Jobs!taskVars
    BY <1>3, NoChangeSeen DEF AssignEnds, AssignDone, AssignNoNode, taskVars, lagVars
  <2>2. tick = "assign" BY <1>3 DEF AssignEnds, AssignDone, AssignNoNode, StagesAgree
  <2> QED BY <1>3, <2>1, <2>2 DEF AssignEnds, TickTo, Jobs!AssignDone
<1>4. CASE SplitEnds BY <1>4, NoChangeSeen DEF SplitEnds, NothingToSplit, taskVars, lagVars
<1> QED BY <1>1, <1>2, <1>3, <1>4

(* The COMMIT of an assignment is executed: now the jobs see it.             *)
LEMMA CommitToJobs ==
  ASSUME TypeOK, StagesAgree, SeenTasks, NEW t \in Task, AssignCommits(t), Commit
  PROVE  Jobs!AssignTask(t)
<1> USE DEF jobVars, stageVars, Jobs!jobVars, Jobs!tickVars
<1>1. t \in lagTask /\ lagTask' = lagTask \ {t} /\ UNCHANGED <<status, result>>
  BY DEF AssignCommits, CommitTask, taskVars
<1>2. AsyncCommit /\ status[t] = "assigned" /\ committed[t] # "absent" BY <1>1 DEF SeenTasks
<1>3. Jobs!SetStatus({t}, "assigned") BY <1>1, <1>2, SeenChange
<1>4. tick \in {"assign", "list", "reduce", "recover"}
  BY <1>1 DEF StagesAgree, TypeOK
<1> QED BY <1>1, <1>2, <1>3, <1>4 DEF AssignCommits, Hands, Jobs!AssignTask, Jobs!Assign

(* Reports, with the hook that follows the transaction. *)
LEMMA SuccessToJobs ==
  ASSUME TypeOK, KnownTasks, SeenTasks, HeldAreHanded, NEW t \in Task, NEW n \in Node,
         Succeeds(t, n), Commit
  PROVE  Jobs!ReportSuccess(t, n)
<1> USE DEF jobVars, stageVars, Jobs!jobVars, Jobs!tickVars
<1>1. /\ t \in held[n] \ lagTask /\ result[t][n] = "none"
      /\ result' = [result EXCEPT ![t][n] = "success"] /\ lagTask' = lagTask
      /\ \A u \in Task : status'[u] = IF u \in {t} THEN "succeeded" ELSE status[u]
  BY DEF Succeeds, SubmitSuccess, FirstReport, TypeOK, lagVars
<1>2. Jobs!SetStatus({t}, "succeeded") BY <1>1, SeenChange
<1>3. committed[t] # "absent" /\ t \in handed BY <1>1 DEF SeenTasks, KnownTasks, HeldAreHanded
<1> QED BY <1>1, <1>2, <1>3
        DEF Succeeds, Continues, Jobs!ReportSuccess, Jobs!Succeed, Jobs!Report

(* The failure is the one the contract asks for: a failed task has failures  *)
(* of max_attempts nodes, by the invariant of the store.                     *)
LEMMA FailureToJobs ==
  ASSUME TypeOK, KnownTasks, AttemptsInv, FailedNeedsDistinctNodes', SeenTasks, HeldAreHanded,
         NEW h \in reading, Fails(h), Commit
  PROVE  Jobs!ReportFailure(h.task, h.node)
<1> DEFINE t == h.task
           n == h.node
           s == IF h.attempts + 1 < MaxAttempts[t] THEN "queued" ELSE "failed"
<1> USE DEF jobVars, stageVars, Jobs!jobVars, Jobs!tickVars
<1>1. SubmitFailureWrite(h) BY DEF Fails
<1>2. /\ t \in Task \ lagTask /\ n \in Node /\ lagTask' = lagTask
      /\ status' = [status EXCEPT ![t] = s]
  BY <1>1, FailureStatus
<1>3. result' = [result EXCEPT ![t][n] = "failure"] BY <1>1 DEF SubmitFailureWrite
<1>4. result[t][n] = "none" BY DEF AttemptsInv, AttemptsAreFailures
<1>5. status[t] # "absent" /\ t \in handed BY DEF KnownTasks, HeldAreHanded
<1>6. committed[t] # "absent" BY <1>2, <1>5 DEF SeenTasks
<1>7. Jobs!Report(t, n, "failure") BY <1>3, <1>4, <1>6 DEF Jobs!Report
<1>8. \A u \in Task : status'[u] = IF u \in {t} THEN s ELSE status[u] BY <1>2 DEF TypeOK
<1>9. Jobs!SetStatus({t}, s)
  <2> HIDE DEF s, t
  <2> QED BY <1>2, <1>8, SeenChange
<1>10. s = "failed" => MaxAttempts[t] <= Jobs!Cardinality(Jobs!FailedAt(t)')
  <2>1. Jobs!FailedAt(t)' = FailureRows(t)' BY DEF Jobs!FailedAt, FailureRows
  <2>2. s = "failed" => MaxAttempts[t] <= Cardinality(FailureRows(t)')
    BY <1>2, <1>8 DEF FailedNeedsDistinctNodes
  <2> QED BY <2>1, <2>2, SameJobsCardinality
<1>11. Jobs!Fail(t, n) BY <1>7, <1>9, <1>10 DEF Jobs!Fail
<1> QED BY <1>5, <1>11 DEF Fails, Continues, Jobs!ReportFailure

(* A repeated report may run the hook again and changes nothing else. *)
LEMMA RepeatToJobs ==
  ASSUME TypeOK, SeenTasks, NEW t \in Task, NEW n \in Node, Repeats(t, n), Commit
  PROVE  Jobs!ReportAgain(t, n) \/ UNCHANGED Jobs!vars
<1>1. UNCHANGED Jobs!taskVars
  BY NoChangeSeen DEF Repeats, SubmitDuplicate, taskVars, lagVars
<1> QED BY <1>1 DEF Repeats, SubmitDuplicate, Continues, Jobs!ReportAgain, jobsVars, jobVars,
           stageVars, Jobs!vars, Jobs!jobVars, Jobs!tickVars

(* A split: the subtasks are new rows of tasks. *)
LEMMA SplitToJobs ==
  ASSUME NEW S \in SUBSET Task, Splits(S)
  PROVE  Jobs!SplitDone(S) \/ Jobs!SplitInvalid(S)
BY DEF Splits

(* The tick ends, by itself or not. *)
LEMMA EndToJobs ==
  ASSUME TickEnds \/ Aborts \/ Crashes
  PROVE  Jobs!ReducesDone \/ Jobs!TickAborts \/ Jobs!Crash
BY DEF TickEnds, Aborts, Crashes

(* Every step is one of Pipeline, or changes nothing that it shows. *)
LEMMA CoordJobsStep ==
  ASSUME TypeOK, KnownTasks, AttemptsInv, FailedNeedsDistinctNodes', CoordInv,
         [CoordNext /\ Commit]_coordVars
  PROVE  [Jobs!Next]_(Jobs!vars)
<1>0. StagesAgree /\ SeenTasks /\ HeldAreHanded BY DEF CoordInv
<1>1. CASE UNCHANGED coordVars
  BY <1>1 DEF coordVars, vars, jobsVars, jobVars, stageVars, Jobs!vars, Jobs!taskVars, Jobs!jobVars,
              Jobs!tickVars
<1>2. CASE Commit
  <2>1. CASE StoreAlone BY <1>0, <1>2, <2>1, StoreAloneToJobs DEF Jobs!Next, Jobs!ClientNext
  <2>2. CASE Recovers \/ Assigns \/ AssignEnds \/ SplitEnds
    BY <1>0, <1>2, <2>2, TickToJobs DEF Jobs!Next, Jobs!TickNext
  <2>3. ASSUME NEW t \in Task, AssignCommits(t) PROVE Jobs!Next
    BY <1>0, <1>2, <2>3, CommitToJobs DEF Jobs!Next, Jobs!TickNext
  <2>4. ASSUME NEW t \in Task, NEW n \in Node, Succeeds(t, n) PROVE Jobs!Next
    BY <1>0, <1>2, <2>4, SuccessToJobs DEF Jobs!Next, Jobs!ReportNext
  <2>5. ASSUME NEW t \in Task, NEW n \in Node, Repeats(t, n) PROVE [Jobs!Next]_(Jobs!vars)
    BY <1>0, <1>2, <2>5, RepeatToJobs DEF Jobs!Next, Jobs!ReportNext
  <2>6. ASSUME NEW h \in reading, Fails(h) PROVE Jobs!Next
    <3>1. h.task \in Task /\ h.node \in Node BY DEF TypeOK, Handler
    <3>2. Jobs!ReportFailure(h.task, h.node) BY <1>0, <1>2, <2>6, FailureToJobs
    <3> QED BY <3>1, <3>2 DEF Jobs!Next, Jobs!ReportNext
  <2>7. CASE JobsAlone
    BY <2>7 DEF JobsAlone, Jobs!Next, Jobs!TickNext, Jobs!ClientNext, Jobs!FaultNext
  <2>8. ASSUME NEW S \in SUBSET Task, Splits(S) PROVE Jobs!Next
    BY <2>8, SplitToJobs DEF Jobs!Next, Jobs!TickNext
  <2>9. CASE TickEnds \/ Aborts \/ Crashes
    BY <2>9, EndToJobs DEF Jobs!Next, Jobs!TickNext, Jobs!FaultNext
  <2> QED BY <1>1, <2>1, <2>2, <2>3, <2>4, <2>5, <2>6, <2>7, <2>8, <2>9 DEF CoordNext
<1> QED BY <1>1, <1>2

(* Pipeline takes the store for granted as a contract and is bound to no     *)
(* order of the tick but its own; over the real store, with COMMITs that lag,*)
(* aborted ticks and crashes, the jobs take no step Pipeline does not know.  *)
THEOREM CoordinatorRunsPipeline == CoordSpec => KeepsPipeline
<1>1. CoordInit => Jobs!Init BY DEF CoordInit
<1>2. TypeOK /\ KnownTasks /\ [Next]_vars => KnownTasks' BY KnownTasksStep
<1>3. CoordInit => KnownTasks BY TaskAssumption DEF CoordInit, Init, KnownTasks
<1>4. AttemptsInv => FailedNeedsDistinctNodes BY DEF AttemptsInv
<1>5. TypeOK /\ KnownTasks /\ AttemptsInv /\ FailedNeedsDistinctNodes' /\ CoordInv
        /\ [CoordNext /\ Commit]_coordVars => [Jobs!Next]_(Jobs!vars)
  BY CoordJobsStep
<1>6. CoordSpec => [](TypeOK /\ KnownTasks /\ AttemptsInv)
  BY <1>2, <1>3, CoordinatorUsesStore, TypeCorrect, AttemptsInvariant, PTL DEF CoordSpec, Spec
<1> QED BY <1>1, <1>4, <1>5, <1>6, CoordinatorFits, PTL DEF CoordSpec, KeepsPipeline, Jobs!Spec

-----------------------------------------------------------------------------
(* The theorems about the jobs *)

(* Pipeline again, with its theorems. *)
JP == INSTANCE PipelineProofs WITH status <- committed

(* Both instances of Pipeline, written out, are the same formula.            *)
LEMMA SamePipeline == Jobs!Spec => JP!Spec
<1>1. Jobs!Init => JP!Init BY DEF Jobs!Init, Jobs!ContractInit, JP!Init, JP!ContractInit
<1>2. [Jobs!Next]_(Jobs!vars) => [JP!Next]_(JP!vars)
  BY Zenon
  DEF Jobs!Init, JP!Init, Jobs!ContractInit, JP!ContractInit, Jobs!Next, JP!Next,
      Jobs!ClientNext, JP!ClientNext, Jobs!TickNext, JP!TickNext, Jobs!ReportNext,
      JP!ReportNext, Jobs!HookNext, JP!HookNext, Jobs!ReduceNext, JP!ReduceNext,
      Jobs!FaultNext, JP!FaultNext, Jobs!CreateJob, JP!CreateJob, Jobs!InsertPlain,
      JP!InsertPlain, Jobs!RecoverTasks, JP!RecoverTasks, Jobs!SplitClaim, JP!SplitClaim,
      Jobs!SplitNone, JP!SplitNone, Jobs!SplitFails, JP!SplitFails, Jobs!AddChildren,
      JP!AddChildren, Jobs!SplitDone, JP!SplitDone, Jobs!SplitInvalid, JP!SplitInvalid,
      Jobs!AssignTask, JP!AssignTask, Jobs!AssignDone, JP!AssignDone, Jobs!ListReady,
      JP!ListReady, Jobs!TickReduces, JP!TickReduces, Jobs!ReducesDone, JP!ReducesDone,
      Jobs!StartHook, JP!StartHook, Jobs!Unread, JP!Unread, Jobs!ReportSuccess,
      JP!ReportSuccess, Jobs!ReportFailure, JP!ReportFailure, Jobs!ReportAgain, JP!ReportAgain,
      Jobs!HookReads, JP!HookReads, Jobs!FailJob, JP!FailJob, Jobs!HookFailsJob,
      JP!HookFailsJob, Jobs!Claim, JP!Claim, Jobs!HookClaims, JP!HookClaims, Jobs!HookIgnores,
      JP!HookIgnores, Jobs!TickClaims, JP!TickClaims, Jobs!TickPasses, JP!TickPasses,
      Jobs!ReadParts, JP!ReadParts, Jobs!ReduceDone, JP!ReduceDone, Jobs!ReduceFails,
      JP!ReduceFails, Jobs!HookClaimThrows, JP!HookClaimThrows, Jobs!TickClaimThrows,
      JP!TickClaimThrows, Jobs!TickAborts, JP!TickAborts, Jobs!HookDies, JP!HookDies,
      Jobs!Crash, JP!Crash, Jobs!Claimable, JP!Claimable, Jobs!Children, JP!Children,
      Jobs!SucceededChildren, JP!SucceededChildren, Jobs!PartsOf, JP!PartsOf, Jobs!Part,
      JP!Part, Jobs!Insert, JP!Insert, Jobs!Assign, JP!Assign, Jobs!Requeue, JP!Requeue,
      Jobs!Report, JP!Report, Jobs!Succeed, JP!Succeed, Jobs!Fail, JP!Fail, Jobs!SetStatus,
      JP!SetStatus, Jobs!FailedAt, JP!FailedAt, Jobs!Cardinality, JP!Cardinality,
      Jobs!taskVars, JP!taskVars, Jobs!jobVars, JP!jobVars, Jobs!tickVars, JP!tickVars,
      Jobs!vars, JP!vars
<1> QED BY <1>1, <1>2, PTL DEF Jobs!Spec, JP!Spec

(* What the theorems of Pipeline assume of the constants holds here. *)
LEMMA PipelineAssumptions == JP!JobAssumption /\ JP!StoreAssumption /\ JP!PipelineSwitches
BY NoJobAssumption, NodeAssumption, TaskAssumption, ParamAssumption, SwitchAssumption
DEF JP!JobAssumption, JP!StoreAssumption, JP!PipelineSwitches, IsFiniteSet, JP!IsFiniteSet

(* A completed job has a success of each subtask in task_results, whatever   *)
(* the scheduler, recovery, the workers and the COMMITs have done meanwhile. *)
THEOREM CoordinatorCompletes == CoordSpec => []JobsComplete
<1>1. JP!Spec => []JP!CompletedIsComplete BY PipelineAssumptions, JP!PipelineCompletedIsComplete
<1>2. JP!CompletedIsComplete <=> JobsComplete
  BY DEF JobsComplete, Jobs!CompletedIsComplete, Jobs!Children, Jobs!StoredSuccess, Jobs!Cardinality,
         JP!CompletedIsComplete, JP!Children, JP!StoredSuccess, JP!Cardinality
<1> QED BY <1>1, <1>2, CoordinatorRunsPipeline, SamePipeline, PTL DEF KeepsPipeline

(* A job that turns to failed had a subtask that max_attempts nodes failed,  *)
(* or its own reduce or an exception made it fail.                           *)
THEOREM CoordinatorFailsForCause == CoordSpec => JobsFailForCause
<1>1. JP!Spec => JP!FailedForCause BY PipelineAssumptions, JP!PipelineFailedForCause
<1>2. JP!FailedForCause => JobsFailForCause
  BY PTL
  DEF JobsFailForCause, Jobs!FailedForCause, Jobs!Children, Jobs!FailedAt, Jobs!Cardinality,
      Jobs!ClaimThrows, Jobs!HookClaimThrows, Jobs!TickClaimThrows, Jobs!FailJob, Jobs!TickReduces,
      Jobs!Unread, Jobs!taskVars, Jobs!jobVars, Jobs!tickVars, Jobs!vars,
      JP!FailedForCause, JP!Children, JP!FailedAt, JP!Cardinality,
      JP!ClaimThrows, JP!HookClaimThrows, JP!TickClaimThrows, JP!FailJob, JP!TickReduces,
      JP!Unread, JP!taskVars, JP!jobVars, JP!tickVars, JP!vars
<1> QED BY <1>1, <1>2, CoordinatorRunsPipeline, SamePipeline, PTL DEF KeepsPipeline

(* What a client may rely on, JobContract, holds of the whole coordinator.   *)
THEOREM CoordinatorKeepsJobContract == CoordSpec => JobsKeepContract
<1> USE DEF JP!AllStored, JP!Children, JP!StoredSuccess,
            Jobs!AllStored, Jobs!Children, Jobs!StoredSuccess
<1>1. JP!Spec => JP!KeepsJobContract BY PipelineAssumptions, JP!PipelineKeepsJobContract
<1>2. JP!JobView!JobContractInit => Jobs!JobView!JobContractInit
  BY DEF JP!JobView!JobContractInit, Jobs!JobView!JobContractInit
<1>3. [JP!JobView!JobContractNext]_(JP!JobView!jobContractVars)
        => [Jobs!JobView!JobContractNext]_(Jobs!JobView!jobContractVars)
  BY Zenon
  DEF JP!JobView!JobContractNext, JP!JobView!Move, JP!JobView!Store, JP!JobView!Course,
      JP!JobView!jobContractVars, Jobs!JobView!JobContractNext, Jobs!JobView!Move,
      Jobs!JobView!Store, Jobs!JobView!Course, Jobs!JobView!jobContractVars
<1> QED BY <1>1, <1>2, <1>3, CoordinatorRunsPipeline, SamePipeline, PTL
        DEF KeepsPipeline, JobsKeepContract, Jobs!KeepsJobContract, JP!KeepsJobContract,
            Jobs!JobView!JobContractSpec, JP!JobView!JobContractSpec
=============================================================================
