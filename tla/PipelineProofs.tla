--------------------------- MODULE PipelineProofs ---------------------------
(***************************************************************************)
(* Theorems about Pipeline, for any nodes, tasks and jobs.                 *)
(***************************************************************************)
EXTENDS Pipeline, FiniteSetTheorems, TLAPS

-----------------------------------------------------------------------------
(* Typing *)

(* A task that does not exist yet belongs to no job and was not handed out.  *)
(* Only tasks handed out are reported, and only those of jobs have hooks.    *)
TasksBegin ==
  /\ \A t \in Task : status[t] = "absent" => jobOf[t] = NoJob /\ t \notin handed
  /\ \A t \in Task, n \in Node : result[t][n] # "none" => t \in handed
  /\ \A h \in hooks : h.task \in handed /\ jobOf[h.task] \in Job

(* A hook is one whatever status it has seen. *)
LEMMA SeenHook ==
  ASSUME NEW t \in Task, NEW ok \in BOOLEAN,
         NEW s \in {"unread", "queued", "assigned", "succeeded", "failed"}
  PROVE  [task |-> t, success |-> ok, seen |-> s] \in Hook
BY DEF Hook

(* A new reducer is one. *)
LEMMA NewReducer ==
  ASSUME NEW j \in Job, NEW in \in BOOLEAN
  PROVE  [job |-> j, inTick |-> in, read |-> FALSE, parts |-> {}] \in Reducer
BY DEF Reducer

(* The steps of clients keep the types. *)
LEMMA ClientTypes == ASSUME TypeOK, ClientNext PROVE TypeOK'
<1> USE DEF TypeOK, ContractTypeOK
<1>1. ASSUME NEW j \in Job, CreateJob(j) PROVE TypeOK'
  BY <1>1 DEF CreateJob, taskVars, tickVars
<1>2. ASSUME NEW S \in SUBSET Task, InsertPlain(S) PROVE TypeOK'
  BY <1>2 DEF InsertPlain, Insert, SetStatus, jobVars, tickVars
<1> QED BY <1>1, <1>2 DEF ClientNext

(* The stages of the tick keep the types. *)
LEMMA TickTypes == ASSUME TypeOK, TickNext PROVE TypeOK'
<1> USE DEF TypeOK, ContractTypeOK, taskVars, jobVars, tickVars
<1>1. ASSUME NEW S \in SUBSET Task, RecoverTasks(S) PROVE TypeOK'
  BY <1>1 DEF RecoverTasks, Requeue, SetStatus
<1>2. ASSUME NEW S \in SUBSET Task, SplitDone(S) PROVE TypeOK'
  <2>1. Cardinality(S) \in 0 .. Cardinality(Task)
    BY StoreAssumption, FS_Subset, FS_CardinalityType
  <2> QED BY <1>2, <2>1 DEF SplitDone, AddChildren, Insert, SetStatus
<1>3. ASSUME NEW S \in SUBSET Task, SplitInvalid(S) PROVE TypeOK'
  BY <1>3 DEF SplitInvalid, AddChildren, Insert, SetStatus
<1>4. ASSUME NEW j \in Job, SplitClaim(j) PROVE TypeOK'
  BY <1>4 DEF SplitClaim
<1>5. ASSUME NEW j \in Job, TickClaims(j) PROVE TypeOK'
  BY <1>5, NewReducer DEF TickClaims, Claim
<1>6. ASSUME NEW j \in Job, TickPasses(j) PROVE TypeOK'
  BY <1>6 DEF TickPasses
<1>7. ASSUME NEW j \in Job, TickClaimThrows(j) PROVE TypeOK'
  BY <1>7 DEF TickClaimThrows, FailJob
<1>8. ASSUME NEW t \in Task, AssignTask(t) PROVE TypeOK'
  BY <1>8 DEF AssignTask, Assign, SetStatus
<1>9. CASE SplitNone BY <1>9 DEF SplitNone
<1>10. CASE SplitFails BY <1>10 DEF SplitFails
<1>11. CASE AssignDone BY <1>11 DEF AssignDone
<1>12. CASE ListReady BY <1>12 DEF ListReady
<1>13. CASE ReducesDone BY <1>13 DEF ReducesDone
<1> QED BY <1>1, <1>2, <1>3, <1>4, <1>5, <1>6, <1>7, <1>8, <1>9, <1>10, <1>11, <1>12, <1>13
        DEF TickNext

(* The transactions of reports keep the types. *)
LEMMA ReportTypes == ASSUME TypeOK, TasksBegin, ReportNext PROVE TypeOK'
<1> USE DEF TypeOK, ContractTypeOK, taskVars, jobVars, tickVars
<1>1. ASSUME NEW t \in Task, NEW ok \in BOOLEAN, StartHook(t, ok), status[t] # "absent"
      PROVE  hooks' \subseteq Hook
  BY <1>1, SeenHook DEF StartHook, Unread
<1>2. ASSUME NEW t \in Task, NEW n \in Node, ReportSuccess(t, n) PROVE TypeOK'
  BY <1>1, <1>2 DEF ReportSuccess, Succeed, Report, SetStatus
<1>3. ASSUME NEW t \in Task, NEW n \in Node, ReportFailure(t, n) PROVE TypeOK'
  BY <1>1, <1>3 DEF ReportFailure, Fail, Report, SetStatus
<1>4. ASSUME NEW t \in Task, NEW n \in Node, ReportAgain(t, n) PROVE TypeOK'
  BY <1>1, <1>4 DEF ReportAgain, TasksBegin
<1> QED BY <1>2, <1>3, <1>4 DEF ReportNext

(* The steps of hooks keep the types. *)
LEMMA HookTypes == ASSUME TypeOK, TasksBegin, HookNext PROVE TypeOK'
<1> USE DEF TypeOK, ContractTypeOK, taskVars, jobVars, tickVars
<1> SUFFICES ASSUME NEW h \in hooks,
                    \/ HookReads(h) \/ HookFailsJob(h) \/ HookClaims(h)
                    \/ HookClaimThrows(h) \/ HookIgnores(h)
             PROVE  TypeOK'
  BY DEF HookNext
<1>1. CASE HookReads(h)
  <2>1. h \in Hook /\ h.task \in Task BY DEF Hook
  <2>2. status[h.task] # "absent" BY <2>1 DEF TasksBegin
  <2>3. [h EXCEPT !.seen = status[h.task]] \in Hook BY <2>1, <2>2 DEF Hook
  <2> QED BY <1>1, <2>3 DEF HookReads
<1>2. CASE HookFailsJob(h) BY <1>2 DEF HookFailsJob, FailJob
<1>3. CASE HookClaims(h)
  <2>1. jobOf[h.task] \in Job BY DEF TasksBegin
  <2> QED BY <1>3, <2>1, NewReducer DEF HookClaims, Claim
<1>4. CASE HookClaimThrows(h) BY <1>4 DEF HookClaimThrows, FailJob
<1>5. CASE HookIgnores(h) BY <1>5 DEF HookIgnores
<1> QED BY <1>1, <1>2, <1>3, <1>4, <1>5

(* The steps of reducers keep the types. *)
LEMMA ReduceTypes == ASSUME TypeOK, ReduceNext PROVE TypeOK'
<1> USE DEF TypeOK, ContractTypeOK, taskVars, jobVars, tickVars
<1> SUFFICES ASSUME NEW r \in reducers, ReadParts(r) \/ ReduceDone(r) \/ ReduceFails(r)
             PROVE  TypeOK'
  BY DEF ReduceNext
<1>1. CASE ReadParts(r)
  <2>1. [r EXCEPT !.read = TRUE, !.parts = PartsOf(r.job)] \in Reducer
    BY DEF Reducer, PartsOf
  <2> QED BY <1>1, <2>1 DEF ReadParts
<1>2. CASE ReduceDone(r) BY <1>2 DEF ReduceDone, Reducer
<1>3. CASE ReduceFails(r) BY <1>3 DEF ReduceFails, FailJob
<1> QED BY <1>1, <1>2, <1>3

(* Faults keep the types. *)
LEMMA FaultTypes == ASSUME TypeOK, FaultNext PROVE TypeOK'
<1> USE DEF TypeOK, ContractTypeOK, taskVars, jobVars, tickVars
<1>1. CASE TickAborts BY <1>1 DEF TickAborts
<1>2. CASE Crash BY <1>2 DEF Crash
<1>3. ASSUME NEW h \in hooks, HookDies(h) PROVE TypeOK' BY <1>3 DEF HookDies
<1> QED BY <1>1, <1>2, <1>3 DEF FaultNext

(* Every step keeps the types. *)
LEMMA TypesStep == ASSUME TypeOK, TasksBegin, [Next]_vars PROVE TypeOK'
<1>1. CASE UNCHANGED vars
  BY <1>1 DEF vars, taskVars, jobVars, tickVars, TypeOK, ContractTypeOK
<1> QED BY <1>1, ClientTypes, TickTypes, ReportTypes, HookTypes, ReduceTypes, FaultTypes DEF Next

-----------------------------------------------------------------------------
(* Where tasks, jobs and reducers come from *)

(* Every step keeps TasksBegin. *)
LEMMA TasksBeginStep == ASSUME TypeOK, TasksBegin, [Next]_vars PROVE TasksBegin'
<1> USE DEF TypeOK, ContractTypeOK, TasksBegin, Hook
<1>1. ASSUME NEW j \in Job, CreateJob(j) PROVE TasksBegin'
  BY <1>1 DEF CreateJob, taskVars
<1>2. ASSUME NEW S \in SUBSET Task, InsertPlain(S) PROVE TasksBegin'
  BY <1>2 DEF InsertPlain, Insert, SetStatus, jobVars
<1>3. ASSUME NEW S \in SUBSET Task, RecoverTasks(S) PROVE TasksBegin'
  BY <1>3 DEF RecoverTasks, Requeue, SetStatus, jobVars
<1>4. ASSUME NEW S \in SUBSET Task, AddChildren(S), UNCHANGED <<handed, hooks>>, current \in Job
      PROVE  TasksBegin'
  BY <1>4 DEF AddChildren, Insert, SetStatus
<1>5. ASSUME NEW S \in SUBSET Task, SplitDone(S) \/ SplitInvalid(S) PROVE TasksBegin'
  BY <1>4, <1>5 DEF SplitDone, SplitInvalid
<1>6. ASSUME NEW t \in Task, AssignTask(t) PROVE TasksBegin'
  BY <1>6 DEF AssignTask, Assign, SetStatus, jobVars
<1>7. ASSUME UNCHANGED <<taskVars, handed, jobOf>>, hooks' \subseteq hooks PROVE TasksBegin'
  BY <1>7 DEF taskVars
<1>8. ASSUME NEW j \in Job, SplitClaim(j) \/ TickClaims(j) \/ TickPasses(j) \/ TickClaimThrows(j)
      PROVE  TasksBegin'
  BY <1>7, <1>8 DEF SplitClaim, TickClaims, TickPasses, TickClaimThrows, jobVars
<1>9. CASE SplitNone \/ SplitFails \/ AssignDone \/ ListReady \/ ReducesDone
  BY <1>7, <1>9 DEF SplitNone, SplitFails, AssignDone, ListReady, ReducesDone, jobVars
<1>10. ASSUME NEW t \in Task, NEW n \in Node, ReportSuccess(t, n) PROVE TasksBegin'
  BY <1>10, JobAssumption DEF ReportSuccess, Succeed, Report, SetStatus, StartHook, jobVars
<1>11. ASSUME NEW t \in Task, NEW n \in Node, ReportFailure(t, n) PROVE TasksBegin'
  BY <1>11, JobAssumption DEF ReportFailure, Fail, Report, SetStatus, StartHook, jobVars
<1>12. ASSUME NEW t \in Task, NEW n \in Node, ReportAgain(t, n) PROVE TasksBegin'
  BY <1>12, JobAssumption DEF ReportAgain, StartHook, taskVars, jobVars
<1>13. ASSUME NEW h \in hooks, HookReads(h) PROVE TasksBegin'
  BY <1>13 DEF HookReads, taskVars, jobVars
<1>14. ASSUME NEW h \in hooks,
              \/ HookFailsJob(h) \/ HookClaims(h) \/ HookClaimThrows(h)
              \/ HookIgnores(h) \/ HookDies(h)
       PROVE  TasksBegin'
  BY <1>7, <1>14 DEF HookFailsJob, HookClaims, HookClaimThrows, HookIgnores, HookDies, jobVars
<1>15. ASSUME NEW r \in reducers, ReadParts(r) \/ ReduceDone(r) \/ ReduceFails(r) PROVE TasksBegin'
  BY <1>7, <1>15 DEF ReadParts, ReduceDone, ReduceFails, jobVars
<1>16. CASE TickAborts \/ Crash
  BY <1>7, <1>16 DEF TickAborts, Crash, jobVars
<1>17. CASE UNCHANGED vars BY <1>7, <1>17 DEF vars, jobVars
<1> QED BY <1>1, <1>2, <1>3, <1>5, <1>6, <1>8, <1>9, <1>10, <1>11, <1>12, <1>13, <1>14, <1>15,
           <1>16, <1>17
        DEF Next, ClientNext, TickNext, ReportNext, HookNext, ReduceNext, FaultNext

(* Jobs, tasks and handlers keep the types of their columns. *)
THEOREM PipelineTypes == Spec => [](TypeOK /\ TasksBegin)
<1>1. Init => TypeOK
  BY StoreAssumption, FS_CardinalityType DEF Init, TypeOK, ContractInit, ContractTypeOK
<1>2. Init => TasksBegin
  BY DEF Init, TasksBegin, ContractInit
<1> QED BY <1>1, <1>2, TypesStep, TasksBeginStep, PTL DEF Spec

-----------------------------------------------------------------------------
(* One reduce *)

(* A job has no subtasks before its split is claimed, and no count of them   *)
(* before it is split.  The job the tick is splitting keeps its status: its  *)
(* subtasks, if any, have not been handed out.                               *)
SplitsBegin ==
  /\ \A j \in Job : /\ jobStatus[j] \in {"absent", "pending_split"} => Children(j) = {}
                    /\ jobStatus[j] \in {"absent", "pending_split", "splitting"} => childrenTotal[j] = 0
  /\ tick \in {"running_split", "invalid_subtask"} =>
       jobStatus[current] = "splitting" /\ Children(current) \cap handed = {}
  /\ tick = "running_split" => Children(current) = {}

(* The jobs the tick has listed have subtasks, and so have those being       *)
(* reduced, which are not waiting for a reduce any more.                     *)
ReducesBegin ==
  /\ \A j \in listed : childrenTotal[j] > 0
  /\ \A r \in reducers : childrenTotal[r.job] > 0 /\ jobStatus[r.job] # "running_children"

JobsBegin == SplitsBegin /\ ReducesBegin

(* A step that leaves subtasks, counts and the job being split alone, and    *)
(* takes jobs only to later statuses.                                        *)
LaterStatus ==
  \A j \in Job : jobStatus'[j] # jobStatus[j] =>
    /\ jobStatus[j] \notin {"absent", "pending_split"}
    /\ jobStatus'[j] \notin {"absent", "pending_split", "splitting", "running_children"}
    /\ tick \in {"running_split", "invalid_subtask"} => j # current
Quiet ==
  /\ UNCHANGED <<jobOf, childrenTotal, handed>>
  /\ tick' \in {"running_split", "invalid_subtask"} => UNCHANGED <<tick, current>>
  /\ LaterStatus

(* Such a step keeps SplitsBegin ...                                          *)
LEMMA QuietForSplits == ASSUME TypeOK, SplitsBegin, Quiet PROVE SplitsBegin'
<1>1. \A j : Children(j)' = Children(j) BY DEF Quiet, Children
<1>2. tick \in {"running_split", "invalid_subtask"} => current \in Job BY DEF TypeOK
<1> QED BY <1>1, <1>2 DEF SplitsBegin, Quiet, LaterStatus

(* ... and ReducesBegin, if it lists and reduces no job that was not listed  *)
(* and reduced before.                                                       *)
LEMMA QuietForReduces ==
  ASSUME TypeOK, ReducesBegin, Quiet, listed' \subseteq listed,
         \A r \in reducers' : \E q \in reducers : q.job = r.job
  PROVE  ReducesBegin'
<1>1. \A r \in reducers : r.job \in Job BY DEF TypeOK, Reducer
<1> QED BY <1>1 DEF ReducesBegin, Quiet, LaterStatus

(* failPipelineJob is such a step for a job that is not being split.         *)
LEMMA FailIsLater ==
  ASSUME TypeOK, NEW i \in Job, FailJob(i),
         jobStatus[i] \notin {"absent", "pending_split"},
         tick \in {"running_split", "invalid_subtask"} => i # current
  PROVE  LaterStatus
BY DEF FailJob, TypeOK, LaterStatus

(* A job with a hook has handed out a subtask: it was split, or an earlier   *)
(* tick has left it in the middle of its split.                              *)
LEMMA HookedJob ==
  ASSUME TypeOK, TasksBegin, JobsBegin, NEW h \in hooks
  PROVE  /\ jobOf[h.task] \in Job /\ h.task \in Task
         /\ jobStatus[jobOf[h.task]] \notin {"absent", "pending_split"}
         /\ tick \in {"running_split", "invalid_subtask"} => jobOf[h.task] # current
BY DEF TypeOK, TasksBegin, JobsBegin, SplitsBegin, Hook, Children

(* So has a job that is listed or being reduced.                             *)
LEMMA ReducingJob ==
  ASSUME TypeOK, JobsBegin, NEW j \in Job, childrenTotal[j] > 0
  PROVE  /\ jobStatus[j] \notin {"absent", "pending_split", "splitting"}
         /\ tick \in {"running_split", "invalid_subtask"} => j # current
BY DEF TypeOK, JobsBegin, SplitsBegin

(* The steps that bring no job, subtask, split, list or claim keep JobsBegin. *)
LEMMA QuietStep ==
  ASSUME TypeOK, TasksBegin, JobsBegin,
         \/ UNCHANGED vars
         \/ \E S \in SUBSET Task : InsertPlain(S)
         \/ \E S \in SUBSET Task : RecoverTasks(S)
         \/ \E j \in Job : TickPasses(j) \/ TickClaimThrows(j)
         \/ SplitNone \/ AssignDone \/ ReducesDone
         \/ ReportNext \/ FaultNext \/ ReduceNext
         \/ \E h \in hooks : \/ HookReads(h) \/ HookIgnores(h)
                            \/ HookFailsJob(h) \/ HookClaimThrows(h)
  PROVE  JobsBegin'
<1> USE DEF jobVars, tickVars
<1>1. ASSUME Quiet, listed' \subseteq listed, \A r \in reducers' : \E q \in reducers : q.job = r.job
      PROVE  JobsBegin'
  BY <1>1, QuietForSplits, QuietForReduces DEF JobsBegin
<1>2. ASSUME UNCHANGED <<handed, jobVars, current>>, listed' \subseteq listed, reducers' \subseteq reducers,
             tick' \in {"running_split", "invalid_subtask"} => tick' = tick
      PROVE  JobsBegin'
  BY <1>1, <1>2 DEF Quiet, LaterStatus
<1>3. CASE UNCHANGED vars BY <1>2, <1>3 DEF vars
<1>4. ASSUME NEW S \in SUBSET Task, InsertPlain(S) PROVE JobsBegin'
  BY <1>2, <1>4 DEF InsertPlain
<1>5. ASSUME NEW S \in SUBSET Task, RecoverTasks(S) PROVE JobsBegin'
  BY <1>2, <1>5 DEF RecoverTasks
<1>6. ASSUME NEW j \in Job, TickPasses(j) PROVE JobsBegin'
  BY <1>2, <1>6 DEF TickPasses
<1>7. ASSUME NEW j \in Job, TickClaimThrows(j) PROVE JobsBegin'
  <2>1. childrenTotal[j] > 0 BY <1>7 DEF TickClaimThrows, JobsBegin, ReducesBegin
  <2>2. LaterStatus BY <1>7, <2>1, ReducingJob, FailIsLater DEF TickClaimThrows
  <2>3. Quiet BY <1>7, <2>2 DEF TickClaimThrows, Quiet
  <2> QED BY <1>1, <1>7, <2>3 DEF TickClaimThrows
<1>8. CASE SplitNone \/ AssignDone \/ ReducesDone
  BY <1>2, <1>8 DEF SplitNone, AssignDone, ReducesDone
<1>9. CASE ReportNext
  BY <1>2, <1>9 DEF ReportNext, ReportSuccess, ReportFailure, ReportAgain
<1>10. CASE FaultNext
  <2>1. UNCHANGED <<handed, jobVars>> /\ listed' \subseteq listed /\ reducers' \subseteq reducers
    BY <1>10 DEF FaultNext, TickAborts, Crash, HookDies
  <2>2. Quiet BY <1>10, <2>1 DEF FaultNext, TickAborts, Crash, HookDies, Quiet, LaterStatus
  <2> QED BY <1>1, <2>1, <2>2
<1>11. ASSUME NEW r \in reducers, ReadParts(r) \/ ReduceDone(r) \/ ReduceFails(r) PROVE JobsBegin'
  <2>1. r.job \in Job /\ childrenTotal[r.job] > 0
    BY DEF TypeOK, Reducer, JobsBegin, ReducesBegin
  <2>2. r \in Reducer BY DEF TypeOK
  <2>3. CASE ReadParts(r)
    <3>1. [r EXCEPT !.read = TRUE, !.parts = PartsOf(r.job)].job = r.job BY <2>2 DEF Reducer
    <3> QED BY <1>1, <2>3, <3>1 DEF ReadParts, Quiet, LaterStatus
  <2>4. CASE ReduceDone(r)
    <3>1. LaterStatus BY <2>1, <2>4, ReducingJob DEF ReduceDone, LaterStatus, TypeOK
    <3> QED BY <1>1, <2>4, <3>1 DEF ReduceDone, Quiet
  <2>5. CASE ReduceFails(r)
    <3>1. LaterStatus BY <2>1, <2>5, ReducingJob, FailIsLater DEF ReduceFails
    <3> QED BY <1>1, <2>5, <3>1 DEF ReduceFails, Quiet
  <2> QED BY <1>11, <2>3, <2>4, <2>5
<1>12. ASSUME NEW h \in hooks, HookReads(h) \/ HookIgnores(h) PROVE JobsBegin'
  BY <1>2, <1>12 DEF HookReads, HookIgnores
<1>13. ASSUME NEW h \in hooks, HookFailsJob(h) \/ HookClaimThrows(h) PROVE JobsBegin'
  <2>1. FailJob(jobOf[h.task])
        /\ UNCHANGED <<taskVars, handed, childrenTotal, jobOf, tickVars, reducers>>
    BY <1>13 DEF HookFailsJob, HookClaimThrows
  <2>2. LaterStatus BY <2>1, HookedJob, FailIsLater
  <2> QED BY <1>1, <2>1, <2>2 DEF Quiet
<1> QED BY <1>3, <1>4, <1>5, <1>6, <1>7, <1>8, <1>9, <1>10, <1>11, <1>12, <1>13 DEF ReduceNext

(* Splitting adds subtasks to the job being split, which is not listed nor   *)
(* reduced and had none, and to no other.                                    *)
LEMMA SplitChildren ==
  ASSUME TypeOK, TasksBegin, JobsBegin, NEW S \in SUBSET Task, AddChildren(S), tick = "running_split"
  PROVE  /\ current \in Job /\ S \cap handed = {}
         /\ jobStatus[current] = "splitting" /\ childrenTotal[current] = 0 /\ Children(current) = {}
         /\ \A j \in Job : Children(j)' = IF j = current THEN S ELSE Children(j)
         /\ current \notin listed /\ \A r \in reducers : r.job \in Job \ {current}
<1>1. current \in Job BY DEF TypeOK
<1>2. jobStatus[current] = "splitting" /\ childrenTotal[current] = 0 /\ Children(current) = {}
  BY <1>1 DEF JobsBegin, SplitsBegin
<1>3. \A t \in S : jobOf[t] = NoJob /\ t \notin handed
  BY DEF AddChildren, Insert, TasksBegin
<1>4. \A j \in Job : Children(j)' = IF j = current THEN S ELSE Children(j)
  BY <1>1, <1>2, <1>3, JobAssumption DEF AddChildren, Children
<1>5. current \notin listed /\ \A r \in reducers : r.job \in Job \ {current}
  BY <1>2 DEF JobsBegin, ReducesBegin, TypeOK, Reducer
<1> QED BY <1>1, <1>2, <1>3, <1>4, <1>5

(* Every step keeps JobsBegin. *)
LEMMA JobsBeginStep == ASSUME TypeOK, TasksBegin, JobsBegin, [Next]_vars PROVE JobsBegin'
<1> USE DEF jobVars, tickVars
<1>1. ASSUME NEW j \in Job, CreateJob(j) PROVE JobsBegin'
  <2>1. \A i : Children(i)' = Children(i) BY <1>1 DEF CreateJob, Children
  <2>2. jobStatus'[j] = "pending_split" /\ \A i \in Job \ {j} : jobStatus'[i] = jobStatus[i]
    BY <1>1 DEF CreateJob, TypeOK
  <2>3. tick \in {"running_split", "invalid_subtask"} => current \in Job BY DEF TypeOK
  <2>4. \A r \in reducers : r.job \in Job BY DEF TypeOK, Reducer
  <2> QED BY <1>1, <2>1, <2>2, <2>3, <2>4 DEF CreateJob, JobsBegin, SplitsBegin, ReducesBegin
<1>2. ASSUME NEW S \in SUBSET Task, SplitDone(S) PROVE JobsBegin'
  <2>1. Cardinality(S) > 0
    BY <1>2, StoreAssumption, FS_Subset, FS_EmptySet, FS_CardinalityType DEF SplitDone
  <2>2. /\ jobStatus'[current] = "running_children" /\ childrenTotal'[current] = Cardinality(S)
        /\ \A j \in Job \ {current} : jobStatus'[j] = jobStatus[j] /\ childrenTotal'[j] = childrenTotal[j]
    BY <1>2, SplitChildren DEF SplitDone, TypeOK
  <2>3. SplitsBegin'
    BY <1>2, <2>2, SplitChildren DEF SplitDone, JobsBegin, SplitsBegin
  <2>4. ReducesBegin'
    BY <1>2, <2>1, <2>2, SplitChildren DEF SplitDone, JobsBegin, ReducesBegin, TypeOK
  <2> QED BY <2>3, <2>4 DEF JobsBegin
<1>3. ASSUME NEW S \in SUBSET Task, SplitInvalid(S) PROVE JobsBegin'
  <2>1. SplitsBegin'
    BY <1>3, SplitChildren DEF SplitInvalid, JobsBegin, SplitsBegin
  <2>2. ReducesBegin' BY <1>3 DEF SplitInvalid, JobsBegin, ReducesBegin
  <2> QED BY <2>1, <2>2 DEF JobsBegin
<1>4. ASSUME NEW j \in Job, SplitClaim(j) PROVE JobsBegin'
  <2>1. \A i : Children(i)' = Children(i) BY <1>4 DEF SplitClaim, Children
  <2>2. jobStatus'[j] = "splitting" /\ \A i \in Job \ {j} : jobStatus'[i] = jobStatus[i]
    BY <1>4 DEF SplitClaim, TypeOK
  <2>3. \A r \in reducers : r.job \in Job BY DEF TypeOK, Reducer
  <2> QED BY <1>4, <2>1, <2>2, <2>3 DEF SplitClaim, JobsBegin, SplitsBegin, ReducesBegin
<1>5. ASSUME NEW j \in Job, NEW in \in BOOLEAN, Claim(j, in), listed' \subseteq listed,
             UNCHANGED <<handed, childrenTotal, jobOf, tick, current>>
      PROVE  JobsBegin'
  <2>1. childrenTotal[j] > 0 BY <1>5 DEF Claim, Claimable
  <2>2. jobStatus' = [jobStatus EXCEPT ![j] = "reducing"] BY <1>5 DEF Claim
  <2>3. LaterStatus BY <2>1, <2>2, ReducingJob DEF LaterStatus, TypeOK
  <2>4. Quiet BY <1>5, <2>3 DEF Quiet
  <2>5. \A r \in reducers' : r \in reducers \/ r.job = j BY <1>5 DEF Claim
  <2>6. \A r \in reducers : r.job \in Job BY DEF TypeOK, Reducer
  <2>7. ReducesBegin'
    BY <1>5, <2>1, <2>2, <2>5, <2>6 DEF JobsBegin, ReducesBegin, TypeOK
  <2> QED BY <2>4, <2>7, QuietForSplits DEF JobsBegin
<1>6. ASSUME NEW j \in Job, TickClaims(j) PROVE JobsBegin'
  BY <1>5, <1>6 DEF TickClaims
<1>7. ASSUME NEW h \in hooks, HookClaims(h) PROVE JobsBegin'
  BY <1>5, <1>7, HookedJob DEF HookClaims
<1>8. ASSUME NEW t \in Task, AssignTask(t) PROVE JobsBegin'
  <2>1. \A i : Children(i)' = Children(i) BY <1>8 DEF AssignTask, Children
  <2> QED BY <1>8, <2>1 DEF AssignTask, JobsBegin, SplitsBegin, ReducesBegin
<1>9. CASE SplitFails
  <2>1. \A i : Children(i)' = Children(i) BY <1>9 DEF SplitFails, Children
  <2>2. current \in Job BY <1>9 DEF SplitFails, TypeOK
  <2>3. jobStatus'[current] = "failed_split"
        /\ \A i \in Job \ {current} : jobStatus'[i] = jobStatus[i]
    BY <1>9, <2>2 DEF SplitFails, TypeOK
  <2>4. \A r \in reducers : r.job \in Job BY DEF TypeOK, Reducer
  <2> QED BY <1>9, <2>1, <2>2, <2>3, <2>4 DEF SplitFails, JobsBegin, SplitsBegin, ReducesBegin
<1>10. CASE ListReady
  <2>1. Quiet BY <1>10 DEF ListReady, Quiet, LaterStatus
  <2>2. ReducesBegin' BY <1>10 DEF ListReady, Claimable, JobsBegin, ReducesBegin
  <2> QED BY <2>1, <2>2, QuietForSplits DEF JobsBegin
<1> QED BY <1>1, <1>2, <1>3, <1>4, <1>6, <1>7, <1>8, <1>9, <1>10, QuietStep
        DEF Next, ClientNext, TickNext, HookNext

(* One reducer at a time: a claim needs a job that is waiting, a reducer has *)
(* one that is not.                                                          *)
LEMMA OneReducerStep ==
  ASSUME TypeOK, TasksBegin, JobsBegin, OneReducer, [Next]_vars
  PROVE OneReducer'
<1>1. ASSUME reducers' \subseteq reducers PROVE OneReducer'
  BY <1>1 DEF OneReducer
<1>2. ASSUME NEW j \in Job, NEW in \in BOOLEAN, Claim(j, in) PROVE OneReducer'
  <2>1. \A r \in reducers : r.job # j
    BY <1>2 DEF Claim, Claimable, JobsBegin, ReducesBegin
  <2>2. PICK q : q.job = j /\ reducers' = reducers \cup {q} BY <1>2 DEF Claim
  <2> QED BY <2>1, <2>2 DEF OneReducer
<1>3. CASE ReduceNext
  <2>1. PICK r \in reducers : ReadParts(r) \/ ReduceDone(r) \/ ReduceFails(r)
    BY <1>3 DEF ReduceNext
  <2>2. CASE ReadParts(r)
    <3>1. [r EXCEPT !.read = TRUE, !.parts = PartsOf(r.job)].job = r.job BY DEF TypeOK, Reducer
    <3> QED BY <2>2, <3>1 DEF ReadParts, OneReducer
  <2> QED BY <1>1, <2>1, <2>2 DEF ReduceDone, ReduceFails
<1>4. CASE ClientNext \/ ReportNext \/ FaultNext \/ UNCHANGED vars
  BY <1>1, <1>4 DEF ClientNext, CreateJob, InsertPlain, ReportNext, ReportSuccess, ReportFailure,
    ReportAgain, FaultNext, TickAborts, Crash, HookDies, vars
<1>5. CASE TickNext
  BY <1>1, <1>2, <1>5 DEF TickNext, RecoverTasks, SplitDone, SplitInvalid, SplitClaim, TickClaims,
    TickPasses, TickClaimThrows, AssignTask, SplitNone, SplitFails, AssignDone, ListReady, ReducesDone
<1>6. CASE HookNext
  <2>1. \A h \in hooks : HookClaims(h) => jobOf[h.task] \in Job
    BY DEF TasksBegin
  <2> QED BY <1>1, <1>2, <1>6, <2>1
          DEF HookNext, HookReads, HookFailsJob, HookClaims, HookClaimThrows, HookIgnores
<1> QED BY <1>3, <1>4, <1>5, <1>6 DEF Next

(* JobsBegin is an invariant. *)
LEMMA JobsBeginInvariant == Spec => []JobsBegin
<1>1. ASSUME Init PROVE JobsBegin
  <2>1. \A j \in Job : Children(j) = {}
    BY <1>1, JobAssumption DEF Init, Children
  <2> QED BY <1>1, <2>1 DEF Init, JobsBegin, SplitsBegin, ReducesBegin
<1> QED BY <1>1, JobsBeginStep, PipelineTypes, PTL DEF Spec

(* However many handlers and ticks find a job ready, one of them reduces it. *)
THEOREM PipelineOneReducer == Spec => []OneReducer
<1>1. Init => OneReducer BY DEF Init, OneReducer
<1> QED BY <1>1, OneReducerStep, PipelineTypes, JobsBeginInvariant, PTL DEF Spec

-----------------------------------------------------------------------------
(* The task store under the jobs *)

(* Every step is one of TaskContract for the tasks. *)
LEMMA ContractStep == ASSUME [Next]_vars PROVE [ContractNext]_taskVars
<1> USE DEF jobVars, tickVars
<1>1. CASE ClientNext
  <2>1. ASSUME NEW S \in SUBSET Task, InsertPlain(S) PROVE ContractNext
    BY <2>1 DEF InsertPlain, ContractNext
  <2> QED BY <1>1, <2>1 DEF ClientNext, CreateJob
<1>2. CASE TickNext
  BY <1>2 DEF TickNext, RecoverTasks, SplitDone, SplitInvalid, AddChildren, SplitClaim, TickClaims,
    TickPasses, TickClaimThrows, AssignTask, SplitNone, SplitFails, AssignDone, ListReady,
    ReducesDone, ContractNext
<1>3. CASE ReportNext
  BY <1>3 DEF ReportNext, ReportSuccess, ReportFailure, ReportAgain, ContractNext
<1>4. CASE HookNext \/ ReduceNext \/ FaultNext \/ UNCHANGED vars
  BY <1>4 DEF HookNext, HookReads, HookFailsJob, HookClaims, HookClaimThrows, HookIgnores,
    ReduceNext, ReadParts, ReduceDone, ReduceFails, FaultNext, TickAborts, Crash, HookDies, vars
<1> QED BY <1>1, <1>2, <1>3, <1>4 DEF Next

(* The jobs use the task store within its contract.                          *)
THEOREM PipelineContract == Spec => ContractSpec
<1>1. Init => ContractInit BY DEF Init
<1> QED BY <1>1, ContractStep, PTL DEF Spec, ContractSpec

(* A stored result stays as it was reported. *)
LEMMA ResultsKept ==
  ASSUME ContractTypeOK, [ContractNext]_taskVars
  PROVE  \A t \in Task, n \in Node : result[t][n] # "none" => result'[t][n] = result[t][n]
<1>1. ASSUME NEW u \in Task, NEW m \in Node, Succeed(u, m) \/ Fail(u, m)
      PROVE  \A t \in Task, n \in Node : result[t][n] # "none" => result'[t][n] = result[t][n]
  <2>1. PICK o : Report(u, m, o) BY <1>1 DEF Succeed, Fail
  <2> QED BY <2>1 DEF Report, ContractTypeOK
<1> QED BY <1>1 DEF ContractNext, Insert, Requeue, Assign, taskVars

(* Tasks shown as succeeded have a stored success. *)
SuccessStored == \A t \in Task : status[t] = "succeeded" => StoredSuccess(t)

(* Every step of the store keeps it so. *)
LEMMA SuccessStoredStep ==
  ASSUME ContractTypeOK, SuccessStored, [ContractNext]_taskVars PROVE SuccessStored'
<1>1. \A t \in Task : StoredSuccess(t) => StoredSuccess(t)'
  BY ResultsKept DEF StoredSuccess
<1>2. ASSUME NEW t \in Task, status'[t] = "succeeded", status[t] # "succeeded" PROVE StoredSuccess(t)'
  <2>1. PICK u \in Task, n \in Node : Succeed(u, n)
    BY <1>2 DEF ContractTypeOK, ContractNext, Insert, Requeue, Assign, Fail, SetStatus, taskVars
  <2>2. u = t BY <1>2, <2>1 DEF Succeed, SetStatus
  <2> QED BY <2>1, <2>2 DEF Succeed, Report, StoredSuccess, ContractTypeOK
<1> QED BY <1>1, <1>2 DEF SuccessStored

(* The nodes that failed a task are as many as its max_attempts, or more. *)
UsedUp(t) == MaxAttempts[t] <= Cardinality(FailedAt(t))

(* So a task that has used up its attempts stays one that has. *)
LEMMA UsedUpStays ==
  ASSUME ContractTypeOK, [ContractNext]_taskVars, NEW t \in Task, UsedUp(t) PROVE UsedUp(t)'
<1>1. FailedAt(t) \subseteq FailedAt(t)' BY ResultsKept DEF FailedAt
<1>2. IsFiniteSet(FailedAt(t)') BY StoreAssumption, FS_Subset DEF FailedAt
<1>3. Cardinality(FailedAt(t)) <= Cardinality(FailedAt(t)') BY <1>1, <1>2, FS_Subset
<1>4. Cardinality(FailedAt(t)) \in Int /\ Cardinality(FailedAt(t)') \in Int
  BY <1>1, <1>2, FS_Subset, FS_CardinalityType
<1> QED BY <1>3, <1>4, StoreAssumption DEF UsedUp

(* A task that failed for good used up its attempts. *)
LEMMA FailedUsedUp ==
  ASSUME ContractTypeOK, [ContractNext]_taskVars, \A t \in Task : status[t] = "failed" => UsedUp(t)
  PROVE  \A t \in Task : status'[t] = "failed" => UsedUp(t)'
<1>1. ASSUME NEW t \in Task, status'[t] = "failed", status[t] # "failed" PROVE UsedUp(t)'
  <2>1. PICK u \in Task, n \in Node : Fail(u, n)
    BY <1>1 DEF ContractTypeOK, ContractNext, Insert, Requeue, Assign, Succeed, SetStatus, taskVars
  <2>2. u = t BY <1>1, <2>1 DEF Fail, SetStatus
  <2> QED BY <1>1, <2>1, <2>2 DEF Fail, SetStatus, UsedUp
<1> QED BY <1>1, UsedUpStays

-----------------------------------------------------------------------------
(* A job is failed for a cause *)

(* What fails a job for good: a status of failed, shown or seen by a hook,   *)
(* has max_attempts failures behind it.                                      *)
FailureHasCause ==
  /\ \A t \in Task : status[t] = "failed" => UsedUp(t)
  /\ \A h \in hooks : h.seen = "failed" => UsedUp(h.task)

(* A hook sees the status of its task, before or after a report's COMMIT.    *)
LEMMA SeenStatus ==
  ASSUME TypeOK, [Next]_vars, NEW h \in hooks', h \notin hooks, h.seen # Unread
  PROVE  h.task \in Task /\ h.seen = status[h.task]
<1> USE DEF jobVars, tickVars
<1>1. CASE ReportNext
  <2>1. PICK t \in Task, n \in Node : ReportSuccess(t, n) \/ ReportFailure(t, n) \/ ReportAgain(t, n)
    BY <1>1 DEF ReportNext
  <2>2. PICK ok \in BOOLEAN : StartHook(t, ok)
    BY <2>1 DEF ReportSuccess, ReportFailure, ReportAgain
  <2>3. PICK s \in {Unread, status[t]} : h = [task |-> t, success |-> ok, seen |-> s]
    BY <2>2 DEF StartHook
  <2> QED BY <2>3
<1>2. CASE HookNext
  <2>1. PICK g \in hooks : HookReads(g)
    BY <1>2 DEF HookNext, HookFailsJob, HookClaims, HookClaimThrows, HookIgnores
  <2>2. g \in Hook /\ h = [g EXCEPT !.seen = status[g.task]] BY <2>1 DEF HookReads, TypeOK
  <2> QED BY <2>2 DEF Hook
<1>3. hooks' \subseteq hooks \/ ReportNext \/ HookNext
  BY DEF Next, ClientNext, CreateJob, InsertPlain, TickNext, RecoverTasks, SplitDone, SplitInvalid,
    SplitClaim, TickClaims, TickPasses, TickClaimThrows, AssignTask, SplitNone, SplitFails, AssignDone,
    ListReady, ReducesDone, ReduceNext, ReadParts, ReduceDone, ReduceFails, FaultNext, TickAborts,
    Crash, HookDies, vars
<1> QED BY <1>1, <1>2, <1>3

(* Every step keeps FailureHasCause. *)
LEMMA FailureHasCauseStep == ASSUME TypeOK, FailureHasCause, [Next]_vars PROVE FailureHasCause'
<1>1. ContractTypeOK /\ [ContractNext]_taskVars BY ContractStep DEF TypeOK
<1>2. \A t \in Task : status'[t] = "failed" => UsedUp(t)'
  BY <1>1, FailedUsedUp DEF FailureHasCause
<1>3. ASSUME NEW h \in hooks', h.seen = "failed" PROVE h.task \in Task /\ UsedUp(h.task)
  BY <1>3, SeenStatus DEF FailureHasCause, TypeOK, Hook, Unread
<1>4. \A h \in hooks' : h.seen = "failed" => UsedUp(h.task)'
  BY <1>1, <1>3, UsedUpStays
<1> QED BY <1>2, <1>4 DEF FailureHasCause

(* The step that fails a job ends its reduce, or belongs to a hook that saw  *)
(* a subtask failed for good, or to a claim that met an exception.           *)
LEMMA FailedForCauseStep ==
  ASSUME TypeOK, TasksBegin, JobsBegin, FailureHasCause, [Next]_vars,
         NEW j \in Job, jobStatus[j] # "failed", jobStatus'[j] = "failed"
  PROVE  \/ jobStatus[j] = "reducing"
         \/ \E t \in Children(j) : MaxAttempts[t] <= Cardinality(FailedAt(t))
         \/ ClaimThrows
<1> USE DEF jobVars, tickVars
<1>1. ASSUME NEW h \in hooks, HookFailsJob(h)
      PROVE  \E t \in Children(j) : MaxAttempts[t] <= Cardinality(FailedAt(t))
  <2>1. h.task \in Children(j)
    BY <1>1, HookedJob DEF HookFailsJob, FailJob, Children, TypeOK
  <2> QED BY <1>1, <2>1 DEF HookFailsJob, FailureHasCause, UsedUp
<1>2. ASSUME NEW r \in reducers, ReduceFails(r) PROVE jobStatus[j] = "reducing"
  <2>1. r.job = j BY <1>2 DEF ReduceFails, FailJob, TypeOK
  <2>2. childrenTotal[j] > 0 /\ jobStatus[j] # "running_children"
    BY <2>1 DEF JobsBegin, ReducesBegin
  <2> QED BY <1>2, <2>1, <2>2, ReducingJob DEF ReduceFails, FailJob, TypeOK
<1>3. ASSUME NEW h \in hooks, HookClaims(h) PROVE FALSE
  BY <1>3 DEF HookClaims, Claim, TypeOK
<1>4. CASE HookNext
  BY <1>1, <1>3, <1>4 DEF HookNext, HookReads, HookIgnores, ClaimThrows
<1>5. CASE ReduceNext
  BY <1>2, <1>5 DEF ReduceNext, ReadParts, ReduceDone, TypeOK
<1>6. CASE TickNext
  <2>1. ASSUME NEW S \in SUBSET Task, SplitDone(S) PROVE FALSE
    BY <2>1 DEF SplitDone, TypeOK
  <2>2. ASSUME NEW i \in Job, TickClaims(i) \/ SplitClaim(i) PROVE FALSE
    BY <2>2 DEF TickClaims, Claim, SplitClaim, TypeOK
  <2>3. CASE SplitFails BY <2>3 DEF SplitFails, TypeOK
  <2> QED BY <1>6, <2>1, <2>2, <2>3 DEF TickNext, RecoverTasks, SplitInvalid, TickPasses, AssignTask,
            SplitNone, AssignDone, ListReady, ReducesDone, ClaimThrows
<1>7. CASE ClientNext \/ ReportNext \/ FaultNext \/ UNCHANGED vars
  BY <1>7 DEF ClientNext, CreateJob, InsertPlain, ReportNext, ReportSuccess, ReportFailure,
    ReportAgain, FaultNext, TickAborts, Crash, HookDies, vars, TypeOK
<1> QED BY <1>4, <1>5, <1>6, <1>7 DEF Next

(* No job is failed because of a subtask that would be retried.              *)
THEOREM PipelineFailedForCause == Spec => FailedForCause
<1>1. Init => FailureHasCause BY DEF Init, ContractInit, FailureHasCause
<1>2. TypeOK /\ TasksBegin /\ JobsBegin /\ FailureHasCause /\ [Next]_vars
        => [\A j \in Job : jobStatus[j] # "failed" /\ jobStatus'[j] = "failed" =>
             \/ jobStatus[j] = "reducing"
             \/ \E t \in Children(j) : MaxAttempts[t] <= Cardinality(FailedAt(t))
             \/ ClaimThrows]_vars
  BY FailedForCauseStep
<1> QED BY <1>1, <1>2, FailureHasCauseStep, PipelineTypes, JobsBeginInvariant, PTL
        DEF Spec, FailedForCause

-----------------------------------------------------------------------------
(* A job is completed from all of its subtasks *)

(* Jobs that were split have as many subtasks as they count. *)
Split == {"running_children", "reducing", "completed"}
Counted == \A j \in Job : jobStatus[j] \in Split => Cardinality(Children(j)) = childrenTotal[j]

(* A step of a job along the course of its status.                           *)
Along(j, s) ==
  /\ <<jobStatus[j], s>> \in JobView!Course
  /\ jobStatus' = [jobStatus EXCEPT ![j] = s]
  /\ s \in {"running_children", "reducing"} => s = "reducing" /\ Claimable(j)

(* failPipelineJob is one, or changes nothing. *)
LEMMA FailAlong ==
  ASSUME TypeOK, NEW j \in Job, FailJob(j), jobStatus[j] \notin {"absent", "pending_split"}
  PROVE  UNCHANGED jobStatus \/ Along(j, "failed")
BY DEF FailJob, TypeOK, Along, JobView!Course

(* A step stores subtasks, or moves one job along its course, and leaves the *)
(* other columns of jobs that are not being split alone.                     *)
LEMMA JobMoves ==
  ASSUME TypeOK, TasksBegin, JobsBegin, [Next]_vars
  PROVE  \/ \E S \in SUBSET Task : SplitDone(S) \/ SplitInvalid(S)
         \/ UNCHANGED <<jobStatus, jobOf, childrenTotal>>
         \/ /\ UNCHANGED <<taskVars, jobOf, childrenTotal>>
            /\ \E j \in Job : \E s \in {m[2] : m \in JobView!Course} : Along(j, s)
<1> DEFINE Moved == /\ UNCHANGED <<taskVars, jobOf, childrenTotal>>
                    /\ \E j \in Job : \E s \in {m[2] : m \in JobView!Course} : Along(j, s)
           Still == UNCHANGED <<jobStatus, jobOf, childrenTotal>>
<1> USE DEF jobVars, tickVars
<1>1. ASSUME NEW j \in Job, NEW s, Along(j, s), UNCHANGED <<taskVars, jobOf, childrenTotal>> PROVE Moved
  <2>1. s \in {m[2] : m \in JobView!Course} BY <1>1 DEF Along
  <2> QED BY <1>1, <2>1
<1>2. ASSUME NEW j \in Job, FailJob(j), jobStatus[j] \notin {"absent", "pending_split"},
             UNCHANGED <<taskVars, jobOf, childrenTotal>>
      PROVE  Still \/ Moved
  BY <1>1, <1>2, FailAlong
<1>3. ASSUME NEW j \in Job, NEW in, Claim(j, in), UNCHANGED <<taskVars, jobOf, childrenTotal>> PROVE Moved
  <2>1. Along(j, "reducing") BY <1>3 DEF Claim, Claimable, Along, JobView!Course
  <2> QED BY <1>1, <1>3, <2>1
<1>4. CASE ClientNext
  <2>1. ASSUME NEW j \in Job, CreateJob(j) PROVE Moved
    <3>1. Along(j, "pending_split") BY <2>1 DEF CreateJob, Along, JobView!Course
    <3> QED BY <1>1, <2>1, <3>1 DEF CreateJob
  <2>2. ASSUME NEW S \in SUBSET Task, InsertPlain(S) PROVE Still BY <2>2 DEF InsertPlain
  <2> QED BY <1>4, <2>1, <2>2 DEF ClientNext
<1>5. CASE TickNext
  <2>1. ASSUME NEW j \in Job, SplitClaim(j) PROVE Moved
    <3>1. Along(j, "splitting") BY <2>1 DEF SplitClaim, Along, JobView!Course
    <3> QED BY <1>1, <2>1, <3>1 DEF SplitClaim
  <2>2. ASSUME NEW j \in Job, TickClaims(j) PROVE Moved BY <1>3, <2>2 DEF TickClaims
  <2>3. ASSUME NEW j \in Job, TickClaimThrows(j) PROVE Still \/ Moved
    <3>1. childrenTotal[j] > 0 BY <2>3 DEF TickClaimThrows, JobsBegin, ReducesBegin
    <3> QED BY <1>2, <2>3, <3>1, ReducingJob DEF TickClaimThrows
  <2>4. CASE SplitFails
    <3>1. current \in Job /\ jobStatus[current] = "splitting"
      BY <2>4 DEF SplitFails, TypeOK, JobsBegin, SplitsBegin
    <3>2. Along(current, "failed_split") BY <2>4, <3>1 DEF SplitFails, Along, JobView!Course
    <3> QED BY <1>1, <2>4, <3>1, <3>2 DEF SplitFails
  <2>5. ASSUME NEW S \in SUBSET Task, RecoverTasks(S) PROVE Still BY <2>5 DEF RecoverTasks
  <2>6. ASSUME NEW j \in Job, TickPasses(j) PROVE Still BY <2>6 DEF TickPasses
  <2>7. ASSUME NEW t \in Task, AssignTask(t) PROVE Still BY <2>7 DEF AssignTask
  <2>8. CASE SplitNone \/ AssignDone \/ ListReady \/ ReducesDone
    BY <2>8 DEF SplitNone, AssignDone, ListReady, ReducesDone
  <2> QED BY <1>5, <2>1, <2>2, <2>3, <2>4, <2>5, <2>6, <2>7, <2>8 DEF TickNext
<1>6. CASE HookNext
  <2>1. ASSUME NEW h \in hooks, HookFailsJob(h) \/ HookClaimThrows(h) PROVE Still \/ Moved
    BY <1>2, <2>1, HookedJob DEF HookFailsJob, HookClaimThrows
  <2>2. ASSUME NEW h \in hooks, HookClaims(h) PROVE Moved
    BY <1>3, <2>2, HookedJob DEF HookClaims
  <2>3. ASSUME NEW h \in hooks, HookReads(h) \/ HookIgnores(h) PROVE Still
    BY <2>3 DEF HookReads, HookIgnores
  <2> QED BY <1>6, <2>1, <2>2, <2>3 DEF HookNext
<1>7. CASE ReduceNext
  <2>1. PICK r \in reducers : ReadParts(r) \/ ReduceDone(r) \/ ReduceFails(r)
    BY <1>7 DEF ReduceNext
  <2>2. r.job \in Job /\ childrenTotal[r.job] > 0
    BY DEF TypeOK, Reducer, JobsBegin, ReducesBegin
  <2>3. CASE ReadParts(r) BY <2>3 DEF ReadParts
  <2>4. CASE ReduceDone(r)
    <3>1. CASE jobStatus[r.job] = "reducing"
      <4>1. Along(r.job, "completed") BY <2>4, <3>1 DEF ReduceDone, Along, JobView!Course
      <4> QED BY <1>1, <2>2, <2>4, <4>1 DEF ReduceDone
    <3> QED BY <2>4, <3>1 DEF ReduceDone
  <2>5. CASE ReduceFails(r) BY <1>2, <2>2, <2>5, ReducingJob DEF ReduceFails
  <2> QED BY <2>1, <2>3, <2>4, <2>5
<1>8. CASE ReportNext \/ FaultNext \/ UNCHANGED vars
  BY <1>8 DEF ReportNext, ReportSuccess, ReportFailure, ReportAgain, FaultNext, TickAborts, Crash,
    HookDies, vars
<1> QED BY <1>4, <1>5, <1>6, <1>7, <1>8 DEF Next, TickNext

(* A job that counts as many succeeded subtasks as it has subtasks has a     *)
(* stored success of each.                                                   *)
LEMMA ReadyIsStored ==
  ASSUME TypeOK, SuccessStored, Counted, NEW j \in Job, Claimable(j)
  PROVE  Children(j) # {} /\ \A t \in Children(j) : StoredSuccess(t)
<1>1. IsFiniteSet(Children(j)) BY StoreAssumption, FS_Subset DEF Children
<1>2. Cardinality(SucceededChildren(j)) = Cardinality(Children(j))
  BY DEF Claimable, Counted, Split
<1>3. SucceededChildren(j) = Children(j)
  BY <1>1, <1>2, FS_Subset DEF SucceededChildren
<1>4. Children(j) # {}
  BY <1>2, FS_EmptySet DEF Claimable
<1> QED BY <1>3, <1>4 DEF SucceededChildren, SuccessStored, Children

(* Every step keeps Counted. *)
LEMMA CountedStep == ASSUME TypeOK, TasksBegin, JobsBegin, Counted, [Next]_vars PROVE Counted'
<1>1. ASSUME NEW S \in SUBSET Task, SplitDone(S) \/ SplitInvalid(S) PROVE Counted'
  BY <1>1, SplitChildren DEF SplitDone, SplitInvalid, Counted, Split, TypeOK
<1>2. ASSUME UNCHANGED jobOf PROVE \A j \in Job : Children(j)' = Children(j)
  BY <1>2 DEF Children
<1>3. CASE UNCHANGED <<jobStatus, jobOf, childrenTotal>> BY <1>2, <1>3 DEF Counted
<1>4. ASSUME NEW j \in Job, NEW s, Along(j, s), UNCHANGED <<jobOf, childrenTotal>> PROVE Counted'
  <2>1. s \in Split => jobStatus[j] \in Split
    BY <1>4 DEF Along, JobView!Course, Split
  <2> QED BY <1>2, <1>4, <2>1 DEF Along, Counted, TypeOK
<1> QED BY <1>1, <1>3, <1>4, JobMoves

(* Every step keeps CompletedIsComplete. *)
LEMMA CompletedStep ==
  ASSUME TypeOK, TasksBegin, JobsBegin, SuccessStored, Counted, CompletedIsComplete, [Next]_vars
  PROVE  CompletedIsComplete'
<1>1. \A t \in Task : StoredSuccess(t) => StoredSuccess(t)'
  BY ContractStep, ResultsKept DEF StoredSuccess, TypeOK
<1>2. Counted' BY CountedStep
<1>3. \A j \in Job : Children(j) \subseteq Task BY DEF Children
<1>4. ASSUME NEW S \in SUBSET Task, SplitDone(S) \/ SplitInvalid(S), NEW j \in Job,
             jobStatus'[j] \in {"reducing", "completed"}
      PROVE  \A t \in Children(j)' : StoredSuccess(t)'
  <2>1. j # current /\ jobStatus'[j] = jobStatus[j] /\ Children(j)' = Children(j)
    BY <1>4, SplitChildren DEF SplitDone, SplitInvalid, TypeOK
  <2> QED BY <1>1, <1>3, <1>4, <2>1 DEF CompletedIsComplete
<1>5. ASSUME UNCHANGED <<jobStatus, jobOf>>, NEW j \in Job, jobStatus'[j] \in {"reducing", "completed"}
      PROVE  \A t \in Children(j)' : StoredSuccess(t)'
  <2>1. Children(j)' = Children(j) BY <1>5 DEF Children
  <2> QED BY <1>1, <1>3, <1>5, <2>1 DEF CompletedIsComplete
<1>6. ASSUME UNCHANGED jobOf, NEW i \in Job, NEW s, Along(i, s), NEW j \in Job,
             jobStatus'[j] \in {"reducing", "completed"}
      PROVE  \A t \in Children(j)' : StoredSuccess(t)'
  <2>1. Children(j)' = Children(j) BY <1>6 DEF Children
  <2>2. jobStatus[j] \in {"reducing", "completed"} \/ Claimable(j)
    BY <1>6 DEF Along, JobView!Course, TypeOK
  <2>3. \A t \in Children(j) : StoredSuccess(t)
    BY <2>2, ReadyIsStored DEF CompletedIsComplete
  <2> QED BY <1>1, <1>3, <2>1, <2>3
<1>7. \A j \in Job : jobStatus'[j] \in {"reducing", "completed"} => \A t \in Children(j)' : StoredSuccess(t)'
  BY <1>4, <1>5, <1>6, JobMoves
<1> QED BY <1>2, <1>7 DEF CompletedIsComplete, Counted, Split

(* What the completion of a job rests on, kept together. *)
LEMMA StoredInvariant == Spec => [](SuccessStored /\ Counted)
<1>1. Init => SuccessStored /\ Counted
  BY DEF Init, ContractInit, SuccessStored, Counted, Split
<1>2. TypeOK /\ TasksBegin /\ JobsBegin /\ SuccessStored /\ Counted /\ [Next]_vars
        => (SuccessStored /\ Counted)'
  BY ContractStep, SuccessStoredStep, CountedStep DEF TypeOK
<1> QED BY <1>1, <1>2, PipelineTypes, JobsBeginInvariant, PTL DEF Spec

(* A completed job has a stored success of each of its subtasks, whatever    *)
(* late reports and reassignments have done to their status.                 *)
THEOREM PipelineCompletedIsComplete == Spec => []CompletedIsComplete
<1>1. Init => CompletedIsComplete BY DEF Init, CompletedIsComplete
<1> QED BY <1>1, CompletedStep, PipelineTypes, JobsBeginInvariant, StoredInvariant, PTL DEF Spec

-----------------------------------------------------------------------------
(* The contract of a job *)

(* No step takes a job's stored results away. *)
LEMMA StoredOnlyGrows ==
  ASSUME TypeOK, TasksBegin, JobsBegin, [Next]_vars
  PROVE  /\ AllStored \subseteq AllStored' /\ AllStored' \subseteq Job
         /\ \A S \in SUBSET Task : SplitDone(S) => AllStored' = AllStored
         /\ UNCHANGED <<taskVars, jobOf>> => AllStored' = AllStored
<1>1. \A t \in Task : StoredSuccess(t) => StoredSuccess(t)'
  BY ContractStep, ResultsKept DEF StoredSuccess, TypeOK
<1>2. \A j \in Job : Children(j) \subseteq Task BY DEF Children
<1>3. ASSUME NEW S \in SUBSET Task, SplitDone(S) \/ SplitInvalid(S)
      PROVE  AllStored' = AllStored
  <2>1. AddChildren(S) /\ tick = "running_split" BY <1>3 DEF SplitDone, SplitInvalid
  <2>2. \A t \in Task : StoredSuccess(t)' <=> StoredSuccess(t)
    BY <2>1 DEF AddChildren, Insert, StoredSuccess
  <2>3. \A t \in S : ~StoredSuccess(t)
    BY <2>1, SplitChildren DEF TasksBegin, StoredSuccess
  <2>4. /\ Children(current) = {}
        /\ \A j \in Job : Children(j)' = IF j = current THEN S ELSE Children(j)
    BY <2>1, SplitChildren
  <2> QED BY <1>2, <2>2, <2>3, <2>4 DEF AllStored
<1>4. ASSUME UNCHANGED jobOf PROVE AllStored \subseteq AllStored'
  <2>1. \A j \in Job : Children(j)' = Children(j) BY <1>4 DEF Children
  <2> QED BY <1>1, <1>2, <2>1 DEF AllStored
<1>5. ASSUME UNCHANGED <<taskVars, jobOf>> PROVE AllStored' = AllStored
  BY <1>5 DEF AllStored, Children, StoredSuccess, taskVars
<1>6. AllStored \subseteq AllStored' BY <1>3, <1>4, JobMoves
<1> QED BY <1>3, <1>5, <1>6 DEF AllStored

(* Every step is one of JobContract, or changes nothing a client sees.       *)
LEMMA JobContractStep ==
  ASSUME TypeOK, TasksBegin, JobsBegin, SuccessStored, Counted, [Next]_vars
  PROVE  [JobView!JobContractNext]_(JobView!jobContractVars)
<1>1. AllStored \subseteq AllStored' /\ AllStored' \subseteq Job BY StoredOnlyGrows
<1>2. ASSUME UNCHANGED jobStatus PROVE JobView!JobContractNext
  <2>1. AllStored' \in SUBSET Job /\ JobView!Store(AllStored')
    BY <1>1, <1>2 DEF JobView!Store
  <2> QED BY <2>1 DEF JobView!JobContractNext
<1>3. ASSUME NEW S \in SUBSET Task, SplitDone(S) PROVE JobView!JobContractNext
  <2>1. current \in Job /\ jobStatus[current] = "splitting"
    BY <1>3, SplitChildren DEF SplitDone
  <2>2. AllStored' = AllStored BY <1>3, StoredOnlyGrows
  <2>3. JobView!Move(current, "running_children")
    BY <1>3, <2>1, <2>2 DEF SplitDone, JobView!Move, JobView!Course
  <2>4. "running_children" \in {m[2] : m \in JobView!Course} BY DEF JobView!Course
  <2> QED BY <2>1, <2>3, <2>4 DEF JobView!JobContractNext
<1>4. ASSUME NEW j \in Job, NEW s \in {m[2] : m \in JobView!Course}, Along(j, s),
             UNCHANGED <<taskVars, jobOf>>
      PROVE  JobView!JobContractNext
  <2>1. AllStored' = AllStored BY <1>4, StoredOnlyGrows
  <2>2. s = "reducing" => j \in AllStored BY <1>4, ReadyIsStored DEF Along, AllStored
  <2>3. JobView!Move(j, s) BY <1>4, <2>1, <2>2 DEF Along, JobView!Move
  <2> QED BY <1>4, <2>3 DEF JobView!JobContractNext
<1>5. ASSUME NEW S \in SUBSET Task, SplitInvalid(S) PROVE JobView!JobContractNext
  BY <1>2, <1>5 DEF SplitInvalid
<1> QED BY <1>2, <1>3, <1>4, <1>5, JobMoves

(* Clients see every job take the course of JobContract. *)
THEOREM PipelineKeepsJobContract == Spec => KeepsJobContract
<1>1. Init => JobView!JobContractInit
  <2>1. ASSUME Init PROVE AllStored = {}
    BY <2>1, JobAssumption DEF Init, AllStored, Children
  <2> QED BY <2>1 DEF Init, JobView!JobContractInit
<1> QED BY <1>1, JobContractStep, PipelineTypes, JobsBeginInvariant, StoredInvariant, PTL
        DEF Spec, KeepsJobContract, JobView!JobContractSpec
=============================================================================
