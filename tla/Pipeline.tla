------------------------------ MODULE Pipeline ------------------------------
(***************************************************************************)
(* Pipeline jobs: split on the coordinator, subtasks in the task store,    *)
(* reduce on the coordinator.  The store is taken as TaskContract; here    *)
(* are the jobs, the part of submitResult that follows its transaction     *)
(* (onPipelineSubtaskFinished) and the two pipeline stages of the tick.    *)
(* Handlers and the tick run concurrently, and any of them may run a       *)
(* reduce.  XMutantY is X with a plausible bug Y, used by no action.       *)
(***************************************************************************)
EXTENDS TaskContract

CONSTANTS
  Job,          \* jobs.id
  NoJob,        \* SQL NULL in tasks.job_id
  AsyncCommit,  \* TRUE: a handler's next read may overtake its own COMMIT
  Faults        \* TRUE: exceptions and crashes happen

ASSUME JobAssumption == NoJob \notin Job
ASSUME StoreAssumption == IsFiniteSet(Node) /\ IsFiniteSet(Task) /\ MaxAttempts \in [Task -> Int]
ASSUME PipelineSwitches == AsyncCommit \in BOOLEAN /\ Faults \in BOOLEAN

VARIABLES
  jobStatus,      \* jobs.status
  childrenTotal,  \* jobs.children_total
  jobOf,          \* tasks.job_id of a subtask
  handed,         \* tasks that were assigned: workers know of no other
  resultParts,    \* jobs.result_json: the rows of task_results it was made of
  tick,           \* what the tick does next
  current,        \* the job the tick is splitting
  listed,         \* jobs processReadyPipelineReduces has yet to try
  hooks,          \* handlers in onPipelineSubtaskFinished
  reducers        \* calls of tryRunReduceForJob that have claimed their job

jobVars == <<jobStatus, childrenTotal, jobOf, resultParts>>
tickVars == <<tick, current, listed>>
vars == <<taskVars, handed, jobVars, tickVars, hooks, reducers>>

(* A hook is about to read the status of its task, or has read it: "unread"  *)
(* or the status.  A reducer has read its parts or is about to.              *)
Hook == [task : Task, success : BOOLEAN,
         seen : {"unread", "queued", "assigned", "succeeded", "failed"}]
Unread == "unread"
Part == Task \X Node
Reducer == [job : Job, inTick : BOOLEAN, read : BOOLEAN, parts : SUBSET Part]

Children(j) == {t \in Task : jobOf[t] = j}
SucceededChildren(j) == {t \in Children(j) : status[t] = "succeeded"}

ClaimableMutantNotCounted(j) ==
  /\ jobStatus[j] = "running_children"
  /\ childrenTotal[j] > 0
  /\ \A t \in Children(j) : status[t] # "failed"

ClaimableMutantAnyStatus(j) ==
  /\ childrenTotal[j] > 0
  /\ \A t \in Children(j) : status[t] # "failed"
  /\ Cardinality(SucceededChildren(j)) = childrenTotal[j]

(* The condition of the claim and of processReadyPipelineReduces. *)
Claimable(j) ==
  /\ jobStatus[j] = "running_children"
  /\ childrenTotal[j] > 0
  /\ \A t \in Children(j) : status[t] # "failed"
  /\ Cardinality(SucceededChildren(j)) = childrenTotal[j]

(* SELECT of the parts: every success row of a task that is succeeded now. *)
PartsOf(j) ==
  {p \in Part : p[1] \in SucceededChildren(j) /\ result[p[1]][p[2]] = "success"}

TypeOK ==
  /\ ContractTypeOK
  /\ jobStatus \in [Job -> {"absent", "pending_split", "splitting", "running_children",
                            "reducing", "completed", "failed", "failed_split"}]
  /\ childrenTotal \in [Job -> 0 .. Cardinality(Task)]
  /\ jobOf \in [Task -> Job \cup {NoJob}]
  /\ resultParts \in [Job -> SUBSET Part]
  /\ handed \subseteq Task
  /\ tick \in {"recover", "split", "running_split", "invalid_subtask", "assign", "list", "reduce"}
  /\ current \in IF tick \in {"running_split", "invalid_subtask"} THEN Job ELSE {NoJob}
  /\ listed \subseteq Job
  /\ hooks \subseteq Hook
  /\ reducers \subseteq Reducer

Init ==
  /\ ContractInit
  /\ jobStatus = [j \in Job |-> "absent"]
  /\ childrenTotal = [j \in Job |-> 0]
  /\ jobOf = [t \in Task |-> NoJob]
  /\ handed = {}
  /\ resultParts = [j \in Job |-> {}]
  /\ tick = "recover"
  /\ current = NoJob
  /\ listed = {}
  /\ hooks = {}
  /\ reducers = {}

-----------------------------------------------------------------------------
(* Clients *)

(* createPipelineJob *)
CreateJob(j) ==
  /\ jobStatus[j] = "absent"
  /\ jobStatus' = [jobStatus EXCEPT ![j] = "pending_split"]
  /\ UNCHANGED <<taskVars, handed, childrenTotal, jobOf, resultParts, tickVars, hooks, reducers>>

(* Tasks that belong to no job, inserted in one transaction. *)
InsertPlain(S) ==
  /\ Insert(S)
  /\ UNCHANGED <<handed, jobVars, tickVars, hooks, reducers>>

-----------------------------------------------------------------------------
(* The tick: recover, split, assign, reduce *)

RecoverTasks(S) ==
  /\ tick = "recover"
  /\ Requeue(S)
  /\ tick' = "split"
  /\ UNCHANGED <<handed, jobVars, current, listed, hooks, reducers>>

(* processPendingPipelineSplits claims a job and runs split in a container ... *)
SplitClaim(j) ==
  /\ tick = "split"
  /\ jobStatus[j] = "pending_split"
  /\ jobStatus' = [jobStatus EXCEPT ![j] = "splitting"]
  /\ current' = j
  /\ tick' = "running_split"
  /\ UNCHANGED <<taskVars, handed, childrenTotal, jobOf, resultParts, listed, hooks, reducers>>

SplitNoneMutantRunsOn ==
  /\ tick = "split"
  /\ \A j \in Job : jobStatus[j] # "pending_split"
  /\ tick' = "running_split"
  /\ UNCHANGED <<taskVars, handed, jobVars, current, listed, hooks, reducers>>

SplitNone ==
  /\ tick = "split"
  /\ \A j \in Job : jobStatus[j] # "pending_split"
  /\ tick' = "assign"
  /\ UNCHANGED <<taskVars, handed, jobVars, current, listed, hooks, reducers>>

SplitFailsMutantGivesUp ==
  /\ tick \in {"running_split", "invalid_subtask"}
  /\ current' = NoJob
  /\ tick' = "assign"
  /\ UNCHANGED <<taskVars, handed, jobVars, listed, hooks, reducers>>

(* ... which fails, or its output is empty, too large, not JSON, holds no    *)
(* subtask or more than 4096; or the transaction below meets an SQL error    *)
(* and rolls back ...                                                        *)
SplitFails ==
  /\ tick \in {"running_split", "invalid_subtask"}
  /\ jobStatus' = [jobStatus EXCEPT ![current] = "failed_split"]
  /\ current' = NoJob
  /\ tick' = "assign"
  /\ UNCHANGED <<taskVars, handed, childrenTotal, jobOf, resultParts, listed, hooks, reducers>>

AddChildren(S) ==
  /\ Insert(S)
  /\ jobOf' = [t \in Task |-> IF t \in S THEN current ELSE jobOf[t]]

(* ... or yields the subtasks, stored in one transaction with the job.       *)
SplitDone(S) ==
  /\ tick = "running_split"
  /\ S # {}
  /\ AddChildren(S)
  /\ childrenTotal' = [childrenTotal EXCEPT ![current] = Cardinality(S)]
  /\ jobStatus' = [jobStatus EXCEPT ![current] = "running_children"]
  /\ current' = NoJob
  /\ tick' = "assign"
  /\ UNCHANGED <<handed, resultParts, listed, hooks, reducers>>

(* A subtask without a payload object: the exception leaves the scope of the *)
(* transaction, which commits the subtasks inserted so far; the handler of   *)
(* the exception then marks the job (SplitFails).                            *)
SplitInvalid(S) ==
  /\ tick = "running_split"
  /\ AddChildren(S)
  /\ tick' = "invalid_subtask"
  /\ UNCHANGED <<handed, jobStatus, childrenTotal, resultParts, current, listed, hooks, reducers>>

(* The tick may go on before the COMMIT of an assignment is executed; the    *)
(* next recovery waits for the row locks.                                    *)
AssignTask(t) ==
  /\ \/ tick = "assign"
     \/ AsyncCommit /\ tick \in {"list", "reduce", "recover"}
  /\ Assign(t)
  /\ handed' = handed \cup {t}
  /\ UNCHANGED <<jobVars, tickVars, hooks, reducers>>

AssignDone ==
  /\ tick = "assign"
  /\ tick' = "list"
  /\ UNCHANGED <<taskVars, handed, jobVars, current, listed, hooks, reducers>>

ListReadyMutantNone ==
  /\ tick = "list"
  /\ tick' = "reduce"
  /\ UNCHANGED <<taskVars, handed, jobVars, current, listed, hooks, reducers>>

(* processReadyPipelineReduces: one SELECT, then tryRunReduceForJob for each. *)
ListReady ==
  /\ tick = "list"
  /\ listed' = {j \in Job : Claimable(j)}
  /\ tick' = "reduce"
  /\ UNCHANGED <<taskVars, handed, jobVars, current, hooks, reducers>>

TickReduces == \E r \in reducers : r.inTick

ReducesDone ==
  /\ tick = "reduce" /\ listed = {} /\ ~TickReduces
  /\ tick' = "recover"
  /\ UNCHANGED <<taskVars, handed, jobVars, current, listed, hooks, reducers>>

-----------------------------------------------------------------------------
(* onPipelineSubtaskFinished, after the transaction of submitResult *)

(* The status may be read before the COMMIT of the transaction is executed:  *)
(* then it is the one from before the transaction.                           *)
StartHook(t, ok) ==
  IF jobOf[t] = NoJob THEN UNCHANGED hooks
  ELSE \E s \in {Unread} \cup (IF AsyncCommit THEN {status[t]} ELSE {}) :
         hooks' = hooks \cup {[task |-> t, success |-> ok, seen |-> s]}

ReportSuccess(t, n) ==
  /\ t \in handed /\ Succeed(t, n)
  /\ StartHook(t, TRUE)
  /\ UNCHANGED <<handed, jobVars, tickVars, reducers>>

ReportFailure(t, n) ==
  /\ t \in handed /\ Fail(t, n)
  /\ StartHook(t, FALSE)
  /\ UNCHANGED <<handed, jobVars, tickVars, reducers>>

(* A repeated report of success still tries to reduce. *)
ReportAgain(t, n) ==
  /\ result[t][n] # "none"
  /\ StartHook(t, TRUE)
  /\ UNCHANGED <<taskVars, handed, jobVars, tickVars, reducers>>

HookReads(h) ==
  /\ h \in hooks /\ h.seen = Unread
  /\ hooks' = (hooks \ {h}) \cup {[h EXCEPT !.seen = status[h.task]]}
  /\ UNCHANGED <<taskVars, handed, jobVars, tickVars, reducers>>

FailJobMutantUnguarded(j) == jobStatus' = [jobStatus EXCEPT ![j] = "failed"]

(* failPipelineJob *)
FailJob(j) ==
  jobStatus' = IF jobStatus[j] \in {"completed", "failed", "failed_split"} THEN jobStatus
               ELSE [jobStatus EXCEPT ![j] = "failed"]

HookFailsJobMutantAnyFailure(h) ==
  /\ h \in hooks /\ h.seen # Unread /\ ~h.success
  /\ FailJob(jobOf[h.task])
  /\ hooks' = hooks \ {h}
  /\ UNCHANGED <<taskVars, handed, childrenTotal, jobOf, resultParts, tickVars, reducers>>

HookFailsJob(h) ==
  /\ h \in hooks /\ h.seen = "failed"
  /\ FailJob(jobOf[h.task])
  /\ hooks' = hooks \ {h}
  /\ UNCHANGED <<taskVars, handed, childrenTotal, jobOf, resultParts, tickVars, reducers>>

(* The claim of tryRunReduceForJob *)
Claim(j, in) ==
  /\ Claimable(j)
  /\ jobStatus' = [jobStatus EXCEPT ![j] = "reducing"]
  /\ reducers' = reducers \cup {[job |-> j, inTick |-> in,
                                 read |-> FALSE, parts |-> {}]}

HookClaims(h) ==
  /\ h \in hooks /\ h.success /\ h.seen \notin {Unread, "failed"}
  /\ Claim(jobOf[h.task], FALSE)
  /\ hooks' = hooks \ {h}
  /\ UNCHANGED <<taskVars, handed, childrenTotal, jobOf, resultParts, tickVars>>

(* No claim: after a failure, while subtasks are missing, or because the     *)
(* COMMIT of the handler's own success is still on its way.                  *)
HookIgnores(h) ==
  /\ h \in hooks /\ h.seen \notin {Unread, "failed"}
  /\ h.success /\ Claimable(jobOf[h.task]) => AsyncCommit /\ h.seen # "succeeded"
  /\ hooks' = hooks \ {h}
  /\ UNCHANGED <<taskVars, handed, jobVars, tickVars, reducers>>

-----------------------------------------------------------------------------
(* tryRunReduceForJob *)

TickClaims(j) ==
  /\ tick = "reduce" /\ j \in listed /\ ~TickReduces
  /\ Claim(j, TRUE)
  /\ listed' = listed \ {j}
  /\ UNCHANGED <<taskVars, handed, childrenTotal, jobOf, resultParts, tick, current, hooks>>

TickPasses(j) ==
  /\ tick = "reduce" /\ j \in listed /\ ~TickReduces
  /\ ~Claimable(j)
  /\ listed' = listed \ {j}
  /\ UNCHANGED <<taskVars, handed, jobVars, tick, current, hooks, reducers>>

ReadParts(r) ==
  /\ ~r.read
  /\ reducers' = (reducers \ {r}) \cup {[r EXCEPT !.read = TRUE, !.parts = PartsOf(r.job)]}
  /\ UNCHANGED <<taskVars, handed, jobVars, tickVars, hooks>>

(* The reduce container has run; the UPDATE asks for status 'reducing'. *)
ReduceDone(r) ==
  /\ r.read
  /\ IF jobStatus[r.job] = "reducing"
     THEN /\ jobStatus' = [jobStatus EXCEPT ![r.job] = "completed"]
          /\ resultParts' = [resultParts EXCEPT ![r.job] = r.parts]
     ELSE UNCHANGED <<jobStatus, resultParts>>
  /\ reducers' = reducers \ {r}
  /\ UNCHANGED <<taskVars, handed, childrenTotal, jobOf, tickVars, hooks>>

(* The container failed, a text was not JSON or too large, or an exception   *)
(* was caught.                                                               *)
ReduceFails(r) ==
  /\ FailJob(r.job)
  /\ reducers' = reducers \ {r}
  /\ UNCHANGED <<taskVars, handed, childrenTotal, jobOf, resultParts, tickVars, hooks>>

-----------------------------------------------------------------------------
(* The claim itself meets an exception: the handler of the exception fails   *)
(* the job, whatever it was waiting for.                                     *)
HookClaimThrows(h) ==
  /\ Faults /\ h \in hooks
  /\ h.success /\ h.seen \notin {Unread, "failed"}
  /\ FailJob(jobOf[h.task])
  /\ hooks' = hooks \ {h}
  /\ UNCHANGED <<taskVars, handed, childrenTotal, jobOf, resultParts, tickVars, reducers>>

TickClaimThrows(j) ==
  /\ Faults
  /\ tick = "reduce" /\ j \in listed /\ ~TickReduces
  /\ FailJob(j)
  /\ listed' = listed \ {j}
  /\ UNCHANGED <<taskVars, handed, childrenTotal, jobOf, resultParts, tick, current, hooks, reducers>>

(* Faults: an exception that leaves the tick, or a handler after the commit  *)
(* of submitResult; a crash of the coordinator.  Nothing is rolled back but  *)
(* the statement at hand.                                                    *)
TickAborts ==
  /\ Faults /\ tick # "recover"
  /\ tick' = "recover" /\ current' = NoJob /\ listed' = {}
  /\ reducers' = {r \in reducers : ~r.inTick}
  /\ UNCHANGED <<taskVars, handed, jobVars, hooks>>

HookDies(h) ==
  /\ Faults /\ h \in hooks
  /\ hooks' = hooks \ {h}
  /\ UNCHANGED <<taskVars, handed, jobVars, tickVars, reducers>>

Crash ==
  /\ Faults
  /\ tick' = "recover" /\ current' = NoJob /\ listed' = {}
  /\ hooks' = {} /\ reducers' = {}
  /\ UNCHANGED <<taskVars, handed, jobVars>>

-----------------------------------------------------------------------------
ClientNext == \/ \E j \in Job : CreateJob(j)
              \/ \E S \in SUBSET Task : InsertPlain(S)

TickNext ==
  \/ \E S \in SUBSET Task : RecoverTasks(S) \/ SplitDone(S) \/ SplitInvalid(S)
  \/ \E j \in Job : SplitClaim(j) \/ TickClaims(j) \/ TickPasses(j) \/ TickClaimThrows(j)
  \/ \E t \in Task : AssignTask(t)
  \/ SplitNone \/ SplitFails \/ AssignDone \/ ListReady \/ ReducesDone

ReportNext == \E t \in Task, n \in Node :
                ReportSuccess(t, n) \/ ReportFailure(t, n) \/ ReportAgain(t, n)

HookNext ==
  \E h \in hooks :
    HookReads(h) \/ HookFailsJob(h) \/ HookClaims(h) \/ HookClaimThrows(h) \/ HookIgnores(h)

ReduceNext == \E r \in reducers : ReadParts(r) \/ ReduceDone(r) \/ ReduceFails(r)

FaultNext == TickAborts \/ Crash \/ \E h \in hooks : HookDies(h)

Next == ClientNext \/ TickNext \/ ReportNext \/ HookNext \/ ReduceNext \/ FaultNext

Spec == Init /\ [][Next]_vars

-----------------------------------------------------------------------------
(* Safety *)

StoredSuccess(t) == \E n \in Node : result[t][n] = "success"

(* A completed job has a stored success of each of the subtasks it was split *)
(* into, even when a late failure or a reassignment has changed their status.*)
CompletedIsComplete ==
  \A j \in Job : jobStatus[j] \in {"reducing", "completed"} =>
    /\ Cardinality(Children(j)) = childrenTotal[j]
    /\ \A t \in Children(j) : StoredSuccess(t)

(* However many handlers and ticks find a job ready, one of them reduces it. *)
OneReducer ==
  \A r, s \in reducers : r.job = s.job => r = s

(* A job is failed only for a cause: its reduce, a subtask that has failed on *)
(* max_attempts nodes (not one that will be retried), or an exception of the *)
(* claim.                                                                    *)
ClaimThrows == (\E h \in hooks : HookClaimThrows(h)) \/ \E j \in Job : TickClaimThrows(j)

FailedForCause ==
  [][\A j \in Job : jobStatus[j] # "failed" /\ jobStatus'[j] = "failed" =>
       \/ jobStatus[j] = "reducing"
       \/ \E t \in Children(j) : MaxAttempts[t] <= Cardinality(FailedAt(t))
       \/ ClaimThrows]_vars

(* Clients see jobs take the course of JobContract. *)
AllStored == {j \in Job : Children(j) # {} /\ \A t \in Children(j) : StoredSuccess(t)}

JobView == INSTANCE JobContract WITH allStored <- AllStored

KeepsJobContract == JobView!JobContractSpec

(* What the code does not keep: the results a job is reduced from are one    *)
(* per subtask.                                                              *)
OnePartPerSubtask ==
  \A j \in Job : jobStatus[j] = "completed" =>
    \A t \in Children(j) : Cardinality({p \in resultParts[j] : p[1] = t}) = 1

-----------------------------------------------------------------------------
(* Liveness *)

ReducersOf(j) == {r \in reducers : r.job = j}

(* The timer of the main loop fires for ever and each stage of the tick ends:*)
(* the assign loop runs out of tasks or nodes, and each container ends by    *)
(* itself (its time limit is no help, see DockerChild).  The I/O threads run *)
(* the handlers they were given.                                             *)
TickFairness ==
  /\ WF_vars(\E S \in SUBSET Task : RecoverTasks(S))
  /\ WF_vars(SplitNone \/ \E j \in Job : SplitClaim(j))
  /\ WF_vars(SplitFails \/ \E S \in SUBSET Task : SplitDone(S) \/ SplitInvalid(S))
  /\ WF_vars(AssignDone)
  /\ WF_vars(ListReady)
  /\ WF_vars(ReducesDone \/ \E j \in Job : TickClaims(j) \/ TickPasses(j))

HandlerFairness ==
  /\ \A h \in Hook : WF_vars(HookReads(h)) /\ WF_vars(HookFailsJob(h))
  /\ \A j \in Job : WF_vars(\E r \in ReducersOf(j) : ReadParts(r) \/ ReduceDone(r) \/ ReduceFails(r))

FairSpec == Spec /\ TickFairness /\ HandlerFairness

(* No job waits for its split, is split or is reduced for ever.              *)
StagesEnd ==
  \A j \in Job : \A s \in {"pending_split", "splitting", "reducing"} :
    (jobStatus[j] = s) ~> (jobStatus[j] # s)

(* A job whose subtasks have all succeeded is not left waiting, even if no   *)
(* handler claims it: the tick finds it.                                     *)
ReadyIsReduced == \A j \in Job : Claimable(j) ~> ~Claimable(j)

(* What the code does not do, even if no fault happens any more: come back   *)
(* to a job whose next step is its own.  A job stays as it is when the       *)
(* coordinator crashed, or an exception left the tick, while it was split or *)
(* reduced; when the handler of the last failure of a subtask died; and,     *)
(* without any fault, when that handler has read the status from before its  *)
(* own COMMIT: nothing else looks for failed subtasks.                       *)
CoordinatorsTurn(j) ==
  \/ jobStatus[j] \in {"splitting", "reducing"}
  \/ jobStatus[j] = "running_children" /\ \E t \in Children(j) : status[t] = "failed"

(* A step that no fault is needed for. *)
PlannedNext == ClientNext \/ TickNext \/ ReportNext \/ HookNext \/ ReduceNext

JobsMoveOn ==
  <>[][PlannedNext]_vars => \A j \in Job : CoordinatorsTurn(j) ~> ~CoordinatorsTurn(j)
=============================================================================
