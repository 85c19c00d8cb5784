---------------------------- MODULE Coordinator ----------------------------
(***************************************************************************)
(* The coordinator as a whole: the jobs of Pipeline over the tables of     *)
(* TaskStore.  Each step is one of the store, one of the jobs, or both at  *)
(* once where the code does both: submitResult goes on with                *)
(* onPipelineSubtaskFinished, a split inserts its subtasks, and one main   *)
(* loop runs the stages of the tick.                                       *)
(*                                                                         *)
(* The jobs are not asked for their consent: what the store does to a task *)
(* must be something Pipeline expects.  Sessions other than the tick's see *)
(* a task as it was before its assignment until the COMMIT is executed.    *)
(***************************************************************************)
EXTENDS TaskStore

CONSTANTS Job, NoJob

ASSUME NoJobAssumption == NoJob \notin Job

VARIABLES
  committed,  \* tasks.status as other sessions see it
  jobStatus, childrenTotal, jobOf, handed, resultParts, tick, current,
  listed, hooks, reducers

Jobs == INSTANCE Pipeline WITH status <- committed

jobVars == <<jobStatus, childrenTotal, jobOf, resultParts>>
stageVars == <<tick, current, listed>>
jobsVars == <<handed, jobVars, stageVars, hooks, reducers>>
coordVars == <<vars, committed, jobsVars>>

CoordInit == Init /\ Jobs!Init

-----------------------------------------------------------------------------
(* Steps of the store, and what they mean to the jobs *)

(* Workers come to know of S. *)
Hands(S) ==
  /\ handed' = handed \cup S
  /\ UNCHANGED <<jobVars, stageVars, hooks, reducers>>

TickTo(stage) ==
  /\ tick' = stage
  /\ UNCHANGED <<handed, jobVars, current, listed, hooks, reducers>>

(* onPipelineSubtaskFinished begins. *)
Continues(t, success) ==
  /\ Jobs!StartHook(t, success)
  /\ UNCHANGED <<handed, jobVars, stageVars, reducers>>

StoreAlone ==
  /\ \/ NodeNext \/ CommitRecovery
     \/ \E S \in SUBSET Task : GenerateTasks(S)
     \/ \E t \in Task : DueArrives(t) \/ AssignFetch(t)
     \/ \E n \in Node : AssignSelect(n) \/ \E t \in Task : SubmitFailureRead(t, n)
     \/ \E h \in reading : SubmitFailureRollback(h)
  /\ UNCHANGED jobsVars

(* The stages of the tick that work on tasks. *)
Recovers == Recover /\ TickTo("split")

Assigns == AssignUpdate /\ Hands(IF AsyncCommit THEN {} ELSE {picked})
AssignCommits(t) == CommitTask(t) /\ Hands({t})
AssignEnds == (AssignDone \/ AssignNoNode) /\ TickTo("list")

(* submitResult: the transaction, and the hook after it. *)
Succeeds(t, n) == SubmitSuccess(t, n) /\ Continues(t, TRUE)

FailsMutantNoHook(h) == SubmitFailureWrite(h) /\ UNCHANGED jobsVars
Fails(h) == SubmitFailureWrite(h) /\ Continues(h.task, FALSE)

(* A repeated report goes on only if it is one of success. *)
Repeats(t, n) ==
  /\ SubmitDuplicate(t, n)
  /\ Continues(t, TRUE) \/ UNCHANGED jobsVars

-----------------------------------------------------------------------------
(* Steps of the jobs *)

JobsAlone ==
  /\ \/ Jobs!SplitNone \/ Jobs!SplitFails \/ Jobs!ListReady
     \/ Jobs!HookNext \/ Jobs!ReduceNext
     \/ \E j \in Job : \/ Jobs!CreateJob(j) \/ Jobs!SplitClaim(j)
                       \/ Jobs!TickClaims(j) \/ Jobs!TickPasses(j) \/ Jobs!TickClaimThrows(j)
     \/ \E h \in hooks : Jobs!HookDies(h)
  /\ UNCHANGED vars

(* The subtasks are rows of tasks. *)
Splits(S) ==
  /\ Jobs!SplitDone(S) \/ Jobs!SplitInvalid(S)
  /\ IF S = {} THEN UNCHANGED vars ELSE GenerateTasks(S)

SplitEnds == tick = "assign" /\ NothingToSplit /\ UNCHANGED jobsVars

TickEnds == Jobs!ReducesDone /\ NothingToReduce

Aborts == TickAborts /\ Jobs!TickAborts
Crashes == CoordinatorCrash /\ Jobs!Crash

-----------------------------------------------------------------------------
CoordNext ==
  \/ StoreAlone \/ Recovers \/ Assigns \/ AssignEnds
  \/ \E t \in Task : AssignCommits(t) \/ \E n \in Node : Succeeds(t, n) \/ Repeats(t, n)
  \/ \E h \in reading : Fails(h)
  \/ JobsAlone \/ SplitEnds \/ TickEnds \/ Aborts \/ Crashes
  \/ \E S \in SUBSET Task : Splits(S)

Commit == committed' = [t \in Task |-> IF t \in lagTask' THEN committed[t] ELSE status'[t]]

CoordSpec == CoordInit /\ [][CoordNext /\ Commit]_coordVars

-----------------------------------------------------------------------------
(* Over the real store, which assigns, recovers and stores reports as it     *)
(* likes, the jobs are those of Pipeline, whose store is only a contract.    *)
KeepsPipeline == Jobs!Spec

(* A completed job has a stored success of each of its subtasks.             *)
JobsComplete == Jobs!CompletedIsComplete

(* Clients see jobs take the course of JobContract.                          *)
JobsKeepContract == Jobs!KeepsJobContract

(* A job fails only for a cause the real store shows.                        *)
JobsFailForCause == Jobs!FailedForCause

(* What the code does not keep: one result per subtask (see Pipeline).       *)
OnePart == Jobs!OnePartPerSubtask
=============================================================================
