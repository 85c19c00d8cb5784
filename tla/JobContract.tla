---------------------------- MODULE JobContract ----------------------------
(***************************************************************************)
(* What a client of the pipeline API may rely on: the course of a job's    *)
(* status, and that a reduce starts only when a result of every subtask is *)
(* stored.                                                                 *)
(***************************************************************************)
CONSTANT Job

VARIABLES
  jobStatus,  \* as GET /pipeline-jobs/{id} shows it
  allStored   \* the jobs with subtasks, a success of each of them stored

jobContractVars == <<jobStatus, allStored>>

(* A failing subtask can fail a job that is still splitting: the subtasks    *)
(* before an invalid one are stored before the job is marked failed_split.   *)
Course ==
  {<<"absent", "pending_split">>, <<"pending_split", "splitting">>,
   <<"splitting", "running_children">>, <<"splitting", "failed_split">>,
   <<"splitting", "failed">>, <<"running_children", "reducing">>,
   <<"running_children", "failed">>, <<"reducing", "completed">>, <<"reducing", "failed">>}

JobContractInit == jobStatus = [j \in Job |-> "absent"] /\ allStored = {}

Move(j, s) ==
  /\ <<jobStatus[j], s>> \in Course
  /\ s = "reducing" => j \in allStored
  /\ jobStatus' = [jobStatus EXCEPT ![j] = s]
  /\ UNCHANGED allStored

(* A stored success is never lost. *)
Store(S) == allStored' = allStored \cup S /\ UNCHANGED jobStatus

JobContractNext ==
  \/ \E j \in Job : \E s \in {m[2] : m \in Course} : Move(j, s)
  \/ \E S \in SUBSET Job : Store(S)

JobContractSpec == JobContractInit /\ [][JobContractNext]_jobContractVars
=============================================================================
