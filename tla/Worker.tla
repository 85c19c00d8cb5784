------------------------------- MODULE Worker -------------------------------
(***************************************************************************)
(* The worker program, composed with the task store.  A process is one     *)
(* thread that for ever sends a heartbeat, polls, and runs and reports its *)
(* batch, task by task; while a container runs it sends nothing.  Every    *)
(* request it sends is an action of TaskStore.  Processes die, are started *)
(* again, also with the NODE_ID of a node that another process works as,   *)
(* and lose requests and answers.                                          *)
(***************************************************************************)
EXTENDS TaskStore, Scheduler

CONSTANTS
  Worker,   \* processes of the worker program
  Hardware  \* what a node registers with: cpuCores, ramMb, performanceScore

ASSUME HardwareAssumption ==
  Hardware \in [Node -> [cpuCores : Int, ramMb : Int, performanceScore : Int]]

VARIABLES
  pc,       \* where the thread is; "batch" includes the containers it runs
  nodeId,   \* node_id of the process, if one runs
  batch,    \* tasks that it has polled and not reported
  current,  \* the task it has reported last
  taken     \* history: the tasks that were taken from a node, see CoordinatorNext

workerVars == <<pc, nodeId, batch, current>>
allVars == <<vars, workerVars, taken>>

(* What the processes that work as node n hold. *)
Held(n) == UNION {batch[w] : w \in {v \in Worker : nodeId[v] = n}}

WorkerTypeOK ==
  /\ pc \in [Worker -> {"down", "beat", "poll", "batch", "answer"}]
  /\ nodeId \in [Worker -> Node \cup {NoNode}]
  /\ batch \in [Worker -> SUBSET Task]
  /\ current \in [Worker -> Task \cup {NoTask}]
  /\ \A w \in Worker : current[w] # NoTask <=> pc[w] = "answer"
  /\ \A w \in Worker : nodeId[w] = NoNode <=> pc[w] = "down"
  /\ \A w \in Worker : batch[w] # {} => pc[w] \in {"batch", "answer"}
  /\ taken \subseteq Task
  /\ held = [n \in Node |-> Held(n)]

WorkerInit ==
  /\ Init
  /\ pc = [w \in Worker |-> "down"]
  /\ nodeId = [w \in Worker |-> NoNode]
  /\ batch = [w \in Worker |-> {}]
  /\ current = [w \in Worker |-> NoTask]
  /\ taken = {}

-----------------------------------------------------------------------------
(* Start *)

(* The process works as node n from now on. *)
Enters(w, n) ==
  /\ pc[w] = "down"
  /\ pc' = [pc EXCEPT ![w] = "beat"]
  /\ nodeId' = [nodeId EXCEPT ![w] = n]
  /\ UNCHANGED <<batch, current, taken>>

(* POST /nodes/register, without NODE_ID.  If the host is there already      *)
(* (worker_nodes.host is UNIQUE) or no request arrives, there is no row and  *)
(* the process ends: nothing has changed.                                    *)
Registers(w, n) == Register(n) /\ Enters(w, n)

(* The row is inserted, the answer lost: the process ends. *)
RegistersUnheard(w, n) ==
  /\ pc[w] = "down" /\ Register(n)
  /\ UNCHANGED <<workerVars, taken>>

(* Started with NODE_ID.  Nobody checks it: another process may work as this *)
(* node, and there may be no such node.                                      *)
Resumes(w, n) == Enters(w, n) /\ UNCHANGED vars

-----------------------------------------------------------------------------
(* One turn of the loop *)

At(w, label) == pc[w] = label
Goto(w, label) ==
  /\ pc' = [pc EXCEPT ![w] = label]
  /\ UNCHANGED <<nodeId, taken>>

Beats(w) ==
  /\ At(w, "beat") /\ Heartbeat(nodeId[w])
  /\ Goto(w, "poll") /\ UNCHANGED <<batch, current>>

(* An exception, which is logged, or an UPDATE that finds no such node; the  *)
(* worker polls all the same.                                                *)
BeatFails(w) ==
  /\ At(w, "beat")
  /\ Goto(w, "poll") /\ UNCHANGED <<vars, batch, current>>

(* The store adds what is polled to what the node's processes hold. *)
Polls(w) ==
  LET n == nodeId[w] IN
  /\ At(w, "poll")
  /\ Poll(n) \/ UNCHANGED vars
  /\ batch' = [batch EXCEPT ![w] = RunningOn(n) \ lagTask]
  /\ batch'[w] # {} /\ batch'[w] \subseteq held'[n]
  /\ Goto(w, "batch") /\ UNCHANGED current

(* No task, or the poll failed; it sleeps until the next heartbeat. *)
PollsNothing(w) ==
  /\ At(w, "poll")
  /\ Goto(w, "beat") /\ UNCHANGED <<vars, batch, current>>

(* The store's held is what processes hold then: t stays held by its node if *)
(* another process of the node has it.                                       *)
HeldStaysExact == held' = [n \in Node |-> Held(n)']

(* The image of t is checked, the registry logged in to, the image pulled    *)
(* and run.  If all goes well a success is reported, a failure if not; but   *)
(* the node's second report of t is a duplicate.                             *)
Reports(w, t) ==
  /\ At(w, "batch") /\ t \in batch[w]
  /\ \/ SubmitSuccess(t, nodeId[w])
     \/ SubmitFailureRead(t, nodeId[w])
     \/ SubmitDuplicate(t, nodeId[w])
  /\ batch' = [batch EXCEPT ![w] = @ \ {t}]
  /\ current' = [current EXCEPT ![w] = t]
  /\ Goto(w, "answer")
  /\ HeldStaysExact

(* The report was stored: the next task or, at the end of the batch, sleep.  *)
Answers(w) ==
  /\ At(w, "answer") /\ HandlerAt(current[w], nodeId[w]) = {}
  /\ result[current[w]][nodeId[w]] # "none"
  /\ Goto(w, IF batch[w] = {} THEN "beat" ELSE "batch")
  /\ current' = [current EXCEPT ![w] = NoTask]
  /\ UNCHANGED <<vars, batch>>

AbandonsMutantKeepsTask(w) ==
  /\ Drop(nodeId[w]) \/ UNCHANGED vars
  /\ batch' = [batch EXCEPT ![w] = {}]
  /\ UNCHANGED <<current, taken>>

(* What is left of the batch is not reported. *)
Abandons(w) ==
  /\ Drop(nodeId[w]) \/ UNCHANGED vars
  /\ batch' = [batch EXCEPT ![w] = {}]
  /\ current' = [current EXCEPT ![w] = NoTask]
  /\ UNCHANGED taken

(* An error, an answer that is lost or comes too late, a report that does    *)
(* not arrive, a GET /projects that fails, a payload that is no object: the  *)
(* exception leaves the batch.                                               *)
RequestFails(w) ==
  /\ pc[w] \in {"batch", "answer"}
  /\ Abandons(w)
  /\ Goto(w, "beat")
  /\ HeldStaysExact

(* The process is killed: from outside, or by SIGPIPE, when it writes to a   *)
(* docker client that has already exited.                                    *)
Dies(w) ==
  /\ ~At(w, "down")
  /\ Abandons(w)
  /\ pc' = [pc EXCEPT ![w] = "down"]
  /\ nodeId' = [nodeId EXCEPT ![w] = NoNode]
  /\ HeldStaysExact

-----------------------------------------------------------------------------
(* The coordinator *)

(* Recovery takes a task from its node for silence or for the time; the      *)
(* assign loop takes it if it has read it before the COMMIT of its own last  *)
(* assignment and gives it away once more.                                   *)
Takes == Recover /\ taken' = taken \cup Lost

Assigns ==
  /\ AssignUpdate
  /\ taken' = IF status[picked] = "assigned" THEN taken \cup {picked} ELSE taken

CoordinatorNext ==
  \/ Takes \/ Assigns
  \/ /\ \/ \E n \in Node : AssignSelect(n) \/ HeartbeatAges(n)
        \/ \E t \in Task : AssignFetch(t) \/ DueArrives(t) \/ CommitTask(t)
        \/ \E S \in SUBSET Task : GenerateTasks(S)
        \/ \E h \in reading : SubmitFailureWrite(h) \/ SubmitFailureRollback(h)
        \/ NothingToSplit \/ AssignDone \/ AssignNoNode \/ NothingToReduce
        \/ CommitRecovery \/ TickAborts \/ CoordinatorCrash
     /\ UNCHANGED taken

Thread(w) ==
  \/ Beats(w) \/ BeatFails(w) \/ Polls(w) \/ PollsNothing(w)
  \/ \E t \in Task : Reports(w, t)
  \/ Answers(w) \/ RequestFails(w)

Launch(w) == \E n \in Node : Registers(w, n) \/ RegistersUnheard(w, n) \/ Resumes(w, n)

WorkerNext ==
  \/ CoordinatorNext /\ UNCHANGED workerVars
  \/ \E w \in Worker : Launch(w) \/ Thread(w) \/ Dies(w)

WorkerSpec == WorkerInit /\ [][WorkerNext]_allVars

-----------------------------------------------------------------------------
(* Properties *)

(* Nobody checks that a report comes from the node its task is assigned to.  *)
(* It does all the same, as long as the task was not taken from a node: a    *)
(* report that will count is in the making only at the node that the task is *)
(* assigned to, so only at one, whatever process is started again, with the  *)
(* right NODE_ID or a wrong one, and whatever request or answer is lost.  A  *)
(* node that polls again while its own failure is being recorded may run the *)
(* task beside the next node; but then its next report is a duplicate and    *)
(* counts no more.                                                           *)
WillCount(n, t) == (t \in held[n] /\ result[t][n] = "none") \/ HandlerAt(t, n) # {}

CountsFromAssignee ==
  \A t \in Task \ taken : \A n \in Node :
    WillCount(n, t) => status[t] = "assigned" /\ assignedTo[t] = n

(* The scheduler never prefers a node to one with as good hardware and a     *)
(* lower load, in whatever order the query returns the online nodes.         *)
Row(n) ==
  [cpuCores |-> Hardware[n].cpuCores, ramMb |-> Hardware[n].ramMb,
   performanceScore |-> Hardware[n].performanceScore, currentLoad |-> load[n],
   throughputHistory |-> 0, failureRate |-> 0, avgLatencyMs |-> 0]

Lists(S) == {list \in [1 .. Cardinality(S) -> S] : \A n \in S : \E i \in DOMAIN list : list[i] = n}

AsGood(m, n) ==
  /\ Hardware[m].cpuCores >= Hardware[n].cpuCores
  /\ Hardware[m].ramMb >= Hardware[n].ramMb
  /\ Hardware[m].performanceScore >= Hardware[n].performanceScore

LowerLoadFirst ==
  phase = "select" /\ OnlineNodes # {} =>
    \A list \in Lists(OnlineNodes) :
      LET n == list[SelectNode([i \in DOMAIN list |-> Row(list[i])])]
      IN \A m \in OnlineNodes : AsGood(m, n) => load[n] <= load[m]
=============================================================================
