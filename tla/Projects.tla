------------------------------ MODULE Projects ------------------------------
(***************************************************************************)
(* A project's row, and where its image and its registry login go: into    *)
(* the snapshot of a pipeline job, from there into the containers of split *)
(* and reduce (docker login, pull and run on the coordinator) and into the *)
(* payloads of subtasks, and into the caches of the workers.  Handlers     *)
(* read and write in separate statements, and run concurrently.  The rest  *)
(* of a job's course is Pipeline's.                                        *)
(*                                                                         *)
(* A value is named after the update that brought it.  "server", "user"    *)
(* and "password" are the columns registry_*, "version" stands for name,   *)
(* version and checksum.                                                   *)
(***************************************************************************)
EXTENDS Integers, Sequences

CONSTANTS
  Update,    \* calls of PUT /projects/{id}
  Job,       \* calls of POST /projects/{id}/pipeline-jobs
  Task,      \* calls of POST /projects/{id}/tasks or tasks/generate
  Node,      \* workers
  Creation,  \* the call of POST /projects
  Own,       \* brought by the request itself, or by the output of a split
  None,      \* no value; of a part of a login: empty
  FirstLogin, \* the login of the project at its creation
  Asks,      \* the sets of fields an update may ask to change
  Payloads   \* what the payloads of clients and splits may bring of their own

Field == {"version", "image", "server", "user", "password"}
Writer == Update \cup {Creation}
Login(S) == [server : S, user : S, password : S]
Settings(S) == [image : S, server : S, user : S, password : S]
Maybe == Writer \cup {None}
Row == [version : Writer, image : Writer, server : Maybe, user : Maybe, password : Maybe]
Value == Writer \cup {Own, None}

ASSUME NameAssumption ==
  /\ Creation \notin Update /\ Own \notin Writer /\ None \notin Writer \cup {Own}
  /\ Task \cap Job = {}
ASSUME AskAssumption ==
  /\ Asks \subseteq SUBSET Field
  /\ FirstLogin \in Login({Creation, None})
  /\ Payloads \subseteq Settings({Own, None})

VARIABLES
  row,         \* the row of projects
  updating,    \* updateProject between its SELECT and its UPDATE
  written,     \* history: the UPDATEs, in their order
  stage,       \* what became of a job
  snapshot,    \* the job's executor_image and registry_*
  call,        \* where dockerRunWithPull for the job is
  loggedIn,    \* the login the coordinator's docker client has stored
  overtaken,   \* history: another call has logged in since this one did
  payload,     \* docker_image and registry_* of a task, or of a job's subtasks
  cache,       \* executor_url in the projects_cache of a worker's process
  start        \* history: how many UPDATEs there were when it was started

projectVars == <<row, updating, written>>
jobVars == <<stage, snapshot, call, loggedIn, overtaken>>
workerVars == <<cache, start>>
vars == <<projectVars, jobVars, payload, workerVars>>

ProjectsTypeOK ==
  /\ row \in Row
  /\ updating \subseteq [update : Update, asked : Asks, seen : Row, at : 0 .. Len(written)]
  /\ written \in Seq([update : Update, asked : Asks, at : Nat, row : Row])
  /\ stage \in [Job -> {"new", "reading", "pending", "split", "children", "mapped", "reduce", "over"}]
  /\ snapshot \in [Job -> Settings(Value)]
  /\ call \in [Job -> {"none", "login", "pull"}]
  /\ \A j \in Job : /\ snapshot[j].image = None => stage[j] = "new"
                    /\ call[j] # "none" <=> stage[j] \in {"split", "reduce"}
                    /\ payload[j] = <<>> => stage[j] \notin {"children", "mapped", "reduce"}
  /\ loggedIn \in Login(Value)
  /\ overtaken \in [Job -> BOOLEAN]
  /\ payload \in [Task \cup Job -> {<<>>} \cup Settings(Value)]
  /\ cache \in [Node -> Maybe]
  /\ start \in [Node -> 0 .. Len(written)]

(* createProject has inserted the row. *)
Created ==
  [version |-> Creation, image |-> Creation, server |-> FirstLogin.server,
   user |-> FirstLogin.user, password |-> FirstLogin.password]

Nothing == [image |-> None, server |-> None, user |-> None, password |-> None]
LoginOf(s) == [server |-> s.server, user |-> s.user, password |-> s.password]

Init ==
  /\ row = Created
  /\ updating = {}
  /\ written = <<>>
  /\ stage = [j \in Job |-> "new"]
  /\ snapshot = [j \in Job |-> Nothing]
  /\ call = [j \in Job |-> "none"]
  /\ loggedIn = LoginOf(Nothing)
  /\ overtaken = [j \in Job |-> FALSE]
  /\ payload = [x \in Task \cup Job |-> <<>>]
  /\ cache = [n \in Node |-> None]
  /\ start = [n \in Node |-> 0]

-----------------------------------------------------------------------------
(* updateProject *)

Finished(u) == \E i \in DOMAIN written : written[i].update = u
InHand(u) == \E h \in updating : h.update = u

(* SELECT: what the request does not name stays as it was read. *)
UpdateReads(u) ==
  /\ ~Finished(u) /\ ~InHand(u)
  /\ \E A \in Asks :
       updating' = updating \cup {[update |-> u, asked |-> A, seen |-> row, at |-> Len(written)]}
  /\ UNCHANGED <<row, written, jobVars, payload, workerVars>>

(* The image is not allowed, the name and version are taken, or the          *)
(* coordinator dies.  The client may try again.                              *)
UpdateFails(h) ==
  /\ updating' = updating \ {h}
  /\ UNCHANGED <<row, written, jobVars, payload, workerVars>>

RowOfMutantOmittedReset(h) ==
  [f \in Field |-> IF f \in h.asked THEN h.update ELSE Created[f]]

RowOf(h) == [f \in Field |-> IF f \in h.asked THEN h.update ELSE h.seen[f]]

(* UPDATE of all columns. *)
UpdateWrites(h) ==
  /\ row' = RowOf(h)
  /\ updating' = updating \ {h}
  /\ written' = Append(written, [update |-> h.update, asked |-> h.asked, at |-> h.at, row |-> row'])
  /\ UNCHANGED <<jobVars, payload, workerVars>>

-----------------------------------------------------------------------------
(* Tasks and jobs are created *)

(* mergePayloadRegistry: an empty server leaves the payload its own server,  *)
(* and an empty user its own user and password.                              *)
Merged(own, from) ==
  [own EXCEPT !.server = IF from.server = None THEN @ ELSE from.server,
              !.user = IF from.user = None THEN @ ELSE from.user,
              !.password = IF from.user = None THEN @ ELSE from.password]

(* submitProjectTask: the payload is the client's, with the project's login. *)
SubmitTask(t) ==
  /\ payload[t] = <<>>
  /\ \E own \in Payloads : payload' = [payload EXCEPT ![t] = Merged(own, row)]
  /\ UNCHANGED <<projectVars, jobVars, workerVars>>

(* generateTasks: neither an image nor a login. *)
GenerateTask(t) ==
  /\ payload[t] = <<>>
  /\ payload' = [payload EXCEPT ![t] = Nothing]
  /\ UNCHANGED <<projectVars, jobVars, workerVars>>

(* createPipelineJob: getProject, and the image of the request or the row ... *)
JobReads(j) ==
  /\ stage[j] = "new"
  /\ stage' = [stage EXCEPT ![j] = "reading"]
  /\ \E image \in {Own, row.image} : snapshot' = [snapshot EXCEPT ![j].image = image]
  /\ UNCHANGED <<projectVars, call, loggedIn, overtaken, payload, workerVars>>

(* ... and, by another SELECT, the login; INSERT. *)
JobInserts(j) ==
  /\ stage[j] = "reading"
  /\ stage' = [stage EXCEPT ![j] = "pending"]
  /\ snapshot' = [snapshot EXCEPT ![j] =
       [image |-> @.image, server |-> row.server, user |-> row.user, password |-> row.password]]
  /\ UNCHANGED <<projectVars, call, loggedIn, overtaken, payload, workerVars>>

-----------------------------------------------------------------------------
(* dockerRunWithPull on the coordinator *)

CallStartsMutantChildrenNotAwaited(j, command) ==
  /\ \/ command = "split" /\ stage[j] = "pending" /\ \A k \in Job : stage[k] # "split"
     \/ command = "reduce" /\ stage[j] \in {"pending", "children", "mapped"}
  /\ stage' = [stage EXCEPT ![j] = command]
  /\ call' = [call EXCEPT ![j] = IF snapshot[j].user = None THEN "pull" ELSE "login"]
  /\ UNCHANGED <<projectVars, snapshot, loggedIn, overtaken, payload, workerVars>>

(* The split of a job, on the main loop; or its reduce, on any thread.       *)
CallStarts(j, command) ==
  /\ \/ command = "split" /\ stage[j] = "pending" /\ \A k \in Job : stage[k] # "split"
     \/ command = "reduce" /\ stage[j] = "mapped"
  /\ stage' = [stage EXCEPT ![j] = command]
  /\ call' = [call EXCEPT ![j] = IF snapshot[j].user = None THEN "pull" ELSE "login"]
  /\ UNCHANGED <<projectVars, snapshot, loggedIn, overtaken, payload, workerVars>>

(* docker login: the client keeps it for the registry, whoever pulls next.   *)
(* Any two logins may be for one registry.                                   *)
LogsIn(j) ==
  /\ call[j] = "login"
  /\ loggedIn' = LoginOf(snapshot[j])
  /\ overtaken' = [k \in Job |-> call[k] = "pull"]
  /\ call' = [call EXCEPT ![j] = "pull"]
  /\ UNCHANGED <<projectVars, stage, snapshot, payload, workerVars>>

CallFailsMutantLoginIgnored(j) ==
  /\ call[j] # "none"
  /\ call' = [call EXCEPT ![j] = IF @ = "login" THEN "pull" ELSE "none"]
  /\ stage' = [stage EXCEPT ![j] = IF call[j] = "login" THEN @ ELSE "over"]
  /\ UNCHANGED <<projectVars, snapshot, loggedIn, overtaken, payload, workerVars>>

(* The image is no longer allowed, or the login, the pull or the run fails.  *)
CallFails(j) ==
  /\ call[j] # "none"
  /\ call' = [call EXCEPT ![j] = "none"]
  /\ stage' = [stage EXCEPT ![j] = "over"]
  /\ UNCHANGED <<projectVars, snapshot, loggedIn, overtaken, payload, workerVars>>

(* docker pull with the login the client has; the container runs.            *)
CallRuns(j, command) ==
  /\ call[j] = "pull" /\ stage[j] = command
  /\ call' = [call EXCEPT ![j] = "none"]
  /\ UNCHANGED <<projectVars, snapshot, loggedIn, overtaken, workerVars>>

SubtaskMutantSplitWins(j, own) == Merged(snapshot[j], own)

(* The output of split gives the payloads; docker_image is set in each.      *)
Subtask(j, own) == Merged([own EXCEPT !.image = snapshot[j].image], snapshot[j])

SplitRuns(j) ==
  /\ CallRuns(j, "split")
  /\ stage' = [stage EXCEPT ![j] = "children"]
  /\ \E own \in Payloads : payload' = [payload EXCEPT ![j] = Subtask(j, own)]

ReduceRuns(j) ==
  /\ CallRuns(j, "reduce")
  /\ stage' = [stage EXCEPT ![j] = "over"]
  /\ UNCHANGED payload

-----------------------------------------------------------------------------
(* Workers *)

(* The project is fetched with the first of its tasks, and kept.             *)
Fetched(n) == IF cache[n] = None THEN row.image ELSE cache[n]

(* The payload's image, or the project's. *)
MapImage(n, x) == IF payload[x].image = None THEN Fetched(n) ELSE payload[x].image

(* A task of x is polled and run: login, pull and run may fail; a report of  *)
(* success may make a job ready for reduce.                                  *)
Map(n, x) ==
  /\ payload[x] # <<>>
  /\ cache' = [cache EXCEPT ![n] = Fetched(n)]
  /\ \/ /\ x \in Job /\ stage[x] = "children"
        /\ stage' = [stage EXCEPT ![x] = "mapped"]
     \/ UNCHANGED stage
  /\ UNCHANGED <<projectVars, snapshot, call, loggedIn, overtaken, payload, start>>

RestartsMutantCacheKept(n) ==
  /\ start' = [start EXCEPT ![n] = Len(written)]
  /\ UNCHANGED <<cache, projectVars, jobVars, payload>>

Restarts(n) ==
  /\ start' = [start EXCEPT ![n] = Len(written)]
  /\ cache' = [cache EXCEPT ![n] = None]
  /\ UNCHANGED <<projectVars, jobVars, payload>>

-----------------------------------------------------------------------------
Next ==
  \/ \E u \in Update : UpdateReads(u)
  \/ \E h \in updating : UpdateFails(h) \/ UpdateWrites(h)
  \/ \E t \in Task : SubmitTask(t) \/ GenerateTask(t)
  \/ \E j \in Job :
       \/ JobReads(j) \/ JobInserts(j)
       \/ CallStarts(j, "split") \/ CallStarts(j, "reduce")
       \/ LogsIn(j) \/ CallFails(j) \/ SplitRuns(j) \/ ReduceRuns(j)
  \/ \E n \in Node : Restarts(n) \/ \E x \in Task \cup Job : Map(n, x)

Spec == Init /\ [][Next]_vars

-----------------------------------------------------------------------------
(* Properties *)

(* What an update was asked for stays in the row until another update is     *)
(* asked for the same field, or one that had read the row before.            *)
UpdateStays ==
  \A i \in DOMAIN written : \A f \in written[i].asked :
    \/ row[f] = written[i].update
    \/ \E k \in DOMAIN written : k > i /\ (f \in written[k].asked \/ written[k].at < i)

(* A map of a job runs the image its split has run and its reduce will run,  *)
(* with the job's server if the job has one and the job's user and password  *)
(* if it has a user, whatever the output of split says, whatever is updated  *)
(* meanwhile and whichever worker, with whatever in its cache, runs it.  Of  *)
(* a job with a user and no server, the output of split still chooses the    *)
(* registry that the job's user logs in to.                                  *)
MapRunsSnapshot ==
  \A j \in Job : \A n \in Node : payload[j] # <<>> =>
    /\ MapImage(n, j) = snapshot[j].image
    /\ snapshot[j].server # None => payload[j].server = snapshot[j].server
    /\ snapshot[j].user # None => /\ payload[j].user = snapshot[j].user
                                 /\ payload[j].password = snapshot[j].password

(* A call pulls with its own login, unless another call of the coordinator   *)
(* has logged in between its login and its pull.                             *)
PullsWithOwnLogin ==
  \A j \in Job :
    call[j] = "pull" /\ snapshot[j].user # None =>
      overtaken[j] \/ loggedIn = LoginOf(snapshot[j])

(* A plain task without an image of its own runs one that the project had    *)
(* at some time since the worker's process began: restarting the workers is  *)
(* enough to be rid of an old image.                                         *)
RowAfter(i) == IF i = 0 THEN Created ELSE written[i].row
ImagesSince(i) == {RowAfter(k).image : k \in i .. Len(written)}

TaskImageSinceStart ==
  \A t \in Task : \A n \in Node :
    payload[t] # <<>> => MapImage(n, t) = Own \/ MapImage(n, t) \in ImagesSince(start[n])
=============================================================================
