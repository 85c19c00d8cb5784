--------------------------- MODULE ProjectsProofs ---------------------------
(***************************************************************************)
(* Theorems about Projects, for any number of updates, jobs, tasks and     *)
(* workers, whatever fields the updates ask for.                           *)
(***************************************************************************)
EXTENDS Projects, TLAPS

USE NameAssumption, AskAssumption

-----------------------------------------------------------------------------
(* Typing *)

(* updateProject keeps the types. *)
LEMMA UpdateTypes ==
  ASSUME ProjectsTypeOK,
         \/ \E u \in Update : UpdateReads(u)
         \/ \E h \in updating : UpdateFails(h) \/ UpdateWrites(h)
  PROVE  ProjectsTypeOK'
<1> USE DEF ProjectsTypeOK, jobVars, workerVars
<1>1. ASSUME NEW u \in Update, UpdateReads(u) PROVE ProjectsTypeOK' BY <1>1 DEF UpdateReads
<1>2. ASSUME NEW h \in updating, UpdateFails(h) PROVE ProjectsTypeOK' BY <1>2 DEF UpdateFails
<1>3. ASSUME NEW h \in updating, UpdateWrites(h) PROVE ProjectsTypeOK'
  <2>1. row' \in Row BY <1>3 DEF UpdateWrites, RowOf, Row, Field, Maybe, Writer
  <2>2. /\ written' \in Seq([update : Update, asked : Asks, at : Nat, row : Row])
        /\ Len(written') = Len(written) + 1
    BY <1>3, <2>1 DEF UpdateWrites
  <2>3. updating' \subseteq [update : Update, asked : Asks, seen : Row, at : 0 .. Len(written')]
    BY <1>3, <2>2 DEF UpdateWrites
  <2>4. start' \in [Node -> 0 .. Len(written')] BY <1>3, <2>2 DEF UpdateWrites
  <2> QED BY <1>3, <2>1, <2>2, <2>3, <2>4 DEF UpdateWrites
<1> QED BY <1>1, <1>2, <1>3

(* What a row holds may stand in a payload or a snapshot. *)
LEMMA RowValues ==
  ASSUME ProjectsTypeOK
  PROVE  row.server \in Value /\ row.user \in Value /\ row.password \in Value
BY DEF ProjectsTypeOK, Row, Maybe, Value

(* What a request brings, or nothing, is a payload. *)
LEMMA NothingBrought ==
  /\ Nothing \in Settings(Value)
  /\ \A own \in Payloads : own \in Settings(Value) /\ own.image \in {Own, None}
BY AskAssumption DEF Nothing, Settings, Value

(* An image can be set in a payload or a snapshot. *)
LEMMA ImageSet ==
  ASSUME NEW s \in Settings(Value), NEW image \in Value
  PROVE  /\ [s EXCEPT !.image = image] \in Settings(Value)
         /\ [s EXCEPT !.image = image].image = image
BY DEF Settings

(* A merge makes a payload of a payload. *)
LEMMA MergedSettings ==
  ASSUME NEW own \in Settings(Value), NEW from,
         from.server \in Value, from.user \in Value, from.password \in Value
  PROVE  Merged(own, from) \in Settings(Value) /\ Merged(own, from).image = own.image
BY DEF Merged, Settings

(* The login of a job can be stored by the docker client. *)
LEMMA LoginValues ==
  ASSUME ProjectsTypeOK, NEW j \in Job
  PROVE  LoginOf(snapshot[j]) \in Login(Value)
BY DEF ProjectsTypeOK, LoginOf, Login, Settings

(* The creation of tasks and jobs keeps the types. *)
LEMMA CreationTypes ==
  ASSUME ProjectsTypeOK,
         \/ \E t \in Task : SubmitTask(t) \/ GenerateTask(t)
         \/ \E j \in Job : JobReads(j) \/ JobInserts(j)
  PROVE  ProjectsTypeOK'
<1> USE DEF ProjectsTypeOK, projectVars, jobVars, workerVars
<1>1. ASSUME NEW t \in Task, SubmitTask(t) \/ GenerateTask(t) PROVE ProjectsTypeOK'
  <2>1. PICK p \in Settings(Value) : payload' = [payload EXCEPT ![t] = p]
    BY <1>1, RowValues, MergedSettings, NothingBrought DEF SubmitTask, GenerateTask
  <2>2. UNCHANGED <<projectVars, jobVars, workerVars>> BY <1>1 DEF SubmitTask, GenerateTask
  <2>3. \A j \in Job : payload'[j] = payload[j] BY <2>1
  <2> QED BY <2>1, <2>2, <2>3
<1>2. ASSUME NEW j \in Job, JobReads(j) PROVE ProjectsTypeOK'
  <2>1. PICK image \in Writer \cup {Own} : snapshot' = [snapshot EXCEPT ![j].image = image]
    BY <1>2 DEF JobReads, Row
  <2>2. snapshot' \in [Job -> Settings(Value)] /\ snapshot'[j].image # None
    <3>1. snapshot[j] \in Settings(Value) /\ image \in Value /\ image # None BY DEF Value
    <3>2. snapshot' = [snapshot EXCEPT ![j] = [snapshot[j] EXCEPT !.image = image]] BY <2>1
    <3> QED BY <3>1, <3>2, ImageSet
  <2>3. \A k \in Job : k # j => snapshot'[k] = snapshot[k] /\ stage'[k] = stage[k]
    BY <1>2, <2>1 DEF JobReads
  <2> QED BY <1>2, <2>1, <2>2, <2>3 DEF JobReads
<1>3. ASSUME NEW j \in Job, JobInserts(j) PROVE ProjectsTypeOK'
  <2>1. /\ snapshot' \in [Job -> Settings(Value)]
        /\ \A k \in Job : snapshot'[k].image = snapshot[k].image
    <3> DEFINE s == [image |-> snapshot[j].image, server |-> row.server, user |-> row.user,
                     password |-> row.password]
    <3>1. s \in Settings(Value) /\ s.image = snapshot[j].image BY RowValues DEF Settings
    <3>2. snapshot' = [snapshot EXCEPT ![j] = s] BY <1>3 DEF JobInserts
    <3> HIDE DEF s
    <3> QED BY <3>1, <3>2
  <2> QED BY <1>3, <2>1 DEF JobInserts
<1> QED BY <1>1, <1>2, <1>3

(* dockerRunWithPull keeps the types. *)
LEMMA CallTypes ==
  ASSUME ProjectsTypeOK, NEW j \in Job,
         \/ CallStarts(j, "split") \/ CallStarts(j, "reduce")
         \/ LogsIn(j) \/ CallFails(j) \/ SplitRuns(j) \/ ReduceRuns(j)
  PROVE  ProjectsTypeOK'
<1> USE DEF ProjectsTypeOK, projectVars, workerVars
<1>1. CASE CallStarts(j, "split") \/ CallStarts(j, "reduce") BY <1>1 DEF CallStarts
<1>2. CASE LogsIn(j) BY <1>2, LoginValues DEF LogsIn
<1>3. CASE CallFails(j) BY <1>3 DEF CallFails
<1>4. CASE SplitRuns(j)
  <2>1. PICK own \in Payloads : payload' = [payload EXCEPT ![j] = Subtask(j, own)]
    BY <1>4 DEF SplitRuns
  <2>2. Subtask(j, own) \in Settings(Value) /\ Subtask(j, own) # <<>>
    <3>1. [own EXCEPT !.image = snapshot[j].image] \in Settings(Value)
      BY AskAssumption DEF Settings, Value
    <3>2. \A p \in Settings(Value) : p # <<>>
      <4> SUFFICES ASSUME NEW p \in Settings(Value) PROVE p # <<>> OBVIOUS
      <4>1. "image" \in DOMAIN p BY DEF Settings
      <4>2. DOMAIN <<>> = {} OBVIOUS
      <4> QED BY <4>1, <4>2
    <3>3. snapshot[j].server \in Value /\ snapshot[j].user \in Value /\ snapshot[j].password \in Value
      BY DEF Settings
    <3> QED BY <3>1, <3>2, <3>3, MergedSettings DEF Subtask
  <2> QED BY <1>4, <2>1, <2>2 DEF SplitRuns, CallRuns
<1>5. CASE ReduceRuns(j) BY <1>5 DEF ReduceRuns, CallRuns
<1> QED BY <1>1, <1>2, <1>3, <1>4, <1>5

(* Workers keep the types. *)
LEMMA WorkerTypes ==
  ASSUME ProjectsTypeOK, NEW n \in Node, Restarts(n) \/ \E x \in Task \cup Job : Map(n, x)
  PROVE  ProjectsTypeOK'
<1> USE DEF ProjectsTypeOK, projectVars, jobVars
<1>1. CASE Restarts(n) BY <1>1 DEF Restarts, Maybe
<1>2. ASSUME NEW x \in Task \cup Job, Map(n, x) PROVE ProjectsTypeOK'
  <2>1. Fetched(n) \in Writer BY DEF Fetched, Row, Maybe
  <2>2. cache' \in [Node -> Maybe] BY <1>2, <2>1 DEF Map, Maybe
  <2>3. CASE UNCHANGED stage BY <1>2, <2>2, <2>3 DEF Map
  <2>4. CASE x \in Job /\ stage[x] = "children" /\ stage' = [stage EXCEPT ![x] = "mapped"]
    BY <1>2, <2>2, <2>4 DEF Map
  <2> QED BY <1>2, <2>3, <2>4 DEF Map
<1> QED BY <1>1, <1>2

(* Every step keeps the types. *)
LEMMA ProjectsTypesStep == ASSUME ProjectsTypeOK, [Next]_vars PROVE ProjectsTypeOK'
<1>1. CASE UNCHANGED vars
  BY <1>1 DEF vars, projectVars, jobVars, workerVars, ProjectsTypeOK
<1> QED BY <1>1, UpdateTypes, CreationTypes, CallTypes, WorkerTypes DEF Next

(* Every variable keeps its type; a docker call is under way exactly in the  *)
(* stages split and reduce, and no job is reduced that has not been split.   *)
THEOREM ProjectsTypes == Spec => []ProjectsTypeOK
<1>1. Init => ProjectsTypeOK
  BY DEF Init, ProjectsTypeOK, Created, Row, Writer, Maybe, Login, Settings, Value,
         Nothing, LoginOf
<1>2. ProjectsTypeOK /\ [Next]_vars => ProjectsTypeOK' BY ProjectsTypesStep
<1> QED BY <1>1, <1>2, PTL DEF Spec

-----------------------------------------------------------------------------
(* Updates *)

(* f of the row r is what the i-th update was asked for, or one of the next  *)
(* ones, up to the m-th, was asked for f too or had read the row before.     *)
Stays(i, f, r, m) ==
  \/ r[f] = written[i].update
  \/ \E k \in i + 1 .. m : f \in written[k].asked \/ written[k].at < i

(* UpdateStays for every row there has been; a handler has seen one of them, *)
(* so what it writes back is no older than that.                             *)
HistoryInv ==
  /\ Len(written) > 0 => row = written[Len(written)].row
  /\ \A h \in updating : h.at > 0 => h.seen = written[h.at].row
  /\ \A m \in 1 .. Len(written) : \A i \in 1 .. m : \A f \in written[i].asked :
       Stays(i, f, written[m].row, m)

(* UpdateWrites keeps it so. *)
LEMMA HistoryWrite ==
  ASSUME ProjectsTypeOK, HistoryInv, NEW h \in updating, UpdateWrites(h)
  PROVE  HistoryInv'
<1> DEFINE N == Len(written) + 1
<1>1. /\ Len(written) \in Nat /\ Len(written') = N
      /\ \A i \in 1 .. Len(written) : written'[i] = written[i]
      /\ written'[N] = [update |-> h.update, asked |-> h.asked, at |-> h.at, row |-> RowOf(h)]
      /\ row' = RowOf(h)
  BY DEF ProjectsTypeOK, UpdateWrites
<1>2. /\ h.at \in 0 .. Len(written)
      /\ \A i \in 1 .. Len(written) : written[i].asked \subseteq Field
      /\ h.asked \subseteq Field
  <2>1. h \in [update : Update, asked : Asks, seen : Row, at : 0 .. Len(written)]
    BY DEF ProjectsTypeOK
  <2>2. \A i \in 1 .. Len(written) : written[i].asked \in Asks
    <3> DEFINE Entry == [update : Update, asked : Asks, at : Nat, row : Row]
    <3>1. written \in Seq(Entry) BY DEF ProjectsTypeOK
    <3>2. \A i \in 1 .. Len(written) : written[i] \in Entry
      <4> HIDE DEF Entry
      <4> QED BY <3>1
    <3> QED BY <3>2
  <2>3. \A A \in Asks : A \subseteq Field BY AskAssumption
  <2> QED BY <2>1, <2>2, <2>3
<1>3. row' = written'[Len(written')].row BY <1>1
<1>4. \A g \in updating' : g.at > 0 => g.seen = written'[g.at].row
  <2> SUFFICES ASSUME NEW g \in updating', g.at > 0 PROVE g.seen = written'[g.at].row OBVIOUS
  <2>1. g \in updating /\ g.at \in 1 .. Len(written) BY DEF UpdateWrites, ProjectsTypeOK
  <2> QED BY <1>1, <2>1 DEF HistoryInv
<1>5. ASSUME NEW m \in 1 .. N, NEW i \in 1 .. m, NEW f \in written'[i].asked
      PROVE  Stays(i, f, written[m].row, m)'
  <2>1. CASE m <= Len(written)
    <3>1. Stays(i, f, written[m].row, m) BY <1>1, <1>5, <2>1 DEF HistoryInv
    <3> QED BY <1>1, <2>1, <3>1 DEF Stays
  <2>2. CASE m = N /\ i = N BY <1>1, <1>2, <2>2 DEF Stays, RowOf
  <2>3. CASE m = N /\ i # N
    <3>1. i \in 1 .. Len(written) /\ f \in written[i].asked /\ f \in Field
      BY <1>1, <1>2, <2>3
    <3>2. CASE f \in h.asked \/ h.at < i BY <1>1, <2>3, <3>1, <3>2 DEF Stays
    <3>3. CASE f \notin h.asked /\ i <= h.at
      <4>1. Stays(i, f, written[h.at].row, h.at) BY <1>2, <3>1, <3>3 DEF HistoryInv
      <4>2. h.seen = written[h.at].row BY <1>2, <3>1, <3>3 DEF HistoryInv
      <4>3. written'[N].row[f] = written[h.at].row[f]
        BY <1>1, <3>1, <3>3, <4>2 DEF RowOf
      <4>4. CASE written[h.at].row[f] = written[i].update
        BY <1>1, <2>3, <3>1, <4>3, <4>4 DEF Stays
      <4>5. ASSUME NEW k \in i + 1 .. h.at, f \in written[k].asked \/ written[k].at < i
            PROVE  Stays(i, f, written[m].row, m)'
        <5>1. k \in i + 1 .. m /\ k \in 1 .. Len(written) BY <1>2, <2>3, <3>1
        <5>2. f \in written'[k].asked \/ written'[k].at < i BY <1>1, <4>5, <5>1
        <5> QED BY <5>1, <5>2 DEF Stays
      <4> QED BY <4>1, <4>4, <4>5 DEF Stays
    <3> QED BY <3>1, <3>2, <3>3, <1>2
  <2> QED BY <1>1, <2>1, <2>2, <2>3
<1> QED BY <1>1, <1>3, <1>4, <1>5 DEF HistoryInv

(* No other step touches rows or updates, but to read. *)
LEMMA HistoryStep ==
  ASSUME ProjectsTypeOK, HistoryInv, [Next]_vars
  PROVE  HistoryInv'
<1>1. CASE UNCHANGED projectVars BY <1>1 DEF projectVars, HistoryInv, Stays
<1>2. ASSUME NEW u \in Update, UpdateReads(u) PROVE HistoryInv'
  BY <1>2 DEF UpdateReads, HistoryInv, Stays
<1>3. ASSUME NEW h \in updating, UpdateFails(h) PROVE HistoryInv'
  BY <1>3 DEF UpdateFails, HistoryInv, Stays
<1>4. ASSUME NEW t \in Task, SubmitTask(t) \/ GenerateTask(t) PROVE UNCHANGED projectVars
  BY <1>4 DEF SubmitTask, GenerateTask
<1>5. ASSUME NEW j \in Job,
             \/ JobReads(j) \/ JobInserts(j) \/ CallStarts(j, "split") \/ CallStarts(j, "reduce")
             \/ LogsIn(j) \/ CallFails(j) \/ SplitRuns(j) \/ ReduceRuns(j)
      PROVE  UNCHANGED projectVars
  BY <1>5 DEF JobReads, JobInserts, CallStarts, LogsIn, CallFails, SplitRuns, ReduceRuns, CallRuns
<1>6. ASSUME NEW n \in Node, Restarts(n) \/ \E x \in Task \cup Job : Map(n, x)
      PROVE  UNCHANGED projectVars
  BY <1>6 DEF Restarts, Map
<1> QED BY <1>1, <1>2, <1>3, <1>4, <1>5, <1>6, HistoryWrite DEF Next, vars

(* No update is lost but to one asked for the same field or one that         *)
(* overlapped it.                                                            *)
THEOREM UpdatesStay == Spec => []UpdateStays
<1>1. Init => HistoryInv BY DEF Init, HistoryInv
<1>2. ProjectsTypeOK /\ HistoryInv /\ [Next]_vars => HistoryInv' BY HistoryStep
<1>3. ProjectsTypeOK /\ HistoryInv => UpdateStays
  <2> SUFFICES ASSUME ProjectsTypeOK, HistoryInv,
                      NEW i \in DOMAIN written, NEW f \in written[i].asked
               PROVE  \/ row[f] = written[i].update
                      \/ \E k \in DOMAIN written :
                           k > i /\ (f \in written[k].asked \/ written[k].at < i)
    BY DEF UpdateStays
  <2>1. Len(written) \in Nat /\ DOMAIN written = 1 .. Len(written) BY DEF ProjectsTypeOK
  <2>2. Stays(i, f, row, Len(written)) BY <2>1 DEF HistoryInv
  <2> QED BY <2>1, <2>2 DEF Stays
<1> QED BY <1>1, <1>2, <1>3, ProjectsTypes, PTL DEF Spec

-----------------------------------------------------------------------------
(* Snapshots *)

(* Subtasks exist only after the split, when the snapshot is complete, and   *)
(* have its image and what there is of its login.                            *)
SnapshotInv ==
  \A j \in Job :
    /\ stage[j] \in {"new", "reading", "pending", "split"} => payload[j] = <<>>
    /\ payload[j] # <<>> =>
         /\ snapshot[j].image # None
         /\ payload[j].image = snapshot[j].image
         /\ snapshot[j].server # None => payload[j].server = snapshot[j].server
         /\ snapshot[j].user # None => /\ payload[j].user = snapshot[j].user
                                      /\ payload[j].password = snapshot[j].password

LEMMA SnapshotStep ==
  ASSUME ProjectsTypeOK, SnapshotInv, [Next]_vars
  PROVE  SnapshotInv'
<1> USE DEF SnapshotInv
<1>1. CASE UNCHANGED <<stage, snapshot, payload>> BY <1>1
<1>2. ASSUME NEW t \in Task, SubmitTask(t) \/ GenerateTask(t) PROVE SnapshotInv'
  <2>1. \A j \in Job : payload'[j] = payload[j]
    BY <1>2, NameAssumption DEF SubmitTask, GenerateTask, ProjectsTypeOK
  <2> QED BY <1>2, <2>1 DEF SubmitTask, GenerateTask, jobVars
<1>3. ASSUME NEW j \in Job, JobReads(j) \/ JobInserts(j) PROVE SnapshotInv'
  <2>1. /\ payload[j] = <<>> /\ payload' = payload
        /\ \A k \in Job : k # j => snapshot'[k] = snapshot[k] /\ stage'[k] = stage[k]
    BY <1>3 DEF JobReads, JobInserts, ProjectsTypeOK
  <2> QED BY <2>1
<1>4. ASSUME NEW j \in Job, CallStarts(j, "split") \/ CallStarts(j, "reduce") \/ CallFails(j)
      PROVE  SnapshotInv'
  <2>1. /\ stage'[j] = "split" => stage[j] = "pending"
        /\ stage'[j] \notin {"new", "reading", "pending"}
        /\ \A k \in Job : k # j => stage'[k] = stage[k]
        /\ UNCHANGED <<snapshot, payload>>
    BY <1>4 DEF CallStarts, CallFails, ProjectsTypeOK
  <2> QED BY <2>1
<1>5. ASSUME NEW j \in Job, LogsIn(j) PROVE UNCHANGED <<stage, snapshot, payload>>
  BY <1>5 DEF LogsIn
<1>6. ASSUME NEW j \in Job, SplitRuns(j) PROVE SnapshotInv'
  <2>1. PICK own \in Payloads : payload' = [payload EXCEPT ![j] = Subtask(j, own)]
    BY <1>6 DEF SplitRuns
  <2>2. payload'[j] = Subtask(j, own) /\ stage'[j] = "children" /\ snapshot' = snapshot
    BY <1>6, <2>1 DEF SplitRuns, CallRuns, ProjectsTypeOK
  <2>3. \A k \in Job : k # j => payload'[k] = payload[k] /\ stage'[k] = stage[k]
    BY <1>6, <2>1 DEF SplitRuns, ProjectsTypeOK
  <2>4. snapshot[j].image # None BY <1>6 DEF SplitRuns, CallRuns, ProjectsTypeOK
  <2>5. own \in Settings({Own, None}) BY AskAssumption
  <2>6. /\ Subtask(j, own).image = snapshot[j].image
        /\ snapshot[j].server # None => Subtask(j, own).server = snapshot[j].server
        /\ snapshot[j].user # None => /\ Subtask(j, own).user = snapshot[j].user
                                     /\ Subtask(j, own).password = snapshot[j].password
    BY <2>5 DEF Subtask, Merged, Settings
  <2> QED BY <2>2, <2>3, <2>4, <2>6
<1>7. ASSUME NEW j \in Job, ReduceRuns(j) PROVE SnapshotInv'
  BY <1>7 DEF ReduceRuns, CallRuns, ProjectsTypeOK
<1>8. ASSUME NEW n \in Node, Restarts(n) \/ \E x \in Task \cup Job : Map(n, x)
      PROVE  SnapshotInv'
  <2>1. /\ UNCHANGED <<snapshot, payload>>
        /\ \A j \in Job : stage'[j] = stage[j] \/ stage'[j] = "mapped"
    BY <1>8 DEF Restarts, Map, jobVars, ProjectsTypeOK
  <2> QED BY <2>1
<1>9. ASSUME \/ \E u \in Update : UpdateReads(u)
             \/ \E h \in updating : UpdateFails(h) \/ UpdateWrites(h)
      PROVE  UNCHANGED <<stage, snapshot, payload>>
  BY <1>9 DEF UpdateReads, UpdateFails, UpdateWrites, jobVars
<1> QED
  BY <1>1, <1>2, <1>3, <1>4, <1>5, <1>6, <1>7, <1>8, <1>9 DEF Next, vars, jobVars

(* Every map of a job runs the image of the job's snapshot, with its server  *)
(* if it has one, and with its user and password if it has a user.           *)
THEOREM MapsRunSnapshot == Spec => []MapRunsSnapshot
<1>1. Init => SnapshotInv BY DEF Init, SnapshotInv
<1>2. ProjectsTypeOK /\ SnapshotInv /\ [Next]_vars => SnapshotInv' BY SnapshotStep
<1>3. SnapshotInv => MapRunsSnapshot BY DEF SnapshotInv, MapRunsSnapshot, MapImage
<1> QED BY <1>1, <1>2, <1>3, ProjectsTypes, PTL DEF Spec

-----------------------------------------------------------------------------
(* Logins *)

LEMMA LoginStep ==
  ASSUME ProjectsTypeOK, PullsWithOwnLogin, [Next]_vars
  PROVE  PullsWithOwnLogin'
<1> USE DEF PullsWithOwnLogin
<1>1. CASE UNCHANGED <<snapshot, call, loggedIn, overtaken>> BY <1>1
<1>2. ASSUME NEW j \in Job, JobReads(j) \/ JobInserts(j) PROVE PullsWithOwnLogin'
  <2>1. /\ call[j] = "none" /\ UNCHANGED <<call, loggedIn, overtaken>>
        /\ \A k \in Job : k # j => snapshot'[k] = snapshot[k]
    BY <1>2 DEF JobReads, JobInserts, ProjectsTypeOK
  <2> QED BY <2>1
<1>3. ASSUME NEW j \in Job, CallStarts(j, "split") \/ CallStarts(j, "reduce")
      PROVE  PullsWithOwnLogin'
  BY <1>3 DEF CallStarts, ProjectsTypeOK
<1>4. ASSUME NEW j \in Job, LogsIn(j) PROVE PullsWithOwnLogin'
  <2>1. /\ loggedIn' = LoginOf(snapshot[j]) /\ snapshot' = snapshot
        /\ \A k \in Job : call[k] = "pull" => overtaken'[k]
        /\ \A k \in Job : k # j => call'[k] = call[k]
    BY <1>4 DEF LogsIn, ProjectsTypeOK
  <2> QED BY <2>1
<1>5. ASSUME NEW j \in Job, CallFails(j) \/ SplitRuns(j) \/ ReduceRuns(j)
      PROVE  PullsWithOwnLogin'
  BY <1>5 DEF CallFails, SplitRuns, ReduceRuns, CallRuns, ProjectsTypeOK
<1>6. ASSUME NEW t \in Task, SubmitTask(t) \/ GenerateTask(t)
      PROVE  UNCHANGED <<snapshot, call, loggedIn, overtaken>>
  BY <1>6 DEF SubmitTask, GenerateTask, jobVars
<1>7. ASSUME NEW n \in Node, Restarts(n) \/ \E x \in Task \cup Job : Map(n, x)
      PROVE  UNCHANGED <<snapshot, call, loggedIn, overtaken>>
  BY <1>7 DEF Restarts, Map, jobVars
<1>8. ASSUME \/ \E u \in Update : UpdateReads(u)
             \/ \E h \in updating : UpdateFails(h) \/ UpdateWrites(h)
      PROVE  UNCHANGED <<snapshot, call, loggedIn, overtaken>>
  BY <1>8 DEF UpdateReads, UpdateFails, UpdateWrites, jobVars
<1> QED BY <1>1, <1>2, <1>3, <1>4, <1>5, <1>6, <1>7, <1>8 DEF Next, vars, jobVars

(* No call pulls with the login of another one, unless that one has logged   *)
(* in after it.                                                              *)
THEOREM CallsPullWithOwnLogin == Spec => []PullsWithOwnLogin
<1>1. Init => PullsWithOwnLogin BY DEF Init, PullsWithOwnLogin
<1>2. ProjectsTypeOK /\ PullsWithOwnLogin /\ [Next]_vars => PullsWithOwnLogin' BY LoginStep
<1> QED BY <1>1, <1>2, ProjectsTypes, PTL DEF Spec

-----------------------------------------------------------------------------
(* Caches *)

(* The row is as the last update has left it, a cache holds an image that    *)
(* the row has had since the worker's process began, and the payload of a    *)
(* plain task holds no project's image.                                      *)
CacheInv ==
  /\ row = RowAfter(Len(written))
  /\ \A n \in Node : cache[n] = None \/ cache[n] \in ImagesSince(start[n])
  /\ \A t \in Task : payload[t] # <<>> => payload[t].image \in {Own, None}

(* A worker fetches an image of the project's present or past. *)
LEMMA FetchedSince ==
  ASSUME ProjectsTypeOK, CacheInv, NEW n \in Node
  PROVE  Fetched(n) \in ImagesSince(start[n])
<1>1. Len(written) \in Nat /\ start[n] \in 0 .. Len(written) BY DEF ProjectsTypeOK
<1>2. row.image \in ImagesSince(start[n]) BY <1>1 DEF CacheInv, ImagesSince
<1> QED BY <1>2 DEF Fetched, CacheInv

(* An update makes another image, and takes none away. *)
LEMMA CacheWrite ==
  ASSUME ProjectsTypeOK, CacheInv, NEW h \in updating, UpdateWrites(h)
  PROVE  CacheInv'
<1> DEFINE N == Len(written) + 1
<1>1. /\ Len(written) \in Nat /\ Len(written') = N
      /\ \A i \in 1 .. Len(written) : written'[i] = written[i]
      /\ written'[N].row = row'
      /\ UNCHANGED <<cache, start, payload>>
  BY DEF ProjectsTypeOK, UpdateWrites, workerVars
<1>2. \A i \in 0 .. Len(written) : RowAfter(i)' = RowAfter(i) BY <1>1 DEF RowAfter
<1>3. row' = RowAfter(Len(written))' BY <1>1 DEF RowAfter
<1>4. ASSUME NEW n \in Node PROVE ImagesSince(start[n]) \subseteq ImagesSince(start[n])'
  <2>1. start[n] \in 0 .. Len(written) /\ start'[n] = start[n] BY <1>1 DEF ProjectsTypeOK
  <2> SUFFICES ASSUME NEW k \in start[n] .. Len(written)
               PROVE  RowAfter(k).image \in ImagesSince(start[n])'
    BY DEF ImagesSince
  <2>2. k \in start'[n] .. Len(written') /\ RowAfter(k)' = RowAfter(k) BY <1>1, <1>2, <2>1
  <2> QED BY <2>2 DEF ImagesSince
<1> QED BY <1>1, <1>3, <1>4 DEF CacheInv

LEMMA CacheStep ==
  ASSUME ProjectsTypeOK, CacheInv, [Next]_vars
  PROVE  CacheInv'
<1> USE DEF CacheInv, RowAfter, ImagesSince
<1>1. CASE UNCHANGED <<row, written, cache, start>> /\ \A t \in Task : payload'[t] = payload[t]
  BY <1>1
<1>2. ASSUME NEW u \in Update, UpdateReads(u) PROVE CacheInv'
  BY <1>2 DEF UpdateReads, workerVars
<1>3. ASSUME NEW h \in updating, UpdateFails(h) PROVE CacheInv'
  BY <1>3 DEF UpdateFails, workerVars
<1>4. ASSUME NEW t \in Task, SubmitTask(t) \/ GenerateTask(t) PROVE CacheInv'
  <2>1. PICK p \in Settings(Value) :
          p.image \in {Own, None} /\ payload' = [payload EXCEPT ![t] = p]
    <3>1. ASSUME NEW own \in Payloads
          PROVE  Merged(own, row) \in Settings(Value) /\ Merged(own, row).image \in {Own, None}
      BY RowValues, NothingBrought, MergedSettings
    <3> QED BY <1>4, <3>1, NothingBrought DEF SubmitTask, GenerateTask, Nothing
  <2>2. payload'[t].image \in {Own, None}
        /\ \A x \in Task : x # t => payload'[x] = payload[x]
    BY <2>1 DEF ProjectsTypeOK
  <2>3. UNCHANGED <<row, written, cache, start>>
    BY <1>4 DEF SubmitTask, GenerateTask, projectVars, workerVars
  <2> QED BY <2>2, <2>3
<1>5. ASSUME NEW j \in Job,
             \/ JobReads(j) \/ JobInserts(j) \/ CallStarts(j, "split") \/ CallStarts(j, "reduce")
             \/ LogsIn(j) \/ CallFails(j) \/ SplitRuns(j) \/ ReduceRuns(j)
      PROVE  CacheInv'
  <2>1. UNCHANGED <<row, written, cache, start>>
    BY <1>5 DEF JobReads, JobInserts, CallStarts, LogsIn, CallFails, SplitRuns, ReduceRuns,
                CallRuns, projectVars, workerVars
  <2>2. CASE UNCHANGED payload BY <2>1, <2>2
  <2>3. CASE SplitRuns(j)
    <3>1. \A t \in Task : payload'[t] = payload[t]
      BY <2>3, NameAssumption DEF SplitRuns, ProjectsTypeOK
    <3> QED BY <2>1, <3>1
  <2> QED
    BY <1>5, <2>2, <2>3 DEF JobReads, JobInserts, CallStarts, LogsIn, CallFails, ReduceRuns
<1>6. ASSUME NEW n \in Node, Restarts(n) PROVE CacheInv'
  BY <1>6 DEF Restarts, projectVars, ProjectsTypeOK
<1>7. ASSUME NEW n \in Node, NEW x \in Task \cup Job, Map(n, x) PROVE CacheInv'
  <2>1. Fetched(n) \in ImagesSince(start[n]) BY FetchedSince
  <2>2. /\ cache' = [cache EXCEPT ![n] = Fetched(n)]
        /\ UNCHANGED <<row, written, start, payload>>
    BY <1>7 DEF Map, projectVars
  <2>3. \A m \in Node : cache'[m] = None \/ cache'[m] \in ImagesSince(start[m])
    BY <2>1, <2>2 DEF ProjectsTypeOK
  <2> QED BY <2>2, <2>3
<1> QED
  BY <1>1, <1>2, <1>3, <1>4, <1>5, <1>6, <1>7, CacheWrite
  DEF Next, vars, projectVars, workerVars

(* A plain task without an image runs one of the project's since the         *)
(* worker's process began.                                                   *)
THEOREM TaskImagesSinceStart == Spec => []TaskImageSinceStart
<1>1. Init => CacheInv BY DEF Init, CacheInv, RowAfter
<1>2. ProjectsTypeOK /\ CacheInv /\ [Next]_vars => CacheInv' BY CacheStep
<1>3. ProjectsTypeOK /\ CacheInv => TaskImageSinceStart
  BY FetchedSince DEF CacheInv, TaskImageSinceStart, MapImage
<1> QED BY <1>1, <1>2, <1>3, ProjectsTypes, PTL DEF Spec
=============================================================================
