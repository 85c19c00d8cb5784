---------------------------- MODULE DockerChild ----------------------------
(***************************************************************************)
(* runDockerChild of the coordinator (and run_docker of the worker, the    *)
(* same algorithm): fork a docker client, feed its stdin, read its stdout  *)
(* to the end, then its stderr, and only then wait for it with a time      *)
(* limit.  The threads of the server call it concurrently; a fork copies   *)
(* every descriptor the server has open, those of other calls included,    *)
(* since none is opened with O_CLOEXEC.                                    *)
(*                                                                         *)
(* Data is counted in units, a pipe holds Capacity of them.  XMutantY is X *)
(* with a plausible bug Y, used by no action.                              *)
(***************************************************************************)
EXTENDS Integers

CONSTANTS
  Caller,    \* threads that call runDockerChild; the child of c is named c too
  Server,    \* the process of these threads
  Capacity,  \* bound: units a pipe holds
  Input,     \* units each caller has for its child's stdin, 0: no pipe for it
  Size,      \* units each child writes to "out" and to "err"
  Eager,     \* callers whose child writes before it has read all its input
  Hanging    \* callers whose child may stop making progress

ASSUME CallerAssumption == Server \notin Caller /\ Eager \subseteq Caller /\ Hanging \subseteq Caller
ASSUME SizeAssumption == /\ Capacity \in Nat \ {0}
                         /\ Input \in [Caller -> Nat]
                         /\ Size \in [Caller -> [{"out", "err"} -> Nat]]

VARIABLES
  pc,       \* where a caller is
  child,    \* its child process
  writers,  \* the processes that hold the write end of each of its pipes
  readers,  \* the processes that hold the read end of each of its pipes
  fed,      \* units written to the child's stdin
  eaten,    \* units the child has read of them
  eof,      \* the child has seen the end of its input
  wrote,    \* units the child has written
  got,      \* units the caller has read of them
  ok        \* DockerRunResult::ok

callerVars == <<pc, got, ok, fed>>
childVars == <<child, eaten, eof, wrote>>
vars == <<callerVars, childVars, writers, readers>>

Process == {Server} \cup Caller
Output == {"out", "err"}
Pipe == {"in"} \cup Output
Nothing == [p \in Output |-> 0]

TypeOK ==
  /\ pc \in [Caller -> {"idle", "refused", "leaked", "piped", "write", "readOut", "readErr", "wait", "done"}]
  /\ child \in [Caller -> {"none", "running", "exited", "failed"}]
  /\ writers \in [Caller -> [Pipe -> SUBSET Process]]
  /\ readers \in [Caller -> [Pipe -> SUBSET Process]]
  /\ fed \in [Caller -> Nat] /\ eaten \in [Caller -> Nat]
  /\ \A c \in Caller : eaten[c] <= fed[c] /\ fed[c] <= Input[c]
  /\ eof \in [Caller -> BOOLEAN]
  /\ wrote \in [Caller -> [Output -> Nat]] /\ got \in [Caller -> [Output -> Nat]]
  /\ \A c \in Caller, p \in Output : got[c][p] <= wrote[c][p] /\ wrote[c][p] <= Size[c][p]
  /\ ok \in [Caller -> BOOLEAN]

Init ==
  /\ pc = [c \in Caller |-> "idle"]
  /\ child = [c \in Caller |-> "none"]
  /\ writers = [c \in Caller |-> [p \in Pipe |-> {}]]
  /\ readers = [c \in Caller |-> [p \in Pipe |-> {}]]
  /\ fed = [c \in Caller |-> 0]
  /\ eaten = [c \in Caller |-> 0]
  /\ eof = [c \in Caller |-> FALSE]
  /\ wrote = [c \in Caller |-> Nothing]
  /\ got = [c \in Caller |-> Nothing]
  /\ ok = [c \in Caller |-> FALSE]

-----------------------------------------------------------------------------
(* The caller *)

Goto(c, from, to) == pc[c] = from /\ pc' = [pc EXCEPT ![c] = to]

(* The server holds both ends of these of a call's pipes; of an earlier call *)
(* it knows no number any more.                                              *)
Opened(c, pipes) ==
  LET ends == [p \in Pipe |-> IF p \in pipes THEN {Server} ELSE {}]
  IN  writers' = [writers EXCEPT ![c] = ends] /\ readers' = [readers EXCEPT ![c] = ends]

(* The pipes of a new call. *)
OpenPipes(c) ==
  /\ Goto(c, "idle", "piped")
  /\ Opened(c, IF Input[c] = 0 THEN Output ELSE Pipe)
  /\ fed' = [fed EXCEPT ![c] = 0]
  /\ eaten' = [eaten EXCEPT ![c] = 0]
  /\ eof' = [eof EXCEPT ![c] = FALSE]
  /\ wrote' = [wrote EXCEPT ![c] = Nothing]
  /\ got' = [got EXCEPT ![c] = Nothing]
  /\ ok' = [ok EXCEPT ![c] = FALSE]
  /\ UNCHANGED child

(* The first or the second pipe() fails: what was opened is closed. *)
PipeFails(c) ==
  /\ Goto(c, "idle", "refused")
  /\ Opened(c, {})
  /\ ok' = [ok EXCEPT ![c] = FALSE]
  /\ UNCHANGED <<fed, got, childVars>>

(* The pipe() of stderr fails: that of stdout stays open. *)
ErrPipeFails(c) ==
  /\ Goto(c, "idle", "leaked")
  /\ Opened(c, {"out"})
  /\ ok' = [ok EXCEPT ![c] = FALSE]
  /\ UNCHANGED <<fed, got, childVars>>

(* Process q closes its ends of these of c's pipes. *)
Close(ends, c, q, pipes) ==
  [ends EXCEPT ![c] = [p \in Pipe |-> IF p \in pipes THEN @[p] \ {q} ELSE @[p]]]

(* fork() fails: everything is closed. *)
ForkFails(c) ==
  /\ Goto(c, "piped", "refused")
  /\ writers' = Close(writers, c, Server, Pipe)
  /\ readers' = Close(readers, c, Server, Pipe)
  /\ UNCHANGED <<got, ok, fed, childVars>>

(* A child c gets a copy of each descriptor the server holds. *)
Inherit(holders, c) == IF Server \in holders THEN holders \cup {c} ELSE holders

(* fork: the child keeps what it inherits, of its own pipes only the ends    *)
(* meant for it; the server closes the read end of the child's stdin.        *)
Fork(c) ==
  /\ Goto(c, "piped", "write")
  /\ child' = [child EXCEPT ![c] = "running"]
  /\ writers' = [d \in Caller |->
                   [p \in Pipe |-> IF d = c /\ p = "in" THEN writers[d][p]
                                   ELSE Inherit(writers[d][p], c)]]
  /\ readers' = [d \in Caller |->
                   [p \in Pipe |-> IF d # c THEN Inherit(readers[d][p], c)
                                   ELSE IF p = "in" THEN Inherit(readers[d][p], c) \ {Server}
                                   ELSE readers[d][p]]]
  /\ eof' = [eof EXCEPT ![c] = Input[c] = 0]
  /\ UNCHANGED <<got, ok, fed, eaten, wrote>>

FeedMutantOneMore(c) ==
  /\ pc[c] = "write" /\ fed[c] <= Input[c] /\ readers[c]["in"] # {}
  /\ fed[c] - eaten[c] < Capacity
  /\ fed' = [fed EXCEPT ![c] = @ + 1]
  /\ UNCHANGED <<pc, got, ok, childVars, writers, readers>>

(* writeAll *)
Feed(c) ==
  /\ pc[c] = "write" /\ fed[c] < Input[c] /\ readers[c]["in"] # {}
  /\ fed[c] - eaten[c] < Capacity
  /\ fed' = [fed EXCEPT ![c] = @ + 1]
  /\ UNCHANGED <<pc, got, ok, childVars, writers, readers>>

(* All is written, or nobody reads it any more (EPIPE): the server closes    *)
(* its write ends.                                                           *)
CloseEnds(c) ==
  /\ fed[c] = Input[c] \/ readers[c]["in"] = {}
  /\ Goto(c, "write", "readOut")
  /\ writers' = Close(writers, c, Server, Pipe)
  /\ UNCHANGED <<got, ok, fed, childVars, readers>>

Reading(c) == IF pc[c] = "readOut" THEN "out" ELSE "err"

(* readAll, first of stdout, then of stderr *)
Read(c) ==
  /\ pc[c] \in {"readOut", "readErr"}
  /\ got[c][Reading(c)] < wrote[c][Reading(c)]
  /\ got' = [got EXCEPT ![c][Reading(c)] = @ + 1]
  /\ UNCHANGED <<pc, ok, fed, childVars, writers, readers>>

(* The stream has ended: no data and no writer is left. *)
Ended(c, p) == got[c][p] = wrote[c][p] /\ writers[c][p] = {}

OutEndsMutantShortRead(c) ==
  /\ got[c]["out"] = wrote[c]["out"] /\ (writers[c]["out"] = {} \/ got[c]["out"] > 0)
  /\ Goto(c, "readOut", "readErr")
  /\ UNCHANGED <<got, ok, fed, childVars, writers, readers>>

OutEnds(c) ==
  /\ Ended(c, "out")
  /\ Goto(c, "readOut", "readErr")
  /\ UNCHANGED <<got, ok, fed, childVars, writers, readers>>

ErrEndsMutantOneClosed(c) ==
  /\ Ended(c, "err")
  /\ Goto(c, "readErr", "wait")
  /\ readers' = Close(readers, c, Server, {"out"})
  /\ UNCHANGED <<got, ok, fed, childVars, writers>>

(* The server closes its read ends when both streams have ended. *)
ErrEnds(c) ==
  /\ Ended(c, "err")
  /\ Goto(c, "readErr", "wait")
  /\ readers' = Close(readers, c, Server, Output)
  /\ UNCHANGED <<got, ok, fed, childVars, writers>>

(* waitPidTimeout *)
Reap(c) ==
  /\ child[c] \in {"exited", "failed"}
  /\ Goto(c, "wait", "done")
  /\ ok' = [ok EXCEPT ![c] = child[c] = "exited"]
  /\ child' = [child EXCEPT ![c] = "none"]
  /\ UNCHANGED <<got, fed, eaten, eof, wrote, writers, readers>>

(* A process that ends closes what it holds. *)
Release(c) ==
  /\ writers' = [d \in Caller |-> [p \in Pipe |-> writers[d][p] \ {c}]]
  /\ readers' = [d \in Caller |-> [p \in Pipe |-> readers[d][p] \ {c}]]

TimeoutMutantNoKill(c) ==
  /\ child[c] = "failed"
  /\ Goto(c, "wait", "done")
  /\ child' = [child EXCEPT ![c] = "none"]
  /\ Release(c)
  /\ UNCHANGED <<got, ok, fed, eaten, eof, wrote>>

(* The time limit passes: SIGKILL, and the child is reaped. *)
Timeout(c) ==
  /\ child[c] = "running"
  /\ Goto(c, "wait", "done")
  /\ child' = [child EXCEPT ![c] = "none"]
  /\ Release(c)
  /\ UNCHANGED <<got, ok, fed, eaten, eof, wrote>>

(* dockerRunWithPull: the next stage (login, pull, run), or another call.    *)
NextCall(c) ==
  /\ Goto(c, "done", "idle") \/ Goto(c, "refused", "idle") \/ Goto(c, "leaked", "idle")
  /\ UNCHANGED <<got, ok, fed, childVars, writers, readers>>

-----------------------------------------------------------------------------
(* The child: the docker client with the program in the container *)

ChildReads(c) ==
  /\ child[c] = "running" /\ eaten[c] < fed[c]
  /\ eaten' = [eaten EXCEPT ![c] = @ + 1]
  /\ UNCHANGED <<callerVars, child, eof, wrote, writers, readers>>

ChildSeesEnd(c) ==
  /\ child[c] = "running" /\ ~eof[c]
  /\ eaten[c] = fed[c] /\ writers[c]["in"] = {}
  /\ eof' = [eof EXCEPT ![c] = TRUE]
  /\ UNCHANGED <<callerVars, child, eaten, wrote, writers, readers>>

ChildWrites(c, p) ==
  /\ child[c] = "running" /\ c \in writers[c][p]
  /\ eof[c] \/ (c \in Eager /\ eaten[c] > 0)
  /\ wrote[c][p] < Size[c][p] /\ wrote[c][p] - got[c][p] < Capacity
  /\ wrote' = [wrote EXCEPT ![c][p] = @ + 1]
  /\ UNCHANGED <<callerVars, child, eaten, eof, writers, readers>>

ChildExits(c) ==
  /\ child[c] = "running" /\ wrote[c] = Size[c]
  /\ child' = [child EXCEPT ![c] = "exited"]
  /\ Release(c)
  /\ UNCHANGED <<callerVars, eaten, eof, wrote>>

ChildFails(c) ==
  /\ child[c] = "running"
  /\ child' = [child EXCEPT ![c] = "failed"]
  /\ Release(c)
  /\ UNCHANGED <<callerVars, eaten, eof, wrote>>

(* Both outputs are closed, by a child that does not end yet. *)
ChildCloses(c) ==
  /\ child[c] = "running" /\ wrote[c] = Size[c] /\ c \in writers[c]["out"]
  /\ writers' = Close(writers, c, c, Output)
  /\ UNCHANGED <<callerVars, childVars, readers>>

-----------------------------------------------------------------------------
CallerNext(c) ==
  \/ OpenPipes(c) \/ PipeFails(c) \/ ErrPipeFails(c) \/ ForkFails(c) \/ Fork(c) \/ Feed(c)
  \/ CloseEnds(c) \/ Read(c) \/ OutEnds(c) \/ ErrEnds(c) \/ Reap(c) \/ Timeout(c) \/ NextCall(c)

ChildNext(c) ==
  \/ ChildReads(c) \/ ChildSeesEnd(c) \/ \E p \in Output : ChildWrites(c, p)
  \/ ChildExits(c) \/ ChildFails(c) \/ ChildCloses(c)

Next == \E c \in Caller : CallerNext(c) \/ ChildNext(c)

Spec == Init /\ [][Next]_vars

-----------------------------------------------------------------------------
(* A call that reports success has all its child wrote, whichever other      *)
(* calls run and whichever descriptors their children hold.                  *)
WholeOutput == \A c \in Caller : pc[c] = "done" /\ ok[c] => got[c] = Size[c]

(* A call leaves no end of its pipes open in the server and no process to be *)
(* reaped: after a time-out, a child that failed, a fork or pipe that could  *)
(* not be had.  Except for one way out, of which the code leaves two ends    *)
(* open for good: the pipe of stderr could not be had ("leaked").            *)
NothingLeft ==
  \A c \in Caller : pc[c] \in {"done", "refused"} =>
    /\ child[c] = "none"
    /\ \A p \in Pipe : Server \notin writers[c][p] \cup readers[c][p]

(* The server's threads run.  A child that does not hang reads its input,    *)
(* writes what it has to write and exits.                                    *)
Fairness ==
  \A c \in Caller :
    /\ WF_vars(CallerNext(c) /\ pc[c] # "idle")
    /\ c \notin Hanging =>
         WF_vars(ChildReads(c) \/ ChildSeesEnd(c) \/ (\E p \in Output : ChildWrites(c, p)) \/ ChildExits(c))

FairSpec == Spec /\ Fairness

(* A call whose two streams have ended returns, even if its child closed     *)
(* them and hangs, whatever the other calls do.                              *)
WaitEnds == \A c \in Caller : (pc[c] = "wait") ~> (pc[c] = "done")

(* What the code does not do: return at all.  That is what its time limit is *)
(* for, but a child that hangs earlier, or one that waits for another, keeps *)
(* it from the wait.                                                         *)
CallReturns == \A c \in Caller : (pc[c] # "idle") ~> (pc[c] = "idle")
=============================================================================
