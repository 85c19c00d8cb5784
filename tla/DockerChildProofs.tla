------------------------- MODULE DockerChildProofs -------------------------
(***************************************************************************)
(* Theorems about DockerChild, for any number of concurrent calls, any     *)
(* pipe capacity and any amounts of data.                                  *)
(***************************************************************************)
EXTENDS DockerChild, TLAPS

USE CallerAssumption, SizeAssumption

(* Each step of a caller keeps the types. *)
LEMMA CallerTypes == ASSUME TypeOK, NEW c \in Caller, CallerNext(c) PROVE TypeOK'
<1> USE DEF TypeOK, Process, Output, Pipe, Goto
<1>1. CASE OpenPipes(c) BY <1>1 DEF OpenPipes, Opened, Nothing
<1>2. CASE PipeFails(c) BY <1>2 DEF PipeFails, Opened, childVars
<1>12. CASE ErrPipeFails(c) BY <1>12 DEF ErrPipeFails, Opened, childVars
<1>3. CASE ForkFails(c) BY <1>3 DEF ForkFails, Close, childVars
<1>4. CASE Fork(c)
  <2>1. writers' \in [Caller -> [Pipe -> SUBSET Process]] BY <1>4 DEF Fork, Inherit
  <2>2. readers' \in [Caller -> [Pipe -> SUBSET Process]] BY <1>4 DEF Fork, Inherit
  <2> QED BY <1>4, <2>1, <2>2 DEF Fork
<1>5. CASE Feed(c) BY <1>5 DEF Feed, childVars
<1>6. CASE CloseEnds(c) BY <1>6 DEF CloseEnds, Close, childVars
<1>7. CASE Read(c) BY <1>7 DEF Read, Reading, childVars
<1>8. CASE OutEnds(c) BY <1>8 DEF OutEnds, childVars
<1>13. CASE ErrEnds(c) BY <1>13 DEF ErrEnds, Close, childVars
<1>9. CASE Reap(c) BY <1>9 DEF Reap
<1>10. CASE Timeout(c) BY <1>10 DEF Timeout, Release
<1>11. CASE NextCall(c) BY <1>11 DEF NextCall, childVars
<1> QED BY <1>1, <1>2, <1>3, <1>4, <1>5, <1>6, <1>7, <1>8, <1>9, <1>10, <1>11, <1>12, <1>13
    DEF CallerNext

(* Each step of a child keeps the types. *)
LEMMA ChildTypes == ASSUME TypeOK, NEW c \in Caller, ChildNext(c) PROVE TypeOK'
<1> USE DEF TypeOK, Process, Output, Pipe, callerVars
<1>1. CASE ChildReads(c) BY <1>1 DEF ChildReads
<1>2. CASE ChildSeesEnd(c) BY <1>2 DEF ChildSeesEnd
<1>3. ASSUME NEW p \in Output, ChildWrites(c, p) PROVE TypeOK' BY <1>3 DEF ChildWrites
<1>4. CASE ChildExits(c) BY <1>4 DEF ChildExits, Release
<1>5. CASE ChildFails(c) BY <1>5 DEF ChildFails, Release
<1>6. CASE ChildCloses(c) BY <1>6 DEF ChildCloses, Close, childVars
<1> QED BY <1>1, <1>2, <1>3, <1>4, <1>5, <1>6 DEF ChildNext

(* The variables of the model keep their types; what is read was written and *)
(* what is written is no more than there is.                                 *)
THEOREM CallTypes == Spec => []TypeOK
<1>1. Init => TypeOK BY DEF Init, TypeOK, Nothing, Output, Pipe, Process
<1>2. TypeOK /\ [Next]_vars => TypeOK'
  <2>1. CASE UNCHANGED vars BY <2>1 DEF vars, callerVars, childVars, TypeOK
  <2> QED BY <2>1, CallerTypes, ChildTypes DEF Next
<1> QED BY <1>1, <1>2, PTL DEF Spec

-----------------------------------------------------------------------------
Started == {"write", "readOut", "readErr", "wait"}
Closed == {"readOut", "readErr", "wait", "done", "refused"}
ReadToEnd(p) == IF p = "out" THEN {"readErr", "wait", "done"} ELSE {"wait", "done"}

(* The inductive invariant.  A child exists from the fork to the wait.  The  *)
(* server has closed its write ends before it reads, its read end of the     *)
(* child's stdin since the fork, those of the outputs at the wait.  A stream *)
(* read to the end has no writer left, in no process, so nothing can be      *)
(* added to it.                                                              *)
CallInv ==
  \A c \in Caller :
    /\ child[c] # "none" => pc[c] \in Started
    /\ pc[c] \in Closed => \A p \in Pipe : Server \notin writers[c][p]
    /\ pc[c] \in Closed \cup {"write"} => Server \notin readers[c]["in"]
    /\ pc[c] \in {"wait", "done", "refused"} =>
         \A p \in Pipe : Server \notin readers[c][p]
    /\ \A p \in Output :
         pc[c] \in ReadToEnd(p) => writers[c][p] = {} /\ got[c][p] = wrote[c][p]
    /\ child[c] = "exited" => wrote[c] = Size[c]
    /\ pc[c] \in Started \cup {"piped"} => ~ok[c]
    /\ pc[c] = "done" /\ ok[c] => wrote[c] = Size[c]

(* Each step of a caller keeps the invariant of the calls. *)
LEMMA CallerStep == ASSUME TypeOK, CallInv, NEW c \in Caller, CallerNext(c) PROVE CallInv'
<1> USE DEF CallInv, TypeOK, Process, Output, Pipe, Goto, Started, Closed, ReadToEnd
<1>1. CASE OpenPipes(c) BY <1>1 DEF OpenPipes, Opened
<1>2. CASE PipeFails(c) BY <1>2 DEF PipeFails, Opened, childVars
<1>12. CASE ErrPipeFails(c) BY <1>12 DEF ErrPipeFails, Opened, childVars
<1>3. CASE ForkFails(c) BY <1>3 DEF ForkFails, Close, childVars
<1>4. CASE Fork(c) BY <1>4 DEF Fork, Inherit
<1>5. CASE Feed(c) BY <1>5 DEF Feed, childVars
<1>6. CASE CloseEnds(c) BY <1>6 DEF CloseEnds, Close, childVars
<1>7. CASE Read(c) BY <1>7 DEF Read, Reading, childVars
<1>8. CASE OutEnds(c) BY <1>8 DEF OutEnds, Ended, childVars
<1>13. CASE ErrEnds(c) BY <1>13 DEF ErrEnds, Ended, Close, childVars
<1>9. CASE Reap(c) BY <1>9 DEF Reap
<1>10. CASE Timeout(c) BY <1>10 DEF Timeout, Release
<1>11. CASE NextCall(c) BY <1>11 DEF NextCall, childVars
<1> QED BY <1>1, <1>2, <1>3, <1>4, <1>5, <1>6, <1>7, <1>8, <1>9, <1>10, <1>11, <1>12, <1>13
    DEF CallerNext

(* Each step of a child keeps it too. *)
LEMMA ChildStep == ASSUME TypeOK, CallInv, NEW c \in Caller, ChildNext(c) PROVE CallInv'
<1> USE DEF CallInv, TypeOK, Process, Output, Pipe, Started, Closed, ReadToEnd, callerVars
<1>1. CASE ChildReads(c) BY <1>1 DEF ChildReads
<1>2. CASE ChildSeesEnd(c) BY <1>2 DEF ChildSeesEnd
<1>3. ASSUME NEW p \in Output, ChildWrites(c, p) PROVE CallInv' BY <1>3 DEF ChildWrites
<1>4. CASE ChildExits(c) BY <1>4 DEF ChildExits, Release
<1>5. CASE ChildFails(c) BY <1>5 DEF ChildFails, Release
<1>6. CASE ChildCloses(c) BY <1>6 DEF ChildCloses, Close, childVars
<1> QED BY <1>1, <1>2, <1>3, <1>4, <1>5, <1>6 DEF ChildNext

(* What a call knows and holds at each point of runDockerChild is what CallInv *)
(* says, for any number of concurrent calls.                                 *)
THEOREM CallInvariant == Spec => []CallInv
<1>1. Init => CallInv BY DEF Init, CallInv, Started, Closed, ReadToEnd, Output
<1>2. TypeOK /\ CallInv /\ [Next]_vars => CallInv'
  <2>1. CASE UNCHANGED vars BY <2>1 DEF vars, callerVars, childVars, CallInv
  <2> QED BY <2>1, CallerStep, ChildStep DEF Next
<1> QED BY <1>1, <1>2, CallTypes, PTL DEF Spec

(* A call that reports success has all its child wrote: for any number of    *)
(* concurrent calls, although their children share descriptors.              *)
THEOREM OutputIsWhole == Spec => []WholeOutput
<1>1. TypeOK /\ CallInv => WholeOutput
  <2> SUFFICES ASSUME TypeOK, CallInv, NEW c \in Caller, pc[c] = "done", ok[c]
               PROVE  got[c] = Size[c]
    BY DEF WholeOutput
  <2>1. \A p \in Output : got[c][p] = wrote[c][p] BY DEF CallInv, ReadToEnd
  <2>2. wrote[c] = Size[c] BY DEF CallInv
  <2>3. got[c] \in [Output -> Nat] /\ wrote[c] \in [Output -> Nat] BY DEF TypeOK
  <2> QED BY <2>1, <2>2, <2>3
<1> QED BY <1>1, CallTypes, CallInvariant, PTL

(* A call leaves neither a descriptor of its pipes nor a zombie, whether it  *)
(* started a child or could not: unless the last of its pipes was refused.   *)
THEOREM CallLeavesNothing == Spec => []NothingLeft
<1>1. CallInv => NothingLeft BY DEF CallInv, NothingLeft, Started, Closed
<1> QED BY <1>1, CallInvariant, PTL
=============================================================================
