---------------------------- MODULE RunnerStart ----------------------------
(* Construction and destruction of ApplicationRunners                        *)
(* (libcommon/process/applicationrunner.cpp, the constructor, createPipes()  *)
(* and the UniqueHandle members): which process holds which end of which     *)
(* pipe, when several runners are started by threads of one process.         *)
(* A handle is a pair of a runner and a member, and CreateProcessW, called   *)
(* with bInheritHandles = TRUE, hands the child every inheritable handle of  *)
(* the process, whichever runner it belongs to.                              *)

CONSTANTS
  Runners,    \* the objects that are constructed
  Serialized  \* whether constructors exclude one another, which is up to callers

ASSUME RunnerStartAssumption == Serialized \in BOOLEAN

VARIABLES
  stage,        \* how far each constructor has come
  open,         \* the handles open in the parent process
  inheritable,  \* those of them that CreateProcessW hands on
  child,        \* state of each runner's child process
  inherited     \* the handles that each child got

vars == <<stage, open, inheritable, child, inherited>>

Ends == {"stdInRead", "stdInWrite", "stdOutRead", "stdOutWrite"}
Handles == Runners \X (Ends \cup {"process"})
UnderConstruction == {"stdIn", "stdOut", "stdInPrivate", "private"}
Stages == UnderConstruction \cup {"new", "started", "failed", "destroyed"}

TypeOK ==
  /\ stage \in [Runners -> Stages]
  /\ open \subseteq Handles /\ inheritable \subseteq open
  /\ child \in [Runners -> {"none", "running", "exited"}]
  /\ inherited \in [Runners -> SUBSET Handles]

Init ==
  /\ stage = [r \in Runners |-> "new"]
  /\ open = {} /\ inheritable = {}
  /\ child = [r \in Runners |-> "none"]
  /\ inherited = [r \in Runners |-> {}]

-----------------------------------------------------------------------------
(* An operator marked "Fault" is a plausible bug in the definition that      *)
(* follows it; no action of the specification uses one.                      *)

Advance(r, from, to) == stage[r] = from /\ stage' = [stage EXCEPT ![r] = to]

MayBegin(r) == Serialized => \A q \in Runners : stage[q] \notin UnderConstruction

CreatePipe(r, ends) ==
  /\ open' = open \cup ({r} \X ends)
  /\ inheritable' = inheritable \cup ({r} \X ends)
  /\ UNCHANGED <<child, inherited>>

CreateStdIn(r) ==
  /\ MayBegin(r)
  /\ Advance(r, "new", "stdIn")
  /\ CreatePipe(r, {"stdInRead", "stdInWrite"})

CreateStdOut(r) ==
  /\ Advance(r, "stdIn", "stdOut")
  /\ CreatePipe(r, {"stdOutRead", "stdOutWrite"})

(* Fault: nothing is done. *)
DisallowNothing(r, end) == UNCHANGED <<open, inheritable, child, inherited>>
DisallowInheritance(r, end) ==
  /\ inheritable' = inheritable \ {<<r, end>>}
  /\ UNCHANGED <<open, child, inherited>>

(* Fault: the child's end is taken for the parent's. *)
DisallowStdInRead(r) ==
  /\ Advance(r, "stdOut", "stdInPrivate")
  /\ DisallowInheritance(r, "stdInRead")
DisallowStdIn(r) ==
  /\ Advance(r, "stdOut", "stdInPrivate")
  /\ DisallowInheritance(r, "stdInWrite")

DisallowStdOut(r) ==
  /\ Advance(r, "stdInPrivate", "private")
  /\ DisallowInheritance(r, "stdOutRead")

(* Fault: the handle of the child's thread, which is no member, stays open. *)
ChildHandlesBoth(r) == {r} \X {"process", "thread"}
(* Of the two handles that CreateProcessW opens, the one of the child's      *)
(* thread is closed again at once.                                           *)
ChildHandles(r) == {<<r, "process">>}

StartChild(r) ==
  /\ Advance(r, "private", "started")
  /\ open' = open \cup ChildHandles(r)
  /\ child' = [child EXCEPT ![r] = "running"]
  /\ inherited' = [inherited EXCEPT ![r] = inheritable]
  /\ UNCHANGED inheritable

(* Fault: the handles stay open. *)
KeepHandles(r) == UNCHANGED <<open, inheritable, child, inherited>>
(* The UniqueHandle members close what they hold. *)
CloseHandles(r) ==
  /\ open' = {h \in open : h[1] # r}
  /\ inheritable' = {h \in inheritable : h[1] # r}
  /\ UNCHANGED <<child, inherited>>

(* CreatePipe, SetHandleInformation or CreateProcessW fails. *)
Fail(r) ==
  /\ \/ Advance(r, "new", "failed") /\ MayBegin(r)
     \/ \E s \in UnderConstruction : Advance(r, s, "failed")
  /\ CloseHandles(r)

Destroy(r) ==
  /\ Advance(r, "started", "destroyed")
  /\ CloseHandles(r)

ChildExits(r) ==
  /\ child[r] = "running"
  /\ child' = [child EXCEPT ![r] = "exited"]
  /\ inherited' = [inherited EXCEPT ![r] = {}]
  /\ UNCHANGED <<stage, open, inheritable>>

Next == \E r \in Runners :
  \/ CreateStdIn(r) \/ CreateStdOut(r) \/ DisallowStdIn(r) \/ DisallowStdOut(r)
  \/ StartChild(r) \/ Fail(r) \/ Destroy(r) \/ ChildExits(r)

Spec == Init /\ [][Next]_vars

-----------------------------------------------------------------------------
(* What the code promises. *)

(* A constructor that fails at any of its calls, and a destructor, leave no  *)
(* handle of the runner open; a runner that was started has kept all of its. *)
(* (applicationrunner.cpp:20-43, 191-206; memory.h:12-23)                    *)
OpenWhileStarted == \A r \in Runners :
  /\ stage[r] \in {"failed", "destroyed"} => \A h \in open : h[1] # r
  /\ stage[r] = "started" => {r} \X (Ends \cup {"process"}) \subseteq open

(* A running child holds its own ends of its own pipes.                      *)
(* (applicationrunner.cpp:25-32, 187-203)                                    *)
ChildConnected == \A r \in Runners :
  child[r] = "running" => {<<r, "stdInRead">>, <<r, "stdOutWrite">>} \subseteq inherited[r]

(* No child process ever holds the parent's end of a pipe, its own or that   *)
(* of another runner, so destroying a runner does close its child's input.   *)
(* applicationrunner.cpp:202-205: "Disallow inheritance of pipe handle". The *)
(* code keeps this only if constructors exclude one another: the ends are    *)
(* inheritable from createPipes() until SetHandleInformation.                *)
ParentEndsPrivate == \A r \in Runners : \A h \in inherited[r] :
  h[2] \notin {"stdInWrite", "stdOutRead"}

=============================================================================
