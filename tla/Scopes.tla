-------------------------------- MODULE Scopes --------------------------------
(* What functions of the library hold while they run, and how they let go of *)
(* it: with a ScopeDestructor (libcommon/memory.h), which calls what it was  *)
(* given in reverse order when the function is left, or by a call of their   *)
(* own. A call of the system that fails makes the function throw, or return. *)
(* They are called by a thread that may have ScopedNativeFileSystems around  *)
(* itself (filesystem.h).                                                    *)
(* std::wstring and std::vector are assumed to find the memory they ask for. *)
EXTENDS Naturals, SequencesExt

CONSTANT MaxNested  \* bound of the model: scopes of a native file system

ASSUME ScopesAssumption == MaxNested \in Nat

VARIABLES
  function,   \* the function that runs, or "none"
  pc,         \* the step it comes to next; past the last one it returns
  leaving,    \* whether it returns or throws, and what was guarded is released
  guards,     \* m_operations: what they close or free, in the order of operator+=
  held,       \* what is open or allocated
  outcome,    \* "running", "returned", "thrown", or "terminated" (the process)
  redirected, \* whether file names of the thread are redirected
  contexts,   \* m_context of each ScopedNativeFileSystem, the innermost last
  before      \* history: redirected, outside of all of them

scopeCall == <<function, pc, leaving, guards, held, outcome>>
native == <<redirected, contexts, before>>
scopeVars == <<scopeCall, native>>

-----------------------------------------------------------------------------
(* An operator marked "Fault" is a plausible bug in the definition that      *)
(* follows it; no specification uses one.                                    *)

(* A step calls the system with what it uses, may fail, and otherwise takes  *)
(* or gives back something; what it takes may be guarded.                    *)
Step(takes, guarded, gives, uses, mayFail) ==
  [takes |-> takes, guards |-> guarded, gives |-> gives, uses |-> uses, mayFail |-> mayFail]
Take(resource, uses) == Step({resource}, <<resource>>, {}, uses, TRUE)
TakeUnguarded(resources, uses) == Step(resources, <<>>, {}, uses, TRUE)
Ask(uses) == Step({}, <<>>, {}, uses, TRUE)
Give(resource) == Step({}, <<>>, {resource}, {}, FALSE)

(* Fault: the updated list is not freed. *)
DaclUpdatedUnguarded ==
  << Ask({}), Take("descriptor", {}), TakeUnguarded({"list"}, {"descriptor"}), Ask({"list"}) >>
(* The SID, the DACL, which is part of the descriptor, the updated one.      *)
AddAdminToObjectDacl ==
  << Ask({}), Take("descriptor", {}), Take("list", {"descriptor"}), Ask({"list"}) >>
(* AdjustTokenPrivilege() makes two calls more. *)
AdjustTokenPrivilege == << Ask({}), Ask({"token"}) >>
AdjustCurrentProcessTokenPrivilege ==
  << Take("process", {}), Take("token", {"process"}) >> \o AdjustTokenPrivilege
(* Nothing is guarded: only the duplicate has an owner, the UniqueHandle.    *)
DuplicateSecurityContext ==
  << TakeUnguarded({"process"}, {}), TakeUnguarded({"token"}, {"process"}),
     TakeUnguarded({"duplicate"}, {"token"}) >>

(* The path is looked at before anything is made of it. *)
Run == << Ask({}), TakeUnguarded({"thread", "process"}, {}), Give("thread"), Give("process") >>
RunInContext == Run

(* StringFromCLSID, ConvertSidToStringSidW, FormatMessageA and               *)
(* SHGetKnownFolderPath allocate what they return, and it is copied.         *)
FormatGuid == << TakeUnguarded({"string"}, {}), Give("string") >>
FormatSid == << TakeUnguarded({"string"}, {}), Give("string") >>
FormatWindowsError == << TakeUnguarded({"string"}, {}), Give("string") >>
GetKnownFolderPath == << TakeUnguarded({"string"}, {}), Give("string") >>
(* A resource is found, loaded and locked; none of it has to be given back.  *)
LoadBinaryResource == << Ask({}), Ask({}), Ask({}) >>

Bodies ==
  [AdjustCurrentProcessTokenPrivilege |-> AdjustCurrentProcessTokenPrivilege,
   AddAdminToObjectDacl |-> AddAdminToObjectDacl,
   DuplicateSecurityContext |-> DuplicateSecurityContext,
   Run |-> Run, RunInContext |-> RunInContext,
   FormatGuid |-> FormatGuid, FormatSid |-> FormatSid,
   FormatWindowsError |-> FormatWindowsError, GetKnownFolderPath |-> GetKnownFolderPath,
   LoadBinaryResource |-> LoadBinaryResource]
Body == Bodies[function]
This == Body[pc]
Resources == {"process", "token", "duplicate", "descriptor", "list", "thread", "string"}

ScopeTypeOK ==
  /\ function \in DOMAIN Bodies \cup {"none"}
  /\ function # "none" => pc \in 1 .. Len(Body) + 1
  /\ leaving \in BOOLEAN /\ outcome \in {"running", "returned", "thrown", "terminated"}
  /\ guards \in Seq(Resources) /\ held \subseteq Resources
  /\ redirected \in BOOLEAN /\ before \in BOOLEAN /\ contexts \in Seq(BOOLEAN)

ScopeInit ==
  /\ function = "none" /\ pc = 1 /\ leaving = FALSE
  /\ guards = <<>> /\ held = {} /\ outcome = "running"
  /\ redirected \in BOOLEAN /\ before = redirected /\ contexts = <<>>

-----------------------------------------------------------------------------
Outside == function = "none" /\ outcome # "terminated"
Enter(f) ==
  /\ Outside
  /\ function' = f /\ pc' = 1 /\ outcome' = "running"
  /\ UNCHANGED <<leaving, guards, held, native>>

Running == function # "none" /\ ~leaving /\ outcome = "running"
StepSucceeds ==
  /\ Running /\ pc <= Len(Body)
  /\ held' = (held \cup This.takes) \ This.gives
  /\ guards' = guards \o This.guards
  /\ pc' = pc + 1
  /\ UNCHANGED <<function, leaving, outcome, native>>
StepFails ==
  /\ Running /\ pc <= Len(Body) /\ This.mayFail
  /\ leaving' = TRUE /\ outcome' = "thrown"
  /\ UNCHANGED <<function, pc, guards, held, native>>
ReturnFromBody ==
  /\ Running /\ pc > Len(Body)
  /\ leaving' = TRUE /\ outcome' = "returned"
  /\ UNCHANGED <<function, pc, guards, held, native>>

(* ~ScopeDestructor(): one operation after the other, the last one first.    *)
Unwind ==
  /\ leaving /\ guards # <<>>
  /\ held' = held \ {Last(guards)} /\ guards' = Front(guards)
  /\ UNCHANGED <<function, pc, leaving, outcome, native>>
Left ==
  /\ leaving /\ guards = <<>>
  /\ leaving' = FALSE
  /\ UNCHANGED <<function, pc, guards, held, outcome, native>>
(* The caller lets go of what was returned (HandleDeleter). What nobody owns *)
(* stays open, and is not followed any further.                              *)
CallerDone ==
  /\ function # "none" /\ ~leaving /\ outcome # "running"
  /\ function' = "none" /\ pc' = 1 /\ held' = {} /\ outcome' = "running"
  /\ UNCHANGED <<leaving, guards, native>>

(* Wow64DisableWow64FsRedirection tells what was before; if it fails, the    *)
(* constructor throws, and there is no object.                               *)
OpenNative ==
  /\ Outside /\ Len(contexts) < MaxNested
  /\ contexts' = Append(contexts, redirected) /\ redirected' = FALSE
  /\ UNCHANGED <<scopeCall, before>>
(* Scopes are left the innermost first. *)
CloseNative ==
  /\ Outside /\ contexts # <<>>
  /\ redirected' = Last(contexts) /\ contexts' = Front(contexts)
  /\ UNCHANGED <<scopeCall, before>>
(* The destructor throws, which a destructor must not: the process ends.     *)
RevertFails ==
  /\ Outside /\ contexts # <<>>
  /\ outcome' = "terminated"
  /\ UNCHANGED <<function, pc, leaving, guards, held, native>>
Restarted ==
  /\ outcome = "terminated"
  /\ outcome' = "running" /\ contexts' = <<>> /\ redirected' = TRUE /\ before' = TRUE
  /\ UNCHANGED <<function, pc, leaving, guards, held>>

ScopeNext ==
  \/ \E f \in DOMAIN Bodies : Enter(f)
  \/ StepSucceeds \/ StepFails \/ ReturnFromBody \/ Unwind \/ Left \/ CallerDone
  \/ OpenNative \/ CloseNative \/ RevertFails \/ Restarted

ScopeSpec == ScopeInit /\ [][ScopeNext]_scopeVars

-----------------------------------------------------------------------------
(* What a function that was left has not given back: the duplicate, which    *)
(* its caller owns, and the two handles DuplicateSecurityContext() took to   *)
(* make it, which nothing closes whichever way the function is left.         *)
Owned == IF function = "DuplicateSecurityContext" /\ outcome = "returned" THEN {"duplicate"} ELSE {}
Forgotten == IF function = "DuplicateSecurityContext" THEN {"process", "token"} ELSE {}

(* Whichever call fails, a function that was left has given back all that it *)
(* took, but for what its caller owns and what is forgotten; nothing is used *)
(* before it was taken or after it was given back, and nothing is given back *)
(* twice or while something made from it is held. Names are redirected again *)
(* as they were when the last scope of a native file system is left.         *)
NothingLeftOpen ==
  /\ function # "none" /\ ~leaving /\ outcome # "running" =>
       held \ Forgotten = Owned
  /\ Running /\ pc <= Len(Body) => This.uses \cup This.gives \subseteq held
  /\ ToSet(guards) \subseteq held /\ IsInjective(guards)
  /\ function # "none" =>
       \A i \in 1 .. pc - 1 : Body[i].takes \cap held # {} => Body[i].uses \subseteq held
  /\ IF contexts = <<>> THEN redirected = before ELSE ~redirected
=============================================================================
