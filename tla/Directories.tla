----------------------------- MODULE Directories -----------------------------
(* Mkdir() (libcommon/filesystem.cpp): the directories of a path are created *)
(* one after the other, beside others who create and delete them.            *)
EXTENDS Naturals, FiniteSets

CONSTANTS
  Depth,      \* directories below the volume; a path of the volume alone does nothing
  Restricted  \* those a program may be denied to create, existing or not

ASSUME DirectoriesAssumption == Depth \in Nat \ {0} /\ Restricted \subseteq 1 .. Depth

VARIABLES
  tree,       \* what is found at each level of the path
  level,      \* of target, 0 before the first one was appended
  lastError,
  result,     \* "none", "running", "returned" or "thrown"
  \* History, read by properties only:
  disturbed,  \* whether others changed the path meanwhile
  present     \* whether there was something at the end of the path meanwhile

directoryVars == <<tree, level, lastError, result, disturbed, present>>

Levels == 1 .. Depth
Errors == {"ERROR_SUCCESS", "ERROR_ALREADY_EXISTS", "ERROR_ACCESS_DENIED", "ERROR_PATH_NOT_FOUND"}
(* Something is found in directories only. *)
WellFormed(t) == \A i \in Levels \ {1} : t[i] # "absent" => t[i - 1] = "directory"
Trees == {t \in [Levels -> {"absent", "directory", "file"}] : WellFormed(t)}

DirectoryTypeOK ==
  /\ tree \in Trees /\ level \in 0 .. Depth /\ lastError \in Errors
  /\ result \in {"none", "running", "returned", "thrown"}
  /\ disturbed \in BOOLEAN /\ present \in BOOLEAN

DirectoryInit ==
  /\ tree \in Trees /\ level = 0 /\ lastError = "ERROR_SUCCESS" /\ result = "none"
  /\ disturbed = FALSE /\ present = FALSE

-----------------------------------------------------------------------------
(* An operator marked "Fault" is a plausible bug in the definition that      *)
(* follows it; no action of the specification uses one.                      *)

Mkdir ==
  /\ result = "none"
  /\ result' = "running" /\ level' = 0 /\ lastError' = "ERROR_SUCCESS"
  /\ disturbed' = FALSE /\ present' = (tree[Depth] # "absent")
  /\ UNCHANGED tree

(* CreateDirectoryW: the outcomes it may have at a level. What is there may  *)
(* be a file.                                                                *)
Outcomes(i) ==
  (IF i > 1 /\ tree[i - 1] # "directory" THEN {"ERROR_PATH_NOT_FOUND"}
   ELSE IF tree[i] # "absent" THEN {"ERROR_ALREADY_EXISTS"}
   ELSE {"ERROR_SUCCESS"})
  \cup (IF i \in Restricted THEN {"ERROR_ACCESS_DENIED"} ELSE {})
(* Fault: a failure is not forgotten when what follows succeeds.             *)
FirstFailureKept(error) == IF lastError = "ERROR_SUCCESS" THEN error ELSE lastError
(* The first few levels may fail. *)
Noted(error) == error
CreateNext(error) ==
  /\ result = "running" /\ level < Depth
  /\ level' = level + 1 /\ lastError' = Noted(error)
  /\ tree' = IF error = "ERROR_SUCCESS" THEN [tree EXCEPT ![level + 1] = "directory"] ELSE tree
  /\ present' = (present \/ tree'[Depth] # "absent")
  /\ UNCHANGED <<result, disturbed>>
Finish ==
  /\ result = "running" /\ level = Depth
  /\ result' = IF lastError \in {"ERROR_SUCCESS", "ERROR_ALREADY_EXISTS"} THEN "returned" ELSE "thrown"
  /\ UNCHANGED <<tree, level, lastError, disturbed, present>>

(* The caller looks at the outcome. *)
MkdirDone ==
  /\ result \in {"returned", "thrown"}
  /\ result' = "none" /\ level' = 0 /\ lastError' = "ERROR_SUCCESS"
  /\ disturbed' = FALSE /\ present' = FALSE
  /\ UNCHANGED tree

(* Others create files and directories, and delete what is empty.            *)
OthersChange(i, what) ==
  /\ tree[i] # what /\ tree' = [tree EXCEPT ![i] = what] /\ WellFormed(tree')
  /\ "absent" \in {tree[i], what}
  /\ disturbed' = (result # "none")
  /\ present' = (result # "none" /\ (present \/ tree'[Depth] # "absent"))
  /\ UNCHANGED <<level, lastError, result>>

DirectoryNext ==
  \/ Mkdir \/ Finish \/ MkdirDone
  \/ level < Depth /\ \E error \in Outcomes(level + 1) : CreateNext(error)
  \/ \E i \in Levels, what \in {"absent", "directory", "file"} : OthersChange(i, what)

DirectorySpec == DirectoryInit /\ [][DirectoryNext]_directoryVars

-----------------------------------------------------------------------------
(* When Mkdir() returns there was something at the end of the path while it  *)
(* ran, whatever others did, and if they did nothing it is still there, below *)
(* directories. When it throws and nobody disturbed it there is no directory *)
(* there, whichever levels failed on the way, unless it was denied the last. *)
MkdirExists ==
  /\ result = "returned" =>
       present /\ (disturbed \/ tree[Depth] # "absent")
  /\ result = "thrown" /\ ~disturbed /\ Depth \notin Restricted => tree[Depth] # "directory"
=============================================================================
