------------------------------- MODULE Library -------------------------------
(* A program that uses one of the smaller parts of libcommon. The parts      *)
(* share no state, so that a program that uses several of them does with     *)
(* each what it would do with that one alone.                                *)
EXTENDS Enumeration, Conversions, Composer, Scopes, Directories, RegistryTests

VARIABLE uses  \* the part it uses

libraryVars ==
  <<uses, vars, conversion, composerVars, scopeVars, directoryVars, testVars>>

Parts == {"walks", "conversions", "buffers", "scopes", "directories", "tests"}

LibraryTypeOK ==
  /\ uses \in Parts /\ TypeOK
  /\ ConversionTypeOK /\ ComposerTypeOK /\ ScopeTypeOK /\ DirectoryTypeOK /\ TestTypeOK

(* The other parts are left in one of the states they may begin in.          *)
LibraryInit ==
  /\ uses \in Parts
  /\ Init /\ (uses # "walks" => table = {})
  /\ ConversionInit /\ ComposerInit
  /\ ScopeInit /\ (uses # "scopes" => redirected)
  /\ DirectoryInit /\ (uses # "directories" => \A i \in Levels : tree[i] = "absent")
  /\ TestInit

WalkStep ==
  /\ uses = "walks" /\ Next
  /\ UNCHANGED <<uses, conversion, composerVars, scopeVars, directoryVars, testVars>>
ConversionStep ==
  /\ uses = "conversions" /\ ConversionNext
  /\ UNCHANGED <<uses, vars, composerVars, scopeVars, directoryVars, testVars>>
BufferStep ==
  /\ uses = "buffers" /\ ComposerNext
  /\ UNCHANGED <<uses, vars, conversion, scopeVars, directoryVars, testVars>>
ScopeStep ==
  /\ uses = "scopes" /\ ScopeNext
  /\ UNCHANGED <<uses, vars, conversion, composerVars, directoryVars, testVars>>
DirectoryStep ==
  /\ uses = "directories" /\ DirectoryNext
  /\ UNCHANGED <<uses, vars, conversion, composerVars, scopeVars, testVars>>
TestStep ==
  /\ uses = "tests" /\ TestNext
  /\ UNCHANGED <<uses, vars, conversion, composerVars, scopeVars, directoryVars>>

LibraryNext ==
  WalkStep \/ ConversionStep \/ BufferStep \/ ScopeStep \/ DirectoryStep \/ TestStep

LibrarySpec ==
  LibraryInit /\ [][LibraryNext]_libraryVars /\ WF_vars(GoOn /\ uses = "walks")
=============================================================================
