------------------------------ MODULE Registry ------------------------------
(* common::registry::Registry (libcommon/registry/registry.{h,cpp}): one     *)
(* program creates, opens, deletes and moves keys while another changes the  *)
(* same part of the registry. MoveKey() is several calls of the system, each *)
(* of which may fail and between any two of which the program may end; what  *)
(* is in the registry stays.                                                 *)
(*                                                                           *)
(* The part of the registry one view shows is a few keys. Below a key there  *)
(* are names, of values and of subkeys, each with its data (what the subkey  *)
(* holds), or NoData. Nothing is below a key that does not exist.            *)
EXTENDS Naturals

CONSTANTS
  Keys,     \* the keys in question, none below another
  Values,   \* names of values
  Subkeys,  \* names of subkeys
  Data      \* what is stored under a name

ASSUME RegistryAssumption == 0 \notin Data /\ Values \cap Subkeys = {}

VARIABLES
  exists,    \* the keys there are
  data,      \* what is stored below each key
  view,      \* RegistryView of the last MoveKey()
  from, to,  \* its source and destination
  step,      \* what MoveKey() is about to do, "none" when it is not running
  handles,   \* its handles: of the "source" and of the "destination"
  copied,    \* the names RegCopyTreeW has copied
  gone,      \* of "source" and "destination", the keys deleted since opened
  \* History, read by properties only:
  expected,  \* what there was to move, also by earlier tries of the same move
  dirty      \* names that the other program has written or removed since

registry == <<exists, data>>
move == <<view, from, to, step, handles, copied, gone>>
vars == <<registry, move, expected, dirty>>

NoData == 0
Names == Values \cup Subkeys
Empty == [n \in Names |-> NoData]
Stored(k) == {n \in Names : data[k][n] # NoData}

Views == {"Default", "Forced"}
Steps == {"none", "open", "create", "copyOpen", "copy", "deleteTree", "deleteKey"}

TypeOK ==
  /\ exists \subseteq Keys
  /\ data \in [Keys -> [Names -> Data \cup {NoData}]]
  /\ \A k \in Keys \ exists : data[k] = Empty
  /\ view \in Views /\ from \in Keys /\ to \in Keys
  /\ step \in Steps
  /\ step # "none" => from # to
  /\ handles \subseteq {"source", "destination"}
  /\ gone \subseteq {"source", "destination"}
  /\ copied \subseteq Names
  /\ expected \in [Names -> Data \cup {NoData}]
  /\ dirty \subseteq Names

Init ==
  /\ exists \in SUBSET Keys
  /\ data \in [Keys -> [Names -> Data \cup {NoData}]]
  /\ \A k \in Keys \ exists : data[k] = Empty
  /\ view = "Default" /\ from \in Keys /\ to = from /\ step = "none"
  /\ handles = {} /\ copied = {} /\ gone = {} /\ expected = Empty /\ dirty = {}

-----------------------------------------------------------------------------
(* An operator marked "Fault" is a plausible bug in the definition that      *)
(* follows it; no action of the specification uses one.                      *)

(* CreateKey(): the key may exist already. The handle goes to a RegistryKey. *)
CreateKey(k) ==
  /\ step = "none"
  /\ exists' = exists \cup {k}
  /\ UNCHANGED <<data, move, expected, dirty>>

(* RegDeleteKeyW: deletes a key with its values, not one with subkeys.       *)
Deletable(k) == k \in exists /\ Stored(k) \subseteq Values
Delete(k) ==
  /\ exists' = exists \ {k}
  /\ data' = [data EXCEPT ![k] = Empty]
(* What a deletion takes with it is no longer what the move last left.       *)
DeleteKey(k) ==
  /\ step = "none" /\ Deletable(k)
  /\ Delete(k)
  /\ dirty' = dirty \cup Stored(k)
  /\ UNCHANGED <<move, expected>>

(* The other program, at any time. *)
OtherCreates(k) ==
  /\ k \notin exists
  /\ exists' = exists \cup {k}
  /\ UNCHANGED <<data, move, expected, dirty>>
OtherWrites(k, n, d) ==
  /\ k \in exists /\ data[k][n] # d
  /\ data' = [data EXCEPT ![k][n] = d]
  /\ dirty' = dirty \cup {n}
  /\ UNCHANGED <<exists, move, expected>>
(* A handle of a deleted key stays open and is of no use any more.           *)
OtherDeletes(k) ==
  /\ k \in exists
  /\ Delete(k)
  /\ dirty' = dirty \cup Stored(k)
  /\ gone' = gone \cup {h \in {"source", "destination"} :
                          k = IF h = "source" THEN from ELSE to}
  /\ UNCHANGED <<view, from, to, step, handles, copied, expected>>

-----------------------------------------------------------------------------
(* MoveKey(). With the default view the source is opened by each call that   *)
(* uses it. In a forced view it is opened first, before there is a           *)
(* destination. A move that has failed may be tried again.                   *)
Retry(f, t) == f = from /\ t = to
MoveKey(v, f, t) ==
  /\ step = "none" /\ f # t
  /\ view' = v /\ from' = f /\ to' = t
  /\ step' = IF v = "Default" THEN "create" ELSE "open"
  /\ copied' = {} /\ gone' = {}
  /\ expected' = IF Retry(f, t) THEN expected ELSE Empty
  /\ dirty' = IF Retry(f, t) THEN dirty ELSE {}
  /\ UNCHANGED <<registry, handles>>

OpenSource ==
  /\ step = "open" /\ from \in exists
  /\ step' = "create" /\ handles' = {"source"}
  /\ UNCHANGED <<registry, view, from, to, copied, gone, expected, dirty>>

CreateDestination ==
  /\ step = "create"
  /\ exists' = exists \cup {to}
  /\ step' = "copyOpen" /\ handles' = handles \cup {"destination"}
  /\ gone' = gone \ {"destination"}
  /\ UNCHANGED <<data, view, from, to, copied, expected, dirty>>

(* RegCopyTreeW opens the source, which the handle of a forced view has done.*)
BeginCopy ==
  /\ step = "copyOpen"
  /\ \/ view = "Default" /\ from \in exists /\ gone' = gone \ {"source"}
     \/ view = "Forced" /\ gone' = gone
  /\ step' = "copy"
  /\ expected' = [n \in Names |-> IF n \in Stored(from) THEN data[from][n] ELSE expected[n]]
  /\ dirty' = dirty \ Stored(from)
  /\ UNCHANGED <<registry, view, from, to, handles, copied>>

(* RegCopyTreeW: name after name; data under the same name is overwritten.   *)
CopyName(n) ==
  /\ step = "copy" /\ gone = {} /\ n \in Stored(from) \ copied
  /\ data' = [data EXCEPT ![to][n] = data[from][n]]
  /\ copied' = copied \cup {n}
  /\ expected' = [expected EXCEPT ![n] = data[from][n]]
  /\ dirty' = dirty \ {n}
  /\ UNCHANGED <<exists, view, from, to, step, handles, gone>>

(* Fault: the destination is closed at the end, and not by a failure.        *)
ClosedLate == handles
(* DefaultMoveKey() closes the destination before it looks at the status.    *)
ClosedAfterCopy == IF view = "Default" THEN handles \ {"destination"} ELSE handles
(* Fault: the status of RegCopyTreeW is not looked at.                       *)
CopyNotChecked == TRUE
(* It succeeds when all is copied that nobody else touched meanwhile.        *)
CopyComplete == gone = {} /\ from \in exists /\ Stored(from) \ dirty \subseteq copied
CopyDone ==
  /\ step = "copy" /\ CopyComplete
  /\ step' = "deleteTree" /\ handles' = ClosedAfterCopy
  /\ UNCHANGED <<registry, view, from, to, copied, gone, expected, dirty>>

(* RegDeleteTreeW: name after name, until there are none. *)
SourceUsable == view = "Default" \/ "source" \notin gone
DeleteName(n) ==
  /\ step = "deleteTree" /\ SourceUsable /\ n \in Stored(from)
  /\ data' = [data EXCEPT ![from][n] = NoData]
  /\ UNCHANGED <<exists, move, expected, dirty>>
TreeDeleted == from \in exists /\ Stored(from) = {}
DeleteTreeDone ==
  /\ step = "deleteTree" /\ SourceUsable /\ TreeDeleted
  /\ step' = "deleteKey"
  /\ UNCHANGED <<registry, view, from, to, handles, copied, gone, expected, dirty>>

(* releaseHkey of the forced view; there is nothing to release by default.   *)
Released == IF view = "Default" THEN handles ELSE {}

(* MoveKey() returns. *)
DeleteSource ==
  /\ step = "deleteKey" /\ Deletable(from)
  /\ Delete(from)
  /\ step' = "none" /\ handles' = Released
  /\ UNCHANGED <<view, from, to, copied, gone, expected, dirty>>

(* Any of the calls fails, a call that copies or deletes a tree after part   *)
(* of its work, and MoveKey() throws.                                        *)
Fails ==
  /\ step \notin {"none", "copyOpen", "copy"}
  /\ step' = "none" /\ handles' = Released
  /\ UNCHANGED <<registry, view, from, to, copied, gone, expected, dirty>>
CopyFails ==
  /\ step \in {"copyOpen", "copy"}
  /\ step' = "none"
  /\ handles' = IF view = "Default" THEN ClosedAfterCopy ELSE {}
  /\ UNCHANGED <<registry, view, from, to, copied, gone, expected, dirty>>

(* The program ends. *)
Ends ==
  /\ step # "none"
  /\ step' = "none" /\ handles' = {}
  /\ UNCHANGED <<registry, view, from, to, copied, gone, expected, dirty>>

-----------------------------------------------------------------------------
Next ==
  \/ \E k \in Keys : CreateKey(k) \/ DeleteKey(k) \/ OtherCreates(k) \/ OtherDeletes(k)
  \/ \E k \in Keys, n \in Names, d \in Data \cup {NoData} : OtherWrites(k, n, d)
  \/ \E v \in Views, f, t \in Keys : MoveKey(v, f, t)
  \/ OpenSource \/ CreateDestination \/ BeginCopy
  \/ \E n \in Names : CopyName(n) \/ DeleteName(n)
  \/ CopyDone \/ DeleteTreeDone \/ DeleteSource
  \/ Fails \/ CopyFails \/ Ends

Spec == Init /\ [][Next]_vars

-----------------------------------------------------------------------------
(* Wherever MoveKey() fails or is cut off, and however often it is tried     *)
(* again, what it set out to move is at the source or at the destination,    *)
(* unless another program wrote it after it was copied: it never deletes     *)
(* what it has not copied, a new try leaves what an earlier one has moved,   *)
(* and only a racing writer loses data. (registry.cpp:32-62, 164-201)        *)
NothingLost ==
  \A n \in Names \ dirty :
    expected[n] # NoData => expected[n] \in {data[from][n], data[to][n]}

(* A MoveKey() that returns has moved everything: the source is gone, and    *)
(* what it held, at the start or when an earlier try began, is below the     *)
(* destination unless another program touched it. (registry.cpp:32-62)       *)
MovedOnReturn ==
  [][step = "deleteKey" /\ step' = "none" /\ from \notin exists' =>
       \A n \in Names \ dirty :
         expected[n] # NoData => data'[to][n] = expected[n]]_vars

(* However MoveKey() ends, it leaves no handle of a key open.                *)
(* (registry.cpp:34-45, 153-164)                                             *)
NoHandleLeft == step = "none" => handles = {}
=============================================================================
