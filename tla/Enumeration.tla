---------------------------- MODULE Enumeration ----------------------------
(* Walks through lists that belong to the system and change meanwhile:       *)
(*  "files"      FileEnumerator (libcommon/fileenumerator.{h,cpp}): one call *)
(*               of the system per entry, the first made by the constructor; *)
(*  "adapters"   Adapters (libcommon/network/adapters.{h,cpp}): a copy of    *)
(*               the list, asked for again while it outgrows the buffer;     *)
(*  "process",   GetProcessIdFromName(), GetAllProcessIdsFromName()          *)
(*  "processes"  (libcommon/process/process.cpp): a copy of the identifiers, *)
(*               cut at a fixed length, each looked at afterwards;           *)
(*  "names"      RegistryKey::enumerateSubKeys() and enumerateValues()       *)
(*               (libcommon/registry/registrykey.cpp), which are one loop:   *)
(*               names are asked for by index, each reported to a callback.  *)
(* An entry is a number, in the order in which the system lists entries. It  *)
(* matches if it passes the filters, or is a process of the name looked for; *)
(* every adapter and every name does. One that goes may come back as         *)
(* something else.                                                           *)
EXTENDS Lists

CONSTANTS
  Entries,   \* files, adapters or process identifiers
  Room,      \* adapters that fit the buffer to begin with
  Capacity,  \* identifiers that fit the list of processes, 512 in the code
  Length     \* of each name, without its terminating null

ASSUME EnumerationAssumption ==
  /\ Entries \subseteq Nat \ {0} /\ IsFiniteSet(Entries)
  /\ Room \in Nat \ {0} /\ Capacity \in Nat \ {0}
  /\ Length \in [Entries -> Nat]

VARIABLES
  table,      \* the entries of the system's list
  matching,   \* those of them that match
  kind,       \* which walk this is
  step,       \* "none", "query" (adapters), "walk", "end", "found" (process), or
              \* "callback" (names)
  list,       \* what is to be handed out: m_cached, the copy, or pids
  copy,       \* m_buffer of Adapters
  last,       \* where the handle of FindNextFileW is; subKeyIndex, valueIndex
  room,       \* size of the buffer for adapters, or for one name
  returned,   \* what the caller was given
  \* History, read by properties only:
  stayed,     \* the entries that have matched ever since the walk began
  seen,       \* those that have matched at some time since
  overlooked, \* those behind a call that failed, or cut off the list
  shifted     \* how others changed the indices of names since

system == <<table, matching>>
walk == <<kind, step, list, copy, last, room, returned>>
history == <<stayed, seen, overlooked, shifted>>
vars == <<system, walk, history>>

Kinds == {"files", "adapters", "process", "processes", "names"}

TypeOK ==
  /\ table \subseteq Entries /\ matching \subseteq table
  /\ kind \in Kinds /\ step \in {"none", "query", "walk", "end", "found", "callback"}
  /\ list \in Seq(Entries) /\ copy \in Seq(Entries)
  /\ last \in Nat /\ last <= Max(Entries \cup {0})
  /\ room \in Nat \ {0} /\ Len(copy) <= room
  /\ kind \in {"process", "processes"} => Len(list) <= Capacity
  /\ returned \in Seq(Entries)
  /\ stayed \subseteq table /\ stayed \subseteq seen
  /\ seen \subseteq Entries /\ overlooked \subseteq Entries
  /\ shifted \subseteq {"added", "removed"}

Init ==
  /\ table \in SUBSET Entries /\ matching \in SUBSET table
  /\ kind = "files" /\ step = "none"
  /\ list = <<>> /\ copy = <<>> /\ last = 0 /\ room = Room /\ returned = <<>>
  /\ stayed = {} /\ seen = {} /\ overlooked = {} /\ shifted = {}

-----------------------------------------------------------------------------
(* An operator marked "Fault" is a plausible bug in the definition that      *)
(* follows it; no action of the specification uses one.                      *)

AlwaysMatching(k) == k \in {"adapters", "names"}
Shifted(how) == shifted' = IF step # "none" /\ kind = "names" THEN shifted \cup {how} ELSE shifted

(* Others add and remove entries at any time. *)
EntryAdded(e, matches) ==
  /\ e \notin table
  /\ table' = table \cup {e}
  /\ matching' = IF matches THEN matching \cup {e} ELSE matching
  /\ seen' = IF step # "none" /\ (matches \/ AlwaysMatching(kind))
             THEN seen \cup {e} ELSE seen
  /\ Shifted("added")
  /\ UNCHANGED <<walk, stayed, overlooked>>
EntryRemoved(e) ==
  /\ e \in table
  /\ table' = table \ {e} /\ matching' = matching \ {e}
  /\ stayed' = stayed \ {e}
  /\ Shifted("removed")
  /\ UNCHANGED <<walk, seen, overlooked>>

Begin(k, size) ==
  /\ step = "none"
  /\ kind' = k /\ room' = size
  /\ stayed' = IF AlwaysMatching(k) THEN table ELSE matching
  /\ seen' = stayed' /\ shifted' = {}
  /\ UNCHANGED <<system, copy, returned>>

HandOut(e) == returned' = Append(returned, e)

(* The caller is done, or a call failed and what made it throws.             *)
Drop ==
  /\ step # "none"
  /\ step' = "none" /\ list' = <<>> /\ copy' = <<>> /\ last' = 0 /\ returned' = <<>>
  /\ stayed' = {} /\ seen' = {} /\ overlooked' = {} /\ shifted' = {}
  /\ UNCHANGED <<system, kind, room>>

-----------------------------------------------------------------------------
(* FileEnumerator *)

(* Fault: every file passes. *)
FiltersNotApplied(e) == TRUE
(* match(): a filter only looks at the data that was found for the entry.    *)
PassesFilters(e) == e \in matching

(* Fault: the first entry, which the constructor found, is forgotten.        *)
NothingCached(e) == <<>>
(* next() drops a cached entry that does not pass, and goes on.              *)
Cached(e) == IF PassesFilters(e) THEN <<e>> ELSE <<>>
(* FindFirstFileW finds the first entry.                                     *)
BeginFiles ==
  /\ Begin("files", Room) /\ table # {}
  /\ step' = "walk" /\ list' = Cached(Min(table)) /\ last' = Min(table)
  /\ overlooked' = {}
(* There is none, or the call fails: the code does not tell them apart.      *)
NoHandle ==
  /\ Begin("files", Room)
  /\ step' = "end" /\ list' = <<>> /\ last' = 0
  /\ overlooked' = table

NextCached ==
  /\ kind = "files" /\ step = "walk" /\ list # <<>>
  /\ HandOut(Head(list)) /\ list' = Tail(list)
  /\ UNCHANGED <<system, kind, step, copy, last, room, history>>

(* FindNextFileW finds what follows in the directory as it is now.           *)
Following == {e \in table : e > last}
(* Fault: the end is not remembered. *)
AskedAgain == step \in {"walk", "end"}
MayFindMore == step = "walk"
NextFound ==
  /\ kind = "files" /\ MayFindMore /\ list = <<>> /\ Following # {}
  /\ last' = Min(Following)
  /\ IF PassesFilters(Min(Following)) THEN HandOut(Min(Following)) ELSE UNCHANGED returned
  /\ UNCHANGED <<system, kind, step, list, copy, room, history>>
(* FindNextFileW finds nothing more, or fails.                               *)
Exhausted ==
  /\ kind = "files" /\ step = "walk" /\ list = <<>>
  /\ step' = "end"
  /\ overlooked' = overlooked \cup Following
  /\ UNCHANGED <<system, kind, list, copy, last, room, returned, stayed, seen, shifted>>

-----------------------------------------------------------------------------
(* Adapters *)

BeginAdapters ==
  /\ Begin("adapters", Room)
  /\ step' = "query" /\ list' = <<>> /\ last' = 0 /\ overlooked' = {}

(* ERROR_BUFFER_OVERFLOW comes with the size that would do at present.       *)
RoomNeeded == Cardinality(table)
QueryOverflows ==
  /\ step = "query" /\ Cardinality(table) > room
  /\ room' = RoomNeeded
  /\ UNCHANGED <<system, kind, step, list, copy, last, returned, history>>
(* The list is copied to the buffer; ERROR_NO_DATA leaves an empty one.      *)
QuerySucceeds ==
  /\ step = "query" /\ Cardinality(table) <= room
  /\ copy' = InOrder(table) /\ list' = copy' /\ step' = "walk"
  /\ UNCHANGED <<system, kind, last, room, returned, history>>

NextAdapter ==
  /\ kind = "adapters" /\ step = "walk" /\ list # <<>>
  /\ HandOut(Head(list)) /\ list' = Tail(list)
  /\ UNCHANGED <<system, kind, step, copy, last, room, history>>
NoMoreAdapters ==
  /\ kind = "adapters" /\ step = "walk" /\ list = <<>>
  /\ step' = "end"
  /\ UNCHANGED <<system, kind, list, copy, last, room, returned, history>>
(* reset(): from the beginning of the same copy. *)
Reset ==
  /\ kind = "adapters" /\ step \in {"walk", "end"}
  /\ list' = copy /\ step' = "walk" /\ returned' = <<>>
  /\ UNCHANGED <<system, kind, copy, last, room, history>>

-----------------------------------------------------------------------------
(* GetProcessIdFromName(), GetAllProcessIdsFromName() *)

(* Fault: the list may be as long as it is. *)
PidsUncut == InOrder(table)
(* K32EnumProcesses: the identifiers that fit.                               *)
Pids ==
  LET all == InOrder(table)
  IN SubSeq(all, 1, Min({Len(all), Capacity}))
BeginProcesses(k) ==
  /\ Begin(k, Room)
  /\ step' = "walk" /\ list' = Pids /\ last' = 0
  /\ overlooked' = table \ ToSet(Pids)

(* The process is gone, or cannot be opened or asked for its name.           *)
SkipProcess ==
  /\ kind \in {"process", "processes"} /\ step = "walk" /\ list # <<>>
  /\ list' = Tail(list)
  /\ overlooked' = overlooked \cup {Head(list)}
  /\ UNCHANGED <<system, kind, step, copy, last, room, returned, stayed, seen, shifted>>
(* A process is there, under this identifier, as long as its handle is open. *)
LookAtProcess ==
  /\ kind \in {"process", "processes"} /\ step = "walk"
  /\ list # <<>> /\ Head(list) \in table
  /\ IF Head(list) \in matching
     THEN /\ HandOut(Head(list))
          /\ step' = IF kind = "process" THEN "found" ELSE step
     ELSE UNCHANGED <<returned, step>>
  /\ list' = Tail(list)
  /\ UNCHANGED <<system, kind, copy, last, room, history>>
(* All were looked at; GetProcessIdFromName() throws then.                   *)
NoMoreProcesses ==
  /\ kind \in {"process", "processes"} /\ step = "walk" /\ list = <<>>
  /\ step' = "end"
  /\ UNCHANGED <<system, kind, list, copy, last, room, returned, history>>

-----------------------------------------------------------------------------
(* RegistryKey::enumerateSubKeys(), enumerateValues() *)

(* RegQueryInfoKeyW tells how long the longest name is.                      *)
Longest == Max({Length[n] : n \in table} \cup {0})
BeginNames ==
  /\ Begin("names", Longest + 1)
  /\ step' = "walk" /\ list' = <<>> /\ last' = 0 /\ overlooked' = {}

(* RegEnumKeyExW, RegEnumValueW: the name with the index last, 0 the first.  *)
Current == InOrder(table)[last + 1]
Fits == Length[Current] + 1 <= room
AskForName == kind = "names" /\ step = "walk"
NameFound ==
  /\ AskForName /\ last < Cardinality(table) /\ Fits
  /\ step' = "callback" /\ HandOut(Current)
  /\ UNCHANGED <<system, kind, list, copy, last, room, history>>
(* Fault: the buffer is not enlarged.                                        *)
SameBuffer == room
(* ERROR_MORE_DATA: the name was added after the buffer was made.            *)
Enlarged == 2 * room
MoreData ==
  /\ AskForName /\ last < Cardinality(table) /\ ~Fits
  /\ room' = Enlarged
  /\ UNCHANGED <<system, kind, step, list, copy, last, returned, history>>
NoMoreItems ==
  /\ AskForName /\ last >= Cardinality(table)
  /\ step' = "end"
  /\ UNCHANGED <<system, kind, list, copy, last, room, returned, history>>
(* It returned true; Drop is what follows if it did not, or threw.           *)
CallbackContinues ==
  /\ step = "callback"
  /\ step' = "walk" /\ last' = last + 1
  /\ UNCHANGED <<system, kind, list, copy, room, returned, history>>

-----------------------------------------------------------------------------
Query == QueryOverflows \/ QuerySucceeds
Enumerate == NameFound \/ MoreData \/ NoMoreItems \/ CallbackContinues
(* The function that was called goes on, and so does a callback.             *)
GoOn == Query \/ Enumerate

Next ==
  \/ \E e \in Entries : EntryRemoved(e) \/ \E matches \in BOOLEAN : EntryAdded(e, matches)
  \/ BeginFiles \/ NoHandle \/ NextCached \/ NextFound \/ Exhausted
  \/ BeginAdapters \/ Query \/ NextAdapter \/ NoMoreAdapters \/ Reset
  \/ \E k \in {"process", "processes"} : BeginProcesses(k)
  \/ SkipProcess \/ LookAtProcess \/ NoMoreProcesses
  \/ BeginNames \/ Enumerate
  \/ Drop

Spec == Init /\ [][Next]_vars /\ WF_vars(GoOn)

-----------------------------------------------------------------------------
(* A walk that went to its end has handed out every entry that was there and *)
(* matched from the beginning, whatever came and went beside it, except for  *)
(* files the system failed to tell, and processes that could not be opened   *)
(* or that the fixed list had no room for, none of which the caller learns.  *)
(* Names are asked for by index: one that goes moves others out of sight.    *)
NothingMissed ==
  step = "end" /\ "removed" \notin shifted => stayed \ overlooked \subseteq ToSet(returned)

(* No entry is handed out that has not matched at some time since the walk   *)
(* began, and none twice, unless it is a name and another one came before it.*)
NothingInvented ==
  ToSet(returned) \subseteq seen /\ ("added" \in shifted \/ IsInjective(returned))

(* The end is final: what appears afterwards is not handed out.              *)
EndIsFinal == [][step = "end" /\ step' = "end" => returned' = returned]_vars

(* The adapters are copied at last, and the names come to an end, although   *)
(* both may outgrow the buffer that was made for them, again and again.      *)
InCall == step \in {"query", "callback"} \/ AskForName
CallsEnd == InCall ~> ~InCall
=============================================================================
