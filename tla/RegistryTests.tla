---------------------------- MODULE RegistryTests ----------------------------
(* The registry tests (test-libcommon/registry.cpp): tests that run one      *)
(* after the other, in any order, on one key of the registry. The process    *)
(* they run in may be killed, and the key outlives it.                       *)
EXTENDS Naturals, Sequences, Functions

VARIABLES
  test,     \* the test that runs, or "none"
  done,     \* how many calls of it were made
  keyThere, \* whether g_subkey exists
  values,   \* the types of its values, by name
  subkeys,  \* its subkeys
  found,    \* foundKeys, foundValues
  verdict,  \* "passed", "failed" or, in the course of a test, "open"
  \* History, read by properties only:
  spoiled   \* whether a test was "killed", or has created "subkeys"

testVars == <<test, done, keyThere, values, subkeys, found, verdict, spoiled>>

-----------------------------------------------------------------------------
Op(call, name, type) == [call |-> call, name |-> name, type |-> type]
WriteRead(name, type) ==
  << Op("open", "", ""), Op("write", name, type), Op("read", name, type) >>
WriteReadStringValue == WriteRead("StringValue", "REG_SZ")
WriteReadUint32Value == WriteRead("Uint32Value", "REG_DWORD")
WriteReadUint64Value == WriteRead("Uint64Value", "REG_QWORD")
WriteReadBinaryBlobValue == WriteRead("BinaryBlobValue", "REG_BINARY")
WriteReadStringArrayValue == WriteRead("StringArrayValue", "REG_MULTI_SZ")
(* For reading, and for writing. *)
OpenKey == << Op("open", "", ""), Op("open", "", "") >>
WriteDeleteValue ==
  << Op("open", "", ""), Op("write", "dummy", "REG_SZ"), Op("delete", "dummy", "") >>
Created == <<"one", "two", "three">>
EnumerateKeys ==
  [i \in DOMAIN Created |-> Op("create", Created[i], "")] \o
  << Op("open", "", ""), Op("keys", "", ""), Op("compare", "", "") >>
EnumerateValues ==
  << Op("open", "", "") >> \o [i \in DOMAIN Created |-> Op("write", Created[i], "REG_SZ")] \o
  << Op("values", "", ""), Op("compare", "", ""), Op("types", "", "REG_SZ") >>

Methods ==
  [OpenKey |-> OpenKey, WriteReadStringValue |-> WriteReadStringValue,
   WriteReadUint32Value |-> WriteReadUint32Value, WriteReadUint64Value |-> WriteReadUint64Value,
   WriteReadBinaryBlobValue |-> WriteReadBinaryBlobValue,
   WriteReadStringArrayValue |-> WriteReadStringArrayValue,
   WriteDeleteValue |-> WriteDeleteValue, EnumerateKeys |-> EnumerateKeys,
   EnumerateValues |-> EnumerateValues]
NextOp == Methods[test][done + 1]
Names == (UNION {{op.name : op \in Range(method)} : method \in Range(Methods)}) \ {""}
Types == {"REG_SZ", "REG_DWORD", "REG_QWORD", "REG_BINARY", "REG_MULTI_SZ"}

TestTypeOK ==
  /\ test \in DOMAIN Methods \cup {"none"}
  /\ test # "none" => done \in 0 .. Len(Methods[test])
  /\ keyThere \in BOOLEAN /\ (~keyThere => values = <<>> /\ subkeys = {})
  /\ DOMAIN values \subseteq Names /\ Range(values) \subseteq Types
  /\ subkeys \subseteq Names /\ found \subseteq Names
  /\ verdict \in {"open", "passed", "failed"} /\ spoiled \subseteq {"killed", "subkeys"}

TestInit ==
  /\ test = "none" /\ done = 0 /\ keyThere = FALSE /\ values = <<>> /\ subkeys = {}
  /\ found = {} /\ verdict = "passed" /\ spoiled = {}

-----------------------------------------------------------------------------
(* An operator marked "Fault" is a plausible bug in the definition that      *)
(* follows it; no action of the specification uses one.                      *)

(* CreateKey opens a key that is there already.                              *)
Initialize(t) ==
  /\ test = "none"
  /\ test' = t /\ done' = 0 /\ keyThere' = TRUE /\ verdict' = "open" /\ found' = {}
  /\ spoiled' = IF t = "EnumerateKeys" THEN spoiled \cup {"subkeys"} ELSE spoiled
  /\ UNCHANGED <<values, subkeys>>

Making(call) == test # "none" /\ verdict = "open" /\ done < Len(Methods[test]) /\ NextOp.call = call
(* A call, or an assertion, that throws ends the test. *)
Passed(holds) ==
  /\ done' = done + 1 /\ verdict' = IF holds THEN verdict ELSE "failed"
  /\ UNCHANGED <<test, keyThere, spoiled>>

Open == Making("open") /\ Passed(keyThere) /\ UNCHANGED <<values, subkeys, found>>
WriteValue ==
  /\ Making("write") /\ Passed(TRUE)
  /\ values' = [name \in DOMAIN values \cup {NextOp.name} |->
                IF name = NextOp.name THEN NextOp.type ELSE values[name]]
  /\ UNCHANGED <<subkeys, found>>
ReadValue ==
  /\ Making("read")
  /\ Passed(NextOp.name \in DOMAIN values /\ values[NextOp.name] = NextOp.type)
  /\ UNCHANGED <<values, subkeys, found>>
DeleteValue ==
  /\ Making("delete") /\ Passed(NextOp.name \in DOMAIN values)
  /\ values' = Restrict(values, DOMAIN values \ {NextOp.name})
  /\ UNCHANGED <<subkeys, found>>
CreateSubkey ==
  /\ Making("create") /\ Passed(TRUE)
  /\ subkeys' = subkeys \cup {NextOp.name}
  /\ UNCHANGED <<values, found>>
Enumerated ==
  /\ Making("keys") \/ Making("values")
  /\ Passed(TRUE)
  /\ found' = IF NextOp.call = "keys" THEN subkeys ELSE DOMAIN values
  /\ UNCHANGED <<values, subkeys>>
Compare == Making("compare") /\ Passed(found = Range(Created)) /\ UNCHANGED <<values, subkeys, found>>
CompareTypes ==
  /\ Making("types") /\ Passed(Range(values) \subseteq {NextOp.type})
  /\ UNCHANGED <<values, subkeys, found>>

(* Fault: a key that has values is not deleted either. *)
EmptyKeyDeleted == subkeys = {} /\ values = <<>>
(* DeleteKey throws if there are subkeys; a key goes with its values.        *)
KeyDeleted == subkeys = {}
Cleanup ==
  /\ test # "none" /\ (verdict = "failed" \/ done = Len(Methods[test]))
  /\ test' = "none" /\ done' = 0 /\ found' = {}
  /\ IF KeyDeleted
     THEN keyThere' = FALSE /\ values' = <<>> /\ verdict' = IF verdict = "failed" THEN verdict ELSE "passed"
     ELSE verdict' = "failed" /\ UNCHANGED <<keyThere, values>>
  /\ UNCHANGED <<subkeys, spoiled>>

(* The process is killed between two calls. *)
Killed ==
  /\ test # "none"
  /\ test' = "none" /\ done' = 0 /\ found' = {} /\ verdict' = "passed" /\ spoiled' = spoiled \cup {"killed"}
  /\ UNCHANGED <<keyThere, values, subkeys>>

TestNext ==
  \/ \E t \in DOMAIN Methods : Initialize(t)
  \/ Open \/ WriteValue \/ ReadValue \/ DeleteValue \/ CreateSubkey
  \/ Enumerated \/ Compare \/ CompareTypes \/ Cleanup \/ Killed

TestSpec == TestInit /\ [][TestNext]_testVars

-----------------------------------------------------------------------------
(* In whatever order the tests run, each passes and finds and leaves no key, *)
(* as long as none of them was killed and EnumerateKeys, which leaves its    *)
(* subkeys behind, was not among them. A value that is written is read and   *)
(* deleted whatever other tests have left.                                   *)
FreshTestsPass ==
  /\ spoiled = {} => verdict # "failed" /\ keyThere = (test # "none")
  /\ verdict = "failed" /\ test # "none" => test = "EnumerateValues"

(* registry.cpp of the tests: "Set of found values should equal set of       *)
(* created values". Here no test was killed.                                 *)
FoundValuesEqualCreated ==
  "killed" \notin spoiled /\ test = "EnumerateValues" /\ Making("compare") => found = Range(Created)
=============================================================================
