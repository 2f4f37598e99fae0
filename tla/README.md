# Verification of windows-libraries (libcommon)

TLA+ models of `libcommon`, the library of Windows helpers in this repository:
what each part promises, checked with TLC on small instances and, where it
matters most, proved with TLAPS for all of them. Source paths below are
relative to `src/libcommon/`.

## The system

`libcommon` is a static library. Its parts share no state; a program composes
them. What they call is Windows: threads, events, pipes, processes, the
registry, the file system.

| Part | State | Operations | What is hard | What makes it correct |
|---|---|---|---|---|
| BurstGuard (`burstguard.*`) | start of the burst, worker state, event, mutex, worker thread | constructor, `trigger()`, destructor; the worker waits for the end of a burst and runs the callback | event and state are two pieces of one message; time-outs race triggers; the callback runs under the mutex, on two kinds of thread, and may throw; destruction beside the worker | no trigger is forgotten; one callback at a time; a burst ends only after quiet; interference bounds the delay; the destructor returns and leaves nothing behind |
| ApplicationRunner (`process/applicationrunner.*`) | two pipes, process handle; per `read()` an event and a thread | start, `read`, `write`, `join`, destruction | a read is cancelled from outside while it starts, waits or completes; the reader thread writes to the caller's string; handles are inherited by other children; creation may fail at any step | no byte is lost by a timeout; a read with a limit returns; nothing touches the string afterwards; each child holds its ends of the pipes only |
| LogSink (`logging/*`) | target, mutex | `setTarget`, `error` ... `trace` | the target is replaced by one thread while another is in it | a replaced target is never called again |
| Errors (`error.*`) | the exception in flight | `Throw`, `UnwindException` | nesting in handlers, foreign exception types | a chain is reported from the outermost in |
| Registry, RegistryKey (`registry/*`) | the registry, an open key | open, create, delete, move keys; read, write, enumerate values | multi-step operations beside other writers; two-step reads; conversions of strings | a move loses nothing; a read returns a value that was there; conversions round-trip |
| Strings (`string.*`), RegistryPath (`registry/registrypath.*`) | none | split, join, trim, shorten, compare, conversions between character sets; a path of the registry | empty tokens, delimiters and nulls at any place, calls that fail in between | what was taken apart is found when it is put together, and no string ends early or late |
| Buffers (`buffer.h`, `binarycomposer.*`, `memory.h`, `math.h`) | a block of memory and its size, or what was given away | compose, acquire, move, destroy; align; operations for the end of a scope | used after it was given away; moved over one another; width of sums | every part is where it was said to be, every block has one owner |
| FileEnumerator (`fileenumerator.*`) | search handle, first entry, filters | next | cached first entry, end reached twice, others at work in the same directory, a failure that looks like the end | every entry that passes the filters once |
| Filesystem (`filesystem.*`) | redirection of the thread | make directories, redirect the native file system, known folders | others at work on the same path; a destructor that throws | the directory is there; redirection is as it was |
| Adapters, Network (`network/adapters.*`, `network.*`) | adapter list, cursor | next, reset; masks, byte order | list grows between size and fill; which byte is first | every adapter once; addresses and masks agree |
| Process (`process/process.*`) | none | find a process, run one | processes come and go, lists are cut, handles on error paths | the process found has the name |
| Security (`security.*`), resources (`resourcedata.*`) | none | change privileges and access lists, duplicate a context, load | failure between two calls | everything opened or allocated is given back on every way out |
| Guid, ValueMapper (`guid.*`, `valuemapper.h`) | none | parse, look up | lengths, absent keys | the first entry is found |
| Tests (`../test-libcommon/*`) | a key of the registry shared by the registry tests | nine tests, set-up, clean-up | the order of the tests, what one leaves to the next | each passes after any others |
| Build support (`stdafx.*`, `targetver.h`, `macroargument.h`) | none | none | nothing | not modelled |

Parts interact by calls only: everything throws through Errors; handles are
held by `UniqueHandle` (`memory.h`); `UnwindException` logs to an `ILogSink`.
The hazards, each at its line and with the properties that cover it, are in
`PROJECT.json`.

## Modules

| Module | Models | Checked by |
|---|---|---|
| `Debounce` | what a BurstGuard promises, abstractly | `burst_guard`, as the property `ImplementsDebounce` |
| `BurstGuard` | `burstguard.{h,cpp}` | `MCBurstGuard` |
| `BurstGuardProofs` | theorems about BurstGuard | TLAPS |
| `ApplicationRunner` | `read`, `write`, `join` of a started runner | `MCApplicationRunner` |
| `ApplicationRunnerProofs` | theorems about ApplicationRunner | TLAPS |
| `RunnerStart` | construction and destruction of runners | directly |
| `LogSink` | `logsink.*` and the chains of exceptions of `error.*` | directly |
| `Registry` | `registry/registry.*`: keys, and `MoveKey` call by call | directly |
| `RegistryProofs` | theorems about Registry | TLAPS |
| `RegistryKey` | the values of `registry/registrykey.*`: conversions, two-step reads | `MCRegistryKey` |
| `Enumeration` | the walks: `fileenumerator.*`, `network/adapters.*`, the searches of `process/process.cpp`, the enumerations of `registry/registrykey.*` | `MCLibrary` |
| `Lists` | positions in their order, and the parts of a sequence they tell: what lists, strings and buffers of the other modules have in common | with the modules that use it |
| `Strings`, `Network` | the functions of `string.*`, `registry/registrypath.*`, `network.*`, `guid.cpp`, `valuemapper.h` and the filters of `fileenumerator.h`, as operators | `MCLibrary`, through `Conversions` |
| `Conversions` | a program that calls them | `MCLibrary` |
| `Composer` | `binarycomposer.*`, `buffer.h`, the rounding of `math.h` and `memory.h` | `MCLibrary` |
| `Scopes` | `security.*`, `ScopeDestructor`, `ScopedNativeFileSystem`, and every function that closes or frees what it took | `MCLibrary` |
| `Directories` | `Mkdir` of `filesystem.cpp` | `MCLibrary` |
| `RegistryTests` | `../test-libcommon/registry.cpp` | `MCLibrary`, and directly |
| `RunnerStartProofs`, `LogSinkProofs`, `RegistryKeyProofs`, `EnumerationProofs` | theorems about RunnerStart, LogSink, RegistryKey, Enumeration | TLAPS |
| `Library` | a program that uses one of Enumeration, Conversions, Composer, Scopes, Directories and RegistryTests | `MCLibrary` |
| `LibraryProofs` | theorems about Composer, Scopes, Directories, Lists, Strings, Network, Conversions, RegistryTests and Library | TLAPS |

In every module an operator marked "Fault" is a plausible bug in the
definition after it. It is no part of the specification: each property is run
once more with the fault in that definition's place, and has to fail
(`PROJECT.json`, "mutants").

### BurstGuard

`object` is the life of the C++ object, `thread` the place of the worker in
`thread()`, `caller[c]` whether thread `c` is inside the callback in
`trigger()`; `burstAge`, `threadState` and `stateEvent` are
`m_timestampBurstStart`, `m_threadState` and `m_stateEvent`. A critical
section without a callback is one action (it touches the event once, and
everything else it touches is guarded by the mutex); a callback is a step of
its own between two, during which nobody else gets the mutex. Waiting for the
event is not under the mutex, so `Wake`, `BurstExtended` and `BurstTimesOut`
interleave with everything.

Timestamps are modelled by ages, since the code only compares their difference
with `m_interferenceInterval`; ages stop at the value they are compared with,
and so does `waited`, the time of the burst-end wait. `Tick` ages all of them.
A tick may happen anywhere, a time-out anywhere after its time.

`oldest` and `sinceTrigger` are history: how long the oldest trigger has been
unanswered, and how long no trigger has started or extended a burst. The
invariant `BurstIsArmed` says among others that the flag the code keeps agrees
with the requests that were made.

Not in the model: a callback that throws on the worker thread (the program is
terminated), calls that C++ forbids (a `trigger()` that overlaps the
destructor), a callback that calls `trigger()` (it waits for a mutex its own
thread holds: a contract with the caller, as is not holding a lock in
`trigger()` that the callback needs), and `burstDuration` 0xFFFFFFFF, which is
INFINITE and for which no burst ends.

The run `burst_guard` uses two callers, durations 0 and 2 and intervals 0
(disabled), 1 (shorter than the burst) and 3 (longer than a wait, so that a
burst is extended before it is due). Two callers are enough for one to trigger
while another runs the callback, and for two to find the same burst too old;
callers have no state of their own besides. All shapes of interleaving with the worker happen within one burst
and the one after it; there is no bound on the number of triggers.

Fairness: time passes (`Tick`); the worker is scheduled and, when the mutex
stays free, gets it; a destructor that has begun goes on; a callback comes to
an end. Strong fairness of `InterferenceReturns` says that a callback that is
run again and again in `trigger()` does not throw every time: without it a
trigger is answered by nothing but exceptions for ever, as TLC shows. Nothing
makes callers trigger or the owner destroy the object.

`EveryTriggerAnswered` has an exception because the code does: with
interference disabled, triggers that never pause put off the callback for ever.

The run `burst_clumping` expects a violation: see Findings.

### ApplicationRunner

`parent` is the place of the thread that uses the object, `reader` that of the
thread `read()` starts, `child` the process at the other end. Bytes are
numbers; pipes and buffers are intervals between counters, which says which
byte is where without storing any. Cancelling (`Cancel`) ends a `ReadFile`
that is waiting and nothing else; a read that completes at the same time is
the interleaving in which it completes first. Every wait with a limit may time
out when what it waits for has not happened. Timeouts and sizes
are cut to a DWORD, of four values here, so that a small, an infinite and a too
large timeout are all tried, and sizes of which nothing or a single byte is
left: such a read asks for less than it has made room for, and such a write
puts a part of its data into the pipe and reports failure. `WriteFile` may also
fail after any part of its work. `read()` may be unable to create its event or
its thread, which the code does not check.

The child echoes its input and may exit at any time; the parent holds copies
of the child's ends, so pipes never break (`applicationrunner.cpp` closes them
only with the object). A failing `ReadFile` other than a cancelled one, and a
failing `GetExitCodeThread` or `GetExitCodeProcess` with a valid handle, are
left out. So is a `maxChars` of 0.

Bounds of `runner_io`: pipes of two bytes, four bytes in all, so that a pipe
fills, a write waits in the middle and a read of up to three bytes takes one,
two or, after a refill, as many as there are. Sizes 4 and 5 are those that a
DWORD cuts. Any number of calls.

Fairness: the two threads of the parent are scheduled and waits with a limit
end. Nothing is assumed of the child: `ReadReturnsInTime` holds although the
child may never write. It is conditional on the thread and the event having
been created; without, the loop never ends (Findings).

Deadlock checking is off: `write()` really may wait for ever, for a child that
has exited or that itself waits for room in the other pipe.

### RunnerStart

`stage[r]` is how far the constructor of runner `r` has come, `open` and
`inheritable` the handle table of the parent process, `inherited[r]` what the
child of `r` got from it. Every call of the constructor may fail. `Serialized`
says whether constructors exclude one another, which nothing in the code
ensures: with it `ParentEndsPrivate` holds (`runner_start`, three runners, any
of which may live, fail or be destroyed while another is constructed), without
it does not (`runner_start_race`).

### LogSink

Threads throw, nest, unwind and discard exceptions. `Throw()` nests whatever is
being handled in what it throws, of whichever class; only a handler of
`std::exception` can call `UnwindException`, and one that takes anything else
reports nothing (`Discard`). Calling a
target and its return are separate steps, and the mutex is held between them.
`retired` is history: the targets that completed calls of `setTarget()` have
replaced. The run has two threads, two targets beside the empty one and
exceptions nested three deep: enough for a foreign exception innermost, between
two others, where the report has to end before the innermost, and outermost,
where there is no report unless another is thrown in its handler. A target that logs waits for the mutex it is called under and is
not modelled: a contract with the caller.

### Registry

The keys of one view of the registry, each with names (of values and of
subkeys) and what is stored under them. `step` is the call `MoveKey` makes
next. `RegCopyTreeW` and `RegDeleteTreeW` are taken to work name by name, in
any order and beside other programs, and to leave what they have done when
they fail; the rest are single calls. Any call may fail, and the program may
end between any two (`Ends`), after which the registry is as it is and the next
call of `MoveKey` finds it so. The two forms differ in when they open the
source (`OpenSource`; by default `RegCopyTreeW` does when it begins,
`BeginCopy`), in which key they mean when it is deleted and made again
meanwhile (`gone`), and in who closes the destination.

`expected` and `dirty` are history: what there was to move when copying began,
and the names the other program has touched behind the move. They are kept when
a move is tried again after it failed or was cut off (`Retry`): what the source
does not hold any more is then at the destination only. `NothingLost` says
precisely what a racing writer can lose, and that nobody else does.

Of the system it is assumed that copying a tree copies what is there all the
time, and that deleting one leaves the key itself, which the code deletes next.
Left out: a key moved onto itself, or below itself, which the code would delete
after the copy (a contract with the caller); access rights, which only make
calls fail.

`registry_move` has two keys, which may be moved back and forth any number of
times, one value, one subkey (it makes the last deletion fail) and two data:
enough for a name that was copied, one that was not, old data at the
destination, and a second try when one of the names has left the source.

### RegistryKey

A value is bytes and a type, and any bytes may be there for any type. Strings
are sequences of two-byte characters; `EncodeString`, `EncodeStrings`,
`DecodeString` and `DecodeStrings` are the conversions, stated by what they
yield: bytes are two for a character (`AsBytes`), strings of an array follow
one another (`FlattenSeq`), each with its null. A read is `QuerySize`, then `ReadData`; in between the other program may
store something else. `readUint32()` and `readUint64()` return anything beyond
the end of a short value. An empty blob is written as one (the code takes the
address of its first byte, which a build with checks refuses).

`ReadIsExact` holds for strings because `readString()` takes any number of
nulls off. It does not for blobs: a blob that became shorter in between is
returned with zeros at its end. Nor is the type looked at twice. The code says
nothing about either. A string that became half a character shorter shows that
half; the property leaves it out.

`registry_values` uses two bytes, hence four characters, one of them null;
strings and arrays of up to two elements (the empty ones and the ones with a
null included), and all sequences of up to four bytes for the other program.

### Enumeration

Walks through lists of the system, in one module because they promise the same
things and differ in when they look: FileEnumerator at each entry; Adapters
once, at a copy that has to fit; the searches for processes at a copy of
identifiers, cut at `Capacity`, and then at each process; RegistryKey at each
name, by its index. `enumerateSubKeys()` and `enumerateValues()` are the same
loop. `matching` are the entries that pass the filters or have the name; an
identifier that goes and comes back with another name is `EntryRemoved` and
`EntryAdded`. A cached first entry that does not pass is dropped when it is
found, as filters look only at what was found. `FindNextFileW` is taken to list
in a fixed order, and to see what is there when it is called. A name longer
than the buffer is asked for again with twice the buffer. A callback that
returns false or throws is `Drop`, as is a caller that stops.

`overlooked` and `shifted` are history. `NothingMissed` and `NothingInvented`
say what a caller may rely on, and what not:

- files behind a call that failed are missed without a sign: the constructor
  and `next()` take any failure for the end, so that a directory that cannot be
  read looks empty (`NoHandle`, `Exhausted`);
- processes that cannot be opened are passed over, and the list is cut without
  a sign, which the caller of `GetProcessIdFromName` sees as "Could not find
  named process"; the identifier it returns was that of a process of the name
  when it was looked at, and may be another's when it is used;
- a name that is removed may hide another one, and a name that is added may
  show one twice.

Three entries, with names of lengths 1, 3 and 5, a buffer for one adapter to
begin with and a list for two processes: the buffer for names grows up to three
times, that for adapters twice, and the list is cut. Fairness: the function
that was called goes on, and a callback comes back (`GoOn`); nobody has to call
`next()`. `CallsEnd` holds because the index never goes back and the buffer
outgrows the longest name.

Left out: filters added in the middle of a walk, and an `Adapters` that was
moved from, which keeps a cursor into a buffer it no longer owns. Nothing in
the library uses one.

### Strings, Network and Conversions

A string is a sequence of characters, and an operator says what a function
yields, null characters and failing calls included; a function that may throw
yields an outcome. `CString` is what becomes of a string that is passed as
`c_str()`. The conversions are parameterised by what the system makes of one
character (`NarrowOf`), and converting back is its inverse. What is assumed of
them is named in the module. `NarrowAssumption`: only the null is narrowed to a
null, and no character to bytes that others begin with; so it is in UTF-8 and in
code pages of one or two bytes. `StringsAssumption`: the names of the roots of
the registry are in lower case and are single tokens, as the literals in
`registry/registrypath.cpp` are. `ConversionsAssumption`: no flag is called
"[...]". Words are four
bytes of `ByteBits` bits, the least significant first in memory. A prefix above
32 shifts by a negative number, which is undefined, and is left out of
`MaskFromRoutingPrefix`.

`Conversions` calls each function once and keeps what went in and what came
out. The properties compare with something else the library can do or with a
definition that does not mention the algorithm: what was joined is found by
splitting (`PartsSurvive`), what was narrowed by widening (`TextSurvives`); all
flags, keys, characters, files are accounted for (`NothingUnaccounted`); and
addresses and masks are shown by `FormatIpv4` in the order it documents
(`AddressesAgree`).

The texts are all those of up to three characters of a letter, a separator, a
null and a blank, all of up to two characters of eight, and three longer paths
and pairs; lists have up to two texts, definitions up to two of two or three
bits, bytes two bits. Every branch of every function is taken.

### Composer

`heap` holds the blocks that are allocated, with their bytes; a byte is the
number of the part it was copied from. `Compose` is the constructor of
BinaryComposer: it rounds up the sizes with the width of a size_t
(`SizeValues`), and copies. `Acquire` may be called again: it hands out a
nullptr with the size of what is gone, which the model keeps. Buffers are
constructed, moved, moved over one another and destroyed.

Two buffers, three blocks, parts of no byte, of one and of more than a word of
two bytes: enough for two buffers and a composer that each own a block. Freeing
is `DestroyBuffer`, `MoveAssign` and `DestroyComposer`.

### Scopes

A function is a sequence of calls (`Step`): what a call takes, whether that is
guarded, what it gives back, what it uses, and whether its failure leaves the
function. `Bodies` is the table of them, and one set of actions runs them all:
`StepSucceeds`, `StepFails`, `ReturnFromBody`, then `Unwind` once for each
operation of the ScopeDestructor. `contexts` are the ScopedNativeFileSystems
around the caller; if redirection cannot be enabled again, the destructor
throws, and since destructors do not throw in C++ unless they say so, the
process ends (`RevertFails`).

`NothingLeftOpen` names an exception, `Forgotten`: `DuplicateSecurityContext`
closes neither the process handle nor the token it opened, on any way out, also
when it succeeds. No text in the repository says that it should.

The operations of a ScopeDestructor are lambdas that refer to variables of the
function by reference. Some of those variables are declared after the
ScopeDestructor, so that their lives have ended when it runs; that is undefined,
and builds that keep their place on the stack work as the model says.

Bound: `MaxNested`, two scopes of the native file system.

### Directories

`tree` is what is at each level of one path, `Mkdir` appends one level after
the other and remembers the outcome of the last one only (`Noted`). Others may
create and delete directories and files at any moment; a level of `Restricted`
may be denied whether or not it exists, as the root of a volume or a folder of
the system is. Three levels, of which two are restricted: one may be denied in
the middle, and the last one is ours.

A file at the end of the path is taken for the directory: `CreateDirectoryW`
says that it exists already. `MkdirExists` says therefore that something is
there when `Mkdir` returns.

### RegistryTests

The nine tests are sequences of calls (`Methods`) on the key they share. They
run in any order, any number of times, and a run may be killed. `FreshTestsPass`
is what the order cannot change; the run `registry_tests` expects the violation
under Findings. Reading and writing are those of RegistryKey; here only names
and types of values matter.

### Library

The parts above share no state, so a program that uses several of them does
with each what it would do with that one alone: `Library` lets a program choose
one (`uses`) and leaves the others in their initial states. One run, `library`,
checks them all.

## What is proved

`BurstGuardProofs`, for every set of callers and every set of durations and
intervals that are natural numbers (`BurstGuardAssumption`):

- `Invariance`: `Spec => []Inv`. None of the invariants is inductive alone.
  `BurstIsArmed` needs that the worker is past its constructor exactly when
  the object is (`LifetimeInv`), that only one thread is in the callback and
  has a request to answer (`CallbackInv`), and that the event is set while the
  worker is between waking up and looking (`WaitInv`).
- `NoLostWakeUp`, `CallbackAlone`, `WorkerConfined`: the invariants of the run.
- `QuietBeforeTimeout`: by `WaitInv`, the time since the last trigger that
  extended the burst is at least the time waited as long as the event is not
  set.
- `InterferenceBoundsDelay`: by `BurstIsArmed`, the age the code compares is
  that of the oldest unanswered request.
- `Refinement`: `Spec => ImplementsDebounce`, step by step.

`ApplicationRunnerProofs`, for all capacities, sizes and timeouts:

- `ReaderInvariance`: the phases of the parent, the reader thread and the
  event fit together, and what was taken from the pipe is what was delivered
  plus what the reader holds.
- `NoByteLost`: `Spec => []NothingLost`, and `ExactReads`: `ReadIsExact`. What
  is cut to a DWORD is one, whatever it was (`DwordInRange`).

`RegistryProofs`, for all sets of keys, names and data:

- `MoveInvariance`: while the tree is copied, the source holds what it held at
  the beginning and the destination what was copied, now or by an earlier try;
  from then on the destination holds all of it (`ProgressInv`). An open destination that was
  not deleted exists (`DestinationInv`, which typing needs), and the default
  form has a handle only while it copies (`HandleInv`).
- `MoveLosesNothing`: `Spec => []NothingLost`. `MoveIsComplete`:
  `Spec => MovedOnReturn`. `MoveClosesHandles`: `Spec => []NoHandleLeft`.

`RunnerStartProofs`, for any number of runners:

- `StartInvariance`: at each stage a constructor has the handles open and
  inheritable that it made (`OwnEndsInv`), and a parent's end is inheritable
  only at the stages before `SetHandleInformation` (`PrivateInv`).
- `HandlesOwned`, `ChildrenConnected`, and `EndsStayPrivate`: the parent's ends
  are private under `Serialized`, which the run `runner_start_race` shows to be
  necessary.

`LogSinkProofs`, for any threads, targets and depth of nesting:

- `SinkInvariance`: by the mutex the target that is called is the one that is
  set (`TargetInv`), and a thread at message n has reported the ones before it
  (`ReportInv`).
- `ReplacedIsSilent`: `Spec => []RetiredIsSilent`, and `OutermostFirst`:
  `Spec => ReportedFromOutermost`.

`RegistryKeyProofs`, for any bytes, strings of any length, arrays of any number
of strings, blobs and bytes of the other program (`RegistryKeyAssumption`: they
are sequences of bytes, and strings are of characters of two bytes):

- `KeyInv`: as long as the other program has not touched the value, it has the
  type and the encoding of what was written (`WrittenInv`), `dataSize` is its
  size, and what a read returned is what `Decoded` allows for it (`ResultInv`).
- `WhatIsWrittenIsRead`: `Spec => []RoundTrip`. That decoding undoes encoding
  is a chain of lemmas: characters from their bytes (`CharsAreBytes`), where in
  the characters of an array each string lies (`ArrayChars`, `Holds`), that the
  n-th start is that of the n-th string which is not empty (`StartsAre`,
  `NthOfImage`), and that it ends where it did (`EndIsMax`).
- `ReadsAreExact`: `Spec => ReadIsExact`. The buffer is the data with zeros
  behind it, and zeros at the end do not change a string or an array
  (`PaddedString`, `PaddedStrings`).
- `KeyTypeCorrect`: `Spec => []TypeOK`.

`EnumerationProofs`, for any finite set of entries (`IsFiniteSet(Entries)`: a
list of the system is finite), names of any length and buffers of any size:

- `WalkInv`, the inductive invariant, says where an entry that stayed may be:
  handed out, about to be, ahead of the handle, or given up (`AccountedInv`);
  that what is handed out is not in the list any more (`OnceInv`); and for the
  walks by index, that the index is behind the names that were reported unless
  names were added, and that what it is behind of was reported unless names
  were removed (`NamesInv`), by counting how many names come before one
  (`Rank`).
- `WalksMissNothing`: `Spec => []NothingMissed`. `WalksInventNothing`:
  `Spec => []NothingInvented`. `EndOfWalkIsFinal`: `Spec => EndIsFinal`.
- `WalksAreTyped`: `Spec => []TypeOK`.

`LibraryProofs`, part by part and then for the program that uses one of them:

- Composer, for any blocks, buffers and parts whose rounded sizes fit a size_t
  (`PartsFit`; the code does not look, and a sum that wraps is a buffer that is
  too short): offsets are multiples of a word and part i ends before part i + 1
  begins (`EndsAreMultiples`, `EndsGrow`), so that no part overwrites another
  (`CopiedIs`). `CompositionsKeepParts`: `[]PartsKept`. `BlocksHaveOneOwner`:
  `[]OneOwner`, by `OwnersInv`.
- Scopes, for any depth of nesting: what a function holds follows from the step
  it is at, what is guarded is what it holds (`HeldInv`), and the outermost
  scope has what was before it (`NativeInv`). `ScopesLeaveNothing`:
  `[]NothingLeftOpen`.
- Directories, for paths of any depth: at the last level the outcome agrees
  with the tree; the outcomes before it do not matter, since something is found
  only in a directory (`CreatedWellFormed`). `MkdirIsTrue`: `[]MkdirExists`.
- Network, for bytes of any width: a word loaded from four bytes lies in memory
  as these bytes (`LoadedIsInMemory`), htonl turns them (`HtonlReverses`), and
  bit n of a mask is set exactly if it is among the first of them (`MaskBits`,
  `BitOfByte`). `AddressesAreShown`: `[]AddressesAgree`.
- Conversions: `ConversionInv` says that what is recorded of a call is what the
  function yields (`Answers`), and that what went in is a string, or a list of
  strings, of any length. Each property is then a lemma about functions.
  - `PartsAreFoundAgain`: `[]PartsSurvive`. `Tokenize` and the decoding of
    arrays are both the runs of characters between others (`Runs`). The runs of
    a string that a delimiter ends, followed by a part, are those of the string
    and, if it is not empty, the part (`RunAppended`); `Join` adds one part
    after the other (`JoinAppended`). That a registry path has one form
    (`PathsAreReadAgain`) needs that the name of a root is one token, equal to
    its lower case.
  - `TextIsConvertedBack`: `[]TextSurvives`. Strings with the same bytes are
    the same strings, since no character's bytes begin with another's; hence
    `Widened` undoes `Narrowed` (`AnsiSurvives`, `WideSurvives`). A string
    is cut at its first null, and its bytes are cut at theirs.
  - `CallsAccountForAll`: `[]NothingUnaccounted`, one lemma for each function
    (`FlagsAreNamed`, `FirstPairIsKept`, `TrimTakesNothingElse`,
    `SummaryKeepsLimit`, `TableIsRead`, `BeginsIs`, `NameFollowsSeparator`).
- RegistryTests, which have no constants, but whose run shows no reason:
  in each test a read or a deletion follows the write of its value, and a
  comparison the calls for all that it compares (`MethodsOrdered`); so what the
  last call did suffices (`JustDone`), with what the test has written and
  created so far (`SoFar`) and, without a test that left something, that the
  key has no other values (`FreshKey`). `TestsPassInAnyOrder`:
  `[]FreshTestsPass`.
- Library: `LibraryImplementsParts`, a program that uses one part does what the
  specification of each part allows; hence `LibraryWalks`,
  `LibraryKeepsItsPromises` and `LibraryIsTyped` (`[]LibraryTypeOK`).

Induction over data is not available to the prover as a principle, since the
induction theorems of its library take an operator. What is defined by
recursion here is a recursive function (`Ends`, `Bit`, `Join`) or a fold of the
community modules (`FlattenSeq`), and the lemmas about it take a least
counterexample (`LeastNumber`): that the function exists, and what it yields.
For sequences one lemma does this once and for all: a set of sequences that has
the empty one, and each of its members with one element more, has them all
(`SequencesGrow`); what is to be proved of every string is stated as the set of
strings of which it holds.

Only model-checked is liveness under fairness (`EveryTriggerAnswered`,
`DestructorReturns`, `ReadReturnsInTime`, `CallsEnd`), which is out of the
prover's reach, as is `ENABLED`. Every invariant and every action property that
a passing run checks is proved.

## Findings

- `burst_clumping`: two triggers within `burstDuration` may be answered
  separately, contrary to `burstguard.h:18`. The worker's wait times out, and
  before it has the mutex a trigger comes. It is answered at once; the next
  one starts a new burst.
- `runner_no_thread`: the branch of `read()` under "Timeout reached." is also
  entered when the reader thread could not be created, and is never left.
- `runner_start_race`: between `CreatePipe` and `SetHandleInformation` the
  parent's ends can be inherited by the child of a runner that another thread
  is starting, against the intent stated at `applicationrunner.cpp:205`.
- `network_order`: `network.h:10-11` promises network byte order, and
  `LiteralAddressToNetwork` yields a number in host order: the bytes are in
  network order when they are loaded, and `htonl` turns them. `AddressesAgree`
  shows that this is what `FormatIpv4` expects, and that masks agree with it.
- `registry_tests`: `EnumerateKeys` leaves three subkeys, and `DeleteKey` in
  `Cleanup` (`../test-libcommon/registry.cpp:78`) refuses a key that has any.
  The key outlives the test, later tests add their values to it, and
  `EnumerateValues` finds more than it created. The shortest such run is
  `EnumerateKeys`, `WriteReadStringValue`, `EnumerateValues`.

## Not modelled

- `FormatIpv6`, `FormatTime`, `LexicalCast` and the wording of messages: they
  only put characters together, and no property is about them.
- `BufferView` and `ConstBufferView`, which hold a pointer and a size that
  belong to somebody else, and `Guid::Generate`, `GenerateQuick` and `Empty`.
- Memory that cannot be allocated by a string, a vector or a block.
- The tests of strings, numbers and addresses: each calls one pure function.
- Build support: precompiled headers and macros.
- What is left out of a modelled part is said in its section above.

## Plan

Every part that keeps state is modelled, and so are the functions of Strings
but for those that only format; all safety properties are proved. What may
follow, as the code changes: a filter that is added in the middle of a walk and
an `Adapters` that was moved from, once something in the library uses them.
