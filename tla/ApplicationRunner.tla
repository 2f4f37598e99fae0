-------------------------- MODULE ApplicationRunner --------------------------
(* A started common::process::ApplicationRunner                              *)
(* (libcommon/process/applicationrunner.{h,cpp}): one thread of the parent   *)
(* calls read(), write() and join(), read() starts a reader thread for every *)
(* call, and a child process is at the other end of two pipes.               *)
(*                                                                           *)
(* Bytes are numbered in the order the parent writes them, and the child     *)
(* echoes what it reads, so what a pipe, the child or a buffer holds is the  *)
(* interval between two counters:                                            *)
(*    sent >= fetched >= echoed >= consumed >= delivered                     *)
(*       stdin pipe  child  stdout pipe  reader thread                       *)
(* The object keeps the child's ends of both pipes open itself, so a pipe    *)
(* does not break when the child exits: a read or a write that would see a   *)
(* broken pipe waits instead.                                                *)
EXTENDS Integers

CONSTANTS
  Capacity,   \* the number of bytes a pipe holds
  MaxBytes,   \* bound on the bytes that write() is asked to send in all
  Sizes,      \* values of maxChars, and lengths of the data to write
  Timeouts,   \* values of timeout, a size_t
  DwordSize,  \* the number of values of a DWORD, to which these are cut
  Scarce      \* the resources whose creation may fail: "event", "thread"

ASSUME ApplicationRunnerAssumption ==
  /\ Capacity \in Nat \ {0} /\ MaxBytes \in Nat /\ DwordSize \in Nat \ {0}
  /\ Sizes \subseteq Nat \ {0} /\ Timeouts \subseteq Nat
  /\ Scarce \subseteq {"event", "thread"}

VARIABLES
  sent, fetched, echoed, consumed, delivered,  \* counters, see above
  toWrite,     \* size of the data of the write() under way
  bytesWritten,  \* how many of it are in the pipe
  parent,      \* what the thread that uses the object is doing
  maxChars,    \* of the latest read()
  timeout,     \* of the latest read() or join(), as the DWORD it is cut to
  dataSize,    \* size of the string that the latest read() got to fill
  result,      \* what the latest read(), write() or join() returned
  event,       \* readCompletedEvent: "none" stands for a null handle
  reader,      \* what the reader thread is doing, "none" if there is none
  bytesRead,   \* result of its ReadFile, None for failure
  child,       \* "running" or "exited"
  lastWait     \* how the first wait of the latest read() ended

pipes == <<sent, fetched, echoed, consumed>>
write == <<toWrite, bytesWritten>>
call == <<maxChars, timeout, lastWait>>
answer == <<dataSize, result, delivered>>
thread == <<event, reader, bytesRead>>
vars == <<pipes, write, parent, call, answer, thread, child>>

None == -1
Infinite == DwordSize - 1

(* static_cast<DWORD> of a size_t. Fault: it is taken to fit.                *)
DwordUncut(n) == n
Dword(n) == n % DwordSize

(* "waitThread": line 86. "cancel": line 100. "waitEvent": line 102.         *)
(* "joinThread": line 104. "writing": line 145. "joining": line 152.         *)
InRead == {"beginThread", "waitThread", "cancel", "waitEvent", "joinThread"}
ReaderAt == {"begun", "resized", "reading", "completed", "signalled", "exited"}

TypeOK ==
  /\ sent \in 0 .. MaxBytes
  /\ toWrite \in Sizes \cup {0} /\ bytesWritten \in 0 .. Infinite
  /\ fetched \in 0 .. sent /\ echoed \in 0 .. fetched
  /\ consumed \in 0 .. echoed /\ delivered \in 0 .. consumed
  /\ parent \in InRead \cup {"idle", "writing", "joining"}
  /\ maxChars \in Sizes /\ timeout \in 0 .. Infinite
  /\ dataSize \in Sizes \cup 0 .. MaxBytes
  /\ result \in BOOLEAN
  /\ event \in {"none", "reset", "set"}
  /\ reader \in ReaderAt \cup {"none"}
  /\ bytesRead \in {None} \cup 0 .. MaxBytes
  /\ child \in {"running", "exited"}
  /\ lastWait \in {"none", "object", "timeout", "failed"}

Init ==
  /\ sent = 0 /\ fetched = 0 /\ echoed = 0 /\ consumed = 0 /\ delivered = 0
  /\ toWrite = 0 /\ bytesWritten = 0
  /\ parent = "idle" /\ maxChars \in Sizes /\ timeout = 0
  /\ dataSize = 0 /\ result = FALSE
  /\ event = "none" /\ reader = "none" /\ bytesRead = None
  /\ child = "running" /\ lastWait = "none"

-----------------------------------------------------------------------------
(* read(). An operator marked "Fault" is a plausible bug in the definition   *)
(* that follows it; no action of the specification uses one.                 *)

CallRead(max, time) ==
  /\ parent = "idle"
  /\ parent' = "beginThread" /\ maxChars' = max /\ timeout' = Dword(time)
  /\ \/ event' = "reset"
     \/ "event" \in Scarce /\ event' = "none"
  /\ lastWait' = "none"
  /\ UNCHANGED <<pipes, write, answer, reader, bytesRead, child>>

BeginReader ==
  /\ parent = "beginThread"
  /\ parent' = "waitThread"
  /\ \/ reader' = "begun"
     \/ "thread" \in Scarce /\ reader' = "none"
  /\ UNCHANGED <<pipes, write, call, answer, event, bytesRead, child>>

(* Fault: only a read that has not been cancelled counts. *)
ThreadResultUnlessCancelled == lastWait' = "object" /\ bytesRead \notin {None, 0}
(* The exit code of the reader thread, which tells whether data holds bytes. *)
ThreadResult == bytesRead \notin {None, 0}

(* The rest of read() once the reader thread has ended: its handle and the   *)
(* event are closed, and what it has read becomes the caller's.              *)
ReadReturns ==
  /\ parent' = "idle" /\ result' = ThreadResult
  /\ delivered' = IF result' THEN delivered + bytesRead ELSE delivered
  /\ event' = "none" /\ reader' = "none"
  /\ UNCHANGED <<pipes, write, maxChars, timeout, dataSize, bytesRead, child>>

ThreadEndsInTime ==
  /\ parent = "waitThread" /\ reader = "exited"
  /\ lastWait' = "object"
  /\ ReadReturns

(* A wait for the null handle of a thread that was not created fails. *)
WaitEndsEarly ==
  /\ parent = "waitThread"
  /\ \/ reader = "none" /\ lastWait' = "failed"
     \/ reader \notin {"none", "exited"} /\ timeout # Infinite /\ lastWait' = "timeout"
  /\ parent' = "cancel"
  /\ UNCHANGED <<pipes, write, maxChars, timeout, answer, thread, child>>

(* CancelSynchronousIo does nothing unless the thread is inside ReadFile. *)
Cancel ==
  /\ parent = "cancel"
  /\ parent' = "waitEvent"
  /\ IF reader = "reading"
     THEN reader' = "completed" /\ bytesRead' = None
     ELSE UNCHANGED <<reader, bytesRead>>
  /\ UNCHANGED <<pipes, write, call, answer, event, child>>

(* Fault: cancelling once is taken to be enough. *)
KeepWaiting ==
  /\ parent = "waitEvent" /\ event # "set"
  /\ UNCHANGED vars
CancelAgain ==
  /\ parent = "waitEvent" /\ event # "set"
  /\ parent' = "cancel"
  /\ UNCHANGED <<pipes, write, call, answer, thread, child>>

(* Fault: the event is taken for the end of the thread. *)
ReadCompletedReturns ==
  /\ parent = "waitEvent" /\ event = "set"
  /\ UNCHANGED lastWait
  /\ ReadReturns
ReadCompleted ==
  /\ parent = "waitEvent" /\ event = "set"
  /\ parent' = "joinThread"
  /\ UNCHANGED <<pipes, write, call, answer, thread, child>>

ThreadJoined ==
  /\ parent = "joinThread" /\ reader = "exited"
  /\ UNCHANGED lastWait
  /\ ReadReturns

Parent ==
  \/ BeginReader \/ ThreadEndsInTime \/ WaitEndsEarly \/ Cancel \/ CancelAgain
  \/ ReadCompleted \/ ThreadJoined

-----------------------------------------------------------------------------
(* The reader thread. *)

ResizeToMax ==
  /\ reader = "begun"
  /\ reader' = "resized" /\ dataSize' = maxChars
  /\ UNCHANGED <<pipes, write, parent, call, result, delivered, event, bytesRead, child>>

EnterReadFile ==
  /\ reader = "resized"
  /\ reader' = "reading"
  /\ UNCHANGED <<pipes, write, parent, call, answer, event, bytesRead, child>>

(* ReadFile takes what the pipe has, but no more than the DWORD that         *)
(* maxChars is cut to.                                                       *)
ReadFileReturns ==
  /\ reader = "reading" /\ echoed > consumed
  /\ reader' = "completed"
  /\ bytesRead' = IF echoed - consumed < Dword(maxChars)
                  THEN echoed - consumed ELSE Dword(maxChars)
  /\ consumed' = consumed + bytesRead'
  /\ UNCHANGED <<sent, fetched, echoed, write, parent, call, answer, event, child>>

(* ReadFile succeeds and has read no byte, because none is asked for or the  *)
(* child has written none.                                                   *)
ReadFileReturnsNothing ==
  /\ reader = "reading"
  /\ Dword(maxChars) = 0 \/ (echoed = consumed /\ child = "running")
  /\ reader' = "completed" /\ bytesRead' = 0
  /\ UNCHANGED <<pipes, write, parent, call, answer, event, child>>

SignalCompleted ==
  /\ reader = "completed"
  /\ reader' = "signalled"
  /\ event' = IF event = "none" THEN "none" ELSE "set"
  /\ UNCHANGED <<pipes, write, parent, call, answer, bytesRead, child>>

ExitReadThread ==
  /\ reader = "signalled"
  /\ reader' = "exited"
  /\ dataSize' = IF bytesRead \in {None, 0} THEN dataSize ELSE bytesRead
  /\ UNCHANGED <<pipes, write, parent, call, result, delivered, event, bytesRead, child>>

Reader == ResizeToMax \/ EnterReadFile \/ ReadFileReturns \/ SignalCompleted \/ ExitReadThread

-----------------------------------------------------------------------------
(* write() and join(). *)

CallWrite(n) ==
  /\ parent = "idle" /\ sent + Dword(n) <= MaxBytes
  /\ parent' = "writing" /\ toWrite' = n
  /\ UNCHANGED <<pipes, bytesWritten, call, answer, thread, child>>

PutByte ==
  /\ parent = "writing" /\ bytesWritten < Dword(toWrite) /\ sent - fetched < Capacity
  /\ sent' = sent + 1 /\ bytesWritten' = bytesWritten + 1
  /\ UNCHANGED <<fetched, echoed, consumed, toWrite, parent, call, answer, thread, child>>

(* WriteFile succeeds when it has put all it was asked to into the pipe,     *)
(* which may be less than the data, and may fail at any time.                *)
WriteReturns ==
  /\ parent = "writing"
  /\ \/ bytesWritten = Dword(toWrite) /\ result' = (bytesWritten = toWrite)
     \/ result' = FALSE
  /\ parent' = "idle" /\ toWrite' = 0 /\ bytesWritten' = 0
  /\ UNCHANGED <<pipes, call, dataSize, delivered, thread, child>>

CallJoin(time) ==
  /\ parent = "idle"
  /\ parent' = "joining" /\ timeout' = Dword(time)
  /\ UNCHANGED <<pipes, write, maxChars, lastWait, answer, thread, child>>

JoinReturns ==
  /\ parent = "joining"
  /\ child = "exited" \/ timeout # Infinite
  /\ parent' = "idle" /\ result' = (child = "exited")
  /\ UNCHANGED <<pipes, write, call, dataSize, delivered, thread, child>>

-----------------------------------------------------------------------------
(* The child process echoes its input, byte by byte, until it exits. *)

Fetch ==
  /\ child = "running" /\ fetched < sent /\ fetched = echoed
  /\ fetched' = fetched + 1
  /\ UNCHANGED <<sent, echoed, consumed, write, parent, call, answer, thread, child>>

Echo ==
  /\ child = "running" /\ echoed < fetched /\ echoed - consumed < Capacity
  /\ echoed' = echoed + 1
  /\ UNCHANGED <<sent, fetched, consumed, write, parent, call, answer, thread, child>>

Exit ==
  /\ child = "running"
  /\ child' = "exited"
  /\ UNCHANGED <<pipes, write, parent, call, answer, thread>>

Next ==
  \/ \E max \in Sizes, time \in Timeouts : CallRead(max, time)
  \/ Parent
  \/ Reader \/ ReadFileReturnsNothing
  \/ \E n \in Sizes \cup {0} : CallWrite(n)
  \/ PutByte \/ WriteReturns
  \/ \E time \in Timeouts : CallJoin(time)
  \/ JoinReturns
  \/ Fetch \/ Echo \/ Exit

Spec == Init /\ [][Next]_vars

(* Both threads of the parent are scheduled, and a wait with a time limit    *)
(* ends. Nothing is assumed of the child, nor of who uses the object.        *)
Fairness == WF_vars(Parent) /\ WF_vars(Reader)

FairSpec == Spec /\ Fairness

-----------------------------------------------------------------------------
(* What the code promises. *)

(* When no read() is under way, every byte that was taken from the pipe has  *)
(* been given to the caller, also by the reads that a timeout cancelled      *)
(* while they completed. (applicationrunner.cpp:86-111, 129-138)             *)
NothingLost == parent \notin InRead => delivered = consumed

(* A read() that succeeds returns a string of exactly the bytes that it took *)
(* from the pipe, at least one; a read() that fails took none.               *)
(* (applicationrunner.cpp:104-111, 131-138)                                  *)
ReadIsExact ==
  [][parent' = "idle" /\ parent \in InRead =>
       IF result' THEN delivered' > delivered /\ dataSize' = delivered' - delivered
                  ELSE delivered' = delivered]_vars

(* A read() with a time limit returns, whatever the child does, although     *)
(* cancelling has no effect before the reader thread is inside ReadFile.     *)
(* (applicationrunner.cpp:88-104)                                            *)
ReadReturnsInTime ==
  parent = "waitThread" /\ timeout # Infinite /\ reader # "none" /\ event # "none"
    ~> parent = "idle"

(* applicationrunner.cpp:88-89, where the first wait does not succeed:       *)
(* "Timeout reached." The code does not check it: the wait also fails for a  *)
(* thread that could not be created, however long the timeout.               *)
CancelOnlyAfterTimeout == parent = "cancel" => lastWait = "timeout"


=============================================================================
