----------------------- MODULE ApplicationRunnerProofs -----------------------
(* Proofs about ApplicationRunner for all sizes, timeouts and pipes.         *)
EXTENDS ApplicationRunner, TLAPS

(* The bytes that the reader thread has taken and read() has not returned. *)
Held ==
  IF reader \in {"completed", "signalled", "exited"} /\ bytesRead # None
  THEN bytesRead ELSE 0

(* The parent, the reader thread and the event are in matching phases. *)
PhaseInv ==
  /\ parent \notin InRead => reader = "none" /\ event = "none"
  /\ parent = "beginThread" => reader = "none"
  /\ parent = "joinThread" => event = "set"
  /\ event = "set" => reader \in {"signalled", "exited"}
  /\ IF parent = "writing"
     THEN bytesWritten <= Dword(toWrite) /\ sent + Dword(toWrite) - bytesWritten <= MaxBytes
     ELSE bytesWritten = 0

(* What has left the pipe was delivered or is held by the reader thread,     *)
(* which has cut the string to its size when it exits.                       *)
StreamInv ==
  /\ consumed = delivered + Held
  /\ reader = "exited" /\ bytesRead \notin {None, 0} => dataSize = bytesRead

Inv == TypeOK /\ PhaseInv /\ StreamInv

-----------------------------------------------------------------------------
(* What the code casts to a DWORD becomes one. *)
LEMMA DwordInRange == \A n \in Nat : Dword(n) \in 0 .. Infinite /\ Infinite \in Nat
<1> TAKE n \in Nat
<1>1. DwordSize \in Nat /\ DwordSize > 0
  BY ApplicationRunnerAssumption
<1>2. n % DwordSize \in 0 .. DwordSize - 1
  BY <1>1
<1> QED
  BY <1>1, <1>2 DEF Dword, Infinite

(* The inductive invariant holds in a runner that has just been started. *)
LEMMA InitEstablishesInv == Init => Inv
<1> SUFFICES ASSUME Init PROVE Inv
  OBVIOUS
<1>1. 0 \in 0 .. Infinite /\ 0 \in 0 .. MaxBytes /\ 0 \in 0 .. 0
  BY ApplicationRunnerAssumption DEF Infinite
<1>2. TypeOK
  BY <1>1 DEF Init, TypeOK, InRead, ReaderAt, None
<1>3. PhaseInv /\ StreamInv
  BY ApplicationRunnerAssumption DEF Init, PhaseInv, StreamInv, Held, InRead
<1> QED
  BY <1>2, <1>3 DEF Inv

(* Every step of the parent, its reader thread and the child keeps it. *)
LEMMA NextKeepsInv == Inv /\ [Next]_vars => Inv'
<1> SUFFICES ASSUME Inv, [Next]_vars PROVE Inv'
  OBVIOUS
<1> USE ApplicationRunnerAssumption
    DEF Inv, TypeOK, PhaseInv, StreamInv, Held, InRead, ReaderAt, None, pipes, write,
        call, answer, thread
<1>1. ASSUME NEW max \in Sizes, NEW time \in Timeouts, CallRead(max, time) PROVE Inv'
  <2>1. Dword(time) \in 0 .. Infinite
    BY DwordInRange
  <2> QED
    BY <1>1, <2>1 DEF CallRead
<1>2. CASE BeginReader
  BY <1>2 DEF BeginReader
<1>3. ASSUME ReadReturns, reader = "exited", lastWait' \in {lastWait, "object"}
      PROVE  Inv'
  <2>1. CASE bytesRead \in {None, 0}
    <3>1. result' = FALSE /\ delivered' = delivered
      BY <1>3, <2>1 DEF ReadReturns, ThreadResult
    <3> QED
      BY <1>3, <2>1, <3>1 DEF ReadReturns
  <2>2. CASE bytesRead \notin {None, 0}
    <3>1. result' = TRUE /\ delivered' = delivered + bytesRead
      BY <1>3, <2>2 DEF ReadReturns, ThreadResult
    <3> QED
      BY <1>3, <2>2, <3>1 DEF ReadReturns
  <2> QED
    BY <2>1, <2>2
<1>4. CASE WaitEndsEarly
  BY <1>4 DEF WaitEndsEarly
<1>5. CASE Cancel
  BY <1>5 DEF Cancel
<1>6. CASE CancelAgain
  BY <1>6 DEF CancelAgain
<1>7. CASE ReadCompleted
  BY <1>7 DEF ReadCompleted
<1>8. CASE ThreadEndsInTime \/ ThreadJoined
  BY <1>3, <1>8 DEF ThreadEndsInTime, ThreadJoined
<1>9. CASE ResizeToMax
  BY <1>9 DEF ResizeToMax
<1>10. CASE EnterReadFile
  BY <1>10 DEF EnterReadFile
<1>11. CASE ReadFileReturns
  <2>1. Dword(maxChars) \in 0 .. Infinite /\ Infinite \in Nat
    BY DwordInRange
  <2>2. bytesRead' \in 0 .. echoed - consumed
    BY <1>11, <2>1 DEF ReadFileReturns
  <2> QED
    BY <1>11, <2>2 DEF ReadFileReturns
<1>12. CASE ReadFileReturnsNothing
  BY <1>12 DEF ReadFileReturnsNothing
<1>13. CASE SignalCompleted
  BY <1>13 DEF SignalCompleted
<1>14. CASE ExitReadThread
  BY <1>14 DEF ExitReadThread
<1>15. ASSUME NEW n \in Sizes \cup {0}, CallWrite(n) PROVE Inv'
  <2>1. Dword(n) \in 0 .. Infinite
    BY DwordInRange
  <2> QED
    BY <1>15, <2>1 DEF CallWrite
<1>16. CASE PutByte
  <2>1. Dword(toWrite) \in 0 .. Infinite /\ Infinite \in Nat
    BY DwordInRange
  <2> QED
    BY <1>16, <2>1 DEF PutByte
<1>17. CASE WriteReturns
  <2>1. result' \in BOOLEAN
    BY <1>17 DEF WriteReturns
  <2>2. /\ parent' = "idle" /\ toWrite' = 0 /\ bytesWritten' = 0
        /\ UNCHANGED <<pipes, call, dataSize, delivered, thread, child>>
    BY <1>17 DEF WriteReturns
  <2>3. 0 \in 0 .. Infinite
    BY DwordInRange
  <2>4. TypeOK'
    BY <2>1, <2>2, <2>3
  <2>5. PhaseInv'
    BY <2>2, <1>17 DEF WriteReturns
  <2>6. StreamInv'
    BY <2>2
  <2> QED
    BY <2>4, <2>5, <2>6
<1>18. ASSUME NEW time \in Timeouts, CallJoin(time) PROVE Inv'
  <2>1. Dword(time) \in 0 .. Infinite
    BY DwordInRange
  <2> QED
    BY <1>18, <2>1 DEF CallJoin
<1>19. CASE JoinReturns
  BY <1>19 DEF JoinReturns
<1>20. CASE Fetch
  BY <1>20 DEF Fetch
<1>21. CASE Echo
  BY <1>21 DEF Echo
<1>22. CASE Exit
  BY <1>22 DEF Exit
<1>23. CASE UNCHANGED vars
  BY <1>23 DEF vars
<1> QED
  BY <1>1, <1>2, <1>3, <1>4, <1>5, <1>6, <1>7, <1>8, <1>9, <1>10, <1>11, <1>12,
     <1>13, <1>14, <1>15, <1>16, <1>17, <1>18, <1>19, <1>20, <1>21, <1>22, <1>23
     DEF Next, Parent, Reader

(* The phases fit together and the stream is whole in every reachable state. *)
THEOREM ReaderInvariance == Spec => []Inv
BY InitEstablishesInv, NextKeepsInv, PTL DEF Spec

(* Every variable has its type. *)
THEOREM RunnerTypeCorrect == Spec => []TypeOK
<1>1. Inv => TypeOK
  BY DEF Inv
<1> QED
  BY <1>1, ReaderInvariance, PTL

(* Between calls of read() every byte that was taken has been delivered.     *)
THEOREM NoByteLost == Spec => []NothingLost
<1>1. Inv => NothingLost
  BY DEF Inv, TypeOK, PhaseInv, StreamInv, Held, NothingLost
<1> QED
  BY <1>1, ReaderInvariance, PTL

(* A read() returns the bytes it took, all of them and no others. *)
THEOREM ExactReads == Spec => ReadIsExact
<1> DEFINE Exact ==
      parent' = "idle" /\ parent \in InRead =>
        IF result' THEN delivered' > delivered /\ dataSize' = delivered' - delivered
                   ELSE delivered' = delivered
<1>1. Inv /\ [Next]_vars => [Exact]_vars
  <2> SUFFICES ASSUME Inv, Next, parent' = "idle", parent \in InRead
               PROVE  Exact
    OBVIOUS
  <2>1. ReadReturns /\ reader = "exited"
    BY DEF Next, Parent, Reader, InRead, CallRead, BeginReader, ThreadEndsInTime,
           WaitEndsEarly, Cancel, CancelAgain, ReadCompleted, ThreadJoined, ResizeToMax,
           EnterReadFile, ReadFileReturns, ReadFileReturnsNothing, SignalCompleted,
           ExitReadThread, CallWrite, PutByte, WriteReturns, CallJoin, JoinReturns,
           Fetch, Echo, Exit, answer
  <2>2. delivered \in Int /\ (bytesRead \notin {None, 0} => bytesRead \in Int /\ bytesRead > 0)
    BY ApplicationRunnerAssumption DEF Inv, TypeOK, None
  <2>3. CASE bytesRead \in {None, 0}
    BY <2>1, <2>3 DEF ReadReturns, ThreadResult
  <2>4. CASE bytesRead \notin {None, 0}
    <3>1. result' = TRUE /\ delivered' = delivered + bytesRead /\ dataSize' = bytesRead
      BY <2>1, <2>4 DEF ReadReturns, ThreadResult, Inv, StreamInv
    <3> QED
      BY <2>2, <2>4, <3>1
  <2> QED
    BY <2>3, <2>4
<1> QED
  BY <1>1, ReaderInvariance, PTL DEF Spec, ReadIsExact

=============================================================================
