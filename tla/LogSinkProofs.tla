--------------------------- MODULE LogSinkProofs ---------------------------
(* Theorems about LogSink, for any threads, targets and depth of nesting.    *)
EXTENDS LogSink, SequenceTheorems, TLAPS

(* A target that is being called is the one that is set, by one thread, for  *)
(* a message; what is retired is not set.                                    *)
TargetInv ==
  /\ \A t \in Threads : inTarget[t] # NoTarget => inTarget[t] = target /\ logging[t] # 0
  /\ \A t, u \in Threads : inTarget[t] # NoTarget /\ inTarget[u] # NoTarget => t = u
  /\ target \notin retired /\ NoTarget \notin retired

(* The messages before the one that is being logged have been, and all of    *)
(* them are of exceptions that UnwindException() can look into.              *)
ThreadReports(t) == logging[t] # 0 =>
  /\ handled[t] = [i \in 1 .. logging[t] - 1 |-> i]
  /\ \A i \in 1 .. logging[t] : exception[t][i] = "std"
ReportInv == \A t \in Threads : ThreadReports(t)

Inv == TypeOK /\ TargetInv /\ ReportInv

LEMMA InitInv == Init => Inv
<1> SUFFICES ASSUME Init PROVE Inv
  OBVIOUS
<1>1. TypeOK
  BY LogSinkAssumption DEF Init, TypeOK, NoTarget, Idle
<1>2. TargetInv /\ ReportInv
  BY DEF Init, TargetInv, ReportInv, ThreadReports, NoTarget
<1> QED
  BY <1>1, <1>2 DEF Inv

LEMMA MessageDoneType ==
  ASSUME TypeOK, NEW t \in Threads, logging[t] # 0, MessageDone(t)
  PROVE  /\ exception' \in [Threads -> Seq({"std", "other"})]
         /\ logging' \in [Threads -> 0 .. MaxDepth] /\ handled' \in [Threads -> Seq(1 .. MaxDepth)]
         /\ \A u \in Threads : logging'[u] <= Len(exception'[u]) /\ Len(exception'[u]) <= MaxDepth
<1> USE LogSinkAssumption DEF TypeOK
<1>1. Len(exception[t]) \in Nat
  OBVIOUS
<1>2. NextNested(t) \in 0 .. Len(exception[t])
  BY <1>1 DEF NextNested
<1>3. Append(handled[t], logging[t]) \in Seq(1 .. MaxDepth)
  OBVIOUS
<1>4. logging' \in [Threads -> 0 .. MaxDepth] /\ handled' \in [Threads -> Seq(1 .. MaxDepth)]
  BY <1>1, <1>2, <1>3 DEF MessageDone
<1>5. exception' \in [Threads -> Seq({"std", "other"})]
  BY DEF MessageDone
<1>6. ASSUME NEW u \in Threads
      PROVE  logging'[u] <= Len(exception'[u]) /\ Len(exception'[u]) <= MaxDepth
  BY <1>1, <1>2 DEF MessageDone
<1> QED
  BY <1>4, <1>5, <1>6

LEMMA NextType == TypeOK /\ TargetInv /\ [Next]_vars => TypeOK'
<1> SUFFICES ASSUME TypeOK, TargetInv, [Next]_vars PROVE TypeOK'
  OBVIOUS
<1> USE LogSinkAssumption
<1>1. ASSUME NEW t \in Threads, NEW kind \in {"std", "other"}, Throw(t, kind) PROVE TypeOK'
  <2>1. exception[t] \in Seq({"std", "other"}) /\ <<kind>> \in Seq({"std", "other"})
    BY DEF TypeOK
  <2>2. /\ <<kind>> \o exception[t] \in Seq({"std", "other"})
        /\ Len(<<kind>> \o exception[t]) = 1 + Len(exception[t])
    BY <2>1, ConcatProperties
  <2>3. Len(exception[t]) \in Nat
    BY <2>1
  <2> QED
    BY <1>1, <2>2, <2>3 DEF Throw, TypeOK
<1>2. ASSUME NEW t \in Threads, BeginUnwind(t) PROVE TypeOK'
  <2>1. Len(exception[t]) \in Nat \ {0}
    BY <1>2, EmptySeq DEF BeginUnwind, TypeOK
  <2> QED
    BY <1>2, <2>1 DEF BeginUnwind, TypeOK
<1>3. ASSUME NEW t \in Threads, ForwardToNone(t) PROVE TypeOK'
  BY <1>3, MessageDoneType DEF ForwardToNone, TypeOK
<1>4. ASSUME NEW t \in Threads, CallTarget(t) PROVE TypeOK'
  BY <1>4 DEF CallTarget, TypeOK
<1>5. ASSUME NEW t \in Threads, TargetReturns(t) PROVE TypeOK'
  <2>1. logging[t] # 0 /\ MessageDone(t)
    BY <1>5 DEF TargetReturns, TargetInv
  <2> QED
    BY <1>5, <2>1, MessageDoneType DEF TargetReturns, TypeOK, NoTarget
<1>6. ASSUME NEW t \in Threads, TargetThrows(t) PROVE TypeOK'
  BY <1>6 DEF TargetThrows, TypeOK, NoTarget
<1>7. ASSUME NEW t \in Threads, NEW new \in Targets, CallSetTarget(t, new) PROVE TypeOK'
  BY <1>7 DEF CallSetTarget, TypeOK
<1>8. ASSUME NEW t \in Threads, SetTarget(t) PROVE TypeOK'
  BY <1>8 DEF SetTarget, TypeOK
<1>9. ASSUME NEW t \in Threads, Discard(t) PROVE TypeOK'
  <2>1. <<>> \in Seq({"std", "other"}) /\ Len(<<>>) = 0
    OBVIOUS
  <2> QED
    BY <1>9, <2>1 DEF Discard, TypeOK
<1>10. CASE UNCHANGED vars
  BY <1>10 DEF vars, TypeOK
<1> QED
  BY <1>1, <1>2, <1>3, <1>4, <1>5, <1>6, <1>7, <1>8, <1>9, <1>10 DEF Next

LEMMA NextTarget == TypeOK /\ TargetInv /\ [Next]_vars => TargetInv'
<1> SUFFICES ASSUME TypeOK, TargetInv, [Next]_vars PROVE TargetInv'
  OBVIOUS
<1> USE DEF TypeOK, TargetInv
<1>1. ASSUME NEW t \in Threads, NEW kind \in {"std", "other"}, Throw(t, kind) PROVE TargetInv'
  BY <1>1 DEF Throw
<1>2. ASSUME NEW t \in Threads, BeginUnwind(t) PROVE TargetInv'
  BY <1>2 DEF BeginUnwind
<1>3. ASSUME NEW t \in Threads, ForwardToNone(t) PROVE TargetInv'
  BY <1>3 DEF ForwardToNone, MessageDone, Free
<1>4. ASSUME NEW t \in Threads, CallTarget(t) PROVE TargetInv'
  BY <1>4 DEF CallTarget, Free
<1>5. ASSUME NEW t \in Threads, TargetReturns(t) PROVE TargetInv'
  BY <1>5 DEF TargetReturns, MessageDone
<1>6. ASSUME NEW t \in Threads, TargetThrows(t) PROVE TargetInv'
  BY <1>6 DEF TargetThrows
<1>7. ASSUME NEW t \in Threads, NEW new \in Targets, CallSetTarget(t, new) PROVE TargetInv'
  BY <1>7 DEF CallSetTarget
<1>8. ASSUME NEW t \in Threads, SetTarget(t) PROVE TargetInv'
  BY <1>8 DEF SetTarget, Free
<1>9. ASSUME NEW t \in Threads, Discard(t) PROVE TargetInv'
  BY <1>9 DEF Discard
<1>10. CASE UNCHANGED vars
  BY <1>10 DEF vars
<1> QED
  BY <1>1, <1>2, <1>3, <1>4, <1>5, <1>6, <1>7, <1>8, <1>9, <1>10 DEF Next

(* The message that was logged is the next one of the list.                  *)
LEMMA OneMore ==
  ASSUME NEW n \in Nat \ {0}
  PROVE  Append([i \in 1 .. n - 1 |-> i], n) = [i \in 1 .. n |-> i]
<1> DEFINE s == [i \in 1 .. n - 1 |-> i]
           r == [i \in 1 .. n |-> i]
<1>1. s \in Seq(Nat) /\ Len(s) = n - 1 /\ r \in Seq(Nat) /\ Len(r) = n
  OBVIOUS
<1>2. Append(s, n) \in Seq(Nat) /\ Len(Append(s, n)) = n
  BY <1>1
<1>3. ASSUME NEW i \in 1 .. n PROVE Append(s, n)[i] = r[i]
  BY <1>1
<1> QED
  BY <1>1, <1>2, <1>3, SeqEqual

LEMMA MessageDoneReports ==
  ASSUME TypeOK, ReportInv, NEW t \in Threads, logging[t] # 0, MessageDone(t)
  PROVE  /\ ReportInv'
         /\ handled'[t] = [i \in 1 .. logging[t] |-> i]
<1> USE DEF TypeOK
<1>1. logging[t] \in Nat \ {0} /\ Len(exception[t]) \in Nat /\ logging[t] <= Len(exception[t])
  BY LogSinkAssumption
<1>2. handled[t] = [i \in 1 .. logging[t] - 1 |-> i]
  BY DEF ReportInv, ThreadReports
<1>3. handled'[t] = Append(handled[t], logging[t])
  BY DEF MessageDone
<1>4. handled'[t] = [i \in 1 .. logging[t] |-> i]
  BY <1>1, <1>2, <1>3, OneMore
<1>5. ThreadReports(t)'
  <2>1. CASE NextNested(t) = 0
    BY <2>1 DEF MessageDone, ThreadReports
  <2>2. CASE NextNested(t) # 0
    <3>1. /\ logging'[t] = logging[t] + 1 /\ exception' = exception
          /\ exception[t][logging[t] + 1] = "std"
      BY <1>1, <2>2 DEF MessageDone, NextNested
    <3>2. \A i \in 1 .. logging[t] : exception[t][i] = "std"
      BY DEF ReportInv, ThreadReports
    <3>3. \A i \in 1 .. logging'[t] : exception'[t][i] = "std"
      BY <1>1, <3>1, <3>2
    <3>4. handled'[t] = [i \in 1 .. logging'[t] - 1 |-> i]
      BY <1>1, <1>4, <3>1
    <3> QED
      BY <3>3, <3>4 DEF ThreadReports
  <2> QED
    BY <2>1, <2>2
<1>6. ASSUME NEW u \in Threads \ {t} PROVE ThreadReports(u)'
  <2>1. logging'[u] = logging[u] /\ handled'[u] = handled[u] /\ exception'[u] = exception[u]
    BY DEF MessageDone
  <2> QED
    BY <2>1 DEF ReportInv, ThreadReports
<1> QED
  BY <1>4, <1>5, <1>6 DEF ReportInv

LEMMA NextReports == Inv /\ [Next]_vars => ReportInv'
<1> SUFFICES ASSUME Inv, [Next]_vars PROVE ReportInv'
  OBVIOUS
<1> USE DEF Inv, TypeOK
<1>1. ASSUME NEW t \in Threads, NEW kind \in {"std", "other"}, Throw(t, kind) PROVE ReportInv'
  BY <1>1 DEF Throw, ReportInv, ThreadReports
<1>2. ASSUME NEW t \in Threads, BeginUnwind(t) PROVE ReportInv'
  <2>1. ASSUME NEW u \in Threads \ {t} PROVE ThreadReports(u)'
    BY <1>2, <2>1 DEF BeginUnwind, ReportInv, ThreadReports
  <2>2. logging'[t] = 1 /\ handled'[t] = <<>> /\ exception' = exception /\ exception[t][1] = "std"
    BY <1>2 DEF BeginUnwind
  <2>3. ThreadReports(t)'
    BY <2>2 DEF ThreadReports
  <2> QED
    BY <2>1, <2>3 DEF ReportInv
<1>3. ASSUME NEW t \in Threads, ForwardToNone(t) \/ TargetReturns(t) PROVE ReportInv'
  BY <1>3, MessageDoneReports DEF ForwardToNone, TargetReturns, TargetInv
<1>4. ASSUME NEW t \in Threads, TargetThrows(t) PROVE ReportInv'
  BY <1>4 DEF TargetThrows, ReportInv, ThreadReports
<1>5. ASSUME NEW t \in Threads,
             CallTarget(t) \/ SetTarget(t) \/ \E new \in Targets : CallSetTarget(t, new)
      PROVE  ReportInv'
  <2>1. CASE CallTarget(t)
    BY <2>1 DEF CallTarget, ReportInv, ThreadReports
  <2>2. CASE SetTarget(t)
    BY <2>2 DEF SetTarget, ReportInv, ThreadReports
  <2>3. CASE \E new \in Targets : CallSetTarget(t, new)
    BY <2>3 DEF CallSetTarget, ReportInv, ThreadReports
  <2> QED
    BY <1>5, <2>1, <2>2, <2>3
<1>6. ASSUME NEW t \in Threads, Discard(t) PROVE ReportInv'
  BY <1>6 DEF Discard, ReportInv, ThreadReports
<1>7. CASE UNCHANGED vars
  BY <1>7 DEF vars, ReportInv, ThreadReports
<1> QED
  BY <1>1, <1>2, <1>3, <1>4, <1>5, <1>6, <1>7 DEF Next

THEOREM SinkInvariance == Spec => []Inv
<1>1. Inv /\ [Next]_vars => Inv'
  BY NextType, NextTarget, NextReports DEF Inv
<1> QED
  BY InitInv, <1>1, PTL DEF Spec

(* Every variable of LogSink has its type. *)
THEOREM SinkTypeCorrect == Spec => []TypeOK
<1>1. Inv => TypeOK
  BY DEF Inv
<1> QED
  BY SinkInvariance, <1>1, PTL

(* A target that setTarget() has replaced is not being called when it        *)
(* returns, and not afterwards, and no target by two threads at a time.      *)
THEOREM ReplacedIsSilent == Spec => []RetiredIsSilent
<1>1. Inv => RetiredIsSilent
  BY DEF Inv, TargetInv, RetiredIsSilent
<1> QED
  BY SinkInvariance, <1>1, PTL

(* UnwindException() reports a chain of exceptions from the outermost in, up *)
(* to the first it cannot look into, and each of them once.                  *)
THEOREM OutermostFirst == Spec => ReportedFromOutermost
<1> DEFINE Report(t) ==
      logging'[t] = 0 /\ handled'[t] # handled[t] =>
        handled'[t] = [i \in Reportable(exception[t]) |-> i]
<1>1. ASSUME Inv, [Next]_vars, NEW t \in Threads PROVE Report(t)
  <2>1. CASE logging[t] # 0 /\ MessageDone(t)
    <3>1. handled'[t] = [i \in 1 .. logging[t] |-> i]
      BY <1>1, <2>1, MessageDoneReports DEF Inv
    <3>2. ASSUME logging'[t] = 0 PROVE Reportable(exception[t]) = 1 .. logging[t]
      <4>1. logging[t] \in Nat \ {0} /\ Len(exception[t]) \in Nat /\ logging[t] <= Len(exception[t])
        BY <1>1, <2>1, LogSinkAssumption DEF Inv, TypeOK
      <4>2. \A i \in 1 .. logging[t] : exception[t][i] = "std"
        BY <1>1, <2>1 DEF Inv, ReportInv, ThreadReports
      <4>3. NextNested(t) = 0
        BY <1>1, <2>1, <3>2 DEF MessageDone, Inv, TypeOK
      <4>4. logging[t] = Len(exception[t]) \/ exception[t][logging[t] + 1] # "std"
        BY <4>1, <4>3 DEF NextNested
      <4> QED
        BY <4>1, <4>2, <4>4 DEF Reportable
    <3> QED
      BY <3>1, <3>2
  <2>2. CASE handled'[t] = handled[t] \/ logging'[t] # 0
    BY <2>2
  <2>3. \/ logging[t] # 0 /\ MessageDone(t)
        \/ handled'[t] = handled[t] \/ logging'[t] # 0
    <3>1. ASSUME NEW u \in Threads, BeginUnwind(u)
          PROVE  handled'[t] = handled[t] \/ logging'[t] # 0
      BY <3>1, <1>1 DEF BeginUnwind, Inv, TypeOK
    <3>2. ASSUME NEW u \in Threads, ForwardToNone(u) \/ TargetReturns(u)
          PROVE  (logging[t] # 0 /\ MessageDone(t)) \/ handled'[t] = handled[t]
      <4>1. logging[u] # 0 /\ MessageDone(u)
        BY <3>2, <1>1 DEF ForwardToNone, TargetReturns, Inv, TargetInv
      <4>2. u # t => handled'[t] = handled[t]
        BY <4>1, <1>1 DEF MessageDone, Inv, TypeOK
      <4> QED
        BY <4>1, <4>2
    <3>3. ASSUME NEW u \in Threads,
                 \/ Discard(u) \/ \E kind \in {"std", "other"} : Throw(u, kind)
                 \/ CallTarget(u) \/ TargetThrows(u) \/ SetTarget(u)
                 \/ \E new \in Targets : CallSetTarget(u, new)
          PROVE  handled' = handled
      BY <3>3 DEF Throw, Discard, CallTarget, TargetThrows, SetTarget, CallSetTarget
    <3> QED
      BY <3>1, <3>2, <3>3, <1>1 DEF Next, vars
  <2> QED
    BY <2>1, <2>2, <2>3
<1>2. Inv /\ [Next]_vars => [\A t \in Threads : Report(t)]_vars
  BY <1>1
<1> QED
  BY SinkInvariance, <1>2, PTL DEF Spec, ReportedFromOutermost
=============================================================================
