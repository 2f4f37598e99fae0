------------------------------ MODULE LogSink ------------------------------
(* common::logging::LogSink (libcommon/logging/logsink.{h,cpp}) used by the  *)
(* threads of a process: messages are handed to a target that setTarget()    *)
(* replaces at any time. A thread logs single messages, or a whole exception *)
(* with those nested in it, by UnwindException() (libcommon/error.cpp); the  *)
(* nesting is what THROW_ERROR in an exception handler creates (error.h).    *)
(*                                                                           *)
(* An exception is the sequence of what is nested, outermost first, each     *)
(* "std" (derived from std::exception) or "other". A message is what() of    *)
(* one of them, numbered by its place; a single message is an exception of   *)
(* one. Target "none" is the empty std::function.                            *)
EXTENDS Naturals, Sequences

CONSTANTS
  Threads,  \* the threads of the process
  Targets,  \* the targets setTarget() may be given, "none" among them
  MaxDepth  \* bound on the nesting of exceptions

ASSUME LogSinkAssumption == "none" \in Targets /\ MaxDepth \in Nat

VARIABLES
  target,     \* m_target
  setting,    \* what a thread wants to set, in setTarget() but before the lock
  exception,  \* the exception each thread is handling, <<>> if none
  logging,    \* number of the message each thread is logging, 0 if none
  inTarget,   \* the target each thread has called and not returned from
  \* History, read by properties only:
  retired,    \* targets that a setTarget() which has returned took out of use
  handled     \* numbers of the messages that this UnwindException() has logged

vars == <<target, setting, exception, logging, inTarget, retired, handled>>

NoTarget == "none"
Idle == "idle"

TypeOK ==
  /\ target \in Targets
  /\ setting \in [Threads -> Targets \cup {Idle}]
  /\ exception \in [Threads -> Seq({"std", "other"})]
  /\ logging \in [Threads -> 0 .. MaxDepth] /\ handled \in [Threads -> Seq(1 .. MaxDepth)]
  /\ \A t \in Threads : logging[t] <= Len(exception[t]) /\ Len(exception[t]) <= MaxDepth
  /\ inTarget \in [Threads -> Targets]
  /\ retired \subseteq Targets

Init ==
  /\ target \in Targets
  /\ setting = [t \in Threads |-> Idle]
  /\ exception = [t \in Threads |-> <<>>]
  /\ logging = [t \in Threads |-> 0]
  /\ inTarget = [t \in Threads |-> NoTarget]
  /\ retired = {}
  /\ handled = [t \in Threads |-> <<>>]

-----------------------------------------------------------------------------
(* An operator marked "Fault" is a plausible bug in the definition that      *)
(* follows it; no action of the specification uses one.                      *)

(* Fault: the lock is released before the target is called.                  *)
AlwaysFree == TRUE
(* m_mutex is held while a target runs, and never longer than an action      *)
(* otherwise.                                                                *)
Free == \A t \in Threads : inTarget[t] = NoTarget

(* Throw(): in a handler the exception being handled, whatever its type, is  *)
(* nested in the new one, which the caller of the handler catches in turn.   *)
(* The class that is thrown is the caller's choice.                          *)
Throw(t, kind) ==
  /\ logging[t] = 0 /\ setting[t] = Idle
  /\ Len(exception[t]) < MaxDepth
  /\ exception' = [exception EXCEPT ![t] = <<kind>> \o @]
  /\ UNCHANGED <<target, setting, logging, inTarget, retired, handled>>

(* A handler ends without a report, the only one that takes an exception of  *)
(* another type.                                                             *)
Discard(t) ==
  /\ logging[t] = 0 /\ setting[t] = Idle /\ exception[t] # <<>>
  /\ exception' = [exception EXCEPT ![t] = <<>>]
  /\ UNCHANGED <<target, setting, logging, inTarget, retired, handled>>

(* A handler of std::exception calls UnwindException(). *)
BeginUnwind(t) ==
  /\ logging[t] = 0 /\ setting[t] = Idle
  /\ exception[t] # <<>> /\ exception[t][1] = "std"
  /\ logging' = [logging EXCEPT ![t] = 1]
  /\ handled' = [handled EXCEPT ![t] = <<>>]
  /\ UNCHANGED <<target, setting, exception, inTarget, retired>>

(* Fault: the end of the nesting is missed. *)
NextNestedPastEnd(t) == logging[t] + 1
(* Fault: everything nested is gone through, whatever its type. *)
NextNestedOfAnyType(t) == IF logging[t] < Len(exception[t]) THEN logging[t] + 1 ELSE 0
(* Number of the exception to log next, 0 when UnwindException() is done.    *)
NextNested(t) ==
  IF logging[t] < Len(exception[t]) /\ exception[t][logging[t] + 1] = "std"
  THEN logging[t] + 1 ELSE 0

(* forward() with a message has come back. *)
MessageDone(t) ==
  /\ logging' = [logging EXCEPT ![t] = NextNested(t)]
  /\ handled' = [handled EXCEPT ![t] = Append(@, logging[t])]
  /\ exception' = IF logging'[t] = 0 THEN [exception EXCEPT ![t] = <<>>] ELSE exception

ForwardToNone(t) ==
  /\ logging[t] # 0 /\ inTarget[t] = NoTarget /\ Free /\ target = NoTarget
  /\ MessageDone(t)
  /\ UNCHANGED <<target, setting, inTarget, retired>>

CallTarget(t) ==
  /\ logging[t] # 0 /\ inTarget[t] = NoTarget /\ Free /\ target # NoTarget
  /\ inTarget' = [inTarget EXCEPT ![t] = target]
  /\ UNCHANGED <<target, setting, exception, logging, retired, handled>>

TargetReturns(t) ==
  /\ inTarget[t] # NoTarget
  /\ inTarget' = [inTarget EXCEPT ![t] = NoTarget]
  /\ MessageDone(t)
  /\ UNCHANGED <<target, setting, retired>>

(* What the target throws leaves UnwindException(), the lock is released.    *)
TargetThrows(t) ==
  /\ inTarget[t] # NoTarget
  /\ inTarget' = [inTarget EXCEPT ![t] = NoTarget]
  /\ logging' = [logging EXCEPT ![t] = 0]
  /\ exception' = [exception EXCEPT ![t] = <<>>]
  /\ UNCHANGED <<target, setting, retired, handled>>

CallSetTarget(t, new) ==
  /\ logging[t] = 0 /\ exception[t] = <<>> /\ setting[t] = Idle
  /\ setting' = [setting EXCEPT ![t] = new]
  /\ UNCHANGED <<target, exception, logging, inTarget, retired, handled>>

SetTarget(t) ==
  /\ setting[t] # Idle /\ Free
  /\ target' = setting[t]
  /\ setting' = [setting EXCEPT ![t] = Idle]
  /\ retired' = (retired \cup {target}) \ {target', NoTarget}
  /\ UNCHANGED <<exception, logging, inTarget, handled>>

Next == \E t \in Threads :
  \/ \E kind \in {"std", "other"} : Throw(t, kind)
  \/ Discard(t) \/ BeginUnwind(t)
  \/ ForwardToNone(t) \/ CallTarget(t) \/ TargetReturns(t) \/ TargetThrows(t)
  \/ \E new \in Targets : CallSetTarget(t, new)
  \/ SetTarget(t)

Spec == Init /\ [][Next]_vars

-----------------------------------------------------------------------------
(* What the code promises. *)

(* Once setTarget() has returned, the target it replaced is not being called *)
(* and is not called again until it is set again, so that its owner may      *)
(* destroy it; and no target is called by two threads at a time.             *)
(* (logsink.cpp:14-18, 45-53)                                                *)
RetiredIsSilent ==
  /\ \A t \in Threads : inTarget[t] \notin retired
  /\ \A t, u \in Threads :
       inTarget[t] # NoTarget /\ inTarget[u] # NoTarget => t = u

(* UnwindException() reports an exception and then those nested in it, from  *)
(* the outermost in, up to the first that is not derived from                *)
(* std::exception, even if it has others nested in it in turn; none is left  *)
(* out or repeated, however other threads' messages and new targets come in  *)
(* between. (error.cpp:68-83)                                                *)
Reportable(e) == {i \in 1 .. Len(e) : \A j \in 1 .. i : e[j] = "std"}
ReportedFromOutermost ==
  [][\A t \in Threads :
       logging'[t] = 0 /\ handled'[t] # handled[t] =>
         handled'[t] = [i \in Reportable(exception[t]) |-> i]]_vars

=============================================================================
