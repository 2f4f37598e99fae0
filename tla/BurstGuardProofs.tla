-------------------------- MODULE BurstGuardProofs --------------------------
(* Proofs about BurstGuard for any number of callers and any durations.      *)
EXTENDS BurstGuard, TLAPS

(* The object and its worker go through their lives together. *)
LifetimeInv ==
  /\ object \in {"absent", "failed"} => handles = {}
  /\ object = "starting" => handles = {"event"}
  /\ object \in {"alive", "destroying"} => handles = {"event", "thread"}
  /\ object \in {"absent", "starting", "failed"} <=> thread = "none"
  /\ object \in {"absent", "starting", "failed"} => oldest = None
  /\ object = "alive" => thread # "exited"
  /\ threadState = "Exiting" <=> object \in {"destroying", "destroyed"}
  /\ object = "destroyed" => thread = "exited" /\ handles = {}

(* The callback is run by one thread at a time, for an unanswered trigger,   *)
(* and in trigger() only while the object is alive.                          *)
CallbackInv ==
  /\ thread = "calling" => oldest # None
  /\ \A c \in Callers :
       caller[c] = "calling" =>
         /\ object = "alive" /\ oldest # None /\ thread # "calling"
         /\ \A d \in Callers : caller[d] = "calling" => d = c

(* The wait for the end of a burst started after the latest trigger that the *)
(* worker has acknowledged: what has come since has set the event.           *)
WaitInv ==
  /\ thread = "burstWait" <=> waited # None
  /\ thread = "ack" => stateEvent
  /\ threadState = "WaitingBurstEnd" => sinceTrigger # None
  /\ thread = "burstWait" /\ ~stateEvent => sinceTrigger >= waited

Inv ==
  /\ TypeOK
  /\ BurstIsArmed
  /\ LifetimeInv
  /\ CallbackInv
  /\ WaitInv

-----------------------------------------------------------------------------
(* Ages stay in range when time passes, None and an older age included. *)
LEMMA OlderAge ==
  ASSUME NEW limit \in Nat, NEW age \in Ages(limit)
  PROVE  /\ Older(age, limit) \in Ages(limit)
         /\ Older(age, limit) = None <=> age = None
         /\ Older(age, limit) >= age
BY DEF Older, Ages, None

(* Of two ages with the same limit the older one stays the older one. *)
LEMMA OlderMonotone ==
  ASSUME NEW limit \in Nat, NEW age \in Ages(limit), NEW other \in Ages(limit),
         age # None, other # None, age >= other
  PROVE  Older(age, limit) >= Older(other, limit)
BY DEF Older, Ages, None

(* The durations a state holds are natural numbers, as the constructor's     *)
(* unsigned parameters are.                                                  *)
LEMMA SettingsAreNat == TypeOK => burstDuration \in Nat /\ interferenceInterval \in Nat
BY BurstGuardAssumption DEF TypeOK

-----------------------------------------------------------------------------
(* The inductive invariant holds before the constructor runs. *)
LEMMA InitEstablishesInv == Init => Inv
BY BurstGuardAssumption
   DEF Init, Inv, TypeOK, BurstIsArmed, LifetimeInv, CallbackInv, WaitInv, Unlocked,
       Ages, None, Lifetimes, ThreadStates, WorkerAt

(* Every step of the owner, of a caller, of the worker and of the clock      *)
(* keeps the inductive invariant.                                            *)
LEMMA NextKeepsInv == Inv /\ [Next]_vars => Inv'
<1> SUFFICES ASSUME Inv, [Next]_vars PROVE Inv'
  OBVIOUS
<1> USE SettingsAreNat
    DEF Inv, TypeOK, BurstIsArmed, LifetimeInv, CallbackInv, WaitInv, Ages, None,
        Lifetimes, ThreadStates, WorkerAt, SetEvent, Answer, BurstPending, WorkerGone,
        life, settings, signal, worker, history
<1>1. CASE CreateStateEvent
  BY <1>1 DEF CreateStateEvent
<1>2. CASE BeginThread
  BY <1>2 DEF BeginThread
<1>3. CASE BeginThreadFails
  BY <1>3 DEF BeginThreadFails
<1>4. CASE DestructorSignals
  BY <1>4 DEF DestructorSignals, Unlocked
<1>5. CASE DestructorFinishes
  BY <1>5 DEF DestructorFinishes
<1>6. ASSUME NEW c \in Callers, Trigger(c) PROVE Inv'
  BY <1>6 DEF Trigger, Enters, Unlocked, InterferenceDue, BurstStart, Requested
<1>7. ASSUME NEW c \in Callers, TriggerInterferes(c) PROVE Inv'
  BY <1>7 DEF TriggerInterferes, Enters, Unlocked, InterferenceDue, Requested
<1>8. ASSUME NEW c \in Callers, InterferenceReturns(c) PROVE Inv'
  BY <1>8 DEF InterferenceReturns
<1>9. ASSUME NEW c \in Callers, InterferenceThrows(c) PROVE Inv'
  BY <1>9 DEF InterferenceThrows
<1>10. CASE Wake
  BY <1>10 DEF Wake
<1>11. CASE Acknowledge
  <2>1. CASE threadState = "Sleeping"
    <3>1. thread' = "wait" /\ waited' = None
      BY <1>11, <2>1 DEF Acknowledge, Dispatch
    <3> QED
      BY <1>11, <2>1, <3>1 DEF Acknowledge
  <2>2. CASE threadState = "WaitingBurstEnd"
    <3>1. thread' = "burstWait" /\ waited' = 0
      BY <1>11, <2>2 DEF Acknowledge, Dispatch
    <3>2. object = "alive"
      BY <1>11, <2>2 DEF Acknowledge
    <3>3. 0 \in Ages(burstDuration) /\ sinceTrigger >= 0
      BY <2>2
    <3>4. TypeOK'
      BY <1>11, <3>1, <3>3 DEF Acknowledge
    <3>5. BurstIsArmed' /\ LifetimeInv' /\ CallbackInv'
      BY <1>11, <2>2, <3>1, <3>2 DEF Acknowledge
    <3>6. WaitInv'
      BY <1>11, <3>1, <3>3 DEF Acknowledge
    <3> QED
      BY <3>4, <3>5, <3>6
  <2>3. CASE threadState = "Exiting"
    <3>1. thread' = "exited" /\ waited' = None
      BY <1>11, <2>3 DEF Acknowledge, Dispatch
    <3> QED
      BY <1>11, <2>3, <3>1 DEF Acknowledge
  <2> QED
    BY <2>1, <2>2, <2>3
<1>12. CASE BurstExtended
  BY <1>12 DEF BurstExtended
<1>13. CASE BurstTimesOut
  BY <1>13 DEF BurstTimesOut
<1>14. CASE BurstEnd
  BY <1>14 DEF BurstEnd, Unlocked
<1>15. CASE CallbackReturns
  BY <1>15 DEF CallbackReturns
<1>16. CASE Tick
  <2>1. burstDuration' = burstDuration /\ interferenceInterval' = interferenceInterval
    BY <1>16 DEF Tick
  <2>2. TypeOK'
    BY <1>16, <2>1, OlderAge DEF Tick
  <2>3. oldest' = burstAge' /\ (oldest' = None <=> oldest = None)
    BY <1>16, OlderAge DEF Tick
  <2>4. waited' = None <=> waited = None
    BY <1>16, OlderAge DEF Tick
  <2>5. sinceTrigger' = None <=> sinceTrigger = None
    BY <1>16, OlderAge DEF Tick
  <2>6. thread = "burstWait" /\ ~stateEvent => sinceTrigger' >= waited'
    BY <1>16, OlderMonotone DEF Tick
  <2> QED
    BY <1>16, <2>1, <2>2, <2>3, <2>4, <2>5, <2>6 DEF Tick
<1>17. CASE UNCHANGED vars
  BY <1>17 DEF vars
<1> QED
  BY <1>1, <1>2, <1>3, <1>4, <1>5, <1>6, <1>7, <1>8, <1>9, <1>10, <1>11, <1>12,
     <1>13, <1>14, <1>15, <1>16, <1>17
     DEF Next, Owner, Worker, Calls

(* The inductive invariant holds in every reachable state. *)
THEOREM Invariance == Spec => []Inv
BY InitEstablishesInv, NextKeepsInv, PTL DEF Spec

(* Every variable has its type in every reachable state. *)
THEOREM TypeCorrect == Spec => []TypeOK
<1>1. Inv => TypeOK
  BY DEF Inv
<1> QED
  BY <1>1, Invariance, PTL

(* No wake-up of the worker is lost, for any number of callers. *)
THEOREM NoLostWakeUp == Spec => []BurstIsArmed
<1>1. Inv => BurstIsArmed
  BY DEF Inv
<1> QED
  BY <1>1, Invariance, PTL

(* The callback is run by one thread at a time, and for a pending burst.     *)
THEOREM CallbackAlone == Spec => []OneCallback
<1>1. Inv => OneCallback
  BY DEF Inv, TypeOK, BurstIsArmed, CallbackInv, OneCallback, Unlocked
<1> QED
  BY <1>1, Invariance, PTL

(* The worker never outlives the handles it uses, nor a callback the object. *)
THEOREM WorkerConfined == Spec => []NothingOutlivesObject
<1>1. Inv => NothingOutlivesObject
  BY DEF Inv, TypeOK, LifetimeInv, CallbackInv, NothingOutlivesObject, Unlocked, Lifetimes
<1> QED
  BY <1>1, Invariance, PTL

(* A burst is only taken for over after burstDuration without a trigger. *)
THEOREM QuietBeforeTimeout == Spec => TimeoutMeansQuiet
<1>1. Inv /\ [Next]_vars =>
        [thread = "burstWait" /\ thread' = "burstEnd" => sinceTrigger >= burstDuration]_vars
  <2> SUFFICES ASSUME Inv, Next, thread = "burstWait", thread' = "burstEnd"
               PROVE  sinceTrigger >= burstDuration
    BY DEF vars
  <2>1. BurstTimesOut
    BY DEF Next, Owner, Worker, Calls, CreateStateEvent, BeginThread, BeginThreadFails,
           DestructorSignals, DestructorFinishes, Trigger, TriggerInterferes,
           InterferenceReturns, InterferenceThrows, Wake, Acknowledge, Dispatch,
           BurstExtended, BurstEnd, CallbackReturns, Tick, signal, worker
  <2>2. sinceTrigger >= waited /\ waited >= burstDuration
    BY <2>1 DEF BurstTimesOut, Inv, WaitInv
  <2>3. sinceTrigger \in Int /\ waited \in Int /\ burstDuration \in Int
    BY SettingsAreNat DEF Inv, TypeOK, Ages, None
  <2> QED
    BY <2>2, <2>3
<1> QED
  BY <1>1, Invariance, PTL DEF Spec, TimeoutMeansQuiet

(* With interference enabled, no trigger() that returns normally leaves a    *)
(* trigger unanswered for longer than the interval.                          *)
THEOREM InterferenceBoundsDelay == Spec => InterferenceHonoured
<1> DEFINE Honoured ==
      \A c \in Callers :
        Trigger(c) \/ InterferenceReturns(c) =>
          interferenceInterval = 0 \/ oldest' < interferenceInterval
<1>1. Inv /\ [Next]_vars => [Honoured]_vars
  <2> SUFFICES ASSUME Inv, NEW c \in Callers, interferenceInterval # 0,
                      Trigger(c) \/ InterferenceReturns(c)
               PROVE  oldest' < interferenceInterval
    OBVIOUS
  <2>1. interferenceInterval \in Nat
    BY SettingsAreNat DEF Inv
  <2>2. CASE Trigger(c)
    BY <2>1, <2>2 DEF Inv, TypeOK, BurstIsArmed, Trigger, InterferenceDue, BurstStart,
                      Requested, Ages, None
  <2>3. CASE InterferenceReturns(c)
    BY <2>1, <2>3 DEF InterferenceReturns, Answer, None
  <2> QED
    BY <2>2, <2>3
<1> QED
  BY <1>1, Invariance, PTL DEF Spec, InterferenceHonoured

-----------------------------------------------------------------------------
(* BurstGuard implements Debounce: every step is one of Debounce's or leaves *)
(* its variables alone.                                                      *)
THEOREM Refinement == Spec => ImplementsDebounce
<1> USE DEF D!vars
<1>1. Init => D!Init
  BY DEF Init, D!Init, Unlocked, None
<1>2. Inv /\ [Next]_vars => [D!Next]_(D!vars)
  <2> SUFFICES ASSUME Inv, [Next]_vars PROVE [D!Next]_(D!vars)
    OBVIOUS
  <2> USE DEF Inv, TypeOK, Lifetimes, BurstIsArmed, CallbackInv, LifetimeInv, D!Next,
           BurstPending, WorkerGone, Answer, life, settings, signal, worker, history
  <2>1. CASE CreateStateEvent
    BY <2>1 DEF CreateStateEvent, D!GiveUp, Unlocked
  <2>2. CASE BeginThread
    BY <2>2 DEF BeginThread, D!Open, Unlocked
  <2>3. CASE BeginThreadFails
    BY <2>3 DEF BeginThreadFails, D!GiveUp, Unlocked
  <2>4. CASE DestructorSignals
    BY <2>4 DEF DestructorSignals, D!StartClosing, Unlocked
  <2>5. CASE DestructorFinishes
    BY <2>5 DEF DestructorFinishes, D!FinishClosing, Unlocked
  <2>6. ASSUME NEW c \in Callers, Trigger(c) PROVE [D!Next]_(D!vars)
    BY <2>6 DEF Trigger, Enters, Requested, D!Request, Unlocked, None
  <2>7. ASSUME NEW c \in Callers, TriggerInterferes(c) PROVE [D!Next]_(D!vars)
    BY <2>7 DEF TriggerInterferes, Enters, InterferenceDue, Requested, D!Begin, Unlocked, None
  <2>8. ASSUME NEW c \in Callers, InterferenceReturns(c) PROVE [D!Next]_(D!vars)
    BY <2>8 DEF InterferenceReturns, D!Complete, Unlocked, None
  <2>9. ASSUME NEW c \in Callers, InterferenceThrows(c) PROVE [D!Next]_(D!vars)
    BY <2>9 DEF InterferenceThrows, D!Fail, Unlocked, None
  <2>10. CASE Wake
    BY <2>10 DEF Wake, Unlocked
  <2>11. CASE Acknowledge
    BY <2>11 DEF Acknowledge, Dispatch, Unlocked
  <2>12. CASE BurstExtended
    BY <2>12 DEF BurstExtended, Unlocked
  <2>13. CASE BurstTimesOut
    BY <2>13 DEF BurstTimesOut, Unlocked
  <2>14. CASE BurstEnd
    BY <2>14 DEF BurstEnd, D!Begin, Unlocked
  <2>15. CASE CallbackReturns
    BY <2>15 DEF CallbackReturns, D!Complete, Unlocked
  <2>16. CASE Tick
    BY <2>16, SettingsAreNat, OlderAge DEF Tick, Unlocked
  <2>17. CASE UNCHANGED vars
    BY <2>17 DEF vars, Unlocked
  <2> QED
    BY <2>1, <2>2, <2>3, <2>4, <2>5, <2>6, <2>7, <2>8, <2>9, <2>10, <2>11, <2>12,
       <2>13, <2>14, <2>15, <2>16, <2>17
       DEF Next, Owner, Worker, Calls
<1> QED
  BY <1>1, <1>2, Invariance, PTL DEF Spec, ImplementsDebounce, D!Spec

=============================================================================
