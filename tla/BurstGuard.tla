----------------------------- MODULE BurstGuard -----------------------------
(* common::BurstGuard (libcommon/burstguard.{h,cpp}): trigger() is called by *)
(* any thread, and a callback is run once a burst of triggers has ended, or, *)
(* when interference is enabled, by the trigger that finds the burst too old.*)
(*                                                                           *)
(* Three kinds of actors: the worker thread, the threads that call trigger() *)
(* and the owner, who constructs and destroys the object.                    *)
(*                                                                           *)
(* m_mutex. Every critical section is one action, because everything it      *)
(* touches but m_stateEvent is only touched under the mutex and it touches   *)
(* the event once. The exception is a critical section that runs m_callback: *)
(* it is left and entered by separate actions, and the mutex is held for as  *)
(* long as the callback runs.                                                *)
(*                                                                           *)
(* Time. The code only compares durations with the two constructor           *)
(* arguments, so the model keeps ages instead of timestamps, each counted in *)
(* clock steps up to the value it is compared with.                          *)
EXTENDS Integers

CONSTANTS
  Callers,    \* the threads that may call trigger()
  Durations,  \* values of the constructor's burstDuration
  Intervals   \* values of the constructor's interferenceInterval, 0: disabled

ASSUME BurstGuardAssumption == Durations \subseteq Nat /\ Intervals \subseteq Nat

VARIABLES
  object,                \* where the object is in its life
  handles,               \* the kernel handles the object holds open
  burstDuration,         \* m_burstDuration
  interferenceInterval,  \* m_interferenceInterval
  burstAge,              \* time since m_timestampBurstStart, None if that is 0
  threadState,           \* m_threadState
  stateEvent,            \* whether the manual-reset m_stateEvent is signalled
  thread,                \* what the worker thread is doing
  waited,                \* time the worker has waited for the burst to end
  caller,                \* "calling" for a thread whose trigger() runs m_callback
  \* History, read by properties only:
  oldest,                \* age of the oldest unanswered trigger(), None if none
  sinceTrigger           \* time since a trigger() started or extended a burst

life == <<object, handles>>
settings == <<burstDuration, interferenceInterval>>
signal == <<threadState, stateEvent>>
worker == <<thread, waited>>
history == <<oldest, sinceTrigger>>
vars == <<life, settings, burstAge, signal, worker, caller, history>>

None == -1
ThreadStates == {"Sleeping", "WaitingBurstEnd", "Exiting"}

(* "wait": line 90. "ack": ack_and_process. "burstWait": line 117.           *)
(* "burstEnd": about to lock at line 127. "calling": running m_callback.     *)
WorkerAt == {"none", "wait", "ack", "burstWait", "burstEnd", "calling", "exited"}
Lifetimes == {"absent", "starting", "failed", "alive", "destroying", "destroyed"}
Ages(limit) == {None} \cup 0 .. limit

TypeOK ==
  /\ object \in Lifetimes
  /\ handles \subseteq {"event", "thread"}
  /\ burstDuration \in Durations /\ interferenceInterval \in Intervals
  /\ burstAge \in Ages(interferenceInterval)
  /\ threadState \in ThreadStates
  /\ stateEvent \in BOOLEAN
  /\ thread \in WorkerAt
  /\ waited \in Ages(burstDuration)
  /\ caller \in [Callers -> {"idle", "calling"}]
  /\ oldest \in Ages(interferenceInterval)
  /\ sinceTrigger \in Ages(burstDuration)

-----------------------------------------------------------------------------
(* Helpers. An operator marked "Fault" is a plausible bug in the definition  *)
(* that follows it: the check puts it in that definition's place to see the  *)
(* properties catch it. No action of the specification uses one.             *)

Unlocked == thread # "calling" /\ \A c \in Callers : caller[c] # "calling"

(* Fault: nothing is set. Fault: only the first trigger of a burst sets it. *)
SetNothing == UNCHANGED stateEvent
SetOncePerBurst == stateEvent' = (burstAge = None \/ stateEvent)
SetEvent == stateEvent' = TRUE

(* Fault: an interval that has just elapsed is not long enough. *)
InterferenceDueLate == interferenceInterval # 0 /\ burstAge > interferenceInterval
InterferenceDue ==
  burstAge # None /\ interferenceInterval # 0 /\ burstAge >= interferenceInterval

(* Fault: every trigger moves the start of the burst. *)
BurstStartMoved(age) == 0
BurstStart(age) == IF age = None THEN 0 ELSE age

(* Fault: the worker does not look whether the burst is still there. *)
BurstAssumed == TRUE
BurstPending == burstAge # None

(* A callback has answered every trigger there was.                          *)
(* Fault: m_timestampBurstStart is not cleared.                              *)
AnswerKeepingBurst == UNCHANGED burstAge /\ oldest' = None
Answer == burstAge' = None /\ oldest' = None

(* What the worker does with the state it has read at ack_and_process. *)
Dispatch(state) ==
  IF state = "Sleeping" THEN "wait"
  ELSE IF state = "Exiting" THEN "exited" ELSE "burstWait"

(* Fault: the destructor does not wait for the worker. *)
WorkerIgnored == TRUE
WorkerGone == thread = "exited"

Older(age, limit) == IF age \in {None, limit} THEN age ELSE age + 1

-----------------------------------------------------------------------------
(* The owner: constructor and destructor.                                    *)

Init ==
  /\ object = "absent" /\ handles = {}
  /\ burstDuration \in Durations /\ interferenceInterval \in Intervals
  /\ burstAge = None /\ threadState = "Sleeping" /\ stateEvent = FALSE
  /\ thread = "none" /\ waited = None
  /\ caller = [c \in Callers |-> "idle"]
  /\ oldest = None /\ sinceTrigger = None

CreateStateEvent ==
  /\ object = "absent"
  /\ \/ object' = "starting" /\ handles' = {"event"}
     \/ object' = "failed" /\ handles' = handles
  /\ UNCHANGED <<settings, burstAge, signal, worker, caller, history>>

BeginThread ==
  /\ object = "starting"
  /\ object' = "alive" /\ handles' = handles \cup {"thread"} /\ thread' = "wait"
  /\ UNCHANGED <<settings, burstAge, signal, waited, caller, history>>

BeginThreadFails ==
  /\ object = "starting"
  /\ object' = "failed" /\ handles' = handles \ {"event"}
  /\ UNCHANGED <<settings, burstAge, signal, worker, caller, history>>

(* An object is destroyed once no member function of it is being executed.   *)
DestructorSignals ==
  /\ object = "alive" /\ Unlocked
  /\ object' = "destroying"
  /\ threadState' = "Exiting" /\ SetEvent
  /\ UNCHANGED <<handles, settings, burstAge, worker, caller, history>>

DestructorFinishes ==
  /\ object = "destroying" /\ WorkerGone
  /\ object' = "destroyed" /\ handles' = {}
  /\ UNCHANGED <<settings, burstAge, signal, worker, caller, history>>

-----------------------------------------------------------------------------
(* The threads that call trigger().                                          *)

(* Fault: trigger() does not lock. *)
EntersUnlocked(c) == object = "alive" /\ caller[c] = "idle"
Enters(c) == object = "alive" /\ caller[c] = "idle" /\ Unlocked

Requested == oldest' = IF oldest = None THEN 0 ELSE oldest

(* A trigger that starts a burst or extends it. *)
Trigger(c) ==
  /\ Enters(c) /\ ~InterferenceDue
  /\ burstAge' = BurstStart(burstAge)
  /\ threadState' = "WaitingBurstEnd" /\ SetEvent
  /\ Requested /\ sinceTrigger' = 0
  /\ UNCHANGED <<life, settings, worker, caller>>

(* A trigger that finds the burst too old runs the callback itself. *)
TriggerInterferes(c) ==
  /\ Enters(c) /\ InterferenceDue
  /\ caller' = [caller EXCEPT ![c] = "calling"]
  /\ Requested
  /\ UNCHANGED <<life, settings, burstAge, signal, worker, sinceTrigger>>

InterferenceReturns(c) ==
  /\ caller[c] = "calling"
  /\ caller' = [caller EXCEPT ![c] = "idle"]
  /\ Answer
  /\ threadState' = "Sleeping" /\ SetEvent
  /\ UNCHANGED <<life, settings, worker, sinceTrigger>>

(* The exception leaves trigger(), whose lock releases the mutex. *)
InterferenceThrows(c) ==
  /\ caller[c] = "calling"
  /\ caller' = [caller EXCEPT ![c] = "idle"]
  /\ UNCHANGED <<life, settings, burstAge, signal, worker, history>>

-----------------------------------------------------------------------------
(* The worker thread. *)

Wake ==
  /\ thread = "wait" /\ stateEvent
  /\ thread' = "ack"
  /\ UNCHANGED <<life, settings, burstAge, signal, waited, caller, history>>

Acknowledge ==
  /\ thread = "ack" /\ Unlocked
  /\ stateEvent' = FALSE
  /\ thread' = Dispatch(threadState)
  /\ waited' = IF thread' = "burstWait" THEN 0 ELSE None
  /\ UNCHANGED <<life, settings, burstAge, threadState, caller, history>>

BurstExtended ==
  /\ thread = "burstWait" /\ stateEvent
  /\ thread' = "ack" /\ waited' = None
  /\ UNCHANGED <<life, settings, burstAge, signal, caller, history>>

BurstTimesOut ==
  /\ thread = "burstWait" /\ ~stateEvent /\ waited >= burstDuration
  /\ thread' = "burstEnd" /\ waited' = None
  /\ UNCHANGED <<life, settings, burstAge, signal, caller, history>>

BurstEnd ==
  /\ thread = "burstEnd" /\ Unlocked
  /\ thread' = IF BurstPending THEN "calling" ELSE "wait"
  /\ UNCHANGED <<life, settings, burstAge, signal, waited, caller, history>>

CallbackReturns ==
  /\ thread = "calling"
  /\ thread' = "wait"
  /\ Answer
  /\ UNCHANGED <<life, settings, signal, waited, caller, sinceTrigger>>

-----------------------------------------------------------------------------
Tick ==
  /\ object \in {"alive", "destroying"}
  /\ burstAge' = Older(burstAge, interferenceInterval)
  /\ oldest' = Older(oldest, interferenceInterval)
  /\ waited' = Older(waited, burstDuration)
  /\ sinceTrigger' = Older(sinceTrigger, burstDuration)
  /\ UNCHANGED <<life, settings, signal, thread, caller>>

Owner ==
  \/ CreateStateEvent \/ BeginThread \/ BeginThreadFails
  \/ DestructorSignals \/ DestructorFinishes

Worker ==
  \/ Wake \/ Acknowledge \/ BurstExtended \/ BurstTimesOut \/ BurstEnd
  \/ CallbackReturns

Calls(c) ==
  \/ Trigger(c) \/ TriggerInterferes(c)
  \/ InterferenceReturns(c) \/ InterferenceThrows(c)

Next == Owner \/ Worker \/ Tick \/ \E c \in Callers : Calls(c)

Spec == Init /\ [][Next]_vars

(* Time passes, the worker is scheduled and gets the mutex when it is free,  *)
(* a destructor that has begun goes on, and a callback comes to an end. A    *)
(* callback that is run over and over does not throw for ever. Nobody has to *)
(* call trigger() or to destroy the object.                                  *)
Fairness ==
  /\ WF_vars(Tick)
  /\ WF_vars(Worker)
  /\ WF_vars(DestructorFinishes)
  /\ \A c \in Callers :
       /\ WF_vars(InterferenceReturns(c) \/ InterferenceThrows(c))
       /\ SF_vars(InterferenceReturns(c))

FairSpec == Spec /\ Fairness

-----------------------------------------------------------------------------
(* What the code promises. *)

(* No wake-up is lost: m_timestampBurstStart is set exactly while a trigger  *)
(* is unanswered, and then the worker is on its way to the end of the burst, *)
(* or will be woken up to go there; once the destructor has begun, the       *)
(* worker is on its way out or will be woken up to leave.                    *)
(* (burstguard.cpp:75-76, 99-100, 129-132)                                   *)
BurstIsArmed ==
  /\ burstAge = oldest
  /\ object = "alive" /\ oldest # None =>
       /\ threadState = "WaitingBurstEnd"
       /\ thread \in {"wait", "ack"} => stateEvent
  /\ object = "destroying" =>
       /\ threadState = "Exiting"
       /\ stateEvent \/ thread = "exited"

(* The callback is run by one thread at a time, be it the worker or a        *)
(* trigger() that interferes, and always for a burst that no other thread    *)
(* has answered since the worker's wait timed out or the trigger found the   *)
(* burst too old. (burstguard.cpp:51, 62-65, 127-132)                        *)
OneCallback ==
  /\ thread = "calling" => \A c \in Callers : caller[c] = "idle"
  /\ \A c, d \in Callers : caller[c] = "calling" /\ caller[d] = "calling" => c = d
  /\ ~Unlocked => burstAge # None

(* The worker never uses a handle, the mutex or the callback of an object    *)
(* that is gone: both handles are open while it runs and when they are       *)
(* closed it has left and nobody runs the callback; a constructor that fails *)
(* leaves no handle open. (burstguard.cpp:16-31, 43-46)                      *)
NothingOutlivesObject ==
  /\ thread \notin {"none", "exited"} => handles = {"event", "thread"}
  /\ object \in {"failed", "destroyed"} => handles = {} /\ Unlocked
  /\ handles = {} => thread \in {"none", "exited"}

(* The worker decides that a burst has ended only when no trigger() has      *)
(* extended it for burstDuration, however waits and triggers interleave. (A  *)
(* trigger that runs the callback itself extends nothing, even if it throws.)*)
(* (burstguard.cpp:75-76, 99, 117)                                           *)
TimeoutMeansQuiet ==
  [][thread = "burstWait" /\ thread' = "burstEnd" => sinceTrigger >= burstDuration]_vars

(* A trigger() that returns normally leaves no trigger unanswered for        *)
(* interferenceInterval or longer, unless interference is disabled.          *)
(* (burstguard.cpp:55-69)                                                    *)
InterferenceHonoured ==
  [][\A c \in Callers :
       Trigger(c) \/ InterferenceReturns(c) =>
         interferenceInterval = 0 \/ oldest' < interferenceInterval]_vars

(* A callback runs only to answer a trigger, one at a time, holding back     *)
(* triggers and destructor until it returns; a callback that throws in       *)
(* trigger() leaves what it should have answered pending.                    *)
(* (burstguard.cpp:36-43, 51, 62-63, 127-132)                                *)
D == INSTANCE Debounce WITH
  phase <- CASE object \in {"absent", "starting"} -> "new"
             [] object = "alive" -> "open"
             [] object = "destroying" -> "closing"
             [] object \in {"failed", "destroyed"} -> "closed",
  pending <- oldest # None,
  running <- ~Unlocked
ImplementsDebounce == D!Spec

(* Every trigger() is answered by a callback unless the object is destroyed  *)
(* first, or unless interference is disabled and triggers never stop coming. *)
(* (burstguard.cpp:49-136)                                                   *)
EveryTriggerAnswered ==
  \/ oldest # None ~> (oldest = None \/ object # "alive")
  \/ interferenceInterval = 0 /\ []<><<\E c \in Callers : Trigger(c)>>_vars

(* The destructor returns. (burstguard.cpp:34-47) *)
DestructorReturns == object = "destroying" ~> object = "destroyed"

(* burstguard.h:18:  "Requests to trigger the callback are clumped together  *)
(* if occuring within this timeframe." That is, a trigger that comes within  *)
(* burstDuration of the one before finds that one still unanswered. The code *)
(* does not keep this: a trigger between the time-out at burstguard.cpp:117  *)
(* and the lock at line 127 is answered at once, alone.                      *)
ClumpedTogether ==
  [][(\E c \in Callers : Trigger(c)) /\ sinceTrigger \in 0 .. burstDuration - 1
       => oldest # None]_vars

=============================================================================
