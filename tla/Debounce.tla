------------------------------ MODULE Debounce ------------------------------
(* What a BurstGuard promises, without threads, events or time: requests are *)
(* remembered until a callback that ran to its end has answered them all.    *)
(* BurstGuard.tla implements this specification.                             *)

VARIABLES
  phase,    \* "new", "open", "closing" or "closed"
  pending,  \* a request has been made that no finished callback has answered
  running   \* the callback is being executed

vars == <<phase, pending, running>>

Init == phase = "new" /\ pending = FALSE /\ running = FALSE

Open ==
  /\ phase = "new"
  /\ phase' = "open"
  /\ UNCHANGED <<pending, running>>

GiveUp ==
  /\ phase = "new"
  /\ phase' = "closed"
  /\ UNCHANGED <<pending, running>>

Request ==
  /\ phase = "open"
  /\ ~running
  /\ pending' = TRUE
  /\ UNCHANGED <<phase, running>>

(* A callback starts only to answer a request, and never beside another one. *)
Begin ==
  /\ phase \in {"open", "closing"}
  /\ pending
  /\ ~running
  /\ running' = TRUE
  /\ UNCHANGED <<phase, pending>>

Complete ==
  /\ running
  /\ running' = FALSE
  /\ pending' = FALSE
  /\ UNCHANGED phase

(* A callback that throws has answered nothing. *)
Fail ==
  /\ running
  /\ running' = FALSE
  /\ UNCHANGED <<phase, pending>>

StartClosing ==
  /\ phase = "open"
  /\ ~running
  /\ phase' = "closing"
  /\ UNCHANGED <<pending, running>>

(* Closing does not answer what is still pending, it only waits for a        *)
(* callback that is running.                                                 *)
FinishClosing ==
  /\ phase = "closing"
  /\ ~running
  /\ phase' = "closed"
  /\ UNCHANGED <<pending, running>>

Next ==
  \/ Open \/ GiveUp \/ Request \/ Begin \/ Complete \/ Fail
  \/ StartClosing \/ FinishClosing

Spec == Init /\ [][Next]_vars

=============================================================================
