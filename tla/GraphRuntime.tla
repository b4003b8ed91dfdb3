---------------------------- MODULE GraphRuntime ----------------------------
(***************************************************************************)
(* The work accounting of StreamExecutionEnvironment (runtime/            *)
(* environment.hpp): the counters of input invocations and of parallel     *)
(* graph operations, and the drain that waits for both to reach zero.      *)
(*                                                                         *)
(* Every section under parallelMutex_ is one step.  The event of a drain   *)
(* is created under the mutex, taken by the operation that brings the      *)
(* counters to zero, and sent by it after it has unlocked.  Events are     *)
(* numbered; a number is reused once nothing refers to the event, as the   *)
(* shared_ptr releases it.                                                 *)
(***************************************************************************)
EXTENDS Naturals, FiniteSets

CONSTANT MaxInputInvocations   \* kMaxInputInvocations

VARIABLES
  runtime,           \* activeRuntime_: "none", "active" or "released"
  inputInvocations,  \* inputInvocations_
  inputClosed,       \* inputClosed_
  parallelActive,    \* parallelActive_
  parallelAccepting, \* parallelAccepting_
  parallelDrained,   \* parallelDrained_: an event, or NoEvent
  notification,      \* the event the drain waits for, or NoEvent
  sending,           \* events taken by finished work and not sent yet
  sent               \* events that have been sent

counters == <<inputInvocations, inputClosed, parallelActive, parallelAccepting>>

events == <<parallelDrained, notification, sending, sent>>

graphVars == <<runtime, counters, events>>

NoEvent == 0

(* One in use, one abandoned by each of the two bounded drains of a stop,  *)
(* and one more.                                                           *)
Events == 1..4

GraphTypeOK ==
  /\ runtime \in {"none", "active", "released"}
  /\ inputInvocations \in 0..MaxInputInvocations
  /\ parallelActive \in Nat
  /\ inputClosed \in BOOLEAN /\ parallelAccepting \in BOOLEAN
  /\ parallelDrained \in Events \cup {NoEvent}
  /\ notification \in Events \cup {NoEvent}
  /\ sending \subseteq Events /\ sent \subseteq Events

GraphInit ==
  /\ runtime = "none"
  /\ inputInvocations = 0
  /\ inputClosed = FALSE
  /\ parallelActive = 0
  /\ parallelAccepting = FALSE
  /\ parallelDrained = NoEvent
  /\ notification = NoEvent
  /\ sending = {}
  /\ sent = {}

isDrained == inputInvocations = 0 /\ parallelActive = 0

startExecutionRuntime ==
  /\ runtime # "active"
  /\ parallelActive = 0
  /\ inputInvocations' = 0
  /\ inputClosed' = FALSE
  /\ parallelAccepting' = TRUE
  /\ runtime' = "active"
  /\ UNCHANGED <<parallelActive, events>>

-----------------------------------------------------------------------------
(* Work: an invocation or an operation that is refused throws and changes  *)
(* nothing.                                                                *)

beginInputInvocation ==
  /\ ~inputClosed
  /\ inputInvocations < MaxInputInvocations
  /\ inputInvocations' = inputInvocations + 1
  /\ UNCHANGED <<runtime, inputClosed, parallelActive, parallelAccepting, events>>

parallel ==
  /\ parallelAccepting
  /\ parallelActive' = parallelActive + 1
  /\ UNCHANGED <<runtime, inputInvocations, inputClosed, parallelAccepting, events>>

(* The work that brings both counters to zero takes the event out.         *)
TakeDrained ==
  IF isDrained' /\ parallelDrained # NoEvent
  THEN /\ sending' = sending \cup {parallelDrained}
       /\ parallelDrained' = NoEvent
  ELSE UNCHANGED <<sending, parallelDrained>>

finishInputInvocation ==
  /\ inputInvocations > 0
  /\ inputInvocations' = inputInvocations - 1
  /\ UNCHANGED <<runtime, inputClosed, parallelActive, parallelAccepting>>
  /\ TakeDrained
  /\ UNCHANGED <<notification, sent>>

finishParallelInvocation ==
  /\ parallelActive > 0
  /\ parallelActive' = parallelActive - 1
  /\ UNCHANGED <<runtime, inputInvocations, inputClosed, parallelAccepting>>
  /\ TakeDrained
  /\ UNCHANGED <<notification, sent>>

(* notification->Send(), after the mutex has been released.  An event that *)
(* nothing refers to any longer is forgotten.                              *)
SendDrained(e) ==
  /\ e \in sending
  /\ sending' = sending \ {e}
  /\ sent' = (sent \cup {e}) \cap {notification, parallelDrained}
  /\ UNCHANGED <<runtime, counters, parallelDrained, notification>>

-----------------------------------------------------------------------------
(* drainExecutionRuntime.  Draining closes the inputs and ends the drain   *)
(* when nothing is left; otherwise it makes sure that there is an event    *)
(* and waits for it.                                                       *)
FreshEvent ==
  CHOOSE e \in Events : e \notin {parallelDrained, notification} \cup sending

DrainEnds ==
  /\ notification = NoEvent
  /\ isDrained
  /\ inputClosed' = TRUE
  /\ UNCHANGED <<runtime, inputInvocations, parallelActive, parallelAccepting, events>>

DrainWaits ==
  /\ notification = NoEvent
  /\ ~isDrained
  /\ inputClosed' = TRUE
  /\ parallelDrained' = IF parallelDrained = NoEvent THEN FreshEvent ELSE parallelDrained
  /\ notification' = parallelDrained'
  /\ UNCHANGED <<runtime, inputInvocations, parallelActive, parallelAccepting, sending, sent>>

(* The event has been sent and the context still stands: look again.       *)
DrainWakes ==
  /\ notification \in sent
  /\ notification' = NoEvent
  /\ sent' = sent \cap {parallelDrained}
  /\ UNCHANGED <<runtime, counters, parallelDrained, sending>>

(* The context is cancelled: the drain withdraws its event.                *)
DrainGivesUp ==
  /\ notification # NoEvent
  /\ notification' = NoEvent
  /\ parallelDrained' = IF parallelDrained = notification THEN NoEvent ELSE parallelDrained
  /\ sent' = {}
  /\ UNCHANGED <<runtime, counters, sending>>

(* stopExecutionRuntime, once its drain has ended: admission closes and    *)
(* the streams and callers are released.                                   *)
ReleaseRuntime ==
  /\ parallelAccepting' = FALSE
  /\ runtime' = "released"
  /\ UNCHANGED <<inputInvocations, inputClosed, parallelActive, events>>
=============================================================================
