--------------------------- MODULE SingleUseEvent ---------------------------
(***************************************************************************)
(* The one-shot event of runtime/detail/sync.hpp, on which every blocking  *)
(* wait of the runtime rests (drained pools, mutex hand-off, control       *)
(* tasks).                                                                 *)
(*                                                                         *)
(* A waiter checks the event, registers a node under waitersMutex_ and     *)
(* waits on its own signal: a promise on a native thread, a channel of     *)
(* capacity one in a coroutine.  A sender detaches the whole list under    *)
(* the mutex and then wakes and frees the nodes one by one.  A node holds  *)
(* its waiter's signal weakly, so one that gave up is skipped.             *)
(***************************************************************************)
EXTENDS Naturals, Sequences, SequencesExt, FiniteSets

CONSTANTS
  Senders,  \* calls of Send()
  Waiters,  \* calls of Wait() and WaitUntil()
  Async,    \* those made in a coroutine; the rest block a native thread
  Bounded   \* those with a deadline: WaitUntil, or AsyncWait(context)

ASSUME WaiterKinds == Async \subseteq Waiters /\ Bounded \subseteq Waiters

VARIABLES
  ready,    \* waiters_ == &readyMarker_
  waiters,  \* the list of registered nodes, newest first
  held,     \* the nodes each sender has detached and not yet freed
  sender,   \* where each Send() is
  waiter,   \* where each wait is
  signal,   \* waiters whose promise is set or whose channel holds a message
  expired,  \* bounded waiters whose deadline has passed
  result    \* what WaitUntil returned

vars == <<ready, waiters, held, sender, waiter, signal, expired, result>>

Init ==
  /\ ready = FALSE
  /\ waiters = <<>>
  /\ held = [s \in Senders |-> <<>>]
  /\ sender = [s \in Senders |-> "idle"]
  /\ waiter = [w \in Waiters |-> "idle"]
  /\ signal = {}
  /\ expired = {}
  /\ result = [w \in Waiters |-> "none"]

Return(w, r) ==
  /\ waiter' = [waiter EXCEPT ![w] = "returned"]
  /\ result' = [result EXCEPT ![w] = r]

-----------------------------------------------------------------------------
(* The first IsReady() of a wait.                                          *)
Check(w) ==
  /\ waiter[w] = "idle"
  /\ IF ready THEN Return(w, "ready")
     ELSE waiter' = [waiter EXCEPT ![w] = "checked"] /\ UNCHANGED result
  /\ UNCHANGED <<ready, waiters, held, sender, signal, expired>>

(* A coroutine whose context has expired does not register.                *)
AlreadyExpired(w) ==
  /\ waiter[w] = "checked"
  /\ w \in Async \cap expired
  /\ waiter' = [waiter EXCEPT ![w] = "woken"]
  /\ UNCHANGED <<ready, waiters, held, sender, signal, expired, result>>

(* Register: the marker is tested again under the mutex.                   *)
Register(w) ==
  /\ waiter[w] = "checked"
  /\ IF ready
     THEN Return(w, "ready") /\ UNCHANGED waiters
     ELSE /\ waiters' = <<w>> \o waiters
          /\ waiter' = [waiter EXCEPT ![w] = "waiting"]
          /\ UNCHANGED result
  /\ UNCHANGED <<ready, held, sender, signal, expired>>

(* The deadline passes.                                                    *)
Expire(w) ==
  /\ w \in Bounded \ expired
  /\ waiter[w] # "returned"
  /\ expired' = expired \cup {w}
  /\ UNCHANGED <<ready, waiters, held, sender, waiter, signal, result>>

(* Fault: the timer fires for a ready event only.                          *)
TimerFiresReady(w) ==
  /\ waiter[w] = "waiting"
  /\ w \in Async \cap expired
  /\ ready
  /\ signal' = signal \cup {w}
  /\ UNCHANGED <<ready, waiters, held, sender, waiter, expired, result>>

(* The timer of a waiting coroutine sends to its channel.                  *)
TimerFires(w) ==
  /\ waiter[w] = "waiting"
  /\ w \in Async \cap expired
  /\ signal' = signal \cup {w}
  /\ UNCHANGED <<ready, waiters, held, sender, waiter, expired, result>>

(* The coroutine receives, or the native wait ends: a set future answers   *)
(* at once, a timed-out one and a bounded coroutine ask IsReady() again.   *)
Wake(w) ==
  /\ waiter[w] = "waiting"
  /\ \/ /\ w \in signal
        /\ IF w \in Async \cap Bounded
           THEN waiter' = [waiter EXCEPT ![w] = "woken"] /\ UNCHANGED result
           ELSE Return(w, "ready")
     \/ /\ w \in expired \ Async
        /\ waiter' = [waiter EXCEPT ![w] = "woken"]
        /\ UNCHANGED result
  /\ UNCHANGED <<ready, waiters, held, sender, signal, expired>>

(* Fault: a wait that was woken is taken for a wait that was notified.     *)
RecheckNot(w) ==
  /\ waiter[w] = "woken"
  /\ Return(w, "ready")
  /\ UNCHANGED <<ready, waiters, held, sender, signal, expired>>

Recheck(w) ==
  /\ waiter[w] = "woken"
  /\ Return(w, IF ready THEN "ready" ELSE "timeout")
  /\ UNCHANGED <<ready, waiters, held, sender, signal, expired>>

-----------------------------------------------------------------------------
(* Fault: Send() takes the list but leaves it where it was.                *)
DetachCopy(s) ==
  /\ sender[s] = "idle"
  /\ sender' = [sender EXCEPT ![s] = "waking"]
  /\ held' = [held EXCEPT ![s] = waiters]
  /\ ready' = TRUE
  /\ UNCHANGED <<waiters, waiter, signal, expired, result>>

(* Send: the list is exchanged for the ready marker.                       *)
Detach(s) ==
  /\ sender[s] = "idle"
  /\ sender' = [sender EXCEPT ![s] = "waking"]
  /\ held' = [held EXCEPT ![s] = waiters]
  /\ waiters' = <<>>
  /\ ready' = TRUE
  /\ UNCHANGED <<waiter, signal, expired, result>>

(* Send: the next node is woken, if its signal still exists, and freed.    *)
Notify(s) ==
  /\ sender[s] = "waking"
  /\ IF held[s] = <<>>
     THEN sender' = [sender EXCEPT ![s] = "sent"] /\ UNCHANGED <<held, signal>>
     ELSE /\ held' = [held EXCEPT ![s] = Tail(@)]
          /\ signal' = IF waiter[Head(held[s])] = "waiting"
                       THEN signal \cup {Head(held[s])} ELSE signal
          /\ UNCHANGED sender
  /\ UNCHANGED <<ready, waiters, waiter, expired, result>>

Waiting(w) == Check(w) \/ AlreadyExpired(w) \/ Register(w) \/ TimerFires(w)
              \/ Wake(w) \/ Recheck(w)
Send(s) == Detach(s) \/ Notify(s)

Next ==
  \/ \E w \in Waiters : Waiting(w) \/ Expire(w)
  \/ \E s \in Senders : Send(s)

Spec == Init /\ [][Next]_vars

(* Threads and coroutines that can go on do, and timers fire.              *)
FairSpec ==
  /\ Spec
  /\ \A w \in Waiters : WF_vars(Waiting(w)) /\ WF_vars(Expire(w))
  /\ \A s \in Senders : WF_vars(Notify(s))

-----------------------------------------------------------------------------
(* Types of the event, its waiters and its senders.                        *)
TypeOK ==
  /\ ready \in BOOLEAN
  /\ waiters \in Seq(Waiters)
  /\ held \in [Senders -> Seq(Waiters)]
  /\ sender \in [Senders -> {"idle", "waking", "sent"}]
  /\ waiter \in [Waiters -> {"idle", "checked", "waiting", "woken", "returned"}]
  /\ signal \in SUBSET Waiters /\ expired \in SUBSET Bounded
  /\ result \in [Waiters -> {"none", "ready", "timeout"}]

(* A wait never reports an event that was not sent: Wait() returns, and    *)
(* WaitUntil() returns true, only after Send(); false only after the       *)
(* deadline.                                                               *)
Truthful ==
  \A w \in Waiters :
    /\ result[w] = "ready" => ready
    /\ result[w] = "timeout" => w \in expired

(* A node is in one place: it is freed once, by the sender that detached   *)
(* it, and none is left registered when the event is ready.                *)
OneOwner ==
  /\ ready => waiters = <<>>
  /\ IsInjective(waiters)
  /\ \A s \in Senders : IsInjective(held[s])
  /\ \A s, r \in Senders : s # r => ToSet(held[s]) \cap ToSet(held[r]) = {}

(* Once the event is sent every wait returns; a bounded one always does.   *)
WaitersReturn ==
  /\ \A w \in Waiters : (ready /\ waiter[w] # "idle") ~> waiter[w] = "returned"
  /\ \A w \in Bounded : waiter[w] # "idle" ~> waiter[w] = "returned"
=============================================================================
