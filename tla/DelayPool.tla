----------------------------- MODULE DelayPool ------------------------------
(***************************************************************************)
(* The delay pool of runtime/pool/delaypool.hpp: delay(ctx, d, fn) runs fn *)
(* once, after d, or earlier when ctx is cancelled or expires.             *)
(*                                                                         *)
(* `activity' is guarded by activityMutex; the timer queue (`timers') and  *)
(* the one asio timer (`timer') are confined to a strand, whose posted     *)
(* handlers are `strand'.  Callers, cancellation callbacks, the timer and  *)
(* the coroutines that execute the tasks interleave with the strand.       *)
(*                                                                         *)
(* Time is 0..MaxTime; Never stands for time_point::max(), to which        *)
(* saturatedAdd saturates, and for an absent time point.                   *)
(***************************************************************************)
EXTENDS Integers, Sequences, FiniteSets, SequencesExt

CONSTANTS
  Tasks,            \* the calls of delay
  Cancellable,      \* those whose context holds a stop token
  Failing,          \* those whose post to the strand may throw
  SelfStoppers,     \* those whose function calls stop() on this pool
  Stoppers,         \* calls of stop() from outside the pool
  Delays,           \* delays asked for; non-positive ones run at once
  kMaxActiveTasks,  \* capacity of the activity counter
  Batch,            \* tasks one timer handler dispatches (64 in the code)
  MaxTime

ASSUME DelayTasks ==
  /\ IsFiniteSet(Tasks)
  /\ Cancellable \subseteq Tasks /\ Failing \subseteq Tasks
  /\ SelfStoppers \subseteq Tasks /\ Tasks \cap Stoppers = {}
ASSUME DelayBounds ==
  /\ kMaxActiveTasks \in Nat \ {0} /\ Batch \in Nat \ {0} /\ MaxTime \in Nat
  /\ Delays \subseteq Int

Never == MaxTime + 1
Times == 0..Never
Callers == Stoppers \cup SelfStoppers
Actors == Tasks \cup Callers

VARIABLES
  activity,  \* under activityMutex: closed, active, signalled (drainSignalled)
  drained,   \* the SingleUseEvent has been sent
  signal,    \* who is inside signalDrained: before its mutex, before Send
  timers,    \* tasks in the timer queue
  timer,     \* armedAt, generation, and whether its wait is pending
  strand,    \* handlers posted to the strand and not yet run
  phase,     \* where each task is
  spawned,   \* how often each task was given to the executor
  runAt,     \* when each task is due
  watched,   \* tasks whose cancellation callbacks are registered
  cancelled, \* tasks whose cancelRequested is set
  stopper,   \* where each call of stop() is
  now

vars == <<activity, drained, signal, timers, timer, strand, phase, spawned,
          runAt, watched, cancelled, stopper, now>>

Phases == {"idle", "registered", "admitted", "posted", "queued", "spawned",
           "running", "returned", "unposted", "done", "rejected"}

\* Tasks the pool has accepted and not retired: what `active' counts.
Accepted == {"admitted", "posted", "queued", "spawned", "running", "returned",
             "unposted"}
Outstanding == {t \in Tasks : phase[t] \in Accepted}

Init ==
  /\ activity = [closed |-> FALSE, active |-> 0, signalled |-> FALSE]
  /\ drained = FALSE
  /\ signal = [a \in Actors |-> "no"]
  /\ timers = {}
  /\ timer = [armedAt |-> Never, generation |-> 0, waiting |-> FALSE]
  /\ strand = <<>>
  /\ phase = [t \in Tasks |-> "idle"]
  /\ spawned = [t \in Tasks |-> 0]
  /\ runAt = [t \in Tasks |-> Never]
  /\ watched = {}
  /\ cancelled = {}
  /\ stopper = [c \in Callers |-> "idle"]
  /\ now = 0

-----------------------------------------------------------------------------
(* now + duration without overflow.                                        *)
saturatedAdd(n, duration) ==
  IF duration <= 0 THEN n
  ELSE IF duration >= Never - n THEN Never ELSE n + duration

(* Gives the tasks of S to the executor, each as a coroutine of its own.   *)
(* Only the first coroutine of a task gets past the `claimed' exchange: it *)
(* leaves phase "spawned", any other finds the task past it and returns.   *)
dispatch(S) ==
  /\ phase' = [t \in Tasks |-> IF t \in S /\ phase[t] \in {"posted", "queued"}
                               THEN "spawned" ELSE phase[t]]
  /\ spawned' = [t \in Tasks |-> spawned[t] + IF t \in S THEN 1 ELSE 0]

(* The tasks the timer handler takes: due ones, earliest first, at most a  *)
(* batch; equal times in either order.                                     *)
IsBatch(S, due) ==
  /\ S \subseteq due
  /\ Cardinality(S) = Min({Batch, Cardinality(due)})
  /\ \A x \in S, y \in due \ S : runAt[x] <= runAt[y]

Earliest(S) == Min({Never} \cup {runAt[t] : t \in S})

(* Re-arms the timer when the earliest due time has changed.               *)
armNext(d, S) ==
  IF Earliest(S) = d.armedAt
  THEN d
  ELSE [armedAt |-> Earliest(S), generation |-> d.generation + 1,
        waiting |-> Earliest(S) # Never]

Post(h) == strand' = Append(strand, h)

-----------------------------------------------------------------------------
(* delay(), on the caller's thread.                                        *)

(* A live context: the due time is fixed, and the cancellation callbacks   *)
(* are registered unless the task is due at once.                          *)
Register(t, duration, deadline) ==
  /\ phase[t] = "idle"
  /\ deadline > now
  /\ LET at == Min({saturatedAdd(now, duration), deadline})
     IN /\ runAt' = [runAt EXCEPT ![t] = at]
        /\ watched' = IF at > now /\ t \in Cancellable THEN watched \cup {t}
                      ELSE watched
  /\ phase' = [phase EXCEPT ![t] = "registered"]
  /\ UNCHANGED <<activity, drained, signal, timers, timer, strand, spawned,
                 cancelled, stopper, now>>

(* PoolCancelledError for a cancelled or expired context.                  *)
RejectCancelled(t) ==
  /\ phase[t] = "idle"
  /\ phase' = [phase EXCEPT ![t] = "rejected"]
  /\ UNCHANGED <<activity, drained, signal, timers, timer, strand, spawned,
                 runAt, watched, cancelled, stopper, now>>

(* Fault: admission does not look at closed.                               *)
CanAdmitClosed == activity.active # kMaxActiveTasks

CanAdmit == ~activity.closed /\ activity.active # kMaxActiveTasks

Admit(t) ==
  /\ phase[t] = "registered"
  /\ CanAdmit
  /\ activity' = [activity EXCEPT !.active = @ + 1]
  /\ phase' = [phase EXCEPT ![t] = "admitted"]
  /\ UNCHANGED <<drained, signal, timers, timer, strand, spawned, runAt,
                 watched, cancelled, stopper, now>>

RejectAdmission(t) ==
  /\ phase[t] = "registered"
  /\ ~CanAdmit
  /\ phase' = [phase EXCEPT ![t] = "rejected"]
  /\ UNCHANGED <<activity, drained, signal, timers, timer, strand, spawned,
                 runAt, watched, cancelled, stopper, now>>

PostInsert(t) ==
  /\ phase[t] = "admitted"
  /\ phase' = [phase EXCEPT ![t] = "posted"]
  /\ Post([op |-> "insert", task |-> t])
  /\ UNCHANGED <<activity, drained, signal, timers, timer, spawned, runAt,
                 watched, cancelled, stopper, now>>

(* The post throws; retire() follows.                                      *)
PostFails(t) ==
  /\ t \in Failing
  /\ phase[t] = "admitted"
  /\ phase' = [phase EXCEPT ![t] = "unposted"]
  /\ UNCHANGED <<activity, drained, signal, timers, timer, strand, spawned,
                 runAt, watched, cancelled, stopper, now>>

(* A registered stop token fires, once, before execute() drops it.         *)
Cancel(t) ==
  /\ t \in watched \ cancelled
  /\ phase[t] \in {"registered", "admitted", "unposted", "posted", "queued",
                   "spawned"}
  /\ cancelled' = cancelled \cup {t}
  /\ Post([op |-> "cancel", task |-> t])
  /\ UNCHANGED <<activity, drained, signal, timers, timer, phase, spawned,
                 runAt, watched, stopper, now>>

-----------------------------------------------------------------------------
(* execute(): the claim, the function, retire() and signalDrained().       *)

Claim(t) ==
  /\ phase[t] = "spawned"
  /\ phase' = [phase EXCEPT ![t] = "running"]
  /\ UNCHANGED <<activity, drained, signal, timers, timer, strand, spawned,
                 runAt, watched, cancelled, stopper, now>>

(* The function returns or throws; a thrown exception is logged.           *)
Finish(t) ==
  /\ phase[t] = "running"
  /\ t \in SelfStoppers => stopper[t] \in {"idle", "refused"}
  /\ phase' = [phase EXCEPT ![t] = "returned"]
  /\ UNCHANGED <<activity, drained, signal, timers, timer, strand, spawned,
                 runAt, watched, cancelled, stopper, now>>

(* Fault: retire() tests the counter before it is decremented.             *)
retireEarly(t) ==
  /\ phase[t] \in {"returned", "unposted"}
  /\ activity' = [activity EXCEPT !.active = @ - 1]
  /\ signal' = IF activity.closed /\ activity.active = 0
               THEN [signal EXCEPT ![t] = "entering"] ELSE signal
  /\ phase' = [phase EXCEPT ![t] = IF @ = "returned" THEN "done" ELSE "rejected"]
  /\ UNCHANGED <<drained, timers, timer, strand, spawned, runAt, watched,
                 cancelled, stopper, now>>

(* The last task to retire from a closed pool announces the drain.         *)
retire(t) ==
  /\ phase[t] \in {"returned", "unposted"}
  /\ activity' = [activity EXCEPT !.active = @ - 1]
  /\ signal' = IF activity.closed /\ activity'.active = 0
               THEN [signal EXCEPT ![t] = "entering"] ELSE signal
  /\ phase' = [phase EXCEPT ![t] = IF @ = "returned" THEN "done" ELSE "rejected"]
  /\ UNCHANGED <<drained, timers, timer, strand, spawned, runAt, watched,
                 cancelled, stopper, now>>

signalDrained(a) ==
  /\ signal[a] = "entering"
  /\ signal' = [signal EXCEPT ![a] = IF activity.signalled THEN "no" ELSE "sending"]
  /\ activity' = [activity EXCEPT !.signalled = TRUE]
  /\ UNCHANGED <<drained, timers, timer, strand, phase, spawned, runAt,
                 watched, cancelled, stopper, now>>

Send(a) ==
  /\ signal[a] = "sending"
  /\ signal' = [signal EXCEPT ![a] = "no"]
  /\ drained' = TRUE
  /\ UNCHANGED <<activity, timers, timer, strand, phase, spawned, runAt,
                 watched, cancelled, stopper, now>>

-----------------------------------------------------------------------------
(* stop().                                                                 *)

SelfStop(c) == c \in Tasks

(* stop() closes admission and announces the drain itself if nothing is    *)
(* active; from one of the pool's own tasks it is refused.                 *)
StopEnter(c) ==
  /\ stopper[c] = "idle"
  /\ c \in Tasks => phase[c] = "running"
  /\ IF SelfStop(c)
     THEN /\ stopper' = [stopper EXCEPT ![c] = "refused"]
          /\ UNCHANGED <<activity, signal>>
     ELSE /\ stopper' = [stopper EXCEPT ![c] = "timed"]
          /\ activity' = [activity EXCEPT !.closed = TRUE]
          /\ signal' = IF activity.active = 0
                       THEN [signal EXCEPT ![c] = "entering"] ELSE signal
  /\ UNCHANGED <<drained, timers, timer, strand, phase, spawned, runAt,
                 watched, cancelled, now>>

(* The deadline of the stop context passes: counted, logged, waited on.    *)
StopTimeout(c) ==
  /\ stopper[c] = "timed" /\ signal[c] = "no"
  /\ ~drained
  /\ stopper' = [stopper EXCEPT ![c] = "waiting"]
  /\ UNCHANGED <<activity, drained, signal, timers, timer, strand, phase,
                 spawned, runAt, watched, cancelled, now>>

StopReturn(c) ==
  /\ stopper[c] \in {"timed", "waiting"} /\ signal[c] = "no"
  /\ drained
  /\ stopper' = [stopper EXCEPT ![c] = "returned"]
  /\ UNCHANGED <<activity, drained, signal, timers, timer, strand, phase,
                 spawned, runAt, watched, cancelled, now>>

-----------------------------------------------------------------------------
(* Handlers on the strand.                                                 *)

Running(op) ==
  /\ strand # <<>>
  /\ Head(strand).op = op
  /\ strand' = Tail(strand)

Elsewhere == <<activity, drained, signal, runAt, watched, cancelled, stopper,
               now>>

(* Fault: a task cancelled before its insert is queued all the same.       *)
RunInsertUncancelled ==
  /\ Running("insert")
  /\ LET t == Head(strand).task
     IN IF runAt[t] <= now
        THEN dispatch({t}) /\ UNCHANGED <<timers, timer>>
        ELSE /\ timers' = timers \cup {t}
             /\ timer' = armNext(timer, timers')
             /\ phase' = [phase EXCEPT ![t] = "queued"]
             /\ UNCHANGED spawned
  /\ UNCHANGED Elsewhere

RunInsert ==
  /\ Running("insert")
  /\ LET t == Head(strand).task
     IN IF t \in cancelled \/ runAt[t] <= now
        THEN dispatch({t}) /\ UNCHANGED <<timers, timer>>
        ELSE /\ timers' = timers \cup {t}
             /\ timer' = armNext(timer, timers')
             /\ phase' = [phase EXCEPT ![t] = "queued"]
             /\ UNCHANGED spawned
  /\ UNCHANGED Elsewhere

(* Fault: the handler dispatches its task wherever it is.                  *)
RunCancelAlways ==
  /\ Running("cancel")
  /\ LET t == Head(strand).task
     IN /\ timers' = timers \ {t}
        /\ dispatch({t})
        /\ timer' = armNext(timer, timers')
  /\ UNCHANGED Elsewhere

(* Fault: the handler takes the front of the timer queue.                  *)
RunCancelFirst ==
  /\ Running("cancel")
  /\ IF Head(strand).task \in timers
     THEN \E S \in SUBSET timers :
            /\ IsBatch(S, timers)
            /\ timers' = timers \ S
            /\ dispatch(S)
            /\ timer' = armNext(timer, timers')
     ELSE UNCHANGED <<timers, timer, phase, spawned>>
  /\ UNCHANGED Elsewhere

RunCancel ==
  /\ Running("cancel")
  /\ LET t == Head(strand).task
     IN IF t \in timers
        THEN /\ timers' = timers \ {t}
             /\ dispatch({t})
             /\ timer' = armNext(timer, timers')
        ELSE UNCHANGED <<timers, timer, phase, spawned>>
  /\ UNCHANGED Elsewhere

(* The timer handler: ignored if the timer was re-armed since; otherwise   *)
(* it dispatches a batch of due tasks and re-arms.                         *)
RunTimer ==
  /\ Running("timer")
  /\ IF Head(strand).gen = timer.generation
     THEN \E S \in SUBSET timers :
            /\ IsBatch(S, {t \in timers : runAt[t] <= now})
            /\ timers' = timers \ S
            /\ dispatch(S)
            /\ timer' = armNext([timer EXCEPT !.armedAt = Never], timers')
     ELSE UNCHANGED <<timers, timer, phase, spawned>>
  /\ UNCHANGED Elsewhere

TimerFires ==
  /\ timer.waiting
  /\ timer.armedAt <= now
  /\ timer' = [timer EXCEPT !.waiting = FALSE]
  /\ Post([op |-> "timer", gen |-> timer.generation])
  /\ UNCHANGED <<activity, drained, signal, timers, phase, spawned, runAt,
                 watched, cancelled, stopper, now>>

Tick ==
  /\ now < MaxTime
  /\ now' = now + 1
  /\ UNCHANGED <<activity, drained, signal, timers, timer, strand, phase,
                 spawned, runAt, watched, cancelled, stopper>>

-----------------------------------------------------------------------------
Delay(t) ==
  \/ \E duration \in Delays, deadline \in Times : Register(t, duration, deadline)
  \/ RejectCancelled(t) \/ Admit(t) \/ RejectAdmission(t)
  \/ PostInsert(t) \/ PostFails(t)

execute(t) == Claim(t) \/ Finish(t) \/ retire(t)
Stop(c) == StopEnter(c) \/ StopTimeout(c) \/ StopReturn(c)
Strand == RunInsert \/ RunCancel \/ RunTimer

Next ==
  \/ \E t \in Tasks : Delay(t) \/ Cancel(t) \/ execute(t)
  \/ \E c \in Callers : Stop(c)
  \/ \E a \in Actors : signalDrained(a) \/ Send(a)
  \/ Strand \/ TimerFires \/ Tick

Spec == Init /\ [][Next]_vars

(* The reactor keeps running handlers, timers and coroutines, threads in   *)
(* the middle of a call go on, and the functions passed to delay return.   *)
FairSpec ==
  /\ Spec
  /\ WF_vars(Strand) /\ WF_vars(TimerFires) /\ WF_vars(Tick)
  /\ \A t \in Tasks : WF_vars(execute(t)) /\ WF_vars(PostInsert(t) \/ PostFails(t))
  /\ \A a \in Actors : WF_vars(signalDrained(a) \/ Send(a))
  /\ \A c \in Callers : WF_vars(StopReturn(c))

-----------------------------------------------------------------------------
(* Properties                                                              *)

(* Types of the shared state, the timer and the handlers.                  *)
TypeOK ==
  /\ activity \in [closed : BOOLEAN, active : 0..kMaxActiveTasks,
                   signalled : BOOLEAN]
  /\ drained \in BOOLEAN
  /\ signal \in [Actors -> {"no", "entering", "sending"}]
  /\ timers \in SUBSET Tasks
  /\ timer \in [armedAt : Times, generation : Nat, waiting : BOOLEAN]
  /\ strand \in Seq([op : {"insert", "cancel"}, task : Tasks]
                    \cup [op : {"timer"}, gen : Nat])
  /\ phase \in [Tasks -> Phases]
  /\ spawned \in [Tasks -> Nat]
  /\ runAt \in [Tasks -> Times]
  /\ watched \in SUBSET Tasks /\ cancelled \in SUBSET watched
  /\ stopper \in [Callers -> {"idle", "refused", "timed", "waiting", "returned"}]
  /\ now \in 0..MaxTime

(* "exactly one path is allowed to win": timer, deadline and cancellation  *)
(* together give a task to the executor at most once, and an accepted one  *)
(* does not retire without it.                                             *)
ExactlyOnce ==
  \A t \in Tasks :
    /\ spawned[t] <= 1
    /\ phase[t] \in {"spawned", "running", "returned", "done"} <=> spawned[t] = 1

(* A function runs early only if its context was cancelled: it is given to *)
(* the executor at its due time or after cancelRequested was set.          *)
NotEarly ==
  [][\A t \in Tasks : spawned'[t] > spawned[t] =>
       runAt[t] <= now \/ t \in cancelled]_vars

(* An accepted task that is due, or whose context is cancelled, runs to    *)
(* its end, also when more tasks are due than one batch takes.             *)
DueRuns ==
  \A t \in Tasks :
    (phase[t] \in {"posted", "queued"} /\ (runAt[t] <= now \/ t \in cancelled))
      ~> phase[t] = "done"

(* Every stop() that is not refused returns once no accepted task waits    *)
(* for a time that never comes.                                            *)
StopReturns ==
  \A c \in Callers :
    stopper[c] \in {"timed", "waiting"} ~>
      \/ stopper[c] = "returned"
      \/ \E t \in Tasks : phase[t] = "queued" /\ runAt[t] = Never

(* The pool implements DrainingPool: `closed' and the drained event are    *)
(* its own, a task is running from its hand-over to the executor until it  *)
(* retires.                                                                *)
Abstract == INSTANCE DrainingPool WITH
  status <- [t \in Tasks |->
               CASE phase[t] \in {"idle", "registered"} -> "new"
                 [] phase[t] \in {"admitted", "posted", "queued", "unposted"} -> "accepted"
                 [] phase[t] \in {"spawned", "running", "returned"} -> "running"
                 [] phase[t] = "done" -> "finished"
                 [] phase[t] = "rejected" -> "rejected"],
  closed <- activity.closed,
  drained <- drained,
  caller <- [c \in Callers |-> IF stopper[c] = "timed" THEN "waiting" ELSE stopper[c]]

(* Every step of the delay pool is a step of DrainingPool or changes       *)
(* nothing it sees.                                                        *)
ImplementsDrainingPool == Abstract!Spec
=============================================================================
