----------------------------- MODULE QueuedPool -----------------------------
(***************************************************************************)
(* The task pool of runtime/pool/queuedpool.hpp: QueuedPool<false> is the  *)
(* FIFO TaskPool, QueuedPool<true> the PriorityTaskPool (CONSTANT Priority *)
(* picks the instantiation).                                               *)
(*                                                                         *)
(* Admission (`activity': the closed and started bits and the count of     *)
(* accepted, unfinished tasks) is guarded by activityMutex.  The rest of   *)
(* State (`flags', `manager', `pool', `timer') is owned by a strand:       *)
(* `strand' is the FIFO of posted handlers, one of which runs at a time.   *)
(* The callers of addTask, start and stop, the task bodies, the            *)
(* cancellation callbacks and the two timers interleave with the strand    *)
(* and with each other.                                                    *)
(*                                                                         *)
(* Time is a counter 0..MaxTime; the value after MaxTime stands for an     *)
(* absent time point (std::nullopt).                                       *)
(***************************************************************************)
EXTENDS Integers, Sequences, FiniteSetsExt

CONSTANTS
  Tasks,          \* the calls of addTask
  Cancellable,    \* those whose context holds a stop token
  Failing,        \* those whose post to the strand may throw
  SelfStoppers,   \* those whose body calls stop() on its own pool
  Stoppers,       \* calls of stop() from outside the pool
  Starters,       \* calls of start()
  StartContexts,  \* is the context given to start() already cancelled
  Priority,       \* the template parameter: ordered by priority, or FIFO
  Priorities,     \* priorities addTask is called with
  MinPriority,    \* numeric_limits<int>::min()
  ExecutorCounts, \* values the configured executorsCount takes
  Hardware,       \* max(1, hardware_concurrency())
  kCount,         \* capacity of the activity counter (2^62 - 1 in the code)
  MaxTime         \* bound on the clock

ASSUME TasksFinite == IsFiniteSet(Tasks)
ASSUME TaskSubsets ==
  Cancellable \subseteq Tasks /\ Failing \subseteq Tasks /\ SelfStoppers \subseteq Tasks
ASSUME FlagsBoolean == Priority \in BOOLEAN /\ StartContexts \subseteq BOOLEAN
ASSUME PrioritiesOrdered ==
  /\ MinPriority \in Int
  /\ Priorities \subseteq {p \in Int : MinPriority <= p}
ASSUME ExecutorsIntegers == ExecutorCounts \subseteq Int
ASSUME HardwarePositive == Hardware \in Nat \ {0}
ASSUME BoundsNatural == kCount \in Nat \ {0} /\ MaxTime \in Nat
ASSUME CallersDistinct == Tasks \cap Stoppers = {}

None == MaxTime + 1          \* an absent deadline; no clock value reaches it
Times == 0..None
NoSweep == -1

VARIABLES
  activity,   \* under activityMutex: closed, started, count
  target,     \* atomic: how many tasks may run at once
  executors,  \* the executorsCount of the current runtime configuration
  flags,      \* strand-owned: started, stopping, completed (drained sent)
  manager,    \* strand-owned: the resize manager and its context callbacks
  pool,       \* strand-owned: queue, deadline index, busy; each task's phase
  timer,      \* strand-owned: the deadline timer and its handler's loop
  strand,     \* handlers posted to the strand and not yet run
  deadline,   \* the deadline of each task's context
  cancelled,  \* tasks whose cancellation callback has fired
  stopper,    \* where each call of stop() is
  startCount, \* executors read by a start() between its mutex and its post
  starter,    \* where each call of start() is
  startCtx,   \* the start context has been cancelled
  now

vars == <<activity, target, executors, flags, manager, pool, timer, strand,
          deadline, cancelled, stopper, startCount, starter, startCtx, now>>

Callers == Stoppers \cup SelfStoppers

Phases == {"idle", "registered", "admitted", "posted", "queued", "running",
           "returned", "done", "rejected"}

Handlers == [op : {"insert", "cancel", "done"}, task : Tasks]
            \cup [op : {"deadline"}, gen : Nat]
            \cup [op : {"start", "stop", "checkDrain", "manager",
                        "stopManager"}]

\* Tasks the pool has accepted and not finished: what `count' counts.
Accepted == {"admitted", "posted", "queued", "running", "returned"}
Outstanding == {t \in Tasks : pool.phase[t] \in Accepted}

-----------------------------------------------------------------------------

(* resolveExecutors for a non-negative count; a negative one throws.       *)
resolveExecutors(n) == IF n = 0 THEN Hardware ELSE n

(* The State constructor: target is resolved from the configuration.       *)
Init ==
  /\ activity = [closed |-> FALSE, started |-> FALSE, count |-> 0]
  /\ executors \in {n \in ExecutorCounts : n >= 0}
  /\ target = resolveExecutors(executors)
  /\ flags = [started |-> FALSE, stopping |-> FALSE, completed |-> FALSE]
  /\ manager = [active |-> TRUE, waiting |-> FALSE, lifecycle |-> FALSE]
  /\ pool = [queue |-> <<>>, phase |-> [t \in Tasks |-> "idle"],
             key |-> [t \in Tasks |-> <<0, 0>>], nextSequence |-> 0,
             promoted |-> {}, deadlines |-> {}, busy |-> 0]
  /\ timer = [armedAt |-> None, generation |-> 0, waiting |-> FALSE,
              sweep |-> NoSweep]
  /\ strand = <<>>
  /\ deadline = [t \in Tasks |-> None]
  /\ cancelled = {}
  /\ stopper = [c \in Callers |-> "idle"]
  /\ startCount = [s \in Starters |-> 0]
  /\ starter = [s \in Starters |-> "idle"]
  /\ startCtx \in StartContexts
  /\ now = 0

-----------------------------------------------------------------------------
(* The operations the strand handlers are made of, on the record they own. *)

RemovedAt(q, i) == SubSeq(q, 1, i - 1) \o SubSeq(q, i + 1, Len(q))

InsertedAt(q, i, t) == SubSeq(q, 1, i - 1) \o <<t>> \o SubSeq(q, i, Len(q))

Position(q, t) == CHOOSE i \in 1..Len(q) : q[i] = t

Without(q, t) == RemovedAt(q, Position(q, t))

KeyLess(k, l) == k[1] < l[1] \/ (k[1] = l[1] /\ k[2] < l[2])

(* Fault: the map compares priorities only and puts the newest first.      *)
InsertByPriority(q, key, t) ==
  InsertedAt(q, 1 + Cardinality({i \in 1..Len(q) : key[q[i]][1] < key[t][1]}), t)

(* std::map insertion: after every task with a smaller key.                *)
InsertByKey(q, key, t) ==
  InsertedAt(q, 1 + Cardinality({i \in 1..Len(q) : KeyLess(key[q[i]], key[t])}), t)

(* The list is appended to; the map orders by (priority, sequence).        *)
insert(p, t) ==
  IF Priority
  THEN LET key == [p.key EXCEPT ![t][2] = p.nextSequence]
       IN [p EXCEPT !.phase[t] = "queued", !.key = key,
                    !.nextSequence = @ + 1,
                    !.queue = InsertByKey(@, key, t)]
  ELSE [p EXCEPT !.phase[t] = "queued", !.queue = Append(@, t)]

removeDeadline(p, t) == [p EXCEPT !.deadlines = @ \ {t}]

(* Moves a queued task to the most urgent place, once.                     *)
promote(p, t) ==
  IF p.phase[t] # "queued" \/ t \in p.promoted
  THEN p
  ELSE LET q == removeDeadline([p EXCEPT !.promoted = @ \cup {t}], t)
           key == [p.key EXCEPT ![t][1] = MinPriority]
       IN IF Priority
          THEN [q EXCEPT !.key = key,
                         !.queue = InsertByKey(Without(@, t), key, t)]
          ELSE [q EXCEPT !.queue = <<t>> \o Without(@, t)]

(* The front of the deadline index, or no time point.                      *)
NextDeadline(p) == Min({None} \cup {deadline[t] : t \in p.deadlines})

(* Fault: a timer that is armed is left alone.                             *)
armDeadlineOnce(d, next) ==
  IF d.armedAt # None
  THEN d
  ELSE [d EXCEPT !.armedAt = next, !.generation = @ + 1,
                 !.waiting = next # None]

(* Re-arms the deadline timer when the earliest deadline has changed; the  *)
(* new generation invalidates a timer handler that is already posted.      *)
armDeadline(d, next) ==
  IF next = d.armedAt
  THEN d
  ELSE [d EXCEPT !.armedAt = next, !.generation = @ + 1,
                 !.waiting = next # None]

(* Fault: stopping alone completes the drain.                              *)
checkDrainEarly(f, count) ==
  IF f.stopping THEN [f EXCEPT !.completed = TRUE] ELSE f

checkDrain(f, count) ==
  IF f.stopping /\ count = 0 THEN [f EXCEPT !.completed = TRUE] ELSE f

(* Fault: the loop runs while busy <= target.                              *)
SlotsOneMore(p, started, limit) ==
  IF started /\ p.busy <= limit
  THEN IF Len(p.queue) <= limit + 1 - p.busy THEN Len(p.queue)
       ELSE limit + 1 - p.busy
  ELSE 0

(* How many tasks the dispatch loop pops.                                  *)
Slots(p, started, limit) ==
  IF started /\ p.busy < limit
  THEN IF Len(p.queue) <= limit - p.busy THEN Len(p.queue) ELSE limit - p.busy
  ELSE 0

Launch(p, n) ==
  LET popped == {p.queue[i] : i \in 1..n}
  IN [p EXCEPT !.queue = SubSeq(@, n + 1, Len(@)), !.busy = @ + n,
               !.phase = [t \in Tasks |->
                            IF t \in popped THEN "running" ELSE @[t]],
               !.deadlines = @ \ popped]

(* The end of nearly every handler: launch what may run, re-arm the        *)
(* deadline timer, see whether the drain is complete.                      *)
dispatch(p, d, f, limit, count) ==
  /\ pool' = Launch(p, Slots(p, f.started, limit))
  /\ timer' = armDeadline(d, NextDeadline(pool'))
  /\ flags' = checkDrain(f, count)

(* stopManager also cancels the wait of managerTimer; a managerTimer       *)
(* handler already posted finds managerActive false.                       *)
stopManager(m) == [m EXCEPT !.active = FALSE, !.waiting = FALSE]

-----------------------------------------------------------------------------
(* addTask, on the caller's thread: the context check and the callbacks,   *)
(* the admission under the mutex, the post.                                *)

Post(h) == strand' = Append(strand, h)

(* addTask before admission: a live context, whose cancellation callbacks  *)
(* are now registered.                                                     *)
Register(t, d, pr) ==
  /\ pool.phase[t] = "idle"
  /\ d > now
  /\ deadline' = [deadline EXCEPT ![t] = d]
  /\ pool' = [pool EXCEPT !.phase[t] = "registered", !.key[t] = <<pr, 0>>]
  /\ UNCHANGED <<activity, target, executors, flags, manager, timer, strand,
                 cancelled, stopper, startCount, starter, startCtx, now>>

(* addTask with a cancelled or expired context throws PoolCancelledError.  *)
RejectCancelled(t) ==
  /\ pool.phase[t] = "idle"
  /\ pool' = [pool EXCEPT !.phase[t] = "rejected"]
  /\ UNCHANGED <<activity, target, executors, flags, manager, timer, strand,
                 deadline, cancelled, stopper, startCount, starter, startCtx,
                 now>>

(* Fault: a closed pool accepts.                                           *)
CanAdmitClosed == activity.count # kCount

CanAdmit == ~activity.closed /\ activity.count # kCount

Admit(t) ==
  /\ pool.phase[t] = "registered"
  /\ CanAdmit
  /\ activity' = [activity EXCEPT !.count = @ + 1]
  /\ pool' = [pool EXCEPT !.phase[t] = "admitted"]
  /\ UNCHANGED <<target, executors, flags, manager, timer, strand, deadline,
                 cancelled, stopper, startCount, starter, startCtx, now>>

(* PoolStoppedError, or overflow_error when the counter is full.           *)
RejectAdmission(t) ==
  /\ pool.phase[t] = "registered"
  /\ ~CanAdmit
  /\ pool' = [pool EXCEPT !.phase[t] = "rejected"]
  /\ UNCHANGED <<activity, target, executors, flags, manager, timer, strand,
                 deadline, cancelled, stopper, startCount, starter, startCtx,
                 now>>

PostInsert(t) ==
  /\ pool.phase[t] = "admitted"
  /\ Post([op |-> "insert", task |-> t])
  /\ pool' = [pool EXCEPT !.phase[t] = "posted"]
  /\ UNCHANGED <<activity, target, executors, flags, manager, timer, deadline,
                 cancelled, stopper, startCount, starter, startCtx, now>>

(* Fault: the admission of a task whose post failed is not undone.         *)
PostFailsCounted(t) ==
  /\ t \in Failing
  /\ pool.phase[t] = "admitted"
  /\ Post([op |-> "checkDrain"])
  /\ pool' = [pool EXCEPT !.phase[t] = "rejected"]
  /\ UNCHANGED <<activity, target, executors, flags, manager, timer, deadline,
                 cancelled, stopper, startCount, starter, startCtx, now>>

(* The post throws (allocation): the admission is undone, and the drain it *)
(* may have been the last to hold up is re-examined on the strand.         *)
PostFails(t) ==
  /\ t \in Failing
  /\ pool.phase[t] = "admitted"
  /\ activity' = [activity EXCEPT !.count = @ - 1]
  /\ Post([op |-> "checkDrain"])
  /\ pool' = [pool EXCEPT !.phase[t] = "rejected"]
  /\ UNCHANGED <<target, executors, flags, manager, timer, deadline,
                 cancelled, stopper, startCount, starter, startCtx, now>>

(* A stop token of the task's context fires: the callback posts, once.     *)
Cancel(t) ==
  /\ t \in Cancellable \ cancelled
  /\ pool.phase[t] \in {"registered", "admitted", "posted", "queued", "running"}
  /\ cancelled' = cancelled \cup {t}
  /\ Post([op |-> "cancel", task |-> t])
  /\ UNCHANGED <<activity, target, executors, flags, manager, pool, timer,
                 deadline, stopper, startCount, starter, startCtx, now>>

(* The task body returns or throws; its coroutine posts the completion.    *)
Finish(t) ==
  /\ pool.phase[t] = "running"
  /\ t \in SelfStoppers => stopper[t] \in {"idle", "refused"}
  /\ pool' = [pool EXCEPT !.phase[t] = "returned"]
  /\ Post([op |-> "done", task |-> t])
  /\ UNCHANGED <<activity, target, executors, flags, manager, timer, deadline,
                 cancelled, stopper, startCount, starter, startCtx, now>>

-----------------------------------------------------------------------------
(* start() and stop().                                                     *)

(* start() up to the end of its critical section; a negative count throws  *)
(* before it, and start() may then be called again.                        *)
StartEnter(s) ==
  /\ starter[s] = "idle"
  /\ executors >= 0
  /\ IF activity.closed \/ activity.started
     THEN /\ starter' = [starter EXCEPT ![s] = "refused"]
          /\ UNCHANGED <<activity, startCount>>
     ELSE /\ activity' = [activity EXCEPT !.started = TRUE]
          /\ starter' = [starter EXCEPT ![s] = "storing"]
          /\ startCount' = [startCount EXCEPT ![s] = resolveExecutors(executors)]
  /\ UNCHANGED <<target, executors, flags, manager, pool, timer, strand,
                 deadline, cancelled, stopper, startCtx, now>>

StartPost(s) ==
  /\ starter[s] = "storing"
  /\ starter' = [starter EXCEPT ![s] = "returned"]
  /\ target' = startCount[s]
  /\ Post([op |-> "start"])
  /\ UNCHANGED <<activity, executors, flags, manager, pool, timer, deadline,
                 cancelled, stopper, startCount, startCtx, now>>

(* Fault: stop() does not recognise a task of its own pool.                *)
SelfStopUnseen(c) == FALSE

(* CurrentOwner() is this pool's state exactly inside its own tasks.       *)
SelfStop(c) == c \in Tasks

(* stop() called by one of the pool's own tasks is refused; otherwise the  *)
(* critical section closes admission, and the call that closed it goes on  *)
(* to post.                                                                *)
StopEnter(c) ==
  /\ stopper[c] = "idle"
  /\ c \in Tasks => pool.phase[c] = "running"
  /\ IF SelfStop(c)
     THEN /\ stopper' = [stopper EXCEPT ![c] = "refused"]
          /\ UNCHANGED activity
     ELSE /\ activity' = [activity EXCEPT !.closed = TRUE]
          /\ stopper' = [stopper EXCEPT ![c] =
                           IF activity.closed THEN "timed" ELSE "closing"]
  /\ UNCHANGED <<target, executors, flags, manager, pool, timer, strand,
                 deadline, cancelled, startCount, starter, startCtx, now>>

StopPost(c) ==
  /\ stopper[c] = "closing"
  /\ stopper' = [stopper EXCEPT ![c] = "timed"]
  /\ Post([op |-> "stop"])
  /\ UNCHANGED <<activity, target, executors, flags, manager, pool, timer,
                 deadline, cancelled, startCount, starter, startCtx, now>>

(* The stop context's deadline passes: it is counted and logged, and the   *)
(* call goes on waiting, now without a deadline.                           *)
StopTimeout(c) ==
  /\ stopper[c] = "timed"
  /\ ~flags.completed
  /\ stopper' = [stopper EXCEPT ![c] = "waiting"]
  /\ UNCHANGED <<activity, target, executors, flags, manager, pool, timer,
                 strand, deadline, cancelled, startCount, starter, startCtx,
                 now>>

StopReturn(c) ==
  /\ stopper[c] \in {"timed", "waiting"}
  /\ flags.completed
  /\ stopper' = [stopper EXCEPT ![c] = "returned"]
  /\ UNCHANGED <<activity, target, executors, flags, manager, pool, timer,
                 strand, deadline, cancelled, startCount, starter, startCtx,
                 now>>

-----------------------------------------------------------------------------
(* Handlers, run one at a time on the strand in the order they were        *)
(* posted.  A deadline handler is a loop (RunDeadline, SweepPromote,       *)
(* SweepEnd) during which the strand runs nothing else.                    *)

Running(op) ==
  /\ timer.sweep = NoSweep
  /\ strand # <<>>
  /\ Head(strand).op = op
  /\ strand' = Tail(strand)

NotStrand == <<executors, deadline, cancelled, stopper, startCount, starter,
               startCtx, now>>

(* Fault: a cancellation that came before the insertion is forgotten.      *)
RunInsertUncancelled ==
  /\ Running("insert")
  /\ LET t == Head(strand).task
         p == insert(pool, t)
     IN dispatch(IF deadline[t] # None THEN [p EXCEPT !.deadlines = @ \cup {t}]
                 ELSE p,
                 timer, flags, target, activity.count)
  /\ UNCHANGED <<activity, target, manager, NotStrand>>

RunInsert ==
  /\ Running("insert")
  /\ LET t == Head(strand).task
         p == insert(pool, t)
     IN dispatch(IF t \in cancelled \/ deadline[t] <= now THEN promote(p, t)
                 ELSE IF deadline[t] # None
                      THEN [p EXCEPT !.deadlines = @ \cup {t}]
                      ELSE p,
                 timer, flags, target, activity.count)
  /\ UNCHANGED <<activity, target, manager, NotStrand>>

(* Fault: a cancelled task is dropped from the queue.                      *)
RunCancelDrops ==
  /\ Running("cancel")
  /\ LET t == Head(strand).task
     IN IF pool.phase[t] = "queued"
        THEN /\ activity' = [activity EXCEPT !.count = @ - 1]
             /\ dispatch([removeDeadline(pool, t) EXCEPT
                            !.queue = Without(@, t), !.phase[t] = "done"],
                         timer, flags, target, activity'.count)
        ELSE UNCHANGED <<activity, pool, timer, flags>>
  /\ UNCHANGED <<target, manager, NotStrand>>

RunCancel ==
  /\ Running("cancel")
  /\ LET t == Head(strand).task
     IN IF pool.phase[t] = "queued"
        THEN dispatch(promote(pool, t), timer, flags, target, activity.count)
        ELSE UNCHANGED <<pool, timer, flags>>
  /\ UNCHANGED <<activity, target, manager, NotStrand>>

(* Fault: a completion does not dispatch the next task.                    *)
RunDoneIdle ==
  /\ Running("done")
  /\ activity' = [activity EXCEPT !.count = @ - 1]
  /\ pool' = [pool EXCEPT !.busy = @ - 1, !.phase[Head(strand).task] = "done"]
  /\ flags' = checkDrain(flags, activity'.count)
  /\ UNCHANGED <<target, manager, timer, NotStrand>>

RunDone ==
  /\ Running("done")
  /\ activity' = [activity EXCEPT !.count = @ - 1]
  /\ dispatch([pool EXCEPT !.busy = @ - 1, !.phase[Head(strand).task] = "done"],
              timer, flags, target, activity'.count)
  /\ UNCHANGED <<target, manager, NotStrand>>

RunCheckDrain ==
  /\ Running("checkDrain")
  /\ flags' = checkDrain(flags, activity.count)
  /\ UNCHANGED <<activity, target, manager, pool, timer, NotStrand>>

(* start()'s handler does nothing once stop()'s has run.  Otherwise        *)
(* installLifecycle watches the start context, which a cancelled one turns *)
(* into stopManager, and the resize manager is scheduled.                  *)
RunStart ==
  /\ Running("start")
  /\ IF flags.stopping
     THEN UNCHANGED <<pool, timer, flags, manager>>
     ELSE /\ manager' = IF startCtx THEN stopManager(manager)
                        ELSE [manager EXCEPT !.lifecycle = TRUE,
                                             !.waiting = manager.active]
          /\ dispatch(pool, timer, [flags EXCEPT !.started = TRUE], target,
                      activity.count)
  /\ UNCHANGED <<activity, target, NotStrand>>

(* Fault: a pool stopped before it was started does not run its queue.     *)
RunStopUnstarted ==
  /\ Running("stop")
  /\ manager' = [stopManager(manager) EXCEPT !.lifecycle = FALSE]
  /\ dispatch(pool, timer, [flags EXCEPT !.stopping = TRUE], target,
              activity.count)
  /\ UNCHANGED <<activity, target, NotStrand>>

RunStop ==
  /\ Running("stop")
  /\ manager' = [stopManager(manager) EXCEPT !.lifecycle = FALSE]
  /\ dispatch(pool, timer, [flags EXCEPT !.stopping = TRUE, !.started = TRUE],
              target, activity.count)
  /\ UNCHANGED <<activity, target, NotStrand>>

RunStopManager ==
  /\ Running("stopManager")
  /\ manager' = stopManager(manager)
  /\ UNCHANGED <<activity, target, flags, pool, timer, NotStrand>>

(* The resize manager: a configuration with a negative count is ignored.   *)
RunManager ==
  /\ Running("manager")
  /\ IF manager.active /\ ~flags.stopping
     THEN /\ target' = IF executors >= 0 THEN resolveExecutors(executors)
                       ELSE target
          /\ dispatch(pool, timer, flags, target', activity.count)
          /\ manager' = [manager EXCEPT !.waiting = TRUE]
     ELSE UNCHANGED <<target, pool, timer, flags, manager>>
  /\ UNCHANGED <<activity, NotStrand>>

(* Fault: the handler gives up while every executor is busy.               *)
RunDeadlineIdle ==
  /\ Running("deadline")
  /\ timer' = IF Head(strand).gen = timer.generation /\ pool.busy < target
              THEN [timer EXCEPT !.armedAt = None, !.sweep = now]
              ELSE timer
  /\ UNCHANGED <<activity, target, flags, manager, pool, NotStrand>>

(* The deadline timer's handler: ignored when the timer was re-armed after *)
(* it was posted; otherwise it reads the clock once and promotes every     *)
(* task whose deadline that time has reached, earliest first.              *)
RunDeadline ==
  /\ Running("deadline")
  /\ timer' = IF Head(strand).gen = timer.generation
              THEN [timer EXCEPT !.armedAt = None, !.sweep = now]
              ELSE timer
  /\ UNCHANGED <<activity, target, flags, manager, pool, NotStrand>>

SweepPromote ==
  /\ timer.sweep # NoSweep
  /\ \E t \in pool.deadlines :
       /\ deadline[t] = NextDeadline(pool)
       /\ deadline[t] <= timer.sweep
       /\ pool' = promote(removeDeadline(pool, t), t)
  /\ UNCHANGED <<activity, target, flags, manager, timer, strand, NotStrand>>

SweepEnd ==
  /\ timer.sweep # NoSweep
  /\ \A t \in pool.deadlines : deadline[t] > timer.sweep
  /\ dispatch(pool, [timer EXCEPT !.sweep = NoSweep], flags, target,
              activity.count)
  /\ UNCHANGED <<activity, target, manager, strand, NotStrand>>

-----------------------------------------------------------------------------
(* Timers, clock, configuration and the start context.                     *)

DeadlineTimer ==
  /\ timer.waiting
  /\ timer.armedAt <= now
  /\ timer' = [timer EXCEPT !.waiting = FALSE]
  /\ Post([op |-> "deadline", gen |-> timer.generation])
  /\ UNCHANGED <<activity, target, flags, manager, pool, NotStrand>>

ManagerTimer ==
  /\ manager.waiting
  /\ manager' = [manager EXCEPT !.waiting = FALSE]
  /\ Post([op |-> "manager"])
  /\ UNCHANGED <<activity, target, flags, pool, timer, NotStrand>>

Tick ==
  /\ now < MaxTime
  /\ now' = now + 1
  /\ UNCHANGED <<activity, target, executors, flags, manager, pool, timer,
                 strand, deadline, cancelled, stopper, startCount, starter,
                 startCtx>>

Reconfigure(n) ==
  /\ n # executors
  /\ executors' = n
  /\ UNCHANGED <<activity, target, flags, manager, pool, timer, strand,
                 deadline, cancelled, stopper, startCount, starter, startCtx,
                 now>>

(* The start context is cancelled or expires; the callbacks installed by   *)
(* start()'s handler, cleared by stop()'s, post stopManager.               *)
CancelStartContext ==
  /\ ~startCtx
  /\ startCtx' = TRUE
  /\ IF manager.lifecycle THEN Post([op |-> "stopManager"]) ELSE UNCHANGED strand
  /\ UNCHANGED <<activity, target, executors, flags, manager, pool, timer,
                 deadline, cancelled, stopper, startCount, starter, now>>

-----------------------------------------------------------------------------
AddTask(t) ==
  \/ \E d \in Times, pr \in Priorities : Register(t, d, pr)
  \/ RejectCancelled(t) \/ Admit(t) \/ RejectAdmission(t)
  \/ PostInsert(t) \/ PostFails(t)

Start(s) == StartEnter(s) \/ StartPost(s)
Stop(c) == StopEnter(c) \/ StopPost(c) \/ StopTimeout(c) \/ StopReturn(c)

Strand ==
  \/ RunInsert \/ RunCancel \/ RunDone \/ RunCheckDrain \/ RunStart \/ RunStop
  \/ RunStopManager \/ RunManager \/ RunDeadline \/ SweepPromote \/ SweepEnd

Environment ==
  \/ DeadlineTimer \/ ManagerTimer \/ Tick \/ CancelStartContext
  \/ \E n \in ExecutorCounts : Reconfigure(n)

Next ==
  \/ \E t \in Tasks : AddTask(t) \/ Cancel(t) \/ Finish(t)
  \/ \E s \in Starters : Start(s)
  \/ \E c \in Callers : Stop(c)
  \/ Strand
  \/ Environment

Spec == Init /\ [][Next]_vars

-----------------------------------------------------------------------------
(* Fairness: the reactor keeps running handlers, timers and the threads in *)
(* the middle of an API call.  Task bodies are user code: nothing is       *)
(* assumed of them here, and BodiesReturn is a hypothesis where needed.    *)
Scheduling ==
  /\ WF_vars(Strand)
  /\ WF_vars(DeadlineTimer)
  /\ WF_vars(ManagerTimer)
  /\ WF_vars(Tick)
  /\ \A t \in Tasks : /\ WF_vars(Admit(t) \/ RejectAdmission(t))
                       /\ WF_vars(PostInsert(t) \/ PostFails(t))
  /\ \A s \in Starters : WF_vars(StartPost(s))
  /\ \A c \in Callers : WF_vars(StopPost(c)) /\ WF_vars(StopReturn(c))

FairSpec == Spec /\ Scheduling

(* Every task body returns, unless it is itself waiting in stop().         *)
BodiesReturn == \A t \in Tasks : WF_vars(Finish(t))

-----------------------------------------------------------------------------
(* Properties                                                              *)

Flags == [started : BOOLEAN, stopping : BOOLEAN, completed : BOOLEAN]
PoolState ==
  [queue : Seq(Tasks), phase : [Tasks -> Phases], key : [Tasks -> Int \X Int],
   nextSequence : Nat, promoted : SUBSET Tasks, deadlines : SUBSET Tasks,
   busy : Nat]
TimerState == [armedAt : Times, generation : Nat, waiting : BOOLEAN,
               sweep : 0..MaxTime \cup {NoSweep}]

(* Types of the state: activity word, strand-owned State, handler queue.   *)
TypeOK ==
  /\ activity \in [closed : BOOLEAN, started : BOOLEAN, count : Nat]
  /\ target \in Nat \ {0}
  /\ executors \in ExecutorCounts
  /\ flags \in Flags
  /\ manager \in [active : BOOLEAN, waiting : BOOLEAN, lifecycle : BOOLEAN]
  /\ pool \in PoolState
  /\ timer \in TimerState
  /\ strand \in Seq(Handlers)
  /\ deadline \in [Tasks -> Times]
  /\ cancelled \in SUBSET Tasks
  /\ stopper \in [Callers -> {"idle", "refused", "closing", "timed",
                             "waiting", "returned"}]
  /\ startCount \in [Starters -> Nat]
  /\ starter \in [Starters -> {"idle", "refused", "storing", "returned"}]
  /\ startCtx \in BOOLEAN
  /\ now \in 0..MaxTime

(* stop() closes admission and drains: when the drain is signalled (and so *)
(* when any stop() has returned) no accepted task is outstanding, in the   *)
(* caller, on the strand, in the queue or running, whatever addTask calls  *)
(* raced with the stop.                                                    *)
DrainSafe ==
  flags.completed \/ (\E c \in Callers : stopper[c] = "returned")
    => activity.closed /\ Outstanding = {}

(* The activity counter counts exactly the accepted unfinished tasks (also *)
(* after a failed post), busy the executing ones, and the queue holds each *)
(* queued task once: a slip in any of the places that adjust them would    *)
(* make the drain early or never.                                          *)
Accounting ==
  /\ activity.count = Cardinality(Outstanding)
  /\ pool.busy = Cardinality({t \in Tasks : pool.phase[t] \in {"running", "returned"}})
  /\ Range(pool.queue) = {t \in Tasks : pool.phase[t] = "queued"}
  /\ \A i, j \in 1..Len(pool.queue) : pool.queue[i] = pool.queue[j] => i = j

(* An accepted task is run once and a rejected one never: a task only      *)
(* moves forward through its phases, and done or rejected is final.        *)
Rank == [p \in Phases |->
           CASE p = "idle" -> 0 [] p = "registered" -> 1 [] p = "admitted" -> 2
             [] p = "posted" -> 3 [] p = "queued" -> 4 [] p = "running" -> 5
             [] p = "returned" -> 6 [] OTHER -> 7]
RunsOnce ==
  [][\A t \in Tasks :
       pool'.phase[t] # pool.phase[t] =>
         /\ Rank[pool.phase[t]] < Rank[pool'.phase[t]]
         /\ pool'.phase[t] = "running" => pool.phase[t] \in {"posted", "queued"}
         /\ pool'.phase[t] = "done" => pool.phase[t] = "returned"]_vars

(* dispatch never launches a task beyond the configured concurrency, also  *)
(* while a resize lowers it below the number already running.              *)
ConcurrencyBound == [][pool'.busy > pool.busy => pool'.busy <= target']_vars

(* Queued work is never stranded: whenever a started pool has a queue, a   *)
(* task is executing whose completion will dispatch again.                 *)
NoStalledQueue ==
  flags.started /\ pool.queue # <<>> => pool.busy > 0

(* No deadline is lost: outside the sweep the timer is set for the         *)
(* earliest indexed deadline, and either its wait is pending or a handler  *)
(* of the current generation is posted; the index holds queued tasks only. *)
TimerArmed ==
  /\ \A t \in pool.deadlines : pool.phase[t] = "queued" /\ t \notin pool.promoted
  /\ timer.sweep = NoSweep =>
       /\ timer.armedAt = NextDeadline(pool)
       /\ pool.deadlines # {} =>
            \/ timer.waiting
            \/ \E i \in 1..Len(strand) :
                 strand[i] = [op |-> "deadline", gen |-> timer.generation]

(* "Lower numeric priorities run first; equal priorities preserve enqueue  *)
(* order": the queue is strictly sorted by (priority, sequence), also      *)
(* after tasks were promoted inside it.                                    *)
PriorityOrder ==
  Priority => \A i, j \in 1..Len(pool.queue) :
                i < j => KeyLess(pool.key[pool.queue[i]], pool.key[pool.queue[j]])

(* Every stop() that is not refused returns once the task bodies return;   *)
(* its deadline does not end it early and a refused self-stop blocks none. *)
StopReturns ==
  BodiesReturn => \A c \in Callers :
    stopper[c] \in {"closing", "timed", "waiting"} ~> stopper[c] = "returned"

(* Every task accepted by a pool that is started or stopped runs to its    *)
(* end, including work accepted before start() and drained by stop().      *)
AcceptedRuns ==
  BodiesReturn => \A t \in Tasks :
    (pool.phase[t] \in {"posted", "queued"} /\ (activity.started \/ activity.closed))
      ~> pool.phase[t] = "done"

(* A queued task that is cancelled, or whose deadline passes, is promoted  *)
(* (or launched) even if no running task ever finishes.                    *)
UrgentPromoted ==
  \A t \in Tasks :
    (pool.phase[t] = "queued" /\ (t \in cancelled \/ deadline[t] <= now))
      ~> (t \in pool.promoted \/ pool.phase[t] # "queued")

(* The pool as DrainingPool sees it: a queued task is accepted, one that   *)
(* dispatch has launched is running until its "done" handler.              *)
Abstract == INSTANCE DrainingPool WITH
  status <- [t \in Tasks |->
               CASE pool.phase[t] \in {"idle", "registered"} -> "new"
                 [] pool.phase[t] \in {"admitted", "posted", "queued"} -> "accepted"
                 [] pool.phase[t] \in {"running", "returned"} -> "running"
                 [] pool.phase[t] = "done" -> "finished"
                 [] pool.phase[t] = "rejected" -> "rejected"],
  closed <- activity.closed,
  drained <- flags.completed,
  caller <- [c \in Callers |-> IF stopper[c] \in {"closing", "timed"}
                               THEN "waiting" ELSE stopper[c]]

(* The pool implements DrainingPool: whatever the interleaving of callers, *)
(* strand and task bodies, each step accepts, rejects, runs or drains as   *)
(* runtime/pool/pool.hpp promises, or changes nothing a caller can see.    *)
ImplementsDrainingPool == Abstract!Spec
=============================================================================
