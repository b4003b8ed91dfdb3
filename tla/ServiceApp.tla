----------------------------- MODULE ServiceApp -----------------------------
(***************************************************************************)
(* ServiceApp and its ServiceLifecycle (runtime/serviceapp.hpp) above the  *)
(* graph runtime: registration, start in the order of the kinds, the       *)
(* unwinding of a start that fails, and the phased, possibly bounded stop  *)
(* whose unfinished part is handed to a deferred cleanup.                  *)
(*                                                                         *)
(* One control thread is active at a time: the caller of start and stop,   *)
(* and after stop has returned the ShutdownTask that finishes for it.      *)
(* Beside it run the shutdown threads, one per component stopped, and the  *)
(* work of the graph.                                                      *)
(***************************************************************************)
EXTENDS GraphRuntime, Sequences, SequencesExt

CONSTANTS
  Components,  \* objects a service may register
  Kind,        \* the ServiceComponentKind of each
  MaxWork      \* bound: operations the graph is given in one run

VARIABLES
  lifecycle,  \* state_ of the ServiceLifecycle
  entries,    \* entries_: the registered components of each kind
  started,    \* started_
  component,  \* what each component has been told: idle, running, stopping, stopped
  busy,       \* operations each component has in progress
  made,       \* operations begun so far, up to MaxWork
  task,       \* the ShutdownTask of each component: none, spawned, running, complete, signalled
  waiter,     \* State::waiter of that task: none, registered, taken
  woken,      \* the event of the wait in progress has been sent
  reported,   \* how often each component's stop has been reported
  queue,      \* components the control thread has yet to stop or to wait for
  blocked,    \* it waits for the first of them
  pc,         \* where the control thread is
  context,    \* of stop: none, unbounded, open, expired
  returned,   \* stop() has returned
  complete    \* shutdownComplete_: none, pending, sent

lifeVars == <<lifecycle, entries, started>>

stopVars == <<task, waiter, woken, reported, queue, blocked>>

callVars == <<pc, context, returned, complete>>

vars == <<graphVars, lifeVars, component, busy, made, stopVars, callVars>>

kStartOrder ==
  <<"Storage", "DelayPool", "TaskPool", "PriorityTaskPool", "Component",
    "DataSink", "DataSource">>

Kinds == Range(kStartOrder)

(* Root producers: their work enters the graph by an input invocation.     *)
Producers == {c \in Components : Kind[c] \in {"DataSource", "Component"}}

Sinks == {c \in Components : Kind[c] = "DataSink"}

Init ==
  /\ GraphInit
  /\ lifecycle = "created"
  /\ entries = [k \in Kinds |-> <<>>]
  /\ started = <<>>
  /\ component = [c \in Components |-> "idle"]
  /\ busy = [c \in Components |-> 0]
  /\ made = 0
  /\ task = [c \in Components |-> "none"]
  /\ waiter = [c \in Components |-> "none"]
  /\ woken = FALSE
  /\ reported = [c \in Components |-> 0]
  /\ queue = <<>>
  /\ blocked = FALSE
  /\ pc = "created"
  /\ context = "none"
  /\ returned = FALSE
  /\ complete = "none"

InKindOrder(kinds) == FlattenSeq([i \in DOMAIN kinds |-> entries[kinds[i]]])

(* appendReverse over the kinds of a phase.                                *)
Phase(kinds) == FlattenSeq([i \in DOMAIN kinds |-> Reverse(entries[kinds[i]])])

Admission == Phase(<<"DataSource", "Component">>)

Executors == Phase(<<"PriorityTaskPool", "TaskPool", "DelayPool", "Storage">>)

Outputs == Phase(<<"DataSink">>)

clear == started' = <<>> /\ entries' = [k \in Kinds |-> <<>>]

-----------------------------------------------------------------------------
(* Registration and start.                                                 *)
add(c) ==
  /\ pc = "created"
  /\ c \notin Range(entries[Kind[c]])
  /\ entries' = [entries EXCEPT ![Kind[c]] = Append(@, c)]
  /\ UNCHANGED <<graphVars, lifecycle, started, component, busy, made, stopVars, callVars>>

start ==
  /\ pc = "created"
  /\ startExecutionRuntime
  /\ lifecycle' = "starting"
  /\ pc' = "starting"
  /\ queue' = InKindOrder(kStartOrder)
  /\ UNCHANGED <<entries, started, component, busy, made, task, waiter, woken, reported,
                 blocked, context, returned, complete>>

EntryStarts ==
  /\ pc = "starting" /\ queue # <<>>
  /\ component' = [component EXCEPT ![Head(queue)] = "running"]
  /\ started' = Append(started, Head(queue))
  /\ queue' = Tail(queue)
  /\ UNCHANGED <<graphVars, lifecycle, entries, busy, made, task, waiter, woken, reported,
                 blocked, callVars>>

AllStarted ==
  /\ pc = "starting" /\ queue = <<>>
  /\ lifecycle' = "running"
  /\ pc' = "up"
  /\ UNCHANGED <<graphVars, entries, started, component, busy, made, stopVars,
                 context, returned, complete>>

(* A component's start throws: what has been started is stopped again, the *)
(* last first.                                                             *)
EntryFails ==
  /\ pc = "starting" /\ queue # <<>>
  /\ pc' = "unwinding"
  /\ queue' = Reverse(started)
  /\ UNCHANGED <<graphVars, lifeVars, component, busy, made, task, waiter, woken, reported,
                 blocked, context, returned, complete>>

(* Stop returns only once the component's own work is done.  Of a producer *)
(* that is not assumed: HTTP and gRPC sources return with requests open.   *)
StopMayReturn(c) ==
  component[c] = "stopping" /\ (c \in Producers \/ busy[c] = 0)

UnwindCalls ==
  /\ pc = "unwinding" /\ queue # <<>>
  /\ component[Head(queue)] = "running"
  /\ component' = [component EXCEPT ![Head(queue)] = "stopping"]
  /\ UNCHANGED <<graphVars, lifeVars, busy, made, stopVars, callVars>>

UnwindReturns ==
  /\ pc = "unwinding" /\ queue # <<>>
  /\ StopMayReturn(Head(queue))
  /\ component' = [component EXCEPT ![Head(queue)] = "stopped"]
  /\ queue' = Tail(queue)
  /\ UNCHANGED <<graphVars, lifeVars, busy, made, task, waiter, woken, reported, blocked,
                 callVars>>

Unwound ==
  /\ pc = "unwinding" /\ queue = <<>>
  /\ clear
  /\ lifecycle' = "stopped"
  /\ pc' = "releasing"
  /\ UNCHANGED <<graphVars, component, busy, made, stopVars, context, returned, complete>>

-----------------------------------------------------------------------------
(* Stop.  Each phase spawns the ShutdownTasks of its components and then   *)
(* waits for them in order, for as long as the context allows.             *)
Done(c) == task[c] \in {"complete", "signalled"}

hasPendingShutdown == \E c \in Components : task[c] # "none" /\ ~Done(c)

Spawn(components) ==
  /\ task' = [c \in Components |-> IF c \in Range(components) THEN "spawned" ELSE task[c]]
  /\ queue' = components

(* reportStop: once for each stop.                                         *)
Reported(c) == IF reported[c] = 0 THEN 1 ELSE reported[c]

(* ServiceLifecycle::finishShutdown, once every task has completed.        *)
ReportAll ==
  reported' = [c \in Components |-> IF task[c] # "none" THEN Reported(c) ELSE reported[c]]

stop ==
  /\ pc = "up"
  /\ context' \in {"unbounded", "open"}
  /\ complete' = "pending"
  /\ lifecycle' = "stopping"
  /\ Spawn(Admission)
  /\ pc' = "phase1"
  /\ UNCHANGED <<graphVars, entries, started, component, busy, made, waiter, woken,
                 reported, blocked, returned>>

(* Fault: the waiter is registered without a look at the task.             *)
WaitBeginsBlind ==
  /\ pc \in {"phase1", "phase2", "phase3"} /\ queue # <<>> /\ ~blocked
  /\ waiter' = [waiter EXCEPT ![Head(queue)] = "registered"]
  /\ blocked' = TRUE
  /\ woken' = FALSE
  /\ UNCHANGED <<graphVars, lifeVars, component, busy, made, task, queue, reported, callVars>>

(* ShutdownTask::wait: a completed task is reported at once, for another   *)
(* the thread registers as its waiter and blocks.                          *)
WaitBegins ==
  /\ pc \in {"phase1", "phase2", "phase3"} /\ queue # <<>> /\ ~blocked
  /\ IF Done(Head(queue))
     THEN /\ reported' = [reported EXCEPT ![Head(queue)] = Reported(Head(queue))]
          /\ queue' = Tail(queue)
          /\ UNCHANGED <<waiter, blocked, woken>>
     ELSE /\ waiter' = [waiter EXCEPT ![Head(queue)] = "registered"]
          /\ blocked' = TRUE
          /\ woken' = FALSE
          /\ UNCHANGED <<reported, queue>>
  /\ UNCHANGED <<graphVars, lifeVars, component, busy, made, task, callVars>>

WaitOver ==
  /\ blocked' = FALSE
  /\ woken' = FALSE
  /\ queue' = Tail(queue)
  /\ reported' = IF Done(Head(queue))
                 THEN [reported EXCEPT ![Head(queue)] = Reported(Head(queue))]
                 ELSE reported
  /\ UNCHANGED <<graphVars, lifeVars, component, busy, made, task, waiter, callVars>>

(* Fault: a wait that begins is already over.                              *)
WaitEndsAtOnce == blocked /\ WaitOver

(* The wait ends by the task or by the context; a stop that is not done is *)
(* left behind, to be reported by the cleanup.                             *)
WaitEnds == blocked /\ (woken \/ context = "expired") /\ WaitOver

AdmissionStopped ==
  /\ pc = "phase1" /\ queue = <<>>
  /\ Spawn(Executors)
  /\ pc' = "phase2"
  /\ UNCHANGED <<graphVars, lifeVars, component, busy, made, waiter, woken, reported,
                 blocked, context, returned, complete>>

ExecutorsStopped ==
  /\ pc = "phase2" /\ queue = <<>>
  /\ pc' = "drain1"
  /\ UNCHANGED <<graphVars, lifeVars, component, busy, made, stopVars, context, returned,
                 complete>>

(* The end of stopAfterGraphDrain: with nothing pending the lifecycle      *)
(* finishes here, whether or not the graph has drained.                    *)
OutputsStopped ==
  /\ pc = "phase3" /\ queue = <<>>
  /\ lifecycle' = "stopped"
  /\ IF hasPendingShutdown
     THEN UNCHANGED <<entries, started, reported>>
     ELSE clear /\ ReportAll
  /\ pc' = "decide"
  /\ UNCHANGED <<graphVars, component, busy, made, task, waiter, woken, queue, blocked,
                 context, returned, complete>>

(* A stop with something pending leaves the rest to the deferred cleanup.  *)
Decide ==
  /\ pc = "decide"
  /\ pc' = IF hasPendingShutdown THEN "join" ELSE "drain2"
  /\ returned' = hasPendingShutdown
  /\ UNCHANGED <<graphVars, lifeVars, component, busy, made, stopVars, context, complete>>

-----------------------------------------------------------------------------
(* The drains: two bounded by the context of stop and the final one, which *)
(* nothing bounds, before the runtime is released.                         *)
Expired == context = "expired" /\ pc # "releasing"

AfterDrain(drained) ==
  \/ /\ pc = "drain1"
     /\ Spawn(Outputs)
     /\ pc' = "phase3"
     /\ UNCHANGED returned
  \/ /\ pc = "drain2"
     /\ pc' = "join"
     /\ returned' = ~drained
     /\ UNCHANGED <<task, queue>>
  \/ /\ pc = "releasing"
     /\ pc' = "release"
     /\ UNCHANGED <<task, queue, returned>>

Drain ==
  /\ pc \in {"drain1", "drain2", "releasing"}
  /\ \/ DrainEnds /\ AfterDrain(TRUE)
     \/ DrainWaits /\ UNCHANGED <<task, queue, pc, returned>>
     \/ ~Expired /\ DrainWakes /\ UNCHANGED <<task, queue, pc, returned>>
     \/ Expired /\ DrainGivesUp /\ AfterDrain(isDrained)
  /\ UNCHANGED <<lifeVars, component, busy, made, waiter, woken, reported, blocked,
                 context, complete>>

(* Fault: the cleanup does not wait for the stops left behind.             *)
JoinAtOnce ==
  /\ pc = "join"
  /\ clear /\ ReportAll
  /\ pc' = "releasing"
  /\ UNCHANGED <<graphVars, lifecycle, component, busy, made, task, waiter, woken, queue,
                 blocked, context, returned, complete>>

(* ServiceApp::finishShutdown: every stop is joined and reported ...       *)
Join ==
  /\ pc = "join"
  /\ ~hasPendingShutdown
  /\ clear /\ ReportAll
  /\ pc' = "releasing"
  /\ UNCHANGED <<graphVars, lifecycle, component, busy, made, task, waiter, woken, queue,
                 blocked, context, returned, complete>>

(* ... then the drained runtime is released and waitForShutdown let go.    *)
Release ==
  /\ pc = "release"
  /\ ReleaseRuntime
  /\ IF complete = "pending"
     THEN complete' = "sent" /\ returned' = TRUE
     ELSE UNCHANGED <<complete, returned>>
  /\ pc' = "down"
  /\ UNCHANGED <<lifeVars, component, busy, made, stopVars, context>>

(* The deadline passes, or one of the stop tokens fires.                   *)
Expire ==
  /\ context = "open" /\ ~returned
  /\ context' = "expired"
  /\ UNCHANGED <<graphVars, lifeVars, component, busy, made, stopVars, pc, returned, complete>>

-----------------------------------------------------------------------------
(* The thread of a ShutdownTask: it stops its component, marks the task    *)
(* complete and takes the waiter in one critical section, then signals.    *)
TaskCalls(c) ==
  /\ task[c] = "spawned"
  /\ task' = [task EXCEPT ![c] = "running"]
  /\ component' = [component EXCEPT ![c] = "stopping"]
  /\ UNCHANGED <<graphVars, lifeVars, busy, made, waiter, woken, reported, queue, blocked,
                 callVars>>

TaskCompletes(c) ==
  /\ task[c] = "running"
  /\ StopMayReturn(c)
  /\ component' = [component EXCEPT ![c] = "stopped"]
  /\ task' = [task EXCEPT ![c] = "complete"]
  /\ waiter' = [waiter EXCEPT ![c] = IF @ = "registered" THEN "taken" ELSE @]
  /\ UNCHANGED <<graphVars, lifeVars, busy, made, woken, reported, queue, blocked, callVars>>

TaskSignals(c) ==
  /\ task[c] = "complete"
  /\ task' = [task EXCEPT ![c] = "signalled"]
  /\ woken' = (woken \/ (waiter[c] = "taken" /\ blocked /\ Head(queue) = c))
  /\ UNCHANGED <<graphVars, lifeVars, component, busy, made, waiter, reported, queue,
                 blocked, callVars>>

-----------------------------------------------------------------------------
(* The work of the graph.  An input invocation of a producer runs graph    *)
(* code, and so do a parallel operation, a pool's task, a timer's or a     *)
(* store's callback and a sink's completion; each may give the graph more  *)
(* work as long as the one it asks still accepts it.                       *)
GraphRuns == parallelActive > 0 \/ \E c \in Components : busy[c] > 0

InputBegins(c) ==
  /\ c \in Producers /\ component[c] # "idle"
  /\ made < MaxWork
  /\ beginInputInvocation
  /\ busy' = [busy EXCEPT ![c] = @ + 1]
  /\ made' = made + 1
  /\ UNCHANGED <<lifeVars, component, stopVars, callVars>>

InputEnds(c) ==
  /\ c \in Producers /\ busy[c] > 0
  /\ finishInputInvocation
  /\ busy' = [busy EXCEPT ![c] = @ - 1]
  /\ UNCHANGED <<lifeVars, component, made, stopVars, callVars>>

ParallelBegins ==
  /\ GraphRuns /\ made < MaxWork
  /\ parallel
  /\ made' = made + 1
  /\ UNCHANGED <<lifeVars, component, busy, stopVars, callVars>>

ParallelEnds ==
  /\ finishParallelInvocation
  /\ UNCHANGED <<lifeVars, component, busy, made, stopVars, callVars>>

WorkBegins(c) ==
  /\ c \notin Producers /\ component[c] = "running"
  /\ GraphRuns /\ made < MaxWork
  /\ busy' = [busy EXCEPT ![c] = @ + 1]
  /\ made' = made + 1
  /\ UNCHANGED <<graphVars, lifeVars, component, stopVars, callVars>>

WorkEnds(c) ==
  /\ c \notin Producers /\ busy[c] > 0
  /\ busy' = [busy EXCEPT ![c] = @ - 1]
  /\ UNCHANGED <<graphVars, lifeVars, component, made, stopVars, callVars>>

DrainedSent ==
  /\ \E e \in sending : SendDrained(e)
  /\ UNCHANGED <<lifeVars, component, busy, made, stopVars, callVars>>

-----------------------------------------------------------------------------
(* A control step that needs no component to return.                       *)
ControlStep ==
  \/ EntryStarts \/ AllStarted \/ UnwindCalls \/ Unwound
  \/ WaitBegins \/ WaitEnds
  \/ AdmissionStopped \/ ExecutorsStopped \/ OutputsStopped \/ Decide
  \/ Drain \/ Join \/ Release

ComponentStep ==
  \/ UnwindReturns
  \/ \E c \in Components : TaskCompletes(c) \/ InputEnds(c) \/ WorkEnds(c)
  \/ ParallelEnds

Next ==
  \/ \E c \in Components : add(c)
  \/ start \/ EntryFails \/ stop \/ Expire
  \/ ControlStep
  \/ \E c \in Components : TaskCalls(c) \/ TaskSignals(c)
  \/ \E c \in Components : InputBegins(c) \/ WorkBegins(c)
  \/ ParallelBegins
  \/ DrainedSent
  \/ ComponentStep

Spec == Init /\ [][Next]_vars

(* The threads of the service run: the control thread, the shutdown        *)
(* threads, the sender of a drain event, and the clock of a bounded stop.  *)
(* Nothing is assumed of the components and of the work.                   *)
Scheduling ==
  /\ WF_vars(ControlStep)
  /\ WF_vars(Expire)
  /\ WF_vars(DrainedSent)
  /\ \A c \in Components : WF_vars(TaskCalls(c)) /\ WF_vars(TaskSignals(c))

FairSpec == Spec /\ Scheduling

(* Every operation of the graph ends and every component's stop returns    *)
(* once its own operations have.                                           *)
ComponentsReturn ==
  /\ \A c \in Components :
       WF_vars(TaskCompletes(c)) /\ WF_vars(InputEnds(c)) /\ WF_vars(WorkEnds(c))
  /\ WF_vars(ParallelEnds)

-----------------------------------------------------------------------------
TypeOK ==
  /\ GraphTypeOK
  /\ lifecycle \in {"created", "starting", "running", "stopping", "stopped"}
  /\ \A k \in Kinds : entries[k] \in Seq(Components)
  /\ started \in Seq(Components) /\ queue \in Seq(Components)
  /\ component \in [Components -> {"idle", "running", "stopping", "stopped"}]
  /\ busy \in [Components -> 0..MaxWork] /\ made \in 0..MaxWork
  /\ task \in [Components -> {"none", "spawned", "running", "complete", "signalled"}]
  /\ waiter \in [Components -> {"none", "registered", "taken"}]
  /\ reported \in [Components -> Nat]
  /\ woken \in BOOLEAN /\ blocked \in BOOLEAN /\ returned \in BOOLEAN
  /\ pc \in {"created", "starting", "unwinding", "up", "phase1", "phase2", "drain1",
             "phase3", "decide", "drain2", "join", "releasing", "release", "down"}
  /\ context \in {"none", "unbounded", "open", "expired"}
  /\ complete \in {"none", "pending", "sent"}

(* Streams and callers are released only when no graph work is left: no    *)
(* input invocation, no parallel operation, no task, callback or delivery  *)
(* of a pool, store or sink, and no stop still running.  It must hold      *)
(* after every timed-out stop and after a start that failed half-way       *)
(* (stopExecutionRuntime: ownership cannot be released while an accepted   *)
(* graph operation is still running).                                      *)
QuietWhenReleased ==
  runtime = "released" =>
    /\ ~GraphRuns /\ inputInvocations = 0
    /\ ~hasPendingShutdown
    /\ \A c \in Components : component[c] \in {"idle", "stopped"}

(* Unless the context has run out, pools, timers and stores are stopped    *)
(* only when every source and component has stopped, and sinks only when   *)
(* in addition no input is left in the graph (stopBeforeGraphDrain: root   *)
(* producers are closed before the graph executors are touched).           *)
PhaseOrder ==
  [][\A c \in Components \ Producers :
       /\ task[c] = "none" /\ task'[c] = "spawned"
       /\ context # "expired"
       => /\ \A p \in Producers : component[p] \in {"idle", "stopped"}
          /\ c \in Sinks =>
               /\ inputInvocations = 0
               /\ \A d \in Components \ Sinks : component[d] \in {"idle", "stopped"}
    ]_vars

(* "Stop admission first. Sinks stop last so already accepted source work  *)
(* can still flush results": unless a stop ran out of time, no sink is     *)
(* told to stop before every other component has stopped.                  *)
SinksStopLast ==
  (\E s \in Sinks : component[s] \in {"stopping", "stopped"}) /\ context # "expired" =>
    \A c \in Components \ Sinks : component[c] \in {"idle", "stopped"}

(* If operations end and stops return, then a stop, bounded or not, in the *)
(* end releases everything and lets waitForShutdown go: no wake-up of a    *)
(* waiting phase, of a drain or of the cleanup is lost.                    *)
ShutdownCompletes == ComponentsReturn => (complete = "pending" ~> complete = "sent")
=============================================================================
