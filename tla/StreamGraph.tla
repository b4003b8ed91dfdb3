----------------------------- MODULE StreamGraph -----------------------------
(***************************************************************************)
(* Messages in the graph: the operators (operators), the callers that take *)
(* a message over a link (runtime/caller.hpp), and the calls of a          *)
(* substream (operators/substream.inl), which run a part of the graph and  *)
(* wait for its results.                                                   *)
(*                                                                         *)
(* A thread is a call of the substream, an input message of a source, or a *)
(* job: a message given to a pool, to the parallel scheduler or to the     *)
(* delay pool.  Its stack holds the consume() functions it is in, each     *)
(* with the links it has yet to serve.  The links are those the topology   *)
(* prepared: the graph does not change while it runs.                      *)
(***************************************************************************)
EXTENDS Naturals, Sequences, FiniteSets

CONSTANTS
  Nodes,    \* streams of the graph
  Kind,     \* what each stream does
  Out,      \* the links each stream serves, in the order of construction
  LinkTo,   \* the consumer of each link
  LinkCall, \* the caller each link is configured with
  Entry,    \* the substream
  Result,   \* its ResultLink
  Root,     \* the input stream
  Throwing, \* streams whose user function may throw
  MaxEmit,  \* bound: values one call of a user function emits
  Calls,    \* calls of the substream
  Timed,    \* those whose context has a deadline
  Inputs,   \* input messages
  Jobs,     \* bound: asynchronous jobs
  None

Threads == Calls \cup Inputs \cup Jobs
Sources == Calls \cup Inputs
Links == DOMAIN LinkTo

VARIABLES
  open,      \* the environment admits input invocations
  active,    \* inputInvocations_
  parallels, \* parallelActive_
  pc,        \* where each call and each input message is
  stack,     \* of each thread
  job,       \* of each job: phase, kind, node it enters, call it carries
  delivery,  \* of each thread: where it is in SubStreamCall::deliver
  owner,     \* of each call: holder of callbackMutex_
  closed,    \* of each call: closed_
  done,      \* of each call: done_ has been sent
  collector, \* of each call: collector_ and context_ are set
  outcome,   \* of each call: completed_ or error_, once the collector has answered
  stopped,   \* calls whose stop token was requested
  expired,   \* calls whose deadline has passed
  watching,  \* calls whose stop callbacks are registered
  canceller, \* of each call: where the stop callback is
  verdict    \* of each call: how it ended

graphVars == <<stack, job>>
envVars == <<open, active, parallels>>
subVars == <<closed, done, collector, outcome>>
ctxVars == <<stopped, expired, watching, canceller>>
vars == <<envVars, pc, graphVars, delivery, owner, subVars, ctxVars, verdict>>

Idle == [phase |-> "free", kind |-> "pool", node |-> Entry, call |-> None]

Init ==
  /\ open = TRUE /\ active = 0 /\ parallels = 0
  /\ pc = [s \in Sources |-> "idle"]
  /\ stack = [a \in Threads |-> <<>>]
  /\ job = [j \in Jobs |-> Idle]
  /\ delivery = [a \in Threads |-> "no"]
  /\ owner = [c \in Calls |-> None]
  /\ closed = [c \in Calls |-> FALSE]
  /\ done = [c \in Calls |-> FALSE]
  /\ collector = [c \in Calls |-> FALSE]
  /\ outcome = [c \in Calls |-> "none"]
  /\ stopped = {} /\ expired = {} /\ watching = {}
  /\ canceller = [c \in Calls |-> "idle"]
  /\ verdict = [c \in Calls |-> "none"]

(* The call a thread's context carries: the local value of the substream.  *)
CallOf(a) == IF a \in Calls THEN a ELSE IF a \in Jobs THEN job[a].call ELSE None

(* Context::cancelled().                                                   *)
cancelled(c) == c \in stopped \cup expired

-----------------------------------------------------------------------------
(* What a stream does with a message: the links it serves, in order.       *)

isAsync(l) == LinkCall[l] # "direct"

(* Split: two stable passes over the branches, the asynchronous first.     *)
dispatchBranches(n) ==
  SelectSeq(Out[n], isAsync) \o SelectSeq(Out[n], LAMBDA l : ~isAsync(l))

(* What the user function may emit through its collectors, and after how   *)
(* many values it may throw, which None stands for.                        *)
Emissions(links) == UNION {[1..k -> links] : k \in 0..MaxEmit}
Thrown(n, emissions) ==
  IF n \in Throwing THEN {Append(e, None) : e \in emissions} ELSE {}
Calling(n, emissions) == emissions \cup Thrown(n, emissions)

(* map, flatmap, keyby: any number of values on the one output; process:   *)
(* on the output and the error output; filter: the value or nothing.       *)
MapImpl(n) == Calling(n, Emissions({Out[n][i] : i \in DOMAIN Out[n]}))
FilterImpl(n) == Calling(n, {<<>>, Out[n]})

(* One branch, or an exception for an index without a branch.              *)
CaseImpl(n) == {<<Out[n][i]>> : i \in DOMAIN Out[n]} \cup {<<None>>}

(* A delay that is not positive is none; a positive one that the pool does *)
(* not take is an exception.  Schedule, below, is one that it takes.       *)
DelayImpl(n) == {Out[n], <<None>>}

(* input, link, merge, sink and result: what they have, in order.          *)
Served(n) ==
  CASE Kind[n] \in {"map", "process"} -> MapImpl(n)
    [] Kind[n] = "filter" -> FilterImpl(n)
    [] Kind[n] = "split" -> {dispatchBranches(n)}
    [] Kind[n] = "case" -> CaseImpl(n)
    [] Kind[n] = "delay" -> DelayImpl(n)
    [] OTHER -> {Out[n]}

(* The stack of a thread once it has begun to serve the next link of its   *)
(* innermost stream; a stream with no more links has nothing left to do.   *)
Top(a) == Head(stack[a])

Below(a) ==
  IF Len(Top(a).todo) = 1 THEN Tail(stack[a])
  ELSE <<[Top(a) EXCEPT !.todo = Tail(@)]>> \o Tail(stack[a])
Above(n, todo, below) ==
  IF todo = <<>> THEN below ELSE <<[at |-> n, todo |-> todo]>> \o below

FreeJobs == {j \in Jobs : job[j].phase = "free"}
FreeJob == CHOOSE j \in FreeJobs : TRUE
NewJob(kind, n, a) == [phase |-> "queued", kind |-> kind, node |-> n, call |-> CallOf(a)]
ParallelEnds(a) == IF a \in Jobs /\ job[a].kind = "parallel" THEN 1 ELSE 0

(* Fault: the exception passes the input invocation by.                    *)
UnwindOpen(a) ==
  /\ stack' = [stack EXCEPT ![a] = <<>>]
  /\ job' = IF a \in Jobs THEN [job EXCEPT ![a] = Idle] ELSE job
  /\ parallels' = parallels - ParallelEnds(a)
  /\ pc' = IF a \in Sources
           THEN [pc EXCEPT ![a] = IF a \in Calls THEN "leaving" ELSE "returned"]
           ELSE pc
  /\ verdict' = IF a \in Calls THEN [verdict EXCEPT ![a] = "threw"] ELSE verdict
  /\ UNCHANGED <<active, delivery>>

(* An exception leaves every consume() of the thread.  A call goes on to   *)
(* its destructors, an input message ends its invocation, and a job's      *)
(* exception is dropped where the job was started.                         *)
Unwind(a) ==
  /\ stack' = [stack EXCEPT ![a] = <<>>]
  /\ job' = IF a \in Jobs THEN [job EXCEPT ![a] = Idle] ELSE job
  /\ parallels' = parallels - ParallelEnds(a)
  /\ active' = IF a \in Inputs THEN active - 1 ELSE active
  /\ pc' = IF a \in Sources
           THEN [pc EXCEPT ![a] = IF a \in Calls THEN "leaving" ELSE "returned"]
           ELSE pc
  /\ verdict' = IF a \in Calls THEN [verdict EXCEPT ![a] = "threw"] ELSE verdict
  /\ UNCHANGED delivery

(* A positive delay: the message is given to the delay pool, with its      *)
(* context but without the completion of the caller.                       *)
Schedule(a, n, below, J) ==
  /\ Kind[n] = "delay"
  /\ ~cancelled(CallOf(a))
  /\ FreeJobs # {}
  /\ job' = [J EXCEPT ![FreeJob] = NewJob("delay", n, a)]
  /\ stack' = [stack EXCEPT ![a] = below]
  /\ UNCHANGED <<active, parallels, pc, delivery, verdict>>

(* consume() of stream n on thread a; a result is delivered to the call    *)
(* whose context it has, and ignored when there is none.                   *)
consume(a, n, below, J) ==
  \/ \E todo \in Served(n) :
       /\ stack' = [stack EXCEPT ![a] = Above(n, todo, below)]
       /\ delivery' = [delivery EXCEPT ![a] =
                         IF n = Result /\ CallOf(a) # None THEN "locking" ELSE "no"]
       /\ job' = J
       /\ UNCHANGED <<active, parallels, pc, verdict>>
  \/ Schedule(a, n, below, J)

-----------------------------------------------------------------------------
(* A thread serves its next link.                                          *)
Serving(a, callers) ==
  /\ stack[a] # <<>>
  /\ delivery[a] = "no"
  /\ Head(Top(a).todo) \in {l \in Links : LinkCall[l] \in callers}

Target(a) == LinkTo[Head(Top(a).todo)]

(* DirectCaller: on this thread; its async flag only moves it forward.     *)
DirectCaller(a) ==
  /\ Serving(a, {"direct", "directAsync"})
  /\ consume(a, Target(a), Below(a), job)
  /\ UNCHANGED <<open, owner, subVars, ctxVars>>

(* TaskPoolCaller, PriorityTaskPoolCaller: addTask refuses a cancelled     *)
(* context.                                                                *)
TaskPoolCaller(a) ==
  /\ Serving(a, {"pool"})
  /\ ~cancelled(CallOf(a))
  /\ FreeJobs # {}
  /\ job' = [job EXCEPT ![FreeJob] = NewJob("pool", Target(a), a)]
  /\ stack' = [stack EXCEPT ![a] = Below(a)]
  /\ UNCHANGED <<envVars, pc, delivery, owner, subVars, ctxVars, verdict>>

(* A rejected task is logged, and the stream serves its next link.         *)
TaskPoolRejects(a) ==
  /\ Serving(a, {"pool"})
  /\ stack' = [stack EXCEPT ![a] = Below(a)]
  /\ UNCHANGED <<envVars, pc, job, delivery, owner, subVars, ctxVars, verdict>>

ParallelCaller(a) ==
  /\ Serving(a, {"parallel"})
  /\ FreeJobs # {}
  /\ parallels' = parallels + 1
  /\ job' = [job EXCEPT ![FreeJob] = NewJob("parallel", Target(a), a)]
  /\ stack' = [stack EXCEPT ![a] = Below(a)]
  /\ UNCHANGED <<open, active, pc, delivery, owner, subVars, ctxVars, verdict>>

(* parallel() throws when the scheduler has stopped or its post fails.     *)
ParallelThrows(a) ==
  /\ Serving(a, {"parallel"})
  /\ Unwind(a)
  /\ UNCHANGED <<open, owner, subVars, ctxVars>>

(* A user function, or a stream, throws.                                   *)
Throw(a) ==
  /\ stack[a] # <<>>
  /\ delivery[a] = "no"
  /\ Head(Top(a).todo) = None
  /\ Unwind(a)
  /\ UNCHANGED <<open, owner, subVars, ctxVars>>

(* A job starts in its consumer.  A delayed message whose context was      *)
(* cancelled meanwhile is dropped; another goes on behind the delay.       *)
JobStarts(j) ==
  /\ job[j].phase = "queued"
  /\ LET J == [job EXCEPT ![j].phase = "running"] IN
     IF job[j].kind # "delay"
     THEN consume(j, job[j].node, <<>>, J)
     ELSE /\ job' = J
          /\ stack' = [stack EXCEPT ![j] =
                         IF cancelled(job[j].call) THEN <<>>
                         ELSE Above(job[j].node, Out[job[j].node], <<>>)]
          /\ UNCHANGED <<active, parallels, pc, delivery, verdict>>
  /\ UNCHANGED <<open, owner, subVars, ctxVars>>

(* The outermost consume() of a thread returns.                            *)
Finish(a) ==
  /\ stack[a] = <<>>
  /\ delivery[a] = "no"
  /\ IF a \in Jobs THEN job[a].phase = "running" ELSE pc[a] = "body"
  /\ job' = IF a \in Jobs THEN [job EXCEPT ![a] = Idle] ELSE job
  /\ parallels' = parallels - ParallelEnds(a)
  /\ active' = IF a \in Inputs THEN active - 1 ELSE active
  /\ pc' = IF a \in Sources
           THEN [pc EXCEPT ![a] = IF a \in Calls THEN "waiting" ELSE "returned"]
           ELSE pc
  /\ UNCHANGED <<open, stack, delivery, owner, subVars, ctxVars, verdict>>

-----------------------------------------------------------------------------
(* SubStreamCall::deliver, under callbackMutex_.                           *)

Delivering(a, place) == delivery[a] = place
Leaves(a) == delivery' = [delivery EXCEPT ![a] = "no"]

(* Fault: a callback that runs does not keep the next one out.             *)
deliverUnlocked(a) ==
  LET c == CallOf(a) IN
  /\ Delivering(a, "locking")
  /\ IF closed[c]
     THEN Leaves(a) /\ UNCHANGED <<owner, closed>>
     ELSE /\ owner' = [owner EXCEPT ![c] = a]
          /\ closed' = [closed EXCEPT ![c] = cancelled(c)]
          /\ delivery' = [delivery EXCEPT ![a] =
                            IF cancelled(c) THEN "closing" ELSE "out"]
  /\ UNCHANGED <<envVars, pc, graphVars, done, collector, outcome, ctxVars, verdict>>

(* A closed call drops the result, a cancelled one closes; otherwise the   *)
(* collector is called.                                                    *)
deliver(a) ==
  LET c == CallOf(a) IN
  /\ Delivering(a, "locking")
  /\ owner[c] = None
  /\ IF closed[c]
     THEN Leaves(a) /\ UNCHANGED <<owner, closed>>
     ELSE /\ owner' = [owner EXCEPT ![c] = a]
          /\ closed' = [closed EXCEPT ![c] = cancelled(c)]
          /\ delivery' = [delivery EXCEPT ![a] =
                            IF cancelled(c) THEN "closing" ELSE "out"]
  /\ UNCHANGED <<envVars, pc, graphVars, done, collector, outcome, ctxVars, verdict>>

(* The collector answers: it wants more, has what it needs, or throws.     *)
outMore(a) ==
  /\ Delivering(a, "out")
  /\ owner' = [owner EXCEPT ![CallOf(a)] = None]
  /\ Leaves(a)
  /\ UNCHANGED <<envVars, pc, graphVars, subVars, ctxVars, verdict>>

outLast(a) ==
  /\ Delivering(a, "out")
  /\ \E answer \in {"completed", "error"} :
       outcome' = [outcome EXCEPT ![CallOf(a)] = answer]
  /\ closed' = [closed EXCEPT ![CallOf(a)] = TRUE]
  /\ delivery' = [delivery EXCEPT ![a] = "closing"]
  /\ UNCHANGED <<envVars, pc, graphVars, owner, done, collector, ctxVars, verdict>>

(* Fault: the call is closed but its waiter is not told.                   *)
SendNot(a) ==
  /\ Delivering(a, "closing")
  /\ owner' = [owner EXCEPT ![CallOf(a)] = None]
  /\ Leaves(a)
  /\ UNCHANGED <<envVars, pc, graphVars, closed, done, collector, outcome, ctxVars, verdict>>

(* done_.Send(), and the lock is released.                                 *)
Send(a) ==
  /\ Delivering(a, "closing")
  /\ done' = [done EXCEPT ![CallOf(a)] = TRUE]
  /\ owner' = [owner EXCEPT ![CallOf(a)] = None]
  /\ Leaves(a)
  /\ UNCHANGED <<envVars, pc, graphVars, closed, collector, outcome, ctxVars, verdict>>

-----------------------------------------------------------------------------
(* SubStream::consume, and an input message.                               *)

(* A cancelled context and a stopping environment are refused; otherwise   *)
(* the invocation is counted.  An input message goes straight to the graph.*)
Begin(s) ==
  /\ pc[s] = "idle"
  /\ IF cancelled(s) \/ ~open
     THEN /\ pc' = [pc EXCEPT ![s] = "returned"]
          /\ verdict' = IF s \in Calls THEN [verdict EXCEPT ![s] = "refused"] ELSE verdict
          /\ UNCHANGED <<active, stack, collector>>
     ELSE /\ active' = active + 1
          /\ pc' = [pc EXCEPT ![s] = IF s \in Calls THEN "calling" ELSE "body"]
          /\ stack' = IF s \in Calls THEN stack
                      ELSE [stack EXCEPT ![s] = Above(Root, Out[Root], <<>>)]
          /\ collector' = IF s \in Calls THEN [collector EXCEPT ![s] = TRUE]
                          ELSE collector
          /\ UNCHANGED verdict
  /\ UNCHANGED <<open, parallels, job, delivery, owner, closed, done, outcome, ctxVars>>

(* Stop callbacks are registered, which closes the call at once when the   *)
(* token was requested meanwhile, and the body is entered.                 *)
Register(c) ==
  /\ pc[c] = "calling"
  /\ pc' = [pc EXCEPT ![c] = "body"]
  /\ watching' = watching \cup {c}
  /\ closed' = [closed EXCEPT ![c] = c \in stopped]
  /\ done' = [done EXCEPT ![c] = c \in stopped]
  /\ stack' = [stack EXCEPT ![c] = Above(Entry, Out[Entry], <<>>)]
  /\ UNCHANGED <<envVars, job, delivery, owner, collector, outcome, stopped, expired,
                 canceller, verdict>>

(* SubStreamCall::wait: the result is in, or the deadline has passed.      *)
WaitDone(c) ==
  /\ pc[c] = "waiting"
  /\ done[c]
  /\ pc' = [pc EXCEPT ![c] = "draining"]
  /\ UNCHANGED <<envVars, graphVars, delivery, owner, subVars, ctxVars, verdict>>

WaitTimeout(c) ==
  /\ pc[c] = "waiting"
  /\ c \in expired /\ ~done[c]
  /\ closed' = [closed EXCEPT ![c] = TRUE]
  /\ pc' = [pc EXCEPT ![c] = "timeout"]
  /\ UNCHANGED <<envVars, graphVars, delivery, owner, done, collector, outcome, ctxVars, verdict>>

TimeoutSend(c) ==
  /\ pc[c] = "timeout"
  /\ done' = [done EXCEPT ![c] = TRUE]
  /\ pc' = [pc EXCEPT ![c] = "draining"]
  /\ UNCHANGED <<envVars, graphVars, delivery, owner, closed, collector, outcome, ctxVars, verdict>>

(* Fault: a cancelled context hides what the collector answered.           *)
VerdictCancelled(c) ==
  IF cancelled(c) \/ outcome[c] = "none" THEN "cancelled" ELSE outcome[c]

(* error_ is rethrown, and without completed_ the call counts as cancelled.*)
Verdict(c) == IF outcome[c] = "none" THEN "cancelled" ELSE outcome[c]

(* The rest of wait, under callbackMutex_.                                 *)
Drain(c) ==
  /\ pc[c] = "draining"
  /\ owner[c] = None
  /\ collector' = [collector EXCEPT ![c] = FALSE]
  /\ verdict' = [verdict EXCEPT ![c] = Verdict(c)]
  /\ pc' = [pc EXCEPT ![c] = "leaving"]
  /\ UNCHANGED <<envVars, graphVars, delivery, owner, closed, done, outcome, ctxVars>>

(* The destructors, in order: the stop callbacks, which wait for one that  *)
(* runs, the guard's cleanup(), and the invocation.                        *)
Leave(c) ==
  /\ pc[c] = "leaving"
  /\ canceller[c] \notin {"running", "closing"}
  /\ watching' = watching \ {c}
  /\ pc' = [pc EXCEPT ![c] = "closing"]
  /\ UNCHANGED <<envVars, graphVars, delivery, owner, subVars, stopped, expired,
                 canceller, verdict>>

CleanupClose(c) ==
  /\ pc[c] = "closing"
  /\ closed' = [closed EXCEPT ![c] = TRUE]
  /\ done' = [done EXCEPT ![c] = TRUE]
  /\ pc' = [pc EXCEPT ![c] = "cleaning"]
  /\ UNCHANGED <<envVars, graphVars, delivery, owner, collector, outcome, ctxVars, verdict>>

(* Fault: cleanup() does not wait for a callback that runs.                *)
CleanupNoLock(c) ==
  /\ pc[c] = "cleaning"
  /\ collector' = [collector EXCEPT ![c] = FALSE]
  /\ active' = active - 1
  /\ pc' = [pc EXCEPT ![c] = "returned"]
  /\ UNCHANGED <<open, parallels, graphVars, delivery, owner, closed, done, outcome,
                 ctxVars, verdict>>

Cleanup(c) ==
  /\ pc[c] = "cleaning"
  /\ owner[c] = None
  /\ collector' = [collector EXCEPT ![c] = FALSE]
  /\ active' = active - 1
  /\ pc' = [pc EXCEPT ![c] = "returned"]
  /\ UNCHANGED <<open, parallels, graphVars, delivery, owner, closed, done, outcome,
                 ctxVars, verdict>>

-----------------------------------------------------------------------------
(* The context of a call, and the environment.                             *)

(* A stop token is requested.  The stop callback, if registered, is        *)
(* close() on the requesting thread.                                       *)
Cancel(c) ==
  /\ c \notin stopped
  /\ pc[c] # "returned"
  /\ stopped' = stopped \cup {c}
  /\ canceller' = [canceller EXCEPT ![c] = IF c \in watching THEN "running" ELSE "gone"]
  /\ UNCHANGED <<envVars, pc, graphVars, delivery, owner, subVars, expired, watching, verdict>>

CancelClose(c) ==
  /\ canceller[c] = "running"
  /\ canceller' = [canceller EXCEPT ![c] = "closing"]
  /\ closed' = [closed EXCEPT ![c] = TRUE]
  /\ UNCHANGED <<envVars, pc, graphVars, delivery, owner, done, collector, outcome,
                 stopped, expired, watching, verdict>>

CancelSend(c) ==
  /\ canceller[c] = "closing"
  /\ canceller' = [canceller EXCEPT ![c] = "gone"]
  /\ done' = [done EXCEPT ![c] = TRUE]
  /\ UNCHANGED <<envVars, pc, graphVars, delivery, owner, closed, collector, outcome,
                 stopped, expired, watching, verdict>>

(* The deadline passes, which nothing but the clock announces.             *)
Expire(c) ==
  /\ c \in Timed \ expired
  /\ pc[c] # "returned"
  /\ expired' = expired \cup {c}
  /\ UNCHANGED <<envVars, pc, graphVars, delivery, owner, subVars, stopped, watching,
                 canceller, verdict>>

(* The environment stops admitting input invocations.                      *)
CloseInputs ==
  /\ open
  /\ open' = FALSE
  /\ UNCHANGED <<active, parallels, pc, graphVars, delivery, owner, subVars, ctxVars, verdict>>

-----------------------------------------------------------------------------
Serve(a) == DirectCaller(a) \/ TaskPoolCaller(a) \/ TaskPoolRejects(a)
              \/ ParallelCaller(a) \/ ParallelThrows(a) \/ Throw(a) \/ Finish(a)
Deliver(a) == deliver(a) \/ Send(a)
Answer(a) == outMore(a) \/ outLast(a)
Call(c) == Register(c) \/ WaitDone(c) \/ WaitTimeout(c) \/ TimeoutSend(c) \/ Drain(c)
             \/ Leave(c) \/ CleanupClose(c) \/ Cleanup(c)
StopCallback(c) == CancelClose(c) \/ CancelSend(c)

Next ==
  \/ \E a \in Threads : Serve(a) \/ Deliver(a) \/ Answer(a)
  \/ \E j \in Jobs : JobStarts(j)
  \/ \E s \in Sources : Begin(s)
  \/ \E c \in Calls : Call(c) \/ StopCallback(c) \/ Cancel(c) \/ Expire(c)
  \/ CloseInputs

Spec == Init /\ [][Next]_vars

(* What a thread does next, outside a collector.                           *)
Run(a) == Serve(a) \/ Deliver(a) \/ (a \in Jobs /\ JobStarts(a)) \/ (a \in Calls /\ Call(a))

(* Some thread that can go on does.  This is less than the scheduler gives,*)
(* but a message has finitely many steps, so no thread is put off for ever.*)
(* Nobody has to call, to cancel or to stop, and a deadline may be far     *)
(* away.                                                                   *)
Progress == (\E a \in Threads : Run(a)) \/ (\E c \in Calls : StopCallback(c))
FairSpec == Spec /\ WF_vars(Progress)

(* Collectors are user code: that they return is a hypothesis.             *)
CollectorsReturn == WF_vars(\E a \in Threads : Answer(a))

-----------------------------------------------------------------------------
(* The types of the state.                                                 *)
TypeOK ==
  /\ open \in BOOLEAN /\ active \in 0..Cardinality(Sources)
  /\ parallels \in 0..Cardinality(Jobs)
  /\ pc \in [Sources -> {"idle", "calling", "body", "waiting", "timeout", "draining",
                         "leaving", "closing", "cleaning", "returned"}]
  /\ \A a \in Threads : \A i \in DOMAIN stack[a] :
       /\ stack[a][i].at \in Nodes
       /\ stack[a][i].todo \in Seq(Links \cup {None}) \ {<<>>}
  /\ job \in [Jobs -> [phase : {"free", "queued", "running"},
                       kind : {"pool", "parallel", "delay"},
                       node : Nodes, call : Calls \cup {None}]]
  /\ delivery \in [Threads -> {"no", "locking", "out", "closing"}]
  /\ owner \in [Calls -> Threads \cup {None}]
  /\ closed \in [Calls -> BOOLEAN] /\ done \in [Calls -> BOOLEAN]
  /\ collector \in [Calls -> BOOLEAN]
  /\ outcome \in [Calls -> {"none", "completed", "error"}]
  /\ stopped \subseteq Calls /\ expired \subseteq Timed /\ watching \subseteq Calls
  /\ canceller \in [Calls -> {"idle", "running", "closing", "gone"}]
  /\ verdict \in [Calls -> {"none", "refused", "threw", "completed", "error", "cancelled"}]

(* A collector runs only while the call that owns it is still inside       *)
(* SubStream::consume and has not dropped it, whichever thread brings the  *)
(* result and however late, and a thread that is about to find the call    *)
(* open finds its context: what deliver() refers to is alive.              *)
CollectorAlive ==
  \A a \in Threads :
    LET c == CallOf(a) IN
    \/ delivery[a] = "out"
    \/ delivery[a] = "locking" /\ owner[c] = None /\ ~closed[c]
    => collector[c] /\ pc[c] # "returned"

(* "Callbacks within one call are serialized": of all threads that bring   *)
(* results of a call, at most one is in its collector.                     *)
CallbacksSerialized ==
  \A a, b \in Threads :
    delivery[a] = "out" /\ delivery[b] = "out" /\ CallOf(a) = CallOf(b) => a = b

(* A call that ended in wait() reports what its collector answered, even   *)
(* when cancellation or the deadline came while the callback ran: success  *)
(* is neither lost nor made up.                                            *)
VerdictIsAnswer ==
  \A c \in Calls : pc[c] = "returned" /\ verdict[c] \notin {"refused", "threw"} =>
    verdict[c] = IF outcome[c] = "none" THEN "cancelled" ELSE outcome[c]

(* The counters of the environment agree with the threads, also after      *)
(* exceptions: every invocation and every parallel job is ended once.  A   *)
(* drained environment has no source's message on its thread and, with     *)
(* CollectorAlive, no collector running.                                   *)
CountersExact ==
  /\ active = Cardinality({s \in Sources : pc[s] \notin {"idle", "returned"}})
  /\ parallels = Cardinality({j \in Jobs : job[j].phase # "free" /\ job[j].kind = "parallel"})

(* A call whose collector has answered, or whose context is cancelled,     *)
(* returns, whatever its messages still do.                                *)
CallsReturn ==
  CollectorsReturn =>
    \A c \in Calls : pc[c] # "idle" /\ (outcome[c] # "none" \/ cancelled(c))
                       ~> pc[c] = "returned"

=============================================================================
