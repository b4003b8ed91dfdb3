-------------------------- MODULE QueuedPoolStrand --------------------------
(***************************************************************************)
(* The handlers on the strand preserve IInv.  What a step may do to tasks  *)
(* and to busy, StepOK, is proved along with it.                           *)
(***************************************************************************)
EXTENDS QueuedPoolCallers

(* What a step may do to the phases of the tasks and to the number that    *)
(* execute.                                                                *)
Move(a, b) ==
  \/ a = b
  \/ a = "idle" /\ b \in {"registered", "rejected"}
  \/ a = "registered" /\ b \in {"admitted", "rejected"}
  \/ a = "admitted" /\ b \in {"posted", "rejected"}
  \/ a = "posted" /\ b \in {"queued", "running"}
  \/ a = "queued" /\ b = "running"
  \/ a = "running" /\ b = "returned"
  \/ a = "returned" /\ b = "done"
StepOK ==
  /\ \A t \in Tasks : Move(pool.phase[t], pool'.phase[t])
  /\ pool'.busy > pool.busy => pool'.busy <= target'

(* A handler that ends in dispatch: what it must have established before.  *)
LEMMA DispatchInv ==
  ASSUME IInv, NEW p \in PoolState, NEW d \in TimerState, NEW f \in Flags,
         QueueOK(p), BusyOK(p), target' \in Nat \ {0},
         activity' \in [closed : BOOLEAN, started : BOOLEAN, count : Nat],
         activity'.closed = activity.closed,
         activity'.count = Cardinality(AcceptedIn(p)),
         manager' \in [active : BOOLEAN, waiting : BOOLEAN, lifecycle : BOOLEAN],
         f.stopping => activity.closed,
         f.completed => f.stopping /\ activity'.count = 0,
         flags.completed => f.completed,
         strand' \in Seq(Handlers),
         StrandOK(strand', p.phase, activity.closed),
         UNCHANGED NotStrand,
         p.busy <= pool.busy,
         \A t \in Tasks : \/ p.phase[t] = pool.phase[t]
                          \/ pool.phase[t] = "posted" /\ p.phase[t] = "queued"
                          \/ pool.phase[t] = "returned" /\ p.phase[t] = "done",
         dispatch(p, d, f, target', activity'.count)
  PROVE  IInv' /\ StepOK
<1>0. TypeOK /\ deadline \in [Tasks -> Times] /\ activity'.count \in Nat /\ CallersOK
  BY ZenonT(60) DEF IInv, TypeOK
<1>1. DispatchResult(p, f, target', activity'.count)
  BY ZenonT(60), <1>0, DispatchFacts
<1>2. TypeOK'
  BY ZenonT(60), <1>0, <1>1 DEF TypeOK, DispatchResult, NotStrand
<1>3. CountOK'
  BY ZenonT(60), <1>1 DEF DispatchResult, CountOK
<1>4. StrandOK(strand', pool'.phase, activity'.closed)
  <2>1. \A t \in Tasks : pool'.phase[t] = p.phase[t]
                         \/ p.phase[t] \notin {"posted", "returned"}
    BY ZenonT(60), <1>1 DEF DispatchResult
  <2>2. /\ strand' \in Seq(Handlers) /\ StrandOK(strand', p.phase, activity.closed)
        /\ activity.closed => activity'.closed
    OBVIOUS
  <2> QED
    BY ONLY <2>1, <2>2, HandlersKept
<1>5. DrainOK'
  BY ZenonT(60), <1>1 DEF DrainOK, DispatchResult
<1>6. CallersOK'
  BY ZenonT(60), <1>0, <1>1 DEF CallersOK, DispatchResult, NotStrand
<1>7. NoStalledQueue'
  BY ZenonT(60), <1>1 DEF NoStalledQueue, DispatchResult
<1>8. IInv'
  BY ZenonT(60), <1>1, <1>2, <1>3, <1>4, <1>5, <1>6, <1>7 DEF IInv, DispatchResult
<1>9. ASSUME NEW t \in Tasks
      PROVE  Move(pool.phase[t], pool'.phase[t])
  <2>1. \/ pool'.phase[t] = p.phase[t]
        \/ p.phase[t] = "queued" /\ pool'.phase[t] = "running"
    BY ZenonT(60), <1>1 DEF DispatchResult
  <2>2. \/ p.phase[t] = pool.phase[t]
        \/ pool.phase[t] = "posted" /\ p.phase[t] = "queued"
        \/ pool.phase[t] = "returned" /\ p.phase[t] = "done"
    OBVIOUS
  <2> QED
    BY ONLY <2>1, <2>2 DEF Move
<1>10. pool'.busy > pool.busy => pool'.busy <= target'
  <2>1. pool.busy \in Nat /\ pool'.busy \in Nat /\ p.busy \in Nat /\ target' \in Nat
    BY <1>0, <1>2 DEF TypeOK, PoolState
  <2>2. p.busy <= pool.busy /\ (pool'.busy > p.busy => pool'.busy <= target')
    BY ZenonT(60), <1>1 DEF DispatchResult
  <2> QED
    BY ONLY <2>1, <2>2
<1> QED
  BY ZenonT(60), <1>8, <1>9, <1>10 DEF StepOK

(* What a handler knows of the strand when it starts.                      *)
LEMMA RunningFacts ==
  ASSUME IInv, NEW op, Running(op)
  PROVE  /\ strand' \in Seq(Handlers)
         /\ StrandOK(strand', pool.phase, activity.closed)
         /\ Head(strand) \in Handlers /\ Head(strand).op = op
         /\ op \in {"insert", "cancel", "done"} => Head(strand).task \in Tasks
         /\ HandlerOK(Head(strand), pool.phase, activity.closed)
<1>1. strand \in Seq(Handlers) /\ StrandOK(strand, pool.phase, activity.closed)
      /\ strand # <<>> /\ strand' = Tail(strand) /\ Head(strand).op = op
  BY DEF IInv, TypeOK, Running
<1>2. \A i \in 1..Len(strand) : HandlerOK(strand[i], pool.phase, activity.closed)
  BY <1>1 DEF StrandOK
<1>3. /\ Tail(strand) \in Seq(Handlers)
      /\ StrandOK(Tail(strand), pool.phase, activity.closed)
      /\ 1 \in 1..Len(strand) /\ Head(strand) = strand[1] /\ Head(strand) \in Handlers
  BY <1>1, <1>2, StrandPop
<1>4. op \in {"insert", "cancel", "done"} => Head(strand).task \in Tasks
  BY SMTT(30), <1>1, <1>3 DEF Handlers
<1> QED
  BY ZenonT(60), <1>1, <1>2, <1>3, <1>4

(* The handler of a task is the only one of its kind: once it runs, the    *)
(* others on the strand do not depend on that task's phase.                *)
LEMMA RunningTask ==
  ASSUME IInv, NEW op \in {"insert", "done"}, Running(op), NEW phase2,
         \A u \in Tasks : u # Head(strand).task => phase2[u] = pool.phase[u]
  PROVE  StrandOK(strand', phase2, activity.closed)
<1> DEFINE t == Head(strand).task
<1>1. strand \in Seq(Handlers) /\ StrandOK(strand, pool.phase, activity.closed)
      /\ strand # <<>> /\ strand' = Tail(strand) /\ Head(strand).op = op
  BY DEF IInv, TypeOK, Running
<1>2. /\ Len(strand) \in Nat /\ 1 \in 1..Len(strand)
      /\ Head(strand) = strand[1] /\ Head(strand) \in Handlers
  <2>1. \A i \in 1..Len(strand) : HandlerOK(strand[i], pool.phase, activity.closed)
    BY <1>1 DEF StrandOK
  <2> QED
    BY <1>1, <2>1, StrandPop
<1>3. ASSUME NEW i \in 1..Len(strand), i # 1
      PROVE  HandlerOK(strand[i], phase2, activity.closed)
  <2>1. strand[i] \in Handlers /\ HandlerOK(strand[i], pool.phase, activity.closed)
    BY <1>1, ElementOfSeq DEF StrandOK
  <2>2. strand[i] # strand[1]
    BY SMTT(30), <1>1, <1>2, <1>3 DEF StrandOK
  <2>3. CASE strand[i].op \notin {"insert", "done"}
    BY <2>1, <2>3 DEF HandlerOK
  <2>4. CASE strand[i].op \in {"insert", "done"}
    <3>1. strand[i].task \in Tasks
      BY SMTT(30), <2>1, <2>4 DEF Handlers
    <3>2. strand[i].task # t
      <4>1. SUFFICES ASSUME strand[i].task = t PROVE FALSE
        OBVIOUS
      <4>2. HandlerOK(strand[1], pool.phase, activity.closed)
        BY SMTT(30), <1>1, <1>2 DEF StrandOK
      <4>3. strand[i].op = op
        BY SMTT(30), <1>1, <1>2, <2>1, <2>4, <4>1, <4>2 DEF HandlerOK
      <4>4. /\ strand[i] = [op |-> op, task |-> t]
            /\ strand[1] = [op |-> op, task |-> t]
        BY <1>1, <1>2, <2>1, <2>4, <4>1, <4>3 DEF Handlers
      <4> QED
        BY <2>2, <4>4
    <3> QED
      BY SMTT(30), <2>1, <3>1, <3>2 DEF HandlerOK
  <2> QED
    BY SMTT(30), <2>3, <2>4
<1> QED
  BY SMTT(30), <1>1, <1>3, StrandPop

(* The handler that queues an admitted task and dispatches.                *)
LEMMA RunInsertInv ==
  ASSUME IInv, RunInsert
  PROVE  IInv' /\ StepOK
<1> DEFINE t == Head(strand).task
           p1 == insert(pool, t)
           p2 == IF t \in cancelled \/ deadline[t] <= now THEN promote(p1, t)
                 ELSE IF deadline[t] # None
                      THEN [p1 EXCEPT !.deadlines = @ \cup {t}] ELSE p1
<1>0. /\ TypeOK /\ pool \in PoolState /\ timer \in TimerState /\ flags \in Flags
      /\ QueueOK(pool) /\ BusyOK(pool) /\ CountOK /\ DrainOK
      /\ target \in Nat \ {0}
      /\ activity \in [closed : BOOLEAN, started : BOOLEAN, count : Nat]
      /\ manager \in [active : BOOLEAN, waiting : BOOLEAN, lifecycle : BOOLEAN]
  BY DEF IInv, TypeOK
<1>1. Running("insert") /\ UNCHANGED <<activity, target, manager, NotStrand>>
  BY SMTT(30) DEF RunInsert
<1>2. strand' \in Seq(Handlers) /\ t \in Tasks /\ pool.phase[t] = "posted"
  BY SMTT(60), <1>1, RunningFacts DEF HandlerOK
<1>3. dispatch(p2, timer, flags, target, activity.count)
  BY SMTT(30) DEF RunInsert
<1> HIDE DEF t
<1>4. /\ p1 \in PoolState /\ QueueOK(p1) /\ p1.busy = pool.busy
      /\ p1.phase = [pool.phase EXCEPT ![t] = "queued"]
  BY ZenonT(60), <1>0, <1>2, InsertFacts
<1> HIDE DEF p1
<1>5. /\ p2 \in PoolState /\ QueueOK(p2)
      /\ p2.phase = p1.phase /\ p2.busy = p1.busy
  <2>1. CASE t \in cancelled \/ deadline[t] <= now
    BY <1>2, <1>4, <2>1, PromoteFacts
  <2>2. CASE ~(t \in cancelled \/ deadline[t] <= now) /\ deadline[t] # None
    BY ZenonT(60), <1>2, <1>4, <2>2 DEF PoolState, QueueOK
  <2>3. CASE ~(t \in cancelled \/ deadline[t] <= now) /\ ~(deadline[t] # None)
    BY <1>4, <2>3
  <2> QED
    BY <2>1, <2>2, <2>3
<1> HIDE DEF p2
<1>6. p2.phase[t] = "queued" /\ \A u \in Tasks : u # t => p2.phase[u] = pool.phase[u]
  BY ZenonT(60), <1>0, <1>2, <1>4, <1>5 DEF PoolState
<1>7. AcceptedIn(p2) = AcceptedIn(pool) /\ Executing(p2) = Executing(pool)
  BY ONLY <1>2, <1>6 DEF AcceptedIn, Executing, Accepted
<1>8. BusyOK(p2) /\ activity.count = Cardinality(AcceptedIn(p2))
  BY SMTT(30), <1>0, <1>4, <1>5, <1>7 DEF BusyOK, CountOK
<1>9. StrandOK(strand', p2.phase, activity.closed)
  BY <1>1, <1>6, RunningTask DEF t
<1>10. /\ flags.stopping => activity.closed
       /\ flags.completed => flags.stopping /\ activity.count = 0
  BY SMTT(30), <1>0 DEF DrainOK
<1>11. /\ p2.busy <= pool.busy
       /\ \A u \in Tasks : \/ p2.phase[u] = pool.phase[u]
                           \/ pool.phase[u] = "posted" /\ p2.phase[u] = "queued"
                           \/ pool.phase[u] = "returned" /\ p2.phase[u] = "done"
  BY SMTT(30), <1>0, <1>2, <1>4, <1>5, <1>6 DEF PoolState
<1> QED
  BY ZenonT(60), <1>0, <1>1, <1>2, <1>3, <1>5, <1>8, <1>9, <1>10, <1>11, DispatchInv

(* The handler that takes a finished task off the counters and dispatches. *)
LEMMA RunDoneInv ==
  ASSUME IInv, RunDone
  PROVE  IInv' /\ StepOK
<1> DEFINE t == Head(strand).task
           p == [pool EXCEPT !.busy = @ - 1, !.phase[t] = "done"]
<1>0. /\ TypeOK /\ pool \in PoolState /\ timer \in TimerState /\ flags \in Flags
      /\ QueueOK(pool) /\ BusyOK(pool) /\ CountOK /\ DrainOK
      /\ target \in Nat \ {0}
      /\ activity \in [closed : BOOLEAN, started : BOOLEAN, count : Nat]
      /\ manager \in [active : BOOLEAN, waiting : BOOLEAN, lifecycle : BOOLEAN]
  BY DEF IInv, TypeOK
<1>1. /\ Running("done") /\ UNCHANGED <<target, manager, NotStrand>>
      /\ activity' = [activity EXCEPT !.count = @ - 1]
      /\ dispatch(p, timer, flags, target, activity'.count)
  BY DEF RunDone
<1>2. strand' \in Seq(Handlers) /\ t \in Tasks /\ pool.phase[t] = "returned"
  BY <1>1, RunningFacts DEF HandlerOK
<1> HIDE DEF t
<1>3. t \in AcceptedIn(pool) /\ t \in Executing(pool)
  BY <1>2 DEF AcceptedIn, Executing, Accepted
<1>4. activity.count > 0 /\ pool.busy > 0
  <2>1. Cardinality(AcceptedIn(pool)) # 0 /\ Cardinality(Executing(pool)) # 0
    BY <1>3, AcceptedFinite, FS_EmptySet
  <2> QED
    BY <1>0, <2>1, AcceptedFinite DEF CountOK, BusyOK
<1>5. /\ p \in PoolState /\ p.queue = pool.queue /\ p.busy = pool.busy - 1
      /\ p.phase = [pool.phase EXCEPT ![t] = "done"]
  <2> DEFINE n == pool.busy - 1
  <2>1. n \in Nat
    BY <1>0, <1>4 DEF PoolState
  <2>2. p = [pool EXCEPT !.busy = n, !.phase[t] = "done"]
    OBVIOUS
  <2> HIDE DEF n
  <2>3. /\ p \in PoolState /\ p.queue = pool.queue /\ p.busy = n
        /\ p.phase = [pool.phase EXCEPT ![t] = "done"]
    <3> HIDE DEF p
    <3> QED
      BY ZenonT(60), <1>0, <1>2, <2>1, <2>2 DEF PoolState, Phases
  <2> QED
    BY <2>3 DEF n
<1> HIDE DEF p
<1>6. p.phase[t] = "done" /\ \A u \in Tasks : u # t => p.phase[u] = pool.phase[u]
  BY SMTT(30), <1>0, <1>2, <1>5 DEF PoolState
<1>7. /\ AcceptedIn(p) = AcceptedIn(pool) \ {t}
      /\ Executing(p) = Executing(pool) \ {t}
  BY SMTT(30), <1>2, <1>6 DEF AcceptedIn, Executing, Accepted
<1>8. /\ Cardinality(AcceptedIn(p)) = activity.count - 1
      /\ Cardinality(Executing(p)) = pool.busy - 1
  BY ZenonT(60), <1>0, <1>3, <1>7, AcceptedFinite, FS_RemoveElement DEF CountOK, BusyOK
<1>9. BusyOK(p)
  BY <1>5, <1>8 DEF BusyOK
<1>10. QueueOK(p)
  <2>1. \A i \in 1..Len(pool.queue) : pool.queue[i] \in Tasks
    BY <1>0, ElementOfSeq DEF PoolState
  <2> QED
    BY SMTT(60), <1>0, <1>2, <1>5, <1>6, <2>1 DEF QueueOK
<1>11. /\ activity' \in [closed : BOOLEAN, started : BOOLEAN, count : Nat]
       /\ activity'.closed = activity.closed
       /\ activity'.count = activity.count - 1
  BY <1>0, <1>1, <1>4
<1>12. StrandOK(strand', p.phase, activity.closed)
  BY SMTT(30), <1>1, <1>6, RunningTask DEF t
<1>13. ~flags.completed /\ (flags.stopping => activity.closed)
  BY <1>0, <1>4 DEF DrainOK
<1>14. activity'.count = Cardinality(AcceptedIn(p))
  BY SMTT(30), <1>8, <1>11
<1>15. /\ p.busy <= pool.busy
       /\ \A u \in Tasks : \/ p.phase[u] = pool.phase[u]
                           \/ pool.phase[u] = "posted" /\ p.phase[u] = "queued"
                           \/ pool.phase[u] = "returned" /\ p.phase[u] = "done"
  BY SMTT(30), <1>0, <1>2, <1>5, <1>6 DEF PoolState
<1> QED
  BY ZenonT(60), <1>0, <1>1, <1>2, <1>5, <1>9, <1>10, <1>11, <1>12, <1>13, <1>14, <1>15,
     DispatchInv

(* The handlers that change neither the tasks' phases nor the counter.     *)
LEMMA RunOtherInv ==
  ASSUME IInv,
         RunCancel \/ RunCheckDrain \/ RunStart \/ RunStop \/ RunStopManager
           \/ RunManager \/ RunDeadline \/ SweepPromote \/ SweepEnd
  PROVE  IInv' /\ StepOK
<1> DEFINE Managers == [active : BOOLEAN, waiting : BOOLEAN, lifecycle : BOOLEAN]
<1>0. /\ TypeOK /\ pool \in PoolState /\ timer \in TimerState /\ flags \in Flags
      /\ QueueOK(pool) /\ BusyOK(pool) /\ CountOK /\ DrainOK /\ CallersOK
      /\ NoStalledQueue
      /\ target \in Nat \ {0}
      /\ activity \in [closed : BOOLEAN, started : BOOLEAN, count : Nat]
      /\ manager \in Managers
      /\ strand \in Seq(Handlers) /\ StrandOK(strand, pool.phase, activity.closed)
      /\ executors \in Int /\ now \in 0..MaxTime
  BY ExecutorsIntegers DEF IInv, TypeOK
<1>1. /\ flags.stopping => activity.closed
      /\ flags.completed => flags.stopping /\ activity.count = 0
      /\ activity.count = Cardinality(AcceptedIn(pool))
  BY <1>0 DEF DrainOK, CountOK
<1>11. pool.busy \in Nat /\ pool.busy <= pool.busy
  BY SMTT(30), <1>0 DEF PoolState
<1>12. pool'.phase = pool.phase /\ pool'.busy = pool.busy => StepOK
  BY SMTT(30), <1>11 DEF StepOK, Move
<1>2. CASE RunCancel
  <2> DEFINE t == Head(strand).task
             p == promote(pool, t)
  <2>1. Running("cancel") /\ UNCHANGED <<activity, target, manager, NotStrand>>
    BY SMTT(30), <1>2 DEF RunCancel
  <2>2. /\ strand' \in Seq(Handlers) /\ t \in Tasks
        /\ StrandOK(strand', pool.phase, activity.closed)
    BY SMTT(30), <2>1, RunningFacts
  <2>3. CASE pool.phase[t] = "queued"
    <3>1. dispatch(p, timer, flags, target, activity.count)
      BY ZenonT(60), <1>2, <2>3 DEF RunCancel
    <3>2. p \in PoolState /\ QueueOK(p) /\ p.phase = pool.phase /\ p.busy = pool.busy
      BY SMTT(30), <1>0, <2>2, PromoteFacts
    <3> HIDE DEF p
    <3>3. AcceptedIn(p) = AcceptedIn(pool) /\ BusyOK(p)
      BY SMTT(30), <1>0, <3>2 DEF AcceptedIn, BusyOK, Executing
    <3> QED
      BY ZenonT(60), <1>0, <1>1, <1>11, <2>1, <2>2, <3>1, <3>2, <3>3, DispatchInv
  <2>4. CASE pool.phase[t] # "queued"
    <3>1. UNCHANGED <<pool, timer, flags>>
      BY ZenonT(60), <1>2, <2>4 DEF RunCancel
    <3>2. TypeOK'
      BY SMTT(30), <1>0, <2>1, <2>2, <3>1 DEF TypeOK, NotStrand
    <3> QED
      BY ZenonT(60), <1>12, <1>0, <2>1, <2>2, <3>1, <3>2
      DEF IInv, CountOK, DrainOK, CallersOK, NoStalledQueue, NotStrand
  <2> QED
    BY SMTT(30), <2>3, <2>4
<1>3. CASE RunCheckDrain
  <2>1. /\ Running("checkDrain") /\ flags' = checkDrain(flags, activity.count)
        /\ UNCHANGED <<activity, target, manager, pool, timer, NotStrand>>
    BY <1>3 DEF RunCheckDrain
  <2>2. strand' \in Seq(Handlers) /\ StrandOK(strand', pool.phase, activity.closed)
    BY <2>1, RunningFacts
  <2>3. /\ flags' \in Flags /\ flags'.started = flags.started
        /\ flags'.stopping = flags.stopping
        /\ flags.completed => flags'.completed
        /\ flags'.completed => flags'.stopping /\ activity.count = 0
    BY ZenonT(60), <1>0, <1>1, <1>11, <2>1 DEF checkDrain, Flags
  <2>4. TypeOK'
    BY SMTT(30), <1>0, <2>1, <2>2, <2>3 DEF TypeOK, NotStrand
  <2> QED
    BY ZenonT(60), <1>12, <1>0, <1>1, <1>11, <2>1, <2>2, <2>3, <2>4
    DEF IInv, CountOK, DrainOK, CallersOK, NoStalledQueue, NotStrand
<1>4. CASE RunStart
  <2>1. Running("start") /\ UNCHANGED <<activity, target, NotStrand>>
    BY <1>4 DEF RunStart
  <2>2. strand' \in Seq(Handlers) /\ StrandOK(strand', pool.phase, activity.closed)
    BY SMTT(30), <2>1, RunningFacts
  <2>3. CASE flags.stopping
    <3>1. UNCHANGED <<pool, timer, flags, manager>>
      BY SMTT(30), <1>4, <2>3 DEF RunStart
    <3>2. TypeOK'
      BY SMTT(30), <1>0, <2>1, <2>2, <3>1 DEF TypeOK, NotStrand
    <3> QED
      BY ZenonT(60), <1>12, <1>0, <2>1, <2>2, <3>1, <3>2
      DEF IInv, CountOK, DrainOK, CallersOK, NoStalledQueue, NotStrand
  <2>4. CASE ~flags.stopping
    <3> DEFINE f == [flags EXCEPT !.started = TRUE]
    <3>1. f \in Flags /\ f.stopping = flags.stopping /\ f.completed = flags.completed
      BY ZenonT(60), <1>0 DEF Flags
    <3>2. manager' \in Managers
      BY ZenonT(60), <1>0, <1>4, <2>4 DEF RunStart, stopManager
    <3>3. dispatch(pool, timer, f, target, activity.count)
      BY SMTT(30), <1>4, <2>4 DEF RunStart
    <3> HIDE DEF f
    <3> QED
      BY ZenonT(60), <1>0, <1>1, <1>11, <2>1, <2>2, <3>1, <3>2, <3>3, DispatchInv
  <2> QED
    BY <2>3, <2>4
<1>5. CASE RunStop
  <2> DEFINE f == [flags EXCEPT !.stopping = TRUE, !.started = TRUE]
  <2>1. Running("stop") /\ UNCHANGED <<activity, target, NotStrand>>
        /\ dispatch(pool, timer, f, target, activity.count)
    BY <1>5 DEF RunStop
  <2>2. /\ strand' \in Seq(Handlers) /\ StrandOK(strand', pool.phase, activity.closed)
        /\ activity.closed
    BY <2>1, RunningFacts DEF HandlerOK
  <2>3. f \in Flags /\ f.stopping /\ f.completed = flags.completed
    BY ZenonT(60), <1>0 DEF Flags
  <2>4. manager' \in Managers
    BY ZenonT(60), <1>0, <1>5 DEF RunStop, stopManager
  <2> HIDE DEF f
  <2> QED
    BY ZenonT(60), <1>0, <1>1, <1>11, <2>1, <2>2, <2>3, <2>4, DispatchInv
<1>6. CASE RunStopManager
  <2>1. Running("stopManager")
        /\ UNCHANGED <<activity, target, flags, pool, timer, NotStrand>>
    BY <1>6 DEF RunStopManager
  <2>2. strand' \in Seq(Handlers) /\ StrandOK(strand', pool.phase, activity.closed)
    BY <2>1, RunningFacts
  <2>3. manager' \in Managers
    BY ZenonT(60), <1>0, <1>6 DEF RunStopManager, stopManager
  <2>4. TypeOK'
    BY SMTT(30), <1>0, <2>1, <2>2, <2>3 DEF TypeOK, NotStrand
  <2> QED
    BY ZenonT(60), <1>12, <1>0, <2>1, <2>2, <2>4
    DEF IInv, CountOK, DrainOK, CallersOK, NoStalledQueue, NotStrand
<1>7. CASE RunManager
  <2>1. Running("manager") /\ UNCHANGED <<activity, NotStrand>>
    BY <1>7 DEF RunManager
  <2>2. strand' \in Seq(Handlers) /\ StrandOK(strand', pool.phase, activity.closed)
    BY SMTT(30), <2>1, RunningFacts
  <2>3. CASE manager.active /\ ~flags.stopping
    <3>1. target' \in Nat \ {0}
      BY SMTT(30), <1>0, <1>7, <2>3, HardwarePositive DEF RunManager, resolveExecutors
    <3>2. manager' \in Managers
      BY ZenonT(60), <1>0, <1>7, <2>3 DEF RunManager
    <3>3. dispatch(pool, timer, flags, target', activity.count)
      BY <1>7, <2>3 DEF RunManager
    <3> QED
      BY ZenonT(60), <1>0, <1>1, <1>11, <2>1, <2>2, <3>1, <3>2, <3>3, DispatchInv
  <2>4. CASE ~(manager.active /\ ~flags.stopping)
    <3>1. UNCHANGED <<target, pool, timer, flags, manager>>
      BY SMTT(30), <1>7, <2>4 DEF RunManager
    <3>2. TypeOK'
      BY SMTT(30), <1>0, <2>1, <2>2, <3>1 DEF TypeOK, NotStrand
    <3> QED
      BY ZenonT(60), <1>12, <1>0, <2>1, <2>2, <3>1, <3>2
      DEF IInv, CountOK, DrainOK, CallersOK, NoStalledQueue, NotStrand
  <2> QED
    BY <2>3, <2>4
<1>8. CASE RunDeadline
  <2>1. /\ Running("deadline")
        /\ UNCHANGED <<activity, target, flags, manager, pool, NotStrand>>
    BY <1>8 DEF RunDeadline
  <2>2. strand' \in Seq(Handlers) /\ StrandOK(strand', pool.phase, activity.closed)
    BY <2>1, RunningFacts
  <2>3. timer' \in TimerState
    <3>1. None \in Times
      BY SMTT(30), BoundsNatural DEF None, Times
    <3> QED
      BY ZenonT(60), <1>0, <1>8, <3>1 DEF RunDeadline, TimerState
  <2>4. TypeOK'
    BY SMTT(30), <1>0, <2>1, <2>2, <2>3 DEF TypeOK, NotStrand
  <2> QED
    BY ZenonT(60), <1>12, <1>0, <2>1, <2>2, <2>4
    DEF IInv, CountOK, DrainOK, CallersOK, NoStalledQueue, NotStrand
<1>9. CASE SweepPromote
  <2>1. UNCHANGED <<activity, target, flags, manager, timer, strand, NotStrand>>
    BY ZenonT(60), <1>9 DEF SweepPromote
  <2>2. PICK t \in pool.deadlines : pool' = promote(removeDeadline(pool, t), t)
    BY <1>9 DEF SweepPromote
  <2> DEFINE p == removeDeadline(pool, t)
  <2>3. /\ t \in Tasks /\ p \in PoolState /\ QueueOK(p)
        /\ p.phase = pool.phase /\ p.busy = pool.busy /\ p.queue = pool.queue
    BY ZenonT(60), <1>0 DEF removeDeadline, PoolState, QueueOK
  <2> HIDE DEF p
  <2>4. /\ pool' \in PoolState /\ QueueOK(pool')
        /\ pool'.phase = pool.phase /\ pool'.busy = pool.busy
        /\ Len(pool'.queue) = Len(pool.queue)
    BY SMTT(30), <2>2, <2>3, PromoteFacts DEF p
  <2>5. pool'.queue # <<>> => pool.queue # <<>>
    BY SMTT(30), <1>0, <2>4, EmptySeq DEF PoolState
  <2>6. AcceptedIn(pool') = AcceptedIn(pool) /\ BusyOK(pool')
    BY SMTT(30), <1>0, <2>4 DEF AcceptedIn, BusyOK, Executing
  <2>7. TypeOK'
    BY SMTT(30), <1>0, <2>1, <2>4 DEF TypeOK, NotStrand
  <2>8. StrandOK(strand', pool'.phase, activity'.closed)
    BY ZenonT(60), <1>0, <2>1, <2>4
  <2>9. NoStalledQueue'
    BY SMTT(30), <1>0, <2>1, <2>4, <2>5 DEF NoStalledQueue
  <2> QED
    BY ZenonT(60), <1>12, <1>0, <2>1, <2>4, <2>6, <2>7, <2>8, <2>9
    DEF IInv, CountOK, DrainOK, CallersOK, NotStrand
<1>10. CASE SweepEnd
  <2> DEFINE d == [timer EXCEPT !.sweep = NoSweep]
  <2>1. /\ UNCHANGED <<activity, target, manager, strand, NotStrand>>
        /\ dispatch(pool, d, flags, target, activity.count)
    BY <1>10 DEF SweepEnd
  <2>2. d \in TimerState
    BY SMTT(30), <1>0 DEF TimerState
  <2> HIDE DEF d
  <2> QED
    BY ZenonT(60), <1>0, <1>1, <1>11, <2>1, <2>2, DispatchInv
<1> QED
  BY SMTT(30), <1>2, <1>3, <1>4, <1>5, <1>6, <1>7, <1>8, <1>9, <1>10
=============================================================================
