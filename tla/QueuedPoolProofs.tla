-------------------------- MODULE QueuedPoolProofs --------------------------
(***************************************************************************)
(* The theorems about the pools of runtime/pool/queuedpool.hpp: IInv,      *)
(* whose parts the modules this one extends deal with, is an invariant,    *)
(* and what follows from it and from StepOK.                               *)
(***************************************************************************)
EXTENDS QueuedPoolStrand

(* The timers, the clock, a resize and the cancellation of the start       *)
(* context preserve the invariant.                                         *)
LEMMA EnvironmentInv ==
  ASSUME IInv, Environment
  PROVE  IInv'
<1>0. /\ TypeOK /\ pool \in PoolState /\ timer \in TimerState
      /\ QueueOK(pool) /\ BusyOK(pool) /\ CountOK /\ DrainOK /\ CallersOK
      /\ NoStalledQueue
      /\ strand \in Seq(Handlers) /\ StrandOK(strand, pool.phase, activity.closed)
      /\ manager \in [active : BOOLEAN, waiting : BOOLEAN, lifecycle : BOOLEAN]
      /\ now \in 0..MaxTime
  BY DEF IInv, TypeOK
<1>1. CASE DeadlineTimer
  <2> DEFINE h == [op |-> "deadline", gen |-> timer.generation]
  <2>1. /\ h \in Handlers /\ h.op \notin {"insert", "done"} /\ h.op # "stop"
        /\ Post(h)
    BY <1>0, <1>1 DEF DeadlineTimer, Handlers, TimerState
  <2>2. strand' \in Seq(Handlers) /\ StrandOK(strand', pool.phase, activity.closed)
    <3> HIDE DEF h
    <3> QED
      BY <2>1, PostPlain
  <2>3. timer' \in TimerState
    BY ZenonT(60), <1>0, <1>1 DEF DeadlineTimer, TimerState
  <2>4. TypeOK'
    BY <1>0, <1>1, <2>2, <2>3 DEF TypeOK, DeadlineTimer, NotStrand
  <2> QED
    BY <1>0, <1>1, <2>2, <2>4
    DEF IInv, DeadlineTimer, CountOK, DrainOK, CallersOK, NoStalledQueue, NotStrand
<1>2. CASE ManagerTimer
  <2> DEFINE h == [op |-> "manager"]
  <2>1. /\ h \in Handlers /\ h.op \notin {"insert", "done"} /\ h.op # "stop"
        /\ Post(h)
    BY <1>2 DEF ManagerTimer, Handlers
  <2>2. strand' \in Seq(Handlers) /\ StrandOK(strand', pool.phase, activity.closed)
    <3> HIDE DEF h
    <3> QED
      BY <2>1, PostPlain
  <2>3. TypeOK'
    BY ZenonT(60), <1>0, <1>2, <2>2 DEF TypeOK, ManagerTimer, NotStrand
  <2> QED
    BY <1>0, <1>2, <2>2, <2>3
    DEF IInv, ManagerTimer, CountOK, DrainOK, CallersOK, NoStalledQueue, NotStrand
<1>3. CASE Tick
  <2>1. now' \in 0..MaxTime
    BY SMTT(30), <1>0, <1>3, BoundsNatural DEF Tick
  <2>2. TypeOK'
    BY SMTT(30), <1>0, <1>3, <2>1 DEF TypeOK, Tick
  <2> QED
    BY ZenonT(60), <1>0, <1>3, <2>2 DEF IInv, Tick, CountOK, DrainOK, CallersOK, NoStalledQueue
<1>4. CASE CancelStartContext
  <2> DEFINE h == [op |-> "stopManager"]
  <2>1. h \in Handlers /\ h.op \notin {"insert", "done"} /\ h.op # "stop"
    BY DEF Handlers
  <2>2. Post(h) \/ strand' = strand
    BY SMTT(30), <1>4 DEF CancelStartContext
  <2>3. strand' \in Seq(Handlers) /\ StrandOK(strand', pool.phase, activity.closed)
    <3> HIDE DEF h
    <3> QED
      BY SMTT(30), <1>0, <2>1, <2>2, PostPlain
  <2>4. TypeOK'
    BY SMTT(30), <1>0, <1>4, <2>3 DEF TypeOK, CancelStartContext
  <2> QED
    BY ZenonT(60), <1>0, <1>4, <2>3, <2>4
    DEF IInv, CancelStartContext, CountOK, DrainOK, CallersOK, NoStalledQueue
<1>5. ASSUME NEW n \in ExecutorCounts, Reconfigure(n)
      PROVE  IInv'
  <2>1. TypeOK'
    BY SMTT(30), <1>0, <1>5 DEF TypeOK, Reconfigure
  <2> QED
    BY ZenonT(60), <1>0, <1>5, <2>1
    DEF IInv, Reconfigure, CountOK, DrainOK, CallersOK, NoStalledQueue
<1> QED
  BY SMTT(30), <1>1, <1>2, <1>3, <1>4, <1>5 DEF Environment

(* The steps outside the strand move at most one task and launch none.     *)
LEMMA OutsideStep ==
  ASSUME IInv,
         \/ \E t \in Tasks : AddTask(t) \/ Cancel(t) \/ Finish(t)
         \/ \E s \in Starters : Start(s)
         \/ \E c \in Callers : Stop(c)
         \/ Environment
         \/ UNCHANGED vars
  PROVE  StepOK
<1>0. pool \in PoolState /\ pool.busy \in Nat /\ pool.phase \in [Tasks -> Phases]
  BY ZenonT(60) DEF IInv, TypeOK, PoolState
<1>1. CASE pool' = pool
  BY ONLY <1>0, <1>1 DEF StepOK, Move
<1>2. ASSUME NEW t \in Tasks, NEW b, pool'.phase = [pool.phase EXCEPT ![t] = b],
             pool'.busy = pool.busy, Move(pool.phase[t], b)
      PROVE  StepOK
  BY SMTT(60), <1>0, <1>2 DEF StepOK, Move
<1>3. ASSUME NEW t \in Tasks, AddTask(t) \/ Cancel(t) \/ Finish(t)
      PROVE  StepOK
  <2>1. CASE \E d \in Times, pr \in Priorities : Register(t, d, pr)
    <3>1. /\ pool'.phase = [pool.phase EXCEPT ![t] = "registered"]
          /\ pool'.busy = pool.busy /\ Move(pool.phase[t], "registered")
      BY SMTT(30), <1>0, <2>1 DEF Register, PoolState, Move
    <3> QED
      BY SMTT(30), <1>2, <3>1
  <2>2. CASE RejectCancelled(t) \/ RejectAdmission(t) \/ PostFails(t)
    <3>1. /\ pool'.phase = [pool.phase EXCEPT ![t] = "rejected"]
          /\ pool'.busy = pool.busy /\ Move(pool.phase[t], "rejected")
      BY SMTT(30), <1>0, <2>2
      DEF RejectCancelled, RejectAdmission, PostFails, PoolState, Move
    <3> QED
      BY SMTT(30), <1>2, <3>1
  <2>3. CASE Admit(t)
    <3>1. /\ pool'.phase = [pool.phase EXCEPT ![t] = "admitted"]
          /\ pool'.busy = pool.busy /\ Move(pool.phase[t], "admitted")
      BY SMTT(30), <1>0, <2>3 DEF Admit, PoolState, Move
    <3> QED
      BY <1>2, <3>1
  <2>4. CASE PostInsert(t)
    <3>1. /\ pool'.phase = [pool.phase EXCEPT ![t] = "posted"]
          /\ pool'.busy = pool.busy /\ Move(pool.phase[t], "posted")
      BY SMTT(30), <1>0, <2>4 DEF PostInsert, PoolState, Move
    <3> QED
      BY SMTT(30), <1>2, <3>1
  <2>5. CASE Finish(t)
    <3>1. /\ pool'.phase = [pool.phase EXCEPT ![t] = "returned"]
          /\ pool'.busy = pool.busy /\ Move(pool.phase[t], "returned")
      BY SMTT(30), <1>0, <2>5 DEF Finish, PoolState, Move
    <3> QED
      BY SMTT(30), <1>2, <3>1
  <2>6. CASE Cancel(t)
    BY ZenonT(60), <1>1, <2>6 DEF Cancel
  <2> QED
    BY SMTT(30), <1>3, <2>1, <2>2, <2>3, <2>4, <2>5, <2>6 DEF AddTask
<1>4. ASSUME NEW s \in Starters, Start(s)
      PROVE  StepOK
  BY SMTT(30), <1>1, <1>4 DEF Start, StartEnter, StartPost
<1>5. ASSUME NEW c \in Callers, Stop(c)
      PROVE  StepOK
  BY SMTT(30), <1>1, <1>5 DEF Stop, StopEnter, StopPost, StopTimeout, StopReturn
<1>6. CASE Environment
  BY SMTT(30), <1>1, <1>6
  DEF Environment, DeadlineTimer, ManagerTimer, Tick, CancelStartContext, Reconfigure
<1>7. CASE UNCHANGED vars
  BY SMTT(30), <1>1, <1>7 DEF vars
<1> QED
  BY SMTT(30), <1>3, <1>4, <1>5, <1>6, <1>7

(* Every step preserves the invariant and moves tasks only forward.        *)
LEMMA NextInv ==
  ASSUME IInv, [Next]_vars
  PROVE  IInv' /\ StepOK
<1>1. CASE UNCHANGED vars
  <2>1. IInv'
    BY ZenonT(60), <1>1 DEF IInv, TypeOK, CountOK, DrainOK, CallersOK, NoStalledQueue, vars
  <2> QED
    BY SMTT(30), <1>1, <2>1, OutsideStep
<1>2. ASSUME NEW t \in Tasks, AddTask(t) \/ Cancel(t) \/ Finish(t)
      PROVE  IInv' /\ StepOK
  BY <1>2, AddTaskInv, TaskInv, OutsideStep
<1>3. ASSUME NEW s \in Starters, Start(s)
      PROVE  IInv' /\ StepOK
  BY SMTT(30), <1>3, StartInv, OutsideStep
<1>4. ASSUME NEW c \in Callers, Stop(c)
      PROVE  IInv' /\ StepOK
  BY SMTT(30), <1>4, StopInv, OutsideStep
<1>5. CASE Strand
  BY <1>5, RunInsertInv, RunDoneInv, RunOtherInv DEF Strand
<1>6. CASE Environment
  BY SMTT(30), <1>6, EnvironmentInv, OutsideStep
<1> QED
  BY SMTT(30), <1>1, <1>2, <1>3, <1>4, <1>5, <1>6 DEF Next

-----------------------------------------------------------------------------
(* The theorems.                                                           *)

(* IInv, which ties the counters, the queue and the strand of              *)
(* queuedpool.hpp together, holds in every reachable state.                *)
THEOREM Invariance == Spec => []IInv
  BY InitInv, NextInv, PTL DEF Spec

(* The state of queuedpool.hpp keeps its types, for any number of tasks,   *)
(* callers and executors; in particular target stays positive and neither  *)
(* count nor busy drops below zero.                                        *)
THEOREM TypeCorrect == Spec => []TypeOK
<1>1. IInv => TypeOK
  BY DEF IInv
<1> QED
  BY <1>1, Invariance, PTL

(* stop() of queuedpool.hpp returns, and the drain is signalled, only with *)
(* admission closed and no accepted task outstanding.                      *)
THEOREM DrainSafety == Spec => []DrainSafe
<1>1. ASSUME IInv PROVE DrainSafe
  <2>1. DrainOK /\ CallersOK /\ CountOK
    BY <1>1 DEF IInv
  <2>2. Outstanding = AcceptedIn(pool)
    BY DEF Outstanding, AcceptedIn
  <2>3. flags.completed => Outstanding = {}
    BY SMTT(30), <2>1, <2>2, AcceptedFinite, FS_EmptySet DEF DrainOK, CountOK
  <2> QED
    BY ZenonT(60), <2>1, <2>3 DEF DrainSafe, DrainOK, CallersOK
<1> QED
  BY <1>1, Invariance, PTL

(* The counters and the queue of queuedpool.hpp agree with the tasks'      *)
(* phases in every reachable state.                                        *)
THEOREM AccountingCorrect == Spec => []Accounting
<1>1. ASSUME IInv PROVE Accounting
  <2>1. QueueOK(pool) /\ BusyOK(pool) /\ CountOK /\ pool.queue \in Seq(Tasks)
    BY <1>1 DEF IInv, TypeOK, PoolState
  <2>2. Outstanding = AcceptedIn(pool)
    BY DEF Outstanding, AcceptedIn
  <2>3. activity.count = Cardinality(Outstanding)
    BY SMTT(30), <2>1, <2>2 DEF CountOK
  <2>4. pool.busy = Cardinality({t \in Tasks : pool.phase[t] \in {"running", "returned"}})
    BY SMTT(30), <2>1 DEF BusyOK, Executing
  <2>5. \A i, j \in 1..Len(pool.queue) : pool.queue[i] = pool.queue[j] => i = j
    BY SMTT(30), <2>1 DEF QueueOK, NoDup
  <2>6. Range(pool.queue) = {t \in Tasks : pool.phase[t] = "queued"}
    <3>1. \A i \in 1..Len(pool.queue) : pool.queue[i] \in Tasks
      BY SMTT(30), <2>1, ElementOfSeq
    <3>2. Range(pool.queue) = {pool.queue[i] : i \in 1..Len(pool.queue)}
      BY SMTT(30), <2>1 DEF Range
    <3> QED
      BY ONLY <2>1, <3>1, <3>2 DEF QueueOK
  <2> QED
    BY ZenonT(60), <2>3, <2>4, <2>5, <2>6 DEF Accounting
<1> QED
  BY <1>1, Invariance, PTL

(* A started pool with a queue has a task executing, so its dispatch will  *)
(* run again.                                                              *)
THEOREM NeverStalled == Spec => []NoStalledQueue
<1>1. IInv => NoStalledQueue
  BY DEF IInv
<1> QED
  BY <1>1, Invariance, PTL

(* Every task goes forward through its phases: it is launched at most once *)
(* and never after it was rejected.                                        *)
THEOREM RunAtMostOnce == Spec => RunsOnce
<1>1. \A a, b \in Phases : Move(a, b) /\ a # b =>
        /\ Rank[a] < Rank[b]
        /\ b = "running" => a \in {"posted", "queued"}
        /\ b = "done" => a = "returned"
  BY SMTT(30) DEF Move, Rank, Phases
<1>2. ASSUME IInv, [Next]_vars
      PROVE  [\A t \in Tasks :
               pool'.phase[t] # pool.phase[t] =>
                 /\ Rank[pool.phase[t]] < Rank[pool'.phase[t]]
                 /\ pool'.phase[t] = "running" => pool.phase[t] \in {"posted", "queued"}
                 /\ pool'.phase[t] = "done" => pool.phase[t] = "returned"]_vars
  <2>1. IInv' /\ StepOK
    BY SMTT(30), <1>2, NextInv
  <2>2. pool.phase \in [Tasks -> Phases] /\ pool'.phase \in [Tasks -> Phases]
    BY ZenonT(60), <1>2, <2>1 DEF IInv, TypeOK, PoolState
  <2> QED
    BY SMTT(30), <1>1, <2>1, <2>2 DEF StepOK
<1> QED
  BY <1>2, Invariance, PTL DEF Spec, RunsOnce

(* dispatch never takes the number of executing tasks above target, also   *)
(* after a resize lowered target below that number.                        *)
THEOREM ConcurrencyBounded == Spec => ConcurrencyBound
<1>1. ASSUME IInv, [Next]_vars
      PROVE  [pool'.busy > pool.busy => pool'.busy <= target']_vars
  BY ZenonT(60), <1>1, NextInv DEF StepOK
<1> QED
  BY <1>1, Invariance, PTL DEF Spec, ConcurrencyBound
=============================================================================
