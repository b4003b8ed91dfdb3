------------------------- MODULE QueuedPoolCallers --------------------------
(***************************************************************************)
(* The inductive invariant IInv of the pools, and that the steps of their  *)
(* callers preserve it: addTask and cancellation, the end of a task, start *)
(* and stop.                                                               *)
(***************************************************************************)
EXTENDS QueuedPoolQueue

-----------------------------------------------------------------------------
(* Handlers on the strand agree with the tasks they are for.               *)

HandlerOK(h, phase, closed) ==
  /\ h.op = "insert" => phase[h.task] = "posted"
  /\ h.op = "done" => phase[h.task] = "returned"
  /\ h.op = "stop" => closed

StrandOK(st, phase, closed) ==
  /\ \A i \in 1..Len(st) : HandlerOK(st[i], phase, closed)
  /\ \A i, j \in 1..Len(st) :
       st[i] = st[j] /\ st[i].op \in {"insert", "done"} => i = j

(* Posting a handler.                                                      *)
LEMMA StrandPost ==
  ASSUME NEW st \in Seq(Handlers), NEW h \in Handlers,
         NEW phase, NEW closed, NEW phase2, NEW closed2,
         StrandOK(st, phase, closed),
         \A i \in 1..Len(st) : HandlerOK(st[i], phase2, closed2),
         HandlerOK(h, phase2, closed2),
         h.op \in {"insert", "done"} => \A i \in 1..Len(st) : st[i] # h
  PROVE  /\ Append(st, h) \in Seq(Handlers)
         /\ StrandOK(Append(st, h), phase2, closed2)
<1> DEFINE r == Append(st, h)
<1>1. /\ r \in Seq(Handlers) /\ Len(r) = Len(st) + 1 /\ Len(st) \in Nat
      /\ r[Len(st) + 1] = h
      /\ \A i \in 1..Len(st) : r[i] = st[i]
  BY AppendProperties
<1> HIDE DEF r
<1>2. ASSUME NEW i \in 1..Len(r)
      PROVE  HandlerOK(r[i], phase2, closed2)
  <2>1. i \in 1..Len(st) \/ i = Len(st) + 1
    BY <1>1
  <2> QED
    BY <1>1, <2>1
<1>3. ASSUME NEW i \in 1..Len(r), NEW j \in 1..Len(r), r[i] = r[j],
             r[i].op \in {"insert", "done"}
      PROVE  i = j
  <2>1. /\ i \in 1..Len(st) \/ i = Len(st) + 1
        /\ j \in 1..Len(st) \/ j = Len(st) + 1
    BY SMTT(30), <1>1
  <2>2. CASE i \in 1..Len(st) /\ j \in 1..Len(st)
    BY SMTT(30), <1>1, <1>3, <2>2 DEF StrandOK
  <2>3. CASE i = Len(st) + 1 /\ j \in 1..Len(st)
    BY SMTT(30), <1>1, <1>3, <2>3
  <2>4. CASE j = Len(st) + 1 /\ i \in 1..Len(st)
    BY SMTT(30), <1>1, <1>3, <2>4
  <2> QED
    BY SMTT(30), <2>1, <2>2, <2>3, <2>4
<1> QED
  BY SMTT(30), <1>1, <1>2, <1>3 DEF StrandOK, r

(* Running the handler at the head.                                        *)
LEMMA StrandPop ==
  ASSUME NEW st \in Seq(Handlers), st # <<>>,
         NEW phase, NEW closed, NEW phase2, NEW closed2,
         StrandOK(st, phase, closed),
         \A i \in 1..Len(st) : i # 1 => HandlerOK(st[i], phase2, closed2)
  PROVE  /\ Tail(st) \in Seq(Handlers)
         /\ StrandOK(Tail(st), phase2, closed2)
         /\ Len(st) \in Nat /\ 1 \in 1..Len(st)
         /\ Head(st) = st[1] /\ Head(st) \in Handlers
<1> DEFINE r == Tail(st)
<1>1. /\ r \in Seq(Handlers) /\ Len(r) = Len(st) - 1
      /\ \A i \in 1..Len(r) : r[i] = st[i + 1]
      /\ Head(st) = st[1] /\ Head(st) \in Handlers
      /\ Len(st) \in Nat /\ Len(st) # 0
  BY HeadTailProperties, EmptySeq
<1> HIDE DEF r
<1>2. \A i \in 1..Len(r) : i + 1 \in 1..Len(st) /\ i + 1 # 1
  BY <1>1
<1>3. ASSUME NEW i \in 1..Len(r)
      PROVE  HandlerOK(r[i], phase2, closed2)
  BY <1>1, <1>2
<1>4. ASSUME NEW i \in 1..Len(r), NEW j \in 1..Len(r), r[i] = r[j],
             r[i].op \in {"insert", "done"}
      PROVE  i = j
  <2>1. i + 1 = j + 1
    BY SMTT(30), <1>1, <1>2, <1>4 DEF StrandOK
  <2> QED
    BY <1>1, <2>1
<1> QED
  BY <1>1, <1>3, <1>4 DEF StrandOK, r

(* A handler stays right while the phase of the task it is for stays, and  *)
(* a closed pool is never reopened.                                        *)
LEMMA HandlersKept ==
  ASSUME NEW st \in Seq(Handlers), NEW phase, NEW phase2, NEW closed, NEW closed2,
         StrandOK(st, phase, closed), closed => closed2,
         \A t \in Tasks : phase2[t] = phase[t]
                          \/ phase[t] \notin {"posted", "returned"}
  PROVE  /\ \A i \in 1..Len(st) : HandlerOK(st[i], phase2, closed2)
         /\ StrandOK(st, phase2, closed2)
<1>1. ASSUME NEW i \in 1..Len(st)
      PROVE  HandlerOK(st[i], phase2, closed2)
  <2>1. st[i] \in Handlers /\ HandlerOK(st[i], phase, closed)
    BY ElementOfSeq DEF StrandOK
  <2>2. st[i].op \in {"insert", "done"} => st[i].task \in Tasks
    BY <2>1 DEF Handlers
  <2> QED
    BY SMTT(30), <2>1, <2>2 DEF HandlerOK
<1> QED
  BY <1>1 DEF StrandOK

-----------------------------------------------------------------------------
(* The inductive invariant.  DrainSafe is not inductive: it needs that the *)
(* counter is exact (CountOK), which needs that the handlers on the strand *)
(* are for tasks in the right phase, each once (StrandOK).                 *)

CountOK == activity.count = Cardinality(AcceptedIn(pool))
DrainOK ==
  /\ flags.stopping => activity.closed
  /\ flags.completed => flags.stopping /\ activity.count = 0
CallersOK ==
  /\ \A c \in Callers :
       /\ stopper[c] \in {"closing", "timed", "waiting"} => activity.closed
       /\ stopper[c] = "returned" => flags.completed
  /\ \A s \in Starters : starter[s] = "storing" => startCount[s] \in Nat \ {0}

IInv ==
  /\ TypeOK
  /\ QueueOK(pool)
  /\ BusyOK(pool)
  /\ CountOK
  /\ StrandOK(strand, pool.phase, activity.closed)
  /\ DrainOK
  /\ CallersOK
  /\ NoStalledQueue

(* The pool as constructed satisfies the invariant.                        *)
LEMMA InitInv == Init => IInv
<1> SUFFICES ASSUME Init PROVE IInv
  BY Zenon
<1> USE DEF Init
<1>1. TypeOK
  <2>1. target \in Nat \ {0} /\ executors \in ExecutorCounts
    BY SMTT(30), ExecutorsIntegers, HardwarePositive DEF resolveExecutors
  <2>2. None \in Times /\ 0 \in 0..MaxTime
    BY SMTT(30), BoundsNatural DEF None, Times
  <2>3. pool \in PoolState
    BY SMTT(30) DEF PoolState, Phases
  <2>4. timer \in TimerState
    BY SMTT(30), <2>2 DEF TimerState
  <2>5. strand \in Seq(Handlers) /\ flags \in Flags
    BY DEF Flags
  <2> QED
    BY SMTT(30), <2>1, <2>2, <2>3, <2>4, <2>5, FlagsBoolean DEF TypeOK
<1>2. QueueOK(pool)
  BY SMTT(30) DEF QueueOK, NoDup
<1>3. Executing(pool) = {} /\ AcceptedIn(pool) = {}
  BY DEF Executing, AcceptedIn, Accepted
<1>4. BusyOK(pool) /\ CountOK
  BY ZenonT(60), <1>3, FS_EmptySet DEF BusyOK, CountOK
<1>5. StrandOK(strand, pool.phase, activity.closed)
  BY DEF StrandOK
<1> QED
  BY ZenonT(60), <1>1, <1>2, <1>4, <1>5 DEF IInv, DrainOK, CallersOK, NoStalledQueue

(* A step of a task outside the queue.                                     *)
LEMMA PhaseFacts ==
  ASSUME NEW p \in PoolState, NEW q \in PoolState, NEW t \in Tasks, NEW b \in Phases,
         q.phase = [p.phase EXCEPT ![t] = b], q.queue = p.queue, q.busy = p.busy,
         p.phase[t] # "queued", b # "queued",
         (p.phase[t] \in {"running", "returned"}) <=> (b \in {"running", "returned"}),
         QueueOK(p), BusyOK(p)
  PROVE  /\ QueueOK(q) /\ BusyOK(q)
         /\ b \in Accepted => AcceptedIn(q) = AcceptedIn(p) \cup {t}
         /\ b \notin Accepted => AcceptedIn(q) = AcceptedIn(p) \ {t}
<1>1. /\ p.phase \in [Tasks -> Phases] /\ p.queue \in Seq(Tasks)
      /\ q.phase[t] = b
      /\ \A u \in Tasks : u # t => q.phase[u] = p.phase[u]
  BY DEF PoolState
<1>2. \A i \in 1..Len(p.queue) : p.queue[i] \in Tasks
  BY SMTT(30), <1>1, ElementOfSeq
<1>3. QueueOK(q)
  BY SMTT(30), <1>1, <1>2 DEF QueueOK
<1>4. Executing(q) = Executing(p)
  BY <1>1 DEF Executing
<1>5. /\ b \in Accepted => AcceptedIn(q) = AcceptedIn(p) \cup {t}
      /\ b \notin Accepted => AcceptedIn(q) = AcceptedIn(p) \ {t}
  BY <1>1 DEF AcceptedIn
<1> QED
  BY SMTT(30), <1>3, <1>4, <1>5 DEF BusyOK

(* Accepted and executing tasks are finitely many, since Tasks is.         *)
LEMMA AcceptedFinite ==
  ASSUME NEW p
  PROVE  /\ IsFiniteSet(AcceptedIn(p))
         /\ Cardinality(AcceptedIn(p)) \in Nat
         /\ IsFiniteSet(Executing(p))
         /\ Cardinality(Executing(p)) \in Nat
<1>1. AcceptedIn(p) \subseteq Tasks /\ Executing(p) \subseteq Tasks
  BY DEF AcceptedIn, Executing
<1>2. IsFiniteSet(AcceptedIn(p)) /\ IsFiniteSet(Executing(p))
  BY SMTT(30), <1>1, TasksFinite, FS_Subset
<1> QED
  BY <1>2, FS_CardinalityType

-----------------------------------------------------------------------------
(* Each action preserves the invariant.                                    *)

(* A step of one task outside the queue: the conjuncts of the invariant    *)
(* that the phases and the counter appear in.                              *)
LEMMA TaskStep ==
  ASSUME IInv, NEW t \in Tasks, NEW b \in Phases,
         pool' \in PoolState, pool'.phase = [pool.phase EXCEPT ![t] = b],
         pool'.queue = pool.queue, pool'.busy = pool.busy,
         pool.phase[t] # "queued", b # "queued",
         (pool.phase[t] \in {"running", "returned"})
            <=> (b \in {"running", "returned"})
  PROVE  /\ QueueOK(pool)' /\ BusyOK(pool)'
         /\ (pool.phase[t] \in Accepted <=> b \in Accepted)
              => Cardinality(AcceptedIn(pool')) = activity.count
         /\ pool.phase[t] \notin Accepted /\ b \in Accepted
              => Cardinality(AcceptedIn(pool')) = activity.count + 1
         /\ pool.phase[t] \in Accepted /\ b \notin Accepted
              => /\ Cardinality(AcceptedIn(pool')) = activity.count - 1
                 /\ activity.count > 0
         /\ flags.started /\ pool'.queue # <<>> => pool'.busy > 0
         /\ \A u \in Tasks : u # t => pool'.phase[u] = pool.phase[u]
         /\ pool'.phase[t] = b
<1>1. pool \in PoolState /\ QueueOK(pool) /\ BusyOK(pool) /\ CountOK /\ NoStalledQueue
  BY SMTT(30) DEF IInv, TypeOK
<1>2. /\ QueueOK(pool') /\ BusyOK(pool')
      /\ b \in Accepted => AcceptedIn(pool') = AcceptedIn(pool) \cup {t}
      /\ b \notin Accepted => AcceptedIn(pool') = AcceptedIn(pool) \ {t}
  BY <1>1, PhaseFacts
<1>3. t \in AcceptedIn(pool) <=> pool.phase[t] \in Accepted
  BY DEF AcceptedIn
<1>4. (pool.phase[t] \in Accepted <=> b \in Accepted)
         => AcceptedIn(pool') = AcceptedIn(pool)
  BY SMTT(30), <1>2, <1>3
<1>5. pool.phase[t] \notin Accepted /\ b \in Accepted
         => Cardinality(AcceptedIn(pool')) = Cardinality(AcceptedIn(pool)) + 1
  BY SMTT(30), <1>2, <1>3, AcceptedFinite, FS_AddElement
<1>6. pool.phase[t] \in Accepted /\ b \notin Accepted
         => Cardinality(AcceptedIn(pool')) = Cardinality(AcceptedIn(pool)) - 1
  BY SMTT(30), <1>2, <1>3, AcceptedFinite, FS_RemoveElement
<1>7. pool.phase[t] \in Accepted => Cardinality(AcceptedIn(pool)) # 0
  BY SMTT(30), <1>3, AcceptedFinite, FS_EmptySet
<1>8. Cardinality(AcceptedIn(pool)) \in Nat /\ activity.count = Cardinality(AcceptedIn(pool))
  BY SMTT(30), <1>1, AcceptedFinite DEF CountOK
<1>9. /\ \A u \in Tasks : u # t => pool'.phase[u] = pool.phase[u]
      /\ pool'.phase[t] = b
  BY <1>1 DEF PoolState
<1>10. pool.phase[t] \in Accepted => activity.count > 0
  BY <1>7, <1>8
<1>11. flags.started /\ pool'.queue # <<>> => pool'.busy > 0
  BY <1>1 DEF NoStalledQueue
<1> QED
  BY SMTT(30), <1>2, <1>4, <1>5, <1>6, <1>8, <1>9, <1>10, <1>11

(* Every step of addTask preserves the invariant: registration, admission  *)
(* or its refusal, the post and its failure.                               *)
LEMMA AddTaskInv ==
  ASSUME IInv, NEW t \in Tasks, AddTask(t)
  PROVE  IInv'
<1> DEFINE ph == pool.phase
<1>0. /\ TypeOK /\ pool \in PoolState /\ strand \in Seq(Handlers)
      /\ StrandOK(strand, ph, activity.closed)
      /\ DrainOK /\ CallersOK
      /\ activity \in [closed : BOOLEAN, started : BOOLEAN, count : Nat]
  BY DEF IInv, TypeOK
<1>1. ASSUME NEW d \in Times, NEW pr \in Priorities, Register(t, d, pr)
      PROVE  IInv'
  <2>1. pool' \in PoolState /\ pool'.phase = [ph EXCEPT ![t] = "registered"]
        /\ pool'.queue = pool.queue /\ pool'.busy = pool.busy
    <3>1. <<pr, 0>> \in Int \X Int
      BY PrioritiesOrdered
    <3> DEFINE k == <<pr, 0>>
    <3>2. pool' = [pool EXCEPT !.phase[t] = "registered", !.key[t] = k]
      BY <1>1 DEF Register
    <3> HIDE DEF k
    <3> QED
      BY ZenonT(60), <1>0, <3>1, <3>2 DEF PoolState, Phases, k
  <2>2. /\ QueueOK(pool)' /\ BusyOK(pool)'
        /\ Cardinality(AcceptedIn(pool')) = activity.count
        /\ flags.started /\ pool'.queue # <<>> => pool'.busy > 0
        /\ \A u \in Tasks : u # t => pool'.phase[u] = ph[u]
    BY ZenonT(60), <1>1, <2>1, TaskStep DEF Register, Phases, Accepted
  <2>3. StrandOK(strand, pool'.phase, activity.closed)
    <3>1. \A u \in Tasks : pool'.phase[u] = ph[u] \/ ph[u] \notin {"posted", "returned"}
      BY <1>1, <2>2 DEF Register
    <3> QED
      BY <1>0, <3>1, HandlersKept
  <2>4. TypeOK'
    BY SMTT(30), <1>0, <1>1, <2>1 DEF TypeOK, Register
  <2> QED
    BY SMTT(30), <1>0, <1>1, <2>2, <2>3, <2>4
    DEF IInv, Register, CountOK, DrainOK, CallersOK, NoStalledQueue
<1>2. ASSUME pool.phase[t] \in {"idle", "registered"},
             pool' = [pool EXCEPT !.phase[t] = "rejected"],
             UNCHANGED <<activity, target, executors, flags, manager, timer,
                         strand, deadline, cancelled, stopper, startCount,
                         starter, startCtx, now>>
      PROVE  IInv'
  <2>1. pool' \in PoolState /\ pool'.phase = [ph EXCEPT ![t] = "rejected"]
        /\ pool'.queue = pool.queue /\ pool'.busy = pool.busy
    BY ZenonT(60), <1>0, <1>2 DEF PoolState, Phases
  <2>2. /\ QueueOK(pool)' /\ BusyOK(pool)'
        /\ Cardinality(AcceptedIn(pool')) = activity.count
        /\ flags.started /\ pool'.queue # <<>> => pool'.busy > 0
        /\ \A u \in Tasks : u # t => pool'.phase[u] = ph[u]
    BY ZenonT(60), <1>2, <2>1, TaskStep DEF Phases, Accepted
  <2>3. StrandOK(strand, pool'.phase, activity.closed)
    <3>1. \A u \in Tasks : pool'.phase[u] = ph[u] \/ ph[u] \notin {"posted", "returned"}
      BY <1>2, <2>2
    <3> QED
      BY <1>0, <3>1, HandlersKept
  <2>4. TypeOK'
    BY <1>0, <1>2, <2>1 DEF TypeOK
  <2> QED
    BY SMTT(30), <1>0, <1>2, <2>2, <2>3, <2>4
    DEF IInv, CountOK, DrainOK, CallersOK, NoStalledQueue
<1>3. CASE Admit(t)
  <2>1. pool' \in PoolState /\ pool'.phase = [ph EXCEPT ![t] = "admitted"]
        /\ pool'.queue = pool.queue /\ pool'.busy = pool.busy
    BY ZenonT(60), <1>0, <1>3 DEF Admit, PoolState, Phases
  <2>2. /\ QueueOK(pool)' /\ BusyOK(pool)'
        /\ Cardinality(AcceptedIn(pool')) = activity.count + 1
        /\ flags.started /\ pool'.queue # <<>> => pool'.busy > 0
        /\ \A u \in Tasks : u # t => pool'.phase[u] = ph[u]
    BY ZenonT(60), <1>3, <2>1, TaskStep DEF Admit, Phases, Accepted
  <2>3. StrandOK(strand, pool'.phase, activity.closed)
    <3>1. \A u \in Tasks : pool'.phase[u] = ph[u] \/ ph[u] \notin {"posted", "returned"}
      BY <1>3, <2>2 DEF Admit
    <3> QED
      BY <1>0, <3>1, HandlersKept
  <2>4. /\ activity' \in [closed : BOOLEAN, started : BOOLEAN, count : Nat]
        /\ activity'.count = activity.count + 1 /\ activity'.closed = activity.closed
        /\ ~activity.closed
    BY <1>0, <1>3 DEF Admit, CanAdmit
  <2>5. TypeOK'
    BY SMTT(30), <1>0, <1>3, <2>1, <2>4 DEF TypeOK, Admit
  <2> QED
    BY SMTT(30), <1>0, <1>3, <2>2, <2>3, <2>4, <2>5
    DEF IInv, Admit, CountOK, DrainOK, CallersOK, NoStalledQueue
<1>4. CASE PostInsert(t)
  <2> DEFINE h == [op |-> "insert", task |-> t]
  <2>1. pool' \in PoolState /\ pool'.phase = [ph EXCEPT ![t] = "posted"]
        /\ pool'.queue = pool.queue /\ pool'.busy = pool.busy
    BY ZenonT(60), <1>0, <1>4 DEF PostInsert, PoolState, Phases
  <2>2. /\ QueueOK(pool)' /\ BusyOK(pool)'
        /\ Cardinality(AcceptedIn(pool')) = activity.count
        /\ flags.started /\ pool'.queue # <<>> => pool'.busy > 0
        /\ \A u \in Tasks : u # t => pool'.phase[u] = ph[u]
        /\ pool'.phase[t] = "posted"
    BY ZenonT(60), <1>4, <2>1, TaskStep DEF PostInsert, Phases, Accepted
  <2>3. h \in Handlers /\ HandlerOK(h, pool'.phase, activity.closed)
    BY <2>2 DEF Handlers, HandlerOK
  <2>4. \A i \in 1..Len(strand) : strand[i] # h
    BY <1>0, <1>4 DEF StrandOK, HandlerOK, PostInsert
  <2>5. \A i \in 1..Len(strand) : HandlerOK(strand[i], pool'.phase, activity.closed)
    <3>1. \A u \in Tasks : pool'.phase[u] = ph[u] \/ ph[u] \notin {"posted", "returned"}
      BY SMTT(30), <1>4, <2>2 DEF PostInsert
    <3>2. StrandOK(strand, pool'.phase, activity.closed)
      BY <1>0, <3>1, HandlersKept
    <3> QED
      BY <3>2 DEF StrandOK
  <2>6. strand' = Append(strand, h)
    BY SMTT(30), <1>4 DEF PostInsert, Post
  <2>7. strand' \in Seq(Handlers) /\ StrandOK(strand', pool'.phase, activity.closed)
    <3> HIDE DEF h
    <3> QED
      BY SMTT(30), <1>0, <2>3, <2>4, <2>5, <2>6, StrandPost
  <2>8. TypeOK'
    BY SMTT(30), <1>0, <1>4, <2>1, <2>7 DEF TypeOK, PostInsert
  <2> QED
    BY SMTT(30), <1>0, <1>4, <2>2, <2>7, <2>8
    DEF IInv, PostInsert, CountOK, DrainOK, CallersOK, NoStalledQueue
<1>5. CASE PostFails(t)
  <2> DEFINE h == [op |-> "checkDrain"]
  <2>1. pool' \in PoolState /\ pool'.phase = [ph EXCEPT ![t] = "rejected"]
        /\ pool'.queue = pool.queue /\ pool'.busy = pool.busy
    BY ZenonT(60), <1>0, <1>5 DEF PostFails, PoolState, Phases
  <2>2. /\ QueueOK(pool)' /\ BusyOK(pool)'
        /\ Cardinality(AcceptedIn(pool')) = activity.count - 1
        /\ activity.count > 0
        /\ flags.started /\ pool'.queue # <<>> => pool'.busy > 0
        /\ \A u \in Tasks : u # t => pool'.phase[u] = ph[u]
    BY ZenonT(60), <1>5, <2>1, TaskStep DEF PostFails, Phases, Accepted
  <2>3. h \in Handlers /\ HandlerOK(h, pool'.phase, activity.closed)
        /\ h.op \notin {"insert", "done"}
    BY <2>2 DEF Handlers, HandlerOK
  <2>5. \A i \in 1..Len(strand) : HandlerOK(strand[i], pool'.phase, activity.closed)
    <3>1. \A u \in Tasks : pool'.phase[u] = ph[u] \/ ph[u] \notin {"posted", "returned"}
      BY SMTT(30), <1>5, <2>2 DEF PostFails
    <3>2. StrandOK(strand, pool'.phase, activity.closed)
      BY <1>0, <3>1, HandlersKept
    <3> QED
      BY <3>2 DEF StrandOK
  <2>6. strand' = Append(strand, h)
    BY SMTT(30), <1>5 DEF PostFails, Post
  <2>7. strand' \in Seq(Handlers) /\ StrandOK(strand', pool'.phase, activity.closed)
    <3> HIDE DEF h
    <3> QED
      BY SMTT(30), <1>0, <2>3, <2>5, <2>6, StrandPost
  <2>8. /\ activity' \in [closed : BOOLEAN, started : BOOLEAN, count : Nat]
        /\ activity'.count = activity.count - 1 /\ activity'.closed = activity.closed
    BY <1>0, <1>5, <2>2 DEF PostFails, TypeOK
  <2>9. TypeOK'
    BY SMTT(30), <1>0, <1>5, <2>1, <2>7, <2>8 DEF TypeOK, PostFails
  <2>10. DrainOK'
    BY <1>0, <1>5, <2>2, <2>8 DEF DrainOK, PostFails
  <2> QED
    BY SMTT(30), <1>0, <1>5, <2>2, <2>7, <2>8, <2>9, <2>10
    DEF IInv, PostFails, CountOK, CallersOK, NoStalledQueue
<1>6. CASE RejectCancelled(t) \/ RejectAdmission(t)
  BY SMTT(30), <1>2, <1>6 DEF RejectCancelled, RejectAdmission
<1> QED
  BY SMTT(30), <1>1, <1>3, <1>4, <1>5, <1>6 DEF AddTask

(* Posting a handler that is for no task in particular.                    *)
LEMMA PostPlain ==
  ASSUME IInv, NEW h \in Handlers, h.op \notin {"insert", "done"},
         h.op = "stop" => activity.closed, Post(h)
  PROVE  strand' \in Seq(Handlers) /\ StrandOK(strand', pool.phase, activity.closed)
<1>1. strand \in Seq(Handlers) /\ StrandOK(strand, pool.phase, activity.closed)
  BY DEF IInv, TypeOK
<1>2. HandlerOK(h, pool.phase, activity.closed)
  BY DEF HandlerOK
<1>3. \A i \in 1..Len(strand) : HandlerOK(strand[i], pool.phase, activity.closed)
  BY <1>1 DEF StrandOK
<1> QED
  BY SMTT(30), <1>1, <1>2, <1>3, StrandPost DEF Post

(* A body that ends, and a cancellation, preserve the invariant.           *)
LEMMA TaskInv ==
  ASSUME IInv, NEW t \in Tasks, Cancel(t) \/ Finish(t)
  PROVE  IInv'
<1> DEFINE ph == pool.phase
<1>0. /\ TypeOK /\ pool \in PoolState /\ strand \in Seq(Handlers)
      /\ StrandOK(strand, ph, activity.closed)
      /\ QueueOK(pool) /\ BusyOK(pool) /\ CountOK /\ NoStalledQueue
      /\ DrainOK /\ CallersOK
  BY SMTT(30) DEF IInv, TypeOK
<1>1. CASE Cancel(t)
  <2> DEFINE h == [op |-> "cancel", task |-> t]
  <2>1. h \in Handlers /\ h.op \notin {"insert", "done"} /\ h.op # "stop" /\ Post(h)
    BY ZenonT(60), <1>1 DEF Handlers, Cancel
  <2>2. strand' \in Seq(Handlers) /\ StrandOK(strand', ph, activity.closed)
    <3> HIDE DEF h
    <3> QED
      BY SMTT(30), <2>1, PostPlain
  <2>3. TypeOK'
    BY ZenonT(60), <1>0, <1>1, <2>2 DEF TypeOK, Cancel
  <2> QED
    BY ZenonT(60), <1>0, <1>1, <2>2, <2>3
    DEF IInv, Cancel, CountOK, DrainOK, CallersOK, NoStalledQueue
<1>2. CASE Finish(t)
  <2> DEFINE h == [op |-> "done", task |-> t]
  <2>1. pool' \in PoolState /\ pool'.phase = [ph EXCEPT ![t] = "returned"]
        /\ pool'.queue = pool.queue /\ pool'.busy = pool.busy
    BY ZenonT(60), <1>0, <1>2 DEF Finish, PoolState, Phases
  <2>2. /\ QueueOK(pool)' /\ BusyOK(pool)'
        /\ Cardinality(AcceptedIn(pool')) = activity.count
        /\ flags.started /\ pool'.queue # <<>> => pool'.busy > 0
        /\ \A u \in Tasks : u # t => pool'.phase[u] = ph[u]
        /\ pool'.phase[t] = "returned"
    BY ZenonT(60), <1>2, <2>1, TaskStep DEF Finish, Phases, Accepted
  <2>3. h \in Handlers /\ HandlerOK(h, pool'.phase, activity.closed)
    BY <2>2 DEF Handlers, HandlerOK
  <2>4. \A i \in 1..Len(strand) : strand[i] # h
    BY SMTT(30), <1>0, <1>2 DEF StrandOK, HandlerOK, Finish
  <2>5. \A i \in 1..Len(strand) : HandlerOK(strand[i], pool'.phase, activity.closed)
    <3>1. \A u \in Tasks : pool'.phase[u] = ph[u] \/ ph[u] \notin {"posted", "returned"}
      BY SMTT(30), <1>2, <2>2 DEF Finish
    <3>2. StrandOK(strand, pool'.phase, activity.closed)
      BY SMTT(60), <1>0, <3>1, HandlersKept
    <3> QED
      BY <3>2 DEF StrandOK
  <2>6. strand' = Append(strand, h)
    BY SMTT(30), <1>2 DEF Finish, Post
  <2>7. strand' \in Seq(Handlers) /\ StrandOK(strand', pool'.phase, activity.closed)
    <3> HIDE DEF h
    <3> QED
      BY SMTT(30), <1>0, <2>3, <2>4, <2>5, <2>6, StrandPost
  <2>8. TypeOK'
    BY SMTT(30), <1>0, <1>2, <2>1, <2>7 DEF TypeOK, Finish
  <2> QED
    BY SMTT(30), <1>0, <1>2, <2>2, <2>7, <2>8
    DEF IInv, Finish, CountOK, DrainOK, CallersOK, NoStalledQueue
<1> QED
  BY SMTT(30), <1>1, <1>2

(* Every step of start preserves the invariant.                            *)
LEMMA StartInv ==
  ASSUME IInv, NEW s \in Starters, Start(s)
  PROVE  IInv'
<1>0. /\ TypeOK /\ strand \in Seq(Handlers)
      /\ StrandOK(strand, pool.phase, activity.closed)
      /\ QueueOK(pool) /\ BusyOK(pool) /\ CountOK /\ NoStalledQueue
      /\ DrainOK /\ CallersOK
      /\ activity \in [closed : BOOLEAN, started : BOOLEAN, count : Nat]
      /\ startCount \in [Starters -> Nat]
      /\ starter \in [Starters -> {"idle", "refused", "storing", "returned"}]
      /\ executors \in Int
  BY ExecutorsIntegers DEF IInv, TypeOK
<1>1. CASE StartEnter(s)
  <2> DEFINE n == resolveExecutors(executors)
  <2>1. n \in Nat \ {0}
    BY <1>0, <1>1, HardwarePositive DEF StartEnter, resolveExecutors
  <2>2. /\ activity' \in [closed : BOOLEAN, started : BOOLEAN, count : Nat]
        /\ activity'.count = activity.count /\ activity'.closed = activity.closed
    BY ZenonT(60), <1>0, <1>1 DEF StartEnter
  <2>3. /\ startCount' \in [Starters -> Nat]
        /\ starter' \in [Starters -> {"idle", "refused", "storing", "returned"}]
        /\ \A r \in Starters : starter'[r] = "storing" => startCount'[r] \in Nat \ {0}
    <3>1. /\ starter' = [starter EXCEPT ![s] = "refused"] /\ startCount' = startCount
          \/ /\ starter' = [starter EXCEPT ![s] = "storing"]
             /\ startCount' = [startCount EXCEPT ![s] = n]
      BY <1>1 DEF StartEnter
    <3> HIDE DEF n
    <3> QED
      BY ZenonT(60), <1>0, <2>1, <3>1 DEF CallersOK
  <2>4. TypeOK'
    BY SMTT(30), <1>0, <1>1, <2>2, <2>3 DEF TypeOK, StartEnter
  <2> QED
    BY SMTT(30), <1>0, <1>1, <2>2, <2>3, <2>4
    DEF IInv, StartEnter, CountOK, DrainOK, CallersOK, NoStalledQueue
<1>2. CASE StartPost(s)
  <2> DEFINE h == [op |-> "start"]
  <2>1. h \in Handlers /\ h.op \notin {"insert", "done"} /\ h.op # "stop" /\ Post(h)
    BY <1>2 DEF Handlers, StartPost
  <2>2. strand' \in Seq(Handlers) /\ StrandOK(strand', pool.phase, activity.closed)
    <3> HIDE DEF h
    <3> QED
      BY SMTT(30), <2>1, PostPlain
  <2>3. target' \in Nat \ {0}
    BY SMTT(30), <1>0, <1>2 DEF StartPost, CallersOK
  <2>4. /\ starter' \in [Starters -> {"idle", "refused", "storing", "returned"}]
        /\ \A r \in Starters : starter'[r] = "storing" => startCount'[r] \in Nat \ {0}
    BY SMTT(30), <1>0, <1>2 DEF StartPost, CallersOK
  <2>5. TypeOK'
    BY SMTT(30), <1>0, <1>2, <2>2, <2>3, <2>4 DEF TypeOK, StartPost
  <2> QED
    BY ZenonT(60), <1>0, <1>2, <2>2, <2>4, <2>5
    DEF IInv, StartPost, CountOK, DrainOK, CallersOK, NoStalledQueue
<1> QED
  BY SMTT(30), <1>1, <1>2 DEF Start

(* Every step of stop preserves the invariant.                             *)
LEMMA StopInv ==
  ASSUME IInv, NEW c \in Callers, Stop(c)
  PROVE  IInv'
<1> DEFINE Places == {"idle", "refused", "closing", "timed", "waiting", "returned"}
<1>0. /\ TypeOK /\ strand \in Seq(Handlers)
      /\ StrandOK(strand, pool.phase, activity.closed)
      /\ QueueOK(pool) /\ BusyOK(pool) /\ CountOK /\ NoStalledQueue
      /\ DrainOK /\ CallersOK
      /\ activity \in [closed : BOOLEAN, started : BOOLEAN, count : Nat]
      /\ stopper \in [Callers -> Places]
  BY DEF IInv, TypeOK
<1>1. CASE StopEnter(c)
  <2>1. /\ activity' \in [closed : BOOLEAN, started : BOOLEAN, count : Nat]
        /\ activity'.count = activity.count
        /\ activity.closed => activity'.closed
    BY ZenonT(60), <1>0, <1>1 DEF StopEnter
  <2>2. \E b \in {"refused", "timed", "closing"} :
          /\ stopper' = [stopper EXCEPT ![c] = b]
          /\ b # "refused" => activity'.closed
    BY SMTT(30), <1>0, <1>1 DEF StopEnter
  <2>3. /\ stopper' \in [Callers -> Places]
        /\ \A d \in Callers :
             /\ stopper'[d] \in {"closing", "timed", "waiting"} => activity'.closed
             /\ stopper'[d] = "returned" => flags.completed
    BY SMTT(30), <1>0, <2>1, <2>2 DEF CallersOK
  <2>4. StrandOK(strand, pool.phase, activity'.closed)
    BY <1>0, <2>1, HandlersKept
  <2>5. TypeOK'
    BY <1>0, <1>1, <2>1, <2>3 DEF TypeOK, StopEnter
  <2>6. CallersOK'
    BY SMTT(30), <1>0, <1>1, <2>3 DEF CallersOK, StopEnter
  <2> QED
    BY SMTT(30), <1>0, <1>1, <2>1, <2>4, <2>5, <2>6
    DEF IInv, StopEnter, CountOK, DrainOK, NoStalledQueue
<1>2. CASE StopPost(c)
  <2> DEFINE h == [op |-> "stop"]
  <2>1. h \in Handlers /\ h.op \notin {"insert", "done"} /\ Post(h)
        /\ activity.closed
    BY <1>0, <1>2 DEF Handlers, StopPost, CallersOK
  <2>2. strand' \in Seq(Handlers) /\ StrandOK(strand', pool.phase, activity.closed)
    <3> HIDE DEF h
    <3> QED
      BY ZenonT(60), <2>1, PostPlain
  <2>3. TypeOK'
    BY SMTT(30), <1>0, <1>2, <2>2 DEF TypeOK, StopPost
  <2>4. CallersOK'
    BY SMTT(30), <1>0, <1>2 DEF CallersOK, StopPost
  <2> QED
    BY SMTT(30), <1>0, <1>2, <2>2, <2>3, <2>4
    DEF IInv, StopPost, CountOK, DrainOK, NoStalledQueue
<1>3. CASE StopTimeout(c)
  <2>1. TypeOK'
    BY SMTT(30), <1>0, <1>3 DEF TypeOK, StopTimeout
  <2>2. CallersOK'
    BY ZenonT(60), <1>0, <1>3 DEF CallersOK, StopTimeout
  <2> QED
    BY SMTT(30), <1>0, <1>3, <2>1, <2>2 DEF IInv, StopTimeout, CountOK, DrainOK, NoStalledQueue
<1>4. CASE StopReturn(c)
  <2>1. TypeOK'
    BY SMTT(30), <1>0, <1>4 DEF TypeOK, StopReturn
  <2>2. CallersOK'
    BY SMTT(30), <1>0, <1>4 DEF CallersOK, StopReturn
  <2> QED
    BY ZenonT(60), <1>0, <1>4, <2>1, <2>2 DEF IInv, StopReturn, CountOK, DrainOK, NoStalledQueue
<1> QED
  BY SMTT(30), <1>1, <1>2, <1>3, <1>4 DEF Stop
=============================================================================
