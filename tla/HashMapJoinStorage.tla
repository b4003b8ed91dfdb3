------------------------- MODULE HashMapJoinStorage -------------------------
(***************************************************************************)
(* The in-memory join storage of runtime/store/hashmap.hpp, with the       *)
(* callback the Join operator passes to it (operators/join.inl).           *)
(*                                                                         *)
(* joinValue adds a value to the item of its key and lets the callback     *)
(* decide whether the join is complete.  The two generations of the map    *)
(* are guarded by state->mutex, an item by its own mutex, under which the  *)
(* callback runs.  An item that completes, expires (timer, cancelled       *)
(* context, or a joinValue that comes after its deadline) or is stopped is *)
(* processed; it is removed from the map in a later step, and joinValue    *)
(* retries as long as it meets it.  A section under a mutex is one step,   *)
(* but for joinValue's: the clock may pass the deadline after its check.   *)
(***************************************************************************)
EXTENDS Naturals, Sequences, FiniteSets

CONSTANTS
  Calls,        \* calls of joinValue
  KeyOf,        \* the key of each call
  IndexOf,      \* its side of the join: 0 left, 1 right
  JoinType,     \* Inner, Left, Right or Outer
  Ttl,          \* the configured ttl; 0 means none
  RenewTtl,
  Contexts,     \* deadlines a context may have, relative to the call; NoDeadline is none
  Cancellable,  \* calls whose context holds a stop token
  Stoppers,     \* calls of stop()
  MaxTime

ASSUME JoinCalls ==
  /\ IndexOf \in [Calls -> {0, 1}]
  /\ Cancellable \subseteq Calls
ASSUME JoinConfig ==
  /\ JoinType \in {"Inner", "Left", "Right", "Outer"}
  /\ Ttl \in Nat /\ RenewTtl \in BOOLEAN /\ MaxTime \in Nat
  /\ Contexts \subseteq 0..MaxTime \cup {2 * MaxTime + Ttl + 1}

Keys == {KeyOf[c] : c \in Calls}
None == 0                   \* no item
NoDeadline == 2 * MaxTime + Ttl + 1   \* an absent deadline, after all others

VARIABLES
  store,      \* running, stopped, current, previous, highWaterMark
  items,      \* every item ever created; an item is its index
  timers,     \* pending waits of the items' timers: item -> generation or 0
  tokens,     \* stop callbacks registered by ArmExpiry
  cancelled,  \* calls whose context was cancelled
  expiries,   \* runs of Expire: item, generation and step
  rotation,   \* the rotation timer: off, armed, rotating, rotated
  call,       \* where each joinValue is: pc, item, created, deadline
  stopper,    \* where each stop() is, and the items it has yet to mark
  now

vars == <<store, items, timers, tokens, cancelled, expiries, rotation, call,
          stopper, now>>

Empty == [k \in Keys |-> None]

Init ==
  /\ store = [running |-> FALSE, stopped |-> FALSE, current |-> Empty,
              previous |-> Empty, highWaterMark |-> 0]
  /\ items = <<>>
  /\ timers = <<>>
  /\ tokens = {}
  /\ cancelled = {}
  /\ expiries = {}
  /\ rotation = "off"
  /\ call = [c \in Calls |-> [pc |-> "idle", item |-> None, created |-> FALSE,
                              deadline |-> NoDeadline]]
  /\ stopper = [s \in Stoppers |-> [pc |-> "idle", left |-> {}]]
  /\ now = 0

Entries(m) == {m[k] : k \in Keys} \ {None}
size == Cardinality(Entries(store.current)) + Cardinality(Entries(store.previous))

-----------------------------------------------------------------------------
(* start and stop.                                                         *)

start ==
  /\ ~store.running /\ ~store.stopped
  /\ store' = [store EXCEPT !.running = TRUE]
  /\ rotation' = IF Ttl > 0 THEN "armed" ELSE rotation
  /\ UNCHANGED <<items, timers, tokens, cancelled, expiries, call, stopper, now>>

(* The maps are emptied; a second stop() returns at once.                  *)
StopClear(s) ==
  /\ stopper[s].pc = "idle"
  /\ IF store.stopped
     THEN /\ stopper' = [stopper EXCEPT ![s].pc = "returned"]
          /\ UNCHANGED <<store, rotation>>
     ELSE /\ store' = [store EXCEPT !.running = FALSE, !.stopped = TRUE,
                                    !.current = Empty, !.previous = Empty]
          /\ stopper' = [stopper EXCEPT ![s] =
                 [pc |-> "marking",
                  left |-> Entries(store.current) \cup Entries(store.previous)]]
          /\ rotation' = IF rotation = "armed" THEN "off" ELSE rotation
  /\ UNCHANGED <<items, timers, tokens, cancelled, expiries, call, now>>

(* item->mutex is held by a joinValue.                                     *)
Locked(i) == \E c \in Calls : call[c].pc = "locked" /\ call[c].item = i

(* Under the item's mutex: processed, and its timers outdated.             *)
StopMark(s) ==
  /\ stopper[s].pc = "marking"
  /\ IF stopper[s].left = {}
     THEN /\ stopper' = [stopper EXCEPT ![s].pc = "returned"]
          /\ UNCHANGED <<items, timers>>
     ELSE \E i \in stopper[s].left :
            /\ ~Locked(i)
            /\ items' = [items EXCEPT
                 ![i].processed = IF @ = "no" THEN "stopped" ELSE @,
                 ![i].generation = @ + 1]
            /\ timers' = [timers EXCEPT ![i] = 0]
            /\ stopper' = [stopper EXCEPT ![s].left = @ \ {i}]
  /\ UNCHANGED <<store, tokens, cancelled, expiries, rotation, call, now>>

-----------------------------------------------------------------------------
(* joinValue.                                                              *)

(* A context deadline replaces the configured ttl.                         *)
EffectiveDeadline(d) ==
  IF d # NoDeadline THEN now + d
  ELSE IF Ttl > 0 THEN now + Ttl ELSE NoDeadline

Begin(c, d) ==
  /\ call[c].pc = "idle"
  /\ call' = [call EXCEPT ![c].pc = "find", ![c].deadline = EffectiveDeadline(d)]
  /\ UNCHANGED <<store, items, timers, tokens, cancelled, expiries, rotation,
                 stopper, now>>

(* Fault: the previous generation is not searched.                         *)
LookupCurrent(k) == store.current[k]

Lookup(k) ==
  IF store.current[k] # None THEN store.current[k] ELSE store.previous[k]

FindOrCreate(c) ==
  /\ call[c].pc = "find"
  /\ IF ~store.running
     THEN /\ call' = [call EXCEPT ![c].pc = "threw"]
          /\ UNCHANGED <<store, items, timers>>
     ELSE IF Lookup(KeyOf[c]) # None
     THEN /\ call' = [call EXCEPT ![c].pc = "lock", ![c].created = FALSE,
                                  ![c].item = Lookup(KeyOf[c])]
          /\ UNCHANGED <<store, items, timers>>
     ELSE /\ items' = Append(items, [key |-> KeyOf[c], values |-> {},
                                     deadline |-> NoDeadline, generation |-> 0,
                                     processed |-> "no"])
          /\ timers' = Append(timers, 0)
          /\ store' = [store EXCEPT !.current[KeyOf[c]] = Len(items')]
          /\ call' = [call EXCEPT ![c].pc = "lock", ![c].created = TRUE,
                                  ![c].item = Len(items')]
  /\ UNCHANGED <<tokens, cancelled, expiries, rotation, stopper, now>>

(* The callback of operators/join.inl calls the user's function, which     *)
(* answers as it likes, only if the sides that JoinType asks for have      *)
(* values.                                                                 *)
CanCall(values) ==
  LET has(i) == \E c \in values : IndexOf[c] = i
  IN CASE JoinType = "Inner" -> has(0) /\ has(1)
       [] JoinType = "Left" -> has(0)
       [] JoinType = "Right" -> has(1)
       [] JoinType = "Outer" -> TRUE

(* Fault: the call does not look the item up again.                        *)
RetrySame(c) ==
  /\ call[c].pc = "lock"
  /\ ~Locked(call[c].item)
  /\ items[call[c].item].processed # "no"
  /\ UNCHANGED vars

(* The item was processed meanwhile.                                       *)
Retry(c) ==
  /\ call[c].pc = "lock"
  /\ ~Locked(call[c].item)
  /\ items[call[c].item].processed # "no"
  /\ call' = [call EXCEPT ![c].pc = "find"]
  /\ UNCHANGED <<store, items, timers, tokens, cancelled, expiries, rotation,
                 stopper, now>>

(* The item's deadline has passed: it is expired by this call.             *)
ExpireInline(c) ==
  /\ call[c].pc = "lock"
  /\ ~Locked(call[c].item)
  /\ items[call[c].item].processed = "no"
  /\ items[call[c].item].deadline <= now
  /\ items' = [items EXCEPT ![call[c].item].processed = "expired"]
  /\ call' = [call EXCEPT ![c].pc = "flushing"]
  /\ UNCHANGED <<store, timers, tokens, cancelled, expiries, rotation, stopper,
                 now>>

(* ArmExpiry on the item: a new generation makes earlier waits stale.      *)
ArmExpiry(item, d) == [item EXCEPT !.deadline = d, !.generation = @ + 1]

(* MoveToCurrent, if the item is still in the previous generation.         *)
MoveToCurrent(k, i) ==
  IF store.previous[k] = i
  THEN [store EXCEPT !.previous[k] = None, !.current[k] = i] ELSE store

(* Fault: a processed item is joined like an open one.                     *)
JoinableAlways(c) == items[call[c].item].deadline > now

(* What the call finds under the item's mutex: open and not expired.  The  *)
(* creator may find another call's value in its new item.                  *)
Joinable(c) ==
  /\ items[call[c].item].processed = "no"
  /\ items[call[c].item].deadline > now

Lock(c) ==
  /\ call[c].pc = "lock"
  /\ ~Locked(call[c].item)
  /\ Joinable(c)
  /\ call' = [call EXCEPT ![c].pc = "locked"]
  /\ UNCHANGED <<store, items, timers, tokens, cancelled, expiries, rotation,
                 stopper, now>>

(* Still under the item's mutex, the timer is armed, the value added and   *)
(* the callback evaluated.                                                 *)
Join(c, answer) ==
  /\ call[c].pc = "locked"
  /\ LET i == call[c].item
         d == call[c].deadline
         arm == d # NoDeadline /\ (call[c].created \/ RenewTtl)
         armed == IF arm THEN ArmExpiry(items[i], d) ELSE items[i]
         joined == [armed EXCEPT !.values = @ \cup {c}]
     IN /\ answer => CanCall(joined.values)
        /\ items' = [items EXCEPT ![i] =
             IF answer THEN [joined EXCEPT !.processed = "joined", !.generation = @ + 1]
             ELSE joined]
        /\ timers' = [timers EXCEPT ![i] = IF answer THEN 0
                                           ELSE IF arm THEN armed.generation ELSE @]
        /\ tokens' = IF arm /\ c \in Cancellable
                     THEN tokens \cup {[call |-> c, item |-> i, gen |-> armed.generation]}
                     ELSE tokens
        /\ store' = IF arm /\ ~call[c].created THEN MoveToCurrent(KeyOf[c], i) ELSE store
        /\ expiries' = IF arm /\ c \in cancelled
                       THEN expiries \cup {[item |-> i, gen |-> armed.generation,
                                            step |-> "posted"]}
                       ELSE expiries
  /\ call' = [call EXCEPT ![c].pc = IF answer THEN "removing" ELSE "returned"]
  /\ UNCHANGED <<cancelled, rotation, stopper, now>>

(* The expiry callback has returned; it runs outside the item's mutex.     *)
Flushed(c) ==
  /\ call[c].pc = "flushing"
  /\ call' = [call EXCEPT ![c].pc = "evicting"]
  /\ UNCHANGED <<store, items, timers, tokens, cancelled, expiries, rotation,
                 stopper, now>>

RemoveIfSame(k, i) ==
  [store EXCEPT !.current[k] = IF @ = i THEN None ELSE @,
                !.previous[k] = IF @ = i THEN None ELSE @]

(* Fault: the loop goes on after the join, too.                            *)
RemoveAndRetry(c) ==
  /\ call[c].pc \in {"evicting", "removing"}
  /\ store' = RemoveIfSame(KeyOf[c], call[c].item)
  /\ call' = [call EXCEPT ![c].pc = "find"]
  /\ UNCHANGED <<items, timers, tokens, cancelled, expiries, rotation, stopper,
                 now>>

(* After an inline expiry the call starts again, after a join it returns.  *)
Remove(c) ==
  /\ call[c].pc \in {"evicting", "removing"}
  /\ store' = RemoveIfSame(KeyOf[c], call[c].item)
  /\ call' = [call EXCEPT ![c].pc = IF @ = "evicting" THEN "find" ELSE "returned"]
  /\ UNCHANGED <<items, timers, tokens, cancelled, expiries, rotation, stopper,
                 now>>

-----------------------------------------------------------------------------
(* Expiry.                                                                 *)

TimerFires(i) ==
  /\ timers[i] # 0
  /\ items[i].deadline <= now
  /\ expiries' = expiries \cup {[item |-> i, gen |-> timers[i], step |-> "posted"]}
  /\ timers' = [timers EXCEPT ![i] = 0]
  /\ UNCHANGED <<store, items, tokens, cancelled, rotation, call, stopper, now>>

(* The context of c is cancelled: its callbacks post Expire.               *)
Cancel(c) ==
  /\ c \in Cancellable \ cancelled
  /\ cancelled' = cancelled \cup {c}
  /\ expiries' = expiries \cup
       {[item |-> t.item, gen |-> t.gen, step |-> "posted"] :
          t \in {t \in tokens : t.call = c}}
  /\ UNCHANGED <<store, items, timers, tokens, rotation, call, stopper, now>>

(* Fault: Expire does not compare the generation.                          *)
ExpirableAny(e) == items[e.item].processed = "no"

Expirable(e) ==
  items[e.item].processed = "no" /\ items[e.item].generation = e.gen

(* Expire, under the item's mutex: stale or processed, or marked expired.  *)
Expire(e) ==
  /\ e.step = "posted"
  /\ ~Locked(e.item)
  /\ IF Expirable(e)
     THEN /\ items' = [items EXCEPT ![e.item].processed = "expired"]
          /\ expiries' = (expiries \ {e}) \cup {[e EXCEPT !.step = "flushing"]}
     ELSE /\ expiries' = expiries \ {e}
          /\ UNCHANGED items
  /\ UNCHANGED <<store, timers, tokens, cancelled, rotation, call, stopper, now>>

ExpiryFlushed(e) ==
  /\ e.step = "flushing"
  /\ expiries' = (expiries \ {e}) \cup {[e EXCEPT !.step = "evicting"]}
  /\ UNCHANGED <<store, items, timers, tokens, cancelled, rotation, call,
                 stopper, now>>

ExpiryRemoves(e) ==
  /\ e.step = "evicting"
  /\ store' = RemoveIfSame(items[e.item].key, e.item)
  /\ expiries' = expiries \ {e}
  /\ UNCHANGED <<items, timers, tokens, cancelled, rotation, call, stopper, now>>

-----------------------------------------------------------------------------
(* Rotation of the two generations.                                        *)

RotationFires ==
  /\ rotation = "armed"
  /\ rotation' = "rotating"
  /\ UNCHANGED <<store, items, timers, tokens, cancelled, expiries, call,
                 stopper, now>>

(* try_emplace of the previous generation into the current one.            *)
Merged(k) ==
  IF store.current[k] # None THEN store.current[k] ELSE store.previous[k]

Rotate ==
  /\ rotation = "rotating"
  /\ rotation' = "rotated"
  /\ LET should == store.highWaterMark = 0 \/ size < (store.highWaterMark + 3) \div 4
     IN store' = IF should
                 THEN [store EXCEPT !.highWaterMark = size,
                                    !.previous = [k \in Keys |-> Merged(k)],
                                    !.current = Empty]
                 ELSE [store EXCEPT !.highWaterMark = IF @ > size THEN @ ELSE size]
  /\ UNCHANGED <<items, timers, tokens, cancelled, expiries, call, stopper, now>>

Rearm ==
  /\ rotation = "rotated"
  /\ rotation' = IF store.running THEN "armed" ELSE "off"
  /\ UNCHANGED <<store, items, timers, tokens, cancelled, expiries, call,
                 stopper, now>>

Tick ==
  /\ now < MaxTime
  /\ now' = now + 1
  /\ UNCHANGED <<store, items, timers, tokens, cancelled, expiries, rotation,
                 call, stopper>>

-----------------------------------------------------------------------------
joinValue(c) ==
  \/ FindOrCreate(c) \/ Retry(c) \/ ExpireInline(c) \/ Lock(c)
  \/ \E answer \in BOOLEAN : Join(c, answer)
  \/ Flushed(c) \/ Remove(c)
Expiry == \E e \in expiries : Expire(e) \/ ExpiryFlushed(e) \/ ExpiryRemoves(e)
Stop(s) == StopClear(s) \/ StopMark(s)
Rotation == RotationFires \/ Rotate \/ Rearm

Next ==
  \/ start
  \/ \E s \in Stoppers : Stop(s)
  \/ \E c \in Calls : Cancel(c) \/ joinValue(c) \/ \E d \in Contexts : Begin(c, d)
  \/ \E i \in 1..Len(items) : TimerFires(i)
  \/ Expiry \/ Rotation \/ Tick

Spec == Init /\ [][Next]_vars

(* Threads in joinValue and stop go on, time passes, timers fire and the   *)
(* executor runs the posted expirations; the callbacks return.             *)
FairSpec ==
  /\ Spec
  /\ \A c \in Calls : WF_vars(joinValue(c))
  /\ \A s \in Stoppers : WF_vars(StopMark(s))
  /\ \A i \in 1..(2 * Cardinality(Calls)) :
       WF_vars(i <= Len(items) /\ TimerFires(i))
  /\ WF_vars(Expiry) /\ WF_vars(Tick)

-----------------------------------------------------------------------------
Items == 1..Len(items)
Open(i) == items[i].processed = "no"
InMap(i) == i \in Entries(store.current) \cup Entries(store.previous)
FlushingExpiries(i) == {e \in expiries : e.step = "flushing" /\ e.item = i}

(* Types of the store, its items and the calls in progress.                *)
TypeOK ==
  /\ store \in [running : BOOLEAN, stopped : BOOLEAN,
                current : [Keys -> 0..Len(items)],
                previous : [Keys -> 0..Len(items)],
                highWaterMark : 0..Cardinality(Keys)]
  /\ items \in Seq([key : Keys, values : SUBSET Calls, deadline : 0..NoDeadline,
                    generation : Nat,
                    processed : {"no", "joined", "expired", "stopped"}])
  /\ timers \in [Items -> Nat]
  /\ cancelled \in SUBSET Cancellable
  /\ rotation \in {"off", "armed", "rotating", "rotated"}
  /\ \A c \in Calls : call[c].item \in 0..Len(items)

(* A key has one entry over both generations, rotation and renewal         *)
(* included, and it is the only place values of the key can meet: an open  *)
(* item stays in the map until it is processed or the store stops.         *)
OneOpenItem ==
  /\ \A k \in Keys : store.current[k] = None \/ store.previous[k] = None
  /\ \A i, j \in Items : Open(i) /\ Open(j) /\ items[i].key = items[j].key =>
       i = j \/ store.stopped
  /\ store.running => \A i \in Items : Open(i) => InMap(i)

(* An item ends once, by completion, expiry or stop, whichever of a timer, *)
(* a cancelled context, a late joinValue and stop() comes first; after it  *)
(* no value is added, which lets the expiry callback read the values       *)
(* outside the item's mutex.                                               *)
EndsOnce ==
  [][\A i \in Items : ~Open(i) =>
       /\ items'[i].processed = items[i].processed
       /\ items'[i].values = items[i].values]_vars

(* A value goes into one item, however often joinValue retries, and a call *)
(* that returned has left it there.                                        *)
ValueOnce ==
  \A c \in Calls :
    LET holding == {i \in Items : c \in items[i].values}
    IN /\ Cardinality(holding) = IF call[c].pc \in {"returned", "removing"} THEN 1 ELSE 0
       /\ \A i \in holding : items[i].key = KeyOf[c]

(* A renewed item is not expired by the timer or the context of an earlier *)
(* generation: it expires at its current deadline, or when the context     *)
(* that set it is cancelled.                                               *)
NotEarly ==
  [][\A i \in Items : Open(i) /\ items'[i].processed = "expired" =>
       \/ items[i].deadline <= now
       \/ \E t \in tokens : t.item = i /\ t.gen = items[i].generation
                             /\ t.call \in cancelled]_vars

(* "Implementations reject new operations, join their timer/callback       *)
(* tasks, and only then return": after stop() no expiry callback runs.     *)
StopJoins ==
  (\E s \in Stoppers : stopper[s].pc = "returned") =>
    \A i \in Items : FlushingExpiries(i) = {}

(* Every joinValue returns or throws: the retries end.                     *)
JoinReturns ==
  \A c \in Calls : call[c].pc # "idle" ~> call[c].pc \in {"returned", "threw"}

=============================================================================
