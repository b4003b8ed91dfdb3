----------------------- MODULE CooperativeSharedMutex -----------------------
(***************************************************************************)
(* CooperativeSharedMutex of runtime/detail/sync.hpp: callers that cannot  *)
(* be admitted queue a SingleUseEvent and wait; the lock is handed over to *)
(* them by the caller that releases it, before they wake.                  *)
(*                                                                         *)
(* Its Acquire and Release each hold the internal mutex_ once; the events  *)
(* of the admitted waiters are sent afterwards, one by one.                *)
(***************************************************************************)
EXTENDS Integers, Sequences, SequencesExt, FiniteSets

CONSTANTS Readers, Writers

ASSUME Disjoint == Readers \cap Writers = {}

Procs == Readers \cup Writers

VARIABLES
  readers,  \* readers_
  writer,   \* writer_
  waiters,  \* waiters_
  sending,  \* the admitted waiters whose events each releaser has yet to send
  sent,     \* waiters whose event has been sent
  pc        \* where each caller is: idle, waiting, inside, releasing

vars == <<readers, writer, waiters, sending, sent, pc>>

Init ==
  /\ readers = 0
  /\ writer = FALSE
  /\ waiters = <<>>
  /\ sending = [p \in Procs |-> <<>>]
  /\ sent = {}
  /\ pc = [p \in Procs |-> "idle"]

-----------------------------------------------------------------------------

(* Fault: a writer is admitted while readers are inside.                   *)
AdmittedEarly(p) == ~writer /\ waiters = <<>>

(* The fast path of Acquire.                                               *)
Admitted(p) == ~writer /\ waiters = <<>> /\ (p \in Writers => readers = 0)

Acquire(p) ==
  /\ pc[p] = "idle"
  /\ IF Admitted(p)
     THEN /\ pc' = [pc EXCEPT ![p] = "inside"]
          /\ readers' = IF p \in Readers THEN readers + 1 ELSE readers
          /\ writer' = (p \in Writers)
          /\ UNCHANGED <<waiters, sent>>
     ELSE /\ pc' = [pc EXCEPT ![p] = "waiting"]
          /\ waiters' = Append(waiters, p)
          /\ sent' = sent \ {p}
          /\ UNCHANGED <<readers, writer>>
  /\ UNCHANGED sending

(* ready->Wait() returns; the lock is already the waiter's.                *)
Wake(p) ==
  /\ pc[p] = "waiting"
  /\ p \in sent
  /\ pc' = [pc EXCEPT ![p] = "inside"]
  /\ UNCHANGED <<readers, writer, waiters, sending, sent>>

FirstWriter(q) == SelectInSeq(q, LAMBDA p : p \in Writers)

(* Whom a release that empties the lock admits: the writer at the front,   *)
(* or all readers queued before the first writer.                          *)
Batch(q) ==
  LET w == FirstWriter(q)
  IN CASE w = 0 -> q
       [] w = 1 -> <<Head(q)>>
       [] OTHER -> SubSeq(q, 1, w - 1)

(* Fault: writers are admitted before all readers.                         *)
ReleasePreferring(p) ==
  /\ pc[p] = "inside"
  /\ LET left == IF p \in Readers THEN readers - 1 ELSE readers
         ws == SelectSeq(waiters, LAMBDA q : q \in Writers)
         batch == IF left # 0 THEN <<>>
                  ELSE IF ws = <<>> THEN waiters ELSE <<Head(ws)>>
     IN /\ readers' = left + Cardinality(ToSet(batch) \cap Readers)
        /\ writer' = (ToSet(batch) \cap Writers # {})
        /\ waiters' = SelectSeq(waiters, LAMBDA q : q \notin ToSet(batch))
        /\ sending' = [sending EXCEPT ![p] = batch]
  /\ pc' = [pc EXCEPT ![p] = "releasing"]
  /\ UNCHANGED sent

Release(p) ==
  /\ pc[p] = "inside"
  /\ LET left == IF p \in Readers THEN readers - 1 ELSE readers
         batch == IF left = 0 THEN Batch(waiters) ELSE <<>>
     IN /\ readers' = left + Cardinality(ToSet(batch) \cap Readers)
        /\ writer' = (ToSet(batch) \cap Writers # {})
        /\ waiters' = SubSeq(waiters, Len(batch) + 1, Len(waiters))
        /\ sending' = [sending EXCEPT ![p] = batch]
  /\ pc' = [pc EXCEPT ![p] = "releasing"]
  /\ UNCHANGED sent

(* Release: the events of the admitted are sent, then the call returns.    *)
Send(p) ==
  /\ pc[p] = "releasing"
  /\ IF sending[p] = <<>>
     THEN pc' = [pc EXCEPT ![p] = "idle"] /\ UNCHANGED <<sending, sent>>
     ELSE /\ sent' = sent \cup {Head(sending[p])}
          /\ sending' = [sending EXCEPT ![p] = Tail(@)]
          /\ UNCHANGED pc
  /\ UNCHANGED <<readers, writer, waiters>>

Step(p) == Wake(p) \/ Release(p) \/ Send(p)

Next == \E p \in Procs : Acquire(p) \/ Step(p)

Spec == Init /\ [][Next]_vars

(* A caller inside releases eventually, and sends what it must.            *)
FairSpec == Spec /\ \A p \in Procs : WF_vars(Step(p))

-----------------------------------------------------------------------------
(* Callers the lock counts: inside, or admitted and not yet awake.         *)
Granted(p) == p \in sent \/ \E r \in Procs : p \in ToSet(sending[r])
Holders == {p \in Procs : pc[p] = "inside" \/ (pc[p] = "waiting" /\ Granted(p))}

(* Types of the counters, the queue and the callers.                       *)
TypeOK ==
  /\ readers \in 0..Cardinality(Readers)
  /\ writer \in BOOLEAN
  /\ waiters \in Seq(Procs)
  /\ sending \in [Procs -> Seq(Procs)]
  /\ sent \in SUBSET Procs
  /\ pc \in [Procs -> {"idle", "waiting", "inside", "releasing"}]

(* A writer holds the lock alone, also while it has been handed the lock   *)
(* and has not woken; readers_ and writer_ say exactly who holds it.       *)
Exclusion ==
  /\ \A p \in Holders : p \in Writers => Holders = {p}
  /\ readers = Cardinality(Holders \cap Readers)
  /\ writer <=> Holders \cap Writers # {}

(* Every queued caller, reader or writer, gets the lock.                   *)
EveryWaiterEnters == \A p \in Procs : pc[p] = "waiting" ~> pc[p] = "inside"
=============================================================================
