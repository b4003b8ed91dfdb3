-------------------------- MODULE CooperativeMutex --------------------------
(***************************************************************************)
(* CooperativeMutex of runtime/detail/sync.hpp.  locked_ stays set when    *)
(* the lock is handed over, and lock() looks at locked_ only.              *)
(***************************************************************************)
EXTENDS Naturals, Sequences

CONSTANT Procs

VARIABLES
  locked,   \* locked_
  waiters,  \* waiters_
  sending,  \* the event each unlock() has yet to send, if any
  sent,     \* waiters whose event has been sent
  pc

vars == <<locked, waiters, sending, sent, pc>>

Init ==
  /\ locked = FALSE
  /\ waiters = <<>>
  /\ sending = [p \in Procs |-> {}]
  /\ sent = {}
  /\ pc = [p \in Procs |-> "idle"]

lock(p) ==
  /\ pc[p] = "idle"
  /\ IF ~locked
     THEN /\ locked' = TRUE
          /\ pc' = [pc EXCEPT ![p] = "inside"]
          /\ UNCHANGED <<waiters, sent>>
     ELSE /\ waiters' = Append(waiters, p)
          /\ pc' = [pc EXCEPT ![p] = "waiting"]
          /\ sent' = sent \ {p}
          /\ UNCHANGED locked
  /\ UNCHANGED sending

Wake(p) ==
  /\ pc[p] = "waiting"
  /\ p \in sent
  /\ pc' = [pc EXCEPT ![p] = "inside"]
  /\ UNCHANGED <<locked, waiters, sending, sent>>

unlock(p) ==
  /\ pc[p] = "inside"
  /\ IF waiters = <<>>
     THEN locked' = FALSE /\ UNCHANGED <<waiters, sending>>
     ELSE /\ sending' = [sending EXCEPT ![p] = {Head(waiters)}]
          /\ waiters' = Tail(waiters)
          /\ UNCHANGED locked
  /\ pc' = [pc EXCEPT ![p] = "releasing"]
  /\ UNCHANGED sent

(* unlock: the event of the new owner, if any, is sent.                    *)
Send(p) ==
  /\ pc[p] = "releasing"
  /\ sent' = sent \cup sending[p]
  /\ sending' = [sending EXCEPT ![p] = {}]
  /\ pc' = [pc EXCEPT ![p] = "idle"]
  /\ UNCHANGED <<locked, waiters>>

Next == \E p \in Procs : lock(p) \/ Wake(p) \/ unlock(p) \/ Send(p)

Spec == Init /\ [][Next]_vars

-----------------------------------------------------------------------------
(* Types of the lock and its callers.                                      *)
TypeOK ==
  /\ locked \in BOOLEAN
  /\ waiters \in Seq(Procs)
  /\ sending \in [Procs -> SUBSET Procs]
  /\ sent \in SUBSET Procs
  /\ pc \in [Procs -> {"idle", "waiting", "inside", "releasing"}]

(* At most one caller is between lock() and unlock().                      *)
MutualExclusion ==
  \A p, q \in Procs : pc[p] = "inside" /\ pc[q] = "inside" => p = q

=============================================================================
