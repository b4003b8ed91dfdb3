----------------------- MODULE CooperativeMutexProofs -----------------------
(***************************************************************************)
(* CooperativeMutex excludes, for any number of callers.  The lock is      *)
(* handed over while locked_ stays set, so ownership is not a variable: a  *)
(* caller holds the lock when it is inside, when the event it waits for    *)
(* has been sent, and already when unlock() has taken it off the queue and *)
(* is about to send.  The invariant says that there is one holder at most, *)
(* that it keeps locked_ set, and that queued callers are not holders.     *)
(***************************************************************************)
EXTENDS CooperativeMutex, TLAPS, SequenceTheorems

Sending(q, p) == p \in sending[q]

Woken(p) == pc[p] = "waiting" /\ p \in sent

Queued(p) == \E i \in 1..Len(waiters) : waiters[i] = p

Holder(p) == pc[p] = "inside" \/ Woken(p) \/ \E q \in Procs : Sending(q, p)

QueueOK ==
  /\ \A i, j \in 1..Len(waiters) : waiters[i] = waiters[j] => i = j
  /\ \A i \in 1..Len(waiters) : pc[waiters[i]] = "waiting" /\ waiters[i] \notin sent
  /\ \A i \in 1..Len(waiters) : \A q \in Procs : ~Sending(q, waiters[i])
  /\ waiters # <<>> => locked

SendingOK ==
  /\ \A q, p \in Procs : Sending(q, p) =>
       pc[q] = "releasing" /\ pc[p] = "waiting" /\ p \notin sent
  /\ \A q, r, p \in Procs : Sending(q, p) /\ Sending(r, p) => q = r

OneHolder ==
  /\ \A p, q \in Procs : Holder(p) /\ Holder(q) => p = q
  /\ \A p \in Procs : Holder(p) => locked

IInv == TypeOK /\ QueueOK /\ SendingOK /\ OneHolder

(* No call is under way at first.                                          *)
LEMMA InitHolds == Init => IInv
<1> SUFFICES ASSUME Init PROVE IInv
  OBVIOUS
<1>1. TypeOK
  BY Zenon, EmptySeq DEF Init, TypeOK
<1>2. Len(waiters) = 0
  BY EmptySeq DEF Init
<1> QED BY <1>1, <1>2 DEF Init, IInv, QueueOK, SendingOK, OneHolder, Holder, Woken, Sending

(* A caller enters an open lock or joins the queue.                        *)
LEMMA LockHolds ==
  ASSUME IInv, NEW p \in Procs, lock(p)
  PROVE  IInv'
<1> USE DEF IInv
<1>0. Append(waiters, p) \in Seq(Procs)
  BY AppendProperties DEF TypeOK
<1>1. TypeOK'
  BY Zenon, <1>0 DEF lock, TypeOK
<1>2. CASE ~locked
  <2>1. waiters = <<>> /\ UNCHANGED <<waiters, sent, sending>>
        /\ pc' = [pc EXCEPT ![p] = "inside"] /\ locked' = TRUE
    BY <1>2 DEF lock, QueueOK
  <2>2. \A q \in Procs : ~Holder(q)
    BY <1>2 DEF OneHolder
  <2>3. QueueOK' /\ SendingOK'
    BY <2>1, <2>2 DEF TypeOK, QueueOK, SendingOK, Sending, Holder
  <2>4. OneHolder'
    BY <2>1, <2>2 DEF TypeOK, OneHolder, Holder, Woken, Sending
  <2> QED BY <1>1, <2>3, <2>4
<1>3. CASE locked
  <2>1. waiters' = Append(waiters, p) /\ sent' = sent \ {p} /\ UNCHANGED <<locked, sending>>
        /\ pc' = [pc EXCEPT ![p] = "waiting"] /\ pc[p] = "idle"
    BY <1>3 DEF lock
  <2>2. /\ Len(waiters') = Len(waiters) + 1
        /\ \A i \in 1..Len(waiters) : waiters'[i] = waiters[i]
        /\ waiters'[Len(waiters) + 1] = p
    BY <2>1, AppendProperties DEF TypeOK
  <2>3. \A i \in 1..Len(waiters') : i \in 1..Len(waiters) \/ i = Len(waiters) + 1
    BY <2>2, LenProperties DEF TypeOK
  <2>4. \A i \in 1..Len(waiters) : waiters[i] # p
    BY <2>1 DEF QueueOK
  <2>5. \A q \in Procs : ~Sending(q, p)
    BY <2>1 DEF SendingOK
  <2>6. QueueOK'
    BY <1>3, <2>1, <2>2, <2>3, <2>4, <2>5 DEF TypeOK, QueueOK, Sending
  <2>7. SendingOK'
    BY <2>1, <2>5 DEF TypeOK, SendingOK, Sending
  <2>8. OneHolder'
    BY <1>3, <2>1 DEF TypeOK, OneHolder, Holder, Woken, Sending
  <2> QED BY <1>1, <2>6, <2>7, <2>8
<1> QED BY <1>2, <1>3 DEF TypeOK

(* A woken caller returns from lock().                                     *)
LEMMA WakeHolds ==
  ASSUME IInv, NEW p \in Procs, Wake(p)
  PROVE  IInv'
<1> USE DEF IInv
<1>1. TypeOK'
  BY DEF Wake, TypeOK
<1>2. Holder(p) /\ ~Queued(p) /\ \A q \in Procs : ~Sending(q, p)
  BY DEF Wake, Holder, Woken, Queued, QueueOK, SendingOK
<1>3. QueueOK' /\ SendingOK'
  BY <1>2 DEF Wake, TypeOK, QueueOK, SendingOK, Sending, Queued
<1>4. OneHolder'
  BY <1>2 DEF Wake, TypeOK, OneHolder, Holder, Woken, Sending
<1> QED BY <1>1, <1>3, <1>4

(* The caller inside is the only holder; it passes the lock to the head of *)
(* the queue or opens it.                                                  *)
LEMMA UnlockHolds ==
  ASSUME IInv, NEW p \in Procs, unlock(p)
  PROVE  IInv'
<1> USE DEF IInv
<1>0. pc[p] = "inside" /\ Holder(p) /\ pc' = [pc EXCEPT ![p] = "releasing"] /\ sent' = sent
  BY DEF unlock, Holder
<1>1. \A q \in Procs : Holder(q) => q = p
  BY <1>0 DEF OneHolder
<1>2. \A q, r \in Procs : ~Sending(q, r)
  BY <1>0, <1>1 DEF Holder, SendingOK
<1>3. CASE waiters = <<>>
  <2>1. locked' = FALSE /\ UNCHANGED <<waiters, sending>>
    BY <1>3 DEF unlock
  <2>2. TypeOK' /\ Len(waiters) = 0
    BY Zenon, <1>0, <1>3, <2>1, EmptySeq DEF TypeOK
  <2>3. QueueOK' /\ SendingOK'
    BY <1>2, <1>3, <2>1, <2>2 DEF QueueOK, SendingOK, Sending
  <2>4. OneHolder'
    BY <1>0, <1>1, <1>2, <2>1 DEF TypeOK, OneHolder, Holder, Woken, Sending
  <2> QED BY <2>2, <2>3, <2>4
<1>4. CASE waiters # <<>>
  <2> DEFINE h == Head(waiters)
  <2>1. /\ sending' = [sending EXCEPT ![p] = {h}] /\ waiters' = Tail(waiters)
        /\ UNCHANGED locked
    BY <1>4 DEF unlock
  <2>2. /\ h = waiters[1] /\ h \in Procs /\ Len(waiters) # 0 /\ Len(waiters) \in Nat
        /\ Tail(waiters) \in Seq(Procs) /\ Len(waiters') = Len(waiters) - 1
        /\ \A i \in 1..Len(waiters') : waiters'[i] = waiters[i + 1]
    BY <1>4, <2>1, HeadTailProperties, LenProperties, ElementOfSeq DEF TypeOK
  <2> HIDE DEF h
  <2>3. pc[h] = "waiting" /\ h \notin sent /\ h # p /\ locked
    BY <1>0, <1>4, <2>2 DEF QueueOK
  <2>4. \A i \in 1..Len(waiters') : i + 1 \in 1..Len(waiters) /\ waiters'[i] # h
    BY <2>2 DEF QueueOK
  <2>5. TypeOK'
    BY <1>0, <2>1, <2>2, <2>3 DEF TypeOK
  <2>6. \A q, r \in Procs : Sending(q, r)' <=> q = p /\ r = h
    BY <1>2, <2>1, <2>2 DEF TypeOK, Sending
  <2>7. QueueOK'
    <3>1. \A i, j \in 1..Len(waiters') : waiters'[i] = waiters'[j] => i = j
      BY <2>2, <2>4 DEF QueueOK
    <3>2. \A i \in 1..Len(waiters') : pc'[waiters'[i]] = "waiting" /\ waiters'[i] \notin sent'
      <4> SUFFICES ASSUME NEW i \in 1..Len(waiters')
                   PROVE  pc'[waiters'[i]] = "waiting" /\ waiters'[i] \notin sent'
        OBVIOUS
      <4>1. waiters'[i] = waiters[i + 1] /\ i + 1 \in 1..Len(waiters)
        BY <2>2, <2>4
      <4>2. pc[waiters[i + 1]] = "waiting" /\ waiters[i + 1] \notin sent
        BY <4>1 DEF QueueOK
      <4>3. waiters[i + 1] # p
        BY <1>0, <4>2
      <4> QED BY <1>0, <4>1, <4>2, <4>3 DEF TypeOK
    <3>3. \A i \in 1..Len(waiters') : waiters'[i] \in Procs
      BY <2>1, <2>2, ElementOfSeq
    <3>4. \A i \in 1..Len(waiters') : \A q \in Procs : ~Sending(q, waiters[i])'
      BY <2>4, <2>6, <3>3 DEF Sending
    <3> QED BY <2>1, <2>3, <3>1, <3>2, <3>4 DEF QueueOK
  <2>8. SendingOK'
    BY <1>0, <2>3, <2>6 DEF TypeOK, SendingOK
  <2>9. \A q \in Procs : Holder(q)' => q = h
    BY <1>0, <1>1, <2>6 DEF TypeOK, Holder, Woken
  <2>10. OneHolder'
    BY <2>1, <2>3, <2>9 DEF OneHolder
  <2> QED BY <2>5, <2>7, <2>8, <2>10
<1> QED BY <1>3, <1>4

(* unlock() sends the event of the new holder, if there is one, and        *)
(* returns.                                                                *)
LEMMA SendHolds ==
  ASSUME IInv, NEW p \in Procs, Send(p)
  PROVE  IInv'
<1> USE DEF IInv
<1>1. /\ pc[p] = "releasing" /\ pc' = [pc EXCEPT ![p] = "idle"]
      /\ sent' = sent \cup sending[p] /\ sending' = [sending EXCEPT ![p] = {}]
      /\ UNCHANGED <<locked, waiters>>
  BY DEF Send
<1>2. \A q, r \in Procs : Sending(q, r)' <=> Sending(q, r) /\ q # p
  BY <1>1 DEF TypeOK, Sending
<1>3. \A r \in Procs : Sending(p, r) => r # p /\ Holder(r) /\ pc[r] = "waiting"
  BY <1>1 DEF SendingOK, Holder
<1>4. TypeOK'
  BY <1>1 DEF TypeOK
<1>5. \A i \in 1..Len(waiters) : waiters[i] \in Procs /\ waiters[i] # p
  BY <1>1, ElementOfSeq DEF TypeOK, QueueOK
<1>6. QueueOK'
  BY <1>1, <1>2, <1>5 DEF TypeOK, QueueOK, Sending
<1>7. SendingOK'
  BY <1>1, <1>2 DEF TypeOK, SendingOK, Sending
<1>8. \A q \in Procs : Holder(q)' => Holder(q)
  BY <1>1, <1>2 DEF TypeOK, Holder, Woken, Sending
<1>9. OneHolder'
  BY <1>1, <1>8 DEF OneHolder
<1> QED BY <1>4, <1>6, <1>7, <1>9

(* Between lock() and unlock() there is one caller at most, whatever the   *)
(* number of callers and however hand-over and new calls interleave.       *)
THEOREM MutexExcludes == Spec => []MutualExclusion
<1>1. IInv /\ [Next]_vars => IInv'
  <2> SUFFICES ASSUME IInv, [Next]_vars PROVE IInv'
    OBVIOUS
  <2>1. CASE UNCHANGED vars
    BY <2>1 DEF vars, IInv, TypeOK, QueueOK, SendingOK, OneHolder, Holder, Woken, Sending
  <2>2. ASSUME NEW p \in Procs, lock(p) \/ Wake(p) \/ unlock(p) \/ Send(p)
        PROVE  IInv'
    BY <2>2, LockHolds, WakeHolds, UnlockHolds, SendHolds
  <2> QED BY <2>1, <2>2 DEF Next
<1>2. IInv => MutualExclusion
  BY DEF IInv, OneHolder, Holder, MutualExclusion
<1> QED BY InitHolds, <1>1, <1>2, PTL DEF Spec
=============================================================================
