-------------------------- MODULE QueuedPoolQueue ---------------------------
(***************************************************************************)
(* What the operators on the queue of a pool return: removal, insertion,   *)
(* promotion, launch and, built from them, dispatch.                       *)
(***************************************************************************)
EXTENDS QueuedPool, TLAPS, FiniteSetTheorems, SequenceTheorems

-----------------------------------------------------------------------------
(* Facts about the sequence operators the queue is made of.                *)

(* RemovedAt drops one place of a sequence and shifts the rest down.        *)
LEMMA RemovedAtFacts ==
  ASSUME NEW S, NEW q \in Seq(S), NEW k \in 1..Len(q)
  PROVE  /\ RemovedAt(q, k) \in Seq(S)
         /\ Len(RemovedAt(q, k)) = Len(q) - 1
         /\ \A i \in 1..(Len(q) - 1) :
              RemovedAt(q, k)[i] = IF i < k THEN q[i] ELSE q[i + 1]
<1> DEFINE a == SubSeq(q, 1, k - 1)
           b == SubSeq(q, k + 1, Len(q))
<1>1. /\ a \in Seq(S) /\ Len(a) = k - 1
      /\ \A i \in 1..(k - 1) : a[i] = q[i]
  BY SubSeqProperties
<1>2. /\ b \in Seq(S) /\ Len(b) = Len(q) - k
      /\ \A i \in 1..(Len(q) - k) : b[i] = q[k + i]
  BY SubSeqProperties
<1>4. RemovedAt(q, k) = a \o b
  BY DEF RemovedAt
<1> HIDE DEF a, b
<1>3. /\ a \o b \in Seq(S) /\ Len(a \o b) = Len(a) + Len(b)
      /\ \A i \in 1..(Len(a) + Len(b)) :
           (a \o b)[i] = IF i <= Len(a) THEN a[i] ELSE b[i - Len(a)]
  BY ZenonT(60), <1>1, <1>2, ConcatProperties
<1>5. ASSUME NEW i \in 1..(Len(q) - 1)
      PROVE  RemovedAt(q, k)[i] = IF i < k THEN q[i] ELSE q[i + 1]
  <2>1. CASE i < k
    BY <1>1, <1>2, <1>3, <1>4, <2>1
  <2>2. CASE ~(i < k)
    <3>1. i - Len(a) \in 1..(Len(q) - k) /\ i - Len(a) = i - k + 1
      BY <1>1, <2>2
    <3>2. b[i - Len(a)] = q[k + (i - Len(a))] /\ k + (i - Len(a)) = i + 1
      BY SMTT(30), <1>2, <3>1
    <3> QED
      BY <1>1, <1>2, <1>3, <1>4, <2>2, <3>2
  <2> QED
    BY <2>1, <2>2
<1>6. Len(a) + Len(b) = Len(q) - 1
  BY <1>1, <1>2
<1>7. Len(a \o b) = Len(q) - 1
  BY <1>3, <1>6
<1> QED
  BY <1>3, <1>4, <1>5, <1>7

(* InsertedAt places an element before one place of a sequence, or last.     *)
LEMMA InsertedAtFacts ==
  ASSUME NEW S, NEW q \in Seq(S), NEW e \in S, NEW k \in 1..(Len(q) + 1)
  PROVE  /\ InsertedAt(q, k, e) \in Seq(S)
         /\ Len(InsertedAt(q, k, e)) = Len(q) + 1
         /\ InsertedAt(q, k, e)[k] = e
         /\ \A i \in 1..(k - 1) : InsertedAt(q, k, e)[i] = q[i]
         /\ \A i \in k..Len(q) : InsertedAt(q, k, e)[i + 1] = q[i]
<1> DEFINE a == SubSeq(q, 1, k - 1)
           b == SubSeq(q, k, Len(q))
           c == a \o <<e>>
<1>1. /\ a \in Seq(S) /\ Len(a) = k - 1
      /\ \A i \in 1..(k - 1) : a[i] = q[i]
  BY SubSeqProperties
<1>2. /\ b \in Seq(S) /\ Len(b) = Len(q) - k + 1
      /\ \A i \in 1..(Len(q) - k + 1) : b[i] = q[k + i - 1]
  BY SubSeqProperties
<1>5. InsertedAt(q, k, e) = c \o b
  BY DEF InsertedAt
<1> HIDE DEF a, b
<1>3. /\ c \in Seq(S) /\ Len(c) = k
      /\ \A i \in 1..k : c[i] = IF i < k THEN q[i] ELSE e
  BY <1>1, ConcatProperties
<1> HIDE DEF c
<1>4. /\ c \o b \in Seq(S) /\ Len(c \o b) = Len(c) + Len(b)
      /\ \A i \in 1..(Len(c) + Len(b)) :
           (c \o b)[i] = IF i <= Len(c) THEN c[i] ELSE b[i - Len(c)]
  BY ZenonT(60), <1>2, <1>3, ConcatProperties
<1> QED
  BY <1>2, <1>3, <1>4, <1>5

(* A nonempty set of naturals has a least element, the one Min picks.      *)
LEMMA MinFacts ==
  ASSUME NEW T, T \subseteq Nat, T # {}
  PROVE  Min(T) \in T /\ \A y \in T : Min(T) <= y
<1> DEFINE R == {ss \in Nat \X Nat : ss[1] < ss[2]}
<1>1. IsWellFoundedOn(R, Nat)
  BY Zenon, NatLessThanWellFounded DEF OpToRel
<1>2. \E x \in T : \A y \in T : ~(<<y, x>> \in R)
  <2> HIDE DEF R
  <2> QED
    BY ZenonT(60), <1>1, WFMin
<1>3. PICK x \in T : \A y \in T : ~(<<y, x>> \in R)
  BY <1>2
<1>4. ASSUME NEW y \in T
      PROVE  x <= y
  <2>1. x \in Nat /\ y \in Nat /\ <<y, x>> \in Nat \X Nat
    OBVIOUS
  <2>2. ~(y < x)
    BY <1>3, <2>1
  <2> QED
    BY <2>1, <2>2
<1> QED
  BY ZenonT(60), <1>4 DEF Min

-----------------------------------------------------------------------------
(* The parts of the inductive invariant that concern the strand's record.  *)

NoDup(q) == \A i, j \in 1..Len(q) : q[i] = q[j] => i = j

(* The queue holds exactly the queued tasks, each once.                    *)
QueueOK(p) ==
  /\ \A i \in 1..Len(p.queue) : p.phase[p.queue[i]] = "queued"
  /\ \A t \in Tasks : p.phase[t] = "queued" =>
                        \E i \in 1..Len(p.queue) : p.queue[i] = t
  /\ NoDup(p.queue)

Executing(p) == {t \in Tasks : p.phase[t] \in {"running", "returned"}}
BusyOK(p) == p.busy = Cardinality(Executing(p))
AcceptedIn(p) == {t \in Tasks : p.phase[t] \in Accepted}

(* r is q without t.                                                       *)
IsWithout(r, q, t) ==
  /\ r \in Seq(Tasks)
  /\ Len(r) = Len(q) - 1
  /\ \A i \in 1..Len(r) : r[i] # t /\ \E j \in 1..Len(q) : r[i] = q[j]
  /\ \A j \in 1..Len(q) : q[j] # t => \E i \in 1..Len(r) : r[i] = q[j]
  /\ NoDup(r)

(* r is q with t added somewhere.                                          *)
IsWith(r, q, t) ==
  /\ r \in Seq(Tasks)
  /\ Len(r) = Len(q) + 1
  /\ \A i \in 1..Len(r) : r[i] = t \/ \E j \in 1..Len(q) : r[i] = q[j]
  /\ \E i \in 1..Len(r) : r[i] = t
  /\ \A j \in 1..Len(q) : \E i \in 1..Len(r) : r[i] = q[j]
  /\ NoDup(r)

(* Removing a queued task from a queue without duplicates leaves the       *)
(* others, once each.                                                      *)
LEMMA WithoutFacts ==
  ASSUME NEW q \in Seq(Tasks), NEW t, NEW n \in 1..Len(q), q[n] = t, NoDup(q)
  PROVE  IsWithout(Without(q, t), q, t)
<1> USE DEF NoDup
<1> DEFINE k == Position(q, t)
           r == RemovedAt(q, k)
<1>1. k \in 1..Len(q) /\ q[k] = t
  BY DEF Position
<1>2. /\ r \in Seq(Tasks) /\ Len(r) = Len(q) - 1
      /\ \A i \in 1..(Len(q) - 1) : r[i] = IF i < k THEN q[i] ELSE q[i + 1]
  BY ZenonT(60), <1>1, RemovedAtFacts
<1>3. Without(q, t) = r
  BY DEF Without
<1> HIDE DEF k, r
<1>4. ASSUME NEW i \in 1..Len(r)
      PROVE  r[i] # t /\ \E j \in 1..Len(q) : r[i] = q[j]
  BY <1>1, <1>2
<1>5. ASSUME NEW j \in 1..Len(q), q[j] # t
      PROVE  \E i \in 1..Len(r) : r[i] = q[j]
  <2>1. CASE j < k
    BY <1>1, <1>2, <2>1
  <2>2. CASE j > k
    <3>1. j - 1 \in 1..(Len(q) - 1) /\ ~(j - 1 < k) /\ (j - 1) + 1 = j
      BY <1>1, <2>2
    <3>2. r[j - 1] = q[j] /\ j - 1 \in 1..Len(r)
      BY <1>2, <3>1
    <3> QED
      BY <3>2
  <2> QED
    BY <1>1, <1>5, <2>1, <2>2
<1>6. ASSUME NEW i \in 1..Len(r), NEW j \in 1..Len(r), r[i] = r[j]
      PROVE  i = j
  <2> DEFINE place(m) == IF m < k THEN m ELSE m + 1
  <2>1. \A m \in 1..Len(r) : place(m) \in 1..Len(q) /\ r[m] = q[place(m)]
    BY <1>1, <1>2
  <2>2. place(i) = place(j)
    BY SMTT(30), <1>6, <2>1
  <2> QED
    BY <1>1, <1>2, <2>2
<1> QED
  BY ZenonT(60), <1>2, <1>3, <1>4, <1>5, <1>6 DEF IsWithout

(* Inserting a new task into a queue without duplicates adds it once.      *)
LEMMA InsertedFacts ==
  ASSUME NEW q \in Seq(Tasks), NEW t \in Tasks, NEW k \in 1..(Len(q) + 1),
         \A i \in 1..Len(q) : q[i] # t, NoDup(q)
  PROVE  IsWith(InsertedAt(q, k, t), q, t)
<1> USE DEF NoDup
<1> DEFINE r == InsertedAt(q, k, t)
<1>1. /\ r \in Seq(Tasks) /\ Len(r) = Len(q) + 1
      /\ r[k] = t
      /\ \A i \in 1..(k - 1) : r[i] = q[i]
      /\ \A i \in k..Len(q) : r[i + 1] = q[i]
  BY SMTT(30), InsertedAtFacts
<1> HIDE DEF r
<1> DEFINE place(m) == IF m < k THEN m ELSE m - 1
<1>2. ASSUME NEW i \in 1..Len(r), i # k
      PROVE  place(i) \in 1..Len(q) /\ r[i] = q[place(i)]
  <2>1. CASE i < k
    BY <1>1, <2>1
  <2>2. CASE i > k
    <3>1. i - 1 \in k..Len(q) /\ (i - 1) + 1 = i /\ place(i) = i - 1
      BY <1>1, <2>2
    <3> QED
      BY <1>1, <3>1
  <2> QED
    BY <1>2, <2>1, <2>2
<1>3. ASSUME NEW i \in 1..Len(r)
      PROVE  r[i] = t \/ \E j \in 1..Len(q) : r[i] = q[j]
  BY <1>1, <1>2
<1>4. ASSUME NEW j \in 1..Len(q)
      PROVE  \E i \in 1..Len(r) : r[i] = q[j]
  <2>1. CASE j < k
    BY <1>1, <2>1
  <2>2. CASE j >= k
    BY <1>1, <2>2
  <2> QED
    BY <2>1, <2>2
<1>5. ASSUME NEW i \in 1..Len(r), NEW j \in 1..Len(r), r[i] = r[j]
      PROVE  i = j
  <2>1. CASE i # k /\ j # k
    <3>1. place(i) = place(j)
      BY ZenonT(60), <1>2, <1>5, <2>1
    <3> QED
      BY <1>1, <2>1, <3>1
  <2>2. CASE i = k \/ j = k
    BY <1>1, <1>2, <1>5, <2>2
  <2> QED
    BY <2>1, <2>2
<1> QED
  BY <1>1, <1>3, <1>4, <1>5 DEF r, IsWith

(* InsertByKey inserts at some place of the queue.                         *)
LEMMA InsertByKeyPlace ==
  ASSUME NEW q \in Seq(Tasks), NEW key, NEW t \in Tasks
  PROVE  \E k \in 1..(Len(q) + 1) : InsertByKey(q, key, t) = InsertedAt(q, k, t)
<1> DEFINE smaller == {i \in 1..Len(q) : KeyLess(key[q[i]], key[t])}
<1>1. IsFiniteSet(1..Len(q)) /\ Cardinality(1..Len(q)) = Len(q)
  <2>1. Len(q) \in Int /\ Len(q) \in Nat /\ 1 \in Int
    OBVIOUS
  <2>2. /\ IsFiniteSet(1..Len(q))
        /\ Cardinality(1..Len(q)) = IF 1 > Len(q) THEN 0 ELSE Len(q) - 1 + 1
    BY <2>1, FS_Interval, Zenon
  <2> QED
    BY <2>1, <2>2
<1>2. /\ IsFiniteSet(smaller) /\ Cardinality(smaller) <= Len(q)
      /\ Cardinality(smaller) \in Nat
  BY <1>1, FS_Subset, FS_CardinalityType
<1> HIDE DEF smaller
<1>3. 1 + Cardinality(smaller) \in 1..(Len(q) + 1)
  BY <1>2
<1>4. InsertByKey(q, key, t) = InsertedAt(q, 1 + Cardinality(smaller), t)
  BY DEF InsertByKey, smaller
<1> QED
  BY <1>3, <1>4

(* promote only reorders the queue.                                        *)
LEMMA PromoteFacts ==
  ASSUME NEW p \in PoolState, NEW t \in Tasks, QueueOK(p)
  PROVE  LET q == promote(p, t) IN
         /\ q \in PoolState /\ QueueOK(q)
         /\ q.phase = p.phase /\ q.busy = p.busy
         /\ Len(q.queue) = Len(p.queue)
<1>0. p.queue \in Seq(Tasks) /\ p.key \in [Tasks -> Int \X Int]
  BY DEF PoolState
<1>1. CASE p.phase[t] # "queued" \/ t \in p.promoted
  BY <1>1 DEF promote
<1>2. CASE ~(p.phase[t] # "queued" \/ t \in p.promoted)
  <2> DEFINE s == p.queue
             w == Without(s, t)
  <2>1. PICK n \in 1..Len(s) : s[n] = t
    BY <1>2 DEF QueueOK
  <2>1a. NoDup(s)
    BY DEF QueueOK
  <2>1b. s \in Seq(Tasks)
    BY <1>0
  <2> HIDE DEF s
  <2>2. IsWithout(w, s, t)
    BY <2>1, <2>1a, <2>1b, WithoutFacts
  <2> HIDE DEF w
  <2> DEFINE key == IF Priority THEN [p.key EXCEPT ![t][1] = MinPriority] ELSE p.key
             r == IF Priority THEN InsertByKey(w, key, t) ELSE <<t>> \o w
             q == [p EXCEPT !.promoted = p.promoted \cup {t},
                            !.deadlines = p.deadlines \ {t},
                            !.key = key, !.queue = r]
  <2>3. promote(p, t) = q
    BY ZenonT(60), <1>2 DEF promote, removeDeadline, w, s, PoolState
  <2>4. \E k \in 1..(Len(w) + 1) : r = InsertedAt(w, k, t)
    <3>1. CASE Priority
      <4>1. r = InsertByKey(w, key, t)
        BY <3>1
      <4> HIDE DEF key
      <4>2. w \in Seq(Tasks)
        BY <2>2 DEF IsWithout
      <4>3. \E k \in 1..(Len(w) + 1) : InsertByKey(w, key, t) = InsertedAt(w, k, t)
        BY <4>2, InsertByKeyPlace
      <4> HIDE DEF r
      <4> QED
        BY <4>1, <4>3
    <3>2. CASE ~Priority
      <4>1. SubSeq(w, 1, 0) = <<>> /\ SubSeq(w, 1, Len(w)) = w
        BY <2>2, SubSeqEmpty, SubSeqFull DEF IsWithout
      <4>2. <<>> \o <<t>> = <<t>>
        BY ConcatEmptySeq
      <4>3. InsertedAt(w, 1, t) = <<t>> \o w
        BY <4>1, <4>2 DEF InsertedAt
      <4>4. 1 \in 1..(Len(w) + 1)
        BY <2>2 DEF IsWithout
      <4> QED
        BY <3>2, <4>3, <4>4
    <3> QED
      BY ZenonT(60), <3>1, <3>2
  <2>5. key \in [Tasks -> Int \X Int]
    <3>1. p.key[t] \in Int \X Int
      BY <1>0
    <3>2. [p.key[t] EXCEPT ![1] = MinPriority] \in Int \X Int
      BY <3>1, PrioritiesOrdered
    <3> QED
      BY <1>0, <3>2
  <2> HIDE DEF r, key
  <2>6. PICK k \in 1..(Len(w) + 1) : r = InsertedAt(w, k, t)
    BY <2>4
  <2>7. IsWith(r, w, t)
    <3>1. w \in Seq(Tasks) /\ NoDup(w) /\ \A i \in 1..Len(w) : w[i] # t
      BY <2>2 DEF IsWithout
    <3> QED
      BY <2>6, <3>1, InsertedFacts
  <2>8. /\ q \in PoolState
        /\ q.queue = r /\ q.phase = p.phase /\ q.busy = p.busy
    BY ZenonT(60), <2>5, <2>7 DEF PoolState, IsWith
  <2> HIDE DEF q
  <2>9. QueueOK(q)
    <3>1. ASSUME NEW i \in 1..Len(r)
          PROVE  p.phase[r[i]] = "queued"
      <4>1. r[i] = t \/ \E j \in 1..Len(s) : r[i] = s[j]
        BY <2>2, <2>7 DEF IsWith, IsWithout
      <4> QED
        BY <1>2, <4>1 DEF QueueOK, s
    <3>2. ASSUME NEW u \in Tasks, p.phase[u] = "queued"
          PROVE  \E i \in 1..Len(r) : r[i] = u
      <4>1. PICK j \in 1..Len(s) : s[j] = u
        BY <3>2 DEF QueueOK, s
      <4>2. u = t \/ \E i \in 1..Len(w) : w[i] = u
        BY ZenonT(60), <2>2, <4>1 DEF IsWithout
      <4> QED
        BY <2>7, <4>2 DEF IsWith
    <3> QED
      BY <2>7, <2>8, <3>1, <3>2 DEF QueueOK, IsWith
  <2> QED
    BY SMTT(30), <2>1b, <2>2, <2>3, <2>7, <2>8, <2>9 DEF s, IsWith, IsWithout
<1> QED
  BY <1>1, <1>2

(* Appending is one way of adding.                                         *)
LEMMA AppendIsWith ==
  ASSUME NEW q \in Seq(Tasks), NEW t \in Tasks,
         \A i \in 1..Len(q) : q[i] # t, NoDup(q)
  PROVE  IsWith(Append(q, t), q, t)
<1> DEFINE r == Append(q, t)
<1>1. /\ r \in Seq(Tasks) /\ Len(r) = Len(q) + 1
      /\ r[Len(q) + 1] = t
      /\ \A i \in 1..Len(q) : r[i] = q[i]
  BY AppendProperties
<1> HIDE DEF r
<1>2. NoDup(r)
  BY <1>1 DEF NoDup
<1>3. /\ \A i \in 1..Len(r) : r[i] = t \/ \E j \in 1..Len(q) : r[i] = q[j]
      /\ \E i \in 1..Len(r) : r[i] = t
      /\ \A j \in 1..Len(q) : \E i \in 1..Len(r) : r[i] = q[j]
  BY <1>1
<1> QED
  BY <1>1, <1>2, <1>3 DEF IsWith, r

(* insert queues one more task.                                            *)
LEMMA InsertFacts ==
  ASSUME NEW p \in PoolState, NEW t \in Tasks, QueueOK(p),
         p.phase[t] # "queued"
  PROVE  LET q == insert(p, t) IN
         /\ q \in PoolState /\ QueueOK(q)
         /\ q.phase = [p.phase EXCEPT ![t] = "queued"]
         /\ q.busy = p.busy
<1> DEFINE s == p.queue
           key == IF Priority THEN [p.key EXCEPT ![t][2] = p.nextSequence] ELSE p.key
           r == IF Priority THEN InsertByKey(s, key, t) ELSE Append(s, t)
           phase == [p.phase EXCEPT ![t] = "queued"]
           next == IF Priority THEN p.nextSequence + 1 ELSE p.nextSequence
           q == [p EXCEPT !.phase = phase, !.key = key, !.queue = r,
                          !.nextSequence = next]
<1>1. s \in Seq(Tasks) /\ NoDup(s) /\ \A i \in 1..Len(s) : s[i] # t
  BY DEF QueueOK, PoolState
<1>2. insert(p, t) = q
  BY ZenonT(60) DEF insert, PoolState
<1>3. key \in [Tasks -> Int \X Int]
  <2>1. p.key \in [Tasks -> Int \X Int] /\ p.nextSequence \in Int
    BY DEF PoolState
  <2>2. [p.key[t] EXCEPT ![2] = p.nextSequence] \in Int \X Int
    BY <2>1
  <2> QED
    BY <2>1, <2>2
<1>4. IsWith(r, s, t)
  <2>1. CASE Priority
    <3>1. r = InsertByKey(s, key, t)
      BY <2>1
    <3> HIDE DEF key, s, r
    <3>2. PICK k \in 1..(Len(s) + 1) : InsertByKey(s, key, t) = InsertedAt(s, k, t)
      BY <1>1, InsertByKeyPlace
    <3> QED
      BY <1>1, <3>1, <3>2, InsertedFacts
  <2>2. CASE ~Priority
    <3>1. r = Append(s, t)
      BY <2>2
    <3> HIDE DEF s, r
    <3> QED
      BY <1>1, <3>1, AppendIsWith
  <2> QED
    BY <2>1, <2>2
<1>5. phase \in [Tasks -> Phases] /\ phase[t] = "queued"
      /\ \A u \in Tasks : u # t => phase[u] = p.phase[u]
  BY DEF PoolState, Phases
<1>5a. next \in Nat
  BY DEF PoolState
<1> HIDE DEF r, key, phase, next
<1>6. /\ q \in PoolState
      /\ q.queue = r /\ q.phase = phase /\ q.busy = p.busy
  BY ZenonT(60), <1>3, <1>4, <1>5, <1>5a DEF PoolState, IsWith
<1> HIDE DEF q
<1>7. QueueOK(q)
  <2>1. ASSUME NEW i \in 1..Len(r)
        PROVE  phase[r[i]] = "queued"
    <3>1. r[i] = t \/ \E j \in 1..Len(s) : r[i] = s[j]
      BY <1>4 DEF IsWith
    <3> QED
      BY <1>1, <1>5, <3>1 DEF QueueOK
  <2>2. ASSUME NEW u \in Tasks, phase[u] = "queued"
        PROVE  \E i \in 1..Len(r) : r[i] = u
    <3>1. u = t \/ \E j \in 1..Len(s) : s[j] = u
      BY <1>5, <2>2 DEF QueueOK
    <3> HIDE DEF s
    <3> QED
      BY <1>4, <3>1 DEF IsWith
  <2> QED
    BY <1>4, <1>6, <2>1, <2>2 DEF QueueOK, IsWith
<1> QED
  BY <1>2, <1>6, <1>7 DEF phase

(* The first n elements of a queue without duplicates are n tasks.         *)
LEMMA PrefixCardinality ==
  ASSUME NEW q \in Seq(Tasks), NoDup(q), NEW n \in 0..Len(q)
  PROVE  /\ IsFiniteSet({q[i] : i \in 1..n})
         /\ Cardinality({q[i] : i \in 1..n}) = n
<1> DEFINE popped == {q[i] : i \in 1..n}
           f == [i \in 1..n |-> q[i]]
<1>1. f \in Bijection(1..n, popped)
  BY DEF Bijection, Injection, Surjection, NoDup, IsInjective
<1>2. ExistsBijection(1..n, popped)
  BY <1>1 DEF ExistsBijection
<1>3. IsFiniteSet(1..n) /\ Cardinality(1..n) = n
  <2>1. n \in Int /\ 1 \in Int
    OBVIOUS
  <2>2. IsFiniteSet(1..n) /\ Cardinality(1..n) = IF 1 > n THEN 0 ELSE n - 1 + 1
    BY <2>1, FS_Interval, Zenon
  <2> QED
    BY <2>2
<1> HIDE DEF popped
<1>4. IsFiniteSet(popped) /\ Cardinality(popped) = Cardinality(1..n)
  BY <1>2, <1>3, FS_Bijection
<1> QED
  BY <1>3, <1>4 DEF popped

(* The dispatch loop moves the first n queued tasks to running.            *)
LEMMA LaunchFacts ==
  ASSUME NEW p \in PoolState, QueueOK(p), BusyOK(p),
         NEW n \in 0..Len(p.queue)
  PROVE  LET q == Launch(p, n) IN
         /\ q \in PoolState /\ QueueOK(q) /\ BusyOK(q)
         /\ q.busy = p.busy + n
         /\ Len(q.queue) = Len(p.queue) - n
         /\ \A t \in Tasks : \/ q.phase[t] = p.phase[t]
                             \/ p.phase[t] = "queued" /\ q.phase[t] = "running"
<1> DEFINE s == p.queue
           r == SubSeq(s, n + 1, Len(s))
           popped == {s[i] : i \in 1..n}
           phase == [t \in Tasks |-> IF t \in popped THEN "running" ELSE p.phase[t]]
           q == [p EXCEPT !.queue = r, !.busy = p.busy + n, !.phase = phase,
                          !.deadlines = p.deadlines \ popped]
<1>1. /\ s \in Seq(Tasks) /\ NoDup(s)
      /\ \A i \in 1..Len(s) : s[i] \in Tasks /\ p.phase[s[i]] = "queued"
      /\ \A t \in Tasks : p.phase[t] = "queued" => \E i \in 1..Len(s) : s[i] = t
  BY DEF QueueOK, PoolState
<1>2. Launch(p, n) = q
  BY DEF Launch
<1>3. /\ r \in Seq(Tasks) /\ Len(r) = Len(s) - n
      /\ \A i \in 1..(Len(s) - n) : r[i] = s[n + i]
  <2>1. Len(s) \in Nat /\ n \in Nat /\ n <= Len(s)
    BY <1>1
  <2>2. /\ r \in Seq(Tasks)
        /\ Len(r) = IF n + 1 <= Len(s) THEN Len(s) - (n + 1) + 1 ELSE 0
        /\ \A i \in 1..(Len(s) - (n + 1) + 1) : r[i] = s[(n + 1) + i - 1]
    BY <1>1, <2>1, SubSeqProperties
  <2> HIDE DEF s, r
  <2> QED
    BY <2>1, <2>2
<1>4. /\ phase \in [Tasks -> Phases]
      /\ \A t \in popped : p.phase[t] = "queued" /\ phase[t] = "running" /\ t \in Tasks
      /\ \A t \in Tasks : t \notin popped => phase[t] = p.phase[t]
  <2>1. \A t \in popped : t \in Tasks /\ p.phase[t] = "queued"
    BY <1>1
  <2>2. p.phase \in [Tasks -> Phases] /\ "running" \in Phases
    BY DEF PoolState, Phases
  <2> HIDE DEF popped
  <2> QED
    BY <2>1, <2>2
<1>5. IsFiniteSet(popped) /\ Cardinality(popped) = n
  BY ZenonT(60), <1>1, PrefixCardinality
<1>6. /\ q \in PoolState
      /\ q.queue = r /\ q.phase = phase /\ q.busy = p.busy + n
  <2> HIDE DEF phase, r, popped
  <2>1. p.busy + n \in Nat
    BY DEF PoolState
  <2> QED
    BY ZenonT(60), <1>3, <1>4, <2>1 DEF PoolState
<1>7. QueueOK(q)
  <2>1. ASSUME NEW i \in 1..Len(r)
        PROVE  phase[r[i]] = "queued"
    <3>1. n + i \in 1..Len(s) /\ r[i] = s[n + i]
      BY SMTT(30), <1>1, <1>3
    <3>2. s[n + i] \notin popped
      <4>1. ASSUME NEW j \in 1..n, s[j] = s[n + i]
            PROVE  FALSE
        <5>1. j \in 1..Len(s) /\ j # n + i
          BY <1>1, <1>3
        <5> QED
          BY <1>1, <3>1, <4>1, <5>1 DEF NoDup
      <4> QED
        BY <4>1
    <3> QED
      BY SMTT(30), <1>1, <1>4, <3>1, <3>2
  <2>2. ASSUME NEW t \in Tasks, phase[t] = "queued"
        PROVE  \E i \in 1..Len(r) : r[i] = t
    <3>1. t \notin popped /\ p.phase[t] = "queued"
      BY <1>4, <2>2
    <3>2. PICK j \in 1..Len(s) : s[j] = t
      BY <1>1, <3>1
    <3>3. ~(j <= n)
      BY <3>1, <3>2
    <3>4. j - n \in 1..(Len(s) - n) /\ n + (j - n) = j
      BY <1>1, <3>3
    <3>5. r[j - n] = t /\ j - n \in 1..Len(r)
      BY <1>3, <3>2, <3>4
    <3> QED
      BY ZenonT(60), <3>5
  <2>3. NoDup(r)
    <3> HIDE DEF r, s
    <3>1. ASSUME NEW i \in 1..Len(r), NEW j \in 1..Len(r), r[i] = r[j]
          PROVE  i = j
      <4>0. i \in 1..(Len(s) - n) /\ j \in 1..(Len(s) - n)
        BY <1>3
      <4>1. n + i \in 1..Len(s) /\ n + j \in 1..Len(s) /\ s[n + i] = s[n + j]
        BY SMTT(30), <1>1, <1>3, <3>1, <4>0
      <4>2. n + i = n + j
        BY SMTT(30), <1>1, <4>1 DEF NoDup
      <4> QED
        BY <4>2
    <3> QED
      BY <3>1 DEF NoDup
  <2> HIDE DEF q, r, phase
  <2> QED
    BY SMTT(30), <1>6, <2>1, <2>2, <2>3 DEF QueueOK
<1> HIDE DEF popped, phase, q
<1>8. BusyOK(q)
  <2>1. Executing(q) = Executing(p) \cup popped
    BY <1>4, <1>6 DEF Executing
  <2>2. Executing(p) \cap popped = {}
    BY <1>4 DEF Executing
  <2>3. IsFiniteSet(Executing(p))
    BY TasksFinite, FS_Subset DEF Executing
  <2>4. Cardinality(Executing(p) \cup popped)
          = Cardinality(Executing(p)) + Cardinality(popped) - Cardinality({})
    BY SMTT(30), <1>5, <2>2, <2>3, FS_Union
  <2>5. Cardinality({}) = 0 /\ Cardinality(Executing(p)) \in Nat
    BY <2>3, FS_EmptySet, FS_CardinalityType
  <2> QED
    BY <1>5, <1>6, <2>1, <2>4, <2>5 DEF BusyOK
<1> QED
  BY SMTT(30), <1>2, <1>3, <1>4, <1>6, <1>7, <1>8

-----------------------------------------------------------------------------
(* dispatch as a whole.                                                    *)

DispatchResult(p, f, limit, count) ==
  /\ pool' \in PoolState /\ timer' \in TimerState /\ flags' \in Flags
  /\ QueueOK(pool') /\ BusyOK(pool')
  /\ flags'.started = f.started /\ flags'.stopping = f.stopping
  /\ flags'.completed <=> f.completed \/ (f.stopping /\ count = 0)
  /\ pool'.busy >= p.busy
  /\ pool'.busy > p.busy => pool'.busy <= limit
  /\ f.started /\ pool'.queue # <<>> => pool'.busy > 0
  /\ \A t \in Tasks :
       \/ pool'.phase[t] = p.phase[t]
       \/ p.phase[t] = "queued" /\ pool'.phase[t] = "running"
  /\ AcceptedIn(pool') = AcceptedIn(p)

(* The earliest deadline is a time.                                        *)
LEMMA NextDeadlineType ==
  ASSUME NEW p, p.deadlines \subseteq Tasks, deadline \in [Tasks -> Times]
  PROVE  NextDeadline(p) \in Times
<1> DEFINE T == {None} \cup {deadline[t] : t \in p.deadlines}
<1>1. T \subseteq Times /\ T # {} /\ Times \subseteq Nat
  BY BoundsNatural DEF Times, None
<1>2. Min(T) \in T
  <2> HIDE DEF T
  <2> QED
    BY ZenonT(60), <1>1, MinFacts
<1> QED
  BY <1>1, <1>2 DEF NextDeadline

(* dispatch launches queued tasks up to the target and no further, and     *)
(* signals the drain only when the pool is stopping and the count is zero. *)
LEMMA DispatchFacts ==
  ASSUME NEW p \in PoolState, NEW d \in TimerState, NEW f \in Flags,
         NEW limit \in Nat \ {0}, NEW count \in Nat,
         QueueOK(p), BusyOK(p), deadline \in [Tasks -> Times],
         dispatch(p, d, f, limit, count)
  PROVE  DispatchResult(p, f, limit, count)
<1> DEFINE n == Slots(p, f.started, limit)
<1>1. /\ p.queue \in Seq(Tasks) /\ Len(p.queue) \in Nat /\ p.busy \in Nat
      /\ f.started \in BOOLEAN /\ f.stopping \in BOOLEAN /\ f.completed \in BOOLEAN
  BY DEF PoolState, Flags
<1>2. /\ n \in 0..Len(p.queue)
      /\ n > 0 => p.busy + n <= limit
      /\ f.started => n = Len(p.queue) \/ p.busy + n >= limit
  BY <1>1 DEF Slots
<1> HIDE DEF n
<1>3. pool' = Launch(p, n)
  BY SMTT(30) DEF dispatch, n
<1>4. /\ pool' \in PoolState /\ QueueOK(pool') /\ BusyOK(pool')
      /\ pool'.busy = p.busy + n
      /\ Len(pool'.queue) = Len(p.queue) - n
      /\ \A t \in Tasks : \/ pool'.phase[t] = p.phase[t]
                          \/ p.phase[t] = "queued" /\ pool'.phase[t] = "running"
  BY <1>2, <1>3, LaunchFacts
<1>5. timer' \in TimerState
  <2>1. NextDeadline(pool') \in Times
    BY ZenonT(60), <1>4, NextDeadlineType DEF PoolState
  <2>2. timer' = armDeadline(d, NextDeadline(pool'))
    BY DEF dispatch
  <2> DEFINE next == NextDeadline(pool')
             wait == next # None
  <2>3. wait \in BOOLEAN /\ d.generation + 1 \in Nat
    BY DEF TimerState
  <2>4. timer' = IF next = d.armedAt THEN d
                 ELSE [d EXCEPT !.armedAt = next, !.generation = @ + 1,
                                !.waiting = wait]
    BY <2>2 DEF armDeadline
  <2> HIDE DEF next, wait
  <2>5. next \in Times
    BY <2>1 DEF next
  <2> QED
    BY ZenonT(60), <2>3, <2>4, <2>5 DEF TimerState
<1>6. /\ flags' \in Flags
      /\ flags'.started = f.started /\ flags'.stopping = f.stopping
      /\ flags'.completed <=> f.completed \/ (f.stopping /\ count = 0)
  <2>1. flags' = checkDrain(f, count)
    BY DEF dispatch
  <2>2. CASE f.stopping /\ count = 0
    BY ZenonT(60), <2>1, <2>2 DEF checkDrain, Flags
  <2>3. CASE ~(f.stopping /\ count = 0)
    BY SMTT(30), <2>1, <2>3 DEF checkDrain, Flags
  <2> QED
    BY <2>2, <2>3
<1>7. /\ pool'.busy >= p.busy
      /\ pool'.busy > p.busy => pool'.busy <= limit
  BY SMTT(30), <1>1, <1>2, <1>4
<1>8. f.started /\ pool'.queue # <<>> => pool'.busy > 0
  <2>1. pool'.queue \in Seq(Tasks)
    BY <1>4 DEF PoolState
  <2>2. pool'.queue # <<>> => Len(pool'.queue) # 0
    BY SMTT(30), <2>1, EmptySeq
  <2> QED
    BY SMTT(30), <1>1, <1>2, <1>4, <2>2
<1>9. AcceptedIn(pool') = AcceptedIn(p)
  BY SMTT(30), <1>4 DEF AcceptedIn, Accepted
<1> QED
  BY SMTT(30), <1>4, <1>5, <1>6, <1>7, <1>8, <1>9 DEF DispatchResult
=============================================================================
