---------------------- MODULE SimulationSemaphore_proofs ----------------------
(***************************************************************************)
(* For every set of callers and every bound: the four invariants the runs  *)
(* check are together inductive, so they hold of the semaphore whatever    *)
(* MAX_CONCURRENT_SIMULATIONS and SIMULATION_QUEUE_MAX are.                *)
(***************************************************************************)
EXTENDS SimulationSemaphore, FiniteSetTheorems, SequenceTheorems, TLAPS

\* q holds no caller twice.
Distinct(q) == \A i, j \in DOMAIN q : q[i] = q[j] => i = j

-----------------------------------------------------------------------------
(***************************************************************************)
(* Lemmas about the queue                                                  *)
(***************************************************************************)

\* Removing an entry of a duplicate-free queue removes that caller and nobody
\* else (removeEntry of acquire).
LEMMA WithoutEntryRemoves ==
    ASSUME NEW q \in Seq(Requests), NEW r \in Requests, Distinct(q)
    PROVE  /\ WithoutEntry(q, r) \in Seq(Requests)
           /\ Len(WithoutEntry(q, r)) <= Len(q)
           /\ ToSet(WithoutEntry(q, r)) = ToSet(q) \ {r}
           /\ Distinct(WithoutEntry(q, r))
<1>1. CASE \E i \in DOMAIN q : q[i] = r
  <2>1. PICK k \in 1 .. Len(q) : k = CHOOSE i \in DOMAIN q : q[i] = r
    BY <1>1, LenProperties
  <2>2. q[k] = r
    BY <1>1, <2>1
  <2> DEFINE a == SubSeq(q, 1, k - 1)
             b == SubSeq(q, k + 1, Len(q))
             w == a \o b
  <2>3. WithoutEntry(q, r) = w
    BY <1>1, <2>1 DEF WithoutEntry, RemoveAt
  <2>4. Len(q) \in Nat
    BY LenProperties
  <2>5. /\ a \in Seq(Requests) /\ Len(a) = k - 1
        /\ \A i \in 1 .. k - 1 : a[i] = q[i]
    BY <2>4, SubSeqProperties
  <2>6. /\ b \in Seq(Requests) /\ Len(b) = Len(q) - k
        /\ \A i \in 1 .. Len(q) - k : b[i] = q[k + i]
    BY <2>4, SubSeqProperties
  <2>7. /\ w \in Seq(Requests)
        /\ Len(w) = Len(q) - 1
        /\ \A i \in 1 .. Len(q) - 1 : w[i] = IF i < k THEN q[i] ELSE q[i + 1]
    <3> HIDE DEF a, b
    <3>1. /\ w \in Seq(Requests)
          /\ Len(w) = Len(a) + Len(b)
          /\ \A i \in 1 .. Len(a) + Len(b) :
                w[i] = IF i <= Len(a) THEN a[i] ELSE b[i - Len(a)]
      BY <2>5, <2>6, ConcatProperties
    <3> QED
      BY <2>4, <2>5, <2>6, <3>1
  <2> HIDE DEF w
  <2>8. ToSet(w) = ToSet(q) \ {r}
    <3>1. DOMAIN w = 1 .. Len(q) - 1 /\ DOMAIN q = 1 .. Len(q)
      BY <2>7, LenProperties
    <3>2. ASSUME NEW x \in ToSet(w) PROVE x \in ToSet(q) /\ x # r
      <4>1. PICK i \in 1 .. Len(q) - 1 : w[i] = x
        BY <3>1, <3>2 DEF ToSet
      <4> DEFINE n == IF i < k THEN i ELSE i + 1
      <4>2. n \in DOMAIN q /\ n # k /\ q[n] = x
        BY <2>4, <2>7, <3>1, <4>1
      <4> QED
        BY <2>2, <3>1, <4>2 DEF ToSet, Distinct
    <3>3. ASSUME NEW x \in ToSet(q), x # r PROVE x \in ToSet(w)
      <4>1. PICK i \in 1 .. Len(q) : q[i] = x
        BY <3>1, <3>3 DEF ToSet
      <4>2. CASE i < k
        BY <2>4, <2>7, <3>1, <4>1, <4>2 DEF ToSet
      <4>3. CASE i > k
        <5>1. i - 1 \in 1 .. Len(q) - 1 /\ w[i - 1] = x
          BY <2>4, <2>7, <4>1, <4>3
        <5> QED
          BY <3>1, <5>1 DEF ToSet
      <4> QED
        BY <2>2, <2>4, <3>3, <4>1, <4>2, <4>3
    <3> QED
      BY <3>2, <3>3 DEF ToSet
  <2>9. Distinct(w)
    <3> SUFFICES ASSUME NEW i \in DOMAIN w, NEW j \in DOMAIN w, w[i] = w[j]
                 PROVE  i = j
      BY DEF Distinct
    <3> DEFINE at(n) == IF n < k THEN n ELSE n + 1
    <3>1. /\ at(i) \in DOMAIN q /\ w[i] = q[at(i)]
          /\ at(j) \in DOMAIN q /\ w[j] = q[at(j)]
          /\ i \in Nat /\ j \in Nat
      BY <2>4, <2>7, LenProperties
    <3>2. at(i) = at(j)
      BY <3>1 DEF Distinct
    <3> QED
      BY <3>1, <3>2
  <2> QED
    BY <2>3, <2>4, <2>7, <2>8, <2>9
<1>2. CASE ~ \E i \in DOMAIN q : q[i] = r
  BY <1>2 DEF WithoutEntry, ToSet
<1> QED
  BY <1>1, <1>2

\* Appending a caller that is not queued keeps the queue duplicate-free.
LEMMA AppendAdds ==
    ASSUME NEW q \in Seq(Requests), NEW r \in Requests, Distinct(q), r \notin ToSet(q)
    PROVE  /\ Append(q, r) \in Seq(Requests)
           /\ Len(Append(q, r)) = Len(q) + 1
           /\ ToSet(Append(q, r)) = ToSet(q) \cup {r}
           /\ Distinct(Append(q, r))
<1>1. /\ Append(q, r) \in Seq(Requests)
      /\ Len(Append(q, r)) = Len(q) + 1
      /\ \A i \in 1 .. Len(q) + 1 : Append(q, r)[i] = IF i = Len(q) + 1 THEN r ELSE q[i]
  BY SMT
<1>2. ToSet(Append(q, r)) = ToSet(q) \cup {r}
  BY <1>1, SMT DEF ToSet
<1>3. Distinct(Append(q, r))
  BY <1>1, SMT DEF Distinct, ToSet
<1> QED
  BY <1>1, <1>2, <1>3

\* Dropping the first entry drops that caller only (shift of _drain).
LEMMA TailDrops ==
    ASSUME NEW q \in Seq(Requests), q # <<>>, Distinct(q)
    PROVE  /\ SubSeq(q, 2, Len(q)) \in Seq(Requests)
           /\ Len(SubSeq(q, 2, Len(q))) = Len(q) - 1
           /\ ToSet(SubSeq(q, 2, Len(q))) = ToSet(q) \ {q[1]}
           /\ Distinct(SubSeq(q, 2, Len(q)))
           /\ q[1] \in ToSet(q)
<1> DEFINE t == SubSeq(q, 2, Len(q))
<1>1. Len(q) \in Nat \ {0} /\ DOMAIN q = 1 .. Len(q)
  BY EmptySeq, LenProperties
<1>2. /\ t \in Seq(Requests)
      /\ Len(t) = Len(q) - 1
      /\ \A i \in 1 .. Len(q) - 1 : t[i] = q[i + 1]
      /\ DOMAIN t = 1 .. Len(q) - 1
  BY <1>1, SubSeqProperties, LenProperties
<1> HIDE DEF t
<1>3. ToSet(t) = ToSet(q) \ {q[1]}
  <2>1. ASSUME NEW x \in ToSet(t) PROVE x \in ToSet(q) /\ x # q[1]
    BY <1>1, <1>2 DEF ToSet, Distinct
  <2>2. ASSUME NEW x \in ToSet(q), x # q[1] PROVE x \in ToSet(t)
    <3>1. PICK i \in 1 .. Len(q) : q[i] = x
      BY <1>1, <2>2 DEF ToSet
    <3>2. i - 1 \in 1 .. Len(q) - 1 /\ t[i - 1] = x
      BY <1>1, <1>2, <2>2, <3>1
    <3> QED
      BY <1>2, <3>2 DEF ToSet
  <2> QED
    BY <2>1, <2>2 DEF ToSet
<1>4. Distinct(t)
  <2> SUFFICES ASSUME NEW i \in 1 .. Len(q) - 1, NEW j \in 1 .. Len(q) - 1, t[i] = t[j]
               PROVE  i = j
    BY <1>2 DEF Distinct
  <2>1. q[i + 1] = q[j + 1] /\ i + 1 \in DOMAIN q /\ j + 1 \in DOMAIN q
    BY <1>1, <1>2
  <2>2. i + 1 = j + 1
    BY <2>1 DEF Distinct
  <2> QED
    BY <1>1, <2>2
<1>5. q[1] \in ToSet(q)
  BY <1>1 DEF ToSet
<1> QED
  BY <1>2, <1>3, <1>4, <1>5 DEF t

-----------------------------------------------------------------------------
(***************************************************************************)
(* The inductive invariant                                                 *)
(***************************************************************************)

\* Holders is a finite set, so that counting it makes sense.
LEMMA HoldersFinite == IsFiniteSet(Holders) /\ Cardinality(Holders) \in Nat
BY FS_Subset, FS_CardinalityType, SemaphoreAssumption DEF Holders

\* The constructor establishes the invariant.
LEMMA InitInv == Init => IInv
<1> SUFFICES ASSUME Init PROVE IInv
  OBVIOUS
<1>1. Holders = {} /\ Waiting = {}
  BY DEF Init, Holders, Waiting
<1>2. Cardinality(Holders) = 0
  BY <1>1, FS_EmptySet
<1>3. ToSet(queue) = {}
  BY DEF Init, ToSet
<1> QED
  BY <1>1, <1>2, <1>3, SemaphoreAssumption
  DEF Init, IInv, TypeOK, Outcomes, SlotsConserved, NoIdleSlot, QueueIsExact,
      FreshRelease

\* acquire() preserves it on each of its four ways out.
LEMMA AcquireInv ==
    ASSUME IInv, NEW r \in Requests, Acquire(r)
    PROVE  IInv'
<1> USE SemaphoreAssumption
<1>1. /\ TypeOK /\ SlotsConserved /\ NoIdleSlot /\ QueueIsExact /\ FreshRelease
      /\ Distinct(queue)
      /\ r \notin Holders /\ r \notin Waiting /\ r \notin ToSet(queue)
  BY DEF IInv, QueueIsExact, Distinct, Acquire, AcquireAborted, AcquireSlot,
         AcquireQueueFull, AcquireEnqueue, NewPromise, Idle
<1>2. CASE \/ AcquireAborted(r)
           \/ AcquireQueueFull(r)
  <2>1. Holders' = Holders /\ Waiting' = Waiting
    BY <1>1, <1>2 DEF AcquireAborted, AcquireQueueFull, NewPromise, Holders,
                      Waiting, TypeOK
  <2>2. TypeOK'
    BY <1>1, <1>2 DEF AcquireAborted, AcquireQueueFull, NewPromise, TypeOK,
                      Outcomes, Refusals
  <2> QED
    BY <1>1, <1>2, <2>1, <2>2
    DEF AcquireAborted, AcquireQueueFull, IInv, SlotsConserved, NoIdleSlot,
        QueueIsExact, FreshRelease, NewPromise, TypeOK, Waiting
<1>3. CASE AcquireSlot(r)
  <2>1. Holders' = Holders \cup {r} /\ Waiting' = Waiting
    BY <1>1, <1>3 DEF AcquireSlot, NewPromise, Holders, Waiting, TypeOK
  <2>2. TypeOK'
    BY <1>1, <1>3 DEF AcquireSlot, NewPromise, TypeOK, Outcomes
  <2>3. SlotsConserved'
    BY <1>1, <1>3, <2>1, HoldersFinite, FS_AddElement
    DEF AcquireSlot, SlotsConserved
  <2>4. NoIdleSlot'
    BY <1>1, <1>3 DEF AcquireSlot, NoIdleSlot
  <2> QED
    BY <1>1, <1>3, <2>1, <2>2, <2>3, <2>4
    DEF AcquireSlot, IInv, QueueIsExact, FreshRelease, NewPromise, TypeOK, Waiting
<1>4. CASE AcquireEnqueue(r)
  <2>1. Holders' = Holders /\ Waiting' = Waiting \cup {r}
    BY <1>1, <1>4 DEF AcquireEnqueue, NewPromise, Holders, Waiting, TypeOK
  <2>2. /\ queue' \in Seq(Requests)
        /\ Len(queue') = Len(queue) + 1
        /\ ToSet(queue') = ToSet(queue) \cup {r}
        /\ Distinct(queue')
    BY <1>1, <1>4, AppendAdds DEF AcquireEnqueue, TypeOK
  <2>3. TypeOK'
    BY <1>1, <1>4, <2>2 DEF AcquireEnqueue, NewPromise, TypeOK, Outcomes
  <2>4. SlotsConserved'
    BY <1>1, <1>4, <2>1 DEF AcquireEnqueue, SlotsConserved
  <2>5. NoIdleSlot'
    BY <1>1, <1>4 DEF AcquireEnqueue, NoIdleSlot, TypeOK
  <2>6. Len(queue') <= MaxQueueSize
    BY <1>1, <1>4, <2>2, LenProperties DEF AcquireEnqueue, TypeOK
  <2>7. \A q \in Requests : timer'[q] <=> q \in Waiting'
    BY <1>1, <1>4, <2>1 DEF AcquireEnqueue, QueueIsExact, TypeOK
  <2>8. ToSet(queue)' = Waiting'
    BY <1>1, <2>1, <2>2 DEF QueueIsExact, ToSet
  <2>9. FreshRelease'
    BY <1>1, <1>4, <2>1 DEF AcquireEnqueue, NewPromise, FreshRelease, TypeOK
  <2> QED
    BY <2>2, <2>3, <2>4, <2>5, <2>6, <2>7, <2>8, <2>9
    DEF IInv, QueueIsExact, Distinct
<1> QED
  BY <1>2, <1>3, <1>4 DEF Acquire

\* A queue timeout or an abort preserves it, also when it comes after the
\* promise has settled.
LEMMA LeaveQueueInv ==
    ASSUME IInv, NEW r \in Requests, NEW code \in Refusals,
           RemoveAndReject(r, code)
    PROVE  IInv'
<1> USE SemaphoreAssumption
<1>1. /\ TypeOK /\ SlotsConserved /\ NoIdleSlot /\ QueueIsExact /\ FreshRelease
      /\ Distinct(queue)
  BY DEF IInv, QueueIsExact, Distinct
<1>2. Holders' = Holders /\ Waiting' = Waiting \ {r}
  BY <1>1 DEF RemoveAndReject, Holders, Waiting, TypeOK, Refusals
<1>3. /\ queue' \in Seq(Requests)
      /\ Len(queue') <= Len(queue)
      /\ ToSet(queue') = ToSet(queue) \ {r}
      /\ Distinct(queue')
  BY <1>1, WithoutEntryRemoves DEF RemoveAndReject, TypeOK
<1>4. TypeOK'
  BY <1>1, <1>3 DEF RemoveAndReject, TypeOK, Outcomes
<1>5. SlotsConserved'
  BY <1>1, <1>2 DEF RemoveAndReject, SlotsConserved
<1>6. NoIdleSlot'
  <2>1. queue' # <<>> => queue # <<>>
    BY <1>1, <1>3, LenProperties, EmptySeq DEF TypeOK
  <2> QED
    BY <1>1, <2>1 DEF NoIdleSlot, RemoveAndReject
<1>7. Len(queue') <= MaxQueueSize
  BY <1>1, <1>3, LenProperties DEF QueueIsExact, TypeOK
<1>8. \A q \in Requests : timer'[q] <=> q \in Waiting'
  BY <1>1, <1>2 DEF RemoveAndReject, QueueIsExact, TypeOK
<1>9. ToSet(queue)' = Waiting'
  BY <1>1, <1>2, <1>3 DEF QueueIsExact, ToSet
<1>10. FreshRelease'
  BY <1>1, <1>2 DEF RemoveAndReject, FreshRelease
<1> QED
  BY <1>3, <1>4, <1>5, <1>6, <1>7, <1>8, <1>9, <1>10
  DEF IInv, QueueIsExact, Distinct

\* What the first call of release() does in a state of the invariant: with an
\* empty queue the slot becomes free; otherwise every slot was in use, so
\* _drain() takes exactly one entry and the count stays where it was.
LEMMA ReleaseEffect ==
    ASSUME IInv, NEW r \in Requests, Release(r)
    PROVE  /\ r \in Holders
           /\ queue = <<>> =>
                /\ queue' = <<>>
                /\ activeCount' = activeCount - 1
                /\ timer' = timer
                /\ Waiting' = Waiting
                /\ Holders' = Holders \ {r}
           /\ queue # <<>> =>
                /\ activeCount = MaxConcurrent
                /\ queue[1] \in Waiting \ Holders
                /\ queue' = SubSeq(queue, 2, Len(queue))
                /\ activeCount' = activeCount
                /\ timer' = [q \in Requests |-> timer[q] /\ q \notin {queue[1]}]
                /\ Waiting' = Waiting \ {queue[1]}
                /\ Holders' = (Holders \ {r}) \cup {queue[1]}
           /\ promise' \in [Requests -> Outcomes]
           /\ released' = [released EXCEPT ![r] = TRUE]
           /\ listening' = listening
<1> USE SemaphoreAssumption
<1>1. /\ TypeOK /\ NoIdleSlot /\ QueueIsExact /\ FreshRelease
      /\ Distinct(queue) /\ r \in Holders
  BY DEF IInv, QueueIsExact, Distinct, Release, Holders
<1>2. Len(queue) \in Nat /\ activeCount - 1 \in Int
  BY <1>1, LenProperties DEF TypeOK
<1>3. released' = [released EXCEPT ![r] = TRUE] /\ listening' = listening
  BY DEF Release
<1>4. CASE queue = <<>>
  <2>1. DrainCount(activeCount - 1) = 0
    BY <1>1, <1>2, <1>4, EmptySeq DEF DrainCount, TypeOK
  <2>2. {queue[i] : i \in 1 .. 0} = {} /\ SubSeq(queue, 1, 0) = <<>>
    BY SubSeqEmpty
  <2>3. /\ queue' = <<>>
        /\ activeCount' = activeCount - 1
        /\ promise' = [q \in Requests |-> promise[q]]
        /\ timer' = [q \in Requests |-> timer[q]]
    BY <1>1, <1>4, <2>1, <2>2, EmptySeq DEF Release, Drain, TypeOK
  <2>4. Holders' = Holders \ {r} /\ Waiting' = Waiting
    BY <1>1, <1>3, <2>3 DEF Holders, Waiting, TypeOK
  <2> QED
    BY <1>1, <1>3, <1>4, <2>3, <2>4 DEF TypeOK
<1>5. CASE queue # <<>>
  <2> DEFINE w == queue[1]
  <2>1. activeCount = MaxConcurrent /\ Len(queue) >= 1
    BY <1>1, <1>2, <1>5, EmptySeq DEF NoIdleSlot, TypeOK
  <2>2. DrainCount(activeCount - 1) = 1
    BY <1>2, <2>1 DEF DrainCount
  <2>3. /\ queue' = SubSeq(queue, 1 + 1, Len(queue))
        /\ activeCount' = activeCount - 1 + 1
        /\ promise' = [q \in Requests |->
              IF q \in {queue[i] : i \in 1 .. 1} THEN "granted" ELSE promise[q]]
        /\ timer' = [q \in Requests |->
              timer[q] /\ q \notin {queue[i] : i \in 1 .. 1}]
    BY <2>2, Zenon DEF Release, Drain
  <2>4. /\ activeCount - 1 + 1 = activeCount
        /\ 1 + 1 = 2
        /\ {queue[i] : i \in 1 .. 1} = {w}
    BY <1>1 DEF TypeOK
  <2>5. /\ queue' = SubSeq(queue, 2, Len(queue))
        /\ activeCount' = activeCount
        /\ promise' = [q \in Requests |->
                         IF q \in {w} THEN "granted" ELSE promise[q]]
        /\ timer' = [q \in Requests |-> timer[q] /\ q \notin {w}]
    BY <2>3, <2>4, Zenon
  <2>6. w \in Waiting
    BY <1>1, <1>5, TailDrops DEF QueueIsExact, TypeOK
  <2> HIDE DEF w
  <2>7. w \in Requests /\ w # r /\ w \notin Holders /\ ~ released[w]
    BY <1>1, <2>6 DEF Waiting, Holders, FreshRelease
  <2>8. Waiting' = Waiting \ {w}
    BY <1>1, <2>5, <2>6, <2>7 DEF Waiting, TypeOK
  <2>9. Holders' = (Holders \ {r}) \cup {w}
    BY <1>1, <1>3, <2>5, <2>7 DEF Holders, TypeOK
  <2>10. promise' \in [Requests -> Outcomes]
    BY <1>1, <2>5 DEF TypeOK, Outcomes
  <2> QED
    BY <1>1, <1>3, <1>5, <2>1, <2>5, <2>6, <2>7, <2>8, <2>9, <2>10 DEF w
<1> QED
  BY <1>4, <1>5

\* release() preserves the invariant.
LEMMA ReleaseInv ==
    ASSUME IInv, NEW r \in Requests, Release(r)
    PROVE  IInv'
<1> USE SemaphoreAssumption
<1>1. /\ TypeOK /\ SlotsConserved /\ NoIdleSlot /\ QueueIsExact /\ FreshRelease
      /\ Distinct(queue) /\ r \in Holders
  BY ReleaseEffect DEF IInv, QueueIsExact, Distinct
<1>2. Len(queue) \in Nat
  BY <1>1, LenProperties DEF TypeOK
<1>3. Cardinality(Holders \ {r}) = Cardinality(Holders) - 1
  BY <1>1, HoldersFinite, FS_RemoveElement
<1>4. FreshRelease'
  BY <1>1, ReleaseEffect DEF FreshRelease, Holders, Waiting, TypeOK
<1>5. CASE queue = <<>>
  <2>1. /\ queue' = <<>> /\ activeCount' = activeCount - 1 /\ timer' = timer
        /\ Waiting' = Waiting /\ Holders' = Holders \ {r}
    BY <1>5, ReleaseEffect
  <2>2. SlotsConserved'
    BY <1>1, <1>3, <2>1 DEF SlotsConserved
  <2>3. activeCount - 1 \in 0 .. MaxConcurrent
    <3>1. Cardinality(Holders) # 0
      BY <1>1, HoldersFinite, FS_EmptySet
    <3> QED
      BY <1>1, <3>1 DEF SlotsConserved, TypeOK
  <2>4. TypeOK'
    BY <1>1, <2>1, <2>3, ReleaseEffect, EmptySeq DEF TypeOK
  <2> QED
    BY <1>1, <1>4, <1>5, <2>1, <2>2, <2>4 DEF IInv, NoIdleSlot, QueueIsExact
<1>6. CASE queue # <<>>
  <2> DEFINE w == queue[1]
  <2>1. /\ queue' = SubSeq(queue, 2, Len(queue))
        /\ activeCount' = activeCount /\ activeCount = MaxConcurrent
        /\ w \in Waiting /\ w \notin Holders
        /\ timer' = [q \in Requests |-> timer[q] /\ q \notin {w}]
        /\ Waiting' = Waiting \ {w} /\ Holders' = (Holders \ {r}) \cup {w}
    BY <1>6, ReleaseEffect
  <2>2. /\ queue' \in Seq(Requests)
        /\ Len(queue') = Len(queue) - 1
        /\ ToSet(queue)' = ToSet(queue) \ {w}
        /\ Distinct(queue')
    <3> DEFINE t == SubSeq(queue, 2, Len(queue))
    <3>1. queue \in Seq(Requests) /\ queue # <<>> /\ Distinct(queue)
      BY <1>1, <1>6 DEF TypeOK
    <3>2. t \in Seq(Requests) /\ Len(t) = Len(queue) - 1 /\ ToSet(t) = ToSet(queue) \ {w} /\ Distinct(t)
      BY <3>1, TailDrops
    <3>3. queue' = t /\ ToSet(queue)' = ToSet(queue')
      BY <2>1 DEF ToSet
    <3> HIDE DEF t, w
    <3> QED
      BY <3>2, <3>3
  <2> HIDE DEF w
  <2>3. SlotsConserved'
    <3>1. Cardinality((Holders \ {r}) \cup {w}) = Cardinality(Holders \ {r}) + 1
      BY <2>1, HoldersFinite, FS_RemoveElement, FS_AddElement
    <3>2. Cardinality(Holders)' = Cardinality(Holders)
      BY <1>3, <2>1, <3>1, HoldersFinite
    <3> QED
      BY <1>1, <2>1, <3>2 DEF SlotsConserved
  <2>4. TypeOK'
    BY <1>1, <2>1, <2>2, ReleaseEffect DEF TypeOK
  <2>5. NoIdleSlot' /\ Len(queue') <= MaxQueueSize
    BY <1>1, <1>2, <2>1, <2>2 DEF NoIdleSlot, QueueIsExact
  <2>6. \A q \in Requests : timer'[q] <=> q \in Waiting'
    BY <1>1, <2>1 DEF QueueIsExact, TypeOK
  <2>7. ToSet(queue)' = Waiting'
    BY <1>1, <2>1, <2>2 DEF QueueIsExact
  <2> QED
    BY <1>4, <2>2, <2>3, <2>4, <2>5, <2>6, <2>7 DEF IInv, QueueIsExact, Distinct
<1> QED
  BY <1>5, <1>6

\* Shutdown preserves it: exactly the waiting callers are rejected.
LEMMA DrainAndRejectAllInv ==
    ASSUME IInv, DrainAndRejectAll
    PROVE  IInv'
<1> USE SemaphoreAssumption
<1>1. /\ TypeOK /\ SlotsConserved /\ NoIdleSlot /\ QueueIsExact /\ FreshRelease
  BY DEF IInv
<1>2. /\ queue' = <<>>
      /\ timer' = [r \in Requests |-> timer[r] /\ r \notin Waiting]
      /\ promise' = [r \in Requests |->
                       IF r \in Waiting THEN "shutting_down" ELSE promise[r]]
      /\ UNCHANGED <<activeCount, listening, released>>
  BY <1>1 DEF DrainAndRejectAll, QueueIsExact
<1>3. Waiting' = {} /\ Holders' = Holders
  BY <1>1, <1>2 DEF Waiting, Holders, TypeOK
<1>4. ToSet(queue)' = {}
  BY <1>2 DEF ToSet
<1>5. TypeOK'
  BY <1>1, <1>2 DEF TypeOK, Outcomes, Refusals
<1>6. \A r \in Requests : timer'[r] <=> r \in Waiting'
  BY <1>1, <1>2, <1>3 DEF QueueIsExact, TypeOK
<1> QED
  BY <1>1, <1>2, <1>3, <1>4, <1>5, <1>6
  DEF IInv, SlotsConserved, NoIdleSlot, QueueIsExact, FreshRelease

\* Every step preserves the invariant.
LEMMA NextInv == IInv /\ [Next]_vars => IInv'
<1> SUFFICES ASSUME IInv, [Next]_vars PROVE IInv'
  OBVIOUS
<1>1. ASSUME NEW r \in Requests, Acquire(r) PROVE IInv'
  BY <1>1, AcquireInv
<1>2. ASSUME NEW r \in Requests, QueueTimeout(r) PROVE IInv'
  BY <1>2, LeaveQueueInv DEF QueueTimeout, Refusals
<1>3. ASSUME NEW r \in Requests, Abort(r) PROVE IInv'
  BY <1>3, LeaveQueueInv DEF Abort, Refusals
<1>4. ASSUME NEW r \in Requests, Release(r) PROVE IInv'
  BY <1>4, ReleaseInv
<1>5. CASE DrainAndRejectAll
  BY <1>5, DrainAndRejectAllInv
<1>6. CASE UNCHANGED vars
  BY <1>6 DEF vars, IInv, TypeOK, SlotsConserved, NoIdleSlot, QueueIsExact,
              FreshRelease, Holders, Waiting, ToSet
<1> QED
  BY <1>1, <1>2, <1>3, <1>4, <1>5, <1>6 DEF Next, ReleaseAgain

\* The inductive invariant holds of every state of the semaphore.
THEOREM Inductive == Spec => []IInv
BY InitInv, NextInv, PTL DEF Spec

\* The variables keep their types, the count never passes MaxConcurrent.
THEOREM TypeCorrect == Spec => []TypeOK
<1>1. IInv => TypeOK
  BY DEF IInv
<1> QED
  BY <1>1, Inductive, PTL

\* No slot is ever leaked or given back twice.
THEOREM SlotsAreConserved == Spec => []SlotsConserved
<1>1. IInv => SlotsConserved
  BY DEF IInv
<1> QED
  BY <1>1, Inductive, PTL

\* Nobody ever waits beside a free slot.
THEOREM NoSlotIdles == Spec => []NoIdleSlot
<1>1. IInv => NoIdleSlot
  BY DEF IInv
<1> QED
  BY <1>1, Inductive, PTL

\* The queue always holds exactly the callers that wait.
THEOREM QueueStaysExact == Spec => []QueueIsExact
<1>1. IInv => QueueIsExact
  BY DEF IInv
<1> QED
  BY <1>1, Inductive, PTL

-----------------------------------------------------------------------------
(***************************************************************************)
(* Order of the grants                                                     *)
(***************************************************************************)

\* Only release() answers an entry of the queue with a slot, and it takes the
\* first one.
LEMMA StepGrantsInOrder ==
    ASSUME IInv, [Next]_vars,
           NEW i \in DOMAIN queue, NEW j \in DOMAIN queue, i < j,
           promise'[queue[j]] = "granted"
    PROVE  promise'[queue[i]] # "pending"
<1> USE SemaphoreAssumption
<1>1. /\ TypeOK /\ Distinct(queue)
      /\ queue[j] \in Waiting /\ queue[j] \in Requests /\ promise[queue[j]] = "pending"
  BY DEF IInv, QueueIsExact, Distinct, ToSet, Waiting
<1>2. ASSUME NEW r \in Requests, Release(r) PROVE FALSE
  <2>1. queue # <<>> /\ j # 1 /\ 1 \in DOMAIN queue /\ i \in Nat /\ j \in Nat
    BY <1>1, LenProperties, EmptySeq DEF TypeOK
  <2>2. Waiting' = Waiting \ {queue[1]}
    BY <1>2, <2>1, ReleaseEffect
  <2>3. queue[j] # queue[1]
    BY <1>1, <2>1 DEF Distinct
  <2>4. queue[j] \in Waiting'
    BY <1>1, <2>2, <2>3
  <2> QED
    BY <2>4 DEF Waiting
<1>3. ASSUME NEW r \in Requests, Acquire(r) PROVE FALSE
  BY <1>1, <1>3
  DEF Acquire, AcquireAborted, AcquireSlot, AcquireQueueFull, AcquireEnqueue,
      NewPromise, Idle, TypeOK
<1>4. ASSUME NEW r \in Requests, QueueTimeout(r) \/ Abort(r) PROVE FALSE
  BY <1>1, <1>4 DEF QueueTimeout, Abort, RemoveAndReject, TypeOK
<1>5. CASE DrainAndRejectAll
  BY <1>1, <1>5 DEF DrainAndRejectAll, TypeOK
<1>6. CASE UNCHANGED vars
  BY <1>1, <1>6 DEF vars
<1> QED
  BY <1>2, <1>3, <1>4, <1>5, <1>6 DEF Next, ReleaseAgain

\* Slots are granted in the order of arrival.
THEOREM GrantsFollowArrival == Spec => GrantsInOrder
<1>1. IInv /\ [Next]_vars =>
        [\A i, j \in DOMAIN queue :
            (i < j /\ promise'[queue[j]] = "granted")
               => promise'[queue[i]] # "pending"]_vars
  BY StepGrantsInOrder
<1> QED
  BY <1>1, Inductive, PTL DEF Spec, GrantsInOrder

-----------------------------------------------------------------------------
(***************************************************************************)
(* The semaphore implements the pool                                       *)
(***************************************************************************)

\* The queue enumerates the waiting callers, so its length is their number.
LEMMA QueueCountsWaiting ==
    ASSUME IInv
    PROVE  Cardinality(Waiting) = Len(queue)
<1>1. /\ queue \in [1 .. Len(queue) -> Waiting]
      /\ Len(queue) \in Nat
      /\ \A i, j \in 1 .. Len(queue) : queue[i] = queue[j] => i = j
      /\ \A w \in Waiting : \E i \in 1 .. Len(queue) : queue[i] = w
  BY LenProperties DEF IInv, TypeOK, QueueIsExact, ToSet
<1>2. queue \in Bijection(1 .. Len(queue), Waiting)
  BY <1>1 DEF Bijection, Injection, Surjection, IsInjective
<1> QED
  BY <1>1, <1>2, FS_CountingElements DEF ExistsBijection

\* The cardinality of the pool's module is the cardinality.
LEMMA PoolCardinality == \A S : Pool!Cardinality(S) = Cardinality(S)
BY DEF Pool!Cardinality, Cardinality

\* Each step of the semaphore is a step of the pool or leaves it alone.
LEMMA StepRefines ==
    ASSUME IInv, [Next]_vars
    PROVE  [Pool!Next]_(Pool!poolVars)
<1> USE SemaphoreAssumption
<1>1. /\ TypeOK /\ SlotsConserved /\ NoIdleSlot /\ QueueIsExact
  BY DEF IInv
<1>2. ASSUME NEW r \in Requests, Acquire(r) PROVE [Pool!Next]_(Pool!poolVars)
  <2>1. r \notin Holders \cup Waiting /\ r \in Requests
    BY <1>2 DEF Acquire, AcquireAborted, AcquireSlot, AcquireQueueFull,
                AcquireEnqueue, NewPromise, Idle
  <2>2. CASE AcquireAborted(r) \/ AcquireQueueFull(r)
    <3>1. Holders' = Holders /\ Waiting' = Waiting
      BY <1>1, <2>1, <2>2
      DEF AcquireAborted, AcquireQueueFull, NewPromise, Holders, Waiting, TypeOK
    <3> QED
      BY <3>1 DEF Pool!poolVars
  <2>3. CASE AcquireSlot(r)
    <3>1. Holders' = Holders \cup {r} /\ Waiting' = Waiting
      BY <1>1, <2>1, <2>3 DEF AcquireSlot, NewPromise, Holders, Waiting, TypeOK
    <3>2. Cardinality(Holders) < MaxConcurrent
      BY <1>1, <2>3 DEF AcquireSlot, SlotsConserved
    <3> QED
      BY <2>1, <3>1, <3>2, PoolCardinality DEF Pool!Next, Pool!Enter
  <2>4. CASE AcquireEnqueue(r)
    <3>1. Holders' = Holders /\ Waiting' = Waiting \cup {r}
      BY <1>1, <2>1, <2>4 DEF AcquireEnqueue, NewPromise, Holders, Waiting, TypeOK
    <3>2. Cardinality(Holders) = MaxConcurrent
      BY <1>1, <2>4 DEF AcquireEnqueue, SlotsConserved, TypeOK
    <3>3. Cardinality(Waiting) < MaxQueueSize
      BY <2>4, QueueCountsWaiting DEF AcquireEnqueue
    <3> QED
      BY <2>1, <3>1, <3>2, <3>3, PoolCardinality DEF Pool!Next, Pool!Wait
  <2> QED
    BY <1>2, <2>2, <2>3, <2>4 DEF Acquire
<1>3. ASSUME NEW r \in Requests, QueueTimeout(r) \/ Abort(r)
      PROVE  [Pool!Next]_(Pool!poolVars)
  <2>1. Holders' = Holders /\ Waiting' = Waiting \ {r}
    BY <1>1, <1>3
    DEF QueueTimeout, Abort, RemoveAndReject, Holders, Waiting, TypeOK
  <2>2. CASE r \in Waiting
    BY <2>1, <2>2 DEF Pool!Next, Pool!GiveUp
  <2>3. CASE r \notin Waiting
    BY <2>1, <2>3 DEF Pool!poolVars
  <2> QED
    BY <2>2, <2>3
<1>4. ASSUME NEW r \in Requests, Release(r) PROVE [Pool!Next]_(Pool!poolVars)
  <2>1. r \in Holders
    BY <1>4, ReleaseEffect
  <2>2. CASE queue = <<>>
    <3>1. Waiting = {} /\ Waiting' = Waiting /\ Holders' = Holders \ {r}
      BY <1>1, <1>4, <2>2, ReleaseEffect DEF QueueIsExact, ToSet
    <3> QED
      BY <2>1, <3>1 DEF Pool!Next, Pool!Leave
  <2>3. CASE queue # <<>>
    <3>1. PICK w \in Waiting : /\ Waiting' = Waiting \ {w}
                               /\ Holders' = (Holders \ {r}) \cup {w}
      BY <1>4, <2>3, ReleaseEffect
    <3> QED
      BY <2>1, <3>1 DEF Pool!Next, Pool!Leave
  <2> QED
    BY <2>2, <2>3
<1>5. CASE DrainAndRejectAll
  <2>1. Waiting' = {} /\ Holders' = Holders
    BY <1>1, <1>5 DEF DrainAndRejectAll, QueueIsExact, Waiting, Holders, TypeOK
  <2> QED
    BY <2>1 DEF Pool!Next, Pool!Clear
<1>6. CASE UNCHANGED vars
  BY <1>6 DEF vars, Pool!poolVars, Holders, Waiting
<1>7. ASSUME NEW r \in Requests, ReleaseAgain(r) PROVE [Pool!Next]_(Pool!poolVars)
  BY <1>7 DEF ReleaseAgain, vars, Pool!poolVars, Holders, Waiting
<1> QED
  BY <1>2, <1>3, <1>4, <1>5, <1>6, <1>7 DEF Next

\* The semaphore is an implementation of the slot pool.
THEOREM SemaphoreImplementsSlotPool == Spec => ImplementsSlotPool
<1>1. Init => Pool!Init
  BY DEF Init, Pool!Init, Holders, Waiting
<1>2. IInv /\ [Next]_vars => [Pool!Next]_(Pool!poolVars)
  BY StepRefines
<1> QED
  BY <1>1, <1>2, Inductive, PTL DEF Spec, ImplementsSlotPool, Pool!Spec
=============================================================================
