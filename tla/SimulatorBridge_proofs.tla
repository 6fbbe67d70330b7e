----------------------- MODULE SimulatorBridge_proofs -----------------------
(***************************************************************************)
(* Two parts.  For every finite set of runs and every number of session    *)
(* places: the map of sessions is sound and within its bound, every child  *)
(* and every temporary file has an owner, and making a session ends others *)
(* only when the map is full, the ones accessed longest ago first.         *)
(*                                                                         *)
(* For every number of slots, queue places and stops besides: a slot of    *)
(* the bridge is held for exactly as long as its request needs it, and a   *)
(* bridge that is up knows every child it has not told to stop, those of   *)
(* its predecessors included.  The steps of the sessions and of the        *)
(* semaphore are not looked into again: what they preserve is cited (the   *)
(* step lemmas of the first part, NextInv of the semaphore).               *)
(***************************************************************************)
EXTENDS SimulatorBridge, SequenceTheorems, FiniteSetTheorems, TLAPS

\* q holds no run twice.
Distinct(q) == \A i, j \in DOMAIN q : q[i] = q[j] => i = j

\* The first k entries of q as a set.
First(q, k) == {q[i] : i \in 1 .. k}

-----------------------------------------------------------------------------
(***************************************************************************)
(* Lemmas about the order of the sessions                                  *)
(***************************************************************************)

\* Deleting a session takes that one and nobody else out of the order
\* (keepAliveSessions.delete).
LEMMA WithoutRemoves ==
    ASSUME NEW q \in Seq(Runs), NEW r \in Runs, Distinct(q)
    PROVE  /\ Without(q, r) \in Seq(Runs)
           /\ Len(Without(q, r)) = IF r \in ToSet(q) THEN Len(q) - 1 ELSE Len(q)
           /\ ToSet(Without(q, r)) = ToSet(q) \ {r}
           /\ Distinct(Without(q, r))
<1>0. Len(q) \in Nat
  BY LenProperties
<1>1. DOMAIN q = 1 .. Len(q)
  BY LenProperties
<1>2. CASE \E i \in DOMAIN q : q[i] = r
  <2>1. PICK k \in 1 .. Len(q) : k = CHOOSE i \in DOMAIN q : q[i] = r
    BY <1>0, <1>1, <1>2
  <2>2. q[k] = r /\ r \in ToSet(q)
    BY <1>0, <1>1, <1>2, <2>1 DEF ToSet
  <2> DEFINE front == SubSeq(q, 1, k - 1)
             back  == SubSeq(q, k + 1, Len(q))
             w     == front \o back
  <2>3. Without(q, r) = w
    BY <1>2, <2>1 DEF Without, RemoveAt
  <2>4. /\ front \in Seq(Runs) /\ Len(front) = k - 1
        /\ \A i \in 1 .. k - 1 : front[i] = q[i]
    BY <1>0, SubSeqProperties
  <2>5. /\ back \in Seq(Runs) /\ Len(back) = Len(q) - k
        /\ \A i \in 1 .. Len(q) - k : back[i] = q[k + i]
    BY <1>0, SubSeqProperties
  <2>6. /\ w \in Seq(Runs)
        /\ Len(w) = Len(q) - 1
        /\ \A i \in 1 .. Len(q) - 1 : w[i] = IF i < k THEN q[i] ELSE q[i + 1]
    <3> HIDE DEF front, back
    <3>1. /\ w \in Seq(Runs)
          /\ Len(w) = Len(front) + Len(back)
          /\ \A i \in 1 .. Len(front) + Len(back) :
                w[i] = IF i <= Len(front) THEN front[i] ELSE back[i - Len(front)]
      BY <2>4, <2>5, ConcatProperties
    <3> QED
      BY <1>0, <2>4, <2>5, <3>1
  <2> HIDE DEF w
  <2>7. DOMAIN w = 1 .. Len(q) - 1
    BY <2>6, LenProperties
  <2>8. ToSet(w) = ToSet(q) \ {r}
    <3>1. ASSUME NEW x \in ToSet(w) PROVE x \in ToSet(q) /\ x # r
      <4>1. PICK i \in 1 .. Len(q) - 1 : w[i] = x
        BY <2>7, <3>1 DEF ToSet
      <4> DEFINE n == IF i < k THEN i ELSE i + 1
      <4>2. n \in DOMAIN q /\ n # k /\ q[n] = x
        BY <1>0, <1>1, <2>6, <4>1
      <4> QED
        BY <1>0, <1>1, <2>2, <4>2 DEF ToSet, Distinct
    <3>2. ASSUME NEW x \in ToSet(q), x # r PROVE x \in ToSet(w)
      <4>1. PICK i \in 1 .. Len(q) : q[i] = x
        BY <1>0, <1>1, <3>2 DEF ToSet
      <4>2. CASE i < k
        BY <1>0, <1>1, <2>6, <2>7, <4>1, <4>2 DEF ToSet
      <4>3. CASE i > k
        <5>1. i - 1 \in 1 .. Len(q) - 1 /\ w[i - 1] = x
          BY <1>0, <1>1, <2>6, <4>1, <4>3
        <5> QED
          BY <2>7, <5>1 DEF ToSet
      <4> QED
        BY <1>0, <1>1, <2>2, <3>2, <4>1, <4>2, <4>3
    <3> QED
      BY <3>1, <3>2 DEF ToSet
  <2>9. Distinct(w)
    <3> SUFFICES ASSUME NEW i \in DOMAIN w, NEW j \in DOMAIN w, w[i] = w[j]
                 PROVE  i = j
      BY DEF Distinct
    <3> DEFINE at(n) == IF n < k THEN n ELSE n + 1
    <3>1. /\ at(i) \in DOMAIN q /\ w[i] = q[at(i)]
          /\ at(j) \in DOMAIN q /\ w[j] = q[at(j)]
          /\ i \in Nat /\ j \in Nat
      BY <1>0, <1>1, <2>6, <2>7
    <3>2. at(i) = at(j)
      BY <3>1 DEF Distinct
    <3> QED
      BY <3>1, <3>2
  <2> QED
    BY <2>2, <2>3, <2>6, <2>8, <2>9
<1>3. CASE ~ \E i \in DOMAIN q : q[i] = r
  BY <1>3 DEF Without, ToSet
<1> QED
  BY <1>2, <1>3

\* A session not in the order goes to its end (keepAliveSessions.set and the
\* touch of an access).
LEMMA AppendAdds ==
    ASSUME NEW q \in Seq(Runs), NEW r \in Runs, Distinct(q), r \notin ToSet(q)
    PROVE  /\ Append(q, r) \in Seq(Runs)
           /\ Len(Append(q, r)) = Len(q) + 1
           /\ ToSet(Append(q, r)) = ToSet(q) \cup {r}
           /\ Distinct(Append(q, r))
<1>1. /\ Append(q, r) \in Seq(Runs)
      /\ Len(Append(q, r)) = Len(q) + 1
      /\ \A i \in 1 .. Len(q) + 1 : Append(q, r)[i] = IF i = Len(q) + 1 THEN r ELSE q[i]
  BY SMT
<1>2. ToSet(Append(q, r)) = ToSet(q) \cup {r}
  BY <1>1, SMT DEF ToSet
<1>3. Distinct(Append(q, r))
  BY <1>1, SMT DEF Distinct, ToSet
<1> QED
  BY <1>1, <1>2, <1>3

\* Evicting the k first takes exactly those out of the order.
LEMMA FirstEvicted ==
    ASSUME NEW q \in Seq(Runs), Distinct(q), NEW k \in 0 .. Len(q)
    PROVE  /\ SubSeq(q, k + 1, Len(q)) \in Seq(Runs)
           /\ Len(SubSeq(q, k + 1, Len(q))) = Len(q) - k
           /\ ToSet(SubSeq(q, k + 1, Len(q))) = ToSet(q) \ First(q, k)
           /\ Distinct(SubSeq(q, k + 1, Len(q)))
<1> DEFINE t == SubSeq(q, k + 1, Len(q))
<1>1. Len(q) \in Nat /\ DOMAIN q = 1 .. Len(q)
  BY LenProperties
<1>2. /\ t \in Seq(Runs)
      /\ Len(t) = Len(q) - k
      /\ \A i \in 1 .. Len(q) - k : t[i] = q[k + i]
  <2>1. Len(q) \in Nat
    BY <1>1
  <2> QED
    BY <2>1, SubSeqProperties
<1>3. DOMAIN t = 1 .. Len(q) - k
  BY <1>2, LenProperties
<1> HIDE DEF t
<1>4. ToSet(t) = ToSet(q) \ First(q, k)
  <2>1. ASSUME NEW x \in ToSet(t) PROVE x \in ToSet(q) /\ x \notin First(q, k)
    <3>1. PICK i \in 1 .. Len(q) - k : q[k + i] = x
      BY <1>2, <1>3, <2>1 DEF ToSet
    <3>2. k + i \in DOMAIN q /\ k + i \notin 1 .. k /\ 1 .. k \subseteq DOMAIN q
      BY <1>1
    <3> QED
      BY <3>1, <3>2 DEF ToSet, First, Distinct
  <2>2. ASSUME NEW x \in ToSet(q), x \notin First(q, k) PROVE x \in ToSet(t)
    <3>1. PICK i \in 1 .. Len(q) : q[i] = x
      BY <1>1, <2>2 DEF ToSet
    <3>2. i \notin 1 .. k
      BY <2>2, <3>1 DEF First
    <3>3. i - k \in 1 .. Len(q) - k /\ t[i - k] = x
      BY <1>1, <1>2, <3>1, <3>2
    <3> QED
      BY <1>3, <3>3 DEF ToSet
  <2> QED
    BY <2>1, <2>2 DEF ToSet
<1>5. Distinct(t)
  <2> SUFFICES ASSUME NEW i \in 1 .. Len(q) - k, NEW j \in 1 .. Len(q) - k, t[i] = t[j]
               PROVE  i = j
    BY <1>3 DEF Distinct
  <2>1. q[k + i] = q[k + j] /\ k + i \in DOMAIN q /\ k + j \in DOMAIN q
    BY <1>1, <1>2
  <2>2. k + i = k + j
    BY <2>1 DEF Distinct
  <2> QED
    BY <1>1, <2>2
<1> QED
  BY <1>2, <1>4, <1>5 DEF t

-----------------------------------------------------------------------------
(***************************************************************************)
(* The inductive invariant                                                 *)
(***************************************************************************)

\* The order of the sessions is well formed.
MapOK == lru \in Seq(Runs) /\ Len(lru) <= MaxSessions /\ Distinct(lru)

\* The types of everything else.
RunsOK ==
    /\ call \in [Runs -> {"idle", "pending", "session", "bare", "empty", "failed"}]
    /\ proc \in [Runs -> {"none", "running", "dying", "exited", "closed"}]
    /\ out \in [Runs -> {"none", "partial", "session", "bare", "huge"}]
    /\ tmp \in [Runs -> BOOLEAN]
    /\ busy \in [Runs -> BOOLEAN]

\* A session of the map belongs to a run whose caller was told of it.
Told == \A r \in Sessions : call[r] = "session"

\* What the properties of the runs say, taken together, is inductive.
KInv == KAInv /\ ResourcesOwned

\* The same without the files, cut into the pieces the steps are about: the part
\* that also survives the restart of a bridge, which forgets its sessions and
\* leaves their files (cleanupStaleKeepAliveProcesses).
Pieces == MapOK /\ RunsOK /\ Told /\ ChildrenOwned /\ PendingFilesStay

\* A step loses track of no file.
FilesStay == FilesOwned => FilesOwned'

LEMMA InvIsPieces == (KInv <=> Pieces /\ FilesOwned) /\ (KInv' <=> Pieces' /\ FilesOwned')
<1>1. KInv <=> Pieces /\ FilesOwned
  BY DEF KInv, KAInv, KATypeOK, MapIsSound, ResourcesOwned, Pieces, MapOK, RunsOK,
         Told, Distinct, Complete
<1>2. KInv' <=> Pieces' /\ FilesOwned'
  BY DEF KInv, KAInv, KATypeOK, MapIsSound, ResourcesOwned, Pieces, MapOK, RunsOK,
         Told, Distinct, Complete
<1> QED
  BY <1>1, <1>2

\* Evicting the k oldest sessions leaves the others, in order.
LEMMA MapAfterEviction ==
    ASSUME MapOK, NEW k \in 0 .. Len(lru), lru' = SubSeq(lru, k + 1, Len(lru))
    PROVE  MapOK' /\ Sessions' = Sessions \ Oldest(k)
<1>1. Oldest(k) = First(lru, k)
  BY DEF Oldest, First
<1>2. /\ lru' \in Seq(Runs) /\ Len(lru') = Len(lru) - k
      /\ ToSet(lru') = ToSet(lru) \ First(lru, k) /\ Distinct(lru')
  BY FirstEvicted DEF MapOK
<1>3. Len(lru) \in Nat /\ MaxSessions \in Nat
  BY LenProperties, SessionAssumption DEF MapOK
<1>4. Len(lru') <= MaxSessions
  BY <1>2, <1>3 DEF MapOK
<1> QED
  BY <1>1, <1>2, <1>4 DEF MapOK, Sessions

\* Deleting one session leaves the others.
LEMMA MapAfterDelete ==
    ASSUME MapOK, NEW r \in Runs, lru' = Without(lru, r)
    PROVE  MapOK' /\ Sessions' = Sessions \ {r}
<1>1. /\ lru' \in Seq(Runs) /\ Distinct(lru') /\ ToSet(lru') = ToSet(lru) \ {r}
      /\ Len(lru') = IF r \in ToSet(lru) THEN Len(lru) - 1 ELSE Len(lru)
  BY WithoutRemoves DEF MapOK
<1>2. Len(lru) \in Nat /\ MaxSessions \in Nat
  BY LenProperties, SessionAssumption DEF MapOK
<1>3. Len(lru') <= MaxSessions
  BY <1>1, <1>2 DEF MapOK
<1> QED
  BY <1>1, <1>3 DEF MapOK, Sessions

\* An access moves a session to the end.
LEMMA MapAfterTouch ==
    ASSUME MapOK, NEW r \in Runs, r \in Sessions, lru' = Append(Without(lru, r), r)
    PROVE  MapOK' /\ Sessions' = Sessions
<1> DEFINE w == Without(lru, r)
<1>1. w \in Seq(Runs) /\ Distinct(w) /\ ToSet(w) = ToSet(lru) \ {r} /\ Len(w) = Len(lru) - 1
  BY WithoutRemoves DEF MapOK, Sessions
<1> HIDE DEF w
<1>2. /\ lru' \in Seq(Runs) /\ Distinct(lru')
      /\ ToSet(lru') = ToSet(w) \cup {r} /\ Len(lru') = Len(w) + 1
  BY <1>1, AppendAdds DEF w
<1>3. Len(lru) \in Nat
  BY LenProperties DEF MapOK
<1>4. Len(lru') <= MaxSessions
  BY <1>1, <1>2, <1>3 DEF MapOK
<1> QED
  BY <1>1, <1>2, <1>4 DEF MapOK, Sessions

\* Room is made for a new session before it is put at the end, so the map
\* stays within its bound (enforceKeepAliveCapacity).
LEMMA MapAfterInsert ==
    ASSUME MapOK, NEW r \in Runs, r \notin Sessions,
           lru' = Append(SubSeq(lru, Surplus + 1, Len(lru)), r)
    PROVE  /\ Surplus \in 0 .. Len(lru)
           /\ MapOK'
           /\ Sessions' = (Sessions \ Oldest(Surplus)) \cup {r}
<1>1. Len(lru) \in Nat /\ MaxSessions \in Nat \ {0}
  BY LenProperties, SessionAssumption DEF MapOK
<1>2. Surplus \in 0 .. Len(lru) /\ Len(lru) - Surplus + 1 <= MaxSessions
  BY <1>1 DEF Surplus, MapOK
<1> DEFINE t == SubSeq(lru, Surplus + 1, Len(lru))
<1>3. /\ t \in Seq(Runs) /\ Len(t) = Len(lru) - Surplus
      /\ ToSet(t) = ToSet(lru) \ First(lru, Surplus) /\ Distinct(t)
  BY <1>2, FirstEvicted DEF MapOK
<1> HIDE DEF t
<1>4. r \notin ToSet(t)
  BY <1>3 DEF Sessions
<1>5. /\ lru' \in Seq(Runs) /\ Distinct(lru')
      /\ ToSet(lru') = ToSet(t) \cup {r} /\ Len(lru') = Len(t) + 1
  BY <1>3, <1>4, AppendAdds DEF t
<1>6. Len(lru') <= MaxSessions
  BY <1>1, <1>2, <1>3, <1>5
<1>7. Oldest(Surplus) = First(lru, Surplus)
  BY DEF Oldest, First
<1> QED
  BY <1>2, <1>3, <1>5, <1>6, <1>7 DEF MapOK, Sessions

\* A step that leaves the order alone leaves the map as it is.
LEMMA MapUntouched ==
    ASSUME MapOK, UNCHANGED lru
    PROVE  MapOK' /\ Sessions' = Sessions
BY DEF MapOK, Distinct, Sessions

-----------------------------------------------------------------------------
(***************************************************************************)
(* The steps                                                               *)
(***************************************************************************)

\* What an eviction ends was told to its caller: it is no call under way.
LEMMA OldestAreTold ==
    ASSUME Pieces, NEW k \in 0 .. Len(lru), NEW q \in Oldest(k)
    PROVE  call[q] = "session"
<1>1. Len(lru) \in Nat /\ DOMAIN lru = 1 .. Len(lru)
  BY LenProperties DEF Pieces, MapOK
<1>2. PICK i \in 1 .. k : q = lru[i]
  BY DEF Oldest
<1>3. q \in Sessions
  BY <1>1, <1>2 DEF Sessions, ToSet
<1> QED
  BY <1>3 DEF Pieces, Told

\* Initially there are no sessions, children or files.
LEMMA InitPieces == KAInit => Pieces /\ FilesOwned
<1> SUFFICES ASSUME KAInit PROVE Pieces /\ FilesOwned
  OBVIOUS
<1>1. lru \in Seq(Runs) /\ Len(lru) = 0 /\ DOMAIN lru = {}
  BY SMT DEF KAInit
<1>2. MapOK /\ Sessions = {}
  BY <1>1, SessionAssumption DEF MapOK, Distinct, Sessions, ToSet
<1>3. RunsOK
  BY DEF KAInit, RunsOK
<1> QED
  BY <1>2, <1>3 DEF KAInit, Pieces, Told, ChildrenOwned, PendingFilesStay, FilesOwned

\* Ending the oldest sessions (sweep, memory pressure) signals their children
\* and removes their files in the same step.
LEMMA EvictionStep ==
    ASSUME Pieces, NEW k \in 0 .. Len(lru), EndOldest(k), UNCHANGED <<call, out, busy>>
    PROVE  Pieces' /\ FilesStay
<1>1. MapOK' /\ Sessions' = Sessions \ Oldest(k)
  BY MapAfterEviction DEF Pieces, EndOldest
<1>2. RunsOK'
  BY DEF Pieces, RunsOK, EndOldest, Terminated
<1>3. Told'
  BY <1>1 DEF Pieces, Told
<1>4. ChildrenOwned' /\ PendingFilesStay' /\ FilesStay
  BY <1>1, OldestAreTold
     DEF Pieces, RunsOK, Told, ChildrenOwned, PendingFilesStay, FilesOwned, FilesStay,
         EndOldest, Terminated, Abandoned, NeverStarted
<1> QED
  BY <1>1, <1>2, <1>3, <1>4 DEF Pieces

\* Resolving a call either makes its session the owner of child and file, or
\* leaves the child to nobody in the one case the code leaves it there.
LEMMA ResolveStep ==
    ASSUME Pieces, NEW r \in Runs, call[r] = "pending",
           NEW result \in {"session", "bare", "empty"}, NEW keepFile \in BOOLEAN,
           Resolve(r, result, keepFile),
           result = "empty" => proc[r] = "closed",
           RunsOK => out' \in [Runs -> {"none", "partial", "session", "bare", "huge"}],
           \A q \in Runs : q # r => out'[q] = out[q],
           UNCHANGED busy
    PROVE  Pieces' /\ FilesStay
<1>1. r \notin Sessions
  BY DEF Pieces, Told
<1>2. CASE result = "session"
  <2>1. /\ Surplus \in 0 .. Len(lru) /\ MapOK'
        /\ Sessions' = (Sessions \ Oldest(Surplus)) \cup {r}
    BY <1>1, <1>2, MapAfterInsert DEF Pieces, Resolve
  <2>2. RunsOK'
    BY <1>2 DEF Pieces, RunsOK, Resolve, Terminated
  <2>3. Told'
    BY <1>2, <2>1 DEF Pieces, RunsOK, Told, Resolve
  <2>4. ChildrenOwned' /\ PendingFilesStay' /\ FilesStay
    BY <1>2, <2>1, OldestAreTold
       DEF Pieces, RunsOK, Told, ChildrenOwned, PendingFilesStay, FilesOwned, FilesStay,
           Resolve, Terminated, Abandoned, NeverStarted
  <2> QED
    BY <2>1, <2>2, <2>3, <2>4 DEF Pieces
<1>3. CASE result # "session"
  <2>1. MapOK' /\ Sessions' = Sessions
    BY <1>3, MapUntouched DEF Pieces, Resolve
  <2>2. RunsOK'
    BY <1>3 DEF Pieces, RunsOK, Resolve, Terminated
  <2>3. Told'
    BY <1>1, <2>1 DEF Pieces, RunsOK, Told, Resolve
  <2>4. ChildrenOwned' /\ PendingFilesStay' /\ FilesStay
    BY <1>3, <2>1
       DEF Pieces, RunsOK, Told, ChildrenOwned, PendingFilesStay, FilesOwned, FilesStay,
           Resolve, Terminated, Abandoned, NeverStarted
  <2> QED
    BY <2>1, <2>2, <2>3, <2>4 DEF Pieces
<1> QED
  BY <1>2, <1>3

\* A granted run takes its child and file under the pending call.
LEMMA StartStep ==
    ASSUME Pieces, NEW r \in Runs, Start(r)
    PROVE  Pieces' /\ FilesStay
<1>1. PICK k \in 0 .. Len(lru) :
          /\ lru' = SubSeq(lru, k + 1, Len(lru))
          /\ proc' = [Terminated(proc, Oldest(k)) EXCEPT ![r] = "running"]
          /\ tmp' = [q \in Runs |-> q = r \/ (tmp[q] /\ q \notin Oldest(k))]
  BY DEF Start
<1>2. MapOK' /\ Sessions' = Sessions \ Oldest(k)
  BY <1>1, MapAfterEviction DEF Pieces
<1>3. RunsOK'
  BY <1>1 DEF Pieces, RunsOK, Start, Terminated
<1>4. r \notin Sessions
  BY DEF Pieces, Told, Start
<1>5. Told'
  BY <1>2, <1>4 DEF Pieces, RunsOK, Told, Start
<1>6. ChildrenOwned' /\ PendingFilesStay' /\ FilesStay
  BY <1>1, <1>2, OldestAreTold
     DEF Pieces, RunsOK, Told, ChildrenOwned, PendingFilesStay, FilesOwned, FilesStay,
         Start, Terminated, Abandoned, NeverStarted
<1> QED
  BY <1>2, <1>3, <1>5, <1>6 DEF Pieces

\* A refused run had nothing, and every session ends.
LEMMA StartRefusedStep ==
    ASSUME Pieces, NEW r \in Runs, StartRefused(r)
    PROVE  Pieces' /\ FilesStay
<1>1. Len(lru) \in 0 .. Len(lru)
  BY LenProperties DEF Pieces, MapOK
<1>2. MapOK' /\ Sessions' = Sessions \ Oldest(Len(lru))
  BY <1>1, MapAfterEviction DEF Pieces, StartRefused, EndOldest
<1>3. RunsOK'
  BY DEF Pieces, RunsOK, StartRefused, EndOldest, Terminated
<1>4. r \notin Sessions
  BY DEF Pieces, Told, StartRefused
<1>5. Told'
  BY <1>2, <1>4 DEF Pieces, RunsOK, Told, StartRefused
<1>6. ChildrenOwned' /\ PendingFilesStay' /\ FilesStay
  BY <1>1, <1>2, <1>4, OldestAreTold
     DEF Pieces, RunsOK, Told, ChildrenOwned, PendingFilesStay, FilesOwned, FilesStay,
         StartRefused, EndOldest, Terminated, Abandoned, NeverStarted
<1> QED
  BY <1>2, <1>3, <1>5, <1>6 DEF Pieces

\* Output, errors, timeouts and exits of a run that make no session.
LEMMA QuietStep ==
    ASSUME Pieces, NEW r \in Runs,
           \/ StdoutPartial(r) \/ StdoutLarge(r) \/ FileParseTooLarge(r)
           \/ Timeout(r) \/ SpawnFails(r) \/ ChildExit(r) \/ RpcEnd(r)
    PROVE  Pieces' /\ FilesStay
<1>1. MapOK' /\ Sessions' = Sessions
  BY MapUntouched DEF Pieces, StdoutPartial, StdoutLarge, FileParseTooLarge, Timeout,
                      SpawnFails, ChildExit, RpcEnd
<1>2. r \notin Sessions \/ call' = call
  BY DEF Pieces, Told, StdoutPartial, StdoutLarge, FileParseTooLarge, Timeout,
         SpawnFails, ChildExit, RpcEnd
<1>3. CASE StdoutPartial(r) \/ StdoutLarge(r)
  BY <1>1, <1>2, <1>3
     DEF Pieces, RunsOK, Told, ChildrenOwned, PendingFilesStay, FilesOwned, FilesStay,
         Abandoned, NeverStarted, StdoutPartial, StdoutLarge, Complete
<1>4. CASE FileParseTooLarge(r)
  BY <1>1, <1>2, <1>4
     DEF Pieces, RunsOK, Told, ChildrenOwned, PendingFilesStay, FilesOwned, FilesStay,
         Abandoned, NeverStarted, FileParseTooLarge
<1>5. CASE Timeout(r)
  BY <1>1, <1>2, <1>5
     DEF Pieces, RunsOK, Told, ChildrenOwned, PendingFilesStay, FilesOwned, FilesStay,
         Abandoned, NeverStarted, Timeout, Terminated
<1>6. CASE SpawnFails(r)
  BY <1>1, <1>2, <1>6
     DEF Pieces, RunsOK, Told, ChildrenOwned, PendingFilesStay, FilesOwned, FilesStay,
         Abandoned, NeverStarted, SpawnFails
<1>7. CASE ChildExit(r) \/ RpcEnd(r)
  BY <1>1, <1>2, <1>7
     DEF Pieces, RunsOK, Told, ChildrenOwned, PendingFilesStay, FilesOwned, FilesStay,
         Abandoned, NeverStarted, ChildExit, RpcEnd
<1> QED
  BY <1>3, <1>4, <1>5, <1>6, <1>7

\* Parsing output makes a session, a result without one, or a failure.
LEMMA ParseStep ==
    ASSUME Pieces, NEW r \in Runs, StdoutParsed(r) \/ FileParse(r) \/ FinalParse(r)
    PROVE  Pieces' /\ FilesStay
<1>1. CASE StdoutParsed(r)
  <2>1. PICK result \in {"session", "bare"} :
            out' = [out EXCEPT ![r] = result] /\ Resolve(r, result, TRUE)
    BY <1>1 DEF StdoutParsed
  <2>2. /\ RunsOK => out' \in [Runs -> {"none", "partial", "session", "bare", "huge"}]
        /\ \A q \in Runs : q # r => out'[q] = out[q]
    BY <2>1 DEF Pieces, RunsOK
  <2> QED
    BY <1>1, <2>1, <2>2, ResolveStep DEF StdoutParsed
<1>2. CASE FileParse(r)
  <2>1. RunsOK => out' \in [Runs -> {"none", "partial", "session", "bare", "huge"}]
    BY <1>2 DEF FileParse, RunsOK
  <2> QED
    BY <1>2, <2>1, ResolveStep DEF FileParse
<1>3. CASE FinalParse(r)
  <2>1. RunsOK => out' \in [Runs -> {"none", "partial", "session", "bare", "huge"}]
    BY <1>3 DEF FinalParse, RunsOK
  <2>2. CASE out[r] \in {"session", "bare"} /\ Resolve(r, out[r], FALSE)
    BY <1>3, <2>1, <2>2, ResolveStep DEF FinalParse
  <2>3. CASE out[r] = "none" /\ Resolve(r, "empty", FALSE)
    BY <1>3, <2>1, <2>3, ResolveStep DEF FinalParse
  <2>4. CASE /\ out[r] \in {"partial", "huge"}
             /\ call' = [call EXCEPT ![r] = "failed"]
             /\ tmp' = [tmp EXCEPT ![r] = FALSE]
             /\ UNCHANGED <<lru, proc>>
    <3>1. MapOK' /\ Sessions' = Sessions /\ r \notin Sessions
      BY <1>3, <2>4, MapUntouched DEF Pieces, Told, FinalParse
    <3> QED
      BY <1>3, <2>4, <3>1
         DEF Pieces, RunsOK, Told, ChildrenOwned, PendingFilesStay, FilesOwned, FilesStay,
             Abandoned, NeverStarted, FinalParse
  <2> QED
    BY <1>3, <2>2, <2>3, <2>4 DEF FinalParse
<1> QED
  BY <1>1, <1>2, <1>3

\* A session that ends, by request or with its child, takes child and file along.
LEMMA DeleteStep ==
    ASSUME Pieces, NEW r \in Runs, DebugEnd(r) \/ Close(r)
    PROVE  Pieces' /\ FilesStay
<1>1. MapOK' /\ Sessions' = Sessions \ {r}
  BY MapAfterDelete DEF Pieces, DebugEnd, Close
<1>2. RunsOK'
  BY ZenonT(60) DEF Pieces, RunsOK, DebugEnd, Close, Terminated
<1>3. Told'
  BY <1>1 DEF Pieces, Told, DebugEnd, Close
<1>4. ChildrenOwned' /\ PendingFilesStay' /\ FilesStay
  BY <1>1, ZenonT(60)
     DEF Pieces, RunsOK, Told, ChildrenOwned, PendingFilesStay, FilesOwned, FilesStay,
         DebugEnd, Close, Terminated, Abandoned, NeverStarted
<1> QED
  BY <1>1, <1>2, <1>3, <1>4 DEF Pieces

\* An RPC call makes its session the most recent one.
LEMMA TouchStep ==
    ASSUME Pieces, NEW r \in Runs, RpcStart(r)
    PROVE  Pieces' /\ FilesStay
<1>1. MapOK' /\ Sessions' = Sessions
  BY MapAfterTouch DEF Pieces, RpcStart
<1> QED
  BY <1>1
     DEF Pieces, RunsOK, Told, ChildrenOwned, PendingFilesStay, FilesOwned, FilesStay,
         Abandoned, NeverStarted, RpcStart

\* Every step keeps the pieces together.
LEMMA NextPieces == Pieces /\ [KANext]_kaVars => Pieces' /\ FilesStay
<1> SUFFICES ASSUME Pieces, [KANext]_kaVars PROVE Pieces' /\ FilesStay
  OBVIOUS
<1>1. ASSUME NEW r \in Runs, Start(r) PROVE Pieces' /\ FilesStay
  BY <1>1, StartStep
<1>2. ASSUME NEW r \in Runs, StartRefused(r) PROVE Pieces' /\ FilesStay
  BY <1>2, StartRefusedStep
<1>3. ASSUME NEW r \in Runs, RunStep(r) PROVE Pieces' /\ FilesStay
  BY <1>3, QuietStep, ParseStep, DeleteStep DEF RunStep
<1>4. ASSUME NEW r \in Runs, DebugEnd(r) PROVE Pieces' /\ FilesStay
  BY <1>4, DeleteStep
<1>5. ASSUME NEW r \in Runs, RpcStart(r) PROVE Pieces' /\ FilesStay
  BY <1>5, TouchStep
<1>6. ASSUME NEW r \in Runs, RpcEnd(r) PROVE Pieces' /\ FilesStay
  BY <1>6, QuietStep
<1>7. CASE Sweep
  <2>1. PICK k \in 1 .. Len(lru) : EndOldest(k) /\ UNCHANGED <<call, out, busy>>
    BY <1>7 DEF Sweep
  <2>2. k \in 0 .. Len(lru)
    BY LenProperties DEF Pieces, MapOK
  <2> QED
    BY <2>1, <2>2, EvictionStep
<1>8. CASE UNCHANGED kaVars
  <2>1. MapOK' /\ Sessions' = Sessions
    BY <1>8, MapUntouched DEF Pieces, kaVars
  <2> QED
    BY <1>8, <2>1
       DEF Pieces, RunsOK, Told, ChildrenOwned, PendingFilesStay, FilesOwned, FilesStay,
           Abandoned, NeverStarted, kaVars
<1> QED
  BY <1>1, <1>2, <1>3, <1>4, <1>5, <1>6, <1>7, <1>8 DEF KANext

-----------------------------------------------------------------------------
(***************************************************************************)
(* The theorems                                                            *)
(***************************************************************************)

\* The map is sound, within KEEP_ALIVE_MAX_SESSIONS, and owns what it should,
\* all at once (keep-alive-manager.mjs:98-130, 324-527).
THEOREM SessionsInductive == KASpec => []KInv
<1>1. KAInit => KInv
  BY InitPieces, InvIsPieces
<1>2. KInv /\ [KANext]_kaVars => KInv'
  BY NextPieces, InvIsPieces DEF FilesStay
<1> QED
  BY <1>1, <1>2, PTL DEF KASpec

\* Each session is in the map once, there are at most MaxSessions, and only runs
\* whose caller was given the session are in it.
THEOREM SessionMapIsSound == KASpec => []KAInv
<1>1. KInv => KAInv
  BY DEF KInv
<1> QED
  BY <1>1, SessionsInductive, PTL

\* No child and no temporary file is lost track of, but for the ways out of the
\* code that leave one (Abandoned, NeverStarted), and no pending call loses its file.
THEOREM NothingIsLost == KASpec => []ResourcesOwned
<1>1. KInv => ResourcesOwned
  BY DEF KInv
<1> QED
  BY <1>1, SessionsInductive, PTL

\* The only step that turns a pending call into a session is Resolve, with the
\* eviction of the surplus.
LEMMA SessionsAreMadeByResolve ==
    ASSUME RunsOK, [KANext]_kaVars, NEW r \in Runs,
           call[r] = "pending", call'[r] = "session"
    PROVE  lru' = Append(SubSeq(lru, Surplus + 1, Len(lru)), r)
<1>1. ~ UNCHANGED kaVars /\ ~ Sweep
  BY DEF kaVars, Sweep
<1>2. PICK q \in Runs : Start(q) \/ StartRefused(q) \/ RunStep(q)
                        \/ DebugEnd(q) \/ RpcStart(q) \/ RpcEnd(q)
  BY <1>1 DEF KANext
<1>3. ~ (Start(q) \/ StartRefused(q) \/ DebugEnd(q) \/ RpcStart(q) \/ RpcEnd(q))
  BY DEF RunsOK, Start, StartRefused, DebugEnd, RpcStart, RpcEnd
<1>4. ~ (StdoutPartial(q) \/ StdoutLarge(q) \/ FileParseTooLarge(q) \/ Timeout(q)
         \/ SpawnFails(q) \/ ChildExit(q) \/ Close(q))
  BY DEF RunsOK, StdoutPartial, StdoutLarge, FileParseTooLarge, Timeout,
         SpawnFails, ChildExit, Close
<1>5. StdoutParsed(q) \/ FileParse(q) \/ FinalParse(q)
  BY <1>2, <1>3, <1>4 DEF RunStep
<1>6. ASSUME NEW result, NEW keepFile, Resolve(q, result, keepFile)
      PROVE  lru' = Append(SubSeq(lru, Surplus + 1, Len(lru)), r)
  BY <1>6 DEF RunsOK, Resolve
<1>7. CASE StdoutParsed(q)
  BY <1>6, <1>7 DEF StdoutParsed
<1>8. CASE FileParse(q)
  BY <1>6, <1>8 DEF FileParse
<1>9. CASE FinalParse(q)
  <2>1. ~ (call' = [call EXCEPT ![q] = "failed"])
    BY DEF RunsOK
  <2> QED
    BY <1>6, <1>9, <2>1 DEF FinalParse
<1> QED
  BY <1>5, <1>7, <1>8, <1>9

\* Making a session ends no other while there is room, and otherwise no session
\* accessed later than one it keeps (enforceKeepAliveCapacity).
THEOREM EvictionIsFair == KASpec => EvictsOldestWhenFull
<1> DEFINE Kept(r) ==
        /\ Len(lru) < MaxSessions => Sessions \subseteq ToSet(lru')
        /\ \A i, j \in DOMAIN lru :
              (i < j /\ lru[i] \in ToSet(lru')) => lru[j] \in ToSet(lru')
<1>1. ASSUME KInv, [KANext]_kaVars, NEW r \in Runs,
             call[r] = "pending", call'[r] = "session"
      PROVE  Kept(r)
  <2>1. MapOK /\ RunsOK /\ Told
    BY <1>1, InvIsPieces DEF Pieces
  <2>2. lru' = Append(SubSeq(lru, Surplus + 1, Len(lru)), r)
    BY <1>1, <2>1, SessionsAreMadeByResolve
  <2>3. r \notin Sessions
    BY <1>1, <2>1 DEF Told
  <2>4. /\ Surplus \in 0 .. Len(lru)
        /\ ToSet(lru') = (Sessions \ Oldest(Surplus)) \cup {r}
    BY <2>1, <2>2, <2>3, MapAfterInsert DEF Sessions
  <2>5. Len(lru) \in Nat /\ DOMAIN lru = 1 .. Len(lru)
    BY <2>1, LenProperties DEF MapOK
  <2>6. ASSUME Len(lru) < MaxSessions PROVE Sessions \subseteq ToSet(lru')
    <3>1. Surplus = 0
      BY <2>5, <2>6, SessionAssumption DEF Surplus
    <3>2. Oldest(0) = {}
      BY DEF Oldest
    <3> QED
      BY <2>4, <3>1, <3>2
  <2>7. ASSUME NEW i \in DOMAIN lru, NEW j \in DOMAIN lru, i < j, lru[i] \in ToSet(lru')
        PROVE  lru[j] \in ToSet(lru')
    <3>1. lru[i] \in Sessions /\ lru[j] \in Sessions
      BY DEF Sessions, ToSet
    <3>2. lru[i] \notin Oldest(Surplus)
      BY <2>3, <2>4, <2>7, <3>1
    <3>3. i \notin 1 .. Surplus
      BY <3>2 DEF Oldest
    <3>4. j \notin 1 .. Surplus /\ 1 .. Surplus \subseteq DOMAIN lru
      BY <2>4, <2>5, <2>7, <3>3
    <3>5. lru[j] \notin Oldest(Surplus)
      BY <2>1, <3>4 DEF Oldest, MapOK, Distinct
    <3> QED
      BY <2>4, <3>1, <3>5
  <2> QED
    BY <2>6, <2>7
<1>2. KInv /\ [KANext]_kaVars =>
        [\A r \in Runs : (call[r] = "pending" /\ call'[r] = "session") => Kept(r)]_kaVars
  BY <1>1
<1> QED
  BY <1>2, SessionsInductive, PTL DEF KASpec, EvictsOldestWhenFull

-----------------------------------------------------------------------------
\* The semaphore of the bridge, with what is proved of it.
SemP == INSTANCE SimulationSemaphore_proofs
          WITH Requests <- Runs, Signalled <- Simulates

-----------------------------------------------------------------------------
(***************************************************************************)
(* The semaphore inside the bridge                                         *)
(***************************************************************************)

\* The semaphore is used within its assumption.
LEMMA RunsAreFinite == SemP!IsFiniteSet(Runs)
BY SessionAssumption DEF SemP!IsFiniteSet, IsFiniteSet

\* Sizes of sets are the same there and here.
LEMMA SameCardinality ==
    ASSUME NEW S
    PROVE  SemP!Cardinality(S) = Cardinality(S) /\ Sem!Cardinality(S) = Cardinality(S)
BY DEF SemP!Cardinality, Sem!Cardinality, Cardinality

\* Every call of acquire() by a handler is one of the semaphore.
LEMMA EnterIsAcquire ==
    ASSUME NEW r \in Runs,
           Sem!AcquireSlot(r) \/ Sem!AcquireQueueFull(r) \/ Sem!AcquireEnqueue(r)
    PROVE  SemP!Acquire(r)
BY DEF SemP!Acquire, SemP!AcquireSlot, Sem!AcquireSlot, SemP!AcquireQueueFull,
       Sem!AcquireQueueFull, SemP!AcquireEnqueue, Sem!AcquireEnqueue,
       SemP!NewPromise, Sem!NewPromise, SemP!Idle, Sem!Idle, SemP!Holders,
       Sem!Holders, SemP!Waiting, Sem!Waiting

\* So is every release, queue timeout and rejection of the queue.
LEMMA OtherCallsAreTheSame ==
    /\ \A r \in Runs : Sem!Release(r) => SemP!Release(r)
    /\ \A r \in Runs : Sem!QueueTimeout(r) => SemP!QueueTimeout(r)
    /\ Sem!DrainAndRejectAll => SemP!DrainAndRejectAll
BY DEF SemP!Release, Sem!Release, SemP!Drain, Sem!Drain, SemP!DrainCount,
       Sem!DrainCount, SemP!QueueTimeout, Sem!QueueTimeout, SemP!RemoveAndReject,
       Sem!RemoveAndReject, SemP!WithoutEntry, Sem!WithoutEntry, SemP!RemoveAt,
       Sem!RemoveAt, SemP!DrainAndRejectAll, Sem!DrainAndRejectAll, SemP!ToSet,
       Sem!ToSet

\* The invariant of the semaphore survives what the bridge does with it.
LEMMA SemaphoreKept ==
    ASSUME SemP!IInv,
           \/ \E r \in Runs : \/ Sem!AcquireSlot(r) \/ Sem!AcquireQueueFull(r)
                              \/ Sem!AcquireEnqueue(r) \/ Sem!Release(r)
                              \/ Sem!QueueTimeout(r)
           \/ Sem!DrainAndRejectAll
           \/ UNCHANGED semVars
    PROVE  SemP!IInv'
<1>1. SemP!IInv /\ [SemP!Next]_(SemP!vars) => SemP!IInv'
  BY RunsAreFinite, BridgeAssumption, SemP!NextInv
<1>2. CASE UNCHANGED semVars
  BY <1>1, <1>2 DEF semVars, SemP!vars
<1>3. CASE Sem!DrainAndRejectAll
  BY <1>1, <1>3, OtherCallsAreTheSame DEF SemP!Next
<1>4. ASSUME NEW r \in Runs,
             Sem!AcquireSlot(r) \/ Sem!AcquireQueueFull(r) \/ Sem!AcquireEnqueue(r)
      PROVE  SemP!IInv'
  BY <1>1, <1>4, EnterIsAcquire DEF SemP!Next
<1>5. ASSUME NEW r \in Runs, Sem!Release(r) \/ Sem!QueueTimeout(r)
      PROVE  SemP!IInv'
  BY <1>1, <1>5, OtherCallsAreTheSame DEF SemP!Next
<1> QED
  BY <1>2, <1>3, <1>4, <1>5

\* A new semaphore has it: the one of the first bridge and of every later one.
LEMMA NewSemaphore ==
    /\ Sem!Init => SemP!IInv
    /\ Sem!Init' => SemP!IInv'
<1>1. SemP!Init => SemP!IInv
  BY RunsAreFinite, BridgeAssumption, SemP!InitInv
<1>2. SemP!Init' => SemP!IInv'
  BY <1>1, PTL
<1> QED
  BY <1>1, <1>2 DEF SemP!Init, Sem!Init

-----------------------------------------------------------------------------
(***************************************************************************)
(* The inductive invariant                                                 *)
(***************************************************************************)

\* The types of what the bridge itself keeps.
OwnOK ==
    /\ stage \in [Runs -> {"new", "receiving", "waiting", "running", "done"}]
    /\ reply \in [Runs -> {"none", "ok", "busy", "error"}]
    /\ gone \in [Runs -> BOOLEAN]
    /\ bridge \in {"up", "stopping", "down"}
    /\ stops \in 0 .. MaxStops

\* Where a request is says what it has of the semaphore and of the sessions:
\* nothing before acquire() and after the finally block, a promise while it
\* waits, a slot and a run in between.
Placed(r) ==
    /\ stage[r] \in {"new", "receiving"} =>
          r \notin Sem!Holders \cup Sem!Waiting /\ call[r] = "idle"
    /\ stage[r] = "waiting" =>
          call[r] = "idle" /\ (promise[r] = "granted" => ~released[r])
    /\ stage[r] = "running" => r \in Sem!Holders /\ call[r] # "idle"
    /\ stage[r] = "done" =>
          r \notin Sem!Holders \cup Sem!Waiting /\ call[r] # "pending"

\* The invariants of the two parts and what ties them together.  The files are
\* not in it: a new bridge does not know those of its predecessor.
BInv ==
    /\ Pieces
    /\ SemP!IInv
    /\ OwnOK
    /\ \A r \in Runs : Placed(r)

\* What the runs check follows.
LEMMA InvGivesProperties == BInv => BridgeInv /\ NoStrays
<1> SUFFICES ASSUME BInv PROVE BridgeInv /\ NoStrays
  OBVIOUS
<1>1. KATypeOK
  BY DEF BInv, Pieces, MapOK, RunsOK, KATypeOK, Complete
<1>2. Sem!TypeOK
  BY DEF BInv, SemP!IInv, SemP!TypeOK, Sem!TypeOK, SemP!Outcomes, Sem!Outcomes,
         SemP!Refusals, Sem!Refusals
<1>3. activeCount = Cardinality(Sem!Holders)
  BY SameCardinality DEF BInv, SemP!IInv, SemP!SlotsConserved, SemP!Holders, Sem!Holders
<1>4. \A r \in Runs : call[r] = "pending" => r \in Sem!Holders
  BY DEF BInv, OwnOK, Placed
<1>5. \A r \in Sem!Holders : stage[r] \in {"waiting", "running"}
  BY DEF BInv, OwnOK, Placed, Sem!Holders
<1>6. activeCount = Sem!Cardinality(Sem!Holders)
  BY <1>3, SameCardinality
<1> QED
  BY <1>1, <1>2, <1>3, <1>4, <1>5
  DEF BInv, Pieces, OwnOK, BridgeInv, BridgeTypeOK, SlotsCoverRuns, NoStrays

\* It holds when the bridge starts.
LEMMA InitBInv == BridgeInit => BInv
<1> SUFFICES ASSUME BridgeInit PROVE BInv
  OBVIOUS
<1>1. Pieces /\ SemP!IInv
  BY InitPieces, NewSemaphore DEF BridgeInit
<1>2. OwnOK
  BY BridgeAssumption DEF BridgeInit, OwnOK
<1>3. \A r \in Runs : Placed(r)
  BY DEF BridgeInit, KAInit, Sem!Init, Placed, Sem!Holders, Sem!Waiting
<1> QED
  BY <1>1, <1>2, <1>3 DEF BInv

-----------------------------------------------------------------------------
(***************************************************************************)
(* The steps                                                               *)
(***************************************************************************)

\* release() takes the slot of r and hands it, if at all, to callers that wait:
\* the promises of all others stay what they were.
LEMMA ReleaseTouches ==
    ASSUME SemP!IInv, NEW r \in Runs, Sem!Release(r)
    PROVE  /\ promise[r] = "granted" /\ promise'[r] = "granted"
           /\ released' = [released EXCEPT ![r] = TRUE]
           /\ \A q \in Runs : \/ promise'[q] = promise[q]
                              \/ promise[q] = "pending" /\ promise'[q] = "granted"
           /\ \A q \in Sem!Waiting : ~released[q]
<1> DEFINE k == Sem!DrainCount(activeCount - 1)
           woken == {queue[i] : i \in 1 .. k}
<1>1. /\ queue \in Seq(Runs) /\ activeCount \in Int /\ MaxConcurrent \in Int
      /\ SemP!ToSet(queue) = SemP!Waiting
      /\ promise \in [Runs -> SemP!Outcomes] /\ released \in [Runs -> BOOLEAN]
      /\ \A q \in SemP!Waiting : ~released[q]
  BY BridgeAssumption DEF SemP!IInv, SemP!TypeOK, SemP!QueueIsExact, SemP!FreshRelease
<1>2. k \in Int /\ k <= Len(queue)
  BY <1>1, LenProperties DEF Sem!DrainCount
<1>3. woken \subseteq Sem!Waiting
  <2>1. \A i \in 1 .. k : i \in DOMAIN queue
    BY <1>1, <1>2, LenProperties
  <2> HIDE DEF k
  <2> QED
    BY <1>1, <2>1 DEF SemP!ToSet, SemP!Waiting, Sem!Waiting
<1>4. /\ promise[r] = "granted"
      /\ released' = [released EXCEPT ![r] = TRUE]
      /\ promise' = [q \in Runs |-> IF q \in woken THEN "granted" ELSE promise[q]]
  BY DEF Sem!Release, Sem!Drain
<1> HIDE DEF woken
<1> QED
  BY <1>1, <1>3, <1>4 DEF SemP!Waiting, Sem!Waiting

\* A step that leaves the sessions alone keeps what is known of them.
LEMMA SessionsUntouched == Pieces /\ UNCHANGED kaVars => Pieces'
BY NextPieces

\* A connection is accepted.
LEMMA ArriveStep ==
    ASSUME BInv, NEW r \in Runs, Arrive(r)
    PROVE  BInv'
<1>1. Pieces' /\ SemP!IInv'
  BY SessionsUntouched, SemaphoreKept DEF BInv, Arrive
<1>2. OwnOK'
  BY DEF BInv, OwnOK, Arrive
<1>3. \A q \in Runs : Placed(q)'
  BY DEF BInv, OwnOK, Placed, Arrive, semVars, kaVars, Sem!Holders, Sem!Waiting
<1> QED
  BY <1>1, <1>2, <1>3 DEF BInv

\* acquire() is called once the body is there.
LEMMA EnterStep ==
    ASSUME BInv, NEW r \in Runs, Enter(r)
    PROVE  BInv'
<1>1. Pieces' /\ SemP!IInv'
  BY SessionsUntouched, SemaphoreKept DEF BInv, Enter
<1>2. OwnOK'
  BY DEF BInv, OwnOK, Enter
<1>3. PICK outcome \in {"granted", "queue_full", "pending"} :
          /\ promise' = [promise EXCEPT ![r] = outcome]
          /\ released' = [released EXCEPT ![r] = FALSE]
  BY DEF Enter, Sem!AcquireSlot, Sem!AcquireQueueFull, Sem!AcquireEnqueue, Sem!NewPromise
<1>4. promise \in [Runs -> SemP!Outcomes] /\ released \in [Runs -> BOOLEAN]
  BY DEF BInv, SemP!IInv, SemP!TypeOK
<1>5. \A q \in Runs : Placed(q)'
  BY <1>3, <1>4 DEF BInv, OwnOK, Placed, Enter, kaVars, Sem!Holders, Sem!Waiting
<1> QED
  BY <1>1, <1>2, <1>5 DEF BInv

\* The client leaves, or is told that it has to.
LEMMA DisconnectStep ==
    ASSUME BInv, NEW r \in Runs, Disconnect(r)
    PROVE  BInv'
<1>1. Pieces' /\ SemP!IInv'
  BY SessionsUntouched, SemaphoreKept DEF BInv, Disconnect
<1>2. OwnOK'
  BY DEF BInv, OwnOK, Disconnect
<1>3. \A q \in Runs : Placed(q)'
  BY DEF BInv, OwnOK, Placed, Disconnect, semVars, kaVars, Sem!Holders, Sem!Waiting
<1> QED
  BY <1>1, <1>2, <1>3 DEF BInv

\* The queue timer ends the wait of r and of nobody else.
LEMMA QueueTimeoutStep ==
    ASSUME BInv, NEW r \in Runs, QueueTimeout(r)
    PROVE  BInv'
<1>1. Pieces' /\ SemP!IInv'
  BY SessionsUntouched, SemaphoreKept DEF BInv, QueueTimeout
<1>2. OwnOK'
  BY DEF BInv, OwnOK, QueueTimeout, ownVars
<1>3. promise \in [Runs -> SemP!Outcomes] /\ released \in [Runs -> BOOLEAN]
  BY DEF BInv, SemP!IInv, SemP!TypeOK
<1>4. /\ promise' = [promise EXCEPT ![r] = IF @ = "pending" THEN "queue_timeout" ELSE @]
      /\ released' = released
  BY DEF QueueTimeout, Sem!QueueTimeout, Sem!RemoveAndReject
<1>5. \A q \in Runs : Placed(q)'
  BY <1>3, <1>4 DEF BInv, Placed, QueueTimeout, ownVars, kaVars, Sem!Holders, Sem!Waiting
<1> QED
  BY <1>1, <1>2, <1>5 DEF BInv

\* A caller whose acquire() was rejected has nothing to give back.
LEMMA RefusedStep ==
    ASSUME BInv, NEW r \in Runs, Refused(r)
    PROVE  BInv'
<1>1. Pieces' /\ SemP!IInv'
  BY SessionsUntouched, SemaphoreKept DEF BInv, Refused
<1>2. OwnOK'
  BY DEF BInv, OwnOK, Refused, Finish
<1>3. \A q \in Runs : Placed(q)'
  BY DEF BInv, OwnOK, Placed, Refused, Finish, semVars, kaVars, Sem!Holders,
         Sem!Waiting, Sem!Refusals
<1> QED
  BY <1>1, <1>2, <1>3 DEF BInv

\* The run starts with the slot its caller holds.
LEMMA BeginStep ==
    ASSUME BInv, NEW r \in Runs, Begin(r)
    PROVE  BInv'
<1>1. Pieces' /\ SemP!IInv'
  BY StartStep, SemaphoreKept DEF BInv, Begin
<1>2. OwnOK'
  BY DEF BInv, OwnOK, Begin
<1>3. \A q \in Runs : Placed(q)'
  BY DEF BInv, OwnOK, Pieces, RunsOK, Placed, Begin, Start, semVars, Sem!Holders,
         Sem!Waiting
<1> QED
  BY <1>1, <1>2, <1>3 DEF BInv

\* Under memory pressure the slot is given back with the 503.
LEMMA BeginRefusedStep ==
    ASSUME BInv, NEW r \in Runs, BeginRefused(r)
    PROVE  BInv'
<1>1. Pieces' /\ SemP!IInv'
  BY StartRefusedStep, SemaphoreKept DEF BInv, BeginRefused
<1>2. OwnOK'
  BY DEF BInv, OwnOK, BeginRefused, Finish
<1>3. released \in [Runs -> BOOLEAN]
  BY DEF BInv, SemP!IInv, SemP!TypeOK
<1>4. /\ promise'[r] = "granted" /\ released' = [released EXCEPT ![r] = TRUE]
      /\ \A q \in Runs : \/ promise'[q] = promise[q]
                         \/ promise[q] = "pending" /\ promise'[q] = "granted"
      /\ \A q \in Sem!Waiting : ~released[q]
  BY ReleaseTouches DEF BInv, BeginRefused
<1>5. call' = [call EXCEPT ![r] = "failed"]
  BY DEF BeginRefused, StartRefused
<1>6. \A q \in Runs : Placed(q)'
  BY <1>3, <1>4, <1>5 DEF BInv, OwnOK, Pieces, RunsOK, Placed, BeginRefused, Finish,
                          Sem!Holders, Sem!Waiting
<1> QED
  BY <1>1, <1>2, <1>6 DEF BInv

\* The finally block gives the slot back once the run has settled.
LEMMA EndStep ==
    ASSUME BInv, NEW r \in Runs, End(r)
    PROVE  BInv'
<1>1. Pieces' /\ SemP!IInv'
  BY SessionsUntouched, SemaphoreKept DEF BInv, End
<1>2. OwnOK'
  BY DEF BInv, OwnOK, End, Finish
<1>3. released \in [Runs -> BOOLEAN]
  BY DEF BInv, SemP!IInv, SemP!TypeOK
<1>4. /\ promise'[r] = "granted" /\ released' = [released EXCEPT ![r] = TRUE]
      /\ \A q \in Runs : \/ promise'[q] = promise[q]
                         \/ promise[q] = "pending" /\ promise'[q] = "granted"
      /\ \A q \in Sem!Waiting : ~released[q]
  BY ReleaseTouches DEF BInv, End
<1>5. /\ stage' = [stage EXCEPT ![r] = "done"]
      /\ call' = call /\ call[r] # "pending"
  BY DEF End, Finish, kaVars
<1>6. \A q \in Runs : Placed(q)'
  BY <1>3, <1>4, <1>5 DEF BInv, OwnOK, Placed, Sem!Holders, Sem!Waiting
<1> QED
  BY <1>1, <1>2, <1>6 DEF BInv

\* A step of the run settles at most the call of a request that is running.
LEMMA RunStepStep ==
    ASSUME BInv, NEW r \in Runs, Run(r)
    PROVE  BInv'
<1>1. RunStep(r) \/ DebugEnd(r)
  BY DEF Run, RunStep
<1>2. Pieces' /\ SemP!IInv'
  BY <1>1, NextPieces, SemaphoreKept DEF BInv, Run, KANext
<1>3. OwnOK'
  BY DEF BInv, OwnOK, Run, ownVars
<1>4. \A q \in Runs : call'[q] = call[q] \/ (call[q] = "pending" /\ call'[q] # "idle")
  <2>1. call \in [Runs -> {"idle", "pending", "session", "bare", "empty", "failed"}]
    BY DEF BInv, Pieces, RunsOK
  <2>2. ASSUME NEW result \in {"session", "bare", "empty"}, NEW keepFile,
               Resolve(r, result, keepFile)
        PROVE  call' = [call EXCEPT ![r] = result]
    BY <2>2 DEF Resolve
  <2>3. CASE StdoutPartial(r) \/ StdoutLarge(r) \/ ChildExit(r) \/ Close(r) \/ DebugEnd(r)
    BY <2>3 DEF StdoutPartial, StdoutLarge, ChildExit, Close, DebugEnd
  <2>4. CASE FileParseTooLarge(r) \/ Timeout(r) \/ SpawnFails(r)
    BY <2>1, <2>4 DEF FileParseTooLarge, Timeout, SpawnFails
  <2>5. CASE StdoutParsed(r)
    BY <2>1, <2>2, <2>5 DEF StdoutParsed
  <2>6. CASE FileParse(r)
    BY <2>1, <2>2, <2>6 DEF FileParse
  <2>7. CASE FinalParse(r)
    BY <2>1, <2>2, <2>7 DEF FinalParse
  <2> QED
    BY <1>1, <2>3, <2>4, <2>5, <2>6, <2>7 DEF RunStep
<1>5. \A q \in Runs : Placed(q)'
  BY <1>4 DEF BInv, OwnOK, Placed, Run, ownVars, semVars, Sem!Holders, Sem!Waiting
<1> QED
  BY <1>2, <1>3, <1>5 DEF BInv

\* The sweep of idle sessions is no business of the requests.
LEMMA IdleSweepStep ==
    ASSUME BInv, IdleSweep
    PROVE  BInv'
<1>1. Pieces' /\ SemP!IInv'
  BY NextPieces, SemaphoreKept DEF BInv, IdleSweep, KANext
<1>2. OwnOK'
  BY DEF BInv, OwnOK, IdleSweep, ownVars
<1>3. \A q \in Runs : Placed(q)'
  BY DEF BInv, Placed, IdleSweep, Sweep, ownVars, semVars, Sem!Holders, Sem!Waiting
<1> QED
  BY <1>1, <1>2, <1>3 DEF BInv

\* gracefulShutdown ends every session and rejects every caller that waits; the
\* slots in use stay in use.
LEMMA ShutdownStep ==
    ASSUME BInv, Shutdown
    PROVE  BInv'
<1>1. Pieces'
  <2>1. Len(lru) \in 0 .. Len(lru)
    BY LenProperties DEF BInv, Pieces, MapOK
  <2> QED
    BY <2>1, EvictionStep DEF BInv, Shutdown
<1>2. SemP!IInv'
  BY SemaphoreKept DEF BInv, Shutdown
<1>3. OwnOK'
  BY BridgeAssumption DEF BInv, OwnOK, Shutdown
<1>4. promise \in [Runs -> SemP!Outcomes]
  BY DEF BInv, SemP!IInv, SemP!TypeOK
<1>5. /\ \A q \in Runs : promise'[q] = promise[q] \/ promise'[q] = "shutting_down"
      /\ released' = released
      /\ \A q \in Runs : promise[q] = "granted" => promise'[q] = "granted"
  <2>1. SemP!ToSet(queue) = SemP!Waiting
    BY DEF BInv, SemP!IInv, SemP!QueueIsExact
  <2>2. Sem!ToSet(queue) = Sem!Waiting
    BY <2>1 DEF SemP!ToSet, Sem!ToSet, SemP!Waiting, Sem!Waiting
  <2> QED
    BY <2>2 DEF Shutdown, Sem!DrainAndRejectAll, Sem!Waiting
<1>6. \A q \in Runs : Placed(q)'
  BY <1>4, <1>5 DEF BInv, OwnOK, Placed, Shutdown, Sem!Holders, Sem!Waiting
<1> QED
  BY <1>1, <1>2, <1>3, <1>6 DEF BInv

\* The process goes, by itself or not: nothing is tidied up.
LEMMA GoesDownStep ==
    ASSUME BInv, Exit \/ Crash
    PROVE  BInv'
<1>1. Pieces' /\ SemP!IInv'
  BY SessionsUntouched, SemaphoreKept DEF BInv, Exit, Crash
<1>2. OwnOK'
  BY BridgeAssumption DEF BInv, OwnOK, Exit, Crash
<1>3. \A q \in Runs : Placed(q)'
  BY DEF BInv, Placed, Exit, Crash, semVars, kaVars, Sem!Holders, Sem!Waiting
<1> QED
  BY <1>1, <1>2, <1>3 DEF BInv

\* A new bridge: every child of the old one is told to stop before anything else.
LEMMA RestartStep ==
    ASSUME BInv, Restart
    PROVE  BInv'
<1>1. MapOK'
  <2>1. lru' = <<>> /\ Len(<<>>) = 0 /\ <<>> \in Seq(Runs) /\ DOMAIN <<>> = {}
    BY SMT DEF Restart
  <2>2. Distinct(<<>>)
    BY <2>1 DEF Distinct
  <2> QED
    BY <2>1, <2>2, SessionAssumption DEF MapOK
<1>2. RunsOK'
  BY DEF BInv, Pieces, RunsOK, Restart, Terminated
<1>3. Sessions' = {}
  BY DEF Restart, Sessions, ToSet
<1>4. Told' /\ ChildrenOwned' /\ PendingFilesStay'
  <2>1. \A q \in Runs : proc'[q] # "running"
    BY DEF Restart, Terminated
  <2> QED
    BY <1>3, <2>1 DEF Told, ChildrenOwned, PendingFilesStay, Restart
<1>5. Sem!Init'
  BY DEF Restart, Sem!Init
<1>6. SemP!IInv'
  BY <1>5, NewSemaphore
<1>7. OwnOK'
  BY DEF BInv, OwnOK, Restart
<1>8. \A q \in Runs : Placed(q)'
  BY DEF BInv, OwnOK, Placed, Restart, Sem!Holders, Sem!Waiting
<1> QED
  BY <1>1, <1>2, <1>4, <1>6, <1>7, <1>8 DEF BInv, Pieces

\* Every step of the bridge keeps the invariant.
LEMMA NextBInv == BInv /\ [BridgeNext]_bridgeVars => BInv'
<1> SUFFICES ASSUME BInv, [BridgeNext]_bridgeVars PROVE BInv'
  OBVIOUS
<1>1. ASSUME NEW r \in Runs,
             \/ Arrive(r) \/ Enter(r) \/ Disconnect(r) \/ QueueTimeout(r)
             \/ Refused(r) \/ Begin(r) \/ BeginRefused(r) \/ Run(r) \/ End(r)
      PROVE  BInv'
  BY <1>1, ArriveStep, EnterStep, DisconnectStep, QueueTimeoutStep, RefusedStep,
     BeginStep, BeginRefusedStep, RunStepStep, EndStep
<1>2. CASE IdleSweep \/ Shutdown \/ Exit \/ Crash \/ Restart
  BY <1>2, IdleSweepStep, ShutdownStep, GoesDownStep, RestartStep
<1>3. CASE UNCHANGED bridgeVars
  <2>1. UNCHANGED kaVars /\ UNCHANGED semVars /\ UNCHANGED ownVars
    BY <1>3 DEF bridgeVars
  <2>2. Pieces' /\ SemP!IInv'
    BY <2>1, SessionsUntouched, SemaphoreKept DEF BInv
  <2>3. OwnOK'
    BY <2>1 DEF BInv, OwnOK, ownVars
  <2>4. \A q \in Runs : Placed(q)'
    BY <2>1 DEF BInv, Placed, ownVars, semVars, kaVars, Sem!Holders, Sem!Waiting
  <2> QED
    BY <2>2, <2>3, <2>4 DEF BInv
<1> QED
  BY <1>1, <1>2, <1>3 DEF BridgeNext

-----------------------------------------------------------------------------
(***************************************************************************)
(* The theorems                                                            *)
(***************************************************************************)

\* The parts of the bridge stay well formed and tied together over any number
\* of shutdowns, crashes and restarts (simulator-bridge.mjs:277-463, 700-758).
THEOREM BridgeInductive == BridgeSpec => []BInv
BY InitBInv, NextBInv, PTL DEF BridgeSpec

\* A slot is held by a request that was granted one and has not been answered,
\* by every request with a run, and by nobody else.
THEOREM SlotsStayWithRuns == BridgeSpec => []BridgeInv
BY InvGivesProperties, BridgeInductive, PTL

\* A bridge that is up has told every child to stop that it does not serve, also
\* those an earlier bridge left (cleanupStaleKeepAliveProcesses).
THEOREM NoChildStrays == BridgeSpec => []NoStrays
BY InvGivesProperties, BridgeInductive, PTL
=============================================================================
