------------------------ MODULE SimulationSemaphore ------------------------
(***************************************************************************)
(* The counting semaphore of scripts/bridge-config.mjs that decides which  *)
(* HTTP request of the simulator bridge may run an edb-simulator process.  *)
(*                                                                         *)
(* A request is one caller of acquire().  promise[r] is the outcome of the *)
(* promise acquire() returned to it, released[r] the flag captured by the  *)
(* release closure it was given, timer[r] whether its queue timer is       *)
(* armed, listening[r] whether its abort listener is still on the signal.  *)
(* A caller whose promise has settled (and which has given its slot back)  *)
(* may call acquire() again, so behaviours never end.                      *)
(***************************************************************************)
EXTENDS Naturals, FiniteSets, SequencesExt

CONSTANTS Requests,       \* the callers
          Signalled,      \* those that pass an AbortSignal to acquire()
          MaxConcurrent,  \* MAX_CONCURRENT_SIMULATIONS
          MaxQueueSize    \* SIMULATION_QUEUE_MAX

\* MAX_CONCURRENT_SIMULATIONS is at least 1 and SIMULATION_QUEUE_MAX at least
\* 0 whatever the environment says (bridge-config.mjs:44-45).
ASSUME SemaphoreAssumption ==
    /\ IsFiniteSet(Requests)
    /\ Signalled \subseteq Requests
    /\ MaxConcurrent \in Nat \ {0}
    /\ MaxQueueSize \in Nat

VARIABLES activeCount, queue, promise, timer, listening, released

vars == <<activeCount, queue, promise, timer, listening, released>>

\* The codes of SimulationCapacityError acquire() can reject with.
Refusals == {"queue_full", "queue_timeout", "shutting_down", "aborted"}

Outcomes == {"none", "pending", "granted"} \cup Refusals

TypeOK ==
    /\ activeCount \in 0 .. MaxConcurrent
    /\ queue \in Seq(Requests)
    /\ promise \in [Requests -> Outcomes]
    /\ timer \in [Requests -> BOOLEAN]
    /\ listening \in [Requests -> BOOLEAN]
    /\ released \in [Requests -> BOOLEAN]

Init ==
    /\ activeCount = 0
    /\ queue = <<>>
    /\ promise = [r \in Requests |-> "none"]
    /\ timer = [r \in Requests |-> FALSE]
    /\ listening = [r \in Requests |-> FALSE]
    /\ released = [r \in Requests |-> FALSE]

\* The requests that hold a slot, and those that wait for one.
Holders == {r \in Requests : promise[r] = "granted" /\ ~released[r]}
Waiting == {r \in Requests : promise[r] = "pending"}

\* r has no acquire() call under way and no slot to give back.
Idle(r) == r \notin Holders /\ r \notin Waiting

-----------------------------------------------------------------------------
(***************************************************************************)
(* acquire()                                                               *)
(***************************************************************************)

\* The caller's new promise settles, or starts pending, with a fresh signal
\* and a fresh release closure.
NewPromise(r, outcome) ==
    /\ Idle(r)
    /\ promise' = [promise EXCEPT ![r] = outcome]
    /\ released' = [released EXCEPT ![r] = FALSE]

\* The signal has fired before acquire() was called.
AcquireAborted(r) ==
    /\ r \in Signalled
    /\ NewPromise(r, "aborted")
    /\ listening' = [listening EXCEPT ![r] = FALSE]
    /\ UNCHANGED <<activeCount, queue, timer>>

\* Fast path: a slot is free.
AcquireSlot(r) ==
    /\ activeCount < MaxConcurrent
    /\ NewPromise(r, "granted")
    /\ activeCount' = activeCount + 1
    /\ listening' = [listening EXCEPT ![r] = FALSE]
    /\ UNCHANGED <<queue, timer>>

AcquireQueueFull(r) ==
    /\ activeCount >= MaxConcurrent
    /\ Len(queue) >= MaxQueueSize
    /\ NewPromise(r, "queue_full")
    /\ listening' = [listening EXCEPT ![r] = FALSE]
    /\ UNCHANGED <<activeCount, queue, timer>>

\* The entry goes to the end of the queue with its timer armed and its abort
\* listener registered.
AcquireEnqueue(r) ==
    /\ activeCount >= MaxConcurrent
    /\ Len(queue) < MaxQueueSize
    /\ NewPromise(r, "pending")
    /\ queue' = Append(queue, r)
    /\ timer' = [timer EXCEPT ![r] = TRUE]
    /\ listening' = [listening EXCEPT ![r] = r \in Signalled]
    /\ UNCHANGED activeCount

Acquire(r) ==
    \/ AcquireAborted(r)
    \/ AcquireSlot(r)
    \/ AcquireQueueFull(r)
    \/ AcquireEnqueue(r)

-----------------------------------------------------------------------------
(***************************************************************************)
(* Leaving the queue early                                                 *)
(***************************************************************************)

\* Mutant: splice(indexOf(entry), 1) without the -1 test, which removes the
\* last entry of the queue when this one has already left it.
WithoutEntrySpliceLast(q, r) ==
    IF \E i \in DOMAIN q : q[i] = r
      THEN RemoveAt(q, CHOOSE i \in DOMAIN q : q[i] = r)
      ELSE IF q = <<>> THEN q ELSE RemoveAt(q, Len(q))

\* indexOf and splice of removeEntry(): nothing happens to an absent entry.
WithoutEntry(q, r) ==
    IF \E i \in DOMAIN q : q[i] = r
      THEN RemoveAt(q, CHOOSE i \in DOMAIN q : q[i] = r)
      ELSE q

\* removeEntry() then reject(): rejecting a settled promise does nothing.
RemoveAndReject(r, code) ==
    /\ queue' = WithoutEntry(queue, r)
    /\ timer' = [timer EXCEPT ![r] = FALSE]
    /\ listening' = [listening EXCEPT ![r] = FALSE]
    /\ promise' = [promise EXCEPT ![r] = IF @ = "pending" THEN code ELSE @]
    /\ UNCHANGED <<activeCount, released>>

\* The queue timer fires.
QueueTimeout(r) ==
    /\ timer[r]
    /\ RemoveAndReject(r, "queue_timeout")

\* The signal fires.  _drain() and drainAndRejectAll() leave the listener on
\* the signal, so this may come after the promise has settled.
Abort(r) ==
    /\ listening[r]
    /\ RemoveAndReject(r, "aborted")

-----------------------------------------------------------------------------
(***************************************************************************)
(* release(), _drain() and drainAndRejectAll()                             *)
(***************************************************************************)

\* How many entries the loop of _drain() takes when n slots are in use.
DrainCount(n) ==
    IF Len(queue) <= MaxConcurrent - n THEN Len(queue) ELSE MaxConcurrent - n

\* Mutant: _drain() pops the newest entry (pop for shift).
DrainNewest(r) ==
    LET k == DrainCount(activeCount - 1)
        woken == {queue[i] : i \in Len(queue) - k + 1 .. Len(queue)}
    IN /\ queue' = SubSeq(queue, 1, Len(queue) - k)
       /\ activeCount' = activeCount - 1 + k
       /\ promise' = [q \in Requests |->
                        IF q \in woken THEN "granted" ELSE promise[q]]
       /\ timer' = [q \in Requests |-> timer[q] /\ q \notin woken]

\* The count goes down and _drain() hands the free slots to the oldest
\* entries, whose timers are cleared.
Drain(r) ==
    LET k == DrainCount(activeCount - 1)
        woken == {queue[i] : i \in 1 .. k}
    IN /\ queue' = SubSeq(queue, k + 1, Len(queue))
       /\ activeCount' = activeCount - 1 + k
       /\ promise' = [q \in Requests |->
                        IF q \in woken THEN "granted" ELSE promise[q]]
       /\ timer' = [q \in Requests |-> timer[q] /\ q \notin woken]

\* The first call of the release closure.
Release(r) ==
    /\ promise[r] = "granted"
    /\ ~released[r]
    /\ released' = [released EXCEPT ![r] = TRUE]
    /\ Drain(r)
    /\ UNCHANGED listening

\* Mutant: the closure has no "released" flag.
ReleaseTwice(r) ==
    /\ promise[r] = "granted"
    /\ released[r]
    /\ activeCount > 0
    /\ Drain(r)
    /\ UNCHANGED <<listening, released>>

\* A later call of it: the memory-pressure path of the callers calls release()
\* and their finally block calls it again.
ReleaseAgain(r) ==
    /\ promise[r] = "granted"
    /\ released[r]
    /\ UNCHANGED vars

\* gracefulShutdown() empties the queue.  Nothing is closed: later calls of
\* acquire() are served as before.
DrainAndRejectAll ==
    LET dropped == ToSet(queue)
    IN /\ queue' = <<>>
       /\ timer' = [r \in Requests |-> timer[r] /\ r \notin dropped]
       /\ promise' = [r \in Requests |->
                        IF r \in dropped THEN "shutting_down" ELSE promise[r]]
       /\ UNCHANGED <<activeCount, listening, released>>

-----------------------------------------------------------------------------
Next ==
    \/ \E r \in Requests : \/ Acquire(r)
                           \/ QueueTimeout(r)
                           \/ Abort(r)
                           \/ Release(r)
                           \/ ReleaseAgain(r)
    \/ DrainAndRejectAll

\* Every run of a simulation ends (it has its own timeout) and its caller
\* releases in a finally block.  The queue timer is left out on purpose: the
\* liveness below must come from the order of the queue.
Fairness == \A r \in Requests : WF_vars(Release(r))

Spec == Init /\ [][Next]_vars

FairSpec == Spec /\ Fairness

-----------------------------------------------------------------------------
(***************************************************************************)
(* Properties                                                              *)
(***************************************************************************)

\* The count is exactly the number of callers that hold a slot they have not
\* given back: no path of acquire, release, timeout, abort or shutdown leaks
\* a slot or gives one back twice (bridge-config.mjs:139-216).
SlotsConserved == activeCount = Cardinality(Holders)

\* A request waits only while every slot is in use: no slot stays free with a
\* caller queued behind it (release always drains, bridge-config.mjs:196-216).
NoIdleSlot == queue # <<>> => activeCount = MaxConcurrent

\* The queue holds each pending caller exactly once, with its timer armed, and
\* no caller that was answered: a settled entry that stayed would swallow the
\* next free slot (removeEntry, bridge-config.mjs:158-166).
QueueIsExact ==
    /\ ToSet(queue) = Waiting
    /\ \A i, j \in DOMAIN queue : queue[i] = queue[j] => i = j
    /\ \A r \in Requests : timer[r] <=> r \in Waiting
    /\ Len(queue) <= MaxQueueSize

\* No caller that waits has a used-up release closure.
FreshRelease == \A r \in Waiting : ~released[r]

\* The inductive invariant of the proofs.  The count is preserved because the
\* set of holders changes with it; how many entries _drain() takes is known
\* only because a non-empty queue means that every slot is in use; and that
\* the woken caller joins the holders is known only from the exact queue and
\* from its closure being fresh (_createRelease is called once per grant).
IInv == TypeOK /\ SlotsConserved /\ NoIdleSlot /\ QueueIsExact /\ FreshRelease

\* No step gives a slot to a caller while one that queued before it goes on
\* waiting (push and shift, bridge-config.mjs:190 and 207).
GrantsInOrder ==
    [][\A i, j \in DOMAIN queue :
          (i < j /\ promise'[queue[j]] = "granted")
             => promise'[queue[i]] # "pending"]_vars

\* Every caller that waits is answered, as long as the holders release, even
\* if its timer never fires: newcomers cannot starve it.
WaitersAnswered ==
    \A r \in Requests : (promise[r] = "pending") ~> (promise[r] # "pending")

\* The semaphore implements the pool: its holders are the callers that were
\* granted a slot and have not released it, its waiting callers those whose
\* promise is pending.
Pool == INSTANCE SlotPool WITH holders <- Holders, waiting <- Waiting

\* Every behaviour of acquire, release, timeouts, aborts and shutdown is one of
\* the pool (bridge-config.mjs:105-229).
ImplementsSlotPool == Pool!Spec
=============================================================================
