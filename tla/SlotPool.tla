------------------------------ MODULE SlotPool ------------------------------
(***************************************************************************)
(* What the simulation semaphore promises the callers of acquire(),        *)
(* without its queue, timers, signals or counters: a pool of MaxConcurrent *)
(* slots.  A slot that is given back passes to a waiting caller in the     *)
(* same step, so nobody waits beside a free slot.                          *)
(***************************************************************************)
EXTENDS Naturals, FiniteSets

CONSTANTS Requests, MaxConcurrent, MaxQueueSize

VARIABLES holders, waiting

poolVars == <<holders, waiting>>

Init == holders = {} /\ waiting = {}

\* A caller finds a free slot.
Enter(r) ==
    /\ r \notin holders \cup waiting
    /\ Cardinality(holders) < MaxConcurrent
    /\ holders' = holders \cup {r}
    /\ UNCHANGED waiting

\* A caller finds every slot taken and room to wait.
Wait(r) ==
    /\ r \notin holders \cup waiting
    /\ Cardinality(holders) = MaxConcurrent
    /\ Cardinality(waiting) < MaxQueueSize
    /\ waiting' = waiting \cup {r}
    /\ UNCHANGED holders

\* A caller stops waiting without a slot.
GiveUp(r) ==
    /\ r \in waiting
    /\ waiting' = waiting \ {r}
    /\ UNCHANGED holders

\* A holder leaves and nobody waits, or one that waits takes over.
Leave(r) ==
    /\ r \in holders
    /\ \/ waiting = {} /\ holders' = holders \ {r} /\ UNCHANGED waiting
       \/ \E w \in waiting : /\ holders' = (holders \ {r}) \cup {w}
                             /\ waiting' = waiting \ {w}

\* Everybody who waits is sent away.
Clear == waiting' = {} /\ UNCHANGED holders

Next == Clear \/ \E r \in Requests : Enter(r) \/ Wait(r) \/ GiveUp(r) \/ Leave(r)

Spec == Init /\ [][Next]_poolVars
=============================================================================
