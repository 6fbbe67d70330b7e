------------------------------ MODULE LegQueue ------------------------------
(***************************************************************************)
(* The execution queue of a sweep into vaults: one leg per source asset,   *)
(* worked off one after the other (legsReducer of executionMachine.ts,     *)
(* shown by ExecutionQueue.tsx).                                           *)
(*                                                                         *)
(*   legs[i]         the leg's status, and whether the flow on its card    *)
(*                   can still recover from a failure                      *)
(*   currentIndex    the leg at work; 0 stands for the code's -1           *)
(*                                                                         *)
(* Only legs that go through intents are modelled, so the phases of the    *)
(* composer flows are left out, and of a leg the hashes, labels and        *)
(* messages shown on its card.                                             *)
(***************************************************************************)
EXTENDS Integers, FiniteSets

CONSTANT NumLegs
ASSUME QueueAssumption == NumLegs \in Nat \ {0}

VARIABLES legs, currentIndex

Legs == 1..NumLegs
LegStatus == {"pending", "intent-open", "intent-delivered", "depositing",
              "done", "failed", "refunded"}
OrderState == {"Open", "Delivered", "Settled", "Expired", "Failed", "Refunded"}

QueueTypeOK ==
    /\ legs \in [Legs -> [status : LegStatus, recoverable : BOOLEAN]]
    /\ currentIndex \in 0..NumLegs

\* A queue that has just been built and started.
QueueInit ==
    /\ legs = [l \in Legs |-> [status |-> "pending", recoverable |-> FALSE]]
    /\ currentIndex = 1

-----------------------------------------------------------------------------
(***************************************************************************)
(* Execution events: what the flow of a leg tells the queue                *)
(***************************************************************************)

Broadcast(phase) == [type |-> "tx-broadcast", phase |-> phase]
Opened == [type |-> "intent-opened"]
Status(state) == [type |-> "intent-status", status |-> state]
Confirmed == [type |-> "confirmed"]
Failed(recoverable) == [type |-> "failed", recoverable |-> recoverable]

IsTerminal(status) == status \in {"done", "failed", "refunded"}

IntentStatusToLegStatus(state, current) ==
    CASE state = "Refunded" -> "refunded"
      [] state \in {"Failed", "Expired"} -> "failed"
      [] state \in {"Delivered", "Settled"} ->
            IF current \in {"depositing", "done"} THEN current ELSE "intent-delivered"
      [] OTHER ->
            IF IsTerminal(current) \/ current = "depositing" THEN current ELSE "intent-open"

To(leg, status) == [leg EXCEPT !.status = status, !.recoverable = FALSE]

\* Mutant: a failure of the deposit is as final as one of the opening.
ApplyExecutionEventFinal(leg, e) ==
    CASE e.type = "tx-broadcast" ->
            To(leg, IF e.phase = "intent-deposit" THEN "depositing" ELSE "intent-open")
      [] e.type = "intent-opened" -> To(leg, "intent-open")
      [] e.type = "intent-status" ->
            LET s == IntentStatusToLegStatus(e.status, leg.status)
            IN  [status |-> s, recoverable |-> s = "failed" /\ e.status = "Expired"]
      [] e.type = "confirmed" -> To(leg, "done")
      [] e.type = "failed" -> To(leg, "failed")

\* The event "delivered" follows the status that tells of the delivery and
\* then changes nothing but what the card displays.
ApplyExecutionEvent(leg, e) ==
    CASE e.type = "tx-broadcast" ->
            To(leg, IF e.phase = "intent-deposit" THEN "depositing" ELSE "intent-open")
      [] e.type = "intent-opened" -> To(leg, "intent-open")
      [] e.type = "intent-status" ->
            LET s == IntentStatusToLegStatus(e.status, leg.status)
            IN  [status |-> s, recoverable |-> s = "failed" /\ e.status = "Expired"]
      [] e.type = "confirmed" -> To(leg, "done")
      [] e.type = "failed" -> [status |-> "failed", recoverable |-> e.recoverable]

\* Where NEXT leads: on from a done or failed leg, to the next one not begun.
NextIndex(ls, current) ==
    IF current = 0 \/ ls[current].status \notin {"done", "failed"} THEN current
    ELSE LET later == {l \in Legs : l > current /\ ls[l].status = "pending"}
         IN  IF later = {} THEN 0 ELSE CHOOSE l \in later : \A k \in later : l <= k

-----------------------------------------------------------------------------
(***************************************************************************)
(* What the queue shows                                                    *)
(***************************************************************************)

IsLegTerminal(leg) ==
    leg.status \in {"done", "refunded"} \/ (leg.status = "failed" /\ ~leg.recoverable)

AllDone == \A l \in Legs : IsLegTerminal(legs[l])
CanAdvance == currentIndex # 0 /\ IsLegTerminal(legs[currentIndex])
NextStepEnabled == NumLegs > 1 /\ ~AllDone /\ CanAdvance

\* Is the flow of leg l on the page, with queue ls at leg current?
ShouldRenderFlow(ls, current, l) ==
    /\ l = current
    /\ ls[l].status \notin {"done", "refunded"}
    /\ ls[l].status = "failed" => ls[l].recoverable

\* The buttons that leave the current leg: "Next Step", "Skip & continue" of
\* a final failure, and, once confirmed, of a recoverable one, which is made
\* final first.
SkipOffered == currentIndex # 0 /\ legs[currentIndex].status = "failed"
MadeFinal == [legs EXCEPT ![currentIndex].recoverable = FALSE]
=============================================================================
