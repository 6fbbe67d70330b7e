-------------------------- MODULE IntentBridgeStep --------------------------
(***************************************************************************)
(* A leg that crosses chains by an intent (IntentBridgeStep.tsx): the page *)
(* asks for a quote, opens an escrow order on the source chain, polls what *)
(* becomes of it, and when a solver has delivered on the vault's chain the *)
(* user deposits what arrived.  The step sits in the card of its leg and   *)
(* reports to the queue, whose state decides whether the step stays        *)
(* mounted; its handlers run on when it is gone.                           *)
(*                                                                         *)
(*   step[l]       the component of leg l: stage, the order it has built   *)
(*                 and is about (0: none), whether openTxHash is set, the  *)
(*                 balance read before opening and the amount delivered    *)
(*   legOf[o]      the leg an order belongs to (0: not in use)             *)
(*   handler[o]    the handler at work on order o and the values it has    *)
(*                 closed over                                             *)
(*   seen[o]       the order state last polled                             *)
(*   chain[o], due[o], deposits[o]    the order, whether it has passed     *)
(*                 "expires", and the deposits sent for it                 *)
(*   balance       the user's underlying on the vault's chain              *)
(*   toggles[l]    how often the user has left the intent route and come   *)
(*                 back, which mounts a new step                           *)
(*                                                                         *)
(* Quotes, chain switches and approvals are steps that succeed or fail.    *)
(* All legs go to vaults with the same underlying.  The user clicks        *)
(* nothing while a handler of the order at hand is at work.                *)
(***************************************************************************)
EXTENDS LegQueue, Sequences, FiniteSetsExt

CONSTANTS NumOrders,      \* bound: orders opened
          Prior,          \* underlying the user holds before
          Amount,         \* what a filled order delivers
          MaxDeposits,    \* bound: deposits sent
          MaxToggles      \* bound: route switches of a leg

ASSUME StepAssumption ==
    /\ NumOrders \in Nat \ {0} /\ Amount \in Nat \ {0}
    /\ Prior \in Nat /\ MaxDeposits \in Nat /\ MaxToggles \in Nat

VARIABLES step, legOf, handler, seen, chain, due, deposits, balance, toggles

chainVars == <<chain, due, deposits, balance>>
stepVars == <<legs, currentIndex, step, legOf, handler, seen, chainVars, toggles>>

Orders == 1..NumOrders

\* "refunded" and "deposit-done" take the step off the page at once;
\* "deposit-approving" is part of "deposit-quoting".
Stages == {"idle", "quoting", "quoted", "approving", "signing", "open",
           "deposit-quoting", "deposit-signing", "deposit-failed", "failed", "refunding"}
PostOpen == {"open", "deposit-quoting", "deposit-signing", "deposit-failed"}

Awaits == {"none", "preread", "approve", "receipt", "refund",
           "deposit-read", "deposit-quote", "deposit-receipt"}
ChainStates == {"none", "sent", "reverted", "escrowed", "filled", "refunded"}
Delivered == {"Delivered", "Settled"}

Fresh == [stage |-> "idle", order |-> 0, sent |-> FALSE, pre |-> 0, amount |-> 0]
Idle == [pc |-> "none", pre |-> 0, amount |-> 0]

StepInit ==
    /\ QueueInit
    /\ step = [l \in Legs |-> Fresh] /\ toggles = [l \in Legs |-> 0]
    /\ legOf = [o \in Orders |-> 0] /\ handler = [o \in Orders |-> Idle]
    /\ seen = [o \in Orders |-> "Open"] /\ chain = [o \in Orders |-> "none"]
    /\ due = [o \in Orders |-> FALSE] /\ deposits = [o \in Orders |-> <<>>]
    /\ balance = Prior

Mounted(l) == ShouldRenderFlow(legs, currentIndex, l)
Hosted(o) == legOf[o] # 0 /\ step[legOf[o]].order = o
Mine(o) == step[legOf[o]]
Ready(o) == handler[o].pc = "none"

\* The page shows the legs ls, at leg current, with the steps st: a step whose
\* flow is not rendered is gone.
Show(ls, current, st) ==
    /\ legs' = ls /\ currentIndex' = current
    /\ step' = [l \in Legs |-> IF ShouldRenderFlow(ls, current, l) THEN st[l] ELSE Fresh]

\* The step that started the handler of order o, if it is still there, is
\* set to s, and event e goes to the leg in any case.
Tell(o, e, s) ==
    Show([legs EXCEPT ![legOf[o]] = ApplyExecutionEvent(@, e)], currentIndex,
         IF Hosted(o) THEN [step EXCEPT ![legOf[o]] = s] ELSE step)

\* The same without an event.
Set(o, s) == Show(legs, currentIndex, IF Hosted(o) THEN [step EXCEPT ![legOf[o]] = s] ELSE step)

At(o, pc) == handler' = [handler EXCEPT ![o].pc = pc]
Over(o) == handler' = [handler EXCEPT ![o] = Idle]

-----------------------------------------------------------------------------
(***************************************************************************)
(* Quote and open                                                          *)
(***************************************************************************)

\* Mutant: the quote is asked for again although an order was broadcast.
HandleQuoteAgain(l) ==
    /\ Mounted(l) /\ step[l].stage \in {"idle", "failed"}
    /\ step' = [step EXCEPT ![l] = [Fresh EXCEPT !.stage = "quoting"]]
    /\ UNCHANGED <<legs, currentIndex, legOf, handler, seen, chainVars, toggles>>

\* "Get intent quote" and "Retry intent quote".
HandleQuote(l) ==
    /\ Mounted(l) /\ step[l].stage \in {"idle", "failed"} /\ ~step[l].sent
    /\ step' = [step EXCEPT ![l].stage = "quoting"]
    /\ UNCHANGED <<legs, currentIndex, legOf, handler, seen, chainVars, toggles>>

\* The order is built, or the quote fails, of which the queue hears nothing.
QuoteEnds(l) ==
    /\ step[l].stage = "quoting"
    /\ \E s \in {"quoted", "failed"} : step' = [step EXCEPT ![l].stage = s]
    /\ UNCHANGED <<legs, currentIndex, legOf, handler, seen, chainVars, toggles>>

\* "Open order": the stage stays "quoted" until the balance has been read.
HandleOpen(l) ==
    /\ Mounted(l) /\ step[l].stage = "quoted" /\ step[l].order = 0
    /\ \E o \in Orders :
          /\ legOf[o] = 0 /\ \A p \in Orders : legOf[p] = 0 => o <= p
          /\ legOf' = [legOf EXCEPT ![o] = l]
          /\ step' = [step EXCEPT ![l].order = o]
          /\ At(o, "preread")
    /\ UNCHANGED <<legs, currentIndex, seen, chainVars, toggles>>

\* The catch block: the leg fails for good, wherever the handler stood.
OpenFails(o) ==
    /\ Over(o)
    /\ legOf' = IF chain[o] = "none" THEN [legOf EXCEPT ![o] = 0] ELSE legOf
    /\ Tell(o, Failed(FALSE), [Mine(o) EXCEPT !.stage = "failed"])
    /\ UNCHANGED <<seen, chainVars, toggles>>

\* Mutant: a balance that cannot be read is taken for zero.
PreReadZero(o) ==
    /\ handler[o].pc = "preread"
    /\ At(o, "approve")
    /\ Set(o, [Mine(o) EXCEPT !.stage = "approving", !.pre = 0])
    /\ UNCHANGED <<legOf, seen, chainVars, toggles>>

\* The fill window is still open and the destination balance could be read.
PreRead(o) ==
    /\ handler[o].pc = "preread"
    /\ \/ OpenFails(o)
       \/ /\ ~due[o] /\ At(o, "approve")
          /\ Set(o, [Mine(o) EXCEPT !.stage = "approving", !.pre = balance])
          /\ UNCHANGED <<legOf, seen, chainVars, toggles>>

\* The escrow is approved and open() sent.
Broadcasts(o) ==
    /\ handler[o].pc = "approve"
    /\ \/ OpenFails(o)
       \/ /\ At(o, "receipt") /\ chain' = [chain EXCEPT ![o] = "sent"]
          /\ Tell(o, Broadcast("intent-open"), [Mine(o) EXCEPT !.stage = "signing", !.sent = TRUE])
          /\ UNCHANGED <<legOf, seen, due, deposits, balance, toggles>>

\* The receipt arrives with the order's id, or the wait ends: reverted, timed
\* out, or without an id that can be decoded.
Receipt(o) ==
    /\ handler[o].pc = "receipt"
    /\ \/ OpenFails(o)
       \/ /\ chain[o] \notin {"sent", "reverted"} /\ Over(o)
          /\ Tell(o, Opened, [Mine(o) EXCEPT !.stage = "open"])
          /\ UNCHANGED <<legOf, seen, chainVars, toggles>>

-----------------------------------------------------------------------------
(***************************************************************************)
(* The order service                                                       *)
(***************************************************************************)

\* What the service may newly answer.  "Open" stands for all it says before
\* the outcome; it is behind the chain, but does not take back an outcome.
Reported(o) ==
    CASE chain[o] = "escrowed" ->
            IF seen[o] # "Open" THEN {} ELSE {"Failed"} \cup (IF due[o] THEN {"Expired"} ELSE {})
      [] chain[o] = "filled" -> {"Settled"} \cup (IF seen[o] = "Settled" THEN {} ELSE {"Delivered"})
      [] chain[o] = "refunded" -> {"Refunded"}
      [] OTHER -> {}

\* Mutant: nothing is asked once the order has passed its expiry.
PollUntilDue(l) ==
    LET o == step[l].order
    IN  /\ o # 0 /\ step[l].stage \in PostOpen \cup {"refunding"} /\ ~due[o]
        /\ \E s \in Reported(o) \ {seen[o]} :
              /\ seen' = [seen EXCEPT ![o] = s]
              /\ Tell(o, Status(s), step[l])
        /\ UNCHANGED <<legOf, handler, chainVars, toggles>>

\* A poll of a mounted step with an open order tells the queue of a change.
\* A terminal state ends the interval, but not the refetch on window focus.
Poll(l) ==
    LET o == step[l].order
    IN  /\ o # 0 /\ step[l].stage \in PostOpen \cup {"refunding"}
        /\ \E s \in Reported(o) \ {seen[o]} :
              /\ seen' = [seen EXCEPT ![o] = s]
              /\ Tell(o, Status(s), step[l])
        /\ UNCHANGED <<legOf, handler, chainVars, toggles>>

-----------------------------------------------------------------------------
(***************************************************************************)
(* Refund                                                                  *)
(***************************************************************************)

\* The Refund button of the timeline, which the clock alone enables.
HandleRefund(l) ==
    LET o == step[l].order
    IN  /\ o # 0 /\ step[l].stage \in PostOpen /\ due[o] /\ Ready(o)
        /\ At(o, "refund")
        /\ step' = [step EXCEPT ![l].stage = "refunding"]
        /\ UNCHANGED <<legs, currentIndex, legOf, seen, chainVars, toggles>>

\* It is mined and found so; or it is rejected, reverts or is mined too late,
\* of which the queue hears nothing.
RefundEnds(o) ==
    /\ handler[o].pc = "refund" /\ Over(o)
    /\ \/ /\ chain[o] = "escrowed"
          /\ chain' = [chain EXCEPT ![o] = "refunded"]
          /\ \/ Tell(o, Status("Refunded"), Mine(o))
             \/ Set(o, [Mine(o) EXCEPT !.stage = "failed"])
       \/ Set(o, [Mine(o) EXCEPT !.stage = "failed"]) /\ UNCHANGED chain
    /\ UNCHANGED <<legOf, seen, due, deposits, balance, toggles>>

-----------------------------------------------------------------------------
(***************************************************************************)
(* Deposit                                                                 *)
(***************************************************************************)

\* The effect that measures what was delivered, while the stage is "open".
ReadDelta(l) ==
    /\ step[l].order # 0 /\ step[l].stage = "open" /\ step[l].amount = 0
    /\ seen[step[l].order] \in Delivered
    /\ balance > step[l].pre
    /\ step' = [step EXCEPT ![l].amount = balance - step[l].pre]
    /\ UNCHANGED <<legs, currentIndex, legOf, handler, seen, chainVars, toggles>>

DepositOffered(l) ==
    /\ step[l].order # 0 /\ step[l].stage \in {"open", "deposit-failed"}
    /\ seen[step[l].order] \in Delivered

\* "Complete deposit", "Re-check & deposit" and "Retry deposit".
HandleDeposit(l) ==
    LET o == step[l].order
    IN  /\ DepositOffered(l) /\ Ready(o)
        /\ MapThenSumSet(LAMBDA p : Len(deposits[p]), Orders) < MaxDeposits
        /\ handler' = [handler EXCEPT ![o] = [pc |-> "deposit-read", pre |-> step[l].pre,
                                              amount |-> step[l].amount]]
        /\ UNCHANGED <<legs, currentIndex, step, legOf, seen, chainVars, toggles>>

\* The user may try again.
DepositFails(o) ==
    /\ Over(o)
    /\ Tell(o, Failed(TRUE), [Mine(o) EXCEPT !.stage = "deposit-failed"])
    /\ UNCHANGED <<legOf, seen, chainVars, toggles>>

\* The balance is read again unless the amount is known.
DepositRead(o) ==
    /\ handler[o].pc = "deposit-read"
    /\ \/ DepositFails(o)
       \/ LET h == handler[o]
              amount == IF h.amount > 0 THEN h.amount ELSE balance - h.pre
          IN  /\ amount > 0
              /\ handler' = [handler EXCEPT ![o].pc = "deposit-quote", ![o].amount = amount]
              /\ Set(o, [Mine(o) EXCEPT !.stage = "deposit-quoting", !.amount = amount])
              /\ UNCHANGED <<legOf, seen, chainVars, toggles>>

\* Quote, chain switch and approval, then the transaction.
DepositSend(o) ==
    /\ handler[o].pc = "deposit-quote"
    /\ \/ DepositFails(o)
       \/ /\ At(o, "deposit-receipt")
          /\ deposits' = [deposits EXCEPT ![o] =
                             Append(@, [state |-> "sent", amount |-> handler[o].amount])]
          /\ Tell(o, Broadcast("intent-deposit"), [Mine(o) EXCEPT !.stage = "deposit-signing"])
          /\ UNCHANGED <<legOf, seen, chain, due, balance, toggles>>

LastDeposit(o) == deposits[o][Len(deposits[o])]

\* Mined; or reverted, timed out, or lost by the provider.
DepositReceipt(o) ==
    /\ handler[o].pc = "deposit-receipt"
    /\ \/ DepositFails(o)
       \/ /\ LastDeposit(o).state = "mined" /\ Over(o)
          /\ Tell(o, Confirmed, Mine(o))
          /\ UNCHANGED <<legOf, seen, chainVars, toggles>>

-----------------------------------------------------------------------------
(***************************************************************************)
(* The user and the queue                                                  *)
(***************************************************************************)

\* The switch, or "Try Composer route instead", and back: a new step.
Toggle(l) ==
    /\ Mounted(l) /\ step[l] # Fresh
    /\ toggles[l] < MaxToggles
    /\ step' = [step EXCEPT ![l] = Fresh]
    /\ toggles' = [toggles EXCEPT ![l] = @ + 1]
    /\ UNCHANGED <<legs, currentIndex, legOf, handler, seen, chainVars>>

NextStep ==
    /\ NextStepEnabled
    /\ Show(legs, NextIndex(legs, currentIndex), step)
    /\ UNCHANGED <<legOf, handler, seen, chainVars, toggles>>

\* "Skip & continue", confirmed where funds may be stuck.
Skip ==
    /\ SkipOffered
    /\ Show(MadeFinal, NextIndex(MadeFinal, currentIndex), step)
    /\ UNCHANGED <<legOf, handler, seen, chainVars, toggles>>

-----------------------------------------------------------------------------
(***************************************************************************)
(* The chains                                                              *)
(***************************************************************************)

ChainStep(o, from, to) ==
    /\ chain[o] = from /\ chain' = [chain EXCEPT ![o] = to]
    /\ UNCHANGED <<legs, currentIndex, step, legOf, handler, seen, due, deposits, toggles>>

\* open() is mined, however late.
OpenMined(o) ==
    \E s \in {"escrowed", "reverted"} : ChainStep(o, "sent", s) /\ UNCHANGED balance

\* A solver fills before the deadline, which lies before expiry.  When it is
\* paid ("Settled") makes no difference here.
Fill(o) == ~due[o] /\ ChainStep(o, "escrowed", "filled") /\ balance' = balance + Amount

\* Anyone may refund an expired order.
RefundByOther(o) == due[o] /\ ChainStep(o, "escrowed", "refunded") /\ UNCHANGED balance

\* An order passes "expires".
Expire(o) ==
    /\ legOf[o] # 0 /\ ~due[o] /\ chain[o] # "reverted"
    /\ due' = [due EXCEPT ![o] = TRUE]
    /\ UNCHANGED <<legs, currentIndex, step, legOf, handler, seen, chain, deposits, balance, toggles>>

DepositMined(o) ==
    \E k \in 1..Len(deposits[o]) :
        /\ deposits[o][k].state = "sent"
        /\ \/ /\ balance >= deposits[o][k].amount
              /\ balance' = balance - deposits[o][k].amount
              /\ deposits' = [deposits EXCEPT ![o][k].state = "mined"]
           \/ deposits' = [deposits EXCEPT ![o][k].state = "reverted"] /\ UNCHANGED balance
        /\ UNCHANGED <<legs, currentIndex, step, legOf, handler, seen, chain, due, toggles>>

-----------------------------------------------------------------------------
HandlerStep(o) ==
    \/ PreRead(o) \/ Broadcasts(o) \/ Receipt(o) \/ RefundEnds(o)
    \/ DepositRead(o) \/ DepositSend(o) \/ DepositReceipt(o)

StepNext ==
    \/ \E l \in Legs :
          \/ HandleQuote(l) \/ QuoteEnds(l) \/ HandleOpen(l) \/ Poll(l)
          \/ HandleRefund(l) \/ ReadDelta(l) \/ HandleDeposit(l) \/ Toggle(l)
    \/ NextStep \/ Skip
    \/ \E o \in Orders :
          \/ HandlerStep(o)
          \/ OpenMined(o) \/ Fill(o) \/ RefundByOther(o) \/ Expire(o)
          \/ DepositMined(o)

StepSpec == StepInit /\ [][StepNext]_stepVars

\* Polls go on every few seconds and time passes.  Nothing is asked of the
\* user, of a solver or of the wallet.
StepFairness ==
    /\ WF_stepVars(\E l \in Legs : Poll(l))
    /\ WF_stepVars(\E o \in Orders : Expire(o))

StepFairSpec == StepSpec /\ StepFairness

-----------------------------------------------------------------------------
(***************************************************************************)
(* Properties                                                              *)
(***************************************************************************)

Component == [stage : Stages, order : 0..NumOrders, sent : BOOLEAN, pre : Nat, amount : Nat]

\* Type invariant.  It also says that an order polled or refunded has been
\* broadcast, and that a step about to deposit has measured an amount.
StepTypeOK ==
    /\ QueueTypeOK
    /\ step \in [Legs -> Component] /\ legOf \in [Orders -> 0..NumLegs]
    /\ handler \in [Orders -> [pc : Awaits, pre : Nat, amount : Nat]]
    /\ seen \in [Orders -> OrderState] /\ chain \in [Orders -> ChainStates]
    /\ due \in [Orders -> BOOLEAN] /\ balance \in Nat
    /\ deposits \in [Orders -> Seq([state : {"sent", "mined", "reverted"}, amount : Nat \ {0}])]
    /\ toggles \in [Legs -> 0..MaxToggles]
    /\ \A l \in Legs : step[l].stage \in PostOpen \cup {"refunding"} =>
          step[l].sent /\ chain[step[l].order] \notin {"none", "sent", "reverted"}
    /\ \A l \in Legs : step[l].stage \in {"deposit-quoting", "deposit-signing"} =>
          step[l].amount > 0

\* Whatever fails or comes too late, a leg whose user stays on the intent route
\* broadcasts one order: the source funds are not escrowed twice.
OneOrderPerLeg ==
    \A l \in Legs : toggles[l] = 0 =>
        Cardinality({o \in Orders : legOf[o] = l /\ chain[o] # "none"}) <= 1

\* No deposit is larger than what the orders of the queue have delivered,
\* although the user holds more of the same token.
EachDepositIsDelivered ==
    \A o \in Orders : \A k \in 1..Len(deposits[o]) :
        deposits[o][k].amount <= Amount * Cardinality({p \in Orders : chain[p] = "filled"})

\* The queue calls a leg done only after a deposit for it was mined, and
\* refunded only after an escrow of it was refunded.
OutcomesAreReal ==
    \A l \in Legs :
        /\ legs[l].status = "done" =>
              \E o \in Orders : legOf[o] = l /\ \E k \in 1..Len(deposits[o]) :
                  deposits[o][k].state = "mined"
        /\ legs[l].status = "refunded" =>
              \E o \in Orders : legOf[o] = l /\ chain[o] = "refunded"

\* What steps and queue hold and show agrees with the chain: amounts measured and
\* deposited were delivered, outcomes happened.
StepInv == StepTypeOK /\ EachDepositIsDelivered /\ OutcomesAreReal

\* A step that has shown a delivery stays on the page, with what it takes to
\* deposit, until the deposit is confirmed or the user moves on: failures,
\* late answers and order states never take it away.
DeliveredKeepsStep ==
    [][\A l \in Legs :
          /\ toggles[l] = 0 /\ step[l].order # 0 /\ seen[step[l].order] \in Delivered
          /\ step'[l] = Fresh
          => toggles'[l] # 0 \/ currentIndex' # currentIndex \/ legs'[l].status = "done"]_stepVars

Unanswered(l) == step[l].stage = "open" /\ seen[step[l].order] = "Open"

\* A step that shows an open order learns its outcome, even if no solver ever
\* turns up.
OpenIsAnswered ==
    (\E l \in Legs : Unanswered(l)) ~> (\A l \in Legs : ~Unanswered(l))
=============================================================================
