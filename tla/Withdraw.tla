-------------------------------- MODULE Withdraw --------------------------------
(***************************************************************************)
(* The withdrawal of a vault position (WithdrawFlow.tsx): redeem the shares *)
(* and, when the destination differs from what the vault pays, route the    *)
(* measured proceeds by a composer route (withdrawComposerRoute.ts) or by   *)
(* an intent order (WithdrawIntentRouteStep.tsx).                           *)
(*                                                                         *)
(* The wallet calls are asynchronous and outlive the component that made    *)
(* them: `live' says what a call can still write to, the step it was made   *)
(* in, the flow around it, or nothing.  The positions list mounts one flow  *)
(* and onComplete closes whichever is open.  A refund whose step is gone    *)
(* still calls onRefunded, which may free a form another call holds:        *)
(* `freed' remembers that.                                                  *)
(***************************************************************************)
EXTENDS Integers, Sequences

CONSTANTS MaxCalls,   \* bound: wallet calls under way together
          MaxTxs,     \* bound: transactions broadcast
          MaxOrders,  \* bound: orders built
          Dests,      \* destinations the user may choose, see Destinations
          Shares,     \* redeems the position is good for
          Other       \* underlying the wallet holds before

\* what the vault pays, another token of its chain, or another chain
Destinations == {"same", "token", "chain"}
ASSUME WithdrawAssumption ==
  /\ Dests \subseteq Destinations /\ Shares \in Nat /\ Other \in Nat
  /\ MaxTxs \in Nat /\ MaxOrders \in Nat /\ MaxCalls \in Nat

Calls == 1..MaxCalls
NoTx == 0
NoOrder == 0
NoCall == [kind |-> "none", at |-> "none", live |-> "gone", amt |-> 0, of |-> NoTx,
           order |-> NoOrder, dest |-> "same", pre |-> 0, tx |-> NoTx]

VARIABLES
  open,      \* the flow is mounted
  flow,      \* flowState
  dest,      \* the destination token
  delta,     \* redeemedAmountRaw, 0 for null
  measured,  \* history: the redeem whose receipt delta was measured after
  redeemTx,  \* redeemTxHash
  mode,      \* routeMode
  panel,     \* composerRouteState: "stuck" is failed with failedAfterBroadcast
  stage,     \* stage of the intent step, "none" when it is not mounted
  nonce,     \* the nonce of the last order built (nextOrderNonce)
  order,     \* the order the step built, by its nonce
  openTx,    \* its openTxHash
  orderId,   \* the order whose Open event it read
  call,      \* call[c]: a wallet call under way
  tx,        \* the transactions that were broadcast
  shares, wallet,  \* external: the user's shares and underlying
  outcome,   \* history: how the last finished withdrawal was reported
  freed      \* history: a refund left behind has freed a form that was held

formVars == <<open, dest, delta, measured, redeemTx, mode>>
flowVars == <<formVars, flow, panel>>
orderVars == <<order, openTx, orderId>>
stepVars == <<stage, orderVars>>
chainVars == <<tx, shares, wallet>>
wVars == <<flowVars, stepVars, nonce, call, chainVars, outcome, freed>>

BusyStates == {"redeem-approving", "simulating", "redeeming", "route-quoting",
               "composer-quoted", "composer-sending", "composer-settling", "intent-open"}
Busy == flow \in BusyStates
ShowsRoute == dest # "same" /\ (delta # 0 \/ flow = "redeemed")
OnPanel == open /\ ShowsRoute /\ delta # 0 /\ mode = "composer"

Unreported == [how |-> "none", of |-> NoTx, by |-> 0]

Init ==
  /\ open = TRUE /\ flow = "idle" /\ dest = "same" /\ delta = 0 /\ measured = NoTx /\ redeemTx = NoTx
  /\ mode = "intent" /\ panel = "idle"
  /\ stage = "none" /\ order = NoOrder /\ openTx = NoTx /\ orderId = NoOrder
  /\ call = [c \in Calls |-> NoCall] /\ tx = << >> /\ nonce = 0
  /\ shares = Shares /\ wallet = Other /\ outcome = Unreported /\ freed = FALSE

-----------------------------------------------------------------------------
(* Mounting and calls                                                       *)

NoStep == stage' = "none" /\ order' = NoOrder /\ openTx' = NoTx /\ orderId' = NoOrder
FreshStep == stage' = "idle" /\ order' = NoOrder /\ openTx' = NoTx /\ orderId' = NoOrder

\* the calls once the step, or the whole flow, is unmounted
LeftByStep(f) ==
  [c \in Calls |-> IF f[c].live = "step" THEN [f[c] EXCEPT !.live = "flow"] ELSE f[c]]
LeftByFlow(f) == [c \in Calls |-> [f[c] EXCEPT !.live = "gone"]]

Start(c, kind, at, live) ==
  /\ call[c] = NoCall
  /\ call' = [call EXCEPT ![c] = [kind |-> kind, at |-> at, live |-> live, amt |-> delta,
                of |-> IF kind = "redeem" THEN NoTx ELSE redeemTx,
                order |-> order, dest |-> dest, pre |-> 0, tx |-> NoTx]]
At(c, kind, at) == call[c].kind = kind /\ call[c].at = at
Live(c) == call[c].live # "gone"
Moves(c, at) == call' = [call EXCEPT ![c].at = at]
Ends(c) == [call EXCEPT ![c] = NoCall]

Blank(f) ==
  /\ flow' = f /\ delta' = 0 /\ measured' = NoTx /\ redeemTx' = NoTx /\ panel' = "idle" /\ NoStep

\* onComplete closes the flow that is open, whoever calls it
Unmount(f) ==
  /\ open' = FALSE /\ Blank("idle") /\ dest' = "same" /\ mode' = "intent" /\ call' = LeftByFlow(f)
\* a redeem is reported, by the route or the order that `by' names
Complete(how, of, by, f) == Unmount(f) /\ outcome' = [how |-> how, of |-> of, by |-> by]

\* the wallet signs and sends; the call goes on to wait for the receipt; a route
\* names the chain it leads to
Broadcast(c, kind, at) ==
  /\ Len(tx) < MaxTxs
  /\ tx' = Append(tx, [kind |-> kind, st |-> "pending", amt |-> call[c].amt,
                       of |-> call[c].of, order |-> call[c].order,
                       dest |-> IF kind = "route" THEN call[c].dest ELSE "same"])
  /\ call' = [call EXCEPT ![c].at = at, ![c].tx = Len(tx')]
  /\ UNCHANGED <<shares, wallet>>
Txs == DOMAIN tx
Mined(c) == tx[call[c].tx].st \notin {"pending", "reverted"}

-----------------------------------------------------------------------------
(* The form                                                                 *)

Open ==
  /\ ~open /\ open' = TRUE /\ outcome' = Unreported
  /\ UNCHANGED <<flow, dest, delta, measured, redeemTx, mode, panel, stepVars, call, chainVars>>

\* the close button works at any time
Close == open /\ Unmount(call) /\ UNCHANGED <<chainVars, outcome>>

\* resetRouteState after an edit of the amount
EditAmount ==
  /\ open /\ ~Busy /\ Blank("idle") /\ call' = LeftByStep(call)
  /\ UNCHANGED <<open, dest, mode, chainVars, outcome>>

ChooseDestination(d) ==
  /\ open /\ ~Busy /\ delta = 0 /\ d # dest
  /\ dest' = d /\ mode' = "intent" /\ Blank("idle")
  /\ UNCHANGED <<open, call, chainVars, outcome>>

\* handleApprove and handleSimulate hold the form until the wallet or the
\* simulation answers
Prepare(f) ==
  /\ open /\ ~Busy /\ ~ShowsRoute /\ f \in {"redeem-approving", "simulating"} /\ flow' = f
  /\ UNCHANGED <<formVars, panel, stepVars, call, chainVars, outcome>>
Prepared ==
  /\ flow \in {"redeem-approving", "simulating"} /\ flow' \in {"idle", "error"}
  /\ UNCHANGED <<formVars, panel, stepVars, call, chainVars, outcome>>

-----------------------------------------------------------------------------
(* handleExecute: the redeem                                                *)

Execute(c) ==
  /\ open /\ ~Busy /\ ~ShowsRoute /\ flow' = "redeeming"
  /\ Start(c, "redeem", IF dest = "same" THEN "send" ELSE "pre", "flow")
  /\ UNCHANGED <<formVars, panel, stepVars, chainVars, outcome>>

ReadBefore(c) ==
  /\ At(c, "redeem", "pre")
  /\ call' = [call EXCEPT ![c].at = "send", ![c].pre = wallet]
  /\ UNCHANGED <<flowVars, stepVars, chainVars, outcome>>

SendRedeem(c) ==
  /\ At(c, "redeem", "send")
  /\ Broadcast(c, "redeem", "receipt")
  /\ redeemTx' = IF Live(c) THEN Len(tx') ELSE redeemTx
  /\ UNCHANGED <<open, flow, dest, delta, measured, mode, panel, stepVars, outcome>>

\* the balance cannot be read, the wallet refuses, or the receipt says
\* reverted or does not come in time
RedeemFails(c) ==
  /\ \E at \in {"pre", "send", "receipt"} : At(c, "redeem", at)
  /\ call' = Ends(c) /\ flow' = IF Live(c) THEN "error" ELSE flow
  /\ UNCHANGED <<formVars, panel, stepVars, chainVars, outcome>>

\* Mutant: the status of the receipt is not looked at
RedeemedUnchecked(c) ==
  /\ At(c, "redeem", "receipt") /\ tx[call[c].tx].st # "pending"
  /\ IF call[c].dest # "same"
     THEN Moves(c, "post") /\ UNCHANGED <<flowVars, stepVars, outcome>>
     ELSE IF Live(c) THEN Complete("redeemed-only", call[c].tx, 0, Ends(c))
                     ELSE Unmount(Ends(c)) /\ UNCHANGED outcome
  /\ UNCHANGED chainVars

Redeemed(c) ==
  /\ At(c, "redeem", "receipt") /\ Mined(c)
  /\ IF call[c].dest # "same"
     THEN Moves(c, "post") /\ UNCHANGED <<flowVars, stepVars, outcome>>
     ELSE IF Live(c) THEN Complete("redeemed-only", call[c].tx, 0, Ends(c))
                     ELSE Unmount(Ends(c)) /\ UNCHANGED outcome
  /\ UNCHANGED chainVars

\* what the redeem paid is the growth of the balance; the intent step appears
\* unless the destination is by now what the vault pays, and one that is there
\* starts again when the amount differs (its effect on sourceAmountRaw)
Measure(c) ==
  /\ At(c, "redeem", "post") /\ wallet > call[c].pre /\ call' = Ends(c)
  /\ IF Live(c)
     THEN /\ delta' = wallet - call[c].pre /\ measured' = call[c].tx
          /\ mode' = "intent" /\ panel' = "idle" /\ flow' = "redeemed"
          /\ IF dest = "same" THEN NoStep
             ELSE IF stage # "none" /\ delta' = delta THEN UNCHANGED stepVars ELSE FreshStep
     ELSE UNCHANGED <<delta, measured, mode, panel, flow, stepVars>>
  /\ UNCHANGED <<open, dest, redeemTx, chainVars, outcome>>

\* no growth is visible yet, or the balance cannot be read
MeasureFails(c) ==
  /\ At(c, "redeem", "post") /\ call' = Ends(c)
  /\ flow' = IF Live(c) THEN "redeemed" ELSE flow
  /\ UNCHANGED <<formVars, panel, stepVars, chainVars, outcome>>

-----------------------------------------------------------------------------
(* handleComposerRoute and ComposerWithdrawRoutePanel                       *)

StartRoute(c) ==
  /\ OnPanel /\ panel \in {"idle", "failed"}
  /\ Start(c, "route", "route-quoting", "flow") /\ flow' = "route-quoting" /\ panel' = "busy"
  /\ UNCHANGED <<formVars, stepVars, chainVars, outcome>>

\* onStateChange: each phase is shown by the panel and by the flow around it
ShowPhase(c, phase) ==
  IF Live(c) THEN flow' = phase /\ panel' = "busy" ELSE UNCHANGED <<flow, panel>>

\* the quote, then the approval
NextPhase == [a \in {"route-quoting", "composer-quoted"} |->
                IF a = "route-quoting" THEN "composer-quoted" ELSE "composer-sending"]
RouteAdvances(c) ==
  /\ \E a \in DOMAIN NextPhase :
       At(c, "route", a) /\ Moves(c, NextPhase[a]) /\ ShowPhase(c, NextPhase[a])
  /\ UNCHANGED <<formVars, stepVars, chainVars, outcome>>

SendRoute(c) ==
  /\ At(c, "route", "composer-sending")
  /\ Broadcast(c, "route", "composer-settling") /\ ShowPhase(c, "composer-settling")
  /\ UNCHANGED <<formVars, stepVars, outcome>>

\* onUpdate: each poll of the settlement, after the receipt, shows the phase again
RoutePolls(c) ==
  /\ At(c, "route", "composer-settling") /\ call[c].dest = "chain" /\ Mined(c)
  /\ ShowPhase(c, "composer-settling")
  /\ UNCHANGED <<formVars, stepVars, call, chainVars, outcome>>

\* Mutant: a failure after the broadcast offers the retry as well
RouteFailsAlike(c) ==
  /\ call[c].kind = "route" /\ call' = Ends(c)
  /\ IF Live(c) THEN panel' = "failed" /\ flow' = "redeemed" ELSE UNCHANGED <<panel, flow>>
  /\ UNCHANGED <<formVars, stepVars, chainVars, outcome>>

\* Mutant: nothing bounds the wait for the settlement
RouteFailsEarly(c) ==
  /\ call[c].kind = "route" /\ call[c].tx = NoTx /\ call' = Ends(c)
  /\ IF Live(c) THEN panel' = "failed" /\ flow' = "redeemed" ELSE UNCHANGED <<panel, flow>>
  /\ UNCHANGED <<formVars, stepVars, chainVars, outcome>>

\* Mutant: the failure is not shown on the panel
RouteFailsUnshown(c) ==
  /\ call[c].kind = "route" /\ call' = Ends(c)
  /\ flow' = IF Live(c) THEN (IF call[c].tx = NoTx THEN "redeemed" ELSE "error") ELSE flow
  /\ UNCHANGED <<formVars, panel, stepVars, chainVars, outcome>>

\* fail(): every await may throw, those for the receipt and the settlement
\* after their deadlines; the wallet's answer decides whether to offer a retry
RouteFails(c) ==
  /\ call[c].kind = "route" /\ call' = Ends(c)
  /\ IF ~Live(c) THEN UNCHANGED <<panel, flow>>
     ELSE IF call[c].tx = NoTx THEN panel' = "failed" /\ flow' = "redeemed"
     ELSE panel' = "stuck" /\ flow' = "error"
  /\ UNCHANGED <<formVars, stepVars, chainVars, outcome>>

\* Mutant: the receipt on the source chain counts as the arrival
RouteArrivesEarly(c) ==
  /\ At(c, "route", "composer-settling") /\ Mined(c)
  /\ IF Live(c) THEN Complete("composer", call[c].of, call[c].tx, Ends(c))
                ELSE Unmount(Ends(c)) /\ UNCHANGED outcome
  /\ UNCHANGED chainVars

\* a route to another chain waits for its settlement, one on the chain for its receipt
RouteArrives(c) ==
  /\ At(c, "route", "composer-settling")
  /\ tx[call[c].tx].st = IF call[c].dest = "chain" THEN "delivered" ELSE "mined"
  /\ IF Live(c) THEN Complete("composer", call[c].of, call[c].tx, Ends(c))
                ELSE Unmount(Ends(c)) /\ UNCHANGED outcome
  /\ UNCHANGED chainVars

\* the buttons: Try Intent route, and Keep underlying wherever it is offered
TryIntent ==
  /\ OnPanel /\ panel = "failed"
  /\ mode' = "intent" /\ panel' = "idle" /\ flow' = "redeemed" /\ FreshStep
  /\ UNCHANGED <<open, dest, delta, measured, redeemTx, call, chainVars, outcome>>

OffersKeep ==
  \/ ShowsRoute /\ delta = 0
  \/ OnPanel /\ panel \in {"idle", "failed"}
  \/ stage \in {"failed", "refunded"}
KeepUnderlying ==
  open /\ OffersKeep /\ Complete("kept-underlying", redeemTx, 0, call) /\ UNCHANGED chainVars

-----------------------------------------------------------------------------
(* WithdrawIntentRouteStep                                                  *)

\* setStage by a call of this step, and its effect on the flow
SetStage(c, s, f) ==
  IF call[c].live = "step" THEN stage' = s /\ flow' = f ELSE UNCHANGED <<stage, flow>>

\* handleQuote; a step that already sent an order does not ask again
ClickQuote(c) ==
  /\ stage \in {"idle", "failed"} /\ openTx = NoTx
  /\ Start(c, "quote", "quoting", "step") /\ stage' = "quoting" /\ flow' = "route-quoting"
  /\ UNCHANGED <<formVars, panel, orderVars, chainVars, outcome>>

Quoted(c) ==
  /\ At(c, "quote", "quoting") /\ call' = Ends(c)
  /\ nonce < MaxOrders /\ nonce' = nonce + 1
  /\ order' = IF call[c].live = "step" THEN nonce' ELSE order
  /\ SetStage(c, "quoted", "intent-quoted")
  /\ UNCHANGED <<formVars, panel, openTx, orderId, chainVars, outcome>>

\* handleOpen: the stage says quoted until the wallet is on the source chain
ClickOpen(c) ==
  /\ stage = "quoted" /\ order # NoOrder /\ Start(c, "open", "checking", "step")
  /\ UNCHANGED <<flowVars, stepVars, chainVars, outcome>>

OpenChecked(c) ==
  /\ At(c, "open", "checking") /\ Moves(c, "approving")
  /\ SetStage(c, "approving", "intent-open")
  /\ UNCHANGED <<formVars, panel, orderVars, chainVars, outcome>>

\* Mutant: the hash is kept where a later step finds it
SendOpenShared(c) ==
  /\ At(c, "open", "approving")
  /\ Broadcast(c, "open", "receipt") /\ openTx' = Len(tx')
  /\ UNCHANGED <<flowVars, stage, order, orderId, outcome>>

SendOpen(c) ==
  /\ At(c, "open", "approving")
  /\ Broadcast(c, "open", "receipt")
  /\ openTx' = IF call[c].live = "step" THEN Len(tx') ELSE openTx
  /\ UNCHANGED <<flowVars, stage, order, orderId, outcome>>

StepFails(c) ==
  /\ call[c].kind \in {"quote", "open", "refund"} /\ call' = Ends(c)
  /\ SetStage(c, "failed", "redeemed")
  /\ UNCHANGED <<formVars, panel, orderVars, chainVars, outcome>>

Opened(c) ==
  /\ At(c, "open", "receipt") /\ Mined(c) /\ call' = Ends(c)
  /\ SetStage(c, "open", "intent-open")
  /\ orderId' = IF call[c].live = "step" THEN call[c].order ELSE orderId
  /\ UNCHANGED <<formVars, panel, order, openTx, chainVars, outcome>>

OrderIs(n, st) == \E t \in Txs : tx[t].kind = "open" /\ tx[t].order = n /\ tx[t].st = st

\* the poll of the order's status runs in these stages
Delivered ==
  /\ stage \in {"open", "refunding", "refunded"} /\ OrderIs(orderId, "filled")
  /\ Complete("intent", redeemTx, orderId, call) /\ UNCHANGED chainVars

\* the timeline and its Refund button stay when the stage says refunded
ClickRefund(c) ==
  /\ stage \in {"open", "refunded"} /\ order # NoOrder /\ Start(c, "refund", "send", "step")
  /\ stage' = "refunding" /\ flow' = "intent-open"
  /\ UNCHANGED <<formVars, panel, orderVars, chainVars, outcome>>

SendRefund(c) ==
  /\ At(c, "refund", "send")
  /\ Broadcast(c, "refund", "receipt")
  /\ UNCHANGED <<flowVars, stepVars, outcome>>

\* onRefunded reaches the flow even when the step is gone
Refunded(c) ==
  /\ At(c, "refund", "receipt") /\ Mined(c) /\ call' = Ends(c)
  /\ stage' = IF call[c].live = "step" THEN "refunded" ELSE stage
  /\ flow' = IF Live(c) THEN "redeemed" ELSE flow
  /\ freed' = (freed \/ (call[c].live = "flow" /\ Busy))
  /\ UNCHANGED <<formVars, panel, orderVars, chainVars, outcome>>

TryComposer ==
  /\ stage = "failed" /\ mode' = "composer" /\ panel' = "idle" /\ flow' = "redeemed"
  /\ NoStep /\ call' = LeftByStep(call)
  /\ UNCHANGED <<open, dest, delta, measured, redeemTx, chainVars, outcome>>

-----------------------------------------------------------------------------
(* External: the chains, the bridge and the solvers                         *)

Pays(t, amount) == tx' = [tx EXCEPT ![t].st = "mined"] /\ wallet' = wallet + amount
Escrowed(n) == \E st \in {"mined", "filled", "refunded"} : OrderIs(n, st)

MineRedeem(t) == tx[t].kind = "redeem" /\ shares > 0 /\ shares' = shares - 1 /\ Pays(t, 1)
MineRoute(t) ==
  tx[t].kind = "route" /\ wallet >= tx[t].amt /\ Pays(t, -tx[t].amt) /\ UNCHANGED shares
MineOpen(t) ==
  /\ tx[t].kind = "open" /\ ~Escrowed(tx[t].order)
  /\ wallet >= tx[t].amt /\ Pays(t, -tx[t].amt) /\ UNCHANGED shares
MineRefund(t) ==
  /\ tx[t].kind = "refund" /\ UNCHANGED shares /\ wallet' = wallet + tx[t].amt
  /\ \E u \in Txs :
       /\ tx[u].kind = "open" /\ tx[u].order = tx[t].order /\ tx[u].st = "mined"
       /\ tx' = [tx EXCEPT ![t].st = "mined", ![u].st = "refunded"]
Revert(t) == tx' = [tx EXCEPT ![t].st = "reverted"] /\ UNCHANGED <<shares, wallet>>

ChainStep(t) ==
  /\ \/ tx[t].st = "pending"
        /\ (MineRedeem(t) \/ MineRoute(t) \/ MineOpen(t) \/ MineRefund(t) \/ Revert(t))
     \/ /\ tx[t].st = "mined" /\ (tx[t].kind = "open" \/ (tx[t].kind = "route" /\ tx[t].dest = "chain"))
        /\ tx' = [tx EXCEPT ![t].st = IF tx[t].kind = "route" THEN "delivered" ELSE "filled"]
        /\ UNCHANGED <<shares, wallet>>
  /\ UNCHANGED <<flowVars, stepVars, call, outcome>>

-----------------------------------------------------------------------------
CallStep(c) ==
  \/ Quoted(c) /\ freed' = freed
  \/ Refunded(c) /\ nonce' = nonce
  \/ /\ UNCHANGED <<nonce, freed>>
     /\ \/ ReadBefore(c) \/ SendRedeem(c) \/ RedeemFails(c) \/ Redeemed(c) \/ Measure(c) \/ MeasureFails(c)
        \/ RouteAdvances(c) \/ SendRoute(c) \/ RouteFails(c) \/ RouteArrives(c)
        \/ OpenChecked(c) \/ SendOpen(c) \/ StepFails(c) \/ Opened(c) \/ SendRefund(c)
Click(c) == Execute(c) \/ StartRoute(c) \/ ClickQuote(c) \/ ClickOpen(c) \/ ClickRefund(c)

Next ==
  \/ /\ UNCHANGED <<nonce, freed>>
     /\ \/ Open \/ Close \/ EditAmount \/ Prepared \/ KeepUnderlying \/ TryIntent \/ TryComposer \/ Delivered
        \/ \E d \in Dests : ChooseDestination(d)
        \/ \E f \in BusyStates : Prepare(f)
        \/ \E c \in Calls : Click(c) \/ RoutePolls(c)
        \/ \E t \in Txs : ChainStep(t)
  \/ \E c \in Calls : CallStep(c)

(* Every await is answered: the waits for receipts and settlements have     *)
(* deadlines, the wallet and the APIs answer or fail.                       *)
Fairness ==
  /\ WF_wVars(Prepared /\ UNCHANGED <<nonce, freed>>)
  /\ \A c \in Calls : WF_wVars(CallStep(c))

Spec == Init /\ [][Next]_wVars /\ Fairness

-----------------------------------------------------------------------------
LiveCall(kind) == \E c \in Calls : call[c].kind = kind /\ Live(c)
Spends(c) == call[c].kind \in {"redeem", "route"} /\ Live(c)

(* What is on screen matches the calls under way: the form is held for a    *)
(* redeem only while one runs, a route is shown to be under way only while  *)
(* one runs, and the step is mounted exactly when there is an amount to     *)
(* route by intent.  As long as no refund left behind has freed the form,   *)
(* no two clicks start two redeems or routes of one flow, the progress of a *)
(* route is on the panel of its own redeem, the amount to route is what     *)
(* was measured after the mined redeem on screen, and the order the step    *)
(* recorded spends it (isBusy and the conditions of the buttons,            *)
(* WithdrawFlow.tsx:895 and 1313, WithdrawIntentRouteStep.tsx:110).         *)
WithdrawInv ==
  /\ open \in BOOLEAN /\ dest \in Destinations /\ delta \in Nat /\ wallet \in Nat /\ shares \in Nat
  /\ redeemTx \in Txs \cup {NoTx} /\ openTx \in Txs \cup {NoTx}
  /\ mode \in {"intent", "composer"} /\ panel \in {"idle", "busy", "failed", "stuck"}
  /\ (stage # "none") <=> (open /\ dest # "same" /\ delta # 0 /\ mode = "intent")
  /\ flow = "redeeming" => LiveCall("redeem")
  /\ panel = "busy" => LiveCall("route")
  /\ openTx # NoTx => tx[openTx].kind = "open"
  /\ ~freed =>
       /\ \A c, d \in Calls : Spends(c) /\ Spends(d) => c = d
       /\ \A c \in Calls : call[c].kind = "route" /\ Live(c) => OnPanel /\ call[c].of = redeemTx
       /\ delta # 0 => /\ redeemTx = measured /\ redeemTx \in Txs
                       /\ tx[redeemTx].kind = "redeem" /\ tx[redeemTx].st = "mined"
       /\ openTx # NoTx => tx[openTx].of = redeemTx

(* The composer spends the proceeds of a redeem at most once, and only of a *)
(* redeem that was mined: a route that failed after its broadcast is never  *)
(* offered again, and no order of clicks, closings and late receipts sends  *)
(* a second one, unless a refund left behind freed the form                 *)
(* (failedAfterBroadcast, withdrawComposerRoute.ts:153 and                  *)
(* WithdrawFlow.tsx:1739).                                                  *)
EachRedeemIsComposedOnce ==
  ~freed => \A t, u \in Txs : tx[t].kind = "route" =>
     /\ tx[t].of \in Txs /\ tx[tx[t].of].kind = "redeem" /\ tx[tx[t].of].st = "mined"
     /\ t # u /\ tx[u].kind = "route" => tx[u].of # tx[t].of

OrderOf(r, st) == \E t \in Txs : tx[t].kind = "open" /\ tx[t].of = r /\ tx[t].st = st
Redeems(r) == r \in Txs /\ tx[r].kind = "redeem" /\ tx[r].st = "mined"
Arrived(t) ==
  /\ t \in Txs /\ tx[t].kind = "route"
  /\ tx[t].st = IF tx[t].dest = "chain" THEN "delivered" ELSE "mined"

\* what was reported has happened, and for the redeem it was reported of
Real(o) ==
  /\ o.how = "redeemed-only" => Redeems(o.of)
  /\ o.how = "composer" => Arrived(o.by)
  /\ o.how = "intent" => OrderIs(o.by, "filled")
Own(o) ==
  /\ o.how = "composer" => Redeems(o.of) /\ tx[o.by].of = o.of
  /\ o.how = "intent" => Redeems(o.of) /\ OrderOf(o.of, "filled")

(* What the flow reports has happened on the chain: the redeem was mined,   *)
(* the composer route has arrived on the chain it leads to, the order was   *)
(* filled, and "refunded" is shown only once an escrow paid back.  Unless a *)
(* refund left behind freed the form, all of it is of the redeem it is      *)
(* reported of (receipt.status, WithdrawFlow.tsx:730,                       *)
(* waitForComposerSettlement, WithdrawIntentRouteStep.tsx:337).             *)
OutcomesAreReal ==
  /\ Real(outcome)
  /\ stage = "refunded" => \E n \in 1..nonce : OrderIs(n, "refunded")
  /\ ~freed => Own(outcome) /\ (stage = "refunded" => OrderOf(redeemTx, "refunded"))

(* A form held by a call is released: by its answer, its failure or a       *)
(* deadline.  An order that is open holds it until it is delivered or       *)
(* refunded (setFlowState in every catch, WithdrawFlow.tsx:740 and 838).    *)
BusyEnds == (open /\ Busy /\ stage # "open") ~> (~open \/ ~Busy \/ stage = "open")
=============================================================================
